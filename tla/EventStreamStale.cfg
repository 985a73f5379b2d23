SPECIFICATION Spec
CONSTANTS
  cli = cli
  page = page
  Waiters <- OneWaiter
  Sockets <- OneSocket
  ReplayLimit = 2
  MaxQueue = 3
  MaxEvents = 5
PROPERTY
  NoStaleStop
