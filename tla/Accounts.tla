------------------------------ MODULE Accounts ------------------------------
(* The operator account (orchestrator/auth.py) as the web routes              *)
(* use it: setup, login, the sliding expiry of a session, logout, the change  *)
(* of the password. A request reads first and writes when it flushes, so two  *)
(* requests interleave between their reads and their writes.                  *)
EXTENDS Naturals, FiniteSets

CONSTANTS Users,      \* user names a setup form may give
          MaxSessions,\* bound: sessions opened in all, numbered as they come
          Requests,   \* requests at work at a time
          Idle,       \* session_idle_timeout_minutes, in steps of the clock
          MaxClock    \* bound: the clock stops here

NoOne == "noone"
Sessions == 1..MaxSessions

ASSUME AccountsAssumption ==
  /\ NoOne \notin Users
  /\ MaxSessions \in Nat /\ Idle \in Nat /\ MaxClock \in Nat

VARIABLES clock,
          password, \* user row -> its hash, as the number of the password it
                    \* is of, from 1; 0 where there is no row
          sessions, \* token -> its row; user NoOne where there is none
          request,  \* what a request has read
          newest,   \* history: the number of the last password of a user
          closed,   \* history: sessions ever revoked
          clashed   \* history: "setup" when two setups overlapped, "rehash"
                    \* when a rehash overlapped a change

accVars == <<clock, password, sessions, request, newest, closed, clashed>>

NoRow  == [user |-> NoOne, exp |-> 0, revoked |-> FALSE, pw |-> 0, late |-> FALSE]
NoReq  == [op |-> "none", user |-> NoOne, pw |-> 0, sid |-> 0, at |-> 0]
Registered  == {u \in Users : password[u] # 0}
Ready(r, q)  == request[r].op = "none" /\ request' = [request EXCEPT ![r] = q]
Finish(r)    == request' = [request EXCEPT ![r] = NoReq]

AccInit ==
  /\ clock = 0 /\ clashed = {} /\ closed = {}
  /\ newest = [u \in Users |-> 0]
  /\ password = [u \in Users |-> 0]
  /\ sessions = [s \in Sessions |-> NoRow]
  /\ request = [r \in Requests |-> NoReq]

AccTypeOK ==
  /\ clock \in 0..MaxClock /\ clashed \subseteq {"setup", "rehash"}
  /\ newest \in [Users -> Nat] /\ closed \subseteq Sessions
  /\ password \in [Users -> Nat]
  /\ sessions \in [Sessions -> [user : Users \union {NoOne}, exp : 0..(MaxClock + Idle),
                                revoked : BOOLEAN, pw : Nat, late : BOOLEAN]]
  /\ \A r \in Requests :
       /\ request[r].op \in {"none", "setup", "login", "touch", "change"}
       /\ request[r].op = "touch" => sessions[request[r].sid].user # NoOne

Tick ==
  /\ clock < MaxClock /\ clock' = clock + 1
  /\ UNCHANGED <<password, sessions, request, newest, closed, clashed>>

\* The setup gate and create_initial_admin's own needs_setup.
SetupCheck(r, u) ==
  /\ Registered = {}
  /\ Ready(r, [NoReq EXCEPT !.op = "setup", !.user = u])
  /\ UNCHANGED <<clock, password, sessions, newest, closed, clashed>>

\* generate_session_token never gives the same token twice.
Fresh(s) == sessions[s].user = NoOne /\ \A x \in 1..(s - 1) : sessions[x].user # NoOne

\* start_session: the row of a new token.
NewSession(s, u, pw, late) ==
  /\ Fresh(s)
  /\ sessions' = [sessions EXCEPT ![s] =
       [user |-> u, exp |-> clock + Idle, revoked |-> FALSE, pw |-> pw, late |-> late]]

\* The insert; only the name is unique. The same name again is an integrity
\* error, and the request ends with it.
SetupInsert(r, s) ==
  LET q == request[r]
  IN  /\ q.op = "setup" /\ Finish(r)
      /\ IF q.user \notin Registered
         THEN /\ password' = [password EXCEPT ![q.user] = 1]
              /\ newest' = [newest EXCEPT ![q.user] = 1]
              /\ NewSession(s, q.user, 1, FALSE)
              /\ clashed' = IF Registered = {} THEN clashed ELSE clashed \union {"setup"}
         ELSE UNCHANGED <<password, newest, sessions, clashed>>
      /\ UNCHANGED <<clock, closed>>

\* maybe_bootstrap_admin, at the start of the process and before any request.
Bootstrap(u) ==
  /\ clock = 0 /\ Registered = {} /\ \A r \in Requests : request[r].op = "none"
  /\ password' = [password EXCEPT ![u] = 1] /\ newest' = [newest EXCEPT ![u] = 1]
  /\ UNCHANGED <<clock, sessions, request, closed, clashed>>

\* authenticate: the password given is the one of the row as read.
LoginVerify(r, u) ==
  /\ u \in Registered
  /\ Ready(r, [NoReq EXCEPT !.op = "login", !.user = u, !.pw = password[u], !.at = newest[u]])
  /\ UNCHANGED <<clock, password, sessions, newest, closed, clashed>>

\* last_login and the session are flushed; with a rehash due, so is the hash of
\* the password that was read.
LoginStart(r, s, rehash) ==
  LET q == request[r]
  IN  /\ q.op = "login" /\ Finish(r)
      /\ NewSession(s, q.user, q.pw, q.at # newest[q.user])
      /\ password' = IF rehash THEN [password EXCEPT ![q.user] = q.pw] ELSE password
      /\ clashed' = IF rehash /\ q.at # newest[q.user] THEN clashed \union {"rehash"} ELSE clashed
      /\ UNCHANGED <<clock, newest, closed>>

\* resolve_session: the row must be there, not revoked and not expired.
Usable(s) ==
  sessions[s].user # NoOne /\ ~sessions[s].revoked /\ sessions[s].exp >= clock

Resolve(r, s) ==
  /\ Usable(s)
  /\ Ready(r, [NoReq EXCEPT !.op = "touch", !.user = sessions[s].user, !.sid = s, !.at = clock])
  /\ UNCHANGED <<clock, password, sessions, newest, closed, clashed>>

\* The plausible slip: the row is written back whole, as it was read.
Touch_WholeRow(r) ==
  LET q == request[r]
  IN  /\ q.op = "touch" /\ Finish(r)
      /\ sessions' = [sessions EXCEPT ![q.sid].exp = q.at + Idle, ![q.sid].revoked = FALSE]
      /\ UNCHANGED <<clock, password, newest, closed, clashed>>

\* The sliding expiry is written when the request's transaction ends, with the
\* time at which it was resolved; the other columns of the row are not written.
Touch(r) ==
  LET q == request[r]
  IN  /\ q.op = "touch" /\ Finish(r)
      /\ sessions' = [sessions EXCEPT ![q.sid].exp = q.at + Idle]
      /\ UNCHANGED <<clock, password, newest, closed, clashed>>

\* Logout: end_session, with whatever token the cookie holds.
Logout(s) ==
  /\ sessions[s].user # NoOne /\ ~sessions[s].revoked
  /\ sessions' = [sessions EXCEPT ![s].revoked = TRUE]
  /\ closed' = closed \union {s}
  /\ UNCHANGED <<clock, password, request, newest, clashed>>

\* change_password compares the old one with the row the request read.
ChangeVerify(r, s) ==
  /\ Usable(s)
  /\ Ready(r, [NoReq EXCEPT !.op = "change", !.user = sessions[s].user, !.sid = s])
  /\ UNCHANGED <<clock, password, sessions, newest, closed, clashed>>

\* The new hash is flushed by the query for the user's sessions, which takes
\* the database's write lock: the sweep and the fresh session commit with it.
ChangeCommit(r, s) ==
  LET q == request[r]
      swept == [x \in Sessions |-> IF sessions[x].user = q.user
                                   THEN [sessions[x] EXCEPT !.revoked = TRUE] ELSE sessions[x]]
  IN  /\ q.op = "change" /\ Finish(r)
      /\ password' = [password EXCEPT ![q.user] = newest[q.user] + 1]
      /\ newest' = [newest EXCEPT ![q.user] = @ + 1]
      /\ Fresh(s)
      /\ sessions' = [swept EXCEPT ![s] = [user |-> q.user, exp |-> clock + Idle,
                        revoked |-> FALSE, pw |-> newest[q.user] + 1, late |-> FALSE]]
      /\ closed' = closed \union {x \in Sessions : sessions[x].user = q.user}
      /\ UNCHANGED <<clock, clashed>>

AccNext ==
  \/ Tick
  \/ \E u \in Users : Bootstrap(u) \/ \E r \in Requests : SetupCheck(r, u) \/ LoginVerify(r, u)
  \/ \E r \in Requests, s \in Sessions :
       \/ SetupInsert(r, s) \/ ChangeCommit(r, s) \/ Resolve(r, s)
       \/ \E b \in BOOLEAN : LoginStart(r, s, b)
       \/ ChangeVerify(r, s)
  \/ \E r \in Requests : Touch(r)
  \/ \E s \in Sessions : Logout(s)

AccSpec == AccInit /\ [][AccNext]_accVars

-----------------------------------------------------------------------------
(* Property *)

\* However requests overlap: a session that was signed out, by its own logout
\* or by a change of the password, never works again, though a request resolved
\* before still writes its expiry; after a change no session opened with an
\* older password works, but one whose login was verified before the change and
\* stored after it; the password on file is the newest, unless such a login
\* also renewed its hash; and there is one account, unless two setups overlap.
SessionsEnd ==
  /\ \A s \in Sessions : Usable(s) =>
       /\ s \notin closed
       /\ \/ sessions[s].pw = newest[sessions[s].user]
          \/ sessions[s].late \/ "rehash" \in clashed
  /\ "rehash" \in clashed \/ password = newest
  /\ "setup" \in clashed \/ Cardinality(Registered) <= 1
=============================================================================
