-------------------------- MODULE MCModuleSession --------------------------
(* Two coroutines to a module, batches of two rows and one write that may   *)
(* fail.  A behaviour has one of two questions in focus: the rows of two    *)
(* modules one after the other, that ask public services; or two requests   *)
(* of one module, and of what outlives it, with chains of redirects between *)
(* an address in scope, one out of it and a public service.                 *)
EXTENDS ModuleSession, TLC
CONSTANTS w1, w2, inside, outside
VARIABLE focus

TwoWorkers == {w1, w2}
TwoTargets == {inside, outside}
OneInScope == {inside}
\* Sound: coroutines are never compared but for equality.
WorkerSymmetry == Permutations(Workers)

RowsInFocus ==
  focus = "rows" /\ \A w \in Workers : worker'[w].to = ThirdParty /\ worker'[w].hops = 0
HopsInFocus ==
  focus = "hops" /\ asked' <= 2 /\ (module' = 1 \/ phase' # "run")

MCInit == Init /\ focus \in {"rows", "hops"}
MCNext == Next /\ UNCHANGED focus /\ (RowsInFocus \/ HopsInFocus)
MCSpec == MCInit /\ [][MCNext]_<<vars, focus>>
=============================================================================
