---------------------------- MODULE RunLifecycle ----------------------------
(***************************************************************************)
(* What a scan run promises to its operator (ScanRunStatus and the fields  *)
(* active_confirmed and modules_completed of ScanRun), with none of the    *)
(* tasks, handles and requests that bring it about: it moves only along    *)
(* the life cycle below, ends for good when COMPLETED or FAILED, and puts  *)
(* an active module on the list of completed ones only after the sign-off. *)
(***************************************************************************)
CONSTANTS Modules, ActiveModules

VARIABLES status, confirmed, done

lifecycle == <<status, confirmed, done>>

Init == status = "absent" /\ confirmed = FALSE /\ done = {}

Move(from, to) == status = from /\ status' = to

Begin == Move("absent", "running") /\ UNCHANGED <<confirmed, done>>

\* --yes-active signs the checkpoint off in advance.
PreAuthorise == status # "absent" /\ confirmed' = TRUE /\ UNCHANGED <<status, done>>

Record(m) ==
  /\ status = "running"
  /\ m \in ActiveModules => confirmed
  /\ done' = done \union {m}
  /\ UNCHANGED <<status, confirmed>>

Halt ==
  /\ \E to \in {"paused", "awaiting_checkpoint", "completed", "failed"} :
       Move("running", to)
  /\ UNCHANGED <<confirmed, done>>

Resume == Move("paused", "running") /\ UNCHANGED <<confirmed, done>>

SignOff ==
  /\ Move("awaiting_checkpoint", "running")
  /\ confirmed' = TRUE
  /\ UNCHANGED done

Next == \/ Begin \/ PreAuthorise \/ Halt \/ Resume \/ SignOff
        \/ \E m \in Modules : Record(m)

Spec == Init /\ [][Next]_lifecycle
=============================================================================
