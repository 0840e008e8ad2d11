---------------------------- MODULE RunLifecycle ----------------------------
(***************************************************************************)
(* What the durable run table promises, whatever workers, users and        *)
(* crashes do: the status graph of the database trigger (migration 041),   *)
(* at most one active run per session (migration 045), a lease epoch that  *)
(* grows by one exactly when a queued run starts, and final states that    *)
(* stay final.                                                             *)
(***************************************************************************)
EXTENDS Naturals

CONSTANTS Run, Session, SessionOf

VARIABLES status, epoch

Terminal == {"completed", "failed", "cancelled"}
Active   == {"running", "waiting_decision"}

\* enforce_agent_run_status_transition, less what no reachable writer uses:
\* queued -> failed, waiting_decision -> running, and waiting_decision ->
\* failed, which only the expiry of decisions asks for (none ever expires).
Allowed(s) ==
  CASE s = "queued"           -> {"cancelled"}
    [] s = "running"          -> {"queued", "waiting_decision"} \cup Terminal
    [] s = "waiting_decision" -> {"queued", "cancelled"}
    [] OTHER                  -> {}

Init ==
  /\ status = [r \in Run |-> "none"]
  /\ epoch = [r \in Run |-> 0]

Insert(r) ==
  /\ status[r] = "none"
  /\ status' = [status EXCEPT ![r] = "queued"]
  /\ UNCHANGED epoch

Start(r) ==
  /\ status[r] = "queued"
  /\ \A q \in Run : SessionOf[q] = SessionOf[r] => status[q] \notin Active
  /\ status' = [status EXCEPT ![r] = "running"]
  /\ epoch' = [epoch EXCEPT ![r] = @ + 1]

Move(r) ==
  /\ \E s \in Allowed(status[r]) : status' = [status EXCEPT ![r] = s]
  /\ UNCHANGED epoch

Next == \E r \in Run : Insert(r) \/ Start(r) \/ Move(r)

Spec == Init /\ [][Next]_<<status, epoch>>
============================================================================
