------------------------------ MODULE Delegates ------------------------------
(***************************************************************************)
(* One delegate_task call of a run (agent/loop_engine.rs,                  *)
(* services/agent_runs.rs): the child runs are inserted 'running' in one   *)
(* transaction, under a lease of 30 seconds each, and executed by futures  *)
(* of the parent's task, MAX_DELEGATE_CONCURRENCY at a time.  A future     *)
(* renews the lease of its child only once it is polled.  A cancel request *)
(* marks the rows of the parent and of the children it sees, and signals   *)
(* the tokens of this process.                                             *)
(***************************************************************************)
EXTENDS Naturals, FiniteSets

CONSTANTS
  Child,        \* delegate indices of the call
  Concurrency,  \* MAX_DELEGATE_CONCURRENCY
  MaxFaults     \* bound on crashes, slow heartbeats and lapsed parent leases

DelegatesAssumption ==
  /\ IsFiniteSet(Child)
  /\ Concurrency \in Nat \ {0} /\ MaxFaults \in Nat

VARIABLES
  parent,   \* the row of the parent run
  child,    \* child[i]: row of agent_runs, trigger_type 'delegate'
  task,     \* where the tool call is
  exec,     \* exec[i]: the future that executes child i
  faults

vars == <<parent, child, task, exec, faults>>

----------------------------------------------------------------------------
\* 'interrupted' is 'failed' with error_code delegate_interrupted.
ChildRow == [ status : {"none", "running", "completed", "failed", "cancelled", "interrupted"},
              cancel : BOOLEAN,          \* cancel_requested_at IS NOT NULL
              lapsed : BOOLEAN ]         \* lease_expires_at < now()

Future == [ pc    : {"none", "waiting", "executing", "finishing", "finished", "dropped"},
            token : BOOLEAN,             \* RunCancellation
            lost  : BOOLEAN,             \* a heartbeat failed
            ok    : BOOLEAN ]            \* result.status = "completed"

\* Rows and futures have their types; no status outside the CHECK of
\* agent_runs is ever written.
TypeOK ==
  /\ parent \in [status : {"running", "final"}, cancel : BOOLEAN]
  /\ child \in [Child -> ChildRow]
  /\ task \in {"called", "starting", "registering", "delegating", "returned", "dead"}
  /\ exec \in [Child -> Future]
  /\ faults \in 0 .. MaxFaults

Init ==
  /\ parent = [status |-> "running", cancel |-> FALSE]
  /\ child = [i \in Child |-> [status |-> "none", cancel |-> FALSE, lapsed |-> FALSE]]
  /\ task = "called"
  /\ exec = [i \in Child |-> [pc |-> "none", token |-> FALSE, lost |-> FALSE, ok |-> FALSE]]
  /\ faults = 0

Fault == faults < MaxFaults /\ faults' = faults + 1

Live(i) == child[i].status = "running"
Pc(i, pc) == exec' = [exec EXCEPT ![i].pc = pc]

----------------------------------------------------------------------------
(* start_children                                                          *)

\* The row of the parent is read, not locked.
ReadParent ==
  /\ task = "called"
  /\ task' = IF parent.status = "running" /\ ~parent.cancel THEN "starting" ELSE "returned"
  /\ UNCHANGED <<parent, child, exec, faults>>

InsertChildren ==
  /\ task = "starting"
  /\ child' = [i \in Child |-> [child[i] EXCEPT !.status = "running"]]
  /\ task' = "registering"
  /\ UNCHANGED <<parent, exec, faults>>

\* One child after the other: its token, then its flag, then its first event,
\* which only the holder of its lease may append.  An error abandons them all.
RegisterChild(i) ==
  /\ task = "registering" /\ exec[i].pc = "none"
  /\ IF Live(i)
     THEN /\ exec' = [exec EXCEPT ![i].pc = "waiting", ![i].token = child[i].cancel]
          /\ task' = IF \A j \in Child \ {i} : exec[j].pc # "none" THEN "delegating" ELSE task
     ELSE /\ exec' = [j \in Child |-> [exec[j] EXCEPT !.pc = "dropped"]]
          /\ task' = "returned"
  /\ UNCHANGED <<parent, child, faults>>

----------------------------------------------------------------------------
(* run_delegate_tasks                                                      *)

Room == Cardinality({i \in Child : exec[i].pc \in {"executing", "finishing"}}) < Concurrency

StartChild(i) ==
  /\ task = "delegating" /\ exec[i].pc = "waiting"
  /\ Room
  /\ Pc(i, "executing")
  /\ UNCHANGED <<parent, child, task, faults>>

\* heartbeat_child looks at owner, epoch and status, not at the expiry.
HeartbeatChild(i) ==
  /\ exec[i].pc = "executing"
  /\ IF Live(i)
     THEN /\ child' = [child EXCEPT ![i].lapsed = FALSE]
          /\ exec' = [exec EXCEPT ![i].token = @ \/ child[i].cancel]
     ELSE /\ exec' = [exec EXCEPT ![i].token = TRUE, ![i].lost = TRUE]
          /\ UNCHANGED child
  /\ UNCHANGED <<parent, task, faults>>

\* The child's loop ends, well or not, whether or not its token was cancelled.
EndChildLoop(i) ==
  /\ exec[i].pc = "executing"
  /\ \E ok \in BOOLEAN :
       exec' = [exec EXCEPT ![i].pc = "finishing", ![i].ok = ok /\ ~exec[i].lost]
  /\ UNCHANGED <<parent, child, task, faults>>

\* Mutant: the result of the child stands, whatever was asked of it.
FinishUnasked(i) ==
  /\ exec[i].pc = "finishing"
  /\ child' = IF Live(i) THEN [child EXCEPT ![i].status = IF exec[i].ok THEN "completed" ELSE "failed"]
              ELSE child
  /\ exec' = [exec EXCEPT ![i].pc = "finished", ![i].ok = @ /\ Live(i)]
  /\ UNCHANGED <<parent, task, faults>>

\* finish_child: under the lease; a cancel request wins over the result, of
\* which the parent's model still reads "completed".
FinishChild(i) ==
  /\ exec[i].pc = "finishing"
  /\ child' = IF Live(i)
       THEN [child EXCEPT ![i].status = IF child[i].cancel THEN "cancelled"
                                        ELSE IF exec[i].ok THEN "completed" ELSE "failed"]
       ELSE child
  /\ exec' = [exec EXCEPT ![i].pc = "finished", ![i].ok = @ /\ Live(i)]
  /\ UNCHANGED <<parent, task, faults>>

ReturnResults ==
  /\ task = "delegating" /\ \A i \in Child : exec[i].pc = "finished"
  /\ task' = "returned"
  /\ UNCHANGED <<parent, child, exec, faults>>

----------------------------------------------------------------------------
(* The parent, the users and the sweep of stale runs.                      *)

Dropped == [i \in Child |-> IF exec[i].pc = "finished" THEN exec[i]
                            ELSE [exec[i] EXCEPT !.pc = "dropped"]]

\* maxRuntimeSeconds is over: the worker drops the stream, and with it the
\* futures of the children, and goes on to finish the parent.
ExpireBudget ==
  /\ task = "delegating"
  /\ exec' = Dropped /\ task' = "returned"
  /\ UNCHANGED <<parent, child, faults>>

FinishParent ==
  /\ task = "returned" /\ parent.status = "running"
  /\ parent' = [parent EXCEPT !.status = "final"]
  /\ UNCHANGED <<child, task, exec, faults>>

\* request_cancel of the parent: the statement sees the rows committed before
\* it; another process than this one has no tokens to signal.
CancelParent ==
  /\ parent.status = "running" /\ ~parent.cancel
  /\ parent' = [parent EXCEPT !.cancel = TRUE]
  /\ child' = [i \in Child |-> IF Live(i) THEN [child[i] EXCEPT !.cancel = TRUE] ELSE child[i]]
  /\ \/ exec' = [i \in Child |-> IF Live(i) /\ exec[i].pc # "none"
                                 THEN [exec[i] EXCEPT !.token = TRUE] ELSE exec[i]]
     \/ UNCHANGED exec
  /\ UNCHANGED <<task, faults>>

CancelChild(i) ==
  /\ Live(i) /\ ~child[i].cancel
  /\ child' = [child EXCEPT ![i].cancel = TRUE]
  /\ UNCHANGED <<parent, task, exec, faults>>

\* A lease lapses when nobody renews it: before its future is polled, after
\* it was dropped, or (a fault) under a future that is too slow.
LapseChild(i) ==
  /\ Live(i) /\ ~child[i].lapsed
  /\ IF exec[i].pc = "dropped" \/ (exec[i].pc = "waiting" /\ ~Room)
     THEN UNCHANGED faults ELSE Fault
  /\ child' = [child EXCEPT ![i].lapsed = TRUE]
  /\ UNCHANGED <<parent, task, exec>>

\* Mutant: a delegate is queued again as any other run would be.
RequeueChild(i) ==
  /\ Live(i) /\ child[i].lapsed
  /\ child' = [child EXCEPT ![i].status = "queued"]
  /\ UNCHANGED <<parent, task, exec, faults>>

\* Mutant: the sweep passes over the children of a run that has ended.
ReconcileUnderParent(i) ==
  /\ Live(i) /\ child[i].lapsed /\ parent.status = "running"
  /\ child' = [child EXCEPT ![i].status = "interrupted"]
  /\ UNCHANGED <<parent, task, exec, faults>>

\* reconcile_one_stale_run: a delegate is never queued again.
ReconcileChild(i) ==
  /\ Live(i) /\ child[i].lapsed
  /\ child' = [child EXCEPT ![i].status = "interrupted"]
  /\ UNCHANGED <<parent, task, exec, faults>>

\* The parent's own lease lapses during the call, whose start is in the
\* ledger without a finish: the parent fails, its futures run on.
LapseParent ==
  /\ parent.status = "running" /\ task \in {"called", "starting", "registering", "delegating"}
  /\ Fault
  /\ parent' = [parent EXCEPT !.status = "final"]
  /\ UNCHANGED <<child, task, exec>>

Crash ==
  /\ task \notin {"returned", "dead"} /\ Fault
  /\ exec' = Dropped /\ task' = "dead"
  /\ parent' = [parent EXCEPT !.status = "final"]      \* once it is reconciled
  /\ UNCHANGED child

----------------------------------------------------------------------------
TaskStep == ReadParent \/ InsertChildren \/ ReturnResults \/ FinishParent

ChildStep(i) == RegisterChild(i) \/ StartChild(i) \/ EndChildLoop(i) \/ FinishChild(i)

Next ==
  \/ TaskStep \/ ExpireBudget \/ CancelParent \/ LapseParent \/ Crash
  \/ \E i \in Child : ChildStep(i) \/ HeartbeatChild(i) \/ CancelChild(i)
                      \/ LapseChild(i) \/ ReconcileChild(i)

Spec == Init /\ [][Next]_vars

----------------------------------------------------------------------------
\* A child that was asked to stop is never recorded as completed, and no
\* record of an ended child changes, whatever its future still does.
CancelWins == [][\A i \in Child :
  /\ child[i].cancel /\ Live(i) => child'[i].status # "completed"
  /\ child[i].status \notin {"none", "running"} => child'[i] = child[i]]_vars

=============================================================================
