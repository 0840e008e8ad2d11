--------------------------- MODULE AgentRunLease ---------------------------
(***************************************************************************)
(* Lease transitions of agent_runs/lease.rs: claim, heartbeat, provider    *)
(* deferral, pause, finish and the recovery of runs whose lease expired.   *)
(* The epoch a worker was given at its claim fences everything it writes.  *)
(***************************************************************************)
EXTENDS AgentRunStore

----------------------------------------------------------------------------
(* Claim: a SELECT that locks the candidate, then the UPDATE.  The two      *)
(* statements see different snapshots, so another run of the session may    *)
(* become active in between; the unique index then aborts the transaction.  *)

\* Mutant: a run is only picked up while its input is still queued.
EligibleUnclaimedOnly(r) ==
  /\ run[r].status = "queued" /\ run[r].input = "queued"
  /\ ~run[r].parked /\ ~run[r].cancel /\ ~ActiveIn(SessionOf[r])

Eligible(r) ==
  /\ run[r].status = "queued" /\ ~run[r].parked /\ ~run[r].cancel
  /\ \/ run[r].epoch = 0 /\ run[r].input = "queued"
     \/ run[r].epoch > 0 /\ run[r].input \in {"queued", "claimed", "applied"}
  /\ ~ActiveIn(SessionOf[r])

\* SKIP LOCKED may pass over an earlier input whose row another transaction
\* holds for a moment, so any eligible run can be the candidate.
ClaimSelect(w, r) ==
  /\ leg[w].pc = "idle"
  /\ Eligible(r) /\ ~Locked(r)
  /\ SetLeg(w, [IdleLeg EXCEPT !.pc = "selected", !.run = r])
  /\ UNCHANGED <<run, events, open, decision, duties, faults>>

ClaimUpdate(w, row) == LET r == leg[w].run IN
  /\ leg[w].pc = "selected"
  /\ SetRow(r, [row EXCEPT !.status = "running", !.owner = w, !.epoch = @ + 1,
                           !.lease = "live", !.parked = FALSE])
  /\ SetLeg(w, [leg[w] EXCEPT !.pc = "claimed", !.epoch = row.epoch + 1])
  /\ UNCHANGED <<events, open, decision, duties, faults>>

Claimed(row) == [row EXCEPT !.input = IF @ = "queued" THEN "claimed" ELSE @]

\* Mutant: no unique index behind the claim's own check.
ClaimWithoutIndex(w) == ClaimUpdate(w, Claimed(run[leg[w].run]))

\* Mutant: the input row is not claimed with its run.
ClaimRunOnly(w) == LET r == leg[w].run IN
  leg[w].pc = "selected" /\ ~ActiveIn(SessionOf[r]) /\ ClaimUpdate(w, run[r])

ClaimCommit(w) == LET r == leg[w].run IN
  leg[w].pc = "selected" /\ ~ActiveIn(SessionOf[r]) /\ ClaimUpdate(w, Claimed(run[r]))

\* Unique violation: the transaction rolls back, the iteration is logged.
ClaimConflict(w) ==
  /\ leg[w].pc = "selected"
  /\ ActiveIn(SessionOf[leg[w].run])
  /\ Release(w)
  /\ UNCHANGED <<run, events, open, decision, duties, faults>>

----------------------------------------------------------------------------
(* Lease time *)

\* A worker still executes the run under its current epoch.
Held(r) == \E w \in Worker :
  leg[w].run = r /\ leg[w].pc # "selected" /\ leg[w].epoch = run[r].epoch

\* Without heartbeats the lease runs out: nobody holds it, or (a fault) the
\* holder is cut off from the database or stalled for RUN_LEASE_SECONDS.
LeaseLapses(r) ==
  /\ run[r].status = "running" /\ run[r].lease = "live"
  /\ IF Held(r) THEN faults < MaxFaults /\ faults' = faults + 1
                ELSE UNCHANGED faults
  /\ SetRow(r, [run[r] EXCEPT !.lease = "expired"])
  /\ UNCHANGED <<events, open, decision, duties, leg>>

\* The heartbeat task runs from the run_started event until the outcome.
Heartbeat(w) == LET r == leg[w].run IN
  /\ leg[w].pc \notin {"idle", "selected", "claimed", "closing"}
  /\ Fenced(w) /\ run[r].lease = "expired"
  /\ SetRow(r, [run[r] EXCEPT !.lease = "live"])
  /\ UNCHANGED <<events, open, decision, duties, leg, faults>>

----------------------------------------------------------------------------
(* Recovery of a run whose lease expired *)

Stale(r) ==
  /\ run[r].status = "running" /\ run[r].lease = "expired"
  /\ \E w \in Worker : leg[w].pc = "idle"

\* A blocking decision is pending: the run waits for it.
ReconcilePause(r) ==
  /\ Stale(r)
  /\ \E d \in BlockersOf(r) : AddDuty(r, RunPaused(d))
  /\ SetRow(r, Unleased(run[r], "waiting_decision"))
  /\ UNCHANGED <<events, open, decision, leg, faults>>

\* A tool call started and did not finish: its effect is unknown.
\* Mutant: recovery does not look at open tool calls.
NoUnknownEffect(r) == FALSE

HasUnknownEffect(r) == open[r] # {}

ReconcileFail(r) ==
  /\ Stale(r) /\ BlockersOf(r) = {}
  /\ HasUnknownEffect(r) \/ r \in NoRetry
  /\ SetRow(r, Unleased(run[r], "failed"))
  /\ AddDuty(r, RunFinished)
  /\ UNCHANGED <<events, open, decision, leg, faults>>

ReconcileRequeue(r) ==
  /\ Stale(r) /\ BlockersOf(r) = {}
  /\ ~HasUnknownEffect(r) /\ r \notin NoRetry
  /\ SetRow(r, [Unleased(run[r], "queued") EXCEPT
       !.input = IF @ = "claimed" THEN "queued" ELSE @])
  /\ UNCHANGED <<events, open, decision, duties, leg, faults>>

ReconcileOneStaleRun(r) ==
  ReconcilePause(r) \/ ReconcileFail(r) \/ ReconcileRequeue(r)

----------------------------------------------------------------------------
(* What a worker does with the outcome of its leg *)

Closing(w, outs) == leg[w].pc = "closing" /\ leg[w].out \in outs

\* Provider blocked: give the lease up and try again later.
Defer(w, row) ==
  /\ Closing(w, {"retry"})
  /\ Fenced(w) /\ ~row.cancel
  /\ SetRow(leg[w].run, row)
  /\ InsertKey(leg[w].run, RetryPlanned(run[leg[w].run].retries + 1))
  /\ Release(w)
  /\ UNCHANGED <<open, decision, duties, faults>>

Parked(row) == [Unleased(row, "queued") EXCEPT !.parked = TRUE]

DeferRunForProviderRetry(w) ==
  Defer(w, [Parked(run[leg[w].run]) EXCEPT !.retries = @ + 1])

\* A refused deferral is only logged; the lease is left to expire.
DeferFails(w) == LET r == leg[w].run IN
  /\ Closing(w, {"retry"})
  /\ \/ ~Fenced(w) \/ run[r].cancel
     \/ RetryPlanned(run[r].retries + 1) \in events[r]
  /\ Release(w)
  /\ UNCHANGED <<run, events, open, decision, duties, faults>>

Finishing(w) ==
  Closing(w, {"done", "error", "abort", "cancelled"}) /\ leg[w].ask = NoDecision

\* The answers resolved after the leg read its inbox must still be delivered.
\* Mutant: late answers are not looked for.
NeverRedeliver(w) == FALSE

MustRedeliver(w) == LET r == leg[w].run IN
  ~run[r].cancel /\ leg[w].out = "done" /\ run[r].inbox > run[r].delivered

FinishRequeues(w) == LET r == leg[w].run IN
  /\ Finishing(w) /\ Fenced(w) /\ MustRedeliver(w)
  /\ InsertKey(r, Redelivery(run[r].inbox))
  /\ SetRow(r, [Unleased(run[r], "queued") EXCEPT !.parked = FALSE])
  /\ Release(w)
  /\ UNCHANGED <<open, decision, duties, faults>>

\* A durable cancellation beats whatever the leg produced.
FinalStatus(w) ==
  IF run[leg[w].run].cancel \/ leg[w].out = "cancelled" THEN "cancelled"
  ELSE IF leg[w].out = "done" THEN "completed"
  ELSE "failed"

Finish(w) == LET r == leg[w].run IN
  /\ Finishing(w) /\ ~MustRedeliver(w)
  /\ InsertKey(r, RunFinished)
  /\ SetRow(r, [Unleased(run[r], FinalStatus(w)) EXCEPT
       !.input = IF @ # "claimed" THEN @
                 ELSE IF FinalStatus(w) = "cancelled" THEN "cancelled"
                 ELSE "applied"])
  /\ Release(w)
  /\ UNCHANGED <<open, decision, duties, faults>>

\* Mutant: the final transition does not compare owner and epoch.
FinishUnfenced(w) == Finish(w) /\ run[leg[w].run].status = "running"

FinishRun(w) == Fenced(w) /\ Finish(w)

\* The lease moved on, or an event key is taken: the error is logged.
FinishFails(w) == LET r == leg[w].run IN
  /\ Finishing(w)
  /\ \/ ~Fenced(w)
     \/ (IF MustRedeliver(w) THEN Redelivery(run[r].inbox) ELSE RunFinished)
           \in events[r]
  /\ Release(w)
  /\ UNCHANGED <<run, events, open, decision, duties, faults>>

Pausing(w) == leg[w].pc = "closing" /\ leg[w].ask \in Decision

\* The event key of the branch pause_run_for_decision takes.
PauseKey(w) == LET d == leg[w].ask IN
  IF decision[d] = "pending" THEN RunPaused(d) ELSE EarlyAnswer(d)

\* Suspend on a decision that is still pending, or go back to the queue when
\* the answer arrived first.
Pause(w, status) == LET r == leg[w].run IN
  /\ Pausing(w)
  /\ Fenced(w) /\ ~run[r].cancel
  /\ InsertKey(r, PauseKey(w))
  /\ SetRow(r, Unleased(run[r], status))
  /\ Release(w)
  /\ UNCHANGED <<open, decision, duties, faults>>

\* Mutant: the answer that arrived before the pause is not noticed.
PauseRegardless(w) == Pause(w, "waiting_decision")

PauseRunForDecision(w) ==
  Pause(w, IF decision[leg[w].ask] = "pending" THEN "waiting_decision" ELSE "queued")

\* A failed pause becomes a failed run (decision_pause_failed).
PauseFails(w) == LET r == leg[w].run IN
  /\ Pausing(w)
  /\ ~Fenced(w) \/ run[r].cancel \/ PauseKey(w) \in events[r]
  /\ SetLeg(w, [leg[w] EXCEPT !.out = "abort", !.ask = NoDecision])
  /\ UNCHANGED <<run, events, open, decision, duties, faults>>
============================================================================
