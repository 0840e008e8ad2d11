-------------------------- MODULE AgentRunCommands --------------------------
(***************************************************************************)
(* The user-facing commands on durable runs (agent_runs/commands.rs) and   *)
(* the worker-loop step that makes a requested cancellation final for a    *)
(* run no worker executes (agent_runs.rs, cancel_one_queued_run).          *)
(***************************************************************************)
EXTENDS AgentRunStore

\* Accept an input: the input row and its run are inserted together.  A
\* repeated clientRequestId returns the same run and changes nothing.
EnqueueChatRun(r) ==
  /\ run[r].status = "none"
  /\ SetRow(r, [run[r] EXCEPT !.status = "queued", !.input = "queued"])
  /\ UNCHANGED <<events, open, decision, duties, leg, faults>>

\* Record the cancellation; the run itself is stopped by whoever holds it.
RequestCancel(r) ==
  /\ run[r].status \notin Terminal \cup {"none"}
  /\ ~run[r].cancel /\ ~Locked(r)
  /\ SetRow(r, [run[r] EXCEPT !.cancel = TRUE])
  /\ UNCHANGED <<events, open, decision, duties, leg, faults>>

\* Bring a parked provider retry forward.
RequestProviderRetryNow(r) ==
  /\ run[r].status = "queued" /\ run[r].parked
  /\ ~run[r].cancel /\ ~Locked(r)
  /\ SetRow(r, [run[r] EXCEPT !.parked = FALSE])
  /\ InsertKey(r, RetryAsked(run[r].retries))
  /\ UNCHANGED <<open, decision, duties, leg, faults>>

\* Withdraw a message that no worker has claimed; run_finished follows the
\* COMMIT.
CancelQueuedInput(r) ==
  /\ run[r].status = "queued" /\ run[r].input = "queued"
  /\ ~Locked(r)
  /\ SetRow(r, [run[r] EXCEPT !.status = "cancelled", !.cancel = TRUE,
                              !.input = "cancelled"])
  /\ AddDuty(r, RunFinished)
  /\ UNCHANGED <<events, open, decision, leg, faults>>

\* The worker loop finishes a requested cancellation of a queued or waiting run.
CancelIn(r, from) ==
  /\ run[r].status \in from
  /\ run[r].cancel /\ ~Locked(r)
  /\ \E w \in Worker : leg[w].pc = "idle"
  /\ SetRow(r, [run[r] EXCEPT
       !.status = "cancelled",
       !.input = IF @ \in {"queued", "claimed"} THEN "cancelled" ELSE @])
  /\ decision' = [d \in Decision |->
       IF d \in PendingOf(r) THEN "cancelled" ELSE decision[d]]
  /\ AddDuty(r, RunFinished)
  /\ UNCHANGED <<events, open, leg, faults>>

\* Mutant: only queued runs are looked for.
CancelQueuedOnly(r) == CancelIn(r, {"queued"})

CancelOneQueuedRun(r) == CancelIn(r, {"queued", "waiting_decision"})

\* next_attempt_at passes.
BackoffElapses(r) ==
  /\ run[r].status = "queued" /\ run[r].parked /\ ~Locked(r)
  /\ SetRow(r, [run[r] EXCEPT !.parked = FALSE])
  /\ UNCHANGED <<events, open, decision, duties, leg, faults>>
============================================================================
