----------------------------- MODULE Transcript -----------------------------
(***************************************************************************)
(* How the messages of agent runs reach the session they belong to         *)
(* (services/agent_runs.rs, agent_runs/worker.rs, chat/repository.rs).     *)
(* A run is executed in legs, one per claim of its lease; a leg that ends  *)
(* writes its messages to agent_run_message_outbox under one key per run,  *)
(* applies that row itself, message by message, and only then settles the  *)
(* run.  Every worker also sweeps rows left pending.  No lock is held      *)
(* while a row is applied: two workers may apply the same one.             *)
(* chat_sessions.message_count is raised apart from the insertions it      *)
(* counts, except for a status notice.                                     *)
(***************************************************************************)
EXTENDS Naturals, FiniteSets

CONSTANTS
  Run,             \* the runs of one session
  Worker,          \* the worker tasks of the API processes
  Length,          \* messages a leg produces
  MaxApplies,      \* attempts after which a row is failed (10 in the code)
  NoRun,
  MaxLegs,         \* bound on the legs of a run
  MaxFaults        \* bound on crashes, lapsed leases, refused insertions

ASSUME TranscriptAssumption ==
  /\ Length \in Nat \ {0} /\ MaxApplies \in Nat \ {0}
  /\ MaxLegs \in Nat \ {0} /\ MaxFaults \in Nat
  /\ NoRun \notin Run

VARIABLES
  count,    \* chat_sessions.message_count
  asked,    \* runs whose user message is in chat_messages
  rows,     \* the agents' messages in chat_messages
  notices,  \* the status notices in chat_messages
  run,      \* run[r]: the row of agent_runs
  outbox,   \* outbox[r]: the row of agent_run_message_outbox
  worker,   \* worker[w]: what a worker task holds in memory
  faults

vars == <<count, asked, rows, notices, run, outbox, worker, faults>>

----------------------------------------------------------------------------
Index == 1 .. Length

Message == [run : Run, index : Index, leg : 1 .. MaxLegs]

RunRow == [ status : {"queued", "running", "waiting_decision",
                      "completed", "failed"},
            leg    : 0 .. MaxLegs ]                        \* lease_epoch

OutboxRow == [ status   : {"none", "pending", "applied", "failed"},
               leg      : 0 .. MaxLegs,                    \* whose messages
               attempts : Nat ]

Task == [ pc      : {"idle", "claiming", "preparing", "counting", "working",
                     "queuing", "loading", "inserting", "marking", "erring",
                     "delivered", "pausing", "failing", "finishing"},
          run     : Run \cup {NoRun},
          leg     : 0 .. MaxLegs,       \* lease_epoch as claimed, 0 for a sweep
          payload : 0 .. MaxLegs,       \* the leg whose messages are applied
          next    : 1 .. Length + 1,
          saved   : 0 .. Length ]       \* saved_count

\* Rows, tasks and counters have their types; no status outside the CHECK
\* constraints of agent_runs and agent_run_message_outbox is ever written.
TypeOK ==
  /\ count \in Nat /\ faults \in 0 .. MaxFaults
  /\ asked \subseteq Run /\ rows \subseteq Message
  /\ notices \subseteq Run \X {"waiting", "failed"}
  /\ run \in [Run -> RunRow]
  /\ outbox \in [Run -> OutboxRow]
  /\ worker \in [Worker -> Task]

Idle == [ pc |-> "idle", run |-> NoRun, leg |-> 0, payload |-> 0,
          next |-> 1, saved |-> 0 ]

Init ==
  /\ count = 0 /\ faults = 0
  /\ asked = {} /\ rows = {} /\ notices = {}
  /\ run = [r \in Run |-> [status |-> "queued", leg |-> 0]]
  /\ outbox = [r \in Run |-> [status |-> "none", leg |-> 0, attempts |-> 0]]
  /\ worker = [w \in Worker |-> Idle]

At(w, pc) == worker[w].pc = pc
Goto(w, pc) == worker' = [worker EXCEPT ![w].pc = pc]

\* The worker's lease is the one in the row: owner, epoch, status 'running'.
Holds(w) == LET r == worker[w].run IN
  run[r].status = "running" /\ run[r].leg = worker[w].leg

\* A worker that ends its sweep or its run starts its next iteration.
Rest(w) == worker' = [worker EXCEPT ![w] = Idle]

Inline(w) == worker[w].leg # 0

----------------------------------------------------------------------------
(* An iteration of a worker: a pending projection goes before a claim.     *)

\* Mutant: the sweep takes rows that were never tried, only.
SweepUntried(w, r) ==
  /\ At(w, "idle") /\ outbox[r].status = "pending" /\ outbox[r].attempts = 0
  /\ worker' = [worker EXCEPT ![w] = [Idle EXCEPT !.pc = "loading", !.run = r]]
  /\ UNCHANGED <<count, asked, rows, notices, run, outbox, faults>>

SweepProjection(w, r) ==
  /\ At(w, "idle") /\ outbox[r].status = "pending"
  /\ worker' = [worker EXCEPT ![w] = [Idle EXCEPT !.pc = "loading", !.run = r]]
  /\ UNCHANGED <<count, asked, rows, notices, run, outbox, faults>>

NoPendingProjection(w) ==
  /\ At(w, "idle") /\ \A r \in Run : outbox[r].status # "pending"
  /\ \E r \in Run : run[r].status = "queued"
  /\ Goto(w, "claiming")
  /\ UNCHANGED <<count, asked, rows, notices, run, outbox, faults>>

ClaimRun(w, r) ==
  /\ At(w, "claiming") /\ run[r].status = "queued"
  /\ \A s \in Run : run[s].status # "running"      \* one active run a session
  /\ run' = [run EXCEPT ![r] = [status |-> "running", leg |-> @.leg + 1]]
  /\ worker' = [worker EXCEPT ![w] = [Idle EXCEPT !.pc = "preparing", !.run = r,
                                                  !.leg = run[r].leg + 1]]
  /\ UNCHANGED <<count, asked, rows, notices, outbox, faults>>

NothingToClaim(w) ==
  /\ At(w, "claiming")
  /\ \/ \A r \in Run : run[r].status # "queued"
     \/ \E r \in Run : run[r].status = "running"
  /\ Rest(w)
  /\ UNCHANGED <<count, asked, rows, notices, run, outbox, faults>>

----------------------------------------------------------------------------
(* A leg.  The user's message is inserted by the first leg that gets here. *)

InsertUserMessage(w) == LET r == worker[w].run IN
  /\ At(w, "preparing")
  /\ asked' = asked \cup {r}
  /\ Goto(w, IF r \in asked THEN "working" ELSE "counting")
  /\ UNCHANGED <<count, rows, notices, run, outbox, faults>>

CountUserMessage(w) ==
  /\ At(w, "counting")
  /\ count' = count + 1
  /\ Goto(w, "working")
  /\ UNCHANGED <<asked, rows, notices, run, outbox, faults>>

\* The agent loop ends: with messages, or with an error.
EndLoop(w) ==
  /\ At(w, "working")
  /\ \E pc \in {"queuing", "failing"} : Goto(w, pc)
  /\ UNCHANGED <<count, asked, rows, notices, run, outbox, faults>>

\* The provider asks to be called later: the run is parked without messages.
DeferForProvider(w) == LET r == worker[w].run IN
  /\ At(w, "working")
  /\ IF Holds(w)
     THEN run[r].leg < MaxLegs /\ run' = [run EXCEPT ![r].status = "queued"]
     ELSE UNCHANGED run
  /\ Rest(w)
  /\ UNCHANGED <<count, asked, rows, notices, outbox, faults>>

QueueProjection(w) == LET r == worker[w].run IN
  /\ At(w, "queuing")
  /\ outbox' = IF Holds(w) /\ outbox[r].status = "none"
               THEN [outbox EXCEPT ![r].status = "pending", ![r].leg = worker[w].leg]
               ELSE outbox
  /\ Goto(w, IF outbox'[r].status = "none" THEN "failing" ELSE "loading")
  /\ UNCHANGED <<count, asked, rows, notices, run, faults>>

----------------------------------------------------------------------------
(* The application of a row, by the leg that queued it or by a sweep.      *)

AfterApply(w) == IF Inline(w) THEN Goto(w, "delivered") ELSE Rest(w)
AfterError(w) == IF Inline(w) THEN Goto(w, "failing") ELSE Rest(w)

LoadProjection(w) == LET r == worker[w].run IN
  /\ At(w, "loading")
  /\ IF outbox[r].status = "applied"
     THEN AfterApply(w)
     ELSE worker' = [worker EXCEPT ![w].pc = "inserting", ![w].next = 1,
                                   ![w].saved = 0, ![w].payload = outbox[r].leg]
  /\ UNCHANGED <<count, asked, rows, notices, run, outbox, faults>>

\* Mutant: every message is counted, whether or not it was inserted.
SaveCounting(w) == LET task == worker[w]
                       new == \A m \in rows : m.run # task.run \/ m.index # task.next
  IN
  /\ At(w, "inserting") /\ task.next \in Index
  /\ rows' = IF new
             THEN rows \cup {[run |-> task.run, index |-> task.next, leg |-> task.payload]}
             ELSE rows
  /\ worker' = [worker EXCEPT ![w].next = @ + 1, ![w].saved = @ + 1]
  /\ UNCHANGED <<count, asked, notices, run, outbox, faults>>

\* ON CONFLICT (agent_run_id, run_message_index) DO NOTHING; only a message
\* that was inserted is counted.
SaveMessage(w) == LET task == worker[w]
                      new == \A m \in rows : m.run # task.run \/ m.index # task.next
  IN
  /\ At(w, "inserting") /\ task.next \in Index
  /\ rows' = IF new
             THEN rows \cup {[run |-> task.run, index |-> task.next, leg |-> task.payload]}
             ELSE rows
  /\ worker' = [worker EXCEPT ![w].next = @ + 1,
                              ![w].saved = IF new THEN @ + 1 ELSE @]
  /\ UNCHANGED <<count, asked, notices, run, outbox, faults>>

\* Mutant: a message that cannot be inserted is skipped.
SaveSkips(w) ==
  /\ At(w, "inserting") /\ worker[w].next \in Index
  /\ faults < MaxFaults /\ faults' = faults + 1
  /\ worker' = [worker EXCEPT ![w].next = @ + 1]
  /\ UNCHANGED <<count, asked, rows, notices, run, outbox>>

SaveFails(w) ==
  /\ At(w, "inserting") /\ worker[w].next \in Index
  /\ faults < MaxFaults /\ faults' = faults + 1
  /\ Goto(w, "erring")
  /\ UNCHANGED <<count, asked, rows, notices, run, outbox>>

CountMessages(w) ==
  /\ At(w, "inserting") /\ worker[w].next = Length + 1
  /\ count' = count + worker[w].saved
  /\ worker' = [worker EXCEPT ![w].pc = "marking", ![w].saved = 0]
  /\ UNCHANGED <<asked, rows, notices, run, outbox, faults>>

MarkApplied(w) == LET r == worker[w].run IN
  /\ At(w, "marking")
  /\ outbox' = [outbox EXCEPT ![r].status = "applied", ![r].attempts = @ + 1]
  /\ AfterApply(w)
  /\ UNCHANGED <<count, asked, rows, notices, run, faults>>

\* Not guarded by the status: a row another worker applied is opened again.
MarkFailed(w) == LET r == worker[w].run IN
  /\ At(w, "erring")
  /\ outbox' = [outbox EXCEPT
       ![r].status = IF outbox[r].attempts >= MaxApplies - 1 THEN "failed" ELSE "pending",
       ![r].attempts = @ + 1]
  /\ AfterError(w)
  /\ UNCHANGED <<count, asked, rows, notices, run, faults>>

----------------------------------------------------------------------------
(* The end of a leg.                                                       *)

Notice(w, kind) == LET n == <<worker[w].run, kind>> IN
  /\ notices' = notices \cup {n}
  /\ count' = IF n \in notices THEN count ELSE count + 1

\* A Decision is pending: the notice first, then the run is paused.
PersistWaitingNotice(w) ==
  /\ At(w, "delivered")
  /\ Notice(w, "waiting")
  /\ Goto(w, "pausing")
  /\ UNCHANGED <<asked, rows, run, outbox, faults>>

PauseRun(w) == LET r == worker[w].run IN
  /\ At(w, "pausing")
  /\ IF Holds(w)
     THEN /\ run[r].leg < MaxLegs
          /\ run' = [run EXCEPT ![r].status = "waiting_decision"]
          /\ Rest(w)
     ELSE UNCHANGED run /\ Goto(w, "failing")
  /\ UNCHANGED <<count, asked, rows, notices, outbox, faults>>

\* finish_run: completed, or queued again to deliver an answer given meanwhile.
CompleteRun(w) == LET r == worker[w].run IN
  /\ At(w, "delivered")
  /\ \/ Holds(w) /\ run' = [run EXCEPT ![r].status = "completed"]
     \/ Holds(w) /\ run[r].leg < MaxLegs /\ run' = [run EXCEPT ![r].status = "queued"]
     \/ ~Holds(w) /\ UNCHANGED run
  /\ Rest(w)
  /\ UNCHANGED <<count, asked, rows, notices, outbox, faults>>

\* The notice of a failure does not look at the lease; the failure does.
PersistFailureNotice(w) ==
  /\ At(w, "failing")
  /\ Notice(w, "failed")
  /\ Goto(w, "finishing")
  /\ UNCHANGED <<asked, rows, run, outbox, faults>>

FailRun(w) == LET r == worker[w].run IN
  /\ At(w, "finishing")
  /\ run' = IF Holds(w) THEN [run EXCEPT ![r].status = "failed"] ELSE run
  /\ Rest(w)
  /\ UNCHANGED <<count, asked, rows, notices, outbox, faults>>

----------------------------------------------------------------------------
(* The surroundings.                                                       *)

AnswerDecision(r) ==
  /\ run[r].status = "waiting_decision"
  /\ run' = [run EXCEPT ![r].status = "queued"]
  /\ UNCHANGED <<count, asked, rows, notices, outbox, worker, faults>>

Owned(r) == \E w \in Worker : worker[w].run = r /\ worker[w].leg = run[r].leg

\* reconcile_one_stale_run: the lease lapsed, because its owner is gone or
\* (one of the faults) because it was too slow.
ReconcileStaleRun(r) ==
  /\ run[r].status = "running"
  /\ IF Owned(r) THEN faults < MaxFaults /\ faults' = faults + 1
                 ELSE UNCHANGED faults
  /\ \E status \in {"queued", "failed"} :
       /\ status = "queued" => run[r].leg < MaxLegs
       /\ run' = [run EXCEPT ![r].status = status]
  /\ UNCHANGED <<count, asked, rows, notices, outbox, worker>>

Crash(w) ==
  /\ ~At(w, "idle")
  /\ faults < MaxFaults /\ faults' = faults + 1
  /\ Rest(w)
  /\ UNCHANGED <<count, asked, rows, notices, run, outbox>>

WorkerStep(w) ==
  \/ \E r \in Run : SweepProjection(w, r) \/ ClaimRun(w, r)
  \/ NoPendingProjection(w) \/ NothingToClaim(w)
  \/ InsertUserMessage(w) \/ CountUserMessage(w)
  \/ EndLoop(w) \/ DeferForProvider(w) \/ QueueProjection(w)
  \/ LoadProjection(w) \/ SaveMessage(w) \/ CountMessages(w)
  \/ MarkApplied(w) \/ MarkFailed(w)
  \/ PersistWaitingNotice(w) \/ PauseRun(w) \/ CompleteRun(w)
  \/ PersistFailureNotice(w) \/ FailRun(w)

Next ==
  \/ \E w \in Worker : WorkerStep(w) \/ SaveFails(w) \/ Crash(w)
  \/ \E r \in Run : AnswerDecision(r) \/ ReconcileStaleRun(r)

Spec == Init /\ [][Next]_vars

----------------------------------------------------------------------------
\* The messages of a run in its session are those of the leg that queued them,
\* never a mixture of two deliveries, and a row marked applied has them all,
\* though nobody locks it while it is applied and they go in one by one.
AppliedIsComplete == \A r \in Run :
  /\ \A m \in rows : m.run = r => m.leg = outbox[r].leg
  /\ outbox[r].status = "applied" =>
       \A i \in Index : [run |-> r, index |-> i, leg |-> outbox[r].leg] \in rows

\* What the last leg of a completed run answered is in the session, where the
\* user can find it after reconnecting (the comment on
\* save_run_status_message in chat/repository.rs).
AnswerAppears == \A r \in Run : run[r].status = "completed" =>
  \E m \in rows : m.run = r /\ m.leg = run[r].leg
=============================================================================
