-------------------------- MODULE CronOccurrences --------------------------
(***************************************************************************)
(* One job of the durable cron service (services/cron/durable.rs): the row *)
(* of cron_jobs, its cron_occurrences with their runs and results, the     *)
(* tickers of the API processes, and the user's commands on the job.       *)
(* Every PostgreSQL transaction is one action.  The SELECT of a ticker is  *)
(* two: its NOT EXISTS sees the snapshot taken when the statement began,   *)
(* while FOR UPDATE re-reads the row of the job it locks.  The runs are    *)
(* those of AgentRuns, reduced to what an occurrence can tell apart; all   *)
(* runs of a job share one chat session.                                   *)
(***************************************************************************)
EXTENDS Naturals, FiniteSets

CONSTANTS
  Ticker,    \* one cron ticker per API process
  CatchUp,   \* the catch_up_policies a job is created with
  Schedule,  \* the kinds of schedule: once, interval
  Period,    \* seconds of the interval; the instant of a Once schedule
  Grace,     \* DOWNTIME_GRACE_SECONDS
  MaxRuns,   \* the values of max_runs a job is created with
  Commands,  \* the user commands this instance knows
  NoDraft,   \* no update_job request is under way
  MaxTime,   \* bound on the clock
  MaxFaults  \* bound on lost leases and lost post-commit steps

ASSUME CronAssumption ==
  /\ CatchUp \subseteq {"skip", "latest", "all"}
  /\ Schedule \subseteq {"once", "interval"}
  /\ Period \in Nat \ {0} /\ Grace \in Nat /\ MaxRuns \subseteq Nat \ {0}
  /\ Commands \subseteq {"toggle", "trigger", "edit", "delete", "cancel", "answer"}
  /\ MaxTime \in Nat /\ MaxFaults \in Nat

VARIABLES
  now,     \* the clock of the database
  job,     \* the row of cron_jobs
  draft,   \* the row an update_job request has read and not written back
  looking, \* looking[t]: now() of the ticker's open transaction, or Idle
  occ,     \* occ[s]: the occurrence with scheduled_for = s, its run, its result
  legs,    \* the executions of a run in the memory of a worker
  duties,  \* statements that follow a COMMIT and are not done yet
  faults   \* faults spent so far

vars == <<now, job, draft, looking, occ, legs, duties, faults>>

----------------------------------------------------------------------------
Time == 0 .. MaxTime + Period   \* next_run_at may lie beyond the last instant
Idle == MaxTime + 1             \* a ticker between two transactions

Final  == {"completed", "failed", "cancelled"}
Active == {"queued", "running", "waiting"}

Occurrence ==
  [ status : {"none", "enqueued", "claimed", "waiting", "skipped"} \cup Final,
    run    : {"none"} \cup Active \cup Final,
    read   : BOOLEAN,     \* the run's input is applied
    cancel : BOOLEAN,     \* cancel_requested_at IS NOT NULL
    result : {"none", "success", "error", "cancelled"} ]

Job == [ enabled : BOOLEAN, deleted : BOOLEAN, next : Time, count : Nat,
         catchUp : CatchUp, schedule : Schedule, maxRuns : MaxRuns ]

\* A leg holds the lease of the run until somebody takes it away.
Leg  == [slot : Time, holds : BOOLEAN]
Duty == [slot : Time, step : {"waiting", "result", "status"}, as : Final \cup {"none"}]

\* The row of the job, the occurrences, legs and pending statements have their
\* types; no status outside the CHECKs of migration 045 is ever written.
TypeOK ==
  /\ now \in 0 .. MaxTime
  /\ job \in Job
  /\ draft \in {NoDraft} \cup [enabled : BOOLEAN, next : Time]
  /\ looking \in [Ticker -> 0 .. Idle]
  /\ occ \in [Time -> Occurrence]
  /\ legs \subseteq Leg
  /\ duties \subseteq Duty
  /\ faults \in 0 .. MaxFaults

ComputeNextRun(schedule, base) == IF schedule = "once" THEN Period ELSE base + Period

NewOccurrence == [ status |-> "none", run |-> "none", read |-> FALSE,
                   cancel |-> FALSE, result |-> "none" ]

CreateJob(catchUp, schedule, maxRuns) ==
  [ enabled |-> TRUE, deleted |-> FALSE, next |-> ComputeNextRun(schedule, 0), count |-> 0,
    catchUp |-> catchUp, schedule |-> schedule, maxRuns |-> maxRuns ]

Init ==
  /\ now = 0
  /\ \E catchUp \in CatchUp, schedule \in Schedule, maxRuns \in MaxRuns :
       job = CreateJob(catchUp, schedule, maxRuns)
  /\ draft = NoDraft
  /\ looking = [t \in Ticker |-> Idle]
  /\ occ = [s \in Time |-> NewOccurrence]
  /\ legs = {} /\ duties = {} /\ faults = 0

Pass ==
  /\ now < MaxTime
  /\ now' = now + 1
  /\ UNCHANGED <<job, draft, looking, occ, legs, duties, faults>>

SetOccurrence(s, o) == occ' = [occ EXCEPT ![s] = o]
SetRun(s, status)   == SetOccurrence(s, [occ[s] EXCEPT !.run = status])

Fault ==
  /\ faults < MaxFaults
  /\ faults' = faults + 1

----------------------------------------------------------------------------
(* The commands of the user. *)

SetEnabled ==
  /\ "toggle" \in Commands /\ ~job.deleted
  /\ \E enabled \in BOOLEAN : job' = [job EXCEPT !.enabled = enabled]
  /\ UNCHANGED <<now, draft, looking, occ, legs, duties, faults>>

\* now() of the request is later than every earlier transaction.
TriggerJob ==
  /\ "trigger" \in Commands /\ ~job.deleted /\ now < MaxTime
  /\ now' = now + 1
  /\ job' = [job EXCEPT !.enabled = TRUE, !.next = now']
  /\ UNCHANGED <<draft, looking, occ, legs, duties, faults>>

DeleteJob ==
  /\ "delete" \in Commands /\ ~job.deleted
  /\ job' = [job EXCEPT !.enabled = FALSE, !.deleted = TRUE]
  /\ UNCHANGED <<now, draft, looking, occ, legs, duties, faults>>

\* update_job reads the row without a lock, may set enabled or a new schedule,
FetchJob ==
  /\ "edit" \in Commands /\ draft = NoDraft /\ ~job.deleted
  /\ \E enabled \in {job.enabled, TRUE, FALSE}, next \in {job.next, ComputeNextRun(job.schedule, now)} :
       draft' = [enabled |-> enabled, next |-> next]
  /\ UNCHANGED <<now, job, looking, occ, legs, duties, faults>>

\* and writes every column back, next_run_at and enabled included.
UpdateJob ==
  /\ draft # NoDraft
  /\ job' = IF job.deleted THEN job
            ELSE [job EXCEPT !.enabled = draft.enabled, !.next = draft.next]
  /\ draft' = NoDraft
  /\ UNCHANGED <<now, looking, occ, legs, duties, faults>>

----------------------------------------------------------------------------
(* The tickers. *)

\* Mutant: the final state of the occurrence, which may never be written, is
\* awaited.
OverlappingOccurrence ==
  \E s \in Time : occ[s].status \in {"enqueued", "claimed", "waiting"}

\* Mutant: a run nobody has claimed does not count.
OverlappingClaimed == \E s \in Time : occ[s].run \in {"running", "waiting"}

Overlapping == \E s \in Time : occ[s].run \in Active

Claimable(at) ==
  job.enabled /\ ~job.deleted /\ job.next <= at /\ job.count < job.maxRuns

\* fetch_due_job_for_update, up to the wait for the row lock.
LookForDueJob(t) ==
  /\ looking[t] = Idle
  /\ job.enabled /\ ~job.deleted /\ job.next <= now /\ job.count < job.maxRuns
  /\ ~Overlapping
  /\ looking' = [looking EXCEPT ![t] = now]
  /\ UNCHANGED <<now, job, draft, occ, legs, duties, faults>>

\* The row no longer qualifies, is locked, or the process dies: rolled back.
GiveUp(t) ==
  /\ looking[t] # Idle
  /\ looking' = [looking EXCEPT ![t] = Idle]
  /\ UNCHANGED <<now, job, draft, occ, legs, duties, faults>>

Base == IF job.catchUp = "all" THEN job.next ELSE now

\* Mutant: the next run is always computed from the current time.
AdvancedFromNow(counted) ==
  [job EXCEPT !.next = ComputeNextRun(job.schedule, now),
              !.count = IF counted THEN @ + 1 ELSE @,
              !.enabled = @ /\ job.schedule # "once"]

Advanced(counted) ==
  [job EXCEPT !.next = ComputeNextRun(job.schedule, Base),
              !.count = IF counted THEN @ + 1 ELSE @,
              !.enabled = @ /\ job.schedule # "once"]

Tick(t, counted) ==
  /\ looking[t] # Idle /\ Claimable(looking[t])
  /\ looking' = [looking EXCEPT ![t] = Idle]
  /\ job' = Advanced(counted)
  /\ UNCHANGED <<now, draft, legs, duties, faults>>

Overdue == now > job.next + Grace /\ job.catchUp = "skip"

WaitingDecision == \E s \in Time : occ[s].run = "waiting"

\* ON CONFLICT (job_id, scheduled_for) DO NOTHING
Skip(t) ==
  /\ Overdue \/ WaitingDecision
  /\ Tick(t, FALSE)
  /\ IF occ[job.next].status = "none"
     THEN SetOccurrence(job.next, [NewOccurrence EXCEPT !.status = "skipped"])
     ELSE UNCHANGED occ

AlreadyInserted(t) ==
  /\ ~Overdue /\ ~WaitingDecision /\ occ[job.next].status # "none"
  /\ Tick(t, FALSE)
  /\ UNCHANGED occ

Enqueue(t) ==
  /\ ~Overdue /\ ~WaitingDecision /\ occ[job.next].status = "none"
  /\ Tick(t, TRUE)
  /\ SetOccurrence(job.next,
       [NewOccurrence EXCEPT !.status = "enqueued", !.run = "queued"])

----------------------------------------------------------------------------
(* The run of an occurrence, as claim, pause, finish, defer, recovery and  *)
(* cancellation leave it.                                                  *)

Claim(s) ==
  /\ occ[s].run = "queued" /\ ~occ[s].cancel
  /\ \A other \in Time : occ[other].run \notin {"running", "waiting"}
  /\ SetOccurrence(s, [occ[s] EXCEPT !.run = "running",
       !.status = IF @ \in {"enqueued", "waiting"} THEN "claimed" ELSE @])
  /\ legs' = legs \cup {[slot |-> s, holds |-> TRUE]}
  /\ UNCHANGED <<now, job, draft, looking, duties, faults>>

\* mark_input_applied compares no lease.
ApplyInput(l) ==
  /\ ~occ[l.slot].read
  /\ SetOccurrence(l.slot, [occ[l.slot] EXCEPT !.read = TRUE])
  /\ UNCHANGED <<now, job, draft, looking, legs, duties, faults>>

Requeued(o) == [o EXCEPT !.run = "queued",
                         !.status = IF @ = "claimed" THEN "enqueued" ELSE @]

LegEnds(l, add) ==
  /\ legs' = legs \ {l}
  /\ duties' = duties \cup add
  /\ UNCHANGED <<now, job, draft, looking, faults>>

Finalize(s, status) == {[slot |-> s, step |-> "result", as |-> status]}
MarkWaiting(s)      == {[slot |-> s, step |-> "waiting", as |-> "none"]}

ActualStatus(s, requested) == IF occ[s].cancel THEN "cancelled" ELSE requested

\* The Ok branch reports what finish_run stored.
Reported(s, requested) == ActualStatus(s, requested)

LegFinishes(l) ==
  /\ l.holds
  /\ \E requested \in {"completed", "failed"} :
       /\ SetRun(l.slot, ActualStatus(l.slot, requested))
       /\ LegEnds(l, Finalize(l.slot, Reported(l.slot, requested)))

\* The Err branch finishes the run and reports a failure, whatever was stored.
LegErrs(l) ==
  /\ l.holds
  /\ SetRun(l.slot, ActualStatus(l.slot, "failed"))
  /\ LegEnds(l, Finalize(l.slot, "failed"))

LegPauses(l) ==
  /\ "answer" \in Commands /\ l.holds /\ occ[l.slot].read /\ ~occ[l.slot].cancel
  /\ SetRun(l.slot, "waiting")
  /\ LegEnds(l, MarkWaiting(l.slot))

\* A provider error parks the run.
LegDefers(l) ==
  /\ l.holds /\ ~occ[l.slot].cancel
  /\ SetOccurrence(l.slot, Requeued(occ[l.slot]))
  /\ LegEnds(l, {})

\* An answer came before the pause or the end: the occurrence stays claimed.
LegRequeues(l) ==
  /\ "answer" \in Commands /\ l.holds /\ occ[l.slot].read /\ ~occ[l.slot].cancel
  /\ SetRun(l.slot, "queued")
  /\ LegEnds(l, {})

\* The pause fails, in particular because the lease moved on; the error of
\* finish_run is ignored and the occurrence is finalized in any case.
PauseFails(l) ==
  /\ "answer" \in Commands /\ occ[l.slot].read
  /\ IF l.holds
     THEN SetRun(l.slot, ActualStatus(l.slot, "failed"))
     ELSE UNCHANGED occ
  /\ LegEnds(l, Finalize(l.slot, "failed"))

\* Mutant: the refused outcome is reported all the same.
StaleLegReports(l) ==
  /\ ~l.holds
  /\ LegEnds(l, Finalize(l.slot, "completed")) /\ UNCHANGED occ

\* Every other transition of a fenced-off leg is refused.
StaleLegEnds(l) ==
  /\ ~l.holds
  /\ LegEnds(l, {}) /\ UNCHANGED occ

\* reconcile_one_stale_run: the lease expired; the leg may live on.
Reconcile(s) ==
  /\ occ[s].run = "running" /\ Fault
  /\ legs' = {IF l.slot = s THEN [l EXCEPT !.holds = FALSE] ELSE l : l \in legs}
  /\ \/ SetOccurrence(s, Requeued(occ[s])) /\ UNCHANGED duties
     \/ "answer" \in Commands /\ occ[s].read
        /\ SetRun(s, "waiting") /\ duties' = duties \cup MarkWaiting(s)
     \/ SetRun(s, "failed") /\ duties' = duties \cup Finalize(s, "failed")
  /\ UNCHANGED <<now, job, draft, looking>>

Answer(s) ==
  /\ occ[s].run = "waiting"
  /\ SetRun(s, "queued")
  /\ UNCHANGED <<now, job, draft, looking, legs, duties, faults>>

RequestCancel(s) ==
  /\ "cancel" \in Commands /\ occ[s].run \in Active /\ ~occ[s].cancel
  /\ SetOccurrence(s, [occ[s] EXCEPT !.cancel = TRUE])
  /\ UNCHANGED <<now, job, draft, looking, legs, duties, faults>>

CancelOneQueuedRun(s) ==
  /\ occ[s].run \in {"queued", "waiting"} /\ occ[s].cancel
  /\ SetOccurrence(s, [occ[s] EXCEPT !.run = "cancelled", !.status = "cancelled"])
  /\ duties' = duties \cup Finalize(s, "cancelled")
  /\ UNCHANGED <<now, job, draft, looking, legs, faults>>

\* cancel_queued_input leaves the occurrence alone.
CancelQueuedInput(s) ==
  /\ "cancel" \in Commands /\ occ[s].run = "queued" /\ ~occ[s].read
  /\ SetOccurrence(s, [occ[s] EXCEPT !.run = "cancelled", !.cancel = TRUE])
  /\ UNCHANGED <<now, job, draft, looking, legs, duties, faults>>

----------------------------------------------------------------------------
(* After the COMMIT: the state of the occurrence. *)

Done(d) ==
  /\ duties' = duties \ {d}
  /\ UNCHANGED <<now, job, draft, looking, legs, faults>>

MarkOccurrenceWaiting(d) ==
  /\ d.step = "waiting"
  /\ SetOccurrence(d.slot, [occ[d.slot] EXCEPT !.status = "waiting"])
  /\ Done(d)

\* A completed run that printed nothing is an error ("silent", for a run that
\* printed [SILENT], counts as a success here).
ResultStatus(as) ==
  CASE as = "completed" -> {"success", "error"}
    [] as = "cancelled" -> {"cancelled"}
    [] OTHER            -> {"error"}

\* finalize_occurrence inserts the result first; a second result of the
\* occurrence is refused, and its status is then left alone,
InsertResult(d) ==
  /\ d.step = "result"
  /\ IF occ[d.slot].result = "none"
     THEN /\ \E result \in ResultStatus(d.as) :
               SetOccurrence(d.slot, [occ[d.slot] EXCEPT !.result = result])
          /\ duties' = (duties \ {d}) \cup {[d EXCEPT !.step = "status"]}
     ELSE duties' = duties \ {d} /\ UNCHANGED occ
  /\ UNCHANGED <<now, job, draft, looking, legs, faults>>

\* and the status after it, in a statement of its own.
FinalizeStatus(d) ==
  /\ d.step = "status"
  /\ SetOccurrence(d.slot, [occ[d.slot] EXCEPT !.status = d.as])
  /\ Done(d)

\* The process dies, or the statement fails: nobody repeats it.
LoseDuty(d) ==
  /\ Fault
  /\ duties' = duties \ {d}
  /\ UNCHANGED <<now, job, draft, looking, occ, legs>>

----------------------------------------------------------------------------
TickStep(t) == Skip(t) \/ AlreadyInserted(t) \/ Enqueue(t)
UserStep   == SetEnabled \/ TriggerJob \/ DeleteJob \/ FetchJob \/ UpdateJob
LegStep(l) == \/ ApplyInput(l) \/ LegFinishes(l) \/ LegErrs(l) \/ LegPauses(l)
              \/ LegDefers(l) \/ LegRequeues(l) \/ PauseFails(l) \/ StaleLegEnds(l)
RunStep(s) == \/ Claim(s) \/ Reconcile(s) \/ Answer(s) \/ RequestCancel(s)
              \/ CancelOneQueuedRun(s) \/ CancelQueuedInput(s)
DutyStep(d) == \/ MarkOccurrenceWaiting(d) \/ InsertResult(d)
               \/ FinalizeStatus(d) \/ LoseDuty(d)

Next ==
  \/ Pass \/ UserStep
  \/ \E t \in Ticker : LookForDueJob(t) \/ GiveUp(t) \/ TickStep(t)
  \/ \E s \in Time : RunStep(s)
  \/ \E l \in legs : LegStep(l)
  \/ \E d \in duties : DutyStep(d)

Spec == Init /\ [][Next]_vars
=============================================================================
