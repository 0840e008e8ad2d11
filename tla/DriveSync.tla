----------------------------- MODULE DriveSync -----------------------------
(***************************************************************************)
(* The mirror of one Drive path in object storage (services/drive_sync.rs) *)
(* and the operations that feed it.  A user operation changes the local    *)
(* file, commits, and only then inserts a job; every API process runs one  *)
(* loop that claims a batch of jobs under a lease nobody renews, performs  *)
(* them one after the other against the provider, and marks each of them.  *)
(* The marks compare neither the lease nor the attempt.                    *)
(* Nothing in src/ enqueues a "download", so only uploads and deletions    *)
(* are modelled.                                                           *)
(***************************************************************************)
EXTENDS Naturals, FiniteSets

CONSTANTS
  Process,      \* the API processes
  ClaimLimit,   \* CLAIM_LIMIT
  MaxAttempts,  \* MAX_ATTEMPTS
  Operation,    \* what the users do: write, trash
  NoJob,
  MaxJobs,      \* bound on user operations
  MaxFaults,    \* bound on crashes, lapsed leases and refused marks
  MaxLost       \* bound on jobs whose INSERT fails after the COMMIT

ASSUME DriveSyncAssumption ==
  /\ ClaimLimit \in Nat \ {0} /\ MaxAttempts \in Nat \ {0}
  /\ Operation \subseteq {"write", "trash"}
  /\ MaxJobs \in Nat /\ MaxFaults \in Nat /\ MaxLost \in Nat
  /\ NoJob \notin 1 .. MaxJobs

VARIABLES
  local,   \* version of the file in the Drive, 0 when there is none
  mirror,  \* version of the object, 0 when there is none
  queued,  \* committed operations whose job is not inserted yet
  ops,     \* operations so far; a write makes version ops + 1
  jobs,    \* the number of rows of drive_sync_jobs, numbered by created_at
  job,     \* job[j]: row j
  proc,    \* proc[p]: what the loop of process p holds in memory
  faults,  \* faults spent so far
  lost     \* jobs lost so far

vars == <<local, mirror, queued, ops, jobs, job, proc, faults, lost>>

----------------------------------------------------------------------------
Job == 1 .. MaxJobs

Row == [ status   : {"none", "pending", "running", "done", "failed"},
         op       : {"upload", "delete"},
         attempts : Nat,                          \* attempt_count
         due      : BOOLEAN,                      \* next_attempt_at <= now()
         expired  : BOOLEAN ]                     \* lease_expires_at <= now()

Loop == [ claimed  : SUBSET Job,                  \* jobs of the batch not done
          current  : Job \cup {NoJob},
          attempt  : [Job -> Nat],                \* attempt_count as claimed
          pc       : {"choosing", "sending", "marking"},
          body     : Nat,                         \* the version being sent
          ok       : BOOLEAN ]                    \* result of perform_job

\* File, object, rows and loops have their types; no status outside the CHECK
\* of drive_sync_jobs is ever written.
TypeOK ==
  /\ local \in 0 .. MaxJobs /\ mirror \in 0 .. MaxJobs
  /\ queued \in [{"upload", "delete"} -> Nat] /\ ops \in 0 .. MaxJobs
  /\ jobs \in 0 .. MaxJobs
  /\ job \in [Job -> Row]
  /\ proc \in [Process -> Loop]
  /\ faults \in 0 .. MaxFaults /\ lost \in 0 .. MaxLost

NewRow == [ status |-> "none", op |-> "upload", attempts |-> 0,
            due |-> TRUE, expired |-> FALSE ]

Resting == [ claimed |-> {}, current |-> NoJob, attempt |-> [j \in Job |-> 0],
             pc |-> "choosing", body |-> 0, ok |-> FALSE ]

Init ==
  /\ local = 0 /\ mirror = 0 /\ ops = 0 /\ jobs = 0 /\ faults = 0 /\ lost = 0
  /\ queued = [op \in {"upload", "delete"} |-> 0]
  /\ job = [j \in Job |-> NewRow]
  /\ proc = [p \in Process |-> Resting]

Fault == faults < MaxFaults /\ faults' = faults + 1

----------------------------------------------------------------------------
(* The users: the file first, the job after the COMMIT. *)

Operate(op, version) ==
  /\ ops < MaxJobs
  /\ ops' = ops + 1
  /\ local' = version
  /\ queued' = [queued EXCEPT ![op] = @ + 1]
  /\ UNCHANGED <<mirror, jobs, job, proc, faults, lost>>

Write == "write" \in Operation /\ Operate("upload", ops + 1)
Trash == "trash" \in Operation /\ local # 0 /\ Operate("delete", 0)

\* The INSERT fails or the process dies first: the operation stands, the
\* error is only logged.
LoseEnqueue(op) ==
  /\ queued[op] > 0 /\ lost < MaxLost
  /\ lost' = lost + 1
  /\ queued' = [queued EXCEPT ![op] = @ - 1]
  /\ UNCHANGED <<local, mirror, ops, jobs, job, proc, faults>>

\* Mutant: the status name of the other queue of this database.
EnqueueQueued(op) ==
  /\ queued[op] > 0
  /\ queued' = [queued EXCEPT ![op] = @ - 1]
  /\ jobs' = jobs + 1
  /\ job' = [job EXCEPT ![jobs + 1] = [NewRow EXCEPT !.status = "queued", !.op = op]]
  /\ UNCHANGED <<local, mirror, ops, proc, faults, lost>>

EnqueueSyncJob(op) ==
  /\ queued[op] > 0
  /\ queued' = [queued EXCEPT ![op] = @ - 1]
  /\ jobs' = jobs + 1
  /\ job' = [job EXCEPT ![jobs + 1] = [NewRow EXCEPT !.status = "pending", !.op = op]]
  /\ UNCHANGED <<local, mirror, ops, proc, faults, lost>>

----------------------------------------------------------------------------
(* The loop of a process. *)

\* Mutant: a job whose holder died is not claimed again.
ClaimablePending(j) == job[j].status = "pending" /\ job[j].due

Claimable(j) ==
  \/ job[j].status = "pending" /\ job[j].due
  \/ job[j].status = "running" /\ job[j].expired

Oldest == LET all == {j \in Job : Claimable(j)}
          IN  {j \in all : Cardinality({k \in all : k < j}) < ClaimLimit}

ClaimJobs(p) ==
  /\ proc[p].current = NoJob /\ proc[p].claimed = {}
  /\ Oldest # {}
  /\ job' = [j \in Job |-> IF j \in Oldest
               THEN [job[j] EXCEPT !.status = "running", !.attempts = @ + 1, !.expired = FALSE]
               ELSE job[j]]
  /\ proc' = [proc EXCEPT ![p] = [Resting EXCEPT
               !.claimed = Oldest,
               !.attempt = [j \in Job |-> IF j \in Oldest THEN job[j].attempts + 1 ELSE 0]]]
  /\ UNCHANGED <<local, mirror, queued, ops, jobs, faults, lost>>

\* UPDATE ... RETURNING promises no order, so the batch has none.  An upload
\* reads the file as it is now; without a file the job fails.
PerformJob(p) == \E j \in proc[p].claimed :
  /\ proc[p].current = NoJob
  /\ proc' = [proc EXCEPT ![p] = [proc[p] EXCEPT
       !.claimed = proc[p].claimed \ {j}, !.current = j,
       !.body = IF job[j].op = "upload" THEN local ELSE 0,
       !.ok = FALSE,
       !.pc = IF job[j].op = "upload" /\ local = 0 THEN "marking" ELSE "sending"]]
  /\ UNCHANGED <<local, mirror, queued, ops, jobs, job, faults, lost>>

\* The request reaches the provider or it does not, and its answer may be
\* lost.  Only the answer of a put is looked at: that of delete_object is
\* dropped, so a deletion may succeed with the object still there.
Send(p) ==
  /\ proc[p].pc = "sending"
  /\ \E ok \in BOOLEAN :
       /\ proc' = [proc EXCEPT ![p] = [@ EXCEPT !.pc = "marking", !.ok = ok]]
       /\ mirror' \in {proc[p].body} \cup
            (IF ok /\ job[proc[p].current].op = "upload" THEN {} ELSE {mirror})
  /\ UNCHANGED <<local, queued, ops, jobs, job, faults, lost>>

NextOfBatch(p) == proc' = [proc EXCEPT ![p] = [Resting EXCEPT
                             !.claimed = proc[p].claimed, !.attempt = proc[p].attempt]]

MarkDone(p) ==
  /\ proc[p].pc = "marking" /\ proc[p].ok
  /\ job' = [job EXCEPT ![proc[p].current].status = "done"]
  /\ NextOfBatch(p)
  /\ UNCHANGED <<local, mirror, queued, ops, jobs, faults, lost>>

Exhausted(attempt) == attempt >= MaxAttempts

MarkFailed(p) == LET j == proc[p].current IN
  /\ proc[p].pc = "marking" /\ ~proc[p].ok
  /\ job' = [job EXCEPT ![j] =
       IF Exhausted(proc[p].attempt[j]) THEN [@ EXCEPT !.status = "failed"]
       ELSE [@ EXCEPT !.status = "pending", !.due = FALSE]]
  /\ NextOfBatch(p)
  /\ UNCHANGED <<local, mirror, queued, ops, jobs, faults, lost>>

RetryDelayPasses(j) ==
  /\ job[j].status = "pending" /\ ~job[j].due
  /\ job' = [job EXCEPT ![j].due = TRUE]
  /\ UNCHANGED <<local, mirror, queued, ops, jobs, proc, faults, lost>>

----------------------------------------------------------------------------
(* Failures *)

Holds(p, j) == j \in proc[p].claimed \/ proc[p].current = j

\* The process dies, the client cannot be built, or a mark fails: the batch
\* is abandoned, its last request perhaps carried out.
Abandon(p) ==
  /\ proc[p] # Resting /\ Fault
  /\ proc' = [proc EXCEPT ![p] = Resting]
  /\ mirror' \in {mirror} \cup (IF proc[p].pc = "sending" THEN {proc[p].body} ELSE {})
  /\ UNCHANGED <<local, queued, ops, jobs, job, lost>>

\* Nobody renews a lease: it expires under a slow batch, too.
LeaseExpires(j) ==
  /\ job[j].status = "running" /\ ~job[j].expired
  /\ IF \E p \in Process : Holds(p, j) THEN Fault ELSE UNCHANGED faults
  /\ job' = [job EXCEPT ![j].expired = TRUE]
  /\ UNCHANGED <<local, mirror, queued, ops, jobs, proc, lost>>

----------------------------------------------------------------------------
LoopStep(p) == ClaimJobs(p) \/ PerformJob(p) \/ Send(p) \/ MarkDone(p) \/ MarkFailed(p)

Next ==
  \/ Write \/ Trash
  \/ \E op \in {"upload", "delete"} : EnqueueSyncJob(op) \/ LoseEnqueue(op)
  \/ \E p \in Process : LoopStep(p) \/ Abandon(p)
  \/ \E j \in Job : RetryDelayPasses(j) \/ LeaseExpires(j)

Spec == Init /\ [][Next]_vars
=============================================================================
