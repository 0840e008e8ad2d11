--------------------------- MODULE AgentRunStore ---------------------------
(***************************************************************************)
(* The durable state of the agent-run subsystem of mymy: the rows of       *)
(* agent_runs and session_run_inputs (one input per run), the idempotency  *)
(* keys of agent_run_events, the tool calls whose start event has no       *)
(* finish event, the decisions, and the process-local state of the workers *)
(* that execute runs.  Every PostgreSQL transaction of the code is one     *)
(* action; what the code does after a COMMIT is a separate step, recorded  *)
(* in "duties", which a crash may lose.                                    *)
(***************************************************************************)
EXTENDS Naturals

CONSTANTS
  Run,         \* agent_runs.id of the chat, cron and wake runs
  Session,     \* chat_sessions.id
  Worker,      \* one agent-run worker per API process
  Decision,    \* decisions.id
  SessionOf,   \* agent_runs.session_id, fixed at insertion
  AskedBy,     \* decisions.run_id, fixed at insertion
  Blocking,    \* the decisions inserted with suspend = true
  NoRetry,     \* the cron runs whose authorization says retryPolicy = "none"
  NoWorker, NoRun, NoDecision,
  MaxFaults,   \* bound on crashes, lost leases and lost post-commit steps
  MaxRetries   \* bound on durable provider retries

ASSUME StoreAssumption ==
  /\ SessionOf \in [Run -> Session]
  /\ AskedBy \in [Decision -> Run]
  /\ Blocking \subseteq Decision
  /\ NoRetry \subseteq Run
  /\ NoWorker \notin Worker /\ NoRun \notin Run /\ NoDecision \notin Decision
  /\ MaxFaults \in Nat /\ MaxRetries \in Nat

VARIABLES
  run,       \* run[r]: the row of agent_runs joined with its input's status
  events,    \* events[r]: idempotency keys stored for the run
  open,      \* open[r]: <<epoch, tool>> of tool_call_start without a finish
  decision,  \* decision[d]: decisions.status ("none" before the INSERT)
  duties,    \* steps that follow a COMMIT and are not done yet
  leg,       \* leg[w]: what worker w holds in memory of the run it executes
  faults     \* faults spent so far

vars == <<run, events, open, decision, duties, leg, faults>>

----------------------------------------------------------------------------
(* Types *)

Terminal == {"completed", "failed", "cancelled"}
Active   == {"running", "waiting_decision"}
Status   == {"none", "queued"} \cup Active \cup Terminal

Row == [ status    : Status,
         input     : {"none", "queued", "claimed", "applied", "cancelled"},
         epoch     : Nat,                       \* lease_epoch, the fencing token
         owner     : Worker \cup {NoWorker},    \* lease_owner
         lease     : {"none", "live", "expired"}, \* lease_expires_at against now()
         cancel    : BOOLEAN,                   \* cancel_requested_at IS NOT NULL
         parked    : BOOLEAN,                   \* next_attempt_at in the future
         retries   : Nat,                       \* provider_retry_count
         inbox     : Nat,                       \* decision_inbox_revision
         delivered : Nat ]                      \* decision_delivered_revision

DecisionStatus ==
  {"none", "pending", "resolved", "dismissed", "cancelled", "superseded"}

(* The idempotency keys the properties tell apart. *)
RunFinished      == <<"run-finished">>
RunPaused(d)     == <<"run-paused", d>>
Redelivery(n)    == <<"decision-delivery-requeue", n>>
EarlyAnswer(d)   == <<"decision-resolved-before-pause", d>>
RetryPlanned(n)  == <<"provider-retry-scheduled", n>>
RetryAsked(n)    == <<"provider-retry-requested", n>>

DecisionKey == {"run-paused", "decision-resolved-before-pause"} \X Decision
CounterKey  == {"decision-delivery-requeue", "provider-retry-scheduled",
                "provider-retry-requested"} \X Nat
Key         == {RunFinished} \cup DecisionKey \cup CounterKey

(* What remains to do after a COMMIT: append an event, or requeue a run. *)
Requeue(d) == <<"requeue", d>>
Duty == [run : Run, step : Key \cup ({"requeue"} \X Decision)]

Leg == [ pc    : {"idle", "selected", "claimed", "prepared", "delivered",
                  "working", "tool", "effect", "asking", "inserting", "asked",
                  "ended", "closing"},
         run   : Run \cup {NoRun},
         epoch : Nat,                           \* lease_epoch as claimed
         seen  : Nat,                           \* ResolvedDecisionInbox.revision
         out   : {"none", "done", "error", "abort", "cancelled", "retry"},
         ask   : Decision \cup {NoDecision} ]   \* the decision at hand

OpenCall == Nat \X {"tool", "ask"}

\* Every row, event key, call, decision and leg has the type the schema and the
\* structs of the code give it; no status outside the CHECKs is ever written.
TypeOK ==
  /\ run \in [Run -> Row]
  /\ events \in [Run -> SUBSET Key]
  /\ open \in [Run -> SUBSET OpenCall]
  /\ decision \in [Decision -> DecisionStatus]
  /\ duties \subseteq Duty
  /\ leg \in [Worker -> Leg]
  /\ faults \in 0 .. MaxFaults

----------------------------------------------------------------------------
(* Initial state *)

NewRow == [ status |-> "none", input |-> "none", epoch |-> 0,
            owner |-> NoWorker, lease |-> "none", cancel |-> FALSE,
            parked |-> FALSE, retries |-> 0, inbox |-> 0, delivered |-> 0 ]

IdleLeg == [ pc |-> "idle", run |-> NoRun, epoch |-> 0, seen |-> 0,
             out |-> "none", ask |-> NoDecision ]

Init ==
  /\ run = [r \in Run |-> NewRow]
  /\ events = [r \in Run |-> {}]
  /\ open = [r \in Run |-> {}]
  /\ decision = [d \in Decision |-> "none"]
  /\ duties = {}
  /\ leg = [w \in Worker |-> IdleLeg]
  /\ faults = 0

----------------------------------------------------------------------------
(* State predicates and updates the actions share *)

\* The row lock a claim holds between its SELECT ... FOR UPDATE and COMMIT.
Locked(r) == \E w \in Worker : leg[w].pc = "selected" /\ leg[w].run = r

\* Index one_active_primary_run_per_session.
ActiveIn(s) == \E r \in Run : SessionOf[r] = s /\ run[r].status \in Active

\* WHERE id = .. AND lease_owner = .. AND lease_epoch = .. AND status = 'running'
Fenced(w) == LET l == leg[w] IN
  /\ l.run \in Run
  /\ run[l.run].status = "running"
  /\ run[l.run].epoch = l.epoch
  /\ run[l.run].owner = w

\* Index one_blocking_pending_decision_per_run keeps this at one element.
PendingOf(r)  == {d \in Decision : AskedBy[d] = r /\ decision[d] = "pending"}
BlockersOf(r) == PendingOf(r) \cap Blocking

SetRow(r, row)   == run' = [run EXCEPT ![r] = row]
SetLeg(w, l)     == leg' = [leg EXCEPT ![w] = l]
Release(w)       == SetLeg(w, IdleLeg)
InsertKey(r, k)  == k \notin events[r] /\ events' = [events EXCEPT ![r] = @ \cup {k}]
AddDuty(r, step) == duties' = duties \cup {[run |-> r, step |-> step]}

\* A row whose lease is given up: lease_owner and lease_expires_at are NULL.
Unleased(row, s) ==
  [row EXCEPT !.status = s, !.owner = NoWorker, !.lease = "none"]
============================================================================
