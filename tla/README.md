# mymy: a verification of its durable work

mymy is a personal workspace server: a Rust API (`src/api`), a React front end (`src/web`), PostgreSQL as the only state
its processes share, and a sandbox runner.  An agent works for the user in *runs*.  A run is started by a chat message,
a cron job, a proactive wake-up or another run; it must survive crashes, lost leases and closed browsers, it must not
repeat a tool call whose effect is unknown, and it stops for the user's decisions.  Around the runs there is the session
they write to, the memories inferred from it, the files and the wiki they change, and the commands they start.  This
directory models that machinery in TLA+, model-checks it with TLC and proves its central safety properties with TLAPS.

## 1. Inventory of the system

| Component (source under `src/api/src`) | State | Operations | Correct when |
|---|---|---|---|
| **Agent runs** (`services/agent_runs*`) | `agent_runs`, `session_run_inputs`, `agent_run_events`; in memory: one leg per worker | enqueue, claim, heartbeat, defer, pause, finish, reconcile, cancel, retry now, withdraw | one active run per session; a fenced worker writes nothing; no unknown effect is repeated; everything settles |
| **Decisions** (`services/decisions*`) | `decisions`, inbox and delivered revisions of the run | ask, supersede, resolve, dismiss, deliver, requeue | no answer is lost or skipped; a waiting run always has a waker |
| **Message projection** (`agent_runs.rs` 406-526, `chat/repository.rs`) | `agent_run_message_outbox`, `chat_messages`, message counts | queue, apply, sweep, fail, notices | the messages of one leg appear, completely and counted once |
| **Delegates** (`agent_runs.rs` 594-853, `loop_engine/delegate.rs`) | child rows of `agent_runs`, futures in memory | start, heartbeat, finish, recursive cancel | every child ends; a cancelled child is not completed |
| **Agent loop** (`agent/loop_engine*`, `agent/context.rs`) | the conversation, budgets, calls of a turn | model turn, parallel and sequential calls, pause, delegation, compression | what a leg adds is a conversation; the budget is kept; the leg ends |
| **Chat sessions** (`services/chat*`) | `chat_sessions`, `session_deletion_operations` | create, send, delete in two phases | a removed session has no live work; a deletion finishes |
| **Cron** (`services/cron*`, `agent/scheduler.rs`) | `cron_jobs`, `cron_occurrences`, results | tick, trigger, edit, wait, finalize | no two live occurrences of a job; every instant is counted once; results are real |
| **Drive and resource identity** (`services/drive/*`, `resource_identity.rs`, `workspace_content.rs`) | files, `drive_resources`, `resource_operations`, trash entries | prepare, apply, complete, conflict, reconcile | identities agree with the disk; one revision per write |
| **Drive sync** (`services/drive_sync.rs`, `drive/sync.rs`) | `drive_sync_jobs` with a lease; the object | enqueue, claim, send, mark, retry | every job ends; attempts are bounded |
| **Content quarantine** (`content_quarantine.rs`) | items, stored bytes | store, approve, delete, expire, reconcile | bytes are released only by a review; nothing is left behind |
| **Runtime memory** (`runtime_memory*`) | settings, cursors, batches, memories, watermark, manifests | extract, toggle, forget, recall, monitor | no backfill; every message is read; no stale memory reaches the model |
| **Sandbox** (`sandbox_runner/*`, `services/sandbox*`, `terminal/*`) | tables of the runner, its processes, `sandbox_processes`, previews | execute, start, cancel, stop, kill, list | a cancelled call leaves nothing running; rows say what runs |
| **Wiki and versions** (`services/knowledge*`, `versions*`) | `knowledge_articles`, `entity_versions` | create, update, move, delete, restore | a tree of categories; a restore can be undone |
| **Document editor** (`document_editor*`) | save receipts, bytes | save, save a copy, retry | a save is admitted once and settled |
| **Proactive coordinator** (`services/proactive.rs`) | settings, candidates, wake runs | discover, approve, ignore, change settings | one run per approval, within the budget; what is overdue is proposed |
| Authentication, notes, finance, goals, search, settings, observability, HTTP, web | their own tables | CRUD, parsing, rendering | outside this project, see section 6 |

How they interact: HTTP handlers call the services; every API process runs an agent-run worker, a cron ticker, a
drive-sync loop, a reconciliation loop of the file journal, an extraction loop, a quarantine loop and a proactive
coordinator (`main.rs` 121-139).  They share PostgreSQL rows and the files of the Drive, so an interaction is a transaction
or a file operation; only the sandbox runner is called over HTTP.  What is hard: two processes that claim the same work, a
worker that lost its lease and does not know it, a crash between two transactions of one operation, an answer that arrives
in the middle of a pause, requests that are sequences of statements, and steps after a COMMIT that never happen.  The full
list is in `PROJECT.json`, `hazards`.

## 2. Modules

| Module | Models | State and actions |
|---|---|---|
| `AgentRunStore` | rows of `agent_runs` and `session_run_inputs` (migrations 040, 041, 043, 045), event keys, open tool calls | the VARIABLES, the types, `Fenced` (the `WHERE lease_owner .. lease_epoch ..` of every fenced statement), `ActiveIn` (the unique index) |
| `AgentRunCommands` | `agent_runs/commands.rs`, `cancel_one_queued_run` | enqueue, request cancel, cancel when queued or waiting, retry now, withdraw a queued input |
| `AgentRunLease` | `agent_runs/lease.rs` | claim (SELECT and UPDATE apart), heartbeat, lapse, reconcile, defer, finish, redeliver, pause |
| `Decisions` | `services/decisions.rs`, the decision tool | ask (check, supersede, insert, finish), resolve, dismiss, deliver, requeue after the COMMIT |
| `AgentRuns` | `agent_runs/worker.rs`, `event.rs`, `tool_guard.rs`, durable effects of `loop_engine.rs` | composes the three above with the leg of a worker (`leg[w].pc`), crashes, and the steps after a COMMIT; the properties |
| `RunLifecycle` | the status trigger of migration 041 and the index of 045 | the abstract specification `AgentRuns` implements |
| `AgentRunsInv`, `AgentRunsSafety`, `AgentRunsRows` | - | the inductive invariant of the runs, the theorems about them and their proofs |
| `CronOccurrences` | `cron/durable.rs`, the cron parts of `worker.rs` and `lease.rs` | one job: its row, its occurrences with run and result, tickers, user commands, finalization after the COMMIT |
| `Transcript` | the outbox of final messages | a worker claims, runs, queues, applies statement by statement, sweeps; rows, counts and notices of a session |
| `Delegates` | one delegate call | parent, children, the futures that poll them, recovery; more children than places |
| `AgentLoop` | `loop_engine.rs` with `budget.rs`, `dispatch.rs`, `context.rs` | `phase` is where the stream stands; one action per way a turn or a call goes on |
| `SessionDeletion` | the two phases of a deletion, save receipts | fence, finalize; runs, cron, delegates and the editor's save as a request in steps |
| `MemoryExtraction` | `runtime_memory/extraction.rs` | two workers with cursor, batches, leases; settings; forgetting |
| `MemoryRecall` | the automatic recall of `runtime_memory.rs` | watermark, search, manifest, dispatch, monitor |
| `ResourceJournal` | `resource_identity.rs`, `workspace_content.rs`, `drive/operations.rs`, `drive/trash.rs` | a request per operation (prepare, apply, mark, project) and the reconciliation worker, on a disk of two paths |
| `ContentQuarantine` | `content_quarantine.rs` | clients that store, approve and delete; the worker's three sweeps |
| `DriveSync` | `drive_sync.rs`, `drive/sync.rs` | one path: file, object, jobs, and the loop of every process |
| `SandboxProcesses` | the runner in bubblewrap mode and the API's side of it | per job: the API's call, the runner's handler, the process; the runner's tables; rows, lists, stop commands |
| `SandboxSafety`, `AgentLoopSafety` | - | the proofs that a cancelled call leaves nothing running, that a leg keeps its budget and that it leaves a conversation behind |
| `CronSafety`, `CronScenesSafety`, `SessionsSafety`, `FilesSafety` | - | the inductive invariants and the proofs of the scenes: theorems of the very specifications the runs check |
| `Proactive` | `services/proactive.rs` | settings and candidates of agents; approvals as transactions of several statements; the round of the coordinator |
| `Knowledge` | wiki nodes and their versions | one client request in the order of its statements |
| `MCAgentRuns`, `MCRunScenes`, `MCRunsSettle`, `MCCron`, `MCCronScenes`, `MCSessions`, `MCDriveSync`, `MCFiles` | - | the instances for TLC, with fairness and the properties over a whole scene |

How the models follow the code:

* A PostgreSQL transaction is one action.  Its guard is the `WHERE` clause and the early returns, its effect the
  `UPDATE`s.  What the code does *after* `COMMIT` (append an event, requeue, finalize an occurrence, enqueue a sync job) is
  a step of its own and may be lost with the process.  A request that is a sequence of statements (wiki, file operations,
  approvals, extraction) is a sequence of actions.
* Where PostgreSQL lets a transaction see two moments, it is split: the claim selects a run and commits later, the
  ticker looks for a due job on one snapshot and re-reads only the row it locks.
* Time is abstract.  A lease is live or expired, a back-off is running or over, and the steps that change this
  are actions.  Cron needs instants, so it has a bounded clock.
* A tool call is known by the lease epoch it was started under: invocation ids are `run:epoch:call`
  (`agent/execution.rs` 177-184).
* A run has one input, as `enqueue_chat_run` inserts it.  The runs of the cron, transcript, delegate and deletion models
  are those of `AgentRuns` reduced to what these components can tell apart.
* The bytes of a file are the number of the operation that wrote them; a text of the wiki is a model value.
* The batch of a drive-sync claim is a set: `UPDATE ... RETURNING` promises no order.

## 3. What is checked

Each passing run is a set of *scenes*: the first state chooses a scene, `NextScene` lets one component go on and leaves the
others as they are initially.  The components of a run share no row that a property is about, so their state spaces add up and
do not multiply.  The fairness of a component is the antecedent of its liveness property (`FairX => ...`), restricted to
its scene, so that no run assumes more than a property needs.

`CHECK_DEADLOCK FALSE` everywhere: the systems really stop when all runs are final, the clock has reached its bound, no job
is left or the leg has ended.

| Run | Scenes | Shows |
|---|---|---|
| `agent_runs` | two runs of a session with a provider retry; one run with a blocking and a deferred question; 2 workers, 1 fault, all commands | one active run per session; one tool call of a run at a time; input rows agree with run rows; unknown effects are never repeated; completion only with every answer delivered; stale workers write nothing fenced; only a lost requeue strands a waiting run; **refines `RunLifecycle`** |
| `settle` | two runs (one without retries); one run with a blocking question, 2 workers; a due cron job; 1 fault each | every run ends; a cancellation becomes final from every phase; every due instant is handled |
| `cron` | 2 tickers, every policy and schedule; 1 ticker, every command on the job with stale edits; 1 fault | one live occurrence; `run_count` exact and within `max_runs`, no instant lost (`InstantsAreCounted`); a success belongs to a completed run |
| `sessions` | transcript (2 workers, 2 legs, 2 faults), deletion (2 runs, 1 save with conversion), delegation (2 children, 1 place), extraction, recall, the loop of a leg (3 iterations, limits of 3), approvals of candidates (3, 2 at a time, 2 tasks, 2 days), their discovery (2 overdue tasks, of which the oldest is searched for; 1 fault) | an applied row is complete and of one leg; counts never run ahead; projections settle; a removed session has no live work and only an abandoned save holds a fenced one; children end and a cancelled one is not completed (`CancelWins`); no backfill, every message read, no stale memory dispatched; results stand behind their turn in the order of the calls; budgets are kept; a leg ends; an approved candidate has one wake run and a day exceeds its budget only by approvals that overlap; the oldest overdue tasks are proposed, again after they were ignored |
| `files` | mirror jobs (2 processes, 2 operations), journal (3 operations, 3 identities, 2 paths, 1 fault, the worker), quarantine (2 items, 2 clients), sandbox (one call at a time, 2 viewers, 1 command, 1 fault), wiki tree (3 nodes, 1 client, 4 requests), versions (1 node, 2 clients, 3 requests) | jobs and operations settle; a revision counts the writes that completed and a conflict left no bytes behind (`WritesAreTold`), identities agree with the disk (`IdentitiesMatchDisk`); release only by review, nothing left behind; a cancelled call leaves nothing running, the rows say in the end what runs; the wiki is a tree, a restore can be undone |

Seven runs show where the code does not keep what the repository says of it (`PROJECT.json`, `findings`):

| Run | The code | The statement |
|---|---|---|
| `two_deferred` | a run that pauses a second time on the same deferred question reuses an event key and fails | the notice of a waiting run: answering resumes the work |
| `lost_requeue` | the requeue after an answer is a statement after the COMMIT; nothing repeats it | `decisions.rs` 3-5 |
| `drive_overtaken` | a retried deletion removes the object of the file that was written again | `drive_sync.rs` 4 |
| `transcript_answer` | a run that is resumed or redelivered queues its last messages in vain | `chat/repository.rs` 283-284 |
| `deletion_stuck` | a refused save leaves its receipt pending, and the fenced session is never removed | `chat/repository.rs` 487 |
| `memory_forgotten` | a batch that was cut off infers a forgotten memory again | README 170-177, migration 073 |
| `knowledge_nesting` | an update makes an article of a category that has children | migration 020, 5-7 |

The type invariants of the agent runs and of cron are not among the properties of these runs: they are proved
(`TypeCorrect` of `AgentRunsSafety` and of `CronSafety`).  Those of the sessions and the files are both checked and proved.

**Why the bounds are enough.** Two workers and one fault give every pair the code worries about: a stale holder and its
successor.  A second fault repeats the first, except in the transcript, where one fault starts the second leg and another
interrupts its projection.  Two runs of one session are what the claim's index arbitrates.  One blocking and one deferred
question cover the two ways a run can wait.  Three cron instants and a budget of one or two runs reach a backlog, a collision
of instants and an exhausted budget.  Two operations on a path give a batch of two jobs and a stale mark; three operations of
the journal on two paths a write, a move over it and a restore.  Three wiki nodes reach a cycle over a grandchild.  One call
of the sandbox meets its cancellation, the end of its process and a crash of the runner in every order; calls of different
ids touch different entries of every table, and `CancelledDoesNotRun` is proved for any number of them.  Three iterations of
a leg and limits of three reach every limit after a parallel batch, a delegation and a compression.
Every bound is a constant: `MaxFaults`, `MaxLost`, `MaxSlow` and `MaxLapses` (the last two are 0 in these runs: a request that
outlives the five minutes of the quarantine's grace period or of the journal's lease, a recall under a lapsed lease)
count what may go wrong, the other `Max...` count what users ask for or constants of the code.
Three approvals of which two overlap reach a budget of one that is overrun and the next day's; with a search limit of one for
two tasks, a task waits behind another.  Symmetry is used only for workers and tickers, in runs without a liveness property; elsewhere numbers are given out in order
(`InOrder`), which only renames operations and nodes.  In the conversation the two questions are asked in order once a fault
has happened.

**Fairness.** Weak fairness for the loop of a living process: every loop polls for ever and survives the errors of an
iteration.  Strong fairness for what an iteration tries before everything else (`reconcile_one_stale_run`,
`cancel_one_queued_run`, `worker.rs` 61-79) and for the end of a leg: its budgets end it, which `EveryLegEnds` shows from the
loop itself (in cron: the agent does not ask for ever).  Time passes: an abandoned lease expires, a back-off ends.  Requests
that were begun go on unless they are dropped, which is a fault.  Not fair: users, faults and, in cron, anything after a
COMMIT.  In `AgentRuns` the statements after a COMMIT are weakly fair but a fault may take them away.  In cron the user answers
in the end, since a waiting run blocks its job by design; the liveness of cron is checked under catch-up "all", which keeps
the most instants.  The coordinator begins
round after round and no quiet hours last the whole day (equal hours mean none, `proactive.rs` 524), so it searches for every
enabled agent again and again.  `RowsTellTheTruth` asks that somebody looks at the list of processes again and again: nothing else
refreshes the rows.

**Observations that are not runs**, because no document of the repository says otherwise, or because a property was stated to
exclude exactly this:

* *Runs.* A worker that was refused by the lease finalizes the cron occurrence of the run all the same (`worker.rs` 231 ff.);
  `OutcomeIsReal` shows that it never reports a success.  Events after a COMMIT (`run_finished` of a recovery or a
  cancellation) may be lost; no reader decides on them.  `cancel_one_queued_run` and `resolve_decision` lock run and decision in
  opposite order; PostgreSQL aborts one of them and it is tried again.
* *Cron.* With catch-up "all" and two processes a second occurrence can be started while the first is queued: the advanced
  `next_run_at` may be due again, and `NOT EXISTS` is not evaluated again after the row lock.  The session's unique index runs
  them one after the other.  `mark_occurrence_waiting` is unguarded; its status is only displayed.
* *The loop.* A leg whose last permitted iteration is an empty answer, or the reminder to finish the checklist, ends without
  an error event, so that the run is recorded as completed without closing words.  A turn whose calls were cut short by a
  pause, a limit or the answer's length stays in the conversation without results and is sent to the provider again when the
  run goes on.  Compression cuts by position and may separate results from their turn.  The tool calls of the children are
  not charged to their parent; their tokens are.
* *Sandbox.* A handler that is dropped between the start of a background process and the second look for a cancellation leaves
  an orphan nobody knows of (`CancelledDoesNotRun` excludes it).  A process the user stopped becomes "failed" or "exited" at
  the next listing.  A row that is inserted after a list was read is marked failed with it and comes back at the next one,
  but its preview stays failed.  When a run's time is over its command is dropped without `cancel_execution`.
* *Wiki.* Two concurrent moves, or a restore whose old parent was moved below the node meanwhile, close a cycle, and the nodes
  in it disappear from the tree that is shown (`build_tree` starts at the roots); `WikiIsKept` therefore claims the tree for
  one request after the other.  The versions of nodes deleted with their parent are never deleted.  An edit between a
  restore's reading and writing is lost without a version.  `WikiIsKept` says that what a restore overwrites is among the
  versions as long as fewer than `MAX_VERSIONS_PER_ENTITY` versions are made between the checkpoint and the write, which the three
  requests of the scene cannot exceed: a burst of edits in between could prune it, and write the same content back.  A refused parent leaves the fields of the same update written.
* *Proactive.* The runs of a day are counted without a lock, so candidates approved at the same time overrun the daily budget
  (`WakesAreApproved` allows as many runs beyond it as approvals overlap), and the candidates of two agents for one task can
  be approved together.  The 20 oldest overdue tasks are searched for whether or not they have a candidate: those that were
  reviewed and stay overdue hide the ones behind them, and a spawned candidate never comes back.
* *Files.* The error of `delete_object` is dropped (`drive_sync.rs` 185).  A mirror job that could not be inserted is
  reported as failed and not repeated.  `IdentitiesMatchDisk` is said of a journal that is quiet and without faults: a request
  dropped after a rename leaves an operation that asks for compensation, and the file at its new place has no identity or a new
  one without a revision.  A write whose request was dropped after it replaced the file is marked as a conflict if a move or a
  trash operation took the file away, and another write came to its path, before the worker looked there 30 seconds later:
  that the bytes are absent does not prove that "this prepared attempt never committed" (`resource_identity.rs` 333-336), they
  lie in the trash; `WritesAreTold` excludes just that (`Taken`).  The purge of an entry that was already restored is refused
  (`drive/trash.rs` 485-488) only after its operation was inserted (466-483), and the row stays prepared: unless the client
  sent the optional expected revision, the worker repeats the purge 30 seconds later without a look at `restored_at`
  (`resource_identity.rs` 553-588), finds nothing in the trash and records the entry and the identity of the restored file
  as purged (`Disturbed` of `IdentitiesMatchDisk` names it).  A restored trash entry may be overwritten by a write that finds its path free.

## 4. What is proved

TLAPS proves of the agent runs, for every number of runs, sessions, workers and decisions, every assignment of decisions to runs and every
bound on faults and retries, from `StoreAssumption` alone (the constants have their types; the null values are no
members):

| Theorem | Module | Says |
|---|---|---|
| `TypeCorrect` | `AgentRunsSafety` | `Spec => []TypeOK` |
| `Invariance` | `AgentRunsSafety` | `Spec => []Inv`, the inductive invariant |
| `OneActiveRun` | `AgentRunsSafety` | no session has two runs that are running or waiting |
| `ToolCallsAreExclusive` | `AgentRunsSafety` | a run has at most one tool call in flight |
| `NoReplay` | `AgentRunsSafety` | a run with a tool call of unknown outcome is never queued, parked or run again |
| `Refinement` | `AgentRunsRows` | `Spec => Lifecycle!Spec`: statuses and epochs behave as the trigger and the index of the database demand |
| `InputFollows` | `AgentRunsRows` | the status of an input and of its run never contradict each other |
| `CompletedIsDelivered` | `AgentRunsRows` | a completed run delivered every answer and was not cancelled |
| `NobodyWaitsInVain` | `AgentRunsRows` | an action property: only a lost requeue leaves a waiting run without a question |
| `StaleIsHarmless` | `AgentRunsRows` | a worker without its lease changes only the input's status and a decision it was inserting |

`OneActiveRun`, `ToolCallsAreExclusive` and `NoReplay` are not inductive.  The argument behind `Inv`:

1. *Epochs tell legs apart* (`LegsApart`, `OwnerIsHolder`): a claim starts an epoch nobody has, and the claim owns the row
   lock of a queued run (`ClaimsApart`).
2. *A tool call in flight is open* (`CallsAreOpen`): its start event is stored before the effect begins, and nothing but
   its own finish event closes it.
3. *An open tool call pins its run* (`OpenToolPinsRun`): every way back to the queue or into a pause is taken by the
   holder outside a tool call, or by recovery, which fails the run when a call is open.
4. Recovery, however, looks for a pending blocking question *first* and would park the run.  So the invariant must say
   that no blocking question is pending while the agent works (`AgentIsUnblocked`, `OpenToolIsUnblocked`,
   `QueuedIsUnblocked`, `OneBlocker`), which holds because asking a blocking question ends the leg and an unfenced
   insertion is refused once the run has moved on (`AskerKeepsRun`, `PauseKnowsBlocker`).  This is the least
   obvious reason why the code is right, and it breaks if an agent may go on after asking a blocking question.

`AgentRunsSafety` proves the types with one lemma per group of actions, then classifies steps by what they
disturb (`QuietStep`, `MoveStep`, `LegStepOn`, `CallOpens`, `CallCloses`, `ClaimCommitStep`, `AskInsertStep`) and then shows
for every action which class it is in.  The conjuncts of `Inv` were invariants of TLC runs before they were proved.

`AgentRunsRows` maps each action to an insertion, a start or a move of `RunLifecycle`, or to a stutter; the claim needs
`ClaimsApart` (its run is still queued), everything else only the guard of its own action.  It also has an inductive
invariant of single rows (`Sound`): besides what is claimed, a run has an input from its insertion on, and no answer is delivered
that its inbox does not have.  `StaleIsHarmless` goes through the writes of a leg: all compare owner and epoch, but for
`MarkInputApplied` and the insertion of a decision.  `NobodyWaitsInVain` shows that
every step leaves the one run it concerns awake (`Waits`), asked (`PendingOf`) or with a requeue to come (`Wakes`): a run begins
to wait only beside a pending question, the transaction of an answer adds the requeue unless the run was cancelled or has
ended, and the requeue is consumed only by queueing the run or beside another question.  A lost requeue is the
exception the property names.

Two more proofs stand beside these, each for every value of the constants of its component:

| Theorem | Module | Says |
|---|---|---|
| `SandboxInvariance`, `CancelLeavesNothing` | `SandboxSafety` | a cancelled call leaves nothing running, for any number of jobs, cancellations and faults |
| `SandboxIsTyped`, `LegIsTyped` | both | the types of every reachable state, for every value of the constants |
| `LegKeepsBudget` | `AgentLoopSafety` | a leg keeps its tool limit, and its token limit but for one turn of its own or of each child |
| `LegIsAnswered` | `AgentLoopSafety` | what a leg adds to the session is a conversation: the results of a turn behind it, in the order of its calls |

*Sandbox.* `CancelledDoesNotRun` speaks of the end of a cancellation, so its invariant must say what every stage before it has
secured.  A cancellation is noted before the registrations are read, and a job is registered before its handler looks for a
cancellation the second time (`CancelIsSeen`, `StartedIsRegistered`): one of the two always sees the other.  A process leaves the
table of executions only when it has a record (`ProcessIsKnown`), so whatever `cancel_execution` does not find there, `kill_process`
finds by its record (`KillFindsIt`).  `HandlerSteps` takes the steps of the runner one by one; rows, lists and previews are quiet.
No assumption is needed, except for the types (the bounds are numbers).

*Budget.* The invariant adds that a turn is only requested below the token limit (`RequestedBelow`).  The step that needs
thought is a delegation (`DelegationCost`): the shares of the children add up to the pool, the pool leaves at least the reserve,
and each child that has a share may begin one more turn.  It follows from `AgentLoopAssumption`: the limits are numbers, a
turn and a delegation are not empty, and the batches are sequences of calls.

*Conversation.* Results stand at positions, so the invariant says where the turn at hand stands (`EndsWith`): its words, and
behind them its results up to the call before `turn.next`, and nothing else.  Then `ResultsFollow` shows that one result, or
those of a whole batch, go on from there, and a turn whose calls have all returned is not open (`AllReturned`).  One turn may
be left open at a time, and only after the reminder (`OpenOnes`): a model that calls tools and stops at the same time is
reminded, its words stay without results and the leg goes on; since the reminder is sent once, there is no second one.  All
this is said of a conversation as a parameter (`OpenIn(g)`, `FollowsIn(g, p)`), so that it can be said of the one after a step.
`Conversation` was an invariant of a TLC run before it was proved.

The other theorems are about the specifications of the runs `cron`, `sessions` and `files` themselves, so that each of
them names the very invariant that is model-checked.  `OneSceneGoesOn` of `SessionsSafety` and `FilesSafety` says once
what the scenes are: one component goes on, what belongs to another stays.  An invariant of a scene is `IF scene = ...
THEN (its inductive invariant) ELSE (what is true initially)`. They hold for all values of the constants that satisfy
`CronAssumption` and `SceneAssumption` (of the files: the assumptions of their components, finitely many operations, and
at least one client and one text).

| Theorem | Module | Says |
|---|---|---|
| `Invariance`, `TypeCorrect`, `OutcomesAreReal` | `CronSafety` | what the user reads of an occurrence is what became of its run |
| `OneOccurrenceLives`, `NoInstantIsLost` | `CronScenesSafety` | one live occurrence; the count is exact, catching up leaves no instant out |
| `DeletedSessionIsSettled` | `SessionsSafety` | a removed session has no live work |
| `CountIsBehind` | `SessionsSafety` | the count of messages is never ahead of them, and exact but for what living workers add |
| `CancelIsKept` | `SessionsSafety` | an action property: a child asked to stop is not completed, the record of an ended one stays |
| `SceneIsTyped` | `SessionsSafety` | the types of all eight scenes |
| `RowsAreWhole` | `SessionsSafety` | an applied row is complete and of one leg |
| `NothingIsBackfilled` | `SessionsSafety` | no memory of what was written while extraction was off |
| `RecallIsFresh` | `SessionsSafety` | an action property: nothing stale reaches the model or the user |
| `WakesAreWithinBounds` | `SessionsSafety` | one wake run of an approved candidate, and a bounded overrun of the day |
| `SessionKeepsBudget`, `SessionIsAnswered` | `SessionsSafety` | `LegKeepsBudget` and `LegIsAnswered` in the sessions' scenes |
| `ReleasesAreReviewed` | `FilesSafety` | an action property: bytes leave the quarantine only by an approval |
| `WritesAreCounted` | `FilesSafety` | revisions count completed writes; a conflict left its bytes nowhere but where they were taken |
| `FilesAreTyped` | `FilesSafety` | the types of all six scenes |
| `CancelledCallsAreOver` | `FilesSafety` | `CancelLeavesNothing` in the files' scenes |

*Cron.* Legs outlive their leases and statements their run, so `Sound` says of each what it may still claim: a leg
without a lease knows of a fault, a statement that reports success is about a completed run, and the status follows
the result (`LegSound`, `DutySound`).  One live occurrence needs to know what an open transaction of a ticker can
still do: while a run is live, every transaction that looks at the job finds it not due on its own snapshot, or its
instant taken (`TooLate`).  That no instant is lost is arithmetic on the interval: `job.next` is one of its multiples,
and those before it are taken (`NoGap`; `Parts` and `NextMultiple` give the provers division with a remainder).

*Deletion.* The row of the session and that of its operation agree, a fenced session has no job that goes on, and no
save is admitted after the fence.  The finalizer removes the row under its lock when no run is active, and whatever
admits a run looks for that row.

*Transcript.* A worker reads the payload of a row before it inserts message by message, and another may sweep the same
row meanwhile. What a worker holds agrees with the row, whose leg is set once (`TaskSound`, `RowSound`), and what it
has passed is in the session, whoever put it there.

The count is a sum: what the rows hold is compared with the count and what
every worker is about to add, so `CountInv` follows the cardinality of the workers in that state; a worker that dies there is a
fault, and the count stays behind.

*Delegates.* The record of a child is decided under its row lock by whoever comes first (`RecordsStand`).

*Extraction.* A range of messages carries the revisions under which it was read.  `RangeSafe` says when they vouch for
it: while either of them is the one of today and extraction is on, every message from the start of the range on was
written with extraction on.  A toggle makes both revisions stale, and the cursor it sends to the tail leaves nothing
behind (`SettingsStep`); a late completion moves the cursor only within its revision (`CompleteBatchStep`).  The
invariant holds of batches, of what workers remember and of rows about to be inserted alike.

*Recall.* The watermark is noted before the search and every change raises it, so while it is the noted one, what was
selected is fresh (`LegIsCovered`); each dispatch compares it once more.

*Proposals.* The runs of the day are counted without a lock.  `WithinBudget` therefore counts, besides the runs, the
approvals that have passed the count, and `FewAtOnce` bounds how many can be between the count and the insertion: the
last to count saw all others but those.  One run for each candidate follows from the row lock (`Apart`,
`ApprovalHolds`).  Sets are counted with the library's theorems on cardinality.

*Journal.* A write has two witnesses that it took effect, the bytes at its path and the state of its row, and two actors that
may finish it.  `LockHolds` keeps requests apart by the locks of the Drive, `WorkerHolds` says that the worker is at an open
row whose request is over, so of both only one projects an operation, and only out of a state that is not "completed" yet
(`RowHolds`).  The revision of a file is then the number of completed writes that name it (`Counted`), and a projection adds
one operation to both.  For a conflict the invariant follows the bytes: they lie where their write put them, or a
lifecycle operation took something from that path (`BytesHold`); before a write has replaced the file they lie nowhere; and
the worker decides for a conflict only after it has found other bytes at the path (`Gone`).  No two files share an
identity's number because numbers are given out upwards (`KnownHolds`).

*Types.* They are invariants of their own where a step needs more than types to keep them: that what a mirror job sends is a
version of the file and that operations without a job are bounded by operations (`MirrorInv`), that a request of the wiki
names a node and has something to write when it checks a parent (`Asked`), that a run which may be claimed again has a leg
left (`LegLeft`).  The two scenes of
the wiki are two instances of `Knowledge`; they share state, and the proof takes each statement of both at once.

*Quarantine.* An approval is told from the worker's settlement of the same item by the version under which the row
became "approving" (`RequestHolds`, `OneHolds`); it has released the bytes before it says so, and the worker looks for
them before it decides (`SweepHolds`).  It assumes, as the run does, that no approval outlives the grace period
(`MaxSlow` is 0 in `MCFiles`).

What stays with TLC:

* Every liveness property, and `ENABLED`: out of the prover's reach.
* `WikiIsKept`: the tree is followed by a recursive definition, and what recursion computes for every depth needs
  induction over data, which the installed provers cannot instantiate.
* The other half of `WikiIsKept`, that a restore can be undone, is true within the bound on requests (see the observations).
* `IdentitiesMatchDisk`: it needs an invariant that relates every path, row and rename under way to the identities of the
  files, in the order in which the operations took their locks.  TLC checks it with three operations under a fault, where every
  operation can meet every other.

## 5. Plan

Modelled so far: the agent runs with the decisions, what feeds them (cron, proactive proposals), what they write (transcript, delegates, memory,
sessions) and what they work on (files, quarantine, mirror, sandbox, wiki).  What would come next, in this order:

1. **Proofs**: the identities of `IdentitiesMatchDisk`, first without lifecycle operations.
2. **Directories** in the file journal, and the backfill of drives that existed before it.
3. **Notes**: their restore is the sequence of `Knowledge` on another table; `Knowledge` could be parameterised for both.
4. One abstract specification of a leased job (claimed at least once, settled at most once) that extraction batches, journal
   operations and mirror jobs can be shown to implement.

## 6. What is not modelled

* Of modelled components: the text of a queued input (`update_queued_input`), the encryption-key lock that makes a claim
  return nothing, the expiry of decisions (no writer sets `expires_at`), cron jobs whose agent was deleted, the new-session
  branch of a cron tick, download jobs (nothing enqueues them), directories and artifacts, ranking, classification and
  embedding of memories, the Firecracker mode of the runner, the activity table of the proactive coordinator, projects and sort orders of the wiki.
* Parsing and rendering of DOCX, PPTX and XLSX, content inspection, cryptography and sign-in, the provider protocols and the
  tools themselves: pure transformation of data or I/O.
* Notes, calendar, finance, goals, search and settings: single-transaction CRUD and read-only queries.
* The web front end.  `PROJECT.json` lists each part with the reason.
