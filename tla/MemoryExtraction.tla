--------------------------- MODULE MemoryExtraction ---------------------------
(***************************************************************************)
(* Memories inferred from a session (services/runtime_memory/extraction.rs *)
(* and create_memory of services/runtime_memory.rs).  A worker puts the    *)
(* messages after the session's cursor into a batch, claims it under a     *)
(* lease of 30 seconds that nobody renews, and creates one memory after    *)
(* the other, a transaction each, before it completes the batch and moves  *)
(* the cursor.  Meanwhile the user writes, turns extraction off and on,    *)
(* and forgets memories.                                                   *)
(* One session and one profile; every message is a memory of a topic of    *)
(* its own; the deletion of the session is left to SessionDeletion.        *)
(***************************************************************************)
EXTENDS Naturals, FiniteSets

CONSTANTS
  Worker,       \* extraction workers, one in each API process
  BatchSize,    \* MESSAGE_BATCH_SIZE
  MaxMessages,  \* bound on the messages written
  MaxBatches,   \* bound on the rows of memory_extraction_batches
  MaxChanges,   \* bound on the changes of the settings
  MaxFaults     \* bound on crashes, slow workers, refused candidates

MemoryExtractionAssumption ==
  /\ BatchSize \in Nat \ {0} /\ MaxMessages \in Nat /\ MaxBatches \in Nat
  /\ MaxChanges \in Nat /\ MaxFaults \in Nat

VARIABLES
  settings,   \* row of memory_runtime_settings
  message,    \* message[m]: was extraction on or off when m was written
  cursor,     \* row of memory_extraction_cursors
  batch,      \* batch[b]: row of memory_extraction_batches
  memory,     \* inferred rows of agent_memories that were not deleted
  forgotten,  \* messages whose memory the user deleted
  worker,     \* worker[w]: what a worker holds in memory
  faults

store == <<settings, message, cursor, batch, memory, forgotten>>
vars == <<settings, message, cursor, batch, memory, forgotten, worker, faults>>

----------------------------------------------------------------------------
Message == 1 .. MaxMessages
Batch == 1 .. MaxBatches

\* Mutant: a batch that failed is not tried again.
Unfinished == {"queued", "processing"}

Open == {"queued", "processing", "failed"}

BatchRow == [ state : {"none", "committed", "skipped"} \cup Open,
              first : 0 .. MaxMessages, last : 0 .. MaxMessages,
              conversation : Nat,           \* conversation_revision
              settings : Nat ]              \* settings_revision

Task == [ pc : {"idle", "reading", "inserting", "claiming", "checking",
                "creating", "skipping", "releasing"},
          batch : 0 .. MaxBatches,
          row : BatchRow,                   \* the batch, claimed or to insert
          next : 0 .. MaxMessages + 1 ]     \* the next candidate

\* Rows and tasks have their types; no state outside the CHECK of migration
\* 067 is ever written.
TypeOK ==
  /\ settings \in [enabled : BOOLEAN, revision : Nat]
  /\ message \in [Message -> {"none", "on", "off"}]
  /\ cursor \in [last : 0 .. MaxMessages, revision : Nat]
  /\ batch \in [Batch -> BatchRow]
  /\ memory \subseteq [batch : Batch, message : Message]
  /\ forgotten \subseteq Message
  /\ worker \in [Worker -> Task]
  /\ faults \in 0 .. MaxFaults

NoRow == [state |-> "none", first |-> 0, last |-> 0, conversation |-> 0, settings |-> 0]
Idle == [pc |-> "idle", batch |-> 0, row |-> NoRow, next |-> 0]

\* The session is new: revision 0 stands for a cursor without a row.
Init ==
  /\ settings \in [enabled : BOOLEAN, revision : {1}]
  /\ message = [m \in Message |-> "none"]
  /\ cursor = [last |-> 0, revision |-> 0]
  /\ batch = [b \in Batch |-> NoRow]
  /\ memory = {} /\ forgotten = {}
  /\ worker = [w \in Worker |-> Idle]
  /\ faults = 0

Tail == Cardinality({m \in Message : message[m] # "none"})
Rows == Cardinality({b \in Batch : batch[b].state # "none"})

At(w, pc) == worker[w].pc = pc
Goto(w, pc) == worker' = [worker EXCEPT ![w].pc = pc]
Rest(w) == worker' = [worker EXCEPT ![w] = [Idle EXCEPT !.pc = "claiming"]]

Fault == faults < MaxFaults /\ faults' = faults + 1

----------------------------------------------------------------------------
(* The user.                                                               *)

WriteMessage ==
  /\ Tail < MaxMessages
  /\ message' = [message EXCEPT ![Tail + 1] = IF settings.enabled THEN "on" ELSE "off"]
  /\ UNCHANGED <<settings, cursor, batch, memory, forgotten, worker, faults>>

\* Mutant: the cursor stays where it is.
ToggleInPlace ==
  /\ settings.revision <= MaxChanges
  /\ settings' = [enabled |-> ~settings.enabled, revision |-> settings.revision + 1]
  /\ batch' = [b \in Batch |-> IF batch[b].state \in Open
                               THEN [batch[b] EXCEPT !.state = "skipped"] ELSE batch[b]]
  /\ UNCHANGED <<message, cursor, memory, forgotten, worker, faults>>

\* update_runtime_settings with another inferred_extraction_enabled: the
\* cursor goes to the tail and the open batches are skipped.
ToggleExtraction ==
  /\ settings.revision <= MaxChanges
  /\ settings' = [enabled |-> ~settings.enabled, revision |-> settings.revision + 1]
  /\ cursor' = [last |-> Tail, revision |-> cursor.revision + 1]
  /\ batch' = [b \in Batch |-> IF batch[b].state \in Open
                               THEN [batch[b] EXCEPT !.state = "skipped"] ELSE batch[b]]
  /\ UNCHANGED <<message, memory, forgotten, worker, faults>>

\* update_runtime_settings with another of its fields.
ChangeOtherSetting ==
  /\ settings.revision <= MaxChanges
  /\ settings' = [settings EXCEPT !.revision = @ + 1]
  /\ UNCHANGED <<message, cursor, batch, memory, forgotten, worker, faults>>

\* review_memory with action 'delete': the content is scrubbed, and with it
\* the reference to the batch.
ForgetMemory(row) ==
  /\ row \in memory
  /\ memory' = memory \ {row}
  /\ forgotten' = forgotten \cup {row.message}
  /\ UNCHANGED <<settings, message, cursor, batch, worker, faults>>

----------------------------------------------------------------------------
(* enqueue_batches: three statements without a transaction.                *)

Waiting ==
  /\ settings.enabled
  /\ \A b \in Batch : batch[b].state \notin Open
  /\ Tail > cursor.last

ReadSession(w) ==
  /\ At(w, "idle") /\ Waiting
  /\ worker' = [worker EXCEPT ![w].pc = "reading",
       ![w].row = [NoRow EXCEPT !.first = cursor.last + 1,
                     !.conversation = IF cursor.revision = 0 THEN 1 ELSE cursor.revision,
                     !.settings = settings.revision]]
  /\ UNCHANGED <<store, faults>>

NothingToEnqueue(w) ==
  /\ At(w, "idle") /\ ~Waiting
  /\ \E b \in Batch : batch[b].state \in Open
  /\ Goto(w, "claiming")
  /\ UNCHANGED <<store, faults>>

ReadMessages(w) == LET limit == worker[w].row.first + BatchSize - 1 IN
  /\ At(w, "reading")
  /\ worker' = [worker EXCEPT ![w].pc = "inserting",
                              ![w].row.last = IF Tail < limit THEN Tail ELSE limit]
  /\ UNCHANGED <<store, faults>>

\* The unique key of the table: the range and the revision of the cursor.
Known(row) == \E b \in Batch : batch[b].state # "none" /\
  <<batch[b].first, batch[b].last, batch[b].conversation>> =
    <<row.first, row.last, row.conversation>>

InsertBatch(w) == LET row == worker[w].row IN
  /\ At(w, "inserting")
  /\ IF Known(row)
     THEN UNCHANGED batch
     ELSE /\ Rows < MaxBatches
          /\ batch' = [batch EXCEPT ![Rows + 1] = [row EXCEPT !.state = "queued"]]
  /\ Rest(w)
  /\ UNCHANGED <<settings, message, cursor, memory, forgotten, faults>>

----------------------------------------------------------------------------
(* claim_batch and process_batch.                                          *)

Held(b) == \E w \in Worker : worker[w].batch = b

\* A batch in process is taken over when its worker is gone or (a fault) has
\* been at it for longer than its lease.
ClaimBatch(w, b) ==
  /\ At(w, "claiming") /\ batch[b].state \in Open
  /\ IF batch[b].state = "processing" /\ Held(b) THEN Fault ELSE UNCHANGED faults
  /\ batch' = [batch EXCEPT ![b].state = "processing"]
  /\ worker' = [worker EXCEPT ![w] = [pc |-> "checking", batch |-> b,
                                      row |-> batch'[b], next |-> batch[b].first]]
  /\ UNCHANGED <<settings, message, cursor, memory, forgotten>>

NothingToClaim(w) ==
  /\ At(w, "claiming")
  /\ \A b \in Batch : batch[b].state \in Open => batch[b].state = "processing" /\ Held(b)
  /\ worker' = [worker EXCEPT ![w] = Idle]
  /\ UNCHANGED <<store, faults>>

CheckSettings(w) ==
  /\ At(w, "checking")
  /\ Goto(w, IF settings = [enabled |-> TRUE, revision |-> worker[w].row.settings]
             THEN "creating" ELSE "skipping")
  /\ UNCHANGED <<store, faults>>

\* create_memory, under locks on the settings and on the batch; the index on
\* batch and topic makes a repeated creation an update of nothing.
Admitted(w) ==
  /\ settings = [enabled |-> TRUE, revision |-> worker[w].row.settings]
  /\ batch[worker[w].batch].state = "processing"

CreateMemory(w) == LET task == worker[w] IN
  /\ At(w, "creating") /\ task.next <= task.row.last
  /\ IF Admitted(w)
     THEN /\ memory' = memory \cup {[batch |-> task.batch, message |-> task.next]}
          /\ worker' = [worker EXCEPT ![w].next = @ + 1]
     ELSE UNCHANGED memory /\ Goto(w, "releasing")
  /\ UNCHANGED <<settings, message, cursor, batch, forgotten, faults>>

CreateFails(w) ==
  /\ At(w, "creating") /\ worker[w].next <= worker[w].row.last
  /\ Fault
  /\ Goto(w, "releasing")
  /\ UNCHANGED store

\* complete_batch: under the state, not under the lease.
CompleteBatch(w) == LET task == worker[w]  row == worker[w].row IN
  /\ At(w, "skipping") \/ (At(w, "creating") /\ task.next > row.last)
  /\ IF batch[task.batch].state = "processing"
     THEN /\ batch' = [batch EXCEPT ![task.batch].state =
                         IF At(w, "skipping") THEN "skipped" ELSE "committed"]
          /\ cursor' = CASE cursor.revision = 0 ->
                              [last |-> row.last, revision |-> row.conversation]
                         [] cursor.revision \in 1 .. row.conversation ->
                              [last |-> row.last, revision |-> cursor.revision + 1]
                         [] OTHER -> cursor
     ELSE UNCHANGED <<batch, cursor>>
  /\ Rest(w)
  /\ UNCHANGED <<settings, message, memory, forgotten, faults>>

\* release_failed_batch: whatever has become of the batch.
ReleaseFailedBatch(w) ==
  /\ At(w, "releasing")
  /\ batch' = [batch EXCEPT ![worker[w].batch].state = "failed"]
  /\ Rest(w)
  /\ UNCHANGED <<settings, message, cursor, memory, forgotten, faults>>

Crash(w) ==
  /\ ~At(w, "idle") /\ Fault
  /\ worker' = [worker EXCEPT ![w] = Idle]
  /\ UNCHANGED store

----------------------------------------------------------------------------
WorkerStep(w) ==
  \/ ReadSession(w) \/ NothingToEnqueue(w) \/ ReadMessages(w) \/ InsertBatch(w)
  \/ \E b \in Batch : ClaimBatch(w, b)
  \/ NothingToClaim(w) \/ CheckSettings(w)
  \/ CreateMemory(w) \/ CompleteBatch(w) \/ ReleaseFailedBatch(w)

Next ==
  \/ WriteMessage \/ ToggleExtraction \/ ChangeOtherSetting
  \/ \E row \in memory : ForgetMemory(row)
  \/ \E w \in Worker : WorkerStep(w) \/ CreateFails(w) \/ Crash(w)

Spec == Init /\ [][Next]_vars

----------------------------------------------------------------------------
\* Turning extraction on never reaches back: no memory is inferred from a
\* message that was written while extraction was off, however a worker that
\* is in the middle of a batch interleaves with the changes of the settings
\* (the comment in update_runtime_settings).
NoBackfill == \A row \in memory : message[row.message] = "on"

\* What the user made the system forget is not inferred again from the same
\* message (migrations/073_memory_mutation_receipts.sql: the watermarks keep
\* derived stores "from resurrecting forgotten content").
ForgottenStaysForgotten ==
  [][\A row \in memory' \ memory : row.message \notin forgotten]_vars
=============================================================================
