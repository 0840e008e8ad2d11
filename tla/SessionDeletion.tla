--------------------------- MODULE SessionDeletion ---------------------------
(***************************************************************************)
(* Deleting a session (services/chat/repository.rs) against everything     *)
(* that may still work for it: runs, their delegates, the cron job that    *)
(* reuses it, and the saves of the document editor                         *)
(* (services/document_editor.rs, document_editor/save_receipts.rs).        *)
(* A deletion first fences the session, which refuses new work, and a      *)
(* later transaction removes it once no run is active and no save receipt  *)
(* is pending.  A save is admitted by the insertion of its receipt,        *)
(* replaces the file, and marks its receipt, in three steps; the file is   *)
(* not in the database, and a request may be dropped at every step.        *)
(* Every transaction that admits work locks the row of the session.        *)
(***************************************************************************)
EXTENDS Naturals, FiniteSets

CONSTANTS
  Path,         \* documents of the Drive
  Linked,       \* those that are artifacts of the session
  Key,          \* idempotency keys of saves
  Client,       \* HTTP requests in flight
  Run,          \* runs of the session
  NoKey, NoRun,
  Conversions,  \* the bytes one model may convert to
  MaxFaults     \* bound on dropped requests, lapsed leases, failed marks

SessionDeletionAssumption ==
  /\ Linked \subseteq Path /\ Path # {}
  /\ NoKey \notin Key /\ NoRun \notin Run
  /\ Conversions \in Nat \ {0} /\ MaxFaults \in Nat

VARIABLES
  session,    \* chat_sessions: deleting_at, or no row
  operation,  \* state of the row of session_deletion_operations
  cron,       \* the cron job whose reuse_session_id is the session
  run,        \* status of the rows of agent_runs
  starting,   \* the run whose start_children has read its parent's row
  file,       \* the bytes of a document
  save,       \* save[k]: what the editor asks for under key k
  receipt,    \* the row of document_editor_save_receipts
  journal,    \* the row of resource_operations with key editor:k
  client,     \* what a request holds in memory
  faults

chat == <<session, operation, cron, run, starting>>
documents == <<file, save, receipt, journal, client>>
vars == <<session, operation, cron, run, starting,
          file, save, receipt, journal, client, faults>>

----------------------------------------------------------------------------
Bytes == [by : Key, version : 1 .. Conversions] \cup [by : {NoKey}, version : 0 .. 2]

Nothing == [by |-> NoKey, version |-> 0]     \* no file
Base    == [by |-> NoKey, version |-> 1]
Other   == [by |-> NoKey, version |-> 2]     \* written past the editor

Save == [ kind : {"none", "write", "copy"}, path : Path,
          expected : Bytes, sessioned : BOOLEAN ]

Receipt == [ status : {"none", "pending", "committed"},
             result : Bytes, sessioned : BOOLEAN ]

Journal == [ state : {"none", "prepared", "reconciling", "completed",
                      "conflict", "compensation_required"},
             bytes : Bytes ]

Request == [ pc : {"idle", "checking", "marking", "comparing", "receipting",
                   "validating", "committing", "finishing"},
             key : Key \cup {NoKey}, seen : Receipt, bytes : Bytes ]

Active == {"queued", "running", "delegate"}

\* Rows, files and requests have their types; no state outside the CHECK
\* constraints of the tables is ever written.
TypeOK ==
  /\ session \in {"live", "deleting", "gone"}
  /\ operation \in {"none", "fenced", "waiting_for_runs", "waiting_for_saves", "completed"}
  /\ cron \in {"none", "future", "exhausted", "retired"}
  /\ run \in [Run -> {"none", "final"} \cup Active]
  /\ starting \in Run \cup {NoRun}
  /\ file \in [Path -> Bytes]
  /\ save \in [Key -> Save] /\ receipt \in [Key -> Receipt] /\ journal \in [Key -> Journal]
  /\ client \in [Client -> Request]
  /\ faults \in 0 .. MaxFaults

NoReceipt == [status |-> "none", result |-> Nothing, sessioned |-> FALSE]
Idle == [pc |-> "idle", key |-> NoKey, seen |-> NoReceipt, bytes |-> Nothing]

Init ==
  /\ session = "live" /\ operation = "none" /\ starting = NoRun /\ faults = 0
  /\ cron \in {"none", "future"}
  /\ run = [r \in Run |-> "none"]
  /\ file = [p \in Path |-> IF p \in Linked THEN Base ELSE Nothing]
  /\ save = [k \in Key |-> [kind |-> "none", path |-> CHOOSE p \in Path : TRUE,
                            expected |-> Nothing, sessioned |-> FALSE]]
  /\ receipt = [k \in Key |-> NoReceipt]
  /\ journal = [k \in Key |-> [state |-> "none", bytes |-> Nothing]]
  /\ client = [c \in Client |-> Idle]

Fault == faults < MaxFaults /\ faults' = faults + 1

----------------------------------------------------------------------------
(* The runs of the session.                                                *)

Admit(r, status) == run[r] = "none" /\ run' = [run EXCEPT ![r] = status]

EnqueueChatRun(r) ==
  /\ session = "live"
  /\ Admit(r, "queued")
  /\ UNCHANGED <<session, operation, cron, starting, documents, faults>>

\* resolve_session looks for the row of the session only, not for the fence:
\* the job's own row, which the deletion locks first, keeps the two apart.
TickCron(r) ==
  /\ cron = "future" /\ session # "gone"
  /\ \A s \in Run : run[s] \notin Active
  /\ Admit(r, "queued")
  /\ cron' \in {"future", "exhausted"}
  /\ UNCHANGED <<session, operation, starting, documents, faults>>

ClaimRun(r) ==
  /\ run[r] = "queued" /\ \A s \in Run : run[s] # "running"
  /\ run' = [run EXCEPT ![r] = "running"]
  /\ UNCHANGED <<session, operation, cron, starting, documents, faults>>

\* The worker of a run ends it, but not while it waits for start_children.
FinishRun(r) ==
  /\ run[r] \in {"running", "delegate"} /\ starting # r
  /\ run' = [run EXCEPT ![r] = "final"]
  /\ UNCHANGED <<session, operation, cron, starting, documents, faults>>

CancelQueuedRun(r) ==
  /\ run[r] = "queued"
  /\ run' = [run EXCEPT ![r] = "final"]
  /\ UNCHANGED <<session, operation, cron, starting, documents, faults>>

\* reconcile_one_stale_run with a tool call in progress: the run fails.
LoseLease(r) ==
  /\ run[r] = "running" /\ Fault
  /\ run' = [run EXCEPT ![r] = "final"]
  /\ UNCHANGED <<session, operation, cron, starting, documents>>

\* start_children reads the row of the parent without locking it ...
ReadParent(r) ==
  /\ run[r] = "running" /\ starting = NoRun
  /\ starting' = r
  /\ UNCHANGED <<session, operation, cron, run, documents, faults>>

\* ... and inserts the child in the same transaction; the foreign key refuses
\* it when the session is gone, and nothing looks at the fence.
InsertChild ==
  /\ starting # NoRun
  /\ \/ session # "gone" /\ \E r \in Run : Admit(r, "delegate")
     \/ (session = "gone" \/ \A r \in Run : run[r] # "none") /\ UNCHANGED run
  /\ starting' = NoRun
  /\ UNCHANGED <<session, operation, cron, documents, faults>>

----------------------------------------------------------------------------
(* The deletion.                                                           *)

NoActiveRun == \A r \in Run : run[r] \notin Active

PendingSaves == {k \in Key : receipt[k].status = "pending" /\ receipt[k].sessioned}

\* delete_session_with_options up to its COMMIT.
FenceSession(confirmed) ==
  /\ session \in {"live", "deleting"}
  /\ cron = "future" => confirmed
  /\ NoActiveRun
  /\ cron' = IF cron = "none" THEN "none" ELSE "retired"
  /\ session' = "deleting"
  /\ operation' = "fenced"
  /\ UNCHANGED <<run, starting, documents, faults>>

\* Mutant: the runs were looked at when the fence was set.
FinalizeUnchecked ==
  /\ operation \notin {"none", "completed"}
  /\ \/ /\ PendingSaves # {}
        /\ operation' = "waiting_for_saves"
        /\ UNCHANGED <<session, receipt>>
     \/ /\ PendingSaves = {}
        /\ operation' = "completed" /\ session' = "gone"
        /\ receipt' = [k \in Key |-> [receipt[k] EXCEPT !.sessioned = FALSE]]
  /\ UNCHANGED <<cron, run, starting, file, save, journal, client, faults>>

\* Mutant: the worker forgets the operations that wait for saves.
FinalizeUnlessWaiting ==
  /\ operation \in {"fenced", "waiting_for_runs"}
  /\ \/ /\ ~NoActiveRun
        /\ operation' = "waiting_for_runs"
        /\ UNCHANGED <<session, receipt>>
     \/ /\ NoActiveRun /\ PendingSaves # {}
        /\ operation' = "waiting_for_saves"
        /\ UNCHANGED <<session, receipt>>
     \/ /\ NoActiveRun /\ PendingSaves = {}
        /\ operation' = "completed" /\ session' = "gone"
        /\ receipt' = [k \in Key |-> [receipt[k] EXCEPT !.sessioned = FALSE]]
  /\ UNCHANGED <<cron, run, starting, file, save, journal, client, faults>>

\* finalize_session_deletion, by the request that set the fence or by the
\* worker, which takes up every operation that is not completed.  With the
\* session go its runs, and its receipts forget it.
FinalizeSessionDeletion ==
  /\ operation \notin {"none", "completed"}
  /\ \/ /\ ~NoActiveRun
        /\ operation' = "waiting_for_runs"
        /\ UNCHANGED <<session, receipt>>
     \/ /\ NoActiveRun /\ PendingSaves # {}
        /\ operation' = "waiting_for_saves"
        /\ UNCHANGED <<session, receipt>>
     \/ /\ NoActiveRun /\ PendingSaves = {}
        /\ operation' = "completed" /\ session' = "gone"
        /\ receipt' = [k \in Key |-> [receipt[k] EXCEPT !.sessioned = FALSE]]
  /\ UNCHANGED <<cron, run, starting, file, save, journal, client, faults>>

----------------------------------------------------------------------------
(* The editor.                                                             *)

\* The user edits a document, from the session or from the Drive, and saves
\* it, or saves a copy of it at a free path.
AskForSave(k) ==
  /\ save[k].kind = "none"
  /\ \E p \in Path, kind \in {"write", "copy"}, sessioned \in BOOLEAN :
       /\ kind = "write" => file[p] # Nothing /\ (sessioned => p \in Linked)
       /\ kind = "copy" => file[p] = Nothing
       /\ save' = [save EXCEPT ![k] = [kind |-> kind, path |-> p,
            expected |-> file[p], sessioned |-> sessioned]]
  /\ UNCHANGED <<chat, file, receipt, journal, client, faults>>

\* A file changes under the editor: an agent, another user.
WriteOther(p) ==
  /\ file[p] \in {Nothing, Base}
  /\ file' = [file EXCEPT ![p] = Other]
  /\ UNCHANGED <<chat, save, receipt, journal, client, faults>>

K(c) == client[c].key
Current(c) == file[save[K(c)].path]
Goto(c, pc) == client' = [client EXCEPT ![c].pc = pc]
Answer(c) == client' = [client EXCEPT ![c] = Idle]

\* load_save_receipt, for a first request or a repeated one.
LoadReceipt(c, k) ==
  /\ client[c].pc = "idle" /\ save[k].kind # "none"
  /\ receipt[k].status # "committed"          \* the client has no answer yet
  /\ client' = [client EXCEPT ![c] = [Idle EXCEPT
       !.pc = "checking", !.key = k, !.seen = receipt[k]]]
  /\ UNCHANGED <<chat, file, save, receipt, journal, faults>>

\* A repeated write whose bytes are in the file finalizes its receipt; a
\* repeated copy is answered, and its receipt stays as it is.
CheckFile(c) == LET seen == client[c].seen
                    written == seen.status # "none" /\ Current(c) = seen.result IN
  /\ client[c].pc = "checking"
  /\ IF save[K(c)].kind = "write"
     THEN CASE written -> Goto(c, "marking")
            [] ~written /\ seen.status # "committed"
                 /\ Current(c) = save[K(c)].expected -> Goto(c, "comparing")
            [] OTHER -> Answer(c)
     ELSE IF seen.status = "none" /\ Current(c) = Nothing
          THEN Goto(c, "comparing") ELSE Answer(c)
  /\ UNCHANGED <<chat, file, save, receipt, journal, faults>>

\* The conversion, and a second look at the file after it (write_model).
Convert(c) ==
  /\ client[c].pc = "comparing"
  /\ \E n \in 1 .. Conversions :
       IF save[K(c)].kind = "write" /\ Current(c) # save[K(c)].expected
       THEN Answer(c)
       ELSE client' = [client EXCEPT ![c].pc = "receipting",
                         ![c].bytes = [by |-> K(c), version |-> n]]
  /\ UNCHANGED <<chat, file, save, receipt, journal, faults>>

\* insert_pending_save_receipt, or refresh_pending_result_hash for a receipt
\* the request has seen.
WriteReceipt(c) == LET k == K(c)  bytes == client[c].bytes IN
  /\ client[c].pc = "receipting"
  /\ CASE client[c].seen.status # "none" ->
            /\ receipt' = IF receipt[k].status = "pending"
                          THEN [receipt EXCEPT ![k].result = bytes] ELSE receipt
            /\ Goto(c, "validating")
       [] /\ client[c].seen.status = "none" /\ save[k].sessioned
          /\ session # "live" ->
            UNCHANGED receipt /\ Answer(c)
       [] OTHER ->
            /\ receipt' = IF receipt[k].status = "none"
                 THEN [receipt EXCEPT ![k] = [status |-> "pending", result |-> bytes,
                                              sessioned |-> save[k].sessioned]]
                 ELSE receipt
            /\ IF \/ receipt[k].status = "none"
                  \/ save[k].kind = "write" /\ receipt[k].result = bytes
               THEN Goto(c, "validating") ELSE Answer(c)
  /\ UNCHANGED <<chat, file, save, journal, faults>>

\* validate_artifact_source_session: the path has to be an artifact that is
\* linked to the session; that of a copy is not one yet.
ValidateSession(c) == LET k == K(c) IN
  /\ client[c].pc = "validating"
  /\ IF save[k].sessioned => session = "live" /\ save[k].path \in Linked
     THEN Goto(c, "committing") ELSE Answer(c)
  /\ UNCHANGED <<chat, file, save, receipt, journal, faults>>

\* commit_staged under the write lock of the path: the row of the journal
\* belongs to the bytes it was prepared for.
Prepared(k, bytes) ==
  [state |-> IF journal[k].state = "none" THEN "prepared" ELSE journal[k].state,
   bytes |-> bytes]

Refused(k) == IF save[k].kind = "write" THEN file[save[k].path] # save[k].expected
                                        ELSE file[save[k].path] # Nothing

CommitOutput(c) == LET k == K(c)  bytes == client[c].bytes  row == Prepared(k, bytes) IN
  /\ client[c].pc = "committing"
  /\ \/ /\ journal[k].state # "none" /\ journal[k].bytes # bytes
        /\ Answer(c) /\ UNCHANGED <<file, journal>>
     \/ /\ journal[k].state = "none" \/ journal[k].bytes = bytes
        /\ CASE row.state = "completed" ->
                  Goto(c, "finishing") /\ UNCHANGED <<file, journal>>
             [] row.state \in {"conflict", "compensation_required"} ->
                  Answer(c) /\ UNCHANGED <<file, journal>>
             [] row.state = "reconciling" ->
                  /\ IF Current(c) = bytes
                     THEN journal' = [journal EXCEPT ![k].state = "completed"] /\ Goto(c, "finishing")
                     ELSE Answer(c) /\ UNCHANGED journal
                  /\ UNCHANGED file
             [] row.state = "prepared" /\ Refused(k) ->
                  /\ journal' = [journal EXCEPT ![k] = [row EXCEPT !.state = "conflict"]]
                  /\ Answer(c) /\ UNCHANGED file
             [] OTHER ->
                  /\ file' = [file EXCEPT ![save[k].path] = bytes]
                  /\ journal' = [journal EXCEPT ![k] = [row EXCEPT !.state = "completed"]]
                  /\ Goto(c, "finishing")
  /\ UNCHANGED <<chat, save, receipt, faults>>

\* The projection fails after the replacement, or the request is dropped
\* before or after it.
CommitInterrupted(c) == LET k == K(c)  row == Prepared(k, client[c].bytes) IN
  /\ client[c].pc = "committing" /\ Fault
  /\ journal[k].state \in {"none", "prepared"}
  /\ journal[k].state = "none" \/ journal[k].bytes = row.bytes
  /\ ~Refused(k)
  /\ \E state \in {"prepared", "reconciling"}, replaced \in BOOLEAN :
       /\ state = "reconciling" => replaced
       /\ journal' = [journal EXCEPT ![k] = [row EXCEPT !.state = state]]
       /\ file' = IF replaced THEN [file EXCEPT ![save[k].path] = row.bytes] ELSE file
  /\ Answer(c)
  /\ UNCHANGED <<chat, save, receipt>>

\* reconcile_content_operation, 30 s later.
ReconcileOperation(k) ==
  /\ journal[k].state \in {"prepared", "reconciling"}
  /\ journal' = [journal EXCEPT ![k].state =
       CASE file[save[k].path] = journal[k].bytes -> "completed"
         [] file[save[k].path] \notin {journal[k].bytes, Nothing}
              /\ journal[k].state = "prepared" -> "conflict"
         [] OTHER -> "compensation_required"]
  /\ UNCHANGED <<chat, file, save, receipt, client, faults>>

\* mark_save_receipt_committed, of a finished save or a recognised one; a
\* mark that fails is only logged.
MarkReceipt(c) ==
  /\ client[c].pc \in {"marking", "finishing"}
  /\ \/ receipt' = [receipt EXCEPT ![K(c)].status = "committed"] /\ UNCHANGED faults
     \/ UNCHANGED receipt /\ Fault
  /\ Answer(c)
  /\ UNCHANGED <<chat, file, save, journal>>

DropRequest(c) ==
  /\ client[c].pc \notin {"idle", "checking", "comparing"} /\ Fault
  /\ Answer(c)
  /\ UNCHANGED <<chat, file, save, receipt, journal>>

----------------------------------------------------------------------------
ClientStep(c) ==
  \/ CheckFile(c) \/ Convert(c) \/ WriteReceipt(c) \/ ValidateSession(c)
  \/ CommitOutput(c) \/ MarkReceipt(c)

Next ==
  \/ \E r \in Run :
       \/ EnqueueChatRun(r) \/ TickCron(r) \/ ClaimRun(r) \/ FinishRun(r)
       \/ CancelQueuedRun(r) \/ LoseLease(r) \/ ReadParent(r)
  \/ \E confirmed \in BOOLEAN : FenceSession(confirmed)
  \/ InsertChild \/ FinalizeSessionDeletion
  \/ \E k \in Key : AskForSave(k) \/ ReconcileOperation(k)
  \/ \E p \in Path : WriteOther(p)
  \/ \E c \in Client : \/ ClientStep(c) \/ CommitInterrupted(c) \/ DropRequest(c)
                       \/ \E k \in Key : LoadReceipt(c, k)

Spec == Init /\ [][Next]_vars

\* The requests and workers of a living process go on, and an agent's run ends.
Fairness ==
  /\ \A c \in Client : WF_vars(ClientStep(c))
  /\ WF_vars(FinalizeSessionDeletion) /\ WF_vars(InsertChild)
  /\ \A r \in Run : WF_vars(ClaimRun(r)) /\ WF_vars(FinishRun(r))
  /\ \A k \in Key : WF_vars(ReconcileOperation(k))

FairSpec == Spec /\ Fairness

----------------------------------------------------------------------------
\* A session vanishes only when nothing works for it any more: its row is
\* gone neither under an active run, nor under an admitted save, nor under a
\* cron job that would go on, whatever was admitted while it was being fenced.
GoneMeansSettled == session = "gone" =>
  NoActiveRun /\ cron # "future" /\ PendingSaves = {}

\* A fenced session is removed in the end, unless a save that was admitted
\* before the fence was abandoned: its first request is over and its receipt
\* is still pending.
Abandoned == \E k \in PendingSaves :
  \A c \in Client : client[c].key = k => client[c].seen.status # "none"

OnlyAnAbandonedSaveHolds ==
  session = "deleting" ~> session = "gone" \/ Abandoned

\* A fenced session is removed in the end: "session deletion is fenced and
\* will finish after active work settles" (chat/repository.rs:487).
DeletionFinishes == session = "deleting" ~> session = "gone"
=============================================================================
