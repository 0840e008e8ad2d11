-------------------------- MODULE ResourceJournal --------------------------
(***************************************************************************)
(* The journal of Drive operations (services/resource_identity.rs) and the *)
(* operations that write it (workspace_content.rs, drive/operations.rs,    *)
(* drive/trash.rs).  An operation prepares a row of resource_operations,   *)
(* changes the disk, marks the row and projects the change to the identity *)
(* of the file, drive_resources, in three further steps; the disk and the  *)
(* database share no transaction.  The request may be dropped at any await *)
(* and the process may die; a worker that takes none of the Drive's locks  *)
(* picks up the rows left behind.                                          *)
(* Files only: the move of a directory and of its descendants is left out, *)
(* and so is the optional check of expected_lifecycle_revision.            *)
(***************************************************************************)
EXTENDS Naturals, FiniteSets

CONSTANTS
  Path,          \* logical paths of the Drive
  Op,            \* operation keys, one row of resource_operations each
  Kinds,         \* what the users do
  NoOp, NoPath,
  MaxResources,  \* bound on the identities created
  MaxAttempts,   \* RECONCILE_MAX_ATTEMPTS
  MaxFaults,     \* bound on dropped requests and crashes
  MaxSlow,       \* bound on rows a request and the worker are at together
  MaxRetries     \* bound on requests repeated with their key

ResourceJournalAssumption ==
  /\ Kinds \subseteq {"content_write", "move", "trash", "restore", "purge"}
  /\ MaxResources \in Nat /\ MaxAttempts \in Nat \ {0}
  /\ MaxFaults \in Nat /\ MaxSlow \in Nat /\ MaxRetries \in Nat
  /\ NoOp \notin Op /\ NoPath \notin Path /\ Path \cap Op = {}

VARIABLES
  disk,       \* disk[p]: the bytes at p, named by the operation that wrote them
  resource,   \* resource[i]: row of drive_resources
  resources,  \* rows so far
  op,         \* op[o]: row of resource_operations
  entry,      \* entry[o]: row of drive_trash_entries written by operation o
  request,    \* request[o]: where the request of o is
  worker,     \* the reconciliation worker
  budget      \* faults, slow requests and retries spent

vars == <<disk, resource, resources, op, entry, request, worker, budget>>

----------------------------------------------------------------------------
\* The payload of trash operation o lies under .trash/<o>.
Place == Path \cup Op

Resource == 1 .. MaxResources

ResourceRow == [ state     : {"none", "reconciling", "active", "trashed",
                              "purged", "missing"},
                 path      : Path \cup {NoPath},
                 revision  : Nat,
                 lifecycle : Nat,
                 newest    : Op \cup {NoOp} ]   \* fingerprint of that revision

OpRow == [ kind      : {"none", "content_write", "move", "trash", "restore", "purge"},
           state     : {"none", "prepared", "filesystem_committed", "completed",
                        "conflict", "reconciling", "compensation_required"},
           resource  : 0 .. MaxResources,
           path      : Path \cup {NoPath},      \* of the intent
           dest      : Path \cup {NoPath},      \* requested_reference
           entry     : Op \cup {NoOp},          \* trash_entry_id
           expected  : Op \cup {NoOp},
           overwrite : BOOLEAN,
           committed : BOOLEAN,                 \* committed_revision IS NOT NULL
           attempts  : Nat ]

EntryRow == [ status : {"none", "trashed", "restored", "purged"},
              resource : 0 .. MaxResources, path : Path \cup {NoPath} ]

Worker == [ pc : {"idle", "checking", "marking", "projecting", "conflicting",
                  "failing"},
            op : Op \cup {NoOp},
            state : {"none", "prepared", "filesystem_committed", "reconciling"} ]

\* Disk, rows, requests and worker have their types; no state outside the
\* CHECK constraints of migration 063 is ever written.
TypeOK ==
  /\ disk \in [Place -> Op \cup {NoOp}]
  /\ resource \in [Resource -> ResourceRow] /\ resources \in 0 .. MaxResources
  /\ op \in [Op -> OpRow] /\ entry \in [Op -> EntryRow]
  /\ request \in [Op -> {"none", "changing", "marking", "projecting", "failing"}]
  /\ worker \in Worker
  /\ budget \in [faults : 0 .. MaxFaults, slow : 0 .. MaxSlow, retries : 0 .. MaxRetries]

NoResource == [ state |-> "none", path |-> NoPath, revision |-> 0,
                lifecycle |-> 0, newest |-> NoOp ]

NoRow == [ kind |-> "none", state |-> "none", resource |-> 0, path |-> NoPath,
           dest |-> NoPath, entry |-> NoOp, expected |-> NoOp,
           overwrite |-> FALSE, committed |-> FALSE, attempts |-> 0 ]

Resting == [pc |-> "idle", op |-> NoOp, state |-> "none"]

Init ==
  /\ disk = [p \in Place |-> NoOp]
  /\ resource = [i \in Resource |-> NoResource] /\ resources = 0
  /\ op = [o \in Op |-> NoRow]
  /\ entry = [o \in Op |-> [status |-> "none", resource |-> 0, path |-> NoPath]]
  /\ request = [o \in Op |-> "none"]
  /\ worker = Resting
  /\ budget = [faults |-> 0, slow |-> 0, retries |-> 0]

Exists(p) == disk[p] # NoOp

ActiveAt(p) == {i \in Resource : resource[i].state = "active" /\ resource[i].path = p}

\* The Drive's locks: one request of a lifecycle operation at a time, and
\* content writes of different paths besides each other.
Unlocked(kind, p) == \A o \in Op : request[o] # "none" =>
  kind = "content_write" /\ op[o].kind = "content_write" /\ op[o].path # p

----------------------------------------------------------------------------
(* Preparation: one transaction; a lifecycle operation first makes sure    *)
(* the file has an identity (ensure_existing_resource).                    *)

Row(kind, p) == [NoRow EXCEPT !.kind = kind, !.state = "prepared", !.path = p]

Prepare(o, row) ==
  /\ op' = [op EXCEPT ![o] = row]
  /\ request' = [request EXCEPT ![o] = "changing"]
  /\ UNCHANGED <<disk, entry, worker, budget>>

New(state, p) ==
  [NoResource EXCEPT !.state = state, !.path = p]

\* The active identity at p, or a new one.
WithResource(o, row, state, p) ==
  \/ /\ ActiveAt(row.path) # {}
     /\ \E i \in ActiveAt(row.path) : Prepare(o, [row EXCEPT !.resource = i])
     /\ UNCHANGED <<resource, resources>>
  \/ /\ ActiveAt(row.path) = {} /\ resources < MaxResources
     /\ resources' = resources + 1
     /\ resource' = [resource EXCEPT ![resources + 1] = New(state, p)]
     /\ Prepare(o, [row EXCEPT !.resource = resources + 1])

PrepareContent(o, p) ==
  /\ op[o].kind = "none" /\ "content_write" \in Kinds /\ Unlocked("content_write", p)
  /\ \E want \in {NoOp, disk[p]}, over \in BOOLEAN :
       /\ ~over => want = NoOp
       /\ WithResource(o, [Row("content_write", p) EXCEPT !.expected = want,
                                                          !.overwrite = over],
                       "reconciling", NoPath)

PrepareMove(o, p, q) ==
  /\ op[o].kind = "none" /\ "move" \in Kinds /\ Unlocked("move", p)
  /\ Exists(p) /\ ~Exists(q)
  /\ WithResource(o, [Row("move", p) EXCEPT !.dest = q], "active", p)

PrepareTrash(o, p) ==
  /\ op[o].kind = "none" /\ "trash" \in Kinds /\ Unlocked("trash", p)
  /\ Exists(p)
  /\ WithResource(o, Row("trash", p), "active", p)

\* Restore and purge of entry e: the row is prepared before the entry is
\* looked at, and stays behind when the entry turns out to be settled.
PrepareFromTrash(o, kind, e) ==
  /\ op[o].kind = "none" /\ kind \in Kinds /\ Unlocked(kind, NoPath)
  /\ entry[e].status # "none"
  /\ op' = [op EXCEPT ![o] = [Row(kind, entry[e].path) EXCEPT
              !.entry = e, !.resource = entry[e].resource]]
  /\ request' = [request EXCEPT ![o] =
       IF entry[e].status = "trashed" /\ (kind = "restore" => Exists(e))
       THEN "changing" ELSE "none"]
  /\ UNCHANGED <<disk, resource, resources, entry, worker, budget>>

----------------------------------------------------------------------------
(* The change on disk, under the lock.                                     *)

Refused(o) == LET row == op[o] IN
  \/ Exists(row.path) /\ ~row.overwrite
  \/ row.expected # NoOp /\ disk[row.path] # row.expected

\* mark_precommit_conflict: only a prepared row, whose identity, if it was
\* made for it, goes missing.
Conflicted(o) ==
  /\ op' = IF op[o].state = "prepared" THEN [op EXCEPT ![o].state = "conflict"] ELSE op
  /\ resource' = LET i == op[o].resource IN
       IF /\ op[o].state = "prepared" /\ resource[i].state = "reconciling"
          /\ resource[i].revision = 0
       THEN [resource EXCEPT ![i].state = "missing"] ELSE resource

RefuseContent(o) ==
  /\ request[o] = "changing" /\ op[o].kind = "content_write" /\ Refused(o)
  /\ Conflicted(o)
  /\ request' = [request EXCEPT ![o] = "none"]
  /\ UNCHANGED <<disk, resources, entry, worker, budget>>

ReplaceFile(o) ==
  /\ request[o] = "changing" /\ op[o].kind = "content_write" /\ ~Refused(o)
  /\ disk' = [disk EXCEPT ![op[o].path] = o]
  /\ request' = [request EXCEPT ![o] = "marking"]
  /\ UNCHANGED <<resource, resources, op, entry, worker, budget>>

Rename(from, to) == disk' = [disk EXCEPT ![to] = disk[from], ![from] = NoOp]

RenameMoved(o) ==
  /\ request[o] = "changing" /\ op[o].kind = "move"
  /\ Rename(op[o].path, op[o].dest)
  /\ request' = [request EXCEPT ![o] = "marking"]
  /\ UNCHANGED <<resource, resources, op, entry, worker, budget>>

RenameTrashed(o) ==
  /\ request[o] = "changing" /\ op[o].kind = "trash"
  /\ Rename(op[o].path, o)
  /\ request' = [request EXCEPT ![o] = "marking"]
  /\ UNCHANGED <<resource, resources, op, entry, worker, budget>>

\* set_lifecycle_requested_reference with a free name, then the rename.
ChooseRestoreTarget(o, q) ==
  /\ request[o] = "changing" /\ op[o].kind = "restore" /\ op[o].dest = NoPath
  /\ ~Exists(q) /\ (q # op[o].path => Exists(op[o].path))
  /\ op[o].state \in {"prepared", "reconciling"} /\ ~op[o].committed
  /\ op' = [op EXCEPT ![o].dest = q]
  /\ UNCHANGED <<disk, resource, resources, entry, request, worker, budget>>

\* The name is not looked at again: a request repeated after its name was
\* chosen replaces what came to lie there.
RenameRestored(o) == LET from == op[o].entry IN
  /\ request[o] = "changing" /\ op[o].kind = "restore" /\ op[o].dest # NoPath
  /\ IF Exists(from)
     THEN Rename(from, op[o].dest) /\ request' = [request EXCEPT ![o] = "marking"]
     ELSE UNCHANGED disk /\ request' = [request EXCEPT ![o] = "none"]
  /\ UNCHANGED <<resource, resources, op, entry, worker, budget>>

RemovePurged(o) ==
  /\ request[o] = "changing" /\ op[o].kind = "purge"
  /\ disk' = [disk EXCEPT ![op[o].entry] = NoOp]
  /\ request' = [request EXCEPT ![o] = "marking"]
  /\ UNCHANGED <<resource, resources, op, entry, worker, budget>>

----------------------------------------------------------------------------
(* The mark and the projection, by the request or by the worker.           *)

\* mark_filesystem_committed: nothing happens to a row in another state.
Marked(o) ==
  op' = IF op[o].state \in {"prepared", "reconciling", "filesystem_committed"}
        THEN [op EXCEPT ![o].state = "filesystem_committed", ![o].committed = TRUE]
        ELSE op

Completed(o) == op' = [op EXCEPT ![o].state = "completed", ![o].committed = TRUE]

\* The unique index on the path of active rows, and the lifecycle check at
\* the end of project_content_commit.
Projectable(o) == LET row == op[o] IN
  CASE row.kind = "content_write" ->
         /\ resource[row.resource].state \in {"active", "reconciling"}
         /\ ActiveAt(row.path) \subseteq {row.resource}
    [] row.kind \in {"move", "restore"} -> ActiveAt(row.dest) \subseteq {row.resource}
    [] OTHER -> TRUE

\* project_content_commit and project_lifecycle_commit: no look at the state
\* of the operation.
Projected(o) == LET row == op[o]  i == op[o].resource
                    goal == [move |-> "active", restore |-> "active",
                             trash |-> "trashed", purge |-> "purged"] IN
  /\ resource' = IF row.kind = "content_write"
       THEN [resource EXCEPT ![i].state = "active", ![i].path = row.path,
                             ![i].revision = @ + 1, ![i].newest = o]
       ELSE [resource EXCEPT ![i].state = goal[row.kind],
               ![i].path = IF goal[row.kind] = "active" THEN row.dest ELSE NoPath,
               ![i].lifecycle = @ + 1]
  /\ entry' =
       CASE row.kind = "trash" /\ entry[o].status = "none" ->
              [entry EXCEPT ![o] = [status |-> "trashed", resource |-> i,
                                    path |-> row.path]]
         [] row.kind = "restore" -> [entry EXCEPT ![row.entry].status = "restored"]
         [] row.kind = "purge" -> [entry EXCEPT ![row.entry].status = "purged"]
         [] OTHER -> entry
  /\ Completed(o)

\* Mutant: the row is completed with its mark, before the identity follows.
RequestCompletes(o) ==
  /\ request[o] = "marking"
  /\ Completed(o)
  /\ request' = [request EXCEPT ![o] = "none"]
  /\ UNCHANGED <<disk, resource, resources, entry, worker, budget>>

RequestMarks(o) ==
  /\ request[o] = "marking"
  /\ Marked(o)
  /\ request' = [request EXCEPT ![o] = "projecting"]
  /\ UNCHANGED <<disk, resource, resources, entry, worker, budget>>

RequestProjects(o) ==
  /\ request[o] = "projecting"
  /\ IF Projectable(o)
     THEN Projected(o) /\ request' = [request EXCEPT ![o] = "none"]
     ELSE /\ request' = [request EXCEPT ![o] =
                 IF op[o].kind = "content_write" THEN "failing" ELSE "none"]
          /\ UNCHANGED <<resource, op, entry>>
  /\ UNCHANGED <<disk, resources, worker, budget>>

\* mark_operation_reconciling, after a projection that failed.
RequestFails(o) ==
  /\ request[o] = "failing"
  /\ op' = IF op[o].state # "completed" THEN [op EXCEPT ![o].state = "reconciling"] ELSE op
  /\ request' = [request EXCEPT ![o] = "none"]
  /\ UNCHANGED <<disk, resource, resources, entry, worker, budget>>

----------------------------------------------------------------------------
(* The same key again.                                                     *)

\* A request that finds the file where it was goes on from the row as it is.
\* The editor, the only caller that repeats the key of a write, does so while
\* the file still has the revision it expected (document_editor.rs).
Repeatable(o) == LET row == op[o] IN
  \/ row.state = "prepared" /\ row.kind = "content_write"
       /\ row.overwrite /\ row.expected # NoOp /\ disk[row.path] = row.expected
  \/ row.state = "prepared" /\ row.kind = "trash" /\ Exists(row.path)
  \/ row.state = "prepared" /\ row.kind = "move" /\ Exists(row.path) /\ ~Exists(row.dest)
  \/ row.state = "prepared" /\ row.kind = "restore"
       /\ entry[row.entry].status = "trashed" /\ Exists(row.entry)
  \/ row.state # "completed" /\ row.kind = "purge" /\ entry[row.entry].status = "trashed"

RetryRequest(o) ==
  /\ request[o] = "none" /\ Repeatable(o) /\ Unlocked(op[o].kind, op[o].path)
  /\ budget.retries < MaxRetries
  /\ IF worker.op # o THEN budget' = [budget EXCEPT !.retries = @ + 1]
     ELSE /\ budget.slow < MaxSlow
          /\ budget' = [budget EXCEPT !.retries = @ + 1, !.slow = @ + 1]
  /\ request' = [request EXCEPT ![o] = "changing"]
  /\ UNCHANGED <<disk, resource, resources, op, entry, worker>>

----------------------------------------------------------------------------
(* The worker: reconcile_pending_operations.                               *)

\* Mutant: rows that are completed are picked up again.
ClaimCompleted(o) ==
  /\ worker.pc = "idle" /\ request[o] = "none" /\ op[o].state # "none"
  /\ op' = [op EXCEPT ![o].attempts = @ + 1]
  /\ worker' = [pc |-> "checking", op |-> o, state |-> "reconciling"]
  /\ UNCHANGED <<disk, resource, resources, entry, request, budget>>

\* Mutant: rows that were marked as reconciling are left alone.
ClaimCommitted(o) ==
  /\ worker.pc = "idle"
  /\ op[o].state \in {"prepared", "filesystem_committed"}
  /\ IF request[o] = "none" THEN UNCHANGED budget
     ELSE budget.slow < MaxSlow /\ budget' = [budget EXCEPT !.slow = @ + 1]
  /\ op' = [op EXCEPT ![o].attempts = @ + 1]
  /\ worker' = [pc |-> "checking", op |-> o, state |-> op[o].state]
  /\ UNCHANGED <<disk, resource, resources, entry, request>>

ClaimReconciliation(o) ==
  /\ worker.pc = "idle"
  /\ op[o].state \in {"prepared", "filesystem_committed", "reconciling"}
  /\ IF request[o] = "none" THEN UNCHANGED budget
     ELSE budget.slow < MaxSlow /\ budget' = [budget EXCEPT !.slow = @ + 1]
  /\ op' = [op EXCEPT ![o].attempts = @ + 1]
  /\ worker' = [pc |-> "checking", op |-> o, state |-> op[o].state]
  /\ UNCHANGED <<disk, resource, resources, entry, request>>

\* The disk as evidence that the operation happened; a purge is repeated.
Proven(o) == LET row == op[o] IN
  CASE row.kind = "content_write" -> disk[row.path] = o
    [] row.kind = "move" -> ~Exists(row.path) /\ Exists(row.dest)
    [] row.kind = "trash" -> ~Exists(row.path) /\ Exists(o)
    [] row.kind = "restore" -> row.dest # NoPath /\ ~Exists(row.entry) /\ Exists(row.dest)
    [] OTHER -> TRUE

CheckDisk == LET o == worker.op IN
  /\ worker.pc = "checking"
  /\ worker' = [worker EXCEPT !.pc =
       CASE Proven(o) -> "marking"
         [] /\ ~Proven(o) /\ op[o].kind = "content_write"
            /\ Exists(op[o].path) /\ worker.state = "prepared" -> "conflicting"
         [] OTHER -> "failing"]
  /\ disk' = IF op[o].kind = "purge" THEN [disk EXCEPT ![op[o].entry] = NoOp] ELSE disk
  /\ UNCHANGED <<resource, resources, op, entry, request, budget>>

WorkerMarksConflict ==
  /\ worker.pc = "conflicting"
  /\ Conflicted(worker.op)
  /\ worker' = Resting
  /\ UNCHANGED <<disk, resources, entry, request, budget>>

WorkerMarks ==
  /\ worker.pc = "marking"
  /\ Marked(worker.op)
  /\ worker' = [worker EXCEPT !.pc = "projecting"]
  /\ UNCHANGED <<disk, resource, resources, entry, request, budget>>

WorkerProjects ==
  /\ worker.pc = "projecting"
  /\ IF Projectable(worker.op)
     THEN Projected(worker.op) /\ worker' = Resting
     ELSE worker' = [worker EXCEPT !.pc = "failing"] /\ UNCHANGED <<resource, op, entry>>
  /\ UNCHANGED <<disk, resources, request, budget>>

\* schedule_reconciliation_retry: not guarded by the state of the row.
ScheduleRetry == LET o == worker.op IN
  /\ worker.pc = "failing"
  /\ op' = [op EXCEPT ![o].state =
       CASE op[o].attempts >= MaxAttempts -> "compensation_required"
         [] op[o].attempts < MaxAttempts /\ worker.state = "prepared" -> "prepared"
         [] OTHER -> "reconciling"]
  /\ worker' = Resting
  /\ UNCHANGED <<disk, resource, resources, entry, request, budget>>

----------------------------------------------------------------------------
Fault == budget.faults < MaxFaults /\ budget' = [budget EXCEPT !.faults = @ + 1]

\* The client goes away and the server drops the request at an await.
DropRequest(o) ==
  /\ request[o] # "none" /\ Fault
  /\ request' = [request EXCEPT ![o] = "none"]
  /\ UNCHANGED <<disk, resource, resources, op, entry, worker>>

Crash ==
  /\ (worker.pc # "idle" \/ \E o \in Op : request[o] # "none") /\ Fault
  /\ request' = [o \in Op |-> "none"]
  /\ worker' = Resting
  /\ UNCHANGED <<disk, resource, resources, op, entry>>

RequestStep(o) ==
  \/ RefuseContent(o) \/ ReplaceFile(o) \/ RenameMoved(o) \/ RenameTrashed(o)
  \/ \E q \in Path : ChooseRestoreTarget(o, q)
  \/ RenameRestored(o) \/ RemovePurged(o)
  \/ RequestMarks(o) \/ RequestProjects(o) \/ RequestFails(o)

Reconcile ==
  \/ CheckDisk \/ WorkerMarksConflict \/ WorkerMarks \/ WorkerProjects \/ ScheduleRetry

Next ==
  \/ \E o \in Op : \E p \in Path :
       PrepareContent(o, p) \/ PrepareTrash(o, p) \/ \E q \in Path : PrepareMove(o, p, q)
  \/ \E o, e \in Op : PrepareFromTrash(o, "restore", e) \/ PrepareFromTrash(o, "purge", e)
  \/ \E o \in Op : RequestStep(o) \/ RetryRequest(o) \/ DropRequest(o) \/ ClaimReconciliation(o)
  \/ Reconcile \/ Crash

Spec == Init /\ [][Next]_vars

----------------------------------------------------------------------------
\* An entry of the trash that was restored is settled: it is not purged as well
\* (trash.rs:485-488).
RestoredIsTerminal == \A o, r \in Op :
  /\ op[o].kind = "purge" /\ op[o].state = "completed"
  /\ op[r].kind = "restore" /\ op[r].state = "completed"
  => op[o].entry # op[r].entry

=============================================================================
