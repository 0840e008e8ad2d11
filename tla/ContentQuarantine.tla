-------------------------- MODULE ContentQuarantine --------------------------
(***************************************************************************)
(* Content held back for review (services/content_quarantine.rs and        *)
(* release_reviewed of services/workspace_content.rs).  The row of an item *)
(* is changed by single statements that compare its status and version;    *)
(* its bytes lie in a private directory and move to the Drive between two  *)
(* of them.  A request may be dropped at every await; a worker, once an    *)
(* hour, expires items, takes back approvals older than five minutes and   *)
(* removes bytes nobody refers to.                                         *)
(***************************************************************************)
EXTENDS Naturals, FiniteSets

CONSTANTS
  Item,       \* quarantined items, one admission each
  Path,       \* Drive paths an item may be released to
  Client,     \* HTTP requests in flight
  NoItem, NoPath,
  MaxVersion, \* bound on the versions of an item under which approvals begin
  MaxFaults,  \* bound on dropped requests and failed projections
  MaxSlow     \* bound on requests overtaken by the worker's grace period

ContentQuarantineAssumption ==
  /\ NoItem \notin Item /\ NoPath \notin Path
  /\ MaxVersion \in Nat /\ MaxFaults \in Nat /\ MaxSlow \in Nat

VARIABLES
  item,      \* item[i]: row of content_quarantine_items
  stored,    \* items whose bytes are in the private directory
  file,      \* file[p]: whose bytes are at a path
  released,  \* items whose bytes were written to the Drive
  client,    \* what a request holds in memory
  sweep,     \* the row reconcile_approving is at
  faults, slow

vars == <<item, stored, file, released, client, sweep, faults, slow>>

----------------------------------------------------------------------------
Decided == {"approved", "deleted", "expired", "rejected"}

Row == [ status : {"none", "pending", "approving"} \cup Decided,
         version : Nat, path : Path \cup {NoPath} ]

Request == [ pc : {"idle", "storing", "claiming", "reading", "committing",
                   "removing", "projecting", "approving", "resetting",
                   "rejecting", "discarding", "deleting"},
             item : Item \cup {NoItem}, version : Nat, path : Path \cup {NoPath} ]

Sweep == [ item : Item \cup {NoItem}, version : Nat, committed : BOOLEAN ]

\* Rows, requests and files have their types; no status outside the CHECK of
\* migration 060 is ever written.
TypeOK ==
  /\ item \in [Item -> Row]
  /\ stored \subseteq Item /\ released \subseteq Item
  /\ file \in [Path -> Item \cup {NoItem}]
  /\ client \in [Client -> Request]
  /\ sweep \in Sweep
  /\ faults \in 0 .. MaxFaults /\ slow \in 0 .. MaxSlow

Idle == [pc |-> "idle", item |-> NoItem, version |-> 0, path |-> NoPath]
NoSweep == [item |-> NoItem, version |-> 0, committed |-> FALSE]

Init ==
  /\ item = [i \in Item |-> [status |-> "none", version |-> 0, path |-> NoPath]]
  /\ stored = {} /\ released = {}
  /\ file = [p \in Path |-> NoItem]
  /\ client = [c \in Client |-> Idle]
  /\ sweep = NoSweep
  /\ faults = 0 /\ slow = 0

At(c, pc) == client[c].pc = pc
Goto(c, pc) == client' = [client EXCEPT ![c].pc = pc]
Answer(c) == client' = [client EXCEPT ![c] = Idle]

\* UPDATE ... WHERE status = from AND version = version.
Matches(i, from, version) == item[i].status = from /\ item[i].version = version

Set(i, status) == [item EXCEPT ![i].status = status, ![i].version = @ + 1]

Decide(i, from, version, status) ==
  item' = IF Matches(i, from, version) THEN Set(i, status) ELSE item

Busy(i) == \E c \in Client : client[c].item = i

----------------------------------------------------------------------------
(* store_pending: the bytes are put aside, then the row is inserted.       *)

StoreBytes(c, i) ==
  /\ At(c, "idle") /\ item[i].status = "none" /\ ~Busy(i) /\ i \notin stored
  /\ stored' = stored \cup {i}
  /\ \E p \in Path : client' = [client EXCEPT ![c] =
                       [Idle EXCEPT !.pc = "storing", !.item = i, !.path = p]]
  /\ UNCHANGED <<item, file, released, sweep, faults, slow>>

\* Refused when the quota of pending bytes is used up.
InsertItem(c) == LET i == client[c].item IN
  /\ At(c, "storing")
  /\ \/ /\ item' = [item EXCEPT ![i] = [status |-> "pending", version |-> 1,
                                        path |-> client[c].path]]
        /\ Answer(c)
     \/ UNCHANGED item /\ Goto(c, "discarding")
  /\ UNCHANGED <<stored, file, released, sweep, faults, slow>>

----------------------------------------------------------------------------
(* approve                                                                 *)

LoadForApproval(c, i) ==
  /\ At(c, "idle") /\ item[i].status = "pending" /\ item[i].version <= MaxVersion
  /\ \E p \in Path : client' = [client EXCEPT ![c] =
       [pc |-> "claiming", item |-> i, version |-> item[i].version, path |-> p]]
  /\ UNCHANGED <<item, stored, file, released, sweep, faults, slow>>

ClaimItem(c) == LET i == client[c].item IN
  /\ At(c, "claiming")
  /\ IF Matches(i, "pending", client[c].version)
     THEN /\ item' = [Set(i, "approving") EXCEPT ![i].path = client[c].path]
          /\ client' = [client EXCEPT ![c].pc = "reading", ![c].version = @ + 1]
     ELSE UNCHANGED item /\ Answer(c)
  /\ UNCHANGED <<stored, file, released, sweep, faults, slow>>

\* The bytes are read, compared with the recorded hash and inspected again.
InspectAgain(c) ==
  /\ At(c, "reading")
  /\ \/ client[c].item \in stored /\ Goto(c, "committing")
     \/ Goto(c, "rejecting")
  /\ UNCHANGED <<item, stored, file, released, sweep, faults, slow>>

RejectItem(c) ==
  /\ At(c, "rejecting")
  /\ Decide(client[c].item, "approving", client[c].version, "rejected")
  /\ Goto(c, "discarding")
  /\ UNCHANGED <<stored, file, released, sweep, faults, slow>>

\* remove_staged, after a decision or an insertion that failed.
DiscardBytes(c) ==
  /\ At(c, "discarding")
  /\ stored' = stored \ {client[c].item}
  /\ Answer(c)
  /\ UNCHANGED <<item, file, released, sweep, faults, slow>>

\* commit_staged under the path's lock: never over an existing file.
CommitBytes(c) == LET i == client[c].item  p == client[c].path IN
  /\ At(c, "committing")
  /\ IF i \in stored /\ file[p] = NoItem
     THEN /\ file' = [file EXCEPT ![p] = i] /\ released' = released \cup {i}
          /\ Goto(c, "removing")
     ELSE UNCHANGED <<file, released>> /\ Goto(c, "resetting")
  /\ UNCHANGED <<item, stored, sweep, faults, slow>>

RemoveStaged(c) ==
  /\ At(c, "removing")
  /\ stored' = stored \ {client[c].item}
  /\ Goto(c, "projecting")
  /\ UNCHANGED <<item, file, released, sweep, faults, slow>>

ProjectCommit(c) ==
  /\ At(c, "projecting")
  /\ Goto(c, "approving")
  /\ UNCHANGED <<item, stored, file, released, sweep, faults, slow>>

\* The journal cannot be brought up to date: resource_operation_reconciling.
ProjectionFails(c) ==
  /\ At(c, "projecting")
  /\ faults < MaxFaults /\ faults' = faults + 1
  /\ Goto(c, "resetting")
  /\ UNCHANGED <<item, stored, file, released, sweep, slow>>

MarkApproved(c) ==
  /\ At(c, "approving")
  /\ Decide(client[c].item, "approving", client[c].version, "approved")
  /\ Answer(c)
  /\ UNCHANGED <<stored, file, released, sweep, faults, slow>>

\* Every error of release_reviewed gives the item back for review.
ResetApproval(c) ==
  /\ At(c, "resetting")
  /\ Decide(client[c].item, "approving", client[c].version, "pending")
  /\ Answer(c)
  /\ UNCHANGED <<stored, file, released, sweep, faults, slow>>

----------------------------------------------------------------------------
(* delete, and what else happens to files.                                 *)

LoadForDeletion(c, i) ==
  /\ At(c, "idle") /\ item[i].status = "pending"
  /\ client' = [client EXCEPT ![c] = [Idle EXCEPT
       !.pc = "deleting", !.item = i, !.version = item[i].version]]
  /\ UNCHANGED <<item, stored, file, released, sweep, faults, slow>>

DeleteItem(c) == LET i == client[c].item IN
  /\ At(c, "deleting")
  /\ Decide(i, "pending", client[c].version, "deleted")
  /\ IF Matches(i, "pending", client[c].version) THEN Goto(c, "discarding") ELSE Answer(c)
  /\ UNCHANGED <<stored, file, released, sweep, faults, slow>>

\* The user moves or deletes a released file.
RemoveFile(p) ==
  /\ file[p] # NoItem
  /\ file' = [file EXCEPT ![p] = NoItem]
  /\ UNCHANGED <<item, stored, released, client, sweep, faults, slow>>

DropRequest(c) ==
  /\ ~At(c, "idle")
  /\ faults < MaxFaults /\ faults' = faults + 1
  /\ Answer(c)
  /\ UNCHANGED <<item, stored, file, released, sweep, slow>>

----------------------------------------------------------------------------
(* The worker.                                                             *)

\* expire_pending, and the removal of the bytes.
ExpirePending(i) ==
  /\ item[i].status = "pending"
  /\ item' = Set(i, "expired")
  /\ stored' = stored \ {i}
  /\ UNCHANGED <<file, released, client, sweep, faults, slow>>

\* Mutant: without the grace period.
ReadAtOnce(i) ==
  /\ sweep.item = NoItem /\ item[i].status = "approving"
  /\ sweep' = [item |-> i, version |-> item[i].version,
               committed |-> file[item[i].path] = i]
  /\ UNCHANGED <<item, stored, file, released, client, faults, slow>>

\* reconcile_approving reads the row and the file at its path ...
ReadApproving(i) ==
  /\ sweep.item = NoItem /\ item[i].status = "approving"
  /\ IF \E c \in Client : client[c].item = i /\ client[c].version = item[i].version
     THEN slow < MaxSlow /\ slow' = slow + 1
     ELSE UNCHANGED slow
  /\ sweep' = [item |-> i, version |-> item[i].version,
               committed |-> file[item[i].path] = i]
  /\ UNCHANGED <<item, stored, file, released, client, faults>>

\* ... and decides by them.
SettleApproving == LET i == sweep.item IN
  /\ i # NoItem
  /\ Decide(i, "approving", sweep.version, IF sweep.committed THEN "approved" ELSE "pending")
  /\ stored' = IF sweep.committed THEN stored \ {i} ELSE stored
  /\ sweep' = NoSweep
  /\ UNCHANGED <<file, released, client, faults, slow>>

\* Mutant: only the bytes of items without a row are removed.
RemoveUnknown(i) ==
  /\ i \in stored /\ item[i].status = "none" /\ ~Busy(i)
  /\ stored' = stored \ {i}
  /\ UNCHANGED <<item, file, released, client, sweep, faults, slow>>

\* Bytes no pending row refers to, and older than any request.
RemoveOrphan(i) ==
  /\ i \in stored /\ item[i].status \notin {"pending", "approving"} /\ ~Busy(i)
  /\ stored' = stored \ {i}
  /\ UNCHANGED <<item, file, released, client, sweep, faults, slow>>

----------------------------------------------------------------------------
RequestStep(c) ==
  \/ InsertItem(c) \/ ClaimItem(c) \/ InspectAgain(c) \/ RejectItem(c) \/ DiscardBytes(c)
  \/ CommitBytes(c) \/ RemoveStaged(c) \/ ProjectCommit(c) \/ MarkApproved(c)
  \/ ResetApproval(c) \/ DeleteItem(c)

Next ==
  \/ \E c \in Client : \/ RequestStep(c) \/ ProjectionFails(c) \/ DropRequest(c)
                       \/ \E i \in Item : \/ StoreBytes(c, i) \/ LoadForApproval(c, i)
                                          \/ LoadForDeletion(c, i)
  \/ \E p \in Path : RemoveFile(p)
  \/ \E i \in Item : ExpirePending(i) \/ ReadApproving(i) \/ RemoveOrphan(i)
  \/ SettleApproving

Spec == Init /\ [][Next]_vars

----------------------------------------------------------------------------
\* Review and release go together: bytes reach the Drive only while their
\* item is being approved, never those of an item that was deleted, rejected,
\* expired or approved before; and an item is recorded as approved, by the
\* request or by the worker, only when its bytes did reach the Drive.
ReleaseIsReviewed ==
  [][\A i \in Item :
       /\ (\E p \in Path : file'[p] = i /\ file[p] # i) => item[i].status = "approving"
       /\ item'[i].status = "approved" => i \in released]_vars
=============================================================================
