----------------------------- MODULE Knowledge -----------------------------
(***************************************************************************)
(* The wiki: the tree of categories and articles with the versions of each *)
(* node (services/knowledge, services/versions).  A request is a sequence  *)
(* of statements, each a transaction of its own: the checks of a parent,   *)
(* the write, the snapshot that is read back and the version made of it    *)
(* may each find what another request left.                                *)
(***************************************************************************)
EXTENDS Naturals, FiniteSets, Sequences, SequencesExt

CONSTANTS
  Node,         \* ids of knowledge_articles, each given out once
  Client,       \* requests under way at once
  Kinds,        \* the node types clients ask for
  Text,         \* title, slug, content, tags, status of a node
  Operations,   \* what clients ask for
  NoNode,       \* no parent, no node
  MaxVersions,  \* MAX_VERSIONS_PER_ENTITY
  MaxDepth,     \* ancestors that check_cycle follows
  MaxRequests   \* bound on requests

KnowledgeAssumption ==
  /\ NoNode \notin Node /\ Kinds \subseteq {"category", "article"}
  /\ Operations \subseteq {"create", "update", "move", "delete", "restore"}
  /\ MaxVersions \in Nat \ {0} /\ MaxDepth \in Nat /\ MaxRequests \in Nat

VARIABLES
  node,      \* node[n]: row of knowledge_articles
  versions,  \* versions[n]: snapshots in entity_versions, the oldest first
  recent,    \* the nodes whose newest version is within the coalescing window
  request,   \* request[c]: what client c's request holds
  requests

vars == <<node, versions, recent, request, requests>>

----------------------------------------------------------------------------
Parent == Node \cup {NoNode}

Row == [parent : Parent, kind : {"none", "category", "article", "deleted"}, text : Text]

Request == [ op   : {"none", "create", "update", "move", "delete", "restore"},
             pc   : {"idle", "cycle", "category", "insert", "fields", "parent", "delete", "purge",
                     "fetch", "window", "checkpoint", "prune", "read", "restore"},
             n    : Parent,
             row  : Row,        \* what is to be written
             move : BOOLEAN,    \* the request names a parent
             read : Row,        \* the snapshot for the next version
             done : BOOLEAN ]   \* the row is written

\* Nodes, versions and requests have their types.
TypeOK ==
  /\ node \in [Node -> Row] /\ recent \subseteq Node
  /\ DOMAIN versions = Node /\ \A n \in Node : versions[n] \in Seq(Row)
  /\ request \in [Client -> Request]
  /\ requests \in 0 .. MaxRequests

NoRow == [parent |-> NoNode, kind |-> "none", text |-> CHOOSE t \in Text : TRUE]
Idle  == [op |-> "none", pc |-> "idle", n |-> NoNode, row |-> NoRow,
          move |-> FALSE, read |-> NoRow, done |-> FALSE]

Init ==
  /\ node = [n \in Node |-> NoRow]
  /\ versions = [n \in Node |-> <<>>] /\ recent = {}
  /\ request = [c \in Client |-> Idle]
  /\ requests = 0

Exists(n) == node[n].kind \in {"category", "article"}

At(c, pc) == request[c].pc = pc
Goes(c, pc) == request' = [request EXCEPT ![c].pc = pc]
Ends(c) == request' = [request EXCEPT ![c] = Idle]

----------------------------------------------------------------------------
(* The tree                                                                *)

\* n and its ancestors, up to so many steps away.
Up(n, depth) ==
  LET up[k \in 0 .. depth] ==
        IF k = 0 THEN {n}
        ELSE LET near == up[k - 1] IN near \cup ({node[m].parent : m \in near} \ {NoNode})
  IN  up[depth]

\* The rows ON DELETE CASCADE takes with n.
Below(n) == {m \in Node : Exists(m) /\ n \in Up(m, Cardinality(Node))}

----------------------------------------------------------------------------
(* Requests arrive                                                         *)

Ask(c, new) ==
  /\ At(c, "idle") /\ requests < MaxRequests /\ new.op \in Operations
  /\ request' = [request EXCEPT ![c] = new] /\ requests' = requests + 1
  /\ UNCHANGED <<node, versions, recent>>

\* Only a parent that is named is checked.
FirstCheck(p, checked, next) == IF p = NoNode THEN next ELSE checked

Create(c) == \E n \in Node, p \in Parent, kind \in Kinds, text \in Text :
  /\ node[n].kind = "none" /\ \A d \in Client : request[d].n # n
  /\ Ask(c, [Idle EXCEPT !.op = "create", !.n = n, !.pc = FirstCheck(p, "category", "insert"),
                         !.row = [parent |-> p, kind |-> kind, text |-> text]])

Update(c) == \E n \in Node, p \in Parent, kind \in Kinds, text \in Text, move \in BOOLEAN :
  /\ node[n].kind # "none" /\ (move \/ p = NoNode)
  /\ Ask(c, [Idle EXCEPT !.op = "update", !.n = n, !.pc = FirstCheck(p, "cycle", "fields"),
                         !.row = [parent |-> p, kind |-> kind, text |-> text], !.move = move])

Move(c) == \E n \in Node, p \in Parent :
  /\ node[n].kind # "none"
  /\ Ask(c, [Idle EXCEPT !.op = "move", !.n = n, !.pc = FirstCheck(p, "cycle", "parent"),
                         !.row.parent = p, !.move = TRUE])

Delete(c) == \E n \in Node :
  /\ node[n].kind # "none"
  /\ Ask(c, [Idle EXCEPT !.op = "delete", !.n = n, !.pc = "delete"])

\* The version is read before the node.
Restore(c) == \E n \in Node : \E i \in DOMAIN versions[n] :
  Ask(c, [Idle EXCEPT !.op = "restore", !.n = n, !.pc = "read", !.row = versions[n][i]])

----------------------------------------------------------------------------
(* Checks of a parent                                                      *)

\* Mutant: only the parent itself is compared with the node.
CheckParentOnly(c) == LET r == request[c] IN
  /\ At(c, "cycle")
  /\ IF r.row.parent = r.n THEN Ends(c) ELSE Goes(c, "category")
  /\ UNCHANGED <<node, versions, recent, requests>>

CheckCycle(c) == LET r == request[c] IN
  /\ At(c, "cycle")
  /\ IF r.n \in Up(r.row.parent, MaxDepth) THEN Ends(c) ELSE Goes(c, "category")
  /\ UNCHANGED <<node, versions, recent, requests>>

Writes(r) == CASE r.op = "create" -> "insert"
               [] r.op = "update" -> "fields"
               [] r.op = "move" -> "parent"

ValidateParentIsCategory(c) == LET r == request[c] IN
  /\ At(c, "category")
  /\ IF node[r.row.parent].kind = "category" THEN Goes(c, Writes(r)) ELSE Ends(c)
  /\ UNCHANGED <<node, versions, recent, requests>>

----------------------------------------------------------------------------
(* Writes: the foreign key wants the parent, and nothing else              *)

Allowed(p) == p # NoNode => Exists(p)

Insert(c) == LET r == request[c] IN
  /\ At(c, "insert")
  /\ IF Allowed(r.row.parent)
     THEN node' = [node EXCEPT ![r.n] = r.row] /\ Goes(c, "fetch")
     ELSE Ends(c) /\ UNCHANGED node
  /\ UNCHANGED <<versions, recent, requests>>

\* A node that is gone is a 404 before the fields are written; the parent is
\* written by a statement of its own.
UpdateFields(c) == LET r == request[c] IN
  /\ At(c, "fields")
  /\ IF Exists(r.n)
     THEN /\ node' = [node EXCEPT ![r.n].kind = r.row.kind, ![r.n].text = r.row.text]
          /\ Goes(c, IF r.move THEN "parent" ELSE "fetch")
     ELSE Ends(c) /\ UNCHANGED node
  /\ UNCHANGED <<versions, recent, requests>>

UpdateParent(c) == LET r == request[c] IN
  /\ At(c, "parent")
  /\ IF ~Exists(r.n) \/ ~Allowed(r.row.parent)
     THEN Ends(c) /\ UNCHANGED node
     ELSE node' = [node EXCEPT ![r.n].parent = r.row.parent] /\ Goes(c, "fetch")
  /\ UNCHANGED <<versions, recent, requests>>

DeleteNode(c) == LET r == request[c] IN
  /\ At(c, "delete")
  /\ IF Exists(r.n)
     THEN /\ node' = [m \in Node |-> IF m \in Below(r.n) THEN [NoRow EXCEPT !.kind = "deleted"]
                                     ELSE node[m]]
          /\ Goes(c, "purge")
     ELSE Ends(c) /\ UNCHANGED node
  /\ UNCHANGED <<versions, recent, requests>>

\* The versions of the node itself, not of those that went with it.
DeleteEntityVersions(c) ==
  /\ At(c, "purge") /\ Ends(c)
  /\ versions' = [versions EXCEPT ![request[c].n] = <<>>]
  /\ recent' = recent \ {request[c].n}
  /\ UNCHANGED <<node, requests>>

\* Neither the cycle nor the category is looked at again.
RestoreRow(c) == LET r == request[c] IN
  /\ At(c, "restore")
  /\ IF Exists(r.n) /\ Allowed(r.row.parent)
     THEN /\ node' = [node EXCEPT ![r.n] = r.row]
          /\ request' = [request EXCEPT ![c].pc = "fetch", ![c].done = TRUE]
     ELSE Ends(c) /\ UNCHANGED node
  /\ UNCHANGED <<versions, recent, requests>>

----------------------------------------------------------------------------
(* Versions                                                                *)

\* What a version is made of is read back after the write.
Fetch(c) == LET r == request[c] IN
  /\ At(c, "fetch")
  /\ IF Exists(r.n) /\ r.op # "move"
     THEN request' = [request EXCEPT ![c].read = node[r.n],
                        ![c].pc = IF r.op = "update" THEN "window" ELSE "checkpoint"]
     ELSE Ends(c)
  /\ UNCHANGED <<node, versions, recent, requests>>

ReadCurrent(c) == LET r == request[c] IN
  /\ At(c, "read")
  /\ IF Exists(r.n)
     THEN request' = [request EXCEPT ![c].read = node[r.n], ![c].pc = "checkpoint"]
     ELSE Ends(c)
  /\ UNCHANGED <<node, versions, recent, requests>>

\* maybe_create_version
Coalesce(c) ==
  /\ At(c, "window")
  /\ IF request[c].n \in recent THEN Ends(c) ELSE Goes(c, "checkpoint")
  /\ UNCHANGED <<node, versions, recent, requests>>

WindowPasses(n) ==
  /\ n \in recent /\ recent' = recent \ {n}
  /\ UNCHANGED <<node, versions, request, requests>>

CreateVersionCheckpoint(c) == LET r == request[c] IN
  /\ At(c, "checkpoint") /\ Goes(c, "prune")
  /\ versions' = [versions EXCEPT ![r.n] = Append(@, r.read)]
  /\ recent' = recent \cup {r.n}
  /\ UNCHANGED <<node, requests>>

Newest(s) == IF Len(s) > MaxVersions THEN SubSeq(s, Len(s) - MaxVersions + 1, Len(s)) ELSE s

PruneVersions(c) == LET r == request[c] IN
  /\ At(c, "prune")
  /\ versions' = [versions EXCEPT ![r.n] = Newest(@)]
  /\ IF r.op = "restore" /\ ~r.done THEN Goes(c, "restore") ELSE Ends(c)
  /\ UNCHANGED <<node, recent, requests>>

\* The caller is gone, the process dies, or a statement is refused: a slug that
\* is taken, a version number that another request took.
DropRequest(c) ==
  /\ ~At(c, "idle") /\ Ends(c)
  /\ UNCHANGED <<node, versions, recent, requests>>

----------------------------------------------------------------------------
Next ==
  \/ \E c \in Client :
       \/ Create(c) \/ Update(c) \/ Move(c) \/ Delete(c) \/ Restore(c)
       \/ CheckCycle(c) \/ ValidateParentIsCategory(c)
       \/ Insert(c) \/ UpdateFields(c) \/ UpdateParent(c) \/ DeleteNode(c)
       \/ DeleteEntityVersions(c) \/ RestoreRow(c)
       \/ Fetch(c) \/ ReadCurrent(c) \/ Coalesce(c)
       \/ CreateVersionCheckpoint(c) \/ PruneVersions(c) \/ DropRequest(c)
  \/ \E n \in Node : WindowPasses(n)

Spec == Init /\ [][Next]_vars

----------------------------------------------------------------------------
\* No node is above itself: build_tree starts at the roots, so that the nodes
\* of a cycle, and all below them, are not shown to anybody.
IsTree == \A n \in Node :
  node[n].parent # NoNode => n \notin Up(node[n].parent, Cardinality(Node))

\* What a restore overwrites is among the versions of the node, however few of
\* the edits before it got a version of their own; unless another request
\* wrote the node after the restore had read it, or deleted its versions.
\* It takes MaxVersions versions made in between to prune it.
RestoreCanBeUndone == \A c \in Client : LET r == request[c] IN
  At(c, "restore") /\ Exists(r.n) /\ node[r.n] = r.read =>
    \E i \in DOMAIN versions[r.n] : versions[r.n][i] = r.read

\* 020_knowledge_fix_article_parents.sql: "Hierarchy rule enforced from now on
\* [...]: a node may only be nested under a category, or at the root level
\* (parent_id IS NULL).  Articles are always leaf nodes."
OnlyCategoriesNest == \A n \in Node :
  node[n].parent # NoNode => node[node[n].parent].kind = "category"
=============================================================================
