------------------------------ MODULE MCFiles ------------------------------
(***************************************************************************)
(* What users and agents work on besides a session, as scenes of one run   *)
(* of TLC: the jobs that mirror a path of the Drive, the journal of file   *)
(* operations, the content held back for review, the processes of the      *)
(* sandbox, and the wiki, its tree by one client and its versions by two.  *)
(* They share no row that a property is about, so a scene, chosen at the   *)
(* start and kept, lets one of them go on and leaves the others as they    *)
(* are initially.                                                          *)
(***************************************************************************)
EXTENDS MCDriveSync

CONSTANTS
  Scenes,
  Path, Op, Kinds, NoOp, NoPath, MaxResources, MaxReconciliations, MaxRetries,
  Item, Client, NoItem, MaxVersion,
  Foreground, Background, Viewer, MaxCommands,
  Node, Text, NoNode, MaxVersions, MaxDepth

VARIABLES
  scene,
  disk, resource, resources, op, entry, request, worker, budget,
  item, stored, file, released, client, sweep, slow,
  call, handler, alive, executions, cancels, record, watched, row, viewer, user, commands,
  node, versions, recent, edit, edits

Journal == INSTANCE ResourceJournal WITH
  MaxAttempts <- MaxReconciliations, MaxSlow <- 0
Quarantine == INSTANCE ContentQuarantine WITH
  Path <- {CHOOSE p \in Path : TRUE}, MaxSlow <- 0
Sandbox == INSTANCE SandboxSafety
Tree == INSTANCE Knowledge WITH
  Client <- {CHOOSE c \in Client : TRUE}, Kinds <- {"category"},
  Text <- {CHOOSE t \in Text : TRUE}, Operations <- {"create", "move", "delete"},
  MaxRequests <- 4, request <- edit, requests <- edits
Wiki == INSTANCE Knowledge WITH
  Kinds <- {"article"}, Operations <- {"create", "update", "delete", "restore"},
  MaxRequests <- 4, request <- edit, requests <- edits

ASSUME SceneAssumption ==
  /\ Journal!ResourceJournalAssumption /\ IsFiniteSet(Op)
  /\ Quarantine!ContentQuarantineAssumption
  /\ Sandbox!SandboxProcessesAssumption
  /\ Tree!KnowledgeAssumption /\ Wiki!KnowledgeAssumption
  /\ Text # {} /\ Client # {}

mirroring == <<local, mirror, queued, ops, jobs, job, proc, lost>>
journal == <<disk, resource, resources, op, entry, request, worker, budget>>
quarantine == <<item, stored, file, released, client, sweep, slow>>
sandbox == <<call, handler, alive, executions, cancels, record, watched, row,
             viewer, user, commands>>
wiki == <<node, versions, recent, edit, edits>>

InitScene ==
  /\ scene \in Scenes
  /\ Init /\ Journal!Init /\ Quarantine!Init /\ Sandbox!Init /\ Wiki!Init

\* Operations are all alike, and so are nodes: their numbers are given out in
\* order.
InOrder(S, begun(_)) == \A x, y \in S : begun(y) /\ x < y => begun(x)
Begun(o) == op'[o].state # "none"
Named(n) == node'[n].kind # "none" \/ \E c \in Client : edit'[c].n = n

\* In the scene of the sandbox the agents make one call, and one request looks
\* at the rows, or two do while no user stops a process.
OneCall == Cardinality({j \in Foreground \cup Background : call'[j] # "idle"}) <= 1
OneLook == commands' = 0 \/ Cardinality({v \in Viewer : viewer'[v].pc # "idle"}) <= 1

\* In the scene of the versions three requests work on one node.
OneNode == edits' <= 3 /\ \A n \in Node : Named(n) => n = 1

NextScene ==
  /\ \/ scene = "mirroring" /\ Next /\ UNCHANGED <<journal, quarantine, sandbox, wiki>>
     \/ scene = "journal" /\ Journal!Next /\ InOrder(Op, Begun)
        /\ UNCHANGED <<mirroring, quarantine, sandbox, wiki, faults>>
     \/ scene = "quarantine" /\ Quarantine!Next /\ UNCHANGED <<mirroring, journal, sandbox, wiki>>
     \/ /\ scene = "sandbox" /\ Sandbox!Next /\ OneCall /\ OneLook
        /\ UNCHANGED <<mirroring, journal, quarantine, wiki>>
     \/ /\ \/ scene = "tree" /\ Tree!Next /\ InOrder(Node, Named)
           \/ scene = "versions" /\ Wiki!Next /\ OneNode
        /\ UNCHANGED <<mirroring, journal, quarantine, sandbox, faults>>
  /\ UNCHANGED scene

In(name, A) == scene = name /\ A

\* The fairness of a component, in its scene: the loops of the living
\* processes go on, and time passes.
FairMirroring ==
  /\ \A p \in Process : WF_vars(In("mirroring", LoopStep(p)))
  /\ \A j \in Job : WF_vars(In("mirroring", RetryDelayPasses(j)))
                    /\ WF_vars(In("mirroring", LeaseExpires(j) /\ UNCHANGED faults))

FairJournal ==
  /\ \A o \in Op : WF_journal(In("journal", Journal!RequestStep(o)))
  /\ WF_journal(In("journal", Journal!Reconcile))
  /\ WF_journal(In("journal", \E o \in Op : Journal!ClaimReconciliation(o) /\ UNCHANGED budget))

FairQuarantine ==
  /\ \A c \in Client : WF_quarantine(In("quarantine", Quarantine!RequestStep(c)))
  /\ \A i \in Item :
       /\ WF_quarantine(In("quarantine", Quarantine!ReadApproving(i) /\ UNCHANGED slow))
       /\ WF_quarantine(In("quarantine", Quarantine!RemoveOrphan(i)))
  /\ WF_quarantine(In("quarantine", Quarantine!SettleApproving))

FairSandbox ==
  /\ \A j \in Foreground \cup Background :
       /\ WF_sandbox(In("sandbox", Sandbox!CallStep(j)))
       /\ WF_sandbox(In("sandbox", Sandbox!HandlerStep(j)))
  /\ \A p \in Background : WF_sandbox(In("sandbox", Sandbox!RecordEnd(p)))
  /\ WF_sandbox(In("sandbox", \E v \in Viewer : Sandbox!LookAtAll(v)))
  /\ \A v \in Viewer : WF_sandbox(In("sandbox", Sandbox!ViewerStep(v)))
  /\ WF_sandbox(In("sandbox", Sandbox!CommandStep))

SceneSpec ==
  InitScene /\ [][NextScene]_<<scene, faults, mirroring, journal, quarantine, sandbox, wiki>>

----------------------------------------------------------------------------
\* Files, rows, loops and requests have their types in every component.
TypesOK ==
  /\ scene = "mirroring" => TypeOK
  /\ scene = "journal" => Journal!TypeOK
  /\ scene = "quarantine" => Quarantine!TypeOK
  /\ scene = "sandbox" => Sandbox!TypeOK
  /\ scene \in {"tree", "versions"} => Wiki!TypeOK

Unsettled(j) == job[j].status \in {"pending", "running"}

\* Every change of a file is delivered or given up in the end: neither a dead
\* process nor an outage leaves a job running (drive_sync.rs:5-7), and only a
\* lapsed lease has a job tried more often than its attempts allow.
EveryJobSettles ==
  /\ []AttemptsBounded
  /\ FairMirroring => ((\E j \in Job : Unsettled(j)) ~> \A j \in Job : ~Unsettled(j))

----------------------------------------------------------------------------
Settled(o) == op[o].state \in {"none", "completed", "conflict", "compensation_required"}

Quiet == worker.pc = "idle" /\ \A o \in Op : request[o] = "none" /\ Settled(o)

\* Every operation is finished, refused or handed to the user in the end, by
\* its request or by the worker, whatever request was dropped on the way.
EveryOperationSettles == FairJournal =>
  ((\E o \in Op : ~Settled(o)) ~> \A o \in Op : Settled(o))

\* A lifecycle operation took what lay at p.
Taken(p) == \E l \in Op : op[l].kind \in {"move", "trash"} /\ op[l].path = p

\* The revision of a file is the number of writes that completed on it, though
\* the request and the worker may both finish one, and whatever becomes of the
\* file meanwhile.  And the bytes of a write that is reported as a conflict are
\* in the Drive only if a move or a trash operation took them from their path
\* before the worker looked there.
WritesAreTold ==
  /\ \A i \in Journal!Resource :
       resource[i].revision = Cardinality({o \in Op :
         op[o].kind = "content_write" /\ op[o].state = "completed" /\ op[o].resource = i})
  /\ \A o \in Op : op[o].state = "conflict" =>
       Taken(op[o].path) \/ \A p \in Journal!Place : disk[p] # o

\* An operation asks for compensation, or a purge was repeated for an entry that
\* had been restored.
Disturbed ==
  (\E o \in Op : op[o].state = "compensation_required") \/ ~Journal!RestoredIsTerminal

\* Without faults the identities agree with the disk when all is quiet: the
\* newest revision of a file is what lies at its path, and every file has an
\* identity.  Only where an operation asks for compensation, or was repeated in
\* vain, a file may lie about that has none, or a new one without a revision.
IdentitiesMatchDisk ==
  budget.faults = 0 /\ Quiet =>
    /\ \A i \in Journal!Resource : resource[i].state = "active" =>
         \/ disk[resource[i].path] = resource[i].newest
         \/ Disturbed /\ resource[i].revision = 0
    /\ \A p \in Path : disk[p] # NoOp => Journal!ActiveAt(p) # {} \/ Disturbed

----------------------------------------------------------------------------
\* Bytes reach the Drive only while their item is being approved, and an item
\* is recorded as approved only when its bytes did.
ReleaseIsReviewed == Quarantine!ReleaseIsReviewed

Leftover(i) == \/ item[i].status = "approving"
               \/ item[i].status \in Quarantine!Decided /\ i \in stored

\* Neither an approval that was cut off nor the bytes of a decided item are
\* left behind.
NothingLeftBehind == FairQuarantine =>
  ((\E i \in Item : Leftover(i)) ~> \A i \in Item : ~Leftover(i))

----------------------------------------------------------------------------
\* A cancelled call leaves nothing running in the sandbox.
CancelledDoesNotRun == Sandbox!CancelledDoesNotRun

\* As long as somebody looks at the list, the rows tell in the end which
\* processes run.
RowsTellTheTruth == FairSandbox =>
  \A p \in Background : <>[](scene = "sandbox" => Sandbox!RowIsTrue(p))

----------------------------------------------------------------------------
\* The wiki stays a tree as long as it is changed by one request after the
\* other and no version is restored; and what a restore overwrites is among
\* the versions of its node.
WikiIsKept == /\ scene = "tree" => Tree!IsTree
              /\ scene = "versions" => Wiki!RestoreCanBeUndone
=============================================================================
