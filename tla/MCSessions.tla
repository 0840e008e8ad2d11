----------------------------- MODULE MCSessions -----------------------------
(***************************************************************************)
(* What works for one session, as scenes of one run of TLC: the transcript *)
(* of its runs, its deletion, the delegates of a run, the memories         *)
(* inferred from it and those recalled for it, the loop of one leg, and    *)
(* the proposals whose approval opens a session.  The components share no  *)
(* row with each other that a property is about, so a scene, chosen at the *)
(* start and kept, lets one of them go on and leaves the others as they    *)
(* are initially.                                                          *)
(***************************************************************************)
EXTENDS Transcript

CONSTANTS
  Scenes,
  Path, Linked, Key, NoKey, Client, SessionRun, Conversions,
  Child, Concurrency,
  ExtractionWorker, BatchSize, MaxMessages, MaxBatches, MaxSettings,
  General, Project, Leg, MaxTries, MaxChanges,
  MaxIterations, MaxEmptyResponses, MaxFastRetries, ToolLimit, TokenLimit,
  TurnCost, Reserve, MaxTasks, ProtectFirst, ProtectLast,
  Profile, Tasks, NoTask, Limit, Budgets, Approval, MaxDay, Overlap,
  Faults

VARIABLES
  scene,
  session, operation, cron, sessionRun, starting,
  file, save, receipt, journal, client,
  parent, child, task, exec,
  settings, message, cursor, batch, inferred, forgotten, extractor,
  memory, watermark, manifest, leg, lapses,
  phase, iteration, turn, spent, messages, generated, cancelled,
  setting, candidate, overdue, approval, round, day

Deletion == INSTANCE SessionDeletion WITH
  Run <- SessionRun, run <- sessionRun, MaxFaults <- Faults
Delegation == INSTANCE Delegates WITH MaxFaults <- Faults
Extraction == INSTANCE MemoryExtraction WITH
  Worker <- ExtractionWorker, worker <- extractor, memory <- inferred,
  MaxChanges <- MaxSettings
Recall == INSTANCE MemoryRecall WITH MaxLapses <- 0
Loop == INSTANCE AgentLoopSafety WITH
  Batches <- {<<"read a", "read b">>, <<"write", "blocking">>, <<"delegate", "delegate">>}
Approving == INSTANCE Proactive WITH
  Limit <- Tasks, Concurrency <- Overlap, MaxFaults <- Faults, task <- overdue
Discovering == INSTANCE Proactive WITH Concurrency <- Overlap, MaxFaults <- Faults, task <- overdue

ASSUME SceneAssumption ==
  /\ Deletion!SessionDeletionAssumption /\ Delegation!DelegatesAssumption
  /\ Extraction!MemoryExtractionAssumption /\ Recall!MemoryRecallAssumption
  /\ Loop!AgentLoopAssumption /\ Discovering!ProactiveAssumption

deletion == <<session, operation, cron, sessionRun, starting,
              file, save, receipt, journal, client>>
delegation == <<parent, child, task, exec>>
extraction == <<settings, message, cursor, batch, inferred, forgotten, extractor>>
recall == <<memory, watermark, manifest, leg, lapses>>
loop == <<phase, iteration, turn, spent, messages, generated, cancelled>>
proactive == <<setting, candidate, overdue, approval, round, day>>
transcript == <<count, asked, rows, notices, run, outbox, worker>>

InitScene ==
  /\ scene \in Scenes
  /\ Init /\ Deletion!Init /\ Delegation!Init /\ Extraction!Init /\ Recall!Init
  /\ Loop!Init /\ Discovering!Init
  /\ scene # "deletion" => cron = "none"
  /\ scene # "extraction" => settings.enabled
  /\ scene # "recall" => \A m \in General \cup Project : memory[m].active

\* In the scene of the approvals every candidate is proposed before the first
\* is approved, the agent may be disabled for good, and one of the candidates
\* ignored.
ProposedFirst ==
  /\ IF \E c \in Approving!Candidate : candidate[c].status = "none"
     THEN \A a \in Approval : approval'[a].pc = "none"
     ELSE UNCHANGED round
  /\ \A x, y \in Approval : approval'[y].pc # "none" /\ x < y => approval'[x].pc # "none"
  /\ \A p \in Profile : setting'[p].enabled => setting[p].enabled
  /\ LET ignored == {c \in Approving!Candidate : candidate'[c].status = "ignored"}
     IN  Cardinality(ignored) <= 1 /\ \A c \in ignored : candidate'[c].cooling

\* In the scene of the discovery there is one approval, and work on the most
\* overdue task only.
OneApproval ==
  /\ \A a \in Approval \ {1} : approval'[a] = approval[a]
  /\ \A t \in 2 .. Tasks : overdue'[t] = overdue[t]

NextScene ==
  /\ \/ /\ scene = "transcript" /\ Next
        /\ UNCHANGED <<deletion, delegation, extraction, recall, loop, proactive>>
     \/ /\ scene = "deletion" /\ Deletion!Next
        /\ UNCHANGED <<transcript, delegation, extraction, recall, loop, proactive>>
     \/ /\ scene = "delegation" /\ Delegation!Next
        /\ UNCHANGED <<transcript, deletion, extraction, recall, loop, proactive>>
     \/ /\ scene = "extraction" /\ Extraction!Next
        /\ UNCHANGED <<transcript, deletion, delegation, recall, loop, proactive>>
     \/ /\ scene = "recall" /\ Recall!Next
        /\ UNCHANGED <<transcript, deletion, delegation, extraction, loop, proactive, faults>>
     \/ /\ scene = "loop" /\ Loop!Next
        /\ UNCHANGED <<transcript, deletion, delegation, extraction, recall, proactive, faults>>
     \/ /\ \/ /\ scene = "approving" /\ Approving!Next /\ ProposedFirst
              /\ UNCHANGED <<overdue, faults>>
           \/ /\ scene = "discovering" /\ Discovering!Next /\ OneApproval
              /\ UNCHANGED <<setting, day>>
        /\ UNCHANGED <<transcript, deletion, delegation, extraction, recall, loop>>
  /\ UNCHANGED scene

all == <<scene, faults, transcript, deletion, delegation, extraction, recall, loop,
         proactive>>

In(name, A) == scene = name /\ A

\* The fairness of a component, in its scene.
FairTranscript ==
  /\ \A w \in Worker : WF_vars(In("transcript", WorkerStep(w)))
  /\ \A r \in Run : WF_vars(In("transcript", ~Owned(r) /\ ReconcileStaleRun(r)))

FairDeletion ==
  /\ \A c \in Client : WF_deletion(In("deletion", Deletion!ClientStep(c)))
  /\ WF_deletion(In("deletion", Deletion!FinalizeSessionDeletion))
  /\ WF_deletion(In("deletion", Deletion!InsertChild))
  /\ \A r \in SessionRun : /\ WF_deletion(In("deletion", Deletion!ClaimRun(r)))
                           /\ WF_deletion(In("deletion", Deletion!FinishRun(r)))
  /\ \A k \in Key : WF_deletion(In("deletion", Deletion!ReconcileOperation(k)))

FairDelegation ==
  /\ WF_delegation(In("delegation", Delegation!TaskStep))
  /\ \A i \in Child :
       /\ WF_delegation(In("delegation", Delegation!ChildStep(i)))
       /\ WF_delegation(In("delegation", Delegation!ReconcileChild(i)))
       /\ WF_delegation(In("delegation", exec[i].pc = "dropped" /\ Delegation!LapseChild(i)))

FairExtraction ==
  \A w \in ExtractionWorker : WF_extraction(In("extraction", Extraction!WorkerStep(w)))

FairLoop == WF_loop(In("loop", Loop!LoopStep))

\* The coordinator goes on, and no quiet hours last the whole day; a request
\* that is not dropped ends.
FairDiscovery ==
  /\ WF_proactive(In("discovering", Discovering!RoundStep))
  /\ \A p \in Profile : SF_proactive(In("discovering", Discovering!SearchTasks(p)))
  /\ \A a \in Approval : WF_proactive(In("discovering", Discovering!ApprovalStep(a)))

SceneSpec == InitScene /\ [][NextScene]_all

----------------------------------------------------------------------------
\* Rows, tasks, requests and files have their types in every component.
TypesOK ==
  /\ scene = "transcript" => TypeOK
  /\ scene = "deletion" => Deletion!TypeOK
  /\ scene = "delegation" => Delegation!TypeOK
  /\ scene = "extraction" => Extraction!TypeOK
  /\ scene = "recall" => Recall!TypeOK
  /\ scene = "loop" => Loop!TypeOK
  /\ scene \in {"approving", "discovering"} => Discovering!TypeOK

\* What workers have inserted and not counted yet: the user's message (0), and
\* the messages of a projection.
Pending == {x \in Worker \X (0 .. Length) :
  IF x[2] = 0 THEN At(x[1], "counting") ELSE x[2] <= worker[x[1]].saved}

Held == Cardinality(asked) + Cardinality(rows) + Cardinality(notices)

\* The count of a session never runs ahead of its messages, and what it lags
\* behind is what a living worker is about to add or what a fault took away:
\* however workers apply one row side by side, no message is counted twice.
CountNeverAhead ==
  /\ count + Cardinality(Pending) <= Held
  /\ faults = 0 /\ scene = "transcript" => count + Cardinality(Pending) = Held

\* A row of the outbox is applied or given up in the end: workers that die in
\* the middle of it, or reopen it, do not keep it pending for ever.
ProjectionSettles == FairTranscript => \A r \in Run :
  outbox[r].status = "pending" ~> outbox[r].status \in {"applied", "failed"}

\* The session is removed only when no run, admitted save or cron job goes on.
GoneMeansSettled == Deletion!GoneMeansSettled

\* Only an abandoned save keeps a fenced session.
OnlyAnAbandonedSaveHolds == FairDeletion => Deletion!OnlyAnAbandonedSaveHolds

\* Every child run ends, whatever becomes of its parent.
EveryChildSettles == FairDelegation =>
  ((\E i \in Child : Delegation!Live(i)) ~> \A i \in Child : ~Delegation!Live(i))

\* A child that was asked to stop is never recorded as completed, and nothing is
\* written over the record of one that has ended.
CancelWins == Delegation!CancelWins

\* No memory is inferred from a message written while extraction was off.
NoBackfill == Extraction!NoBackfill

\* As long as extraction stays on, the worker gets to the end of the session.
Unread == settings.enabled /\ cursor.last < Extraction!Tail
MessagesAreRead == FairExtraction => (Unread ~> ~Unread)

\* No leg calls the model, nor delivers an answer, with a memory that changed
\* after it was found.
RecalledIsFresh == Recall!RecalledIsFresh

\* What a leg leaves in the session is a conversation: the results of a turn
\* stand behind it, in the order of its calls.
TurnsAreAnswered == Loop!TurnsAreAnswered

\* The budget of a run is overrun by less than a turn of each agent.
BudgetIsKept == Loop!BudgetIsKept

\* Failing requests, empty answers and new calls do not keep a leg for ever.
EveryLegEnds == FairLoop => <>(scene = "loop" => phase \in Loop!Ended)

\* One wake run for a candidate that was approved, and no more a day than the
\* budget and the approvals that overlapped allow.
WakesAreApproved == Approving!WakesAreApproved

\* The oldest overdue tasks are proposed in the end, and again after a user
\* ignored them for the time of the cooldown.
OverdueIsProposed == FairDiscovery => \A p \in Profile, t \in 1 .. Tasks :
  []<>~In("discovering", Discovering!Starves(p, t))
=============================================================================
