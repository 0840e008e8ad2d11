--------------------------- MODULE SessionsSafety ---------------------------
(***************************************************************************)
(* Safety of what works for one session, for any number of runs, workers,  *)
(* requests, memories and agents, and any number of faults: every scene of *)
(* MCSessions keeps the invariant of its component, and leaves the others  *)
(* as they are initially.                                                  *)
(***************************************************************************)
EXTENDS MCSessions, FiniteSetTheorems, TLAPS

\* The scene is kept; it goes on, and what belongs to another one stays.
LEMMA OneSceneGoesOn ==
  ASSUME [NextScene]_all
  PROVE  /\ scene' = scene
         /\ (scene = "transcript" /\ Next) \/ UNCHANGED transcript
         /\ (scene = "deletion" /\ Deletion!Next) \/ UNCHANGED deletion
         /\ (scene = "delegation" /\ Delegation!Next) \/ UNCHANGED delegation
         /\ (scene = "extraction" /\ Extraction!Next) \/ UNCHANGED extraction
         /\ (scene = "recall" /\ Recall!Next) \/ UNCHANGED recall
         /\ (scene = "loop" /\ Loop!Next) \/ UNCHANGED loop
         /\ \/ scene = "approving" /\ Approving!Next
            \/ scene = "discovering" /\ Discovering!Next
            \/ UNCHANGED proactive
BY DEF NextScene, all

----------------------------------------------------------------------------
(* The deletion of the session                                             *)

\* The row of the session and that of its deletion agree, and a fenced session
\* has no cron job that goes on; after the fence, no save of the session is
\* admitted any more, and after the removal no run.
DeletionInv ==
  /\ Deletion!TypeOK
  /\ operation = "none" \/ session # "live"
  /\ operation \in {"none", "completed"} \/ session = "deleting"
  /\ session # "live" => cron # "future"
  /\ \A c \in Client : client[c].pc # "idle" => client[c].key \in Key
  /\ Deletion!GoneMeansSettled

\* A run gets another status.
LEMMA RunMoves ==
  ASSUME Deletion!SessionDeletionAssumption, DeletionInv,
         \E r \in SessionRun :
           \/ Deletion!EnqueueChatRun(r) \/ Deletion!TickCron(r) \/ Deletion!ClaimRun(r)
           \/ Deletion!FinishRun(r) \/ Deletion!CancelQueuedRun(r) \/ Deletion!LoseLease(r)
  PROVE  DeletionInv'
<1>1. PICK r \in SessionRun :
           \/ Deletion!EnqueueChatRun(r) \/ Deletion!TickCron(r) \/ Deletion!ClaimRun(r)
           \/ Deletion!FinishRun(r) \/ Deletion!CancelQueuedRun(r) \/ Deletion!LoseLease(r)
  OBVIOUS
<1>2. /\ \E to \in {"queued", "running", "final"} : sessionRun' = [sessionRun EXCEPT ![r] = to]
      /\ UNCHANGED <<session, operation, starting, file, save, receipt, journal, client>>
      /\ cron' = cron \/ (cron = "future" /\ cron' = "exhausted")
      /\ faults' \in 0 .. Faults
  BY <1>1 DEF Deletion!EnqueueChatRun, Deletion!TickCron, Deletion!ClaimRun, Deletion!FinishRun,
         Deletion!CancelQueuedRun, Deletion!LoseLease, Deletion!Admit, Deletion!Fault,
         Deletion!documents, DeletionInv, Deletion!TypeOK, Deletion!SessionDeletionAssumption
<1>3. Deletion!TypeOK'  BY <1>2 DEF DeletionInv, Deletion!TypeOK, Deletion!Active
<1>4. Deletion!PendingSaves' = Deletion!PendingSaves  BY <1>2 DEF Deletion!PendingSaves
<1>5. session = "gone" => Deletion!NoActiveRun'
  BY <1>1, <1>2 DEF Deletion!EnqueueChatRun, Deletion!TickCron, Deletion!ClaimRun, Deletion!FinishRun,
         Deletion!CancelQueuedRun, Deletion!LoseLease, Deletion!NoActiveRun, Deletion!Active,
         DeletionInv, Deletion!GoneMeansSettled, Deletion!TypeOK
<1>6. QED  BY <1>2, <1>3, <1>4, <1>5 DEF DeletionInv, Deletion!GoneMeansSettled

\* A run reads the row of its parent, or inserts its child.
LEMMA ChildMoves ==
  ASSUME Deletion!SessionDeletionAssumption, DeletionInv,
         Deletion!InsertChild \/ \E r \in SessionRun : Deletion!ReadParent(r)
  PROVE  DeletionInv'
<1>1. /\ UNCHANGED <<session, operation, cron, file, save, receipt, journal, client, faults>>
      /\ starting' \in SessionRun \cup {NoRun}
      /\ \/ UNCHANGED sessionRun
         \/ session # "gone" /\ \E r \in SessionRun :
                                  sessionRun' = [sessionRun EXCEPT ![r] = "delegate"]
  BY DEF Deletion!InsertChild, Deletion!ReadParent, Deletion!Admit, Deletion!documents
<1>2. Deletion!TypeOK'  BY <1>1 DEF DeletionInv, Deletion!TypeOK, Deletion!Active
<1>3. Deletion!PendingSaves' = Deletion!PendingSaves  BY <1>1 DEF Deletion!PendingSaves
<1>4. session = "gone" => sessionRun' = sessionRun  BY <1>1
<1>5. QED
  BY <1>1, <1>2, <1>3, <1>4 DEF DeletionInv, Deletion!GoneMeansSettled, Deletion!NoActiveRun

\* The fence is set, by a user who confirmed that the cron job is retired.
LEMMA FenceStep ==
  ASSUME DeletionInv, \E confirmed \in BOOLEAN : Deletion!FenceSession(confirmed)
  PROVE  DeletionInv'
<1>1. /\ session' = "deleting" /\ operation' = "fenced" /\ cron' \in {"none", "retired"}
      /\ UNCHANGED <<sessionRun, starting, file, save, receipt, journal, client, faults>>
  BY DEF Deletion!FenceSession, Deletion!documents
<1>2. Deletion!TypeOK'  BY <1>1 DEF DeletionInv, Deletion!TypeOK
<1>3. QED  BY <1>1, <1>2 DEF DeletionInv, Deletion!GoneMeansSettled

\* The session goes, or its deletion waits.
LEMMA FinalizeStep ==
  ASSUME DeletionInv, Deletion!FinalizeSessionDeletion
  PROVE  DeletionInv'
<1>1. session = "deleting" /\ cron # "future"
  BY DEF Deletion!FinalizeSessionDeletion, DeletionInv
<1>2. UNCHANGED <<cron, sessionRun, starting, file, save, journal, client, faults>>
  BY DEF Deletion!FinalizeSessionDeletion
<1>3. CASE operation' # "completed"
  <2>1. /\ operation' \in {"waiting_for_runs", "waiting_for_saves"}
        /\ UNCHANGED <<session, receipt>>
    BY <1>3 DEF Deletion!FinalizeSessionDeletion
  <2>2. Deletion!TypeOK'  BY <1>2, <2>1 DEF DeletionInv, Deletion!TypeOK
  <2>3. QED  BY <1>1, <1>2, <2>1, <2>2 DEF DeletionInv, Deletion!GoneMeansSettled
<1>4. CASE operation' = "completed"
  <2>1. /\ Deletion!NoActiveRun /\ session' = "gone"
        /\ receipt' = [k \in Key |-> [receipt[k] EXCEPT !.sessioned = FALSE]]
    BY <1>4 DEF Deletion!FinalizeSessionDeletion
  <2>2. receipt' \in [Key -> Deletion!Receipt]
    <3>1. \A k \in Key : receipt[k] \in Deletion!Receipt  BY DEF DeletionInv, Deletion!TypeOK
    <3>2. \A k \in Key : [receipt[k] EXCEPT !.sessioned = FALSE] \in Deletion!Receipt
      BY <3>1 DEF Deletion!Receipt
    <3>3. QED  BY <2>1, <3>2
  <2>3. Deletion!TypeOK'  BY <1>2, <1>4, <2>1, <2>2 DEF DeletionInv, Deletion!TypeOK
  <2>4. Deletion!PendingSaves' = {}
    BY <2>1 DEF Deletion!PendingSaves, DeletionInv, Deletion!TypeOK, Deletion!Receipt
  <2>5. Deletion!NoActiveRun'  BY <1>2, <2>1 DEF Deletion!NoActiveRun
  <2>6. QED
    BY <1>1, <1>2, <1>4, <2>1, <2>3, <2>4, <2>5 DEF DeletionInv, Deletion!GoneMeansSettled
<1>5. QED  BY <1>3, <1>4

\* The rows, files and requests of the editor; a request that works has a key.
RequestsTyped ==
  /\ client \in [Client -> Deletion!Request]
  /\ \A c \in Client : client[c].pc # "idle" => client[c].key \in Key

EditorTyped ==
  /\ file \in [Path -> Deletion!Bytes] /\ save \in [Key -> Deletion!Save]
  /\ receipt \in [Key -> Deletion!Receipt] /\ journal \in [Key -> Deletion!Journal]
  /\ faults \in 0 .. Faults
  /\ RequestsTyped

\* The editor admits a save of the session only while the session is live.
LEMMA EditorMoves ==
  ASSUME DeletionInv, UNCHANGED Deletion!chat, EditorTyped',
         session = "gone" => Deletion!PendingSaves' \subseteq Deletion!PendingSaves
  PROVE  DeletionInv'
<1>1. UNCHANGED <<session, operation, cron, sessionRun, starting>>  BY DEF Deletion!chat
<1>2. Deletion!TypeOK'  BY <1>1 DEF DeletionInv, Deletion!TypeOK, EditorTyped, RequestsTyped
<1>3. Deletion!NoActiveRun' = Deletion!NoActiveRun  BY <1>1 DEF Deletion!NoActiveRun
<1>4. QED
  BY <1>1, <1>2, <1>3 DEF DeletionInv, EditorTyped, RequestsTyped, Deletion!GoneMeansSettled

USE DEF Deletion!K, Deletion!Goto, Deletion!Answer, Deletion!Current

\* A request that does nothing has its type.
LEMMA IdleRequest == Deletion!Idle \in Deletion!Request /\ Deletion!Idle.pc = "idle"
BY DEF Deletion!Idle, Deletion!NoReceipt, Deletion!Nothing, Deletion!Bytes, Deletion!Receipt,
       Deletion!Request

\* A fault is counted within its bound.
LEMMA FaultsTyped ==
  ASSUME Deletion!SessionDeletionAssumption, faults \in 0 .. Faults,
         UNCHANGED faults \/ Deletion!Fault
  PROVE  faults' \in 0 .. Faults
BY DEF Deletion!SessionDeletionAssumption, Deletion!Fault

\* A request goes on, with other bytes perhaps, or is over.
LEMMA RequestMoves ==
  ASSUME RequestsTyped, NEW c \in Client, client[c].pc # "idle",
         NEW pc \in {"checking", "marking", "comparing", "receipting", "validating",
                     "committing", "finishing"},
         \/ client' = [client EXCEPT ![c] = Deletion!Idle]
         \/ client' = [client EXCEPT ![c].pc = pc]
         \/ \E bytes \in Deletion!Bytes :
              client' = [client EXCEPT ![c].pc = pc, ![c].bytes = bytes]
  PROVE  RequestsTyped'
<1>1. client[c] \in Deletion!Request /\ client[c].key \in Key  BY DEF RequestsTyped
<1>2. PICK new \in Deletion!Request :
        client' = [client EXCEPT ![c] = new] /\ (new.pc # "idle" => new.key \in Key)
  <2>1. CASE client' = [client EXCEPT ![c] = Deletion!Idle]  BY <2>1, IdleRequest
  <2>2. CASE client' = [client EXCEPT ![c].pc = pc]
    <3>1. /\ [client[c] EXCEPT !.pc = pc] \in Deletion!Request
          /\ [client[c] EXCEPT !.pc = pc].key = client[c].key
      BY <1>1 DEF Deletion!Request
    <3>2. QED  BY <1>1, <2>2, <3>1
  <2>3. ASSUME NEW bytes \in Deletion!Bytes,
               client' = [client EXCEPT ![c].pc = pc, ![c].bytes = bytes]
        PROVE  \E new \in Deletion!Request :
                 client' = [client EXCEPT ![c] = new] /\ (new.pc # "idle" => new.key \in Key)
    <3>1. /\ [client[c] EXCEPT !.pc = pc, !.bytes = bytes] \in Deletion!Request
          /\ [client[c] EXCEPT !.pc = pc, !.bytes = bytes].key = client[c].key
      BY <1>1 DEF Deletion!Request
    <3>2. client' = [client EXCEPT ![c] = [client[c] EXCEPT !.pc = pc, !.bytes = bytes]]
      BY <2>3 DEF RequestsTyped
    <3>3. QED  BY <1>1, <3>1, <3>2
  <2>4. QED  BY <2>1, <2>2, <2>3
<1>3. QED  BY <1>2 DEF RequestsTyped

\* What a request, the user and the worker of the journal do without a receipt.
LEMMA EditorReads ==
  ASSUME Deletion!SessionDeletionAssumption, EditorTyped,
         \/ \E p \in Path : Deletion!WriteOther(p)
         \/ \E k \in Key : Deletion!AskForSave(k) \/ Deletion!ReconcileOperation(k)
         \/ \E c \in Client :
              \/ \E k \in Key : Deletion!LoadReceipt(c, k)
              \/ Deletion!CheckFile(c) \/ Deletion!Convert(c) \/ Deletion!ValidateSession(c)
              \/ Deletion!DropRequest(c)
  PROVE  EditorTyped'
<1>1. ASSUME NEW p \in Path, Deletion!WriteOther(p) PROVE EditorTyped'
  <2>1. file' \in [Path -> Deletion!Bytes]
    BY <1>1 DEF Deletion!WriteOther, Deletion!Other, Deletion!Bytes, EditorTyped
  <2>2. QED  BY <1>1, <2>1 DEF Deletion!WriteOther, EditorTyped, RequestsTyped
<1>2. ASSUME NEW k \in Key, Deletion!AskForSave(k) PROVE EditorTyped'
  <2>1. save' \in [Key -> Deletion!Save]
    BY <1>2 DEF Deletion!AskForSave, Deletion!Save, EditorTyped
  <2>2. QED  BY <1>2, <2>1 DEF Deletion!AskForSave, EditorTyped, RequestsTyped
<1>3. ASSUME NEW k \in Key, Deletion!ReconcileOperation(k) PROVE EditorTyped'
  <2>1. journal' \in [Key -> Deletion!Journal]
    BY <1>3 DEF Deletion!ReconcileOperation, Deletion!Journal, EditorTyped
  <2>2. QED  BY <1>3, <2>1 DEF Deletion!ReconcileOperation, EditorTyped, RequestsTyped
<1>4. ASSUME NEW c \in Client, NEW k \in Key, Deletion!LoadReceipt(c, k) PROVE EditorTyped'
  <2> DEFINE new == [Deletion!Idle EXCEPT !.pc = "checking", !.key = k, !.seen = receipt[k]]
  <2>1. client' = [client EXCEPT ![c] = new] /\ UNCHANGED <<file, save, receipt, journal, faults>>
    BY <1>4 DEF Deletion!LoadReceipt
  <2>2. receipt[k] \in Deletion!Receipt  BY DEF EditorTyped
  <2>3. new \in Deletion!Request /\ new.key \in Key
    BY <2>2, IdleRequest DEF Deletion!Request
  <2>4. QED  BY <2>1, <2>3 DEF EditorTyped, RequestsTyped
<1>5. ASSUME NEW c \in Client,
             \/ Deletion!CheckFile(c) \/ Deletion!Convert(c) \/ Deletion!ValidateSession(c)
             \/ Deletion!DropRequest(c)
      PROVE  EditorTyped'
  <2>1. UNCHANGED <<file, save, receipt, journal>> /\ (UNCHANGED faults \/ Deletion!Fault)
    BY <1>5 DEF Deletion!CheckFile, Deletion!Convert, Deletion!ValidateSession,
           Deletion!DropRequest
  <2>2. client[c].pc # "idle"
    BY <1>5 DEF Deletion!CheckFile, Deletion!Convert, Deletion!ValidateSession,
           Deletion!DropRequest
  <2>3. \A n \in 1 .. Conversions : [by |-> client[c].key, version |-> n] \in Deletion!Bytes
    BY <2>2 DEF EditorTyped, RequestsTyped, Deletion!Bytes
  <2>4. RequestsTyped'
    BY <1>5, <2>2, <2>3, RequestMoves DEF EditorTyped, Deletion!CheckFile, Deletion!Convert,
       Deletion!ValidateSession, Deletion!DropRequest
  <2>5. QED  BY <2>1, <2>4, FaultsTyped DEF EditorTyped
<1>6. QED  BY <1>1, <1>2, <1>3, <1>4, <1>5

\* A save goes into the file, or is refused there, or is interrupted.
LEMMA EditorCommits ==
  ASSUME Deletion!SessionDeletionAssumption, EditorTyped, NEW c \in Client,
         Deletion!CommitOutput(c) \/ Deletion!CommitInterrupted(c)
  PROVE  EditorTyped'
<1> DEFINE k == client[c].key
           bytes == client[c].bytes
           row == Deletion!Prepared(k, bytes)
<1>1. client[c].pc = "committing"  BY DEF Deletion!CommitOutput, Deletion!CommitInterrupted
<1>2. k \in Key /\ bytes \in Deletion!Bytes /\ save[k].path \in Path
  BY <1>1 DEF EditorTyped, RequestsTyped, Deletion!Request, Deletion!Save
<1>3. RequestsTyped'
  BY <1>1, RequestMoves DEF Deletion!CommitOutput, Deletion!CommitInterrupted, EditorTyped
<1>4. UNCHANGED <<save, receipt>> /\ (UNCHANGED faults \/ Deletion!Fault)
  BY DEF Deletion!CommitOutput, Deletion!CommitInterrupted
<1>5. file' = file \/ file' = [file EXCEPT ![save[k].path] = bytes]
  BY DEF Deletion!CommitOutput, Deletion!CommitInterrupted, Deletion!Prepared
<1>6. file' \in [Path -> Deletion!Bytes]  BY <1>2, <1>5 DEF EditorTyped
<1>7. \/ journal' = journal
      \/ journal' = [journal EXCEPT ![k].state = "completed"]
      \/ \E state \in {"prepared", "reconciling", "completed", "conflict"} :
           journal' = [journal EXCEPT ![k] = [row EXCEPT !.state = state]]
  BY DEF Deletion!CommitOutput, Deletion!CommitInterrupted
<1>8. journal[k] \in Deletion!Journal  BY <1>2 DEF EditorTyped
<1>9. row \in Deletion!Journal  BY <1>2, <1>8 DEF Deletion!Prepared, Deletion!Journal
<1>10. journal' \in [Key -> Deletion!Journal]
  BY <1>2, <1>7, <1>8, <1>9 DEF EditorTyped, Deletion!Journal
<1>11. QED  BY <1>3, <1>4, <1>6, <1>10, FaultsTyped DEF EditorTyped

\* The receipt of a save is written while the session is live, or is not the
\* session's, or stays as it is but for its result and its mark.
LEMMA EditorWrites ==
  ASSUME Deletion!SessionDeletionAssumption, EditorTyped, NEW c \in Client,
         Deletion!WriteReceipt(c) \/ Deletion!MarkReceipt(c)
  PROVE  /\ EditorTyped'
         /\ session = "gone" => Deletion!PendingSaves' \subseteq Deletion!PendingSaves
<1> DEFINE k == client[c].key
           bytes == client[c].bytes
           new == [status |-> "pending", result |-> bytes, sessioned |-> save[k].sessioned]
<1>1. client[c].pc # "idle"  BY DEF Deletion!WriteReceipt, Deletion!MarkReceipt
<1>2. /\ k \in Key /\ bytes \in Deletion!Bytes /\ save[k].sessioned \in BOOLEAN
      /\ receipt[k] \in Deletion!Receipt
  BY <1>1 DEF EditorTyped, RequestsTyped, Deletion!Request, Deletion!Save
<1>3. RequestsTyped'
  BY <1>1, RequestMoves DEF Deletion!WriteReceipt, Deletion!MarkReceipt, EditorTyped
<1>4. UNCHANGED <<file, save, journal>> /\ (UNCHANGED faults \/ Deletion!Fault)
  BY DEF Deletion!WriteReceipt, Deletion!MarkReceipt
<1>5. \/ receipt' = receipt
      \/ receipt' = [receipt EXCEPT ![k].status = "committed"]
      \/ receipt' = [receipt EXCEPT ![k].result = bytes]
      \/ receipt' = [receipt EXCEPT ![k] = new] /\ (save[k].sessioned => session = "live")
  BY DEF Deletion!WriteReceipt, Deletion!MarkReceipt
<1>6. receipt' \in [Key -> Deletion!Receipt]
  <2>1. new \in Deletion!Receipt  BY <1>2 DEF Deletion!Receipt
  <2>2. /\ [receipt[k] EXCEPT !.status = "committed"] \in Deletion!Receipt
        /\ [receipt[k] EXCEPT !.result = bytes] \in Deletion!Receipt
    BY <1>2 DEF Deletion!Receipt
  <2>3. receipt \in [Key -> Deletion!Receipt]  BY DEF EditorTyped
  <2>4. QED  BY <1>2, <1>5, <2>1, <2>2, <2>3
<1>7. session = "gone" => Deletion!PendingSaves' \subseteq Deletion!PendingSaves
  BY <1>2, <1>5 DEF EditorTyped, Deletion!PendingSaves, Deletion!Receipt
<1>8. QED  BY <1>3, <1>4, <1>6, <1>7, FaultsTyped DEF EditorTyped

\* What users, runs and the reconciliation do keeps the invariant.
LEMMA DeletionInductive ==
  Deletion!SessionDeletionAssumption /\ DeletionInv /\ Deletion!Next => DeletionInv'
<1> SUFFICES ASSUME Deletion!SessionDeletionAssumption, DeletionInv, Deletion!Next
             PROVE  DeletionInv'
  OBVIOUS
<1>1. EditorTyped  BY DEF EditorTyped, RequestsTyped, DeletionInv, Deletion!TypeOK
<1>2. CASE \E r \in SessionRun :
             \/ Deletion!EnqueueChatRun(r) \/ Deletion!TickCron(r) \/ Deletion!ClaimRun(r)
             \/ Deletion!FinishRun(r) \/ Deletion!CancelQueuedRun(r) \/ Deletion!LoseLease(r)
  BY <1>2, RunMoves
<1>3. CASE Deletion!InsertChild \/ \E r \in SessionRun : Deletion!ReadParent(r)
  BY <1>3, ChildMoves
<1>4. CASE \E confirmed \in BOOLEAN : Deletion!FenceSession(confirmed)  BY <1>4, FenceStep
<1>5. CASE Deletion!FinalizeSessionDeletion  BY <1>5, FinalizeStep
<1>6. CASE \/ \E p \in Path : Deletion!WriteOther(p)
           \/ \E k \in Key : Deletion!AskForSave(k) \/ Deletion!ReconcileOperation(k)
           \/ \E c \in Client :
                \/ \E k \in Key : Deletion!LoadReceipt(c, k)
                \/ Deletion!CheckFile(c) \/ Deletion!Convert(c) \/ Deletion!ValidateSession(c)
                \/ Deletion!DropRequest(c)
  <2>1. UNCHANGED Deletion!chat /\ receipt' = receipt
    BY <1>6 DEF Deletion!WriteOther, Deletion!AskForSave, Deletion!ReconcileOperation,
           Deletion!LoadReceipt, Deletion!CheckFile, Deletion!Convert,
           Deletion!ValidateSession, Deletion!DropRequest
  <2>2. Deletion!PendingSaves' = Deletion!PendingSaves  BY <2>1 DEF Deletion!PendingSaves
  <2>3. EditorTyped'  BY <1>1, <1>6, EditorReads
  <2>4. QED  BY <2>1, <2>2, <2>3, EditorMoves
<1>7. CASE \E c \in Client : Deletion!CommitOutput(c) \/ Deletion!CommitInterrupted(c)
  <2>1. UNCHANGED Deletion!chat /\ receipt' = receipt
    BY <1>7 DEF Deletion!CommitOutput, Deletion!CommitInterrupted
  <2>2. Deletion!PendingSaves' = Deletion!PendingSaves  BY <2>1 DEF Deletion!PendingSaves
  <2>3. EditorTyped'  BY <1>1, <1>7, EditorCommits
  <2>4. QED  BY <2>1, <2>2, <2>3, EditorMoves
<1>8. CASE \E c \in Client : Deletion!WriteReceipt(c) \/ Deletion!MarkReceipt(c)
  <2>1. UNCHANGED Deletion!chat  BY <1>8 DEF Deletion!WriteReceipt, Deletion!MarkReceipt
  <2>2. QED  BY <1>1, <1>8, <2>1, EditorWrites, EditorMoves
<1>9. QED
  BY <1>2, <1>3, <1>4, <1>5, <1>6, <1>7, <1>8 DEF Deletion!Next, Deletion!ClientStep

\* Nothing of the deletion moves.
LEMMA DeletionStutters == ASSUME DeletionInv, UNCHANGED Deletion!vars PROVE DeletionInv'
BY DEF DeletionInv, Deletion!vars, Deletion!TypeOK, Deletion!GoneMeansSettled,
       Deletion!NoActiveRun, Deletion!PendingSaves

\* The session is live, and the editor holds nothing.
LEMMA DeletionInitially == Deletion!SessionDeletionAssumption /\ Deletion!Init => DeletionInv
<1> SUFFICES ASSUME Deletion!SessionDeletionAssumption, Deletion!Init PROVE DeletionInv
  OBVIOUS
<1>1. /\ Deletion!Nothing \in Deletion!Bytes /\ Deletion!Base \in Deletion!Bytes
      /\ Deletion!NoReceipt \in Deletion!Receipt
  BY DEF Deletion!Bytes, Deletion!Nothing, Deletion!Base, Deletion!Receipt, Deletion!NoReceipt
<1>2. file \in [Path -> Deletion!Bytes] /\ receipt \in [Key -> Deletion!Receipt]
  BY <1>1 DEF Deletion!Init
<1>3. (CHOOSE p \in Path : TRUE) \in Path  BY DEF Deletion!SessionDeletionAssumption
<1>4. save \in [Key -> Deletion!Save]  BY <1>1, <1>3 DEF Deletion!Init, Deletion!Save
<1>5. journal \in [Key -> Deletion!Journal]  BY <1>1 DEF Deletion!Init, Deletion!Journal
<1>6. client \in [Client -> Deletion!Request] /\ \A c \in Client : client[c].pc = "idle"
  BY IdleRequest DEF Deletion!Init
<1>7. Deletion!TypeOK
  BY <1>2, <1>4, <1>5, <1>6 DEF Deletion!Init, Deletion!TypeOK, Deletion!SessionDeletionAssumption
<1>8. QED  BY <1>6, <1>7 DEF Deletion!Init, DeletionInv, Deletion!GoneMeansSettled

\* The scene of the deletion keeps its invariant; in the others the session lives.
DeletionScene == IF scene = "deletion" THEN DeletionInv ELSE session = "live"

LEMMA DeletionHolds == SceneSpec => []DeletionScene
<1>1. InitScene => DeletionScene
  BY DeletionInitially, SceneAssumption
  DEF DeletionScene, InitScene, SceneAssumption, Deletion!Init
<1>2. DeletionScene /\ [NextScene]_all => DeletionScene'
  <2> SUFFICES ASSUME DeletionScene, [NextScene]_all PROVE DeletionScene'  OBVIOUS
  <2> USE DEF DeletionScene
  <2>1. CASE scene = "deletion" /\ Deletion!Next
    BY <2>1, DeletionInductive, SceneAssumption, OneSceneGoesOn DEF SceneAssumption
  <2>2. CASE scene # "deletion"
    BY <2>2, OneSceneGoesOn DEF deletion
  <2>3. CASE scene = "deletion" /\ ~Deletion!Next
    <3>1. UNCHANGED all  BY <2>3 DEF NextScene
    <3>2. UNCHANGED <<scene, Deletion!vars>>  BY <3>1 DEF all, deletion, Deletion!vars
    <3>3. QED  BY <2>3, <3>2, DeletionStutters
  <2>4. QED  BY <2>1, <2>2, <2>3
<1>3. QED  BY <1>1, <1>2, PTL DEF SceneSpec

\* finalize_session_deletion removes the row of the session under its lock, and
\* whatever admits work looks for that row or for the fence: when it is gone,
\* no run is active, no job of cron would reuse it, no save waits for its mark.
THEOREM DeletedSessionIsSettled == SceneSpec => []GoneMeansSettled
<1>1. DeletionScene => GoneMeansSettled
  BY DEF DeletionScene, GoneMeansSettled, Deletion!GoneMeansSettled, DeletionInv
<1>2. QED  BY <1>1, DeletionHolds, PTL

----------------------------------------------------------------------------
(* The delegates of a run                                                  *)

\* No child is there before start_children inserts them all.
DelegationInv ==
  /\ Delegation!TypeOK
  /\ task \in {"called", "starting"} => \A i \in Child : child[i].status = "none"

\* What a step must not do: complete a child that was asked to stop, or write
\* over the record of one that has ended.
RecordStands(i) ==
  /\ child[i].cancel /\ Delegation!Live(i) => child'[i].status # "completed"
  /\ child[i].status \notin {"none", "running"} => child'[i] = child[i]

RecordsStand == \A i \in Child : RecordStands(i)

\* What rows and futures may become.
LEMMA ChildChanges ==
  ASSUME NEW c \in Delegation!ChildRow
  PROVE  /\ \A s \in {"running", "completed", "failed", "cancelled", "interrupted"} :
              [c EXCEPT !.status = s] \in Delegation!ChildRow
         /\ \A b \in BOOLEAN : /\ [c EXCEPT !.cancel = b] \in Delegation!ChildRow
                               /\ [c EXCEPT !.lapsed = b] \in Delegation!ChildRow
BY DEF Delegation!ChildRow

LEMMA FutureChanges ==
  ASSUME NEW f \in Delegation!Future
  PROVE  /\ \A pc \in {"waiting", "executing", "finishing", "finished", "dropped"}, b \in BOOLEAN :
              /\ [f EXCEPT !.pc = pc] \in Delegation!Future
              /\ [f EXCEPT !.pc = pc, !.token = b] \in Delegation!Future
              /\ [f EXCEPT !.pc = pc, !.ok = b] \in Delegation!Future
         /\ \A b \in BOOLEAN : /\ [f EXCEPT !.token = b] \in Delegation!Future
                               /\ [f EXCEPT !.token = b, !.lost = TRUE] \in Delegation!Future
BY DEF Delegation!Future

RowsTyped == child \in [Child -> Delegation!ChildRow]
FuturesTyped == exec \in [Child -> Delegation!Future]

\* The row of a child that runs is written.
LEMMA RowIsWritten ==
  ASSUME DelegationInv, NEW i \in Child, NEW c \in Delegation!ChildRow,
         child' = [child EXCEPT ![i] = c], Delegation!Live(i),
         child[i].cancel => c.status # "completed"
  PROVE  RowsTyped' /\ RecordsStand
<1>1. child \in [Child -> Delegation!ChildRow]  BY DEF DelegationInv, Delegation!TypeOK
<1>2. \A j \in Child : child'[j] = IF j = i THEN c ELSE child[j]  BY <1>1
<1>3. RowsTyped'  BY <1>1 DEF RowsTyped
<1>4. ASSUME NEW j \in Child PROVE RecordStands(j)
  <2>1. CASE j = i  BY <1>2, <2>1 DEF RecordStands, Delegation!Live
  <2>2. CASE j # i  BY <1>2, <2>2 DEF RecordStands, Delegation!Live
  <2>3. QED  BY <2>1, <2>2
<1>5. QED  BY <1>3, <1>4 DEF RecordsStand

\* No row of a child is written.
LEMMA RowsStay ==
  ASSUME DelegationInv, child' = child
  PROVE  RowsTyped' /\ RecordsStand
BY DEF DelegationInv, Delegation!TypeOK, RowsTyped, RecordsStand, RecordStands, Delegation!Live

\* A future goes on.
LEMMA FutureMoves ==
  ASSUME DelegationInv, NEW i \in Child, NEW f \in Delegation!Future,
         exec' = [exec EXCEPT ![i] = f]
  PROVE  FuturesTyped'
BY DEF DelegationInv, Delegation!TypeOK, FuturesTyped

\* The types of the rest.
RestTyped ==
  /\ parent \in [status : {"running", "final"}, cancel : BOOLEAN]
  /\ task \in {"called", "starting", "registering", "delegating", "returned", "dead"}
  /\ faults \in 0 .. Faults

LEMMA DelegatesGoOn ==
  ASSUME DelegationInv, RowsTyped', FuturesTyped', RestTyped',
         task' \in {"called", "starting"} => task \in {"called", "starting"} /\ child' = child
  PROVE  DelegationInv'
<1>1. Delegation!TypeOK'  BY DEF RowsTyped, FuturesTyped, RestTyped, Delegation!TypeOK
<1>2. QED  BY <1>1 DEF DelegationInv

LEMMA RestIsTyped ==
  ASSUME Delegation!DelegatesAssumption, DelegationInv
  PROVE  /\ RowsTyped /\ FuturesTyped /\ RestTyped
         /\ faults \in Nat /\ Faults \in Nat /\ (faults < Faults => faults + 1 \in 0 .. Faults)
BY DEF DelegationInv, Delegation!TypeOK, RowsTyped, FuturesTyped, RestTyped,
       Delegation!DelegatesAssumption

\* The steps of the tool call.
LEMMA TaskStepStands ==
  ASSUME Delegation!DelegatesAssumption, DelegationInv, Delegation!TaskStep
  PROVE  DelegationInv' /\ RecordsStand
<1> USE RestIsTyped
<1>1. FuturesTyped'
  BY DEF Delegation!TaskStep, Delegation!ReadParent, Delegation!InsertChildren,
         Delegation!ReturnResults, Delegation!FinishParent, FuturesTyped
<1>2. RestTyped'
  BY DEF Delegation!TaskStep, Delegation!ReadParent, Delegation!InsertChildren,
         Delegation!ReturnResults, Delegation!FinishParent, RestTyped
<1>3. CASE Delegation!InsertChildren
  <2>1. \A i \in Child : child[i].status = "none" /\ child[i] \in Delegation!ChildRow
    BY <1>3 DEF Delegation!InsertChildren, DelegationInv, RowsTyped
  <2>2. \A i \in Child : [child[i] EXCEPT !.status = "running"] \in Delegation!ChildRow
    BY <2>1, ChildChanges
  <2>3. child' = [i \in Child |-> [child[i] EXCEPT !.status = "running"]] /\ task' = "registering"
    BY <1>3 DEF Delegation!InsertChildren
  <2>4. RowsTyped'  BY <2>2, <2>3 DEF RowsTyped
  <2>5. RecordsStand  BY <2>1 DEF RecordsStand, RecordStands, Delegation!Live
  <2>6. QED  BY <1>1, <1>2, <2>3, <2>4, <2>5, DelegatesGoOn
<1>4. CASE Delegation!ReadParent \/ Delegation!ReturnResults \/ Delegation!FinishParent
  <2>1. child' = child /\ (task' \in {"called", "starting"} => task \in {"called", "starting"})
    BY <1>4 DEF Delegation!ReadParent, Delegation!ReturnResults, Delegation!FinishParent
  <2>2. QED  BY <1>1, <1>2, <2>1, RowsStay, DelegatesGoOn
<1>5. QED  BY <1>3, <1>4 DEF Delegation!TaskStep

\* The steps of a future, and of its heartbeat.
LEMMA FutureStands ==
  ASSUME Delegation!DelegatesAssumption, DelegationInv, NEW i \in Child,
         Delegation!ChildStep(i) \/ Delegation!HeartbeatChild(i)
  PROVE  DelegationInv' /\ RecordsStand
<1> USE RestIsTyped
<1>1. child[i] \in Delegation!ChildRow /\ exec[i] \in Delegation!Future
  BY DEF RowsTyped, FuturesTyped
<1>2. child[i].cancel \in BOOLEAN /\ exec[i].token \in BOOLEAN /\ exec[i].ok \in BOOLEAN
  BY <1>1 DEF Delegation!ChildRow, Delegation!Future
<1>3. CASE Delegation!RegisterChild(i)
  <2>1. /\ child' = child /\ task' \in {"registering", "delegating", "returned"}
        /\ UNCHANGED <<parent, faults>>
    BY <1>3 DEF Delegation!RegisterChild
  <2>2. FuturesTyped'
    <3>1. CASE Delegation!Live(i)
      <4>1. PICK f \in Delegation!Future :
              f = [exec[i] EXCEPT !.pc = "waiting", !.token = child[i].cancel]
        BY <1>1, <1>2, FutureChanges
      <4>2. exec' = [exec EXCEPT ![i] = f]
        BY <1>3, <3>1, <4>1 DEF Delegation!RegisterChild, FuturesTyped
      <4>3. QED  BY <4>2, FutureMoves
    <3>2. CASE ~Delegation!Live(i)
      <4>1. exec' = [j \in Child |-> [exec[j] EXCEPT !.pc = "dropped"]]
        BY <1>3, <3>2 DEF Delegation!RegisterChild
      <4>2. \A j \in Child : exec[j] \in Delegation!Future  BY DEF FuturesTyped
      <4>3. \A j \in Child : [exec[j] EXCEPT !.pc = "dropped"] \in Delegation!Future
        BY <4>2, FutureChanges
      <4>4. QED  BY <4>1, <4>3 DEF FuturesTyped
    <3>3. QED  BY <3>1, <3>2
  <2>3. RestTyped'  BY <2>1 DEF RestTyped
  <2>4. QED  BY <2>1, <2>2, <2>3, RowsStay, DelegatesGoOn
<1>4. CASE Delegation!StartChild(i) \/ Delegation!EndChildLoop(i)
  <2>1. UNCHANGED <<parent, child, task, faults>>
    BY <1>4 DEF Delegation!StartChild, Delegation!EndChildLoop
  <2>2. PICK ok \in BOOLEAN : \/ exec' = [exec EXCEPT ![i].pc = "executing"]
                              \/ exec' = [exec EXCEPT ![i].pc = "finishing", ![i].ok = ok]
    <3>1. CASE Delegation!StartChild(i)
      BY <3>1 DEF Delegation!StartChild, Delegation!Pc
    <3>2. CASE Delegation!EndChildLoop(i)
      <4>1. PICK b \in BOOLEAN :
              exec' = [exec EXCEPT ![i].pc = "finishing", ![i].ok = b /\ ~exec[i].lost]
        BY <3>2 DEF Delegation!EndChildLoop
      <4>2. (b /\ ~exec[i].lost) \in BOOLEAN  OBVIOUS
      <4>3. QED  BY <4>1, <4>2
    <3>3. QED  BY <1>4, <3>1, <3>2
  <2>3. [exec[i] EXCEPT !.pc = "executing"] \in Delegation!Future
        /\ [exec[i] EXCEPT !.pc = "finishing", !.ok = ok] \in Delegation!Future
    BY <1>1, FutureChanges
  <2>4. FuturesTyped'  BY <2>2, <2>3 DEF FuturesTyped
  <2>5. RestTyped'  BY <2>1 DEF RestTyped
  <2>6. QED  BY <2>1, <2>4, <2>5, RowsStay, DelegatesGoOn
<1>5. CASE Delegation!FinishChild(i)
  <2>1. UNCHANGED <<parent, task, faults>> /\ exec[i].pc = "finishing"
    BY <1>5 DEF Delegation!FinishChild
  <2>2. FuturesTyped'
    <3>1. (exec[i].ok /\ Delegation!Live(i)) \in BOOLEAN  BY DEF Delegation!Live
    <3>2. PICK f \in Delegation!Future :
            f = [exec[i] EXCEPT !.pc = "finished", !.ok = exec[i].ok /\ Delegation!Live(i)]
      BY <1>1, <3>1, FutureChanges
    <3>3. exec' = [exec EXCEPT ![i] = f]
      BY <1>5, <3>2 DEF Delegation!FinishChild, FuturesTyped
    <3>4. QED  BY <3>3, FutureMoves
  <2>3. RowsTyped' /\ RecordsStand
    <3>1. CASE Delegation!Live(i)
      <4>1. PICK s \in {"cancelled", "completed", "failed"} :
              s = IF child[i].cancel THEN "cancelled"
                  ELSE IF exec[i].ok THEN "completed" ELSE "failed"
        OBVIOUS
      <4>2. PICK c \in Delegation!ChildRow : c = [child[i] EXCEPT !.status = s]
        BY <1>1, ChildChanges
      <4>3. child' = [child EXCEPT ![i] = c]
        BY <1>5, <3>1, <4>1, <4>2 DEF Delegation!FinishChild, RowsTyped
      <4>4. c.status = s  BY <1>1, <4>2 DEF Delegation!ChildRow
      <4>5. child[i].cancel => c.status # "completed"  BY <4>1, <4>4
      <4>6. QED  BY <3>1, <4>3, <4>5, RowIsWritten
    <3>2. CASE ~Delegation!Live(i)
      <4>1. child' = child  BY <1>5, <3>2 DEF Delegation!FinishChild
      <4>2. QED  BY <4>1, RowsStay
    <3>3. QED  BY <3>1, <3>2
  <2>4. RestTyped'  BY <2>1 DEF RestTyped
  <2>5. task \notin {"called", "starting"} \/ child' = child
    <3>1. ~Delegation!Live(i) => child' = child  BY <1>5 DEF Delegation!FinishChild
    <3>2. QED  BY <3>1 DEF DelegationInv, Delegation!Live
  <2>6. QED  BY <2>1, <2>2, <2>3, <2>4, <2>5, DelegatesGoOn
<1>6. CASE Delegation!HeartbeatChild(i)
  <2>1. UNCHANGED <<parent, task, faults>>  BY <1>6 DEF Delegation!HeartbeatChild
  <2>2. RestTyped'  BY <2>1 DEF RestTyped
  <2>3. CASE Delegation!Live(i)
    <3>1. PICK c \in Delegation!ChildRow : c = [child[i] EXCEPT !.lapsed = FALSE]
      BY <1>1, ChildChanges
    <3>2. child' = [child EXCEPT ![i] = c]
      BY <1>6, <2>3, <3>1 DEF Delegation!HeartbeatChild, RowsTyped
    <3>3. c.status # "completed"
      BY <1>1, <2>3, <3>1 DEF Delegation!ChildRow, Delegation!Live
    <3>4. (exec[i].token \/ child[i].cancel) \in BOOLEAN  OBVIOUS
    <3>5. PICK f \in Delegation!Future : f = [exec[i] EXCEPT !.token = exec[i].token \/ child[i].cancel]
      BY <1>1, <3>4, FutureChanges
    <3>6. exec' = [exec EXCEPT ![i] = f]
      BY <1>6, <2>3, <3>5 DEF Delegation!HeartbeatChild, FuturesTyped
    <3>7. task \notin {"called", "starting"}  BY <2>3 DEF DelegationInv, Delegation!Live
    <3>8. RowsTyped' /\ RecordsStand  BY <2>3, <3>2, <3>3, RowIsWritten
    <3>9. FuturesTyped'  BY <3>6, FutureMoves
    <3>10. QED  BY <2>1, <2>2, <3>7, <3>8, <3>9, DelegatesGoOn
  <2>4. CASE ~Delegation!Live(i)
    <3>1. child' = child  BY <1>6, <2>4 DEF Delegation!HeartbeatChild
    <3>2. PICK f \in Delegation!Future : f = [exec[i] EXCEPT !.token = TRUE, !.lost = TRUE]
      BY <1>1, FutureChanges
    <3>3. exec' = [exec EXCEPT ![i] = f]
      BY <1>6, <2>4, <3>2 DEF Delegation!HeartbeatChild, FuturesTyped
    <3>4. FuturesTyped'  BY <3>3, FutureMoves
    <3>5. QED  BY <2>1, <2>2, <3>1, <3>4, RowsStay, DelegatesGoOn
  <2>5. QED  BY <2>3, <2>4
<1>7. QED  BY <1>3, <1>4, <1>5, <1>6 DEF Delegation!ChildStep

\* A user, the sweep or the clock write the row of a child.
LEMMA SweepStands ==
  ASSUME Delegation!DelegatesAssumption, DelegationInv, NEW i \in Child,
         Delegation!CancelChild(i) \/ Delegation!LapseChild(i) \/ Delegation!ReconcileChild(i)
  PROVE  DelegationInv' /\ RecordsStand
<1> USE RestIsTyped
<1>1. child[i] \in Delegation!ChildRow  BY DEF RowsTyped
<1>2. /\ Delegation!Live(i) /\ UNCHANGED <<parent, task, exec>>
      /\ faults' = faults \/ (faults < Faults /\ faults' = faults + 1)
  BY DEF Delegation!CancelChild, Delegation!LapseChild, Delegation!ReconcileChild, Delegation!Fault
<1>3. FuturesTyped' /\ RestTyped'  BY <1>2 DEF FuturesTyped, RestTyped
<1>4. PICK c \in Delegation!ChildRow :
        \/ c = [child[i] EXCEPT !.cancel = TRUE] /\ Delegation!CancelChild(i)
        \/ c = [child[i] EXCEPT !.lapsed = TRUE] /\ Delegation!LapseChild(i)
        \/ c = [child[i] EXCEPT !.status = "interrupted"] /\ Delegation!ReconcileChild(i)
  BY <1>1, ChildChanges
<1>5. child' = [child EXCEPT ![i] = c]
  BY <1>4 DEF Delegation!CancelChild, Delegation!LapseChild, Delegation!ReconcileChild, RowsTyped
<1>6. c.status # "completed"  BY <1>1, <1>2, <1>4 DEF Delegation!ChildRow, Delegation!Live
<1>7. task \notin {"called", "starting"}  BY <1>2 DEF DelegationInv, Delegation!Live
<1>8. RowsTyped' /\ RecordsStand  BY <1>2, <1>5, <1>6, RowIsWritten
<1>9. QED  BY <1>2, <1>3, <1>7, <1>8, DelegatesGoOn

\* The parent is cancelled, with the children that are there.
LEMMA CancelStands ==
  ASSUME Delegation!DelegatesAssumption, DelegationInv, Delegation!CancelParent
  PROVE  DelegationInv' /\ RecordsStand
<1> USE RestIsTyped
<1>1. /\ UNCHANGED <<task, faults>> /\ parent' = [parent EXCEPT !.cancel = TRUE]
      /\ child' = [i \in Child |-> IF Delegation!Live(i) THEN [child[i] EXCEPT !.cancel = TRUE]
                                   ELSE child[i]]
      /\ \/ exec' = [i \in Child |-> IF Delegation!Live(i) /\ exec[i].pc # "none"
                                     THEN [exec[i] EXCEPT !.token = TRUE] ELSE exec[i]]
         \/ UNCHANGED exec
  BY DEF Delegation!CancelParent
<1>2. \A i \in Child : child[i] \in Delegation!ChildRow /\ exec[i] \in Delegation!Future
  BY DEF RowsTyped, FuturesTyped
<1>3. \A i \in Child : /\ [child[i] EXCEPT !.cancel = TRUE] \in Delegation!ChildRow
                       /\ [exec[i] EXCEPT !.token = TRUE] \in Delegation!Future
  BY <1>2, ChildChanges, FutureChanges
<1>4. RowsTyped'  BY <1>1, <1>2, <1>3 DEF RowsTyped
<1>5. FuturesTyped'  BY <1>1, <1>2, <1>3 DEF FuturesTyped
<1>6. parent' \in [status : {"running", "final"}, cancel : BOOLEAN]  BY <1>1 DEF RestTyped
<1>7. RestTyped'  BY <1>1, <1>6 DEF RestTyped
<1>8. ASSUME NEW i \in Child PROVE RecordStands(i)
  <2>1. child'[i] = IF Delegation!Live(i) THEN [child[i] EXCEPT !.cancel = TRUE] ELSE child[i]
    BY <1>1
  <2>2. [child[i] EXCEPT !.cancel = TRUE].status = child[i].status
    BY <1>2 DEF Delegation!ChildRow
  <2>3. QED  BY <2>1, <2>2 DEF RecordStands, Delegation!Live
<1>9. task \in {"called", "starting"} => child' = child
  <2>1. SUFFICES ASSUME task \in {"called", "starting"} PROVE child' = child  OBVIOUS
  <2>2. \A i \in Child : ~Delegation!Live(i)  BY <2>1 DEF DelegationInv, Delegation!Live
  <2>3. child' = [i \in Child |-> child[i]]  BY <1>1, <2>2
  <2>4. QED  BY <2>3 DEF RowsTyped
<1>10. QED  BY <1>1, <1>4, <1>5, <1>7, <1>8, <1>9, DelegatesGoOn DEF RecordsStand

\* The futures are dropped, or the lease of the parent lapses.
LEMMA DropStands ==
  ASSUME Delegation!DelegatesAssumption, DelegationInv,
         Delegation!ExpireBudget \/ Delegation!LapseParent \/ Delegation!Crash
  PROVE  DelegationInv' /\ RecordsStand
<1> USE RestIsTyped
<1>1. /\ child' = child
      /\ task' = task \/ task' \in {"returned", "dead"}
      /\ exec' = exec \/ exec' = Delegation!Dropped
      /\ parent' = parent \/ parent' = [parent EXCEPT !.status = "final"]
      /\ faults' = faults \/ (faults < Faults /\ faults' = faults + 1)
  BY DEF Delegation!ExpireBudget, Delegation!LapseParent, Delegation!Crash, Delegation!Fault
<1>2. \A i \in Child : exec[i] \in Delegation!Future  BY DEF FuturesTyped
<1>3. \A i \in Child : [exec[i] EXCEPT !.pc = "dropped"] \in Delegation!Future
  BY <1>2, FutureChanges
<1>4. Delegation!Dropped \in [Child -> Delegation!Future]
  BY <1>2, <1>3 DEF Delegation!Dropped
<1>5. FuturesTyped'  BY <1>1, <1>4 DEF FuturesTyped
<1>6. parent' \in [status : {"running", "final"}, cancel : BOOLEAN]  BY <1>1 DEF RestTyped
<1>7. RestTyped'  BY <1>1, <1>6 DEF RestTyped
<1>8. QED  BY <1>1, <1>5, <1>7, RowsStay, DelegatesGoOn

LEMMA DelegationInductive ==
  ASSUME Delegation!DelegatesAssumption, DelegationInv, Delegation!Next
  PROVE  DelegationInv' /\ RecordsStand
BY TaskStepStands, FutureStands, SweepStands, CancelStands, DropStands DEF Delegation!Next

\* No child is there.
LEMMA DelegationInitially ==
  Delegation!DelegatesAssumption /\ Delegation!Init => DelegationInv
<1> SUFFICES ASSUME Delegation!DelegatesAssumption, Delegation!Init PROVE DelegationInv
  OBVIOUS
<1>1. child \in [Child -> Delegation!ChildRow] /\ \A i \in Child : child[i].status = "none"
  BY DEF Delegation!Init, Delegation!ChildRow
<1>2. exec \in [Child -> Delegation!Future]  BY DEF Delegation!Init, Delegation!Future
<1>3. parent \in [status : {"running", "final"}, cancel : BOOLEAN]  BY DEF Delegation!Init
<1>4. faults \in 0 .. Faults /\ task = "called"
  BY DEF Delegation!Init, Delegation!DelegatesAssumption
<1>5. QED  BY <1>1, <1>2, <1>3, <1>4 DEF DelegationInv, Delegation!TypeOK

\* The scene of the delegates keeps its invariant, and writes no record twice.
LEMMA DelegationHolds ==
  SceneSpec => /\ [](scene = "delegation" => DelegationInv)
               /\ [][RecordsStand]_delegation
<1> DEFINE I == scene = "delegation" => DelegationInv
<1>1. InitScene => I  BY DelegationInitially, SceneAssumption DEF InitScene, SceneAssumption
<1>2. I /\ [NextScene]_all => I' /\ [RecordsStand]_delegation
  <2> SUFFICES ASSUME I, [NextScene]_all PROVE I' /\ [RecordsStand]_delegation  OBVIOUS
  <2>1. scene' = scene /\ ((scene = "delegation" /\ Delegation!Next) \/ UNCHANGED delegation)
    BY OneSceneGoesOn
  <2>2. CASE scene = "delegation" /\ Delegation!Next
    <3>1. DelegationInv' /\ RecordsStand
      BY <2>2, DelegationInductive, SceneAssumption DEF SceneAssumption
    <3>2. QED  BY <2>1, <3>1
  <2>3. CASE scene # "delegation"  BY <2>1, <2>3
  <2>4. CASE scene = "delegation" /\ ~Delegation!Next
    <3>1. UNCHANGED all  BY <2>4 DEF NextScene
    <3>2. UNCHANGED <<parent, child, task, exec, faults>> /\ UNCHANGED delegation
      BY <3>1 DEF all, delegation
    <3>3. DelegationInv'  BY <2>4, <3>2 DEF DelegationInv, Delegation!TypeOK
    <3>4. QED  BY <3>2, <3>3
  <2>5. QED  BY <2>2, <2>3, <2>4
<1>3. QED  BY <1>1, <1>2, PTL DEF SceneSpec

\* finish_child decides under the lock of the row, and only while the child
\* runs: whatever its future, its parent, the sweep and users do side by side, a
\* child that was asked to stop is never recorded as completed, and the record
\* of one that has ended stays as it is.
THEOREM CancelIsKept == SceneSpec => CancelWins
<1>1. [RecordsStand]_delegation =>
        [\A i \in Child :
          /\ child[i].cancel /\ Delegation!Live(i) => child'[i].status # "completed"
          /\ child[i].status \notin {"none", "running"} => child'[i] = child[i]]_(Delegation!vars)
  <2>1. UNCHANGED delegation => RecordsStand
    BY DEF delegation, RecordsStand, RecordStands, Delegation!Live
  <2>2. QED  BY <2>1 DEF RecordsStand, RecordStands
<1>2. QED  BY <1>1, DelegationHolds, PTL DEF CancelWins, Delegation!CancelWins

----------------------------------------------------------------------------
(* The loop of a leg                                                       *)

\* The scenes do not touch what a leg holds, but for the loop's own steps.
LEMMA LoopGoesOn == SceneSpec => Loop!Spec
<1>1. InitScene => Loop!Init  BY DEF InitScene
<1>2. [NextScene]_all => [Loop!Next]_(Loop!vars)  BY OneSceneGoesOn DEF loop, Loop!vars
<1>3. QED  BY <1>1, <1>2, PTL DEF SceneSpec, Loop!Spec

\* The limits of a run are kept in the sessions' scenes as AgentLoopSafety has it.
THEOREM SessionKeepsBudget == SceneSpec => []BudgetIsKept
<1>1. Loop!AgentLoopAssumption  BY SceneAssumption DEF SceneAssumption
<1>2. Loop!Spec => []Loop!BudgetIsKept  BY <1>1, Loop!LegKeepsBudget
<1>3. Loop!BudgetIsKept => BudgetIsKept  BY DEF BudgetIsKept
<1>4. QED  BY <1>2, <1>3, LoopGoesOn, PTL

\* What a leg leaves in the session of the scenes is a conversation, as
\* AgentLoopSafety has it: dispatch.rs saves the results of a turn behind it and
\* in the order of its calls, and no turn before the last is without them.
THEOREM SessionIsAnswered == SceneSpec => []TurnsAreAnswered
<1>1. Loop!AgentLoopAssumption  BY SceneAssumption DEF SceneAssumption
<1>2. Loop!Spec => []Loop!TurnsAreAnswered  BY <1>1, Loop!LegIsAnswered
<1>3. Loop!TurnsAreAnswered => TurnsAreAnswered  BY DEF TurnsAreAnswered
<1>4. QED  BY <1>2, <1>3, LoopGoesOn, PTL

----------------------------------------------------------------------------
(* Recalled memories                                                       *)

\* While the watermark is the one a leg noted, what it selected is fresh; and
\* what it takes to the model is covered by a manifest with that revision.
LegIsCovered(l) ==
  /\ leg[l].noted <= watermark
  /\ leg[l].pc = "failed" \/ leg[l].preparations < MaxTries
  /\ leg[l].pc \notin {"none", "reading"} \cup Recall!Over /\ leg[l].noted = watermark =>
       Recall!Fresh(l)
  /\ leg[l].pc \in {"checking", "executing"} /\ leg[l].selected # {} =>
       manifest.filed /\ manifest.revision = leg[l].noted

\* No leg of the run begins before the one before it is over.
LegsInTurn == \A k, l \in Leg : k < l /\ leg[l].pc # "none" => leg[k].pc \in Recall!Over

RecallInv == Recall!TypeOK /\ LegsInTurn /\ \A l \in Leg : LegIsCovered(l)

\* What a step must not do: take a memory that is not fresh to the model, or to
\* the user.
DispatchesFresh == \A l \in Leg : \A pc \in {"executing", "delivered"} :
  leg'[l].pc = pc /\ ~Recall!At(l, pc) => Recall!Fresh(l)

\* A leg that takes a step is the only one under way.
LEMMA LegMoves ==
  ASSUME Recall!MemoryRecallAssumption, RecallInv, NEW l \in Leg,
         leg[l].pc \notin {"none"} \cup Recall!Over,
         NEW new \in Recall!LegState, new.pc # "none", leg' = [leg EXCEPT ![l] = new],
         manifest' \in [filed : BOOLEAN, revision : Nat], UNCHANGED <<memory, watermark, lapses>>,
         LegIsCovered(l)', new.pc \in {"executing", "delivered"} => Recall!Fresh(l)
  PROVE  RecallInv' /\ DispatchesFresh
<1>1. Recall!TypeOK'  BY DEF RecallInv, Recall!TypeOK
<1>2. \A k \in Leg : leg'[k] = IF k = l THEN new ELSE leg[k]
  BY DEF RecallInv, Recall!TypeOK
<1>3. LegsInTurn'
  BY <1>2 DEF RecallInv, LegsInTurn
<1>4. ASSUME NEW k \in Leg, k # l PROVE LegIsCovered(k)'
  <2>1. leg'[k] = leg[k]  BY <1>2, <1>4
  <2>2. leg[k].pc \in {"none"} \cup Recall!Over
    <3>1. k \in Nat /\ l \in Nat  BY DEF Recall!MemoryRecallAssumption
    <3>2. k < l \/ l < k  BY <1>4, <3>1
    <3>3. QED  BY <3>2 DEF RecallInv, LegsInTurn
  <2>3. QED  BY <2>1, <2>2 DEF RecallInv, LegIsCovered, Recall!Over
<1>5. DispatchesFresh  BY <1>2 DEF DispatchesFresh, Recall!At
<1>6. QED  BY <1>1, <1>3, <1>4, <1>5 DEF RecallInv

USE DEF Recall!At, Recall!Goto

\* A memory changes: the watermark leaves behind what the legs have noted.
LEMMA ChangeStep ==
  ASSUME RecallInv, NEW m \in Recall!Memory, Recall!ChangeMemory(m)
  PROVE  RecallInv' /\ DispatchesFresh
<1>1. /\ UNCHANGED <<manifest, leg, lapses>> /\ watermark' = watermark + 1
      /\ \E active \in BOOLEAN :
           memory' = [memory EXCEPT ![m] = [active |-> active, version |-> @.version + 1]]
  BY DEF Recall!ChangeMemory
<1>2. Recall!TypeOK'  BY <1>1 DEF RecallInv, Recall!TypeOK
<1>3. ASSUME NEW l \in Leg PROVE LegIsCovered(l)'
  <2>1. leg[l].noted \in Nat /\ watermark \in Nat
    BY DEF RecallInv, Recall!TypeOK, Recall!LegState
  <2>2. leg[l].noted <= watermark /\ leg[l].noted # watermark'
    BY <1>1, <2>1 DEF RecallInv, LegIsCovered
  <2>3. QED  BY <1>1, <2>1, <2>2 DEF RecallInv, LegIsCovered
<1>4. QED  BY <1>1, <1>2, <1>3 DEF RecallInv, LegsInTurn, DispatchesFresh

\* The next leg begins: nothing lapses here, the legs before it are over.
LEMMA StartStep ==
  ASSUME Recall!MemoryRecallAssumption, RecallInv, NEW l \in Leg, Recall!StartLeg(l)
  PROVE  RecallInv' /\ DispatchesFresh
<1>1. /\ leg[l].pc = "none" /\ leg' = [leg EXCEPT ![l].pc = "reading"]
      /\ \A k \in Leg : k < l => leg[k].pc \in Recall!Over
      /\ UNCHANGED <<memory, watermark, manifest, lapses>>
  BY DEF Recall!StartLeg, RecallInv, Recall!TypeOK
<1>2. leg[l] \in Recall!LegState  BY DEF RecallInv, Recall!TypeOK
<1>3. PICK new \in Recall!LegState :
        /\ leg' = [leg EXCEPT ![l] = new] /\ new.pc = "reading" /\ new.noted = leg[l].noted
        /\ new.preparations = leg[l].preparations
  <2>1. [leg[l] EXCEPT !.pc = "reading"] \in Recall!LegState
    BY <1>2 DEF Recall!LegState
  <2>2. QED  BY <1>1, <1>2, <2>1 DEF Recall!LegState
<1>4. \A k \in Leg : leg'[k] = IF k = l THEN new ELSE leg[k]
  BY <1>3 DEF RecallInv, Recall!TypeOK
<1>5. Recall!TypeOK'  BY <1>1, <1>3 DEF RecallInv, Recall!TypeOK
<1>6. LegsInTurn'
  BY <1>1, <1>3, <1>4 DEF RecallInv, LegsInTurn, Recall!Over
<1>7. ASSUME NEW k \in Leg PROVE LegIsCovered(k)'
  BY <1>1, <1>3, <1>4 DEF RecallInv, LegIsCovered, Recall!Fresh
<1>8. DispatchesFresh  BY <1>3, <1>4 DEF DispatchesFresh
<1>9. QED  BY <1>5, <1>6, <1>7, <1>8 DEF RecallInv

\* What the leaves know of the leg that takes the step.
LEMMA LegIsTyped ==
  ASSUME Recall!MemoryRecallAssumption, RecallInv, NEW l \in Leg
  PROVE  /\ leg \in [Leg -> Recall!LegState]
         /\ leg[l] \in Recall!LegState /\ watermark \in Nat /\ MaxTries \in Nat \ {0}
         /\ manifest \in [filed : BOOLEAN, revision : Nat]
         /\ leg[l].noted \in Nat /\ leg[l].tries \in 0 .. MaxTries
         /\ leg[l].preparations \in 0 .. MaxTries /\ leg[l].selected \in SUBSET Recall!Item
         /\ LegIsCovered(l)
BY DEF Recall!MemoryRecallAssumption, RecallInv, Recall!TypeOK, Recall!LegState

\* The watermark is noted before anything is searched for.
LEMMA ReadWatermarkStep ==
  ASSUME Recall!MemoryRecallAssumption, RecallInv, NEW l \in Leg, Recall!ReadWatermark(l)
  PROVE  RecallInv' /\ DispatchesFresh
<1> DEFINE new == [leg[l] EXCEPT !.pc = "general", !.noted = watermark, !.selected = {}]
<1>1. leg[l].pc = "reading" /\ UNCHANGED <<memory, watermark, manifest, lapses>>
  BY DEF Recall!ReadWatermark
<1>2. leg' = [leg EXCEPT ![l] = new]
  BY DEF Recall!ReadWatermark, RecallInv, Recall!TypeOK
<1>3. new \in Recall!LegState /\ new.pc = "general"
  BY LegIsTyped DEF Recall!LegState
<1>4. leg'[l] = new  BY <1>2 DEF RecallInv, Recall!TypeOK
<1>5. LegIsCovered(l)'
  BY <1>1, <1>4, LegIsTyped DEF LegIsCovered, Recall!Fresh, Recall!LegState
<1>6. QED  BY <1>1, <1>2, <1>3, <1>5, LegMoves, LegIsTyped DEF Recall!Over

\* What a search finds is as it is now.
LEMMA SearchStep ==
  ASSUME Recall!MemoryRecallAssumption, RecallInv, NEW l \in Leg,
         Recall!SearchGeneral(l) \/ Recall!SearchProject(l)
  PROVE  RecallInv' /\ DispatchesFresh
<1>1. PICK pc \in {"general", "project"}, next \in {"project", "persisting"},
           S \in SUBSET Recall!Memory : Recall!Search(l, pc, S, next)
  BY DEF Recall!SearchGeneral, Recall!SearchProject, Recall!Memory
<1>2. PICK found \in Recall!Found(S) :
        leg' = [leg EXCEPT ![l].pc = next, ![l].selected = @ \cup found]
  BY <1>1 DEF Recall!Search
<1>3. leg[l].pc = pc /\ UNCHANGED <<memory, watermark, manifest, lapses>>
  BY <1>1 DEF Recall!Search
<1>4. \A item \in found :
        item \in Recall!Item /\ memory[item.memory] = [active |-> TRUE, version |-> item.version]
  <2>1. PICK T \in SUBSET {m \in S : memory[m].active} :
          found = {[memory |-> m, version |-> memory[m].version] : m \in T}
    BY <1>2 DEF Recall!Found
  <2>2. \A m \in T : /\ m \in Recall!Memory /\ memory[m].version \in Nat
                     /\ memory[m] = [active |-> TRUE, version |-> memory[m].version]
    BY <2>1 DEF RecallInv, Recall!TypeOK
  <2>3. QED  BY <2>1, <2>2 DEF Recall!Item
<1> DEFINE new == [leg[l] EXCEPT !.pc = next, !.selected = @ \cup found]
<1>5. leg' = [leg EXCEPT ![l] = new] /\ leg'[l] = new
  BY <1>2 DEF RecallInv, Recall!TypeOK
<1>6. new \in Recall!LegState /\ new.pc = next
  BY <1>4, LegIsTyped DEF Recall!LegState
<1>7. LegIsCovered(l)'
  BY <1>3, <1>4, <1>5, LegIsTyped DEF LegIsCovered, Recall!Fresh, Recall!LegState, Recall!Over
<1>8. QED  BY <1>3, <1>5, <1>6, <1>7, LegMoves, LegIsTyped DEF Recall!Over

\* The manifest is filed, or compared, under the revision that was noted.
LEMMA ManifestStep ==
  ASSUME Recall!MemoryRecallAssumption, RecallInv, NEW l \in Leg,
         Recall!PersistManifest(l) \/ Recall!CompareManifest(l)
  PROVE  RecallInv' /\ DispatchesFresh
<1>1. PICK pc \in {"checking", "comparing", "resetting"} :
        /\ leg' = [leg EXCEPT ![l].pc = pc]
        /\ pc = "checking" => manifest'.filed /\ manifest'.revision = leg[l].noted
  BY DEF Recall!PersistManifest, Recall!CompareManifest
<1>2. /\ leg[l].pc \in {"persisting", "comparing"} /\ UNCHANGED <<memory, watermark, lapses>>
      /\ manifest' = manifest \/ manifest' = [filed |-> TRUE, revision |-> watermark]
  BY DEF Recall!PersistManifest, Recall!CompareManifest
<1> DEFINE new == [leg[l] EXCEPT !.pc = pc]
<1>3. leg' = [leg EXCEPT ![l] = new] /\ leg'[l] = new
  BY <1>1, LegIsTyped
<1>4. new \in Recall!LegState /\ new.pc = pc
  BY LegIsTyped DEF Recall!LegState
<1>5. LegIsCovered(l)'
  BY <1>1, <1>2, <1>3, LegIsTyped DEF LegIsCovered, Recall!Fresh, Recall!LegState, Recall!Over
<1>6. manifest' \in [filed : BOOLEAN, revision : Nat]
  <2>1. watermark \in Nat /\ manifest \in [filed : BOOLEAN, revision : Nat]
    BY DEF RecallInv, Recall!TypeOK
  <2>2. [filed |-> TRUE, revision |-> watermark] \in [filed : BOOLEAN, revision : Nat]
    BY <2>1
  <2>3. QED  BY <1>2, <2>1, <2>2
<1>7. leg[l].pc \notin {"none"} \cup Recall!Over /\ pc # "none"  BY <1>2 DEF Recall!Over
<1> HIDE DEF new
<1>8. QED  BY <1>2, <1>3, <1>4, <1>5, <1>6, <1>7, LegMoves

\* Without a manifest of its own, a leg goes on without a selection, or from
\* the start.
LEMMA AgainStep ==
  ASSUME Recall!MemoryRecallAssumption, RecallInv, NEW l \in Leg,
         Recall!ResetRecall(l) \/ Recall!PrepareAgain(l) \/ Recall!DropRecall(l)
  PROVE  RecallInv' /\ DispatchesFresh
<1>1. PICK new \in Recall!LegState :
        /\ leg' = [leg EXCEPT ![l] = new] /\ new.noted = leg[l].noted
        /\ new.pc \in {"reading", "failed"} \/ (new.pc = "checking" /\ new.selected = {})
        /\ new.pc = "failed" \/ new.preparations < MaxTries
  <2>1. CASE Recall!ResetRecall(l) /\ leg[l].tries + 1 < MaxTries
    <3> DEFINE new == [leg[l] EXCEPT !.pc = "reading", !.tries = @ + 1]
    <3>1. leg' = [leg EXCEPT ![l] = new] /\ leg[l].pc = "resetting"
      BY <2>1, LegIsTyped DEF Recall!ResetRecall, Recall!LegState
    <3>2. leg[l].tries + 1 \in 0 .. MaxTries
      BY <2>1, LegIsTyped DEF Recall!MemoryRecallAssumption
    <3>3. new \in Recall!LegState  BY <3>2, LegIsTyped DEF Recall!LegState
    <3>4. leg[l].preparations < MaxTries  BY <3>1, LegIsTyped DEF LegIsCovered
    <3>5. QED  BY <3>1, <3>4, <3>3, LegIsTyped DEF Recall!LegState
  <2>2. CASE Recall!ResetRecall(l) /\ ~(leg[l].tries + 1 < MaxTries)
    <3> DEFINE new == [leg[l] EXCEPT !.pc = "checking", !.tries = 0, !.selected = {}]
    <3>1. leg' = [leg EXCEPT ![l] = new] /\ leg[l].pc = "resetting"
      BY <2>2, LegIsTyped DEF Recall!ResetRecall, Recall!LegState
    <3>2. new \in Recall!LegState
      <4>1. leg[l] \in Recall!LegState /\ 0 \in 0 .. MaxTries
        BY LegIsTyped DEF Recall!MemoryRecallAssumption
      <4>2. {} \in SUBSET Recall!Item  OBVIOUS
      <4>3. QED  BY <4>1, <4>2 DEF Recall!LegState
    <3>3. leg[l].preparations < MaxTries  BY <3>1, LegIsTyped DEF LegIsCovered
    <3>4. QED  BY <3>1, <3>2, <3>3, LegIsTyped DEF Recall!LegState
  <2>3. CASE Recall!PrepareAgain(l)
    <3> DEFINE n == leg[l].preparations + 1
               pc == IF n >= MaxTries THEN "failed" ELSE "reading"
               new == [leg[l] EXCEPT !.pc = pc, !.preparations = n, !.tries = 0]
    <3>1. leg' = [leg EXCEPT ![l] = new] /\ leg[l].pc = "checking"
      BY <2>3, LegIsTyped DEF Recall!PrepareAgain
    <3>2. leg[l].preparations < MaxTries /\ leg[l].preparations \in Nat /\ MaxTries \in Nat
      BY <3>1, LegIsTyped DEF LegIsCovered
    <3>3. n \in 0 .. MaxTries /\ pc \in {"failed", "reading"} /\ (pc = "failed" \/ n < MaxTries)
      BY <3>2
    <3> HIDE DEF n, pc
    <3>4. leg[l] \in Recall!LegState /\ 0 \in 0 .. MaxTries  BY <3>2, LegIsTyped
    <3>5. new \in Recall!LegState /\ new.pc = pc /\ new.preparations = n
      <4>1. new \in Recall!LegState  BY <3>3, <3>4 DEF Recall!LegState
      <4>2. new.pc = pc /\ new.preparations = n  BY <3>4 DEF Recall!LegState
      <4>3. QED  BY <4>1, <4>2
    <3>6. new.noted = leg[l].noted  BY LegIsTyped DEF Recall!LegState
    <3> HIDE DEF new
    <3>7. QED  BY <3>1, <3>5, <3>3, <3>6
  <2>4. CASE Recall!DropRecall(l)
    <3> DEFINE new == [leg[l] EXCEPT !.selected = {}]
    <3>1. leg' = [leg EXCEPT ![l] = new] /\ leg[l].pc = "checking"
      BY <2>4, LegIsTyped DEF Recall!DropRecall
    <3>2. new \in Recall!LegState  BY LegIsTyped DEF Recall!LegState
    <3>3. leg[l].preparations < MaxTries  BY <3>1, LegIsTyped DEF LegIsCovered
    <3>4. QED  BY <3>1, <3>2, <3>3, LegIsTyped DEF Recall!LegState
  <2>5. QED  BY <2>1, <2>2, <2>3, <2>4
<1>2. /\ leg[l].pc \in {"resetting", "checking"} /\ UNCHANGED <<memory, watermark, lapses>>
      /\ manifest' = manifest \/ manifest' = Recall!NoManifest
  BY DEF Recall!ResetRecall, Recall!PrepareAgain, Recall!DropRecall
<1>3. manifest' \in [filed : BOOLEAN, revision : Nat]
  <2>1. Recall!NoManifest \in [filed : BOOLEAN, revision : Nat]  BY DEF Recall!NoManifest
  <2>2. QED  BY <1>2, <2>1 DEF RecallInv, Recall!TypeOK
<1>4. leg'[l] = new  BY <1>1 DEF RecallInv, Recall!TypeOK
<1>5. LegIsCovered(l)'
  BY <1>1, <1>2, <1>4 DEF LegIsCovered, Recall!Fresh, Recall!Over, RecallInv
<1>6. QED  BY <1>1, <1>2, <1>5, <1>3, LegMoves DEF Recall!Over

\* The leg calls the model, is stopped, or ends: what it goes on with is fresh,
\* since the watermark is still the one it noted before the search.
LEMMA ExecutionStep ==
  ASSUME Recall!MemoryRecallAssumption, RecallInv, NEW l \in Leg,
         Recall!Dispatch(l) \/ Recall!Monitor(l) \/ Recall!EndLeg(l)
  PROVE  RecallInv' /\ DispatchesFresh
<1>1. PICK pc \in {"executing", "withheld", "delivered"} :
        /\ leg' = [leg EXCEPT ![l].pc = pc]
        /\ pc = "withheld" \/ Recall!Current
  BY DEF Recall!Dispatch, Recall!Monitor, Recall!EndLeg
<1>2. /\ leg[l].pc \in {"checking", "executing"}
      /\ UNCHANGED <<memory, watermark, manifest, lapses>>
  BY DEF Recall!Dispatch, Recall!Monitor, Recall!EndLeg
<1> DEFINE new == [leg[l] EXCEPT !.pc = pc]
<1>3. leg' = [leg EXCEPT ![l] = new] /\ leg'[l] = new
  BY <1>1, LegIsTyped
<1>4. new \in Recall!LegState /\ new.pc = pc
  BY LegIsTyped DEF Recall!LegState
<1>5. LegIsCovered(l)'
  BY <1>2, <1>3, LegIsTyped DEF LegIsCovered, Recall!Fresh, Recall!LegState, Recall!Over
<1>6. Recall!Current => Recall!Fresh(l)
  <2>1. CASE leg[l].selected = {}  BY <2>1 DEF Recall!Fresh
  <2>2. CASE leg[l].selected # {}
    BY <1>2, <2>2 DEF RecallInv, LegIsCovered, Recall!Current, Recall!Over
  <2>3. QED  BY <2>1, <2>2
<1>7. manifest' \in [filed : BOOLEAN, revision : Nat]
  BY <1>2 DEF RecallInv, Recall!TypeOK
<1>8. leg[l].pc \notin {"none"} \cup Recall!Over /\ pc # "none"  BY <1>2 DEF Recall!Over
<1> HIDE DEF new
<1>9. QED  BY <1>1, <1>2, <1>3, <1>4, <1>5, <1>6, <1>7, <1>8, LegMoves

\* What users and legs do keeps the invariant.
LEMMA RecallInductive ==
  Recall!MemoryRecallAssumption /\ RecallInv /\ [Recall!Next]_(Recall!vars) =>
    RecallInv' /\ DispatchesFresh
<1> SUFFICES ASSUME Recall!MemoryRecallAssumption, RecallInv, [Recall!Next]_(Recall!vars)
             PROVE  RecallInv' /\ DispatchesFresh
  OBVIOUS
<1>1. CASE UNCHANGED Recall!vars
  BY <1>1 DEF Recall!vars, RecallInv, Recall!TypeOK, LegsInTurn, LegIsCovered, Recall!Fresh,
         DispatchesFresh
<1>2. CASE Recall!Next
  BY <1>2, ChangeStep, StartStep, ReadWatermarkStep, SearchStep, ManifestStep, AgainStep,
     ExecutionStep
     DEF Recall!Next, Recall!LegStep
<1>3. QED  BY <1>1, <1>2

\* No leg has begun.
LEMMA RecallInitially == Recall!MemoryRecallAssumption /\ Recall!Init => RecallInv
BY DEF Recall!MemoryRecallAssumption, Recall!Init, Recall!Unstarted, Recall!NoManifest, RecallInv,
       Recall!TypeOK, Recall!LegState, LegsInTurn, LegIsCovered, Recall!Over

\* Legs of the scene keep the invariant and dispatch what is fresh.
LEMMA RecallHolds == SceneSpec => []RecallInv /\ [][DispatchesFresh]_(Recall!vars)
<1>1. Recall!MemoryRecallAssumption  BY SceneAssumption DEF SceneAssumption
<1>2. InitScene => RecallInv  BY <1>1, RecallInitially DEF InitScene
<1>3. [NextScene]_all => [Recall!Next]_(Recall!vars)
  BY OneSceneGoesOn DEF recall, Recall!vars
<1>4. RecallInv /\ [NextScene]_all => RecallInv' /\ [DispatchesFresh]_(Recall!vars)
  BY <1>1, <1>3, RecallInductive
<1>5. QED  BY <1>2, <1>4, PTL DEF SceneSpec

\* dispatch_manifest_is_current before the call of the model, and again before
\* the delivery, find out every change of a memory that was recalled: the
\* watermark was noted before the search, and every change raises it.
THEOREM RecallIsFresh == SceneSpec => RecalledIsFresh
<1>1. [][DispatchesFresh]_(Recall!vars) => RecalledIsFresh
  BY DEF DispatchesFresh, RecalledIsFresh, Recall!RecalledIsFresh, Recall!At
<1>2. QED  BY <1>1, RecallHolds, PTL

----------------------------------------------------------------------------
(* The transcript                                                          *)

Owning == {"preparing", "counting", "working", "queuing", "delivered", "pausing", "failing",
           "finishing"}
Applying == {"loading", "inserting", "marking", "erring"}

\* The message of a run as its row of the outbox has it.
Delivered(r, i) == [run |-> r, index |-> i, leg |-> outbox[r].leg]

\* What a worker holds of a row it applies: the payload is the row's, and the
\* messages it has passed are in the session, whoever inserted them.
TaskSound(t) ==
  /\ t.pc \in {"idle", "claiming"} \/ t.run \in Run
  /\ t.pc \in Owning => t.leg # 0
  /\ t.pc \in Applying => outbox[t.run].status # "none"
  /\ t.pc = "inserting" => /\ t.payload = outbox[t.run].leg /\ t.saved < t.next
                           /\ \A i \in Index : i < t.next => Delivered(t.run, i) \in rows
  /\ t.pc = "marking" => \A i \in Index : Delivered(t.run, i) \in rows

\* Messages come from a row of the outbox, whose leg is set once.
RowSound(r) ==
  /\ outbox[r].status # "none" => outbox[r].leg # 0
  /\ \A m \in rows : m.run = r => outbox[r].status # "none" /\ m.leg = outbox[r].leg
  /\ outbox[r].status = "applied" => \A i \in Index : Delivered(r, i) \in rows

\* There is a leg left for a run that may be claimed again.
LegLeft(r) == run[r].status \in {"queued", "waiting_decision"} => run[r].leg < MaxLegs

TranscriptInv ==
  /\ TypeOK
  /\ \A w \in Worker : TaskSound(worker[w])
  /\ \A r \in Run : RowSound(r) /\ LegLeft(r)

----------------------------------------------------------------------------
Counters ==
  /\ count \in Nat /\ faults \in 0 .. MaxFaults
  /\ asked \subseteq Run /\ notices \subseteq Run \X {"waiting", "failed"}

RunsTyped == run \in [Run -> RunRow] /\ \A r \in Run : LegLeft(r)

\* A worker goes on with what it knows, and writes neither rows nor outbox.
LEMMA TaskMoves ==
  ASSUME TranscriptInv, NEW w \in Worker, NEW t \in Task, worker' = [worker EXCEPT ![w] = t],
         TaskSound(t), UNCHANGED <<rows, outbox>>, Counters', RunsTyped'
  PROVE  TranscriptInv'
<1>1. TypeOK'  BY DEF TranscriptInv, TypeOK, Counters, RunsTyped
<1>2. TaskSound(t)'  BY DEF TaskSound, Delivered
<1>3. ASSUME NEW v \in Worker PROVE TaskSound(worker[v])'
  <2>1. worker'[v] = IF v = w THEN t ELSE worker[v]  BY DEF TranscriptInv, TypeOK
  <2>2. CASE v = w  BY <1>2, <2>1, <2>2
  <2>3. CASE v # w
    <3>1. TaskSound(worker[v])  BY DEF TranscriptInv
    <3>2. worker'[v] = worker[v]  BY <2>1, <2>3
    <3>3. QED  BY <3>1, <3>2 DEF TaskSound, Delivered
  <2>4. QED  BY <2>2, <2>3
<1>4. \A r \in Run : RowSound(r)'  BY DEF TranscriptInv, RowSound, Delivered
<1>5. QED  BY <1>1, <1>3, <1>4 DEF TranscriptInv, RunsTyped

\* The worker's task, and what becomes of it with another pc.
LEMMA TaskGoesOn ==
  ASSUME TranscriptInv, NEW w \in Worker,
         NEW pc \in {"idle", "claiming", "preparing", "counting", "working", "queuing",
                     "loading", "inserting", "marking", "erring", "delivered", "pausing",
                     "failing", "finishing"}
  PROVE  /\ worker[w] \in Task /\ TaskSound(worker[w])
         /\ [worker[w] EXCEPT !.pc = pc] \in Task
         /\ [worker EXCEPT ![w].pc = pc] = [worker EXCEPT ![w] = [worker[w] EXCEPT !.pc = pc]]
<1>1. worker \in [Worker -> Task] /\ worker[w] \in Task  BY DEF TranscriptInv, TypeOK
<1>2. [worker[w] EXCEPT !.pc = pc] \in Task  BY <1>1 DEF Task
<1>3. QED  BY <1>1, <1>2 DEF TranscriptInv

\* A worker at rest owns nothing.
LEMMA IdleTask == Idle \in Task /\ TaskSound(Idle) /\ Idle.pc = "idle"
BY TranscriptAssumption DEF Idle, Task, TaskSound, Owning, Applying, TranscriptAssumption

\* A worker goes to another place of its leg, with what it knows.
LEMMA PcMoves ==
  ASSUME TranscriptInv, NEW w \in Worker,
         NEW pc \in {"claiming", "preparing", "counting", "working", "queuing", "loading",
                     "erring", "delivered", "pausing", "failing", "finishing"},
         Goto(w, pc), UNCHANGED <<rows, outbox>>, Counters', RunsTyped',
         pc = "claiming" \/ worker[w].run \in Run,
         pc \in Owning => worker[w].leg # 0,
         pc \in Applying => outbox[worker[w].run].status # "none"
  PROVE  TranscriptInv'
<1> DEFINE t == [worker[w] EXCEPT !.pc = pc]
<1>1. t \in Task /\ worker' = [worker EXCEPT ![w] = t]  BY TaskGoesOn DEF Goto
<1>2. t.pc = pc /\ t.run = worker[w].run /\ t.leg = worker[w].leg
  BY TaskGoesOn DEF Task
<1> HIDE DEF t
<1>3. TaskSound(t)  BY <1>2 DEF TaskSound
<1>4. QED  BY <1>1, <1>3, TaskMoves

\* A run gets another status; one that may be claimed again has a leg left.
LEMMA StatusMoves ==
  ASSUME TranscriptInv, NEW r \in Run,
         NEW s \in {"queued", "running", "waiting_decision", "completed", "failed"},
         run' = [run EXCEPT ![r].status = s],
         s \in {"queued", "waiting_decision"} => run[r].leg < MaxLegs
  PROVE  RunsTyped'
<1>1. run \in [Run -> RunRow] /\ run[r] \in RunRow  BY DEF TranscriptInv, TypeOK
<1>2. [run[r] EXCEPT !.status = s] \in RunRow  BY <1>1 DEF RunRow
<1>3. run' = [run EXCEPT ![r] = [run[r] EXCEPT !.status = s]]  BY <1>1
<1>4. run' \in [Run -> RunRow]  BY <1>1, <1>2, <1>3
<1>5. ASSUME NEW q \in Run PROVE LegLeft(q)'
  BY <1>1, <1>3 DEF TranscriptInv, LegLeft, RunRow
<1>6. QED  BY <1>4, <1>5 DEF RunsTyped

\* What no step of a projection touches.
LEMMA Untouched == ASSUME TranscriptInv PROVE Counters /\ RunsTyped
BY DEF TranscriptInv, TypeOK, Counters, RunsTyped

\* The worker goes from one step of its leg to the next.
LEMMA LegGoesOn ==
  ASSUME TranscriptInv, NEW w \in Worker,
         \/ NoPendingProjection(w) \/ InsertUserMessage(w) \/ CountUserMessage(w) \/ EndLoop(w)
         \/ SaveFails(w) \/ PersistWaitingNotice(w) \/ PersistFailureNotice(w)
  PROVE  TranscriptInv'
<1> USE DEF NoPendingProjection, InsertUserMessage, CountUserMessage, EndLoop, SaveFails,
            PersistWaitingNotice, PersistFailureNotice, At
<1>1. /\ UNCHANGED <<rows, outbox, run>>
      /\ \/ worker[w].pc = "idle" /\ Goto(w, "claiming")
         \/ worker[w].pc = "inserting" /\ Goto(w, "erring")
         \/ worker[w].pc \in Owning /\ \E pc \in Owning : Goto(w, pc)
  BY DEF Owning
<1>2. worker[w].pc \in Owning => worker[w].run \in Run
  BY TaskGoesOn DEF TaskSound, Owning
<1>3. Counters'
  BY <1>2, Untouched, TranscriptAssumption DEF Counters, Notice, Owning, TranscriptAssumption
<1>4. RunsTyped'  BY <1>1, Untouched DEF RunsTyped, LegLeft
<1>5. CASE worker[w].pc = "idle" /\ Goto(w, "claiming")
  BY <1>1, <1>3, <1>4, <1>5, PcMoves DEF Owning, Applying
<1>6. CASE worker[w].pc = "inserting" /\ Goto(w, "erring")
  <2>1. worker[w].run \in Run /\ outbox[worker[w].run].status # "none"
    BY <1>6, TaskGoesOn DEF TaskSound, Applying
  <2>2. QED  BY <1>1, <1>3, <1>4, <1>6, <2>1, PcMoves DEF Owning
<1>7. CASE worker[w].pc \in Owning /\ \E pc \in Owning : Goto(w, pc)
  <2>1. worker[w].run \in Run /\ worker[w].leg # 0
    BY <1>2, <1>7, TaskGoesOn DEF TaskSound
  <2>2. QED  BY <1>1, <1>3, <1>4, <1>7, <2>1, PcMoves DEF Owning, Applying
<1>8. QED  BY <1>1, <1>5, <1>6, <1>7

\* A worker is done with its run, or dies.
LEMMA LegEnds ==
  ASSUME TranscriptInv, NEW w \in Worker,
         \/ NothingToClaim(w) \/ DeferForProvider(w) \/ PauseRun(w) \/ CompleteRun(w)
         \/ FailRun(w) \/ Crash(w)
  PROVE  TranscriptInv'
<1> USE DEF NothingToClaim, DeferForProvider, PauseRun, CompleteRun, FailRun, Crash, At
<1>1. /\ UNCHANGED <<count, asked, rows, notices, outbox>>
      /\ Rest(w) \/ (worker[w].pc = "pausing" /\ Goto(w, "failing"))
      /\ faults' = faults \/ (faults < MaxFaults /\ faults' = faults + 1)
  OBVIOUS
<1>2. Counters'
  BY <1>1, Untouched, TranscriptAssumption DEF Counters, TranscriptAssumption
<1>3. RunsTyped'
  <2>1. CASE run' = run  BY <2>1, Untouched DEF RunsTyped, LegLeft
  <2>2. CASE run' # run
    <3>1. worker[w].run \in Run
      BY <2>2, TaskGoesOn DEF TaskSound
    <3>2. \E s \in {"queued", "waiting_decision", "completed", "failed"} :
            /\ run' = [run EXCEPT ![worker[w].run].status = s]
            /\ s \in {"queued", "waiting_decision"} => run[worker[w].run].leg < MaxLegs
      BY <2>2
    <3>3. QED  BY <3>1, <3>2, StatusMoves
  <2>3. QED  BY <2>1, <2>2
<1>4. CASE Rest(w)
  BY <1>1, <1>2, <1>3, <1>4, IdleTask, TaskMoves DEF Rest
<1>5. CASE worker[w].pc = "pausing" /\ Goto(w, "failing")
  <2>1. worker[w].run \in Run /\ worker[w].leg # 0
    BY <1>5, TaskGoesOn DEF TaskSound, Owning
  <2>2. QED  BY <1>1, <1>2, <1>3, <1>5, <2>1, PcMoves DEF Applying
<1>6. QED  BY <1>1, <1>4, <1>5

\* A pending row, or a queued run, is taken up.
LEMMA TaskBegins ==
  ASSUME TranscriptInv, NEW w \in Worker, NEW r \in Run, SweepProjection(w, r) \/ ClaimRun(w, r)
  PROVE  TranscriptInv'
<1>1. run[r] \in RunRow /\ MaxLegs \in Nat
  BY TranscriptAssumption DEF TranscriptInv, TypeOK, TranscriptAssumption
<1>2. CASE SweepProjection(w, r)
  <2> DEFINE t == [Idle EXCEPT !.pc = "loading", !.run = r]
  <2>1. worker' = [worker EXCEPT ![w] = t] /\ UNCHANGED <<rows, outbox, count, asked, notices, run, faults>>
    BY <1>2 DEF SweepProjection
  <2>2. t \in Task /\ t.pc = "loading" /\ t.run = r  BY IdleTask DEF Idle, Task
  <2>3. outbox[r].status # "none"  BY <1>2 DEF SweepProjection
  <2> HIDE DEF t
  <2>4. TaskSound(t)  BY <2>2, <2>3 DEF TaskSound, Owning
  <2>5. Counters' /\ RunsTyped'  BY <2>1, Untouched DEF Counters, RunsTyped, LegLeft
  <2>6. QED  BY <2>1, <2>2, <2>4, <2>5, TaskMoves
<1>3. CASE ClaimRun(w, r)
  <2> DEFINE t == [Idle EXCEPT !.pc = "preparing", !.run = r, !.leg = run[r].leg + 1]
             row == [status |-> "running", leg |-> run[r].leg + 1]
  <2>1. /\ worker' = [worker EXCEPT ![w] = t] /\ UNCHANGED <<rows, outbox, count, asked, notices, faults>>
        /\ run' = [run EXCEPT ![r] = row]
    BY <1>3 DEF ClaimRun
  <2>2. run[r].leg \in Nat /\ run[r].leg + 1 \in 0 .. MaxLegs /\ run[r].leg + 1 # 0
    <3>1. run[r].leg < MaxLegs  BY <1>3 DEF ClaimRun, TranscriptInv, LegLeft
    <3>2. QED  BY <1>1, <3>1 DEF RunRow
  <2>3. t \in Task /\ t.pc = "preparing" /\ t.run = r /\ t.leg = run[r].leg + 1
    BY <2>2, IdleTask DEF Idle, Task
  <2>4. row \in RunRow  BY <2>2 DEF RunRow
  <2>5. RunsTyped'
    BY <2>1, <2>4, Untouched DEF RunsTyped, LegLeft
  <2>6. Counters'  BY <2>1, Untouched DEF Counters
  <2> HIDE DEF t
  <2>7. TaskSound(t)  BY <2>2, <2>3 DEF TaskSound, Applying
  <2>8. QED  BY <2>1, <2>3, <2>5, <2>6, <2>7, TaskMoves
<1>4. QED  BY <1>2, <1>3

\* A row is loaded, unless it is applied already; and counted after its last
\* message.
LEMMA RowIsRead ==
  ASSUME TranscriptInv, NEW w \in Worker, LoadProjection(w) \/ CountMessages(w)
  PROVE  TranscriptInv'
<1> DEFINE r == worker[w].run
<1>1. /\ worker[w] \in Task /\ r \in Run /\ outbox[r] \in OutboxRow
      /\ outbox[r].status # "none" /\ Length \in Nat
  <2>1. worker[w].pc \in {"loading", "inserting"}  BY DEF LoadProjection, CountMessages, At
  <2>2. worker[w] \in Task /\ TaskSound(worker[w])  BY TaskGoesOn
  <2>3. r \in Run /\ outbox[r].status # "none"  BY <2>1, <2>2 DEF TaskSound, Applying
  <2>4. QED  BY <2>2, <2>3, TranscriptAssumption DEF TranscriptInv, TypeOK, TranscriptAssumption
<1>2. /\ UNCHANGED <<asked, rows, notices, run, outbox, faults>>
      /\ count' = count \/ count' = count + worker[w].saved
  BY DEF LoadProjection, CountMessages
<1>3. Counters'  BY <1>1, <1>2, Untouched DEF Counters, Task
<1>4. RunsTyped'  BY <1>2, Untouched DEF RunsTyped, LegLeft
<1>5. CASE LoadProjection(w) /\ outbox[r].status = "applied"
  <2>1. CASE worker[w].leg = 0
    <3>1. Rest(w)  BY <1>5, <2>1 DEF LoadProjection, AfterApply, Inline
    <3>2. QED  BY <1>2, <1>3, <1>4, <3>1, IdleTask, TaskMoves DEF Rest
  <2>2. CASE worker[w].leg # 0
    <3>1. Goto(w, "delivered")  BY <1>5, <2>2 DEF LoadProjection, AfterApply, Inline
    <3>2. QED  BY <1>1, <1>2, <1>3, <1>4, <2>2, <3>1, PcMoves DEF Applying
  <2>3. QED  BY <2>1, <2>2
<1>6. CASE LoadProjection(w) /\ outbox[r].status # "applied"
  <2> DEFINE t == [worker[w] EXCEPT !.pc = "inserting", !.next = 1, !.saved = 0,
                                    !.payload = outbox[r].leg]
  <2>1. worker' = [worker EXCEPT ![w] = t]
    BY <1>6 DEF LoadProjection, TranscriptInv, TypeOK
  <2>2. outbox[r].leg \in 0 .. MaxLegs /\ 1 \in 1 .. Length + 1 /\ 0 \in 0 .. Length
    BY <1>1 DEF OutboxRow
  <2>3. t \in Task  BY <1>1, <2>2 DEF Task
  <2>4. /\ t.pc = "inserting" /\ t.run = r /\ t.next = 1 /\ t.saved = 0
        /\ t.payload = outbox[r].leg
    BY <1>1 DEF Task
  <2> HIDE DEF t
  <2>5. TaskSound(t)  BY <1>1, <2>4 DEF TaskSound, Owning, Index
  <2>6. QED  BY <1>2, <1>3, <1>4, <2>1, <2>3, <2>5, TaskMoves
<1>7. CASE CountMessages(w)
  <2> DEFINE t == [worker[w] EXCEPT !.pc = "marking", !.saved = 0]
  <2>1. worker' = [worker EXCEPT ![w] = t] /\ worker[w].pc = "inserting"
        /\ worker[w].next = Length + 1
    BY <1>7 DEF CountMessages, At, TranscriptInv, TypeOK
  <2>2. 0 \in 0 .. Length  BY <1>1
  <2>3. t \in Task  BY <1>1, <2>2 DEF Task
  <2>4. t.pc = "marking" /\ t.run = r  BY <1>1 DEF Task
  <2> HIDE DEF t
  <2>5. \A i \in Index : Delivered(r, i) \in rows
    <3>1. TaskSound(worker[w])  BY TaskGoesOn
    <3>2. \A i \in Index : i < worker[w].next => Delivered(r, i) \in rows
      BY <2>1, <3>1 DEF TaskSound
    <3>3. \A i \in Index : i < worker[w].next  BY <1>1, <2>1 DEF Index
    <3>4. QED  BY <3>2, <3>3
  <2>6. TaskSound(t)  BY <1>1, <2>4, <2>5 DEF TaskSound, Owning
  <2>7. QED  BY <1>2, <1>3, <1>4, <2>1, <2>3, <2>6, TaskMoves
<1>8. QED  BY <1>5, <1>6, <1>7

\* Rows are only added, and a row of the outbox, once there, keeps its leg.
LEMMA StoreMoves ==
  ASSUME TranscriptInv, NEW w \in Worker, NEW t \in Task, worker' = [worker EXCEPT ![w] = t],
         TaskSound(t)', rows \subseteq rows', rows' \subseteq Message,
         outbox' \in [Run -> OutboxRow],
         \A r \in Run : outbox[r].status # "none" =>
           outbox'[r].status # "none" /\ outbox'[r].leg = outbox[r].leg,
         \A r \in Run : RowSound(r)', UNCHANGED <<count, asked, notices, run, faults>>
  PROVE  TranscriptInv'
<1>1. TypeOK'  BY DEF TranscriptInv, TypeOK
<1>2. ASSUME NEW v \in Worker PROVE TaskSound(worker[v])'
  <2>1. worker'[v] = IF v = w THEN t ELSE worker[v]  BY DEF TranscriptInv, TypeOK
  <2>2. CASE v = w  BY <2>1, <2>2 DEF TaskSound, Delivered
  <2>3. CASE v # w
    <3>1. TaskSound(worker[v]) /\ worker[v] \in Task  BY DEF TranscriptInv, TypeOK
    <3>2. worker'[v] = worker[v]  BY <2>1, <2>3
    <3>3. worker[v].pc \in Applying => worker[v].run \in Run
      BY <3>1 DEF TaskSound, Applying
    <3>4. worker[v].pc \in Applying =>
            /\ outbox'[worker[v].run].status # "none"
            /\ outbox'[worker[v].run].leg = outbox[worker[v].run].leg
      BY <3>1, <3>3 DEF TaskSound
    <3>5. QED  BY <3>1, <3>2, <3>4 DEF TaskSound, Delivered, Applying
  <2>4. QED  BY <2>2, <2>3
<1>3. \A r \in Run : LegLeft(r)'  BY DEF TranscriptInv, LegLeft
<1>4. QED  BY <1>1, <1>2, <1>3 DEF TranscriptInv

\* A leg that holds its lease queues its messages, once for the run.
LEMMA RowIsQueued ==
  ASSUME TranscriptInv, NEW w \in Worker, QueueProjection(w)
  PROVE  TranscriptInv'
<1>1. worker[w] \in Task /\ TaskSound(worker[w]) /\ worker[w].pc = "queuing"
  BY TaskGoesOn DEF QueueProjection, At
<1>2. worker[w].run \in Run /\ worker[w].leg # 0  BY <1>1 DEF TaskSound, Owning
<1>3. PICK r \in Run : r = worker[w].run  BY <1>2
<1>4. outbox \in [Run -> OutboxRow] /\ outbox[r] \in OutboxRow
  BY <1>3 DEF TranscriptInv, TypeOK
<1>5. UNCHANGED <<count, asked, rows, notices, run, faults>>  BY DEF QueueProjection
<1>6. Counters' /\ RunsTyped'  BY <1>5, Untouched DEF Counters, RunsTyped, LegLeft
<1>7. CASE Holds(w) /\ outbox[r].status = "none"
  <2>1. worker[w].leg \in 0 .. MaxLegs  BY <1>1 DEF Task
  <2>2. [outbox[r] EXCEPT !.status = "pending", !.leg = worker[w].leg] \in OutboxRow
    BY <1>4, <2>1 DEF OutboxRow
  <2>3. PICK o \in OutboxRow :
          o = [outbox[r] EXCEPT !.status = "pending", !.leg = worker[w].leg]
    BY <2>2
  <2>4. outbox' = [outbox EXCEPT ![r] = o]
    BY <1>3, <1>4, <1>7, <2>3 DEF QueueProjection
  <2>5. o.status = "pending" /\ o.leg = worker[w].leg  BY <1>4, <2>3 DEF OutboxRow
  <2>6. outbox'[r] = o /\ \A q \in Run \ {r} : outbox'[q] = outbox[q]
    BY <1>4, <2>4
  <2>7. outbox' \in [Run -> OutboxRow]  BY <1>4, <2>4
  <2>8. PICK t \in Task : t = [worker[w] EXCEPT !.pc = "loading"]  BY TaskGoesOn
  <2>9. worker' = [worker EXCEPT ![w] = t]
    <3>1. outbox'[r].status # "none"  BY <2>5, <2>6
    <3>2. Goto(w, "loading")  BY <1>3, <3>1 DEF QueueProjection
    <3>3. QED  BY <2>8, <3>2, TaskGoesOn DEF Goto
  <2>10. t.pc = "loading" /\ t.run = r  BY <1>1, <1>3, <2>8 DEF Task
  <2>11. TaskSound(t)'
    <3>1. outbox'[t.run].status # "none"  BY <2>5, <2>6, <2>10
    <3>2. QED  BY <2>10, <3>1 DEF TaskSound, Owning
  <2>12. \A q \in Run : RowSound(q)'
    <3>1. \A m \in rows : m.run # r  BY <1>7 DEF TranscriptInv, RowSound
    <3>2. outbox'[r].status = "pending" /\ outbox'[r].leg # 0 /\ rows' = rows
      BY <1>2, <1>5, <2>5, <2>6
    <3>3. RowSound(r)'  BY <3>1, <3>2 DEF RowSound
    <3>4. ASSUME NEW q \in Run \ {r} PROVE RowSound(q)'
      <4>1. RowSound(q) /\ outbox'[q] = outbox[q]  BY <2>6 DEF TranscriptInv
      <4>2. QED  BY <1>5, <4>1 DEF RowSound, Delivered
    <3>5. QED  BY <3>3, <3>4
  <2>13. \A q \in Run : outbox[q].status # "none" =>
           outbox'[q].status # "none" /\ outbox'[q].leg = outbox[q].leg
    <3>1. \A q \in Run : outbox[q].status # "none" => q # r  BY <1>7
    <3>2. QED  BY <2>6, <3>1
  <2>14. rows \subseteq rows' /\ rows' \subseteq Message  BY <1>5 DEF TranscriptInv, TypeOK
  <2>15. QED  BY <1>5, <2>7, <2>9, <2>10, <2>11, <2>12, <2>13, <2>14, StoreMoves
<1>8. CASE ~(Holds(w) /\ outbox[r].status = "none")
  <2>1. outbox' = outbox  BY <1>3, <1>8 DEF QueueProjection
  <2>2. CASE outbox[r].status = "none"
    <3>1. Goto(w, "failing")  BY <1>3, <2>1, <2>2 DEF QueueProjection
    <3>2. QED  BY <1>2, <1>3, <1>5, <1>6, <2>1, <3>1, PcMoves DEF Applying
  <2>3. CASE outbox[r].status # "none"
    <3>1. Goto(w, "loading")  BY <1>3, <2>1, <2>3 DEF QueueProjection
    <3>2. QED  BY <1>2, <1>3, <1>5, <1>6, <2>1, <2>3, <3>1, PcMoves DEF Owning
  <2>4. QED  BY <2>2, <2>3
<1>9. QED  BY <1>7, <1>8

\* The next message of the row goes in, unless it is there already.
LEMMA MessageIsSaved ==
  ASSUME TranscriptInv, NEW w \in Worker, SaveMessage(w)
  PROVE  TranscriptInv'
<1>1. /\ worker[w] \in Task /\ TaskSound(worker[w]) /\ worker[w].pc = "inserting"
      /\ worker[w].next \in Index /\ worker[w].run \in Run
  BY TaskGoesOn DEF SaveMessage, At, TaskSound, Applying
<1>2. PICK r \in Run, i0 \in Index : r = worker[w].run /\ i0 = worker[w].next  BY <1>1
<1> DEFINE m0 == [run |-> r, index |-> i0, leg |-> worker[w].payload]
           new == \A m \in rows : m.run # r \/ m.index # i0
           u == [worker[w] EXCEPT !.next = @ + 1, !.saved = IF new THEN @ + 1 ELSE @]
<1>3. /\ rows' = IF new THEN rows \cup {m0} ELSE rows
      /\ UNCHANGED <<count, asked, notices, run, outbox, faults>>
  BY <1>2 DEF SaveMessage
<1>4. worker' = [worker EXCEPT ![w] = u]  BY <1>2 DEF SaveMessage, TranscriptInv, TypeOK
<1>5. outbox[r].status # "none" /\ worker[w].payload = outbox[r].leg
      /\ worker[w].saved < i0
  BY <1>1, <1>2 DEF TaskSound, Applying
<1>6. outbox[r] \in OutboxRow /\ RowSound(r) /\ Length \in Nat
  BY <1>5, TranscriptAssumption DEF TranscriptInv, TypeOK, TranscriptAssumption
<1>7. m0 = Delivered(r, i0) /\ m0 \in Message
  <2>1. outbox[r].leg \in 1 .. MaxLegs
    BY <1>5, <1>6, TranscriptAssumption DEF OutboxRow, RowSound, TranscriptAssumption
  <2>2. QED  BY <1>3, <1>5, <2>1 DEF Delivered, Message
<1>8. Delivered(r, i0) \in rows'
  <2>1. CASE new  BY <1>3, <1>7, <2>1
  <2>2. CASE ~new
    <3>1. PICK m \in rows : m.run = r /\ m.index = i0  BY <2>2
    <3>2. m \in Message /\ m.leg = outbox[r].leg
      BY <1>5, <1>6, <3>1 DEF TranscriptInv, TypeOK, RowSound
    <3>3. m = Delivered(r, i0)  BY <3>1, <3>2 DEF Message, Delivered
    <3>4. QED  BY <1>3, <2>2, <3>3
  <2>3. QED  BY <2>1, <2>2
<1>9. i0 + 1 \in 1 .. Length + 1 /\ worker[w].saved \in 0 .. Length
      /\ worker[w].saved + 1 \in 0 .. Length
  BY <1>1, <1>5, <1>6 DEF Index, Task
<1>10. u \in Task  BY <1>1, <1>2, <1>9 DEF Task
<1>11. PICK t \in Task : t = u  BY <1>10
<1>12. /\ t.pc = "inserting" /\ t.run = r /\ t.next = i0 + 1 /\ t.payload = outbox[r].leg
      /\ t.saved \in {worker[w].saved, worker[w].saved + 1}
  BY <1>1, <1>2, <1>11, <1>5 DEF Task
<1>13. t.saved < t.next  BY <1>5, <1>9, <1>12 DEF Index
<1>14. rows \subseteq rows' /\ rows' \subseteq rows \cup {m0}  BY <1>3
<1>15. \A i \in Index : i < i0 => Delivered(r, i) \in rows  BY <1>1, <1>2 DEF TaskSound
<1> HIDE DEF u, new
<1>16. TaskSound(t)'
  <2>1. ASSUME NEW i \in Index, i < i0 + 1 PROVE Delivered(r, i) \in rows'
    <3>1. i < i0 \/ i = i0  BY <1>3, <2>1 DEF Index
    <3>2. QED  BY <1>8, <1>14, <1>15, <3>1
  <2>2. outbox' = outbox  BY <1>3
  <2>3. QED  BY <1>5, <1>12, <1>13, <2>1, <2>2 DEF TaskSound, Owning, Delivered
<1>17. ASSUME NEW q \in Run PROVE RowSound(q)'
  <2>1. RowSound(q)  BY DEF TranscriptInv
  <2>2. \A m \in rows' : m.run = q => outbox[q].status # "none" /\ m.leg = outbox[q].leg
    <3>1. ASSUME NEW m \in rows', m.run = q
          PROVE  outbox[q].status # "none" /\ m.leg = outbox[q].leg
      <4>1. CASE m \in rows  BY <2>1, <3>1, <4>1 DEF RowSound
      <4>2. CASE m = m0  BY <1>5, <3>1, <4>2
      <4>3. QED  BY <1>14, <4>1, <4>2
    <3>2. QED  BY <3>1
  <2>3. outbox' = outbox  BY <1>3
  <2>4. QED  BY <1>14, <2>1, <2>2, <2>3 DEF RowSound, Delivered
<1>18. rows' \subseteq Message  BY <1>7, <1>14 DEF TranscriptInv, TypeOK
<1>19. /\ outbox' \in [Run -> OutboxRow]
       /\ \A q \in Run : outbox[q].status # "none" =>
            outbox'[q].status # "none" /\ outbox'[q].leg = outbox[q].leg
  BY <1>3 DEF TranscriptInv, TypeOK
<1>20. QED  BY <1>3, <1>4, <1>11, <1>14, <1>16, <1>17, <1>18, <1>19, StoreMoves

\* The row is marked: applied, once all its messages are in; or tried in vain.
LEMMA RowIsMarked ==
  ASSUME TranscriptInv, NEW w \in Worker, MarkApplied(w) \/ MarkFailed(w)
  PROVE  TranscriptInv'
<1>1. /\ worker[w] \in Task /\ TaskSound(worker[w]) /\ worker[w].pc \in {"marking", "erring"}
      /\ worker[w].run \in Run
  BY TaskGoesOn DEF MarkApplied, MarkFailed, At, TaskSound, Applying
<1>2. PICK r \in Run : r = worker[w].run  BY <1>1
<1>3. outbox[r] \in OutboxRow /\ outbox[r].status # "none" /\ RowSound(r)
  BY <1>1, <1>2 DEF TranscriptInv, TypeOK, TaskSound, Applying
<1>4. UNCHANGED <<count, asked, rows, notices, run, faults>>
  BY DEF MarkApplied, MarkFailed
<1>5. \E s \in {"pending", "failed", "applied"} :
        /\ outbox' = [outbox EXCEPT ![r].status = s, ![r].attempts = @ + 1]
        /\ s = "applied" => worker[w].pc = "marking"
  <2>1. CASE MarkApplied(w)
    <3>1. /\ outbox' = [outbox EXCEPT ![r].status = "applied", ![r].attempts = @ + 1]
          /\ worker[w].pc = "marking"
      BY <1>2, <2>1 DEF MarkApplied, At
    <3>2. QED  BY <3>1
  <2>2. CASE MarkFailed(w)
    <3>1. PICK s \in {"pending", "failed"} :
            s = IF outbox[r].attempts >= MaxApplies - 1 THEN "failed" ELSE "pending"
      OBVIOUS
    <3>2. outbox' = [outbox EXCEPT ![r].status = s, ![r].attempts = @ + 1]
      BY <1>2, <2>2, <3>1 DEF MarkFailed
    <3>3. QED  BY <3>2
  <2>3. QED  BY <2>1, <2>2
<1>6. PICK s \in {"pending", "failed", "applied"} :
        /\ outbox' = [outbox EXCEPT ![r].status = s, ![r].attempts = @ + 1]
        /\ s = "applied" => worker[w].pc = "marking"
  BY <1>5
<1>7. [outbox[r] EXCEPT !.status = s, !.attempts = @ + 1] \in OutboxRow
  <2>1. outbox[r].attempts \in Nat  BY <1>3 DEF OutboxRow
  <2>2. outbox[r].attempts + 1 \in Nat  BY <2>1
  <2>3. s \in {"none", "pending", "applied", "failed"}  BY <1>6
  <2>4. ASSUME NEW n \in Nat PROVE [outbox[r] EXCEPT !.status = s, !.attempts = n] \in OutboxRow
    BY <1>3, <2>3 DEF OutboxRow
  <2>5. QED  BY <2>2, <2>4
<1>8. PICK o \in OutboxRow : o = [outbox[r] EXCEPT !.status = s, !.attempts = @ + 1]
  BY <1>7
<1>9. o.status = s /\ o.leg = outbox[r].leg  BY <1>3, <1>8 DEF OutboxRow
<1>10. outbox' = [outbox EXCEPT ![r] = o]  BY <1>6, <1>8 DEF TranscriptInv, TypeOK
<1>11. /\ outbox' \in [Run -> OutboxRow] /\ outbox'[r] = o
       /\ \A q \in Run \ {r} : outbox'[q] = outbox[q]
  BY <1>10 DEF TranscriptInv, TypeOK
<1>12. \A q \in Run : outbox[q].status # "none" =>
         outbox'[q].status # "none" /\ outbox'[q].leg = outbox[q].leg
  BY <1>9, <1>11
<1>13. \A q \in Run : RowSound(q)'
  <2>1. outbox'[r].leg = outbox[r].leg /\ outbox'[r].status = s /\ rows' = rows
    BY <1>4, <1>9, <1>11
  <2>2. s = "applied" => \A i \in Index : Delivered(r, i) \in rows
    BY <1>1, <1>2, <1>6 DEF TaskSound
  <2>3. RowSound(r)'  BY <1>3, <2>1, <2>2 DEF RowSound, Delivered
  <2>4. ASSUME NEW q \in Run \ {r} PROVE RowSound(q)'
    <3>1. RowSound(q) /\ outbox'[q] = outbox[q]  BY <1>11 DEF TranscriptInv
    <3>2. QED  BY <1>4, <3>1 DEF RowSound, Delivered
  <2>5. QED  BY <2>3, <2>4
<1>14. rows \subseteq rows' /\ rows' \subseteq Message  BY <1>4 DEF TranscriptInv, TypeOK
<1>15. \E t \in Task : worker' = [worker EXCEPT ![w] = t] /\ TaskSound(t)'
  <2>1. Rest(w) \/ (worker[w].leg # 0 /\ \E pc \in {"delivered", "failing"} : Goto(w, pc))
    BY DEF MarkApplied, MarkFailed, AfterApply, AfterError, Inline
  <2>2. CASE Rest(w)
    <3>1. TaskSound(Idle)'  BY DEF Idle, TaskSound, Owning, Applying
    <3>2. QED  BY <2>2, <3>1, IdleTask DEF Rest
  <2>3. CASE worker[w].leg # 0 /\ \E pc \in {"delivered", "failing"} : Goto(w, pc)
    <3>1. PICK pc \in {"delivered", "failing"} : Goto(w, pc)  BY <2>3
    <3>2. PICK t \in Task : t = [worker[w] EXCEPT !.pc = pc]  BY TaskGoesOn
    <3>3. worker' = [worker EXCEPT ![w] = t]  BY <3>1, <3>2, TaskGoesOn DEF Goto
    <3>4. t.pc = pc /\ t.run = r /\ t.leg # 0  BY <1>1, <1>2, <2>3, <3>2 DEF Task
    <3>5. TaskSound(t)'  BY <3>4 DEF TaskSound, Applying
    <3>6. QED  BY <3>3, <3>5
  <2>4. QED  BY <2>1, <2>2, <2>3
<1>16. QED  BY <1>4, <1>11, <1>12, <1>13, <1>14, <1>15, StoreMoves

\* A Decision is answered, or a lapsed lease reconciled: no worker moves.
LEMMA RunGoesOn ==
  ASSUME TranscriptInv, NEW r \in Run, AnswerDecision(r) \/ ReconcileStaleRun(r)
  PROVE  TranscriptInv'
<1>1. UNCHANGED <<count, asked, rows, notices, outbox, worker>> /\ faults' \in 0 .. MaxFaults
  BY TranscriptAssumption
  DEF AnswerDecision, ReconcileStaleRun, TranscriptInv, TypeOK, TranscriptAssumption
<1>2. \E s \in {"queued", "failed"} :
        /\ run' = [run EXCEPT ![r].status = s]
        /\ s = "queued" => run[r].leg < MaxLegs
  BY DEF AnswerDecision, ReconcileStaleRun, TranscriptInv, LegLeft
<1>3. RunsTyped'  BY <1>2, StatusMoves
<1>4. TypeOK'  BY <1>1, <1>3 DEF TranscriptInv, TypeOK, RunsTyped
<1>5. \A w \in Worker : TaskSound(worker[w])'
  BY <1>1 DEF TranscriptInv, TaskSound, Delivered
<1>6. \A q \in Run : RowSound(q)'  BY <1>1 DEF TranscriptInv, RowSound, Delivered
<1>7. QED  BY <1>3, <1>4, <1>5, <1>6 DEF TranscriptInv, RunsTyped

\* No row is written, and no worker has a task.
LEMMA TranscriptInitially == Init => TranscriptInv
<1> SUFFICES ASSUME Init PROVE TranscriptInv  OBVIOUS
<1>1. MaxLegs \in Nat \ {0} /\ MaxFaults \in Nat  BY TranscriptAssumption DEF TranscriptAssumption
<1>2. 0 \in 0 .. MaxLegs /\ 0 \in 0 .. MaxFaults  BY <1>1
<1>3. TypeOK
  <2>1. run \in [Run -> RunRow]  BY <1>2 DEF Init, RunRow
  <2>2. outbox \in [Run -> OutboxRow]  BY <1>2 DEF Init, OutboxRow
  <2>3. worker \in [Worker -> Task]  BY IdleTask DEF Init
  <2>4. QED  BY <1>2, <2>1, <2>2, <2>3 DEF Init, TypeOK
<1>4. \A w \in Worker : TaskSound(worker[w])  BY IdleTask DEF Init
<1>5. \A r \in Run : RowSound(r) /\ LegLeft(r)  BY <1>1 DEF Init, RowSound, LegLeft
<1>6. QED  BY <1>3, <1>4, <1>5 DEF TranscriptInv

\* What runs and workers do keeps the invariant.
LEMMA TranscriptInductive == TranscriptInv /\ Next => TranscriptInv'
<1> SUFFICES ASSUME TranscriptInv, Next PROVE TranscriptInv'  OBVIOUS
<1>1. CASE \E w \in Worker : WorkerStep(w) \/ SaveFails(w) \/ Crash(w)
  <2>1. PICK w \in Worker : WorkerStep(w) \/ SaveFails(w) \/ Crash(w)  BY <1>1
  <2>2. CASE \E r \in Run : SweepProjection(w, r) \/ ClaimRun(w, r)  BY <2>2, TaskBegins
  <2>3. CASE \/ NoPendingProjection(w) \/ InsertUserMessage(w) \/ CountUserMessage(w)
             \/ EndLoop(w) \/ SaveFails(w) \/ PersistWaitingNotice(w)
             \/ PersistFailureNotice(w)
    BY <2>3, LegGoesOn
  <2>4. CASE \/ NothingToClaim(w) \/ DeferForProvider(w) \/ PauseRun(w) \/ CompleteRun(w)
             \/ FailRun(w) \/ Crash(w)
    BY <2>4, LegEnds
  <2>5. CASE LoadProjection(w) \/ CountMessages(w)  BY <2>5, RowIsRead
  <2>6. CASE QueueProjection(w)  BY <2>6, RowIsQueued
  <2>7. CASE SaveMessage(w)  BY <2>7, MessageIsSaved
  <2>8. CASE MarkApplied(w) \/ MarkFailed(w)  BY <2>8, RowIsMarked
  <2>9. QED  BY <2>1, <2>2, <2>3, <2>4, <2>5, <2>6, <2>7, <2>8 DEF WorkerStep
<1>2. CASE \E r \in Run : AnswerDecision(r) \/ ReconcileStaleRun(r)  BY <1>2, RunGoesOn
<1>3. QED  BY <1>1, <1>2 DEF Next

\* Nothing of the transcript moves.
LEMMA TranscriptStutters ==
  ASSUME TranscriptInv, UNCHANGED <<transcript, faults>> PROVE TranscriptInv'
<1>1. UNCHANGED <<count, asked, rows, notices, run, outbox, worker, faults>>  BY DEF transcript
<1>2. TypeOK'  BY <1>1 DEF TranscriptInv, TypeOK
<1>3. \A w \in Worker : TaskSound(worker[w])'  BY <1>1 DEF TranscriptInv, TaskSound, Delivered
<1>4. \A r \in Run : RowSound(r)' /\ LegLeft(r)'
  BY <1>1 DEF TranscriptInv, RowSound, LegLeft, Delivered
<1>5. QED  BY <1>2, <1>3, <1>4 DEF TranscriptInv

\* The scene of the transcript keeps its invariant; in the others there is no row.
TranscriptScene ==
  IF scene = "transcript" THEN TranscriptInv
  ELSE rows = {} /\ \A r \in Run : outbox[r].status = "none"

LEMMA TranscriptHolds == SceneSpec => []TranscriptScene
<1>1. InitScene => TranscriptScene
  <2>1. InitScene => Init  BY DEF InitScene
  <2>2. Init => rows = {} /\ \A r \in Run : outbox[r].status = "none"  BY DEF Init
  <2>3. QED  BY <2>1, <2>2, TranscriptInitially DEF TranscriptScene
<1>2. TranscriptScene /\ [NextScene]_all => TranscriptScene'
  <2> SUFFICES ASSUME TranscriptScene, [NextScene]_all PROVE TranscriptScene'  OBVIOUS
  <2>1. scene' = scene /\ ((scene = "transcript" /\ Next) \/ UNCHANGED transcript)
    BY OneSceneGoesOn
  <2>2. CASE scene = "transcript"
    <3>1. Next \/ UNCHANGED <<transcript, faults>>  BY <2>2 DEF NextScene, all
    <3>2. TranscriptInv  BY <2>2 DEF TranscriptScene
    <3>3. TranscriptInv'  BY <3>1, <3>2, TranscriptInductive, TranscriptStutters
    <3>4. QED  BY <2>1, <2>2, <3>3 DEF TranscriptScene
  <2>3. CASE scene # "transcript"
    <3>1. rows' = rows /\ outbox' = outbox  BY <2>1, <2>3 DEF transcript
    <3>2. QED  BY <2>1, <2>3, <3>1 DEF TranscriptScene
  <2>4. QED  BY <2>2, <2>3
<1>3. QED  BY <1>1, <1>2, PTL DEF SceneSpec

\* The messages of a run in its session are those of the one leg that queued
\* them, and a row marked applied has them all, however many workers apply it
\* side by side without a lock, fail in the middle of it, or reopen it
\* (apply_message_projection in services/agent_runs.rs).
THEOREM RowsAreWhole == SceneSpec => []AppliedIsComplete
<1>1. TranscriptScene => AppliedIsComplete
  BY DEF TranscriptScene, TranscriptInv, RowSound, Delivered, AppliedIsComplete
<1>2. QED  BY <1>1, TranscriptHolds, PTL

----------------------------------------------------------------------------
(* The count of the session's messages                                     *)

Finite == /\ IsFiniteSet(asked) /\ IsFiniteSet(rows) /\ IsFiniteSet(notices)
          /\ IsFiniteSet(Pending)

\* Without a fault a worker is between an insertion and its count only while it
\* inserts; the count and what is about to be added make up the messages.
CountInv ==
  /\ Finite
  /\ count + Cardinality(Pending) <= Held
  /\ faults = 0 => /\ count + Cardinality(Pending) = Held
                   /\ \A w \in Worker : worker[w].saved # 0 => worker[w].pc = "inserting"

\* A worker's step changes its own share of what is pending.
LEMMA PendingMoves ==
  ASSUME TypeOK, NEW w \in Worker, NEW t, worker' = [worker EXCEPT ![w] = t]
  PROVE  \A v \in Worker, i \in 0 .. Length : <<v, i>> \in Pending' <=>
           IF v = w THEN IF i = 0 THEN t.pc = "counting" ELSE i <= t.saved
           ELSE <<v, i>> \in Pending
<1>1. worker \in [Worker -> Task]  BY DEF TypeOK
<1>2. \A v \in Worker : worker'[v] = IF v = w THEN t ELSE worker[v]  BY <1>1
<1> SUFFICES ASSUME NEW v \in Worker, NEW i \in 0 .. Length
             PROVE  <<v, i>> \in Pending' <=>
                      IF v = w THEN IF i = 0 THEN t.pc = "counting" ELSE i <= t.saved
                      ELSE <<v, i>> \in Pending
  OBVIOUS
<1>3. <<v, i>> \in Pending' <=> IF i = 0 THEN worker'[v].pc = "counting" ELSE i <= worker'[v].saved
  BY DEF Pending, At
<1>4. <<v, i>> \in Pending <=> IF i = 0 THEN worker[v].pc = "counting" ELSE i <= worker[v].saved
  BY DEF Pending, At
<1>5. QED  BY <1>2, <1>3, <1>4

\* Every pending insertion is a pair.
LEMMA PendingIs ==
  /\ \A x \in Pending : \E v \in Worker, i \in 0 .. Length : x = <<v, i>>
  /\ \A x \in Pending' : \E v \in Worker, i \in 0 .. Length : x = <<v, i>>
BY DEF Pending

\* The sizes of the finite sets are numbers.
LEMMA CountsAreNumbers ==
  ASSUME Finite
  PROVE  /\ Cardinality(asked) \in Nat /\ Cardinality(rows) \in Nat
         /\ Cardinality(notices) \in Nat /\ Cardinality(Pending) \in Nat
BY FS_CardinalityType DEF Finite

\* A fault is not taken back.
LEMMA FaultsGrow ==
  ASSUME TypeOK, Next PROVE faults \in Nat /\ (faults' = 0 => faults = 0)
<1>1. faults \in Nat  BY TranscriptAssumption DEF TypeOK, TranscriptAssumption
<1>2. faults' = faults \/ faults' = faults + 1
  BY DEF Next, WorkerStep, SweepProjection, ClaimRun, NoPendingProjection, NothingToClaim,
         InsertUserMessage, CountUserMessage, EndLoop, DeferForProvider, QueueProjection,
         LoadProjection, SaveMessage, CountMessages, MarkApplied, MarkFailed,
         PersistWaitingNotice, PauseRun, CompleteRun, PersistFailureNotice, FailRun,
         SaveFails, Crash, AnswerDecision, ReconcileStaleRun
<1>3. QED  BY <1>1, <1>2

\* Nothing becomes pending, and the count rises with the messages: what a worker
\* has not counted stays, or is lost with a fault.
LEMMA BalanceStays ==
  ASSUME TypeOK, CountInv, NEW w \in Worker, NEW t \in Task, worker' = [worker EXCEPT ![w] = t],
         NEW k \in {0, 1}, count' = count + k, Held' = Held + k,
         IsFiniteSet(asked') /\ IsFiniteSet(rows') /\ IsFiniteSet(notices'),
         faults' = 0 => faults = 0,
         t.pc = "counting" => worker[w].pc = "counting",
         t.saved = 0 \/ t.saved = worker[w].saved,
         faults' = 0 => /\ t.saved = worker[w].saved
                        /\ worker[w].pc = "counting" => t.pc = "counting"
                        /\ t.saved # 0 => t.pc = "inserting"
  PROVE  CountInv'
<1>1. worker[w] \in Task /\ Length \in Nat
  BY TranscriptAssumption DEF TypeOK, TranscriptAssumption
<1>2. worker[w].saved \in Nat /\ t.saved \in Nat  BY <1>1 DEF Task
<1>3. \A v \in Worker, i \in 0 .. Length : <<v, i>> \in Pending' => <<v, i>> \in Pending
  <2> SUFFICES ASSUME NEW i \in 0 .. Length, <<w, i>> \in Pending' PROVE <<w, i>> \in Pending
    BY PendingMoves
  <2>1. IF i = 0 THEN t.pc = "counting" ELSE i <= t.saved  BY PendingMoves
  <2>2. IF i = 0 THEN worker[w].pc = "counting" ELSE i <= worker[w].saved  BY <1>1, <1>2, <2>1
  <2>3. QED  BY <2>2 DEF Pending, At
<1>4. Pending' \subseteq Pending  BY <1>3, PendingIs
<1>5. ASSUME faults' = 0 PROVE Pending' = Pending
  <2>1. ASSUME NEW i \in 0 .. Length, <<w, i>> \in Pending PROVE <<w, i>> \in Pending'
    <3>1. IF i = 0 THEN worker[w].pc = "counting" ELSE i <= worker[w].saved
      BY <2>1 DEF Pending, At
    <3>2. IF i = 0 THEN t.pc = "counting" ELSE i <= t.saved  BY <1>5, <3>1
    <3>3. QED  BY <3>2, PendingMoves
  <2>2. \A v \in Worker, i \in 0 .. Length : <<v, i>> \in Pending => <<v, i>> \in Pending'
    BY <2>1, PendingMoves
  <2>3. QED  BY <1>4, <2>2, PendingIs
<1>6. IsFiniteSet(Pending) /\ IsFiniteSet(Pending') /\ Cardinality(Pending') <= Cardinality(Pending)
  BY <1>4, FS_Subset DEF CountInv, Finite
<1>7. Finite'  BY <1>6 DEF Finite
<1>8. Held \in Nat /\ count \in Nat
  BY CountsAreNumbers DEF Held, CountInv, TypeOK
<1>9. Cardinality(Pending) \in Nat /\ Cardinality(Pending') \in Nat  BY <1>6, FS_CardinalityType
<1>10. count' + Cardinality(Pending') <= Held'  BY <1>6, <1>8, <1>9 DEF CountInv
<1>11. ASSUME faults' = 0 PROVE count' + Cardinality(Pending') = Held'
  <2>1. count + Cardinality(Pending) = Held  BY <1>11 DEF CountInv
  <2>2. Cardinality(Pending') = Cardinality(Pending)  BY <1>5, <1>11
  <2>3. QED  BY <1>8, <1>9, <2>1, <2>2
<1>12. ASSUME faults' = 0, NEW v \in Worker, worker'[v].saved # 0
       PROVE  worker'[v].pc = "inserting"
  <2>1. worker'[v] = IF v = w THEN t ELSE worker[v]  BY DEF TypeOK
  <2>2. QED  BY <1>12, <2>1 DEF CountInv
<1>13. QED  BY <1>7, <1>10, <1>11, <1>12 DEF CountInv

\* One message is inserted, to be counted by the worker that did it.
LEMMA OneInserted ==
  ASSUME TypeOK, CountInv, NEW w \in Worker, NEW t \in Task, worker' = [worker EXCEPT ![w] = t],
         UNCHANGED <<count, faults>>, NEW i \in 0 .. Length,
         <<w, i>> \notin Pending,
         \A j \in 0 .. Length :
           (IF j = 0 THEN t.pc = "counting" ELSE j <= t.saved) <=> (j = i \/ <<w, j>> \in Pending),
         IsFiniteSet(asked') /\ IsFiniteSet(rows') /\ IsFiniteSet(notices'), Held' = Held + 1,
         faults = 0 /\ t.saved # 0 => t.pc = "inserting"
  PROVE  CountInv'
<1>1. \A v \in Worker, j \in 0 .. Length :
        <<v, j>> \in Pending' <=> (<<v, j>> = <<w, i>> \/ <<v, j>> \in Pending)
  BY PendingMoves
<1>2. Pending' = Pending \cup {<<w, i>>}
  <2>1. ASSUME NEW x \in Pending' PROVE x \in Pending \cup {<<w, i>>}  BY <1>1, PendingIs
  <2>2. ASSUME NEW x \in Pending PROVE x \in Pending'  BY <1>1, PendingIs
  <2>3. <<w, i>> \in Pending'  BY <1>1
  <2>4. QED  BY <2>1, <2>2, <2>3
<1>3. IsFiniteSet(Pending') /\ Cardinality(Pending') = Cardinality(Pending) + 1
  BY <1>2, FS_AddElement DEF CountInv, Finite
<1>4. Finite'  BY <1>3 DEF Finite
<1>5. Held \in Nat /\ count \in Nat /\ count' = count /\ Cardinality(Pending) \in Nat
  BY CountsAreNumbers DEF Held, CountInv, TypeOK
<1>6. count' + Cardinality(Pending') <= Held'  BY <1>3, <1>5 DEF CountInv
<1>7. ASSUME faults' = 0 PROVE count' + Cardinality(Pending') = Held'
  BY <1>3, <1>5, <1>7 DEF CountInv
<1>8. ASSUME faults' = 0, NEW v \in Worker, worker'[v].saved # 0
      PROVE  worker'[v].pc = "inserting"
  <2>1. worker'[v] = IF v = w THEN t ELSE worker[v]  BY DEF TypeOK
  <2>2. QED  BY <1>8, <2>1 DEF CountInv
<1>9. QED  BY <1>4, <1>6, <1>7, <1>8 DEF CountInv

\* A worker adds what it inserted to the count.
LEMMA SomeCounted ==
  ASSUME TypeOK, CountInv, NEW w \in Worker, NEW t \in Task, worker' = [worker EXCEPT ![w] = t],
         UNCHANGED <<asked, rows, notices, faults>>, NEW n \in Nat, count' = count + n,
         NEW T, T \subseteq Pending, Cardinality(T) = n,
         \A v \in Worker, j \in 0 .. Length :
           <<v, j>> \in Pending' <=> <<v, j>> \in Pending /\ <<v, j>> \notin T,
         faults = 0 /\ t.saved # 0 => t.pc = "inserting"
  PROVE  CountInv'
<1>1. Pending' = Pending \ T  BY PendingIs
<1>2. IsFiniteSet(Pending') /\ Cardinality(Pending') = Cardinality(Pending) - n
  <2>1. Pending \cap T = T  OBVIOUS
  <2>2. IsFiniteSet(Pending)  BY DEF CountInv, Finite
  <2>3. QED  BY <1>1, <2>1, <2>2, FS_Difference
<1>3. Finite'  BY <1>2 DEF CountInv, Finite
<1>4. Held' = Held /\ Held \in Nat /\ count \in Nat /\ Cardinality(Pending) \in Nat
  BY CountsAreNumbers DEF Held, CountInv, TypeOK
<1>5. count' + Cardinality(Pending') = count + Cardinality(Pending)  BY <1>2, <1>4
<1>6. ASSUME faults' = 0, NEW v \in Worker, worker'[v].saved # 0
      PROVE  worker'[v].pc = "inserting"
  <2>1. worker'[v] = IF v = w THEN t ELSE worker[v]  BY DEF TypeOK
  <2>2. QED  BY <1>6, <2>1 DEF CountInv
<1>7. QED  BY <1>3, <1>4, <1>5, <1>6 DEF CountInv

\* Nothing is inserted or counted.
LEMMA NothingCounted ==
  ASSUME TypeOK, CountInv, NEW w \in Worker, NEW t \in Task, worker' = [worker EXCEPT ![w] = t],
         UNCHANGED <<count, asked, rows, notices>>,
         faults' = 0 => faults = 0,
         t.pc = "counting" => worker[w].pc = "counting",
         t.saved = 0 \/ t.saved = worker[w].saved,
         faults' = 0 => /\ t.saved = worker[w].saved
                        /\ worker[w].pc = "counting" => t.pc = "counting"
                        /\ t.saved # 0 => t.pc = "inserting"
  PROVE  CountInv'
<1>1. Held' = Held /\ Held \in Nat /\ count \in Nat
  BY CountsAreNumbers DEF Held, CountInv, TypeOK
<1>2. count' = count + 0 /\ Held' = Held + 0  BY <1>1
<1>3. IsFiniteSet(asked') /\ IsFiniteSet(rows') /\ IsFiniteSet(notices')
  BY DEF CountInv, Finite
<1>4. QED  BY <1>2, <1>3, BalanceStays

\* A worker goes to another place without having anything to count, unless a
\* fault takes it there.
LEMMA GotoCounts ==
  ASSUME TranscriptInv, CountInv, NEW w \in Worker,
         NEW pc \in {"idle", "claiming", "preparing", "working", "queuing", "loading", "marking",
                     "erring", "delivered", "pausing", "failing", "finishing"},
         Goto(w, pc), UNCHANGED <<count, asked, rows, notices>>, faults' = 0 => faults = 0,
         faults' = 0 => worker[w].pc \notin {"counting", "inserting"}
  PROVE  CountInv'
<1>1. PICK t \in Task : t = [worker[w] EXCEPT !.pc = pc]  BY TaskGoesOn
<1>2. worker' = [worker EXCEPT ![w] = t]  BY <1>1, TaskGoesOn DEF Goto
<1>3. t.pc = pc /\ t.saved = worker[w].saved  BY <1>1, TaskGoesOn DEF Task
<1>4. faults' = 0 => worker[w].saved = 0  BY DEF CountInv
<1>5. TypeOK  BY DEF TranscriptInv
<1>6. QED  BY <1>2, <1>3, <1>4, <1>5, NothingCounted

\* A task is taken up, or dropped, by a worker with nothing to count.
LEMMA FreshCounts ==
  ASSUME TranscriptInv, CountInv, NEW w \in Worker, NEW t \in Task, worker' = [worker EXCEPT ![w] = t],
         UNCHANGED <<count, asked, rows, notices>>, faults' = 0 => faults = 0,
         t.saved = 0, t.pc # "counting",
         faults' = 0 => worker[w].pc \notin {"counting", "inserting"}
  PROVE  CountInv'
<1>1. faults' = 0 => worker[w].saved = 0  BY DEF CountInv
<1>2. TypeOK  BY DEF TranscriptInv
<1>3. QED  BY <1>1, <1>2, NothingCounted

LEMMA RestCounts ==
  ASSUME TranscriptInv, CountInv, NEW w \in Worker, Rest(w),
         UNCHANGED <<count, asked, rows, notices>>, faults' = 0 => faults = 0,
         faults' = 0 => worker[w].pc \notin {"counting", "inserting"}
  PROVE  CountInv'
<1>1. Idle.saved = 0 /\ Idle.pc = "idle"  BY DEF Idle
<1>2. worker' = [worker EXCEPT ![w] = Idle]  BY DEF Rest
<1>3. QED  BY <1>1, <1>2, IdleTask, FreshCounts

\* No worker moves.
LEMMA CountStutters ==
  ASSUME CountInv, UNCHANGED <<count, asked, rows, notices, worker>>, faults' = 0 => faults = 0
  PROVE  CountInv'
<1>1. Pending' = Pending /\ Held' = Held  BY DEF Pending, Held, At
<1>2. QED  BY <1>1 DEF CountInv, Finite

----------------------------------------------------------------------------
(* The steps of a worker                                                   *)

\* Steps that neither insert nor count.
LEMMA QuietStepCounts ==
  ASSUME TranscriptInv, CountInv, Next, NEW w \in Worker,
         \/ NoPendingProjection(w) \/ NothingToClaim(w) \/ EndLoop(w) \/ DeferForProvider(w)
         \/ QueueProjection(w) \/ MarkApplied(w) \/ MarkFailed(w) \/ PauseRun(w) \/ CompleteRun(w)
         \/ FailRun(w) \/ SaveFails(w) \/ Crash(w)
  PROVE  CountInv'
<1>1. UNCHANGED <<count, asked, rows, notices>>
  BY DEF NoPendingProjection, NothingToClaim, EndLoop, DeferForProvider, QueueProjection,
         MarkApplied, MarkFailed, PauseRun, CompleteRun, FailRun, SaveFails, Crash
<1>2. faults \in Nat /\ (faults' = 0 => faults = 0)  BY FaultsGrow DEF TranscriptInv
<1>3. \/ Rest(w)
      \/ \E pc \in {"claiming", "queuing", "failing", "loading", "delivered", "erring"} : Goto(w, pc)
  <2>1. ASSUME QueueProjection(w) PROVE Goto(w, "failing") \/ Goto(w, "loading")
    BY <2>1 DEF QueueProjection
  <2>2. ASSUME MarkApplied(w) PROVE Rest(w) \/ Goto(w, "delivered")
    BY <2>2 DEF MarkApplied, AfterApply
  <2>3. ASSUME MarkFailed(w) PROVE Rest(w) \/ Goto(w, "failing")
    BY <2>3 DEF MarkFailed, AfterError
  <2>4. QED  BY <2>1, <2>2, <2>3
    DEF NoPendingProjection, NothingToClaim, EndLoop, DeferForProvider, PauseRun, CompleteRun,
        FailRun, SaveFails, Crash
<1>4. faults' = 0 => worker[w].pc \notin {"counting", "inserting"}
  <2>1. ASSUME SaveFails(w) \/ Crash(w) PROVE faults' # 0  BY <1>2, <2>1 DEF SaveFails, Crash
  <2>2. QED  BY <2>1
    DEF NoPendingProjection, NothingToClaim, EndLoop, DeferForProvider, QueueProjection,
        MarkApplied, MarkFailed, PauseRun, CompleteRun, FailRun, At
<1>5. QED  BY <1>1, <1>2, <1>3, <1>4, RestCounts, GotoCounts

\* A row or a run is taken up, or a row is read.
LEMMA TaskCounts ==
  ASSUME TranscriptInv, CountInv, NEW w \in Worker,
         (\E r \in Run : SweepProjection(w, r) \/ ClaimRun(w, r)) \/ LoadProjection(w)
  PROVE  CountInv'
<1>0. faults' = faults /\ UNCHANGED <<count, asked, rows, notices>>
  BY DEF SweepProjection, ClaimRun, LoadProjection
<1>1. worker[w] \in Task /\ MaxLegs \in Nat /\ Length \in Nat
  BY TaskGoesOn, TranscriptAssumption DEF TranscriptAssumption
<1>p. worker[w].pc \notin {"counting", "inserting"}
  BY DEF SweepProjection, ClaimRun, LoadProjection, At
<1>2. ASSUME NEW r \in Run, SweepProjection(w, r) PROVE CountInv'
  <2>1. PICK t \in Task : t = [Idle EXCEPT !.pc = "loading", !.run = r]
    BY IdleTask DEF Idle, Task
  <2>2. t.saved = 0 /\ t.pc = "loading"  BY <2>1 DEF Idle
  <2>3. worker' = [worker EXCEPT ![w] = t]  BY <1>2, <2>1 DEF SweepProjection
  <2>4. QED  BY <1>0, <1>p, <2>2, <2>3, FreshCounts
<1>3. ASSUME NEW r \in Run, ClaimRun(w, r) PROVE CountInv'
  <2>1. run[r] \in RunRow /\ run[r].leg < MaxLegs
    BY <1>3 DEF TranscriptInv, TypeOK, LegLeft, ClaimRun
  <2>2. run[r].leg + 1 \in 0 .. MaxLegs  BY <1>1, <2>1 DEF RunRow
  <2>3. PICK t \in Task : t = [Idle EXCEPT !.pc = "preparing", !.run = r, !.leg = run[r].leg + 1]
    BY <2>2, IdleTask DEF Idle, Task
  <2>4. t.saved = 0 /\ t.pc = "preparing"  BY <2>3 DEF Idle
  <2>5. worker' = [worker EXCEPT ![w] = t]  BY <1>3, <2>3 DEF ClaimRun
  <2>6. QED  BY <1>0, <1>p, <2>4, <2>5, FreshCounts
<1>4. ASSUME LoadProjection(w) PROVE CountInv'
  <2> DEFINE r == worker[w].run
  <2>1. CASE outbox[r].status = "applied"
    <3>1. Rest(w) \/ Goto(w, "delivered")  BY <1>4, <2>1 DEF LoadProjection, AfterApply
    <3>2. QED  BY <1>0, <1>p, <3>1, RestCounts, GotoCounts
  <2>2. CASE outbox[r].status # "applied"
    <3>1. r \in Run  BY <1>4, TaskGoesOn DEF LoadProjection, At, TaskSound
    <3>2. outbox[r].leg \in 0 .. MaxLegs  BY <3>1 DEF TranscriptInv, TypeOK, OutboxRow
    <3>3. 1 \in 1 .. Length + 1 /\ 0 \in 0 .. Length  BY <1>1
    <3>4. [worker[w] EXCEPT !.pc = "inserting", !.next = 1, !.saved = 0,
                            !.payload = outbox[r].leg] \in Task
      BY <1>1, <3>2, <3>3 DEF Task
    <3>5. PICK t \in Task : t = [worker[w] EXCEPT !.pc = "inserting", !.next = 1, !.saved = 0,
                                                  !.payload = outbox[r].leg]
      BY <3>4
    <3>6. t.saved = 0 /\ t.pc = "inserting"  BY <1>1, <3>5 DEF Task
    <3>7. worker' = [worker EXCEPT ![w] = t]
      BY <1>4, <2>2, <3>5 DEF LoadProjection, TranscriptInv, TypeOK
    <3>8. QED  BY <1>0, <1>p, <3>6, <3>7, FreshCounts
  <2>3. QED  BY <2>1, <2>2
<1>5. QED  BY <1>2, <1>3, <1>4

\* The user's message goes in, unless an earlier leg inserted it; then it is
\* counted.
LEMMA UserMessageCounts ==
  ASSUME TranscriptInv, CountInv, NEW w \in Worker, InsertUserMessage(w) \/ CountUserMessage(w)
  PROVE  CountInv'
<1>1. worker[w] \in Task /\ TypeOK /\ Length \in Nat
  BY TaskGoesOn, TranscriptAssumption DEF TranscriptInv, TranscriptAssumption
<1>2. CASE InsertUserMessage(w)
  <2> DEFINE r == worker[w].run
  <2>1. /\ worker[w].pc = "preparing" /\ asked' = asked \cup {r}
        /\ UNCHANGED <<count, rows, notices, faults>>
    BY <1>2 DEF InsertUserMessage, At
  <2>2. CASE r \in asked
    <3>1. Goto(w, "working")  BY <1>2, <2>2 DEF InsertUserMessage
    <3>2. asked' = asked  BY <2>1, <2>2
    <3>3. QED  BY <2>1, <3>1, <3>2, GotoCounts
  <2>3. CASE r \notin asked
    <3>1. PICK t \in Task : t = [worker[w] EXCEPT !.pc = "counting"]  BY TaskGoesOn
    <3>2. worker' = [worker EXCEPT ![w] = t]
      BY <1>2, <2>3, <3>1, TaskGoesOn DEF InsertUserMessage, Goto
    <3>3. t.pc = "counting" /\ t.saved = worker[w].saved  BY <1>1, <3>1 DEF Task
    <3>4. <<w, 0>> \notin Pending  BY <2>1 DEF Pending, At
    <3>5. \A j \in 0 .. Length : <<w, j>> \in Pending <=> (j # 0 /\ j <= worker[w].saved)
      BY <2>1 DEF Pending, At
    <3>6. IsFiniteSet(asked') /\ Cardinality(asked') = Cardinality(asked) + 1
      BY <2>1, <2>3, FS_AddElement DEF CountInv, Finite
    <3>7. Held' = Held + 1
      BY <2>1, <3>6, CountsAreNumbers DEF Held, CountInv
    <3>8. faults = 0 => worker[w].saved = 0  BY <2>1 DEF CountInv
    <3>9. 0 \in 0 .. Length  BY <1>1
    <3>10. \A j \in 0 .. Length :
             (IF j = 0 THEN t.pc = "counting" ELSE j <= t.saved) <=> (j = 0 \/ <<w, j>> \in Pending)
      BY <3>3, <3>5
    <3>11. IsFiniteSet(rows') /\ IsFiniteSet(notices')  BY <2>1 DEF CountInv, Finite
    <3>12. QED  BY <1>1, <2>1, <3>2, <3>3, <3>4, <3>6, <3>7, <3>8, <3>9, <3>10, <3>11, OneInserted
  <2>4. QED  BY <2>2, <2>3
<1>3. CASE CountUserMessage(w)
  <2>1. worker[w].pc = "counting" /\ count' = count + 1 /\ UNCHANGED <<asked, rows, notices, faults>>
    BY <1>3 DEF CountUserMessage, At
  <2>2. PICK t \in Task : t = [worker[w] EXCEPT !.pc = "working"]  BY TaskGoesOn
  <2>3. worker' = [worker EXCEPT ![w] = t]  BY <1>3, <2>2, TaskGoesOn DEF CountUserMessage, Goto
  <2>4. t.pc = "working" /\ t.saved = worker[w].saved  BY <1>1, <2>2 DEF Task
  <2>5. 0 \in 0 .. Length  BY <1>1
  <2>6. <<w, 0>> \in Pending  BY <2>1, <2>5 DEF Pending, At
  <2>7. Cardinality({<<w, 0>>}) = 1  BY FS_Singleton
  <2>8. \A v \in Worker, j \in 0 .. Length :
          <<v, j>> \in Pending' <=> <<v, j>> \in Pending /\ <<v, j>> \notin {<<w, 0>>}
    <3>1. \A j \in 0 .. Length : <<w, j>> \in Pending <=> (j = 0 \/ j <= worker[w].saved)
      BY <2>1 DEF Pending, At
    <3>2. QED  BY <1>1, <2>3, <2>4, <3>1, PendingMoves
  <2>9. faults = 0 => worker[w].saved = 0  BY <2>1 DEF CountInv
  <2>10. {<<w, 0>>} \subseteq Pending  BY <2>6
  <2>11. QED  BY <1>1, <2>1, <2>3, <2>4, <2>7, <2>8, <2>9, <2>10, SomeCounted
<1>4. QED  BY <1>2, <1>3

\* A message of a projection goes in, unless it is there, and its worker notes
\* that it was the one.
LEMMA MessageCounts ==
  ASSUME TranscriptInv, CountInv, NEW w \in Worker, SaveMessage(w)
  PROVE  CountInv'
<1>1. /\ worker[w] \in Task /\ TypeOK /\ worker[w].pc = "inserting" /\ worker[w].run \in Run
      /\ worker[w].next \in Index /\ worker[w].saved < worker[w].next
  BY TaskGoesOn DEF SaveMessage, At, TaskSound, Applying, TranscriptInv
<1>2. PICK r \in Run, i0 \in Index : r = worker[w].run /\ i0 = worker[w].next  BY <1>1
<1> DEFINE m0 == [run |-> r, index |-> i0, leg |-> worker[w].payload]
           new == \A m \in rows : m.run # r \/ m.index # i0
           u == [worker[w] EXCEPT !.next = @ + 1, !.saved = IF new THEN @ + 1 ELSE @]
<1>3. /\ rows' = IF new THEN rows \cup {m0} ELSE rows
      /\ UNCHANGED <<count, asked, notices, faults>>
  BY <1>2 DEF SaveMessage
<1>4. worker' = [worker EXCEPT ![w] = u]  BY <1>2 DEF SaveMessage, TranscriptInv, TypeOK
<1>5. Length \in Nat  BY TranscriptAssumption DEF TranscriptAssumption
<1>6. i0 + 1 \in 1 .. Length + 1 /\ worker[w].saved \in 0 .. Length
      /\ worker[w].saved + 1 \in 1 .. Length
  BY <1>1, <1>2, <1>5 DEF Index, Task
<1>7. u \in Task
  <2>1. PICK a \in 1 .. Length + 1 : a = worker[w].next + 1  BY <1>2, <1>6
  <2>2. PICK b \in 0 .. Length : b = IF new THEN worker[w].saved + 1 ELSE worker[w].saved
    BY <1>5, <1>6
  <2>3. [worker[w] EXCEPT !.next = a, !.saved = b] \in Task
    <3>1. PICK x \in Task : x = worker[w]  BY <1>1
    <3>2. [x EXCEPT !.next = a, !.saved = b] \in Task  BY DEF Task
    <3>3. QED  BY <3>1, <3>2
  <2>4. QED  BY <2>1, <2>2, <2>3
<1>8. PICK t \in Task : t = u  BY <1>7
<1>9. t.pc = "inserting" /\ t.saved = IF new THEN worker[w].saved + 1 ELSE worker[w].saved
  BY <1>1, <1>8 DEF Task
<1>10. CASE ~new
  <2>1. rows' = rows /\ t.saved = worker[w].saved  BY <1>3, <1>9, <1>10
  <2> HIDE DEF u, new
  <2>2. QED  BY <1>1, <1>3, <1>4, <1>8, <1>9, <2>1, NothingCounted
<1>11. CASE new
  <2>1. rows' = rows \cup {m0} /\ t.saved = worker[w].saved + 1  BY <1>3, <1>9, <1>11
  <2>2. m0 \notin rows  BY <1>11
  <2> HIDE DEF u, new, m0
  <2>3. IsFiniteSet(rows') /\ Cardinality(rows') = Cardinality(rows) + 1
    BY <2>1, <2>2, FS_AddElement DEF CountInv, Finite
  <2>4. Held' = Held + 1  BY <1>3, <2>3, CountsAreNumbers DEF Held, CountInv
  <2>5. PICK i \in 1 .. Length : i = worker[w].saved + 1  BY <1>6
  <2>6. \A j \in 0 .. Length : <<w, j>> \in Pending <=> (j # 0 /\ j <= worker[w].saved)
    BY <1>1 DEF Pending, At
  <2>7. i \in 0 .. Length /\ <<w, i>> \notin Pending  BY <1>5, <1>6, <2>5, <2>6
  <2>8. \A j \in 0 .. Length :
          (IF j = 0 THEN t.pc = "counting" ELSE j <= t.saved) <=> (j = i \/ <<w, j>> \in Pending)
    BY <1>5, <1>6, <1>9, <2>1, <2>5, <2>6
  <2>9. IsFiniteSet(asked') /\ IsFiniteSet(notices')  BY <1>3 DEF CountInv, Finite
  <2>10. worker' = [worker EXCEPT ![w] = t]  BY <1>4, <1>8
  <2>11. QED  BY <1>1, <1>3, <1>9, <2>3, <2>4, <2>7, <2>8, <2>9, <2>10, OneInserted
<1>12. QED  BY <1>10, <1>11

\* What a worker inserted is added to the count in one statement.
LEMMA ProjectionCounts ==
  ASSUME TranscriptInv, CountInv, NEW w \in Worker, CountMessages(w)
  PROVE  CountInv'
<1>1. /\ worker[w] \in Task /\ TypeOK /\ worker[w].pc = "inserting" /\ Length \in Nat
      /\ count' = count + worker[w].saved /\ UNCHANGED <<asked, rows, notices, faults>>
      /\ worker' = [worker EXCEPT ![w] = [worker[w] EXCEPT !.pc = "marking", !.saved = 0]]
  BY TaskGoesOn, TranscriptAssumption
  DEF CountMessages, At, TranscriptInv, TypeOK, TranscriptAssumption
<1>2. PICK n \in 0 .. Length : n = worker[w].saved  BY <1>1 DEF Task
<1>3. [worker[w] EXCEPT !.pc = "marking", !.saved = 0] \in Task
  <2>1. 0 \in 0 .. Length  BY <1>1
  <2>2. QED  BY <1>1, <2>1 DEF Task
<1>4. PICK t \in Task : t = [worker[w] EXCEPT !.pc = "marking", !.saved = 0]  BY <1>3
<1>5. t.pc = "marking" /\ t.saved = 0  BY <1>1, <1>4 DEF Task
<1>6. worker' = [worker EXCEPT ![w] = t]  BY <1>1, <1>4
<1> DEFINE T == {w} \X (1 .. n)
<1>7. IsFiniteSet({w}) /\ Cardinality({w}) = 1  BY FS_Singleton
<1>8. n \in Nat /\ IsFiniteSet(1 .. n) /\ Cardinality(1 .. n) = n
  <2>1. n \in Nat  BY <1>1, <1>2
  <2>2. QED  BY <2>1, FS_Interval
<1>9. Cardinality(T) = n
  <2>1. Cardinality(T) = 1 * n  BY <1>7, <1>8, FS_Product
  <2>2. QED  BY <1>8, <2>1
<1>10. \A j \in 0 .. Length : <<w, j>> \in Pending <=> j \in 1 .. n
  BY <1>1, <1>2 DEF Pending, At
<1>11. T \subseteq Pending
  <2>1. ASSUME NEW x \in T PROVE x \in Pending
    <3>1. PICK j \in 1 .. n : x = <<w, j>>  OBVIOUS
    <3>2. j \in 0 .. Length  BY <1>1, <1>2
    <3>3. QED  BY <1>10, <3>1, <3>2
  <2>2. QED  BY <2>1
<1>12. \A v \in Worker, j \in 0 .. Length :
         <<v, j>> \in Pending' <=> <<v, j>> \in Pending /\ <<v, j>> \notin T
  <2>1. \A v \in Worker, j \in 0 .. Length : <<v, j>> \in T <=> v = w /\ j \in 1 .. n  OBVIOUS
  <2> HIDE DEF T
  <2>2. \A j \in 0 .. Length : <<w, j>> \notin Pending'
    <3>1. \A j \in 0 .. Length : <<w, j>> \in Pending' <=> IF j = 0 THEN t.pc = "counting" ELSE j <= t.saved
      BY <1>1, <1>6, PendingMoves
    <3>2. QED  BY <1>1, <1>5, <3>1
  <2>3. \A v \in Worker, j \in 0 .. Length : v # w => (<<v, j>> \in Pending' <=> <<v, j>> \in Pending)
    BY <1>1, <1>6, PendingMoves
  <2>4. QED  BY <1>10, <2>1, <2>2, <2>3
<1> HIDE DEF T
<1>13. count' = count + n  BY <1>1, <1>2
<1>14. QED  BY <1>1, <1>5, <1>6, <1>8, <1>9, <1>11, <1>12, <1>13, SomeCounted

\* A notice is inserted and counted in one transaction.
LEMMA NoticeCounts ==
  ASSUME TranscriptInv, CountInv, NEW w \in Worker,
         PersistWaitingNotice(w) \/ PersistFailureNotice(w)
  PROVE  CountInv'
<1>1. /\ worker[w] \in Task /\ TypeOK /\ worker[w].pc \in {"delivered", "failing"}
      /\ UNCHANGED <<asked, rows, faults>>
  BY TaskGoesOn DEF PersistWaitingNotice, PersistFailureNotice, At, TranscriptInv
<1>2. PICK pc \in {"pausing", "finishing"} : Goto(w, pc)
  BY DEF PersistWaitingNotice, PersistFailureNotice
<1>3. PICK n : /\ notices' = notices \cup {n}
               /\ count' = IF n \in notices THEN count ELSE count + 1
  BY DEF PersistWaitingNotice, PersistFailureNotice, Notice
<1>4. CASE n \in notices
  <2>1. notices' = notices /\ count' = count  BY <1>3, <1>4
  <2>2. QED  BY <1>1, <1>2, <2>1, GotoCounts
<1>5. CASE n \notin notices
  <2>1. IsFiniteSet(notices') /\ Cardinality(notices') = Cardinality(notices) + 1
    BY <1>3, <1>5, FS_AddElement DEF CountInv, Finite
  <2>2. Held' = Held + 1  BY <1>1, <2>1, CountsAreNumbers DEF Held, CountInv
  <2>3. PICK t \in Task : t = [worker[w] EXCEPT !.pc = pc]  BY TaskGoesOn
  <2>4. worker' = [worker EXCEPT ![w] = t]  BY <1>2, <2>3, TaskGoesOn DEF Goto
  <2>5. t.pc = pc /\ t.saved = worker[w].saved  BY <1>1, <2>3 DEF Task
  <2>6. faults' = 0 => worker[w].saved = 0  BY <1>1 DEF CountInv
  <2>7. IsFiniteSet(asked') /\ IsFiniteSet(rows')  BY <1>1 DEF CountInv, Finite
  <2>8. count' = count + 1  BY <1>3, <1>5
  <2>9. QED  BY <1>1, <2>1, <2>2, <2>4, <2>5, <2>6, <2>7, <2>8, BalanceStays
<1>6. QED  BY <1>4, <1>5

LEMMA CountInitially == Init => CountInv
<1> SUFFICES ASSUME Init PROVE CountInv  OBVIOUS
<1>1. \A w \in Worker : worker[w].pc = "idle" /\ worker[w].saved = 0  BY DEF Init, Idle
<1>2. Pending = {}  BY <1>1 DEF Pending, At
<1>3. IsFiniteSet({}) /\ Cardinality({}) = 0  BY FS_EmptySet
<1>4. count = 0 /\ asked = {} /\ rows = {} /\ notices = {}  BY DEF Init
<1>5. QED  BY <1>1, <1>2, <1>3, <1>4 DEF CountInv, Finite, Held

\* What runs and workers do keeps the balance.
LEMMA CountInductive == TranscriptInv /\ CountInv /\ Next => CountInv'
<1> SUFFICES ASSUME TranscriptInv, CountInv, Next PROVE CountInv'  OBVIOUS
<1>1. CASE \E w \in Worker : WorkerStep(w) \/ SaveFails(w) \/ Crash(w)
  <2>1. PICK w \in Worker : WorkerStep(w) \/ SaveFails(w) \/ Crash(w)  BY <1>1
  <2>2. CASE (\E r \in Run : SweepProjection(w, r) \/ ClaimRun(w, r)) \/ LoadProjection(w)
    BY <2>2, TaskCounts
  <2>3. CASE \/ NoPendingProjection(w) \/ NothingToClaim(w) \/ EndLoop(w) \/ DeferForProvider(w)
             \/ QueueProjection(w) \/ MarkApplied(w) \/ MarkFailed(w) \/ PauseRun(w)
             \/ CompleteRun(w) \/ FailRun(w) \/ SaveFails(w) \/ Crash(w)
    BY <2>3, QuietStepCounts
  <2>4. CASE InsertUserMessage(w) \/ CountUserMessage(w)  BY <2>4, UserMessageCounts
  <2>5. CASE SaveMessage(w)  BY <2>5, MessageCounts
  <2>6. CASE CountMessages(w)  BY <2>6, ProjectionCounts
  <2>7. CASE PersistWaitingNotice(w) \/ PersistFailureNotice(w)  BY <2>7, NoticeCounts
  <2>8. QED  BY <2>1, <2>2, <2>3, <2>4, <2>5, <2>6, <2>7 DEF WorkerStep
<1>2. CASE \E r \in Run : AnswerDecision(r) \/ ReconcileStaleRun(r)
  <2>1. UNCHANGED <<count, asked, rows, notices, worker>>
    BY <1>2 DEF AnswerDecision, ReconcileStaleRun
  <2>2. faults' = 0 => faults = 0  BY FaultsGrow DEF TranscriptInv
  <2>3. QED  BY <2>1, <2>2, CountStutters
<1>3. QED  BY <1>1, <1>2 DEF Next

\* The count of a session never runs ahead of its messages, and without a fault
\* it lags behind by exactly what living workers are about to add, however many
\* of them apply one row side by side (apply_message_projection and
\* increment_message_count, two statements that share no transaction).
THEOREM CountIsBehind == SceneSpec => []CountNeverAhead
<1> DEFINE Quiet == count = 0 /\ Pending = {} /\ Held = 0
           I == IF scene = "transcript" THEN TranscriptInv /\ CountInv ELSE Quiet
<1>1. InitScene => I
  <2>1. InitScene => Init  BY DEF InitScene
  <2>2. Init => Quiet
    <3> SUFFICES ASSUME Init PROVE Quiet  OBVIOUS
    <3>1. \A w \in Worker : worker[w].pc = "idle" /\ worker[w].saved = 0  BY DEF Init, Idle
    <3>2. Pending = {}  BY <3>1 DEF Pending, At
    <3>3. Cardinality({}) = 0  BY FS_EmptySet
    <3>4. QED  BY <3>2, <3>3 DEF Init, Held
  <2>3. QED  BY <2>1, <2>2, TranscriptInitially, CountInitially
<1>2. I /\ [NextScene]_all => I'
  <2> SUFFICES ASSUME I, [NextScene]_all PROVE I'  OBVIOUS
  <2>1. scene' = scene /\ ((scene = "transcript" /\ Next) \/ UNCHANGED transcript)
    BY OneSceneGoesOn
  <2>2. CASE scene = "transcript"
    <3>1. Next \/ UNCHANGED <<transcript, faults>>  BY <2>2 DEF NextScene, all
    <3>2. CASE Next  BY <2>1, <2>2, <3>2, TranscriptInductive, CountInductive
    <3>3. CASE UNCHANGED <<transcript, faults>>
      <4>1. UNCHANGED <<count, asked, rows, notices, worker>> /\ (faults' = 0 => faults = 0)
        BY <3>3 DEF transcript
      <4>2. QED  BY <2>1, <2>2, <3>3, <4>1, TranscriptStutters, CountStutters
    <3>4. QED  BY <3>1, <3>2, <3>3
  <2>3. CASE scene # "transcript"
    <3>1. UNCHANGED <<count, asked, rows, notices, worker>>  BY <2>1, <2>3 DEF transcript
    <3>2. Pending' = Pending /\ Held' = Held /\ count' = count  BY <3>1 DEF Pending, Held, At
    <3>3. QED  BY <2>1, <2>3, <3>2
  <2>4. QED  BY <2>2, <2>3
<1>3. I => CountNeverAhead
  <2>1. Cardinality({}) = 0  BY FS_EmptySet
  <2>2. QED  BY <2>1 DEF CountInv, CountNeverAhead
<1>4. QED  BY <1>1, <1>2, <1>3, PTL DEF SceneSpec

----------------------------------------------------------------------------
(* Proposals and the wake runs of those that were approved                 *)

WakeRow == [pc : {"none", "locking", "over"} \cup Approving!Locking,
              candidate : Approving!Candidate, day : 0 .. MaxDay,
              budget : Budgets \cup {0}, run : {"none", "active", "ended"}]

Round == [pc : {"waiting", "profiles", "inserting"}, left : SUBSET Profile,
          profile : Profile, found : SUBSET Approving!Task, new : BOOLEAN]

WakeTyped ==
  /\ setting \in [Profile -> [enabled : BOOLEAN, budget : Budgets]]
  /\ candidate \in [Approving!Candidate ->
                      [status : {"none", "discovered", "ignored", "spawned"},
                       cooling : BOOLEAN]]
  /\ approval \in [Approval -> WakeRow]
  /\ round \in Round
  /\ day \in 0 .. MaxDay

Wakes == {a \in Approval : Approving!Spawned(a)}

\* Past the count of the runs of the day, or spawned.
Counted(p, d) ==
  {a \in Approval : /\ approval[a].run # "none" \/ approval[a].pc \in {"checking", "inserting"}
                    /\ approval[a].candidate[1] = p /\ approval[a].day = d}

\* A wake run is of a candidate that is called spawned; the row of a candidate
\* that is locked does not change.
ApprovalHolds(a) == LET c == approval[a].candidate IN
  /\ approval[a].run # "none" => approval[a].pc = "over" /\ candidate[c].status = "spawned"
  /\ approval[a].pc \in Approving!Locking => candidate[c].status = "discovered"
  /\ approval[a].pc = "counting" => approval[a].budget \in Budgets

\* One wake run for a candidate, and one lock.
Apart(a, b) ==
  /\ approval[a].candidate = approval[b].candidate
  /\ \/ approval[a].run # "none" /\ approval[b].run # "none"
     \/ approval[a].pc \in Approving!Locking /\ approval[b].pc \in Approving!Locking
  => a = b

Woken(c) == \E a \in Approval : approval[a].run # "none" /\ approval[a].candidate = c

FewAtOnce ==
  /\ IsFiniteSet(Wakes) /\ IsFiniteSet(Approving!UnderWay)
  /\ Cardinality(Approving!UnderWay) <= Overlap

WithinBudget == \A p \in Profile, d \in 0 .. MaxDay : \E b \in Budgets :
  Cardinality(Counted(p, d)) + 1 <= b + Overlap

WakeInv ==
  /\ WakeTyped
  /\ \A a \in Approval : ApprovalHolds(a)
  /\ \A a, b \in Approval : Apart(a, b)
  /\ \A c \in Approving!Candidate : candidate[c].status = "spawned" => Woken(c)
  /\ FewAtOnce /\ WithinBudget

\* What a step of either scene does: an approval goes on, or it does not and
\* no candidate that is locked or spawned changes.
ApprovalGoesOn(a) ==
  \/ \E c \in Approving!Candidate : Approving!Begin(a, c)
  \/ Approving!ApprovalStep(a) \/ Approving!DropApproval(a) \/ Approving!EndRun(a)

ProposalsChange ==
  /\ round' \in Round
  /\ UNCHANGED approval
  /\ day' \in 0 .. MaxDay
  /\ setting' \in [Profile -> [enabled : BOOLEAN, budget : Budgets]]
  /\ \/ UNCHANGED candidate
     \/ \E c \in Approving!Candidate, cooling \in BOOLEAN, status \in {"discovered", "ignored"} :
          /\ candidate[c].status # "spawned" /\ ~Approving!Locked(c)
          /\ candidate' = [candidate EXCEPT ![c] = [status |-> status, cooling |-> cooling]]
     \/ \E c \in Approving!Candidate :
          candidate' = [candidate EXCEPT ![c].cooling = FALSE]

\* Both scenes of the proposals count as the module does.
LEMMA SameCount ==
  \A S : Approving!Cardinality(S) = Cardinality(S) /\ Discovering!Cardinality(S) = Cardinality(S)
BY DEF Approving!Cardinality, Discovering!Cardinality, Cardinality

\* The same action of the same module, whatever the limit of its search.
LEMMA SameApprovals ==
  ASSUME NEW a \in Approval,
         \/ \E c \in Discovering!Candidate : Discovering!Begin(a, c)
         \/ Discovering!ApprovalStep(a) \/ Discovering!DropApproval(a) \/ Discovering!EndRun(a)
  PROVE  ApprovalGoesOn(a)
<1>1. CASE \E c \in Discovering!Candidate : Discovering!Begin(a, c)
  BY <1>1, SameCount, Zenon
     DEF ApprovalGoesOn, Discovering!Begin, Approving!Begin, Discovering!At, Approving!At,
         Discovering!UnderWay, Approving!UnderWay, Discovering!Locking, Approving!Locking,
         Discovering!Candidate, Approving!Candidate, Discovering!Task, Approving!Task
<1>2. CASE Discovering!LockCandidate(a)
  BY <1>2, Zenon
     DEF ApprovalGoesOn, Approving!ApprovalStep, Discovering!LockCandidate,
         Approving!LockCandidate, Discovering!Look, Approving!Look, Discovering!At,
         Approving!At, Discovering!Goto, Approving!Goto, Discovering!Refuse, Approving!Refuse,
         Discovering!Locked, Approving!Locked, Discovering!Locking, Approving!Locking,
         Discovering!NoApproval, Approving!NoApproval,
         Discovering!Candidate, Approving!Candidate, Discovering!Task, Approving!Task
<1>3. CASE Discovering!ReadSettings(a)
  BY <1>3, Zenon
     DEF ApprovalGoesOn, Approving!ApprovalStep, Discovering!ReadSettings,
         Approving!ReadSettings, Discovering!At, Approving!At, Discovering!Refuse,
         Approving!Refuse, Discovering!Owner, Approving!Owner,
         Discovering!NoApproval, Approving!NoApproval,
         Discovering!Candidate, Approving!Candidate, Discovering!Task, Approving!Task
<1>4. CASE Discovering!CountRuns(a)
  BY <1>4, SameCount, Zenon
     DEF ApprovalGoesOn, Approving!ApprovalStep, Discovering!CountRuns, Approving!CountRuns,
         Discovering!Exhausted, Approving!Exhausted, Discovering!RunsToday,
         Approving!RunsToday, Discovering!Spawned, Approving!Spawned,
         Discovering!At, Approving!At, Discovering!Refuse,
         Approving!Refuse, Discovering!Owner, Approving!Owner,
         Discovering!NoApproval, Approving!NoApproval,
         Discovering!Candidate, Approving!Candidate, Discovering!Task, Approving!Task
<1>5. CASE Discovering!CheckTask(a)
  BY <1>5, Zenon
     DEF ApprovalGoesOn, Approving!ApprovalStep, Discovering!CheckTask, Approving!CheckTask,
         Discovering!Active, Approving!Active, Discovering!Goto, Approving!Goto,
         Discovering!At, Approving!At, Discovering!Refuse, Approving!Refuse,
         Discovering!NoApproval, Approving!NoApproval,
         Discovering!Candidate, Approving!Candidate, Discovering!Task, Approving!Task
<1>6. CASE Discovering!SpawnRun(a) \/ Discovering!EndRun(a)
  BY <1>6, Zenon
     DEF ApprovalGoesOn, Approving!ApprovalStep, Discovering!SpawnRun, Approving!SpawnRun,
         Discovering!EndRun, Approving!EndRun, Discovering!At, Approving!At
<1>7. CASE Discovering!DropApproval(a)
  BY <1>7, Zenon
     DEF ApprovalGoesOn, Discovering!DropApproval, Approving!DropApproval,
         Discovering!Refuse, Approving!Refuse, Discovering!UnderWay, Approving!UnderWay,
         Discovering!Locking, Approving!Locking, Discovering!NoApproval, Approving!NoApproval,
         Discovering!Candidate, Approving!Candidate, Discovering!Task, Approving!Task
<1>8. QED
  BY <1>1, <1>2, <1>3, <1>4, <1>5, <1>6, <1>7 DEF Discovering!ApprovalStep


\* What the coordinator and an approval are before they begin.
LEMMA InitialRows ==
  ASSUME Discovering!ProactiveAssumption
  PROVE  /\ Approving!Waiting \in Round
         /\ Approving!NoApproval \in WakeRow
         /\ Approving!NoApproval.pc = "none" /\ Approving!NoApproval.run = "none"
<1>1. PICK p \in Profile : TRUE  BY DEF Discovering!ProactiveAssumption
<1>2. Approving!Waiting \in Round
  <2>1. (CHOOSE q \in Profile : TRUE) \in Profile  BY <1>1
  <2>2. FALSE \in BOOLEAN  OBVIOUS
  <2>3. QED  BY <2>1, <2>2 DEF Approving!Waiting, Round
<1>3. <<p, NoTask>> \in Approving!Candidate  BY DEF Approving!Candidate
<1>4. (CHOOSE c \in Approving!Candidate : TRUE) \in Approving!Candidate  BY <1>3, Zenon
<1>5. 0 \in 0 .. MaxDay  BY DEF Discovering!ProactiveAssumption
<1>6. QED  BY <1>2, <1>4, <1>5 DEF Approving!NoApproval, WakeRow

\* A candidate is proposed, or proposed again.
LEMMA Surfaces ==
  ASSUME WakeInv, NEW c \in Approving!Candidate, ~Approving!Locked(c),
         Approving!Surface(c) \/ Discovering!Surface(c)
  PROVE  \/ UNCHANGED candidate
         \/ \E cooling \in BOOLEAN, status \in {"discovered", "ignored"} :
              /\ candidate[c].status # "spawned" /\ ~Approving!Locked(c)
              /\ candidate' = [candidate EXCEPT ![c] = [status |-> status, cooling |-> cooling]]
<1>1. CASE UNCHANGED candidate  BY <1>1
<1>2. CASE /\ candidate[c].status = "none" \/ candidate[c].status = "ignored"
           /\ candidate' = [candidate EXCEPT ![c] = [status |-> "discovered", cooling |-> FALSE]]
  BY <1>2
<1>3. QED
  BY <1>1, <1>2
     DEF Approving!Surface, Discovering!Surface, Approving!Insert, Discovering!Insert,
         Approving!Hidden, Discovering!Hidden

\* The coordinator's variables keep their types, one or two of them assigned.
LEMMA RoundTyped ==
  ASSUME NEW r \in Round
  PROVE  /\ [r EXCEPT !.pc = "profiles"] \in Round
         /\ \A left \in SUBSET Profile :
              /\ [r EXCEPT !.left = left] \in Round
              /\ [r EXCEPT !.pc = "profiles", !.left = left] \in Round
         /\ \A found \in SUBSET Approving!Task : \A new \in BOOLEAN :
              [r EXCEPT !.found = found, !.new = new] \in Round
<1>1. [r EXCEPT !.pc = "profiles"] \in Round  BY DEF Round
<1>2. ASSUME NEW left \in SUBSET Profile
      PROVE  /\ [r EXCEPT !.left = left] \in Round
             /\ [r EXCEPT !.pc = "profiles", !.left = left] \in Round
  BY DEF Round
<1>3. ASSUME NEW found \in SUBSET Approving!Task, NEW new \in BOOLEAN
      PROVE  [r EXCEPT !.found = found, !.new = new] \in Round
  BY DEF Round
<1>4. QED  BY <1>1, <1>2, <1>3, Zenon

\* A task is among those that the coordinator found.
LEMMA RoundMoves ==
  ASSUME Discovering!ProactiveAssumption, WakeInv, Approving!RoundStep \/ Discovering!RoundStep
  PROVE  ProposalsChange
<1>1. round \in Round  BY DEF WakeInv, WakeTyped
<1>2. UNCHANGED <<setting, approval, day>>
  BY Zenon DEF Approving!RoundStep, Approving!BeginRound, Approving!SkipProfile,
     Approving!SearchTasks, Approving!InsertCandidate, Approving!EndProfile, Approving!EndRound,
     Discovering!RoundStep, Discovering!BeginRound, Discovering!SkipProfile,
     Discovering!SearchTasks, Discovering!InsertCandidate, Discovering!EndProfile,
     Discovering!EndRound
<1>3. day' \in 0 .. MaxDay /\ setting' \in [Profile -> [enabled : BOOLEAN, budget : Budgets]]
  BY <1>2, Zenon DEF WakeInv, WakeTyped
<1>4. CASE \/ Approving!BeginRound \/ Approving!EndRound \/ Discovering!BeginRound
           \/ Discovering!EndRound
           \/ \E p \in Profile : \/ Approving!SkipProfile(p) \/ Discovering!SkipProfile(p)
                                 \/ Approving!SearchTasks(p) \/ Discovering!SearchTasks(p)
  <2>1. UNCHANGED candidate
    BY <1>4 DEF Approving!BeginRound, Approving!SkipProfile, Approving!SearchTasks,
       Approving!EndRound, Discovering!BeginRound, Discovering!SkipProfile,
       Discovering!SearchTasks, Discovering!EndRound
  <2>2. CASE Approving!EndRound \/ Discovering!EndRound
    <3>1. round' = Approving!Waiting
      BY <2>2 DEF Approving!EndRound, Discovering!EndRound, Approving!Waiting,
         Discovering!Waiting
    <3>2. round' \in Round  BY <3>1, InitialRows
    <3>3. QED  BY <1>2, <1>3, <2>1, <3>2, Zenon DEF ProposalsChange
  <2>3. CASE \/ Approving!BeginRound \/ Discovering!BeginRound
             \/ \E p \in Profile : Approving!SkipProfile(p) \/ Discovering!SkipProfile(p)
    <3>1. ASSUME Approving!BeginRound \/ Discovering!BeginRound
          PROVE  round' \in Round
      <4>1. [round EXCEPT !.pc = "profiles", !.left = {p \in Profile : setting[p].enabled}]
              \in Round
        BY <1>1, RoundTyped, Zenon
      <4>2. round' = [round EXCEPT !.pc = "profiles",
                                   !.left = {p \in Profile : setting[p].enabled}]
        BY <3>1, Zenon DEF Approving!BeginRound, Discovering!BeginRound
      <4>3. QED  BY <4>1, <4>2, Zenon
    <3>2. ASSUME \E p \in Profile : Approving!SkipProfile(p) \/ Discovering!SkipProfile(p)
          PROVE  round' \in Round
      <4>1. \A p \in Profile : round.left \ {p} \in SUBSET Profile  BY <1>1 DEF Round
      <4>2. \A p \in Profile : [round EXCEPT !.left = round.left \ {p}] \in Round
        BY <1>1, <4>1, RoundTyped, Zenon
      <4>3. \E p \in Profile : round' = [round EXCEPT !.left = round.left \ {p}]
        BY <3>2 DEF Approving!SkipProfile, Discovering!SkipProfile
      <4>4. QED  BY <4>2, <4>3, Zenon
    <3>3. round' \in Round  BY <2>3, <3>1, <3>2, Zenon
    <3>4. QED  BY <1>2, <1>3, <2>1, <3>3, Zenon DEF ProposalsChange
  <2>4. CASE \E p \in Profile : Approving!SearchTasks(p) \/ Discovering!SearchTasks(p)
    <3>1. \E p \in Profile, found \in SUBSET Approving!Task :
            round' = [pc |-> "inserting", left |-> round.left \ {p}, profile |-> p,
                      found |-> found, new |-> FALSE]
      BY <2>4 DEF Approving!SearchTasks, Discovering!SearchTasks, Approving!Searched,
         Discovering!Searched, Approving!First, Discovering!First, Approving!Task,
         Discovering!Task
    <3>2. round' \in Round  BY <1>1, <3>1 DEF Round
    <3>3. QED  BY <1>2, <1>3, <2>1, <3>2, Zenon DEF ProposalsChange
  <2>5. QED  BY <1>4, <2>2, <2>3, <2>4
<1>5. CASE \E t \in Approving!Task : Approving!InsertCandidate(t) \/ Discovering!InsertCandidate(t)
  <2>1. PICK t \in Approving!Task :
          Approving!InsertCandidate(t) \/ Discovering!InsertCandidate(t)
    BY <1>5
  <2>2. PICK new \in BOOLEAN : round' = [round EXCEPT !.found = round.found \ {t}, !.new = new]
    <3>1. \A b : (round.new \/ b) \in BOOLEAN  OBVIOUS
    <3>2. QED
      BY <2>1, <3>1, Zenon DEF Approving!InsertCandidate, Discovering!InsertCandidate
  <2>3. round' \in Round
    <3>1. round.found \ {t} \in SUBSET Approving!Task  BY <1>1 DEF Round
    <3>2. QED  BY <1>1, <2>2, <3>1, RoundTyped, Zenon
  <2>4. <<round.profile, t>> \in Approving!Candidate
    BY <1>1 DEF Round, Approving!Candidate
  <2>5. /\ ~Approving!Locked(<<round.profile, t>>)
        /\ Approving!Surface(<<round.profile, t>>) \/ Discovering!Surface(<<round.profile, t>>)
    BY <2>1 DEF Approving!InsertCandidate, Discovering!InsertCandidate, Approving!Locked,
       Discovering!Locked, Approving!Locking, Discovering!Locking
  <2>6. QED  BY <1>2, <1>3, <2>3, <2>4, <2>5, Surfaces DEF ProposalsChange
<1>6. CASE Approving!EndProfile \/ Discovering!EndProfile
  <2>1. round' = [round EXCEPT !.pc = "profiles"]
    BY <1>6 DEF Approving!EndProfile, Discovering!EndProfile
  <2>2. round' \in Round  BY <1>1, <2>1, RoundTyped, Zenon
  <2>3. <<round.profile, NoTask>> \in Approving!Candidate
    BY <1>1 DEF Round, Approving!Candidate
  <2>4. \/ UNCHANGED candidate
        \/ /\ ~Approving!Locked(<<round.profile, NoTask>>)
           /\ \/ Approving!Surface(<<round.profile, NoTask>>)
              \/ Discovering!Surface(<<round.profile, NoTask>>)
    BY <1>6 DEF Approving!EndProfile, Discovering!EndProfile, Approving!Locked,
       Discovering!Locked, Approving!Locking, Discovering!Locking
  <2>5. QED  BY <1>2, <1>3, <2>2, <2>3, <2>4, Surfaces DEF ProposalsChange
<1>7. QED
  BY <1>4, <1>5, <1>6 DEF Approving!RoundStep, Discovering!RoundStep, Approving!Task,
     Discovering!Task

\* A step of either scene is one of an approval, or leaves the approvals.
LEMMA ScenesMove ==
  ASSUME Discovering!ProactiveAssumption, WakeInv, Approving!Next \/ Discovering!Next
  PROVE  (\E a \in Approval : ApprovalGoesOn(a)) \/ ProposalsChange
<1>1. round \in Round /\ day \in 0 .. MaxDay
      /\ setting \in [Profile -> [enabled : BOOLEAN, budget : Budgets]]
  BY DEF WakeInv, WakeTyped
<1>2. CASE \/ \E a \in Approval : ApprovalGoesOn(a)
           \/ \E a \in Approval :
                \/ \E c \in Discovering!Candidate : Discovering!Begin(a, c)
                \/ Discovering!ApprovalStep(a) \/ Discovering!DropApproval(a)
                \/ Discovering!EndRun(a)
  BY <1>2, SameApprovals
<1>3. CASE \E c \in Approving!Candidate :
             Approving!IgnoreCandidate(c) \/ Discovering!IgnoreCandidate(c)
  <2>1. /\ UNCHANGED <<setting, approval, round, day>>
        /\ \E c \in Approving!Candidate :
             /\ candidate[c].status = "discovered" /\ ~Approving!Locked(c)
             /\ candidate' = [candidate EXCEPT ![c] = [status |-> "ignored", cooling |-> TRUE]]
    BY <1>3, Zenon DEF Approving!IgnoreCandidate, Discovering!IgnoreCandidate,
       Approving!Locked, Discovering!Locked, Approving!Locking, Discovering!Locking
  <2>2. QED  BY <1>1, <2>1 DEF ProposalsChange
<1>4. CASE \E c \in Approving!Candidate :
             Approving!CooldownPasses(c) \/ Discovering!CooldownPasses(c)
  BY <1>1, <1>4, Zenon DEF Approving!CooldownPasses, Discovering!CooldownPasses, ProposalsChange
<1>5. CASE \E p \in Profile : Approving!UpdateSettings(p) \/ Discovering!UpdateSettings(p)
  <2>1. PICK p \in Profile, enabled \in BOOLEAN, budget \in Budgets :
          setting' = [setting EXCEPT ![p] = [enabled |-> enabled, budget |-> budget]]
    BY <1>5 DEF Approving!UpdateSettings, Discovering!UpdateSettings
  <2>2. UNCHANGED <<candidate, approval, round, day>>
    BY <1>5 DEF Approving!UpdateSettings, Discovering!UpdateSettings
  <2>3. [enabled |-> enabled, budget |-> budget] \in [enabled : BOOLEAN, budget : Budgets]
    OBVIOUS
  <2>4. setting' \in [Profile -> [enabled : BOOLEAN, budget : Budgets]]
    BY <1>1, <2>1, <2>3
  <2>5. QED  BY <1>1, <2>2, <2>4, Zenon DEF ProposalsChange
<1>6. CASE \/ \E t \in Approving!Task : Approving!ChangeTask(t) \/ Discovering!ChangeTask(t)
           \/ Approving!RoundFails \/ Discovering!RoundFails
           \/ Approving!DayBreaks \/ Discovering!DayBreaks
  <2>1. UNCHANGED <<setting, candidate, approval>>
    BY <1>6, Zenon DEF Approving!ChangeTask, Discovering!ChangeTask, Approving!RoundFails,
       Discovering!RoundFails, Approving!DayBreaks, Discovering!DayBreaks
  <2>2. day' \in 0 .. MaxDay
    BY <1>1, <1>6 DEF Approving!ChangeTask, Discovering!ChangeTask, Approving!RoundFails,
       Discovering!RoundFails, Approving!DayBreaks, Discovering!DayBreaks,
       Discovering!ProactiveAssumption
  <2>3. round' = round \/ round' = Approving!Waiting
    BY <1>6, Zenon DEF Approving!ChangeTask, Discovering!ChangeTask, Approving!RoundFails,
       Discovering!RoundFails, Approving!DayBreaks, Discovering!DayBreaks,
       Approving!Waiting, Discovering!Waiting
  <2>4. round' \in Round  BY <1>1, <2>3, InitialRows
  <2>5. QED  BY <1>1, <2>1, <2>2, <2>4, Zenon DEF ProposalsChange
<1>7. QED
  BY <1>2, <1>3, <1>4, <1>5, <1>6, RoundMoves DEF ApprovalGoesOn, Approving!Next,
     Discovering!Next, Approving!Task, Discovering!Task, Approving!Candidate,
     Discovering!Candidate

\* An approval goes on as the row new.
GoesOnAs(a, new) ==
  /\ new \in WakeRow /\ approval' = [approval EXCEPT ![a] = new]
  /\ UNCHANGED <<setting, round, day>>
  /\ \/ /\ approval[a].pc = "none" /\ Cardinality(Approving!UnderWay) < Overlap
        /\ new.pc = "locking" /\ new.run = approval[a].run /\ UNCHANGED candidate
     \/ /\ a \in Approving!UnderWay /\ UNCHANGED candidate
        /\ new.pc = "over" /\ new.run = "none"
     \/ /\ new.candidate = approval[a].candidate /\ new.day = approval[a].day
        /\ \/ /\ new.run = approval[a].run /\ UNCHANGED candidate
              /\ \/ /\ approval[a].pc = "locking" /\ new.pc = "settings"
                    /\ candidate[approval[a].candidate].status = "discovered"
                    /\ ~Approving!Locked(approval[a].candidate)
                 \/ /\ approval[a].pc = "settings" /\ new.pc = "counting"
                    /\ new.budget \in Budgets
                 \/ /\ approval[a].pc = "counting" /\ new.pc = "checking"
                    /\ ~Approving!Exhausted(a)
                 \/ approval[a].pc = "checking" /\ new.pc = "inserting"
           \/ /\ approval[a].pc = "inserting" /\ new.pc = "over" /\ new.run = "active"
              /\ candidate' = [candidate EXCEPT ![approval[a].candidate].status = "spawned"]
           \/ /\ approval[a].run = "active" /\ new.pc = approval[a].pc /\ new.run = "ended"
              /\ new.budget = approval[a].budget /\ UNCHANGED candidate

\* A request reads, locks and writes its own row, or the one it approves.
LEMMA ApprovalMoves ==
  ASSUME Discovering!ProactiveAssumption, WakeInv, NEW a \in Approval, ApprovalGoesOn(a)
  PROVE  \E new \in WakeRow : GoesOnAs(a, new)
<1>1. /\ approval \in [Approval -> WakeRow] /\ approval[a] \in WakeRow
      /\ day \in 0 .. MaxDay
  BY DEF WakeInv, WakeTyped
<1>2. CASE \E c \in Approving!Candidate : Approving!Begin(a, c)
  <2>1. PICK c \in Approving!Candidate : Approving!Begin(a, c)  BY <1>2
  <2>2. PICK new : new = [approval[a] EXCEPT !.pc = "locking", !.candidate = c, !.day = day]
    OBVIOUS
  <2>3. new \in WakeRow /\ new.pc = "locking" /\ new.run = approval[a].run
    BY <1>1, <2>2 DEF WakeRow
  <2>4. approval' = [approval EXCEPT ![a] = new]
    BY <1>1, <2>1, <2>2 DEF Approving!Begin, WakeRow
  <2>5. QED
    BY <2>1, <2>3, <2>4, SameCount DEF Approving!Begin, Approving!At, GoesOnAs
<1>3. CASE Approving!Refuse(a) /\ UNCHANGED <<setting, candidate, round, day>>
           /\ a \in Approving!UnderWay
  <2>1. PICK new : new = [Approving!NoApproval EXCEPT !.pc = "over"]  OBVIOUS
  <2>2. new \in WakeRow /\ new.pc = "over" /\ new.run = "none"
    BY <2>1, InitialRows DEF WakeRow
  <2>3. approval' = [approval EXCEPT ![a] = new]  BY <1>3, <2>1, Zenon DEF Approving!Refuse
  <2>4. QED  BY <1>3, <2>2, <2>3 DEF GoesOnAs
<1>4. CASE Approving!LockCandidate(a)
  <2>1. CASE ~Approving!Refuse(a)
    <3>1. /\ approval[a].pc = "locking" /\ approval' = [approval EXCEPT ![a].pc = "settings"]
          /\ candidate[approval[a].candidate].status = "discovered"
          /\ ~Approving!Locked(approval[a].candidate)
          /\ UNCHANGED <<setting, candidate, round, day>>
      BY <1>4, <2>1, Zenon
         DEF Approving!LockCandidate, Approving!Look, Approving!At, Approving!Goto
    <3>2. PICK new : new = [approval[a] EXCEPT !.pc = "settings"]
      OBVIOUS
    <3>3. /\ new \in WakeRow /\ new.pc = "settings" /\ new.run = approval[a].run
          /\ new.candidate = approval[a].candidate /\ new.day = approval[a].day
      BY <1>1, <3>2 DEF WakeRow, Approving!Locking
    <3>4. approval' = [approval EXCEPT ![a] = new]  BY <1>1, <3>1, <3>2 DEF WakeRow
    <3>5. QED  BY <3>1, <3>3, <3>4 DEF GoesOnAs
  <2>2. CASE Approving!Refuse(a)
    BY <1>3, <1>4, <2>2, Zenon DEF Approving!LockCandidate, Approving!Look, Approving!At,
       Approving!UnderWay
  <2>3. QED  BY <2>1, <2>2
<1>5. CASE Approving!ReadSettings(a)
  <2>1. CASE ~Approving!Refuse(a)
    <3>1. /\ approval[a].pc = "settings"
          /\ approval' = [approval EXCEPT ![a].pc = "counting",
                                          ![a].budget = setting[approval[a].candidate[1]].budget]
          /\ UNCHANGED <<setting, candidate, round, day>>
      BY <1>5, <2>1, Zenon DEF Approving!ReadSettings, Approving!At, Approving!Owner
    <3>2. approval[a].candidate[1] \in Profile  BY <1>1 DEF WakeRow, Approving!Candidate
    <3>3. PICK budget \in Budgets : budget = setting[approval[a].candidate[1]].budget
      BY <3>2 DEF WakeInv, WakeTyped
    <3>4. PICK new : new = [approval[a] EXCEPT !.pc = "counting", !.budget = budget]
      OBVIOUS
    <3>5. /\ new \in WakeRow /\ new.pc = "counting" /\ new.budget = budget /\ new.run = approval[a].run
          /\ new.candidate = approval[a].candidate /\ new.day = approval[a].day
      BY <1>1, <3>4 DEF WakeRow, Approving!Locking
    <3>6. approval' = [approval EXCEPT ![a] = new]  BY <1>1, <3>1, <3>4, <3>3 DEF WakeRow
    <3>7. QED  BY <3>1, <3>5, <3>6 DEF GoesOnAs
  <2>2. CASE Approving!Refuse(a)
    <3>1. a \in Approving!UnderWay /\ UNCHANGED <<setting, candidate, round, day>>
      BY <1>5, <2>2 DEF Approving!ReadSettings, Approving!At, Approving!UnderWay,
         Approving!Locking
    <3>2. QED  BY <1>3, <2>2, <3>1
  <2>3. QED  BY <2>1, <2>2
<1>6. CASE Approving!CountRuns(a)
  <2>1. CASE ~Approving!Refuse(a)
    <3>1. /\ approval[a].pc = "counting" /\ ~Approving!Exhausted(a)
          /\ approval' = [approval EXCEPT ![a].pc = "checking", ![a].budget = 0]
          /\ UNCHANGED <<setting, candidate, round, day>>
      BY <1>6, <2>1, Zenon DEF Approving!CountRuns, Approving!At
    <3>2. PICK new : new = [approval[a] EXCEPT !.pc = "checking", !.budget = 0]
      OBVIOUS
    <3>3. /\ new \in WakeRow /\ new.pc = "checking" /\ new.run = approval[a].run
          /\ new.candidate = approval[a].candidate /\ new.day = approval[a].day
      BY <1>1, <3>2 DEF WakeRow, Approving!Locking
    <3>4. approval' = [approval EXCEPT ![a] = new]  BY <1>1, <3>1, <3>2 DEF WakeRow
    <3>5. QED  BY <3>1, <3>3, <3>4 DEF GoesOnAs
  <2>2. CASE Approving!Refuse(a)
    <3>1. a \in Approving!UnderWay /\ UNCHANGED <<setting, candidate, round, day>>
      BY <1>6, <2>2 DEF Approving!CountRuns, Approving!At, Approving!UnderWay,
         Approving!Locking
    <3>2. QED  BY <1>3, <2>2, <3>1
  <2>3. QED  BY <2>1, <2>2
<1>7. CASE Approving!CheckTask(a)
  <2>1. CASE ~Approving!Refuse(a)
    <3>1. /\ approval[a].pc = "checking"
          /\ approval' = [approval EXCEPT ![a].pc = "inserting"]
          /\ UNCHANGED <<setting, candidate, round, day>>
      BY <1>7, <2>1, Zenon DEF Approving!CheckTask, Approving!At, Approving!Goto
    <3>2. PICK new : new = [approval[a] EXCEPT !.pc = "inserting"]
      OBVIOUS
    <3>3. /\ new \in WakeRow /\ new.pc = "inserting" /\ new.run = approval[a].run
          /\ new.candidate = approval[a].candidate /\ new.day = approval[a].day
      BY <1>1, <3>2 DEF WakeRow, Approving!Locking
    <3>4. approval' = [approval EXCEPT ![a] = new]  BY <1>1, <3>1, <3>2 DEF WakeRow
    <3>5. QED  BY <3>1, <3>3, <3>4 DEF GoesOnAs
  <2>2. CASE Approving!Refuse(a)
    <3>1. a \in Approving!UnderWay /\ UNCHANGED <<setting, candidate, round, day>>
      BY <1>7, <2>2 DEF Approving!CheckTask, Approving!At, Approving!UnderWay,
         Approving!Locking
    <3>2. QED  BY <1>3, <2>2, <3>1
  <2>3. QED  BY <2>1, <2>2
<1>8. CASE Approving!SpawnRun(a)
  <2>1. PICK new : new = [approval[a] EXCEPT !.pc = "over", !.run = "active"]  OBVIOUS
  <2>2. /\ new \in WakeRow /\ new.pc = "over" /\ new.run = "active"
        /\ new.candidate = approval[a].candidate /\ new.day = approval[a].day
    BY <1>1, <2>1 DEF WakeRow
  <2>3. approval' = [approval EXCEPT ![a] = new]
    BY <1>1, <1>8, <2>1 DEF Approving!SpawnRun, WakeRow
  <2>4. /\ approval[a].pc = "inserting" /\ UNCHANGED <<setting, round, day>>
        /\ candidate' = [candidate EXCEPT ![approval[a].candidate].status = "spawned"]
    BY <1>8, Zenon DEF Approving!SpawnRun, Approving!At
  <2>5. QED  BY <2>2, <2>3, <2>4 DEF GoesOnAs
<1>9. CASE Approving!EndRun(a)
  <2>1. PICK new : new = [approval[a] EXCEPT !.run = "ended"]  OBVIOUS
  <2>2. /\ new \in WakeRow /\ new.pc = approval[a].pc /\ new.run = "ended"
        /\ new.candidate = approval[a].candidate /\ new.day = approval[a].day
        /\ new.budget = approval[a].budget
    BY <1>1, <2>1 DEF WakeRow
  <2>3. approval' = [approval EXCEPT ![a] = new]
    BY <1>1, <1>9, <2>1 DEF Approving!EndRun, WakeRow
  <2>4. approval[a].run = "active" /\ UNCHANGED <<setting, candidate, round, day>>
    BY <1>9 DEF Approving!EndRun
  <2>5. QED  BY <2>2, <2>3, <2>4 DEF GoesOnAs
<1>10. CASE Approving!DropApproval(a)
  BY <1>3, <1>10 DEF Approving!DropApproval
<1>11. QED
  BY <1>2, <1>4, <1>5, <1>6, <1>7, <1>8, <1>9, <1>10
     DEF ApprovalGoesOn, Approving!ApprovalStep

\* The approvals counted for an agent and a day are under way or have their run.
LEMMA CountedIsFinite ==
  ASSUME FewAtOnce, NEW p, NEW d
  PROVE  IsFiniteSet(Counted(p, d)) /\ Cardinality(Counted(p, d)) \in Nat
<1>1. IsFiniteSet(Wakes \cup Approving!UnderWay)  BY FS_Union DEF FewAtOnce
<1>2. Counted(p, d) \subseteq Wakes \cup Approving!UnderWay
  BY DEF Counted, Wakes, Approving!Spawned, Approving!UnderWay, Approving!Locking
<1>3. IsFiniteSet(Counted(p, d))  BY <1>1, <1>2, FS_Subset
<1>4. QED  BY <1>3, FS_CardinalityType

\* As long as nothing is added to them, the budget is kept.
LEMMA BudgetStays ==
  ASSUME Discovering!ProactiveAssumption, FewAtOnce, WithinBudget,
         \A p \in Profile, d \in 0 .. MaxDay : Counted(p, d)' \subseteq Counted(p, d)
  PROVE  WithinBudget'
<1> SUFFICES ASSUME NEW p \in Profile, NEW d \in 0 .. MaxDay
             PROVE  \E b \in Budgets : Cardinality(Counted(p, d)') + 1 <= b + Overlap
  BY DEF WithinBudget
<1>1. PICK b \in Budgets : Cardinality(Counted(p, d)) + 1 <= b + Overlap  BY DEF WithinBudget
<1>2. /\ Cardinality(Counted(p, d)') \in Nat /\ Cardinality(Counted(p, d)) \in Nat
      /\ Cardinality(Counted(p, d)') <= Cardinality(Counted(p, d))
  BY CountedIsFinite, FS_Subset, FS_CardinalityType
<1>3. b \in Nat /\ Overlap \in Nat  BY DEF Discovering!ProactiveAssumption
<1>4. QED  BY <1>1, <1>2, <1>3

\* The approvals under way, and those with a run, after one has gone on.
LEMMA FewStay ==
  ASSUME Discovering!ProactiveAssumption, WakeInv, NEW a \in Approval, NEW new, GoesOnAs(a, new)
  PROVE  FewAtOnce'
<1>1. /\ approval \in [Approval -> WakeRow]
      /\ IsFiniteSet(Wakes) /\ IsFiniteSet(Approving!UnderWay)
      /\ Cardinality(Approving!UnderWay) <= Overlap
  BY DEF WakeInv, WakeTyped, FewAtOnce
<1>2. IsFiniteSet(Wakes')
  <2>1. Wakes' \subseteq Wakes \cup {a}
    BY <1>1 DEF Wakes, Approving!Spawned, GoesOnAs
  <2>2. QED  BY <1>1, <2>1, FS_AddElement, FS_Subset
<1>3. CASE approval[a].pc = "none" /\ Cardinality(Approving!UnderWay) < Overlap
  <2>1. Approving!UnderWay' \subseteq Approving!UnderWay \cup {a}
    BY <1>1 DEF Approving!UnderWay, GoesOnAs
  <2>2. /\ IsFiniteSet(Approving!UnderWay \cup {a})
        /\ Cardinality(Approving!UnderWay \cup {a}) <= Cardinality(Approving!UnderWay) + 1
        /\ Cardinality(Approving!UnderWay) \in Nat
    <3>1. Cardinality(Approving!UnderWay) \in Nat  BY <1>1, FS_CardinalityType
    <3>2. /\ IsFiniteSet(Approving!UnderWay \cup {a})
          /\ Cardinality(Approving!UnderWay \cup {a}) \in
               {Cardinality(Approving!UnderWay), Cardinality(Approving!UnderWay) + 1}
      BY <1>1, FS_AddElement
    <3>3. QED  BY <3>1, <3>2
  <2>3. /\ IsFiniteSet(Approving!UnderWay')
        /\ Cardinality(Approving!UnderWay') <= Cardinality(Approving!UnderWay \cup {a})
        /\ Cardinality(Approving!UnderWay') \in Nat
        /\ Cardinality(Approving!UnderWay \cup {a}) \in Nat
    BY <2>1, <2>2, FS_Subset, FS_CardinalityType
  <2>4. QED  BY <1>2, <1>3, <2>2, <2>3 DEF FewAtOnce, Discovering!ProactiveAssumption
<1>4. CASE ~(approval[a].pc = "none" /\ Cardinality(Approving!UnderWay) < Overlap)
  <2>1. Approving!UnderWay' \subseteq Approving!UnderWay
    BY <1>1, <1>4 DEF Approving!UnderWay, Approving!Locking, GoesOnAs
  <2>2. /\ IsFiniteSet(Approving!UnderWay')
        /\ Cardinality(Approving!UnderWay') <= Cardinality(Approving!UnderWay)
        /\ Cardinality(Approving!UnderWay') \in Nat /\ Cardinality(Approving!UnderWay) \in Nat
    BY <1>1, <2>1, FS_Subset, FS_CardinalityType
  <2>3. QED  BY <1>1, <1>2, <2>2 DEF FewAtOnce, Discovering!ProactiveAssumption
<1>5. QED  BY <1>3, <1>4

\* The count of the runs of the day is below the budget, and what it misses is
\* under way.
LEMMA BudgetGoesOn ==
  ASSUME Discovering!ProactiveAssumption, WakeInv, NEW a \in Approval, NEW new, GoesOnAs(a, new)
  PROVE  WithinBudget'
<1>1. /\ approval \in [Approval -> WakeRow] /\ approval[a] \in WakeRow
      /\ FewAtOnce /\ WithinBudget /\ ApprovalHolds(a)
  BY DEF WakeInv, WakeTyped
<1>2. CASE ~(approval[a].pc = "counting" /\ new.pc = "checking")
  <2>1. \A p \in Profile, d \in 0 .. MaxDay : Counted(p, d)' \subseteq Counted(p, d)
    BY <1>1, <1>2 DEF Counted, GoesOnAs, ApprovalHolds
  <2>2. QED  BY <1>1, <2>1, BudgetStays
<1>3. CASE approval[a].pc = "counting" /\ new.pc = "checking" /\ ~Approving!Exhausted(a)
  <2> SUFFICES ASSUME NEW p \in Profile, NEW d \in 0 .. MaxDay
               PROVE  \E b \in Budgets : Cardinality(Counted(p, d)') + 1 <= b + Overlap
    BY DEF WithinBudget
  <2>1. /\ new.candidate = approval[a].candidate /\ new.day = approval[a].day
        /\ approval' = [approval EXCEPT ![a] = new]
    BY <1>3 DEF GoesOnAs
  <2>2. CASE approval[a].candidate[1] = p /\ approval[a].day = d
    <3> DEFINE b == approval[a].budget
               R == Approving!RunsToday(p, d)
               U == Approving!UnderWay
    <3>1. b \in Budgets /\ b \in Nat /\ Overlap \in Nat
      BY <1>1, <1>3 DEF ApprovalHolds, Discovering!ProactiveAssumption
    <3>2. IsFiniteSet(R) /\ IsFiniteSet(U) /\ Cardinality(U) <= Overlap
      <4>1. R \subseteq Wakes  BY DEF Approving!RunsToday, Wakes
      <4>2. QED  BY <1>1, <4>1, FS_Subset DEF FewAtOnce
    <3>3. Cardinality(R) \in Nat /\ Cardinality(U) \in Nat /\ Cardinality(R) < b
      <4>1. Cardinality(R) \in Nat /\ Cardinality(U) \in Nat  BY <3>2, FS_CardinalityType
      <4>2. ~(Cardinality(R) >= b)
        BY <1>3, <2>2, SameCount DEF Approving!Exhausted, Approving!Owner
      <4>3. QED  BY <3>1, <4>1, <4>2
    <3>4. Counted(p, d)' \subseteq R \cup U
      <4> SUFFICES ASSUME NEW x \in Approval, x \in Counted(p, d)' PROVE x \in R \cup U
        BY DEF Counted
      <4>1. CASE x = a
        BY <1>3, <4>1 DEF Approving!UnderWay, Approving!Locking
      <4>2. CASE x # a
        <5>1. approval'[x] = approval[x]  BY <1>1, <2>1, <4>2
        <5>2. QED
          BY <5>1 DEF Counted, Approving!RunsToday, Approving!Spawned, Approving!Owner,
             Approving!UnderWay, Approving!Locking
      <4>3. QED  BY <4>1, <4>2
    <3>5. /\ IsFiniteSet(R \cup U) /\ Cardinality(R \cup U) \in Nat
          /\ Cardinality(R \cup U) <= Cardinality(R) + Cardinality(U)
      <4>1. /\ IsFiniteSet(R \cup U)
            /\ Cardinality(R \cup U) = Cardinality(R) + Cardinality(U) - Cardinality(R \cap U)
        BY <3>2, FS_Union
      <4>2. Cardinality(R \cap U) \in Nat
        BY <3>2, FS_Intersection, FS_CardinalityType
      <4>3. Cardinality(R \cup U) \in Nat  BY <4>1, FS_CardinalityType
      <4>4. QED  BY <3>3, <4>1, <4>2, <4>3
    <3>6. /\ Cardinality(Counted(p, d)') <= Cardinality(R \cup U)
          /\ Cardinality(Counted(p, d)') \in Nat
      BY <3>4, <3>5, FS_Subset, FS_CardinalityType
    <3> HIDE DEF b, R, U
    <3>7. Cardinality(Counted(p, d)') + 1 <= b + Overlap
      BY <3>1, <3>2, <3>3, <3>5, <3>6
    <3>8. QED  BY <3>1, <3>7
  <2>3. CASE ~(approval[a].candidate[1] = p /\ approval[a].day = d)
    <3>1. Counted(p, d)' \subseteq Counted(p, d)
      BY <1>1, <2>1, <2>3 DEF Counted
    <3>2. PICK b \in Budgets : Cardinality(Counted(p, d)) + 1 <= b + Overlap
      BY <1>1 DEF WithinBudget
    <3>3. /\ Cardinality(Counted(p, d)') \in Nat /\ Cardinality(Counted(p, d)) \in Nat
          /\ Cardinality(Counted(p, d)') <= Cardinality(Counted(p, d))
      BY <1>1, <3>1, CountedIsFinite, FS_Subset, FS_CardinalityType
    <3>4. b \in Nat /\ Overlap \in Nat  BY DEF Discovering!ProactiveAssumption
    <3>5. QED  BY <3>2, <3>3, <3>4
  <2>4. QED  BY <2>2, <2>3
<1>4. QED  BY <1>2, <1>3 DEF GoesOnAs

\* The rows of the candidates and of the requests agree after the step, too.
LEMMA RowsGoOn ==
  ASSUME WakeInv, NEW a \in Approval, NEW new, GoesOnAs(a, new)
  PROVE  /\ WakeTyped'
         /\ \A x \in Approval : ApprovalHolds(x)'
         /\ \A x, y \in Approval : Apart(x, y)'
         /\ \A c \in Approving!Candidate : candidate'[c].status = "spawned" => Woken(c)'
<1>1. /\ approval \in [Approval -> WakeRow] /\ approval[a] \in WakeRow
      /\ new \in WakeRow /\ approval' = [approval EXCEPT ![a] = new]
      /\ approval'[a] = new /\ \A x \in Approval \ {a} : approval'[x] = approval[x]
      /\ UNCHANGED <<setting, round, day>>
  BY DEF WakeInv, WakeTyped, GoesOnAs
<1>2. /\ candidate \in [Approving!Candidate ->
                          [status : {"none", "discovered", "ignored", "spawned"},
                           cooling : BOOLEAN]]
      /\ \A x \in Approval : approval[x].candidate \in Approving!Candidate
      /\ \A x \in Approval : ApprovalHolds(x)
      /\ \A x, y \in Approval : Apart(x, y)
      /\ \A c \in Approving!Candidate : candidate[c].status = "spawned" => Woken(c)
  BY DEF WakeInv, WakeTyped, WakeRow
<1>3. approval' \in [Approval -> WakeRow]  BY <1>1
<1>4. CASE candidate' = candidate
  <2>1. WakeTyped'  BY <1>1, <1>2, <1>3, <1>4 DEF WakeTyped, WakeInv
  <2>2. \A x \in Approval : ApprovalHolds(x)'
    BY <1>1, <1>2, <1>4 DEF ApprovalHolds, GoesOnAs, Approving!Locking, Approving!UnderWay
  <2>3. \A x, y \in Approval : Apart(x, y)'
    BY <1>1, <1>2, <1>4 DEF Apart, ApprovalHolds, GoesOnAs, Approving!Locking, Approving!Locked,
       Approving!UnderWay
  <2>4. \A c \in Approving!Candidate : candidate'[c].status = "spawned" => Woken(c)'
    BY <1>1, <1>2, <1>4 DEF Woken, GoesOnAs, ApprovalHolds, Approving!UnderWay, Approving!Locking
  <2>5. QED  BY <2>1, <2>2, <2>3, <2>4
<1>5. CASE /\ approval[a].pc = "inserting" /\ new.pc = "over" /\ new.run = "active"
           /\ new.candidate = approval[a].candidate
           /\ candidate' = [candidate EXCEPT ![approval[a].candidate].status = "spawned"]
  <2>1. PICK k : k = approval[a].candidate  OBVIOUS
  <2>2. /\ k \in Approving!Candidate /\ candidate[k].status = "discovered"
        /\ \A x \in Approval : approval[x].candidate = k => approval[x].run = "none"
        /\ \A x \in Approval \ {a} : approval[x].candidate = k =>
                                       approval[x].pc \notin Approving!Locking
    BY <1>2, <1>5, <2>1 DEF ApprovalHolds, Apart, Approving!Locking
  <2>3. PICK row : row = [candidate[k] EXCEPT !.status = "spawned"]  OBVIOUS
  <2>4. /\ row \in [status : {"none", "discovered", "ignored", "spawned"}, cooling : BOOLEAN]
        /\ row.status = "spawned"
    BY <1>2, <2>2, <2>3
  <2>5. candidate' = [candidate EXCEPT ![k] = row]  BY <1>2, <1>5, <2>1, <2>2, <2>3
  <2>6. WakeTyped'  BY <1>1, <1>2, <1>3, <2>4, <2>5 DEF WakeTyped, WakeInv
  <2>7. \A x \in Approval : ApprovalHolds(x)'
    BY <1>1, <1>2, <1>5, <2>1, <2>2, <2>4, <2>5 DEF ApprovalHolds, Approving!Locking
  <2>8. \A x, y \in Approval : Apart(x, y)'
    BY <1>1, <1>2, <1>5, <2>1, <2>2 DEF Apart, Approving!Locking
  <2>9. \A c \in Approving!Candidate : candidate'[c].status = "spawned" => Woken(c)'
    BY <1>1, <1>2, <1>5, <2>1, <2>2, <2>5 DEF Woken
  <2>10. QED  BY <2>6, <2>7, <2>8, <2>9
<1>6. QED  BY <1>4, <1>5 DEF GoesOnAs

\* The settings, proposals and time change, but no candidate that is locked or
\* has its run.
LEMMA ProposalsKeep ==
  ASSUME Discovering!ProactiveAssumption, WakeInv, ProposalsChange
  PROVE  WakeInv'
<1>1. /\ approval' = approval /\ approval \in [Approval -> WakeRow]
      /\ candidate \in [Approving!Candidate ->
                          [status : {"none", "discovered", "ignored", "spawned"},
                           cooling : BOOLEAN]]
      /\ \A x \in Approval : approval[x].candidate \in Approving!Candidate
      /\ \A x \in Approval : ApprovalHolds(x)
      /\ \A x, y \in Approval : Apart(x, y)
      /\ \A c \in Approving!Candidate : candidate[c].status = "spawned" => Woken(c)
      /\ FewAtOnce /\ WithinBudget
  BY DEF WakeInv, WakeTyped, WakeRow, ProposalsChange
<1>2. FewAtOnce'
  BY <1>1 DEF FewAtOnce, Wakes, Approving!Spawned, Approving!UnderWay
<1>3. WithinBudget'
  <2>1. \A p \in Profile, d \in 0 .. MaxDay : Counted(p, d)' \subseteq Counted(p, d)
    BY <1>1 DEF Counted
  <2>2. QED  BY <1>1, <2>1, BudgetStays
<1>4. (\A x, y \in Approval : Apart(x, y)')  BY <1>1 DEF Apart
<1>5. /\ candidate' \in [Approving!Candidate ->
                           [status : {"none", "discovered", "ignored", "spawned"},
                            cooling : BOOLEAN]]
      /\ \A c \in Approving!Candidate :
           /\ candidate[c].status = "spawned" \/ Approving!Locked(c)
                => candidate'[c].status = candidate[c].status
           /\ candidate'[c].status = "spawned" => candidate[c].status = "spawned"
  <2>1. CASE candidate' = candidate  BY <1>1, <2>1
  <2>2. CASE \E c \in Approving!Candidate, cooling \in BOOLEAN,
                status \in {"discovered", "ignored"} :
               /\ candidate[c].status # "spawned" /\ ~Approving!Locked(c)
               /\ candidate' = [candidate EXCEPT ![c] = [status |-> status, cooling |-> cooling]]
    <3>1. PICK c \in Approving!Candidate, cooling \in BOOLEAN,
               status \in {"discovered", "ignored"} :
            /\ candidate[c].status # "spawned" /\ ~Approving!Locked(c)
            /\ candidate' = [candidate EXCEPT ![c] = [status |-> status, cooling |-> cooling]]
      BY <2>2
    <3>2. [status |-> status, cooling |-> cooling] \in
            [status : {"none", "discovered", "ignored", "spawned"}, cooling : BOOLEAN]
      OBVIOUS
    <3>3. QED  BY <1>1, <3>1, <3>2
  <2>3. CASE \E c \in Approving!Candidate :
               candidate' = [candidate EXCEPT ![c].cooling = FALSE]
    <3>1. PICK c \in Approving!Candidate : candidate' = [candidate EXCEPT ![c].cooling = FALSE]
      BY <2>3
    <3>2. PICK row : row = [candidate[c] EXCEPT !.cooling = FALSE]  OBVIOUS
    <3>3. /\ row \in [status : {"none", "discovered", "ignored", "spawned"}, cooling : BOOLEAN]
          /\ row.status = candidate[c].status
      BY <1>1, <3>2
    <3>4. candidate' = [candidate EXCEPT ![c] = row]  BY <1>1, <3>1, <3>2
    <3>5. QED  BY <1>1, <3>3, <3>4
  <2>4. QED  BY <2>1, <2>2, <2>3 DEF ProposalsChange
<1>6. WakeTyped'
  BY <1>1, <1>5, Zenon DEF WakeTyped, ProposalsChange
<1>7. \A x \in Approval : ApprovalHolds(x)'
  BY <1>1, <1>5 DEF ApprovalHolds, Approving!Locked
<1>8. \A c \in Approving!Candidate : candidate'[c].status = "spawned" => Woken(c)'
  BY <1>1, <1>5 DEF Woken
<1>9. QED  BY <1>2, <1>3, <1>4, <1>6, <1>7, <1>8 DEF WakeInv

\* What users, requests and the coordinator do keeps the invariant.
LEMMA WakeInductive ==
  ASSUME Discovering!ProactiveAssumption, WakeInv, Approving!Next \/ Discovering!Next
  PROVE  WakeInv'
<1>1. CASE \E a \in Approval : ApprovalGoesOn(a)
  <2>1. PICK a \in Approval : ApprovalGoesOn(a)  BY <1>1
  <2>2. PICK new \in WakeRow : GoesOnAs(a, new)  BY <2>1, ApprovalMoves
  <2>3. QED  BY <2>2, FewStay, BudgetGoesOn, RowsGoOn DEF WakeInv
<1>2. CASE ProposalsChange  BY <1>2, ProposalsKeep
<1>3. QED  BY <1>1, <1>2, ScenesMove

\* Nothing is proposed, and no run has been woken.
LEMMA WakesInitially == Discovering!ProactiveAssumption /\ Discovering!Init => WakeInv
<1> SUFFICES ASSUME Discovering!ProactiveAssumption, Discovering!Init PROVE WakeInv
  OBVIOUS
<1>1. /\ setting \in [Profile -> [enabled : {TRUE}, budget : Budgets]]
      /\ candidate = [c \in Approving!Candidate |-> [status |-> "none", cooling |-> FALSE]]
      /\ approval = [a \in Approval |-> Approving!NoApproval]
      /\ round = Approving!Waiting /\ day = 0
  BY Zenon DEF Discovering!Init, Discovering!Candidate, Approving!Candidate, Discovering!Task,
     Approving!Task, Discovering!NoApproval, Approving!NoApproval, Discovering!Waiting,
     Approving!Waiting
<1>2. \A a \in Approval : /\ approval[a] \in WakeRow
                          /\ approval[a].pc = "none" /\ approval[a].run = "none"
  BY <1>1, InitialRows
<1>3. WakeTyped
  <2>1. approval \in [Approval -> WakeRow] /\ round \in Round  BY <1>1, InitialRows
  <2>2. day \in 0 .. MaxDay  BY <1>1 DEF Discovering!ProactiveAssumption
  <2>3. [status |-> "none", cooling |-> FALSE] \in
          [status : {"none", "discovered", "ignored", "spawned"}, cooling : BOOLEAN]
    OBVIOUS
  <2>4. [enabled : {TRUE}, budget : Budgets] \subseteq [enabled : BOOLEAN, budget : Budgets]
    OBVIOUS
  <2>5. setting \in [Profile -> [enabled : BOOLEAN, budget : Budgets]]  BY <1>1, <2>4
  <2>6. QED  BY <1>1, <2>1, <2>2, <2>3, <2>5 DEF WakeTyped
<1>4. Wakes = {} /\ Approving!UnderWay = {} /\ \A p, d : Counted(p, d) = {}
  BY <1>2 DEF Wakes, Approving!Spawned, Approving!UnderWay, Approving!Locking, Counted
<1>5. FewAtOnce  BY <1>4, FS_EmptySet DEF FewAtOnce, Discovering!ProactiveAssumption
<1>6. WithinBudget
  <2>1. PICK p \in Profile : TRUE  BY DEF Discovering!ProactiveAssumption
  <2>2. setting[p].budget \in Budgets  BY <1>3 DEF WakeTyped
  <2>3. \A b \in Budgets : 0 + 1 <= b + Overlap  BY DEF Discovering!ProactiveAssumption
  <2>4. QED  BY <1>4, <2>2, <2>3, FS_EmptySet DEF WithinBudget
<1>7. (\A a \in Approval : ApprovalHolds(a)) /\ \A a, b \in Approval : Apart(a, b)
  BY <1>2 DEF ApprovalHolds, Apart, Approving!Locking
<1>8. \A c \in Approving!Candidate : candidate[c].status # "spawned"  BY <1>1
<1>9. QED  BY <1>3, <1>5, <1>6, <1>7, <1>8 DEF WakeInv

\* One wake run for each approved candidate, and a day within its budget.
LEMMA WakeInvSuffices ==
  ASSUME Discovering!ProactiveAssumption, WakeInv
  PROVE  WakesAreApproved
<1>1. ASSUME NEW c \in Approving!Candidate
      PROVE  Cardinality({a \in Approval : Approving!Spawned(a) /\ approval[a].candidate = c})
               = IF candidate[c].status = "spawned" THEN 1 ELSE 0
  <2> DEFINE S == {a \in Approval : Approving!Spawned(a) /\ approval[a].candidate = c}
  <2>1. CASE candidate[c].status = "spawned"
    <3>1. PICK x \in Approval : approval[x].run # "none" /\ approval[x].candidate = c
      BY <2>1 DEF WakeInv, Woken
    <3>2. S = {x}  BY <3>1 DEF WakeInv, Apart, Approving!Spawned
    <3>3. Cardinality(S) = 1  BY <3>2, FS_Singleton
    <3>4. QED  BY <2>1, <3>3
  <2>2. CASE candidate[c].status # "spawned"
    <3>1. S = {}  BY <2>2 DEF WakeInv, ApprovalHolds, Approving!Spawned
    <3>2. Cardinality(S) = 0  BY <3>1, FS_EmptySet
    <3>3. QED  BY <2>2, <3>2
  <2>3. QED  BY <2>1, <2>2
<1>2. ASSUME NEW p \in Profile, NEW d \in 0 .. MaxDay
      PROVE  \E b \in Budgets :
               Cardinality({a \in Approving!RunsToday(p, d) : approval[a].day = d}) + 1
                 <= b + Overlap
  <2> DEFINE S == {a \in Approving!RunsToday(p, d) : approval[a].day = d}
  <2>1. PICK b \in Budgets : Cardinality(Counted(p, d)) + 1 <= b + Overlap
    BY DEF WakeInv, WithinBudget
  <2>2. S \subseteq Counted(p, d)
    BY DEF Approving!RunsToday, Approving!Spawned, Approving!Owner, Counted
  <2>3. IsFiniteSet(Counted(p, d)) /\ Cardinality(Counted(p, d)) \in Nat
    BY CountedIsFinite DEF WakeInv
  <2>4. Cardinality(S) \in Nat /\ Cardinality(S) <= Cardinality(Counted(p, d))
    BY <2>2, <2>3, FS_Subset, FS_CardinalityType
  <2>5. b \in Nat /\ Overlap \in Nat  BY DEF Discovering!ProactiveAssumption
  <2>6. Cardinality(S) + 1 <= b + Overlap  BY <2>1, <2>3, <2>4, <2>5
  <2>7. QED  BY <2>6
<1>3. QED  BY <1>1, <1>2, SameCount DEF WakesAreApproved, Approving!WakesAreApproved

\* The scenes of the proposals keep their invariant, the others touch none of it.
LEMMA WakesHold == SceneSpec => []WakeInv
<1>1. InitScene => WakeInv  BY WakesInitially, SceneAssumption DEF InitScene, SceneAssumption
<1>2. WakeInv /\ [NextScene]_all => WakeInv'
  <2> SUFFICES ASSUME WakeInv, [NextScene]_all PROVE WakeInv'  OBVIOUS
  <2>1. CASE Approving!Next \/ Discovering!Next
    BY <2>1, WakeInductive, SceneAssumption DEF SceneAssumption
  <2>2. CASE UNCHANGED proactive
    <3>1. ProposalsChange  BY <2>2, Zenon DEF proactive, WakeInv, WakeTyped, ProposalsChange
    <3>2. QED  BY <3>1, ProposalsKeep, SceneAssumption DEF SceneAssumption
  <2>3. QED  BY <2>1, <2>2, OneSceneGoesOn
<1>3. QED  BY <1>1, <1>2, PTL DEF SceneSpec

\* approve_candidate locks the row of its candidate, and counts the runs of the
\* day without a lock: whatever requests, users and the coordinator do side by
\* side, a candidate that was approved has one wake run, and the runs of a day
\* exceed the budget by less than the approvals that overlap.
THEOREM WakesAreWithinBounds == SceneSpec => []WakesAreApproved
<1>1. WakeInv => WakesAreApproved  BY WakeInvSuffices, SceneAssumption DEF SceneAssumption
<1>2. QED  BY <1>1, WakesHold, PTL

----------------------------------------------------------------------------
(* Memories inferred from the session                                      *)

\* Every message from here on was written while extraction was on.
OnFrom(from) == \A m \in Extraction!Message : m >= from => message[m] \in {"none", "on"}

\* A range of messages was read at a revision of the cursor and one of the
\* settings; as long as either is the one of today, and extraction is on, it
\* was on for all of the range.
RangeSafe(range) == range.first # 0 =>
  /\ range.conversation <= cursor.revision \/ (settings.enabled /\ range.conversation <= 1)
  /\ range.settings <= settings.revision
  /\ settings.enabled /\ cursor.revision <= range.conversation => OnFrom(range.first)
  /\ settings.enabled /\ settings.revision = range.settings => OnFrom(range.first)

Ranged(range) ==
  range.first # 0 /\ range.first <= range.last /\ range.last <= Extraction!Tail

\* A worker has claimed a batch.
Claimed == {"checking", "creating", "skipping", "releasing"}

TaskSafe(t) ==
  /\ RangeSafe(t.row)
  /\ t.pc = "reading" => t.row.first # 0 /\ t.row.first <= Extraction!Tail
  /\ t.pc \notin {"idle", "reading", "claiming"} => Ranged(t.row)
  /\ t.pc \in Claimed => t.batch \in Extraction!Batch /\ t.row.first <= t.next

BatchSafe(b) == RangeSafe(batch[b]) /\ (batch[b].state # "none" => Ranged(batch[b]))

\* The row of that batch is never removed.
HasRow(t) == t.pc \in Claimed => batch[t.batch].state # "none"

\* The messages are numbered without a gap.
MessagesInTurn ==
  /\ Extraction!Tail \in 0 .. MaxMessages
  /\ \A m \in Extraction!Message : message[m] # "none" <=> m <= Extraction!Tail

ExtractionInv ==
  /\ Extraction!TypeOK /\ MessagesInTurn
  /\ cursor.last <= Extraction!Tail
  /\ settings.enabled => OnFrom(cursor.last + 1)
  /\ \A b \in Extraction!Batch : BatchSafe(b)
  /\ \A w \in ExtractionWorker : TaskSafe(extractor[w]) /\ HasRow(extractor[w])
  /\ Extraction!NoBackfill

\* How many messages there are, when they are numbered from 1.
LEMMA TailIs ==
  ASSUME NEW f, NEW n \in Nat, {m \in Extraction!Message : f[m] # "none"} = 1 .. n
  PROVE  Cardinality({m \in Extraction!Message : f[m] # "none"}) = n
<1>1. Cardinality(1 .. n) = n  BY FS_Interval
<1>2. QED  BY <1>1, Zenon

\* The instance counts as the module does.
LEMMA ExtractionCount == \A S : Extraction!Cardinality(S) = Cardinality(S)
BY DEF Extraction!Cardinality, Cardinality

\* Nothing that a range is compared with has changed.
LEMMA RangesStay ==
  ASSUME UNCHANGED <<settings, message, cursor>>
  PROVE  /\ Extraction!Tail' = Extraction!Tail
         /\ \A r : OnFrom(r)' = OnFrom(r)
         /\ \A r : RangeSafe(r)' = RangeSafe(r) /\ Ranged(r)' = Ranged(r)
         /\ \A t : TaskSafe(t)' = TaskSafe(t)
<1>1. Extraction!Tail' = Extraction!Tail  BY DEF Extraction!Tail
<1>2. \A r : OnFrom(r)' = OnFrom(r)  BY DEF OnFrom
<1>3. \A r : RangeSafe(r)' = RangeSafe(r)  BY <1>2, Zenon DEF RangeSafe
<1>4. \A r : Ranged(r)' = Ranged(r)  BY <1>1, Zenon DEF Ranged
<1>5. \A t : TaskSafe(t)' = TaskSafe(t)  BY <1>1, <1>3, <1>4, Zenon DEF TaskSafe
<1>6. QED  BY <1>1, <1>2, <1>3, <1>4, <1>5

\* A worker goes on, and one batch perhaps, or a memory is stored.
LEMMA ExtractorMoves ==
  ASSUME ExtractionInv, UNCHANGED <<settings, message, cursor, forgotten>>,
         NEW w \in ExtractionWorker, NEW new \in Extraction!Task, TaskSafe(new),
         extractor' = [extractor EXCEPT ![w] = new],
         batch' \in [Extraction!Batch -> Extraction!BatchRow],
         \A b \in Extraction!Batch :
           BatchSafe(b)' /\ (batch[b].state # "none" => batch'[b].state # "none"),
         HasRow(new)',
         inferred' \subseteq [batch : Extraction!Batch, message : Extraction!Message],
         Extraction!NoBackfill', faults' \in 0 .. MaxFaults
  PROVE  ExtractionInv'
<1>1. Extraction!TypeOK'  BY DEF ExtractionInv, Extraction!TypeOK
<1>2. MessagesInTurn'  BY RangesStay DEF ExtractionInv, MessagesInTurn
<1>3. ASSUME NEW x \in ExtractionWorker PROVE TaskSafe(extractor[x])' /\ HasRow(extractor[x])'
  <2>1. PICK t : t = extractor'[x]  OBVIOUS
  <2>2. t = new \/ t = extractor[x]  BY <2>1 DEF ExtractionInv, Extraction!TypeOK
  <2>3. TaskSafe(t)  BY <2>2 DEF ExtractionInv
  <2>4. TaskSafe(t)'  BY <2>3, RangesStay
  <2>5. HasRow(t)'
    <3>1. CASE t = new  BY <3>1
    <3>2. CASE t = extractor[x]
      <4>1. TaskSafe(t) /\ HasRow(t)  BY <3>2 DEF ExtractionInv
      <4>2. QED  BY <4>1 DEF TaskSafe, HasRow
    <3>3. QED  BY <2>2, <3>1, <3>2
  <2>6. QED  BY <2>1, <2>4, <2>5 DEF HasRow
<1>4. QED  BY <1>1, <1>2, <1>3, RangesStay DEF ExtractionInv

\* What a worker holds.
LEMMA TaskIs ==
  ASSUME ExtractionInv, NEW w \in ExtractionWorker
  PROVE  /\ extractor[w] \in Extraction!Task
         /\ TaskSafe(extractor[w]) /\ HasRow(extractor[w])
         /\ extractor[w].row \in Extraction!BatchRow
BY DEF ExtractionInv, Extraction!TypeOK, Extraction!Task

\* What a worker holds when it rests.
LEMMA RestingTasks ==
  ASSUME Extraction!MemoryExtractionAssumption,
         NEW t \in {Extraction!Idle, [Extraction!Idle EXCEPT !.pc = "claiming"]}
  PROVE  t \in Extraction!Task /\ TaskSafe(t) /\ t.pc \notin Claimed
<1>1. Extraction!NoRow \in Extraction!BatchRow /\ Extraction!NoRow.first = 0
  BY DEF Extraction!MemoryExtractionAssumption, Extraction!NoRow, Extraction!BatchRow
<1>2. Extraction!Idle \in Extraction!Task
  BY <1>1 DEF Extraction!MemoryExtractionAssumption, Extraction!Idle, Extraction!Task
<1>3. t \in Extraction!Task /\ t.pc \in {"idle", "claiming"} /\ t.row = Extraction!NoRow
  BY <1>2 DEF Extraction!Idle, Extraction!Task
<1>4. QED  BY <1>1, <1>3 DEF TaskSafe, RangeSafe, Claimed

\* The row of a batch gets another state.
LEMMA StateIs ==
  ASSUME NEW row \in Extraction!BatchRow,
         NEW state \in {"queued", "processing", "failed", "committed", "skipped"}
  PROVE  /\ [row EXCEPT !.state = state] \in Extraction!BatchRow
         /\ [row EXCEPT !.state = state].state = state
         /\ RangeSafe([row EXCEPT !.state = state]) = RangeSafe(row)
         /\ Ranged([row EXCEPT !.state = state]) = Ranged(row)
         /\ [row EXCEPT !.state = state].first = row.first
<1>1. PICK new : new = [row EXCEPT !.state = state]  OBVIOUS
<1>2. /\ new \in Extraction!BatchRow /\ new.state = state
      /\ new.first = row.first /\ new.last = row.last
      /\ new.conversation = row.conversation /\ new.settings = row.settings
  BY <1>1 DEF Extraction!BatchRow, Extraction!Open
<1>3. RangeSafe(new) = RangeSafe(row)  BY <1>2, Zenon DEF RangeSafe
<1>4. Ranged(new) = Ranged(row)  BY <1>2, Zenon DEF Ranged
<1>5. QED  BY <1>1, <1>2, <1>3, <1>4

\* A worker goes on, and the row of one batch changes.
LEMMA BatchMoves ==
  ASSUME ExtractionInv, UNCHANGED <<settings, message, cursor, inferred, forgotten>>,
         NEW w \in ExtractionWorker, NEW new \in Extraction!Task, TaskSafe(new),
         extractor' = [extractor EXCEPT ![w] = new],
         NEW b, NEW row \in Extraction!BatchRow, RangeSafe(row), Ranged(row),
         row.state # "none", new.pc \in Claimed => new.batch = b,
         batch' = [batch EXCEPT ![b] = row], faults' \in 0 .. MaxFaults
  PROVE  ExtractionInv'
<1>1. batch' \in [Extraction!Batch -> Extraction!BatchRow]
  BY DEF ExtractionInv, Extraction!TypeOK
<1>2. ASSUME NEW x \in Extraction!Batch
      PROVE  BatchSafe(x)' /\ (batch[x].state # "none" => batch'[x].state # "none")
  <2>1. PICK r : r = batch'[x]  OBVIOUS
  <2>2. r = row \/ r = batch[x]  BY <2>1 DEF ExtractionInv, Extraction!TypeOK
  <2>3. RangeSafe(r) /\ (r.state # "none" => Ranged(r))
    BY <2>2 DEF ExtractionInv, BatchSafe
  <2>4. RangeSafe(r)' /\ (r.state # "none" => Ranged(r)')  BY <2>3, RangesStay
  <2>5. BatchSafe(x)'  BY <2>1, <2>4 DEF BatchSafe
  <2>6. QED  BY <2>1, <2>2, <2>5
<1>3. HasRow(new)'
  BY DEF HasRow, TaskSafe, ExtractionInv, Extraction!TypeOK
<1>4. /\ Extraction!NoBackfill'
      /\ inferred' \subseteq [batch : Extraction!Batch, message : Extraction!Message]
  BY DEF ExtractionInv, Extraction!NoBackfill, Extraction!TypeOK
<1>5. QED  BY <1>1, <1>2, <1>3, <1>4, ExtractorMoves

\* A worker goes on, and nothing else changes.
LEMMA OnlyExtractorMoves ==
  ASSUME ExtractionInv, UNCHANGED <<settings, message, cursor, batch, inferred, forgotten>>,
         NEW w \in ExtractionWorker, NEW new \in Extraction!Task, TaskSafe(new),
         extractor' = [extractor EXCEPT ![w] = new], HasRow(new), faults' \in 0 .. MaxFaults
  PROVE  ExtractionInv'
<1>1. /\ batch' \in [Extraction!Batch -> Extraction!BatchRow]
      /\ Extraction!NoBackfill'
      /\ inferred' \subseteq [batch : Extraction!Batch, message : Extraction!Message]
  BY DEF ExtractionInv, Extraction!TypeOK, Extraction!NoBackfill
<1>2. ASSUME NEW x \in Extraction!Batch PROVE BatchSafe(x)'
  <2>1. BatchSafe(x)  BY DEF ExtractionInv
  <2>2. QED  BY <2>1, RangesStay DEF BatchSafe
<1>3. HasRow(new)'  BY DEF HasRow
<1>4. QED  BY <1>1, <1>2, <1>3, ExtractorMoves

\* The session is read: there are messages behind the cursor, all written while
\* extraction was on.
LEMMA ReadSessionStep ==
  ASSUME Extraction!MemoryExtractionAssumption, ExtractionInv,
         NEW w \in ExtractionWorker, Extraction!ReadSession(w)
  PROVE  ExtractionInv'
<1>1. /\ settings.enabled /\ Extraction!Tail > cursor.last
      /\ UNCHANGED <<settings, message, cursor, batch, inferred, forgotten, faults>>
  BY DEF Extraction!ReadSession, Extraction!Waiting, Extraction!store
<1>2. /\ Extraction!Tail \in 0 .. MaxMessages /\ cursor.last \in Nat /\ cursor.revision \in Nat
      /\ settings.revision \in Nat /\ OnFrom(cursor.last + 1) /\ MaxMessages \in Nat
  BY <1>1 DEF ExtractionInv, MessagesInTurn, Extraction!TypeOK,
     Extraction!MemoryExtractionAssumption
<1>3. PICK conversation \in Nat :
        conversation = IF cursor.revision = 0 THEN 1 ELSE cursor.revision
  BY <1>2
<1>4. PICK row : row = [Extraction!NoRow EXCEPT !.first = cursor.last + 1,
                          !.conversation = conversation, !.settings = settings.revision]
  OBVIOUS
<1>5. /\ row.first = cursor.last + 1 /\ row.last = 0 /\ row.conversation = conversation
      /\ row.settings = settings.revision /\ row \in Extraction!BatchRow
  <2>1. row = [state |-> "none", first |-> cursor.last + 1, last |-> 0,
               conversation |-> conversation, settings |-> settings.revision]
    BY <1>4 DEF Extraction!NoRow
  <2>2. cursor.last + 1 \in 0 .. MaxMessages /\ 0 \in 0 .. MaxMessages  BY <1>1, <1>2
  <2>3. QED  BY <1>2, <2>1, <2>2 DEF Extraction!BatchRow
<1>6. RangeSafe(row)
  BY <1>1, <1>2, <1>3, <1>5 DEF RangeSafe
<1>7. PICK new : new = [extractor[w] EXCEPT !.pc = "reading", !.row = row]  OBVIOUS
<1>8. new \in Extraction!Task /\ new.pc = "reading" /\ new.row = row
  BY <1>5, <1>7, TaskIs DEF Extraction!Task
<1>9. extractor' = [extractor EXCEPT ![w] = new]
  BY <1>3, <1>4, <1>7 DEF Extraction!ReadSession, ExtractionInv, Extraction!TypeOK,
     Extraction!Task
<1>10. TaskSafe(new) /\ HasRow(new)
  BY <1>1, <1>2, <1>5, <1>6, <1>8 DEF TaskSafe, HasRow, Claimed
<1>11. faults' \in 0 .. MaxFaults  BY <1>1 DEF ExtractionInv, Extraction!TypeOK
<1>12. QED  BY <1>1, <1>8, <1>9, <1>10, <1>11, OnlyExtractorMoves

\* The range ends with the last message, or before.
LEMMA ReadMessagesStep ==
  ASSUME Extraction!MemoryExtractionAssumption, ExtractionInv,
         NEW w \in ExtractionWorker, Extraction!ReadMessages(w)
  PROVE  ExtractionInv'
<1>1. /\ extractor[w].pc = "reading"
      /\ UNCHANGED <<settings, message, cursor, batch, inferred, forgotten, faults>>
  BY DEF Extraction!ReadMessages, Extraction!store, Extraction!At
<1>2. /\ extractor[w] \in Extraction!Task /\ TaskSafe(extractor[w])
      /\ extractor[w].row \in Extraction!BatchRow
  BY TaskIs
<1>3. PICK row : row = extractor[w].row  OBVIOUS
<1>4. /\ row \in Extraction!BatchRow /\ RangeSafe(row)
      /\ row.first # 0 /\ row.first <= Extraction!Tail
  BY <1>1, <1>2, <1>3 DEF TaskSafe
<1>5. row.first \in Nat /\ Extraction!Tail \in 0 .. MaxMessages /\ BatchSize \in Nat \ {0}
      /\ MaxMessages \in Nat
  BY <1>4 DEF ExtractionInv, MessagesInTurn, Extraction!BatchRow,
     Extraction!MemoryExtractionAssumption
<1>6. PICK last : last = IF Extraction!Tail < row.first + BatchSize - 1
                         THEN Extraction!Tail ELSE row.first + BatchSize - 1
  OBVIOUS
<1>7. last \in 0 .. MaxMessages /\ row.first <= last /\ last <= Extraction!Tail
  BY <1>4, <1>5, <1>6
<1>8. PICK to : to = [row EXCEPT !.last = last]  OBVIOUS
<1>9. /\ to \in Extraction!BatchRow /\ to.first = row.first /\ to.last = last
      /\ to.conversation = row.conversation /\ to.settings = row.settings
  BY <1>4, <1>7, <1>8 DEF Extraction!BatchRow
<1>10. RangeSafe(to) /\ Ranged(to)
  BY <1>4, <1>7, <1>9, Zenon DEF RangeSafe, Ranged
<1>11. PICK new : new = [extractor[w] EXCEPT !.pc = "inserting", !.row = to]  OBVIOUS
<1>12. new \in Extraction!Task /\ new.pc = "inserting" /\ new.row = to
  BY <1>2, <1>9, <1>11 DEF Extraction!Task
<1>13. extractor' = [extractor EXCEPT ![w] = new]
  BY <1>2, <1>3, <1>6, <1>8, <1>11
     DEF Extraction!ReadMessages, ExtractionInv, Extraction!TypeOK, Extraction!Task
<1>14. TaskSafe(new) /\ HasRow(new)  BY <1>10, <1>12 DEF TaskSafe, HasRow, Claimed
<1>15. faults' \in 0 .. MaxFaults  BY <1>1 DEF ExtractionInv, Extraction!TypeOK
<1>16. QED  BY <1>1, <1>12, <1>13, <1>14, <1>15, OnlyExtractorMoves

\* The batch of that range is inserted, if it is not known.
LEMMA InsertBatchStep ==
  ASSUME Extraction!MemoryExtractionAssumption, ExtractionInv,
         NEW w \in ExtractionWorker, Extraction!InsertBatch(w)
  PROVE  ExtractionInv'
<1>1. PICK new : new = [Extraction!Idle EXCEPT !.pc = "claiming"]  OBVIOUS
<1>2. /\ new \in Extraction!Task /\ TaskSafe(new) /\ new.pc \notin Claimed
      /\ extractor' = [extractor EXCEPT ![w] = new]
  BY <1>1, RestingTasks, Zenon DEF Extraction!InsertBatch, Extraction!Rest
<1>3. HasRow(new)  BY <1>2 DEF HasRow
<1>4. /\ extractor[w].pc = "inserting"
      /\ UNCHANGED <<settings, message, cursor, inferred, forgotten, faults>>
  BY DEF Extraction!InsertBatch, Extraction!At
<1>5. extractor[w].row \in Extraction!BatchRow /\ RangeSafe(extractor[w].row)
      /\ Ranged(extractor[w].row)
  BY <1>4, TaskIs DEF TaskSafe, Claimed
<1>6. faults' \in 0 .. MaxFaults  BY <1>4 DEF ExtractionInv, Extraction!TypeOK
<1>7. CASE batch' = batch  BY <1>2, <1>4, <1>6, <1>7, <1>3, OnlyExtractorMoves
<1>8. CASE batch' # batch
  <2>1. PICK row : row = [extractor[w].row EXCEPT !.state = "queued"]  OBVIOUS
  <2>2. row \in Extraction!BatchRow /\ RangeSafe(row) /\ Ranged(row) /\ row.state = "queued"
    BY <1>5, <2>1, StateIs
  <2>3. batch' = [batch EXCEPT ![Extraction!Rows + 1] = row]
    BY <1>8, <2>1, Zenon DEF Extraction!InsertBatch
  <2>4. QED  BY <1>2, <1>4, <1>6, <2>2, <2>3, BatchMoves
<1>9. QED  BY <1>7, <1>8

\* A batch is claimed, whoever had it.
LEMMA ClaimBatchStep ==
  ASSUME Extraction!MemoryExtractionAssumption, ExtractionInv,
         NEW w \in ExtractionWorker, NEW b \in Extraction!Batch, Extraction!ClaimBatch(w, b)
  PROVE  ExtractionInv'
<1>1. /\ batch[b].state \in Extraction!Open
      /\ batch' = [batch EXCEPT ![b].state = "processing"]
      /\ extractor' = [extractor EXCEPT ![w] = [pc |-> "checking", batch |-> b,
                                                row |-> batch'[b], next |-> batch[b].first]]
      /\ UNCHANGED <<settings, message, cursor, inferred, forgotten>>
      /\ faults' = faults \/ (faults < MaxFaults /\ faults' = faults + 1)
  BY DEF Extraction!ClaimBatch, Extraction!Fault
<1>2. batch \in [Extraction!Batch -> Extraction!BatchRow] /\ batch[b] \in Extraction!BatchRow
      /\ faults \in 0 .. MaxFaults /\ MaxFaults \in Nat /\ MaxMessages \in Nat
      /\ MaxBatches \in Nat
  BY DEF ExtractionInv, Extraction!TypeOK, Extraction!MemoryExtractionAssumption
<1>3. RangeSafe(batch[b]) /\ Ranged(batch[b])
  BY <1>1 DEF ExtractionInv, BatchSafe, Extraction!Open
<1>4. PICK row : row = [batch[b] EXCEPT !.state = "processing"]  OBVIOUS
<1>5. /\ row \in Extraction!BatchRow /\ RangeSafe(row) /\ Ranged(row)
      /\ row.first = batch[b].first /\ row.state = "processing"
  BY <1>2, <1>3, <1>4, StateIs
<1>6. batch' = [batch EXCEPT ![b] = row] /\ batch'[b] = row  BY <1>1, <1>2, <1>4
<1>7. PICK new : new = [pc |-> "checking", batch |-> b, row |-> row, next |-> row.first]
  OBVIOUS
<1>8. extractor' = [extractor EXCEPT ![w] = new]  BY <1>1, <1>5, <1>6, <1>7
<1>9. row.first \in 0 .. MaxMessages + 1 /\ b \in 0 .. MaxBatches /\ row.first <= row.first
  BY <1>2, <1>5 DEF Extraction!BatchRow, Extraction!Batch
<1>10. new \in Extraction!Task  BY <1>5, <1>7, <1>9 DEF Extraction!Task
<1>11. TaskSafe(new) /\ new.batch = b  BY <1>5, <1>7, <1>9 DEF TaskSafe
<1>12. faults' \in 0 .. MaxFaults  BY <1>1, <1>2
<1>13. UNCHANGED <<settings, message, cursor, inferred, forgotten>>  BY <1>1
<1>14. batch' = [batch EXCEPT ![b] = row]  BY <1>6
<1>15. QED  BY <1>5, <1>8, <1>10, <1>11, <1>12, <1>13, <1>14, BatchMoves

\* A worker goes on with what it knows, after it has claimed its batch.
LEMMA ClaimedGoesOn ==
  ASSUME Extraction!MemoryExtractionAssumption, ExtractionInv, NEW w \in ExtractionWorker,
         extractor[w].pc \in Claimed, NEW new \in Extraction!Task, new.pc \in Claimed,
         new.row = extractor[w].row, new.batch = extractor[w].batch,
         extractor[w].next <= new.next
  PROVE  TaskSafe(new) /\ HasRow(new)
<1>1. /\ extractor[w] \in Extraction!Task /\ TaskSafe(extractor[w]) /\ HasRow(extractor[w])
      /\ extractor[w].row \in Extraction!BatchRow
  BY TaskIs
<1>2. extractor[w].row.first \in Nat /\ extractor[w].next \in Nat /\ new.next \in Nat
  BY <1>1 DEF Extraction!Task, Extraction!BatchRow, Extraction!MemoryExtractionAssumption
<1>3. extractor[w].row.first <= new.next  BY <1>1, <1>2 DEF TaskSafe
<1>4. QED  BY <1>1, <1>3 DEF TaskSafe, HasRow, Claimed

\* The settings are compared with those of the batch; a candidate is refused.
LEMMA CheckStep ==
  ASSUME Extraction!MemoryExtractionAssumption, ExtractionInv, NEW w \in ExtractionWorker,
         extractor[w].pc \in Claimed,
         NEW pc \in {"creating", "skipping", "releasing"}, Extraction!Goto(w, pc),
         UNCHANGED <<settings, message, cursor, batch, inferred, forgotten>>,
         faults' \in 0 .. MaxFaults
  PROVE  ExtractionInv'
<1>1. PICK new : new = [extractor[w] EXCEPT !.pc = pc]  OBVIOUS
<1>2. /\ new \in Extraction!Task /\ new.pc = pc /\ new.row = extractor[w].row
      /\ new.batch = extractor[w].batch /\ new.next = extractor[w].next
      /\ extractor[w].next \in Nat
  BY <1>1, TaskIs DEF Extraction!Task, Extraction!MemoryExtractionAssumption
<1>3. extractor[w].next <= new.next  BY <1>2
<1>4. extractor' = [extractor EXCEPT ![w] = new]
  BY <1>1 DEF Extraction!Goto, ExtractionInv, Extraction!TypeOK
<1>5. TaskSafe(new) /\ HasRow(new)  BY <1>2, <1>3, ClaimedGoesOn DEF Claimed
<1>6. QED  BY <1>2, <1>4, <1>5, OnlyExtractorMoves

\* A memory is created while the settings are those of its batch, from a message
\* of the range.
LEMMA CreateMemoryStep ==
  ASSUME Extraction!MemoryExtractionAssumption, ExtractionInv,
         NEW w \in ExtractionWorker, Extraction!CreateMemory(w)
  PROVE  ExtractionInv'
<1>1. /\ extractor[w].pc = "creating" /\ extractor[w].next <= extractor[w].row.last
      /\ UNCHANGED <<settings, message, cursor, batch, forgotten, faults>>
  BY DEF Extraction!CreateMemory, Extraction!At
<1>2. faults' \in 0 .. MaxFaults  BY <1>1 DEF ExtractionInv, Extraction!TypeOK
<1>3. CASE ~Extraction!Admitted(w)
  BY <1>1, <1>2, <1>3, CheckStep DEF Extraction!CreateMemory, Claimed
<1>4. CASE Extraction!Admitted(w)
  <2>1. PICK t : t = extractor[w]  OBVIOUS
  <2>2. /\ t \in Extraction!Task /\ TaskSafe(t) /\ t.row \in Extraction!BatchRow
    BY <2>1, TaskIs
  <2>3. /\ t.pc = "creating" /\ t.next <= t.row.last /\ Ranged(t.row) /\ RangeSafe(t.row)
        /\ t.batch \in Extraction!Batch /\ t.row.first <= t.next
    BY <1>1, <2>1, <2>2 DEF TaskSafe, Claimed
  <2>4. /\ t.next \in Nat /\ t.row.last \in 0 .. MaxMessages /\ t.row.first \in Nat
        /\ MaxMessages \in Nat /\ t.row.first # 0
        /\ Extraction!Tail \in 0 .. MaxMessages /\ t.row.last <= Extraction!Tail
    BY <2>2, <2>3 DEF Extraction!Task, Extraction!BatchRow, Ranged, ExtractionInv,
       MessagesInTurn, Extraction!MemoryExtractionAssumption
  <2>5. /\ t.next \in Extraction!Message /\ t.next + 1 \in 0 .. MaxMessages + 1
        /\ t.next <= t.next + 1 /\ t.next <= Extraction!Tail
    BY <2>3, <2>4 DEF Extraction!Message
  <2>6. settings.enabled /\ settings.revision = t.row.settings
    BY <1>4, <2>1 DEF Extraction!Admitted
  <2>7. OnFrom(t.row.first)  BY <2>3, <2>4, <2>6 DEF RangeSafe
  <2>8. message[t.next] = "on"
    <3>1. message[t.next] \in {"none", "on"}  BY <2>3, <2>5, <2>7 DEF OnFrom
    <3>2. message[t.next] # "none"  BY <2>5 DEF ExtractionInv, MessagesInTurn
    <3>3. QED  BY <3>1, <3>2
  <2>9. PICK row : row = [batch |-> t.batch, message |-> t.next]  OBVIOUS
  <2>10. inferred' = inferred \cup {row}
    BY <1>4, <2>1, <2>9, Zenon DEF Extraction!CreateMemory
  <2>11. inferred' \subseteq [batch : Extraction!Batch, message : Extraction!Message]
    BY <2>3, <2>5, <2>9, <2>10 DEF ExtractionInv, Extraction!TypeOK
  <2>12. Extraction!NoBackfill'
    BY <1>1, <2>8, <2>9, <2>10 DEF ExtractionInv, Extraction!NoBackfill
  <2>13. PICK new : new = [t EXCEPT !.next = t.next + 1]  OBVIOUS
  <2>14. /\ new \in Extraction!Task /\ new.pc = "creating" /\ new.row = t.row
         /\ new.batch = t.batch /\ new.next = t.next + 1
    BY <2>2, <2>3, <2>5, <2>13 DEF Extraction!Task
  <2>15. TaskSafe(new) /\ HasRow(new)
    BY <1>1, <2>1, <2>5, <2>14, ClaimedGoesOn DEF Claimed
  <2>16. HasRow(new)'  BY <1>1, <2>15 DEF HasRow
  <2>17. extractor' = [extractor EXCEPT ![w] = new]
    BY <1>4, <2>1, <2>13 DEF Extraction!CreateMemory, ExtractionInv, Extraction!TypeOK
  <2>18. batch' \in [Extraction!Batch -> Extraction!BatchRow]
    BY <1>1 DEF ExtractionInv, Extraction!TypeOK
  <2>19. ASSUME NEW x \in Extraction!Batch
         PROVE  BatchSafe(x)' /\ (batch[x].state # "none" => batch'[x].state # "none")
    <3>1. BatchSafe(x)  BY DEF ExtractionInv
    <3>2. QED  BY <1>1, <3>1, RangesStay DEF BatchSafe
  <2>20. QED
    BY <1>1, <1>2, <2>11, <2>12, <2>14, <2>15, <2>16, <2>17, <2>18, <2>19, ExtractorMoves
<1>5. QED  BY <1>3, <1>4

\* A batch whose candidate was refused is open again, whatever has become of it.
LEMMA ReleaseBatchStep ==
  ASSUME Extraction!MemoryExtractionAssumption, ExtractionInv,
         NEW w \in ExtractionWorker, Extraction!ReleaseFailedBatch(w)
  PROVE  ExtractionInv'
<1>1. /\ extractor[w].pc = "releasing"
      /\ UNCHANGED <<settings, message, cursor, inferred, forgotten, faults>>
  BY DEF Extraction!ReleaseFailedBatch, Extraction!At
<1>2. PICK b : b = extractor[w].batch  OBVIOUS
<1>3. b \in Extraction!Batch /\ batch[b].state # "none"
  BY <1>1, <1>2, TaskIs DEF TaskSafe, HasRow, Claimed
<1>4. batch \in [Extraction!Batch -> Extraction!BatchRow] /\ batch[b] \in Extraction!BatchRow
      /\ RangeSafe(batch[b]) /\ Ranged(batch[b]) /\ faults \in 0 .. MaxFaults
  BY <1>3 DEF ExtractionInv, BatchSafe, Extraction!TypeOK
<1>5. PICK row : row = [batch[b] EXCEPT !.state = "failed"]  OBVIOUS
<1>6. row \in Extraction!BatchRow /\ RangeSafe(row) /\ Ranged(row) /\ row.state = "failed"
  BY <1>4, <1>5, StateIs
<1>7. batch' = [batch EXCEPT ![b] = row]
  BY <1>2, <1>4, <1>5 DEF Extraction!ReleaseFailedBatch
<1>8. PICK new : new = [Extraction!Idle EXCEPT !.pc = "claiming"]  OBVIOUS
<1>9. /\ new \in Extraction!Task /\ TaskSafe(new) /\ new.pc \notin Claimed
      /\ extractor' = [extractor EXCEPT ![w] = new]
  BY <1>8, RestingTasks, Zenon DEF Extraction!ReleaseFailedBatch, Extraction!Rest
<1>10. QED  BY <1>1, <1>4, <1>6, <1>7, <1>9, BatchMoves

\* What ranges are compared with goes on, batches are closed, and workers rest
\* or go on as they are.
LEMMA StoreGoesOn ==
  ASSUME Extraction!MemoryExtractionAssumption, ExtractionInv,
         Extraction!TypeOK', MessagesInTurn', Extraction!NoBackfill',
         Extraction!Tail <= Extraction!Tail', cursor'.last <= Extraction!Tail',
         settings'.enabled => OnFrom(cursor.last + 1)',
         \A r \in Extraction!BatchRow : RangeSafe(r) => RangeSafe(r)',
         \A b \in Extraction!Batch : \/ batch'[b] = batch[b]
                                     \/ /\ batch[b].state # "none"
                                        /\ \E state \in {"skipped", "committed"} :
                                             batch'[b] = [batch[b] EXCEPT !.state = state],
         \A w \in ExtractionWorker :
           extractor'[w] \in {extractor[w], [Extraction!Idle EXCEPT !.pc = "claiming"]}
  PROVE  ExtractionInv'
<1>1. Extraction!Tail \in Nat /\ Extraction!Tail' \in Nat
  BY DEF ExtractionInv, MessagesInTurn, Extraction!MemoryExtractionAssumption
<1>2. \A r \in Extraction!BatchRow : Ranged(r) => Ranged(r)'
  BY <1>1 DEF Ranged, Extraction!BatchRow, Extraction!MemoryExtractionAssumption
<1>3. ASSUME NEW b \in Extraction!Batch
      PROVE  BatchSafe(b)' /\ (batch[b].state # "none" => batch'[b].state # "none")
  <2>1. batch[b] \in Extraction!BatchRow /\ BatchSafe(b)
    BY DEF ExtractionInv, Extraction!TypeOK
  <2>2. PICK r : r = batch'[b]  OBVIOUS
  <2>3. /\ r \in Extraction!BatchRow /\ RangeSafe(r) /\ (r.state # "none" => Ranged(r))
        /\ batch[b].state # "none" => r.state # "none"
    <3>1. CASE r = batch[b]  BY <2>1, <3>1 DEF BatchSafe
    <3>2. CASE r # batch[b]
      <4>1. PICK state \in {"skipped", "committed"} :
              batch[b].state # "none" /\ r = [batch[b] EXCEPT !.state = state]
        BY <2>2, <3>2
      <4>2. RangeSafe(batch[b]) /\ Ranged(batch[b])  BY <2>1, <4>1 DEF BatchSafe
      <4>3. PICK old : old = batch[b]  OBVIOUS
      <4>4. state \in {"queued", "processing", "failed", "committed", "skipped"}  OBVIOUS
      <4>5. /\ old \in Extraction!BatchRow /\ RangeSafe(old) /\ Ranged(old)
            /\ r = [old EXCEPT !.state = state]
        BY <2>1, <4>1, <4>2, <4>3
      <4>6. r \in Extraction!BatchRow /\ RangeSafe(r) /\ Ranged(r) /\ r.state = state
        BY <4>4, <4>5, StateIs
      <4>7. QED  BY <4>6
    <3>3. QED  BY <3>1, <3>2
  <2>4. RangeSafe(r)' /\ (r.state # "none" => Ranged(r)')  BY <1>2, <2>3
  <2>5. BatchSafe(b)'  BY <2>2, <2>4 DEF BatchSafe
  <2>6. QED  BY <2>2, <2>3, <2>5
<1>4. ASSUME NEW w \in ExtractionWorker PROVE TaskSafe(extractor[w])' /\ HasRow(extractor[w])'
  <2>1. PICK t : t = extractor'[w]  OBVIOUS
  <2>2. t \in Extraction!Task /\ t.row \in Extraction!BatchRow /\ TaskSafe(t) /\ HasRow(t)
    <3>1. t = extractor[w] \/ t = [Extraction!Idle EXCEPT !.pc = "claiming"]  BY <2>1
    <3>2. t \in Extraction!Task /\ TaskSafe(t) /\ HasRow(t)
      BY <3>1, TaskIs, RestingTasks DEF HasRow
    <3>3. QED  BY <3>2 DEF Extraction!Task
  <2>3. RangeSafe(t.row)' /\ (Ranged(t.row) => Ranged(t.row)')  BY <1>2, <2>2 DEF TaskSafe
  <2>4. t.row.first <= Extraction!Tail => t.row.first <= Extraction!Tail'
    BY <1>1, <2>2 DEF Extraction!BatchRow, Extraction!MemoryExtractionAssumption
  <2>5. TaskSafe(t)'  BY <2>2, <2>3, <2>4 DEF TaskSafe
  <2>6. HasRow(t)'  BY <1>3, <2>2 DEF TaskSafe, HasRow
  <2>7. QED  BY <2>1, <2>5, <2>6
<1>5. QED  BY <1>3, <1>4 DEF ExtractionInv

\* A batch is completed: the cursor goes to its end if it has not moved since,
\* or for the first time.
LEMMA CompleteBatchStep ==
  ASSUME Extraction!MemoryExtractionAssumption, ExtractionInv,
         NEW w \in ExtractionWorker, Extraction!CompleteBatch(w)
  PROVE  ExtractionInv'
<1>1. PICK t : t = extractor[w]  OBVIOUS
<1>2. /\ t \in Extraction!Task /\ t.row \in Extraction!BatchRow
      /\ t.pc \in {"skipping", "creating"} /\ TaskSafe(t) /\ HasRow(t)
  BY <1>1, TaskIs DEF Extraction!CompleteBatch, Extraction!At
<1>3. RangeSafe(t.row) /\ Ranged(t.row) /\ t.batch \in Extraction!Batch
      /\ batch[t.batch].state # "none"
  BY <1>2 DEF TaskSafe, HasRow, Claimed
<1>4. UNCHANGED <<settings, message, inferred, forgotten, faults>>
  BY DEF Extraction!CompleteBatch
<1>5. PICK new : new = [Extraction!Idle EXCEPT !.pc = "claiming"]  OBVIOUS
<1>6. /\ new \in Extraction!Task /\ TaskSafe(new) /\ HasRow(new)
      /\ extractor' = [extractor EXCEPT ![w] = new]
  <2>1. new \in Extraction!Task /\ TaskSafe(new) /\ HasRow(new)
    BY <1>5, RestingTasks DEF HasRow
  <2>2. QED  BY <1>5, <2>1, Zenon DEF Extraction!CompleteBatch, Extraction!Rest
<1>7. faults' \in 0 .. MaxFaults  BY <1>4 DEF ExtractionInv, Extraction!TypeOK
<1>8. CASE batch[t.batch].state # "processing"
  <2>1. UNCHANGED <<batch, cursor>>  BY <1>1, <1>8 DEF Extraction!CompleteBatch
  <2>2. QED  BY <1>4, <1>6, <1>7, <2>1, OnlyExtractorMoves
<1>9. CASE batch[t.batch].state = "processing"
  <2>1. PICK state \in {"skipped", "committed"} :
          batch' = [batch EXCEPT ![t.batch].state = state]
    BY <1>1, <1>9, Zenon DEF Extraction!CompleteBatch
  <2>2. /\ batch \in [Extraction!Batch -> Extraction!BatchRow]
        /\ cursor \in [last : 0 .. MaxMessages, revision : Nat]
        /\ cursor.revision \in Nat /\ t.row.conversation \in Nat /\ t.row.last \in 0 .. MaxMessages
        /\ t.row.first \in Nat
    BY <1>2 DEF ExtractionInv, Extraction!TypeOK, Extraction!BatchRow,
       Extraction!MemoryExtractionAssumption
  <2>3. PICK row : row = [batch[t.batch] EXCEPT !.state = state]  OBVIOUS
  <2>4. row \in Extraction!BatchRow  BY <1>3, <2>2, <2>3, StateIs
  <2>5. batch' = [batch EXCEPT ![t.batch] = row]  BY <1>3, <2>1, <2>2, <2>3
  <2>6. \/ cursor' = cursor
        \/ /\ cursor.revision <= t.row.conversation
           /\ \E revision \in Nat : /\ cursor' = [last |-> t.row.last, revision |-> revision]
                                    /\ cursor.revision <= revision
    <3>1. cursor' = CASE cursor.revision = 0 ->
                           [last |-> t.row.last, revision |-> t.row.conversation]
                      [] cursor.revision \in 1 .. t.row.conversation ->
                           [last |-> t.row.last, revision |-> cursor.revision + 1]
                      [] OTHER -> cursor
      BY <1>1, <1>9, Zenon DEF Extraction!CompleteBatch
    <3>2. QED  BY <2>2, <3>1
  <2>7. /\ cursor' \in [last : 0 .. MaxMessages, revision : Nat]
        /\ cursor.revision <= cursor'.revision /\ cursor'.revision \in Nat
        /\ \/ cursor' = cursor
           \/ cursor'.last = t.row.last /\ cursor.revision <= t.row.conversation
    BY <2>2, <2>6
  <2>8. Extraction!TypeOK'
    BY <1>4, <1>6, <2>2, <2>4, <2>5, <2>7 DEF ExtractionInv, Extraction!TypeOK
  <2>9. Extraction!Tail' = Extraction!Tail  BY <1>4 DEF Extraction!Tail
  <2>10. MessagesInTurn' /\ Extraction!NoBackfill'
    BY <1>4, <2>9 DEF ExtractionInv, MessagesInTurn, Extraction!NoBackfill
  <2>11. \A r : OnFrom(r)' = OnFrom(r)  BY <1>4 DEF OnFrom
  <2>12. cursor'.last <= Extraction!Tail'
    BY <1>3, <2>7, <2>9 DEF ExtractionInv, Ranged
  <2>13. ASSUME settings'.enabled PROVE OnFrom(cursor.last + 1)'
    <3>1. CASE cursor' = cursor  BY <1>4, <2>11, <2>13, <3>1 DEF ExtractionInv, OnFrom
    <3>2. CASE cursor'.last = t.row.last /\ cursor.revision <= t.row.conversation
      <4>1. OnFrom(t.row.first) /\ t.row.first <= t.row.last
        BY <1>3, <1>4, <2>13, <3>2 DEF RangeSafe, Ranged
      <4>2. \A m \in Extraction!Message : m >= t.row.last + 1 => m >= t.row.first
        BY <2>2, <4>1 DEF Extraction!Message
      <4>3. QED  BY <1>4, <3>2, <4>1, <4>2 DEF OnFrom
    <3>3. QED  BY <2>7, <3>1, <3>2
  <2>14. ASSUME NEW r \in Extraction!BatchRow, RangeSafe(r) PROVE RangeSafe(r)'
    <3>1. r.conversation \in Nat  BY DEF Extraction!BatchRow
    <3>2. /\ r.conversation <= cursor.revision => r.conversation <= cursor'.revision
          /\ cursor'.revision <= r.conversation => cursor.revision <= r.conversation
      BY <2>2, <2>7, <3>1
    <3>3. QED  BY <1>4, <2>11, <2>14, <3>2 DEF RangeSafe
  <2>15. \A b \in Extraction!Batch : \/ batch'[b] = batch[b]
                                     \/ /\ batch[b].state # "none"
                                        /\ \E s \in {"skipped", "committed"} :
                                             batch'[b] = [batch[b] EXCEPT !.state = s]
    BY <1>3, <2>2, <2>3, <2>5
  <2>16. \A x \in ExtractionWorker : extractor'[x] \in {extractor[x], new}
    BY <1>6 DEF ExtractionInv, Extraction!TypeOK
  <2>17. Extraction!Tail <= Extraction!Tail'
    BY <2>9 DEF ExtractionInv, MessagesInTurn, Extraction!MemoryExtractionAssumption
  <2>18. QED
    BY <1>5, <2>8, <2>10, <2>12, <2>13, <2>14, <2>15, <2>16, <2>17, StoreGoesOn
<1>10. QED  BY <1>8, <1>9

\* A message more, written with extraction on or off.
LEMMA WriteMessageStep ==
  ASSUME Extraction!MemoryExtractionAssumption, ExtractionInv, Extraction!WriteMessage
  PROVE  ExtractionInv'
<1>1. /\ Extraction!Tail < MaxMessages
      /\ UNCHANGED <<settings, cursor, batch, inferred, forgotten, extractor, faults>>
  BY DEF Extraction!WriteMessage
<1>2. /\ MaxMessages \in Nat /\ Extraction!Tail \in 0 .. MaxMessages
      /\ message \in [Extraction!Message -> {"none", "on", "off"}]
      /\ settings.enabled \in BOOLEAN /\ cursor.last \in 0 .. MaxMessages
      /\ cursor.last <= Extraction!Tail
      /\ \A m \in Extraction!Message : message[m] # "none" <=> m <= Extraction!Tail
  BY DEF ExtractionInv, MessagesInTurn, Extraction!TypeOK, Extraction!MemoryExtractionAssumption
<1>3. PICK n : n = Extraction!Tail + 1  OBVIOUS
<1>4. n \in Extraction!Message /\ n \in 1 .. MaxMessages  BY <1>1, <1>2, <1>3 DEF Extraction!Message
<1>5. PICK v \in {"on", "off"} :
        message' = [message EXCEPT ![n] = v] /\ (settings.enabled => v = "on")
  BY <1>2, <1>3, Zenon DEF Extraction!WriteMessage
<1>6. /\ message' \in [Extraction!Message -> {"none", "on", "off"}]
      /\ message'[n] = v /\ \A m \in Extraction!Message : m # n => message'[m] = message[m]
  BY <1>2, <1>4, <1>5
<1>7. \A m \in Extraction!Message : message'[m] # "none" <=> m <= n
  BY <1>2, <1>3, <1>4, <1>6 DEF Extraction!Message
<1>8. Extraction!Tail' = n
  <2>1. PICK f : f = message'  OBVIOUS
  <2>2. {m \in Extraction!Message : f[m] # "none"} = 1 .. n
    BY <1>4, <1>7, <2>1, <1>2 DEF Extraction!Message
  <2>3. Cardinality({m \in Extraction!Message : f[m] # "none"}) = n
    BY <1>4, <2>2, TailIs
  <2>4. QED  BY <2>1, <2>3, ExtractionCount, Zenon DEF Extraction!Tail
<1>9. MessagesInTurn'  BY <1>4, <1>7, <1>8 DEF MessagesInTurn
<1>10. Extraction!TypeOK'
  BY <1>1, <1>6 DEF ExtractionInv, Extraction!TypeOK
<1>11. Extraction!NoBackfill'
  <2>1. ASSUME NEW row \in inferred PROVE message'[row.message] = "on"
    <3>1. row.message \in Extraction!Message /\ message[row.message] = "on"
      BY DEF ExtractionInv, Extraction!TypeOK, Extraction!NoBackfill
    <3>2. row.message # n  BY <1>2, <1>3, <1>4, <3>1 DEF Extraction!Message
    <3>3. QED  BY <1>6, <3>1, <3>2
  <2>2. QED  BY <1>1, <2>1 DEF Extraction!NoBackfill
<1>12. ASSUME NEW from, settings.enabled, OnFrom(from) PROVE OnFrom(from)'
  BY <1>5, <1>6, <1>12 DEF OnFrom
<1>13. ASSUME NEW r \in Extraction!BatchRow, RangeSafe(r) PROVE RangeSafe(r)'
  <2>1. settings.enabled /\ OnFrom(r.first) => OnFrom(r.first)'  BY <1>12
  <2>2. QED  BY <1>1, <1>13, <2>1, Zenon DEF RangeSafe
<1>14. settings'.enabled => OnFrom(cursor.last + 1)'
  <2>1. PICK from : from = cursor.last + 1  OBVIOUS
  <2>2. settings.enabled => OnFrom(from)  BY <2>1 DEF ExtractionInv
  <2>3. settings.enabled => OnFrom(from)'  BY <1>12, <2>2
  <2>4. QED  BY <1>1, <2>1, <2>3
<1>15. Extraction!Tail <= Extraction!Tail' /\ cursor'.last <= Extraction!Tail'
  BY <1>1, <1>2, <1>3, <1>8
<1>16. QED
  BY <1>1, <1>9, <1>10, <1>11, <1>13, <1>14, <1>15, StoreGoesOn

\* A change of the settings: a range of before is of the settings of today no
\* more, and one of before the cursor went to the tail not of its revision.
LEMMA SettingsStep ==
  ASSUME Extraction!MemoryExtractionAssumption, ExtractionInv,
         Extraction!ToggleExtraction \/ Extraction!ChangeOtherSetting
  PROVE  ExtractionInv'
<1>1. /\ UNCHANGED <<message, inferred, forgotten, extractor, faults>>
      /\ settings'.revision = settings.revision + 1
      /\ settings' \in [enabled : BOOLEAN, revision : Nat]
      /\ settings.revision \in Nat /\ settings.enabled \in BOOLEAN
  <2>1. settings \in [enabled : BOOLEAN, revision : Nat]  BY DEF ExtractionInv, Extraction!TypeOK
  <2>2. settings.revision \in Nat /\ settings.enabled \in BOOLEAN  BY <2>1
  <2>3. settings.revision + 1 \in Nat /\ (~settings.enabled) \in BOOLEAN  BY <2>2
  <2>4. CASE Extraction!ToggleExtraction
    <3>1. settings' = [enabled |-> ~settings.enabled, revision |-> settings.revision + 1]
      BY <2>4, Zenon DEF Extraction!ToggleExtraction
    <3>2. settings' \in [enabled : BOOLEAN, revision : Nat]  BY <2>3, <3>1
    <3>3. settings'.revision = settings.revision + 1  BY <3>1
    <3>4. QED  BY <2>2, <2>4, <3>2, <3>3, Zenon DEF Extraction!ToggleExtraction
  <2>5. CASE Extraction!ChangeOtherSetting
    <3>1. settings' = [settings EXCEPT !.revision = settings.revision + 1]
      BY <2>5 DEF Extraction!ChangeOtherSetting
    <3>2. settings' \in [enabled : BOOLEAN, revision : Nat]  BY <2>1, <2>3, <3>1
    <3>3. settings'.revision = settings.revision + 1  BY <2>1, <3>1
    <3>4. QED  BY <2>2, <2>5, <3>2, <3>3, Zenon DEF Extraction!ChangeOtherSetting
  <2>6. QED  BY <2>4, <2>5
<1>2. /\ cursor \in [last : 0 .. MaxMessages, revision : Nat]
      /\ batch \in [Extraction!Batch -> Extraction!BatchRow]
      /\ MaxMessages \in Nat /\ Extraction!Tail \in 0 .. MaxMessages
      /\ cursor.last \in 0 .. MaxMessages /\ cursor.revision \in Nat
      /\ cursor.last <= Extraction!Tail
  BY DEF ExtractionInv, MessagesInTurn, Extraction!TypeOK, Extraction!MemoryExtractionAssumption
<1>3. Extraction!Tail' = Extraction!Tail  BY <1>1 DEF Extraction!Tail
<1>4. \A from : OnFrom(from)' = OnFrom(from)  BY <1>1 DEF OnFrom
<1>5. \/ UNCHANGED <<cursor, batch>> /\ settings'.enabled = settings.enabled
      \/ /\ cursor' = [last |-> Extraction!Tail, revision |-> cursor.revision + 1]
         /\ settings'.enabled = ~settings.enabled
         /\ batch' = [b \in Extraction!Batch |->
                        IF batch[b].state \in Extraction!Open
                        THEN [batch[b] EXCEPT !.state = "skipped"] ELSE batch[b]]
  <2>1. settings \in [enabled : BOOLEAN, revision : Nat]  BY DEF ExtractionInv, Extraction!TypeOK
  <2>2. QED  BY <2>1 DEF Extraction!ToggleExtraction, Extraction!ChangeOtherSetting
<1>6. \A b \in Extraction!Batch :
        \/ batch'[b] = batch[b]
        \/ /\ batch[b].state # "none"
           /\ \E state \in {"skipped", "committed"} :
                batch'[b] = [batch[b] EXCEPT !.state = state]
  BY <1>5 DEF Extraction!Open
<1>7. batch' \in [Extraction!Batch -> Extraction!BatchRow]
  <2>1. ASSUME NEW b \in Extraction!Batch PROVE batch'[b] \in Extraction!BatchRow
    <3>1. PICK old \in Extraction!BatchRow : old = batch[b]  BY <1>2
    <3>2. \A state \in {"queued", "processing", "failed", "committed", "skipped"} :
            [old EXCEPT !.state = state] \in Extraction!BatchRow
      BY StateIs
    <3>3. QED  BY <1>6, <3>1, <3>2
  <2>2. QED  BY <1>2, <1>5, <2>1
<1>8. /\ cursor' \in [last : 0 .. MaxMessages, revision : Nat]
      /\ cursor'.last <= Extraction!Tail /\ cursor'.revision \in Nat
  BY <1>2, <1>5
<1>9. Extraction!TypeOK'  BY <1>1, <1>7, <1>8 DEF ExtractionInv, Extraction!TypeOK
<1>10. MessagesInTurn' /\ Extraction!NoBackfill'
  BY <1>1, <1>3 DEF ExtractionInv, MessagesInTurn, Extraction!NoBackfill
<1>11. settings'.enabled => OnFrom(cursor.last + 1)'
  <2>1. CASE UNCHANGED cursor /\ settings'.enabled = settings.enabled
    BY <1>4, <2>1 DEF ExtractionInv, OnFrom
  <2>2. CASE cursor'.last = Extraction!Tail
    <3>1. \A m \in Extraction!Message : m >= Extraction!Tail + 1 => message[m] = "none"
      BY <1>2 DEF ExtractionInv, MessagesInTurn, Extraction!Message
    <3>2. QED  BY <1>1, <2>2, <3>1 DEF OnFrom
  <2>3. cursor' = [last |-> Extraction!Tail, revision |-> cursor.revision + 1] =>
          cursor'.last = Extraction!Tail
    OBVIOUS
  <2>4. (UNCHANGED cursor /\ settings'.enabled = settings.enabled)
           \/ cursor'.last = Extraction!Tail
    BY <1>5, <2>3, Zenon
  <2>5. QED  BY <2>1, <2>2, <2>4, Zenon
<1>12. ASSUME NEW r \in Extraction!BatchRow, RangeSafe(r) PROVE RangeSafe(r)'
  <2>1. r.conversation \in Nat /\ r.settings \in Nat  BY DEF Extraction!BatchRow
  <2>2. OnFrom(r.first)' = OnFrom(r.first)  BY <1>4
  <2>3. CASE UNCHANGED cursor /\ settings'.enabled = settings.enabled
    BY <1>1, <1>12, <2>1, <2>2, <2>3 DEF RangeSafe
  <2>4. CASE cursor'.revision = cursor.revision + 1 /\ settings'.enabled = ~settings.enabled
    BY <1>1, <1>2, <1>12, <2>1, <2>2, <2>4 DEF RangeSafe
  <2>5. QED  BY <1>5, <2>3, <2>4
<1>13. Extraction!Tail <= Extraction!Tail' /\ cursor'.last <= Extraction!Tail'
  BY <1>2, <1>3, <1>8
<1>14. QED
  BY <1>1, <1>6, <1>9, <1>10, <1>11, <1>12, <1>13, StoreGoesOn

\* A memory is forgotten.
LEMMA ForgetMemoryStep ==
  ASSUME Extraction!MemoryExtractionAssumption, ExtractionInv,
         NEW row \in inferred, Extraction!ForgetMemory(row)
  PROVE  ExtractionInv'
<1>1. /\ UNCHANGED <<settings, message, cursor, batch, extractor, faults>>
      /\ inferred' \subseteq inferred /\ forgotten' = forgotten \cup {row.message}
  BY DEF Extraction!ForgetMemory
<1>2. row.message \in Extraction!Message  BY DEF ExtractionInv, Extraction!TypeOK
<1>3. Extraction!TypeOK'  BY <1>1, <1>2 DEF ExtractionInv, Extraction!TypeOK
<1>4. MessagesInTurn' /\ Extraction!NoBackfill'
  BY <1>1, RangesStay DEF ExtractionInv, MessagesInTurn, Extraction!NoBackfill
<1>5. /\ \A b \in Extraction!Batch : BatchSafe(b)'
      /\ \A w \in ExtractionWorker : TaskSafe(extractor[w])' /\ HasRow(extractor[w])'
  BY <1>1, RangesStay DEF ExtractionInv, BatchSafe, HasRow
<1>6. QED  BY <1>1, <1>3, <1>4, <1>5, RangesStay DEF ExtractionInv

\* A worker that finds nothing to do, or is gone.
LEMMA RestStep ==
  ASSUME Extraction!MemoryExtractionAssumption, ExtractionInv, NEW w \in ExtractionWorker,
         \/ Extraction!NothingToEnqueue(w) \/ Extraction!NothingToClaim(w)
         \/ Extraction!Crash(w)
  PROVE  ExtractionInv'
<1>1. /\ UNCHANGED <<settings, message, cursor, batch, inferred, forgotten>>
      /\ faults' = faults \/ (faults < MaxFaults /\ faults' = faults + 1)
  BY DEF Extraction!NothingToEnqueue, Extraction!NothingToClaim, Extraction!Crash,
     Extraction!Fault, Extraction!store
<1>2. faults' \in 0 .. MaxFaults
  BY <1>1 DEF ExtractionInv, Extraction!TypeOK, Extraction!MemoryExtractionAssumption
<1>3. CASE Extraction!NothingToEnqueue(w)
  <2>1. PICK new : new = [extractor[w] EXCEPT !.pc = "claiming"]  OBVIOUS
  <2>2. /\ new \in Extraction!Task /\ new.pc = "claiming" /\ new.row = extractor[w].row
    BY <2>1, TaskIs DEF Extraction!Task
  <2>3. TaskSafe(new) /\ HasRow(new)
    BY <2>2, TaskIs DEF TaskSafe, HasRow, Claimed
  <2>4. extractor' = [extractor EXCEPT ![w] = new]
    BY <1>3, <2>1 DEF Extraction!NothingToEnqueue, Extraction!Goto, ExtractionInv,
       Extraction!TypeOK
  <2>5. QED  BY <1>1, <1>2, <2>2, <2>3, <2>4, OnlyExtractorMoves
<1>4. CASE extractor' = [extractor EXCEPT ![w] = Extraction!Idle]
  <2>1. PICK new : new = Extraction!Idle  OBVIOUS
  <2>2. new \in Extraction!Task /\ TaskSafe(new) /\ HasRow(new)
    BY <2>1, RestingTasks DEF HasRow
  <2>3. QED  BY <1>1, <1>2, <1>4, <2>1, <2>2, OnlyExtractorMoves
<1>5. QED
  BY <1>3, <1>4, Zenon DEF Extraction!NothingToClaim, Extraction!Crash

\* A step of a worker.
LEMMA ExtractorStep ==
  ASSUME Extraction!MemoryExtractionAssumption, ExtractionInv, NEW w \in ExtractionWorker,
         Extraction!WorkerStep(w) \/ Extraction!CreateFails(w) \/ Extraction!Crash(w)
  PROVE  ExtractionInv'
<1>1. faults \in 0 .. MaxFaults /\ MaxFaults \in Nat
  BY DEF ExtractionInv, Extraction!TypeOK, Extraction!MemoryExtractionAssumption
<1>2. CASE Extraction!CheckSettings(w)
  <2>1. PICK pc \in {"creating", "skipping"} : Extraction!Goto(w, pc)
    BY <1>2, Zenon DEF Extraction!CheckSettings
  <2>2. /\ extractor[w].pc \in Claimed /\ faults' = faults
        /\ UNCHANGED <<settings, message, cursor, batch, inferred, forgotten>>
    BY <1>2 DEF Extraction!CheckSettings, Extraction!At, Extraction!store, Claimed
  <2>3. QED  BY <1>1, <2>1, <2>2, CheckStep
<1>3. CASE Extraction!CreateFails(w)
  <2>1. /\ extractor[w].pc \in Claimed /\ faults' = faults + 1 /\ faults < MaxFaults
        /\ UNCHANGED <<settings, message, cursor, batch, inferred, forgotten>>
        /\ Extraction!Goto(w, "releasing")
    BY <1>3 DEF Extraction!CreateFails, Extraction!At, Extraction!store, Extraction!Fault,
       Claimed
  <2>2. faults' \in 0 .. MaxFaults  BY <1>1, <2>1
  <2>3. QED  BY <2>1, <2>2, CheckStep
<1>4. CASE Extraction!ReadSession(w)  BY <1>4, ReadSessionStep
<1>5. CASE Extraction!ReadMessages(w)  BY <1>5, ReadMessagesStep
<1>6. CASE Extraction!InsertBatch(w)  BY <1>6, InsertBatchStep
<1>7. CASE \E b \in Extraction!Batch : Extraction!ClaimBatch(w, b)  BY <1>7, ClaimBatchStep
<1>8. CASE Extraction!CreateMemory(w)  BY <1>8, CreateMemoryStep
<1>9. CASE Extraction!CompleteBatch(w)  BY <1>9, CompleteBatchStep
<1>10. CASE Extraction!ReleaseFailedBatch(w)  BY <1>10, ReleaseBatchStep
<1>11. QED
  BY <1>2, <1>3, <1>4, <1>5, <1>6, <1>7, <1>8, <1>9, <1>10, RestStep
     DEF Extraction!WorkerStep

\* What users and workers do keeps the invariant.
LEMMA ExtractionInductive ==
  ASSUME Extraction!MemoryExtractionAssumption, ExtractionInv, Extraction!Next
  PROVE  ExtractionInv'
BY WriteMessageStep, SettingsStep, ForgetMemoryStep, ExtractorStep DEF Extraction!Next

\* While another scene goes on, nothing is inferred.
LEMMA ExtractionInitially ==
  ASSUME Extraction!MemoryExtractionAssumption, Extraction!Init
  PROVE  ExtractionInv /\ inferred = {}
<1>1. /\ settings \in [enabled : BOOLEAN, revision : {1}]
      /\ message = [m \in Extraction!Message |-> "none"]
      /\ cursor = [last |-> 0, revision |-> 0]
      /\ batch = [b \in Extraction!Batch |-> Extraction!NoRow]
      /\ inferred = {} /\ forgotten = {}
      /\ extractor = [w \in ExtractionWorker |-> Extraction!Idle] /\ faults = 0
  BY DEF Extraction!Init
<1>2. MaxMessages \in Nat /\ MaxFaults \in Nat  BY DEF Extraction!MemoryExtractionAssumption
<1>3. Extraction!NoRow \in Extraction!BatchRow /\ Extraction!NoRow.first = 0
      /\ Extraction!NoRow.state = "none"
  BY <1>2 DEF Extraction!NoRow, Extraction!BatchRow
<1>4. Extraction!Tail = 0
  <2>1. {m \in Extraction!Message : message[m] # "none"} = 1 .. 0  BY <1>1
  <2>2. Cardinality({m \in Extraction!Message : message[m] # "none"}) = 0  BY <2>1, TailIs
  <2>3. QED  BY <2>2, ExtractionCount, Zenon DEF Extraction!Tail
<1>5. Extraction!TypeOK
  <2>1. settings \in [enabled : BOOLEAN, revision : Nat]  BY <1>1
  <2>2. message \in [Extraction!Message -> {"none", "on", "off"}]  BY <1>1
  <2>3. cursor \in [last : 0 .. MaxMessages, revision : Nat]  BY <1>1, <1>2
  <2>4. batch \in [Extraction!Batch -> Extraction!BatchRow]  BY <1>1, <1>3
  <2>5. extractor \in [ExtractionWorker -> Extraction!Task]  BY <1>1, RestingTasks
  <2>6. faults \in 0 .. MaxFaults  BY <1>1, <1>2
  <2>7. QED  BY <1>1, <2>1, <2>2, <2>3, <2>4, <2>5, <2>6 DEF Extraction!TypeOK
<1>6. MessagesInTurn  BY <1>1, <1>2, <1>4 DEF MessagesInTurn, Extraction!Message
<1>7. \A from : OnFrom(from)  BY <1>1 DEF OnFrom
<1>8. \A b \in Extraction!Batch : BatchSafe(b)  BY <1>1, <1>3 DEF BatchSafe, RangeSafe
<1>9. \A w \in ExtractionWorker : TaskSafe(extractor[w]) /\ HasRow(extractor[w])
  BY <1>1, RestingTasks DEF HasRow
<1>10. cursor.last <= Extraction!Tail  BY <1>1, <1>4
<1>11. QED
  BY <1>1, <1>5, <1>6, <1>7, <1>8, <1>9, <1>10 DEF ExtractionInv, Extraction!NoBackfill

\* Nothing moves in the extraction, and no fault occurs.
LEMMA ExtractionStutters ==
  ASSUME ExtractionInv, UNCHANGED <<extraction, faults>>
  PROVE  ExtractionInv'
<1>1. UNCHANGED <<settings, message, cursor, batch, inferred, forgotten, extractor, faults>>
  BY DEF extraction
<1>2. Extraction!TypeOK'  BY <1>1 DEF ExtractionInv, Extraction!TypeOK
<1>3. MessagesInTurn' /\ Extraction!NoBackfill'
  BY <1>1, RangesStay DEF ExtractionInv, MessagesInTurn, Extraction!NoBackfill
<1>4. /\ \A b \in Extraction!Batch : BatchSafe(b)'
      /\ \A w \in ExtractionWorker : TaskSafe(extractor[w])' /\ HasRow(extractor[w])'
  BY <1>1, RangesStay DEF ExtractionInv, BatchSafe, HasRow
<1>5. QED  BY <1>1, <1>2, <1>3, <1>4, RangesStay DEF ExtractionInv

\* The scene of the extraction keeps its invariant; the others infer nothing.
ExtractionScene == IF scene = "extraction" THEN ExtractionInv ELSE inferred = {}

LEMMA ExtractionHolds == SceneSpec => []ExtractionScene
<1>1. InitScene => ExtractionScene
  BY ExtractionInitially, SceneAssumption DEF ExtractionScene, InitScene, SceneAssumption
<1>2. ExtractionScene /\ [NextScene]_all => ExtractionScene'
  <2> SUFFICES ASSUME ExtractionScene, [NextScene]_all PROVE ExtractionScene'  OBVIOUS
  <2> USE DEF ExtractionScene
  <2>1. CASE scene = "extraction" /\ Extraction!Next
    BY <2>1, ExtractionInductive, SceneAssumption, OneSceneGoesOn DEF SceneAssumption
  <2>2. CASE scene # "extraction"
    BY <2>2, OneSceneGoesOn DEF extraction
  <2>3. CASE scene = "extraction" /\ ~Extraction!Next
    <3>1. UNCHANGED all  BY <2>3 DEF NextScene
    <3>2. UNCHANGED <<scene, extraction, faults>>  BY <3>1 DEF all
    <3>3. QED  BY <2>3, <3>2, ExtractionStutters
  <2>4. QED  BY <2>1, <2>2, <2>3
<1>3. QED  BY <1>1, <1>2, PTL DEF SceneSpec

\* A worker reads the settings before its batch and compares them afterwards,
\* and turning extraction on sends the cursor to the tail: whenever the user
\* changes the settings, no memory comes from a message of the time it was off.
THEOREM NothingIsBackfilled == SceneSpec => []NoBackfill
<1>1. ExtractionScene => NoBackfill
  BY DEF ExtractionScene, NoBackfill, Extraction!NoBackfill, ExtractionInv
<1>2. QED  BY <1>1, ExtractionHolds, PTL

----------------------------------------------------------------------------
(* The types of every scene                                                *)

\* Tasks that are overdue, and the faults of the scenes of the proposals.
RestOfProposals ==
  /\ overdue \in [Discovering!Task -> {"open", "worked", "done"}]
  /\ scene \in {"approving", "discovering"} => faults \in 0 .. Faults

LEMMA RestOfProposalsHolds == SceneSpec => []RestOfProposals
<1>1. Discovering!ProactiveAssumption  BY SceneAssumption DEF SceneAssumption
<1>2. InitScene => RestOfProposals
  <2>1. InitScene => Discovering!Init  BY DEF InitScene
  <2>2. QED
    BY <1>1, <2>1 DEF Discovering!Init, Discovering!ProactiveAssumption, RestOfProposals
<1>3. RestOfProposals /\ [NextScene]_all => RestOfProposals'
  <2> SUFFICES ASSUME RestOfProposals, [NextScene]_all PROVE RestOfProposals'  OBVIOUS
  <2>1. scene' = scene  BY OneSceneGoesOn
  <2>2. CASE Discovering!Next /\ scene = "discovering"
    <3>1. \/ UNCHANGED <<overdue, faults>>
          \/ faults' = faults /\ \E t \in Discovering!Task, s \in {"worked", "done"} :
               overdue' = [overdue EXCEPT ![t] = s]
          \/ faults < Faults /\ faults' = faults + 1 /\ overdue' = overdue
      <4>1. CASE \E a \in Approval : \/ \E c \in Discovering!Candidate : Discovering!Begin(a, c)
                                   \/ Discovering!ApprovalStep(a) \/ Discovering!DropApproval(a)
                                   \/ Discovering!EndRun(a)
        BY <4>1, Zenon
        DEF Discovering!Begin, Discovering!ApprovalStep, Discovering!LockCandidate, Discovering!Look,
            Discovering!ReadSettings, Discovering!CountRuns, Discovering!CheckTask,
            Discovering!SpawnRun, Discovering!DropApproval, Discovering!EndRun
      <4>2. CASE \/ \E c \in Discovering!Candidate : \/ Discovering!IgnoreCandidate(c)
                                                   \/ Discovering!CooldownPasses(c)
                 \/ (\E p \in Profile : Discovering!UpdateSettings(p)) \/ Discovering!DayBreaks
        BY <4>2, Zenon
        DEF Discovering!IgnoreCandidate, Discovering!CooldownPasses, Discovering!UpdateSettings,
            Discovering!DayBreaks
      <4>3. CASE Discovering!RoundStep
        BY <4>3, Zenon
        DEF Discovering!RoundStep, Discovering!BeginRound, Discovering!SkipProfile,
            Discovering!SearchTasks, Discovering!InsertCandidate, Discovering!EndProfile,
            Discovering!EndRound
      <4>4. CASE \E t \in Discovering!Task : Discovering!ChangeTask(t)
        BY <4>4 DEF Discovering!ChangeTask
      <4>5. CASE Discovering!RoundFails  BY <4>5 DEF Discovering!RoundFails
      <4>6. QED  BY <2>2, <4>1, <4>2, <4>3, <4>4, <4>5, Zenon DEF Discovering!Next
    <3>2. faults' = faults \/ (faults < Faults /\ faults' = faults + 1)  BY <3>1
    <3>3. overdue' \in [Discovering!Task -> {"open", "worked", "done"}]
      BY <3>1 DEF RestOfProposals
    <3>4. faults' \in 0 .. Faults
      BY <1>1, <2>2, <3>2 DEF RestOfProposals, Discovering!ProactiveAssumption
    <3>5. QED  BY <3>3, <3>4 DEF RestOfProposals
  <2>3. CASE overdue' = overdue /\ (scene \in {"approving", "discovering"} => faults' = faults)
    BY <2>1, <2>3 DEF RestOfProposals
  <2>4. QED  BY <2>2, <2>3 DEF NextScene, all, proactive
<1>4. QED  BY <1>2, <1>3, PTL DEF SceneSpec

\* Whatever works for the session, its rows, tasks, requests and files keep
\* their types: each component does in its scene.
THEOREM SceneIsTyped == SceneSpec => []TypesOK
<1>1. Loop!Spec => []Loop!TypeOK  BY SceneAssumption, Loop!LegIsTyped DEF SceneAssumption
<1>2. WakeInv /\ RestOfProposals /\ scene \in {"approving", "discovering"} => Discovering!TypeOK
  BY DEF WakeInv, WakeTyped, WakeRow, Round, RestOfProposals, Discovering!TypeOK,
         Discovering!Task, Approving!Task, Discovering!Candidate, Approving!Candidate,
         Discovering!Locking, Approving!Locking
<1>3. /\ TranscriptScene /\ DeletionScene /\ ExtractionScene /\ RecallInv
      /\ (scene = "delegation" => DelegationInv) /\ Loop!TypeOK /\ WakeInv /\ RestOfProposals
      => TypesOK
  BY <1>2 DEF TypesOK, TranscriptScene, TranscriptInv, DeletionScene, DeletionInv, DelegationInv,
              ExtractionScene, ExtractionInv, RecallInv
<1>4. SceneSpec => []RecallInv  BY RecallHolds, PTL
<1>5. QED
  BY <1>1, <1>3, <1>4, TranscriptHolds, DeletionHolds, ExtractionHolds, DelegationHolds,
     LoopGoesOn, WakesHold, RestOfProposalsHolds, PTL
=============================================================================
