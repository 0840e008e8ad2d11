---------------------------- MODULE AgentRunsRows ----------------------------
(***************************************************************************)
(* The rows of the runs, for every number of runs, sessions, workers and   *)
(* decisions: what a row says of its input, its answers and its            *)
(* cancellation, what a worker can still write when its lease moved on,    *)
(* and that AgentRuns implements RunLifecycle: no step asks for a status   *)
(* the trigger of the database would refuse, and epochs count the claims.  *)
(***************************************************************************)
EXTENDS AgentRunsSafety

\* InputFollowsRun and CompletedMeansDelivered of one row.  The strengthening:
\* a run has an input from its insertion on, and no answer is delivered that
\* its inbox does not have.
Sound(row) ==
  /\ row.input = "none" => row.status = "none"
  /\ row.input = "queued" => row.status = "queued"
  /\ row.input = "cancelled" => row.status = "cancelled"
  /\ row.status \in Active => row.input \in {"claimed", "applied"}
  /\ row.status = "completed" => row.input = "applied"
  /\ row.delivered <= row.inbox
  /\ row.status = "completed" => row.delivered = row.inbox /\ row.cancel = FALSE

RowsAreSound == \A r \in Run : Sound(run[r])

----------------------------------------------------------------------------
\* A step that writes one row keeps the others.
LEMMA RowSet ==
  ASSUME TypeOK, RowsAreSound, NEW r \in Run, NEW row, SetRow(r, row), Sound(row)
  PROVE  RowsAreSound'
<1> run \in [Run -> Row] BY DEF TypeOK
<1>1. \A q \in Run : run'[q] = IF q = r THEN row ELSE run[q] BY DEF SetRow
<1> HIDE DEF Sound
<1> SUFFICES ASSUME NEW q \in Run PROVE Sound(run'[q]) BY DEF RowsAreSound
<1> QED BY <1>1 DEF RowsAreSound

\* A step that writes no row keeps them all.
LEMMA RowsSame == ASSUME RowsAreSound, run' = run PROVE RowsAreSound'
BY DEF RowsAreSound, Sound

\* The users' commands write the input with the run.
LEMMA CommandSound ==
  ASSUME TypeOK, RowsAreSound, NEW r \in Run,
         Command(r) \/ CancelOneQueuedRun(r) \/ BackoffElapses(r)
  PROVE  RowsAreSound'
<1>row. run[r] \in Row /\ Sound(run[r]) BY Rows DEF RowsAreSound
<1>1. ASSUME EnqueueChatRun(r) PROVE RowsAreSound'
  <2>1. Sound([run[r] EXCEPT !.status = "queued", !.input = "queued"])
    BY <1>row DEF Sound, Row, Active
  <2> QED BY <1>1, <2>1, RowSet DEF EnqueueChatRun
<1>2. ASSUME RequestCancel(r) PROVE RowsAreSound'
  <2>1. run[r].status # "completed" BY <1>2 DEF RequestCancel, Terminal
  <2>2. Sound([run[r] EXCEPT !.cancel = TRUE]) BY <1>row, <2>1 DEF Sound, Row
  <2> QED BY <1>2, <2>2, RowSet DEF RequestCancel
<1>3. ASSUME RequestProviderRetryNow(r) \/ BackoffElapses(r) PROVE RowsAreSound'
  <2>1. Sound([run[r] EXCEPT !.parked = FALSE]) BY <1>row DEF Sound, Row
  <2> QED BY <1>3, <2>1, RowSet DEF RequestProviderRetryNow, BackoffElapses
<1>4. ASSUME CancelQueuedInput(r) PROVE RowsAreSound'
  <2>1. Sound([run[r] EXCEPT !.status = "cancelled", !.cancel = TRUE, !.input = "cancelled"])
    BY <1>row DEF Sound, Row, Active
  <2> QED BY <1>4, <2>1, RowSet DEF CancelQueuedInput
<1>5. ASSUME CancelOneQueuedRun(r) PROVE RowsAreSound'
  <2> DEFINE row == [run[r] EXCEPT !.status = "cancelled",
                       !.input = IF @ \in {"queued", "claimed"} THEN "cancelled" ELSE @]
  <2>1. SetRow(r, row) /\ run[r].status \in {"queued", "waiting_decision"}
    BY <1>5 DEF CancelOneQueuedRun, CancelIn
  <2>2. Sound(row) BY <1>row, <2>1 DEF Sound, Row, Active
  <2> HIDE DEF row
  <2> QED BY <2>1, <2>2, RowSet
<1> QED BY <1>1, <1>2, <1>3, <1>4, <1>5 DEF Command

\* Recovery gives a claimed input back with its run, or fails the run.
LEMMA LeaseSound ==
  ASSUME TypeOK, RowsAreSound, NEW r \in Run, LeaseLapses(r) \/ ReconcileOneStaleRun(r)
  PROVE  RowsAreSound'
<1>row. run[r] \in Row /\ Sound(run[r]) /\ run[r].status = "running"
  BY Rows DEF RowsAreSound, LeaseLapses, ReconcileOneStaleRun, ReconcilePause, ReconcileFail,
              ReconcileRequeue, Stale
<1>1. ASSUME LeaseLapses(r) PROVE RowsAreSound'
  <2>1. Sound([run[r] EXCEPT !.lease = "expired"]) BY <1>row DEF Sound, Row
  <2> QED BY <1>1, <2>1, RowSet DEF LeaseLapses
<1>2. ASSUME ReconcilePause(r) PROVE RowsAreSound'
  <2>1. Sound(Unleased(run[r], "waiting_decision")) BY <1>row DEF Sound, Row, Unleased, Active
  <2> QED BY <1>2, <2>1, RowSet DEF ReconcilePause
<1>3. ASSUME ReconcileFail(r) PROVE RowsAreSound'
  <2>1. Sound(Unleased(run[r], "failed")) BY <1>row DEF Sound, Row, Unleased, Active
  <2> QED BY <1>3, <2>1, RowSet DEF ReconcileFail
<1>4. ASSUME ReconcileRequeue(r) PROVE RowsAreSound'
  <2> DEFINE row == [Unleased(run[r], "queued") EXCEPT !.input = IF @ = "claimed" THEN "queued" ELSE @]
  <2>1. Sound(row) BY <1>row DEF Sound, Row, Unleased, Active
  <2>2. SetRow(r, row) BY <1>4 DEF ReconcileRequeue
  <2> HIDE DEF row
  <2> QED BY <2>1, <2>2, RowSet
<1> QED BY <1>1, <1>2, <1>3, <1>4 DEF ReconcileOneStaleRun

\* The input of a run is claimed with the run.
LEMMA ClaimSound ==
  ASSUME TypeOK, Safe, RowsAreSound, NEW w \in Worker, ClaimCommit(w)
  PROVE  RowsAreSound'
<1> DEFINE r == leg[w].run
           row == [Claimed(run[r]) EXCEPT !.status = "running", !.owner = w, !.epoch = @ + 1,
                                          !.lease = "live", !.parked = FALSE]
<1>1. r \in Run /\ run[r].status = "queued"
  BY DEF ClaimCommit, ClaimUpdate, Safe, LegShape, ClaimsApart
<1>2. run[r] \in Row /\ Sound(run[r]) BY <1>1, Rows DEF RowsAreSound
<1>3. Sound(row) BY <1>1, <1>2 DEF Sound, Row, Claimed, Active
<1>4. SetRow(r, row) BY DEF ClaimCommit, ClaimUpdate
<1> HIDE DEF row
<1> QED BY <1>1, <1>3, <1>4, RowSet

\* A cancelled run is finished as cancelled,
LEMMA FinalOfCancelled ==
  ASSUME NEW w \in Worker, run[leg[w].run].cancel
  PROVE  FinalStatus(w) = "cancelled"
BY DEF FinalStatus

\* and only one whose leg is done as completed.
LEMMA FinalOfOthers ==
  ASSUME NEW w \in Worker, ~run[leg[w].run].cancel, leg[w].out # "done"
  PROVE  FinalStatus(w) # "completed"
BY DEF FinalStatus

\* A run that is completed has no answer left to deliver.
LEMMA CloseSound ==
  ASSUME TypeOK, RowsAreSound, NEW w \in Worker, CloseStep(w)
  PROVE  RowsAreSound'
<1> DEFINE r == leg[w].run
<1>f. ASSUME Fenced(w)
      PROVE  r \in Run /\ run[r] \in Row /\ run[r].status = "running" /\ Sound(run[r])
  BY <1>f, Rows DEF Fenced, RowsAreSound
<1>1. ASSUME DeferRunForProviderRetry(w) PROVE RowsAreSound'
  <2> DEFINE row == [Parked(run[r]) EXCEPT !.retries = @ + 1]
  <2>1. Fenced(w) /\ SetRow(r, row) BY <1>1 DEF DeferRunForProviderRetry, Defer
  <2>2. Sound(row) BY <1>f, <2>1 DEF Parked, Unleased, Row, Sound, Active
  <2> HIDE DEF row
  <2> QED BY <1>f, <2>1, <2>2, RowSet
<1>2. ASSUME FinishRequeues(w) PROVE RowsAreSound'
  <2> DEFINE row == [Unleased(run[r], "queued") EXCEPT !.parked = FALSE]
  <2>1. Fenced(w) /\ SetRow(r, row) BY <1>2 DEF FinishRequeues
  <2>2. Sound(row) BY <1>f, <2>1 DEF Unleased, Row, Sound, Active
  <2> HIDE DEF row
  <2> QED BY <1>f, <2>1, <2>2, RowSet
<1>3. ASSUME FinishRun(w) PROVE RowsAreSound'
  <2> DEFINE s == FinalStatus(w)
             row == [Unleased(run[r], s) EXCEPT
                      !.input = IF @ # "claimed" THEN @
                                ELSE IF s = "cancelled" THEN "cancelled" ELSE "applied"]
  <2>1. Fenced(w) /\ SetRow(r, row) /\ ~MustRedeliver(w) BY <1>3 DEF FinishRun, Finish
  <2>2. s \in Terminal BY FinalIsTerminal
  <2>3. s = "completed" => run[r].cancel = FALSE /\ leg[w].out = "done"
    <3>1. run[r].cancel => s = "cancelled" BY FinalOfCancelled
    <3>2. ~run[r].cancel /\ leg[w].out # "done" => s # "completed" BY FinalOfOthers
    <3>3. run[r].cancel \in BOOLEAN BY <1>f, <2>1 DEF Row
    <3> HIDE DEF s
    <3> QED BY <3>1, <3>2, <3>3
  <2>4. s = "completed" => run[r].delivered = run[r].inbox
    BY <1>f, <2>1, <2>3 DEF MustRedeliver, Sound, Row
  <2> HIDE DEF s
  <2>5. Sound(row) BY <1>f, <2>1, <2>2, <2>3, <2>4 DEF Unleased, Row, Sound, Active, Terminal
  <2> HIDE DEF row
  <2> QED BY <1>f, <2>1, <2>5, RowSet
<1>4. ASSUME PauseRunForDecision(w) PROVE RowsAreSound'
  <2> DEFINE s == IF decision[leg[w].ask] = "pending" THEN "waiting_decision" ELSE "queued"
  <2>1. Fenced(w) /\ SetRow(r, Unleased(run[r], s)) BY <1>4 DEF PauseRunForDecision, Pause
  <2>2. s \in {"queued", "waiting_decision"} OBVIOUS
  <2> HIDE DEF s
  <2>3. Sound(Unleased(run[r], s)) BY <1>f, <2>1, <2>2 DEF Unleased, Row, Sound, Active
  <2> QED BY <1>f, <2>1, <2>3, RowSet
<1>5. ASSUME DeferFails(w) \/ FinishFails(w) \/ PauseFails(w) PROVE RowsAreSound'
  BY <1>5, RowsSame DEF DeferFails, FinishFails, PauseFails
<1> QED BY <1>1, <1>2, <1>3, <1>4, <1>5 DEF CloseStep

\* The worker's other writes: heartbeat, delivered revision, input.
LEMMA WorkerSound ==
  ASSUME TypeOK, Safe, RowsAreSound, NEW w \in Worker, WorkerStep(w) \/ Heartbeat(w) \/ Crash(w)
  PROVE  RowsAreSound'
<1>1. CASE run' = run BY <1>1, RowsSame
<1>2. CASE ClaimCommit(w) BY <1>2, ClaimSound
<1>3. CASE CloseStep(w) BY <1>3, CloseSound
<1>f. ASSUME leg[w].run \in Run PROVE run[leg[w].run] \in Row /\ Sound(run[leg[w].run])
  BY <1>f, Rows DEF RowsAreSound
<1>4. ASSUME Heartbeat(w) PROVE RowsAreSound'
  <2>1. leg[w].run \in Run BY <1>4 DEF Heartbeat, Fenced
  <2>2. Sound([run[leg[w].run] EXCEPT !.lease = "live"]) BY <1>f, <2>1 DEF Sound, Row
  <2> QED BY <1>4, <2>1, <2>2, RowSet DEF Heartbeat
<1>5. ASSUME MarkInboxDelivered(w) PROVE RowsAreSound'
  <2> DEFINE row == [run[leg[w].run] EXCEPT !.delivered = IF @ < leg[w].seen THEN leg[w].seen ELSE @]
  <2>1. /\ leg[w].run \in Run /\ run[leg[w].run].status = "running"
        /\ run[leg[w].run].inbox >= leg[w].seen /\ SetRow(leg[w].run, row)
    BY <1>5 DEF MarkInboxDelivered, Deliver, Fenced
  <2>2. leg[w].seen \in Nat BY Legs DEF Leg
  <2>3. Sound(row) BY <1>f, <2>1, <2>2 DEF Sound, Row
  <2> HIDE DEF row
  <2> QED BY <2>1, <2>3, RowSet
<1>6. ASSUME MarkInputApplied(w), run' # run PROVE RowsAreSound'
  <2>1. /\ leg[w].run \in Run /\ run[leg[w].run].input \in {"claimed", "applied"}
        /\ SetRow(leg[w].run, [run[leg[w].run] EXCEPT !.input = "applied"])
    BY <1>6 DEF MarkInputApplied, Safe, LegShape
  <2>2. Sound([run[leg[w].run] EXCEPT !.input = "applied"]) BY <1>f, <2>1 DEF Sound, Row
  <2> QED BY <2>1, <2>2, RowSet
<1>7. ASSUME ~ClaimCommit(w), ~CloseStep(w), ~Heartbeat(w), ~MarkInboxDelivered(w),
             ~MarkInputApplied(w)
      PROVE  run' = run
  <2>1. ASSUME ClaimStep(w) PROVE run' = run
    BY <1>7, <2>1 DEF ClaimStep, ClaimSelect, ClaimConflict
  <2>2. ASSUME AskStep(w) \/ ToolStep(w) PROVE run' = run
    BY <2>2 DEF AskStep, AskStart, AskRefused, AskInsert, AskFinish, AskCheck, AskDuplicate,
                ToolStep, ToolStart, OpenTool, ToolGuardPasses, ToolFinish
  <2>3. ASSUME \/ LegStep(w) \/ (\E out \in Outcomes : LegEnds(w, out)) \/ LegFails(w)
               \/ Crash(w)
        PROVE  run' = run
    BY <1>7, <2>3 DEF LegStep, StartLeg, CheckPendingDecision, Abandon, LegEnds, LegFails, Crash
  <2> QED BY <1>7, <2>1, <2>2, <2>3 DEF WorkerStep
<1> QED BY <1>1, <1>2, <1>3, <1>4, <1>5, <1>6, <1>7

\* An answer is only counted while the run is not final.
LEMMA UserSound ==
  ASSUME TypeOK, RowsAreSound, NEW d \in Decision,
         ResolveDecision(d) \/ DismissDecision(d) \/ RequeueWaitingRun(d)
  PROVE  RowsAreSound'
<1> DEFINE r == AskedBy[d]
<1>r. r \in Run /\ run[r] \in Row /\ Sound(run[r])
  BY Rows, StoreAssumption DEF StoreAssumption, RowsAreSound
<1>1. ASSUME run' = run PROVE RowsAreSound' BY <1>1, RowsSame
<1>2. ASSUME ResolveDecision(d) \/ DismissDecision(d) PROVE RowsAreSound'
  <2>1. \/ run' = run
        \/ run[r].status \notin Terminal /\ SetRow(r, [run[r] EXCEPT !.inbox = @ + 1])
    BY <1>2 DEF ResolveDecision, DismissDecision
  <2>2. run[r].status \notin Terminal => Sound([run[r] EXCEPT !.inbox = @ + 1])
    BY <1>r DEF Sound, Row, Terminal
  <2> HIDE DEF r
  <2> QED BY <1>r, <1>1, <2>1, <2>2, RowSet
<1>3. ASSUME RequeueWaitingRun(d), Resumable(r) PROVE RowsAreSound'
  <2>1. SetRow(r, [run[r] EXCEPT !.status = "queued", !.parked = FALSE])
    BY <1>3 DEF RequeueWaitingRun
  <2>2. run[r].status = "waiting_decision" BY <1>3 DEF Resumable
  <2>3. Sound([run[r] EXCEPT !.status = "queued", !.parked = FALSE])
    BY <1>r, <2>2 DEF Sound, Row, Active
  <2> HIDE DEF r
  <2> QED BY <1>r, <2>1, <2>3, RowSet
<1>4. ASSUME RequeueWaitingRun(d), ~Resumable(r) PROVE RowsAreSound'
  BY <1>1, <1>4 DEF RequeueWaitingRun
<1> QED BY <1>2, <1>3, <1>4

\* No run is inserted yet.
LEMMA SoundInit == Init => RowsAreSound
<1> SUFFICES ASSUME Init, NEW r \in Run PROVE Sound(run[r]) BY DEF RowsAreSound
<1>1. run[r] = NewRow BY DEF Init
<1>2. Sound(NewRow) BY DEF NewRow, Sound, Active
<1> QED BY <1>1, <1>2

\* Every step keeps the rows sound.
LEMMA SoundNext == TypeOK /\ Safe /\ RowsAreSound /\ [Next]_vars => RowsAreSound'
<1> SUFFICES ASSUME TypeOK, Safe, RowsAreSound, [Next]_vars PROVE RowsAreSound' OBVIOUS
<1>1. CASE UNCHANGED vars BY <1>1, RowsSame DEF vars
<1>2. ASSUME NEW w \in Worker, WorkerStep(w) \/ Heartbeat(w) \/ Crash(w) PROVE RowsAreSound'
  BY <1>2, WorkerSound
<1>3. ASSUME NEW r \in Run, LeaseStep(r) \/ CancelOneQueuedRun(r) \/ Command(r)
      PROVE  RowsAreSound'
  BY <1>3, LeaseSound, CommandSound DEF LeaseStep
<1>4. ASSUME NEW d \in Decision,
             ResolveDecision(d) \/ DismissDecision(d) \/ RequeueWaitingRun(d)
      PROVE  RowsAreSound'
  BY <1>4, UserSound
<1>5. ASSUME NEW duty \in duties, AppendEvent(duty) \/ LosePostCommitStep(duty)
      PROVE  RowsAreSound'
  BY <1>5, RowsSame DEF AppendEvent, LosePostCommitStep
<1> QED BY <1>1, <1>2, <1>3, <1>4, <1>5 DEF Next

\* Every row is sound in every reachable state.
LEMMA AlwaysSound == Spec => []RowsAreSound
<1>1. Inv /\ Inv' /\ RowsAreSound /\ [Next]_vars => RowsAreSound' BY SoundNext DEF Inv, Safe
<1> QED BY <1>1, SoundInit, Invariance, PTL DEF Spec

\* The status of an input and of its run, written by different statements of
\* different functions, never contradict each other.
THEOREM InputFollows == Spec => []InputFollowsRun
<1>1. RowsAreSound => InputFollowsRun
  BY DEF RowsAreSound, Sound, InputFollowsRun, Active
<1> QED BY <1>1, AlwaysSound, PTL

\* lease.rs finish_run: a run that is completed has told the agent every answer
\* it was given, and was not cancelled.
THEOREM CompletedIsDelivered == Spec => []CompletedMeansDelivered
<1>1. RowsAreSound => CompletedMeansDelivered
  BY DEF RowsAreSound, Sound, CompletedMeansDelivered
<1> QED BY <1>1, AlwaysSound, PTL

----------------------------------------------------------------------------
\* A step that changes the leg of one worker leaves the others' alone.
LEMMA OwnLeg ==
  ASSUME NEW w \in Worker, NEW v \in Worker, NEW l, SetLeg(v, l), leg'[w] # leg[w],
         leg \in [Worker -> Leg]
  PROVE  v = w
BY DEF SetLeg

\* What a worker without its lease may still write.
Harmless == /\ \A r \in Run : run'[r] = [run[r] EXCEPT !.input = run'[r].input]
            /\ UNCHANGED <<events, open, decision>>

\* A step that writes nothing is harmless.
LEMMA KeepsHarmless ==
  ASSUME TypeOK, UNCHANGED <<run, events, open, decision>>
  PROVE  Harmless
<1> SUFFICES ASSUME NEW r \in Run PROVE run[r] = [run[r] EXCEPT !.input = run[r].input]
  BY DEF Harmless
<1> run[r] \in Row BY Rows
<1> QED BY DEF Row

\* The leg of a worker is only changed by the worker's own steps.
LEMMA StepIsOwn ==
  ASSUME TypeOK, NEW w \in Worker, NEW v \in Worker, leg'[w] # leg[w],
         WorkerStep(v) \/ Heartbeat(v) \/ Crash(v)
  PROVE  v = w
<1> leg \in [Worker -> Leg] BY DEF TypeOK
<1>1. \/ leg' = leg
      \/ \E l : SetLeg(v, l)
  <2>1. ASSUME ClaimStep(v) PROVE \E l : SetLeg(v, l)
    BY <2>1 DEF ClaimStep, ClaimSelect, ClaimCommit, ClaimUpdate, ClaimConflict, Release
  <2>2. ASSUME AskStep(v) PROVE \E l : SetLeg(v, l)
    BY <2>2 DEF AskStep, AskStart, AskRefused, AskInsert, AskFinish, AskCheck, AskDuplicate
  <2>3. ASSUME ToolStep(v) PROVE \E l : SetLeg(v, l)
    BY <2>3 DEF ToolStep, ToolStart, OpenTool, ToolGuardPasses, ToolFinish, Step
  <2>4. ASSUME CloseStep(v) PROVE \E l : SetLeg(v, l)
    BY <2>4 DEF CloseStep, DeferRunForProviderRetry, Defer, DeferFails, FinishRequeues, FinishRun,
                Finish, FinishFails, PauseRunForDecision, Pause, PauseFails, Release
  <2>5. ASSUME LegStep(v) PROVE \E l : SetLeg(v, l)
    <3>1. ASSUME MarkInputApplied(v) PROVE \E l : SetLeg(v, l)
      BY <3>1 DEF MarkInputApplied, Step
    <3> QED BY <2>5, <3>1 DEF LegStep, StartLeg, MarkInboxDelivered, Deliver,
                              CheckPendingDecision, Abandon, Release
  <2>6. ASSUME (\E out \in Outcomes : LegEnds(v, out)) \/ LegFails(v) \/ Crash(v)
        PROVE  \E l : SetLeg(v, l)
    BY <2>6 DEF LegEnds, LegFails, Crash, Release
  <2>7. ASSUME Heartbeat(v) PROVE leg' = leg BY <2>7 DEF Heartbeat
  <2> QED BY <2>1, <2>2, <2>3, <2>4, <2>5, <2>6, <2>7 DEF WorkerStep
<1> QED BY <1>1, OwnLeg

\* Every other write of the leg compares owner and epoch first.
LEMMA UnfencedStep ==
  ASSUME TypeOK, Safe, NEW w \in Worker, ~Fenced(w),
         leg[w].pc \notin {"idle", "selected", "inserting"},
         WorkerStep(w) \/ Crash(w)
  PROVE  Harmless
<1>1. ASSUME ~MarkInputApplied(w) PROVE UNCHANGED <<run, events, open, decision>>
  <2>1. ~ClaimStep(w) BY DEF ClaimStep, ClaimSelect, ClaimCommit, ClaimUpdate, ClaimConflict
  <2>2. ASSUME AskStep(w) PROVE UNCHANGED <<run, events, open, decision>>
    BY <2>2 DEF AskStep, AskStart, AskRefused, AskInsert, AskFinish, AskCheck, AskDuplicate
  <2>3. ASSUME ToolStep(w) PROVE UNCHANGED <<run, events, open, decision>>
    BY <2>3 DEF ToolStep, ToolStart, ToolGuardPasses, ToolFinish
  <2>4. ASSUME CloseStep(w) PROVE UNCHANGED <<run, events, open, decision>>
    BY <2>4 DEF CloseStep, DeferRunForProviderRetry, Defer, DeferFails, FinishRequeues, FinishRun,
                FinishFails, PauseRunForDecision, Pause, PauseFails
  <2>5. ASSUME LegStep(w) PROVE UNCHANGED <<run, events, open, decision>>
    BY <1>1, <2>5 DEF LegStep, StartLeg, MarkInboxDelivered, Deliver, CheckPendingDecision, Abandon
  <2>6. ASSUME (\E out \in Outcomes : LegEnds(w, out)) \/ LegFails(w) \/ Crash(w)
        PROVE  UNCHANGED <<run, events, open, decision>>
    BY <2>6 DEF LegEnds, LegFails, Crash
  <2> QED BY <2>1, <2>2, <2>3, <2>4, <2>5, <2>6 DEF WorkerStep
<1>2. ASSUME MarkInputApplied(w) PROVE Harmless
  <2> DEFINE q == leg[w].run
  <2>1. /\ q \in Run /\ UNCHANGED <<events, open, decision>>
        /\ run' = run \/ SetRow(q, [run[q] EXCEPT !.input = "applied"])
    BY <1>2 DEF MarkInputApplied, Safe, LegShape
  <2> HIDE DEF q
  <2>2. CASE run' = run BY <2>1, <2>2, KeepsHarmless
  <2>3. CASE SetRow(q, [run[q] EXCEPT !.input = "applied"])
    <3> SUFFICES ASSUME NEW r \in Run
                 PROVE  run'[r] = [run[r] EXCEPT !.input = run'[r].input]
      BY <2>1 DEF Harmless
    <3>1. run \in [Run -> Row] /\ run[r] \in Row BY DEF TypeOK
    <3>2. run'[r] = IF r = q THEN [run[r] EXCEPT !.input = "applied"] ELSE run[r]
      BY <2>1, <2>3, <3>1 DEF SetRow
    <3> QED BY <3>1, <3>2 DEF Row
  <2> QED BY <2>1, <2>2, <2>3
<1> QED BY <1>1, <1>2, KeepsHarmless

\* Owner and epoch fence a worker whose lease moved on: all it can still change
\* is the status of the input, which the database guards on its own, and the
\* decision of a question it was already inserting.
THEOREM StaleIsHarmless == Spec => StaleWorkerIsHarmless
<1> DEFINE Stays == \A w \in Worker :
             (/\ leg[w].pc \notin {"idle", "selected", "inserting"}
              /\ ~Fenced(w) /\ leg'[w] # leg[w])
             => Harmless
<1>1. TypeOK /\ Safe /\ [Next]_vars => Stays
  <2> SUFFICES ASSUME TypeOK, Safe, [Next]_vars, NEW w \in Worker,
                      leg[w].pc \notin {"idle", "selected", "inserting"},
                      ~Fenced(w), leg'[w] # leg[w]
               PROVE  Harmless
    OBVIOUS
  <2>1. \E v \in Worker : WorkerStep(v) \/ Heartbeat(v) \/ Crash(v)
    <3>1. ASSUME NEW r \in Run, LeaseStep(r) \/ CancelOneQueuedRun(r) \/ Command(r)
          PROVE  leg' = leg
      BY <3>1 DEF LeaseStep, ReconcileOneStaleRun, ReconcilePause, ReconcileFail, ReconcileRequeue,
                  LeaseLapses, BackoffElapses, CancelOneQueuedRun, CancelIn, Command,
                  EnqueueChatRun, RequestCancel, RequestProviderRetryNow, CancelQueuedInput
    <3>2. ASSUME NEW d \in Decision,
                 ResolveDecision(d) \/ DismissDecision(d) \/ RequeueWaitingRun(d)
          PROVE  leg' = leg
      BY <3>2 DEF ResolveDecision, DismissDecision, RequeueWaitingRun
    <3>3. ASSUME NEW duty \in duties, AppendEvent(duty) \/ LosePostCommitStep(duty)
          PROVE  leg' = leg
      BY <3>3 DEF AppendEvent, LosePostCommitStep
    <3> QED BY <3>1, <3>2, <3>3 DEF Next, vars
  <2>2. WorkerStep(w) \/ Heartbeat(w) \/ Crash(w) BY <2>1, StepIsOwn
  <2>3. ~Heartbeat(w) BY DEF Heartbeat
  <2> QED BY <2>2, <2>3, UnfencedStep
<1>2. Inv /\ [Next]_vars => [Stays]_vars BY <1>1 DEF Inv, Safe
<1>3. [Stays]_vars => [\A w \in Worker :
       (/\ leg[w].pc \notin {"idle", "selected", "inserting"}
        /\ ~Fenced(w) /\ leg'[w] # leg[w])
       => /\ \A r \in Run : run'[r] = [run[r] EXCEPT !.input = run'[r].input]
          /\ UNCHANGED <<events, open, decision>>]_vars
  BY DEF Harmless
<1> QED BY <1>2, <1>3, Invariance, PTL DEF Spec, StaleWorkerIsHarmless

----------------------------------------------------------------------------
(* A waiting run has something that will wake it                           *)

\* What a leg holds as its decision was asked by the run it executes.
AskIsOwn == \A w \in Worker :
  leg[w].ask \in Decision => leg[w].pc # "idle" /\ AskedBy[leg[w].ask] = leg[w].run

\* No run is left waiting by this step that was not stranded before it.
NoneStranded == \A r \in Run : Stranded(r)' => Stranded(r)

\* A leg goes on with its run and the decision it holds.
Keeps(w, l) == l.ask = leg[w].ask /\ l.run = leg[w].run /\ l.pc # "idle"

\* A leg keeps its decision and its run, or gives its decision up.
LEMMA LegKeepsAsk ==
  ASSUME TypeOK, AskIsOwn, NEW w \in Worker, NEW l, SetLeg(w, l),
         \/ l.ask = NoDecision
         \/ Keeps(w, l)
         \/ l.pc # "idle" /\ AskedBy[l.ask] = l.run
  PROVE  AskIsOwn'
<1>1. leg \in [Worker -> Leg] BY DEF TypeOK
<1>2. \A v \in Worker : leg'[v] = IF v = w THEN l ELSE leg[v] BY <1>1 DEF SetLeg
<1>3. NoDecision \notin Decision BY StoreAssumption DEF StoreAssumption
<1> SUFFICES ASSUME NEW v \in Worker, leg'[v].ask \in Decision
             PROVE  leg'[v].pc # "idle" /\ AskedBy[leg'[v].ask] = leg'[v].run
  BY DEF AskIsOwn
<1> QED BY <1>2, <1>3 DEF AskIsOwn, Keeps

\* A decision is read before it is inserted, or found pending, by the run
\* whose leg asks.
LEMMA AskIsKept ==
  ASSUME TypeOK, AskIsOwn, NEW w \in Worker, WorkerStep(w) \/ Heartbeat(w) \/ Crash(w)
  PROVE  AskIsOwn'
<1>l. leg[w] \in Leg BY Legs
<1>r. ASSUME Release(w) PROVE AskIsOwn'
  <2>1. SetLeg(w, IdleLeg) /\ IdleLeg.ask = NoDecision BY <1>r DEF Release, IdleLeg
  <2> HIDE DEF IdleLeg
  <2> QED BY <2>1, LegKeepsAsk
<1>n. ASSUME NEW l, SetLeg(w, l), l.ask = NoDecision PROVE AskIsOwn' BY <1>n, LegKeepsAsk
<1>k. ASSUME NEW l, SetLeg(w, l), Keeps(w, l) PROVE AskIsOwn' BY <1>k, LegKeepsAsk
<1>1. ASSUME ClaimStep(w) PROVE AskIsOwn'
  <2>1. ASSUME NEW r \in Run, ClaimSelect(w, r) PROVE AskIsOwn'
    <3>1. SetLeg(w, [IdleLeg EXCEPT !.pc = "selected", !.run = r]) BY <2>1 DEF ClaimSelect
    <3>2. [IdleLeg EXCEPT !.pc = "selected", !.run = r].ask = NoDecision BY DEF IdleLeg
    <3> QED BY <1>n, <3>1, <3>2, Zenon
  <2>2. ASSUME ClaimCommit(w) PROVE AskIsOwn'
    <3>1. PICK n : SetLeg(w, [leg[w] EXCEPT !.pc = "claimed", !.epoch = n])
      BY <2>2, Zenon DEF ClaimCommit, ClaimUpdate
    <3>2. Keeps(w, [leg[w] EXCEPT !.pc = "claimed", !.epoch = n]) BY <1>l DEF Keeps, Leg
    <3> QED BY <1>k, <3>1, <3>2, Zenon
  <2> QED BY <1>1, <1>r, <2>1, <2>2 DEF ClaimStep, ClaimConflict
<1>p. ASSUME NEW pc, pc # "idle", SetLeg(w, [leg[w] EXCEPT !.pc = pc]) PROVE AskIsOwn'
  <2>1. Keeps(w, [leg[w] EXCEPT !.pc = pc]) BY <1>l, <1>p DEF Keeps, Leg
  <2> QED BY <1>k, <1>p, <2>1, Zenon
<1>2. ASSUME LegStep(w) PROVE AskIsOwn'
  <2>1. ASSUME StartLeg(w) PROVE AskIsOwn'
    <3>1. PICK n : SetLeg(w, [leg[w] EXCEPT !.pc = "prepared", !.seen = n])
      BY <2>1, Zenon DEF StartLeg
    <3>2. Keeps(w, [leg[w] EXCEPT !.pc = "prepared", !.seen = n]) BY <1>l DEF Keeps, Leg
    <3> QED BY <1>k, <3>1, <3>2, Zenon
  <2>2. ASSUME MarkInboxDelivered(w) PROVE AskIsOwn'
    BY <1>p, <2>2 DEF MarkInboxDelivered, Deliver
  <2>3. ASSUME MarkInputApplied(w) PROVE AskIsOwn'
    <3>1. \/ SetLeg(w, [leg[w] EXCEPT !.pc = "working"])
          \/ SetLeg(w, [leg[w] EXCEPT !.pc = "closing", !.out = "abort"])
      BY <2>3, Zenon DEF MarkInputApplied, Step
    <3>2. Keeps(w, [leg[w] EXCEPT !.pc = "closing", !.out = "abort"]) BY <1>l DEF Keeps, Leg
    <3> QED BY <1>k, <1>p, <3>1, <3>2, Zenon
  <2>4. ASSUME CheckPendingDecision(w) PROVE AskIsOwn'
    <3>1. PICK d : /\ d = NoDecision \/ d \in PendingDecisionForRun(leg[w].run)
                   /\ SetLeg(w, [leg[w] EXCEPT !.pc = "closing", !.ask = d])
      <4> DEFINE D == IF PendingDecisionForRun(leg[w].run) = {} THEN {NoDecision}
                      ELSE PendingDecisionForRun(leg[w].run)
      <4>1. PICK d \in D : SetLeg(w, [leg[w] EXCEPT !.pc = "closing", !.ask = d])
        BY <2>4, Zenon DEF CheckPendingDecision
      <4>2. d = NoDecision \/ d \in PendingDecisionForRun(leg[w].run) OBVIOUS
      <4> QED BY <4>1, <4>2, Zenon
    <3>2. d = NoDecision \/ AskedBy[d] = leg[w].run
      BY <3>1 DEF PendingDecisionForRun, BlockersOf, PendingOf
    <3> DEFINE l == [leg[w] EXCEPT !.pc = "closing", !.ask = d]
    <3>3. l.ask = d /\ l.run = leg[w].run /\ l.pc # "idle" BY <1>l DEF Leg
    <3>4. SetLeg(w, l) BY <3>1
    <3> HIDE DEF l
    <3> QED BY <3>2, <3>3, <3>4, LegKeepsAsk
  <2>5. ASSUME Abandon(w) PROVE AskIsOwn' BY <1>r, <2>5 DEF Abandon
  <2> QED BY <1>2, <2>1, <2>2, <2>3, <2>4, <2>5 DEF LegStep
<1>3. ASSUME AskStep(w) PROVE AskIsOwn'
  <2>1. ASSUME AskStart(w) \/ AskRefused(w) \/ AskInsert(w) PROVE AskIsOwn'
    <3>1. PICK pc \in {"asking", "asked"} : SetLeg(w, [leg[w] EXCEPT !.pc = pc])
      BY <2>1 DEF AskStart, AskRefused, AskInsert
    <3> QED BY <1>p, <3>1
  <2>2. ASSUME AskFinish(w) PROVE AskIsOwn'
    <3>1. PICK l : SetLeg(w, l) /\ l.ask = NoDecision
      <4>1. /\ [leg[w] EXCEPT !.pc = "ended", !.out = "done", !.ask = NoDecision].ask = NoDecision
            /\ [leg[w] EXCEPT !.pc = "working", !.ask = NoDecision].ask = NoDecision
        BY <1>l DEF Leg
      <4> QED BY <2>2, <4>1 DEF AskFinish
    <3> QED BY <1>n, <3>1, Zenon
  <2>3. ASSUME NEW d \in Decision, AskCheck(w, d) \/ AskDuplicate(w, d) PROVE AskIsOwn'
    <3>1. PICK pc \in {"inserting", "asked"} : SetLeg(w, [leg[w] EXCEPT !.pc = pc, !.ask = d])
      BY <2>3 DEF AskCheck, AskDuplicate
    <3>2. AskedBy[d] = leg[w].run BY <2>3 DEF AskCheck, AskDuplicate, PendingOf
    <3> DEFINE l == [leg[w] EXCEPT !.pc = pc, !.ask = d]
    <3>3. l.ask = d /\ l.run = leg[w].run /\ l.pc # "idle" BY <1>l DEF Leg
    <3>4. SetLeg(w, l) BY <3>1
    <3> HIDE DEF l
    <3> QED BY <3>2, <3>3, <3>4, LegKeepsAsk
  <2> QED BY <1>3, <2>1, <2>2, <2>3 DEF AskStep
<1>4. ASSUME ToolStep(w) PROVE AskIsOwn'
  <2>1. PICK pc \in {"tool", "effect", "working"} : SetLeg(w, [leg[w] EXCEPT !.pc = pc])
    BY <1>4 DEF ToolStep, ToolStart, OpenTool, ToolGuardPasses, ToolFinish, Step
  <2> QED BY <1>p, <2>1
<1>5. ASSUME CloseStep(w) PROVE AskIsOwn'
  <2>1. ASSUME PauseFails(w) PROVE AskIsOwn'
    <3>1. SetLeg(w, [leg[w] EXCEPT !.out = "abort", !.ask = NoDecision]) BY <2>1 DEF PauseFails
    <3>2. [leg[w] EXCEPT !.out = "abort", !.ask = NoDecision].ask = NoDecision BY <1>l DEF Leg
    <3> QED BY <1>n, <3>1, <3>2, Zenon
  <2> QED BY <1>5, <1>r, <2>1
          DEF CloseStep, DeferRunForProviderRetry, Defer, DeferFails, FinishRequeues, FinishRun,
              Finish, FinishFails, PauseRunForDecision, Pause
<1>6. ASSUME NEW out \in Outcomes, LegEnds(w, out) PROVE AskIsOwn'
  <2>1. PICK pc \in {"ended", "closing"} : SetLeg(w, [leg[w] EXCEPT !.pc = pc, !.out = out])
    BY <1>6 DEF LegEnds
  <2>2. Keeps(w, [leg[w] EXCEPT !.pc = pc, !.out = out]) BY <1>l DEF Keeps, Leg
  <2> QED BY <1>k, <2>1, <2>2, Zenon
<1>7. ASSUME LegFails(w) PROVE AskIsOwn'
  <2>1. SetLeg(w, [leg[w] EXCEPT !.pc = "closing", !.out = "abort", !.ask = NoDecision])
    BY <1>7 DEF LegFails
  <2>2. [leg[w] EXCEPT !.pc = "closing", !.out = "abort", !.ask = NoDecision].ask = NoDecision
    BY <1>l DEF Leg
  <2> QED BY <1>n, <2>1, <2>2, Zenon
<1>8. ASSUME Heartbeat(w) PROVE AskIsOwn' BY <1>8 DEF Heartbeat, AskIsOwn
<1> QED BY <1>1, <1>2, <1>3, <1>4, <1>5, <1>6, <1>7, <1>8, <1>r DEF WorkerStep, Crash

LEMMA AskIsInductive ==
  /\ Init => AskIsOwn
  /\ TypeOK /\ AskIsOwn /\ [Next]_vars => AskIsOwn'
<1>1. Init => AskIsOwn
  BY StoreAssumption DEF Init, AskIsOwn, IdleLeg, StoreAssumption
<1>2. ASSUME TypeOK, AskIsOwn, [Next]_vars PROVE AskIsOwn'
  <2>0. ASSUME leg' = leg PROVE AskIsOwn' BY <1>2, <2>0 DEF AskIsOwn
  <2>1. ASSUME NEW w \in Worker, WorkerStep(w) \/ Heartbeat(w) \/ Crash(w) PROVE AskIsOwn'
    BY <1>2, <2>1, AskIsKept
  <2>2. ASSUME NEW r \in Run, LeaseStep(r) \/ CancelOneQueuedRun(r) \/ Command(r)
        PROVE  leg' = leg
    BY <2>2 DEF LeaseStep, ReconcileOneStaleRun, ReconcilePause, ReconcileFail, ReconcileRequeue,
                LeaseLapses, BackoffElapses, CancelOneQueuedRun, CancelIn, Command,
                EnqueueChatRun, RequestCancel, RequestProviderRetryNow, CancelQueuedInput
  <2>3. ASSUME NEW d \in Decision,
               ResolveDecision(d) \/ DismissDecision(d) \/ RequeueWaitingRun(d)
        PROVE  leg' = leg
    BY <2>3 DEF ResolveDecision, DismissDecision, RequeueWaitingRun
  <2>4. ASSUME NEW duty \in duties, AppendEvent(duty) \/ LosePostCommitStep(duty)
        PROVE  leg' = leg
    BY <2>4 DEF AppendEvent, LosePostCommitStep
  <2> QED BY <1>2, <2>0, <2>1, <2>2, <2>3, <2>4 DEF Next, vars
<1> QED BY <1>1, <1>2

\* Waiting, and not yet asked to stop.
Waits(r) == run[r].status = "waiting_decision" /\ ~run[r].cancel

\* The duties a waiting run is woken by.
Wakes(r) == {d \in Decision : [run |-> r, step |-> Requeue(d)] \in duties}

LEMMA StrandedMeans == ASSUME NEW r \in Run
  PROVE Stranded(r) <=> (Waits(r) /\ PendingOf(r) = {} /\ Wakes(r) = {})
BY DEF Stranded, Waits, Wakes

\* A step that starts no wait and takes away no question and no requeue
\* strands nobody.
LEMMA NothingLost ==
  ASSUME decision' = decision, duties \subseteq duties', \A r \in Run : Waits(r)' => Waits(r)
  PROVE  NoneStranded
BY DEF NoneStranded, Stranded, Waits, PendingOf

\* One row is written; if its run waits after the step, it waited before.
LEMMA RowStrandsNone ==
  ASSUME TypeOK, NEW r \in Run, NEW row, SetRow(r, row), decision' = decision,
         duties \subseteq duties',
         row.status = "waiting_decision" /\ ~row.cancel => Waits(r)
  PROVE  NoneStranded
<1> run \in [Run -> Row] BY DEF TypeOK
<1>1. \A q \in Run : run'[q] = IF q = r THEN row ELSE run[q] BY DEF SetRow
<1>2. \A q \in Run : Waits(q)' => Waits(q) BY <1>1 DEF Waits
<1> QED BY <1>2, NothingLost

LEMMA SameStrandsNone ==
  ASSUME run' = run, decision' = decision, duties \subseteq duties'
  PROVE  NoneStranded
<1>1. \A q \in Run : Waits(q)' => Waits(q) BY DEF Waits
<1> QED BY <1>1, NothingLost

\* A step that concerns the run and the questions of r alone, and leaves r
\* awake, asked, or with a requeue to come.
LEMMA OneRunAwake ==
  ASSUME NEW r \in Run,
         \A q \in Run \ {r} : run'[q] = run[q],
         \A d \in Decision : AskedBy[d] # r => decision'[d] = decision[d],
         \A duty \in duties : duty.run # r => duty \in duties',
         ~Waits(r)' \/ PendingOf(r)' # {} \/ Wakes(r)' # {}
  PROVE  NoneStranded
<1> SUFFICES ASSUME NEW q \in Run, Stranded(q)' PROVE Stranded(q) BY DEF NoneStranded
<1>1. CASE q = r BY <1>1 DEF Stranded, Waits, Wakes
<1>2. CASE q # r
  <2>1. Waits(q) BY <1>2 DEF Stranded, Waits
  <2>2. PendingOf(q) = {} BY <1>2 DEF Stranded, PendingOf
  <2>3. \A d \in Decision : [run |-> q, step |-> Requeue(d)] \notin duties
    BY <1>2 DEF Stranded
  <2> QED BY <2>1, <2>2, <2>3 DEF Stranded, Waits
<1> QED BY <1>1, <1>2

----------------------------------------------------------------------------
(* The actions                                                             *)

\* A cancelled run does not wait; the questions it takes along are its own.
LEMMA CommandStrandsNone ==
  ASSUME TypeOK, NEW r \in Run, Command(r) \/ CancelOneQueuedRun(r) \/ BackoffElapses(r)
  PROVE  NoneStranded
<1>row. run[r] \in Row BY Rows
<1>1. ASSUME EnqueueChatRun(r) PROVE NoneStranded
  <2>1. [run[r] EXCEPT !.status = "queued", !.input = "queued"].status = "queued" BY <1>row DEF Row
  <2> QED BY <1>1, <2>1, RowStrandsNone DEF EnqueueChatRun
<1>2. ASSUME RequestCancel(r) PROVE NoneStranded
  <2>1. [run[r] EXCEPT !.cancel = TRUE].cancel BY <1>row DEF Row
  <2> QED BY <1>2, <2>1, RowStrandsNone DEF RequestCancel
<1>3. ASSUME RequestProviderRetryNow(r) \/ BackoffElapses(r) PROVE NoneStranded
  <2>1. [run[r] EXCEPT !.parked = FALSE].status = run[r].status BY <1>row DEF Row
  <2>2. run[r].status = "queued" BY <1>3 DEF RequestProviderRetryNow, BackoffElapses
  <2> QED BY <1>3, <2>1, <2>2, RowStrandsNone DEF RequestProviderRetryNow, BackoffElapses
<1>4. ASSUME CancelQueuedInput(r) PROVE NoneStranded
  <2>1. [run[r] EXCEPT !.status = "cancelled", !.cancel = TRUE, !.input = "cancelled"].cancel
    BY <1>row DEF Row
  <2> QED BY <1>4, <2>1, RowStrandsNone DEF CancelQueuedInput, AddDuty
<1>5. ASSUME CancelOneQueuedRun(r) PROVE NoneStranded
  <2> DEFINE row == [run[r] EXCEPT !.status = "cancelled",
                       !.input = IF @ \in {"queued", "claimed"} THEN "cancelled" ELSE @]
  <2>1. row.status = "cancelled" BY <1>row DEF Row
  <2>2. SetRow(r, row) BY <1>5 DEF CancelOneQueuedRun, CancelIn
  <2> HIDE DEF row
  <2>3. run \in [Run -> Row] BY DEF TypeOK
  <2>4. run'[r] = row /\ \A q \in Run \ {r} : run'[q] = run[q] BY <2>2, <2>3 DEF SetRow
  <2>5. \A d \in Decision : AskedBy[d] # r => decision'[d] = decision[d]
    BY <1>5 DEF CancelOneQueuedRun, CancelIn, PendingOf
  <2>6. duties \subseteq duties' BY <1>5 DEF CancelOneQueuedRun, CancelIn, AddDuty
  <2>7. ~Waits(r)' BY <2>1, <2>4 DEF Waits
  <2> QED BY <2>4, <2>5, <2>6, <2>7, OneRunAwake
<1> QED BY <1>1, <1>2, <1>3, <1>4, <1>5 DEF Command

\* Recovery lets a run wait only for a blocking question that is pending.
LEMMA LeaseStrandsNone ==
  ASSUME TypeOK, NEW r \in Run, LeaseLapses(r) \/ ReconcileOneStaleRun(r)
  PROVE  NoneStranded
<1>row. run[r] \in Row BY Rows
<1>st. {"queued", "failed", "waiting_decision"} \subseteq Status BY DEF Status, Active, Terminal
<1>1. ASSUME LeaseLapses(r) PROVE NoneStranded
  <2>1. [run[r] EXCEPT !.lease = "expired"].status = run[r].status BY <1>row DEF Row
  <2>2. run[r].status = "running" BY <1>1 DEF LeaseLapses
  <2> QED BY <1>1, <2>1, <2>2, RowStrandsNone DEF LeaseLapses
<1>2. ASSUME ReconcilePause(r) PROVE NoneStranded
  <2>1. PICK d \in PendingOf(r) : AddDuty(r, RunPaused(d))
    BY <1>2 DEF ReconcilePause, BlockersOf
  <2>2. PendingOf(r)' = PendingOf(r) BY <1>2 DEF ReconcilePause, PendingOf
  <2>3. run \in [Run -> Row] BY DEF TypeOK
  <2>4. \A q \in Run \ {r} : run'[q] = run[q] BY <1>2, <2>3 DEF ReconcilePause, SetRow
  <2>5. decision' = decision /\ duties \subseteq duties' BY <1>2, <2>1 DEF ReconcilePause, AddDuty
  <2>6. PendingOf(r)' # {} BY <2>1, <2>2
  <2> QED BY <2>4, <2>5, <2>6, OneRunAwake
<1>3. ASSUME ReconcileFail(r) PROVE NoneStranded
  <2>1. Unleased(run[r], "failed").status = "failed" BY <1>row, <1>st, UnleasedFields
  <2> QED BY <1>3, <2>1, RowStrandsNone DEF ReconcileFail, AddDuty
<1>4. ASSUME ReconcileRequeue(r) PROVE NoneStranded
  <2> DEFINE row == [Unleased(run[r], "queued") EXCEPT
                       !.input = IF @ = "claimed" THEN "queued" ELSE @]
  <2>1. row.status = "queued" BY <1>row DEF Unleased, Row
  <2>2. SetRow(r, row) /\ decision' = decision /\ duties' = duties BY <1>4 DEF ReconcileRequeue
  <2> HIDE DEF row
  <2> QED BY <2>1, <2>2, RowStrandsNone
<1> QED BY <1>1, <1>2, <1>3, <1>4 DEF ReconcileOneStaleRun

\* A worker pauses its run only while the question it holds, its own run's, is
\* pending; a new question supersedes older ones of the same run only.
LEMMA WorkerStrandsNone ==
  ASSUME TypeOK, Safe, AskIsOwn, NEW w \in Worker, WorkerStep(w) \/ Heartbeat(w) \/ Crash(w)
  PROVE  NoneStranded
<1>0. ASSUME run' = run, decision' = decision, duties' = duties PROVE NoneStranded
  BY <1>0, SameStrandsNone
<1>1. ASSUME AskInsert(w) PROVE NoneStranded
  <2>1. PICK d \in Decision : d = leg[w].ask BY <1>1 DEF AskInsert, Safe, LegShape
  <2>2. /\ run' = run /\ duties' = duties
        /\ decision' = [x \in Decision |->
             IF x = d THEN "pending"
             ELSE IF d \in Blocking /\ x \in BlockersOf(AskedBy[d]) THEN "superseded"
             ELSE decision[x]]
    BY <1>1, <2>1 DEF AskInsert
  <2>3. AskedBy[d] \in Run BY StoreAssumption DEF StoreAssumption
  <2>4. \A x \in Decision : AskedBy[x] # AskedBy[d] => decision'[x] = decision[x]
    BY <2>2 DEF BlockersOf, PendingOf
  <2>5. d \in PendingOf(AskedBy[d])' BY <2>2 DEF PendingOf
  <2>6. PendingOf(AskedBy[d])' # {} BY <2>5
  <2>7. /\ \A q \in Run \ {AskedBy[d]} : run'[q] = run[q]
        /\ \A duty \in duties : duty.run # AskedBy[d] => duty \in duties'
    BY <2>2
  <2> QED BY <2>3, <2>4, <2>6, <2>7, OneRunAwake
<1>2. ASSUME CloseStep(w) PROVE NoneStranded
  <2> DEFINE r == leg[w].run
  <2>f. ASSUME Fenced(w) PROVE r \in Run /\ run[r] \in Row BY <2>f, Rows DEF Fenced
  <2>1. ASSUME DeferRunForProviderRetry(w) PROVE NoneStranded
    <3> DEFINE row == [Parked(run[r]) EXCEPT !.retries = @ + 1]
    <3>1. /\ Fenced(w) /\ SetRow(r, row) /\ decision' = decision /\ duties' = duties
      BY <2>1 DEF DeferRunForProviderRetry, Defer
    <3>2. row.status = "queued" BY <2>f, <3>1 DEF Parked, Unleased, Row
    <3> HIDE DEF row
    <3> QED BY <2>f, <3>1, <3>2, RowStrandsNone
  <2>2. ASSUME FinishRequeues(w) PROVE NoneStranded
    <3> DEFINE row == [Unleased(run[r], "queued") EXCEPT !.parked = FALSE]
    <3>1. /\ Fenced(w) /\ SetRow(r, row) /\ decision' = decision /\ duties' = duties
      BY <2>2 DEF FinishRequeues
    <3>2. row.status = "queued" BY <2>f, <3>1 DEF Unleased, Row
    <3> HIDE DEF row
    <3> QED BY <2>f, <3>1, <3>2, RowStrandsNone
  <2>3. ASSUME FinishRun(w) PROVE NoneStranded
    <3> DEFINE s == FinalStatus(w)
               row == [Unleased(run[r], s) EXCEPT
                        !.input = IF @ # "claimed" THEN @
                                  ELSE IF s = "cancelled" THEN "cancelled" ELSE "applied"]
    <3>1. /\ Fenced(w) /\ SetRow(r, row) /\ decision' = decision /\ duties' = duties
      BY <2>3 DEF FinishRun, Finish
    <3>2. s \in Terminal BY FinalIsTerminal
    <3> HIDE DEF s
    <3>3. row.status = s BY <2>f, <3>1 DEF Unleased, Row
    <3> HIDE DEF row
    <3>4. row.status # "waiting_decision" BY <3>2, <3>3 DEF Terminal
    <3> QED BY <2>f, <3>1, <3>4, RowStrandsNone
  <2>4. ASSUME PauseRunForDecision(w) PROVE NoneStranded
    <3> DEFINE s == IF decision[leg[w].ask] = "pending" THEN "waiting_decision" ELSE "queued"
    <3>1. /\ Fenced(w) /\ SetRow(r, Unleased(run[r], s)) /\ decision' = decision
          /\ duties' = duties /\ leg[w].ask \in Decision
      BY <2>4 DEF PauseRunForDecision, Pause, Pausing
    <3>2. Unleased(run[r], s).status = s BY <2>f, <3>1 DEF Unleased, Row
    <3>3. CASE decision[leg[w].ask] = "pending"
      <4>0. PICK q \in Run : q = r BY <2>f, <3>1
      <4>1. leg[w].ask \in PendingOf(q) BY <3>1, <3>3, <4>0 DEF PendingOf, AskIsOwn
      <4>2. PendingOf(q)' = PendingOf(q) BY <3>1 DEF PendingOf
      <4>3. run \in [Run -> Row] BY DEF TypeOK
      <4>4. \A x \in Run \ {q} : run'[x] = run[x] BY <3>1, <4>0, <4>3 DEF SetRow
      <4> HIDE DEF r, s
      <4>5. PendingOf(q)' # {} BY <4>1, <4>2
      <4>6. \A x \in Decision : AskedBy[x] # q => decision'[x] = decision[x] BY <3>1
      <4>7. \A duty \in duties : duty.run # q => duty \in duties' BY <3>1
      <4> QED BY <4>4, <4>5, <4>6, <4>7, OneRunAwake
    <3>4. CASE decision[leg[w].ask] # "pending"
      <4>1. s = "queued" BY <3>4
      <4> HIDE DEF s
      <4> QED BY <2>f, <3>1, <3>2, <4>1, RowStrandsNone
    <3> QED BY <3>3, <3>4
  <2>5. ASSUME DeferFails(w) \/ FinishFails(w) \/ PauseFails(w) PROVE NoneStranded
    BY <1>0, <2>5 DEF DeferFails, FinishFails, PauseFails
  <2> QED BY <1>2, <2>1, <2>2, <2>3, <2>4, <2>5 DEF CloseStep
<1>3. ASSUME ClaimCommit(w) PROVE NoneStranded
  <2> DEFINE r == leg[w].run
             row == [Claimed(run[r]) EXCEPT !.status = "running", !.owner = w,
                       !.epoch = @ + 1, !.lease = "live", !.parked = FALSE]
  <2>1. /\ leg[w].pc = "selected" /\ SetRow(r, row) /\ decision' = decision /\ duties' = duties
    BY <1>3 DEF ClaimCommit, ClaimUpdate
  <2>2. r \in Run BY <2>1 DEF Safe, LegShape
  <2>3. run[r] \in Row BY <2>2, Rows
  <2>4. row.status = "running" BY <2>3 DEF Claimed, Row
  <2> HIDE DEF r, row
  <2> QED BY <2>1, <2>2, <2>4, RowStrandsNone
<1>4. ASSUME Heartbeat(w) PROVE NoneStranded
  <2>1. leg[w].run \in Run /\ run[leg[w].run].status = "running" BY <1>4 DEF Heartbeat, Fenced
  <2>2. \A row \in Row : [row EXCEPT !.lease = "live"].status = row.status BY DEF Row
  <2>3. run[leg[w].run] \in Row BY <2>1, Rows
  <2> QED BY <1>4, <2>1, <2>2, <2>3, RowStrandsNone DEF Heartbeat
<1>5. ASSUME MarkInboxDelivered(w) PROVE NoneStranded
  <2>1. leg[w].run \in Run /\ run[leg[w].run].status = "running"
    BY <1>5 DEF MarkInboxDelivered, Deliver, Fenced
  <2>2. \A row \in Row :
          [row EXCEPT !.delivered = IF @ < leg[w].seen THEN leg[w].seen ELSE @].status = row.status
    BY DEF Row
  <2>3. run[leg[w].run] \in Row BY <2>1, Rows
  <2> QED BY <1>5, <2>1, <2>2, <2>3, RowStrandsNone DEF MarkInboxDelivered, Deliver
<1>6. ASSUME MarkInputApplied(w), run' # run PROVE NoneStranded
  <2>1. leg[w].run \in Run BY <1>6 DEF MarkInputApplied, Safe, LegShape
  <2>2. \A row \in Row : LET c == [row EXCEPT !.input = "applied"] IN
          c.status = row.status /\ c.cancel = row.cancel
    BY DEF Row
  <2>3. run[leg[w].run] \in Row BY <2>1, Rows
  <2> QED BY <1>6, <2>1, <2>2, <2>3, RowStrandsNone DEF MarkInputApplied, Waits
<1>7. ASSUME ~AskInsert(w), ~ClaimCommit(w), ~CloseStep(w), ~Heartbeat(w),
             ~MarkInboxDelivered(w), ~(MarkInputApplied(w) /\ run' # run)
      PROVE  run' = run /\ decision' = decision /\ duties' = duties
  <2>1. ASSUME ClaimStep(w) PROVE run' = run /\ decision' = decision /\ duties' = duties
    BY <1>7, <2>1 DEF ClaimStep, ClaimSelect, ClaimConflict
  <2>2. ASSUME AskStep(w) \/ ToolStep(w)
        PROVE  run' = run /\ decision' = decision /\ duties' = duties
    BY <1>7, <2>2 DEF AskStep, AskStart, AskRefused, AskFinish, AskCheck, AskDuplicate,
                      ToolStep, ToolStart, OpenTool, ToolGuardPasses, ToolFinish
  <2>3. ASSUME \/ LegStep(w) \/ (\E out \in Outcomes : LegEnds(w, out)) \/ LegFails(w)
               \/ Crash(w)
        PROVE  run' = run /\ decision' = decision /\ duties' = duties
    BY <1>7, <2>3 DEF LegStep, StartLeg, MarkInputApplied, CheckPendingDecision, Abandon, LegEnds,
                      LegFails, Crash
  <2> QED BY <1>7, <2>1, <2>2, <2>3 DEF WorkerStep
<1> QED BY <1>0, <1>1, <1>2, <1>3, <1>4, <1>5, <1>6, <1>7

\* An answer leaves a requeue behind; a requeue that finds the run not
\* resumable leaves it to a question that still blocks it.
LEMMA UserStrandsNone ==
  ASSUME TypeOK, NEW d \in Decision,
         ResolveDecision(d) \/ DismissDecision(d) \/ RequeueWaitingRun(d)
  PROVE  NoneStranded
<1> DEFINE r == AskedBy[d]
<1>r. r \in Run /\ run[r] \in Row BY Rows, StoreAssumption DEF StoreAssumption
<1>t. run \in [Run -> Row] /\ decision \in [Decision -> DecisionStatus] BY DEF TypeOK
<1>1. ASSUME ResolveDecision(d) \/ DismissDecision(d) PROVE NoneStranded
  <2>1. run' = run \/ SetRow(r, [run[r] EXCEPT !.inbox = @ + 1])
    BY <1>1 DEF ResolveDecision, DismissDecision
  <2>2. \A q \in Run \ {r} : run'[q] = run[q] BY <1>t, <2>1 DEF SetRow
  <2>3. \E s : Close(d, s) BY <1>1 DEF ResolveDecision, DismissDecision
  <2>4. \A e \in Decision : AskedBy[e] # r => decision'[e] = decision[e] BY <1>t, <2>3 DEF Close
  <2>5. duties' = duties \/ AddDuty(r, Requeue(d)) BY <1>1 DEF ResolveDecision, DismissDecision
  <2>6. duties \subseteq duties' BY <2>5 DEF AddDuty
  <2>7. AddDuty(r, Requeue(d)) => d \in Wakes(r)' BY DEF AddDuty, Wakes
  <2>8. \/ AddDuty(r, Requeue(d))
        \/ run' = run /\ (run[r].cancel \/ run[r].status \in Terminal)
    BY <1>1 DEF ResolveDecision, DismissDecision
  <2>9. ~Waits(r)' \/ Wakes(r)' # {}
    BY <2>7, <2>8 DEF Waits, Terminal
  <2> HIDE DEF r
  <2> QED BY <1>r, <2>2, <2>4, <2>6, <2>9, OneRunAwake
<1>2. ASSUME RequeueWaitingRun(d) PROVE NoneStranded
  <2>1. /\ decision' = decision /\ duties' = duties \ {[run |-> r, step |-> Requeue(d)]}
        /\ run' = run \/ SetRow(r, [run[r] EXCEPT !.status = "queued", !.parked = FALSE])
    BY <1>2 DEF RequeueWaitingRun
  <2>2. \A q \in Run \ {r} : run'[q] = run[q] BY <1>t, <2>1 DEF SetRow
  <2>3. \A duty \in duties : duty.run # r => duty \in duties' BY <2>1
  <2>4. CASE Resumable(r)
    <3>1. SetRow(r, [run[r] EXCEPT !.status = "queued", !.parked = FALSE])
      BY <1>2, <2>4 DEF RequeueWaitingRun
    <3>2. [run[r] EXCEPT !.status = "queued", !.parked = FALSE].status = "queued"
      BY <1>r DEF Row
    <3>3. ~Waits(r)' BY <1>r, <1>t, <3>1, <3>2 DEF SetRow, Waits
    <3> HIDE DEF r
    <3> QED BY <1>r, <2>1, <2>2, <2>3, <3>3, OneRunAwake
  <2>5. CASE ~Resumable(r)
    <3>1. run' = run BY <1>2, <2>5 DEF RequeueWaitingRun
    <3>2. ~Waits(r)' \/ PendingOf(r) # {}
      BY <2>5, <3>1 DEF Resumable, Waits, BlockersOf
    <3>3. PendingOf(r)' = PendingOf(r) BY <2>1 DEF PendingOf
    <3> HIDE DEF r
    <3> QED BY <1>r, <2>1, <2>2, <2>3, <3>2, <3>3, OneRunAwake
  <2> QED BY <2>4, <2>5
<1> QED BY <1>1, <1>2

\* An event key is never a requeue.
LEMMA KeyIsNoRequeue == \A d : Requeue(d) \notin Key
BY DEF Requeue, Key, RunFinished, DecisionKey, CounterKey

\* Of the steps after a COMMIT only a lost one can leave a run waiting.
LEMMA DutyStrands ==
  ASSUME TypeOK, NEW duty \in duties, AppendEvent(duty)
  PROVE  NoneStranded
<1>1. run' = run /\ decision' = decision BY DEF AppendEvent
<1>2. \A r \in Run, d \in Decision :
        [run |-> r, step |-> Requeue(d)] \in duties => [run |-> r, step |-> Requeue(d)] \in duties'
  BY KeyIsNoRequeue DEF AppendEvent
<1> QED BY <1>1, <1>2 DEF NoneStranded, Stranded, PendingOf

\* A waiting run has a pending question, a requeue to come, or a cancellation
\* on its way, unless a requeue was lost after the COMMIT of an answer.
THEOREM NobodyWaitsInVain == Spec => OnlyALostRequeueStrands
<1> DEFINE Strands == \A r \in Run : Stranded(r)' =>
             \/ Stranded(r)
             \/ faults' > faults /\ UNCHANGED <<run, decision>>
<1>0. NoneStranded => Strands BY DEF NoneStranded
<1>1. TypeOK /\ Safe /\ AskIsOwn /\ [Next]_vars => Strands
  <2> SUFFICES ASSUME TypeOK, Safe, AskIsOwn, [Next]_vars PROVE Strands OBVIOUS
  <2> HIDE DEF Strands
  <2>1. ASSUME UNCHANGED vars PROVE Strands BY <1>0, <2>1, SameStrandsNone DEF vars
  <2>2. ASSUME NEW w \in Worker, WorkerStep(w) \/ Heartbeat(w) \/ Crash(w) PROVE Strands
    BY <1>0, <2>2, WorkerStrandsNone
  <2>3. ASSUME NEW r \in Run, LeaseStep(r) \/ CancelOneQueuedRun(r) \/ Command(r) PROVE Strands
    BY <1>0, <2>3, LeaseStrandsNone, CommandStrandsNone DEF LeaseStep
  <2>4. ASSUME NEW d \in Decision,
               ResolveDecision(d) \/ DismissDecision(d) \/ RequeueWaitingRun(d)
        PROVE  Strands
    BY <1>0, <2>4, UserStrandsNone
  <2>5. ASSUME NEW duty \in duties, AppendEvent(duty) PROVE Strands BY <1>0, <2>5, DutyStrands
  <2>6. ASSUME NEW duty \in duties, LosePostCommitStep(duty) PROVE Strands
    <3>1. faults \in 0 .. MaxFaults /\ MaxFaults \in Nat
      BY StoreAssumption DEF TypeOK, StoreAssumption
    <3>2. faults' > faults BY <2>6, <3>1 DEF LosePostCommitStep
    <3>3. UNCHANGED <<run, decision>> BY <2>6 DEF LosePostCommitStep
    <3> QED BY <3>2, <3>3 DEF Strands
  <2> QED BY <2>1, <2>2, <2>3, <2>4, <2>5, <2>6 DEF Next
<1>2. Inv /\ AskIsOwn /\ [Next]_vars => [Strands]_vars BY <1>1 DEF Inv, Safe
<1>3. [Strands]_vars => [\A r \in Run : Stranded(r)' =>
       \/ Stranded(r)
       \/ faults' > faults /\ UNCHANGED <<run, decision>>]_vars
  OBVIOUS
<1>4. Init => AskIsOwn BY AskIsInductive
<1>5. Inv /\ AskIsOwn /\ [Next]_vars => AskIsOwn' BY AskIsInductive DEF Inv
<1> QED BY <1>2, <1>3, <1>4, <1>5, Invariance, PTL DEF Spec, OnlyALostRequeueStrands

----------------------------------------------------------------------------
(* A step of AgentRuns is a stutter, a move, an insertion or a start       *)

Stays == \A r \in Run : run'[r].status = run[r].status /\ run'[r].epoch = run[r].epoch

\* A step that the abstract specification allows, or does not see.
Mapped == Lifecycle!Next \/ UNCHANGED <<RunStatus, RunEpoch>>

\* A step that changes no status and no epoch is a stutter.
LEMMA StaysMaps == ASSUME Stays PROVE Mapped
BY DEF Stays, Mapped, RunStatus, RunEpoch

\* So is writing a row back with the status and the epoch it had.
LEMMA KeptMaps ==
  ASSUME TypeOK, NEW r \in Run, NEW row, SetRow(r, row), row.status = run[r].status,
         row.epoch = run[r].epoch
  PROVE  Mapped
<1> run \in [Run -> Row] BY DEF TypeOK
<1>1. Stays BY DEF SetRow, Stays
<1> QED BY <1>1, StaysMaps

\* A change of status the trigger allows is a move.
LEMMA MoveMaps ==
  ASSUME NEW r \in Run, NEW s, MovesTo(r, s), s \in Lifecycle!Allowed(run[r].status)
  PROVE  Mapped
<1>1. RunStatus' = [RunStatus EXCEPT ![r] = s] BY DEF MovesTo, SameLease, RunStatus
<1>2. RunEpoch' = RunEpoch BY DEF MovesTo, SameLease, RunEpoch
<1>3. RunStatus[r] = run[r].status BY DEF RunStatus
<1>4. Lifecycle!Move(r) BY <1>1, <1>2, <1>3 DEF Lifecycle!Move
<1> QED BY <1>4 DEF Mapped, Lifecycle!Next

\* The trigger's graph, as far as the leases go.
LEMMA AllowedMoves ==
  /\ Lifecycle!Allowed("queued") = {"cancelled"}
  /\ Lifecycle!Allowed("running") = {"queued", "waiting_decision"} \cup Terminal
  /\ Lifecycle!Allowed("waiting_decision") = {"queued", "cancelled"}
BY DEF Lifecycle!Allowed, Lifecycle!Terminal, Terminal

----------------------------------------------------------------------------
(* The actions                                                             *)

\* The users' commands insert a run, cancel one that is not running, or touch
\* neither status nor epoch.
LEMMA CommandMaps ==
  ASSUME TypeOK, NEW r \in Run, Command(r) \/ CancelOneQueuedRun(r) \/ BackoffElapses(r)
  PROVE  Mapped
<1>row. run[r] \in Row BY Rows
<1>1. ASSUME EnqueueChatRun(r) PROVE Mapped
  <2> DEFINE row == [run[r] EXCEPT !.status = "queued", !.input = "queued"]
  <2>1. row.status = "queued" /\ row.epoch = run[r].epoch BY <1>row DEF Row
  <2>2. SetRow(r, row) /\ run[r].status = "none" BY <1>1 DEF EnqueueChatRun
  <2> HIDE DEF row
  <2>3. MovesTo(r, "queued") BY <2>1, <2>2, RowMoved
  <2>4. RunStatus' = [RunStatus EXCEPT ![r] = "queued"] /\ RunStatus[r] = "none"
    BY <2>2, <2>3 DEF MovesTo, SameLease, RunStatus
  <2>5. RunEpoch' = RunEpoch BY <2>3 DEF MovesTo, SameLease, RunEpoch
  <2>6. Lifecycle!Insert(r) BY <2>4, <2>5 DEF Lifecycle!Insert
  <2> QED BY <2>6 DEF Mapped, Lifecycle!Next
<1>2. ASSUME RequestCancel(r) PROVE Mapped
  <2>1. \A row \in Row : LET c == [row EXCEPT !.cancel = TRUE] IN
          c.status = row.status /\ c.epoch = row.epoch
    BY DEF Row
  <2> QED BY <1>row, <1>2, <2>1, KeptMaps DEF RequestCancel
<1>3. ASSUME RequestProviderRetryNow(r) \/ BackoffElapses(r) PROVE Mapped
  <2>1. \A row \in Row : LET c == [row EXCEPT !.parked = FALSE] IN
          c.status = row.status /\ c.epoch = row.epoch
    BY DEF Row
  <2> QED BY <1>row, <1>3, <2>1, KeptMaps DEF RequestProviderRetryNow, BackoffElapses
<1>4. ASSUME CancelQueuedInput(r) PROVE Mapped
  <2>1. \A row \in Row :
          LET c == [row EXCEPT !.status = "cancelled", !.cancel = TRUE, !.input = "cancelled"]
          IN  c.status = "cancelled" /\ c.epoch = row.epoch
    BY DEF Row
  <2>2. MovesTo(r, "cancelled") BY <1>row, <1>4, <2>1, RowMoved DEF CancelQueuedInput
  <2> QED BY <1>4, <2>2, AllowedMoves, MoveMaps DEF CancelQueuedInput
<1>5. ASSUME CancelOneQueuedRun(r) PROVE Mapped
  <2>1. \A row \in Row :
          LET c == [row EXCEPT !.status = "cancelled",
                      !.input = IF @ \in {"queued", "claimed"} THEN "cancelled" ELSE @]
          IN  c.status = "cancelled" /\ c.epoch = row.epoch
    BY DEF Row
  <2>2. MovesTo(r, "cancelled") /\ run[r].status \in {"queued", "waiting_decision"}
    BY <1>row, <1>5, <2>1, RowMoved DEF CancelOneQueuedRun, CancelIn
  <2> QED BY <2>2, AllowedMoves, MoveMaps
<1> QED BY <1>1, <1>2, <1>3, <1>4, <1>5 DEF Command

\* Recovery moves a running run; a lease that lapses changes no status.
LEMMA LeaseMaps ==
  ASSUME TypeOK, NEW r \in Run, LeaseLapses(r) \/ ReconcileOneStaleRun(r)
  PROVE  Mapped
<1>row. run[r] \in Row BY Rows
<1>st. {"queued", "failed", "waiting_decision"} \subseteq Status BY DEF Status, Active, Terminal
<1>1. ASSUME LeaseLapses(r) PROVE Mapped
  <2>1. \A row \in Row : LET c == [row EXCEPT !.lease = "expired"] IN
          c.status = row.status /\ c.epoch = row.epoch
    BY DEF Row
  <2> QED BY <1>row, <1>1, <2>1, KeptMaps DEF LeaseLapses
<1>2. ASSUME ReconcileOneStaleRun(r)
      PROVE  run[r].status = "running" /\ \E s \in {"queued", "failed", "waiting_decision"} : MovesTo(r, s)
  <2>1. ASSUME ReconcilePause(r) PROVE MovesTo(r, "waiting_decision")
    BY <1>row, <1>st, <2>1, UnleasedFields, RowMoved DEF ReconcilePause
  <2>2. ASSUME ReconcileFail(r) PROVE MovesTo(r, "failed")
    BY <1>row, <1>st, <2>2, UnleasedFields, RowMoved DEF ReconcileFail
  <2>3. ASSUME ReconcileRequeue(r) PROVE MovesTo(r, "queued")
    <3> DEFINE row == [Unleased(run[r], "queued") EXCEPT
                         !.input = IF @ = "claimed" THEN "queued" ELSE @]
    <3>1. row.status = "queued" /\ row.epoch = run[r].epoch BY <1>row DEF Unleased, Row
    <3>2. SetRow(r, row) BY <2>3 DEF ReconcileRequeue
    <3> HIDE DEF row
    <3> QED BY <3>1, <3>2, RowMoved
  <2>4. Stale(r) BY <1>2 DEF ReconcileOneStaleRun, ReconcilePause, ReconcileFail, ReconcileRequeue
  <2> QED BY <1>2, <2>1, <2>2, <2>3, <2>4 DEF ReconcileOneStaleRun, Stale
<1>3. ASSUME ReconcileOneStaleRun(r) PROVE Mapped
  BY <1>2, <1>3, AllowedMoves, MoveMaps DEF Terminal
<1> QED BY <1>1, <1>3

\* A claim is a start: the run was queued, and no other run of its session is
\* active when the claim commits.
LEMMA ClaimMaps ==
  ASSUME TypeOK, Safe, NEW w \in Worker, ClaimCommit(w)
  PROVE  Mapped
<1> DEFINE r == leg[w].run
<1>1. leg[w].pc = "selected" /\ ~ActiveIn(SessionOf[r]) BY DEF ClaimCommit, ClaimUpdate
<1>2. r \in Run /\ run[r].status = "queued" BY <1>1 DEF Safe, LegShape, ClaimsApart
<1>3. run[r] \in Row BY <1>2, Rows
<1>4. /\ run'[r].status = "running" /\ run'[r].epoch = run[r].epoch + 1
      /\ \A q \in Run \ {r} : run'[q] = run[q]
  <2>1. Claimed(run[r]) \in Row /\ Claimed(run[r]).epoch = run[r].epoch
    BY <1>3 DEF Claimed, Row
  <2>2. run' = [run EXCEPT ![r] = [Claimed(run[r]) EXCEPT !.status = "running", !.owner = w,
                                     !.epoch = @ + 1, !.lease = "live", !.parked = FALSE]]
    BY DEF ClaimCommit, ClaimUpdate, SetRow
  <2>3. run \in [Run -> Row] BY DEF TypeOK
  <2> QED BY <1>2, <2>1, <2>2, <2>3 DEF Row
<1> HIDE DEF r
<1>5. RunStatus' = [RunStatus EXCEPT ![r] = "running"] /\ RunStatus[r] = "queued"
  BY <1>2, <1>4 DEF RunStatus
<1>6. RunEpoch' = [RunEpoch EXCEPT ![r] = @ + 1] BY <1>2, <1>4 DEF RunEpoch
<1>7. \A q \in Run : SessionOf[q] = SessionOf[r] => RunStatus[q] \notin Lifecycle!Active
  BY <1>1 DEF ActiveIn, RunStatus, Active, Lifecycle!Active, r
<1>8. Lifecycle!Start(r) BY <1>5, <1>6, <1>7 DEF Lifecycle!Start
<1> QED BY <1>2, <1>8 DEF Mapped, Lifecycle!Next

\* Whoever closes a leg under its lease moves a running run.
LEMMA CloseMaps ==
  ASSUME TypeOK, NEW w \in Worker, CloseStep(w)
  PROVE  Mapped
<1> DEFINE r == leg[w].run
<1>st. {"queued", "waiting_decision"} \subseteq Status /\ Terminal \subseteq Status
  BY DEF Status, Terminal, Active
<1>f. ASSUME Fenced(w) PROVE r \in Run /\ run[r] \in Row /\ run[r].status = "running"
  BY <1>f, Rows DEF Fenced
<1>m. ASSUME Fenced(w), NEW s \in {"queued", "waiting_decision"} \cup Terminal, MovesTo(r, s)
      PROVE  Mapped
  BY <1>f, <1>m, AllowedMoves, MoveMaps
<1>1. ASSUME DeferRunForProviderRetry(w) PROVE Mapped
  <2> DEFINE row == [Parked(run[r]) EXCEPT !.retries = @ + 1]
  <2>1. Fenced(w) /\ SetRow(r, row) BY <1>1 DEF DeferRunForProviderRetry, Defer
  <2>2. row.status = "queued" /\ row.epoch = run[r].epoch
    BY <1>f, <2>1 DEF Parked, Unleased, Row
  <2> HIDE DEF row
  <2>3. MovesTo(r, "queued") BY <1>f, <2>1, <2>2, RowMoved
  <2> QED BY <1>m, <2>1, <2>3
<1>2. ASSUME FinishRequeues(w) PROVE Mapped
  <2> DEFINE row == [Unleased(run[r], "queued") EXCEPT !.parked = FALSE]
  <2>1. Fenced(w) /\ SetRow(r, row) BY <1>2 DEF FinishRequeues
  <2>2. row.status = "queued" /\ row.epoch = run[r].epoch BY <1>f, <2>1 DEF Unleased, Row
  <2> HIDE DEF row
  <2>3. MovesTo(r, "queued") BY <1>f, <2>1, <2>2, RowMoved
  <2> QED BY <1>m, <2>1, <2>3
<1>3. ASSUME FinishRun(w) PROVE Mapped
  <2> DEFINE s == FinalStatus(w)
             row == [Unleased(run[r], s) EXCEPT
                      !.input = IF @ # "claimed" THEN @
                                ELSE IF s = "cancelled" THEN "cancelled" ELSE "applied"]
  <2>1. Fenced(w) /\ SetRow(r, row) BY <1>3 DEF FinishRun, Finish
  <2>2. s \in Terminal BY FinalIsTerminal
  <2> HIDE DEF s
  <2>3. row.status = s /\ row.epoch = run[r].epoch BY <1>f, <2>1 DEF Unleased, Row
  <2> HIDE DEF row
  <2>4. MovesTo(r, s) BY <1>f, <2>1, <2>3, RowMoved
  <2> QED BY <1>m, <2>1, <2>2, <2>4
<1>4. ASSUME PauseRunForDecision(w) PROVE Mapped
  <2> DEFINE s == IF decision[leg[w].ask] = "pending" THEN "waiting_decision" ELSE "queued"
  <2>1. Fenced(w) /\ SetRow(r, Unleased(run[r], s)) BY <1>4 DEF PauseRunForDecision, Pause
  <2>2. s \in {"queued", "waiting_decision"} OBVIOUS
  <2> HIDE DEF s
  <2>3. MovesTo(r, s) BY <1>f, <1>st, <2>1, <2>2, UnleasedFields, RowMoved
  <2> QED BY <1>m, <2>1, <2>2, <2>3
<1>5. ASSUME DeferFails(w) \/ FinishFails(w) \/ PauseFails(w) PROVE Mapped
  BY <1>5, StaysMaps DEF DeferFails, FinishFails, PauseFails, Stays
<1> QED BY <1>1, <1>2, <1>3, <1>4, <1>5 DEF CloseStep

\* The other steps of a worker write nothing of a run but its lease, its input
\* or its delivered revision.
LEMMA WorkerMaps ==
  ASSUME TypeOK, Safe, NEW w \in Worker, WorkerStep(w) \/ Heartbeat(w) \/ Crash(w)
  PROVE  Mapped
<1>1. CASE run' = run BY <1>1, StaysMaps DEF Stays
<1>2. CASE ClaimCommit(w) BY <1>2, ClaimMaps
<1>3. CASE CloseStep(w) BY <1>3, CloseMaps
<1>4. ASSUME Heartbeat(w) PROVE Mapped
  <2>1. \A row \in Row : LET c == [row EXCEPT !.lease = "live"] IN
          c.status = row.status /\ c.epoch = row.epoch
    BY DEF Row
  <2> QED BY <1>4, <2>1, Rows, KeptMaps DEF Heartbeat, Fenced
<1>5. ASSUME MarkInboxDelivered(w) PROVE Mapped
  <2>1. leg[w].run \in Run /\ run[leg[w].run] \in Row
    BY <1>5, Rows DEF MarkInboxDelivered, Deliver, Fenced
  <2>2. \A row \in Row :
          LET c == [row EXCEPT !.delivered = IF @ < leg[w].seen THEN leg[w].seen ELSE @] IN
          c.status = row.status /\ c.epoch = row.epoch
    BY DEF Row
  <2> QED BY <1>5, <2>1, <2>2, KeptMaps DEF MarkInboxDelivered, Deliver
<1>6. ASSUME MarkInputApplied(w), run' # run PROVE Mapped
  <2>1. leg[w].run \in Run /\ run[leg[w].run] \in Row
    BY <1>6, Rows DEF MarkInputApplied, Safe, LegShape
  <2>2. \A row \in Row : LET c == [row EXCEPT !.input = "applied"] IN
          c.status = row.status /\ c.epoch = row.epoch
    BY DEF Row
  <2> QED BY <1>6, <2>1, <2>2, KeptMaps DEF MarkInputApplied
<1>7. ASSUME ~ClaimCommit(w), ~CloseStep(w), ~Heartbeat(w), ~MarkInboxDelivered(w),
             ~MarkInputApplied(w)
      PROVE  run' = run
  <2>1. ASSUME ClaimStep(w) PROVE run' = run
    BY <1>7, <2>1 DEF ClaimStep, ClaimSelect, ClaimConflict
  <2>2. ASSUME AskStep(w) \/ ToolStep(w) PROVE run' = run
    BY <2>2 DEF AskStep, AskStart, AskRefused, AskInsert, AskFinish, AskCheck, AskDuplicate,
                ToolStep, ToolStart, OpenTool, ToolGuardPasses, ToolFinish
  <2>3. ASSUME \/ LegStep(w) \/ (\E out \in Outcomes : LegEnds(w, out)) \/ LegFails(w)
               \/ Crash(w)
        PROVE  run' = run
    BY <1>7, <2>3 DEF LegStep, StartLeg, CheckPendingDecision, Abandon, LegEnds, LegFails, Crash
  <2> QED BY <1>7, <2>1, <2>2, <2>3 DEF WorkerStep
<1> QED BY <1>1, <1>2, <1>3, <1>4, <1>5, <1>6, <1>7

\* An answer changes no status; the requeue that follows it moves a waiting run.
LEMMA UserMaps ==
  ASSUME TypeOK, NEW d \in Decision,
         ResolveDecision(d) \/ DismissDecision(d) \/ RequeueWaitingRun(d)
  PROVE  Mapped
<1> DEFINE r == AskedBy[d]
<1>r. r \in Run /\ run[r] \in Row BY Rows, StoreAssumption DEF StoreAssumption
<1>1. ASSUME run' = run PROVE Mapped BY <1>1, StaysMaps DEF Stays
<1>2. ASSUME ResolveDecision(d) \/ DismissDecision(d) PROVE Mapped
  <2>1. run' = run \/ SetRow(r, [run[r] EXCEPT !.inbox = @ + 1])
    BY <1>2 DEF ResolveDecision, DismissDecision
  <2>2. \A row \in Row : LET c == [row EXCEPT !.inbox = @ + 1] IN
          c.status = row.status /\ c.epoch = row.epoch
    BY DEF Row
  <2> QED BY <1>r, <1>1, <2>1, <2>2, KeptMaps
<1>3. ASSUME RequeueWaitingRun(d), Resumable(r) PROVE Mapped
  <2>1. SetRow(r, [run[r] EXCEPT !.status = "queued", !.parked = FALSE])
    BY <1>3 DEF RequeueWaitingRun
  <2>2. \A row \in Row : LET c == [row EXCEPT !.status = "queued", !.parked = FALSE] IN
          c.status = "queued" /\ c.epoch = row.epoch
    BY DEF Row
  <2>3. MovesTo(r, "queued") BY <1>r, <2>1, <2>2, RowMoved
  <2>4. run[r].status = "waiting_decision" BY <1>3 DEF Resumable
  <2> HIDE DEF r
  <2> QED BY <1>r, <2>3, <2>4, AllowedMoves, MoveMaps
<1>4. ASSUME RequeueWaitingRun(d), ~Resumable(r) PROVE Mapped
  BY <1>1, <1>4 DEF RequeueWaitingRun
<1> QED BY <1>2, <1>3, <1>4

----------------------------------------------------------------------------
\* No run is inserted yet.
LEMMA InitMaps == Init => Lifecycle!Init
BY DEF Init, Lifecycle!Init, NewRow, RunStatus, RunEpoch

\* Every step is a step of RunLifecycle or a stutter.
LEMMA NextMaps == TypeOK /\ Safe /\ [Next]_vars => Mapped
<1> SUFFICES ASSUME TypeOK, Safe, [Next]_vars PROVE Mapped OBVIOUS
<1>1. CASE UNCHANGED vars BY <1>1, StaysMaps DEF vars, Stays
<1>2. ASSUME NEW w \in Worker, WorkerStep(w) \/ Heartbeat(w) \/ Crash(w) PROVE Mapped
  BY <1>2, WorkerMaps
<1>3. ASSUME NEW r \in Run, LeaseStep(r) \/ CancelOneQueuedRun(r) \/ Command(r) PROVE Mapped
  BY <1>3, LeaseMaps, CommandMaps DEF LeaseStep
<1>4. ASSUME NEW d \in Decision,
             ResolveDecision(d) \/ DismissDecision(d) \/ RequeueWaitingRun(d)
      PROVE  Mapped
  BY <1>4, UserMaps
<1>5. ASSUME NEW duty \in duties, AppendEvent(duty) \/ LosePostCommitStep(duty) PROVE Mapped
  BY <1>5, StaysMaps DEF AppendEvent, LosePostCommitStep, Stays
<1> QED BY <1>1, <1>2, <1>3, <1>4, <1>5 DEF Next

\* migrations/041 and 045: every behaviour of the workers, users and crashes is,
\* as far as statuses and epochs go, a behaviour of RunLifecycle.
THEOREM Refinement == Spec => ImplementsLifecycle
<1>1. Init => Lifecycle!Init BY InitMaps
<1>2. Inv /\ [Next]_vars => [Lifecycle!Next]_<<RunStatus, RunEpoch>>
  BY NextMaps DEF Inv, Safe, Mapped
<1> QED BY <1>1, <1>2, Invariance, PTL DEF Spec, ImplementsLifecycle, Lifecycle!Spec
============================================================================
