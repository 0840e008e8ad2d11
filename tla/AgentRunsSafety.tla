-------------------------- MODULE AgentRunsSafety --------------------------
(***************************************************************************)
(* Types and safety of AgentRuns for every number of runs, sessions,       *)
(* workers and decisions.  Type correctness has one lemma per group of     *)
(* actions.  For safety each action is first reduced to what it does to    *)
(* leases, legs, open calls and pending questions (the effects); the       *)
(* inductive invariant is then proved once per effect.                     *)
(***************************************************************************)
EXTENDS AgentRunsInv, TLAPS

----------------------------------------------------------------------------
(* Types: every row, event key, decision, duty and leg stays within its    *)
(* type.                                                                   *)

\* A run under way is a run of the model: the part of LegShape typing needs.
BusyHasRun == \A w \in Worker : leg[w].pc # "idle" => leg[w].run \in Run

LEMMA Rows == TypeOK => \A r \in Run : run[r] \in Row
BY DEF TypeOK

LEMMA Legs == TypeOK => \A w \in Worker : leg[w] \in Leg
BY DEF TypeOK

LEMMA UnleasedRow ==
  ASSUME NEW row \in Row, NEW s \in Status
  PROVE  Unleased(row, s) \in Row
BY DEF Row, Unleased

LEMMA RunUpdate ==
  ASSUME TypeOK, NEW r \in Run, NEW row \in Row, SetRow(r, row)
  PROVE  run' \in [Run -> Row]
<1> run \in [Run -> Row] BY DEF TypeOK
<1> QED BY DEF SetRow

LEMMA LegUpdate ==
  ASSUME TypeOK, BusyHasRun, NEW w \in Worker, NEW l \in Leg, l.run \in Run, SetLeg(w, l)
  PROVE  leg' \in [Worker -> Leg] /\ BusyHasRun'
<1> leg \in [Worker -> Leg] BY DEF TypeOK
<1> QED BY DEF SetLeg, BusyHasRun

LEMMA LegRelease ==
  ASSUME TypeOK, BusyHasRun, NEW w \in Worker, Release(w)
  PROVE  leg' \in [Worker -> Leg] /\ BusyHasRun'
<1>1. IdleLeg \in Leg /\ IdleLeg.pc = "idle" BY DEF IdleLeg, Leg
<1>2. leg \in [Worker -> Leg] BY DEF TypeOK
<1>3. leg' = [leg EXCEPT ![w] = IdleLeg] BY DEF Release, SetLeg
<1> QED BY <1>1, <1>2, <1>3 DEF BusyHasRun

LEMMA EventInsert ==
  ASSUME TypeOK, NEW r \in Run, NEW k \in Key, InsertKey(r, k)
  PROVE  events' \in [Run -> SUBSET Key]
<1> events \in [Run -> SUBSET Key] BY DEF TypeOK
<1> QED BY DEF InsertKey

LEMMA KeyTypes ==
  /\ RunFinished \in Key
  /\ \A d \in Decision : RunPaused(d) \in Key /\ EarlyAnswer(d) \in Key
  /\ \A n \in Nat : Redelivery(n) \in Key /\ RetryPlanned(n) \in Key /\ RetryAsked(n) \in Key
BY DEF Key, DecisionKey, CounterKey, RunFinished, RunPaused, EarlyAnswer, Redelivery,
       RetryPlanned, RetryAsked

LEMMA DutyUpdate ==
  ASSUME TypeOK, NEW r \in Run, NEW step,
         step \in Key \/ \E d \in Decision : step = Requeue(d), AddDuty(r, step)
  PROVE  duties' \subseteq Duty
<1> duties \subseteq Duty BY DEF TypeOK
<1> step \in Key \cup ({"requeue"} \X Decision) BY DEF Requeue
<1> [run |-> r, step |-> step] \in Duty BY DEF Duty
<1> QED BY DEF AddDuty

----------------------------------------------------------------------------
(* Commands *)

LEMMA CommandTypes ==
  ASSUME TypeOK, BusyHasRun, NEW r \in Run,
         Command(r) \/ CancelOneQueuedRun(r) \/ BackoffElapses(r)
  PROVE  TypeOK' /\ BusyHasRun'
<1> run[r] \in Row BY Rows
<1>1. ASSUME EnqueueChatRun(r) PROVE TypeOK' /\ BusyHasRun'
  <2>1. [run[r] EXCEPT !.status = "queued", !.input = "queued"] \in Row BY DEF Row, Status
  <2>2. run' \in [Run -> Row] BY <1>1, <2>1, RunUpdate DEF EnqueueChatRun
  <2> QED BY <1>1, <2>2 DEF TypeOK, BusyHasRun, EnqueueChatRun
<1>2. ASSUME RequestCancel(r) PROVE TypeOK' /\ BusyHasRun'
  <2>1. [run[r] EXCEPT !.cancel = TRUE] \in Row BY DEF Row
  <2>2. run' \in [Run -> Row] BY <1>2, <2>1, RunUpdate DEF RequestCancel
  <2> QED BY <1>2, <2>2 DEF TypeOK, BusyHasRun, RequestCancel
<1>3. ASSUME RequestProviderRetryNow(r) PROVE TypeOK' /\ BusyHasRun'
  <2>1. [run[r] EXCEPT !.parked = FALSE] \in Row /\ run[r].retries \in Nat BY DEF Row
  <2>2. run' \in [Run -> Row] BY <1>3, <2>1, RunUpdate DEF RequestProviderRetryNow
  <2>3. events' \in [Run -> SUBSET Key]
    BY <1>3, <2>1, KeyTypes, EventInsert DEF RequestProviderRetryNow
  <2> QED BY <1>3, <2>2, <2>3 DEF TypeOK, BusyHasRun, RequestProviderRetryNow
<1>4. ASSUME CancelQueuedInput(r) PROVE TypeOK' /\ BusyHasRun'
  <2>1. [run[r] EXCEPT !.status = "cancelled", !.cancel = TRUE, !.input = "cancelled"] \in Row
    BY DEF Row, Status, Terminal
  <2>2. run' \in [Run -> Row] BY <1>4, <2>1, RunUpdate DEF CancelQueuedInput
  <2>3. duties' \subseteq Duty BY <1>4, KeyTypes, DutyUpdate DEF CancelQueuedInput
  <2> QED BY <1>4, <2>2, <2>3 DEF TypeOK, BusyHasRun, CancelQueuedInput
<1>5. ASSUME CancelOneQueuedRun(r) PROVE TypeOK' /\ BusyHasRun'
  <2>1. [run[r] EXCEPT !.status = "cancelled",
           !.input = IF @ \in {"queued", "claimed"} THEN "cancelled" ELSE @] \in Row
    BY DEF Row, Status, Terminal
  <2>2. run' \in [Run -> Row] BY <1>5, <2>1, RunUpdate DEF CancelOneQueuedRun, CancelIn
  <2>3. duties' \subseteq Duty
    BY <1>5, KeyTypes, DutyUpdate DEF CancelOneQueuedRun, CancelIn
  <2>4. decision \in [Decision -> DecisionStatus] BY DEF TypeOK
  <2>5. decision' \in [Decision -> DecisionStatus]
    BY <1>5, <2>4 DEF CancelOneQueuedRun, CancelIn, DecisionStatus
  <2> QED BY <1>5, <2>2, <2>3, <2>5 DEF TypeOK, BusyHasRun, CancelOneQueuedRun, CancelIn
<1>6. ASSUME BackoffElapses(r) PROVE TypeOK' /\ BusyHasRun'
  <2>1. [run[r] EXCEPT !.parked = FALSE] \in Row BY DEF Row
  <2>2. run' \in [Run -> Row] BY <1>6, <2>1, RunUpdate DEF BackoffElapses
  <2> QED BY <1>6, <2>2 DEF TypeOK, BusyHasRun, BackoffElapses
<1> QED BY <1>1, <1>2, <1>3, <1>4, <1>5, <1>6 DEF Command

----------------------------------------------------------------------------
(* Lease time and recovery *)

LEMMA LeaseTypes ==
  ASSUME TypeOK, BusyHasRun, NEW r \in Run, LeaseLapses(r) \/ ReconcileOneStaleRun(r)
  PROVE  TypeOK' /\ BusyHasRun'
<1> run[r] \in Row BY Rows
<1> "queued" \in Status /\ "failed" \in Status /\ "waiting_decision" \in Status
  BY DEF Status, Active, Terminal
<1>1. ASSUME LeaseLapses(r) PROVE TypeOK' /\ BusyHasRun'
  <2>1. [run[r] EXCEPT !.lease = "expired"] \in Row BY DEF Row
  <2>2. run' \in [Run -> Row] BY <1>1, <2>1, RunUpdate DEF LeaseLapses
  <2>3. faults \in 0 .. MaxFaults /\ MaxFaults \in Nat BY StoreAssumption DEF TypeOK, StoreAssumption
  <2>4. faults' \in 0 .. MaxFaults BY <1>1, <2>3 DEF LeaseLapses
  <2> QED BY <1>1, <2>2, <2>4 DEF TypeOK, BusyHasRun, LeaseLapses
<1>2. ASSUME ReconcilePause(r) PROVE TypeOK' /\ BusyHasRun'
  <2>1. run' \in [Run -> Row] BY <1>2, UnleasedRow, RunUpdate DEF ReconcilePause
  <2>2. PICK d \in Decision : AddDuty(r, RunPaused(d))
    BY <1>2 DEF ReconcilePause, BlockersOf, PendingOf
  <2>3. duties' \subseteq Duty BY <2>2, KeyTypes, DutyUpdate
  <2> QED BY <1>2, <2>1, <2>3 DEF TypeOK, BusyHasRun, ReconcilePause
<1>3. ASSUME ReconcileFail(r) PROVE TypeOK' /\ BusyHasRun'
  <2>1. run' \in [Run -> Row] BY <1>3, UnleasedRow, RunUpdate DEF ReconcileFail
  <2>2. duties' \subseteq Duty BY <1>3, KeyTypes, DutyUpdate DEF ReconcileFail
  <2> QED BY <1>3, <2>1, <2>2 DEF TypeOK, BusyHasRun, ReconcileFail
<1>4. ASSUME ReconcileRequeue(r) PROVE TypeOK' /\ BusyHasRun'
  <2>1. Unleased(run[r], "queued") \in Row BY UnleasedRow
  <2>2. [Unleased(run[r], "queued") EXCEPT !.input = IF @ = "claimed" THEN "queued" ELSE @] \in Row
    BY <2>1 DEF Row
  <2>3. run' \in [Run -> Row] BY <1>4, <2>2, RunUpdate DEF ReconcileRequeue
  <2> QED BY <1>4, <2>3 DEF TypeOK, BusyHasRun, ReconcileRequeue
<1> QED BY <1>1, <1>2, <1>3, <1>4 DEF ReconcileOneStaleRun

----------------------------------------------------------------------------
(* Claims and the outcome of a leg *)

LEMMA ClaimedRow ==
  ASSUME NEW row \in Row, NEW w \in Worker
  PROVE  [row EXCEPT !.status = "running", !.owner = w, !.epoch = @ + 1, !.lease = "live",
                     !.parked = FALSE] \in Row
<1>1. row.epoch + 1 \in Nat /\ "running" \in Status BY DEF Row, Status, Active
<1>2. [row EXCEPT !.status = "running", !.owner = w, !.epoch = row.epoch + 1] \in Row
  BY <1>1 DEF Row
<1>3. \A x \in Row : [x EXCEPT !.lease = "live", !.parked = FALSE] \in Row BY DEF Row
<1>4. [row EXCEPT !.status = "running", !.owner = w, !.epoch = @ + 1, !.lease = "live",
                  !.parked = FALSE]
      = [[row EXCEPT !.status = "running", !.owner = w, !.epoch = row.epoch + 1]
           EXCEPT !.lease = "live", !.parked = FALSE]
  BY DEF Row
<1> QED BY <1>2, <1>3, <1>4

LEMMA ClaimedLeg ==
  ASSUME NEW l \in Leg, NEW n \in Nat
  PROVE  /\ [l EXCEPT !.pc = "claimed", !.epoch = n] \in Leg
         /\ [l EXCEPT !.pc = "claimed", !.epoch = n].run = l.run
BY DEF Leg

LEMMA ClaimTypes ==
  ASSUME TypeOK, BusyHasRun, NEW w \in Worker, ClaimStep(w) \/ Heartbeat(w)
  PROVE  TypeOK' /\ BusyHasRun'
<1> leg[w] \in Leg BY Legs
<1>1. ASSUME NEW r \in Run, ClaimSelect(w, r) PROVE TypeOK' /\ BusyHasRun'
  <2>1. [IdleLeg EXCEPT !.pc = "selected", !.run = r] \in Leg BY DEF IdleLeg, Leg
  <2>2. [IdleLeg EXCEPT !.pc = "selected", !.run = r].run = r BY DEF IdleLeg
  <2>3. leg' \in [Worker -> Leg] /\ BusyHasRun' BY <1>1, <2>1, <2>2, LegUpdate DEF ClaimSelect
  <2> QED BY <1>1, <2>3 DEF TypeOK, ClaimSelect
<1>2. ASSUME ClaimCommit(w) PROVE TypeOK' /\ BusyHasRun'
  <2> DEFINE r == leg[w].run
             row == Claimed(run[r])
  <2>1. r \in Run BY <1>2 DEF ClaimCommit, ClaimUpdate, BusyHasRun
  <2>2. run[r] \in Row BY <2>1, Rows
  <2>3. row \in Row BY <2>2 DEF Claimed, Row
  <2>4. [row EXCEPT !.status = "running", !.owner = w, !.epoch = @ + 1, !.lease = "live",
                    !.parked = FALSE] \in Row
    BY <2>3, ClaimedRow
  <2>5. run' \in [Run -> Row] BY <1>2, <2>1, <2>4, RunUpdate DEF ClaimCommit, ClaimUpdate
  <2>6. row.epoch + 1 \in Nat BY <2>3 DEF Row
  <2>7. /\ [leg[w] EXCEPT !.pc = "claimed", !.epoch = row.epoch + 1] \in Leg
        /\ [leg[w] EXCEPT !.pc = "claimed", !.epoch = row.epoch + 1].run = r
    BY <2>6, ClaimedLeg
  <2>8. leg' \in [Worker -> Leg] /\ BusyHasRun'
    BY <1>2, <2>1, <2>7, LegUpdate DEF ClaimCommit, ClaimUpdate
  <2> QED BY <1>2, <2>5, <2>8 DEF TypeOK, ClaimCommit, ClaimUpdate
<1>3. ASSUME ClaimConflict(w) PROVE TypeOK' /\ BusyHasRun'
  BY <1>3, LegRelease DEF TypeOK, ClaimConflict
<1>4. ASSUME Heartbeat(w) PROVE TypeOK' /\ BusyHasRun'
  <2>1. leg[w].run \in Run BY <1>4 DEF Heartbeat, BusyHasRun
  <2>2. run[leg[w].run] \in Row BY <2>1, Rows
  <2>3. [run[leg[w].run] EXCEPT !.lease = "live"] \in Row BY <2>2 DEF Row
  <2>4. run' \in [Run -> Row] BY <1>4, <2>1, <2>3, RunUpdate DEF Heartbeat
  <2> QED BY <1>4, <2>4 DEF TypeOK, BusyHasRun, Heartbeat
<1> QED BY <1>1, <1>2, <1>3, <1>4 DEF ClaimStep

LEMMA CloseTypes ==
  ASSUME TypeOK, BusyHasRun, NEW w \in Worker, CloseStep(w)
  PROVE  TypeOK' /\ BusyHasRun'
<1> DEFINE r == leg[w].run
<1> leg[w] \in Leg BY Legs
<1>r. r \in Run
  BY DEF CloseStep, DeferRunForProviderRetry, Defer, DeferFails, FinishRequeues, FinishRun, Finish,
         FinishFails, PauseRunForDecision, Pause, PauseFails, Finishing, Pausing, Closing, BusyHasRun
<1>row. run[r] \in Row BY <1>r, Rows
<1> HIDE DEF r
<1>st. {"queued", "waiting_decision", "completed", "failed", "cancelled"} \subseteq Status
  BY DEF Status, Active, Terminal
<1>1. ASSUME DeferRunForProviderRetry(w) PROVE TypeOK' /\ BusyHasRun'
  <2>1. Parked(run[r]) \in Row
    <3>1. Unleased(run[r], "queued") \in Row BY <1>row, <1>st, UnleasedRow
    <3> QED BY <3>1 DEF Parked, Row
  <2>2. [Parked(run[r]) EXCEPT !.retries = @ + 1] \in Row BY <2>1 DEF Row
  <2>3. run' \in [Run -> Row] BY <1>1, <1>r, <2>2, RunUpdate DEF DeferRunForProviderRetry, Defer, r
  <2>4. run[r].retries + 1 \in Nat BY <1>row DEF Row
  <2>5. events' \in [Run -> SUBSET Key]
    BY <1>1, <1>r, <2>4, KeyTypes, EventInsert DEF DeferRunForProviderRetry, Defer, r
  <2> QED BY <1>1, <2>3, <2>5, LegRelease DEF TypeOK, DeferRunForProviderRetry, Defer
<1>2. ASSUME DeferFails(w) \/ FinishFails(w) PROVE TypeOK' /\ BusyHasRun'
  BY <1>2, LegRelease DEF TypeOK, DeferFails, FinishFails
<1>3. ASSUME FinishRequeues(w) PROVE TypeOK' /\ BusyHasRun'
  <2>1. [Unleased(run[r], "queued") EXCEPT !.parked = FALSE] \in Row
    <3>1. Unleased(run[r], "queued") \in Row BY <1>row, <1>st, UnleasedRow
    <3> QED BY <3>1 DEF Row
  <2>2. run' \in [Run -> Row] BY <1>3, <1>r, <2>1, RunUpdate DEF FinishRequeues, r
  <2>3. run[r].inbox \in Nat BY <1>row DEF Row
  <2>4. events' \in [Run -> SUBSET Key]
    BY <1>3, <1>r, <2>3, KeyTypes, EventInsert DEF FinishRequeues, r
  <2> QED BY <1>3, <2>2, <2>4, LegRelease DEF TypeOK, FinishRequeues
<1>4. ASSUME FinishRun(w) PROVE TypeOK' /\ BusyHasRun'
  <2>1. FinalStatus(w) \in {"completed", "failed", "cancelled"} BY DEF FinalStatus
  <2>2. Unleased(run[r], FinalStatus(w)) \in Row BY <1>row, <1>st, <2>1, UnleasedRow
  <2>3. [Unleased(run[r], FinalStatus(w)) EXCEPT
          !.input = IF @ # "claimed" THEN @
                    ELSE IF FinalStatus(w) = "cancelled" THEN "cancelled" ELSE "applied"] \in Row
    BY <2>2 DEF Row
  <2>4. run' \in [Run -> Row] BY <1>4, <1>r, <2>3, RunUpdate DEF FinishRun, Finish, r
  <2>5. events' \in [Run -> SUBSET Key]
    BY <1>4, <1>r, KeyTypes, EventInsert DEF FinishRun, Finish, r
  <2> QED BY <1>4, <2>4, <2>5, LegRelease DEF TypeOK, FinishRun, Finish
<1>5. ASSUME PauseRunForDecision(w) PROVE TypeOK' /\ BusyHasRun'
  <2>1. ASSUME NEW s \in {"waiting_decision", "queued"}, Pause(w, s) PROVE TypeOK' /\ BusyHasRun'
    <3>1. run' \in [Run -> Row] BY <1>r, <1>row, <1>st, <2>1, UnleasedRow, RunUpdate DEF Pause, r
    <3>2. PauseKey(w) \in Key BY <2>1, KeyTypes DEF Pause, Pausing, PauseKey
    <3>3. events' \in [Run -> SUBSET Key] BY <1>r, <2>1, <3>2, EventInsert DEF Pause, r
    <3> QED BY <2>1, <3>1, <3>3, LegRelease DEF TypeOK, Pause
  <2> QED BY <1>5, <2>1 DEF PauseRunForDecision
<1>6. ASSUME PauseFails(w) PROVE TypeOK' /\ BusyHasRun'
  <2>1. /\ [leg[w] EXCEPT !.out = "abort", !.ask = NoDecision] \in Leg
        /\ [leg[w] EXCEPT !.out = "abort", !.ask = NoDecision].run = r
    BY DEF Leg, r
  <2>2. leg' \in [Worker -> Leg] /\ BusyHasRun' BY <1>6, <1>r, <2>1, LegUpdate DEF PauseFails
  <2> QED BY <1>6, <2>2 DEF TypeOK, PauseFails
<1> QED BY <1>1, <1>2, <1>3, <1>4, <1>5, <1>6 DEF CloseStep

----------------------------------------------------------------------------
(* Decisions *)

LEMMA DecisionUpdate ==
  ASSUME TypeOK, NEW d \in Decision, NEW s \in DecisionStatus, Close(d, s)
  PROVE  decision' \in [Decision -> DecisionStatus]
<1> decision \in [Decision -> DecisionStatus] BY DEF TypeOK
<1> QED BY DEF Close

LEMMA UserTypes ==
  ASSUME TypeOK, BusyHasRun, NEW d \in Decision,
         ResolveDecision(d) \/ DismissDecision(d) \/ RequeueWaitingRun(d)
  PROVE  TypeOK' /\ BusyHasRun'
<1> DEFINE r == AskedBy[d]
<1>r. r \in Run BY StoreAssumption DEF StoreAssumption
<1>row. run[r] \in Row BY <1>r, Rows
<1>s. {"resolved", "dismissed", "cancelled"} \subseteq DecisionStatus BY DEF DecisionStatus
<1>inbox. [run[r] EXCEPT !.inbox = @ + 1] \in Row BY <1>row DEF Row
<1> HIDE DEF r
<1>1. ASSUME ResolveDecision(d) PROVE TypeOK' /\ BusyHasRun'
  <2>1. decision' \in [Decision -> DecisionStatus]
    BY <1>1, <1>s, DecisionUpdate DEF ResolveDecision
  <2>2. run' \in [Run -> Row]
    BY <1>1, <1>r, <1>inbox, RunUpdate DEF ResolveDecision, TypeOK, r
  <2>3. duties' \subseteq Duty BY <1>1, <1>r, DutyUpdate DEF ResolveDecision, TypeOK, r
  <2> QED BY <1>1, <2>1, <2>2, <2>3 DEF TypeOK, BusyHasRun, ResolveDecision
<1>2. ASSUME DismissDecision(d) PROVE TypeOK' /\ BusyHasRun'
  <2>1. decision' \in [Decision -> DecisionStatus]
    BY <1>2, <1>s, DecisionUpdate DEF DismissDecision
  <2>2. run' \in [Run -> Row]
    BY <1>2, <1>r, <1>inbox, RunUpdate DEF DismissDecision, TypeOK, r
  <2>3. duties' \subseteq Duty BY <1>2, <1>r, DutyUpdate DEF DismissDecision, TypeOK, r
  <2> QED BY <1>2, <2>1, <2>2, <2>3 DEF TypeOK, BusyHasRun, DismissDecision
<1>3. ASSUME RequeueWaitingRun(d) PROVE TypeOK' /\ BusyHasRun'
  <2>1. [run[r] EXCEPT !.status = "queued", !.parked = FALSE] \in Row BY <1>row DEF Row, Status
  <2>2. run' \in [Run -> Row]
    BY <1>3, <1>r, <2>1, RunUpdate DEF RequeueWaitingRun, TypeOK, r
  <2> QED BY <1>3, <2>2 DEF TypeOK, BusyHasRun, RequeueWaitingRun
<1> QED BY <1>1, <1>2, <1>3

LEMMA AskTypes ==
  ASSUME TypeOK, BusyHasRun, NEW w \in Worker, AskStep(w)
  PROVE  TypeOK' /\ BusyHasRun'
<1> leg[w] \in Leg BY Legs
<1>1. ASSUME AskStart(w) PROVE TypeOK' /\ BusyHasRun'
  <2>1. leg[w].run \in Run BY <1>1 DEF AskStart, BusyHasRun
  <2>2. /\ [leg[w] EXCEPT !.pc = "asking"] \in Leg
        /\ [leg[w] EXCEPT !.pc = "asking"].run = leg[w].run
    BY DEF Leg
  <2>3. leg' \in [Worker -> Leg] /\ BusyHasRun' BY <1>1, <2>1, <2>2, LegUpdate DEF AskStart
  <2>4. <<leg[w].epoch, "ask">> \in OpenCall BY DEF Leg, OpenCall
  <2>5. open' \in [Run -> SUBSET OpenCall] BY <1>1, <2>1, <2>4 DEF AskStart, TypeOK
  <2> QED BY <1>1, <2>3, <2>5 DEF TypeOK, AskStart
<1>2. ASSUME NEW d \in Decision, AskCheck(w, d) \/ AskDuplicate(w, d)
      PROVE TypeOK' /\ BusyHasRun'
  <2>1. leg[w].run \in Run BY <1>2 DEF AskCheck, AskDuplicate, BusyHasRun
  <2>2. \A pc \in {"inserting", "asked"} :
          /\ [leg[w] EXCEPT !.pc = pc, !.ask = d] \in Leg
          /\ [leg[w] EXCEPT !.pc = pc, !.ask = d].run = leg[w].run
    BY DEF Leg
  <2>3. leg' \in [Worker -> Leg] /\ BusyHasRun'
    BY <1>2, <2>1, <2>2, LegUpdate DEF AskCheck, AskDuplicate
  <2> QED BY <1>2, <2>3 DEF TypeOK, AskCheck, AskDuplicate
<1>3. ASSUME AskRefused(w) \/ AskInsert(w) PROVE TypeOK' /\ BusyHasRun'
  <2>1. leg[w].run \in Run BY <1>3 DEF AskRefused, AskInsert, BusyHasRun
  <2>2. /\ [leg[w] EXCEPT !.pc = "asked"] \in Leg
        /\ [leg[w] EXCEPT !.pc = "asked"].run = leg[w].run
    BY DEF Leg
  <2>3. leg' \in [Worker -> Leg] /\ BusyHasRun'
    BY <1>3, <2>1, <2>2, LegUpdate DEF AskRefused, AskInsert
  <2>4. decision \in [Decision -> DecisionStatus] BY DEF TypeOK
  <2>5. decision' \in [Decision -> DecisionStatus]
    BY <1>3, <2>4 DEF AskRefused, AskInsert, DecisionStatus
  <2> QED BY <1>3, <2>3, <2>5 DEF TypeOK, AskRefused, AskInsert
<1>4. ASSUME AskFinish(w) PROVE TypeOK' /\ BusyHasRun'
  <2>1. leg[w].run \in Run BY <1>4 DEF AskFinish, BusyHasRun
  <2>2. /\ [leg[w] EXCEPT !.pc = "ended", !.out = "done", !.ask = NoDecision] \in Leg
        /\ [leg[w] EXCEPT !.pc = "working", !.ask = NoDecision] \in Leg
        /\ [leg[w] EXCEPT !.pc = "ended", !.out = "done", !.ask = NoDecision].run = leg[w].run
        /\ [leg[w] EXCEPT !.pc = "working", !.ask = NoDecision].run = leg[w].run
    BY DEF Leg
  <2>3. leg' \in [Worker -> Leg] /\ BusyHasRun' BY <1>4, <2>1, <2>2, LegUpdate DEF AskFinish
  <2>4. open' \in [Run -> SUBSET OpenCall] BY <1>4, <2>1 DEF AskFinish, TypeOK
  <2> QED BY <1>4, <2>3, <2>4 DEF TypeOK, AskFinish
<1> QED BY <1>1, <1>2, <1>3, <1>4 DEF AskStep

----------------------------------------------------------------------------
(* The rest of a leg *)

LEMMA StepLeg ==
  ASSUME TypeOK, BusyHasRun, NEW w \in Worker, leg[w].run \in Run,
         NEW pc \in {"working", "tool", "effect"}, Step(w, pc)
  PROVE  leg' \in [Worker -> Leg] /\ BusyHasRun'
<1> leg[w] \in Leg BY Legs
<1>1. [leg[w] EXCEPT !.pc = pc] \in Leg /\ [leg[w] EXCEPT !.pc = pc].run = leg[w].run BY DEF Leg
<1> QED BY <1>1, LegUpdate DEF Step

LEMMA ToolTypes ==
  ASSUME TypeOK, BusyHasRun, NEW w \in Worker, ToolStep(w)
  PROVE  TypeOK' /\ BusyHasRun'
<1>1. leg[w].run \in Run
  BY DEF ToolStep, ToolStart, OpenTool, ToolGuardPasses, ToolFinish, BusyHasRun
<1>2. leg' \in [Worker -> Leg] /\ BusyHasRun'
  BY <1>1, StepLeg DEF ToolStep, ToolStart, OpenTool, ToolGuardPasses, ToolFinish
<1>3. <<leg[w].epoch, "tool">> \in OpenCall BY Legs DEF Leg, OpenCall
<1>4. open' \in [Run -> SUBSET OpenCall]
  BY <1>1, <1>3 DEF ToolStep, ToolStart, OpenTool, ToolGuardPasses, ToolFinish, TypeOK
<1> QED BY <1>2, <1>4 DEF TypeOK, ToolStep, ToolStart, OpenTool, ToolGuardPasses, ToolFinish

LEMMA LegTypes ==
  ASSUME TypeOK, BusyHasRun, NEW w \in Worker,
         LegStep(w) \/ (\E out \in Outcomes : LegEnds(w, out)) \/ LegFails(w) \/ Crash(w)
  PROVE  TypeOK' /\ BusyHasRun'
<1> leg[w] \in Leg BY Legs
<1>1. ASSUME StartLeg(w) PROVE TypeOK' /\ BusyHasRun'
  <2>1. leg[w].run \in Run BY <1>1 DEF StartLeg, BusyHasRun
  <2>2. run[leg[w].run].inbox \in Nat BY <2>1, Rows DEF Row
  <2>3. /\ [leg[w] EXCEPT !.pc = "prepared", !.seen = run[leg[w].run].inbox] \in Leg
        /\ [leg[w] EXCEPT !.pc = "prepared", !.seen = run[leg[w].run].inbox].run = leg[w].run
    BY <2>2 DEF Leg
  <2>4. leg' \in [Worker -> Leg] /\ BusyHasRun' BY <1>1, <2>1, <2>3, LegUpdate DEF StartLeg
  <2> QED BY <1>1, <2>4 DEF TypeOK, StartLeg
<1>2. ASSUME MarkInboxDelivered(w) PROVE TypeOK' /\ BusyHasRun'
  <2> DEFINE r == leg[w].run
  <2>1. r \in Run BY <1>2 DEF MarkInboxDelivered, Deliver, BusyHasRun
  <2>2. leg[w].seen \in Nat BY DEF Leg
  <2>3. run[r] \in Row BY <2>1, Rows
  <2>4. [run[r] EXCEPT !.delivered = IF @ < leg[w].seen THEN leg[w].seen ELSE @] \in Row
    BY <2>2, <2>3 DEF Row
  <2>5. run' \in [Run -> Row] BY <1>2, <2>1, <2>4, RunUpdate DEF MarkInboxDelivered, Deliver
  <2>6. [leg[w] EXCEPT !.pc = "delivered"] \in Leg /\ [leg[w] EXCEPT !.pc = "delivered"].run = r
    BY DEF Leg
  <2>7. leg' \in [Worker -> Leg] /\ BusyHasRun'
    BY <1>2, <2>1, <2>6, LegUpdate DEF MarkInboxDelivered, Deliver
  <2> QED BY <1>2, <2>5, <2>7 DEF TypeOK, MarkInboxDelivered, Deliver
<1>3. ASSUME MarkInputApplied(w) PROVE TypeOK' /\ BusyHasRun'
  <2> DEFINE r == leg[w].run
  <2>1. r \in Run BY <1>3 DEF MarkInputApplied, BusyHasRun
  <2>2. run[r] \in Row BY <2>1, Rows
  <2>3. [run[r] EXCEPT !.input = "applied"] \in Row BY <2>2 DEF Row
  <2>4. run \in [Run -> Row] BY DEF TypeOK
  <2>5. run' \in [Run -> Row] BY <1>3, <2>1, <2>3, <2>4, RunUpdate DEF MarkInputApplied
  <2>6. /\ [leg[w] EXCEPT !.pc = "closing", !.out = "abort"] \in Leg
        /\ [leg[w] EXCEPT !.pc = "closing", !.out = "abort"].run = r
    BY DEF Leg
  <2>7. leg' \in [Worker -> Leg] /\ BusyHasRun'
    BY <1>3, <2>1, <2>6, LegUpdate, StepLeg DEF MarkInputApplied
  <2> QED BY <1>3, <2>5, <2>7 DEF TypeOK, MarkInputApplied
<1>4. ASSUME CheckPendingDecision(w) PROVE TypeOK' /\ BusyHasRun'
  <2>1. leg[w].run \in Run BY <1>4 DEF CheckPendingDecision, BusyHasRun
  <2>2. PICK d \in Decision \cup {NoDecision} :
          SetLeg(w, [leg[w] EXCEPT !.pc = "closing", !.ask = d])
    BY <1>4 DEF CheckPendingDecision, PendingDecisionForRun, BlockersOf, PendingOf
  <2>3. /\ [leg[w] EXCEPT !.pc = "closing", !.ask = d] \in Leg
        /\ [leg[w] EXCEPT !.pc = "closing", !.ask = d].run = leg[w].run
    BY DEF Leg
  <2>4. leg' \in [Worker -> Leg] /\ BusyHasRun' BY <2>1, <2>2, <2>3, LegUpdate
  <2> QED BY <1>4, <2>4 DEF TypeOK, CheckPendingDecision
<1>5. ASSUME Abandon(w) PROVE TypeOK' /\ BusyHasRun'
  BY <1>5, LegRelease DEF TypeOK, Abandon
<1>6. ASSUME NEW out \in Outcomes, LegEnds(w, out) PROVE TypeOK' /\ BusyHasRun'
  <2> DEFINE pc == IF out \in {"done", "error"} THEN "ended" ELSE "closing"
  <2>1. leg[w].run \in Run BY <1>6 DEF LegEnds, BusyHasRun
  <2>2. /\ [leg[w] EXCEPT !.pc = pc, !.out = out] \in Leg
        /\ [leg[w] EXCEPT !.pc = pc, !.out = out].run = leg[w].run
    BY DEF Leg, Outcomes
  <2>3. leg' \in [Worker -> Leg] /\ BusyHasRun' BY <1>6, <2>1, <2>2, LegUpdate DEF LegEnds
  <2> QED BY <1>6, <2>3 DEF TypeOK, LegEnds
<1>7. ASSUME LegFails(w) PROVE TypeOK' /\ BusyHasRun'
  <2>1. leg[w].run \in Run BY <1>7 DEF LegFails, Executing, BusyHasRun
  <2>2. /\ [leg[w] EXCEPT !.pc = "closing", !.out = "abort", !.ask = NoDecision] \in Leg
        /\ [leg[w] EXCEPT !.pc = "closing", !.out = "abort", !.ask = NoDecision].run = leg[w].run
    BY DEF Leg
  <2>3. leg' \in [Worker -> Leg] /\ BusyHasRun' BY <1>7, <2>1, <2>2, LegUpdate DEF LegFails
  <2> QED BY <1>7, <2>3 DEF TypeOK, LegFails
<1>8. ASSUME Crash(w) PROVE TypeOK' /\ BusyHasRun'
  <2>1. faults \in 0 .. MaxFaults /\ MaxFaults \in Nat
    BY StoreAssumption DEF TypeOK, StoreAssumption
  <2>2. faults' \in 0 .. MaxFaults BY <1>8, <2>1 DEF Crash
  <2> QED BY <1>8, <2>2, LegRelease DEF TypeOK, Crash
<1> QED BY <1>1, <1>2, <1>3, <1>4, <1>5, <1>6, <1>7, <1>8 DEF LegStep

LEMMA DutyTypes ==
  ASSUME TypeOK, BusyHasRun, NEW duty \in duties, AppendEvent(duty) \/ LosePostCommitStep(duty)
  PROVE  TypeOK' /\ BusyHasRun'
<1>1. duty \in Duty /\ duties' \subseteq Duty
  BY DEF TypeOK, AppendEvent, LosePostCommitStep
<1>2. duty.run \in Run BY <1>1 DEF Duty
<1>3. events \in [Run -> SUBSET Key] BY DEF TypeOK
<1>4. events' \in [Run -> SUBSET Key] BY <1>2, <1>3 DEF AppendEvent, LosePostCommitStep
<1>5. faults \in 0 .. MaxFaults /\ MaxFaults \in Nat
  BY StoreAssumption DEF TypeOK, StoreAssumption
<1>6. faults' \in 0 .. MaxFaults BY <1>5 DEF AppendEvent, LosePostCommitStep
<1> QED BY <1>1, <1>4, <1>6 DEF TypeOK, BusyHasRun, AppendEvent, LosePostCommitStep

----------------------------------------------------------------------------

LEMMA TypesInit == Init => TypeOK /\ BusyHasRun
<1> SUFFICES ASSUME Init PROVE TypeOK /\ BusyHasRun OBVIOUS
<1>1. NewRow \in Row BY DEF NewRow, Row, Status
<1>2. IdleLeg \in Leg /\ IdleLeg.pc = "idle" BY DEF IdleLeg, Leg
<1>3. faults \in 0 .. MaxFaults BY StoreAssumption DEF Init, StoreAssumption
<1> QED BY <1>1, <1>2, <1>3 DEF Init, TypeOK, BusyHasRun, DecisionStatus

LEMMA TypesNext == TypeOK /\ BusyHasRun /\ [Next]_vars => TypeOK' /\ BusyHasRun'
<1> SUFFICES ASSUME TypeOK, BusyHasRun, [Next]_vars PROVE TypeOK' /\ BusyHasRun' OBVIOUS
<1>1. CASE UNCHANGED vars BY <1>1 DEF vars, TypeOK, BusyHasRun
<1>2. ASSUME NEW w \in Worker, WorkerStep(w) \/ Heartbeat(w) \/ Crash(w)
      PROVE TypeOK' /\ BusyHasRun'
  BY <1>2, ClaimTypes, CloseTypes, AskTypes, ToolTypes, LegTypes DEF WorkerStep
<1>3. ASSUME NEW r \in Run, LeaseStep(r) \/ CancelOneQueuedRun(r) \/ Command(r)
      PROVE TypeOK' /\ BusyHasRun'
  BY <1>3, CommandTypes, LeaseTypes DEF LeaseStep
<1>4. ASSUME NEW d \in Decision,
             ResolveDecision(d) \/ DismissDecision(d) \/ RequeueWaitingRun(d)
      PROVE TypeOK' /\ BusyHasRun'
  BY <1>4, UserTypes
<1>5. ASSUME NEW duty \in duties, AppendEvent(duty) \/ LosePostCommitStep(duty)
      PROVE TypeOK' /\ BusyHasRun'
  BY <1>5, DutyTypes
<1> QED BY <1>1, <1>2, <1>3, <1>4, <1>5 DEF Next

\* Every reachable state of the agent-run subsystem is well typed: rows, event
\* keys, open calls, decisions, post-commit duties and legs.
THEOREM TypeCorrect == Spec => []TypeOK
<1>1. Init => TypeOK /\ BusyHasRun BY TypesInit
<1>2. TypeOK /\ BusyHasRun /\ [Next]_vars => (TypeOK /\ BusyHasRun)' BY TypesNext
<1> QED BY <1>1, <1>2, PTL DEF Spec

----------------------------------------------------------------------------
(* Effects *)

SameLease(r) == /\ run'[r].status = run[r].status
                /\ run'[r].epoch = run[r].epoch
                /\ run'[r].owner = run[r].owner

SameRuns == \A r \in Run : SameLease(r)

\* Run r leaves its status for s; its epoch stays.
MovesTo(r, s) == /\ run'[r].status = s /\ run'[r].epoch = run[r].epoch
                 /\ \A q \in Run \ {r} : SameLease(q)

NothingAsked == \A d \in Decision : decision'[d] = "pending" => decision[d] = "pending"

OthersKeepLegs(w) == \A v \in Worker \ {w} : leg'[v] = leg[v]

Dropped(w) == leg'[w] = IdleLeg /\ OthersKeepLegs(w)

\* The legs stay, or some worker drops its run.
LegsDrop == leg' = leg \/ \E w \in Worker : Dropped(w)

\* The leg of w goes on under its lease.
GoesOn(w) == /\ Leased(w) /\ leg'[w].pc \notin {"idle", "selected"}
             /\ leg'[w].run = leg[w].run /\ leg'[w].epoch = leg[w].epoch
             /\ OthersKeepLegs(w)

\* Inv less the types.
Safe ==
  /\ LegShape /\ ClaimsApart /\ LegsApart /\ OwnerIsHolder /\ OpenIsPast
  /\ CallsAreOpen /\ OpenToolPinsRun /\ AskerKeepsRun
  /\ QueuedIsUnblocked /\ OneBlocker /\ OpenToolIsUnblocked /\ AgentIsUnblocked
  /\ PauseKnowsBlocker /\ ExclusiveToolCalls /\ OneActiveRunPerSession

----------------------------------------------------------------------------
(* One lemma per effect *)

\* Nothing is claimed, moved, opened or asked; legs may end.
LEMMA QuietStep ==
  ASSUME TypeOK, TypeOK', Safe, SameRuns, open' = open, NothingAsked, LegsDrop
  PROVE  Safe'
<1> leg \in [Worker -> Leg] /\ leg' \in [Worker -> Leg] BY DEF TypeOK
<1>0. \A v \in Worker : leg'[v] = leg[v] \/ leg'[v] = IdleLeg
  BY DEF LegsDrop, Dropped, OthersKeepLegs
<1>i. IdleLeg.pc = "idle" /\ IdleLeg.out = "none" /\ IdleLeg.ask = NoDecision BY DEF IdleLeg
<1>1. LegShape' BY <1>0, <1>i DEF Safe, LegShape, Leased, SameRuns, SameLease
<1>2. ClaimsApart' BY <1>0, <1>i DEF Safe, LegShape, ClaimsApart, SameRuns, SameLease
<1>3. LegsApart' BY <1>0, <1>i DEF Safe, LegsApart, Leased
<1>4. OwnerIsHolder'
  BY <1>0, <1>i DEF Safe, LegShape, OwnerIsHolder, Current, Leased, SameRuns, SameLease
<1>5. OpenIsPast' BY DEF Safe, OpenIsPast, SameRuns, SameLease
<1>6. CallsAreOpen' BY <1>0, <1>i DEF Safe, CallsAreOpen, Leased
<1>7. OpenToolPinsRun' BY DEF Safe, OpenToolPinsRun, SameRuns, SameLease
<1>8. AskerKeepsRun'
  BY <1>0, <1>i DEF Safe, LegShape, AskerKeepsRun, Current, Leased, SameRuns, SameLease
<1>9a. QueuedIsUnblocked'
  BY DEF Safe, QueuedIsUnblocked, Blocks, NothingAsked, SameRuns, SameLease, BlockersOf, PendingOf
<1>9b. OneBlocker' BY DEF Safe, OneBlocker, Blocks, NothingAsked
<1>9c. OpenToolIsUnblocked'
  BY DEF Safe, OpenToolIsUnblocked, Blocks, NothingAsked, SameRuns, SameLease
<1>9d. AgentIsUnblocked'
  BY <1>0, <1>i DEF Safe, LegShape, AgentIsUnblocked, Current, Leased, NotBlocked, Blocks,
                    NothingAsked, SameRuns, SameLease
<1>9e. PauseKnowsBlocker'
  BY <1>0, <1>i DEF Safe, LegShape, PauseKnowsBlocker, Pausing, Current, Leased, Blocks,
                    NothingAsked, SameRuns, SameLease
<1>10. ExclusiveToolCalls' BY <1>0, <1>i DEF Safe, ExclusiveToolCalls
<1>11. OneActiveRunPerSession' BY DEF Safe, OneActiveRunPerSession, SameRuns, SameLease
<1> QED BY <1>1, <1>2, <1>3, <1>4, <1>5, <1>6, <1>7, <1>8, <1>9a, <1>9b,
       <1>9c, <1>9d, <1>9e, <1>10, <1>11 DEF Safe

\* A run that no claim holds leaves its status, and the leg that drove it, if
\* any, ends with it.
LEMMA MoveStep ==
  ASSUME TypeOK, TypeOK', Safe, open' = open, NothingAsked, LegsDrop,
         NEW r \in Run, NEW s \in Status, MovesTo(r, s), s # "running", ~Locked(r),
         s = "waiting_decision" => run[r].status = "running",
         s \in {"none", "queued"} => \A d \in Decision : ~Blocks(d, r),
         s \notin Terminal => \A c \in open[r] : c[2] # "tool",
         s \notin Terminal =>
           \A v \in Worker : leg[v].run = r /\ leg[v].pc \in {"asking", "inserting"}
                               => leg'[v] = IdleLeg
  PROVE  Safe'
<1> leg \in [Worker -> Leg] /\ leg' \in [Worker -> Leg] BY DEF TypeOK
<1>0. \A v \in Worker : leg'[v] = leg[v] \/ leg'[v] = IdleLeg
  BY DEF LegsDrop, Dropped, OthersKeepLegs
<1>i. IdleLeg.pc = "idle" /\ IdleLeg.out = "none" /\ IdleLeg.ask = NoDecision BY DEF IdleLeg
<1>1. LegShape' BY <1>0, <1>i DEF Safe, LegShape, Leased, MovesTo, SameLease
<1>2. ClaimsApart' BY <1>0, <1>i DEF Safe, LegShape, ClaimsApart, MovesTo, SameLease, Locked
<1>3. LegsApart' BY <1>0, <1>i DEF Safe, LegsApart, Leased
<1>4. OwnerIsHolder'
  BY <1>0, <1>i DEF Safe, LegShape, OwnerIsHolder, Current, Leased, MovesTo, SameLease
<1>5. OpenIsPast' BY DEF Safe, OpenIsPast, MovesTo, SameLease
<1>6. CallsAreOpen' BY <1>0, <1>i DEF Safe, CallsAreOpen, Leased
<1>7. OpenToolPinsRun' BY DEF Safe, OpenToolPinsRun, MovesTo, SameLease
<1>8. AskerKeepsRun'
  BY <1>0, <1>i DEF Safe, LegShape, AskerKeepsRun, Current, Leased, MovesTo, SameLease
<1>9a. QueuedIsUnblocked'
  BY DEF Safe, QueuedIsUnblocked, Blocks, NothingAsked, MovesTo, SameLease, BlockersOf, PendingOf
<1>9b. OneBlocker' BY DEF Safe, OneBlocker, Blocks, NothingAsked
<1>9c. OpenToolIsUnblocked'
  BY DEF Safe, OpenToolIsUnblocked, Blocks, NothingAsked, MovesTo, SameLease
<1>9d. AgentIsUnblocked'
  BY <1>0, <1>i DEF Safe, LegShape, AgentIsUnblocked, Current, Leased, NotBlocked, Blocks,
                    NothingAsked, MovesTo, SameLease
<1>9e. PauseKnowsBlocker'
  BY <1>0, <1>i DEF Safe, LegShape, PauseKnowsBlocker, Pausing, Current, Leased, Blocks,
                    NothingAsked, MovesTo, SameLease
<1>10. ExclusiveToolCalls' BY <1>0, <1>i DEF Safe, ExclusiveToolCalls
<1>11. OneActiveRunPerSession'
  BY DEF Safe, OneActiveRunPerSession, MovesTo, SameLease, Active, Terminal
<1> QED BY <1>1, <1>2, <1>3, <1>4, <1>5, <1>6, <1>7, <1>8, <1>9a, <1>9b,
       <1>9c, <1>9d, <1>9e, <1>10, <1>11 DEF Safe

\* A leg goes on to another point of its control; calls, questions and leases
\* stay.
LEMMA LegStepOn ==
  ASSUME TypeOK, TypeOK', Safe, SameRuns, open' = open, decision' = decision,
         NEW w \in Worker, GoesOn(w),
         leg'[w].pc = "inserting" => leg'[w].ask \in Decision /\ AskedBy[leg'[w].ask] = leg[w].run,
         leg'[w].out = "abort" => leg'[w].pc = "closing" /\ leg'[w].ask = NoDecision,
         leg'[w].out = "retry" => leg'[w].pc = "closing",
         leg'[w].pc \in {"claimed", "prepared", "delivered"} => leg'[w].ask = NoDecision,
         leg'[w].pc \in {"tool", "effect"} => leg[w].pc \in {"tool", "effect"},
         leg'[w].pc \in {"asking", "inserting"} => leg[w].pc \in {"asking", "inserting"},
         leg'[w].pc \notin {"tool", "effect"} /\ leg'[w].out # "abort"
           => leg[w].pc \notin {"tool", "effect"} /\ leg[w].out # "abort",
         Current(w) /\ NotBlocked(leg'[w]) => 
           NotBlocked(leg[w]) \/ \A d \in Decision : ~Blocks(d, leg[w].run),
         Current(w) /\ leg'[w].pc = "closing" /\ leg'[w].ask \in Decision
           => \A d \in Decision : Blocks(d, leg[w].run) => d = leg'[w].ask
  PROVE  Safe'
<1> leg \in [Worker -> Leg] /\ leg' \in [Worker -> Leg] BY DEF TypeOK
<1>w. leg[w].run \in Run BY DEF Safe, LegShape, GoesOn, Leased
<1>c. \A v \in Worker : Current(v)' = Current(v)
  BY <1>w DEF Safe, LegShape, Current, Leased, GoesOn, OthersKeepLegs, SameRuns, SameLease
<1>1. LegShape' BY <1>w DEF Safe, LegShape, Leased, GoesOn, OthersKeepLegs, SameRuns, SameLease
<1>2. ClaimsApart'
  BY DEF Safe, LegShape, ClaimsApart, GoesOn, OthersKeepLegs, SameRuns, SameLease
<1>3. LegsApart' BY DEF Safe, LegsApart, Leased, GoesOn, OthersKeepLegs
<1>4. OwnerIsHolder'
  BY <1>c, <1>w DEF Safe, OwnerIsHolder, Current, Leased, LegShape, GoesOn, OthersKeepLegs, SameRuns, SameLease
<1>5. OpenIsPast' BY DEF Safe, OpenIsPast, SameRuns, SameLease
<1>6. CallsAreOpen' BY DEF Safe, CallsAreOpen, Leased, GoesOn, OthersKeepLegs
<1>7. OpenToolPinsRun' BY DEF Safe, OpenToolPinsRun, SameRuns, SameLease
<1>8. AskerKeepsRun'
  BY <1>c, <1>w DEF Safe, LegShape, AskerKeepsRun, GoesOn, OthersKeepLegs, SameRuns, SameLease
<1>9a. QueuedIsUnblocked' BY DEF Safe, QueuedIsUnblocked, Blocks, SameRuns, SameLease
<1>9b. OneBlocker' BY DEF Safe, OneBlocker, Blocks
<1>9c. OpenToolIsUnblocked' BY DEF Safe, OpenToolIsUnblocked, Blocks, SameRuns, SameLease
<1>v. leg'[w].run = leg[w].run /\ \A v \in Worker \ {w} : leg'[v] = leg[v]
  BY DEF GoesOn, OthersKeepLegs
<1>9d. AgentIsUnblocked' BY <1>c, <1>v DEF Safe, AgentIsUnblocked, NotBlocked, Blocks
<1>9e. PauseKnowsBlocker' BY <1>c, <1>v DEF Safe, PauseKnowsBlocker, Pausing, Blocks
<1>10. ExclusiveToolCalls' BY DEF Safe, ExclusiveToolCalls, GoesOn, OthersKeepLegs
<1>11. OneActiveRunPerSession' BY DEF Safe, OneActiveRunPerSession, SameRuns, SameLease
<1> QED BY <1>1, <1>2, <1>3, <1>4, <1>5, <1>6, <1>7, <1>8, <1>9a, <1>9b,
       <1>9c, <1>9d, <1>9e, <1>10, <1>11 DEF Safe

LEMMA ClaimSelectStep ==
  ASSUME TypeOK, TypeOK', Safe, NEW w \in Worker, NEW r \in Run, ClaimSelect(w, r)
  PROVE  Safe'
<1> leg \in [Worker -> Leg] /\ leg' \in [Worker -> Leg] BY DEF TypeOK
<1>w. /\ leg'[w].pc = "selected" /\ leg'[w].run = r /\ leg'[w].out = "none"
      /\ leg'[w].ask = NoDecision
      /\ \A v \in Worker \ {w} : leg'[v] = leg[v]
  BY DEF ClaimSelect, SetLeg, IdleLeg
<1>u. run' = run /\ open' = open /\ decision' = decision BY DEF ClaimSelect
<1>q. run[r].status = "queued" /\ ~Locked(r) BY DEF ClaimSelect, Eligible
<1> HIDE DEF ClaimSelect
<1>1. LegShape' BY <1>w, <1>u DEF Safe, LegShape, Leased
<1>2. ClaimsApart' BY <1>w, <1>u, <1>q DEF Safe, ClaimsApart, Locked
<1>3. LegsApart' BY <1>w DEF Safe, LegsApart, Leased
<1>4. OwnerIsHolder' BY <1>w, <1>u DEF Safe, OwnerIsHolder, Current, Leased
<1>5. OpenIsPast' BY <1>u DEF Safe, OpenIsPast
<1>6. CallsAreOpen' BY <1>w, <1>u DEF Safe, CallsAreOpen, Leased
<1>7. OpenToolPinsRun' BY <1>u DEF Safe, OpenToolPinsRun
<1>8. AskerKeepsRun' BY <1>w, <1>u DEF Safe, AskerKeepsRun, Current, Leased
<1>9a. QueuedIsUnblocked' BY <1>u DEF Safe, QueuedIsUnblocked, Blocks
<1>9b. OneBlocker' BY <1>u DEF Safe, OneBlocker, Blocks
<1>9c. OpenToolIsUnblocked' BY <1>u DEF Safe, OpenToolIsUnblocked, Blocks
<1>9d. AgentIsUnblocked'
  BY <1>w, <1>u DEF Safe, AgentIsUnblocked, NotBlocked, Blocks, Current, Leased
<1>9e. PauseKnowsBlocker'
  BY <1>w, <1>u DEF Safe, PauseKnowsBlocker, Pausing, Blocks, Current, Leased
<1>10. ExclusiveToolCalls' BY <1>w DEF Safe, ExclusiveToolCalls
<1>11. OneActiveRunPerSession' BY <1>u DEF Safe, OneActiveRunPerSession
<1> QED BY <1>1, <1>2, <1>3, <1>4, <1>5, <1>6, <1>7, <1>8, <1>9a, <1>9b,
       <1>9c, <1>9d, <1>9e, <1>10, <1>11 DEF Safe

\* A claim starts a new epoch: nothing of the run is open under it and no
\* other leg has it.
LEMMA ClaimCommitStep ==
  ASSUME TypeOK, TypeOK', Safe, NEW w \in Worker, ClaimCommit(w)
  PROVE  Safe'
<1> leg \in [Worker -> Leg] /\ leg' \in [Worker -> Leg] BY DEF TypeOK
<1> DEFINE r == leg[w].run
           e == run[r].epoch + 1
<1>p. leg[w].pc = "selected" /\ ~ActiveIn(SessionOf[r]) BY DEF ClaimCommit, ClaimUpdate
<1>r. r \in Run BY <1>p DEF Safe, LegShape
<1>rr. run[r] \in Row BY <1>r, Rows
<1>u. open' = open /\ decision' = decision BY DEF ClaimCommit, ClaimUpdate
<1>run. /\ run'[r].status = "running" /\ run'[r].epoch = e /\ run'[r].owner = w
        /\ \A q \in Run \ {r} : run'[q] = run[q]
  <2>1. Claimed(run[r]) \in Row /\ Claimed(run[r]).epoch = run[r].epoch
    BY <1>rr DEF Claimed, Row
  <2>2. run' = [run EXCEPT ![r] = [Claimed(run[r]) EXCEPT !.status = "running", !.owner = w,
                                     !.epoch = @ + 1, !.lease = "live", !.parked = FALSE]]
    BY DEF ClaimCommit, ClaimUpdate, SetRow
  <2>3. run \in [Run -> Row] BY DEF TypeOK
  <2> QED BY <1>r, <2>1, <2>2, <2>3 DEF Row
<1>leg. /\ leg'[w].pc = "claimed" /\ leg'[w].run = r /\ leg'[w].epoch = e
        /\ leg'[w].ask = leg[w].ask /\ leg'[w].out = leg[w].out
        /\ \A v \in Worker \ {w} : leg'[v] = leg[v]
  <2>1. Claimed(run[r]).epoch = run[r].epoch BY <1>rr DEF Claimed, Row
  <2>2. leg' = [leg EXCEPT ![w] = [leg[w] EXCEPT !.pc = "claimed", !.epoch = e]]
    BY <2>1 DEF ClaimCommit, ClaimUpdate, SetLeg
  <2> QED BY <2>2 DEF Leg
<1>n. run[r].epoch \in Nat /\ e \in Nat /\ e > run[r].epoch /\ e # run[r].epoch BY <1>rr DEF Row
<1>q. /\ run[r].status = "queued" /\ leg[w].ask = NoDecision
      /\ leg[w].out \notin {"abort", "retry"}
      /\ \A v \in Worker : leg[v].pc = "selected" /\ leg[v].run = r => v = w
  BY <1>p DEF Safe, ClaimsApart, LegShape
<1>old. \A v \in Worker : Leased(v) /\ leg[v].run = r => leg[v].epoch # e /\ leg[v].epoch < e
  <2> SUFFICES ASSUME NEW v \in Worker, Leased(v), leg[v].run = r
               PROVE  leg[v].epoch # e /\ leg[v].epoch < e
    OBVIOUS
  <2>1. leg[v].epoch <= run[r].epoch BY DEF Safe, LegShape
  <2>2. leg[v].epoch \in Nat BY DEF Leg
  <2> QED BY <1>n, <2>1, <2>2
<1>o. \A c \in open[r] : c[1] <= e /\ c[1] # e
  <2> SUFFICES ASSUME NEW c \in open[r] PROVE c[1] <= e /\ c[1] # e OBVIOUS
  <2>1. c[1] \in Nat BY <1>r DEF TypeOK, OpenCall
  <2>2. c[1] <= run[r].epoch BY <1>r DEF Safe, OpenIsPast
  <2> QED BY <1>n, <2>1, <2>2
<1> HIDE DEF r, e
<1>1. LegShape' 
  <2>1. Leased(w)' /\ e <= e BY <1>leg, <1>n DEF Leased
  <2>2. \A v \in Worker \ {w} : Leased(v)' = Leased(v) BY <1>leg DEF Leased
  <2>3. \A v \in Worker : Leased(v)' => leg'[v].epoch <= run'[leg'[v].run].epoch
    <3> SUFFICES ASSUME NEW v \in Worker, Leased(v)' PROVE leg'[v].epoch <= run'[leg'[v].run].epoch
      OBVIOUS
    <3>1. CASE v = w BY <1>leg, <1>run, <1>n, <3>1
    <3>2. CASE v # w /\ leg[v].run = r
      <4>1. leg[v].epoch < e /\ leg[v].epoch \in Nat BY <1>old, <2>2, <3>2 DEF Leg
      <4> QED BY <1>leg, <1>run, <1>n, <3>2, <4>1
    <3>3. CASE v # w /\ leg[v].run # r
      BY <1>leg, <1>run, <2>2, <3>3 DEF Safe, LegShape, Leased
    <3> QED BY <3>1, <3>2, <3>3
  <2> QED BY <1>leg, <1>r, <1>q, <2>3 DEF Safe, LegShape
<1>2. ClaimsApart' BY <1>leg, <1>run, <1>q DEF Safe, ClaimsApart, LegShape
<1>3. LegsApart' BY <1>leg, <1>old DEF Safe, LegsApart, Leased
<1>c. \A v \in Worker \ {w} : Current(v)' => Current(v) /\ leg[v].run # r
  BY <1>leg, <1>run, <1>old DEF Safe, LegShape, Current, Leased
<1>4. OwnerIsHolder' BY <1>leg, <1>run, <1>c DEF Safe, OwnerIsHolder, LegShape, Current, Leased
<1>5. OpenIsPast' BY <1>u, <1>run, <1>o DEF Safe, OpenIsPast
<1>6. CallsAreOpen' BY <1>u, <1>leg, <1>o DEF Safe, CallsAreOpen, Leased
<1>7. OpenToolPinsRun' BY <1>u, <1>run, <1>q DEF Safe, OpenToolPinsRun, Terminal
<1>8. AskerKeepsRun'
  BY <1>leg, <1>run, <1>q, <1>r DEF Safe, AskerKeepsRun, LegShape, Current, Leased, Terminal
<1>9a. QueuedIsUnblocked' BY <1>u, <1>run DEF Safe, QueuedIsUnblocked, Blocks
<1>9b. OneBlocker' BY <1>u DEF Safe, OneBlocker, Blocks
<1>9c. OpenToolIsUnblocked' BY <1>u, <1>run, <1>o DEF Safe, OpenToolIsUnblocked, Blocks
<1>9d. AgentIsUnblocked'
  BY <1>u, <1>leg, <1>c, <1>q, <1>r DEF Safe, AgentIsUnblocked, QueuedIsUnblocked, NotBlocked, Blocks
<1>9e. PauseKnowsBlocker' BY <1>u, <1>leg, <1>c DEF Safe, PauseKnowsBlocker, Pausing, Blocks
<1>10. ExclusiveToolCalls' BY <1>leg DEF Safe, ExclusiveToolCalls
<1>11. OneActiveRunPerSession'
  BY <1>run, <1>p, <1>r DEF Safe, OneActiveRunPerSession, ActiveIn, r
<1> QED BY <1>1, <1>2, <1>3, <1>4, <1>5, <1>6, <1>7, <1>8, <1>9a, <1>9b,
       <1>9c, <1>9d, <1>9e, <1>10, <1>11 DEF Safe

\* A call opens or closes under the current lease.
CallStep(w, k, opens) == LET c == <<leg[w].epoch, k>> IN
  open' = [open EXCEPT ![leg[w].run] = IF opens THEN @ \cup {c} ELSE @ \ {c}]

LEMMA FencedIsCurrent ==
  ASSUME Safe, NEW w \in Worker, Fenced(w), Leased(w)
  PROVE  Current(w) /\ leg[w].run \in Run
BY DEF Fenced, Current

\* Two workers under the current lease of one run are the same worker.
LEMMA CurrentIsUnique ==
  ASSUME Safe, NEW w \in Worker, NEW v \in Worker, Current(w), Current(v), leg[v].run = leg[w].run
  PROVE  v = w
BY DEF Safe, LegsApart, Current

LEMMA CallOpens ==
  ASSUME TypeOK, TypeOK', Safe, run' = run, decision' = decision, NEW w \in Worker, GoesOn(w),
         Current(w), leg[w].pc = "working", leg'[w].out = leg[w].out, leg'[w].ask = leg[w].ask,
         \/ leg'[w].pc = "tool" /\ CallStep(w, "tool", TRUE)
         \/ leg'[w].pc = "asking" /\ CallStep(w, "ask", TRUE)
  PROVE  Safe'
<1> leg \in [Worker -> Leg] /\ leg' \in [Worker -> Leg] BY DEF TypeOK
<1>w. leg[w].run \in Run /\ run[leg[w].run].status = "running" /\ run[leg[w].run].epoch = leg[w].epoch
  BY DEF Safe, LegShape, Current, Leased
<1>n. leg[w].epoch \in Nat BY DEF Leg
<1>v. leg'[w].run = leg[w].run /\ leg'[w].epoch = leg[w].epoch
      /\ \A v \in Worker \ {w} : leg'[v] = leg[v]
  BY DEF GoesOn, OthersKeepLegs
<1>o. /\ \A r \in Run \ {leg[w].run} : open'[r] = open[r]
      /\ open[leg[w].run] \subseteq open'[leg[w].run]
      /\ \A c \in open'[leg[w].run] :
           c \in open[leg[w].run] \/ c = <<leg[w].epoch, "tool">> \/ c = <<leg[w].epoch, "ask">>
      /\ leg'[w].pc = "tool" => <<leg[w].epoch, "tool">> \in open'[leg[w].run]
      /\ leg'[w].pc = "asking" => <<leg[w].epoch, "ask">> \in open'[leg[w].run]
      /\ leg'[w].pc = "asking" => \A e \in Nat :
           <<e, "tool">> \in open'[leg[w].run] => <<e, "tool">> \in open[leg[w].run]
  BY <1>w DEF CallStep, TypeOK
<1>c. \A v \in Worker : Current(v)' = Current(v)
  BY <1>v DEF Current, Leased, GoesOn
<1>a. \A v \in Worker \ {w} : Leased(v) /\ leg[v].run = leg[w].run => leg[v].epoch # leg[w].epoch
  BY DEF Safe, LegsApart, Current
<1>t. \A v \in Worker : leg[v].pc \in {"tool", "effect"} => leg[v].run # leg[w].run
  <2> SUFFICES ASSUME NEW v \in Worker, leg[v].pc \in {"tool", "effect"}, leg[v].run = leg[w].run
               PROVE  FALSE
    OBVIOUS
  <2>1. <<leg[v].epoch, "tool">> \in open[leg[w].run] BY DEF Safe, CallsAreOpen
  <2>2. leg[v].epoch = leg[w].epoch
    BY <1>w, <2>1 DEF Safe, OpenToolPinsRun, Terminal
  <2> QED BY <1>a, <2>2 DEF Leased
<1>1. LegShape'
  <2>1. leg[w].out \notin {"abort", "retry"} BY DEF Safe, LegShape
  <2>2. leg'[w].pc \in {"tool", "asking"} /\ leg'[w].out \notin {"abort", "retry"} BY <2>1
  <2>3. LegShape!(w)' BY <2>2, <1>v, <1>w, <1>n DEF Leased
  <2>4. \A v \in Worker \ {w} : LegShape!(v)' BY <1>v DEF Safe, LegShape, Leased
  <2> QED BY <2>3, <2>4 DEF LegShape
<1>2. ClaimsApart' BY <1>v DEF Safe, ClaimsApart, GoesOn
<1>3. LegsApart' BY <1>v DEF Safe, LegsApart, Leased, GoesOn
<1>4. OwnerIsHolder' BY <1>c, <1>v DEF Safe, OwnerIsHolder
<1>5. OpenIsPast'
  <2> SUFFICES ASSUME NEW r \in Run, NEW c \in open'[r] PROVE c[1] <= run[r].epoch BY DEF OpenIsPast
  <2>1. CASE c \in open[r] BY <2>1 DEF Safe, OpenIsPast
  <2>2. CASE c \notin open[r]
    <3>1. r = leg[w].run /\ c[1] = leg[w].epoch BY <1>o, <2>2
    <3> QED BY <1>w, <1>n, <3>1
  <2> QED BY <2>1, <2>2
<1>6. CallsAreOpen'
  <2> SUFFICES ASSUME NEW v \in Worker
      PROVE /\ leg'[v].pc \in {"tool", "effect"} => <<leg'[v].epoch, "tool">> \in open'[leg'[v].run]
            /\ leg'[v].pc \in {"asking", "inserting"} => <<leg'[v].epoch, "ask">> \in open'[leg'[v].run]
            /\ Leased(v)' /\ leg'[v].pc \notin {"tool", "effect"} /\ leg'[v].out # "abort"
                 => <<leg'[v].epoch, "tool">> \notin open'[leg'[v].run]
    BY DEF CallsAreOpen
  <2>1. CASE v = w BY <1>o, <1>v, <1>n, <2>1 DEF Safe, CallsAreOpen, Leased, GoesOn
  <2>2. CASE v # w
    <3>1. leg'[v] = leg[v] /\ leg[v].epoch \in Nat BY <1>v, <2>2 DEF Leg
    <3>2. Leased(v) => leg[v].run \in Run BY DEF Safe, LegShape, Leased
    <3>3. leg[v].pc # "idle" => leg[v].run \in Run BY DEF Safe, LegShape
    <3>4. leg[v].pc # "idle" => open[leg[v].run] \subseteq open'[leg[v].run]
      BY <1>o, <3>3
    <3>5. Leased(v) /\ <<leg[v].epoch, "tool">> \notin open[leg[v].run]
            => <<leg[v].epoch, "tool">> \notin open'[leg[v].run]
      <4>1. CASE leg[v].run = leg[w].run BY <1>o, <1>a, <2>2, <4>1
      <4>2. CASE leg[v].run # leg[w].run BY <1>o, <3>2, <4>2
      <4> QED BY <4>1, <4>2
    <3>6. Leased(v)' <=> Leased(v) BY <3>1 DEF Leased
    <3>7. leg[v].pc \in {"tool", "effect", "asking", "inserting"} => leg[v].pc # "idle"
      OBVIOUS
    <3> QED BY <3>1, <3>4, <3>5, <3>6, <3>7 DEF Safe, CallsAreOpen
  <2> QED BY <2>1, <2>2
<1>7. OpenToolPinsRun'
  <2> SUFFICES ASSUME NEW r \in Run, NEW c \in open'[r], c[2] = "tool"
      PROVE  run[r].status \in Terminal \/ (run[r].status = "running" /\ run[r].epoch = c[1])
    BY DEF OpenToolPinsRun
  <2>1. CASE c \in open[r] BY <2>1 DEF Safe, OpenToolPinsRun
  <2>2. CASE c \notin open[r] BY <1>o, <1>w, <2>2
  <2> QED BY <2>1, <2>2
<1>8. AskerKeepsRun' BY <1>c, <1>v DEF Safe, AskerKeepsRun
<1>9a. QueuedIsUnblocked' BY DEF Safe, QueuedIsUnblocked, Blocks
<1>9b. OneBlocker' BY DEF Safe, OneBlocker, Blocks
<1>9c. OpenToolIsUnblocked'
  BY <1>o, <1>w DEF Safe, OpenToolIsUnblocked, AgentIsUnblocked, NotBlocked, Blocks
<1>9d. AgentIsUnblocked' BY <1>c, <1>v DEF Safe, AgentIsUnblocked, NotBlocked, Blocks
<1>9e. PauseKnowsBlocker' BY <1>c, <1>v DEF Safe, PauseKnowsBlocker, Pausing, Blocks
<1>10. ExclusiveToolCalls' BY <1>v, <1>t DEF Safe, ExclusiveToolCalls
<1>11. OneActiveRunPerSession' BY DEF Safe, OneActiveRunPerSession
<1> QED BY <1>1, <1>2, <1>3, <1>4, <1>5, <1>6, <1>7, <1>8, <1>9a, <1>9b,
       <1>9c, <1>9d, <1>9e, <1>10, <1>11 DEF Safe

LEMMA CallCloses ==
  ASSUME TypeOK, TypeOK', Safe, run' = run, decision' = decision, NEW w \in Worker, GoesOn(w),
         Current(w), leg[w].out # "abort",
         \/ /\ leg[w].pc \in {"tool", "effect"} /\ CallStep(w, "tool", FALSE)
            /\ leg'[w].pc = "working" /\ leg'[w].out \notin {"abort", "retry"}
         \/ /\ leg[w].pc = "asked" /\ CallStep(w, "ask", FALSE)
            /\ leg'[w].out \notin {"abort", "retry"}
            /\ \/ leg[w].ask \notin Blocking /\ leg'[w].pc = "working"
               \/ leg'[w].pc = "ended"
  PROVE  Safe'
<1> leg \in [Worker -> Leg] /\ leg' \in [Worker -> Leg] BY DEF TypeOK
<1>w. leg[w].run \in Run BY DEF Safe, LegShape, Current, Leased
<1>n. leg[w].epoch \in Nat BY DEF Leg
<1>v. leg'[w].run = leg[w].run /\ leg'[w].epoch = leg[w].epoch
      /\ \A v \in Worker \ {w} : leg'[v] = leg[v]
  BY DEF GoesOn, OthersKeepLegs
<1>o. /\ \A r \in Run : open'[r] \subseteq open[r]
      /\ \A r \in Run \ {leg[w].run} : open'[r] = open[r]
      /\ \A e \in Nat, k \in {"tool", "ask"} :
           <<e, k>> \in open[leg[w].run] /\ e # leg[w].epoch => <<e, k>> \in open'[leg[w].run]
      /\ leg[w].pc \in {"tool", "effect"} => <<leg[w].epoch, "tool">> \notin open'[leg[w].run]
  BY <1>w DEF CallStep, TypeOK
<1>c. \A v \in Worker : Current(v)' = Current(v)
  BY <1>v DEF Current, Leased, GoesOn
<1>a. \A v \in Worker \ {w} : Leased(v) /\ leg[v].run = leg[w].run => leg[v].epoch # leg[w].epoch
  BY DEF Safe, LegsApart, Current
<1>1. LegShape'
  <2>1. leg'[w].pc \in {"working", "ended"} /\ leg'[w].out \notin {"abort", "retry"}
    OBVIOUS
  <2>2. LegShape!(w)' BY <2>1, <1>v, <1>w, <1>n DEF Leased, Current
  <2>3. \A v \in Worker \ {w} : LegShape!(v)' BY <1>v DEF Safe, LegShape, Leased
  <2> QED BY <2>2, <2>3 DEF LegShape
<1>2. ClaimsApart' BY <1>v DEF Safe, ClaimsApart, GoesOn
<1>3. LegsApart' BY <1>v DEF Safe, LegsApart, Leased, GoesOn
<1>4. OwnerIsHolder' BY <1>c, <1>v DEF Safe, OwnerIsHolder
<1>5. OpenIsPast' BY <1>o DEF Safe, OpenIsPast
<1>6. CallsAreOpen'
  <2> SUFFICES ASSUME NEW v \in Worker
      PROVE /\ leg'[v].pc \in {"tool", "effect"} => <<leg'[v].epoch, "tool">> \in open'[leg'[v].run]
            /\ leg'[v].pc \in {"asking", "inserting"} => <<leg'[v].epoch, "ask">> \in open'[leg'[v].run]
            /\ Leased(v)' /\ leg'[v].pc \notin {"tool", "effect"} /\ leg'[v].out # "abort"
                 => <<leg'[v].epoch, "tool">> \notin open'[leg'[v].run]
    BY DEF CallsAreOpen
  <2>1. CASE v = w
    <3>1. leg[w].pc = "asked" => <<leg[w].epoch, "tool">> \notin open[leg[w].run]
      BY DEF Safe, CallsAreOpen, Leased
    <3> QED BY <1>o, <1>v, <1>w, <2>1, <3>1
  <2>2. CASE v # w
    <3>1. leg'[v] = leg[v] /\ leg[v].epoch \in Nat BY <1>v, <2>2 DEF Leg
    <3>2. Leased(v) => leg[v].run \in Run BY DEF Safe, LegShape, Leased
    <3>3. \A k \in {"tool", "ask"} : Leased(v) /\ <<leg[v].epoch, k>> \in open[leg[v].run]
                                     => <<leg[v].epoch, k>> \in open'[leg[v].run]
      <4> SUFFICES ASSUME Leased(v), NEW k \in {"tool", "ask"},
                          <<leg[v].epoch, k>> \in open[leg[v].run]
                   PROVE  <<leg[v].epoch, k>> \in open'[leg[v].run]
        OBVIOUS
      <4>1. CASE leg[v].run = leg[w].run BY <1>o, <1>a, <2>2, <3>1, <4>1
      <4>2. CASE leg[v].run # leg[w].run BY <1>o, <3>2, <4>2
      <4> QED BY <4>1, <4>2
    <3>4. Leased(v) => open'[leg[v].run] \subseteq open[leg[v].run] BY <1>o, <3>2
    <3> QED BY <3>1, <3>3, <3>4 DEF Safe, CallsAreOpen, Leased
  <2> QED BY <2>1, <2>2
<1>7. OpenToolPinsRun' BY <1>o DEF Safe, OpenToolPinsRun
<1>8. AskerKeepsRun' BY <1>c, <1>v DEF Safe, AskerKeepsRun
<1>9a. QueuedIsUnblocked' BY DEF Safe, QueuedIsUnblocked, Blocks
<1>9b. OneBlocker' BY DEF Safe, OneBlocker, Blocks
<1>9c. OpenToolIsUnblocked' BY <1>o DEF Safe, OpenToolIsUnblocked, Blocks
<1>9d. AgentIsUnblocked'
  <2> SUFFICES ASSUME NEW v \in Worker, NEW d \in Decision,
                      Current(v)', NotBlocked(leg'[v]), Blocks(d, leg[v].run)
               PROVE  FALSE
    BY <1>v DEF AgentIsUnblocked, Blocks
  <2>1. Current(v) BY <1>c
  <2>2. CASE v # w BY <1>v, <2>1, <2>2 DEF Safe, AgentIsUnblocked
  <2>3. CASE v = w
    <3>1. leg'[w].pc = "working" BY <2>3 DEF NotBlocked
    <3>2. NotBlocked(leg[w]) BY <3>1 DEF NotBlocked
    <3> QED BY <2>1, <2>3, <3>2 DEF Safe, AgentIsUnblocked
  <2> QED BY <2>2, <2>3
<1>9e. PauseKnowsBlocker'
  <2>1. ~Pausing(w)' BY <1>v DEF Pausing
  <2>2. \A v \in Worker \ {w} : Pausing(v)' <=> Pausing(v) BY <1>v DEF Pausing
  <2>3. \A d \in Decision, r \in Run : Blocks(d, r)' <=> Blocks(d, r) BY DEF Blocks
  <2> QED BY <1>c, <1>v, <2>1, <2>2, <2>3 DEF Safe, PauseKnowsBlocker, Blocks
<1>10. ExclusiveToolCalls' BY <1>v DEF Safe, ExclusiveToolCalls
<1>11. OneActiveRunPerSession' BY DEF Safe, OneActiveRunPerSession
<1> QED BY <1>1, <1>2, <1>3, <1>4, <1>5, <1>6, <1>7, <1>8, <1>9a, <1>9b,
       <1>9c, <1>9d, <1>9e, <1>10, <1>11 DEF Safe

\* Blocks after the step, for a given run.
WillBlock(d, r) == d \in Blocking /\ decision'[d] = "pending" /\ AskedBy[d] = r

\* The question is inserted: its asker still has the run, so no other leg is
\* at work on it and no tool call of this lease is open.
LEMMA AskInsertStep ==
  ASSUME TypeOK, TypeOK', Safe, NEW w \in Worker, AskInsert(w)
  PROVE  Safe'
<1> leg \in [Worker -> Leg] /\ leg' \in [Worker -> Leg] BY DEF TypeOK
<1> DEFINE d == leg[w].ask
           r == leg[w].run
<1>u. run' = run /\ open' = open /\ leg[w].pc = "inserting" BY DEF AskInsert
<1>w. r \in Run /\ d \in Decision /\ AskedBy[d] = r /\ leg[w].out # "abort"
  BY <1>u DEF Safe, LegShape
<1>v. /\ leg[w].run = r /\ leg[w].ask = d /\ leg'[w].run = r /\ leg'[w].epoch = leg[w].epoch /\ leg'[w].pc = "asked"
      /\ leg'[w].ask = d /\ leg'[w].out = leg[w].out
      /\ \A v \in Worker \ {w} : leg'[v] = leg[v]
  BY DEF AskInsert, SetLeg, Leg
<1>p. run[r].status \in Terminal \/ Current(w) BY <1>u DEF Safe, AskerKeepsRun
<1>b. /\ \A x \in Decision, q \in Run : WillBlock(x, q) => Blocks(x, q) \/ (x = d /\ q = r)
      /\ d \in Blocking => \A x \in Decision : WillBlock(x, r) => x = d
      /\ d \notin Blocking => \A x \in Decision, q \in Run : WillBlock(x, q) => Blocks(x, q)
  <2>1. \A x \in Decision : decision'[x] =
          IF x = d THEN "pending"
          ELSE IF d \in Blocking /\ x \in BlockersOf(r) THEN "superseded" ELSE decision[x]
    BY <1>w DEF AskInsert
  <2>2. \A x \in Decision : x \in BlockersOf(r) <=> Blocks(x, r)
    BY DEF Blocks, BlockersOf, PendingOf
  <2> HIDE DEF d, r
  <2>3. \A x \in Decision, q \in Run : WillBlock(x, q) => Blocks(x, q) \/ (x = d /\ q = r)
    BY <1>w, <2>1 DEF Blocks, WillBlock
  <2>4. d \in Blocking => \A x \in Decision : WillBlock(x, r) => x = d
    BY <2>1, <2>2 DEF Blocks, WillBlock
  <2>5. d \notin Blocking => \A x \in Decision, q \in Run : WillBlock(x, q) => Blocks(x, q)
    BY <2>1 DEF Blocks, WillBlock
  <2> QED BY <2>3, <2>4, <2>5
<1>c. \A v \in Worker : Current(v)' = Current(v)
  BY <1>u, <1>v DEF Current, Leased
<1>a. \A v \in Worker \ {w} : Current(v) => leg[v].run # r
  <2> SUFFICES ASSUME NEW v \in Worker \ {w}, Current(v), leg[v].run = r PROVE FALSE OBVIOUS
  <2>1. Current(w) BY <1>p DEF Current, Terminal
  <2> QED BY <2>1, CurrentIsUnique
<1>i. Current(w) => \A x \in Decision : ~Blocks(x, r)
  BY <1>u DEF Safe, AgentIsUnblocked, NotBlocked
<1> HIDE DEF d, r
<1>1. LegShape' BY <1>u, <1>v, <1>w DEF Safe, LegShape, Leased
<1>2. ClaimsApart' BY <1>u, <1>v DEF Safe, ClaimsApart
<1>3. LegsApart' BY <1>u, <1>v DEF Safe, LegsApart, Leased, r
<1>4. OwnerIsHolder' BY <1>c, <1>u, <1>v DEF Safe, OwnerIsHolder, r
<1>5. OpenIsPast' BY <1>u DEF Safe, OpenIsPast
<1>6. CallsAreOpen' BY <1>u, <1>v DEF Safe, CallsAreOpen, Leased, r
<1>7. OpenToolPinsRun' BY <1>u DEF Safe, OpenToolPinsRun
<1>8. AskerKeepsRun' BY <1>c, <1>u, <1>v DEF Safe, AskerKeepsRun
<1>9a. QueuedIsUnblocked'
  <2>1. run[r].status \notin {"none", "queued"} BY <1>p, <1>v DEF Terminal, Current
  <2>2. \A q \in Run : \A x \in Decision : WillBlock(x, q) => run[q].status \notin {"none", "queued"}
    BY <1>b, <2>1 DEF Safe, QueuedIsUnblocked
  <2> QED BY <1>u, <2>2 DEF QueuedIsUnblocked, Blocks, WillBlock
<1>9b. OneBlocker'
  <2> SUFFICES ASSUME NEW q \in Run, NEW x \in Decision, NEW y \in Decision,
                      WillBlock(x, q), WillBlock(y, q)
               PROVE  x = y
    BY DEF OneBlocker, Blocks, WillBlock
  <2>1. CASE q = r /\ d \in Blocking BY <1>b, <2>1
  <2>2. CASE ~(q = r /\ d \in Blocking) BY <1>b, <2>2 DEF Safe, OneBlocker
  <2> QED BY <2>1, <2>2
<1>9c. OpenToolIsUnblocked'
  <2>1. Current(w) => <<run[r].epoch, "tool">> \notin open[r]
    BY <1>u, <1>w DEF Safe, CallsAreOpen, Current, r
  <2> QED BY <1>b, <1>p, <1>u, <2>1 DEF Safe, OpenToolIsUnblocked, Terminal, Blocks, WillBlock
<1>9d. AgentIsUnblocked'
  <2> SUFFICES ASSUME NEW v \in Worker, NEW x \in Decision, Current(v)', NotBlocked(leg'[v])
               PROVE  ~WillBlock(x, leg'[v].run)
    BY DEF AgentIsUnblocked, Blocks, WillBlock
  <2>1. Current(v) BY <1>c
  <2>0. leg[v].run \in Run BY <2>1 DEF Safe, LegShape, Current, Leased
  <2>2. CASE v = w
    <3>1. d \notin Blocking BY <1>v, <2>2 DEF NotBlocked
    <3> QED BY <1>b, <1>i, <1>v, <1>w, <2>1, <2>2, <3>1
  <2>3. CASE v # w
    <3>1. leg'[v] = leg[v] /\ leg[v].run # r BY <1>a, <1>v, <2>1, <2>3
    <3>2. ~Blocks(x, leg[v].run) BY <2>1, <3>1 DEF Safe, AgentIsUnblocked
    <3> QED BY <1>b, <2>0, <3>1, <3>2
  <2> QED BY <2>2, <2>3
<1>9e. PauseKnowsBlocker'
  <2> SUFFICES ASSUME NEW v \in Worker, NEW x \in Decision, Current(v)', Pausing(v)',
                      WillBlock(x, leg'[v].run)
               PROVE  x = leg'[v].ask
    BY DEF PauseKnowsBlocker, Blocks, WillBlock
  <2>1. Current(v) BY <1>c
  <2>0. leg[v].run \in Run BY <2>1 DEF Safe, LegShape, Current, Leased
  <2>2. v # w BY <1>v DEF Pausing
  <2>3. leg'[v] = leg[v] /\ leg[v].run # r BY <1>a, <1>v, <2>1, <2>2
  <2>4. Blocks(x, leg[v].run) BY <1>b, <2>0, <2>3
  <2> QED BY <2>1, <2>3, <2>4 DEF Safe, PauseKnowsBlocker, Pausing
<1>10. ExclusiveToolCalls' BY <1>v DEF Safe, ExclusiveToolCalls
<1>11. OneActiveRunPerSession' BY <1>u DEF Safe, OneActiveRunPerSession
<1> QED BY <1>1, <1>2, <1>3, <1>4, <1>5, <1>6, <1>7, <1>8, <1>9a, <1>9b,
       <1>9c, <1>9d, <1>9e, <1>10, <1>11 DEF Safe

----------------------------------------------------------------------------
(* Every action has one of these effects *)

LEMMA RowKept ==
  ASSUME TypeOK, NEW r \in Run, NEW row, SetRow(r, row), row.status = run[r].status,
         row.epoch = run[r].epoch, row.owner = run[r].owner
  PROVE  SameRuns
<1> run \in [Run -> Row] BY DEF TypeOK
<1> QED BY DEF SetRow, SameRuns, SameLease

LEMMA RowMoved ==
  ASSUME TypeOK, NEW r \in Run, NEW s, NEW row, SetRow(r, row), row.status = s,
         row.epoch = run[r].epoch
  PROVE  MovesTo(r, s)
<1> run \in [Run -> Row] BY DEF TypeOK
<1> QED BY DEF SetRow, MovesTo, SameLease

LEMMA UnleasedFields ==
  ASSUME NEW row \in Row, NEW s \in Status
  PROVE  Unleased(row, s).status = s /\ Unleased(row, s).epoch = row.epoch
BY DEF Unleased, Row

LEMMA BusyRuns == Safe => BusyHasRun
BY DEF Safe, LegShape, BusyHasRun

\* Outside "running" and the final states nobody asks and no tool call is open.
LEMMA RestingRun ==
  ASSUME Safe, NEW r \in Run, run[r].status \in {"none", "queued", "waiting_decision"}
  PROVE  /\ \A c \in open[r] : c[2] # "tool"
         /\ \A v \in Worker : leg[v].run = r => leg[v].pc \notin {"asking", "inserting"}
BY DEF Safe, OpenToolPinsRun, AskerKeepsRun, Current, Terminal

LEMMA CommandSafe ==
  ASSUME TypeOK, TypeOK', Safe, NEW r \in Run,
         Command(r) \/ CancelOneQueuedRun(r) \/ BackoffElapses(r)
  PROVE  Safe'
<1>row. run[r] \in Row BY Rows
<1>1. ASSUME EnqueueChatRun(r) PROVE Safe'
  <2>1. MovesTo(r, "queued")
    <3>1. /\ [run[r] EXCEPT !.status = "queued", !.input = "queued"].status = "queued"
          /\ [run[r] EXCEPT !.status = "queued", !.input = "queued"].epoch = run[r].epoch
      BY <1>row DEF Row
    <3> QED BY <1>1, <3>1, RowMoved DEF EnqueueChatRun
  <2>2. /\ open' = open /\ decision' = decision /\ leg' = leg /\ run[r].status = "none"
    BY <1>1 DEF EnqueueChatRun
  <2>3. ~Locked(r) BY <2>2 DEF Locked, Safe, ClaimsApart
  <2>4. \A d \in Decision : ~Blocks(d, r) BY <2>2 DEF Safe, QueuedIsUnblocked
  <2> QED BY <2>1, <2>2, <2>3, <2>4, RestingRun, MoveStep DEF NothingAsked, LegsDrop, Status
<1>2. ASSUME RequestCancel(r) PROVE Safe'
  <2>1. \A row \in Row : LET c == [row EXCEPT !.cancel = TRUE] IN
          c.status = row.status /\ c.epoch = row.epoch /\ c.owner = row.owner
    BY DEF Row
  <2>2. SameRuns BY <1>row, <1>2, <2>1, RowKept DEF RequestCancel
  <2> QED BY <1>2, <2>2, QuietStep DEF RequestCancel, NothingAsked, LegsDrop
<1>3. ASSUME RequestProviderRetryNow(r) \/ BackoffElapses(r) PROVE Safe'
  <2>1. \A row \in Row : LET c == [row EXCEPT !.parked = FALSE] IN
          c.status = row.status /\ c.epoch = row.epoch /\ c.owner = row.owner
    BY DEF Row
  <2>2. SameRuns BY <1>row, <1>3, <2>1, RowKept DEF RequestProviderRetryNow, BackoffElapses
  <2> QED BY <1>3, <2>2, QuietStep
          DEF RequestProviderRetryNow, BackoffElapses, NothingAsked, LegsDrop
<1>4. ASSUME CancelQueuedInput(r) \/ CancelOneQueuedRun(r) PROVE Safe'
  <2>1. CASE CancelQueuedInput(r)
    <3>1. \A row \in Row :
            LET c == [row EXCEPT !.status = "cancelled", !.cancel = TRUE, !.input = "cancelled"]
            IN  c.status = "cancelled" /\ c.epoch = row.epoch
      BY DEF Row
    <3>2. MovesTo(r, "cancelled") BY <1>row, <2>1, <3>1, RowMoved DEF CancelQueuedInput
    <3> QED BY <2>1, <3>2, MoveStep
            DEF CancelQueuedInput, NothingAsked, LegsDrop, Terminal, Status
  <2>2. CASE CancelOneQueuedRun(r)
    <3>1. \A row \in Row :
            LET c == [row EXCEPT !.status = "cancelled",
                        !.input = IF @ \in {"queued", "claimed"} THEN "cancelled" ELSE @]
            IN  c.status = "cancelled" /\ c.epoch = row.epoch
      BY DEF Row
    <3>2. MovesTo(r, "cancelled")
      BY <1>row, <2>2, <3>1, RowMoved DEF CancelOneQueuedRun, CancelIn
    <3>3. NothingAsked BY <2>2 DEF CancelOneQueuedRun, CancelIn, NothingAsked
    <3> QED BY <2>2, <3>2, <3>3, MoveStep
            DEF CancelOneQueuedRun, CancelIn, LegsDrop, Terminal, Status
  <2> QED BY <1>4, <2>1, <2>2
<1> QED BY <1>1, <1>2, <1>3, <1>4 DEF Command

LEMMA LeaseSafe ==
  ASSUME TypeOK, TypeOK', Safe, NEW r \in Run, LeaseLapses(r) \/ ReconcileOneStaleRun(r)
  PROVE  Safe'
<1>row. run[r] \in Row BY Rows
<1>st. {"queued", "failed", "waiting_decision"} \subseteq Status BY DEF Status, Active, Terminal
<1>1. ASSUME LeaseLapses(r) PROVE Safe'
  <2>1. \A row \in Row : LET c == [row EXCEPT !.lease = "expired"] IN
          c.status = row.status /\ c.epoch = row.epoch /\ c.owner = row.owner
    BY DEF Row
  <2>2. SameRuns BY <1>row, <1>1, <2>1, RowKept DEF LeaseLapses
  <2> QED BY <1>1, <2>2, QuietStep DEF LeaseLapses, NothingAsked, LegsDrop
<1>l. Stale(r) => ~Locked(r) BY DEF Stale, Locked, Safe, ClaimsApart
<1>2. ASSUME ReconcilePause(r) PROVE Safe'
  <2>1. MovesTo(r, "waiting_decision")
    BY <1>row, <1>st, <1>2, UnleasedFields, RowMoved DEF ReconcilePause
  <2>2. PICK d \in Decision : Blocks(d, r)
    BY <1>2 DEF ReconcilePause, BlockersOf, PendingOf, Blocks
  <2>3. run[r].status = "running" BY <1>2 DEF ReconcilePause, Stale
  <2>4. \A c \in open[r] : c[2] # "tool"
    <3> SUFFICES ASSUME NEW c \in open[r], c[2] = "tool" PROVE FALSE OBVIOUS
    <3>1. c = <<c[1], c[2]>> BY DEF TypeOK, OpenCall
    <3>2. c[1] = run[r].epoch BY <2>3 DEF Safe, OpenToolPinsRun, Terminal
    <3> QED BY <2>2, <2>3, <3>1, <3>2 DEF Safe, OpenToolIsUnblocked
  <2>5. \A v \in Worker : leg[v].run = r => leg[v].pc \notin {"asking", "inserting"}
    BY <2>2, <2>3 DEF Safe, AskerKeepsRun, AgentIsUnblocked, NotBlocked, Terminal
  <2> QED BY <1>l, <1>st, <1>2, <2>1, <2>3, <2>4, <2>5, MoveStep
          DEF ReconcilePause, NothingAsked, LegsDrop
<1>3. ASSUME ReconcileFail(r) PROVE Safe'
  <2>1. MovesTo(r, "failed") BY <1>row, <1>st, <1>3, UnleasedFields, RowMoved DEF ReconcileFail
  <2> QED BY <1>l, <1>st, <1>3, <2>1, MoveStep
          DEF ReconcileFail, NothingAsked, LegsDrop, Terminal
<1>4. ASSUME ReconcileRequeue(r) PROVE Safe'
  <2>1. MovesTo(r, "queued")
    <3>1. Unleased(run[r], "queued") \in Row BY <1>row, <1>st, UnleasedRow
    <3>2. \A row \in Row :
            LET c == [row EXCEPT !.input = IF @ = "claimed" THEN "queued" ELSE @]
            IN  c.status = row.status /\ c.epoch = row.epoch
      BY DEF Row
    <3> DEFINE row == [Unleased(run[r], "queued") EXCEPT
                         !.input = IF @ = "claimed" THEN "queued" ELSE @]
    <3>3. Unleased(run[r], "queued").status = "queued"
          /\ Unleased(run[r], "queued").epoch = run[r].epoch
      BY <1>row, <1>st, UnleasedFields
    <3>4. row.status = "queued" /\ row.epoch = run[r].epoch BY <3>1, <3>2, <3>3
    <3>5. SetRow(r, row) BY <1>4 DEF ReconcileRequeue
    <3> HIDE DEF row
    <3> QED BY <3>4, <3>5, RowMoved
  <2>2. open[r] = {} BY <1>4 DEF ReconcileRequeue, HasUnknownEffect
  <2>3. \A v \in Worker : leg[v].run = r => leg[v].pc \notin {"asking", "inserting"}
    BY <2>2 DEF Safe, CallsAreOpen
  <2>4. \A d \in Decision : ~Blocks(d, r)
    BY <1>4 DEF ReconcileRequeue, BlockersOf, PendingOf, Blocks
  <2> QED BY <1>l, <1>st, <1>4, <2>1, <2>2, <2>3, <2>4, MoveStep
          DEF ReconcileRequeue, NothingAsked, LegsDrop
<1> QED BY <1>1, <1>2, <1>3, <1>4 DEF ReconcileOneStaleRun

LEMMA ClaimSafe ==
  ASSUME TypeOK, TypeOK', Safe, NEW w \in Worker, ClaimStep(w) \/ Heartbeat(w)
  PROVE  Safe'
<1>1. ASSUME ClaimConflict(w) PROVE Safe'
  <2>1. Dropped(w) BY <1>1 DEF ClaimConflict, Release, SetLeg, Dropped, OthersKeepLegs, TypeOK
  <2> QED BY <1>1, <2>1, QuietStep
          DEF ClaimConflict, SameRuns, SameLease, NothingAsked, LegsDrop
<1>2. ASSUME Heartbeat(w) PROVE Safe'
  <2>1. leg[w].run \in Run BY <1>2 DEF Heartbeat, Fenced
  <2>2. run[leg[w].run] \in Row BY <2>1, Rows
  <2>3. \A row \in Row : LET c == [row EXCEPT !.lease = "live"] IN
          c.status = row.status /\ c.epoch = row.epoch /\ c.owner = row.owner
    BY DEF Row
  <2>4. SameRuns BY <1>2, <2>1, <2>2, <2>3, RowKept DEF Heartbeat
  <2> QED BY <1>2, <2>4, QuietStep DEF Heartbeat, NothingAsked, LegsDrop
<1> QED BY <1>1, <1>2, ClaimSelectStep, ClaimCommitStep DEF ClaimStep

LEMMA Releases ==
  ASSUME TypeOK, NEW w \in Worker, Release(w)
  PROVE  Dropped(w)
<1> leg \in [Worker -> Leg] BY DEF TypeOK
<1> QED BY DEF Release, SetLeg, Dropped, OthersKeepLegs

\* The leg under the current lease gives its run up for status s.
LEMMA LegLeaves ==
  ASSUME TypeOK, TypeOK', Safe, NEW w \in Worker, leg[w].pc = "closing", Fenced(w),
         open' = open, decision' = decision, Release(w),
         NEW s \in Status, MovesTo(leg[w].run, s), s # "running",
         s \notin Terminal => leg[w].out # "abort",
         s \in {"none", "queued"} => \A d \in Decision : ~Blocks(d, leg[w].run)
  PROVE  Safe'
<1> DEFINE r == leg[w].run
<1>1. Current(w) /\ r \in Run BY FencedIsCurrent DEF Leased
<1>2. run[r].status = "running" /\ run[r].epoch = leg[w].epoch BY <1>1 DEF Current
<1>3. ~Locked(r) BY <1>2 DEF Locked, Safe, ClaimsApart
<1>4. Dropped(w) BY Releases
<1>5. s \notin Terminal => \A c \in open[r] : c[2] # "tool"
  <2> SUFFICES ASSUME s \notin Terminal, NEW c \in open[r], c[2] = "tool" PROVE FALSE OBVIOUS
  <2>1. c = <<c[1], c[2]>> BY <1>1 DEF TypeOK, OpenCall
  <2>2. c[1] = leg[w].epoch BY <1>1, <1>2 DEF Safe, OpenToolPinsRun, Terminal
  <2>3. Leased(w) BY DEF Leased
  <2> QED BY <2>1, <2>2, <2>3 DEF Safe, CallsAreOpen
<1>6. ASSUME NEW v \in Worker, leg[v].run = r, leg[v].pc \in {"asking", "inserting"}
      PROVE  leg'[v] = IdleLeg
  <2>1. Current(v) BY <1>2, <1>6 DEF Safe, AskerKeepsRun, Terminal
  <2>2. v = w BY <1>1, <1>6, <2>1, CurrentIsUnique
  <2> QED BY <2>2, <1>6
<1> QED BY <1>1, <1>2, <1>3, <1>4, <1>5, <1>6, MoveStep DEF LegsDrop, NothingAsked

LEMMA FinalIsTerminal ==
  ASSUME NEW w \in Worker
  PROVE  FinalStatus(w) \in Terminal
BY DEF FinalStatus, Terminal

LEMMA PauseSafe ==
  ASSUME TypeOK, TypeOK', Safe, NEW w \in Worker, PauseRunForDecision(w)
  PROVE  Safe'
<1> DEFINE r == leg[w].run
           s == IF decision[leg[w].ask] = "pending" THEN "waiting_decision" ELSE "queued"
<1>1. /\ Pausing(w) /\ Fenced(w) /\ Release(w) /\ open' = open /\ decision' = decision
      /\ SetRow(r, Unleased(run[r], s))
  BY DEF PauseRunForDecision, Pause
<1>2. r \in Run /\ run[r] \in Row /\ Current(w)
  BY <1>1, Rows, FencedIsCurrent DEF Pausing, Leased
<1>3. s \in Status /\ s # "running" /\ s \notin Terminal BY DEF Status, Active, Terminal
<1>4. MovesTo(r, s) BY <1>1, <1>2, <1>3, UnleasedFields, RowMoved
<1>5. leg[w].out # "abort"
  BY <1>1, StoreAssumption DEF Pausing, Safe, LegShape, StoreAssumption
<1>6. s \in {"none", "queued"} => \A d \in Decision : ~Blocks(d, r)
  BY <1>1, <1>2 DEF Safe, PauseKnowsBlocker, Blocks
<1> HIDE DEF r, s
<1> QED BY <1>1, <1>3, <1>4, <1>5, <1>6, LegLeaves DEF Pausing, r

LEMMA CloseSafe ==
  ASSUME TypeOK, TypeOK', Safe, NEW w \in Worker, CloseStep(w)
  PROVE  Safe'
<1> DEFINE r == leg[w].run
<1>st. "queued" \in Status /\ Terminal \subseteq Status /\ "queued" \notin Terminal
       /\ "running" \notin Terminal
  BY DEF Status, Terminal
<1>f. ASSUME leg[w].pc = "closing", Fenced(w)
      PROVE  r \in Run /\ run[r] \in Row /\ Current(w)
  BY <1>f, Rows, FencedIsCurrent DEF Leased
<1>1. ASSUME DeferRunForProviderRetry(w) PROVE Safe'
  <2>1. /\ leg[w].pc = "closing" /\ leg[w].out = "retry" /\ Fenced(w) /\ Release(w)
        /\ open' = open /\ decision' = decision
        /\ SetRow(r, [Parked(run[r]) EXCEPT !.retries = @ + 1])
    BY <1>1 DEF DeferRunForProviderRetry, Defer, Closing
  <2>2. r \in Run /\ run[r] \in Row /\ Current(w) BY <1>f, <2>1
  <2>3. /\ [Parked(run[r]) EXCEPT !.retries = @ + 1].status = "queued"
        /\ [Parked(run[r]) EXCEPT !.retries = @ + 1].epoch = run[r].epoch
    BY <2>2 DEF Parked, Unleased, Row
  <2>4. MovesTo(r, "queued") BY <2>1, <2>2, <2>3, RowMoved
  <2>5. \A d \in Decision : ~Blocks(d, r)
    BY <2>1, <2>2 DEF Safe, AgentIsUnblocked, NotBlocked
  <2> QED BY <1>st, <2>1, <2>4, <2>5, LegLeaves
<1>2. ASSUME DeferFails(w) \/ FinishFails(w) PROVE Safe'
  <2>1. run' = run /\ open' = open /\ decision' = decision /\ Release(w)
    BY <1>2 DEF DeferFails, FinishFails
  <2>2. Dropped(w) BY <2>1, Releases
  <2> QED BY <2>1, <2>2, QuietStep DEF SameRuns, SameLease, NothingAsked, LegsDrop
<1>3. ASSUME FinishRequeues(w) PROVE Safe'
  <2>1. /\ leg[w].pc = "closing" /\ leg[w].out = "done" /\ leg[w].ask = NoDecision
        /\ Fenced(w) /\ Release(w) /\ open' = open /\ decision' = decision
        /\ SetRow(r, [Unleased(run[r], "queued") EXCEPT !.parked = FALSE])
    BY <1>3 DEF FinishRequeues, Finishing, Closing, MustRedeliver
  <2>2. r \in Run /\ run[r] \in Row /\ Current(w) BY <1>f, <2>1
  <2>3. /\ [Unleased(run[r], "queued") EXCEPT !.parked = FALSE].status = "queued"
        /\ [Unleased(run[r], "queued") EXCEPT !.parked = FALSE].epoch = run[r].epoch
    BY <2>2 DEF Unleased, Row
  <2>4. MovesTo(r, "queued") BY <2>1, <2>2, <2>3, RowMoved
  <2>5. \A d \in Decision : ~Blocks(d, r)
    BY <2>1, <2>2 DEF Safe, AgentIsUnblocked, NotBlocked
  <2> QED BY <1>st, <2>1, <2>4, <2>5, LegLeaves
<1>4. ASSUME FinishRun(w) PROVE Safe'
  <2> DEFINE s == FinalStatus(w)
             row == [Unleased(run[r], s) EXCEPT
                      !.input = IF @ # "claimed" THEN @
                                ELSE IF s = "cancelled" THEN "cancelled" ELSE "applied"]
  <2>1. /\ leg[w].pc = "closing" /\ Fenced(w) /\ Release(w) /\ open' = open
        /\ decision' = decision /\ SetRow(r, row)
    BY <1>4 DEF FinishRun, Finish, Finishing, Closing
  <2>2. r \in Run /\ run[r] \in Row BY <1>f, <2>1
  <2>3. s \in Terminal /\ s \in Status BY <1>st, FinalIsTerminal
  <2> HIDE DEF s
  <2>4. row.status = s /\ row.epoch = run[r].epoch BY <2>2 DEF Unleased, Row
  <2> HIDE DEF row
  <2>5. MovesTo(r, s) BY <2>1, <2>2, <2>4, RowMoved
  <2>6. s # "running" /\ s \notin {"none", "queued"} BY <2>3 DEF Terminal
  <2> QED BY <2>1, <2>3, <2>5, <2>6, LegLeaves
<1>5. ASSUME PauseFails(w) PROVE Safe'
  <2>1. Pausing(w) /\ run' = run /\ open' = open /\ decision' = decision
    BY <1>5 DEF PauseFails
  <2>2. /\ leg'[w].pc = "closing" /\ leg'[w].out = "abort" /\ leg'[w].ask = NoDecision
        /\ leg'[w].run = leg[w].run /\ leg'[w].epoch = leg[w].epoch
        /\ \A v \in Worker \ {w} : leg'[v] = leg[v]
    <3> leg \in [Worker -> Leg] /\ leg[w] \in Leg BY DEF TypeOK
    <3> QED BY <1>5, <2>1 DEF PauseFails, SetLeg, Pausing, Leg
  <2>3. GoesOn(w) BY <2>1, <2>2 DEF GoesOn, OthersKeepLegs, Pausing, Leased
  <2>4. leg'[w].ask \notin Decision /\ ~NotBlocked(leg'[w])
    BY <2>2, StoreAssumption DEF StoreAssumption, NotBlocked
  <2> QED BY <2>1, <2>2, <2>3, <2>4, LegStepOn DEF SameRuns, SameLease
<1> QED BY <1>1, <1>2, <1>3, <1>4, <1>5, PauseSafe DEF CloseStep

LEMMA UserSafe ==
  ASSUME TypeOK, TypeOK', Safe, NEW d \in Decision,
         ResolveDecision(d) \/ DismissDecision(d) \/ RequeueWaitingRun(d)
  PROVE  Safe'
<1> DEFINE r == AskedBy[d]
<1>r. r \in Run /\ run[r] \in Row BY Rows, StoreAssumption DEF StoreAssumption
<1>i. \A row \in Row : LET c == [row EXCEPT !.inbox = @ + 1] IN
        c.status = row.status /\ c.epoch = row.epoch /\ c.owner = row.owner
  BY DEF Row
<1>c. ASSUME NEW s, s # "pending", Close(d, s) PROVE NothingAsked
  <2> decision \in [Decision -> DecisionStatus] BY DEF TypeOK
  <2> QED BY <1>c DEF Close, NothingAsked
<1>1. ASSUME ResolveDecision(d) \/ DismissDecision(d) PROVE Safe'
  <2>1. open' = open /\ leg' = leg BY <1>1 DEF ResolveDecision, DismissDecision
  <2>2. NothingAsked BY <1>1, <1>c DEF ResolveDecision, DismissDecision
  <2>3. run' = run \/ SetRow(r, [run[r] EXCEPT !.inbox = @ + 1])
    BY <1>1 DEF ResolveDecision, DismissDecision
  <2>4. SameRuns BY <1>r, <1>i, <2>3, RowKept DEF SameRuns, SameLease
  <2> QED BY <2>1, <2>2, <2>4, QuietStep DEF LegsDrop
<1>2. ASSUME RequeueWaitingRun(d) PROVE Safe'
  <2>1. open' = open /\ leg' = leg /\ decision' = decision /\ ~Locked(r)
    BY <1>2 DEF RequeueWaitingRun
  <2>2. CASE Resumable(r)
    <3>1. SetRow(r, [run[r] EXCEPT !.status = "queued", !.parked = FALSE])
      BY <1>2, <2>2 DEF RequeueWaitingRun
    <3>2. \A row \in Row : LET c == [row EXCEPT !.status = "queued", !.parked = FALSE] IN
            c.status = "queued" /\ c.epoch = row.epoch
      BY DEF Row
    <3>3. MovesTo(r, "queued") BY <1>r, <3>1, <3>2, RowMoved
    <3>4. \A e \in Decision : ~Blocks(e, r)
      BY <2>2 DEF Resumable, BlockersOf, PendingOf, Blocks
    <3>5. run[r].status = "waiting_decision" BY <2>2 DEF Resumable
    <3>6. "queued" \in Status BY DEF Status
    <3> HIDE DEF r
    <3> QED BY <1>r, <2>1, <3>3, <3>4, <3>5, <3>6, RestingRun, MoveStep DEF NothingAsked, LegsDrop
  <2>3. CASE ~Resumable(r)
    <3>1. run' = run BY <1>2, <2>3 DEF RequeueWaitingRun
    <3> QED BY <2>1, <3>1, QuietStep DEF SameRuns, SameLease, NothingAsked, LegsDrop
  <2> QED BY <2>2, <2>3
<1> QED BY <1>1, <1>2

LEMMA AskSafe ==
  ASSUME TypeOK, TypeOK', Safe, NEW w \in Worker, AskStep(w)
  PROVE  Safe'
<1> leg \in [Worker -> Leg] /\ leg[w] \in Leg BY DEF TypeOK
<1>no. NoDecision \notin Decision BY StoreAssumption DEF StoreAssumption
<1>1. ASSUME AskStart(w) PROVE Safe'
  <2>1. /\ leg[w].pc = "working" /\ Fenced(w) /\ run' = run /\ decision' = decision
        /\ CallStep(w, "ask", TRUE)
    BY <1>1 DEF AskStart, CallStep
  <2>2. /\ leg'[w].pc = "asking" /\ leg'[w].run = leg[w].run /\ leg'[w].epoch = leg[w].epoch
        /\ leg'[w].out = leg[w].out /\ leg'[w].ask = leg[w].ask
        /\ \A v \in Worker \ {w} : leg'[v] = leg[v]
    BY <1>1 DEF AskStart, SetLeg, Leg
  <2>3. GoesOn(w) BY <2>1, <2>2 DEF GoesOn, OthersKeepLegs, Leased
  <2>4. Current(w) BY <2>1, FencedIsCurrent DEF Leased
  <2> QED BY <2>1, <2>2, <2>3, <2>4, CallOpens
<1>2. ASSUME AskRefused(w) \/ \E d \in Decision : AskCheck(w, d) \/ AskDuplicate(w, d)
      PROVE Safe'
  <2>1. /\ leg[w].pc = "asking" /\ run' = run /\ open' = open /\ decision' = decision
    BY <1>2 DEF AskRefused, AskCheck, AskDuplicate
  <2>2. PICK d \in Decision \cup {NoDecision}, pc \in {"inserting", "asked"} :
          /\ leg' = [leg EXCEPT ![w] = [leg[w] EXCEPT !.pc = pc, !.ask = d]]
          /\ pc = "inserting" => d \in Decision /\ AskedBy[d] = leg[w].run
    <3>1. CASE AskRefused(w)
      <4>1. leg' = [leg EXCEPT ![w] = [leg[w] EXCEPT !.pc = "asked", !.ask = leg[w].ask]]
        BY <3>1 DEF AskRefused, SetLeg, Leg
      <4>2. leg[w].ask \in Decision \cup {NoDecision} BY DEF Leg
      <4> QED BY <4>1, <4>2
    <3>2. CASE \E d \in Decision : AskCheck(w, d) BY <3>2 DEF AskCheck, SetLeg
    <3>3. CASE \E d \in Decision : AskDuplicate(w, d) BY <3>3 DEF AskDuplicate, SetLeg
    <3> QED BY <1>2, <3>1, <3>2, <3>3
  <2>3. /\ leg'[w].pc = pc /\ leg'[w].ask = d /\ leg'[w].run = leg[w].run
        /\ leg'[w].epoch = leg[w].epoch /\ leg'[w].out = leg[w].out
        /\ \A v \in Worker \ {w} : leg'[v] = leg[v]
    BY <2>2 DEF Leg
  <2>4. GoesOn(w) BY <2>1, <2>3 DEF GoesOn, OthersKeepLegs, Leased
  <2>5. leg[w].out \notin {"abort", "retry"} /\ NotBlocked(leg[w])
    BY <2>1 DEF Safe, LegShape, NotBlocked
  <2> QED BY <2>1, <2>2, <2>3, <2>4, <2>5, LegStepOn DEF SameRuns, SameLease
<1>3. ASSUME AskFinish(w) PROVE Safe'
  <2>1. /\ leg[w].pc = "asked" /\ Fenced(w) /\ run' = run /\ decision' = decision
        /\ CallStep(w, "ask", FALSE)
    BY <1>3 DEF AskFinish, CallStep
  <2>2. Current(w) /\ leg[w].out \notin {"abort", "retry"}
    BY <2>1, FencedIsCurrent DEF Leased, Safe, LegShape
  <2>3. /\ leg'[w].run = leg[w].run /\ leg'[w].epoch = leg[w].epoch
        /\ leg'[w].out \notin {"abort", "retry"}
        /\ (leg[w].ask \notin Blocking /\ leg'[w].pc = "working") \/ leg'[w].pc = "ended"
        /\ \A v \in Worker \ {w} : leg'[v] = leg[v]
    <3>1. CASE leg[w].ask \in Blocking BY <1>3, <2>2, <3>1 DEF AskFinish, SetLeg, Leg
    <3>2. CASE leg[w].ask \notin Blocking BY <1>3, <2>2, <3>2 DEF AskFinish, SetLeg, Leg
    <3> QED BY <3>1, <3>2
  <2>4. GoesOn(w) BY <2>1, <2>3 DEF GoesOn, OthersKeepLegs, Leased
  <2> QED BY <2>1, <2>2, <2>3, <2>4, CallCloses
<1> QED BY <1>1, <1>2, <1>3, AskInsertStep DEF AskStep

LEMMA ToolSafe ==
  ASSUME TypeOK, TypeOK', Safe, NEW w \in Worker, ToolStep(w)
  PROVE  Safe'
<1> leg \in [Worker -> Leg] /\ leg[w] \in Leg BY DEF TypeOK
<1>s. ASSUME NEW pc, Step(w, pc)
      PROVE  /\ leg'[w].pc = pc /\ leg'[w].run = leg[w].run /\ leg'[w].epoch = leg[w].epoch
             /\ leg'[w].out = leg[w].out /\ leg'[w].ask = leg[w].ask
             /\ \A v \in Worker \ {w} : leg'[v] = leg[v]
  BY <1>s DEF Step, SetLeg, Leg
<1>1. ASSUME ToolStart(w) PROVE Safe'
  <2>1. /\ leg[w].pc = "working" /\ Fenced(w) /\ run' = run /\ decision' = decision
        /\ CallStep(w, "tool", TRUE) /\ Step(w, "tool")
    BY <1>1 DEF ToolStart, OpenTool, CallStep
  <2>2. GoesOn(w) BY <1>s, <2>1 DEF GoesOn, OthersKeepLegs, Leased
  <2>3. Current(w) BY <2>1, FencedIsCurrent DEF Leased
  <2> QED BY <1>s, <2>1, <2>2, <2>3, CallOpens
<1>2. ASSUME ToolGuardPasses(w) PROVE Safe'
  <2>1. /\ leg[w].pc = "tool" /\ run' = run /\ decision' = decision /\ open' = open
        /\ Step(w, "effect")
    BY <1>2 DEF ToolGuardPasses
  <2>2. GoesOn(w) BY <1>s, <2>1 DEF GoesOn, OthersKeepLegs, Leased
  <2>3. leg[w].out \notin {"abort", "retry"} /\ NotBlocked(leg[w])
    BY <2>1 DEF Safe, LegShape, NotBlocked
  <2> QED BY <1>s, <2>1, <2>2, <2>3, LegStepOn DEF SameRuns, SameLease
<1>3. ASSUME ToolFinish(w) PROVE Safe'
  <2>1. /\ leg[w].pc \in {"tool", "effect"} /\ Fenced(w) /\ run' = run /\ decision' = decision
        /\ CallStep(w, "tool", FALSE) /\ Step(w, "working")
    BY <1>3 DEF ToolFinish, CallStep
  <2>2. GoesOn(w) BY <1>s, <2>1 DEF GoesOn, OthersKeepLegs, Leased
  <2>3. Current(w) /\ leg[w].out \notin {"abort", "retry"}
    BY <2>1, FencedIsCurrent DEF Leased, Safe, LegShape
  <2> QED BY <1>s, <2>1, <2>2, <2>3, CallCloses
<1> QED BY <1>1, <1>2, <1>3 DEF ToolStep

\* The steps of a leg outside its tool calls.
LEMMA LegSafe ==
  ASSUME TypeOK, TypeOK', Safe, NEW w \in Worker,
         LegStep(w) \/ (\E out \in Outcomes : LegEnds(w, out)) \/ LegFails(w) \/ Crash(w)
  PROVE  Safe'
<1> leg \in [Worker -> Leg] /\ leg[w] \in Leg BY DEF TypeOK
<1>no. NoDecision \notin Decision BY StoreAssumption DEF StoreAssumption
<1>1. ASSUME StartLeg(w) PROVE Safe'
  <2>1. leg[w].pc = "claimed" /\ run' = run /\ open' = open /\ decision' = decision
    BY <1>1 DEF StartLeg
  <2>2. /\ leg'[w].pc = "prepared" /\ leg'[w].run = leg[w].run /\ leg'[w].epoch = leg[w].epoch
        /\ leg'[w].out = leg[w].out /\ leg'[w].ask = leg[w].ask
        /\ \A v \in Worker \ {w} : leg'[v] = leg[v]
    BY <1>1 DEF StartLeg, SetLeg, Leg
  <2>3. GoesOn(w) BY <2>1, <2>2 DEF GoesOn, OthersKeepLegs, Leased
  <2>4. leg[w].out \notin {"abort", "retry"} /\ leg[w].ask = NoDecision /\ NotBlocked(leg[w])
    BY <2>1 DEF Safe, LegShape, NotBlocked
  <2> QED BY <2>1, <2>2, <2>3, <2>4, LegStepOn DEF SameRuns, SameLease
<1>2. ASSUME MarkInboxDelivered(w) PROVE Safe'
  <2>1. /\ leg[w].pc = "prepared" /\ Fenced(w) /\ open' = open /\ decision' = decision
    BY <1>2 DEF MarkInboxDelivered, Deliver
  <2>2. /\ leg'[w].pc = "delivered" /\ leg'[w].run = leg[w].run /\ leg'[w].epoch = leg[w].epoch
        /\ leg'[w].out = leg[w].out /\ leg'[w].ask = leg[w].ask
        /\ \A v \in Worker \ {w} : leg'[v] = leg[v]
    BY <1>2 DEF MarkInboxDelivered, Deliver, SetLeg, Leg
  <2>3. GoesOn(w) BY <2>1, <2>2 DEF GoesOn, OthersKeepLegs, Leased
  <2>4. leg[w].out \notin {"abort", "retry"} /\ leg[w].ask = NoDecision /\ NotBlocked(leg[w])
    BY <2>1 DEF Safe, LegShape, NotBlocked
  <2>5. SameRuns
    <3>1. leg[w].run \in Run BY <2>1 DEF Fenced
    <3>2. run[leg[w].run] \in Row BY <3>1, Rows
    <3>3. \A row \in Row :
            LET c == [row EXCEPT !.delivered = IF @ < leg[w].seen THEN leg[w].seen ELSE @] IN
            c.status = row.status /\ c.epoch = row.epoch /\ c.owner = row.owner
      BY DEF Row
    <3> QED BY <1>2, <3>1, <3>2, <3>3, RowKept DEF MarkInboxDelivered, Deliver
  <2> QED BY <2>1, <2>2, <2>3, <2>4, <2>5, LegStepOn
<1>3. ASSUME MarkInputApplied(w) PROVE Safe'
  <2>1. leg[w].pc = "delivered" /\ open' = open /\ decision' = decision
    BY <1>3 DEF MarkInputApplied
  <2>2. leg[w].out \notin {"abort", "retry"} /\ leg[w].ask = NoDecision /\ NotBlocked(leg[w])
        /\ leg[w].run \in Run
    BY <2>1 DEF Safe, LegShape, NotBlocked
  <2>3. /\ leg'[w].run = leg[w].run /\ leg'[w].epoch = leg[w].epoch /\ leg'[w].ask = leg[w].ask
        /\ \/ leg'[w].pc = "working" /\ leg'[w].out = leg[w].out
           \/ leg'[w].pc = "closing" /\ leg'[w].out = "abort"
        /\ \A v \in Worker \ {w} : leg'[v] = leg[v]
    <3>1. \/ leg' = [leg EXCEPT ![w] = [leg[w] EXCEPT !.pc = "working"]]
          \/ leg' = [leg EXCEPT ![w] = [leg[w] EXCEPT !.pc = "closing", !.out = "abort"]]
      BY <1>3 DEF MarkInputApplied, Step, SetLeg
    <3>2. CASE leg' = [leg EXCEPT ![w] = [leg[w] EXCEPT !.pc = "working"]] BY <3>2 DEF Leg
    <3>3. CASE leg' = [leg EXCEPT ![w] = [leg[w] EXCEPT !.pc = "closing", !.out = "abort"]]
      BY <3>3 DEF Leg
    <3> QED BY <3>1, <3>2, <3>3
  <2>4. SameRuns
    <3>1. run[leg[w].run] \in Row BY <2>2, Rows
    <3>2. \A row \in Row : LET c == [row EXCEPT !.input = "applied"] IN
            c.status = row.status /\ c.epoch = row.epoch /\ c.owner = row.owner
      BY DEF Row
    <3>3. run' = run \/ SetRow(leg[w].run, [run[leg[w].run] EXCEPT !.input = "applied"])
      BY <1>3 DEF MarkInputApplied
    <3> QED BY <2>2, <3>1, <3>2, <3>3, RowKept DEF SameRuns, SameLease
  <2>5. GoesOn(w) BY <2>1, <2>3 DEF GoesOn, OthersKeepLegs, Leased
  <2> QED BY <1>no, <2>1, <2>2, <2>3, <2>4, <2>5, LegStepOn
<1>4. ASSUME CheckPendingDecision(w) PROVE Safe'
  <2> DEFINE r == leg[w].run
             pending == PendingDecisionForRun(r)
  <2>1. leg[w].pc = "ended" /\ run' = run /\ open' = open /\ decision' = decision
    BY <1>4 DEF CheckPendingDecision
  <2>2. PICK d \in IF pending = {} THEN {NoDecision} ELSE pending :
          leg' = [leg EXCEPT ![w] = [leg[w] EXCEPT !.pc = "closing", !.ask = d]]
    BY <1>4 DEF CheckPendingDecision, SetLeg
  <2>3. /\ leg'[w].pc = "closing" /\ leg'[w].run = leg[w].run /\ leg'[w].epoch = leg[w].epoch
        /\ leg'[w].out = leg[w].out /\ leg'[w].ask = d
        /\ \A v \in Worker \ {w} : leg'[v] = leg[v]
    BY <2>2 DEF Leg
  <2>4. GoesOn(w) BY <2>1, <2>3 DEF GoesOn, OthersKeepLegs, Leased
  <2>5. leg[w].out \notin {"abort", "retry"} /\ r \in Run BY <2>1 DEF Safe, LegShape
  <2>6. \A e \in Decision : Blocks(e, r) <=> e \in BlockersOf(r)
    BY DEF Blocks, BlockersOf, PendingOf
  <2>7. pending = {} => \A e \in Decision : ~Blocks(e, r)
    BY <2>6 DEF PendingDecisionForRun
  <2>8. pending # {} => d \in Decision /\ \A e \in Decision : Blocks(e, r) => e = d
    <3>1. ASSUME pending # {} PROVE d \in PendingOf(r)
      BY <2>2, <3>1 DEF PendingDecisionForRun, BlockersOf
    <3>2. ASSUME pending # {}, NEW e \in Decision, Blocks(e, r) PROVE e = d
      <4>1. e \in BlockersOf(r) BY <2>6, <3>2
      <4>2. d \in BlockersOf(r) BY <2>2, <3>2, <4>1 DEF PendingDecisionForRun
      <4>3. d \in Decision BY <4>2 DEF BlockersOf, PendingOf
      <4> QED BY <2>5, <2>6, <3>2, <4>2, <4>3 DEF Safe, OneBlocker
    <3> QED BY <3>1, <3>2 DEF PendingOf
  <2>9. /\ Current(w) /\ NotBlocked(leg'[w]) => \A e \in Decision : ~Blocks(e, r)
        /\ Current(w) /\ leg'[w].ask \in Decision => \A e \in Decision : Blocks(e, r) => e = d
    <3>1. CASE pending = {} BY <2>7, <3>1
    <3>2. CASE pending # {} BY <1>no, <2>3, <2>5, <2>8, <3>2 DEF NotBlocked
    <3> QED BY <3>1, <3>2
  <2> HIDE DEF pending
  <2> QED BY <2>1, <2>3, <2>4, <2>5, <2>9, LegStepOn DEF SameRuns, SameLease
<1>5. ASSUME NEW out \in Outcomes, LegEnds(w, out) PROVE Safe'
  <2>1. leg[w].pc = "working" /\ run' = run /\ open' = open /\ decision' = decision
    BY <1>5 DEF LegEnds
  <2>2. /\ leg'[w].run = leg[w].run /\ leg'[w].epoch = leg[w].epoch /\ leg'[w].out = out
        /\ leg'[w].ask = leg[w].ask /\ leg'[w].pc \in {"ended", "closing"}
        /\ out = "retry" => leg'[w].pc = "closing"
        /\ \A v \in Worker \ {w} : leg'[v] = leg[v]
    BY <1>5 DEF LegEnds, SetLeg, Leg
  <2>3. GoesOn(w) BY <2>1, <2>2 DEF GoesOn, OthersKeepLegs, Leased
  <2>4. leg[w].out # "abort" /\ out # "abort" /\ NotBlocked(leg[w])
    BY <2>1 DEF Safe, LegShape, NotBlocked, Outcomes
  <2>5. Current(w) => \A d \in Decision : ~Blocks(d, leg[w].run)
    BY <2>4 DEF Safe, AgentIsUnblocked
  <2> QED BY <2>1, <2>2, <2>3, <2>4, <2>5, LegStepOn DEF SameRuns, SameLease
<1>6. ASSUME LegFails(w) PROVE Safe'
  <2>1. leg[w].pc \in Executing \ {"claimed"} /\ run' = run /\ open' = open /\ decision' = decision
    BY <1>6 DEF LegFails
  <2>2. /\ leg'[w].run = leg[w].run /\ leg'[w].epoch = leg[w].epoch /\ leg'[w].out = "abort"
        /\ leg'[w].ask = NoDecision /\ leg'[w].pc = "closing"
        /\ \A v \in Worker \ {w} : leg'[v] = leg[v]
    BY <1>6 DEF LegFails, SetLeg, Leg
  <2>3. GoesOn(w) BY <2>1, <2>2 DEF GoesOn, OthersKeepLegs, Leased, Executing
  <2>4. ~NotBlocked(leg'[w]) BY <2>2 DEF NotBlocked
  <2> QED BY <1>no, <2>1, <2>2, <2>3, <2>4, LegStepOn DEF SameRuns, SameLease
<1>7. ASSUME Abandon(w) \/ Crash(w) PROVE Safe'
  <2>1. run' = run /\ open' = open /\ decision' = decision /\ Release(w)
    BY <1>7 DEF Abandon, Crash
  <2>2. Dropped(w) BY <2>1, Releases
  <2> QED BY <2>1, <2>2, QuietStep DEF SameRuns, SameLease, NothingAsked, LegsDrop
<1> QED BY <1>1, <1>2, <1>3, <1>4, <1>5, <1>6, <1>7 DEF LegStep

LEMMA DutySafe ==
  ASSUME TypeOK, TypeOK', Safe, NEW duty \in duties, AppendEvent(duty) \/ LosePostCommitStep(duty)
  PROVE  Safe'
<1>1. run' = run /\ open' = open /\ decision' = decision /\ leg' = leg
  BY DEF AppendEvent, LosePostCommitStep
<1> QED BY <1>1, QuietStep DEF SameRuns, SameLease, NothingAsked, LegsDrop

LEMMA SafeInit == Init => Safe
<1> SUFFICES ASSUME Init PROVE Safe OBVIOUS
<1>1. \A w \in Worker : leg[w].pc = "idle" /\ leg[w].out = "none" /\ ~Leased(w)
  BY DEF Init, IdleLeg, Leased
<1>2. \A r \in Run : run[r].status = "none" /\ open[r] = {} BY DEF Init, NewRow
<1>3. \A r \in Run : \A d \in Decision : ~Blocks(d, r) BY DEF Init, Blocks
<1> QED BY <1>1, <1>2, <1>3
        DEF Safe, LegShape, ClaimsApart, LegsApart, OwnerIsHolder, OpenIsPast, CallsAreOpen,
            OpenToolPinsRun, AskerKeepsRun, QueuedIsUnblocked, OneBlocker, OpenToolIsUnblocked,
            AgentIsUnblocked, PauseKnowsBlocker, ExclusiveToolCalls, OneActiveRunPerSession,
            Current, Active

LEMMA SafeNext == TypeOK /\ TypeOK' /\ Safe /\ [Next]_vars => Safe'
<1> SUFFICES ASSUME TypeOK, TypeOK', Safe, [Next]_vars PROVE Safe' OBVIOUS
<1>1. CASE UNCHANGED vars
  BY <1>1, QuietStep DEF vars, SameRuns, SameLease, NothingAsked, LegsDrop
<1>2. ASSUME NEW w \in Worker, WorkerStep(w) \/ Heartbeat(w) \/ Crash(w) PROVE Safe'
  BY <1>2, ClaimSafe, CloseSafe, AskSafe, ToolSafe, LegSafe DEF WorkerStep
<1>3. ASSUME NEW r \in Run, LeaseStep(r) \/ CancelOneQueuedRun(r) \/ Command(r) PROVE Safe'
  BY <1>3, LeaseSafe, CommandSafe DEF LeaseStep
<1>4. ASSUME NEW d \in Decision,
             ResolveDecision(d) \/ DismissDecision(d) \/ RequeueWaitingRun(d)
      PROVE Safe'
  BY <1>4, UserSafe
<1>5. ASSUME NEW duty \in duties, AppendEvent(duty) \/ LosePostCommitStep(duty) PROVE Safe'
  BY <1>5, DutySafe
<1> QED BY <1>1, <1>2, <1>3, <1>4, <1>5 DEF Next

----------------------------------------------------------------------------
(* Theorems *)

\* The inductive invariant holds of every reachable state, for any number of
\* runs, workers and decisions and any bound on faults and retries.
THEOREM Invariance == Spec => []Inv
<1>1. Init => TypeOK /\ BusyHasRun /\ Safe BY TypesInit, SafeInit
<1>2. TypeOK /\ BusyHasRun /\ Safe /\ [Next]_vars => (TypeOK /\ BusyHasRun /\ Safe)'
  BY TypesNext, SafeNext
<1>3. TypeOK /\ Safe => Inv BY DEF Safe, Inv
<1> QED BY <1>1, <1>2, <1>3, PTL DEF Spec

\* lease.rs claim_next_run: no session ever has two runs that are running or
\* waiting for a decision, whatever claims race and whatever leases are lost.
THEOREM OneActiveRun == Spec => []OneActiveRunPerSession
<1>1. Inv => OneActiveRunPerSession BY DEF Inv
<1> QED BY <1>1, Invariance, PTL

\* worker.rs tool events and lease.rs reconcile_one_stale_run: a run has at most
\* one tool call in flight, also when its lease was lost during the effect.
THEOREM ToolCallsAreExclusive == Spec => []ExclusiveToolCalls
<1>1. Inv => ExclusiveToolCalls BY DEF Inv
<1> QED BY <1>1, Invariance, PTL

\* lease.rs reconcile_one_stale_run: a run whose tool call has an unknown outcome
\* is never queued, parked or run again.
THEOREM NoReplay == Spec => []UnknownEffectNeverReplayed
<1>1. Inv => UnknownEffectNeverReplayed
  BY DEF Inv, OpenToolPinsRun, UnknownEffectNeverReplayed
<1> QED BY <1>1, Invariance, PTL
============================================================================
