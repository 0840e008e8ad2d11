------------------------------ MODULE AgentRuns ------------------------------
(***************************************************************************)
(* The agent-run subsystem as a whole: workers that claim runs and execute *)
(* them (agent_runs/worker.rs, agent/loop_engine.rs), the users' commands, *)
(* the decisions, crashes, lease loss and the steps after a COMMIT.        *)
(***************************************************************************)
EXTENDS AgentRunCommands, AgentRunLease, Decisions

----------------------------------------------------------------------------
(* One leg of a run: claim -> prepare -> deliver answers -> work -> outcome *)

Executing == {"claimed", "prepared", "delivered", "working", "tool", "effect",
              "asking", "inserting", "asked", "ended"}

Step(w, pc) == SetLeg(w, [leg[w] EXCEPT !.pc = pc])

\* run_started is appended under the lease, the turn is prepared and the inbox
\* read together with its revision.
StartLeg(w) ==
  /\ leg[w].pc = "claimed" /\ Fenced(w)
  /\ SetLeg(w, [leg[w] EXCEPT !.pc = "prepared", !.seen = run[leg[w].run].inbox])
  /\ UNCHANGED <<run, events, open, decision, duties, faults>>

\* mark_input_applied checks no lease; the status trigger refuses an input
\* that went back to the queue or was cancelled, and the leg then fails.
MarkInputApplied(w) == LET r == leg[w].run IN
  /\ leg[w].pc = "delivered"
  /\ IF run[r].input \in {"claimed", "applied"}
     THEN SetRow(r, [run[r] EXCEPT !.input = "applied"]) /\ Step(w, "working")
     ELSE /\ SetLeg(w, [leg[w] EXCEPT !.pc = "closing", !.out = "abort"])
          /\ UNCHANGED run
  /\ UNCHANGED <<events, open, decision, duties, faults>>

\* tool_call_start is persisted before the agent loop is polled again.
OpenTool(w) == LET l == leg[w] IN
  /\ l.pc = "working"
  /\ open' = [open EXCEPT ![l.run] = @ \cup {<<l.epoch, "tool">>}]
  /\ Step(w, "tool")
  /\ UNCHANGED <<run, events, decision, duties, faults>>

\* Mutant: the start event is appended without comparing the lease.
ToolStartUnfenced(w) == OpenTool(w)

ToolStart(w) == Fenced(w) /\ OpenTool(w)

\* The guard revalidates the origin once; the effect itself is not fenced.
ToolGuardPasses(w) == LET l == leg[w] IN
  /\ l.pc = "tool"
  /\ run[l.run].status = "running" /\ run[l.run].epoch = l.epoch
  /\ ~run[l.run].cancel
  /\ Step(w, "effect")
  /\ UNCHANGED <<run, events, open, decision, duties, faults>>

\* The result, or the guard's refusal, is persisted as tool_call_finish.
ToolFinish(w) == LET l == leg[w] IN
  /\ l.pc \in {"tool", "effect"} /\ Fenced(w)
  /\ open' = [open EXCEPT ![l.run] = @ \ {<<l.epoch, "tool">>}]
  /\ Step(w, "working")
  /\ UNCHANGED <<run, events, decision, duties, faults>>

\* The agent loop ends: with an answer, with an error it reported, parked by
\* the provider, or stopped because the durable cancellation was seen.
LegEnds(w, out) ==
  /\ leg[w].pc = "working"
  /\ out = "cancelled" => run[leg[w].run].cancel
  /\ out = "retry" => run[leg[w].run].retries < MaxRetries
  /\ SetLeg(w, [leg[w] EXCEPT
       !.pc = IF out \in {"done", "error"} THEN "ended" ELSE "closing",
       !.out = out])
  /\ UNCHANGED <<run, events, open, decision, duties, faults>>

\* The message projection is queued under the lease, then any pending decision
\* turns the outcome into a pause.
CheckPendingDecision(w) == LET pending == PendingDecisionForRun(leg[w].run) IN
  /\ leg[w].pc = "ended" /\ Fenced(w)
  /\ \E d \in IF pending = {} THEN {NoDecision} ELSE pending :
       SetLeg(w, [leg[w] EXCEPT !.pc = "closing", !.ask = d])
  /\ UNCHANGED <<run, events, open, decision, duties, faults>>

\* A write of the leg is refused because its lease is gone; the failure path
\* is refused for the same reason and the worker drops the run.
Abandon(w) ==
  /\ leg[w].pc \in Executing /\ ~Fenced(w)
  /\ Release(w)
  /\ UNCHANGED <<run, events, open, decision, duties, faults>>

\* Any other error of the leg (provider set-up, database, serialization).
LegFails(w) ==
  /\ leg[w].pc \in Executing \ {"claimed"}
  /\ SetLeg(w, [leg[w] EXCEPT !.pc = "closing", !.out = "abort", !.ask = NoDecision])
  /\ UNCHANGED <<run, events, open, decision, duties, faults>>

\* The API process dies; an open claim transaction rolls back.
Crash(w) ==
  /\ leg[w].pc # "idle" /\ faults < MaxFaults
  /\ faults' = faults + 1
  /\ Release(w)
  /\ UNCHANGED <<run, events, open, decision, duties>>

----------------------------------------------------------------------------
(* After a COMMIT *)

\* append_user_event returns the stored event when the key exists.
AppendEvent(duty) ==
  /\ duty \in duties /\ duty.step \in Key /\ ~Locked(duty.run)
  /\ duties' = duties \ {duty}
  /\ events' = [events EXCEPT ![duty.run] = @ \cup {duty.step}]
  /\ UNCHANGED <<run, open, decision, leg, faults>>

\* The process dies, or an earlier await of the same function fails.
LosePostCommitStep(duty) ==
  /\ duty \in duties /\ faults < MaxFaults
  /\ faults' = faults + 1
  /\ duties' = duties \ {duty}
  /\ UNCHANGED <<run, events, open, decision, leg>>

----------------------------------------------------------------------------

Outcomes == {"done", "error", "cancelled", "retry"}

ClaimStep(w)  == (\E r \in Run : ClaimSelect(w, r)) \/ ClaimCommit(w) \/ ClaimConflict(w)
AskStep(w)    == \/ AskStart(w) \/ AskRefused(w) \/ AskInsert(w) \/ AskFinish(w)
                 \/ \E d \in Decision : AskCheck(w, d) \/ AskDuplicate(w, d)
ToolStep(w)   == ToolStart(w) \/ ToolGuardPasses(w) \/ ToolFinish(w)
CloseStep(w)  == \/ DeferRunForProviderRetry(w) \/ DeferFails(w)
                 \/ FinishRequeues(w) \/ FinishRun(w) \/ FinishFails(w)
                 \/ PauseRunForDecision(w) \/ PauseFails(w)
LegStep(w)    == \/ StartLeg(w) \/ MarkInboxDelivered(w) \/ MarkInputApplied(w)
                 \/ CheckPendingDecision(w) \/ Abandon(w)
WorkerStep(w) == \/ ClaimStep(w) \/ LegStep(w) \/ AskStep(w) \/ ToolStep(w)
                 \/ CloseStep(w) \/ (\E out \in Outcomes : LegEnds(w, out))
                 \/ LegFails(w)
LeaseStep(r)  == ReconcileOneStaleRun(r) \/ LeaseLapses(r) \/ BackoffElapses(r)
Command(r)    == \/ EnqueueChatRun(r) \/ RequestCancel(r)
                 \/ RequestProviderRetryNow(r) \/ CancelQueuedInput(r)

Next ==
  \/ \E w \in Worker : WorkerStep(w) \/ Heartbeat(w) \/ Crash(w)
  \/ \E r \in Run : LeaseStep(r) \/ CancelOneQueuedRun(r) \/ Command(r)
  \/ \E d \in Decision :
       ResolveDecision(d) \/ DismissDecision(d) \/ RequeueWaitingRun(d)
  \/ \E duty \in duties : AppendEvent(duty) \/ LosePostCommitStep(duty)

Spec == Init /\ [][Next]_vars

\* Workers keep stepping; a leg is bounded by its tool-call and time budget, so
\* LegEnds is not postponed for ever; housekeeping precedes the claim in every
\* worker iteration; time passes.  Users and faults are not fair.
Fairness ==
  /\ \A w \in Worker :
       /\ WF_vars(WorkerStep(w))
       /\ SF_vars(\E out \in Outcomes : LegEnds(w, out))
  /\ \A r \in Run :
       /\ SF_vars(ReconcileOneStaleRun(r)) /\ SF_vars(CancelOneQueuedRun(r))
       /\ WF_vars(~Held(r) /\ LeaseLapses(r)) /\ WF_vars(BackoffElapses(r))
  /\ \A d \in Decision : WF_vars(RequeueWaitingRun(d))
  /\ WF_vars(\E duty \in duties : AppendEvent(duty))

FairSpec == Spec /\ Fairness

----------------------------------------------------------------------------
(* Safety *)

\* A session never has two runs that are running or waiting for a decision,
\* although the claim's own check and its update see different snapshots
\* (lease.rs claim_next_run, index one_active_primary_run_per_session).
OneActiveRunPerSession ==
  \A r, q \in Run :
    /\ SessionOf[r] = SessionOf[q]
    /\ run[r].status \in Active /\ run[q].status \in Active
    => r = q

\* Two workers never have a tool call of the same run in flight, even when the
\* first one lost its lease during the effect and does not know it yet
\* (lease.rs reconcile_one_stale_run, worker.rs tool events).
ExclusiveToolCalls ==
  \A w, v \in Worker :
    /\ leg[w].pc \in {"tool", "effect"} /\ leg[v].pc \in {"tool", "effect"}
    /\ leg[w].run = leg[v].run
    => w = v

\* A run is never queued, waiting or running again while a tool call of an
\* earlier lease has an unknown outcome: such a run can only be failed or
\* cancelled.  Only the decision tool's own call may be left open.
UnknownEffectNeverReplayed ==
  \A r \in Run : \A e \in 1 .. run[r].epoch :
    <<e, "tool">> \in open[r] =>
      \/ run[r].status \in Terminal
      \/ run[r].status = "running" /\ run[r].epoch = e

\* A completed run has delivered every answer of its decisions to the agent
\* and had no cancellation pending (lease.rs finish_run).
CompletedMeansDelivered ==
  \A r \in Run : run[r].status = "completed" =>
    run[r].delivered = run[r].inbox /\ ~run[r].cancel

\* The input's status and the run's status, kept by different statements of
\* different functions, never contradict each other.  A failed recovery leaves
\* its input claimed, so "failed" allows it.
InputFollowsRun ==
  \A r \in Run : LET s == run[r].status  i == run[r].input IN
    /\ i = "queued" => s = "queued"
    /\ i = "cancelled" => s = "cancelled"
    /\ s \in Active => i \in {"claimed", "applied"}
    /\ s = "completed" => i = "applied"

\* A worker whose lease moved on changes nothing durable but the status of the
\* input row and a decision it was already inserting: every other write is
\* fenced by owner and epoch.
StaleWorkerIsHarmless ==
  [][\A w \in Worker :
       (/\ leg[w].pc \notin {"idle", "selected", "inserting"}
        /\ ~Fenced(w) /\ leg'[w] # leg[w])
       => /\ \A r \in Run : run'[r] = [run[r] EXCEPT !.input = run'[r].input]
          /\ UNCHANGED <<events, open, decision>>]_vars

\* A waiting run always has something that will wake it: a pending decision, a
\* requeue that is still to be executed, or a requested cancellation.
Stranded(r) ==
  /\ run[r].status = "waiting_decision"
  /\ ~run[r].cancel /\ PendingOf(r) = {}
  /\ \A d \in Decision : [run |-> r, step |-> Requeue(d)] \notin duties

\* No interleaving of asking, pausing, answering, superseding and recovery
\* leaves a run waiting for nothing: only the loss of its requeue after the
\* COMMIT of an answer can do that.
OnlyALostRequeueStrands ==
  [][\A r \in Run : Stranded(r)' =>
       \/ Stranded(r)
       \/ faults' > faults /\ UNCHANGED <<run, decision>>]_vars

----------------------------------------------------------------------------
(* Refinement *)

RunStatus == [r \in Run |-> run[r].status]
RunEpoch  == [r \in Run |-> run[r].epoch]

Lifecycle == INSTANCE RunLifecycle WITH status <- RunStatus, epoch <- RunEpoch

\* No step of the code asks for a status change the database would refuse, and
\* epochs grow exactly with claims.
ImplementsLifecycle == Lifecycle!Spec

----------------------------------------------------------------------------
(* Statements of the repository that the code does not keep *)

\* decisions.rs, module comment: resolving "moves a suspended run back to the
\* durable queue", independent of any open connection.
AnsweredRunResumes ==
  \A r \in Run :
    (/\ run[r].status = "waiting_decision" /\ ~run[r].cancel
     /\ \E d \in Decision : AskedBy[d] = r
     /\ \A d \in Decision : AskedBy[d] = r => decision[d] = "resolved")
    ~> run[r].status # "waiting_decision" \/ run[r].cancel

\* worker.rs, the notice of a waiting run: answering the decision resumes the
\* work.  A worker that may pause for a pending decision is never refused.
PauseNeverCollides ==
  \A w \in Worker :
    Pausing(w) /\ Fenced(w) /\ ~run[leg[w].run].cancel
    => PauseKey(w) \notin events[leg[w].run]
============================================================================
