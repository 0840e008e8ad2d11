------------------------------ MODULE Decisions ------------------------------
(***************************************************************************)
(* Durable decisions (services/decisions.rs): the agent asks, the user     *)
(* answers or dismisses, the answer reaches the run through its inbox      *)
(* revision, and a waiting run goes back to the queue.  Expiry is absent:  *)
(* no writer of the repository sets decisions.expires_at.                  *)
(***************************************************************************)
EXTENDS AgentRunStore

----------------------------------------------------------------------------
(* The agent's side: the decision tool *)

\* The tool_call_start event of the decision tool is persisted.
AskStart(w) == LET l == leg[w] IN
  /\ l.pc = "working" /\ Fenced(w)
  /\ open' = [open EXCEPT ![l.run] = @ \cup {<<l.epoch, "ask">>}]
  /\ SetLeg(w, [l EXCEPT !.pc = "asking"])
  /\ UNCHANGED <<run, events, decision, duties, faults>>

\* create_choice reads that the run is owned, without locking the row.
RunValid(w) == LET l == leg[w] IN
  run[l.run].status = "running" /\ run[l.run].epoch = l.epoch /\ ~run[l.run].cancel

AskCheck(w, d) ==
  /\ leg[w].pc = "asking" /\ AskedBy[d] = leg[w].run
  /\ RunValid(w) /\ decision[d] = "none"
  /\ SetLeg(w, [leg[w] EXCEPT !.pc = "inserting", !.ask = d])
  /\ UNCHANGED <<run, events, open, decision, duties, faults>>

\* The same question is pending: the existing decision is returned.
AskDuplicate(w, d) ==
  /\ leg[w].pc = "asking" /\ RunValid(w) /\ d \in PendingOf(leg[w].run)
  /\ SetLeg(w, [leg[w] EXCEPT !.pc = "asked", !.ask = d])
  /\ UNCHANGED <<run, events, open, decision, duties, faults>>

\* Validation or the ownership read refuses; the tool reports an error.
AskRefused(w) ==
  /\ leg[w].pc = "asking"
  /\ SetLeg(w, [leg[w] EXCEPT !.pc = "asked"])
  /\ UNCHANGED <<run, events, open, decision, duties, faults>>

\* INSERT; a blocking question supersedes the blocking ones still pending.
AskInsert(w) == LET d == leg[w].ask IN
  /\ leg[w].pc = "inserting"
  /\ decision' = [x \in Decision |->
       IF x = d THEN "pending"
       ELSE IF d \in Blocking /\ x \in BlockersOf(AskedBy[d]) THEN "superseded"
       ELSE decision[x]]
  /\ SetLeg(w, [leg[w] EXCEPT !.pc = "asked"])
  /\ UNCHANGED <<run, events, open, duties, faults>>

\* tool_call_finish; a blocking decision ends the leg at once (RunPaused).
AskFinish(w) == LET l == leg[w] IN
  /\ l.pc = "asked" /\ Fenced(w)
  /\ open' = [open EXCEPT ![l.run] = @ \ {<<l.epoch, "ask">>}]
  /\ SetLeg(w, IF l.ask \in Blocking
               THEN [l EXCEPT !.pc = "ended", !.out = "done", !.ask = NoDecision]
               ELSE [l EXCEPT !.pc = "working", !.ask = NoDecision])
  /\ UNCHANGED <<run, events, decision, duties, faults>>

----------------------------------------------------------------------------
(* The user's side *)

\* One transaction locks the decision, then its run.  Requeueing the waiting
\* run is a separate statement after the COMMIT.
Close(d, s) == decision' = [decision EXCEPT ![d] = s]

ResolveDecision(d) == LET r == AskedBy[d] IN
  /\ decision[d] = "pending" /\ ~Locked(r)
  /\ IF run[r].cancel \/ run[r].status \in Terminal
     THEN Close(d, "cancelled") /\ UNCHANGED <<run, duties>>
     ELSE /\ Close(d, "resolved")
          /\ SetRow(r, [run[r] EXCEPT !.inbox = @ + 1])
          /\ AddDuty(r, Requeue(d))
  /\ UNCHANGED <<events, open, leg, faults>>

DismissDecision(d) == LET r == AskedBy[d] IN
  /\ decision[d] = "pending" /\ ~Locked(r)
  /\ \/ /\ run[r].status \in Terminal
        /\ Close(d, "cancelled") /\ UNCHANGED <<run, duties>>
     \/ /\ run[r].status \notin Terminal /\ run[r].cancel
        /\ Close(d, "cancelled") /\ UNCHANGED run
        /\ AddDuty(r, Requeue(d))
     \/ /\ run[r].status \notin Terminal /\ ~run[r].cancel
        /\ Close(d, "dismissed")
        /\ SetRow(r, [run[r] EXCEPT !.inbox = @ + 1])
        /\ AddDuty(r, Requeue(d))
  /\ UNCHANGED <<events, open, leg, faults>>

\* WHERE status = 'waiting_decision' AND not cancelled AND no blocker pending.
\* Mutant: the run's current status is not compared.
ResumableAnyway(r) == ~run[r].cancel /\ BlockersOf(r) = {}

Resumable(r) ==
  run[r].status = "waiting_decision" /\ ~run[r].cancel /\ BlockersOf(r) = {}

RequeueWaitingRun(d) == LET r == AskedBy[d]
                            duty == [run |-> r, step |-> Requeue(d)] IN
  /\ duty \in duties /\ ~Locked(r)
  /\ duties' = duties \ {duty}
  /\ IF Resumable(r)
     THEN SetRow(r, [run[r] EXCEPT !.status = "queued", !.parked = FALSE])
     ELSE UNCHANGED run
  /\ UNCHANGED <<events, open, decision, leg, faults>>

----------------------------------------------------------------------------
(* Delivery of the answers to the agent *)

\* mark_inbox_delivered, after the fenced run snapshot: records the revision
\* that was current when the answers of this leg were read.
Deliver(w, revision) == LET l == leg[w] IN
  /\ l.pc = "prepared" /\ Fenced(w)
  /\ run[l.run].inbox >= l.seen
  /\ SetRow(l.run, [run[l.run] EXCEPT
       !.delivered = IF @ < revision THEN revision ELSE @])
  /\ SetLeg(w, [l EXCEPT !.pc = "delivered"])
  /\ UNCHANGED <<events, open, decision, duties, faults>>

MarkInboxDelivered(w) == Deliver(w, leg[w].seen)

\* pending_decision_for_run, read after the leg: blocking decisions first.
PendingDecisionForRun(r) ==
  IF BlockersOf(r) # {} THEN BlockersOf(r) ELSE PendingOf(r)
============================================================================
