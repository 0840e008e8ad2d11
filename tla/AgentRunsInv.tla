---------------------------- MODULE AgentRunsInv ----------------------------
(***************************************************************************)
(* The inductive invariant behind the safety of AgentRuns.  The argument:  *)
(* epochs tell legs apart, a tool call in flight is an open call, an open  *)
(* tool call keeps its run out of the queue, and no blocking question is   *)
(* pending while the agent works, so recovery never parks a run whose tool *)
(* call has an unknown outcome.                                            *)
(***************************************************************************)
EXTENDS AgentRuns

\* Worker w holds a lease of its run, current or lost.
Leased(w) == leg[w].pc \notin {"idle", "selected"}

\* Its lease is the latest one and the run has not moved on.
Current(w) == /\ Leased(w)
              /\ run[leg[w].run].status = "running"
              /\ run[leg[w].run].epoch = leg[w].epoch

LegShape == \A w \in Worker : LET l == leg[w] IN
  /\ l.pc # "idle" => l.run \in Run
  /\ Leased(w) => l.epoch <= run[l.run].epoch
  /\ l.pc = "inserting" => l.ask \in Decision /\ AskedBy[l.ask] = l.run
  /\ l.out = "abort" => l.pc = "closing" /\ l.ask = NoDecision
  /\ l.out = "retry" => l.pc = "closing"
  /\ l.pc \in {"selected", "claimed", "prepared", "delivered"} => l.ask = NoDecision

\* A claim in progress owns the row lock of a queued run.
ClaimsApart == \A w \in Worker : leg[w].pc = "selected" =>
  /\ run[leg[w].run].status = "queued"
  /\ \A v \in Worker : leg[v].pc = "selected" /\ leg[v].run = leg[w].run => v = w

\* No two legs of one run have the same epoch.
LegsApart == \A w, v \in Worker :
  Leased(w) /\ Leased(v) /\ leg[w].run = leg[v].run /\ leg[w].epoch = leg[v].epoch => w = v

OwnerIsHolder == \A w \in Worker : Current(w) => run[leg[w].run].owner = w

OpenIsPast == \A r \in Run : \A c \in open[r] : c[1] <= run[r].epoch

\* Calls in flight are open; outside a tool call none of the leg's own is.
CallsAreOpen == \A w \in Worker : LET l == leg[w] IN
  /\ l.pc \in {"tool", "effect"} => <<l.epoch, "tool">> \in open[l.run]
  /\ l.pc \in {"asking", "inserting"} => <<l.epoch, "ask">> \in open[l.run]
  /\ Leased(w) /\ l.pc \notin {"tool", "effect"} /\ l.out # "abort"
       => <<l.epoch, "tool">> \notin open[l.run]

\* UnknownEffectNeverReplayed for every epoch of an open tool call.
OpenToolPinsRun == \A r \in Run : \A c \in open[r] : c[2] = "tool" =>
  run[r].status \in Terminal \/ (run[r].status = "running" /\ run[r].epoch = c[1])

\* Nor can a run leave a leg that is about to insert a question.
AskerKeepsRun == \A w \in Worker : leg[w].pc \in {"asking", "inserting"} =>
  run[leg[w].run].status \in Terminal \/ Current(w)

\* Where a leg may have blocking questions pending: only after it asked one.
NotBlocked(l) ==
  \/ l.pc \in {"claimed", "prepared", "delivered", "working", "tool", "effect",
               "asking", "inserting"}
  \/ l.pc = "asked" /\ l.ask \notin Blocking
  \/ l.pc = "closing" /\ (l.out = "retry" \/ (l.out = "done" /\ l.ask = NoDecision))

\* A blocking question is pending for run r.
Blocks(d, r) == d \in Blocking /\ decision[d] = "pending" /\ AskedBy[d] = r

QueuedIsUnblocked == \A r \in Run : \A d \in Decision :
  Blocks(d, r) => run[r].status \notin {"none", "queued"}

OneBlocker == \A r \in Run : \A d, e \in Decision : Blocks(d, r) /\ Blocks(e, r) => d = e

OpenToolIsUnblocked == \A r \in Run : \A d \in Decision :
  Blocks(d, r) /\ run[r].status = "running" => <<run[r].epoch, "tool">> \notin open[r]

AgentIsUnblocked == \A w \in Worker : \A d \in Decision :
  Current(w) /\ NotBlocked(leg[w]) => ~Blocks(d, leg[w].run)

PauseKnowsBlocker == \A w \in Worker : \A d \in Decision :
  Current(w) /\ Pausing(w) /\ Blocks(d, leg[w].run) => d = leg[w].ask

Inv ==
  /\ TypeOK /\ LegShape /\ ClaimsApart /\ LegsApart /\ OwnerIsHolder /\ OpenIsPast
  /\ CallsAreOpen /\ OpenToolPinsRun /\ AskerKeepsRun
  /\ QueuedIsUnblocked /\ OneBlocker /\ OpenToolIsUnblocked /\ AgentIsUnblocked
  /\ PauseKnowsBlocker /\ ExclusiveToolCalls /\ OneActiveRunPerSession
=============================================================================
