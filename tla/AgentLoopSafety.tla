-------------------------- MODULE AgentLoopSafety --------------------------
(***************************************************************************)
(* The budget of a leg is kept, for every limit, every cost of a turn and  *)
(* every batch of calls a turn may ask for; and what a leg adds to the     *)
(* session is a conversation in which the turns that called tools have     *)
(* their results, in the order of the calls.                               *)
(***************************************************************************)
EXTENDS AgentLoop, FiniteSetTheorems, TLAPS

TurnFields  == {"retries", "finish", "calls", "next", "ready"}
SpentFields == {"empty", "reminded", "tools", "tokens"}

\* What the budget depends on has its type.
Typed ==
  /\ DOMAIN spent = SpentFields
  /\ spent.tools \in Nat /\ spent.tokens \in Nat
  /\ DOMAIN turn = TurnFields
  /\ Len(turn.calls) \in Nat

\* A turn is only requested below the limit.
RequestedBelow == phase = "requesting" => spent.tokens < TokenLimit

Inv == Typed /\ RequestedBelow /\ BudgetIsKept

----------------------------------------------------------------------------
USE DEF TurnFields, SpentFields

\* What ends the loop or waits changes nothing the budget depends on.
LEMMA HaltIsQuiet ==
  ASSUME Inv, phase' = phase \/ phase' # "requesting", UNCHANGED <<spent, turn>>
  PROVE  Inv'
  BY DEF Inv, Typed, RequestedBelow, BudgetIsKept

\* What a delegation may cost: nothing beyond what is left and the reserve but
\* the last turn of each child.
LEMMA DelegationCost ==
  ASSUME AgentLoopAssumption, spent.tokens \in Nat, NEW n \in 1 .. MaxTasks,
         NEW cost \in 0 .. Pool + Least(n, Pool) * (TurnCost - 1)
  PROVE  cost = 0 \/ spent.tokens + cost + Reserve <= TokenLimit + MaxTasks * (TurnCost - 1)
<1>1. /\ TokenLimit \in Nat /\ Reserve \in Nat /\ MaxTasks \in Nat /\ TurnCost \in Nat \ {0}
      /\ n \in Nat /\ n <= MaxTasks
  BY DEF AgentLoopAssumption
<1>2. /\ Pool \in Nat
      /\ Pool # 0 => spent.tokens + Pool + Reserve <= TokenLimit
  BY <1>1 DEF Pool
<1>3. Least(n, Pool) \in Nat /\ Least(n, Pool) <= MaxTasks /\ (Pool = 0 => Least(n, Pool) = 0)
  BY <1>1, <1>2 DEF Least
<1> DEFINE last == TurnCost - 1
           children == Least(n, Pool)
<1>4. last \in Nat  BY <1>1
<1> HIDE DEF last, children
<1>5. children * last \in Nat /\ MaxTasks * last \in Nat /\ children * last <= MaxTasks * last
  <2>1. PICK d \in Nat : MaxTasks = children + d
    <3>1. MaxTasks - children \in Nat /\ MaxTasks = children + (MaxTasks - children)
      BY <1>1, <1>3 DEF children
    <3>2. QED  BY <3>1
  <2>2. children \in Nat  BY <1>3 DEF children
  <2>3. MaxTasks * last = children * last + d * last  BY <1>4, <2>1, <2>2
  <2>4. children * last \in Nat /\ d * last \in Nat  BY <1>4, <2>1, <2>2
  <2>5. QED  BY <2>3, <2>4
<1>6. Pool = 0 => children * last = 0  BY <1>3, <1>4 DEF children
<1>7. cost \in 0 .. Pool + children * last  BY DEF last, children
<1>8. cost = 0 \/ spent.tokens + cost + Reserve <= TokenLimit + MaxTasks * last
  BY <1>1, <1>2, <1>5, <1>6, <1>7
<1>9. QED  BY <1>8 DEF last

LEMMA DelegateStep ==
  ASSUME AgentLoopAssumption, Inv, NEW n \in 1 .. MaxTasks, Delegate(n)
  PROVE  Inv'
<1>1. PICK cost \in 0 .. Pool + Least(n, Pool) * (TurnCost - 1) :
        spent' = [spent EXCEPT !.tokens = @ + cost]
  BY DEF Delegate
<1>2. /\ phase' = "calling" /\ turn' = [turn EXCEPT !.next = @ + 1]
  BY DEF Delegate, Returns
<1>3. cost = 0 \/ spent.tokens + cost + Reserve <= TokenLimit + MaxTasks * (TurnCost - 1)
  BY DelegationCost DEF Inv, Typed
<1>4. cost \in Nat
  BY <1>1, <1>3 DEF AgentLoopAssumption, Pool, Least, Inv, Typed
<1>5. Typed'  BY <1>1, <1>2, <1>4 DEF Inv, Typed
<1>6. spent'.tools = spent.tools /\ spent'.tokens = spent.tokens + cost
  BY <1>1 DEF Inv, Typed
<1>7. BudgetIsKept'
  <2>1. CASE cost = 0
    <3>1. spent'.tokens = spent.tokens  BY <1>6, <2>1 DEF Inv, Typed
    <3>2. QED  BY <1>6, <3>1 DEF Inv, BudgetIsKept
  <2>2. CASE cost # 0  BY <1>3, <1>6, <2>2 DEF Inv, BudgetIsKept
  <2>3. QED  BY <2>1, <2>2
<1>8. QED  BY <1>2, <1>5, <1>7 DEF Inv, RequestedBelow

\* The model's answer may go beyond the limit by less than its own cost.
LEMMA ReplyStep ==
  ASSUME AgentLoopAssumption, Inv, NEW finish \in {"stop", "length", "tool_calls"},
         NEW calls \in Batches \cup {<<>>}, NEW cost \in 0 .. TurnCost,
         Reply(finish, calls, cost)
  PROVE  Inv'
<1>1. /\ phase = "requesting" /\ phase' \in {"failed", "answered"}
      /\ turn' = [turn EXCEPT !.finish = finish, !.calls = calls]
      /\ spent' = [spent EXCEPT !.empty = 0, !.tokens = spent.tokens + cost]
  BY DEF Reply
<1>2. cost \in Nat /\ TokenLimit \in Nat /\ TurnCost \in Nat /\ cost <= TurnCost
  BY DEF AgentLoopAssumption
<1>3. Len(calls) \in Nat
  <2>1. CASE calls \in Batches
    <3>1. calls \in Seq(Call)  BY <2>1 DEF AgentLoopAssumption
    <3>2. QED  BY <3>1
  <2>2. CASE calls = <<>>  BY <2>2
  <2>3. QED  BY <2>1, <2>2
<1>4. Typed'  BY <1>1, <1>2, <1>3 DEF Inv, Typed
<1>5. spent'.tools = spent.tools /\ spent'.tokens = spent.tokens + cost
  BY <1>1 DEF Inv, Typed
<1>6. spent.tokens < TokenLimit /\ spent.tokens \in Nat
  BY <1>1 DEF Inv, Typed, RequestedBelow, Spent
<1>7. BudgetIsKept'  BY <1>2, <1>5, <1>6 DEF Inv, BudgetIsKept
<1>8. QED  BY <1>1, <1>4, <1>7 DEF Inv, RequestedBelow

\* A parallel batch is charged as a whole, a sequential call one by one.
LEMMA ChargeStep ==
  ASSUME AgentLoopAssumption, Inv, BeginCalls \/ BeginCall
  PROVE  Inv'
<1>1. phase' # "requesting"  BY DEF BeginCalls, BeginCall, Halts, AfterCalls
<1>2. turn' = turn  BY DEF BeginCalls, BeginCall, Halts
<1>3. \/ spent' = spent
      \/ /\ spent.tools + Len(turn.calls) <= ToolLimit
         /\ spent' = [spent EXCEPT !.tools = @ + Len(turn.calls)]
      \/ spent.tools < ToolLimit /\ spent' = [spent EXCEPT !.tools = @ + 1]
  BY DEF BeginCalls, BeginCall, Halts, Fits
<1>4. Len(turn.calls) \in Nat /\ ToolLimit \in Nat
  BY DEF Inv, Typed, AgentLoopAssumption
<1>5. Typed'  BY <1>2, <1>3, <1>4 DEF Inv, Typed
<1>6. spent'.tokens = spent.tokens /\ (spent'.tools = spent.tools \/ spent'.tools <= ToolLimit)
  BY <1>3, <1>4 DEF Inv, Typed
<1>7. BudgetIsKept'  BY <1>6 DEF Inv, BudgetIsKept
<1>8. QED  BY <1>1, <1>5, <1>7 DEF Inv, RequestedBelow

\* A turn is requested below the limit, and asked for again below it.
LEMMA RequestStep ==
  ASSUME AgentLoopAssumption, Inv, BeginTurn \/ RequestFails \/ RequestIsCancelled
  PROVE  Inv'
<1>1. spent' = spent
  BY DEF BeginTurn, RequestFails, RetryRequest, RequestIsCancelled, Halts
<1>2. phase' = "requesting" => spent.tokens < TokenLimit
  BY DEF BeginTurn, RequestFails, RetryRequest, RequestIsCancelled, Halts, Inv, RequestedBelow
<1>3. DOMAIN NewTurn = TurnFields /\ Len(NewTurn.calls) = 0
  BY DEF NewTurn
<1>4. DOMAIN turn' = TurnFields /\ Len(turn'.calls) \in Nat
  BY <1>3 DEF BeginTurn, RequestFails, RetryRequest, RequestIsCancelled, Halts, Inv, Typed
<1>5. QED  BY <1>1, <1>2, <1>4 DEF Inv, Typed, RequestedBelow, BudgetIsKept

\* The other steps of the loop: a reply that is empty, the end of a turn, calls
\* that return.
LEMMA OtherStep ==
  ASSUME Inv, \/ EmptyReply \/ Stop \/ CutOff \/ CollectReads \/ CallReturns \/ PauseForDecision
              \/ \E i \in 1 .. Len(turn.calls) : ReadReturns(i)
  PROVE  Inv'
<1>1. phase' # "requesting"
  BY DEF EmptyReply, Stop, CutOff, CollectReads, CallReturns, PauseForDecision, ReadReturns, Halts,
         Returns, AfterCalls, At
<1>2. \/ spent' = spent \/ spent' = [spent EXCEPT !.empty = @ + 1]
      \/ spent' = [spent EXCEPT !.reminded = TRUE]
  BY DEF EmptyReply, Stop, CutOff, CollectReads, CallReturns, PauseForDecision, ReadReturns, Halts
<1>3. \/ turn' = turn \/ turn' = [turn EXCEPT !.next = @ + 1]
      \/ \E i \in Nat : turn' = [turn EXCEPT !.ready = Append(@, i)]
  BY DEF EmptyReply, Stop, CutOff, CollectReads, CallReturns, PauseForDecision, ReadReturns, Halts,
         Returns
<1>4. DOMAIN turn' = TurnFields /\ turn'.calls = turn.calls
  BY <1>3 DEF Inv, Typed
<1>5. DOMAIN spent' = DOMAIN spent /\ spent'.tools = spent.tools /\ spent'.tokens = spent.tokens
  BY <1>2 DEF Inv, Typed
<1>6. QED  BY <1>1, <1>4, <1>5 DEF Inv, Typed, RequestedBelow, BudgetIsKept

----------------------------------------------------------------------------
\* Nothing is spent at first.
LEMMA Initially == AgentLoopAssumption /\ Init => Inv
<1> SUFFICES ASSUME AgentLoopAssumption, Init PROVE Inv  OBVIOUS
<1>1. DOMAIN turn = TurnFields /\ Len(turn.calls) = 0
  BY DEF Init, NewTurn
<1>2. /\ DOMAIN spent = SpentFields
      /\ spent.tools = 0 /\ spent.tokens = 0
  BY DEF Init
<1>3. 0 <= ToolLimit /\ 0 < TokenLimit + TurnCost  BY DEF AgentLoopAssumption
<1>4. QED  BY <1>1, <1>2, <1>3 DEF Init, Inv, Typed, RequestedBelow, BudgetIsKept

\* Every step of the loop, and a cancellation, keeps the budget.
LEMMA Inductive == AgentLoopAssumption /\ Inv /\ [Next]_vars => Inv'
<1> SUFFICES ASSUME AgentLoopAssumption, Inv, [Next]_vars PROVE Inv'  OBVIOUS
<1>1. CASE BeginTurn \/ RequestFails \/ RequestIsCancelled  BY <1>1, RequestStep
<1>2. CASE \E finish \in {"stop", "length", "tool_calls"}, calls \in Batches \cup {<<>>},
              cost \in 0 .. TurnCost : Reply(finish, calls, cost)
  BY <1>2, ReplyStep
<1>3. CASE BeginCalls \/ BeginCall  BY <1>3, ChargeStep
<1>4. CASE \E n \in 1 .. MaxTasks : Delegate(n)  BY <1>4, DelegateStep
<1>5. CASE \/ EmptyReply \/ Stop \/ CutOff \/ CollectReads \/ CallReturns \/ PauseForDecision
           \/ \E i \in 1 .. Len(turn.calls) : ReadReturns(i)
  BY <1>5, OtherStep
<1>6. CASE Cancel \/ UNCHANGED vars  BY <1>6, HaltIsQuiet DEF Cancel, vars
<1>7. QED  BY <1>1, <1>2, <1>3, <1>4, <1>5, <1>6 DEF Next, LoopStep

----------------------------------------------------------------------------
\* The checks of LoopConfig's limits before every turn and every call keep the
\* budget of a run: its tool calls never exceed their limit, and its tokens
\* exceed theirs by less than one turn, of the leg or of each of its children.
THEOREM LegKeepsBudget == AgentLoopAssumption => (Spec => []BudgetIsKept)
<1> SUFFICES ASSUME AgentLoopAssumption PROVE Spec => []BudgetIsKept  OBVIOUS
<1>1. Init => Inv  BY Initially
<1>2. Inv /\ [Next]_vars => Inv'  BY Inductive
<1>3. Inv => BudgetIsKept  BY DEF Inv
<1>4. QED  BY <1>1, <1>2, <1>3, PTL DEF Spec

----------------------------------------------------------------------------
(* The conversation: what a leg has added is known up to the turn at hand  *)

Working == {"answered", "parallel", "calling", "executing"}

\* Results of the turn at hand that are in the session.
Returned == IF phase \in {"calling", "executing"} THEN turn.next - 1 ELSE 0

\* Operators on a conversation g, so that the proofs can speak of the one after
\* the step as of any other.
AnsweredIn(g, p) == \A i \in 1 .. g[p].call :
  p + i <= Len(g) /\ g[p + i] = [role |-> "tool", turn |-> g[p].turn, call |-> i]

OpenIn(g) == {p \in DOMAIN g : IsWords(g[p]) /\ ~AnsweredIn(g, p)}

FollowsIn(g, p) == ~IsWords(g[p]) => /\ g[p].call < p /\ IsWords(g[p - g[p].call])
                                     /\ g[p - g[p].call].turn = g[p].turn

\* Turn n made these calls, n results of them are in, and nothing is behind them.
EndsWith(g, n, calls, returned) == LET w == Len(g) - returned IN
  /\ returned \in 0 .. Len(calls) /\ returned < Len(g)
  /\ g[w] = [role |-> "assistant", turn |-> n, call |-> Len(calls)]
  /\ \A i \in 1 .. returned : g[w + i] = [role |-> "tool", turn |-> n, call |-> i]
  /\ \A p \in 1 .. w - 1 : g[p].turn < n

\* One turn may be left open, if the model was reminded.
Pardoned(S, reminded) == IF reminded THEN \A p, q \in S : p = q ELSE S = {}

Shaped ==
  /\ generated \in Seq(Message) /\ iteration \in Nat
  /\ DOMAIN spent = SpentFields
  /\ DOMAIN turn = TurnFields /\ turn.calls \in Seq(Call) /\ turn.next \in Nat \ {0}
  /\ phase \in {"requesting", "answered", "parallel"} => turn.next = 1
  /\ phase = "executing" => turn.next <= Len(turn.calls)

OpenOnes ==
  /\ phase \in {"checking", "requesting"} => Pardoned(OpenIn(generated), spent.reminded)
  /\ phase \in Working =>
       Pardoned({p \in OpenIn(generated) : p < Len(generated) - Returned}, spent.reminded)
  /\ Pardoned({p \in OpenIn(generated) : generated[p].turn < iteration}, spent.reminded)

Conversation ==
  /\ Shaped
  /\ \A p \in DOMAIN generated :
       /\ FollowsIn(generated, p)
       /\ generated[p].turn <= iteration
       /\ phase = "requesting" => generated[p].turn < iteration
  /\ phase \in Working => EndsWith(generated, iteration, turn.calls, Returned)
  /\ OpenOnes

\* The messages s come behind g, where nothing else changes.
Prolongs(h, g, s) ==
  /\ h \in Seq(Message) /\ Len(h) = Len(g) + Len(s)
  /\ \A p \in 1 .. Len(g) : h[p] = g[p]
  /\ \A i \in 1 .. Len(s) : h[Len(g) + i] = s[i]
  /\ \A p \in 1 .. Len(g) : AnsweredIn(g, p) => AnsweredIn(h, p)
  /\ \A p \in 1 .. Len(g) : FollowsIn(g, p) => FollowsIn(h, p)
  /\ OpenIn(h) \subseteq OpenIn(g) \cup Len(g) + 1 .. Len(h)

\* What is there of a conversation stays as it is when messages are added.
LEMMA Appended ==
  ASSUME NEW g \in Seq(Message), NEW s \in Seq(Message), NEW h, h = g \o s
  PROVE  Prolongs(h, g, s)
<1>1. /\ h \in Seq(Message) /\ Len(h) = Len(g) + Len(s) /\ Len(g) \in Nat /\ Len(s) \in Nat
      /\ \A p \in 1 .. Len(g) : h[p] = g[p]
      /\ \A i \in 1 .. Len(s) : h[Len(g) + i] = s[i]
  OBVIOUS
<1>2. \A p \in 1 .. Len(g) : g[p] \in Message /\ g[p].call \in Nat
  <2>1. \A p \in 1 .. Len(g) : g[p] \in Message  OBVIOUS
  <2>2. QED  BY <2>1 DEF Message
<1>3. ASSUME NEW p \in 1 .. Len(g), AnsweredIn(g, p) PROVE AnsweredIn(h, p)
  <2>1. SUFFICES ASSUME NEW i \in 1 .. g[p].call
                 PROVE  /\ p + i <= Len(h)
                        /\ h[p + i] = [role |-> "tool", turn |-> g[p].turn, call |-> i]
    BY <1>1 DEF AnsweredIn
  <2>2. p + i \in 1 .. Len(g) /\ g[p + i] = [role |-> "tool", turn |-> g[p].turn, call |-> i]
    BY <1>1, <1>2, <1>3 DEF AnsweredIn
  <2>3. QED  BY <1>1, <2>2
<1>4. ASSUME NEW p \in 1 .. Len(g), FollowsIn(g, p) PROVE FollowsIn(h, p)
  <2>1. ~IsWords(g[p]) => p - g[p].call \in 1 .. Len(g)
    BY <1>1, <1>2, <1>4 DEF FollowsIn
  <2>2. QED  BY <1>1, <1>4, <2>1 DEF FollowsIn
<1>5. ASSUME NEW p \in OpenIn(h) PROVE p \in OpenIn(g) \cup Len(g) + 1 .. Len(h)
  <2>1. p \in 1 .. Len(h) /\ IsWords(h[p]) /\ ~AnsweredIn(h, p)  BY <1>1, <1>5 DEF OpenIn
  <2>2. CASE p \in 1 .. Len(g)
    <3>1. IsWords(g[p]) /\ ~AnsweredIn(g, p)  BY <1>1, <1>3, <2>1, <2>2
    <3>2. QED  BY <2>2, <3>1 DEF OpenIn
  <2>3. CASE p \notin 1 .. Len(g)  BY <1>1, <2>1, <2>3
  <2>4. QED  BY <2>2, <2>3
<1>6. QED  BY <1>1, <1>3, <1>4, <1>5 DEF Prolongs

\* What is pardoned may become less.
LEMMA StillPardoned ==
  ASSUME NEW S, NEW T, NEW reminded, T \subseteq S, Pardoned(S, reminded)
  PROVE  Pardoned(T, reminded)
BY DEF Pardoned

\* The loop comes to an end, or the user cancels it.
LEMMA LegEnds ==
  ASSUME Conversation, phase' \in Ended, UNCHANGED <<iteration, turn, spent, generated>>
  PROVE  Conversation'
<1>1. /\ phase' \notin Working
      /\ phase' \notin {"checking", "requesting", "answered", "parallel", "executing"}
  BY DEF Ended, Working
<1>2. Shaped'  BY <1>1 DEF Conversation, Shaped
<1>3. OpenOnes'  BY <1>1 DEF Conversation, OpenOnes
<1>4. QED  BY <1>1, <1>2, <1>3 DEF Conversation

\* A turn begins: what is there is of turns before it.
LEMMA TurnBegins ==
  ASSUME Conversation, phase = "checking", phase' = "requesting",
         iteration' = iteration + 1, turn' = NewTurn, UNCHANGED <<spent, generated>>
  PROVE  Conversation'
<1>1. Shaped'
  <2>1. /\ DOMAIN NewTurn = TurnFields /\ NewTurn.calls = <<>> /\ NewTurn.next = 1
    BY DEF NewTurn
  <2>2. <<>> \in Seq(Call)  OBVIOUS
  <2>3. QED  BY <2>1, <2>2 DEF Conversation, Shaped
<1>2. \A p \in DOMAIN generated : generated[p] \in Message /\ generated[p].turn \in Nat
  <2>1. \A p \in DOMAIN generated : generated[p] \in Message  BY DEF Conversation, Shaped
  <2>2. QED  BY <2>1 DEF Message
<1>3. \A p \in DOMAIN generated : generated[p].turn < iteration'
  BY <1>2 DEF Conversation, Shaped
<1>4. OpenOnes'
  <2>1. Pardoned(OpenIn(generated), spent.reminded)  BY DEF Conversation, OpenOnes
  <2>2. Pardoned({p \in OpenIn(generated) : generated[p].turn < iteration'}, spent.reminded)
    BY <2>1, StillPardoned
  <2>3. QED  BY <2>1, <2>2 DEF OpenOnes, Working
<1>5. \A p \in DOMAIN generated : FollowsIn(generated, p) /\ generated[p].turn <= iteration'
  BY <1>2, <1>3 DEF Conversation, Shaped
<1>6. QED  BY <1>1, <1>3, <1>4, <1>5 DEF Conversation, Working

\* The request is made again, or the model has nothing to say.
LEMMA NothingIsAdded ==
  ASSUME Conversation, phase = "requesting", phase' \in {"requesting", "checking", "failed"},
         iteration' = iteration, generated' = generated,
         DOMAIN turn' = TurnFields, turn'.calls = turn.calls, turn'.next = turn.next,
         DOMAIN spent' = SpentFields, spent'.reminded = spent.reminded
  PROVE  Conversation'
<1>1. Shaped'  BY DEF Conversation, Shaped
<1>2. OpenOnes'  BY DEF Conversation, OpenOnes, Working
<1>3. \A p \in DOMAIN generated' :
        /\ FollowsIn(generated, p)'
        /\ generated'[p].turn <= iteration'
        /\ phase' = "requesting" => generated'[p].turn < iteration'
  BY DEF Conversation, FollowsIn
<1>4. QED  BY <1>1, <1>2, <1>3 DEF Conversation, Working

\* The model's words are added; no result can be there yet.
LEMMA WordsAreAdded ==
  ASSUME Conversation, phase = "requesting", phase' \in {"answered", "failed"},
         NEW calls \in Seq(Call), iteration' = iteration,
         generated' = Append(generated, Assistant(calls)),
         DOMAIN turn' = TurnFields, turn'.calls = calls, turn'.next = turn.next,
         DOMAIN spent' = SpentFields, spent'.reminded = spent.reminded
  PROVE  Conversation'
<1>1. PICK m : m = Assistant(calls)  OBVIOUS
<1>2. /\ m = [role |-> "assistant", turn |-> iteration, call |-> Len(calls)]
      /\ m \in Message /\ IsWords(m) /\ m.turn = iteration
  BY <1>1 DEF Assistant, Message, IsWords, Conversation, Shaped
<1>3. PICK g \in Seq(Message) : g = generated  BY DEF Conversation, Shaped
<1>4. PICK s \in Seq(Message) : s = <<m>>
  <2>1. <<m>> \in Seq(Message)  BY <1>2
  <2>2. QED  BY <2>1
<1>5. PICK h : h = g \o s  OBVIOUS
<1>6. generated' = h /\ Len(s) = 1 /\ s[1] = m  BY <1>1, <1>2, <1>3, <1>4, <1>5
<1>7. /\ h \in Seq(Message) /\ Len(h) = Len(g) + 1 /\ Len(g) \in Nat
      /\ h[Len(g) + 1] = m
      /\ \A p \in 1 .. Len(g) : /\ h[p] = g[p]
                               /\ (AnsweredIn(g, p) => AnsweredIn(h, p))
                               /\ (FollowsIn(g, p) => FollowsIn(h, p))
      /\ OpenIn(h) \subseteq OpenIn(g) \cup {Len(g) + 1}
  <2>1. Prolongs(h, g, s)  BY <1>5, Appended
  <2>2. Len(s) = 1 /\ s[1] = m /\ Len(g) \in Nat  BY <1>6
  <2>3. Len(g) + 1 .. Len(h) = {Len(g) + 1}  BY <2>1, <2>2 DEF Prolongs
  <2>4. QED  BY <2>1, <2>2, <2>3 DEF Prolongs
<1>8. \A p \in 1 .. Len(g) : FollowsIn(g, p) /\ g[p].turn < iteration
  BY <1>3 DEF Conversation
<1>9. /\ iteration \in Nat /\ Len(calls) \in Nat
      /\ \A p \in 1 .. Len(g) : g[p].turn \in Nat
  <2>1. \A p \in 1 .. Len(g) : g[p] \in Message  OBVIOUS
  <2>2. QED  BY <2>1 DEF Message, Conversation, Shaped
<1>10. Shaped'  BY <1>6, <1>7 DEF Conversation, Shaped
<1>11. \A p \in 1 .. Len(h) : FollowsIn(h, p) /\ h[p].turn <= iteration
  <2>1. FollowsIn(h, Len(g) + 1)  BY <1>2, <1>7 DEF FollowsIn
  <2>2. h[Len(g) + 1].turn <= iteration  BY <1>2, <1>7, <1>9
  <2>3. \A p \in 1 .. Len(g) : FollowsIn(h, p) /\ h[p].turn <= iteration
    <3>1. \A p \in 1 .. Len(g) : FollowsIn(h, p)  BY <1>7, <1>8
    <3>2. \A p \in 1 .. Len(g) : h[p].turn = g[p].turn  BY <1>7
    <3>3. QED  BY <1>8, <1>9, <3>1, <3>2
  <2>4. \A p \in 1 .. Len(h) : p = Len(g) + 1 \/ p \in 1 .. Len(g)  BY <1>7
  <2>5. QED  BY <2>1, <2>2, <2>3, <2>4
<1>12. Len(h) - 0 = Len(g) + 1 /\ 0 \in 0 .. Len(calls) /\ 0 < Len(h)  BY <1>7, <1>9
<1>13. Returned' = 0
  BY DEF Returned, Conversation, Shaped
<1>14. EndsWith(h, iteration, calls, 0)
  <2>1. \A p \in 1 .. (Len(g) + 1) - 1 : h[p].turn < iteration
    <3>1. (Len(g) + 1) - 1 = Len(g)  BY <1>7
    <3>2. \A p \in 1 .. Len(g) : h[p] = g[p]  BY <1>7
    <3>3. QED  BY <1>8, <3>1, <3>2
  <2>2. QED  BY <1>2, <1>7, <1>12, <2>1 DEF EndsWith
<1>15. Pardoned(OpenIn(g), spent.reminded)  BY <1>3 DEF Conversation, OpenOnes
<1>16. Pardoned({p \in OpenIn(h) : p < Len(h) - 0}, spent.reminded)
  <2>1. {p \in OpenIn(h) : p < Len(h) - 0} \subseteq OpenIn(g)  BY <1>7
  <2>2. QED  BY <1>15, <2>1, StillPardoned
<1>17. Pardoned({p \in OpenIn(h) : h[p].turn < iteration}, spent.reminded)
  <2>1. {p \in OpenIn(h) : h[p].turn < iteration} \subseteq OpenIn(g)
    BY <1>2, <1>7, <1>9
  <2>2. QED  BY <1>15, <2>1, StillPardoned
<1>18. OpenOnes'  BY <1>6, <1>13, <1>16, <1>17 DEF OpenOnes
<1>19. QED
  BY <1>6, <1>7, <1>10, <1>11, <1>13, <1>14, <1>18 DEF Conversation, Working

\* The calls of a turn begin, or one of them; nothing is added.
LEMMA CallsGoOn ==
  ASSUME Conversation, phase \in Working, phase' \in {"parallel", "calling", "executing"},
         iteration' = iteration, generated' = generated,
         DOMAIN turn' = TurnFields, turn'.calls = turn.calls, turn'.next = turn.next,
         DOMAIN spent' = SpentFields, spent'.reminded = spent.reminded,
         phase' = "parallel" => turn.next = 1,
         phase' = "executing" => turn.next <= Len(turn.calls)
  PROVE  Conversation'
<1>1. Shaped'  BY DEF Conversation, Shaped
<1>2. Returned' = Returned
  BY DEF Conversation, Shaped, Returned, Working
<1>3. OpenOnes'  BY <1>2 DEF Conversation, OpenOnes, Working
<1>4. EndsWith(generated, iteration, turn.calls, Returned)'
  BY <1>2 DEF Conversation, EndsWith
<1>5. \A p \in DOMAIN generated' : FollowsIn(generated, p)' /\ generated'[p].turn <= iteration'
  BY DEF Conversation, FollowsIn
<1>6. QED  BY <1>1, <1>3, <1>4, <1>5 DEF Conversation

\* The model stops, or is reminded that something is left to do.
LEMMA ModelStops ==
  ASSUME Conversation, phase = "answered", ~spent.reminded, phase' = "checking",
         DOMAIN spent' = SpentFields, spent'.reminded,
         UNCHANGED <<iteration, turn, generated>>
  PROVE  Conversation'
<1>1. Shaped'  BY DEF Conversation, Shaped
<1>2. /\ Returned = 0 /\ Len(generated) \in Nat
      /\ {p \in OpenIn(generated) : p < Len(generated) - 0} = {}
  <2>1. Returned = 0 /\ Len(generated) \in Nat  BY DEF Conversation, Shaped, Returned
  <2>2. Pardoned({p \in OpenIn(generated) : p < Len(generated) - Returned}, spent.reminded)
    BY DEF Conversation, OpenOnes, Working
  <2>3. QED  BY <2>1, <2>2 DEF Pardoned
<1>3. OpenIn(generated) \subseteq {Len(generated)}
  BY <1>2 DEF OpenIn, Conversation, Shaped
<1>4. OpenOnes'  BY <1>3 DEF OpenOnes, Pardoned, Working
<1>5. QED  BY <1>1, <1>4 DEF Conversation, Working

\* A turn whose results are all there is not open.
LEMMA AllReturned ==
  ASSUME NEW g \in Seq(Message), NEW n, NEW calls \in Seq(Call),
         EndsWith(g, n, calls, Len(calls))
  PROVE  OpenIn(g) \subseteq {p \in OpenIn(g) : p < Len(g) - Len(calls)}
<1>1. Len(g) \in Nat /\ Len(calls) \in Nat  OBVIOUS
<1>2. PICK w \in 1 .. Len(g) : w = Len(g) - Len(calls)  BY <1>1 DEF EndsWith
<1>3. AnsweredIn(g, w)  BY <1>1, <1>2 DEF EndsWith, AnsweredIn
<1>4. ASSUME NEW p \in w + 1 .. Len(g) PROVE ~IsWords(g[p])
  <2>1. PICK i \in 1 .. Len(calls) : p = w + i
    <3>1. p - w \in 1 .. Len(calls) /\ p = w + (p - w)  BY <1>1, <1>2, <1>4
    <3>2. QED  BY <3>1
  <2>2. g[w + i] = [role |-> "tool", turn |-> n, call |-> i]
    BY <1>2, <2>1 DEF EndsWith
  <2>3. QED  BY <2>1, <2>2 DEF IsWords
<1>5. QED  BY <1>1, <1>2, <1>3, <1>4 DEF OpenIn

\* Messages of turns up to n, each result behind the words it belongs to.
UpTo(g, n) == \A p \in DOMAIN g : FollowsIn(g, p) /\ g[p].turn <= n

\* The results of turn n that come next after those returned.
ResultsOf(s, n, returned) ==
  \A i \in 1 .. Len(s) : s[i] = [role |-> "tool", turn |-> n, call |-> returned + i]

\* Results added behind those that are there go on with the turn.
LEMMA ResultsFollow ==
  ASSUME NEW g \in Seq(Message), NEW n \in Nat, NEW calls \in Seq(Call), NEW returned \in Nat,
         EndsWith(g, n, calls, returned),
         UpTo(g, n),
         NEW s \in Seq(Message), returned + Len(s) <= Len(calls),
         ResultsOf(s, n, returned),
         NEW h, Prolongs(h, g, s)
  PROVE  /\ h \in Seq(Message) /\ EndsWith(h, n, calls, returned + Len(s))
         /\ UpTo(h, n)
         /\ {p \in OpenIn(h) : p < Len(h) - (returned + Len(s))}
              \subseteq {p \in OpenIn(g) : p < Len(g) - returned}
         /\ {p \in OpenIn(h) : h[p].turn < n} \subseteq {p \in OpenIn(g) : g[p].turn < n}
<1>1. /\ h \in Seq(Message) /\ Len(h) = Len(g) + Len(s)
      /\ \A p \in 1 .. Len(g) : h[p] = g[p]
      /\ \A i \in 1 .. Len(s) : h[Len(g) + i] = s[i]
  BY DEF Prolongs
<1>2. PICK l \in Nat : l = Len(g)  OBVIOUS
<1>3. PICK k \in Nat : k = Len(s)  OBVIOUS
<1>4. PICK w \in Nat \ {0} : w = l - returned
  <2>1. returned < l  BY <1>2 DEF EndsWith
  <2>2. l - returned \in Nat \ {0}  BY <2>1
  <2>3. QED  BY <2>2
<1>5. l = w + returned /\ Len(h) = w + (returned + k)
  <2>1. l = w + returned  BY <1>4
  <2>2. Len(h) = l + k  BY <1>1, <1>2, <1>3
  <2>3. QED  BY <2>1, <2>2
<1>6. /\ g[w] = [role |-> "assistant", turn |-> n, call |-> Len(calls)]
      /\ \A i \in 1 .. returned : g[w + i] = [role |-> "tool", turn |-> n, call |-> i]
      /\ \A p \in 1 .. w - 1 : g[p].turn < n
  BY <1>2, <1>4 DEF EndsWith
<1>7. /\ \A p \in 1 .. l : h[p] = g[p]
      /\ \A j \in 1 .. k : h[l + j] = [role |-> "tool", turn |-> n, call |-> returned + j]
  BY <1>1, <1>2, <1>3 DEF ResultsOf
<1>8. h[w] = [role |-> "assistant", turn |-> n, call |-> Len(calls)]
  <2>1. w \in 1 .. l  BY <1>5
  <2>2. QED  BY <1>6, <1>7, <2>1
<1>9. ASSUME NEW i \in 1 .. returned + k
      PROVE  h[w + i] = [role |-> "tool", turn |-> n, call |-> i]
  <2>1. CASE i <= returned
    <3>1. w + i \in 1 .. l /\ i \in 1 .. returned  BY <1>5, <2>1
    <3>2. QED  BY <1>6, <1>7, <3>1
  <2>2. CASE i > returned
    <3>1. PICK j \in 1 .. k : j = i - returned
      <4>1. i - returned \in 1 .. k  BY <2>2
      <4>2. QED  BY <4>1
    <3>2. i = returned + j /\ w + i = l + j  BY <1>5, <3>1
    <3>3. QED  BY <1>7, <3>2
  <2>3. i <= returned \/ i > returned  OBVIOUS
  <2>4. QED  BY <2>1, <2>2, <2>3
<1>10. ASSUME NEW p \in 1 .. w - 1 PROVE h[p].turn < n
  <2>1. p \in 1 .. l  BY <1>5
  <2>2. h[p] = g[p]  BY <1>7, <2>1
  <2>3. QED  BY <1>6, <2>2
<1>11. EndsWith(h, n, calls, returned + k)
  <2>1. returned + k \in 0 .. Len(calls)  BY <1>3
  <2>2. returned + k < Len(h) /\ Len(h) - (returned + k) = w  BY <1>5
  <2>3. QED  BY <1>8, <1>9, <1>10, <2>1, <2>2 DEF EndsWith
<1>12. ASSUME NEW p \in 1 .. w + (returned + k) PROVE FollowsIn(h, p) /\ h[p].turn <= n
  <2>2. CASE p \in 1 .. l
    <3>1. p \in 1 .. Len(g) /\ p \in DOMAIN g  BY <1>2, <2>2
    <3>2. FollowsIn(h, p)
      <4>1. FollowsIn(g, p)  BY <3>1 DEF UpTo
      <4>2. QED  BY <3>1, <4>1 DEF Prolongs
    <3>3. h[p].turn <= n  BY <1>7, <2>2, <3>1 DEF UpTo
    <3>4. QED  BY <3>2, <3>3
  <2>3. CASE p \notin 1 .. l
    <3>1. PICK i \in 1 .. returned + k : i = p - w
      <4>1. p - w \in 1 .. returned + k  BY <1>5, <2>3
      <4>2. QED  BY <4>1
    <3>2. p = w + i /\ i < p  BY <3>1
    <3>3. h[p] = [role |-> "tool", turn |-> n, call |-> i]  BY <1>9, <3>2
    <3>4. h[p].call = i /\ h[p].turn = n  BY <3>3
    <3>5. p - i = w  BY <3>2
    <3>6. IsWords(h[w]) /\ h[w].turn = n  BY <1>8 DEF IsWords
    <3>7. FollowsIn(h, p)  BY <3>2, <3>4, <3>5, <3>6 DEF FollowsIn
    <3>8. QED  BY <3>4, <3>7
  <2>4. QED  BY <2>2, <2>3
<1>13. ASSUME NEW p \in OpenIn(h) PROVE p \in OpenIn(g) /\ h[p] = g[p]
  <2>1. p \in OpenIn(g) \cup Len(g) + 1 .. Len(h)  BY DEF Prolongs
  <2>2. IsWords(h[p])  BY DEF OpenIn
  <2>3. ASSUME p \in l + 1 .. w + (returned + k) PROVE FALSE
    <3>1. PICK i \in 1 .. returned + k : i = p - w
      <4>1. p - w \in 1 .. returned + k  BY <1>5, <2>3
      <4>2. QED  BY <4>1
    <3>2. p = w + i  BY <2>3, <3>1
    <3>3. h[p] = [role |-> "tool", turn |-> n, call |-> i]  BY <1>9, <3>2
    <3>4. QED  BY <2>2, <3>3 DEF IsWords
  <2>4. p \in OpenIn(g)  BY <1>2, <1>5, <2>1, <2>3
  <2>5. p \in 1 .. l  BY <1>2, <2>4 DEF OpenIn
  <2>6. QED  BY <1>7, <2>4, <2>5
<1>14. Len(h) - (returned + k) = w /\ Len(g) - returned = w  BY <1>2, <1>5
<1>15. {p \in OpenIn(h) : p < Len(h) - (returned + k)}
         \subseteq {p \in OpenIn(g) : p < Len(g) - returned}
  BY <1>13, <1>14
<1>16. {p \in OpenIn(h) : h[p].turn < n} \subseteq {p \in OpenIn(g) : g[p].turn < n}
  BY <1>13
<1>17. UpTo(h, n)
  <2>1. DOMAIN h = 1 .. w + (returned + k)  BY <1>1, <1>5
  <2>2. QED  BY <1>12, <2>1 DEF UpTo
<1>18. QED  BY <1>1, <1>3, <1>11, <1>15, <1>16, <1>17

\* Results that come in one after the other, or all at once.
LEMMA ResultsAreAdded ==
  ASSUME Conversation, phase \in Working, NEW s \in Seq(Message),
         Returned + Len(s) <= Len(turn.calls),
         \A i \in 1 .. Len(s) : s[i] = Result(Returned + i),
         phase' = "calling" \/ Returned + Len(s) = Len(turn.calls),
         phase' = "calling" => turn'.next = Returned + Len(s) + 1,
         phase' # "calling" => phase' \in {"checking"} \cup Ended /\ turn'.next = turn.next,
         iteration' = iteration, generated' = generated \o s,
         DOMAIN turn' = TurnFields, turn'.calls = turn.calls,
         DOMAIN spent' = SpentFields, spent'.reminded = spent.reminded
  PROVE  Conversation'
<1>1. PICK g \in Seq(Message) : g = generated  BY DEF Conversation, Shaped
<1>2. PICK returned \in Nat : returned = Returned
  BY DEF Conversation, Shaped, Returned, Working
<1>3. PICK calls \in Seq(Call) : calls = turn.calls  BY DEF Conversation, Shaped
<1>4. PICK n \in Nat : n = iteration  BY DEF Conversation, Shaped
<1>5. PICK h : h = g \o s  OBVIOUS
<1>6. EndsWith(g, n, calls, returned)  BY <1>1, <1>2, <1>3, <1>4 DEF Conversation
<1>7. UpTo(g, n)  BY <1>1, <1>4 DEF Conversation, UpTo
<1>8. returned + Len(s) <= Len(calls)  BY <1>2, <1>3
<1>9. ResultsOf(s, n, returned)  BY <1>2, <1>4 DEF Result, ResultsOf
<1>10. /\ h \in Seq(Message) /\ EndsWith(h, n, calls, returned + Len(s))
       /\ UpTo(h, n)
       /\ {p \in OpenIn(h) : p < Len(h) - (returned + Len(s))}
            \subseteq {p \in OpenIn(g) : p < Len(g) - returned}
       /\ {p \in OpenIn(h) : h[p].turn < n} \subseteq {p \in OpenIn(g) : g[p].turn < n}
  <2>1. Prolongs(h, g, s)  BY <1>5, Appended
  <2>2. QED  BY <1>6, <1>7, <1>8, <1>9, <2>1, ResultsFollow
<1>11. PICK reminded : reminded = spent.reminded  OBVIOUS
<1>12. /\ Pardoned({p \in OpenIn(g) : p < Len(g) - returned}, reminded)
       /\ Pardoned({p \in OpenIn(g) : g[p].turn < n}, reminded)
  BY <1>1, <1>2, <1>4, <1>11 DEF Conversation, OpenOnes
<1>13. /\ Pardoned({p \in OpenIn(h) : p < Len(h) - (returned + Len(s))}, reminded)
       /\ Pardoned({p \in OpenIn(h) : h[p].turn < n}, reminded)
  BY <1>10, <1>12, StillPardoned
<1>14. returned + Len(s) = Len(calls) => Pardoned(OpenIn(h), reminded)
  <2>1. SUFFICES ASSUME returned + Len(s) = Len(calls) PROVE Pardoned(OpenIn(h), reminded)
    OBVIOUS
  <2>2. EndsWith(h, n, calls, Len(calls))  BY <1>10, <2>1
  <2>3. OpenIn(h) \subseteq {p \in OpenIn(h) : p < Len(h) - Len(calls)}
    BY <1>10, <2>2, AllReturned
  <2>4. QED  BY <1>13, <2>1, <2>3, StillPardoned
<1>15. /\ generated' = h /\ iteration' = n /\ turn'.calls = calls
       /\ spent'.reminded = reminded
  BY <1>1, <1>3, <1>4, <1>5, <1>11
<1>16. phase' = "calling" => Returned' = returned + Len(s)
  BY <1>2 DEF Returned
<1>17. phase' \notin {"requesting", "answered", "parallel", "executing"}
  BY DEF Ended
<1>18. Len(s) \in Nat  OBVIOUS
<1>19. Shaped'
  <2>1. turn'.next \in Nat \ {0}
    <3>1. CASE phase' = "calling"  BY <1>2, <1>18, <3>1
    <3>2. CASE phase' # "calling"  BY <3>2 DEF Conversation, Shaped
    <3>3. QED  BY <3>1, <3>2
  <2>2. QED  BY <1>3, <1>4, <1>10, <1>15, <1>17, <2>1 DEF Shaped
<1>20. phase' \in Working => phase' = "calling"  BY <1>17 DEF Working
<1>21. OpenOnes'
  <2>1. phase' = "checking" => returned + Len(s) = Len(calls)  BY <1>2, <1>3
  <2>2. QED  BY <1>13, <1>14, <1>15, <1>16, <1>17, <1>20, <2>1 DEF OpenOnes
<1>22. QED
  BY <1>10, <1>15, <1>16, <1>17, <1>19, <1>20, <1>21 DEF Conversation, UpTo

----------------------------------------------------------------------------
\* A cancellation, or a step of another part, adds nothing.
LEMMA StillTheSame ==
  ASSUME Conversation, UNCHANGED <<phase, iteration, turn, spent, generated>>
  PROVE  Conversation'
<1>1. Shaped'  BY DEF Conversation, Shaped
<1>2. Returned' = Returned  BY DEF Returned
<1>3. OpenOnes'  BY <1>2 DEF Conversation, OpenOnes
<1>4. phase \in Working => EndsWith(generated, iteration, turn.calls, Returned)'
  BY <1>2 DEF Conversation, EndsWith
<1>5. \A p \in DOMAIN generated' :
        /\ FollowsIn(generated, p)'
        /\ generated'[p].turn <= iteration'
        /\ phase' = "requesting" => generated'[p].turn < iteration'
  BY DEF Conversation, FollowsIn
<1>6. QED  BY <1>1, <1>3, <1>4, <1>5 DEF Conversation

\* A leg that ends keeps what it has added.
LEMMA HaltEnds ==
  ASSUME Conversation, NEW end \in Ended, Halts(end)
  PROVE  Conversation'
BY LegEnds DEF Halts

\* Steps of a request that bring no words.
LEMMA RequestsConverse ==
  ASSUME Conversation, BeginTurn \/ RequestFails \/ RequestIsCancelled \/ EmptyReply
  PROVE  Conversation'
<1>1. DOMAIN turn = TurnFields /\ DOMAIN spent = SpentFields  BY DEF Conversation, Shaped
<1>2. CASE \E end \in Ended : Halts(end)  BY <1>2, HaltEnds
<1>3. CASE phase = "checking" /\ ~\E end \in Ended : Halts(end)
  <2>1. /\ phase' = "requesting" /\ iteration' = iteration + 1 /\ turn' = NewTurn
        /\ UNCHANGED <<spent, generated>>
    BY <1>3 DEF BeginTurn, RequestFails, RequestIsCancelled, EmptyReply, Ended
  <2>2. QED  BY <1>3, <2>1, TurnBegins
<1>4. CASE RetryRequest /\ phase = "requesting"
  <2>1. turn' = [turn EXCEPT !.retries = @ + 1] /\ UNCHANGED <<phase, iteration, spent, generated>>
    BY <1>4 DEF RetryRequest
  <2>2. DOMAIN turn' = TurnFields /\ turn'.calls = turn.calls /\ turn'.next = turn.next
    BY <1>1, <2>1
  <2>3. QED  BY <1>1, <1>4, <2>1, <2>2, NothingIsAdded
<1>5. CASE EmptyReply
  <2>1. /\ phase = "requesting" /\ phase' \in {"checking", "failed"}
        /\ spent' = [spent EXCEPT !.empty = @ + 1] /\ UNCHANGED <<iteration, turn, generated>>
    BY <1>5 DEF EmptyReply
  <2>2. DOMAIN spent' = SpentFields /\ spent'.reminded = spent.reminded  BY <1>1, <2>1
  <2>3. QED  BY <1>1, <2>1, <2>2, NothingIsAdded
<1>6. QED
  BY <1>2, <1>3, <1>4, <1>5 DEF BeginTurn, RequestFails, RequestIsCancelled, Ended

\* The model replies.
LEMMA RepliesConverse ==
  ASSUME AgentLoopAssumption, Conversation, NEW finish, NEW calls \in Batches \cup {<<>>},
         NEW cost, Reply(finish, calls, cost)
  PROVE  Conversation'
<1>1. calls \in Seq(Call)
  <2>1. CASE calls \in Batches  BY <2>1 DEF AgentLoopAssumption
  <2>2. CASE calls = <<>>  BY <2>2
  <2>3. QED  BY <2>1, <2>2
<1>2. DOMAIN turn = TurnFields /\ DOMAIN spent = SpentFields  BY DEF Conversation, Shaped
<1>3. /\ phase = "requesting" /\ phase' \in {"answered", "failed"} /\ iteration' = iteration
      /\ turn' = [turn EXCEPT !.finish = finish, !.calls = calls]
      /\ spent' = [spent EXCEPT !.empty = 0, !.tokens = spent.tokens + cost]
      /\ generated' = Append(generated, Assistant(calls))
  BY DEF Reply
<1>4. DOMAIN turn' = TurnFields /\ turn'.calls = calls /\ turn'.next = turn.next
  BY <1>2, <1>3
<1>5. DOMAIN spent' = SpentFields /\ spent'.reminded = spent.reminded  BY <1>2, <1>3
<1>6. QED  BY <1>1, <1>3, <1>4, <1>5, WordsAreAdded

\* The model stops, is cut off, or a question ends the leg.
LEMMA StopsConverse ==
  ASSUME Conversation, Stop \/ CutOff \/ PauseForDecision
  PROVE  Conversation'
<1>1. CASE \E end \in Ended : Halts(end)  BY <1>1, HaltEnds
<1>2. CASE ~\E end \in Ended : Halts(end)
  <2>1. /\ phase = "answered" /\ ~spent.reminded /\ phase' = "checking"
        /\ spent' = [spent EXCEPT !.reminded = TRUE]
        /\ UNCHANGED <<iteration, turn, generated>>
    BY <1>2 DEF Stop, CutOff, PauseForDecision, Ended
  <2>2. DOMAIN spent' = SpentFields /\ spent'.reminded
    BY <2>1 DEF Conversation, Shaped
  <2>3. QED  BY <2>1, <2>2, ModelStops
<1>3. QED  BY <1>1, <1>2

\* The calls of a turn begin, or one of those side by side comes back.
LEMMA BatchesConverse ==
  ASSUME Conversation, BeginCalls \/ \E i \in 1 .. Len(turn.calls) : ReadReturns(i)
  PROVE  Conversation'
<1>1. /\ DOMAIN turn = TurnFields /\ DOMAIN spent = SpentFields
      /\ phase \in {"answered", "parallel"} => turn.next = 1
  BY DEF Conversation, Shaped
<1>2. CASE \E end \in Ended : Halts(end)  BY <1>2, HaltEnds
<1>3. CASE BeginCalls /\ ~\E end \in Ended : Halts(end)
  <2>1. /\ phase = "answered" /\ phase' \in {"parallel", "calling"}
        /\ spent' = spent \/ spent' = [spent EXCEPT !.tools = @ + Len(turn.calls)]
        /\ UNCHANGED <<iteration, turn, generated>>
    BY <1>3 DEF BeginCalls, Ended
  <2>2. DOMAIN spent' = SpentFields /\ spent'.reminded = spent.reminded  BY <1>1, <2>1
  <2>3. QED  BY <1>1, <2>1, <2>2, CallsGoOn DEF Working
<1>4. CASE \E i \in 1 .. Len(turn.calls) : ReadReturns(i)
  <2>1. PICK i \in 1 .. Len(turn.calls) : ReadReturns(i)  BY <1>4
  <2>2. /\ phase = "parallel" /\ phase' = phase /\ turn' = [turn EXCEPT !.ready = Append(@, i)]
        /\ UNCHANGED <<iteration, spent, generated>>
    BY <2>1 DEF ReadReturns
  <2>3. DOMAIN turn' = TurnFields /\ turn'.calls = turn.calls /\ turn'.next = turn.next
    BY <1>1, <2>2
  <2>4. QED  BY <1>1, <2>2, <2>3, CallsGoOn DEF Working
<1>5. QED  BY <1>2, <1>3, <1>4

\* The results of calls side by side are saved, in the order of the calls.
LEMMA ReadsConverse ==
  ASSUME Conversation, CollectReads
  PROVE  Conversation'
<1>1. PICK s : s = InOrderOfCalls  OBVIOUS
<1>2. /\ turn.calls \in Seq(Call) /\ iteration \in Nat
      /\ DOMAIN turn = TurnFields /\ DOMAIN spent = SpentFields
  BY DEF Conversation, Shaped
<1>3. \A i \in 1 .. Len(turn.calls) : Result(i) \in Message
  BY <1>2 DEF Result, Message
<1>4. s \in Seq(Message) /\ Len(s) = Len(turn.calls)
      /\ \A i \in 1 .. Len(s) : s[i] = Result(i)
  <2>1. s = [i \in 1 .. Len(turn.calls) |-> Result(i)]  BY <1>1, <1>2 DEF InOrderOfCalls
  <2>2. Len(turn.calls) \in Nat  BY <1>2
  <2>3. QED  BY <1>3, <2>1, <2>2
<1>5. /\ phase = "parallel" /\ phase' \in {"checking"} \cup Ended /\ phase' # "calling"
      /\ generated' = generated \o s /\ UNCHANGED <<iteration, turn, spent>>
  BY <1>1 DEF CollectReads, Saves, AfterCalls, Ended
<1>6. Returned = 0 /\ phase \in Working  BY <1>5 DEF Returned, Working
<1>7. /\ Returned + Len(s) = Len(turn.calls) /\ Returned + Len(s) <= Len(turn.calls)
      /\ \A i \in 1 .. Len(s) : s[i] = Result(Returned + i)
  BY <1>2, <1>4, <1>6
<1>8. QED  BY <1>2, <1>4, <1>5, <1>6, <1>7, ResultsAreAdded

\* The next call begins, or all the calls of the turn have returned.
LEMMA CallsConverse ==
  ASSUME Conversation, BeginCall
  PROVE  Conversation'
<1>1. /\ turn.calls \in Seq(Call) /\ generated \in Seq(Message) /\ turn.next \in Nat \ {0}
      /\ DOMAIN turn = TurnFields /\ DOMAIN spent = SpentFields
  BY DEF Conversation, Shaped
<1>2. phase = "calling" /\ phase \in Working  BY DEF BeginCall, Working
<1>3. CASE turn.next > Len(turn.calls) /\ Halts(AfterCalls)
  <2>1. EndsWith(generated, iteration, turn.calls, Returned)  BY <1>2 DEF Conversation
  <2>2. Returned = turn.next - 1 /\ Returned \in 0 .. Len(turn.calls)
    BY <1>2, <2>1 DEF EndsWith, Returned
  <2>3. Returned = Len(turn.calls)  BY <1>1, <1>3, <2>2
  <2>4. OpenIn(generated) \subseteq {p \in OpenIn(generated) : p < Len(generated) - Returned}
    BY <1>1, <2>1, <2>3, AllReturned
  <2>5. Pardoned({p \in OpenIn(generated) : p < Len(generated) - Returned}, spent.reminded)
    BY <1>2 DEF Conversation, OpenOnes
  <2>6. Pardoned(OpenIn(generated), spent.reminded)  BY <2>4, <2>5, StillPardoned
  <2>7. phase' \in {"checking", "failed"} /\ UNCHANGED <<iteration, turn, spent, generated>>
    BY <1>3 DEF Halts, AfterCalls
  <2>8. Shaped'  BY <2>7 DEF Conversation, Shaped
  <2>9. OpenOnes'  BY <2>6, <2>7 DEF Conversation, OpenOnes, Working
  <2>10. \A p \in DOMAIN generated' : FollowsIn(generated, p)' /\ generated'[p].turn <= iteration'
    BY <2>7 DEF Conversation, FollowsIn
  <2>11. QED  BY <2>7, <2>8, <2>9, <2>10 DEF Conversation, Working
<1>4. CASE \E end \in Ended : Halts(end)  BY <1>4, HaltEnds
<1>5. CASE /\ turn.next <= Len(turn.calls) /\ phase' = "executing"
           /\ spent' = [spent EXCEPT !.tools = @ + 1] /\ UNCHANGED <<iteration, turn, generated>>
  <2>1. DOMAIN spent' = SpentFields /\ spent'.reminded = spent.reminded  BY <1>1, <1>5
  <2>2. QED  BY <1>1, <1>2, <1>5, <2>1, CallsGoOn
<1>6. QED  BY <1>3, <1>4, <1>5 DEF BeginCall, Ended

\* One call returns.
LEMMA ReturnsConverse ==
  ASSUME Conversation, phase = "executing", Returns, iteration' = iteration,
         DOMAIN spent' = SpentFields, spent'.reminded = spent.reminded
  PROVE  Conversation'
<1>1. /\ turn.calls \in Seq(Call) /\ turn.next \in Nat \ {0} /\ iteration \in Nat
      /\ DOMAIN turn = TurnFields /\ turn.next <= Len(turn.calls)
  BY DEF Conversation, Shaped
<1>2. PICK m : m = Result(turn.next)  OBVIOUS
<1>3. m \in Message  BY <1>1, <1>2 DEF Result, Message
<1>4. PICK s \in Seq(Message) : s = <<m>>
  <2>1. <<m>> \in Seq(Message)  BY <1>3
  <2>2. QED  BY <2>1
<1>5. Len(s) = 1 /\ s[1] = m  BY <1>4
<1>6. /\ phase' = "calling" /\ turn' = [turn EXCEPT !.next = @ + 1]
      /\ generated' = generated \o s
  BY <1>2, <1>4 DEF Returns, Saves
<1>7. DOMAIN turn' = TurnFields /\ turn'.calls = turn.calls /\ turn'.next = turn.next + 1
  BY <1>1, <1>6
<1>8. Returned = turn.next - 1 /\ phase \in Working  BY DEF Returned, Working
<1>9. /\ Returned + Len(s) <= Len(turn.calls) /\ turn'.next = Returned + Len(s) + 1
      /\ Returned + 1 = turn.next
  <2>1. Len(turn.calls) \in Nat  BY <1>1
  <2>2. QED  BY <1>1, <1>5, <1>7, <1>8, <2>1
<1>10. \A i \in 1 .. Len(s) : s[i] = Result(Returned + i)
  <2>1. \A i \in 1 .. Len(s) : i = 1  BY <1>5
  <2>2. s[1] = Result(Returned + 1)  BY <1>2, <1>5, <1>9
  <2>3. QED  BY <2>1, <2>2
<1>11. QED  BY <1>6, <1>7, <1>8, <1>9, <1>10, ResultsAreAdded

\* A tool or a delegation returns.
LEMMA ResultsConverse ==
  ASSUME Conversation, CallReturns \/ \E n \in 1 .. MaxTasks : Delegate(n)
  PROVE  Conversation'
<1>1. DOMAIN spent = SpentFields  BY DEF Conversation, Shaped
<1>2. phase = "executing" /\ Returns /\ iteration' = iteration
  BY DEF CallReturns, Delegate, At
<1>3. spent' = spent \/ \E cost : spent' = [spent EXCEPT !.tokens = @ + cost]
  BY DEF CallReturns, Delegate
<1>4. DOMAIN spent' = SpentFields /\ spent'.reminded = spent.reminded  BY <1>1, <1>3
<1>5. QED  BY <1>2, <1>4, ReturnsConverse

\* A leg begins with nothing to answer.
LEMMA ConversationBegins == Init => Conversation
<1> SUFFICES ASSUME Init PROVE Conversation  OBVIOUS
<1>1. Shaped
  <2>1. DOMAIN NewTurn = TurnFields /\ NewTurn.calls = <<>> /\ NewTurn.next = 1
    BY DEF NewTurn
  <2>2. <<>> \in Seq(Call) /\ <<>> \in Seq(Message)  OBVIOUS
  <2>3. DOMAIN spent = SpentFields  BY DEF Init
  <2>4. QED  BY <2>1, <2>2, <2>3 DEF Init, Shaped
<1>2. DOMAIN generated = {} /\ OpenIn(generated) = {}  BY DEF Init, OpenIn
<1>3. spent.reminded = FALSE  BY DEF Init
<1>4. QED  BY <1>1, <1>2, <1>3 DEF Init, Conversation, OpenOnes, Pardoned, Working

\* Every step of the loop leaves a conversation behind.
LEMMA ConversationGoesOn ==
  AgentLoopAssumption /\ Conversation /\ [Next]_vars => Conversation'
<1> SUFFICES ASSUME AgentLoopAssumption, Conversation, [Next]_vars PROVE Conversation'
  OBVIOUS
<1>1. CASE BeginTurn \/ RequestFails \/ RequestIsCancelled \/ EmptyReply
  BY <1>1, RequestsConverse
<1>2. CASE \E finish \in {"stop", "length", "tool_calls"}, calls \in Batches \cup {<<>>},
              cost \in 0 .. TurnCost : Reply(finish, calls, cost)
  BY <1>2, RepliesConverse
<1>3. CASE Stop \/ CutOff \/ PauseForDecision  BY <1>3, StopsConverse
<1>4. CASE BeginCalls \/ \E i \in 1 .. Len(turn.calls) : ReadReturns(i)
  BY <1>4, BatchesConverse
<1>5. CASE CollectReads  BY <1>5, ReadsConverse
<1>6. CASE BeginCall  BY <1>6, CallsConverse
<1>7. CASE CallReturns \/ \E n \in 1 .. MaxTasks : Delegate(n)  BY <1>7, ResultsConverse
<1>8. CASE Cancel \/ UNCHANGED vars  BY <1>8, StillTheSame DEF Cancel, vars
<1>9. QED  BY <1>1, <1>2, <1>3, <1>4, <1>5, <1>6, <1>7, <1>8 DEF Next, LoopStep

\* A set no two of whose members differ has at most one.
LEMMA AtMostOne ==
  ASSUME NEW S, \A p, q \in S : p = q
  PROVE  Cardinality(S) <= 1
<1>1. CASE S = {}  BY <1>1, FS_EmptySet
<1>2. CASE S # {}
  <2>1. PICK p : S = {p}  BY <1>2
  <2>2. Cardinality({p}) = 1  BY FS_Singleton
  <2>3. QED  BY <2>1, <2>2
<1>3. QED  BY <1>1, <1>2

\* What is known of a conversation is what TurnsAreAnswered asks.
LEMMA ConversationIsAnswered == Conversation => TurnsAreAnswered
<1> SUFFICES ASSUME Conversation PROVE TurnsAreAnswered  OBVIOUS
<1>1. \A p \in DOMAIN generated : FollowsIn(generated, p)  BY DEF Conversation
<1>2. PICK open : open = {p \in DOMAIN generated : /\ IsWords(generated[p]) /\ ~Answered(p)
                                                   /\ generated[p].turn < iteration}
  OBVIOUS
<1>3. open = {p \in OpenIn(generated) : generated[p].turn < iteration}
  BY <1>2 DEF OpenIn, Answered, AnsweredIn
<1>4. Pardoned(open, spent.reminded)  BY <1>3 DEF Conversation, OpenOnes
<1>5. Cardinality(open) <= IF spent.reminded THEN 1 ELSE 0
  BY <1>4, AtMostOne, FS_EmptySet DEF Pardoned
<1>6. QED  BY <1>1, <1>2, <1>5 DEF TurnsAreAnswered, FollowsIn

\* What a leg leaves in the session is a conversation, whichever of its calls
\* run side by side and wherever it ends: the results of a turn stand behind it
\* in the order of its calls, and no turn but the last is without them, or the
\* one that called tools, stopped, and was reminded.
THEOREM LegIsAnswered == AgentLoopAssumption => (Spec => []TurnsAreAnswered)
<1> SUFFICES ASSUME AgentLoopAssumption PROVE Spec => []TurnsAreAnswered  OBVIOUS
<1>1. Init => Conversation  BY ConversationBegins
<1>2. Conversation /\ [Next]_vars => Conversation'  BY ConversationGoesOn
<1>3. Conversation => TurnsAreAnswered  BY ConversationIsAnswered
<1>4. QED  BY <1>1, <1>2, <1>3, PTL DEF Spec

----------------------------------------------------------------------------
(* The types of what a leg holds                                           *)

\* Words and results are messages.
LEMMA MessagesTyped ==
  ASSUME AgentLoopAssumption, TypeOK
  PROVE  /\ \A role \in {"user", "summary"} : Text(role) \in Message
         /\ \A calls \in Seq(Call) : Assistant(calls) \in Message
         /\ \A i \in Nat : Result(i) \in Message
<1>1. iteration \in Nat  BY DEF TypeOK, AgentLoopAssumption
<1>2. \A calls \in Seq(Call) : Len(calls) \in Nat  OBVIOUS
<1>3. QED  BY <1>1, <1>2 DEF Text, Assistant, Result, Message

\* A conversation that is cut in the middle is one.
LEMMA CompressedTyped ==
  ASSUME AgentLoopAssumption, NEW s \in Seq(Message)
  PROVE  Compressed(s) \in Seq(Message)
<1>1. Len(s) \in Nat /\ ProtectFirst \in Nat /\ ProtectLast \in Nat
  BY DEF AgentLoopAssumption
<1>2. PICK front \in 0 .. Len(s) : front = IF Len(s) < ProtectFirst THEN Len(s) ELSE ProtectFirst
  <2>1. (IF Len(s) < ProtectFirst THEN Len(s) ELSE ProtectFirst) \in 0 .. Len(s)  BY <1>1
  <2>2. QED  BY <2>1
<1>3. PICK back \in 0 .. Len(s) : back = IF Len(s) < ProtectLast THEN 0 ELSE Len(s) - ProtectLast
  <2>1. (IF Len(s) < ProtectLast THEN 0 ELSE Len(s) - ProtectLast) \in 0 .. Len(s)  BY <1>1
  <2>2. QED  BY <2>1
<1>4. SubSeq(s, 1, front) \in Seq(Message)  BY <1>1, <1>2
<1>5. SubSeq(s, back + 1, Len(s)) \in Seq(Message)  BY <1>1, <1>3
<1>6. <<Text("summary")>> \in Seq(Message)
  <2>1. Text("summary") \in Message  BY DEF Text, Message
  <2>2. QED  BY <2>1
<1>7. SubSeq(s, 1, front) \o <<Text("summary")>> \o SubSeq(s, back + 1, Len(s)) \in Seq(Message)
  BY <1>4, <1>5, <1>6
<1>8. Compressed(s) = IF front >= back THEN s
        ELSE SubSeq(s, 1, front) \o <<Text("summary")>> \o SubSeq(s, back + 1, Len(s))
  BY <1>2, <1>3 DEF Compressed
<1>9. QED  BY <1>7, <1>8

\* The fields of a turn and of what is spent.
LEMMA TurnChanges ==
  ASSUME NEW t \in Turn
  PROVE  /\ \A n \in 0 .. MaxFastRetries : [t EXCEPT !.retries = n] \in Turn
         /\ \A finish \in {"stop", "length", "tool_calls"}, calls \in Seq(Call) :
              [t EXCEPT !.finish = finish, !.calls = calls] \in Turn
         /\ \A n \in Nat : [t EXCEPT !.next = n] \in Turn
         /\ \A r \in Seq(Nat) : [t EXCEPT !.ready = r] \in Turn
BY DEF Turn

LEMMA SpentChanges ==
  ASSUME NEW t \in Spent
  PROVE  /\ \A n \in Nat : /\ [t EXCEPT !.tools = n] \in Spent
                           /\ [t EXCEPT !.tokens = n] \in Spent
                           /\ [t EXCEPT !.empty = n] \in Spent
                           /\ [t EXCEPT !.empty = 0, !.tokens = n] \in Spent
         /\ [t EXCEPT !.reminded = TRUE] \in Spent
BY DEF Spent

\* What is saved is added to both conversations.
LEMMA SavesTyped ==
  ASSUME TypeOK, NEW s \in Seq(Message), Saves(s)
  PROVE  messages' \in Seq(Message) /\ generated' \in Seq(Message)
<1>1. messages \in Seq(Message) /\ generated \in Seq(Message)  BY DEF TypeOK
<1>2. messages \o s \in Seq(Message) /\ generated \o s \in Seq(Message)  BY <1>1
<1>3. QED  BY <1>2 DEF Saves

\* The loop waits, goes on or ends.
LEMMA HaltTyped ==
  ASSUME TypeOK, NEW end \in {"checking"} \cup Ended, Halts(end) PROVE TypeOK'
BY DEF Halts, TypeOK

Phases == {"checking", "requesting", "answered", "parallel", "calling", "executing"} \cup Ended

\* A step that only counts and goes on.
LEMMA CountsTyped ==
  ASSUME TypeOK, phase' \in Phases, iteration' \in 0 .. MaxIterations, turn' \in Turn,
         spent' \in Spent, messages' \in Seq(Message), generated' \in Seq(Message),
         cancelled' = cancelled
  PROVE  TypeOK'
BY DEF TypeOK, Phases

\* A request, whether it is made, fails or brings nothing.
LEMMA RequestTyped ==
  ASSUME AgentLoopAssumption, TypeOK,
         BeginTurn \/ RequestFails \/ RequestIsCancelled \/ EmptyReply
  PROVE  TypeOK'
<1>1. CASE \E end \in {"checking"} \cup Ended : Halts(end)  BY <1>1, HaltTyped
<1>2. CASE BeginTurn /\ ~\E end \in {"checking"} \cup Ended : Halts(end)
  <2>1. /\ iteration < MaxIterations /\ phase' = "requesting" /\ iteration' = iteration + 1
        /\ turn' = NewTurn /\ UNCHANGED <<spent, messages, generated, cancelled>>
    BY <1>2 DEF BeginTurn, Ended
  <2>2. NewTurn \in Turn
    <3>1. <<>> \in Seq(Call) /\ <<>> \in Seq(Nat) /\ 0 \in 0 .. MaxFastRetries
      BY DEF AgentLoopAssumption
    <3>2. QED  BY <3>1 DEF NewTurn, Turn
  <2>3. iteration + 1 \in 0 .. MaxIterations  BY <2>1 DEF TypeOK, AgentLoopAssumption
  <2>4. QED  BY <2>1, <2>2, <2>3 DEF TypeOK
<1>3. CASE RetryRequest
  <2>1. PICK n \in 0 .. MaxFastRetries : n = turn.retries + 1
    BY <1>3 DEF RetryRequest, TypeOK, Turn, AgentLoopAssumption
  <2>2. turn' = [turn EXCEPT !.retries = n]  BY <1>3, <2>1 DEF RetryRequest
  <2>3. turn' \in Turn  BY <2>2, TurnChanges DEF TypeOK
  <2>4. QED  BY <1>3, <2>3 DEF RetryRequest, TypeOK
<1>4. CASE EmptyReply
  <2>1. PICK n \in Nat : n = spent.empty + 1  BY DEF TypeOK, Spent
  <2>2. spent' = [spent EXCEPT !.empty = n]  BY <1>4, <2>1 DEF EmptyReply
  <2>3. spent' \in Spent  BY <2>2, SpentChanges DEF TypeOK
  <2>4. QED  BY <1>4, <2>3 DEF EmptyReply, TypeOK, Ended
<1>5. QED  BY <1>1, <1>2, <1>3, <1>4 DEF RequestFails, RequestIsCancelled, Ended

\* The model's words.
LEMMA ReplyTyped ==
  ASSUME AgentLoopAssumption, TypeOK, NEW finish \in {"stop", "length", "tool_calls"},
         NEW calls \in Batches \cup {<<>>}, NEW cost \in 0 .. TurnCost, Reply(finish, calls, cost)
  PROVE  TypeOK'
<1>1. calls \in Seq(Call)
  <2>1. CASE calls \in Batches  BY <2>1 DEF AgentLoopAssumption
  <2>2. CASE calls = <<>>  BY <2>2
  <2>3. QED  BY <2>1, <2>2
<1>2. PICK m \in Message : m = Assistant(calls)  BY <1>1, MessagesTyped
<1>3. PICK longer : longer = Append(messages, m)  OBVIOUS
<1>4. longer \in Seq(Message) /\ Append(generated, m) \in Seq(Message)  BY <1>3 DEF TypeOK
<1>5. Compressed(longer) \in Seq(Message)  BY <1>4, CompressedTyped
<1>6. messages' \in Seq(Message) /\ generated' \in Seq(Message)
  BY <1>2, <1>3, <1>4, <1>5 DEF Reply
<1>7. PICK n \in Nat : n = spent.tokens + cost
  BY DEF TypeOK, Spent, AgentLoopAssumption
<1>8. spent' = [spent EXCEPT !.empty = 0, !.tokens = n]  BY <1>7 DEF Reply
<1>9. spent' \in Spent  BY <1>8, SpentChanges DEF TypeOK
<1>10. turn' \in Turn  BY <1>1, TurnChanges DEF Reply, TypeOK
<1>11. phase' \in {"failed", "answered"} /\ UNCHANGED <<iteration, cancelled>>  BY DEF Reply
<1>12. iteration' \in 0 .. MaxIterations /\ phase' \in Phases  BY <1>11 DEF TypeOK, Phases, Ended
<1>13. QED  BY <1>6, <1>9, <1>10, <1>11, <1>12, CountsTyped

\* What a turn asks for: the end, or calls that begin, one or all of them.
LEMMA TurnTyped ==
  ASSUME AgentLoopAssumption, TypeOK, Stop \/ CutOff \/ BeginCalls \/ BeginCall \/ PauseForDecision
  PROVE  TypeOK'
<1>1. CASE \E end \in {"checking"} \cup Ended : Halts(end)  BY <1>1, HaltTyped
<1>2. CASE Stop /\ ~\E end \in {"checking"} \cup Ended : Halts(end)
  <2>1. /\ phase' = "checking" /\ spent' = [spent EXCEPT !.reminded = TRUE]
        /\ messages' = Append(messages, Text("user"))
        /\ UNCHANGED <<iteration, turn, generated, cancelled>>
    BY <1>2 DEF Stop, Ended
  <2>2. spent' \in Spent  BY <2>1, SpentChanges DEF TypeOK
  <2>3. PICK m \in Message : m = Text("user")  BY MessagesTyped
  <2>4. messages' \in Seq(Message)  BY <2>1, <2>3 DEF TypeOK
  <2>5. QED  BY <2>1, <2>2, <2>4 DEF TypeOK
<1>3. CASE (BeginCalls \/ BeginCall) /\ ~\E end \in {"checking"} \cup Ended : Halts(end)
  <2>1. Len(turn.calls) \in Nat /\ spent.tools \in Nat  BY DEF TypeOK, Turn, Spent
  <2>2. /\ phase' \in {"parallel", "calling", "executing"}
        /\ UNCHANGED <<iteration, turn, messages, generated, cancelled>>
        /\ \/ spent' = spent \/ spent' = [spent EXCEPT !.tools = spent.tools + Len(turn.calls)]
           \/ spent' = [spent EXCEPT !.tools = spent.tools + 1]
    BY <1>3 DEF BeginCalls, BeginCall, AfterCalls, Ended
  <2>3. spent.tools + Len(turn.calls) \in Nat /\ spent.tools + 1 \in Nat  BY <2>1
  <2>4. spent' \in Spent  BY <2>2, <2>3, SpentChanges DEF TypeOK
  <2>5. QED  BY <2>2, <2>4 DEF TypeOK
<1>4. QED  BY <1>1, <1>2, <1>3 DEF CutOff, PauseForDecision, Ended

\* Calls side by side.
LEMMA ReadsTyped ==
  ASSUME AgentLoopAssumption, TypeOK, CollectReads \/ \E i \in 1 .. Len(turn.calls) : ReadReturns(i)
  PROVE  TypeOK'
<1>1. turn.calls \in Seq(Call) /\ turn.ready \in Seq(Nat)  BY DEF TypeOK, Turn
<1>2. CASE CollectReads
  <2>1. PICK s : s = InOrderOfCalls  OBVIOUS
  <2>2. s \in Seq(Message)
    <3>1. Len(turn.calls) \in Nat  BY <1>1
    <3>2. \A i \in 1 .. Len(turn.calls) : Result(i) \in Message  BY <3>1, MessagesTyped
    <3>3. s = [i \in 1 .. Len(turn.calls) |-> Result(i)]  BY <1>1, <2>1 DEF InOrderOfCalls
    <3>4. QED  BY <3>1, <3>2, <3>3
  <2>3. Saves(s) /\ phase' \in {"checking"} \cup Ended /\ UNCHANGED <<iteration, turn, spent, cancelled>>
    BY <1>2, <2>1 DEF CollectReads, AfterCalls, Ended
  <2>4. messages' \in Seq(Message) /\ generated' \in Seq(Message)  BY <2>2, <2>3, SavesTyped
  <2>5. QED  BY <2>3, <2>4 DEF TypeOK
<1>3. CASE \E i \in 1 .. Len(turn.calls) : ReadReturns(i)
  <2>1. PICK i \in 1 .. Len(turn.calls) : ReadReturns(i)  BY <1>3
  <2>2. PICK r \in Seq(Nat) : r = Append(turn.ready, i)
    <3>1. Append(turn.ready, i) \in Seq(Nat)  BY <1>1
    <3>2. QED  BY <3>1
  <2>3. turn' = [turn EXCEPT !.ready = r]  BY <2>1, <2>2 DEF ReadReturns
  <2>4. turn' \in Turn  BY <2>3, TurnChanges DEF TypeOK
  <2>5. QED  BY <2>1, <2>4 DEF ReadReturns, TypeOK
<1>4. QED  BY <1>2, <1>3

\* Calls one after the other.
LEMMA ReturnsTyped ==
  ASSUME AgentLoopAssumption, TypeOK, CallReturns \/ \E n \in 1 .. MaxTasks : Delegate(n)
  PROVE  TypeOK'
<1>1. PICK next \in Nat : next = turn.next  BY DEF TypeOK, Turn
<1>2. PICK m \in Message : m = Result(next)  BY MessagesTyped
<1>3. PICK s \in Seq(Message) : s = <<m>>
  <2>1. <<m>> \in Seq(Message)  OBVIOUS
  <2>2. QED  BY <2>1
<1>4. /\ Saves(s) /\ phase' = "calling" /\ turn' = [turn EXCEPT !.next = next + 1]
      /\ UNCHANGED <<iteration, cancelled>>
  BY <1>1, <1>2, <1>3 DEF CallReturns, Delegate, Returns
<1>5. messages' \in Seq(Message) /\ generated' \in Seq(Message)  BY <1>4, SavesTyped
<1>6. turn' \in Turn
  <2>1. PICK n \in Nat : n = next + 1  OBVIOUS
  <2>2. turn' = [turn EXCEPT !.next = n]  BY <1>4, <2>1
  <2>3. QED  BY <2>2, TurnChanges DEF TypeOK
<1>7. spent' \in Spent
  <2>1. CASE spent' = spent  BY <2>1 DEF TypeOK
  <2>2. CASE \E n \in 1 .. MaxTasks : Delegate(n)
    <3>1. PICK n \in 1 .. MaxTasks : Delegate(n)  BY <2>2
    <3>2. PICK cost \in 0 .. Pool + Least(n, Pool) * (TurnCost - 1) :
            spent' = [spent EXCEPT !.tokens = spent.tokens + cost]
      BY <3>1 DEF Delegate
    <3>3. cost \in Nat /\ spent.tokens \in Nat  BY <3>2 DEF TypeOK, Spent
    <3>4. PICK k \in Nat : k = spent.tokens + cost  BY <3>3
    <3>5. QED  BY <3>2, <3>4, SpentChanges DEF TypeOK
  <2>3. QED  BY <2>1, <2>2 DEF CallReturns
<1>8. iteration' \in 0 .. MaxIterations /\ phase' \in Phases  BY <1>4 DEF TypeOK, Phases
<1>9. QED  BY <1>4, <1>5, <1>6, <1>7, <1>8, CountsTyped

\* The state of the loop has its type, however long conversations grow.
THEOREM LegIsTyped == AgentLoopAssumption => (Spec => []TypeOK)
<1> SUFFICES ASSUME AgentLoopAssumption PROVE Spec => []TypeOK  OBVIOUS
<1>1. Init => TypeOK
  <2> SUFFICES ASSUME Init PROVE TypeOK  OBVIOUS
  <2>1. turn \in Turn
    <3>1. <<>> \in Seq(Call) /\ <<>> \in Seq(Nat) /\ 0 \in 0 .. MaxFastRetries
      BY DEF AgentLoopAssumption
    <3>2. QED  BY <3>1 DEF Init, NewTurn, Turn
  <2>2. spent \in Spent  BY DEF Init, Spent
  <2>3. messages \in Seq(Message) /\ generated \in Seq(Message)
    <3>1. PICK m \in Message : m = Text("user")  BY DEF Text, Message
    <3>2. <<m>> \in Seq(Message) /\ <<>> \in Seq(Message)  OBVIOUS
    <3>3. QED  BY <3>1, <3>2 DEF Init
  <2>4. phase = "checking" /\ iteration \in 0 .. MaxIterations /\ cancelled \in BOOLEAN
    <3>1. iteration = 0 /\ MaxIterations \in Nat  BY DEF Init, AgentLoopAssumption
    <3>2. iteration \in 0 .. MaxIterations  BY <3>1
    <3>3. phase = "checking" /\ cancelled \in BOOLEAN  BY Zenon DEF Init
    <3>4. QED  BY <3>2, <3>3
  <2>5. QED  BY <2>1, <2>2, <2>3, <2>4 DEF TypeOK
<1>2. TypeOK /\ [Next]_vars => TypeOK'
  <2> SUFFICES ASSUME TypeOK, [Next]_vars PROVE TypeOK'  OBVIOUS
  <2>1. CASE BeginTurn \/ RequestFails \/ RequestIsCancelled \/ EmptyReply
    BY <2>1, RequestTyped
  <2>2. CASE \E finish \in {"stop", "length", "tool_calls"}, calls \in Batches \cup {<<>>},
                cost \in 0 .. TurnCost : Reply(finish, calls, cost)
    BY <2>2, ReplyTyped
  <2>3. CASE Stop \/ CutOff \/ BeginCalls \/ BeginCall \/ PauseForDecision  BY <2>3, TurnTyped
  <2>4. CASE CollectReads \/ \E i \in 1 .. Len(turn.calls) : ReadReturns(i)  BY <2>4, ReadsTyped
  <2>5. CASE CallReturns \/ \E n \in 1 .. MaxTasks : Delegate(n)  BY <2>5, ReturnsTyped
  <2>6. CASE Cancel \/ UNCHANGED vars  BY <2>6 DEF Cancel, vars, TypeOK
  <2>7. QED  BY <2>1, <2>2, <2>3, <2>4, <2>5, <2>6 DEF Next, LoopStep
<1>3. QED  BY <1>1, <1>2, PTL DEF Spec
=============================================================================
