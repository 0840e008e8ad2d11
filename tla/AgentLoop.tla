------------------------------ MODULE AgentLoop ------------------------------
(***************************************************************************)
(* The tool-calling loop of one leg of a run (agent/loop_engine.rs with    *)
(* budget.rs, dispatch.rs and turn_state.rs, and the compression of        *)
(* agent/context.rs).  It asks the model for a turn, runs the tool calls   *)
(* of the turn, side by side or one after the other, and goes on until the *)
(* model stops or a limit is reached.  All of its state is in memory; the  *)
(* model, the user's cancellation and the clock are its environment.       *)
(***************************************************************************)
EXTENDS Naturals, Sequences, FiniteSets

CONSTANTS
  MaxIterations,      \* LoopConfig.max_iterations (30), never above max_api_calls
  MaxEmptyResponses,  \* LoopConfig.max_empty_responses (2)
  MaxFastRetries,     \* PROVIDER_FAST_RETRY_DELAYS_SECS (6)
  ToolLimit,          \* maxToolCalls of the run
  TokenLimit,         \* maxTotalTokens of the run
  TurnCost,           \* the most tokens the provider charges for a turn
  Reserve,            \* tokens a delegation leaves to its parent (1000)
  MaxTasks,           \* tasks of a delegation (10)
  ProtectFirst,       \* messages that compression keeps at the front (3)
  ProtectLast,        \* ... and at the back (20)
  Batches             \* the tool calls a turn may ask for

\* What the loop can tell of a call: two reads of different resources, an
\* effect, a question to the user, or a delegation.
Call == {"read a", "read b", "write", "blocking", "deferred", "delegate"}

AgentLoopAssumption ==
  /\ MaxIterations \in Nat \ {0} /\ MaxEmptyResponses \in Nat /\ MaxFastRetries \in Nat
  /\ ToolLimit \in Nat /\ TokenLimit \in Nat /\ TurnCost \in Nat \ {0} /\ Reserve \in Nat
  /\ MaxTasks \in Nat \ {0} /\ ProtectFirst \in Nat /\ ProtectLast \in Nat \ {0}
  /\ Batches \subseteq Seq(Call)

VARIABLES
  phase,      \* where the loop is, or how the leg has ended
  iteration,  \* model turns begun
  turn,       \* the turn at hand
  spent,      \* what the leg has used up
  messages,   \* the conversation the model is sent
  generated,  \* what the leg adds to the session (generated_messages)
  cancelled   \* the run's cancellation token

vars == <<phase, iteration, turn, spent, messages, generated, cancelled>>

----------------------------------------------------------------------------
\* "silent": the stream of events ends without Done.
Ended == {"done", "failed", "unavailable", "paused", "cancelled", "silent"}

Turn == [ retries : 0 .. MaxFastRetries,               \* provider_retry_index
          finish  : {"none", "stop", "length", "tool_calls"},
          calls   : Seq(Call),
          next    : Nat,                               \* the sequential call at hand
          ready   : Seq(Nat) ]                         \* parallel calls that came back

Spent == [ empty : Nat, reminded : BOOLEAN,            \* empty_responses, completion_reminder_sent
           tools : Nat, tokens : Nat ]                 \* total_tool_calls, total_model_tokens

\* User texts and summaries have no turn.  The model's words know how many
\* calls they make, a result which call it answers.
Message == [role : {"user", "summary", "assistant", "tool"}, turn : Nat, call : Nat]

\* The state of the loop has its type.
TypeOK ==
  /\ phase \in {"checking", "requesting", "answered", "parallel", "calling", "executing"} \cup Ended
  /\ iteration \in 0 .. MaxIterations
  /\ turn \in Turn /\ spent \in Spent
  /\ messages \in Seq(Message) /\ generated \in Seq(Message)
  /\ cancelled \in BOOLEAN

NewTurn == [retries |-> 0, finish |-> "none", calls |-> <<>>, next |-> 1, ready |-> <<>>]

Text(role) == [role |-> role, turn |-> 0, call |-> 0]
Assistant(calls) == [role |-> "assistant", turn |-> iteration, call |-> Len(calls)]
Result(i) == [role |-> "tool", turn |-> iteration, call |-> i]

Init ==
  /\ phase = "checking" /\ iteration = 0 /\ turn = NewTurn
  /\ spent = [empty |-> 0, reminded |-> FALSE, tools |-> 0, tokens |-> 0]
  /\ messages = <<Text("user")>> /\ generated = <<>>
  /\ cancelled = FALSE

Saves(s) == messages' = messages \o s /\ generated' = generated \o s

\* The cancellation monitor of the worker; a cancelled token stays cancelled.
Cancel ==
  /\ phase \notin Ended /\ ~cancelled
  /\ cancelled' = TRUE
  /\ UNCHANGED <<phase, iteration, turn, spent, messages, generated>>

----------------------------------------------------------------------------
(* A model turn                                                            *)

Halts(end) ==
  /\ phase' = end
  /\ UNCHANGED <<iteration, turn, spent, messages, generated, cancelled>>

\* The checks before a turn.  The clock may have run out at any of them.
BeginTurn ==
  /\ phase = "checking"
  /\ \/ iteration = MaxIterations /\ Halts("silent")
     \/ iteration < MaxIterations /\ Halts("failed")
     \/ iteration < MaxIterations /\ spent.tokens < TokenLimit /\ cancelled /\ Halts("cancelled")
     \/ /\ iteration < MaxIterations /\ spent.tokens < TokenLimit /\ ~cancelled
        /\ phase' = "requesting" /\ iteration' = iteration + 1 /\ turn' = NewTurn
        /\ UNCHANGED <<spent, messages, generated, cancelled>>

\* Mutant: after the last delay the first is used again.
RetryCyclic ==
  /\ turn' = [turn EXCEPT !.retries = (@ + 1) % (MaxFastRetries + 1)]
  /\ UNCHANGED <<phase, iteration, spent, messages, generated, cancelled>>

\* The request, or the first item of its stream, fails with an error that is
\* worth a retry after a short delay.
RetryRequest ==
  /\ turn.retries < MaxFastRetries
  /\ turn' = [turn EXCEPT !.retries = @ + 1]
  /\ UNCHANGED <<phase, iteration, spent, messages, generated, cancelled>>

\* The retries are used up; or the error is not worth one, or it comes in the
\* middle of the answer, which is dropped.
RequestFails ==
  /\ phase = "requesting"
  /\ \/ RetryRequest
     \/ turn.retries = MaxFastRetries /\ Halts("unavailable")
     \/ Halts("failed")

RequestIsCancelled == phase = "requesting" /\ cancelled /\ Halts("cancelled")

EmptyReply == LET again == spent.empty < MaxEmptyResponses IN
  /\ phase = "requesting"
  /\ phase' = IF again THEN "checking" ELSE "failed"
  /\ spent' = [spent EXCEPT !.empty = @ + 1]
  /\ UNCHANGED <<iteration, turn, messages, generated, cancelled>>

\* replace_middle_with_summary: cut by position.
Compressed(s) == LET front == IF Len(s) < ProtectFirst THEN Len(s) ELSE ProtectFirst
                     back  == IF Len(s) < ProtectLast THEN 0 ELSE Len(s) - ProtectLast IN
  IF front >= back THEN s
  ELSE SubSeq(s, 1, front) \o <<Text("summary")>> \o SubSeq(s, back + 1, Len(s))

\* The turn is kept whatever becomes of it; a conversation that has grown too
\* long is compressed after a checkpoint, which may fail.
Reply(finish, calls, cost) ==
  LET tokens == spent.tokens + cost
      longer == Append(messages, Assistant(calls))
  IN
  /\ phase = "requesting"
  /\ turn' = [turn EXCEPT !.finish = finish, !.calls = calls]
  /\ spent' = [spent EXCEPT !.empty = 0, !.tokens = tokens]
  /\ generated' = Append(generated, Assistant(calls))
  /\ \/ tokens > TokenLimit /\ phase' = "failed" /\ messages' = longer
     \/ tokens <= TokenLimit /\ phase' = "answered" /\ messages' \in {longer, Compressed(longer)}
     \/ tokens <= TokenLimit /\ phase' = "failed" /\ messages' = longer
  /\ UNCHANGED <<iteration, cancelled>>

----------------------------------------------------------------------------
(* What a turn asks for                                                    *)

\* The model stops.  If items of the checklist are open it is reminded once.
Stop ==
  /\ phase = "answered" /\ turn.finish = "stop"
  /\ \/ Halts("done")
     \/ ~spent.reminded /\ Halts("failed")
     \/ /\ ~spent.reminded
        /\ phase' = "checking" /\ spent' = [spent EXCEPT !.reminded = TRUE]
        /\ messages' = Append(messages, Text("user"))
        /\ UNCHANGED <<iteration, turn, generated, cancelled>>

\* The answer was cut off by its length or a filter.
CutOff == phase = "answered" /\ turn.finish = "length" /\ Halts("done")

\* parallel_batch_eligible: reads only, of different resources.
Eligible(calls) ==
  /\ Len(calls) > 1
  /\ \A i \in DOMAIN calls : calls[i] \in {"read a", "read b"}
  /\ \A i, j \in DOMAIN calls : calls[i] = calls[j] => i = j

\* tool_batch_fits.
Fits(calls) == spent.tools + Len(calls) <= ToolLimit

BeginCalls == LET together == Fits(turn.calls) /\ Eligible(turn.calls) IN
  /\ phase = "answered" /\ turn.finish = "tool_calls"
  /\ IF turn.calls = <<>> THEN Halts("failed")
     ELSE /\ phase' = IF together THEN "parallel" ELSE "calling"
          /\ spent' = IF together THEN [spent EXCEPT !.tools = @ + Len(turn.calls)] ELSE spent
          /\ UNCHANGED <<iteration, turn, messages, generated, cancelled>>

----------------------------------------------------------------------------
(* Calls side by side                                                      *)

ReadReturns(i) ==
  /\ phase = "parallel" /\ i \in DOMAIN turn.calls
  /\ \A k \in DOMAIN turn.ready : turn.ready[k] # i
  /\ turn' = [turn EXCEPT !.ready = Append(@, i)]
  /\ UNCHANGED <<phase, iteration, spent, messages, generated, cancelled>>

\* Mutant: the results are kept as they come.
InOrderOfReturn == [i \in DOMAIN turn.calls |-> Result(turn.ready[i])]

\* ordered_results.
InOrderOfCalls == [i \in DOMAIN turn.calls |-> Result(i)]

AfterCalls == IF iteration = MaxIterations THEN "failed" ELSE "checking"

CollectReads ==
  /\ phase = "parallel" /\ Len(turn.ready) = Len(turn.calls)
  /\ Saves(InOrderOfCalls)
  /\ phase' = IF cancelled THEN "cancelled" ELSE AfterCalls
  /\ UNCHANGED <<iteration, turn, spent, cancelled>>

----------------------------------------------------------------------------
(* Calls one after the other                                               *)

BeginCall ==
  /\ phase = "calling"
  /\ \/ turn.next > Len(turn.calls) /\ Halts(AfterCalls)
     \/ turn.next <= Len(turn.calls) /\ cancelled /\ Halts("cancelled")
     \/ turn.next <= Len(turn.calls) /\ ~cancelled /\ spent.tools >= ToolLimit /\ Halts("failed")
     \/ /\ turn.next <= Len(turn.calls) /\ ~cancelled /\ spent.tools < ToolLimit
        /\ phase' = "executing" /\ spent' = [spent EXCEPT !.tools = @ + 1]
        /\ UNCHANGED <<iteration, turn, messages, generated, cancelled>>

At(kind) == phase = "executing" /\ turn.calls[turn.next] = kind

Returns ==
  /\ Saves(<<Result(turn.next)>>)
  /\ phase' = "calling" /\ turn' = [turn EXCEPT !.next = @ + 1]

\* Any call but a delegation: a tool, a question that does not block, one that
\* is refused.
CallReturns ==
  /\ phase = "executing" /\ ~At("delegate")
  /\ Returns
  /\ UNCHANGED <<iteration, spent, cancelled>>

\* A blocking question is asked: the leg ends, and the call has no result.
PauseForDecision == At("blocking") /\ Halts("paused")

\* Mutant: the children share all that is left, nothing is reserved.
PoolUnreserved == IF spent.tokens < TokenLimit THEN TokenLimit - spent.tokens ELSE 0

\* run_delegate_tasks: what is left of the token budget but a reserve.
Pool ==
  LET left    == IF spent.tokens < TokenLimit THEN TokenLimit - spent.tokens ELSE 0
      quarter == IF left \div 4 > Reserve THEN left \div 4 ELSE Reserve
  IN  IF left > quarter THEN left - quarter ELSE 0

Least(m, n) == IF m < n THEN m ELSE n

\* n children share the pool; one whose share is not used up may begin another
\* turn (a share of nothing begins none), and all they cost is charged.
Delegate(n) ==
  /\ At("delegate")
  /\ \E cost \in 0 .. Pool + Least(n, Pool) * (TurnCost - 1) :
       spent' = [spent EXCEPT !.tokens = @ + cost]
  /\ Returns
  /\ UNCHANGED <<iteration, cancelled>>

----------------------------------------------------------------------------
LoopStep ==
  \/ BeginTurn \/ RequestFails \/ RequestIsCancelled \/ EmptyReply
  \/ \E finish \in {"stop", "length", "tool_calls"}, calls \in Batches \cup {<<>>}, cost \in 0 .. TurnCost :
       Reply(finish, calls, cost)
  \/ Stop \/ CutOff \/ BeginCalls
  \/ (\E i \in 1 .. Len(turn.calls) : ReadReturns(i)) \/ CollectReads
  \/ BeginCall \/ CallReturns \/ PauseForDecision \/ \E n \in 1 .. MaxTasks : Delegate(n)

Next == LoopStep \/ Cancel

Spec == Init /\ [][Next]_vars

----------------------------------------------------------------------------
IsWords(m) == m.role = "assistant"

Answered(p) == \A i \in 1 .. generated[p].call :
  p + i <= Len(generated)
    /\ generated[p + i] = [role |-> "tool", turn |-> generated[p].turn, call |-> i]

\* What a leg leaves in the session is a conversation: the results of a turn
\* stand right behind it and in the order of its calls, whether they ran side
\* by side or not, and only the last turn may be left without them (or the one
\* turn that called tools and stopped at the same time, and was reminded).
TurnsAreAnswered ==
  /\ \A p \in DOMAIN generated : LET m == generated[p] IN
       ~IsWords(m) => /\ m.call < p /\ IsWords(generated[p - m.call])
                      /\ generated[p - m.call].turn = m.turn
  /\ LET open == {p \in DOMAIN generated : /\ IsWords(generated[p]) /\ ~Answered(p)
                                           /\ generated[p].turn < iteration}
     IN  Cardinality(open) <= IF spent.reminded THEN 1 ELSE 0

\* The tool limit is kept; the token limit is overrun by less than one turn of
\* the leg, or of each of its children beyond the reserve, however turns,
\* batches and delegations follow each other.
BudgetIsKept ==
  /\ spent.tools <= ToolLimit
  /\ \/ spent.tokens < TokenLimit + TurnCost
     \/ spent.tokens + Reserve <= TokenLimit + MaxTasks * (TurnCost - 1)
=============================================================================
