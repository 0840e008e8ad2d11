---------------------------- MODULE SandboxSafety ----------------------------
(***************************************************************************)
(* A cancelled call leaves nothing running in the sandbox, for any number  *)
(* of commands and processes, any number of faults and any interleaving of *)
(* the request that starts a job with the request that cancels it.         *)
(***************************************************************************)
EXTENDS SandboxProcesses, TLAPS

\* The calls whose cancellation the runner has written down.
Noted == {"reading", "killing", "terminating", "cancelled"}

\* The handlers that have yet to look for a cancellation.
Starting == {"none", "received", "spawned", "registered"}

\* The handlers of jobs that do not run: not started, refused, or over.
AtRest == {"none", "received", "refusing", "forgetting", "refused", "lost"}

\* The handlers of background processes that have been started for good.
Settled == {"finishing", "clearing", "done", "dropped"}

Typed ==
  /\ call \in [Job -> CallState] /\ handler \in [Job -> HandlerState]
  /\ record \in [Background -> Status]

\* A noted cancellation is still there when the handler looks for it.
CancelIsSeen(j) == call[j] \in Noted /\ handler[j] \in Starting => j \in cancels

\* What runs has been started; of a command, nothing outlives its handler.
OnlyStartedRun(j) == j \in alive =>
  /\ handler[j] \notin AtRest
  /\ j \notin Background => handler[j] \in {"spawned", "registered", "waiting"}

\* A job is registered before its handler looks for a cancellation again.
StartedIsRegistered(j) ==
  handler[j] \in {"registered", "recording", "waiting"} => j \in executions

\* A process is on record before it leaves the table of executions.
ProcessIsKnown(j) == j \in alive /\ j \in Background /\ handler[j] \in Settled =>
  record[j] # "none" \/ (handler[j] = "dropped" /\ j \in executions)

\* When the table of executions was read without finding a process that runs,
\* the record of the process is there.
KillFindsIt(j) ==
  /\ call[j] \in {"killing", "terminating"} => j \in Background
  /\ call[j] = "killing" /\ j \in alive /\ handler[j] \notin {"spawned", "registered", "orphaned"} =>
       record[j] # "none"

Harmless(j) ==
  call[j] = "cancelled" /\ handler[j] \notin {"spawned", "registered", "orphaned"} => j \notin alive

Safe(j) ==
  /\ CancelIsSeen(j) /\ OnlyStartedRun(j) /\ StartedIsRegistered(j)
  /\ ProcessIsKnown(j) /\ KillFindsIt(j) /\ Harmless(j)

Inv == Typed /\ \A j \in Job : Safe(j)

shared == <<call, handler, alive, executions, cancels, record>>

----------------------------------------------------------------------------
\* Rows, lists, previews and the bookkeeping of commands do not matter.
LEMMA QuietStep == ASSUME Inv, UNCHANGED shared PROVE Inv'
  BY DEF Inv, Typed, Safe, CancelIsSeen, OnlyStartedRun, StartedIsRegistered, ProcessIsKnown,
         KillFindsIt, Harmless, shared

\* The parts of the invariant of a job, for the leaves of the proof.
USE DEF Safe, CancelIsSeen, OnlyStartedRun, StartedIsRegistered, ProcessIsKnown,
        KillFindsIt, Harmless, Noted, Starting, AtRest, Settled

\* The API's steps of a call: it is made, answered, given up, or cancelled.
LEMMA CallGoesOn ==
  ASSUME Inv, NEW j \in Job,
         \/ Call(j) \/ Answered(j) \/ CallFails(j) \/ AbandonCall(j) \/ CancelCall(j)
         \/ InsertRunningProcess(j) \/ CreateProcessPreview(j)
  PROVE  Inv'
<1>1. PICK to \in CallState \ Noted : call' = [call EXCEPT ![j] = to]
  BY DEF Call, Answered, CallFails, AbandonCall, CancelCall,
         InsertRunningProcess, CreateProcessPreview, Calls, CallState
<1>2. UNCHANGED <<handler, alive, executions, cancels, record>>
  BY DEF Call, Answered, CallFails, AbandonCall, CancelCall,
         InsertRunningProcess, CreateProcessPreview, runner
<1>3. Typed'  BY <1>1, <1>2 DEF Inv, Typed
<1>4. ASSUME NEW k \in Job PROVE Safe(k)'
  <2>1. call'[k] = call[k] \/ call'[k] = to  BY <1>1 DEF Inv, Typed
  <2>2. Safe(k)  BY DEF Inv
  <2>3. QED  BY <1>2, <2>1, <2>2
<1>5. QED  BY <1>3, <1>4 DEF Inv

\* The cancellation is noted, so that a handler that has yet to look finds it.
LEMMA NoteCancelStep == ASSUME Inv, NEW j \in Job, NoteCancel(j) PROVE Inv'
<1>1. /\ call' = [call EXCEPT ![j] = "reading"] /\ cancels' = cancels \cup {j}
      /\ UNCHANGED <<handler, alive, executions, record>>
  BY DEF NoteCancel, Calls
<1>2. Typed'  BY <1>1 DEF Inv, Typed, CallState
<1>3. ASSUME NEW k \in Job PROVE Safe(k)'
  <2>1. Safe(k)  BY DEF Inv
  <2>2. call'[k] = IF k = j THEN "reading" ELSE call[k]  BY <1>1 DEF Inv, Typed
  <2>3. QED  BY <1>1, <2>1, <2>2
<1>4. QED  BY <1>2, <1>3 DEF Inv

\* What is registered is killed; what runs unregistered has a record or has yet
\* to look for the cancellation.
LEMMA ReadExecutionsStep == ASSUME Inv, NEW j \in Job, ReadExecutions(j) PROVE Inv'
<1> DEFINE to == IF j \in Background THEN "killing" ELSE "cancelled"
<1>1. /\ call[j] = "reading" /\ call' = [call EXCEPT ![j] = to]
      /\ alive' = IF j \in executions THEN alive \ {j} ELSE alive
      /\ UNCHANGED <<handler, executions, cancels, record>>
  BY DEF ReadExecutions, Calls
<1>2. Typed'  BY <1>1 DEF Inv, Typed, CallState
<1>3. ASSUME NEW k \in Job PROVE Safe(k)'
  <2>1. Safe(k) /\ handler[k] \in HandlerState  BY DEF Inv, Typed
  <2>2. call'[k] = IF k = j THEN to ELSE call[k]  BY <1>1 DEF Inv, Typed
  <2>3. CASE k # j  BY <1>1, <2>1, <2>2, <2>3
  <2>4. CASE k = j  BY <1>1, <2>1, <2>2, <2>4 DEF HandlerState
  <2>5. QED  BY <2>3, <2>4
<1>4. QED  BY <1>2, <1>3 DEF Inv

\* The process of a cancelled call is killed by its record.
LEMMA KillStep ==
  ASSUME Inv, NEW j \in Background, KillCancelled(j) \/ TerminateCancelled(j)
  PROVE  Inv'
<1>1. /\ call[j] \in {"killing", "terminating"}
      /\ \E to \in {"terminating", "cancelled"} : call' = [call EXCEPT ![j] = to]
      /\ UNCHANGED <<handler, executions, cancels>>
  BY DEF KillCancelled, TerminateCancelled, Calls
<1>2. Typed'
  BY <1>1 DEF Inv, Typed, CallState, Status, Ended, KillCancelled, TerminateCancelled
<1>3. ASSUME NEW k \in Job PROVE Safe(k)'
  <2>1. Safe(k) /\ j \in Job  BY DEF Inv, Job
  <2>2. CASE KillCancelled(j)
    <3>1. call'[k] = IF k # j THEN call[k]
                     ELSE IF record[j] = "none" THEN "cancelled" ELSE "terminating"
      BY <2>1, <2>2 DEF KillCancelled, Calls, Inv, Typed
    <3>2. k \in Background => (record'[k] = "none" <=> record[k] = "none")
      BY <2>2 DEF KillCancelled, Inv, Typed
    <3>3. alive' = alive  BY <2>2 DEF KillCancelled
    <3>4. k = j => call[k] = "killing"  BY <2>2 DEF KillCancelled, Calls
    <3>5. QED  BY <1>1, <2>1, <3>1, <3>2, <3>3, <3>4
  <2>3. CASE TerminateCancelled(j)
    <3>1. call'[k] = IF k # j THEN call[k] ELSE "cancelled"
      BY <2>1, <2>3 DEF TerminateCancelled, Calls, Inv, Typed
    <3>2. record' = record /\ alive' = alive \ {j}  BY <2>3 DEF TerminateCancelled
    <3>3. QED  BY <1>1, <2>1, <3>1, <3>2
  <2>4. QED  BY <2>2, <2>3
<1>4. QED  BY <1>2, <1>3 DEF Inv
----------------------------------------------------------------------------
\* The steps of the handler of one job, which touch the tables at that job only.
LEMMA HandlerSteps ==
  ASSUME Inv, NEW j \in Job,
         \/ Receive(j) \/ Spawn(j) \/ RegisterExecution(j) \/ CheckAgain(j) \/ CommandEnds(j)
         \/ RemoveExecution(j) \/ RemoveCancel(j) \/ DropHandler(j)
  PROVE  Inv'
<1>1. /\ call' = call /\ record' = record
      /\ \E to \in HandlerState : handler' = [handler EXCEPT ![j] = to]
      /\ \A k \in Job \ {j} :
           /\ k \in alive' <=> k \in alive
           /\ k \in executions' <=> k \in executions
           /\ k \in cancels' <=> k \in cancels
  BY DEF Receive, Spawn, RegisterExecution, CheckAgain, CommandEnds, RemoveExecution, RemoveCancel,
         DropHandler, Handles, Started, HandlerState, api
<1>2. Typed'  BY <1>1 DEF Inv, Typed
<1>3. ASSUME NEW k \in Job, k # j PROVE Safe(k)'
  <2>1. Safe(k) /\ handler'[k] = handler[k]  BY <1>1, <1>3 DEF Inv, Typed
  <2>2. QED  BY <1>1, <1>3, <2>1
<1>4. Safe(j)'
  <2>1. Safe(j) /\ handler[j] \in HandlerState  BY DEF Inv, Typed
  <2>2. CASE Receive(j)
    <3>1. handler[j] = "none" /\ handler'[j] = "received"
      BY <2>2 DEF Receive, Handles, Inv, Typed
    <3>2. UNCHANGED <<alive, executions, cancels>>  BY <2>2 DEF Receive
    <3>3. QED  BY <1>1, <2>1, <3>1, <3>2
  <2>3. CASE Spawn(j)
    <3>1. handler[j] = "received" /\ handler'[j] = IF j \in cancels THEN "refusing" ELSE "spawned"
      BY <2>3 DEF Spawn, Handles, Inv, Typed
    <3>2. /\ j \in alive' <=> j \in alive \/ j \notin cancels
          /\ UNCHANGED <<executions, cancels>>
      BY <2>3 DEF Spawn
    <3>3. QED  BY <1>1, <2>1, <3>1, <3>2
  <2>4. CASE RegisterExecution(j)
    <3>1. handler[j] = "spawned" /\ handler'[j] = "registered"
      BY <2>4 DEF RegisterExecution, Handles, Inv, Typed
    <3>2. j \in executions' /\ UNCHANGED <<alive, cancels>>  BY <2>4 DEF RegisterExecution
    <3>3. QED  BY <1>1, <2>1, <3>1, <3>2
  <2>5. CASE CheckAgain(j)
    <3>1. /\ handler[j] = "registered"
          /\ handler'[j] = IF j \in cancels /\ j \in Background THEN "refusing" ELSE Started(j)
      BY <2>5 DEF CheckAgain, Handles, Inv, Typed
    <3>2. /\ j \in alive' <=> j \in alive /\ j \notin cancels
          /\ UNCHANGED <<executions, cancels>>
      BY <2>5 DEF CheckAgain
    <3>3. QED  BY <1>1, <2>1, <3>1, <3>2 DEF Started
  <2>6. CASE CommandEnds(j)
    <3>1. handler[j] = "waiting" /\ handler'[j] = "finishing"
      BY <2>6 DEF CommandEnds, Handles, Inv, Typed
    <3>2. j \notin alive' /\ UNCHANGED <<executions, cancels>>  BY <2>6 DEF CommandEnds
    <3>3. QED  BY <1>1, <2>1, <3>1, <3>2
  <2>7. CASE RemoveExecution(j)
    <3>1. \/ handler[j] = "finishing" /\ handler'[j] = "clearing"
          \/ handler[j] = "refusing" /\ handler'[j] = "forgetting"
      BY <2>7 DEF RemoveExecution, Handles, Inv, Typed
    <3>2. j \notin executions' /\ UNCHANGED <<alive, cancels>>  BY <2>7 DEF RemoveExecution
    <3>3. QED  BY <1>1, <2>1, <3>1, <3>2
  <2>8. CASE RemoveCancel(j)
    <3>1. \/ handler[j] = "clearing" /\ handler'[j] = "done"
          \/ handler[j] = "forgetting" /\ handler'[j] = "refused"
      BY <2>8 DEF RemoveCancel, Handles, Inv, Typed
    <3>2. j \notin cancels' /\ UNCHANGED <<alive, executions>>  BY <2>8 DEF RemoveCancel
    <3>3. QED  BY <1>1, <2>1, <3>1, <3>2
  <2>9. CASE DropHandler(j)
    <3>1. /\ handler[j] \in {"received", "spawned", "registered", "recording", "waiting",
                             "refusing", "finishing", "clearing", "forgetting"}
          /\ handler'[j] = IF j \in Background /\ handler[j] \in {"spawned", "registered"}
                           THEN "orphaned" ELSE "dropped"
      BY <2>9 DEF DropHandler, Handling, Inv, Typed
    <3>2. /\ j \in alive' <=> j \in alive /\ j \notin Foreground
          /\ UNCHANGED <<executions, cancels>>
      BY <2>9 DEF DropHandler
    <3>3. j \in Background \/ j \in Foreground  BY DEF Job
    <3>4. QED  BY <1>1, <2>1, <3>1, <3>2, <3>3
  <2>10. QED  BY <2>2, <2>3, <2>4, <2>5, <2>6, <2>7, <2>8, <2>9
<1>5. QED  BY <1>2, <1>3, <1>4 DEF Inv

\* A process gets its record.
LEMMA RecordProcessStep == ASSUME Inv, NEW j \in Background, RecordProcess(j) PROVE Inv'
<1>1. /\ handler[j] = "recording" /\ handler' = [handler EXCEPT ![j] = "finishing"]
      /\ record' = [record EXCEPT ![j] = "running"]
      /\ UNCHANGED <<call, alive, executions, cancels>>
  BY DEF RecordProcess, Handles, api
<1>2. Typed'  BY <1>1 DEF Inv, Typed, HandlerState, Status
<1>3. ASSUME NEW k \in Job PROVE Safe(k)'
  <2>1. Safe(k) /\ j \in Job  BY DEF Inv, Job
  <2>2. /\ handler'[k] = IF k = j THEN "finishing" ELSE handler[k]
        /\ k \in Background => record'[k] = IF k = j THEN "running" ELSE record[k]
    BY <1>1, <2>1 DEF Inv, Typed
  <2>3. QED  BY <1>1, <2>1, <2>2
<1>4. QED  BY <1>2, <1>3 DEF Inv

\* Processes end, and what a record says changes, but no record goes.
LEMMA EndSteps ==
  ASSUME Inv, alive' \subseteq alive, record' \in [Background -> Status],
         \A p \in Background : record[p] # "none" => record'[p] # "none",
         UNCHANGED <<call, handler, executions, cancels>>
  PROVE  Inv'
<1>1. Typed'  BY DEF Inv, Typed
<1>2. ASSUME NEW k \in Job PROVE Safe(k)'
  <2>1. Safe(k)  BY DEF Inv
  <2>2. k \in alive' => k \in alive  OBVIOUS
  <2>3. QED  BY <2>1, <2>2
<1>3. QED  BY <1>1, <1>2 DEF Inv

\* The runner dies, and everything it ran with it.
LEMMA CrashStep == ASSUME Inv, RunnerCrash PROVE Inv'
<1>1. /\ alive' = {} /\ executions' = {} /\ call' = call
      /\ record' = [p \in Background |-> "none"]
      /\ handler' = [j \in Job |->
           IF Handling(j) \/ (handler[j] = "none" /\ call[j] # "idle") THEN "lost" ELSE handler[j]]
  BY DEF RunnerCrash, Nothing, api
<1>2. Typed'  BY <1>1 DEF Inv, Typed, HandlerState, Status
<1>3. ASSUME NEW k \in Job PROVE Safe(k)'
  <2>1. Safe(k)  BY DEF Inv
  <2>2. handler'[k] \notin Starting \/ call[k] = "idle"  BY <1>1 DEF Handling
  <2>3. handler'[k] \notin {"registered", "recording", "waiting"}  BY <1>1 DEF Handling
  <2>4. QED  BY <1>1, <2>1, <2>2, <2>3
<1>4. QED  BY <1>2, <1>3 DEF Inv

----------------------------------------------------------------------------
\* Nothing runs at first.
LEMMA Initially == Init => Inv
  BY DEF Init, Inv, Typed, Nothing, CallState, HandlerState, Status

\* Every step keeps the invariant, one case for each action of Next.
LEMMA Inductive == Inv /\ [Next]_vars => Inv'
<1> SUFFICES ASSUME Inv, [Next]_vars PROVE Inv'  OBVIOUS
<1> USE DEF shared, runner
<1>1. ASSUME NEW j \in Job,
             \/ Call(j) \/ CallStep(j) \/ AbandonCall(j) \/ CancelCall(j)
             \/ Receive(j) \/ HandlerStep(j) \/ DropHandler(j) \/ ProcessEnds(j)
      PROVE  Inv'
  <2>1. CASE \/ Call(j) \/ Answered(j) \/ CallFails(j) \/ AbandonCall(j) \/ CancelCall(j)
             \/ InsertRunningProcess(j) \/ CreateProcessPreview(j)
    BY <2>1, CallGoesOn
  <2>2. CASE NoteCancel(j)  BY <2>2, NoteCancelStep
  <2>3. CASE ReadExecutions(j)  BY <2>3, ReadExecutionsStep
  <2>4. CASE j \in Background /\ (KillCancelled(j) \/ TerminateCancelled(j))  BY <2>4, KillStep
  <2>5. CASE \/ Receive(j) \/ Spawn(j) \/ RegisterExecution(j) \/ CheckAgain(j) \/ CommandEnds(j)
             \/ RemoveExecution(j) \/ RemoveCancel(j) \/ DropHandler(j)
    BY <2>5, HandlerSteps
  <2>6. CASE j \in Background /\ RecordProcess(j)  BY <2>6, RecordProcessStep
  <2>7. CASE ProcessEnds(j)
    <3>1. /\ alive' \subseteq alive /\ UNCHANGED <<call, handler, executions, cancels, record>>
      BY <2>7 DEF ProcessEnds, api
    <3>2. QED  BY <3>1, EndSteps DEF Inv, Typed
  <2>8. QED  BY <1>1, <2>1, <2>2, <2>3, <2>4, <2>5, <2>6, <2>7 DEF CallStep, HandlerStep
<1>2. ASSUME NEW p \in Background, RecordEnd(p) PROVE Inv'
  <2>1. PICK status \in {"exited", "failed"} : record' = [record EXCEPT ![p] = status]
    BY <1>2 DEF RecordEnd
  <2>2. /\ record' \in [Background -> Status]
        /\ \A q \in Background : record[q] # "none" => record'[q] # "none"
    BY <2>1 DEF Inv, Typed, Status, Ended
  <2>3. UNCHANGED <<call, handler, alive, executions, cancels>>  BY <1>2 DEF RecordEnd, api
  <2>4. QED  BY <2>2, <2>3, EndSteps
<1>3. ASSUME NEW p \in Background, AskToStop(p) PROVE Inv'
  BY <1>3, QuietStep DEF AskToStop
<1>4. ASSUME NEW v \in Viewer, NEW p \in Background, LookAtLog(v, p) PROVE Inv'
  BY <1>4, QuietStep DEF LookAtLog
<1>5. ASSUME NEW v \in Viewer, LookAtAll(v) \/ ViewerStep(v) PROVE Inv'
  <2>1. UNCHANGED shared
    BY <1>5 DEF LookAtAll, ViewerStep, WriteStatus, StopPreviews, AllWritten, MarkMissing,
                FailPreviews
  <2>2. QED  BY <2>1, QuietStep
<1>6. CASE RunnerCrash  BY <1>6, CrashStep
<1>7. CASE StopRecord
  <2>1. record' = [p \in Background |-> IF p \in {q \in user.p : record[q] # "none"}
                                        THEN "stopped" ELSE record[p]]
    BY <1>7 DEF StopRecord
  <2>2. /\ record' \in [Background -> Status]
        /\ \A q \in Background : record[q] # "none" => record'[q] # "none"
    BY <2>1 DEF Inv, Typed, Status, Ended
  <2>3. UNCHANGED <<call, handler, alive, executions, cancels>>  BY <1>7 DEF StopRecord
  <2>4. QED  BY <2>2, <2>3, EndSteps
<1>8. CASE TerminateStopped
  <2>1. alive' \subseteq alive /\ UNCHANGED <<call, handler, executions, cancels, record>>
    BY <1>8 DEF TerminateStopped
  <2>2. QED  BY <2>1, EndSteps DEF Inv, Typed
<1>9. CASE SaveStopped \/ HideStopped \/ StopIsRefused
  BY <1>9, QuietStep DEF SaveStopped, HideStopped, StopIsRefused
<1>10. CASE UNCHANGED vars  BY <1>10, QuietStep DEF vars
<1>11. QED
  BY <1>1, <1>2, <1>3, <1>4, <1>5, <1>6, <1>7, <1>8, <1>9, <1>10 DEF Next, CommandStep

----------------------------------------------------------------------------
\* The strengthening holds in every reachable state: what is noted, registered
\* and recorded of a job is always enough to find it and end it.
THEOREM SandboxInvariance == Spec => []Inv
<1>1. QED  BY Initially, Inductive, PTL DEF Spec

\* A cancelled call leaves nothing running (cancel_execution and kill_process
\* against run_command and start_process), unless its handler has not looked
\* for the cancellation a second time, or was dropped before it could.
THEOREM CancelLeavesNothing == Spec => []CancelledDoesNotRun
<1>1. Inv => CancelledDoesNotRun  BY DEF Inv, CancelledDoesNotRun
<1>2. QED  BY <1>1, SandboxInvariance, PTL

----------------------------------------------------------------------------
(* Types                                                                   *)

\* The types of what the invariant does not speak of.
Others ==
  /\ alive \subseteq Job /\ executions \subseteq Job /\ cancels \subseteq Job
  /\ watched \subseteq Background
  /\ row \in [Background -> Row]
  /\ viewer \in [Viewer -> Look]
  /\ user \in [ pc : {"idle", "stop", "kill", "terminating", "saving", "hiding"},
                p : SUBSET Background ]
  /\ commands \in 0 .. MaxCommands /\ faults \in 0 .. MaxFaults

LEMMA RowIsSet ==
  ASSUME NEW r \in Row
  PROVE  /\ \A s \in Status : [r EXCEPT !.status = s] \in Row
         /\ \A q \in {"none", "active", "stopped", "failed"} : [r EXCEPT !.preview = q] \in Row
         /\ [r EXCEPT !.status = "failed", !.lost = TRUE] \in Row
<1>1. ASSUME NEW s \in Status PROVE [r EXCEPT !.status = s] \in Row  BY DEF Row
<1>2. ASSUME NEW q \in {"none", "active", "stopped", "failed"} PROVE [r EXCEPT !.preview = q] \in Row
  BY DEF Row
<1>3. ASSUME NEW x \in Row PROVE [x EXCEPT !.lost = TRUE] \in Row  BY DEF Row
<1>4. [r EXCEPT !.status = "failed"] \in Row  BY <1>1 DEF Status, Ended
<1>5. [r EXCEPT !.status = "failed", !.lost = TRUE] \in Row  BY <1>3, <1>4
<1>6. QED  BY <1>1, <1>2, <1>5

LEMMA PreviewsAreTyped ==
  ASSUME Others, NEW set, NEW from, NEW to \in {"stopped", "failed"}
  PROVE  WithPreviews(set, from, to) \in [Background -> Row]
<1>1. \A p \in Background : row[p] \in Row /\ [row[p] EXCEPT !.preview = to] \in Row
  BY RowIsSet DEF Others
<1>2. QED  BY <1>1 DEF WithPreviews

\* What a request that looks at processes holds.
LEMMA LookIsSet ==
  ASSUME NEW look \in Look
  PROVE  /\ \A pc \in {"idle", "writing", "hiding", "missing", "unlinking"} :
              [look EXCEPT !.pc = pc] \in Look
         /\ \A seen \in [Background -> Status] : [look EXCEPT !.seen = seen] \in Look
         /\ \A at \in SUBSET Background :
              [look EXCEPT !.at = at] \in Look /\ [look EXCEPT !.live = at] \in Look
         /\ [look EXCEPT !.whole = TRUE] \in Look
<1>1. ASSUME NEW pc \in {"idle", "writing", "hiding", "missing", "unlinking"}
      PROVE  [look EXCEPT !.pc = pc] \in Look
  BY DEF Look
<1>2. ASSUME NEW seen \in [Background -> Status] PROVE [look EXCEPT !.seen = seen] \in Look
  BY DEF Look
<1>3. ASSUME NEW at \in SUBSET Background PROVE [look EXCEPT !.at = at] \in Look
  BY DEF Look
<1>4. ASSUME NEW at \in SUBSET Background PROVE [look EXCEPT !.live = at] \in Look
  BY DEF Look
<1>5. [look EXCEPT !.whole = TRUE] \in Look  BY DEF Look
<1>6. QED  BY <1>1, <1>2, <1>3, <1>4, <1>5

LEMMA IdleIsTyped == Idle \in Look /\ Nothing \in [Background -> Status]
<1>1. Nothing \in [Background -> Status]  BY DEF Nothing, Status
<1>2. QED  BY <1>1 DEF Idle, Look

\* The steps of calls and handlers.
LEMMA JobStepsAreTyped ==
  ASSUME SandboxProcessesAssumption, Others, NEW j \in Job,
         \/ Call(j) \/ CallStep(j) \/ AbandonCall(j) \/ CancelCall(j)
         \/ Receive(j) \/ HandlerStep(j) \/ DropHandler(j) \/ ProcessEnds(j)
  PROVE  Others'
<1>1. CASE \/ InsertRunningProcess(j) /\ j \in Background
           \/ CreateProcessPreview(j) /\ j \in Background
  <2>1. /\ [row[j] EXCEPT !.status = "running"] \in Row
        /\ [row[j] EXCEPT !.preview = "active"] \in Row
    BY <1>1, RowIsSet DEF Others, Status
  <2>2. row' \in [Background -> Row]
    BY <1>1, <2>1 DEF Others, InsertRunningProcess, CreateProcessPreview
  <2>3. QED
    BY <1>1, <2>2 DEF Others, InsertRunningProcess, CreateProcessPreview, runner
<1>2. CASE AbandonCall(j)
  BY <1>2 DEF Others, AbandonCall, Fault, runner, SandboxProcessesAssumption
<1>3. CASE \/ Call(j) \/ Answered(j) \/ CallFails(j) \/ NoteCancel(j) \/ ReadExecutions(j)
           \/ KillCancelled(j) \/ TerminateCancelled(j) \/ CancelCall(j)
  <2>1. UNCHANGED <<executions, watched, row, viewer, user, commands, faults>>
    BY <1>3 DEF Call, Answered, CallFails, NoteCancel, ReadExecutions, KillCancelled,
                TerminateCancelled, CancelCall, runner
  <2>2. alive' \subseteq alive /\ cancels' \subseteq cancels \cup {j}
    BY <1>3 DEF Call, Answered, CallFails, NoteCancel, ReadExecutions, KillCancelled,
                TerminateCancelled, CancelCall, runner
  <2>3. QED  BY <2>1, <2>2 DEF Others
<1>4. CASE \/ Receive(j) \/ DropHandler(j) \/ ProcessEnds(j) \/ Spawn(j) \/ RegisterExecution(j)
           \/ CheckAgain(j) \/ RemoveExecution(j) \/ RemoveCancel(j) \/ CommandEnds(j)
           \/ j \in Background /\ RecordProcess(j)
  <2>1. UNCHANGED <<row, viewer, user, commands, faults>>
    BY <1>4 DEF Receive, DropHandler, ProcessEnds, Spawn, RegisterExecution, CheckAgain,
                RemoveExecution, RemoveCancel, CommandEnds, RecordProcess, api
  <2>2. /\ alive' \subseteq alive \cup {j} /\ executions' \subseteq executions \cup {j}
        /\ cancels' \subseteq cancels
    BY <1>4 DEF Receive, DropHandler, ProcessEnds, Spawn, RegisterExecution, CheckAgain,
                RemoveExecution, RemoveCancel, CommandEnds, RecordProcess
  <2>3. watched' = watched \/ (j \in Background /\ watched' = watched \cup {j})
    BY <1>4 DEF Receive, DropHandler, ProcessEnds, Spawn, RegisterExecution, CheckAgain,
                RemoveExecution, RemoveCancel, CommandEnds, RecordProcess
  <2>4. QED  BY <2>1, <2>2, <2>3 DEF Others
<1>5. QED  BY <1>1, <1>2, <1>3, <1>4 DEF CallStep, HandlerStep

\* The steps of lists, logs and commands.
LEMMA ViewerStepsAreTyped ==
  ASSUME Typed, Others, NEW v \in Viewer,
         LookAtAll(v) \/ ViewerStep(v) \/ \E p \in Background : LookAtLog(v, p)
  PROVE  Others'
<1>1. viewer[v] \in Look /\ Idle \in Look /\ record \in [Background -> Status]
  BY IdleIsTyped DEF Others, Typed
<1>2. UNCHANGED <<alive, executions, cancels, watched, user, commands, faults>>
  BY DEF LookAtAll, ViewerStep, LookAtLog, WriteStatus, StopPreviews, AllWritten, MarkMissing,
         FailPreviews, runner
<1>3. row' \in [Background -> Row]
  <2>1. CASE LookAtAll(v) \/ AllWritten(v) \/ \E p \in Background : LookAtLog(v, p)
    BY <2>1 DEF LookAtAll, AllWritten, LookAtLog, Others
  <2>2. CASE WriteStatus(v)
    <3>1. PICK p \in Background : row' = Copy(p, viewer[v].seen[p])
      BY <2>2 DEF WriteStatus
    <3>2. viewer[v].seen[p] \in Status  BY <1>1 DEF Look
    <3>3. row[p] \in Row  BY DEF Others
    <3>4. [row[p] EXCEPT !.status = viewer[v].seen[p]] \in Row  BY <3>2, <3>3, RowIsSet
    <3>5. QED  BY <3>1, <3>4 DEF Copy, Others
  <2>3. CASE StopPreviews(v) \/ FailPreviews(v)
    <3>1. \E set, from : \E to \in {"stopped", "failed"} : row' = WithPreviews(set, from, to)
      BY <2>3 DEF StopPreviews, FailPreviews
    <3>2. QED  BY <3>1, PreviewsAreTyped
  <2>4. CASE MarkMissing(v)
    <3>1. \A p \in Background :
            row[p] \in Row /\ [row[p] EXCEPT !.status = "failed", !.lost = TRUE] \in Row
      BY RowIsSet DEF Others
    <3>2. QED  BY <2>4, <3>1 DEF MarkMissing
  <2>5. QED  BY <2>1, <2>2, <2>3, <2>4 DEF ViewerStep
<1>4. viewer' \in [Viewer -> Look]
  <2>1. CASE LookAtAll(v)
    <3> DEFINE a == [Idle EXCEPT !.pc = "writing"]
               b == [a EXCEPT !.seen = record]
               c == [b EXCEPT !.whole = TRUE]
               live == {p \in Background : record[p] # "none"}
    <3>1. a \in Look  BY <1>1, LookIsSet
    <3>2. b \in Look  BY <1>1, <3>1, LookIsSet
    <3>3. c \in Look  BY <3>2, LookIsSet
    <3>4. [c EXCEPT !.live = live] \in Look  BY <3>3, LookIsSet
    <3>5. viewer' = [viewer EXCEPT ![v] = [c EXCEPT !.live = live]]  BY <2>1 DEF LookAtAll
    <3>6. QED  BY <3>4, <3>5 DEF Others
  <2>2. ASSUME NEW p \in Background, LookAtLog(v, p) PROVE viewer' \in [Viewer -> Look]
    <3> DEFINE a == [Idle EXCEPT !.pc = "writing"]
               seen == [a.seen EXCEPT ![p] = record[p]]
    <3>1. a \in Look  BY <1>1, LookIsSet
    <3>2. seen \in [Background -> Status]  BY <1>1, <3>1 DEF Look
    <3>3. [a EXCEPT !.seen = seen] \in Look  BY <3>1, <3>2, LookIsSet
    <3>4. viewer' = [viewer EXCEPT ![v] = [a EXCEPT !.seen = seen]]  BY <2>2 DEF LookAtLog
    <3>5. QED  BY <3>3, <3>4 DEF Others
  <2>3. CASE WriteStatus(v)
    <3>1. PICK p \in Background :
            viewer' = [viewer EXCEPT
              ![v].pc = IF viewer[v].seen[p] \in Ended THEN "hiding" ELSE @,
              ![v].at = {p}, ![v].seen[p] = "none"]
      BY <2>3 DEF WriteStatus
    <3> DEFINE pc == IF viewer[v].seen[p] \in Ended THEN "hiding" ELSE viewer[v].pc
               a == [viewer EXCEPT ![v].pc = pc]
               b == [a EXCEPT ![v].at = {p}]
    <3>2. pc \in {"idle", "writing", "hiding", "missing", "unlinking"}  BY <1>1 DEF Look
    <3>3. a \in [Viewer -> Look]  BY <1>1, <3>2, LookIsSet DEF Others
    <3> HIDE DEF a
    <3>4. b \in [Viewer -> Look]
      <4>1. a[v] \in Look  BY <3>3
      <4>2. [a[v] EXCEPT !.at = {p}] \in Look  BY <4>1, LookIsSet
      <4>3. QED  BY <3>3, <4>2
    <3> HIDE DEF b
    <3>5. [b EXCEPT ![v].seen[p] = "none"] \in [Viewer -> Look]
      <4>1. b[v] \in Look  BY <3>4
      <4>2. [b[v].seen EXCEPT ![p] = "none"] \in [Background -> Status]
        BY <4>1 DEF Look, Status
      <4>3. [b[v] EXCEPT !.seen = [b[v].seen EXCEPT ![p] = "none"]] \in Look
        BY <4>1, <4>2, LookIsSet
      <4>4. QED  BY <3>4, <4>3
    <3>6. viewer' = [b EXCEPT ![v].seen[p] = "none"]  BY <3>1 DEF a, b
    <3>7. QED  BY <3>5, <3>6
  <2>4. CASE StopPreviews(v) \/ AllWritten(v) \/ MarkMissing(v) \/ FailPreviews(v)
    <3>1. \/ viewer' = [viewer EXCEPT ![v] = Idle]
          \/ \E pc \in {"writing", "missing", "unlinking"} :
               viewer' = [viewer EXCEPT ![v] = [viewer[v] EXCEPT !.pc = pc]]
      BY <2>4 DEF StopPreviews, AllWritten, MarkMissing, FailPreviews
    <3>2. ASSUME NEW new \in Look, viewer' = [viewer EXCEPT ![v] = new]
          PROVE  viewer' \in [Viewer -> Look]
      BY <3>2 DEF Others
    <3>3. CASE viewer' = [viewer EXCEPT ![v] = Idle]  BY <1>1, <3>2, <3>3
    <3>4. ASSUME NEW pc \in {"writing", "missing", "unlinking"},
                 viewer' = [viewer EXCEPT ![v] = [viewer[v] EXCEPT !.pc = pc]]
          PROVE  viewer' \in [Viewer -> Look]
      <4>1. [viewer[v] EXCEPT !.pc = pc] \in Look  BY <1>1, LookIsSet
      <4>2. QED  BY <3>2, <3>4, <4>1
    <3>5. QED  BY <3>1, <3>3, <3>4
  <2>5. QED  BY <2>1, <2>2, <2>3, <2>4 DEF ViewerStep
<1>5. QED  BY <1>2, <1>3, <1>4 DEF Others

LEMMA CommandStepsAreTyped ==
  ASSUME SandboxProcessesAssumption, Others,
         CommandStep \/ StopIsRefused \/ \E p \in Background : AskToStop(p)
  PROVE  Others'
<1> DEFINE User == [ pc : {"idle", "stop", "kill", "terminating", "saving", "hiding"},
                     p : SUBSET Background ]
<1>1. user \in User  BY DEF Others
<1>2. \A pc \in {"idle", "stop", "kill", "terminating", "saving", "hiding"} :
        [user EXCEPT !.pc = pc] \in User
  BY <1>1
<1>3. [pc |-> "idle", p |-> {}] \in User  OBVIOUS
<1>4. CASE \E p \in Background : AskToStop(p)
  <2>1. user' \in User  BY <1>4 DEF AskToStop
  <2>2. commands' \in 0 .. MaxCommands
    BY <1>4 DEF AskToStop, Others, SandboxProcessesAssumption
  <2>3. QED  BY <1>4, <2>1, <2>2 DEF AskToStop, Others, runner
<1>5. CASE StopRecord \/ TerminateStopped
  <2>1. user' \in User  BY <1>2, <1>5 DEF StopRecord, TerminateStopped
  <2>2. QED  BY <1>5, <2>1 DEF StopRecord, TerminateStopped, Others
<1>6. CASE StopIsRefused
  <2>1. user' \in User  BY <1>2, <1>3, <1>6 DEF StopIsRefused
  <2>2. faults' \in 0 .. MaxFaults
    BY <1>6 DEF StopIsRefused, Fault, Others, SandboxProcessesAssumption
  <2>3. QED  BY <1>6, <2>1, <2>2 DEF StopIsRefused, Others, runner
<1>7. CASE SaveStopped
  <2>1. user' \in User  BY <1>2, <1>7 DEF SaveStopped
  <2>2. \A p \in Background : row[p] \in Row /\ [row[p] EXCEPT !.status = "stopped"] \in Row
    BY RowIsSet DEF Others, Status, Ended
  <2>3. row' \in [Background -> Row]  BY <1>7, <2>2 DEF SaveStopped
  <2>4. QED  BY <1>7, <2>1, <2>3 DEF SaveStopped, Others, runner
<1>8. CASE HideStopped
  <2>1. user' \in User  BY <1>3, <1>8 DEF HideStopped
  <2>2. row' \in [Background -> Row]  BY <1>8, PreviewsAreTyped DEF HideStopped
  <2>3. QED  BY <1>8, <2>1, <2>2 DEF HideStopped, Others, runner
<1>9. QED  BY <1>4, <1>5, <1>6, <1>7, <1>8 DEF CommandStep

LEMMA TypesInitially == SandboxProcessesAssumption => (Init => TypeOK)
<1> SUFFICES ASSUME SandboxProcessesAssumption, Init PROVE TypeOK  OBVIOUS
<1>1. NoRow \in Row  BY DEF NoRow, Row, Status
<1>2. 0 \in 0 .. MaxCommands /\ 0 \in 0 .. MaxFaults  BY DEF SandboxProcessesAssumption
<1>3. QED
  BY <1>1, <1>2, Initially, IdleIsTyped DEF Init, TypeOK, Inv, Typed

\* The types stay, as long as the invariant holds.
LEMMA TypesStay ==
  ASSUME SandboxProcessesAssumption, Inv, TypeOK, [Next]_vars
  PROVE  TypeOK'
<1>1. Others  BY DEF TypeOK, Others
<1>2. Typed /\ Typed'  BY Inductive DEF Inv
<1> SUFFICES Others'  BY <1>2 DEF TypeOK, Others, Typed
<1>3. ASSUME NEW p \in Background, RecordEnd(p) PROVE Others'
  BY <1>1, <1>3 DEF RecordEnd, Others, api
<1>4. CASE RunnerCrash
  BY <1>1, <1>4 DEF RunnerCrash, Fault, Others, api, SandboxProcessesAssumption
<1>5. CASE UNCHANGED vars  BY <1>1, <1>5 DEF vars, Others
<1>6. QED
  BY <1>1, <1>2, <1>3, <1>4, <1>5, JobStepsAreTyped, ViewerStepsAreTyped, CommandStepsAreTyped
     DEF Next

\* Calls, handlers, tables, rows and requests have their types in every
\* reachable state, for any number of jobs, requests and faults.
THEOREM SandboxIsTyped == SandboxProcessesAssumption => (Spec => []TypeOK)
<1> SUFFICES ASSUME SandboxProcessesAssumption PROVE Spec => []TypeOK  OBVIOUS
<1>1. Init => Inv /\ TypeOK  BY Initially, TypesInitially
<1>2. Inv /\ TypeOK /\ [Next]_vars => (Inv /\ TypeOK)'  BY Inductive, TypesStay
<1>3. QED  BY <1>1, <1>2, PTL DEF Spec

=============================================================================
