-------------------------- MODULE SandboxProcesses --------------------------
(***************************************************************************)
(* Commands of the agents and background processes in the sandbox          *)
(* (terminal/command.rs, terminal/process_tools.rs, services/sandbox.rs,   *)
(* services/sandbox_processes.rs, and the runner of sandbox_runner/ in its *)
(* bubblewrap mode).  The runner is a process of its own: it keeps its     *)
(* tables in memory and takes its children with it when it dies.  The API  *)
(* calls it over HTTP, cancels by a second request while the first is      *)
(* under way, and copies what the runner tells of a process to the row of  *)
(* sandbox_processes whenever somebody looks at the list or at a log.      *)
(***************************************************************************)
EXTENDS Naturals

CONSTANTS
  Foreground,    \* the commands the API waits for (invocation ids)
  Background,    \* the processes that stay (process ids)
  Viewer,        \* requests that list the processes or read a log
  MaxCommands,   \* bound on stop and kill commands of the users
  MaxFaults      \* bound on crashes of the runner, abandoned calls, lost answers

SandboxProcessesAssumption ==
  /\ Foreground \cap Background = {}
  /\ MaxCommands \in Nat /\ MaxFaults \in Nat

VARIABLES
  call,        \* call[j]: the API's call for a job
  handler,     \* handler[j]: the runner's handler of that call
  alive,       \* the jobs whose processes run
  executions,  \* the runner's table of cancellable executions
  cancels,     \* the runner's cancelled_executions
  record,      \* record[p]: the runner's record of a background process
  watched,     \* the processes that a task of the runner waits for
  row,         \* row[p]: row of sandbox_processes, with its preview_endpoint
  viewer,      \* viewer[v]: a request that copies the runner's view
  user,        \* a stop or kill command
  commands, faults

vars == <<call, handler, alive, executions, cancels, record, watched, row,
          viewer, user, commands, faults>>

api    == <<call, row, viewer, user, commands>>
runner == <<handler, alive, executions, cancels, record, watched>>

----------------------------------------------------------------------------
Job == Foreground \cup Background

Ended == {"exited", "failed", "stopped"}
Status == {"none", "running"} \cup Ended

CallState == {"idle", "calling", "inserting", "previewing", "ended",
              "cancelling", "reading", "killing", "terminating", "cancelled"}

HandlerState == {"none", "received", "spawned", "registered", "recording", "waiting",
                 "refusing", "finishing", "clearing", "forgetting",
                 "done", "refused", "dropped", "orphaned", "lost"}

Row == [ status  : Status,
         lost    : BOOLEAN,                               \* metadata ? 'runnerLost'
         preview : {"none", "active", "stopped", "failed"} ]

Look == [ pc     : {"idle", "writing", "hiding", "missing", "unlinking"},
          seen   : [Background -> Status],
          live   : SUBSET Background,                     \* live_ids
          whole  : BOOLEAN,                               \* a list, not one log
          at     : SUBSET Background ]                    \* whose previews end

\* Calls, handlers, tables, rows and requests have their types.
TypeOK ==
  /\ call \in [Job -> CallState] /\ handler \in [Job -> HandlerState]
  /\ alive \subseteq Job /\ executions \subseteq Job /\ cancels \subseteq Job
  /\ record \in [Background -> Status] /\ watched \subseteq Background
  /\ row \in [Background -> Row]
  /\ viewer \in [Viewer -> Look]
  /\ user \in [ pc : {"idle", "stop", "kill", "terminating", "saving", "hiding"},
                p : SUBSET Background ]
  /\ commands \in 0 .. MaxCommands /\ faults \in 0 .. MaxFaults

NoRow == [status |-> "none", lost |-> FALSE, preview |-> "none"]
Nothing == [p \in Background |-> "none"]
Idle == [pc |-> "idle", seen |-> Nothing, live |-> {}, whole |-> FALSE, at |-> {}]

Init ==
  /\ call = [j \in Job |-> "idle"] /\ handler = [j \in Job |-> "none"]
  /\ alive = {} /\ executions = {} /\ cancels = {}
  /\ record = Nothing /\ watched = {}
  /\ row = [p \in Background |-> NoRow]
  /\ viewer = [v \in Viewer |-> Idle] /\ user = [pc |-> "idle", p |-> {}]
  /\ commands = 0 /\ faults = 0

Calls(j, from, to) == call[j] = from /\ call' = [call EXCEPT ![j] = to]
Handles(j, from, to) == handler[j] = from /\ handler' = [handler EXCEPT ![j] = to]
Fault == faults < MaxFaults /\ faults' = faults + 1

----------------------------------------------------------------------------
(* The API's side of a call                                                *)

Call(j) ==
  /\ Calls(j, "idle", "calling")
  /\ UNCHANGED <<runner, row, viewer, user, commands, faults>>

\* A background process gets its row, then its preview.
Answered(j) ==
  /\ handler[j] = "done"
  /\ Calls(j, "calling", IF j \in Background THEN "inserting" ELSE "ended")
  /\ UNCHANGED <<runner, row, viewer, user, commands, faults>>

CallFails(j) ==
  /\ handler[j] \in {"refused", "lost"} /\ Calls(j, "calling", "ended")
  /\ UNCHANGED <<runner, row, viewer, user, commands, faults>>

InsertRunningProcess(p) ==
  /\ Calls(p, "inserting", "previewing")
  /\ row' = [row EXCEPT ![p].status = "running"]
  /\ UNCHANGED <<runner, viewer, user, commands, faults>>

CreateProcessPreview(p) ==
  /\ Calls(p, "previewing", "ended")
  /\ row' = [row EXCEPT ![p].preview = "active"]
  /\ UNCHANGED <<runner, viewer, user, commands, faults>>

\* The API process dies, or drops the call when the run's time is over.
AbandonCall(j) ==
  /\ call[j] \in {"calling", "inserting", "previewing"} /\ Fault
  /\ call' = [call EXCEPT ![j] = "ended"]
  /\ UNCHANGED <<runner, row, viewer, user, commands>>

\* The run is cancelled: the call is given up and cancel_execution requested.
CancelCall(j) ==
  /\ Calls(j, "calling", "cancelling")
  /\ UNCHANGED <<runner, row, viewer, user, commands, faults>>

\* cancel_execution: the id is noted before the table is read.
NoteCancel(j) ==
  /\ Calls(j, "cancelling", "reading")
  /\ cancels' = cancels \cup {j}
  /\ UNCHANGED <<handler, alive, executions, record, watched, row, viewer, user, commands, faults>>

ReadExecutions(j) ==
  /\ Calls(j, "reading", IF j \in Background THEN "killing" ELSE "cancelled")
  /\ alive' = IF j \in executions THEN alive \ {j} ELSE alive
  /\ UNCHANGED <<handler, executions, cancels, record, watched, row, viewer, user, commands, faults>>

\* kill_process after cancel_execution.
KillCancelled(p) ==
  /\ Calls(p, "killing", IF record[p] = "none" THEN "cancelled" ELSE "terminating")
  /\ record' = IF record[p] = "none" THEN record ELSE [record EXCEPT ![p] = "stopped"]
  /\ UNCHANGED <<handler, alive, executions, cancels, watched, row, viewer, user, commands, faults>>

TerminateCancelled(p) ==
  /\ Calls(p, "terminating", "cancelled")
  /\ alive' = alive \ {p}
  /\ UNCHANGED <<handler, executions, cancels, record, watched, row, viewer, user, commands, faults>>

----------------------------------------------------------------------------
(* The runner                                                              *)

\* The request may be read when its sender has already given it up.
Receive(j) ==
  /\ call[j] \notin {"idle", "ended"} /\ Handles(j, "none", "received")
  /\ UNCHANGED <<api, alive, executions, cancels, record, watched, faults>>

Spawn(j) ==
  /\ Handles(j, "received", IF j \in cancels THEN "refusing" ELSE "spawned")
  /\ alive' = IF j \in cancels THEN alive ELSE alive \cup {j}
  /\ UNCHANGED <<api, executions, cancels, record, watched, faults>>

RegisterExecution(j) ==
  /\ Handles(j, "spawned", "registered")
  /\ executions' = executions \cup {j}
  /\ UNCHANGED <<api, alive, cancels, record, watched, faults>>

Started(j) == IF j \in Background THEN "recording" ELSE "waiting"

\* Mutant: a cancellation is looked for before the start only.
TrustFirstCheck(j) ==
  /\ Handles(j, "registered", Started(j))
  /\ UNCHANGED <<api, alive, executions, cancels, record, watched, faults>>

\* The second look for a cancellation.
CheckAgain(j) ==
  /\ Handles(j, "registered",
             IF j \in cancels /\ j \in Background THEN "refusing" ELSE Started(j))
  /\ alive' = IF j \in cancels THEN alive \ {j} ELSE alive
  /\ UNCHANGED <<api, executions, cancels, record, watched, faults>>

RecordProcess(p) ==
  /\ Handles(p, "recording", "finishing")
  /\ record' = [record EXCEPT ![p] = "running"] /\ watched' = watched \cup {p}
  /\ UNCHANGED <<api, alive, executions, cancels, faults>>

\* The command ends, or is terminated when its time is over.
CommandEnds(j) ==
  /\ Handles(j, "waiting", "finishing")
  /\ alive' = alive \ {j}
  /\ UNCHANGED <<api, executions, cancels, record, watched, faults>>

\* finish_execution
RemoveExecution(j) ==
  /\ \/ Handles(j, "finishing", "clearing")
     \/ Handles(j, "refusing", "forgetting")
  /\ executions' = executions \ {j}
  /\ UNCHANGED <<api, alive, cancels, record, watched, faults>>

RemoveCancel(j) ==
  /\ \/ Handles(j, "clearing", "done")
     \/ Handles(j, "forgetting", "refused")
  /\ cancels' = cancels \ {j}
  /\ UNCHANGED <<api, alive, executions, record, watched, faults>>

Handling(j) == handler[j] \in {"received", "spawned", "registered", "recording", "waiting",
                               "refusing", "finishing", "clearing", "forgetting"}

\* The sender's connection is gone, and the handler is dropped where it waits.
\* A command is killed with it, a process that has no record yet goes on.
DropHandler(j) ==
  /\ call[j] # "calling" /\ Handling(j)
  /\ handler' = [handler EXCEPT ![j] =
       IF j \in Background /\ @ \in {"spawned", "registered"} THEN "orphaned" ELSE "dropped"]
  /\ alive' = IF j \in Foreground THEN alive \ {j} ELSE alive
  /\ UNCHANGED <<api, executions, cancels, record, watched, faults>>

ProcessEnds(j) ==
  /\ j \in alive /\ alive' = alive \ {j}
  /\ UNCHANGED <<api, handler, executions, cancels, record, watched, faults>>

\* The task that waits for the process, whatever the record said.
RecordEnd(p) ==
  /\ p \in watched \ alive
  /\ \E status \in {"exited", "failed"} : record' = [record EXCEPT ![p] = status]
  /\ watched' = watched \ {p}
  /\ UNCHANGED <<api, handler, alive, executions, cancels, faults>>

\* bwrap --die-with-parent
RunnerCrash ==
  /\ Fault
  /\ alive' = {} /\ executions' = {} /\ cancels' = {}
  /\ record' = Nothing /\ watched' = {}
  /\ handler' = [j \in Job |->
       IF Handling(j) \/ (handler[j] = "none" /\ call[j] # "idle") THEN "lost" ELSE handler[j]]
  /\ UNCHANGED api

----------------------------------------------------------------------------
(* Lists and logs: reconcile_live_processes, process_logs                  *)

\* Nothing is looked at if the runner does not answer.
LookAtAll(v) ==
  /\ viewer[v].pc = "idle"
  /\ viewer' = [viewer EXCEPT ![v] = [Idle EXCEPT !.pc = "writing", !.seen = record, !.whole = TRUE,
                                         !.live = {p \in Background : record[p] # "none"}]]
  /\ UNCHANGED <<runner, call, row, user, commands, faults>>

LookAtLog(v, p) ==
  /\ viewer[v].pc = "idle" /\ row[p].status # "none" /\ record[p] # "none"
  /\ viewer' = [viewer EXCEPT ![v] = [Idle EXCEPT !.pc = "writing", !.seen[p] = record[p]]]
  /\ UNCHANGED <<runner, call, row, user, commands, faults>>

\* Mutant: a row that a user stopped keeps its status.
CopyUnlessStopped(p, status) ==
  IF row[p].status \in {"none", "stopped"} THEN row ELSE [row EXCEPT ![p].status = status]

\* reconcile_from_runner: no look at what the row says now.
Copy(p, status) ==
  IF row[p].status = "none" THEN row ELSE [row EXCEPT ![p].status = status]

WriteStatus(v) == LET look == viewer[v] IN
  /\ look.pc = "writing"
  /\ \E p \in Background :
       /\ look.seen[p] # "none"
       /\ row' = Copy(p, look.seen[p])
       /\ viewer' = [viewer EXCEPT ![v].pc = IF look.seen[p] \in Ended THEN "hiding" ELSE @,
                                   ![v].at = {p}, ![v].seen[p] = "none"]
  /\ UNCHANGED <<runner, call, user, commands, faults>>

WithPreviews(set, from, to) ==
  [p \in Background |-> IF p \in set /\ row[p].preview \in from
                        THEN [row[p] EXCEPT !.preview = to] ELSE row[p]]

StopPreviews(v) ==
  /\ viewer[v].pc = "hiding"
  /\ row' = WithPreviews(viewer[v].at, {"active", "stopped", "failed"}, "stopped")
  /\ viewer' = [viewer EXCEPT ![v].pc = "writing"]
  /\ UNCHANGED <<runner, call, user, commands, faults>>

AllWritten(v) ==
  /\ viewer[v].pc = "writing" /\ viewer[v].seen = Nothing
  /\ viewer' = [viewer EXCEPT ![v] = IF @.whole THEN [@ EXCEPT !.pc = "missing"] ELSE Idle]
  /\ UNCHANGED <<runner, call, row, user, commands, faults>>

\* mark_missing_running_processes_failed, with the list as it was read.
MarkMissing(v) ==
  /\ viewer[v].pc = "missing"
  /\ row' = [p \in Background |->
       IF row[p].status = "running" /\ p \notin viewer[v].live
       THEN [row[p] EXCEPT !.status = "failed", !.lost = TRUE] ELSE row[p]]
  /\ viewer' = [viewer EXCEPT ![v].pc = "unlinking"]
  /\ UNCHANGED <<runner, call, user, commands, faults>>

FailPreviews(v) == LET failed == {p \in Background : row[p].status = "failed" /\ row[p].lost} IN
  /\ viewer[v].pc = "unlinking"
  /\ row' = WithPreviews(failed, {"active"}, "failed")
  /\ viewer' = [viewer EXCEPT ![v] = Idle]
  /\ UNCHANGED <<runner, call, user, commands, faults>>

ViewerStep(v) == WriteStatus(v) \/ StopPreviews(v) \/ AllWritten(v) \/ MarkMissing(v) \/ FailPreviews(v)

----------------------------------------------------------------------------
(* Stop and kill commands on a process that has a row                      *)

AskToStop(p) ==
  /\ user.pc = "idle" /\ row[p].status # "none" /\ commands < MaxCommands
  /\ \E pc \in {"stop", "kill"} : user' = [pc |-> pc, p |-> {p}]
  /\ commands' = commands + 1
  /\ UNCHANGED <<runner, call, row, viewer, faults>>

StopRecord == LET held == {p \in user.p : record[p] # "none"} IN
  /\ user.pc \in {"stop", "kill"} /\ held # {}
  /\ record' = [p \in Background |-> IF p \in held THEN "stopped" ELSE record[p]]
  /\ user' = [user EXCEPT !.pc = "terminating"]
  /\ UNCHANGED <<handler, alive, executions, cancels, watched, call, row, viewer, commands, faults>>

TerminateStopped ==
  /\ user.pc = "terminating"
  /\ alive' = alive \ user.p /\ user' = [user EXCEPT !.pc = "saving"]
  /\ UNCHANGED <<handler, executions, cancels, record, watched, call, row, viewer, commands, faults>>

\* The runner does not know the process, or does not answer.  A stop goes on
\* all the same, a kill of the user does not, a kill of the agent does.
StopIsRefused ==
  /\ user.pc \in {"stop", "kill"}
  /\ \/ \E p \in user.p : record[p] = "none"
        /\ UNCHANGED faults
     \/ Fault
  /\ user' \in {[user EXCEPT !.pc = "saving"]} \cup
              (IF user.pc = "kill" THEN {[pc |-> "idle", p |-> {}]} ELSE {})
  /\ UNCHANGED <<runner, call, row, viewer, commands>>

SaveStopped ==
  /\ user.pc = "saving"
  /\ row' = [p \in Background |-> IF p \in user.p THEN [row[p] EXCEPT !.status = "stopped"] ELSE row[p]]
  /\ user' = [user EXCEPT !.pc = "hiding"]
  /\ UNCHANGED <<runner, call, viewer, commands, faults>>

HideStopped ==
  /\ user.pc = "hiding"
  /\ row' = WithPreviews(user.p, {"active", "stopped", "failed"}, "stopped")
  /\ user' = [pc |-> "idle", p |-> {}]
  /\ UNCHANGED <<runner, call, viewer, commands, faults>>

----------------------------------------------------------------------------
CallStep(j) ==
  \/ Answered(j) \/ CallFails(j) \/ NoteCancel(j) \/ ReadExecutions(j)
  \/ j \in Background /\ ( \/ InsertRunningProcess(j) \/ CreateProcessPreview(j)
                           \/ KillCancelled(j) \/ TerminateCancelled(j) )

HandlerStep(j) ==
  \/ Spawn(j) \/ RegisterExecution(j) \/ CheckAgain(j)
  \/ RemoveExecution(j) \/ RemoveCancel(j)
  \/ j \in Background /\ RecordProcess(j)
  \/ j \in Foreground /\ CommandEnds(j)

\* A command of the user goes on; it may be refused, without a fault of its own
\* if the runner does not know the process.
CommandStep ==
  \/ StopRecord \/ TerminateStopped \/ SaveStopped \/ HideStopped
  \/ StopIsRefused /\ UNCHANGED faults

Next ==
  \/ \E j \in Job : \/ Call(j) \/ CallStep(j) \/ AbandonCall(j) \/ CancelCall(j)
                    \/ Receive(j) \/ HandlerStep(j) \/ DropHandler(j) \/ ProcessEnds(j)
  \/ \E p \in Background : RecordEnd(p) \/ AskToStop(p) \/ \E v \in Viewer : LookAtLog(v, p)
  \/ RunnerCrash
  \/ \E v \in Viewer : LookAtAll(v) \/ ViewerStep(v)
  \/ CommandStep \/ StopIsRefused

Spec == Init /\ [][Next]_vars

----------------------------------------------------------------------------
\* A cancelled call leaves nothing running, wherever the cancellation meets it:
\* the runner registers before it looks for a cancellation, and a cancellation
\* is noted before the registrations are read.  A process whose handler was
\* dropped between its start and the second look is the one exception.
CancelledDoesNotRun == \A j \in Job :
  call[j] = "cancelled" /\ handler[j] \notin {"spawned", "registered", "orphaned"}
    => j \notin alive

\* The list of processes, its logs, the end of a process and the commands of
\* the user all write the same row without looking at it; as long as the list
\* is read now and then, the row says in the end whether the process runs.
RowIsTrue(p) == row[p].status # "none" => (row[p].status = "running" <=> p \in alive)
=============================================================================
