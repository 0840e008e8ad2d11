------------------------------ MODULE Proactive ------------------------------
(***************************************************************************)
(* The proactive coordinator (services/proactive.rs).  Once a minute it    *)
(* looks for overdue tasks and proposes each, as a candidate, to every     *)
(* agent that is enabled; a user approves a candidate, which opens a       *)
(* session with one wake run, or ignores it for a time.  The approval is   *)
(* one transaction that locks the row of its candidate and nothing else:   *)
(* the settings, the runs of the day and the runs of the task are read     *)
(* statement by statement, as they are at that moment.                     *)
(***************************************************************************)
EXTENDS Naturals, FiniteSets

CONSTANTS
  Profile,      \* the agents
  Tasks,        \* the overdue tasks are 1 .. Tasks, the most overdue first
  NoTask,       \* what an idle review is about
  Limit,        \* LIMIT of the search for tasks (20 in the code)
  Budgets,      \* values of daily_run_budget
  Approval,     \* POST /candidates/{id}/approve, as often as it is called
  Concurrency,  \* bound on approvals under way at the same time
  MaxDay,       \* bound on the days
  MaxFaults     \* bound on rounds that fail or die with their process

ProactiveAssumption ==
  /\ Profile # {} /\ Tasks \in Nat /\ NoTask \notin 1 .. Tasks /\ Limit \in Nat \ {0}
  /\ Budgets \subseteq Nat /\ Concurrency \in Nat \ {0}
  /\ MaxDay \in Nat /\ MaxFaults \in Nat

VARIABLES
  setting,    \* setting[p]: row of proactive_settings
  candidate,  \* candidate[c]: row of proactive_candidates
  task,       \* task[t]: whether it is done, or a run of another kind is linked to it
  approval,   \* approval[a]: the transaction, and the wake run it has inserted
  round,      \* the coordinator's local variables
  day, faults

vars == <<setting, candidate, task, approval, round, day, faults>>

----------------------------------------------------------------------------
Task == 1 .. Tasks

\* (agent_profile, fingerprint) is unique: the fingerprint names the task, or
\* the week of an idle review.
Candidate == Profile \X (Task \cup {NoTask})

Locking == {"settings", "counting", "checking", "inserting"}

\* Settings, candidates, tasks, approvals and the round have their types.
TypeOK ==
  /\ setting \in [Profile -> [enabled : BOOLEAN, budget : Budgets]]
  /\ candidate \in [Candidate -> [status  : {"none", "discovered", "ignored", "spawned"},
                                  cooling : BOOLEAN]]
  /\ task \in [Task -> {"open", "worked", "done"}]
  /\ approval \in [Approval ->
       [pc : {"none", "locking", "over"} \cup Locking, candidate : Candidate,
        day : 0 .. MaxDay, budget : Budgets \cup {0}, run : {"none", "active", "ended"}]]
  /\ round \in [pc : {"waiting", "profiles", "inserting"}, left : SUBSET Profile,
                profile : Profile, found : SUBSET Task, new : BOOLEAN]
  /\ day \in 0 .. MaxDay /\ faults \in 0 .. MaxFaults

Waiting == [pc |-> "waiting", left |-> {}, profile |-> CHOOSE p \in Profile : TRUE,
            found |-> {}, new |-> FALSE]

NoApproval == [pc |-> "none", candidate |-> CHOOSE c \in Candidate : TRUE, day |-> 0,
               budget |-> 0, run |-> "none"]

Init ==
  /\ setting \in [Profile -> [enabled : {TRUE}, budget : Budgets]]
  /\ candidate = [c \in Candidate |-> [status |-> "none", cooling |-> FALSE]]
  /\ task = [t \in Task |-> "open"]
  /\ approval = [a \in Approval |-> NoApproval]
  /\ round = Waiting
  /\ day = 0 /\ faults = 0

At(a, pc) == approval[a].pc = pc
Goto(a, pc) == approval' = [approval EXCEPT ![a].pc = pc]
Refuse(a) == approval' = [approval EXCEPT ![a] = [NoApproval EXCEPT !.pc = "over"]]
UnderWay == {a \in Approval : approval[a].pc \in {"locking"} \cup Locking}

\* The row lock of SELECT ... FOR UPDATE, held until COMMIT or ROLLBACK.
Locked(c) == \E a \in Approval : approval[a].pc \in Locking /\ approval[a].candidate = c

Owner(a) == approval[a].candidate[1]
Spawned(a) == approval[a].run # "none"

\* created_at >= date_trunc('day', now()): now() is the time of BEGIN.
RunsToday(p, today) == {a \in Approval : Spawned(a) /\ Owner(a) = p /\ approval[a].day >= today}

\* A run that is queued, running or waiting is linked to the task.
Active(t) ==
  \/ task[t] = "worked"
  \/ \E a \in Approval : approval[a].run = "active" /\ approval[a].candidate[2] = t

----------------------------------------------------------------------------
(* approve_candidate                                                       *)

Begin(a, c) ==
  /\ At(a, "none") /\ Cardinality(UnderWay) < Concurrency
  /\ candidate[c].status # "none"
  /\ approval' = [approval EXCEPT ![a].pc = "locking", ![a].candidate = c, ![a].day = day]
  /\ UNCHANGED <<setting, candidate, task, round, day, faults>>

Look(a) == LET c == approval[a].candidate IN
  /\ At(a, "locking")
  /\ IF candidate[c].status = "discovered" THEN Goto(a, "settings") ELSE Refuse(a)
  /\ UNCHANGED <<setting, candidate, task, round, day, faults>>

\* Mutant: the candidate is read without FOR UPDATE.
ReadCandidate(a) == Look(a)

\* A spawned candidate is returned as it is, an ignored one is refused.
LockCandidate(a) == ~Locked(approval[a].candidate) /\ Look(a)

ReadSettings(a) == LET s == setting[Owner(a)] IN
  /\ At(a, "settings")
  /\ IF s.enabled
     THEN approval' = [approval EXCEPT ![a].pc = "counting", ![a].budget = s.budget]
     ELSE Refuse(a)
  /\ UNCHANGED <<setting, candidate, task, round, day, faults>>

Exhausted(a) ==
  Cardinality(RunsToday(Owner(a), approval[a].day)) >= approval[a].budget

CountRuns(a) ==
  /\ At(a, "counting")
  /\ IF Exhausted(a) THEN Refuse(a)
     ELSE approval' = [approval EXCEPT ![a].pc = "checking", ![a].budget = 0]
  /\ UNCHANGED <<setting, candidate, task, round, day, faults>>

CheckTask(a) == LET t == approval[a].candidate[2] IN
  /\ At(a, "checking")
  /\ IF t \in Task /\ Active(t) THEN Refuse(a) ELSE Goto(a, "inserting")
  /\ UNCHANGED <<setting, candidate, task, round, day, faults>>

\* Session, run, input and link are inserted, the candidate is updated: COMMIT.
SpawnRun(a) ==
  /\ At(a, "inserting")
  /\ approval' = [approval EXCEPT ![a].pc = "over", ![a].run = "active"]
  /\ candidate' = [candidate EXCEPT ![approval[a].candidate].status = "spawned"]
  /\ UNCHANGED <<setting, task, round, day, faults>>

\* The request is dropped or a statement fails: ROLLBACK.
DropApproval(a) ==
  /\ a \in UnderWay
  /\ Refuse(a)
  /\ UNCHANGED <<setting, candidate, task, round, day, faults>>

ApprovalStep(a) ==
  LockCandidate(a) \/ ReadSettings(a) \/ CountRuns(a) \/ CheckTask(a) \/ SpawnRun(a)

\* The wake run reaches a final status.
EndRun(a) ==
  /\ approval[a].run = "active"
  /\ approval' = [approval EXCEPT ![a].run = "ended"]
  /\ UNCHANGED <<setting, candidate, task, round, day, faults>>

----------------------------------------------------------------------------
(* The user, the other runs, and time                                      *)

IgnoreCandidate(c) ==
  /\ candidate[c].status = "discovered" /\ ~Locked(c)
  /\ candidate' = [candidate EXCEPT ![c] = [status |-> "ignored", cooling |-> TRUE]]
  /\ UNCHANGED <<setting, task, approval, round, day, faults>>

CooldownPasses(c) ==
  /\ candidate[c].cooling
  /\ candidate' = [candidate EXCEPT ![c].cooling = FALSE]
  /\ UNCHANGED <<setting, task, approval, round, day, faults>>

UpdateSettings(p) ==
  /\ \E enabled \in BOOLEAN, budget \in Budgets :
       setting' = [setting EXCEPT ![p] = [enabled |-> enabled, budget |-> budget]]
  /\ UNCHANGED <<candidate, task, approval, round, day, faults>>

\* A run of another kind takes the task up, and the task is done in the end.
ChangeTask(t) ==
  /\ \/ task[t] = "open" /\ task' = [task EXCEPT ![t] = "worked"]
     \/ task[t] = "worked" /\ task' = [task EXCEPT ![t] = "done"]
  /\ UNCHANGED <<setting, candidate, approval, round, day, faults>>

DayBreaks ==
  /\ day < MaxDay
  /\ day' = day + 1
  /\ UNCHANGED <<setting, candidate, task, approval, round, faults>>

----------------------------------------------------------------------------
(* discover_candidates                                                     *)

BeginRound ==
  /\ round.pc = "waiting"
  /\ round' = [round EXCEPT !.pc = "profiles", !.left = {p \in Profile : setting[p].enabled}]
  /\ UNCHANGED <<setting, candidate, task, approval, day, faults>>

SkipProfile(p) ==  \* in_quiet_hours
  /\ round.pc = "profiles" /\ p \in round.left
  /\ round' = [round EXCEPT !.left = @ \ {p}]
  /\ UNCHANGED <<setting, candidate, task, approval, day, faults>>

\* Overdue, not done, nobody works on it: ORDER BY due_date LIMIT.
Overdue(t) == task[t] # "done" /\ ~Active(t)
First(S) == {t \in S : Cardinality({u \in S : u < t}) < Limit}
Searched == First({t \in Task : Overdue(t)})

SearchTasks(p) ==
  /\ round.pc = "profiles" /\ p \in round.left
  /\ round' = [pc |-> "inserting", left |-> round.left \ {p}, profile |-> p,
               found |-> Searched, new |-> FALSE]
  /\ UNCHANGED <<setting, candidate, task, approval, day, faults>>

\* A candidate that was ignored may come back after its cooldown, one that was
\* spawned never does.
Hidden(c) ==
  \/ candidate[c].status = "none"
  \/ candidate[c].status = "ignored" /\ ~candidate[c].cooling

Insert(c) == candidate' = [candidate EXCEPT ![c] = [status |-> "discovered", cooling |-> FALSE]]

\* Mutant: ON CONFLICT DO NOTHING.
SurfaceOnce(c) == IF candidate[c].status = "none" THEN Insert(c) ELSE UNCHANGED candidate

\* ON CONFLICT DO UPDATE ... WHERE.
Surface(c) == IF Hidden(c) THEN Insert(c) ELSE UNCHANGED candidate

InsertCandidate(t) == LET c == <<round.profile, t>> IN
  /\ round.pc = "inserting" /\ t \in round.found /\ \A u \in round.found : t <= u
  /\ ~Locked(c)
  /\ Surface(c)
  /\ round' = [round EXCEPT !.found = @ \ {t}, !.new = @ \/ Hidden(c)]
  /\ UNCHANGED <<setting, task, approval, day, faults>>

\* Nothing new: an idle review is proposed if the agent was idle for days.
EndProfile == LET c == <<round.profile, NoTask>> IN
  /\ round.pc = "inserting" /\ round.found = {}
  /\ \/ UNCHANGED candidate
     \/ ~round.new /\ ~Locked(c) /\ Surface(c)
  /\ round' = [round EXCEPT !.pc = "profiles"]
  /\ UNCHANGED <<setting, task, approval, day, faults>>

EndRound ==
  /\ round.pc = "profiles" /\ round.left = {}
  /\ round' = Waiting
  /\ UNCHANGED <<setting, candidate, task, approval, day, faults>>

\* A statement fails or the process dies: the profiles left wait for the next.
RoundFails ==
  /\ round.pc # "waiting" /\ faults < MaxFaults
  /\ faults' = faults + 1 /\ round' = Waiting
  /\ UNCHANGED <<setting, candidate, task, approval, day>>

RoundStep ==
  \/ BeginRound \/ EndProfile \/ EndRound
  \/ \E p \in Profile : SkipProfile(p) \/ SearchTasks(p)
  \/ \E t \in Task : InsertCandidate(t)

----------------------------------------------------------------------------
Next ==
  \/ \E a \in Approval : \/ \E c \in Candidate : Begin(a, c)
                         \/ ApprovalStep(a) \/ DropApproval(a) \/ EndRun(a)
  \/ \E c \in Candidate : IgnoreCandidate(c) \/ CooldownPasses(c)
  \/ \E p \in Profile : UpdateSettings(p)
  \/ \E t \in Task : ChangeTask(t)
  \/ DayBreaks \/ RoundStep \/ RoundFails

----------------------------------------------------------------------------
\* A candidate that is called spawned has one wake run, however often it was
\* approved at the same time, and any other has none.  The runs of a day, which
\* are counted without a lock, exceed the budget by less than the number of
\* approvals that were under way together: one at a time, not at all.
WakesAreApproved ==
  /\ \A c \in Candidate :
       Cardinality({a \in Approval : Spawned(a) /\ approval[a].candidate = c})
         = IF candidate[c].status = "spawned" THEN 1 ELSE 0
  /\ \A p \in Profile, d \in 0 .. MaxDay : \E b \in Budgets :
       Cardinality({a \in RunsToday(p, d) : approval[a].day = d}) + 1 <= b + Concurrency

\* An overdue task that is searched for and that nobody works on, proposed to
\* an agent that is enabled, is not left without a proposal.
Starves(p, t) == setting[p].enabled /\ t \in Searched /\ Hidden(<<p, t>>)
=============================================================================
