---------------------------- MODULE MCRunsSettle ----------------------------
(***************************************************************************)
(* What must happen in the end, in three scenes: two runs of a session,    *)
(* one of them without retries; one run that asks a blocking question      *)
(* while two workers are about; and a cron job that falls due.             *)
(***************************************************************************)
EXTENDS MCAgentRuns

CONSTANTS
  r1, w1,
  Ticker, CatchUp, Schedule, Period, Grace, MaxRuns, Commands, NoDraft, MaxTime

VARIABLES
  scene,
  now, job, draft, looking, occ, legs, later

Settling == INSTANCE AgentRuns WITH
  AskedBy <- [d \in Decision |-> NoRun], Worker <- {w1}
Cancelling == INSTANCE AgentRuns WITH MaxRetries <- 0
Cron == INSTANCE MCCron WITH duties <- later

cron == <<now, job, draft, looking, occ, legs, later>>

Asker == [d \in Decision |-> r1]

InitScene == scene \in {"settling", "cancelling", "due"} /\ Init /\ Cron!Init

NextScene ==
  /\ \/ scene = "settling" /\ Settling!Next /\ UNCHANGED cron
     \/ /\ scene = "cancelling" /\ Cancelling!Next /\ UNCHANGED cron
        /\ run' = [run EXCEPT ![r1] = run'[r1]]
     \/ /\ scene = "due" /\ Cron!Next
        /\ UNCHANGED <<run, events, open, decision, duties, leg>>
  /\ UNCHANGED scene

SceneSpec == InitScene /\ [][NextScene]_<<vars, scene, cron>>

In(name, A) == scene = name /\ A

\* The fairness of AgentRuns, scene by scene.
FairSettling ==
  /\ WF_vars(In("settling", Settling!WorkerStep(w1)))
  /\ SF_vars(In("settling", \E out \in Outcomes : Settling!LegEnds(w1, out)))
  /\ \A r \in Run :
       /\ SF_vars(In("settling", Settling!ReconcileOneStaleRun(r)))
       /\ SF_vars(In("settling", Settling!CancelOneQueuedRun(r)))
       /\ WF_vars(In("settling", ~Settling!Held(r) /\ Settling!LeaseLapses(r)))
       /\ WF_vars(In("settling", Settling!BackoffElapses(r)))
  /\ WF_vars(In("settling", \E duty \in duties : Settling!AppendEvent(duty)))

FairCancelling ==
  /\ \A w \in Worker :
       /\ WF_vars(In("cancelling", Cancelling!WorkerStep(w)))
       /\ SF_vars(In("cancelling", \E out \in Outcomes : Cancelling!LegEnds(w, out)))
  /\ SF_vars(In("cancelling", Cancelling!ReconcileOneStaleRun(r1)))
  /\ SF_vars(In("cancelling", Cancelling!CancelOneQueuedRun(r1)))
  /\ WF_vars(In("cancelling", ~Cancelling!Held(r1) /\ Cancelling!LeaseLapses(r1)))
  /\ \A d \in Decision : WF_vars(In("cancelling", Cancelling!RequeueWaitingRun(d)))
  /\ WF_vars(In("cancelling", \E duty \in duties : Cancelling!AppendEvent(duty)))

\* The fairness of CronOccurrences.  The worker loops and the tickers of the
\* living processes go on.  The users answer, since a waiting run blocks its job
\* for ever, and an agent does not ask for ever (its budget of turns ends).  No
\* statement after a COMMIT is fair: the process may die before it.
FairCron ==
  /\ \A t \in Ticker :
       /\ WF_cron(In("due", Cron!LookForDueJob(t)))
       /\ SF_cron(In("due", Cron!TickStep(t)))
  /\ \A s \in Cron!Time :
       /\ WF_cron(In("due", Cron!Claim(s)))
       /\ WF_cron(In("due", Cron!Answer(s)))
       /\ WF_cron(In("due", Cron!CancelOneQueuedRun(s)))
       /\ LET l == [slot |-> s, holds |-> TRUE]
          IN  SF_cron(In("due", l \in legs /\ Cron!LegFinishes(l)))

----------------------------------------------------------------------------
\* A requested cancellation becomes final, wherever it finds the run: queued,
\* parked, claimed, inside a tool call, paused, or held by a dead worker.
CancelSettles == FairCancelling =>
  (In("cancelling", run[r1].cancel) ~> run[r1].status \in Terminal)

\* Where no question is asked every accepted run reaches a final state:
\* crashes, lost leases, parked and competing runs only delay it.
EveryRunSettles == FairSettling =>
  \A r \in Run : In("settling", run[r].status = "queued") ~> run[r].status \in Terminal

\* A due job is always handled at last: no lost statement and no failed or
\* cancelled run keeps it from its next occurrence.
DueIsHandled == FairCron => (In("due", Cron!Due) ~> ~Cron!Due)
=============================================================================
