---------------------------- MODULE MCCronScenes ----------------------------
(***************************************************************************)
(* Two scenes of one cron job in one run of TLC, chosen at the start: two  *)
(* tickers under every policy, and one ticker under every command on the   *)
(* job, stale edits included.                                              *)
(***************************************************************************)
EXTENDS MCCron

VARIABLE scene

Ticking == INSTANCE CronSafety WITH
  Commands <- {"toggle", "answer", "cancel"}
Editing == INSTANCE CronSafety WITH
  Commands <- {"toggle", "trigger", "edit", "delete", "cancel"}

InitScene ==
  /\ Init /\ scene \in {"ticking", "editing"}
  /\ scene = "editing" => job.catchUp = "all" /\ job.maxRuns = 2

OneLooks == \A s, t \in Ticker : looking'[s] # Idle /\ looking'[t] # Idle => s = t

NextScene ==
  /\ \/ scene = "ticking" /\ Ticking!Next
     \/ scene = "editing" /\ Editing!Next /\ OneLooks
  /\ UNCHANGED scene

SceneSpec == InitScene /\ [][NextScene]_<<vars, scene>>

----------------------------------------------------------------------------
\* At most one occurrence of the job has a run that is not final: while a run
\* is queued, runs or waits for the user, fetch_due_job_for_update starts none.
\* Two tickers keep to it unless the backlog of a job has to be worked off: its
\* next instant may be due, too, when the second ticker locks the row.
OneLiveOccurrence ==
  scene = "editing" \/ job.catchUp # "all" =>
    \A s, u \in Time : occ[s].run \in Active /\ occ[u].run \in Active => s = u

\* Every instant that was started is counted once, and with catch_up_policy
\* "all" every instant of the interval before next_run_at has an occurrence,
\* started or skipped (unless trigger_job moved it).
InstantsAreCounted ==
  /\ CountIsExact
  /\ scene = "ticking" /\ job.catchUp = "all" /\ job.schedule = "interval" =>
       \A s \in 1 .. job.next - 1 : s % Period = 0 => occ[s].status # "none"
=============================================================================
