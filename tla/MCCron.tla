------------------------------- MODULE MCCron -------------------------------
(***************************************************************************)
(* Properties of CronOccurrences, and its instances for TLC.               *)
(***************************************************************************)
EXTENDS CronOccurrences, TLC

TickerSymmetry == Permutations(Ticker)

\* run_count is the number of runs that were started, and never exceeds
\* max_runs: no tick, no colliding occurrence and no edit of the job that
\* writes a stale row back counts twice or forgets a run.
CountIsExact ==
  /\ job.count = Cardinality({s \in Time : occ[s].run # "none"})
  /\ job.count <= job.maxRuns

\* What the user reads of an occurrence is what became of its run: a success
\* is the result of a completed run only, and an occurrence called completed
\* has the result of that run, whichever worker wrote it and in which order
\* the statements after the COMMIT took effect.  It is finalized while its run
\* goes on only by a worker that lost its lease and was refused by the run's
\* row: without a lapsed lease or a lost statement it waits for the end of it.
OutcomeIsReal == \A s \in Time :
  /\ occ[s].result = "success" => occ[s].run = "completed"
  /\ occ[s].status = "completed" => /\ occ[s].run = "completed"
                                    /\ occ[s].result \in {"success", "error"}
  /\ faults = 0 /\ occ[s].result # "none" => occ[s].run \in Final

\* The next instant of the job is over, and it may run.
Due == job.enabled /\ ~job.deleted /\ job.next <= now /\ job.count < job.maxRuns
=============================================================================
