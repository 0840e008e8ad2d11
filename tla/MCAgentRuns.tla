---------------------------- MODULE MCAgentRuns ----------------------------
(***************************************************************************)
(* Instances of AgentRuns for TLC: one chat session, and one run that asks *)
(* every decision.                                                         *)
(***************************************************************************)
EXTENDS AgentRunsInv, TLC

CONSTANTS s1, d1, d2

OneSession  == [r \in Run |-> s1]
AskedByRun  == [d \in Decision |-> CHOOSE r \in Run : TRUE]
FirstBlocks == Decision \cap {d1}

WorkerSymmetry == Permutations(Worker)
AllSymmetry    == Permutations(Worker) \cup Permutations(Run)
=============================================================================
