---------------------------- MODULE MCRunScenes ----------------------------
(***************************************************************************)
(* Two scenes of AgentRuns in one run of TLC, chosen at the start: two     *)
(* runs that compete for their session and may be parked by the provider,  *)
(* and one run that asks the user.                                         *)
(***************************************************************************)
EXTENDS MCAgentRuns

CONSTANT r1

VARIABLE scene

Contention == INSTANCE AgentRuns WITH AskedBy <- [d \in Decision |-> NoRun]
Conversation == INSTANCE AgentRuns WITH MaxRetries <- 0

Asker == [d \in Decision |-> r1]

\* In the conversation nothing happens to the other run, and once a fault
\* happened the questions are asked in the order d1, d2.
Alone == \A r \in Run \ {r1} : run'[r] = run[r]
InOrder == faults' = 0 \/ decision'[d2] = "none" \/ decision'[d1] # "none"

InitScene == Init /\ scene \in {"contention", "conversation"}

NextScene ==
  /\ \/ scene = "contention" /\ Contention!Next
     \/ scene = "conversation" /\ Conversation!Next /\ Alone /\ InOrder
  /\ UNCHANGED scene

SceneSpec == InitScene /\ [][NextScene]_<<vars, scene>>
=============================================================================
