----------------------------- MODULE MemoryRecall -----------------------------
(***************************************************************************)
(* Recalled memories in the prompt of a run (services/runtime_memory.rs,   *)
(* services/chat.rs, agent_runs/worker.rs).  No lock is held from the      *)
(* search of the memories to the end of the run.  Instead every change of  *)
(* a memory raises the watermark of its profile, in the same transaction   *)
(* (a trigger); the leg notes the watermark before it searches, files a    *)
(* manifest under the run's id if the watermark is still the same, and     *)
(* compares the two again before it calls the model, twice a second while  *)
(* it runs, and before it delivers what it held back.                      *)
(***************************************************************************)
EXTENDS Naturals, FiniteSets

CONSTANTS
  General, Project,  \* the memories of the profile, and of the run's project
  Leg,               \* the legs of the run: 1 .. n
  MaxTries,          \* tries of a recall, and of a preparation (3 in the code)
  MaxChanges,        \* bound on the changes of memories
  MaxLapses          \* bound on legs that lose their lease and run on

MemoryRecallAssumption ==
  /\ General \cap Project = {} /\ Leg \subseteq Nat
  /\ MaxTries \in Nat \ {0} /\ MaxChanges \in Nat /\ MaxLapses \in Nat

VARIABLES
  memory,     \* memory[m]: row of agent_memories
  watermark,  \* memory_lifecycle_watermarks.revision
  manifest,   \* the run's row of run_memory_context_manifests
  leg,        \* leg[l]: what a leg of the run holds in memory
  lapses

vars == <<memory, watermark, manifest, leg, lapses>>

----------------------------------------------------------------------------
Memory == General \cup Project

Item == [memory : Memory, version : Nat]

LegState == [ pc : {"none", "reading", "general", "project", "persisting",
                    "comparing", "resetting", "checking", "executing",
                    "delivered", "withheld", "failed"},
              noted        : Nat,           \* the watermark before the search
              selected     : SUBSET Item,   \* what the prompt quotes
              tries        : 0 .. MaxTries,
              preparations : 0 .. MaxTries ]

\* Memories, manifest and legs have their types.
TypeOK ==
  /\ memory \in [Memory -> [active : BOOLEAN, version : Nat]]
  /\ watermark \in Nat \ {0}
  /\ manifest \in [filed : BOOLEAN, revision : Nat]
  /\ leg \in [Leg -> LegState]
  /\ lapses \in 0 .. MaxLapses

NoManifest == [filed |-> FALSE, revision |-> 0]

Unstarted == [pc |-> "none", noted |-> 0, selected |-> {}, tries |-> 0, preparations |-> 0]

Init ==
  /\ memory \in [Memory -> [active : BOOLEAN, version : {0}]]
  /\ watermark = 1 /\ manifest = NoManifest /\ lapses = 0
  /\ leg = [l \in Leg |-> Unstarted]

At(l, pc) == leg[l].pc = pc
Goto(l, pc) == leg' = [leg EXCEPT ![l].pc = pc]

Over == {"delivered", "withheld", "failed"}

\* memory_context_is_current: of the run, whichever leg filed the manifest.
Current == manifest.filed => manifest.revision = watermark

----------------------------------------------------------------------------
\* A memory is created, corrected, forgotten, reviewed, stale: every change
\* that the triggers of migration 074 look at.
ChangeMemory(m) ==
  /\ watermark <= MaxChanges
  /\ \E active \in BOOLEAN :
       memory' = [memory EXCEPT ![m] = [active |-> active, version |-> @.version + 1]]
  /\ watermark' = watermark + 1
  /\ UNCHANGED <<manifest, leg, lapses>>

\* The next leg is claimed when the one before has ended, or has lost its
\* lease and does not know it yet.
StartLeg(l) ==
  /\ At(l, "none")
  /\ \A k \in Leg : k < l => ~At(k, "none")
  /\ IF \A k \in Leg : k < l => leg[k].pc \in Over
     THEN UNCHANGED lapses
     ELSE lapses < MaxLapses /\ lapses' = lapses + 1
  /\ Goto(l, "reading")
  /\ UNCHANGED <<memory, watermark, manifest>>

----------------------------------------------------------------------------
(* automatic_recall_for_run                                                *)

ReadWatermark(l) ==
  /\ At(l, "reading")
  /\ leg' = [leg EXCEPT ![l].pc = "general", ![l].noted = watermark, ![l].selected = {}]
  /\ UNCHANGED <<memory, watermark, manifest, lapses>>

\* What a search finds: some of the active memories, as they are now.
Found(S) == {{[memory |-> m, version |-> memory[m].version] : m \in T} :
               T \in SUBSET {m \in S : memory[m].active}}

Search(l, pc, S, next) ==
  /\ At(l, pc)
  /\ \E found \in Found(S) :
       leg' = [leg EXCEPT ![l].pc = next, ![l].selected = @ \cup found]
  /\ UNCHANGED <<memory, watermark, manifest, lapses>>

SearchGeneral(l) == Search(l, "general", General, "project")
SearchProject(l) == Search(l, "project", Project, "persisting")

\* Mutant: the manifest is filed under the watermark as it is by now.
PersistUnguarded(l) ==
  /\ At(l, "persisting")
  /\ manifest' = IF ~manifest.filed THEN [filed |-> TRUE, revision |-> watermark] ELSE manifest
  /\ Goto(l, IF ~manifest.filed THEN "checking" ELSE "comparing")
  /\ UNCHANGED <<memory, watermark, lapses>>

\* The INSERT of persist_memory_manifest.
PersistManifest(l) == LET filed == watermark = leg[l].noted /\ ~manifest.filed IN
  /\ At(l, "persisting")
  /\ manifest' = IF filed THEN [filed |-> TRUE, revision |-> watermark] ELSE manifest
  /\ Goto(l, IF filed THEN "checking" ELSE "comparing")
  /\ UNCHANGED <<memory, watermark, lapses>>

\* A manifest that is there already will do if it has the noted revision.
CompareManifest(l) ==
  /\ At(l, "comparing")
  /\ Goto(l, IF manifest.filed /\ manifest.revision = leg[l].noted
             THEN "checking" ELSE "resetting")
  /\ UNCHANGED <<memory, watermark, manifest, lapses>>

\* The context changed: again, but after three times without recall.
ResetRecall(l) == LET again == leg[l].tries + 1 < MaxTries IN
  /\ At(l, "resetting")
  /\ manifest' = NoManifest
  /\ leg' = [leg EXCEPT ![l].pc = IF again THEN "reading" ELSE "checking",
                        ![l].tries = IF again THEN @ + 1 ELSE 0,
                        ![l].selected = IF again THEN @ ELSE {}]
  /\ UNCHANGED <<memory, watermark, lapses>>

\* The recalled block does not fit into the prompt (mark_recall_context_dropped).
DropRecall(l) ==
  /\ At(l, "checking") /\ leg[l].selected # {}
  /\ leg' = [leg EXCEPT ![l].selected = {}]
  /\ UNCHANGED <<memory, watermark, manifest, lapses>>

----------------------------------------------------------------------------
(* execute_chat_run                                                        *)

Dispatch(l) ==
  /\ At(l, "checking") /\ Current
  /\ Goto(l, "executing")
  /\ UNCHANGED <<memory, watermark, manifest, lapses>>

\* The check fails: the manifest is removed and the turn prepared again.
PrepareAgain(l) == LET n == leg[l].preparations + 1 IN
  /\ At(l, "checking") /\ ~Current
  /\ manifest' = NoManifest
  /\ leg' = [leg EXCEPT ![l].pc = IF n >= MaxTries THEN "failed" ELSE "reading",
                        ![l].preparations = n, ![l].tries = 0]
  /\ UNCHANGED <<memory, watermark, lapses>>

\* monitor_durable_cancellation.
Monitor(l) ==
  /\ At(l, "executing") /\ ~Current
  /\ Goto(l, "withheld")
  /\ UNCHANGED <<memory, watermark, manifest, lapses>>

\* The answer is delivered if the context is still current.
EndLeg(l) ==
  /\ At(l, "executing")
  /\ Goto(l, IF Current THEN "delivered" ELSE "withheld")
  /\ UNCHANGED <<memory, watermark, manifest, lapses>>

LegStep(l) ==
  \/ ReadWatermark(l) \/ SearchGeneral(l) \/ SearchProject(l)
  \/ PersistManifest(l) \/ CompareManifest(l) \/ ResetRecall(l)
  \/ Dispatch(l) \/ PrepareAgain(l) \/ EndLeg(l)

Next ==
  \/ \E m \in Memory : ChangeMemory(m)
  \/ \E l \in Leg : StartLeg(l) \/ LegStep(l) \/ DropRecall(l) \/ Monitor(l)

Spec == Init /\ [][Next]_vars

----------------------------------------------------------------------------
Fresh(l) == \A item \in leg[l].selected :
  memory[item.memory] = [active |-> TRUE, version |-> item.version]

\* No leg calls the model with a memory that was corrected, forgotten or
\* invalidated after it was found, nor delivers an answer that rests on one,
\* although the searches, the manifest and the checks are separate statements
\* (migrations/074: "A Run must not dispatch with recalled evidence that was
\* corrected, forgotten, or invalidated after prompt assembly").
RecalledIsFresh ==
  [][\A l \in Leg : \A pc \in {"executing", "delivered"} :
       leg'[l].pc = pc /\ ~At(l, pc) => Fresh(l)]_vars
=============================================================================
