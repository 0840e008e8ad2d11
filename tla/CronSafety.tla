----------------------------- MODULE CronSafety -----------------------------
(***************************************************************************)
(* Safety of one cron job, for any number of tickers, every schedule and   *)
(* bound on the runs, every set of commands and any number of faults.      *)
(***************************************************************************)
EXTENDS MCCron, FiniteSetTheorems, TLAPS

\* The row of the job and what tickers and requests remember of it.
JobTyped ==
  /\ now \in 0 .. MaxTime /\ job \in Job
  /\ draft \in {NoDraft} \cup [enabled : BOOLEAN, next : Time]
  /\ looking \in [Ticker -> 0 .. Idle]

\* An occurrence o, while f faults have happened: it has a run only after its
\* row was inserted, and what is said of the run is what became of it.
OccSound(o, f) ==
  /\ o.status = "none" => o.run = "none" /\ o.result = "none"
  /\ o.result = "success" => o.run = "completed"
  /\ o.status = "completed" => o.run = "completed" /\ o.result \in {"success", "error"}
  /\ f = 0 /\ o.result # "none" => o.run \in Final

\* A leg that holds the lease has a running run; one that does not has lost it.
LegSound(l, o, f) ==
  /\ o.run # "none"
  /\ IF l.holds THEN o.run = "running" ELSE f # 0

\* A pending statement is about a run that was started; it says completed only
\* of a completed run, which has its result before its status.
DutySound(d, o, f) ==
  /\ o.run # "none"
  /\ d.step # "waiting" => d.as \in Final
  /\ d.step = "result" => /\ d.as = "completed" => o.run = "completed"
                          /\ f = 0 => o.run \in Final
  /\ d.step = "status" /\ d.as = "completed" =>
       o.run = "completed" /\ o.result \in {"success", "error"}

Sound ==
  /\ \A s \in Time : OccSound(occ[s], faults)
  /\ \A l \in legs : LegSound(l, occ[l.slot], faults)
  /\ \A d \in duties : DutySound(d, occ[d.slot], faults)

Inv == TypeOK /\ Sound /\ CountIsExact

\* No occurrence disappears, and no run is started or comes to life again.
SlotsGoOn == \A s \in Time :
  /\ occ[s].status # "none" => occ'[s].status # "none"
  /\ occ'[s].run \in Active => occ[s].run \in Active

\* The instants are finitely many, and so are those that were started.
LEMMA FiniteTime == IsFiniteSet(Time) /\ IsFiniteSet({s \in Time : occ[s].run # "none"})
<1>1. MaxTime + Period \in Int  BY CronAssumption DEF CronAssumption
<1>2. IsFiniteSet(Time)  BY <1>1, FS_Interval DEF Time
<1>3. QED  BY <1>2, FS_Subset

----------------------------------------------------------------------------
(* The shapes of a step                                                    *)

\* The row of the job changes, or what a ticker or a request holds of it.
LEMMA JobMoves ==
  ASSUME Inv, JobTyped', UNCHANGED <<occ, legs, duties, faults, job.count, job.maxRuns>>
  PROVE  Inv' /\ SlotsGoOn
<1>1. TypeOK'  BY DEF Inv, TypeOK, JobTyped
<1>2. Sound'  BY DEF Inv, Sound
<1>3. CountIsExact'  BY DEF Inv, CountIsExact
<1>4. SlotsGoOn  BY DEF SlotsGoOn
<1>5. QED  BY <1>1, <1>2, <1>3, <1>4 DEF Inv

\* One occurrence changes: its run is neither started nor, once it is final,
\* touched, and its result is kept; legs and statements that are new are sound.
LEMMA SlotMoves ==
  ASSUME Inv, NEW s \in Time, NEW o \in Occurrence, SetOccurrence(s, o),
         JobTyped', UNCHANGED <<job.count, job.maxRuns>>,
         faults' \in 0 .. MaxFaults, faults <= faults',
         OccSound(o, faults'),
         o.run = "none" <=> occ[s].run = "none",
         o.run = "none" => o.status # "none",
         occ[s].run \in Final => o.run = occ[s].run,
         occ[s].result # "none" => o.result = occ[s].result,
         legs' \subseteq Leg, duties' \subseteq Duty,
         \A l \in legs' : \/ l \in legs /\ l.slot # s
                          \/ l.slot = s /\ LegSound(l, o, faults'),
         \A d \in duties' : \/ d \in duties
                            \/ d.slot = s /\ DutySound(d, o, faults')
  PROVE  Inv' /\ SlotsGoOn
<1>1. /\ occ \in [Time -> Occurrence] /\ occ' \in [Time -> Occurrence] /\ occ'[s] = o
      /\ \A u \in Time \ {s} : occ'[u] = occ[u]
      /\ faults \in Nat /\ faults' \in Nat
  BY CronAssumption DEF Inv, TypeOK, SetOccurrence, CronAssumption
<1>2. TypeOK'  BY <1>1 DEF Inv, TypeOK, JobTyped
<1>3. ASSUME NEW u \in Time PROVE OccSound(occ[u], faults)'
  <2>1. CASE u = s  BY <1>1, <2>1
  <2>2. CASE u # s
    <3>1. OccSound(occ[u], faults)  BY DEF Inv, Sound
    <3>2. QED  BY <1>1, <2>2, <3>1 DEF OccSound
  <2>3. QED  BY <2>1, <2>2
<1>4. ASSUME NEW l \in legs' PROVE LegSound(l, occ'[l.slot], faults')
  <2>1. CASE l.slot = s /\ LegSound(l, o, faults')  BY <1>1, <2>1
  <2>2. CASE l \in legs /\ l.slot # s
    <3>1. LegSound(l, occ[l.slot], faults) /\ l.slot \in Time
      BY <2>2 DEF Inv, Sound, TypeOK, Leg
    <3>2. QED  BY <1>1, <2>2, <3>1 DEF LegSound
  <2>3. QED  BY <2>1, <2>2
<1>5. ASSUME NEW d \in duties' PROVE DutySound(d, occ'[d.slot], faults')
  <2>1. CASE d.slot = s /\ DutySound(d, o, faults')  BY <1>1, <2>1
  <2>2. CASE d \in duties
    <3>1. DutySound(d, occ[d.slot], faults) /\ d.slot \in Time
      BY <2>2 DEF Inv, Sound, TypeOK, Duty
    <3>2. CASE d.slot # s  BY <1>1, <3>1, <3>2 DEF DutySound
    <3>3. CASE d.slot = s  BY <1>1, <3>1, <3>3 DEF DutySound, Final
    <3>4. QED  BY <3>2, <3>3
  <2>3. QED  BY <2>1, <2>2
<1>6. CountIsExact'
  <2>1. {u \in Time : occ'[u].run # "none"} = {u \in Time : occ[u].run # "none"}  BY <1>1
  <2>2. QED  BY <2>1 DEF Inv, CountIsExact
<1>7. SlotsGoOn
  <2>1. occ[s].run \in {"none"} \cup Active \cup Final  BY <1>1 DEF Occurrence
  <2>2. o.status # "none"  BY DEF OccSound
  <2>3. o.run \in Active => occ[s].run \in Active  BY <2>1 DEF Active, Final
  <2>4. QED  BY <1>1, <2>2, <2>3 DEF SlotsGoOn
<1>8. QED  BY <1>2, <1>3, <1>4, <1>5, <1>6, <1>7 DEF Inv, Sound

\* An instant of the job is within the bound of the model.
LEMMA NextInTime ==
  ASSUME NEW schedule \in Schedule, NEW base \in 0 .. MaxTime
  PROVE  ComputeNextRun(schedule, base) \in Time /\ base \in Time
BY CronAssumption DEF CronAssumption, ComputeNextRun, Time

\* What a step leaves of the row of the job is a row.
LEMMA JobEdited ==
  ASSUME job \in Job, NEW next \in Time, NEW count \in Nat, NEW enabled \in BOOLEAN,
         NEW deleted \in BOOLEAN
  PROVE  /\ [job EXCEPT !.enabled = enabled, !.deleted = deleted, !.next = next,
                        !.count = count] \in Job
         /\ [job EXCEPT !.enabled = enabled] \in Job
         /\ [job EXCEPT !.enabled = enabled, !.next = next] \in Job
         /\ [job EXCEPT !.enabled = enabled, !.deleted = deleted] \in Job
         /\ [job EXCEPT !.next = next, !.count = count, !.enabled = enabled] \in Job
BY DEF Job

\* The clock goes on, or the user edits the job.
LEMMA UserMoves == ASSUME Inv, Pass \/ UserStep PROVE Inv' /\ SlotsGoOn
<1>1. /\ now \in 0 .. MaxTime /\ job \in Job /\ looking \in [Ticker -> 0 .. Idle]
      /\ draft \in {NoDraft} \cup [enabled : BOOLEAN, next : Time]
      /\ MaxTime \in Nat /\ Period \in Nat
      /\ job.enabled \in BOOLEAN /\ job.next \in Time /\ job.schedule \in Schedule
  BY CronAssumption DEF Inv, TypeOK, Job, CronAssumption
<1>2. CASE Pass
  BY <1>1, <1>2, JobMoves DEF Pass, JobTyped
<1>3. CASE SetEnabled
  <2>1. PICK enabled \in BOOLEAN : job' = [job EXCEPT !.enabled = enabled]
    BY <1>3 DEF SetEnabled
  <2>2. job' \in Job  BY <1>1, <2>1, JobEdited
  <2>3. job'.count = job.count /\ job'.maxRuns = job.maxRuns  BY <1>1, <2>1 DEF Job
  <2>4. QED  BY <1>1, <1>3, <2>2, <2>3, JobMoves DEF SetEnabled, JobTyped
<1>4. CASE TriggerJob
  <2>1. now' = now + 1 /\ now' \in 0 .. MaxTime /\ now' \in Time
    BY <1>1, <1>4 DEF TriggerJob, Time
  <2>2. PICK next \in Time : next = now'  BY <2>1
  <2>3. job' = [job EXCEPT !.enabled = TRUE, !.next = next]
    BY <1>4, <2>2 DEF TriggerJob
  <2>4. job' \in Job  BY <1>1, <2>3, JobEdited
  <2>5. job'.count = job.count /\ job'.maxRuns = job.maxRuns  BY <1>1, <2>3 DEF Job
  <2>6. QED  BY <1>1, <1>4, <2>1, <2>4, <2>5, JobMoves DEF TriggerJob, JobTyped
<1>5. CASE DeleteJob
  <2>1. job' = [job EXCEPT !.enabled = FALSE, !.deleted = TRUE]  BY <1>5 DEF DeleteJob
  <2>2. job' \in Job  BY <1>1, <2>1, JobEdited
  <2>3. job'.count = job.count /\ job'.maxRuns = job.maxRuns  BY <1>1, <2>1 DEF Job
  <2>4. QED  BY <1>1, <1>5, <2>2, <2>3, JobMoves DEF DeleteJob, JobTyped
<1>6. CASE FetchJob
  <2>1. PICK enabled \in {job.enabled, TRUE, FALSE},
             next \in {job.next, ComputeNextRun(job.schedule, now)} :
          draft' = [enabled |-> enabled, next |-> next]
    BY <1>6 DEF FetchJob
  <2>2. enabled \in BOOLEAN /\ next \in Time  BY <1>1, NextInTime
  <2>3. draft' \in [enabled : BOOLEAN, next : Time]  BY <2>1, <2>2
  <2>4. QED  BY <1>1, <1>6, <2>3, JobMoves DEF FetchJob, JobTyped
<1>7. CASE UpdateJob
  <2>1. draft \in [enabled : BOOLEAN, next : Time]  BY <1>1, <1>7 DEF UpdateJob
  <2>2. draft.enabled \in BOOLEAN /\ draft.next \in Time  BY <2>1
  <2>3. [job EXCEPT !.enabled = draft.enabled, !.next = draft.next] \in Job
    BY <1>1, <2>2, JobEdited
  <2>4. job' \in Job  BY <1>1, <1>7, <2>3 DEF UpdateJob
  <2>5. job'.count = job.count /\ job'.maxRuns = job.maxRuns  BY <1>1, <1>7 DEF UpdateJob, Job
  <2>6. QED  BY <1>1, <1>7, <2>4, <2>5, JobMoves DEF UpdateJob, JobTyped
<1>8. QED  BY <1>2, <1>3, <1>4, <1>5, <1>6, <1>7 DEF UserStep

\* A ticker that settles an instant finds the job due, and advances it.
LEMMA TickTyped ==
  ASSUME Inv, NEW t \in Ticker, NEW counted \in BOOLEAN, Tick(t, counted)
  PROVE  /\ JobTyped' /\ job'.maxRuns = job.maxRuns
         /\ job'.count = IF counted THEN job.count + 1 ELSE job.count
         /\ job.next \in Time /\ job.count < job.maxRuns /\ job.next <= MaxTime
         /\ UNCHANGED <<now, draft, legs, duties, faults>>
<1>1. /\ now \in 0 .. MaxTime /\ job \in Job /\ looking \in [Ticker -> 0 .. Idle]
      /\ draft \in {NoDraft} \cup [enabled : BOOLEAN, next : Time]
      /\ MaxTime \in Nat /\ Period \in Nat
      /\ job.enabled \in BOOLEAN /\ job.next \in Time /\ job.schedule \in Schedule
      /\ job.count \in Nat
  BY CronAssumption DEF Inv, TypeOK, Job, CronAssumption
<1>2. job.next <= MaxTime /\ job.count < job.maxRuns
  <2>1. looking[t] \in 0 .. Idle /\ looking[t] # Idle /\ job.next <= looking[t]
    BY <1>1 DEF Tick, Claimable
  <2>2. QED  BY <1>1, <2>1 DEF Idle, Tick, Claimable, Time
<1>3. Base \in 0 .. MaxTime  BY <1>1, <1>2 DEF Base, Time
<1>4. PICK next \in Time : next = ComputeNextRun(job.schedule, Base)
  BY <1>1, <1>3, NextInTime
<1>5. PICK count \in Nat : count = IF counted THEN job.count + 1 ELSE job.count
  BY <1>1
<1>6. PICK enabled \in BOOLEAN : enabled = (job.enabled /\ job.schedule # "once")  OBVIOUS
<1>7. job' = [job EXCEPT !.next = next, !.count = count, !.enabled = enabled]
  BY <1>4, <1>5, <1>6 DEF Tick, Advanced
<1>8. job' \in Job  BY <1>1, <1>7, JobEdited
<1>9. job'.maxRuns = job.maxRuns /\ job'.count = count  BY <1>1, <1>7 DEF Job
<1>10. looking' \in [Ticker -> 0 .. Idle]  BY <1>1 DEF Tick, Idle
<1>11. UNCHANGED <<now, draft, legs, duties, faults>>  BY DEF Tick
<1>12. QED  BY <1>1, <1>2, <1>5, <1>8, <1>9, <1>10, <1>11 DEF JobTyped

\* A ticker looks for the job, gives up, or settles an instant without a run.
LEMMA TickerMoves ==
  ASSUME Inv, NEW t \in Ticker, LookForDueJob(t) \/ GiveUp(t) \/ Skip(t) \/ AlreadyInserted(t)
  PROVE  Inv' /\ SlotsGoOn
<1>1. /\ JobTyped /\ MaxTime \in Nat
  BY CronAssumption DEF Inv, TypeOK, JobTyped, CronAssumption
<1>2. CASE LookForDueJob(t) \/ GiveUp(t)
  <2>1. \E n \in 0 .. Idle : looking' = [looking EXCEPT ![t] = n]
    BY <1>1, <1>2 DEF LookForDueJob, GiveUp, JobTyped, Idle
  <2>2. UNCHANGED <<now, job, draft, occ, legs, duties, faults>>
    BY <1>2 DEF LookForDueJob, GiveUp
  <2>3. JobTyped'  BY <1>1, <2>1, <2>2 DEF JobTyped
  <2>4. QED  BY <2>2, <2>3, JobMoves
<1>3. CASE AlreadyInserted(t)
  BY <1>3, TickTyped, JobMoves DEF AlreadyInserted
<1>4. CASE Skip(t)
  <2>1. Tick(t, FALSE)  BY <1>4 DEF Skip
  <2>2. CASE occ' = occ  BY <2>1, <2>2, TickTyped, JobMoves
  <2>3. CASE occ' # occ
    <3>1. /\ occ[job.next].status = "none" /\ job.next \in Time
          /\ SetOccurrence(job.next, [NewOccurrence EXCEPT !.status = "skipped"])
      BY <1>4, <2>1, <2>3, TickTyped DEF Skip
    <3>2. PICK s \in Time : s = job.next  BY <3>1
    <3>3. PICK o \in Occurrence : o = [NewOccurrence EXCEPT !.status = "skipped"]
      BY DEF NewOccurrence, Occurrence, Final, Active
    <3>4. o.status = "skipped" /\ o.run = "none" /\ o.result = "none"
      BY <3>3 DEF NewOccurrence
    <3>5. OccSound(occ[s], faults) /\ occ[s].run = "none" /\ occ[s].result = "none"
      BY <3>1, <3>2 DEF Inv, Sound, OccSound
    <3>6. \A l \in legs : l.slot # s
      BY <3>5 DEF Inv, Sound, LegSound
    <3>7. OccSound(o, faults)  BY <3>4 DEF OccSound
    <3>8. SetOccurrence(s, o)  BY <3>1, <3>2, <3>3
    <3>9. legs \subseteq Leg /\ duties \subseteq Duty /\ faults \in 0 .. MaxFaults
          /\ faults <= faults
      BY CronAssumption DEF Inv, TypeOK, CronAssumption
    <3>10. "none" \notin Final  BY DEF Final
    <3>11. JobTyped' /\ UNCHANGED <<job.count, job.maxRuns, legs, duties, faults>>
      BY <2>1, TickTyped
    <3>12. QED  BY <3>4, <3>5, <3>6, <3>7, <3>8, <3>9, <3>10, <3>11, SlotMoves
  <2>4. QED  BY <2>2, <2>3
<1>5. QED  BY <1>2, <1>3, <1>4

\* An instant is started, and counted.
LEMMA EnqueueStep == ASSUME Inv, NEW t \in Ticker, Enqueue(t) PROVE Inv'
<1> DEFINE Begun == {s \in Time : occ[s].run # "none"}
<1>1. Tick(t, TRUE)  BY DEF Enqueue
<1>2. /\ JobTyped' /\ job'.maxRuns = job.maxRuns /\ job'.count = job.count + 1
      /\ job.next \in Time /\ job.count < job.maxRuns
      /\ UNCHANGED <<legs, duties, faults>>
  BY <1>1, TickTyped
<1>3. PICK s \in Time : s = job.next  BY <1>2
<1>4. PICK o \in Occurrence : o = [NewOccurrence EXCEPT !.status = "enqueued", !.run = "queued"]
  BY DEF NewOccurrence, Occurrence, Final, Active
<1>5. o.status = "enqueued" /\ o.run = "queued" /\ o.result = "none"
  BY <1>4 DEF NewOccurrence
<1>6. occ[s].status = "none" /\ occ' = [occ EXCEPT ![s] = o]
  BY <1>3, <1>4 DEF Enqueue, SetOccurrence
<1>7. /\ occ \in [Time -> Occurrence] /\ occ' \in [Time -> Occurrence] /\ occ'[s] = o
      /\ \A u \in Time \ {s} : occ'[u] = occ[u]
  BY <1>6 DEF Inv, TypeOK
<1>8. occ[s].run = "none"  BY <1>6 DEF Inv, Sound, OccSound
<1>9. TypeOK'  BY <1>2, <1>7 DEF Inv, TypeOK, JobTyped
<1>10. Sound'
  <2>1. ASSUME NEW u \in Time PROVE OccSound(occ[u], faults)'
    <3>1. CASE u = s  BY <1>5, <1>7, <3>1 DEF OccSound
    <3>2. CASE u # s
      <4>1. OccSound(occ[u], faults)  BY DEF Inv, Sound
      <4>2. QED  BY <1>2, <1>7, <3>2, <4>1
    <3>3. QED  BY <3>1, <3>2
  <2>2. ASSUME NEW l \in legs PROVE LegSound(l, occ'[l.slot], faults')
    <3>1. LegSound(l, occ[l.slot], faults) /\ l.slot \in Time
      BY DEF Inv, Sound, TypeOK, Leg
    <3>2. l.slot # s  BY <1>8, <3>1 DEF LegSound
    <3>3. QED  BY <1>2, <1>7, <3>1, <3>2
  <2>3. ASSUME NEW d \in duties PROVE DutySound(d, occ'[d.slot], faults')
    <3>1. DutySound(d, occ[d.slot], faults) /\ d.slot \in Time
      BY DEF Inv, Sound, TypeOK, Duty
    <3>2. d.slot # s  BY <1>8, <3>1 DEF DutySound
    <3>3. QED  BY <1>2, <1>7, <3>1, <3>2
  <2>4. QED  BY <1>2, <2>1, <2>2, <2>3 DEF Sound
<1>11. CountIsExact'
  <2>1. s \notin Begun /\ Begun' = Begun \cup {s}  BY <1>5, <1>7, <1>8
  <2>2. Cardinality(Begun') = Cardinality(Begun) + 1
    BY <2>1, FiniteTime, FS_AddElement
  <2>3. job.count = Cardinality(Begun)  BY DEF Inv, CountIsExact
  <2>4. job'.count <= job'.maxRuns
    <3>1. job.count \in Nat /\ job.maxRuns \in Nat
      BY CronAssumption DEF Inv, TypeOK, Job, CronAssumption
    <3>2. QED  BY <1>2, <3>1
  <2>5. QED  BY <1>2, <2>2, <2>3, <2>4 DEF CountIsExact
<1>12. QED  BY <1>9, <1>10, <1>11 DEF Inv

----------------------------------------------------------------------------
(* The run of an occurrence                                                *)

\* What holds of the parts that a run's step leaves alone.
LEMMA Around ==
  ASSUME Inv
  PROVE  /\ JobTyped /\ occ \in [Time -> Occurrence] /\ legs \subseteq Leg /\ duties \subseteq Duty
         /\ faults \in 0 .. MaxFaults /\ MaxFaults \in Nat /\ faults <= faults
BY CronAssumption DEF Inv, TypeOK, JobTyped, CronAssumption

\* An occurrence changes, and with it perhaps its legs and what is to be said of
\* it; no fault happens.
LEMMA RunMoves ==
  ASSUME Inv, NEW s \in Time, NEW o \in Occurrence, SetOccurrence(s, o),
         UNCHANGED <<now, job, draft, looking, faults>>,
         OccSound(o, faults),
         o.run # "none", occ[s].run # "none",
         occ[s].run \in Final => o.run = occ[s].run,
         occ[s].result # "none" => o.result = occ[s].result,
         legs' \subseteq Leg, duties' \subseteq Duty,
         \A l \in legs' : \/ l \in legs /\ l.slot # s
                          \/ l.slot = s /\ LegSound(l, o, faults),
         \A d \in duties' : \/ d \in duties
                            \/ d.slot = s /\ DutySound(d, o, faults)
  PROVE  Inv' /\ SlotsGoOn
<1>1. JobTyped'  BY Around DEF JobTyped
<1>2. faults' = faults /\ faults' \in 0 .. MaxFaults /\ faults <= faults'  BY Around
<1>3. QED  BY <1>1, <1>2, SlotMoves

\* The legs of a slot whose run is not running have lost their lease.
LEMMA FencedOff ==
  ASSUME Inv, NEW s \in Time, occ[s].run # "running", NEW l \in legs, l.slot = s,
         NEW o \in Occurrence, o.run # "none"
  PROVE  LegSound(l, o, faults)
BY DEF Inv, Sound, LegSound

\* A worker claims the run.
LEMMA ClaimStep == ASSUME Inv, NEW s \in Time, Claim(s) PROVE Inv' /\ SlotsGoOn
<1>1. occ[s] \in Occurrence /\ occ[s].run = "queued" /\ OccSound(occ[s], faults)
  BY Around DEF Claim, Inv, Sound
<1>2. [occ[s] EXCEPT !.run = "running",
                     !.status = IF @ \in {"enqueued", "waiting"} THEN "claimed" ELSE @]
        \in Occurrence
  BY <1>1 DEF Occurrence, Active
<1>3. PICK o \in Occurrence :
        o = [occ[s] EXCEPT !.run = "running",
                           !.status = IF @ \in {"enqueued", "waiting"} THEN "claimed" ELSE @]
  BY <1>2
<1>4. /\ o.run = "running" /\ o.result = occ[s].result
      /\ o.status = occ[s].status \/ o.status = "claimed"
  BY <1>1, <1>3 DEF Occurrence
<1>5. OccSound(o, faults)  BY <1>1, <1>4 DEF OccSound, Final
<1>6. PICK n \in Leg : n = [slot |-> s, holds |-> TRUE]  BY DEF Leg
<1>7. legs' = legs \cup {n} /\ n.slot = s /\ n.holds = TRUE  BY <1>6 DEF Claim
<1>8. LegSound(n, o, faults)  BY <1>4, <1>7 DEF LegSound
<1>9. \A l \in legs : l.slot = s => LegSound(l, o, faults)  BY <1>1, <1>4, FencedOff
<1>10. SetOccurrence(s, o) /\ UNCHANGED <<now, job, draft, looking, duties, faults>>
  BY <1>3 DEF Claim
<1>11. occ[s].run \notin Final /\ occ[s].run # "none"  BY <1>1 DEF Final
<1>12. legs' \subseteq Leg /\ duties' \subseteq Duty  BY <1>7, <1>10, Around
<1>13. \A l \in legs' : \/ l \in legs /\ l.slot # s
                        \/ l.slot = s /\ LegSound(l, o, faults)
  BY <1>7, <1>8, <1>9
<1>14. QED  BY <1>4, <1>5, <1>10, <1>11, <1>12, <1>13, RunMoves

\* An answer, a cancellation or the end of a run nobody executes: only what
\* becomes of the run differs.
LEMMA IdleRunMoves ==
  ASSUME Inv, NEW s \in Time, Answer(s) \/ CancelOneQueuedRun(s) \/ CancelQueuedInput(s)
  PROVE  Inv' /\ SlotsGoOn
<1>1. /\ occ[s] \in Occurrence /\ occ[s].run \in {"queued", "waiting"} /\ OccSound(occ[s], faults)
  BY Around DEF Answer, CancelOneQueuedRun, CancelQueuedInput, Inv, Sound
<1>2. \E o \in Occurrence :
        /\ SetOccurrence(s, o) /\ o.run \in {"queued", "cancelled"} /\ o.result = occ[s].result
        /\ o.status \in {occ[s].status, "cancelled"}
        /\ o.run = "queued" => duties' = duties
        /\ o.run = "cancelled" => duties' \subseteq duties \cup Finalize(s, "cancelled")
  <2>1. CASE Answer(s)
    <3>1. PICK o \in Occurrence : o = [occ[s] EXCEPT !.run = "queued"]
      BY <1>1 DEF Occurrence, Active
    <3>2. o.run = "queued" /\ o.result = occ[s].result /\ o.status = occ[s].status
      BY <1>1, <3>1 DEF Occurrence
    <3>3. QED  BY <2>1, <3>1, <3>2 DEF Answer, SetRun
  <2>2. CASE CancelOneQueuedRun(s)
    <3>1. PICK o \in Occurrence : o = [occ[s] EXCEPT !.run = "cancelled", !.status = "cancelled"]
      BY <1>1 DEF Occurrence, Final
    <3>2. o.run = "cancelled" /\ o.result = occ[s].result /\ o.status = "cancelled"
      BY <1>1, <3>1 DEF Occurrence
    <3>3. QED  BY <2>2, <3>1, <3>2 DEF CancelOneQueuedRun
  <2>3. CASE CancelQueuedInput(s)
    <3>1. PICK o \in Occurrence : o = [occ[s] EXCEPT !.run = "cancelled", !.cancel = TRUE]
      BY <1>1 DEF Occurrence, Final
    <3>2. o.run = "cancelled" /\ o.result = occ[s].result /\ o.status = occ[s].status
      BY <1>1, <3>1 DEF Occurrence
    <3>3. QED  BY <2>3, <3>1, <3>2 DEF CancelQueuedInput
  <2>4. QED  BY <2>1, <2>2, <2>3
<1>3. PICK o \in Occurrence :
        /\ SetOccurrence(s, o) /\ o.run \in {"queued", "cancelled"} /\ o.result = occ[s].result
        /\ o.status \in {occ[s].status, "cancelled"}
        /\ o.run = "queued" => duties' = duties
        /\ o.run = "cancelled" => duties' \subseteq duties \cup Finalize(s, "cancelled")
  BY <1>2
<1>4. UNCHANGED <<now, job, draft, looking, legs, faults>>
  BY DEF Answer, CancelOneQueuedRun, CancelQueuedInput
<1>5. OccSound(o, faults)  BY <1>1, <1>3 DEF OccSound, Final
<1>6. PICK n \in Duty : n = [slot |-> s, step |-> "result", as |-> "cancelled"]
  BY DEF Duty, Final
<1>7. Finalize(s, "cancelled") = {n}  BY <1>6 DEF Finalize
<1>8. o.run = "cancelled" => DutySound(n, o, faults)  BY <1>6 DEF DutySound, Final
<1>9. \A d \in duties' : d \in duties \/ (d.slot = s /\ DutySound(d, o, faults))
  BY <1>3, <1>6, <1>7, <1>8
<1>10. duties' \subseteq Duty /\ legs' \subseteq Leg  BY <1>3, <1>4, <1>6, <1>7, Around
<1>11. \A l \in legs' : \/ l \in legs /\ l.slot # s
                        \/ l.slot = s /\ LegSound(l, o, faults)
  BY <1>1, <1>3, <1>4, FencedOff
<1>12. occ[s].run \notin Final /\ occ[s].run # "none"  BY <1>1 DEF Final
<1>13. QED  BY <1>3, <1>4, <1>5, <1>9, <1>10, <1>11, <1>12, RunMoves

\* The user asks for a cancellation, or the input of the run is applied.
LEMMA FlagMoves ==
  ASSUME Inv, \/ \E s \in Time : RequestCancel(s)
              \/ \E l \in legs : ApplyInput(l)
  PROVE  Inv' /\ SlotsGoOn
<1>1. \E s \in Time, o \in Occurrence :
        /\ SetOccurrence(s, o) /\ o.run = occ[s].run /\ o.result = occ[s].result
        /\ o.status = occ[s].status /\ o.run # "none"
  <2>1. ASSUME NEW s \in Time, RequestCancel(s)
        PROVE  \E o \in Occurrence :
                 /\ SetOccurrence(s, o) /\ o.run = occ[s].run /\ o.result = occ[s].result
                 /\ o.status = occ[s].status /\ o.run # "none"
    <3>1. occ[s] \in Occurrence  BY Around
    <3>2. PICK o \in Occurrence : o = [occ[s] EXCEPT !.cancel = TRUE]  BY <3>1 DEF Occurrence
    <3>3. o.run = occ[s].run /\ o.result = occ[s].result /\ o.status = occ[s].status
      BY <3>1, <3>2 DEF Occurrence
    <3>4. QED  BY <2>1, <3>2, <3>3 DEF RequestCancel, Active
  <2>2. ASSUME NEW l \in legs, ApplyInput(l)
        PROVE  \E o \in Occurrence :
                 /\ SetOccurrence(l.slot, o) /\ o.run = occ[l.slot].run
                 /\ o.result = occ[l.slot].result /\ o.status = occ[l.slot].status
                 /\ o.run # "none"
    <3>1. occ[l.slot] \in Occurrence /\ occ[l.slot].run # "none"
      BY Around DEF Leg, Inv, Sound, LegSound
    <3>2. PICK o \in Occurrence : o = [occ[l.slot] EXCEPT !.read = TRUE]
      BY <3>1 DEF Occurrence
    <3>3. /\ o.run = occ[l.slot].run /\ o.result = occ[l.slot].result
          /\ o.status = occ[l.slot].status
      BY <3>1, <3>2 DEF Occurrence
    <3>4. QED  BY <2>2, <3>1, <3>2, <3>3 DEF ApplyInput
  <2>3. \A l \in legs : l.slot \in Time  BY Around DEF Leg
  <2>4. QED  BY <2>1, <2>2, <2>3
<1>2. PICK s \in Time, o \in Occurrence :
        /\ SetOccurrence(s, o) /\ o.run = occ[s].run /\ o.result = occ[s].result
        /\ o.status = occ[s].status /\ o.run # "none"
  BY <1>1
<1>3. UNCHANGED <<now, job, draft, looking, legs, duties, faults>>
  BY DEF RequestCancel, ApplyInput
<1>4. OccSound(o, faults)  BY <1>2 DEF Inv, Sound, OccSound
<1>5. \A l \in legs : l.slot = s => LegSound(l, o, faults)  BY <1>2 DEF Inv, Sound, LegSound
<1>6. legs' \subseteq Leg /\ duties' \subseteq Duty  BY <1>3, Around
<1>7. QED  BY <1>2, <1>3, <1>4, <1>5, <1>6, RunMoves

\* A leg ends: it leaves the run as it found it, parks it, or ends it; and what
\* is then to be said of it is what became of it, as far as the leg held the
\* lease.
LEMMA LegLeaves ==
  ASSUME Inv, NEW l \in legs, NEW o \in Occurrence, SetOccurrence(l.slot, o),
         UNCHANGED <<now, job, draft, looking, faults>>, legs' = legs \ {l},
         o.result = occ[l.slot].result,
         \/ o = occ[l.slot] /\ (~l.holds \/ o.run # "running")
         \/ /\ l.holds /\ o.run # "none"
            /\ o.status \in {occ[l.slot].status, "enqueued"},
         duties' \subseteq Duty,
         \A d \in duties' : d \in duties \/ (d.slot = l.slot /\ DutySound(d, o, faults))
  PROVE  Inv' /\ SlotsGoOn
<1>1. /\ l \in Leg /\ l.slot \in Time /\ legs \subseteq Leg /\ occ[l.slot] \in Occurrence
      /\ OccSound(occ[l.slot], faults) /\ LegSound(l, occ[l.slot], faults)
  BY Around DEF Leg, Inv, Sound
<1>2. OccSound(o, faults)  BY <1>1 DEF OccSound, LegSound, Final
<1>3. ASSUME NEW m \in legs' PROVE m \in legs /\ (m.slot = l.slot => LegSound(m, o, faults))
  <2>1. m \in legs /\ m # l /\ m \in Leg /\ LegSound(m, occ[m.slot], faults)
    BY <1>1 DEF Inv, Sound
  <2>2. CASE m.slot = l.slot /\ l.holds
    <3>1. m.holds # l.holds
      <4>1. \A x \in Leg : x = [slot |-> x.slot, holds |-> x.holds]  BY DEF Leg
      <4>2. /\ m = [slot |-> m.slot, holds |-> m.holds]
            /\ l = [slot |-> l.slot, holds |-> l.holds]
        BY <1>1, <2>1, <4>1
      <4>3. QED  BY <2>1, <2>2, <4>2, Zenon
    <3>2. ~m.holds  BY <2>1, <2>2, <3>1 DEF Leg
    <3>3. QED  BY <1>1, <2>1, <2>2, <3>2 DEF LegSound
  <2>3. CASE m.slot = l.slot /\ ~l.holds  BY <2>1, <2>3
  <2>4. QED  BY <2>1, <2>2, <2>3
<1>4. /\ o.run # "none" /\ occ[l.slot].run # "none"
      /\ occ[l.slot].run \in Final => o.run = occ[l.slot].run
  BY <1>1 DEF LegSound, Final
<1>5. legs' \subseteq Leg  BY <1>1
<1>6. QED  BY <1>1, <1>2, <1>3, <1>4, <1>5, RunMoves

\* What a leg reports.
LEMMA Reports ==
  ASSUME NEW s \in Time, NEW status \in Final, NEW o \in Occurrence, NEW d \in Finalize(s, status)
  PROVE  /\ d \in Duty /\ d.slot = s
         /\ o.run \in Final /\ (status = "completed" => o.run = "completed") =>
              DutySound(d, o, faults)
         /\ o.run # "none" /\ status # "completed" /\ faults # 0 => DutySound(d, o, faults)
BY DEF Finalize, Duty, DutySound, Final

\* A leg that holds the lease finishes its run.
LEMMA LegFinishesStep == ASSUME Inv, NEW l \in legs, LegFinishes(l) \/ LegErrs(l) PROVE Inv' /\ SlotsGoOn
<1>1. /\ l.slot \in Time /\ occ[l.slot] \in Occurrence /\ l.holds /\ duties \subseteq Duty
  BY Around DEF Leg, LegFinishes, LegErrs
<1>2. \E status, said \in Final :
        /\ SetRun(l.slot, status) /\ LegEnds(l, Finalize(l.slot, said))
        /\ said = "completed" => status = "completed"
  BY DEF LegFinishes, LegErrs, ActualStatus, Reported, Final
<1>3. PICK status, said \in Final :
        /\ SetRun(l.slot, status) /\ LegEnds(l, Finalize(l.slot, said))
        /\ said = "completed" => status = "completed"
  BY <1>2
<1>4. PICK o \in Occurrence : o = [occ[l.slot] EXCEPT !.run = status]  BY <1>1 DEF Occurrence
<1>5. o.run = status /\ o.result = occ[l.slot].result /\ o.status = occ[l.slot].status
  BY <1>1, <1>4 DEF Occurrence
<1>6. SetOccurrence(l.slot, o)  BY <1>3, <1>4 DEF SetRun
<1>7. /\ UNCHANGED <<now, job, draft, looking, faults>> /\ legs' = legs \ {l}
      /\ duties' = duties \cup Finalize(l.slot, said)
  BY <1>3 DEF LegEnds
<1>8. \A d \in Finalize(l.slot, said) :
        d \in Duty /\ d.slot = l.slot /\ DutySound(d, o, faults)
  BY <1>1, <1>3, <1>5, Reports
<1>9. o.run # "none"  BY <1>5 DEF Final
<1>10. duties' \subseteq Duty
       /\ \A d \in duties' : d \in duties \/ (d.slot = l.slot /\ DutySound(d, o, faults))
  BY <1>1, <1>7, <1>8
<1>11. QED  BY <1>1, <1>5, <1>6, <1>7, <1>9, <1>10, LegLeaves

\* It pauses the run, or has it queued again.
LEMMA LegParksStep ==
  ASSUME Inv, NEW l \in legs, LegPauses(l) \/ LegDefers(l) \/ LegRequeues(l)
  PROVE  Inv' /\ SlotsGoOn
<1>1. /\ l.slot \in Time /\ occ[l.slot] \in Occurrence /\ l.holds /\ duties \subseteq Duty
  BY Around DEF Leg, LegPauses, LegDefers, LegRequeues
<1>2. \E o \in Occurrence :
        /\ SetOccurrence(l.slot, o) /\ o.run # "none" /\ o.result = occ[l.slot].result
        /\ o.status \in {occ[l.slot].status, "enqueued"}
  <2>1. CASE LegPauses(l)
    <3>1. PICK o \in Occurrence : o = [occ[l.slot] EXCEPT !.run = "waiting"]
      BY <1>1 DEF Occurrence, Active
    <3>2. o.run = "waiting" /\ o.result = occ[l.slot].result /\ o.status = occ[l.slot].status
      BY <1>1, <3>1 DEF Occurrence
    <3>3. QED  BY <2>1, <3>1, <3>2 DEF LegPauses, SetRun
  <2>2. CASE LegDefers(l)
    <3>1. Requeued(occ[l.slot]) \in Occurrence  BY <1>1 DEF Requeued, Occurrence, Active
    <3>2. PICK o \in Occurrence : o = Requeued(occ[l.slot])  BY <3>1
    <3>3. /\ o.run = "queued" /\ o.result = occ[l.slot].result
          /\ o.status \in {occ[l.slot].status, "enqueued"}
      BY <1>1, <3>2 DEF Occurrence, Requeued
    <3>4. QED  BY <2>2, <3>2, <3>3 DEF LegDefers
  <2>3. CASE LegRequeues(l)
    <3>1. PICK o \in Occurrence : o = [occ[l.slot] EXCEPT !.run = "queued"]
      BY <1>1 DEF Occurrence, Active
    <3>2. o.run = "queued" /\ o.result = occ[l.slot].result /\ o.status = occ[l.slot].status
      BY <1>1, <3>1 DEF Occurrence
    <3>3. QED  BY <2>3, <3>1, <3>2 DEF LegRequeues, SetRun
  <2>4. QED  BY <2>1, <2>2, <2>3
<1>3. PICK o \in Occurrence :
        /\ SetOccurrence(l.slot, o) /\ o.run # "none" /\ o.result = occ[l.slot].result
        /\ o.status \in {occ[l.slot].status, "enqueued"}
  BY <1>2
<1>4. /\ UNCHANGED <<now, job, draft, looking, faults>> /\ legs' = legs \ {l}
      /\ duties' = duties \/ duties' = duties \cup MarkWaiting(l.slot)
  BY DEF LegPauses, LegDefers, LegRequeues, LegEnds
<1>5. \A d \in MarkWaiting(l.slot) :
        d \in Duty /\ d.slot = l.slot /\ DutySound(d, o, faults)
  BY <1>1, <1>3 DEF MarkWaiting, Duty, DutySound
<1>6. duties' \subseteq Duty
      /\ \A d \in duties' : d \in duties \/ (d.slot = l.slot /\ DutySound(d, o, faults))
  BY <1>1, <1>4, <1>5
<1>7. QED  BY <1>1, <1>3, <1>4, <1>6, LegLeaves

\* A leg that lost its lease is refused; a pause that fails reports a failure
\* all the same.
LEMMA LegIsRefusedStep ==
  ASSUME Inv, NEW l \in legs, PauseFails(l) \/ StaleLegEnds(l)
  PROVE  Inv' /\ SlotsGoOn
<1>1. /\ l.slot \in Time /\ occ[l.slot] \in Occurrence /\ duties \subseteq Duty
      /\ LegSound(l, occ[l.slot], faults) /\ occ \in [Time -> Occurrence]
  BY Around DEF Leg, Inv, Sound
<1>2. /\ UNCHANGED <<now, job, draft, looking, faults>> /\ legs' = legs \ {l}
      /\ \/ duties' = duties /\ ~l.holds
         \/ duties' = duties \cup Finalize(l.slot, "failed")
  BY DEF PauseFails, StaleLegEnds, LegEnds
<1>3. CASE ~l.holds
  <2>1. occ' = occ  BY <1>3 DEF PauseFails, StaleLegEnds
  <2>2. SetOccurrence(l.slot, occ[l.slot])  BY <1>1, <2>1 DEF SetOccurrence
  <2>3. \A d \in Finalize(l.slot, "failed") :
          d \in Duty /\ d.slot = l.slot /\ DutySound(d, occ[l.slot], faults)
    <3>1. faults # 0 /\ occ[l.slot].run # "none"  BY <1>1, <1>3 DEF LegSound
    <3>2. "failed" \in Final  BY DEF Final
    <3>3. QED  BY <1>1, <3>1, <3>2, Reports
  <2>4. PICK o \in Occurrence : o = occ[l.slot]  BY <1>1
  <2>5. /\ duties' \subseteq Duty
        /\ \A d \in duties' : d \in duties \/ (d.slot = l.slot /\ DutySound(d, o, faults))
    BY <1>1, <1>2, <2>3, <2>4
  <2>6. QED  BY <1>2, <1>3, <2>2, <2>4, <2>5, LegLeaves
<1>4. CASE l.holds
  <2>1. PauseFails(l)  BY <1>4 DEF StaleLegEnds
  <2>2. PICK status \in {"failed", "cancelled"} : SetRun(l.slot, status)
    BY <1>4, <2>1 DEF PauseFails, ActualStatus
  <2>3. PICK o \in Occurrence : o = [occ[l.slot] EXCEPT !.run = status]
    BY <1>1 DEF Occurrence, Final
  <2>4. o.run = status /\ o.result = occ[l.slot].result /\ o.status = occ[l.slot].status
    BY <1>1, <2>3 DEF Occurrence
  <2>5. SetOccurrence(l.slot, o)  BY <2>2, <2>3 DEF SetRun
  <2>6. \A d \in Finalize(l.slot, "failed") :
          d \in Duty /\ d.slot = l.slot /\ DutySound(d, o, faults)
    <3>1. "failed" \in Final /\ o.run \in Final  BY <2>4 DEF Final
    <3>2. QED  BY <1>1, <3>1, Reports
  <2>7. /\ duties' \subseteq Duty
        /\ \A d \in duties' : d \in duties \/ (d.slot = l.slot /\ DutySound(d, o, faults))
    BY <1>1, <1>2, <2>6
  <2>8. QED  BY <1>2, <1>4, <2>4, <2>5, <2>7, LegLeaves
<1>5. QED  BY <1>3, <1>4

\* The lease of a running run lapsed: its legs, should they live on, are fenced
\* off, and the run is queued again, parked or failed.
LEMMA ReconcileStep == ASSUME Inv, NEW s \in Time, Reconcile(s) PROVE Inv' /\ SlotsGoOn
<1>1. /\ occ[s] \in Occurrence /\ OccSound(occ[s], faults) /\ occ[s].run = "running"
      /\ legs \subseteq Leg /\ duties \subseteq Duty /\ JobTyped
  BY Around DEF Inv, Sound, Reconcile
<1>2. /\ faults' = faults + 1 /\ faults' \in 0 .. MaxFaults /\ faults <= faults' /\ faults' # 0
      /\ UNCHANGED <<now, job, draft, looking>>
      /\ legs' = {IF l.slot = s THEN [l EXCEPT !.holds = FALSE] ELSE l : l \in legs}
  BY Around DEF Reconcile, Fault
<1>3. \E o \in Occurrence :
        /\ SetOccurrence(s, o) /\ o.run \in {"queued", "waiting", "failed"}
        /\ o.result = occ[s].result /\ o.status \in {occ[s].status, "enqueued"}
        /\ \/ duties' = duties
           \/ duties' = duties \cup MarkWaiting(s)
           \/ duties' = duties \cup Finalize(s, "failed") /\ o.run = "failed"
  <2>1. CASE SetOccurrence(s, Requeued(occ[s])) /\ UNCHANGED duties
    <3>1. Requeued(occ[s]) \in Occurrence  BY <1>1 DEF Requeued, Occurrence, Active
    <3>2. PICK o \in Occurrence : o = Requeued(occ[s])  BY <3>1
    <3>3. o.run = "queued" /\ o.result = occ[s].result /\ o.status \in {occ[s].status, "enqueued"}
      BY <1>1, <3>2 DEF Occurrence, Requeued
    <3>4. QED  BY <2>1, <3>2, <3>3
  <2>2. CASE SetRun(s, "waiting") /\ duties' = duties \cup MarkWaiting(s)
    <3>1. PICK o \in Occurrence : o = [occ[s] EXCEPT !.run = "waiting"]
      BY <1>1 DEF Occurrence, Active
    <3>2. o.run = "waiting" /\ o.result = occ[s].result /\ o.status = occ[s].status
      BY <1>1, <3>1 DEF Occurrence
    <3>3. QED  BY <2>2, <3>1, <3>2 DEF SetRun
  <2>3. CASE SetRun(s, "failed") /\ duties' = duties \cup Finalize(s, "failed")
    <3>1. PICK o \in Occurrence : o = [occ[s] EXCEPT !.run = "failed"]
      BY <1>1 DEF Occurrence, Final
    <3>2. o.run = "failed" /\ o.result = occ[s].result /\ o.status = occ[s].status
      BY <1>1, <3>1 DEF Occurrence
    <3>3. QED  BY <2>3, <3>1, <3>2 DEF SetRun
  <2>4. QED  BY <2>1, <2>2, <2>3 DEF Reconcile
<1>4. PICK o \in Occurrence :
        /\ SetOccurrence(s, o) /\ o.run \in {"queued", "waiting", "failed"}
        /\ o.result = occ[s].result /\ o.status \in {occ[s].status, "enqueued"}
        /\ \/ duties' = duties
           \/ duties' = duties \cup MarkWaiting(s)
           \/ duties' = duties \cup Finalize(s, "failed") /\ o.run = "failed"
  BY <1>3
<1>5. OccSound(o, faults')  BY <1>1, <1>2, <1>4 DEF OccSound
<1>6. ASSUME NEW m \in legs'
      PROVE  /\ m \in Leg
             /\ \/ m \in legs /\ m.slot # s
                \/ m.slot = s /\ LegSound(m, o, faults')
  <2>1. PICK l \in legs : m = IF l.slot = s THEN [l EXCEPT !.holds = FALSE] ELSE l
    BY <1>2
  <2>2. CASE l.slot = s
    <3>1. l \in Leg  BY <1>1
    <3>2. m \in Leg /\ m.slot = s /\ m.holds = FALSE  BY <2>1, <2>2, <3>1 DEF Leg
    <3>3. QED  BY <1>2, <1>4, <3>2 DEF LegSound
  <2>3. CASE l.slot # s  BY <1>1, <2>1, <2>3
  <2>4. QED  BY <2>2, <2>3
<1>7. \A d \in MarkWaiting(s) : d \in Duty /\ d.slot = s /\ DutySound(d, o, faults')
  BY <1>4 DEF MarkWaiting, Duty, DutySound
<1>8. ASSUME o.run = "failed", NEW d \in Finalize(s, "failed")
      PROVE  d \in Duty /\ d.slot = s /\ DutySound(d, o, faults')
  BY <1>8 DEF Finalize, Duty, DutySound, Final
<1>9. /\ duties' \subseteq Duty
      /\ \A d \in duties' : d \in duties \/ (d.slot = s /\ DutySound(d, o, faults'))
  BY <1>1, <1>4, <1>7, <1>8
<1>10. JobTyped' /\ UNCHANGED <<job.count, job.maxRuns>>  BY <1>1, <1>2 DEF JobTyped
<1>11. occ[s].run # "none" /\ occ[s].run \notin Final /\ o.run # "none"
  BY <1>1, <1>4 DEF Final
<1>12. QED  BY <1>2, <1>4, <1>5, <1>6, <1>9, <1>10, <1>11, SlotMoves

----------------------------------------------------------------------------
(* The statements that follow a COMMIT                                     *)

\* One is done: the status or the result of an occurrence is written.
LEMMA DutyMoves ==
  ASSUME Inv, NEW d \in duties,
         MarkOccurrenceWaiting(d) \/ InsertResult(d) \/ FinalizeStatus(d)
  PROVE  Inv' /\ SlotsGoOn
<1>1. /\ d \in Duty /\ d.slot \in Time /\ occ[d.slot] \in Occurrence /\ duties \subseteq Duty
      /\ OccSound(occ[d.slot], faults) /\ DutySound(d, occ[d.slot], faults)
      /\ occ \in [Time -> Occurrence]
  BY Around DEF Inv, Sound, Duty
<1>2. UNCHANGED <<now, job, draft, looking, legs, faults>>
  BY DEF MarkOccurrenceWaiting, InsertResult, FinalizeStatus, Done
<1>3. \E o \in Occurrence :
        /\ SetOccurrence(d.slot, o) /\ o.run = occ[d.slot].run /\ OccSound(o, faults)
        /\ occ[d.slot].result # "none" => o.result = occ[d.slot].result
        /\ duties' \subseteq Duty
        /\ \A e \in duties' : e \in duties \/ (e.slot = d.slot /\ DutySound(e, o, faults))
  <2>1. CASE MarkOccurrenceWaiting(d)
    <3>1. PICK o \in Occurrence : o = [occ[d.slot] EXCEPT !.status = "waiting"]
      BY <1>1 DEF Occurrence
    <3>2. o.run = occ[d.slot].run /\ o.result = occ[d.slot].result /\ o.status = "waiting"
      BY <1>1, <3>1 DEF Occurrence
    <3>3. OccSound(o, faults)  BY <1>1, <3>2 DEF OccSound
    <3>4. QED  BY <1>1, <2>1, <3>1, <3>2, <3>3 DEF MarkOccurrenceWaiting, Done
  <2>2. CASE FinalizeStatus(d)
    <3>1. d.as \in Final  BY <1>1, <2>2 DEF FinalizeStatus, DutySound
    <3>2. PICK o \in Occurrence : o = [occ[d.slot] EXCEPT !.status = d.as]
      BY <1>1, <3>1 DEF Occurrence
    <3>3. o.run = occ[d.slot].run /\ o.result = occ[d.slot].result /\ o.status = d.as
      BY <1>1, <3>2 DEF Occurrence
    <3>4. OccSound(o, faults)
      BY <1>1, <2>2, <3>1, <3>3 DEF OccSound, DutySound, FinalizeStatus, Final
    <3>5. QED  BY <1>1, <2>2, <3>2, <3>3, <3>4 DEF FinalizeStatus, Done
  <2>3. CASE InsertResult(d) /\ occ[d.slot].result # "none"
    <3>1. duties' = duties \ {d} /\ occ' = occ  BY <2>3 DEF InsertResult
    <3>2. SetOccurrence(d.slot, occ[d.slot])  BY <1>1, <3>1 DEF SetOccurrence
    <3>3. QED  BY <1>1, <3>1, <3>2
  <2>4. CASE InsertResult(d) /\ occ[d.slot].result = "none"
    <3>1. d.step = "result" /\ d.as \in Final
      BY <1>1, <2>4 DEF InsertResult, DutySound
    <3>2. PICK result \in ResultStatus(d.as) :
            SetOccurrence(d.slot, [occ[d.slot] EXCEPT !.result = result])
      BY <2>4 DEF InsertResult
    <3>3. /\ result \in {"success", "error", "cancelled"}
          /\ result = "success" => d.as = "completed"
          /\ d.as = "completed" => result \in {"success", "error"}
      BY <3>1 DEF ResultStatus, Final
    <3>4. PICK o \in Occurrence : o = [occ[d.slot] EXCEPT !.result = result]
      BY <1>1, <3>3 DEF Occurrence
    <3>5. o.run = occ[d.slot].run /\ o.result = result /\ o.status = occ[d.slot].status
      BY <1>1, <3>4 DEF Occurrence
    <3>6. OccSound(o, faults)
      BY <1>1, <2>4, <3>1, <3>3, <3>5 DEF OccSound, DutySound
    <3>7. PICK e \in Duty : e = [d EXCEPT !.step = "status"]  BY <1>1 DEF Duty
    <3>8. e.slot = d.slot /\ e.step = "status" /\ e.as = d.as  BY <1>1, <3>7 DEF Duty
    <3>9. DutySound(e, o, faults)
      BY <1>1, <3>1, <3>3, <3>5, <3>8 DEF DutySound
    <3>10. duties' = (duties \ {d}) \cup {e}  BY <2>4, <3>7 DEF InsertResult
    <3>11. QED  BY <1>1, <2>4, <3>2, <3>4, <3>5, <3>6, <3>8, <3>9, <3>10
  <2>5. QED  BY <2>1, <2>2, <2>3, <2>4
<1>4. PICK o \in Occurrence :
        /\ SetOccurrence(d.slot, o) /\ o.run = occ[d.slot].run /\ OccSound(o, faults)
        /\ occ[d.slot].result # "none" => o.result = occ[d.slot].result
        /\ duties' \subseteq Duty
        /\ \A e \in duties' : e \in duties \/ (e.slot = d.slot /\ DutySound(e, o, faults))
  BY <1>3
<1>5. \A l \in legs : l.slot = d.slot => LegSound(l, o, faults)
  BY <1>4 DEF Inv, Sound, LegSound
<1>6. legs' \subseteq Leg  BY <1>2, Around
<1>7. occ[d.slot].run # "none"  BY <1>1 DEF DutySound
<1>8. QED  BY <1>1, <1>2, <1>4, <1>5, <1>6, <1>7, RunMoves

\* One is lost.
LEMMA LoseDutyStep == ASSUME Inv, NEW d \in duties, LoseDuty(d) PROVE Inv' /\ SlotsGoOn
<1>1. /\ JobTyped /\ UNCHANGED <<now, job, draft, looking, occ, legs>>
      /\ duties' \subseteq duties /\ faults \in Nat /\ faults' = faults + 1
      /\ faults' \in 0 .. MaxFaults
  BY Around DEF LoseDuty, Fault
<1>2. TypeOK'  BY <1>1 DEF Inv, TypeOK
<1>3. Sound'
  <2>1. ASSUME NEW s \in Time PROVE OccSound(occ[s], faults)'
    <3>1. OccSound(occ[s], faults)  BY DEF Inv, Sound
    <3>2. QED  BY <1>1, <3>1 DEF OccSound
  <2>2. ASSUME NEW l \in legs PROVE LegSound(l, occ[l.slot], faults')
    <3>1. LegSound(l, occ[l.slot], faults)  BY DEF Inv, Sound
    <3>2. QED  BY <1>1, <3>1 DEF LegSound
  <2>3. ASSUME NEW e \in duties' PROVE DutySound(e, occ[e.slot], faults')
    <3>1. DutySound(e, occ[e.slot], faults)  BY <1>1 DEF Inv, Sound
    <3>2. QED  BY <1>1, <3>1 DEF DutySound
  <2>4. QED  BY <1>1, <2>1, <2>2, <2>3 DEF Sound
<1>4. CountIsExact'  BY <1>1 DEF Inv, CountIsExact
<1>5. SlotsGoOn  BY <1>1 DEF SlotsGoOn
<1>6. QED  BY <1>2, <1>3, <1>4, <1>5 DEF Inv

----------------------------------------------------------------------------
\* A job is created with its first instant in the future, and nothing started.
LEMMA Initially == Init => Inv
<1> SUFFICES ASSUME Init PROVE Inv  OBVIOUS
<1>1. PICK catchUp \in CatchUp, schedule \in Schedule, maxRuns \in MaxRuns :
        job = CreateJob(catchUp, schedule, maxRuns)
  BY DEF Init
<1>2. 0 \in 0 .. MaxTime /\ 0 \in 0 .. MaxFaults /\ Idle \in 0 .. Idle /\ maxRuns \in Nat \ {0}
  BY CronAssumption DEF CronAssumption, Idle
<1>3. PICK next \in Time : next = ComputeNextRun(schedule, 0)  BY <1>2, NextInTime
<1>4. job = [ enabled |-> TRUE, deleted |-> FALSE, next |-> next, count |-> 0,
              catchUp |-> catchUp, schedule |-> schedule, maxRuns |-> maxRuns ]
  BY <1>1, <1>3 DEF CreateJob
<1>5. job \in Job  BY <1>4 DEF Job
<1>6. NewOccurrence \in Occurrence /\ OccSound(NewOccurrence, 0)
  BY DEF NewOccurrence, Occurrence, OccSound
<1>7. TypeOK  BY <1>2, <1>5, <1>6 DEF Init, TypeOK
<1>8. Sound  BY <1>6 DEF Init, Sound
<1>9. CountIsExact
  <2>1. {s \in Time : occ[s].run # "none"} = {}  BY DEF Init, NewOccurrence
  <2>2. Cardinality({}) = 0  BY FS_EmptySet
  <2>3. job.count = 0 /\ job.maxRuns = maxRuns  BY <1>4
  <2>4. QED  BY <1>2, <2>1, <2>2, <2>3 DEF CountIsExact
<1>10. QED  BY <1>7, <1>8, <1>9 DEF Inv

\* Every step keeps the invariant, and only Enqueue starts a run; one case for
\* each action of Next.
LEMMA Inductive ==
  ASSUME Inv, [Next]_vars
  PROVE  Inv' /\ (SlotsGoOn \/ \E t \in Ticker : Enqueue(t))
<1>1. CASE Pass \/ UserStep  BY <1>1, UserMoves
<1>2. CASE \E t \in Ticker : LookForDueJob(t) \/ GiveUp(t) \/ TickStep(t)
  BY <1>2, TickerMoves, EnqueueStep DEF TickStep
<1>3. CASE \E s \in Time : RunStep(s)
  BY <1>3, ClaimStep, ReconcileStep, IdleRunMoves, FlagMoves DEF RunStep
<1>4. CASE \E l \in legs : LegStep(l)
  BY <1>4, FlagMoves, LegFinishesStep, LegParksStep, LegIsRefusedStep DEF LegStep
<1>5. CASE \E d \in duties : DutyStep(d)
  BY <1>5, DutyMoves, LoseDutyStep DEF DutyStep
<1>6. CASE UNCHANGED vars
  <2>1. JobTyped' /\ UNCHANGED <<occ, legs, duties, faults, job.count, job.maxRuns>>
    BY <1>6, Around DEF vars, JobTyped
  <2>2. QED  BY <2>1, JobMoves
<1>7. QED  BY <1>1, <1>2, <1>3, <1>4, <1>5, <1>6 DEF Next

\* Only the user and the tickers touch the row of the job.
LEMMA JobGoesOn ==
  ASSUME [Next]_vars
  PROVE  \/ UNCHANGED <<now, job, draft, looking>>
         \/ Pass \/ UserStep
         \/ \E t \in Ticker : LookForDueJob(t) \/ GiveUp(t) \/ TickStep(t)
BY DEF Next, vars, RunStep, Claim, Reconcile, Answer, RequestCancel, CancelOneQueuedRun,
       CancelQueuedInput, LegStep, ApplyInput, LegFinishes, LegErrs, LegPauses, LegDefers,
       LegRequeues, PauseFails, StaleLegEnds, LegEnds, DutyStep, MarkOccurrenceWaiting,
       InsertResult, FinalizeStatus, LoseDuty, Done

\* The strengthening holds of every reachable state: legs and pending statements
\* are about runs that were started, and say only what became of them.
THEOREM Invariance == Spec => []Inv
<1>1. Inv /\ [Next]_vars => Inv'  BY Inductive
<1>2. QED  BY <1>1, Initially, PTL DEF Spec

\* Every reachable state has the declared types: next_run_at, the statuses of
\* occurrences and runs, and the pending statements.
THEOREM TypeCorrect == Spec => []TypeOK
<1>1. Inv => TypeOK  BY DEF Inv
<1>2. QED  BY <1>1, Invariance, PTL

\* What the user reads of an occurrence is what became of its run: a success is
\* the result of a completed run only (finalize_occurrence and
\* mark_occurrence_waiting of durable.rs, with the workers that call them).
THEOREM OutcomesAreReal == Spec => []OutcomeIsReal
<1>1. Inv => OutcomeIsReal  BY DEF Inv, Sound, OccSound, OutcomeIsReal
<1>2. QED  BY <1>1, Invariance, PTL
=============================================================================
