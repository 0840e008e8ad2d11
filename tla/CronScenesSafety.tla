-------------------------- MODULE CronScenesSafety --------------------------
(***************************************************************************)
(* One live occurrence, and no instant lost or counted twice, in the two   *)
(* scenes of a cron job: for any number of tickers, instants and faults,   *)
(* and every interval.                                                     *)
(***************************************************************************)
EXTENDS MCCronScenes, Integers, TLAPS

----------------------------------------------------------------------------
(* Multiples of the interval                                               *)

\* Division with a remainder.
LEMMA Parts ==
  ASSUME NEW p \in Nat \ {0}, NEW n \in Nat
  PROVE  \E k \in Int, r \in Int : n = p * k + r /\ 0 <= r /\ r < p /\ r = n % p
<1>1. n \div p \in Int /\ n % p \in Int  OBVIOUS
<1>2. 0 <= n % p /\ n % p < p  OBVIOUS
<1>3. n % p = n - p * (n \div p)  OBVIOUS
<1>4. p * (n \div p) \in Int  BY <1>1
<1>5. QED  BY <1>1, <1>2, <1>3, <1>4

\* The next multiple.
LEMMA NextMultiple ==
  ASSUME NEW p \in Nat \ {0}, NEW n \in Nat, n % p = 0
  PROVE  (n + p) % p = 0
<1>1. PICK k \in Int : n = p * k  BY Parts
<1>2. n + p \in Nat  OBVIOUS
<1>3. PICK q \in Int, r \in Int : n + p = p * q + r /\ 0 <= r /\ r < p /\ r = (n + p) % p
  BY <1>2, Parts
<1>4. p * k + p = p * q + r  BY <1>1, <1>3
<1>5. PICK d \in Int : d = k + 1 - q  OBVIOUS
<1>6. r = p * d
  <2>1. k = d + q - 1  BY <1>5
  <2>2. p * k = p * d + p * q - p  BY <2>1
  <2>3. QED  BY <1>4, <2>2
<1>7. d = 0 \/ d >= 1 \/ d <= -1  OBVIOUS
<1>8. d >= 1 => p * d >= p  OBVIOUS
<1>9. d <= -1 => p * d <= -p  OBVIOUS
<1>10. r = 0  BY <1>3, <1>6, <1>7, <1>8, <1>9
<1>11. QED  BY <1>3, <1>10

\* Between a multiple and the next there is none.
LEMMA Between ==
  ASSUME NEW p \in Nat \ {0}, NEW n \in Nat, NEW s \in Nat, n % p = 0, s % p = 0,
         n <= s, s < n + p
  PROVE  s = n
OBVIOUS

\* The first one.
LEMMA FirstMultiple ==
  ASSUME NEW p \in Nat \ {0}
  PROVE  p % p = 0 /\ \A s \in 1 .. p - 1 : s % p # 0
<1>1. p % p = 0  OBVIOUS
<1>2. ASSUME NEW s \in 1 .. p - 1 PROVE s % p # 0  OBVIOUS
<1>3. QED  BY <1>1, <1>2

----------------------------------------------------------------------------
(* Two tickers                                                             *)

\* At most one run is not final.
OneLive == \A s, u \in Time : occ[s].run \in Active /\ occ[u].run \in Active => s = u

\* While a run goes on, an open transaction that looks for the job finds it not
\* due, or its instant taken.
TooLate(t) == Overlapping =>
  IF job.schedule = "once" THEN occ[job.next].status # "none" ELSE looking[t] < job.next

\* The instants of the interval up to the next are taken.
NoGap ==
  /\ job.next % Period = 0
  /\ \A s \in 1 .. job.next - 1 : s % Period = 0 => occ[s].status # "none"

TickingInv ==
  /\ Ticking!Inv
  /\ draft = NoDraft
  /\ job.schedule = "once" => job.next = Period
  /\ \A t \in Ticker : looking[t] # Idle => looking[t] <= now
  /\ job.catchUp # "all" =>
       /\ OneLive
       /\ \A t \in Ticker : looking[t] # Idle => TooLate(t)
  /\ job.catchUp = "all" /\ job.schedule = "interval" => NoGap

\* The names of the instance and of this module.
LEMMA SameNames ==
  /\ Ticking!Time = Time /\ Ticking!Idle = Idle /\ Ticking!Active = Active
  /\ Ticking!Overlapping = Overlapping /\ Editing!Overlapping = Overlapping
  /\ Editing!Time = Time /\ Editing!Idle = Idle /\ Editing!Active = Active
BY DEF Ticking!Time, Ticking!Idle, Ticking!Active, Ticking!Overlapping, Editing!Overlapping,
       Editing!Time, Editing!Idle, Editing!Active, Time, Idle, Active, Overlapping

\* Both instances keep the assumption on their constants.
LEMMA InstancesAssume == Ticking!CronAssumption /\ Editing!CronAssumption
BY CronAssumption DEF CronAssumption, Ticking!CronAssumption, Editing!CronAssumption

\* What the invariant says of the rows, in the names of this module.
LEMMA Rows ==
  ASSUME Ticking!Inv \/ Editing!Inv
  PROVE  /\ now \in 0 .. MaxTime /\ job.next \in Time /\ job.schedule \in Schedule
         /\ looking \in [Ticker -> 0 .. Idle]
         /\ MaxTime \in Nat /\ Period \in Nat \ {0} /\ Schedule \subseteq {"once", "interval"}
         /\ CountIsExact
<1>1. /\ now \in 0 .. MaxTime /\ job.next \in Time /\ job.schedule \in Schedule
      /\ looking \in [Ticker -> 0 .. Idle]
  <2>1. CASE Ticking!Inv
    <3>1. /\ now \in 0 .. MaxTime /\ job \in Ticking!Job
          /\ looking \in [Ticker -> 0 .. Ticking!Idle]
      BY <2>1 DEF Ticking!Inv, Ticking!TypeOK
    <3>2. job.next \in Ticking!Time /\ job.schedule \in Schedule  BY <3>1 DEF Ticking!Job
    <3>3. QED  BY <3>1, <3>2, SameNames
  <2>2. CASE Editing!Inv
    <3>1. /\ now \in 0 .. MaxTime /\ job \in Editing!Job
          /\ looking \in [Ticker -> 0 .. Editing!Idle]
      BY <2>2 DEF Editing!Inv, Editing!TypeOK
    <3>2. job.next \in Editing!Time /\ job.schedule \in Schedule  BY <3>1 DEF Editing!Job
    <3>3. QED  BY <3>1, <3>2, SameNames
  <2>3. QED  BY <2>1, <2>2
<1>2. CountIsExact
  <2>1. Ticking!CountIsExact \/ Editing!CountIsExact  BY DEF Ticking!Inv, Editing!Inv
  <2>2. QED
    BY <2>1
    DEF Ticking!CountIsExact, Editing!CountIsExact, CountIsExact, Ticking!Time, Editing!Time, Time,
        Ticking!Cardinality, Editing!Cardinality, Cardinality
<1>3. QED  BY <1>1, <1>2, CronAssumption DEF CronAssumption

\* A ticker that settles an instant takes it, and advances the job.
LEMMA TickAdvances ==
  ASSUME TickingInv, NEW t \in Ticker, Ticking!TickStep(t)
  PROVE  /\ looking[t] # Idle /\ job.next <= looking[t]
         /\ looking' = [looking EXCEPT ![t] = Idle] /\ UNCHANGED <<now, draft>>
         /\ job'.schedule = job.schedule /\ job'.catchUp = job.catchUp
         /\ job'.next = IF job.schedule = "once" THEN Period
                        ELSE (IF job.catchUp = "all" THEN job.next ELSE now) + Period
         /\ occ'[job.next].status # "none"
<1>1. PICK counted \in BOOLEAN : Ticking!Tick(t, counted)
  BY DEF Ticking!TickStep, Ticking!Skip, Ticking!AlreadyInserted, Ticking!Enqueue
<1>2. job \in Ticking!Job /\ occ \in [Time -> Ticking!Occurrence] /\ job.next \in Time
  <2>1. job \in Ticking!Job /\ occ \in [Ticking!Time -> Ticking!Occurrence]
    BY DEF TickingInv, Ticking!Inv, Ticking!TypeOK
  <2>2. job.next \in Time  BY Rows DEF TickingInv
  <2>3. QED  BY <2>1, <2>2, SameNames
<1>3. /\ looking[t] # Idle /\ job.next <= looking[t]
      /\ looking' = [looking EXCEPT ![t] = Idle] /\ UNCHANGED <<now, draft>>
  BY <1>1, SameNames DEF Ticking!Tick, Ticking!Claimable
<1>4. /\ job'.schedule = job.schedule /\ job'.catchUp = job.catchUp
      /\ job'.next = Ticking!ComputeNextRun(job.schedule, Ticking!Base)
  BY <1>1, <1>2 DEF Ticking!Tick, Ticking!Advanced, Ticking!Job
<1>5. job'.next = IF job.schedule = "once" THEN Period
                  ELSE (IF job.catchUp = "all" THEN job.next ELSE now) + Period
  BY <1>4 DEF Ticking!ComputeNextRun, Ticking!Base
<1>6. occ'[job.next].status # "none"
  <2>1. CASE Ticking!Skip(t)
    BY <1>2, <2>1 DEF Ticking!Skip, Ticking!SetOccurrence, Ticking!NewOccurrence
  <2>2. CASE Ticking!AlreadyInserted(t)
    BY <2>2 DEF Ticking!AlreadyInserted
  <2>3. CASE Ticking!Enqueue(t)
    BY <1>2, <2>3 DEF Ticking!Enqueue, Ticking!SetOccurrence, Ticking!NewOccurrence
  <2>4. QED  BY <2>1, <2>2, <2>3 DEF Ticking!TickStep
<1>7. QED  BY <1>3, <1>4, <1>5, <1>6

\* Nothing else moves the next instant: of the commands on the job, this scene
\* knows only the switch.
LEMMA OtherStepsKeepTheInstant ==
  ASSUME TickingInv, [Ticking!Next]_(Ticking!vars), \A t \in Ticker : ~Ticking!TickStep(t)
  PROVE  /\ job'.schedule = job.schedule /\ job'.catchUp = job.catchUp /\ job'.next = job.next
         /\ draft' = NoDraft /\ now <= now'
         /\ \A t \in Ticker : looking'[t] # Idle =>
              \/ looking'[t] = looking[t]
              \/ looking'[t] = now /\ ~Overlapping /\ occ' = occ
<1>1. \/ UNCHANGED <<now, job, draft, looking>>
      \/ Ticking!Pass \/ Ticking!UserStep
      \/ \E t \in Ticker : Ticking!LookForDueJob(t) \/ Ticking!GiveUp(t)
  BY InstancesAssume, Ticking!JobGoesOn
<1>2. /\ now \in 0 .. MaxTime /\ MaxTime \in Nat /\ looking \in [Ticker -> 0 .. Idle]
  BY Rows DEF TickingInv
<1>3. CASE Ticking!UserStep
  <2>1. Ticking!SetEnabled
    BY <1>3 DEF Ticking!UserStep, Ticking!TriggerJob, Ticking!DeleteJob, Ticking!FetchJob,
                Ticking!UpdateJob, TickingInv
  <2>2. job \in Ticking!Job  BY DEF TickingInv, Ticking!Inv, Ticking!TypeOK
  <2>3. QED  BY <1>2, <2>1, <2>2 DEF Ticking!SetEnabled, Ticking!Job, TickingInv
<1>4. CASE Ticking!Pass
  BY <1>2, <1>4 DEF Ticking!Pass, TickingInv
<1>5. ASSUME NEW t \in Ticker, Ticking!LookForDueJob(t) \/ Ticking!GiveUp(t)
      PROVE  /\ UNCHANGED <<now, job, draft>>
             /\ \A u \in Ticker : looking'[u] # Idle =>
                  \/ looking'[u] = looking[u]
                  \/ looking'[u] = now /\ ~Overlapping /\ occ' = occ
  BY <1>2, <1>5, SameNames DEF Ticking!LookForDueJob, Ticking!GiveUp
<1>6. CASE UNCHANGED <<now, job, draft, looking>>  BY <1>2, <1>6 DEF TickingInv
<1>7. CASE \E t \in Ticker : Ticking!LookForDueJob(t) \/ Ticking!GiveUp(t)
  BY <1>2, <1>5, <1>7 DEF TickingInv
<1>8. QED  BY <1>1, <1>3, <1>4, <1>6, <1>7

\* No run is started while another goes on: a second ticker that found the job
\* due before the first settled it comes too late.
LEMMA EnqueueAlone ==
  ASSUME TickingInv, job.catchUp # "all", NEW t \in Ticker, Ticking!Enqueue(t)
  PROVE  /\ ~Overlapping
         /\ \A s \in Time : occ'[s].run \in Active => s = job.next
<1>1. Ticking!TickStep(t)  BY DEF Ticking!TickStep
<1>2. /\ looking[t] # Idle /\ job.next <= looking[t] /\ TooLate(t)
      /\ looking[t] \in Nat /\ job.next \in Nat
  <2>1. looking[t] # Idle /\ job.next <= looking[t]  BY <1>1, TickAdvances
  <2>2. looking[t] \in 0 .. Idle /\ job.next \in Time  BY Rows DEF TickingInv
  <2>3. QED  BY <2>1, <2>2 DEF TickingInv, Idle, Time
<1>3. occ[job.next].status = "none"  BY DEF Ticking!Enqueue
<1>4. ~Overlapping  BY <1>2, <1>3 DEF TooLate
<1>5. \A s \in Time : s # job.next => occ'[s] = occ[s]
  <2>1. occ \in [Time -> Ticking!Occurrence]
    BY SameNames DEF TickingInv, Ticking!Inv, Ticking!TypeOK
  <2>2. QED  BY <2>1 DEF Ticking!Enqueue, Ticking!SetOccurrence
<1>6. QED  BY <1>4, <1>5 DEF Overlapping

\* Two tickers keep the invariant of their scene.
LEMMA TickingInductive ==
  ASSUME TickingInv, [Ticking!Next]_(Ticking!vars)
  PROVE  TickingInv'
<1>1. Ticking!Inv' /\ (Ticking!SlotsGoOn \/ \E t \in Ticker : Ticking!Enqueue(t))
  BY InstancesAssume, Ticking!Inductive DEF TickingInv
<1>2. /\ now \in 0 .. MaxTime /\ job.next \in Time /\ job.schedule \in Schedule
      /\ looking \in [Ticker -> 0 .. Idle] /\ MaxTime \in Nat /\ Period \in Nat \ {0}
      /\ Schedule \subseteq {"once", "interval"} /\ job.next \in Nat
  BY Rows DEF TickingInv, Time
<1>3. /\ now' \in 0 .. MaxTime /\ job'.next \in Time /\ job'.schedule \in Schedule
      /\ looking' \in [Ticker -> 0 .. Idle]
  <2>1. now' \in 0 .. MaxTime /\ job' \in Ticking!Job /\ looking' \in [Ticker -> 0 .. Idle]
    BY <1>1, SameNames DEF Ticking!Inv, Ticking!TypeOK
  <2>2. job'.next \in Ticking!Time /\ job'.schedule \in Schedule  BY <2>1 DEF Ticking!Job
  <2>3. QED  BY <2>1, <2>2, SameNames
<1>4. Ticking!SlotsGoOn =>
        /\ \A s \in Time : occ[s].status # "none" => occ'[s].status # "none"
        /\ \A s \in Time : occ'[s].run \in Active => occ[s].run \in Active
        /\ Overlapping' => Overlapping
        /\ OneLive => OneLive'
  BY SameNames DEF Ticking!SlotsGoOn, Overlapping, OneLive
<1>5. CASE \A t \in Ticker : ~Ticking!TickStep(t)
  <2>1. /\ job'.schedule = job.schedule /\ job'.catchUp = job.catchUp /\ job'.next = job.next
        /\ draft' = NoDraft /\ now <= now'
        /\ \A t \in Ticker : looking'[t] # Idle =>
             \/ looking'[t] = looking[t]
             \/ looking'[t] = now /\ ~Overlapping /\ occ' = occ
    BY <1>5, OtherStepsKeepTheInstant
  <2>2. Ticking!SlotsGoOn  BY <1>1, <1>5 DEF Ticking!TickStep
  <2>3. ASSUME NEW t \in Ticker, looking'[t] # Idle PROVE looking'[t] <= now'
    <3>1. looking'[t] <= now  BY <1>2, <2>1, <2>3 DEF TickingInv
    <3>2. looking'[t] \in Nat  BY <1>2, <1>3 DEF Idle
    <3>3. QED  BY <1>2, <1>3, <2>1, <3>1, <3>2
  <2>4. ASSUME job.catchUp # "all", NEW t \in Ticker, looking'[t] # Idle PROVE TooLate(t)'
    <3>1. CASE looking'[t] = looking[t]
      <4>1. TooLate(t)  BY <2>3, <2>4, <3>1 DEF TickingInv
      <4>2. QED  BY <1>2, <1>4, <2>1, <2>2, <3>1, <4>1 DEF TooLate
    <3>2. CASE ~Overlapping /\ occ' = occ  BY <3>2 DEF TooLate, Overlapping
    <3>3. QED  BY <2>1, <2>4, <3>1, <3>2
  <2>5. NoGap => NoGap'
    <3>1. 1 .. job.next - 1 \subseteq Time  BY <1>2 DEF Time
    <3>2. QED  BY <1>4, <2>1, <2>2, <3>1 DEF NoGap
  <2>6. QED  BY <1>1, <1>4, <2>1, <2>2, <2>3, <2>4, <2>5 DEF TickingInv
<1>6. CASE \E t \in Ticker : Ticking!TickStep(t)
  <2>1. PICK t \in Ticker : Ticking!TickStep(t)  BY <1>6
  <2>2. /\ looking[t] # Idle /\ job.next <= looking[t]
        /\ looking' = [looking EXCEPT ![t] = Idle] /\ UNCHANGED <<now, draft>>
        /\ job'.schedule = job.schedule /\ job'.catchUp = job.catchUp
        /\ job'.next = IF job.schedule = "once" THEN Period
                       ELSE (IF job.catchUp = "all" THEN job.next ELSE now) + Period
        /\ occ'[job.next].status # "none"
    BY <2>1, TickAdvances
  <2>3. \A u \in Ticker : looking'[u] # Idle => looking'[u] = looking[u] /\ looking[u] <= now
    BY <1>2, <2>2 DEF TickingInv
  <2>4. job.schedule = "once" => job'.next = Period /\ job.next = Period
    BY <2>2 DEF TickingInv
  <2>5. \A s \in Time : occ[s].status # "none" => occ'[s].status # "none"
    <3>1. ASSUME NEW u \in Ticker, Ticking!Enqueue(u), NEW s \in Time, occ[s].status # "none"
          PROVE  occ'[s].status # "none"
      <4>1. occ \in [Time -> Ticking!Occurrence]
        BY SameNames DEF TickingInv, Ticking!Inv, Ticking!TypeOK
      <4>2. QED
        BY <3>1, <4>1 DEF Ticking!Enqueue, Ticking!SetOccurrence, Ticking!NewOccurrence
    <3>2. QED  BY <1>1, <1>4, <3>1
  <2>6. ASSUME job.catchUp # "all", NEW u \in Ticker, looking'[u] # Idle PROVE TooLate(u)'
    <3>1. CASE job.schedule = "once"  BY <2>2, <2>4, <3>1 DEF TooLate
    <3>2. CASE job.schedule # "once"
      <4>1. looking'[u] <= now /\ looking'[u] \in Nat  BY <1>2, <1>3, <2>3, <2>6 DEF Idle
      <4>2. job'.next = now + Period  BY <2>2, <2>6, <3>2
      <4>3. looking'[u] < job'.next  BY <1>2, <4>1, <4>2
      <4>4. QED  BY <2>2, <3>2, <4>3 DEF TooLate
    <3>3. QED  BY <3>1, <3>2
  <2>7. job.catchUp # "all" => OneLive'
    <3>1. ASSUME job.catchUp # "all", \E u \in Ticker : Ticking!Enqueue(u) PROVE OneLive'
      <4>1. \A s \in Time : occ'[s].run \in Active => s = job.next  BY <3>1, EnqueueAlone
      <4>2. QED  BY <4>1 DEF OneLive
    <3>2. QED  BY <1>1, <1>4, <3>1 DEF TickingInv
  <2>8. ASSUME job.catchUp = "all", job.schedule = "interval" PROVE NoGap'
    <3>1. NoGap /\ job'.next = job.next + Period  BY <2>2, <2>8 DEF TickingInv
    <3>2. job'.next % Period = 0  BY <1>2, <3>1, NextMultiple DEF NoGap
    <3>3. ASSUME NEW s \in 1 .. job'.next - 1, s % Period = 0 PROVE occ'[s].status # "none"
      <4>1. s \in Nat /\ s < job.next + Period /\ s >= 1 /\ job.next + Period \in Time
        BY <1>2, <1>3, <3>1, <3>3
      <4>2. s \in Time  BY <1>2, <4>1 DEF Time
      <4>3. CASE s < job.next
        <5>1. s \in 1 .. job.next - 1  BY <1>2, <4>1, <4>3
        <5>2. occ[s].status # "none"  BY <3>1, <3>3, <5>1 DEF NoGap
        <5>3. QED  BY <2>5, <4>2, <5>2
      <4>4. CASE s >= job.next
        <5>1. s = job.next  BY <1>2, <3>1, <3>3, <4>1, <4>4, Between DEF NoGap
        <5>2. QED  BY <2>2, <5>1
      <4>5. QED  BY <1>2, <4>1, <4>3, <4>4
    <3>4. QED  BY <3>2, <3>3 DEF NoGap
  <2>9. QED  BY <1>1, <2>2, <2>3, <2>4, <2>6, <2>7, <2>8 DEF TickingInv
<1>7. QED  BY <1>5, <1>6

----------------------------------------------------------------------------
(* One ticker, and every command                                           *)

\* At most one transaction looks for the job, and none while a run goes on.
EditingInv ==
  /\ Editing!Inv
  /\ OneLive
  /\ \A s, t \in Ticker : looking[s] # Idle /\ looking[t] # Idle => s = t
  /\ \A t \in Ticker : looking[t] # Idle => ~Overlapping

\* However the job is triggered, edited from a stale row or removed meanwhile,
\* the one ticker keeps the invariant.
LEMMA EditingInductive ==
  ASSUME EditingInv, [Editing!Next]_(Editing!vars),
         Editing!Next => OneLooks
  PROVE  EditingInv'
<1>1. Editing!Inv' /\ (Editing!SlotsGoOn \/ \E t \in Ticker : Editing!Enqueue(t))
  BY InstancesAssume, Editing!Inductive DEF EditingInv
<1>2. looking \in [Ticker -> 0 .. Idle]  BY Rows DEF EditingInv
<1>3. occ \in [Time -> Editing!Occurrence]
  BY SameNames DEF EditingInv, Editing!Inv, Editing!TypeOK
<1>4. \A s, t \in Ticker : looking'[s] # Idle /\ looking'[t] # Idle => s = t
  BY DEF EditingInv, OneLooks, Editing!vars
<1>5. CASE Editing!SlotsGoOn /\ \A t \in Ticker : ~Editing!Enqueue(t)
  <2>1. OneLive' /\ (Overlapping' => Overlapping)
    BY <1>5, SameNames DEF EditingInv, Editing!SlotsGoOn, OneLive, Overlapping
  <2>2. ASSUME NEW t \in Ticker, looking'[t] # Idle PROVE ~Overlapping'
    <3>1. \/ looking' = looking
          \/ \E u \in Ticker : Editing!LookForDueJob(u)
          \/ \E u \in Ticker : looking' = [looking EXCEPT ![u] = Idle]
      BY InstancesAssume, Editing!JobGoesOn, SameNames
      DEF Editing!Pass, Editing!UserStep, Editing!SetEnabled, Editing!TriggerJob,
          Editing!DeleteJob, Editing!FetchJob, Editing!UpdateJob, Editing!GiveUp,
          Editing!TickStep, Editing!Skip, Editing!AlreadyInserted, Editing!Enqueue, Editing!Tick
    <3>2. CASE looking' = looking  BY <2>1, <2>2, <3>2 DEF EditingInv
    <3>3. CASE \E u \in Ticker : Editing!LookForDueJob(u)
      BY <2>1, <3>3, SameNames DEF Editing!LookForDueJob
    <3>4. CASE \E u \in Ticker : looking' = [looking EXCEPT ![u] = Idle]
      BY <1>2, <2>1, <2>2, <3>4 DEF EditingInv
    <3>5. QED  BY <3>1, <3>2, <3>3, <3>4
  <2>3. QED  BY <1>1, <1>4, <2>1, <2>2 DEF EditingInv
<1>6. CASE \E t \in Ticker : Editing!Enqueue(t)
  <2>1. PICK t \in Ticker : Editing!Enqueue(t)  BY <1>6
  <2>2. looking[t] # Idle /\ looking' = [looking EXCEPT ![t] = Idle]
    BY <2>1, SameNames DEF Editing!Enqueue, Editing!Tick
  <2>3. \A u \in Ticker : looking'[u] = Idle  BY <1>2, <2>2 DEF EditingInv
  <2>4. ~Overlapping  BY <2>2 DEF EditingInv
  <2>5. \A s \in Time : s # job.next => occ'[s] = occ[s]
    BY <1>3, <2>1 DEF Editing!Enqueue, Editing!SetOccurrence
  <2>6. OneLive'  BY <2>4, <2>5 DEF OneLive, Overlapping
  <2>7. QED  BY <1>1, <1>4, <2>3, <2>6 DEF EditingInv
<1>7. QED  BY <1>1, <1>5, <1>6

----------------------------------------------------------------------------
SceneInv ==
  \/ scene = "ticking" /\ TickingInv
  \/ scene = "editing" /\ EditingInv

\* No occurrence is claimed.
LEMMA ScenesBegin == InitScene => SceneInv
<1> SUFFICES ASSUME InitScene PROVE SceneInv  OBVIOUS
<1>1. scene \in {"ticking", "editing"} /\ Init  BY DEF InitScene
<1>2. Ticking!Init /\ Editing!Init
  BY <1>1 DEF Init, Ticking!Init, Editing!Init, CreateJob, Ticking!CreateJob, Editing!CreateJob,
          ComputeNextRun, Ticking!ComputeNextRun, Editing!ComputeNextRun, Idle, Ticking!Idle,
          Editing!Idle, Time, Ticking!Time, Editing!Time, NewOccurrence, Ticking!NewOccurrence,
          Editing!NewOccurrence
<1>3. Ticking!Inv /\ Editing!Inv
  BY <1>2, InstancesAssume, Ticking!Initially, Editing!Initially
<1>4. \A s \in Time : occ[s].run \notin Active  BY <1>1 DEF Init, NewOccurrence, Active
<1>5. \A t \in Ticker : looking[t] = Idle  BY <1>1 DEF Init
<1>6. draft = NoDraft /\ job.next = Period
  <2>1. Period \in Nat \ {0}  BY CronAssumption DEF CronAssumption
  <2>2. PICK catchUp \in CatchUp, schedule \in Schedule, maxRuns \in MaxRuns :
          job = CreateJob(catchUp, schedule, maxRuns)
    BY <1>1 DEF Init
  <2>3. job.next = ComputeNextRun(schedule, 0)  BY <2>2 DEF CreateJob
  <2>4. QED  BY <1>1, <2>1, <2>3 DEF ComputeNextRun, Init
<1>7. NoGap
  <2>1. Period \in Nat \ {0}  BY CronAssumption DEF CronAssumption
  <2>2. QED  BY <1>6, <2>1, FirstMultiple DEF NoGap
<1>8. OneLive /\ ~Overlapping  BY <1>4 DEF OneLive, Overlapping
<1>9. QED  BY <1>1, <1>3, <1>5, <1>6, <1>7, <1>8 DEF SceneInv, TickingInv, EditingInv

\* Every step of either scene keeps the invariant.
LEMMA ScenesGoOn == SceneInv /\ [NextScene]_<<vars, scene>> => SceneInv'
<1> SUFFICES ASSUME SceneInv, [NextScene]_<<vars, scene>> PROVE SceneInv'  OBVIOUS
<1>1. scene' = scene  BY DEF NextScene
<1>2. CASE scene = "ticking" /\ TickingInv
  <2>1. [Ticking!Next]_(Ticking!vars)  BY <1>2 DEF NextScene, vars, Ticking!vars
  <2>2. QED  BY <1>1, <1>2, <2>1, TickingInductive DEF SceneInv
<1>3. CASE scene = "editing" /\ EditingInv
  <2>1. (Editing!Next /\ OneLooks) \/ UNCHANGED vars  BY <1>3 DEF NextScene
  <2>2. CASE Editing!Next /\ OneLooks  BY <1>1, <1>3, <2>2, EditingInductive DEF SceneInv
  <2>3. CASE UNCHANGED vars
    <3>1. OneLooks \/ ~Editing!Next  BY <1>3, <2>3 DEF OneLooks, vars, EditingInv
    <3>2. [Editing!Next]_(Editing!vars)  BY <2>3 DEF vars, Editing!vars
    <3>3. QED  BY <1>1, <1>3, <3>1, <3>2, EditingInductive DEF SceneInv
  <2>4. QED  BY <2>1, <2>2, <2>3
<1>4. QED  BY <1>2, <1>3 DEF SceneInv

\* The strengthening holds in both scenes: a run goes on only while nobody finds
\* the job due, or whoever does comes too late.
THEOREM ScenesInvariance == SceneSpec => []SceneInv
<1>1. QED  BY ScenesBegin, ScenesGoOn, PTL DEF SceneSpec

\* At most one occurrence of the job has a run that is not final
\* (fetch_due_job_for_update, whose NOT EXISTS sees an older snapshot than the
\* row it locks).
THEOREM OneOccurrenceLives == SceneSpec => []OneLiveOccurrence
<1>1. SceneInv => OneLiveOccurrence
  BY DEF SceneInv, TickingInv, EditingInv, OneLive, OneLiveOccurrence
<1>2. QED  BY <1>1, ScenesInvariance, PTL

\* run_count counts every instant that was started once and stays within
\* max_runs; and catch_up_policy "all" leaves no instant out.
THEOREM NoInstantIsLost == SceneSpec => []InstantsAreCounted
<1>1. SceneInv => InstantsAreCounted
  <2>1. SceneInv => CountIsExact  BY Rows DEF SceneInv, TickingInv, EditingInv
  <2>2. SceneInv => (scene = "ticking" /\ job.catchUp = "all" /\ job.schedule = "interval" => NoGap)
    BY DEF SceneInv, TickingInv
  <2>3. QED  BY <2>1, <2>2 DEF InstantsAreCounted, NoGap
<1>2. QED  BY <1>1, ScenesInvariance, PTL
=============================================================================
