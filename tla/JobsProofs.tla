----------------------------- MODULE JobsProofs -----------------------------
(***************************************************************************)
(* Jobs are decided once, claims exclude, occurrences are exact and a      *)
(* decision always fits, for any runners, jobs, schedules, ttls, intervals *)
(* and capacity.                                                           *)
(*                                                                         *)
(* Exclusion is not inductive alone: ClaimsHeld adds that a claim in hand  *)
(* is its row's current one or was superseded after it expired, and that   *)
(* no two hands hold one claim, so that settling one spoils no other.      *)
(* OccurrencesExact needs OccurrencesKnown, that no occurrence lies beyond *)
(* the next one; DecisionsFit needs decisions to count succeeded jobs.     *)
(***************************************************************************)
EXTENDS Jobs, FiniteSetTheorems, TLAPS

\* Nothing is stored, claimed or decided at first.
LEMMA InitIInv == Init => IInv
  <1> SUFFICES ASSUME Init PROVE IInv
    OBVIOUS
  <1>1. TypeOK
    BY JobAssumption DEF Init, TypeOK, NoSweep, Idle, Rounds
  <1>2. DecidedOnce /\ OccurrencesExact /\ OccurrencesKnown
    BY DEF Init, DecidedOnce, OccurrencesExact, OccurrencesKnown
  <1>3. ClaimsHeld
    BY DEF Init, ClaimsHeld, Idle
  <1>4. DecisionsCounted
    <2>1. DOMAIN jobs = {} /\ DOMAIN schedules = {} /\ Len(decisions) = 0
      BY DEF Init
    <2>2. {id \in DOMAIN jobs : jobs[id].state = "succeeded"} = {}
      BY <2>1
    <2>3. 0 <= Capacity
      BY JobAssumption
    <2> QED BY <2>1, <2>2, <2>3, FS_EmptySet DEF DecisionsCounted
  <1> QED BY <1>1, <1>2, <1>3, <1>4 DEF IInv

\* A new row and a changed row, as facts about each key.
LEMMA PutFacts ==
  ASSUME NEW f, NEW k, NEW v
  PROVE  /\ DOMAIN Put(f, k, v) = DOMAIN f \cup {k}
         /\ Put(f, k, v)[k] = v
         /\ \A x \in DOMAIN f : x # k => Put(f, k, v)[x] = f[x]
  BY DEF Put

\* Time passes, rounds start and abort: what is stored stays and no claim is gained.
LEMMA StoreKept ==
  ASSUME IInv, jobs' = jobs, decisions' = decisions, store' = store,
         clock' \in Nat, clock <= clock',
         \A r \in Runners : run'[r].todo \subseteq run[r].todo
  PROVE  DecidedOnce' /\ ClaimsHeld'
  <1>1. DecidedOnce'
    BY DEF IInv, DecidedOnce
  <1>2. \A r \in Runners : \A claim \in run[r].todo : claim.claimed_until \in Nat
    BY DEF IInv, TypeOK, Rounds, Claims
  <1>3. clock \in Nat
    BY DEF IInv, TypeOK
  <1>4. ClaimsHeld'
    BY <1>2, <1>3 DEF IInv, ClaimsHeld
  <1> QED BY <1>1, <1>4

\* Schedules stay: their occurrences and the counts do.
LEMMA RecordsKept ==
  ASSUME IInv, jobs' = jobs, decisions' = decisions, store' = store, schedules' = schedules
  PROVE  OccurrencesExact' /\ OccurrencesKnown' /\ DecisionsCounted'
  BY DEF IInv, OccurrencesExact, OccurrencesKnown, DecisionsCounted

LEMMA TickStep ==
  ASSUME IInv, Tick
  PROVE  IInv'
  <1>1. clock \in Nat /\ clock' = clock + 1
        /\ UNCHANGED <<store, jobs, schedules, decisions, sweep, run>>
    BY DEF Tick, IInv, TypeOK
  <1>2. TypeOK'
    <2>1. \A r \in Runners : run[r].now \in Nat /\ run[r].now <= clock
      BY DEF IInv, TypeOK, Rounds
    <2> QED BY <1>1, <2>1 DEF IInv, TypeOK
  <1> QED BY <1>1, <1>2, StoreKept, RecordsKept DEF IInv

\* A round starts or aborts.
LEMMA RoundStep ==
  ASSUME IInv, NEW r \in Runners, RunStarts(r) \/ RunAborts(r)
  PROVE  IInv'
  <1>1. UNCHANGED <<store, jobs, schedules, decisions, sweep, clock>> /\ clock \in Nat
    BY DEF RunStarts, RunAborts, IInv, TypeOK
  <1>2. PICK round \in Rounds :
              round.todo = {} /\ round.now <= clock /\ run' = [run EXCEPT ![r] = round]
    <2>1. CASE RunAborts(r)
      <3>1. Idle \in Rounds /\ Idle.todo = {} /\ Idle.now <= clock
        BY <1>1 DEF Idle, Rounds
      <3>2. run' = [run EXCEPT ![r] = Idle]
        BY <2>1 DEF RunAborts
      <3> QED BY <3>1, <3>2
    <2>2. CASE RunStarts(r)
      <3> DEFINE started == [stage |-> "claiming", now |-> clock, todo |-> {}]
      <3>1. started \in Rounds /\ started.todo = {} /\ started.now <= clock
        BY <1>1 DEF Idle, Rounds
      <3>2. run' = [run EXCEPT ![r] = started]
        BY <2>2 DEF RunStarts
      <3> HIDE DEF started
      <3> QED BY <3>1, <3>2
    <2> QED BY <2>1, <2>2
  <1>3. TypeOK'
    BY <1>1, <1>2 DEF IInv, TypeOK
  <1>4. \A q \in Runners : run'[q].todo \subseteq run[q].todo
    BY <1>2 DEF IInv, TypeOK
  <1> QED BY <1>1, <1>3, <1>4, StoreKept, RecordsKept DEF IInv

\* A job is added: it has no claims and no decision, and the store had room.
LEMMA AddedJob ==
  ASSUME IInv, NEW id \in Ids \ DOMAIN jobs, NEW t \in Nat, Fits,
         jobs' = Put(jobs, id, NewJob(t)),
         decisions' = decisions, store' = store, clock' = clock, run' = run
  PROVE  /\ DOMAIN jobs' = DOMAIN jobs \cup {id}
         /\ DOMAIN jobs' \subseteq Ids /\ jobs' \in [DOMAIN jobs' -> Jobs]
         /\ jobs'[id] = NewJob(t)
         /\ \A x \in DOMAIN jobs : jobs'[x] = jobs[x]
         /\ DecidedOnce' /\ ClaimsHeld'
         /\ IsFiniteSet(DOMAIN jobs')
         /\ Len(decisions') =
                Cardinality({x \in DOMAIN jobs' : jobs'[x].state = "succeeded"})
         /\ store' = "memory" => Cardinality(DOMAIN jobs') <= Capacity
  <1>1. /\ DOMAIN jobs' = DOMAIN jobs \cup {id}
        /\ jobs'[id] = NewJob(t)
        /\ \A x \in DOMAIN jobs : jobs'[x] = jobs[x]
    BY DEF Put
  <1>2. NewJob(t) \in Jobs /\ NewJob(t).state = "scheduled"
    BY DEF NewJob, Jobs
  <1>3. DOMAIN jobs' \subseteq Ids /\ jobs' \in [DOMAIN jobs' -> Jobs]
    <2>1. \A x \in DOMAIN jobs' : jobs'[x] \in Jobs
      BY <1>1, <1>2 DEF IInv, TypeOK
    <2>2. jobs' = [x \in DOMAIN jobs' |-> jobs'[x]]
      BY DEF Put
    <2> QED BY <1>1, <2>1, <2>2 DEF IInv, TypeOK
  <1>4. DecidedOnce'
    BY <1>1, <1>2 DEF IInv, DecidedOnce
  <1>5. ClaimsHeld'
    BY <1>1 DEF IInv, ClaimsHeld
  <1>6. {x \in DOMAIN jobs' : jobs'[x].state = "succeeded"}
           = {x \in DOMAIN jobs : jobs[x].state = "succeeded"}
    BY <1>1, <1>2
  <1>7. /\ IsFiniteSet(DOMAIN jobs') /\ Cardinality(DOMAIN jobs') = Cardinality(DOMAIN jobs) + 1
    <2>1. IsFiniteSet(DOMAIN jobs)
      BY DEF IInv, DecisionsCounted
    <2> DEFINE S == DOMAIN jobs
    <2>2. IsFiniteSet(S) /\ id \notin S /\ DOMAIN jobs' = S \cup {id}
      BY <1>1, <2>1
    <2> HIDE DEF S
    <2>3. IsFiniteSet(S \cup {id}) /\ Cardinality(S \cup {id}) = Cardinality(S) + 1
      BY <2>2, FS_AddElement
    <2> QED BY <2>2, <2>3 DEF S
  <1>8. store = "memory" => Cardinality(DOMAIN jobs) < Capacity
    <2>1. Cardinality(DOMAIN jobs) \in Nat /\ Cardinality(DOMAIN schedules) \in Nat
      BY FS_CardinalityType DEF IInv, DecisionsCounted
    <2>2. Len(decisions) \in Nat /\ Capacity \in Nat
      BY JobAssumption DEF IInv, TypeOK
    <2> QED BY <2>1, <2>2 DEF Fits
  <1>9. Cardinality(DOMAIN jobs) \in Nat /\ Capacity \in Nat
    BY FS_CardinalityType, JobAssumption DEF IInv, DecisionsCounted
  <1>10. Len(decisions) = Cardinality({x \in DOMAIN jobs : jobs[x].state = "succeeded"})
    BY DEF IInv, DecisionsCounted
  <1>11. Len(decisions') =
            Cardinality({x \in DOMAIN jobs' : jobs'[x].state = "succeeded"})
    BY <1>6, <1>10
  <1>12. store' = "memory" => Cardinality(DOMAIN jobs') <= Capacity
    BY <1>7, <1>8, <1>9
  <1> QED BY <1>1, <1>3, <1>4, <1>5, <1>7, <1>11, <1>12

LEMMA ScheduleStep ==
  ASSUME IInv, NEW name \in Names, NEW run_at \in Starts, Schedule(name, run_at)
  PROVE  IInv'
  <1> DEFINE id == <<name, 0>>
  <1>1. id \in Ids \ DOMAIN jobs /\ run_at \in Nat /\ id[1] \notin Schedules
    BY JobAssumption DEF Schedule, Ids
  <1>2. /\ jobs' = Put(jobs, id, NewJob(run_at)) /\ Fits
        /\ UNCHANGED <<store, schedules, decisions, sweep, clock, run>>
    BY DEF Schedule
  <1>3. \A s \in Schedules, k \in Nat : <<s, k>> # id
    BY JobAssumption
  <1> HIDE DEF id
  <1>4. /\ DOMAIN jobs' = DOMAIN jobs \cup {id}
        /\ DOMAIN jobs' \subseteq Ids /\ jobs' \in [DOMAIN jobs' -> Jobs]
        /\ \A x \in DOMAIN jobs : jobs'[x] = jobs[x]
        /\ DecidedOnce' /\ ClaimsHeld'
        /\ IsFiniteSet(DOMAIN jobs')
        /\ Len(decisions') =
                Cardinality({x \in DOMAIN jobs' : jobs'[x].state = "succeeded"})
        /\ store' = "memory" => Cardinality(DOMAIN jobs') <= Capacity
    BY <1>1, <1>2, AddedJob
  <1>5. TypeOK'
    BY <1>2, <1>4 DEF IInv, TypeOK
  <1>6. OccurrencesExact'
    <2> SUFFICES ASSUME NEW s \in DOMAIN schedules
                 PROVE  OccurrencesExact!(s)'
      BY <1>2 DEF OccurrencesExact
    <2>1. schedules' = schedules /\ s \in Schedules /\ schedules[s].sequence \in Nat
      BY <1>2 DEF IInv, TypeOK, ScheduleRows
    <2>2. \A k \in 0..schedules[s].sequence :
              /\ <<s, k>> \in DOMAIN jobs' <=> <<s, k>> \in DOMAIN jobs
              /\ <<s, k>> \in DOMAIN jobs => jobs'[<<s, k>>] = jobs[<<s, k>>]
      BY <1>3, <1>4, <2>1
    <2> QED BY <2>1, <2>2 DEF IInv, OccurrencesExact
  <1>7. OccurrencesKnown'
    BY <1>1, <1>2, <1>4 DEF IInv, OccurrencesKnown
  <1>8. DecisionsCounted'
    BY <1>2, <1>4 DEF IInv, DecisionsCounted
  <1> QED BY <1>4, <1>5, <1>6, <1>7, <1>8 DEF IInv

LEMMA AddScheduleStep ==
  ASSUME IInv, NEW s \in Schedules, NEW kind \in Kinds, NEW next_run \in Starts,
         AddSchedule(s, kind, next_run)
  PROVE  IInv'
  <1> DEFINE row == [kind |-> kind, next_run |-> next_run, first |-> next_run,
                     sequence |-> 0, active |-> TRUE]
  <1>1. /\ UNCHANGED <<store, jobs, decisions, sweep, clock, run>>
        /\ s \notin DOMAIN schedules /\ schedules' = Put(schedules, s, row)
    BY DEF AddSchedule
  <1>2. /\ row \in ScheduleRows /\ row.sequence = 0 /\ row.active
        /\ row.kind = kind /\ row.next_run = row.first /\ row.first \in Nat
    BY JobAssumption DEF ScheduleRows
  <1> HIDE DEF row
  <1>3. /\ DOMAIN schedules' = DOMAIN schedules \cup {s}
        /\ schedules'[s] = row
        /\ \A t \in DOMAIN schedules : schedules'[t] = schedules[t]
        /\ schedules' = [t \in DOMAIN schedules' |-> schedules'[t]]
    BY <1>1 DEF Put
  <1>4. TypeOK'
    <2>1. \A t \in DOMAIN schedules' : schedules'[t] \in ScheduleRows
      BY <1>2, <1>3 DEF IInv, TypeOK
    <2>2. sweep' \in [todo : SUBSET DOMAIN schedules', now : Nat, created : Nat]
      BY <1>1, <1>3 DEF IInv, TypeOK
    <2>3. DOMAIN schedules' \subseteq Schedules /\ schedules' \in [DOMAIN schedules' -> ScheduleRows]
      BY <1>3, <2>1 DEF IInv, TypeOK
    <2> QED BY <1>1, <2>2, <2>3 DEF IInv, TypeOK
  <1>5. \A k \in Nat : <<s, k>> \notin DOMAIN jobs
    BY <1>1 DEF IInv, OccurrencesKnown
  <1>6. OccurrencesExact'
    <2> SUFFICES ASSUME NEW t \in DOMAIN schedules'
                 PROVE  OccurrencesExact!(t)'
      BY DEF OccurrencesExact
    <2>1. CASE t = s
      BY <1>1, <1>2, <1>3, <1>5, <2>1, JobAssumption
    <2>2. CASE t # s
      BY <1>1, <1>3, <2>2 DEF IInv, OccurrencesExact
    <2> QED BY <2>1, <2>2
  <1>7. OccurrencesKnown'
    BY <1>1, <1>3 DEF IInv, OccurrencesKnown
  <1>8. DecisionsCounted'
    <2> DEFINE S == DOMAIN schedules
    <2>1. IsFiniteSet(S) /\ DOMAIN schedules' = S \cup {s}
      BY <1>3 DEF IInv, DecisionsCounted
    <2> HIDE DEF S
    <2>2. IsFiniteSet(S \cup {s})
      BY <2>1, FS_AddElement
    <2> QED BY <1>1, <2>1, <2>2 DEF IInv, DecisionsCounted
  <1>9. clock \in Nat /\ \A r \in Runners : run'[r].todo \subseteq run[r].todo
    BY <1>1 DEF IInv, TypeOK
  <1>10. DecidedOnce' /\ ClaimsHeld'
    BY <1>1, <1>9, StoreKept
  <1> QED BY <1>4, <1>6, <1>7, <1>8, <1>10 DEF IInv

\* A sweep starts, or skips a schedule, or ends: only the sweep changes.
LEMMA SweepStep ==
  ASSUME IInv, UNCHANGED <<store, jobs, schedules, decisions, clock, run>>,
         sweep' \in [todo : SUBSET DOMAIN schedules, now : Nat, created : Nat]
  PROVE  IInv'
  <1>1. TypeOK'
    BY DEF IInv, TypeOK
  <1>2. clock \in Nat /\ \A r \in Runners : run'[r].todo \subseteq run[r].todo
    BY DEF IInv, TypeOK
  <1> QED BY <1>1, <1>2, StoreKept, RecordsKept DEF IInv

\* What a due schedule does to the jobs.
LEMMA MaterializedJobs ==
  ASSUME IInv, NEW s \in DOMAIN schedules, Fresh(s) => Fits, jobs' = Materialized(s),
         decisions' = decisions, store' = store, clock' = clock, run' = run
  PROVE  /\ DOMAIN jobs' = DOMAIN jobs \cup {<<s, schedules[s].sequence>>}
         /\ DOMAIN jobs' \subseteq Ids /\ jobs' \in [DOMAIN jobs' -> Jobs]
         /\ Fresh(s) => jobs'[<<s, schedules[s].sequence>>] = NewJob(schedules[s].next_run)
         /\ \A x \in DOMAIN jobs : jobs'[x] = jobs[x]
         /\ DecidedOnce' /\ ClaimsHeld'
         /\ IsFiniteSet(DOMAIN jobs')
         /\ Len(decisions') =
                Cardinality({x \in DOMAIN jobs' : jobs'[x].state = "succeeded"})
         /\ store' = "memory" => Cardinality(DOMAIN jobs') <= Capacity
  <1> DEFINE id == <<s, schedules[s].sequence>>
             t == schedules[s].next_run
  <1>1. id \in Ids /\ t \in Nat
    BY DEF IInv, TypeOK, ScheduleRows, Ids
  <1>2. CASE Fresh(s)
    <2>1. id \in Ids \ DOMAIN jobs /\ Fits /\ jobs' = Put(jobs, id, NewJob(t))
      BY <1>1, <1>2 DEF Fresh, Materialized
    <2> HIDE DEF id, t
    <2>2. /\ DOMAIN jobs' = DOMAIN jobs \cup {id}
          /\ DOMAIN jobs' \subseteq Ids /\ jobs' \in [DOMAIN jobs' -> Jobs]
          /\ jobs'[id] = NewJob(t)
          /\ \A x \in DOMAIN jobs : jobs'[x] = jobs[x]
          /\ DecidedOnce' /\ ClaimsHeld'
          /\ IsFiniteSet(DOMAIN jobs')
          /\ Len(decisions') =
                 Cardinality({x \in DOMAIN jobs' : jobs'[x].state = "succeeded"})
          /\ store' = "memory" => Cardinality(DOMAIN jobs') <= Capacity
      BY <1>1, <2>1, AddedJob
    <2>3. DOMAIN jobs' = DOMAIN jobs \cup {<<s, schedules[s].sequence>>}
      BY <2>2 DEF id
    <2>4. jobs'[<<s, schedules[s].sequence>>] = NewJob(schedules[s].next_run)
      BY <2>2 DEF id, t
    <2> QED BY <2>2, <2>3, <2>4
  <1>3. CASE ~Fresh(s)
    <2>1. id \in DOMAIN jobs /\ jobs' = jobs
      BY <1>3 DEF Fresh, Materialized
    <2>2. clock \in Nat /\ \A r \in Runners : run'[r].todo \subseteq run[r].todo
      BY DEF IInv, TypeOK
    <2>3. DecidedOnce' /\ ClaimsHeld'
      BY <2>1, <2>2, StoreKept
    <2>4. DOMAIN jobs \subseteq Ids /\ jobs \in [DOMAIN jobs -> Jobs]
      BY DEF IInv, TypeOK
    <2>5. /\ IsFiniteSet(DOMAIN jobs)
          /\ Len(decisions) =
                Cardinality({x \in DOMAIN jobs : jobs[x].state = "succeeded"})
          /\ store = "memory" => Cardinality(DOMAIN jobs) <= Capacity
      BY DEF IInv, DecisionsCounted
    <2>6. DOMAIN jobs' = DOMAIN jobs \cup {id}
      BY <2>1
    <2>7. /\ IsFiniteSet(DOMAIN jobs')
          /\ Len(decisions') =
                Cardinality({x \in DOMAIN jobs' : jobs'[x].state = "succeeded"})
          /\ store' = "memory" => Cardinality(DOMAIN jobs') <= Capacity
      BY <2>1, <2>5
    <2>8. DOMAIN jobs' \subseteq Ids /\ jobs' \in [DOMAIN jobs' -> Jobs]
      BY <2>1, <2>4
    <2>9. \A x \in DOMAIN jobs : jobs'[x] = jobs[x]
      BY <2>1
    <2> QED BY <1>3, <2>3, <2>6, <2>7, <2>8, <2>9
  <1> QED BY <1>2, <1>3

\* The schedule that follows an occurrence.
LEMMA AdvancedFacts ==
  ASSUME NEW row \in ScheduleRows, NEW next \in Advanced(row)
  PROVE  /\ next \in ScheduleRows
         /\ next.kind = row.kind /\ next.first = row.first
         /\ next.sequence = row.sequence + 1
         /\ row.kind = "one_shot" => ~next.active
         /\ row.kind = "fixed_interval" => next.next_run = row.next_run + Interval
  <1>1. PICK next_run \in Nat, active \in BOOLEAN :
              /\ next = Following(row, next_run, active)
              /\ row.kind = "one_shot" => ~active
              /\ row.kind = "fixed_interval" => next_run = row.next_run + Interval
    <2>1. Interval \in Nat /\ row.next_run \in Nat
      BY JobAssumption DEF ScheduleRows
    <2>2. CASE row.kind = "one_shot"
      <3>1. next = Following(row, row.next_run, FALSE)
        BY <2>2 DEF Advanced
      <3>2. row.next_run \in Nat /\ FALSE \in BOOLEAN
        BY <2>1
      <3> QED BY <2>2, <3>1, <3>2
    <2>3. CASE row.kind = "fixed_interval"
      <3>1. next = Following(row, row.next_run + Interval, TRUE)
        BY <2>3 DEF Advanced
      <3>2. row.next_run + Interval \in Nat /\ TRUE \in BOOLEAN /\ row.kind # "one_shot"
        BY <2>1, <2>3
      <3> QED BY <3>1, <3>2
    <2>4. CASE row.kind = "consumer_policy"
      <3>1. \/ next = Following(row, row.next_run, FALSE)
            \/ \E later \in 1..Interval : next = Following(row, row.next_run + later, TRUE)
        BY <2>4 DEF Advanced
      <3>2. \A later \in 1..Interval : row.next_run + later \in Nat
        BY <2>1
      <3>3. CASE next = Following(row, row.next_run, FALSE)
        BY <2>1, <2>4, <3>3
      <3>4. CASE \E later \in 1..Interval : next = Following(row, row.next_run + later, TRUE)
        BY <2>4, <3>2, <3>4
      <3> QED BY <3>1, <3>3, <3>4
    <2> QED BY <2>2, <2>3, <2>4 DEF ScheduleRows, Kinds
  <1> QED BY <1>1 DEF Following, ScheduleRows

\* An occurrence appears and its schedule advances.
LEMMA OccurrenceStep ==
  ASSUME IInv, NEW s \in DOMAIN schedules, Fresh(s) => Fits, schedules[s].active,
         jobs' = Materialized(s),
         NEW next \in Advanced(schedules[s]), schedules' = Put(schedules, s, next),
         sweep' \in [todo : SUBSET DOMAIN schedules, now : Nat, created : Nat],
         decisions' = decisions, store' = store, clock' = clock, run' = run
  PROVE  IInv'
  <1> DEFINE row == schedules[s]
             id == <<s, row.sequence>>
  <1>1. row \in ScheduleRows /\ s \in Schedules
    BY DEF IInv, TypeOK
  <1>2. /\ next \in ScheduleRows
        /\ next.kind = row.kind /\ next.first = row.first
        /\ next.sequence = row.sequence + 1
        /\ row.kind = "one_shot" => ~next.active
        /\ row.kind = "fixed_interval" => next.next_run = row.next_run + Interval
    BY <1>1, AdvancedFacts
  <1>3. /\ DOMAIN jobs' = DOMAIN jobs \cup {id}
        /\ DOMAIN jobs' \subseteq Ids /\ jobs' \in [DOMAIN jobs' -> Jobs]
        /\ Fresh(s) => jobs'[id] = NewJob(row.next_run)
        /\ \A x \in DOMAIN jobs : jobs'[x] = jobs[x]
        /\ DecidedOnce' /\ ClaimsHeld'
    BY MaterializedJobs
  <1>4. DecisionsCounted'
    <2>1. /\ IsFiniteSet(DOMAIN jobs')
          /\ Len(decisions') =
                Cardinality({x \in DOMAIN jobs' : jobs'[x].state = "succeeded"})
          /\ store' = "memory" => Cardinality(DOMAIN jobs') <= Capacity
      BY MaterializedJobs
    <2>2. DOMAIN schedules' = DOMAIN schedules
      BY DEF Put
    <2> QED BY <2>1, <2>2 DEF IInv, DecisionsCounted
  <1>5. /\ DOMAIN schedules' = DOMAIN schedules
        /\ schedules'[s] = next
        /\ \A t \in DOMAIN schedules : t # s => schedules'[t] = schedules[t]
        /\ schedules' = [t \in DOMAIN schedules' |-> schedules'[t]]
    BY DEF Put
  <1>6. TypeOK'
    <2>1. \A t \in DOMAIN schedules' : schedules'[t] \in ScheduleRows
      BY <1>2, <1>5 DEF IInv, TypeOK
    <2>2. DOMAIN schedules' \subseteq Schedules /\ schedules' \in [DOMAIN schedules' -> ScheduleRows]
      BY <1>5, <2>1 DEF IInv, TypeOK
    <2> QED BY <1>3, <1>5, <2>2 DEF IInv, TypeOK
  <1>7. row.sequence \in Nat /\ row.next_run \in Nat /\ row.first \in Nat /\ Interval \in Nat
    BY <1>1, JobAssumption DEF ScheduleRows
  <1>8. OccurrencesKnown'
    <2> SUFFICES ASSUME NEW x \in DOMAIN jobs', x[1] \in Schedules
                 PROVE  x[1] \in DOMAIN schedules' /\ x[2] <= schedules'[x[1]].sequence
      BY DEF OccurrencesKnown
    <2>1. CASE x = id
      BY <1>2, <1>5, <1>7, <2>1
    <2>2. CASE x \in DOMAIN jobs
      <3>1. x[1] \in DOMAIN schedules /\ x[2] <= schedules[x[1]].sequence
        BY <2>2 DEF IInv, OccurrencesKnown
      <3>2. x[2] \in Nat
        BY <2>2 DEF IInv, TypeOK, Ids
      <3> QED BY <1>2, <1>5, <1>7, <3>1, <3>2
    <2> QED BY <1>3, <2>1, <2>2
  <1>9. OccurrencesExact'
    <2> SUFFICES ASSUME NEW t \in DOMAIN schedules
                 PROVE  OccurrencesExact!(t)'
      BY <1>5 DEF OccurrencesExact
    <2>1. CASE t # s
      <3>1. schedules'[t] = schedules[t] /\ schedules[t].sequence \in Nat
        BY <1>5, <2>1 DEF IInv, TypeOK, ScheduleRows
      <3>2. \A k \in 0..schedules[t].sequence :
              /\ <<t, k>> \in DOMAIN jobs' <=> <<t, k>> \in DOMAIN jobs
              /\ <<t, k>> \in DOMAIN jobs => jobs'[<<t, k>>] = jobs[<<t, k>>]
        BY <1>3, <2>1
      <3> QED BY <3>1, <3>2 DEF IInv, OccurrencesExact
    <2>2. CASE t = s
      <3>1. /\ (0..row.sequence - 1) \subseteq {k \in 0..row.sequence : <<s, k>> \in DOMAIN jobs}
            /\ id \in DOMAIN jobs => row.kind = "consumer_policy"
            /\ row.kind = "one_shot" => row.sequence = 0
            /\ row.kind = "fixed_interval" =>
                /\ row.next_run = row.first + row.sequence * Interval
                /\ \A k \in 0..row.sequence : <<s, k>> \in DOMAIN jobs /\ jobs[<<s, k>>].attempt = 0 =>
                        jobs[<<s, k>>].run_at = row.first + k * Interval
        <4>1. OccurrencesExact!(s)
          BY DEF IInv, OccurrencesExact
        <4>2. id \in DOMAIN jobs => row.kind = "consumer_policy"
          BY <1>7, <4>1
        <4>3. row.kind = "one_shot" => row.sequence = 0
          BY <4>1
        <4> QED BY <4>1, <4>2, <4>3
      <3>2. \A k \in 0..row.sequence : <<s, k>> \in DOMAIN jobs'
        BY <1>3, <1>7, <3>1
      <3>3. <<s, row.sequence + 1>> \notin DOMAIN jobs'
        <4>1. <<s, row.sequence + 1>> \notin DOMAIN jobs
          BY <1>1, <1>7 DEF IInv, OccurrencesKnown
        <4> QED BY <1>3, <1>7, <4>1
      <3>4. row.kind = "one_shot" => next.sequence = 1 /\ ~next.active
        BY <1>2, <3>1
      <3>5. ASSUME row.kind = "fixed_interval"
            PROVE  /\ next.next_run = next.first + next.sequence * Interval
                   /\ \A k \in 0..row.sequence : jobs'[<<s, k>>].attempt = 0 =>
                        jobs'[<<s, k>>].run_at = next.first + k * Interval
        <4>1. next.next_run = next.first + next.sequence * Interval
          BY <1>2, <1>7, <3>1, <3>5
        <4>2. Fresh(s) /\ jobs'[id].run_at = row.first + row.sequence * Interval
          BY <1>3, <3>1, <3>5 DEF Fresh, NewJob
        <4>3. ASSUME NEW k \in 0..row.sequence, k # row.sequence, jobs'[<<s, k>>].attempt = 0
              PROVE  jobs'[<<s, k>>].run_at = row.first + k * Interval
          <5>1. <<s, k>> \in DOMAIN jobs
            BY <1>7, <3>1, <4>3
          <5> QED BY <1>3, <3>1, <3>5, <4>3, <5>1
        <4> QED BY <1>2, <4>1, <4>2, <4>3
      <3>6. schedules'[t] = next /\ t = s
        BY <1>5, <2>2
      <3>7. next.sequence = row.sequence + 1 /\ row.sequence \in Nat
            /\ next.kind = row.kind
        BY <1>2, <1>7
      <3> HIDE DEF row, id
      <3>8. (0..next.sequence - 1) \subseteq {k \in 0..next.sequence : <<s, k>> \in DOMAIN jobs'}
        BY <3>2, <3>7
      <3>9. next.sequence \notin {k \in 0..next.sequence : <<s, k>> \in DOMAIN jobs'}
        BY <3>3, <3>7
      <3>10. next.kind = "fixed_interval" =>
            /\ next.next_run = next.first + next.sequence * Interval
            /\ \A k \in {l \in 0..next.sequence : <<s, l>> \in DOMAIN jobs'} :
                  jobs'[<<s, k>>].attempt = 0 => jobs'[<<s, k>>].run_at = next.first + k * Interval
        BY <3>3, <3>5, <3>7
      <3> QED BY <3>4, <3>6, <3>7, <3>8, <3>9, <3>10
    <2> QED BY <2>1, <2>2
  <1> QED BY <1>3, <1>4, <1>6, <1>8, <1>9 DEF IInv

LEMMA MaterializeStep ==
  ASSUME IInv, NEW s \in Schedules, Materialize(s)
  PROVE  IInv'
  <1>1. /\ s \in DOMAIN schedules /\ UNCHANGED <<store, decisions, clock, run>>
        /\ sweep \in [todo : SUBSET DOMAIN schedules, now : Nat, created : Nat]
    BY DEF Materialize, IInv, TypeOK
  <1>2. Visited(s) \in [todo : SUBSET DOMAIN schedules, now : Nat, created : Nat]
    BY <1>1 DEF Visited
  <1>3. NoSweep \in [todo : SUBSET DOMAIN schedules, now : Nat, created : Nat]
    BY DEF NoSweep
  <1>4. CASE UNCHANGED <<jobs, schedules>> /\ sweep' \in {Visited(s), NoSweep}
    BY <1>1, <1>2, <1>3, <1>4, SweepStep
  <1>5. CASE /\ Due(s) /\ (Fresh(s) => Fits) /\ jobs' = Materialized(s)
             /\ \E next \in Advanced(schedules[s]) : schedules' = Put(schedules, s, next)
             /\ sweep' = Visited(s)
    <2>1. schedules[s].active
      BY <1>5 DEF Due
    <2> QED BY <1>1, <1>2, <1>5, <2>1, OccurrenceStep
  <1>6. CASE /\ Due(s) /\ (Fresh(s) => Fits) /\ jobs' = Materialized(s)
             /\ schedules[s].kind = "consumer_policy"
             /\ sweep' = NoSweep /\ UNCHANGED schedules
    <2> DEFINE id == <<s, schedules[s].sequence>>
    <2>1. /\ DOMAIN jobs' = DOMAIN jobs \cup {id}
          /\ DOMAIN jobs' \subseteq Ids /\ jobs' \in [DOMAIN jobs' -> Jobs]
          /\ \A x \in DOMAIN jobs : jobs'[x] = jobs[x]
          /\ DecidedOnce' /\ ClaimsHeld'
      BY <1>1, <1>6, MaterializedJobs
    <2>2. DecisionsCounted'
      <3>1. /\ IsFiniteSet(DOMAIN jobs')
            /\ Len(decisions') =
                  Cardinality({x \in DOMAIN jobs' : jobs'[x].state = "succeeded"})
            /\ store' = "memory" => Cardinality(DOMAIN jobs') <= Capacity
        BY <1>1, <1>6, MaterializedJobs
      <3> QED BY <1>6, <3>1 DEF IInv, DecisionsCounted
    <2>3. TypeOK'
      BY <1>1, <1>3, <1>6, <2>1 DEF IInv, TypeOK
    <2>4. schedules[s].sequence \in Nat /\ schedules[s].active
      BY <1>1, <1>6 DEF IInv, TypeOK, ScheduleRows, Due
    <2>5. OccurrencesKnown'
      BY <1>1, <1>6, <2>1, <2>4 DEF IInv, OccurrencesKnown
    <2>6. OccurrencesExact'
      <3> SUFFICES ASSUME NEW t \in DOMAIN schedules
                   PROVE  OccurrencesExact!(t)'
        BY <1>6 DEF OccurrencesExact
      <3>1. schedules' = schedules /\ OccurrencesExact!(t)
        BY <1>6 DEF IInv, OccurrencesExact
      <3>2. CASE t # s
        <4>1. \A k \in 0..schedules[t].sequence :
              /\ <<t, k>> \in DOMAIN jobs' <=> <<t, k>> \in DOMAIN jobs
              /\ <<t, k>> \in DOMAIN jobs => jobs'[<<t, k>>] = jobs[<<t, k>>]
          BY <2>1, <3>2
        <4> QED BY <3>1, <4>1
      <3>3. CASE t = s
        BY <1>6, <2>1, <2>4, <3>1, <3>3
      <3> QED BY <3>2, <3>3
    <2> QED BY <2>1, <2>2, <2>3, <2>5, <2>6 DEF IInv
  <1> QED BY <1>4, <1>5, <1>6 DEF Materialize

LEMMA ClaimedFacts ==
  ASSUME NEW row \in Jobs, NEW now \in Nat
  PROVE  /\ Claimed(row, now) \in Jobs
         /\ Claimed(row, now).state = row.state /\ Claimed(row, now).attempt = row.attempt
         /\ Claimed(row, now).run_at = row.run_at
         /\ Claimed(row, now).fencing_token = row.fencing_token + 1
         /\ Claimed(row, now).claim_id = row.fencing_token + 1
         /\ Claimed(row, now).claimed_until = now + ClaimTtl
  <1>1. ClaimTtl \in Nat /\ row.fencing_token \in Nat
    BY JobAssumption DEF Jobs
  <1>2. now + ClaimTtl \in Nat /\ row.fencing_token + 1 \in Nat
    BY <1>1
  <1> QED BY <1>2 DEF Claimed, Jobs

\* A claim takes free or expired rows only, and every earlier claim of such a row has
\* expired.
LEMMA ClaimStep ==
  ASSUME IInv, NEW r \in Runners, Claim(r)
  PROVE  IInv'
  <1> DEFINE now == run[r].now
  <1>1. PICK chosen \in SUBSET DOMAIN jobs :
          /\ Chosen(chosen, now)
          /\ jobs' = [id \in DOMAIN jobs |->
                IF id \in chosen THEN Claimed(jobs[id], now) ELSE jobs[id]]
          /\ run' = [run EXCEPT ![r] =
                [stage |-> IF chosen = {} THEN "idle" ELSE "handling", now |-> now,
                 todo |-> {ClaimOf(id, now) : id \in chosen}]]
    BY DEF Claim
  <1>2. UNCHANGED <<store, schedules, decisions, sweep, clock>>
    BY DEF Claim
  <1>3. now \in Nat /\ now <= clock /\ clock \in Nat /\ ClaimTtl \in Nat
    BY JobAssumption DEF IInv, TypeOK, Rounds
  <1>4. \A id \in DOMAIN jobs : jobs[id] \in Jobs
    BY DEF IInv, TypeOK
  <1>5. \A id \in chosen : jobs[id].state = "scheduled" /\ jobs[id].claimed_until <= now
    BY <1>1 DEF Chosen, Eligible
  <1>6. DOMAIN jobs' = DOMAIN jobs /\ \A id \in DOMAIN jobs :
          jobs'[id] = IF id \in chosen THEN Claimed(jobs[id], now) ELSE jobs[id]
    BY <1>1
  <1>8. /\ \A id \in DOMAIN jobs :
            /\ jobs'[id] \in Jobs /\ jobs'[id].state = jobs[id].state
            /\ jobs'[id].attempt = jobs[id].attempt /\ jobs'[id].run_at = jobs[id].run_at
            /\ id \notin chosen => jobs'[id] = jobs[id]
        /\ \A id \in chosen :
            /\ jobs'[id].fencing_token = jobs[id].fencing_token + 1
            /\ jobs'[id].claim_id = jobs[id].fencing_token + 1
            /\ jobs'[id].claimed_until = now + ClaimTtl
    <2>1. ASSUME NEW id \in chosen
          PROVE  /\ jobs'[id] \in Jobs /\ jobs'[id].state = jobs[id].state
                 /\ jobs'[id].attempt = jobs[id].attempt /\ jobs'[id].run_at = jobs[id].run_at
                 /\ jobs'[id].fencing_token = jobs[id].fencing_token + 1
                 /\ jobs'[id].claim_id = jobs[id].fencing_token + 1
                 /\ jobs'[id].claimed_until = now + ClaimTtl
      <3>1. jobs'[id] = Claimed(jobs[id], now) /\ jobs[id] \in Jobs /\ now \in Nat
        BY <1>3, <1>4, <1>6
      <3> HIDE DEF now
      <3> QED BY <3>1, ClaimedFacts
    <2>2. \A id \in DOMAIN jobs : id \notin chosen => jobs'[id] = jobs[id]
      BY <1>6
    <2> QED BY <1>4, <2>1, <2>2
  <1>9. jobs' \in [DOMAIN jobs' -> Jobs] /\ DOMAIN jobs' \subseteq Ids
    <2>1. jobs' = [id \in DOMAIN jobs |-> jobs'[id]]
      BY <1>1
    <2> QED BY <1>6, <1>8, <2>1 DEF IInv, TypeOK
  <1> DEFINE todo == {ClaimOf(id, now) : id \in chosen}
  <1>10. \A claim \in todo :
           /\ claim \in Claims /\ claim.id \in chosen
           /\ claim.fencing_token = jobs[claim.id].fencing_token + 1
           /\ claim.claimed_until = now + ClaimTtl
           /\ claim = ClaimOf(claim.id, now)
    <2> SUFFICES ASSUME NEW id \in chosen
                 PROVE  /\ ClaimOf(id, now) \in Claims /\ ClaimOf(id, now).id = id
                        /\ ClaimOf(id, now).fencing_token = jobs[id].fencing_token + 1
                        /\ ClaimOf(id, now).claimed_until = now + ClaimTtl
      OBVIOUS
    <2>1. id \in Ids /\ jobs[id] \in Jobs
      BY <1>4 DEF IInv, TypeOK
    <2> QED BY <1>3, <2>1 DEF ClaimOf, Claims, Jobs
  <1> HIDE DEF todo
  <1>11. /\ run' \in [Runners -> Rounds]
         /\ run'[r].todo = todo /\ run'[r].now = now
         /\ \A q \in Runners : q # r => run'[q] = run[q]
    <2> DEFINE round == [stage |-> IF chosen = {} THEN "idle" ELSE "handling", now |-> now,
                         todo |-> todo]
    <2>1. round \in Rounds /\ round.todo = todo /\ round.now = now
      BY <1>3, <1>10 DEF Rounds
    <2>2. run' = [run EXCEPT ![r] = round]
      BY <1>1 DEF todo
    <2> HIDE DEF round
    <2> QED BY <2>1, <2>2 DEF IInv, TypeOK
  <1>12. TypeOK'
    BY <1>2, <1>3, <1>9, <1>11 DEF IInv, TypeOK
  <1>13. DecidedOnce'
    <2>1. \A id \in DOMAIN jobs : jobs[id].state = "succeeded" => jobs'[id] = jobs[id]
      BY <1>5, <1>8
    <2> QED BY <1>2, <1>6, <1>8, <2>1 DEF IInv, DecidedOnce
  <1>14. ClaimsHeld'
    <2>1. \A q \in Runners : \A claim \in run[q].todo :
            claim.fencing_token \in Nat /\ claim.claimed_until \in Nat
      BY DEF IInv, TypeOK, Rounds, Claims
    <2>2. \A id \in DOMAIN jobs : jobs[id].fencing_token \in Nat
      BY <1>4 DEF Jobs
    <2>3. ASSUME NEW q \in Runners, NEW claim \in run'[q].todo
          PROVE  ClaimsHeld!1!(q)!(claim)'
      <3>1. CASE q = r
        BY <1>6, <1>5, <1>8, <1>10, <1>11, <2>2, <2>3, <3>1
      <3>2. CASE q # r
        <4>1. claim \in run[q].todo /\ claim.id \in DOMAIN jobs
          BY <1>11, <2>3, <3>2 DEF IInv, ClaimsHeld
        <4>2. CASE claim.id \notin chosen
          BY <1>2, <1>6, <1>8, <4>1, <4>2 DEF IInv, ClaimsHeld
        <4>3. CASE claim.id \in chosen
          <5>1. claim.fencing_token <= jobs[claim.id].fencing_token /\ claim.claimed_until <= clock
            BY <1>3, <1>5, <2>1, <2>2, <4>1, <4>3 DEF IInv, ClaimsHeld
          <5>2. claim.fencing_token < jobs'[claim.id].fencing_token
            BY <1>8, <2>1, <2>2, <4>1, <4>3, <5>1
          <5> QED BY <1>2, <1>6, <4>1, <5>1, <5>2 DEF IInv, ClaimsHeld
        <4> QED BY <4>2, <4>3
      <3> QED BY <3>1, <3>2
    <2>4. ASSUME NEW q \in Runners, NEW p \in Runners, NEW claim \in run'[q].todo,
                 NEW other \in run'[p].todo, claim.id = other.id,
                 claim.fencing_token = other.fencing_token
          PROVE  q = p /\ claim = other
      <3>1. \A o \in Runners : \A c \in run'[o].todo : o # r =>
                c \in run[o].todo /\ c.fencing_token <= jobs[c.id].fencing_token
        BY <1>11, <2>1, <2>2 DEF IInv, ClaimsHeld
      <3>2. CASE q = r /\ p = r
        BY <1>10, <1>11, <2>4, <3>2
      <3>3. CASE q = r /\ p # r
        BY <1>10, <1>11, <2>1, <2>2, <2>4, <3>1, <3>3
      <3>4. CASE q # r /\ p = r
        BY <1>10, <1>11, <2>1, <2>2, <2>4, <3>1, <3>4
      <3>5. CASE q # r /\ p # r
        BY <2>4, <3>1, <3>5 DEF IInv, ClaimsHeld
      <3> QED BY <3>2, <3>3, <3>4, <3>5
    <2> QED BY <2>3, <2>4 DEF ClaimsHeld
  <1>15. OccurrencesExact'
    <2> SUFFICES ASSUME NEW t \in DOMAIN schedules
                 PROVE  OccurrencesExact!(t)'
      BY <1>2 DEF OccurrencesExact
    <2>1. schedules' = schedules /\ OccurrencesExact!(t)
      BY <1>2 DEF IInv, OccurrencesExact
    <2> QED BY <1>6, <1>8, <2>1
  <1>16. OccurrencesKnown'
    BY <1>2, <1>6 DEF IInv, OccurrencesKnown
  <1>17. DecisionsCounted'
    <2>1. {id \in DOMAIN jobs' : jobs'[id].state = "succeeded"}
            = {id \in DOMAIN jobs : jobs[id].state = "succeeded"}
      BY <1>6, <1>8
    <2> QED BY <1>2, <1>6, <2>1 DEF IInv, DecisionsCounted
  <1> QED BY <1>12, <1>13, <1>14, <1>15, <1>16, <1>17 DEF IInv

\* A valid claim is the current one, so no other hand loses anything when it settles.
LEMMA SettledRow ==
  ASSUME IInv, NEW r \in Runners, NEW claim \in run[r].todo, Valid(claim), Settled(r, claim),
         NEW row \in Jobs,
         row.fencing_token = jobs[claim.id].fencing_token,
         \/ row.attempt # 0
         \/ row.attempt = jobs[claim.id].attempt /\ row.run_at = jobs[claim.id].run_at,
         jobs' = [jobs EXCEPT ![claim.id] = row],
         UNCHANGED <<store, schedules, sweep, clock>>
  PROVE  /\ DOMAIN jobs' = DOMAIN jobs /\ jobs'[claim.id] = row /\ claim.id \in DOMAIN jobs
         /\ \A x \in DOMAIN jobs : x # claim.id => jobs'[x] = jobs[x]
         /\ decisions' \in Seq([id : Ids, token : Nat]) => TypeOK'
         /\ ClaimsHeld' /\ OccurrencesExact' /\ OccurrencesKnown'
  <1>1. /\ claim.id \in DOMAIN jobs /\ claim.fencing_token = jobs[claim.id].fencing_token
        /\ jobs[claim.id].state = "scheduled"
    BY DEF Valid
  <1>2. /\ DOMAIN jobs' = DOMAIN jobs /\ jobs'[claim.id] = row
        /\ \A x \in DOMAIN jobs : x # claim.id => jobs'[x] = jobs[x]
        /\ jobs' \in [DOMAIN jobs' -> Jobs]
    BY <1>1 DEF IInv, TypeOK
  <1>3. PICK round \in Rounds :
          /\ round.todo = run[r].todo \ {claim} /\ round.now <= clock
          /\ run' = [run EXCEPT ![r] = round]
    <2>1. run[r] \in Rounds /\ run[r].now <= clock /\ clock \in Nat
      BY DEF IInv, TypeOK
    <2>2. CASE run[r].todo = {claim}
      <3>1. Idle \in Rounds /\ Idle.todo = {} /\ Idle.now <= clock
        BY <2>1 DEF Idle, Rounds
      <3>2. run' = [run EXCEPT ![r] = Idle]
        BY <2>2 DEF Settled
      <3> QED BY <2>2, <3>1, <3>2
    <2>3. CASE run[r].todo # {claim}
      <3> DEFINE left == [stage |-> "handling", now |-> run[r].now, todo |-> run[r].todo \ {claim}]
      <3>1. left \in Rounds /\ left.todo = run[r].todo \ {claim} /\ left.now <= clock
        BY <2>1 DEF Rounds
      <3>2. run' = [run EXCEPT ![r] = left]
        BY <2>3 DEF Settled
      <3> HIDE DEF left
      <3> QED BY <3>1, <3>2
    <2> QED BY <2>2, <2>3
  <1>4. /\ run' \in [Runners -> Rounds]
        /\ \A q \in Runners : run'[q].now <= clock /\ run'[q].todo \subseteq run[q].todo
        /\ claim \notin run'[r].todo
    BY <1>3 DEF IInv, TypeOK
  <1>5. decisions' \in Seq([id : Ids, token : Nat]) => TypeOK'
    BY <1>2, <1>4 DEF IInv, TypeOK
  <1>6. ClaimsHeld'
    <2>1. ASSUME NEW q \in Runners, NEW other \in run'[q].todo
          PROVE  ClaimsHeld!1!(q)!(other)'
      <3>1. other \in run[q].todo /\ other.id \in DOMAIN jobs
        BY <1>4, <2>1 DEF IInv, ClaimsHeld
      <3>2. CASE other.id # claim.id
        BY <1>2, <3>1, <3>2 DEF IInv, ClaimsHeld
      <3>3. CASE other.id = claim.id
        <4>1. other.fencing_token # claim.fencing_token
          BY <1>4, <2>1, <3>1, <3>3 DEF IInv, ClaimsHeld
        <4> QED BY <1>1, <1>2, <3>1, <3>3, <4>1 DEF IInv, ClaimsHeld
      <3> QED BY <3>2, <3>3
    <2>2. \A q, p \in Runners : \A c \in run'[q].todo, d \in run'[p].todo :
            c.id = d.id /\ c.fencing_token = d.fencing_token => q = p /\ c = d
      BY <1>4 DEF IInv, ClaimsHeld
    <2> QED BY <2>1, <2>2 DEF ClaimsHeld
  <1>7. OccurrencesExact'
    <2> SUFFICES ASSUME NEW t \in DOMAIN schedules
                 PROVE  OccurrencesExact!(t)'
      BY DEF OccurrencesExact
    <2>1. schedules' = schedules /\ OccurrencesExact!(t)
      BY DEF IInv, OccurrencesExact
    <2>2. \A x \in DOMAIN jobs : jobs'[x].attempt = 0 =>
            jobs[x].attempt = 0 /\ jobs'[x].run_at = jobs[x].run_at
      BY <1>2
    <2> QED BY <1>2, <2>1, <2>2
  <1>8. OccurrencesKnown'
    BY <1>2 DEF IInv, OccurrencesKnown
  <1> QED BY <1>1, <1>2, <1>5, <1>6, <1>7, <1>8

\* The three ways a claim settles, and the stale one.
LEMMA SucceedStep ==
  ASSUME IInv, NEW r \in Runners, NEW claim \in run[r].todo,
         Succeed(r, claim), Settled(r, claim), UNCHANGED <<store, schedules, sweep, clock>>
  PROVE  IInv'
  <1> DEFINE row == [Released(jobs[claim.id]) EXCEPT !.state = "succeeded"]
             id == claim.id
             entry == [id |-> claim.id, token |-> claim.fencing_token]
             done == {x \in DOMAIN jobs : jobs[x].state = "succeeded"}
  <1>1. /\ Valid(claim) /\ jobs' = [jobs EXCEPT ![id] = row]
        /\ decisions' = Append(decisions, entry)
    BY DEF Succeed
  <1>2. /\ id \in DOMAIN jobs /\ id \in Ids /\ jobs[id] \in Jobs /\ jobs[id].state = "scheduled"
        /\ claim.fencing_token = jobs[id].fencing_token
    BY <1>1 DEF Valid, IInv, TypeOK
  <1>3. /\ row \in Jobs /\ row.state = "succeeded"
        /\ row.fencing_token = jobs[id].fencing_token
        /\ row.attempt = jobs[id].attempt /\ row.run_at = jobs[id].run_at
    BY <1>2 DEF Released, Jobs
  <1>4. decisions \in Seq([id : Ids, token : Nat]) /\ entry \in [id : Ids, token : Nat]
    BY <1>2 DEF IInv, TypeOK, Jobs
  <1>5. /\ decisions' \in Seq([id : Ids, token : Nat]) /\ Len(decisions') = Len(decisions) + 1
        /\ Len(decisions) \in Nat
        /\ \A k \in 1..Len(decisions) : decisions'[k] = decisions[k]
        /\ decisions'[Len(decisions) + 1] = entry
    BY <1>1, <1>4
  <1>6. entry.id = id /\ entry.token = jobs[id].fencing_token
    BY <1>2
  <1> HIDE DEF row, entry
  <1>7. /\ DOMAIN jobs' = DOMAIN jobs /\ jobs'[id] = row
        /\ \A x \in DOMAIN jobs : x # id => jobs'[x] = jobs[x]
        /\ decisions' \in Seq([id : Ids, token : Nat]) => TypeOK'
        /\ ClaimsHeld' /\ OccurrencesExact' /\ OccurrencesKnown'
    BY <1>1, <1>3, SettledRow
  <1>8. DecidedOnce'
    <2>1. \A k \in 1..Len(decisions) : decisions[k].id \in DOMAIN jobs /\ decisions[k].id # id
      BY <1>2 DEF IInv, DecidedOnce
    <2>2. \A k \in 1..Len(decisions') : k \in 1..Len(decisions) \/ k = Len(decisions) + 1
      BY <1>5
    <2>3. \A k, l \in 1..Len(decisions') : decisions'[k].id = decisions'[l].id => k = l
      BY <1>5, <1>6, <2>1, <2>2 DEF IInv, DecidedOnce
    <2>4. ASSUME NEW k \in 1..Len(decisions')
          PROVE  /\ decisions'[k].id \in DOMAIN jobs'
                 /\ jobs'[decisions'[k].id].state = "succeeded"
                 /\ jobs'[decisions'[k].id].fencing_token = decisions'[k].token
      <3>1. CASE k \in 1..Len(decisions)
        BY <1>5, <1>7, <2>1, <3>1 DEF IInv, DecidedOnce
      <3>2. CASE k = Len(decisions) + 1
        BY <1>2, <1>3, <1>5, <1>6, <1>7, <3>2
      <3> QED BY <2>2, <3>1, <3>2
    <2>5. ASSUME NEW x \in DOMAIN jobs', jobs'[x].state = "succeeded"
          PROVE  \E k \in 1..Len(decisions') : decisions'[k].id = x
      <3>1. CASE x = id
        <4>1. Len(decisions) + 1 \in 1..Len(decisions')
          BY <1>5
        <4> QED BY <1>5, <1>6, <3>1, <4>1
      <3>2. CASE x # id
        <4>1. PICK k \in 1..Len(decisions) : decisions[k].id = x
          BY <1>7, <2>5, <3>2 DEF IInv, DecidedOnce
        <4>2. k \in 1..Len(decisions')
          BY <1>5
        <4> QED BY <1>5, <4>1, <4>2
      <3> QED BY <3>1, <3>2
    <2> QED BY <2>3, <2>4, <2>5 DEF DecidedOnce
  <1>9. DecisionsCounted'
    <2>1. {x \in DOMAIN jobs' : jobs'[x].state = "succeeded"} = done \cup {id}
      BY <1>2, <1>3, <1>7
    <2>2. IsFiniteSet(DOMAIN jobs) /\ Len(decisions) = Cardinality(done)
      BY DEF IInv, DecisionsCounted
    <2>3. IsFiniteSet(done)
      BY <2>2, FS_Subset
    <2>4. id \notin done
      BY <1>2
    <2> HIDE DEF done
    <2>5. Cardinality(done \cup {id}) = Cardinality(done) + 1
      BY <2>3, <2>4, FS_AddElement
    <2>6. Len(decisions') = Cardinality({x \in DOMAIN jobs' : jobs'[x].state = "succeeded"})
      BY <1>5, <2>1, <2>2, <2>5
    <2> QED BY <1>7, <2>6 DEF IInv, DecisionsCounted
  <1> QED BY <1>5, <1>7, <1>8, <1>9 DEF IInv

\* Neither a retry nor a termination decides anything.
LEMMA FailureStep ==
  ASSUME IInv, NEW r \in Runners, NEW claim \in run[r].todo,
         Retry(r, claim) \/ Terminate(r, claim), Settled(r, claim),
         UNCHANGED <<store, schedules, sweep, clock>>
  PROVE  IInv'
  <1> DEFINE id == claim.id
  <1>1. Valid(claim) /\ decisions' = decisions
    BY DEF Retry, Terminate
  <1>2. /\ id \in DOMAIN jobs /\ jobs[id] \in Jobs /\ jobs[id].state = "scheduled"
        /\ claim \in Claims
    BY <1>1 DEF Valid, IInv, TypeOK, Rounds
  <1>3. PICK row \in Jobs :
          /\ row.state # "succeeded" /\ row.fencing_token = jobs[id].fencing_token
          /\ \/ row.attempt # 0
             \/ row.attempt = jobs[id].attempt /\ row.run_at = jobs[id].run_at
          /\ jobs' = [jobs EXCEPT ![id] = row]
    <2>1. CASE Terminate(r, claim)
      <3> DEFINE ended == [Released(jobs[id]) EXCEPT !.state = "terminal"]
      <3>1. /\ ended \in Jobs /\ ended.state = "terminal"
            /\ ended.fencing_token = jobs[id].fencing_token
            /\ ended.attempt = jobs[id].attempt /\ ended.run_at = jobs[id].run_at
        BY <1>2 DEF Released, Jobs
      <3>2. jobs' = [jobs EXCEPT ![id] = ended]
        BY <2>1 DEF Terminate
      <3> HIDE DEF ended
      <3> QED BY <3>1, <3>2
    <2>2. CASE Retry(r, claim)
      <3> DEFINE state == IF Attempt(claim) >= MaxAttempts THEN "terminal" ELSE "scheduled"
                 run_at == IF Attempt(claim) >= MaxAttempts /\ store = "memory"
                           THEN jobs[id].run_at
                           ELSE run[r].now + Delay(claim.attempt + 1)
                 retried == [Released(jobs[id]) EXCEPT !.attempt = Attempt(claim),
                                !.run_at = run_at, !.state = state]
      <3>1. Attempt(claim) \in Nat \ {0}
        BY <1>2 DEF Attempt, Claims, Jobs
      <3>2. run_at \in Nat
        <4>1. Delay(claim.attempt + 1) \in Nat
          <5>1. claim.attempt + 1 - 1 \in Nat /\ MaximumDelay \in Nat
                /\ InitialDelay \in Nat /\ Multiplier \in Nat
            BY <1>2, JobAssumption DEF Claims
          <5> QED BY <5>1 DEF Delay
        <4>2. run[r].now \in Nat /\ jobs[id].run_at \in Nat
          BY <1>2 DEF IInv, TypeOK, Rounds, Jobs
        <4> QED BY <4>1, <4>2
      <3>3. state \in {"terminal", "scheduled"}
        OBVIOUS
      <3>4. jobs' = [jobs EXCEPT ![id] = retried]
        BY <2>2 DEF Retry
      <3> HIDE DEF state, run_at
      <3>5. /\ retried \in Jobs /\ retried.state = state
            /\ retried.fencing_token = jobs[id].fencing_token
            /\ retried.attempt = Attempt(claim)
        BY <1>2, <3>1, <3>2, <3>3 DEF Released, Jobs
      <3> HIDE DEF retried
      <3> QED BY <3>1, <3>3, <3>4, <3>5
    <2> QED BY <2>1, <2>2
  <1>4. /\ DOMAIN jobs' = DOMAIN jobs /\ jobs'[id] = row
        /\ \A x \in DOMAIN jobs : x # id => jobs'[x] = jobs[x]
        /\ decisions' \in Seq([id : Ids, token : Nat]) => TypeOK'
        /\ ClaimsHeld' /\ OccurrencesExact' /\ OccurrencesKnown'
    BY <1>1, <1>3, SettledRow
  <1>5. TypeOK'
    BY <1>1, <1>4 DEF IInv, TypeOK
  <1>6. DecidedOnce'
    BY <1>1, <1>2, <1>3, <1>4 DEF IInv, DecidedOnce
  <1>7. DecisionsCounted'
    <2>1. {x \in DOMAIN jobs' : jobs'[x].state = "succeeded"}
            = {x \in DOMAIN jobs : jobs[x].state = "succeeded"}
      BY <1>2, <1>3, <1>4
    <2> QED BY <1>1, <1>4, <2>1 DEF IInv, DecisionsCounted
  <1> QED BY <1>4, <1>5, <1>6, <1>7 DEF IInv

\* The claim is in no other hand, so dropping a stale one keeps what is held.
LEMMA StaleStep ==
  ASSUME IInv, NEW r \in Runners, NEW claim \in run[r].todo, Stale(claim), Settled(r, claim),
         UNCHANGED <<store, schedules, sweep, clock>>
  PROVE  IInv'
  <1>1. jobs' = jobs /\ decisions' = decisions
    BY DEF Stale
  <1>2. run[r] \in Rounds /\ run[r].now <= clock /\ clock \in Nat
    BY DEF IInv, TypeOK
  <1>3. PICK round \in Rounds :
          /\ round.todo \subseteq run[r].todo /\ round.now <= clock
          /\ run' = [run EXCEPT ![r] = round]
    <2>1. CASE run[r].todo = {claim}
      <3>1. Idle \in Rounds /\ Idle.todo = {} /\ Idle.now <= clock
        BY <1>2 DEF Idle, Rounds
      <3>2. run' = [run EXCEPT ![r] = Idle]
        BY <2>1 DEF Settled
      <3> QED BY <3>1, <3>2
    <2>2. CASE run[r].todo # {claim}
      <3> DEFINE left == [stage |-> "handling", now |-> run[r].now, todo |-> run[r].todo \ {claim}]
      <3>1. left \in Rounds /\ left.todo \subseteq run[r].todo /\ left.now <= clock
        BY <1>2 DEF Rounds
      <3>2. run' = [run EXCEPT ![r] = left]
        BY <2>2 DEF Settled
      <3> HIDE DEF left
      <3> QED BY <3>1, <3>2
    <2> QED BY <2>1, <2>2
  <1>4. /\ run' \in [Runners -> Rounds]
        /\ \A q \in Runners : run'[q].now <= clock /\ run'[q].todo \subseteq run[q].todo
    BY <1>3 DEF IInv, TypeOK
  <1>5. TypeOK'
    BY <1>1, <1>4 DEF IInv, TypeOK
  <1> QED BY <1>1, <1>2, <1>4, <1>5, StoreKept, RecordsKept DEF IInv

LEMMA SettleStep ==
  ASSUME IInv, NEW r \in Runners, Settle(r)
  PROVE  IInv'
  <1>1. PICK claim \in NextUp(r) :
          /\ Succeed(r, claim) \/ Retry(r, claim) \/ Terminate(r, claim) \/ Stale(claim)
          /\ Settled(r, claim)
    BY DEF Settle
  <1>2. claim \in run[r].todo /\ UNCHANGED <<store, schedules, sweep, clock>>
    BY DEF Settle, NextUp
  <1> QED BY <1>1, <1>2, SucceedStep, FailureStep, StaleStep

\* Every step keeps the strengthened invariant.
LEMMA NextIInv == IInv /\ [Next]_vars => IInv'
  <1> SUFFICES ASSUME IInv, [Next]_vars PROVE IInv'
    OBVIOUS
  <1>1. CASE UNCHANGED vars
    <2>1. clock \in Nat /\ \A r \in Runners : run'[r].todo \subseteq run[r].todo
      BY <1>1 DEF vars, IInv, TypeOK
    <2>2. TypeOK'
      BY <1>1 DEF vars, IInv, TypeOK
    <2> QED BY <1>1, <2>1, <2>2, StoreKept, RecordsKept DEF vars, IInv
  <1>2. CASE Tick
    BY <1>2, TickStep
  <1>3. CASE \E name \in Names, run_at \in Starts : Schedule(name, run_at)
    BY <1>3, ScheduleStep
  <1>4. CASE \E s \in Schedules, kind \in Kinds, next_run \in Starts :
                AddSchedule(s, kind, next_run)
    BY <1>4, AddScheduleStep
  <1>5. CASE \E now \in 0..clock : MaterializeBegins(now)
    <2>1. PICK now \in 0..clock : MaterializeBegins(now)
      BY <1>5
    <2>2. sweep' \in [todo : SUBSET DOMAIN schedules, now : Nat, created : Nat]
      BY <2>1 DEF MaterializeBegins, IInv, TypeOK
    <2> QED BY <2>1, <2>2, SweepStep DEF MaterializeBegins
  <1>6. CASE \E s \in Schedules : Materialize(s)
    BY <1>6, MaterializeStep
  <1>7. CASE \E r \in Runners : Step(r)
    BY <1>7, RoundStep, ClaimStep, SettleStep DEF Step
  <1> QED BY <1>1, <1>2, <1>3, <1>4, <1>5, <1>6, <1>7 DEF Next

\* The strengthened invariant holds in every behaviour of the stores, runners and sweeps.
THEOREM Invariance == Spec => []IInv
  BY InitIInv, NextIInv, PTL DEF Spec

\* "Stale claim tokens cannot commit": each succeeded job has one decision, of its last
\* claim (InMemoryJobStore.succeed, SQLAlchemyJobStore.succeed).
THEOREM Decisions == Spec => []DecidedOnce
  BY Invariance, PTL DEF IInv

\* A claim inside its ttl settles: no other runner was given the job (claim, _valid, _settle).
THEOREM ClaimsExclude == Spec => []ClaimExclusive
  <1>1. IInv => ClaimExclusive
    <2> SUFFICES ASSUME IInv, NEW r \in Runners, NEW claim \in run[r].todo,
                        claim.claimed_until > clock
                 PROVE  Valid(claim)
      BY DEF ClaimExclusive
    <2>1. claim.claimed_until \in Nat /\ clock \in Nat
      BY DEF IInv, TypeOK, Rounds, Claims
    <2> QED BY <2>1 DEF IInv, ClaimsHeld, Valid, Unexpired
  <1> QED BY <1>1, Invariance, PTL

\* Schedules neither skip nor repeat an occurrence and do not drift (materialize,
\* _advance_schedule).
THEOREM Occurrences == Spec => []OccurrencesExact
  BY Invariance, PTL DEF IInv

\* succeed() never finds the list of decisions full: the OverflowError it guards against
\* is unreachable.
THEOREM DecisionsAlwaysFit == Spec => []DecisionsFit
  <1>1. IInv => DecisionsFit
    <2> SUFFICES ASSUME IInv, store = "memory", NEW id \in DOMAIN jobs,
                        jobs[id].state = "scheduled"
                 PROVE  Len(decisions) < Capacity
      BY DEF DecisionsFit
    <2> DEFINE all == DOMAIN jobs
               done == {x \in DOMAIN jobs : jobs[x].state = "succeeded"}
    <2>1. /\ IsFiniteSet(all) /\ Cardinality(all) <= Capacity /\ Len(decisions) = Cardinality(done)
          /\ done \in SUBSET all /\ all # done
      BY DEF IInv, DecisionsCounted
    <2>2. Capacity \in Nat
      BY JobAssumption
    <2> HIDE DEF all, done
    <2>3. /\ IsFiniteSet(done) /\ Cardinality(done) <= Cardinality(all)
          /\ Cardinality(all) # Cardinality(done)
      BY <2>1, FS_Subset
    <2>4. Cardinality(done) \in Nat /\ Cardinality(all) \in Nat
      BY <2>1, <2>3, FS_CardinalityType
    <2> QED BY <2>1, <2>2, <2>3, <2>4
  <1> QED BY <1>1, Invariance, PTL

\* A settled job is never claimed, changed or dropped, whatever late claims its earlier
\* holders present.
THEOREM SettledForGood == Spec => SettledFinal
  <1> DEFINE Final == \A id \in DOMAIN jobs : jobs[id].state # "scheduled" =>
                        id \in DOMAIN jobs' /\ jobs'[id] = jobs[id]
  <1>1. ASSUME IInv, [Next]_vars PROVE Final
    <2> SUFFICES ASSUME NEW id \in DOMAIN jobs, jobs[id].state # "scheduled"
                 PROVE  id \in DOMAIN jobs' /\ jobs'[id] = jobs[id]
      OBVIOUS
    <2>1. CASE jobs' = jobs
      BY <2>1
    <2>2. ASSUME NEW x, NEW row, x \notin DOMAIN jobs, jobs' = Put(jobs, x, row)
          PROVE  id \in DOMAIN jobs' /\ jobs'[id] = jobs[id]
      BY <2>2 DEF Put
    <2>3. CASE \E name \in Names, run_at \in Starts : Schedule(name, run_at)
      BY <2>2, <2>3 DEF Schedule
    <2>4. CASE \E s \in Schedules : Materialize(s)
      <3>1. PICK s \in Schedules : Materialize(s)
        BY <2>4
      <3>2. jobs' = jobs \/ jobs' = Materialized(s)
        BY <3>1 DEF Materialize
      <3> QED BY <2>1, <2>2, <3>2 DEF Materialized, Fresh
    <2>5. CASE \E r \in Runners : Claim(r)
      BY <2>5 DEF Claim, Chosen, Eligible
    <2>6. CASE \E r \in Runners : Settle(r)
      <3> PICK r \in Runners : Settle(r)
        BY <2>6
      <3>1. PICK claim \in NextUp(r) :
              Succeed(r, claim) \/ Retry(r, claim) \/ Terminate(r, claim) \/ Stale(claim)
        BY DEF Settle
      <3>2. jobs' = jobs \/ (Valid(claim) /\ \E row : jobs' = [jobs EXCEPT ![claim.id] = row])
        BY <3>1 DEF Succeed, Retry, Terminate, Stale
      <3>3. Valid(claim) => claim.id # id
        BY DEF Valid
      <3> QED BY <2>1, <3>2, <3>3 DEF IInv, TypeOK
    <2> QED BY <1>1, <2>1, <2>3, <2>4, <2>5, <2>6
          DEF Next, Step, vars, Tick, AddSchedule, MaterializeBegins, RunStarts, RunAborts
  <1>2. IInv /\ [Next]_vars => [Final]_vars
    BY <1>1
  <1> QED BY <1>2, Invariance, PTL DEF Spec, SettledFinal
=============================================================================
