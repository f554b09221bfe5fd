--------------------------- MODULE ProcessesProofs ---------------------------
(***************************************************************************)
(* The invariants of Processes, proved for every set of handlers, firers,  *)
(* processes, messages, timers and effects, and every ttl and bound.       *)
(*                                                                         *)
(* The four properties compare the rows with the history of committed      *)
(* decisions; none is inductive, because a transaction writes at its       *)
(* commit what it checked when it applied.  The strengthening says that    *)
(* what was checked still holds: CallsCoherent (version, unused timer ids, *)
(* absent message), FiringsCoherent (the row of a timer that is being      *)
(* completed) and ClaimsCoherent (who may complete it at all).             *)
(*                                                                         *)
(* A step is one of five summaries (Pausing, Deciding, Claiming,           *)
(* Completing, Handling), which lemma Steps establishes once; every part   *)
(* of the invariant is then preserved summary by summary.                  *)
(***************************************************************************)
EXTENDS Processes, TLAPS

----------------------------------------------------------------------------
\* The parts of a step.

LEMMA CallFacts ==
  ASSUME TypeOK, NEW h \in Handlers, call[h].stage # "idle"
  PROVE  /\ call[h] \in Calls
         /\ call[h].stage \in {"loaded", "reserved", "applied", "completed"}
         /\ call[h].key \in Keys /\ call[h].basis \in Nat
         /\ call[h].message \in Messages \cup {NoMessage}
         /\ call[h].decision \in Decisions /\ call[h].expires_at \in Nat
  <1>1. call[h] \in Calls \cup {Idle}
    BY DEF TypeOK
  <1>2. Idle.stage = "idle"
    BY DEF Idle
  <1>3. call[h] \in Calls
    BY <1>1, <1>2
  <1> QED BY <1>3 DEF Calls

LEMMA DecisionFacts ==
  ASSUME NEW d \in Decisions
  PROVE  /\ d.effects \subseteq EffectIds /\ d.schedule \subseteq TimerIds
         /\ d.cancel_timers \subseteq TimerIds /\ d.due_at \in Nat
         /\ d.schedule \cap d.cancel_timers = {}
  BY ProcessAssumption DEF Decisions

\* The other handlers are at what they were.
OthersCall(h) == \A g \in Handlers : g # h => call'[g] = call[g]

LEMMA AtFacts ==
  ASSUME TypeOK, NEW h \in Handlers, call[h].stage # "idle",
         NEW stage \in {"loaded", "reserved", "applied", "completed"}, NEW at \in Nat,
         At(h, stage, at)
  PROVE  /\ call' \in [Handlers -> Calls \cup {Idle}] /\ OthersCall(h)
         /\ call'[h].stage = stage /\ call'[h].key = call[h].key
         /\ call'[h].basis = call[h].basis /\ call'[h].message = call[h].message
         /\ call'[h].decision = call[h].decision
  <1> DEFINE new == [stage |-> stage, key |-> call[h].key, basis |-> call[h].basis,
                     message |-> call[h].message, decision |-> call[h].decision,
                     expires_at |-> at]
  <1>1. /\ new.stage = stage /\ new.key = call[h].key
        /\ new.basis = call[h].basis /\ new.message = call[h].message
        /\ new.decision = call[h].decision
    OBVIOUS
  <1>2. new \in Calls
    BY CallFacts DEF Calls
  <1>3. call' = [call EXCEPT ![h] = new]
    BY DEF At
  <1> HIDE DEF new
  <1>4. call' \in [Handlers -> Calls \cup {Idle}] /\ OthersCall(h) /\ call'[h] = new
    BY <1>2, <1>3 DEF TypeOK, OthersCall
  <1> QED BY <1>1, <1>4

LEMMA EndsFacts ==
  ASSUME TypeOK, NEW h \in Handlers, Ends(h)
  PROVE  /\ call' \in [Handlers -> Calls \cup {Idle}] /\ OthersCall(h)
         /\ call'[h].stage = "idle"
  <1>1. Idle.stage = "idle"
    BY DEF Idle
  <1>2. call' = [call EXCEPT ![h] = Idle]
    BY DEF Ends
  <1>3. call' \in [Handlers -> Calls \cup {Idle}] /\ OthersCall(h) /\ call'[h] = Idle
    BY <1>2 DEF TypeOK, OthersCall
  <1> QED BY <1>1, <1>3

\* What a decision does to the log of its process, and to the timers.
Written(h) ==
    LET k == call[h].key
        d == call[h].decision
        n == Len(log[k])
    IN
    /\ k \in Keys /\ d \in Decisions /\ n \in Nat /\ call[h].basis = n
    /\ states' \in [Keys -> Nat] /\ states'[k] = n + 1
    /\ \A q \in Keys : q # k => states'[q] = states[q]
    /\ log' \in [Keys -> Seq(Entries)] /\ Len(log'[k]) = n + 1
    /\ log'[k][n + 1].basis = n /\ log'[k][n + 1].message = call[h].message
    /\ log'[k][n + 1].decision = d
    /\ \A i \in 1..n : log'[k][i] = log[k][i]
    /\ \A q \in Keys : q # k => log'[q] = log[q]
    /\ effects' = effects \cup {[key |-> k, id |-> e, number |-> n + 1] : e \in d.effects}

LEMMA WrittenFacts ==
  ASSUME TypeOK, NoLostUpdate, NEW h \in Handlers, call[h].stage # "idle", Current(h), Writes(h)
  PROVE  Written(h)
  <1> DEFINE k == call[h].key
             d == call[h].decision
             n == Len(log[k])
             entry == [basis |-> call[h].basis, message |-> call[h].message, decision |-> d]
  <1>1. k \in Keys /\ d \in Decisions /\ call[h].basis \in Nat
        /\ call[h].message \in Messages \cup {NoMessage}
    BY CallFacts
  <1>2. log[k] \in Seq(Entries) /\ n \in Nat /\ states[k] = n
    BY <1>1 DEF TypeOK, NoLostUpdate
  <1>3. call[h].basis = n
    BY <1>2 DEF Current
  <1>4. entry \in Entries /\ entry.basis = n /\ entry.message = call[h].message /\ entry.decision = d
    BY <1>1, <1>3 DEF Entries
  <1>5. /\ log' = [log EXCEPT ![k] = Append(log[k], entry)]
        /\ states' = [states EXCEPT ![k] = call[h].basis + 1]
        /\ effects' = effects \cup {[key |-> k, id |-> e, number |-> call[h].basis + 1] : e \in d.effects}
    BY DEF Writes
  <1> HIDE DEF entry, n, d, k
  <1>6. /\ Append(log[k], entry) \in Seq(Entries) /\ Len(Append(log[k], entry)) = n + 1
        /\ Append(log[k], entry)[n + 1] = entry
        /\ \A i \in 1..n : Append(log[k], entry)[i] = log[k][i]
    BY <1>2, <1>4 DEF n
  <1>7. /\ log' \in [Keys -> Seq(Entries)] /\ log'[k] = Append(log[k], entry)
        /\ \A q \in Keys : q # k => log'[q] = log[q]
    BY <1>1, <1>5, <1>6 DEF TypeOK
  <1>8. /\ states' \in [Keys -> Nat] /\ states'[k] = n + 1
        /\ \A q \in Keys : q # k => states'[q] = states[q]
    BY <1>1, <1>2, <1>3, <1>5 DEF TypeOK
  <1> QED BY <1>1, <1>2, <1>3, <1>4, <1>5, <1>6, <1>7, <1>8 DEF Written, k, d, n

\* The timers after a decision on process k.
Rescheduled(k, d) ==
    /\ DOMAIN timers' = DOMAIN timers \cup {<<k, t>> : t \in d.schedule}
    /\ \A t \in d.schedule : LET row == timers'[<<k, t>>] IN
        row \in Timers /\ ~row.terminal /\ row.fencing_token = 0
    /\ \A x \in DOMAIN timers : LET row == timers'[x] IN
        /\ row \in Timers /\ row.fencing_token = timers[x].fencing_token
        /\ x[1] = k /\ x[2] \in d.cancel_timers => row.terminal
        /\ ~(x[1] = k /\ x[2] \in d.cancel_timers) => row = timers[x]
        /\ timers[x].terminal => row = timers[x]

LEMMA RescheduledFacts ==
  ASSUME TypeOK, NEW k \in Keys, NEW d \in Decisions,
         \A t \in d.schedule : <<k, t>> \notin DOMAIN timers,
         timers' = AppliedTimers(k, d)
  PROVE  Rescheduled(k, d)
  <1>1. /\ DOMAIN timers \subseteq Keys \X TimerIds /\ (\A x \in DOMAIN timers : timers[x] \in Timers)
        /\ d.due_at \in Nat
    BY DecisionFacts DEF TypeOK
  <1>2. DOMAIN timers' = DOMAIN timers \cup {<<k, t>> : t \in d.schedule}
    BY DEF AppliedTimers
  <1>3. ASSUME NEW t \in d.schedule
        PROVE  LET row == timers'[<<k, t>>] IN
               row \in Timers /\ ~row.terminal /\ row.fencing_token = 0
    <2>1. timers'[<<k, t>>] = NewTimer(d.due_at)
      BY DEF AppliedTimers
    <2> QED BY <1>1, <2>1 DEF NewTimer, Timers
  <1>4. ASSUME NEW x \in DOMAIN timers
        PROVE  LET row == timers'[x] IN
               /\ row \in Timers /\ row.fencing_token = timers[x].fencing_token
               /\ x[1] = k /\ x[2] \in d.cancel_timers => row.terminal
               /\ ~(x[1] = k /\ x[2] \in d.cancel_timers) => row = timers[x]
               /\ timers[x].terminal => row = timers[x]
    <2>1. x = <<x[1], x[2]>> /\ timers[x] \in Timers
      BY <1>1
    <2>2. ~(x[1] = k /\ x[2] \in d.schedule)
      BY <2>1
    <2>3. timers'[x] = IF x[1] = k /\ x[2] \in d.cancel_timers /\ ~timers[x].terminal
                       THEN CancelledTimer(timers[x]) ELSE timers[x]
      BY <2>2 DEF AppliedTimers
    <2> DEFINE row == timers[x]
               new == CancelledTimer(row)
    <2>4. new \in Timers /\ new.terminal /\ new.fencing_token = row.fencing_token
      BY <2>1 DEF CancelledTimer, Timers
    <2> HIDE DEF new
    <2>5. timers'[x] = IF x[1] = k /\ x[2] \in d.cancel_timers /\ ~row.terminal THEN new ELSE row
      BY <2>3 DEF new
    <2> QED BY <2>1, <2>4, <2>5
  <1> QED BY <1>2, <1>3, <1>4 DEF Rescheduled

\* A decision is written: what it found, and what it leaves.
Deciding(h) ==
    LET c == call[h] IN
    /\ c.stage # "idle" /\ Written(h) /\ Rescheduled(c.key, c.decision)
    /\ \A t \in c.decision.schedule : <<c.key, t>> \notin DOMAIN timers
    /\ \A t \in c.decision.cancel_timers : ~Firing(<<c.key, t>>)
    /\ \A g \in Handlers \ {h} : Open(g) => call[g].key # c.key
    /\ c.message \in Messages \cup {NoMessage}
    /\ inbox' \in [Messages -> {"absent", "reserved", "completed"}]
    /\ \A m \in Messages : inbox'[m] = IF m = c.message THEN "completed" ELSE inbox[m]
    /\ c.message # NoMessage => inbox[c.message] = "absent" /\ c.stage # "loaded"
    /\ call' \in [Handlers -> Calls \cup {Idle}] /\ OthersCall(h) /\ call'[h].stage = "idle"
    /\ UNCHANGED <<store, clock, hand, fired>>

LEMMA DecidingFacts ==
  ASSUME IInv, NEW h \in Handlers, ApplyAtOnce(h) \/ Commit(h)
  PROVE  Deciding(h)
  <1> DEFINE c == call[h]
  <1>1. TypeOK /\ NoLostUpdate /\ CallsCoherent /\ FiringsCoherent
    BY DEF IInv
  <1>2. c.stage # "idle" /\ Writes(h) /\ Ends(h)
    BY DEF ApplyAtOnce, Applying, Commit, Open
  <1>3. /\ c.key \in Keys /\ c.decision \in Decisions /\ c.message \in Messages \cup {NoMessage}
    BY <1>1, <1>2, CallFacts
  <1>4. inbox \in [Messages -> {"absent", "reserved", "completed"}] /\ NoMessage \notin Messages
    BY <1>1, ProcessAssumption DEF TypeOK
  <1>5. timers' = AppliedTimers(c.key, c.decision)
    BY <1>2 DEF Writes
  <1>6. call' \in [Handlers -> Calls \cup {Idle}] /\ OthersCall(h) /\ call'[h].stage = "idle"
    BY <1>1, <1>2, EndsFacts
  <1>7. CASE ApplyAtOnce(h)
    <2>1. Current(h) /\ store = "memory" /\ UNCHANGED <<store, inbox, clock, hand, fired>>
      BY <1>7 DEF ApplyAtOnce
    <2>2. \A t \in c.decision.schedule : <<c.key, t>> \notin DOMAIN timers
      BY <1>7 DEF ApplyAtOnce, Refused
    <2>3. \A t \in c.decision.cancel_timers : ~Firing(<<c.key, t>>)
      BY <1>1, <2>1 DEF FiringsCoherent, Firing
    <2>4. \A g \in Handlers : ~Open(g) /\ c.message = NoMessage
      BY <1>1, <1>2, <2>1 DEF CallsCoherent, Open
    <2>5. Written(h) /\ Rescheduled(c.key, c.decision)
      BY <1>1, <1>2, <1>3, <1>5, <2>1, <2>2, WrittenFacts, RescheduledFacts
    <2>6. /\ inbox' \in [Messages -> {"absent", "reserved", "completed"}]
          /\ \A m \in Messages : inbox'[m] = IF m = c.message THEN "completed" ELSE inbox[m]
      BY <1>4, <2>1, <2>4
    <2> QED BY <1>2, <1>3, <1>6, <2>1, <2>2, <2>3, <2>4, <2>5, <2>6 DEF Deciding
  <1>8. CASE Commit(h)
    <2>1. Open(h) /\ UNCHANGED <<store, clock, hand, fired>>
      BY <1>8 DEF Commit
    <2>2. /\ Current(h)
          /\ \A t \in c.decision.schedule : <<c.key, t>> \notin DOMAIN timers
          /\ \A t \in c.decision.cancel_timers : ~Firing(<<c.key, t>>)
          /\ \A g \in Handlers \ {h} : Open(g) => call[g].key # c.key
      BY <1>1, <1>2, <2>1 DEF CallsCoherent
    <2>3. c.message # NoMessage => inbox[c.message] = "absent" /\ c.stage # "loaded"
      BY <1>1, <1>2, <2>1 DEF CallsCoherent, Open
    <2>4. Written(h) /\ Rescheduled(c.key, c.decision)
      BY <1>1, <1>2, <1>3, <1>5, <2>2, WrittenFacts, RescheduledFacts
    <2>5. inbox' = [m \in Messages |-> IF m = c.message THEN "completed" ELSE inbox[m]]
      BY <1>8 DEF Commit
    <2>6. /\ inbox' \in [Messages -> {"absent", "reserved", "completed"}]
          /\ \A m \in Messages : inbox'[m] = IF m = c.message THEN "completed" ELSE inbox[m]
      BY <1>4, <2>5
    <2> QED BY <1>2, <1>3, <1>6, <2>1, <2>2, <2>3, <2>4, <2>6 DEF Deciding
  <1> QED BY <1>7, <1>8

\* The other firers hold what they held.
OthersHold(f) == \A g \in Firers : g # f => hand'[g] = hand[g]

LEMMA HandFacts ==
  ASSUME TypeOK, NEW f \in Firers
  PROVE  /\ hand[f] \in Hands /\ hand[f].claims \subseteq Claims /\ hand[f].firing \subseteq Claims
         /\ hand[f].written \in BOOLEAN
         /\ \A claim \in Claims : /\ claim.timer \in Keys \X TimerIds /\ claim.token \in Nat
                                  /\ claim.claimed_until \in Nat
  <1>1. hand[f] \in Hands
    BY DEF TypeOK
  <1> QED BY <1>1 DEF Hands, Claims

LEMMA HoldingFacts ==
  ASSUME TypeOK, NEW f \in Firers, NEW S \in SUBSET Claims, hand' = [hand EXCEPT ![f] = Holding(S)]
  PROVE  /\ hand' \in [Firers -> Hands] /\ OthersHold(f)
         /\ hand'[f].claims = S /\ hand'[f].firing = {}
  <1>1. Holding(S) \in Hands /\ Holding(S).claims = S /\ Holding(S).firing = {}
    BY DEF Holding, Hands
  <1>2. hand' \in [Firers -> Hands] /\ OthersHold(f) /\ hand'[f] = Holding(S)
    BY <1>1 DEF TypeOK, OthersHold
  <1> QED BY <1>1, <1>2

\* A timer is completed with the claim that its row still has.
Completing(f, claim) ==
    LET x == claim.timer IN
    /\ claim \in hand[f].claims /\ claim \in Claims
    /\ x \in DOMAIN timers /\ ~timers[x].terminal /\ timers[x].fencing_token = claim.token
    /\ DOMAIN timers' = DOMAIN timers
    /\ \A y \in DOMAIN timers : y # x => timers'[y] = timers[y]
    /\ timers'[x] \in Timers /\ timers'[x].terminal /\ timers'[x].fencing_token = claim.token
    /\ fired' = fired \cup {claim}
    /\ hand' \in [Firers -> Hands] /\ OthersHold(f)
    /\ hand'[f].claims = hand[f].claims \ {claim} /\ hand'[f].firing = {}
    /\ \A g \in Firers \ {f} : \A other \in hand[g].firing : other.timer # x
    /\ effects' = effects \cup (IF store = "sqlalchemy" THEN {EffectOf(claim)} ELSE {})
    /\ UNCHANGED <<store, states, inbox, clock, call, log>>

LEMMA FiresFacts ==
  ASSUME TypeOK, NEW claim \in Claims, claim.timer \in DOMAIN timers,
         timers[claim.timer].fencing_token = claim.token, Fires(claim)
  PROVE  LET x == claim.timer IN
         /\ DOMAIN timers' = DOMAIN timers
         /\ \A y \in DOMAIN timers : y # x => timers'[y] = timers[y]
         /\ timers'[x] \in Timers /\ timers'[x].terminal /\ timers'[x].fencing_token = claim.token
         /\ fired' = fired \cup {claim}
  <1> DEFINE x == claim.timer
             new == CompletedTimer(timers[x])
  <1>1. timers[x] \in Timers
    BY DEF TypeOK
  <1>2. new \in Timers /\ new.terminal /\ new.fencing_token = claim.token
    BY <1>1 DEF CompletedTimer, Timers
  <1>3. timers' = [timers EXCEPT ![x] = new] /\ fired' = fired \cup {claim}
    BY DEF Fires
  <1> HIDE DEF new
  <1> QED BY <1>2, <1>3

LEMMA CompletingFacts ==
  ASSUME IInv, NEW f \in Firers, CompleteAtOnce(f) \/ FireCommits(f)
  PROVE  \E claim \in Claims : Completing(f, claim)
  <1>1. TypeOK /\ FiringsCoherent /\ ClaimsCoherent
    BY DEF IInv
  <1>2. hand[f].claims \subseteq Claims /\ hand[f].firing \subseteq Claims
    BY <1>1, HandFacts
  <1>3. CASE CompleteAtOnce(f)
    <2>1. PICK claim \in hand[f].claims :
            Valid(claim) /\ Fires(claim) /\ hand' = [hand EXCEPT ![f] = Holding(hand[f].claims \ {claim})]
      BY <1>3 DEF CompleteAtOnce
    <2>2. claim \in Claims /\ hand[f].claims \ {claim} \in SUBSET Claims
      BY <1>2
    <2>3. /\ claim.timer \in DOMAIN timers /\ ~timers[claim.timer].terminal
          /\ timers[claim.timer].fencing_token = claim.token
      BY <2>1 DEF Valid
    <2>4. /\ hand' \in [Firers -> Hands] /\ OthersHold(f)
          /\ hand'[f].claims = hand[f].claims \ {claim} /\ hand'[f].firing = {}
      BY <1>1, <2>1, <2>2, HoldingFacts
    <2>5. store = "memory" /\ effects' = effects /\ UNCHANGED <<store, states, inbox, clock, call, log>>
      BY <1>3 DEF CompleteAtOnce
    <2>6. \A g \in Firers : hand[g].firing = {}
      BY <1>1, <2>5 DEF FiringsCoherent
    <2>7. /\ DOMAIN timers' = DOMAIN timers
          /\ \A y \in DOMAIN timers : y # claim.timer => timers'[y] = timers[y]
          /\ timers'[claim.timer] \in Timers /\ timers'[claim.timer].terminal
          /\ timers'[claim.timer].fencing_token = claim.token
          /\ fired' = fired \cup {claim}
      BY <1>1, <2>1, <2>2, <2>3, FiresFacts
    <2>8. effects' = effects \cup (IF store = "sqlalchemy" THEN {EffectOf(claim)} ELSE {})
      BY <2>5
    <2> QED BY <2>2, <2>3, <2>4, <2>5, <2>6, <2>7, <2>8 DEF Completing
  <1>4. CASE FireCommits(f)
    <2>1. PICK claim \in hand[f].firing :
            /\ Fires(claim) /\ hand' = [hand EXCEPT ![f] = Holding(hand[f].claims \ {claim})]
            /\ effects' = effects \cup {EffectOf(claim)}
      BY <1>4 DEF FireCommits
    <2>2. claim \in Claims /\ hand[f].claims \ {claim} \in SUBSET Claims
      BY <1>2
    <2>3. /\ claim \in hand[f].claims /\ ~timers[claim.timer].terminal
          /\ timers[claim.timer].fencing_token = claim.token /\ store = "sqlalchemy"
          /\ \A g \in Firers \ {f} : \A other \in hand[g].firing : other.timer # claim.timer
      BY <1>1 DEF FiringsCoherent
    <2>4. claim.timer \in DOMAIN timers
      BY <1>1, <2>3 DEF ClaimsCoherent
    <2>5. /\ hand' \in [Firers -> Hands] /\ OthersHold(f)
          /\ hand'[f].claims = hand[f].claims \ {claim} /\ hand'[f].firing = {}
      BY <1>1, <2>1, <2>2, HoldingFacts
    <2>6. UNCHANGED <<store, states, inbox, clock, call, log>>
      BY <1>4 DEF FireCommits
    <2>7. /\ DOMAIN timers' = DOMAIN timers
          /\ \A y \in DOMAIN timers : y # claim.timer => timers'[y] = timers[y]
          /\ timers'[claim.timer] \in Timers /\ timers'[claim.timer].terminal
          /\ timers'[claim.timer].fencing_token = claim.token
          /\ fired' = fired \cup {claim}
      BY <1>1, <2>1, <2>2, <2>3, <2>4, FiresFacts
    <2>8. effects' = effects \cup (IF store = "sqlalchemy" THEN {EffectOf(claim)} ELSE {})
      BY <2>1, <2>3
    <2> QED BY <2>2, <2>3, <2>4, <2>5, <2>6, <2>7, <2>8 DEF Completing
  <1> QED BY <1>3, <1>4

\* A firer claims the chosen timers.
Claiming(f, now, chosen) ==
    /\ now \in Nat /\ now <= clock /\ chosen \subseteq DOMAIN timers
    /\ hand[f].claims = {}
    /\ DOMAIN timers' = DOMAIN timers
    /\ \A x \in DOMAIN timers \ chosen : timers'[x] = timers[x]
    /\ \A x \in chosen :
        /\ ~timers[x].terminal /\ timers[x].claimed_until <= now /\ ~Firing(x)
        /\ timers'[x] \in Timers /\ ~timers'[x].terminal
        /\ timers'[x].fencing_token = timers[x].fencing_token + 1
        /\ timers'[x].claim_id = timers[x].fencing_token + 1
        /\ timers'[x].claimed_until = now + ClaimTtl
    /\ hand' \in [Firers -> Hands] /\ OthersHold(f) /\ hand'[f].firing = {}
    /\ \A claim \in hand'[f].claims : \E x \in chosen :
        /\ claim.timer = x /\ claim.token = timers[x].fencing_token + 1
        /\ claim.claimed_until = now + ClaimTtl
    /\ UNCHANGED <<store, states, effects, inbox, clock, call, log, fired>>

LEMMA ClaimingFacts ==
  ASSUME TypeOK, NEW f \in Firers, NEW now \in 0..clock, ClaimTimers(f, now)
  PROVE  \E chosen \in SUBSET DOMAIN timers : Claiming(f, now, chosen)
  <1>1. PICK chosen \in SUBSET DOMAIN timers :
          /\ Chosen(chosen, now)
          /\ timers' = [x \in DOMAIN timers |->
                IF x \in chosen THEN ClaimedTimer(timers[x], now) ELSE timers[x]]
          /\ hand' = [hand EXCEPT ![f] = Holding({ClaimOf(x, now) : x \in chosen})]
    BY DEF ClaimTimers
  <1>2. clock \in Nat /\ ClaimTtl \in Nat
    BY ProcessAssumption DEF TypeOK
  <1>3. now \in Nat /\ now <= clock /\ now + ClaimTtl \in Nat
    BY <1>2
  <1>4. \A x \in chosen : ~timers[x].terminal /\ timers[x].claimed_until <= now /\ ~Firing(x)
    BY <1>1 DEF Chosen, Eligible
  <1>5. ASSUME NEW x \in chosen
        PROVE  /\ timers'[x] \in Timers /\ ~timers'[x].terminal
               /\ timers'[x].fencing_token = timers[x].fencing_token + 1
               /\ timers'[x].claim_id = timers[x].fencing_token + 1
               /\ timers'[x].claimed_until = now + ClaimTtl
    <2>1. timers'[x] = ClaimedTimer(timers[x], now)
      BY <1>1
    <2>2. timers[x] \in Timers /\ ~timers[x].terminal
      BY <1>4 DEF TypeOK
    <2> QED BY <1>3, <2>1, <2>2 DEF ClaimedTimer, Timers
  <1>6. ASSUME NEW x \in chosen
        PROVE  /\ ClaimOf(x, now) \in Claims /\ ClaimOf(x, now).timer = x
               /\ ClaimOf(x, now).token = timers[x].fencing_token + 1
               /\ ClaimOf(x, now).claimed_until = now + ClaimTtl
    <2>1. timers[x] \in Timers /\ x \in Keys \X TimerIds
      BY DEF TypeOK
    <2>2. timers[x].fencing_token + 1 \in Nat
      BY <2>1 DEF Timers
    <2> QED BY <1>3, <2>1, <2>2 DEF ClaimOf, Claims
  <1> DEFINE S == {ClaimOf(x, now) : x \in chosen}
  <1>7. S \in SUBSET Claims
    BY <1>6
  <1>8. \A claim \in S : \E x \in chosen :
            /\ claim.timer = x /\ claim.token = timers[x].fencing_token + 1
            /\ claim.claimed_until = now + ClaimTtl
    BY <1>6
  <1>9. hand' = [hand EXCEPT ![f] = Holding(S)]
    BY <1>1
  <1> HIDE DEF S
  <1>10. /\ hand' \in [Firers -> Hands] /\ OthersHold(f)
         /\ hand'[f].claims = S /\ hand'[f].firing = {}
    BY <1>7, <1>9, HoldingFacts
  <1>11. DOMAIN timers' = DOMAIN timers /\ \A x \in DOMAIN timers \ chosen : timers'[x] = timers[x]
    BY <1>1
  <1>12. hand[f].claims = {} /\ UNCHANGED <<store, states, effects, inbox, clock, call, log, fired>>
    BY DEF ClaimTimers
  <1>13. Claiming(f, now, chosen)
    BY <1>3, <1>4, <1>5, <1>8, <1>10, <1>11, <1>12 DEF Claiming
  <1> QED BY <1>13

\* A firer begins to complete a timer, goes on with it, or lets go of a claim.
Handling(f) ==
    /\ hand' \in [Firers -> Hands] /\ OthersHold(f)
    /\ hand'[f].claims \subseteq hand[f].claims
    /\ \/ /\ hand'[f].firing \subseteq hand[f].firing
          /\ hand[f].firing \subseteq hand[f].claims => hand'[f].firing \subseteq hand'[f].claims
       \/ /\ store = "sqlalchemy"
          /\ hand'[f].firing \subseteq hand'[f].claims
          /\ \A claim \in hand'[f].firing :
                Valid(claim) /\ ~Firing(claim.timer) /\ ~Cancelling(claim.timer)
    /\ UNCHANGED <<store, states, timers, effects, inbox, clock, call, log, fired>>

LEMMA HandlingFacts ==
  ASSUME TypeOK, NEW f \in Firers, FireBegins(f) \/ FireWrites(f) \/ GivesUp(f)
  PROVE  Handling(f)
  <1>1. /\ hand \in [Firers -> Hands] /\ hand[f].claims \subseteq Claims /\ hand[f].firing \subseteq Claims
    BY HandFacts DEF TypeOK
  <1>2. ASSUME NEW claim \in Claims, NEW written \in BOOLEAN,
               hand' = [hand EXCEPT ![f] =
                   [claims |-> hand[f].claims, firing |-> {claim}, written |-> written]]
        PROVE  /\ hand' \in [Firers -> Hands] /\ OthersHold(f)
               /\ hand'[f].claims = hand[f].claims /\ hand'[f].firing = {claim}
    <2> DEFINE new == [claims |-> hand[f].claims, firing |-> {claim}, written |-> written]
    <2>1. new \in Hands /\ new.claims = hand[f].claims /\ new.firing = {claim}
      BY <1>1, <1>2 DEF Hands
    <2>2. hand' = [hand EXCEPT ![f] = new]
      BY <1>2
    <2> HIDE DEF new
    <2>3. hand' \in [Firers -> Hands] /\ OthersHold(f) /\ hand'[f] = new
      BY <1>1, <2>1, <2>2 DEF OthersHold
    <2> QED BY <2>1, <2>3
  <1>3. CASE FireBegins(f)
    <2>1. PICK claim \in hand[f].claims :
            /\ Valid(claim) /\ ~Firing(claim.timer) /\ ~Cancelling(claim.timer)
            /\ hand' = [hand EXCEPT ![f] =
                   [claims |-> hand[f].claims, firing |-> {claim}, written |-> FALSE]]
      BY <1>3 DEF FireBegins
    <2>2. /\ hand' \in [Firers -> Hands] /\ OthersHold(f)
          /\ hand'[f].claims = hand[f].claims /\ hand'[f].firing = {claim}
      BY <1>1, <1>2, <2>1
    <2>3. store = "sqlalchemy" /\ UNCHANGED <<store, states, timers, effects, inbox, clock, call, log, fired>>
      BY <1>3 DEF FireBegins
    <2> QED BY <2>1, <2>2, <2>3 DEF Handling
  <1>4. CASE FireWrites(f)
    <2>1. PICK claim \in hand[f].firing :
            hand' = [hand EXCEPT ![f] =
                IF claim.claimed_until > clock
                THEN [claims |-> hand[f].claims, firing |-> {claim}, written |-> TRUE]
                ELSE Holding(hand[f].claims \ {claim})]
      BY <1>4 DEF FireWrites
    <2>2. UNCHANGED <<store, states, timers, effects, inbox, clock, call, log, fired>>
      BY <1>4 DEF FireWrites
    <2>3. CASE claim.claimed_until > clock
      <3>1. /\ hand' \in [Firers -> Hands] /\ OthersHold(f)
            /\ hand'[f].claims = hand[f].claims /\ hand'[f].firing = {claim}
        BY <1>1, <1>2, <2>1, <2>3
      <3> QED BY <2>2, <3>1 DEF Handling
    <2>4. CASE ~(claim.claimed_until > clock)
      <3>1. hand[f].claims \ {claim} \in SUBSET Claims
        BY <1>1
      <3>2. /\ hand' \in [Firers -> Hands] /\ OthersHold(f)
            /\ hand'[f].claims = hand[f].claims \ {claim} /\ hand'[f].firing = {}
        BY <2>1, <2>4, <3>1, HoldingFacts
      <3> QED BY <2>2, <3>2 DEF Handling
    <2> QED BY <2>3, <2>4
  <1>5. CASE GivesUp(f)
    <2>1. PICK claim \in hand[f].claims : hand' = [hand EXCEPT ![f] = Holding(hand[f].claims \ {claim})]
      BY <1>5 DEF GivesUp
    <2>2. hand[f].claims \ {claim} \in SUBSET Claims
      BY <1>1
    <2>3. /\ hand' \in [Firers -> Hands] /\ OthersHold(f)
          /\ hand'[f].claims = hand[f].claims \ {claim} /\ hand'[f].firing = {}
      BY <2>1, <2>2, HoldingFacts
    <2>4. UNCHANGED <<store, states, timers, effects, inbox, clock, call, log, fired>>
      BY <1>5 DEF GivesUp
    <2> QED BY <2>3, <2>4 DEF Handling
  <1> QED BY <1>3, <1>4, <1>5

\* Handler h goes from one stage to the next, and nothing else changes.
Pausing(h) ==
    /\ call' \in [Handlers -> Calls \cup {Idle}] /\ OthersCall(h)
    /\ UNCHANGED <<store, states, timers, effects, inbox, clock, hand, log, fired>>
    /\ \/ call'[h].stage = "idle"
       \/ /\ call'[h].stage = "loaded"
          /\ store = "memory" => call'[h].message = NoMessage
       \/ /\ call'[h].stage = "reserved" /\ store # "memory"
          /\ call'[h].message # NoMessage /\ inbox[call'[h].message] = "absent"
          /\ ~InboxLocked(call'[h].message)
       \/ /\ call'[h].stage = "applied" /\ store # "memory"
          /\ (call[h].stage = "loaded" /\ call[h].message = NoMessage) \/ call[h].stage = "reserved"
          /\ call'[h].message = call[h].message /\ call'[h].key = call[h].key
          /\ call'[h].basis = call[h].basis /\ call'[h].decision = call[h].decision
          /\ Current(h) /\ ~ProcessLocked(call[h].key)
          /\ \A t \in call[h].decision.schedule : <<call[h].key, t>> \notin DOMAIN timers
          /\ \A t \in call[h].decision.cancel_timers : ~Firing(<<call[h].key, t>>)
       \/ /\ call'[h].stage = "completed" /\ call[h].stage = "applied" /\ call[h].message # NoMessage
          /\ call'[h].message = call[h].message /\ call'[h].key = call[h].key
          /\ call'[h].basis = call[h].basis /\ call'[h].decision = call[h].decision

LEMMA PausingFacts ==
  ASSUME IInv, NEW h \in Handlers,
         \/ \E k \in Keys, message \in Messages \cup {NoMessage} : Handle(h, k, message)
         \/ Reserve(h) \/ Apply(h) \/ Stale(h) \/ Complete(h) \/ Abort(h)
  PROVE  Pausing(h)
  <1>1. TypeOK /\ CallsCoherent
    BY DEF IInv
  <1>2. ASSUME Ends(h), UNCHANGED <<store, states, timers, effects, inbox, clock, hand, log, fired>>
        PROVE  Pausing(h)
    BY <1>1, <1>2, EndsFacts DEF Pausing
  <1>3. ASSUME NEW k \in Keys, NEW message \in Messages \cup {NoMessage}, Handle(h, k, message)
        PROVE  Pausing(h)
    <2>1. PICK decision \in Decisions :
            call' = [call EXCEPT ![h] =
                [stage |-> "loaded", key |-> k, basis |-> states[k], message |-> message,
                 decision |-> decision, expires_at |-> 0]]
      BY <1>3 DEF Handle
    <2> DEFINE new == [stage |-> "loaded", key |-> k, basis |-> states[k], message |-> message,
                       decision |-> decision, expires_at |-> 0]
    <2>2. states[k] \in Nat
      BY <1>1 DEF TypeOK
    <2>3. new \in Calls /\ new.stage = "loaded" /\ new.message = message
      BY <2>2 DEF Calls
    <2>4. call' = [call EXCEPT ![h] = new]
      BY <2>1
    <2> HIDE DEF new
    <2>5. call' \in [Handlers -> Calls \cup {Idle}] /\ OthersCall(h) /\ call'[h] = new
      BY <1>1, <2>3, <2>4 DEF TypeOK, OthersCall
    <2> QED BY <1>3, <2>3, <2>5 DEF Handle, Pausing
  <1>4. CASE Reserve(h)
    <2>1. /\ call[h].stage = "loaded" /\ call[h].message # NoMessage /\ ~InboxLocked(call[h].message)
          /\ UNCHANGED <<store, states, timers, effects, inbox, clock, hand, log, fired>>
          /\ \/ inbox[call[h].message] = "absent" /\ At(h, "reserved", clock + InboxTtl)
             \/ Ends(h)
      BY <1>4 DEF Reserve
    <2>2. CASE inbox[call[h].message] = "absent" /\ At(h, "reserved", clock + InboxTtl)
      <3>1. clock + InboxTtl \in Nat
        BY <1>1, ProcessAssumption DEF TypeOK
      <3>2. /\ call' \in [Handlers -> Calls \cup {Idle}] /\ OthersCall(h)
            /\ call'[h].stage = "reserved" /\ call'[h].message = call[h].message
        BY <1>1, <2>1, <2>2, <3>1, AtFacts
      <3>3. store # "memory"
        BY <1>1, <2>1 DEF CallsCoherent
      <3> QED BY <2>1, <2>2, <3>2, <3>3 DEF Pausing
    <2> QED BY <1>2, <2>1, <2>2
  <1>5. CASE Apply(h)
    <2>1. /\ store # "memory" /\ Applying(h) /\ Current(h) /\ ~Refused(h)
          /\ \A t \in call[h].decision.cancel_timers : ~Firing(<<call[h].key, t>>)
          /\ At(h, "applied", call[h].expires_at)
          /\ UNCHANGED <<store, states, timers, effects, inbox, clock, hand, log, fired>>
      BY <1>5 DEF Apply
    <2>2. /\ \/ call[h].stage = "loaded" /\ call[h].message = NoMessage
             \/ call[h].stage = "reserved"
          /\ ~ProcessLocked(call[h].key)
      BY <2>1 DEF Applying
    <2>3. call[h].stage # "idle" /\ call[h].expires_at \in Nat
      BY <1>1, <2>2, CallFacts
    <2>4. /\ call' \in [Handlers -> Calls \cup {Idle}] /\ OthersCall(h)
          /\ call'[h].stage = "applied" /\ call'[h].message = call[h].message
          /\ call'[h].key = call[h].key /\ call'[h].basis = call[h].basis
          /\ call'[h].decision = call[h].decision
      BY <1>1, <2>1, <2>3, AtFacts
    <2>5. \A t \in call[h].decision.schedule : <<call[h].key, t>> \notin DOMAIN timers
      BY <2>1 DEF Refused
    <2> QED BY <2>1, <2>2, <2>4, <2>5 DEF Pausing
  <1>6. CASE Stale(h) \/ Abort(h)
    BY <1>2, <1>6 DEF Stale, Abort
  <1>7. CASE Complete(h)
    <2>1. /\ call[h].stage = "applied" /\ call[h].message # NoMessage
          /\ At(h, "completed", call[h].expires_at)
          /\ UNCHANGED <<store, states, timers, effects, inbox, clock, hand, log, fired>>
      BY <1>7 DEF Complete
    <2>2. call[h].stage # "idle" /\ call[h].expires_at \in Nat
      BY <1>1, <2>1, CallFacts
    <2>3. /\ call' \in [Handlers -> Calls \cup {Idle}] /\ OthersCall(h)
          /\ call'[h].stage = "completed" /\ call'[h].message = call[h].message
          /\ call'[h].key = call[h].key /\ call'[h].basis = call[h].basis
          /\ call'[h].decision = call[h].decision
      BY <1>1, <2>1, <2>2, AtFacts
    <2> QED BY <2>1, <2>3 DEF Pausing
  <1> QED BY <1>3, <1>4, <1>5, <1>6, <1>7

\* The steps.
LEMMA Steps ==
  ASSUME IInv, [Next]_vars
  PROVE  \/ UNCHANGED vars
         \/ Tick
         \/ \E h \in Handlers : Pausing(h)
         \/ \E h \in Handlers : Deciding(h)
         \/ \E f \in Firers, now \in Nat : \E chosen \in SUBSET DOMAIN timers : Claiming(f, now, chosen)
         \/ \E f \in Firers : \E claim \in Claims : Completing(f, claim)
         \/ \E f \in Firers : Handling(f)
  <1>1. TypeOK /\ clock \in Nat
    BY DEF IInv, TypeOK
  <1>2. ASSUME NEW h \in Handlers, HandlerStep(h) PROVE Pausing(h) \/ Deciding(h)
    BY <1>2, PausingFacts, DecidingFacts DEF HandlerStep
  <1>3. ASSUME NEW f \in Firers, NEW now \in 0..clock, ClaimTimers(f, now)
        PROVE  \E chosen \in SUBSET DOMAIN timers : Claiming(f, now, chosen)
    BY <1>1, <1>3, ClaimingFacts
  <1>4. \A now \in 0..clock : now \in Nat
    BY <1>1
  <1>5. ASSUME NEW f \in Firers, CompleteAtOnce(f) \/ FireCommits(f)
        PROVE  \E claim \in Claims : Completing(f, claim)
    BY <1>5, CompletingFacts
  <1>6. ASSUME NEW f \in Firers, FireBegins(f) \/ FireWrites(f) \/ GivesUp(f) PROVE Handling(f)
    BY <1>1, <1>6, HandlingFacts
  <1> QED BY <1>2, <1>3, <1>4, <1>5, <1>6 DEF Next, FirerStep

----------------------------------------------------------------------------
\* A step preserves each part of the invariant.

LEMMA TypeStep ==
  ASSUME IInv, [Next]_vars
  PROVE  TypeOK'
  <1>1. TypeOK
    BY DEF IInv
  <1>2. CASE UNCHANGED vars
    BY <1>1, <1>2 DEF TypeOK, vars
  <1>3. CASE Tick
    BY <1>1, <1>3 DEF TypeOK, Tick
  <1>4. ASSUME NEW h \in Handlers, Pausing(h) PROVE TypeOK'
    BY <1>1, <1>4 DEF TypeOK, Pausing
  <1>5. ASSUME NEW h \in Handlers, Deciding(h) PROVE TypeOK'
    <2> DEFINE c == call[h]
    <2>1. /\ c.key \in Keys /\ c.decision \in Decisions /\ Len(log[c.key]) \in Nat
          /\ states' \in [Keys -> Nat] /\ log' \in [Keys -> Seq(Entries)]
          /\ effects' = effects \cup {[key |-> c.key, id |-> e, number |-> Len(log[c.key]) + 1] :
                                         e \in c.decision.effects}
      BY <1>5 DEF Deciding, Written
    <2>2. c.decision.effects \subseteq EffectIds /\ c.decision.schedule \subseteq TimerIds
      BY <2>1, DecisionFacts
    <2>3. effects' \subseteq Effects
      BY <1>1, <2>1, <2>2 DEF TypeOK, Effects
    <2>4. DOMAIN timers' \subseteq Keys \X TimerIds /\ \A x \in DOMAIN timers' : timers'[x] \in Timers
      BY <1>1, <1>5, <2>1, <2>2 DEF Deciding, Rescheduled, TypeOK
    <2> QED BY <1>1, <1>5, <2>1, <2>3, <2>4 DEF TypeOK, Deciding
  <1>6. ASSUME NEW f \in Firers, NEW now \in Nat, NEW chosen \in SUBSET DOMAIN timers, Claiming(f, now, chosen)
        PROVE  TypeOK'
    <2>1. \A x \in DOMAIN timers' : timers'[x] \in Timers
      BY <1>1, <1>6 DEF TypeOK, Claiming
    <2> QED BY <1>1, <1>6, <2>1 DEF TypeOK, Claiming
  <1>7. ASSUME NEW f \in Firers, NEW claim \in Claims, Completing(f, claim) PROVE TypeOK'
    <2>1. \A x \in DOMAIN timers' : timers'[x] \in Timers
      BY <1>1, <1>7 DEF TypeOK, Completing
    <2>2. EffectOf(claim) \in Effects
      BY DEF EffectOf, Effects, Claims
    <2>3. effects' \subseteq Effects
      BY <1>1, <1>7, <2>2 DEF TypeOK, Completing
    <2> QED BY <1>1, <1>7, <2>1, <2>3 DEF TypeOK, Completing
  <1>8. ASSUME NEW f \in Firers, Handling(f) PROVE TypeOK'
    BY <1>1, <1>8 DEF TypeOK, Handling
  <1> QED BY <1>2, <1>3, <1>4, <1>5, <1>6, <1>7, <1>8, Steps

\* Only a decision changes the history of the processes.
LEMMA HistoryStep ==
  ASSUME IInv, [Next]_vars
  PROVE  \/ UNCHANGED <<states, log, inbox>>
         \/ \E h \in Handlers : Deciding(h)
  BY Steps DEF vars, Tick, Pausing, Claiming, Completing, Handling

LEMMA NoLostUpdateStep ==
  ASSUME IInv, [Next]_vars
  PROVE  NoLostUpdate'
  <1>1. NoLostUpdate /\ TypeOK
    BY DEF IInv
  <1>2. CASE UNCHANGED <<states, log, inbox>>
    BY <1>1, <1>2 DEF NoLostUpdate
  <1>3. ASSUME NEW h \in Handlers, Deciding(h) PROVE NoLostUpdate'
    <2> DEFINE k == call[h].key
               n == Len(log[k])
    <2>1. /\ k \in Keys /\ n \in Nat /\ states'[k] = n + 1
          /\ \A q \in Keys : q # k => states'[q] = states[q]
          /\ Len(log'[k]) = n + 1 /\ log'[k][n + 1].basis = n
          /\ \A i \in 1..n : log'[k][i] = log[k][i]
          /\ \A q \in Keys : q # k => log'[q] = log[q]
      BY <1>3 DEF Deciding, Written
    <2>2. \A i \in 1..n : log[k][i].basis = i - 1
      BY <1>1, <2>1 DEF NoLostUpdate
    <2> HIDE DEF n, k
    <2>3. \A i \in 1..(n + 1) : log'[k][i].basis = i - 1
      <3> SUFFICES ASSUME NEW i \in 1..(n + 1) PROVE log'[k][i].basis = i - 1
        OBVIOUS
      <3>1. CASE i = n + 1
        BY <2>1, <3>1
      <3>2. CASE i # n + 1
        <4>1. i \in 1..n
          BY <2>1, <3>2
        <4>2. log'[k][i] = log[k][i] /\ log[k][i].basis = i - 1
          BY <2>1, <2>2, <4>1
        <4> QED BY <4>2
      <3> QED BY <3>1, <3>2
    <2>4. ASSUME NEW q \in Keys
          PROVE  states'[q] = Len(log'[q]) /\ \A i \in 1..Len(log'[q]) : log'[q][i].basis = i - 1
      <3>1. CASE q = k
        BY <2>1, <2>3, <3>1
      <3>2. CASE q # k
        BY <1>1, <2>1, <3>2 DEF NoLostUpdate
      <3> QED BY <3>1, <3>2
    <2> QED BY <2>4 DEF NoLostUpdate
  <1> QED BY <1>2, <1>3, HistoryStep

\* After a decision the log of a process is what it was, with one entry more.
LEMMA EntriesAfter ==
  ASSUME TypeOK, NEW h \in Handlers, Written(h), NEW k \in Keys, NEW i
  PROVE  LET q == call[h].key
             n == Len(log[q])
         IN
         /\ i \in 1..Len(log'[k]) <=> i \in 1..Len(log[k]) \/ (k = q /\ i = n + 1)
         /\ i \in 1..Len(log[k]) => log'[k][i] = log[k][i] /\ ~(k = q /\ i = n + 1)
  <1> DEFINE q == call[h].key
             n == Len(log[q])
  <1>1. /\ q \in Keys /\ n \in Nat /\ Len(log'[q]) = n + 1
        /\ \A j \in 1..n : log'[q][j] = log[q][j]
        /\ \A p \in Keys : p # q => log'[p] = log[p]
    BY DEF Written
  <1>2. CASE k = q
    <2> HIDE DEF q
    <2>1. Len(log[k]) = n
      BY <1>2
    <2> HIDE DEF n
    <2>2. i \in 1..(n + 1) <=> i \in 1..n \/ i = n + 1
      BY <1>1
    <2>3. ~(i \in 1..n /\ i = n + 1)
      BY <1>1
    <2> QED BY <1>1, <1>2, <2>1, <2>2, <2>3 DEF n, q
  <1>3. CASE k # q
    BY <1>1, <1>3
  <1> QED BY <1>2, <1>3

LEMMA InputOnceStep ==
  ASSUME IInv, [Next]_vars
  PROVE  InputOnce'
  <1>1. InputOnce /\ TypeOK
    BY DEF IInv
  <1>2. CASE UNCHANGED <<states, log, inbox>>
    BY <1>1, <1>2 DEF InputOnce
  <1>3. ASSUME NEW h \in Handlers, Deciding(h) PROVE InputOnce'
    <2> DEFINE q == call[h].key
               n == Len(log[q])
               msg == call[h].message
    <2>1. Written(h) /\ q \in Keys /\ n \in Nat /\ log'[q][n + 1].message = msg
      BY <1>3 DEF Deciding, Written
    <2>2. /\ \A m \in Messages : inbox'[m] = IF m = msg THEN "completed" ELSE inbox[m]
          /\ msg # NoMessage => inbox[msg] = "absent"
          /\ msg \in Messages \cup {NoMessage} /\ NoMessage \notin Messages
      BY <1>3, ProcessAssumption DEF Deciding
    <2>3. \A k \in Keys : \A i : 
            /\ i \in 1..Len(log'[k]) <=> i \in 1..Len(log[k]) \/ (k = q /\ i = n + 1)
            /\ i \in 1..Len(log[k]) => log'[k][i] = log[k][i] /\ ~(k = q /\ i = n + 1)
      BY <1>1, <2>1, EntriesAfter
    <2>4. \A m \in Messages : \A k \in Keys : \A i \in 1..Len(log[k]) :
            log[k][i].message = m => inbox[m] = "completed"
      BY <1>1 DEF InputOnce
    <2>5. \A k \in Keys : \A i \in 1..Len(log[k]) : log[k][i].message = msg => msg = NoMessage
      BY <2>2, <2>4
    <2> HIDE DEF q, n, msg
    <2>6. ASSUME NEW m \in Messages
          PROVE  inbox'[m] = IF \E k \in Keys : \E i \in 1..Len(log'[k]) : log'[k][i].message = m
                             THEN "completed" ELSE "absent"
      <3>1. CASE m = msg
        <4>1. n + 1 \in 1..Len(log'[q])
          BY <2>1, <2>3
        <4> QED BY <2>1, <2>2, <3>1, <4>1
      <3>2. CASE m # msg
        <4>1. (\E k \in Keys : \E i \in 1..Len(log'[k]) : log'[k][i].message = m)
                <=> (\E k \in Keys : \E i \in 1..Len(log[k]) : log[k][i].message = m)
          BY <2>1, <2>3, <3>2
        <4> QED BY <1>1, <2>2, <3>2, <4>1 DEF InputOnce
      <3> QED BY <3>1, <3>2
    <2>7. ASSUME NEW k \in Keys, NEW p \in Keys, NEW i \in 1..Len(log'[k]), NEW j \in 1..Len(log'[p]),
                 log'[k][i].message = log'[p][j].message, log'[k][i].message # NoMessage
          PROVE  k = p /\ i = j
      <3>1. CASE i \in 1..Len(log[k]) /\ j \in 1..Len(log[p])
        <4>1. log'[k][i] = log[k][i] /\ log'[p][j] = log[p][j]
          BY <2>3, <3>1
        <4>2. log[k][i].message = log[p][j].message /\ log[k][i].message # NoMessage
          BY <2>7, <4>1
        <4> QED BY <1>1, <3>1, <4>2 DEF InputOnce
      <3>2. CASE i \in 1..Len(log[k]) /\ (p = q /\ j = n + 1)
        <4>1. log'[k][i] = log[k][i] /\ log'[p][j].message = msg
          BY <2>1, <2>3, <3>2
        <4> QED BY <2>5, <2>7, <3>2, <4>1
      <3>3. CASE (k = q /\ i = n + 1) /\ j \in 1..Len(log[p])
        <4>1. log'[p][j] = log[p][j] /\ log'[k][i].message = msg
          BY <2>1, <2>3, <3>3
        <4>2. log[p][j].message = msg /\ msg # NoMessage
          BY <2>7, <4>1
        <4> QED BY <2>5, <3>3, <4>2
      <3>4. CASE (k = q /\ i = n + 1) /\ (p = q /\ j = n + 1)
        BY <3>4
      <3> QED BY <2>3, <3>1, <3>2, <3>3, <3>4
    <2> QED BY <2>6, <2>7 DEF InputOnce
  <1> QED BY <1>2, <1>3, HistoryStep

\* EffectsExact, part by part.
DecidedSent == \A k \in Keys : \A i \in 1..Len(log[k]) : \A e \in log[k][i].decision.effects :
                  [key |-> k, id |-> e, number |-> i] \in effects

Explained(e) ==
    \/ e.number \in 1..Len(log[e.key]) /\ e.id \in log[e.key][e.number].decision.effects
    \/ store = "sqlalchemy" /\ \E claim \in fired : e = EffectOf(claim)

LEMMA EffectsStep ==
  ASSUME IInv, [Next]_vars
  PROVE  EffectsExact'
  <1>1. EffectsExact /\ TypeOK
    BY DEF IInv
  <1>2. /\ DecidedSent
        /\ store = "sqlalchemy" => \A claim \in fired : EffectOf(claim) \in effects
        /\ \A e \in effects : Explained(e)
    BY <1>1 DEF EffectsExact, DecidedSent, Explained
  <1>3. CASE UNCHANGED <<store, effects, log, fired>>
    BY <1>1, <1>3 DEF EffectsExact
  <1>4. ASSUME NEW h \in Handlers, Deciding(h) PROVE EffectsExact'
    <2> DEFINE q == call[h].key
               n == Len(log[q])
               d == call[h].decision
    <2>1. /\ Written(h) /\ q \in Keys /\ n \in Nat /\ log'[q][n + 1].decision = d
          /\ effects' = effects \cup {[key |-> q, id |-> e, number |-> n + 1] : e \in d.effects}
          /\ store' = store /\ fired' = fired
      BY <1>4 DEF Deciding, Written
    <2>2. \A k \in Keys : \A i :
            /\ i \in 1..Len(log'[k]) <=> i \in 1..Len(log[k]) \/ (k = q /\ i = n + 1)
            /\ i \in 1..Len(log[k]) => log'[k][i] = log[k][i] /\ ~(k = q /\ i = n + 1)
      BY <1>1, <2>1, EntriesAfter
    <2> HIDE DEF q, n, d
    <2>3. ASSUME NEW k \in Keys, NEW i \in 1..Len(log'[k]), NEW e \in log'[k][i].decision.effects
          PROVE  [key |-> k, id |-> e, number |-> i] \in effects'
      <3>1. CASE i \in 1..Len(log[k])
        <4>1. log'[k][i] = log[k][i]
          BY <2>2, <3>1
        <4>2. [key |-> k, id |-> e, number |-> i] \in effects
          BY <1>2, <2>3, <3>1, <4>1 DEF DecidedSent
        <4> QED BY <2>1, <4>2
      <3>2. CASE k = q /\ i = n + 1
        BY <2>1, <2>3, <3>2
      <3> QED BY <2>2, <2>3, <3>1, <3>2
    <2>4. ASSUME NEW e \in effects' PROVE Explained(e)'
      <3>1. CASE e \in effects
        <4>1. e.key \in Keys
          BY <1>1, <3>1 DEF TypeOK, Effects
        <4>2. Explained(e)
          BY <1>2, <3>1
        <4>3. CASE e.number \in 1..Len(log[e.key]) /\ e.id \in log[e.key][e.number].decision.effects
          <5>1. log'[e.key][e.number] = log[e.key][e.number] /\ e.number \in 1..Len(log'[e.key])
            BY <2>2, <4>1, <4>3
          <5> QED BY <4>3, <5>1 DEF Explained
        <4>4. CASE store = "sqlalchemy" /\ \E claim \in fired : e = EffectOf(claim)
          BY <2>1, <4>4 DEF Explained, EffectOf
        <4> QED BY <4>2, <4>3, <4>4 DEF Explained
      <3>2. ASSUME NEW id \in d.effects, e = [key |-> q, id |-> id, number |-> n + 1]
            PROVE  Explained(e)'
        <4>1. e.key = q /\ e.number = n + 1 /\ e.id = id
          BY <3>2
        <4>2. n + 1 \in 1..Len(log'[q])
          BY <2>1, <2>2
        <4>3. e.number \in 1..Len(log'[e.key]) /\ e.id \in log'[e.key][e.number].decision.effects
          BY <2>1, <4>1, <4>2
        <4> QED BY <4>3 DEF Explained
      <3> QED BY <2>1, <3>1, <3>2
    <2>5. store' = "sqlalchemy" => \A claim \in fired' : EffectOf(claim)' \in effects'
      BY <1>2, <2>1 DEF EffectOf
    <2> QED BY <2>3, <2>4, <2>5 DEF EffectsExact, Explained
  <1>5. ASSUME NEW f \in Firers, NEW claim \in Claims, Completing(f, claim) PROVE EffectsExact'
    <2>1. /\ effects' = effects \cup (IF store = "sqlalchemy" THEN {EffectOf(claim)} ELSE {})
          /\ fired' = fired \cup {claim} /\ store' = store /\ log' = log
      BY <1>5 DEF Completing
    <2>2. DecidedSent'
      BY <1>2, <2>1 DEF DecidedSent
    <2>3. store' = "sqlalchemy" => \A other \in fired' : EffectOf(other) \in effects'
      BY <1>2, <2>1
    <2>4. ASSUME NEW e \in effects' PROVE Explained(e)'
      <3>1. CASE e \in effects
        BY <1>2, <2>1, <3>1 DEF Explained
      <3>2. CASE store = "sqlalchemy" /\ e = EffectOf(claim)
        BY <2>1, <3>2 DEF Explained
      <3> QED BY <2>1, <3>1, <3>2
    <2> QED BY <2>2, <2>3, <2>4 DEF EffectsExact, DecidedSent, Explained
  <1>6. \/ UNCHANGED <<store, effects, log, fired>>
        \/ \E h \in Handlers : Deciding(h)
        \/ \E f \in Firers : \E claim \in Claims : Completing(f, claim)
    BY Steps DEF vars, Tick, Pausing, Claiming, Handling
  <1> QED BY <1>3, <1>4, <1>5, <1>6

LEMMA ClaimsStep ==
  ASSUME IInv, [Next]_vars
  PROVE  ClaimsCoherent'
  <1>1. TypeOK /\ ClaimsCoherent /\ clock \in Nat /\ ClaimTtl \in Nat
    BY ProcessAssumption DEF IInv, TypeOK
  <1> DEFINE Sound(claim) ==
        LET row == timers'[claim.timer] IN
        /\ claim.timer \in DOMAIN timers'
        /\ claim.claimed_until > clock' /\ ~row.terminal =>
            /\ row.claim_id = claim.token /\ row.fencing_token = claim.token
            /\ row.claimed_until = claim.claimed_until
  <1> SUFFICES ASSUME NEW f \in Firers, NEW claim \in hand'[f].claims PROVE Sound(claim)
    BY DEF ClaimsCoherent
  <1>2. ASSUME claim \in hand[f].claims, clock' = clock \/ clock' = clock + 1,
               claim.timer \in DOMAIN timers => claim.timer \in DOMAIN timers',
               claim.timer \in DOMAIN timers =>
                  timers'[claim.timer].terminal \/ timers'[claim.timer] = timers[claim.timer]
        PROVE  Sound(claim)
    <2>1. claim.claimed_until \in Nat
      BY <1>1, <1>2, HandFacts
    <2>2. claim.claimed_until > clock' => claim.claimed_until > clock
      BY <1>1, <1>2, <2>1
    <2> QED BY <1>1, <1>2, <2>2 DEF ClaimsCoherent
  <1> HIDE DEF Sound
  <1>3. CASE UNCHANGED vars
    BY <1>2, <1>3 DEF vars
  <1>4. CASE Tick
    BY <1>2, <1>4 DEF Tick
  <1>5. ASSUME NEW h \in Handlers, Pausing(h) PROVE Sound(claim)
    BY <1>2, <1>5 DEF Pausing
  <1>6. ASSUME NEW h \in Handlers, Deciding(h) PROVE Sound(claim)
    <2>1. hand' = hand /\ clock' = clock /\ Rescheduled(call[h].key, call[h].decision)
      BY <1>6 DEF Deciding
    <2>2. /\ DOMAIN timers \subseteq DOMAIN timers'
          /\ \A x \in DOMAIN timers : timers'[x].terminal \/ timers'[x] = timers[x]
      BY <2>1 DEF Rescheduled
    <2> QED BY <1>2, <2>1, <2>2
  <1>7. ASSUME NEW g \in Firers, NEW now \in Nat, NEW chosen \in SUBSET DOMAIN timers, Claiming(g, now, chosen)
        PROVE  Sound(claim)
    <2>1. clock' = clock /\ DOMAIN timers' = DOMAIN timers /\ now <= clock
      BY <1>7 DEF Claiming
    <2>2. CASE f = g
      <3>1. PICK x \in chosen :
              /\ claim.timer = x /\ claim.token = timers[x].fencing_token + 1
              /\ claim.claimed_until = now + ClaimTtl
        BY <1>7, <2>2 DEF Claiming
      <3>2. /\ timers'[x].fencing_token = timers[x].fencing_token + 1
            /\ timers'[x].claim_id = timers[x].fencing_token + 1
            /\ timers'[x].claimed_until = now + ClaimTtl
        BY <1>7 DEF Claiming
      <3> QED BY <2>1, <3>1, <3>2 DEF Sound
    <2>3. CASE f # g
      <3>1. claim \in hand[f].claims
        BY <1>7, <2>3 DEF Claiming, OthersHold
      <3>2. claim.claimed_until \in Nat /\ claim.timer \in DOMAIN timers
        BY <1>1, <3>1, HandFacts DEF ClaimsCoherent
      <3>3. CASE claim.timer \in chosen
        <4>1. ~timers[claim.timer].terminal /\ timers[claim.timer].claimed_until <= now
          BY <1>7, <3>3 DEF Claiming
        <4>2. timers[claim.timer].claimed_until \in Nat
          BY <1>1, <3>2 DEF TypeOK, Timers
        <4>3. ~(claim.claimed_until > clock)
          BY <1>1, <2>1, <3>1, <3>2, <4>1, <4>2 DEF ClaimsCoherent
        <4> QED BY <2>1, <3>2, <4>3 DEF Sound
      <3>4. CASE claim.timer \notin chosen
        <4>1. timers'[claim.timer] = timers[claim.timer]
          BY <1>7, <3>2, <3>4 DEF Claiming
        <4> QED BY <1>2, <2>1, <3>1, <4>1
      <3> QED BY <3>3, <3>4
    <2> QED BY <2>2, <2>3
  <1>8. ASSUME NEW g \in Firers, NEW c \in Claims, Completing(g, c) PROVE Sound(claim)
    <2>1. claim \in hand[f].claims
      BY <1>8 DEF Completing, OthersHold
    <2>2. /\ DOMAIN timers' = DOMAIN timers /\ clock' = clock
          /\ \A x \in DOMAIN timers : timers'[x].terminal \/ timers'[x] = timers[x]
      BY <1>8 DEF Completing
    <2> QED BY <1>2, <2>1, <2>2
  <1>9. ASSUME NEW g \in Firers, Handling(g) PROVE Sound(claim)
    <2>1. claim \in hand[f].claims
      BY <1>9 DEF Handling, OthersHold
    <2> QED BY <1>2, <1>9, <2>1 DEF Handling
  <1> QED BY <1>3, <1>4, <1>5, <1>6, <1>7, <1>8, <1>9, Steps

LEMMA FiringsStep ==
  ASSUME IInv, [Next]_vars
  PROVE  FiringsCoherent'
  <1>1. TypeOK /\ ClaimsCoherent /\ FiringsCoherent /\ CallsCoherent
    BY DEF IInv
  <1> DEFINE Sound(f, claim) ==
        /\ store' = "sqlalchemy" /\ claim \in hand'[f].claims
        /\ ~timers'[claim.timer].terminal
        /\ timers'[claim.timer].fencing_token = claim.token
        /\ \A g \in Firers \ {f} : \A other \in hand'[g].firing : other.timer # claim.timer
  <1> SUFFICES ASSUME NEW f \in Firers, NEW claim \in hand'[f].firing PROVE Sound(f, claim)
    BY DEF FiringsCoherent
  \* A claim that was being fired, and whose row stays.
  <1>2. ASSUME claim \in hand[f].firing, claim \in hand'[f].claims, store' = store,
               timers'[claim.timer] = timers[claim.timer],
               \A g \in Firers \ {f} : hand'[g].firing \subseteq hand[g].firing
        PROVE  Sound(f, claim)
    BY <1>1, <1>2 DEF FiringsCoherent
  <1>3. claim \in hand[f].firing => claim \in hand[f].claims /\ claim.timer \in DOMAIN timers /\ Firing(claim.timer)
    BY <1>1 DEF FiringsCoherent, ClaimsCoherent, Firing
  <1> HIDE DEF Sound
  <1>4. CASE UNCHANGED vars
    BY <1>2, <1>3, <1>4 DEF vars
  <1>5. CASE Tick
    BY <1>2, <1>3, <1>5 DEF Tick
  <1>6. ASSUME NEW h \in Handlers, Pausing(h) PROVE Sound(f, claim)
    BY <1>2, <1>3, <1>6 DEF Pausing
  <1>7. ASSUME NEW h \in Handlers, Deciding(h) PROVE Sound(f, claim)
    <2> DEFINE k == call[h].key
               d == call[h].decision
    <2>1. hand' = hand /\ store' = store /\ Rescheduled(k, d)
          /\ \A t \in d.cancel_timers : ~Firing(<<k, t>>)
      BY <1>7 DEF Deciding
    <2>2. claim.timer \in Keys \X TimerIds /\ claim.timer = <<claim.timer[1], claim.timer[2]>>
      BY <1>1, <2>1, HandFacts
    <2>3. ~(claim.timer[1] = k /\ claim.timer[2] \in d.cancel_timers)
      BY <1>3, <2>1, <2>2
    <2>4. timers'[claim.timer] = timers[claim.timer]
      BY <1>3, <2>1, <2>3 DEF Rescheduled
    <2> QED BY <1>2, <1>3, <2>1, <2>4
  <1>8. ASSUME NEW g \in Firers, NEW now \in Nat, NEW chosen \in SUBSET DOMAIN timers, Claiming(g, now, chosen)
        PROVE  Sound(f, claim)
    <2>1. f # g /\ claim \in hand[f].firing /\ hand'[f] = hand[f] /\ store' = store
      BY <1>8 DEF Claiming, OthersHold
    <2>2. claim.timer \notin chosen
      BY <1>3, <1>8, <2>1 DEF Claiming
    <2>3. timers'[claim.timer] = timers[claim.timer]
      BY <1>3, <1>8, <2>1, <2>2 DEF Claiming
    <2>4. \A e \in Firers \ {f} : hand'[e].firing \subseteq hand[e].firing
      BY <1>8 DEF Claiming, OthersHold
    <2> QED BY <1>2, <1>3, <2>1, <2>3, <2>4
  <1>9. ASSUME NEW g \in Firers, NEW c \in Claims, Completing(g, c) PROVE Sound(f, claim)
    <2>1. f # g /\ claim \in hand[f].firing /\ hand'[f] = hand[f] /\ store' = store
      BY <1>9 DEF Completing, OthersHold
    <2>2. claim.timer # c.timer
      BY <1>9, <2>1 DEF Completing
    <2>3. timers'[claim.timer] = timers[claim.timer]
      BY <1>3, <1>9, <2>1, <2>2 DEF Completing
    <2>4. \A e \in Firers \ {f} : hand'[e].firing \subseteq hand[e].firing
      BY <1>9 DEF Completing, OthersHold
    <2> QED BY <1>2, <1>3, <2>1, <2>3, <2>4
  <1>10. ASSUME NEW g \in Firers, Handling(g) PROVE Sound(f, claim)
    <2>0. /\ UNCHANGED <<store, timers>> /\ OthersHold(g) /\ hand'[g].claims \subseteq hand[g].claims
          /\ \A e \in Firers : hand[e].firing \subseteq hand[e].claims
      BY <1>1, <1>10 DEF Handling, FiringsCoherent
    <2>1. CASE hand'[g].firing \subseteq hand[g].firing /\ hand'[g].firing \subseteq hand'[g].claims
      <3>1. claim \in hand[f].firing /\ claim \in hand'[f].claims
        BY <2>0, <2>1 DEF OthersHold
      <3>2. \A e \in Firers : hand'[e].firing \subseteq hand[e].firing
        BY <2>0, <2>1 DEF OthersHold
      <3> QED BY <1>2, <2>0, <3>1, <3>2
    <2>2. CASE /\ store = "sqlalchemy" /\ hand'[g].firing \subseteq hand'[g].claims
               /\ \A c \in hand'[g].firing : Valid(c) /\ ~Firing(c.timer)
      <3>1. CASE f = g
        <4>1. Valid(claim) /\ ~Firing(claim.timer) /\ claim \in hand'[f].claims
          BY <2>2, <3>1
        <4>2. \A e \in Firers \ {f} : \A other \in hand'[e].firing : other.timer # claim.timer
          BY <2>0, <3>1, <4>1 DEF Firing, OthersHold
        <4> QED BY <2>0, <2>2, <4>1, <4>2 DEF Sound, Valid
      <3>2. CASE f # g
        <4>1. claim \in hand[f].firing /\ hand'[f] = hand[f]
          BY <2>0, <3>2 DEF OthersHold
        <4>2. Sound(f, claim) <=>
                \A e \in Firers \ {f} : \A other \in hand'[e].firing : other.timer # claim.timer
          BY <1>1, <1>3, <2>0, <4>1 DEF Sound, FiringsCoherent
        <4>3. ASSUME NEW e \in Firers \ {f}, NEW other \in hand'[e].firing PROVE other.timer # claim.timer
          <5>1. CASE e = g
            BY <1>3, <2>2, <4>1, <5>1
          <5>2. CASE e # g
            BY <1>1, <2>0, <4>1, <5>2 DEF FiringsCoherent, OthersHold
          <5> QED BY <5>1, <5>2
        <4> QED BY <4>2, <4>3
      <3> QED BY <3>1, <3>2
    <2> QED BY <1>10, <2>0, <2>1, <2>2 DEF Handling
  <1> QED BY <1>4, <1>5, <1>6, <1>7, <1>8, <1>9, <1>10, Steps

LEMMA CallsStep ==
  ASSUME IInv, [Next]_vars
  PROVE  CallsCoherent'
  <1>1. TypeOK /\ CallsCoherent
    BY DEF IInv
  <1> DEFINE FiringNext(x) == \E f \in Firers : \E claim \in hand'[f].firing : claim.timer = x
             Settled(g) ==
        /\ store' = "memory" => call'[g].stage = "loaded" /\ call'[g].message = NoMessage
        /\ call'[g].stage \in {"reserved", "completed"} => call'[g].message # NoMessage
             Alone(g) ==
        call'[g].stage # "loaded" /\ call'[g].message # NoMessage =>
            /\ inbox'[call'[g].message] = "absent"
            /\ \A e \in Handlers \ {g} : call'[e].stage \notin {"idle", "loaded"} =>
                    call'[e].message # call'[g].message
             Owns(g) ==
        Open(g)' =>
            /\ Current(g)'
            /\ \A t \in call'[g].decision.schedule : <<call'[g].key, t>> \notin DOMAIN timers'
            /\ \A t \in call'[g].decision.cancel_timers : ~FiringNext(<<call'[g].key, t>>)
            /\ \A e \in Handlers \ {g} : Open(e)' => call'[e].key # call'[g].key
  <1> SUFFICES ASSUME NEW g \in Handlers, call'[g].stage # "idle"
               PROVE  Settled(g) /\ Alone(g) /\ Owns(g)
    BY DEF CallsCoherent, Firing
  \* The handlers stay where they are.
  <1>2. ASSUME UNCHANGED <<store, call, inbox, states>>, DOMAIN timers' = DOMAIN timers,
               \A x : (\E h \in Handlers : /\ Open(h) /\ call[h].key = x[1]
                                           /\ x[2] \in call[h].decision.cancel_timers)
                        => (FiringNext(x) => Firing(x))
        PROVE  Settled(g) /\ Alone(g) /\ Owns(g)
    <2>1. Settled(g) /\ Alone(g)
      BY <1>1, <1>2 DEF CallsCoherent
    <2>2. Owns(g)
      <3> SUFFICES ASSUME Open(g)' PROVE Owns(g)
        OBVIOUS
      <3>1. Open(g) /\ call' = call /\ \A e \in Handlers : Open(e)' <=> Open(e)
        BY <1>2 DEF Open
      <3>2. /\ Current(g)
            /\ \A t \in call[g].decision.schedule : <<call[g].key, t>> \notin DOMAIN timers
            /\ \A t \in call[g].decision.cancel_timers : ~Firing(<<call[g].key, t>>)
            /\ \A e \in Handlers \ {g} : Open(e) => call[e].key # call[g].key
        BY <1>1, <3>1 DEF CallsCoherent, Open
      <3>3. Current(g)'
        BY <1>2, <3>2 DEF Current
      <3>4. \A t \in call[g].decision.cancel_timers : ~FiringNext(<<call[g].key, t>>)
        BY <1>2, <3>1, <3>2
      <3> QED BY <1>2, <3>1, <3>2, <3>3, <3>4
    <2> QED BY <2>1, <2>2
  <1> HIDE DEF Settled, Alone, Owns
  <1>3. CASE UNCHANGED vars
    <2>1. \A x : FiringNext(x) => Firing(x)
      BY <1>3 DEF vars, Firing
    <2> QED BY <1>2, <1>3, <2>1 DEF vars
  <1>4. CASE Tick
    <2>1. \A x : FiringNext(x) => Firing(x)
      BY <1>4 DEF Tick, Firing
    <2> QED BY <1>2, <1>4, <2>1 DEF Tick
  <1>5. ASSUME NEW f \in Firers, NEW now \in Nat, NEW chosen \in SUBSET DOMAIN timers, Claiming(f, now, chosen)
        PROVE  Settled(g) /\ Alone(g) /\ Owns(g)
    <2>1. \A x : FiringNext(x) => Firing(x)
      BY <1>5 DEF Claiming, OthersHold, Firing
    <2> QED BY <1>2, <1>5, <2>1 DEF Claiming
  <1>6. ASSUME NEW f \in Firers, NEW c \in Claims, Completing(f, c)
        PROVE  Settled(g) /\ Alone(g) /\ Owns(g)
    <2>1. \A x : FiringNext(x) => Firing(x)
      BY <1>6 DEF Completing, OthersHold, Firing
    <2> QED BY <1>2, <1>6, <2>1 DEF Completing
  <1>7. ASSUME NEW f \in Firers, Handling(f)
        PROVE  Settled(g) /\ Alone(g) /\ Owns(g)
    <2>1. ASSUME NEW x, NEW h \in Handlers, Open(h), call[h].key = x[1],
                 x[2] \in call[h].decision.cancel_timers, FiringNext(x)
          PROVE  Firing(x)
      <3>1. PICK e \in Firers : \E claim \in hand'[e].firing : claim.timer = x
        BY <2>1 DEF Firing
      <3>2. CASE hand'[e].firing \subseteq hand[e].firing
        BY <3>1, <3>2 DEF Firing
      <3>3. CASE e = f /\ \A claim \in hand'[f].firing : Valid(claim) /\ ~Cancelling(claim.timer)
        <4>1. PICK claim \in hand'[f].firing : claim.timer = x
          BY <3>1, <3>3
        <4>2. ~timers[x].terminal /\ ~Cancelling(x)
          BY <3>3, <4>1 DEF Valid
        <4> QED BY <2>1, <4>2 DEF Cancelling
      <3> QED BY <1>7, <3>2, <3>3 DEF Handling, OthersHold
    <2> QED BY <1>2, <1>7, <2>1 DEF Handling
  <1>8. ASSUME NEW h \in Handlers, Deciding(h)
        PROVE  Settled(g) /\ Alone(g) /\ Owns(g)
    <2> DEFINE c == call[h]
    <2>1. g # h /\ call'[g] = call[g] /\ OthersCall(h) /\ call'[h].stage = "idle" /\ UNCHANGED <<store, hand>>
      BY <1>8 DEF Deciding, OthersCall
    <2>2. Settled(g)
      BY <1>1, <2>1 DEF Settled, CallsCoherent
    <2>3. Alone(g)
      <3> SUFFICES ASSUME call[g].stage # "loaded", call[g].message # NoMessage PROVE Alone(g)
        BY <2>1 DEF Alone
      <3>1. /\ inbox[call[g].message] = "absent"
            /\ \A e \in Handlers \ {g} : call[e].stage \notin {"idle", "loaded"} =>
                    call[e].message # call[g].message
        BY <1>1, <2>1 DEF CallsCoherent
      <3>2. call[g].message \in Messages
        BY <1>1, <2>1, CallFacts
      <3>3. call[g].message # c.message
        BY <1>8, <2>1, <3>1 DEF Deciding
      <3>4. inbox'[call[g].message] = "absent"
        BY <1>8, <3>1, <3>2, <3>3 DEF Deciding
      <3>5. \A e \in Handlers \ {g} : call'[e].stage \notin {"idle", "loaded"} =>
                call'[e].message # call[g].message
        BY <2>1, <3>1 DEF OthersCall
      <3> QED BY <2>1, <3>4, <3>5 DEF Alone
    <2>4. Owns(g)
      <3> SUFFICES ASSUME Open(g)' PROVE Owns(g)
        BY DEF Owns
      <3>1. Open(g)
        BY <2>1 DEF Open
      <3>2. /\ Current(g)
            /\ \A t \in call[g].decision.schedule : <<call[g].key, t>> \notin DOMAIN timers
            /\ \A t \in call[g].decision.cancel_timers : ~Firing(<<call[g].key, t>>)
            /\ \A e \in Handlers \ {g} : Open(e) => call[e].key # call[g].key
        BY <1>1, <3>1 DEF CallsCoherent, Open
      <3>3. call[g].key # c.key /\ call[g].key \in Keys
        BY <1>1, <1>8, <2>1, <3>1, CallFacts DEF Deciding
      <3>4. Current(g)'
        <4>1. states'[call[g].key] = states[call[g].key]
          BY <1>8, <3>3 DEF Deciding, Written
        <4> QED BY <2>1, <3>2, <4>1 DEF Current
      <3>5. \A t \in call[g].decision.schedule : <<call[g].key, t>> \notin DOMAIN timers'
        BY <1>8, <3>2, <3>3 DEF Deciding, Rescheduled
      <3>6. \A t \in call[g].decision.cancel_timers : ~FiringNext(<<call[g].key, t>>)
        BY <2>1, <3>2 DEF Firing
      <3>7. \A e \in Handlers \ {g} : Open(e)' => call'[e].key # call[g].key
        BY <2>1, <3>2 DEF Open, OthersCall
      <3> QED BY <2>1, <3>4, <3>5, <3>6, <3>7 DEF Owns
    <2> QED BY <2>2, <2>3, <2>4
  <1>9. ASSUME NEW h \in Handlers, Pausing(h)
        PROVE  Settled(g) /\ Alone(g) /\ Owns(g)
    <2>0. OthersCall(h) /\ UNCHANGED <<store, states, timers, inbox, hand>>
      BY <1>9 DEF Pausing
    <2>1. \A x : FiringNext(x) <=> Firing(x)
      BY <2>0 DEF Firing
    <2> DEFINE Idle_ == call'[h].stage = "idle"
               Loaded == call'[h].stage = "loaded" /\ (store = "memory" => call'[h].message = NoMessage)
               Reserved == /\ call'[h].stage = "reserved" /\ store # "memory"
                           /\ call'[h].message # NoMessage /\ inbox[call'[h].message] = "absent"
                           /\ ~InboxLocked(call'[h].message)
               Applied == /\ call'[h].stage = "applied" /\ store # "memory"
                          /\ (call[h].stage = "loaded" /\ call[h].message = NoMessage)
                               \/ call[h].stage = "reserved"
                          /\ call'[h].message = call[h].message /\ call'[h].key = call[h].key
                          /\ call'[h].basis = call[h].basis /\ call'[h].decision = call[h].decision
                          /\ Current(h) /\ ~ProcessLocked(call[h].key)
                          /\ \A t \in call[h].decision.schedule : <<call[h].key, t>> \notin DOMAIN timers
                          /\ \A t \in call[h].decision.cancel_timers : ~Firing(<<call[h].key, t>>)
               Completed == /\ call'[h].stage = "completed" /\ call[h].stage = "applied"
                            /\ call[h].message # NoMessage
                            /\ call'[h].message = call[h].message /\ call'[h].key = call[h].key
                            /\ call'[h].basis = call[h].basis /\ call'[h].decision = call[h].decision
    <2>2. Idle_ \/ Loaded \/ Reserved \/ Applied \/ Completed
      BY <1>9 DEF Pausing
    \* Who holds a message or a process afterwards held it before, or takes it now.
    <2>3. ASSUME NEW e \in Handlers, call'[e].stage \notin {"idle", "loaded"}, call'[e].message # NoMessage
          PROVE  \/ call[e].stage \notin {"idle", "loaded"} /\ call'[e].message = call[e].message
                 \/ e = h /\ Reserved
      BY <2>0, <2>2, <2>3 DEF OthersCall
    <2>4. ASSUME NEW e \in Handlers, Open(e)'
          PROVE  /\ call'[e].key = call[e].key
                 /\ Open(e) \/ (e = h /\ Applied)
      BY <2>0, <2>2, <2>4 DEF OthersCall, Open
    <2>5. Settled(g)
      <3>1. CASE g # h
        BY <1>1, <2>0, <3>1 DEF Settled, CallsCoherent, OthersCall
      <3>2. CASE g = h /\ ~Applied /\ ~Completed
        BY <2>0, <2>2, <3>2 DEF Settled
      <3>3. CASE g = h /\ Applied
        BY <2>0, <3>3 DEF Settled
      <3>4. CASE g = h /\ Completed
        BY <1>1, <2>0, <3>4 DEF Settled, CallsCoherent
      <3> QED BY <3>1, <3>2, <3>3, <3>4
    <2>6. Alone(g)
      <3> SUFFICES ASSUME call'[g].stage # "loaded", call'[g].message # NoMessage PROVE Alone(g)
        BY DEF Alone
      <3>1. \/ call[g].stage \notin {"idle", "loaded"} /\ call'[g].message = call[g].message
            \/ g = h /\ Reserved
        BY <2>3
      <3>2. CASE call[g].stage \notin {"idle", "loaded"} /\ call'[g].message = call[g].message
        <4>1. /\ inbox[call[g].message] = "absent"
              /\ \A e \in Handlers \ {g} : call[e].stage \notin {"idle", "loaded"} =>
                    call[e].message # call[g].message
          BY <1>1, <3>2 DEF CallsCoherent
        <4>2. ASSUME NEW e \in Handlers \ {g}, call'[e].stage \notin {"idle", "loaded"},
                     call'[e].message = call'[g].message
              PROVE  FALSE
          <5>1. CASE call[e].stage \notin {"idle", "loaded"} /\ call'[e].message = call[e].message
            BY <3>2, <4>1, <4>2, <5>1
          <5>2. CASE e = h /\ Reserved
            BY <3>2, <4>2, <5>2 DEF InboxLocked
          <5> QED BY <2>3, <4>2, <5>1, <5>2
        <4> QED BY <2>0, <3>2, <4>1, <4>2 DEF Alone
      <3>3. CASE g = h /\ Reserved
        <4>1. ASSUME NEW e \in Handlers \ {g}, call'[e].stage \notin {"idle", "loaded"},
                     call'[e].message = call'[g].message
              PROVE  FALSE
          <5>1. call'[e] = call[e]
            BY <2>0, <3>3, <4>1 DEF OthersCall
          <5> QED BY <3>3, <4>1, <5>1 DEF InboxLocked
        <4> QED BY <2>0, <3>3, <4>1 DEF Alone
      <3> QED BY <3>1, <3>2, <3>3
    <2>7. Owns(g)
      <3> SUFFICES ASSUME Open(g)' PROVE Owns(g)
        BY DEF Owns
      <3> DEFINE Held == /\ Current(g)
                         /\ \A t \in call[g].decision.schedule : <<call[g].key, t>> \notin DOMAIN timers
                         /\ \A t \in call[g].decision.cancel_timers : ~Firing(<<call[g].key, t>>)
                         /\ \A e \in Handlers \ {g} : Open(e) => call[e].key # call[g].key
      <3>1. Held
        <4>1. CASE Open(g)
          BY <1>1, <4>1 DEF CallsCoherent, Open
        <4>2. CASE g = h /\ Applied
          BY <4>2 DEF ProcessLocked
        <4> QED BY <2>4, <4>1, <4>2
      <3>2. /\ call'[g].key = call[g].key /\ call'[g].basis = call[g].basis
            /\ call'[g].decision = call[g].decision
        <4>1. CASE g # h
          BY <2>0, <4>1 DEF OthersCall
        <4>2. CASE g = h
          BY <2>2, <4>2 DEF Open
        <4> QED BY <4>1, <4>2
      <3>3. Current(g)'
        BY <2>0, <3>1, <3>2 DEF Current
      <3>4. ASSUME NEW e \in Handlers \ {g}, Open(e)' PROVE call'[e].key # call'[g].key
        <4>1. CASE Open(e)
          BY <2>4, <3>1, <3>2, <3>4, <4>1
        <4>2. CASE e = h /\ Applied
          <5>1. Open(g)
            BY <2>4, <3>4, <4>2
          <5> QED BY <3>2, <4>2, <5>1 DEF ProcessLocked
        <4> QED BY <2>4, <3>4, <4>1, <4>2
      <3> QED BY <2>0, <2>1, <3>1, <3>2, <3>3, <3>4 DEF Owns
    <2> QED BY <2>5, <2>6, <2>7
  <1> QED BY <1>3, <1>4, <1>5, <1>6, <1>7, <1>8, <1>9, Steps

\* TimerEndsOnce, part by part.
ScheduledOnce ==
    \A x \in Keys \X TimerIds :
        /\ x \in DOMAIN timers <=> ScheduledBy(x) # {}
        /\ \A i, j \in ScheduledBy(x) : i = j

CancelledLater(x) == \E i \in ScheduledBy(x), j \in CancelledBy(x) : i < j

EndExplained(x) ==
    timers[x].terminal <=> (\E claim \in fired : claim.timer = x) \/ CancelledLater(x)

FiredOnce ==
    /\ \A claim, other \in fired : claim.timer = other.timer => claim = other
    /\ \A claim \in fired :
        /\ claim.timer \in DOMAIN timers
        /\ claim.token = timers[claim.timer].fencing_token

\* The decisions that scheduled or cancelled a timer, after one more decision.
LEMMA SchedulesAfter ==
  ASSUME TypeOK, NEW h \in Handlers, Written(h), NEW x \in Keys \X TimerIds, NEW i
  PROVE  LET q == call[h].key
             n == Len(log[q])
             d == call[h].decision
         IN
         /\ i \in ScheduledBy(x)' <=>
                i \in ScheduledBy(x) \/ (x[1] = q /\ i = n + 1 /\ x[2] \in d.schedule)
         /\ i \in CancelledBy(x)' <=>
                i \in CancelledBy(x) \/ (x[1] = q /\ i = n + 1 /\ x[2] \in d.cancel_timers)
         /\ i \in ScheduledBy(x) \cup CancelledBy(x) => i \in Nat /\ (x[1] = q => i < n + 1)
  <1> DEFINE q == call[h].key
             n == Len(log[q])
             d == call[h].decision
             k == x[1]
  <1>1. q \in Keys /\ n \in Nat /\ log'[q][n + 1].decision = d /\ k \in Keys
    BY DEF Written
  <1>2. /\ i \in 1..Len(log'[k]) <=> i \in 1..Len(log[k]) \/ (k = q /\ i = n + 1)
        /\ i \in 1..Len(log[k]) => log'[k][i] = log[k][i] /\ ~(k = q /\ i = n + 1)
    BY <1>1, EntriesAfter
  <1>3. i \in ScheduledBy(x)' <=> i \in 1..Len(log'[k]) /\ x[2] \in log'[k][i].decision.schedule
    BY DEF ScheduledBy
  <1>4. i \in CancelledBy(x)' <=> i \in 1..Len(log'[k]) /\ x[2] \in log'[k][i].decision.cancel_timers
    BY DEF CancelledBy
  <1>5. i \in ScheduledBy(x) <=> i \in 1..Len(log[k]) /\ x[2] \in log[k][i].decision.schedule
    BY DEF ScheduledBy
  <1>6. i \in CancelledBy(x) <=> i \in 1..Len(log[k]) /\ x[2] \in log[k][i].decision.cancel_timers
    BY DEF CancelledBy
  <1>7. i \in 1..Len(log[k]) => i \in Nat /\ (k = q => i < n + 1)
    <2> SUFFICES ASSUME i \in 1..Len(log[k]) PROVE i \in Nat /\ (k = q => i < n + 1)
      OBVIOUS
    <2>1. log[k] \in Seq(Entries)
      BY <1>1 DEF TypeOK
    <2>2. Len(log[k]) \in Nat
      BY <2>1
    <2>3. i \in Nat /\ i <= Len(log[k])
      BY <2>2
    <2> QED BY <1>1, <2>2, <2>3
  <1> HIDE DEF q, n, d, k
  <1>8. /\ i \in ScheduledBy(x)' <=> i \in ScheduledBy(x) \/ (k = q /\ i = n + 1 /\ x[2] \in d.schedule)
        /\ i \in CancelledBy(x)' <=>
                i \in CancelledBy(x) \/ (k = q /\ i = n + 1 /\ x[2] \in d.cancel_timers)
    BY <1>1, <1>2, <1>3, <1>4, <1>5, <1>6
  <1>9. i \in ScheduledBy(x) \cup CancelledBy(x) => i \in Nat /\ (k = q => i < n + 1)
    BY <1>5, <1>6, <1>7
  <1> QED BY <1>8, <1>9 DEF q, n, d, k

LEMMA TimersStep ==
  ASSUME IInv, [Next]_vars
  PROVE  /\ ScheduledOnce'
         /\ \A x \in DOMAIN timers' : EndExplained(x)'
         /\ FiredOnce'
  <1>1. TypeOK /\ DOMAIN timers \subseteq Keys \X TimerIds
    BY DEF IInv, TypeOK
  <1>2. ScheduledOnce /\ (\A x \in DOMAIN timers : EndExplained(x)) /\ FiredOnce
    BY DEF IInv, TimerEndsOnce, ScheduledOnce, EndExplained, CancelledLater, FiredOnce
  <1> DEFINE Goal == ScheduledOnce' /\ (\A x \in DOMAIN timers' : EndExplained(x)') /\ FiredOnce'
  <1>3. ASSUME UNCHANGED <<timers, log, fired>> PROVE Goal
    BY <1>2, <1>3 DEF ScheduledOnce, EndExplained, CancelledLater, FiredOnce, ScheduledBy, CancelledBy
  <1>4. ASSUME log' = log
        PROVE  /\ \A x : ScheduledBy(x)' = ScheduledBy(x) /\ CancelledBy(x)' = CancelledBy(x)
               /\ \A x : CancelledLater(x)' <=> CancelledLater(x)
               /\ DOMAIN timers' = DOMAIN timers => ScheduledOnce'
    <2>1. \A x : ScheduledBy(x)' = ScheduledBy(x) /\ CancelledBy(x)' = CancelledBy(x)
      BY <1>4 DEF ScheduledBy, CancelledBy
    <2>2. \A x : CancelledLater(x)' <=> CancelledLater(x)
      BY <1>4 DEF CancelledLater, ScheduledBy, CancelledBy
    <2>3. DOMAIN timers' = DOMAIN timers => ScheduledOnce'
      BY <1>2, <2>1 DEF ScheduledOnce
    <2> QED BY <2>1, <2>2, <2>3
  <1>5. ASSUME NEW f \in Firers, NEW now \in Nat, NEW chosen \in SUBSET DOMAIN timers, Claiming(f, now, chosen)
        PROVE  Goal
    <2>1. /\ DOMAIN timers' = DOMAIN timers /\ log' = log /\ fired' = fired
          /\ \A x \in DOMAIN timers : timers'[x].terminal <=> timers[x].terminal
          /\ \A x \in DOMAIN timers : timers[x].terminal => timers'[x] = timers[x]
      BY <1>5 DEF Claiming
    <2>2. \A x \in DOMAIN timers' : EndExplained(x)'
      BY <1>2, <1>4, <2>1 DEF EndExplained
    <2>3. \A claim \in fired : claim.timer \in DOMAIN timers /\ timers[claim.timer].terminal
      BY <1>2 DEF FiredOnce, EndExplained
    <2>4. FiredOnce'
      BY <1>2, <2>1, <2>3 DEF FiredOnce
    <2> QED BY <1>4, <2>1, <2>2, <2>4
  <1>6. ASSUME NEW f \in Firers, NEW c \in Claims, Completing(f, c) PROVE Goal
    <2>1. /\ c.timer \in DOMAIN timers /\ ~timers[c.timer].terminal
          /\ DOMAIN timers' = DOMAIN timers /\ log' = log /\ fired' = fired \cup {c}
          /\ \A y \in DOMAIN timers : y # c.timer => timers'[y] = timers[y]
          /\ timers'[c.timer].terminal /\ timers'[c.timer].fencing_token = c.token
      BY <1>6 DEF Completing
    <2>2. ASSUME NEW x \in DOMAIN timers PROVE EndExplained(x)'
      <3>1. CASE x = c.timer
        BY <2>1, <3>1 DEF EndExplained
      <3>2. CASE x # c.timer
        <4>1. (\E claim \in fired' : claim.timer = x) <=> (\E claim \in fired : claim.timer = x)
          BY <2>1, <3>2
        <4> QED BY <1>2, <1>4, <2>1, <3>2, <4>1 DEF EndExplained
      <3> QED BY <3>1, <3>2
    <2>3. \A claim \in fired : claim.timer # c.timer
      BY <1>2, <2>1 DEF FiredOnce, EndExplained
    <2>4. FiredOnce'
      BY <1>2, <2>1, <2>3 DEF FiredOnce
    <2> QED BY <1>4, <2>1, <2>2, <2>4
  <1>7. ASSUME NEW h \in Handlers, Deciding(h) PROVE Goal
    <2> DEFINE k == call[h].key
               n == Len(log[k])
               d == call[h].decision
    <2>1. /\ Written(h) /\ Rescheduled(k, d) /\ fired' = fired
          /\ \A t \in d.schedule : <<k, t>> \notin DOMAIN timers
          /\ k \in Keys /\ d \in Decisions /\ n \in Nat
      BY <1>7 DEF Deciding, Written
    <2>2. d.schedule \subseteq TimerIds /\ d.schedule \cap d.cancel_timers = {}
      BY <2>1, DecisionFacts
    <2>3. \A x \in Keys \X TimerIds : \A i :
            /\ i \in ScheduledBy(x)' <=>
                    i \in ScheduledBy(x) \/ (x[1] = k /\ i = n + 1 /\ x[2] \in d.schedule)
            /\ i \in CancelledBy(x)' <=>
                    i \in CancelledBy(x) \/ (x[1] = k /\ i = n + 1 /\ x[2] \in d.cancel_timers)
            /\ i \in ScheduledBy(x) \cup CancelledBy(x) => i \in Nat /\ (x[1] = k => i < n + 1)
      BY <1>1, <2>1, SchedulesAfter
    <2>4. /\ DOMAIN timers' = DOMAIN timers \cup {<<k, t>> : t \in d.schedule}
          /\ \A t \in d.schedule : ~timers'[<<k, t>>].terminal
          /\ \A x \in DOMAIN timers :
                /\ timers'[x].fencing_token = timers[x].fencing_token
                /\ x[1] = k /\ x[2] \in d.cancel_timers => timers'[x].terminal
                /\ ~(x[1] = k /\ x[2] \in d.cancel_timers) => timers'[x] = timers[x]
      BY <2>1 DEF Rescheduled
    <2> HIDE DEF k, n, d
    <2>5. \A x \in Keys \X TimerIds : x[1] = k /\ x[2] \in d.schedule => x \notin DOMAIN timers
      BY <2>1
    <2>6. ScheduledOnce'
      <3> SUFFICES ASSUME NEW x \in Keys \X TimerIds
                   PROVE  /\ x \in DOMAIN timers' <=> ScheduledBy(x)' # {}
                          /\ \A i, j \in ScheduledBy(x)' : i = j
        BY DEF ScheduledOnce
      <3>1. /\ x \in DOMAIN timers <=> ScheduledBy(x) # {}
            /\ \A i, j \in ScheduledBy(x) : i = j
        BY <1>2 DEF ScheduledOnce
      <3>2. CASE x[1] = k /\ x[2] \in d.schedule
        <4>1. x \in DOMAIN timers'
          BY <2>4, <3>2
        <4>2. ScheduledBy(x) = {}
          BY <2>5, <3>1, <3>2
        <4>3. ScheduledBy(x)' = {n + 1}
          BY <2>3, <3>2, <4>2
        <4> QED BY <4>1, <4>3
      <3>3. CASE ~(x[1] = k /\ x[2] \in d.schedule)
        <4>1. x \in DOMAIN timers' <=> x \in DOMAIN timers
          BY <2>4, <3>3
        <4>2. ScheduledBy(x)' = ScheduledBy(x)
          BY <2>3, <3>3
        <4> QED BY <3>1, <4>1, <4>2
      <3> QED BY <3>2, <3>3
    <2>7. \A x \in DOMAIN timers' : EndExplained(x)'
      <3> SUFFICES ASSUME NEW x \in DOMAIN timers' PROVE EndExplained(x)'
        OBVIOUS
      <3>1. x \in Keys \X TimerIds
        BY <1>1, <2>1, <2>2, <2>4
      <3>2. CASE x \in DOMAIN timers
        <4>1. ~(x[1] = k /\ x[2] \in d.schedule)
          BY <2>5, <3>1, <3>2
        <4>2. ScheduledBy(x)' = ScheduledBy(x)
          BY <2>3, <3>1, <4>1
        <4>3. CASE x[1] = k /\ x[2] \in d.cancel_timers
          <5>1. PICK i : i \in ScheduledBy(x)
            BY <1>2, <3>1, <3>2 DEF ScheduledOnce
          <5>2. i < n + 1 /\ n + 1 \in CancelledBy(x)'
            BY <2>3, <3>1, <4>3, <5>1
          <5>3. CancelledLater(x)'
            BY <4>2, <5>1, <5>2 DEF CancelledLater
          <5>4. timers'[x].terminal
            BY <2>4, <3>2, <4>3
          <5> QED BY <5>3, <5>4 DEF EndExplained
        <4>4. CASE ~(x[1] = k /\ x[2] \in d.cancel_timers)
          <5>1. CancelledBy(x)' = CancelledBy(x)
            BY <2>3, <3>1, <4>4
          <5>2. CancelledLater(x)' <=> CancelledLater(x)
            BY <4>2, <5>1 DEF CancelledLater
          <5>3. timers'[x] = timers[x]
            BY <2>4, <3>2, <4>4
          <5> QED BY <1>2, <2>1, <3>2, <5>2, <5>3 DEF EndExplained
        <4> QED BY <4>3, <4>4
      <3>3. CASE x \notin DOMAIN timers
        <4>1. x[1] = k /\ x[2] \in d.schedule /\ ~timers'[x].terminal
          BY <2>4, <3>3
        <4>2. ScheduledBy(x) = {}
          BY <1>2, <3>1, <3>3 DEF ScheduledOnce
        <4>3. ASSUME NEW i \in ScheduledBy(x)', NEW j \in CancelledBy(x)' PROVE ~(i < j)
          <5>1. i = n + 1
            BY <2>3, <3>1, <4>2
          <5>2. j \in CancelledBy(x)
            BY <2>2, <2>3, <3>1, <4>1
          <5>3. j \in Nat /\ j < n + 1
            BY <2>3, <3>1, <4>1, <5>2
          <5> QED BY <2>1, <5>1, <5>3
        <4>4. ~CancelledLater(x)'
          BY <4>3 DEF CancelledLater
        <4>5. ~\E claim \in fired' : claim.timer = x
          BY <1>2, <2>1, <3>3 DEF FiredOnce
        <4> QED BY <4>1, <4>4, <4>5 DEF EndExplained
      <3> QED BY <3>2, <3>3
    <2>8. FiredOnce'
      BY <1>2, <2>1, <2>4 DEF FiredOnce
    <2> QED BY <2>6, <2>7, <2>8
  <1>8. \/ UNCHANGED <<timers, log, fired>>
        \/ \E h \in Handlers : Deciding(h)
        \/ \E f \in Firers, now \in Nat : \E chosen \in SUBSET DOMAIN timers : Claiming(f, now, chosen)
        \/ \E f \in Firers : \E claim \in Claims : Completing(f, claim)
    BY Steps DEF vars, Tick, Pausing, Handling
  <1> QED BY <1>3, <1>5, <1>6, <1>7, <1>8

LEMMA ClaimLasts == ClaimsCoherent => ClaimExclusive
  BY DEF ClaimsCoherent, ClaimExclusive, Valid, Unexpired

----------------------------------------------------------------------------
LEMMA InvInit == Init => IInv
  <1> SUFFICES ASSUME Init PROVE IInv
    OBVIOUS
  <1>1. Idle.stage = "idle" /\ Holding({}).claims = {} /\ Holding({}).firing = {}
    BY DEF Idle, Holding
  <1>2. /\ \A h \in Handlers : call[h].stage = "idle"
        /\ \A f \in Firers : hand[f].claims = {} /\ hand[f].firing = {}
        /\ \A k \in Keys : log[k] = << >> /\ Len(log[k]) = 0 /\ 1..Len(log[k]) = {}
        /\ DOMAIN timers = {} /\ fired = {} /\ effects = {}
    BY <1>1 DEF Init
  <1>3. Holding({}) \in Hands /\ << >> \in Seq(Entries)
    BY DEF Holding, Hands
  <1>4. TypeOK
    BY <1>2, <1>3 DEF Init, TypeOK
  <1>5. NoLostUpdate /\ InputOnce /\ EffectsExact
    BY <1>2 DEF Init, NoLostUpdate, InputOnce, EffectsExact
  <1>6. CallsCoherent /\ ClaimsCoherent /\ FiringsCoherent
    BY <1>2 DEF CallsCoherent, ClaimsCoherent, FiringsCoherent
  <1>7. \A x \in Keys \X TimerIds : ScheduledBy(x) = {}
    BY <1>2 DEF ScheduledBy
  <1>8. TimerEndsOnce
    BY <1>2, <1>6, <1>7, ClaimLasts DEF TimerEndsOnce
  <1> QED BY <1>4, <1>5, <1>6, <1>8 DEF IInv

LEMMA InvStep == IInv /\ [Next]_vars => IInv'
  <1> SUFFICES ASSUME IInv, [Next]_vars PROVE IInv'
    OBVIOUS
  <1>1. TypeOK' /\ NoLostUpdate' /\ InputOnce' /\ EffectsExact'
    BY TypeStep, NoLostUpdateStep, InputOnceStep, EffectsStep
  <1>2. CallsCoherent' /\ ClaimsCoherent' /\ FiringsCoherent'
    BY CallsStep, ClaimsStep, FiringsStep
  <1>3. ClaimExclusive'
    BY <1>2, ClaimLasts, PTL
  <1>4. ScheduledOnce' /\ (\A x \in DOMAIN timers' : EndExplained(x)') /\ FiredOnce'
    BY TimersStep
  <1>5. TimerEndsOnce'
    BY <1>3, <1>4 DEF TimerEndsOnce, ScheduledOnce, EndExplained, CancelledLater, FiredOnce
  <1> QED BY <1>1, <1>2, <1>5 DEF IInv

\* Every reachable state of the process store is coherent: what handlers and firers hold
\* between their reads and their commits (processes.py, sqlalchemy/workflows.py) still
\* fits the rows they will write.
THEOREM Invariance == Spec => []IInv
  BY InvInit, InvStep, PTL DEF Spec

\* apply() compares the version it loaded (processes.py) or updates the row only at that
\* version (workflows.py): no decision overwrites another, for any number of handlers and
\* processes, and however late a transaction commits.
THEOREM NoLostUpdateTheorem == Spec => []NoLostUpdate
  <1>1. IInv => NoLostUpdate
    BY DEF IInv
  <1> QED BY <1>1, Invariance, PTL

\* apply_message() (workflows.py) and the inbox (sqlalchemy/stores.py): the inbox holds
\* exactly the messages whose decisions were committed, and each was applied once,
\* whatever fails between reservation, apply, complete and commit.
THEOREM InputOnceTheorem == Spec => []InputOnce
  <1>1. IInv => InputOnce
    BY DEF IInv
  <1> QED BY <1>1, Invariance, PTL

\* claim_timers(), complete_timer() and the cancellations of apply(): a timer has one
\* origin and at most one completion, carried by its last token, and a claim inside its
\* ttl is the timer's only one.
THEOREM TimerEndsOnceTheorem == Spec => []TimerEndsOnce
  <1>1. IInv => TimerEndsOnce
    BY DEF IInv
  <1> QED BY <1>1, Invariance, PTL

\* The effects saved by apply() and complete_timer() are those of committed decisions and
\* of completed timers, all of them and no other.
THEOREM EffectsExactTheorem == Spec => []EffectsExact
  <1>1. IInv => EffectsExact
    BY DEF IInv
  <1> QED BY <1>1, Invariance, PTL
=============================================================================
