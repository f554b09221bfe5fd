------------------------- MODULE IdempotencyProofs -------------------------
(***************************************************************************)
(* The idempotency store keeps its promises for every number of threads,   *)
(* identities and tokens, every capacity and every policy.                 *)
(*                                                                         *)
(* The inductive invariant IInv adds EntryPromised to the properties: a    *)
(* live entry carries exactly what the holder of its token was told.  It   *)
(* is what turns "expires_at <= now <= clock" of a removed entry into      *)
(* "the holder's lease is over".                                           *)
(***************************************************************************)
EXTENDS Idempotency, TLAPS

\* The initial state, with empty dictionaries and no call in flight.
LEMMA InitIInv == Init => IInv
  BY PolicyAssumption DEF Init, IInv, TypeOK, TokenIndexExact, EntryPromised,
     AuthorityHonoured, RetentionHonoured, ReplayFaithful, Issued, NoCall, NoDecision

\* Executing(t, now) pins down the reserved entry behind the token.
LEMMA ExecutingFacts ==
  ASSUME IInv, NEW t, NEW now, Executing(t, now)
  PROVE  /\ t \in DOMAIN tokens /\ t \in Tokens /\ t \in Issued
         /\ tokens[t] \in DOMAIN entries /\ tokens[t] \in Identities
         /\ entries[tokens[t]] \in Entry
         /\ entries[tokens[t]].token = t
         /\ entries[tokens[t]].state = "reserved"
         /\ promise[t] \in Promise
         /\ promise[t].identity = tokens[t]
         /\ promise[t].phase = "executing"
         /\ promise[t].fingerprint = entries[tokens[t]].fingerprint
         /\ promise[t].until = entries[tokens[t]].expires_at
         /\ promise[t].value = entries[tokens[t]].value
  BY DEF IInv, TypeOK, TokenIndexExact, EntryPromised, Executing, Issued

\* Removing entries that expired by an instant of the past, together with
\* their tokens, keeps every promise: what both _purge and purge() do.
LEMMA DropExpired ==
  ASSUME IInv, NEW now \in Nat, now <= clock,
         NEW S \in SUBSET DOMAIN entries,
         \A i \in S : entries[i].expires_at <= now,
         NEW kept, kept = Drop(entries, S),
         NEW index, index = Drop(tokens, TokensOf(S))
  PROVE  /\ DOMAIN kept = DOMAIN entries \ S
         /\ \A i \in DOMAIN kept : kept[i] = entries[i]
         /\ DOMAIN index \subseteq DOMAIN tokens
         /\ \A t \in DOMAIN index : index[t] = tokens[t]
         /\ \A i \in DOMAIN kept : kept[i].token \in DOMAIN index
         /\ \A t \in DOMAIN index : index[t] \in DOMAIN kept
         /\ \A t \in Issued :
               clock < promise[t].until
                 /\ promise[t].phase \in {"executing", "completed"}
                 => /\ promise[t].identity \in DOMAIN entries \ S
                    /\ entries[promise[t].identity].token = t
  <1>1. /\ DOMAIN kept = DOMAIN entries \ S
        /\ \A i \in DOMAIN kept : kept[i] = entries[i]
        /\ DOMAIN index = DOMAIN tokens \ TokensOf(S)
        /\ \A t \in DOMAIN index : index[t] = tokens[t]
    BY DEF Drop
  <1>2. \A i \in DOMAIN kept : kept[i].token \in DOMAIN index
    BY <1>1 DEF IInv, TokenIndexExact, TokensOf
  <1>3. \A t \in DOMAIN index : index[t] \in DOMAIN kept
    BY <1>1 DEF IInv, TokenIndexExact, TokensOf
  <1>4. ASSUME NEW t \in Issued, clock < promise[t].until,
               promise[t].phase \in {"executing", "completed"}
        PROVE  /\ promise[t].identity \in DOMAIN entries \ S
               /\ entries[promise[t].identity].token = t
    <2>1. /\ promise[t].identity \in DOMAIN entries
          /\ entries[promise[t].identity].token = t
      BY <1>4 DEF IInv, AuthorityHonoured, RetentionHonoured
    <2>2. promise[t].until = entries[promise[t].identity].expires_at
      BY <2>1 DEF IInv, EntryPromised
    <2>3. promise[t].until \in Nat /\ clock \in Nat
      BY <1>4 DEF IInv, TypeOK, Promise, Issued
    <2>4. promise[t].identity \notin S
      BY <1>4, <2>2, <2>3
    <2> QED BY <2>1, <2>4
  <1> QED BY <1>1, <1>2, <1>3, <1>4

\* The thread's call in flight is well typed and its `now` lies in the past.
LEMMA CallFacts ==
  ASSUME IInv, NEW c \in Threads, call[c] # NoCall
  PROVE  /\ call[c] \in ReserveCall \cup TokenCall
         /\ call[c].now \in Nat
         /\ call[c].now <= clock
  BY DEF IInv, TypeOK, ReserveCall, TokenCall

\* Taking a call into flight touches neither the store nor a promise.
LEMMA CallStep ==
  ASSUME IInv, NEW c \in Threads, NEW r \in ReserveCall \cup TokenCall,
         r.now = clock, Call(c, r)
  PROVE  IInv'
  <1>1. UNCHANGED <<entries, tokens, clock, promise>>
    BY DEF Call
  <1>2. TypeOK'
    <2>1. call' \in [Threads -> {NoCall} \cup ReserveCall \cup TokenCall]
      BY DEF Call, IInv, TypeOK
    <2>2. \A d \in Threads : call'[d] # NoCall => call'[d].now <= clock'
      BY <1>1 DEF Call, IInv, TypeOK
    <2>3. decision' \in [Threads -> {NoDecision} \cup Refused \cup Executed \cup Replayed]
      BY DEF Call, IInv, TypeOK
    <2> QED BY <1>1, <2>1, <2>2, <2>3 DEF IInv, TypeOK
  <1>3. ReplayFaithful'
    <2> SUFFICES ASSUME NEW d \in Threads, decision'[d].kind = "Replay"
                 PROVE  decision'[d] = decision[d]
      BY <1>1, SMTT(20) DEF IInv, ReplayFaithful, Issued
    <2> QED BY DEF Call, IInv, TypeOK, NoDecision
  <1> QED
    BY <1>1, <1>2, <1>3 DEF IInv, TokenIndexExact, EntryPromised, AuthorityHonoured,
       RetentionHonoured, Issued

\* A store step that answers thread c's token call.
LEMMA TokenStepType ==
  ASSUME IInv, NEW c \in Threads, NEW op, TokenStep(c, op)
  PROVE  /\ clock' = clock
         /\ decision' = decision
         /\ call' \in [Threads -> {NoCall} \cup ReserveCall \cup TokenCall]
         /\ \A d \in Threads : call'[d] # NoCall => call'[d].now <= clock'
  BY DEF IInv, TypeOK, TokenStep

\* A refused (StaleReservation) token call changes nothing but the call.
LEMMA StaleStep ==
  ASSUME IInv, NEW c \in Threads, NEW op, TokenStep(c, op), Stale
  PROVE  IInv'
  BY TokenStepType DEF Stale, IInv, TypeOK, TokenIndexExact, EntryPromised,
     AuthorityHonoured, RetentionHonoured, ReplayFaithful, Issued

\* Two dictionaries that differ in one value only.
DiffersAt(f, g, k) ==
    /\ DOMAIN g = DOMAIN f
    /\ \A x \in DOMAIN f : x # k => g[x] = f[x]

\* The three transitions of an executing reservation in place (renew, complete,
\* mark_uncertain) rewrite the entry and the promise alike.
LEMMA TransitionStep ==
  ASSUME IInv, NEW c \in Threads, NEW op, TokenStep(c, op),
         NEW t, NEW now \in Nat, Executing(t, now),
         DiffersAt(entries, entries', tokens[t]),
         DiffersAt(promise, promise', t),
         LET e == entries'[tokens[t]]
             p == promise'[t]
         IN /\ e \in Entry
            /\ p \in Promise
            /\ e.token = t
            /\ e.fingerprint = entries[tokens[t]].fingerprint
            /\ p.identity = tokens[t]
            /\ p.fingerprint = e.fingerprint
            /\ p.until = e.expires_at
            /\ p.value = e.value
            /\ p.phase = IF e.state = "reserved" THEN "executing" ELSE e.state,
         tokens' = tokens
  PROVE  IInv'
  <1> DEFINE i == tokens[t]
  <1>1. /\ t \in DOMAIN tokens /\ t \in Tokens /\ t \in Issued
        /\ i \in DOMAIN entries /\ i \in Identities
        /\ entries[i].token = t
        /\ promise[t].identity = i
        /\ promise[t].phase = "executing"
    BY ExecutingFacts
  <1>2. /\ DOMAIN entries' = DOMAIN entries
        /\ \A j \in DOMAIN entries : j # i => entries'[j] = entries[j]
    BY DEF DiffersAt
  <1>3. /\ DOMAIN promise' = DOMAIN promise
        /\ \A u \in DOMAIN promise : u # t => promise'[u] = promise[u]
    BY DEF DiffersAt
  <1>4. \A j \in DOMAIN entries : j # i => entries[j].token # t
    BY <1>1 DEF IInv, TokenIndexExact
  <1>5. TypeOK'
    BY <1>1, <1>2, <1>3, TokenStepType DEF IInv, TypeOK
  <1>6. TokenIndexExact'
    BY <1>1, <1>2, <1>4 DEF IInv, TokenIndexExact
  <1>7. EntryPromised'
    <2> SUFFICES ASSUME NEW j \in DOMAIN entries
                 PROVE  LET u == entries'[j].token IN
                        /\ u \in Issued'
                        /\ promise'[u].identity = j
                        /\ promise'[u].fingerprint = entries'[j].fingerprint
                        /\ promise'[u].until = entries'[j].expires_at
                        /\ promise'[u].value = entries'[j].value
                        /\ promise'[u].phase = IF entries'[j].state = "reserved"
                                               THEN "executing" ELSE entries'[j].state
      BY <1>2 DEF EntryPromised
    <2>1. CASE j = i
      BY <1>1, <1>2, <1>3, <2>1 DEF Issued
    <2>2. CASE j # i
      BY <1>2, <1>3, <1>4, <2>2 DEF IInv, EntryPromised, Issued
    <2> QED BY <2>1, <2>2
  <1>8. \A u \in Issued : u # t /\ promise[u].identity \in DOMAIN entries
            /\ entries[promise[u].identity].token = u => promise[u].identity # i
    BY <1>1
  <1>9. promise'[t].phase = "executing" => entries'[i].state = "reserved"
    BY DEF Entry
  <1>10. promise'[t].phase = "completed" => entries'[i].state = "completed"
    BY DEF Entry
  <1>11. AuthorityHonoured'
    BY <1>1, <1>2, <1>3, <1>8, <1>9, TokenStepType DEF IInv, AuthorityHonoured, Issued
  <1>12. RetentionHonoured'
    BY <1>1, <1>2, <1>3, <1>8, <1>10, TokenStepType DEF IInv, RetentionHonoured, Issued
  <1>13. ReplayFaithful'
    BY <1>1, <1>3, TokenStepType DEF IInv, ReplayFaithful, Issued
  <1> QED BY <1>5, <1>6, <1>7, <1>11, <1>12, <1>13 DEF IInv

\* A renewal moves the lease of the executing reservation only.
LEMMA RenewStep ==
  ASSUME IInv, NEW c \in Threads, Renew(c)
  PROVE  IInv'
  <1> DEFINE t == call[c].token
             now == call[c].now
  <1>1. TokenStep(c, "renew") /\ call[c] # NoCall
    BY DEF Renew, TokenStep
  <1>2. now \in Nat /\ now + LeaseTtl \in Nat
    BY <1>1, CallFacts, PolicyAssumption
  <1>3. CASE ~Executing(t, now)
    BY <1>1, <1>3, StaleStep DEF Renew
  <1>4. CASE Executing(t, now)
    <2> DEFINE e == entries[tokens[t]]
               p == promise[t]
    <2>1. /\ entries' = [entries EXCEPT ![tokens[t]] = [@ EXCEPT !.expires_at = now + LeaseTtl]]
          /\ promise' = [promise EXCEPT ![t] = [@ EXCEPT !.until = now + LeaseTtl]]
          /\ tokens' = tokens
      BY <1>4 DEF Renew
    <2>2. /\ e \in Entry /\ p \in Promise
          /\ tokens[t] \in DOMAIN entries /\ t \in DOMAIN promise
          /\ e.token = t /\ e.state = "reserved"
          /\ p.identity = tokens[t] /\ p.fingerprint = e.fingerprint
          /\ p.phase = "executing" /\ p.value = e.value
      BY <1>4, ExecutingFacts DEF Issued
    <2>3. DiffersAt(entries, entries', tokens[t]) /\ DiffersAt(promise, promise', t)
      BY <2>1 DEF DiffersAt
    <2>4. /\ entries'[tokens[t]] = [e EXCEPT !.expires_at = now + LeaseTtl]
          /\ promise'[t] = [p EXCEPT !.until = now + LeaseTtl]
      BY <2>1, <2>2
    <2>5. /\ entries'[tokens[t]] \in Entry
          /\ promise'[t] \in Promise
          /\ entries'[tokens[t]].token = t
          /\ entries'[tokens[t]].fingerprint = e.fingerprint
          /\ entries'[tokens[t]].expires_at = now + LeaseTtl
          /\ entries'[tokens[t]].state = "reserved"
          /\ entries'[tokens[t]].value = e.value
          /\ promise'[t].identity = tokens[t]
          /\ promise'[t].fingerprint = e.fingerprint
          /\ promise'[t].until = now + LeaseTtl
          /\ promise'[t].phase = "executing"
          /\ promise'[t].value = e.value
      BY <1>2, <2>2, <2>4 DEF Entry, Promise
    <2> HIDE DEF e, p
    <2> QED BY <1>1, <1>2, <1>4, <2>1, <2>3, <2>5, TransitionStep DEF e
  <1> QED BY <1>3, <1>4

\* A completion publishes the value under the executing reservation.
LEMMA CompleteStep ==
  ASSUME IInv, NEW c \in Threads, NEW v \in Values, Complete(c, v)
  PROVE  IInv'
  <1> DEFINE t == call[c].token
             now == call[c].now
  <1>1. TokenStep(c, "complete") /\ call[c] # NoCall
    BY DEF Complete, TokenStep
  <1>2. now \in Nat /\ now + RetentionTtl \in Nat
    BY <1>1, CallFacts, PolicyAssumption
  <1>3. CASE ~Executing(t, now)
    BY <1>1, <1>3, StaleStep DEF Complete
  <1>4. CASE Executing(t, now)
    <2> DEFINE e == entries[tokens[t]]
               p == promise[t]
    <2>1. /\ entries' = [entries EXCEPT ![tokens[t]] = [@ EXCEPT !.state = "completed", !.value = v, !.expires_at = now + RetentionTtl]]
          /\ promise' = [promise EXCEPT ![t] = [@ EXCEPT !.phase = "completed", !.value = v, !.until = now + RetentionTtl]]
          /\ tokens' = tokens
      BY <1>4 DEF Complete
    <2>2. /\ e \in Entry /\ p \in Promise
          /\ tokens[t] \in DOMAIN entries /\ t \in DOMAIN promise
          /\ e.token = t /\ e.state = "reserved"
          /\ p.identity = tokens[t] /\ p.fingerprint = e.fingerprint
          /\ p.phase = "executing" /\ p.value = e.value
      BY <1>4, ExecutingFacts DEF Issued
    <2>3. DiffersAt(entries, entries', tokens[t]) /\ DiffersAt(promise, promise', t)
      BY <2>1 DEF DiffersAt
    <2>4. /\ entries'[tokens[t]] = [e EXCEPT !.state = "completed", !.value = v, !.expires_at = now + RetentionTtl]
          /\ promise'[t] = [p EXCEPT !.phase = "completed", !.value = v, !.until = now + RetentionTtl]
      BY <2>1, <2>2
    <2>5. /\ entries'[tokens[t]] \in Entry
          /\ promise'[t] \in Promise
          /\ entries'[tokens[t]].token = t
          /\ entries'[tokens[t]].fingerprint = e.fingerprint
          /\ entries'[tokens[t]].expires_at = now + RetentionTtl
          /\ entries'[tokens[t]].state = "completed"
          /\ entries'[tokens[t]].value = v
          /\ promise'[t].identity = tokens[t]
          /\ promise'[t].fingerprint = e.fingerprint
          /\ promise'[t].until = now + RetentionTtl
          /\ promise'[t].phase = "completed"
          /\ promise'[t].value = v
      BY <1>2, <2>2, <2>4 DEF Entry, Promise
    <2> HIDE DEF e, p
    <2> QED BY <1>1, <1>2, <1>4, <2>1, <2>3, <2>5, TransitionStep DEF e
  <1> QED BY <1>3, <1>4

\* Recording uncertainty blocks the identity under its executing token.
LEMMA MarkUncertainStep ==
  ASSUME IInv, NEW c \in Threads, MarkUncertain(c)
  PROVE  IInv'
  <1> DEFINE t == call[c].token
             now == call[c].now
  <1>1. TokenStep(c, "mark_uncertain") /\ call[c] # NoCall
    BY DEF MarkUncertain, TokenStep
  <1>2. now \in Nat /\ now + UncertainTtl \in Nat
    BY <1>1, CallFacts, PolicyAssumption
  <1>3. CASE ~Executing(t, now)
    BY <1>1, <1>3, StaleStep DEF MarkUncertain
  <1>4. CASE Executing(t, now)
    <2> DEFINE e == entries[tokens[t]]
               p == promise[t]
    <2>1. /\ entries' = [entries EXCEPT ![tokens[t]] = [@ EXCEPT !.state = "uncertain", !.expires_at = now + UncertainTtl]]
          /\ promise' = [promise EXCEPT ![t] = [@ EXCEPT !.phase = "uncertain", !.until = now + UncertainTtl]]
          /\ tokens' = tokens
      BY <1>4 DEF MarkUncertain
    <2>2. /\ e \in Entry /\ p \in Promise
          /\ tokens[t] \in DOMAIN entries /\ t \in DOMAIN promise
          /\ e.token = t /\ e.state = "reserved"
          /\ p.identity = tokens[t] /\ p.fingerprint = e.fingerprint
          /\ p.phase = "executing" /\ p.value = e.value
      BY <1>4, ExecutingFacts DEF Issued
    <2>3. DiffersAt(entries, entries', tokens[t]) /\ DiffersAt(promise, promise', t)
      BY <2>1 DEF DiffersAt
    <2>4. /\ entries'[tokens[t]] = [e EXCEPT !.state = "uncertain", !.expires_at = now + UncertainTtl]
          /\ promise'[t] = [p EXCEPT !.phase = "uncertain", !.until = now + UncertainTtl]
      BY <2>1, <2>2
    <2>5. /\ entries'[tokens[t]] \in Entry
          /\ promise'[t] \in Promise
          /\ entries'[tokens[t]].token = t
          /\ entries'[tokens[t]].fingerprint = e.fingerprint
          /\ entries'[tokens[t]].expires_at = now + UncertainTtl
          /\ entries'[tokens[t]].state = "uncertain"
          /\ entries'[tokens[t]].value = e.value
          /\ promise'[t].identity = tokens[t]
          /\ promise'[t].fingerprint = e.fingerprint
          /\ promise'[t].until = now + UncertainTtl
          /\ promise'[t].phase = "uncertain"
          /\ promise'[t].value = e.value
      BY <1>2, <2>2, <2>4 DEF Entry, Promise
    <2> HIDE DEF e, p
    <2> QED BY <1>1, <1>2, <1>4, <2>1, <2>3, <2>5, TransitionStep DEF e
  <1> QED BY <1>3, <1>4

\* Giving the reservation back removes its entry and its token together.
LEMMA AbandonStep ==
  ASSUME IInv, NEW c \in Threads, Abandon(c)
  PROVE  IInv'
  <1> DEFINE t == call[c].token
             now == call[c].now
             i == tokens[t]
  <1>1. TokenStep(c, "abandon") /\ call[c] # NoCall
    BY DEF Abandon, TokenStep
  <1>2. CASE ~Executing(t, now)
    BY <1>1, <1>2, StaleStep DEF Abandon
  <1>3. CASE Executing(t, now)
    <2>1. /\ entries' = Drop(entries, {i})
          /\ tokens' = Drop(tokens, {t})
          /\ promise' = [promise EXCEPT ![t] = [@ EXCEPT !.phase = "abandoned"]]
      BY <1>3 DEF Abandon
    <2>2. /\ i \in DOMAIN entries /\ t \in DOMAIN promise /\ t \in DOMAIN tokens
          /\ entries[i].token = t /\ promise[t] \in Promise
          /\ promise[t].phase = "executing" /\ promise[t].identity = i
      BY <1>3, ExecutingFacts DEF Issued
    <2>3. /\ DOMAIN entries' = DOMAIN entries \ {i}
          /\ \A j \in DOMAIN entries' : entries'[j] = entries[j]
          /\ DOMAIN tokens' = DOMAIN tokens \ {t}
          /\ \A u \in DOMAIN tokens' : tokens'[u] = tokens[u]
      BY <2>1 DEF Drop
    <2>4. DiffersAt(promise, promise', t)
      BY <2>1 DEF DiffersAt
    <2>5. promise'[t] \in Promise /\ promise'[t].phase = "abandoned"
      BY <2>1, <2>2 DEF Promise
    <2>6. \A j \in DOMAIN entries : j # i => entries[j].token # t
      BY <2>2 DEF IInv, TokenIndexExact
    <2>7. TypeOK'
      BY <1>1, <2>3, <2>4, <2>5, TokenStepType DEF IInv, TypeOK, DiffersAt
    <2>8. TokenIndexExact'
      BY <2>2, <2>3, <2>6 DEF IInv, TokenIndexExact
    <2>9. EntryPromised'
      BY <2>3, <2>4, <2>6 DEF IInv, EntryPromised, Issued, DiffersAt
    <2>10. AuthorityHonoured' /\ RetentionHonoured'
      BY <1>1, <2>2, <2>3, <2>4, <2>5, TokenStepType
         DEF IInv, AuthorityHonoured, RetentionHonoured, Issued, DiffersAt
    <2>11. ReplayFaithful'
      BY <1>1, <2>2, <2>4, TokenStepType DEF IInv, ReplayFaithful, Issued, DiffersAt
    <2> QED BY <2>7, <2>8, <2>9, <2>10, <2>11 DEF IInv
  <1> QED BY <1>2, <1>3

\* The store after removing entries that expired by a past instant: everything
\* IInv says of the dictionaries, as facts about any step that removes them.
LEMMA DroppedStore ==
  ASSUME IInv, NEW now \in Nat, now <= clock,
         NEW S \in SUBSET DOMAIN entries,
         \A i \in S : entries[i].expires_at <= now,
         entries' = Drop(entries, S),
         tokens' = Drop(tokens, TokensOf(S)),
         promise' = promise, clock' = clock
  PROVE  /\ DOMAIN entries' \subseteq Identities
         /\ \A i \in DOMAIN entries' : entries'[i] \in Entry
         /\ DOMAIN tokens' \subseteq Tokens
         /\ \A t \in DOMAIN tokens' : tokens'[t] \in Identities
         /\ TokenIndexExact'
         /\ EntryPromised'
         /\ AuthorityHonoured'
         /\ RetentionHonoured'
  <1> DEFINE kept == Drop(entries, S)
             index == Drop(tokens, TokensOf(S))
  <1>1. /\ DOMAIN kept = DOMAIN entries \ S
        /\ \A i \in DOMAIN kept : kept[i] = entries[i]
        /\ DOMAIN index \subseteq DOMAIN tokens
        /\ \A t \in DOMAIN index : index[t] = tokens[t]
        /\ \A i \in DOMAIN kept : kept[i].token \in DOMAIN index
        /\ \A t \in DOMAIN index : index[t] \in DOMAIN kept
        /\ \A t \in Issued :
              clock < promise[t].until
                /\ promise[t].phase \in {"executing", "completed"}
                => /\ promise[t].identity \in DOMAIN entries \ S
                   /\ entries[promise[t].identity].token = t
    BY DropExpired
  <1>2. entries' = kept /\ tokens' = index
    OBVIOUS
  <1> HIDE DEF kept, index
  <1>3. /\ DOMAIN entries' = DOMAIN entries \ S
        /\ \A i \in DOMAIN entries' : entries'[i] = entries[i]
        /\ DOMAIN tokens' \subseteq DOMAIN tokens
        /\ \A t \in DOMAIN tokens' : tokens'[t] = tokens[t]
        /\ \A i \in DOMAIN entries' : entries'[i].token \in DOMAIN tokens'
        /\ \A t \in DOMAIN tokens' : tokens'[t] \in DOMAIN entries'
        /\ \A t \in Issued :
              clock < promise[t].until
                /\ promise[t].phase \in {"executing", "completed"}
                => /\ promise[t].identity \in DOMAIN entries \ S
                   /\ entries[promise[t].identity].token = t
    BY <1>1, <1>2
  <1>4. TokenIndexExact'
    BY <1>3 DEF IInv, TokenIndexExact
  <1>5. EntryPromised'
    BY <1>3 DEF IInv, EntryPromised, Issued
  <1>6. AuthorityHonoured'
    BY <1>3 DEF IInv, AuthorityHonoured, Issued
  <1>7. RetentionHonoured'
    BY <1>3 DEF IInv, RetentionHonoured, Issued
  <1> QED BY <1>3, <1>4, <1>5, <1>6, <1>7 DEF IInv, TypeOK

\* A maintenance plan with a cutoff in the past breaks no promise.
LEMMA PurgeStep ==
  ASSUME IInv, NEW cutoff \in Nat, NEW n, NEW u, Purge(cutoff, n, u)
  PROVE  IInv'
  <1>1. PICK S \in SUBSET Purgeable(cutoff, u) :
            /\ entries' = Drop(entries, S)
            /\ tokens' = Drop(tokens, TokensOf(S))
    BY DEF Purge
  <1>2. /\ S \in SUBSET DOMAIN entries
        /\ \A i \in S : entries[i].expires_at <= cutoff
    BY DEF Purgeable
  <1>3. cutoff <= clock /\ UNCHANGED <<clock, call, decision, promise>>
    BY DEF Purge
  <1>4. /\ DOMAIN entries' \subseteq Identities
        /\ \A i \in DOMAIN entries' : entries'[i] \in Entry
        /\ DOMAIN tokens' \subseteq Tokens
        /\ \A t \in DOMAIN tokens' : tokens'[t] \in Identities
        /\ TokenIndexExact' /\ EntryPromised' /\ AuthorityHonoured' /\ RetentionHonoured'
    BY <1>1, <1>2, <1>3, DroppedStore
  <1>5. TypeOK' /\ ReplayFaithful'
    BY <1>3, <1>4 DEF IInv, TypeOK, ReplayFaithful, Issued
  <1> QED BY <1>4, <1>5 DEF IInv

\* reserve(): expired entries go, and the caller is answered from what remains
\* or becomes the identity's authority under a fresh token.
LEMMA ReserveStep ==
  ASSUME IInv, NEW c \in Threads, Reserve(c)
  PROVE  IInv'
  <1> DEFINE i == call[c].identity
             f == call[c].fingerprint
             now == call[c].now
             S == Expired(now)
             kept == Drop(entries, S)
             index == Drop(tokens, TokensOf(S))
  <1>1. call[c] # NoCall /\ call[c] \in ReserveCall
    BY CallFacts DEF Reserve, TokenCall
  <1>2. i \in Identities /\ f \in Fingerprints /\ now \in Nat /\ now <= clock
    BY <1>1, CallFacts DEF ReserveCall
  <1>3. S \in SUBSET DOMAIN entries /\ \A j \in S : entries[j].expires_at <= now
    BY DEF Expired
  <1>4. ASSUME NEW reply, Answer(c, reply),
               reply \in {NoDecision} \cup Refused \cup Executed \cup Replayed
        PROVE  /\ clock' = clock
               /\ call' \in [Threads -> {NoCall} \cup ReserveCall \cup TokenCall]
               /\ \A d \in Threads : call'[d] # NoCall => call'[d].now <= clock'
               /\ decision' \in [Threads -> {NoDecision} \cup Refused \cup Executed
                                                \cup Replayed]
               /\ decision'[c] = reply
               /\ \A d \in Threads : d # c => decision'[d] = decision[d]
    BY <1>4 DEF Answer, IInv, TypeOK
  <1>5. ASSUME NEW reply, Answer(c, reply),
               reply \in {NoDecision} \cup Refused \cup Executed \cup Replayed,
               entries' = kept, tokens' = index, promise' = promise,
               reply.kind = "Replay" =>
                 \E t \in Issued :
                    /\ promise[t].phase = "completed"
                    /\ promise[t].identity = reply.identity
                    /\ promise[t].fingerprint = reply.fingerprint
                    /\ promise[t].value = reply.value
        PROVE  IInv'
    <2>1. /\ clock' = clock
          /\ call' \in [Threads -> {NoCall} \cup ReserveCall \cup TokenCall]
          /\ \A d \in Threads : call'[d] # NoCall => call'[d].now <= clock'
          /\ decision' \in [Threads -> {NoDecision} \cup Refused \cup Executed
                                            \cup Replayed]
          /\ decision'[c] = reply
          /\ \A d \in Threads : d # c => decision'[d] = decision[d]
      BY <1>4, <1>5
    <2>2. /\ DOMAIN entries' \subseteq Identities
          /\ \A j \in DOMAIN entries' : entries'[j] \in Entry
          /\ DOMAIN tokens' \subseteq Tokens
          /\ \A t \in DOMAIN tokens' : tokens'[t] \in Identities
          /\ TokenIndexExact' /\ EntryPromised' /\ AuthorityHonoured' /\ RetentionHonoured'
      BY <1>2, <1>3, <1>5, <2>1, DroppedStore
    <2>3. TypeOK'
      BY <1>5, <2>1, <2>2 DEF IInv, TypeOK
    <2>4. ReplayFaithful'
      BY <1>5, <2>1 DEF IInv, ReplayFaithful, Issued
    <2> QED BY <2>2, <2>3, <2>4 DEF IInv
  <1>6. /\ DOMAIN kept = DOMAIN entries \ S
        /\ \A j \in DOMAIN kept : kept[j] = entries[j]
        /\ DOMAIN index \subseteq DOMAIN tokens
        /\ \A t \in DOMAIN index : index[t] = tokens[t]
        /\ \A j \in DOMAIN kept : kept[j].token \in DOMAIN index
        /\ \A t \in DOMAIN index : index[t] \in DOMAIN kept
        /\ \A t \in Issued :
              clock < promise[t].until
                /\ promise[t].phase \in {"executing", "completed"}
                => /\ promise[t].identity \in DOMAIN entries \ S
                   /\ entries[promise[t].identity].token = t
    BY <1>2, <1>3, DropExpired
  <1> HIDE DEF kept, index, S
  <1>7. CASE /\ i \in DOMAIN kept
             /\ entries' = kept /\ tokens' = index
             /\ Answer(c, Existing(kept[i], i, f))
             /\ UNCHANGED promise
    <2> DEFINE e == entries[i]
               reply == Existing(kept[i], i, f)
    <2>1. kept[i] = e /\ i \in DOMAIN entries /\ e \in Entry
      BY <1>6, <1>7 DEF IInv, TypeOK
    <2>2. reply \in {NoDecision} \cup Refused \cup Executed \cup Replayed
      <3>1. CASE e.fingerprint # f
        BY <2>1, <3>1 DEF Existing, Refused
      <3>2. CASE e.fingerprint = f /\ e.state = "completed"
        BY <1>2, <2>1, <3>2 DEF Existing, Replayed, Entry
      <3>3. CASE e.fingerprint = f /\ e.state = "uncertain"
        BY <2>1, <3>3 DEF Existing, Refused
      <3>4. CASE e.fingerprint = f /\ e.state = "reserved"
        BY <2>1, <3>4 DEF Existing, Refused
      <3> QED BY <2>1, <3>1, <3>2, <3>3, <3>4 DEF Entry
    <2>3. ASSUME reply.kind = "Replay"
          PROVE  \E t \in Issued :
                    /\ promise[t].phase = "completed"
                    /\ promise[t].identity = reply.identity
                    /\ promise[t].fingerprint = reply.fingerprint
                    /\ promise[t].value = reply.value
      <3>1. e.fingerprint = f /\ e.state = "completed"
        BY <2>1, <2>3 DEF Existing, Entry
      <3>2. /\ reply.identity = i /\ reply.fingerprint = f /\ reply.value = e.value
        BY <2>1, <3>1 DEF Existing
      <3>3. /\ e.token \in Issued
            /\ promise[e.token].phase = "completed"
            /\ promise[e.token].identity = i
            /\ promise[e.token].fingerprint = f
            /\ promise[e.token].value = e.value
        BY <2>1, <3>1 DEF IInv, EntryPromised
      <3> QED BY <3>2, <3>3
    <2> HIDE DEF reply
    <2> QED BY <1>5, <1>7, <2>2, <2>3 DEF reply
  <1>8. CASE /\ entries' = kept /\ tokens' = index
             /\ Answer(c, [kind |-> "Full"])
             /\ UNCHANGED promise
    <2>1. [kind |-> "Full"] \in Refused
      BY DEF Refused
    <2> QED BY <1>5, <1>8, <2>1
  <1>9. ASSUME i \notin DOMAIN kept, NEW t \in Tokens \ Issued,
               entries' = Put(kept, i,
                    [token |-> t, fingerprint |-> f, expires_at |-> now + LeaseTtl,
                     state |-> "reserved", value |-> NoValue]),
               tokens' = Put(index, t, i),
               Answer(c, [kind |-> "Execute", token |-> t]),
               promise' = Put(promise, t,
                    [identity |-> i, fingerprint |-> f, until |-> now + LeaseTtl,
                     phase |-> "executing", value |-> NoValue])
        PROVE  IInv'
    <2> DEFINE e == [token |-> t, fingerprint |-> f, expires_at |-> now + LeaseTtl,
                     state |-> "reserved", value |-> NoValue]
               p == [identity |-> i, fingerprint |-> f, until |-> now + LeaseTtl,
                     phase |-> "executing", value |-> NoValue]
    <2>1. e \in Entry /\ p \in Promise
      BY <1>2, <1>9, PolicyAssumption DEF Entry, Promise
    <2>2. [kind |-> "Execute", token |-> t] \in Executed
      BY <1>9 DEF Executed
    <2>3. /\ clock' = clock
          /\ call' \in [Threads -> {NoCall} \cup ReserveCall \cup TokenCall]
          /\ \A d \in Threads : call'[d] # NoCall => call'[d].now <= clock'
          /\ decision' \in [Threads -> {NoDecision} \cup Refused \cup Executed
                                            \cup Replayed]
          /\ decision'[c] = [kind |-> "Execute", token |-> t]
          /\ \A d \in Threads : d # c => decision'[d] = decision[d]
      BY <1>4, <1>9, <2>2
    <2>4. /\ DOMAIN entries' = DOMAIN kept \cup {i}
          /\ entries'[i] = e
          /\ \A j \in DOMAIN kept : entries'[j] = entries[j]
      BY <1>6, <1>9 DEF Put
    <2>5. /\ DOMAIN tokens' = DOMAIN index \cup {t}
          /\ tokens'[t] = i
          /\ \A u \in DOMAIN index : u # t => tokens'[u] = tokens[u]
      BY <1>6, <1>9 DEF Put
    <2>6. /\ DOMAIN promise' = DOMAIN promise \cup {t}
          /\ promise'[t] = p
          /\ \A u \in DOMAIN promise : promise'[u] = promise[u]
      BY <1>9 DEF Put, Issued
    <2>7. /\ e.token = t /\ e.fingerprint = f /\ e.expires_at = now + LeaseTtl
          /\ e.state = "reserved" /\ e.value = NoValue
          /\ p.identity = i /\ p.fingerprint = f /\ p.until = now + LeaseTtl
          /\ p.phase = "executing" /\ p.value = NoValue
      OBVIOUS
    <2>8. t \notin DOMAIN tokens /\ \A j \in DOMAIN entries : entries[j].token # t
      BY <1>9 DEF IInv, EntryPromised, TokenIndexExact, Issued
    <2> HIDE DEF e, p
    <2>9. TypeOK'
      BY <1>2, <1>6, <1>9, <2>1, <2>3, <2>4, <2>5, <2>6 DEF IInv, TypeOK, Issued
    <2>10. TokenIndexExact'
      BY <1>6, <1>9, <2>4, <2>5, <2>7, <2>8 DEF IInv, TokenIndexExact
    <2>11. EntryPromised'
      BY <1>6, <1>9, <2>4, <2>6, <2>7, <2>8 DEF IInv, EntryPromised, Issued
    <2>12. AuthorityHonoured'
      BY <1>6, <1>9, <2>3, <2>4, <2>6, <2>7 DEF IInv, AuthorityHonoured, Issued
    <2>13. RetentionHonoured'
      BY <1>6, <1>9, <2>3, <2>4, <2>6, <2>7 DEF IInv, RetentionHonoured, Issued
    <2>14. ReplayFaithful'
      BY <1>9, <2>3, <2>6 DEF IInv, ReplayFaithful, Issued
    <2> QED BY <2>9, <2>10, <2>11, <2>12, <2>13, <2>14 DEF IInv
  <1> QED BY <1>7, <1>8, <1>9 DEF Reserve, kept, index, S

\* Time passing only ends leases and retentions.
LEMMA TickStep ==
  ASSUME IInv, Tick
  PROVE  IInv'
  <1>1. clock \in Nat /\ clock' = clock + 1
        /\ UNCHANGED <<entries, tokens, call, decision, promise>>
    BY DEF Tick, IInv, TypeOK
  <1>2. TypeOK'
    <2>1. \A c \in Threads : call'[c] # NoCall => call'[c].now <= clock'
      BY <1>1, CallFacts
    <2> QED BY <1>1, <2>1 DEF IInv, TypeOK
  <1>3. \A t \in Issued : promise[t].until \in Nat
    BY DEF IInv, TypeOK, Promise, Issued
  <1>4. AuthorityHonoured' /\ RetentionHonoured'
    BY <1>1, <1>3 DEF IInv, AuthorityHonoured, RetentionHonoured, Issued
  <1>5. TokenIndexExact' /\ EntryPromised' /\ ReplayFaithful'
    BY <1>1 DEF IInv, TokenIndexExact, EntryPromised, ReplayFaithful, Issued
  <1> QED BY <1>2, <1>4, <1>5 DEF IInv

\* A coordinator method samples the clock into a well-typed call.
LEMMA CoordinatorPreserves ==
  ASSUME IInv, NEW c \in Threads, CoordinatorStep(c)
  PROVE  IInv'
  <1>1. clock \in Nat
    BY DEF IInv, TypeOK
  <1>2. ASSUME NEW i \in Identities, NEW f \in Fingerprints, Begin(c, i, f)
        PROVE  IInv'
    BY <1>1, <1>2, CallStep DEF Begin, ReserveCall
  <1>3. ASSUME NEW t \in Tokens,
               NEW op \in {"renew", "complete", "mark_uncertain", "abandon"},
               Call(c, [op |-> op, token |-> t, now |-> clock])
        PROVE  IInv'
    BY <1>1, <1>3, CallStep DEF TokenCall
  <1> QED BY <1>2, <1>3 DEF CoordinatorStep, CallRenew, CallComplete, CallUncertain,
             CallAbandon

\* Every step of the coordinator, the store, maintenance and the clock
\* preserves the inductive invariant.
LEMMA NextPreserves == IInv /\ [Next]_vars => IInv'
  <1> SUFFICES ASSUME IInv, [Next]_vars
               PROVE  IInv'
    OBVIOUS
  <1>1. CASE Tick
    BY <1>1, TickStep
  <1>2. ASSUME NEW c \in Threads, CoordinatorStep(c)
        PROVE  IInv'
    BY <1>2, CoordinatorPreserves
  <1>3. ASSUME NEW c \in Threads, StoreStep(c)
        PROVE  IInv'
    BY <1>3, ReserveStep, RenewStep, CompleteStep, MarkUncertainStep, AbandonStep
       DEF StoreStep
  <1>4. CASE Maintenance
    <2>1. 0..MaxClock \subseteq Nat
      BY PolicyAssumption
    <2> QED BY <1>4, <2>1, PurgeStep DEF Maintenance
  <1>5. CASE UNCHANGED vars
    BY <1>5 DEF vars, IInv, TypeOK, TokenIndexExact, EntryPromised, AuthorityHonoured,
       RetentionHonoured, ReplayFaithful, Issued
  <1> QED BY <1>1, <1>2, <1>3, <1>4, <1>5 DEF Next

\* The inductive invariant holds in every reachable state.
THEOREM Invariance == Spec => []IInv
  BY InitIInv, NextPreserves, PTL DEF Spec

\* The type invariant: in particular no call in flight carries a `now` ahead of
\* the clock, however long it waited for the store's lock.
THEOREM TypeCorrect == Spec => []TypeOK
  BY Invariance, PTL DEF IInv

\* The token index is the exact inverse of the entries' tokens after any
\* sequence of expiries, abandons and purges (idempotency.py _tokens).
THEOREM TokenIndexCorrect == Spec => []TokenIndexExact
  BY Invariance, PTL DEF IInv

\* A holder inside the lease it was told of is the identity's only authority,
\* although every `now` the store compares with was sampled outside its lock.
THEOREM AuthorityKept == Spec => []AuthorityHonoured
  BY Invariance, PTL DEF IInv

\* A published result survives untouched until its retention instant.
THEOREM RetentionKept == Spec => []RetentionHonoured
  BY Invariance, PTL DEF IInv

\* Replay never answers a request with another request's result.
THEOREM ReplayCorrect == Spec => []ReplayFaithful
  BY Invariance, PTL DEF IInv

\* No two holders of one identity are inside their leases at the same time: the
\* mutual exclusion a caller of begin() relies on.
THEOREM ExclusiveExecution ==
  Spec => [](\A t, u \in Issued :
                /\ promise[t].identity = promise[u].identity
                /\ promise[t].phase = "executing" /\ clock < promise[t].until
                /\ promise[u].phase = "executing" /\ clock < promise[u].until
                => t = u)
  <1>1. IInv => (\A t, u \in Issued :
                /\ promise[t].identity = promise[u].identity
                /\ promise[t].phase = "executing" /\ clock < promise[t].until
                /\ promise[u].phase = "executing" /\ clock < promise[u].until
                => t = u)
    BY DEF IInv, AuthorityHonoured
  <1> QED BY <1>1, Invariance, PTL

\* Only a maintenance plan with include_uncertain=True reopens an uncertain
\* identity (docs/idempotency.md:20-22).
THEOREM UncertainKept == Spec => UncertainHeld
  <1> DEFINE Held ==
        \A i \in DOMAIN entries : entries[i].state = "uncertain" =>
            \/ i \in DOMAIN entries' /\ entries'[i] = entries[i]
            \/ \E cutoff \in 0..MaxClock, n \in BatchSizes : Purge(cutoff, n, TRUE)
  <1>1. IInv /\ [Next]_vars => [Held]_vars
    <2> SUFFICES ASSUME IInv, Next, NEW i \in DOMAIN entries,
                        entries[i].state = "uncertain",
                        ~(\E cutoff \in 0..MaxClock, n \in BatchSizes : Purge(cutoff, n, TRUE))
                 PROVE  i \in DOMAIN entries' /\ entries'[i] = entries[i]
      OBVIOUS
    <2>1. CASE Tick
      BY <2>1 DEF Tick
    <2>2. ASSUME NEW c \in Threads, CoordinatorStep(c)
          PROVE  entries' = entries
      BY <2>2 DEF CoordinatorStep, Begin, CallRenew, CallComplete, CallUncertain,
         CallAbandon, Call
    <2>3. ASSUME NEW c \in Threads, Reserve(c)
          PROVE  i \in DOMAIN entries' /\ entries'[i] = entries[i]
      <3>1. i \notin Expired(call[c].now)
        BY DEF Expired
      <3>2. LET kept == Drop(entries, Expired(call[c].now)) IN
                i \in DOMAIN kept /\ kept[i] = entries[i]
        BY <3>1 DEF Drop
      <3> QED BY <2>3, <3>2 DEF Reserve, Put
    <2>4. \A t, now : Executing(t, now) => tokens[t] # i
      BY DEF Executing
    <2>5. ASSUME NEW c \in Threads, Renew(c)
          PROVE  i \in DOMAIN entries' /\ entries'[i] = entries[i]
      BY <2>4, <2>5 DEF Renew, Stale
    <2>6. ASSUME NEW c \in Threads, NEW v \in Values, Complete(c, v)
          PROVE  i \in DOMAIN entries' /\ entries'[i] = entries[i]
      BY <2>4, <2>6 DEF Complete, Stale
    <2>7. ASSUME NEW c \in Threads, MarkUncertain(c)
          PROVE  i \in DOMAIN entries' /\ entries'[i] = entries[i]
      BY <2>4, <2>7 DEF MarkUncertain, Stale
    <2>8. ASSUME NEW c \in Threads, Abandon(c)
          PROVE  i \in DOMAIN entries' /\ entries'[i] = entries[i]
      BY <2>4, <2>8 DEF Abandon, Stale, Drop
    <2>9. ASSUME NEW cutoff \in 0..MaxClock, NEW n \in BatchSizes, NEW u \in BOOLEAN,
                 Purge(cutoff, n, u)
          PROVE  i \in DOMAIN entries' /\ entries'[i] = entries[i]
      <3>1. u = FALSE
        BY <2>9
      <3>2. i \notin Purgeable(cutoff, u)
        BY <3>1 DEF Purgeable
      <3> QED BY <2>9, <3>2 DEF Purge, Drop
    <2> QED
      BY <2>1, <2>2, <2>3, <2>5, <2>6, <2>7, <2>8, <2>9
         DEF Next, StoreStep, Maintenance
  <1> QED BY <1>1, Invariance, PTL DEF Spec, UncertainHeld
=============================================================================
