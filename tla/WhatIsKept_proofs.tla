------------------------- MODULE WhatIsKept_proofs -------------------------
(***************************************************************************)
(* Proofs about what is kept: IntrospectionCache, for every set of         *)
(* schemas, callers and wanted sets, every time to live and every bound;   *)
(* Capture, for every database, every migration, and any number of         *)
(* connections; and SymbolIndex, for every tree, every set of texts, every *)
(* number of overlapping calls and of edits.                               *)
(***************************************************************************)
EXTENDS WhatIsKept, Lists_proofs

-----------------------------------------------------------------------------
(***************************************************************************)
(* The inductive invariant: types; what a call in flight and an entry know *)
(* of the changes they did not see; and the eviction of stale entries.     *)
(***************************************************************************)
Results == UNION {[w -> Nat] : w \in SUBSET SchemaNames}

Call == [pc : {"idle", "querying", "fetched", "answered"}, for : SUBSET SchemaNames,
         seen : Results, since : Nat, took : Nat, raced : BOOLEAN]

Entry == [seen : Results, at : Nat, took : Nat, raced : BOOLEAN]

InFlight(c) == call[c].pc \in {"querying", "fetched"}

TypeOK ==
    /\ changed \in [SchemaNames -> Seq(Nat)]
    /\ notices \in Seq(SUBSET Keys)
    /\ cache \in [Keys -> SUBSET Entry]
    /\ call \in [Callers -> Call]
    /\ clock \in Nat
    /\ lost \in BOOLEAN

\* A call in flight asks for a wanted set, and a result is of the schemas it is kept for.
Shapes ==
    /\ \A c \in Callers : InFlight(c) => call[c].for \in Wanted /\ DOMAIN call[c].seen = call[c].for
    /\ \A k \in Keys : \A e \in cache[k] : DOMAIN e.seen = k

\* A call misses no change made before its queries began, and none at all unless one
\* of its schemas changed since.
CallsKnow ==
    \A c \in Callers : InFlight(c) =>
        /\ call[c].since <= clock
        /\ \A s \in call[c].for :
              /\ \A i \in DOMAIN changed[s] : i > call[c].seen[s] => changed[s][i] >= call[c].since
              /\ ~call[c].raced => call[c].seen[s] = Len(changed[s])

\* An entry misses no change made before the queries that filled it began.
EntriesKnow ==
    \A k \in Keys : \A e \in cache[k] :
        /\ e.at <= clock
        /\ \A s \in k : \A i \in DOMAIN changed[s] : i > e.seen[s] => changed[s][i] >= e.at - e.took

\* A notice on its way will evict every stale entry of one schema, dead or alive.
StaleEvicted ==
    ~lost => \A k \in Keys : \A e \in cache[k] : \A s \in k :
        k = {s} /\ ~e.raced /\ e.seen[s] < Len(changed[s]) => \E i \in DOMAIN notices : k \in notices[i]

IInv == TypeOK /\ Shapes /\ CallsKnow /\ EntriesKnow /\ StaleEvicted

-----------------------------------------------------------------------------
(***************************************************************************)
(* Lemmas about the operators.                                             *)
(***************************************************************************)
LEMMA WantedAreKeys == \A w \in Wanted : w \in Keys /\ w \subseteq SchemaNames
BY CacheAssumption DEF CacheAssumption, Keys

LEMMA IdleType == Idle \in Call
<1>1. Nothing \in [{} -> Nat]
  BY DEF Nothing
<1>2. [{} -> Nat] \subseteq Results
  BY DEF Results
<1> QED
  BY <1>1, <1>2 DEF Idle, Call

LEMMA ResultType ==
    ASSUME NEW w \in SUBSET SchemaNames, NEW f \in [w -> Nat] PROVE f \in Results /\ DOMAIN f = w
BY DEF Results

\* What a call answers with belongs to no query any more.
LEMMA AnsweredType ==
    ASSUME NEW e \in Entry
    PROVE  /\ Answered(e) \in Call
           /\ Answered(e).pc = "answered"
           /\ Answered(e).seen = e.seen
           /\ Answered(e).took = e.took
BY IdleType DEF Answered, Entry, Call, Idle

LEMMA SeenType ==
    ASSUME TypeOK, NEW w \in Wanted
    PROVE  /\ Seen(w) \in Results
           /\ DOMAIN Seen(w) = w
           /\ \A s \in w : Seen(w)[s] = Len(changed[s])
<1>1. Seen(w) \in [w -> Nat]
  BY WantedAreKeys, LenProperties DEF Seen, TypeOK
<1> QED
  BY <1>1, ResultType, WantedAreKeys DEF Seen

\* A set of one schema.
LEMMA OneSchema ==
    ASSUME NEW k \in Keys, Cardinality(k) = 1 PROVE \E s \in k : k = {s}
<1>1. IsFiniteSet(k)
  BY FS_Subset, CacheAssumption DEF Keys, CacheAssumption
<1> QED
  BY <1>1, FS_Singleton

-----------------------------------------------------------------------------
LEMMA IInvInit == Init => IInv
<1> SUFFICES ASSUME Init PROVE IInv
  OBVIOUS
<1>1. TypeOK
  <2>1. <<>> \in Seq(Nat) /\ <<>> \in Seq(SUBSET Keys)
    BY EmptySeq
  <2> QED
    BY <2>1, IdleType DEF Init, TypeOK
<1>2. \A c \in Callers : ~InFlight(c)
  BY DEF Init, InFlight, Idle
<1> QED
  BY <1>1, <1>2 DEF Init, IInv, Shapes, CallsKnow, EntriesKnow, StaleEvicted

\* A step in which caller c goes from one place of its call to another, and nothing else
\* but the cache may change.
LEMMA CallStep ==
    ASSUME IInv, NEW c \in Callers, NEW new \in Call,
           call' = [call EXCEPT ![c] = new],
           UNCHANGED <<changed, clock>>,
           new.pc \in {"querying", "fetched"} =>
               /\ new.for \in Wanted /\ DOMAIN new.seen = new.for
               /\ new.since <= clock
               /\ \A s \in new.for :
                     /\ \A i \in DOMAIN changed[s] : i > new.seen[s] => changed[s][i] >= new.since
                     /\ ~new.raced => new.seen[s] = Len(changed[s])
    PROVE  /\ call' \in [Callers -> Call]
           /\ \A d \in Callers : InFlight(d)' => call'[d].for \in Wanted /\ DOMAIN call'[d].seen = call'[d].for
           /\ CallsKnow'
<1>1. /\ call' \in [Callers -> Call]
      /\ call'[c] = new
      /\ \A d \in Callers \ {c} : call'[d] = call[d]
  BY DEF IInv, TypeOK
<1>2. \A d \in Callers \ {c} : InFlight(d)' = InFlight(d)
  BY <1>1 DEF InFlight
<1>3. InFlight(c)' = (new.pc \in {"querying", "fetched"})
  BY <1>1 DEF InFlight
<1>4. \A d \in Callers : InFlight(d)' => call'[d].for \in Wanted /\ DOMAIN call'[d].seen = call'[d].for
  BY <1>1, <1>2, <1>3 DEF IInv, Shapes
<1>5. CallsKnow'
  BY <1>1, <1>2, <1>3 DEF IInv, CallsKnow
<1> QED
  BY <1>1, <1>4, <1>5

\* The same when the cache rests too.
LEMMA QuietCallStep ==
    ASSUME IInv, NEW c \in Callers, NEW new \in Call,
           call' = [call EXCEPT ![c] = new],
           UNCHANGED <<changed, notices, cache, clock, lost>>,
           new.pc \in {"querying", "fetched"} =>
               /\ new.for \in Wanted /\ DOMAIN new.seen = new.for
               /\ new.since <= clock
               /\ \A s \in new.for :
                     /\ \A i \in DOMAIN changed[s] : i > new.seen[s] => changed[s][i] >= new.since
                     /\ ~new.raced => new.seen[s] = Len(changed[s])
    PROVE  IInv'
<1>1. /\ call' \in [Callers -> Call]
      /\ \A d \in Callers : InFlight(d)' => call'[d].for \in Wanted /\ DOMAIN call'[d].seen = call'[d].for
      /\ CallsKnow'
  BY CallStep
<1>2. TypeOK'
  BY <1>1 DEF IInv, TypeOK
<1>3. Shapes'
  BY <1>1 DEF IInv, Shapes
<1>4. EntriesKnow' /\ StaleEvicted'
  BY DEF IInv, EntriesKnow, StaleEvicted
<1> QED
  BY <1>1, <1>2, <1>3, <1>4 DEF IInv

LEMMA HitStep ==
    ASSUME IInv, NEW c \in Callers, Hit(c) PROVE IInv'
<1>1. PICK w \in Wanted : \E e \in cache[cache_key(w)] : Live(e) /\ call' = [call EXCEPT ![c] = Answered(e)]
  BY DEF Hit
<1>2. PICK e \in cache[w] : call' = [call EXCEPT ![c] = Answered(e)]
  BY <1>1 DEF cache_key
<1>3. e \in Entry
  BY <1>2, WantedAreKeys DEF IInv, TypeOK
<1>4. Answered(e) \in Call /\ Answered(e).pc = "answered"
  BY <1>3, AnsweredType
<1> QED
  BY <1>2, <1>4, QuietCallStep DEF Hit

LEMMA MissStep ==
    ASSUME IInv, NEW c \in Callers, Miss(c) PROVE IInv'
<1>1. PICK w \in Wanted :
         call' = [call EXCEPT ![c] = [Idle EXCEPT !.pc = "querying", !.for = w, !.seen = Seen(w), !.since = clock]]
  BY DEF Miss
<1> DEFINE new == [Idle EXCEPT !.pc = "querying", !.for = w, !.seen = Seen(w), !.since = clock]
<1>2. /\ Seen(w) \in Results /\ DOMAIN Seen(w) = w
      /\ \A s \in w : Seen(w)[s] = Len(changed[s])
  BY SeenType DEF IInv
<1>3. new \in Call /\ new.for = w /\ new.seen = Seen(w) /\ new.since = clock
  BY <1>2, WantedAreKeys, IdleType DEF IInv, TypeOK, Call, Idle
<1>4. \A s \in w : \A i \in DOMAIN changed[s] : ~(i > Seen(w)[s])
  BY <1>2, WantedAreKeys DEF IInv, TypeOK
<1>5. call' = [call EXCEPT ![c] = new]
  BY <1>1
<1> HIDE DEF new
<1>6. \A s \in new.for :
         /\ \A i \in DOMAIN changed[s] : i > new.seen[s] => changed[s][i] >= new.since
         /\ ~new.raced => new.seen[s] = Len(changed[s])
  BY <1>2, <1>3, <1>4
<1>7. new.since <= clock /\ UNCHANGED <<changed, notices, cache, clock, lost>>
  BY <1>3 DEF Miss, IInv, TypeOK
<1> QED
  BY <1>2, <1>3, <1>5, <1>6, <1>7, QuietCallStep

LEMMA IntrospectStep ==
    ASSUME IInv, NEW c \in Callers, Introspect(c) PROVE IInv'
<1>1. CASE call' = [call EXCEPT ![c] = Idle]
  BY <1>1, IdleType, QuietCallStep DEF Introspect, Idle
<1>2. CASE \E saw \in [call[c].for -> 0..MaxChanges] :
              /\ \A s \in call[c].for : call[c].seen[s] <= saw[s] /\ saw[s] <= Len(changed[s])
              /\ call' = [call EXCEPT ![c].pc = "fetched", ![c].seen = saw]
  <2>1. PICK saw \in [call[c].for -> 0..MaxChanges] :
           /\ \A s \in call[c].for : call[c].seen[s] <= saw[s] /\ saw[s] <= Len(changed[s])
           /\ call' = [call EXCEPT ![c].pc = "fetched", ![c].seen = saw]
    BY <1>2
  <2> DEFINE new == [call[c] EXCEPT !.pc = "fetched", !.seen = saw]
  <2>2. call[c] \in Call /\ InFlight(c) /\ call[c].for \in Wanted
    BY DEF Introspect, IInv, TypeOK, Shapes, InFlight
  <2>3. call' = [call EXCEPT ![c] = new]
    BY <2>1, <2>2 DEF IInv, TypeOK
  <2>4. saw \in [call[c].for -> Nat]
    BY CacheAssumption DEF CacheAssumption
  <2>5. saw \in Results /\ DOMAIN saw = call[c].for
    <3>1. call[c].for \in SUBSET SchemaNames
      BY <2>2, WantedAreKeys
    <3> QED
      BY <2>4, <3>1, ResultType
  <2>6. /\ new \in Call /\ new.for = call[c].for /\ new.seen = saw
        /\ new.since = call[c].since /\ new.raced = call[c].raced
    BY <2>2, <2>5 DEF Call
  <2>7. \A s \in call[c].for : call[c].seen[s] \in Nat /\ saw[s] \in Nat /\ Len(changed[s]) \in Nat /\ DOMAIN changed[s] \subseteq Nat
    <3>1. call[c].seen \in [call[c].for -> Nat]
      BY <2>2 DEF Call, Results, IInv, Shapes
    <3> QED
      BY <3>1, <2>2, <2>4, WantedAreKeys DEF IInv, TypeOK
  <2> HIDE DEF new
  <2>8. \A s \in new.for :
           /\ \A i \in DOMAIN changed[s] : i > new.seen[s] => changed[s][i] >= new.since
           /\ ~new.raced => new.seen[s] = Len(changed[s])
    BY <2>1, <2>2, <2>6, <2>7 DEF IInv, CallsKnow
  <2>9. new.since <= clock
    BY <2>2, <2>6 DEF IInv, CallsKnow
  <2> QED
    BY <2>2, <2>3, <2>5, <2>6, <2>8, <2>9, QuietCallStep DEF Introspect
<1> QED
  BY <1>1, <1>2 DEF Introspect

LEMMA ReturnStep ==
    ASSUME IInv, NEW c \in Callers, Return(c) PROVE IInv'
BY IdleType, QuietCallStep DEF Return, Idle

LEMMA InsertStep ==
    ASSUME IInv, NEW c \in Callers, Insert(c) PROVE IInv'
<1> DEFINE k == call[c].for
           entry == [seen |-> call[c].seen, at |-> clock, took |-> clock - call[c].since, raced |-> call[c].raced]
<1>1. /\ cache' = [cache EXCEPT ![k] = {entry}]
      /\ call' = [call EXCEPT ![c] = Answered(entry)]
      /\ UNCHANGED <<changed, notices, listening, clock, lost>>
  BY DEF Insert, cache_key
<1>2. call[c] \in Call /\ InFlight(c) /\ k \in Keys /\ k \subseteq SchemaNames /\ DOMAIN call[c].seen = k
  BY WantedAreKeys DEF Insert, IInv, TypeOK, Shapes, InFlight
<1>3. /\ call[c].since <= clock /\ call[c].since \in Nat /\ clock \in Nat
      /\ \A s \in k :
            /\ \A i \in DOMAIN changed[s] : i > call[c].seen[s] => changed[s][i] >= call[c].since
            /\ ~call[c].raced => call[c].seen[s] = Len(changed[s])
  BY <1>2 DEF IInv, CallsKnow, TypeOK, Call
<1>4. /\ entry \in Entry /\ entry.seen = call[c].seen /\ entry.raced = call[c].raced
      /\ entry.at - entry.took = call[c].since /\ entry.at = clock
  BY <1>2, <1>3 DEF Entry, Call
<1> HIDE DEF k, entry
<1>5. Answered(entry) \in Call /\ Answered(entry).pc = "answered"
  BY <1>4, AnsweredType
<1>6. /\ call' \in [Callers -> Call]
      /\ \A d \in Callers : InFlight(d)' => call'[d].for \in Wanted /\ DOMAIN call'[d].seen = call'[d].for
      /\ CallsKnow'
  BY <1>1, <1>5, CallStep
<1>7. cache' \in [Keys -> SUBSET Entry]
  BY <1>1, <1>2, <1>4 DEF IInv, TypeOK
<1>8. cache'[k] = {entry} /\ \A j \in Keys \ {k} : cache'[j] = cache[j]
  BY <1>1, <1>2 DEF IInv, TypeOK
<1>9. TypeOK'
  BY <1>1, <1>6, <1>7 DEF IInv, TypeOK
<1>10. Shapes'
  BY <1>2, <1>4, <1>6, <1>8 DEF IInv, Shapes
<1>11. EntriesKnow'
  BY <1>1, <1>3, <1>4, <1>8 DEF IInv, EntriesKnow
<1>12. StaleEvicted'
  <2>1. \A s \in k : Len(changed[s]) \in Nat
    BY <1>2 DEF IInv, TypeOK
  <2>2. \A e \in cache'[k] : \A s \in k : ~e.raced => ~(e.seen[s] < Len(changed'[s]))
    BY <1>1, <1>3, <1>4, <1>8, <2>1
  <2> QED
    BY <1>1, <1>8, <2>2 DEF IInv, StaleEvicted
<1> QED
  BY <1>6, <1>9, <1>10, <1>11, <1>12 DEF IInv

LEMMA ChangeStep ==
    ASSUME IInv, NEW s \in SchemaNames, Change(s) PROVE IInv'
<1>1. /\ changed' = [changed EXCEPT ![s] = Append(changed[s], clock)]
      /\ call' = [c \in Callers |->
            IF call[c].pc \in {"querying", "fetched"} /\ s \in call[c].for THEN [call[c] EXCEPT !.raced = TRUE] ELSE call[c]]
      /\ UNCHANGED <<listening, cache, clock, lost>>
  BY DEF Change
<1>2. PICK n \in Notices : notices' = Append(notices, IF n = "all" THEN Keys ELSE {{s}})
  BY DEF Change
<1> DEFINE evicted == IF n = "all" THEN Keys ELSE {{s}}
<1>3. {s} \in evicted /\ evicted \in SUBSET Keys
  BY DEF Keys
<1> HIDE DEF evicted
<1>4. /\ changed[s] \in Seq(Nat) /\ clock \in Nat
      /\ changed'[s] = Append(changed[s], clock)
      /\ \A t \in SchemaNames \ {s} : changed'[t] = changed[t]
      /\ notices' = Append(notices, evicted) /\ notices \in Seq(SUBSET Keys)
  BY <1>1, <1>2 DEF IInv, TypeOK, evicted
<1>5. \A t \in SchemaNames :
         /\ Len(changed[t]) <= Len(changed'[t])
         /\ \A i \in DOMAIN changed'[t] : changed'[t][i] = clock \/ (i \in DOMAIN changed[t] /\ changed'[t][i] = changed[t][i])
  <2>1. /\ Len(changed'[s]) = Len(changed[s]) + 1 /\ Len(changed[s]) \in Nat
        /\ DOMAIN changed[s] = 1..Len(changed[s]) /\ DOMAIN changed'[s] = 1..(Len(changed[s]) + 1)
        /\ \A i \in 1..Len(changed[s]) : changed'[s][i] = changed[s][i]
        /\ changed'[s][Len(changed[s]) + 1] = clock
    BY <1>4, AppendProperties, LenProperties
  <2>2. \A i \in DOMAIN changed'[s] : i \in DOMAIN changed[s] \/ i = Len(changed[s]) + 1
    BY <2>1
  <2>3. \A t \in SchemaNames : Len(changed[t]) \in Nat
    BY LenProperties DEF IInv, TypeOK
  <2>4. \A t \in SchemaNames \ {s} : Len(changed[t]) <= Len(changed'[t]) /\ \A i \in DOMAIN changed'[t] : i \in DOMAIN changed[t] /\ changed'[t][i] = changed[t][i]
    BY <1>4, <2>3
  <2>5. Len(changed[s]) <= Len(changed'[s])
    BY <2>1
  <2>6. \A i \in DOMAIN changed'[s] : changed'[s][i] = clock \/ (i \in DOMAIN changed[s] /\ changed'[s][i] = changed[s][i])
    BY <2>1, <2>2
  <2> QED
    BY <2>4, <2>5, <2>6
<1>6. /\ evicted = notices'[Len(notices')] /\ Len(notices') \in DOMAIN notices'
      /\ \A i \in DOMAIN notices : i \in DOMAIN notices' /\ notices'[i] = notices[i]
  BY <1>3, <1>4, AppendProperties
<1>7. \A c \in Callers :
         /\ call'[c] \in Call
         /\ InFlight(c)' = InFlight(c)
         /\ UNCHANGED <<call[c].for, call[c].seen, call[c].since>>
         /\ InFlight(c) /\ ~call'[c].raced => s \notin call[c].for /\ ~call[c].raced
  BY <1>1 DEF IInv, TypeOK, Call, InFlight
<1>8. TypeOK'
  <2>1. changed' \in [SchemaNames -> Seq(Nat)]
    BY <1>1, <1>4, AppendProperties DEF IInv, TypeOK
  <2>2. notices' \in Seq(SUBSET Keys)
    BY <1>3, <1>4, AppendProperties
  <2>3. call' \in [Callers -> Call]
    BY <1>1, <1>7
  <2> QED
    BY <1>1, <2>1, <2>2, <2>3 DEF IInv, TypeOK
<1>9. Shapes'
  BY <1>1, <1>7 DEF IInv, Shapes
<1>10. CallsKnow'
  <2> SUFFICES ASSUME NEW c \in Callers, InFlight(c)', NEW t \in call'[c].for
               PROVE  /\ call'[c].since <= clock'
                      /\ \A i \in DOMAIN changed'[t] : i > call'[c].seen[t] => changed'[t][i] >= call'[c].since
                      /\ ~call'[c].raced => call'[c].seen[t] = Len(changed'[t])
    <3>1. \A c \in Callers : InFlight(c)' => call'[c].since <= clock'
      BY <1>1, <1>7 DEF IInv, CallsKnow
    <3> QED
      BY <3>1 DEF CallsKnow
  <2>1. /\ InFlight(c) /\ t \in call[c].for /\ t \in SchemaNames
        /\ call[c].since <= clock /\ call[c].since \in Nat
    BY <1>7, WantedAreKeys DEF IInv, Shapes, CallsKnow, TypeOK, Call
  <2>2. \A i \in DOMAIN changed'[t] : i > call'[c].seen[t] => changed'[t][i] >= call'[c].since
    BY <1>4, <1>5, <1>7, <2>1 DEF IInv, CallsKnow
  <2>3. ~call'[c].raced => call'[c].seen[t] = Len(changed'[t])
    BY <1>4, <1>7, <2>1 DEF IInv, CallsKnow
  <2> QED
    BY <1>1, <1>7, <2>1, <2>2, <2>3
<1>11. EntriesKnow'
  <2> SUFFICES ASSUME NEW k \in Keys, NEW e \in cache[k], NEW t \in k, NEW i \in DOMAIN changed'[t], i > e.seen[t]
               PROVE  changed'[t][i] >= e.at - e.took
    BY <1>1 DEF IInv, EntriesKnow
  <2>1. t \in SchemaNames /\ e \in Entry
    BY DEF Keys, IInv, TypeOK
  <2>2. e.at \in Nat /\ e.took \in Nat /\ e.at <= clock
    BY <2>1 DEF Entry, IInv, EntriesKnow
  <2>3. clock >= e.at - e.took
    BY <1>4, <2>2
  <2>4. i \in DOMAIN changed[t] => changed[t][i] >= e.at - e.took
    BY DEF IInv, EntriesKnow
  <2> QED
    BY <1>5, <2>1, <2>3, <2>4
<1>12. StaleEvicted'
  <2> SUFFICES ASSUME ~lost, NEW k \in Keys, NEW e \in cache[k], NEW t \in k,
                      k = {t}, ~e.raced, e.seen[t] < Len(changed'[t])
               PROVE  \E i \in DOMAIN notices' : k \in notices'[i]
    BY <1>1 DEF StaleEvicted
  <2>1. CASE t = s
    BY <1>3, <1>6, <2>1
  <2>2. CASE t # s
    <3>1. t \in SchemaNames /\ changed'[t] = changed[t]
      BY <1>4, <2>2 DEF Keys
    <3>2. \E i \in DOMAIN notices : k \in notices[i]
      BY <3>1 DEF IInv, StaleEvicted
    <3> QED
      BY <1>6, <3>2
  <2> QED
    BY <2>1, <2>2
<1> QED
  BY <1>8, <1>9, <1>10, <1>11, <1>12 DEF IInv

LEMMA ListenStep ==
    ASSUME IInv, Listen PROVE IInv'
<1>1. /\ ~(notices = <<>>) /\ notices \in Seq(SUBSET Keys)
      /\ cache' = [k \in Keys |-> IF k \in Head(notices) THEN {} ELSE cache[k]]
      /\ notices' = Tail(notices)
      /\ UNCHANGED <<changed, call, clock, lost>>
  BY DEF Listen, IInv, TypeOK
<1>2. \A k \in Keys : cache'[k] \subseteq cache[k] /\ (k \in Head(notices) => cache'[k] = {})
  BY <1>1
<1>3. TypeOK'
  BY <1>1, <1>2, HeadTailProperties DEF IInv, TypeOK
<1>4. Shapes' /\ CallsKnow' /\ EntriesKnow'
  BY <1>1, <1>2 DEF IInv, Shapes, CallsKnow, EntriesKnow, InFlight
<1>5. StaleEvicted'
  <2> SUFFICES ASSUME ~lost, NEW k \in Keys, NEW e \in cache'[k], NEW t \in k,
                      k = {t}, ~e.raced, e.seen[t] < Len(changed[t])
               PROVE  \E i \in DOMAIN notices' : k \in notices'[i]
    BY <1>1 DEF StaleEvicted
  <2>1. PICK i \in DOMAIN notices : k \in notices[i]
    BY <1>2 DEF IInv, StaleEvicted
  <2>2. k \notin Head(notices) /\ Head(notices) = notices[1]
    BY <1>1, <1>2
  <2>3. i # 1 /\ i \in 1..Len(notices)
    BY <1>1, <2>1, <2>2
  <2>4. i - 1 \in DOMAIN notices' /\ notices'[i - 1] = notices[i]
    BY <1>1, <2>3, HeadTailProperties
  <2> QED
    BY <2>1, <2>4
<1> QED
  BY <1>3, <1>4, <1>5 DEF IInv

LEMMA IInvStep == IInv /\ [Next]_vars => IInv'
<1> SUFFICES ASSUME IInv, [Next]_vars PROVE IInv'
  OBVIOUS
<1>1. CASE Drop
  <2>1. UNCHANGED <<changed, cache, call, clock>> /\ notices' = <<>> /\ lost' = TRUE
    BY <1>1 DEF Drop
  <2>2. TypeOK'
    BY <2>1, EmptySeq DEF IInv, TypeOK
  <2> QED
    BY <2>1, <2>2 DEF IInv, Shapes, CallsKnow, EntriesKnow, StaleEvicted, InFlight
<1>2. CASE ListenerExits
  <2>1. UNCHANGED <<changed, notices, cache, call, clock>> /\ lost' = TRUE
    BY <1>2 DEF ListenerExits
  <2> QED
    BY <2>1 DEF IInv, TypeOK, Shapes, CallsKnow, EntriesKnow, StaleEvicted, InFlight
<1>3. CASE Tick
  <2>1. UNCHANGED <<changed, notices, cache, call, lost>> /\ clock' = clock + 1 /\ clock \in Nat
    BY <1>3 DEF Tick, IInv, TypeOK
  <2>2. TypeOK' /\ Shapes'
    BY <2>1 DEF IInv, TypeOK, Shapes, InFlight
  <2>3. CallsKnow'
    <3>1. \A c \in Callers : call[c].since \in Nat
      BY DEF IInv, TypeOK, Call
    <3>2. \A c \in Callers : call[c].since <= clock => call[c].since <= clock'
      BY <2>1, <3>1
    <3> QED
      BY <2>1, <3>2 DEF IInv, CallsKnow, InFlight
  <2>4. EntriesKnow'
    <3>1. \A k \in Keys : \A e \in cache[k] : e.at \in Nat
      BY DEF IInv, TypeOK, Entry
    <3>2. \A k \in Keys : \A e \in cache[k] : e.at <= clock => e.at <= clock'
      BY <2>1, <3>1
    <3> QED
      BY <2>1, <3>2 DEF IInv, EntriesKnow
  <2>5. StaleEvicted'
    BY <2>1 DEF IInv, StaleEvicted
  <2> QED
    BY <2>2, <2>3, <2>4, <2>5 DEF IInv
<1>4. CASE UNCHANGED vars
  BY <1>4 DEF vars, IInv, TypeOK, Shapes, CallsKnow, EntriesKnow, StaleEvicted, InFlight
<1> QED
  BY <1>1, <1>2, <1>3, <1>4, HitStep, MissStep, IntrospectStep, InsertStep, ReturnStep, ChangeStep, ListenStep
  DEF Next

LEMMA Inductive == Spec => []IInv
BY IInvInit, IInvStep, PTL DEF Spec

-----------------------------------------------------------------------------
\* While no notice was lost, a notice on its way will evict every live entry of one schema
\* that a change has made stale, unless the change came while the entry was being filled
\* (cache.rs, listen_loop and get_or_introspect): for any number of callers and changes.
THEOREM StaleEntriesAreNoticed == Spec => []StaleIsNoticed
<1>1. IInv => StaleIsNoticed
  <2> SUFFICES ASSUME IInv, NEW k \in Keys, NEW e \in cache[k],
                      ~lost, Cardinality(k) = 1, ~e.raced,
                      NEW s \in DOMAIN e.seen, e.seen[s] < Len(changed[s])
               PROVE  \E i \in DOMAIN notices : k \in notices[i]
    BY DEF StaleIsNoticed
  <2>1. s \in k /\ k = {s}
    BY OneSchema DEF IInv, Shapes
  <2> QED
    BY <2>1 DEF IInv, StaleEvicted
<1> QED
  BY <1>1, Inductive, PTL

\* An answer misses no change older than the time to live and the time its entry took to
\* fill (cache.rs, time_to_live), whatever becomes of notices and the listener.
THEOREM AnswersAreFreshEnough == Spec => StaleWithinTtl
<1> DEFINE Fresh(c) == call'[c].pc = "answered" /\ call[c].pc # "answered" =>
               \A s \in DOMAIN call'[c].seen : \A i \in DOMAIN changed[s] :
                   i > call'[c].seen[s] => clock - changed[s][i] < TimeToLive + call'[c].took
<1>1. ASSUME IInv, NEW d \in Callers, Hit(d), NEW c \in Callers PROVE Fresh(c)
  <2>1. PICK w \in Wanted : \E e \in cache[w] : Live(e) /\ call' = [call EXCEPT ![d] = Answered(e)]
    BY <1>1 DEF Hit, cache_key
  <2>2. PICK e \in cache[w] : Live(e) /\ call' = [call EXCEPT ![d] = Answered(e)]
    BY <2>1
  <2>3. e \in Entry /\ w \in Keys /\ DOMAIN e.seen = w
    BY <1>1, WantedAreKeys DEF IInv, TypeOK, Shapes
  <2>4. CASE c # d
    BY <1>1, <2>2, <2>4 DEF IInv, TypeOK
  <2>5. CASE c = d
    <3>1. call'[c].seen = e.seen /\ call'[c].took = e.took
      BY <1>1, <2>2, <2>3, <2>5, AnsweredType DEF IInv, TypeOK
    <3>2. ASSUME NEW s \in w, NEW i \in DOMAIN changed[s], i > e.seen[s]
          PROVE  clock - changed[s][i] < TimeToLive + e.took
      <4>1. changed[s][i] >= e.at - e.took
        BY <1>1, <2>3, <3>2 DEF IInv, EntriesKnow
      <4>2. changed[s][i] \in Nat
        BY <1>1, WantedAreKeys, ElementOfSeq DEF IInv, TypeOK
      <4>3. e.at \in Nat /\ e.took \in Nat /\ clock \in Nat /\ clock < e.at + TimeToLive /\ TimeToLive \in Nat
        BY <1>1, <2>2, <2>3, CacheAssumption DEF Entry, Live, CacheAssumption, IInv, TypeOK
      <4> QED
        BY <4>1, <4>2, <4>3
    <3> QED
      BY <2>3, <3>1, <3>2
  <2> QED
    BY <2>4, <2>5
<1>2. ASSUME IInv, NEW d \in Callers, Insert(d), NEW c \in Callers PROVE Fresh(c)
  <2> DEFINE entry == [seen |-> call[d].seen, at |-> clock, took |-> clock - call[d].since, raced |-> call[d].raced]
  <2>1. call' = [call EXCEPT ![d] = Answered(entry)]
    BY <1>2 DEF Insert
  <2>2. call[d] \in Call /\ InFlight(d) /\ call[d].for \in Wanted /\ DOMAIN call[d].seen = call[d].for
    BY <1>2 DEF Insert, IInv, TypeOK, Shapes, InFlight
  <2>3. clock \in Nat /\ call[d].since \in Nat /\ call[d].since <= clock /\ TimeToLive \in Nat \ {0}
    BY <1>2, <2>2, CacheAssumption DEF IInv, TypeOK, Call, CallsKnow, CacheAssumption
  <2>4. entry \in Entry
    BY <2>2, <2>3 DEF Entry, Call
  <2>5. CASE c # d
    BY <1>2, <2>1, <2>5 DEF IInv, TypeOK
  <2>6. CASE c = d
    <3>1. call'[c].seen = call[d].seen /\ call'[c].took = clock - call[d].since
      BY <1>2, <2>1, <2>4, <2>6, AnsweredType DEF IInv, TypeOK
    <3>2. ASSUME NEW s \in call[d].for, NEW i \in DOMAIN changed[s], i > call[d].seen[s]
          PROVE  clock - changed[s][i] < TimeToLive + (clock - call[d].since)
      <4>1. changed[s][i] >= call[d].since
        BY <1>2, <2>2, <3>2 DEF IInv, CallsKnow
      <4>2. changed[s][i] \in Nat
        BY <1>2, <2>2, WantedAreKeys, ElementOfSeq DEF IInv, TypeOK
      <4> QED
        BY <2>3, <4>1, <4>2
    <3> QED
      BY <2>2, <3>1, <3>2
  <2> QED
    BY <2>5, <2>6
<1>3. ASSUME IInv, NEW d \in Callers, Miss(d) \/ Introspect(d) \/ Return(d), NEW c \in Callers
      PROVE  Fresh(c)
  <2>1. CASE c # d
    BY <1>3, <2>1 DEF Miss, Introspect, Return, IInv, TypeOK
  <2>2. CASE c = d
    <3>1. call[d] \in Call /\ DOMAIN call = Callers
      BY <1>3 DEF IInv, TypeOK
    <3>2. call'[d].pc \in {"idle", "querying", "fetched"}
      <4> HIDE DEF Fresh
      <4>1. CASE Miss(d)
        BY <3>1, <4>1 DEF Miss, Idle
      <4>2. CASE Introspect(d)
        BY <3>1, <4>2 DEF Introspect, Idle, Call
      <4>3. CASE Return(d)
        BY <3>1, <4>3 DEF Return, Idle
      <4> QED
        BY <1>3, <4>1, <4>2, <4>3
    <3> QED
      BY <2>2, <3>2
  <2> QED
    BY <2>1, <2>2
<1>4. ASSUME IInv, NEW s \in SchemaNames, Change(s), NEW c \in Callers PROVE call'[c].pc = call[c].pc
  BY <1>4 DEF Change, IInv, TypeOK, Call
<1>5. Listen \/ Drop \/ ListenerExits \/ Tick => UNCHANGED call
  BY DEF Listen, Drop, ListenerExits, Tick
<1>6. IInv /\ [Next]_vars => [\A c \in Callers : Fresh(c)]_vars
  <2> SUFFICES ASSUME IInv, Next, NEW c \in Callers PROVE Fresh(c)
    OBVIOUS
  <2> QED
    BY <1>1, <1>2, <1>3, <1>4, <1>5 DEF Next
<1> QED
  BY <1>6, Inductive, PTL DEF Spec, StaleWithinTtl

-----------------------------------------------------------------------------
(***************************************************************************)
(* Capture.  The last row of a finite table, and labels by their places.   *)
(***************************************************************************)
\* The rows of a finite table have a last one, by a column that is a number.
LEMMA LatestIs ==
    ASSUME NEW rows, NEW key, IsFiniteSet(rows), rows # {}, \A r \in rows : r[key] \in Nat
    PROVE  /\ Snap!Latest(rows, key) \in rows
           /\ \A s \in rows : s[key] <= Snap!Latest(rows, key)[key]
<1> DEFINE Above(x) == {s \in rows : x[key] < s[key]}
           Tails == {Above(x) : x \in rows}
           order == StrictSubsetOrdering(rows)
<1>1. Tails \subseteq FiniteSubsetsOf(rows)
  <2> SUFFICES ASSUME NEW x \in rows PROVE Above(x) \in FiniteSubsetsOf(rows)
    OBVIOUS
  <2>1. Above(x) \in SUBSET rows
    OBVIOUS
  <2>2. IsFiniteSet(Above(x))
    BY <2>1, FS_Subset
  <2> QED
    BY <2>1, <2>2 DEF FiniteSubsetsOf
<1>2. IsWellFoundedOn(order, FiniteSubsetsOf(rows))
  BY FS_StrictSubsetOrderingWellFounded
<1>3. Tails # {}
  OBVIOUS
<1> HIDE DEF order
<1>4. PICK least \in Tails : \A tail \in Tails : ~ (<<tail, least>> \in order)
  <2> HIDE DEF Tails
  <2> QED
    BY <1>1, <1>2, <1>3, WFMin
<1>5. PICK x \in rows : least = Above(x)
  OBVIOUS
<1>6. Above(x) = {}
  <2> SUFFICES ASSUME NEW y \in rows, x[key] < y[key] PROVE FALSE
    OBVIOUS
  <2>1. Above(y) \subseteq Above(x) /\ Above(y) # Above(x)
    <3>1. x[key] \in Nat /\ y[key] \in Nat
      OBVIOUS
    <3>2. y \in Above(x) /\ y \notin Above(y)
      BY <3>1
    <3>3. ASSUME NEW z \in Above(y) PROVE z \in Above(x)
      <4>1. z[key] \in Nat
        OBVIOUS
      <4> QED
        BY <3>1, <4>1
    <3> QED
      BY <3>2, <3>3
  <2>2. <<Above(y), Above(x)>> \in order
    BY <2>1 DEF order, StrictSubsetOrdering
  <2> QED
    BY <1>4, <1>5, <2>2
<1>7. \A s \in rows : s[key] <= x[key]
  <2> SUFFICES ASSUME NEW s \in rows PROVE s[key] <= x[key]
    OBVIOUS
  <2>1. s[key] \in Nat /\ x[key] \in Nat /\ ~(x[key] < s[key])
    BY <1>6
  <2> QED
    BY <2>1
<1> QED
  BY <1>7 DEF Snap!Latest

\* The labels of an enumeration, by the places of their rows.
Places(rows, labels) ==
    \E place \in [rows -> DOMAIN labels] :
        /\ \A i \in DOMAIN labels : \E d \in rows : place[d] = i
        /\ \A d, e \in rows : d.sort_order < e.sort_order => place[d] < place[e]
        /\ \A d \in rows : labels[place[d]] = d.label

\* The rows of one enumeration have different numbers, and its labels are in their order.
LEMMA LabelsAre ==
    ASSUME NEW rows, IsFiniteSet(rows), \A d \in rows : d.sort_order \in Nat,
           \A d, e \in rows : d.sort_order = e.sort_order => d = e
    PROVE  Places(rows, Snap!Labels(rows)) /\ DOMAIN Snap!Labels(rows) \subseteq Nat
<1>1. \A A : Snap!Cardinality(A) = Cardinality(A)
  BY DEF Snap!Cardinality, Snap!IsFiniteSet, Cardinality, IsFiniteSet
<1> DEFINE before(d) == {e \in rows : e.sort_order < d.sort_order}
           size == Snap!Cardinality(rows)
           place == [d \in rows |-> Snap!Cardinality(before(d)) + 1]
<1>2. size \in Nat
  BY <1>1, FS_CardinalityType
<1>3. ASSUME NEW d \in rows PROVE place[d] \in 1..size
  <2>1. before(d) \in SUBSET rows /\ d \notin before(d)
    <3>1. d.sort_order \in Nat
      OBVIOUS
    <3> QED
      BY <3>1
  <2>2. IsFiniteSet(before(d)) /\ Cardinality(before(d)) <= size /\ Cardinality(before(d)) # size
    BY <1>1, <2>1, FS_Subset
  <2>3. Cardinality(before(d)) \in Nat
    BY <2>2, FS_CardinalityType
  <2> HIDE DEF before, size
  <2> QED
    BY <1>1, <1>2, <2>2, <2>3
<1>4. ASSUME NEW d \in rows, NEW e \in rows, d.sort_order < e.sort_order PROVE place[d] < place[e]
  <2>1. d.sort_order \in Nat /\ e.sort_order \in Nat
    OBVIOUS
  <2>2. d \in before(e) /\ d \notin before(d)
    BY <1>4, <2>1
  <2>3. before(d) \subseteq before(e)
    <3> SUFFICES ASSUME NEW f \in before(d) PROVE f \in before(e)
      OBVIOUS
    <3>1. f.sort_order \in Nat /\ f.sort_order < d.sort_order
      OBVIOUS
    <3> QED
      BY <1>4, <2>1, <3>1
  <2>4. before(e) \in SUBSET rows
    OBVIOUS
  <2>5. IsFiniteSet(before(e))
    BY <2>4, FS_Subset
  <2>6. before(d) \in SUBSET before(e) /\ before(d) # before(e)
    BY <2>2, <2>3
  <2>7. IsFiniteSet(before(d)) /\ Cardinality(before(d)) <= Cardinality(before(e)) /\ Cardinality(before(d)) # Cardinality(before(e))
    BY <2>5, <2>6, FS_Subset
  <2>8. Cardinality(before(d)) \in Nat /\ Cardinality(before(e)) \in Nat
    BY <2>5, <2>7, FS_CardinalityType
  <2> HIDE DEF before
  <2> QED
    BY <1>1, <2>7, <2>8
<1>5. ASSUME NEW d \in rows, NEW e \in rows, place[d] = place[e] PROVE d = e
  <2>1. d.sort_order \in Nat /\ e.sort_order \in Nat
    OBVIOUS
  <2>2. place[d] \in 1..size /\ place[e] \in 1..size
    BY <1>3
  <2>3. ~(place[d] < place[e]) /\ ~(place[e] < place[d])
    BY <1>5, <2>2
  <2>4. ~(d.sort_order < e.sort_order) /\ ~(e.sort_order < d.sort_order)
    BY <1>4, <2>3
  <2> QED
    BY <2>1, <2>4
<1>6. \A i \in 1..size : \E d \in rows : place[d] = i
  <2> HIDE DEF before
  <2>1. place \in Injection(rows, 1..size)
    <3>1. place \in [rows -> 1..size]
      BY <1>3
    <3> HIDE DEF place
    <3> QED
      BY <1>5, <3>1 DEF Injection, IsInjective
  <2>2. IsFiniteSet(1..size) /\ Cardinality(1..size) = size
    <3> HIDE DEF size
    <3> QED
      BY <1>2, FS_Interval
  <2>3. place \in Surjection(rows, 1..size)
    <3>1. Cardinality(rows) = size
      BY <1>1
    <3> HIDE DEF place
    <3> QED
      BY <2>1, <2>2, <3>1, FS_Injection
  <2> HIDE DEF place, size
  <2> QED
    BY <2>3 DEF Surjection
<1>7. Snap!Labels(rows) = [i \in 1..size |-> (CHOOSE d \in rows : Snap!Cardinality(before(d)) + 1 = i).label]
  BY DEF Snap!Labels
<1>8. ASSUME NEW d \in rows PROVE Snap!Labels(rows)[place[d]] = d.label
  <2> DEFINE there == CHOOSE e \in rows : Snap!Cardinality(before(e)) + 1 = place[d]
  <2>1. there \in rows /\ place[there] = place[d]
    <3> HIDE DEF before
    <3> QED
      OBVIOUS
  <2>2. there = d
    <3> HIDE DEF place, there
    <3> QED
      BY <1>5, <2>1
  <2>3. Snap!Labels(rows)[place[d]] = there.label
    <3> HIDE DEF before, size
    <3> QED
      BY <1>3, <1>7
  <2> QED
    BY <2>2, <2>3
<1> HIDE DEF before, size
<1>9. place \in [rows -> 1..size]
  BY <1>3
<1>10. DOMAIN Snap!Labels(rows) = 1..size
  BY <1>7
<1> HIDE DEF place
<1> QED
  BY <1>2, <1>4, <1>6, <1>8, <1>9, <1>10 DEF Places

(***************************************************************************)
(* What the queries return, that ran over these catalogs.                  *)
(***************************************************************************)
QueryNames == {"namespaces", "classes", "attributes", "constraints", "procs", "types", "enums", "indexes", "descriptions"}

Introspects(dbs) ==
    [namespaces   |-> Snap!fetch_namespaces(dbs["namespaces"]),
     classes      |-> Snap!fetch_classes(dbs["classes"]),
     attributes   |-> Snap!fetch_attributes(dbs["attributes"]),
     constraints  |-> Snap!fetch_constraints(dbs["constraints"]),
     procs        |-> Snap!fetch_procs(dbs["procs"]),
     types        |-> Snap!fetch_types(dbs["types"]),
     enums        |-> Snap!fetch_enums(dbs["enums"]),
     indexes      |-> Snap!fetch_indexes(dbs["indexes"]),
     descriptions |-> Snap!fetch_descriptions(dbs["descriptions"])]

\* The column of a relation that a row of pg_attribute describes.
Describes(dbs, p, a, column) ==
    /\ a \in Snap!Live(dbs["attributes"], p, column.name)
    /\ a.attnotnull = ~column.nullable
    /\ column.data_type = "unknown" \/ Snap!Typed(dbs["types"], a.atttypid, column.data_type)

LEMMA NamesAre ==
    ASSUME NEW rows, NEW oid, NEW otherwise
    PROVE  /\ Snap!NameOf(rows, oid, otherwise) = otherwise
              \/ \E r \in rows : r.oid = oid /\ r.name = Snap!NameOf(rows, oid, otherwise)
           /\ \A r \in rows : r.oid = oid /\ (\A s \in rows : s.oid = oid => s = r)
                              => Snap!NameOf(rows, oid, otherwise) = r.name
BY DEF Snap!NameOf

LEMMA KindsAre ==
    ASSUME NEW kinds, NEW char, NEW k \in DOMAIN kinds
    PROVE  /\ Snap!Or(Snap!from_char(kinds, char), kinds[k]) \in Snap!Kinds(kinds)
           /\ Snap!from_char(kinds, char) \in SUBSET Snap!Kinds(kinds)
BY DEF Snap!Or, Snap!from_char, Snap!Kinds

\* Every query returns rows of its type.
LEMMA RowsAreTyped ==
    ASSUME NEW db, Snap!Sound(db)
    PROVE  /\ Snap!fetch_namespaces(db) \in SUBSET Snap!PgNamespace
           /\ Snap!fetch_classes(db) \in SUBSET Snap!PgClass
           /\ Snap!fetch_attributes(db) \in SUBSET Snap!PgAttribute
           /\ Snap!fetch_constraints(db) \in SUBSET Snap!PgConstraint
           /\ Snap!fetch_procs(db) \in SUBSET Snap!PgProc
           /\ Snap!fetch_types(db) \in SUBSET Snap!PgType
           /\ Snap!fetch_enums(db) \in SUBSET Snap!PgEnum
           /\ Snap!fetch_indexes(db) \in SUBSET Snap!PgIndex
           /\ Snap!fetch_descriptions(db) \in SUBSET Snap!PgDescription
<1>1. db \in Snap!Catalog
  BY DEF Snap!Sound
<1>2. Snap!fetch_namespaces(db) \in SUBSET Snap!PgNamespace
  BY <1>1 DEF Snap!Catalog, Snap!fetch_namespaces, Snap!QUERY_NAMESPACES, Snap!PgNamespace
<1>3. Snap!fetch_classes(db) \in SUBSET Snap!PgClass
  <2>1. "r" \in DOMAIN Snap!PgClassKind /\ Snap!PgClassKind["r"] = "table"
    BY DEF Snap!PgClassKind
  <2>2. \A char : Snap!Or(Snap!from_char(Snap!PgClassKind, char), "table") \in Snap!Kinds(Snap!PgClassKind)
    BY <2>1, KindsAre
  <2> QED
    BY <1>1, <2>2 DEF Snap!Catalog, Snap!fetch_classes, Snap!QUERY_CLASSES, Snap!PgClass
<1>4. Snap!fetch_attributes(db) \in SUBSET Snap!PgAttribute
  BY <1>1 DEF Snap!Catalog, Snap!fetch_attributes, Snap!QUERY_ATTRIBUTES, Snap!PgAttribute
<1>5. Snap!fetch_constraints(db) \in SUBSET Snap!PgConstraint
  <2>1. "c" \in DOMAIN Snap!PgConstraintKind /\ Snap!PgConstraintKind["c"] = "check"
    BY DEF Snap!PgConstraintKind
  <2>2. \A char : Snap!Or(Snap!from_char(Snap!PgConstraintKind, char), "check") \in Snap!Kinds(Snap!PgConstraintKind)
    BY <2>1, KindsAre
  <2>3. "c" \in DOMAIN Snap!ForeignKeyAction
    BY DEF Snap!ForeignKeyAction
  <2>4. \A char : Snap!from_char(Snap!ForeignKeyAction, char) \in SUBSET Snap!Kinds(Snap!ForeignKeyAction)
    BY <2>3, KindsAre
  <2> QED
    BY <1>1, <2>2, <2>4 DEF Snap!Catalog, Snap!fetch_constraints, Snap!QUERY_CONSTRAINTS, Snap!PgConstraint
<1>6. Snap!fetch_procs(db) \in SUBSET Snap!PgProc
  <2>1. "v" \in DOMAIN Snap!ProcVolatility /\ Snap!ProcVolatility["v"] = "volatile"
    BY DEF Snap!ProcVolatility
  <2>2. \A char : Snap!Or(Snap!from_char(Snap!ProcVolatility, char), "volatile") \in Snap!Kinds(Snap!ProcVolatility)
    BY <2>1, KindsAre
  <2> QED
    BY <1>1, <2>2 DEF Snap!Catalog, Snap!fetch_procs, Snap!QUERY_PROCS, Snap!PgProc
<1>7. Snap!fetch_types(db) \in SUBSET Snap!PgType
  BY <1>1 DEF Snap!Catalog, Snap!fetch_types, Snap!QUERY_TYPES, Snap!PgType
<1>8. Snap!fetch_enums(db) \in SUBSET Snap!PgEnum
  BY <1>1 DEF Snap!Catalog, Snap!fetch_enums, Snap!QUERY_ENUMS, Snap!PgEnum
<1>9. Snap!fetch_indexes(db) \in SUBSET Snap!PgIndex
  BY <1>1 DEF Snap!Catalog, Snap!fetch_indexes, Snap!QUERY_INDEXES, Snap!PgIndex
<1>10. Snap!fetch_descriptions(db) \in SUBSET Snap!PgDescription
  BY <1>1 DEF Snap!Catalog, Snap!fetch_descriptions, Snap!QUERY_DESCRIPTIONS, Snap!PgDescription
<1> QED
  BY <1>2, <1>3, <1>4, <1>5, <1>6, <1>7, <1>8, <1>9, <1>10

\* Only so many relations and labels are fetched as there are.
LEMMA RowsAreFinite ==
    ASSUME NEW db, Snap!Sound(db)
    PROVE  IsFiniteSet(Snap!fetch_classes(db)) /\ IsFiniteSet(Snap!fetch_enums(db))
<1>1. \A A : Snap!IsFiniteSet(A) <=> IsFiniteSet(A)
  BY DEF Snap!IsFiniteSet, IsFiniteSet
<1>2. IsFiniteSet(db.pg_class) /\ IsFiniteSet(db.pg_enum)
  BY <1>1 DEF Snap!Sound
<1>3. IsFiniteSet(Snap!QUERY_CLASSES(db)) /\ IsFiniteSet(Snap!QUERY_ENUMS(db))
  <2>1. Snap!QUERY_CLASSES(db) \in SUBSET db.pg_class /\ Snap!QUERY_ENUMS(db) \in SUBSET db.pg_enum
    BY DEF Snap!QUERY_CLASSES, Snap!QUERY_ENUMS
  <2> QED
    BY <1>2, <2>1, FS_Subset
<1> DEFINE row(c) == [oid |-> c.oid, name |-> c.relname, schema_oid |-> c.relnamespace,
                      kind |-> Snap!Or(Snap!from_char(Snap!PgClassKind, c.relkind), "table")]
           label(e) == [type_oid |-> e.enumtypid, sort_order |-> e.enumsortorder, label |-> e.enumlabel]
<1>4. IsFiniteSet(Snap!fetch_classes(db))
  <2> DEFINE f == [c \in Snap!QUERY_CLASSES(db) |-> row(c)]
  <2>1. f \in Surjection(Snap!QUERY_CLASSES(db), Snap!fetch_classes(db))
    BY DEF Snap!fetch_classes, Surjection
  <2> QED
    BY <1>3, <2>1, FS_Surjection
<1>5. IsFiniteSet(Snap!fetch_enums(db))
  <2> DEFINE f == [e \in Snap!QUERY_ENUMS(db) |-> label(e)]
  <2>1. f \in Surjection(Snap!QUERY_ENUMS(db), Snap!fetch_enums(db))
    BY DEF Snap!fetch_enums, Surjection
  <2> QED
    BY <1>3, <2>1, FS_Surjection
<1> QED
  BY <1>4, <1>5

\* A relation of the snapshot is one that its name means, and has the columns fetched for it.
Stands(dbs, r, name, p) ==
    /\ p \in Snap!QUERY_CLASSES(dbs["classes"])
    /\ name = <<Snap!NameOf(Snap!fetch_namespaces(dbs["namespaces"]), p.relnamespace, "public"), p.relname>>
    /\ Snap!TablesOf(r)[name].columns = {Snap!Column(r, a) : a \in {a \in r.attributes : a.class_oid = p.oid}}

LEMMA TableIs ==
    ASSUME NEW dbs, Snap!Sound(dbs["classes"]), NEW r, r = Introspects(dbs),
           NEW name \in DOMAIN Snap!TablesOf(r)
    PROVE  \E p \in dbs["classes"].pg_class : Stands(dbs, r, name, p)
<1> DEFINE filed == {d \in r.classes : Snap!Filed(r, d) = name}
           c == Snap!Latest(filed, "schema_oid")
<1>1. r.classes = Snap!fetch_classes(dbs["classes"]) /\ r.namespaces = Snap!fetch_namespaces(dbs["namespaces"])
  BY DEF Introspects
<1>2. IsFiniteSet(r.classes) /\ r.classes \in SUBSET Snap!PgClass
  BY <1>1, RowsAreFinite, RowsAreTyped
<1>3. DOMAIN Snap!TablesOf(r) = {Snap!Filed(r, d) : d \in r.classes}
  BY DEF Snap!TablesOf
<1>4. filed # {} /\ filed \in SUBSET r.classes
  BY <1>3
<1>5. IsFiniteSet(filed) /\ \A d \in filed : d["schema_oid"] \in Nat
  BY <1>2, <1>4, FS_Subset DEF Snap!PgClass
<1>6. c \in filed
  <2> HIDE DEF filed
  <2> QED
    BY <1>4, <1>5, LatestIs
<1>7. Snap!TablesOf(r)[name].columns = {Snap!Column(r, a) : a \in {a \in r.attributes : a.class_oid = c.oid}}
  BY <1>3 DEF Snap!TablesOf
<1>8. c \in Snap!fetch_classes(dbs["classes"]) /\ Snap!Filed(r, c) = name
  BY <1>1, <1>6
<1> HIDE DEF c, filed
<1>9. PICK p \in Snap!QUERY_CLASSES(dbs["classes"]) :
          c = [oid |-> p.oid, name |-> p.relname, schema_oid |-> p.relnamespace,
               kind |-> Snap!Or(Snap!from_char(Snap!PgClassKind, p.relkind), "table")]
  BY <1>8 DEF Snap!fetch_classes
<1>10. c.oid = p.oid /\ c.name = p.relname /\ c.schema_oid = p.relnamespace
  BY <1>9
<1>11. p \in dbs["classes"].pg_class
  BY DEF Snap!QUERY_CLASSES
<1>12. name = <<Snap!NameOf(Snap!fetch_namespaces(dbs["namespaces"]), p.relnamespace, "public"), p.relname>>
  BY <1>1, <1>8, <1>10 DEF Snap!Filed
<1> QED
  BY <1>7, <1>10, <1>11, <1>12 DEF Stands

\* A column of it was one of that relation's, when the columns were fetched.
LEMMA ColumnIs ==
    ASSUME NEW dbs, \A q \in QueryNames : Snap!Sound(dbs[q]), NEW r, r = Introspects(dbs), NEW p,
           NEW column \in {Snap!Column(r, a) : a \in {a \in r.attributes : a.class_oid = p.oid}}
    PROVE  \E a \in dbs["attributes"].pg_attribute : Describes(dbs, p, a, column)
<1>1. r.attributes = Snap!fetch_attributes(dbs["attributes"]) /\ r.types = Snap!fetch_types(dbs["types"])
  BY DEF Introspects
<1>2. PICK row \in r.attributes : row.class_oid = p.oid /\ column = Snap!Column(r, row)
  OBVIOUS
<1>3. PICK a \in Snap!QUERY_ATTRIBUTES(dbs["attributes"]) :
          row = [class_oid |-> a.attrelid, name |-> a.attname, type_oid |-> a.atttypid, num |-> a.attnum,
                 is_not_null |-> a.attnotnull]
  BY <1>1, <1>2 DEF Snap!fetch_attributes
<1>4. /\ row.class_oid = a.attrelid /\ row.name = a.attname /\ row.type_oid = a.atttypid
      /\ row.is_not_null = a.attnotnull
  BY <1>3
<1>5. /\ column.name = a.attname /\ column.nullable = ~a.attnotnull
      /\ column.data_type = Snap!NameOf(Snap!fetch_types(dbs["types"]), a.atttypid, "unknown")
  BY <1>1, <1>2, <1>4 DEF Snap!Column
<1>6. a \in dbs["attributes"].pg_attribute /\ a.attnum > 0 /\ ~a.attisdropped
  BY SMTT(30) DEF Snap!QUERY_ATTRIBUTES
<1>7. a.attnotnull \in BOOLEAN
  BY <1>6 DEF Snap!Sound, Snap!Catalog, QueryNames
<1>8. a \in Snap!Live(dbs["attributes"], p, column.name)
  BY <1>2, <1>4, <1>5, <1>6 DEF Snap!Live
<1>9. column.data_type = "unknown" \/ Snap!Typed(dbs["types"], a.atttypid, column.data_type)
  <2> SUFFICES ASSUME column.data_type # "unknown" PROVE Snap!Typed(dbs["types"], a.atttypid, column.data_type)
    OBVIOUS
  <2>1. PICK t \in Snap!fetch_types(dbs["types"]) : t.oid = a.atttypid /\ t.name = column.data_type
    BY <1>5, NamesAre
  <2>2. PICK u \in Snap!QUERY_TYPES(dbs["types"]) : t = [oid |-> u.oid, name |-> u.typname, schema_oid |-> u.typnamespace]
    BY <2>1 DEF Snap!fetch_types
  <2>3. u.oid = a.atttypid /\ u.typname = column.data_type
    BY <2>1, <2>2
  <2> QED
    BY <2>3 DEF Snap!QUERY_TYPES, Snap!Typed
<1>10. a.attnotnull = ~column.nullable
  BY <1>5, <1>7
<1> QED
  BY <1>6, <1>8, <1>9, <1>10 DEF Describes

\* A function of the snapshot was there when the functions were fetched.
LEMMA FunctionIs ==
    ASSUME NEW dbs, NEW r, r = Introspects(dbs), NEW f \in {p.name : p \in r.procs}
    PROVE  \E p \in dbs["procs"].pg_proc : p.proname = f /\ Snap!Asked(dbs["procs"], p)
<1>1. r.procs = Snap!fetch_procs(dbs["procs"])
  BY DEF Introspects
<1>2. PICK row \in Snap!fetch_procs(dbs["procs"]) : row.name = f
  BY <1>1
<1>3. PICK p \in Snap!QUERY_PROCS(dbs["procs"]) :
          row = [oid |-> p.oid, name |-> p.proname, schema_oid |-> p.pronamespace,
                 volatility |-> Snap!Or(Snap!from_char(Snap!ProcVolatility, p.provolatile), "volatile")]
  BY <1>2 DEF Snap!fetch_procs
<1>4. row.name = p.proname
  BY <1>3
<1> QED
  BY <1>2, <1>4 DEF Snap!QUERY_PROCS, Snap!Asked

\* An enumeration of the snapshot is one of that name, and its labels, in their order.
Enumerates(dbs, name, t, labels) ==
    /\ t \in {e.enumtypid : e \in dbs["enums"].pg_enum}
    /\ name = "unknown" \/ Snap!Typed(dbs["types"], t, name)
    /\ {labels[i] : i \in DOMAIN labels} = {e.enumlabel : e \in Snap!LabelsOf(dbs["enums"], t)}
    /\ \A d, e \in Snap!LabelsOf(dbs["enums"], t) : \A i, j \in DOMAIN labels :
          labels[i] = d.enumlabel /\ labels[j] = e.enumlabel /\ d.enumsortorder < e.enumsortorder => i < j

LEMMA EnumIs ==
    ASSUME NEW dbs, \A q \in QueryNames : Snap!Sound(dbs[q]), NEW r, r = Introspects(dbs),
           NEW name \in DOMAIN Snap!EnumsOf(r)
    PROVE  \E t \in Nat : Enumerates(dbs, name, t, Snap!EnumsOf(r)[name])
<1> DEFINE db == dbs["enums"]
           named == {e \in r.enums : Snap!NameOf(r.types, e.type_oid, "unknown") = name}
           last == Snap!Latest(named, "type_oid")
           t == last.type_oid
           rows == {d \in r.enums : d.type_oid = t}
           labels == Snap!Labels(rows)
           row(e) == [type_oid |-> e.enumtypid, sort_order |-> e.enumsortorder, label |-> e.enumlabel]
<1>1. r.enums = Snap!fetch_enums(db) /\ r.types = Snap!fetch_types(dbs["types"])
  BY DEF Introspects
<1>2. Snap!Sound(db)
  BY DEF QueryNames
<1>3. IsFiniteSet(r.enums) /\ r.enums \in SUBSET Snap!PgEnum
  <2> HIDE DEF db
  <2> QED
    BY <1>1, <1>2, RowsAreFinite, RowsAreTyped
<1>4. named # {} /\ named \in SUBSET r.enums
  BY DEF Snap!EnumsOf
<1>5. last \in named
  <2>1. IsFiniteSet(named) /\ \A d \in named : d["type_oid"] \in Nat
    BY <1>3, <1>4, FS_Subset DEF Snap!PgEnum
  <2> HIDE DEF named
  <2> QED
    BY <1>4, <2>1, LatestIs
<1>6. Snap!EnumsOf(r)[name] = labels
  BY DEF Snap!EnumsOf
<1>7. t \in Nat /\ last \in r.enums /\ Snap!NameOf(r.types, t, "unknown") = name
  <2> HIDE DEF last
  <2> QED
    BY <1>3, <1>5 DEF Snap!PgEnum
<1> HIDE DEF last, named, t
<1>8. PICK first \in Snap!QUERY_ENUMS(db) : first.enumtypid = t
  <2>1. PICK e \in Snap!QUERY_ENUMS(db) : last = row(e)
    BY <1>1, <1>7 DEF Snap!fetch_enums
  <2>2. last.type_oid = e.enumtypid
    BY <2>1
  <2> QED
    BY <2>1, <2>2 DEF t
<1>9. Snap!LabelsOf(db, t) \subseteq Snap!QUERY_ENUMS(db)
  BY <1>8 DEF Snap!LabelsOf, Snap!QUERY_ENUMS
<1>10. \A e \in Snap!LabelsOf(db, t) : row(e) \in rows
  <2> SUFFICES ASSUME NEW e \in Snap!LabelsOf(db, t) PROVE row(e) \in rows
    OBVIOUS
  <2>1. row(e) \in Snap!fetch_enums(db)
    BY <1>9 DEF Snap!fetch_enums
  <2>2. row(e).type_oid = t
    BY DEF Snap!LabelsOf
  <2> QED
    BY <1>1, <2>1, <2>2
<1>11. ASSUME NEW d \in rows PROVE \E e \in Snap!LabelsOf(db, t) : d = row(e)
  <2>1. PICK e \in Snap!QUERY_ENUMS(db) : d = row(e)
    BY <1>1 DEF Snap!fetch_enums
  <2>2. e.enumtypid = t
    BY <2>1
  <2> QED
    BY <2>1, <2>2 DEF Snap!QUERY_ENUMS, Snap!LabelsOf
<1>12. /\ \A d, e \in Snap!LabelsOf(db, t) : d.enumsortorder = e.enumsortorder => d = e
       /\ \A d, e \in Snap!LabelsOf(db, t) : d.enumlabel = e.enumlabel => d = e
  <2>1. \A d, e \in db.pg_enum :
           (\A column \in {"enumtypid", "enumsortorder"} : d[column] = e[column]) => d = e
    BY <1>2 DEF Snap!Sound, Snap!Unique
  <2>2. \A d, e \in db.pg_enum :
           (\A column \in {"enumtypid", "enumlabel"} : d[column] = e[column]) => d = e
    BY <1>2 DEF Snap!Sound, Snap!Unique
  <2> HIDE DEF db
  <2> QED
    BY <2>1, <2>2 DEF Snap!LabelsOf
<1>13. Places(rows, labels) /\ DOMAIN labels \subseteq Nat
  <2>1. IsFiniteSet(rows)
    <3>1. rows \in SUBSET r.enums
      OBVIOUS
    <3> QED
      BY <1>3, <3>1, FS_Subset
  <2>2. \A d \in rows : d.sort_order \in Nat
    BY <1>3 DEF Snap!PgEnum
  <2>3. \A d, e \in rows : d.sort_order = e.sort_order => d = e
    <3> SUFFICES ASSUME NEW d \in rows, NEW e \in rows, d.sort_order = e.sort_order PROVE d = e
      OBVIOUS
    <3>1. PICK x \in Snap!LabelsOf(db, t) : d = row(x)
      BY <1>11
    <3>2. PICK y \in Snap!LabelsOf(db, t) : e = row(y)
      BY <1>11
    <3>3. x.enumsortorder = y.enumsortorder
      BY <3>1, <3>2
    <3> QED
      BY <1>12, <3>1, <3>2, <3>3
  <2> HIDE DEF rows
  <2> QED
    BY <2>1, <2>2, <2>3, LabelsAre
<1> HIDE DEF labels
<1>14. PICK place \in [rows -> DOMAIN labels] :
          /\ \A i \in DOMAIN labels : \E d \in rows : place[d] = i
          /\ \A d, e \in rows : d.sort_order < e.sort_order => place[d] < place[e]
          /\ \A d \in rows : labels[place[d]] = d.label
  BY <1>13 DEF Places
<1>15. \A i \in DOMAIN labels : \E e \in Snap!LabelsOf(db, t) : place[row(e)] = i /\ labels[i] = e.enumlabel
  <2> SUFFICES ASSUME NEW i \in DOMAIN labels
               PROVE  \E e \in Snap!LabelsOf(db, t) : place[row(e)] = i /\ labels[i] = e.enumlabel
    OBVIOUS
  <2>1. PICK d \in rows : place[d] = i
    BY <1>14
  <2>2. PICK e \in Snap!LabelsOf(db, t) : d = row(e)
    BY <1>11
  <2>3. labels[i] = d.label /\ d.label = e.enumlabel
    BY <1>14, <2>1, <2>2
  <2> QED
    BY <2>1, <2>2, <2>3
<1>16. \A e \in Snap!LabelsOf(db, t) : \E i \in DOMAIN labels : labels[i] = e.enumlabel
  <2> SUFFICES ASSUME NEW e \in Snap!LabelsOf(db, t) PROVE \E i \in DOMAIN labels : labels[i] = e.enumlabel
    OBVIOUS
  <2>1. row(e) \in rows /\ row(e).label = e.enumlabel
    BY <1>10
  <2> QED
    BY <1>14, <2>1
<1>17. ASSUME NEW d \in Snap!LabelsOf(db, t), NEW e \in Snap!LabelsOf(db, t), NEW i \in DOMAIN labels, NEW j \in DOMAIN labels,
              labels[i] = d.enumlabel, labels[j] = e.enumlabel, d.enumsortorder < e.enumsortorder
       PROVE  i < j
  <2>1. place[row(d)] = i /\ place[row(e)] = j
    BY <1>12, <1>15, <1>17
  <2>2. row(d) \in rows /\ row(e) \in rows
    BY <1>10
  <2>3. row(d).sort_order < row(e).sort_order
    BY <1>17
  <2> QED
    BY <1>14, <2>1, <2>2, <2>3
<1>18. t \in {e.enumtypid : e \in db.pg_enum}
  BY <1>8 DEF Snap!QUERY_ENUMS
<1>19. name = "unknown" \/ Snap!Typed(dbs["types"], t, name)
  <2> SUFFICES ASSUME name # "unknown" PROVE Snap!Typed(dbs["types"], t, name)
    OBVIOUS
  <2>1. PICK x \in Snap!fetch_types(dbs["types"]) : x.oid = t /\ x.name = name
    BY <1>1, <1>7, NamesAre
  <2>2. PICK u \in Snap!QUERY_TYPES(dbs["types"]) : x = [oid |-> u.oid, name |-> u.typname, schema_oid |-> u.typnamespace]
    BY <2>1 DEF Snap!fetch_types
  <2>3. u.oid = t /\ u.typname = name
    BY <2>1, <2>2
  <2> QED
    BY <2>3 DEF Snap!QUERY_TYPES, Snap!Typed
<1> HIDE DEF row
<1>20. {labels[i] : i \in DOMAIN labels} = {e.enumlabel : e \in Snap!LabelsOf(db, t)}
  <2> HIDE DEF db
  <2>1. \A i \in DOMAIN labels : labels[i] \in {e.enumlabel : e \in Snap!LabelsOf(db, t)}
    BY <1>15
  <2>2. \A e \in Snap!LabelsOf(db, t) : e.enumlabel \in {labels[i] : i \in DOMAIN labels}
    BY <1>16
  <2> QED
    BY <2>1, <2>2
<1>21. \A d, e \in Snap!LabelsOf(db, t) : \A i, j \in DOMAIN labels :
          labels[i] = d.enumlabel /\ labels[j] = e.enumlabel /\ d.enumsortorder < e.enumsortorder => i < j
  BY <1>17
<1>22. Enumerates(dbs, name, t, labels)
  BY <1>18, <1>19, <1>20, <1>21 DEF Enumerates
<1> QED
  BY <1>6, <1>7, <1>22

\* No relation of that name is misfiled.
Filing(dbs, name) ==
    \A p \in dbs["classes"].pg_class :
        name = <<Snap!NameOf(Snap!fetch_namespaces(dbs["namespaces"]), p.relnamespace, "public"), p.relname>>
        => \E n \in dbs["classes"].pg_namespace : n.oid = p.relnamespace /\ n.nspname = name[1]

LEMMA CalledIsQueried ==
    ASSUME NEW db, NEW name, NEW c \in Snap!Called(db, name)
    PROVE  /\ c \in Snap!QUERY_CLASSES(db) /\ c \in db.pg_class /\ c.relnamespace \in Snap!InSchemas(db)
           /\ \E n \in db.pg_namespace :
                 n.oid = c.relnamespace /\ name = <<n.nspname, c.relname>> /\ n.nspname \in Requested
<1>1. DOMAIN Snap!PgClassKind = {"r", "v", "m", "c", "f"}
  BY DEF Snap!PgClassKind
<1>2. /\ c \in db.pg_class /\ c.relkind \in DOMAIN Snap!PgClassKind
      /\ \E n \in db.pg_namespace : n.oid = c.relnamespace /\ name = <<n.nspname, c.relname>> /\ n.nspname \in Requested
  BY DEF Snap!Called
<1>3. c.relnamespace \in Snap!InSchemas(db)
  BY <1>2 DEF Snap!InSchemas
<1> QED
  BY <1>1, <1>2, <1>3 DEF Snap!QUERY_CLASSES

\* A relation that was called so when the schemas and the relations were fetched is in the snapshot.
LEMMA TableStands ==
    ASSUME NEW dbs, \A q \in QueryNames : Snap!Sound(dbs[q]), NEW r, r = Introspects(dbs),
           NEW name, Filing(dbs, name),
           NEW c \in Snap!Called(dbs["classes"], name), c \in Snap!Called(dbs["namespaces"], name)
    PROVE  name \in DOMAIN Snap!TablesOf(r) /\ Stands(dbs, r, name, c)
<1> DEFINE now == dbs["classes"]
           then == dbs["namespaces"]
<1>1. Snap!Sound(now) /\ Snap!Sound(then)
  BY DEF QueryNames
<1>2. /\ \A m, n \in now.pg_namespace : m.nspname = n.nspname => m = n
      /\ \A m, n \in then.pg_namespace : m.oid = n.oid => m = n
      /\ \A p, q \in now.pg_class : p.relnamespace = q.relnamespace /\ p.relname = q.relname => p = q
  <2> HIDE DEF now, then
  <2>1. \A m, n \in now.pg_namespace : (\A column \in {"nspname"} : m[column] = n[column]) => m = n
    BY <1>1 DEF Snap!Sound, Snap!Unique
  <2>2. \A m, n \in then.pg_namespace : (\A column \in {"oid"} : m[column] = n[column]) => m = n
    BY <1>1 DEF Snap!Sound, Snap!Unique
  <2>3. \A p, q \in now.pg_class : (\A column \in {"relnamespace", "relname"} : p[column] = q[column]) => p = q
    BY <1>1 DEF Snap!Sound, Snap!Unique
  <2> QED
    BY <2>1, <2>2, <2>3
<1>3. PICK m \in then.pg_namespace : m.oid = c.relnamespace /\ name = <<m.nspname, c.relname>> /\ m.nspname \in Requested
  BY CalledIsQueried
<1>4. Snap!NameOf(Snap!fetch_namespaces(then), c.relnamespace, "public") = m.nspname
  <2> DEFINE found == [oid |-> m.oid, name |-> m.nspname]
  <2>1. found \in Snap!fetch_namespaces(then)
    BY <1>3 DEF Snap!fetch_namespaces, Snap!QUERY_NAMESPACES
  <2>2. \A s \in Snap!fetch_namespaces(then) : s.oid = c.relnamespace => s = found
    BY <1>2, <1>3 DEF Snap!fetch_namespaces, Snap!QUERY_NAMESPACES
  <2>3. found.oid = c.relnamespace /\ found.name = m.nspname
    BY <1>3
  <2> HIDE DEF found
  <2> QED
    BY <2>1, <2>2, <2>3, NamesAre
<1>5. c \in Snap!QUERY_CLASSES(now)
  BY CalledIsQueried
<1>6. name \in DOMAIN Snap!TablesOf(r)
  <2> DEFINE row == [oid |-> c.oid, name |-> c.relname, schema_oid |-> c.relnamespace,
                     kind |-> Snap!Or(Snap!from_char(Snap!PgClassKind, c.relkind), "table")]
  <2>1. row \in r.classes
    BY <1>5 DEF Introspects, Snap!fetch_classes
  <2>2. Snap!Filed(r, row) = name
    BY <1>3, <1>4 DEF Introspects, Snap!Filed
  <2> HIDE DEF row
  <2> QED
    BY <2>1, <2>2 DEF Snap!TablesOf
<1>7. PICK p \in now.pg_class : Stands(dbs, r, name, p)
  BY <1>1, <1>6, TableIs
<1>8. PICK n \in now.pg_namespace : n.oid = p.relnamespace /\ n.nspname = name[1]
  BY <1>7 DEF Stands, Filing
<1>9. PICK o \in now.pg_namespace : o.oid = c.relnamespace /\ name = <<o.nspname, c.relname>>
  BY CalledIsQueried
<1>10. p.relname = c.relname /\ n.nspname = o.nspname
  BY <1>7, <1>8, <1>9 DEF Stands
<1>11. p = c
  BY <1>2, <1>5, <1>8, <1>9, <1>10 DEF Snap!QUERY_CLASSES
<1> QED
  BY <1>6, <1>7, <1>11

\* A column that stood, of a type that stood, is in it, with what was said about it.
LEMMA ColumnStands ==
    ASSUME NEW dbs, \A q \in QueryNames : Snap!Sound(dbs[q]), NEW r, r = Introspects(dbs),
           NEW name, NEW c, Stands(dbs, r, name, c),
           c \in Snap!Called(dbs["attributes"], name), c \in Snap!Called(dbs["descriptions"], name),
           NEW a, a \in Snap!Live(dbs["attributes"], c, a.attname),
           NEW t, Snap!Seen(dbs["types"], t), a.atttypid = t.oid
    PROVE  \E column \in Snap!TablesOf(r)[name].columns :
              /\ column.name = a.attname /\ column.data_type = t.typname /\ column.nullable = ~a.attnotnull
              /\ \A d \in dbs["descriptions"].pg_description :
                    d.objoid = c.oid /\ d.objsubid = a.attnum => d.description \in column.description
<1> DEFINE row == [class_oid |-> a.attrelid, name |-> a.attname, type_oid |-> a.atttypid, num |-> a.attnum,
                   is_not_null |-> a.attnotnull]
           column == Snap!Column(r, row)
<1>1. /\ r.attributes = Snap!fetch_attributes(dbs["attributes"]) /\ r.types = Snap!fetch_types(dbs["types"])
      /\ r.descriptions = Snap!fetch_descriptions(dbs["descriptions"])
  BY DEF Introspects
<1>2. /\ a \in dbs["attributes"].pg_attribute /\ a.attrelid = c.oid /\ a.attnum > 0 /\ ~a.attisdropped
  BY DEF Snap!Live
<1>3. row \in r.attributes /\ row.class_oid = c.oid
  <2>1. c \in Snap!QUERY_CLASSES(dbs["attributes"])
    BY CalledIsQueried
  <2>2. a \in Snap!QUERY_ATTRIBUTES(dbs["attributes"])
    BY <1>2, <2>1 DEF Snap!QUERY_ATTRIBUTES
  <2> QED
    BY <1>1, <1>2, <2>2 DEF Snap!fetch_attributes
<1>4. column \in Snap!TablesOf(r)[name].columns
  <2> HIDE DEF row
  <2> QED
    BY <1>3 DEF Stands
<1>5. Snap!NameOf(r.types, t.oid, "unknown") = t.typname
  <2> DEFINE found == [oid |-> t.oid, name |-> t.typname, schema_oid |-> t.typnamespace]
  <2>1. found \in r.types
    BY <1>1 DEF Snap!Seen, Snap!fetch_types, Snap!QUERY_TYPES
  <2>2. \A u, v \in dbs["types"].pg_type : u.oid = v.oid => u = v
    <3>1. Snap!Sound(dbs["types"])
      BY DEF QueryNames
    <3>2. \A u, v \in dbs["types"].pg_type : (\A k \in {"oid"} : u[k] = v[k]) => u = v
      BY <3>1 DEF Snap!Sound, Snap!Unique
    <3> QED
      BY <3>2
  <2>3. \A s \in r.types : s.oid = t.oid => s = found
    BY <1>1, <2>2 DEF Snap!Seen, Snap!fetch_types, Snap!QUERY_TYPES
  <2>4. found.oid = t.oid /\ found.name = t.typname
    OBVIOUS
  <2> HIDE DEF found
  <2> QED
    BY <2>1, <2>3, <2>4, NamesAre
<1>6. column.name = a.attname /\ column.data_type = t.typname /\ column.nullable = ~a.attnotnull
  BY <1>5 DEF Snap!Column
<1>7. ASSUME NEW d \in dbs["descriptions"].pg_description, d.objoid = c.oid, d.objsubid = a.attnum
      PROVE  d.description \in column.description
  <2> DEFINE about == [obj_oid |-> d.objoid, obj_sub_id |-> d.objsubid, description |-> d.description]
  <2>1. d \in Snap!QUERY_DESCRIPTIONS(dbs["descriptions"])
    BY <1>7, CalledIsQueried DEF Snap!QUERY_DESCRIPTIONS
  <2>2. about \in r.descriptions /\ about.obj_oid = row.class_oid /\ about.obj_sub_id = row.num
    BY <1>1, <1>2, <1>7, <2>1 DEF Snap!fetch_descriptions
  <2>3. about.description = d.description
    OBVIOUS
  <2>4. column.description = {x.description : x \in {x \in r.descriptions : x.obj_oid = row.class_oid /\ x.obj_sub_id = row.num}}
    BY DEF Snap!Column
  <2> HIDE DEF about, row, column
  <2> QED
    BY <2>2, <2>3, <2>4
<1> HIDE DEF column
<1> QED
  BY <1>4, <1>6, <1>7

\* A function and an enumeration that stood are in it.
LEMMA FunctionStands ==
    ASSUME NEW dbs, NEW r, r = Introspects(dbs), NEW p, Snap!Asked(dbs["procs"], p)
    PROVE  p.proname \in {row.name : row \in r.procs}
<1> DEFINE row == [oid |-> p.oid, name |-> p.proname, schema_oid |-> p.pronamespace,
                   volatility |-> Snap!Or(Snap!from_char(Snap!ProcVolatility, p.provolatile), "volatile")]
<1>1. row \in r.procs
  BY DEF Introspects, Snap!Asked, Snap!fetch_procs, Snap!QUERY_PROCS
<1>2. row.name = p.proname
  OBVIOUS
<1> HIDE DEF row
<1> QED
  BY <1>1, <1>2

LEMMA EnumStands ==
    ASSUME NEW dbs, \A q \in QueryNames : Snap!Sound(dbs[q]), NEW r, r = Introspects(dbs),
           NEW t, NEW e, Snap!Labelled(dbs["enums"], t, e), Snap!Labelled(dbs["types"], t, e)
    PROVE  t.typname \in DOMAIN Snap!EnumsOf(r)
<1> DEFINE row == [type_oid |-> e.enumtypid, sort_order |-> e.enumsortorder, label |-> e.enumlabel]
           found == [oid |-> t.oid, name |-> t.typname, schema_oid |-> t.typnamespace]
<1>1. r.enums = Snap!fetch_enums(dbs["enums"]) /\ r.types = Snap!fetch_types(dbs["types"])
  BY DEF Introspects
<1>2. row \in r.enums /\ row.type_oid = t.oid
  BY <1>1 DEF Snap!Labelled, Snap!fetch_enums, Snap!QUERY_ENUMS
<1>3. found \in r.types
  BY <1>1 DEF Snap!Labelled, Snap!fetch_types, Snap!QUERY_TYPES
<1>4. \A u, v \in dbs["types"].pg_type : u.oid = v.oid => u = v
  <2>1. Snap!Sound(dbs["types"])
    BY DEF QueryNames
  <2>2. \A u, v \in dbs["types"].pg_type : (\A k \in {"oid"} : u[k] = v[k]) => u = v
    BY <2>1 DEF Snap!Sound, Snap!Unique
  <2> QED
    BY <2>2
<1>5. \A s \in r.types : s.oid = t.oid => s = found
  BY <1>1, <1>4 DEF Snap!Labelled, Snap!fetch_types, Snap!QUERY_TYPES
<1>6. found.oid = t.oid /\ found.name = t.typname
  OBVIOUS
<1> HIDE DEF found, row
<1>7. Snap!NameOf(r.types, row.type_oid, "unknown") = t.typname
  BY <1>2, <1>3, <1>5, <1>6, NamesAre
<1> QED
  BY <1>2, <1>7 DEF Snap!EnumsOf

(***************************************************************************)
(* The inductive invariant: what is in the file, and what is served, is    *)
(* what the queries returned that ran at these times.                      *)
(***************************************************************************)
\* The catalogs that the queries ran over.
Over(h, of) == [q \in QueryNames |-> h[of[q]]]

Taken(h, of, captured) ==
    /\ of \in [QueryNames -> 1..Len(h)]
    /\ captured = Snap!from_introspection(Introspects(Over(h, of)))

Pulling(h, p) ==
    /\ p = [pc |-> p.pc, at |-> p.at]
    /\ p.at = [q \in DOMAIN p.at |-> p.at[q]] /\ DOMAIN p.at \subseteq QueryNames
    /\ \A q \in DOMAIN p.at : p.at[q] \in 1..Len(h)
    /\ p.pc = "writing" => DOMAIN p.at = QueryNames

Past(h) == \E S : h \in Seq(S) /\ h # <<>>

SnapInv ==
    /\ Past(history)
    /\ Pulling(history, pull)
    /\ file.is = "whole" => Taken(history, file.of, file.captured)
    /\ Snap!Loaded => Taken(history, server.of, Snap!Served)

LEMMA QueriesAreNamed == Snap!ToSet(Snap!Queries) = QueryNames
<1>1. Snap!ToSet(Snap!Queries) = {Snap!Queries[i] : i \in DOMAIN Snap!Queries}
  BY DEF Snap!ToSet
<1>2. DOMAIN Snap!Queries = 1..9
  BY DEF Snap!Queries
<1>3. /\ Snap!Queries[1] = "namespaces" /\ Snap!Queries[2] = "classes" /\ Snap!Queries[3] = "attributes"
      /\ Snap!Queries[4] = "constraints" /\ Snap!Queries[5] = "procs" /\ Snap!Queries[6] = "types"
      /\ Snap!Queries[7] = "enums" /\ Snap!Queries[8] = "indexes" /\ Snap!Queries[9] = "descriptions"
  BY DEF Snap!Queries
<1>4. \A i \in 1..9 : i = 1 \/ i = 2 \/ i = 3 \/ i = 4 \/ i = 5 \/ i = 6 \/ i = 7 \/ i = 8 \/ i = 9
  OBVIOUS
<1>5. {Snap!Queries[i] : i \in 1..9} = QueryNames
  <2>1. ASSUME NEW x \in {Snap!Queries[i] : i \in 1..9} PROVE x \in QueryNames
    BY <1>3, <1>4 DEF QueryNames
  <2>2. ASSUME NEW x \in QueryNames PROVE x \in {Snap!Queries[i] : i \in 1..9}
    BY <1>3 DEF QueryNames
  <2> QED
    BY <2>1, <2>2
<1> QED
  BY <1>1, <1>2, <1>5

LEMMA IntrospectedIs ==
    ASSUME NEW of \in [QueryNames -> 1..Len(history)]
    PROVE  Snap!introspect(of) = Introspects(Over(history, of))
BY DEF Snap!introspect, Introspects, Over, QueryNames

\* What was taken stays as it was taken, whatever the database comes to.
LEMMA TakenStays ==
    ASSUME NEW h, Past(h), NEW db, NEW of, NEW captured, Taken(h, of, captured)
    PROVE  Taken(Append(h, db), of, captured)
<1>1. PICK S : h \in Seq(S)
  BY DEF Past
<1>2. h \in Seq(S \union {db})
  BY <1>1, SeqMonotonic
<1>3. /\ Len(Append(h, db)) = Len(h) + 1 /\ Len(h) \in Nat
      /\ \A t \in 1..Len(h) : Append(h, db)[t] = h[t]
  BY <1>2, AppendProperties
<1>4. of \in [QueryNames -> 1..Len(Append(h, db))]
  BY <1>3 DEF Taken
<1>5. Over(Append(h, db), of) = Over(h, of)
  BY <1>3 DEF Taken, Over
<1> QED
  BY <1>4, <1>5 DEF Taken

LEMMA PastGrows ==
    ASSUME NEW h, Past(h), NEW db, NEW p, Pulling(h, p)
    PROVE  Past(Append(h, db)) /\ Pulling(Append(h, db), p)
<1>1. PICK S : h \in Seq(S)
  BY DEF Past
<1>2. h \in Seq(S \union {db})
  BY <1>1, SeqMonotonic
<1>3. /\ Len(Append(h, db)) = Len(h) + 1 /\ Len(h) \in Nat
      /\ Append(h, db) \in Seq(S \union {db}) /\ Append(h, db) # <<>>
  BY <1>2, AppendProperties
<1> QED
  BY <1>3 DEF Past, Pulling

LEMMA SnapInvInit == Snap!Init => SnapInv
<1> SUFFICES ASSUME Snap!Init PROVE SnapInv
  OBVIOUS
<1> USE DEF Snap!Init
<1>1. Past(history)
  <2>1. PICK db \in Beginnings : history = <<db>>
    OBVIOUS
  <2>2. <<db>> \in Seq({db})
    OBVIOUS
  <2>3. <<db>> # <<>>
    OBVIOUS
  <2> QED
    BY <2>1, <2>2, <2>3 DEF Past
<1>2. Pulling(history, pull)
  <2>1. pull = [pc |-> "idle", at |-> <<>>]
    BY DEF Snap!Idle
  <2>2. DOMAIN pull.at = {} /\ pull.at = [q \in DOMAIN pull.at |-> pull.at[q]]
    BY <2>1
  <2> QED
    BY <2>1, <2>2 DEF Pulling
<1>3. file.is # "whole"
  BY DEF Snap!NoFile
<1>4. ~Snap!Loaded
  BY DEF Snap!Loaded
<1> QED
  BY <1>1, <1>2, <1>3, <1>4 DEF SnapInv

LEMMA SnapInvStep == SnapInv /\ [Snap!Next]_Snap!vars => SnapInv'
<1> SUFFICES ASSUME SnapInv, [Snap!Next]_Snap!vars PROVE SnapInv'
  OBVIOUS
<1>1. ASSUME UNCHANGED server PROVE Snap!Loaded' = Snap!Loaded /\ Snap!Served' = Snap!Served
  BY <1>1 DEF Snap!Loaded, Snap!Served
<1>2. CASE Snap!Begin
  <2> USE <1>2 DEF Snap!Begin
  <2>1. Pulling(history, pull')
    BY DEF SnapInv, Pulling
  <2> QED
    BY <1>1, <2>1 DEF SnapInv
<1>3. CASE Snap!Fetch
  <2>1. UNCHANGED <<history, file, server>> /\ pull.pc = "querying"
    BY <1>3 DEF Snap!Fetch
  <2>2. PICK i \in Snap!Running :
           pull' = IF Snap!Queries[i] = "constraints" /\ Snap!Panics(Snap!Present)
                   THEN [pull EXCEPT !.pc = "failed"]
                   ELSE [pull EXCEPT !.at = [p \in DOMAIN @ \union {Snap!Queries[i]} |->
                                                IF p = Snap!Queries[i] THEN Len(history) ELSE @[p]]]
    BY <1>3 DEF Snap!Fetch
  <2>3. Snap!Queries[i] \in QueryNames
    BY QueriesAreNamed DEF Snap!Running, Snap!ToSet
  <2>4. Len(history) \in 1..Len(history)
    BY DEF SnapInv, Past
  <2>5. pull'.pc # "writing" /\ Pulling(history, pull')
    <3> DEFINE q == Snap!Queries[i]
               size == Len(history)
               at == [p \in DOMAIN pull.at \union {q} |-> IF p = q THEN size ELSE pull.at[p]]
    <3>1. Pulling(history, pull)
      BY DEF SnapInv
    <3>2. CASE pull' = [pull EXCEPT !.pc = "failed"]
      BY <3>1, <3>2 DEF Pulling
    <3>3. CASE pull' = [pull EXCEPT !.at = at]
      <4>1. /\ at = [p \in DOMAIN at |-> at[p]] /\ DOMAIN at \subseteq QueryNames
            /\ \A p \in DOMAIN at : at[p] \in 1..Len(history)
        BY <2>3, <2>4, <3>1 DEF Pulling
      <4> HIDE DEF at
      <4>2. pull' = [pc |-> pull.pc, at |-> at]
        BY <3>1, <3>3 DEF Pulling
      <4> QED
        BY <2>1, <4>1, <4>2 DEF Pulling
    <3> QED
      BY <2>2, <3>2, <3>3
  <2> QED
    BY <1>1, <2>1, <2>5 DEF SnapInv
<1>4. CASE Snap!Create
  <2>1. UNCHANGED <<history, server>> /\ pull' = [pull EXCEPT !.pc = "writing"] /\ DOMAIN pull.at = QueryNames
    BY <1>4, QueriesAreNamed DEF Snap!Create
  <2>2. Pulling(history, pull')
    BY <2>1 DEF SnapInv, Pulling
  <2>3. file'.is # "whole"
    BY <1>4 DEF Snap!Create, Snap!NoFile
  <2> QED
    BY <1>1, <2>1, <2>2, <2>3 DEF SnapInv
<1>5. CASE Snap!Write
  <2>1. /\ UNCHANGED <<history, server>> /\ pull.pc = "writing" /\ pull' = [pull EXCEPT !.pc = "done"]
        /\ file' = [is |-> "whole", of |-> pull.at, captured |-> Snap!from_introspection(Snap!introspect(pull.at))]
    BY <1>5 DEF Snap!Write
  <2>2. Pulling(history, pull')
    BY <2>1 DEF SnapInv, Pulling
  <2>3. pull.at \in [QueryNames -> 1..Len(history)]
    BY <2>1 DEF SnapInv, Pulling
  <2>4. Taken(history, file'.of, file'.captured)
    BY <2>1, <2>3, IntrospectedIs DEF Taken
  <2> QED
    BY <1>1, <2>1, <2>2, <2>4 DEF SnapInv
<1>6. CASE Snap!Fail
  <2> USE <1>6 DEF Snap!Fail
  <2>1. Pulling(history, pull')
    BY DEF SnapInv, Pulling
  <2> QED
    BY <1>1, <2>1 DEF SnapInv
<1>7. CASE Snap!Start
  <2>1. /\ UNCHANGED <<history, pull, file>>
        /\ server' = [started |-> TRUE, of |-> file.of,
                      sources |-> [s \in IF file.is = "whole" THEN {Snap!Source} ELSE {} |-> file.captured]]
    BY <1>7 DEF Snap!Start
  <2>2. Snap!Loaded' => file.is = "whole" /\ server'.of = file.of /\ Snap!Served' = file.captured
    BY <2>1 DEF Snap!Loaded, Snap!Served, Snap!Source
  <2> QED
    BY <2>1, <2>2 DEF SnapInv
<1>8. CASE Snap!Migrate
  <2>1. UNCHANGED <<pull, file, server>>
    BY <1>8 DEF Snap!Migrate
  <2>2. PICK db \in Migrated(Snap!Present) : history' = Append(history, db)
    BY <1>8 DEF Snap!Migrate
  <2>3. Past(history') /\ Pulling(history', pull)
    BY <2>2, PastGrows DEF SnapInv
  <2>4. \A of, captured : Taken(history, of, captured) => Taken(history', of, captured)
    BY <2>2, TakenStays DEF SnapInv
  <2> QED
    BY <1>1, <2>1, <2>3, <2>4 DEF SnapInv
<1>9. CASE UNCHANGED Snap!vars
  BY <1>1, <1>9 DEF Snap!vars, SnapInv
<1> QED
  BY <1>2, <1>3, <1>4, <1>5, <1>6, <1>7, <1>8, <1>9 DEF Snap!Next

\* The invariant of the module Capture, for any catalogs and any migrations.
LEMMA SnapInductive == Snap!Spec => []SnapInv
<1> QED
  BY SnapInvInit, SnapInvStep, PTL DEF Snap!Spec

\* The catalogs the queries ran over are among those of the span, and they are sound.
LEMMA OverTheSpan ==
    ASSUME SnapInv, Snap!SoundCatalogs, Snap!Loaded
    PROVE  LET dbs == Over(history, server.of)
           IN  /\ \A q \in QueryNames : Snap!Sound(dbs[q]) /\ dbs[q] \in Snap!Span
               /\ dbs["classes"] = history[server.of["classes"]]
               /\ dbs["namespaces"] = history[server.of["namespaces"]]
               /\ Snap!Served = Snap!from_introspection(Introspects(dbs))
               /\ Snap!introspect(server.of) = Introspects(dbs)
               /\ DOMAIN server.of = QueryNames
<1>1. Taken(history, server.of, Snap!Served) /\ DOMAIN history = 1..Len(history)
  <2>1. PICK S : history \in Seq(S)
    BY DEF SnapInv, Past
  <2> QED
    BY <2>1 DEF SnapInv
<1>2. ASSUME NEW q \in QueryNames
      PROVE  Snap!Sound(history[server.of[q]]) /\ history[server.of[q]] \in Snap!Span
  <2>1. server.of[q] \in DOMAIN history /\ server.of[q] \in Int /\ q \in DOMAIN server.of
    BY <1>1 DEF Taken
  <2>2. server.of[q] <= server.of[q]
    BY <2>1
  <2> QED
    BY <2>1, <2>2 DEF Snap!Span, Snap!SoundCatalogs
<1>3. Snap!introspect(server.of) = Introspects(Over(history, server.of))
  BY <1>1, IntrospectedIs DEF Taken
<1> QED
  BY <1>1, <1>2, <1>3 DEF Taken, Over, QueryNames

\* A table that is known by its whole name is that table.
LEMMA WholeNames ==
    ASSUME NEW snapshot, NEW name \in DOMAIN snapshot.tables
    PROVE  Snap!Table(snapshot, name) = name
BY DEF Snap!Table

LEMMA SaidWas == SnapInv /\ Snap!SoundCatalogs => Snap!WhatIsSaidWas
<1> SUFFICES ASSUME SnapInv, Snap!SoundCatalogs, Snap!Loaded
             PROVE  /\ DOMAIN server.of = Snap!ToSet(Snap!Queries) /\ Snap!introspect(server.of) \in Snap!IntrospectionResult
                    /\ \A name \in Snap!schema_tables(Snap!Served, {}) : Snap!Misfiled(name) \/
                          \E before \in Snap!Span : \E c \in Snap!Called(before, name) :
                              \A column \in Snap!schema_columns(Snap!Served, name) :
                                  \E db \in Snap!Span : \E a \in Snap!Live(db, c, column.name) :
                                      /\ a.attnotnull = ~column.nullable
                                      /\ column.type = "unknown" \/ \E other \in Snap!Span : Snap!Typed(other, a.atttypid, column.type)
                    /\ \A f \in Snap!Served.functions : \E db \in Snap!Span : \E p \in db.pg_proc :
                          p.proname = f /\ p.prokind \in {"f", "p"} /\ p.pronamespace \in Snap!InSchemas(db)
                    /\ \A name \in DOMAIN Snap!Served.enums : \E db \in Snap!Span : \E t \in {e.enumtypid : e \in db.pg_enum} :
                          /\ name = "unknown" \/ \E other \in Snap!Span : Snap!Typed(other, t, name)
                          /\ Snap!ToSet(Snap!Served.enums[name]) = {e.enumlabel : e \in Snap!LabelsOf(db, t)}
                          /\ \A d, e \in Snap!LabelsOf(db, t) : \A i, j \in DOMAIN Snap!Served.enums[name] :
                                /\ Snap!Served.enums[name][i] = d.enumlabel /\ Snap!Served.enums[name][j] = e.enumlabel
                                /\ d.enumsortorder < e.enumsortorder
                                => i < j
  BY DEF Snap!WhatIsSaidWas
<1> DEFINE dbs == Over(history, server.of)
           r == Introspects(dbs)
<1>1. /\ \A q \in QueryNames : Snap!Sound(dbs[q]) /\ dbs[q] \in Snap!Span
      /\ dbs["classes"] = history[server.of["classes"]]
      /\ dbs["namespaces"] = history[server.of["namespaces"]]
      /\ Snap!Served = Snap!from_introspection(r) /\ Snap!introspect(server.of) = r /\ DOMAIN server.of = QueryNames
  BY OverTheSpan
<1> HIDE DEF dbs
<1>2. /\ Snap!Served.tables = Snap!TablesOf(r) /\ Snap!Served.enums = Snap!EnumsOf(r)
      /\ Snap!Served.functions = {p.name : p \in r.procs}
  BY <1>1 DEF Snap!from_introspection
<1>3. DOMAIN server.of = Snap!ToSet(Snap!Queries) /\ Snap!introspect(server.of) \in Snap!IntrospectionResult
  <2>1. r \in Snap!IntrospectionResult
    <3> USE DEF QueryNames
    <3>1. r.namespaces \in SUBSET Snap!PgNamespace /\ r.classes \in SUBSET Snap!PgClass /\ r.attributes \in SUBSET Snap!PgAttribute
      BY <1>1, RowsAreTyped DEF Introspects
    <3>2. r.constraints \in SUBSET Snap!PgConstraint /\ r.procs \in SUBSET Snap!PgProc /\ r.types \in SUBSET Snap!PgType
      BY <1>1, RowsAreTyped DEF Introspects
    <3>3. r.enums \in SUBSET Snap!PgEnum /\ r.indexes \in SUBSET Snap!PgIndex /\ r.descriptions \in SUBSET Snap!PgDescription
      BY <1>1, RowsAreTyped DEF Introspects
    <3> QED
      BY <3>1, <3>2, <3>3 DEF Introspects, Snap!IntrospectionResult
  <2> QED
    BY <1>1, <2>1, QueriesAreNamed
<1>4. ASSUME NEW name \in Snap!schema_tables(Snap!Served, {}), ~Snap!Misfiled(name)
      PROVE  \E before \in Snap!Span : \E c \in Snap!Called(before, name) :
                \A column \in Snap!schema_columns(Snap!Served, name) :
                    \E db \in Snap!Span : \E a \in Snap!Live(db, c, column.name) :
                        /\ a.attnotnull = ~column.nullable
                        /\ column.type = "unknown" \/ \E other \in Snap!Span : Snap!Typed(other, a.atttypid, column.type)
  <2> DEFINE now == dbs["classes"]
  <2>1. name \in DOMAIN Snap!TablesOf(r)
    BY <1>2 DEF Snap!schema_tables
  <2>2. Snap!Sound(now) /\ now \in Snap!Span
    BY <1>1 DEF QueryNames
  <2>3. PICK p \in now.pg_class : Stands(dbs, r, name, p)
    BY <2>1, <2>2, TableIs
  <2>4. PICK n \in now.pg_namespace : n.oid = p.relnamespace /\ n.nspname = name[1]
    BY <1>1, <1>4, <2>3 DEF Snap!Misfiled, Stands
  <2>5. p \in Snap!Called(now, name)
    <3>1. p.relkind \in DOMAIN Snap!PgClassKind /\ p.relnamespace \in Snap!InSchemas(now)
      BY <2>3 DEF Stands, Snap!QUERY_CLASSES, Snap!PgClassKind
    <3>2. PICK m \in now.pg_namespace : m.oid = p.relnamespace /\ m.nspname \in Requested
      BY <3>1 DEF Snap!InSchemas
    <3>3. m = n
      <4>1. \A x, y \in now.pg_namespace : (\A k \in {"oid"} : x[k] = y[k]) => x = y
        BY <2>2 DEF Snap!Sound, Snap!Unique
      <4> QED
        BY <2>4, <3>2, <4>1
    <3>4. name = <<n.nspname, p.relname>>
      BY <2>3, <2>4 DEF Stands
    <3> QED
      BY <2>4, <3>1, <3>2, <3>3, <3>4 DEF Snap!Called
  <2>6. ASSUME NEW column \in Snap!schema_columns(Snap!Served, name)
        PROVE  \E db \in Snap!Span : \E a \in Snap!Live(db, p, column.name) :
                  /\ a.attnotnull = ~column.nullable
                  /\ column.type = "unknown" \/ \E other \in Snap!Span : Snap!Typed(other, a.atttypid, column.type)
    <3>1. PICK c \in Snap!TablesOf(r)[name].columns :
             column = [name |-> c.name, type |-> c.data_type, nullable |-> c.nullable]
      BY <1>2, <2>1, WholeNames DEF Snap!schema_columns
    <3>2. PICK a \in dbs["attributes"].pg_attribute : Describes(dbs, p, a, c)
      BY <1>1, <2>3, <3>1, ColumnIs DEF Stands
    <3>3. column.name = c.name /\ column.type = c.data_type /\ column.nullable = c.nullable
      BY <3>1
    <3>4. dbs["attributes"] \in Snap!Span /\ dbs["types"] \in Snap!Span
      BY <1>1 DEF QueryNames
    <3> QED
      BY <3>2, <3>3, <3>4 DEF Describes
  <2> QED
    BY <2>2, <2>5, <2>6
<1>5. ASSUME NEW f \in Snap!Served.functions
      PROVE  \E db \in Snap!Span : \E p \in db.pg_proc :
                p.proname = f /\ p.prokind \in {"f", "p"} /\ p.pronamespace \in Snap!InSchemas(db)
  <2>1. PICK p \in dbs["procs"].pg_proc : p.proname = f /\ Snap!Asked(dbs["procs"], p)
    BY <1>2, FunctionIs
  <2>2. dbs["procs"] \in Snap!Span
    BY <1>1 DEF QueryNames
  <2> QED
    BY <2>1, <2>2 DEF Snap!Asked
<1>6. ASSUME NEW name \in DOMAIN Snap!Served.enums
      PROVE  \E db \in Snap!Span : \E t \in {e.enumtypid : e \in db.pg_enum} :
                /\ name = "unknown" \/ \E other \in Snap!Span : Snap!Typed(other, t, name)
                /\ Snap!ToSet(Snap!Served.enums[name]) = {e.enumlabel : e \in Snap!LabelsOf(db, t)}
                /\ \A d, e \in Snap!LabelsOf(db, t) : \A i, j \in DOMAIN Snap!Served.enums[name] :
                      /\ Snap!Served.enums[name][i] = d.enumlabel /\ Snap!Served.enums[name][j] = e.enumlabel
                      /\ d.enumsortorder < e.enumsortorder
                      => i < j
  <2>1. PICK t \in Nat : Enumerates(dbs, name, t, Snap!EnumsOf(r)[name])
    BY <1>1, <1>2, EnumIs
  <2>2. dbs["enums"] \in Snap!Span /\ dbs["types"] \in Snap!Span
    BY <1>1 DEF QueryNames
  <2>3. Snap!Served.enums[name] = Snap!EnumsOf(r)[name]
    BY <1>2
  <2> DEFINE labels == Snap!Served.enums[name]
             there == dbs["enums"]
  <2>4. Snap!ToSet(labels) = {labels[i] : i \in DOMAIN labels}
    BY DEF Snap!ToSet
  <2>5. /\ t \in {e.enumtypid : e \in there.pg_enum}
        /\ name = "unknown" \/ \E other \in Snap!Span : Snap!Typed(other, t, name)
        /\ Snap!ToSet(labels) = {e.enumlabel : e \in Snap!LabelsOf(there, t)}
    BY <2>1, <2>2, <2>3, <2>4 DEF Enumerates
  <2>6. \A d, e \in Snap!LabelsOf(there, t) : \A i, j \in DOMAIN labels :
           labels[i] = d.enumlabel /\ labels[j] = e.enumlabel /\ d.enumsortorder < e.enumsortorder => i < j
    BY <2>1, <2>3 DEF Enumerates
  <2> HIDE DEF there
  <2> QED
    BY <2>2, <2>5, <2>6 DEF there
<1> QED
  BY <1>3, <1>4, <1>5, <1>6

LEMMA StoodIsSaid == SnapInv /\ Snap!SoundCatalogs => Snap!WhatStoodIsSaid
<1> SUFFICES ASSUME SnapInv, Snap!SoundCatalogs, Snap!Loaded PROVE Snap!WhatStoodIsSaid
  BY DEF Snap!WhatStoodIsSaid
<1> DEFINE dbs == Over(history, server.of)
           r == Introspects(dbs)
           now == history[server.of["classes"]]
<1>1. /\ \A q \in QueryNames : Snap!Sound(dbs[q]) /\ dbs[q] \in Snap!Span
      /\ dbs["classes"] = now /\ dbs["namespaces"] = history[server.of["namespaces"]]
      /\ Snap!Served = Snap!from_introspection(r)
  BY OverTheSpan
<1> HIDE DEF dbs, now
<1>2. /\ Snap!Served.tables = Snap!TablesOf(r) /\ Snap!Served.enums = Snap!EnumsOf(r)
      /\ Snap!Served.functions = {p.name : p \in r.procs}
  BY <1>1 DEF Snap!from_introspection
<1>3. ASSUME NEW c \in now.pg_class, NEW n \in now.pg_namespace, NEW name, name = <<n.nspname, c.relname>>,
             ~Snap!Misfiled(name), \A db \in Snap!Span : c \in Snap!Called(db, name)
      PROVE  /\ Snap!schema_check(Snap!Served, name, {})
             /\ \A a \in now.pg_attribute : \A t \in now.pg_type :
                   a.atttypid = t.oid /\ (\A db \in Snap!Span : a \in Snap!Live(db, c, a.attname) /\ Snap!Seen(db, t)) =>
                      /\ Snap!schema_check(Snap!Served, name, {a.attname})
                      /\ [name |-> a.attname, type |-> t.typname, nullable |-> ~a.attnotnull] \in Snap!schema_columns(Snap!Served, name)
                      /\ \A d \in now.pg_description :
                            d.objoid = c.oid /\ d.objsubid = a.attnum /\ (\A db \in Snap!Span : d \in db.pg_description)
                            => \E column \in Snap!Served.tables[name].columns :
                                  column.name = a.attname /\ d.description \in column.description
  <2>1. \A q \in QueryNames : c \in Snap!Called(dbs[q], name)
    BY <1>1, <1>3
  <2>2. Filing(dbs, name)
    BY <1>1, <1>3 DEF Filing, Snap!Misfiled, now
  <2>3. name \in DOMAIN Snap!TablesOf(r) /\ Stands(dbs, r, name, c)
    <3>1. c \in Snap!Called(dbs["classes"], name) /\ c \in Snap!Called(dbs["namespaces"], name)
      BY <2>1 DEF QueryNames
    <3> QED
      BY <1>1, <2>2, <3>1, TableStands
  <2>4. Snap!Table(Snap!Served, name) = name /\ name # Snap!Absent
    BY <1>2, <1>3, <2>3, WholeNames DEF Snap!Absent
  <2>5. Snap!schema_check(Snap!Served, name, {})
    BY <2>4 DEF Snap!schema_check, Snap!resolve_table
  <2>6. ASSUME NEW a \in now.pg_attribute, NEW t \in now.pg_type, a.atttypid = t.oid,
               \A db \in Snap!Span : a \in Snap!Live(db, c, a.attname) /\ Snap!Seen(db, t)
        PROVE  /\ Snap!schema_check(Snap!Served, name, {a.attname})
               /\ [name |-> a.attname, type |-> t.typname, nullable |-> ~a.attnotnull] \in Snap!schema_columns(Snap!Served, name)
               /\ \A d \in now.pg_description :
                     d.objoid = c.oid /\ d.objsubid = a.attnum /\ (\A db \in Snap!Span : d \in db.pg_description)
                     => \E column \in Snap!Served.tables[name].columns :
                           column.name = a.attname /\ d.description \in column.description
    <3>1. /\ c \in Snap!Called(dbs["attributes"], name) /\ c \in Snap!Called(dbs["descriptions"], name)
          /\ a \in Snap!Live(dbs["attributes"], c, a.attname) /\ Snap!Seen(dbs["types"], t)
          /\ dbs["descriptions"] \in Snap!Span
      BY <1>1, <2>1, <2>6 DEF QueryNames
    <3>2. PICK column \in Snap!TablesOf(r)[name].columns :
             /\ column.name = a.attname /\ column.data_type = t.typname /\ column.nullable = ~a.attnotnull
             /\ \A d \in dbs["descriptions"].pg_description :
                   d.objoid = c.oid /\ d.objsubid = a.attnum => d.description \in column.description
      BY <1>1, <2>3, <2>6, <3>1, ColumnStands
    <3>3. Snap!schema_check(Snap!Served, name, {a.attname})
      BY <1>2, <2>4, <3>2 DEF Snap!schema_check, Snap!resolve_column, Snap!Columns
    <3>4. [name |-> a.attname, type |-> t.typname, nullable |-> ~a.attnotnull] \in Snap!schema_columns(Snap!Served, name)
      BY <1>2, <2>4, <3>2 DEF Snap!schema_columns
    <3>5. \A d \in now.pg_description :
             d.objoid = c.oid /\ d.objsubid = a.attnum /\ (\A db \in Snap!Span : d \in db.pg_description)
             => \E one \in Snap!Served.tables[name].columns : one.name = a.attname /\ d.description \in one.description
      BY <1>2, <3>1, <3>2
    <3> QED
      BY <3>3, <3>4, <3>5
  <2> QED
    BY <2>5, <2>6
<1>4. ASSUME NEW p \in now.pg_proc, \A db \in Snap!Span : Snap!Asked(db, p) PROVE p.proname \in Snap!Served.functions
  <2>1. Snap!Asked(dbs["procs"], p)
    BY <1>1, <1>4 DEF QueryNames
  <2> QED
    BY <1>2, <2>1, FunctionStands
<1>5. ASSUME NEW e \in now.pg_enum, NEW t \in now.pg_type, \A db \in Snap!Span : Snap!Labelled(db, t, e)
      PROVE  t.typname \in DOMAIN Snap!Served.enums
  <2>1. Snap!Labelled(dbs["enums"], t, e) /\ Snap!Labelled(dbs["types"], t, e)
    BY <1>1, <1>5 DEF QueryNames
  <2> QED
    BY <1>1, <1>2, <2>1, EnumStands
<1> QED
  BY <1>3, <1>4, <1>5 DEF Snap!WhatStoodIsSaid, now

-----------------------------------------------------------------------------
(***************************************************************************)
(* The symbol index of a tree (SymbolIndex).                               *)
(***************************************************************************)
(***************************************************************************)
(* The least-number principle: of the initial segments that end in T, one  *)
(* is smallest, because strict inclusion of finite sets is well-founded.   *)
(***************************************************************************)
LEMMA Least ==
    ASSUME NEW T \in SUBSET Nat, T # {}
    PROVE  \E x \in T : \A y \in T : x <= y
<1> DEFINE Segments == {1..x : x \in T}
           R == StrictSubsetOrdering(Nat)
<1>1. Segments \subseteq FiniteSubsetsOf(Nat)
  <2> SUFFICES ASSUME NEW x \in T PROVE 1..x \in FiniteSubsetsOf(Nat)
    OBVIOUS
  <2>1. IsFiniteSet(1..x) /\ 1..x \subseteq Nat
    BY FS_Interval
  <2> QED
    BY <2>1 DEF FiniteSubsetsOf
<1>2. IsWellFoundedOn(R, FiniteSubsetsOf(Nat))
  BY FS_StrictSubsetOrderingWellFounded
<1>3. Segments # {}
  OBVIOUS
<1> HIDE DEF R
<1>4. PICK least \in Segments : \A s \in Segments : ~ (<<s, least>> \in R)
  <2> HIDE DEF Segments
  <2> QED
    BY <1>1, <1>2, <1>3, WFMin
<1>5. PICK x \in T : least = 1..x
  OBVIOUS
<1>6. ASSUME NEW y \in T, y < x PROVE FALSE
  <2>1. 1..y \subseteq 1..x /\ 1..y # 1..x
    BY <1>6
  <2>2. <<1..y, 1..x>> \in R
    BY <2>1 DEF StrictSubsetOrdering, R
  <2> QED
    BY <1>4, <1>5, <2>2
<1> QED
  BY <1>6

\* There is always a first path to read.
LEMMA FirstIsLeft ==
    ASSUME Sym!Parsed, NEW left \in SUBSET Sym!Paths, left # {}
    PROVE  Sym!FirstOf(left) \in left
<1> DEFINE At == {i \in DOMAIN WalkOrder : WalkOrder[i] \in left}
           IsFirst(i) == WalkOrder[i] \in left
                         /\ \A j \in 1..(i - 1) : WalkOrder[j] \notin left
<1>1. DOMAIN WalkOrder = 1..Len(WalkOrder) /\ Len(WalkOrder) \in Nat
  BY DEF Sym!Parsed
<1>2. At \in SUBSET Nat /\ At # {}
  BY <1>1 DEF Sym!Paths, Sym!ToSet
<1>3. PICK i \in At : \A j \in At : i <= j
  <2> HIDE DEF At
  <2> QED
    BY <1>2, Least
<1>4. \E k \in DOMAIN WalkOrder : IsFirst(k)
  BY <1>1, <1>3
<1>5. IsFirst(CHOOSE k \in DOMAIN WalkOrder : IsFirst(k))
  <2> HIDE DEF IsFirst
  <2> QED
    BY <1>4
<1> QED
  BY <1>5 DEF Sym!FirstOf

-----------------------------------------------------------------------------
(***************************************************************************)
(* Types.                                                                  *)
(***************************************************************************)
Tree == [Sym!Paths -> Texts \cup {Sym!Gone}]

Known == UNION {t.symbols : t \in Texts}
NamesKnown == {s.name : s \in Known}
Placed == [name : NamesKnown, first : Nat \ {0}, last : Nat, file : Nat \ {0}]
Index == [files : Seq(Sym!Paths), symbols : SUBSET Placed, began : Nat, ended : Nat]
IndexHit == [name : NamesKnown, file : Sym!Paths, first : Nat \ {0}, last : Nat]
BodyOf == [hit : IndexHit, body : [text : Texts \cup {Sym!Gone}, first : Nat, last : Nat]]

Steps == {"idle", "load", "walk", "build", "write", "answer", "bodies",
          "verify", "done"}
IndexCall == [pc : Steps, kind : {"none", "sym", "index", "trial", "rewritten"},
         name : Names \cup {"none"}, index : Index, left : SUBSET Sym!Paths,
         exact : BOOLEAN, hits : SUBSET IndexHit, bodies : Seq(BodyOf),
         kept : BOOLEAN]

IndexTypeOK ==
    /\ past \in Seq(Tree) /\ past # <<>>
    /\ indexFile \in [is : {"absent", "empty", "torn", "index"}, index : Index]
    /\ asked \in [Callers -> IndexCall]

-----------------------------------------------------------------------------
(***************************************************************************)
(* What holds of an index.                                                 *)
(***************************************************************************)
Bare(s) == [name |-> s.name, first |-> s.first, last |-> s.last]
At(s, i) == [name |-> s.name, first |-> s.first, last |-> s.last, file |-> i]

\* Each symbol was in its file at some moment of the build.
Genuine(index, upto, trees) ==
    /\ index.began \in 1..upto
    /\ \A s \in index.symbols :
          /\ s.file \in DOMAIN index.files
          /\ \E t \in index.began..upto :
                Bare(s) \in trees[t][index.files[s.file]].symbols

\* Of the files of the tree that are not left to read, nothing is missing.
Entire(index, left, tree) ==
    /\ \A i \in DOMAIN index.files :
          \A s \in tree[index.files[i]].symbols : At(s, i) \in index.symbols
    /\ \A p \in Sym!Paths \ left :
          tree[p].symbols # {} => \E i \in DOMAIN index.files : index.files[i] = p

Built(index, trees) ==
    /\ index.ended \in 1..Len(trees)
    /\ Genuine(index, index.ended, trees)
    /\ index.began = Len(trees) => Entire(index, {}, Sym!Now(trees))

\* Some hit satisfies the search.
Promising(index, name) ==
    \E h \in Sym!Hits(index, name) : <<name, h.name>> \in PartOf

\* What holds of a call, at each step.
Building(r, trees) ==
    r.pc = "build" =>
        /\ Genuine(r.index, Len(trees), trees)
        /\ r.index.began = Len(trees) => Entire(r.index, r.left, Sym!Now(trees))

Holding(r, trees) ==
    r.pc \in {"write", "answer", "bodies", "verify", "done"} =>
        Built(r.index, trees)

Told(r) ==
    /\ r.pc = "verify" => r.kind = "trial"
    /\ r.pc = "bodies" => r.kind = "sym"
    /\ r.pc \in {"bodies", "verify", "done"} /\ r.kind # "index" =>
          /\ r.hits = Sym!Hits(r.index, r.name)
          /\ (r.exact <=> Sym!lookup(r.index, r.name) # {})

Quoted(r, trees) ==
    /\ r.pc \notin {"bodies", "done"} => r.bodies = <<>>
    /\ \A i \in DOMAIN r.bodies : r.bodies[i].hit \in r.hits
    /\ r.index.began = Len(trees) =>
          \A i \in DOMAIN r.bodies :
              LET b == r.bodies[i]
              IN b.body = [text |-> Sym!Now(trees)[b.hit.file],
                           first |-> b.hit.first, last |-> b.hit.last]

CallTrue(r, trees) ==
    Building(r, trees) /\ Holding(r, trees) /\ Told(r) /\ Quoted(r, trees)

\* A verified rewriting has, until its answer, an index to find the hit in.
Keeping(r, kept) ==
    r.kept =>
        /\ r.kind = "rewritten"
        /\ r.pc \in {"load", "answer", "done"}
        /\ r.pc = "load" => kept.is = "index" /\ Promising(kept.index, r.name)
        /\ r.pc \in {"answer", "done"} => Promising(r.index, r.name)

IndexInv ==
    /\ IndexTypeOK
    /\ indexFile.is = "index" => Built(indexFile.index, past)
    /\ \A c \in Callers : CallTrue(asked[c], past) /\ Keeping(asked[c], indexFile)

-----------------------------------------------------------------------------
LEMMA BlankType == Sym!Blank \in Index
<1>1. <<>> \in Seq(Sym!Paths)
  BY EmptySeq
<1> QED
  BY <1>1 DEF Sym!Blank, Index

LEMMA IdleCall == Sym!Idle \in IndexCall
<1>1. <<>> \in Seq(BodyOf)
  BY EmptySeq
<1> QED
  BY <1>1, BlankType DEF Sym!Idle, IndexCall, Steps

LEMMA IdleTrue ==
    ASSUME NEW trees, NEW kept
    PROVE  CallTrue(Sym!Idle, trees) /\ Keeping(Sym!Idle, kept)
<1>1. /\ Sym!Idle.pc = "idle" /\ Sym!Idle.bodies = <<>> /\ Sym!Idle.kept = FALSE
  BY DEF Sym!Idle
<1>2. DOMAIN Sym!Idle.bodies = {}
  BY <1>1
<1>3. Building(Sym!Idle, trees) /\ Holding(Sym!Idle, trees) /\ Told(Sym!Idle)
  BY <1>1 DEF Building, Holding, Told
<1>4. Quoted(Sym!Idle, trees)
  BY <1>1, <1>2 DEF Quoted
<1>5. Keeping(Sym!Idle, kept)
  BY <1>1 DEF Keeping
<1> QED
  BY <1>3, <1>4, <1>5 DEF CallTrue

LEMMA InvInit == Sym!Parsed /\ Sym!Init => IndexInv
<1> SUFFICES ASSUME Sym!Parsed, Sym!Init PROVE IndexInv
  OBVIOUS
<1>1. PICK tree \in Tree : past = <<tree>>
  BY DEF Sym!Init, Tree
<1>2. past \in Seq(Tree) /\ past # <<>>
  BY <1>1
<1>3. indexFile \in [is : {"absent", "empty", "torn", "index"}, index : Index] /\ indexFile.is = "absent"
  BY BlankType DEF Sym!Init, Sym!File
<1>4. asked = [c \in Callers |-> Sym!Idle]
  BY DEF Sym!Init
<1>5. IndexTypeOK
  BY <1>2, <1>3, <1>4, IdleCall DEF IndexTypeOK
<1>6. \A c \in Callers : CallTrue(asked[c], past) /\ Keeping(asked[c], indexFile)
  BY <1>4, IdleTrue
<1> QED
  BY <1>3, <1>5, <1>6 DEF IndexInv

-----------------------------------------------------------------------------
(***************************************************************************)
(* An edit: what was true of the history so far stays true.                *)
(***************************************************************************)
LEMMA BuiltLater ==
    ASSUME NEW trees \in Seq(Tree), NEW tree \in Tree, NEW index \in Index,
           Built(index, trees)
    PROVE  Built(index, Append(trees, tree))
<1> DEFINE later == Append(trees, tree)
<1>1. /\ Len(trees) \in Nat /\ Len(later) = Len(trees) + 1
      /\ \A t \in 1..Len(trees) : later[t] = trees[t]
  OBVIOUS
<1>2. index.ended \in 1..Len(trees) /\ index.began \in 1..index.ended
  BY DEF Built, Genuine
<1> HIDE DEF later
<1>3. \A t \in index.began..index.ended : later[t] = trees[t]
  BY <1>1, <1>2 DEF Index
<1>4. Genuine(index, index.ended, later)
  BY <1>3 DEF Built, Genuine
<1>5. index.began # Len(later) /\ index.ended \in 1..Len(later)
  BY <1>1, <1>2 DEF Index
<1>6. Built(index, later)
  BY <1>4, <1>5 DEF Built
<1> QED
  BY <1>6 DEF later

LEMMA CallTrueLater ==
    ASSUME NEW trees \in Seq(Tree), NEW tree \in Tree, NEW r \in IndexCall,
           CallTrue(r, trees)
    PROVE  CallTrue(r, Append(trees, tree))
<1> DEFINE later == Append(trees, tree)
<1>0. r.index \in Index /\ r.pc \in Steps
  BY DEF IndexCall
<1>1. /\ Len(trees) \in Nat /\ Len(later) = Len(trees) + 1
      /\ \A t \in 1..Len(trees) : later[t] = trees[t]
  OBVIOUS
<1> HIDE DEF later
<1>2. Building(r, later)
  <2> SUFFICES ASSUME r.pc = "build" PROVE
        /\ Genuine(r.index, Len(later), later)
        /\ r.index.began # Len(later)
    BY DEF Building
  <2>1. Genuine(r.index, Len(trees), trees)
    BY DEF CallTrue, Building
  <2>2. r.index.began \in 1..Len(trees) /\ r.index.began \in Nat
    BY <1>0, <2>1 DEF Genuine, Index
  <2>3. /\ r.index.began..Len(trees) \subseteq r.index.began..Len(later)
        /\ \A t \in r.index.began..Len(trees) : later[t] = trees[t]
        /\ r.index.began \in 1..Len(later) /\ r.index.began # Len(later)
    BY <1>1, <2>2
  <2> QED
    BY <2>1, <2>3 DEF Genuine
<1>3. Holding(r, later)
  BY <1>0, BuiltLater DEF CallTrue, Holding, later
<1>4. Quoted(r, later)
  <2>1. CASE r.pc \in {"bodies", "done"}
    <3>1. r.index.ended \in 1..Len(trees) /\ r.index.began \in 1..r.index.ended
      BY <2>1 DEF CallTrue, Holding, Built, Genuine
    <3>2. r.index.began # Len(later)
      BY <1>0, <1>1, <3>1 DEF Index
    <3> QED
      BY <3>2 DEF CallTrue, Quoted
  <2>2. CASE r.pc \notin {"bodies", "done"}
    <3>1. DOMAIN r.bodies = {}
      BY <2>2 DEF CallTrue, Quoted
    <3> QED
      BY <3>1, <2>2 DEF CallTrue, Quoted
  <2> QED
    BY <2>1, <2>2
<1>5. CallTrue(r, later)
  BY <1>2, <1>3, <1>4 DEF CallTrue
<1> QED
  BY <1>5 DEF later

LEMMA DiskType == IndexTypeOK => Sym!disk \in Tree /\ Len(past) \in Nat \ {0}
<1> SUFFICES ASSUME IndexTypeOK PROVE past[Len(past)] \in Tree /\ Len(past) \in Nat \ {0}
  BY DEF Sym!disk, Sym!Now
<1> QED
  BY DEF IndexTypeOK

LEMMA EditStep == IndexInv /\ Sym!Edit => IndexInv'
<1> SUFFICES ASSUME IndexInv, Sym!Edit PROVE IndexInv'
  OBVIOUS
<1>1. past \in Seq(Tree) /\ past # <<>>
  BY DEF IndexInv, IndexTypeOK
<1>2. Sym!disk \in Tree
  BY DiskType DEF IndexInv
<1>3. PICK p \in Sym!Paths, t \in Texts \cup {Sym!Gone} :
         past' = Append(past, [Sym!disk EXCEPT ![p] = t])
  BY DEF Sym!Edit
<1> DEFINE tree == [Sym!disk EXCEPT ![p] = t]
<1>4. tree \in Tree /\ past' = Append(past, tree)
  BY <1>2, <1>3 DEF Tree
<1> HIDE DEF tree
<1>5. UNCHANGED <<indexFile, asked>>
  BY DEF Sym!Edit
<1>6. past' \in Seq(Tree) /\ past' # <<>>
  BY <1>1, <1>4
<1>7. IndexTypeOK'
  BY <1>5, <1>6 DEF IndexInv, IndexTypeOK
<1>8. indexFile.is = "index" => Built(indexFile.index, past')
  BY <1>1, <1>4, BuiltLater DEF IndexInv, IndexTypeOK
<1>9. \A c \in Callers : CallTrue(asked[c], past')
  BY <1>1, <1>4, CallTrueLater DEF IndexInv, IndexTypeOK
<1> QED
  BY <1>5, <1>7, <1>8, <1>9 DEF IndexInv

-----------------------------------------------------------------------------
(***************************************************************************)
(* The steps of calls.                                                     *)
(***************************************************************************)
LEMMA OneMoves ==
    ASSUME IndexInv, NEW c \in Callers, NEW new \in IndexCall,
           asked' = [asked EXCEPT ![c] = new], UNCHANGED <<past, indexFile>>,
           CallTrue(new, past), Keeping(new, indexFile)
    PROVE  IndexInv'
<1>1. IndexTypeOK'
  BY DEF IndexInv, IndexTypeOK
<1>2. \A d \in Callers : CallTrue(asked'[d], past) /\ Keeping(asked'[d], indexFile)
  BY DEF IndexInv, IndexTypeOK
<1> QED
  BY <1>1, <1>2 DEF IndexInv

\* What is true of a call does not depend on whether another has replaced
\* the cache.
LEMMA Unkept ==
    ASSUME NEW r \in IndexCall, NEW trees, CallTrue(r, trees), NEW kept
    PROVE  LET forgot == [r EXCEPT !.kept = FALSE]
           IN  forgot \in IndexCall /\ CallTrue(forgot, trees) /\ Keeping(forgot, kept)
<1> DEFINE forgot == [r EXCEPT !.kept = FALSE]
<1>1. /\ forgot \in IndexCall
      /\ forgot.pc = r.pc /\ forgot.kind = r.kind /\ forgot.name = r.name
      /\ forgot.index = r.index /\ forgot.left = r.left
      /\ forgot.hits = r.hits /\ forgot.bodies = r.bodies
  BY DEF IndexCall
<1>2. forgot.exact = r.exact
  BY DEF IndexCall
<1>3. forgot.kept = FALSE
  BY DEF IndexCall
<1> HIDE DEF forgot
<1>4. Building(forgot, trees) /\ Holding(forgot, trees) /\ Quoted(forgot, trees)
  BY <1>1 DEF CallTrue, Building, Holding, Quoted
<1>5. Told(forgot)
  BY <1>1, <1>2 DEF CallTrue, Told
<1>6. Keeping(forgot, kept)
  BY <1>3 DEF Keeping
<1> QED
  BY <1>1, <1>4, <1>5, <1>6 DEF CallTrue, forgot

LEMMA CacheMoves ==
    ASSUME IndexInv, NEW c \in Callers, NEW new \in IndexCall,
           NEW kept \in [is : {"absent", "empty", "torn", "index"}, index : Index],
           asked' = [d \in Callers |->
                      IF d = c THEN new ELSE [asked[d] EXCEPT !.kept = FALSE]],
           past' = past, indexFile' = kept,
           kept.is = "index" => Built(kept.index, past),
           CallTrue(new, past), Keeping(new, kept)
    PROVE  IndexInv'
<1>1. \A d \in Callers :
         asked'[d] \in IndexCall /\ CallTrue(asked'[d], past) /\ Keeping(asked'[d], kept)
  <2> TAKE d \in Callers
  <2>1. CASE d = c
    BY <2>1
  <2>2. CASE d # c
    <3>1. asked[d] \in IndexCall /\ CallTrue(asked[d], past)
      BY DEF IndexInv, IndexTypeOK
    <3> QED
      BY <2>2, <3>1, Unkept
  <2> QED
    BY <2>1, <2>2
<1>2. IndexTypeOK'
  BY <1>1 DEF IndexInv, IndexTypeOK
<1> QED
  BY <1>1, <1>2 DEF IndexInv

\* A call that begins knows nothing yet.
LEMMA Begins ==
    ASSUME NEW new \in IndexCall, new.pc \in {"load", "walk"}, new.bodies = <<>>,
           new.kept = FALSE, NEW trees, NEW kept
    PROVE  CallTrue(new, trees) /\ Keeping(new, kept)
<1>1. DOMAIN new.bodies = {}
  OBVIOUS
<1>2. Building(new, trees) /\ Holding(new, trees) /\ Told(new)
  BY DEF Building, Holding, Told
<1>3. Quoted(new, trees)
  BY <1>1 DEF Quoted
<1>4. Keeping(new, kept)
  BY DEF Keeping
<1> QED
  BY <1>2, <1>3, <1>4 DEF CallTrue

LEMMA BeginStep ==
    ASSUME IndexInv, NEW c \in Callers, Sym!Ask(c) \/ Sym!Reindex(c) \/ Sym!Search(c)
    PROVE  IndexInv'
<1>1. UNCHANGED <<past, indexFile>>
  BY DEF Sym!Ask, Sym!Reindex, Sym!Search
<1>2. ASSUME NEW new \in IndexCall, new.pc \in {"load", "walk"},
             new.bodies = <<>>, new.kept = FALSE,
             asked' = [asked EXCEPT ![c] = new]
      PROVE  IndexInv'
  BY <1>1, <1>2, Begins, OneMoves
<1>3. ASSUME NEW step \in {"load", "walk"}, NEW kind \in {"sym", "trial"},
             NEW n \in Names,
             asked' = [asked EXCEPT ![c] =
                [Sym!Idle EXCEPT !.pc = step, !.kind = kind, !.name = n]]
      PROVE  IndexInv'
  <2> DEFINE new == [Sym!Idle EXCEPT !.pc = step, !.kind = kind, !.name = n]
  <2>1. new \in IndexCall
    BY IdleCall DEF IndexCall, Steps
  <2>2. new.pc = step /\ new.bodies = <<>> /\ new.kept = FALSE
    BY DEF Sym!Idle
  <2> QED
    BY <1>2, <1>3, <2>1, <2>2
<1>4. CASE Sym!Reindex(c)
  <2> DEFINE new == [Sym!Idle EXCEPT !.pc = "walk", !.kind = "index"]
  <2>1. new \in IndexCall
    BY IdleCall DEF IndexCall, Steps
  <2>2. new.pc = "walk" /\ new.bodies = <<>> /\ new.kept = FALSE
    BY DEF Sym!Idle
  <2> QED
    BY <1>2, <1>4, <2>1, <2>2 DEF Sym!Reindex, Sym!Step
<1> QED
  BY <1>3, <1>4 DEF Sym!Ask, Sym!Search, Sym!Step

LEMMA EndStep ==
    ASSUME IndexInv, NEW c \in Callers, Sym!Return(c) \/ Sym!Kill(c)
    PROVE  IndexInv'
<1>1. asked' = [asked EXCEPT ![c] = Sym!Idle] /\ UNCHANGED <<past, indexFile>>
  BY DEF Sym!Return, Sym!Kill, Sym!Step
<1> QED
  BY <1>1, IdleCall, IdleTrue, OneMoves

LEMMA LoadStep ==
    ASSUME IndexInv, NEW c \in Callers, Sym!Load(c)
    PROVE  IndexInv'
<1> DEFINE r == asked[c]
           loaded == [r EXCEPT !.pc = "answer", !.index = indexFile.index]
           missed == [r EXCEPT !.pc = "walk"]
<1>1. r \in IndexCall /\ r.pc = "load" /\ UNCHANGED <<past, indexFile>>
  BY DEF Sym!Load, Sym!Step, IndexInv, IndexTypeOK
<1>2. CallTrue(r, past) /\ Keeping(r, indexFile)
  BY DEF IndexInv
<1>3. asked' = [asked EXCEPT ![c] = IF indexFile.is = "index" THEN loaded ELSE missed]
  BY DEF Sym!Load, Sym!Step
<1>4. indexFile.index \in Index
  BY DEF IndexInv, IndexTypeOK
<1>5. r.bodies = <<>>
  BY <1>1, <1>2 DEF CallTrue, Quoted
<1>6. CASE indexFile.is = "index"
  <2>1. loaded \in IndexCall
    BY <1>1, <1>4 DEF IndexCall, Steps
  <2>2. /\ loaded.pc = "answer" /\ loaded.index = indexFile.index
        /\ loaded.kind = r.kind /\ loaded.name = r.name
        /\ loaded.bodies = <<>> /\ loaded.kept = r.kept
    BY <1>1, <1>5 DEF IndexCall
  <2>3. asked' = [asked EXCEPT ![c] = loaded]
    BY <1>3, <1>6
  <2> HIDE DEF loaded, r
  <2>4. Building(loaded, past) /\ Told(loaded)
    BY <2>2 DEF Building, Told
  <2>5. Holding(loaded, past)
    BY <1>6, <2>2 DEF Holding, IndexInv
  <2>6. Quoted(loaded, past)
    <3>1. DOMAIN loaded.bodies = {}
      BY <2>2
    <3> QED
      BY <2>2, <3>1 DEF Quoted
  <2>7. Keeping(loaded, indexFile)
    BY <1>1, <1>2, <2>2 DEF Keeping
  <2> QED
    BY <1>1, <2>1, <2>3, <2>4, <2>5, <2>6, <2>7, OneMoves DEF CallTrue
<1>7. CASE indexFile.is # "index"
  <2>1. missed \in IndexCall
    BY <1>1 DEF IndexCall, Steps
  <2>2. missed.pc = "walk" /\ missed.bodies = <<>> /\ missed.kept = r.kept
    BY <1>1, <1>5 DEF IndexCall
  <2>3. missed.kept = FALSE
    BY <1>1, <1>2, <1>7, <2>1, <2>2 DEF Keeping, IndexCall
  <2> HIDE DEF missed, r
  <2> QED
    BY <1>1, <1>3, <1>7, <2>1, <2>2, <2>3, Begins, OneMoves
<1> QED
  BY <1>6, <1>7

\* A call that has loaded nothing keeps nothing.
LEMMA NotKept ==
    ASSUME IndexInv, NEW c \in Callers,
           asked[c].pc \in {"walk", "build", "write", "bodies", "verify"}
    PROVE  asked[c].kept = FALSE
<1>1. asked[c] \in IndexCall /\ Keeping(asked[c], indexFile)
  BY DEF IndexInv, IndexTypeOK
<1> QED
  BY <1>1 DEF Keeping, IndexCall

LEMMA WalkStep ==
    ASSUME IndexInv, NEW c \in Callers, Sym!Walk(c)
    PROVE  IndexInv'
<1> DEFINE r == asked[c]
           begun == [Sym!Blank EXCEPT !.began = Len(past)]
           found == {p \in Sym!Paths : Sym!disk[p] # Sym!Gone}
           new == [r EXCEPT !.pc = "build", !.index = begun, !.left = found]
<1>1. r \in IndexCall /\ r.pc = "walk" /\ UNCHANGED <<past, indexFile>>
  BY DEF Sym!Walk, Sym!Step, IndexInv, IndexTypeOK
<1>2. asked' = [asked EXCEPT ![c] = new]
  BY DEF Sym!Walk, Sym!Step
<1>3. CallTrue(r, past) /\ r.kept = FALSE
  BY <1>1, NotKept DEF IndexInv
<1>4. Len(past) \in Nat \ {0} /\ Sym!disk \in Tree
  BY DiskType DEF IndexInv
<1>5. begun \in Index
  BY <1>4, BlankType DEF Index
<1>6. begun.began = Len(past) /\ begun.files = <<>> /\ begun.symbols = {}
  BY DEF Sym!Blank
<1>7. new \in IndexCall
  <2>1. found \in SUBSET Sym!Paths
    OBVIOUS
  <2> HIDE DEF found, begun
  <2> QED
    BY <1>1, <1>5, <2>1 DEF IndexCall, Steps
<1>8. /\ new.pc = "build" /\ new.index = begun /\ new.left = found
      /\ new.bodies = r.bodies /\ new.kept = r.kept
  BY <1>1 DEF IndexCall
<1> HIDE DEF new, begun, r
<1>9. Genuine(begun, Len(past), past)
  BY <1>4, <1>6 DEF Genuine
<1>10. Entire(begun, found, Sym!disk)
  <2>1. DOMAIN begun.files = {}
    BY <1>6
  <2>2. \A p \in Sym!Paths \ found : Sym!disk[p].symbols = {}
    BY DEF Sym!Gone
  <2> QED
    BY <2>1, <2>2 DEF Entire
<1>11. Building(new, past)
  BY <1>8, <1>9, <1>10 DEF Building, Sym!disk
<1>12. Holding(new, past) /\ Told(new)
  BY <1>8 DEF Holding, Told
<1>13. Quoted(new, past)
  <2>1. r.bodies = <<>> /\ DOMAIN r.bodies = {}
    BY <1>1, <1>3 DEF CallTrue, Quoted
  <2> QED
    BY <1>8, <2>1 DEF Quoted
<1>14. Keeping(new, indexFile)
  BY <1>3, <1>8 DEF Keeping
<1> QED
  BY <1>1, <1>2, <1>7, <1>11, <1>12, <1>13, <1>14, OneMoves DEF CallTrue

\* What is read of a file, and where it goes.
LEMMA AddGenuine ==
    ASSUME Sym!Parsed, NEW trees \in Seq(Tree), trees # <<>>, NEW index \in Index,
           Genuine(index, Len(trees), trees),
           NEW p \in Sym!Paths, NEW more \in Index,
           more.began = index.began,
           more.files = IF Sym!Now(trees)[p] = Sym!Gone THEN index.files ELSE Append(index.files, p),
           more.symbols = index.symbols \cup
              {At(s, Len(index.files) + 1) : s \in Sym!Now(trees)[p].symbols}
    PROVE  Genuine(more, Len(trees), trees)
<1>1. Len(trees) \in Nat \ {0} /\ Sym!Now(trees) \in Tree /\ Sym!Now(trees) = trees[Len(trees)]
  BY DEF Sym!Now
<1>2. /\ index.files \in Seq(Sym!Paths) /\ Len(index.files) \in Nat
      /\ \A i \in DOMAIN index.files :
            i \in DOMAIN more.files /\ more.files[i] = index.files[i]
  <2>1. index.files \in Seq(Sym!Paths)
    BY DEF Index
  <2> QED
    BY <2>1
<1>3. index.began \in 1..Len(trees)
  BY DEF Genuine
<1>4. ASSUME NEW s \in index.symbols
      PROVE  /\ s.file \in DOMAIN more.files
             /\ \E t \in more.began..Len(trees) :
                   Bare(s) \in trees[t][more.files[s.file]].symbols
  BY <1>2, SMTT(30) DEF Genuine
<1>5. ASSUME NEW x \in Sym!Now(trees)[p].symbols
      PROVE  LET s == At(x, Len(index.files) + 1)
             IN  /\ s.file \in DOMAIN more.files
                 /\ \E t \in more.began..Len(trees) :
                       Bare(s) \in trees[t][more.files[s.file]].symbols
  <2> DEFINE s == At(x, Len(index.files) + 1)
  <2>1. Sym!Now(trees)[p] # Sym!Gone /\ Sym!Now(trees)[p] \in Texts
    BY <1>1, <1>5 DEF Sym!Gone, Tree
  <2>2. more.files = Append(index.files, p)
    BY <2>1
  <2>3. s.file \in DOMAIN more.files /\ more.files[s.file] = p
    BY <1>2, <2>2 DEF At
  <2>4. Bare(s) = x
    BY <2>1, <1>5 DEF Bare, At, Sym!Parsed
  <2>5. Len(trees) \in more.began..Len(trees)
    BY <1>1, <1>3
  <2> HIDE DEF s
  <2>6. Bare(s) \in trees[Len(trees)][more.files[s.file]].symbols
    BY <1>1, <1>5, <2>3, <2>4
  <2>7. /\ s.file \in DOMAIN more.files
        /\ \E t \in more.began..Len(trees) :
              Bare(s) \in trees[t][more.files[s.file]].symbols
    BY <2>3, <2>5, <2>6
  <2> QED
    BY <2>7 DEF s
<1> QED
  BY <1>3, <1>4, <1>5 DEF Genuine

LEMMA AddEntire ==
    ASSUME NEW tree \in Tree, NEW index \in Index, NEW left,
           Entire(index, left, tree),
           NEW p \in Sym!Paths, NEW more \in Index,
           more.files = IF tree[p] = Sym!Gone THEN index.files ELSE Append(index.files, p),
           more.symbols = index.symbols \cup
              {At(s, Len(index.files) + 1) : s \in tree[p].symbols}
    PROVE  Entire(more, left \ {p}, tree)
<1>1. index.files \in Seq(Sym!Paths) /\ Len(index.files) \in Nat
  BY DEF Index
<1>2. CASE tree[p] = Sym!Gone
  BY <1>2 DEF Entire, Sym!Gone
<1>3. CASE tree[p] # Sym!Gone
  <2>1. /\ DOMAIN more.files = DOMAIN index.files \cup {Len(index.files) + 1}
        /\ \A i \in DOMAIN index.files : more.files[i] = index.files[i]
        /\ more.files[Len(index.files) + 1] = p
    BY <1>1, <1>3
  <2>2. ASSUME NEW i \in DOMAIN more.files, NEW s \in tree[more.files[i]].symbols
        PROVE  At(s, i) \in more.symbols
    BY <2>1, <2>2 DEF Entire
  <2>3. ASSUME NEW q \in Sym!Paths \ (left \ {p}), tree[q].symbols # {}
        PROVE  \E i \in DOMAIN more.files : more.files[i] = q
    BY <2>1, <2>3 DEF Entire
  <2> QED
    BY <2>2, <2>3 DEF Entire
<1> QED
  BY <1>2, <1>3

\* The symbols of a file, as ReadFile places them.
LEMMA SymbolType ==
    ASSUME Sym!Parsed, NEW text \in Texts \cup {Sym!Gone}, NEW at \in Nat \ {0}
    PROVE  {At(s, at) : s \in text.symbols} \in SUBSET Placed
<1> SUFFICES ASSUME NEW s \in text.symbols PROVE At(s, at) \in Placed
  OBVIOUS
<1>1. text \in Texts
  BY DEF Sym!Gone
<1>2. s.name \in NamesKnown /\ s.first \in Nat \ {0} /\ s.last \in Nat
  BY <1>1 DEF Sym!Parsed, NamesKnown, Known
<1> QED
  BY <1>2 DEF At, Placed

LEMMA ReadFileStep ==
    ASSUME Sym!Parsed, IndexInv, NEW c \in Callers, Sym!ReadFile(c)
    PROVE  IndexInv'
<1> DEFINE r == asked[c]
           p == Sym!FirstOf(r.left)
           at == Len(r.index.files) + 1
           files == IF Sym!disk[p] = Sym!Gone THEN r.index.files ELSE Append(r.index.files, p)
           placed == {At(s, at) : s \in Sym!disk[p].symbols}
           new == [r EXCEPT !.left = @ \ {p},
                            !.index.files = files,
                            !.index.symbols = @ \cup placed]
<1>1. r \in IndexCall /\ r.pc = "build" /\ UNCHANGED <<past, indexFile>>
  BY DEF Sym!ReadFile, Sym!Step, IndexInv, IndexTypeOK
<1>2. asked' = [asked EXCEPT ![c] = new]
  BY DEF Sym!ReadFile, Sym!Step, At
<1>3. CallTrue(r, past) /\ r.kept = FALSE
  BY <1>1, NotKept DEF IndexInv
<1>4. past \in Seq(Tree) /\ past # <<>> /\ Sym!disk \in Tree
  BY DiskType DEF IndexInv, IndexTypeOK
<1>5. r.left \in SUBSET Sym!Paths /\ r.left # {} /\ r.index \in Index
  BY <1>1 DEF Sym!ReadFile, IndexCall
<1>6. p \in Sym!Paths
  BY <1>5, FirstIsLeft
<1>7. /\ r.index.files \in Seq(Sym!Paths) /\ at \in Nat \ {0}
      /\ r.index.symbols \in SUBSET Placed
  BY <1>5 DEF Index
<1>8. Sym!disk[p] \in Texts \cup {Sym!Gone}
  BY <1>4, <1>6 DEF Tree
<1>9. placed \in SUBSET Placed
  <2> HIDE DEF at, p
  <2> QED
    BY <1>7, <1>8, SymbolType
<1>10. files \in Seq(Sym!Paths)
  <2> HIDE DEF p
  <2> QED
    BY <1>6, <1>7
<1> HIDE DEF files, placed, p, r
<1>11. /\ new.index \in Index
       /\ new.index.files = files /\ new.index.symbols = r.index.symbols \cup placed
       /\ new.index.began = r.index.began
  BY <1>1, <1>5, <1>7, <1>9, <1>10 DEF IndexCall, Index
<1>12. /\ new.pc = "build" /\ new.left = r.left \ {p}
       /\ new.bodies = r.bodies /\ new.kept = r.kept
  BY <1>1 DEF IndexCall
<1>13. new \in IndexCall
  BY <1>1, <1>5, <1>7, <1>9, <1>10 DEF IndexCall, Index
<1> DEFINE more == new.index
<1>14. /\ more \in Index /\ more.began = r.index.began
       /\ more.files = IF Sym!Now(past)[p] = Sym!Gone THEN r.index.files
                       ELSE Append(r.index.files, p)
       /\ more.symbols = r.index.symbols \cup
             {At(s, Len(r.index.files) + 1) : s \in Sym!Now(past)[p].symbols}
  BY <1>11 DEF files, placed, Sym!disk
<1> HIDE DEF new
<1>15. Genuine(r.index, Len(past), past)
       /\ (r.index.began = Len(past) => Entire(r.index, r.left, Sym!Now(past)))
  BY <1>1, <1>3 DEF CallTrue, Building
<1>16. Genuine(more, Len(past), past)
  BY <1>4, <1>5, <1>6, <1>14, <1>15, AddGenuine
<1>17. more.began = Len(past) => Entire(more, r.left \ {p}, Sym!Now(past))
  BY <1>4, <1>5, <1>6, <1>14, <1>15, AddEntire DEF Sym!disk
<1>18. Building(new, past)
  BY <1>12, <1>16, <1>17 DEF Building
<1>19. Holding(new, past) /\ Told(new)
  BY <1>12 DEF Holding, Told
<1>20. Quoted(new, past)
  <2>1. r.bodies = <<>> /\ DOMAIN r.bodies = {}
    BY <1>1, <1>3 DEF CallTrue, Quoted
  <2> QED
    BY <1>12, <2>1 DEF Quoted
<1>21. Keeping(new, indexFile)
  BY <1>3, <1>12 DEF Keeping
<1> QED
  BY <1>1, <1>2, <1>13, <1>18, <1>19, <1>20, <1>21, OneMoves DEF CallTrue, r

\* A call that has built its index, and goes on to save it or to answer.
LEMMA Finished ==
    ASSUME NEW r \in IndexCall, NEW trees \in Seq(Tree), trees # <<>>,
           CallTrue(r, trees), r.pc = "build", r.left = {}, r.kept = FALSE,
           NEW step \in {"write", "answer", "done"},
           step = "done" => r.kind = "index", NEW kept
    PROVE  LET new == [r EXCEPT !.pc = step, !.index.ended = Len(trees)]
           IN  new \in IndexCall /\ CallTrue(new, trees) /\ Keeping(new, kept)
<1> DEFINE new == [r EXCEPT !.pc = step, !.index.ended = Len(trees)]
<1>1. Len(trees) \in Nat \ {0}
  OBVIOUS
<1>2. r.index \in Index
  BY DEF IndexCall
<1>3. new \in IndexCall
  BY <1>1, <1>2 DEF IndexCall, Index, Steps
<1>4. /\ new.pc = step /\ new.kind = r.kind /\ new.bodies = r.bodies
      /\ new.kept = r.kept
  BY DEF IndexCall
<1>5. /\ new.index.files = r.index.files /\ new.index.symbols = r.index.symbols
      /\ new.index.began = r.index.began /\ new.index.ended = Len(trees)
  BY <1>1, <1>2 DEF IndexCall, Index
<1> HIDE DEF new
<1>6. Genuine(r.index, Len(trees), trees)
      /\ (r.index.began = Len(trees) => Entire(r.index, {}, Sym!Now(trees)))
  BY DEF CallTrue, Building
<1>7. Genuine(new.index, Len(trees), trees)
  BY <1>5, <1>6 DEF Genuine
<1>8. new.index.began = Len(trees) => Entire(new.index, {}, Sym!Now(trees))
  BY <1>5, <1>6 DEF Entire
<1>9. Built(new.index, trees)
  BY <1>1, <1>5, <1>7, <1>8 DEF Built
<1>10. Building(new, trees) /\ Holding(new, trees)
  BY <1>4, <1>9 DEF Building, Holding
<1>11. Told(new)
  BY <1>4 DEF Told
<1>12. Quoted(new, trees)
  <2>1. r.bodies = <<>> /\ DOMAIN r.bodies = {}
    BY DEF CallTrue, Quoted
  <2> QED
    BY <1>4, <2>1 DEF Quoted
<1>13. Keeping(new, kept)
  BY <1>4 DEF Keeping
<1>14. CallTrue(new, trees)
  BY <1>10, <1>11, <1>12 DEF CallTrue
<1> QED
  BY <1>3, <1>13, <1>14 DEF new

LEMMA TruncateStep ==
    ASSUME IndexInv, NEW c \in Callers, Sym!Truncate(c)
    PROVE  IndexInv'
<1> DEFINE r == asked[c]
           to(step) == [r EXCEPT !.pc = step, !.index.ended = Len(past)]
<1>1. r \in IndexCall /\ r.pc = "build" /\ r.left = {} /\ past' = past
  BY DEF Sym!Truncate, Sym!StepWriting, Sym!Step, IndexInv, IndexTypeOK
<1>2. CallTrue(r, past) /\ r.kept = FALSE
  BY <1>1, NotKept DEF IndexInv
<1>3. past \in Seq(Tree) /\ past # <<>>
  BY DEF IndexInv, IndexTypeOK
<1>4. ASSUME NEW step \in {"write", "answer", "done"},
             step = "done" => r.kind = "index", NEW kept
      PROVE  to(step) \in IndexCall /\ CallTrue(to(step), past) /\ Keeping(to(step), kept)
  <2> HIDE DEF r
  <2> QED
    BY <1>1, <1>2, <1>3, <1>4, Finished
<1>5. CASE Sym!StepWriting(c, "build", to("write")) /\ indexFile' = Sym!File("empty", Sym!Blank)
  <2> DEFINE new == to("write")
             kept == Sym!File("empty", Sym!Blank)
  <2>1. new \in IndexCall /\ CallTrue(new, past) /\ Keeping(new, kept)
    BY <1>4
  <2>2. asked' = [d \in Callers |->
                   IF d = c THEN new ELSE [asked[d] EXCEPT !.kept = FALSE]]
    BY <1>5 DEF Sym!StepWriting
  <2>3. /\ kept \in [is : {"absent", "empty", "torn", "index"}, index : Index]
        /\ kept.is = "empty"
    BY BlankType DEF Sym!File
  <2>4. indexFile' = kept
    BY <1>5
  <2> HIDE DEF new, kept
  <2> QED
    BY <1>1, <2>1, <2>2, <2>3, <2>4, CacheMoves
<1>6. CASE Sym!Step(c, "build", to(Sym!After(r.kind))) /\ UNCHANGED indexFile
  <2> DEFINE new == to(Sym!After(r.kind))
  <2>1. /\ Sym!After(r.kind) \in {"write", "answer", "done"}
        /\ Sym!After(r.kind) = "done" => r.kind = "index"
    BY DEF Sym!After
  <2>2. new \in IndexCall /\ CallTrue(new, past) /\ Keeping(new, indexFile)
    BY <1>4, <2>1
  <2>3. asked' = [asked EXCEPT ![c] = new]
    BY <1>6 DEF Sym!Step
  <2> HIDE DEF new
  <2> QED
    BY <1>1, <1>6, <2>2, <2>3, OneMoves
<1> QED
  BY <1>5, <1>6 DEF Sym!Truncate

LEMMA WriteStep ==
    ASSUME IndexInv, NEW c \in Callers, Sym!Write(c)
    PROVE  IndexInv'
<1> DEFINE r == asked[c]
           new == [r EXCEPT !.pc = Sym!After(r.kind)]
<1>1. r \in IndexCall /\ r.pc = "write" /\ past' = past
  BY DEF Sym!Write, Sym!StepWriting, IndexInv, IndexTypeOK
<1>2. CallTrue(r, past) /\ r.kept = FALSE
  BY <1>1, NotKept DEF IndexInv
<1>3. asked' = [d \in Callers |->
                 IF d = c THEN new ELSE [asked[d] EXCEPT !.kept = FALSE]]
  BY DEF Sym!Write, Sym!StepWriting
<1>4. Sym!After(r.kind) \in {"answer", "done"} /\ (Sym!After(r.kind) = "done" => r.kind = "index")
  BY DEF Sym!After
<1>5. /\ new \in IndexCall /\ new.pc = Sym!After(r.kind) /\ new.kind = r.kind
      /\ new.index = r.index /\ new.bodies = r.bodies /\ new.kept = r.kept
  BY <1>1, <1>4 DEF IndexCall, Steps
<1> HIDE DEF r, new
<1>6. Built(r.index, past)
  BY <1>1, <1>2 DEF CallTrue, Holding
<1>7. Building(new, past) /\ Holding(new, past)
  BY <1>4, <1>5, <1>6 DEF Building, Holding
<1>8. Told(new)
  BY <1>4, <1>5 DEF Told
<1>9. Quoted(new, past)
  <2>1. r.bodies = <<>> /\ DOMAIN r.bodies = {}
    BY <1>1, <1>2 DEF CallTrue, Quoted
  <2> QED
    BY <1>5, <2>1 DEF Quoted
<1>10. CallTrue(new, past)
  BY <1>7, <1>8, <1>9 DEF CallTrue
<1>11. \A kept : Keeping(new, kept)
  BY <1>2, <1>5 DEF Keeping
<1>12. PICK kept \in {Sym!File("index", r.index), Sym!File("torn", Sym!Blank)} : indexFile' = kept
  BY DEF Sym!Write, r
<1>13. /\ kept \in [is : {"absent", "empty", "torn", "index"}, index : Index]
       /\ kept.is = "index" => kept.index = r.index
  BY <1>1, <1>12, BlankType DEF Sym!File, IndexCall
<1> QED
  BY <1>1, <1>3, <1>5, <1>6, <1>10, <1>11, <1>12, <1>13, CacheMoves

-----------------------------------------------------------------------------
(***************************************************************************)
(* Answers.                                                                *)
(***************************************************************************)

\* A hit is a symbol of the index, told with the path of its file.
LEMMA HitsAreSymbols ==
    ASSUME NEW index, NEW name, NEW h \in Sym!Hits(index, name)
    PROVE  \E s \in index.symbols :
              h = [name |-> s.name, file |-> index.files[s.file],
                   first |-> s.first, last |-> s.last]
BY DEF Sym!Hits, Sym!lookup, Sym!search

LEMMA HitsType ==
    ASSUME NEW index \in Index, NEW name, NEW upto, NEW trees,
           Genuine(index, upto, trees)
    PROVE  Sym!Hits(index, name) \in SUBSET IndexHit
<1> SUFFICES ASSUME NEW h \in Sym!Hits(index, name) PROVE h \in IndexHit
  OBVIOUS
<1>1. PICK s \in index.symbols :
         h = [name |-> s.name, file |-> index.files[s.file],
              first |-> s.first, last |-> s.last]
  BY HitsAreSymbols
<1>2. s \in Placed /\ index.files \in Seq(Sym!Paths) /\ s.file \in DOMAIN index.files
  BY DEF Index, Genuine
<1>3. index.files[s.file] \in Sym!Paths
  BY <1>2
<1> QED
  BY <1>1, <1>2, <1>3 DEF IndexHit, Placed

LEMMA AnswerStep ==
    ASSUME IndexInv, NEW c \in Callers, Sym!Answer(c)
    PROVE  IndexInv'
<1> DEFINE r == asked[c]
           step == IF r.kind = "sym" THEN "bodies"
                   ELSE IF r.kind = "trial" THEN "verify" ELSE "done"
           known == Sym!lookup(r.index, r.name) # {}
           hits == Sym!Hits(r.index, r.name)
           new == [r EXCEPT !.pc = step, !.exact = known, !.hits = hits]
<1>1. r \in IndexCall /\ r.pc = "answer" /\ UNCHANGED <<past, indexFile>>
  BY DEF Sym!Answer, Sym!Step, IndexInv, IndexTypeOK
<1>2. asked' = [asked EXCEPT ![c] = new]
  BY DEF Sym!Answer, Sym!Step
<1>3. CallTrue(r, past) /\ Keeping(r, indexFile)
  BY DEF IndexInv
<1>4. Built(r.index, past)
  BY <1>1, <1>3 DEF CallTrue, Holding
<1>5. hits \in SUBSET IndexHit
  BY <1>1, <1>4, HitsType DEF IndexCall, Built
<1>6. known \in BOOLEAN
  OBVIOUS
<1>7. /\ step \in {"bodies", "verify", "done"}
      /\ step = "bodies" => r.kind = "sym"
      /\ step = "verify" => r.kind = "trial"
  OBVIOUS
<1>8. r.kind = "rewritten" => step = "done"
  OBVIOUS
<1> HIDE DEF step, known, hits, r
<1>9. new \in IndexCall
  BY <1>1, <1>5, <1>6, <1>7 DEF IndexCall, Steps
<1>10. /\ new.pc = step /\ new.kind = r.kind /\ new.name = r.name
       /\ new.index = r.index /\ new.hits = hits /\ new.bodies = r.bodies
       /\ new.kept = r.kept
  BY <1>1 DEF IndexCall
<1>11. new.exact = known
  BY <1>1 DEF IndexCall
<1> HIDE DEF new
<1>12. Building(new, past) /\ Holding(new, past)
  BY <1>4, <1>7, <1>10 DEF Building, Holding
<1>13. Told(new)
  <2>1. new.exact <=> Sym!lookup(new.index, new.name) # {}
    BY <1>10, <1>11 DEF known
  <2>2. new.hits = Sym!Hits(new.index, new.name)
    BY <1>10 DEF hits
  <2> QED
    BY <1>7, <1>10, <2>1, <2>2 DEF Told
<1>14. Quoted(new, past)
  <2>1. r.bodies = <<>> /\ DOMAIN r.bodies = {}
    BY <1>1, <1>3 DEF CallTrue, Quoted
  <2> QED
    BY <1>10, <2>1 DEF Quoted
<1>15. Keeping(new, indexFile)
  BY <1>1, <1>3, <1>7, <1>8, <1>10 DEF Keeping
<1> QED
  BY <1>1, <1>2, <1>9, <1>12, <1>13, <1>14, <1>15, OneMoves DEF CallTrue, r

LEMMA BodyType ==
    ASSUME Sym!Parsed, IndexTypeOK, NEW h \in IndexHit
    PROVE  [hit |-> h, body |-> Sym!body_of(h)] \in BodyOf
<1>1. Sym!disk[h.file] \in Texts \cup {Sym!Gone} /\ h.first \in Nat /\ h.last \in Nat
  BY DiskType DEF IndexHit, Tree
<1>2. Sym!disk[h.file].lines \in Nat
  BY <1>1 DEF Sym!Parsed, Sym!Gone
<1>3. Sym!NoBody \in [text : Texts \cup {Sym!Gone}, first : Nat, last : Nat]
  BY DEF Sym!NoBody
<1>4. Sym!body_of(h) \in [text : Texts \cup {Sym!Gone}, first : Nat, last : Nat]
  <2> HIDE DEF Sym!NoBody
  <2> QED
    BY <1>1, <1>2, <1>3 DEF Sym!body_of
<1> QED
  BY <1>4 DEF BodyOf

\* With no edit since the build began, the lines of a hit are still there.
LEMMA BodyIsWhole ==
    ASSUME Sym!Parsed, IndexTypeOK, NEW index \in Index, Built(index, past),
           index.began = Len(past), NEW name, NEW h \in Sym!Hits(index, name)
    PROVE  Sym!body_of(h) = [text |-> Sym!disk[h.file], first |-> h.first, last |-> h.last]
<1>1. PICK s \in index.symbols :
         h = [name |-> s.name, file |-> index.files[s.file],
              first |-> s.first, last |-> s.last]
  BY HitsAreSymbols
<1>2. PICK t \in index.began..index.ended :
         Bare(s) \in past[t][index.files[s.file]].symbols
  BY DEF Built, Genuine
<1>3. t = Len(past)
  BY <1>2, DiskType DEF Built, Index
<1>4. Bare(s) \in Sym!disk[h.file].symbols
  BY <1>1, <1>2, <1>3 DEF Sym!disk, Sym!Now
<1>5. h \in IndexHit
  BY HitsType DEF Built
<1>6. Sym!disk[h.file] \in Texts
  BY <1>4, <1>5, DiskType DEF IndexHit, Tree, Sym!Gone
<1>7. /\ h.first = Bare(s).first /\ h.last = Bare(s).last
      /\ h.first \in Nat \ {0} /\ h.last \in Nat
  BY <1>1, <1>5 DEF Bare, IndexHit
<1>8. /\ Sym!disk[h.file].lines \in Nat /\ h.last <= Sym!disk[h.file].lines
      /\ h.first <= h.last
  BY <1>4, <1>6, <1>7 DEF Sym!Parsed
<1> QED
  BY <1>7, <1>8 DEF Sym!body_of

LEMMA BodyStep ==
    ASSUME Sym!Parsed, IndexInv, NEW c \in Callers, Sym!Body(c)
    PROVE  IndexInv'
<1> DEFINE r == asked[c]
           done == [r EXCEPT !.pc = "done"]
<1>1. r \in IndexCall /\ r.pc = "bodies" /\ UNCHANGED <<past, indexFile>>
  BY DEF Sym!Body, Sym!Step, IndexInv, IndexTypeOK
<1>2. CallTrue(r, past) /\ r.kept = FALSE
  BY <1>1, NotKept DEF IndexInv
<1>3. Built(r.index, past) /\ r.index \in Index
  BY <1>1, <1>2 DEF CallTrue, Holding, IndexCall
<1>4. /\ r.kind = "sym" /\ r.hits = Sym!Hits(r.index, r.name)
      /\ (r.exact <=> Sym!lookup(r.index, r.name) # {})
  BY <1>1, <1>2 DEF CallTrue, Told
<1>5. r.bodies \in Seq(BodyOf) /\ r.hits \in SUBSET IndexHit
  BY <1>1 DEF IndexCall
<1>6. ASSUME NEW h \in r.hits,
             asked' = [asked EXCEPT ![c] =
                [r EXCEPT !.bodies = Append(@, [hit |-> h, body |-> Sym!body_of(h)])]]
      PROVE  IndexInv'
  <2> DEFINE b == [hit |-> h, body |-> Sym!body_of(h)]
             bodies == Append(r.bodies, b)
             new == [r EXCEPT !.bodies = bodies]
  <2>1. b \in BodyOf
    BY <1>5, BodyType DEF IndexInv
  <2>2. b.hit = h /\ b.body = Sym!body_of(h)
    OBVIOUS
  <2>3. asked' = [asked EXCEPT ![c] = new]
    BY <1>6
  <2> HIDE DEF b
  <2>4. /\ bodies \in Seq(BodyOf)
        /\ \A i \in DOMAIN bodies :
              \/ i \in DOMAIN r.bodies /\ bodies[i] = r.bodies[i]
              \/ bodies[i] = b
    BY <1>5, <2>1
  <2> HIDE DEF bodies, r
  <2>5. new \in IndexCall
    BY <1>1, <2>4 DEF IndexCall
  <2>6. /\ new.pc = r.pc /\ new.kind = r.kind /\ new.name = r.name
        /\ new.index = r.index /\ new.hits = r.hits /\ new.bodies = bodies
        /\ new.kept = r.kept
    BY <1>1 DEF IndexCall
  <2>7. new.exact = r.exact
    BY <1>1 DEF IndexCall
  <2> HIDE DEF new
  <2>8. Building(new, past) /\ Holding(new, past)
    BY <1>1, <1>3, <2>6 DEF Building, Holding
  <2>9. Told(new)
    BY <1>1, <1>4, <2>6, <2>7 DEF Told
  <2>10. Quoted(new, past)
    <3>1. \A i \in DOMAIN bodies : bodies[i].hit \in r.hits
      BY <1>2, <1>6, <2>2, <2>4 DEF CallTrue, Quoted
    <3>2. ASSUME r.index.began = Len(past), NEW i \in DOMAIN bodies
          PROVE  bodies[i].body = [text |-> Sym!Now(past)[bodies[i].hit.file],
                                   first |-> bodies[i].hit.first,
                                   last |-> bodies[i].hit.last]
      <4>1. CASE i \in DOMAIN r.bodies /\ bodies[i] = r.bodies[i]
        BY <1>2, <3>2, <4>1 DEF CallTrue, Quoted
      <4>2. CASE bodies[i] = b
        <5>1. Sym!body_of(h) = [text |-> Sym!Now(past)[h.file], first |-> h.first,
                            last |-> h.last]
          BY <1>3, <1>4, <1>6, <3>2, BodyIsWhole DEF IndexInv, Sym!disk
        <5> QED
          BY <2>2, <4>2, <5>1
      <4> QED
        BY <2>4, <4>1, <4>2
    <3> QED
      BY <1>1, <2>6, <3>1, <3>2 DEF Quoted
  <2>11. Keeping(new, indexFile)
    BY <1>2, <2>6 DEF Keeping
  <2> QED
    BY <1>1, <2>3, <2>5, <2>8, <2>9, <2>10, <2>11, OneMoves DEF CallTrue, r
<1>7. CASE asked' = [asked EXCEPT ![c] = done]
  <2>1. done \in IndexCall
    BY <1>1 DEF IndexCall, Steps
  <2>2. /\ done.pc = "done" /\ done.kind = r.kind /\ done.name = r.name
        /\ done.index = r.index /\ done.hits = r.hits /\ done.bodies = r.bodies
        /\ done.kept = r.kept
    BY <1>1 DEF IndexCall
  <2>3. done.exact = r.exact
    BY <1>1 DEF IndexCall
  <2> HIDE DEF done, r
  <2>4. Building(done, past) /\ Holding(done, past)
    BY <1>3, <2>2 DEF Building, Holding
  <2>5. Told(done)
    BY <1>4, <2>2, <2>3 DEF Told
  <2>6. Quoted(done, past)
    BY <1>2, <2>2 DEF CallTrue, Quoted
  <2>7. Keeping(done, indexFile)
    BY <1>2, <2>2 DEF Keeping
  <2> QED
    BY <1>1, <1>7, <2>1, <2>4, <2>5, <2>6, <2>7, OneMoves DEF CallTrue, r
<1> QED
  BY <1>6, <1>7 DEF Sym!Body, Sym!Step, Sym!Unread

LEMMA VerifyStep ==
    ASSUME IndexInv, NEW c \in Callers, Sym!Verify(c)
    PROVE  IndexInv'
<1> DEFINE r == asked[c]
           same == (indexFile = Sym!File("index", r.index))
           new == [Sym!Idle EXCEPT !.pc = "load", !.kind = "rewritten",
                               !.name = r.name, !.kept = same]
<1>1. r \in IndexCall /\ r.pc = "verify" /\ UNCHANGED <<past, indexFile>>
  BY DEF Sym!Verify, Sym!Step, IndexInv, IndexTypeOK
<1>2. CallTrue(r, past)
  BY DEF IndexInv
<1>3. CASE /\ \E h \in r.hits : <<r.name, h.name>> \in PartOf
           /\ asked' = [asked EXCEPT ![c] = new]
  <2>1. Promising(r.index, r.name)
    BY <1>1, <1>2, <1>3 DEF CallTrue, Told, Promising
  <2>2. r.name \in Names \cup {"none"} /\ same \in BOOLEAN
    BY <1>1 DEF IndexCall
  <2>3. same => indexFile.is = "index" /\ indexFile.index = r.index
    BY DEF Sym!File
  <2> HIDE DEF same, r
  <2>4. new \in IndexCall
    BY <2>2, IdleCall DEF IndexCall, Steps
  <2>5. /\ new.pc = "load" /\ new.kind = "rewritten" /\ new.name = r.name
        /\ new.bodies = <<>>
    BY DEF Sym!Idle
  <2>6. new.kept = same
    BY DEF Sym!Idle
  <2> HIDE DEF new
  <2>7. Building(new, past) /\ Holding(new, past) /\ Told(new)
    BY <2>5 DEF Building, Holding, Told
  <2>8. Quoted(new, past)
    <3>1. DOMAIN new.bodies = {}
      BY <2>5
    <3> QED
      BY <2>5, <3>1 DEF Quoted
  <2>9. Keeping(new, indexFile)
    BY <2>1, <2>3, <2>5, <2>6 DEF Keeping
  <2> QED
    BY <1>1, <1>3, <2>4, <2>7, <2>8, <2>9, OneMoves DEF CallTrue
<1>4. CASE asked' = [asked EXCEPT ![c] = Sym!Idle]
  BY <1>1, <1>4, IdleCall, IdleTrue, OneMoves
<1> QED
  BY <1>3, <1>4 DEF Sym!Verify, Sym!Step

LEMMA InvNext == Sym!Parsed /\ IndexInv /\ [Sym!Next]_Sym!vars => IndexInv'
<1> SUFFICES ASSUME Sym!Parsed, IndexInv, [Sym!Next]_Sym!vars PROVE IndexInv'
  OBVIOUS
<1>1. CASE UNCHANGED Sym!vars
  BY <1>1 DEF Sym!vars, IndexInv, IndexTypeOK
<1>2. CASE Sym!Edit
  BY <1>2, EditStep
<1>3. ASSUME NEW c \in Callers,
             \/ Sym!Ask(c) \/ Sym!Reindex(c) \/ Sym!Search(c)
             \/ Sym!Load(c) \/ Sym!Walk(c) \/ Sym!ReadFile(c) \/ Sym!Truncate(c) \/ Sym!Write(c)
             \/ Sym!Answer(c) \/ Sym!Body(c) \/ Sym!Verify(c) \/ Sym!Return(c) \/ Sym!Kill(c)
      PROVE  IndexInv'
  BY <1>3, BeginStep, LoadStep, WalkStep, ReadFileStep, TruncateStep,
     WriteStep, AnswerStep, BodyStep, VerifyStep, EndStep
<1> QED
  BY <1>1, <1>2, <1>3 DEF Sym!Next

-----------------------------------------------------------------------------
(***************************************************************************)
(* An index whose build no edit disturbed says of the tree what the tree   *)
(* says of itself.                                                         *)
(***************************************************************************)
Place(s, path) == [name |-> s.name, file |-> path, first |-> s.first, last |-> s.last]

\* Where the symbols with a name in names are, by the index and by the tree.
Listed(index, names) ==
    {Place(s, index.files[s.file]) : s \in {x \in index.symbols : x.name \in names}}
Lying(tree, names) ==
    UNION {{Place(s, p) : s \in {x \in tree[p].symbols : x.name \in names}} : p \in Sym!Paths}

LEMMA ListedIsLying ==
    ASSUME IndexTypeOK, NEW index \in Index, Built(index, past),
           index.began = Len(past), NEW names
    PROVE  Listed(index, names) = Lying(Sym!disk, names)
<1>1. index.ended = Len(past)
  BY DiskType DEF Built, Genuine, Index
<1>2. \A s \in index.symbols :
         /\ index.files[s.file] \in Sym!Paths
         /\ Bare(s) \in Sym!disk[index.files[s.file]].symbols
  <2> TAKE s \in index.symbols
  <2>1. s.file \in DOMAIN index.files /\ index.files \in Seq(Sym!Paths)
    BY DEF Built, Genuine, Index
  <2>2. PICK t \in index.began..index.ended :
           Bare(s) \in past[t][index.files[s.file]].symbols
    BY DEF Built, Genuine
  <2>3. t = Len(past)
    BY <1>1, <2>2, DiskType
  <2> QED
    BY <2>1, <2>2, <2>3 DEF Sym!disk, Sym!Now
<1>3. ASSUME NEW p \in Sym!Paths, NEW x \in Sym!disk[p].symbols
      PROVE  \E i \in DOMAIN index.files : index.files[i] = p /\ At(x, i) \in index.symbols
  <2>1. Entire(index, {}, Sym!disk)
    BY DEF Built, Sym!disk
  <2>2. PICK i \in DOMAIN index.files : index.files[i] = p
    BY <1>3, <2>1 DEF Entire
  <2> QED
    BY <1>3, <2>1, <2>2 DEF Entire
<1>4. ASSUME NEW h \in Listed(index, names) PROVE h \in Lying(Sym!disk, names)
  <2>1. PICK s \in index.symbols :
           s.name \in names /\ h = Place(s, index.files[s.file])
    BY DEF Listed
  <2> DEFINE p == index.files[s.file]
             x == Bare(s)
  <2>2. p \in Sym!Paths /\ x \in Sym!disk[p].symbols
    BY <1>2
  <2>3. x.name \in names /\ h = Place(x, p)
    BY <2>1 DEF Bare, Place
  <2> QED
    BY <2>2, <2>3 DEF Lying
<1>5. ASSUME NEW h \in Lying(Sym!disk, names) PROVE h \in Listed(index, names)
  <2>1. PICK p \in Sym!Paths : \E x \in Sym!disk[p].symbols : x.name \in names /\ h = Place(x, p)
    BY DEF Lying
  <2>2. PICK x \in Sym!disk[p].symbols : x.name \in names /\ h = Place(x, p)
    BY <2>1
  <2>3. PICK i \in DOMAIN index.files : index.files[i] = p /\ At(x, i) \in index.symbols
    BY <1>3
  <2> DEFINE s == At(x, i)
  <2>4. s.name = x.name /\ s.file = i /\ Place(s, p) = Place(x, p)
    BY DEF At, Place
  <2> HIDE DEF s
  <2>5. s \in index.symbols /\ s.name \in names /\ h = Place(s, index.files[s.file])
    BY <2>2, <2>3, <2>4 DEF s
  <2> QED
    BY <2>5 DEF Listed
<1> QED
  BY <1>4, <1>5

\* The names that resemble a name, and the definitions of the model in these terms.
Likes(name) == {pair[2] : pair \in {x \in Resembles : x = <<name, x[2]>>}}

LEMMA HitsListed ==
    ASSUME NEW index, NEW name
    PROVE  /\ Sym!Hits(index, name) = IF Sym!lookup(index, name) # {} THEN Listed(index, {name})
                                  ELSE Listed(index, Likes(name))
           /\ Sym!lookup(index, name) = {} <=> Listed(index, {name}) = {}
<1>1. Sym!lookup(index, name) = {s \in index.symbols : s.name \in {name}}
  BY DEF Sym!lookup
<1>2. \A n : n \in Likes(name) <=> <<name, n>> \in Resembles
  BY DEF Likes
<1>3. Sym!search(index, name) = {s \in index.symbols : s.name \in Likes(name)}
  BY <1>2 DEF Sym!search
<1>4. CASE Sym!lookup(index, name) # {}
  BY <1>1, <1>4 DEF Sym!Hits, Listed, Place
<1>5. CASE Sym!lookup(index, name) = {}
  BY <1>1, <1>3, <1>5 DEF Sym!Hits, Listed, Place
<1> QED
  BY <1>4, <1>5

LEMMA DefinedLies ==
    ASSUME NEW tree, NEW name
    PROVE  LET Same(n) == n = name
               Like(n) == <<name, n>> \in Resembles
           IN  /\ Sym!Defined(tree, Same) = Lying(tree, {name})
               /\ Sym!Defined(tree, Like) = Lying(tree, Likes(name))
<1> DEFINE Same(n) == n = name
           Like(n) == <<name, n>> \in Resembles
           SameLie == UNION {{[name |-> s.name, file |-> p, first |-> s.first, last |-> s.last] :
                        s \in {s \in tree[p].symbols : s.name = name}} : p \in Sym!Paths}
           LikeLie == UNION {{[name |-> s.name, file |-> p, first |-> s.first, last |-> s.last] :
                        s \in {s \in tree[p].symbols : <<name, s.name>> \in Resembles}} : p \in Sym!Paths}
<1>1. \A n : n \in Likes(name) <=> <<name, n>> \in Resembles
  BY DEF Likes
<1>2. \A h, names : h \in Lying(tree, names) <=>
         \E p \in Sym!Paths : \E s \in tree[p].symbols : s.name \in names /\ h = Place(s, p)
  BY DEF Lying
<1>3. \A h : h \in SameLie <=>
         \E p \in Sym!Paths : \E s \in tree[p].symbols : s.name = name /\ h = Place(s, p)
  BY DEF Place
<1>4. \A h : h \in LikeLie <=>
         \E p \in Sym!Paths : \E s \in tree[p].symbols :
            <<name, s.name>> \in Resembles /\ h = Place(s, p)
  BY DEF Place
<1>5. \A h : h \in SameLie <=> h \in Lying(tree, {name})
  BY <1>2, <1>3
<1>6. \A h : h \in LikeLie <=> h \in Lying(tree, Likes(name))
  <2> HIDE DEF LikeLie
  <2> QED
    BY <1>1, <1>2, <1>4
<1>7. Sym!Defined(tree, Same) = Lying(tree, {name})
  <2>1. Sym!Defined(tree, Same) = SameLie
    BY DEF Sym!Defined
  <2>2. SameLie = Lying(tree, {name})
    <3> HIDE DEF SameLie
    <3> QED
      BY <1>5
  <2> QED
    BY <2>1, <2>2
<1>8. Sym!Defined(tree, Like) = Lying(tree, Likes(name))
  <2>1. Sym!Defined(tree, Like) = LikeLie
    BY DEF Sym!Defined
  <2>2. LikeLie = Lying(tree, Likes(name))
    <3> HIDE DEF LikeLie
    <3> QED
      BY <1>6
  <2> QED
    BY <2>1, <2>2
<1> QED
  BY <1>7, <1>8

\* Whatever the interleaving of calls, edits and kills, a call knows what its
\* step implies and the cached index was built from trees that did exist
\* (index.rs load, build and save; tools.rs SymTool::call; hook.rs rewrite).
LEMMA IndexesAreBuilt ==
    ASSUME Sym!Parsed
    PROVE  Sym!Spec => []IndexInv
<1>1. Sym!Init => IndexInv
  BY InvInit
<1>2. IndexInv /\ [Sym!Next]_Sym!vars => IndexInv'
  BY InvNext
<1> QED
  BY <1>1, <1>2, PTL DEF Sym!Spec

LEMMA HitsAre ==
    ASSUME Sym!Parsed
    PROVE  Sym!Spec => []Sym!EveryHitWasTrue
<1>1. IndexInv => Sym!EveryHitWasTrue
  <2> SUFFICES ASSUME IndexInv, NEW c \in Callers, Sym!Answered(c), NEW h \in asked[c].hits
               PROVE  \E t \in asked[c].index.began..asked[c].index.ended :
                         \E s \in past[t][h.file].symbols :
                            s = [name |-> h.name, first |-> h.first, last |-> h.last]
    BY DEF Sym!EveryHitWasTrue
  <2> DEFINE r == asked[c]
  <2>1. r.pc = "done" /\ r.kind # "index" /\ CallTrue(r, past)
    BY DEF Sym!Answered, IndexInv
  <2>2. Built(r.index, past) /\ h \in Sym!Hits(r.index, r.name)
    BY <2>1 DEF CallTrue, Holding, Told
  <2>3. PICK s \in r.index.symbols :
           h = [name |-> s.name, file |-> r.index.files[s.file],
                first |-> s.first, last |-> s.last]
    BY <2>2, HitsAreSymbols, SMTT(30)
  <2>4. PICK t \in r.index.began..r.index.ended : Bare(s) \in past[t][h.file].symbols
    BY <2>2, <2>3 DEF Built, Genuine
  <2>5. Bare(s) = [name |-> h.name, first |-> h.first, last |-> h.last]
    BY <2>3 DEF Bare
  <2> QED
    BY <2>4, <2>5
<1> QED
  BY <1>1, IndexesAreBuilt, PTL

LEMMA RewritesAre ==
    ASSUME Sym!Parsed
    PROVE  Sym!Spec => []Sym!RewriteIsAnswered
<1>1. IndexInv => Sym!RewriteIsAnswered
  <2> SUFFICES ASSUME IndexInv, NEW c \in Callers, Sym!Answered(c),
                      asked[c].kind = "rewritten", asked[c].kept
               PROVE  \E h \in asked[c].hits : <<asked[c].name, h.name>> \in PartOf
    BY DEF Sym!RewriteIsAnswered
  <2> DEFINE r == asked[c]
  <2>1. r.pc = "done" /\ CallTrue(r, past) /\ Keeping(r, indexFile)
    BY DEF Sym!Answered, IndexInv
  <2>2. r.hits = Sym!Hits(r.index, r.name)
    BY <2>1 DEF CallTrue, Told
  <2>3. Promising(r.index, r.name)
    BY <2>1 DEF Keeping
  <2> QED
    BY <2>2, <2>3 DEF Promising
<1> QED
  BY <1>1, IndexesAreBuilt, PTL

LEMMA QuietAnswersAre ==
    ASSUME Sym!Parsed
    PROVE  Sym!Spec => []Sym!QuietAnswersAreTrue
<1>1. IndexInv => Sym!QuietAnswersAreTrue
  <2> SUFFICES ASSUME IndexInv PROVE Sym!QuietAnswersAreTrue
    OBVIOUS
  <2>1. ASSUME NEW c \in Callers, Sym!Answered(c), asked[c].index.began = Len(past)
        PROVE  LET Same(n) == n = asked[c].name
                   Like(n) == <<asked[c].name, n>> \in Resembles
               IN /\ asked[c].exact = (Sym!Defined(Sym!disk, Same) # {})
                  /\ asked[c].hits = IF asked[c].exact THEN Sym!Defined(Sym!disk, Same)
                                    ELSE Sym!Defined(Sym!disk, Like)
                  /\ \A i \in DOMAIN asked[c].bodies :
                        LET b == asked[c].bodies[i]
                        IN b.body = [text |-> Sym!disk[b.hit.file],
                                     first |-> b.hit.first, last |-> b.hit.last]
    <3> DEFINE r == asked[c]
               Same(n) == n = r.name
               Like(n) == <<r.name, n>> \in Resembles
               exactly == Lying(Sym!disk, {r.name})
               fuzzily == Lying(Sym!disk, Likes(r.name))
    <3>1. r.pc = "done" /\ r.kind # "index" /\ CallTrue(r, past) /\ r \in IndexCall
      BY <2>1 DEF Sym!Answered, IndexInv, IndexTypeOK
    <3>2. /\ Built(r.index, past) /\ r.hits = Sym!Hits(r.index, r.name)
          /\ (r.exact <=> Sym!lookup(r.index, r.name) # {})
      BY <3>1 DEF CallTrue, Holding, Told
    <3>3. \A names : Listed(r.index, names) = Lying(Sym!disk, names)
      BY <2>1, <3>1, <3>2, ListedIsLying DEF IndexInv, IndexCall
    <3>4. r.exact <=> exactly # {}
      BY <3>2, <3>3, HitsListed
    <3>6. r.exact \in BOOLEAN
      BY <3>1 DEF IndexCall
    <3>7. r.hits = IF r.exact THEN exactly ELSE fuzzily
      BY <3>2, <3>3, HitsListed
    <3>8. r.exact = (exactly # {})
      <4> HIDE DEF r, exactly
      <4> QED
        BY <3>4, <3>6
    <3>9. \A i \in DOMAIN r.bodies :
             LET b == r.bodies[i]
             IN b.body = [text |-> Sym!disk[b.hit.file], first |-> b.hit.first,
                          last |-> b.hit.last]
      BY <2>1, <3>1 DEF CallTrue, Quoted, Sym!disk
    <3>10. Sym!Defined(Sym!disk, Same) = exactly /\ Sym!Defined(Sym!disk, Like) = fuzzily
      BY DefinedLies
    <3> HIDE DEF exactly, fuzzily
    <3> QED
      BY <3>7, <3>8, <3>9, <3>10
  <2> QED
    BY <2>1 DEF Sym!QuietAnswersAreTrue
<1> QED
  BY <1>1, IndexesAreBuilt, PTL

-----------------------------------------------------------------------------
(***************************************************************************)
(* Side by side.  What is kept is kept there as it is by itself, and rests *)
(* while a behaviour is about another of them.                             *)
(***************************************************************************)
LEMMA OneSubject == [KeptNext]_keptVars => UNCHANGED subject
BY DEF KeptNext, keptVars

LEMMA SnapshotRun == KeptSpec => (subject = "snapshot" /\ Snap!Spec) \/ []~(subject = "snapshot")
<1>1. KeptInit /\ subject = "snapshot" => Snap!Init
  BY DEF KeptInit
<1>2. subject = "snapshot" /\ [KeptNext]_keptVars => [Snap!Next]_Snap!vars
  BY DEF KeptNext, keptVars, captureVars, Snap!vars
<1>3. subject = "snapshot" /\ [KeptNext]_keptVars => (subject = "snapshot")'
  BY OneSubject
<1>4. ~(subject = "snapshot") /\ [KeptNext]_keptVars => (~(subject = "snapshot"))'
  BY OneSubject
<1> QED
  BY <1>1, <1>2, <1>3, <1>4, PTL DEF KeptSpec, Snap!Spec

LEMMA IndexRun == KeptSpec => (subject = "index" /\ Sym!Spec) \/ []~(subject = "index")
<1>1. KeptInit /\ subject = "index" => Sym!Init
  BY DEF KeptInit
<1>2. subject = "index" /\ [KeptNext]_keptVars => [Sym!Next]_Sym!vars
  BY DEF KeptNext, keptVars, indexVars, Sym!vars
<1>3. subject = "index" /\ [KeptNext]_keptVars => (subject = "index")'
  BY OneSubject
<1>4. ~(subject = "index") /\ [KeptNext]_keptVars => (~(subject = "index"))'
  BY OneSubject
<1> QED
  BY <1>1, <1>2, <1>3, <1>4, PTL DEF KeptSpec, Sym!Spec

\* Whatever a database is, and whatever migrations commit between the queries, a server
\* says what was so while its snapshot was captured (src/schema/src/lib.rs), so long as
\* its catalogs are sound.
THEOREM WhatIsSaidWasSo == KeptSpec /\ [](subject = "snapshot" => Snap!SoundCatalogs) => []WhatIsSaidWas
BY SnapInductive, SaidWas, SnapshotRun, PTL DEF WhatIsSaidWas

\* What stood while the snapshot was captured, it says (src/schema/src/pg/introspect.rs).
THEOREM WhatStoodIsAlwaysSaid == KeptSpec /\ [](subject = "snapshot" => Snap!SoundCatalogs) => []WhatStoodIsSaid
BY SnapInductive, StoodIsSaid, SnapshotRun, PTL DEF WhatStoodIsSaid

\* A hit of an answer was defined in its file, by that name and at those lines, at some
\* moment of the build of the index it was found in (index.rs build).
THEOREM HitsWereTrue == ASSUME Sym!Parsed PROVE KeptSpec => []EveryHitWasTrue
BY HitsAre, IndexRun, PTL DEF EveryHitWasTrue

\* The replacement the hook has verified is answered by the agent's own run of it, unless
\* another call has replaced the cached index (hook.rs verifies).
THEOREM RewritesAreAnswered == ASSUME Sym!Parsed PROVE KeptSpec => []RewriteIsAnswered
BY RewritesAre, IndexRun, PTL DEF RewriteIsAnswered

\* With no edit since the build of its index began, an answer says exactly what the tree
\* defines, exact or fuzzy as it claims, and quotes it whole (tools.rs SymTool::call,
\* index.rs body_of).
THEOREM QuietAnswersHold == ASSUME Sym!Parsed PROVE KeptSpec => []QuietAnswersAreTrue
BY QuietAnswersAre, IndexRun, PTL DEF QuietAnswersAreTrue
=============================================================================
