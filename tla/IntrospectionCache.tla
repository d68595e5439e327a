------------------------- MODULE IntrospectionCache -------------------------
(***************************************************************************)
(* The cache of introspection results (src/schema/src/pg/cache.rs).        *)
(*                                                                         *)
(* Callers ask for a set of schemas.  A miss runs the catalog queries and  *)
(* stores what they returned under the sorted, joined names of the set; an *)
(* entry lives for TimeToLive ticks from its insertion.  Meanwhile the     *)
(* database changes and notifies, and a listener task evicts what the      *)
(* notice names.                                                           *)
(*                                                                         *)
(* A schema is the sequence of the times it changed at, and a result is    *)
(* how many changes of each schema all of its queries saw: at least those  *)
(* there were when they began, at most those when the last one ran.        *)
(***************************************************************************)
EXTENDS Integers, Sequences, FiniteSets

CONSTANTS
    SchemaNames,     \* the schemas of the database
    Callers,         \* concurrent calls of get_or_introspect
    Wanted,          \* the schema sets callers ask for
    Notices,         \* what a change notifies: the schema's "name", or an empty payload for "all"
    TimeToLive,
    MaxChanges, MaxClock    \* bounds: changes, ticks

ASSUME CacheAssumption ==
    /\ IsFiniteSet(SchemaNames)
    /\ \A w \in Wanted : w \subseteq SchemaNames /\ w # {}
    /\ Notices \subseteq {"name", "all"} /\ Notices # {}
    /\ TimeToLive \in Nat \ {0} /\ MaxChanges \in Nat /\ MaxClock \in Nat

VARIABLES
    changed,     \* the database: schema -> the times it changed at
    notices,     \* the sets of keys that notices on their way will evict, in order
    listening,   \* the listener task runs
    cache,       \* key -> its entry, if any: {} or {[seen, at, took, raced]}
    call,        \* caller -> its call
    clock,
    lost         \* history: notices were lost, or the listener has ended

vars == <<changed, notices, listening, cache, call, clock, lost>>

\* The key joins the sorted names: two sets have one key exactly when they are equal,
\* and the name of a schema is the key of that schema alone.
Keys == (SUBSET SchemaNames) \ {{}}
cache_key(schemas) == schemas

Nothing == [s \in {} |-> 0]
\* since, took and raced are history: when the queries began, how long it was from then to
\* the insertion, and whether one of the schemas changed in that time.
Idle == [pc |-> "idle", for |-> {}, seen |-> Nothing, since |-> 0, took |-> 0, raced |-> FALSE]
Answered(entry) == [Idle EXCEPT !.pc = "answered", !.seen = entry.seen, !.took = entry.took]

Seen(schemas) == [s \in schemas |-> Len(changed[s])]

\* moka: time_to_live counts from the insertion.
LiveMutant(entry) == TRUE

Live(entry) == clock < entry.at + TimeToLive

Init ==
    /\ changed = [s \in SchemaNames |-> <<>>]
    /\ notices = <<>>
    /\ listening = TRUE
    /\ cache = [k \in Keys |-> {}]
    /\ call = [c \in Callers |-> Idle]
    /\ clock = 0
    /\ lost = FALSE

(***************************************************************************)
(* get_or_introspect.                                                      *)
(***************************************************************************)
Hit(c) ==
    /\ call[c].pc = "idle"
    /\ \E w \in Wanted : \E e \in cache[cache_key(w)] :
          /\ Live(e)
          /\ call' = [call EXCEPT ![c] = Answered(e)]
    /\ UNCHANGED <<changed, notices, listening, cache, clock, lost>>

Miss(c) ==
    /\ call[c].pc = "idle"
    /\ \E w \in Wanted :
          /\ \A e \in cache[cache_key(w)] : ~Live(e)
          /\ call' = [call EXCEPT ![c] = [Idle EXCEPT !.pc = "querying", !.for = w, !.seen = Seen(w), !.since = clock]]
    /\ UNCHANGED <<changed, notices, listening, cache, clock, lost>>

\* The last query has run.  A change that came between two of them was seen by all or not;
\* or a query fails, and the call with it.
Introspect(c) ==
    /\ call[c].pc = "querying"
    /\ \/ \E saw \in [call[c].for -> 0..MaxChanges] :
             /\ \A s \in call[c].for : call[c].seen[s] <= saw[s] /\ saw[s] <= Len(changed[s])
             /\ call' = [call EXCEPT ![c].pc = "fetched", ![c].seen = saw]
       \/ call' = [call EXCEPT ![c] = Idle]
    /\ UNCHANGED <<changed, notices, listening, cache, clock, lost>>

Insert(c) ==
    /\ call[c].pc = "fetched"
    /\ LET entry == [seen |-> call[c].seen, at |-> clock, took |-> clock - call[c].since, raced |-> call[c].raced]
       IN /\ cache' = [cache EXCEPT ![cache_key(call[c].for)] = {entry}]
          /\ call' = [call EXCEPT ![c] = Answered(entry)]
    /\ UNCHANGED <<changed, notices, listening, clock, lost>>

Return(c) ==
    /\ call[c].pc = "answered"
    /\ call' = [call EXCEPT ![c] = Idle]
    /\ UNCHANGED <<changed, notices, listening, cache, clock, lost>>

(***************************************************************************)
(* The database, the listener and the clock.                               *)
(***************************************************************************)
Change(s) ==
    /\ Cardinality(UNION {{t} \X DOMAIN changed[t] : t \in SchemaNames}) < MaxChanges
    /\ changed' = [changed EXCEPT ![s] = Append(@, clock)]
    /\ call' = [c \in Callers |->
          IF call[c].pc \in {"querying", "fetched"} /\ s \in call[c].for THEN [call[c] EXCEPT !.raced = TRUE] ELSE call[c]]
    /\ \E n \in Notices : notices' = Append(notices, IF n = "all" THEN Keys ELSE {{s}})
    /\ UNCHANGED <<listening, cache, clock, lost>>

\* One turn of listen_loop: invalidate_all, or invalidate the one key that is the payload.
ListenMutant ==
    /\ listening /\ notices # <<>>
    /\ cache' = IF Head(notices) = Keys THEN cache ELSE [k \in Keys |-> IF k \in Head(notices) THEN {} ELSE cache[k]]
    /\ notices' = Tail(notices)
    /\ UNCHANGED <<changed, listening, call, clock, lost>>

Listen ==
    /\ listening /\ notices # <<>>
    /\ cache' = [k \in Keys |-> IF k \in Head(notices) THEN {} ELSE cache[k]]
    /\ notices' = Tail(notices)
    /\ UNCHANGED <<changed, listening, call, clock, lost>>

\* The connection is lost and restored: what was notified in between is gone.
Drop ==
    /\ notices # <<>>
    /\ notices' = <<>>
    /\ lost' = TRUE
    /\ UNCHANGED <<changed, listening, cache, call, clock>>

\* recv fails, and the task ends: nothing starts it again.
ListenerExits ==
    /\ listening
    /\ listening' = FALSE
    /\ lost' = TRUE
    /\ UNCHANGED <<changed, notices, cache, call, clock>>

Tick ==
    /\ clock < MaxClock
    /\ clock' = clock + 1
    /\ UNCHANGED <<changed, notices, listening, cache, call, lost>>

Next ==
    \/ \E c \in Callers : Hit(c) \/ Miss(c) \/ Introspect(c) \/ Insert(c) \/ Return(c)
    \/ \E s \in SchemaNames : Change(s)
    \/ Listen \/ Drop \/ ListenerExits \/ Tick

Spec == Init /\ [][Next]_vars

(***************************************************************************)
(* Properties.                                                             *)
(***************************************************************************)
\* An entry that a change has made stale is one that a notice on its way will evict
\* (cache.rs:25, "evicts entries immediately"), whoever filled it and however often.
\* It takes a listener that has lost nothing, no change between the first query that filled
\* the entry and its insertion (cache.rs:66 looks at no notice), and the key of one
\* schema: a notice that names a schema leaves the sets that hold it alone.
StaleIsNoticed ==
    \A k \in Keys : \A e \in cache[k] :
        /\ ~lost /\ Cardinality(k) = 1 /\ Live(e) /\ ~e.raced
        /\ \E s \in DOMAIN e.seen : e.seen[s] < Len(changed[s])
        => \E i \in DOMAIN notices : k \in notices[i]

\* Whatever becomes of notices and the listener, and whatever changes while the queries run
\* or before their result is stored, an answer misses no change older than the time to live
\* and the time its entry took to fill (cache.rs:24), sets included.
StaleWithinTtl ==
    [][\A c \in Callers : call'[c].pc = "answered" /\ call[c].pc # "answered" =>
          \A s \in DOMAIN call'[c].seen : \A i \in DOMAIN changed[s] :
              i > call'[c].seen[s] => clock - changed[s][i] < TimeToLive + call'[c].took]_vars
=============================================================================
