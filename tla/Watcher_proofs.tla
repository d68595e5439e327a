--------------------------- MODULE Watcher_proofs ---------------------------
(***************************************************************************)
(* Proofs about Watcher, for every set of sessions, every mix of calls and *)
(* every threshold, where targets are of one line (OneLine).               *)
(***************************************************************************)
EXTENDS Watcher, FunctionTheorems, FiniteSetTheorems, WellFoundedInduction,
        SequenceTheorems, TLAPS

\* What inspect returns can be spoken of and was not mentioned yet.
LEMMA InspectFindsNew ==
    ASSUME NEW calls, NEW lines, NEW t \in inspect(calls, lines)
    PROVE  t \in DOMAIN ReadsBack /\ t \notin lines
<1>1. \A tool, least : Repeated(calls, tool, least, lines) \subseteq DOMAIN ReadsBack \ lines
  BY DEF Repeated
<1>2. \A tool, targets : Worst(calls, tool, targets) \subseteq targets
  BY DEF Worst
<1>3. Oversized(calls, lines) \subseteq DOMAIN ReadsBack \ lines
  BY DEF Oversized
<1>4. Chained(calls, lines) \subseteq DOMAIN ReadsBack \ lines
  BY WatcherAssumption DEF Chained, WatcherAssumption
<1> QED
  BY <1>1, <1>2, <1>3, <1>4 DEF inspect

\* What a said-list holds once lines are added to it.
LEMMA Added ==
    ASSUME NEW old \in Seq(STRING), NEW new \in Seq(STRING)
    PROVE  old \o new \in Seq(STRING) /\ ToSet(old \o new) = ToSet(old) \union ToSet(new)
<1>1. /\ old \o new \in Seq(STRING)
      /\ Len(old \o new) = Len(old) + Len(new)
      /\ \A i \in 1..Len(old) + Len(new) : (old \o new)[i] = IF i <= Len(old) THEN old[i] ELSE new[i - Len(old)]
  BY ConcatProperties
<1>2. Len(old) \in Nat /\ Len(new) \in Nat /\ DOMAIN old = 1..Len(old) /\ DOMAIN new = 1..Len(new)
      /\ DOMAIN (old \o new) = 1..Len(old) + Len(new)
  BY <1>1, LenProperties
<1>3. ToSet(old \o new) \subseteq ToSet(old) \union ToSet(new)
  BY <1>1, <1>2 DEF ToSet
<1>4. ToSet(old) \subseteq ToSet(old \o new)
  BY <1>1, <1>2 DEF ToSet
<1>5. ASSUME NEW i \in DOMAIN new PROVE new[i] \in ToSet(old \o new)
  <2>1. Len(old) + i \in DOMAIN (old \o new) /\ (old \o new)[Len(old) + i] = new[i]
    BY <1>1, <1>2
  <2> QED
    BY <2>1 DEF ToSet
<1> QED
  BY <1>1, <1>3, <1>4, <1>5 DEF ToSet

-----------------------------------------------------------------------------
LEMMA IInvInit == Init => IInv
<1> SUFFICES ASSUME Init PROVE IInv
  OBVIOUS
<1>1. TypeOK
  <2>1. <<>> \in Seq(STRING) /\ <<>> \in Seq(CallKinds) /\ <<>> \in Seq(Record \union {Cut, CutChar})
        /\ <<>> \in Seq([target : DOMAIN ReadsBack, calls : Nat])
    BY EmptySeq
  <2> QED
    BY <2>1, WatcherAssumption DEF Init, TypeOK, Idle, WatcherAssumption
<1> QED
  BY <1>1 DEF Init, IInv, Idle, HooksRest, RememberedFirst, NeverRepeats

\* A session whose said-list, hook and advice rest keeps what is true of it.
Rests(s) == UNCHANGED <<said[s], hook[s], ended[s], shown[s], forgot[s]>>

\* What the parts of IInv say of one session.
Session(s) ==
    /\ (hook[s].at = "idle") <=> (hook[s] = Idle)
    /\ hook[s].at # "idle" => hook[s].target \in DOMAIN ReadsBack
    /\ ended[s] => hook[s].at = "idle"
    /\ ~ended[s] /\ ~forgot[s] =>
          /\ \A i \in DOMAIN shown[s] : shown[s][i].target \in ToSet(said[s])
          /\ hook[s].at = "print" => hook[s].target \in ToSet(said[s])
          /\ hook[s].at = "remember" => hook[s].target \notin ToSet(said[s])
          /\ hook[s].at = "print" => \A i \in DOMAIN shown[s] : shown[s][i].target # hook[s].target
    /\ ~forgot[s] => \A i, j \in DOMAIN shown[s] : shown[s][i].target = shown[s][j].target => i = j

LEMMA BySession == IInv <=> TypeOK /\ \A s \in Sessions : Session(s)
BY DEF IInv, HooksRest, RememberedFirst, NeverRepeats, Session

\* A step that is of one session, and keeps it in order.
LEMMA SessionStep ==
    ASSUME IInv, NEW s \in Sessions, TypeOK', Session(s)', \A t \in Sessions \ {s} : Rests(t)
    PROVE  IInv'
<1>1. \A t \in Sessions : Session(t)
  BY BySession
<1>2. \A t \in Sessions \ {s} : Session(t)'
  BY <1>1 DEF Session, Rests
<1>3. (TypeOK /\ \A t \in Sessions : Session(t))'
  BY <1>2
<1> QED
  BY <1>3 DEF IInv, HooksRest, RememberedFirst, NeverRepeats, Session

LEMMA RecordStep ==
    ASSUME IInv, NEW s \in Sessions, record(s) PROVE IInv'
<1>1. PICK c \in CallKinds :
         /\ made' = [made EXCEPT ![s] = Append(@, c)]
         /\ \/ log' = Append(log, <<s, c>>)
            \/ log' = Append(log, Cut)
            \/ log' = Append(log, CutChar)
  BY DEF record
<1>2. UNCHANGED <<said, hook, ended, day, shown, forgot>>
  BY DEF record
<1>3. made' \in [Sessions -> Seq(CallKinds)]
  <2>1. made[s] \in Seq(CallKinds)
    BY DEF IInv, TypeOK
  <2>2. Append(made[s], c) \in Seq(CallKinds)
    BY <2>1, AppendProperties
  <2> QED
    BY <1>1, <2>2 DEF IInv, TypeOK
<1>4. log' \in Seq(Record \union {Cut, CutChar})
  <2> DEFINE Lines == Record \union {Cut, CutChar}
  <2>1. <<s, c>> \in Lines /\ Cut \in Lines /\ CutChar \in Lines
    BY DEF Record
  <2>2. log \in Seq(Lines)
    BY DEF IInv, TypeOK
  <2> HIDE DEF Lines
  <2>3. Append(log, <<s, c>>) \in Seq(Lines) /\ Append(log, Cut) \in Seq(Lines) /\ Append(log, CutChar) \in Seq(Lines)
    BY <2>1, <2>2, AppendProperties
  <2>4. log' \in Seq(Lines)
    BY <1>1, <2>3
  <2> QED
    BY <2>4 DEF Lines
<1>5. TypeOK'
  BY <1>2, <1>3, <1>4 DEF IInv, TypeOK
<1> QED
  BY <1>2, <1>5 DEF IInv, HooksRest, RememberedFirst, NeverRepeats

LEMMA SuggestStep ==
    ASSUME IInv, NEW s \in Sessions, suggest(s) PROVE IInv'
<1>1. PICK t \in inspect(Mine(s), ToSet(said[s])) : hook' = [hook EXCEPT ![s] = [at |-> "remember", target |-> t]]
  BY DEF suggest
<1>2. t \in DOMAIN ReadsBack /\ t \notin ToSet(said[s])
  BY <1>1, InspectFindsNew
<1>3. UNCHANGED <<log, said, ended, day, made, shown, forgot>> /\ ~ended[s]
  BY DEF suggest
<1>4. hook'[s] = [at |-> "remember", target |-> t] /\ \A u \in Sessions \ {s} : Rests(u)
  BY <1>1, <1>3 DEF IInv, TypeOK, Rests
<1>5. TypeOK'
  BY <1>1, <1>2, <1>3 DEF IInv, TypeOK
<1>6. Session(s)
  BY BySession
<1>7. Session(s)'
  BY <1>2, <1>3, <1>4, <1>6 DEF Session, Idle
<1> QED
  BY <1>4, <1>5, <1>7, SessionStep

LEMMA RememberStep ==
    ASSUME OneLine, IInv, NEW s \in Sessions, Remember(s) PROVE IInv'
<1>1. /\ hook[s].at = "remember" /\ hook' = [hook EXCEPT ![s].at = "print"]
      /\ UNCHANGED <<log, ended, day, made, shown>>
  BY DEF Remember
<1>2. Session(s)
  BY BySession
<1>3. hook[s].target \in DOMAIN ReadsBack /\ hook[s] \in [at : {"idle", "remember", "print"}, target : DOMAIN ReadsBack \union {NoAdvice}]
  BY <1>1, <1>2 DEF Session, IInv, TypeOK
<1>4. hook' \in [Sessions -> [at : {"idle", "remember", "print"}, target : DOMAIN ReadsBack \union {NoAdvice}]]
      /\ hook'[s].at = "print" /\ hook'[s].target = hook[s].target
      /\ \A t \in Sessions \ {s} : hook'[t] = hook[t]
  BY <1>1, <1>3 DEF IInv, TypeOK
<1>5. CASE said' = [said EXCEPT ![s] = @ \o ReadsBack[hook[s].target]] /\ UNCHANGED forgot
  <2>1. said[s] \in Seq(STRING) /\ ReadsBack[hook[s].target] \in Seq(STRING)
    BY <1>3, WatcherAssumption DEF IInv, TypeOK, WatcherAssumption
  <2>2. said'[s] \in Seq(STRING) /\ ToSet(said'[s]) = ToSet(said[s]) \union ToSet(ReadsBack[hook[s].target])
    BY <1>5, <2>1, Added DEF IInv, TypeOK
  <2>3. hook[s].target \in ToSet(said'[s]) /\ ToSet(said[s]) \subseteq ToSet(said'[s])
    BY <1>3, <2>2 DEF OneLine
  <2>4. said' \in [Sessions -> Seq(STRING)] /\ \A t \in Sessions \ {s} : said'[t] = said[t]
    BY <1>5, <2>2 DEF IInv, TypeOK
  <2>5. TypeOK'
    BY <1>1, <1>4, <1>5, <2>4 DEF IInv, TypeOK
  <2>6. Session(s)'
    BY <1>1, <1>2, <1>3, <1>4, <1>5, <2>3 DEF Session, Idle
  <2> QED
    BY <1>1, <1>4, <1>5, <2>4, <2>5, <2>6, SessionStep DEF Rests
<1>6. CASE UNCHANGED said /\ forgot' = [forgot EXCEPT ![s] = TRUE]
  <2>1. TypeOK'
    BY <1>1, <1>4, <1>6 DEF IInv, TypeOK
  <2>2. forgot'[s] /\ \A t \in Sessions \ {s} : forgot'[t] = forgot[t]
    BY <1>6 DEF IInv, TypeOK
  <2>3. Session(s)'
    BY <1>1, <1>2, <1>3, <1>4, <2>2 DEF Session, Idle
  <2> QED
    BY <1>1, <1>4, <1>6, <2>1, <2>2, <2>3, SessionStep DEF Rests
<1> QED
  BY <1>5, <1>6 DEF Remember

LEMMA SayStep ==
    ASSUME IInv, NEW s \in Sessions, Say(s) PROVE IInv'
<1> DEFINE advice == [target |-> hook[s].target, calls |-> Len(made[s])]
<1>1. /\ hook[s].at = "print" /\ hook' = [hook EXCEPT ![s] = Idle]
      /\ shown' = [shown EXCEPT ![s] = Append(@, advice)]
      /\ UNCHANGED <<log, said, ended, day, made, forgot>>
  BY DEF Say
<1>2. Session(s)
  BY BySession
<1>3. advice \in [target : DOMAIN ReadsBack, calls : Nat] /\ advice.target = hook[s].target
  BY <1>1, <1>2, LenProperties DEF Session, IInv, TypeOK
<1> HIDE DEF advice
<1>4. shown[s] \in Seq([target : DOMAIN ReadsBack, calls : Nat])
  BY DEF IInv, TypeOK
<1>5. /\ shown'[s] = Append(shown[s], advice)
      /\ hook'[s] = Idle
      /\ \A t \in Sessions \ {s} : Rests(t)
  BY <1>1 DEF IInv, TypeOK, Rests
<1>6. /\ shown'[s] \in Seq([target : DOMAIN ReadsBack, calls : Nat])
      /\ \A i \in DOMAIN shown'[s] : \/ i \in DOMAIN shown[s] /\ shown'[s][i] = shown[s][i]
                                     \/ i = Len(shown[s]) + 1 /\ shown'[s][i] = advice
  BY <1>3, <1>4, <1>5, AppendProperties, LenProperties
<1>7. TypeOK'
  <2>1. hook' \in [Sessions -> [at : {"idle", "remember", "print"}, target : DOMAIN ReadsBack \union {NoAdvice}]]
    BY <1>1 DEF IInv, TypeOK, Idle
  <2>2. shown' \in [Sessions -> Seq([target : DOMAIN ReadsBack, calls : Nat])]
    BY <1>1, <1>5, <1>6 DEF IInv, TypeOK
  <2> QED
    BY <1>1, <2>1, <2>2 DEF IInv, TypeOK
<1>8. Session(s)'
  BY <1>1, <1>2, <1>3, <1>5, <1>6 DEF Session, Idle
<1> QED
  BY <1>5, <1>7, <1>8, SessionStep

LEMMA KillStep ==
    ASSUME IInv, NEW s \in Sessions, Kill(s) PROVE IInv'
<1>1. /\ hook[s] # Idle /\ hook' = [hook EXCEPT ![s] = Idle]
      /\ UNCHANGED <<log, ended, day, made, shown>>
      /\ \/ UNCHANGED <<said, forgot>>
         \/ said' = [said EXCEPT ![s] = <<>>] /\ forgot' = [forgot EXCEPT ![s] = TRUE]
  BY DEF Kill
<1>2. hook'[s] = Idle /\ \A t \in Sessions \ {s} : Rests(t)
  BY <1>1 DEF IInv, TypeOK, Rests
<1>3. Session(s)
  BY BySession
<1>4. TypeOK'
  <2>1. hook' \in [Sessions -> [at : {"idle", "remember", "print"}, target : DOMAIN ReadsBack \union {NoAdvice}]]
    BY <1>1 DEF IInv, TypeOK, Idle
  <2>2. said' \in [Sessions -> Seq(STRING)] /\ forgot' \in [Sessions -> BOOLEAN]
    <3>1. <<>> \in Seq(STRING)
      BY EmptySeq
    <3> QED
      BY <1>1, <3>1 DEF IInv, TypeOK
  <2> QED
    BY <1>1, <2>1, <2>2 DEF IInv, TypeOK
<1>5. Session(s)'
  <2>1. forgot'[s] \/ UNCHANGED <<said[s], forgot[s]>>
    BY <1>1 DEF IInv, TypeOK
  <2> QED
    BY <1>1, <1>2, <1>3, <2>1 DEF Session, Idle
<1> QED
  BY <1>2, <1>4, <1>5, SessionStep

LEMMA SummarizeStep ==
    ASSUME IInv, NEW s \in Sessions, summarize(s) PROVE IInv'
<1>1. /\ hook[s] = Idle /\ ended' = [ended EXCEPT ![s] = TRUE]
      /\ said' = said \/ said' = [said EXCEPT ![s] = <<>>]
      /\ UNCHANGED <<log, hook, day, made, shown, forgot>>
  BY DEF summarize
<1>2. ended'[s] /\ \A t \in Sessions \ {s} : Rests(t)
  BY <1>1 DEF IInv, TypeOK, Rests
<1>3. Session(s)
  BY BySession
<1>4. TypeOK'
  <2>1. <<>> \in Seq(STRING)
    BY EmptySeq
  <2> QED
    BY <1>1, <2>1 DEF IInv, TypeOK
<1>5. Session(s)'
  BY <1>1, <1>2, <1>3 DEF Session, Idle
<1> QED
  BY <1>2, <1>4, <1>5, SessionStep

LEMMA ResumeStep ==
    ASSUME IInv, NEW s \in Sessions, Resume(s) PROVE IInv'
<1>1. /\ ended' = [ended EXCEPT ![s] = FALSE] /\ forgot' = [forgot EXCEPT ![s] = TRUE] /\ ended[s]
      /\ UNCHANGED <<log, said, hook, day, made, shown>>
  BY DEF Resume
<1>2. forgot'[s] /\ \A t \in Sessions \ {s} : Rests(t)
  BY <1>1 DEF IInv, TypeOK, Rests
<1>3. Session(s)
  BY BySession
<1>4. TypeOK'
  BY <1>1 DEF IInv, TypeOK
<1>5. Session(s)'
  BY <1>1, <1>2, <1>3 DEF Session, Idle
<1> QED
  BY <1>2, <1>4, <1>5, SessionStep

LEMMA MidnightStep == IInv /\ Midnight => IInv'
<1> SUFFICES ASSUME IInv, Midnight PROVE IInv'
  OBVIOUS
<1>1. /\ log' = <<>> /\ day' \in 0..MaxDays
      /\ UNCHANGED <<said, hook, ended, made, shown, forgot>>
  BY WatcherAssumption DEF Midnight, IInv, TypeOK, WatcherAssumption
<1>2. TypeOK'
  BY <1>1, EmptySeq DEF IInv, TypeOK
<1> QED
  BY <1>1, <1>2 DEF IInv, HooksRest, RememberedFirst, NeverRepeats

LEMMA IInvStep ==
    ASSUME OneLine PROVE IInv /\ [Next]_vars => IInv'
<1> SUFFICES ASSUME IInv, [Next]_vars PROVE IInv'
  OBVIOUS
<1>1. CASE UNCHANGED vars
  BY <1>1 DEF vars, IInv, TypeOK, HooksRest, RememberedFirst, NeverRepeats
<1> QED
  BY <1>1, RecordStep, SuggestStep, RememberStep, SayStep, KillStep, SummarizeStep, ResumeStep, MidnightStep
  DEF Next, HookStep

-----------------------------------------------------------------------------
\* Hooks, said-lists and what was said keep step in every session (hook.rs suggest): what
\* is printed is remembered first, and what is about to be remembered was not said.
THEOREM RemembersBeforeItSpeaks ==
    ASSUME OneLine PROVE Spec => []IInv
BY IInvInit, IInvStep, PTL DEF Spec

\* As long as a session's said-list is not lost, no advice is given in it twice (watch.rs
\* inspect), whatever hooks of whichever sessions are killed between any two of their steps.
THEOREM NoAdviceTwice ==
    ASSUME OneLine PROVE Spec => []NeverRepeats
<1>1. IInv => NeverRepeats
  BY DEF IInv
<1> QED
  BY <1>1, RemembersBeforeItSpeaks, PTL

-----------------------------------------------------------------------------
(***************************************************************************)
(* What is read back of a trace.  The loop is a recursive function, about  *)
(* which facts are shown by induction; sets of numbers do for it, because  *)
(* strict inclusion of the finite sets 1..x is well-founded.               *)
(***************************************************************************)
LEMMA InductiveSet ==
    ASSUME NEW T \in SUBSET Nat, 0 \in T, \A n \in T : n + 1 \in T
    PROVE  T = Nat
<1> SUFFICES ASSUME Nat \ T # {} PROVE FALSE
  OBVIOUS
<1> DEFINE Segments == {1..x : x \in Nat \ T}
           R == StrictSubsetOrdering(Nat)
<1>1. Segments \subseteq FiniteSubsetsOf(Nat)
  <2> SUFFICES ASSUME NEW x \in Nat PROVE 1..x \in FiniteSubsetsOf(Nat)
    OBVIOUS
  <2>1. IsFiniteSet(1..x) /\ 1..x \subseteq Nat
    BY FS_Interval
  <2> QED
    BY <2>1 DEF FiniteSubsetsOf
<1>2. IsWellFoundedOn(R, FiniteSubsetsOf(Nat))
  BY FS_StrictSubsetOrderingWellFounded
<1>3. Segments # {}
  OBVIOUS
<1> HIDE DEF R
<1>4. PICK least \in Segments : \A segment \in Segments : ~ (<<segment, least>> \in R)
  <2> HIDE DEF Segments
  <2> QED
    BY <1>1, <1>2, <1>3, WFMin
<1>5. PICK x \in Nat \ T : least = 1..x
  OBVIOUS
<1>6. x # 0 /\ x - 1 \in Nat
  BY <1>5
<1>7. CASE x - 1 \in T
  BY <1>5, <1>6, <1>7
<1>8. CASE x - 1 \notin T
  <2>1. 1..(x - 1) \subseteq 1..x /\ 1..(x - 1) # 1..x /\ 1..(x - 1) \in Segments
    BY <1>6, <1>8
  <2>2. <<1..(x - 1), 1..x>> \in R
    BY <2>1 DEF StrictSubsetOrdering, R
  <2> QED
    BY <1>4, <1>5, <2>1, <2>2
<1> QED
  BY <1>7, <1>8

\* One round of the loop of Picked.
Round(f, list, where, i) ==
    IF i = 0 THEN <<>>
    ELSE IF i \in where THEN Append(f[i - 1], list[i]) ELSE f[i - 1]

LEMMA LoopExists ==
    ASSUME NEW list, NEW where, NEW n \in Nat
    PROVE  \E f : f = [i \in 0..n |-> Round(f, list, where, i)]
<1> DEFINE T == {m \in Nat : \E f : f = [i \in 0..m |-> Round(f, list, where, i)]}
<1>1. 0 \in T
  <2> DEFINE f == [i \in 0..0 |-> <<>>]
  <2>1. f = [i \in 0..0 |-> Round(f, list, where, i)]
    BY DEF Round
  <2> QED
    BY <2>1
<1>2. ASSUME NEW m \in T PROVE m + 1 \in T
  <2>1. PICK f : f = [i \in 0..m |-> Round(f, list, where, i)]
    OBVIOUS
  <2> DEFINE g == [i \in 0..(m + 1) |->
                     IF i = m + 1 THEN Round(f, list, where, i) ELSE f[i]]
  <2>2. \A i \in 0..m : g[i] = f[i] /\ f[i] = Round(f, list, where, i)
    BY <2>1
  <2>3. \A i \in 0..(m + 1) : Round(g, list, where, i) = Round(f, list, where, i)
    <3> SUFFICES ASSUME NEW i \in 0..(m + 1), i # 0 PROVE g[i - 1] = f[i - 1]
      BY DEF Round
    <3> QED
      BY <2>2
  <2>4. \A i \in 0..(m + 1) : g[i] = Round(g, list, where, i)
    BY <2>2, <2>3
  <2>5. g = [i \in 0..(m + 1) |-> Round(g, list, where, i)]
    <3>1. g = [i \in 0..(m + 1) |-> g[i]]
      OBVIOUS
    <3> HIDE DEF g
    <3> QED
      BY <2>4, <3>1
  <2> HIDE DEF g
  <2> QED
    BY <2>5
<1>3. T = Nat
  <2> HIDE DEF T
  <2> QED
    BY <1>1, <1>2, InductiveSet DEF T
<1> QED
  BY <1>3

LEMMA PickedLoop ==
    ASSUME NEW list, NEW where, Len(list) \in Nat
    PROVE  \E f : /\ f = [i \in 0..Len(list) |-> Round(f, list, where, i)]
                  /\ Picked(list, where) = f[Len(list)]
<1> DEFINE g == CHOOSE f : f = [i \in 0..Len(list) |-> Round(f, list, where, i)]
<1>1. Picked(list, where) = g[Len(list)]
  BY DEF Picked, Round
<1>2. g = [i \in 0..Len(list) |-> Round(g, list, where, i)]
  BY LoopExists
<1> QED
  BY <1>1, <1>2

\* List `kept' holds what is in `list' at the positions in where, in their
\* order: its k-th element comes from position at[k].
Enumerates(at, kept, list, where) ==
    /\ at \in [1..Len(kept) -> where]
    /\ \A j, k \in 1..Len(kept) : j < k => at[j] < at[k]
    /\ \A i \in where : \E k \in 1..Len(kept) : at[k] = i
    /\ \A k \in 1..Len(kept) : kept[k] = list[at[k]]

LEMMA EnumeratesOneMore ==
    ASSUME NEW S, NEW kept \in Seq(S), NEW list, NEW n \in Nat,
           NEW where \in SUBSET (1..n), NEW at, Enumerates(at, kept, list, where),
           list[n + 1] \in S
    PROVE  \E later : Enumerates(later, Append(kept, list[n + 1]), list, where \cup {n + 1})
<1> DEFINE more == Append(kept, list[n + 1])
           last == Len(kept) + 1
           later == [k \in 1..last |-> IF k = last THEN n + 1 ELSE at[k]]
<1>1. /\ Len(kept) \in Nat /\ Len(more) = last /\ more[last] = list[n + 1]
      /\ \A k \in 1..Len(kept) : more[k] = kept[k]
  OBVIOUS
<1>2. \A k \in 1..Len(kept) : at[k] \in where /\ at[k] \in 1..n
  BY DEF Enumerates
<1> HIDE DEF more
<1>3. later \in [1..Len(more) -> where \cup {n + 1}]
  BY <1>1, <1>2
<1>4. \A j, k \in 1..Len(more) : j < k => later[j] < later[k]
  BY <1>1, <1>2 DEF Enumerates
<1>5. ASSUME NEW i \in where \cup {n + 1} PROVE \E k \in 1..Len(more) : later[k] = i
  <2>1. CASE i = n + 1
    <3>1. last \in 1..Len(more) /\ later[last] = i
      BY <1>1, <2>1
    <3> QED
      BY <3>1
  <2>2. CASE i \in where
    <3>1. PICK k \in 1..Len(kept) : at[k] = i
      BY <2>2 DEF Enumerates
    <3>2. k \in 1..Len(more) /\ later[k] = i
      BY <1>1, <3>1
    <3> QED
      BY <3>2
  <2> QED
    BY <2>1, <2>2
<1>6. \A k \in 1..Len(more) : more[k] = list[later[k]]
  BY <1>1 DEF Enumerates
<1>7. Enumerates(later, more, list, where \cup {n + 1})
  <2> HIDE DEF later
  <2> QED
    BY <1>3, <1>4, <1>5, <1>6 DEF Enumerates
<1> QED
  BY <1>7 DEF more

\* What Picked computes, for every list and every set of its positions.
LEMMA PickedIs ==
    ASSUME NEW S, NEW list \in Seq(S), NEW where \in SUBSET (1..Len(list))
    PROVE  /\ Picked(list, where) \in Seq(S)
           /\ \E at : Enumerates(at, Picked(list, where), list, where)
<1> DEFINE Upto(n) == where \cap 1..n
<1>0. Len(list) \in Nat
  OBVIOUS
<1>1. PICK f : /\ f = [i \in 0..Len(list) |-> Round(f, list, where, i)]
               /\ Picked(list, where) = f[Len(list)]
  BY <1>0, PickedLoop
<1>2. \A i \in 0..Len(list) : f[i] = Round(f, list, where, i)
  BY <1>1
<1> DEFINE Good(n) == n <= Len(list) =>
                       f[n] \in Seq(S) /\ \E at : Enumerates(at, f[n], list, Upto(n))
           T == {n \in Nat : Good(n)}
<1>3. Good(0)
  <2>1. f[0] = <<>>
    BY <1>0, <1>2 DEF Round
  <2>2. <<>> \in Seq(S) /\ Upto(0) = {}
    BY EmptySeq
  <2>3. ASSUME NEW none, none \in Seq(S), Len(none) = 0
        PROVE  Enumerates([k \in {} |-> 0], none, list, {})
    <3>1. 1..Len(none) = {}
      BY <2>3
    <3>2. [k \in {} |-> 0] \in [{} -> {}]
      OBVIOUS
    <3> QED
      BY <3>1, <3>2 DEF Enumerates
  <2>4. Enumerates([k \in {} |-> 0], <<>>, list, {})
    <3>1. Len(<<>>) = 0
      BY EmptySeq
    <3> QED
      BY <2>2, <2>3, <3>1
  <2> QED
    BY <2>1, <2>2, <2>4
<1>4. ASSUME NEW n \in Nat, Good(n), n + 1 <= Len(list)
      PROVE  /\ f[n + 1] \in Seq(S)
             /\ \E at : Enumerates(at, f[n + 1], list, Upto(n + 1))
  <2>1. n \in Nat /\ n <= Len(list)
    BY <1>0, <1>4
  <2>2. PICK at : Enumerates(at, f[n], list, Upto(n))
    BY <1>4, <2>1
  <2>3. f[n] \in Seq(S) /\ list[n + 1] \in S
    BY <1>4, <2>1
  <2>4. f[n + 1] = IF n + 1 \in where THEN Append(f[n], list[n + 1]) ELSE f[n]
    BY <1>0, <1>2, <1>4, <2>1 DEF Round
  <2>5. CASE n + 1 \in where
    <3>1. Upto(n + 1) = Upto(n) \cup {n + 1} /\ Upto(n) \in SUBSET (1..n)
      BY <2>1, <2>5
    <3> HIDE DEF Upto
    <3> DEFINE more == Append(f[n], list[n + 1])
    <3>2. PICK later : Enumerates(later, more, list, Upto(n) \cup {n + 1})
      BY <2>1, <2>2, <2>3, <3>1, EnumeratesOneMore
    <3>3. f[n + 1] = more /\ more \in Seq(S)
      BY <2>3, <2>4, <2>5
    <3> HIDE DEF more
    <3>4. Enumerates(later, f[n + 1], list, Upto(n + 1))
      BY <3>1, <3>2, <3>3
    <3> QED
      BY <3>3, <3>4
  <2>6. CASE n + 1 \notin where
    <3>1. Upto(n + 1) = Upto(n)
      BY <2>1, <2>6
    <3> HIDE DEF Upto
    <3> QED
      BY <2>2, <2>3, <2>4, <2>6, <3>1
  <2> QED
    BY <2>5, <2>6
<1>5. T = Nat
  <2> HIDE DEF Upto
  <2>1. ASSUME NEW n \in Nat, Good(n) PROVE Good(n + 1)
    BY <1>4, <2>1
  <2> HIDE DEF Good
  <2>2. 0 \in T /\ T \in SUBSET Nat /\ \A n \in T : n + 1 \in T
    BY <1>3, <2>1
  <2> HIDE DEF T
  <2> QED
    BY <2>2, InductiveSet
<1>6. Len(list) \in T /\ Upto(Len(list)) = where
  BY <1>0, <1>5
<1> QED
  BY <1>1, <1>6

\* How many of the positions there are up to this one.
Rank(i, where) == Cardinality({j \in where : j <= i})

\* As many elements as positions, and each behind those of the positions before.
LEMMA Ranks ==
    ASSUME NEW S, NEW kept \in Seq(S), NEW list, NEW n \in Nat,
           NEW where \in SUBSET (1..n), NEW at, Enumerates(at, kept, list, where)
    PROVE  /\ Cardinality(where) = Len(kept)
           /\ \A k \in 1..Len(kept) : Rank(at[k], where) = k
<1>1. /\ Len(kept) \in Nat /\ at \in [1..Len(kept) -> where]
      /\ \A j, k \in 1..Len(kept) : j < k => at[j] < at[k]
      /\ \A i \in where : \E k \in 1..Len(kept) : at[k] = i
      /\ \A k \in 1..Len(kept) : at[k] \in Nat
  <2>1. Len(kept) \in Nat /\ at \in [1..Len(kept) -> where]
    BY DEF Enumerates
  <2>2. \A k \in 1..Len(kept) : at[k] \in 1..n
    BY <2>1
  <2> QED
    BY <2>1, <2>2 DEF Enumerates
<1>2. ASSUME NEW k \in 0..Len(kept), NEW T,
             \A i : i \in T <=> \E j \in 1..k : at[j] = i
      PROVE  Cardinality(T) = k
  <2> DEFINE f == [j \in 1..k |-> at[j]]
  <2>1. f \in [1..k -> T] /\ \A i \in T : \E j \in 1..k : f[j] = i
    BY <1>2
  <2>2. \A i, j \in 1..k : f[i] = f[j] => i = j
    <3> SUFFICES ASSUME NEW i \in 1..k, NEW j \in 1..k, f[i] = f[j], i # j PROVE FALSE
      OBVIOUS
    <3>1. i \in 1..Len(kept) /\ j \in 1..Len(kept) /\ at[i] = at[j]
      BY <1>1
    <3>2. i < j \/ j < i
      OBVIOUS
    <3>3. at[i] \in Nat /\ at[j] \in Nat
      BY <1>1, <3>1
    <3> QED
      BY <1>1, <3>1, <3>2, <3>3
  <2>3. f \in Bijection(1..k, T)
    <3> HIDE DEF f
    <3> QED
      BY <2>1, <2>2, Fun_IsBij
  <2>4. ExistsBijection(1..k, T)
    BY <2>3 DEF ExistsBijection
  <2>5. IsFiniteSet(1..k) /\ Cardinality(1..k) = k
    BY <1>1, FS_Interval
  <2> QED
    BY <2>4, <2>5, FS_Bijection
<1>3. Cardinality(where) = Len(kept)
  <2>1. \A i : i \in where <=> \E j \in 1..Len(kept) : at[j] = i
    BY <1>1
  <2> QED
    BY <1>1, <1>2, <2>1
<1>4. ASSUME NEW k \in 1..Len(kept)
      PROVE  Rank(at[k], where) = k
  <2> DEFINE T == {j \in where : j <= at[k]}
  <2>1. ASSUME NEW i \in T PROVE \E j \in 1..k : at[j] = i
    <3>1. PICK j \in 1..Len(kept) : at[j] = i
      BY <1>1
    <3>2. ~ (k < j)
      BY <1>1, <3>1
    <3> QED
      BY <1>1, <3>1, <3>2
  <2>2. ASSUME NEW j \in 1..k PROVE at[j] \in T
    <3>1. j \in 1..Len(kept) /\ (j < k \/ j = k)
      BY <1>1
    <3>2. at[j] \in where /\ at[j] \in Nat /\ at[k] \in Nat
      BY <1>1, <3>1
    <3>3. at[j] <= at[k]
      BY <1>1, <3>1, <3>2
    <3> QED
      BY <3>2, <3>3
  <2> HIDE DEF T
  <2>3. \A i : i \in T <=> \E j \in 1..k : at[j] = i
    BY <2>1, <2>2
  <2>4. k \in 0..Len(kept)
    BY <1>1
  <2>5. Cardinality(T) = k
    BY <1>2, <2>3, <2>4
  <2> QED
    BY <2>5 DEF T, Rank
<1> QED
  BY <1>3, <1>4

\* Neither piece of a record is a record.
LEMMA PiecesAreNoRecords == Cut \notin Record /\ CutChar \notin Record
BY DEF Cut, CutChar, Record

\* What read_jsonl returns of a trace that can be read: the records that begin
\* their lines.
LEMMA ReadBack ==
    ASSUME NEW trace \in Seq(Record \cup {Cut, CutChar}), Readable(trace)
    PROVE  LET whole == {i \in DOMAIN trace :
                            trace[i] \in Record /\ (i > 1 => trace[i - 1] \in Record)}
           IN  /\ whole \in SUBSET (1..Len(trace))
               /\ read_jsonl(trace) \in Seq(Record)
               /\ \E at : Enumerates(at, read_jsonl(trace), trace, whole)
<1> DEFINE whole == {i \in DOMAIN trace :
                        trace[i] \in Record /\ (i > 1 => trace[i - 1] \in Record)}
           where == {i \in DOMAIN trace : Parses(trace, i)}
<1>1. Len(trace) \in Nat /\ DOMAIN trace = 1..Len(trace)
  OBVIOUS
<1>2. \A i \in DOMAIN trace : trace[i] \in Record \/ trace[i] = Cut
  BY DEF Readable
<1>3. ASSUME NEW i \in DOMAIN trace, i > 1
      PROVE  (trace[i - 1] \in Record) <=> (trace[i - 1] # Cut)
  <2>1. i - 1 \in DOMAIN trace
    BY <1>1, <1>3
  <2> QED
    BY <1>2, <2>1, PiecesAreNoRecords
<1>4. where = whole
  BY <1>3 DEF Parses
<1>5. where \in SUBSET (1..Len(trace)) /\ read_jsonl(trace) = Picked(trace, where)
  BY <1>1 DEF read_jsonl
<1> HIDE DEF where, whole
<1>6. PICK at : Enumerates(at, read_jsonl(trace), trace, where)
  BY <1>5, PickedIs
<1>7. read_jsonl(trace) \in Seq(Record)
  <2>1. Picked(trace, where) \in Seq(Record \cup {Cut, CutChar})
    BY <1>5, PickedIs
  <2>2. \A k \in 1..Len(read_jsonl(trace)) : read_jsonl(trace)[k] \in Record
    BY <1>4, <1>6 DEF Enumerates, whole
  <2> QED
    BY <1>5, <2>1, <2>2
<1> QED
  BY <1>4, <1>5, <1>6, <1>7 DEF whole

-----------------------------------------------------------------------------
(***************************************************************************)
(* Between a call and the advice on it: what a session finds in the trace  *)
(* are calls it made, each found once.                                     *)
(***************************************************************************)
Own(trace, s) == {i \in DOMAIN trace : trace[i] \in Record /\ trace[i][1] = s}

\* Function found maps a set to positions of calls, no two to the same one.
Matches(found, from, calls) ==
    /\ found \in [from -> DOMAIN calls]
    /\ \A i, j \in from : found[i] = found[j] => i = j

Traced(trace, calls, s) ==
    \E found : /\ Matches(found, Own(trace, s), calls)
               /\ \A i \in Own(trace, s) : calls[found[i]] = trace[i][2]

Typed ==
    /\ log \in Seq(Record \cup {Cut, CutChar})
    /\ made \in [Sessions -> Seq(CallKinds)]
    /\ hook \in [Sessions -> [at : {"idle", "remember", "print"},
                              target : DOMAIN ReadsBack \cup {NoAdvice}]]

Tracing == Typed /\ (\A s \in Sessions : Traced(log, made[s], s)) /\ AdviceIsEarned

LEMMA NothingPicked ==
    ASSUME NEW where, where = {}
    PROVE  Picked(<<>>, where) = <<>>
<1>1. PICK f : /\ f = [i \in 0..Len(<<>>) |-> Round(f, <<>>, where, i)]
               /\ Picked(<<>>, where) = f[Len(<<>>)]
  <2>1. Len(<<>>) \in Nat
    BY EmptySeq
  <2> QED
    BY <2>1, PickedLoop
<1>2. Len(<<>>) = 0 /\ 0 \in 0..0
  BY EmptySeq
<1>3. f[0] = Round(f, <<>>, where, 0)
  BY <1>1, <1>2
<1> QED
  BY <1>1, <1>2, <1>3 DEF Round

LEMMA MineIsMade ==
    ASSUME Typed, NEW s \in Sessions, Traced(log, made[s], s)
    PROVE  /\ Mine(s) \in Seq(CallKinds)
           /\ \E found : /\ Matches(found, 1..Len(Mine(s)), made[s])
                         /\ \A k \in 1..Len(Mine(s)) : made[s][found[k]] = Mine(s)[k]
<1> DEFINE records == read_jsonl(log)
           where == {i \in DOMAIN records : records[i][1] = s}
           own == Picked(records, where)
           mine == [i \in DOMAIN own |-> own[i][2]]
<1>1. Mine(s) = mine
  BY DEF Mine
<1>2. CASE Readable(log)
  <2> DEFINE whole == {i \in DOMAIN log : log[i] \in Record /\ (i > 1 => log[i - 1] \in Record)}
  <2>1. records \in Seq(Record) /\ \E at : Enumerates(at, records, log, whole)
    BY <1>2, ReadBack DEF Typed
  <2> HIDE DEF records
  <2>2. PICK at : Enumerates(at, records, log, whole)
    BY <2>1
  <2>3. where \in SUBSET (1..Len(records)) /\ Len(records) \in Nat
    BY <2>1
  <2>4. own \in Seq(Record) /\ \E to : Enumerates(to, own, records, where)
    <3> HIDE DEF where
    <3> QED
      BY <2>1, <2>3, PickedIs
  <2> HIDE DEF own
  <2>5. PICK to : Enumerates(to, own, records, where)
    BY <2>4
  <2>6. PICK found : /\ Matches(found, Own(log, s), made[s])
                     /\ \A i \in Own(log, s) : made[s][found[i]] = log[i][2]
    BY DEF Traced
  <2>7. \A k \in 1..Len(own) :
           /\ to[k] \in 1..Len(records) /\ own[k] = records[to[k]]
           /\ own[k][1] = s /\ at[to[k]] \in whole
           /\ own[k] = log[at[to[k]]]
    BY <2>2, <2>3, <2>5 DEF Enumerates
  <2>8. \A k \in 1..Len(own) : at[to[k]] \in Own(log, s) /\ log[at[to[k]]] = own[k]
    BY <2>7 DEF Own
  <2>9. ASSUME NEW j \in 1..Len(own), NEW k \in 1..Len(own), at[to[j]] = at[to[k]]
        PROVE  j = k
    <3>1. Len(own) \in Nat /\ to[j] \in 1..Len(records) /\ to[k] \in 1..Len(records)
      BY <2>4, <2>7
    <3>2. \A l \in 1..Len(records) : at[l] \in Nat
      <4>1. whole \in SUBSET Nat
        BY DEF Typed
      <4> HIDE DEF whole
      <4> QED
        BY <2>2, <4>1 DEF Enumerates
    <3>3. ~ (to[j] < to[k]) /\ ~ (to[k] < to[j])
      BY <2>2, <2>9, <3>1, <3>2 DEF Enumerates
    <3>4. to[j] = to[k]
      BY <2>3, <3>1, <3>3
    <3>5. ~ (j < k) /\ ~ (k < j)
      BY <2>3, <2>5, <3>1, <3>4 DEF Enumerates
    <3> QED
      BY <3>1, <3>5
  <2> DEFINE met == [k \in 1..Len(own) |-> found[at[to[k]]]]
  <2>10. Matches(met, 1..Len(own), made[s])
    BY <2>6, <2>8, <2>9 DEF Matches
  <2>11. \A k \in 1..Len(own) : own[k] \in Record /\ own[k][2] \in CallKinds
    BY <2>4 DEF Record
  <2>12. mine \in Seq(CallKinds) /\ Len(mine) = Len(own)
         /\ \A k \in 1..Len(own) : mine[k] = own[k][2]
    BY <2>4, <2>11
  <2>13. \A k \in 1..Len(own) : made[s][met[k]] = mine[k]
    BY <2>6, <2>8, <2>12
  <2> HIDE DEF met, mine
  <2> QED
    BY <1>1, <2>10, <2>12, <2>13
<1>3. CASE ~ Readable(log)
  <2>1. records = <<>> /\ where = {}
    BY <1>3 DEF read_jsonl
  <2>2. own = <<>>
    <3> HIDE DEF where, records
    <3> QED
      BY <2>1, NothingPicked
  <2>3. mine = <<>>
    <3> HIDE DEF own
    <3> QED
      BY <2>2
  <2>4. <<>> \in Seq(CallKinds) /\ 1..Len(<<>>) = {}
    BY EmptySeq
  <2>5. Matches([k \in {} |-> 0], {}, made[s])
    BY DEF Matches
  <2> HIDE DEF mine
  <2> QED
    BY <1>1, <2>3, <2>4, <2>5
<1> QED
  BY <1>2, <1>3

\* What advice on t rests on.
Grounds(calls, t) ==
    \/ Cardinality(Of(calls, "Read", t)) >= RepeatReads
    \/ Cardinality(Of(calls, "WebFetch", t)) >= RepeatFetches
    \/ \E i \in DOMAIN calls : calls[i].target = t /\ calls[i].bytes >= LargeOutput
    \/ t = "read-chain" /\ Len(calls) >= ReadChain

LEMMA OfType ==
    ASSUME NEW calls \in Seq(CallKinds), NEW tool, NEW t
    PROVE  IsFiniteSet(Of(calls, tool, t)) /\ Cardinality(Of(calls, tool, t)) \in Nat
<1>1. Of(calls, tool, t) \in SUBSET (1..Len(calls)) /\ IsFiniteSet(1..Len(calls))
  BY FS_Interval DEF Of
<1> QED
  BY <1>1, FS_Subset, FS_CardinalityType

\* What calls are grounds for, more calls are grounds for.
LEMMA GroundsCarry ==
    ASSUME NEW few \in Seq(CallKinds), NEW many \in Seq(CallKinds),
           NEW found \in [1..Len(few) -> 1..Len(many)],
           \A i, j \in 1..Len(few) : found[i] = found[j] => i = j,
           \A k \in 1..Len(few) : many[found[k]] = few[k]
    PROVE  /\ Len(few) <= Len(many)
           /\ \A t : Grounds(few, t) => Grounds(many, t)
<1>1. ASSUME NEW A \in SUBSET (1..Len(few)), NEW B, IsFiniteSet(B),
             \A i \in A : found[i] \in B
      PROVE  Cardinality(A) <= Cardinality(B)
  <2> DEFINE f == [i \in A |-> found[i]]
  <2>1. f \in [A -> B] /\ \A i, j \in A : f[i] = f[j] => i = j
    BY <1>1
  <2> HIDE DEF f
  <2> QED
    BY <1>1, <2>1, Fun_IsInj, FS_Injection
<1>2. Len(few) <= Len(many)
  <2>1. Len(few) \in Nat /\ Len(many) \in Nat
    OBVIOUS
  <2>2. ASSUME NEW n \in Nat PROVE IsFiniteSet(1..n) /\ Cardinality(1..n) = n
    <3>1. 1 \in Int /\ n \in Int
      OBVIOUS
    <3> QED
      BY <3>1, FS_Interval
  <2>3. Cardinality(1..Len(few)) <= Cardinality(1..Len(many))
    BY <1>1, <2>1, <2>2
  <2> QED
    BY <2>1, <2>2, <2>3
<1>3. ASSUME NEW tool, NEW t
      PROVE  /\ Cardinality(Of(few, tool, t)) <= Cardinality(Of(many, tool, t))
             /\ Cardinality(Of(few, tool, t)) \in Nat
             /\ Cardinality(Of(many, tool, t)) \in Nat
  <2>1. Of(few, tool, t) \in SUBSET (1..Len(few))
    BY DEF Of
  <2>2. \A i \in Of(few, tool, t) : found[i] \in Of(many, tool, t)
    BY DEF Of
  <2> QED
    BY <1>1, <2>1, <2>2, OfType
<1>4. \A k \in DOMAIN few : found[k] \in DOMAIN many /\ many[found[k]] = few[k]
  OBVIOUS
<1>5. {RepeatReads, ReadChain, RepeatFetches, LargeOutput} \subseteq Nat
  BY WatcherAssumption DEF WatcherAssumption
<1>6. Len(few) \in Nat /\ Len(many) \in Nat
  OBVIOUS
<1>7. ASSUME NEW t, Grounds(few, t) PROVE Grounds(many, t)
  <2>1. CASE Cardinality(Of(few, "Read", t)) >= RepeatReads
    <3>1. Cardinality(Of(many, "Read", t)) >= RepeatReads
      BY <1>3, <1>5, <2>1
    <3> QED
      BY <3>1 DEF Grounds
  <2>2. CASE Cardinality(Of(few, "WebFetch", t)) >= RepeatFetches
    <3>1. Cardinality(Of(many, "WebFetch", t)) >= RepeatFetches
      BY <1>3, <1>5, <2>2
    <3> QED
      BY <3>1 DEF Grounds
  <2>3. CASE \E i \in DOMAIN few : few[i].target = t /\ few[i].bytes >= LargeOutput
    <3>1. \E i \in DOMAIN many : many[i].target = t /\ many[i].bytes >= LargeOutput
      BY <1>4, <2>3
    <3> QED
      BY <3>1 DEF Grounds
  <2>4. CASE t = "read-chain" /\ Len(few) >= ReadChain
    <3>1. Len(many) >= ReadChain
      BY <1>2, <1>5, <1>6, <2>4
    <3> QED
      BY <2>4, <3>1 DEF Grounds
  <2> QED
    BY <1>7, <2>1, <2>2, <2>3, <2>4 DEF Grounds
<1> QED
  BY <1>2, <1>7

\* What inspect returns has its grounds.
LEMMA InspectHasGrounds ==
    ASSUME NEW calls \in Seq(CallKinds), NEW lines, NEW t \in inspect(calls, lines)
    PROVE  Grounds(calls, t)
<1>1. ASSUME NEW tool, NEW least, t \in Worst(calls, tool, Repeated(calls, tool, least, lines))
      PROVE  Cardinality(Of(calls, tool, t)) >= least
  BY <1>1 DEF Worst, Repeated
<1>2. ASSUME t \in Oversized(calls, lines)
      PROVE  \E i \in DOMAIN calls : calls[i].target = t /\ calls[i].bytes >= LargeOutput
  BY <1>2 DEF Oversized
<1>3. ASSUME t \in Chained(calls, lines)
      PROVE  t = "read-chain" /\ Len(calls) >= ReadChain
  BY <1>3 DEF Chained
<1> QED
  BY <1>1, <1>2, <1>3 DEF inspect, Grounds

\* And where something has been said, it waited.
LEMMA InspectWaits ==
    ASSUME NEW calls \in Seq(CallKinds), NEW lines, lines # {}, inspect(calls, lines) # {}
    PROVE  Len(calls) >= MinCallsBetween
<1> DEFINE at == {0} \cup {i - 1 : i \in {i \in DOMAIN calls : calls[i].target \in lines}}
           T == {m \in Nat : \E x \in at : x >= m}
<1>1. Len(calls) \in Nat /\ at \in SUBSET Nat /\ (\A x \in at : x <= Len(calls)) /\ 0 \in at
  OBVIOUS
<1> HIDE DEF at
<1>2. \E x \in at : \A y \in at : x >= y
  <2> SUFFICES ASSUME \A x \in at : \E y \in at : ~ (x >= y) PROVE FALSE
    OBVIOUS
  <2>1. 0 \in T /\ T \in SUBSET Nat
    BY <1>1
  <2>2. ASSUME NEW m \in T PROVE m + 1 \in T
    <3>1. PICK x \in at : x >= m
      OBVIOUS
    <3>2. PICK y \in at : ~ (x >= y)
      OBVIOUS
    <3>3. y >= m + 1 /\ m + 1 \in Nat
      BY <1>1, <3>1, <3>2
    <3> QED
      BY <3>3
  <2>3. T = Nat
    <3> HIDE DEF T
    <3> QED
      BY <2>1, <2>2, InductiveSet
  <2>4. Len(calls) + 1 \in T
    BY <1>1, <2>3
  <2> QED
    BY <1>1, <2>4
<1>3. LastSuggestionIndex(calls, lines) \in Nat
  BY <1>1, <1>2 DEF LastSuggestionIndex, Max, at
<1>4. ~ RateLimited(calls, lines)
  BY DEF inspect
<1>5. MinCallsBetween \in Nat
  BY WatcherAssumption DEF WatcherAssumption
<1> QED
  BY <1>1, <1>3, <1>4, <1>5 DEF RateLimited

LEMMA EarnedIsGrounded ==
    AdviceIsEarned <=> \A s \in Sessions : hook[s].at # "idle" => Grounds(made[s], hook[s].target)
BY DEF AdviceIsEarned, Grounds

LEMMA SuggestHasGrounds ==
    ASSUME Tracing, NEW s \in Sessions, NEW t \in inspect(Mine(s), ToSet(said[s]))
    PROVE  /\ Grounds(made[s], t)
           /\ said[s] \in Seq(STRING) /\ said[s] # <<>> => Len(made[s]) >= MinCallsBetween
<1>1. Mine(s) \in Seq(CallKinds) /\ made[s] \in Seq(CallKinds)
  BY MineIsMade DEF Tracing, Typed
<1>2. PICK found : /\ Matches(found, 1..Len(Mine(s)), made[s])
                   /\ \A k \in 1..Len(Mine(s)) : made[s][found[k]] = Mine(s)[k]
  BY MineIsMade DEF Tracing
<1>3. found \in [1..Len(Mine(s)) -> 1..Len(made[s])]
      /\ \A i, j \in 1..Len(Mine(s)) : found[i] = found[j] => i = j
  BY <1>1, <1>2 DEF Matches
<1>4. Len(Mine(s)) <= Len(made[s]) /\ (Grounds(Mine(s), t) => Grounds(made[s], t))
  BY <1>1, <1>2, <1>3, GroundsCarry
<1>5. Grounds(Mine(s), t)
  BY <1>1, InspectHasGrounds
<1>6. ASSUME said[s] \in Seq(STRING), said[s] # <<>> PROVE Len(made[s]) >= MinCallsBetween
  <2>1. ToSet(said[s]) # {}
    <3>1. 1 \in DOMAIN said[s]
      BY <1>6
    <3> QED
      BY <3>1 DEF ToSet
  <2>2. Len(Mine(s)) >= MinCallsBetween
    BY <1>1, <2>1, InspectWaits
  <2>3. MinCallsBetween \in Nat /\ Len(Mine(s)) \in Nat /\ Len(made[s]) \in Nat
    BY <1>1, WatcherAssumption DEF WatcherAssumption
  <2> QED
    BY <1>4, <2>2, <2>3
<1> QED
  BY <1>4, <1>5, <1>6

LEMMA TracingInit == Init => Tracing
<1> SUFFICES ASSUME Init PROVE Tracing
  OBVIOUS
<1>1. <<>> \in Seq(Record \cup {Cut, CutChar}) /\ <<>> \in Seq(CallKinds) /\ DOMAIN <<>> = {}
  BY EmptySeq
<1>2. Typed
  BY <1>1 DEF Init, Typed, Idle
<1>3. AdviceIsEarned
  BY EarnedIsGrounded DEF Init, Idle
<1>4. ASSUME NEW s \in Sessions PROVE Traced(log, made[s], s)
  <2>1. Own(log, s) = {}
    BY <1>1 DEF Own, Init
  <2>2. Matches([i \in {} |-> 0], {}, made[s])
    BY DEF Matches
  <2> QED
    BY <2>1, <2>2 DEF Traced
<1> QED
  BY <1>2, <1>3, <1>4 DEF Tracing

\* A step that leaves the trace and the calls alone keeps Tracing if the hooks
\* it moves have grounds.
LEMMA HookMoves ==
    ASSUME Tracing, UNCHANGED <<log, made>>, NEW s \in Sessions,
           NEW new \in [at : {"idle", "remember", "print"}, target : DOMAIN ReadsBack \cup {NoAdvice}],
           hook' = [hook EXCEPT ![s] = new],
           new.at # "idle" => Grounds(made[s], new.target)
    PROVE  Tracing'
<1>1. Typed'
  BY DEF Tracing, Typed
<1>2. \A u \in Sessions : Traced(log', made'[u], u)
  <2>1. log' = log /\ made' = made
    OBVIOUS
  <2> QED
    BY <2>1 DEF Tracing
<1>3. \A u \in Sessions : hook'[u].at # "idle" => Grounds(made[u], hook'[u].target)
  BY EarnedIsGrounded DEF Tracing, Typed
<1>4. AdviceIsEarned'
  BY <1>3, EarnedIsGrounded DEF AdviceIsEarned, Grounds
<1> QED
  BY <1>1, <1>2, <1>4 DEF Tracing

\* A call that was made, and its record or what became of it.
LEMMA TracingRecord ==
    ASSUME Tracing, NEW s \in Sessions, record(s)
    PROVE  Tracing'
<1>1. PICK c \in CallKinds : /\ made' = [made EXCEPT ![s] = Append(@, c)]
                             /\ \/ log' = Append(log, <<s, c>>)
                                \/ log' = Append(log, Cut)
                                \/ log' = Append(log, CutChar)
  BY DEF record
<1>2. UNCHANGED hook
  BY DEF record
<1>3. log \in Seq(Record \cup {Cut, CutChar}) /\ made[s] \in Seq(CallKinds)
  BY DEF Tracing, Typed
<1>4. PICK x \in Record \cup {Cut, CutChar} :
         log' = Append(log, x) /\ (x \in Record => x = <<s, c>>)
  BY <1>1, PiecesAreNoRecords DEF Record
<1> DEFINE here == Len(log) + 1
           there == Len(made[s]) + 1
<1>5. /\ here \in Nat /\ DOMAIN log = 1..Len(log)
      /\ DOMAIN log' = DOMAIN log \cup {here}
      /\ here \notin DOMAIN log /\ log'[here] = x /\ \A i \in DOMAIN log : log'[i] = log[i]
  BY <1>3, <1>4
<1>6. /\ made'[s] \in Seq(CallKinds) /\ DOMAIN made'[s] = DOMAIN made[s] \cup {there}
      /\ there \notin DOMAIN made[s] /\ made'[s][there] = c
      /\ \A i \in DOMAIN made[s] : made'[s][i] = made[s][i]
      /\ Len(made'[s]) = there
  <2>1. made'[s] = Append(made[s], c)
    BY <1>1 DEF Tracing, Typed
  <2> QED
    BY <1>3, <2>1
<1>7. Typed'
  <2>1. made' \in [Sessions -> Seq(CallKinds)]
    BY <1>1, <1>3 DEF Tracing, Typed
  <2>2. log' \in Seq(Record \cup {Cut, CutChar})
    BY <1>3, <1>4
  <2> QED
    BY <1>2, <2>1, <2>2 DEF Tracing, Typed
<1>8. \A u \in Sessions \ {s} : made'[u] = made[u]
  BY <1>1 DEF Tracing, Typed
<1> HIDE DEF here, there
<1>9. \A u \in Sessions \ {s} : Own(log', u) = Own(log, u) /\ \A i \in Own(log, u) : log'[i] = log[i]
  BY <1>4, <1>5 DEF Own
<1>10. Own(log', s) = IF x \in Record THEN Own(log, s) \cup {here} ELSE Own(log, s)
  BY <1>4, <1>5 DEF Own
<1>11. ASSUME NEW u \in Sessions \ {s} PROVE Traced(log', made'[u], u)
  <2>1. PICK found : Matches(found, Own(log, u), made[u]) /\ \A i \in Own(log, u) : made[u][found[i]] = log[i][2]
    BY DEF Tracing, Traced
  <2>2. Matches(found, Own(log', u), made'[u])
    BY <1>8, <1>9, <2>1 DEF Matches
  <2> QED
    BY <1>8, <1>9, <2>1, <2>2 DEF Traced
<1>12. Traced(log', made'[s], s)
  <2>1. PICK found : Matches(found, Own(log, s), made[s]) /\ \A i \in Own(log, s) : made[s][found[i]] = log[i][2]
    BY DEF Tracing, Traced
  <2>2. \A i \in Own(log, s) : i \in DOMAIN log /\ i # here
    BY <1>5 DEF Own
  <2> DEFINE more == [i \in Own(log', s) |-> IF i = here THEN there ELSE found[i]]
  <2>3. \A i \in Own(log', s) : i = here \/ i \in Own(log, s)
    BY <1>10
  <2>4. Matches(more, Own(log', s), made'[s])
    BY <1>6, <2>1, <2>2, <2>3 DEF Matches
  <2>5. ASSUME NEW i \in Own(log', s) PROVE made'[s][more[i]] = log'[i][2]
    <3>1. CASE i = here
      <4>1. x \in Record
        BY <1>10, <2>2, <3>1
      <4> QED
        BY <1>4, <1>5, <1>6, <3>1, <4>1
    <3>2. CASE i # here
      <4>1. i \in Own(log, s) /\ more[i] = found[i] /\ found[i] \in DOMAIN made[s]
        BY <2>1, <2>3, <3>2 DEF Matches
      <4> QED
        BY <1>5, <1>6, <2>1, <2>2, <4>1
    <3> QED
      BY <3>1, <3>2
  <2> HIDE DEF more
  <2> QED
    BY <2>4, <2>5 DEF Traced
<1>13. \A t : Grounds(made[s], t) => Grounds(made'[s], t)
  <2> DEFINE same == [k \in 1..Len(made[s]) |-> k]
  <2>1. DOMAIN made[s] = 1..Len(made[s]) /\ 1..Len(made[s]) \subseteq 1..Len(made'[s])
    BY <1>3, <1>6
  <2>2. same \in [1..Len(made[s]) -> 1..Len(made'[s])]
    BY <2>1
  <2> QED
    BY <1>3, <1>6, <2>1, <2>2, GroundsCarry
<1>14. AdviceIsEarned'
  <2>1. \A u \in Sessions : hook[u].at # "idle" => Grounds(made'[u], hook[u].target)
    BY <1>8, <1>13, EarnedIsGrounded DEF Tracing
  <2> QED
    BY <1>2, <2>1 DEF AdviceIsEarned, Grounds
<1> QED
  BY <1>7, <1>11, <1>12, <1>14 DEF Tracing

LEMMA TracingStep == Tracing /\ [Next]_vars => Tracing'
<1> SUFFICES ASSUME Tracing, [Next]_vars PROVE Tracing'
  OBVIOUS
<1>1. ASSUME NEW s \in Sessions, UNCHANGED <<log, made>>,
             hook' = hook \/ hook' = [hook EXCEPT ![s] = Idle]
      PROVE  Tracing'
  <2>1. CASE hook' = hook
    <3>1. log' = log /\ made' = made
      BY <1>1
    <3> QED
      BY <2>1, <3>1 DEF Tracing, Typed, AdviceIsEarned
  <2>2. CASE hook' = [hook EXCEPT ![s] = Idle]
    BY <1>1, <2>2, HookMoves DEF Idle
  <2> QED
    BY <1>1, <2>1, <2>2
<1>2. ASSUME NEW s \in Sessions, suggest(s) PROVE Tracing'
  <2>1. PICK t \in inspect(Mine(s), ToSet(said[s])) :
           hook' = [hook EXCEPT ![s] = [at |-> "remember", target |-> t]]
    BY <1>2 DEF suggest
  <2>2. UNCHANGED <<log, made>>
    BY <1>2 DEF suggest
  <2>3. t \in DOMAIN ReadsBack /\ Grounds(made[s], t)
    BY InspectFindsNew, SuggestHasGrounds
  <2> QED
    BY <2>1, <2>2, <2>3, HookMoves
<1>3. ASSUME NEW s \in Sessions, Remember(s) PROVE Tracing'
  <2> DEFINE new == [hook[s] EXCEPT !.at = "print"]
  <2>1. /\ UNCHANGED <<log, made>> /\ hook[s].at = "remember"
        /\ hook' = [hook EXCEPT ![s] = new]
    BY <1>3 DEF Remember
  <2>2. /\ new \in [at : {"idle", "remember", "print"}, target : DOMAIN ReadsBack \cup {NoAdvice}]
        /\ new.target = hook[s].target
    BY DEF Tracing, Typed
  <2>3. Grounds(made[s], hook[s].target)
    BY <2>1, EarnedIsGrounded DEF Tracing
  <2> HIDE DEF new
  <2> QED
    BY <2>1, <2>2, <2>3, HookMoves
<1>4. CASE Midnight
  <2>1. log' = <<>> /\ UNCHANGED <<made, hook>>
    BY <1>4 DEF Midnight
  <2>2. <<>> \in Seq(Record \cup {Cut, CutChar}) /\ DOMAIN <<>> = {}
    BY EmptySeq
  <2>3. Typed' /\ AdviceIsEarned'
    BY <2>1, <2>2 DEF Tracing, Typed, AdviceIsEarned
  <2>4. ASSUME NEW s \in Sessions PROVE Traced(log', made'[s], s)
    <3>1. Own(log', s) = {}
      BY <2>1, <2>2 DEF Own
    <3>2. Matches([i \in {} |-> 0], {}, made'[s])
      BY DEF Matches
    <3> QED
      BY <3>1, <3>2 DEF Traced
  <2> QED
    BY <2>3, <2>4 DEF Tracing
<1>5. CASE UNCHANGED vars
  <2>1. log' = log /\ made' = made /\ hook' = hook
    BY <1>5 DEF vars
  <2> QED
    BY <2>1 DEF Tracing, Typed, AdviceIsEarned
<1>6. ASSUME NEW s \in Sessions, Say(s) \/ Kill(s) \/ summarize(s) \/ Resume(s) PROVE Tracing'
  <2>1. UNCHANGED <<log, made>> /\ (hook' = hook \/ hook' = [hook EXCEPT ![s] = Idle])
    BY <1>6 DEF Say, Kill, summarize, Resume
  <2> QED
    BY <1>1, <2>1
<1> QED
  BY <1>2, <1>3, <1>4, <1>5, <1>6, TracingRecord DEF Next, HookStep

\* Advice is given on what the session itself did, however many sessions write to
\* the trace and whatever is lost of it (watch.rs inspect, hook.rs suggest).
THEOREM AdviceHasGrounds == Spec => []AdviceIsEarned
<1>1. Tracing => AdviceIsEarned
  BY DEF Tracing
<1> QED
  BY <1>1, TracingInit, TracingStep, PTL DEF Spec

\* While the trace can be read, all of it is, but for the records that a killed
\* write cut and those that share a line with them (trace.rs read_jsonl).
THEOREM LossHasBounds == Spec => []LossIsBounded
<1>1. Tracing => LossIsBounded
  <2> SUFFICES ASSUME Tracing, Readable(log) PROVE LossIsBounded
    BY DEF LossIsBounded
  <2> DEFINE kept == {i \in DOMAIN log : log[i] \in Record /\ (i > 1 => log[i - 1] \in Record)}
             back == read_jsonl(log)
  <2>1. log \in Seq(Record \cup {Cut, CutChar}) /\ Len(log) \in Nat
    BY DEF Tracing, Typed
  <2>2. /\ kept \in SUBSET (1..Len(log)) /\ back \in Seq(Record)
        /\ \E at : Enumerates(at, back, log, kept)
    BY <2>1, ReadBack
  <2> HIDE DEF kept, back
  <2>3. PICK at : Enumerates(at, back, log, kept)
    BY <2>2
  <2>4. /\ Cardinality(kept) = Len(back)
        /\ \A k \in 1..Len(back) : Rank(at[k], kept) = k
    BY <2>1, <2>2, <2>3, Ranks
  <2>5. ASSUME NEW i \in kept PROVE back[Rank(i, kept)] = log[i]
    <3>1. PICK k \in 1..Len(back) : at[k] = i
      BY <2>3 DEF Enumerates
    <3>2. back[k] = log[i]
      BY <2>3, <3>1 DEF Enumerates
    <3> QED
      BY <2>4, <3>1, <3>2
  <2> QED
    BY <2>4, <2>5 DEF LossIsBounded, Rank, kept, back
<1> QED
  BY <1>1, TracingInit, TracingStep, PTL DEF Spec

-----------------------------------------------------------------------------
(***************************************************************************)
(* Between one piece of advice and the next.  SecondAdviceWaits alone is   *)
(* not kept: a hook that has decided prints what it decided, so it must    *)
(* have waited when it decided.                                            *)
(***************************************************************************)
Waits(s) ==
    ~forgot[s] =>
        /\ \A i \in DOMAIN shown[s] : i > 1 => shown[s][i].calls >= MinCallsBetween
        /\ hook[s].at # "idle" /\ shown[s] # <<>> => Len(made[s]) >= MinCallsBetween

Waiting == IInv /\ Tracing /\ \A s \in Sessions : Waits(s)

\* What a step does that neither decides nor prints.
Patient(s) ==
    /\ shown'[s] = shown[s]
    /\ Len(made'[s]) >= Len(made[s])
    /\ forgot[s] => forgot'[s]
    /\ hook'[s].at # "idle" => hook[s].at # "idle"

LEMMA WaitsOn ==
    ASSUME TypeOK, NEW s \in Sessions, Waits(s), Patient(s), TypeOK'
    PROVE  Waits(s)'
<1>1. MinCallsBetween \in Nat /\ Len(made[s]) \in Nat /\ Len(made'[s]) \in Nat
  BY WatcherAssumption DEF WatcherAssumption, TypeOK
<1>2. shown'[s] = shown[s] /\ (~forgot'[s] => ~forgot[s])
  BY Zenon DEF Patient
<1>3. Len(made'[s]) >= Len(made[s]) /\ (hook'[s].at # "idle" => hook[s].at # "idle")
  BY Zenon DEF Patient
<1> SUFFICES ASSUME ~forgot'[s]
             PROVE  /\ \A i \in DOMAIN shown'[s] : i > 1 => shown'[s][i].calls >= MinCallsBetween
                    /\ hook'[s].at # "idle" /\ shown'[s] # <<>> => Len(made'[s]) >= MinCallsBetween
  BY Zenon DEF Waits
<1>4. \A i \in DOMAIN shown[s] : i > 1 => shown[s][i].calls >= MinCallsBetween
  BY <1>2, Zenon DEF Waits
<1>5. hook[s].at # "idle" /\ shown[s] # <<>> => Len(made[s]) >= MinCallsBetween
  BY <1>2, Zenon DEF Waits
<1>6. hook'[s].at # "idle" /\ shown'[s] # <<>> => Len(made'[s]) >= MinCallsBetween
  <2> SUFFICES ASSUME hook'[s].at # "idle", shown'[s] # <<>> PROVE Len(made'[s]) >= MinCallsBetween
    OBVIOUS
  <2>1. Len(made[s]) >= MinCallsBetween
    BY <1>2, <1>3, <1>5, Zenon
  <2> QED
    BY <1>1, <1>3, <2>1
<1> QED
  BY <1>2, <1>4, <1>6, Zenon

LEMMA WaitingInit == Init => Waiting
<1> SUFFICES ASSUME Init PROVE Waiting
  OBVIOUS
<1>1. DOMAIN <<>> = {}
  BY EmptySeq
<1>2. \A s \in Sessions : Waits(s)
  BY <1>1 DEF Init, Waits
<1> QED
  BY <1>2, IInvInit, TracingInit DEF Waiting

LEMMA WaitingStep ==
    ASSUME OneLine PROVE Waiting /\ [Next]_vars => Waiting'
<1> SUFFICES ASSUME Waiting, [Next]_vars PROVE Waiting'
  OBVIOUS
<1>1. IInv /\ Tracing /\ IInv' /\ Tracing' /\ TypeOK /\ TypeOK'
  BY IInvStep, TracingStep DEF Waiting, IInv
<1>2. ASSUME \A s \in Sessions : Patient(s) PROVE Waiting'
  <2>1. ASSUME NEW s \in Sessions PROVE Waits(s)'
    BY <1>1, <1>2, WaitsOn DEF Waiting
  <2> QED
    BY <1>1, <2>1 DEF Waiting
<1>3. ASSUME NEW s \in Sessions, \A u \in Sessions \ {s} : Patient(u), Waits(s)'
      PROVE  Waiting'
  <2>1. ASSUME NEW u \in Sessions \ {s} PROVE Waits(u)'
    BY <1>1, <1>3, <2>1, WaitsOn DEF Waiting
  <2>2. ASSUME NEW u \in Sessions PROVE Waits(u)'
    BY <1>3, <2>1
  <2> QED
    BY <1>1, <2>2 DEF Waiting
<1>4. \A s \in Sessions : Len(made[s]) \in Nat
  BY <1>1 DEF TypeOK
<1>5. ASSUME NEW s \in Sessions, record(s) PROVE Waiting'
  <2>1. PICK c \in CallKinds : made' = [made EXCEPT ![s] = Append(@, c)]
    BY <1>5 DEF record
  <2>2. shown' = shown /\ forgot' = forgot /\ hook' = hook
    BY <1>5 DEF record
  <2>3. \A u \in Sessions : Len(made'[u]) >= Len(made[u])
    BY <1>1, <2>1 DEF TypeOK
  <2> QED
    BY <1>2, <2>2, <2>3 DEF Patient
<1>6. ASSUME NEW s \in Sessions, suggest(s) PROVE Waiting'
  <2>1. PICK t \in inspect(Mine(s), ToSet(said[s])) :
           hook' = [hook EXCEPT ![s] = [at |-> "remember", target |-> t]]
    BY <1>6 DEF suggest
  <2>2. made' = made /\ shown' = shown /\ forgot' = forgot /\ ~ended[s]
    BY <1>6 DEF suggest
  <2>3. \A u \in Sessions \ {s} : Patient(u)
    BY <1>1, <1>4, <2>1, <2>2 DEF Patient, TypeOK
  <2>4. ASSUME ~forgot[s], shown[s] # <<>> PROVE Len(made[s]) >= MinCallsBetween
    <3>1. said[s] \in Seq(STRING) /\ 1 \in DOMAIN shown[s]
      BY <1>1, <2>4 DEF TypeOK
    <3>2. shown[s][1].target \in ToSet(said[s])
      BY <1>1, <2>2, <2>4, <3>1 DEF IInv, RememberedFirst
    <3>3. said[s] # <<>>
      BY <3>1, <3>2, EmptySeq DEF ToSet
    <3> QED
      BY <1>1, <3>1, <3>3, SuggestHasGrounds
  <2>5. Waits(s)'
    BY <2>2, <2>4 DEF Waiting, Waits
  <2> QED
    BY <1>3, <2>3, <2>5
<1>7. ASSUME NEW s \in Sessions, Remember(s) PROVE Waiting'
  <2>1. /\ hook' = [hook EXCEPT ![s].at = "print"] /\ hook[s].at = "remember"
        /\ made' = made /\ shown' = shown
        /\ forgot' = forgot \/ forgot' = [forgot EXCEPT ![s] = TRUE]
    BY <1>7 DEF Remember
  <2>2. \A u \in Sessions : forgot[u] => forgot'[u]
    BY <1>1, <2>1 DEF TypeOK
  <2>3. \A u \in Sessions : hook'[u].at # "idle" => hook[u].at # "idle"
    BY <1>1, <2>1 DEF TypeOK
  <2> QED
    BY <1>2, <1>4, <2>1, <2>2, <2>3 DEF Patient
<1>8. ASSUME NEW s \in Sessions, Say(s) PROVE Waiting'
  <2> DEFINE advice == [target |-> hook[s].target, calls |-> Len(made[s])]
  <2>1. /\ hook[s].at = "print" /\ hook' = [hook EXCEPT ![s] = Idle]
        /\ shown' = [shown EXCEPT ![s] = Append(@, advice)]
        /\ made' = made /\ forgot' = forgot
    BY <1>8 DEF Say
  <2>2. advice.calls = Len(made[s])
    OBVIOUS
  <2> HIDE DEF advice
  <2>3. \A u \in Sessions \ {s} : Patient(u)
    BY <1>1, <1>4, <2>1 DEF Patient, TypeOK
  <2>4. shown[s] \in Seq([target : DOMAIN ReadsBack, calls : Nat])
        /\ shown'[s] = Append(shown[s], advice) /\ hook'[s] = Idle
    BY <1>1, <2>1 DEF TypeOK
  <2>5. ASSUME NEW i \in DOMAIN shown'[s]
        PROVE  \/ i \in DOMAIN shown[s] /\ shown'[s][i] = shown[s][i]
               \/ shown'[s][i] = advice /\ (i > 1 => shown[s] # <<>>)
    BY <2>4
  <2>6. ASSUME ~forgot[s], NEW i \in DOMAIN shown'[s], i > 1
        PROVE  shown'[s][i].calls >= MinCallsBetween
    BY <2>1, <2>2, <2>5, <2>6 DEF Waiting, Waits
  <2>7. Waits(s)'
    BY <2>1, <2>4, <2>6 DEF Waits, Idle
  <2> QED
    BY <1>3, <2>3, <2>7
<1>9. ASSUME NEW s \in Sessions, Kill(s) \/ summarize(s) \/ Resume(s) PROVE Waiting'
  <2>1. /\ hook' = hook \/ hook' = [hook EXCEPT ![s] = Idle]
        /\ made' = made /\ shown' = shown
        /\ forgot' = forgot \/ forgot' = [forgot EXCEPT ![s] = TRUE]
    BY <1>9 DEF Kill, summarize, Resume
  <2>2. \A u \in Sessions : forgot[u] => forgot'[u]
    BY <1>1, <2>1 DEF TypeOK
  <2>3. \A u \in Sessions : hook'[u].at # "idle" => hook[u].at # "idle"
    BY <1>1, <2>1 DEF TypeOK, Idle
  <2> QED
    BY <1>2, <1>4, <2>1, <2>2, <2>3 DEF Patient
<1>10. CASE Midnight \/ UNCHANGED vars
  <2>1. hook' = hook /\ made' = made /\ shown' = shown /\ forgot' = forgot
    BY <1>10 DEF Midnight, vars
  <2> QED
    BY <1>2, <1>4, <2>1 DEF Patient
<1> QED
  BY <1>5, <1>6, <1>7, <1>8, <1>9, <1>10 DEF Next, HookStep

\* As long as a session's said-list is not lost, its second piece of advice and each
\* after it waited for MinCallsBetween calls (watch.rs inspect's rate limit), though
\* the calls are counted in what could be read back and some of them were lost.
THEOREM LaterAdviceWaited ==
    ASSUME OneLine PROVE Spec => []SecondAdviceWaits
<1>1. Waiting => SecondAdviceWaits
  BY DEF Waiting, Waits, SecondAdviceWaits
<1> QED
  BY <1>1, WaitingInit, WaitingStep, PTL DEF Spec

=============================================================================
