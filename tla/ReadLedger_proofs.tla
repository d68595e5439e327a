------------------------- MODULE ReadLedger_proofs --------------------------
(***************************************************************************)
(* Proofs about ReadLedger, for every set of files, contents, callers,     *)
(* ledgers and concurrent calls, and every bound on the clock.             *)
(***************************************************************************)
EXTENDS ReadLedger, TLAPS

LEMMA EmptyLedgerType == EmptyLedger \in Ledger
<1>1. NoEntry \in Entry
  BY ConstantsAssumption DEF NoEntry, Entry, Stamps, ConstantsAssumption
<1>2. [f \in Files |-> NoEntry] \in [Files -> Entry]
  BY <1>1
<1> QED
  BY <1>2 DEF EmptyLedger, Ledger

\* deliver keeps the shape of a ledger.
LEMMA DeliverType ==
    ASSUME NEW led \in Ledger, NEW f \in Files, NEW sent \in SUBSET Lines,
           NEW h \in Contents, NEW now \in Stamps
    PROVE  Deliver(led, f, sent, h, now) \in Ledger
BY DEF Deliver, Ledger, Entry

\* mark_compacted keeps the shape of a ledger.
LEMMA MarkType ==
    ASSUME NEW led \in Ledger, NEW now \in Stamps
    PROVE  MarkCompacted(led, now) \in Ledger
BY DEF MarkCompacted, Ledger

\* The ledger file a running call works on.
LEMMA StoreType ==
    ASSUME CallShape, NEW p \in Calls, pc[p] # "idle"
    PROVE  Store(p) \in Stores
BY ConstantsAssumption DEF CallShape, Store, Call, ConstantsAssumption

LEMMA WantedType ==
    ASSUME NEW p \in Calls
    PROVE  /\ Wanted(p) \subseteq Lines
           /\ Missing(p) \subseteq Lines
BY DEF Wanted, Want, Missing

-----------------------------------------------------------------------------
Typed == TypeOK /\ CallShape

LEMMA TypedInit == Init => Typed
<1> SUFFICES ASSUME Init PROVE Typed
  OBVIOUS
<1>1. TypeOK
  BY EmptyLedgerType, ConstantsAssumption
  DEF Init, TypeOK, Steps, Stamps, ConstantsAssumption
<1>2. CallShape
  BY DEF Init, CallShape
<1> QED
  BY <1>1, <1>2 DEF Typed

\* A process that exits leaves well-typed memory behind.
LEMMA ExitTyped ==
    ASSUME Typed, NEW p \in Calls, Exit(p), UNCHANGED outside
    PROVE  Typed'
<1>1. TypeOK'
  BY EmptyLedgerType DEF Typed, TypeOK, Exit, Goto, outside, Steps
<1>2. CallShape'
  BY DEF Typed, TypeOK, CallShape, Exit, Goto
<1> QED
  BY <1>1, <1>2 DEF Typed

LEMMA TypedStep == Typed /\ [Next]_vars => Typed'
<1> SUFFICES ASSUME Typed, [Next]_vars PROVE Typed'
  OBVIOUS
<1> USE DEF Typed
<1>1. ASSUME NEW p \in Calls, NEW a \in Agents, NEW f \in Files,
             NEW range \in Ranges, NEW mode \in {"read", "full"},
             StartRead(p, a, f, range, mode)
      PROVE  Typed'
  <2> DEFINE c == [mode |-> mode, agent |-> a, file |-> f, range |-> range]
  <2>1. c \in Call /\ c.mode # "mark"
    BY DEF Call
  <2> HIDE DEF c
  <2>2. /\ call' = [call EXCEPT ![p] = c]
        /\ pc' = [pc EXCEPT ![p] = "read"]
        /\ UNCHANGED <<text, hash, copy, file, outside>>
    BY <1>1 DEF StartRead, Goto, c
  <2>3. TypeOK'
    BY <2>1, <2>2 DEF TypeOK, Steps, outside
  <2>4. CallShape'
    BY <2>1, <2>2 DEF TypeOK, CallShape, outside
  <2> QED
    BY <2>3, <2>4
<1>2. ASSUME NEW p \in Calls, NEW a \in Agents, StartCompaction(p, a)
      PROVE  Typed'
  <2> DEFINE c == [mode |-> "mark", agent |-> a]
  <2>1. c \in Call /\ c.mode = "mark"
    BY DEF Call
  <2> HIDE DEF c
  <2>2. /\ call' = [call EXCEPT ![p] = c]
        /\ pc' = [pc EXCEPT ![p] = "load"]
        /\ phase' = [phase EXCEPT ![a] = "compacting"]
        /\ UNCHANGED <<disk, ledger, tmp, text, hash, copy, file, clock,
                       context, delivered>>
    BY <1>2 DEF StartCompaction, Goto, c
  <2>3. TypeOK'
    BY <2>1, <2>2 DEF TypeOK, Steps
  <2>4. CallShape'
    BY <2>1, <2>2 DEF TypeOK, CallShape
  <2> QED
    BY <2>3, <2>4
<1>3. ASSUME NEW a \in Agents, FinishCompaction(a)
      PROVE  Typed'
  <2>1. TypeOK'
    BY <1>3 DEF TypeOK, FinishCompaction
  <2>2. CallShape'
    BY <1>3 DEF CallShape, FinishCompaction
  <2> QED
    BY <2>1, <2>2
<1>4. ASSUME NEW f \in Files, NEW c \in Contents \cup {None}, Edit(f, c)
      PROVE  Typed'
  <2>1. TypeOK'
    BY <1>4 DEF TypeOK, Edit
  <2>2. CallShape'
    BY <1>4 DEF CallShape, Edit
  <2> QED
    BY <2>1, <2>2
<1>5. ASSUME Tick
      PROVE  Typed'
  <2>1. TypeOK'
    BY <1>5, ConstantsAssumption DEF TypeOK, Tick, Stamps, ConstantsAssumption
  <2>2. CallShape'
    BY <1>5 DEF CallShape, Tick
  <2> QED
    BY <2>1, <2>2
<1>6. ASSUME NEW p \in Calls, Abort(p)
      PROVE  Typed'
  BY <1>6, ExitTyped DEF Abort
<1>7. ASSUME NEW p \in Calls, ReadText(p)
      PROVE  Typed'
  <2>1. CASE Exit(p) /\ UNCHANGED outside
    BY <2>1, ExitTyped
  <2>2. CASE ~(Exit(p) /\ UNCHANGED outside)
    <3>1. /\ call[p].file \in Files
          /\ disk[call[p].file] \in Contents
          /\ text' = [text EXCEPT ![p] = disk[call[p].file]]
          /\ pc[p] = "read"
          /\ pc' = [pc EXCEPT ![p] = "hash"]
          /\ UNCHANGED <<call, hash, copy, file, outside>>
      BY <1>7, <2>2 DEF ReadText, Goto, TypeOK, CallShape, Call
    <3>2. TypeOK'
      BY <3>1 DEF TypeOK, Steps, outside
    <3>3. CallShape'
      BY <3>1 DEF TypeOK, CallShape
    <3> QED
      BY <3>2, <3>3
  <2> QED
    BY <2>1, <2>2
<1>8. ASSUME NEW p \in Calls, HashFile(p)
      PROVE  Typed'
  <2>1. CASE Exit(p) /\ UNCHANGED outside
    BY <2>1, ExitTyped
  <2>2. CASE ~(Exit(p) /\ UNCHANGED outside)
    <3>1. /\ call[p].file \in Files
          /\ disk[call[p].file] \in Contents
          /\ hash' = [hash EXCEPT ![p] = disk[call[p].file]]
          /\ pc[p] = "hash"
          /\ pc' = [pc EXCEPT ![p] = "load"]
          /\ UNCHANGED <<call, text, copy, file, outside>>
      BY <1>8, <2>2 DEF HashFile, Goto, TypeOK, CallShape, Call
    <3>2. TypeOK'
      BY <3>1 DEF TypeOK, Steps, outside
    <3>3. CallShape'
      BY <3>1 DEF TypeOK, CallShape
    <3> QED
      BY <3>2, <3>3
  <2> QED
    BY <2>1, <2>2
<1>9. ASSUME NEW p \in Calls, Load(p)
      PROVE  Typed'
  <2>1. Store(p) \in Stores
    BY <1>9, StoreType DEF Load
  <2>2. TypeOK'
    BY <1>9, <2>1 DEF TypeOK, Load, Goto, Steps, outside
  <2>3. CallShape'
    BY <1>9 DEF TypeOK, CallShape, Load, Goto, outside
  <2> QED
    BY <2>2, <2>3
<1>10. ASSUME NEW p \in Calls, Mark(p)
       PROVE  Typed'
  <2>1. MarkCompacted(copy[p], clock) \in Ledger
    BY MarkType DEF TypeOK
  <2>2. TypeOK'
    BY <1>10, <2>1 DEF TypeOK, Mark, Goto, Steps, outside
  <2>3. CallShape'
    BY <1>10 DEF TypeOK, CallShape, Mark, Goto, outside
  <2> QED
    BY <2>2, <2>3
<1>11. ASSUME NEW p \in Calls, Emit(p)
       PROVE  Typed'
  <2>1. CASE Exit(p) /\ UNCHANGED outside
    BY <2>1, ExitTyped
  <2>2. CASE ~(Exit(p) /\ UNCHANGED outside)
    <3> DEFINE printed == {<<call[p].file, text[p], n>> :
                             n \in Missing(p) \cap 1..Length[text[p]]}
               led == Deliver(copy[p], call[p].file, Missing(p), hash[p], clock)
    <3>1. /\ pc[p] = "emit"
          /\ pc' = [pc EXCEPT ![p] = "open"]
          /\ copy' = [copy EXCEPT ![p] = led]
          /\ context' = [context EXCEPT ![call[p].agent] = @ \cup printed]
          /\ delivered' = [delivered EXCEPT ![call[p].agent] = @ \cup printed]
          /\ UNCHANGED <<disk, ledger, tmp, call, text, hash, file, clock,
                         phase>>
      BY <1>11, <2>2 DEF Emit, Goto
    <3>2. /\ call[p].file \in Files
          /\ text[p] \in Contents
          /\ hash[p] \in Contents
      BY <3>1 DEF CallShape, Call
    <3>3. printed \subseteq Files \X Contents \X Lines
      BY <3>2, WantedType
    <3>4. led \in Ledger
      BY <3>2, WantedType, DeliverType DEF TypeOK
    <3> HIDE DEF printed, led
    <3>5. TypeOK'
      BY <3>1, <3>3, <3>4 DEF TypeOK, Steps
    <3>6. CallShape'
      BY <3>1 DEF TypeOK, CallShape
    <3> QED
      BY <3>5, <3>6
  <2> QED
    BY <2>1, <2>2
<1>12. ASSUME NEW p \in Calls, OpenTmp(p)
       PROVE  Typed'
  <2>1. TypeOK'
    BY <1>12, EmptyLedgerType DEF TypeOK, OpenTmp, Goto, Steps
  <2>2. CallShape'
    BY <1>12 DEF TypeOK, CallShape, OpenTmp, Goto
  <2> QED
    BY <2>1, <2>2
<1>13. ASSUME NEW p \in Calls, WriteTmp(p)
       PROVE  Typed'
  <2>1. /\ ledger' \in [Stores -> Ledger]
        /\ tmp' \in [Stores -> Ledger \cup {Absent}]
    BY <1>13, EmptyLedgerType DEF TypeOK, WriteTmp, WriteOver
  <2>2. TypeOK'
    BY <1>13, <2>1 DEF TypeOK, WriteTmp, Goto, Steps
  <2>3. CallShape'
    BY <1>13 DEF TypeOK, CallShape, WriteTmp, Goto
  <2> QED
    BY <2>2, <2>3
<1>14. ASSUME NEW p \in Calls, Rename(p)
       PROVE  Typed'
  <2>1. Store(p) \in Stores
    BY <1>14, StoreType DEF Rename
  <2>2. /\ ledger' \in [Stores -> Ledger]
        /\ tmp' \in [Stores -> Ledger \cup {Absent}]
        /\ file' \in [Calls -> {"closed", "tmp", "ledger", "unlinked"}]
    BY <1>14, <2>1 DEF TypeOK, Rename
  <2>3. TypeOK'
    BY <1>14, <2>2, EmptyLedgerType DEF TypeOK, Rename, Goto, Steps
  <2>4. CallShape'
    BY <1>14 DEF TypeOK, CallShape, Rename, Goto
  <2> QED
    BY <2>3, <2>4
<1>15. CASE UNCHANGED vars
  <2>1. TypeOK'
    BY <1>15 DEF TypeOK, vars
  <2>2. CallShape'
    BY <1>15 DEF CallShape, vars
  <2> QED
    BY <2>1, <2>2
<1> QED
  BY <1>1, <1>2, <1>3, <1>4, <1>5, <1>6, <1>7, <1>8, <1>9, <1>10, <1>11,
     <1>12, <1>13, <1>14, <1>15
  DEF Next, Environment, Step

\* Every variable keeps its type in every behaviour.
THEOREM TypeCorrect == Spec => []TypeOK
<1>1. Spec => []Typed
  BY TypedInit, TypedStep, PTL DEF Spec
<1> QED
  BY <1>1, PTL DEF Typed

-----------------------------------------------------------------------------
(***************************************************************************)
(* TextIsHashed: with no edit between its two reads, a call prints the     *)
(* text it hashed.                                                         *)
(***************************************************************************)
LEMMA TextIsHashedStep ==
    ASSUME "edit_in_call" \notin Env
    PROVE  Typed /\ TextIsHashed /\ [Next]_vars => TextIsHashed'
<1> SUFFICES ASSUME Typed, TextIsHashed, [Next]_vars PROVE TextIsHashed'
  OBVIOUS
<1> USE DEF Typed, TypeOK, TextIsHashed, Goto
<1>1. ASSUME NEW p \in Calls, Exit(p), UNCHANGED outside PROVE TextIsHashed'
  BY <1>1 DEF Exit, outside
<1>2. ASSUME NEW p \in Calls, NEW a \in Agents, NEW f \in Files,
             NEW range \in Ranges, NEW mode \in {"read", "full"},
             StartRead(p, a, f, range, mode)
      PROVE  TextIsHashed'
  BY <1>2 DEF StartRead, outside
<1>3. ASSUME NEW p \in Calls, NEW a \in Agents, StartCompaction(p, a)
      PROVE  TextIsHashed'
  BY <1>3 DEF StartCompaction
<1>4. ASSUME NEW f \in Files, NEW c \in Contents \cup {None}, Edit(f, c)
      PROVE  TextIsHashed'
  BY <1>4 DEF Edit
<1>5. ASSUME NEW p \in Calls, Abort(p) PROVE TextIsHashed'
  BY <1>1, <1>5 DEF Abort
<1>6. ASSUME NEW p \in Calls, ReadText(p) PROVE TextIsHashed'
  <2>1. CASE Exit(p) /\ UNCHANGED outside
    BY <2>1, <1>1
  <2>2. CASE ~(Exit(p) /\ UNCHANGED outside)
    BY <2>2, <1>6 DEF ReadText, outside
  <2> QED
    BY <2>1, <2>2
<1>7. ASSUME NEW p \in Calls, HashFile(p) PROVE TextIsHashed'
  <2>1. CASE Exit(p) /\ UNCHANGED outside
    BY <2>1, <1>1
  <2>2. CASE ~(Exit(p) /\ UNCHANGED outside)
    BY <2>2, <1>7 DEF HashFile, outside
  <2> QED
    BY <2>1, <2>2
<1>8. ASSUME NEW p \in Calls, Load(p) PROVE TextIsHashed'
  BY <1>8 DEF Load, outside
<1>9. ASSUME NEW p \in Calls, Emit(p) PROVE TextIsHashed'
  <2>1. CASE Exit(p) /\ UNCHANGED outside
    BY <2>1, <1>1
  <2>2. CASE ~(Exit(p) /\ UNCHANGED outside)
    BY <2>2, <1>9 DEF Emit
  <2> QED
    BY <2>1, <2>2
<1>10. ASSUME NEW p \in Calls, Rename(p) PROVE TextIsHashed'
  BY <1>10 DEF Rename
<1>11. ASSUME NEW p \in Calls, Mark(p) \/ OpenTmp(p) \/ WriteTmp(p)
       PROVE  TextIsHashed'
  BY <1>11 DEF Mark, OpenTmp, WriteTmp, outside
<1>12. CASE Tick \/ UNCHANGED vars \/ \E a \in Agents : FinishCompaction(a)
  BY <1>12 DEF Tick, vars, FinishCompaction
<1> QED
  BY <1>2, <1>3, <1>4, <1>5, <1>6, <1>7, <1>8, <1>9, <1>10, <1>11, <1>12
  DEF Next, Environment, Step

-----------------------------------------------------------------------------
(***************************************************************************)
(* LedgersVouch: what the operations on ledgers preserve.                  *)
(***************************************************************************)
LEMMA EmptyVouches ==
    ASSUME NEW D PROVE Vouches(EmptyLedger, D)
BY ConstantsAssumption
DEF Vouches, EmptyLedger, NoEntry, ConstantsAssumption

LEMMA VouchesMore ==
    ASSUME NEW led, NEW D, NEW E, D \subseteq E, Vouches(led, D)
    PROVE  Vouches(led, E)
BY DEF Vouches

LEMMA MarkVouches ==
    ASSUME NEW led \in Ledger, NEW now, NEW D, Vouches(led, D)
    PROVE  Vouches(MarkCompacted(led, now), D)
BY DEF MarkCompacted, Vouches, Ledger

\* deliver vouches for what it sent and, with the same hash, for what the
\* entry held; a changed hash clears the entry first.
LEMMA DeliverVouches ==
    ASSUME NEW led \in Ledger, NEW f \in Files, NEW sent, NEW h \in Contents,
           NEW now, NEW D, Vouches(led, D),
           \A n \in sent \cap 1..Length[h] : <<f, h, n>> \in D
    PROVE  Vouches(Deliver(led, f, sent, h, now), D)
<1> DEFINE new == Deliver(led, f, sent, h, now)
           kept == IF led.files[f].hash = h THEN led.files[f].lines ELSE {}
<1>1. /\ new.files[f].hash = h
      /\ new.files[f].lines = kept \cup sent
      /\ \A g \in Files \ {f} : new.files[g] = led.files[g]
  BY DEF Deliver, Ledger
<1>2. \A n \in kept \cap 1..Length[h] : <<f, h, n>> \in D
  BY DEF Vouches
<1> HIDE DEF new, kept
<1>3. Vouches(new, D)
  BY <1>1, <1>2 DEF Vouches
<1> QED
  BY <1>3 DEF new

\* Nothing printed is ever taken back.
LEMMA DeliveredViaGrows ==
    ASSUME \A a \in Agents : delivered[a] \subseteq delivered'[a]
    PROVE  \A s \in Stores : DeliveredVia(s) \subseteq DeliveredVia(s)'
BY DEF DeliveredVia

\* A step that leaves ledgers and temporary files alone preserves
\* LedgersVouch if every call it leaves running vouches.
LEMMA QuietStep ==
    ASSUME LedgersVouch, UNCHANGED <<ledger, tmp>>,
           \A a \in Agents : delivered[a] \subseteq delivered'[a],
           \A p \in Calls : pc'[p] # "idle" =>
               Vouches(copy'[p], DeliveredVia(Store(p))')
    PROVE  LedgersVouch'
BY DeliveredViaGrows, VouchesMore DEF LedgersVouch

\* A call that a step leaves running, in its store and with its copy.
Keeps(p) ==
    /\ pc[p] # "idle"
    /\ UNCHANGED <<call[p], copy[p]>>

LEMMA KeptVouches ==
    ASSUME Typed, LedgersVouch, NEW p \in Calls, Keeps(p),
           \A a \in Agents : delivered[a] \subseteq delivered'[a]
    PROVE  Vouches(copy'[p], DeliveredVia(Store(p))')
<1>1. Store(p) \in Stores /\ Store(p)' = Store(p)
  BY StoreType DEF Typed, Keeps, Store
<1>2. DeliveredVia(Store(p)) \subseteq DeliveredVia(Store(p))'
  BY <1>1, DeliveredViaGrows DEF DeliveredVia
<1>3. Vouches(copy[p], DeliveredVia(Store(p)))
  BY DEF Keeps, LedgersVouch
<1> QED
  BY <1>2, <1>3, VouchesMore DEF Keeps

LEMMA LedgersVouchStep ==
    Typed /\ TextIsHashed /\ LedgersVouch /\ [Next]_vars => LedgersVouch'
<1> SUFFICES ASSUME Typed, TextIsHashed, LedgersVouch, [Next]_vars
             PROVE  LedgersVouch'
  OBVIOUS
<1>1. ASSUME NEW p \in Calls, Exit(p), UNCHANGED outside PROVE LedgersVouch'
  <2>1. \A q \in Calls : pc'[q] # "idle" => Keeps(q)
    BY <1>1 DEF Exit, Goto, Keeps, Typed, TypeOK
  <2> QED
    BY <1>1, <2>1, KeptVouches, QuietStep DEF outside
<1>2. ASSUME NEW p \in Calls, NEW a \in Agents, NEW f \in Files,
             NEW range \in Ranges, NEW mode \in {"read", "full"},
             StartRead(p, a, f, range, mode)
      PROVE  LedgersVouch'
  <2>1. \A q \in Calls \ {p} : pc'[q] # "idle" => Keeps(q)
    BY <1>2 DEF StartRead, Goto, Keeps, Typed, TypeOK
  <2>2. copy'[p] = EmptyLedger
    BY <1>2 DEF StartRead, Typed, CallShape
  <2> QED
    BY <1>2, <2>1, <2>2, KeptVouches, QuietStep, EmptyVouches
    DEF StartRead, outside
<1>3. ASSUME NEW p \in Calls, NEW a \in Agents, StartCompaction(p, a)
      PROVE  LedgersVouch'
  <2>1. \A q \in Calls \ {p} : pc'[q] # "idle" => Keeps(q)
    BY <1>3 DEF StartCompaction, Goto, Keeps, Typed, TypeOK
  <2>2. copy'[p] = EmptyLedger
    BY <1>3 DEF StartCompaction, Typed, CallShape
  <2> QED
    BY <1>3, <2>1, <2>2, KeptVouches, QuietStep, EmptyVouches
    DEF StartCompaction
<1>4. CASE \/ \E a \in Agents : FinishCompaction(a)
           \/ \E f \in Files, c \in Contents \cup {None} : Edit(f, c)
           \/ Tick
           \/ UNCHANGED vars
  <2>1. UNCHANGED <<ledger, tmp, delivered, pc, call, copy>>
    BY <1>4 DEF FinishCompaction, Edit, Tick, vars
  <2> QED
    BY <2>1, KeptVouches, QuietStep DEF Keeps
<1>5. ASSUME NEW p \in Calls, Abort(p) PROVE LedgersVouch'
  BY <1>1, <1>5 DEF Abort
<1>6. ASSUME NEW p \in Calls, ReadText(p) PROVE LedgersVouch'
  <2>1. CASE Exit(p) /\ UNCHANGED outside
    BY <2>1, <1>1
  <2>2. CASE ~(Exit(p) /\ UNCHANGED outside)
    <3>1. \A q \in Calls : pc'[q] # "idle" => Keeps(q)
      BY <2>2, <1>6 DEF ReadText, Goto, Keeps, Typed, TypeOK
    <3> QED
      BY <2>2, <1>6, <3>1, KeptVouches, QuietStep DEF ReadText, outside
  <2> QED
    BY <2>1, <2>2
<1>7. ASSUME NEW p \in Calls, HashFile(p) PROVE LedgersVouch'
  <2>1. CASE Exit(p) /\ UNCHANGED outside
    BY <2>1, <1>1
  <2>2. CASE ~(Exit(p) /\ UNCHANGED outside)
    <3>1. \A q \in Calls : pc'[q] # "idle" => Keeps(q)
      BY <2>2, <1>7 DEF HashFile, Goto, Keeps, Typed, TypeOK
    <3> QED
      BY <2>2, <1>7, <3>1, KeptVouches, QuietStep DEF HashFile, outside
  <2> QED
    BY <2>1, <2>2
<1>8. ASSUME NEW p \in Calls, Load(p) PROVE LedgersVouch'
  <2>1. \A q \in Calls \ {p} : pc'[q] # "idle" => Keeps(q)
    BY <1>8 DEF Load, Goto, Keeps, Typed, TypeOK
  <2>2. Store(p) \in Stores /\ copy'[p] = ledger[Store(p)]
    BY <1>8, StoreType DEF Load, Typed, TypeOK
  <2>3. /\ Vouches(ledger[Store(p)], DeliveredVia(Store(p)))
        /\ DeliveredVia(Store(p))' = DeliveredVia(Store(p))
    BY <1>8, <2>2 DEF Load, outside, LedgersVouch, DeliveredVia, Store
  <2> QED
    BY <1>8, <2>1, <2>2, <2>3, KeptVouches, QuietStep DEF Load, outside
<1>9. ASSUME NEW p \in Calls, Mark(p) PROVE LedgersVouch'
  <2>1. \A q \in Calls \ {p} : pc'[q] # "idle" => Keeps(q)
    BY <1>9 DEF Mark, Goto, Keeps, Typed, TypeOK
  <2>2. /\ Vouches(copy[p], DeliveredVia(Store(p)))
        /\ DeliveredVia(Store(p))' = DeliveredVia(Store(p))
        /\ copy'[p] = MarkCompacted(copy[p], clock)
    BY <1>9 DEF Mark, outside, LedgersVouch, DeliveredVia, Store, Typed, TypeOK
  <2>3. Vouches(copy'[p], DeliveredVia(Store(p))')
    BY <2>2, MarkVouches DEF Typed, TypeOK
  <2> QED
    BY <1>9, <2>1, <2>3, KeptVouches, QuietStep DEF Mark, outside
<1>10. ASSUME NEW p \in Calls, Emit(p) PROVE LedgersVouch'
  <2>1. CASE Exit(p) /\ UNCHANGED outside
    BY <2>1, <1>1
  <2>2. CASE ~(Exit(p) /\ UNCHANGED outside)
    <3> DEFINE a == call[p].agent
               f == call[p].file
               h == hash[p]
               printed == {<<f, text[p], n>> :
                             n \in Missing(p) \cap 1..Length[text[p]]}
    <3>1. /\ pc[p] = "emit"
          /\ pc' = [pc EXCEPT ![p] = "open"]
          /\ copy' = [copy EXCEPT ![p] =
                Deliver(@, f, Missing(p), h, clock)]
          /\ delivered' = [delivered EXCEPT ![a] = @ \cup printed]
          /\ UNCHANGED <<ledger, tmp, call>>
      BY <1>10, <2>2 DEF Emit, Goto
    <3>2. /\ a \in Agents /\ f \in Files /\ h \in Contents
          /\ text[p] = h
          /\ Store(p) = StoreOf[a]
      BY <3>1 DEF Typed, CallShape, Call, TextIsHashed, Store
    <3>3. \A b \in Agents : delivered[b] \subseteq delivered'[b]
      BY <3>1 DEF Typed, TypeOK
    <3>4. \A n \in Missing(p) \cap 1..Length[h] :
             <<f, h, n>> \in DeliveredVia(Store(p))'
      <4>1. delivered'[a] \subseteq DeliveredVia(StoreOf[a])'
        BY <3>1, <3>2 DEF DeliveredVia
      <4>2. printed \subseteq delivered'[a]
        BY <3>1, <3>2 DEF Typed, TypeOK
      <4>3. Store(p)' = StoreOf[a]
        BY <3>1, <3>2 DEF Store
      <4>4. \A n \in Missing(p) \cap 1..Length[h] : <<f, h, n>> \in printed
        BY <3>2
      <4> QED
        BY <4>1, <4>2, <4>3, <4>4, <3>2 DEF DeliveredVia
    <3>5. Vouches(copy[p], DeliveredVia(Store(p))')
      <4>1. Store(p) \in Stores /\ Store(p)' = Store(p)
        BY <3>1, StoreType DEF Typed, Store
      <4>2. Vouches(copy[p], DeliveredVia(Store(p)))
        BY <3>1 DEF LedgersVouch
      <4>3. DeliveredVia(Store(p)) \subseteq DeliveredVia(Store(p))'
        BY <3>3, <4>1, DeliveredViaGrows DEF DeliveredVia
      <4> QED
        BY <4>2, <4>3, VouchesMore
    <3>6. Vouches(copy'[p], DeliveredVia(Store(p))')
      <4>1. copy[p] \in Ledger /\ copy'[p] = Deliver(copy[p], f, Missing(p), h, clock)
        BY <3>1 DEF Typed, TypeOK
      <4> HIDE DEF f, h
      <4> QED
        BY <4>1, <3>2, <3>4, <3>5, DeliverVouches
    <3>7. \A q \in Calls \ {p} : pc'[q] # "idle" => Keeps(q)
      BY <3>1 DEF Keeps, Typed, TypeOK
    <3> QED
      BY <3>1, <3>3, <3>6, <3>7, KeptVouches, QuietStep
  <2> QED
    BY <2>1, <2>2
<1>11. ASSUME NEW p \in Calls, OpenTmp(p) PROVE LedgersVouch'
  <2>1. \A q \in Calls : pc'[q] # "idle" => Keeps(q)
    BY <1>11 DEF OpenTmp, Goto, Keeps, Typed, TypeOK
  <2>2. /\ UNCHANGED <<ledger, delivered>>
        /\ tmp' = [tmp EXCEPT ![Store(p)] = EmptyLedger]
    BY <1>11 DEF OpenTmp
  <2>3. \A q \in Calls : pc'[q] # "idle" =>
          Vouches(copy'[q], DeliveredVia(Store(q))')
    BY <2>1, <2>2, KeptVouches
  <2>4. \A s \in Stores : DeliveredVia(s)' = DeliveredVia(s)
    BY <2>2 DEF DeliveredVia
  <2>5. \A s \in Stores : tmp'[s] # Absent => Vouches(tmp'[s], DeliveredVia(s)')
    BY <2>2, <2>4, EmptyVouches DEF LedgersVouch, Typed, TypeOK
  <2> QED
    BY <2>2, <2>3, <2>4, <2>5 DEF LedgersVouch
<1>12. ASSUME NEW p \in Calls, WriteTmp(p) PROVE LedgersVouch'
  <2>1. \A q \in Calls : pc'[q] # "idle" => Keeps(q)
    BY <1>12 DEF WriteTmp, Goto, Keeps, Typed, TypeOK
  <2>2. \A q \in Calls : pc'[q] # "idle" =>
          Vouches(copy'[q], DeliveredVia(Store(q))')
    BY <1>12, <2>1, KeptVouches DEF WriteTmp
  <2>3. \A s \in Stores : DeliveredVia(s)' = DeliveredVia(s)
    BY <1>12 DEF WriteTmp, DeliveredVia
  <2>4. /\ Vouches(copy[p], DeliveredVia(Store(p)))
        /\ \A D : Vouches(EmptyLedger, D)
    BY <1>12, EmptyVouches DEF WriteTmp, LedgersVouch
  <2>5. CASE file[p] = "tmp"
    <3>1. PICK led \in WriteOver(tmp[Store(p)], copy[p]) :
             tmp' = [tmp EXCEPT ![Store(p)] = led]
      BY <1>12, <2>5 DEF WriteTmp
    <3>2. Vouches(led, DeliveredVia(Store(p)))
      BY <2>4, <3>1 DEF WriteOver
    <3>3. UNCHANGED ledger
      BY <1>12, <2>5 DEF WriteTmp
    <3> QED
      BY <2>2, <2>3, <3>1, <3>2, <3>3 DEF LedgersVouch, Typed, TypeOK
  <2>6. CASE file[p] = "ledger"
    <3>1. PICK led \in WriteOver(ledger[Store(p)], copy[p]) :
             ledger' = [ledger EXCEPT ![Store(p)] = led]
      BY <1>12, <2>6 DEF WriteTmp
    <3>2. Vouches(led, DeliveredVia(Store(p)))
      BY <2>4, <3>1 DEF WriteOver
    <3>3. UNCHANGED tmp
      BY <1>12, <2>6 DEF WriteTmp
    <3> QED
      BY <2>2, <2>3, <3>1, <3>2, <3>3 DEF LedgersVouch, Typed, TypeOK
  <2>7. CASE UNCHANGED <<tmp, ledger>>
    BY <2>2, <2>3, <2>7 DEF LedgersVouch
  <2> QED
    BY <1>12, <2>5, <2>6, <2>7 DEF WriteTmp
<1>13. ASSUME NEW p \in Calls, Rename(p) PROVE LedgersVouch'
  <2>1. \A q \in Calls : pc'[q] # "idle" => Keeps(q)
    BY <1>13 DEF Rename, Goto, Keeps, Typed, TypeOK
  <2>2. \A q \in Calls : pc'[q] # "idle" =>
          Vouches(copy'[q], DeliveredVia(Store(q))')
    BY <1>13, <2>1, KeptVouches DEF Rename
  <2>3. \A s \in Stores : DeliveredVia(s)' = DeliveredVia(s)
    BY <1>13 DEF Rename, DeliveredVia
  <2>4. CASE UNCHANGED <<tmp, ledger>>
    BY <2>2, <2>3, <2>4 DEF LedgersVouch
  <2>5. CASE /\ tmp[Store(p)] # Absent
             /\ ledger' = [ledger EXCEPT ![Store(p)] = tmp[Store(p)]]
             /\ tmp' = [tmp EXCEPT ![Store(p)] = Absent]
    BY <2>2, <2>3, <2>5 DEF LedgersVouch, Typed, TypeOK
  <2> QED
    BY <1>13, <2>4, <2>5 DEF Rename
<1> QED
  BY <1>2, <1>3, <1>4, <1>5, <1>6, <1>7, <1>8, <1>9, <1>10, <1>11, <1>12,
     <1>13
  DEF Next, Environment, Step

LEMMA IInvInit == Init => IInv
<1> SUFFICES ASSUME Init PROVE IInv
  OBVIOUS
<1>1. Typed
  BY TypedInit
<1>2. TextIsHashed
  BY DEF Init, TextIsHashed
<1>3. LedgersVouch
  BY EmptyVouches DEF Init, LedgersVouch
<1> QED
  BY <1>1, <1>2, <1>3 DEF IInv, Typed

LEMMA IInvImplies == IInv => ClaimsWereDelivered
<1> SUFFICES ASSUME IInv, NEW p \in Calls, pc[p] = "emit"
             PROVE  Claim(p) \subseteq DeliveredVia(Store(p))
  BY DEF ClaimsWereDelivered
<1>1. /\ call[p].file \in Files
      /\ hash[p] \in Contents
      /\ Vouches(copy[p], DeliveredVia(Store(p)))
  BY DEF IInv, CallShape, Call, LedgersVouch
<1>2. \A n \in Withheld(p) :
        /\ copy[p].files[call[p].file].hash = hash[p]
        /\ n \in copy[p].files[call[p].file].lines
  BY DEF Withheld, Covered
<1> QED
  BY <1>1, <1>2 DEF Claim, Vouches

\* With no edit between the two reads of one call, every ledger that a load
\* could return or a write could publish vouches only for lines printed, with
\* that content, for a caller of its store: whatever calls run at the same
\* time, and wherever they are killed (state.rs load, deliver, save).
THEOREM LedgersVouchAlways ==
    ASSUME "edit_in_call" \notin Env
    PROVE  Spec => []IInv
<1>1. IInv /\ [Next]_vars => IInv'
  BY TypedStep, TextIsHashedStep, LedgersVouchStep DEF IInv, Typed
<1> QED
  BY IInvInit, <1>1, PTL DEF Spec

\* With no edit between the two reads of one call, a call withholds only
\* lines that were printed before under the same hash for a caller of the
\* same ledger, whatever calls run at the same time and wherever they die.
THEOREM ClaimsDelivered ==
    ASSUME "edit_in_call" \notin Env
    PROVE  Spec => []ClaimsWereDelivered
BY LedgersVouchAlways, IInvImplies, PTL

-----------------------------------------------------------------------------
(***************************************************************************)
(* The contract of UNCHANGED, where it holds: no compaction, a ledger of   *)
(* one's own, and no edit between the two reads of a call.                 *)
(***************************************************************************)

\* Without compactions a context never shrinks.
NothingForgotten == /\ context = delivered
                    /\ phase = [a \in Agents |-> "live"]

LEMMA NothingForgottenStep ==
    ASSUME "compact" \notin Env
    PROVE  NothingForgotten /\ [Next]_vars => NothingForgotten'
<1> SUFFICES ASSUME NothingForgotten, [Next]_vars PROVE NothingForgotten'
  OBVIOUS
<1>1. ASSUME NEW p \in Calls, Emit(p) PROVE NothingForgotten'
  BY <1>1 DEF Emit, NothingForgotten, outside
<1>2. ASSUME NEW a \in Agents, FinishCompaction(a) PROVE FALSE
  BY <1>2 DEF FinishCompaction, NothingForgotten
<1>3. ASSUME NEW p \in Calls, NEW a \in Agents, StartCompaction(p, a)
      PROVE  FALSE
  BY <1>3 DEF StartCompaction
<1>4. ASSUME NEW p \in Calls,
             \/ ReadText(p) \/ HashFile(p) \/ Load(p) \/ Mark(p)
             \/ OpenTmp(p) \/ WriteTmp(p) \/ Rename(p) \/ Abort(p)
      PROVE  UNCHANGED <<context, delivered, phase>>
  BY <1>4 DEF ReadText, HashFile, Load, Mark, OpenTmp, WriteTmp, Rename,
              Abort, outside
<1>5. CASE \/ \E p \in Calls, a \in Agents, f \in Files, range \in Ranges,
                mode \in {"read", "full"} : StartRead(p, a, f, range, mode)
           \/ \E f \in Files, c \in Contents \cup {None} : Edit(f, c)
           \/ Tick
           \/ UNCHANGED vars
  BY <1>5 DEF StartRead, Edit, Tick, vars, outside, NothingForgotten
<1> QED
  BY <1>1, <1>2, <1>3, <1>4, <1>5
  DEF Next, Environment, Step, NothingForgotten

\* As long as no compaction happens, no two callers share a ledger and no
\* file is edited between the two reads of one call, a caller really has
\* every line that UNCHANGED or KNOWN withholds from it.
THEOREM ClaimsHeldWithoutCompaction ==
    ASSUME "edit_in_call" \notin Env, "compact" \notin Env,
           \A a, b \in Agents : StoreOf[a] = StoreOf[b] => a = b
    PROVE  Spec => []ClaimsAreHeld
<1>1. Init => NothingForgotten
  BY DEF Init, NothingForgotten
<1>2. Spec => []NothingForgotten
  BY <1>1, NothingForgottenStep, PTL DEF Spec
<1>3. Typed /\ NothingForgotten /\ ClaimsWereDelivered => ClaimsAreHeld
  <2> SUFFICES ASSUME Typed, NothingForgotten, ClaimsWereDelivered,
                      NEW p \in Calls, pc[p] = "emit"
               PROVE  Claim(p) \subseteq context[call[p].agent]
    BY DEF ClaimsAreHeld
  <2>1. call[p].agent \in Agents /\ Store(p) = StoreOf[call[p].agent]
    BY DEF Typed, CallShape, Call, Store
  <2>2. DeliveredVia(Store(p)) = delivered[call[p].agent]
    BY <2>1 DEF DeliveredVia
  <2> QED
    BY <2>2 DEF ClaimsWereDelivered, NothingForgotten
<1>4. Spec => []Typed
  BY TypedInit, TypedStep, PTL DEF Spec
<1> QED
  BY <1>2, <1>3, <1>4, ClaimsDelivered, PTL

-----------------------------------------------------------------------------
(***************************************************************************)
(* Refinement: without compaction, the calls implement DeliveryPromise.    *)
(***************************************************************************)

\* A ledger that vouches only for lines of D promises only lines of D.
LEMMA VouchedWithin ==
    ASSUME NEW led, NEW D, Vouches(led, D)
    PROVE  Vouched(led) \subseteq D
BY DEF Vouched, Vouches

\* A step that changes no ledger but that of store s, and leaves there one
\* that vouches for delivered lines only, is a Save or a stutter.
LEMMA SaveStep ==
    ASSUME NothingForgotten, UNCHANGED <<context, delivered>>,
           TypeOK, NEW s \in Stores, NEW led,
           Vouches(led, DeliveredVia(s)),
           ledger' = [ledger EXCEPT ![s] = led]
    PROVE  Promise!Save(s)
<1>1. Vouched(led) \subseteq Promise!HeldVia(s)
  BY VouchedWithin DEF Promise!HeldVia, DeliveredVia, NothingForgotten
<1>2. /\ ledger'[s] = led
      /\ \A t \in Stores \ {s} : ledger'[t] = ledger[t]
  BY DEF TypeOK
<1> QED
  BY <1>1, <1>2 DEF Promise!Save

LEMMA PromiseStep ==
    ASSUME "compact" \notin Env
    PROVE  IInv /\ NothingForgotten /\ [Next]_vars
               => [Promise!Next]_(Promise!vars)
<1> SUFFICES ASSUME IInv, NothingForgotten, [Next]_vars
             PROVE  [Promise!Next]_(Promise!vars)
  OBVIOUS
<1> USE DEF IInv
<1>1. CASE UNCHANGED <<ledger, context>>
  BY <1>1 DEF Promise!vars
<1>2. ASSUME NEW p \in Calls, Emit(p), ~UNCHANGED <<ledger, context>>
      PROVE  \E a \in Agents : Promise!Send(a)
  <2> DEFINE a == call[p].agent
             printed == {<<call[p].file, text[p], n>> :
                           n \in Missing(p) \cap 1..Length[text[p]]}
  <2>1. /\ pc[p] = "emit"
        /\ context' = [context EXCEPT ![a] = @ \cup printed]
        /\ UNCHANGED ledger
    BY <1>2 DEF Emit, outside
  <2>2. a \in Agents /\ call[p].file \in Files /\ text[p] \in Contents
    BY <2>1 DEF CallShape, Call
  <2>3. printed \subseteq Files \X Contents \X Lines
    BY <2>2, WantedType
  <2> HIDE DEF printed
  <2>4. Promise!Send(a)
    BY <2>1, <2>2, <2>3 DEF Promise!Send, TypeOK
  <2> QED
    BY <2>2, <2>4
<1>3. ASSUME NEW p \in Calls, WriteTmp(p), ~UNCHANGED <<ledger, context>>
      PROVE  \E s \in Stores : Promise!Save(s)
  <2>1. Store(p) \in Stores /\ Vouches(copy[p], DeliveredVia(Store(p)))
    BY <1>3, StoreType DEF WriteTmp, LedgersVouch
  <2>2. PICK led \in WriteOver(ledger[Store(p)], copy[p]) :
           ledger' = [ledger EXCEPT ![Store(p)] = led]
    BY <1>3 DEF WriteTmp
  <2>3. Vouches(led, DeliveredVia(Store(p)))
    BY <2>1, <2>2, EmptyVouches DEF WriteOver
  <2>4. UNCHANGED <<context, delivered>>
    BY <1>3 DEF WriteTmp
  <2> QED
    BY <2>1, <2>2, <2>3, <2>4, SaveStep
<1>4. ASSUME NEW p \in Calls, Rename(p), ~UNCHANGED <<ledger, context>>
      PROVE  \E s \in Stores : Promise!Save(s)
  <2>1. Store(p) \in Stores
    BY <1>4, StoreType DEF Rename
  <2>2. /\ tmp[Store(p)] # Absent
        /\ ledger' = [ledger EXCEPT ![Store(p)] = tmp[Store(p)]]
        /\ UNCHANGED <<context, delivered>>
    BY <1>4 DEF Rename
  <2>3. Vouches(tmp[Store(p)], DeliveredVia(Store(p)))
    BY <2>1, <2>2 DEF LedgersVouch
  <2> QED
    BY <2>1, <2>2, <2>3, SaveStep
<1>5. ASSUME NEW a \in Agents, FinishCompaction(a) PROVE FALSE
  BY <1>5 DEF FinishCompaction, NothingForgotten
<1>6. ASSUME NEW p \in Calls,
             \/ ReadText(p) \/ HashFile(p) \/ Load(p) \/ Mark(p)
             \/ OpenTmp(p) \/ Abort(p)
             \/ \E a \in Agents : StartCompaction(p, a)
      PROVE  UNCHANGED <<ledger, context>>
  BY <1>6 DEF ReadText, HashFile, Load, Mark, OpenTmp, Abort, StartCompaction,
              outside
<1>7. CASE \/ \E p \in Calls, a \in Agents, f \in Files, range \in Ranges,
                mode \in {"read", "full"} : StartRead(p, a, f, range, mode)
           \/ \E f \in Files, c \in Contents \cup {None} : Edit(f, c)
           \/ Tick
           \/ UNCHANGED vars
  <2>1. UNCHANGED <<ledger, context>>
    BY <1>7 DEF StartRead, Edit, Tick, vars, outside
  <2> QED
    BY <2>1, <1>1
<1> QED
  BY <1>1, <1>2, <1>3, <1>4, <1>5, <1>6, <1>7
  DEF Next, Environment, Step, Promise!Next

\* Without compaction and without an edit between the two reads of a call,
\* any number of concurrent calls on any number of ledgers implement
\* DeliveryPromise: whatever a ledger vouches for, its callers hold.
THEOREM LedgerKeepsPromise ==
    ASSUME "edit_in_call" \notin Env, "compact" \notin Env
    PROVE  Spec => KeepsPromise
<1>1. Init => NothingForgotten
  BY DEF Init, NothingForgotten
<1>2. Spec => []NothingForgotten
  BY <1>1, NothingForgottenStep, PTL DEF Spec
<1>3. Spec => []IInv
  BY LedgersVouchAlways
<1>4. Init => Promise!Init
  <2> SUFFICES ASSUME Init PROVE Promise!Init
    OBVIOUS
  <2>1. Vouched(EmptyLedger) = {}
    BY ConstantsAssumption
    DEF Vouched, EmptyLedger, NoEntry, ConstantsAssumption
  <2> QED
    BY <2>1 DEF Init, Promise!Init
<1> QED
  BY <1>2, <1>3, <1>4, PromiseStep, PTL DEF Spec, KeepsPromise, Promise!Spec

-----------------------------------------------------------------------------
(***************************************************************************)
(* Recovery with --full, and one call after another.                       *)
(***************************************************************************)

\* An answer to --full withholds nothing: every existing line of the range is
\* in the caller's context afterwards, whatever calls run at the same time,
\* were killed before, or edit the file meanwhile (main.rs read).
THEOREM FullAnswersRecover == Spec => FullRecovers
<1> DEFINE Recovers ==
      \A p \in Calls :
          pc[p] = "emit" /\ pc'[p] = "open" /\ call[p].mode = "full" =>
              {<<call[p].file, text[p], n>> :
                  n \in Wanted(p) \cap 1..Length[text[p]]}
                \subseteq context'[call[p].agent]
<1>1. Typed /\ [Next]_vars => [Recovers]_vars
  <2> SUFFICES ASSUME Typed, [Next]_vars, NEW p \in Calls,
                      pc[p] = "emit", pc'[p] = "open", call[p].mode = "full"
               PROVE  {<<call[p].file, text[p], n>> :
                          n \in Wanted(p) \cap 1..Length[text[p]]}
                        \subseteq context'[call[p].agent]
    OBVIOUS
  <2>1. Emit(p)
    <3>1. ASSUME NEW q \in Calls, Step(q) PROVE q = p
      BY <3>1 DEF Step, ReadText, HashFile, Load, Mark, Emit, OpenTmp, WriteTmp,
                  Rename, Exit, Goto, Typed, TypeOK
    <3>2. ~ Environment /\ ~ UNCHANGED vars
      BY DEF Environment, StartRead, StartCompaction, FinishCompaction, Edit,
             Abort, Tick, Exit, Goto, Typed, TypeOK, vars
    <3>3. Step(p)
      BY <3>1, <3>2 DEF Next
    <3> QED
      BY <3>3 DEF Step, ReadText, HashFile, Load, Mark, OpenTmp, WriteTmp,
                  Rename
  <2>2. call[p].agent \in Agents
    BY DEF Typed, CallShape, Call
  <2>3. context' = [context EXCEPT ![call[p].agent] = @ \cup
                      {<<call[p].file, text[p], n>> :
                         n \in Missing(p) \cap 1..Length[text[p]]}]
    BY <2>1 DEF Emit, SaysUnchanged
  <2>4. Missing(p) = Wanted(p)
    BY DEF Missing, Withheld
  <2> QED
    BY <2>2, <2>3, <2>4 DEF Typed, TypeOK
<1>2. Spec => []Typed
  BY TypedInit, TypedStep, PTL DEF Spec
<1> QED
  BY <1>1, <1>2, PTL DEF Spec, FullRecovers

\* No two calls overlap.
OneCall == \A p, q \in Calls : p = q

\* Ledger `new' has kept, of every file that has not changed, what led knew.
Extends(led, new) ==
    \A f \in Files :
        new.files[f].hash = led.files[f].hash =>
            led.files[f].lines \subseteq new.files[f].lines

\* A call that runs alone works on the ledger as it is: nothing is saved
\* between its load and its save, and what it renames is its own copy.
Alone ==
    \A p \in Calls :
        /\ pc[p] \in {"mark", "emit"} => copy[p] = ledger[Store(p)]
        /\ pc[p] \in {"open", "write", "rename"} =>
               Extends(ledger[Store(p)], copy[p])
        /\ pc[p] = "write" =>
               file[p] = "tmp" /\ tmp[Store(p)] = EmptyLedger
        /\ pc[p] = "rename" => tmp[Store(p)] = copy[p]

LEMMA DeliverExtends ==
    ASSUME NEW led \in Ledger, NEW f \in Files, NEW sent, NEW h, NEW now
    PROVE  Extends(led, Deliver(led, f, sent, h, now))
BY DEF Extends, Deliver, Ledger, Entry

LEMMA MarkExtends ==
    ASSUME NEW led \in Ledger, NEW now
    PROVE  Extends(led, MarkCompacted(led, now))
BY DEF Extends, MarkCompacted, Ledger

\* A step that leaves no call between its load and its rename.
LEMMA AloneBefore ==
    ASSUME \A p \in Calls : pc'[p] \in {"idle", "read", "hash", "load"}
    PROVE  Alone'
BY DEF Alone

LEMMA AloneStep ==
    ASSUME OneCall
    PROVE  Typed /\ Alone /\ [Next]_vars => Alone'
<1> SUFFICES ASSUME Typed, Alone, [Next]_vars PROVE Alone'
  OBVIOUS
<1> USE DEF OneCall, Typed, TypeOK, Goto
<1>1. ASSUME NEW p \in Calls,
             \/ \E a \in Agents, f \in Files, range \in Ranges,
                  mode \in {"read", "full"} : StartRead(p, a, f, range, mode)
             \/ \E a \in Agents : StartCompaction(p, a)
             \/ Abort(p) \/ ReadText(p) \/ HashFile(p) \/ Rename(p)
      PROVE  Alone'
  <2>1. pc'[p] \in {"idle", "read", "hash", "load"}
    BY <1>1 DEF StartRead, StartCompaction, Abort, ReadText, HashFile, Rename,
                Exit
  <2> QED
    BY <2>1, AloneBefore
<1>2. ASSUME NEW p \in Calls, Load(p) PROVE Alone'
  <2>1. /\ pc'[p] \in {"mark", "emit"}
        /\ copy'[p] = ledger[Store(p)]
        /\ UNCHANGED <<ledger, call>>
    BY <1>2 DEF Load, outside
  <2> QED
    BY <2>1 DEF Alone, Store
<1>3. ASSUME NEW p \in Calls, Mark(p) PROVE Alone'
  <2>1. /\ pc[p] = "mark" /\ pc'[p] = "open"
        /\ copy'[p] = MarkCompacted(copy[p], clock)
        /\ UNCHANGED <<ledger, call>>
    BY <1>3 DEF Mark, outside
  <2>2. Extends(ledger[Store(p)], copy'[p])
    BY <2>1, MarkExtends DEF Alone
  <2> QED
    BY <2>1, <2>2 DEF Alone, Store
<1>4. ASSUME NEW p \in Calls, Emit(p) PROVE Alone'
  <2>1. CASE Exit(p)
    <3>1. pc'[p] = "idle"
      BY <2>1 DEF Exit
    <3> QED
      BY <3>1, AloneBefore
  <2>2. CASE ~Exit(p)
    <3>1. /\ pc[p] = "emit" /\ pc'[p] = "open"
          /\ copy'[p] = Deliver(copy[p], call[p].file, Missing(p), hash[p], clock)
          /\ UNCHANGED <<ledger, call>>
      BY <1>4, <2>2 DEF Emit
    <3>2. call[p].file \in Files
      BY <3>1 DEF CallShape, Call
    <3>3. Extends(ledger[Store(p)], copy'[p])
      BY <3>1, <3>2, DeliverExtends DEF Alone
    <3> QED
      BY <3>1, <3>3 DEF Alone, Store
  <2> QED
    BY <2>1, <2>2
<1>5. ASSUME NEW p \in Calls, OpenTmp(p) PROVE Alone'
  <2>1. Store(p) \in Stores /\ Store(p)' = Store(p)
    BY <1>5, StoreType DEF OpenTmp, Store
  <2>2. /\ pc[p] = "open" /\ pc'[p] = "write"
        /\ file'[p] = "tmp" /\ tmp'[Store(p)] = EmptyLedger
        /\ UNCHANGED <<ledger, copy>>
    BY <1>5, <2>1 DEF OpenTmp
  <2> QED
    BY <2>1, <2>2 DEF Alone
<1>6. ASSUME NEW p \in Calls, WriteTmp(p) PROVE Alone'
  <2>1. Store(p) \in Stores /\ Store(p)' = Store(p)
    BY <1>6, StoreType DEF WriteTmp, Store
  <2>2. /\ pc[p] = "write" /\ pc'[p] = "rename"
        /\ file[p] = "tmp" /\ tmp[Store(p)] = EmptyLedger
        /\ UNCHANGED <<ledger, copy>>
    BY <1>6 DEF WriteTmp, Alone
  <2>3. tmp'[Store(p)] = copy[p]
    BY <1>6, <2>1, <2>2 DEF WriteTmp, WriteOver
  <2> QED
    BY <2>1, <2>2, <2>3 DEF Alone
<1>7. CASE \/ \E a \in Agents : FinishCompaction(a)
           \/ \E f \in Files, c \in Contents \cup {None} : Edit(f, c)
           \/ Tick
           \/ UNCHANGED vars
  <2>1. UNCHANGED <<ledger, tmp, pc, call, copy, file>>
    BY <1>7 DEF FinishCompaction, Edit, Tick, vars
  <2> QED
    BY <2>1 DEF Alone, Store
<1> QED
  BY <1>1, <1>2, <1>3, <1>4, <1>5, <1>6, <1>7 DEF Next, Environment, Step

LEMMA AloneAlways == OneCall => (Spec => []Alone)
<1> SUFFICES ASSUME OneCall PROVE Spec => []Alone
  OBVIOUS
<1>1. Init => Alone
  BY DEF Init, Alone
<1>2. Spec => []Typed
  BY TypedInit, TypedStep, PTL DEF Spec
<1> QED
  BY <1>1, <1>2, AloneStep, PTL DEF Spec

\* What one call after another does to the ledgers: only a rename publishes
\* one, and what it publishes is the call's own copy.
LEMMA OnlyRenameSaves ==
    ASSUME OneCall, Typed, Alone, [Next]_vars, ~UNCHANGED ledger
    PROVE  \E p \in Calls :
              /\ Rename(p)
              /\ Store(p) \in Stores
              /\ ledger' = [ledger EXCEPT ![Store(p)] = copy[p]]
<1>1. ASSUME NEW p \in Calls, Rename(p)
      PROVE  /\ Store(p) \in Stores
             /\ ledger' = [ledger EXCEPT ![Store(p)] = copy[p]]
  <2>1. Store(p) \in Stores
    BY <1>1, StoreType DEF Rename, Typed
  <2>2. ledger' = [ledger EXCEPT ![Store(p)] = tmp[Store(p)]]
    BY <1>1 DEF Rename
  <2>3. tmp[Store(p)] = copy[p]
    BY <1>1 DEF Rename, Alone
  <2> QED
    BY <2>1, <2>2, <2>3
<1>2. ASSUME NEW p \in Calls, WriteTmp(p) PROVE FALSE
  BY <1>2 DEF WriteTmp, Alone
<1>3. ASSUME NEW p \in Calls,
             \/ ReadText(p) \/ HashFile(p) \/ Load(p) \/ Mark(p) \/ Emit(p)
             \/ OpenTmp(p) \/ Abort(p)
             \/ \E a \in Agents : StartCompaction(p, a)
             \/ \E a \in Agents, f \in Files, range \in Ranges,
                  mode \in {"read", "full"} : StartRead(p, a, f, range, mode)
      PROVE  FALSE
  BY <1>3 DEF ReadText, HashFile, Load, Mark, Emit, OpenTmp, Abort,
              StartCompaction, StartRead, outside
<1>4. CASE \/ \E a \in Agents : FinishCompaction(a)
           \/ \E f \in Files, c \in Contents \cup {None} : Edit(f, c)
           \/ Tick
           \/ UNCHANGED vars
  BY <1>4 DEF FinishCompaction, Edit, Tick, vars
<1> QED
  BY <1>1, <1>2, <1>3, <1>4 DEF Next, Environment, Step

\* As long as calls do not overlap, no save, and no kill in the middle of one,
\* loses a line the ledger knew of a file that has not changed (state.rs save:
\* the temporary file is complete before it is renamed).
THEOREM SavesKeepDeliveries ==
    ASSUME OneCall
    PROVE  Spec => DeliveriesKept
<1> DEFINE Kept ==
      \A s \in Stores, f \in Files :
          ledger'[s].files[f].hash = ledger[s].files[f].hash
              => ledger[s].files[f].lines \subseteq ledger'[s].files[f].lines
<1>1. Typed /\ Alone /\ [Next]_vars => [Kept]_vars
  <2> SUFFICES ASSUME Typed, Alone, [Next]_vars, ~UNCHANGED ledger PROVE Kept
    OBVIOUS
  <2>1. PICK p \in Calls : /\ Rename(p)
                           /\ Store(p) \in Stores
                           /\ ledger' = [ledger EXCEPT ![Store(p)] = copy[p]]
    BY OnlyRenameSaves
  <2>2. Extends(ledger[Store(p)], copy[p])
    BY <2>1 DEF Rename, Alone
  <2> QED
    BY <2>1, <2>2 DEF Extends, Typed, TypeOK
<1>2. Spec => []Typed
  BY TypedInit, TypedStep, PTL DEF Spec
<1> QED
  BY <1>1, <1>2, AloneAlways, PTL DEF Spec, DeliveriesKept

-----------------------------------------------------------------------------
(***************************************************************************)
(* After a compaction: the inductive invariant behind                      *)
(* NoClaimBeforeRedelivery.                                                *)
(***************************************************************************)

\* The circumstances under which a watermark does its work: calls one after
\* another, whole-second stamps, the watermark in the ledger that reads use,
\* a ledger for each caller, and a --compacted call that is not killed.
\* A --full of a range beyond the file's end prints nothing and still stamps
\* the entry, which revives what lay before the watermark: every range asked
\* for has to reach the text.
Watermarked ==
    /\ OneCall
    /\ TicksPerSecond = 1
    /\ WatermarkOf = StoreOf
    /\ \A a, b \in Agents : StoreOf[a] = StoreOf[b] => a = b
    /\ "edit_in_call" \notin Env
    /\ "abort_mark" \notin Env
    /\ \A range \in Ranges, c \in Contents : Want(range, c) # {}

\* No stamp lies in the future.
Old(led, now) ==
    /\ led.compacted_at <= now
    /\ \A f \in Files : led.files[f].delivered_at <= now

\* Nothing in led survives its watermark.
Marked(led) ==
    /\ led.compacted_at # -1
    /\ \A f \in Files : led.files[f].delivered_at <= led.compacted_at

\* Of every file and content that led would still vouch for, some line is
\* among `held'.
FreshFile(led, f, held) ==
    LET e == led.files[f]
    IN  (/\ e.hash \in Contents
         /\ e.lines \cap 1..Length[e.hash] # {}
         /\ SurvivesCompaction(led, e.delivered_at))
           => \E n \in Lines : <<f, e.hash, n>> \in held

Fresh(led, held) == \A f \in Files : FreshFile(led, f, held)

Clocked ==
    /\ \A s \in Stores : Old(ledger[s], clock)
    /\ \A p \in Calls : Old(copy[p], clock)

\* The watermark call, and no other, runs while the host compacts.
Phased ==
    \A p \in Calls :
        pc[p] # "idle" =>
            (call[p].mode = "mark" <=> phase[call[p].agent] = "compacting")

\* While the host compacts, the watermark is in the ledger or on its way.
Marking ==
    /\ \A p \in Calls :
          pc[p] \in {"open", "write", "rename"} /\ call[p].mode = "mark"
              => Marked(copy[p])
    /\ \A a \in Agents :
          phase[a] = "compacting" =>
              \/ Marked(ledger[StoreOf[a]])
              \/ \E p \in Calls : /\ pc[p] # "idle"
                                  /\ call[p].mode = "mark"
                                  /\ call[p].agent = a

\* Ledgers, and what calls are about to save, are as fresh as the contexts.
Current ==
    /\ \A a \in Agents :
          phase[a] = "live" => Fresh(ledger[StoreOf[a]], context[a])
    /\ \A p \in Calls :
          pc[p] \in {"open", "write", "rename"} /\ call[p].mode # "mark"
              => Fresh(copy[p], context[call[p].agent])

\* With whole-second stamps, strings sort as the instants do.
LEMMA WholeSeconds ==
    ASSUME TicksPerSecond = 1, NEW s \in Int, NEW t \in Int
    PROVE  LaterString(s, t) <=> s > t
<1>1. \A x \in Int : x \div 1 = x /\ x % 1 = 0
  OBVIOUS
<1> QED
  BY <1>1 DEF LaterString

\* Nothing is claimed from a ledger just marked.
LEMMA MarkedIsFresh ==
    ASSUME TicksPerSecond = 1, NEW led \in Ledger, Marked(led), NEW held
    PROVE  Fresh(led, held)
<1>1. \A f \in Files : /\ led.files[f].delivered_at \in Int
                       /\ led.compacted_at \in Int
                       /\ led.files[f].delivered_at <= led.compacted_at
                       /\ led.compacted_at # -1
  BY ConstantsAssumption
  DEF Ledger, Entry, Stamps, Marked, ConstantsAssumption
<1>2. \A f \in Files : ~SurvivesCompaction(led, led.files[f].delivered_at)
  BY <1>1, WholeSeconds DEF SurvivesCompaction
<1> QED
  BY <1>2 DEF Fresh, FreshFile

LEMMA MarkIsMarked ==
    ASSUME NEW led \in Ledger, NEW now \in Stamps, Old(led, now)
    PROVE  Marked(MarkCompacted(led, now)) /\ Old(MarkCompacted(led, now), now)
BY ConstantsAssumption
DEF Ledger, Stamps, Old, Marked, MarkCompacted, ConstantsAssumption

LEMMA DeliverIsOld ==
    ASSUME NEW led \in Ledger, NEW f \in Files, NEW sent, NEW h,
           NEW now \in Stamps, Old(led, now)
    PROVE  Old(Deliver(led, f, sent, h, now), now)
BY ConstantsAssumption DEF Ledger, Stamps, Old, Deliver, ConstantsAssumption

\* A delivery that reaches the caller keeps the ledger fresh.
LEMMA DeliverIsFresh ==
    ASSUME NEW led \in Ledger, NEW f \in Files, NEW sent \in SUBSET Lines,
           NEW h \in Contents, NEW now, NEW held, NEW more,
           Fresh(led, held), held \subseteq more,
           Length[h] > 0 => \E n \in Lines : <<f, h, n>> \in more
    PROVE  Fresh(Deliver(led, f, sent, h, now), more)
<1> DEFINE new == Deliver(led, f, sent, h, now)
<1>1. /\ new.files[f].hash = h
      /\ new.compacted_at = led.compacted_at
      /\ \A g \in Files \ {f} : new.files[g] = led.files[g]
  BY DEF Deliver, Ledger
<1>2. Length[h] \in Nat
  BY ConstantsAssumption DEF ConstantsAssumption
<1> HIDE DEF new
<1>3. ASSUME NEW g \in Files \ {f} PROVE FreshFile(new, g, more)
  <2>1. FreshFile(led, g, held)
    BY DEF Fresh
  <2> QED
    BY <1>1, <2>1 DEF FreshFile, SurvivesCompaction
<1>4. FreshFile(new, f, more)
  <2>1. CASE Length[h] > 0
    BY <1>1, <2>1 DEF FreshFile
  <2>2. CASE Length[h] = 0
    <3>1. 1..Length[h] = {}
      BY <2>2
    <3> QED
      BY <1>1, <3>1 DEF FreshFile
  <2> QED
    BY <1>2, <2>1, <2>2
<1>5. Fresh(new, more)
  BY <1>3, <1>4 DEF Fresh
<1> QED
  BY <1>5 DEF new

LEMMA OldLater ==
    ASSUME NEW led \in Ledger, NEW now \in Stamps, NEW later \in Stamps,
           now <= later, Old(led, now)
    PROVE  Old(led, later)
BY ConstantsAssumption
DEF Ledger, Entry, Stamps, Old, ConstantsAssumption

LEMMA EmptyIsOld ==
    ASSUME NEW now \in Stamps
    PROVE  Old(EmptyLedger, now)
BY DEF Stamps, Old, EmptyLedger, NoEntry

LEMMA ClockedStep ==
    ASSUME OneCall, Typed, Typed', Alone, Clocked, [Next]_vars
    PROVE  Clocked'
<1>1. \A s \in Stores : Old(ledger[s], clock)
  BY DEF Clocked
<1>2. \A p \in Calls : Old(copy[p], clock)
  BY DEF Clocked
<1>3. CASE Tick
  <2>1. clock <= clock' /\ UNCHANGED <<ledger, copy>>
    BY <1>3 DEF Tick, Typed, TypeOK, Stamps
  <2>2. \A s \in Stores : Old(ledger[s], clock')
    BY <1>1, <2>1, OldLater DEF Typed, TypeOK
  <2>3. \A p \in Calls : Old(copy[p], clock')
    BY <1>2, <2>1, OldLater DEF Typed, TypeOK
  <2> QED
    BY <2>1, <2>2, <2>3 DEF Clocked
<1>4. CASE UNCHANGED clock
  <2>1. \A s \in Stores : Old(ledger'[s], clock)
    <3>1. CASE UNCHANGED ledger
      BY <3>1, <1>1
    <3>2. CASE ~UNCHANGED ledger
      <4>1. PICK p \in Calls : ledger' = [ledger EXCEPT ![Store(p)] = copy[p]]
        BY <3>2, OnlyRenameSaves
      <4> QED
        BY <4>1, <1>1, <1>2 DEF Typed, TypeOK
    <3> QED
      BY <3>1, <3>2
  <2>2. \A p \in Calls : Old(copy'[p], clock)
    <3>1. CASE UNCHANGED copy
      BY <3>1, <1>2
    <3>2. ASSUME NEW p \in Calls, Exit(p) \/ Rename(p)
          PROVE  copy' = [copy EXCEPT ![p] = EmptyLedger]
      BY <3>2 DEF Exit, Rename
    <3>3. ASSUME NEW p \in Calls, Load(p)
          PROVE  \A q \in Calls : Old(copy'[q], clock)
      <4>1. Store(p) \in Stores /\ copy' = [copy EXCEPT ![p] = ledger[Store(p)]]
        BY <3>3, StoreType DEF Load, Typed
      <4> QED
        BY <4>1, <1>1, <1>2 DEF Typed, TypeOK
    <3>4. ASSUME NEW p \in Calls, Mark(p)
          PROVE  \A q \in Calls : Old(copy'[q], clock)
      <4>1. copy' = [copy EXCEPT ![p] = MarkCompacted(copy[p], clock)]
        BY <3>4 DEF Mark
      <4>2. Old(MarkCompacted(copy[p], clock), clock)
        BY <1>2, MarkIsMarked DEF Typed, TypeOK
      <4> QED
        BY <4>1, <4>2, <1>2 DEF Typed, TypeOK
    <3>5. ASSUME NEW p \in Calls, Emit(p), ~Exit(p)
          PROVE  \A q \in Calls : Old(copy'[q], clock)
      <4>1. copy' = [copy EXCEPT ![p] =
                Deliver(copy[p], call[p].file, Missing(p), hash[p], clock)]
        BY <3>5 DEF Emit
      <4>2. call[p].file \in Files
        BY <3>5 DEF Emit, Typed, CallShape, Call
      <4>3. Old(Deliver(copy[p], call[p].file, Missing(p), hash[p], clock), clock)
        BY <4>2, <1>2, DeliverIsOld DEF Typed, TypeOK
      <4> QED
        BY <4>1, <4>3, <1>2 DEF Typed, TypeOK
    <3>6. ASSUME NEW p \in Calls, copy' = [copy EXCEPT ![p] = EmptyLedger]
          PROVE  \A q \in Calls : Old(copy'[q], clock)
      BY <3>6, <1>2, EmptyIsOld DEF Typed, TypeOK
    <3>7. \/ UNCHANGED copy
          \/ \E p \in Calls : \/ Exit(p) \/ Rename(p) \/ Load(p) \/ Mark(p)
                              \/ (Emit(p) /\ ~Exit(p))
      BY DEF Next, Environment, Step, StartRead, StartCompaction,
             FinishCompaction, Edit, Tick, Abort, ReadText, HashFile, Emit,
             OpenTmp, WriteTmp, vars, outside
    <3> QED
      BY <3>1, <3>2, <3>3, <3>4, <3>5, <3>6, <3>7
  <2> QED
    BY <2>1, <2>2, <1>4 DEF Clocked
<1>5. Tick \/ UNCHANGED clock
  BY DEF Next, Environment, Step, StartRead, StartCompaction,
         FinishCompaction, Edit, Abort, ReadText, HashFile, Load, Mark, Emit,
         OpenTmp, WriteTmp, Rename, vars, outside
<1> QED
  BY <1>3, <1>4, <1>5

LEMMA PhasedStep ==
    ASSUME OneCall, Typed, Phased, [Next]_vars
    PROVE  Phased'
<1> USE DEF OneCall, Typed, TypeOK, Goto
<1>1. ASSUME NEW p \in Calls, NEW a \in Agents, NEW f \in Files,
             NEW range \in Ranges, NEW mode \in {"read", "full"},
             StartRead(p, a, f, range, mode)
      PROVE  Phased'
  <2>1. /\ call'[p].mode # "mark" /\ call'[p].agent = a
        /\ phase'[a] = "live"
    BY <1>1 DEF StartRead, outside
  <2> QED
    BY <2>1 DEF Phased
<1>2. ASSUME NEW p \in Calls, NEW a \in Agents, StartCompaction(p, a)
      PROVE  Phased'
  <2>1. /\ call'[p].mode = "mark" /\ call'[p].agent = a
        /\ phase'[a] = "compacting"
    BY <1>2 DEF StartCompaction
  <2> QED
    BY <2>1 DEF Phased
<1>3. ASSUME NEW a \in Agents, FinishCompaction(a)
      PROVE  Phased'
  <2>1. /\ \A p \in Calls : pc[p] # "idle" /\ call[p].agent = a
                               => call[p].mode # "mark"
        /\ phase[a] = "compacting"
        /\ phase' = [phase EXCEPT ![a] = "live"]
        /\ UNCHANGED <<pc, call>>
    BY <1>3 DEF FinishCompaction, Running
  <2>2. ASSUME NEW p \in Calls, pc[p] # "idle"
        PROVE  call[p].mode = "mark" <=> phase'[call[p].agent] = "compacting"
    <3>1. call[p].agent \in Agents \ {a}
      BY <2>1, <2>2 DEF Phased, CallShape, Call
    <3> QED
      BY <3>1, <2>1, <2>2 DEF Phased
  <2> QED
    BY <2>1, <2>2 DEF Phased
<1>4. ASSUME NEW p \in Calls, Exit(p) \/ Rename(p) PROVE Phased'
  <2>1. pc'[p] = "idle"
    BY <1>4 DEF Exit, Rename
  <2> QED
    BY <2>1 DEF Phased
<1>5. ASSUME UNCHANGED <<call, phase>>,
             \A p \in Calls : pc[p] = "idle" => pc'[p] = "idle"
      PROVE  Phased'
  BY <1>5 DEF Phased
<1>6. ASSUME NEW p \in Calls,
             \/ ReadText(p) \/ HashFile(p) \/ Load(p) \/ Mark(p) \/ Emit(p)
             \/ OpenTmp(p) \/ WriteTmp(p),
             ~Exit(p)
      PROVE  /\ UNCHANGED <<call, phase>>
             /\ pc[p] # "idle"
  BY <1>6 DEF ReadText, HashFile, Load, Mark, Emit, OpenTmp, WriteTmp, outside
<1>7. CASE \/ \E f \in Files, c \in Contents \cup {None} : Edit(f, c)
           \/ Tick
           \/ UNCHANGED vars
  BY <1>7, <1>5 DEF Edit, Tick, vars
<1> QED
  BY <1>1, <1>2, <1>3, <1>4, <1>5, <1>6, <1>7
  DEF Next, Environment, Step, Abort

LEMMA AbsentIsNoLedger == Absent \notin Ledger
<1> SUFFICES ASSUME Absent \in Ledger PROVE FALSE
  OBVIOUS
<1>1. "files" \in DOMAIN Absent
  BY DEF Ledger
<1>2. "files" \notin DOMAIN Absent
  BY DEF Absent
<1> QED
  BY <1>1, <1>2

\* A call that renames without company publishes its copy.
LEMMA RenamePublishes ==
    ASSUME Typed, Alone, NEW p \in Calls, Rename(p)
    PROVE  /\ Store(p) \in Stores
           /\ ledger' = [ledger EXCEPT ![Store(p)] = copy[p]]
<1>1. Store(p) \in Stores
  BY StoreType DEF Rename, Typed
<1>2. tmp[Store(p)] = copy[p] /\ copy[p] \in Ledger
  BY DEF Rename, Alone, Typed, TypeOK
<1> QED
  BY <1>1, <1>2, AbsentIsNoLedger DEF Rename

\* The store of a call is its caller's own.
LEMMA OwnStore ==
    ASSUME Watermarked, Typed, NEW p \in Calls, pc[p] # "idle"
    PROVE  /\ call[p].agent \in Agents
           /\ Store(p) = StoreOf[call[p].agent]
BY DEF Watermarked, Typed, CallShape, Call, Store

\* After a step that does not rename the ledger of agent a, it is what it was.
LEMMA OthersKeepStore ==
    ASSUME Watermarked, Typed, Alone, [Next]_vars, NEW a \in Agents,
           ledger'[StoreOf[a]] # ledger[StoreOf[a]]
    PROVE  \E p \in Calls : /\ Rename(p)
                            /\ pc[p] = "rename"
                            /\ call[p].agent = a
                            /\ ledger'[StoreOf[a]] = copy[p]
<1>1. OneCall
  BY DEF Watermarked
<1>2. PICK p \in Calls : /\ Rename(p)
                         /\ Store(p) \in Stores
                         /\ ledger' = [ledger EXCEPT ![Store(p)] = copy[p]]
  BY <1>1, OnlyRenameSaves
<1>3. pc[p] = "rename"
  BY <1>2 DEF Rename
<1>4. Store(p) = StoreOf[call[p].agent] /\ call[p].agent \in Agents
  BY <1>3, OwnStore
<1>5. StoreOf[a] = Store(p)
  BY <1>2 DEF Typed, TypeOK
<1>6. call[p].agent = a
  BY <1>4, <1>5 DEF Watermarked
<1> QED
  BY <1>2, <1>3, <1>5, <1>6 DEF Typed, TypeOK

LEMMA MarkingStep ==
    ASSUME Watermarked, Typed, Alone, Clocked, Phased, Marking, [Next]_vars
    PROVE  Marking'
<1> USE DEF Goto
<1>0. OneCall
  BY DEF Watermarked
<1>1. ASSUME NEW p \in Calls, pc'[p] \in {"open", "write", "rename"},
             call'[p].mode = "mark"
      PROVE  Marked(copy'[p])
  <2>1. CASE Mark(p)
    <3>1. Old(copy[p], clock) /\ copy'[p] = MarkCompacted(copy[p], clock)
      BY <2>1 DEF Mark, Clocked, Typed, TypeOK
    <3> QED
      BY <3>1, MarkIsMarked DEF Typed, TypeOK
  <2>2. CASE ~Mark(p)
    <3>1. ASSUME NEW q \in Calls, Step(q) \/ Abort(q)
          PROVE  UNCHANGED <<call[p], copy[p]>>
                 /\ pc[p] \in {"open", "write", "rename"}
      <4>1. q = p
        BY <1>0 DEF OneCall
      <4>2. ~Exit(p) /\ ~Rename(p)
        BY <1>1 DEF Exit, Rename, Typed, TypeOK
      <4>3. ~Emit(p)
        <5>1. ASSUME Emit(p) PROVE pc[p] = "emit" /\ UNCHANGED call
          BY <5>1, <4>2 DEF Emit
        <5> QED
          BY <5>1, <1>1 DEF Typed, CallShape
      <4> QED
        BY <3>1, <4>1, <4>2, <4>3, <2>2, <1>1
        DEF Step, Abort, ReadText, HashFile, Load, OpenTmp, WriteTmp, Typed,
            TypeOK, outside
    <3>2. ASSUME NEW q \in Calls,
                 \/ \E a \in Agents : StartCompaction(q, a)
                 \/ \E a \in Agents, f \in Files, range \in Ranges,
                      mode \in {"read", "full"} : StartRead(q, a, f, range, mode)
          PROVE  FALSE
      <4>1. q = p
        BY <1>0 DEF OneCall
      <4> QED
        BY <3>2, <4>1, <1>1 DEF StartCompaction, StartRead, Typed, TypeOK
    <3>3. CASE \/ \E a \in Agents : FinishCompaction(a)
               \/ \E f \in Files, c \in Contents \cup {None} : Edit(f, c)
               \/ Tick
               \/ UNCHANGED vars
      BY <3>3, <1>1 DEF FinishCompaction, Edit, Tick, vars, Marking
    <3> QED
      BY <3>1, <3>2, <3>3, <1>1 DEF Next, Environment, Marking
  <2> QED
    BY <2>1, <2>2
<1> DEFINE OnItsWay(a) == \E p \in Calls : /\ pc[p] # "idle"
                                           /\ call[p].mode = "mark"
                                           /\ call[p].agent = a
<1>2. ASSUME NEW a \in Agents, phase'[a] = "compacting"
      PROVE  Marked(ledger'[StoreOf[a]]) \/ OnItsWay(a)'
  <2>1. CASE phase[a] # "compacting"
    <3>1. PICK p \in Calls : StartCompaction(p, a)
      BY <2>1, <1>2
      DEF Next, Environment, Step, StartRead, StartCompaction,
          FinishCompaction, Edit, Tick, Abort, ReadText, HashFile, Load, Mark,
          Emit, OpenTmp, WriteTmp, Rename, vars, outside, Typed, TypeOK
    <3>2. pc'[p] # "idle" /\ call'[p].mode = "mark" /\ call'[p].agent = a
      BY <3>1 DEF StartCompaction, Typed, TypeOK
    <3> QED
      BY <3>2
  <2>2. CASE phase[a] = "compacting" /\ Marked(ledger[StoreOf[a]])
    <3>1. CASE ledger'[StoreOf[a]] = ledger[StoreOf[a]]
      BY <3>1, <2>2
    <3>2. CASE ledger'[StoreOf[a]] # ledger[StoreOf[a]]
      <4>1. PICK p \in Calls : /\ pc[p] = "rename"
                               /\ call[p].agent = a
                               /\ ledger'[StoreOf[a]] = copy[p]
        BY <3>2, OthersKeepStore
      <4>2. call[p].mode = "mark"
        BY <4>1, <2>2 DEF Phased
      <4> QED
        BY <4>1, <4>2 DEF Marking
    <3> QED
      BY <3>1, <3>2
  <2>3. CASE phase[a] = "compacting" /\ OnItsWay(a)
    <3>1. PICK p \in Calls : /\ pc[p] # "idle"
                             /\ call[p].mode = "mark"
                             /\ call[p].agent = a
      BY <2>3
    <3>2. CASE Rename(p)
      <4>1. /\ StoreOf[a] \in Stores
            /\ ledger' = [ledger EXCEPT ![StoreOf[a]] = copy[p]]
        BY <3>1, <3>2, RenamePublishes, OwnStore
      <4>2. Marked(copy[p])
        BY <3>1, <3>2 DEF Rename, Marking
      <4> QED
        BY <4>1, <4>2 DEF Typed, TypeOK
    <3>3. CASE pc'[p] # "idle" /\ UNCHANGED call[p]
      BY <3>1, <3>3
    <3>4. ASSUME NEW q \in Calls, Step(q), ~Rename(p)
          PROVE  pc'[p] # "idle" /\ UNCHANGED call[p]
      <4>1. q = p
        BY <1>0 DEF OneCall
      <4>2. pc[p] \notin {"read", "hash", "emit"}
        BY <3>1 DEF Typed, CallShape
      <4> QED
        BY <3>4, <4>1, <4>2
        DEF Step, ReadText, HashFile, Load, Mark, Emit, OpenTmp, WriteTmp,
            Typed, TypeOK, outside
    <3>5. ASSUME NEW q \in Calls,
                 \/ Abort(q)
                 \/ \E b \in Agents : StartCompaction(q, b)
                 \/ \E b \in Agents, f \in Files, range \in Ranges,
                      mode \in {"read", "full"} : StartRead(q, b, f, range, mode)
          PROVE  FALSE
      <4>1. q = p
        BY <1>0 DEF OneCall
      <4> QED
        BY <3>1, <3>5, <4>1 DEF Abort, StartCompaction, StartRead, Watermarked
    <3>6. CASE \/ \E b \in Agents : FinishCompaction(b)
               \/ \E f \in Files, c \in Contents \cup {None} : Edit(f, c)
               \/ Tick
               \/ UNCHANGED vars
      BY <3>1, <3>6 DEF FinishCompaction, Edit, Tick, vars
    <3> QED
      BY <3>2, <3>3, <3>4, <3>5, <3>6 DEF Next, Environment
  <2> QED
    BY <1>2, <2>1, <2>2, <2>3 DEF Marking
<1> QED
  BY <1>1, <1>2 DEF Marking

LEMMA FreshMore ==
    ASSUME NEW led, NEW held, NEW more, held \subseteq more, Fresh(led, held)
    PROVE  Fresh(led, more)
BY DEF Fresh, FreshFile

\* Only the end of a compaction takes lines from a context.
LEMMA ContextsGrow ==
    ASSUME Typed, [Next]_vars, NEW a \in Agents,
           ~(context[a] \subseteq context'[a])
    PROVE  FinishCompaction(a)
<1>1. ASSUME NEW p \in Calls, Emit(p) PROVE context[a] \subseteq context'[a]
  BY <1>1 DEF Emit, Typed, TypeOK, outside
<1>2. ASSUME NEW b \in Agents, FinishCompaction(b), b # a
      PROVE  context'[a] = context[a]
  BY <1>2 DEF FinishCompaction, Typed, TypeOK
<1> QED
  BY <1>1, <1>2
  DEF Next, Environment, Step, StartRead, StartCompaction, Edit, Tick, Abort,
      ReadText, HashFile, Load, Mark, OpenTmp, WriteTmp, Rename, vars, outside

\* What a call prints on the way to its save includes a line of any content
\* that has one.
LEMMA SomethingPrinted ==
    ASSUME Watermarked, Typed, TextIsHashed, NEW p \in Calls, Emit(p),
           ~Exit(p), Length[hash[p]] > 0
    PROVE  \E n \in Lines :
              <<call[p].file, hash[p], n>> \in context'[call[p].agent]
<1>1. /\ pc[p] = "emit" /\ ~SaysUnchanged(p)
      /\ context' = [context EXCEPT ![call[p].agent] = @ \cup
            {<<call[p].file, text[p], n>> :
               n \in Missing(p) \cap 1..Length[text[p]]}]
  BY DEF Emit
<1>2. /\ call[p].agent \in Agents /\ call[p].range \in Ranges
      /\ hash[p] \in Contents /\ text[p] = hash[p]
  BY <1>1 DEF Typed, CallShape, Call, TextIsHashed
<1>3. Missing(p) # {}
  <2>1. CASE call[p].mode = "full"
    BY <1>2, <2>1 DEF Missing, Withheld, Wanted, Watermarked
  <2>2. CASE call[p].mode # "full"
    BY <1>1, <2>2 DEF SaysUnchanged
  <2> QED
    BY <2>1, <2>2
<1>4. Missing(p) \subseteq Lines /\ Missing(p) \subseteq 1..Length[hash[p]]
  <2>1. Length[hash[p]] \in Nat
    BY <1>2, ConstantsAssumption DEF ConstantsAssumption
  <2> QED
    BY <1>2, <2>1, ConstantsAssumption
    DEF Missing, Wanted, Want, Lines, ConstantsAssumption
<1>5. PICK n \in Lines : n \in Missing(p) \cap 1..Length[hash[p]]
  BY <1>3, <1>4
<1> QED
  BY <1>1, <1>2, <1>5 DEF Typed, TypeOK

LEMMA CurrentStep ==
    ASSUME Watermarked, Typed, TextIsHashed, Alone, Phased, Marking, Current,
           [Next]_vars
    PROVE  Current'
<1> USE DEF Goto
<1>0. OneCall /\ TicksPerSecond = 1
  BY DEF Watermarked
<1>1. ASSUME NEW a \in Agents, phase'[a] = "live"
      PROVE  Fresh(ledger'[StoreOf[a]], context'[a])
  <2>1. CASE phase[a] = "compacting"
    <3>1. FinishCompaction(a)
      BY <2>1, <1>1
      DEF Next, Environment, Step, StartRead, StartCompaction,
          FinishCompaction, Edit, Tick, Abort, ReadText, HashFile, Load, Mark,
          Emit, OpenTmp, WriteTmp, Rename, vars, outside, Typed, TypeOK
    <3>2. Marked(ledger[StoreOf[a]])
      BY <3>1, <2>1 DEF FinishCompaction, Running, Marking
    <3>3. UNCHANGED ledger /\ ledger[StoreOf[a]] \in Ledger
      BY <3>1, ConstantsAssumption
      DEF FinishCompaction, Typed, TypeOK, ConstantsAssumption
    <3> QED
      BY <3>2, <3>3, <1>0, MarkedIsFresh
  <2>2. CASE phase[a] = "live"
    <3>1. context[a] \subseteq context'[a]
      BY <2>2, ContextsGrow DEF FinishCompaction
    <3>2. Fresh(ledger'[StoreOf[a]], context[a])
      <4>1. CASE ledger'[StoreOf[a]] = ledger[StoreOf[a]]
        BY <4>1, <2>2 DEF Current
      <4>2. CASE ledger'[StoreOf[a]] # ledger[StoreOf[a]]
        <5>1. PICK p \in Calls : /\ pc[p] = "rename"
                                 /\ call[p].agent = a
                                 /\ ledger'[StoreOf[a]] = copy[p]
          BY <4>2, OthersKeepStore
        <5>2. call[p].mode # "mark"
          BY <5>1, <2>2 DEF Phased
        <5> QED
          BY <5>1, <5>2 DEF Current
      <4> QED
        BY <4>1, <4>2
    <3> QED
      BY <3>1, <3>2, FreshMore
  <2> QED
    BY <2>1, <2>2 DEF Typed, TypeOK
<1>2. ASSUME NEW p \in Calls, pc'[p] \in {"open", "write", "rename"},
             call'[p].mode # "mark"
      PROVE  Fresh(copy'[p], context'[call'[p].agent])
  <2>1. CASE Emit(p)
    <3>1. ~Exit(p)
      BY <1>2 DEF Exit, Typed, TypeOK
    <3> DEFINE a == call[p].agent
               led == Deliver(copy[p], call[p].file, Missing(p), hash[p], clock)
    <3>2. pc[p] = "emit" /\ UNCHANGED call /\ copy'[p] = led
      BY <2>1, <3>1 DEF Emit, Typed, TypeOK
    <3>3. a \in Agents /\ call[p].file \in Files /\ hash[p] \in Contents
      BY <3>2 DEF Typed, CallShape, Call
    <3>4. phase[a] = "live"
      BY <3>2, <3>3, <1>2 DEF Phased, Typed, TypeOK
    <3>5. Fresh(copy[p], context[a])
      BY <3>2, <3>3, <3>4, OwnStore DEF Alone, Current
    <3>6. context[a] \subseteq context'[a]
      BY <3>3, <3>4, ContextsGrow DEF FinishCompaction
    <3>7. Length[hash[p]] > 0 =>
             \E n \in Lines : <<call[p].file, hash[p], n>> \in context'[a]
      BY <2>1, <3>1, SomethingPrinted
    <3>8. Fresh(led, context'[a])
      <4>1. copy[p] \in Ledger /\ Missing(p) \in SUBSET Lines
        BY WantedType DEF Typed, TypeOK
      <4> HIDE DEF a
      <4> QED
        BY <3>3, <3>5, <3>6, <3>7, <4>1, DeliverIsFresh
    <3> QED
      BY <3>2, <3>8
  <2>2. CASE /\ UNCHANGED <<call[p], copy[p]>>
             /\ pc[p] \in {"open", "write", "rename"}
    <3>1. call[p].agent \in Agents
      BY <2>2, OwnStore
    <3>2. phase[call[p].agent] = "live"
      BY <2>2, <3>1, <1>2 DEF Phased, Typed, TypeOK
    <3>3. context[call[p].agent] \subseteq context'[call[p].agent]
      BY <3>1, <3>2, ContextsGrow DEF FinishCompaction
    <3>4. Fresh(copy[p], context[call[p].agent])
      BY <2>2, <1>2 DEF Current
    <3> QED
      BY <2>2, <3>3, <3>4, FreshMore
  <2>3. ASSUME NEW q \in Calls, Step(q) \/ Abort(q), ~Emit(p)
        PROVE  /\ UNCHANGED <<call[p], copy[p]>>
               /\ pc[p] \in {"open", "write", "rename"}
    <3>1. q = p
      BY <1>0 DEF OneCall
    <3>2. ~Exit(p) /\ ~Rename(p)
      BY <1>2 DEF Exit, Rename, Typed, TypeOK
    <3>3. ~Mark(p)
      <4>1. ASSUME Mark(p) PROVE pc[p] = "mark" /\ UNCHANGED call
        BY <4>1 DEF Mark
      <4> QED
        BY <4>1, <1>2 DEF Typed, CallShape
    <3> QED
      BY <2>3, <3>1, <3>2, <3>3, <1>2
      DEF Step, Abort, ReadText, HashFile, Load, OpenTmp, WriteTmp, Typed,
          TypeOK, outside
  <2>4. ASSUME NEW q \in Calls,
               \/ \E a \in Agents : StartCompaction(q, a)
               \/ \E a \in Agents, f \in Files, range \in Ranges,
                    mode \in {"read", "full"} : StartRead(q, a, f, range, mode)
        PROVE  FALSE
    <3>1. q = p
      BY <1>0 DEF OneCall
    <3> QED
      BY <2>4, <3>1, <1>2 DEF StartCompaction, StartRead, Typed, TypeOK
  <2>5. CASE \/ \E a \in Agents : FinishCompaction(a)
             \/ \E f \in Files, c \in Contents \cup {None} : Edit(f, c)
             \/ Tick
             \/ UNCHANGED vars
    <3>1. /\ UNCHANGED <<call[p], copy[p]>>
          /\ pc[p] \in {"open", "write", "rename"}
      BY <2>5, <1>2 DEF FinishCompaction, Edit, Tick, vars
    <3> QED
      BY <3>1, <2>2
  <2> QED
    BY <2>1, <2>2, <2>3, <2>4, <2>5 DEF Next, Environment
<1> QED
  BY <1>1, <1>2 DEF Current

\* While watermarks do their work, a call withholds nothing of a file and its
\* content, after a compaction, until something of it has been printed again
\* (state.rs mark_compacted, survives_compaction, deliver).
THEOREM CompactionForgets ==
    ASSUME Watermarked
    PROVE  Spec => []NoClaimBeforeRedelivery
<1> DEFINE Inv == /\ Typed /\ TextIsHashed /\ Alone
                  /\ Clocked /\ Phased /\ Marking /\ Current
<1>1. Init => Inv
  <2> SUFFICES ASSUME Init PROVE Inv
    OBVIOUS
  <2>1. Typed
    BY TypedInit
  <2>2. TextIsHashed /\ Alone /\ Phased /\ Marking
    BY DEF Init, TextIsHashed, Alone, Phased, Marking
  <2>3. Clocked
    BY <2>1, EmptyIsOld DEF Init, Clocked, Typed, TypeOK
  <2>4. Fresh(EmptyLedger, {})
    BY ConstantsAssumption
    DEF Fresh, FreshFile, EmptyLedger, NoEntry, ConstantsAssumption
  <2>5. Current
    BY <2>4, ConstantsAssumption DEF Init, Current, ConstantsAssumption
  <2> QED
    BY <2>1, <2>2, <2>3, <2>5
<1>2. Inv /\ [Next]_vars => Inv'
  <2> SUFFICES ASSUME Inv, [Next]_vars PROVE Inv'
    OBVIOUS
  <2>1. OneCall /\ "edit_in_call" \notin Env
    BY DEF Watermarked
  <2>2. Typed'
    BY TypedStep
  <2>3. TextIsHashed'
    BY <2>1, TextIsHashedStep
  <2>4. Alone'
    BY <2>1, AloneStep
  <2>5. Clocked'
    BY <2>1, <2>2, ClockedStep
  <2>6. Phased'
    BY <2>1, PhasedStep
  <2>7. Marking'
    BY MarkingStep
  <2>8. Current'
    BY CurrentStep
  <2> QED
    BY <2>2, <2>3, <2>4, <2>5, <2>6, <2>7, <2>8
<1>3. Inv => NoClaimBeforeRedelivery
  <2> SUFFICES ASSUME Inv, NEW p \in Calls, pc[p] = "emit", Claim(p) # {}
               PROVE  \E n \in Lines :
                         <<call[p].file, hash[p], n>> \in context[call[p].agent]
    BY DEF NoClaimBeforeRedelivery
  <2>1. /\ call[p].mode # "mark" /\ call[p].agent \in Agents
        /\ call[p].file \in Files /\ hash[p] \in Contents
    BY DEF Typed, CallShape, Call
  <2>2. phase[call[p].agent] = "live"
    BY <2>1 DEF Phased, Typed, TypeOK
  <2>3. FreshFile(copy[p], call[p].file, context[call[p].agent])
    BY <2>1, <2>2, OwnStore DEF Alone, Current, Fresh
  <2>4. PICK n : n \in Withheld(p) \cap 1..Length[hash[p]]
    BY DEF Claim
  <2>5. /\ copy[p].files[call[p].file].hash = hash[p]
        /\ SurvivesCompaction(copy[p], copy[p].files[call[p].file].delivered_at)
        /\ n \in copy[p].files[call[p].file].lines
    BY <2>4 DEF Withheld, Covered
  <2> QED
    BY <2>1, <2>3, <2>4, <2>5 DEF FreshFile
<1> QED
  BY <1>1, <1>2, <1>3, PTL DEF Spec

=============================================================================
