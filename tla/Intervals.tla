----------------------------- MODULE Intervals ------------------------------
(***************************************************************************)
(* The interval lists of one file in pk-read's ledger (read/src/state.rs): *)
(* merge, intersect and gaps, and the sequence of deliveries that builds   *)
(* the list.  ReadLedger keeps the set of delivered lines instead; here    *)
(* `held' is that set, computed by its definition, and the properties say  *)
(* that the list and the functions on it denote it.                        *)
(***************************************************************************)
EXTENDS Integers, Sequences, SequencesExt, FiniteSetsExt

CONSTANTS
    MaxLine,   \* bound: last line of the file
    MaxLength  \* bound: intervals in a list, before deliveries stop

ASSUME BoundsAssumption == MaxLine \in Nat \ {0} /\ MaxLength \in Nat \ {0}

VARIABLES intervals, held

vars == <<intervals, held>>

Before(i, j) == i[1] < j[1] \/ (i[1] = j[1] /\ i[2] < j[2])

\* Mutant: the last interval takes the new end even if it is smaller.
JoinShrinking(out, i) ==
    LET n == Len(out)
    IN  IF out # <<>> /\ i[1] <= out[n][2] + 1
        THEN [out EXCEPT ![n][2] = i[2]]
        ELSE Append(out, i)

\* The body of merge's loop: join the next interval to the last one if they
\* overlap or touch.
Join(out, i) ==
    LET n == Len(out)
    IN  IF out # <<>> /\ i[1] <= out[n][2] + 1
        THEN [out EXCEPT ![n][2] = Max({@, i[2]})]
        ELSE Append(out, i)

\* What sort_unstable makes of a list: each interval goes where as many others belong before it.
Place(v, i) == Cardinality({j \in DOMAIN v : Before(v[j], v[i]) \/ (v[j] = v[i] /\ j <= i)})
Sorted(v) == [n \in DOMAIN v |-> v[CHOOSE i \in DOMAIN v : Place(v, i) = n]]

merge(v) == FoldLeft(Join, <<>>, Sorted(v))

\* What there is of an interval in another, upside down if nothing.
Clip(i, want) == <<Max({i[1], want[1]}), Min({i[2], want[2]})>>
Keep(kept, i) == IF i[1] <= i[2] THEN Append(kept, i) ELSE kept

intersect(have, want) ==
    FoldLeft(LAMBDA kept, i : Keep(kept, Clip(i, want)), <<>>, have)

\* Mutant: the cursor stops on the last held line.
SweepMutant(acc, i) ==
    [out |-> Keep(acc.out, <<acc.cursor, i[1] - 1>>), cursor |-> Max({acc.cursor, i[2]})]

\* The body of gaps' loop: what lies between the cursor and the next interval.
Sweep(acc, i) ==
    [out |-> Keep(acc.out, <<acc.cursor, i[1] - 1>>), cursor |-> Max({acc.cursor, i[2] + 1})]

gaps(have, want) ==
    LET end == FoldLeft(Sweep, [out |-> <<>>, cursor |-> want[1]], intersect(have, want))
    IN  Keep(end.out, <<end.cursor, want[2]>>)

\* What main asks for: clipped to the text, so possibly upside down.
Ranges == (1..MaxLine + 1) \X (0..MaxLine)

Init == intervals = <<>> /\ held = {}

\* deliver, the hash unchanged: a gap, or any range at all under --full.
Deliver(sent) ==
    /\ Len(intervals) < MaxLength
    /\ intervals' = merge(Append(intervals, sent))
    /\ held' = held \cup sent[1]..sent[2]

\* deliver, the hash changed.
DeliverChanged(sent) ==
    /\ intervals' = merge(<<sent>>)
    /\ held' = sent[1]..sent[2]

\* A call without --full delivers each gap of its range in turn.
DeliverGaps(want) ==
    LET missing == gaps(intersect(intervals, want), want)
    IN  /\ missing # <<>>
        /\ Len(intervals) + Len(missing) <= MaxLength
        /\ intervals' = FoldLeft(LAMBDA v, sent : merge(Append(v, sent)),
                                 intervals, missing)
        /\ held' = held \cup want[1]..want[2]

Next ==
    \E range \in Ranges :
        Deliver(range) \/ DeliverChanged(range) \/ DeliverGaps(range)

Spec == Init /\ [][Next]_vars

-----------------------------------------------------------------------------
LinesOf(v) == UNION {v[k][1]..v[k][2] : k \in DOMAIN v}

\* The list denotes the lines delivered, and is merged, sorted and non-overlapping, as
\* FileState promises: two different intervals leave at least one line between them.
ListDenotesDelivered ==
    /\ LinesOf(intervals) = held
    /\ \A j, k \in DOMAIN intervals :
          j < k => intervals[j][2] + 1 < intervals[k][1]

\* Of any range, what main withholds (intersect of covered) and what it sends
\* (gaps of what it withholds) are exactly the range: nothing is sent twice,
\* nothing is left out.
AnswersArePartitions ==
    \A want \in Ranges :
        LET known == intersect(intervals, want)
            missing == gaps(known, want)
        IN  /\ LinesOf(known) = held \cap want[1]..want[2]
            /\ LinesOf(missing) = (want[1]..want[2]) \ held
            /\ \A k \in DOMAIN missing : missing[k][1] <= missing[k][2]
=============================================================================
