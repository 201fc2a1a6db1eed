----------------------------- MODULE MergeTopN -----------------------------
(***************************************************************************)
(* merge_top_n of src/merger.rs: the k-way merge of the exchanges' sorted  *)
(* level slices into the best n levels of one side of the book, with the   *)
(* two comparators merge() passes to it.  One action per turn of the inner *)
(* loop over the slices and one for the end of a turn of the outer loop.   *)
(* Slices and levels are numbered from 1 here, from 0 in the code; a       *)
(* cursor counts the levels already taken from its slice in both.          *)
(***************************************************************************)
EXTENDS Integers, Sequences

CONSTANTS
    N,                      \* the n asked for
    Capacity,               \* DEPTH, the capacity of the result ArrayVec
    Inputs                  \* the [side, slices] merge() may be called with

VARIABLES
    side,                   \* which comparator is passed
    slices,                 \* the tagged slices
    cursors,                \* per slice, the levels taken from it
    i,                      \* the next slice the inner loop looks at
    best,                   \* the best slice so far in this turn, or NoSlice
    result,                 \* the levels pushed
    origin,                 \* where each pushed level came from (history)
    pc                      \* "scan" or "done"

mergeVars == <<side, slices, cursors, i, best, result, origin, pc>>

NoSlice == 0
Sides == {"bids", "asks"}
RawLevels == [price : Nat, amount : Nat]
TaggedSlices == [exchange_id : Nat, levels : Seq(RawLevels)]
MergedLevels == [price : Nat, amount : Nat, exchange_id : Nat]

\* The comparators: bids highest price first, asks lowest price first, and
\* in both the larger amount first among equal prices.
Before(s, a, b) ==
    \/ IF s = "bids" THEN a.price > b.price ELSE a.price < b.price
    \/ a.price = b.price /\ a.amount > b.amount

\* What an exchange sends, and OrderBook's invariant: one level per price,
\* bids descending and asks ascending.
IsSortedSlice(s, levels) ==
    \A m, p \in 1..Len(levels) :
        m < p => IF s = "bids" THEN levels[m].price > levels[p].price
                               ELSE levels[m].price < levels[p].price

ASSUME SizeAssumption == N \in Nat /\ Capacity \in Nat

ASSUME InputsAssumption ==
    \A in \in Inputs :
        /\ in.side \in Sides
        /\ in.slices \in Seq(TaggedSlices)
        /\ \A j \in 1..Len(in.slices) :
              IsSortedSlice(in.side, in.slices[j].levels)

K == Len(slices)
Origins == [slice : 1..K, pos : Nat \ {0}]
Levels(j) == slices[j].levels
HasNext(j) == cursors[j] < Len(Levels(j))
NextLevel(j) == Levels(j)[cursors[j] + 1]

-----------------------------------------------------------------------------
Init ==
    /\ \E in \in Inputs : side = in.side /\ slices = in.slices
    /\ cursors = [j \in 1..K |-> 0]
    /\ i = 1 /\ best = NoSlice
    /\ result = <<>> /\ origin = <<>>
    /\ pc = "scan"

\* An outer turn is under way: fewer than n have been completed.
Scanning == pc = "scan" /\ Len(result) < N

\* Mutants: the first slice with a level left wins; later slices win ties;
\* longer slices win.
ReplacesFirst == HasNext(i) /\ best = NoSlice
ReplacesOnTie ==
    HasNext(i) /\ (best = NoSlice
                     \/ ~Before(side, NextLevel(best), NextLevel(i)))
ReplacesLonger ==
    HasNext(i) /\ (best = NoSlice \/ Len(Levels(i)) > Len(Levels(best)))

\* Slice i replaces the best one when there is none yet or when its next
\* level is strictly better.
Replaces ==
    HasNext(i) /\ (best = NoSlice
                     \/ Before(side, NextLevel(i), NextLevel(best)))

(* One turn of the inner loop.                                             *)
Scan ==
    /\ Scanning
    /\ i <= K
    /\ best' = IF Replaces THEN i ELSE best
    /\ i' = i + 1
    /\ UNCHANGED <<side, slices, cursors, result, origin, pc>>

\* The cursor of the slice whose level was pushed.
Advanced(c) == c + 1

\* The breaks: every slice is exhausted, or the result is full.
NothingToPush == best = NoSlice \/ Len(result) >= Capacity

(* The end of an outer turn: push the best level and move its cursor.      *)
Push ==
    /\ Scanning
    /\ i = K + 1
    /\ ~NothingToPush
    /\ result' = Append(result, [price |-> NextLevel(best).price,
                                 amount |-> NextLevel(best).amount,
                                 exchange_id |-> slices[best].exchange_id])
    /\ origin' = Append(origin, [slice |-> best, pos |-> cursors[best] + 1])
    /\ cursors' = [cursors EXCEPT ![best] = Advanced(@)]
    /\ i' = 1 /\ best' = NoSlice
    /\ UNCHANGED <<side, slices, pc>>

(* The end of an outer turn with nothing to push.                          *)
Break ==
    /\ Scanning
    /\ i = K + 1
    /\ NothingToPush
    /\ pc' = "done"
    /\ UNCHANGED <<side, slices, cursors, i, best, result, origin>>

(* n turns have been completed.                                            *)
LoopEnds ==
    /\ pc = "scan"
    /\ Len(result) >= N
    /\ pc' = "done"
    /\ UNCHANGED <<side, slices, cursors, i, best, result, origin>>

Next == Scan \/ Push \/ Break \/ LoopEnds

Spec == Init /\ [][Next]_mergeVars

-----------------------------------------------------------------------------
TypeOK ==
    /\ side \in Sides
    /\ slices \in Seq(TaggedSlices)
    /\ cursors \in [1..K -> Nat]
    /\ i \in 1..(K + 1)
    /\ best \in 0..K
    /\ result \in Seq(MergedLevels)
    /\ origin \in Seq(Origins)
    /\ pc \in {"scan", "done"}

\* No indexing beyond the end of a slice: a cursor stays within its slice,
\* and the slice chosen in a turn has a level left to push.
CursorsInRange ==
    /\ \A j \in 1..K : cursors[j] <= Len(Levels(j))
    /\ best # NoSlice => HasNext(best)

\* The merged side is sorted best first, although each turn compares only
\* the heads of the slices.
BestFirst ==
    \A m, p \in 1..Len(result) :
        m < p => ~Before(side, result[p], result[m])

\* The result is the top of the union of the slices: no level left behind in
\* any slice is better than a level that was pushed.
NothingBetterLeft ==
    \A m \in 1..Len(result) : \A j \in 1..K :
        \A p \in (cursors[j] + 1)..Len(Levels(j)) :
            ~Before(side, Levels(j)[p], result[m])

\* Every level is pushed at most once, with its own exchange's tag, and the
\* levels taken from a slice are exactly those its cursor has passed.
EachLevelOnce ==
    /\ Len(origin) = Len(result)
    /\ \A m \in 1..Len(result) :
          /\ origin[m].pos <= cursors[origin[m].slice]
          /\ result[m].price = Levels(origin[m].slice)[origin[m].pos].price
          /\ result[m].amount = Levels(origin[m].slice)[origin[m].pos].amount
          /\ result[m].exchange_id = slices[origin[m].slice].exchange_id
    /\ \A m, p \in 1..Len(result) : origin[m] = origin[p] => m = p
    /\ \A j \in 1..K : \A p \in 1..cursors[j] :
          \E m \in 1..Len(result) : origin[m] = [slice |-> j, pos |-> p]

\* merge_top_n stops early only when there is nothing left: when it returns,
\* the result is full or every slice is exhausted.
FullOrExhausted ==
    pc = "done" => \/ Len(result) >= N
                   \/ Len(result) >= Capacity
                   \/ \A j \in 1..K : ~HasNext(j)

\* merge_top_n returns the best N levels of the union of its slices: sorted,
\* nothing better left behind, each level once, and as many as there are.
MergeIsTopN ==
    BestFirst /\ NothingBetterLeft /\ EachLevelOnce /\ FullOrExhausted

\* Equal levels of two exchanges come out in the order of the slices, so
\* that equal books give equal summaries whatever was received last.
TiesKeepSliceOrder ==
    \A m, p \in 1..Len(result) :
        /\ result[m].price = result[p].price
        /\ result[m].amount = result[p].amount
        /\ m < p
        => origin[m].slice < origin[p].slice
=============================================================================
