-------------------------- MODULE MergeTopNProofs --------------------------
(***************************************************************************)
(* Proofs about MergeTopN for every number of exchanges, every depth and   *)
(* every sorted input: the merged side is sorted, it is the top of the     *)
(* union of the slices, and it does not depend on the order of ties.       *)
(***************************************************************************)
EXTENDS MergeTruncated, TLAPS

\* The inputs stay what merge() was called with.
SortedInput == \A j \in 1..K : IsSortedSlice(side, Levels(j))

\* Half way through an inner loop, best is the first of the best heads of
\* the slices looked at so far.
ScanInv ==
    /\ best = NoSlice => \A j \in 1..(i - 1) : ~HasNext(j)
    /\ best # NoSlice =>
          /\ best < i
          /\ \A j \in 1..(i - 1) : HasNext(j) =>
                /\ ~Before(side, NextLevel(j), NextLevel(best))
                /\ j < best => Before(side, NextLevel(best), NextLevel(j))

SameLevel(a, b) == a.price = b.price /\ a.amount = b.amount

\* A level left behind that ties with a pushed one is in a later slice.
TiesLeft ==
    \A m \in 1..Len(result) : \A j \in 1..K :
        \A p \in (cursors[j] + 1)..Len(Levels(j)) :
            SameLevel(Levels(j)[p], result[m]) => origin[m].slice < j

IInv ==
    /\ TypeOK
    /\ SortedInput
    /\ CursorsInRange
    /\ ScanInv
    /\ BestFirst
    /\ NothingBetterLeft
    /\ EachLevelOnce
    /\ TiesLeft
    /\ TiesKeepSliceOrder
    /\ FullOrExhausted

IsLevel(a) == a.price \in Nat /\ a.amount \in Nat

-----------------------------------------------------------------------------
\* The comparators are strict weak orders: what is not before b, when b is
\* not before c, is not before c either.
LEMMA BeforeOrder ==
    ASSUME NEW s, NEW a, NEW b, NEW c, IsLevel(a), IsLevel(b), IsLevel(c)
    PROVE  /\ ~Before(s, a, a)
           /\ Before(s, a, b) => ~Before(s, b, a)
           /\ ~Before(s, a, b) /\ ~Before(s, b, c) => ~Before(s, a, c)
           /\ Before(s, a, b) /\ ~Before(s, c, b) => Before(s, a, c)
           /\ Before(s, a, b) /\ Before(s, b, c) => Before(s, a, c)
           /\ ~Before(s, a, b) /\ ~Before(s, b, a) <=> SameLevel(a, b)
  BY DEF Before, IsLevel, SameLevel

\* A later level of a sorted slice is not before an earlier one, and differs
\* from it.
LEMMA SortedSlice ==
    ASSUME NEW s, NEW levels \in Seq(RawLevels), IsSortedSlice(s, levels),
           NEW m \in 1..Len(levels), NEW p \in 1..Len(levels), m < p
    PROVE  Before(s, levels[m], levels[p])
  BY DEF IsSortedSlice, Before, RawLevels

\* What push does to the result.
LEMMA AppendFacts ==
    ASSUME NEW S, NEW seq \in Seq(S), NEW e \in S
    PROVE  /\ Append(seq, e) \in Seq(S)
           /\ Len(Append(seq, e)) = Len(seq) + 1
           /\ Append(seq, e)[Len(seq) + 1] = e
           /\ \A m \in 1..Len(seq) : /\ Append(seq, e)[m] = seq[m]
                                     /\ seq[m] \in S
  OBVIOUS

\* The heads of the slices are levels.
LEMMA HeadsAreLevels ==
    ASSUME TypeOK, NEW j \in 1..K
    PROVE  /\ Levels(j) \in Seq(RawLevels)
           /\ cursors[j] \in Nat
           /\ \A p \in 1..Len(Levels(j)) :
                 Levels(j)[p] \in RawLevels /\ IsLevel(Levels(j)[p])
           /\ HasNext(j) => /\ cursors[j] + 1 \in 1..Len(Levels(j))
                            /\ NextLevel(j) \in RawLevels
                            /\ IsLevel(NextLevel(j))
<1>0. slices \in Seq(TaggedSlices) /\ cursors \in [1..K -> Nat]
  BY DEF TypeOK
<1>1. slices[j] \in TaggedSlices /\ cursors[j] \in Nat
  BY <1>0 DEF K
<1>2. Levels(j) \in Seq(RawLevels)
  BY <1>1 DEF Levels, TaggedSlices
<1>3. ASSUME NEW p \in 1..Len(Levels(j))
      PROVE  Levels(j)[p] \in RawLevels /\ IsLevel(Levels(j)[p])
  <2>1. Levels(j)[p] \in RawLevels
    BY <1>2
  <2> QED
    BY <2>1 DEF RawLevels, IsLevel
<1>4. HasNext(j) => cursors[j] + 1 \in 1..Len(Levels(j))
  BY <1>1, <1>2 DEF HasNext
<1> QED
  BY <1>1, <1>2, <1>3, <1>4 DEF NextLevel

\* The invariant holds when merge() makes the call.
LEMMA InitIInv == Init => IInv
<1> SUFFICES ASSUME Init PROVE IInv
  OBVIOUS
<1>1. side \in Sides /\ slices \in Seq(TaggedSlices) /\ SortedInput
  BY InputsAssumption DEF Init, SortedInput, K, Levels
<1>2. K \in Nat
  BY <1>1 DEF K
<1>3. TypeOK
  BY <1>1, <1>2 DEF Init, TypeOK, NoSlice
<1>4. CursorsInRange
  BY <1>1, <1>2, <1>3, HeadsAreLevels
     DEF Init, CursorsInRange, K, Levels, TaggedSlices
<1>5. ScanInv
  BY DEF Init, ScanInv, NoSlice
<1>6. BestFirst /\ NothingBetterLeft /\ TiesLeft /\ TiesKeepSliceOrder
  BY DEF Init, BestFirst, NothingBetterLeft, TiesLeft, TiesKeepSliceOrder
<1>7. EachLevelOnce
  BY <1>2 DEF Init, EachLevelOnce
<1>8. FullOrExhausted
  BY DEF Init, FullOrExhausted
<1> QED
  BY <1>1, <1>3, <1>4, <1>5, <1>6, <1>7, <1>8 DEF IInv

\* EachLevelOnce is about slices, cursors and what was pushed.
LEMMA UnchangedLevels ==
    ASSUME EachLevelOnce, UNCHANGED <<slices, cursors, result, origin>>
    PROVE  EachLevelOnce'
<1>1. slices' = slices /\ cursors' = cursors /\ result' = result /\ origin' = origin
  OBVIOUS
<1>2. K' = K /\ \A j : Levels(j)' = Levels(j)
  BY <1>1 DEF K, Levels
<1>3. Len(origin') = Len(result')
  BY <1>1 DEF EachLevelOnce
<1>4. ASSUME NEW m \in 1..Len(result')
      PROVE  /\ origin'[m].pos <= cursors'[origin'[m].slice]
             /\ result'[m].price = Levels(origin[m].slice)'[origin'[m].pos].price
             /\ result'[m].amount = Levels(origin[m].slice)'[origin'[m].pos].amount
             /\ result'[m].exchange_id = slices'[origin'[m].slice].exchange_id
  BY <1>1, <1>2, <1>4 DEF EachLevelOnce
<1>5. \A m, p \in 1..Len(result') : origin'[m] = origin'[p] => m = p
  BY <1>1 DEF EachLevelOnce
<1>6. \A j \in 1..K' : \A p \in 1..cursors'[j] :
          \E m \in 1..Len(result') : origin'[m] = [slice |-> j, pos |-> p]
  BY <1>1, <1>2 DEF EachLevelOnce
<1> QED
  BY <1>3, <1>4, <1>5, <1>6 DEF EachLevelOnce

\* A turn of the inner loop keeps best the first of the best heads.
LEMMA ScanIInv == IInv /\ Scan => IInv'
<1> SUFFICES ASSUME IInv, Scan PROVE IInv'
  OBVIOUS
<1>0. /\ TypeOK /\ CursorsInRange /\ ScanInv
      /\ i \in 1..K /\ K \in Nat
  BY DEF IInv, Scan, Replaces, TypeOK, K
<1>1. /\ side' = side /\ slices' = slices /\ cursors' = cursors
      /\ result' = result /\ origin' = origin /\ pc' = pc /\ pc = "scan"
      /\ K' = K
      /\ \A j \in 1..K : /\ Levels(j)' = Levels(j)
                         /\ HasNext(j)' = HasNext(j)
                         /\ NextLevel(j)' = NextLevel(j)
  BY DEF Scan, Replaces, Scanning, K, Levels, HasNext, NextLevel
<1>2. best' \in 0..K /\ i' \in 1..(K + 1) /\ i' = i + 1
  BY <1>0 DEF Scan, Replaces, TypeOK
<1>3. TypeOK'
  BY <1>0, <1>1, <1>2 DEF TypeOK, Origins
<1>4. CursorsInRange'
  BY <1>0, <1>1 DEF Scan, Replaces, CursorsInRange, NoSlice, TypeOK
<1>5. ScanInv'
  <2>1. CASE best = NoSlice /\ ~HasNext(i)
    BY <1>0, <1>1, <1>2, <2>1 DEF Scan, Replaces, ScanInv, NoSlice
  <2>2. CASE best = NoSlice /\ HasNext(i)
    <3>1. best' = i /\ i # NoSlice
      BY <1>0, <2>2 DEF Scan, Replaces, NoSlice
    <3>2. ASSUME NEW j \in 1..i, HasNext(j) PROVE j = i
      BY <1>0, <2>2, <3>2 DEF ScanInv
    <3> QED
      BY <1>0, <1>1, <1>2, <2>2, <3>1, <3>2, HeadsAreLevels, BeforeOrder
         DEF ScanInv
  <2>3. CASE best # NoSlice /\ HasNext(i)
               /\ Before(side, NextLevel(i), NextLevel(best))
    <3>1. best' = i /\ i # NoSlice /\ best \in 1..K /\ HasNext(best)
      BY <1>0, <2>3 DEF Scan, Replaces, NoSlice, TypeOK, CursorsInRange
    <3>2. ASSUME NEW j \in 1..(i - 1), HasNext(j)
          PROVE  Before(side, NextLevel(i), NextLevel(j))
      <4>1. j \in 1..K /\ ~Before(side, NextLevel(j), NextLevel(best))
        BY <1>0, <2>3, <3>2 DEF ScanInv
      <4> QED
        BY <1>0, <2>3, <3>1, <3>2, <4>1, HeadsAreLevels, BeforeOrder
    <3>3. ASSUME NEW j \in 1..i, HasNext(j)
          PROVE  /\ ~Before(side, NextLevel(j), NextLevel(i))
                 /\ j < i => Before(side, NextLevel(i), NextLevel(j))
      <4>1. j \in 1..K
        BY <1>0
      <4>2. IsLevel(NextLevel(i)) /\ IsLevel(NextLevel(j))
        BY <1>0, <2>3, <3>3, <4>1, HeadsAreLevels
      <4>3. CASE j = i
        BY <4>2, <4>3, BeforeOrder
      <4>4. CASE j \in 1..(i - 1)
        BY <3>2, <3>3, <4>2, <4>4, BeforeOrder
      <4> QED
        BY <1>0, <4>3, <4>4
    <3> QED
      BY <1>0, <1>1, <1>2, <3>1, <3>3 DEF ScanInv
  <2>4. CASE best # NoSlice
               /\ ~(HasNext(i) /\ Before(side, NextLevel(i), NextLevel(best)))
    <3>1. best' = best /\ best \in 1..K /\ best < i
      BY <1>0, <2>4 DEF Scan, Replaces, ScanInv, NoSlice, TypeOK
    <3>2. ASSUME NEW j \in 1..i, HasNext(j)
          PROVE  /\ ~Before(side, NextLevel(j), NextLevel(best))
                 /\ j < best => Before(side, NextLevel(best), NextLevel(j))
      <4>1. CASE j = i
        BY <2>4, <3>1, <3>2, <4>1
      <4>2. CASE j \in 1..(i - 1)
        BY <2>4, <3>2, <4>2, <1>0 DEF ScanInv
      <4> QED
        BY <1>0, <4>1, <4>2
    <3> QED
      BY <1>0, <1>1, <1>2, <2>4, <3>1, <3>2 DEF ScanInv
  <2> QED
    BY <2>1, <2>2, <2>3, <2>4
<1>6. SortedInput' /\ NothingBetterLeft' /\ TiesLeft'
  BY <1>1 DEF IInv, SortedInput, NothingBetterLeft, TiesLeft
<1>7. BestFirst' /\ TiesKeepSliceOrder'
  BY <1>1 DEF IInv, BestFirst, TiesKeepSliceOrder
<1>8. EachLevelOnce'
  BY <1>1, UnchangedLevels DEF IInv
<1>9. FullOrExhausted'
  BY <1>1 DEF FullOrExhausted
<1> QED
  BY <1>3, <1>4, <1>5, <1>6, <1>7, <1>8, <1>9 DEF IInv

\* At the end of the inner loop no level left in any slice is before the
\* head of the best one, and a level equal to it is in a later slice.
LEMMA BestOfAll ==
    ASSUME IInv, i = K + 1, best # NoSlice,
           NEW j \in 1..K,
           NEW p \in (cursors[j] + 1)..Len(Levels(j)),
           j = best => p > cursors[j] + 1
    PROVE  /\ ~Before(side, Levels(j)[p], NextLevel(best))
           /\ SameLevel(Levels(j)[p], NextLevel(best)) => best < j
<1>0. TypeOK /\ CursorsInRange /\ ScanInv /\ SortedInput /\ K \in Nat
  BY DEF IInv, TypeOK, K
<1>1. best \in 1..K /\ HasNext(best) /\ IsLevel(NextLevel(best))
  BY <1>0, HeadsAreLevels DEF TypeOK, CursorsInRange, NoSlice
<1>2. /\ Levels(j) \in Seq(RawLevels) /\ cursors[j] \in Nat
      /\ p \in 1..Len(Levels(j)) /\ HasNext(j)
      /\ cursors[j] + 1 \in 1..Len(Levels(j))
      /\ IsLevel(Levels(j)[p]) /\ IsLevel(NextLevel(j))
  <2>1. Levels(j) \in Seq(RawLevels) /\ cursors[j] \in Nat
    BY <1>0, HeadsAreLevels
  <2>2. p \in 1..Len(Levels(j)) /\ HasNext(j)
    BY <2>1 DEF HasNext
  <2> QED
    BY <1>0, <2>1, <2>2, HeadsAreLevels
<1>3. /\ ~Before(side, NextLevel(j), NextLevel(best))
      /\ j < best => Before(side, NextLevel(best), NextLevel(j))
  BY <1>0, <1>1, <1>2 DEF ScanInv
<1>4. CASE p = cursors[j] + 1
  <2>1. Levels(j)[p] = NextLevel(j) /\ j # best
    BY <1>2, <1>4 DEF NextLevel
  <2>2. SameLevel(NextLevel(j), NextLevel(best)) =>
          ~Before(side, NextLevel(best), NextLevel(j))
    BY <1>1, <1>2, BeforeOrder
  <2> QED
    BY <1>0, <1>1, <1>3, <2>1, <2>2
<1>5. CASE p > cursors[j] + 1
  <2>1. Before(side, NextLevel(j), Levels(j)[p])
    BY <1>0, <1>2, <1>5, SortedSlice DEF SortedInput, NextLevel
  <2>2. ~Before(side, Levels(j)[p], NextLevel(best))
    BY <1>1, <1>2, <1>3, <2>1, BeforeOrder
  <2>3. ~SameLevel(Levels(j)[p], NextLevel(best))
    BY <1>1, <1>2, <1>3, <2>1, BeforeOrder
  <2> QED
    BY <2>2, <2>3
<1> QED
  BY <1>2, <1>4, <1>5

\* Pushing the best head keeps the result sorted and complete.
LEMMA PushIInv == IInv /\ Push => IInv'
<1> SUFFICES ASSUME IInv, Push PROVE IInv'
  OBVIOUS
<1> DEFINE x == [price |-> NextLevel(best).price,
                 amount |-> NextLevel(best).amount,
                 exchange_id |-> slices[best].exchange_id]
           o == [slice |-> best, pos |-> cursors[best] + 1]
           L == Len(result)
<1>0. /\ TypeOK /\ CursorsInRange /\ ScanInv /\ SortedInput /\ K \in Nat
      /\ i = K + 1 /\ best # NoSlice /\ best \in 1..K /\ HasNext(best)
      /\ L \in Nat /\ Len(origin) = L
  BY DEF IInv, Push, NothingToPush, TypeOK, CursorsInRange, K, NoSlice,
         EachLevelOnce
<1>1. /\ side' = side /\ slices' = slices /\ pc' = pc /\ pc = "scan"
      /\ i' = 1 /\ best' = NoSlice /\ K' = K
      /\ \A j : Levels(j)' = Levels(j)
  BY DEF Push, Scanning, K, Levels
<1>2. /\ cursors' \in [1..K -> Nat]
      /\ cursors'[best] = cursors[best] + 1
      /\ \A j \in 1..K : /\ cursors[j] \in Nat
                         /\ j # best => cursors'[j] = cursors[j]
  BY <1>0 DEF Push, Advanced, TypeOK
<1>3. /\ slices[best] \in TaggedSlices /\ IsLevel(NextLevel(best))
      /\ cursors[best] + 1 \in 1..Len(Levels(best))
      /\ Levels(best) \in Seq(RawLevels)
      /\ NextLevel(best) = Levels(best)[cursors[best] + 1]
  BY <1>0, HeadsAreLevels DEF TypeOK, K, NextLevel
<1>4. x \in MergedLevels
      /\ o \in Origins
  BY <1>0, <1>2, <1>3 DEF IsLevel, TaggedSlices, MergedLevels, Origins
<1>5. /\ result' = Append(result, x) /\ origin' = Append(origin, o)
  BY DEF Push
<1>6. /\ result' \in Seq(MergedLevels)
      /\ Len(result') = L + 1 /\ result'[L + 1] = x
      /\ \A m \in 1..L : result'[m] = result[m] /\ IsLevel(result[m])
  <2>1. result \in Seq(MergedLevels)
    BY <1>0 DEF TypeOK
  <2>2. /\ result' \in Seq(MergedLevels)
        /\ Len(result') = L + 1 /\ result'[L + 1] = x
        /\ \A m \in 1..L : result'[m] = result[m] /\ result[m] \in MergedLevels
    BY <1>4, <1>5, <2>1, AppendFacts
  <2> QED
    BY <2>2 DEF IsLevel, MergedLevels
<1>7. /\ origin' \in Seq(Origins)
      /\ Len(origin') = L + 1 /\ origin'[L + 1] = o
      /\ \A m \in 1..L : /\ origin'[m] = origin[m]
                         /\ origin[m] \in Origins
  <2>1. origin \in Seq(Origins) /\ Len(origin) = L
    BY <1>0 DEF TypeOK
  <2> QED
    BY <1>4, <1>5, <2>1, AppendFacts
<1> HIDE DEF x, o, L
<1>8. TypeOK'
  <2>1. Origins' = Origins
    BY <1>1 DEF Origins
  <2>2. side \in Sides /\ slices \in Seq(TaggedSlices)
    BY <1>0 DEF TypeOK
  <2> QED
    BY <1>0, <1>1, <1>2, <1>6, <1>7, <2>1, <2>2 DEF TypeOK, NoSlice
<1>9. SortedInput'
  BY <1>0, <1>1 DEF SortedInput
<1>10. CursorsInRange'
  <2>1. ASSUME NEW j \in 1..K PROVE cursors'[j] <= Len(Levels(j))
    <3>1. CASE j = best
      BY <1>2, <1>3, <3>1
    <3>2. CASE j # best
      BY <1>0, <1>2, <3>2 DEF CursorsInRange
    <3> QED
      BY <3>1, <3>2
  <2> QED
    BY <1>1, <2>1 DEF CursorsInRange
<1>11. ScanInv'
  BY <1>1 DEF ScanInv, NoSlice
<1>12. SameLevel(x, NextLevel(best)) /\ IsLevel(x)
  BY <1>3 DEF x, SameLevel, IsLevel
<1>13. ASSUME NEW a
       PROVE  /\ Before(side, a, x) <=> Before(side, a, NextLevel(best))
              /\ SameLevel(a, x) <=> SameLevel(a, NextLevel(best))
  BY <1>12 DEF Before, SameLevel
<1>14. BestFirst'
  <2> SUFFICES ASSUME NEW m \in 1..(L + 1), NEW p \in 1..(L + 1), m < p
               PROVE  ~Before(side, result'[p], result'[m])
    BY <1>1, <1>6 DEF BestFirst
  <2>1. CASE p \in 1..L
    <3>1. m \in 1..L
      BY <1>0, <2>1
    <3>2. ~Before(side, result[p], result[m])
      BY <2>1, <3>1 DEF IInv, BestFirst, L
    <3> QED
      BY <1>6, <2>1, <3>1, <3>2
  <2>2. CASE p = L + 1
    <3>1. m \in 1..L
      BY <1>0, <2>2
    <3>2. ~Before(side, NextLevel(best), result[m])
      BY <1>0, <1>3, <3>1 DEF IInv, NothingBetterLeft, L
    <3>3. ~Before(side, x, result[m])
      BY <1>12, <3>2 DEF Before, SameLevel
    <3> QED
      BY <1>6, <2>2, <3>1, <3>3
  <2> QED
    BY <1>0, <2>1, <2>2
<1>15. ASSUME NEW m \in 1..(L + 1), NEW j \in 1..K,
              NEW p \in (cursors'[j] + 1)..Len(Levels(j))
       PROVE  /\ ~Before(side, Levels(j)[p], result'[m])
              /\ SameLevel(Levels(j)[p], result'[m]) => origin'[m].slice < j
  <2>1. /\ p \in (cursors[j] + 1)..Len(Levels(j))
        /\ j = best => p > cursors[j] + 1
    <3>1. cursors[j] \in Nat /\ cursors'[j] \in Nat
          /\ Len(Levels(j)) \in Nat
      BY <1>0, <1>2, HeadsAreLevels
    <3> QED
      BY <1>2, <3>1
  <2>2. CASE m \in 1..L
    BY <1>0, <1>6, <1>7, <2>1, <2>2
       DEF IInv, NothingBetterLeft, TiesLeft, L
  <2>3. CASE m = L + 1
    <3>1. /\ ~Before(side, Levels(j)[p], NextLevel(best))
          /\ SameLevel(Levels(j)[p], NextLevel(best)) => best < j
      BY <1>0, <2>1, BestOfAll
    <3> QED
      BY <1>6, <1>7, <1>13, <2>3, <3>1 DEF o
  <2> QED
    BY <1>0, <2>2, <2>3
<1>16. NothingBetterLeft' /\ TiesLeft'
  BY <1>1, <1>6, <1>15 DEF NothingBetterLeft, TiesLeft
<1>17. TiesKeepSliceOrder'
  <2> SUFFICES ASSUME NEW m \in 1..(L + 1), NEW p \in 1..(L + 1), m < p,
                      SameLevel(result'[m], result'[p])
               PROVE  origin'[m].slice < origin'[p].slice
    BY <1>6 DEF TiesKeepSliceOrder, SameLevel
  <2>1. CASE p \in 1..L
    <3>1. m \in 1..L
      BY <1>0, <2>1
    <3>2. SameLevel(result[m], result[p])
      BY <1>6, <2>1, <3>1
    <3>3. origin[m].slice < origin[p].slice
      BY <2>1, <3>1, <3>2 DEF IInv, TiesKeepSliceOrder, SameLevel, L
    <3> QED
      BY <1>7, <2>1, <3>1, <3>3
  <2>2. CASE p = L + 1
    <3>1. m \in 1..L
      BY <1>0, <2>2
    <3>2. SameLevel(NextLevel(best), result[m])
      BY <1>6, <1>12, <2>2, <3>1 DEF SameLevel
    <3>3. origin[m].slice < best
      BY <1>0, <1>3, <3>1, <3>2, SMTT(30) DEF IInv, TiesLeft, L
    <3> QED
      BY <1>7, <2>2, <3>1, <3>3 DEF o
  <2> QED
    BY <1>0, <2>1, <2>2
<1>18. EachLevelOnce'
  <2>1. ASSUME NEW m \in 1..(L + 1)
        PROVE  /\ origin'[m].pos <= cursors'[origin'[m].slice]
               /\ result'[m].price
                    = Levels(origin'[m].slice)[origin'[m].pos].price
               /\ result'[m].amount
                    = Levels(origin'[m].slice)[origin'[m].pos].amount
               /\ result'[m].exchange_id
                    = slices[origin'[m].slice].exchange_id
    <3>1. CASE m \in 1..L
      <4>1. /\ origin[m].pos <= cursors[origin[m].slice]
            /\ result[m].price = Levels(origin[m].slice)[origin[m].pos].price
            /\ result[m].amount
                 = Levels(origin[m].slice)[origin[m].pos].amount
            /\ result[m].exchange_id = slices[origin[m].slice].exchange_id
        BY <3>1 DEF IInv, EachLevelOnce, L
      <4>2. cursors[origin[m].slice] <= cursors'[origin[m].slice]
        BY <1>2, <1>7, <3>1, SMTT(30) DEF Origins
      <4>3. /\ origin[m].pos \in Nat /\ cursors[origin[m].slice] \in Nat
            /\ cursors'[origin[m].slice] \in Nat
        BY <1>2, <1>7, <3>1 DEF Origins
      <4>4. result'[m] = result[m] /\ origin'[m] = origin[m]
        BY <1>6, <1>7, <3>1
      <4> QED
        BY <4>1, <4>2, <4>3, <4>4
    <3>2. CASE m = L + 1
      <4>1. result'[m] = x /\ origin'[m] = o
        BY <1>6, <1>7, <3>2
      <4>2. o.slice = best /\ o.pos = cursors[best] + 1
        BY DEF o
      <4>3. /\ x.price = Levels(best)[cursors[best] + 1].price
            /\ x.amount = Levels(best)[cursors[best] + 1].amount
            /\ x.exchange_id = slices[best].exchange_id
        BY <1>3 DEF x
      <4> QED
        BY <1>0, <1>2, <4>1, <4>2, <4>3
    <3> QED
      BY <1>0, <3>1, <3>2
  <2>2. ASSUME NEW m \in 1..L PROVE origin[m] # o
    <3>1. origin[m].pos <= cursors[origin[m].slice]
      BY DEF IInv, EachLevelOnce, L
    <3>2. o.slice = best /\ o.pos = cursors[best] + 1
      BY DEF o
    <3>3. cursors[best] \in Nat
      BY <1>0, <1>2
    <3> QED
      BY <3>1, <3>2, <3>3
  <2>3. ASSUME NEW m \in 1..(L + 1), NEW p \in 1..(L + 1),
               origin'[m] = origin'[p]
        PROVE  m = p
    <3>1. CASE m \in 1..L /\ p \in 1..L
      BY <1>7, <2>3, <3>1 DEF IInv, EachLevelOnce, L
    <3>2. CASE m = L + 1 \/ p = L + 1
      BY <1>0, <1>7, <2>2, <2>3, <3>2
    <3> QED
      BY <1>0, <3>1, <3>2
  <2>4. ASSUME NEW j \in 1..K, NEW p \in 1..cursors'[j]
        PROVE  \E m \in 1..(L + 1) : origin'[m] = [slice |-> j, pos |-> p]
    <3>1. CASE p \in 1..cursors[j]
      <4>1. PICK m \in 1..L : origin[m] = [slice |-> j, pos |-> p]
        BY <3>1 DEF IInv, EachLevelOnce, L
      <4> QED
        BY <1>0, <1>7, <4>1
    <3>2. CASE p \notin 1..cursors[j]
      <4>1. j = best /\ p = cursors[best] + 1
        BY <1>2, <3>2
      <4> QED
        BY <1>0, <1>7, <4>1 DEF o
    <3> QED
      BY <3>1, <3>2
  <2> QED
    BY <1>1, <1>6, <1>7, <2>1, <2>3, <2>4 DEF EachLevelOnce
<1>19. FullOrExhausted'
  BY <1>1 DEF FullOrExhausted
<1> QED
  BY <1>8, <1>9, <1>10, <1>11, <1>14, <1>16, <1>17, <1>18, <1>19 DEF IInv

\* The two ways out leave everything as it is.
LEMMA ReturnIInv == IInv /\ (Break \/ LoopEnds) => IInv'
<1> SUFFICES ASSUME IInv, Break \/ LoopEnds PROVE IInv'
  OBVIOUS
<1>1. /\ UNCHANGED <<side, slices, cursors, i, best, result, origin>>
      /\ pc' = "done"
  BY DEF Break, LoopEnds
<1>2. FullOrExhausted'
  <2>1. CASE LoopEnds
    BY <1>1, <2>1 DEF FullOrExhausted, LoopEnds
  <2>2. CASE Break /\ Len(result) >= Capacity
    BY <1>1, <2>2 DEF FullOrExhausted
  <2>3. CASE Break /\ best = NoSlice
    <3>1. i = K + 1 /\ K \in Nat /\ \A j \in 1..K : ~HasNext(j)
      BY <2>3 DEF IInv, ScanInv, Break, TypeOK, K
    <3> QED
      BY <1>1, <3>1 DEF FullOrExhausted, K, HasNext, Levels
  <2> QED
    BY <2>1, <2>2, <2>3 DEF Break, NothingToPush
<1>3. TypeOK'
  BY <1>1 DEF IInv, TypeOK, K, Origins
<1>4. SortedInput' /\ CursorsInRange' /\ ScanInv'
  BY <1>1 DEF IInv, SortedInput, CursorsInRange, ScanInv, K, Levels, HasNext,
              NextLevel
<1>5. BestFirst' /\ NothingBetterLeft' /\ TiesLeft' /\ TiesKeepSliceOrder'
  BY <1>1 DEF IInv, BestFirst, NothingBetterLeft, TiesLeft,
              TiesKeepSliceOrder, K, Levels
<1>6. EachLevelOnce'
  BY <1>1, UnchangedLevels DEF IInv
<1> QED
  BY <1>2, <1>3, <1>4, <1>5, <1>6 DEF IInv

\* A step that changes nothing preserves the invariant.
LEMMA StutterIInv == IInv /\ UNCHANGED mergeVars => IInv'
<1> SUFFICES ASSUME IInv, UNCHANGED mergeVars PROVE IInv'
  OBVIOUS
<1>1. UNCHANGED <<side, slices, cursors, i, best, result, origin, pc>>
  BY DEF mergeVars
<1>2. TypeOK' /\ FullOrExhausted'
  BY <1>1 DEF IInv, TypeOK, FullOrExhausted, K, Origins, HasNext, Levels
<1>3. SortedInput' /\ CursorsInRange' /\ ScanInv'
  BY <1>1 DEF IInv, SortedInput, CursorsInRange, ScanInv, K, Levels, HasNext,
              NextLevel
<1>4. BestFirst' /\ NothingBetterLeft' /\ TiesLeft' /\ TiesKeepSliceOrder'
  BY <1>1 DEF IInv, BestFirst, NothingBetterLeft, TiesLeft,
              TiesKeepSliceOrder, K, Levels
<1>5. EachLevelOnce'
  BY <1>1, UnchangedLevels DEF IInv
<1> QED
  BY <1>2, <1>3, <1>4, <1>5 DEF IInv

\* The inductive invariant of the merge loop, for every input.
THEOREM MergeInvariant == Spec => []IInv
<1>1. IInv /\ [Next]_mergeVars => IInv'
  BY ScanIInv, PushIInv, ReturnIInv, StutterIInv DEF Next
<1> QED
  BY <1>1, InitIInv, PTL DEF Spec

\* Cursors never leave their slices: the indexing in the loop cannot panic.
THEOREM MergeCursorsInRange == Spec => []CursorsInRange
  BY MergeInvariant, PTL DEF IInv

\* The merged side is sorted best first, for any number of exchanges.
THEOREM MergeBestFirst == Spec => []BestFirst
  BY MergeInvariant, PTL DEF IInv

\* The merged side is the top of the union of the slices.
THEOREM MergeNothingBetterLeft == Spec => []NothingBetterLeft
  BY MergeInvariant, PTL DEF IInv

\* No level is lost or pushed twice, and each keeps its exchange's tag.
THEOREM MergeEachLevelOnce == Spec => []EachLevelOnce
  BY MergeInvariant, PTL DEF IInv

\* The merge returns early only when every slice is exhausted.
THEOREM MergeFullOrExhausted == Spec => []FullOrExhausted
  BY MergeInvariant, PTL DEF IInv

\* The result is the best N levels of the union of the slices.
THEOREM MergeReturnsTopN == Spec => []MergeIsTopN
  BY MergeBestFirst, MergeNothingBetterLeft, MergeEachLevelOnce,
     MergeFullOrExhausted, PTL DEF MergeIsTopN

\* Ties come out in the order of the slices.
THEOREM MergeTiesKeepSliceOrder == Spec => []TiesKeepSliceOrder
  BY MergeInvariant, PTL DEF IInv
-----------------------------------------------------------------------------
\* A cursor has moved at most once per level pushed: while fewer than N have
\* been pushed no turn looks beyond the N-th level of a slice.
ShallowCursors == \A j \in 1..K : cursors[j] <= Len(result)

\* Only a push moves a cursor, and it makes the result longer.
LEMMA ShallowStep == ASSUME IInv, ShallowCursors, [Next]_mergeVars
                     PROVE  ShallowCursors'
<1>0. /\ cursors \in [1..K -> Nat] /\ Len(result) \in Nat
      /\ result \in Seq(MergedLevels)
  BY DEF IInv, TypeOK
<1>1. CASE Push
  <2>1. /\ K' = K /\ cursors' = [cursors EXCEPT ![best] = cursors[best] + 1]
        /\ Len(result') = Len(result) + 1
    BY <1>0, <1>1 DEF Push, Advanced, K
  <2> QED
    BY <1>0, <2>1 DEF ShallowCursors
<1>2. CASE ~Push
  BY <1>2 DEF ShallowCursors, Next, Scan, Break, LoopEnds, mergeVars, K
<1> QED
  BY <1>1, <1>2

\* Cutting keeps the number of slices, their tags, and every level a cursor
\* below N can reach.
LEMMA CutFacts ==
    ASSUME IInv, NEW j \in 1..K, cursors[j] < N
    PROVE  /\ Truncated!K = K
           /\ Cut(slices[j]).exchange_id = slices[j].exchange_id
           /\ Truncated!Levels(j) = Cut(slices[j]).levels
           /\ Truncated!HasNext(j) <=> HasNext(j)
           /\ HasNext(j) => Truncated!NextLevel(j) = NextLevel(j)
<1>1. /\ slices \in Seq(TaggedSlices) /\ slices[j] \in TaggedSlices
      /\ Levels(j) \in Seq(RawLevels) /\ cursors[j] \in Nat
      /\ Levels(j) = slices[j].levels /\ N \in Nat
  BY HeadsAreLevels, SizeAssumption DEF IInv, TypeOK, K, Levels
<1> DEFINE n == IF Len(Levels(j)) < N THEN Len(Levels(j)) ELSE N
<1>2. Truncated!K = K
  BY <1>1 DEF K, Truncated!K
<1>3. /\ Cut(slices[j]).exchange_id = slices[j].exchange_id
      /\ Cut(slices[j]).levels = SubSeq(Levels(j), 1, n)
  BY <1>1 DEF Cut, TaggedSlices
<1>4. Truncated!Levels(j) = Cut(slices[j]).levels
  BY <1>1 DEF K, Truncated!Levels
<1>5. n \in 0..Len(Levels(j)) /\ n <= N
  BY <1>1
<1>6. /\ Len(SubSeq(Levels(j), 1, n)) = n
      /\ \A p \in 1..n : SubSeq(Levels(j), 1, n)[p] = Levels(j)[p]
  <2> HIDE DEF n
  <2> QED
    BY <1>1, <1>5
<1>7. Truncated!HasNext(j) <=> HasNext(j)
  BY <1>1, <1>3, <1>4, <1>6 DEF HasNext, Truncated!HasNext
<1>8. ASSUME HasNext(j) PROVE Truncated!NextLevel(j) = NextLevel(j)
  <2>1. cursors[j] + 1 \in 1..n
    BY <1>1, <1>8 DEF HasNext
  <2> QED
    BY <1>3, <1>4, <1>6, <2>1 DEF NextLevel, Truncated!NextLevel
<1> QED
  BY <1>2, <1>3, <1>4, <1>7, <1>8

\* Every step of the merge is the same step of the merge of the cut slices.
LEMMA TruncatedStep ==
    ASSUME IInv, ShallowCursors, Next
    PROVE  Truncated!Next
<1>0. /\ Truncated!K = K /\ K \in Nat /\ Len(result) \in Nat
      /\ slices \in Seq(TaggedSlices) /\ i \in 1..(K + 1) /\ best \in 0..K
      /\ N \in Nat
  BY SizeAssumption DEF IInv, TypeOK, K, Truncated!K
<1>1. slices' = slices /\ side' = side
  BY DEF Next, Scan, Push, Break, LoopEnds
<1>2. ASSUME Scanning, NEW j \in 1..K PROVE cursors[j] < N
  <2>1. cursors[j] <= Len(result) /\ cursors[j] \in Nat
    BY DEF ShallowCursors, IInv, TypeOK
  <2> QED
    BY <1>0, <1>2, <2>1 DEF Scanning
<1>3. CASE Scan
  <2>1. Truncated!Replaces <=> Replaces
    <3>1. i \in 1..K /\ Scanning
      BY <1>0, <1>3 DEF Scan
    <3>2. /\ Truncated!HasNext(i) <=> HasNext(i)
          /\ HasNext(i) => Truncated!NextLevel(i) = NextLevel(i)
      BY <1>2, <3>1, CutFacts
    <3>3. best # NoSlice => Truncated!NextLevel(best) = NextLevel(best)
      <4>1. best # NoSlice => best \in 1..K /\ HasNext(best)
        BY <1>0 DEF IInv, CursorsInRange, NoSlice
      <4> QED
        BY <1>2, <3>1, <4>1, CutFacts
    <3> QED
      BY <3>2, <3>3 DEF Replaces, Truncated!Replaces, Before, Truncated!Before,
                        NoSlice, Truncated!NoSlice
  <2>2. Truncated!Scan
    BY <1>0, <1>1, <1>3, <2>1 DEF Scan, Truncated!Scan, Scanning, Truncated!Scanning
  <2> QED
    BY <2>2 DEF Truncated!Next
<1>4. CASE Push
  <2>1. best \in 1..K /\ Scanning /\ HasNext(best)
    BY <1>0, <1>4 DEF Push, NothingToPush, NoSlice, IInv, CursorsInRange
  <2>2. /\ Truncated!NextLevel(best) = NextLevel(best)
        /\ Cut(slices[best]).exchange_id = slices[best].exchange_id
    BY <1>2, <2>1, CutFacts
  <2>3. [j \in 1..Len(slices) |-> Cut(slices[j])][best] = Cut(slices[best])
    BY <2>1 DEF K
  <2>4. Truncated!Push
    BY <1>0, <1>1, <1>4, <2>2, <2>3
       DEF Push, Truncated!Push, Scanning, Truncated!Scanning, NothingToPush,
           Truncated!NothingToPush, NoSlice, Truncated!NoSlice, Advanced,
           Truncated!Advanced
  <2> QED
    BY <2>4 DEF Truncated!Next
<1>5. CASE Break
  BY <1>0, <1>1, <1>5
     DEF Break, Truncated!Next, Truncated!Break, Scanning, Truncated!Scanning,
         NothingToPush, Truncated!NothingToPush, NoSlice, Truncated!NoSlice
<1>6. CASE LoopEnds
  BY <1>1, <1>6 DEF LoopEnds, Truncated!Next, Truncated!LoopEnds
<1> QED
  BY <1>3, <1>4, <1>5, <1>6 DEF Next

\* Levels beyond the N-th of a slice have no influence on the merge, step by
\* step, for any number of slices: the parsers may drop them.
THEOREM MergeDeepLevelsAreIrrelevant == Spec => DeepLevelsAreIrrelevant
<1>1. Init => ShallowCursors
  BY DEF Init, ShallowCursors
<1>2. IInv /\ ShallowCursors /\ [Next]_mergeVars => ShallowCursors'
  BY ShallowStep
<1>3. IInv /\ ShallowCursors /\ [Next]_mergeVars =>
        [Truncated!Next]_(Truncated!mergeVars)
  BY TruncatedStep DEF mergeVars, Truncated!mergeVars
<1> QED
  BY <1>1, <1>2, <1>3, MergeInvariant, PTL DEF Spec, DeepLevelsAreIrrelevant
=============================================================================
