---------------------------- MODULE ClientProofs ----------------------------
(***************************************************************************)
(* Proofs about Client for summaries of any size, any capacity of the      *)
(* totals that holds them, and runs of any length: the terminal is given   *)
(* back however main ends, and every screen shows running totals and bars  *)
(* in proportion to them.                                                  *)
(***************************************************************************)
EXTENDS Client, WellFoundedInduction, TLAPS

\* The guard lives as long as the terminal is in raw mode.
TerminalInv ==
    /\ raw = guard
    /\ pc = "clear" => raw
    /\ pc = "gone" => ~raw

\* What is on the screen was made from something the server sent.
ScreenInv ==
    /\ summary \in Summaries \union {NoSummary}
    /\ \/ screen \in {[text |-> "none"], [text |-> Waiting]}
       \/ \E s \in Summaries : screen = Render(s)

-----------------------------------------------------------------------------
\* Induction: a set that holds 0 and with a number its successor holds all
\* numbers.
LEMMA SetInduction ==
    ASSUME NEW S, 0 \in S, \A n \in Nat : n \in S => n + 1 \in S
    PROVE  \A n \in Nat : n \in S
<1> DEFINE T == Nat \ S
           R == OpToRel(<, Nat)
<1>1. SUFFICES ASSUME T # {} PROVE FALSE
  OBVIOUS
<1>2. IsWellFoundedOn(R, Nat) /\ T \subseteq Nat
  BY NatLessThanWellFounded
<1>3. PICK m \in T : \A y \in T : <<y, m>> \notin R
  <2> HIDE DEF R, T
  <2> QED
    BY <1>1, <1>2, WFMin, Zenon
<1>4. m \in Nat /\ m # 0 /\ m - 1 \in Nat /\ m = (m - 1) + 1
  OBVIOUS
<1>5. m - 1 \in T
  BY <1>4
<1>6. <<m - 1, m>> \in R
  BY <1>4 DEF OpToRel
<1> QED
  BY <1>3, <1>5, <1>6

\* Running totals exist: there is a function that adds one amount a step.
LEMMA TotalsExist ==
    ASSUME NEW n \in Nat, NEW f \in [1..n -> Nat]
    PROVE  \E g \in [0..n -> Nat] :
              g = [k \in 0..n |-> IF k = 0 THEN 0 ELSE g[k - 1] + f[k]]
<1> DEFINE Is(g, m) == /\ g \in [0..m -> Nat] /\ g[0] = 0
                       /\ \A k \in 1..m : g[k] = g[k - 1] + f[k]
           S == {m \in Nat : m <= n => \E g : Is(g, m)}
<1>1. 0 \in S
  <2>1. Is([k \in 0..0 |-> 0], 0)
    OBVIOUS
  <2> QED
    BY <2>1
<1>2. ASSUME NEW m \in Nat, m \in S PROVE m + 1 \in S
  <2>1. SUFFICES ASSUME m + 1 <= n PROVE \E g : Is(g, m + 1)
    <3> HIDE DEF Is
    <3> QED
      OBVIOUS
  <2>2. PICK g : Is(g, m)
    <3>1. m <= n
      BY <2>1
    <3> HIDE DEF Is
    <3> QED
      BY <1>2, <3>1
  <2> DEFINE h == [k \in 0..(m + 1) |-> IF k = m + 1 THEN g[m] + f[m + 1] ELSE g[k]]
  <2>3. g[m] \in Nat /\ f[m + 1] \in Nat
    <3>1. m \in 0..m /\ m + 1 \in 1..n
      BY <2>1
    <3>2. g \in [0..m -> Nat]
      BY <2>2
    <3> QED
      BY <3>1, <3>2
  <2>4. h \in [0..(m + 1) -> Nat] /\ h[0] = 0
    BY <2>2, <2>3
  <2>5. ASSUME NEW k \in 1..(m + 1) PROVE h[k] = h[k - 1] + f[k]
    <3>1. CASE k = m + 1
      BY <3>1
    <3>2. CASE k # m + 1
      <4>1. k \in 1..m /\ k \in 0..(m + 1) /\ k - 1 \in 0..(m + 1) /\ k - 1 # m + 1
        BY <3>2
      <4> QED
        BY <2>2, <4>1
    <3> QED
      BY <3>1, <3>2
  <2> QED
    BY <2>4, <2>5
<1> HIDE DEF S
<1>3. \A m \in Nat : m \in S
  BY <1>1, <1>2, SetInduction
<1>4. PICK g : Is(g, n)
  <2> HIDE DEF Is
  <2> QED
    BY <1>3 DEF S
<1>5. g = [k \in 0..n |-> IF k = 0 THEN 0 ELSE g[k - 1] + f[k]]
  BY <1>4
<1> QED
  BY <1>4, <1>5

\* The totals of a side that fits: the first is the first amount, each other
\* one adds its own.
LEMMA CumulativeFacts ==
    ASSUME NEW side \in Seq(Nat \ {0}), Len(side) <= MAX_DISPLAY
    PROVE  /\ Cumulative(side) \in [1..Len(side) -> Nat]
           /\ \A k \in 1..Len(side) : Cumulative(side)[k] =
                 side[k] + (IF k = 1 THEN 0 ELSE Cumulative(side)[k - 1])
<1> DEFINE n == Len(side)
           F(g) == [k \in 0..n |-> IF k = 0 THEN 0 ELSE g[k - 1] + side[k]]
           total == CHOOSE g : g = F(g)
<1>1. n \in Nat /\ side \in [1..n -> Nat] /\ MAX_DISPLAY \in Nat
  BY ClientAssumption
<1>2. (IF Len(side) < MAX_DISPLAY THEN Len(side) ELSE MAX_DISPLAY) = n
  <2>1. Len(side) \in Nat /\ MAX_DISPLAY \in Nat
    BY <1>1
  <2> QED
    BY <2>1
<1>3. Cumulative(side) = [k \in 1..n |-> total[k]]
  <2>1. Cumulative(side) = [k \in 1..n |-> Totals(side, n)[k]]
    BY <1>2 DEF Cumulative
  <2>2. Totals(side, n) = total
    BY Zenon DEF Totals
  <2> QED
    BY <2>1, <2>2
<1>4. PICK g \in [0..n -> Nat] : g = F(g)
  <2> HIDE DEF n
  <2> QED
    BY <1>1, TotalsExist
<1>5. total = F(total)
  <2> HIDE DEF F
  <2> QED
    BY <1>4, Zenon
<1> HIDE DEF total
<1>6. total[0] = 0 /\ \A k \in 1..n : total[k] = total[k - 1] + side[k]
  <2>1. \A k \in 0..n : total[k] = IF k = 0 THEN 0 ELSE total[k - 1] + side[k]
    BY <1>5
  <2> QED
    BY <1>1, <2>1
<1>7. \A k \in 0..n : total[k] \in Nat
  <2> DEFINE S == {k \in Nat : k <= n => total[k] \in Nat}
  <2>1. 0 \in S
    BY <1>6
  <2>2. ASSUME NEW k \in Nat, k \in S PROVE k + 1 \in S
    <3>1. ASSUME k + 1 <= n PROVE total[k + 1] \in Nat
      <4>1. k + 1 \in 1..n /\ total[k] \in Nat /\ (k + 1) - 1 = k
        BY <1>1, <2>2, <3>1
      <4>2. side[k + 1] \in Nat
        BY <1>1, <4>1
      <4> QED
        BY <1>6, <4>1, <4>2
    <3> QED
      BY <3>1
  <2> HIDE DEF S
  <2>3. \A k \in Nat : k \in S
    BY <2>1, <2>2, SetInduction
  <2> QED
    BY <1>1, <2>3 DEF S
<1>8. Cumulative(side) \in [1..n -> Nat]
  BY <1>1, <1>3, <1>7
<1>9. ASSUME NEW k \in 1..n
      PROVE  Cumulative(side)[k] =
                side[k] + (IF k = 1 THEN 0 ELSE Cumulative(side)[k - 1])
  <2>1. /\ Cumulative(side)[k] = total[k] /\ side[k] \in Nat
        /\ k # 1 => k - 1 \in 1..n /\ Cumulative(side)[k - 1] = total[k - 1]
    BY <1>1, <1>3
  <2>2. total[k] = total[k - 1] + side[k] /\ total[k - 1] \in Nat
    BY <1>1, <1>6, <1>7
  <2> QED
    BY <1>6, <2>1, <2>2
<1> QED
  BY <1>8, <1>9

\* The last total of a side is the largest.
LEMMA LastIsLargest ==
    ASSUME NEW side \in Seq(Nat \ {0}), Len(side) <= MAX_DISPLAY
    PROVE  \A k \in 1..Len(side) :
              /\ Cumulative(side)[k] > 0
              /\ Cumulative(side)[k] <= Cumulative(side)[Len(side)]
<1> DEFINE n == Len(side)
           t == Cumulative(side)
           S == {d \in Nat : d < n => t[n - d] > 0 /\ t[n - d] <= t[n]}
<1>1. n \in Nat /\ t \in [1..n -> Nat]
  BY CumulativeFacts
<1>2. \A k \in 1..n : /\ side[k] \in Nat /\ side[k] > 0 /\ t[k] > 0
                      /\ k # 1 => t[k - 1] \in Nat /\ t[k] > t[k - 1]
  <2> SUFFICES ASSUME NEW k \in 1..n
               PROVE  /\ side[k] \in Nat /\ side[k] > 0 /\ t[k] > 0
                      /\ k # 1 => t[k - 1] \in Nat /\ t[k] > t[k - 1]
    OBVIOUS
  <2>1. side[k] \in Nat /\ side[k] > 0
    OBVIOUS
  <2>2. t[k] = side[k] + (IF k = 1 THEN 0 ELSE t[k - 1])
    BY CumulativeFacts
  <2>3. k # 1 => k - 1 \in 1..n
    BY <1>1
  <2> HIDE DEF t, n
  <2> QED
    BY <1>1, <2>1, <2>2, <2>3
<1> HIDE DEF t, n
<1>3. 0 \in S
  BY <1>1, <1>2
<1>4. ASSUME NEW d \in Nat, d \in S PROVE d + 1 \in S
  <2>1. SUFFICES ASSUME d + 1 < n PROVE t[n - (d + 1)] > 0 /\ t[n - (d + 1)] <= t[n]
    OBVIOUS
  <2>2. /\ n - d \in 1..n /\ n - d # 1 /\ n - (d + 1) \in 1..n /\ n \in 1..n
        /\ (n - d) - 1 = n - (d + 1) /\ t[n - d] <= t[n]
    BY <1>1, <1>4, <2>1
  <2>3. t[n - (d + 1)] \in Nat /\ t[n - d] \in Nat /\ t[n] \in Nat
    BY <1>1, <2>2
  <2> QED
    BY <1>2, <2>2, <2>3, SMTT(30)
<1> HIDE DEF S
<1>5. \A d \in Nat : d \in S
  BY <1>3, <1>4, SetInduction
<1>6. ASSUME NEW k \in 1..n PROVE t[k] > 0 /\ t[k] <= t[n]
  <2>1. n - k \in Nat /\ n - k < n /\ n - (n - k) = k
    BY <1>1
  <2> QED
    BY <1>5, <2>1 DEF S
<1> QED
  BY <1>6 DEF t, n

\* What Max chooses from a set of numbers with a largest one.
LEMMA MaxIsLargest ==
    ASSUME NEW S, S \subseteq Nat, NEW m \in S, \A x \in S : x <= m
    PROVE  Max(S) = m
<1>1. \A y \in S : m >= y
  OBVIOUS
<1>2. Max(S) \in S /\ \A y \in S : Max(S) >= y
  BY <1>1, Zenon DEF Max
<1>3. \A v \in S : v >= m => v = m
  OBVIOUS
<1> QED
  BY <1>2, <1>3, Zenon

\* max_depth is a total of one of the sides, and none is larger.
LEMMA MaxDepthFacts ==
    ASSUME NEW s \in Summaries
    PROVE  /\ MaxDepth(s) \in Nat
           /\ \A k \in 1..Len(s.asks) : Cumulative(s.asks)[k] <= MaxDepth(s)
           /\ \A k \in 1..Len(s.bids) : Cumulative(s.bids)[k] <= MaxDepth(s)
           /\ \/ Len(s.asks) = 0 /\ Len(s.bids) = 0
              \/ /\ Len(s.asks) > 0
                 /\ MaxDepth(s) = Cumulative(s.asks)[Len(s.asks)]
              \/ /\ Len(s.bids) > 0
                 /\ MaxDepth(s) = Cumulative(s.bids)[Len(s.bids)]
<1> DEFINE na == Len(s.asks)
           nb == Len(s.bids)
           A == Cumulative(s.asks)
           B == Cumulative(s.bids)
           S == ToSet(A) \union ToSet(B) \union {0}
           lastA == IF na = 0 THEN 0 ELSE A[na]
           lastB == IF nb = 0 THEN 0 ELSE B[nb]
           m == IF lastA >= lastB THEN lastA ELSE lastB
<1>1. /\ s.asks \in Seq(Nat \ {0}) /\ na <= MAX_DISPLAY /\ na \in Nat
      /\ s.bids \in Seq(Nat \ {0}) /\ nb <= MAX_DISPLAY /\ nb \in Nat
  BY ClientAssumption
<1>2. A \in [1..na -> Nat] /\ B \in [1..nb -> Nat]
  BY <1>1, CumulativeFacts
<1>3. \A k \in 1..na : A[k] > 0 /\ A[k] <= A[na]
  BY <1>1, LastIsLargest
<1>4. \A k \in 1..nb : B[k] > 0 /\ B[k] <= B[nb]
  BY <1>1, LastIsLargest
<1>5. MaxDepth(s) = Max(S)
  BY DEF MaxDepth
<1> HIDE DEF na, nb, A, B
<1>6. lastA \in Nat /\ lastB \in Nat
  BY <1>1, <1>2
<1>7. ToSet(A) = {A[k] : k \in 1..na} /\ ToSet(B) = {B[k] : k \in 1..nb}
  BY <1>2 DEF ToSet
<1>8. S \subseteq Nat
  BY <1>2, <1>7
<1>9. m \in S
  <2>1. na # 0 => A[na] \in ToSet(A)
    BY <1>1, <1>7
  <2>2. nb # 0 => B[nb] \in ToSet(B)
    BY <1>1, <1>7
  <2> QED
    BY <2>1, <2>2
<1>10. /\ \A k \in 1..na : A[k] <= m
       /\ \A k \in 1..nb : B[k] <= m
  <2>1. ASSUME NEW k \in 1..na PROVE A[k] <= m
    <3>1. A[k] \in Nat /\ A[k] <= lastA
      BY <1>1, <1>2, <1>3
    <3> HIDE DEF lastA, lastB
    <3> QED
      BY <1>6, <3>1
  <2>2. ASSUME NEW k \in 1..nb PROVE B[k] <= m
    <3>1. B[k] \in Nat /\ B[k] <= lastB
      BY <1>1, <1>2, <1>4
    <3> HIDE DEF lastA, lastB
    <3> QED
      BY <1>6, <3>1
  <2> QED
    BY <2>1, <2>2
<1>11. \A x \in S : x <= m
  <2>1. m >= 0
    BY <1>6
  <2> HIDE DEF m
  <2> QED
    BY <1>7, <1>10, <2>1
<1>12. Max(S) = m
  <2> HIDE DEF S, m
  <2> QED
    BY <1>8, <1>9, <1>11, MaxIsLargest
<1>13. m \in Nat
  BY <1>6
<1>14. \/ na = 0 /\ nb = 0
       \/ na > 0 /\ m = A[na]
       \/ nb > 0 /\ m = B[nb]
  <2>1. CASE na = 0 /\ nb = 0
    BY <2>1
  <2>2. CASE na = 0 /\ nb # 0
    <3>1. m = B[nb]
      BY <1>1, <1>2, <2>2
    <3> QED
      BY <1>1, <2>2, <3>1
  <2>3. CASE na # 0 /\ nb = 0
    <3>1. m = A[na]
      BY <1>1, <1>2, <2>3
    <3> QED
      BY <1>1, <2>3, <3>1
  <2>4. CASE na # 0 /\ nb # 0
    <3>1. m = A[na] \/ m = B[nb]
      BY <1>1, <1>2, <2>4
    <3> QED
      BY <1>1, <2>4, <3>1
  <2> QED
    BY <2>1, <2>2, <2>3, <2>4
<1>15. MaxDepth(s) = m
  BY <1>5, <1>12
<1> HIDE DEF m
<1> QED
  BY <1>10, <1>13, <1>14, <1>15 DEF na, nb, A, B

\* A bar is in proportion: none is too long, and the deepest level has a full
\* one.
LEMMA BarLenFacts ==
    ASSUME NEW c \in Nat, NEW m \in Nat, c <= m, m > 0
    PROVE  BarLen(c, m) \in 0..BAR_WIDTH /\ (c = m => BarLen(c, m) = BAR_WIDTH)
<1> DEFINE W == BAR_WIDTH
           d == 2 * m
           x == 2 * c * W + m
           q == x \div d
           r == x % d
<1>1. W \in Nat /\ d \in Nat /\ d > 0 /\ m < d
  BY ClientAssumption
<1>2. c * W \in Nat /\ m * W \in Nat
  BY <1>1
<1>3. 2 * c * W = 2 * (c * W) /\ d * W = 2 * (m * W)
  BY <1>1
<1>4. c * W <= m * W
  BY <1>1
<1>5. x \in Nat /\ x <= d * W + m
  BY <1>2, <1>3, <1>4
<1>6. c = m => x = d * W + m
  BY <1>3
<1>7. BarLen(c, m) = q
  BY DEF BarLen
<1> HIDE DEF x, d, W
<1>8. q \in Nat /\ r \in Nat /\ r < d /\ x = d * q + r
  BY <1>1, <1>5
<1> HIDE DEF q, r
<1>9. q <= W
  <2>1. SUFFICES ASSUME q >= W + 1 PROVE FALSE
    BY <1>1, <1>8
  <2>2. d * q >= d * (W + 1) /\ d * (W + 1) = d * W + d /\ d * W \in Nat
        /\ d * q \in Nat
    BY <1>1, <1>8, <2>1
  <2> QED
    BY <1>1, <1>5, <1>8, <2>2
<1>10. c = m => q >= W
  <2>1. SUFFICES ASSUME x = d * W + m, q + 1 <= W PROVE FALSE
    BY <1>1, <1>6, <1>8
  <2>2. d * W >= d * (q + 1) /\ d * (q + 1) = d * q + d /\ d * W \in Nat
        /\ d * q \in Nat
    BY <1>1, <1>8, <2>1
  <2> QED
    BY <1>1, <1>8, <2>1, <2>2
<1> QED
  BY <1>1, <1>7, <1>8, <1>9, <1>10 DEF W

-----------------------------------------------------------------------------
(* The rows of a summary                                                    *)

\* A row's total, or nothing beyond the rows: RowsShowRunningTotals' Total.
TotalAt(rows, k) == IF k \in DOMAIN rows THEN rows[k].total ELSE 0

\* The rows show the amounts and the totals, and bars that fit.
Shows(rows, n, side, t, m) ==
    /\ DOMAIN rows = 1..n
    /\ \A k \in 1..n : /\ rows[k].amount = side[k] /\ rows[k].total = t[k]
                       /\ rows[k].bar \in 0..BAR_WIDTH
                       /\ t[k] = m => rows[k].bar = BAR_WIDTH

\* What the rows of one side show, given its totals.
LEMMA RowsFacts ==
    ASSUME NEW n \in Nat, NEW side \in [1..n -> Nat], NEW t \in [1..n -> Nat],
           NEW m \in Nat, \A k \in 1..n : t[k] > 0 /\ t[k] <= m
    PROVE  Shows(Rows(side, t, m), n, side, t, m)
<1>1. Rows(side, t, m) = [k \in 1..n |->
         [amount |-> side[k], total |-> t[k], bar |-> BarLen(t[k], m)]]
  BY DEF Rows
<1>2. ASSUME NEW k \in 1..n
      PROVE  BarLen(t[k], m) \in 0..BAR_WIDTH /\ (t[k] = m => BarLen(t[k], m) = BAR_WIDTH)
  <2>1. t[k] \in Nat /\ t[k] <= m /\ m > 0
    OBVIOUS
  <2> QED
    BY <2>1, BarLenFacts
<1> QED
  BY <1>1, <1>2 DEF Shows

\* The sequences render reverses.
LEMMA ReverseFacts ==
    ASSUME NEW s, NEW n \in Nat, s \in [1..n -> Nat]
    PROVE  /\ Reverse(s) \in [1..n -> Nat]
           /\ \A k \in 1..n : n - k + 1 \in 1..n /\ Reverse(s)[k] = s[n - k + 1]
<1>1. Len(s) = n
  OBVIOUS
<1> QED
  BY <1>1 DEF Reverse

\* What render draws of a summary from the server shows running totals.
LEMMA RenderShowsTotals ==
    ASSUME NEW s \in Summaries, screen = Render(s)
    PROVE  RowsShowRunningTotals
<1> DEFINE na == Len(s.asks)
           nb == Len(s.bids)
           A == Cumulative(s.asks)
           B == Cumulative(s.bids)
           m == MaxDepth(s)
           ra == Reverse(s.asks)
           rA == Reverse(A)
           a == Rows(ra, rA, m)
           b == Rows(s.bids, B, m)
<1>1. /\ s.asks \in Seq(Nat \ {0}) /\ na <= MAX_DISPLAY /\ na \in Nat
      /\ s.bids \in Seq(Nat \ {0}) /\ nb <= MAX_DISPLAY /\ nb \in Nat
      /\ s.asks \in [1..na -> Nat] /\ s.bids \in [1..nb -> Nat]
  BY ClientAssumption
<1>2. s # NoSummary
  BY <1>1, SMTT(30) DEF NoSummary
<1>3. screen = [asks |-> a, bids |-> b]
  BY <1>2 DEF Render, AskTotals
<1>4. /\ A \in [1..na -> Nat]
      /\ \A k \in 1..na : A[k] = s.asks[k] + (IF k = 1 THEN 0 ELSE A[k - 1])
      /\ \A k \in 1..na : A[k] > 0
  BY <1>1, CumulativeFacts, LastIsLargest
<1>5. /\ B \in [1..nb -> Nat]
      /\ \A k \in 1..nb : B[k] = s.bids[k] + (IF k = 1 THEN 0 ELSE B[k - 1])
      /\ \A k \in 1..nb : B[k] > 0
  BY <1>1, CumulativeFacts, LastIsLargest
<1>6. /\ m \in Nat
      /\ \A k \in 1..na : A[k] <= m
      /\ \A k \in 1..nb : B[k] <= m
      /\ \/ na = 0 /\ nb = 0
         \/ na > 0 /\ m = A[na]
         \/ nb > 0 /\ m = B[nb]
  BY MaxDepthFacts
<1> HIDE DEF na, nb, A, B, m
<1>7. /\ ra \in [1..na -> Nat] /\ rA \in [1..na -> Nat]
      /\ \A k \in 1..na : /\ na - k + 1 \in 1..na
                          /\ ra[k] = s.asks[na - k + 1] /\ rA[k] = A[na - k + 1]
  BY <1>1, <1>4, ReverseFacts
<1> HIDE DEF ra, rA
<1>8. /\ DOMAIN a = 1..na
      /\ \A k \in 1..na : /\ a[k].amount = ra[k] /\ a[k].total = rA[k]
                          /\ a[k].bar \in 0..BAR_WIDTH
                          /\ rA[k] = m => a[k].bar = BAR_WIDTH
  <2>1. \A k \in 1..na : rA[k] > 0 /\ rA[k] <= m
    BY <1>4, <1>6, <1>7
  <2>2. Shows(a, na, ra, rA, m)
    BY <1>1, <1>6, <1>7, <2>1, RowsFacts
  <2> QED
    BY <2>2, Zenon DEF Shows
<1>9. /\ DOMAIN b = 1..nb
      /\ \A k \in 1..nb : /\ b[k].amount = s.bids[k] /\ b[k].total = B[k]
                          /\ b[k].bar \in 0..BAR_WIDTH
                          /\ B[k] = m => b[k].bar = BAR_WIDTH
  <2>1. \A k \in 1..nb : B[k] > 0 /\ B[k] <= m
    BY <1>5, <1>6
  <2>2. Shows(b, nb, s.bids, B, m)
    BY <1>1, <1>5, <1>6, <2>1, RowsFacts
  <2> QED
    BY <2>2, Zenon DEF Shows
<1> HIDE DEF a, b
<1>10. ASSUME NEW k \in 1..na PROVE a[k].total = a[k].amount + TotalAt(a, k + 1)
  <2> DEFINE j == na - k + 1
  <2>1. j \in 1..na /\ a[k].total = A[j] /\ a[k].amount = s.asks[j]
    BY <1>7, <1>8
  <2>2. A[j] = s.asks[j] + (IF j = 1 THEN 0 ELSE A[j - 1])
    BY <1>4, <2>1
  <2>3. CASE j = 1
    <3>1. k + 1 \notin 1..na
      BY <1>1, <2>3
    <3> QED
      BY <1>8, <2>1, <2>2, <2>3, <3>1 DEF TotalAt
  <2>4. CASE j # 1
    <3>1. k + 1 \in 1..na /\ na - (k + 1) + 1 = j - 1
      BY <1>1, <2>1, <2>4
    <3>2. a[k + 1].total = A[j - 1]
      <4> HIDE DEF A, j
      <4>1. a[k + 1].total = rA[k + 1]
        BY <1>8, <3>1
      <4>2. rA[k + 1] = A[na - (k + 1) + 1]
        BY <1>7, <3>1
      <4> QED
        BY <3>1, <4>1, <4>2
    <3> QED
      BY <1>8, <2>1, <2>2, <2>4, <3>1, <3>2 DEF TotalAt
  <2> QED
    BY <2>3, <2>4
<1>11. ASSUME NEW k \in 1..nb PROVE b[k].total = b[k].amount + TotalAt(b, k - 1)
  <2>1. B[k] = s.bids[k] + (IF k = 1 THEN 0 ELSE B[k - 1])
    BY <1>5
  <2>2. CASE k = 1
    <3>1. k - 1 \notin 1..nb
      BY <2>2
    <3> QED
      BY <1>9, <2>1, <2>2, <3>1 DEF TotalAt
  <2>3. CASE k # 1
    <3>1. k - 1 \in 1..nb
      BY <1>1, <2>3
    <3> QED
      BY <1>9, <2>1, <2>3, <3>1 DEF TotalAt
  <2> QED
    BY <2>2, <2>3
<1> DEFINE Drawn == ToSet(a) \union ToSet(b)
<1>12. ToSet(a) = {a[k] : k \in 1..na} /\ ToSet(b) = {b[k] : k \in 1..nb}
  BY <1>8, <1>9 DEF ToSet
<1>13. \A r \in Drawn : r.bar \in 0..BAR_WIDTH
  BY <1>8, <1>9, <1>12
<1>14. \A r \in Drawn : r.total <= m
  <2>1. \A k \in 1..na : a[k].total <= m
    BY <1>6, <1>7, <1>8
  <2>2. \A k \in 1..nb : b[k].total <= m
    BY <1>6, <1>9
  <2> QED
    BY <1>12, <2>1, <2>2
<1>15. \/ na = 0 /\ nb = 0
       \/ \E r \in Drawn : r.bar = BAR_WIDTH /\ r.total = m
  <2>1. CASE na > 0 /\ m = A[na]
    <3>1. 1 \in 1..na /\ na - 1 + 1 = na
      BY <1>1, <2>1
    <3>2. rA[1] = m
      BY <1>7, <2>1, <3>1
    <3>3. a[1] \in Drawn /\ a[1].bar = BAR_WIDTH /\ a[1].total = m
      BY <1>8, <1>12, <3>1, <3>2
    <3> QED
      BY <3>3
  <2>2. CASE nb > 0 /\ m = B[nb]
    <3>1. nb \in 1..nb
      BY <1>1, <2>2
    <3>2. b[nb] \in Drawn /\ b[nb].bar = BAR_WIDTH /\ b[nb].total = m
      BY <1>9, <1>12, <2>2, <3>1
    <3> QED
      BY <3>2
  <2> QED
    BY <1>6, <2>1, <2>2
<1>16. na = 0 /\ nb = 0 => a \o b = <<>>
  <2>1. SUFFICES ASSUME na = 0, nb = 0 PROVE a \o b = <<>>
    OBVIOUS
  <2>2. Rows(ra, rA, m) = <<>> /\ Rows(s.bids, B, m) = <<>>
    <3>1. DOMAIN ra = {} /\ DOMAIN s.bids = {}
      BY <1>1, <1>7, <2>1
    <3> QED
      BY <3>1 DEF Rows
  <2> QED
    BY <2>2 DEF a, b
<1>17. a \o b # <<>> =>
          \E r \in Drawn : /\ r.bar = BAR_WIDTH
                           /\ \A q \in Drawn : q.total <= r.total
  <2> HIDE DEF Drawn
  <2> QED
    BY <1>14, <1>15, <1>16
<1>18. screen.asks = a /\ screen.bids = b
  BY <1>3
<1> QED
  <2>1. \A k \in DOMAIN a : a[k].total = a[k].amount + TotalAt(a, k + 1)
    BY <1>8, <1>10
  <2>2. \A k \in DOMAIN b : b[k].total = b[k].amount + TotalAt(b, k - 1)
    BY <1>9, <1>11
  <2> QED
    BY <1>13, <1>17, <1>18, <2>1, <2>2, Zenon DEF RowsShowRunningTotals, TotalAt

-----------------------------------------------------------------------------
(* The terminal and the screen                                              *)

\* The guard is made with the raw mode and dropped by the return that ends
\* it.
LEMMA TerminalStep == TerminalInv /\ [Next]_vars => TerminalInv'
<1> SUFFICES ASSUME TerminalInv, [Next]_vars PROVE TerminalInv'
  OBVIOUS
<1> USE DEF TerminalInv
<1>1. CASE ConnectStream
  BY <1>1 DEF ConnectStream, Return
<1>2. CASE InitTerminal
  BY <1>2 DEF InitTerminal, GuardAtInit, Return
<1>3. CASE Clear
  BY <1>3 DEF Clear, Return
<1>4. CASE Draw
  BY <1>4 DEF Draw, Return
<1>5. CASE Poll
  BY <1>5 DEF Poll, Return
<1>6. CASE Tick
  BY <1>6 DEF Tick, AfterTick
<1>7. CASE StreamOver
  BY <1>7 DEF StreamOver, Return
<1>8. CASE \E s \in Summaries : Message(s)
  BY <1>8 DEF Message
<1>9. CASE \E k \in {"quit", "other"} : Press(k)
  BY <1>9 DEF Press
<1>10. CASE UNCHANGED vars
  BY <1>10 DEF vars
<1> QED
  BY <1>1, <1>2, <1>3, <1>4, <1>5, <1>6, <1>7, <1>8, <1>9, <1>10 DEF Next, Step

\* A screen shows a summary the server sent, or none.
LEMMA ScreenStep == ScreenInv /\ [Next]_vars => ScreenInv'
<1> SUFFICES ASSUME ScreenInv, [Next]_vars PROVE ScreenInv'
  OBVIOUS
<1>1. CASE Draw
  <2>1. CASE screen' = Render(summary) /\ summary' = summary
    <3>1. CASE summary = NoSummary
      <4>1. Render(summary) = [text |-> Waiting]
        BY <3>1 DEF Render
      <4> QED
        BY <2>1, <4>1 DEF ScreenInv
    <3>2. CASE summary \in Summaries
      BY <2>1, <3>2 DEF ScreenInv
    <3> QED
      BY <3>1, <3>2 DEF ScreenInv
  <2>2. CASE UNCHANGED <<screen, summary>>
    BY <2>2 DEF ScreenInv
  <2> QED
    BY <1>1, <2>1, <2>2 DEF Draw, appVars
<1>2. CASE \E s \in Summaries : Message(s)
  BY <1>2 DEF Message, ScreenInv
<1>3. CASE UNCHANGED <<screen, summary>>
  BY <1>3 DEF ScreenInv
<1>4. \/ Draw \/ \E s \in Summaries : Message(s)
      \/ UNCHANGED <<screen, summary>>
  <2>1. CASE ConnectStream \/ Clear
    BY <2>1 DEF ConnectStream, Clear, appVars
  <2>2. CASE InitTerminal \/ Tick \/ StreamOver
    BY <2>2 DEF InitTerminal, Tick, StreamOver, appVars
  <2>3. CASE Poll
    BY <2>3 DEF Poll, appVars
  <2>4. CASE \E k \in {"quit", "other"} : Press(k)
    BY <2>4 DEF Press, appVars
  <2>5. CASE UNCHANGED vars
    BY <2>5 DEF vars
  <2> QED
    BY <2>1, <2>2, <2>3, <2>4, <2>5 DEF Next, Step
<1> QED
  BY <1>1, <1>2, <1>3, <1>4

\* Whichever call of main fails, and whenever the user quits or the stream
\* ends, a client that is gone has left raw mode: the guard is made before
\* the first call that can fail and lives until main returns.
THEOREM ClientTerminalRestored == Spec => []TerminalRestored
<1>1. Init => TerminalInv
  BY DEF Init, TerminalInv
<1>2. TerminalInv => TerminalRestored
  BY DEF TerminalInv, TerminalRestored
<1> QED
  BY <1>1, <1>2, TerminalStep, PTL DEF Spec

\* Whatever summaries the server sends, in whatever order they come between
\* ticks and key events, every row on the screen shows the amount that can be
\* traded up to it and the bars are in proportion to the deepest total.
THEOREM ClientRowsShowRunningTotals == Spec => []RowsShowRunningTotals
<1>1. Init => ScreenInv
  BY DEF Init, ScreenInv
<1>2. ScreenInv => RowsShowRunningTotals
  <2>1. CASE screen \in {[text |-> "none"], [text |-> Waiting]}
    <3>1. "bids" \notin DOMAIN screen
      BY <2>1
    <3> QED
      BY <3>1, Zenon DEF RowsShowRunningTotals
  <2>2. CASE \E s \in Summaries : screen = Render(s)
    BY <2>2, RenderShowsTotals
  <2> QED
    BY <2>1, <2>2, Zenon DEF ScreenInv
<1> QED
  BY <1>1, <1>2, ScreenStep, PTL DEF Spec
=============================================================================
