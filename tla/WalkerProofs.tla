---------------------------- MODULE WalkerProofs ----------------------------
(***************************************************************************)
(* Proofs about Walker for words of any width, any number of fractional     *)
(* digits, any depth and any frames: the unchecked arithmetic of the        *)
(* decimals never wraps, the fused reader agrees with FixedPoint::parse and *)
(* rounds down, the scanner stays in the frame, no side of a book is larger *)
(* than it may be or has an empty level, and the spread is the signed       *)
(* difference; and a frame that was delivered is read as the book that was  *)
(* sent, damaged or not.                                                    *)
(***************************************************************************)
EXTENDS Walker, WellFoundedInduction, TLAPS

Levels == [price : Words, amount : Words]

\* The digits of the decimal that have been read, as far as they are kept:
\* the fraction is below its own power of ten.
NumInv ==
    /\ num = [int_part |-> num.int_part, int_digits |-> num.int_digits,
              frac_part |-> num.frac_part, frac_digits |-> num.frac_digits,
              from |-> num.from]
    /\ num.int_part \in Nat /\ num.int_digits \in Nat
    /\ num.frac_part \in Nat /\ num.frac_digits \in 0..FracDigits
    /\ num.frac_part < POW10[num.frac_digits]

\* A side of a book: levels of words, no more than fit, none cleared.
SideOK(s) ==
    /\ s \in Seq(Levels) /\ Len(s) <= Depth
    /\ \A k \in 1..Len(s) : s[k].amount # 0

BookInv ==
    /\ book = [seq |-> book.seq, has_data |-> book.has_data, bids |-> book.bids,
               asks |-> book.asks, event |-> book.event]
    /\ SideOK(book.bids) /\ SideOK(book.asks)

IInv ==
    /\ NumInv /\ BookInv /\ level \in Levels
    /\ side \in {"bids", "asks"} /\ field \in {"price", "amount"}

\* The arithmetic on the fraction that the code leaves unchecked fits a word:
\* accumulating another digit, and scaling what there is.
UncheckedNeverWraps ==
    /\ KeepsDigit => \A d \in Digits : num.frac_part * 10 + d < Word
    /\ num.frac_part * FracScale < SCALE /\ SCALE < Word

\* ArrayVecs are never pushed beyond their capacity, and a book has no level
\* without an amount.
SidesFit == SideOK(book.bids) /\ SideOK(book.asks)

-----------------------------------------------------------------------------
\* Induction: a set that holds 0 and with a number its successor holds all
\* numbers.
LEMMA SetInduction ==
    ASSUME NEW S, 0 \in S, \A n \in Nat : n \in S => n + 1 \in S
    PROVE  \A n \in Nat : n \in S
<1> DEFINE T == Nat \ S
           R == OpToRel(<, Nat)
<1>1. SUFFICES ASSUME T # {} PROVE FALSE
  OBVIOUS
<1>2. IsWellFoundedOn(R, Nat) /\ T \subseteq Nat
  BY NatLessThanWellFounded
<1>3. PICK m \in T : \A y \in T : <<y, m>> \notin R
  <2> HIDE DEF R, T
  <2> QED
    BY <1>1, <1>2, WFMin, Zenon
<1>4. m \in Nat /\ m # 0 /\ m - 1 \in Nat /\ m = (m - 1) + 1
  OBVIOUS
<1>5. m - 1 \in T
  BY <1>4
<1>6. <<m - 1, m>> \in R
  BY <1>4 DEF OpToRel
<1> QED
  BY <1>3, <1>5, <1>6

\* The least of some numbers.
LEMMA MinFacts ==
    ASSUME NEW S, S \subseteq Nat, S # {}
    PROVE  Min(S) \in S /\ \A y \in S : Min(S) <= y
<1> DEFINE R == OpToRel(<, Nat)
<1>1. IsWellFoundedOn(R, Nat)
  BY NatLessThanWellFounded
<1>2. PICK m \in S : \A y \in S : <<y, m>> \notin R
  <2> HIDE DEF R
  <2> QED
    BY <1>1, WFMin, Zenon
<1>3. \A y \in S : m <= y
  <2> SUFFICES ASSUME NEW y \in S, y < m PROVE FALSE
    OBVIOUS
  <2>1. <<y, m>> \in R
    BY DEF OpToRel
  <2> QED
    BY <1>2, <2>1
<1> QED
  BY <1>3, Zenon DEF Min

\* There is a function that appends one digit a step.
LEMMA HornerExists ==
    ASSUME NEW n \in Nat, NEW f \in [1..n -> Nat]
    PROVE  \E g \in [0..n -> Nat] :
              g = [k \in 0..n |-> IF k = 0 THEN 0 ELSE 10 * g[k - 1] + f[k]]
<1> DEFINE Is(g, m) == /\ g \in [0..m -> Nat] /\ g[0] = 0
                       /\ \A k \in 1..m : g[k] = 10 * g[k - 1] + f[k]
           S == {m \in Nat : m <= n => \E g : Is(g, m)}
<1>1. 0 \in S
  <2>1. Is([k \in 0..0 |-> 0], 0)
    OBVIOUS
  <2> QED
    BY <2>1
<1>2. ASSUME NEW m \in Nat, m \in S PROVE m + 1 \in S
  <2>1. SUFFICES ASSUME m + 1 <= n PROVE \E g : Is(g, m + 1)
    <3> HIDE DEF Is
    <3> QED
      OBVIOUS
  <2>2. PICK g : Is(g, m)
    <3> HIDE DEF Is
    <3> QED
      BY <1>2, <2>1
  <2> DEFINE h == [k \in 0..(m + 1) |-> IF k = m + 1 THEN 10 * g[m] + f[m + 1] ELSE g[k]]
  <2>3. g[m] \in Nat /\ f[m + 1] \in Nat
    BY <2>1, <2>2
  <2>4. h \in [0..(m + 1) -> Nat] /\ h[0] = 0
    BY <2>2, <2>3
  <2>5. ASSUME NEW k \in 1..(m + 1) PROVE h[k] = 10 * h[k - 1] + f[k]
    <3>1. CASE k = m + 1
      BY <3>1
    <3>2. CASE k # m + 1
      <4>1. k \in 1..m /\ k \in 0..(m + 1) /\ k - 1 \in 0..(m + 1) /\ k - 1 # m + 1
        BY <3>2
      <4> QED
        BY <2>2, <4>1
    <3> QED
      BY <3>1, <3>2
  <2> QED
    BY <2>4, <2>5
<1> HIDE DEF S
<1>3. \A m \in Nat : m \in S
  BY <1>1, <1>2, SetInduction
<1>4. PICK g : Is(g, n)
  <2> HIDE DEF Is
  <2> QED
    BY <1>3 DEF S
<1>5. g = [k \in 0..n |-> IF k = 0 THEN 0 ELSE 10 * g[k - 1] + f[k]]
  BY <1>4
<1> QED
  BY <1>4, <1>5

\* What digits denote: nothing is zero, and each digit is appended.
LEMMA HornerFacts ==
    ASSUME NEW s \in Seq(Nat)
    PROVE  /\ Horner(s) \in [0..Len(s) -> Nat] /\ Horner(s)[0] = 0
           /\ \A k \in 1..Len(s) : Horner(s)[k] = 10 * Horner(s)[k - 1] + s[k]
<1> DEFINE n == Len(s)
           F(g) == [k \in 0..n |-> IF k = 0 THEN 0 ELSE 10 * g[k - 1] + s[k]]
           value == CHOOSE g : g = F(g)
<1>1. n \in Nat /\ s \in [1..n -> Nat]
  OBVIOUS
<1>2. Horner(s) = value
  BY Zenon DEF Horner
<1>3. PICK g \in [0..n -> Nat] : g = F(g)
  <2> HIDE DEF n
  <2> QED
    BY <1>1, HornerExists
<1>4. value = F(value)
  <2> HIDE DEF F
  <2> QED
    BY <1>3, Zenon
<1> HIDE DEF value, n
<1>5. value[0] = 0 /\ \A k \in 1..n : value[k] = 10 * value[k - 1] + s[k]
  <2>1. \A k \in 0..n : value[k] = IF k = 0 THEN 0 ELSE 10 * value[k - 1] + s[k]
    BY <1>4
  <2> QED
    BY <1>1, <2>1, SMTT(30)
<1>6. \A k \in 0..n : value[k] \in Nat
  <2> DEFINE S == {k \in Nat : k <= n => value[k] \in Nat}
  <2>1. 0 \in S
    BY <1>5
  <2>2. ASSUME NEW k \in Nat, k \in S PROVE k + 1 \in S
    <3>1. ASSUME k + 1 <= n PROVE value[k + 1] \in Nat
      <4>1. k + 1 \in 1..n /\ value[k] \in Nat /\ (k + 1) - 1 = k
        BY <1>1, <2>2, <3>1
      <4>2. s[k + 1] \in Nat
        BY <1>1, <4>1
      <4> QED
        BY <1>5, <4>1, <4>2
    <3> QED
      BY <3>1
  <2> HIDE DEF S
  <2>3. \A k \in Nat : k \in S
    BY <2>1, <2>2, SetInduction
  <2> QED
    BY <1>1, <2>3 DEF S
<1>7. value \in [0..n -> Nat]
  <2>1. value = [k \in 0..n |-> value[k]]
    BY <1>4
  <2> QED
    BY <1>6, <2>1
<1> QED
  BY <1>2, <1>5, <1>7 DEF n

\* What the first digits denote depends on them alone.
LEMMA HornerAgree ==
    ASSUME NEW s \in Seq(Nat), NEW t \in Seq(Nat), NEW k \in Nat,
           k <= Len(s), k <= Len(t), \A i \in 1..k : s[i] = t[i]
    PROVE  Horner(s)[k] = Horner(t)[k]
<1> DEFINE v == Horner(s)
           w == Horner(t)
           S == {i \in Nat : i <= k => v[i] = w[i]}
<1>1. /\ v[0] = 0 /\ \A i \in 1..k : v[i] = 10 * v[i - 1] + s[i]
      /\ w[0] = 0 /\ \A i \in 1..k : w[i] = 10 * w[i - 1] + t[i]
  <2>1. \A i \in 1..k : i \in 1..Len(s) /\ i \in 1..Len(t)
    OBVIOUS
  <2> QED
    BY <2>1, HornerFacts
<1> HIDE DEF v, w
<1>2. 0 \in S
  BY <1>1
<1>3. ASSUME NEW i \in Nat, i \in S PROVE i + 1 \in S
  <2>1. SUFFICES ASSUME i + 1 <= k PROVE v[i + 1] = w[i + 1]
    OBVIOUS
  <2>2. i + 1 \in 1..k /\ (i + 1) - 1 = i /\ v[i] = w[i]
    BY <1>3, <2>1
  <2> QED
    BY <1>1, <2>2
<1> HIDE DEF S
<1>4. \A i \in Nat : i \in S
  BY <1>2, <1>3, SetInduction
<1> QED
  BY <1>4 DEF S, v, w

\* More digits denote no less.
LEMMA HornerGrows ==
    ASSUME NEW s \in Seq(Nat), NEW j \in 0..Len(s), NEW k \in 0..j
    PROVE  Horner(s)[k] <= Horner(s)[j]
<1> DEFINE n == Len(s)
           v == Horner(s)
           S == {i \in Nat : k + i <= n => v[k] <= v[k + i]}
<1>1. /\ n \in Nat /\ v \in [0..n -> Nat]
      /\ \A i \in 1..n : v[i] = 10 * v[i - 1] + s[i] /\ s[i] \in Nat
  BY HornerFacts
<1>2. j \in 0..n /\ k \in 0..j
  OBVIOUS
<1> HIDE DEF n, v
<1>3. k \in 0..n /\ k \in Nat /\ v[k] \in Nat /\ j - k \in Nat /\ k + (j - k) = j
  BY <1>1, <1>2
<1>4. 0 \in S
  BY <1>3
<1>5. ASSUME NEW i \in Nat, i \in S PROVE i + 1 \in S
  <2>1. SUFFICES ASSUME k + (i + 1) <= n PROVE v[k] <= v[k + (i + 1)]
    OBVIOUS
  <2>2. k + (i + 1) \in 1..n /\ (k + (i + 1)) - 1 = k + i /\ k + i \in 0..n
    BY <1>1, <1>3, <2>1
  <2>3. v[k + i] \in Nat /\ v[k] <= v[k + i]
    BY <1>1, <1>3, <1>5, <2>1, <2>2
  <2>4. v[k + (i + 1)] = 10 * v[k + i] + s[k + (i + 1)] /\ s[k + (i + 1)] \in Nat
    BY <1>1, <2>2
  <2> QED
    BY <1>3, <2>3, <2>4, SMTT(30)
<1> HIDE DEF S
<1>6. \A i \in Nat : i \in S
  BY <1>4, <1>5, SetInduction
<1>7. \A i \in Nat : k + i = j => v[k] <= v[j]
  <2> SUFFICES ASSUME NEW i \in Nat, k + i = j PROVE v[k] <= v[j]
    OBVIOUS
  <2>1. i \in S /\ k + i <= n
    BY <1>1, <1>2, <1>6
  <2> QED
    BY <2>1 DEF S
<1>8. v[k] <= v[j]
  BY <1>3, <1>7
<1> QED
  BY <1>8 DEF v

-----------------------------------------------------------------------------
(* What FixedPoint::parse makes of a text                                   *)

\* A text without a dot is all integer.
LEMMA PlainText ==
    ASSUME NEW t \in Seq(Nat), \A k \in 1..Len(t) : t[k] # DOT
    PROVE  IntText(t) = t /\ FracText(t) = <<>>
<1>1. IntText(t) = t
  BY DEF IntText, Contains
<1> QED
  BY <1>1 DEF FracText

\* A text with a dot is parted at the first one.
LEMMA DottedText ==
    ASSUME NEW t \in Seq(Nat), NEW i \in 1..Len(t), t[i] = DOT,
           \A k \in 1..(i - 1) : t[k] # DOT
    PROVE  /\ IntText(t) = SubSeq(t, 1, i - 1)
           /\ FracText(t) = SubSeq(t, i + 1, Len(t))
<1> DEFINE I == {k \in 1..Len(t) : t[k] = DOT}
<1>1. I \subseteq Nat /\ i \in I
  OBVIOUS
<1>2. Min(I) \in I /\ Min(I) <= i
  <2> HIDE DEF I
  <2> QED
    BY <1>1, MinFacts
<1>3. Min(I) = i
  <2>1. \A m \in I : m <= i => m = i
    OBVIOUS
  <2> HIDE DEF I
  <2> QED
    BY <1>2, <2>1
<1>4. SelectInSeq(t, LAMBDA c : c = DOT) = i
  <2>1. SelectInSeq(t, LAMBDA c : c = DOT) = IF I # {} THEN Min(I) ELSE 0
    BY DEF SelectInSeq
  <2> HIDE DEF I
  <2> QED
    BY <1>1, <1>3, <2>1
<1>5. Contains(t, DOT)
  BY DEF Contains
<1>6. IntText(t) = SubSeq(t, 1, i - 1)
  BY <1>4, <1>5 DEF IntText
<1>7. Len(SubSeq(t, 1, i - 1)) = i - 1 /\ (i - 1) + 2 = i + 1
  OBVIOUS
<1> QED
  BY <1>6, <1>7 DEF FracText

-----------------------------------------------------------------------------
\* What the remainder of a number within one word of zero is.
LEMMA ModFacts ==
    ASSUME NEW x \in Int, NEW w \in Nat \ {0}
    PROVE  /\ 0 <= x /\ x < w => x % w = x
           /\ -w <= x /\ x < 0 => x % w = x + w
           /\ x % w \in 0..(w - 1)
  OBVIOUS

\* The difference of two words, taken after the cast to signed words and with
\* wrapping, is exact whenever it fits.
LEMMA SignedDifferenceIsExact ==
    ASSUME NEW ask \in Words, NEW bid \in Words,
           ask - bid \in (-(Word \div 2))..(Word \div 2 - 1)
    PROVE  SignedDifference(ask, bid) = ask - bid
<1>1. PICK h \in Nat : h > 0 /\ Word = 2 * h /\ Word \div 2 = h
  <2>1. Word \in Nat /\ Word % 2 = 0
    BY FixedPointAssumption
  <2>2. Word # 0
    BY DEF Words
  <2> QED
    BY <2>1, <2>2
<1> DEFINE e == ask - bid
           d == AsI64(ask) - AsI64(bid)
<1>2. /\ Word \in Nat \ {0} /\ ask \in 0..(Word - 1) /\ bid \in 0..(Word - 1)
      /\ e \in Int /\ -h <= e /\ e < h
  BY <1>1 DEF Words
<1>3. d \in Int /\ (d = e \/ d = e - Word \/ d = e + Word) /\ -Word < d /\ d < Word
  BY <1>1, <1>2 DEF AsI64
<1> DEFINE m == d % Word
<1>4. (d >= 0 => m = d) /\ (d < 0 => m = d + Word)
  <2> HIDE DEF d
  <2>1. /\ 0 <= d /\ d < Word => d % Word = d
        /\ -Word <= d /\ d < 0 => d % Word = d + Word
    <3>1. Word \in Nat \ {0} /\ d \in Int
      BY <1>2, <1>3
    <3> QED
      BY <3>1, ModFacts, Zenon
  <2> HIDE DEF m
  <2>2. -Word <= d
    BY <1>2, <1>3
  <2> QED
    BY <1>2, <1>3, <2>1, <2>2 DEF m
<1> HIDE DEF d, e, m
<1>5. AsI64(m) = e
  BY <1>1, <1>2, <1>3, <1>4 DEF AsI64
<1> USE DEF d, e, m
<1> QED
  BY <1>5 DEF SignedDifference

-----------------------------------------------------------------------------
\* Facts about the table of powers of ten: a power is ten times the one below
\* it and divides the scale.
LEMMA PowFacts ==
    /\ FracDigits \in Nat \ {0} /\ SCALE \in Nat \ {0} /\ SCALE < Word
    /\ Word \in Nat \ {0}
    /\ \A k \in 0..FracDigits : POW10[k] \in Nat \ {0}
    /\ POW10[0] = 1
    /\ \A k \in 0..(FracDigits - 1) : POW10[k + 1] = 10 * POW10[k]
    /\ \A k \in 0..FracDigits : SCALE = POW10[k] * POW10[FracDigits - k]
<1>1. /\ FracDigits \in Nat \ {0} /\ POW10 \in [0..FracDigits -> Nat \ {0}]
      /\ POW10[0] = 1 /\ POW10[1] = 10
      /\ \A m, n \in 0..FracDigits :
            m + n <= FracDigits => POW10[m + n] = POW10[m] * POW10[n]
      /\ Word \in Nat /\ POW10[FracDigits] < Word
  BY FixedPointAssumption
<1>2. \A k \in 0..FracDigits : POW10[k] \in Nat \ {0}
  BY <1>1
<1>3. SCALE \in Nat \ {0} /\ SCALE < Word /\ Word \in Nat \ {0}
  BY <1>1, <1>2 DEF SCALE
<1>4. ASSUME NEW k \in 0..(FracDigits - 1) PROVE POW10[k + 1] = 10 * POW10[k]
  <2>1. k \in 0..FracDigits /\ 1 \in 0..FracDigits /\ k + 1 <= FracDigits
    BY <1>1
  <2>2. POW10[k + 1] = POW10[k] * POW10[1] /\ POW10[k] \in Nat
    BY <1>1, <1>2, <2>1
  <2> QED
    BY <1>1, <2>2
<1>5. ASSUME NEW k \in 0..FracDigits PROVE SCALE = POW10[k] * POW10[FracDigits - k]
  <2>1. FracDigits - k \in 0..FracDigits /\ k + (FracDigits - k) = FracDigits
    BY <1>1
  <2> QED
    BY <1>1, <2>1 DEF SCALE
<1> QED
  BY <1>1, <1>2, <1>3, <1>4, <1>5

\* A product of naturals, one of them positive, is bounded by bounding the
\* other.
LEMMA ProductBound ==
    ASSUME NEW m \in Nat, NEW n \in Nat, NEW p \in Nat \ {0}, m < n
    PROVE  m * p < n * p /\ n <= n * p /\ m * p \in Nat
  OBVIOUS

\* With a fraction below its power of ten nothing wraps.
LEMMA FractionFits ==
    ASSUME NEW part \in Nat, NEW k \in 0..FracDigits, part < POW10[k]
    PROVE  /\ part * POW10[FracDigits - k] < SCALE
           /\ part * POW10[FracDigits - k] \in Nat
           /\ k < FracDigits => \A d \in Digits :
                 part * 10 + d < POW10[k + 1] /\ part * 10 + d < Word
<1>1. /\ POW10[k] \in Nat \ {0} /\ POW10[FracDigits - k] \in Nat \ {0}
      /\ SCALE = POW10[k] * POW10[FracDigits - k]
  BY PowFacts
<1>2. part * POW10[FracDigits - k] < SCALE /\ part * POW10[FracDigits - k] \in Nat
  BY <1>1, ProductBound
<1>3. ASSUME k < FracDigits, NEW d \in Digits
      PROVE  part * 10 + d < POW10[k + 1] /\ part * 10 + d < Word
  <2>1. /\ k \in 0..(FracDigits - 1) /\ k + 1 \in 0..FracDigits
        /\ FracDigits - (k + 1) \in 0..FracDigits
    BY <1>3, PowFacts
  <2>2. POW10[k + 1] = 10 * POW10[k] /\ POW10[k + 1] \in Nat \ {0}
        /\ SCALE = POW10[k + 1] * POW10[FracDigits - (k + 1)]
        /\ POW10[FracDigits - (k + 1)] \in Nat \ {0}
    BY <2>1, PowFacts
  <2>3. part * 10 + d < POW10[k + 1]
    BY <1>1, <1>3, <2>2 DEF Digits
  <2>4. 0 < POW10[k + 1]
    BY <2>2
  <2>5. POW10[k + 1] <= SCALE
    BY <2>2, <2>4, ProductBound
  <2> QED
    BY <1>3, <2>2, <2>3, <2>5, PowFacts DEF Digits
<1> QED
  BY <1>2, <1>3

-----------------------------------------------------------------------------
(* Which texts parse, and as what                                           *)

\* Digits are numbers, and the dot is not one of them.
LEMMA DigitFacts == Digits \subseteq Nat /\ DOT \notin Digits /\ QUOTE \notin Digits
                    /\ DOT # QUOTE /\ DOT \in Nat
  BY DEF Digits, DOT, QUOTE

\* Every text either has no dot or has a first one.
LEMMA FirstDot ==
    ASSUME NEW t \in Seq(Nat)
    PROVE  \/ \A k \in 1..Len(t) : t[k] # DOT
           \/ \E i \in 1..Len(t) : t[i] = DOT /\ \A k \in 1..(i - 1) : t[k] # DOT
<1> DEFINE I == {k \in 1..Len(t) : t[k] = DOT}
<1>1. SUFFICES ASSUME I # {}
               PROVE  \E i \in 1..Len(t) : t[i] = DOT /\ \A k \in 1..(i - 1) : t[k] # DOT
  OBVIOUS
<1>2. Min(I) \in I /\ \A y \in I : Min(I) <= y
  <2>1. I \subseteq Nat
    OBVIOUS
  <2> HIDE DEF I
  <2> QED
    BY <1>1, <2>1, MinFacts
<1>3. \A m \in I : (\A y \in I : m <= y) =>
         m \in 1..Len(t) /\ t[m] = DOT /\ \A k \in 1..(m - 1) : t[k] # DOT
  OBVIOUS
<1> HIDE DEF I
<1> QED
  BY <1>2, <1>3

\* The elements of a sequence.
LEMMA InToSet ==
    ASSUME NEW s \in Seq(Nat), NEW k \in 1..Len(s)
    PROVE  s[k] \in ToSet(s)
  BY DEF ToSet

\* A byte that is no digit, other than the first dot, spoils a text.
LEMMA BadByte ==
    ASSUME NEW t \in Seq(Nat), NEW j \in 1..Len(t), t[j] \notin Digits,
           t[j] # DOT \/ \E i \in 1..(j - 1) : t[i] = DOT
    PROVE  Parse(t) = None
<1>1. SUFFICES ~(ToSet(IntText(t)) \subseteq Digits /\ ToSet(FracText(t)) \subseteq Digits)
  BY DEF Parse, IsDecimal
<1>2. CASE \A k \in 1..Len(t) : t[k] # DOT
  <2>1. IntText(t) = t
    BY <1>2, PlainText
  <2>2. t[j] \in ToSet(t)
    BY DEF ToSet
  <2> QED
    BY <2>1, <2>2
<1>3. ASSUME NEW i \in 1..Len(t), t[i] = DOT, \A k \in 1..(i - 1) : t[k] # DOT
      PROVE  ~(ToSet(IntText(t)) \subseteq Digits /\ ToSet(FracText(t)) \subseteq Digits)
  <2>1. /\ IntText(t) = SubSeq(t, 1, i - 1)
        /\ FracText(t) = SubSeq(t, i + 1, Len(t))
    BY <1>3, DottedText
  <2>2. CASE j < i
    <3> DEFINE a == SubSeq(t, 1, i - 1)
    <3>1. a \in Seq(Nat) /\ j \in 1..Len(a) /\ a[j] = t[j]
      BY <2>2
    <3> HIDE DEF a
    <3>2. a[j] \in ToSet(a)
      BY <3>1, InToSet
    <3> USE DEF a
    <3> QED
      BY <2>1, <3>1, <3>2
  <2>3. CASE j > i
    <3> DEFINE f == SubSeq(t, i + 1, Len(t))
    <3>1. f \in Seq(Nat) /\ j - i \in 1..Len(f) /\ f[j - i] = t[j]
      <4>1. f \in Seq(Nat) /\ Len(f) = Len(t) - i
            /\ \A k \in 1..(Len(t) - i) : f[k] = t[i + k]
        OBVIOUS
      <4>2. j - i \in 1..(Len(t) - i) /\ i + (j - i) = j
        BY <2>3
      <4> HIDE DEF f
      <4> QED
        BY <4>1, <4>2
    <3> HIDE DEF f
    <3>2. f[j - i] \in ToSet(f)
      BY <3>1, InToSet
    <3> USE DEF f
    <3> QED
      BY <2>1, <3>1, <3>2
  <2>4. j # i
    BY <1>3
  <2> QED
    BY <2>2, <2>3, <2>4
<1> QED
  BY <1>2, <1>3, FirstDot

\* What parse makes of the fractional digits is a number.
LEMMA FractionFacts ==
    ASSUME NEW t \in Seq(Nat)
    PROVE  LET kept == IF Len(t) < FracDigits THEN Len(t) ELSE FracDigits
           IN  /\ kept \in 0..FracDigits /\ kept \in 0..Len(t)
               /\ Fraction(t) = Horner(t)[kept] * POW10[FracDigits - kept]
               /\ Fraction(t) \in Nat
<1> DEFINE kept == IF Len(t) < FracDigits THEN Len(t) ELSE FracDigits
           u == SubSeq(t, 1, kept)
<1>1. kept \in 0..FracDigits /\ kept \in 0..Len(t) /\ kept \in Nat
      /\ FracDigits - kept \in 0..FracDigits
  <2>1. Len(t) \in Nat /\ FracDigits \in Nat
    BY PowFacts
  <2> QED
    BY <2>1
<1>2. Fraction(t) = ValueOf(u) * POW10[FracDigits - Len(u)]
  BY DEF Fraction
<1> HIDE DEF kept
<1>3. u \in Seq(Nat) /\ Len(u) = kept /\ \A i \in 1..kept : u[i] = t[i]
  BY <1>1
<1>4. Horner(u)[kept] = Horner(t)[kept]
  <2>1. kept <= Len(u) /\ kept <= Len(t)
    BY <1>1, <1>3
  <2> HIDE DEF u
  <2> QED
    BY <1>1, <1>3, <2>1, HornerAgree
<1>5. Horner(t)[kept] \in Nat /\ POW10[FracDigits - kept] \in Nat
  BY <1>1, HornerFacts, FixedPointAssumption
<1>6. Fraction(t) = Horner(t)[kept] * POW10[FracDigits - kept]
  BY <1>2, <1>3, <1>4 DEF ValueOf
<1> QED
  BY <1>1, <1>5, <1>6 DEF kept

\* Integer digits that are a word or more spoil a text, whatever follows.
LEMMA BigPrefix ==
    ASSUME NEW t \in Seq(Nat), NEW j \in 1..Len(t),
           \A k \in 1..j : t[k] \in Digits, Horner(t)[j] >= Word
    PROVE  Parse(t) = None
<1>1. PICK n \in j..Len(t) : IntText(t) = SubSeq(t, 1, n)
                             /\ FracText(t) \in Seq(Nat)
  <2>1. CASE \A k \in 1..Len(t) : t[k] # DOT
    <3>1. IntText(t) = t /\ FracText(t) = <<>>
      BY <2>1, PlainText
    <3>2. SubSeq(t, 1, Len(t)) = t /\ Len(t) \in j..Len(t)
      OBVIOUS
    <3>3. IntText(t) = SubSeq(t, 1, Len(t)) /\ FracText(t) \in Seq(Nat)
      BY <3>1, <3>2
    <3> QED
      BY <3>2, <3>3
  <2>2. ASSUME NEW i \in 1..Len(t), t[i] = DOT, \A k \in 1..(i - 1) : t[k] # DOT
        PROVE  \E n \in j..Len(t) : IntText(t) = SubSeq(t, 1, n)
                                    /\ FracText(t) \in Seq(Nat)
    <3>1. IntText(t) = SubSeq(t, 1, i - 1) /\ FracText(t) = SubSeq(t, i + 1, Len(t))
      BY <2>2, DottedText
    <3>2. i \notin 1..j
      BY <2>2, DigitFacts
    <3>3. i - 1 \in j..Len(t)
      BY <3>2
    <3>4. SubSeq(t, i + 1, Len(t)) \in Seq(Nat)
      OBVIOUS
    <3> QED
      BY <3>1, <3>3, <3>4
  <2> QED
    BY <2>1, <2>2, FirstDot
<1> DEFINE u == SubSeq(t, 1, n)
<1>2. n \in Nat /\ n <= Len(t) /\ j \in 0..n /\ n \in 0..Len(t)
  OBVIOUS
<1>3. u \in Seq(Nat) /\ Len(u) = n /\ \A i \in 1..n : u[i] = t[i]
  BY <1>2
<1>4. ValueOf(u) = Horner(t)[n]
  <2>1. n <= Len(u)
    BY <1>2, <1>3
  <2> HIDE DEF u
  <2> QED
    BY <1>2, <1>3, <2>1, HornerAgree DEF ValueOf
<1>5. Horner(t)[j] <= Horner(t)[n] /\ Horner(t)[j] \in Nat /\ Horner(t)[n] \in Nat
  <2>1. Horner(t)[j] <= Horner(t)[n]
    BY <1>2, HornerGrows
  <2>2. j \in 0..Len(t)
    BY <1>2
  <2> QED
    BY <1>2, <2>1, <2>2, HornerFacts
<1>6. Fraction(FracText(t)) \in Nat
  BY <1>1, FractionFacts
<1> DEFINE v == ValueOf(IntText(t))
<1>7. v \in Nat /\ v >= Word /\ Word \in Nat /\ SCALE \in Nat \ {0}
  BY <1>1, <1>4, <1>5, PowFacts, SMTT(30)
<1> HIDE DEF v
<1>8. v * SCALE >= Word /\ v * SCALE \in Nat
  BY <1>7
<1>9. Checked(v * SCALE + Fraction(FracText(t))) = None
  BY <1>6, <1>7, <1>8 DEF Checked
<1> QED
  BY <1>9 DEF Parse, v

\* The value of a text without a dot.
LEMMA PlainParse ==
    ASSUME NEW t \in Seq(Nat), \A k \in 1..Len(t) : t[k] \in Digits
    PROVE  Parse(t) = IF Len(t) > 0 THEN Checked(Horner(t)[Len(t)] * SCALE) ELSE None
<1>1. IntText(t) = t /\ FracText(t) = <<>>
  BY DigitFacts, PlainText
<1>2. ToSet(t) \subseteq Digits /\ ToSet(<<>>) \subseteq Digits
  BY DEF ToSet
<1>3. IsDecimal(t) <=> Len(t) > 0
  BY <1>1, <1>2 DEF IsDecimal
<1>4. Fraction(<<>>) = 0
  <2> DEFINE e == <<>>
  <2>1. e \in Seq(Nat) /\ Len(e) = 0
    OBVIOUS
  <2>2. 0 < FracDigits /\ FracDigits - 0 = FracDigits /\ POW10[FracDigits] \in Nat
    BY PowFacts
  <2> HIDE DEF e
  <2>3. Fraction(e) = Horner(e)[0] * POW10[FracDigits] /\ Horner(e)[0] = 0
    BY <2>1, <2>2, FractionFacts, HornerFacts
  <2>4. Fraction(e) = 0
    BY <2>2, <2>3
  <2> QED
    BY <2>4 DEF e
<1>5. Horner(t)[Len(t)] * SCALE \in Nat
  <2>1. Len(t) \in 0..Len(t)
    OBVIOUS
  <2>2. Horner(t)[Len(t)] \in Nat /\ SCALE \in Nat
    BY <2>1, HornerFacts, PowFacts
  <2> QED
    BY <2>2
<1>6. ValueOf(IntText(t)) * SCALE + Fraction(FracText(t)) = Horner(t)[Len(t)] * SCALE
  BY <1>1, <1>4, <1>5 DEF ValueOf
<1> QED
  BY <1>3, <1>6 DEF Parse

\* The value of a text with one dot: a digit on either side is enough, and
\* the digits that do not fit the scale are dropped.
LEMMA DottedParse ==
    ASSUME NEW t \in Seq(Nat), NEW i \in 1..Len(t), t[i] = DOT,
           \A k \in 1..Len(t) : k # i => t[k] \in Digits,
           NEW u \in Seq(Nat), Len(u) >= Len(t) - i,
           \A k \in 1..(Len(t) - i) : u[k] = t[i + k]
    PROVE  LET kept == IF Len(t) - i < FracDigits THEN Len(t) - i ELSE FracDigits
           IN  Parse(t) = IF Len(t) > 1
                          THEN Checked(Horner(t)[i - 1] * SCALE
                                       + Horner(u)[kept] * POW10[FracDigits - kept])
                          ELSE None
<1> DEFINE n == Len(t) - i
           kept == IF n < FracDigits THEN n ELSE FracDigits
           a == SubSeq(t, 1, i - 1)
           f == SubSeq(t, i + 1, Len(t))
<1>1. IntText(t) = a /\ FracText(t) = f
  <2>1. \A k \in 1..(i - 1) : t[k] # DOT
    BY DigitFacts
  <2> QED
    BY <2>1, DottedText
<1>2. /\ n \in Nat /\ i - 1 \in Nat /\ i - 1 <= Len(t) /\ Len(t) \in Nat
      /\ a \in Seq(Nat) /\ Len(a) = i - 1 /\ \A k \in 1..(i - 1) : a[k] = t[k]
      /\ f \in Seq(Nat) /\ Len(f) = n /\ \A k \in 1..n : f[k] = t[i + k]
  BY SMTT(30)
<1>3. ToSet(a) \subseteq Digits /\ ToSet(f) \subseteq Digits
  <2>1. \A k \in 1..(i - 1) : a[k] \in Digits
    BY <1>2
  <2>2. \A k \in 1..n : f[k] \in Digits
    <3> SUFFICES ASSUME NEW k \in 1..n PROVE t[i + k] \in Digits
      BY <1>2
    <3>1. i + k \in 1..Len(t) /\ i + k # i
      BY <1>2
    <3> QED
      BY <3>1
  <2>3. DOMAIN a = 1..(i - 1) /\ DOMAIN f = 1..n
    BY <1>2
  <2> HIDE DEF a, f, n
  <2> QED
    BY <2>1, <2>2, <2>3 DEF ToSet
<1>4. IsDecimal(t) <=> Len(t) > 1
  <2>1. ASSUME Len(t) > 1 PROVE \E k \in 1..Len(t) : t[k] \in Digits
    <3>1. i # 1 \/ i # 2
      OBVIOUS
    <3>2. 1 \in 1..Len(t) /\ 2 \in 1..Len(t)
      BY <2>1
    <3> QED
      BY <3>1, <3>2
  <2>2. ASSUME ~(Len(t) > 1) PROVE ~\E k \in 1..Len(t) : t[k] \in Digits
    BY <2>2, DigitFacts
  <2> HIDE DEF a, f, n
  <2> QED
    BY <1>1, <1>3, <2>1, <2>2 DEF IsDecimal
<1>5. ValueOf(a) = Horner(t)[i - 1]
  <2>1. i - 1 <= Len(a)
    BY <1>2
  <2> HIDE DEF a
  <2> QED
    <3>1. Horner(a)[i - 1] = Horner(t)[i - 1]
      BY <1>2, <2>1, HornerAgree
    <3> QED
      BY <1>2, <3>1 DEF ValueOf
<1>6. kept \in Nat /\ kept <= n
  BY <1>2, FixedPointAssumption
<1>7. Fraction(f) = Horner(f)[kept] * POW10[FracDigits - kept]
  BY <1>2, FractionFacts
<1>8. Horner(f)[kept] = Horner(u)[kept]
  <2>1. kept <= Len(f) /\ kept <= Len(u) /\ \A k \in 1..kept : f[k] = u[k]
    <3>1. /\ n \in Nat /\ kept \in Nat /\ kept <= n
          /\ Len(f) = n /\ \A k \in 1..n : f[k] = t[i + k]
      BY <1>2, <1>6
    <3>2. Len(u) \in Nat /\ n <= Len(u) /\ \A k \in 1..n : u[k] = t[i + k]
      OBVIOUS
    <3> HIDE DEF f, kept, n
    <3>3. \A k \in 1..kept : k \in 1..n
      BY <3>1
    <3>4. kept <= Len(f) /\ kept <= Len(u)
      BY <3>1, <3>2
    <3> QED
      BY <3>1, <3>2, <3>3, <3>4
  <2> HIDE DEF f, kept
  <2> QED
    BY <1>2, <1>6, <2>1, HornerAgree
<1> QED
  BY <1>1, <1>4, <1>5, <1>7, <1>8 DEF Parse

-----------------------------------------------------------------------------
(* Powers of ten, and what Display writes                                   *)

\* A power of ten is ten times the one below it.
LEMMA TenFacts ==
    /\ TenTo(0) = 1
    /\ \A n \in Nat : TenTo(n) \in Nat \ {0} /\ TenTo(n + 1) = 10 * TenTo(n)
<1> DEFINE One(n) == [j \in 1..(n + 1) |-> IF j = 1 THEN 1 ELSE 0]
<1>1. ASSUME NEW n \in Nat
      PROVE  /\ One(n) \in Seq(Nat) /\ Len(One(n)) = n + 1
             /\ \A j \in 1..(n + 1) : One(n)[j] = IF j = 1 THEN 1 ELSE 0
  OBVIOUS
<1>2. ASSUME NEW n \in Nat PROVE TenTo(n) = Horner(One(n))[n + 1] /\ TenTo(n) \in Nat
  <2>1. TenTo(n) = ValueOf(One(n))
    BY DEF TenTo
  <2> HIDE DEF One
  <2>2. TenTo(n) = Horner(One(n))[n + 1]
    BY <1>1, <2>1 DEF ValueOf
  <2>3. n + 1 \in 0..Len(One(n)) /\ One(n) \in Seq(Nat)
    BY <1>1
  <2> QED
    BY <2>2, <2>3, HornerFacts
<1> HIDE DEF One
<1>3. TenTo(0) = 1
  <2> DEFINE s == One(0)
  <2>1. s \in Seq(Nat) /\ Len(s) = 1 /\ s[1] = 1
    <3>1. 0 \in Nat /\ 0 + 1 = 1 /\ 1 \in 1..1
      OBVIOUS
    <3>2. s \in Seq(Nat) /\ Len(s) = 0 + 1 /\ \A j \in 1..(0 + 1) : s[j] = IF j = 1 THEN 1 ELSE 0
      BY <1>1, <3>1
    <3> HIDE DEF s
    <3> QED
      BY <3>1, <3>2
  <2> HIDE DEF s
  <2>2. 1 \in 1..Len(s) /\ 1 - 1 = 0 /\ 0 + 1 = 1
    BY <2>1
  <2>3. Horner(s)[1] = 10 * Horner(s)[1 - 1] + s[1] /\ Horner(s)[0] = 0
    BY <2>1, <2>2, HornerFacts
  <2>4. Horner(s)[0 + 1] = 1
    BY <2>1, <2>2, <2>3
  <2> QED
    BY <1>2, <2>4 DEF s
<1>4. ASSUME NEW n \in Nat PROVE TenTo(n + 1) = 10 * TenTo(n)
  <2> DEFINE s == One(n)
             t == One(n + 1)
  <2>1. /\ s \in Seq(Nat) /\ Len(s) = n + 1 /\ n + 1 \in Nat
        /\ \A j \in 1..(n + 1) : s[j] = IF j = 1 THEN 1 ELSE 0
    BY <1>1
  <2>2. /\ t \in Seq(Nat) /\ Len(t) = n + 2
        /\ \A j \in 1..(n + 2) : t[j] = IF j = 1 THEN 1 ELSE 0
    <3>1. n + 1 \in Nat /\ (n + 1) + 1 = n + 2
      OBVIOUS
    <3> QED
      BY <1>1, <3>1
  <2>3. TenTo(n) = Horner(s)[n + 1] /\ TenTo(n + 1) = Horner(t)[n + 2]
    <3>1. n + 1 \in Nat /\ (n + 1) + 1 = n + 2
      OBVIOUS
    <3> QED
      BY <1>2, <3>1
  <2> HIDE DEF s, t
  <2>4. Horner(s)[n + 1] = Horner(t)[n + 1]
    <3>1. n + 1 <= Len(s) /\ n + 1 <= Len(t) /\ \A j \in 1..(n + 1) : s[j] = t[j]
      BY <2>1, <2>2
    <3> QED
      BY <2>1, <2>2, <3>1, HornerAgree
  <2>5. Horner(t)[n + 2] = 10 * Horner(t)[n + 1] + 0
    <3>1. n + 2 \in 1..Len(t) /\ (n + 2) - 1 = n + 1 /\ n + 2 # 1 /\ n + 2 \in 1..(n + 2)
      BY <2>2
    <3>2. Horner(t)[n + 2] = 10 * Horner(t)[(n + 2) - 1] + t[n + 2]
      BY <2>2, <3>1, HornerFacts
    <3> QED
      BY <2>2, <3>1, <3>2
  <2> QED
    BY <1>2, <2>3, <2>4, <2>5
<1>5. \A n \in Nat : TenTo(n) # 0
  <2> DEFINE S == {n \in Nat : TenTo(n) # 0}
  <2>1. 0 \in S
    BY <1>3
  <2>2. ASSUME NEW n \in Nat, n \in S PROVE n + 1 \in S
    BY <1>2, <1>4, <2>2
  <2> HIDE DEF S
  <2>3. \A n \in Nat : n \in S
    BY <2>1, <2>2, SetInduction
  <2> QED
    BY <2>3 DEF S
<1> QED
  BY <1>2, <1>3, <1>4, <1>5

\* Powers of ten exceed their exponent, multiply, and are the table's.
LEMMA TenGrows == \A n \in Nat : n < TenTo(n)
<1> DEFINE S == {n \in Nat : n < TenTo(n)}
<1>1. 0 \in S
  BY TenFacts
<1>2. ASSUME NEW n \in Nat, n \in S PROVE n + 1 \in S
  BY <1>2, TenFacts
<1> HIDE DEF S
<1>3. \A n \in Nat : n \in S
  BY <1>1, <1>2, SetInduction
<1> QED
  BY <1>3 DEF S

\* The powers of ten multiply.
LEMMA TenProduct ==
    ASSUME NEW m \in Nat
    PROVE  \A n \in Nat : TenTo(m + n) = TenTo(m) * TenTo(n)
<1> DEFINE S == {n \in Nat : TenTo(m + n) = TenTo(m) * TenTo(n)}
<1>1. 0 \in S
  BY TenFacts
<1>2. ASSUME NEW n \in Nat, n \in S PROVE n + 1 \in S
  <2>1. m + (n + 1) = (m + n) + 1 /\ m + n \in Nat
    OBVIOUS
  <2>2. TenTo(m + (n + 1)) = 10 * TenTo(m + n) /\ TenTo(n + 1) = 10 * TenTo(n)
        /\ TenTo(m) \in Nat /\ TenTo(n) \in Nat
    BY <2>1, TenFacts
  <2> QED
    BY <1>2, <2>2
<1> HIDE DEF S
<1>3. \A n \in Nat : n \in S
  BY <1>1, <1>2, SetInduction
<1> QED
  BY <1>3 DEF S

\* The table holds the powers of ten.
LEMMA TableIsTen == \A k \in 0..FracDigits : POW10[k] = TenTo(k)
<1> DEFINE S == {k \in Nat : k <= FracDigits => POW10[k] = TenTo(k)}
<1>1. 0 \in S
  BY TenFacts, PowFacts
<1>2. ASSUME NEW k \in Nat, k \in S PROVE k + 1 \in S
  <2>1. SUFFICES ASSUME k + 1 <= FracDigits PROVE POW10[k + 1] = TenTo(k + 1)
    OBVIOUS
  <2>2. k \in 0..(FracDigits - 1) /\ POW10[k] = TenTo(k)
    BY <1>2, <2>1, PowFacts
  <2> QED
    BY <2>2, TenFacts, PowFacts
<1> HIDE DEF S
<1>3. \A k \in Nat : k \in S
  BY <1>1, <1>2, SetInduction
<1> QED
  BY <1>3, PowFacts DEF S

\* Every number has a width, and fits it.
LEMMA WidthFacts ==
    ASSUME NEW n \in Nat
    PROVE  Width(n) \in Nat \ {0} /\ n < TenTo(Width(n))
<1> DEFINE S == {k \in Nat : k >= 1 /\ n < TenTo(k)}
           P(k) == n < TenTo(k) /\ \A j \in 1..(k - 1) : n >= TenTo(j)
<1>1. S \subseteq Nat /\ n + 1 \in S
  <2>1. n + 1 \in Nat /\ n + 1 < TenTo(n + 1) /\ TenTo(n + 1) \in Nat
    BY TenGrows, TenFacts
  <2> QED
    BY <2>1
<1>2. PICK m \in S : \A y \in S : m <= y
  <2> HIDE DEF S
  <2> QED
    BY <1>1, MinFacts
<1>3. m \in 1..(n + 1) /\ P(m)
  <2>1. m \in 1..(n + 1)
    BY <1>1, <1>2
  <2>2. ASSUME NEW j \in 1..(m - 1) PROVE n >= TenTo(j)
    <3>1. j \in Nat /\ j >= 1 /\ j < m /\ TenTo(j) \in Nat /\ m \in Nat
      BY <2>1, TenFacts
    <3>2. j \notin S
      <4> HIDE DEF S
      <4> QED
        BY <1>2, <3>1
    <3> QED
      BY <3>1, <3>2
  <2> QED
    BY <2>1, <2>2
<1>4. Width(n) = CHOOSE k \in 1..(n + 1) : P(k)
  BY DEF Width
<1> HIDE DEF P
<1>5. Width(n) \in 1..(n + 1) /\ P(Width(n))
  BY <1>3, <1>4, Zenon
<1> QED
  BY <1>5 DEF P

\* Quotient and remainder.
LEMMA DivFacts ==
    ASSUME NEW n \in Nat, NEW P \in Nat \ {0}
    PROVE  /\ n = P * (n \div P) + (n % P)
           /\ n % P \in 0..(P - 1) /\ n \div P \in Nat
  OBVIOUS

\* Dividing by ten more often.
LEMMA DivTen ==
    ASSUME NEW n \in Nat, NEW P \in Nat \ {0}
    PROVE  /\ n \div (10 * P) = (n \div P) \div 10
           /\ n \div P \in Nat /\ (n \div P) % 10 \in Digits
           /\ n \div P = 10 * ((n \div P) \div 10) + ((n \div P) % 10)
<1>1. n \div (10 * P) = (n \div P) \div 10
  OBVIOUS
<1>2. n \div P \in Nat
  OBVIOUS
<1> DEFINE q == n \div P
<1> HIDE DEF q
<1>3. q \in Nat
  BY <1>2 DEF q
<1>4. q % 10 \in 0..(10 - 1) /\ q = 10 * (q \div 10) + (q % 10)
  <2>1. 10 \in Nat \ {0}
    OBVIOUS
  <2> QED
    BY <1>3, <2>1, DivFacts, Zenon
<1>5. q % 10 \in Digits
  BY <1>4 DEF Digits
<1> QED
  BY <1>1, <1>2, <1>4, <1>5 DEF q

\* A number written with k digits, enough for it, is read back as itself.
LEMMA PaddedFacts ==
    ASSUME NEW n \in Nat, NEW k \in Nat, n < TenTo(k)
    PROVE  /\ Padded(n, k) \in Seq(Nat) /\ Len(Padded(n, k)) = k
           /\ \A j \in 1..k : Padded(n, k)[j] \in Digits
           /\ Horner(Padded(n, k))[k] = n
<1> DEFINE s == Padded(n, k)
<1>1. ASSUME NEW j \in 1..k
      PROVE  (n \div TenTo(k - j)) % 10 \in Digits /\ (n \div TenTo(k - j)) % 10 \in Nat
  <2>1. TenTo(k - j) \in Nat \ {0}
    BY TenFacts
  <2> QED
    BY <2>1, DivTen, DigitFacts
<1>2. s = [j \in 1..k |-> (n \div TenTo(k - j)) % 10]
  BY DEF Padded
<1> HIDE DEF s
<1>3. /\ s \in Seq(Nat) /\ Len(s) = k
      /\ \A j \in 1..k : s[j] = (n \div TenTo(k - j)) % 10 /\ s[j] \in Digits
  <2>1. \A j \in 1..k : s[j] = (n \div TenTo(k - j)) % 10
    BY <1>2
  <2>2. s \in [1..k -> Nat]
    BY <1>1, <1>2
  <2>3. s \in Seq(Nat) /\ Len(s) = k
    BY <2>2
  <2> QED
    BY <1>1, <2>1, <2>3
<1> DEFINE h == Horner(s)
           S == {j \in Nat : j <= k => h[j] = n \div TenTo(k - j)}
<1>4. h[0] = 0 /\ \A j \in 1..k : h[j] = 10 * h[j - 1] + s[j]
  BY <1>3, HornerFacts
<1> HIDE DEF h
<1>5. 0 \in S
  <2>1. k - 0 = k /\ TenTo(k) \in Nat
    BY TenFacts
  <2>2. n \div TenTo(k) = 0
    BY <2>1
  <2> QED
    BY <1>4, <2>1, <2>2
<1>6. ASSUME NEW j \in Nat, j \in S PROVE j + 1 \in S
  <2>1. SUFFICES ASSUME j + 1 <= k PROVE h[j + 1] = n \div TenTo(k - (j + 1))
    OBVIOUS
  <2> DEFINE P == TenTo(k - (j + 1))
             q == n \div P
  <2>2. /\ k - (j + 1) \in Nat /\ (k - (j + 1)) + 1 = k - j
        /\ j + 1 \in 1..k /\ (j + 1) - 1 = j
    BY <2>1
  <2>3. P \in Nat \ {0} /\ TenTo(k - j) = 10 * P
    BY <2>2, TenFacts
  <2>4. h[j] = n \div (10 * P)
    BY <1>6, <2>1, <2>3
  <2>5. s[j + 1] = q % 10
    BY <1>3, <2>2
  <2> HIDE DEF P
  <2>6. n \div (10 * P) = q \div 10 /\ q = 10 * (q \div 10) + (q % 10)
    BY <2>3, DivTen
  <2>7. h[j + 1] = 10 * h[j] + s[j + 1]
    BY <1>4, <2>2
  <2> HIDE DEF q
  <2>8. h[j + 1] = q
    <3>1. h[j] = q \div 10
      BY <2>4, <2>6, Zenon
    <3>2. h[j + 1] = 10 * (q \div 10) + (q % 10)
      BY <2>5, <2>7, <3>1, Zenon
    <3> QED
      BY <2>6, <3>2, Zenon
  <2> QED
    BY <2>8 DEF q, P
<1> HIDE DEF S
<1>7. \A j \in Nat : j \in S
  BY <1>5, <1>6, SetInduction
<1>8. h[k] = n
  <2>1. h[k] = n \div TenTo(k - k)
    BY <1>7 DEF S
  <2>2. TenTo(k - k) = 1
    BY TenFacts
  <2> QED
    BY <2>1, <2>2
<1> QED
  BY <1>3, <1>8 DEF h, s

\* Two texts, one behind the other.
LEMMA ConcatFacts ==
    ASSUME NEW s \in Seq(Nat), NEW t \in Seq(Nat)
    PROVE  /\ s \o t \in Seq(Nat) /\ Len(s \o t) = Len(s) + Len(t)
           /\ \A j \in 1..Len(s) : (s \o t)[j] = s[j]
           /\ \A j \in 1..Len(t) : (s \o t)[Len(s) + j] = t[j]
  OBVIOUS

\* What Display makes of a word, parse reads as the same word.
LEMMA DisplayParses ==
    ASSUME NEW v \in Words
    PROVE  Parse(Display(v)) = v
<1> DEFINE x == v \div SCALE
           y == v % SCALE
           w == Width(x)
           a == Padded(x, w)
           f == Padded(y, FracDigits)
           t == a \o <<DOT>> \o f
           i == w + 1
<1>1. /\ v \in Nat /\ v < Word /\ SCALE \in Nat \ {0} /\ FracDigits \in Nat \ {0}
      /\ FracDigits \in Nat
  BY PowFacts DEF Words
<1>2. v = SCALE * x + y /\ y \in 0..(SCALE - 1) /\ x \in Nat
  BY <1>1, DivFacts
<1>3. Display(v) = t
  BY DEF Display
<1> HIDE DEF x, y
<1>4. w \in Nat \ {0} /\ x < TenTo(w)
  BY <1>2, WidthFacts
<1>5. y \in Nat /\ y < TenTo(FracDigits)
  <2>1. SCALE = TenTo(FracDigits)
    BY <1>1, TableIsTen DEF SCALE
  <2> QED
    BY <1>1, <1>2, <2>1
<1> HIDE DEF w
<1>6. /\ a \in Seq(Nat) /\ Len(a) = w /\ (\A j \in 1..w : a[j] \in Digits)
      /\ Horner(a)[w] = x
  BY <1>2, <1>4, PaddedFacts
<1>7. /\ f \in Seq(Nat) /\ Len(f) = FracDigits
      /\ (\A j \in 1..FracDigits : f[j] \in Digits) /\ Horner(f)[FracDigits] = y
  BY <1>1, <1>5, PaddedFacts
<1> HIDE DEF a, f
<1>8. /\ t \in Seq(Nat) /\ Len(t) = w + 1 + FracDigits
      /\ \A j \in 1..w : t[j] = a[j]
      /\ t[w + 1] = DOT
      /\ \A j \in 1..FracDigits : t[i + j] = f[j]
  <2>1. <<DOT>> \in Seq(Nat) /\ Len(<<DOT>>) = 1 /\ <<DOT>>[1] = DOT
    BY DigitFacts
  <2> DEFINE b == a \o <<DOT>>
  <2>2. /\ b \in Seq(Nat) /\ Len(b) = w + 1 /\ b[w + 1] = DOT
        /\ \A j \in 1..w : b[j] = a[j]
    BY <1>4, <1>6, <2>1
  <2>3. t = b \o f
    OBVIOUS
  <2> HIDE DEF b, t
  <2>4. /\ t \in Seq(Nat) /\ Len(t) = Len(b) + Len(f)
        /\ \A j \in 1..Len(b) : t[j] = b[j]
        /\ \A j \in 1..Len(f) : t[Len(b) + j] = f[j]
    BY <1>7, <2>2, <2>3, ConcatFacts
  <2>5. w + 1 \in 1..Len(b) /\ \A j \in 1..w : j \in 1..Len(b)
    BY <1>4, <2>2
  <2> QED
    BY <1>7, <2>2, <2>4, <2>5
<1> HIDE DEF t
<1>9. ASSUME NEW k \in 1..Len(t), k # i PROVE t[k] \in Digits
  <2>1. CASE k < i
    BY <1>4, <1>6, <1>8, <2>1
  <2>2. CASE k > i
    <3>1. k - i \in 1..FracDigits /\ i + (k - i) = k
      BY <1>1, <1>4, <1>8, <2>2
    <3>2. t[i + (k - i)] = f[k - i] /\ f[k - i] \in Digits
      BY <1>7, <1>8, <3>1
    <3> QED
      BY <3>1, <3>2
  <2> QED
    BY <1>4, <1>9, <2>1, <2>2
<1>10. /\ i \in 1..Len(t) /\ Len(t) - i = FracDigits /\ i - 1 = w /\ Len(t) > 1
       /\ FracDigits - FracDigits = 0 /\ ~(FracDigits < FracDigits)
  BY <1>1, <1>4, <1>8
<1>11. Parse(t) = Checked(Horner(t)[w] * SCALE
                          + Horner(f)[FracDigits] * POW10[0])
  <2>1. t[i] = DOT /\ Len(f) >= Len(t) - i /\ \A k \in 1..(Len(t) - i) : f[k] = t[i + k]
    BY <1>1, <1>7, <1>8, <1>10, SMTT(30)
  <2> HIDE DEF i
  <2> QED
    BY <1>7, <1>8, <1>9, <1>10, <2>1, DottedParse
<1>12. Horner(t)[w] = x
  <2>1. w <= Len(t) /\ w <= Len(a) /\ \A j \in 1..w : t[j] = a[j]
    BY <1>1, <1>4, <1>6, <1>8
  <2>2. Horner(t)[w] = Horner(a)[w]
    BY <1>4, <1>6, <1>8, <2>1, HornerAgree
  <2> QED
    BY <1>6, <2>2
<1>13. x * SCALE + y * POW10[0] = v
  BY <1>1, <1>2, <1>5, PowFacts
<1>14. Parse(t) = Checked(v)
  BY <1>7, <1>11, <1>12, <1>13, Zenon
<1> QED
  BY <1>1, <1>3, <1>14 DEF Checked

\* The number that two runs of digits denote together.
LEMMA HornerConcat ==
    ASSUME NEW s \in Seq(Nat), NEW t \in Seq(Nat)
    PROVE  ValueOf(s \o t) = ValueOf(s) * TenTo(Len(t)) + ValueOf(t)
<1> DEFINE u == s \o t
           m == Len(s)
           n == Len(t)
           a == Horner(s)[m]
           S == {j \in Nat : j <= n => Horner(u)[m + j] = a * TenTo(j) + Horner(t)[j]}
<1>1. /\ m \in Nat /\ n \in Nat /\ u \in Seq(Nat) /\ Len(u) = m + n
      /\ (\A j \in 1..m : u[j] = s[j]) /\ \A j \in 1..n : u[m + j] = t[j]
  OBVIOUS
<1>2. a \in Nat /\ Horner(t)[0] = 0
  BY <1>1, HornerFacts, SMTT(30)
<1> HIDE DEF u
<1>3. Horner(u)[m] = a
  <2>1. m <= Len(u) /\ m <= Len(s)
    BY <1>1
  <2> QED
    BY <1>1, <2>1, HornerAgree
<1> HIDE DEF a, m, n
<1>4. 0 \in S
  <2>1. TenTo(0) = 1 /\ m + 0 = m /\ a * 1 + 0 = a
    BY <1>1, <1>2, TenFacts
  <2> QED
    BY <1>2, <1>3, <2>1
<1>5. ASSUME NEW j \in Nat, j \in S PROVE j + 1 \in S
  <2>1. SUFFICES ASSUME j + 1 <= n
                 PROVE  Horner(u)[m + (j + 1)] = a * TenTo(j + 1) + Horner(t)[j + 1]
    OBVIOUS
  <2>2. /\ j + 1 \in 1..n /\ (j + 1) - 1 = j /\ j \in 0..n
        /\ m + (j + 1) \in 1..(m + n) /\ (m + (j + 1)) - 1 = m + j
    BY <1>1, <2>1
  <2>3. Horner(u)[m + (j + 1)] = 10 * Horner(u)[m + j] + u[m + (j + 1)]
    BY <1>1, <2>2, HornerFacts
  <2>4. Horner(t)[j + 1] = 10 * Horner(t)[j] + t[j + 1] /\ Horner(t)[j] \in Nat
        /\ t[j + 1] \in Nat
    <3>1. j + 1 \in 1..Len(t) /\ j \in 0..Len(t)
      BY <2>2 DEF n
    <3>2. t[j + 1] \in Nat
      BY <3>1
    <3>3. Horner(t)[j] \in Nat /\ Horner(t)[j + 1] = 10 * Horner(t)[(j + 1) - 1] + t[j + 1]
      BY <3>1, HornerFacts
    <3> QED
      BY <2>2, <3>2, <3>3
  <2>5. Horner(u)[m + j] = a * TenTo(j) + Horner(t)[j]
    <3>1. j <= n
      BY <1>1, <2>2
    <3> QED
      BY <1>5, <3>1
  <2>6. TenTo(j + 1) = 10 * TenTo(j) /\ TenTo(j) \in Nat /\ u[m + (j + 1)] = t[j + 1]
    BY <1>1, <2>2, TenFacts
  <2> DEFINE T == TenTo(j)
             h == Horner(t)[j]
             d == t[j + 1]
  <2> HIDE DEF T, h, d
  <2>7. 10 * (a * T + h) + d = a * (10 * T) + (10 * h + d)
    BY <1>2, <2>4, <2>6, SMTT(30) DEF T, h, d
  <2> QED
    BY <2>3, <2>4, <2>5, <2>6, <2>7, Zenon DEF T, h, d
<1> HIDE DEF S
<1>6. \A j \in Nat : j \in S
  BY <1>4, <1>5, SetInduction
<1>7. Horner(u)[m + n] = a * TenTo(n) + Horner(t)[n]
  BY <1>1, <1>6 DEF S
<1> QED
  BY <1>1, <1>7 DEF ValueOf, a, m, n, u

\* Dropping the last digits rounds down, in units of the last one that stays.
LEMMA HornerRounds ==
    ASSUME NEW s \in Seq(Nat), NEW k \in 0..Len(s), \A j \in 1..Len(s) : s[j] \in Digits
    PROVE  LET n == Len(s) IN
           /\ Horner(s)[k] * TenTo(n - k) <= Horner(s)[n]
           /\ Horner(s)[n] < (Horner(s)[k] + 1) * TenTo(n - k)
<1> DEFINE n == Len(s)
           h == Horner(s)
           a == h[k]
           S == {j \in Nat : k + j <= n => /\ a * TenTo(j) <= h[k + j]
                                           /\ h[k + j] < (a + 1) * TenTo(j)}
<1>1. /\ n \in Nat /\ k \in Nat /\ k <= n /\ h \in [0..n -> Nat]
      /\ \A j \in 1..n : h[j] = 10 * h[j - 1] + s[j] /\ s[j] \in Digits
  BY HornerFacts
<1> HIDE DEF h, n
<1>2. a \in Nat
  BY <1>1
<1> HIDE DEF a
<1>3. 0 \in S
  <2>1. TenTo(0) = 1
    BY TenFacts
  <2>2. k + 0 = k /\ a * 1 = a /\ (a + 1) * 1 = a + 1
    BY <1>1, <1>2
  <2>3. h[k] = a
    BY DEF a
  <2> QED
    BY <1>2, <2>1, <2>2, <2>3
<1>4. ASSUME NEW j \in Nat, j \in S PROVE j + 1 \in S
  <2> DEFINE T == TenTo(j)
             x == h[k + j]
             d == s[k + (j + 1)]
  <2>1. SUFFICES ASSUME k + (j + 1) <= n
                 PROVE  /\ a * TenTo(j + 1) <= h[k + (j + 1)]
                        /\ h[k + (j + 1)] < (a + 1) * TenTo(j + 1)
    OBVIOUS
  <2>2. /\ k + (j + 1) \in 1..n /\ (k + (j + 1)) - 1 = k + j /\ k + j \in 0..n
    BY <1>1, <2>1
  <2>3. h[k + (j + 1)] = 10 * x + d /\ d \in Digits /\ x \in Nat
    BY <1>1, <2>2
  <2>4. a * T <= x /\ x < (a + 1) * T
    BY <1>1, <1>4, <2>1
  <2>5. TenTo(j + 1) = 10 * T /\ T \in Nat
    BY TenFacts
  <2> HIDE DEF T, x, d
  <2>6. a * (10 * T) <= 10 * x + d /\ 10 * x + d < (a + 1) * (10 * T)
    <3>1. d \in 0..9
      BY <2>3 DEF Digits
    <3>2. a * (10 * T) = 10 * (a * T) /\ (a + 1) * (10 * T) = 10 * ((a + 1) * T)
          /\ a * T \in Nat /\ (a + 1) * T \in Nat
      BY <1>2, <2>5
    <3> DEFINE p == a * T
               q == (a + 1) * T
    <3> HIDE DEF p, q
    <3>3. 10 * p <= 10 * x + d /\ 10 * x + d < 10 * q
      BY <2>3, <2>4, <3>1, <3>2 DEF p, q
    <3> QED
      BY <3>2, <3>3 DEF p, q
  <2> QED
    BY <2>3, <2>5, <2>6
<1> HIDE DEF S
<1>5. \A j \in Nat : j \in S
  BY <1>3, <1>4, SetInduction
<1>6. n - k \in Nat /\ k + (n - k) = n /\ n - k \in S
  BY <1>1, <1>5
<1> QED
  BY <1>1, <1>6 DEF S, h, n, a

\* The parts of a text are texts.
LEMMA PartFacts ==
    ASSUME NEW t \in Seq(Nat)
    PROVE  IntText(t) \in Seq(Nat) /\ FracText(t) \in Seq(Nat)
<1>1. CASE \A k \in 1..Len(t) : t[k] # DOT
  <2>1. IntText(t) = t /\ FracText(t) = <<>>
    BY <1>1, PlainText
  <2> QED
    BY <2>1
<1>2. ASSUME NEW i \in 1..Len(t), t[i] = DOT, \A k \in 1..(i - 1) : t[k] # DOT
      PROVE  IntText(t) \in Seq(Nat) /\ FracText(t) \in Seq(Nat)
  <2>1. IntText(t) = SubSeq(t, 1, i - 1) /\ FracText(t) = SubSeq(t, i + 1, Len(t))
    BY <1>2, DottedText
  <2> QED
    BY <2>1
<1> QED
  BY <1>1, <1>2, FirstDot

\* With all digits kept the scaled value is exact.
LEMMA ExactScaling ==
    ASSUME NEW a \in Nat, NEW h \in Nat, NEW T \in Nat \ {0}, NEW P \in Nat,
           NEW S \in Nat, S = T * P
    PROVE  /\ (a * S + h * P) * T <= (a * T + h) * S
           /\ (a * T + h) * S < ((a * S + h * P) + 1) * T
<1>1. (a * S + h * P) * T = (a * T + h) * S
  BY Z3
<1> DEFINE x == (a * S + h * P) * T
<1>2. x \in Nat /\ ((a * S + h * P) + 1) * T = x + T
  OBVIOUS
<1> HIDE DEF x
<1>3. x <= x /\ x < x + T
  BY <1>2
<1> QED
  BY <1>1, <1>2, <1>3 DEF x

\* With digits dropped it is rounded down.
LEMMA RoundedScaling ==
    ASSUME NEW a \in Nat, NEW h \in Nat, NEW H \in Nat, NEW T \in Nat \ {0},
           NEW R \in Nat, NEW S \in Nat \ {0}, T = S * R,
           h * R <= H, H < (h + 1) * R
    PROVE  /\ (a * S + h) * T <= (a * T + H) * S
           /\ (a * T + H) * S < ((a * S + h) + 1) * T
<1> DEFINE p == h * R
           q == (h + 1) * R
           b == a * S * T
<1>1. /\ (a * S + h) * T = b + p * S /\ ((a * S + h) + 1) * T = b + q * S
      /\ (a * T + H) * S = b + H * S /\ b \in Nat /\ p \in Nat /\ q \in Nat
  BY Z3
<1>2. p <= H /\ H < q
  OBVIOUS
<1> HIDE DEF p, q, b
<1>3. p * S <= H * S /\ H * S < q * S /\ p * S \in Nat /\ H * S \in Nat /\ q * S \in Nat
  BY <1>1, <1>2
<1> DEFINE x == p * S
           y == H * S
           z == q * S
<1> HIDE DEF x, y, z
<1>4. b + x <= b + y /\ b + y < b + z
  BY <1>1, <1>3 DEF x, y, z
<1> QED
  BY <1>1, <1>4 DEF x, y, z

\* What parse makes of a text is its value rounded down to a multiple of
\* 1/SCALE.
LEMMA ParseRounds ==
    ASSUME NEW t \in Seq(Nat), Parse(t) # None
    PROVE  LET unit == TenTo(Len(FracText(t)))
               exact == ValueOf(IntText(t) \o FracText(t)) * SCALE
           IN  Parse(t) * unit <= exact /\ exact < (Parse(t) + 1) * unit
<1> DEFINE I == IntText(t)
           F == FracText(t)
           n == Len(F)
           a == ValueOf(I)
           H == ValueOf(F)
           T == TenTo(n)
           kept == IF n < FracDigits THEN n ELSE FracDigits
           h == Horner(F)[kept]
           P == POW10[FracDigits - kept]
<1>1. I \in Seq(Nat) /\ F \in Seq(Nat)
  BY PartFacts
<1>2. ToSet(F) \subseteq Digits /\ Parse(t) = Checked(a * SCALE + Fraction(F))
  BY DEF Parse, IsDecimal
<1>3. Parse(t) = a * SCALE + Fraction(F)
  <2> HIDE DEF a, F
  <2> QED
    BY <1>2 DEF Checked
<1> HIDE DEF I, F
<1>4. ValueOf(I \o F) = a * T + H
  BY <1>1, HornerConcat
<1>5. n \in Nat /\ FracDigits \in Nat \ {0} /\ SCALE \in Nat \ {0}
  BY <1>1, PowFacts
<1>6. a \in Nat /\ H \in Nat /\ H = Horner(F)[n]
  <2>1. Len(I) \in 0..Len(I) /\ n \in 0..n
    BY <1>1
  <2>2. ValueOf(I) = Horner(I)[Len(I)] /\ ValueOf(F) = Horner(F)[n]
    BY DEF ValueOf
  <2>3. Horner(I)[Len(I)] \in Nat
    BY <1>1, <2>1, HornerFacts
  <2>4. Horner(F)[n] \in Nat
    BY <1>1, <2>1, HornerFacts
  <2> QED
    BY <2>2, <2>3, <2>4
<1>7. kept \in 0..FracDigits /\ kept \in 0..n /\ Fraction(F) = h * P
  BY <1>1, FractionFacts
<1>8. h \in Nat
  BY <1>1, <1>7, HornerFacts
<1>9. \A j \in 1..n : F[j] \in Digits
  BY <1>1, <1>2, InToSet
<1>10. T \in Nat \ {0}
  BY <1>5, TenFacts
<1>11. \A k \in 0..FracDigits : POW10[k] = TenTo(k) /\ FracDigits - k \in 0..FracDigits
       /\ SCALE = POW10[k] * POW10[FracDigits - k] /\ POW10[k] \in Nat \ {0}
  BY TableIsTen, PowFacts
<1> DEFINE d == a * SCALE + h * P
<1>12. d * T <= (a * T + H) * SCALE /\ (a * T + H) * SCALE < (d + 1) * T
  <2>1. CASE n < FracDigits
    <3>1. kept = n /\ h = H /\ n \in 0..FracDigits
      BY <1>5, <1>6, <2>1
    <3>2. SCALE = T * P /\ P \in Nat
      BY <1>11, <3>1
    <3> HIDE DEF a, H, T, P, h
    <3> QED
      BY <1>5, <1>6, <1>10, <3>1, <3>2, ExactScaling
  <2>2. CASE ~(n < FracDigits)
    <3> DEFINE R == TenTo(n - FracDigits)
    <3>1. kept = FracDigits /\ FracDigits - kept = 0 /\ P = 1
      BY <1>5, <2>2, PowFacts
    <3>2. n - FracDigits \in Nat /\ FracDigits + (n - FracDigits) = n
      BY <1>5, <2>2
    <3>3. T = SCALE * R /\ R \in Nat
      <4>1. SCALE = TenTo(FracDigits)
        BY <1>5, TableIsTen DEF SCALE
      <4>2. TenTo(FracDigits + (n - FracDigits)) = TenTo(FracDigits) * R
        BY <1>5, <3>2, TenProduct
      <4> QED
        BY <3>2, <4>1, <4>2, TenFacts
    <3>4. h * R <= H /\ H < (h + 1) * R
      <4>1. /\ Horner(F)[kept] * TenTo(n - kept) <= Horner(F)[n]
            /\ Horner(F)[n] < (Horner(F)[kept] + 1) * TenTo(n - kept)
        <5> HIDE DEF kept
        <5> QED
          BY <1>1, <1>7, <1>9, HornerRounds
      <4> QED
        BY <1>6, <3>1, <4>1
    <3>5. d = a * SCALE + h
      <4> HIDE DEF h, P, a
      <4> QED
        BY <1>8, <3>1
    <3> HIDE DEF a, H, T, P, h, R, d
    <3> QED
      BY <1>5, <1>6, <1>8, <1>10, <3>3, <3>4, <3>5, RoundedScaling
  <2> QED
    BY <2>1, <2>2
<1>13. Parse(t) = d /\ ValueOf(I \o F) * SCALE = (a * T + H) * SCALE
  BY <1>3, <1>4, <1>7
<1> HIDE DEF d, a, H, T
<1> QED
  BY <1>12, <1>13 DEF T, I, F, n

-----------------------------------------------------------------------------
\* A walk starts with nothing read.
LEMMA InitIInv == Init => IInv
<1> SUFFICES ASSUME Init PROVE IInv
  OBVIOUS
<1>1. NumInv
  BY PowFacts DEF Init, Zero, NumInv
<1>2. BookInv
  BY WalkerAssumption DEF Init, BookInv, SideOK
<1>3. 0 \in Words
  BY PowFacts DEF Words
<1> QED
  BY <1>1, <1>2, <1>3 DEF Init, IInv, Levels

\* Steps that move the position and decide where the walk goes on.
LEMMA ControlIInv ==
    ASSUME IInv,
           \/ SeekSide \/ Reject \/ OpenArray \/ OpenLevel \/ PriceComma
           \/ NextLevel \/ CloseArray \/ EndInt \/ EndFrac
    PROVE  IInv'
<1>1. UNCHANGED <<num, level, book>>
  BY DEF SeekSide, Reject, OpenArray, OpenLevel, PriceComma, NextLevel,
         CloseArray, EndInt, EndFrac
<1>2. side' \in {"bids", "asks"}
  BY DEF IInv, SeekSide, EndSide, Reject, OpenArray, OpenLevel, PriceComma,
         NextLevel, CloseArray, EndInt, EndFrac
<1>3. field' \in {"price", "amount"}
  BY DEF IInv, SeekSide, Reject, OpenArray, OpenLevel, PriceComma, NextLevel,
         CloseArray, EndInt, EndFrac
<1> QED
  BY <1>1, <1>2, <1>3 DEF IInv, NumInv, BookInv, SideOK

\* The number and the event's name go into the book beside the sides.
LEMMA NumberIInv ==
    ASSUME IInv, ReadLastUpdateId \/ ReadMicrotimestamp \/ Finish
    PROVE  IInv'
<1>1. UNCHANGED <<num, level, side, field>>
  BY DEF ReadLastUpdateId, ReadMicrotimestamp, Finish
<1>2. BookInv'
  <2>1. \/ book' = book
        \/ \E x : book' = [book EXCEPT !.seq = x]
        \/ \E x : book' = [book EXCEPT !.has_data = TRUE, !.seq = x]
        \/ \E x : book' = [book EXCEPT !.event = x]
    BY DEF ReadLastUpdateId, ReadMicrotimestamp, Finish
  <2>2. BookInv
    BY DEF IInv
  <2>3. /\ book' = [seq |-> book'.seq, has_data |-> book'.has_data,
                    bids |-> book'.bids, asks |-> book'.asks,
                    event |-> book'.event]
        /\ book'.bids = book.bids /\ book'.asks = book.asks
    BY <2>1, <2>2 DEF BookInv
  <2> QED
    BY <2>2, <2>3 DEF BookInv
<1> QED
  BY <1>1, <1>2 DEF IInv, NumInv

\* A level is pushed only while there is room and only with an amount.
LEMMA CloseLevelIInv == ASSUME IInv, CloseLevel PROVE IInv'
<1>1. /\ UNCHANGED <<num, level, field>> /\ side' \in {"bids", "asks"}
      /\ level \in Levels /\ side \in {"bids", "asks"} /\ BookInv
  BY DEF IInv, CloseLevel, EndSide
<1>2. CASE book' = book
  BY <1>1, <1>2 DEF IInv, NumInv, BookInv, SideOK
<1>3. CASE book' # book
  <2>1. /\ level.amount # 0 /\ Len(book[side]) # Depth
        /\ book' = [book EXCEPT ![side] = Append(book[side], level)]
    <3>1. \/ book' = book
          \/ /\ ~(~IsCleared(level) /\ Len(book[side]) = Depth)
             /\ book' = [book EXCEPT ![side] =
                             IF IsCleared(level) THEN @ ELSE Append(@, level)]
      BY DEF CloseLevel
    <3>2. IsCleared(level) => [book EXCEPT ![side] = book[side]] = book
      BY <1>1 DEF BookInv
    <3> QED
      BY <1>3, <3>1, <3>2 DEF IsCleared
  <2>2. ASSUME NEW s, SideOK(s), Len(s) # Depth PROVE SideOK(Append(s, level))
    <3>1. Len(s) \in Nat /\ Depth \in Nat /\ Len(s) <= Depth /\ s \in Seq(Levels)
      BY <2>2, WalkerAssumption DEF SideOK
    <3>2. /\ Append(s, level) \in Seq(Levels) /\ Len(Append(s, level)) = Len(s) + 1
          /\ \A k \in 1..(Len(s) + 1) : Append(s, level)[k] =
                                          IF k <= Len(s) THEN s[k] ELSE level
      BY <1>1, <3>1
    <3>3. \A k \in 1..(Len(s) + 1) : Append(s, level)[k].amount # 0
      BY <2>1, <2>2, <3>1, <3>2 DEF SideOK
    <3> QED
      BY <2>2, <3>1, <3>2, <3>3 DEF SideOK
  <2>3. CASE side = "bids"
    <3>1. /\ book' = [seq |-> book'.seq, has_data |-> book'.has_data,
                      bids |-> book'.bids, asks |-> book'.asks,
                      event |-> book'.event]
          /\ book'.bids = Append(book.bids, level) /\ book'.asks = book.asks
      BY <1>1, <2>1, <2>3 DEF BookInv
    <3>2. SideOK(book'.bids) /\ SideOK(book'.asks)
      BY <1>1, <2>1, <2>2, <2>3, <3>1 DEF BookInv
    <3> QED
      BY <1>1, <3>1, <3>2 DEF IInv, NumInv, BookInv
  <2>4. CASE side = "asks"
    <3>1. /\ book' = [seq |-> book'.seq, has_data |-> book'.has_data,
                      bids |-> book'.bids, asks |-> book'.asks,
                      event |-> book'.event]
          /\ book'.asks = Append(book.asks, level) /\ book'.bids = book.bids
      BY <1>1, <2>1, <2>4 DEF BookInv
    <3>2. SideOK(book'.bids) /\ SideOK(book'.asks)
      BY <1>1, <2>1, <2>2, <2>4, <3>1 DEF BookInv
    <3> QED
      BY <1>1, <3>1, <3>2 DEF IInv, NumInv, BookInv
  <2> QED
    BY <1>1, <2>3, <2>4
<1> QED
  BY <1>2, <1>3

\* Digits are accumulated: checked before the dot, bounded behind it.
LEMMA DigitIInv == ASSUME IInv, OpenQuote \/ IntDigit \/ FracDigit PROVE IInv'
<1>1. UNCHANGED <<level, side, field, book>> /\ NumInv
  BY DEF IInv, OpenQuote, IntDigit, FracDigit
<1>2. CASE num' = num
  BY <1>1, <1>2 DEF IInv, NumInv, BookInv, SideOK
<1>3. CASE OpenQuote
  <2>1. NumInv'
    BY <1>3, PowFacts DEF OpenQuote, Zero, NumInv
  <2> QED
    BY <1>1, <2>1 DEF IInv, BookInv, SideOK
<1>4. CASE IntDigit /\ num' # num
  <2>1. /\ buf[pos] \in Digits
        /\ num' = [num EXCEPT !.int_part = @ * 10 + buf[pos], !.int_digits = @ + 1]
    BY <1>4 DEF IntDigit
  <2>2. num' = [int_part |-> num.int_part * 10 + buf[pos],
                int_digits |-> num.int_digits + 1, frac_part |-> num.frac_part,
                frac_digits |-> num.frac_digits, from |-> num.from]
    BY <1>1, <2>1 DEF NumInv
  <2>3. num.int_part * 10 + buf[pos] \in Nat
    BY <1>1, <2>1 DEF NumInv, Digits
  <2>4. NumInv'
    BY <1>1, <2>2, <2>3 DEF NumInv
  <2> QED
    BY <1>1, <2>4 DEF IInv, BookInv, SideOK
<1>5. CASE FracDigit /\ num' # num
  <2> DEFINE d == buf[pos]
             more == num.frac_part * 10 + d
  <2>1. /\ d \in Digits /\ num.frac_digits < FracDigits
        /\ num' = [num EXCEPT !.frac_part = more % Word, !.frac_digits = @ + 1]
    BY <1>5 DEF FracDigit, FracByteOk, KeepsDigit
  <2>2. more < POW10[num.frac_digits + 1] /\ more < Word
    BY <1>1, <2>1, FractionFits DEF NumInv
  <2>3. more \in Nat
    BY <1>1, <2>1 DEF NumInv, Digits
  <2>4. more % Word = more
    <3> HIDE DEF more
    <3>1. more \in Int /\ 0 <= more /\ more < Word /\ Word \in Nat \ {0}
      BY <2>2, <2>3, PowFacts
    <3> QED
      BY <3>1, ModFacts, Zenon
  <2>5. num' = [int_part |-> num.int_part, int_digits |-> num.int_digits,
                frac_part |-> more, frac_digits |-> num.frac_digits + 1,
                from |-> num.from]
    <3> HIDE DEF more
    <3> QED
      BY <1>1, <2>1, <2>4 DEF NumInv
  <2> HIDE DEF more
  <2>6. NumInv'
    <3>1. /\ num'.int_part = num.int_part /\ num'.int_digits = num.int_digits
          /\ num'.frac_part = more /\ num'.frac_digits = num.frac_digits + 1
          /\ num' = [int_part |-> num'.int_part, int_digits |-> num'.int_digits,
                     frac_part |-> num'.frac_part, frac_digits |-> num'.frac_digits,
                     from |-> num'.from]
      BY <2>5
    <3>2. num.frac_digits + 1 \in 0..FracDigits
      BY <1>1, <2>1, FixedPointAssumption DEF NumInv
    <3>3. num'.int_part \in Nat /\ num'.int_digits \in Nat
      BY <1>1, <3>1 DEF NumInv
    <3>4. num'.frac_part < POW10[num'.frac_digits]
      BY <2>2, <3>1, Zenon
    <3> QED
      BY <2>3, <3>1, <3>2, <3>3, <3>4 DEF NumInv
  <2> QED
    BY <1>1, <2>6 DEF IInv, BookInv, SideOK
<1> QED
  BY <1>2, <1>3, <1>4, <1>5

\* What read_quoted_decimal returns is a word.
LEMMA DecimalIsWord ==
    ASSUME IInv, Decimal # None
    PROVE  Decimal \in Words
<1> DEFINE scaled == (num.frac_part * FracScale) % Word
<1>1. num.frac_part * FracScale \in Nat /\ num.int_part * SCALE \in Nat
      /\ Word \in Nat \ {0}
  BY FractionFits, PowFacts DEF IInv, NumInv, FracScale
<1>2. scaled \in Nat
  BY <1>1, ModFacts
<1>3. Decimal = Checked(num.int_part * SCALE + scaled)
  BY DEF Decimal
<1> HIDE DEF scaled
<1>4. num.int_part * SCALE + scaled \in Nat
  BY <1>1, <1>2
<1> QED
  BY <1>1, <1>3, <1>4 DEF Checked, Words, None

\* The closing quote stores the decimal as price or amount, or refuses it.
LEMMA CloseQuoteIInv == ASSUME IInv, CloseQuote PROVE IInv'
<1>1. UNCHANGED <<num, side, field, book>>
  BY DEF CloseQuote
<1>2. level' = level \/ (Decimal # None /\ level' = [level EXCEPT ![field] = Decimal])
  BY DEF CloseQuote
<1>3. level' \in Levels
  BY <1>2, DecimalIsWord DEF IInv, Levels
<1> QED
  BY <1>1, <1>3 DEF IInv, NumInv, BookInv, SideOK

\* Every step of a walk preserves the invariant.
LEMMA NextIInv == IInv /\ [Next]_vars => IInv'
<1> SUFFICES ASSUME IInv, [Next]_vars PROVE IInv'
  OBVIOUS
<1>1. CASE UNCHANGED vars
  BY <1>1 DEF IInv, vars, NumInv, BookInv, SideOK
<1> QED
  BY <1>1, ControlIInv, NumberIInv, CloseLevelIInv, DigitIInv, CloseQuoteIInv
     DEF Next

\* The inductive invariant of a walk, for any frame of either handler.
THEOREM SpecIInv == Spec => []IInv
  BY InitIInv, NextIInv, PTL DEF Spec

-----------------------------------------------------------------------------
(* The decimal that is being read                                           *)

\* What follows p in the frame; digits from p to before q.
Rest(p) == SubSeq(buf, p, Len(buf))
AllDigits(p, q) == \A k \in p..(q - 1) : buf[k] \in Digits

\* Where the integer digits end, and how many of the fractional ones count.
IntStop == num.from + num.int_digits
Kept == IF pos - IntStop - 1 < FracDigits THEN pos - IntStop - 1 ELSE FracDigits

Reading == pc \in {"int", "frac", "close"}

\* What has been read of a decimal is the value of its digits so far.
ReadInv ==
    Reading =>
        /\ num.from \in 1..End /\ pos \in IntStop..End
        /\ AllDigits(num.from, IntStop)
        /\ num.int_part = Horner(Rest(num.from))[num.int_digits]
        /\ pos = IntStop => num.frac_part = 0 /\ num.frac_digits = 0
        /\ pos # IntStop =>
              /\ At(IntStop, DOT) /\ AllDigits(IntStop + 1, pos)
              /\ num.frac_digits = Kept
              /\ num.frac_part = Horner(Rest(IntStop + 1))[num.frac_digits]
        /\ pc = "int" => pos = IntStop
        /\ pc = "frac" => pos # IntStop
        /\ pc = "close" => pos = End \/ At(pos, QUOTE)

\* When the walk has left a decimal it has passed a quote behind it, or it
\* has given up on a text that parse refuses too.
LeftInv ==
    ~Reading /\ num.from # 0 =>
        /\ num.from \in 1..End /\ pos \in Nat
        /\ \/ \E q \in num.from..pos : At(q, QUOTE)
           \/ pc = "done" /\ (At(TextEnd, QUOTE) => Parse(Text) = None)

DecimalInv ==
    /\ frame \in Inputs /\ (pc = "number" => num.from = 0)
    /\ ReadInv /\ LeftInv

\* The frame is a sequence of bytes.
LEMMA BufFacts ==
    ASSUME frame \in Inputs
    PROVE  /\ buf \in Seq(Nat) /\ Len(buf) \in Nat /\ End \in Nat /\ End = Len(buf) + 1
           /\ \A p, c : At(p, c) <=> p \in 1..Len(buf) /\ buf[p] = c
           /\ \A p \in 1..End : /\ Rest(p) \in Seq(Nat) /\ Len(Rest(p)) = End - p
                                /\ \A k \in 1..(End - p) : Rest(p)[k] = buf[p + k - 1]
<1>1. buf \in Seq(Nat) /\ Len(buf) \in Nat /\ End \in Nat /\ End = Len(buf) + 1
  <2>1. FrameOK(frame)
    BY WalkerAssumption, Zenon
  <2> QED
    BY <2>1 DEF buf, End, FrameOK
<1>2. \A p, c : At(p, c) <=> p \in 1..Len(buf) /\ buf[p] = c
  BY <1>1 DEF At, Holds
<1> HIDE DEF buf
<1>3. ASSUME NEW p \in 1..End
      PROVE  /\ Rest(p) \in Seq(Nat) /\ Len(Rest(p)) = End - p
             /\ \A k \in 1..(End - p) : Rest(p)[k] = buf[p + k - 1]
  <2> DEFINE s == buf
             n == Len(s)
  <2>1. s \in Seq(Nat) /\ n \in Nat /\ p \in 1..(n + 1)
    BY <1>1
  <2>2. /\ SubSeq(s, p, n) \in Seq(Nat) /\ Len(SubSeq(s, p, n)) = n + 1 - p
        /\ \A k \in 1..(n + 1 - p) : SubSeq(s, p, n)[k] = s[p + k - 1]
    <3> HIDE DEF s
    <3> QED
      BY <2>1
  <2> QED
    BY <1>1, <2>2 DEF Rest
<1> QED
  BY <1>1, <1>2, <1>3

\* The text of a decimal: from behind its quote to the next quote.
LEMMA TextFacts ==
    ASSUME frame \in Inputs, num.from \in 1..End
    PROVE  /\ TextEnd \in num.from..End /\ (TextEnd = End \/ At(TextEnd, QUOTE))
           /\ \A q \in num.from..End : q < TextEnd => ~At(q, QUOTE)
           /\ \A q \in num.from..End : At(q, QUOTE) => TextEnd <= q
           /\ Text \in Seq(Nat) /\ Len(Text) = TextEnd - num.from
           /\ \A k \in 1..(TextEnd - num.from) : Text[k] = buf[num.from + k - 1]
<1> DEFINE S == {q \in num.from..End : q = End \/ At(q, QUOTE)}
<1>1. End \in Nat /\ num.from \in Nat /\ num.from > 0 /\ End = Len(buf) + 1
      /\ buf \in Seq(Nat)
  BY BufFacts
<1>2. S \subseteq Nat /\ End \in S
  BY <1>1
<1>3. TextEnd = Min(S)
  BY DEF TextEnd
<1>4. TextEnd \in S /\ \A y \in S : TextEnd <= y
  <2> HIDE DEF S
  <2> QED
    BY <1>2, <1>3, MinFacts
<1>5. TextEnd \in num.from..End /\ (TextEnd = End \/ At(TextEnd, QUOTE))
  BY <1>4
<1>6. /\ \A q \in num.from..End : q < TextEnd => ~At(q, QUOTE)
      /\ \A q \in num.from..End : At(q, QUOTE) => TextEnd <= q
  <2>1. TextEnd \in Nat
    BY <1>1, <1>5
  <2> QED
    BY <1>1, <1>4, <2>1
<1>7. /\ Text \in Seq(Nat) /\ Len(Text) = TextEnd - num.from
      /\ \A k \in 1..(TextEnd - num.from) : Text[k] = buf[num.from + k - 1]
  <2> DEFINE t == buf
             f == num.from
             e == TextEnd
             u == SubSeq(t, f, e - 1)
  <2>1. t \in Seq(Nat) /\ f \in Nat /\ f > 0 /\ e \in f..(Len(t) + 1)
    BY <1>1, <1>5
  <2>2. Text = u
    BY DEF Text
  <2> HIDE DEF t, f, e
  <2>3. u \in Seq(Nat) /\ Len(u) = e - f /\ \A k \in 1..(e - f) : u[k] = t[f + k - 1]
    BY <2>1
  <2> QED
    BY <2>2, <2>3 DEF t, f, e
<1> QED
  BY <1>5, <1>6, <1>7

\* While a decimal is read its quote is still ahead, or just here.
LEMMA ReadingFacts ==
    ASSUME frame \in Inputs, NumInv, ReadInv, Reading
    PROVE  /\ num.from \in 1..End /\ num.from \in Nat /\ IntStop \in Nat
           /\ num.int_digits \in Nat /\ IntStop = num.from + num.int_digits
           /\ pos \in Nat /\ num.from <= IntStop /\ IntStop <= pos /\ pos <= End
           /\ pos \in num.from..TextEnd /\ TextEnd \in Nat /\ TextEnd <= End
<1>1. /\ num.from \in 1..End /\ num.from \in Nat /\ End \in Nat
      /\ num.int_digits \in Nat /\ IntStop = num.from + num.int_digits
      /\ IntStop \in Nat
      /\ pos \in Nat /\ num.from <= IntStop /\ IntStop <= pos /\ pos <= End
  BY BufFacts DEF ReadInv, NumInv, IntStop
<1>2. TextEnd \in num.from..End /\ (TextEnd = End \/ At(TextEnd, QUOTE))
  BY <1>1, TextFacts
<1>3. TextEnd >= pos
  <2> SUFFICES ASSUME TextEnd < pos PROVE FALSE
    BY <1>1, <1>2
  <2>1. TextEnd # End /\ buf[TextEnd] = QUOTE
    BY <1>1, <1>2, BufFacts
  <2>2. TextEnd \in num.from..(IntStop - 1) => buf[TextEnd] \in Digits
    BY DEF ReadInv, AllDigits
  <2>3. ASSUME TextEnd = IntStop PROVE buf[TextEnd] = DOT
    <3>1. At(IntStop, DOT)
      BY <1>1, <2>3 DEF ReadInv
    <3> QED
      BY <2>3, <3>1, BufFacts
  <2>4. TextEnd \in (IntStop + 1)..(pos - 1) => buf[TextEnd] \in Digits
    BY <1>1, <1>2 DEF ReadInv, AllDigits
  <2> QED
    BY <1>1, <1>2, <2>1, <2>2, <2>3, <2>4, DigitFacts
<1> QED
  BY <1>1, <1>2, <1>3

\* Where the byte read next is not the end of the text it is a byte of it.
LEMMA NextByte ==
    ASSUME frame \in Inputs, NumInv, ReadInv, Reading,
           pos # End, ~At(pos, QUOTE)
    PROVE  /\ pos \in 1..Len(buf) /\ pos < TextEnd /\ buf[pos] \in Nat
           /\ pos - num.from + 1 \in 1..Len(Text)
           /\ Text[pos - num.from + 1] = buf[pos]
           /\ At(pos, DOT) <=> buf[pos] = DOT
<1>1. /\ num.from \in 1..End /\ num.from \in Nat /\ pos \in Nat /\ pos <= End
      /\ pos \in num.from..TextEnd /\ TextEnd \in Nat /\ TextEnd <= End
  BY ReadingFacts
<1>2. TextEnd = End \/ At(TextEnd, QUOTE)
  BY <1>1, TextFacts
<1>3. /\ Len(Text) = TextEnd - num.from
      /\ \A k \in 1..(TextEnd - num.from) : Text[k] = buf[num.from + k - 1]
  BY <1>1, TextFacts
<1>4. /\ End = Len(buf) + 1 /\ Len(buf) \in Nat /\ buf \in Seq(Nat)
      /\ (At(pos, DOT) <=> pos \in 1..Len(buf) /\ buf[pos] = DOT)
  BY BufFacts
<1>5. pos # TextEnd
  BY <1>2
<1>6. pos < TextEnd /\ pos \in 1..Len(buf)
  BY <1>1, <1>4, <1>5
<1>7. buf[pos] \in Nat
  <2> HIDE DEF buf
  <2> QED
    BY <1>4, <1>6
<1> DEFINE j == pos - num.from + 1
<1>8. j \in 1..(TextEnd - num.from) /\ num.from + j - 1 = pos
  BY <1>1, <1>6
<1> HIDE DEF j
<1>9. j \in 1..Len(Text) /\ Text[j] = buf[pos]
  BY <1>3, <1>8
<1> QED
  BY <1>4, <1>6, <1>7, <1>9 DEF j

\* The integer digits of the text denote what has been read of them.
LEMMA IntValue ==
    ASSUME frame \in Inputs, NumInv, ReadInv, Reading
    PROVE  /\ num.int_digits <= Len(Text)
           /\ \A k \in 1..num.int_digits : Text[k] \in Digits
           /\ Horner(Text)[num.int_digits] = num.int_part
<1>1. /\ num.from \in 1..End /\ num.from \in Nat /\ pos \in Nat /\ num.int_digits \in Nat
      /\ IntStop = num.from + num.int_digits /\ IntStop <= pos /\ pos <= End
      /\ pos \in num.from..TextEnd /\ TextEnd \in Nat /\ TextEnd <= End
  BY ReadingFacts
<1>2. /\ Text \in Seq(Nat) /\ Len(Text) = TextEnd - num.from
      /\ \A k \in 1..(TextEnd - num.from) : Text[k] = buf[num.from + k - 1]
  BY <1>1, TextFacts
<1>3. /\ Rest(num.from) \in Seq(Nat) /\ Len(Rest(num.from)) = End - num.from
      /\ \A k \in 1..(End - num.from) : Rest(num.from)[k] = buf[num.from + k - 1]
  BY <1>1, BufFacts
<1>4. End \in Nat
  BY BufFacts
<1>5. num.int_digits <= Len(Text) /\ num.int_digits <= Len(Rest(num.from))
  BY <1>1, <1>2, <1>3, <1>4, SMTT(30)
<1>6. \A k \in 1..num.int_digits : Text[k] = buf[num.from + k - 1]
                                   /\ Rest(num.from)[k] = buf[num.from + k - 1]
  <2>1. \A k \in 1..num.int_digits : /\ k \in 1..(TextEnd - num.from)
                                     /\ k \in 1..(End - num.from)
    BY <1>1, <1>4
  <2> QED
    BY <1>2, <1>3, <2>1
<1>7. \A k \in 1..num.int_digits : num.from + k - 1 \in num.from..(IntStop - 1)
  BY <1>1
<1>8. \A k \in 1..num.int_digits : Text[k] \in Digits
  BY <1>6, <1>7 DEF ReadInv, AllDigits
<1>9. Horner(Text)[num.int_digits] = Horner(Rest(num.from))[num.int_digits]
  <2> DEFINE s == Text
             t == Rest(num.from)
             k == num.int_digits
  <2>1. /\ s \in Seq(Nat) /\ t \in Seq(Nat) /\ k \in Nat /\ k <= Len(s)
        /\ k <= Len(t) /\ \A i \in 1..k : s[i] = t[i]
    BY <1>1, <1>2, <1>3, <1>5, <1>6
  <2> HIDE DEF s, t, k
  <2>2. Horner(s)[k] = Horner(t)[k]
    BY <2>1, HornerAgree
  <2> QED
    BY <2>2 DEF s, t, k
<1> QED
  BY <1>5, <1>8, <1>9 DEF ReadInv

\* A byte or a digit that the integer loop refuses is one that parse refuses.
LEMMA IntRefused ==
    ASSUME frame \in Inputs, NumInv, ReadInv, pc = "int", ~IntEnd,
           ~(buf[pos] \in Digits /\ num.int_part * 10 + buf[pos] < Word)
    PROVE  Parse(Text) = None
<1> DEFINE j == pos - num.from + 1
<1>1. Reading /\ pos # End /\ ~At(pos, QUOTE) /\ ~At(pos, DOT)
  BY DEF Reading, IntEnd
<1>2. /\ j \in 1..Len(Text) /\ Text[j] = buf[pos] /\ buf[pos] \in Nat
      /\ buf[pos] # DOT
  BY <1>1, NextByte
<1>3. /\ num.int_digits \in Nat /\ num.from \in Nat /\ num.from \in 1..End
      /\ IntStop = num.from + num.int_digits /\ pos = IntStop
  BY <1>1, ReadingFacts DEF ReadInv
<1>4. j - 1 = num.int_digits /\ j \in Nat
  BY <1>3
<1>5. Text \in Seq(Nat)
  BY <1>3, TextFacts
<1> HIDE DEF j
<1>6. CASE buf[pos] \notin Digits
  BY <1>2, <1>5, <1>6, BadByte
<1>7. CASE buf[pos] \in Digits
  <2>1. num.int_part * 10 + buf[pos] >= Word
    BY <1>2, <1>7, PowFacts DEF NumInv
  <2>2. /\ \A k \in 1..num.int_digits : Text[k] \in Digits
        /\ Horner(Text)[num.int_digits] = num.int_part
    BY <1>1, IntValue
  <2>3. Horner(Text)[j] = 10 * Horner(Text)[j - 1] + Text[j]
    BY <1>2, <1>5, HornerFacts
  <2>4. Horner(Text)[j] >= Word
    BY <1>2, <1>4, <2>1, <2>2, <2>3 DEF NumInv
  <2>5. \A k \in 1..j : Text[k] \in Digits
    BY <1>2, <1>3, <1>4, <1>7, <2>2
  <2> QED
    BY <1>2, <1>5, <2>4, <2>5, BigPrefix
<1> QED
  BY <1>6, <1>7

\* A byte that the fraction loop refuses, a second dot among them, is one
\* that parse refuses, also behind the digits that are kept.
LEMMA FracRefused ==
    ASSUME frame \in Inputs, NumInv, ReadInv, pc = "frac", ~FracEnd, ~FracByteOk
    PROVE  Parse(Text) = None
<1> DEFINE j == pos - num.from + 1
           i == num.int_digits + 1
<1>1. Reading /\ pos # End /\ ~At(pos, QUOTE)
  BY DEF Reading, FracEnd
<1>2. j \in 1..Len(Text) /\ Text[j] = buf[pos] /\ buf[pos] \notin Digits
  BY <1>1, NextByte DEF FracByteOk
<1>3. /\ num.int_digits \in Nat /\ num.from \in Nat /\ num.from \in 1..End
      /\ IntStop = num.from + num.int_digits /\ pos # IntStop /\ IntStop <= pos
      /\ pos \in Nat /\ At(IntStop, DOT)
  BY <1>1, ReadingFacts DEF ReadInv
<1>4. /\ Text \in Seq(Nat) /\ Len(Text) = TextEnd - num.from
      /\ \A k \in 1..(TextEnd - num.from) : Text[k] = buf[num.from + k - 1]
  BY <1>3, TextFacts
<1>5. i \in 1..(j - 1) /\ num.from + i - 1 = IntStop
  BY <1>3
<1>6. i \in 1..Len(Text)
  BY <1>2, <1>4, <1>5
<1>7. Text[i] = buf[IntStop] /\ buf[IntStop] = DOT
  BY <1>3, <1>4, <1>5, <1>6, BufFacts
<1> HIDE DEF j, i
<1> QED
  BY <1>2, <1>4, <1>5, <1>7, BadByte

\* Scaling the fraction that has been read does not wrap.
LEMMA DecimalValue ==
    ASSUME NumInv, At(pos, QUOTE)
    PROVE  Decimal = IF num.int_digits + num.frac_digits > 0
                     THEN Checked(num.int_part * SCALE
                                  + num.frac_part * POW10[FracDigits - num.frac_digits])
                     ELSE None
<1> DEFINE x == num.frac_part * POW10[FracDigits - num.frac_digits]
<1>1. x \in Nat /\ x < SCALE /\ SCALE \in Nat /\ SCALE < Word /\ Word \in Nat \ {0}
  BY FractionFits, PowFacts DEF NumInv
<1>2. Decimal = IF num.int_digits + num.frac_digits > 0
                THEN Checked(num.int_part * SCALE + (x % Word)) ELSE None
  BY DEF Decimal, FracScale
<1> HIDE DEF x
<1>3. x \in Int /\ 0 <= x /\ x < Word
  BY <1>1
<1>4. x % Word = x
  BY <1>1, <1>3, ModFacts, Zenon
<1> QED
  BY <1>2, <1>4 DEF x

\* What the closing quote makes of the digits is what parse makes of the text.
LEMMA CloseValue ==
    ASSUME frame \in Inputs, NumInv, ReadInv, pc = "close", At(TextEnd, QUOTE)
    PROVE  Decimal = Parse(Text) /\ pos = TextEnd
<1> DEFINE n == num.int_digits
           t == Text
           f == num.from
<1>1. /\ Reading /\ (pos = End \/ At(pos, QUOTE))
  BY DEF Reading, ReadInv
<1>2. /\ f \in 1..End /\ f \in Nat /\ IntStop \in Nat /\ n \in Nat /\ IntStop = f + n
      /\ pos \in Nat /\ IntStop <= pos /\ pos <= End
      /\ pos \in f..TextEnd /\ TextEnd \in Nat /\ TextEnd <= End /\ End \in Nat
  BY <1>1, ReadingFacts, BufFacts
<1>3. /\ t \in Seq(Nat) /\ Len(t) = TextEnd - f
      /\ \A k \in 1..(TextEnd - f) : t[k] = buf[f + k - 1]
      /\ \A q \in f..End : At(q, QUOTE) => TextEnd <= q
  BY <1>2, TextFacts
<1>4. pos = TextEnd
  <2>1. pos \in f..End
    BY <1>2
  <2>2. pos >= TextEnd
    BY <1>1, <1>2, <1>3, <2>1
  <2> QED
    BY <1>2, <2>2
<1>5. n <= Len(t) /\ (\A k \in 1..n : t[k] \in Digits) /\ Horner(t)[n] = num.int_part
  BY <1>1, IntValue
<1>6. Decimal = IF n + num.frac_digits > 0
                THEN Checked(num.int_part * SCALE
                             + num.frac_part * POW10[FracDigits - num.frac_digits])
                ELSE None
  BY <1>4, DecimalValue
<1>7. num.int_part \in Nat /\ num.frac_digits \in 0..FracDigits /\ SCALE \in Nat
      /\ num.int_part * SCALE \in Nat
  BY PowFacts DEF NumInv
<1>8. CASE pos = IntStop
  <2>1. num.frac_part = 0 /\ num.frac_digits = 0
    BY <1>1, <1>8 DEF ReadInv
  <2>2. Len(t) = n
    BY <1>2, <1>3, <1>4, <1>8
  <2>3. POW10[FracDigits - 0] \in Nat
    BY PowFacts
  <2>4. Decimal = IF n > 0 THEN Checked(num.int_part * SCALE) ELSE None
    BY <1>2, <1>6, <1>7, <2>1, <2>3
  <2> HIDE DEF t, n
  <2>5. Parse(t) = IF n > 0 THEN Checked(num.int_part * SCALE) ELSE None
    <3>1. Parse(t) = IF Len(t) > 0 THEN Checked(Horner(t)[Len(t)] * SCALE) ELSE None
      BY <1>3, <1>5, <2>2, PlainParse
    <3> QED
      BY <1>5, <2>2, <3>1
  <2>6. Decimal = Parse(t)
    BY <2>4, <2>5, Zenon
  <2> QED
    BY <1>4, <2>6 DEF t
<1>9. CASE pos # IntStop
  <2> DEFINE i == n + 1
             u == Rest(IntStop + 1)
             m == pos - IntStop - 1
  <2>1. /\ At(IntStop, DOT) /\ AllDigits(IntStop + 1, pos)
        /\ num.frac_digits = IF m < FracDigits THEN m ELSE FracDigits
        /\ num.frac_part = Horner(u)[num.frac_digits]
    BY <1>1, <1>9 DEF ReadInv, Kept
  <2>2. /\ i \in 1..Len(t) /\ Len(t) - i = m /\ m \in Nat /\ i - 1 = n
        /\ Len(t) = n + 1 + m /\ f + i - 1 = IntStop
    <3> HIDE DEF t, f, n
    <3>1. /\ f \in Nat /\ n \in Nat /\ pos \in Nat /\ IntStop = f + n
          /\ IntStop < pos /\ Len(t) = pos - f
      BY <1>2, <1>3, <1>4, <1>9, SMTT(30)
    <3> QED
      BY <3>1
  <2>3. t[i] = DOT
    <3>1. buf[IntStop] = DOT
      BY <2>1, BufFacts
    <3> HIDE DEF t, f, n
    <3>2. t[i] = buf[f + i - 1]
      BY <1>3, <2>2
    <3> QED
      BY <2>2, <3>1, <3>2
  <2>4. /\ u \in Seq(Nat) /\ Len(u) = End - (IntStop + 1)
        /\ \A k \in 1..(End - (IntStop + 1)) : u[k] = buf[(IntStop + 1) + k - 1]
    <3>1. IntStop + 1 \in 1..End
      BY <1>2, <1>9
    <3> QED
      BY <3>1, BufFacts
  <2>5. Len(u) >= m /\ End \in Nat
    BY <1>2, <2>4, BufFacts, SMTT(30)
  <2>6. ASSUME NEW k \in 1..m
        PROVE  u[k] = t[i + k] /\ t[i + k] \in Digits
    <3>1. /\ k \in 1..(End - (IntStop + 1)) /\ i + k \in 1..(TextEnd - f)
          /\ (IntStop + 1) + k - 1 = f + (i + k) - 1
          /\ f + (i + k) - 1 \in (IntStop + 1)..(pos - 1)
      <4> HIDE DEF t, f, n, u
      <4>1. /\ f \in Nat /\ n \in Nat /\ pos \in Nat /\ IntStop = f + n
            /\ End \in Nat /\ pos <= End /\ TextEnd = pos
        BY <1>2, <1>4
      <4> QED
        BY <4>1
    <3>2. u[k] = t[i + k] /\ t[i + k] = buf[f + (i + k) - 1]
      BY <1>3, <2>4, <3>1
    <3> QED
      BY <2>1, <3>1, <3>2 DEF AllDigits
  <2>7. ASSUME NEW k \in 1..Len(t), k # i PROVE t[k] \in Digits
    <3>1. CASE k < i
      BY <1>2, <1>5, <3>1
    <3>2. CASE k > i
      <4>1. k - i \in 1..m /\ i + (k - i) = k
        BY <2>2, <2>7, <3>2
      <4> HIDE DEF i, t, m, u
      <4>2. t[i + (k - i)] \in Digits
        BY <2>6, <4>1
      <4> QED
        BY <4>1, <4>2
    <3> QED
      BY <1>2, <2>7, <3>1, <3>2
  <2>8. (Len(t) > 1) <=> (n + num.frac_digits > 0)
    <3> HIDE DEF t, n, m
    <3>1. n \in Nat /\ m \in Nat /\ Len(t) = n + 1 + m /\ FracDigits \in Nat \ {0}
      BY <1>2, <2>2, PowFacts
    <3> QED
      BY <2>1, <3>1
  <2>9. Parse(t) = IF Len(t) > 1
                   THEN Checked(Horner(t)[i - 1] * SCALE + Horner(u)[num.frac_digits]
                                    * POW10[FracDigits - num.frac_digits])
                   ELSE None
    <3> HIDE DEF i, t, u, m
    <3>1. /\ i \in 1..Len(t) /\ t[i] = DOT
          /\ \A k \in 1..Len(t) : k # i => t[k] \in Digits
          /\ u \in Seq(Nat) /\ t \in Seq(Nat) /\ Len(u) >= Len(t) - i
          /\ \A k \in 1..(Len(t) - i) : u[k] = t[i + k]
          /\ num.frac_digits = IF Len(t) - i < FracDigits THEN Len(t) - i ELSE FracDigits
      BY <1>3, <2>1, <2>2, <2>3, <2>4, <2>5, <2>6, <2>7
    <3> QED
      BY <3>1, DottedParse
  <2> HIDE DEF t, u, m, n
  <2>10. Decimal = Parse(t)
    BY <1>5, <1>6, <2>1, <2>2, <2>8, <2>9
  <2> QED
    BY <1>4, <2>10 DEF t
<1> QED
  BY <1>8, <1>9

\* A walk starts before any decimal.
LEMMA InitDecimal == Init => DecimalInv
  BY DEF Init, Zero, DecimalInv, ReadInv, LeftInv, Reading

\* The text of a decimal depends on the frame and on where it begins.
LEMMA SameText ==
    ASSUME frame' = frame, num'.from = num.from
    PROVE  /\ buf' = buf /\ End' = End /\ TextEnd' = TextEnd /\ Text' = Text
           /\ \A p, c : At(p, c)' <=> At(p, c)
           /\ Parse(Text)' = Parse(Text)
<1>1. buf' = buf /\ End' = End
  BY DEF buf, End
<1>2. \A p, c : At(p, c)' <=> At(p, c)
  BY <1>1 DEF At
<1>3. TextEnd' = TextEnd
  BY <1>1, <1>2 DEF TextEnd
<1>4. Text' = Text
  BY <1>1, <1>3 DEF Text
<1>5. Parse(Text)' = Parse(Text)
  BY <1>4
<1> QED
  BY <1>1, <1>2, <1>3, <1>4, <1>5

\* Between decimals the scanner only moves forward.
LEMMA PassiveDecimal ==
    ASSUME DecimalInv, frame' = frame, num' = num, ~Reading, pc # "done",
           pc' \notin {"int", "frac", "close", "number"},
           num.from # 0 => pos' \in Nat /\ pos' >= pos
    PROVE  DecimalInv'
<1>1. /\ frame' \in Inputs /\ ~Reading' /\ pc' # "number"
  BY DEF DecimalInv, Reading
<1>2. ReadInv'
  BY <1>1 DEF ReadInv
<1>3. LeftInv'
  <2>1. SUFFICES ASSUME num.from # 0
                 PROVE  /\ num'.from \in 1..End' /\ pos' \in Nat
                        /\ \E q \in num'.from..pos' : At(q, QUOTE)'
    BY <1>1 DEF LeftInv
  <2>2. num.from \in 1..End /\ pos \in Nat
    BY <2>1 DEF DecimalInv, LeftInv
  <2>3. PICK q \in num.from..pos : At(q, QUOTE)
    BY <2>1 DEF DecimalInv, LeftInv
  <2>4. q \in num.from..pos' /\ pos' \in Nat
    <3>1. num.from \in Nat
      BY <2>2, BufFacts DEF DecimalInv
    <3> QED
      BY <2>1, <2>2, <2>3, <3>1
  <2>5. At(q, QUOTE)' /\ End' = End
    BY <2>3, SameText
  <2> QED
    BY <2>2, <2>4, <2>5
<1> QED
  BY <1>1, <1>2, <1>3 DEF DecimalInv

\* Seeking a key from p on finds it behind p.
LEMMA SeekFacts ==
    ASSUME frame \in Inputs, NEW p \in Nat, NEW key, Seek(p, key) # None
    PROVE  Seek(p, key) \in Nat /\ Seek(p, key) >= p
<1> DEFINE ends == {q \in Behind(buf, key) : q - 4 >= p}
<1>1. Seek(p, key) = IF ends = {} THEN None ELSE Min(ends)
  BY DEF Seek
<1>2. ends \subseteq Nat /\ \A q \in ends : q >= p
  BY BufFacts DEF Behind
<1> HIDE DEF ends
<1>3. ends # {} /\ Seek(p, key) = Min(ends)
  BY <1>1
<1>4. Min(ends) \in ends
  BY <1>2, <1>3, MinFacts
<1> QED
  BY <1>2, <1>3, <1>4

\* The steps between decimals.
LEMMA ControlDecimal ==
    ASSUME DecimalInv,
           \/ ReadLastUpdateId \/ ReadMicrotimestamp \/ SeekSide \/ Finish
           \/ Reject \/ OpenArray \/ OpenLevel \/ PriceComma \/ CloseLevel
           \/ NextLevel \/ CloseArray
    PROVE  DecimalInv'
<1>1. frame \in Inputs /\ (num.from # 0 => pos \in Nat \/ Reading)
  BY DEF DecimalInv, LeftInv
<1>2. CASE ReadLastUpdateId \/ ReadMicrotimestamp
  <2>1. frame' = frame /\ num' = num /\ pc = "number" /\ pc' = "seek"
    BY <1>2 DEF ReadLastUpdateId, ReadMicrotimestamp
  <2>2. num.from = 0
    BY <2>1 DEF DecimalInv
  <2> QED
    BY <2>1, <2>2, PassiveDecimal DEF Reading
<1>3. CASE SeekSide
  <2>1. /\ frame' = frame /\ num' = num /\ pc = "seek"
        /\ pc' \in {"done", "array", "seek", "finish"}
    BY <1>3 DEF SeekSide, EndSide, Return
  <2>2. \/ pos' = pos
        \/ \E key : pos' = Seek(pos, key) /\ Seek(pos, key) # None
    BY <1>3 DEF SeekSide
  <2>3. ASSUME num.from # 0 PROVE pos' \in Nat /\ pos' >= pos
    <3>1. pos \in Nat
      BY <1>1, <2>1, <2>3 DEF Reading
    <3> QED
      BY <1>1, <2>2, <3>1, SeekFacts
  <2> QED
    BY <2>1, <2>3, PassiveDecimal DEF Reading
<1>4. CASE Finish \/ Reject
  <2>1. /\ frame' = frame /\ num' = num /\ pc \notin {"int", "frac", "close", "done"}
        /\ pc' = "done" /\ pos' = pos
    BY <1>4 DEF Finish, Reject, Return
  <2>2. num.from # 0 => pos' \in Nat /\ pos' >= pos
    BY <1>1, <2>1 DEF Reading
  <2> QED
    BY <2>1, <2>2, PassiveDecimal DEF Reading
<1>5. CASE OpenArray \/ OpenLevel \/ PriceComma \/ CloseLevel \/ NextLevel \/ CloseArray
  <2>1. /\ frame' = frame /\ num' = num /\ pc \notin {"int", "frac", "close", "done"}
        /\ pc' \in {"seek", "finish", "level", "quote", "next"}
        /\ pos' = pos + 1 \/ pos' = pos + 2
    BY <1>5 DEF OpenArray, OpenLevel, PriceComma, CloseLevel, NextLevel, CloseArray,
                EndSide
  <2>2. num.from # 0 => pos' \in Nat /\ pos' >= pos
    BY <1>1, <2>1 DEF Reading
  <2> QED
    BY <2>1, <2>2, PassiveDecimal DEF Reading
<1> QED
  BY <1>2, <1>3, <1>4, <1>5

\* A walk that gives up inside a decimal does so on a text that parse refuses.
LEMMA RefusedDecimal ==
    ASSUME DecimalInv, NumInv, IntDigit \/ FracDigit, pc' = "done"
    PROVE  DecimalInv'
<1>1. /\ frame' = frame /\ num' = num /\ pos' = pos /\ Reading /\ frame \in Inputs
      /\ ReadInv
  BY DEF IntDigit, FracDigit, Return, DecimalInv, Reading
<1>2. Parse(Text) = None
  <2>1. CASE IntDigit
    BY <1>1, <2>1, IntRefused DEF IntDigit
  <2>2. CASE FracDigit
    BY <1>1, <2>2, FracRefused DEF FracDigit
  <2> QED
    BY <2>1, <2>2
<1>3. num.from \in 1..End /\ pos \in Nat
  BY <1>1, ReadingFacts
<1>4. ~Reading' /\ pc' # "number"
  BY DEF Reading
<1>5. End' = End /\ Parse(Text)' = None
  BY <1>1, <1>2, SameText
<1>6. LeftInv'
  BY <1>1, <1>3, <1>5 DEF LeftInv
<1>7. ReadInv'
  BY <1>4 DEF ReadInv
<1> QED
  BY <1>1, <1>4, <1>6, <1>7 DEF DecimalInv

\* What a step has to leave of a decimal, in terms of the frame it leaves
\* alone.
LEMMA ReadAfter ==
    ASSUME frame' = frame, frame \in Inputs, pc' # "number", Reading',
           LET f == num'.from
               stop == f + num'.int_digits
               n == pos' - stop - 1
           IN  /\ f \in 1..End /\ pos' \in stop..End
               /\ AllDigits(f, stop)
               /\ num'.int_part = Horner(Rest(f))[num'.int_digits]
               /\ pos' = stop => num'.frac_part = 0 /\ num'.frac_digits = 0
               /\ pos' # stop =>
                     /\ At(stop, DOT) /\ AllDigits(stop + 1, pos')
                     /\ num'.frac_digits = IF n < FracDigits THEN n ELSE FracDigits
                     /\ num'.frac_part = Horner(Rest(stop + 1))[num'.frac_digits]
               /\ pc' = "int" => pos' = stop
               /\ pc' = "frac" => pos' # stop
               /\ pc' = "close" => pos' = End \/ At(pos', QUOTE)
    PROVE  DecimalInv'
<1>1. buf' = buf /\ End' = End
  BY DEF buf, End
<1>2. ReadInv'
  BY <1>1 DEF ReadInv, IntStop, Kept, AllDigits, Rest, At
<1>3. LeftInv'
  BY DEF LeftInv
<1> QED
  BY <1>2, <1>3 DEF DecimalInv

\* The opening quote: nothing has been read yet.
LEMMA OpenQuoteDecimal == ASSUME DecimalInv, OpenQuote PROVE DecimalInv'
<1> DEFINE f == pos + 1
<1>1. /\ frame' = frame /\ pos' = f /\ pc' = "int" /\ At(pos, QUOTE) /\ frame \in Inputs
      /\ num'.from = f /\ num'.int_part = 0 /\ num'.int_digits = 0
      /\ num'.frac_part = 0 /\ num'.frac_digits = 0
  BY DEF OpenQuote, Zero, DecimalInv
<1>2. f \in 1..End /\ f + 0 = f /\ f \in f..End
  BY <1>1, BufFacts
<1>3. AllDigits(f, f)
  BY <1>2 DEF AllDigits
<1>4. Horner(Rest(f))[0] = 0
  BY <1>1, <1>2, BufFacts, HornerFacts
<1> HIDE DEF f
<1> QED
  BY <1>1, <1>2, <1>3, <1>4, ReadAfter DEF Reading

\* Another integer digit.
LEMMA IntDigitDecimal ==
    ASSUME DecimalInv, NumInv, IntDigit, pc' # "done"
    PROVE  DecimalInv'
<1> DEFINE f == num.from
           n == num.int_digits
           d == buf[pos]
           r == Rest(f)
<1>1. /\ frame' = frame /\ pos' = pos + 1 /\ pc = "int" /\ pc' = "int" /\ Reading
      /\ frame \in Inputs /\ ReadInv /\ d \in Digits
      /\ pos # End /\ ~At(pos, QUOTE)
      /\ num' = [num EXCEPT !.int_part = @ * 10 + d, !.int_digits = @ + 1]
  BY DEF IntDigit, IntEnd, Return, DecimalInv, Reading
<1>2. /\ num'.from = f /\ num'.int_part = num.int_part * 10 + d
      /\ num'.int_digits = n + 1
      /\ num'.frac_part = num.frac_part /\ num'.frac_digits = num.frac_digits
  BY <1>1 DEF NumInv
<1>3. /\ f \in 1..End /\ f \in Nat /\ n \in Nat /\ IntStop = f + n /\ pos = IntStop
      /\ AllDigits(f, IntStop) /\ num.int_part = Horner(r)[n]
      /\ num.frac_part = 0 /\ num.frac_digits = 0
  BY <1>1, ReadingFacts DEF ReadInv
<1>4. pos \in 1..Len(buf) /\ End = Len(buf) + 1 /\ Len(buf) \in Nat /\ End \in Nat
  BY <1>1, NextByte, BufFacts
<1>5. f + (n + 1) = pos + 1 /\ pos + 1 \in (pos + 1)..End
  BY <1>3, <1>4
<1>6. AllDigits(f, pos + 1)
  BY <1>1, <1>3, <1>4 DEF AllDigits
<1>7. r \in Seq(Nat) /\ Len(r) = End - f /\ \A k \in 1..(End - f) : r[k] = buf[f + k - 1]
  BY <1>1, <1>3, BufFacts
<1>8. n + 1 \in 1..Len(r) /\ f + (n + 1) - 1 = pos /\ (n + 1) - 1 = n
      /\ n + 1 \in 1..(End - f)
  <2> HIDE DEF r, n, f
  <2>1. /\ f \in Nat /\ n \in Nat /\ pos = f + n /\ pos \in Nat /\ End \in Nat
        /\ pos < End /\ Len(r) = End - f
    BY <1>3, <1>4, <1>7
  <2> QED
    BY <2>1
<1>9. r[n + 1] = d
  BY <1>7, <1>8
<1>10. Horner(r)[n + 1] = num.int_part * 10 + d
  <2> HIDE DEF r, n, d
  <2>1. Horner(r)[n + 1] = 10 * Horner(r)[(n + 1) - 1] + r[n + 1]
    BY <1>7, <1>8, HornerFacts
  <2>2. Horner(r)[n + 1] = 10 * num.int_part + d
    BY <1>3, <1>8, <1>9, <2>1
  <2>3. num.int_part \in Nat /\ d \in Nat
    BY <1>1, DigitFacts DEF NumInv
  <2> QED
    BY <2>2, <2>3
<1> HIDE DEF f, n, d
<1>11. Reading' /\ pc' # "number"
  BY <1>1 DEF Reading
<1>12. /\ num'.from + num'.int_digits = pos' /\ num'.from \in 1..End
       /\ pos' \in pos'..End /\ AllDigits(num'.from, pos')
       /\ num'.int_part = Horner(Rest(num'.from))[num'.int_digits]
       /\ num'.frac_part = 0 /\ num'.frac_digits = 0 /\ pc' = "int"
  BY <1>1, <1>2, <1>3, <1>5, <1>6, <1>10
<1> QED
  BY <1>1, <1>11, <1>12, ReadAfter

\* The integer ends at a dot, at a quote or with the frame.
LEMMA EndIntDecimal == ASSUME DecimalInv, NumInv, EndInt PROVE DecimalInv'
<1> DEFINE f == num.from
           n == num.int_digits
<1>1. /\ frame' = frame /\ pc = "int" /\ Reading /\ num' = num
      /\ frame \in Inputs /\ ReadInv
  BY DEF EndInt, DecimalInv, Reading
<1>2. /\ f \in 1..End /\ f \in Nat /\ n \in Nat /\ IntStop = f + n /\ pos = IntStop
      /\ AllDigits(f, IntStop) /\ num.int_part = Horner(Rest(f))[n]
      /\ num.frac_part = 0 /\ num.frac_digits = 0 /\ pos \in Nat /\ pos <= End
      /\ End \in Nat
  BY <1>1, ReadingFacts, BufFacts DEF ReadInv
<1>3. CASE At(pos, DOT)
  <2>1. pos' = pos + 1 /\ pc' = "frac"
    BY <1>3 DEF EndInt
  <2>2. pos \in 1..Len(buf) /\ End = Len(buf) + 1
    BY <1>1, <1>3, BufFacts
  <2>3. /\ pos' \in pos..End /\ pos' # pos /\ pos' - pos - 1 = 0
        /\ AllDigits(pos + 1, pos') /\ pos + 1 \in 1..End /\ 0 < FracDigits
    <3>1. pos + 1 <= End
      BY <1>2, <2>2
    <3>2. AllDigits(pos + 1, pos + 1)
      BY <1>2 DEF AllDigits
    <3> QED
      BY <1>2, <2>1, <3>1, <3>2, PowFacts
  <2>4. Horner(Rest(pos + 1))[0] = 0
    BY <1>1, <2>3, BufFacts, HornerFacts
  <2> QED
    BY <1>1, <1>2, <1>3, <2>1, <2>3, <2>4, ReadAfter DEF Reading
<1>4. CASE ~At(pos, DOT)
  <2>1. pos' = pos /\ pc' = "close" /\ (pos = End \/ At(pos, QUOTE))
    BY <1>4 DEF EndInt, IntEnd
  <2>2. pos' \in pos..End
    BY <1>2, <2>1
  <2> QED
    BY <1>1, <1>2, <2>1, <2>2, ReadAfter DEF Reading
<1> QED
  BY <1>3, <1>4

\* Another fractional digit: kept while there is room, otherwise skipped.
LEMMA FracDigitDecimal ==
    ASSUME DecimalInv, NumInv, FracDigit, pc' # "done"
    PROVE  DecimalInv'
<1> DEFINE f == num.from
           s == IntStop
           n == pos - s - 1
           d == buf[pos]
           u == Rest(s + 1)
           fd == num.frac_digits
<1>1. /\ frame' = frame /\ pos' = pos + 1 /\ pc = "frac" /\ pc' = "frac" /\ Reading
      /\ frame \in Inputs /\ ReadInv /\ d \in Digits
      /\ pos # End /\ ~At(pos, QUOTE)
      /\ num' = IF fd < FracDigits
                THEN [num EXCEPT !.frac_part = (@ * 10 + d) % Word, !.frac_digits = @ + 1]
                ELSE num
  BY DEF FracDigit, FracEnd, FracByteOk, KeepsDigit, Return, DecimalInv, Reading
<1>2. /\ f \in 1..End /\ f \in Nat /\ s \in Nat /\ s = f + num.int_digits
      /\ s <= pos /\ pos # s /\ pos \in Nat
      /\ AllDigits(f, s) /\ num.int_part = Horner(Rest(f))[num.int_digits]
      /\ At(s, DOT) /\ AllDigits(s + 1, pos)
      /\ fd = IF n < FracDigits THEN n ELSE FracDigits
      /\ num.frac_part = Horner(u)[fd]
  BY <1>1, ReadingFacts DEF ReadInv, Kept
<1>3. pos \in 1..Len(buf) /\ End = Len(buf) + 1 /\ Len(buf) \in Nat /\ End \in Nat
  BY <1>1, NextByte, BufFacts
<1>4. /\ n \in Nat /\ pos' - s - 1 = n + 1 /\ pos' \in s..End /\ pos' # s
      /\ s + 1 \in 1..End /\ FracDigits \in Nat \ {0}
  <2> HIDE DEF s
  <2>1. /\ s \in Nat /\ pos \in Nat /\ s < pos /\ pos < End /\ End \in Nat
        /\ pos' = pos + 1 /\ FracDigits \in Nat \ {0}
    BY <1>1, <1>2, <1>3, PowFacts
  <2> QED
    BY <2>1
<1>5. AllDigits(s + 1, pos')
  <2>1. \A k \in (s + 1)..(pos' - 1) : k \in (s + 1)..(pos - 1) \/ k = pos
    <3> HIDE DEF s
    <3> QED
      BY <1>1, <1>2
  <2> QED
    BY <1>1, <1>2, <2>1 DEF AllDigits
<1>6. ASSUME fd < FracDigits
      PROVE  /\ num'.from = f /\ num'.int_part = num.int_part
             /\ num'.int_digits = num.int_digits
             /\ num'.frac_digits = n + 1
             /\ num'.frac_part = Horner(u)[n + 1]
             /\ n + 1 = IF n + 1 < FracDigits THEN n + 1 ELSE FracDigits
  <2> DEFINE more == num.frac_part * 10 + d
  <2>1. fd = n /\ fd \in 0..FracDigits
    BY <1>2, <1>4, <1>6 DEF NumInv
  <2>2. more \in Nat /\ num.frac_part \in Nat /\ d \in Nat
    BY <1>1, DigitFacts DEF NumInv
  <2>3. more < Word
    BY <1>1, <1>6, FractionFits DEF NumInv
  <2>4. more % Word = more
    <3> HIDE DEF more
    <3>1. more \in Int /\ 0 <= more /\ more < Word /\ Word \in Nat \ {0}
      BY <2>2, <2>3, PowFacts
    <3> QED
      BY <3>1, ModFacts, Zenon
  <2>5. /\ num'.from = f /\ num'.int_part = num.int_part
        /\ num'.int_digits = num.int_digits
        /\ num'.frac_digits = fd + 1 /\ num'.frac_part = more % Word
    <3> HIDE DEF d
    <3> QED
      BY <1>1, <1>6 DEF NumInv
  <2>6. /\ u \in Seq(Nat) /\ Len(u) = End - (s + 1)
        /\ \A k \in 1..(End - (s + 1)) : u[k] = buf[(s + 1) + k - 1]
    BY <1>1, <1>4, BufFacts
  <2>7. n + 1 \in 1..(End - (s + 1)) /\ (s + 1) + (n + 1) - 1 = pos /\ (n + 1) - 1 = n
    <3> HIDE DEF s
    <3> QED
      BY <1>2, <1>3
  <2>8. u[n + 1] = d
    BY <2>6, <2>7
  <2>9. Horner(u)[n + 1] = more
    <3> HIDE DEF u, n, s, d
    <3>1. Horner(u)[n + 1] = 10 * Horner(u)[(n + 1) - 1] + u[n + 1]
      BY <2>6, <2>7, HornerFacts
    <3>2. Horner(u)[n + 1] = 10 * num.frac_part + d
      BY <1>2, <2>1, <2>7, <2>8, <3>1
    <3> QED
      BY <2>2, <3>2
  <2>10. n + 1 = IF n + 1 < FracDigits THEN n + 1 ELSE FracDigits
    <3> HIDE DEF n
    <3> QED
      BY <1>4, <1>6, <2>1
  <2> QED
    BY <2>1, <2>4, <2>5, <2>9, <2>10
<1>7. ASSUME ~(fd < FracDigits)
      PROVE  num' = num /\ fd = IF n + 1 < FracDigits THEN n + 1 ELSE FracDigits
  <2> HIDE DEF n
  <2> QED
    BY <1>1, <1>2, <1>4, <1>7
<1> HIDE DEF f, n, d
<1>8. /\ num'.from = f /\ num'.int_part = num.int_part
      /\ num'.int_digits = num.int_digits
      /\ num'.frac_digits = IF n + 1 < FracDigits THEN n + 1 ELSE FracDigits
      /\ num'.frac_part = Horner(u)[num'.frac_digits]
  <2>1. CASE fd < FracDigits
    BY <1>6, <2>1
  <2>2. CASE ~(fd < FracDigits)
    BY <1>2, <1>7, <2>2 DEF f
  <2> QED
    BY <2>1, <2>2
<1>9. Reading' /\ pc' # "number"
  BY <1>1 DEF Reading
<1> HIDE DEF s
<1> QED
  BY <1>1, <1>2, <1>4, <1>5, <1>8, <1>9, ReadAfter

\* The fraction ends at a quote or with the frame.
LEMMA EndFracDecimal == ASSUME DecimalInv, NumInv, EndFrac PROVE DecimalInv'
<1>1. /\ frame' = frame /\ pc = "frac" /\ pc' = "close" /\ num' = num /\ pos' = pos
      /\ Reading /\ frame \in Inputs /\ ReadInv /\ (pos = End \/ At(pos, QUOTE))
  BY DEF EndFrac, FracEnd, DecimalInv, Reading
<1> QED
  BY <1>1, ReadAfter DEF Reading, ReadInv, IntStop, Kept

\* The closing quote passes a quote, or refuses what parse refuses.
LEMMA CloseQuoteDecimal == ASSUME DecimalInv, NumInv, CloseQuote PROVE DecimalInv'
<1>1. /\ frame' = frame /\ num' = num /\ pc = "close" /\ Reading /\ frame \in Inputs
      /\ ReadInv
      /\ IF Decimal = None THEN pc' = "done" /\ pos' = pos
         ELSE pc' \in {"comma", "pair"} /\ pos' = pos + 1
  BY DEF CloseQuote, Return, DecimalInv, Reading
<1>2. num.from \in 1..End /\ num.from \in Nat /\ pos \in Nat /\ num.from <= pos
  BY <1>1, ReadingFacts
<1>3. ~Reading' /\ pc' # "number" /\ pos' \in Nat
  BY <1>1, <1>2 DEF Reading
<1>4. /\ End' = End /\ (At(TextEnd, QUOTE)' <=> At(TextEnd, QUOTE))
      /\ Parse(Text)' = Parse(Text) /\ \A q : At(q, QUOTE)' <=> At(q, QUOTE)
  <2>1. buf' = buf /\ TextEnd' = TextEnd
    BY <1>1, SameText
  <2> QED
    BY <1>1, <2>1, SameText DEF At
<1>5. LeftInv'
  <2>1. CASE Decimal = None
    <3>1. At(TextEnd, QUOTE) => Parse(Text) = None
      BY <1>1, <2>1, CloseValue
    <3> QED
      BY <1>1, <1>2, <1>3, <1>4, <2>1, <3>1 DEF LeftInv
  <2>2. CASE Decimal # None
    <3>1. At(pos, QUOTE) /\ pos \in num.from..pos'
      BY <1>1, <1>2, <2>2 DEF Decimal
    <3>2. \E q \in num'.from..pos' : At(q, QUOTE)'
      BY <1>1, <1>4, <3>1
    <3> QED
      BY <1>1, <1>2, <1>3, <1>4, <3>2 DEF LeftInv
  <2> QED
    BY <2>1, <2>2
<1>6. ReadInv'
  BY <1>3 DEF ReadInv
<1> QED
  BY <1>1, <1>3, <1>5, <1>6 DEF DecimalInv

\* Every step of a walk preserves what it knows of the decimal.
LEMMA NextDecimal == IInv /\ DecimalInv /\ [Next]_vars => DecimalInv'
<1> SUFFICES ASSUME IInv, DecimalInv, [Next]_vars PROVE DecimalInv'
  OBVIOUS
<1>1. NumInv
  BY DEF IInv
<1>2. CASE UNCHANGED vars
  <2>1. UNCHANGED <<frame, pos, pc, num>>
    BY <1>2 DEF vars
  <2>2. buf' = buf /\ End' = End /\ TextEnd' = TextEnd /\ Text' = Text
    BY <2>1, SameText
  <2> QED
    BY <2>1, <2>2 DEF DecimalInv, ReadInv, LeftInv, Reading, IntStop, Kept,
                      AllDigits, Rest, At
<1>3. CASE IntDigit
  BY <1>1, <1>3, IntDigitDecimal, RefusedDecimal
<1>4. CASE FracDigit
  BY <1>1, <1>4, FracDigitDecimal, RefusedDecimal
<1> QED
  BY <1>1, <1>2, <1>3, <1>4, ControlDecimal, OpenQuoteDecimal, EndIntDecimal,
     EndFracDecimal, CloseQuoteDecimal DEF Next

\* A walk that has returned is done, and stays so.
RetInv == ret # "running" => pc = "done"

\* Only a step that ends the walk returns.
LEMMA RetStays == (Init => RetInv) /\ (RetInv /\ [Next]_vars => RetInv')
<1>1. Init => RetInv
  BY DEF Init, RetInv
<1>2. ASSUME RetInv, [Next]_vars PROVE RetInv'
  <2>1. CASE UNCHANGED vars
    BY <1>2, <2>1 DEF vars, RetInv
  <2>2. CASE ReadLastUpdateId \/ ReadMicrotimestamp \/ SeekSide \/ Finish \/ Reject
    BY <1>2, <2>2 DEF RetInv, ReadLastUpdateId, ReadMicrotimestamp, SeekSide, Finish,
                      Reject, EndSide, Return
  <2>3. CASE OpenArray \/ OpenLevel \/ PriceComma \/ CloseLevel \/ NextLevel \/ CloseArray
    BY <1>2, <2>3 DEF RetInv, OpenArray, OpenLevel, PriceComma, CloseLevel, NextLevel,
                      CloseArray, EndSide
  <2>4. CASE OpenQuote \/ IntDigit \/ EndInt \/ FracDigit \/ EndFrac \/ CloseQuote
    BY <1>2, <2>4 DEF RetInv, OpenQuote, IntDigit, EndInt, FracDigit, EndFrac,
                      CloseQuote, Return
  <2> QED
    BY <1>2, <2>1, <2>2, <2>3, <2>4 DEF Next
<1> QED
  BY <1>1, <1>2

\* read_quoted_decimal accepts exactly the texts that FixedPoint::parse
\* accepts, with the same words: in any frame, for words of any width and any
\* number of fractional digits, with too many digits, with none, with a bare
\* dot, a second dot or a value beyond a word.
THEOREM WalkerFusedAgreesWithParse == Spec => []FusedAgreesWithParse
<1>1. IInv /\ RetInv /\ DecimalInv => FusedAgreesWithParse
  <2> SUFFICES ASSUME IInv, RetInv, DecimalInv, num.from > 0, At(TextEnd, QUOTE)
               PROVE  /\ pc = "close" => Decimal = Parse(Text)
                      /\ ret = "none" /\ pos < TextEnd => Parse(Text) = None
    BY DEF FusedAgreesWithParse
  <2>1. pc = "close" => Decimal = Parse(Text)
    BY CloseValue DEF IInv, DecimalInv
  <2>2. ASSUME ret = "none", pos < TextEnd PROVE Parse(Text) = None
    <3>1. ~Reading /\ frame \in Inputs /\ LeftInv
      BY <2>2 DEF Reading, RetInv, DecimalInv
    <3>2. num.from \in 1..End /\ pos \in Nat
      BY <3>1 DEF LeftInv
    <3>3. ASSUME NEW q \in num.from..pos, At(q, QUOTE) PROVE FALSE
      <4>1. q \in 1..Len(buf) /\ End = Len(buf) + 1 /\ Len(buf) \in Nat
        BY <3>1, <3>3, BufFacts
      <4>2. q \in num.from..End /\ q <= pos /\ TextEnd \in num.from..End
        BY <3>1, <3>2, <3>3, <4>1, TextFacts
      <4>3. TextEnd <= q
        BY <3>1, <3>2, <3>3, <4>2, TextFacts
      <4> QED
        BY <2>2, <3>2, <4>1, <4>2, <4>3
    <3> QED
      BY <3>1, <3>3 DEF LeftInv
  <2> QED
    BY <2>1, <2>2
<1>2. Init /\ [][Next]_vars => [](IInv /\ RetInv /\ DecimalInv)
  BY InitIInv, NextIInv, RetStays, InitDecimal, NextDecimal, PTL
<1> QED
  BY <1>1, <1>2, PTL DEF Spec

\* A decimal that read_quoted_decimal accepts is rounded down to a multiple of
\* 1/SCALE, never to a neighbour, and Display writes the word so that parse
\* reads it back: for texts of any length and words of any width.
THEOREM WalkerDecimalIsRoundedDown == Spec => []DecimalIsRoundedDown
<1>1. IInv /\ DecimalInv => DecimalIsRoundedDown
  <2> SUFFICES ASSUME IInv, DecimalInv, pc = "close", Decimal # None
               PROVE  LET unit == TenTo(Len(FracText(Text)))
                          exact == ValueOf(IntText(Text) \o FracText(Text)) * SCALE
                      IN  /\ Decimal * unit <= exact /\ exact < (Decimal + 1) * unit
                          /\ Parse(Display(Decimal)) = Decimal
    BY DEF DecimalIsRoundedDown
  <2>1. frame \in Inputs /\ NumInv /\ ReadInv /\ Reading /\ At(pos, QUOTE)
    BY DEF IInv, DecimalInv, Reading, Decimal
  <2>2. At(TextEnd, QUOTE) /\ Text \in Seq(Nat)
    <3>1. /\ num.from \in 1..End /\ num.from \in Nat /\ pos \in Nat /\ pos <= End
          /\ pos \in num.from..TextEnd /\ TextEnd \in Nat
      BY <2>1, ReadingFacts
    <3>2. pos \in num.from..End
      BY <2>1, <3>1, BufFacts
    <3>3. TextEnd <= pos /\ Text \in Seq(Nat)
      BY <2>1, <3>1, <3>2, TextFacts
    <3>4. TextEnd = pos
      BY <3>1, <3>3
    <3> QED
      BY <2>1, <3>3, <3>4
  <2>3. Decimal = Parse(Text)
    BY <2>1, <2>2, CloseValue
  <2>4. Parse(Display(Decimal)) = Decimal
    BY DecimalIsWord, DisplayParses
  <2> QED
    BY <2>2, <2>3, <2>4, ParseRounds
<1>2. Init /\ [][Next]_vars => [](IInv /\ DecimalInv)
  BY InitIInv, NextIInv, InitDecimal, NextDecimal, PTL
<1> QED
  BY <1>1, <1>2, PTL DEF Spec

-----------------------------------------------------------------------------
(* Where the scanner can be                                                 *)

\* The greatest of some bounded numbers.
LEMMA MaxFacts ==
    ASSUME NEW n \in Nat, NEW S, S \subseteq 0..n, S # {}
    PROVE  Max(S) \in S
<1> DEFINE R == {n - k : k \in S}
<1>1. R \subseteq Nat /\ R # {}
  <2>1. \A k \in S : n - k \in Nat
    OBVIOUS
  <2>2. PICK k \in S : TRUE
    OBVIOUS
  <2>3. n - k \in R
    OBVIOUS
  <2> QED
    BY <2>1, <2>3
<1>2. PICK m \in R : \A y \in R : m <= y
  <2> HIDE DEF R
  <2> QED
    BY <1>1, MinFacts
<1>3. PICK x \in S : m = n - x
  OBVIOUS
<1>4. ASSUME NEW y \in S PROVE x >= y
  <2>1. n - y \in R
    OBVIOUS
  <2>2. n - x <= n - y
    <3> HIDE DEF R
    <3> QED
      BY <1>2, <1>3, <2>1
  <2> QED
    BY <2>2
<1>5. \E z \in S : \A y \in S : z >= y
  BY <1>4
<1> QED
  BY <1>5, Zenon DEF Max

\* skip_ws stays in the frame.
LEMMA SkipFacts ==
    ASSUME frame \in Inputs, NEW p \in 1..End
    PROVE  SkipWs(p) \in p..End
<1> DEFINE S == {q \in p..End : ~At(q, WS)}
<1>1. S \subseteq Nat /\ End \in S
  BY BufFacts
<1>2. SkipWs(p) = Min(S)
  BY DEF SkipWs
<1>3. \A q \in S : q \in p..End
  OBVIOUS
<1> HIDE DEF S
<1> QED
  BY <1>1, <1>2, <1>3, MinFacts

\* A key that is sought is behind where the search began and in the frame.
LEMMA SeekRange ==
    ASSUME frame \in Inputs, NEW p \in 1..End, NEW key, Seek(p, key) # None
    PROVE  Seek(p, key) \in p..End
<1> DEFINE ends == {q \in Behind(buf, key) : q - 4 >= p}
<1>1. Seek(p, key) = IF ends = {} THEN None ELSE Min(ends)
  BY DEF Seek
<1>2. ends \subseteq Nat /\ \A q \in ends : q \in p..End
  BY BufFacts DEF Behind
<1> HIDE DEF ends
<1> QED
  BY <1>1, <1>2, MinFacts

\* A scan of a string that ends in an escape has an escape as the last byte.
LEMMA EscapeIsLast ==
    ASSUME frame \in Inputs, NEW p \in 1..End, AfterEscape(p)
    PROVE  At(Len(buf), ESC)
<1> SUFFICES ASSUME ~At(Len(buf), ESC) PROVE FALSE
  OBVIOUS
<1> DEFINE S == {k \in 0..(End - p) : \A j \in 1..k : At(End - j, ESC)}
<1>1. End = Len(buf) + 1 /\ Len(buf) \in Nat
  BY BufFacts
<1>2. End - 1 = Len(buf)
  BY <1>1
<1>3. ASSUME NEW k \in S PROVE k = 0
  <2> SUFFICES ASSUME k # 0 PROVE FALSE
    OBVIOUS
  <2>1. 1 \in 1..k
    BY <1>1
  <2> QED
    BY <1>2, <2>1
<1>4. 0 \in S
  BY <1>1
<1>5. S = {0}
  <2> HIDE DEF S
  <2> QED
    BY <1>3, <1>4
<1>6. Escaped(p, End) <=> Max(S) % 2 = 1
  BY DEF Escaped
<1> HIDE DEF S
<1>7. Max({0}) = 0
  <2>1. {0} \subseteq 0..0 /\ {0} # {}
    OBVIOUS
  <2> QED
    BY <2>1, MaxFacts
<1> QED
  BY <1>5, <1>6, <1>7 DEF AfterEscape

\* read_string ends in the frame, or one beyond it behind a last escape.
LEMMA StringRange ==
    ASSUME frame \in Inputs, NEW p \in 1..End
    PROVE  \/ ReadString(p).pos \in 1..End
           \/ ReadString(p).pos = End + 1 /\ At(Len(buf), ESC)
<1> DEFINE q == SkipWs(p)
           e == StringEnd(q + 1)
           quotes == {x \in (q + 1)..Len(buf) : At(x, QUOTE) /\ ~Escaped(q + 1, x)}
<1>1. q \in p..End /\ End = Len(buf) + 1 /\ Len(buf) \in Nat /\ q \in 1..End
  BY SkipFacts, BufFacts
<1>2. ReadString(p).pos = IF ~At(q, QUOTE) THEN q
                          ELSE IF e = None
                          THEN IF AfterEscape(q + 1) THEN End + 1 ELSE End
                          ELSE e + 1
  BY DEF ReadString
<1>3. e = IF quotes = {} THEN None ELSE Min(quotes)
  BY DEF StringEnd
<1> HIDE DEF q
<1>4. quotes \subseteq Nat /\ \A x \in quotes : x \in 1..Len(buf)
  BY <1>1
<1> HIDE DEF quotes, e
<1>5. e = None \/ e \in 1..Len(buf)
  BY <1>3, <1>4, MinFacts
<1>6. At(q, QUOTE) => q + 1 \in 1..End
  BY <1>1, BufFacts
<1>7. At(q, QUOTE) /\ AfterEscape(q + 1) => At(Len(buf), ESC)
  BY <1>6, EscapeIsLast
<1> QED
  BY <1>1, <1>2, <1>5, <1>7

\* read_u64 ends in the frame.
LEMMA NumberRange ==
    ASSUME frame \in Inputs, NEW p \in 1..End
    PROVE  ReadU64(p).pos \in 1..End
<1> DEFINE q == SkipWs(p)
           e == DigitsEnd(q)
           D == {x \in q..End : x = End \/ buf[x] \notin Digits}
           Fits(k) == ValueOf(SubSeq(buf, q, k - 1)) < Word
           F == {k \in q..e : Fits(k)}
<1>1. q \in 1..End /\ End = Len(buf) + 1 /\ Len(buf) \in Nat /\ buf \in Seq(Nat)
  BY SkipFacts, BufFacts
<1>2. ReadU64(p).pos = IF Fits(e) THEN e ELSE Max(F)
  BY DEF ReadU64
<1>3. e = Min(D)
  BY DEF DigitsEnd
<1> HIDE DEF q
<1>4. D \subseteq Nat /\ End \in D /\ \A x \in D : x \in q..End
  BY <1>1
<1> HIDE DEF D, e
<1>5. e \in q..End
  BY <1>3, <1>4, MinFacts
<1>6. Fits(q)
  <2> DEFINE s == SubSeq(buf, q, q - 1)
  <2>1. s \in Seq(Nat) /\ Len(s) = 0
    <3> HIDE DEF buf
    <3> QED
      BY <1>1
  <2> HIDE DEF s
  <2>2. ValueOf(s) = 0
    BY <2>1, HornerFacts DEF ValueOf
  <2>3. ValueOf(s) < Word
    BY <2>2, PowFacts
  <2> QED
    BY <2>3 DEF s
<1> HIDE DEF Fits
<1>7. F \subseteq 0..End /\ q \in F /\ End \in Nat /\ \A x \in F : x \in 1..End
  BY <1>1, <1>5, <1>6
<1> HIDE DEF F
<1>8. Max(F) \in F
  BY <1>7, MaxFacts
<1>9. e \in 1..End /\ Max(F) \in 1..End
  <2>1. e \in 1..End
    BY <1>1, <1>5
  <2> QED
    BY <1>7, <1>8, <2>1, Zenon
<1> QED
  BY <1>2, <1>9, Zenon

\* The scanner has gone beyond the frame, over an escape at its end.
Overrun == frame.handler = "bitstamp" /\ At(Len(buf), ESC) /\ pos = End + 1

\* The scanner is in the frame, at its end, or has run over an escape and
\* will look no further.
PosInv ==
    /\ frame \in Inputs /\ pos \in Nat \ {0}
    /\ pos > End => Overrun /\ pc \in {"seek", "done"}
    /\ PanicNeedsEscape

\* The position is that of a byte of the frame, or the end.
InFrame(p) == p \in 1..End

\* A step that leaves the scanner in the frame and does not panic.
LEMMA StaysInFrame ==
    ASSUME PosInv, frame' = frame, InFrame(pos'), ret' # "panic"
    PROVE  PosInv'
<1>1. End' = End /\ frame' \in Inputs /\ End \in Nat
  BY BufFacts DEF End, buf, PosInv
<1>2. pos' \in Nat \ {0} /\ ~(pos' > End)
  BY <1>1 DEF InFrame
<1> QED
  BY <1>1, <1>2 DEF PosInv, PanicNeedsEscape

\* The number at the start.
LEMMA NumberPos ==
    ASSUME PosInv, RetInv, ReadLastUpdateId \/ ReadMicrotimestamp
    PROVE  PosInv'
<1>1. /\ frame' = frame /\ frame \in Inputs /\ pc = "number" /\ pc' = "seek"
      /\ ret' = ret /\ ret' # "panic" /\ End \in Nat
  BY BufFacts DEF ReadLastUpdateId, ReadMicrotimestamp, PosInv, RetInv
<1>2. InFrame(pos) /\ 1 \in 1..End
  BY <1>1, BufFacts DEF PosInv, InFrame
<1>3. CASE pos' = pos
  BY <1>1, <1>2, <1>3, StaysInFrame
<1>4. CASE ReadLastUpdateId /\ pos' # pos
  <2> DEFINE p == Seek(1, LASTUPDATEID)
  <2>1. p # None /\ pos' = ReadU64(p).pos
    BY <1>4 DEF ReadLastUpdateId
  <2>2. p \in 1..End
    BY <1>1, <1>2, <2>1, SeekRange
  <2> HIDE DEF p
  <2>3. InFrame(pos')
    BY <1>1, <2>1, <2>2, NumberRange DEF InFrame
  <2> QED
    BY <1>1, <2>3, StaysInFrame
<1>5. CASE ReadMicrotimestamp /\ pos' # pos
  <2> DEFINE p == Seek(1, MICROTIMESTAMP)
  <2>1. p # None /\ pos' = ReadString(p).pos /\ frame.handler = "bitstamp"
    BY <1>5 DEF ReadMicrotimestamp
  <2>2. p \in 1..End
    BY <1>1, <1>2, <2>1, SeekRange
  <2> HIDE DEF p
  <2>3. InFrame(pos') \/ (pos' = End + 1 /\ At(Len(buf), ESC))
    BY <1>1, <2>1, <2>2, StringRange DEF InFrame
  <2>4. CASE InFrame(pos')
    BY <1>1, <2>4, StaysInFrame
  <2>5. CASE pos' = End + 1 /\ At(Len(buf), ESC)
    <3>1. buf' = buf /\ End' = End
      BY <1>1 DEF buf, End
    <3>2. Overrun' /\ pos' \in Nat \ {0}
      BY <1>1, <2>1, <2>5, <3>1 DEF Overrun, At
    <3> QED
      BY <1>1, <3>2 DEF PosInv, PanicNeedsEscape
  <2> QED
    BY <2>3, <2>4, <2>5
<1> QED
  BY <1>3, <1>4, <1>5

\* Seeking a side panics only where the scanner has run over the end.
LEMMA SeekPos == ASSUME PosInv, RetInv, SeekSide PROVE PosInv'
<1>1. /\ frame' = frame /\ frame \in Inputs /\ pc = "seek" /\ ret # "panic"
      /\ End \in Nat /\ pos \in Nat \ {0}
  BY BufFacts DEF SeekSide, PosInv, RetInv
<1>2. CASE pos > End
  <2>1. pos' = pos /\ pc' = "done"
    BY <1>1, <1>2 DEF SeekSide, Return
  <2>2. Overrun
    BY <1>2 DEF PosInv
  <2>3. buf' = buf /\ End' = End
    BY <1>1 DEF buf, End
  <2> QED
    BY <1>1, <2>1, <2>2, <2>3 DEF PosInv, PanicNeedsEscape, Overrun, At
<1>3. CASE pos <= End
  <2>1. \/ pos' = pos
        \/ \E key : pos' = Seek(pos, key) /\ Seek(pos, key) # None
    BY <1>3 DEF SeekSide
  <2>2. ret' # "panic"
    BY <1>1, <1>3 DEF SeekSide, Return, EndSide
  <2>3. pos \in 1..End
    BY <1>1, <1>3
  <2>4. \A q \in pos..End : q \in 1..End
    BY <1>1
  <2>5. InFrame(pos')
    BY <1>1, <2>1, <2>3, <2>4, SeekRange DEF InFrame
  <2> QED
    BY <1>1, <2>2, <2>5, StaysInFrame
<1> QED
  BY <1>1, <1>2, <1>3

\* Every other step moves by the bytes it has seen.
LEMMA MovePos ==
    ASSUME PosInv, RetInv,
           \/ Finish \/ Reject \/ OpenArray \/ OpenLevel \/ PriceComma \/ CloseLevel
           \/ NextLevel \/ CloseArray \/ OpenQuote \/ IntDigit \/ EndInt \/ FracDigit
           \/ EndFrac \/ CloseQuote
    PROVE  PosInv'
<1>1. /\ frame' = frame /\ frame \in Inputs /\ pc \notin {"seek", "done"}
      /\ ret # "panic" /\ ret' \in {ret, "none", "some"}
  BY DEF PosInv, RetInv, Finish, Reject, OpenArray, OpenLevel, PriceComma, CloseLevel,
         NextLevel, CloseArray, OpenQuote, IntDigit, EndInt, FracDigit, EndFrac,
         CloseQuote, Return
<1>2. /\ End = Len(buf) + 1 /\ Len(buf) \in Nat /\ pos \in 1..End
      /\ \A p, c : At(p, c) => p \in 1..Len(buf)
  BY <1>1, BufFacts DEF PosInv
<1>3. \/ pos' = pos
      \/ pos' = pos + 1 /\ pos # End
      \/ pos' = pos + 2 /\ At(pos + 1, CLOSE)
  <2>1. CASE Finish \/ Reject \/ EndFrac
    BY <2>1 DEF Finish, Reject, EndFrac
  <2>2. CASE OpenArray
    <3>1. pos # End
      BY <1>2, <2>2 DEF OpenArray
    <3> QED
      BY <2>2, <3>1 DEF OpenArray
  <2>3. CASE OpenLevel \/ PriceComma \/ CloseLevel \/ NextLevel \/ CloseArray \/ OpenQuote
    <3>1. pos' = pos + 1 /\ \E c : At(pos, c)
      BY <2>3 DEF OpenLevel, PriceComma, CloseLevel, NextLevel, CloseArray, OpenQuote
    <3> QED
      BY <1>2, <3>1
  <2>4. CASE IntDigit \/ FracDigit
    BY <2>4 DEF IntDigit, FracDigit, IntEnd, FracEnd
  <2>5. CASE EndInt
    BY <1>2, <2>5 DEF EndInt
  <2>6. CASE CloseQuote
    <3>1. pos' = pos \/ (pos' = pos + 1 /\ Decimal # None)
      BY <2>6 DEF CloseQuote
    <3>2. Decimal # None => At(pos, QUOTE)
      BY DEF Decimal
    <3> QED
      BY <1>2, <3>1, <3>2
  <2> QED
    BY <2>1, <2>2, <2>3, <2>4, <2>5, <2>6
<1>4. InFrame(pos')
  BY <1>2, <1>3 DEF InFrame
<1> QED
  BY <1>1, <1>4, StaysInFrame

\* The scanner starts in the frame.
LEMMA InitPos == Init => PosInv
<1> SUFFICES ASSUME Init PROVE PosInv
  OBVIOUS
<1>1. frame \in Inputs /\ pos = 1 /\ ret = "running"
  BY DEF Init
<1>2. End \in Nat /\ End >= 1
  BY <1>1, BufFacts
<1> QED
  BY <1>1, <1>2 DEF PosInv, PanicNeedsEscape

\* Every step leaves it there, or stops.
LEMMA NextPos == PosInv /\ RetInv /\ [Next]_vars => PosInv'
<1> SUFFICES ASSUME PosInv, RetInv, [Next]_vars PROVE PosInv'
  OBVIOUS
<1>1. CASE UNCHANGED vars
  BY <1>1 DEF vars, PosInv, Overrun, PanicNeedsEscape, At, End, buf
<1> QED
  BY <1>1, NumberPos, SeekPos, MovePos DEF Next

\* Whatever bytes a frame holds, the walkers read within it: a slice beyond
\* its end is possible for Bitstamp alone, and only if its last byte is an
\* escape.
THEOREM WalkerPanicNeedsEscape == Spec => []PanicNeedsEscape
<1>1. PosInv => PanicNeedsEscape
  BY DEF PosInv
<1> QED
  BY <1>1, InitPos, NextPos, RetStays, PTL DEF Spec

-----------------------------------------------------------------------------
(* What a walk has read of the book that was sent                           *)

KeyOf(s) == IF s = "bids" THEN BIDS ELSE ASKS
Wire(s) == ArrayText(frame.sent[s])

InArray == pc \in {"array", "level", "quote", "int", "frac", "close", "comma",
                   "pair", "next"}

\* The first n bytes at p are those of the side's array.
Same(p, n) == \A i \in 1..n : At(p + i - 1, Wire(side)[i])

\* The place of level k in an array at p, and of its texts in one at o.
LevelAt(p, k) == p + Len(Upto(frame.sent[side])[k - 1])
TextAt(o, l) == IF field = "price" THEN o + 2 ELSE o + Len(l.price) + 5

\* The walk reads level k of an array at p and has kept those before it.
Spot(p, k) ==
    LET sent == frame.sent[side]
        l == sent[k]
        o == LevelAt(p, k)
    IN  /\ book[side] = WithAmount(sent)[IF pc = "next" THEN k ELSE k - 1]
        /\ pc # "next" => Len(book[side]) < Depth
        /\ pc = "level" => pos = o
        /\ pc = "quote" => pos = TextAt(o, l) - 1
        /\ Reading => num.from = TextAt(o, l) /\ pos <= num.from + Len(l[field])
        /\ pc = "comma" => field = "price" /\ pos = o + Len(l.price) + 3
        /\ pc = "pair" => field = "amount" /\ pos = o + Len(l.price) + Len(l.amount) + 6
        /\ pc = "next" => pos = o + Len(l.price) + Len(l.amount) + 7
        /\ pc = "comma" \/ (field = "amount" /\ pc # "level") => level.price = Parse(l.price)
        /\ pc = "pair" => level.amount = Parse(l.amount)

\* An array is read as it was sent up to where the scanner is.
ArrayInv ==
    InArray =>
        \E p \in Behind(buf, KeyOf(side)) :
            /\ pos \in p..(p + Len(Wire(side))) /\ Same(p, pos - p)
            /\ pc = "array" => pos = p /\ book[side] = <<>>
            /\ pc # "array" =>
                  \/ \E k \in 1..Len(frame.sent[side]) : Spot(p, k)
                  \/ /\ pc = "level" /\ pos = p + 1 /\ frame.sent[side] = <<>>
                     /\ ~frame.intact

\* A side has been read, or for Bitstamp it is missing in a damaged frame.
SideRead(s) ==
    \/ book[s] = Expected(frame.sent[s])
    \/ frame.handler = "bitstamp" /\ ~frame.intact /\ book[s] = <<>>

SidesInv ==
    /\ pc = "number" => side = "bids"
    /\ side = "bids" => book.asks = <<>>
    /\ pc \in {"number", "seek"} => book[side] = <<>>
    /\ side = "asks" => SideRead("bids")
    /\ pc = "finish" \/ ret = "some" => side = "asks" /\ SideRead("asks")

\* The number has been read, or for Bitstamp it counts as missing.
NumberInv ==
    LET seq == ParseU64(frame.sent.number) IN
    /\ frame.handler = "bitstamp" => book.seq \in {seq, 0}
    /\ frame.intact /\ pc # "number" =>
          book.seq = seq /\ (frame.handler = "bitstamp" => book.has_data)

\* A frame that arrives as it was sent is not refused, and the keys that are
\* still to be found lie ahead.
IntactInv ==
    frame.intact =>
        /\ pc = "done" => ret = "some"
        /\ pc = "seek" => \A p \in Behind(buf, KeyOf(side)) : pos + 4 <= p

-----------------------------------------------------------------------------
(* Recursive functions that build a sequence                                *)

\* What holds at 0 and with a number up to n at its successor holds up to n.
LEMMA BoundedInduction ==
    ASSUME NEW n \in Nat, NEW S, 0 \in S, \A k \in 1..n : k - 1 \in S => k \in S
    PROVE  \A k \in 0..n : k \in S
<1> DEFINE T == {k \in Nat : k <= n => k \in S}
<1>1. 0 \in T
  OBVIOUS
<1>2. ASSUME NEW k \in Nat, k \in T PROVE k + 1 \in T
  <2> SUFFICES ASSUME k + 1 <= n PROVE k + 1 \in S
    OBVIOUS
  <2>1. k + 1 \in 1..n /\ (k + 1) - 1 \in S
    BY <1>2
  <2> QED
    BY <2>1
<1> HIDE DEF T
<1>3. \A k \in Nat : k \in T
  BY <1>1, <1>2, SetInduction
<1> QED
  BY <1>3 DEF T

\* g takes n given steps, one after another, from the first value on.
Steps(g, n, V, first, step) ==
    /\ g \in [0..n -> V] /\ g[0] = first
    /\ \A k \in 1..n : g[k] = step[k][g[k - 1]]

\* There is a function that does.
LEMMA RecursionExists ==
    ASSUME NEW n \in Nat, NEW V, NEW first \in V, NEW step \in [1..n -> [V -> V]]
    PROVE  \E g : Steps(g, n, V, first, step)
<1> DEFINE Is(g, m) == /\ g \in [0..m -> V] /\ g[0] = first
                       /\ \A k \in 1..m : g[k] = step[k][g[k - 1]]
           S == {m \in 0..n : \E g : Is(g, m)}
<1>1. 0 \in S
  <2>1. Is([k \in 0..0 |-> first], 0)
    OBVIOUS
  <2> HIDE DEF Is
  <2>2. 0 \in 0..n
    OBVIOUS
  <2> QED
    BY <2>1, <2>2
<1>2. ASSUME NEW m \in 1..n, m - 1 \in S PROVE m \in S
  <2>1. PICK g : Is(g, m - 1)
    <3> HIDE DEF Is
    <3> QED
      BY <1>2
  <2> DEFINE h == [k \in 0..m |-> IF k = m THEN step[m][g[m - 1]] ELSE g[k]]
  <2>2. g[m - 1] \in V /\ step[m] \in [V -> V]
    BY <2>1
  <2>3. h \in [0..m -> V] /\ h[0] = first
    <3>1. \A k \in 0..m : k # m => k \in 0..(m - 1)
      OBVIOUS
    <3> QED
      BY <2>1, <2>2, <3>1
  <2>4. ASSUME NEW k \in 1..m PROVE h[k] = step[k][h[k - 1]]
    <3>1. CASE k = m
      BY <3>1
    <3>2. CASE k # m
      <4>1. k \in 1..(m - 1) /\ k \in 0..m /\ k - 1 \in 0..m /\ k - 1 # m
        BY <3>2
      <4> QED
        BY <2>1, <3>2, <4>1
    <3> QED
      BY <3>1, <3>2
  <2>5. Is(h, m)
    BY <2>3, <2>4
  <2> HIDE DEF Is, h
  <2> QED
    BY <2>5
<1> HIDE DEF S
<1>3. \A m \in 0..n : m \in S
  BY <1>1, <1>2, BoundedInduction
<1>4. n \in S
  BY <1>3
<1>5. \A g : Is(g, n) => Steps(g, n, V, first, step)
  BY DEF Steps
<1> HIDE DEF Is
<1> QED
  BY <1>4, <1>5 DEF S

\* Each sequence begins with the one before it.
Grows(u, n) ==
    /\ \A k \in 0..n : Len(u[k]) \in Nat
    /\ \A k \in 1..n : /\ Len(u[k - 1]) <= Len(u[k])
                       /\ \A i \in 1..Len(u[k - 1]) : u[k][i] = u[k - 1][i]
Begins(u, k, m) == /\ Len(u[k]) <= Len(u[m])
                   /\ \A i \in 1..Len(u[k]) : u[m][i] = u[k][i]

\* Then it begins with all that are before it.
LEMMA PrefixChain ==
    ASSUME NEW n \in Nat, NEW u, Grows(u, n), NEW k \in 0..n
    PROVE  \A m \in 0..n : k <= m => Begins(u, k, m)
<1> DEFINE S == {m \in 0..n : k <= m => Begins(u, k, m)}
<1> USE DEF Grows, Begins
<1>1. \A m \in 0..n : Len(u[m]) \in Nat
  OBVIOUS
<1>2. 0 \in S
  <2>1. k <= 0 => k = 0
    OBVIOUS
  <2> QED
    BY <1>1, <2>1
<1>3. ASSUME NEW m \in 1..n, m - 1 \in S PROVE m \in S
  <2>1. CASE m = k
    BY <1>1, <2>1
  <2>2. CASE m # k /\ k <= m
    <3>1. m - 1 \in 0..n /\ k <= m - 1
      BY <2>2
    <3>2. Begins(u, k, m - 1)
      BY <1>3, <3>1
    <3>3. Len(u[k]) <= Len(u[m])
      BY <1>1, <3>1, <3>2
    <3>4. ASSUME NEW i \in 1..Len(u[k]) PROVE u[m][i] = u[k][i]
      <4>1. i \in 1..Len(u[m - 1])
        BY <1>1, <3>1, <3>2
      <4> QED
        BY <3>2, <4>1
    <3> QED
      BY <3>3, <3>4
  <2> QED
    BY <2>1, <2>2
<1> HIDE DEF S
<1>4. \A m \in 0..n : m \in S
  BY <1>2, <1>3, BoundedInduction
<1> QED
  BY <1>4 DEF S

-----------------------------------------------------------------------------
(* The bytes of an array                                                    *)

\* A quoted text, byte by byte.
LEMMA QuotedFacts ==
    ASSUME NEW t \in Seq(Nat)
    PROVE  /\ Quoted(t) \in Seq(Nat) /\ Len(Quoted(t)) = Len(t) + 2
           /\ Quoted(t)[1] = QUOTE /\ Quoted(t)[Len(t) + 2] = QUOTE
           /\ \A j \in 1..Len(t) : Quoted(t)[j + 1] = t[j]
<1> DEFINE a == <<QUOTE>> \o t
           z == <<QUOTE>>
<1>1. /\ a \in Seq(Nat) /\ Len(a) = Len(t) + 1 /\ a[1] = QUOTE
      /\ \A j \in 1..Len(t) : a[j + 1] = t[j]
  <2>1. z \in Seq(Nat) /\ Len(z) = 1 /\ z[1] = QUOTE
    BY DEF QUOTE
  <2> QED
    BY <2>1, ConcatFacts
<1>2. z \in Seq(Nat) /\ Len(z) = 1 /\ z[1] = QUOTE
  BY DEF QUOTE
<1>3. Quoted(t) = a \o z
  BY DEF Quoted
<1> HIDE DEF a, z
<1>4. /\ a \o z \in Seq(Nat) /\ Len(a \o z) = Len(a) + Len(z)
      /\ \A j \in 1..Len(a) : (a \o z)[j] = a[j]
      /\ \A j \in 1..Len(z) : (a \o z)[Len(a) + j] = z[j]
  BY <1>1, <1>2, ConcatFacts
<1>5. Len(t) \in Nat
  OBVIOUS
<1>6. (a \o z)[1] = QUOTE /\ (a \o z)[Len(t) + 2] = QUOTE
  <2>1. 1 \in 1..Len(a) /\ 1 \in 1..Len(z) /\ Len(a) + 1 = Len(t) + 2
    BY <1>1, <1>2, <1>5
  <2>2. (a \o z)[Len(a) + 1] = QUOTE
    BY <1>2, <1>4, <2>1
  <2> QED
    BY <1>1, <1>4, <2>1, <2>2
<1>7. ASSUME NEW j \in 1..Len(t) PROVE (a \o z)[j + 1] = t[j]
  <2>1. j + 1 \in 1..Len(a)
    BY <1>1, <1>5
  <2> QED
    BY <1>1, <1>4, <2>1
<1> QED
  BY <1>1, <1>2, <1>3, <1>4, <1>5, <1>6, <1>7

\* A level that was sent has two texts without quotes.
LEMMA SentFacts ==
    ASSUME NEW l \in SentLevels
    PROVE  /\ l.price \in Seq(Nat) /\ Len(l.price) \in Nat
           /\ l.amount \in Seq(Nat) /\ Len(l.amount) \in Nat
           /\ \A j \in 1..Len(l.price) : l.price[j] # QUOTE
           /\ \A j \in 1..Len(l.amount) : l.amount[j] # QUOTE
<1>1. ASSUME NEW t \in Payload
      PROVE  t \in Seq(Nat) /\ Len(t) \in Nat /\ \A j \in 1..Len(t) : t[j] # QUOTE
  <2>1. t \in Seq(Nat \ {QUOTE, ESC})
    BY DEF Payload
  <2>2. Len(t) \in Nat /\ \A j \in 1..Len(t) : t[j] \in Nat \ {QUOTE, ESC}
    BY <2>1
  <2>3. t \in Seq(Nat)
    BY <2>1, <2>2
  <2> QED
    BY <2>2, <2>3
<1>2. l.price \in Payload /\ l.amount \in Payload
  BY DEF SentLevels
<1> QED
  BY <1>1, <1>2

\* The byte at an offset of a level with texts of these lengths.
PairBytes(w, o, l) ==
    LET P == Len(l.price)
        A == Len(l.amount)
    IN  /\ w[o + 1] = OPEN /\ w[o + 2] = QUOTE
        /\ \A j \in 1..P : w[o + 2 + j] = l.price[j]
        /\ w[o + P + 3] = QUOTE /\ w[o + P + 4] = COMMA /\ w[o + P + 5] = QUOTE
        /\ \A j \in 1..A : w[o + P + 5 + j] = l.amount[j]
        /\ w[o + P + A + 6] = QUOTE /\ w[o + P + A + 7] = CLOSE

\* A level, byte by byte.
LEMMA PairFacts ==
    ASSUME NEW l \in SentLevels
    PROVE  /\ Pair(l) \in Seq(Nat) /\ Len(Pair(l)) = Len(l.price) + Len(l.amount) + 7
           /\ PairBytes(Pair(l), 0, l)
<1> DEFINE P == Len(l.price)
           A == Len(l.amount)
           open == <<OPEN>>
           comma == <<COMMA>>
           close == <<CLOSE>>
           p == Quoted(l.price)
           a == Quoted(l.amount)
           s1 == open \o p
           s2 == s1 \o comma
           s3 == s2 \o a
           s4 == s3 \o close
<1>1. P \in Nat /\ A \in Nat /\ l.price \in Seq(Nat) /\ l.amount \in Seq(Nat)
  BY SentFacts
<1>2. /\ open \in Seq(Nat) /\ Len(open) = 1 /\ open[1] = OPEN
      /\ comma \in Seq(Nat) /\ Len(comma) = 1 /\ comma[1] = COMMA
      /\ close \in Seq(Nat) /\ Len(close) = 1 /\ close[1] = CLOSE
  BY DEF OPEN, COMMA, CLOSE
<1>3. /\ p \in Seq(Nat) /\ Len(p) = P + 2 /\ p[1] = QUOTE /\ p[P + 2] = QUOTE
      /\ \A j \in 1..P : p[j + 1] = l.price[j]
  BY <1>1, QuotedFacts
<1>4. /\ a \in Seq(Nat) /\ Len(a) = A + 2 /\ a[1] = QUOTE /\ a[A + 2] = QUOTE
      /\ \A j \in 1..A : a[j + 1] = l.amount[j]
  BY <1>1, QuotedFacts
<1>5. Pair(l) = s4
  BY DEF Pair
<1> HIDE DEF P, A, open, comma, close, p, a
<1>6. /\ s1 \in Seq(Nat) /\ Len(s1) = P + 3
      /\ s1[1] = OPEN /\ \A j \in 1..(P + 2) : s1[1 + j] = p[j]
  <2>1. /\ s1 \in Seq(Nat) /\ Len(s1) = Len(open) + Len(p)
        /\ \A j \in 1..Len(open) : s1[j] = open[j]
        /\ \A j \in 1..Len(p) : s1[Len(open) + j] = p[j]
    BY <1>2, <1>3, ConcatFacts
  <2>2. 1 \in 1..Len(open) /\ Len(open) = 1 /\ Len(p) = P + 2
    BY <1>2, <1>3
  <2>3. Len(s1) = P + 3
    BY <1>1, <2>1, <2>2
  <2>4. s1[1] = OPEN
    BY <1>2, <2>1, <2>2
  <2>5. \A j \in 1..(P + 2) : s1[1 + j] = p[j]
    BY <2>1, <2>2
  <2> HIDE DEF s1
  <2> QED
    BY <2>1, <2>3, <2>4, <2>5
<1> HIDE DEF s1
<1>7. /\ s2 \in Seq(Nat) /\ Len(s2) = P + 4 /\ s2[P + 4] = COMMA
      /\ \A j \in 1..(P + 3) : s2[j] = s1[j]
  <2>1. /\ s2 \in Seq(Nat) /\ Len(s2) = Len(s1) + Len(comma)
        /\ \A j \in 1..Len(s1) : s2[j] = s1[j]
        /\ \A j \in 1..Len(comma) : s2[Len(s1) + j] = comma[j]
    BY <1>2, <1>6, ConcatFacts
  <2>2. 1 \in 1..Len(comma) /\ Len(s1) + 1 = P + 4
    BY <1>1, <1>2, <1>6
  <2> QED
    BY <1>1, <1>2, <1>6, <2>1, <2>2
<1> HIDE DEF s2
<1>8. /\ s3 \in Seq(Nat) /\ Len(s3) = P + A + 6
      /\ \A j \in 1..(P + 4) : s3[j] = s2[j]
      /\ \A j \in 1..(A + 2) : s3[P + 4 + j] = a[j]
  <2>1. /\ s3 \in Seq(Nat) /\ Len(s3) = Len(s2) + Len(a)
        /\ \A j \in 1..Len(s2) : s3[j] = s2[j]
        /\ \A j \in 1..Len(a) : s3[Len(s2) + j] = a[j]
    BY <1>4, <1>7, ConcatFacts
  <2> QED
    BY <1>1, <1>4, <1>7, <2>1
<1> HIDE DEF s3
<1>9. /\ s4 \in Seq(Nat) /\ Len(s4) = P + A + 7 /\ s4[P + A + 7] = CLOSE
      /\ \A j \in 1..(P + A + 6) : s4[j] = s3[j]
  <2>1. /\ s4 \in Seq(Nat) /\ Len(s4) = Len(s3) + Len(close)
        /\ \A j \in 1..Len(s3) : s4[j] = s3[j]
        /\ \A j \in 1..Len(close) : s4[Len(s3) + j] = close[j]
    BY <1>2, <1>8, ConcatFacts
  <2>2. 1 \in 1..Len(close) /\ Len(s3) + 1 = P + A + 7
    BY <1>1, <1>2, <1>8
  <2> QED
    BY <1>1, <1>2, <1>8, <2>1, <2>2
<1> HIDE DEF s4
<1>10. \A j \in 1..(P + 3) : s4[j] = s1[j]
  <2> SUFFICES ASSUME NEW j \in 1..(P + 3) PROVE s4[j] = s1[j]
    OBVIOUS
  <2>1. j \in 1..(P + 4) /\ j \in 1..(P + A + 6)
    BY <1>1
  <2> QED
    BY <1>7, <1>8, <1>9, <2>1
<1>11. s4[1] = OPEN /\ \A j \in 1..(P + 2) : s4[1 + j] = p[j]
  <2>1. 1 \in 1..(P + 3) /\ \A j \in 1..(P + 2) : 1 + j \in 1..(P + 3)
    BY <1>1
  <2> QED
    BY <1>6, <1>10, <2>1
<1>12. s4[2] = QUOTE /\ s4[P + 3] = QUOTE /\ \A j \in 1..P : s4[2 + j] = l.price[j]
  <2>1. /\ 1 \in 1..(P + 2) /\ P + 2 \in 1..(P + 2) /\ 1 + (P + 2) = P + 3
        /\ \A j \in 1..P : j + 1 \in 1..(P + 2) /\ 1 + (j + 1) = 2 + j
    BY <1>1
  <2>2. s4[1 + 1] = p[1] /\ s4[1 + (P + 2)] = p[P + 2]
        /\ \A j \in 1..P : s4[1 + (j + 1)] = p[j + 1]
    BY <1>11, <2>1
  <2> QED
    BY <1>3, <2>1, <2>2
<1>13. s4[P + 4] = COMMA
  <2>1. P + 4 \in 1..(P + 4) /\ P + 4 \in 1..(P + A + 6)
    BY <1>1
  <2> QED
    BY <1>7, <1>8, <1>9, <2>1
<1>14. \A j \in 1..(A + 2) : s4[P + 4 + j] = a[j]
  <2>1. \A j \in 1..(A + 2) : P + 4 + j \in 1..(P + A + 6)
    BY <1>1
  <2> QED
    BY <1>8, <1>9, <2>1
<1>15. /\ s4[P + 5] = QUOTE /\ s4[P + A + 6] = QUOTE
       /\ \A j \in 1..A : s4[P + 5 + j] = l.amount[j]
  <2>1. /\ 1 \in 1..(A + 2) /\ A + 2 \in 1..(A + 2) /\ P + 4 + (A + 2) = P + A + 6
        /\ P + 4 + 1 = P + 5
        /\ \A j \in 1..A : j + 1 \in 1..(A + 2) /\ P + 4 + (j + 1) = P + 5 + j
    BY <1>1
  <2>2. s4[P + 4 + 1] = a[1] /\ s4[P + 4 + (A + 2)] = a[A + 2]
        /\ \A j \in 1..A : s4[P + 4 + (j + 1)] = a[j + 1]
    BY <1>14, <2>1
  <2> QED
    BY <1>4, <2>1, <2>2
<1>16. PairBytes(s4, 0, l)
  <2>1. /\ 0 + 1 = 1 /\ 0 + 2 = 2 /\ \A x \in Nat : 0 + x = x
        /\ 0 + P + 3 = P + 3 /\ 0 + P + 4 = P + 4 /\ 0 + P + 5 = P + 5
        /\ 0 + P + A + 6 = P + A + 6 /\ 0 + P + A + 7 = P + A + 7
        /\ \A j \in 1..P : 0 + 2 + j = 2 + j
        /\ \A j \in 1..A : 0 + P + 5 + j = P + 5 + j
    BY <1>1
  <2> QED
    BY <1>9, <1>11, <1>12, <1>13, <1>15, <2>1 DEF PairBytes, P, A
<1> QED
  BY <1>5, <1>9, <1>16 DEF P, A

\* What follows level k.
Separator(levels, k) == IF k = Len(levels) THEN CLOSE ELSE COMMA

\* An array up to a level is the array up to the level before it, the level,
\* and what follows it.
LEMMA UptoFacts ==
    ASSUME NEW levels \in Seq(SentLevels)
    PROVE  /\ Upto(levels) \in [0..Len(levels) -> Seq(Nat)]
           /\ Upto(levels)[0] = <<OPEN>>
           /\ \A k \in 1..Len(levels) :
                 Upto(levels)[k] = Upto(levels)[k - 1] \o Pair(levels[k])
                                       \o <<Separator(levels, k)>>
<1> DEFINE n == Len(levels)
           V == Seq(Nat)
           Grow(t, k) == t \o Pair(levels[k]) \o <<Separator(levels, k)>>
           F(g) == [k \in 0..n |-> IF k = 0 THEN <<OPEN>> ELSE Grow(g[k - 1], k)]
           step == [k \in 1..n |-> [t \in V |-> Grow(t, k)]]
           bytes == CHOOSE g : g = F(g)
<1>1. n \in Nat /\ \A k \in 1..n : levels[k] \in SentLevels
  OBVIOUS
<1>2. Upto(levels) = bytes
  BY Zenon DEF Upto, Separator
<1> HIDE DEF n
<1>3. ASSUME NEW k \in 1..n, NEW t \in V PROVE Grow(t, k) \in V
  <2>1. Pair(levels[k]) \in V /\ Separator(levels, k) \in Nat
    BY <1>1, PairFacts DEF Separator, CLOSE, COMMA
  <2> QED
    BY <2>1
<1> HIDE DEF Grow
<1>4. step \in [1..n -> [V -> V]] /\ <<OPEN>> \in V
  BY <1>3 DEF OPEN
<1>5. PICK g \in [0..n -> V] : g[0] = <<OPEN>> /\ \A k \in 1..n : g[k] = step[k][g[k - 1]]
  <2> DEFINE first == <<OPEN>>
  <2> HIDE DEF step, V
  <2>1. first \in V /\ step \in [1..n -> [V -> V]] /\ n \in Nat
    BY <1>1, <1>4
  <2> HIDE DEF first
  <2>2. \E g : Steps(g, n, V, first, step)
    BY <2>1, RecursionExists
  <2> QED
    BY <2>2 DEF first, Steps
<1>6. g = F(g)
  <2>1. ASSUME NEW k \in 1..n PROVE g[k] = Grow(g[k - 1], k)
    <3>1. k - 1 \in 0..n
      BY <1>1
    <3>2. g[k - 1] \in V
      BY <3>1
    <3> HIDE DEF V
    <3> QED
      BY <1>5, <3>2
  <2>2. \A k \in 0..n : g[k] = IF k = 0 THEN <<OPEN>> ELSE Grow(g[k - 1], k)
    <3>1. \A k \in 0..n : k # 0 => k \in 1..n
      BY <1>1
    <3> QED
      BY <1>5, <2>1, <3>1
  <2> QED
    BY <2>2
<1>7. bytes = F(bytes)
  <2> HIDE DEF F
  <2> QED
    BY <1>6, Zenon
<1> HIDE DEF bytes
<1>8. /\ bytes[0] = <<OPEN>> /\ \A k \in 1..n : bytes[k] = Grow(bytes[k - 1], k)
      /\ bytes = [k \in 0..n |-> bytes[k]]
  <2>1. \A k \in 0..n : bytes[k] = IF k = 0 THEN <<OPEN>> ELSE Grow(bytes[k - 1], k)
    BY <1>7
  <2>2. 0 \in 0..n /\ \A k \in 1..n : k \in 0..n /\ k # 0
    BY <1>1
  <2>3. bytes = [k \in 0..n |-> bytes[k]]
    BY <1>7
  <2> QED
    BY <2>1, <2>2, <2>3
<1>9. \A k \in 0..n : bytes[k] \in V
  <2> DEFINE S == {k \in 0..n : bytes[k] \in V}
  <2>1. 0 \in S
    <3> HIDE DEF V
    <3> QED
      BY <1>1, <1>4, <1>8
  <2>2. \A k \in 1..n : k - 1 \in S => k \in S
    <3> SUFFICES ASSUME NEW k \in 1..n, k - 1 \in S PROVE k \in S
      OBVIOUS
    <3>1. bytes[k - 1] \in V /\ k \in 0..n
      BY <1>1
    <3> QED
      BY <1>3, <1>8, <3>1
  <2> HIDE DEF S
  <2>3. \A k \in 0..n : k \in S
    BY <1>1, <2>1, <2>2, BoundedInduction
  <2> QED
    BY <2>3 DEF S
<1>10. bytes \in [0..n -> V]
  BY <1>8, <1>9
<1> QED
  BY <1>2, <1>8, <1>10 DEF n, Grow

\* Each part of an array begins with the parts before it.
LEMMA UptoGrows ==
    ASSUME NEW levels \in Seq(SentLevels), NEW k \in 1..Len(levels)
    PROVE  LET u == Upto(levels)
               l == levels[k]
           IN  /\ Len(u[k - 1]) \in Nat
               /\ Len(u[k]) = Len(u[k - 1]) + Len(l.price) + Len(l.amount) + 8
               /\ \A i \in 1..Len(u[k - 1]) : u[k][i] = u[k - 1][i]
               /\ PairBytes(u[k], Len(u[k - 1]), l)
               /\ u[k][Len(u[k])] = Separator(levels, k)
<1> DEFINE l == levels[k]
           P == Len(l.price)
           A == Len(l.amount)
           t == Upto(levels)[k - 1]
           m == Len(t)
           c == Separator(levels, k)
           z == <<c>>
           pair == Pair(l)
           tp == t \o pair
           u == tp \o z
<1>1. l \in SentLevels /\ Len(levels) \in Nat /\ k - 1 \in 0..Len(levels)
  OBVIOUS
<1>2. t \in Seq(Nat) /\ m \in Nat
  <2>1. t \in Seq(Nat)
    BY <1>1, UptoFacts
  <2> QED
    BY <2>1
<1>3. P \in Nat /\ A \in Nat
  BY <1>1, SentFacts
<1>4. /\ pair \in Seq(Nat) /\ Len(pair) = P + A + 7 /\ PairBytes(pair, 0, l)
  BY <1>1, PairFacts
<1>5. z \in Seq(Nat) /\ Len(z) = 1 /\ z[1] = c
  BY DEF Separator, CLOSE, COMMA
<1>6. Upto(levels)[k] = u
  BY UptoFacts
<1> HIDE DEF l, P, A, t, c, z, pair
<1>7. /\ tp \in Seq(Nat) /\ Len(tp) = m + Len(pair)
      /\ \A j \in 1..m : tp[j] = t[j]
      /\ \A j \in 1..Len(pair) : tp[m + j] = pair[j]
  BY <1>2, <1>4, ConcatFacts
<1> HIDE DEF tp
<1>8. /\ u \in Seq(Nat) /\ Len(u) = Len(tp) + Len(z)
      /\ \A j \in 1..Len(tp) : u[j] = tp[j]
      /\ \A j \in 1..Len(z) : u[Len(tp) + j] = z[j]
  BY <1>5, <1>7, ConcatFacts
<1> HIDE DEF u, m
<1>9. Len(u) = m + P + A + 8 /\ u[Len(u)] = c
  <2>1. Len(tp) + 1 = Len(u) /\ 1 \in 1..Len(z) /\ Len(u) = m + P + A + 8
    BY <1>2, <1>3, <1>4, <1>5, <1>7, <1>8
  <2> QED
    BY <1>5, <1>8, <2>1
<1>10. \A i \in 1..m : u[i] = t[i]
  <2>1. \A i \in 1..m : i \in 1..Len(tp)
    BY <1>2, <1>3, <1>4, <1>7
  <2> QED
    BY <1>7, <1>8, <2>1
<1>11. \A j \in 1..(P + A + 7) : u[m + j] = pair[j]
  <2>1. \A j \in 1..(P + A + 7) : m + j \in 1..Len(tp) /\ j \in 1..Len(pair)
    BY <1>2, <1>3, <1>4, <1>7
  <2> QED
    BY <1>7, <1>8, <2>1
<1>12. PairBytes(u, m, l)
  <2>1. /\ 1 \in 1..(P + A + 7) /\ 2 \in 1..(P + A + 7)
        /\ P + 3 \in 1..(P + A + 7) /\ P + 4 \in 1..(P + A + 7) /\ P + 5 \in 1..(P + A + 7)
        /\ P + A + 6 \in 1..(P + A + 7) /\ P + A + 7 \in 1..(P + A + 7)
        /\ \A j \in 1..P : 2 + j \in 1..(P + A + 7)
        /\ \A j \in 1..A : P + 5 + j \in 1..(P + A + 7)
    BY <1>3
  <2>2. /\ u[m + 1] = pair[1] /\ u[m + 2] = pair[2]
        /\ u[m + (P + 3)] = pair[P + 3] /\ u[m + (P + 4)] = pair[P + 4]
        /\ u[m + (P + 5)] = pair[P + 5] /\ u[m + (P + A + 6)] = pair[P + A + 6]
        /\ u[m + (P + A + 7)] = pair[P + A + 7]
        /\ \A j \in 1..P : u[m + (2 + j)] = pair[2 + j]
        /\ \A j \in 1..A : u[m + (P + 5 + j)] = pair[P + 5 + j]
    BY <1>11, <2>1
  <2>3. /\ m + (P + 3) = m + P + 3 /\ m + (P + 4) = m + P + 4 /\ m + (P + 5) = m + P + 5
        /\ m + (P + A + 6) = m + P + A + 6 /\ m + (P + A + 7) = m + P + A + 7
        /\ \A j \in 1..P : m + (2 + j) = m + 2 + j
        /\ \A j \in 1..A : m + (P + 5 + j) = m + P + 5 + j
    BY <1>2, <1>3
  <2>4. /\ pair[1] = OPEN /\ pair[2] = QUOTE
        /\ \A j \in 1..P : pair[2 + j] = l.price[j]
        /\ pair[P + 3] = QUOTE /\ pair[P + 4] = COMMA /\ pair[P + 5] = QUOTE
        /\ \A j \in 1..A : pair[P + 5 + j] = l.amount[j]
        /\ pair[P + A + 6] = QUOTE /\ pair[P + A + 7] = CLOSE
    <3>1. /\ 0 + 1 = 1 /\ 0 + 2 = 2
          /\ 0 + P + 3 = P + 3 /\ 0 + P + 4 = P + 4 /\ 0 + P + 5 = P + 5
          /\ 0 + P + A + 6 = P + A + 6 /\ 0 + P + A + 7 = P + A + 7
          /\ \A j \in 1..P : 0 + 2 + j = 2 + j
          /\ \A j \in 1..A : 0 + P + 5 + j = P + 5 + j
      BY <1>3
    <3> QED
      BY <1>4, <3>1 DEF PairBytes, P, A
  <2> QED
    BY <2>2, <2>3, <2>4 DEF PairBytes, P, A
<1> QED
  BY <1>2, <1>6, <1>9, <1>10, <1>12 DEF m, t, l, P, A, c

\* An array, byte by byte: where each level stands and what follows it.
LEMMA ArrayFacts ==
    ASSUME NEW levels \in Seq(SentLevels)
    PROVE  LET w == ArrayText(levels)
               u == Upto(levels)
           IN  /\ w \in Seq(Nat) /\ Len(w) \in Nat /\ Len(w) >= 2 /\ w[1] = OPEN
               /\ levels = <<>> => Len(w) = 2 /\ w[2] = CLOSE
               /\ Len(u[0]) = 1
               /\ \A k \in 1..Len(levels) :
                     /\ Len(u[k - 1]) \in Nat
                     /\ Len(u[k]) = Len(u[k - 1]) + Len(levels[k].price)
                                        + Len(levels[k].amount) + 8
                     /\ Len(u[k]) <= Len(w)
                     /\ PairBytes(w, Len(u[k - 1]), levels[k])
                     /\ w[Len(u[k])] = Separator(levels, k)
<1> DEFINE w == ArrayText(levels)
           u == Upto(levels)
           n == Len(levels)
<1>1. /\ n \in Nat /\ \A k \in 1..n : levels[k] \in SentLevels
      /\ (levels = <<>> <=> n = 0)
  OBVIOUS
<1>2. u \in [0..n -> Seq(Nat)] /\ u[0] = <<OPEN>>
  BY UptoFacts
<1>3. Len(u[0]) = 1 /\ u[0][1] = OPEN
  BY <1>2
<1>4. \A k \in 1..n : /\ Len(u[k - 1]) \in Nat
                      /\ Len(u[k]) = Len(u[k - 1]) + Len(levels[k].price)
                                         + Len(levels[k].amount) + 8
                      /\ \A i \in 1..Len(u[k - 1]) : u[k][i] = u[k - 1][i]
                      /\ PairBytes(u[k], Len(u[k - 1]), levels[k])
                      /\ u[k][Len(u[k])] = Separator(levels, k)
  BY UptoGrows
<1>5. CASE n = 0
  <2>1. w = <<OPEN, CLOSE>>
    BY <1>1, <1>5 DEF ArrayText
  <2>2. w \in Seq(Nat) /\ Len(w) = 2 /\ w[1] = OPEN /\ w[2] = CLOSE
    BY <2>1 DEF OPEN, CLOSE
  <2> HIDE DEF w, u
  <2> QED
    BY <1>1, <1>3, <1>5, <2>2 DEF w, u
<1>6. CASE n # 0
  <2>1. w = u[n] /\ n \in 0..n /\ 0 \in 0..n
    BY <1>1, <1>6 DEF ArrayText
  <2> HIDE DEF w, u
  <2>2. \A k \in 0..n : Len(u[k]) \in Nat
    BY <1>2
  <2>3. \A k \in 1..n : /\ Len(levels[k].price) \in Nat /\ Len(levels[k].amount) \in Nat
    BY <1>1, SentFacts
  <2>4. \A k \in 1..n : /\ Len(u[k - 1]) <= Len(u[k])
                        /\ \A i \in 1..Len(u[k - 1]) : u[k][i] = u[k - 1][i]
    <3> SUFFICES ASSUME NEW k \in 1..n
                 PROVE  /\ Len(u[k - 1]) <= Len(u[k])
                        /\ \A i \in 1..Len(u[k - 1]) : u[k][i] = u[k - 1][i]
      OBVIOUS
    <3> DEFINE P == Len(levels[k].price)
               A == Len(levels[k].amount)
               m == Len(u[k - 1])
    <3>1. /\ P \in Nat /\ A \in Nat /\ m \in Nat /\ Len(u[k]) = m + P + A + 8
          /\ \A i \in 1..m : u[k][i] = u[k - 1][i]
      BY <1>4, <2>3
    <3> HIDE DEF P, A, m
    <3>2. m <= Len(u[k])
      BY <3>1
    <3> QED
      BY <3>1, <3>2 DEF m
  <2>5. \A k \in 0..n : /\ Len(u[k]) <= Len(w)
                        /\ \A i \in 1..Len(u[k]) : w[i] = u[k][i]
    <3> SUFFICES ASSUME NEW k \in 0..n
                 PROVE  /\ Len(u[k]) <= Len(w)
                        /\ \A i \in 1..Len(u[k]) : w[i] = u[k][i]
      OBVIOUS
    <3>1. k <= n /\ n \in 0..n /\ n \in Nat
      BY <1>1
    <3> HIDE DEF n
    <3>2. Len(u[k]) <= Len(u[n]) /\ \A i \in 1..Len(u[k]) : u[n][i] = u[k][i]
      <4>1. Grows(u, n)
        BY <2>2, <2>4 DEF Grows
      <4>2. Begins(u, k, n)
        BY <3>1, <4>1, PrefixChain
      <4> QED
        BY <4>2 DEF Begins
    <3> QED
      BY <2>1, <3>2
  <2>6. w \in Seq(Nat) /\ Len(w) \in Nat
    BY <1>2, <2>1
  <2>7. w[1] = OPEN
    <3>1. 1 \in 1..Len(u[0])
      BY <1>3
    <3> QED
      BY <1>3, <2>1, <2>5, <3>1
  <2>8. ASSUME NEW k \in 1..n
        PROVE  PairBytes(w, Len(u[k - 1]), levels[k]) /\ w[Len(u[k])] = Separator(levels, k)
    <3> DEFINE P == Len(levels[k].price)
               A == Len(levels[k].amount)
               m == Len(u[k - 1])
    <3>1. P \in Nat /\ A \in Nat /\ m \in Nat /\ Len(u[k]) = m + P + A + 8
      BY <1>4, <2>3
    <3>2. \A i \in 1..(m + P + A + 8) : w[i] = u[k][i]
      <4>1. k \in 0..n
        BY <1>1
      <4>2. \A i \in 1..Len(u[k]) : w[i] = u[k][i]
        BY <2>5, <4>1
      <4> QED
        BY <3>1, <4>2
    <3>3. PairBytes(u[k], m, levels[k]) /\ u[k][Len(u[k])] = Separator(levels, k)
      BY <1>4
    <3>4. /\ m + 1 \in 1..(m + P + A + 8) /\ m + 2 \in 1..(m + P + A + 8)
          /\ m + P + 3 \in 1..(m + P + A + 8) /\ m + P + 4 \in 1..(m + P + A + 8)
          /\ m + P + 5 \in 1..(m + P + A + 8) /\ m + P + A + 6 \in 1..(m + P + A + 8)
          /\ m + P + A + 7 \in 1..(m + P + A + 8) /\ m + P + A + 8 \in 1..(m + P + A + 8)
          /\ \A j \in 1..P : m + 2 + j \in 1..(m + P + A + 8)
          /\ \A j \in 1..A : m + P + 5 + j \in 1..(m + P + A + 8)
      <4> HIDE DEF P, A, m
      <4> QED
        BY <3>1
    <3>5. w[Len(u[k])] = Separator(levels, k)
      BY <3>1, <3>2, <3>3, <3>4
    <3>6. PairBytes(w, m, levels[k])
      BY <3>2, <3>3, <3>4 DEF PairBytes
    <3> QED
      BY <3>5, <3>6
  <2>9. Len(w) >= 2
    <3>1. 1 \in 1..n /\ 1 - 1 = 0
      BY <1>1, <1>6
    <3>2. Len(u[1]) = Len(u[0]) + Len(levels[1].price) + Len(levels[1].amount) + 8
      BY <1>4, <3>1
    <3>3. Len(levels[1].price) \in Nat /\ Len(levels[1].amount) \in Nat
      BY <2>3, <3>1
    <3>4. Len(u[1]) <= Len(w)
      <4>1. 1 \in 0..n
        BY <1>1, <1>6
      <4> QED
        BY <2>5, <4>1
    <3> DEFINE P == Len(levels[1].price)
               A == Len(levels[1].amount)
    <3>5. P \in Nat /\ A \in Nat /\ Len(u[1]) = 1 + P + A + 8
      BY <1>3, <3>2, <3>3
    <3> HIDE DEF P, A
    <3> QED
      BY <2>6, <3>4, <3>5
  <2>10. \A k \in 1..n : Len(u[k]) <= Len(w)
    BY <1>1, <2>5
  <2> QED
    BY <1>1, <1>3, <1>4, <1>6, <2>6, <2>7, <2>8, <2>9, <2>10 DEF w, u
<1> QED
  BY <1>5, <1>6

\* A level as it is read.
ReadLevel(l) == [price |-> Parse(l.price), amount |-> Parse(l.amount)]

\* The levels with an amount, one by one.
LEMMA WithAmountFacts ==
    ASSUME NEW levels \in Seq(SentLevels)
    PROVE  LET kept == WithAmount(levels)
               V == {ReadLevel(levels[k]) : k \in 1..Len(levels)}
           IN  /\ kept \in [0..Len(levels) -> Seq(V)] /\ kept[0] = <<>>
               /\ \A k \in 1..Len(levels) :
                     kept[k] = IF Parse(levels[k].amount) = 0 THEN kept[k - 1]
                               ELSE Append(kept[k - 1], ReadLevel(levels[k]))
<1> DEFINE n == Len(levels)
           R == {ReadLevel(levels[k]) : k \in 1..n}
           V == Seq(R)
           Grow(t, k) == IF Parse(levels[k].amount) = 0 THEN t
                         ELSE Append(t, ReadLevel(levels[k]))
           F(g) == [k \in 0..n |-> IF k = 0 THEN <<>> ELSE Grow(g[k - 1], k)]
           step == [k \in 1..n |-> [t \in V |-> Grow(t, k)]]
           kept == CHOOSE g : g = F(g)
<1>1. n \in Nat
  OBVIOUS
<1>2. WithAmount(levels) = kept
  BY Zenon DEF WithAmount, ReadLevel
<1> HIDE DEF n
<1>3. ASSUME NEW k \in 1..n, NEW t \in V PROVE Grow(t, k) \in V
  <2>1. ReadLevel(levels[k]) \in R
    OBVIOUS
  <2> HIDE DEF R
  <2> QED
    BY <2>1
<1> HIDE DEF Grow
<1>4. step \in [1..n -> [V -> V]] /\ <<>> \in V
  <2>1. <<>> \in V
    OBVIOUS
  <2> HIDE DEF V
  <2> QED
    BY <1>3, <2>1
<1>5. PICK g \in [0..n -> V] : g[0] = <<>> /\ \A k \in 1..n : g[k] = step[k][g[k - 1]]
  <2> DEFINE first == <<>>
  <2> HIDE DEF step, V
  <2>1. first \in V /\ step \in [1..n -> [V -> V]] /\ n \in Nat
    BY <1>1, <1>4
  <2> HIDE DEF first
  <2>2. \E g : Steps(g, n, V, first, step)
    BY <2>1, RecursionExists
  <2> QED
    BY <2>2 DEF first, Steps
<1> HIDE DEF V
<1>6. g = F(g)
  <2>1. ASSUME NEW k \in 1..n PROVE g[k] = Grow(g[k - 1], k)
    <3>1. k - 1 \in 0..n
      BY <1>1
    <3>2. g[k - 1] \in V
      BY <3>1
    <3> QED
      BY <1>5, <3>2
  <2>2. \A k \in 0..n : g[k] = IF k = 0 THEN <<>> ELSE Grow(g[k - 1], k)
    <3>1. \A k \in 0..n : k # 0 => k \in 1..n
      BY <1>1
    <3> QED
      BY <1>5, <2>1, <3>1
  <2> QED
    BY <2>2
<1>7. kept = F(kept)
  <2> HIDE DEF F
  <2> QED
    BY <1>6, Zenon
<1> HIDE DEF kept
<1>8. /\ kept[0] = <<>> /\ \A k \in 1..n : kept[k] = Grow(kept[k - 1], k)
      /\ kept = [k \in 0..n |-> kept[k]]
  <2>1. \A k \in 0..n : kept[k] = IF k = 0 THEN <<>> ELSE Grow(kept[k - 1], k)
    BY <1>7
  <2>2. 0 \in 0..n /\ \A k \in 1..n : k \in 0..n /\ k # 0
    BY <1>1
  <2>3. kept = [k \in 0..n |-> kept[k]]
    BY <1>7
  <2> QED
    BY <2>1, <2>2, <2>3
<1>9. \A k \in 0..n : kept[k] \in V
  <2> DEFINE S == {k \in 0..n : kept[k] \in V}
  <2>1. 0 \in S
    BY <1>1, <1>4, <1>8
  <2>2. \A k \in 1..n : k - 1 \in S => k \in S
    <3> SUFFICES ASSUME NEW k \in 1..n, k - 1 \in S PROVE k \in S
      OBVIOUS
    <3>1. kept[k - 1] \in V /\ k \in 0..n
      BY <1>1
    <3> QED
      BY <1>3, <1>8, <3>1
  <2> HIDE DEF S
  <2>3. \A k \in 0..n : k \in S
    BY <1>1, <2>1, <2>2, BoundedInduction
  <2> QED
    BY <2>3 DEF S
<1>10. kept \in [0..n -> V]
  BY <1>8, <1>9
<1> QED
  BY <1>2, <1>8, <1>10 DEF n, Grow, V, R

\* The side that is expected: what has been kept when it is full, or when no
\* level is left.
LEMMA ExpectedFacts ==
    ASSUME NEW levels \in Seq(SentLevels), NEW k \in 0..Len(levels),
           \/ Len(WithAmount(levels)[k]) = Depth
           \/ k = Len(levels) /\ Len(WithAmount(levels)[k]) <= Depth
    PROVE  Expected(levels) = WithAmount(levels)[k]
<1> DEFINE n == Len(levels)
           V == {ReadLevel(levels[j]) : j \in 1..n}
           u == WithAmount(levels)
           last == u[n]
           m == IF Len(last) < Depth THEN Len(last) ELSE Depth
<1>1. n \in Nat /\ n \in 0..n /\ k <= n
  OBVIOUS
<1>2. u \in [0..n -> Seq(V)]
  BY WithAmountFacts
<1>3. \A j \in 1..n : u[j] = u[j - 1] \/ \E x \in V : u[j] = Append(u[j - 1], x)
  BY WithAmountFacts
<1>4. Expected(levels) = SubSeq(last, 1, m)
  BY DEF Expected
<1>5. Depth \in Nat
  BY WalkerAssumption, Zenon
<1> HIDE DEF u, V, n
<1>6. \A j \in 1..n : /\ Len(u[j - 1]) <= Len(u[j])
                      /\ \A i \in 1..Len(u[j - 1]) : u[j][i] = u[j - 1][i]
  <2> SUFFICES ASSUME NEW j \in 1..n
               PROVE  /\ Len(u[j - 1]) <= Len(u[j])
                      /\ \A i \in 1..Len(u[j - 1]) : u[j][i] = u[j - 1][i]
    OBVIOUS
  <2> DEFINE t == u[j - 1]
  <2>1. t \in Seq(V)
    BY <1>1, <1>2
  <2>2. u[j] = t \/ \E x \in V : u[j] = Append(t, x)
    BY <1>3
  <2> HIDE DEF t
  <2>3. Len(t) <= Len(u[j]) /\ \A i \in 1..Len(t) : u[j][i] = t[i]
    BY <2>1, <2>2, SMTT(30)
  <2> QED
    BY <2>3 DEF t
<1>7. Len(u[k]) <= Len(last) /\ \A i \in 1..Len(u[k]) : last[i] = u[k][i]
  <2>1. \A j \in 0..n : Len(u[j]) \in Nat
    BY <1>2
  <2>2. Grows(u, n)
    BY <1>6, <2>1 DEF Grows
  <2>3. k \in 0..n
    BY DEF n
  <2>4. Begins(u, k, n)
    BY <1>1, <2>2, <2>3, PrefixChain
  <2> QED
    BY <2>4 DEF Begins
<1>8. u[k] \in Seq(V) /\ last \in Seq(V)
  BY <1>1, <1>2 DEF n
<1>9. m = Len(u[k])
  BY <1>5, <1>7, <1>8 DEF u, n
<1> HIDE DEF last, m
<1>10. SubSeq(last, 1, m) = u[k]
  <2> DEFINE t == u[k]
  <2> HIDE DEF t
  <2>1. t \in Seq(V) /\ last \in Seq(V) /\ m = Len(t) /\ Len(t) <= Len(last)
        /\ \A i \in 1..Len(t) : last[i] = t[i]
    BY <1>7, <1>8, <1>9 DEF t
  <2>2. Len(SubSeq(last, 1, m)) = Len(t) /\ SubSeq(last, 1, m) \in Seq(V)
    BY <2>1
  <2>3. \A i \in 1..Len(t) : SubSeq(last, 1, m)[i] = t[i]
    BY <2>1
  <2>4. SubSeq(last, 1, m) = t
    BY <2>1, <2>2, <2>3
  <2> QED
    BY <2>4 DEF t
<1> QED
  BY <1>4, <1>10 DEF u

-----------------------------------------------------------------------------
(* What a frame may be                                                      *)

\* What the assumption says of the frame.
LEMMA FrameFacts ==
    ASSUME frame \in Inputs
    PROVE  /\ frame.handler \in {"binance", "bitstamp"}
           /\ frame.sent.bids \in Seq(SentLevels) /\ frame.sent.asks \in Seq(SentLevels)
           /\ frame.sent.number \in Payload
           /\ Delivered(frame) /\ (frame.intact => WellFormed(frame))
<1>1. FrameOK(frame) /\ Delivered(frame) /\ (frame.intact => WellFormed(frame))
  BY WalkerAssumption, DeliveryAssumption, Zenon
<1> QED
  BY <1>1 DEF FrameOK, SentBooks

\* The bytes of the array that is read, around level k.
LEMMA WireFacts ==
    ASSUME frame \in Inputs, side \in {"bids", "asks"}
    PROVE  LET sent == frame.sent[side]
               w == Wire(side)
               u == Upto(sent)
           IN  /\ sent \in Seq(SentLevels) /\ w \in Seq(Nat) /\ Len(w) \in Nat
               /\ Len(w) >= 2 /\ w[1] = OPEN
               /\ sent = <<>> => Len(w) = 2 /\ w[2] = CLOSE
               /\ Len(u[0]) = 1
               /\ \A k \in 1..Len(sent) :
                     /\ Len(u[k - 1]) \in Nat
                     /\ Len(u[k]) = Len(u[k - 1]) + Len(sent[k].price)
                                        + Len(sent[k].amount) + 8
                     /\ Len(u[k]) <= Len(w)
                     /\ PairBytes(w, Len(u[k - 1]), sent[k])
                     /\ w[Len(u[k])] = Separator(sent, k)
<1>1. frame.sent[side] \in Seq(SentLevels)
  BY FrameFacts
<1> DEFINE sent == frame.sent[side]
<1>2. Wire(side) = ArrayText(sent)
  BY DEF Wire
<1> HIDE DEF sent
<1> QED
  BY <1>1, <1>2, ArrayFacts DEF sent

\* The byte that stands where the array goes on is the one that was sent,
\* unless it is none that an array has.
LEMMA Agreement ==
    ASSUME frame \in Inputs, side \in {"bids", "asks"},
           NEW p \in Behind(buf, KeyOf(side)), NEW n \in Nat, n < Len(Wire(side)),
           Same(p, n), NEW c, At(p + n, c), c \notin {ESC, WS, ANY}
    PROVE  c = Wire(side)[n + 1] /\ Same(p, n + 1)
<1> DEFINE w == Wire(side)
<1>1. Arrives(buf, p, w)
  BY FrameFacts DEF Delivered, KeyOf, Wire, buf
<1>2. Len(w) \in Nat /\ Len(buf) \in Nat /\ p \in Nat
  BY WireFacts, BufFacts DEF Behind
<1> HIDE DEF w
<1>3. n + 1 \in 1..Len(w) /\ p + (n + 1) - 1 = p + n /\ (n + 1) - 1 = n
  BY <1>2 DEF w
<1>4. \/ Holds(buf, p + n, w[n + 1]) \/ Breaks(buf, p + n)
      \/ \E j \in 1..n : ~Holds(buf, p + j - 1, w[j])
  BY <1>1, <1>3 DEF Arrives
<1>5. ~\E j \in 1..n : ~Holds(buf, p + j - 1, w[j])
  BY DEF Same, At, w
<1>6. p + n \in 1..Len(buf) /\ buf[p + n] = c
  BY BufFacts
<1>7. ~Breaks(buf, p + n)
  <2>1. p + n # Len(buf) + 1
    BY <1>2, <1>6
  <2>2. ASSUME NEW d \in {ESC, WS, ANY}, Holds(buf, p + n, d) PROVE FALSE
    BY <1>6, <2>2 DEF Holds
  <2> QED
    BY <2>1, <2>2 DEF Breaks
<1>8. Holds(buf, p + n, w[n + 1])
  BY <1>4, <1>5, <1>7
<1>9. c = w[n + 1]
  BY <1>6, <1>8 DEF Holds
<1>10. Same(p, n + 1)
  <2> SUFFICES ASSUME NEW i \in 1..(n + 1) PROVE At(p + i - 1, w[i])
    BY DEF Same, w
  <2>1. CASE i = n + 1
    BY <1>3, <1>8, <2>1 DEF At
  <2>2. CASE i \in 1..n
    BY <2>2 DEF Same, w
  <2> QED
    BY <2>1, <2>2
<1> QED
  BY <1>9, <1>10 DEF w

\* In a frame that is intact the arrays stand as they were sent, bids before
\* asks, and their texts are decimals.
LEMMA IntactArray ==
    ASSUME frame \in Inputs, frame.intact, side \in {"bids", "asks"},
           NEW p \in Behind(buf, KeyOf(side))
    PROVE  /\ \A i \in 1..Len(Wire(side)) : At(p + i - 1, Wire(side)[i])
           /\ \A k \in 1..Len(frame.sent[side]) :
                 /\ Parse(frame.sent[side][k].price) # None
                 /\ Parse(frame.sent[side][k].amount) # None
           /\ side = "bids" => \A q \in Behind(buf, ASKS) : p + Len(Wire(side)) <= q - 4
<1>1. WellFormed(frame)
  BY FrameFacts
<1>2. /\ \E x \in Behind(buf, BIDS), q \in Behind(buf, ASKS) :
            /\ Behind(buf, BIDS) = {x} /\ Behind(buf, ASKS) = {q}
            /\ Stands(buf, x, ArrayText(frame.sent.bids))
            /\ x + Len(ArrayText(frame.sent.bids)) <= q - 4
            /\ Stands(buf, q, ArrayText(frame.sent.asks))
      /\ \A s \in {frame.sent.bids, frame.sent.asks} : \A k \in 1..Len(s) :
            Parse(s[k].price) # None /\ Parse(s[k].amount) # None
  BY <1>1, Zenon DEF WellFormed, buf
<1>3. PICK x \in Behind(buf, BIDS), q \in Behind(buf, ASKS) :
            /\ Behind(buf, BIDS) = {x} /\ Behind(buf, ASKS) = {q}
            /\ Stands(buf, x, ArrayText(frame.sent.bids))
            /\ x + Len(ArrayText(frame.sent.bids)) <= q - 4
            /\ Stands(buf, q, ArrayText(frame.sent.asks))
  BY <1>2
<1>4. CASE side = "bids"
  <2>1. p = x
    BY <1>3, <1>4 DEF KeyOf
  <2> QED
    BY <1>2, <1>3, <1>4, <2>1 DEF Wire, Stands, At
<1>5. CASE side = "asks"
  <2>1. p = q
    BY <1>3, <1>5 DEF KeyOf, BIDS, ASKS
  <2> QED
    BY <1>2, <1>3, <1>5, <2>1 DEF Wire, Stands, At
<1> QED
  BY <1>4, <1>5

-----------------------------------------------------------------------------
(* Reading an array                                                         *)

\* What a step has to leave of a level, in terms of the frame it leaves alone.
LEMMA ArrayAfter ==
    ASSUME frame' = frame, side' = side, pc' # "array",
           NEW p \in Behind(buf, KeyOf(side)), NEW k \in 1..Len(frame.sent[side]),
           pos' \in p..(p + Len(Wire(side))), Same(p, pos' - p),
           LET sent == frame.sent[side]
               l == sent[k]
               o == LevelAt(p, k)
               text == IF field' = "price" THEN o + 2 ELSE o + Len(l.price) + 5
           IN  /\ book'[side] = WithAmount(sent)[IF pc' = "next" THEN k ELSE k - 1]
               /\ pc' # "next" => Len(book'[side]) < Depth
               /\ pc' = "level" => pos' = o
               /\ pc' = "quote" => pos' = text - 1
               /\ pc' \in {"int", "frac", "close"} =>
                     num'.from = text /\ pos' <= num'.from + Len(l[field'])
               /\ pc' = "comma" => field' = "price" /\ pos' = o + Len(l.price) + 3
               /\ pc' = "pair" => field' = "amount"
                                  /\ pos' = o + Len(l.price) + Len(l.amount) + 6
               /\ pc' = "next" => pos' = o + Len(l.price) + Len(l.amount) + 7
               /\ pc' = "comma" \/ (field' = "amount" /\ pc' # "level") =>
                     level'.price = Parse(l.price)
               /\ pc' = "pair" => level'.amount = Parse(l.amount)
    PROVE  ArrayInv'
<1>1. buf' = buf /\ KeyOf(side)' = KeyOf(side) /\ Wire(side)' = Wire(side)
  BY DEF buf, KeyOf, Wire
<1>2. Same(p, pos - p)'
  BY <1>1 DEF Same, At
<1>3. LevelAt(p, k)' = LevelAt(p, k)
  BY DEF LevelAt
<1>4. Spot(p, k)'
  BY <1>3 DEF Spot, TextAt, Reading
<1>5. k \in 1..Len(frame.sent[side])'
  OBVIOUS
<1> QED
  BY <1>1, <1>2, <1>4, <1>5 DEF ArrayInv

\* Where the scanner is in the array, in offsets from its place.
LEMMA SpotFacts ==
    ASSUME frame \in Inputs, side \in {"bids", "asks"}, field \in {"price", "amount"},
           NEW p \in Behind(buf, KeyOf(side)), NEW k \in 1..Len(frame.sent[side])
    PROVE  LET l == frame.sent[side][k]
               m == Len(Upto(frame.sent[side])[k - 1])
               P == Len(l.price)
               A == Len(l.amount)
               w == Wire(side)
           IN  /\ p \in Nat /\ m \in Nat /\ P \in Nat /\ A \in Nat /\ Len(w) \in Nat
               /\ l \in SentLevels /\ l.price \in Seq(Nat) /\ l.amount \in Seq(Nat)
               /\ LevelAt(p, k) = p + m /\ m + P + A + 8 <= Len(w)
               /\ Len(Upto(frame.sent[side])[k]) = m + P + A + 8
               /\ PairBytes(w, m, l) /\ w[m + P + A + 8] = Separator(frame.sent[side], k)
<1> DEFINE sent == frame.sent[side]
           l == sent[k]
           m == Len(Upto(sent)[k - 1])
           P == Len(l.price)
           A == Len(l.amount)
           w == Wire(side)
<1>1. sent \in Seq(SentLevels) /\ Len(w) \in Nat
  BY WireFacts
<1>2. /\ m \in Nat /\ Len(Upto(sent)[k]) = m + P + A + 8 /\ Len(Upto(sent)[k]) <= Len(w)
      /\ PairBytes(w, m, l) /\ w[Len(Upto(sent)[k])] = Separator(sent, k)
  BY WireFacts
<1>3. l \in SentLevels
  BY <1>1
<1>4. P \in Nat /\ A \in Nat /\ l.price \in Seq(Nat) /\ l.amount \in Seq(Nat)
  BY <1>3, SentFacts
<1>5. p \in Nat
  BY BufFacts DEF Behind
<1>6. LevelAt(p, k) = p + m
  BY DEF LevelAt
<1> HIDE DEF sent, l, m, P, A, w
<1>7. m + P + A + 8 <= Len(w) /\ w[m + P + A + 8] = Separator(sent, k)
  BY <1>2
<1> QED
  BY <1>1, <1>2, <1>3, <1>4, <1>5, <1>6, <1>7 DEF sent, l, m, P, A, w

\* The bytes that tell an array's parts apart.
LEMMA ByteFacts ==
    /\ \A c \in Digits \cup {DOT, QUOTE, COMMA, OPEN, CLOSE} : c \notin {ESC, WS, ANY}
    /\ OPEN # CLOSE /\ COMMA # CLOSE /\ QUOTE \notin Digits /\ DOT # QUOTE /\ DOT \notin Digits
    /\ QUOTE # ESC /\ QUOTE # WS /\ QUOTE # ANY /\ PLUS \notin Digits
    /\ \A c \in {ESC, WS, ANY} : c \notin Digits /\ c # PLUS
  BY DEF Digits, DOT, QUOTE, COMMA, OPEN, CLOSE, ESC, WS, ANY, PLUS

\* The bracket of a level.
LEMMA OpenLevelArray == ASSUME IInv, PosInv, ArrayInv, OpenLevel PROVE ArrayInv'
<1>1. /\ frame' = frame /\ side' = side /\ pc = "level" /\ pc' = "quote" /\ field' = "price"
      /\ pos' = pos + 1 /\ At(pos, OPEN) /\ book' = book /\ level' = level
      /\ frame \in Inputs /\ side \in {"bids", "asks"} /\ field \in {"price", "amount"}
  BY DEF OpenLevel, IInv, PosInv
<1>2. PICK p \in Behind(buf, KeyOf(side)) :
          /\ pos \in p..(p + Len(Wire(side))) /\ Same(p, pos - p)
          /\ \/ \E k \in 1..Len(frame.sent[side]) : Spot(p, k)
             \/ pos = p + 1 /\ frame.sent[side] = <<>>
  BY <1>1 DEF ArrayInv, InArray
<1>3. p \in Nat /\ OPEN \notin {ESC, WS, ANY} /\ OPEN # CLOSE
  BY <1>1, ByteFacts, BufFacts DEF Behind
<1>4. CASE pos = p + 1 /\ frame.sent[side] = <<>>
  <2>1. Len(Wire(side)) = 2 /\ Wire(side)[2] = CLOSE
    BY <1>1, <1>4, WireFacts
  <2>2. Same(p, 1) /\ At(p + 1, OPEN) /\ 1 < Len(Wire(side)) /\ 1 + 1 = 2
    <3>1. pos - p = 1
      BY <1>3, <1>4
    <3> QED
      BY <1>1, <1>2, <1>4, <2>1, <3>1
  <2>3. OPEN = Wire(side)[1 + 1]
    BY <1>1, <1>3, <2>2, Agreement
  <2> QED
    BY <1>3, <2>1, <2>2, <2>3
<1>5. ASSUME NEW k \in 1..Len(frame.sent[side]), Spot(p, k) PROVE ArrayInv'
  <2> DEFINE sent == frame.sent[side]
             l == sent[k]
             m == Len(Upto(sent)[k - 1])
             P == Len(l.price)
             A == Len(l.amount)
             w == Wire(side)
  <2>1. /\ m \in Nat /\ P \in Nat /\ A \in Nat /\ Len(w) \in Nat
        /\ LevelAt(p, k) = p + m /\ m + P + A + 8 <= Len(w)
    BY <1>1, SpotFacts
  <2>2. /\ pos = LevelAt(p, k) /\ book[side] = WithAmount(sent)[k - 1]
        /\ Len(book[side]) < Depth
    BY <1>1, <1>5 DEF Spot
  <2> HIDE DEF m, P, A, w
  <2>3. pos - p = m /\ pos = p + m /\ m < Len(w)
    BY <1>3, <2>1, <2>2
  <2>4. Same(p, m + 1)
    BY <1>1, <1>2, <1>3, <2>1, <2>3, Agreement DEF w
  <2>5. /\ pos' \in p..(p + Len(w)) /\ pos' - p = m + 1
        /\ pos' = (LevelAt(p, k) + 2) - 1
    <3>1. pos' = p + m + 1 /\ LevelAt(p, k) = p + m
      BY <1>1, <2>1, <2>3
    <3>2. p \in Nat /\ m \in Nat /\ Len(w) \in Nat /\ m < Len(w)
      BY <1>3, <2>1, <2>3
    <3> QED
      BY <3>1, <3>2
  <2> QED
    BY <1>1, <2>2, <2>4, <2>5, ArrayAfter DEF w
<1> QED
  BY <1>2, <1>4, <1>5

\* The walk reads level k of the array at p.
Reads(p, k) ==
    /\ p \in Behind(buf, KeyOf(side)) /\ k \in 1..Len(frame.sent[side])
    /\ pos \in p..(p + Len(Wire(side))) /\ Same(p, pos - p) /\ Spot(p, k)

\* Within the levels there is one.
LEMMA ReadsLevel ==
    ASSUME ArrayInv, pc \in {"quote", "int", "frac", "close", "comma", "pair", "next"}
    PROVE  \E p, k : Reads(p, k)
<1>1. PICK p \in Behind(buf, KeyOf(side)) :
          /\ pos \in p..(p + Len(Wire(side))) /\ Same(p, pos - p)
          /\ \E k \in 1..Len(frame.sent[side]) : Spot(p, k)
  BY DEF ArrayInv, InArray
<1> QED
  BY <1>1 DEF Reads

\* A step over a byte of the array.
LEMMA StepFacts ==
    ASSUME frame \in Inputs, side \in {"bids", "asks"}, NEW p, NEW k, Reads(p, k),
           pos - p < Len(Wire(side)), NEW c, At(pos, c), c \notin {ESC, WS, ANY}
    PROVE  /\ c = Wire(side)[pos - p + 1] /\ Same(p, (pos + 1) - p)
           /\ pos + 1 \in p..(p + Len(Wire(side)))
<1> DEFINE n == pos - p
           w == Wire(side)
<1>1. p \in Nat /\ Len(w) \in Nat
  BY BufFacts, WireFacts DEF Reads, Behind
<1>2. pos \in p..(p + Len(w)) /\ Same(p, n) /\ p \in Behind(buf, KeyOf(side))
  BY DEF Reads
<1>3. n \in Nat /\ pos = p + n /\ n < Len(w)
  BY <1>1, <1>2
<1> HIDE DEF n, w
<1>4. c = w[n + 1] /\ Same(p, n + 1)
  BY <1>2, <1>3, Agreement DEF w
<1>5. (pos + 1) - p = n + 1 /\ pos + 1 \in p..(p + Len(w))
  BY <1>1, <1>3
<1> QED
  BY <1>4, <1>5 DEF n, w

\* The quote of a text.
LEMMA OpenQuoteArray == ASSUME IInv, PosInv, ArrayInv, OpenQuote PROVE ArrayInv'
<1>1. /\ frame' = frame /\ side' = side /\ pc = "quote" /\ pc' = "int" /\ field' = field
      /\ pos' = pos + 1 /\ At(pos, QUOTE) /\ book' = book /\ level' = level
      /\ num'.from = pos + 1
      /\ frame \in Inputs /\ side \in {"bids", "asks"} /\ field \in {"price", "amount"}
  BY DEF OpenQuote, IInv, PosInv, Zero
<1>2. PICK p, k : Reads(p, k)
  BY <1>1, ReadsLevel
<1> DEFINE sent == frame.sent[side]
           l == sent[k]
           m == Len(Upto(sent)[k - 1])
           P == Len(l.price)
           A == Len(l.amount)
           w == Wire(side)
           o == LevelAt(p, k)
           text == IF field = "price" THEN o + 2 ELSE o + P + 5
           L == Len(l[field])
<1>3. /\ p \in Behind(buf, KeyOf(side)) /\ k \in 1..Len(sent)
      /\ pos = text - 1 /\ book[side] = WithAmount(sent)[k - 1] /\ Len(book[side]) < Depth
      /\ field = "amount" => level.price = Parse(l.price)
  BY <1>1, <1>2 DEF Reads, Spot, TextAt
<1>4. /\ p \in Nat /\ m \in Nat /\ P \in Nat /\ A \in Nat /\ Len(w) \in Nat
      /\ o = p + m /\ m + P + A + 8 <= Len(w)
  BY <1>1, <1>3, SpotFacts
<1>5. L \in Nat
  BY <1>1, <1>4
<1>6. QUOTE \notin {ESC, WS, ANY}
  BY ByteFacts
<1> HIDE DEF m, P, A, w, o, L
<1>7. pos - p < Len(w) /\ pos' = text /\ pos' <= num'.from + L /\ num'.from = text
  <2>1. text \in Nat /\ text - 1 - p < Len(w)
    BY <1>4
  <2> HIDE DEF text
  <2> QED
    BY <1>1, <1>3, <1>5, <2>1
<1>8. Same(p, pos' - p) /\ pos' \in p..(p + Len(w))
  BY <1>1, <1>2, <1>6, <1>7, StepFacts DEF w
<1> HIDE DEF text
<1> QED
  BY <1>1, <1>3, <1>7, <1>8, ArrayAfter DEF text, o, P, w, L

\* In a text the scanner is before its end, at a byte of it, or at its quote.
LEMMA InText ==
    ASSUME frame \in Inputs, side \in {"bids", "asks"}, field \in {"price", "amount"},
           Reading, NEW p, NEW k, Reads(p, k)
    PROVE  LET t == frame.sent[side][k][field]
               w == Wire(side)
           IN  /\ num.from \in Nat /\ pos \in Nat /\ Len(t) \in Nat /\ p \in Nat
               /\ t \in Seq(Nat) /\ p <= num.from /\ pos <= num.from + Len(t)
               /\ num.from + Len(t) - p < Len(w) /\ Len(w) \in Nat
               /\ \A j \in 1..Len(t) : w[num.from - p + j] = t[j] /\ t[j] # QUOTE
               /\ w[num.from - p + Len(t) + 1] = QUOTE
<1> DEFINE sent == frame.sent[side]
           l == sent[k]
           t == l[field]
           m == Len(Upto(sent)[k - 1])
           P == Len(l.price)
           A == Len(l.amount)
           w == Wire(side)
           o == LevelAt(p, k)
           text == IF field = "price" THEN o + 2 ELSE o + P + 5
<1>1. /\ p \in Behind(buf, KeyOf(side)) /\ k \in 1..Len(sent)
      /\ num.from = text /\ pos <= num.from + Len(t) /\ pos \in p..(p + Len(w))
  BY DEF Reads, Spot, TextAt
<1>2. /\ p \in Nat /\ m \in Nat /\ P \in Nat /\ A \in Nat /\ Len(w) \in Nat
      /\ o = p + m /\ m + P + A + 8 <= Len(w) /\ PairBytes(w, m, l)
      /\ l \in SentLevels /\ l.price \in Seq(Nat) /\ l.amount \in Seq(Nat)
  BY <1>1, SpotFacts
<1>3. /\ \A j \in 1..P : l.price[j] # QUOTE /\ w[m + 2 + j] = l.price[j]
      /\ \A j \in 1..A : l.amount[j] # QUOTE /\ w[m + P + 5 + j] = l.amount[j]
      /\ w[m + P + 3] = QUOTE /\ w[m + P + A + 6] = QUOTE
  BY <1>2, SentFacts DEF PairBytes
<1>4. pos \in Nat
  BY <1>1, <1>2
<1>5. CASE field = "price"
  <2>1. t = l.price /\ Len(t) = P
    BY <1>5
  <2> HIDE DEF t, l, m, P, A, w, o
  <2>2. /\ num.from \in Nat /\ p <= num.from /\ num.from + P - p < Len(w)
        /\ num.from - p = m + 2 /\ num.from - p + P + 1 = m + P + 3
    BY <1>1, <1>2, <1>5
  <2>3. w[num.from - p + P + 1] = QUOTE
    BY <1>3, <2>2
  <2>4. \A j \in 1..P : w[num.from - p + j] = l.price[j] /\ l.price[j] # QUOTE
    BY <1>3, <2>2
  <2>5. t \in Seq(Nat) /\ pos <= num.from + P
    BY <1>1, <1>2, <2>1
  <2>6. /\ num.from \in Nat /\ pos \in Nat /\ Len(t) \in Nat /\ p \in Nat
        /\ t \in Seq(Nat) /\ p <= num.from /\ pos <= num.from + Len(t)
        /\ num.from + Len(t) - p < Len(w) /\ Len(w) \in Nat
        /\ \A j \in 1..Len(t) : w[num.from - p + j] = t[j] /\ t[j] # QUOTE
        /\ w[num.from - p + Len(t) + 1] = QUOTE
    BY <1>2, <1>4, <2>1, <2>2, <2>3, <2>4, <2>5
  <2> QED
    BY <2>6 DEF t, l, w
<1>6. CASE field = "amount"
  <2>1. t = l.amount /\ Len(t) = A
    BY <1>6
  <2> HIDE DEF t, l, m, P, A, w, o
  <2>2. /\ num.from \in Nat /\ p <= num.from /\ num.from + A - p < Len(w)
        /\ num.from - p = m + P + 5 /\ num.from - p + A + 1 = m + P + A + 6
    BY <1>1, <1>2, <1>6
  <2>3. w[num.from - p + A + 1] = QUOTE
    BY <1>3, <2>2
  <2>4. \A j \in 1..A : w[num.from - p + j] = l.amount[j] /\ l.amount[j] # QUOTE
    BY <1>3, <2>2
  <2>5. t \in Seq(Nat) /\ pos <= num.from + A
    BY <1>1, <1>2, <2>1
  <2>6. /\ num.from \in Nat /\ pos \in Nat /\ Len(t) \in Nat /\ p \in Nat
        /\ t \in Seq(Nat) /\ p <= num.from /\ pos <= num.from + Len(t)
        /\ num.from + Len(t) - p < Len(w) /\ Len(w) \in Nat
        /\ \A j \in 1..Len(t) : w[num.from - p + j] = t[j] /\ t[j] # QUOTE
        /\ w[num.from - p + Len(t) + 1] = QUOTE
    BY <1>2, <1>4, <2>1, <2>2, <2>3, <2>4, <2>5
  <2> QED
    BY <2>6 DEF t, l, w
<1> QED
  BY <1>5, <1>6

\* A byte that is no quote is one of the text, and a quote is the one behind it.
LEMMA TextStep ==
    ASSUME frame \in Inputs, side \in {"bids", "asks"}, field \in {"price", "amount"},
           Reading, num.from <= pos, NEW p, NEW k, Reads(p, k),
           NEW c \in Digits \cup {DOT, QUOTE}, At(pos, c)
    PROVE  LET t == frame.sent[side][k][field] IN
           /\ Same(p, (pos + 1) - p) /\ pos + 1 \in p..(p + Len(Wire(side)))
           /\ IF c = QUOTE THEN pos = num.from + Len(t)
              ELSE pos + 1 <= num.from + Len(t)
<1> DEFINE t == frame.sent[side][k][field]
           w == Wire(side)
           f == num.from
           n == Len(t)
<1>1. /\ f \in Nat /\ pos \in Nat /\ n \in Nat /\ p \in Nat
      /\ p <= f /\ f <= pos /\ pos <= f + n /\ f + n - p < Len(w) /\ Len(w) \in Nat
      /\ \A j \in 1..n : w[f - p + j] = t[j] /\ t[j] # QUOTE
      /\ w[f - p + n + 1] = QUOTE
  BY InText
<1>2. c \notin {ESC, WS, ANY}
  BY ByteFacts
<1> HIDE DEF t, w, f, n
<1>3. pos - p < Len(w)
  BY <1>1
<1>4. /\ c = w[pos - p + 1] /\ Same(p, (pos + 1) - p)
      /\ pos + 1 \in p..(p + Len(w))
  BY <1>2, <1>3, StepFacts DEF w
<1>5. ASSUME c = QUOTE, pos # f + n PROVE FALSE
  <2> DEFINE j == pos - f + 1
  <2>1. j \in 1..n /\ f - p + j = pos - p + 1
    BY <1>1, <1>5
  <2> HIDE DEF j
  <2> QED
    BY <1>1, <1>4, <1>5, <2>1
<1>6. ASSUME c # QUOTE, pos = f + n PROVE FALSE
  <2>1. f - p + n + 1 = pos - p + 1
    BY <1>1, <1>6
  <2> QED
    BY <1>1, <1>4, <1>6, <2>1
<1>7. IF c = QUOTE THEN pos = f + n ELSE pos + 1 <= f + n
  BY <1>1, <1>5, <1>6
<1> QED
  BY <1>4, <1>7 DEF t, w, f, n

\* A step within a text.
LEMMA TextArray ==
    ASSUME IInv, PosInv, DecimalInv, ArrayInv, Reading,
           UNCHANGED <<frame, side, field, book, level>>, num'.from = num.from,
           pc' \in {"int", "frac", "close"},
           pos' = pos \/ (pos' = pos + 1 /\ \E c \in Digits \cup {DOT} : At(pos, c))
    PROVE  ArrayInv'
<1>1. /\ frame' = frame /\ side' = side /\ field' = field /\ book' = book /\ level' = level
      /\ frame \in Inputs /\ side \in {"bids", "asks"} /\ field \in {"price", "amount"}
      /\ NumInv /\ ReadInv /\ pc \in {"int", "frac", "close"}
  BY DEF IInv, PosInv, DecimalInv, Reading
<1>2. PICK p, k : Reads(p, k)
  BY <1>1, ReadsLevel
<1> DEFINE sent == frame.sent[side]
           l == sent[k]
           n == Len(l[field])
           o == LevelAt(p, k)
           text == IF field = "price" THEN o + 2 ELSE o + Len(l.price) + 5
<1>3. /\ p \in Behind(buf, KeyOf(side)) /\ k \in 1..Len(sent)
      /\ pos \in p..(p + Len(Wire(side))) /\ Same(p, pos - p)
      /\ num.from = text /\ pos <= num.from + n
      /\ book[side] = WithAmount(sent)[k - 1] /\ Len(book[side]) < Depth
      /\ field = "amount" => level.price = Parse(l.price)
  BY <1>1, <1>2 DEF Reads, Spot, TextAt, Reading
<1>4. num.from <= pos
  BY <1>1, ReadingFacts
<1>5. /\ pos' \in p..(p + Len(Wire(side))) /\ Same(p, pos' - p)
      /\ pos' <= num'.from + n
  <2>1. CASE pos' = pos
    BY <1>3, <2>1
  <2>2. ASSUME pos' = pos + 1, NEW c \in Digits \cup {DOT}, At(pos, c)
        PROVE  /\ pos' \in p..(p + Len(Wire(side))) /\ Same(p, pos' - p)
               /\ pos' <= num'.from + n
    <3>1. c \in Digits \cup {DOT, QUOTE} /\ c # QUOTE
      BY ByteFacts
    <3> QED
      BY <1>1, <1>2, <1>4, <2>2, <3>1, TextStep
  <2> QED
    BY <2>1, <2>2
<1> HIDE DEF text, n
<1> QED
  BY <1>1, <1>3, <1>5, ArrayAfter DEF text, n

\* The digits of a text and its dot.
LEMMA DigitsArray ==
    ASSUME IInv, PosInv, DecimalInv, ArrayInv, IntDigit \/ EndInt \/ FracDigit \/ EndFrac,
           pc' # "done"
    PROVE  ArrayInv'
<1>1. /\ UNCHANGED <<frame, side, field, book, level>> /\ frame \in Inputs
      /\ Reading /\ pc' \in {"int", "frac", "close"}
      /\ pos' = pos \/ (pos' = pos + 1 /\ (At(pos, DOT) \/ (pos # End /\ buf[pos] \in Digits)))
  BY DEF IntDigit, EndInt, FracDigit, EndFrac, FracEnd, IntEnd, FracByteOk, Return,
         Reading, PosInv
<1>2. num'.from = num.from
  BY DEF IntDigit, EndInt, FracDigit, EndFrac, IInv, NumInv
<1>3. ASSUME pos # End, buf[pos] \in Digits PROVE At(pos, buf[pos])
  <2>1. NumInv /\ ReadInv
    BY DEF IInv, DecimalInv
  <2>2. pos \in num.from..End /\ num.from \in 1..End /\ End = Len(buf) + 1 /\ Len(buf) \in Nat
    <3>1. num.from \in 1..End /\ num.from <= pos /\ pos <= End /\ pos \in Nat /\ num.from \in Nat
      BY <1>1, <2>1, ReadingFacts
    <3> QED
      BY <1>1, <3>1, BufFacts
  <2>3. pos \in 1..Len(buf)
    BY <1>3, <2>2
  <2> QED
    BY <1>1, <2>3, BufFacts
<1>4. pos' = pos \/ (pos' = pos + 1 /\ \E c \in Digits \cup {DOT} : At(pos, c))
  BY <1>1, <1>3
<1> QED
  BY <1>1, <1>2, <1>4, TextArray

\* A text that has arrived with its quote is the one that was sent.
LEMMA TextIsSent ==
    ASSUME frame \in Inputs, side \in {"bids", "asks"}, field \in {"price", "amount"},
           Reading, num.from \in 1..End, NEW p, NEW k, Reads(p, k),
           Same(p, num.from + Len(frame.sent[side][k][field]) - p + 1)
    PROVE  LET t == frame.sent[side][k][field] IN
           Text = t /\ TextEnd = num.from + Len(t) /\ At(TextEnd, QUOTE)
<1> DEFINE t == frame.sent[side][k][field]
           w == Wire(side)
           f == num.from
           n == Len(t)
           e == TextEnd
<1>1. /\ f \in Nat /\ n \in Nat /\ p \in Nat /\ t \in Seq(Nat) /\ p <= f
      /\ \A j \in 1..n : w[f - p + j] = t[j] /\ t[j] # QUOTE
      /\ w[f - p + n + 1] = QUOTE
  BY InText
<1>2. \A i \in 1..(f + n - p + 1) : At(p + i - 1, w[i])
  BY DEF Same
<1>3. /\ e \in f..End /\ (e = End \/ At(e, QUOTE))
      /\ \A q \in f..End : At(q, QUOTE) => e <= q
      /\ Text \in Seq(Nat) /\ Len(Text) = e - f
      /\ \A j \in 1..(e - f) : Text[j] = buf[f + j - 1]
  BY TextFacts
<1>4. /\ End = Len(buf) + 1 /\ Len(buf) \in Nat /\ f \in 1..End
      /\ \A q, c : At(q, c) <=> q \in 1..Len(buf) /\ buf[q] = c
  BY BufFacts
<1> HIDE DEF t, w, f, n, e
<1>5. At(f + n, QUOTE)
  <2>1. f - p + n + 1 \in 1..(f + n - p + 1) /\ p + (f - p + n + 1) - 1 = f + n
    BY <1>1
  <2> QED
    BY <1>1, <1>2, <2>1
<1>6. \A j \in 1..n : At(f + j - 1, t[j]) /\ t[j] # QUOTE
  <2> SUFFICES ASSUME NEW j \in 1..n PROVE At(f + j - 1, t[j]) /\ t[j] # QUOTE
    OBVIOUS
  <2>1. f - p + j \in 1..(f + n - p + 1) /\ p + (f - p + j) - 1 = f + j - 1
    BY <1>1
  <2>2. At(p + (f - p + j) - 1, w[f - p + j])
    BY <1>2, <2>1
  <2> QED
    BY <1>1, <2>1, <2>2
<1>7. e = f + n
  <2>1. f + n \in 1..Len(buf)
    BY <1>4, <1>5
  <2>2. e <= f + n /\ e \in Nat /\ f <= e
    <3>1. f + n \in f..End
      BY <1>1, <1>4, <2>1
    <3>2. e <= f + n
      BY <1>3, <1>5, <3>1
    <3> QED
      BY <1>1, <1>3, <1>4, <3>2
  <2>3. ASSUME e < f + n PROVE FALSE
    <3> DEFINE j == e - f + 1
    <3>1. j \in 1..n /\ f + j - 1 = e /\ e # End
      BY <1>1, <1>4, <2>1, <2>2, <2>3
    <3> HIDE DEF j
    <3>2. At(e, t[j]) /\ t[j] # QUOTE /\ At(e, QUOTE)
      BY <1>3, <1>6, <3>1
    <3> QED
      BY <1>4, <3>2
  <2> QED
    BY <1>1, <2>2, <2>3
<1>8. Len(Text) = n /\ \A j \in 1..n : Text[j] = t[j]
  <2>1. e - f = n
    BY <1>1, <1>7
  <2> QED
    BY <1>3, <1>4, <1>6, <2>1
<1>9. Text = t
  <2> DEFINE x == Text
  <2> HIDE DEF x
  <2>1. x \in Seq(Nat) /\ t \in Seq(Nat) /\ Len(x) = Len(t) /\ \A j \in 1..Len(t) : x[j] = t[j]
    BY <1>1, <1>3, <1>8 DEF x, n
  <2>2. x = t
    BY <2>1
  <2> QED
    BY <2>2 DEF x
<1>10. At(e, QUOTE)
  BY <1>5, <1>7
<1> QED
  BY <1>7, <1>9, <1>10 DEF t, f, n, e

\* The closing quote: the word is what parse makes of the text that was sent.
LEMMA CloseQuoteArray ==
    ASSUME IInv, PosInv, DecimalInv, ArrayInv, CloseQuote, pc' # "done"
    PROVE  ArrayInv'
<1>1. /\ frame' = frame /\ side' = side /\ field' = field /\ book' = book
      /\ pc = "close" /\ pc' = (IF field = "price" THEN "comma" ELSE "pair")
      /\ pos' = pos + 1 /\ level' = [level EXCEPT ![field] = Decimal] /\ Decimal # None
      /\ frame \in Inputs /\ side \in {"bids", "asks"} /\ field \in {"price", "amount"}
      /\ NumInv /\ ReadInv /\ level \in Levels /\ Reading
  BY DEF CloseQuote, Return, IInv, PosInv, DecimalInv, Reading
<1>2. At(pos, QUOTE)
  BY <1>1 DEF Decimal
<1>3. PICK p, k : Reads(p, k)
  BY <1>1, ReadsLevel
<1> DEFINE sent == frame.sent[side]
           l == sent[k]
           t == l[field]
           o == LevelAt(p, k)
           P == Len(l.price)
           A == Len(l.amount)
           text == IF field = "price" THEN o + 2 ELSE o + P + 5
<1>4. /\ p \in Behind(buf, KeyOf(side)) /\ k \in 1..Len(sent) /\ num.from = text
      /\ book[side] = WithAmount(sent)[k - 1] /\ Len(book[side]) < Depth
      /\ field = "amount" => level.price = Parse(l.price)
  BY <1>1, <1>3 DEF Reads, Spot, TextAt
<1>5. num.from <= pos /\ num.from \in 1..End
  BY <1>1, ReadingFacts
<1>6. /\ Same(p, (pos + 1) - p) /\ pos + 1 \in p..(p + Len(Wire(side)))
      /\ pos = num.from + Len(t)
  BY <1>1, <1>2, <1>3, <1>5, TextStep
<1>7. num.from \in Nat /\ Len(t) \in Nat /\ p \in Nat
  BY <1>1, <1>3, InText
<1>8. Same(p, num.from + Len(t) - p + 1)
  <2> DEFINE n == Len(t)
             f == num.from
  <2>1. f \in Nat /\ n \in Nat /\ p \in Nat /\ pos = f + n /\ Same(p, (pos + 1) - p)
    BY <1>6, <1>7
  <2> HIDE DEF n, f
  <2>2. (pos + 1) - p = f + n - p + 1
    BY <2>1
  <2>3. Same(p, f + n - p + 1)
    BY <2>1, <2>2
  <2> QED
    BY <2>3 DEF n, f
<1>9. Text = t /\ At(TextEnd, QUOTE)
  BY <1>1, <1>3, <1>5, <1>8, TextIsSent
<1>10. Decimal = Parse(t)
  BY <1>1, <1>9, CloseValue
<1>11. P \in Nat /\ A \in Nat /\ o \in Nat
  <2> DEFINE m == Len(Upto(sent)[k - 1])
  <2>1. P \in Nat /\ A \in Nat /\ o = p + m /\ p \in Nat /\ m \in Nat
    BY <1>1, <1>4, SpotFacts
  <2> HIDE DEF m
  <2> QED
    BY <2>1
<1>12. CASE field = "price"
  <2>1. level'.price = Parse(l.price)
    BY <1>1, <1>10, <1>12 DEF Levels
  <2>2. Len(t) = P
    BY <1>12
  <2> HIDE DEF o, P, A
  <2>3. pos' = o + P + 3
    BY <1>1, <1>4, <1>6, <1>11, <1>12, <2>2
  <2> QED
    BY <1>1, <1>4, <1>6, <1>12, <2>1, <2>3, ArrayAfter DEF o, P
<1>13. CASE field = "amount"
  <2>1. level'.price = Parse(l.price) /\ level'.amount = Parse(l.amount)
    BY <1>1, <1>4, <1>10, <1>13 DEF Levels
  <2>2. Len(t) = A
    BY <1>13
  <2> HIDE DEF o, P, A
  <2>3. pos' = o + P + A + 6
    BY <1>1, <1>4, <1>6, <1>11, <1>13, <2>2
  <2> QED
    BY <1>1, <1>4, <1>6, <1>13, <2>1, <2>3, ArrayAfter DEF o, P, A
<1> QED
  BY <1>1, <1>12, <1>13

\* The comma between price and amount.
LEMMA PriceCommaArray == ASSUME IInv, PosInv, ArrayInv, PriceComma PROVE ArrayInv'
<1>1. /\ frame' = frame /\ side' = side /\ pc = "comma" /\ pc' = "quote" /\ field' = "amount"
      /\ pos' = pos + 1 /\ At(pos, COMMA) /\ book' = book /\ level' = level
      /\ frame \in Inputs /\ side \in {"bids", "asks"} /\ field \in {"price", "amount"}
  BY DEF PriceComma, IInv, PosInv
<1>2. PICK p, k : Reads(p, k)
  BY <1>1, ReadsLevel
<1> DEFINE sent == frame.sent[side]
           l == sent[k]
           m == Len(Upto(sent)[k - 1])
           P == Len(l.price)
           A == Len(l.amount)
           w == Wire(side)
           o == LevelAt(p, k)
<1>3. /\ p \in Behind(buf, KeyOf(side)) /\ k \in 1..Len(sent)
      /\ pos = o + P + 3 /\ book[side] = WithAmount(sent)[k - 1] /\ Len(book[side]) < Depth
      /\ level.price = Parse(l.price)
  BY <1>1, <1>2 DEF Reads, Spot
<1>4. /\ p \in Nat /\ m \in Nat /\ P \in Nat /\ A \in Nat /\ Len(w) \in Nat
      /\ o = p + m /\ m + P + A + 8 <= Len(w)
  BY <1>1, <1>3, SpotFacts
<1>5. COMMA \notin {ESC, WS, ANY}
  BY ByteFacts
<1> HIDE DEF m, P, A, w, o
<1>6. pos - p < Len(w) /\ pos' = (o + P + 5) - 1
  BY <1>1, <1>3, <1>4
<1>7. Same(p, pos' - p) /\ pos' \in p..(p + Len(w))
  BY <1>1, <1>2, <1>5, <1>6, StepFacts DEF w
<1> QED
  BY <1>1, <1>3, <1>6, <1>7, ArrayAfter DEF o, P, w

\* The bracket behind a level: a level with an amount is kept.
LEMMA CloseLevelArray ==
    ASSUME IInv, PosInv, ArrayInv, CloseLevel
    PROVE  ArrayInv' /\ pc' = "next" /\ side' = side
           /\ \A s \in {"bids", "asks"} : s # side => book'[s] = book[s]
<1>1. /\ frame' = frame /\ pc = "pair" /\ field' = field
      /\ pos' = pos + 1 /\ At(pos, CLOSE) /\ level' = level
      /\ frame \in Inputs /\ side \in {"bids", "asks"} /\ field \in {"price", "amount"}
      /\ level \in Levels /\ BookInv
  BY DEF CloseLevel, IInv, PosInv
<1>2. PICK p, k : Reads(p, k)
  BY <1>1, ReadsLevel
<1> DEFINE sent == frame.sent[side]
           l == sent[k]
           m == Len(Upto(sent)[k - 1])
           P == Len(l.price)
           A == Len(l.amount)
           w == Wire(side)
           o == LevelAt(p, k)
<1>3. /\ p \in Behind(buf, KeyOf(side)) /\ k \in 1..Len(sent)
      /\ pos = o + P + A + 6 /\ book[side] = WithAmount(sent)[k - 1]
      /\ Len(book[side]) < Depth
      /\ level.price = Parse(l.price) /\ level.amount = Parse(l.amount)
  BY <1>1, <1>2 DEF Reads, Spot
<1>4. /\ p \in Nat /\ m \in Nat /\ P \in Nat /\ A \in Nat /\ Len(w) \in Nat
      /\ o = p + m /\ m + P + A + 8 <= Len(w) /\ sent \in Seq(SentLevels)
  BY <1>1, <1>3, SpotFacts, WireFacts
<1>5. CLOSE \notin {ESC, WS, ANY} /\ Len(book[side]) # Depth
  <2>1. Len(book[side]) \in Nat /\ Depth \in Nat
    BY <1>1, WalkerAssumption DEF BookInv, SideOK
  <2> QED
    BY <1>3, <2>1, ByteFacts
<1>6. /\ pc' = "next" /\ side' = side
      /\ book' = [book EXCEPT ![side] = IF IsCleared(level) THEN @ ELSE Append(@, level)]
  BY <1>5 DEF CloseLevel
<1>7. /\ book'[side] = IF level.amount = 0 THEN book[side] ELSE Append(book[side], level)
      /\ \A s \in {"bids", "asks"} : s # side => book'[s] = book[s]
  BY <1>1, <1>6 DEF BookInv, IsCleared
<1>8. level = ReadLevel(l)
  BY <1>1, <1>3 DEF Levels, ReadLevel
<1>9. WithAmount(sent)[k] = IF Parse(l.amount) = 0 THEN WithAmount(sent)[k - 1]
                            ELSE Append(WithAmount(sent)[k - 1], ReadLevel(l))
  <2> HIDE DEF sent
  <2> QED
    BY <1>3, <1>4, WithAmountFacts
<1>10. book'[side] = WithAmount(sent)[k]
  BY <1>3, <1>7, <1>8, <1>9
<1> HIDE DEF m, P, A, w, o
<1>11. pos - p < Len(w) /\ pos' = o + P + A + 7
  BY <1>1, <1>3, <1>4
<1>12. Same(p, pos' - p) /\ pos' \in p..(p + Len(w))
  BY <1>1, <1>2, <1>5, <1>11, StepFacts DEF w
<1>13. ArrayInv'
  BY <1>1, <1>3, <1>6, <1>10, <1>11, <1>12, ArrayAfter DEF o, P, A, w
<1> QED
  BY <1>6, <1>7, <1>13

-----------------------------------------------------------------------------
(* From array to array                                                      *)

\* A step that stays within an array, and leaves the other side alone.
LEMMA SidesStay ==
    ASSUME IInv, RetInv, SidesInv, pc \notin {"done", "number"},
           frame' = frame, side' = side, ret' = ret, InArray',
           \A s \in {"bids", "asks"} : s # side => book'[s] = book[s]
    PROVE  SidesInv' /\ IntactInv'
<1>1. /\ pc' \notin {"number", "seek", "finish", "done"} /\ ret' # "some"
      /\ side \in {"bids", "asks"}
  BY DEF InArray, RetInv, IInv
<1>2. side = "bids" => book'.asks = <<>>
  BY DEF SidesInv
<1>3. side = "asks" => SideRead("bids")'
  BY DEF SidesInv, SideRead
<1> QED
  BY <1>1, <1>2, <1>3 DEF SidesInv, IntactInv

\* A step that gives up on a damaged frame.
LEMMA SidesRefuse ==
    ASSUME IInv, SidesInv, ~frame.intact, UNCHANGED <<frame, side, book>>,
           pc' = "done", ret' \in {"none", "panic"}
    PROVE  ArrayInv' /\ SidesInv' /\ IntactInv'
<1>1. side = "asks" => SideRead("bids")'
  BY DEF SidesInv, SideRead
<1> QED
  BY <1>1 DEF ArrayInv, InArray, SidesInv, IntactInv

\* A step that ends a side.
LEMMA SideEnds ==
    ASSUME IInv, RetInv, SidesInv, pc \notin {"done", "number"},
           UNCHANGED <<frame, book, ret>>, EndSide, SideRead(side),
           frame.intact /\ side = "bids" => \A q \in Behind(buf, ASKS) : pos' + 4 <= q
    PROVE  ArrayInv' /\ SidesInv' /\ IntactInv'
<1>1. frame' = frame /\ book' = book /\ ret' # "some" /\ side \in {"bids", "asks"}
  BY DEF RetInv, IInv
<1>2. SideRead(side)' <=> (\/ book[side'] = Expected(frame.sent[side'])
                           \/ frame.handler = "bitstamp" /\ ~frame.intact /\ book[side'] = <<>>)
  BY <1>1 DEF SideRead
<1>3. buf' = buf
  BY <1>1 DEF buf
<1>4. CASE side = "bids"
  <2>1. side' = "asks" /\ pc' = "seek" /\ book'.asks = <<>>
    BY <1>1, <1>4 DEF EndSide, SidesInv
  <2>2. SideRead("bids")'
    BY <1>1, <1>4 DEF SideRead
  <2>3. SidesInv'
    BY <1>1, <2>1, <2>2 DEF SidesInv
  <2>4. IntactInv'
    BY <1>1, <1>3, <1>4, <2>1 DEF IntactInv, KeyOf
  <2> QED
    BY <2>1, <2>3, <2>4 DEF ArrayInv, InArray
<1>5. CASE side = "asks"
  <2>1. side' = "asks" /\ pc' = "finish"
    BY <1>5 DEF EndSide
  <2>2. SideRead("bids")' /\ SideRead("asks")'
    BY <1>1, <1>5 DEF SideRead, SidesInv
  <2> QED
    BY <2>1, <2>2 DEF SidesInv, IntactInv, ArrayInv, InArray
<1> QED
  BY <1>1, <1>4, <1>5

\* The end of an array whose levels have been read as far as they fit.
LEMMA ArrayEnds ==
    ASSUME IInv, PosInv, RetInv, SidesInv, pc \notin {"done", "number"},
           UNCHANGED <<frame, book, ret>>, EndSide,
           NEW p \in Behind(buf, KeyOf(side)), pos' \in p..(p + Len(Wire(side))),
           book[side] = Expected(frame.sent[side])
    PROVE  ArrayInv' /\ SidesInv' /\ IntactInv'
<1>1. frame \in Inputs /\ side \in {"bids", "asks"}
  BY DEF IInv, PosInv
<1>2. SideRead(side)
  BY DEF SideRead
<1>3. ASSUME frame.intact, side = "bids", NEW q \in Behind(buf, ASKS) PROVE pos' + 4 <= q
  <2>1. p + Len(Wire(side)) <= q - 4
    BY <1>1, <1>3, IntactArray
  <2>2. p \in Nat /\ q \in Nat /\ Len(Wire(side)) \in Nat
    BY <1>1, BufFacts, WireFacts DEF Behind
  <2> DEFINE n == Len(Wire(side))
             x == pos'
  <2>3. x \in p..(p + n) /\ p + n <= q - 4 /\ n \in Nat
    BY <2>1, <2>2
  <2> HIDE DEF n, x
  <2>4. x + 4 <= q
    BY <2>2, <2>3
  <2> QED
    BY <2>4 DEF x
<1> QED
  BY <1>2, <1>3, SideEnds

\* What has been kept of the levels up to k.
LEMMA KeptFacts ==
    ASSUME IInv, frame \in Inputs
    PROVE  /\ Depth \in Nat \ {0} /\ side \in {"bids", "asks"}
           /\ Len(book[side]) \in Nat /\ Len(book[side]) <= Depth
           /\ frame.sent[side] \in Seq(SentLevels)
<1>1. Depth \in Nat \ {0}
  BY WalkerAssumption, Zenon
<1>2. side \in {"bids", "asks"} /\ SideOK(book[side])
  BY DEF IInv, BookInv
<1>3. frame.sent[side] \in Seq(SentLevels)
  BY <1>2, WireFacts
<1> QED
  BY <1>1, <1>2, <1>3 DEF SideOK

\* Behind a level: a comma and the next level, or the end because the side is
\* full; or the bracket behind the last.
LEMMA NextLevelArray ==
    ASSUME IInv, PosInv, RetInv, ArrayInv, SidesInv, NextLevel \/ CloseArray
    PROVE  ArrayInv' /\ SidesInv' /\ IntactInv'
<1>1. /\ UNCHANGED <<frame, field, book, level, ret>> /\ pc = "next" /\ pos' = pos + 1
      /\ frame \in Inputs /\ side \in {"bids", "asks"} /\ field \in {"price", "amount"}
      /\ pc \notin {"done", "number"}
  BY DEF NextLevel, CloseArray, IInv, PosInv
<1>2. PICK p, k : Reads(p, k)
  BY <1>1, ReadsLevel
<1> DEFINE sent == frame.sent[side]
           l == sent[k]
           m == Len(Upto(sent)[k - 1])
           P == Len(l.price)
           A == Len(l.amount)
           w == Wire(side)
           o == LevelAt(p, k)
           kept == WithAmount(sent)[k]
           next == Len(Upto(sent)[k])
<1>3. /\ p \in Behind(buf, KeyOf(side)) /\ k \in 1..Len(sent)
      /\ pos = o + P + A + 7 /\ book[side] = kept
  BY <1>1, <1>2 DEF Reads, Spot
<1>4. /\ p \in Nat /\ m \in Nat /\ P \in Nat /\ A \in Nat /\ Len(w) \in Nat
      /\ o = p + m /\ m + P + A + 8 <= Len(w) /\ next = m + P + A + 8
      /\ w[m + P + A + 8] = Separator(sent, k)
  BY <1>1, <1>3, SpotFacts
<1>5. /\ Depth \in Nat \ {0} /\ Len(kept) \in Nat /\ Len(kept) <= Depth
      /\ sent \in Seq(SentLevels)
  BY <1>1, <1>3, KeptFacts
<1> HIDE DEF m, P, A, w, o, next
<1>6. pos - p < Len(w) /\ pos - p + 1 = m + P + A + 8 /\ pos' = p + next
  <2>1. pos = p + m + P + A + 7 /\ pos' = p + m + P + A + 8
    <3>1. pos = o + P + A + 7 /\ o = p + m /\ pos' = pos + 1
      BY <1>1, <1>3, <1>4
    <3>2. p \in Nat /\ m \in Nat /\ P \in Nat /\ A \in Nat
      BY <1>4
    <3> QED
      BY <3>1, <3>2
  <2>2. /\ p \in Nat /\ m \in Nat /\ P \in Nat /\ A \in Nat /\ Len(w) \in Nat
        /\ m + P + A + 8 <= Len(w) /\ next = m + P + A + 8
    BY <1>4
  <2> QED
    BY <2>1, <2>2
<1>7. ASSUME NEW c \in {COMMA, CLOSE}, At(pos, c)
      PROVE  /\ c = Separator(sent, k) /\ Same(p, pos' - p) /\ pos' \in p..(p + Len(w))
  <2>1. c \notin {ESC, WS, ANY}
    BY ByteFacts
  <2> QED
    BY <1>1, <1>2, <1>4, <1>6, <1>7, <2>1, StepFacts DEF w
<1>8. ASSUME EndSide, Len(kept) = Depth \/ k = Len(sent), pos' \in p..(p + Len(w))
      PROVE  ArrayInv' /\ SidesInv' /\ IntactInv'
  <2>1. k \in 0..Len(sent)
    BY <1>3
  <2>2. Expected(sent) = kept
    <3> HIDE DEF sent
    <3> QED
      BY <1>5, <1>8, <2>1, ExpectedFacts
  <2> QED
    BY <1>1, <1>3, <1>8, <2>2, ArrayEnds DEF w
<1>9. CASE CloseArray
  <2>1. At(pos, CLOSE) /\ EndSide
    BY <1>9 DEF CloseArray
  <2>2. Separator(sent, k) = CLOSE /\ pos' \in p..(p + Len(w))
    BY <1>7, <2>1
  <2>3. k = Len(sent)
    BY <2>2, ByteFacts DEF Separator
  <2> QED
    BY <1>8, <2>1, <2>2, <2>3
<1>10. CASE NextLevel
  <2>1. At(pos, COMMA)
    BY <1>10 DEF NextLevel
  <2>2. COMMA = Separator(sent, k) /\ Same(p, pos' - p) /\ pos' \in p..(p + Len(w))
    BY <1>7, <2>1
  <2>3. CASE Len(kept) = Depth
    <3>1. EndSide
      BY <1>3, <1>10, <2>3 DEF NextLevel
    <3> QED
      BY <1>8, <2>2, <2>3, <3>1
  <2>4. CASE Len(kept) # Depth
    <3>1. pc' = "level" /\ side' = side
      BY <1>3, <1>10, <2>4 DEF NextLevel
    <3>2. k # Len(sent)
      BY <2>2, ByteFacts DEF Separator
    <3>3. k + 1 \in 1..Len(sent) /\ (k + 1) - 1 = k
      BY <1>3, <1>5, <3>2
    <3>4. LevelAt(p, k + 1) = p + next
      BY <3>3 DEF LevelAt, next
    <3>5. Len(kept) < Depth
      BY <1>5, <2>4
    <3> DEFINE j == k + 1
    <3>6. j \in 1..Len(sent) /\ j - 1 = k /\ LevelAt(p, j) = p + next
      BY <3>3, <3>4
    <3> HIDE DEF j
    <3>7. ArrayInv'
      BY <1>1, <1>3, <1>6, <2>2, <3>1, <3>5, <3>6, ArrayAfter DEF w
    <3>8. SidesInv' /\ IntactInv'
      BY <1>1, <3>1, SidesStay DEF InArray
    <3> QED
      BY <3>7, <3>8
  <2> QED
    BY <2>3, <2>4
<1> QED
  BY <1>9, <1>10

\* The bracket of an array: an empty one ends here.
LEMMA OpenArrayArray ==
    ASSUME IInv, PosInv, RetInv, ArrayInv, SidesInv, OpenArray
    PROVE  ArrayInv' /\ SidesInv' /\ IntactInv'
<1>1. /\ UNCHANGED <<frame, field, book, level, ret>> /\ pc = "array" /\ At(pos, OPEN)
      /\ frame \in Inputs /\ side \in {"bids", "asks"} /\ pc \notin {"done", "number"}
  BY DEF OpenArray, IInv, PosInv
<1> DEFINE sent == frame.sent[side]
           w == Wire(side)
<1>2. PICK p \in Behind(buf, KeyOf(side)) :
          pos = p /\ Same(p, pos - p) /\ book[side] = <<>>
  BY <1>1 DEF ArrayInv, InArray
<1>3. /\ p \in Nat /\ Len(w) \in Nat /\ Len(w) >= 2 /\ sent \in Seq(SentLevels)
      /\ sent = <<>> => Len(w) = 2 /\ w[2] = CLOSE
  <2>1. p \in Nat
    BY <1>1, BufFacts DEF Behind
  <2> QED
    BY <1>1, <2>1, WireFacts
<1>4. Same(p, 1)
  <2>1. pos - p = 0 /\ p + 0 = p /\ 0 + 1 = 1 /\ 0 < Len(w) /\ OPEN \notin {ESC, WS, ANY}
    BY <1>2, <1>3, ByteFacts
  <2>2. Same(p, 0) /\ At(p + 0, OPEN)
    BY <1>1, <1>2, <2>1
  <2>3. Same(p, 0 + 1)
    BY <1>1, <2>1, <2>2, Agreement
  <2> QED
    BY <2>1, <2>3
<1>5. sent # <<>> => /\ 1 \in 1..Len(sent) /\ w[2] = OPEN /\ LevelAt(p, 1) = p + 1
  <2> SUFFICES ASSUME sent # <<>>
               PROVE  1 \in 1..Len(sent) /\ w[2] = OPEN /\ LevelAt(p, 1) = p + 1
    OBVIOUS
  <2>1. 1 \in 1..Len(sent) /\ 1 - 1 = 0 /\ 1 + 1 = 2
    BY <1>3
  <2>2. Len(Upto(sent)[0]) = 1 /\ PairBytes(w, Len(Upto(sent)[1 - 1]), sent[1])
    BY <1>1, <2>1, WireFacts
  <2>3. w[2] = OPEN
    BY <2>1, <2>2 DEF PairBytes
  <2>4. LevelAt(p, 1) = p + 1
    BY <2>1, <2>2 DEF LevelAt
  <2> QED
    BY <2>1, <2>3, <2>4
<1>6. /\ WithAmount(sent)[0] = <<>> /\ Len(<<>>) = 0 /\ Depth \in Nat \ {0}
  <2>1. WithAmount(sent)[0] = <<>>
    <3> HIDE DEF sent
    <3> QED
      BY <1>3, WithAmountFacts
  <2>2. Depth \in Nat \ {0}
    BY <1>1, KeptFacts
  <2> QED
    BY <2>1, <2>2
<1> HIDE DEF w
<1>7. CASE At(pos + 1, CLOSE)
  <2>1. pos' = pos + 2 /\ EndSide
    BY <1>7 DEF OpenArray
  <2>2. CLOSE = w[2]
    <3>1. CLOSE \notin {ESC, WS, ANY} /\ 1 < Len(w) /\ 1 + 1 = 2 /\ 1 \in Nat
      BY <1>3, ByteFacts
    <3>2. At(p + 1, CLOSE)
      BY <1>2, <1>7
    <3>3. CLOSE = w[1 + 1]
      BY <1>1, <1>4, <3>1, <3>2, Agreement DEF w
    <3> QED
      BY <3>1, <3>3
  <2>3. sent = <<>>
    BY <1>5, <2>2, ByteFacts
  <2>4. 0 \in 0..Len(sent) /\ 0 = Len(sent)
    BY <2>3
  <2>5. Expected(sent) = <<>>
    <3>1. 0 = Len(sent) /\ Len(WithAmount(sent)[0]) <= Depth
      BY <1>6, <2>4
    <3> HIDE DEF sent
    <3>2. Expected(sent) = WithAmount(sent)[0]
      BY <1>3, <2>4, <3>1, ExpectedFacts
    <3> QED
      BY <1>6, <3>2
  <2>6. pos' \in p..(p + Len(w))
    BY <1>2, <1>3, <2>1
  <2> QED
    BY <1>1, <1>2, <2>1, <2>5, <2>6, ArrayEnds DEF w
<1>8. CASE ~At(pos + 1, CLOSE)
  <2>1. pos' = pos + 1 /\ pc' = "level" /\ side' = side
    BY <1>8 DEF OpenArray
  <2>2. /\ pos' = p + 1 /\ pos' - p = 1 /\ pos' \in p..(p + Len(w))
    BY <1>2, <1>3, <2>1
  <2>3. SidesInv' /\ IntactInv'
    BY <1>1, <2>1, SidesStay DEF InArray
  <2>4. CASE sent = <<>>
    <3>1. ~frame.intact
      <4> SUFFICES ASSUME frame.intact PROVE FALSE
        OBVIOUS
      <4>1. 2 \in 1..Len(w) /\ p + 2 - 1 = pos + 1
        BY <1>2, <1>3
      <4>2. At(p + 2 - 1, w[2])
        BY <1>1, <4>1, IntactArray DEF w
      <4> QED
        BY <1>3, <1>8, <2>4, <4>1, <4>2
    <3>2. buf' = buf /\ KeyOf(side)' = KeyOf(side) /\ Wire(side)' = Wire(side)
      BY <1>1, <2>1 DEF buf, KeyOf, Wire
    <3>3. Same(p, pos - p)'
      BY <1>4, <2>2, <3>2 DEF Same, At
    <3> QED
      BY <1>1, <2>1, <2>2, <2>3, <2>4, <3>1, <3>2, <3>3 DEF ArrayInv, w
  <2>5. CASE sent # <<>>
    <3> DEFINE k == 1
    <3>1. /\ k \in 1..Len(sent) /\ pos' = LevelAt(p, k)
          /\ book'[side] = WithAmount(sent)[k - 1] /\ Len(book'[side]) < Depth
      BY <1>1, <1>2, <1>5, <1>6, <2>2, <2>5
    <3>2. Same(p, pos' - p)
      BY <1>4, <2>2
    <3> HIDE DEF k
    <3> QED
      BY <1>1, <2>1, <2>2, <2>3, <3>1, <3>2, ArrayAfter DEF w
  <2> QED
    BY <2>4, <2>5
<1> QED
  BY <1>7, <1>8

\* Seeking a side: it is found, or missing in a damaged frame.
LEMMA SeekSideArray ==
    ASSUME IInv, PosInv, RetInv, SidesInv, IntactInv, SeekSide
    PROVE  ArrayInv' /\ SidesInv' /\ IntactInv'
<1>1. /\ UNCHANGED <<frame, field, book, level>> /\ pc = "seek"
      /\ frame \in Inputs /\ side \in {"bids", "asks"} /\ pc \notin {"done", "number"}
      /\ book[side] = <<>> /\ pos \in Nat
  BY DEF SeekSide, IInv, PosInv, SidesInv
<1> DEFINE p == Seek(pos, KeyOf(side))
           ends == {q \in Behind(buf, KeyOf(side)) : q - 4 >= pos}
<1>2. p = IF ends = {} THEN None ELSE Min(ends)
  BY DEF Seek
<1>3. ends \subseteq Nat /\ ends \subseteq Behind(buf, KeyOf(side)) /\ None \notin Nat
  BY <1>1, BufFacts DEF Behind, None
<1>4. frame.intact => ends # {} /\ pos <= End
  <2> SUFFICES ASSUME frame.intact PROVE ends # {} /\ pos <= End
    OBVIOUS
  <2>1. WellFormed(frame)
    BY <1>1, FrameFacts
  <2>2. (\E x : x \in Behind(buf, BIDS)) /\ (\E x : x \in Behind(buf, ASKS))
    BY <2>1, Zenon DEF WellFormed, buf
  <2>3. PICK x : x \in Behind(buf, KeyOf(side))
    BY <2>2 DEF KeyOf
  <2>4. pos + 4 <= x
    BY <1>1, <2>3 DEF IntactInv
  <2>5. x \in 5..End /\ End \in Nat
    BY <1>1, <2>3, BufFacts DEF Behind
  <2>6. x - 4 >= pos /\ pos <= End
    BY <1>1, <2>4, <2>5
  <2> QED
    BY <2>3, <2>6
<1> HIDE DEF ends
<1>5. \/ pos > End /\ pc' = "done" /\ ret' = "panic" /\ UNCHANGED <<pos, side>>
      \/ pos <= End /\ p # None /\ pos' = p /\ pc' = "array" /\ UNCHANGED <<side, ret>>
      \/ /\ pos <= End /\ p = None /\ UNCHANGED pos
         /\ IF frame.handler = "binance" THEN pc' = "done" /\ ret' = "none" /\ side' = side
            ELSE EndSide /\ UNCHANGED ret
  BY DEF SeekSide, Return, KeyOf
<1> HIDE DEF p
<1>6. CASE pos > End
  <2>1. ~frame.intact
    BY <1>1, <1>4, <1>6, BufFacts
  <2>2. pc' = "done" /\ ret' = "panic" /\ side' = side
    BY <1>1, <1>5, <1>6, BufFacts
  <2> QED
    BY <1>1, <2>1, <2>2, SidesRefuse
<1>7. CASE pos <= End /\ p # None
  <2>1. PICK x : x = p
    OBVIOUS
  <2>2. /\ pos' = x /\ pc' = "array" /\ side' = side /\ ret' = ret
    BY <1>1, <1>5, <1>7, <2>1, BufFacts
  <2>3. x \in Behind(buf, KeyOf(side)) /\ x \in Nat /\ Len(Wire(side)) \in Nat
    <3>1. x \in ends
      BY <1>2, <1>3, <1>7, <2>1, MinFacts
    <3> QED
      BY <1>1, <1>3, <3>1, WireFacts
  <2>4. buf' = buf /\ KeyOf(side)' = KeyOf(side) /\ Wire(side)' = Wire(side)
    BY <1>1, <2>2 DEF buf, KeyOf, Wire
  <2>5. pos' - x = 0 /\ pos' \in x..(x + Len(Wire(side)))
    BY <2>2, <2>3
  <2>6. Same(x, pos - x)'
    BY <2>5 DEF Same
  <2>7. ArrayInv'
    BY <1>1, <2>2, <2>3, <2>4, <2>5, <2>6 DEF ArrayInv
  <2>8. SidesInv' /\ IntactInv'
    BY <1>1, <2>2, SidesStay DEF InArray
  <2> QED
    BY <2>7, <2>8
<1>8. CASE pos <= End /\ p = None
  <2>1. ~frame.intact
    BY <1>2, <1>3, <1>4, <1>8, MinFacts
  <2>2. /\ UNCHANGED pos
        /\ IF frame.handler = "binance" THEN pc' = "done" /\ ret' = "none" /\ side' = side
           ELSE EndSide /\ UNCHANGED ret
    BY <1>1, <1>5, <1>8, BufFacts
  <2>3. CASE frame.handler = "binance"
    BY <1>1, <2>1, <2>2, <2>3, SidesRefuse
  <2>4. CASE frame.handler # "binance"
    <3>1. SideRead(side)
      BY <1>1, <2>1, <2>4, FrameFacts DEF SideRead
    <3> QED
      BY <1>1, <2>1, <2>2, <2>4, <3>1, SideEnds
  <2> QED
    BY <2>3, <2>4
<1> QED
  BY <1>1, <1>6, <1>7, <1>8, BufFacts

\* In an intact frame the byte at the scanner is the array's.
LEMMA IntactByte ==
    ASSUME frame \in Inputs, frame.intact, side \in {"bids", "asks"},
           NEW p \in Behind(buf, KeyOf(side)), NEW n \in Nat, pos = p + n,
           n < Len(Wire(side))
    PROVE  At(pos, Wire(side)[n + 1])
<1>1. Len(Wire(side)) \in Nat /\ p \in Nat
  BY BufFacts, WireFacts DEF Behind
<1>2. n + 1 \in 1..Len(Wire(side)) /\ p + (n + 1) - 1 = pos
  BY <1>1
<1> QED
  BY <1>2, IntactArray

\* A byte that the walk cannot go on from is none of an intact frame.
LEMMA RejectArray ==
    ASSUME IInv, PosInv, RetInv, ArrayInv, SidesInv, Reject
    PROVE  ArrayInv' /\ SidesInv' /\ IntactInv'
<1>1. /\ UNCHANGED <<frame, side, book>> /\ pc' = "done" /\ ret' = "none"
      /\ frame \in Inputs /\ side \in {"bids", "asks"} /\ field \in {"price", "amount"}
  BY DEF Reject, Return, IInv, PosInv
<1>2. SUFFICES ASSUME frame.intact PROVE FALSE
  BY <1>1, SidesRefuse
<1> DEFINE sent == frame.sent[side]
           w == Wire(side)
<1>3. CASE pc \in {"array", "level"}
  <2>1. ~At(pos, OPEN)
    BY <1>3 DEF Reject
  <2>2. PICK p \in Behind(buf, KeyOf(side)) :
            \/ pos = p
            \/ pc = "level" /\ \E k \in 1..Len(sent) : Spot(p, k)
    BY <1>2, <1>3 DEF ArrayInv, InArray
  <2>3. p \in Nat /\ Len(w) \in Nat /\ Len(w) >= 2 /\ w[1] = OPEN
    <3>1. p \in Nat
      BY <1>1, BufFacts DEF Behind
    <3> QED
      BY <1>1, <3>1, WireFacts
  <2>4. pos # p
    <3> SUFFICES ASSUME pos = p PROVE FALSE
      OBVIOUS
    <3>1. pos = p + 0 /\ 0 < Len(w) /\ 0 + 1 = 1 /\ 0 \in Nat
      BY <2>3
    <3>2. At(pos, w[0 + 1])
      BY <1>1, <1>2, <3>1, IntactByte
    <3> QED
      BY <2>1, <2>3, <3>1, <3>2
  <2>5. PICK k \in 1..Len(sent) : pc = "level" /\ Spot(p, k)
    BY <2>2, <2>4
  <2> DEFINE m == Len(Upto(sent)[k - 1])
             P == Len(sent[k].price)
             A == Len(sent[k].amount)
  <2>6. /\ m \in Nat /\ P \in Nat /\ A \in Nat /\ LevelAt(p, k) = p + m
        /\ m + P + A + 8 <= Len(w) /\ PairBytes(w, m, sent[k])
    BY <1>1, SpotFacts
  <2>7. pos = LevelAt(p, k) /\ w[m + 1] = OPEN
    BY <2>5, <2>6 DEF Spot, PairBytes
  <2> HIDE DEF m, P, A, w
  <2>8. pos = p + m /\ m < Len(w)
    BY <2>3, <2>6, <2>7
  <2>9. At(pos, w[m + 1])
    BY <1>1, <1>2, <2>6, <2>8, IntactByte DEF w
  <2> QED
    BY <2>1, <2>7, <2>9
<1>4. CASE pc \in {"quote", "comma", "pair", "next"}
  <2>1. PICK p, k : Reads(p, k)
    BY <1>4, ReadsLevel
  <2> DEFINE l == sent[k]
             m == Len(Upto(sent)[k - 1])
             P == Len(l.price)
             A == Len(l.amount)
             o == LevelAt(p, k)
  <2>2. /\ p \in Behind(buf, KeyOf(side)) /\ k \in 1..Len(sent) /\ Spot(p, k)
    BY <2>1 DEF Reads
  <2>3. /\ p \in Nat /\ m \in Nat /\ P \in Nat /\ A \in Nat /\ Len(w) \in Nat
        /\ o = p + m /\ m + P + A + 8 <= Len(w) /\ PairBytes(w, m, l)
        /\ w[m + P + A + 8] = Separator(sent, k)
    BY <1>1, <2>2, SpotFacts
  <2>4. /\ w[m + 2] = QUOTE /\ w[m + P + 5] = QUOTE /\ w[m + P + 4] = COMMA
        /\ w[m + P + A + 7] = CLOSE /\ w[m + P + A + 8] \in {COMMA, CLOSE}
    BY <2>3 DEF PairBytes, Separator
  <2>5. /\ pc = "quote" => pos = (IF field = "price" THEN o + 2 ELSE o + P + 5) - 1
        /\ pc = "comma" => pos = o + P + 3
        /\ pc = "pair" => pos = o + P + A + 6
        /\ pc = "next" => pos = o + P + A + 7
    BY <2>2 DEF Spot, TextAt
  <2> HIDE DEF m, P, A, w, o
  <2>6. ASSUME NEW n \in Nat, pos = p + n, n < Len(w) PROVE At(pos, w[n + 1])
    BY <1>1, <1>2, <2>2, <2>6, IntactByte DEF w
  <2>7. CASE pc = "quote" /\ field = "price"
    <3> DEFINE n == m + 1
    <3>1. n \in Nat /\ pos = p + n /\ n < Len(w) /\ n + 1 = m + 2
      BY <2>3, <2>5, <2>7
    <3> HIDE DEF n
    <3>2. At(pos, QUOTE)
      BY <2>4, <2>6, <3>1
    <3> QED
      BY <2>7, <3>2 DEF Reject
  <2>8. CASE pc = "quote" /\ field # "price"
    <3> DEFINE n == m + P + 4
    <3>1. n \in Nat /\ pos = p + n /\ n < Len(w) /\ n + 1 = m + P + 5
      BY <2>3, <2>5, <2>8
    <3> HIDE DEF n
    <3>2. At(pos, QUOTE)
      BY <2>4, <2>6, <3>1
    <3> QED
      BY <2>8, <3>2 DEF Reject
  <2>9. CASE pc = "comma"
    <3> DEFINE n == m + P + 3
    <3>1. n \in Nat /\ pos = p + n /\ n < Len(w) /\ n + 1 = m + P + 4
      BY <2>3, <2>5, <2>9
    <3> HIDE DEF n
    <3>2. At(pos, COMMA)
      BY <2>4, <2>6, <3>1
    <3> QED
      BY <2>9, <3>2 DEF Reject
  <2>10. CASE pc = "pair"
    <3> DEFINE n == m + P + A + 6
    <3>1. n \in Nat /\ pos = p + n /\ n < Len(w) /\ n + 1 = m + P + A + 7
      BY <2>3, <2>5, <2>10
    <3> HIDE DEF n
    <3>2. At(pos, CLOSE)
      BY <2>4, <2>6, <3>1
    <3> QED
      BY <2>10, <3>2 DEF Reject
  <2>11. CASE pc = "next"
    <3> DEFINE n == m + P + A + 7
    <3>1. n \in Nat /\ pos = p + n /\ n < Len(w) /\ n + 1 = m + P + A + 8
      BY <2>3, <2>5, <2>11
    <3> HIDE DEF n
    <3>2. At(pos, COMMA) \/ At(pos, CLOSE)
      BY <2>4, <2>6, <3>1
    <3> QED
      BY <2>11, <3>2 DEF Reject
  <2> QED
    BY <1>4, <2>7, <2>8, <2>9, <2>10, <2>11
<1> QED
  BY <1>3, <1>4 DEF Reject

\* A decimal of an intact frame is not refused.
LEMMA RefuseArray ==
    ASSUME IInv, PosInv, RetInv, DecimalInv, ArrayInv, SidesInv,
           IntDigit \/ FracDigit \/ CloseQuote, pc' = "done"
    PROVE  ArrayInv' /\ SidesInv' /\ IntactInv'
<1>1. /\ UNCHANGED <<frame, side, book>> /\ ret' = "none"
      /\ frame \in Inputs /\ side \in {"bids", "asks"} /\ field \in {"price", "amount"}
      /\ NumInv /\ ReadInv /\ Reading /\ pc \in {"int", "frac", "close"}
  BY DEF IntDigit, FracDigit, CloseQuote, Return, IInv, PosInv, DecimalInv, Reading
<1>2. SUFFICES ASSUME frame.intact PROVE FALSE
  BY <1>1, SidesRefuse
<1>3. PICK p, k : Reads(p, k)
  BY <1>1, ReadsLevel
<1> DEFINE t == frame.sent[side][k][field]
           w == Wire(side)
           f == num.from
           n == Len(t)
<1>4. /\ p \in Behind(buf, KeyOf(side)) /\ k \in 1..Len(frame.sent[side])
  BY <1>3 DEF Reads
<1>5. /\ f \in Nat /\ n \in Nat /\ p \in Nat /\ p <= f /\ f + n - p < Len(w) /\ Len(w) \in Nat
  BY <1>1, <1>3, InText
<1>6. Parse(t) # None
  BY <1>1, <1>2, <1>4, IntactArray
<1>7. Same(p, f + n - p + 1)
  <2>1. \A i \in 1..Len(w) : At(p + i - 1, w[i])
    BY <1>1, <1>2, <1>4, IntactArray
  <2> HIDE DEF w, f, n
  <2>2. \A i \in 1..(f + n - p + 1) : i \in 1..Len(w)
    BY <1>5
  <2> QED
    BY <2>1, <2>2 DEF Same, w
<1>8. f \in 1..End
  BY <1>1, ReadingFacts
<1>9. Text = t /\ At(TextEnd, QUOTE)
  BY <1>1, <1>3, <1>7, <1>8, TextIsSent
<1>10. Parse(Text) # None
  BY <1>6, <1>9
<1>11. CASE IntDigit
  BY <1>1, <1>10, <1>11, IntRefused DEF IntDigit
<1>12. CASE FracDigit
  BY <1>1, <1>10, <1>12, FracRefused DEF FracDigit
<1>13. CASE CloseQuote
  <2>1. pc = "close" /\ Decimal = None
    BY <1>1, <1>13 DEF CloseQuote
  <2> QED
    BY <1>1, <1>9, <1>10, <2>1, CloseValue
<1> QED
  BY <1>11, <1>12, <1>13

\* The book is handed over.
LEMMA FinishArray ==
    ASSUME IInv, PosInv, RetInv, SidesInv, NumberInv, Finish
    PROVE  ArrayInv' /\ SidesInv' /\ IntactInv'
<1>1. /\ UNCHANGED <<frame, side>> /\ pc = "finish" /\ pc' = "done"
      /\ frame \in Inputs /\ frame.handler \in {"binance", "bitstamp"}
  BY FrameFacts DEF Finish, Return, PosInv
<1>2. side = "asks" /\ SideRead("bids") /\ SideRead("asks")
  BY <1>1 DEF SidesInv
<1>3. book'.bids = book.bids /\ book'.asks = book.asks
  <2>1. book' = book \/ \E x : book' = [book EXCEPT !.event = x]
    BY DEF Finish
  <2> QED
    BY <2>1 DEF IInv, BookInv
<1>4. SideRead("bids")' /\ SideRead("asks")'
  BY <1>1, <1>2, <1>3 DEF SideRead
<1>5. frame.intact => ret' = "some"
  <2> SUFFICES ASSUME frame.intact PROVE ret' = "some"
    OBVIOUS
  <2>1. frame.handler = "bitstamp" => book.has_data
    BY <1>1 DEF NumberInv
  <2> QED
    BY <1>1, <2>1 DEF Finish, Return
<1> QED
  BY <1>1, <1>2, <1>4, <1>5 DEF ArrayInv, InArray, SidesInv, IntactInv

-----------------------------------------------------------------------------
(* The number                                                               *)

\* The number of an intact frame stands behind its key, before the bids.
LEMMA IntactNumber ==
    ASSUME frame \in Inputs, frame.intact,
           NEW key, key = (IF frame.handler = "binance" THEN LASTUPDATEID ELSE MICROTIMESTAMP)
    PROVE  \E n \in Behind(buf, key) :
              /\ Behind(buf, key) = {n} /\ NumberStands(frame, n)
              /\ \A p \in Behind(buf, BIDS) : n + Len(NumberText(frame)) <= p - 4
<1>1. WellFormed(frame)
  BY FrameFacts
<1>2. PICK n \in Behind(buf, key), p \in Behind(buf, BIDS) :
          /\ Behind(buf, key) = {n} /\ Behind(buf, BIDS) = {p}
          /\ NumberStands(frame, n) /\ n + Len(NumberText(frame)) <= p - 4
  BY <1>1, Zenon DEF WellFormed, buf
<1> QED
  BY <1>2

\* A key that stands in one place is found there.
LEMMA SeekOnly ==
    ASSUME frame \in Inputs, NEW key, NEW n, Behind(buf, key) = {n}
    PROVE  Seek(1, key) = n /\ n \in 1..End /\ n # None
<1> DEFINE ends == {q \in Behind(buf, key) : q - 4 >= 1}
<1>1. n \in 5..End /\ End \in Nat
  BY BufFacts DEF Behind
<1>2. n \in ends /\ \A q \in ends : q = n
  BY <1>1
<1>3. Seek(1, key) = IF ends = {} THEN None ELSE Min(ends)
  BY DEF Seek
<1> HIDE DEF ends
<1>4. ends \subseteq Nat
  BY <1>1, <1>2
<1>5. Min(ends) \in ends
  BY <1>2, <1>4, MinFacts
<1>6. Min(ends) = n /\ ends # {}
  BY <1>2, <1>5
<1>7. n \in 1..End /\ n # None
  BY <1>1 DEF None
<1> QED
  BY <1>3, <1>6, <1>7

\* Where no white space stands none is skipped.
LEMMA NoSkip ==
    ASSUME frame \in Inputs, NEW p \in 1..End, ~At(p, WS)
    PROVE  SkipWs(p) = p
<1> DEFINE S == {q \in p..End : ~At(q, WS)}
<1>1. S \subseteq Nat /\ p \in S /\ p \in Nat /\ \A q \in S : q >= p
  BY BufFacts
<1>2. SkipWs(p) = Min(S)
  BY DEF SkipWs
<1> HIDE DEF S
<1>3. Min(S) \in S /\ Min(S) <= p
  BY <1>1, MinFacts
<1>4. PICK x : x = Min(S)
  OBVIOUS
<1>5. x \in Nat /\ x <= p /\ x >= p
  BY <1>1, <1>3, <1>4
<1>6. x = p
  BY <1>1, <1>5
<1> QED
  BY <1>2, <1>4, <1>6

\* A part of the frame that holds a text byte by byte is the text.
LEMMA PartIs ==
    ASSUME frame \in Inputs, NEW t \in Seq(Nat), NEW p \in Nat \ {0},
           \A j \in 1..Len(t) : At(p + j - 1, t[j])
    PROVE  t # <<>> \/ p <= End => SubSeq(buf, p, p + Len(t) - 1) = t
<1> SUFFICES ASSUME t # <<>> \/ p <= End PROVE SubSeq(buf, p, p + Len(t) - 1) = t
  OBVIOUS
<1> DEFINE b == buf
           n == Len(t)
           e == p + n - 1
           s == SubSeq(b, p, e)
<1>1. b \in Seq(Nat) /\ Len(b) \in Nat /\ n \in Nat /\ End = Len(b) + 1
  BY BufFacts
<1>2. \A j \in 1..n : p + j - 1 \in 1..Len(b) /\ b[p + j - 1] = t[j]
  BY BufFacts
<1>3. e <= Len(b)
  <2>1. CASE n = 0
    BY <1>1, <2>1
  <2>2. CASE n # 0
    <3>1. n \in 1..n
      BY <1>1, <2>2
    <3>2. p + n - 1 \in 1..Len(b)
      <4> HIDE DEF n, b
      <4> QED
        BY <1>2, <3>1
    <3> HIDE DEF n, b
    <3> QED
      BY <1>1, <3>2
  <2> QED
    BY <2>1, <2>2
<1> HIDE DEF b, n
<1>4. s \in Seq(Nat) /\ Len(s) = n /\ \A j \in 1..n : s[j] = b[p + j - 1]
  BY <1>1, <1>3
<1> HIDE DEF s
<1>5. \A j \in 1..n : s[j] = t[j]
  BY <1>2, <1>4
<1>6. s = t
  <2>1. s \in Seq(Nat) /\ t \in Seq(Nat) /\ Len(s) = Len(t) /\ \A j \in 1..Len(t) : s[j] = t[j]
    BY <1>4, <1>5 DEF n
  <2> QED
    BY <2>1
<1> QED
  BY <1>6 DEF s, b, n

\* What parse::<u64> makes of digits, and of a text with a foreign byte.
LEMMA ParseFacts ==
    ASSUME NEW t \in Seq(Nat)
    PROVE  /\ t # <<>> /\ (\A j \in 1..Len(t) : t[j] \in Digits) =>
                 ParseU64(t) = IF ValueOf(t) < Word THEN ValueOf(t) ELSE 0
           /\ (\E j \in 1..Len(t) : t[j] \in {ESC, WS, ANY}) => ParseU64(t) = 0
<1> DEFINE d == IF Len(t) > 1 /\ t[1] = PLUS THEN Tail(t) ELSE t
<1>1. ParseU64(t) = IF d # <<>> /\ ToSet(d) \subseteq Digits /\ ValueOf(d) < Word
                    THEN ValueOf(d) ELSE 0
  BY DEF ParseU64
<1>2. ASSUME t # <<>>, \A j \in 1..Len(t) : t[j] \in Digits
      PROVE  ParseU64(t) = IF ValueOf(t) < Word THEN ValueOf(t) ELSE 0
  <2>1. 1 \in 1..Len(t)
    BY <1>2
  <2>2. t[1] # PLUS
    BY <1>2, <2>1, ByteFacts
  <2>3. d = t
    BY <2>2
  <2>4. ToSet(t) \subseteq Digits
    BY <1>2 DEF ToSet
  <2> HIDE DEF d
  <2> QED
    BY <1>1, <1>2, <2>3, <2>4
<1>3. ASSUME NEW j \in 1..Len(t), t[j] \in {ESC, WS, ANY} PROVE ParseU64(t) = 0
  <2>1. t[j] \notin Digits /\ t[j] # PLUS
    BY <1>3, ByteFacts
  <2>2. \E i \in 1..Len(d) : d[i] = t[j] /\ d \in Seq(Nat)
    <3>1. CASE Len(t) > 1 /\ t[1] = PLUS
      <4>1. j - 1 \in 1..Len(Tail(t)) /\ Tail(t) \in Seq(Nat) /\ Tail(t)[j - 1] = t[j]
        <5>1. j # 1 /\ Len(t) \in Nat /\ t # <<>>
          BY <2>1, <3>1
        <5>2. Len(Tail(t)) = Len(t) - 1 /\ Tail(t) \in Seq(Nat)
          BY <5>1
        <5>3. j - 1 \in 1..(Len(t) - 1) /\ (j - 1) + 1 = j
          BY <5>1
        <5>4. \A i \in 1..(Len(t) - 1) : Tail(t)[i] = t[i + 1]
          BY <5>1
        <5> QED
          BY <5>2, <5>3, <5>4
      <4> QED
        BY <3>1, <4>1
    <3>2. CASE ~(Len(t) > 1 /\ t[1] = PLUS)
      BY <3>2
    <3> QED
      BY <3>1, <3>2
  <2> HIDE DEF d
  <2>3. PICK i \in 1..Len(d) : d[i] = t[j] /\ d \in Seq(Nat)
    BY <2>2
  <2>4. t[j] \in ToSet(d)
    BY <2>3, InToSet
  <2> QED
    BY <1>1, <2>1, <2>4
<1> QED
  BY <1>2, <1>3

\* The number that was sent is a text without quotes and escapes.
LEMMA NumberFacts ==
    ASSUME frame \in Inputs
    PROVE  LET t == frame.sent.number
           IN  /\ t \in Seq(Nat) /\ Len(t) \in Nat
               /\ \A j \in 1..Len(t) : t[j] # QUOTE /\ t[j] # ESC
<1> DEFINE t == frame.sent.number
<1>1. t \in Seq(Nat \ {QUOTE, ESC})
  BY FrameFacts DEF Payload
<1> HIDE DEF t
<1>2. Len(t) \in Nat /\ \A j \in 1..Len(t) : t[j] \in Nat \ {QUOTE, ESC}
  BY <1>1
<1>3. t \in Seq(Nat)
  BY <1>1, <1>2
<1> QED
  BY <1>2, <1>3 DEF t

\* read_u64 reads a number of digits that stands in the frame as parse does,
\* and stays in it if it does not fit.
LEMMA ReadsNumber ==
    ASSUME frame \in Inputs, NEW n \in 1..End, NEW t \in Seq(Nat), t # <<>>,
           \A j \in 1..Len(t) : t[j] \in Digits /\ At(n + j - 1, t[j]),
           \A d \in Digits : ~At(n + Len(t), d)
    PROVE  /\ ReadU64(n).value = ParseU64(t)
           /\ ReadU64(n).pos \in Nat /\ ReadU64(n).pos <= n + Len(t)
<1> DEFINE N == Len(t)
           e == DigitsEnd(n)
           D == {x \in n..End : x = End \/ buf[x] \notin Digits}
           Fits(k) == ValueOf(SubSeq(buf, n, k - 1)) < Word
           F == {k \in n..e : Fits(k)}
<1>1. /\ n \in Nat \ {0} /\ N \in Nat /\ N > 0 /\ End \in Nat /\ End = Len(buf) + 1
      /\ Len(buf) \in Nat /\ \A p, c : At(p, c) <=> p \in 1..Len(buf) /\ buf[p] = c
  BY BufFacts
<1>2. SkipWs(n) = n
  <2>1. 1 \in 1..N /\ n + 1 - 1 = n
    BY <1>1
  <2>2. At(n, t[1]) /\ t[1] \in Digits
    BY <2>1
  <2>3. t[1] # WS
    BY <2>2, ByteFacts
  <2>4. ~At(n, WS)
    BY <1>1, <2>2, <2>3
  <2> QED
    BY <2>4, NoSkip
<1>3. \A x \in n..(n + N - 1) : x \in 1..Len(buf) /\ buf[x] \in Digits
  <2> SUFFICES ASSUME NEW x \in n..(n + N - 1) PROVE x \in 1..Len(buf) /\ buf[x] \in Digits
    OBVIOUS
  <2> DEFINE j == x - n + 1
  <2> HIDE DEF N
  <2>1. j \in 1..N /\ n + j - 1 = x
    BY <1>1
  <2> HIDE DEF j
  <2>2. At(x, t[j]) /\ t[j] \in Digits
    BY <2>1 DEF N
  <2> QED
    BY <1>1, <2>2
<1>4. e = n + N
  <2>1. e = Min(D)
    BY DEF DigitsEnd
  <2> HIDE DEF N
  <2>2. n + N \in n..End
    <3>1. n + N - 1 \in n..(n + N - 1)
      BY <1>1
    <3>2. n + N - 1 \in 1..Len(buf)
      BY <1>3, <3>1
    <3> QED
      BY <1>1, <3>2
  <2>3. n + N \in D
    <3> SUFFICES ASSUME n + N # End PROVE buf[n + N] \notin Digits
      BY <2>2
    <3>1. n + N \in 1..Len(buf)
      BY <1>1, <2>2
    <3> QED
      BY <1>1, <3>1 DEF N
  <2>4. \A x \in D : n + N <= x
    <3> SUFFICES ASSUME NEW x \in D, x < n + N PROVE FALSE
      BY <1>1, <2>2
    <3>1. x \in n..(n + N - 1)
      BY <1>1
    <3>2. x \in 1..Len(buf) /\ buf[x] \in Digits
      BY <1>3, <3>1
    <3> QED
      BY <1>1, <3>2
  <2>5. D \subseteq Nat
    BY <1>1
  <2> HIDE DEF D
  <2>6. Min(D) \in D /\ Min(D) <= n + N
    BY <2>3, <2>5, MinFacts
  <2>7. PICK x : x = Min(D)
    OBVIOUS
  <2>8. x \in Nat /\ x <= n + N /\ n + N <= x
    BY <2>4, <2>5, <2>6, <2>7
  <2>9. x = n + N
    BY <1>1, <2>8
  <2> QED
    BY <2>1, <2>7, <2>9
<1>5. SubSeq(buf, n, e - 1) = t
  <2>1. SubSeq(buf, n, n + N - 1) = t
    BY <1>1, PartIs
  <2> QED
    BY <1>4, <2>1
<1>6. ReadU64(n) = IF Fits(e) THEN [value |-> ValueOf(SubSeq(buf, n, e - 1)), pos |-> e]
                   ELSE [value |-> 0, pos |-> Max(F)]
  BY <1>2 DEF ReadU64
<1>7. ParseU64(t) = IF ValueOf(t) < Word THEN ValueOf(t) ELSE 0
  BY ParseFacts
<1>8. Fits(e) <=> ValueOf(t) < Word
  BY <1>5
<1>9. Fits(n)
  <2> DEFINE s == SubSeq(buf, n, n - 1)
  <2>1. s \in Seq(Nat) /\ Len(s) = 0
    <3>1. buf \in Seq(Nat)
      BY BufFacts
    <3> HIDE DEF buf
    <3> QED
      BY <1>1, <3>1
  <2> HIDE DEF s
  <2>2. ValueOf(s) = 0
    BY <2>1, HornerFacts DEF ValueOf
  <2>3. ValueOf(s) < Word
    BY <2>2, PowFacts
  <2> QED
    BY <2>3 DEF s
<1> HIDE DEF e, N, Fits
<1>10. F \subseteq 0..(n + N) /\ n \in F /\ n + N \in Nat
  BY <1>1, <1>4, <1>9
<1> HIDE DEF F
<1>11. Max(F) \in 0..(n + N)
  BY <1>10, MaxFacts
<1>12. CASE ValueOf(t) < Word
  <2>1. ReadU64(n).value = ValueOf(SubSeq(buf, n, e - 1)) /\ ReadU64(n).pos = e
    BY <1>6, <1>8, <1>12
  <2>2. e \in Nat /\ e <= n + N
    BY <1>1, <1>4
  <2> QED
    BY <1>5, <1>7, <1>12, <2>1, <2>2 DEF N
<1>13. CASE ~(ValueOf(t) < Word)
  <2>1. ReadU64(n).value = 0 /\ ReadU64(n).pos = Max(F)
    BY <1>6, <1>8, <1>13
  <2>2. Max(F) \in Nat /\ Max(F) <= n + N
    <3>1. PICK x : x = Max(F)
      OBVIOUS
    <3>2. x \in Nat /\ x <= n + N
      BY <1>10, <1>11, <3>1
    <3> QED
      BY <3>1, <3>2
  <2> QED
    BY <1>7, <1>13, <2>1, <2>2 DEF N
<1> QED
  BY <1>12, <1>13

\* A byte behind one that is no escape is not escaped.
LEMMA NotEscaped ==
    ASSUME frame \in Inputs, NEW p \in 1..End, NEW q \in p..End,
           q = p \/ ~At(q - 1, ESC)
    PROVE  ~Escaped(p, q)
<1> DEFINE S == {k \in 0..(q - p) : \A j \in 1..k : At(q - j, ESC)}
<1>1. End \in Nat /\ p \in Nat /\ q \in Nat /\ p <= q
  BY BufFacts
<1>2. ASSUME NEW k \in S PROVE k = 0
  <2> SUFFICES ASSUME k # 0 PROVE FALSE
    OBVIOUS
  <2>1. 1 \in 1..k /\ q # p
    BY <1>1
  <2> QED
    BY <2>1
<1>3. 0 \in S
  BY <1>1
<1>4. S = {0}
  <2> HIDE DEF S
  <2> QED
    BY <1>2, <1>3
<1>5. Escaped(p, q) <=> Max(S) % 2 = 1
  BY DEF Escaped
<1> HIDE DEF S
<1>6. Max({0}) = 0
  <2>1. {0} \subseteq 0..0 /\ {0} # {}
    OBVIOUS
  <2> QED
    BY <2>1, MaxFacts
<1> QED
  BY <1>4, <1>5, <1>6

\* A quoted text as far as it has arrived.
LEMMA QuotedStands ==
    ASSUME frame \in Inputs, NEW t \in Seq(Nat), NEW q \in Nat, NEW n \in 1..(Len(t) + 1),
           \A i \in 1..n : Holds(buf, q + i - 1, Quoted(t)[i])
    PROVE  At(q, QUOTE) /\ \A j \in 1..(n - 1) : At(q + j, t[j])
<1>1. /\ Quoted(t)[1] = QUOTE /\ \A j \in 1..Len(t) : Quoted(t)[j + 1] = t[j]
  BY QuotedFacts
<1>2. Len(t) \in Nat /\ 1 \in 1..n /\ q + 1 - 1 = q
  OBVIOUS
<1>3. ASSUME NEW j \in 1..(n - 1) PROVE At(q + j, t[j])
  <2>1. j + 1 \in 1..n /\ q + (j + 1) - 1 = q + j /\ j \in 1..Len(t)
    BY <1>2
  <2> QED
    BY <1>1, <2>1 DEF At
<1> QED
  BY <1>1, <1>2, <1>3 DEF At

\* A string that has arrived whole is read as it was sent.
LEMMA ReadsString ==
    ASSUME frame \in Inputs, NEW t \in Seq(Nat), NEW q \in 1..End,
           \A j \in 1..Len(t) : t[j] # QUOTE /\ t[j] # ESC,
           Stands(buf, q, Quoted(t))
    PROVE  /\ StringEnd(q + 1) = q + Len(t) + 1
           /\ SubSeq(buf, q + 1, StringEnd(q + 1) - 1) = t
<1> DEFINE N == Len(t)
           e == q + N + 1
           quotes == {x \in (q + 1)..Len(buf) : At(x, QUOTE) /\ ~Escaped(q + 1, x)}
<1>1. /\ q \in Nat \ {0} /\ N \in Nat /\ End \in Nat /\ End = Len(buf) + 1
      /\ Len(buf) \in Nat /\ \A p, c : At(p, c) <=> p \in 1..Len(buf) /\ buf[p] = c
  BY BufFacts
<1>2. /\ Len(Quoted(t)) = N + 2 /\ Quoted(t)[N + 2] = QUOTE
  BY QuotedFacts
<1>3. \A i \in 1..(N + 2) : Holds(buf, q + i - 1, Quoted(t)[i])
  BY <1>2 DEF Stands
<1> HIDE DEF N
<1>4. At(q, QUOTE) /\ \A j \in 1..N : At(q + j, t[j])
  <2> DEFINE n == N + 1
  <2>1. n \in 1..(Len(t) + 1) /\ n - 1 = N /\ \A i \in 1..n : i \in 1..(N + 2)
    BY <1>1 DEF N
  <2> HIDE DEF n
  <2>2. \A i \in 1..n : Holds(buf, q + i - 1, Quoted(t)[i])
    BY <1>3, <2>1
  <2>3. At(q, QUOTE) /\ \A j \in 1..(n - 1) : At(q + j, t[j])
    BY <1>1, <2>1, <2>2, QuotedStands
  <2> QED
    BY <2>1, <2>3
<1>5. At(e, QUOTE)
  <2>1. N + 2 \in 1..(N + 2) /\ q + (N + 2) - 1 = e
    BY <1>1
  <2> QED
    BY <1>2, <1>3, <2>1 DEF At
<1>6. e \in (q + 1)..Len(buf) /\ q + 1 \in 1..End /\ e \in (q + 1)..End
  BY <1>1, <1>5
<1>7. ~Escaped(q + 1, e)
  <2>1. CASE N = 0
    BY <1>1, <1>6, <2>1, NotEscaped
  <2>2. CASE N # 0
    <3>1. N \in 1..N /\ e - 1 = q + N
      BY <1>1, <2>2
    <3>2. At(q + N, t[N]) /\ t[N] # ESC
      BY <1>4, <3>1 DEF N
    <3>3. ~At(e - 1, ESC)
      BY <1>1, <3>1, <3>2
    <3> HIDE DEF e
    <3> QED
      BY <1>6, <3>3, NotEscaped
  <2> QED
    BY <2>1, <2>2
<1>8. e \in quotes
  BY <1>5, <1>6, <1>7
<1>9. \A x \in quotes : e <= x
  <2> SUFFICES ASSUME NEW x \in quotes, x < e PROVE FALSE
    BY <1>1
  <2> DEFINE j == x - q
  <2>1. j \in 1..N /\ q + j = x
    BY <1>1
  <2> HIDE DEF j
  <2>2. At(x, t[j]) /\ t[j] # QUOTE
    BY <1>4, <2>1 DEF N
  <2> QED
    BY <1>1, <2>2
<1>10. quotes \subseteq Nat
  BY <1>1
<1>11. StringEnd(q + 1) = IF quotes = {} THEN None ELSE Min(quotes)
  BY DEF StringEnd
<1> HIDE DEF quotes
<1>12. PICK x : x = Min(quotes)
  OBVIOUS
<1>13. x \in Nat /\ x <= e /\ e <= x
  BY <1>8, <1>9, <1>10, <1>12, MinFacts
<1>14. x = e
  BY <1>1, <1>13
<1>15. StringEnd(q + 1) = e
  BY <1>8, <1>11, <1>12, <1>14
<1>16. SubSeq(buf, q + 1, e - 1) = t
  <2> DEFINE p == q + 1
  <2>1. p \in Nat \ {0} /\ p <= End /\ p + N - 1 = e - 1 /\ \A j \in 1..N : p + j - 1 = q + j
    BY <1>1, <1>6
  <2> HIDE DEF p, e
  <2>2. \A j \in 1..Len(t) : At(p + j - 1, t[j])
    BY <1>4, <2>1 DEF N
  <2>3. SubSeq(buf, p, p + Len(t) - 1) = t
    BY <2>1, <2>2, PartIs
  <2>4. SubSeq(buf, p, e - 1) = t
    BY <2>1, <2>3 DEF N
  <2> QED
    BY <2>4 DEF p
<1> QED
  BY <1>15, <1>16 DEF N

\* A string that has not, and that ends nevertheless, holds a byte no number has.
LEMMA BrokenString ==
    ASSUME frame \in Inputs, NEW t \in Seq(Nat), NEW q \in 1..End,
           \A j \in 1..Len(t) : t[j] # QUOTE,
           Arrives(buf, q, Quoted(t)), ~Stands(buf, q, Quoted(t)), At(q, QUOTE),
           StringEnd(q + 1) # None
    PROVE  ParseU64(SubSeq(buf, q + 1, StringEnd(q + 1) - 1)) = 0
<1> DEFINE N == Len(t)
           W == Quoted(t)
           e == StringEnd(q + 1)
           quotes == {x \in (q + 1)..Len(buf) : At(x, QUOTE) /\ ~Escaped(q + 1, x)}
           B == {i \in 1..Len(W) : ~Holds(buf, q + i - 1, W[i])}
<1>1. /\ q \in Nat \ {0} /\ N \in Nat /\ Len(buf) \in Nat /\ buf \in Seq(Nat)
      /\ \A p, c : At(p, c) <=> p \in 1..Len(buf) /\ buf[p] = c
  BY BufFacts
<1>2. Len(W) = N + 2 /\ W[1] = QUOTE
  BY QuotedFacts
<1>3. B \subseteq Nat /\ B # {}
  <2> HIDE DEF W
  <2>1. PICK i \in 1..Len(W) : ~Holds(buf, q + i - 1, W[i])
    BY DEF Stands, W
  <2>2. i \in B
    BY <2>1
  <2>3. B \subseteq 1..Len(W)
    OBVIOUS
  <2>4. 1..Len(W) \subseteq Nat
    BY <1>1, <1>2
  <2> HIDE DEF B
  <2> QED
    BY <2>2, <2>3, <2>4
<1>4. PICK d : d = Min(B)
  OBVIOUS
<1>5. d \in B /\ \A i \in B : d <= i
  <2> HIDE DEF B
  <2> QED
    BY <1>3, <1>4, MinFacts
<1> HIDE DEF N, W
<1>6. d \in 1..(N + 2) /\ ~Holds(buf, q + d - 1, W[d])
  BY <1>2, <1>5
<1>7. \A i \in 1..(d - 1) : Holds(buf, q + i - 1, W[i])
  <2> SUFFICES ASSUME NEW i \in 1..(d - 1), ~Holds(buf, q + i - 1, W[i]) PROVE FALSE
    OBVIOUS
  <2>1. i \in 1..Len(W) /\ i < d
    BY <1>1, <1>2, <1>6
  <2>2. d <= i
    BY <1>5, <2>1
  <2> QED
    BY <1>6, <2>1, <2>2
<1>8. d # 1
  <2>1. q + 1 - 1 = q
    BY <1>1
  <2> QED
    BY <1>2, <1>6, <2>1 DEF At
<1>9. Breaks(buf, q + d - 1)
  <2>1. d \in 1..Len(W)
    BY <1>2, <1>6
  <2> QED
    BY <1>6, <1>7, <2>1 DEF Arrives, W
<1>10. \A j \in 1..(d - 2) : At(q + j, t[j]) /\ t[j] # QUOTE
  <2> DEFINE n == d - 1
  <2>1. n \in 1..(Len(t) + 1) /\ n - 1 = d - 2 /\ q \in Nat
        /\ \A j \in 1..(d - 2) : j \in 1..Len(t)
    BY <1>1, <1>6, <1>8 DEF N
  <2>2. \A i \in 1..n : Holds(buf, q + i - 1, Quoted(t)[i])
    BY <1>7 DEF W
  <2> HIDE DEF n
  <2>3. \A j \in 1..(n - 1) : At(q + j, t[j])
    BY <2>1, <2>2, QuotedStands
  <2> QED
    BY <2>1, <2>3
<1>11. e \in (q + 1)..Len(buf) /\ At(e, QUOTE)
  <2>1. quotes \subseteq Nat
    BY <1>1
  <2>2. e = IF quotes = {} THEN None ELSE Min(quotes)
    BY DEF StringEnd
  <2> HIDE DEF quotes, e
  <2>3. e \in quotes
    BY <2>1, <2>2, MinFacts DEF e
  <2> QED
    BY <2>3 DEF quotes
<1> HIDE DEF e
<1>12. e \in Nat /\ q + d - 1 \in Nat /\ d \in Nat
  BY <1>1, <1>6, <1>11
<1>13. e > q + d - 1
  <2> SUFFICES ASSUME e <= q + d - 1 PROVE FALSE
    BY <1>12
  <2>1. CASE e = q + d - 1
    <3>1. e \in 1..Len(buf) /\ buf[e] = QUOTE /\ e # Len(buf) + 1
      BY <1>1, <1>11
    <3>2. \A c \in {ESC, WS, ANY} : ~Holds(buf, e, c)
      BY <3>1, ByteFacts DEF Holds
    <3> QED
      BY <1>9, <2>1, <3>1, <3>2 DEF Breaks
  <2>2. CASE e # q + d - 1
    <3> DEFINE j == e - q
    <3>1. j \in 1..(d - 2) /\ q + j = e
      <4>1. e >= q + 1 /\ q \in Nat
        BY <1>1, <1>11
      <4> QED
        BY <1>12, <2>2, <4>1
    <3> HIDE DEF j
    <3>2. At(e, t[j]) /\ t[j] # QUOTE
      BY <1>10, <3>1
    <3> QED
      BY <1>1, <1>11, <3>2
  <2> QED
    BY <2>1, <2>2
<1>14. PICK c \in {ESC, WS, ANY} : Holds(buf, q + d - 1, c)
  <2>1. q + d - 1 # Len(buf) + 1
    BY <1>1, <1>11, <1>12, <1>13
  <2> QED
    BY <1>9, <2>1 DEF Breaks
<1> DEFINE s == SubSeq(buf, q + 1, e - 1)
<1>15. s \in Seq(Nat) /\ \E j \in 1..Len(s) : s[j] \in {ESC, WS, ANY}
  <2> DEFINE b == buf
             r == SubSeq(b, q + 1, e - 1)
             j == d - 1
  <2>1. /\ b \in Seq(Nat) /\ e \in (q + 1)..Len(b) /\ Len(b) \in Nat
        /\ b[q + d - 1] = c
    BY <1>1, <1>11, <1>14 DEF Holds
  <2> HIDE DEF b
  <2>2. r \in Seq(Nat) /\ Len(r) = e - 1 - q /\ \A i \in 1..(e - 1 - q) : r[i] = b[q + i]
    <3> HIDE DEF e
    <3>1. q \in Nat \ {0}
      BY <1>1
    <3>2. /\ q + 1 \in Nat \ {0} /\ e - 1 \in Nat /\ q <= e - 1 /\ e - 1 <= Len(b)
      BY <2>1, <3>1
    <3>3. /\ r \in Seq(Nat) /\ Len(r) = (e - 1) - (q + 1) + 1
          /\ \A i \in 1..((e - 1) - (q + 1) + 1) : r[i] = b[(q + 1) + i - 1]
      BY <2>1, <3>1, <3>2
    <3>4. (e - 1) - (q + 1) + 1 = e - 1 - q /\ \A i \in Nat : (q + 1) + i - 1 = q + i
      BY <3>1, <3>2
    <3> HIDE DEF r
    <3> QED
      BY <3>3, <3>4
  <2>3. j \in 1..(e - 1 - q) /\ q + j = q + d - 1
    BY <1>1, <1>6, <1>8, <1>12, <1>13
  <2> HIDE DEF r, j
  <2>4. j \in 1..Len(r) /\ r[j] \in {ESC, WS, ANY}
    BY <2>1, <2>2, <2>3
  <2>5. s = r
    BY DEF b, r
  <2> HIDE DEF s
  <2> QED
    BY <2>2, <2>4, <2>5
<1> HIDE DEF s
<1>16. ParseU64(s) = 0
  BY <1>15, ParseFacts
<1> QED
  BY <1>16 DEF s, e

\* Whatever arrives of Bitstamp's number, it is read as it was sent or not at all.
LEMMA StringNumber ==
    ASSUME frame \in Inputs, NEW p \in Behind(buf, MICROTIMESTAMP)
    PROVE  \/ ReadString(p).text = NoText
           \/ ParseU64(ReadString(p).text) \in {ParseU64(frame.sent.number), 0}
<1> DEFINE q == SkipWs(p)
           e == StringEnd(q + 1)
           t == frame.sent.number
<1>1. t \in Seq(Nat) /\ \A j \in 1..Len(t) : t[j] # QUOTE /\ t[j] # ESC
  BY NumberFacts
<1>2. p \in 1..End /\ End \in Nat /\ End = Len(buf) + 1
  BY BufFacts DEF Behind
<1>3. q \in p..End /\ q \in 1..End
  BY <1>2, SkipFacts
<1>4. \A j \in p..(q - 1) : At(j, WS)
  <2> DEFINE S == {x \in p..End : ~At(x, WS)}
  <2>1. q = Min(S) /\ S \subseteq Nat /\ End \in S
    BY <1>2, BufFacts DEF SkipWs
  <2>2. \A x \in S : q <= x
    <3> HIDE DEF S, q
    <3> QED
      BY <2>1, MinFacts
  <2> HIDE DEF q
  <2> SUFFICES ASSUME NEW j \in p..(q - 1), ~At(j, WS) PROVE FALSE
    OBVIOUS
  <2>3. j \in p..End /\ j < q
    BY <1>2, <1>3
  <2>4. q <= j
    BY <2>2, <2>3
  <2> QED
    BY <1>2, <1>3, <2>3, <2>4
<1>5. ReadString(p).text = IF ~At(q, QUOTE) \/ e = None THEN NoText
                           ELSE SubSeq(buf, q + 1, e - 1)
  BY DEF ReadString
<1> HIDE DEF q, t
<1>6. CASE At(q, QUOTE) /\ e # None
  <2>1. q \in p..Len(buf)
    BY <1>2, <1>3, <1>6, BufFacts
  <2>2. Arrives(buf, q, Quoted(t))
    <3>1. /\ \A j \in p..(q - 1) : Holds(buf, j, WS)
          /\ Holds(buf, q, QUOTE)
      BY <1>4, <1>6 DEF At
    <3>2. Delivered(frame)
      BY FrameFacts
    <3> QED
      BY <2>1, <3>1, <3>2 DEF Delivered, buf, t
  <2>3. CASE Stands(buf, q, Quoted(t))
    BY <1>1, <1>3, <1>5, <1>6, <2>3, ReadsString DEF t
  <2>4. CASE ~Stands(buf, q, Quoted(t))
    BY <1>1, <1>3, <1>5, <1>6, <2>2, <2>4, BrokenString
  <2> QED
    BY <2>3, <2>4
<1> QED
  BY <1>5, <1>6

\* Reading the number leaves the sides empty.
LEMMA NumberSides ==
    ASSUME IInv, RetInv, SidesInv, ReadLastUpdateId \/ ReadMicrotimestamp
    PROVE  /\ frame' = frame /\ pc = "number" /\ pc' = "seek" /\ side = "bids"
           /\ side' = "bids" /\ ArrayInv' /\ SidesInv'
<1>1. /\ UNCHANGED <<frame, side, ret>> /\ pc = "number" /\ pc' = "seek" /\ side = "bids"
      /\ book.asks = <<>> /\ book.bids = <<>> /\ ret # "some"
  BY DEF ReadLastUpdateId, ReadMicrotimestamp, SidesInv, RetInv
<1>2. book'.bids = <<>> /\ book'.asks = <<>>
  <2>1. \/ book' = book
        \/ \E x : book' = [book EXCEPT !.seq = x]
        \/ \E x : book' = [book EXCEPT !.has_data = TRUE, !.seq = x]
    BY DEF ReadLastUpdateId, ReadMicrotimestamp
  <2> QED
    BY <1>1, <2>1 DEF IInv, BookInv
<1> QED
  BY <1>1, <1>2 DEF ArrayInv, InArray, SidesInv

\* Behind the number of an intact frame the bids lie ahead.
LEMMA BidsAhead ==
    ASSUME frame' = frame, pc' = "seek", side' = "bids",
           frame.intact => \A p \in Behind(buf, BIDS) : pos' + 4 <= p
    PROVE  IntactInv'
<1>1. buf' = buf
  BY DEF buf
<1> QED
  BY <1>1 DEF IntactInv, KeyOf

\* lastUpdateId.
LEMMA LastUpdateIdInv ==
    ASSUME IInv, PosInv, RetInv, SidesInv, ReadLastUpdateId
    PROVE  ArrayInv' /\ SidesInv' /\ NumberInv' /\ IntactInv'
<1>1. /\ frame' = frame /\ pc' = "seek" /\ side' = "bids" /\ ArrayInv' /\ SidesInv'
      /\ frame.handler = "binance" /\ frame \in Inputs
  BY NumberSides DEF ReadLastUpdateId, PosInv
<1>2. ASSUME frame.intact
      PROVE  /\ book'.seq = ParseU64(frame.sent.number)
             /\ \A p \in Behind(buf, BIDS) : pos' + 4 <= p
  <2> DEFINE t == frame.sent.number
             N == Len(t)
  <2>1. PICK n \in Behind(buf, LASTUPDATEID) :
            /\ Behind(buf, LASTUPDATEID) = {n} /\ NumberStands(frame, n)
            /\ \A p \in Behind(buf, BIDS) : n + Len(NumberText(frame)) <= p - 4
    BY <1>1, <1>2, IntactNumber
  <2>2. NumberText(frame) = t
    BY <1>1 DEF NumberText
  <2>3. Seek(1, LASTUPDATEID) = n /\ n \in 1..End /\ n # None
    BY <1>1, <2>1, SeekOnly
  <2>4. t \in Seq(Nat) /\ N \in Nat
    BY <1>1, NumberFacts
  <2>5. /\ t # <<>> /\ \A j \in 1..N : t[j] \in Digits /\ At(n + j - 1, t[j])
        /\ \A d \in Digits : ~At(n + N, d)
    BY <2>1, <2>2 DEF NumberStands, Stands, At, buf
  <2> HIDE DEF t
  <2>6. /\ ReadU64(n).value = ParseU64(t) /\ ReadU64(n).pos \in Nat
        /\ ReadU64(n).pos <= n + N
    BY <1>1, <2>3, <2>4, <2>5, ReadsNumber
  <2>7. pos' = ReadU64(n).pos /\ book' = [book EXCEPT !.seq = ReadU64(n).value]
    BY <2>3 DEF ReadLastUpdateId
  <2>8. book'.seq = ParseU64(t)
    BY <2>6, <2>7 DEF IInv, BookInv
  <2>9. ASSUME NEW p \in Behind(buf, BIDS) PROVE pos' + 4 <= p
    <3> DEFINE x == pos'
    <3> HIDE DEF N
    <3>1. n + N <= p - 4
      BY <2>1, <2>2 DEF N
    <3>2. p \in Nat /\ n \in Nat /\ N \in Nat /\ x \in Nat /\ x <= n + N
      <4>1. p \in Nat /\ n \in Nat
        BY <1>1, BufFacts DEF Behind
      <4>2. N \in Nat
        BY <2>4
      <4>3. x \in Nat /\ x <= n + N
        BY <2>6, <2>7
      <4> QED
        BY <4>1, <4>2, <4>3
    <3> HIDE DEF x
    <3>3. x + 4 <= p
      BY <3>1, <3>2
    <3> QED
      BY <3>3 DEF x
  <2> QED
    BY <2>8, <2>9 DEF t
<1>3. NumberInv'
  BY <1>1, <1>2 DEF NumberInv
<1>4. IntactInv'
  BY <1>1, <1>2, BidsAhead
<1> QED
  BY <1>1, <1>3, <1>4

\* microtimestamp.
LEMMA MicrotimestampInv ==
    ASSUME IInv, PosInv, RetInv, SidesInv, NumberInv, ReadMicrotimestamp
    PROVE  ArrayInv' /\ SidesInv' /\ NumberInv' /\ IntactInv'
<1>1. /\ frame' = frame /\ pc' = "seek" /\ side' = "bids" /\ ArrayInv' /\ SidesInv'
      /\ frame.handler = "bitstamp" /\ frame \in Inputs
  BY NumberSides DEF ReadMicrotimestamp, PosInv
<1> DEFINE p == Seek(1, MICROTIMESTAMP)
           r == ReadString(p)
           t == frame.sent.number
<1>2. /\ p = None => book' = book
      /\ p # None => /\ pos' = r.pos /\ book'.has_data
                     /\ book'.seq = IF r.text = NoText THEN 0 ELSE ParseU64(r.text)
  <2>1. /\ p = None => book' = book
        /\ p # None => /\ pos' = r.pos
                       /\ book' = [book EXCEPT !.has_data = TRUE,
                                      !.seq = IF r.text = NoText THEN 0 ELSE ParseU64(r.text)]
    BY DEF ReadMicrotimestamp
  <2> HIDE DEF p, r
  <2> QED
    BY <2>1 DEF IInv, BookInv
<1>3. book'.seq \in {ParseU64(t), 0}
  <2>1. CASE p = None
    BY <1>1, <1>2, <2>1 DEF NumberInv
  <2>2. CASE p # None
    <3> DEFINE ends == {q \in Behind(buf, MICROTIMESTAMP) : q - 4 >= 1}
    <3>1. p = IF ends = {} THEN None ELSE Min(ends)
      BY DEF Seek
    <3>2. ends \subseteq Nat
      BY <1>1, BufFacts DEF Behind
    <3>3. p \in ends
      <4> HIDE DEF ends, p
      <4> QED
        BY <2>2, <3>1, <3>2, MinFacts
    <3>4. p \in Behind(buf, MICROTIMESTAMP)
      BY <3>3
    <3>5. r.text = NoText \/ ParseU64(r.text) \in {ParseU64(t), 0}
      <4> HIDE DEF p
      <4> QED
        BY <1>1, <3>4, StringNumber
    <3> QED
      BY <1>2, <2>2, <3>5
  <2> QED
    BY <2>1, <2>2
<1>4. ASSUME frame.intact
      PROVE  /\ book'.seq = ParseU64(t) /\ book'.has_data
             /\ \A q \in Behind(buf, BIDS) : pos' + 4 <= q
  <2> DEFINE N == Len(t)
  <2>1. PICK n \in Behind(buf, MICROTIMESTAMP) :
            /\ Behind(buf, MICROTIMESTAMP) = {n} /\ NumberStands(frame, n)
            /\ \A q \in Behind(buf, BIDS) : n + Len(NumberText(frame)) <= q - 4
    BY <1>1, <1>4, IntactNumber
  <2>2. p = n /\ n \in 1..End /\ n # None
    BY <1>1, <2>1, SeekOnly
  <2>3. /\ t \in Seq(Nat) /\ N \in Nat /\ \A j \in 1..N : t[j] # QUOTE /\ t[j] # ESC
    BY <1>1, NumberFacts
  <2>4. NumberText(frame) = Quoted(t)
    BY <1>1 DEF NumberText
  <2>5. /\ t # <<>> /\ \A j \in 1..N : t[j] \in Digits
        /\ Stands(buf, n, Quoted(t))
    BY <2>1, <2>4 DEF NumberStands, buf
  <2> HIDE DEF t
  <2>6. Len(Quoted(t)) = N + 2 /\ Quoted(t)[1] = QUOTE
    BY <2>3, QuotedFacts
  <2>7. At(n, QUOTE) /\ ~At(n, WS)
    <3>1. 1 \in 1..Len(Quoted(t)) /\ n + 1 - 1 = n
      BY <1>1, <2>2, <2>3, <2>6, BufFacts
    <3>2. At(n, QUOTE)
      BY <2>5, <2>6, <3>1 DEF Stands, At
    <3> QED
      BY <1>1, <3>2, BufFacts, ByteFacts
  <2>8. SkipWs(n) = n
    BY <1>1, <2>2, <2>7, NoSkip
  <2>9. StringEnd(n + 1) = n + N + 1 /\ SubSeq(buf, n + 1, StringEnd(n + 1) - 1) = t
    BY <1>1, <2>2, <2>3, <2>5, ReadsString
  <2>10. n \in Nat /\ n + N + 1 # None
    BY <1>1, <2>2, <2>3, BufFacts DEF None
  <2>11. ReadString(n).text = t /\ ReadString(n).pos = n + N + 2
    <3>1. ReadString(n) = [text |-> SubSeq(buf, n + 1, StringEnd(n + 1) - 1),
                           pos |-> StringEnd(n + 1) + 1]
      <4> HIDE DEF N
      <4> QED
        BY <2>7, <2>8, <2>9, <2>10 DEF ReadString
    <3> HIDE DEF N
    <3>2. (n + N + 1) + 1 = n + N + 2
      BY <2>3, <2>10
    <3> QED
      BY <2>9, <3>1, <3>2
  <2>12. t # NoText
    <3> SUFFICES ASSUME t = <<None>> PROVE FALSE
      BY DEF NoText
    <3>1. t[1] = None /\ 1 \in 1..N
      OBVIOUS
    <3>2. None \in Digits
      BY <2>5, <3>1
    <3> QED
      BY <3>2 DEF None, Digits
  <2>13. book'.seq = ParseU64(t) /\ book'.has_data /\ pos' = n + N + 2
    <3> HIDE DEF p, N
    <3> QED
      BY <1>2, <2>2, <2>11, <2>12
  <2>14. ASSUME NEW q \in Behind(buf, BIDS) PROVE pos' + 4 <= q
    <3> HIDE DEF N
    <3>1. n + (N + 2) <= q - 4
      BY <2>1, <2>4, <2>6
    <3>2. q \in Nat
      BY <1>1, BufFacts DEF Behind
    <3> QED
      BY <2>3, <2>10, <2>13, <3>1, <3>2
  <2> QED
    BY <2>13, <2>14
<1>5. NumberInv'
  BY <1>1, <1>3, <1>4 DEF NumberInv
<1>6. IntactInv'
  BY <1>1, <1>4, BidsAhead
<1> QED
  BY <1>1, <1>5, <1>6

\* Behind the number no step touches it.
LEMMA NumberStays ==
    ASSUME IInv, NumberInv, pc # "number", frame' = frame,
           book'.seq = book.seq, book'.has_data = book.has_data
    PROVE  NumberInv'
  BY DEF NumberInv

\* What a walk knows of the book that was sent.
ReadBook == ArrayInv /\ SidesInv /\ NumberInv /\ IntactInv

\* At the start nothing has been read.
LEMMA InitReadBook == Init => ReadBook
<1> SUFFICES ASSUME Init PROVE ReadBook
  OBVIOUS
<1>1. /\ pc = "number" /\ side = "bids" /\ book.bids = <<>> /\ book.asks = <<>>
      /\ book.seq = 0 /\ ret = "running"
  BY DEF Init
<1> QED
  BY <1>1 DEF ReadBook, ArrayInv, InArray, SidesInv, NumberInv, IntactInv

\* Every step of a walk preserves what it knows of the book.
LEMMA NextReadBook ==
    IInv /\ RetInv /\ DecimalInv /\ PosInv /\ ReadBook /\ [Next]_vars => ReadBook'
<1> SUFFICES ASSUME IInv, RetInv, DecimalInv, PosInv, ReadBook, [Next]_vars PROVE ReadBook'
  OBVIOUS
<1>1. ArrayInv /\ SidesInv /\ NumberInv /\ IntactInv
  BY DEF ReadBook
<1>2. CASE UNCHANGED vars
  <2>1. UNCHANGED <<frame, pos, pc, side, field, num, level, book, ret>>
    BY <1>2 DEF vars
  <2>2. buf' = buf
    BY <2>1 DEF buf
  <2>3. \A s : (KeyOf(s)' = KeyOf(s)) /\ (Wire(s)' = Wire(s)) /\ (SideRead(s)' <=> SideRead(s))
    BY <2>1 DEF KeyOf, Wire, SideRead
  <2>4. \A p, n : Same(p, n)' <=> Same(p, n)
    BY <2>1, <2>2 DEF Same, At, Wire
  <2>5. \A p, k : Spot(p, k)' <=> Spot(p, k)
    BY <2>1 DEF Spot, LevelAt, TextAt, Reading
  <2>6. ArrayInv'
    BY <1>1, <2>1, <2>2, <2>4, <2>5 DEF ArrayInv, InArray, KeyOf, Wire
  <2>7. SidesInv' /\ NumberInv' /\ IntactInv'
    BY <1>1, <2>1, <2>2, <2>3 DEF SidesInv, NumberInv, IntactInv, KeyOf
  <2> QED
    BY <2>6, <2>7 DEF ReadBook
<1>3. CASE ReadLastUpdateId
  BY <1>1, <1>3, LastUpdateIdInv DEF ReadBook
<1>4. CASE ReadMicrotimestamp
  BY <1>1, <1>4, MicrotimestampInv DEF ReadBook
<1>5. CASE Finish
  <2>1. /\ pc # "number" /\ frame' = frame
        /\ book' = book \/ \E x : book' = [book EXCEPT !.event = x]
    BY <1>5 DEF Finish
  <2>2. book'.seq = book.seq /\ book'.has_data = book.has_data
    BY <2>1 DEF IInv, BookInv
  <2>3. NumberInv'
    BY <1>1, <2>1, <2>2, NumberStays
  <2> QED
    BY <1>1, <1>5, <2>3, FinishArray DEF ReadBook
<1>6. CASE CloseLevel
  <2>1. ArrayInv' /\ pc' = "next" /\ side' = side
        /\ \A s \in {"bids", "asks"} : s # side => book'[s] = book[s]
    BY <1>1, <1>6, CloseLevelArray
  <2>2. /\ pc \notin {"done", "number"} /\ frame' = frame /\ ret' = ret
        /\ book' = book \/ \E x : book' = [book EXCEPT ![side] = x]
    BY <1>6 DEF CloseLevel
  <2>3. SidesInv' /\ IntactInv'
    BY <1>1, <2>1, <2>2, SidesStay DEF InArray
  <2>4. book'.seq = book.seq /\ book'.has_data = book.has_data
    BY <2>2 DEF IInv, BookInv
  <2>5. NumberInv'
    BY <1>1, <2>2, <2>4, NumberStays
  <2> QED
    BY <2>1, <2>3, <2>5 DEF ReadBook
<1>7. CASE \/ SeekSide \/ Reject \/ OpenArray \/ OpenLevel \/ PriceComma \/ NextLevel
           \/ CloseArray \/ OpenQuote \/ IntDigit \/ EndInt \/ FracDigit \/ EndFrac
           \/ CloseQuote
  <2>1. pc \notin {"done", "number"} /\ frame' = frame /\ book' = book
    BY <1>7 DEF SeekSide, Reject, OpenArray, OpenLevel, PriceComma, NextLevel, CloseArray,
                OpenQuote, IntDigit, EndInt, FracDigit, EndFrac, CloseQuote
  <2>2. NumberInv'
    BY <1>1, <2>1, NumberStays
  <2>3. CASE SeekSide \/ Reject \/ OpenArray \/ NextLevel \/ CloseArray
    BY <1>1, <2>2, <2>3, SeekSideArray, RejectArray, OpenArrayArray, NextLevelArray
       DEF ReadBook
  <2>4. CASE OpenLevel \/ PriceComma \/ OpenQuote
    <3>1. ArrayInv'
      BY <1>1, <2>4, OpenLevelArray, PriceCommaArray, OpenQuoteArray
    <3>2. side' = side /\ ret' = ret /\ InArray'
      BY <2>4 DEF OpenLevel, PriceComma, OpenQuote, InArray
    <3>3. SidesInv' /\ IntactInv'
      BY <1>1, <2>1, <3>2, SidesStay
    <3> QED
      BY <2>2, <3>1, <3>3 DEF ReadBook
  <2>5. CASE IntDigit \/ EndInt \/ FracDigit \/ EndFrac \/ CloseQuote
    <3>1. CASE pc' = "done"
      <4>1. IntDigit \/ FracDigit \/ CloseQuote
        BY <2>5, <3>1 DEF EndInt, EndFrac
      <4> QED
        BY <1>1, <2>2, <3>1, <4>1, RefuseArray DEF ReadBook
    <3>2. CASE pc' # "done"
      <4>1. ArrayInv'
        BY <1>1, <2>5, <3>2, DigitsArray, CloseQuoteArray
      <4>2. side' = side /\ ret' = ret /\ InArray'
        BY <2>5, <3>2 DEF IntDigit, EndInt, FracDigit, EndFrac, CloseQuote, InArray, Return
      <4>3. SidesInv' /\ IntactInv'
        BY <1>1, <2>1, <4>2, SidesStay
      <4> QED
        BY <2>2, <4>1, <4>3 DEF ReadBook
    <3> QED
      BY <3>1, <3>2
  <2> QED
    BY <1>7, <2>3, <2>4, <2>5
<1> QED
  BY <1>2, <1>3, <1>4, <1>5, <1>6, <1>7 DEF Next

\* Whatever happens to a frame on its way within what Delivered allows, for
\* books of any size, texts of any length and words of any width: an intact
\* frame is read as the first Depth levels with an amount of each side and its
\* number; a damaged one is refused or read as what was sent, except that
\* Bitstamp may lose a whole side or the number.
THEOREM WalkerReadsTheBook == Spec => []WalkReadsTheBook
<1>1. RetInv /\ ReadBook => WalkReadsTheBook
  <2> SUFFICES ASSUME RetInv, ReadBook PROVE WalkReadsTheBook
    OBVIOUS
  <2>1. ASSUME ret = "some"
        PROVE  /\ SideRead("bids") /\ SideRead("asks") /\ pc # "number"
    BY <2>1 DEF ReadBook, SidesInv, RetInv
  <2>2. ret = "some" => SideRead("bids") /\ SideRead("asks")
    BY <2>1
  <2>3. frame.intact /\ pc = "done" => ret = "some" /\ book.seq = ParseU64(frame.sent.number)
    BY DEF ReadBook, IntactInv, NumberInv
  <2>4. frame.handler = "bitstamp" => book.seq \in {ParseU64(frame.sent.number), 0}
    BY DEF ReadBook, NumberInv
  <2> QED
    BY <2>2, <2>3, <2>4 DEF WalkReadsTheBook, SideRead
<1>2. Init /\ [][Next]_vars => [](IInv /\ RetInv /\ DecimalInv /\ PosInv /\ ReadBook)
  BY InitIInv, NextIInv, RetStays, InitDecimal, NextDecimal, InitPos, NextPos,
     InitReadBook, NextReadBook, PTL
<1> QED
  BY <1>1, <1>2, PTL DEF Spec

-----------------------------------------------------------------------------
\* The unchecked multiplication and addition of read_quoted_decimal never
\* wrap, whatever bytes a frame holds.
THEOREM WalkerUncheckedNeverWraps == Spec => []UncheckedNeverWraps
<1>1. IInv => UncheckedNeverWraps
  BY FractionFits, PowFacts DEF IInv, NumInv, UncheckedNeverWraps, KeepsDigit,
                                FracScale
<1> QED
  BY <1>1, SpecIInv, PTL

\* Whatever bytes a frame holds, the sides read from it hold at most Depth
\* levels, each of two words and with an amount.
THEOREM WalkerSidesFit == Spec => []SidesFit
<1>1. IInv => SidesFit
  BY DEF IInv, BookInv, SidesFit
<1> QED
  BY <1>1, SpecIInv, PTL

\* The spread of any book a walker can read is the signed difference of its
\* best prices whenever that fits, and zero when a side is empty.
THEOREM WalkerSpreadIsSigned == Spec => []SpreadIsSigned
<1>1. IInv => SpreadIsSigned
  <2> SUFFICES ASSUME IInv PROVE SpreadIsSigned
    OBVIOUS
  <2>1. ASSUME NEW s \in Seq(Levels), s # <<>> PROVE s[1].price \in Words
    <3>1. 1 \in 1..Len(s)
      BY <2>1
    <3>2. s[1] \in Levels
      BY <2>1, <3>1
    <3> QED
      BY <3>2 DEF Levels
  <2>2. book.asks \in Seq(Levels) /\ book.bids \in Seq(Levels)
    BY DEF IInv, BookInv, SideOK
  <2>3. CASE book.asks = <<>> \/ book.bids = <<>>
    BY <2>3 DEF SpreadIsSigned, SpreadRaw
  <2>4. CASE book.asks # <<>> /\ book.bids # <<>>
    <3>1. book.asks[1].price \in Words /\ book.bids[1].price \in Words
      BY <2>1, <2>2, <2>4
    <3>2. SpreadRaw(book.asks, book.bids) =
              SignedDifference(book.asks[1].price, book.bids[1].price)
      BY <2>4 DEF SpreadRaw
    <3> QED
      BY <2>4, <3>1, <3>2, SignedDifferenceIsExact DEF SpreadIsSigned
  <2> QED
    BY <2>3, <2>4
<1> QED
  BY <1>1, SpecIInv, PTL
=============================================================================
