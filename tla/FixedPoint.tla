----------------------------- MODULE FixedPoint -----------------------------
(***************************************************************************)
(* FixedPoint of src/types.rs, decimals as multiples of 1/SCALE in one     *)
(* unsigned word, and the spread that merge() of src/merger.rs takes of    *)
(* two of them.  A text is a sequence of bytes; the digits are the numbers *)
(* 0..9, every other byte is a number of its own.                          *)
(***************************************************************************)
EXTENDS Integers, SequencesExt

CONSTANTS
    FracDigits,             \* fractional digits kept: 8
    POW10,                  \* the table of powers of ten, by exponent
    Word                    \* 2^64

ASSUME FixedPointAssumption ==
    /\ FracDigits \in Nat \ {0}
    /\ POW10 \in [0..FracDigits -> Nat \ {0}]
    /\ POW10[0] = 1 /\ POW10[1] = 10
    /\ \A m, n \in 0..FracDigits :
          m + n <= FracDigits => POW10[m + n] = POW10[m] * POW10[n]
    /\ Word \in Nat /\ Word % 2 = 0 /\ POW10[FracDigits] < Word

Digits == 0..9
DOT == 10

SCALE == POW10[FracDigits]
Words == 0..(Word - 1)
None == -1

\* The number that the first k of the digits denote, for each k.
Horner(digits) ==
    LET value[k \in 0..Len(digits)] ==
            IF k = 0 THEN 0 ELSE 10 * value[k - 1] + digits[k]
    IN  value

ValueOf(digits) == Horner(digits)[Len(digits)]

\* checked_mul, checked_add: a value that does not fit is None.
Checked(v) == IF v < Word THEN v ELSE None

\* frac_part of a number with these fractional digits: those that are kept,
\* padded with zeros to FracDigits.
Fraction(digits) ==
    LET kept == SubSeq(digits, 1, IF Len(digits) < FracDigits
                                  THEN Len(digits) ELSE FracDigits)
    IN  ValueOf(kept) * POW10[FracDigits - Len(kept)]

\* The text before the first dot, and the text after it.
IntText(s) == IF Contains(s, DOT) THEN SubSeq(s, 1, SelectInSeq(s, LAMBDA c : c = DOT) - 1)
              ELSE s
FracText(s) == SubSeq(s, Len(IntText(s)) + 2, Len(s))

IsDecimal(s) ==
    /\ ToSet(IntText(s)) \subseteq Digits /\ ToSet(FracText(s)) \subseteq Digits
    /\ \E k \in 1..Len(s) : s[k] \in Digits

\* FixedPoint::parse: the integer part alone overflows only if the sum does.
Parse(s) ==
    IF IsDecimal(s) THEN Checked(ValueOf(IntText(s)) * SCALE + Fraction(FracText(s)))
    ELSE None

\* The power of ten: a one with n zeros behind it.
TenTo(n) == ValueOf([j \in 1..(n + 1) |-> IF j = 1 THEN 1 ELSE 0])

\* n in decimal, with k digits, and how many it has.
Padded(n, k) == [j \in 1..k |-> (n \div TenTo(k - j)) % 10]
Width(n) ==
    CHOOSE k \in 1..(n + 1) : n < TenTo(k) /\ \A j \in 1..(k - 1) : n >= TenTo(j)

\* Display: "{int}.{frac:08}".
Display(v) ==
    Padded(v \div SCALE, Width(v \div SCALE)) \o <<DOT>> \o Padded(v % SCALE, FracDigits)

\* A word read as a signed one ("as i64").
AsI64(v) == IF v < Word \div 2 THEN v ELSE v - Word

\* Mutant: the difference stays unsigned.
SignedDifferenceNot(ask, bid) == (ask - bid) % Word

\* ask as i64 - bid as i64, wrapping, as it is built for release.
SignedDifference(ask, bid) == AsI64((AsI64(ask) - AsI64(bid)) % Word)

\* spread_raw of a summary: 0 unless both sides have a level.
SpreadRaw(asks, bids) ==
    IF asks # <<>> /\ bids # <<>>
    THEN SignedDifference(asks[1].price, bids[1].price)
    ELSE 0
=============================================================================
