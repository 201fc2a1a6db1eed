------------------------------- MODULE Frames -------------------------------
(***************************************************************************)
(* The text frames of the exchanges, as far as the walkers depend on them: *)
(* bytes, keys, arrays of price levels, and what may happen to a frame on  *)
(* its way.  A byte is a number: digits 0..9, the bytes the scanner tells  *)
(* apart, and one number for each name that stands between quotes.         *)
(* Positions start at 1 here, at 0 in the code.                            *)
(***************************************************************************)
EXTENDS FixedPoint

QUOTE == 11
COLON == 12
COMMA == 13
OPEN == 14                  \* [
CLOSE == 15                 \* ]
ESC == 16                   \* \
WS == 17
PLUS == 18
ANY == 19                   \* any other byte
LASTUPDATEID == 20
MICROTIMESTAMP == 21
BIDS == 22
ASKS == 23
EVENT == 24
DATA == 25                  \* "data", an event
OTHEREVENT == 26            \* "bts:subscription_succeeded", "bts:error"

\* The text w stands in b at p.
Holds(b, p, c) == p \in DOMAIN b /\ b[p] = c
Stands(b, p, w) == \A i \in 1..Len(w) : Holds(b, p + i - 1, w[i])

Key(name) == <<QUOTE, name, QUOTE, COLON>>
Quoted(text) == <<QUOTE>> \o text \o <<QUOTE>>

\* The places behind a key and its colon.
Behind(b, name) == {p \in 5..(Len(b) + 1) : Stands(b, p - 4, Key(name))}

\* A level, and an array of them as far as each level and what follows it.
Pair(l) == <<OPEN>> \o Quoted(l.price) \o <<COMMA>> \o Quoted(l.amount) \o <<CLOSE>>
Upto(levels) ==
    LET bytes[k \in 0..Len(levels)] ==
            IF k = 0 THEN <<OPEN>>
            ELSE bytes[k - 1] \o Pair(levels[k])
                     \o <<IF k = Len(levels) THEN CLOSE ELSE COMMA>>
    IN  bytes
ArrayText(levels) ==
    IF levels = <<>> THEN <<OPEN, CLOSE>> ELSE Upto(levels)[Len(levels)]

-----------------------------------------------------------------------------
(* A frame f is what arrives, f.buf, for f.handler; f.sent is the book that *)
(* was sent: the text of its number and the levels of each side.            *)

Payload == Seq(Nat \ {QUOTE, ESC})
SentLevels == [price : Payload, amount : Payload]
SentBooks == [number : Payload, bids : Seq(SentLevels), asks : Seq(SentLevels)]
FrameOK(f) == /\ f.handler \in {"binance", "bitstamp"} /\ f.buf \in Seq(Nat)
              /\ f.sent \in SentBooks /\ f.intact \in BOOLEAN

\* What stands at p is w as it was sent, at least up to where the frame ends
\* or holds a byte that no array and no number has.
Breaks(b, p) == p = Len(b) + 1 \/ \E c \in {ESC, WS, ANY} : Holds(b, p, c)
Arrives(b, p, w) ==
    \A i \in 1..Len(w) : \/ Holds(b, p + i - 1, w[i]) \/ Breaks(b, p + i - 1)
                         \/ \E j \in 1..(i - 1) : ~Holds(b, p + j - 1, w[j])

\* Bytes may be lost from some place on or become others that do not look
\* like data; keys may be lost, repeated and change places.
Delivered(f) ==
    /\ \A p \in Behind(f.buf, BIDS) : Arrives(f.buf, p, ArrayText(f.sent.bids))
    /\ \A p \in Behind(f.buf, ASKS) : Arrives(f.buf, p, ArrayText(f.sent.asks))
    /\ \A p \in Behind(f.buf, MICROTIMESTAMP) : \A q \in p..Len(f.buf) :
          (\A j \in p..(q - 1) : Holds(f.buf, j, WS)) /\ Holds(f.buf, q, QUOTE)
              => Arrives(f.buf, q, Quoted(f.sent.number))

\* The number: Binance's stands alone, Bitstamp's is quoted.
NumberText(f) == IF f.handler = "binance" THEN f.sent.number ELSE Quoted(f.sent.number)
NumberStands(f, p) ==
    LET number == f.sent.number IN
    /\ number # <<>> /\ \A i \in 1..Len(number) : number[i] \in Digits
    /\ Stands(f.buf, p, NumberText(f))
    /\ \A d \in Digits : ~Holds(f.buf, p + Len(NumberText(f)), d)

\* A frame as an exchange sends it: number, bids and asks in this order, each
\* key once, every text a decimal that fits.
WellFormed(f) ==
    LET b == f.buf
        bids == ArrayText(f.sent.bids)
        asks == ArrayText(f.sent.asks)
        key == IF f.handler = "binance" THEN LASTUPDATEID ELSE MICROTIMESTAMP
    IN  /\ \E n \in Behind(b, key), p \in Behind(b, BIDS), q \in Behind(b, ASKS) :
              /\ Behind(b, key) = {n} /\ Behind(b, BIDS) = {p} /\ Behind(b, ASKS) = {q}
              /\ NumberStands(f, n) /\ n + Len(NumberText(f)) <= p - 4
              /\ Stands(b, p, bids) /\ p + Len(bids) <= q - 4
              /\ Stands(b, q, asks)
        /\ \A s \in {f.sent.bids, f.sent.asks} : \A k \in 1..Len(s) :
              Parse(s[k].price) # None /\ Parse(s[k].amount) # None
=============================================================================
