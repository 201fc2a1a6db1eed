------------------------------ MODULE MCWalker ------------------------------
(* Decimals with two fractional digits in a word of ten bits, books of two  *)
(* levels.  The frames are of three sorts: every short text as a price,     *)
(* books of up to three levels with cleared ones among them, and damaged    *)
(* copies of a few frames.                                                  *)
EXTENDS Walker

MCPow10 == [n \in 0..2 |-> 10^n]

Sides(bids, asks) ==
    Key(BIDS) \o ArrayText(bids) \o <<COMMA>> \o Key(ASKS) \o ArrayText(asks)

\* The order of the keys on the wire of each exchange.
Encode(handler, number, bids, asks) ==
    IF handler = "binance"
    THEN <<ANY>> \o Key(LASTUPDATEID) \o number \o <<COMMA>> \o Sides(bids, asks) \o <<ANY>>
    ELSE <<ANY>> \o Key(MICROTIMESTAMP) \o Quoted(number) \o <<COMMA>> \o Sides(bids, asks)
         \o <<COMMA>> \o Key(EVENT) \o Quoted(<<DATA>>) \o <<ANY>>

Handlers == {"binance", "bitstamp"}
Sent(number, bids, asks) == [number |-> number, bids |-> bids, asks |-> asks]
Intact(handler, number, bids, asks) ==
    [handler |-> handler, buf |-> Encode(handler, number, bids, asks),
     sent |-> Sent(number, bids, asks), intact |-> TRUE]
Level(p, a) == [price |-> p, amount |-> a]
Damaged(f, bytes) == [f EXCEPT !.buf = bytes, !.intact = FALSE]

\* Every text of up to five bytes as the price of an ask.
Texts == UNION {[1..n -> {0, 1, 9, DOT, ANY}] : n \in 0..5}
DecimalFrames ==
    {LET f == Intact("binance", <<7>>, <<Level(b, <<1>>)>>, <<Level(t, <<1>>)>>)
     IN  [f EXCEPT !.intact = FALSE] : t \in Texts, b \in {<<1>>, <<9>>}}

\* Books: amounts that are zero, become zero when rounded down, or are not.
Amounts == {<<2>>, <<0, DOT, 0>>, <<0, DOT, 0, 0, 9>>}
Arrays == UNION {[1..n -> {Level(<<3, DOT, n>>, a) : a \in Amounts}] : n \in 0..3}
BookFrames ==
    {Intact(h, number, bids, asks) :
        h \in Handlers, number \in {<<4, 2>>, <<1, 0, 2, 4>>},
        bids \in Arrays,
        asks \in {a \in Arrays : \A k \in DOMAIN a : a[k].amount # <<0, DOT, 0>>}}

\* One byte replaced, a space inserted, the rest cut off.
Faults(f) ==
    {Damaged(f, [f.buf EXCEPT ![k] = c]) : k \in DOMAIN f.buf, c \in {ANY, WS, ESC}}
    \union {Damaged(f, SubSeq(f.buf, 1, k)) : k \in 0..Len(f.buf)}
    \union {Damaged(f, SubSeq(f.buf, 1, k) \o <<c>>) : k \in 0..Len(f.buf), c \in {ESC}}
    \union {Damaged(f, InsertAt(f.buf, k, WS)) : k \in DOMAIN f.buf}
FullSide == [k \in 1..3 |-> Level(<<k, DOT, 5>>, <<k>>)]
FaultFrames ==
    UNION {Faults(Intact(h, <<4, 2>>, bids, <<Level(<<8>>, <<1>>)>>)) :
        h \in Handlers, bids \in {<<>>, <<Level(<<1>>, <<1>>)>>, FullSide}}

\* Keys in the other order, frames without a number, other events, a number
\* with a sign.
Event(name) == [handler |-> "bitstamp", intact |-> FALSE,
                sent |-> Sent(<<0>>, <<>>, <<>>),
                buf |-> Key(EVENT) \o name]
OddFrames ==
    LET l == <<Level(<<1>>, <<1>>)>>
        f(h) == Intact(h, <<4, 2>>, l, l)
        swapped == Key(ASKS) \o ArrayText(l) \o Key(BIDS) \o ArrayText(l)
    IN  {Damaged(f(h), swapped) : h \in Handlers}
        \union {Damaged(f(h), Sides(l, l)) : h \in Handlers}
        \union {Damaged(Intact("bitstamp", n, l, l),
                        Key(MICROTIMESTAMP) \o Quoted(n) \o Sides(l, l)) :
                    n \in {<<PLUS, 4, 2>>, <<PLUS>>}}
        \union {Damaged(f("bitstamp"),
                        Key(MICROTIMESTAMP) \o Quoted(<<4, ESC, QUOTE>>) \o Sides(l, l))}
        \union {Event(Quoted(<<OTHEREVENT>>)), Event(<<WS>> \o Quoted(<<DATA>>)),
                Event(<<ANY>>)}

MCInputs == DecimalFrames \union BookFrames \union FaultFrames \union OddFrames
=============================================================================
