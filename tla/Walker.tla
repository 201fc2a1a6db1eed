------------------------------- MODULE Walker -------------------------------
(***************************************************************************)
(* walk() of src/exchange/binance.rs and bitstamp.rs over the Scanner of   *)
(* src/json_walker.rs: one forward pass over a text frame that seeks three *)
(* keys and reads a number and two arrays of price levels, decimals        *)
(* straight into fixed-point words.  One action per iteration of its       *)
(* loops.  Frames says what bytes are and where a frame comes from.        *)
(***************************************************************************)
EXTENDS Frames

CONSTANTS
    Depth,                  \* DEPTH, the capacity of an ArrayVec of levels
    Inputs                  \* the frames: [handler, buf, sent, intact]

ASSUME WalkerAssumption ==
    /\ Depth \in Nat \ {0}
    /\ \A f \in Inputs : FrameOK(f)

\* Only WalkReadsTheBook, which compares a walk with the book that was sent,
\* depends on how frames come about.
ASSUME DeliveryAssumption ==
    \A f \in Inputs : Delivered(f) /\ (f.intact => WellFormed(f))

VARIABLES
    frame,                  \* the input
    pos,                    \* the scanner's position
    pc,                     \* where walk is
    side,                   \* the side it reads: "bids" or "asks"
    field,                  \* of a level: "price" or "amount"
    num,                    \* the decimal it reads, from position num.from on
    level,                  \* the level it reads
    book,                   \* what has been read
    ret                     \* "none", "some" or "panic" once it has returned

vars == <<frame, pos, pc, side, field, num, level, book, ret>>

Zero(p) == [int_part |-> 0, int_digits |-> 0, frac_part |-> 0,
            frac_digits |-> 0, from |-> p]

Init ==
    /\ frame \in Inputs
    /\ pos = 1 /\ pc = "number" /\ ret = "running"
    /\ side = "bids" /\ field = "price"
    /\ num = Zero(0) /\ level = [price |-> 0, amount |-> 0]
    /\ book = [seq |-> 0, has_data |-> FALSE, bids |-> <<>>, asks |-> <<>>,
               event |-> <<>>]

-----------------------------------------------------------------------------
(* The scanner.                                                            *)

buf == frame.buf
End == Len(buf) + 1

\* peek, expect_byte: the byte at p is c.
At(p, c) == Holds(buf, p, c)

\* seek: the first place from p on behind the key and its colon, or None.
\* Slicing the buffer beyond its end panics.
Seek(p, key) ==
    LET ends == {q \in Behind(buf, key) : q - 4 >= p}
    IN  IF ends = {} THEN None ELSE Min(ends)

\* skip_ws
SkipWs(p) == Min({q \in p..End : ~At(q, WS)})

\* An escape takes the byte behind it along: the byte at q is skipped if an
\* odd run of escapes ends before it, in a string that begins at p.
Escaped(p, q) ==
    LET run == Max({k \in 0..(q - p) : \A j \in 1..k : At(q - j, ESC)})
    IN  run % 2 = 1

\* The quote that ends the string, or None.
StringEnd(p) ==
    LET quotes == {q \in p..Len(buf) : At(q, QUOTE) /\ ~Escaped(p, q)}
    IN  IF quotes = {} THEN None ELSE Min(quotes)

NoText == <<None>>

\* The last byte of the frame is an escape: the scan ends one byte beyond it.
AfterEscape(p) == Escaped(p, End)

\* read_string from p: its text or NoText, and the position it leaves.
ReadString(p) ==
    LET q == SkipWs(p)
        e == StringEnd(q + 1)
    IN  IF ~At(q, QUOTE) THEN [text |-> NoText, pos |-> q]
        ELSE IF e = None
        THEN [text |-> NoText, pos |-> IF AfterEscape(q + 1) THEN End + 1 ELSE End]
        ELSE [text |-> SubSeq(buf, q + 1, e - 1), pos |-> e + 1]

\* The end of the run of digits at p.
DigitsEnd(p) == Min({q \in p..End : q = End \/ buf[q] \notin Digits})

\* read_u64 from p: digits that overflow are 0, and the scan stays there.
ReadU64(p) ==
    LET q == SkipWs(p)
        e == DigitsEnd(q)
        Fits(k) == ValueOf(SubSeq(buf, q, k - 1)) < Word
    IN  IF Fits(e) THEN [value |-> ValueOf(SubSeq(buf, q, e - 1)), pos |-> e]
        ELSE [value |-> 0, pos |-> Max({k \in q..e : Fits(k)})]

\* str::parse::<u64>, or 0.
ParseU64(text) ==
    LET digits == IF Len(text) > 1 /\ text[1] = PLUS THEN Tail(text) ELSE text
    IN  IF digits # <<>> /\ ToSet(digits) \subseteq Digits /\ ValueOf(digits) < Word
        THEN ValueOf(digits) ELSE 0

-----------------------------------------------------------------------------
(* walk                                                                    *)

Return(r) == pc' = "done" /\ ret' = r

\* Binance: lastUpdateId, a number that need not be there.
ReadLastUpdateId ==
    /\ pc = "number" /\ frame.handler = "binance"
    /\ LET p == Seek(1, LASTUPDATEID) IN
          IF p = None THEN UNCHANGED <<pos, book>>
          ELSE /\ pos' = ReadU64(p).pos
               /\ book' = [book EXCEPT !.seq = ReadU64(p).value]
    /\ pc' = "seek"
    /\ UNCHANGED <<frame, side, field, num, level, ret>>

\* Bitstamp: microtimestamp, a string; a frame without it is no data event.
ReadMicrotimestamp ==
    /\ pc = "number" /\ frame.handler = "bitstamp"
    /\ LET p == Seek(1, MICROTIMESTAMP)
           r == ReadString(p)
       IN  IF p = None THEN UNCHANGED <<pos, book>>
           ELSE /\ pos' = r.pos
                /\ book' = [book EXCEPT !.has_data = TRUE,
                               !.seq = IF r.text = NoText THEN 0 ELSE ParseU64(r.text)]
    /\ pc' = "seek"
    /\ UNCHANGED <<frame, side, field, num, level, ret>>

\* The side has been read: asks after bids, then the end.
EndSide ==
    IF side = "bids" THEN side' = "asks" /\ pc' = "seek"
    ELSE pc' = "finish" /\ UNCHANGED side

\* Seek the side's key.  Binance needs it; for Bitstamp the side is empty
\* without it.  Slicing the frame beyond its end panics.
SeekSide ==
    /\ pc = "seek"
    /\ LET p == Seek(pos, IF side = "bids" THEN BIDS ELSE ASKS) IN
          \/ pos > End /\ Return("panic") /\ UNCHANGED <<pos, side>>
          \/ /\ pos <= End /\ p # None
             /\ pos' = p /\ pc' = "array"
             /\ UNCHANGED <<side, ret>>
          \/ /\ pos <= End /\ p = None
             /\ IF frame.handler = "binance" THEN Return("none") /\ UNCHANGED side
                ELSE EndSide /\ UNCHANGED ret
             /\ UNCHANGED pos
    /\ UNCHANGED <<frame, field, num, level, book>>

\* A book, or for Bitstamp without data an event, whose name is sought from
\* the start.
Finish ==
    /\ pc = "finish"
    /\ LET p == Seek(1, EVENT)
           name == ReadString(p).text
       IN  \/ /\ frame.handler = "binance" \/ book.has_data
              /\ book' = [book EXCEPT !.event = <<DATA>>]
              /\ Return("some")
           \/ /\ frame.handler = "bitstamp" /\ ~book.has_data
              /\ IF p = None THEN Return("none") /\ UNCHANGED book
                 ELSE IF name = NoText THEN Return("none") /\ UNCHANGED book
                 ELSE Return("some") /\ book' = [book EXCEPT !.event = name]
    /\ UNCHANGED <<frame, pos, side, field, num, level>>

-----------------------------------------------------------------------------
(* read_raw_levels                                                         *)

\* The byte at pos is none that the walk can go on from.
Reject ==
    /\ \/ pc \in {"array", "level"} /\ ~At(pos, OPEN)
       \/ pc = "quote" /\ ~At(pos, QUOTE)
       \/ pc = "comma" /\ ~At(pos, COMMA)
       \/ pc = "pair" /\ ~At(pos, CLOSE)
       \/ pc = "next" /\ ~At(pos, COMMA) /\ ~At(pos, CLOSE)
    /\ Return("none")
    /\ UNCHANGED <<frame, pos, side, field, num, level, book>>

OpenArray ==
    /\ pc = "array" /\ At(pos, OPEN)
    /\ IF At(pos + 1, CLOSE) THEN pos' = pos + 2 /\ EndSide
       ELSE pos' = pos + 1 /\ pc' = "level" /\ UNCHANGED side
    /\ UNCHANGED <<frame, field, num, level, book, ret>>

OpenLevel ==
    /\ pc = "level" /\ At(pos, OPEN)
    /\ pos' = pos + 1 /\ pc' = "quote" /\ field' = "price"
    /\ UNCHANGED <<frame, side, num, level, book, ret>>

\* Between price and amount.
PriceComma ==
    /\ pc = "comma" /\ At(pos, COMMA)
    /\ pos' = pos + 1 /\ pc' = "quote" /\ field' = "amount"
    /\ UNCHANGED <<frame, side, num, level, book, ret>>

\* Mutant: a cleared level is kept.
IsClearedNever(l) == FALSE

IsCleared(l) == l.amount = 0

\* The pair is closed: push it, unless its amount is zero.  An ArrayVec that
\* is full refuses it, and the side is done.
CloseLevel ==
    /\ pc = "pair" /\ At(pos, CLOSE)
    /\ pos' = pos + 1
    /\ IF ~IsCleared(level) /\ Len(book[side]) = Depth
       THEN EndSide /\ UNCHANGED book
       ELSE /\ pc' = "next" /\ UNCHANGED side
            /\ book' = [book EXCEPT ![side] =
                           IF IsCleared(level) THEN @ ELSE Append(@, level)]
    /\ UNCHANGED <<frame, field, num, level, ret>>

\* After a comma the side is done if it is full, whatever follows.
NextLevel ==
    /\ pc = "next" /\ At(pos, COMMA)
    /\ pos' = pos + 1
    /\ IF Len(book[side]) = Depth THEN EndSide ELSE pc' = "level" /\ UNCHANGED side
    /\ UNCHANGED <<frame, field, num, level, book, ret>>

CloseArray ==
    /\ pc = "next" /\ At(pos, CLOSE)
    /\ pos' = pos + 1 /\ EndSide
    /\ UNCHANGED <<frame, field, num, level, book, ret>>

-----------------------------------------------------------------------------
(* read_quoted_decimal                                                     *)

OpenQuote ==
    /\ pc = "quote" /\ At(pos, QUOTE)
    /\ pos' = pos + 1 /\ pc' = "int" /\ num' = Zero(pos + 1)
    /\ UNCHANGED <<frame, side, field, level, book, ret>>

IntEnd == pos = End \/ At(pos, DOT) \/ At(pos, QUOTE)

IntDigit ==
    /\ pc = "int" /\ ~IntEnd
    /\ IF buf[pos] \in Digits /\ num.int_part * 10 + buf[pos] < Word
       THEN /\ num' = [num EXCEPT !.int_part = @ * 10 + buf[pos],
                                  !.int_digits = @ + 1]
            /\ pos' = pos + 1
            /\ UNCHANGED <<pc, ret>>
       ELSE Return("none") /\ UNCHANGED <<num, pos>>
    /\ UNCHANGED <<frame, side, field, level, book>>

EndInt ==
    /\ pc = "int" /\ IntEnd
    /\ IF At(pos, DOT) THEN pos' = pos + 1 /\ pc' = "frac"
       ELSE pc' = "close" /\ UNCHANGED pos
    /\ UNCHANGED <<frame, side, field, num, level, book, ret>>

FracEnd == pos = End \/ At(pos, QUOTE)
KeepsDigit == num.frac_digits < FracDigits

\* Mutant: what follows the digits that are kept is skipped unseen.
FracByteOkUnseen == buf[pos] \in Digits \/ ~KeepsDigit

FracByteOk == buf[pos] \in Digits

\* The digits that are kept, in unchecked arithmetic, and those skipped.
FracDigit ==
    /\ pc = "frac" /\ ~FracEnd
    /\ IF FracByteOk
       THEN /\ num' = IF KeepsDigit
                      THEN [num EXCEPT !.frac_part = (@ * 10 + buf[pos]) % Word,
                                       !.frac_digits = @ + 1]
                      ELSE num
            /\ pos' = pos + 1
            /\ UNCHANGED <<pc, ret>>
       ELSE Return("none") /\ UNCHANGED <<num, pos>>
    /\ UNCHANGED <<frame, side, field, level, book>>

EndFrac ==
    /\ pc = "frac" /\ FracEnd
    /\ pc' = "close"
    /\ UNCHANGED <<frame, pos, side, field, num, level, book, ret>>

\* Mutant: the fraction is scaled by the digits it has.
FracScaleSwapped == POW10[num.frac_digits]

FracScale == POW10[FracDigits - num.frac_digits]

\* The word that was read, or None: no digit, no closing quote, an overflow.
Decimal ==
    IF num.int_digits + num.frac_digits > 0 /\ At(pos, QUOTE)
    THEN Checked(num.int_part * SCALE + ((num.frac_part * FracScale) % Word))
    ELSE None

CloseQuote ==
    /\ pc = "close"
    /\ IF Decimal = None THEN Return("none") /\ UNCHANGED <<pos, level>>
       ELSE /\ level' = [level EXCEPT ![field] = Decimal]
            /\ pos' = pos + 1
            /\ pc' = IF field = "price" THEN "comma" ELSE "pair"
            /\ UNCHANGED ret
    /\ UNCHANGED <<frame, side, field, num, book>>

-----------------------------------------------------------------------------
Next ==
    \/ ReadLastUpdateId \/ ReadMicrotimestamp \/ SeekSide \/ Finish
    \/ Reject \/ OpenArray \/ OpenLevel \/ PriceComma \/ CloseLevel
    \/ NextLevel \/ CloseArray
    \/ OpenQuote \/ IntDigit \/ EndInt \/ FracDigit \/ EndFrac \/ CloseQuote

Spec == Init /\ [][Next]_vars

-----------------------------------------------------------------------------
\* The text of the decimal that was begun last: up to a quote.
TextEnd == Min({q \in num.from..End : q = End \/ At(q, QUOTE)})
Text == SubSeq(buf, num.from, TextEnd - 1)

\* read_quoted_decimal accepts the same texts as FixedPoint::parse, with the
\* same values: too many digits, none, a bare dot, a second dot, a value
\* beyond a word.
FusedAgreesWithParse ==
    num.from > 0 /\ At(TextEnd, QUOTE) =>
        /\ pc = "close" => Decimal = Parse(Text)
        /\ ret = "none" /\ pos < TextEnd => Parse(Text) = None

\* A decimal is rounded down to a multiple of 1/SCALE, never to a neighbour,
\* and what Display makes of the word is read back as the same word.
DecimalIsRoundedDown ==
    pc = "close" /\ Decimal # None =>
        LET unit == TenTo(Len(FracText(Text)))
            exact == ValueOf(IntText(Text) \o FracText(Text)) * SCALE
        IN  /\ Decimal * unit <= exact /\ exact < (Decimal + 1) * unit
            /\ Parse(Display(Decimal)) = Decimal

\* What the sender's levels are as a side of a book: those with an amount,
\* up to each level, and of all of them as many as fit.
WithAmount(levels) ==
    LET kept[k \in 0..Len(levels)] ==
            IF k = 0 THEN <<>>
            ELSE IF Parse(levels[k].amount) = 0 THEN kept[k - 1]
            ELSE Append(kept[k - 1], [price |-> Parse(levels[k].price),
                                      amount |-> Parse(levels[k].amount)])
    IN  kept
Expected(levels) ==
    LET kept == WithAmount(levels)[Len(levels)]
    IN  SubSeq(kept, 1, IF Len(kept) < Depth THEN Len(kept) ELSE Depth)

\* Slicing beyond the end of a frame happens to Bitstamp only, and only when
\* the frame ends in an escape.
PanicNeedsEscape == ret = "panic" => frame.handler = "bitstamp" /\ At(Len(buf), ESC)

\* "+2 is safe: if the backslash is the last byte, the while condition exits":
\* stepping over an escaped byte never makes a walk slice beyond its frame.
EscapeIsSafe == ret # "panic"

\* A frame that arrives as it was sent is read as the first Depth levels with
\* an amount of each side, and its number.  A book that is read from one that
\* was damaged is what was sent, except that Bitstamp may lose a side, never
\* part of one, or the number.
WalkReadsTheBook ==
    LET sent == frame.sent
        bids == Expected(sent.bids)
        asks == Expected(sent.asks)
        seq == ParseU64(sent.number)
    IN  /\ frame.intact /\ pc = "done" =>
              /\ ret = "some" /\ book.bids = bids /\ book.asks = asks
              /\ book.seq = seq
        /\ ret = "some" /\ frame.handler = "binance" =>
              book.bids = bids /\ book.asks = asks
        /\ ret = "some" /\ frame.handler = "bitstamp" =>
              /\ book.bids \in {bids, <<>>} /\ book.asks \in {asks, <<>>}
              /\ book.seq \in {seq, 0}

\* The spread of the book is the difference of its best prices, negative when
\* they cross, whenever that fits a signed word, even if the prices do not;
\* with one side empty it is zero (spread_raw).
SpreadIsSigned ==
    ret = "some" =>
        LET spread == SpreadRaw(book.asks, book.bids) IN
        IF book.asks = <<>> \/ book.bids = <<>> THEN spread = 0
        ELSE LET exact == book.asks[1].price - book.bids[1].price IN
             exact \in (-(Word \div 2))..(Word \div 2 - 1) => spread = exact
=============================================================================
