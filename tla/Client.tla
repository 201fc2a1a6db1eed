------------------------------- MODULE Client -------------------------------
(***************************************************************************)
(* The terminal client of src/client.rs: main connects, takes the terminal *)
(* over, and then waits for a message or a tick, draws, and looks for one  *)
(* key event, until a quit key, the end of the stream or an error.  The    *)
(* terminal library and the stream are external; a side of a summary is    *)
(* the sequence of its levels' amounts, best first.                        *)
(***************************************************************************)
EXTENDS Integers, SequencesExt

CONSTANTS
    Summaries,              \* [bids, asks]: what the server may send
    MAX_DISPLAY,            \* capacity of the running totals
    BAR_WIDTH,              \* length of a full bar
    MaxKeys,                \* bound: key events
    MaxUpdates              \* bound: messages

ASSUME ClientAssumption ==
    /\ MAX_DISPLAY \in Nat /\ BAR_WIDTH \in Nat
    /\ MaxKeys \in Nat /\ MaxUpdates \in Nat
    /\ \A s \in Summaries :
          /\ s.bids \in Seq(Nat \ {0}) /\ Len(s.bids) <= MAX_DISPLAY
          /\ s.asks \in Seq(Nat \ {0}) /\ Len(s.asks) <= MAX_DISPLAY

VARIABLES
    pc,                     \* where main is
    result,                 \* how it ended
    raw,                    \* the terminal is in raw mode
    guard,                  \* the TermGuard lives
    summary,                \* app.summary
    updates,                \* app.updates
    screen,                 \* what was drawn last
    keys,                   \* events that wait to be read
    pressed                 \* how many there were (history)

appVars == <<summary, updates>>
keyVars == <<keys, pressed>>
vars == <<pc, result, raw, guard, summary, updates, screen, keys, pressed>>

NoSummary == [bids |-> <<-1>>, asks |-> <<-1>>]
Waiting == "Waiting for data..."

Init ==
    /\ pc = "connect" /\ result = "none"
    /\ raw = FALSE /\ guard = FALSE
    /\ summary = NoSummary /\ updates = 0
    /\ screen = [text |-> "none"]
    /\ keys = <<>> /\ pressed = 0

-----------------------------------------------------------------------------
(* render, format_level                                                    *)

\* total after each of the first n levels.
Totals(side, n) ==
    LET total[k \in 0..n] == IF k = 0 THEN 0 ELSE total[k - 1] + side[k]
    IN  total

\* The total of each level and the ones before it, as many as fit.
Cumulative(side) ==
    LET n == IF Len(side) < MAX_DISPLAY THEN Len(side) ELSE MAX_DISPLAY
    IN  [k \in 1..n |-> Totals(side, n)[k]]

MaxDepth(s) ==
    Max(ToSet(Cumulative(s.asks)) \union ToSet(Cumulative(s.bids)) \union {0})

\* round(cumulative / max_depth * BAR_WIDTH)
BarLen(cumulative, max_depth) ==
    IF max_depth > 0
    THEN (2 * cumulative * BAR_WIDTH + max_depth) \div (2 * max_depth)
    ELSE 0

\* One row per level; a level beyond the totals has total 0.
Rows(side, totals, max_depth) ==
    [k \in DOMAIN side |->
        LET total == IF k \in DOMAIN totals THEN totals[k] ELSE 0
        IN  [amount |-> side[k], total |-> total, bar |-> BarLen(total, max_depth)]]

\* Mutant: the totals stay in the server's order.
AskTotalsUnreversed(s) == Cumulative(s.asks)

AskTotals(s) == Reverse(Cumulative(s.asks))

\* The asks come best first and are shown worst first.
Render(s) ==
    IF s = NoSummary THEN [text |-> Waiting]
    ELSE [asks |-> Rows(Reverse(s.asks), AskTotals(s), MaxDepth(s)),
          bids |-> Rows(s.bids, Cumulative(s.bids), MaxDepth(s))]

-----------------------------------------------------------------------------
(* main                                                                    *)

\* TermGuard's drop: the terminal is restored on every return.
Return(r) == pc' = "gone" /\ result' = r /\ guard' = FALSE
             /\ raw' = (raw /\ ~guard)

\* connect and book_summary, before the terminal is touched.
ConnectStream ==
    /\ pc = "connect"
    /\ \/ pc' = "init" /\ UNCHANGED <<result, raw, guard>>
       \/ Return("error")
    /\ UNCHANGED screen /\ UNCHANGED appVars /\ UNCHANGED keyVars

\* Mutant: the guard is made once clear() has succeeded.
GuardAtInitLate == FALSE

\* The guard is made before anything can fail.
GuardAtInit == TRUE

\* ratatui::init, then the guard.  When init fails it panics, and the hook it
\* has set undoes what it did to the terminal.
InitTerminal ==
    /\ pc = "init"
    /\ \/ raw' = TRUE /\ guard' = GuardAtInit /\ pc' = "clear" /\ UNCHANGED result
       \/ Return("panic")
    /\ UNCHANGED screen /\ UNCHANGED appVars /\ UNCHANGED keyVars

Clear ==
    /\ pc = "clear"
    /\ \/ pc' = "select" /\ guard' = TRUE /\ UNCHANGED <<result, raw>>
       \/ Return("error")
    /\ UNCHANGED screen /\ UNCHANGED appVars /\ UNCHANGED keyVars

\* select!: a summary.
Message(s) ==
    /\ pc = "select" /\ updates < MaxUpdates
    /\ summary' = s /\ updates' = updates + 1
    /\ pc' = "draw"
    /\ UNCHANGED <<result, raw, guard, screen>> /\ UNCHANGED keyVars

\* select!: the stream ends, or fails.
StreamOver ==
    /\ pc = "select"
    /\ Return("ok") \/ Return("error")
    /\ UNCHANGED screen /\ UNCHANGED appVars /\ UNCHANGED keyVars

\* Mutant: a tick goes back to the wait at once.
AfterTickContinue == "select"

AfterTick == "draw"

\* select!: a second has passed.
Tick ==
    /\ pc = "select"
    /\ pc' = AfterTick
    /\ UNCHANGED <<result, raw, guard, screen>> /\ UNCHANGED appVars
    /\ UNCHANGED keyVars

Draw ==
    /\ pc = "draw"
    /\ \/ /\ screen' = Render(summary) /\ pc' = "poll"
          /\ UNCHANGED <<result, raw, guard>>
       \/ Return("error") /\ UNCHANGED screen
    /\ UNCHANGED appVars /\ UNCHANGED keyVars

\* poll and read: at most one event, and the loop goes on unless it is q,
\* Esc or Ctrl-C.
Poll ==
    /\ pc = "poll"
    /\ \/ keys = <<>> /\ pc' = "select" /\ UNCHANGED <<result, raw, guard, keys>>
       \/ /\ keys # <<>> /\ keys' = Tail(keys)
          /\ IF Head(keys) = "quit" THEN Return("ok")
             ELSE pc' = "select" /\ UNCHANGED <<result, raw, guard>>
       \/ Return("error") /\ UNCHANGED keys
    /\ UNCHANGED <<screen, pressed>> /\ UNCHANGED appVars

\* The user: a quit key, or any other event, a release or a resize too.
Press(k) ==
    /\ raw /\ pressed < MaxKeys
    /\ keys' = Append(keys, k) /\ pressed' = pressed + 1
    /\ UNCHANGED <<pc, result, raw, guard, screen>> /\ UNCHANGED appVars

Step == ConnectStream \/ InitTerminal \/ Clear \/ Draw \/ Poll

Next ==
    \/ Step \/ Tick \/ StreamOver
    \/ \E s \in Summaries : Message(s)
    \/ \E k \in {"quit", "other"} : Press(k)

Spec == Init /\ [][Next]_vars

\* main runs and a second passes; nothing makes a message come.
Fairness == WF_vars(Step) /\ WF_vars(Tick)

FairSpec == Spec /\ Fairness

-----------------------------------------------------------------------------
\* "Ensures the terminal is restored": whichever call of main fails, the
\* terminal is not left in raw mode.
TerminalRestored == pc = "gone" => ~raw

\* A quit key ends the client on a stream that stays silent and whatever
\* events wait before it: they are read one per pass, a tick comes without a
\* message, and a message in between takes nothing from the keys.
QuitIsHeeded == Contains(keys, "quit") ~> pc = "gone"

\* Every row shows, next to its amount, what can be traded up to it: its own
\* amount and those of the better levels, which for the asks are the rows
\* below; no bar is longer than BAR_WIDTH, and the deepest total has that.
RowsShowRunningTotals ==
    "bids" \in DOMAIN screen =>
        LET a == screen.asks
            b == screen.bids
            Total(rows, k) == IF k \in DOMAIN rows THEN rows[k].total ELSE 0
        IN  /\ \A k \in DOMAIN a : a[k].total = a[k].amount + Total(a, k + 1)
            /\ \A k \in DOMAIN b : b[k].total = b[k].amount + Total(b, k - 1)
            /\ \A r \in ToSet(a) \union ToSet(b) : r.bar \in 0..BAR_WIDTH
            /\ a \o b # <<>> =>
                  \E r \in ToSet(a) \union ToSet(b) :
                      /\ r.bar = BAR_WIDTH
                      /\ \A q \in ToSet(a) \union ToSet(b) : q.total <= r.total
=============================================================================
