------------------------------ MODULE WsAdapter ------------------------------
(***************************************************************************)
(* One exchange thread: the reconnection loop run_ws_loop and backoff_sleep *)
(* of src/exchange/mod.rs with the process_text of the Binance and the      *)
(* Bitstamp handler.  The network decides how each connection attempt and   *)
(* each read ends; cancellation can come between any two steps, and after   *)
(* it the merger may drop the receiving half of the slot at any moment.     *)
(* A text frame is a book with its sequence number (lastUpdateId for        *)
(* Binance, microtimestamp for Bitstamp; 0 when it is missing or does not   *)
(* fit), a frame the walker rejects, one of Bitstamp's event messages, or a *)
(* Bitstamp frame that ends in an escape, on which the walker panics.       *)
(***************************************************************************)
EXTENDS Integers

CONSTANTS
    Handler,                \* "binance" or "bitstamp"
    MaxSeq,                 \* bound: sequence numbers on the wire
    MaxFrames,              \* bound: text frames received
    MaxAttempts             \* bound: connection attempts

ASSUME WsAssumption ==
    /\ Handler \in {"binance", "bitstamp"}
    /\ MaxSeq \in Nat /\ MaxFrames \in Nat /\ MaxAttempts \in Nat

INITIAL_BACKOFF_MS == 1000
MAX_BACKOFF_MS == 30000

VARIABLES
    pc,                     \* where run_ws_loop is
    cancelled,              \* the CancellationToken
    receiverAlive,          \* the SlotReceiver exists
    connected,              \* ExchangeMetrics.connected
    errors,                 \* ExchangeMetrics.errors
    reconnections,          \* ExchangeMetrics.reconnections
    messages,               \* ExchangeMetrics.messages
    backoff_ms,             \* the loop's backoff
    delay,                  \* the delay being slept
    last_seq,               \* the handler's last_seq or last_micro
    frame,                  \* the text frame being processed
    frames,                 \* text frames received (history)
    attempts,               \* connection attempts begun (history)
    sleeps,                 \* sleeps since a connection was made (history)
    newest,                 \* largest number sent in this session (history)
    unnumbered              \* a 0 was sent in this session (history)

metricVars == <<connected, errors, reconnections, messages>>
historyVars == <<frames, attempts, sleeps, newest, unnumbered>>
vars == <<pc, cancelled, receiverAlive, connected, errors, reconnections,
          messages, backoff_ms, delay, last_seq, frame, frames, attempts,
          sleeps, newest, unnumbered>>

\* The outcomes of the walkers: the frames a handler can tell apart.
BookFrames == [kind : {"book"}, seq : 0..MaxSeq]
OtherKinds == IF Handler = "bitstamp"
              THEN {"malformed", "info", "error", "escape"} ELSE {"malformed"}
Frames == BookFrames \union [kind : OtherKinds, seq : {0}]
NoFrame == [kind |-> "none", seq |-> 0]

\* subscribe_message: only Bitstamp has one.
Subscribes == Handler = "bitstamp"

Init ==
    /\ pc = "top"
    /\ cancelled = FALSE
    /\ receiverAlive = TRUE
    /\ connected = FALSE
    /\ errors = 0 /\ reconnections = 0 /\ messages = 0
    /\ backoff_ms = INITIAL_BACKOFF_MS
    /\ delay = 0
    /\ last_seq = 0
    /\ frame = NoFrame
    /\ frames = 0 /\ attempts = 0 /\ sleeps = 0
    /\ newest = 0 /\ unnumbered = FALSE

-----------------------------------------------------------------------------
(* The environment.                                                        *)

Cancel ==
    /\ ~cancelled
    /\ cancelled' = TRUE
    /\ UNCHANGED <<pc, receiverAlive, backoff_ms, delay, last_seq, frame>>
    /\ UNCHANGED metricVars /\ UNCHANGED historyVars

\* The merger leaves its loop when it is cancelled and drops the receiver.
DropReceiver ==
    /\ cancelled /\ receiverAlive
    /\ receiverAlive' = FALSE
    /\ UNCHANGED <<pc, cancelled, backoff_ms, delay, last_seq, frame>>
    /\ UNCHANGED metricVars /\ UNCHANGED historyVars

-----------------------------------------------------------------------------
(* run_ws_loop.                                                            *)

\* Return from the loop; the SlotSender it owns is dropped.
Return == pc' = "gone"

LoopTop ==
    /\ pc = "top"
    /\ IF cancelled THEN Return /\ UNCHANGED attempts
       ELSE /\ attempts < MaxAttempts
            /\ pc' = "connecting"
            /\ attempts' = attempts + 1
    /\ UNCHANGED <<cancelled, receiverAlive, backoff_ms, delay, last_seq,
                   frame, frames, sleeps, newest, unnumbered>>
    /\ UNCHANGED metricVars

\* CONNECT_TIMEOUT has passed, or connecting returned an error.  The wait is
\* not interrupted by cancellation.
ConnectFails ==
    /\ pc = "connecting"
    /\ errors' = errors + 1
    /\ pc' = "failed"
    /\ UNCHANGED <<cancelled, receiverAlive, connected, reconnections,
                   messages, backoff_ms, delay, last_seq, frame>>
    /\ UNCHANGED historyVars

\* Mutant: the numbering of the previous session is kept.
OnConnectedSeqKept == last_seq

\* on_connected: what the handlers set their last number to.
OnConnectedSeq == 0

\* A new session: the backoff and the handler's numbering start afresh.
ConnectSucceeds ==
    /\ pc = "connecting"
    /\ connected' = TRUE
    /\ backoff_ms' = INITIAL_BACKOFF_MS
    /\ last_seq' = OnConnectedSeq
    /\ pc' = IF Subscribes THEN "subscribing" ELSE "reading"
    /\ sleeps' = 0 /\ newest' = 0 /\ unnumbered' = FALSE
    /\ UNCHANGED <<cancelled, receiverAlive, errors, reconnections, messages,
                   delay, frame, frames, attempts>>

SubscribeSent ==
    /\ pc = "subscribing"
    /\ pc' = "reading"
    /\ UNCHANGED <<cancelled, receiverAlive, backoff_ms, delay, last_seq,
                   frame>>
    /\ UNCHANGED metricVars /\ UNCHANGED historyVars

\* Mutant: back to the top of the loop at once.
SubscribeFailsEarly ==
    /\ pc = "subscribing"
    /\ errors' = errors + 1
    /\ pc' = "top"
    /\ UNCHANGED <<cancelled, receiverAlive, connected, reconnections,
                   messages, backoff_ms, delay, last_seq, frame>>
    /\ UNCHANGED historyVars

SubscribeFails ==
    /\ pc = "subscribing"
    /\ errors' = errors + 1
    /\ connected' = FALSE
    /\ pc' = "failed"
    /\ UNCHANGED <<cancelled, receiverAlive, reconnections, messages,
                   backoff_ms, delay, last_seq, frame>>
    /\ UNCHANGED historyVars

\* Mutant: the read loop does not listen to the token.
ReadCancelledNever == FALSE

\* select!: the cancellation branch.
ReadCancelled ==
    /\ pc = "reading" /\ cancelled
    /\ connected' = FALSE
    /\ Return
    /\ UNCHANGED <<cancelled, receiverAlive, errors, reconnections, messages,
                   backoff_ms, delay, last_seq, frame>>
    /\ UNCHANGED historyVars

\* select!: a text frame, which may win although cancellation is signalled.
\* Frames of any other type go back to the select and change nothing.
ReadFrame(f) ==
    /\ pc = "reading"
    /\ frames < MaxFrames
    /\ frame' = f
    /\ frames' = frames + 1
    /\ pc' = "processing"
    /\ UNCHANGED <<cancelled, receiverAlive, backoff_ms, delay, last_seq,
                   attempts, sleeps, newest, unnumbered>>
    /\ UNCHANGED metricVars

\* The stream yields an error, which is counted, or ends, which is not.
StreamLost ==
    /\ pc = "reading"
    /\ errors' \in {errors, errors + 1}
    /\ connected' = FALSE
    /\ pc' = "failed"
    /\ UNCHANGED <<cancelled, receiverAlive, reconnections, messages,
                   backoff_ms, delay, last_seq, frame>>
    /\ UNCHANGED historyVars

\* Mutant: give up after the first retry.
StopsRetryingEarly == cancelled \/ backoff_ms > INITIAL_BACKOFF_MS

StopsRetrying == cancelled

\* Equal jitter: half, and a random part below half; its two extremes.
Delays(half) == {half, half + (IF half > 1 THEN half ELSE 1) - 1}

\* After a failed attempt or a lost session: count the retry and back off,
\* unless cancelled.
BackOff ==
    /\ pc = "failed"
    /\ IF StopsRetrying THEN Return /\ UNCHANGED <<reconnections, delay>>
       ELSE /\ reconnections' = reconnections + 1
            /\ delay' \in Delays(backoff_ms \div 2)
            /\ pc' = "sleeping"
    /\ UNCHANGED <<cancelled, receiverAlive, connected, errors, messages,
                   backoff_ms, last_seq, frame>>
    /\ UNCHANGED historyVars

SleepCancelled ==
    /\ pc = "sleeping" /\ cancelled
    /\ Return
    /\ UNCHANGED <<cancelled, receiverAlive, backoff_ms, delay, last_seq,
                   frame>>
    /\ UNCHANGED metricVars /\ UNCHANGED historyVars

\* Mutant: the backoff grows without a limit.
NextBackoffUnlimited == backoff_ms * 2

NextBackoff == IF backoff_ms * 2 < MAX_BACKOFF_MS
               THEN backoff_ms * 2 ELSE MAX_BACKOFF_MS

SleepEnds ==
    /\ pc = "sleeping"
    /\ backoff_ms' = NextBackoff
    /\ sleeps' = sleeps + 1
    /\ pc' = "top"
    /\ UNCHANGED <<cancelled, receiverAlive, delay, last_seq, frame, frames,
                   attempts, newest, unnumbered>>
    /\ UNCHANGED metricVars

-----------------------------------------------------------------------------
(* process_text, and what run_ws_loop does with its HandleResult.          *)

\* Mutant: a duplicate is not out of order.
IsOutOfOrderStrict(seq) == seq > 0 /\ last_seq > 0 /\ seq < last_seq

\* The stale and duplicate check of both handlers.
IsOutOfOrder(seq) == seq > 0 /\ last_seq > 0 /\ seq <= last_seq

\* The walker failed, or the book is stale: counted, and Continue.
RejectFrame ==
    /\ pc = "processing"
    /\ \/ frame.kind = "malformed"
       \/ frame.kind = "book" /\ IsOutOfOrder(frame.seq)
    /\ errors' = errors + 1
    /\ frame' = NoFrame
    /\ pc' = "reading"
    /\ UNCHANGED <<cancelled, receiverAlive, connected, reconnections,
                   messages, backoff_ms, delay, last_seq>>
    /\ UNCHANGED historyVars

\* A book that passes the check is counted and goes to try_send_book, which
\* refuses it when the consumer is gone: Shutdown, and the loop returns.
AcceptBook ==
    /\ pc = "processing"
    /\ frame.kind = "book" /\ ~IsOutOfOrder(frame.seq)
    /\ last_seq' = frame.seq
    /\ messages' = messages + 1
    /\ frame' = NoFrame
    /\ IF receiverAlive
       THEN /\ pc' = "reading"
            /\ newest' = IF frame.seq > newest THEN frame.seq ELSE newest
            /\ unnumbered' = (unnumbered \/ frame.seq = 0)
       ELSE Return /\ UNCHANGED <<newest, unnumbered>>
    /\ UNCHANGED <<cancelled, receiverAlive, connected, errors, reconnections,
                   backoff_ms, delay, frames, attempts, sleeps>>

\* Bitstamp: a confirmed subscription or an unknown event is ignored.
IgnoreInfo ==
    /\ pc = "processing" /\ frame.kind = "info"
    /\ frame' = NoFrame
    /\ pc' = "reading"
    /\ UNCHANGED <<cancelled, receiverAlive, backoff_ms, delay, last_seq>>
    /\ UNCHANGED metricVars /\ UNCHANGED historyVars

\* Bitstamp: bts:error ends the session: Reconnect.
ServerError ==
    /\ pc = "processing" /\ frame.kind = "error"
    /\ errors' = errors + 1
    /\ connected' = FALSE
    /\ frame' = NoFrame
    /\ pc' = "failed"
    /\ UNCHANGED <<cancelled, receiverAlive, reconnections, messages,
                   backoff_ms, delay, last_seq>>
    /\ UNCHANGED historyVars

\* Bitstamp: the walker slices the frame beyond its end.  The panic aborts the
\* process in a release build and unwinds the thread in another; neither puts
\* the gauge back.
WalkerPanics ==
    /\ pc = "processing" /\ frame.kind = "escape"
    /\ frame' = NoFrame
    /\ pc' = "panicked"
    /\ UNCHANGED <<cancelled, receiverAlive, backoff_ms, delay, last_seq>>
    /\ UNCHANGED metricVars /\ UNCHANGED historyVars

-----------------------------------------------------------------------------
Process == RejectFrame \/ AcceptBook \/ IgnoreInfo \/ ServerError \/ WalkerPanics

Connect == ConnectFails \/ ConnectSucceeds

Subscribe == SubscribeSent \/ SubscribeFails

Read == StreamLost \/ \E f \in Frames : ReadFrame(f)

Sleep == SleepCancelled \/ SleepEnds

Next ==
    \/ LoopTop \/ Connect \/ Subscribe \/ ReadCancelled \/ Read \/ Process
    \/ BackOff \/ Sleep
    \/ Cancel \/ DropReceiver

Spec == Init /\ [][Next]_vars

\* The thread keeps running; a connection attempt ends within its timeout,
\* a subscription is a short write, a sleep ends.  Nothing makes a stream
\* deliver, fail or end.  select! polls its branches in random order, so a
\* signalled cancellation is not passed over for ever.
Fairness ==
    /\ WF_vars(LoopTop) /\ WF_vars(Connect) /\ WF_vars(Subscribe)
    /\ WF_vars(Process) /\ WF_vars(BackOff) /\ WF_vars(Sleep)
    /\ SF_vars(ReadCancelled)

FairSpec == Spec /\ Fairness

-----------------------------------------------------------------------------
InSession == pc \in {"subscribing", "reading", "processing"}

TypeOK ==
    /\ pc \in {"top", "connecting", "subscribing", "reading", "processing",
               "failed", "sleeping", "gone", "panicked"}
    /\ cancelled \in BOOLEAN /\ receiverAlive \in BOOLEAN
    /\ connected \in BOOLEAN /\ unnumbered \in BOOLEAN
    /\ errors \in Nat /\ reconnections \in Nat /\ messages \in Nat
    /\ backoff_ms \in Nat /\ delay \in Nat /\ last_seq \in Nat
    /\ frame \in Frames \union {NoFrame}
    /\ frames \in Nat /\ attempts \in Nat /\ sleeps \in Nat /\ newest \in Nat

\* The exchange is reported up during a session, and between sessions it is
\* reported down, on every path that loses a connection.  A thread that has
\* returned leaves it reported up only if it found its consumer gone, and one
\* that panicked leaves it up.
ConnectedDuringSession ==
    /\ pc \notin {"gone", "panicked"} => (connected <=> InSession)
    /\ pc = "gone" /\ connected => ~receiverAlive

\* Exponential backoff: the n-th wait since the last connection is between
\* half of and all of min(1 s * 2^n, 30 s), and a connection, however short,
\* starts the count again.
BackoffIsExponential ==
    LET expected == IF sleeps >= 5 THEN MAX_BACKOFF_MS
                    ELSE INITIAL_BACKOFF_MS * 2 ^ sleeps
    IN  /\ ~InSession => backoff_ms = expected
        /\ pc = "sleeping" => /\ 2 * delay >= expected
                              /\ delay < expected

\* The numbers the handler compares with belong to this session: an exchange
\* that starts its numbers again after a reconnect is listened to.
NumberingIsOfThisSession ==
    InSession =>
        /\ last_seq <= newest
        /\ ~unnumbered => last_seq = newest

\* In a session in which every book was numbered, no book is sent that is
\* not newer than all the books sent before it.
NumberedBooksIncrease ==
    [][~unnumbered' /\ messages' > messages /\ receiverAlive
          => newest' > newest]_vars

\* "Out-of-order or duplicate snapshots (where lastUpdateId does not
\* increase) are detected and dropped": a numbered book that is sent is
\* newer than every book sent in the session.
DuplicatesAreDropped ==
    [][(pc = "processing" /\ messages' > messages /\ frame.seq > 0
          /\ receiverAlive) => frame.seq > newest]_vars

\* A signalled cancellation ends the thread from wherever it is: connecting,
\* subscribing, reading a stream that may be silent or still deliver frames,
\* sleeping; only a panic ends it otherwise.
CancelEndsThread == cancelled ~> pc \in {"gone", "panicked"}

\* A lost session or a failed attempt is always followed by another attempt.
KeepsTrying ==
    (pc = "failed" /\ attempts < MaxAttempts)
        ~> (pc = "connecting" \/ cancelled)
=============================================================================
