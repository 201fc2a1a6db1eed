-------------------------- MODULE WsAdapterProofs --------------------------
(***************************************************************************)
(* Proofs about WsAdapter for both handlers, for sequence numbers of any    *)
(* size and any number of frames, sessions and failures: the exchange is    *)
(* reported up exactly during a session, the numbers a session compares     *)
(* with are its own, and in a numbered session no book goes back.           *)
(***************************************************************************)
EXTENDS WsAdapter, TLAPS

\* The backoff is one of six values, the n-th after n sleeps; a delay lies in
\* the upper half of the one it was drawn for.
Doubled == <<1000, 2000, 4000, 8000, 16000>>
BackoffInv ==
    /\ backoff_ms = IF sleeps >= 5 THEN MAX_BACKOFF_MS ELSE Doubled[sleeps + 1]
    /\ InSession => sleeps = 0
    /\ pc = "sleeping" => backoff_ms <= 2 * delay /\ delay < backoff_ms

IInv ==
    /\ TypeOK
    /\ ConnectedDuringSession
    /\ NumberingIsOfThisSession
    /\ BackoffInv

-----------------------------------------------------------------------------
\* Frames the code has names for, and the walkers' number 0.
LEMMA FrameFacts ==
    /\ NoFrame \in Frames \union {NoFrame}
    /\ \A f \in Frames \union {NoFrame} : f.seq \in Nat
<1>1. \A f \in BookFrames : f.seq \in Nat
  BY WsAssumption DEF BookFrames
<1>2. \A f \in [kind : OtherKinds, seq : {0}] : f.seq \in Nat
  OBVIOUS
<1>3. NoFrame.seq \in Nat
  BY DEF NoFrame
<1> QED
  BY <1>1, <1>2, <1>3 DEF Frames

\* Powers of two up to the limit of the backoff.
LEMMA Powers == 2^0 = 1 /\ 2^1 = 2 /\ 2^2 = 4 /\ 2^3 = 8 /\ 2^4 = 16
  OBVIOUS

\* The thread starts outside a session, with the first backoff.
LEMMA InitIInv == Init => IInv
<1> SUFFICES ASSUME Init PROVE IInv
  OBVIOUS
<1>0. /\ cancelled \in BOOLEAN /\ receiverAlive \in BOOLEAN
      /\ connected \in BOOLEAN /\ unnumbered \in BOOLEAN
  BY DEF Init
<1>1. TypeOK
  BY <1>0, FrameFacts DEF Init, TypeOK, INITIAL_BACKOFF_MS
<1>2. ConnectedDuringSession /\ NumberingIsOfThisSession /\ BackoffInv
  BY DEF Init, ConnectedDuringSession, NumberingIsOfThisSession, BackoffInv,
         InSession, Doubled, INITIAL_BACKOFF_MS, MAX_BACKOFF_MS
<1> QED
  BY <1>1, <1>2 DEF IInv

\* After any sleep the backoff is the next of its values.
LEMMA NextBackoffFacts ==
    ASSUME TypeOK, BackoffInv
    PROVE  /\ NextBackoff \in Nat
           /\ NextBackoff = IF sleeps + 1 >= 5 THEN MAX_BACKOFF_MS
                            ELSE Doubled[sleeps + 2]
<1>1. sleeps \in Nat
  BY DEF TypeOK
<1>2. sleeps = 0 \/ sleeps = 1 \/ sleeps = 2 \/ sleeps = 3 \/ sleeps = 4 \/ sleeps >= 5
  BY <1>1
<1> QED
  BY <1>1, <1>2 DEF BackoffInv, NextBackoff, Doubled, MAX_BACKOFF_MS

\* Half of a backoff is exact: all of its values are even.
LEMMA DelayFacts ==
    ASSUME TypeOK, BackoffInv, NEW d \in Delays(backoff_ms \div 2)
    PROVE  d \in Nat /\ backoff_ms <= 2 * d /\ d < backoff_ms
<1>1. sleeps \in Nat
  BY DEF TypeOK
<1>2. sleeps = 0 \/ sleeps = 1 \/ sleeps = 2 \/ sleeps = 3 \/ sleeps = 4 \/ sleeps >= 5
  BY <1>1
<1>3. \E h \in Nat : h > 1 /\ backoff_ms = 2 * h /\ backoff_ms \div 2 = h
  BY <1>1, <1>2 DEF BackoffInv, Doubled, MAX_BACKOFF_MS
<1> QED
  BY <1>3 DEF Delays

\* What a step of the environment, a connection attempt or a subscription
\* leaves of the invariant.
LEMMA OutsideIInv ==
    ASSUME IInv, Cancel \/ DropReceiver \/ LoopTop \/ Connect \/ Subscribe
    PROVE  IInv'
<1> USE DEF IInv
<1>0. TypeOK /\ ConnectedDuringSession /\ NumberingIsOfThisSession /\ BackoffInv
  OBVIOUS
<1>1. CASE Cancel
  <2>1. TypeOK'
    BY <1>0, <1>1 DEF TypeOK, Cancel, metricVars, historyVars
  <2>2. (ConnectedDuringSession /\ NumberingIsOfThisSession /\ BackoffInv)'
    BY <1>0, <1>1 DEF Cancel, metricVars, historyVars, ConnectedDuringSession,
                     NumberingIsOfThisSession, BackoffInv, InSession
  <2> QED
    BY <2>1, <2>2
<1>2. CASE DropReceiver
  <2>1. TypeOK'
    BY <1>0, <1>2 DEF TypeOK, DropReceiver, metricVars, historyVars
  <2>2. (ConnectedDuringSession /\ NumberingIsOfThisSession /\ BackoffInv)'
    BY <1>0, <1>2 DEF DropReceiver, metricVars, historyVars,
             ConnectedDuringSession, NumberingIsOfThisSession, BackoffInv, InSession
  <2> QED
    BY <2>1, <2>2
<1>3. CASE LoopTop
  <2>1. TypeOK'
    BY <1>0, <1>3 DEF TypeOK, LoopTop, Return, metricVars
  <2>2. (ConnectedDuringSession /\ NumberingIsOfThisSession /\ BackoffInv)'
    BY <1>0, <1>3 DEF LoopTop, Return, metricVars, ConnectedDuringSession,
                     NumberingIsOfThisSession, BackoffInv, InSession
  <2> QED
    BY <2>1, <2>2
<1>4. CASE ConnectFails
  <2>1. TypeOK'
    BY <1>0, <1>4 DEF TypeOK, ConnectFails, historyVars
  <2>2. (ConnectedDuringSession /\ NumberingIsOfThisSession /\ BackoffInv)'
    BY <1>0, <1>4 DEF ConnectFails, historyVars, ConnectedDuringSession,
                     NumberingIsOfThisSession, BackoffInv, InSession
  <2> QED
    BY <2>1, <2>2
<1>5. CASE ConnectSucceeds
  <2>0. connected' \in BOOLEAN /\ unnumbered' \in BOOLEAN
    BY <1>5 DEF ConnectSucceeds
  <2>1. TypeOK'
    BY <1>0, <1>5, <2>0 DEF TypeOK, ConnectSucceeds, OnConnectedSeq,
                           INITIAL_BACKOFF_MS
  <2>2. (ConnectedDuringSession /\ NumberingIsOfThisSession)'
    BY <1>0, <1>5 DEF ConnectSucceeds, OnConnectedSeq, ConnectedDuringSession,
                     NumberingIsOfThisSession, InSession
  <2>3. BackoffInv'
    BY <1>5 DEF ConnectSucceeds, BackoffInv, Doubled, INITIAL_BACKOFF_MS
  <2> QED
    BY <2>1, <2>2, <2>3
<1>6. CASE Subscribe
  <2>0. connected' \in BOOLEAN
    BY <1>0, <1>6, Zenon DEF TypeOK, Subscribe, SubscribeSent, SubscribeFails,
                            metricVars
  <2>1. TypeOK'
    BY <1>0, <1>6, <2>0 DEF TypeOK, Subscribe, SubscribeSent, SubscribeFails,
                     metricVars, historyVars
  <2>2. (ConnectedDuringSession /\ NumberingIsOfThisSession /\ BackoffInv)'
    BY <1>0, <1>6 DEF Subscribe, SubscribeSent, SubscribeFails, metricVars,
             historyVars, ConnectedDuringSession, NumberingIsOfThisSession,
             BackoffInv, InSession
  <2> QED
    BY <2>1, <2>2
<1> QED
  BY <1>1, <1>2, <1>3, <1>4, <1>5, <1>6 DEF Connect

\* What the read loop and the way out of it leave of the invariant.
LEMMA SessionIInv ==
    ASSUME IInv, ReadCancelled \/ Read \/ BackOff \/ Sleep
    PROVE  IInv'
<1> USE DEF IInv
<1>0. TypeOK /\ ConnectedDuringSession /\ NumberingIsOfThisSession /\ BackoffInv
  OBVIOUS
<1>1. CASE ReadCancelled
  <2>1. TypeOK'
    BY <1>0, <1>1 DEF TypeOK, ReadCancelled, Return, historyVars
  <2>2. (ConnectedDuringSession /\ NumberingIsOfThisSession /\ BackoffInv)'
    BY <1>0, <1>1 DEF ReadCancelled, Return, historyVars, ConnectedDuringSession,
                     NumberingIsOfThisSession, BackoffInv, InSession
  <2> QED
    BY <2>1, <2>2
<1>2. CASE StreamLost
  <2>0. connected' \in BOOLEAN
    BY <1>2 DEF StreamLost
  <2>1. TypeOK'
    BY <1>0, <1>2, <2>0 DEF TypeOK, StreamLost, historyVars
  <2>2. (ConnectedDuringSession /\ NumberingIsOfThisSession /\ BackoffInv)'
    BY <1>0, <1>2 DEF StreamLost, historyVars, ConnectedDuringSession,
                     NumberingIsOfThisSession, BackoffInv, InSession
  <2> QED
    BY <2>1, <2>2
<1>3. ASSUME NEW f \in Frames, ReadFrame(f) PROVE IInv'
  <2>1. TypeOK'
    BY <1>0, <1>3 DEF TypeOK, ReadFrame, metricVars
  <2>2. (ConnectedDuringSession /\ NumberingIsOfThisSession /\ BackoffInv)'
    BY <1>0, <1>3 DEF ReadFrame, metricVars, ConnectedDuringSession,
                     NumberingIsOfThisSession, BackoffInv, InSession
  <2> QED
    BY <2>1, <2>2
<1>4. CASE BackOff
  <2>1. pc' = "sleeping" => delay' \in Delays(backoff_ms \div 2)
    BY <1>4 DEF BackOff, Return
  <2>2. pc' = "sleeping" =>
            delay' \in Nat /\ backoff_ms <= 2 * delay' /\ delay' < backoff_ms
    BY <1>0, <2>1, DelayFacts
  <2>3. TypeOK'
    BY <1>0, <1>4, <2>2 DEF TypeOK, BackOff, Return, historyVars
  <2>4. (ConnectedDuringSession /\ NumberingIsOfThisSession)'
    BY <1>0, <1>4 DEF BackOff, Return, historyVars, ConnectedDuringSession,
                     NumberingIsOfThisSession, InSession
  <2>5. BackoffInv'
    BY <1>0, <1>4, <2>2 DEF BackOff, Return, historyVars, BackoffInv, InSession
  <2> QED
    BY <2>3, <2>4, <2>5
<1>5. CASE SleepCancelled
  <2>1. TypeOK'
    BY <1>0, <1>5 DEF TypeOK, SleepCancelled, Return, metricVars, historyVars
  <2>2. (ConnectedDuringSession /\ NumberingIsOfThisSession /\ BackoffInv)'
    BY <1>0, <1>5 DEF SleepCancelled, Return, metricVars, historyVars,
             ConnectedDuringSession, NumberingIsOfThisSession, BackoffInv, InSession
  <2> QED
    BY <2>1, <2>2
<1>6. CASE SleepEnds
  <2>1. NextBackoff \in Nat /\ backoff_ms' = NextBackoff
    BY <1>0, <1>6, NextBackoffFacts DEF SleepEnds
  <2>2. TypeOK'
    BY <1>0, <1>6, <2>1 DEF TypeOK, SleepEnds, metricVars
  <2>3. (ConnectedDuringSession /\ NumberingIsOfThisSession)'
    BY <1>0, <1>6 DEF SleepEnds, metricVars, ConnectedDuringSession,
                     NumberingIsOfThisSession, InSession
  <2>4. BackoffInv'
    BY <1>0, <1>6, NextBackoffFacts DEF TypeOK, SleepEnds, BackoffInv, InSession
  <2> QED
    BY <2>2, <2>3, <2>4
<1> QED
  BY <1>1, <1>2, <1>3, <1>4, <1>5, <1>6 DEF Read, Sleep

\* What process_text leaves of the invariant.
LEMMA ProcessIInv ==
    ASSUME IInv, Process
    PROVE  IInv'
<1> USE DEF IInv
<1>0. TypeOK /\ ConnectedDuringSession /\ NumberingIsOfThisSession /\ BackoffInv
  OBVIOUS
<1>1. CASE RejectFrame \/ IgnoreInfo \/ ServerError \/ WalkerPanics
  <2>0. connected' \in BOOLEAN
    BY <1>0, <1>1, Zenon DEF TypeOK, RejectFrame, IgnoreInfo, ServerError,
                            WalkerPanics, metricVars
  <2>1. TypeOK'
    BY <1>0, <1>1, <2>0, FrameFacts DEF TypeOK, RejectFrame, IgnoreInfo, ServerError,
                     WalkerPanics, metricVars, historyVars
  <2>2. (ConnectedDuringSession /\ NumberingIsOfThisSession /\ BackoffInv)'
    BY <1>0, <1>1 DEF RejectFrame, IgnoreInfo, ServerError, WalkerPanics, metricVars,
             historyVars, ConnectedDuringSession, NumberingIsOfThisSession,
             BackoffInv, InSession
  <2> QED
    BY <2>1, <2>2
<1>2. CASE AcceptBook
  <2>0. frame.seq \in Nat /\ last_seq \in Nat /\ newest \in Nat
    BY <1>0, FrameFacts DEF TypeOK
  <2>1. unnumbered' \in BOOLEAN
    BY <1>0, <1>2, Zenon DEF TypeOK, AcceptBook, Return
  <2>2. TypeOK'
    BY <1>0, <1>2, <2>0, <2>1 DEF TypeOK, AcceptBook, Return
  <2>3. ConnectedDuringSession' /\ BackoffInv'
    BY <1>0, <1>2 DEF AcceptBook, Return, ConnectedDuringSession, BackoffInv,
                     InSession
  <2>4. NumberingIsOfThisSession'
    <3>1. CASE ~receiverAlive
      BY <1>2, <3>1 DEF AcceptBook, Return, NumberingIsOfThisSession, InSession
    <3>2. CASE receiverAlive
      <4>1. /\ ~unnumbered' => frame.seq # 0 /\ ~unnumbered
            /\ newest' = IF frame.seq > newest THEN frame.seq ELSE newest
            /\ last_seq' = frame.seq /\ ~IsOutOfOrder(frame.seq)
        BY <1>2, <3>2, Zenon DEF AcceptBook
      <4>2. ~unnumbered' => last_seq = newest
        BY <1>0, <1>2, <4>1 DEF AcceptBook, NumberingIsOfThisSession, InSession
      <4>3. last_seq' <= newest' /\ (~unnumbered' => last_seq' = newest')
        BY <2>0, <4>1, <4>2 DEF IsOutOfOrder
      <4> QED
        BY <4>3 DEF NumberingIsOfThisSession
    <3> QED
      BY <3>1, <3>2
  <2> QED
    BY <2>2, <2>3, <2>4
<1> QED
  BY <1>1, <1>2 DEF Process

\* Every step of the thread and of its environment preserves the invariant.
LEMMA NextIInv == IInv /\ [Next]_vars => IInv'
<1> SUFFICES ASSUME IInv, [Next]_vars PROVE IInv'
  OBVIOUS
<1>1. CASE UNCHANGED vars
  BY <1>1 DEF IInv, vars, TypeOK, ConnectedDuringSession,
              NumberingIsOfThisSession, BackoffInv, InSession
<1> QED
  BY <1>1, OutsideIInv, SessionIInv, ProcessIInv DEF Next

\* The inductive invariant of run_ws_loop, for runs of any length.
THEOREM SpecIInv == Spec => []IInv
  BY InitIInv, NextIInv, PTL DEF Spec

-----------------------------------------------------------------------------
\* The state of run_ws_loop, its metrics and the handler keep their types.
THEOREM WsTypeOK == Spec => []TypeOK
<1>1. IInv => TypeOK
  BY DEF IInv
<1> QED
  BY <1>1, SpecIInv, PTL

\* The connected gauge is up exactly during a session, on each of the paths
\* out of it; only a thread that found its consumer gone, or panicked, leaves it up.
THEOREM WsConnectedDuringSession == Spec => []ConnectedDuringSession
<1>1. IInv => ConnectedDuringSession
  BY DEF IInv
<1> QED
  BY <1>1, SpecIInv, PTL

\* The number process_text compares with is one of this session, and the
\* largest sent as long as every book had one.
THEOREM WsNumberingIsOfThisSession == Spec => []NumberingIsOfThisSession
<1>1. IInv => NumberingIsOfThisSession
  BY DEF IInv
<1> QED
  BY <1>1, SpecIInv, PTL

\* backoff_sleep waits between half of and all of the doubled and limited
\* backoff, after any number of failures.
THEOREM WsBackoffIsExponential == Spec => []BackoffIsExponential
<1>1. IInv => BackoffIsExponential
  <2> SUFFICES ASSUME IInv PROVE BackoffIsExponential
    OBVIOUS
  <2>1. TypeOK /\ BackoffInv /\ sleeps \in Nat
    BY DEF IInv, TypeOK
  <2>2. sleeps = 0 \/ sleeps = 1 \/ sleeps = 2 \/ sleeps = 3 \/ sleeps = 4
        \/ sleeps >= 5
    BY <2>1
  <2>3. sleeps < 5 => Doubled[sleeps + 1] = INITIAL_BACKOFF_MS * 2 ^ sleeps
    <3>1. CASE sleeps = 0
      BY <3>1, Powers DEF Doubled, INITIAL_BACKOFF_MS
    <3>2. CASE sleeps = 1
      BY <3>2, Powers DEF Doubled, INITIAL_BACKOFF_MS
    <3>3. CASE sleeps = 2
      BY <3>3, Powers DEF Doubled, INITIAL_BACKOFF_MS
    <3>4. CASE sleeps = 3
      BY <3>4, Powers DEF Doubled, INITIAL_BACKOFF_MS
    <3>5. CASE sleeps = 4
      BY <3>5, Powers DEF Doubled, INITIAL_BACKOFF_MS
    <3> QED
      BY <2>1, <2>2, <3>1, <3>2, <3>3, <3>4, <3>5
  <2>4. backoff_ms = IF sleeps >= 5 THEN MAX_BACKOFF_MS
                     ELSE INITIAL_BACKOFF_MS * 2 ^ sleeps
    BY <2>1, <2>3 DEF BackoffInv
  <2> QED
    BY <2>1, <2>4 DEF BackoffInv, BackoffIsExponential
<1> QED
  BY <1>1, SpecIInv, PTL

\* In a session whose books are all numbered, process_text sends no book that
\* is not newer than all sent before it.
THEOREM WsNumberedBooksIncrease == Spec => NumberedBooksIncrease
<1> DEFINE Newer == ~unnumbered' /\ messages' > messages /\ receiverAlive
                        => newest' > newest
<1>1. IInv /\ [Next]_vars => [Newer]_vars
  <2> SUFFICES ASSUME IInv, Next, ~unnumbered', messages' > messages, receiverAlive
               PROVE  newest' > newest
    BY DEF vars
  <2>0. /\ messages \in Nat /\ newest \in Nat /\ last_seq \in Nat
        /\ frame.seq \in Nat /\ unnumbered \in BOOLEAN
    BY FrameFacts DEF IInv, TypeOK
  <2>1. messages' # messages
    BY <2>0
  <2>2. AcceptBook
    BY <2>1 DEF Next, Connect, Subscribe, Read, Process, Sleep, LoopTop,
         ConnectFails, ConnectSucceeds, SubscribeSent, SubscribeFails,
         ReadCancelled, ReadFrame, StreamLost, BackOff, SleepCancelled,
         SleepEnds, RejectFrame, IgnoreInfo, ServerError, WalkerPanics, Cancel,
         DropReceiver, metricVars
  <2>3. /\ frame.seq # 0 /\ ~unnumbered
        /\ newest' = IF frame.seq > newest THEN frame.seq ELSE newest
    BY <2>2, Zenon DEF AcceptBook
  <2>4. last_seq = newest
    BY <2>2, <2>3 DEF IInv, NumberingIsOfThisSession, InSession, AcceptBook
  <2> QED
    BY <2>0, <2>2, <2>3, <2>4 DEF AcceptBook, IsOutOfOrder
<1> QED
  BY <1>1, SpecIInv, PTL DEF Spec, NumberedBooksIncrease
=============================================================================
