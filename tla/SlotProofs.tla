----------------------------- MODULE SlotProofs -----------------------------
(***************************************************************************)
(* Proofs about the slot for every number of sends.  First AtomicSlot: no  *)
(* buffer has two owners, the allocation is freed once and after the last  *)
(* access, and the whole is a latest-value mailbox.  Then SlotMemoryOrder: *)
(* the Release and Acquire swaps order every take() after the write of     *)
(* what it takes, and the AcqRel decrements order every access before the  *)
(* free.                                                                   *)
(***************************************************************************)
EXTENDS SlotMemoryOrder, TLAPS

\* The refcount counts the live halves, and the half that finds it at 1
\* frees the allocation when nobody else can reach it any more.
RefcountInv ==
    /\ refcount = (IF SenderAlive THEN 1 ELSE 0)
                + (IF ReceiverAlive THEN 1 ELSE 0)
    /\ frees = (IF ppc = "gone" /\ cpc = "gone" THEN 1 ELSE 0)
    /\ ppc = "free" => cpc = "gone"
    /\ cpc = "free" => ppc = "gone"

\* What the producer has written but not yet published is in its own buffer,
\* and nothing received is newer than what is published.
HistoryInv ==
    /\ ppc = "swap" => buffers[back] = sent /\ sent > 0
    /\ last <= Published
    /\ IsDirty(state) => buffers[IndexOf(state)] = Published
                         /\ buffers[IndexOf(state)] > last
    /\ cpc = "take" /\ IsDirty(state) => Published > buffers[front]

IInv ==
    /\ TypeOK
    /\ DistinctIndices
    /\ TakeIsFresh
    /\ NewestIsReachable
    /\ HistoryInv
    /\ RefcountInv

-----------------------------------------------------------------------------
\* The state byte loses nothing: the index and the flag packed into it are
\* the ones read back, and every byte the slot can hold names a buffer.
LEMMA PackFacts ==
    /\ \A i \in Indices :
          /\ Pack(i, 0) \in 0..5 /\ Pack(i, DIRTY) \in 0..5
          /\ IndexOf(Pack(i, 0)) = i /\ IndexOf(Pack(i, DIRTY)) = i
          /\ ~IsDirty(Pack(i, 0)) /\ IsDirty(Pack(i, DIRTY))
    /\ \A b \in 0..5 : IndexOf(b) \in Indices
  BY SMT DEF Indices, Pack, DIRTY, IndexOf, IsDirty

\* The invariant holds when slot() returns.
LEMMA InitIInv == Init => IInv
<1> SUFFICES ASSUME Init PROVE IInv
  OBVIOUS
<1>1. IndexOf(state) = 1 /\ ~IsDirty(state) /\ state \in 0..5
  BY PackFacts DEF Init, Indices
<1>2. TypeOK
  BY <1>1, MaxSendsAssumption DEF Init, TypeOK, Indices, Values, Empty
<1>3. DistinctIndices
  BY <1>1 DEF Init, DistinctIndices
<1>4. TakeIsFresh /\ NewestIsReachable /\ HistoryInv
  BY <1>1 DEF Init, TakeIsFresh, NewestIsReachable, HistoryInv, Published,
              Empty
<1>5. RefcountInv
  BY DEF Init, RefcountInv, SenderAlive, ReceiverAlive
<1> QED
  BY <1>2, <1>3, <1>4, <1>5 DEF IInv

\* Writing the back buffer disturbs neither the middle nor the front one.
LEMMA SendWriteIInv == IInv /\ SendWrite => IInv'
<1> SUFFICES ASSUME IInv, SendWrite PROVE IInv'
  OBVIOUS
<1> USE DEF IInv, SendWrite, WriteIndex, consumerVars
<1>1. /\ IndexOf(state) \in Indices /\ Published' = Published
      /\ Published = sent /\ sent \in Nat /\ state' = state
      /\ buffers'[IndexOf(state)] = buffers[IndexOf(state)]
      /\ buffers'[front] = buffers[front]
      /\ buffers'[back] = sent + 1
  BY PackFacts DEF TypeOK, DistinctIndices, Published
<1>2. TypeOK'
  BY MaxSendsAssumption DEF TypeOK, Values
<1>3. DistinctIndices'
  BY DEF DistinctIndices
<1>4. TakeIsFresh' /\ NewestIsReachable'
  BY <1>1 DEF TakeIsFresh, NewestIsReachable, ReceiverAlive
<1>5. HistoryInv'
  BY <1>1 DEF HistoryInv
<1>6. RefcountInv'
  BY DEF RefcountInv, SenderAlive, ReceiverAlive
<1> QED
  BY <1>2, <1>3, <1>4, <1>5, <1>6

\* The producer's swap hands its buffer over and takes the old middle one.
LEMMA SendSwapIInv == IInv /\ SendSwap => IInv'
<1> SUFFICES ASSUME IInv, SendSwap PROVE IInv'
  OBVIOUS
<1> USE DEF IInv, SendSwap, PublishByte, NewBack, consumerVars
<1>1. /\ IndexOf(state) \in Indices
      /\ IndexOf(state') = back /\ IsDirty(state') /\ state' \in 0..5
      /\ Published = sent - 1 /\ Published' = sent /\ sent \in Nat
      /\ buffers[back] = sent
  BY PackFacts DEF TypeOK, Published, HistoryInv
<1>2. TypeOK'
  BY <1>1 DEF TypeOK
<1>3. DistinctIndices'
  BY <1>1 DEF DistinctIndices
<1>4. last \in Nat /\ buffers[front] \in Nat
  BY MaxSendsAssumption DEF TypeOK, Values, Empty
<1>5. TakeIsFresh' /\ NewestIsReachable'
  BY <1>1, <1>4 DEF TakeIsFresh, NewestIsReachable, ReceiverAlive
<1>6. HistoryInv'
  BY <1>1, <1>4 DEF HistoryInv, TakeIsFresh
<1>7. RefcountInv'
  BY DEF RefcountInv, SenderAlive, ReceiverAlive
<1> QED
  BY <1>2, <1>3, <1>5, <1>6, <1>7

\* The consumer's load changes only where it is.
LEMMA RecvLoadIInv == IInv /\ (RecvNone \/ RecvDirty) => IInv'
<1> SUFFICES ASSUME IInv, RecvNone \/ RecvDirty PROVE IInv'
  OBVIOUS
<1> USE DEF IInv, RecvNone, RecvDirty, sharedVars, producerVars
<1>1. Published' = Published /\ state' = state
  BY DEF Published
<1>2. TypeOK' /\ DistinctIndices'
  BY <1>1 DEF TypeOK, DistinctIndices
<1>3. TakeIsFresh' /\ NewestIsReachable'
  BY <1>1 DEF TakeIsFresh, NewestIsReachable, ReceiverAlive
<1>4. HistoryInv'
  BY <1>1 DEF HistoryInv
<1>5. RefcountInv'
  BY DEF RefcountInv, SenderAlive, ReceiverAlive
<1> QED
  BY <1>2, <1>3, <1>4, <1>5

\* The consumer's swap finds the flag it saw still set, so the buffer it
\* takes over holds the newest published value.
LEMMA RecvSwapIInv == IInv /\ RecvSwap => IInv'
<1> SUFFICES ASSUME IInv, RecvSwap PROVE IInv'
  OBVIOUS
<1> USE DEF IInv, RecvSwap, TakeByte, producerVars
<1>1. /\ IndexOf(state) \in Indices /\ IsDirty(state)
      /\ IndexOf(state') = front /\ ~IsDirty(state') /\ state' \in 0..5
      /\ Published' = Published /\ Published \in Int
  BY PackFacts DEF TypeOK, TakeIsFresh, Published
<1>2. TypeOK' /\ DistinctIndices'
  BY <1>1 DEF TypeOK, DistinctIndices
<1>3. TakeIsFresh' /\ NewestIsReachable'
  BY <1>1 DEF TakeIsFresh, NewestIsReachable, HistoryInv
<1>4. HistoryInv'
  BY <1>1 DEF HistoryInv
<1>5. RefcountInv'
  BY DEF RefcountInv, SenderAlive, ReceiverAlive
<1> QED
  BY <1>2, <1>3, <1>4, <1>5

\* take() empties the consumer's own buffer and no other.
LEMMA RecvTakeIInv == IInv /\ RecvTake => IInv'
<1> SUFFICES ASSUME IInv, RecvTake PROVE IInv'
  OBVIOUS
<1> USE DEF IInv, RecvTake, producerVars
<1>1. /\ IndexOf(state) \in Indices /\ state' = state
      /\ Published' = Published /\ Published \in Int
      /\ buffers[front] \in Nat /\ last \in Nat
      /\ buffers'[IndexOf(state)] = buffers[IndexOf(state)]
      /\ buffers'[back] = buffers[back]
  BY PackFacts, MaxSendsAssumption
     DEF TypeOK, DistinctIndices, Published, Values, Empty
<1>2. last' = buffers[front]
  BY <1>1 DEF TakeIsFresh, Empty
<1>3. TypeOK' /\ DistinctIndices'
  BY <1>1 DEF TypeOK, DistinctIndices
<1>4. TakeIsFresh' /\ NewestIsReachable'
  BY <1>1, <1>2 DEF TakeIsFresh, NewestIsReachable, ReceiverAlive
<1>5. HistoryInv'
  BY <1>1, <1>2 DEF HistoryInv, TakeIsFresh
<1>6. RefcountInv'
  BY DEF RefcountInv, SenderAlive, ReceiverAlive
<1> QED
  BY <1>3, <1>4, <1>5, <1>6

\* A drop touches the refcount only, and a free is reached at most once.
LEMMA DropIInv ==
    IInv /\ (DropSender \/ DropReceiver \/ FreeBySender \/ FreeByReceiver)
      => IInv'
<1> SUFFICES ASSUME IInv,
                    DropSender \/ DropReceiver
                      \/ FreeBySender \/ FreeByReceiver
             PROVE IInv'
  OBVIOUS
<1> USE DEF IInv, DropSender, DropReceiver, FreeBySender, FreeByReceiver,
            DropHalf, AfterDrop, producerVars, consumerVars
<1>1. RefcountInv'
  BY DEF RefcountInv, SenderAlive, ReceiverAlive, TypeOK
<1>2. /\ Published' = Published /\ state' = state
      /\ buffers' = buffers /\ last' = last
      /\ ppc' # "swap" \/ ppc' = ppc
      /\ cpc' \notin {"swap", "take"} \/ cpc' = cpc
      /\ ReceiverAlive' => ReceiverAlive
  BY DEF Published, ReceiverAlive
<1>3. TypeOK' /\ DistinctIndices'
  BY <1>2 DEF TypeOK, DistinctIndices, RefcountInv, SenderAlive,
              ReceiverAlive
<1>4. TakeIsFresh' /\ HistoryInv'
  BY <1>2 DEF TakeIsFresh, HistoryInv
<1>5. NewestIsReachable'
  BY <1>2 DEF NewestIsReachable, ReceiverAlive
<1> QED
  BY <1>1, <1>3, <1>4, <1>5

\* A step that changes nothing preserves the invariant.
LEMMA StutterIInv == IInv /\ UNCHANGED vars => IInv'
  BY DEF IInv, vars, TypeOK, DistinctIndices, TakeIsFresh, NewestIsReachable,
         HistoryInv, RefcountInv, SenderAlive, ReceiverAlive, Published

\* Every step of the slot preserves the invariant.
LEMMA NextIInv == IInv /\ [Next]_vars => IInv'
  BY SendWriteIInv, SendSwapIInv, RecvLoadIInv, RecvSwapIInv, RecvTakeIInv,
     DropIInv, StutterIInv DEF Next, Recv

\* The inductive invariant holds in every reachable state, however many
\* values are sent.
THEOREM SlotInvariant == Spec => []IInv
  BY InitIInv, NextIInv, PTL DEF Spec

\* Type correctness of the slot, and with it the get_unchecked accesses: the
\* indices unpacked from the state byte are always 0, 1 or 2.
THEOREM SlotTypeOK == Spec => []TypeOK
  BY SlotInvariant, PTL DEF IInv

\* Producer, consumer and exchange point never share a buffer.
THEOREM SlotExclusive == Spec => []DistinctIndices
  BY SlotInvariant, PTL DEF IInv

\* A receive that saw the flag returns a value newer than all it returned.
THEOREM SlotTakeIsFresh == Spec => []TakeIsFresh
  BY SlotInvariant, PTL DEF IInv

\* The newest published value is never out of the consumer's reach.
THEOREM SlotNewestIsReachable == Spec => []NewestIsReachable
  BY SlotInvariant, PTL DEF IInv

\* The allocation is not freed while a half can still reach it.
THEOREM SlotNoUseAfterFree == Spec => []NoUseAfterFree
<1>1. IInv => NoUseAfterFree
  BY DEF IInv, RefcountInv, NoUseAfterFree, SenderAlive, ReceiverAlive
<1> QED
  BY <1>1, SlotInvariant, PTL

\* is_abandoned is exact for as long as the half that asks is alive.
THEOREM SlotAbandonedIsExact == Spec => []AbandonedIsExact
<1>1. IInv => AbandonedIsExact
  BY DEF IInv, RefcountInv, AbandonedIsExact, IsAbandoned, SenderAlive,
         ReceiverAlive
<1> QED
  BY <1>1, SlotInvariant, PTL

\* Received values only ever get newer.
THEOREM SlotReceivedInOrder == Spec => ReceivedInOrder
<1>1. IInv /\ [Next]_vars => [last' # last => last' > last]_vars
  <2> SUFFICES ASSUME IInv, Next, last' # last PROVE last' > last
    OBVIOUS
  <2>1. CASE RecvTake
    BY <2>1, MaxSendsAssumption
       DEF IInv, RecvTake, TakeIsFresh, TypeOK, Values, Empty
  <2>2. ~RecvTake => last' = last
    BY DEF Next, Recv, SendWrite, SendSwap, RecvNone, RecvDirty, RecvSwap,
           DropSender, DropReceiver, FreeBySender, FreeByReceiver,
           consumerVars
  <2> QED
    BY <2>1, <2>2
<1> QED
  BY <1>1, SlotInvariant, PTL DEF Spec, ReceivedInOrder

-----------------------------------------------------------------------------
\* The triple buffer implements the one-place mailbox: its two swaps and the
\* load that finds the flag clear are the mailbox's atomic operations, and
\* every other step is invisible.
THEOREM SlotRefinesMailbox == Spec => ImplementsMailbox
<1>1. Init => Mailbox!LVInit
  BY PackFacts
     DEF Init, Mailbox!LVInit, Mailbox!Empty, Empty, Published, SenderAlive,
         ReceiverAlive, Indices
<1>2. IInv /\ IInv' /\ [Next]_vars => [Mailbox!LVNext]_Mailbox!lvVars
  <2> SUFFICES ASSUME IInv, IInv', [Next]_vars
               PROVE Mailbox!LVNext \/ UNCHANGED Mailbox!lvVars
    OBVIOUS
  <2> USE DEF Mailbox!lvVars, Mailbox!Empty
  <2>0. /\ IndexOf(state) \in Indices
        /\ \A i \in Indices : buffers[i] \in Nat
        /\ sent \in Nat /\ back \in Indices /\ front \in Indices
    BY PackFacts, MaxSendsAssumption DEF IInv, TypeOK, Values, Empty
  <2>1. CASE SendWrite
    BY <2>0, <2>1 DEF SendWrite, WriteIndex, IInv, TypeOK, DistinctIndices, Published,
       SenderAlive, ReceiverAlive, consumerVars
  <2>2. CASE SendSwap
    <3>1. /\ IsDirty(state') /\ IndexOf(state') = back
          /\ Published = sent - 1 /\ Published' = sent
          /\ buffers[back] = sent /\ sent <= MaxSends
      BY <2>0, <2>2, PackFacts
         DEF SendSwap, PublishByte, NewBack, IInv, TypeOK, HistoryInv,
             Published
    <3> QED
      BY <2>0, <2>2, <3>1, MaxSendsAssumption
         DEF SendSwap, Mailbox!LVNext, Mailbox!Send, SenderAlive,
             ReceiverAlive, consumerVars
  <2>3. CASE RecvNone
    BY <2>3 DEF RecvNone, Mailbox!LVNext, Mailbox!RecvNone, Published,
       SenderAlive, ReceiverAlive, sharedVars, producerVars, Empty
  <2>4. CASE RecvDirty
    BY <2>4 DEF RecvDirty, Published, SenderAlive, ReceiverAlive, sharedVars,
       producerVars
  <2>5. CASE RecvSwap
    <3>1. /\ IsDirty(state) /\ ~IsDirty(state')
          /\ buffers[IndexOf(state)] # 0 /\ Published' = Published
      BY <2>0, <2>5, PackFacts, MaxSendsAssumption
         DEF RecvSwap, TakeByte, IInv, TypeOK, TakeIsFresh, HistoryInv,
             Published, producerVars, Values, Empty
    <3> QED
      BY <2>0, <2>5, <3>1
         DEF RecvSwap, Mailbox!LVNext, Mailbox!RecvSome, SenderAlive,
             ReceiverAlive, producerVars, Empty
  <2>6. CASE RecvTake
    BY <2>0, <2>6 DEF RecvTake, IInv, TypeOK, DistinctIndices, Published,
       SenderAlive, ReceiverAlive, producerVars
  <2>7. CASE DropSender
    BY <2>7 DEF DropSender, DropHalf, AfterDrop, Mailbox!LVNext,
       Mailbox!LoseSender, Published, SenderAlive, ReceiverAlive,
       consumerVars
  <2>8. CASE DropReceiver
    BY <2>8 DEF DropReceiver, DropHalf, AfterDrop, Mailbox!LVNext,
       Mailbox!LoseReceiver, Published, SenderAlive, ReceiverAlive,
       producerVars
  <2>9. CASE FreeBySender \/ FreeByReceiver
    BY <2>9 DEF FreeBySender, FreeByReceiver, Published, SenderAlive,
       ReceiverAlive, producerVars, consumerVars
  <2>10. CASE UNCHANGED vars
    BY <2>10 DEF vars, Published, SenderAlive, ReceiverAlive
  <2> QED
    BY <2>1, <2>2, <2>3, <2>4, <2>5, <2>6, <2>7, <2>8, <2>9, <2>10
       DEF Next, Recv
<1> QED
  BY <1>1, <1>2, SlotInvariant, PTL DEF Spec, ImplementsMailbox,
     Mailbox!LVSpec

-----------------------------------------------------------------------------
(* The memory order.                                                       *)

P == "producer"
C == "consumer"
Clocks == [Threads -> Nat]
Middle == IndexOf(state)

ClockOK ==
    /\ clock \in [Threads -> Clocks] /\ accessed \in [Indices -> Clocks]
    /\ stateView \in Clocks /\ refView \in Clocks

\* No access is later than its thread's own time.  What the producer wrote in
\* a buffer it no longer holds was released through the state byte, and for
\* the buffer the consumer holds it was acquired too, until the consumer is
\* gone.
PublishInv ==
    /\ \A b \in Indices : \A t \in Threads : accessed[b][t] <= clock[t][t]
    /\ cpc # "gone" => /\ accessed[Middle][P] <= stateView[P]
                       /\ accessed[front][P] <= stateView[P]
                       /\ accessed[front][P] <= clock[C][P]

\* A half that is gone while the other is not left all its time in the
\* refcount; the half that will free has it from there.
DropInv ==
    /\ cpc = "gone" /\ ppc # "gone" => clock[C][C] <= refView[C]
    /\ ppc = "gone" /\ cpc # "gone" => clock[P][P] <= refView[P]
    /\ ppc = "free" => clock[C][C] <= clock[P][C]
    /\ cpc = "free" => clock[P][P] <= clock[C][P]

MOInv ==
    /\ IInv /\ ClockOK /\ PublishInv /\ DropInv
    /\ PublicationOrdered /\ FreeOrdered

-----------------------------------------------------------------------------
\* What an access of plain memory does to the clocks, and that it races with
\* nothing when the other thread's accesses are known to it.
LEMMA AccessFacts ==
    ASSUME ClockOK, NEW t \in Threads, NEW u \in Threads, t # u,
           NEW bs \in SUBSET Indices, NEW kind, Access(t, bs, kind)
    PROVE  /\ ClockOK' /\ UNCHANGED <<stateView, refView>>
           /\ clock'[t][t] = clock[t][t] + 1 /\ clock'[t][u] = clock[t][u]
           /\ clock'[u] = clock[u]
           /\ \A b \in Indices : accessed'[b][u] = accessed[b][u]
           /\ \A b \in bs : accessed'[b][t] = clock[t][t] + 1
           /\ \A b \in Indices \ bs : accessed'[b][t] = accessed[b][t]
           /\ races' \subseteq races \union {kind}
           /\ (\A b \in bs : accessed[b][u] <= clock[t][u]) => races' = races
<1>1. Threads = {t, u}
  BY DEF Threads
<1>2. /\ clock[t] \in Clocks /\ clock[t][t] \in Nat /\ clock[t][u] \in Nat
      /\ \A b \in Indices : accessed[b] \in Clocks /\ accessed[b][u] \in Nat
  BY DEF ClockOK, Clocks
<1>3. /\ clock' = [clock EXCEPT ![t][t] = clock[t][t] + 1]
      /\ accessed' = [b \in Indices |-> IF b \in bs
                          THEN [accessed[b] EXCEPT ![t] = clock[t][t] + 1]
                          ELSE accessed[b]]
      /\ UNCHANGED <<stateView, refView>>
  BY DEF Access
<1>4. /\ clock' \in [Threads -> Clocks]
      /\ clock'[t][t] = clock[t][t] + 1 /\ clock'[t][u] = clock[t][u]
      /\ clock'[u] = clock[u]
  BY <1>2, <1>3 DEF ClockOK, Clocks
<1>5. /\ accessed' \in [Indices -> Clocks]
      /\ \A b \in Indices : accessed'[b][u] = accessed[b][u]
      /\ \A b \in bs : accessed'[b][t] = clock[t][t] + 1
      /\ \A b \in Indices \ bs : accessed'[b][t] = accessed[b][t]
  BY <1>2, <1>3 DEF ClockOK, Clocks
<1>6. /\ races' \subseteq races \union {kind}
      /\ (\A b \in bs : \A v \in Threads \ {t} : ~(accessed[b][v] > clock[t][v]))
             => races' = races
  BY DEF Access
<1>7. (\A b \in bs : accessed[b][u] <= clock[t][u]) =>
          \A b \in bs : \A v \in Threads \ {t} : ~(accessed[b][v] > clock[t][v])
  BY <1>1, <1>2
<1> QED
  BY <1>3, <1>4, <1>5, <1>6, <1>7 DEF ClockOK

\* A join is at least each of the two, and one of them in each place.
LEMMA JoinFacts ==
    ASSUME NEW c \in Clocks, NEW d \in Clocks
    PROVE  /\ Join(c, d) \in Clocks
           /\ \A t \in Threads : Join(c, d)[t] >= c[t] /\ Join(c, d)[t] >= d[t]
                                 /\ Join(c, d)[t] \in {c[t], d[t]}
  BY DEF Join, Clocks

\* send's swap releases: the state byte's view covers the producer's clock.
LEMMA SendSyncFacts ==
    ASSUME ClockOK, Synchronise(P, SendOrdering)
    PROVE  /\ ClockOK' /\ UNCHANGED <<clock, refView, accessed, races>>
           /\ stateView'[P] >= clock[P][P] /\ stateView'[P] >= stateView[P]
<1>1. P \in Threads /\ clock[P] \in Clocks
  BY DEF P, Threads, ClockOK
<1>2. clock' = [clock EXCEPT ![P] = clock[P]] /\ stateView' = Join(stateView, clock[P])
      /\ UNCHANGED <<refView, accessed, races>>
  BY DEF Synchronise, SendOrdering, ClockAfter, ViewAfter
<1>3. clock' = clock
  BY <1>1, <1>2 DEF ClockOK
<1> QED
  BY <1>1, <1>2, <1>3, JoinFacts DEF ClockOK

\* recv's swap acquires: the consumer knows what the state byte's view covers.
LEMMA RecvSyncFacts ==
    ASSUME ClockOK, Synchronise(C, RecvOrdering)
    PROVE  /\ ClockOK' /\ UNCHANGED <<stateView, refView, accessed, races>>
           /\ clock'[P] = clock[P]
           /\ clock'[C][P] >= stateView[P] /\ clock'[C][P] >= clock[C][P]
           /\ clock'[C][C] >= clock[C][C]
<1>1. C \in Threads /\ P \in Threads /\ C # P /\ clock[C] \in Clocks
  BY DEF C, P, Threads, ClockOK
<1>2. clock' = [clock EXCEPT ![C] = Join(clock[C], stateView)]
      /\ UNCHANGED <<stateView, refView, accessed, races>>
  BY DEF Synchronise, RecvOrdering, ClockAfter, ViewAfter
<1>3. Join(clock[C], stateView) \in Clocks
  BY <1>1, JoinFacts DEF ClockOK
<1>4. clock' \in [Threads -> Clocks] /\ clock'[C] = Join(clock[C], stateView)
      /\ clock'[P] = clock[P]
  BY <1>1, <1>2, <1>3 DEF ClockOK
<1> QED
  BY <1>1, <1>2, <1>4, JoinFacts DEF ClockOK

\* The decrement of a drop does both with the refcount's view.
LEMMA DropSyncFacts ==
    ASSUME ClockOK, NEW t \in Threads, NEW u \in Threads, t # u,
           SynchroniseDrop(t)
    PROVE  /\ ClockOK' /\ UNCHANGED <<stateView, accessed, races>>
           /\ clock'[u] = clock[u]
           /\ \A v \in Threads : /\ clock'[t][v] >= clock[t][v]
                                 /\ clock'[t][v] >= refView[v]
                                 /\ refView'[v] >= clock'[t][v]
                                 /\ refView'[v] >= refView[v]
<1>1. clock[t] \in Clocks /\ refView \in Clocks
  BY DEF ClockOK
<1> DEFINE mine == Join(clock[t], refView)
<1>2. clock' = [clock EXCEPT ![t] = mine] /\ refView' = Join(refView, mine)
      /\ UNCHANGED <<stateView, accessed, races>>
  BY DEF SynchroniseDrop, DropOrdering, ClockAfter, ViewAfter
<1>3. /\ mine \in Clocks
      /\ \A v \in Threads : mine[v] >= clock[t][v] /\ mine[v] >= refView[v]
  BY <1>1, JoinFacts
<1>4. /\ Join(refView, mine) \in Clocks
      /\ \A v \in Threads : /\ Join(refView, mine)[v] >= refView[v]
                            /\ Join(refView, mine)[v] >= mine[v]
  BY <1>1, <1>3, JoinFacts
<1> HIDE DEF mine
<1>5. clock' \in [Threads -> Clocks] /\ clock'[t] = mine /\ clock'[u] = clock[u]
  BY <1>2, <1>3 DEF ClockOK
<1> QED
  BY <1>2, <1>3, <1>4, <1>5 DEF ClockOK

-----------------------------------------------------------------------------
\* There are two threads.
LEMMA ThreadFacts == P \in Threads /\ C \in Threads /\ P # C /\ Threads = {P, C}
  BY DEF P, C, Threads

\* The numbers that the invariant compares are numbers.
LEMMA ClockFacts ==
    ASSUME ClockOK
    PROVE  /\ \A t, u \in Threads : clock[t][u] \in Nat
           /\ \A b \in Indices : \A t \in Threads : accessed[b][t] \in Nat
           /\ \A t \in Threads : stateView[t] \in Nat /\ refView[t] \in Nat
  BY DEF ClockOK, Clocks

\* Before the first access all clocks are zero.
LEMMA MOInitInv == MOInit => MOInv
<1> SUFFICES ASSUME MOInit PROVE MOInv
  OBVIOUS
<1>1. IInv
  BY InitIInv DEF MOInit
<1>2. Zero \in Clocks /\ \A t \in Threads : Zero[t] = 0
  BY DEF Zero, Clocks
<1>3. ClockOK
  BY <1>2 DEF MOInit, ClockOK
<1>4. Middle \in Indices /\ front \in Indices
  BY <1>1, PackFacts DEF IInv, TypeOK, Middle
<1>5. PublishInv
  BY <1>2, <1>4, ThreadFacts DEF MOInit, PublishInv
<1>6. DropInv
  BY <1>2, ThreadFacts DEF MOInit, Init, DropInv
<1> QED
  BY <1>1, <1>3, <1>5, <1>6 DEF MOInv, MOInit, PublicationOrdered, FreeOrdered

\* A load that misses a swap leaves the slot as it is.
LEMMA RecvStaleIInv == IInv /\ RecvStale => IInv'
<1> SUFFICES ASSUME IInv, RecvStale PROVE IInv'
  OBVIOUS
<1> USE DEF IInv, RecvStale, sharedVars, producerVars
<1>1. Published' = Published /\ state' = state
  BY DEF Published
<1>2. TypeOK' /\ DistinctIndices'
  BY <1>1 DEF TypeOK, DistinctIndices
<1>3. TakeIsFresh' /\ NewestIsReachable'
  BY <1>1 DEF TakeIsFresh, NewestIsReachable, ReceiverAlive
<1>4. HistoryInv' /\ RefcountInv'
  BY <1>1 DEF HistoryInv, RefcountInv, SenderAlive, ReceiverAlive
<1> QED
  BY <1>2, <1>3, <1>4

\* The producer writes its own buffer, which neither the consumer nor the
\* state byte holds.
LEMMA SendWriteInv == ASSUME MOInv, MOSendWrite PROVE MOInv'
<1>0. /\ IInv /\ ClockOK /\ PublishInv /\ DropInv
      /\ TypeOK /\ DistinctIndices /\ RefcountInv
  BY DEF MOInv, IInv
<1>1. /\ ppc = "idle" /\ ppc' = "swap" /\ UNCHANGED <<state, front, cpc>>
      /\ back \in Indices /\ front \in Indices /\ Middle \in Indices
      /\ front # back /\ Middle # back
  BY <1>0, PackFacts DEF MOSendWrite, SendWrite, consumerVars, TypeOK,
                        DistinctIndices, Middle
<1>2. IInv'
  BY <1>0, SendWriteIInv DEF MOSendWrite
<1>3. /\ ClockOK' /\ UNCHANGED <<stateView, refView>>
      /\ clock'[P][P] = clock[P][P] + 1 /\ clock'[P][C] = clock[P][C]
      /\ clock'[C] = clock[C]
      /\ \A b \in Indices : accessed'[b][C] = accessed[b][C]
      /\ accessed'[back][P] = clock[P][P] + 1
      /\ \A b \in Indices \ {back} : accessed'[b][P] = accessed[b][P]
      /\ races' \subseteq races \union {"reuse"}
  <2>1. Access(P, {back}, "reuse") /\ {back} \in SUBSET Indices
    BY <1>1 DEF MOSendWrite, P
  <2> QED
    BY <1>0, <2>1, AccessFacts, ThreadFacts
<1>4. PublishInv'
  <2>1. Middle' = Middle
    BY <1>1 DEF Middle
  <2> QED
    BY <1>0, <1>1, <1>3, <2>1, ClockFacts, ThreadFacts DEF PublishInv
<1>5. DropInv'
  BY <1>0, <1>1, <1>3, ClockFacts, ThreadFacts DEF DropInv, RefcountInv
<1> QED
  BY <1>2, <1>3, <1>4, <1>5 DEF MOInv, PublicationOrdered, FreeOrdered

\* The producer's swap releases its write with the buffer it hands over.
LEMMA SendSwapInv == ASSUME MOInv, MOSendSwap PROVE MOInv'
<1>0. /\ IInv /\ ClockOK /\ PublishInv /\ DropInv
      /\ TypeOK /\ DistinctIndices
  BY DEF MOInv, IInv
<1>1. /\ ppc = "swap" /\ ppc' = "idle" /\ UNCHANGED <<front, cpc>>
      /\ back \in Indices /\ front \in Indices /\ Middle' = back
  BY <1>0, PackFacts DEF MOSendSwap, SendSwap, PublishByte, consumerVars, TypeOK,
                        Middle
<1>2. IInv'
  BY <1>0, SendSwapIInv DEF MOSendSwap
<1>3. /\ ClockOK' /\ UNCHANGED <<clock, refView, accessed, races>>
      /\ stateView'[P] >= clock[P][P] /\ stateView'[P] >= stateView[P]
  BY <1>0, SendSyncFacts DEF MOSendSwap, P
<1>a. stateView'[P] \in Nat
  BY <1>3, ThreadFacts DEF ClockOK, Clocks
<1>4. PublishInv'
  BY <1>0, <1>1, <1>3, <1>a, ClockFacts, ThreadFacts DEF PublishInv
<1>5. DropInv'
  BY <1>0, <1>1, <1>3 DEF DropInv
<1> QED
  BY <1>2, <1>3, <1>4, <1>5 DEF MOInv, PublicationOrdered, FreeOrdered

\* The consumer's load accesses nothing but the state byte.
LEMMA RecvLoadInv == ASSUME MOInv, MORecvLoad PROVE MOInv'
<1>1. IInv'
  BY RecvLoadIInv DEF MOInv, MORecvLoad
<1>2. /\ UNCHANGED <<state, front, ppc>> /\ cpc = "idle" /\ cpc' \in {"idle", "swap"}
      /\ UNCHANGED <<clock, stateView, refView, accessed, races>>
  BY DEF MORecvLoad, RecvNone, RecvDirty, sharedVars, producerVars, moVars
<1> QED
  BY <1>1, <1>2 DEF MOInv, ClockOK, PublishInv, DropInv, Middle,
                    PublicationOrdered, FreeOrdered

\* Nor does a load that misses a swap.
LEMMA RecvStaleInv == ASSUME MOInv, RecvStale, UNCHANGED moVars PROVE MOInv'
<1>1. IInv'
  BY RecvStaleIInv DEF MOInv
<1>2. /\ UNCHANGED <<state, front, ppc, cpc>>
      /\ UNCHANGED <<clock, stateView, refView, accessed, races>>
  BY DEF RecvStale, sharedVars, producerVars, moVars
<1> QED
  BY <1>1, <1>2 DEF MOInv, ClockOK, PublishInv, DropInv, Middle,
                    PublicationOrdered, FreeOrdered

\* The consumer's swap acquires what was released with the buffer it gets.
LEMMA RecvSwapInv == ASSUME MOInv, MORecvSwap PROVE MOInv'
<1>0. /\ IInv /\ ClockOK /\ PublishInv /\ DropInv /\ TypeOK /\ RefcountInv
  BY DEF MOInv, IInv
<1>1. /\ cpc = "swap" /\ cpc' = "take" /\ UNCHANGED ppc
      /\ front \in Indices /\ Middle \in Indices
      /\ front' = Middle /\ Middle' = front
  BY <1>0, PackFacts DEF MORecvSwap, RecvSwap, TakeByte, producerVars, TypeOK,
                        Middle
<1>2. IInv'
  BY <1>0, RecvSwapIInv DEF MORecvSwap
<1>3. /\ ClockOK' /\ UNCHANGED <<stateView, refView, accessed, races>>
      /\ clock'[P] = clock[P]
      /\ clock'[C][P] >= stateView[P] /\ clock'[C][P] >= clock[C][P]
      /\ clock'[C][C] >= clock[C][C]
  BY <1>0, RecvSyncFacts DEF MORecvSwap, C
<1>a. clock'[C][P] \in Nat /\ clock'[C][C] \in Nat
  BY <1>3, ThreadFacts DEF ClockOK, Clocks
<1>4. PublishInv'
  BY <1>0, <1>1, <1>3, <1>a, ClockFacts, ThreadFacts DEF PublishInv
<1>5. DropInv'
  BY <1>0, <1>1, <1>3 DEF DropInv, RefcountInv
<1> QED
  BY <1>2, <1>3, <1>4, <1>5 DEF MOInv, PublicationOrdered, FreeOrdered

\* take() comes after the write of the buffer it empties.
LEMMA RecvTakeInv == ASSUME MOInv, MORecvTake PROVE MOInv'
<1>0. /\ IInv /\ ClockOK /\ PublishInv /\ DropInv /\ TypeOK /\ RefcountInv
  BY DEF MOInv, IInv
<1>1. /\ cpc = "take" /\ cpc' = "idle" /\ UNCHANGED <<state, front, ppc>>
      /\ front \in Indices /\ Middle \in Indices /\ Middle' = Middle
  BY <1>0, PackFacts DEF MORecvTake, RecvTake, producerVars, TypeOK, Middle
<1>2. IInv'
  BY <1>0, RecvTakeIInv DEF MORecvTake
<1>3. /\ ClockOK' /\ UNCHANGED <<stateView, refView>>
      /\ clock'[C][C] = clock[C][C] + 1 /\ clock'[C][P] = clock[C][P]
      /\ clock'[P] = clock[P]
      /\ \A b \in Indices : accessed'[b][P] = accessed[b][P]
      /\ accessed'[front][C] = clock[C][C] + 1
      /\ \A b \in Indices \ {front} : accessed'[b][C] = accessed[b][C]
      /\ races' = races
  <2>1. Access(C, {front}, "publish") /\ {front} \in SUBSET Indices
    BY <1>1 DEF MORecvTake, C
  <2>2. \A b \in {front} : accessed[b][P] <= clock[C][P]
    BY <1>0, <1>1 DEF PublishInv
  <2> QED
    BY <1>0, <2>1, <2>2, AccessFacts, ThreadFacts
<1>4. PublishInv'
  BY <1>0, <1>1, <1>3, ClockFacts, ThreadFacts DEF PublishInv
<1>5. DropInv'
  BY <1>0, <1>1, <1>3 DEF DropInv, RefcountInv
<1> QED
  BY <1>2, <1>3, <1>4, <1>5 DEF MOInv, PublicationOrdered, FreeOrdered

\* The later drop acquires what the earlier one released.
LEMMA DropHalfInv == ASSUME MOInv, MODropSender \/ MODropReceiver PROVE MOInv'
<1>0. /\ IInv /\ ClockOK /\ PublishInv /\ DropInv /\ TypeOK /\ RefcountInv
  BY DEF MOInv, IInv
<1>1. IInv' /\ RefcountInv'
  BY <1>0, DropIInv DEF MODropSender, MODropReceiver, IInv
<1>2. front \in Indices /\ Middle \in Indices
  BY <1>0, PackFacts DEF TypeOK, Middle
<1>3. CASE MODropSender
  <2>1. /\ ppc = "idle" /\ UNCHANGED <<state, front, cpc>> /\ Middle' = Middle
        /\ ppc' \in {"free", "gone"}
    BY <1>3 DEF MODropSender, DropSender, AfterDrop, consumerVars, Middle
  <2>2. /\ ClockOK' /\ UNCHANGED <<stateView, accessed, races>>
        /\ clock'[C] = clock[C]
        /\ \A v \in Threads : /\ clock'[P][v] >= clock[P][v]
                              /\ clock'[P][v] >= refView[v]
                              /\ refView'[v] >= clock'[P][v]
                              /\ refView'[v] >= refView[v]
    BY <1>0, <1>3, DropSyncFacts, ThreadFacts DEF MODropSender, P
  <2>3. \A v \in Threads : clock'[P][v] \in Nat /\ refView'[v] \in Nat
    BY <2>2, ThreadFacts DEF ClockOK, Clocks
  <2>4. PublishInv'
    BY <1>0, <1>2, <2>1, <2>2, <2>3, ClockFacts, ThreadFacts DEF PublishInv
  <2>5. DropInv'
    BY <1>0, <1>1, <2>1, <2>2, <2>3, ClockFacts, ThreadFacts DEF DropInv, RefcountInv
  <2> QED
    BY <1>1, <2>2, <2>4, <2>5 DEF MOInv, PublicationOrdered, FreeOrdered
<1>4. CASE MODropReceiver
  <2>1. /\ cpc = "idle" /\ UNCHANGED <<state, front, ppc>> /\ Middle' = Middle
        /\ cpc' \in {"free", "gone"}
    BY <1>4 DEF MODropReceiver, DropReceiver, AfterDrop, producerVars, Middle
  <2>2. /\ ClockOK' /\ UNCHANGED <<stateView, accessed, races>>
        /\ clock'[P] = clock[P]
        /\ \A v \in Threads : /\ clock'[C][v] >= clock[C][v]
                              /\ clock'[C][v] >= refView[v]
                              /\ refView'[v] >= clock'[C][v]
                              /\ refView'[v] >= refView[v]
    BY <1>0, <1>4, DropSyncFacts, ThreadFacts DEF MODropReceiver, C
  <2>3. \A v \in Threads : clock'[C][v] \in Nat /\ refView'[v] \in Nat
    BY <2>2, ThreadFacts DEF ClockOK, Clocks
  <2>4. PublishInv'
    BY <1>0, <1>2, <2>1, <2>2, <2>3, ClockFacts, ThreadFacts DEF PublishInv
  <2>5. DropInv'
    BY <1>0, <1>1, <2>1, <2>2, <2>3, ClockFacts, ThreadFacts DEF DropInv, RefcountInv
  <2> QED
    BY <1>1, <2>2, <2>4, <2>5 DEF MOInv, PublicationOrdered, FreeOrdered
<1> QED
  BY <1>3, <1>4

\* The half that frees has seen every access of the other.
LEMMA FreeInv == ASSUME MOInv, MOFreeBySender \/ MOFreeByReceiver PROVE MOInv'
<1>0. /\ IInv /\ ClockOK /\ PublishInv /\ DropInv /\ TypeOK /\ RefcountInv
  BY DEF MOInv, IInv
<1>1. IInv'
  BY <1>0, DropIInv DEF MOFreeBySender, MOFreeByReceiver
<1>2. front \in Indices /\ Middle \in Indices /\ Indices \in SUBSET Indices
  BY <1>0, PackFacts DEF TypeOK, Middle
<1>3. CASE MOFreeBySender
  <2>1. ppc = "free" /\ ppc' = "gone" /\ UNCHANGED <<state, front, cpc>>
        /\ Middle' = Middle /\ cpc = "gone"
    BY <1>0, <1>3 DEF MOFreeBySender, FreeBySender, consumerVars, Middle, RefcountInv
  <2>2. \A b \in Indices : accessed[b][C] <= clock[P][C]
    BY <1>0, <2>1, ClockFacts, ThreadFacts DEF PublishInv, DropInv
  <2>3. Access(P, Indices, "free")
    BY <1>3 DEF MOFreeBySender, P
  <2>4. /\ ClockOK' /\ races' = races /\ UNCHANGED refView
        /\ clock'[P][P] = clock[P][P] + 1 /\ clock'[C] = clock[C]
        /\ \A b \in Indices : /\ accessed'[b][C] = accessed[b][C]
                              /\ accessed'[b][P] = clock[P][P] + 1
    BY <1>0, <1>2, <2>2, <2>3, AccessFacts, ThreadFacts
  <2>5. PublishInv'
    BY <1>0, <1>2, <2>1, <2>4, ClockFacts, ThreadFacts DEF PublishInv
  <2>6. DropInv'
    BY <2>1 DEF DropInv
  <2> QED
    BY <1>1, <2>4, <2>5, <2>6 DEF MOInv, PublicationOrdered, FreeOrdered
<1>4. CASE MOFreeByReceiver
  <2>1. cpc = "free" /\ cpc' = "gone" /\ UNCHANGED <<state, front, ppc>>
        /\ ppc = "gone"
    BY <1>0, <1>4 DEF MOFreeByReceiver, FreeByReceiver, producerVars, RefcountInv
  <2>2. \A b \in Indices : accessed[b][P] <= clock[C][P]
    BY <1>0, <2>1, ClockFacts, ThreadFacts DEF PublishInv, DropInv
  <2>3. Access(C, Indices, "free")
    BY <1>4 DEF MOFreeByReceiver, C
  <2>4. /\ ClockOK' /\ races' = races
        /\ clock'[C][C] = clock[C][C] + 1 /\ clock'[P] = clock[P]
        /\ \A b \in Indices : /\ accessed'[b][P] = accessed[b][P]
                              /\ accessed'[b][C] = clock[C][C] + 1
    BY <1>0, <1>2, <2>2, <2>3, AccessFacts, ThreadFacts
  <2>5. PublishInv'
    BY <1>0, <2>1, <2>4, ClockFacts, ThreadFacts DEF PublishInv
  <2>6. DropInv'
    BY <2>1 DEF DropInv
  <2> QED
    BY <1>1, <2>4, <2>5, <2>6 DEF MOInv, PublicationOrdered, FreeOrdered
<1> QED
  BY <1>3, <1>4

\* Every step of either half, seen in order or late, preserves the invariant.
LEMMA StaleNextInv == MOInv /\ [StaleNext]_allVars => MOInv'
<1> SUFFICES ASSUME MOInv, [StaleNext]_allVars PROVE MOInv'
  OBVIOUS
<1>1. CASE UNCHANGED allVars
  <2>1. IInv' /\ UNCHANGED <<state, front, ppc, cpc>>
    BY <1>1, StutterIInv DEF MOInv, allVars, vars
  <2>2. UNCHANGED <<clock, stateView, refView, accessed, races>>
    BY <1>1 DEF allVars, moVars
  <2> QED
    BY <2>1, <2>2 DEF MOInv, ClockOK, PublishInv, DropInv, Middle,
                      PublicationOrdered, FreeOrdered
<1> QED
  BY <1>1, SendWriteInv, SendSwapInv, RecvLoadInv, RecvStaleInv, RecvSwapInv,
     RecvTakeInv, DropHalfInv, FreeInv DEF StaleNext, MONext

\* The inductive invariant of the slot and its clocks, for any number of sends
\* and whichever swaps recv's relaxed load misses.
THEOREM StaleSpecInv == StaleSpec => []MOInv
  BY MOInitInv, StaleNextInv, PTL DEF StaleSpec

\* A behaviour in which the relaxed load misses nothing is one of those.
LEMMA MOSpecIsStale == MOSpec => StaleSpec
<1>1. [MONext]_allVars => [StaleNext]_allVars
  BY DEF StaleNext
<1> QED
  BY <1>1, PTL DEF MOSpec, StaleSpec

-----------------------------------------------------------------------------
\* The Release swap of send and the Acquire swap of recv order every take()
\* after the write of the buffer it empties, however often it went round and
\* whichever swaps the relaxed load misses.
THEOREM SlotPublicationOrdered ==
    /\ MOSpec => []PublicationOrdered
    /\ StaleSpec => []PublicationOrdered
<1>1. MOInv => PublicationOrdered
  BY DEF MOInv
<1>2. StaleSpec => []PublicationOrdered
  BY <1>1, StaleSpecInv, PTL
<1> QED
  BY <1>2, MOSpecIsStale, PTL

\* The AcqRel decrements of drop_half order every access of either half
\* before the free of the Box, whichever half performs it.
THEOREM SlotFreeOrdered ==
    /\ MOSpec => []FreeOrdered
    /\ StaleSpec => []FreeOrdered
<1>1. MOInv => FreeOrdered
  BY DEF MOInv
<1>2. StaleSpec => []FreeOrdered
  BY <1>1, StaleSpecInv, PTL
<1> QED
  BY <1>2, MOSpecIsStale, PTL

\* The three indices stay distinct even when recv's relaxed load misses a
\* swap that has happened.
THEOREM SlotExclusiveWhenStale == StaleSpec => []DistinctIndices
<1>1. MOInv => DistinctIndices
  BY DEF MOInv, IInv
<1> QED
  BY <1>1, StaleSpecInv, PTL
=============================================================================
