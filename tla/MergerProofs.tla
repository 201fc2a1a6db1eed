---------------------------- MODULE MergerProofs ----------------------------
(***************************************************************************)
(* Proofs about Merger for every number of exchanges, every threshold and  *)
(* any length of run: what is published is fresh, its books are close to   *)
(* each other in time, no exchange is ever taken back to an old book, and   *)
(* no slot waits while another one is polled twice.                         *)
(***************************************************************************)
EXTENDS Merger, TLAPS

\* Nothing was decoded in the future, and what is ready to be published is
\* what the eviction at t0 left.
TimeInv ==
    /\ t0 <= now
    /\ \A e \in Exchanges :
          /\ decoding[e].decode_start <= now
          /\ slot[e].decode_start <= now
          /\ books[e].decode_start <= now
          /\ IsBook(summary[e]) => summary[e].decode_start <= summaryTime
    /\ pc = "publish" => \A e \in Exchanges :
          /\ ~IsStale(books[e], t0)
          /\ IsBook(books[e]) => books[e].decode_start <= t0

\* Books are numbered in the order of their sending: the one in the slot is
\* newer than the one in the store, and no book in the store is older than
\* one already published.
OrderInv ==
    \A e \in Exchanges :
        /\ decoding[e].seq \in {0, sent[e] + 1}
        /\ IsBook(decoding[e]) => sent[e] < MaxBooks
        /\ slot[e].seq <= sent[e]
        /\ books[e].seq <= sent[e]
        /\ shown[e] <= sent[e]
        /\ IsBook(slot[e]) => slot[e].seq > shown[e]
        /\ IsBook(slot[e]) => slot[e].seq > books[e].seq
        /\ IsBook(books[e]) => books[e].seq >= shown[e]
        /\ IsBook(summary[e]) => summary[e].seq >= shown[e]

\* A merge belongs to the receiver the pass is at.
PassInv == pc \in {"evict", "publish"} => i <= NumExchanges

\* Whether, with the merger where it is, a receiver that has been polled since
\* a book arrived in slot e is polled again only after e: a lower one earlier
\* in this pass, a higher one in this pass or the one before.
Behind(e, f) ==
    \/ pc \in {"cancel", "abandoned", "stopped"} /\ f > e
    \/ pc = "poll" /\ IF f < e THEN f < i /\ i <= e ELSE f > e /\ (i <= e \/ f < i)
    \/ /\ pc \in {"evict", "publish"}
       /\ IF f < e THEN f <= i /\ i < e ELSE f > e /\ (i < e \/ f <= i)

TurnInv ==
    \A e, f \in Exchanges :
        passedBy[e][f] # 0 => /\ passedBy[e][f] = 1
                              /\ IsBook(slot[e])
                              /\ Behind(e, f)

IInv ==
    /\ TypeOK
    /\ PassInv
    /\ TimeInv
    /\ OrderInv
    /\ TurnInv
    /\ FreshWhenMerged
    /\ SummaryIsStore

-----------------------------------------------------------------------------
\* The merger starts with an empty store and an empty summary.
LEMMA InitIInv == Init => IInv
<1> SUFFICES ASSUME Init PROVE IInv
  OBVIOUS
<1>0. NoBook \in Books /\ NoBook.seq = 0 /\ NoBook.decode_start = 0
  BY DEF NoBook, Books
<1>1. alive \in [Exchanges -> BOOLEAN] /\ cancelled \in BOOLEAN
  BY DEF Init
<1>2. TypeOK
  BY <1>0, <1>1, MergerAssumption DEF Init, TypeOK, NobodyPassed
<1>3. /\ TimeInv /\ OrderInv /\ TurnInv /\ PassInv
      /\ FreshWhenMerged /\ SummaryIsStore
  BY <1>0 DEF Init, TimeInv, OrderInv, TurnInv, NobodyPassed, PassInv,
              FreshWhenMerged, SummaryIsStore, IsStale, IsBook
<1> QED
  BY <1>2, <1>3 DEF IInv

\* The exchange threads number their books in order and date them now.
LEMMA FeedIInv ==
    ASSUME IInv, NEW x \in Exchanges, Decode(x) \/ SendBook(x) \/ StopFeed(x)
    PROVE  IInv'
<1>0. /\ NoBook \in Books /\ NoBook.seq = 0 /\ NoBook.decode_start = 0
      /\ TypeOK /\ TimeInv /\ OrderInv /\ TurnInv
  BY DEF NoBook, Books, IInv
<1>1. alive' \in [Exchanges -> BOOLEAN] /\ cancelled' \in BOOLEAN
  BY <1>0, Zenon DEF TypeOK, Decode, SendBook, StopFeed
<1>2. UNCHANGED <<now, i, pc, t0, books, summary, merges, summaryTime,
                shown, out, passedBy>>
  BY DEF Decode, SendBook, StopFeed, historyVars
<1>3. CASE Decode(x)
  <2> DEFINE b == [seq |-> sent[x] + 1, decode_start |-> now]
  <2>1. b \in Books /\ b.seq = sent[x] + 1 /\ b.decode_start = now
    BY <1>0 DEF TypeOK, Books
  <2>2. /\ decoding' = [decoding EXCEPT ![x] = b]
        /\ slot' = slot /\ sent' = sent /\ sent[x] < MaxBooks
    BY <1>3 DEF Decode
  <2> HIDE DEF b
  <2>3. TypeOK'
    BY <1>0, <1>1, <1>2, <2>1, <2>2 DEF TypeOK
  <2>4. TimeInv' /\ OrderInv'
    BY <1>0, <1>2, <2>1, <2>2
       DEF TypeOK, Books, TimeInv, OrderInv, IsStale, IsBook
  <2> QED
    BY <1>0, <1>2, <2>2, <2>3, <2>4
       DEF IInv, TurnInv, Behind, PassInv, FreshWhenMerged, SummaryIsStore
<1>4. CASE SendBook(x)
  <2>1. /\ slot' = [slot EXCEPT ![x] = decoding[x]]
        /\ sent' = [sent EXCEPT ![x] = @ + 1]
        /\ decoding' = [decoding EXCEPT ![x] = NoBook]
        /\ decoding[x].seq = sent[x] + 1
    BY <1>0, <1>4 DEF SendBook, OrderInv, IsBook
  <2>2. TypeOK'
    BY <1>0, <1>1, <1>2, <2>1 DEF TypeOK
  <2>3. TimeInv'
    BY <1>0, <1>2, <2>1 DEF TypeOK, Books, TimeInv, IsStale, IsBook
  <2>4. OrderInv'
    BY <1>0, <1>2, <2>1 DEF TypeOK, Books, OrderInv, IsBook
  <2>5. TurnInv'
    <3>1. \A e \in Exchanges : IsBook(slot[e]) => IsBook(slot'[e])
      BY <1>0, <1>4, <2>1 DEF TypeOK, SendBook, IsBook
    <3> QED
      BY <1>0, <1>2, <3>1 DEF TurnInv, Behind
  <2> QED
    BY <1>2, <2>2, <2>3, <2>4, <2>5
       DEF IInv, PassInv, FreshWhenMerged, SummaryIsStore
<1>5. CASE StopFeed(x)
  <2>1. /\ decoding' = [decoding EXCEPT ![x] = NoBook]
        /\ slot' = slot /\ sent' = sent
    BY <1>5 DEF StopFeed
  <2>2. TypeOK'
    BY <1>0, <1>1, <1>2, <2>1 DEF TypeOK
  <2>3. TimeInv' /\ OrderInv'
    BY <1>0, <1>2, <2>1
       DEF TypeOK, Books, TimeInv, OrderInv, IsStale, IsBook
  <2> QED
    BY <1>0, <1>2, <2>1, <2>2, <2>3
       DEF IInv, TurnInv, Behind, PassInv, FreshWhenMerged, SummaryIsStore
<1> QED
  BY <1>3, <1>4, <1>5

\* Time only makes what has happened older.
LEMMA ClockIInv == IInv /\ (Tick \/ Cancel) => IInv'
<1> SUFFICES ASSUME IInv, Tick \/ Cancel PROVE IInv'
  OBVIOUS
<1>0. cancelled' \in BOOLEAN /\ now' \in Nat
  <2>1. cancelled' \in BOOLEAN
    BY Zenon DEF IInv, TypeOK, Tick, Cancel
  <2>2. now' \in Nat
    BY DEF IInv, TypeOK, Tick, Cancel
  <2> QED
    BY <2>1, <2>2
<1>1. TypeOK'
  BY <1>0 DEF IInv, TypeOK, Tick, Cancel, historyVars
<1>2. TimeInv'
  BY DEF IInv, TypeOK, TimeInv, IsStale, IsBook, Tick, Cancel, historyVars, Books
<1>3. PassInv' /\ OrderInv' /\ TurnInv' /\ FreshWhenMerged' /\ SummaryIsStore'
  BY DEF IInv, PassInv, OrderInv, TurnInv, Behind, FreshWhenMerged, SummaryIsStore,
         IsStale, IsBook, Tick, Cancel, historyVars
<1> QED
  BY <1>1, <1>2, <1>3 DEF IInv

\* A call of recv passes by the waiting slots that are not behind its receiver.
LEMMA PollTurn ==
    ASSUME TypeOK, TurnInv, pc = "poll", i \in Exchanges, passedBy' = PassedBy,
           \A e \in Exchanges \ {i} : slot'[e] = slot[e],
           \/ pc' = "poll" /\ i' = i + 1
           \/ pc' = "evict" /\ i' = i
    PROVE  TurnInv' /\ passedBy' \in [Exchanges -> [Exchanges -> Nat]]
<1>1. NobodyPassed \in [Exchanges -> Nat]
  BY DEF NobodyPassed
<1>2. \A e \in Exchanges : [passedBy[e] EXCEPT ![i] = @ + 1] \in [Exchanges -> Nat]
  BY DEF TypeOK
<1>3. passedBy' \in [Exchanges -> [Exchanges -> Nat]]
  BY <1>1, <1>2 DEF PassedBy
<1>4. ASSUME NEW e \in Exchanges, NEW f \in Exchanges, passedBy'[e][f] # 0
      PROVE  passedBy'[e][f] = 1 /\ IsBook(slot'[e]) /\ Behind(e, f)'
  <2>1. e # i /\ IsBook(slot[e])
    BY <1>4 DEF PassedBy, NobodyPassed
  <2>2. /\ passedBy'[e] = [passedBy[e] EXCEPT ![i] = @ + 1]
        /\ passedBy[e] \in [Exchanges -> Nat]
    BY <2>1 DEF PassedBy, TypeOK
  <2>3. e \in Int /\ f \in Int /\ i \in Int
    BY DEF Exchanges
  <2>4. CASE f = i
    <3>1. ~Behind(e, i)
      BY <2>1, <2>3 DEF Behind
    <3>2. passedBy'[e][f] = 1
      BY <2>2, <2>4, <3>1 DEF TurnInv
    <3> QED
      BY <2>1, <2>3, <2>4, <3>2 DEF Behind
  <2>5. CASE f # i
    <3>1. passedBy'[e][f] = passedBy[e][f]
      BY <2>2, <2>5
    <3>2. passedBy[e][f] = 1 /\ Behind(e, f)
      BY <1>4, <3>1 DEF TurnInv
    <3> QED
      BY <2>1, <2>3, <2>5, <3>1, <3>2 DEF Behind
  <2> QED
    BY <2>4, <2>5
<1> QED
  BY <1>3, <1>4 DEF TurnInv

\* The checks and the empty polls move the merger and nothing else.
LEMMA LoopIInv ==
    IInv /\ (CheckCancel \/ CheckAbandoned \/ PollNone \/ EndPass) => IInv'
<1> SUFFICES ASSUME IInv,
                    CheckCancel \/ CheckAbandoned \/ PollNone \/ EndPass
             PROVE  IInv'
  OBVIOUS
<1> USE DEF CheckCancel, CheckAbandoned, PollNone, EndPass, feedVars, historyVars,
            StopRequested, FirstReceiver
<1>0. NoBook \in Books /\ i' \in 1..(NumExchanges + 1) /\ TypeOK /\ TurnInv
  BY MergerAssumption DEF IInv, TypeOK, NoBook, Books
<1>1. TurnInv' /\ passedBy' \in [Exchanges -> [Exchanges -> Nat]]
  <2>1. CASE PollNone
    <3>1. i \in Exchanges /\ i' = i + 1 /\ pc = "poll" /\ pc' = pc /\ slot' = slot
      BY <1>0, <2>1, MergerAssumption DEF TypeOK, Exchanges
    <3> QED
      BY <1>0, <2>1, <3>1, PollTurn
  <2>2. CASE CheckCancel \/ CheckAbandoned \/ EndPass
    <3>1. passedBy' = passedBy /\ slot' = slot
      BY <2>2
    <3>2. \A e, f \in Exchanges : Behind(e, f) => Behind(e, f)'
      <4> SUFFICES ASSUME NEW e \in Exchanges, NEW f \in Exchanges, Behind(e, f)
                   PROVE  Behind(e, f)'
        OBVIOUS
      <4>1. e \in 1..NumExchanges /\ f \in 1..NumExchanges /\ i \in Int
        BY <1>0 DEF Exchanges, TypeOK
      <4>2. CASE CheckCancel
        BY <4>1, <4>2 DEF Behind
      <4>3. CASE CheckAbandoned
        BY <4>1, <4>3 DEF Behind
      <4>4. CASE EndPass
        BY <4>1, <4>4, MergerAssumption DEF Behind
      <4> QED
        BY <2>2, <4>2, <4>3, <4>4
    <3> QED
      BY <1>0, <3>1, <3>2 DEF TurnInv, TypeOK
  <2> QED
    BY <2>1, <2>2
<1>2. TypeOK'
  <2>1. /\ out' \in [Exchanges -> Books]
        /\ pc' \in {"cancel", "abandoned", "poll", "stopped"}
    BY <1>0 DEF TypeOK
  <2>2. UNCHANGED <<now, cancelled, slot, books, t0, summary, merges,
                    summaryTime, shown, alive, decoding, sent>>
    OBVIOUS
  <2> QED
    BY <1>0, <1>1, <2>1, <2>2, Zenon DEF TypeOK
<1>3. TimeInv'
  BY DEF IInv, TimeInv, IsStale, IsBook
<1>4. PassInv' /\ OrderInv' /\ FreshWhenMerged' /\ SummaryIsStore'
  BY DEF IInv, PassInv, OrderInv, FreshWhenMerged, SummaryIsStore, IsStale,
         IsBook
<1> QED
  BY <1>1, <1>2, <1>3, <1>4 DEF IInv

\* A received book is newer than the one it replaces in the store.
LEMMA PollBookIInv == IInv /\ PollBook => IInv'
<1> SUFFICES ASSUME IInv, PollBook PROVE IInv'
  OBVIOUS
<1> USE DEF PollBook, feedVars, Taken, AfterInsert
<1>0. TypeOK /\ TurnInv
  BY DEF IInv
<1>1. i \in Exchanges
  BY <1>0, MergerAssumption DEF TypeOK, Exchanges
<1>2. TurnInv' /\ passedBy' \in [Exchanges -> [Exchanges -> Nat]]
  <2>1. /\ pc = "poll" /\ pc' = "evict" /\ i' = i /\ passedBy' = PassedBy
        /\ \A e \in Exchanges \ {i} : slot'[e] = slot[e]
    BY <1>0 DEF TypeOK
  <2> QED
    BY <1>0, <1>1, <2>1, PollTurn
<1>3. TypeOK'
  BY <1>0, <1>1, <1>2 DEF TypeOK, NoBook, Books
<1>4. TimeInv'
  BY <1>1 DEF IInv, TypeOK, TimeInv, IsStale, IsBook, NoBook, Books
<1>5. OrderInv'
  BY <1>1 DEF IInv, TypeOK, OrderInv, IsBook, NoBook, Books
<1>6. PassInv' /\ FreshWhenMerged' /\ SummaryIsStore'
  BY DEF IInv, PassInv, FreshWhenMerged, SummaryIsStore, IsStale, IsBook
<1> QED
  BY <1>2, <1>3, <1>4, <1>5, <1>6 DEF IInv

\* Eviction leaves only books that are not stale at t0.
LEMMA EvictIInv == IInv /\ EvictStale => IInv'
<1> SUFFICES ASSUME IInv, EvictStale PROVE IInv'
  OBVIOUS
<1> USE DEF EvictStale, Evicted, feedVars, historyVars
<1>1. TypeOK'
  BY DEF IInv, TypeOK, NoBook, Books
<1>2. TimeInv'
  BY DEF IInv, TypeOK, TimeInv, IsStale, IsBook, NoBook, Books
<1>3. OrderInv'
  BY DEF IInv, TypeOK, OrderInv, IsBook, NoBook, Books
<1>4. TurnInv'
  BY DEF IInv, TurnInv, Behind
<1>5. PassInv' /\ FreshWhenMerged' /\ SummaryIsStore'
  BY DEF IInv, PassInv, FreshWhenMerged, SummaryIsStore, IsStale, IsBook
<1> QED
  BY <1>1, <1>2, <1>3, <1>4, <1>5 DEF IInv

\* Publication makes the store the summary.
LEMMA PublishIInv == IInv /\ Publish => IInv'
<1> SUFFICES ASSUME IInv, Publish PROVE IInv'
  OBVIOUS
<1> USE DEF Publish, feedVars, AfterMerge
<1>0. shown' \in [Exchanges -> Nat] /\ i' \in 1..(NumExchanges + 1)
  BY MergerAssumption DEF IInv, PassInv, TypeOK, Books
<1>1. TypeOK'
  BY <1>0 DEF IInv, TypeOK
<1>2. TimeInv'
  BY DEF IInv, TypeOK, TimeInv, IsStale, IsBook, Books
<1>3. OrderInv'
  BY DEF IInv, TypeOK, OrderInv, IsBook, Books
<1>4. TurnInv'
  <2>1. \A e, f \in Exchanges : Behind(e, f) => Behind(e, f)'
    BY DEF IInv, TypeOK, Behind, Exchanges
  <2> QED
    BY <2>1 DEF IInv, TurnInv
<1>5. PassInv' /\ FreshWhenMerged' /\ SummaryIsStore'
  BY DEF IInv, TimeInv, PassInv, FreshWhenMerged, SummaryIsStore, IsStale, IsBook
<1> QED
  BY <1>1, <1>2, <1>3, <1>4, <1>5 DEF IInv

\* A step that changes nothing preserves the invariant.
LEMMA StutterIInv == IInv /\ UNCHANGED vars => IInv'
  BY DEF vars, IInv, TypeOK, TimeInv, OrderInv, TurnInv, Behind, PassInv,
         FreshWhenMerged, SummaryIsStore, IsStale, IsBook

\* Every step of the merger and of its environment preserves the invariant.
LEMMA NextIInv == IInv /\ [Next]_vars => IInv'
  BY FeedIInv, ClockIInv, LoopIInv, PollBookIInv, EvictIInv, PublishIInv,
     StutterIInv DEF Next, MergerStep

\* The inductive invariant, for every number of exchanges and any threshold.
THEOREM MergerInvariant == Spec => []IInv
  BY InitIInv, NextIInv, PTL DEF Spec

\* No published summary contains a book that was stale when it was merged.
THEOREM MergerFreshWhenMerged == Spec => []FreshWhenMerged
  BY MergerInvariant, PTL DEF IInv

\* Clients see the merger's own view of the exchanges.
THEOREM MergerSummaryIsStore == Spec => []SummaryIsStore
  BY MergerInvariant, PTL DEF IInv

\* The books of one summary were decoded at most StaleThreshold apart.
THEOREM MergerBoundedSkew == Spec => []BoundedSkew
<1>1. IInv => BoundedSkew
  <2> SUFFICES ASSUME IInv, NEW e \in Exchanges, NEW f \in Exchanges,
                      IsBook(summary[e]), IsBook(summary[f])
               PROVE  summary[e].decode_start - summary[f].decode_start
                        <= StaleThreshold
    BY DEF BoundedSkew
  <2>1. /\ summary[e].decode_start \in Nat /\ summary[f].decode_start \in Nat
        /\ summaryTime \in Nat
    BY DEF IInv, TypeOK, Books
  <2>2. summary[e].decode_start <= summaryTime
    BY DEF IInv, TimeInv
  <2>3. ~(summaryTime - summary[f].decode_start > StaleThreshold)
    BY DEF IInv, FreshWhenMerged, IsStale
  <2> QED
    BY <2>1, <2>2, <2>3, MergerAssumption
<1> QED
  BY <1>1, MergerInvariant, PTL

\* Every published summary is of books that are fresh and close together.
THEOREM MergerFreshAndClose == Spec => []FreshAndClose
  BY MergerFreshWhenMerged, MergerBoundedSkew, PTL DEF FreshAndClose

\* With any number of exchanges that send without end, from the arrival of a
\* book in an empty slot until that slot is taken from, no other receiver is
\* polled twice: at most NumExchanges - 1 calls of recv come before its own.
THEOREM MergerNoSlotIsStarved == Spec => []NoSlotIsStarved
<1>1. IInv => NoSlotIsStarved
  <2> SUFFICES ASSUME IInv, NEW e \in Exchanges, NEW f \in Exchanges
               PROVE  passedBy[e][f] <= 1
    BY DEF NoSlotIsStarved
  <2>1. passedBy[e][f] = 0 \/ passedBy[e][f] = 1
    BY DEF IInv, TurnInv
  <2> QED
    BY <2>1
<1> QED
  BY <1>1, MergerInvariant, PTL

\* No published summary takes an exchange back to an older book.
THEOREM MergerNoRollback == Spec => NoRollback
<1>1. IInv /\ [Next]_vars =>
        [\A e \in Exchanges :
            IsBook(summary'[e]) => summary'[e].seq >= shown[e]]_vars
  <2> SUFFICES ASSUME IInv, Next, NEW e \in Exchanges, IsBook(summary'[e])
               PROVE  summary'[e].seq >= shown[e]
    OBVIOUS
  <2>1. CASE Publish
    BY <2>1 DEF IInv, OrderInv, Publish
  <2>2. ~Publish => summary' = summary
    BY DEF Next, MergerStep, CheckCancel, CheckAbandoned, PollNone, PollBook,
           EvictStale, EndPass, Decode, SendBook, StopFeed, Tick, Cancel,
           historyVars
  <2>3. CASE ~Publish
    BY <2>2, <2>3 DEF IInv, OrderInv
  <2> QED
    BY <2>1, <2>3
<1> QED
  BY <1>1, MergerInvariant, PTL DEF Spec, NoRollback

-----------------------------------------------------------------------------
\* What the merger and the exchanges do to one slot is what a mailbox allows:
\* a send, a receive, the loss of a half, or nothing.
LEMMA SlotStep ==
    ASSUME IInv, Next, NEW e \in Exchanges
    PROVE  [Slot(e)!LVNext]_(Slot(e)!lvVars)
<1> USE DEF Slot!lvVars, Slot!Empty, feedVars
<1>0. /\ NoBook \in Books /\ NoBook.seq = 0
      /\ slot \in [Exchanges -> Books] /\ out \in [Exchanges -> Books]
      /\ decoding \in [Exchanges -> Books] /\ sent \in [Exchanges -> Nat]
      /\ alive \in [Exchanges -> BOOLEAN]
  BY DEF IInv, TypeOK, NoBook, Books
<1>1. ASSUME NEW x \in Exchanges, SendBook(x)
      PROVE  [Slot(e)!LVNext]_(Slot(e)!lvVars)
  <2>1. decoding[x].seq = sent[x] + 1 /\ sent[x] < MaxBooks
    BY <1>0, <1>1 DEF IInv, OrderInv, SendBook, IsBook
  <2>2. CASE x = e
    BY <1>0, <1>1, <2>1, <2>2 DEF SendBook, Slot!LVNext, Slot!Send
  <2>3. CASE x # e
    BY <1>0, <1>1, <2>3 DEF SendBook
  <2> QED
    BY <2>2, <2>3
<1>2. ASSUME NEW x \in Exchanges, StopFeed(x)
      PROVE  [Slot(e)!LVNext]_(Slot(e)!lvVars)
  <2>1. CASE x = e
    BY <1>0, <1>2, <2>1 DEF StopFeed, Slot!LVNext, Slot!LoseSender
  <2>2. CASE x # e
    BY <1>0, <1>2, <2>2 DEF StopFeed
  <2> QED
    BY <2>1, <2>2
<1>3. ASSUME NEW x \in Exchanges, Decode(x)
      PROVE  [Slot(e)!LVNext]_(Slot(e)!lvVars)
  BY <1>3 DEF Decode
<1>4. CASE PollNone
  BY <1>0, <1>4 DEF PollNone, IsBook, Slot!LVNext, Slot!RecvNone
<1>5. CASE PollBook
  BY <1>0, <1>5 DEF PollBook, Taken, AfterInsert, IsBook, Slot!LVNext, Slot!RecvSome
<1>6. CASE CheckCancel \/ CheckAbandoned
  BY <1>6 DEF CheckCancel, CheckAbandoned, Slot!LVNext, Slot!LoseReceiver
<1>7. CASE EvictStale \/ Publish \/ EndPass \/ Tick \/ Cancel
  BY <1>7 DEF EvictStale, Publish, EndPass, Tick, Cancel
<1> QED
  BY <1>1, <1>2, <1>3, <1>4, <1>5, <1>6, <1>7 DEF Next, MergerStep

\* Seen from one exchange, the polling loop and the exchange's thread use its
\* slot as the mailbox that AtomicSlot implements: SlotRefinesMailbox holds of
\* every slot the merger polls.
THEOREM MergerSlotsAreMailboxes == Spec => SlotsAreMailboxes
<1>1. IInv /\ [Next]_vars =>
        [\A e \in Exchanges : [Slot(e)!LVNext]_(Slot(e)!lvVars)]_vars
  BY SlotStep
<1> QED
  BY <1>1, MergerInvariant, PTL DEF Spec, SlotsAreMailboxes
=============================================================================
