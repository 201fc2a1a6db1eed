------------------------------- MODULE Merger -------------------------------
(***************************************************************************)
(* The merger thread of src/merger.rs: run_spsc polls one slot per         *)
(* exchange, keeps the latest book of each in a BookStore, evicts the      *)
(* stale ones, merges and publishes.  The exchange threads decode and send *)
(* concurrently, time passes between any two steps, cancellation and the   *)
(* loss of a producer can come at any moment.                              *)
(* A slot is the one-place mailbox LatestValue, which AtomicSlot is shown  *)
(* to implement.  A book is its number among its exchange's books and the  *)
(* instant its decoding started; merge() is a pure function of the store   *)
(* (MergeTopN), so a summary is identified with the store it was made of.  *)
(***************************************************************************)
EXTENDS Integers

CONSTANTS
    NumExchanges,           \* receivers.len()
    StaleThreshold,         \* STALE_THRESHOLD, in ticks of the clock
    MaxBooks,               \* bound: books each exchange sends
    MaxTime                 \* bound: ticks of the clock

ASSUME MergerAssumption ==
    /\ NumExchanges \in Nat
    /\ StaleThreshold \in Nat
    /\ MaxBooks \in Nat
    /\ MaxTime \in Nat

Exchanges == 1..NumExchanges

VARIABLES
    now,                    \* the monotonic clock
    cancelled,              \* the CancellationToken
    alive,                  \* per exchange: its SlotSender is not dropped
    decoding,               \* per exchange: the book not yet sent
    sent,                   \* per exchange: number of books sent
    slot,                   \* per exchange: the value in its slot
    out,                    \* per exchange: what recv last returned
    pc,                     \* where the merger thread is
    i,                      \* the receiver it looks at
    books,                  \* BookStore.books
    t0,                     \* when the last eviction looked at the clock
    summary,                \* the value in the watch channel
    merges,                 \* Metrics.merges
    summaryTime,            \* the t0 of that summary (history)
    shown,                  \* per exchange: newest book published (history)
    passedBy                \* per two exchanges: recv calls on the second one
                            \* while a book waited in the first one's slot
                            \* (history)

feedVars == <<alive, decoding, sent>>
historyVars == <<summaryTime, shown, passedBy>>
vars == <<now, cancelled, alive, decoding, sent, slot, out, pc, i, books, t0,
          summary, merges, summaryTime, shown, passedBy>>

NoBook == [seq |-> 0, decode_start |-> 0]
Books == [seq : Nat, decode_start : Nat]
IsBook(b) == b.seq # 0
NobodyPassed == [f \in Exchanges |-> 0]

Init ==
    /\ now = 0
    /\ cancelled = FALSE
    /\ alive = [e \in Exchanges |-> TRUE]
    /\ decoding = [e \in Exchanges |-> NoBook]
    /\ sent = [e \in Exchanges |-> 0]
    /\ slot = [e \in Exchanges |-> NoBook]
    /\ out = [e \in Exchanges |-> NoBook]
    /\ pc = "cancel" /\ i = 1
    /\ books = [e \in Exchanges |-> NoBook]
    /\ t0 = 0
    /\ summary = [e \in Exchanges |-> NoBook]
    /\ merges = 0
    /\ summaryTime = 0
    /\ shown = [e \in Exchanges |-> 0]
    /\ passedBy = [e \in Exchanges |-> NobodyPassed]

-----------------------------------------------------------------------------
(* The exchange threads.                                                   *)

\* A frame arrives: decode_start is taken before it is parsed.
Decode(e) ==
    /\ alive[e] /\ ~IsBook(decoding[e])
    /\ sent[e] < MaxBooks
    /\ decoding' = [decoding EXCEPT
          ![e] = [seq |-> sent[e] + 1, decode_start |-> now]]
    /\ UNCHANGED <<now, cancelled, alive, sent, slot, out, pc, i, books, t0,
                   summary, merges>>
    /\ UNCHANGED historyVars

\* try_send_book while the receiver exists: overwrite whatever is unread.
SendBook(e) ==
    /\ alive[e] /\ IsBook(decoding[e])
    /\ pc # "stopped"
    /\ slot' = [slot EXCEPT ![e] = decoding[e]]
    /\ sent' = [sent EXCEPT ![e] = @ + 1]
    /\ decoding' = [decoding EXCEPT ![e] = NoBook]
    /\ UNCHANGED <<now, cancelled, alive, out, pc, i, books, t0, summary, merges>>
    /\ UNCHANGED historyVars

\* An exchange thread ends and drops its SlotSender: cancelled, or shut down
\* by a try_send_book that found the receiver gone.
StopFeed(e) ==
    /\ alive[e]
    /\ alive' = [alive EXCEPT ![e] = FALSE]
    /\ decoding' = [decoding EXCEPT ![e] = NoBook]
    /\ UNCHANGED <<now, cancelled, sent, slot, out, pc, i, books, t0, summary, merges>>
    /\ UNCHANGED historyVars

Tick ==
    /\ now < MaxTime
    /\ now' = now + 1
    /\ UNCHANGED <<cancelled, alive, decoding, sent, slot, out, pc, i, books,
                   t0, summary, merges>>
    /\ UNCHANGED historyVars

Cancel ==
    /\ ~cancelled
    /\ cancelled' = TRUE
    /\ UNCHANGED <<now, alive, decoding, sent, slot, out, pc, i, books, t0,
                   summary, merges>>
    /\ UNCHANGED historyVars

-----------------------------------------------------------------------------
(* The merger thread.                                                      *)

\* Mutant: cancellation is not looked at.
StopRequestedNever == FALSE

\* Top of the loop: cancelled?
StopRequested == cancelled

CheckCancel ==
    /\ pc = "cancel"
    /\ pc' = IF StopRequested THEN "stopped" ELSE "abandoned"
    /\ UNCHANGED <<now, cancelled, slot, out, i, books, t0, summary, merges>>
    /\ UNCHANGED historyVars /\ UNCHANGED feedVars

\* A pass begins with the first receiver.
FirstReceiver == 1

\* Mutant: a merge starts the pass again.
AfterMergeFirst == FirstReceiver

\* After a merge the pass goes on with the next receiver.
AfterMerge == i + 1

\* recv on receiver i passes by every other slot in which a book waits.
PassedBy == [e \in Exchanges |->
                IF e # i /\ IsBook(slot[e])
                THEN [passedBy[e] EXCEPT ![i] = @ + 1] ELSE NobodyPassed]

\* All producers dropped?  Otherwise begin a pass over the receivers.
CheckAbandoned ==
    /\ pc = "abandoned"
    /\ pc' = IF \A e \in Exchanges : ~alive[e] THEN "stopped" ELSE "poll"
    /\ i' = FirstReceiver
    /\ UNCHANGED <<now, cancelled, slot, out, books, t0, summary, merges>>
    /\ UNCHANGED historyVars /\ UNCHANGED feedVars

\* recv() returns None: on to the next receiver.
PollNone ==
    /\ pc = "poll" /\ i <= NumExchanges
    /\ ~IsBook(slot[i])
    /\ out' = [out EXCEPT ![i] = NoBook]
    /\ i' = i + 1
    /\ passedBy' = PassedBy
    /\ UNCHANGED <<now, cancelled, slot, pc, books, t0, summary, merges,
                   summaryTime, shown>> /\ UNCHANGED feedVars

\* Mutant: the stored book is swapped into the slot.
TakenSwapped == books[i]

\* What recv leaves in the slot.
Taken == NoBook

\* Mutant: a book that replaces another does not cause a merge.
AfterInsertLazy == IF IsBook(books[i]) THEN "poll" ELSE "evict"

\* Every received book is merged at once.
AfterInsert == "evict"

\* recv() returns a book: insert it in the store.
PollBook ==
    /\ pc = "poll" /\ i <= NumExchanges
    /\ IsBook(slot[i])
    /\ out' = [out EXCEPT ![i] = slot[i]]
    /\ slot' = [slot EXCEPT ![i] = Taken]
    /\ books' = [books EXCEPT ![i] = slot[i]]
    /\ pc' = AfterInsert
    /\ passedBy' = PassedBy
    /\ UNCHANGED <<now, cancelled, i, t0, summary, merges, summaryTime, shown>>
    /\ UNCHANGED feedVars

\* evict_stale: whether a book in the store is too old at time t.
IsStale(b, t) == IsBook(b) /\ t - b.decode_start > StaleThreshold

\* Mutant: the book that was just received is spared.
EvictedOthers(e) == e # i /\ IsStale(books[e], now)

Evicted(e) == IsStale(books[e], now)

EvictStale ==
    /\ pc = "evict"
    /\ t0' = now
    /\ books' = [e \in Exchanges |->
                    IF Evicted(e) THEN NoBook ELSE books[e]]
    /\ pc' = "publish"
    /\ UNCHANGED <<now, cancelled, slot, out, i, summary, merges>>
    /\ UNCHANGED historyVars
    /\ UNCHANGED feedVars

\* merge, send on the watch channel, count, and go on with the pass.  (The
\* latency record() is Histogram's.)
Publish ==
    /\ pc = "publish"
    /\ summary' = books
    /\ merges' = merges + 1
    /\ summaryTime' = t0
    /\ shown' = [e \in Exchanges |-> IF books[e].seq > shown[e]
                                     THEN books[e].seq ELSE shown[e]]
    /\ pc' = "poll"
    /\ i' = AfterMerge
    /\ UNCHANGED <<now, cancelled, slot, out, books, t0, passedBy>>
    /\ UNCHANGED feedVars

\* The pass is over: spin_loop if it found nothing, and start again.
EndPass ==
    /\ pc = "poll" /\ i > NumExchanges
    /\ pc' = "cancel"
    /\ UNCHANGED <<now, cancelled, slot, out, i, books, t0, summary, merges>>
    /\ UNCHANGED historyVars /\ UNCHANGED feedVars

MergerStep ==
    \/ CheckCancel \/ CheckAbandoned \/ PollNone \/ PollBook \/ EvictStale
    \/ Publish \/ EndPass

Next ==
    \/ MergerStep
    \/ \E e \in Exchanges : Decode(e) \/ SendBook(e) \/ StopFeed(e)
    \/ Tick \/ Cancel

Spec == Init /\ [][Next]_vars

\* The merger thread runs for as long as it has something to do, and so does
\* an exchange thread between decoding a book and sending it.  Nothing makes
\* an exchange send, stop or be cancelled.
Fairness ==
    /\ WF_vars(MergerStep)
    /\ \A e \in Exchanges : WF_vars(SendBook(e))
    /\ WF_vars(Tick)

FairSpec == Spec /\ Fairness

-----------------------------------------------------------------------------
TypeOK ==
    /\ now \in Nat /\ t0 \in Nat /\ summaryTime \in Nat /\ merges \in Nat
    /\ cancelled \in BOOLEAN
    /\ alive \in [Exchanges -> BOOLEAN]
    /\ decoding \in [Exchanges -> Books] /\ slot \in [Exchanges -> Books]
    /\ out \in [Exchanges -> Books]
    /\ books \in [Exchanges -> Books] /\ summary \in [Exchanges -> Books]
    /\ sent \in [Exchanges -> Nat] /\ shown \in [Exchanges -> Nat]
    /\ passedBy \in [Exchanges -> [Exchanges -> Nat]]
    /\ pc \in {"cancel", "abandoned", "poll", "evict", "publish", "stopped"}
    /\ i \in 1..(NumExchanges + 1)

\* "Books older than this are evicted before merging": no published summary
\* contains a book that was stale when it was merged, not even the one whose
\* arrival caused the merge.
FreshWhenMerged ==
    \A e \in Exchanges : ~IsStale(summary[e], summaryTime)

\* Two exchanges' books in one summary were decoded at most StaleThreshold
\* apart: a summary never compares a current price with a price from before
\* a disconnect.
BoundedSkew ==
    \A e, f \in Exchanges :
        IsBook(summary[e]) /\ IsBook(summary[f]) =>
            summary[e].decode_start - summary[f].decode_start
                <= StaleThreshold

\* Every published summary is of books that are fresh and close together.
FreshAndClose == FreshWhenMerged /\ BoundedSkew

\* Between two merges clients see the merger's own view: nothing enters or
\* leaves the store without a summary being published.
SummaryIsStore ==
    pc \notin {"evict", "publish"} => summary = books

\* No published summary takes an exchange back to an older book than one
\* already published, whatever was evicted in between.
NoRollback ==
    [][\A e \in Exchanges :
          IsBook(summary'[e]) => summary'[e].seq >= shown[e]]_vars

\* Per-exchange slots seen from outside are latest-value mailboxes, with the
\* merger as the only receiver.
Slot(e) == INSTANCE LatestValue WITH
    MaxSends <- MaxBooks,
    published <- sent[e],
    pending <- slot[e].seq,
    out <- out[e].seq,
    senderAlive <- alive[e],
    receiverAlive <- pc # "stopped"

SlotsAreMailboxes ==
    [][\A e \in Exchanges : [Slot(e)!LVNext]_(Slot(e)!lvVars)]_vars

\* No slot is starved, however fast the other exchanges send: from the moment
\* a book arrives in an empty slot until recv takes it or what overwrote it,
\* recv is called at most once on each other receiver, whether those calls
\* return books or not.
NoSlotIsStarved == \A e, f \in Exchanges : passedBy[e][f] <= 1

\* Cancellation stops the merger, even in the middle of a pass, and so does
\* the loss of all producers.
MergerStops ==
    (cancelled \/ \A e \in Exchanges : ~alive[e]) ~> pc = "stopped"

\* "If an exchange disconnects, its book is evicted": a book that has become
\* stale does not stay in the published summary for ever.
StaleBookLeaves ==
    \A e \in Exchanges :
        IsStale(summary[e], now)
            ~> (~IsStale(summary[e], now) \/ pc = "stopped")
=============================================================================
