----------------------------- MODULE AtomicSlot -----------------------------
(***************************************************************************)
(* The lock-free triple buffer of src/atomic_slot.rs, which carries order  *)
(* books from one exchange thread (the producer) to the merger thread (the *)
(* consumer).  One action per access of the shared allocation: the steps   *)
(* of send and recv interleave freely, and so do the drops of the halves.  *)
(* Accesses are sequentially consistent here; what the chosen memory       *)
(* orderings add or leave out is the subject of SlotMemoryOrder.           *)
(* Values are numbered in the order in which they are sent, from 1.        *)
(***************************************************************************)
EXTENDS Integers

CONSTANT MaxSends           \* bound on the values sent, for model checking

ASSUME MaxSendsAssumption == MaxSends \in Nat

VARIABLES
    buffers,                \* Shared.buffers: a value, or Empty, per index
    state,                  \* Shared.state: the packed byte
    refcount,               \* Shared.refcount
    frees,                  \* how often Box<Shared> was dropped (history)
    back,                   \* SlotSender.back
    front,                  \* SlotReceiver.front
    ppc,                    \* where the producer is
    cpc,                    \* where the consumer is
    sent,                   \* number of values written by send (history)
    out,                    \* what the latest recv returned
    last                    \* the latest value recv returned (history)

sharedVars == <<buffers, state, refcount, frees>>
producerVars == <<back, ppc, sent>>
consumerVars == <<front, cpc, out, last>>
vars == <<buffers, state, refcount, frees, back, ppc, sent,
          front, cpc, out, last>>

Empty == 0                  \* Option::None
Indices == 0..2
Values == 1..MaxSends

\* The state byte: bit 0 is the dirty flag, the bits above it the index of
\* the middle buffer.
DIRTY == 1
Pack(index, flag) == 2 * index + flag
IndexOf(byte) == byte \div 2
IsDirty(byte) == byte % 2 = DIRTY

-----------------------------------------------------------------------------
(* slot(): back = 0, middle = 1, front = 2, nothing to receive.            *)
Init ==
    /\ buffers = [i \in Indices |-> Empty]
    /\ state = Pack(1, 0)
    /\ refcount = 2
    /\ frees = 0
    /\ back = 0 /\ ppc = "idle" /\ sent = 0
    /\ front = 2 /\ cpc = "idle" /\ out = Empty /\ last = Empty

\* The buffer send writes: the producer's own.
WriteIndex == back

(* send: write the back buffer, dropping in place whatever it held.        *)
SendWrite ==
    /\ ppc = "idle"
    /\ sent < MaxSends
    /\ buffers' = [buffers EXCEPT ![WriteIndex] = sent + 1]
    /\ sent' = sent + 1
    /\ ppc' = "swap"
    /\ UNCHANGED <<state, refcount, frees, back>> /\ UNCHANGED consumerVars

\* Mutant: the flag is not set.
PublishByteClean == Pack(back, 0)

\* What send swaps in: its own buffer on offer, and new.
PublishByte == Pack(back, DIRTY)

\* Mutant: the producer goes on writing the buffer it has just published.
NewBackKept == back

\* What send gets back: the old middle becomes the new back.
NewBack == IndexOf(state)

(* send: publish with one swap.                                            *)
SendSwap ==
    /\ ppc = "swap"
    /\ state' = PublishByte
    /\ back' = NewBack
    /\ ppc' = "idle"
    /\ UNCHANGED <<buffers, refcount, frees, sent>> /\ UNCHANGED consumerVars

(* recv, the fast path: the flag is clear, return None.                    *)
RecvNone ==
    /\ cpc = "idle"
    /\ ~IsDirty(state)
    /\ out' = Empty
    /\ UNCHANGED <<front, cpc, last>>
    /\ UNCHANGED sharedVars /\ UNCHANGED producerVars

(* recv: the flag is set, go on to the swap.                               *)
RecvDirty ==
    /\ cpc = "idle"
    /\ IsDirty(state)
    /\ cpc' = "swap"
    /\ UNCHANGED <<front, out, last>>
    /\ UNCHANGED sharedVars /\ UNCHANGED producerVars

\* What recv swaps in: its own buffer, and nothing new.
TakeByte == Pack(front, 0)

(* recv: swap front and middle and clear the flag.                         *)
RecvSwap ==
    /\ cpc = "swap"
    /\ state' = TakeByte
    /\ front' = IndexOf(state)
    /\ cpc' = "take"
    /\ UNCHANGED <<buffers, refcount, frees, out, last>>
    /\ UNCHANGED producerVars

(* recv: take() the new front buffer and return what it held.              *)
RecvTake ==
    /\ cpc = "take"
    /\ out' = buffers[front]
    /\ last' = IF buffers[front] = Empty THEN last ELSE buffers[front]
    /\ buffers' = [buffers EXCEPT ![front] = Empty]
    /\ cpc' = "idle"
    /\ UNCHANGED <<state, refcount, frees, front>> /\ UNCHANGED producerVars

(* drop_half: the half whose decrement finds 1 is the last one, and frees. *)
DropHalf == refcount' = refcount - 1

\* Mutant: every half frees.
AfterDropFree == "free"

\* Mutant: the old count is compared with 0.
AfterDropZero == IF refcount = 0 THEN "free" ELSE "gone"

AfterDrop == IF refcount = 1 THEN "free" ELSE "gone"

DropSender ==
    /\ ppc = "idle"
    /\ DropHalf
    /\ ppc' = AfterDrop
    /\ UNCHANGED <<buffers, state, frees, back, sent>>
    /\ UNCHANGED consumerVars

DropReceiver ==
    /\ cpc = "idle"
    /\ DropHalf
    /\ cpc' = AfterDrop
    /\ UNCHANGED <<buffers, state, frees, front, out, last>>
    /\ UNCHANGED producerVars

FreeBySender ==
    /\ ppc = "free"
    /\ frees' = frees + 1
    /\ ppc' = "gone"
    /\ UNCHANGED <<buffers, state, refcount, back, sent>>
    /\ UNCHANGED consumerVars

FreeByReceiver ==
    /\ cpc = "free"
    /\ frees' = frees + 1
    /\ cpc' = "gone"
    /\ UNCHANGED <<buffers, state, refcount, front, out, last>>
    /\ UNCHANGED producerVars

Recv == RecvNone \/ RecvDirty \/ RecvSwap \/ RecvTake

Next ==
    \/ SendWrite \/ SendSwap \/ DropSender \/ FreeBySender
    \/ Recv \/ DropReceiver \/ FreeByReceiver

Spec == Init /\ [][Next]_vars

\* A thread that has begun an operation finishes it, and the merger loop
\* polls recv again and again; nothing makes a producer send or a half drop.
Fairness ==
    /\ WF_vars(SendSwap)
    /\ WF_vars(Recv)
    /\ WF_vars(FreeBySender)
    /\ WF_vars(FreeByReceiver)

-----------------------------------------------------------------------------
\* Mutant: abandoned only when nobody is left.
IsAbandonedZero == refcount = 0

(* The is_abandoned methods of the two halves read refcount.               *)
IsAbandoned == refcount = 1

SenderAlive == ppc \in {"idle", "swap"}
ReceiverAlive == cpc \in {"idle", "swap", "take"}

\* Number of sends whose swap has happened: what a receiver can know of.
Published == IF ppc = "swap" THEN sent - 1 ELSE sent

TypeOK ==
    /\ buffers \in [Indices -> Values \union {Empty}]
    /\ state \in 0..5
    /\ refcount \in 0..2
    /\ frees \in 0..1
    /\ back \in Indices /\ front \in Indices
    /\ ppc \in {"idle", "swap", "free", "gone"}
    /\ cpc \in {"idle", "swap", "take", "free", "gone"}
    /\ sent \in 0..MaxSends
    /\ out \in Values \union {Empty} /\ last \in Values \union {Empty}

\* "The triple-buffer invariant guarantees all three indices are always
\* distinct": no two of producer, consumer and exchange point own the same
\* buffer, whatever the interleaving of their swaps.
DistinctIndices ==
    /\ back # IndexOf(state)
    /\ front # IndexOf(state)
    /\ back # front

\* A receive that saw the dirty flag returns a value, never None: between
\* the relaxed load and the swap only the consumer could clear the flag, and
\* the buffer it gets holds the newest published value or, once the producer
\* has published again, one that is newer than everything received before.
TakeIsFresh ==
    /\ cpc = "swap" => IsDirty(state)
    /\ cpc = "take" => buffers[front] > last /\ buffers[front] <= Published

\* A published value stays takeable until it is taken or overwritten: when
\* the flag is set the middle buffer holds the newest published value, and
\* when it is clear the newest one is in the consumer's hands.
NewestIsReachable ==
    ReceiverAlive =>
        IF IsDirty(state) THEN buffers[IndexOf(state)] = Published
        ELSE IF cpc = "take" THEN buffers[front] = Published
        ELSE last = Published

\* The allocation outlives both halves' accesses and is freed only by the
\* last one: no operation in progress, no later is_abandoned, touches it
\* after the Box is dropped.
NoUseAfterFree ==
    frees > 0 => /\ ~SenderAlive /\ ~ReceiverAlive
                 /\ ppc # "free" /\ cpc # "free"

\* While a half is alive, is_abandoned answers TRUE exactly when the other
\* half's decrement has happened: the merger never takes a live exchange for
\* a dead one.
AbandonedIsExact ==
    /\ SenderAlive => (IsAbandoned <=> ~ReceiverAlive)
    /\ ReceiverAlive => (IsAbandoned <=> ~SenderAlive)

\* No step of either half makes recv return an older value than it returned
\* before, or the same value a second time.
ReceivedInOrder ==
    [][last' # last => last' > last]_vars

\* Every published value is received, or a newer one is, unless the consumer
\* goes away: the busy-poll cannot miss a value for ever.
EventuallyReceived ==
    \A v \in Values :
        Published >= v ~> (last >= v \/ ~ReceiverAlive)

\* Once both halves are gone the allocation is freed: no leak, even when
\* both decrements race.
EventuallyFreed ==
    (~SenderAlive /\ ~ReceiverAlive) ~> frees = 1

-----------------------------------------------------------------------------
\* Every step of the triple buffer is a step of the one-place mailbox.  A
\* send takes effect at its swap, a receive at its load when it returns None
\* and at its swap otherwise.
Mailbox == INSTANCE LatestValue WITH
    published <- Published,
    pending <- IF IsDirty(state) THEN buffers[IndexOf(state)] ELSE Empty,
    out <- IF cpc = "take" THEN buffers[front] ELSE out,
    senderAlive <- SenderAlive,
    receiverAlive <- ReceiverAlive

ImplementsMailbox == Mailbox!LVSpec
=============================================================================
