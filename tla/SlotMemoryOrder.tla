--------------------------- MODULE SlotMemoryOrder ---------------------------
(***************************************************************************)
(* The memory orderings of src/atomic_slot.rs.  Buffers are plain memory:  *)
(* two accesses of one buffer by the two threads race unless one happens   *)
(* before the other, and only the atomics can order them.  Each thread has *)
(* a vector clock; a release operation leaves its clock in the atomic, an  *)
(* acquire operation joins what it finds there, and a read-modify-write    *)
(* that does not release continues the release sequence it extends.  Every *)
(* buffer access is checked against the other thread's latest one.         *)
(* MOSpec is AtomicSlot with these clocks beside it.  In StaleSpec the      *)
(* relaxed load of recv may in addition miss a swap that has not reached   *)
(* the consumer yet.                                                       *)
(***************************************************************************)
EXTENDS AtomicSlot

VARIABLES
    clock,                  \* per thread: what happened before its next step
    stateView,              \* the clock released through Shared.state
    refView,                \* the clock released through Shared.refcount
    accessed,               \* per buffer and thread: time of its last access
    races                   \* the kinds of unordered pairs met (history)

moVars == <<clock, stateView, refView, accessed, races>>
allVars == <<vars, moVars>>

Threads == {"producer", "consumer"}
Zero == [t \in Threads |-> 0]
Join(c, d) == [t \in Threads |-> IF c[t] > d[t] THEN c[t] ELSE d[t]]

\* Mutants: Relaxed, and a decrement that only releases.
RelaxedOrdering == {}
ReleaseOrdering == {"release"}

\* The Ordering arguments of the read-modify-write operations.
SendOrdering == {"release"}
RecvOrdering == {"acquire"}
DropOrdering == {"acquire", "release"}

-----------------------------------------------------------------------------
\* The clock of thread t after a read-modify-write that finds view, and the
\* view it leaves behind.
ClockAfter(t, view, ordering) ==
    IF "acquire" \in ordering THEN Join(clock[t], view) ELSE clock[t]

ViewAfter(t, view, ordering) ==
    IF "release" \in ordering
    THEN Join(view, ClockAfter(t, view, ordering)) ELSE view

\* Thread t accesses the buffers in set bs, an event of its own time.
Access(t, bs, kind) ==
    LET now == clock[t][t] + 1
        unordered(b) == \E u \in Threads \ {t} : accessed[b][u] > clock[t][u]
    IN  /\ clock' = [clock EXCEPT ![t][t] = now]
        /\ accessed' = [b \in Indices |-> IF b \in bs
                            THEN [accessed[b] EXCEPT ![t] = now]
                            ELSE accessed[b]]
        /\ races' = races \union (IF \E b \in bs : unordered(b)
                                  THEN {kind} ELSE {})
        /\ UNCHANGED <<stateView, refView>>

Synchronise(t, ordering) ==
    /\ clock' = [clock EXCEPT ![t] = ClockAfter(t, stateView, ordering)]
    /\ stateView' = ViewAfter(t, stateView, ordering)
    /\ UNCHANGED <<refView, accessed, races>>

SynchroniseDrop(t) ==
    /\ clock' = [clock EXCEPT ![t] = ClockAfter(t, refView, DropOrdering)]
    /\ refView' = ViewAfter(t, refView, DropOrdering)
    /\ UNCHANGED <<stateView, accessed, races>>

-----------------------------------------------------------------------------
MOInit ==
    /\ Init
    /\ clock = [t \in Threads |-> Zero]
    /\ stateView = Zero /\ refView = Zero
    /\ accessed = [b \in Indices |-> Zero]
    /\ races = {}

MOSendWrite == SendWrite /\ Access("producer", {back}, "reuse")
MOSendSwap == SendSwap /\ Synchronise("producer", SendOrdering)

MORecvLoad == (RecvNone \/ RecvDirty) /\ UNCHANGED moVars
MORecvSwap == RecvSwap /\ Synchronise("consumer", RecvOrdering)
MORecvTake == RecvTake /\ Access("consumer", {front}, "publish")

MODropSender == DropSender /\ SynchroniseDrop("producer")
MODropReceiver == DropReceiver /\ SynchroniseDrop("consumer")

\* Dropping the Box drops whatever the three buffers still hold.
MOFreeBySender == FreeBySender /\ Access("producer", Indices, "free")
MOFreeByReceiver == FreeByReceiver /\ Access("consumer", Indices, "free")

MONext ==
    \/ MOSendWrite \/ MOSendSwap \/ MODropSender \/ MOFreeBySender
    \/ MORecvLoad \/ MORecvSwap \/ MORecvTake
    \/ MODropReceiver \/ MOFreeByReceiver

MOSpec == MOInit /\ [][MONext]_allVars

FairMOSpec == MOSpec /\ Fairness

\* The consumer has read nothing of the state byte since its own last swap,
\* which cleared the flag, so a relaxed load may still return that value.
RecvStale ==
    /\ cpc = "idle"
    /\ out' = Empty
    /\ UNCHANGED <<front, cpc, last>>
    /\ UNCHANGED sharedVars /\ UNCHANGED producerVars

StaleNext == MONext \/ (RecvStale /\ UNCHANGED moVars)

StaleSpec == MOInit /\ [][StaleNext]_allVars

-----------------------------------------------------------------------------
\* "Acquire: ensures we see all buffer writes the producer made before its
\* Release swap": every take() is ordered after the producer's write of the
\* buffer it empties.
PublicationOrdered == "publish" \notin races

\* The AcqRel decrements order every access of either half before the drop of
\* the Box, whichever half performs it and however late its last access was.
FreeOrdered == "free" \notin races

\* "The triple-buffer protocol ensures no concurrent access to any buffer":
\* the producer's write of a recycled buffer is ordered after the consumer's
\* take() of it.
ReuseOrdered == "reuse" \notin races
=============================================================================
