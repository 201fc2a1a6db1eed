---------------------------- MODULE LatestValue ----------------------------
(***************************************************************************)
(* What src/atomic_slot.rs promises its two users: a one-place mailbox     *)
(* between one sender and one receiver in which a send overwrites the      *)
(* value nobody has taken yet, and a receive takes the newest value or     *)
(* learns that there is none.  Every operation is one atomic step.         *)
(* Values are numbered in the order in which they are sent, 1, 2, ...;     *)
(* the slot never inspects a value, so the number is all that matters.     *)
(***************************************************************************)
EXTENDS Naturals

CONSTANT MaxSends           \* bound on the values sent, for model checking

Empty == 0                  \* Option::None

VARIABLES
    published,              \* number of values sent so far
    pending,                \* the value a receive would take, or Empty
    out,                    \* what the latest receive returned
    senderAlive,            \* the SlotSender has not been dropped
    receiverAlive           \* the SlotReceiver has not been dropped

lvVars == <<published, pending, out, senderAlive, receiverAlive>>

LVInit ==
    /\ published = 0
    /\ pending = Empty
    /\ out = Empty
    /\ senderAlive = TRUE
    /\ receiverAlive = TRUE

\* A value is sent; the one it overwrites, if any, is lost.
Send ==
    /\ senderAlive
    /\ published < MaxSends
    /\ published' = published + 1
    /\ pending' = published + 1
    /\ UNCHANGED <<out, senderAlive, receiverAlive>>

\* The newest value is taken: it is never returned again.
RecvSome ==
    /\ receiverAlive
    /\ pending # Empty
    /\ out' = pending
    /\ pending' = Empty
    /\ UNCHANGED <<published, senderAlive, receiverAlive>>

\* Nothing was sent since the last value was taken.
RecvNone ==
    /\ receiverAlive
    /\ pending = Empty
    /\ out' = Empty
    /\ UNCHANGED <<published, pending, senderAlive, receiverAlive>>

LoseSender ==
    /\ senderAlive
    /\ senderAlive' = FALSE
    /\ UNCHANGED <<published, pending, out, receiverAlive>>

LoseReceiver ==
    /\ receiverAlive
    /\ receiverAlive' = FALSE
    /\ UNCHANGED <<published, pending, out, senderAlive>>

LVNext == Send \/ RecvSome \/ RecvNone \/ LoseSender \/ LoseReceiver

LVSpec == LVInit /\ [][LVNext]_lvVars
=============================================================================
