------------------------------ MODULE Semaphore ------------------------------
(***************************************************************************)
(* What a limiter promises: at most Limit clients are inside, and a free   *)
(* place does not stay free while somebody waits for it.  It does not      *)
(* promise an order, nor that a given client is served.                    *)
(***************************************************************************)
EXTENDS Naturals, FiniteSets

CONSTANTS Clients, Limit

VARIABLES
    waiting,  \* clients that want to enter
    holding   \* clients inside

vars == <<waiting, holding>>

Init == waiting = {} /\ holding = {}

Room == Cardinality(holding) < Limit

Ask(c) ==
    /\ c \notin waiting \cup holding
    /\ waiting' = waiting \cup {c}
    /\ UNCHANGED holding

\* a client that waits, or one that tries without waiting
Enter(c) ==
    /\ c \notin holding /\ Room
    /\ waiting' = waiting \ {c}
    /\ holding' = holding \cup {c}

GiveUp(c) ==
    /\ c \in waiting
    /\ waiting' = waiting \ {c}
    /\ UNCHANGED holding

Leave(c) ==
    /\ c \in holding
    /\ holding' = holding \ {c}
    /\ UNCHANGED waiting

Next == \E c \in Clients : Ask(c) \/ Enter(c) \/ GiveUp(c) \/ Leave(c)

EnterWaiting == \E c \in waiting : Enter(c)

Safe == Init /\ [][Next]_vars

Spec == Safe /\ WF_vars(EnterWaiting)
=============================================================================
