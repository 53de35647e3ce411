------------------------------- MODULE Limiter -------------------------------
(***************************************************************************)
(* The limiters of the Git runtime (internal/gitruntime/limits.go): at     *)
(* most Limit clients inside, the others wait for the wake channel, which  *)
(* a client that leaves closes and replaces.  Everybody who waits is woken *)
(* then and tries again.                                                   *)
(*                                                                         *)
(* A wake channel is captured in the critical section that found the       *)
(* limiter full.  The channel of a client that waits is therefore either   *)
(* the current one, or closed: `woken` holds the clients whose channel is  *)
(* closed.                                                                 *)
(***************************************************************************)
EXTENDS Naturals, FiniteSets

CONSTANTS Clients, Limit

ASSUME LimiterConstants == IsFiniteSet(Clients) /\ Limit \in Nat \ {0}

VARIABLES
    active,  \* limiter.active
    woken,   \* clients whose wake channel is closed
    pc       \* where each client is

vars == <<active, woken, pc>>

Places == {"idle", "trying", "parked", "inside"}

TypeOK ==
    /\ active \in Nat
    /\ woken \subseteq Clients
    /\ pc \in [Clients -> Places]

Init ==
    /\ active = 0
    /\ woken = {}
    /\ pc = [c \in Clients |-> "idle"]

At(place) == {c \in Clients : pc[c] = place}

Move(c, from, to) ==
    /\ pc[c] = from
    /\ pc' = [pc EXCEPT ![c] = to]

\* acquire is called
Acquire(c) ==
    /\ Move(c, "idle", "trying")
    /\ UNCHANGED <<active, woken>>

\* the critical section of acquire, with a place free
Enter(c) ==
    /\ Move(c, "trying", "inside")
    /\ active < Limit
    /\ active' = active + 1
    /\ UNCHANGED woken

\* the same, without: the client keeps the wake channel of this moment
Park(c) ==
    /\ Move(c, "trying", "parked")
    /\ active >= Limit
    /\ woken' = woken \ {c}
    /\ UNCHANGED active

Wake(c) ==
    /\ Move(c, "parked", "trying")
    /\ c \in woken
    /\ UNCHANGED <<active, woken>>

\* ctx.Done is chosen, perhaps although the channel is closed as well
Cancel(c) ==
    /\ Move(c, "parked", "idle")
    /\ UNCHANGED <<active, woken>>

\* tryAcquire succeeds; when it fails nothing changes
TryAcquire(c) ==
    /\ Move(c, "idle", "inside")
    /\ active < Limit
    /\ active' = active + 1
    /\ UNCHANGED woken

MutWakeOne(c) ==
    /\ Move(c, "inside", "idle")
    /\ active' = active - 1
    /\ IF At("parked") = {} THEN UNCHANGED woken
       ELSE \E d \in At("parked") : woken' = woken \cup {d}

\* the release function, which runs once
Release(c) ==
    /\ Move(c, "inside", "idle")
    /\ active' = active - 1
    /\ woken' = woken \cup At("parked")

Client(c) ==
    \/ Acquire(c) \/ Enter(c) \/ Park(c) \/ Wake(c) \/ Cancel(c)
    \/ TryAcquire(c) \/ Release(c)

Next == \E c \in Clients : Client(c)

Spec == Init /\ [][Next]_vars

\* A client that runs goes on, and one that is woken notices it.  Nobody has
\* to come or to leave.
Fairness == \A c \in Clients : WF_vars(Enter(c)) /\ WF_vars(Park(c)) /\ WF_vars(Wake(c))

LiveSpec == Spec /\ Fairness

----------------------------------------------------------------------------
(* Properties. *)

\* `active` counts the clients inside, and never exceeds the limit.
WithinLimit == active = Cardinality(At("inside")) /\ active <= Limit

\* A client that waits for a channel nobody has closed waits for good reason:
\* the limiter is full, so somebody who will close the channel is inside.
NoMissedWake == active < Limit => At("parked") \subseteq woken

\* The limiter is a semaphore: parked and trying clients wait for it.  That
\* includes its progress: a place that is free is taken while somebody waits.
Abstract == INSTANCE Semaphore WITH
    waiting <- At("trying") \cup At("parked"),
    holding <- At("inside")

ImplementsSemaphore == Abstract!Spec
=============================================================================
