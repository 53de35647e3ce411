------------------------------ MODULE FairRWGate ------------------------------
(***************************************************************************)
(* fairRWGate (internal/gitruntime/gate.go): a first-come, first-served    *)
(* read/write gate whose waiters may be cancelled at any time, also while  *)
(* a grant is on its way to them.  One client is one call of acquire and   *)
(* of the release function it returns; it may call again.                  *)
(***************************************************************************)
EXTENDS GateOps

CONSTANT Clients

ASSUME ClientsFinite == IsFiniteSet(Clients)

VARIABLES
    gate,    \* the fairRWGate
    pc,      \* where each client is in acquire
    write    \* the mode each client asked for last

vars == <<gate, pc, write>>

Gates == [readers : Nat, writer : BOOLEAN, waitRead : SUBSET Clients,
          waitWrite : SUBSET Clients, ahead : SUBSET (Clients \X Clients)]

TypeOK ==
    /\ gate \in Gates
    /\ pc \in [Clients -> {"idle", "waiting", "holding", "leaving"}]
    /\ write \in [Clients -> BOOLEAN]

Init ==
    /\ gate = NewGate
    /\ pc = [c \in Clients |-> "idle"]
    /\ write = [c \in Clients |-> FALSE]

At(c, p) == pc' = [pc EXCEPT ![c] = p]

\* acquire up to its select
Acquire(c, w) ==
    /\ pc[c] = "idle"
    /\ write' = [write EXCEPT ![c] = w]
    /\ IF canAcquireImmediately(gate, w)
       THEN gate' = markAcquired(gate, w) /\ At(c, "holding")
       ELSE gate' = Enqueue(gate, c, w) /\ At(c, "waiting")

\* the channel of the waiter is closed
Granted(c) ==
    /\ pc[c] = "waiting"
    /\ c \notin Waiters(gate)
    /\ At(c, "holding")
    /\ UNCHANGED <<gate, write>>

\* ctx.Done is chosen, and the waiter is still queued
Cancel(c) ==
    /\ pc[c] = "waiting"
    /\ c \in Waiters(gate)
    /\ gate' = Withdraw(gate, c)
    /\ At(c, "idle")
    /\ UNCHANGED write

\* ctx.Done is chosen, but the grant won: the slot must be given back
CancelTooLate(c) ==
    /\ pc[c] = "waiting"
    /\ c \notin Waiters(gate)
    /\ At(c, "leaving")
    /\ UNCHANGED <<gate, write>>

Release(c) ==
    /\ pc[c] \in {"holding", "leaving"}
    /\ gate' = release(gate, write[c])
    /\ At(c, "idle")
    /\ UNCHANGED write

Next == \E c \in Clients :
    \/ \E w \in BOOLEAN : Acquire(c, w)
    \/ Granted(c) \/ Cancel(c) \/ CancelTooLate(c) \/ Release(c)

Spec == Init /\ [][Next]_vars

\* A client that was granted notices it, and every holder releases.  That
\* anybody cancels is not assumed.
Fairness == \A c \in Clients : WF_vars(Granted(c) \/ CancelTooLate(c)) /\ WF_vars(Release(c))

LiveSpec == Spec /\ Fairness

----------------------------------------------------------------------------
(* Properties. *)

\* those the gate has let in, whether they know it yet or not
Inside == {c \in Clients : pc[c] # "idle" /\ c \notin Waiters(gate)}

\* A writer is alone inside, counting the clients whose grant is still on its
\* way and those that lost the race with their cancellation (grantLocked).
Exclusion == \A c, d \in Inside : write[c] => d = c

\* The counters agree with who is really inside: no path of acquire, cancel or
\* release leaks a slot or gives one back twice.
CountsExact ==
    /\ gate.readers = Cardinality({c \in Inside : ~write[c]})
    /\ gate.writer = \E c \in Inside : write[c]

\* Readers never pass a writer: a client is let in only when no writer that
\* queued before it is still waiting.
Passed(c) == IF c \in Waiters(gate) THEN AheadOf(gate, c) ELSE Waiters(gate)

NoOvertaking ==
    [][\A c \in Inside' \ Inside : Passed(c) \cap gate'.waitWrite = {}]_vars

\* The gate implements the read/write lock it is used as.
place == [c \in Clients |->
    IF pc[c] = "idle" THEN "out"
    ELSE IF c \in gate.waitRead THEN "waitRead"
    ELSE IF c \in gate.waitWrite THEN "waitWrite"
    ELSE IF write[c] THEN "writing" ELSE "reading"]

Lock == INSTANCE ReadWriteLock
ImplementsLock == Lock!Spec

\* Nobody starves: a client that waits is let in or withdraws, although readers
\* keep coming.
NoStarvation == \A c \in Clients : []<>(c \notin Waiters(gate))
=============================================================================
