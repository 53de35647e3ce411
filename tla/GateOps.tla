------------------------------- MODULE GateOps -------------------------------
(***************************************************************************)
(* The critical sections of fairRWGate (internal/gitruntime/gate.go) as    *)
(* operators on gates, shared by the model of one gate (FairRWGate) and by *)
(* the model of the Git runtime, which owns a gate for the topology and    *)
(* one for every repository (GitRuntime).                                  *)
(*                                                                         *)
(* The slice of waiters is kept as the sets of the clients that wait to    *)
(* read and to write, and the relation "stands ahead of in the queue".     *)
(* A waiter that has left the queue has been granted: closing its channel  *)
(* and leaving the queue are one step of the code.                         *)
(***************************************************************************)
EXTENDS Naturals, FiniteSets

NewGate == [readers |-> 0, writer |-> FALSE, waitRead |-> {}, waitWrite |-> {}, ahead |-> {}]

Waiters(g) == g.waitRead \cup g.waitWrite

\* those that stand ahead of c in the queue
AheadOf(g, c) == {b \in Waiters(g) : <<b, c>> \in g.ahead}

MutReadersPass(g, write) ==
    IF write THEN Waiters(g) = {} /\ ~g.writer /\ g.readers = 0 ELSE ~g.writer

canAcquireImmediately(g, write) ==
    /\ Waiters(g) = {}
    /\ ~g.writer
    /\ write => g.readers = 0

markAcquired(g, write) ==
    IF write THEN [g EXCEPT !.writer = TRUE] ELSE [g EXCEPT !.readers = @ + 1]

\* append to the slice of waiters
Enqueue(g, c, write) ==
    [g EXCEPT !.waitRead = IF write THEN @ ELSE @ \cup {c},
              !.waitWrite = IF write THEN @ \cup {c} ELSE @,
              !.ahead = @ \cup (Waiters(g) \X {c})]

Dequeue(g, served) ==
    [g EXCEPT !.waitRead = @ \ served,
              !.waitWrite = @ \ served,
              !.ahead = {p \in @ : p[1] \notin served /\ p[2] \notin served}]

FrontWriter(g) == {c \in g.waitWrite : AheadOf(g, c) = {}}
FrontReaders(g) == {c \in g.waitRead : AheadOf(g, c) \cap g.waitWrite = {}}

MutGrantToWriter(g) ==
    IF g.writer THEN g
    ELSE IF FrontWriter(g) # {}
    THEN [Dequeue(g, FrontWriter(g)) EXCEPT !.writer = TRUE]
    ELSE IF g.readers # 0 THEN g
    ELSE [Dequeue(g, FrontReaders(g)) EXCEPT !.readers = Cardinality(FrontReaders(g))]

\* A free gate goes to the writer at the front, or to all readers ahead of
\* the first writer.
grantLocked(g) ==
    IF g.writer \/ g.readers # 0 THEN g
    ELSE IF FrontWriter(g) # {}
    THEN [Dequeue(g, FrontWriter(g)) EXCEPT !.writer = TRUE]
    ELSE [Dequeue(g, FrontReaders(g)) EXCEPT !.readers = Cardinality(FrontReaders(g))]

\* the function returned to a client that was admitted
release(g, write) ==
    grantLocked(IF write THEN [g EXCEPT !.writer = FALSE] ELSE [g EXCEPT !.readers = @ - 1])

\* a client gives up while it is still queued
Withdraw(g, c) == grantLocked(Dequeue(g, {c}))
=============================================================================
