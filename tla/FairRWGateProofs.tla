-------------------------- MODULE FairRWGateProofs --------------------------
(***************************************************************************)
(* Exclusion, exact counting, first-come order and the implementation of   *)
(* ReadWriteLock, for any finite set of clients.                           *)
(*                                                                         *)
(* The inductive invariant is stated of a gate g, the program counters p   *)
(* and the modes w, because grantLocked runs on a gate that is already     *)
(* half changed (a slot given back, a waiter removed): the half-changed    *)
(* gate is shown consistent, and then grantLocked to preserve consistency. *)
(***************************************************************************)
EXTENDS FairRWGate, FiniteSetTheorems, TLAPS

InsideOf(g, p) == {c \in Clients : p[c] # "idle" /\ c \notin Waiters(g)}
ReadersOf(g, p, w) == {c \in InsideOf(g, p) : ~w[c]}

TypesOf(g, p, w) ==
    /\ g \in Gates
    /\ p \in [Clients -> {"idle", "waiting", "holding", "leaving"}]
    /\ w \in [Clients -> BOOLEAN]

\* who is queued is waiting, in the queue of its mode
QueueOf(g, p, w) ==
    /\ \A c \in g.waitRead : p[c] = "waiting" /\ ~w[c]
    /\ \A c \in g.waitWrite : p[c] = "waiting" /\ w[c]

\* of two waiters one stands ahead of the other
OrderOf(g) == \A c, d \in Waiters(g) : c # d => (<<c, d>> \in g.ahead \/ <<d, c>> \in g.ahead)

CountOf(g, p, w) ==
    /\ g.readers = Cardinality(ReadersOf(g, p, w))
    /\ g.writer = \E c \in InsideOf(g, p) : w[c]

AloneOf(g, p, w) == \A c, d \in InsideOf(g, p) : w[c] => d = c

Consistent(g, p, w) ==
    TypesOf(g, p, w) /\ QueueOf(g, p, w) /\ OrderOf(g) /\ CountOf(g, p, w) /\ AloneOf(g, p, w)

\* Whatever is taken out of the queue, the rest keeps its type and its order.
LEMMA DequeueFacts ==
    ASSUME NEW g \in Gates, NEW served \in SUBSET Clients
    PROVE  /\ Dequeue(g, served) \in Gates
           /\ Dequeue(g, served).readers = g.readers
           /\ Dequeue(g, served).writer = g.writer
           /\ Dequeue(g, served).waitRead = g.waitRead \ served
           /\ Dequeue(g, served).waitWrite = g.waitWrite \ served
           /\ Waiters(Dequeue(g, served)) = Waiters(g) \ served
           /\ OrderOf(g) => OrderOf(Dequeue(g, served))
<1> DEFINE h == Dequeue(g, served)
<1>1. h \in Gates /\ h.readers = g.readers /\ h.writer = g.writer
  BY DEF Dequeue, Gates
<1>2. h.waitRead = g.waitRead \ served /\ h.waitWrite = g.waitWrite \ served
      /\ h.ahead = {p \in g.ahead : p[1] \notin served /\ p[2] \notin served}
  BY DEF Dequeue, Gates
<1>3. Waiters(h) = Waiters(g) \ served BY <1>2 DEF Waiters
<1>4. OrderOf(g) => OrderOf(h) BY <1>2, <1>3 DEF OrderOf
<1> QED BY <1>1, <1>2, <1>3, <1>4

\* What is inside is a finite set.
LEMMA InsideFinite ==
    ASSUME NEW g, NEW p, NEW w
    PROVE  /\ IsFiniteSet(InsideOf(g, p)) /\ IsFiniteSet(ReadersOf(g, p, w))
           /\ Cardinality(ReadersOf(g, p, w)) \in Nat
<1>1. InsideOf(g, p) \subseteq Clients /\ ReadersOf(g, p, w) \subseteq Clients
  BY DEF InsideOf, ReadersOf
<1>2. IsFiniteSet(InsideOf(g, p)) /\ IsFiniteSet(ReadersOf(g, p, w))
  BY <1>1, ClientsFinite, FS_Subset
<1> QED BY <1>2, FS_CardinalityType

\* A free gate has nobody inside.
LEMMA FreeIsEmpty ==
    ASSUME NEW g, NEW p, NEW w, Consistent(g, p, w), ~g.writer, g.readers = 0
    PROVE  InsideOf(g, p) = {}
<1>1. ReadersOf(g, p, w) = {}
  BY InsideFinite, FS_EmptySet DEF Consistent, CountOf
<1>2. \A c \in InsideOf(g, p) : ~w[c] BY DEF Consistent, CountOf
<1> QED BY <1>1, <1>2 DEF ReadersOf

\* Handing the gate on keeps everything consistent.
LEMMA GrantConsistent ==
    ASSUME NEW g, NEW p, NEW w, Consistent(g, p, w)
    PROVE  Consistent(grantLocked(g), p, w)
<1> DEFINE W == FrontWriter(g)
           R == FrontReaders(g)
<1>0. TypesOf(g, p, w) /\ QueueOf(g, p, w) /\ OrderOf(g) /\ g \in Gates
  BY DEF Consistent, TypesOf
<1>1. CASE g.writer \/ g.readers # 0 BY <1>1 DEF grantLocked
<1>2. CASE ~g.writer /\ g.readers = 0 /\ W # {}
  <2> DEFINE h == [Dequeue(g, W) EXCEPT !.writer = TRUE]
  <2>1. grantLocked(g) = h BY <1>2 DEF grantLocked
  <2>2. W \subseteq Clients /\ W \subseteq g.waitWrite BY <1>0 DEF FrontWriter, Gates
  <2>3. PICK x \in W : TRUE BY <1>2
  <2>4. W = {x}
    <3> SUFFICES ASSUME NEW y \in W, y # x PROVE FALSE BY <2>3
    <3>1. x \in Waiters(g) /\ y \in Waiters(g) BY <2>2, <2>3 DEF Waiters
    <3>2. AheadOf(g, x) = {} /\ AheadOf(g, y) = {} BY <2>3 DEF FrontWriter
    <3> QED BY <1>0, <3>1, <3>2 DEF OrderOf, AheadOf
  <2>5. /\ h \in Gates /\ h.writer = TRUE /\ h.readers = 0
        /\ h.waitRead = g.waitRead \ W /\ h.waitWrite = g.waitWrite \ W
        /\ h.ahead = Dequeue(g, W).ahead
    BY <1>0, <1>2, <2>2, DequeueFacts DEF Gates
  <2>6. Waiters(h) = Waiters(g) \ {x} BY <2>4, <2>5 DEF Waiters
  <2>7. InsideOf(g, p) = {} BY <1>2, FreeIsEmpty
  <2>8. x \in Clients /\ x \in Waiters(g) /\ p[x] = "waiting" /\ w[x]
    BY <1>0, <2>2, <2>3 DEF QueueOf, Waiters
  <2>9. InsideOf(h, p) = {x} BY <2>6, <2>7, <2>8 DEF InsideOf
  <2>10. ReadersOf(h, p, w) = {} BY <2>8, <2>9 DEF ReadersOf
  <2>11. CountOf(h, p, w) BY <2>5, <2>8, <2>9, <2>10, FS_EmptySet DEF CountOf
  <2>12. AloneOf(h, p, w) BY <2>9 DEF AloneOf
  <2>13. OrderOf(h)
    <3>1. OrderOf(Dequeue(g, W)) BY <1>0, <2>2, DequeueFacts
    <3>2. Waiters(Dequeue(g, W)) = Waiters(g) \ W BY <1>0, <2>2, DequeueFacts
    <3>3. Waiters(Dequeue(g, W)) = Waiters(h) BY <2>4, <2>6, <3>2
    <3> QED BY <2>5, <3>1, <3>3 DEF OrderOf
  <2>14. QueueOf(h, p, w) BY <1>0, <2>5 DEF QueueOf
  <2> QED BY <1>0, <2>1, <2>5, <2>11, <2>12, <2>13, <2>14 DEF Consistent, TypesOf
<1>3. CASE ~g.writer /\ g.readers = 0 /\ W = {}
  <2> DEFINE h == [Dequeue(g, R) EXCEPT !.readers = Cardinality(R)]
  <2>1. grantLocked(g) = h BY <1>3 DEF grantLocked
  <2>2. R \subseteq Clients /\ R \subseteq g.waitRead BY <1>0 DEF FrontReaders, Gates
  <2>3. Cardinality(R) \in Nat BY <2>2, ClientsFinite, FS_Subset, FS_CardinalityType
  <2>4. /\ h \in Gates /\ h.writer = FALSE /\ h.readers = Cardinality(R)
        /\ h.waitRead = g.waitRead \ R /\ h.waitWrite = g.waitWrite \ R
        /\ h.ahead = Dequeue(g, R).ahead
    <3>1. Dequeue(g, R) \in Gates /\ Dequeue(g, R).writer = g.writer
      BY <1>0, <2>2, DequeueFacts
    <3>2. h \in Gates /\ h.writer = g.writer /\ h.readers = Cardinality(R)
          /\ h.ahead = Dequeue(g, R).ahead
      BY <2>3, <3>1 DEF Gates
    <3>3. h.waitRead = g.waitRead \ R /\ h.waitWrite = g.waitWrite \ R
      BY <1>0, <2>2, <3>1, DequeueFacts DEF Gates
    <3> QED BY <1>0, <1>3, <3>2, <3>3 DEF Gates
  <2>5. Waiters(h) = Waiters(g) \ R BY <2>4 DEF Waiters
  <2>6. InsideOf(g, p) = {} BY <1>3, FreeIsEmpty
  <2>7. \A c \in R : c \in Waiters(g) /\ p[c] = "waiting" /\ ~w[c]
    BY <1>0, <2>2 DEF QueueOf, Waiters
  <2>8. InsideOf(h, p) = R BY <2>2, <2>5, <2>6, <2>7 DEF InsideOf
  <2>9. ReadersOf(h, p, w) = R BY <2>7, <2>8 DEF ReadersOf
  <2>10. CountOf(h, p, w) BY <2>4, <2>7, <2>8, <2>9 DEF CountOf
  <2>11. AloneOf(h, p, w) BY <2>7, <2>8 DEF AloneOf
  <2>12. OrderOf(h)
    <3>1. OrderOf(Dequeue(g, R)) /\ Waiters(Dequeue(g, R)) = Waiters(h)
      BY <1>0, <2>2, <2>5, DequeueFacts
    <3> QED BY <2>4, <3>1 DEF OrderOf
  <2>13. QueueOf(h, p, w) BY <1>0, <2>4 DEF QueueOf
  <2> QED BY <1>0, <2>1, <2>4, <2>10, <2>11, <2>12, <2>13 DEF Consistent, TypesOf
<1> QED BY <1>0, <1>1, <1>2, <1>3 DEF Gates

\* Coming in at once, or joining the queue.
LEMMA AcquireConsistent ==
    ASSUME Consistent(gate, pc, write), NEW c \in Clients, NEW m \in BOOLEAN, Acquire(c, m)
    PROVE  Consistent(gate', pc', write')
<1>0. TypesOf(gate, pc, write) /\ QueueOf(gate, pc, write) /\ OrderOf(gate)
      /\ CountOf(gate, pc, write) /\ AloneOf(gate, pc, write) /\ gate \in Gates
  BY DEF Consistent, TypesOf
<1>1. pc[c] = "idle" /\ c \notin InsideOf(gate, pc) /\ c \notin Waiters(gate)
  BY <1>0 DEF Acquire, InsideOf, QueueOf, Waiters
<1>2. write' \in [Clients -> BOOLEAN] /\ write'[c] = m /\ \A d \in Clients \ {c} : write'[d] = write[d]
  BY <1>0 DEF Acquire, TypesOf
<1>3. CASE canAcquireImmediately(gate, m)
  <2>1. gate' = markAcquired(gate, m) /\ pc' = [pc EXCEPT ![c] = "holding"]
    BY <1>3 DEF Acquire, At
  <2>2. pc' \in [Clients -> {"idle", "waiting", "holding", "leaving"}]
        /\ pc'[c] = "holding" /\ \A d \in Clients \ {c} : pc'[d] = pc[d]
    BY <1>0, <2>1 DEF TypesOf
  <2>3. Waiters(gate) = {} /\ ~gate.writer /\ (m => gate.readers = 0)
    BY <1>3 DEF canAcquireImmediately
  <2>4. gate' \in Gates /\ gate'.waitRead = {} /\ gate'.waitWrite = {} /\ Waiters(gate') = {}
        /\ gate'.readers = (IF m THEN gate.readers ELSE gate.readers + 1)
        /\ gate'.writer = (IF m THEN TRUE ELSE gate.writer)
    <3>1. gate.waitRead = {} /\ gate.waitWrite = {} BY <2>3 DEF Waiters
    <3>2. CASE m
      <4>1. gate' = [gate EXCEPT !.writer = TRUE] BY <2>1, <3>2 DEF markAcquired
      <4> QED BY <1>0, <3>1, <3>2, <4>1 DEF Gates, Waiters
    <3>3. CASE ~m
      <4>1. gate' = [gate EXCEPT !.readers = gate.readers + 1] BY <2>1, <3>3 DEF markAcquired
      <4> QED BY <1>0, <3>1, <3>3, <4>1 DEF Gates, Waiters
    <3> QED BY <3>2, <3>3
  <2>5. InsideOf(gate', pc') = InsideOf(gate, pc) \cup {c}
    BY <2>2, <2>3, <2>4 DEF InsideOf
  <2>6. \A d \in InsideOf(gate, pc) : ~write[d] BY <1>0, <2>3 DEF CountOf
  <2>7. InsideOf(gate, pc) \subseteq Clients \ {c} BY <1>1 DEF InsideOf
  <2>8. CountOf(gate', pc', write') /\ AloneOf(gate', pc', write')
    <3>1. CASE m
      <4>1. InsideOf(gate, pc) = {} BY <2>3, <3>1, FreeIsEmpty
      <4>2. InsideOf(gate', pc') = {c} BY <2>5, <4>1
      <4>3. ReadersOf(gate', pc', write') = {} BY <1>2, <3>1, <4>2 DEF ReadersOf
      <4> QED BY <1>2, <2>3, <2>4, <3>1, <4>2, <4>3, FS_EmptySet DEF CountOf, AloneOf
    <3>2. CASE ~m
      <4>1. ReadersOf(gate', pc', write') = ReadersOf(gate, pc, write) \cup {c}
        BY <1>2, <2>5, <2>7, <3>2 DEF ReadersOf
      <4>2. c \notin ReadersOf(gate, pc, write) BY <1>1 DEF ReadersOf
      <4>3. Cardinality(ReadersOf(gate', pc', write')) = Cardinality(ReadersOf(gate, pc, write)) + 1
        BY <4>1, <4>2, InsideFinite, FS_AddElement
      <4>4. gate'.readers = Cardinality(ReadersOf(gate', pc', write'))
        BY <1>0, <2>4, <3>2, <4>3 DEF CountOf
      <4>5. \A d \in InsideOf(gate', pc') : ~write'[d] BY <1>2, <2>5, <2>6, <2>7, <3>2
      <4>6. gate'.writer = FALSE BY <1>0, <2>3, <2>4, <3>2 DEF Gates
      <4> QED BY <4>4, <4>5, <4>6 DEF CountOf, AloneOf
    <3> QED BY <3>1, <3>2
  <2>9. QueueOf(gate', pc', write') /\ OrderOf(gate') BY <2>4 DEF QueueOf, OrderOf
  <2> QED BY <1>2, <2>2, <2>4, <2>8, <2>9 DEF Consistent, TypesOf
<1>4. CASE ~canAcquireImmediately(gate, m)
  <2>1. gate' = Enqueue(gate, c, m) /\ pc' = [pc EXCEPT ![c] = "waiting"]
    BY <1>4 DEF Acquire, At
  <2>2. pc' \in [Clients -> {"idle", "waiting", "holding", "leaving"}]
        /\ pc'[c] = "waiting" /\ \A d \in Clients \ {c} : pc'[d] = pc[d]
    BY <1>0, <2>1 DEF TypesOf
  <2>3. Waiters(gate) \subseteq Clients BY <1>0 DEF Waiters, Gates
  <2>4. gate' \in Gates /\ gate'.readers = gate.readers /\ gate'.writer = gate.writer
        /\ gate'.waitRead = (IF m THEN gate.waitRead ELSE gate.waitRead \cup {c})
        /\ gate'.waitWrite = (IF m THEN gate.waitWrite \cup {c} ELSE gate.waitWrite)
        /\ gate'.ahead = gate.ahead \cup (Waiters(gate) \X {c})
    BY <1>0, <2>1, <2>3 DEF Enqueue, Gates
  <2>5. Waiters(gate') = Waiters(gate) \cup {c} BY <2>4 DEF Waiters
  <2>6. InsideOf(gate', pc') = InsideOf(gate, pc) BY <1>1, <2>2, <2>5 DEF InsideOf
  <2>7. InsideOf(gate, pc) \subseteq Clients \ {c} BY <1>1 DEF InsideOf
  <2>8. ReadersOf(gate', pc', write') = ReadersOf(gate, pc, write)
    BY <1>2, <2>6, <2>7 DEF ReadersOf
  <2>9. CountOf(gate', pc', write') /\ AloneOf(gate', pc', write')
    BY <1>0, <1>2, <2>4, <2>6, <2>7, <2>8 DEF CountOf, AloneOf
  <2>10. QueueOf(gate', pc', write')
    BY <1>0, <1>1, <1>2, <2>2, <2>3, <2>4 DEF QueueOf, Waiters
  <2>11. OrderOf(gate') BY <1>0, <2>4, <2>5 DEF OrderOf
  <2> QED BY <1>2, <2>2, <2>4, <2>9, <2>10, <2>11 DEF Consistent, TypesOf
<1> QED BY <1>3, <1>4

\* Giving a slot back, whether it was used or not.
LEMMA ReleaseConsistent ==
    ASSUME Consistent(gate, pc, write), NEW c \in Clients, Release(c)
    PROVE  Consistent(gate', pc', write')
<1> DEFINE g == IF write[c] THEN [gate EXCEPT !.writer = FALSE] ELSE [gate EXCEPT !.readers = @ - 1]
           p == [pc EXCEPT ![c] = "idle"]
<1>0. TypesOf(gate, pc, write) /\ QueueOf(gate, pc, write) /\ OrderOf(gate)
      /\ CountOf(gate, pc, write) /\ AloneOf(gate, pc, write) /\ gate \in Gates
  BY DEF Consistent, TypesOf
<1>1. gate' = grantLocked(g) /\ pc' = p /\ write' = write BY DEF Release, release, At
<1>2. c \in InsideOf(gate, pc) BY <1>0 DEF Release, InsideOf, QueueOf, Waiters
<1>3. p \in [Clients -> {"idle", "waiting", "holding", "leaving"}]
      /\ p[c] = "idle" /\ \A d \in Clients \ {c} : p[d] = pc[d]
  BY <1>0 DEF TypesOf
<1>4. g.waitRead = gate.waitRead /\ g.waitWrite = gate.waitWrite /\ g.ahead = gate.ahead
      /\ g.readers = (IF write[c] THEN gate.readers ELSE gate.readers - 1)
      /\ g.writer = (IF write[c] THEN FALSE ELSE gate.writer)
  BY <1>0 DEF Gates
<1>5. Waiters(g) = Waiters(gate) BY <1>4 DEF Waiters
<1>6. InsideOf(g, p) = InsideOf(gate, pc) \ {c} BY <1>3, <1>5 DEF InsideOf
<1>7. CountOf(g, p, write) /\ g.readers \in Nat
  <2>1. CASE write[c]
    <3>1. InsideOf(gate, pc) = {c} BY <1>0, <1>2, <2>1 DEF AloneOf
    <3>2. ReadersOf(gate, pc, write) = {} /\ ReadersOf(g, p, write) = {}
      BY <1>6, <2>1, <3>1 DEF ReadersOf
    <3>3. InsideOf(g, p) = {} BY <1>6, <3>1
    <3>4. gate.readers = 0 BY <1>0, <3>2, FS_EmptySet DEF CountOf
    <3>5. g.readers = 0 /\ g.writer = FALSE BY <1>4, <2>1, <3>4
    <3>6. g.readers = Cardinality(ReadersOf(g, p, write)) BY <3>2, <3>5, FS_EmptySet
    <3>7. g.writer = \E d \in InsideOf(g, p) : write[d] BY <3>3, <3>5
    <3>8. CountOf(g, p, write) BY <3>6, <3>7 DEF CountOf
    <3>9. g.readers \in Nat BY <3>5
    <3> QED BY <3>8, <3>9
  <2>2. CASE ~write[c]
    <3>1. ReadersOf(g, p, write) = ReadersOf(gate, pc, write) \ {c} BY <1>6 DEF ReadersOf
    <3>2. c \in ReadersOf(gate, pc, write) BY <1>2, <2>2 DEF ReadersOf
    <3>3. Cardinality(ReadersOf(g, p, write)) = Cardinality(ReadersOf(gate, pc, write)) - 1
      BY <3>1, <3>2, InsideFinite, FS_RemoveElement
    <3>4. g.readers = Cardinality(ReadersOf(g, p, write)) BY <1>0, <1>4, <2>2, <3>3 DEF CountOf
    <3>5. g.writer = \E d \in InsideOf(g, p) : write[d] BY <1>0, <1>4, <1>6, <2>2 DEF CountOf
    <3> QED BY <3>4, <3>5, InsideFinite DEF CountOf
  <2> QED BY <2>1, <2>2
<1>8. g \in Gates
  <2>1. CASE write[c] BY <1>0, <2>1 DEF Gates
  <2>2. CASE ~write[c]
    <3>1. gate.readers - 1 \in Nat BY <1>4, <1>7, <2>2
    <3>2. g = [gate EXCEPT !.readers = gate.readers - 1] BY <2>2
    <3> QED BY <1>0, <3>1, <3>2 DEF Gates
  <2> QED BY <2>1, <2>2
<1>9. AloneOf(g, p, write) BY <1>0, <1>6 DEF AloneOf
<1>10. OrderOf(g) BY <1>0, <1>4, <1>5 DEF OrderOf
<1>11. QueueOf(g, p, write)
  BY <1>0, <1>2, <1>3, <1>4 DEF QueueOf, InsideOf, Waiters, Gates
<1>12. Consistent(g, p, write)
  BY <1>0, <1>3, <1>7, <1>8, <1>9, <1>10, <1>11 DEF Consistent, TypesOf
<1> QED BY <1>1, <1>12, GrantConsistent

\* Leaving the queue before the grant.
LEMMA CancelConsistent ==
    ASSUME Consistent(gate, pc, write), NEW c \in Clients, Cancel(c)
    PROVE  Consistent(gate', pc', write')
<1> DEFINE g == Dequeue(gate, {c})
           p == [pc EXCEPT ![c] = "idle"]
<1>0. TypesOf(gate, pc, write) /\ QueueOf(gate, pc, write) /\ OrderOf(gate)
      /\ CountOf(gate, pc, write) /\ AloneOf(gate, pc, write) /\ gate \in Gates
  BY DEF Consistent, TypesOf
<1>1. gate' = grantLocked(g) /\ pc' = p /\ write' = write /\ c \in Waiters(gate)
  BY DEF Cancel, Withdraw, At
<1>2. p \in [Clients -> {"idle", "waiting", "holding", "leaving"}]
      /\ p[c] = "idle" /\ \A d \in Clients \ {c} : p[d] = pc[d]
  BY <1>0 DEF TypesOf
<1>3. g \in Gates /\ g.readers = gate.readers /\ g.writer = gate.writer
      /\ g.waitRead = gate.waitRead \ {c} /\ g.waitWrite = gate.waitWrite \ {c}
      /\ Waiters(g) = Waiters(gate) \ {c} /\ OrderOf(g)
  BY <1>0, DequeueFacts
<1>4. InsideOf(g, p) = InsideOf(gate, pc) BY <1>1, <1>2, <1>3 DEF InsideOf
<1>5. CountOf(g, p, write) /\ AloneOf(g, p, write)
  BY <1>0, <1>3, <1>4 DEF CountOf, AloneOf, ReadersOf
<1>6. QueueOf(g, p, write) BY <1>0, <1>2, <1>3 DEF QueueOf, Gates
<1>7. Consistent(g, p, write) BY <1>0, <1>2, <1>3, <1>5, <1>6 DEF Consistent, TypesOf
<1> QED BY <1>1, <1>7, GrantConsistent

\* Noticing the grant, with or without a cancellation.
LEMMA NoticeConsistent ==
    ASSUME Consistent(gate, pc, write), NEW c \in Clients, Granted(c) \/ CancelTooLate(c)
    PROVE  Consistent(gate', pc', write')
<1>0. TypesOf(gate, pc, write) /\ QueueOf(gate, pc, write) /\ OrderOf(gate)
      /\ CountOf(gate, pc, write) /\ AloneOf(gate, pc, write) /\ gate \in Gates
  BY DEF Consistent, TypesOf
<1>1. gate' = gate /\ write' = write /\ c \notin Waiters(gate) /\ pc[c] = "waiting"
  BY DEF Granted, CancelTooLate
<1>2. pc' \in [Clients -> {"idle", "waiting", "holding", "leaving"}]
      /\ pc'[c] # "idle" /\ \A d \in Clients \ {c} : pc'[d] = pc[d]
  BY <1>0 DEF Granted, CancelTooLate, At, TypesOf
<1>3. InsideOf(gate', pc') = InsideOf(gate, pc) BY <1>1, <1>2 DEF InsideOf
<1>4. CountOf(gate', pc', write') /\ AloneOf(gate', pc', write') /\ OrderOf(gate')
  BY <1>0, <1>1, <1>3 DEF CountOf, AloneOf, ReadersOf
<1>5. QueueOf(gate', pc', write') BY <1>0, <1>1, <1>2 DEF QueueOf, Waiters, Gates
<1> QED BY <1>0, <1>1, <1>2, <1>4, <1>5 DEF Consistent, TypesOf

\* Initially nobody is there.
LEMMA InitConsistent == Init => Consistent(gate, pc, write)
<1> SUFFICES ASSUME Init PROVE Consistent(gate, pc, write) OBVIOUS
<1>1. gate \in Gates /\ gate.waitRead = {} /\ gate.waitWrite = {} /\ gate.readers = 0
      /\ gate.writer = FALSE /\ Waiters(gate) = {}
  BY DEF Init, NewGate, Gates, Waiters
<1>2. InsideOf(gate, pc) = {} /\ ReadersOf(gate, pc, write) = {}
  BY DEF Init, InsideOf, ReadersOf
<1>3. CountOf(gate, pc, write) BY <1>1, <1>2, FS_EmptySet DEF CountOf
<1> QED BY <1>1, <1>2, <1>3 DEF Consistent, TypesOf, QueueOf, OrderOf, AloneOf, Init

\* Every step preserves consistency.
LEMMA NextConsistent ==
    Consistent(gate, pc, write) /\ [Next]_vars => Consistent(gate, pc, write)'
<1> SUFFICES ASSUME Consistent(gate, pc, write), [Next]_vars
             PROVE  Consistent(gate', pc', write')
  BY DEF Consistent, TypesOf, QueueOf, OrderOf, CountOf, AloneOf, InsideOf, ReadersOf, Waiters
<1>1. CASE UNCHANGED vars BY <1>1 DEF vars
<1>2. CASE Next
  BY <1>2, AcquireConsistent, ReleaseConsistent, CancelConsistent, NoticeConsistent DEF Next
<1> QED BY <1>1, <1>2

\* The type of the gate and of its clients.
THEOREM GateTypes == Spec => []TypeOK
<1>1. Consistent(gate, pc, write) => TypeOK BY DEF Consistent, TypesOf, TypeOK
<1> QED BY <1>1, InitConsistent, NextConsistent, PTL DEF Spec

\* A writer is alone inside, for any number of clients and whatever they cancel.
THEOREM GateExclusion == Spec => []Exclusion
<1>1. Consistent(gate, pc, write) => Exclusion
  BY DEF Consistent, AloneOf, InsideOf, Exclusion, Inside
<1> QED BY <1>1, InitConsistent, NextConsistent, PTL DEF Spec

\* No slot is ever leaked or given back twice.
THEOREM GateCounts == Spec => []CountsExact
<1>1. Consistent(gate, pc, write) => CountsExact
  BY DEF Consistent, CountOf, ReadersOf, InsideOf, CountsExact, Inside
<1> QED BY <1>1, InitConsistent, NextConsistent, PTL DEF Spec

\* What grantLocked does to the queue: it only takes out clients that no
\* remaining writer stands ahead of.
LEMMA GrantOrder ==
    ASSUME NEW g \in Gates
    PROVE  /\ grantLocked(g).waitRead \subseteq g.waitRead
           /\ grantLocked(g).waitWrite \subseteq g.waitWrite
           /\ \A c \in Waiters(g) \ Waiters(grantLocked(g)) :
                 AheadOf(g, c) \cap grantLocked(g).waitWrite = {}
<1> DEFINE h == grantLocked(g)
<1>1. CASE g.writer \/ g.readers # 0 BY <1>1 DEF grantLocked
<1>2. ASSUME NEW served \in SUBSET Clients,
             h.waitRead = g.waitRead \ served, h.waitWrite = g.waitWrite \ served,
             \A c \in served : AheadOf(g, c) \cap g.waitWrite = {}
      PROVE  /\ h.waitRead \subseteq g.waitRead /\ h.waitWrite \subseteq g.waitWrite
             /\ \A c \in Waiters(g) \ Waiters(h) : AheadOf(g, c) \cap h.waitWrite = {}
  BY <1>2 DEF Waiters
<1>3. CASE ~(g.writer \/ g.readers # 0) /\ FrontWriter(g) # {}
  <2>1. h = [Dequeue(g, FrontWriter(g)) EXCEPT !.writer = TRUE] BY <1>3 DEF grantLocked
  <2>2. FrontWriter(g) \in SUBSET Clients BY DEF FrontWriter, Gates
  <2>3. h.waitRead = g.waitRead \ FrontWriter(g) /\ h.waitWrite = g.waitWrite \ FrontWriter(g)
    BY <2>1 DEF Dequeue, Gates
  <2>4. \A c \in FrontWriter(g) : AheadOf(g, c) \cap g.waitWrite = {} BY DEF FrontWriter
  <2> QED BY <1>2, <2>2, <2>3, <2>4
<1>4. CASE ~(g.writer \/ g.readers # 0) /\ FrontWriter(g) = {}
  <2>1. h = [Dequeue(g, FrontReaders(g)) EXCEPT !.readers = Cardinality(FrontReaders(g))]
    BY <1>4 DEF grantLocked
  <2>2. FrontReaders(g) \in SUBSET Clients BY DEF FrontReaders, Gates
  <2>3. h.waitRead = g.waitRead \ FrontReaders(g) /\ h.waitWrite = g.waitWrite \ FrontReaders(g)
    BY <2>1 DEF Dequeue, Gates
  <2>4. \A c \in FrontReaders(g) : AheadOf(g, c) \cap g.waitWrite = {} BY DEF FrontReaders
  <2> QED BY <1>2, <2>2, <2>3, <2>4
<1> QED BY <1>1, <1>3, <1>4

\* How a departure moves the queue: nobody joins, and nobody is let in past a
\* writer that keeps waiting.
LEMMA DepartureOrder ==
    ASSUME Consistent(gate, pc, write), NEW c \in Clients, Release(c) \/ Cancel(c)
    PROVE  /\ gate'.waitRead \subseteq gate.waitRead /\ gate'.waitWrite \subseteq gate.waitWrite
           /\ c \notin Waiters(gate')
           /\ \A d \in Waiters(gate) \ Waiters(gate') :
                 d # c => AheadOf(gate, d) \cap gate'.waitWrite = {}
<1>0. gate \in Gates /\ QueueOf(gate, pc, write) BY DEF Consistent, TypesOf
<1>1. CASE Release(c)
  <2> DEFINE g == IF write[c] THEN [gate EXCEPT !.writer = FALSE] ELSE [gate EXCEPT !.readers = @ - 1]
  <2>1. gate' = grantLocked(g) BY <1>1 DEF Release, release
  <2>2. g.waitRead = gate.waitRead /\ g.waitWrite = gate.waitWrite /\ g.ahead = gate.ahead
    BY <1>0 DEF Gates
  <2>3. Waiters(g) = Waiters(gate) /\ \A d \in Clients : AheadOf(g, d) = AheadOf(gate, d)
    BY <2>2 DEF Waiters, AheadOf
  <2>4. g \in Gates
    <3>1. CASE write[c] BY <1>0, <3>1 DEF Gates
    <3>2. CASE ~write[c]
      <4>1. c \in ReadersOf(gate, pc, write)
        BY <1>0, <1>1, <3>2 DEF Release, ReadersOf, InsideOf, QueueOf, Waiters
      <4>2. Cardinality(ReadersOf(gate, pc, write) \ {c}) = Cardinality(ReadersOf(gate, pc, write)) - 1
            /\ IsFiniteSet(ReadersOf(gate, pc, write) \ {c})
        BY <4>1, InsideFinite, FS_RemoveElement
      <4>3. gate.readers - 1 \in Nat BY <4>2, FS_CardinalityType DEF Consistent, CountOf
      <4>4. g = [gate EXCEPT !.readers = gate.readers - 1] BY <3>2
      <4> QED BY <1>0, <4>3, <4>4 DEF Gates
    <3> QED BY <3>1, <3>2
  <2>5. gate'.waitRead \subseteq gate.waitRead /\ gate'.waitWrite \subseteq gate.waitWrite
    BY <2>1, <2>2, <2>4, GrantOrder
  <2>6. c \notin Waiters(gate') BY <1>0, <1>1, <2>5 DEF Release, QueueOf, Waiters
  <2>7. Waiters(gate) \subseteq Clients BY <1>0 DEF Waiters, Gates
  <2>8. ASSUME NEW d \in Waiters(gate) \ Waiters(gate')
        PROVE  AheadOf(gate, d) \cap gate'.waitWrite = {}
    <3>1. \A x \in Waiters(g) \ Waiters(grantLocked(g)) :
             AheadOf(g, x) \cap grantLocked(g).waitWrite = {}
      BY <2>4, GrantOrder
    <3>2. d \in Waiters(g) \ Waiters(grantLocked(g)) BY <2>1, <2>3
    <3>3. AheadOf(g, d) = AheadOf(gate, d) BY <2>3, <2>7
    <3> QED BY <2>1, <3>1, <3>2, <3>3
  <2> QED BY <2>5, <2>6, <2>8
<1>2. CASE Cancel(c)
  <2> DEFINE g == Dequeue(gate, {c})
  <2>1. gate' = grantLocked(g) BY <1>2 DEF Cancel, Withdraw
  <2>2. /\ g \in Gates
        /\ g.waitRead = gate.waitRead \ {c} /\ g.waitWrite = gate.waitWrite \ {c}
        /\ Waiters(g) = Waiters(gate) \ {c}
    BY <1>0, DequeueFacts
  <2>3. g.ahead = {p \in gate.ahead : p[1] \notin {c} /\ p[2] \notin {c}}
    BY <1>0 DEF Dequeue, Gates
  <2>4. \A d \in Waiters(gate) \ {c} : AheadOf(gate, d) \subseteq AheadOf(g, d) \cup {c}
    BY <2>2, <2>3 DEF AheadOf
  <2>5. gate'.waitRead \subseteq gate.waitRead \ {c} /\ gate'.waitWrite \subseteq gate.waitWrite \ {c}
    BY <2>1, <2>2, GrantOrder
  <2>6. \A d \in Waiters(g) \ Waiters(gate') : AheadOf(g, d) \cap gate'.waitWrite = {}
    BY <2>1, <2>2, GrantOrder
  <2>7. \A d \in Waiters(gate) \ Waiters(gate') : d # c => AheadOf(gate, d) \cap gate'.waitWrite = {}
    BY <2>2, <2>4, <2>5, <2>6
  <2> QED BY <2>5, <2>7 DEF Waiters
<1> QED BY <1>1, <1>2

\* First come, first served against writers, for any number of clients.
THEOREM GateOrder == Spec => NoOvertaking
<1> DEFINE A == \A c \in Inside' \ Inside : Passed(c) \cap gate'.waitWrite = {}
<1>1. ASSUME Consistent(gate, pc, write), [Next]_vars PROVE [A]_vars
  <2> SUFFICES ASSUME Next, NEW x \in Inside' \ Inside PROVE Passed(x) \cap gate'.waitWrite = {}
    BY <1>1
  <2>0. gate \in Gates /\ pc \in [Clients -> {"idle", "waiting", "holding", "leaving"}]
    BY <1>1 DEF Consistent, TypesOf
  <2>1. PICK c \in Clients :
           \/ \E w \in BOOLEAN : Acquire(c, w)
           \/ Granted(c) \/ CancelTooLate(c)
           \/ Release(c) \/ Cancel(c)
    BY DEF Next
  <2>2. x \in Clients /\ pc'[x] # "idle" /\ x \notin Waiters(gate')
        /\ (pc[x] = "idle" \/ x \in Waiters(gate))
    BY DEF Inside
  <2>3. ASSUME NEW w \in BOOLEAN, Acquire(c, w) PROVE Passed(x) \cap gate'.waitWrite = {}
    <3>1. CASE canAcquireImmediately(gate, w)
      <4>1. gate'.waitWrite = gate.waitWrite /\ Waiters(gate) = {}
        BY <2>0, <2>3, <3>1 DEF Acquire, markAcquired, Gates, canAcquireImmediately
      <4> QED BY <4>1 DEF Waiters
    <3>2. CASE ~canAcquireImmediately(gate, w)
      <4>1. gate' = Enqueue(gate, c, w) /\ pc' = [pc EXCEPT ![c] = "waiting"]
        BY <2>3, <3>2 DEF Acquire, At
      <4>2. Waiters(gate) \cup {c} \subseteq Waiters(gate')
        BY <2>0, <4>1 DEF Enqueue, Waiters, Gates
      <4> QED BY <2>0, <2>2, <4>1, <4>2
    <3> QED BY <3>1, <3>2
  <2>4. CASE Granted(c) \/ CancelTooLate(c)
    BY <2>0, <2>2, <2>4 DEF Granted, CancelTooLate, At
  <2>5. CASE Release(c) \/ Cancel(c)
    <3>1. pc' = [pc EXCEPT ![c] = "idle"] BY <2>5 DEF Release, Cancel, At
    <3>2. x # c /\ x \in Waiters(gate) BY <2>0, <2>2, <3>1
    <3>3. AheadOf(gate, x) \cap gate'.waitWrite = {} BY <1>1, <2>2, <2>5, <3>2, DepartureOrder
    <3> QED BY <3>2, <3>3 DEF Passed
  <2> QED BY <2>1, <2>3, <2>4, <2>5
<1> QED BY <1>1, InitConsistent, NextConsistent, PTL DEF Spec, NoOvertaking

\* Where the refinement mapping puts a client.
LEMMA PlaceFacts ==
    ASSUME Consistent(gate, pc, write), NEW c \in Clients
    PROVE  /\ place[c] \in Lock!Places
           /\ place[c] = "out" <=> pc[c] = "idle"
           /\ place[c] = "waitRead" <=> c \in gate.waitRead
           /\ place[c] = "waitWrite" <=> c \in gate.waitWrite
           /\ place[c] = "writing" <=> (c \in InsideOf(gate, pc) /\ write[c])
           /\ place[c] \in Lock!Inside <=> c \in InsideOf(gate, pc)
<1>1. QueueOf(gate, pc, write) BY DEF Consistent
<1> QED BY <1>1 DEF place, QueueOf, InsideOf, Waiters, Lock!Places, Lock!Inside

\* A consistent gate maps to an exclusive lock.
LEMMA PlaceExclusive == Consistent(gate, pc, write) => Lock!Exclusive(place)
<1> SUFFICES ASSUME Consistent(gate, pc, write), NEW c \in Clients, NEW d \in Clients,
                    place[c] = "writing", place[d] \in Lock!Inside
             PROVE  c = d
  BY DEF Lock!Exclusive
<1>1. c \in InsideOf(gate, pc) /\ write[c] /\ d \in InsideOf(gate, pc) BY PlaceFacts
<1> QED BY <1>1 DEF Consistent, AloneOf

\* Coming.
LEMMA AcquireComes ==
    ASSUME Consistent(gate, pc, write), NEW c \in Clients, NEW m \in BOOLEAN, Acquire(c, m)
    PROVE  Lock!Come(c)
<1>0. gate \in Gates /\ pc \in [Clients -> {"idle", "waiting", "holding", "leaving"}]
      /\ write \in [Clients -> BOOLEAN] /\ QueueOf(gate, pc, write)
  BY DEF Consistent, TypesOf
<1>1. pc[c] = "idle" /\ c \notin gate.waitRead /\ c \notin gate.waitWrite
  BY <1>0 DEF Acquire, QueueOf
<1>2. place[c] = "out" BY <1>1 DEF place
<1>3. write'[c] = m /\ pc'[c] \in {"holding", "waiting"}
      /\ \A d \in Clients \ {c} : write'[d] = write[d] /\ pc'[d] = pc[d]
  BY <1>0 DEF Acquire, At
<1>4. \/ gate'.waitRead = gate.waitRead /\ gate'.waitWrite = gate.waitWrite
      \/ /\ gate'.waitRead = (IF m THEN gate.waitRead ELSE gate.waitRead \cup {c})
         /\ gate'.waitWrite = (IF m THEN gate.waitWrite \cup {c} ELSE gate.waitWrite)
  <2>1. CASE gate' = markAcquired(gate, m) BY <1>0, <2>1 DEF markAcquired, Gates
  <2>2. CASE gate' = Enqueue(gate, c, m) BY <1>0, <2>2 DEF Enqueue, Gates
  <2> QED BY <2>1, <2>2 DEF Acquire
<1>5. place'[c] \in Lock!Inside \cup Lock!Waiting
  BY <1>3 DEF place, Lock!Inside, Lock!Waiting
<1>6. place' = [place EXCEPT ![c] = place'[c]]
  <2>1. \A d \in Clients \ {c} : place'[d] = place[d] BY <1>3, <1>4 DEF place
  <2> QED BY <2>1 DEF place
<1> QED BY <1>2, <1>5, <1>6 DEF Lock!Come

\* Going, with whoever is let in at the same time.
LEMMA DepartureGoes ==
    ASSUME Consistent(gate, pc, write), NEW c \in Clients, Release(c) \/ Cancel(c)
    PROVE  Lock!Go(c)
<1> DEFINE admitted == (Waiters(gate) \ Waiters(gate')) \ {c}
<1>0. gate \in Gates /\ pc \in [Clients -> {"idle", "waiting", "holding", "leaving"}]
      /\ QueueOf(gate, pc, write)
  BY DEF Consistent, TypesOf
<1>1. pc[c] # "idle" /\ pc' = [pc EXCEPT ![c] = "idle"] /\ write' = write
  BY DEF Release, Cancel, At
<1>2. gate'.waitRead \subseteq gate.waitRead /\ gate'.waitWrite \subseteq gate.waitWrite
  BY DepartureOrder
<1>3. pc'[c] = "idle" /\ \A d \in Clients \ {c} : pc'[d] = pc[d] BY <1>0, <1>1
<1>4. place[c] # "out" BY <1>1, PlaceFacts
<1>5. admitted \in SUBSET {d \in Clients \ {c} : place[d] \in Lock!Waiting}
  <2> SUFFICES ASSUME NEW d \in admitted PROVE d \in Clients \ {c} /\ place[d] \in Lock!Waiting
    OBVIOUS
  <2>1. d \in Clients \ {c} /\ (d \in gate.waitRead \/ d \in gate.waitWrite)
    BY <1>0 DEF Waiters, Gates
  <2> QED BY <2>1, PlaceFacts DEF Lock!Waiting
<1>6. ASSUME NEW d \in Clients
      PROVE  place'[d] = IF d = c THEN "out"
                         ELSE IF d \in admitted THEN Lock!LetIn(place[d]) ELSE place[d]
  <2>1. CASE d = c BY <1>3, <2>1 DEF place
  <2>2. CASE d # c /\ d \in admitted
    <3>1. d \notin gate'.waitRead /\ d \notin gate'.waitWrite /\ d \in Waiters(gate)
      BY <2>2 DEF Waiters
    <3>2. pc'[d] # "idle" BY <1>0, <1>3, <2>2, <3>1 DEF QueueOf, Waiters
    <3>3. CASE d \in gate.waitRead
      <4>1. place[d] = "waitRead" BY <3>3, PlaceFacts
      <4>2. ~write[d] BY <1>0, <3>3 DEF QueueOf
      <4>3. place'[d] = "reading" BY <1>1, <3>1, <3>2, <4>2 DEF place
      <4> QED BY <2>2, <4>1, <4>3 DEF Lock!LetIn
    <3>4. CASE d \in gate.waitWrite
      <4>1. place[d] = "waitWrite" BY <3>4, PlaceFacts
      <4>2. write[d] BY <1>0, <3>4 DEF QueueOf
      <4>3. place'[d] = "writing" BY <1>1, <3>1, <3>2, <4>2 DEF place
      <4> QED BY <2>2, <4>1, <4>3 DEF Lock!LetIn
    <3> QED BY <3>1, <3>3, <3>4 DEF Waiters
  <2>3. CASE d # c /\ d \notin admitted
    <3>1. (d \in Waiters(gate')) <=> (d \in Waiters(gate)) BY <1>2, <2>3 DEF Waiters
    <3>2. ~(d \in gate.waitRead /\ d \in gate.waitWrite) BY <1>0 DEF QueueOf
    <3>3. (d \in gate'.waitRead <=> d \in gate.waitRead) /\ (d \in gate'.waitWrite <=> d \in gate.waitWrite)
      BY <1>2, <3>1, <3>2 DEF Waiters
    <3>4. place'[d] = place[d] BY <1>1, <1>3, <2>3, <3>3 DEF place
    <3> QED BY <2>3, <3>4
  <2> QED BY <2>1, <2>2, <2>3
<1>7. place' = [d \in Clients |-> IF d = c THEN "out"
                                  ELSE IF d \in admitted THEN Lock!LetIn(place[d]) ELSE place[d]]
  BY <1>6 DEF place
<1> QED BY <1>4, <1>5, <1>7 DEF Lock!Go

\* The gate implements the read/write lock, for any finite set of clients.
THEOREM GateImplementsLock == Spec => ImplementsLock
<1>1. Init => Lock!Init BY DEF Init, Lock!Init, place
<1>2. Consistent(gate, pc, write)' => Lock!Exclusive(place)' BY PlaceExclusive, PTL
<1>3. ASSUME Consistent(gate, pc, write), Consistent(gate, pc, write)', [Next]_vars
      PROVE  [Lock!Next]_place
  <2>0. pc \in [Clients -> {"idle", "waiting", "holding", "leaving"}]
    BY <1>3 DEF Consistent, TypesOf
  <2>1. CASE UNCHANGED vars BY <2>1 DEF vars, place
  <2>2. ASSUME NEW c \in Clients, Granted(c) \/ CancelTooLate(c) PROVE place' = place
    <3>1. gate' = gate /\ write' = write /\ pc[c] # "idle" /\ pc'[c] # "idle"
          /\ \A d \in Clients \ {c} : pc'[d] = pc[d]
      BY <2>0, <2>2 DEF Granted, CancelTooLate, At
    <3> QED BY <3>1 DEF place
  <2>3. ASSUME NEW c \in Clients, Lock!Come(c) \/ Lock!Go(c) PROVE Lock!Next
    BY <1>2, <1>3, <2>3 DEF Lock!Next
  <2>4. CASE Next
    BY <1>3, <2>2, <2>3, <2>4, AcquireComes, DepartureGoes DEF Next
  <2> QED BY <1>3, <2>1, <2>4
<1>4. Init /\ [][Next]_vars /\ []Consistent(gate, pc, write) => ImplementsLock
  BY <1>1, <1>3, PTL DEF ImplementsLock, Lock!Spec
<1> QED BY <1>4, InitConsistent, NextConsistent, PTL DEF Spec
=============================================================================
