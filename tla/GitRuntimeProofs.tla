-------------------------- MODULE GitRuntimeProofs --------------------------
(***************************************************************************)
(* Proofs about GitRuntime, for any number of handlers, sessions,          *)
(* worktrees and repositories, and any limits of the registry.             *)
(*                                                                         *)
(* Three invariants, each built on the one before:                         *)
(*                                                                         *)
(*   Core      every gate agrees with what the handlers want of it (who is *)
(*             queued, how many are inside, a writer is alone), and the    *)
(*             registry counts exactly the references that exist           *)
(*   World     types of the rest of the state                              *)
(*   FreshInv  epochs, snapshots and worktrees: what is stored with the    *)
(*             current epoch is what git says                              *)
(*                                                                         *)
(* The gates are needed for the references (a coordinator that is wanted   *)
(* is referenced, so that it is not evicted) and the references for the    *)
(* gates (only then does the gate of a repository stay the same one).      *)
(***************************************************************************)
EXTENDS GitRuntime, FiniteSetTheorems, TLAPS

----------------------------------------------------------------------------
(* Gates. *)

Gates == [readers : Nat, writer : BOOLEAN, waitRead : SUBSET Handlers,
          waitWrite : SUBSET Handlers, ahead : SUBSET (Handlers \X Handlers)]

\* what each handler wants of a gate
Modes == [Handlers -> {"out", "read", "write"}]

Inside(g, e) == {c \in Handlers : e[c] # "out" /\ c \notin Waiters(g)}
Reading(g, e) == {c \in Inside(g, e) : e[c] = "read"}

\* who is queued wants to come in, in the mode of its queue
QueueOK(g, e) ==
    /\ \A c \in g.waitRead : e[c] = "read"
    /\ \A c \in g.waitWrite : e[c] = "write"

\* of two waiters one stands ahead of the other
OrderOK(g) == \A c, d \in Waiters(g) : c # d => (<<c, d>> \in g.ahead \/ <<d, c>> \in g.ahead)

CountOK(g, e) ==
    /\ g.readers = Cardinality(Reading(g, e))
    /\ g.writer = \E c \in Inside(g, e) : e[c] = "write"

AloneOK(g, e) == \A c, d \in Inside(g, e) : e[c] = "write" => d = c

\* the gate g agrees with the modes e
GateOK(g, e) == g \in Gates /\ QueueOK(g, e) /\ OrderOK(g) /\ CountOK(g, e) /\ AloneOK(g, e)

\* What is inside is a finite set.
LEMMA InsideFinite ==
    ASSUME NEW g, NEW e
    PROVE  /\ IsFiniteSet(Inside(g, e)) /\ IsFiniteSet(Reading(g, e))
           /\ Cardinality(Reading(g, e)) \in Nat
<1>1. Inside(g, e) \subseteq Handlers /\ Reading(g, e) \subseteq Handlers
  BY DEF Inside, Reading
<1>2. IsFiniteSet(Inside(g, e)) /\ IsFiniteSet(Reading(g, e))
  BY <1>1, GitConstants, FS_Subset
<1> QED BY <1>2, FS_CardinalityType

\* A gate that nobody wants is new, and a new one fits nobody.
LEMMA NewGateOK ==
    ASSUME NEW e \in Modes, \A c \in Handlers : e[c] = "out"
    PROVE  GateOK(NewGate, e)
<1>1. NewGate \in Gates /\ Waiters(NewGate) = {} /\ NewGate.waitRead = {}
      /\ NewGate.waitWrite = {} /\ NewGate.readers = 0 /\ NewGate.writer = FALSE
  BY DEF NewGate, Gates, Waiters
<1>2. Inside(NewGate, e) = {} /\ Reading(NewGate, e) = {} BY DEF Inside, Reading
<1> QED BY <1>1, <1>2, FS_EmptySet DEF GateOK, QueueOK, OrderOK, CountOK, AloneOK

\* Where nobody wants in, whoever comes is let in.
LEMMA UnwantedGate ==
    ASSUME NEW g, NEW e \in Modes, GateOK(g, e), \A c \in Handlers : e[c] = "out",
           NEW write \in BOOLEAN
    PROVE  canAcquireImmediately(g, write)
<1>1. g.waitRead = {} /\ g.waitWrite = {} BY DEF GateOK, QueueOK, Gates
<1>2. Waiters(g) = {} BY <1>1 DEF Waiters
<1>3. Inside(g, e) = {} /\ Reading(g, e) = {} BY DEF Inside, Reading
<1>4. g.readers = 0 /\ g.writer = FALSE
  BY <1>3, FS_EmptySet DEF GateOK, CountOK
<1> QED BY <1>2, <1>4 DEF canAcquireImmediately

\* A free gate has nobody inside.
LEMMA FreeIsEmpty ==
    ASSUME NEW g, NEW e \in Modes, GateOK(g, e), ~g.writer, g.readers = 0
    PROVE  Inside(g, e) = {}
<1>1. Reading(g, e) = {}
  BY InsideFinite, FS_EmptySet DEF GateOK, CountOK
<1>2. \A c \in Inside(g, e) : e[c] # "write" BY DEF GateOK, CountOK
<1> QED BY <1>1, <1>2 DEF Reading, Inside, Modes

\* Taking waiters out of the queue leaves the rest in order.
LEMMA DequeueFacts ==
    ASSUME NEW g \in Gates, NEW served \in SUBSET Handlers
    PROVE  /\ Dequeue(g, served) \in Gates
           /\ Dequeue(g, served).readers = g.readers
           /\ Dequeue(g, served).writer = g.writer
           /\ Dequeue(g, served).waitRead = g.waitRead \ served
           /\ Dequeue(g, served).waitWrite = g.waitWrite \ served
           /\ Waiters(Dequeue(g, served)) = Waiters(g) \ served
           /\ OrderOK(g) => OrderOK(Dequeue(g, served))
<1> DEFINE h == Dequeue(g, served)
<1>1. h \in Gates /\ h.readers = g.readers /\ h.writer = g.writer
  BY DEF Dequeue, Gates
<1>2. h.waitRead = g.waitRead \ served /\ h.waitWrite = g.waitWrite \ served
      /\ h.ahead = {p \in g.ahead : p[1] \notin served /\ p[2] \notin served}
  BY DEF Dequeue, Gates
<1>3. Waiters(h) = Waiters(g) \ served BY <1>2 DEF Waiters
<1>4. OrderOK(g) => OrderOK(h) BY <1>2, <1>3 DEF OrderOK
<1> QED BY <1>1, <1>2, <1>3, <1>4

\* Handing a gate on keeps it in agreement with the same modes, and only
\* takes clients out of the queue.
LEMMA GrantOK ==
    ASSUME NEW g, NEW e \in Modes, GateOK(g, e)
    PROVE  GateOK(grantLocked(g), e) /\ Waiters(grantLocked(g)) \subseteq Waiters(g)
<1> DEFINE W == FrontWriter(g)
           R == FrontReaders(g)
<1>0. g \in Gates /\ QueueOK(g, e) /\ OrderOK(g) BY DEF GateOK
<1>1. CASE g.writer \/ g.readers # 0 BY <1>1 DEF grantLocked
<1>2. CASE ~g.writer /\ g.readers = 0 /\ W # {}
  <2> DEFINE h == [Dequeue(g, W) EXCEPT !.writer = TRUE]
  <2>1. grantLocked(g) = h BY <1>2 DEF grantLocked
  <2>2. W \subseteq Handlers /\ W \subseteq g.waitWrite BY <1>0 DEF FrontWriter, Gates
  <2>3. PICK x \in W : TRUE BY <1>2
  <2>4. W = {x}
    <3> SUFFICES ASSUME NEW y \in W, y # x PROVE FALSE BY <2>3
    <3>1. x \in Waiters(g) /\ y \in Waiters(g) BY <2>2, <2>3 DEF Waiters
    <3>2. AheadOf(g, x) = {} /\ AheadOf(g, y) = {} BY <2>3 DEF FrontWriter
    <3> QED BY <1>0, <3>1, <3>2 DEF OrderOK, AheadOf
  <2>5. /\ h \in Gates /\ h.writer = TRUE /\ h.readers = 0
        /\ h.waitRead = g.waitRead \ W /\ h.waitWrite = g.waitWrite \ W
        /\ h.ahead = Dequeue(g, W).ahead
    BY <1>0, <1>2, <2>2, DequeueFacts DEF Gates
  <2>6. Waiters(h) = Waiters(g) \ {x} BY <2>4, <2>5 DEF Waiters
  <2>7. Inside(g, e) = {} BY <1>2, FreeIsEmpty
  <2>8. x \in Handlers /\ x \in Waiters(g) /\ e[x] = "write"
    BY <1>0, <2>2, <2>3 DEF QueueOK, Waiters
  <2>9. Inside(h, e) = {x} BY <2>6, <2>7, <2>8 DEF Inside
  <2>10. Reading(h, e) = {} BY <2>8, <2>9 DEF Reading
  <2>11. CountOK(h, e) BY <2>5, <2>8, <2>9, <2>10, FS_EmptySet DEF CountOK
  <2>12. AloneOK(h, e) BY <2>9 DEF AloneOK
  <2>13. OrderOK(h)
    <3>1. OrderOK(Dequeue(g, W)) BY <1>0, <2>2, DequeueFacts
    <3>2. Waiters(Dequeue(g, W)) = Waiters(g) \ W BY <1>0, <2>2, DequeueFacts
    <3>3. Waiters(Dequeue(g, W)) = Waiters(h) BY <2>4, <2>6, <3>2
    <3> QED BY <2>5, <3>1, <3>3 DEF OrderOK
  <2>14. QueueOK(h, e) BY <1>0, <2>5 DEF QueueOK
  <2> QED BY <2>1, <2>5, <2>6, <2>11, <2>12, <2>13, <2>14 DEF GateOK
<1>3. CASE ~g.writer /\ g.readers = 0 /\ W = {}
  <2> DEFINE h == [Dequeue(g, R) EXCEPT !.readers = Cardinality(R)]
  <2>1. grantLocked(g) = h BY <1>3 DEF grantLocked
  <2>2. R \subseteq Handlers /\ R \subseteq g.waitRead BY <1>0 DEF FrontReaders, Gates
  <2>3. Cardinality(R) \in Nat BY <2>2, GitConstants, FS_Subset, FS_CardinalityType
  <2>4. /\ h \in Gates /\ h.writer = FALSE /\ h.readers = Cardinality(R)
        /\ h.waitRead = g.waitRead \ R /\ h.waitWrite = g.waitWrite \ R
        /\ h.ahead = Dequeue(g, R).ahead
    <3>1. Dequeue(g, R) \in Gates /\ Dequeue(g, R).writer = g.writer
      BY <1>0, <2>2, DequeueFacts
    <3>2. h \in Gates /\ h.writer = g.writer /\ h.readers = Cardinality(R)
          /\ h.ahead = Dequeue(g, R).ahead
      BY <2>3, <3>1 DEF Gates
    <3>3. h.waitRead = g.waitRead \ R /\ h.waitWrite = g.waitWrite \ R
      BY <1>0, <2>2, <3>1, DequeueFacts DEF Gates
    <3> QED BY <1>0, <1>3, <3>2, <3>3 DEF Gates
  <2>5. Waiters(h) = Waiters(g) \ R BY <2>4 DEF Waiters
  <2>6. Inside(g, e) = {} BY <1>3, FreeIsEmpty
  <2>7. \A c \in R : c \in Waiters(g) /\ e[c] = "read"
    BY <1>0, <2>2 DEF QueueOK, Waiters
  <2>8. Inside(h, e) = R BY <2>2, <2>5, <2>6, <2>7 DEF Inside
  <2>9. Reading(h, e) = R BY <2>7, <2>8 DEF Reading
  <2>10. CountOK(h, e) BY <2>4, <2>7, <2>8, <2>9 DEF CountOK
  <2>11. AloneOK(h, e) BY <2>7, <2>8 DEF AloneOK
  <2>12. OrderOK(h)
    <3>1. OrderOK(Dequeue(g, R)) /\ Waiters(Dequeue(g, R)) = Waiters(h)
      BY <1>0, <2>2, <2>5, DequeueFacts
    <3> QED BY <2>4, <3>1 DEF OrderOK
  <2>13. QueueOK(h, e) BY <1>0, <2>4 DEF QueueOK
  <2> QED BY <2>1, <2>4, <2>5, <2>10, <2>11, <2>12, <2>13 DEF GateOK
<1> QED BY <1>0, <1>1, <1>2, <1>3 DEF Gates

\* the mode of a reader or of a writer
Mode(write) == IF write THEN "write" ELSE "read"

\* Joining the queue.
LEMMA EnqueueFacts ==
    ASSUME NEW g \in Gates, NEW c \in Handlers, NEW write \in BOOLEAN
    PROVE  /\ Enqueue(g, c, write) \in Gates
           /\ Enqueue(g, c, write).readers = g.readers
           /\ Enqueue(g, c, write).writer = g.writer
           /\ write => /\ Enqueue(g, c, write).waitRead = g.waitRead
                       /\ Enqueue(g, c, write).waitWrite = g.waitWrite \cup {c}
           /\ ~write => /\ Enqueue(g, c, write).waitRead = g.waitRead \cup {c}
                        /\ Enqueue(g, c, write).waitWrite = g.waitWrite
           /\ Enqueue(g, c, write).ahead = g.ahead \cup (Waiters(g) \X {c})
<1> DEFINE r == IF write THEN g.waitRead ELSE g.waitRead \cup {c}
           w == IF write THEN g.waitWrite \cup {c} ELSE g.waitWrite
           a == g.ahead \cup (Waiters(g) \X {c})
<1>1. r \in SUBSET Handlers /\ w \in SUBSET Handlers BY DEF Gates
<1>2. a \in SUBSET (Handlers \X Handlers) BY DEF Waiters, Gates
<1>3. Enqueue(g, c, write) = [g EXCEPT !.waitRead = r, !.waitWrite = w, !.ahead = a]
  BY DEF Enqueue
<1> HIDE DEF r, w, a
<1>4. ASSUME NEW n, n = [g EXCEPT !.waitRead = r, !.waitWrite = w, !.ahead = a]
      PROVE  /\ n \in Gates
             /\ n.readers = g.readers /\ n.writer = g.writer
             /\ n.waitRead = r /\ n.waitWrite = w /\ n.ahead = a
  BY <1>1, <1>2, <1>4 DEF Gates
<1>7. /\ Enqueue(g, c, write) \in Gates
      /\ Enqueue(g, c, write).readers = g.readers
      /\ Enqueue(g, c, write).writer = g.writer
      /\ Enqueue(g, c, write).waitRead = r
      /\ Enqueue(g, c, write).waitWrite = w
      /\ Enqueue(g, c, write).ahead = a
  BY <1>3, <1>4
<1> QED BY <1>7 DEF r, w, a

\* Asking for a gate: the handler is let in at once, or queued.
LEMMA AskOK ==
    ASSUME NEW g, NEW e \in Modes, GateOK(g, e), NEW c \in Handlers, e[c] = "out",
           NEW write \in BOOLEAN
    PROVE  /\ GateOK(Ask(g, c, write), [e EXCEPT ![c] = Mode(write)])
           /\ canAcquireImmediately(g, write) => Waiters(Ask(g, c, write)) = {}
           /\ Waiters(Ask(g, c, write)) \subseteq Waiters(g) \cup {c}
<1> DEFINE f == [e EXCEPT ![c] = Mode(write)]
           n == Ask(g, c, write)
<1>0. g \in Gates /\ QueueOK(g, e) /\ OrderOK(g) /\ CountOK(g, e) /\ AloneOK(g, e)
  BY DEF GateOK
<1>1. f \in Modes /\ f[c] = Mode(write) /\ f[c] # "out" /\ \A d \in Handlers \ {c} : f[d] = e[d]
  BY DEF Modes, Mode
<1>2. c \notin Inside(g, e) /\ c \notin Waiters(g) BY <1>0 DEF Inside, QueueOK, Waiters
<1>3. Inside(g, e) \subseteq Handlers \ {c} BY <1>2 DEF Inside
<1>4. CASE canAcquireImmediately(g, write)
  <2>1. n = markAcquired(g, write) BY <1>4 DEF Ask
  <2>2. Waiters(g) = {} /\ ~g.writer /\ (write => g.readers = 0)
    BY <1>4 DEF canAcquireImmediately
  <2>3. g.waitRead = {} /\ g.waitWrite = {} BY <2>2 DEF Waiters
  <2>4. n \in Gates /\ n.waitRead = {} /\ n.waitWrite = {}
        /\ n.readers = (IF write THEN g.readers ELSE g.readers + 1)
        /\ n.writer = (IF write THEN TRUE ELSE g.writer)
    <3>1. CASE write
      <4>1. n = [g EXCEPT !.writer = TRUE] BY <2>1, <3>1 DEF markAcquired
      <4> QED BY <1>0, <2>3, <3>1, <4>1 DEF Gates
    <3>2. CASE ~write
      <4>1. n = [g EXCEPT !.readers = g.readers + 1] BY <2>1, <3>2 DEF markAcquired
      <4> QED BY <1>0, <2>3, <3>2, <4>1 DEF Gates
    <3> QED BY <3>1, <3>2
  <2>5. Waiters(n) = {} BY <2>4 DEF Waiters
  <2>6. Inside(n, f) = Inside(g, e) \cup {c} BY <1>1, <2>2, <2>5 DEF Inside
  <2>7. \A d \in Inside(g, e) : e[d] # "write" BY <1>0, <2>2 DEF CountOK
  <2>8. CountOK(n, f) /\ AloneOK(n, f)
    <3>1. CASE write
      <4>1. Inside(g, e) = {} BY <2>2, <3>1, FreeIsEmpty
      <4>2. Inside(n, f) = {c} /\ f[c] = "write" BY <1>1, <2>6, <3>1, <4>1 DEF Mode
      <4>3. Reading(n, f) = {} BY <4>2 DEF Reading
      <4> QED BY <2>2, <2>4, <3>1, <4>2, <4>3, FS_EmptySet DEF CountOK, AloneOK
    <3>2. CASE ~write
      <4>0. f[c] = "read" BY <1>1, <3>2 DEF Mode
      <4>1. Reading(n, f) = Reading(g, e) \cup {c}
        BY <1>1, <1>3, <2>6, <4>0 DEF Reading
      <4>2. c \notin Reading(g, e) BY <1>2 DEF Reading
      <4>3. Cardinality(Reading(n, f)) = Cardinality(Reading(g, e)) + 1
        BY <4>1, <4>2, InsideFinite, FS_AddElement
      <4>4. n.readers = Cardinality(Reading(n, f))
        BY <1>0, <2>4, <3>2, <4>3 DEF CountOK
      <4>5. \A d \in Inside(n, f) : f[d] # "write" BY <1>1, <1>3, <2>6, <2>7, <4>0
      <4>6. n.writer = FALSE BY <1>0, <2>2, <2>4, <3>2 DEF Gates
      <4> QED BY <4>4, <4>5, <4>6 DEF CountOK, AloneOK
    <3> QED BY <3>1, <3>2
  <2>9. QueueOK(n, f) /\ OrderOK(n) BY <2>4, <2>5 DEF QueueOK, OrderOK
  <2> QED BY <2>4, <2>5, <2>8, <2>9 DEF GateOK
<1>5. CASE ~canAcquireImmediately(g, write)
  <2>1. n = Enqueue(g, c, write) BY <1>5 DEF Ask
  <2>2. Waiters(g) \subseteq Handlers BY <1>0 DEF Waiters, Gates
  <2>3. n \in Gates /\ n.readers = g.readers /\ n.writer = g.writer
        /\ n.waitRead = (IF write THEN g.waitRead ELSE g.waitRead \cup {c})
        /\ n.waitWrite = (IF write THEN g.waitWrite \cup {c} ELSE g.waitWrite)
        /\ n.ahead = g.ahead \cup (Waiters(g) \X {c})
    <3>1. g \in Gates BY <1>0
    <3>2. /\ Enqueue(g, c, write) \in Gates
          /\ Enqueue(g, c, write).readers = g.readers
          /\ Enqueue(g, c, write).writer = g.writer
          /\ write => /\ Enqueue(g, c, write).waitRead = g.waitRead
                      /\ Enqueue(g, c, write).waitWrite = g.waitWrite \cup {c}
          /\ ~write => /\ Enqueue(g, c, write).waitRead = g.waitRead \cup {c}
                       /\ Enqueue(g, c, write).waitWrite = g.waitWrite
          /\ Enqueue(g, c, write).ahead = g.ahead \cup (Waiters(g) \X {c})
      BY ONLY <3>1, EnqueueFacts, c \in Handlers, write \in BOOLEAN
    <3> HIDE DEF n
    <3> QED BY <2>1, <3>2
  <2>4. Waiters(n) = Waiters(g) \cup {c} BY <2>3 DEF Waiters
  <2>5. Inside(n, f) = Inside(g, e) BY <1>1, <1>2, <2>4 DEF Inside
  <2>6. Reading(n, f) = Reading(g, e) BY <1>1, <1>3, <2>5 DEF Reading
  <2>7. \A d \in Inside(g, e) : f[d] = e[d] BY <1>1, <1>3
  <2>8. CountOK(n, f) /\ AloneOK(n, f)
    BY <1>0, <2>3, <2>5, <2>6, <2>7 DEF CountOK, AloneOK
  <2>9. QueueOK(n, f)
    BY <1>0, <1>1, <2>2, <2>3 DEF QueueOK, Waiters, Mode
  <2>10. OrderOK(n) BY <1>0, <2>3, <2>4 DEF OrderOK
  <2> QED BY <1>5, <2>3, <2>4, <2>8, <2>9, <2>10 DEF GateOK
<1> QED BY <1>4, <1>5

\* Giving back a slot.
LEMMA ReleaseOK ==
    ASSUME NEW g, NEW e \in Modes, GateOK(g, e), NEW c \in Inside(g, e), NEW write \in BOOLEAN,
           e[c] = Mode(write)
    PROVE  /\ GateOK(release(g, write), [e EXCEPT ![c] = "out"])
           /\ Waiters(release(g, write)) \subseteq Waiters(g)
<1> DEFINE n == IF write THEN [g EXCEPT !.writer = FALSE] ELSE [g EXCEPT !.readers = @ - 1]
           f == [e EXCEPT ![c] = "out"]
<1>0. g \in Gates /\ QueueOK(g, e) /\ OrderOK(g) /\ CountOK(g, e) /\ AloneOK(g, e)
      /\ c \in Handlers /\ c \notin Waiters(g)
  BY DEF GateOK, Inside
<1>1. release(g, write) = grantLocked(n) BY DEF release
<1>2. f \in Modes /\ f[c] = "out" /\ \A d \in Handlers \ {c} : f[d] = e[d]
  BY <1>0 DEF Modes
<1>3. n.waitRead = g.waitRead /\ n.waitWrite = g.waitWrite /\ n.ahead = g.ahead
      /\ n.readers = (IF write THEN g.readers ELSE g.readers - 1)
      /\ n.writer = (IF write THEN FALSE ELSE g.writer)
  BY <1>0 DEF Gates
<1>4. Waiters(n) = Waiters(g) BY <1>3 DEF Waiters
<1>5. Inside(n, f) = Inside(g, e) \ {c} BY <1>2, <1>4 DEF Inside
<1>6. \A d \in Inside(n, f) : f[d] = e[d] /\ d \in Inside(g, e) BY <1>2, <1>5 DEF Inside
<1>7. CountOK(n, f) /\ n.readers \in Nat
  <2>1. CASE write
    <3>1. e[c] = "write" BY <2>1 DEF Mode
    <3>2. Inside(g, e) = {c} BY <1>0, <3>1 DEF AloneOK
    <3>3. Inside(n, f) = {} /\ Reading(n, f) = {} /\ Reading(g, e) = {}
      BY <1>5, <3>1, <3>2 DEF Reading
    <3>4. g.readers = 0 BY <1>0, <3>3, FS_EmptySet DEF CountOK
    <3>5. n.readers = 0 /\ n.writer = FALSE BY <1>3, <2>1, <3>4
    <3>6. n.readers = Cardinality(Reading(n, f)) BY <3>3, <3>5, FS_EmptySet
    <3>7. n.writer = \E d \in Inside(n, f) : f[d] = "write" BY <3>3, <3>5
    <3>8. n.readers \in Nat BY <3>5
    <3> QED BY <3>6, <3>7, <3>8 DEF CountOK
  <2>2. CASE ~write
    <3>1. e[c] = "read" BY <2>2 DEF Mode
    <3>2. Reading(n, f) = Reading(g, e) \ {c} BY <1>5, <1>6 DEF Reading
    <3>3. c \in Reading(g, e) BY <3>1 DEF Reading
    <3>4. Cardinality(Reading(n, f)) = Cardinality(Reading(g, e)) - 1
      BY <3>2, <3>3, InsideFinite, FS_RemoveElement
    <3>5. n.readers = Cardinality(Reading(n, f)) BY <1>0, <1>3, <2>2, <3>4 DEF CountOK
    <3>6. (\E d \in Inside(n, f) : f[d] = "write") <=> \E d \in Inside(g, e) : e[d] = "write"
      BY <1>5, <1>6, <3>1
    <3>7. n.writer = \E d \in Inside(n, f) : f[d] = "write" BY <1>0, <1>3, <2>2, <3>6 DEF CountOK
    <3> QED BY <3>5, <3>7, InsideFinite DEF CountOK
  <2> QED BY <2>1, <2>2
<1>8. n \in Gates
  <2>1. CASE write BY <1>0, <2>1 DEF Gates
  <2>2. CASE ~write
    <3>1. g.readers - 1 \in Nat BY <1>3, <1>7, <2>2
    <3>2. n = [g EXCEPT !.readers = g.readers - 1] BY <2>2
    <3> QED BY <1>0, <3>1, <3>2 DEF Gates
  <2> QED BY <2>1, <2>2
<1>9. AloneOK(n, f) BY <1>0, <1>6 DEF AloneOK
<1>10. OrderOK(n) BY <1>0, <1>3, <1>4 DEF OrderOK
<1>11. QueueOK(n, f) BY <1>0, <1>2, <1>3 DEF QueueOK, Waiters, Gates
<1>12. GateOK(n, f) BY <1>7, <1>8, <1>9, <1>10, <1>11 DEF GateOK
<1>13. GateOK(grantLocked(n), f) /\ Waiters(grantLocked(n)) \subseteq Waiters(n)
  BY <1>2, <1>12, GrantOK
<1> QED BY <1>1, <1>4, <1>13

\* Giving up, before the grant or after it.
LEMMA GiveUpOK ==
    ASSUME NEW g, NEW e \in Modes, GateOK(g, e), NEW c \in Handlers, NEW write \in BOOLEAN,
           e[c] = Mode(write)
    PROVE  /\ GateOK(GiveUp(g, c, write), [e EXCEPT ![c] = "out"])
           /\ Waiters(GiveUp(g, c, write)) \subseteq Waiters(g) \ {c}
<1> DEFINE n == Dequeue(g, {c})
           f == [e EXCEPT ![c] = "out"]
<1>0. g \in Gates /\ QueueOK(g, e) /\ OrderOK(g) /\ CountOK(g, e) /\ AloneOK(g, e)
  BY DEF GateOK
<1>1. CASE c \notin Waiters(g)
  <2>1. c \in Inside(g, e) BY <1>1 DEF Inside, Mode
  <2>2. GiveUp(g, c, write) = release(g, write) BY <1>1 DEF GiveUp
  <2> QED BY <1>1, <2>1, <2>2, ReleaseOK
<1>2. CASE c \in Waiters(g)
  <2>1. GiveUp(g, c, write) = grantLocked(n) BY <1>2 DEF GiveUp, Withdraw
  <2>2. f \in Modes /\ f[c] = "out" /\ \A d \in Handlers \ {c} : f[d] = e[d]
    BY DEF Modes
  <2>3. n \in Gates /\ n.readers = g.readers /\ n.writer = g.writer
        /\ n.waitRead = g.waitRead \ {c} /\ n.waitWrite = g.waitWrite \ {c}
        /\ Waiters(n) = Waiters(g) \ {c} /\ OrderOK(n)
    BY <1>0, DequeueFacts
  <2>4. Inside(n, f) = Inside(g, e) BY <1>2, <2>2, <2>3 DEF Inside
  <2>5. \A d \in Inside(g, e) : f[d] = e[d] BY <1>2, <2>2 DEF Inside
  <2>6. Reading(n, f) = Reading(g, e) BY <2>4, <2>5 DEF Reading
  <2>7. CountOK(n, f) /\ AloneOK(n, f)
    BY <1>0, <2>3, <2>4, <2>5, <2>6 DEF CountOK, AloneOK
  <2>8. QueueOK(n, f) BY <1>0, <2>2, <2>3 DEF QueueOK, Gates
  <2>9. GateOK(n, f) BY <2>3, <2>7, <2>8 DEF GateOK
  <2>10. GateOK(grantLocked(n), f) /\ Waiters(grantLocked(n)) \subseteq Waiters(n)
    BY <2>2, <2>9, GrantOK
  <2> QED BY <2>1, <2>3, <2>10
<1> QED BY <1>1, <1>2

----------------------------------------------------------------------------
(* The registry and the references it counts. *)

Coordinators == [present : BOOLEAN, refs : Nat, epoch : Nat, gate : Gates]

Registries == [trees : [Worktrees -> Nat \cup {NoEntry}], coords : [Repos -> Coordinators],
               incomplete : BOOLEAN]

Counted(g, w) == IF g.trees[w] = NoEntry THEN 0 ELSE g.trees[w]

\* the registry g counts the references R
Exact(g, R) ==
    /\ IsFiniteSet(R)
    /\ \A w \in Worktrees : Uses(R, {w}) = Counted(g, w)
    /\ \A r \in Repos : g.coords[r].refs = Uses(R, TreesOf(r))

\* q has the gates and epochs of g, but for coordinators without references,
\* which may have been replaced
Keeps(g, q) ==
    \A r \in Repos :
        \/ /\ q.coords[r].gate = g.coords[r].gate
           /\ q.coords[r].epoch = g.coords[r].epoch
        \/ /\ g.coords[r].refs = 0
           /\ q.coords[r].gate = NewGate
           /\ q.coords[r].epoch = 0

\* no coordinator changed but in its number of references
SameCoords(g, q) ==
    \A r \in Repos : /\ q.coords[r].gate = g.coords[r].gate
                     /\ q.coords[r].epoch = g.coords[r].epoch

\* Counting references.
LEMMA UsesType ==
    ASSUME NEW R, IsFiniteSet(R), NEW ws
    PROVE  /\ Uses(R, ws) \in Nat /\ IsFiniteSet({p \in R : p[2] \in ws})
           /\ (\E p \in R : p[2] \in ws) <=> Uses(R, ws) > 0
<1>1. {p \in R : p[2] \in ws} \subseteq R OBVIOUS
<1>2. IsFiniteSet({p \in R : p[2] \in ws}) BY <1>1, FS_Subset
<1>3. Uses(R, ws) \in Nat BY <1>2, FS_CardinalityType DEF Uses
<1>4. Uses(R, ws) = 0 <=> {p \in R : p[2] \in ws} = {} BY <1>2, FS_EmptySet DEF Uses
<1>5. (\E p \in R : p[2] \in ws) <=> {p \in R : p[2] \in ws} # {} OBVIOUS
<1> QED BY <1>2, <1>3, <1>4, <1>5

\* One reference more, one use more.
LEMMA UsesAdd ==
    ASSUME NEW R, IsFiniteSet(R), NEW t, t \notin R, NEW ws
    PROVE  Uses(R \cup {t}, ws) = IF t[2] \in ws THEN Uses(R, ws) + 1 ELSE Uses(R, ws)
<1>1. CASE t[2] \in ws
  <2>1. {p \in R \cup {t} : p[2] \in ws} = {p \in R : p[2] \in ws} \cup {t} BY <1>1
  <2>2. t \notin {p \in R : p[2] \in ws} OBVIOUS
  <2> QED BY <1>1, <2>1, <2>2, UsesType, FS_AddElement DEF Uses
<1>2. CASE t[2] \notin ws
  <2>1. {p \in R \cup {t} : p[2] \in ws} = {p \in R : p[2] \in ws} BY <1>2
  <2> QED BY <1>2, <2>1 DEF Uses
<1> QED BY <1>1, <1>2

\* References taken away are no longer uses.
LEMMA UsesRemove ==
    ASSUME NEW R, IsFiniteSet(R), NEW T \in SUBSET R, NEW ws
    PROVE  /\ Uses(R \ T, ws) = Uses(R, ws) - Uses(T, ws)
           /\ Uses(T, ws) <= Uses(R, ws)
           /\ IsFiniteSet(T) /\ IsFiniteSet(R \ T)
<1> DEFINE A == {p \in R : p[2] \in ws}
           B == {p \in T : p[2] \in ws}
<1>1. IsFiniteSet(T) /\ IsFiniteSet(R \ T) BY FS_Subset
<1>2. IsFiniteSet(A) /\ IsFiniteSet(B) BY <1>1, UsesType
<1>3. {p \in R \ T : p[2] \in ws} = A \ B /\ A \cap B = B /\ B \subseteq A OBVIOUS
<1> HIDE DEF A, B
<1>4. Cardinality(A \ B) = Cardinality(A) - Cardinality(A \cap B) BY <1>2, FS_Difference
<1>5. Cardinality(B) <= Cardinality(A) BY <1>2, <1>3, FS_Subset
<1> QED BY <1>1, <1>3, <1>4, <1>5 DEF Uses, A, B

\* A repository whose worktree is referenced has a coordinator with references.
LEMMA ReferencedCoord ==
    ASSUME NEW g, NEW R, Exact(g, R), NEW p \in R, p[2] \in Worktrees
    PROVE  /\ g.coords[RepoOf[p[2]]].refs > 0
           /\ g.trees[p[2]] # NoEntry /\ Counted(g, p[2]) > 0
           /\ RepoOf[p[2]] \in Repos
<1>1. RepoOf[p[2]] \in Repos /\ p[2] \in TreesOf(RepoOf[p[2]]) /\ p[2] \in {p[2]}
  BY GitConstants DEF TreesOf
<1>2. Uses(R, TreesOf(RepoOf[p[2]])) > 0 /\ Uses(R, {p[2]}) > 0
  BY <1>1, UsesType DEF Exact
<1>3. Counted(g, p[2]) > 0 BY <1>2 DEF Exact
<1> QED BY <1>1, <1>2, <1>3 DEF Exact, Counted

\* Entries and coordinators without references may go.
LEMMA PrunedFacts ==
    ASSUME NEW g \in Registries, NEW q \in Pruned(g)
    PROVE  /\ q \in Registries /\ Keeps(g, q)
           /\ \A R : Exact(g, R) => Exact(q, R)
<1>1. PICK ws \in SUBSET InactiveTrees(g), rs \in SUBSET InactiveCoords(g) : q = Evicted(g, ws, rs)
  BY DEF Pruned
<1> DEFINE T == [w \in Worktrees |-> IF w \in ws THEN NoEntry ELSE g.trees[w]]
           C == [r \in Repos |-> IF r \in rs THEN NoCoordinator ELSE g.coords[r]]
<1>2. T \in [Worktrees -> Nat \cup {NoEntry}] BY DEF Registries
<1>3. NewGate \in Gates BY DEF NewGate, Gates
<1>4. NoCoordinator \in Coordinators /\ NoCoordinator.refs = 0 /\ NoCoordinator.gate = NewGate
      /\ NoCoordinator.epoch = 0
  BY <1>3 DEF NoCoordinator, Coordinators
<1>5. C \in [Repos -> Coordinators] BY <1>4 DEF Registries
<1>6. q.trees = T /\ q.coords = C /\ q \in Registries
  <2>1. q = [g EXCEPT !.trees = T, !.coords = C] BY <1>1 DEF Evicted
  <2> HIDE DEF T, C
  <2> QED BY <1>2, <1>5, <2>1 DEF Registries
<1>7. \A w \in Worktrees : q.trees[w] = g.trees[w] \/ (g.trees[w] = 0 /\ q.trees[w] = NoEntry)
  BY <1>6 DEF InactiveTrees
<1>8. \A r \in Repos : q.coords[r] = g.coords[r] \/ (g.coords[r].refs = 0 /\ q.coords[r] = NoCoordinator)
  BY <1>6 DEF InactiveCoords
<1>9. Keeps(g, q) BY <1>4, <1>8 DEF Keeps
<1>10. \A w \in Worktrees : Counted(q, w) = Counted(g, w) BY <1>7 DEF Counted
<1>11. \A r \in Repos : q.coords[r].refs = g.coords[r].refs BY <1>4, <1>8
<1> QED BY <1>6, <1>9, <1>10, <1>11 DEF Exact

\* One more reference.
LEMMA AddRefFacts ==
    ASSUME NEW g \in Registries, NEW w \in Worktrees
    PROVE  /\ AddRef(g, w) \in Registries /\ SameCoords(g, AddRef(g, w))
           /\ AddRef(g, w).incomplete = g.incomplete
           /\ AddRef(g, w).trees[w] # NoEntry
           /\ \A v \in Worktrees : Counted(AddRef(g, w), v)
                                      = IF v = w THEN Counted(g, v) + 1 ELSE Counted(g, v)
           /\ \A r \in Repos : AddRef(g, w).coords[r].refs
                                  = IF r = RepoOf[w] THEN g.coords[r].refs + 1 ELSE g.coords[r].refs
<1> DEFINE q == AddRef(g, w)
           n == IF g.trees[w] = NoEntry THEN 1 ELSE g.trees[w] + 1
           c == [g.coords[RepoOf[w]] EXCEPT !.present = TRUE, !.refs = @ + 1]
           T == [g.trees EXCEPT ![w] = n]
           C == [g.coords EXCEPT ![RepoOf[w]] = c]
<1>0. RepoOf[w] \in Repos BY GitConstants
<1>1. g.trees \in [Worktrees -> Nat \cup {NoEntry}] /\ g.coords \in [Repos -> Coordinators]
      /\ g.incomplete \in BOOLEAN
  BY DEF Registries
<1>2. n \in Nat /\ n = Counted(g, w) + 1 /\ n # NoEntry BY <1>1 DEF NoEntry, Counted
<1>3. g.coords[RepoOf[w]] \in Coordinators BY <1>0, <1>1
<1>4. c \in Coordinators /\ c.refs = g.coords[RepoOf[w]].refs + 1
      /\ c.gate = g.coords[RepoOf[w]].gate /\ c.epoch = g.coords[RepoOf[w]].epoch
  <2>1. g.coords[RepoOf[w]].refs + 1 \in Nat BY <1>3 DEF Coordinators
  <2> QED BY <1>3, <2>1 DEF Coordinators
<1>5. q = [g EXCEPT !.trees = T, !.coords = C]
  <2>1. q = [g EXCEPT !.trees[w] = n, !.coords[RepoOf[w]].present = TRUE,
                      !.coords[RepoOf[w]].refs = g.coords[RepoOf[w]].refs + 1]
    BY DEF AddRef
  <2> QED BY <1>0, <1>1, <2>1
<1> HIDE DEF n, c
<1>6. T \in [Worktrees -> Nat \cup {NoEntry}] /\ T[w] = n /\ \A v \in Worktrees : v # w => T[v] = g.trees[v]
  BY <1>1, <1>2
<1>7. C \in [Repos -> Coordinators] /\ C[RepoOf[w]] = c
      /\ \A r \in Repos : r # RepoOf[w] => C[r] = g.coords[r]
  BY <1>0, <1>1, <1>4
<1> HIDE DEF T, C, q
<1>8. q.trees = T /\ q.coords = C /\ q.incomplete = g.incomplete /\ q \in Registries
  BY <1>1, <1>5, <1>6, <1>7 DEF Registries
<1>9. SameCoords(g, q) BY <1>4, <1>7, <1>8 DEF SameCoords
<1>10. \A v \in Worktrees : Counted(q, v) = IF v = w THEN Counted(g, v) + 1 ELSE Counted(g, v)
  BY <1>2, <1>6, <1>8 DEF Counted
<1>11. \A r \in Repos : q.coords[r].refs
                           = IF r = RepoOf[w] THEN g.coords[r].refs + 1 ELSE g.coords[r].refs
  BY <1>4, <1>7, <1>8
<1>12. q.trees[w] # NoEntry BY <1>2, <1>6, <1>8
<1> QED BY <1>8, <1>9, <1>10, <1>11, <1>12 DEF q

\* A registry that was exact counts the new reference too.
LEMMA AddRefExact ==
    ASSUME NEW g \in Registries, NEW w \in Worktrees, NEW R, Exact(g, R),
           NEW t, t \notin R, t[2] = w
    PROVE  Exact(AddRef(g, w), R \cup {t})
<1> DEFINE q == AddRef(g, w)
<1>1. IsFiniteSet(R \cup {t}) BY FS_AddElement DEF Exact
<1>2. \A ws : Uses(R \cup {t}, ws) = IF w \in ws THEN Uses(R, ws) + 1 ELSE Uses(R, ws)
  BY UsesAdd DEF Exact
<1>3. \A v \in Worktrees : Uses(R \cup {t}, {v}) = Counted(q, v)
  <2> SUFFICES ASSUME NEW v \in Worktrees PROVE Uses(R \cup {t}, {v}) = Counted(q, v)
    OBVIOUS
  <2>1. Uses(R \cup {t}, {v}) = IF w = v THEN Uses(R, {v}) + 1 ELSE Uses(R, {v}) BY <1>2
  <2> QED BY <2>1, AddRefFacts DEF Exact
<1>4. \A r \in Repos : q.coords[r].refs = Uses(R \cup {t}, TreesOf(r))
  <2> SUFFICES ASSUME NEW r \in Repos PROVE q.coords[r].refs = Uses(R \cup {t}, TreesOf(r))
    OBVIOUS
  <2>1. w \in TreesOf(r) <=> r = RepoOf[w] BY DEF TreesOf
  <2>2. Uses(R \cup {t}, TreesOf(r)) = IF r = RepoOf[w] THEN Uses(R, TreesOf(r)) + 1 ELSE Uses(R, TreesOf(r))
    BY <1>2, <2>1
  <2> QED BY <2>2, AddRefFacts DEF Exact
<1> QED BY <1>1, <1>3, <1>4 DEF Exact

\* A counter never goes below zero.
LEMMA LessFacts ==
    ASSUME NEW n \in Nat \cup {NoEntry}, NEW k \in Nat
    PROVE  /\ Less(n, k) \in Nat \cup {NoEntry}
           /\ n \in Nat => Less(n, k) \in Nat
           /\ n \in Nat /\ k <= n => Less(n, k) = n - k
           /\ n = NoEntry => Less(n, k) = NoEntry
BY DEF Less, NoEntry

\* One reference less.
LEMMA ReleasedOneFacts ==
    ASSUME NEW g \in Registries, NEW w \in Worktrees
    PROVE  /\ ReleasedOne(g, w) \in Registries /\ SameCoords(g, ReleasedOne(g, w))
           /\ ReleasedOne(g, w).incomplete = g.incomplete
           /\ \A v \in Worktrees : ReleasedOne(g, w).trees[v] = NoEntry <=> g.trees[v] = NoEntry
           /\ \A v \in Worktrees : v # w => Counted(ReleasedOne(g, w), v) = Counted(g, v)
           /\ Counted(g, w) > 0 => Counted(ReleasedOne(g, w), w) = Counted(g, w) - 1
           /\ \A r \in Repos : r # RepoOf[w] => ReleasedOne(g, w).coords[r].refs = g.coords[r].refs
           /\ g.coords[RepoOf[w]].refs > 0
                 => ReleasedOne(g, w).coords[RepoOf[w]].refs = g.coords[RepoOf[w]].refs - 1
<1> DEFINE q == ReleasedOne(g, w)
           n == Less(g.trees[w], 1)
           c == [g.coords[RepoOf[w]] EXCEPT !.refs = Less(@, 1)]
           T == [g.trees EXCEPT ![w] = n]
           C == [g.coords EXCEPT ![RepoOf[w]] = c]
<1>0. RepoOf[w] \in Repos BY GitConstants
<1>1. g.trees \in [Worktrees -> Nat \cup {NoEntry}] /\ g.coords \in [Repos -> Coordinators]
      /\ g.incomplete \in BOOLEAN
  BY DEF Registries
<1>2. n \in Nat \cup {NoEntry} /\ (n = NoEntry <=> g.trees[w] = NoEntry)
      /\ (Counted(g, w) > 0 => n = Counted(g, w) - 1)
  BY <1>1 DEF Less, NoEntry, Counted
<1>3. g.coords[RepoOf[w]] \in Coordinators BY <1>0, <1>1
<1>4. c \in Coordinators /\ (g.coords[RepoOf[w]].refs > 0 => c.refs = g.coords[RepoOf[w]].refs - 1)
      /\ c.gate = g.coords[RepoOf[w]].gate /\ c.epoch = g.coords[RepoOf[w]].epoch
  <2> DEFINE k == Less(g.coords[RepoOf[w]].refs, 1)
  <2>1. k \in Nat /\ (g.coords[RepoOf[w]].refs > 0 => k = g.coords[RepoOf[w]].refs - 1)
    BY <1>3 DEF Less, Coordinators
  <2>2. c = [g.coords[RepoOf[w]] EXCEPT !.refs = k] OBVIOUS
  <2> HIDE DEF k, c
  <2> QED BY <1>3, <2>1, <2>2 DEF Coordinators
<1>5. q = [g EXCEPT !.trees = T, !.coords = C] BY DEF ReleasedOne
<1> HIDE DEF n, c
<1>6. T \in [Worktrees -> Nat \cup {NoEntry}] /\ T[w] = n /\ \A v \in Worktrees : v # w => T[v] = g.trees[v]
  BY <1>1, <1>2
<1>7. C \in [Repos -> Coordinators] /\ C[RepoOf[w]] = c
      /\ \A r \in Repos : r # RepoOf[w] => C[r] = g.coords[r]
  BY <1>0, <1>1, <1>4
<1> HIDE DEF T, C, q
<1>8. q.trees = T /\ q.coords = C /\ q.incomplete = g.incomplete /\ q \in Registries
  BY <1>1, <1>5, <1>6, <1>7 DEF Registries
<1>9. SameCoords(g, q) BY <1>4, <1>7, <1>8 DEF SameCoords
<1>10. \A v \in Worktrees : v # w => Counted(q, v) = Counted(g, v) BY <1>6, <1>8 DEF Counted
<1>11. Counted(g, w) > 0 => Counted(q, w) = Counted(g, w) - 1
  BY <1>1, <1>2, <1>6, <1>8 DEF Counted, NoEntry
<1>12. \A v \in Worktrees : q.trees[v] = NoEntry <=> g.trees[v] = NoEntry BY <1>2, <1>6, <1>8
<1>13. \A r \in Repos : r # RepoOf[w] => q.coords[r].refs = g.coords[r].refs BY <1>7, <1>8
<1>14. g.coords[RepoOf[w]].refs > 0 => q.coords[RepoOf[w]].refs = g.coords[RepoOf[w]].refs - 1
  BY <1>4, <1>7, <1>8
<1> QED BY <1>8, <1>9, <1>10, <1>11, <1>12, <1>13, <1>14 DEF q

\* ... and no longer counts the one released.
LEMMA ReleasedOneExact ==
    ASSUME NEW g \in Registries, NEW w \in Worktrees, NEW R, Exact(g, R),
           NEW t \in R, t[2] = w
    PROVE  Exact(ReleasedOne(g, w), R \ {t})
<1> DEFINE q == ReleasedOne(g, w)
           S == R \ {t}
<1>1. IsFiniteSet(S) /\ t \notin S /\ S \cup {t} = R BY FS_RemoveElement DEF Exact
<1>2. \A ws : Uses(R, ws) = IF w \in ws THEN Uses(S, ws) + 1 ELSE Uses(S, ws)
  <2> HIDE DEF S
  <2> QED BY <1>1, UsesAdd
<1>3. Counted(g, w) > 0 /\ g.coords[RepoOf[w]].refs > 0 BY ReferencedCoord
<1>4. \A ws : Uses(S, ws) \in Nat BY <1>1, UsesType
<1>5. \A v \in Worktrees : Uses(S, {v}) = Counted(q, v)
  <2> SUFFICES ASSUME NEW v \in Worktrees PROVE Uses(S, {v}) = Counted(q, v)
    OBVIOUS
  <2>1. Uses(R, {v}) = IF w = v THEN Uses(S, {v}) + 1 ELSE Uses(S, {v}) BY <1>2
  <2>2. Uses(R, {v}) = Counted(g, v) /\ Uses(S, {v}) \in Nat BY <1>4 DEF Exact
  <2>3. CASE v = w
    <3>1. Counted(q, w) = Counted(g, w) - 1 BY <1>3, ReleasedOneFacts
    <3> QED BY <2>1, <2>2, <2>3, <3>1
  <2>4. CASE v # w
    <3>1. Counted(q, v) = Counted(g, v) BY <2>4, ReleasedOneFacts
    <3> QED BY <2>1, <2>2, <2>4, <3>1
  <2> QED BY <2>3, <2>4
<1>6. \A r \in Repos : q.coords[r].refs = Uses(S, TreesOf(r))
  <2> SUFFICES ASSUME NEW r \in Repos PROVE q.coords[r].refs = Uses(S, TreesOf(r))
    OBVIOUS
  <2>1. w \in TreesOf(r) <=> r = RepoOf[w] BY DEF TreesOf
  <2>2. Uses(R, TreesOf(r)) = IF r = RepoOf[w] THEN Uses(S, TreesOf(r)) + 1 ELSE Uses(S, TreesOf(r))
    BY <1>2, <2>1
  <2>3. Uses(R, TreesOf(r)) = g.coords[r].refs /\ Uses(S, TreesOf(r)) \in Nat
    BY <1>4 DEF Exact
  <2>4. CASE r = RepoOf[w]
    <3>1. q.coords[r].refs = g.coords[r].refs - 1 BY <1>3, <2>4, ReleasedOneFacts
    <3> QED BY <2>2, <2>3, <2>4, <3>1
  <2>5. CASE r # RepoOf[w]
    <3>1. q.coords[r].refs = g.coords[r].refs BY <2>5, ReleasedOneFacts
    <3> QED BY <2>2, <2>3, <2>5, <3>1
  <2> QED BY <2>4, <2>5
<1> QED BY <1>1, <1>5, <1>6 DEF Exact

\* Coordinators that keep gates and epochs in two steps keep them in one.
LEMMA KeepsSame ==
    ASSUME NEW g, NEW p, NEW q, Keeps(g, p), SameCoords(p, q)
    PROVE  Keeps(g, q)
BY DEF Keeps, SameCoords

\* ... so do coordinators that change in their number of references only.
LEMMA SameKeeps ==
    ASSUME NEW g, NEW q, SameCoords(g, q)
    PROVE  Keeps(g, q)
BY DEF Keeps, SameCoords

\* retainIdentity: whatever was pruned before, one reference more.
LEMMA RetainFacts ==
    ASSUME NEW g \in Registries, NEW w \in Worktrees, NEW q \in retainIdentity(g, w)
    PROVE  /\ q \in Registries /\ Keeps(g, q) /\ q.trees[w] # NoEntry
           /\ \A R, t : Exact(g, R) /\ t \notin R /\ t[2] = w => Exact(q, R \cup {t})
<1>1. PICK p \in Pruned(g) : q = AddRef(p, w) BY DEF retainIdentity
<1>2. p \in Registries /\ Keeps(g, p) /\ \A R : Exact(g, R) => Exact(p, R) BY PrunedFacts
<1>3. q \in Registries /\ SameCoords(p, q) /\ q.trees[w] # NoEntry BY <1>1, <1>2, AddRefFacts
<1>4. \A R, t : Exact(g, R) /\ t \notin R /\ t[2] = w => Exact(q, R \cup {t})
  BY <1>1, <1>2, AddRefExact
<1> QED BY <1>2, <1>3, <1>4, KeepsSame

\* admitIdentity: the same references as before.
LEMMA AdmitFacts ==
    ASSUME NEW g \in Registries, NEW w \in Worktrees, NEW q \in admitIdentity(g, w)
    PROVE  /\ q \in Registries /\ Keeps(g, q)
           /\ \A R : Exact(g, R) => Exact(q, R)
<1>1. PICK n \in retainIdentity(g, w) : q = ReleasedOne(n, w) BY DEF admitIdentity
<1>2. PICK p \in Pruned(g) : n = AddRef(p, w) BY DEF retainIdentity
<1>3. p \in Registries /\ Keeps(g, p) /\ \A R : Exact(g, R) => Exact(p, R) BY PrunedFacts
<1>4. n \in Registries /\ SameCoords(p, n) /\ n.trees[w] # NoEntry BY <1>2, <1>3, AddRefFacts
<1>5. q \in Registries /\ SameCoords(n, q) BY <1>1, <1>4, ReleasedOneFacts
<1>6. \A v \in Worktrees : Counted(q, v) = Counted(p, v)
  <2> SUFFICES ASSUME NEW v \in Worktrees PROVE Counted(q, v) = Counted(p, v) OBVIOUS
  <2>0. Counted(p, v) \in Nat BY <1>3 DEF Registries, Counted, NoEntry
  <2>1. Counted(n, v) = IF v = w THEN Counted(p, v) + 1 ELSE Counted(p, v)
    BY <1>2, <1>3, AddRefFacts
  <2>2. CASE v = w
    <3>1. Counted(q, w) = Counted(n, w) - 1 BY <1>1, <1>4, <2>0, <2>1, <2>2, ReleasedOneFacts
    <3> QED BY <2>0, <2>1, <2>2, <3>1
  <2>3. CASE v # w
    <3>1. Counted(q, v) = Counted(n, v) BY <1>1, <1>4, <2>3, ReleasedOneFacts
    <3> QED BY <2>1, <2>3, <3>1
  <2> QED BY <2>2, <2>3
<1>7. \A r \in Repos : q.coords[r].refs = p.coords[r].refs
  <2> SUFFICES ASSUME NEW r \in Repos PROVE q.coords[r].refs = p.coords[r].refs OBVIOUS
  <2>0. p.coords[r].refs \in Nat BY <1>3 DEF Registries, Coordinators
  <2>1. n.coords[r].refs = IF r = RepoOf[w] THEN p.coords[r].refs + 1 ELSE p.coords[r].refs
    BY <1>2, <1>3, AddRefFacts
  <2>2. CASE r = RepoOf[w]
    <3>1. n.coords[RepoOf[w]].refs > 0 BY <2>0, <2>1, <2>2
    <3>2. q.coords[RepoOf[w]].refs = n.coords[RepoOf[w]].refs - 1
      BY <1>1, <1>4, <3>1, ReleasedOneFacts
    <3> QED BY <2>0, <2>1, <2>2, <3>2
  <2>3. CASE r # RepoOf[w]
    <3>1. q.coords[r].refs = n.coords[r].refs BY <1>1, <1>4, <2>3, ReleasedOneFacts
    <3> QED BY <2>1, <2>3, <3>1
  <2> QED BY <2>2, <2>3
<1>8. \A R : Exact(g, R) => Exact(q, R) BY <1>3, <1>6, <1>7 DEF Exact
<1> QED BY <1>3, <1>4, <1>5, <1>8, KeepsSame

\* Only the mark of an incomplete registry changes.
LEMMA MarkFacts ==
    ASSUME NEW g \in Registries, NEW b \in BOOLEAN
    PROVE  LET q == [g EXCEPT !.incomplete = b]
           IN  /\ q \in Registries /\ SameCoords(g, q) /\ q.trees = g.trees /\ q.coords = g.coords
               /\ \A R : Exact(g, R) => Exact(q, R)
<1> DEFINE q == [g EXCEPT !.incomplete = b]
<1>1. q \in Registries /\ q.trees = g.trees /\ q.coords = g.coords BY DEF Registries
<1> HIDE DEF q
<1>2. \A R : Exact(g, R) => Exact(q, R) BY <1>1 DEF Exact, Counted
<1>3. SameCoords(g, q) BY <1>1 DEF SameCoords
<1> QED BY <1>1, <1>2, <1>3 DEF q

\* retainIdentity fails: entries without references are gone.
LEMMA FailFacts ==
    ASSUME NEW g \in Registries, NEW w \in Worktrees, NEW q \in retainFailures(g, w)
    PROVE  /\ q \in Registries /\ Keeps(g, q)
           /\ \A R : Exact(g, R) => Exact(q, R)
<1>1. PICK p \in Pruned(g) : q = [p EXCEPT !.incomplete = TRUE] BY DEF retainFailures
<1>2. p \in Registries /\ Keeps(g, p) /\ \A R : Exact(g, R) => Exact(p, R) BY PrunedFacts
<1>3. q \in Registries /\ SameCoords(p, q) /\ \A R : Exact(p, R) => Exact(q, R)
  BY <1>1, <1>2, MarkFacts
<1> QED BY <1>2, <1>3, KeepsSame

\* Entries without references are dropped.
LEMMA EvictedFacts ==
    ASSUME NEW g \in Registries, NEW ws \in SUBSET InactiveTrees(g)
    PROVE  /\ Evicted(g, ws, {}) \in Registries /\ SameCoords(g, Evicted(g, ws, {}))
           /\ \A R : Exact(g, R) => Exact(Evicted(g, ws, {}), R)
<1> DEFINE q == Evicted(g, ws, {})
<1>1. q \in Pruned(g) BY DEF Pruned
<1>2. SameCoords(g, q) BY DEF Evicted, SameCoords, Registries
<1> QED BY <1>1, <1>2, PrunedFacts

\* rebuildRegistry: the entries it drops are not referenced.
LEMMA RebuildFacts ==
    ASSUME NEW g \in Registries, NEW q \in rebuildRegistry(g)
    PROVE  /\ q \in Registries /\ SameCoords(g, q)
           /\ \A R : Exact(g, R) => Exact(q, R)
<1> DEFINE lost == Registered(g) \ exists
<1>1. CASE ~g.incomplete
  <2>1. q = g BY <1>1 DEF rebuildRegistry
  <2> QED BY <2>1 DEF SameCoords
<1>2. CASE g.incomplete
  <2>1. lost \subseteq InactiveTrees(g) /\ q = [Evicted(g, lost, {}) EXCEPT !.incomplete = FALSE]
    BY <1>2 DEF rebuildRegistry
  <2> HIDE DEF lost
  <2> DEFINE p == Evicted(g, lost, {})
  <2>2. p \in Registries /\ SameCoords(g, p) /\ \A R : Exact(g, R) => Exact(p, R)
    BY <2>1, EvictedFacts
  <2> HIDE DEF p
  <2>3. q \in Registries /\ SameCoords(p, q) /\ \A R : Exact(p, R) => Exact(q, R)
    BY <2>1, <2>2, MarkFacts DEF p
  <2> QED BY <2>2, <2>3 DEF SameCoords
<1> QED BY <1>1, <1>2

\* Many references less.
LEMMA ReleasedFacts ==
    ASSUME NEW g \in Registries, NEW R, Exact(g, R), NEW T \in SUBSET R
    PROVE  /\ Released(g, T) \in Registries /\ SameCoords(g, Released(g, T))
           /\ Exact(Released(g, T), R \ T)
           /\ \A v \in Worktrees : Released(g, T).trees[v] = NoEntry <=> g.trees[v] = NoEntry
<1> DEFINE q == Released(g, T)
           A == [w \in Worktrees |-> Less(g.trees[w], Uses(T, {w}))]
           C == [r \in Repos |->
                   [g.coords[r] EXCEPT !.refs = Less(g.coords[r].refs, Uses(T, TreesOf(r)))]]
<1>0. IsFiniteSet(R) /\ IsFiniteSet(T) /\ IsFiniteSet(R \ T) BY UsesRemove DEF Exact
<1>1. \A ws : Uses(T, ws) \in Nat /\ Uses(R, ws) \in Nat /\ Uses(T, ws) <= Uses(R, ws)
              /\ Uses(R \ T, ws) = Uses(R, ws) - Uses(T, ws)
  BY <1>0, UsesType, UsesRemove
<1>2. g.trees \in [Worktrees -> Nat \cup {NoEntry}] /\ g.coords \in [Repos -> Coordinators]
      /\ g.incomplete \in BOOLEAN
  BY DEF Registries
<1>3. \A w \in Worktrees : A[w] \in Nat \cup {NoEntry} /\ (A[w] = NoEntry <=> g.trees[w] = NoEntry)
                           /\ (g.trees[w] # NoEntry => A[w] = g.trees[w] - Uses(T, {w}))
  <2> SUFFICES ASSUME NEW w \in Worktrees
               PROVE  A[w] \in Nat \cup {NoEntry} /\ (A[w] = NoEntry <=> g.trees[w] = NoEntry)
                      /\ (g.trees[w] # NoEntry => A[w] = g.trees[w] - Uses(T, {w}))
    OBVIOUS
  <2>1. g.trees[w] \in Nat \cup {NoEntry} /\ Uses(T, {w}) \in Nat BY <1>1, <1>2
  <2>2. g.trees[w] # NoEntry => Uses(T, {w}) <= g.trees[w] BY <1>1 DEF Exact, Counted
  <2>3. A[w] = Less(g.trees[w], Uses(T, {w})) OBVIOUS
  <2> HIDE DEF A
  <2> QED BY <2>1, <2>2, <2>3, LessFacts DEF NoEntry
<1>4. \A r \in Repos : C[r] \in Coordinators /\ C[r].refs = g.coords[r].refs - Uses(T, TreesOf(r))
                       /\ C[r].gate = g.coords[r].gate /\ C[r].epoch = g.coords[r].epoch
  <2> SUFFICES ASSUME NEW r \in Repos
               PROVE  C[r] \in Coordinators /\ C[r].refs = g.coords[r].refs - Uses(T, TreesOf(r))
                      /\ C[r].gate = g.coords[r].gate /\ C[r].epoch = g.coords[r].epoch
    OBVIOUS
  <2> DEFINE n == Less(g.coords[r].refs, Uses(T, TreesOf(r)))
  <2>1. g.coords[r] \in Coordinators /\ g.coords[r].refs \in Nat BY <1>2 DEF Coordinators
  <2>2. n \in Nat /\ n = g.coords[r].refs - Uses(T, TreesOf(r))
    BY <1>1, <2>1, LessFacts DEF Exact
  <2>3. C[r] = [g.coords[r] EXCEPT !.refs = n] OBVIOUS
  <2> HIDE DEF n, C
  <2> QED BY <2>1, <2>2, <2>3 DEF Coordinators
<1>5. q = [g EXCEPT !.trees = A, !.coords = C] BY DEF Released
<1>6. A \in [Worktrees -> Nat \cup {NoEntry}] /\ C \in [Repos -> Coordinators] BY <1>3, <1>4
<1> HIDE DEF A, C, q
<1>7. q.trees = A /\ q.coords = C /\ q \in Registries BY <1>2, <1>5, <1>6 DEF Registries
<1>8. SameCoords(g, q) BY <1>4, <1>7 DEF SameCoords
<1>9. \A w \in Worktrees : Uses(R \ T, {w}) = Counted(q, w)
  <2> SUFFICES ASSUME NEW w \in Worktrees PROVE Uses(R \ T, {w}) = Counted(q, w) OBVIOUS
  <2>1. Uses(R, {w}) = Counted(g, w) BY DEF Exact
  <2>2. CASE g.trees[w] = NoEntry
    <3>1. Uses(R, {w}) = 0 BY <2>1, <2>2 DEF Counted
    <3>2. Uses(T, {w}) \in Nat /\ Uses(T, {w}) <= Uses(R, {w})
          /\ Uses(R \ T, {w}) = Uses(R, {w}) - Uses(T, {w})
      BY <1>1
    <3>3. Uses(R \ T, {w}) = 0 BY <3>1, <3>2
    <3> QED BY <1>3, <1>7, <2>2, <3>3 DEF Counted
  <2>3. CASE g.trees[w] # NoEntry BY <1>1, <1>3, <1>7, <2>1, <2>3 DEF Counted
  <2> QED BY <2>2, <2>3
<1>10. \A r \in Repos : q.coords[r].refs = Uses(R \ T, TreesOf(r)) BY <1>1, <1>4, <1>7 DEF Exact
<1> QED BY <1>0, <1>3, <1>7, <1>8, <1>9, <1>10 DEF Exact, q

\* Only a gate changes.
WithGate(g, r, n) == [g EXCEPT !.coords[r].gate = n]

\* ... so the references and the other gates stay.
LEMMA SetGateFacts ==
    ASSUME NEW g \in Registries, NEW r \in Repos, NEW n \in Gates
    PROVE  /\ WithGate(g, r, n) \in Registries /\ WithGate(g, r, n).coords[r].gate = n
           /\ \A s \in Repos :
                 /\ s # r => WithGate(g, r, n).coords[s].gate = g.coords[s].gate
                 /\ WithGate(g, r, n).coords[s].epoch = g.coords[s].epoch
                 /\ WithGate(g, r, n).coords[s].refs = g.coords[s].refs
           /\ WithGate(g, r, n).trees = g.trees /\ WithGate(g, r, n).incomplete = g.incomplete
           /\ \A R : Exact(g, R) => Exact(WithGate(g, r, n), R)
<1> DEFINE q == WithGate(g, r, n)
           c == [g.coords[r] EXCEPT !.gate = n]
           C == [g.coords EXCEPT ![r] = c]
<1>1. g.trees \in [Worktrees -> Nat \cup {NoEntry}] /\ g.coords \in [Repos -> Coordinators]
      /\ g.incomplete \in BOOLEAN /\ g.coords[r] \in Coordinators
  BY DEF Registries
<1>2. c \in Coordinators /\ c.gate = n /\ c.epoch = g.coords[r].epoch /\ c.refs = g.coords[r].refs
  BY <1>1 DEF Coordinators
<1>3. q = [g EXCEPT !.coords = C] BY DEF WithGate
<1> HIDE DEF c
<1>4. C \in [Repos -> Coordinators] /\ C[r] = c /\ \A s \in Repos : s # r => C[s] = g.coords[s]
  BY <1>1, <1>2
<1> HIDE DEF C, q
<1>5. q.trees = g.trees /\ q.coords = C /\ q.incomplete = g.incomplete /\ q \in Registries
  BY <1>1, <1>3, <1>4 DEF Registries
<1>6. \A s \in Repos : /\ s # r => q.coords[s].gate = g.coords[s].gate
                       /\ q.coords[s].epoch = g.coords[s].epoch
                       /\ q.coords[s].refs = g.coords[s].refs
  BY <1>2, <1>4, <1>5
<1>7. \A R : Exact(g, R) => Exact(q, R) BY <1>5, <1>6 DEF Exact, Counted
<1> QED BY <1>2, <1>4, <1>5, <1>6, <1>7 DEF q

\* Only an epoch changes.
LEMMA BumpFacts ==
    ASSUME NEW g \in Registries, NEW w \in Worktrees
    PROVE  /\ Bump(g, w) \in Registries
           /\ Bump(g, w).coords[RepoOf[w]].epoch = g.coords[RepoOf[w]].epoch + 1
           /\ \A s \in Repos : /\ Bump(g, w).coords[s].gate = g.coords[s].gate
                               /\ s # RepoOf[w] => Bump(g, w).coords[s].epoch = g.coords[s].epoch
                               /\ Bump(g, w).coords[s].refs = g.coords[s].refs
           /\ Bump(g, w).trees = g.trees
           /\ \A R : Exact(g, R) => Exact(Bump(g, w), R)
<1> DEFINE r == RepoOf[w]
           q == Bump(g, w)
           n == g.coords[r].epoch + 1
           c == [g.coords[r] EXCEPT !.epoch = n]
           C == [g.coords EXCEPT ![r] = c]
<1>0. r \in Repos BY GitConstants
<1>1. g.trees \in [Worktrees -> Nat \cup {NoEntry}] /\ g.coords \in [Repos -> Coordinators]
      /\ g.incomplete \in BOOLEAN /\ g.coords[r] \in Coordinators
  BY <1>0 DEF Registries
<1>2. n \in Nat BY <1>1 DEF Coordinators
<1>3. q = [g EXCEPT !.coords = C] BY DEF Bump
<1> HIDE DEF n
<1>4. c \in Coordinators /\ c.gate = g.coords[r].gate /\ c.epoch = n /\ c.refs = g.coords[r].refs
  BY <1>1, <1>2 DEF Coordinators
<1> HIDE DEF c
<1>5. C \in [Repos -> Coordinators] /\ C[r] = c /\ \A s \in Repos : s # r => C[s] = g.coords[s]
  BY <1>0, <1>1, <1>4
<1> HIDE DEF C, q
<1>6. q.trees = g.trees /\ q.coords = C /\ q \in Registries
  BY <1>1, <1>3, <1>5 DEF Registries
<1>7. \A s \in Repos : /\ q.coords[s].gate = g.coords[s].gate
                       /\ s # r => q.coords[s].epoch = g.coords[s].epoch
                       /\ q.coords[s].refs = g.coords[s].refs
  BY <1>4, <1>5, <1>6
<1>8. \A R : Exact(g, R) => Exact(q, R) BY <1>6, <1>7 DEF Exact, Counted
<1> QED BY <1>4, <1>5, <1>6, <1>7, <1>8 DEF q, n

----------------------------------------------------------------------------
(* What the state of a handler says of its gates and references. *)

Keys == [tree : Worktrees, content : Contents]

HandlerRecs == [pc : Phases, kind : {"read", "mutation", "delete", "files"}, tree : Worktrees,
                queued : BOOLEAN, epoch : Nat, pin : SUBSET Keys, over : SUBSET Worktrees,
                todo : SUBSET Worktrees, ids : SUBSET Worktrees, locked : SUBSET Worktrees]

\* the phases in which a handler waits for the topology gate
Asking == {"resolve", "retain", "enter", "coordinate"}

\* it changes the topology, or holds the topology gate to change it
Coordinating(t) ==
    \/ t.pc \in {"coordinate", "scan", "lockNext", "lockWait", "effect", "unlock"}
    \/ t.pc = "reload" /\ t.kind # "mutation"

\* it has asked for the gate of the repository of its tree
Leasing(t) == t.pc \in {"gate", "work", "release"} \/ (t.pc = "reload" /\ t.kind = "mutation")

TopMode(t) ==
    IF Coordinating(t) THEN "write"
    ELSE IF Leasing(t) \/ t.pc \in {"resolve", "retain", "enter", "unretain"} THEN "read" ELSE "out"

\* the worktrees by which it has asked for the gates of repositories to change
Taken(t) == t.locked \cup (IF t.pc = "lockWait" THEN {First(t.ids \ t.locked)} ELSE {})

RepoMode(t, r) ==
    IF r \in ReposOf(Taken(t)) \/ (Leasing(t) /\ t.kind = "mutation" /\ RepoOf[t.tree] = r)
    THEN "write"
    ELSE IF Leasing(t) /\ RepoOf[t.tree] = r THEN "read" ELSE "out"

TopModes(hs) == [h \in Handlers |-> TopMode(hs[h])]
RepoModes(hs, r) == [h \in Handlers |-> RepoMode(hs[h], r)]

\* the worktrees whose entries it keeps
Held(t) == Taken(t) \cup (IF Leasing(t) \/ t.pc = "unretain" THEN {t.tree} ELSE {})

HandlerRefs(hs) == UNION {{ByHandler(h, w) : w \in Held(hs[h])} : h \in Handlers}
SessionRefs(rf) == UNION {{BySession(s, w) : w \in rf[s]} : s \in Sessions}
SnapshotRefs(st) == UNION {{BySnapshot(s, x) : x \in st[s]} : s \in Sessions}

Refs(hs, rf, st) == HandlerRefs(hs) \cup SessionRefs(rf) \cup SnapshotRefs(st)

\* how the fields of a handler go together
RecOK(t) ==
    /\ t.locked \subseteq t.ids
    /\ \A v, w \in t.ids : RepoOf[v] = RepoOf[w] => v = w
    /\ t.locked # {} => Coordinating(t) /\ t.pc \notin {"coordinate", "scan"}
    /\ t.pc = "lockWait" => t.ids \ t.locked # {}
    /\ t.pin # {} => t.pc = "release"
    /\ \A k \in t.pin : k.tree = t.tree
    /\ Coordinating(t) => t.kind \in {"delete", "files"}
    /\ t.pc \in {"effect", "reload"} /\ Coordinating(t) => t.ids = t.locked
    /\ Coordinating(t) /\ t.pc \notin {"coordinate", "scan", "unlock"} => t.todo = {}

\* the topology gate agrees with the handlers
TopInv(g, hs) ==
    /\ GateOK(g, TopModes(hs))
    /\ \A c \in Waiters(g) : hs[c].pc \in Asking

\* and so do the gates of the repositories
GatesInv(reg, hs) ==
    \A r \in Repos :
        /\ GateOK(reg.coords[r].gate, RepoModes(hs, r))
        /\ \A c \in Waiters(reg.coords[r].gate) : hs[c].pc = "gate"

HandlersOK(hs) == hs \in [Handlers -> HandlerRecs] /\ \A h \in Handlers : RecOK(hs[h])

StoresOK(st) ==
    /\ st \in [Sessions -> SUBSET Snapshots]
    /\ \A s \in Sessions : \A x, y \in st[s] : Key(x) = Key(y) => x = y

\* Every non-empty set of natural numbers has a least element.
LEMMA LeastElement ==
    ASSUME NEW T \in SUBSET Nat, T # {}
    PROVE  \E m \in T : \A t \in T : m <= t
<1>1. \E m \in T : \A t \in T : ~ (<<t, m>> \in OpToRel(<, Nat))
  BY NatLessThanWellFounded, WFMin
<1>2. ASSUME NEW m \in T, NEW t \in T, ~ (<<t, m>> \in OpToRel(<, Nat)) PROVE m <= t
  BY <1>2 DEF OpToRel
<1> QED BY <1>1, <1>2

\* The order of the repositories.
LEMMA FirstIn ==
    ASSUME NEW ws \in SUBSET Worktrees, ws # {}
    PROVE  First(ws) \in ws
<1> DEFINE T == {RepoOf[w] : w \in ws}
<1>1. T \in SUBSET Nat /\ T # {} BY GitConstants
<1> HIDE DEF T
<1>4. PICK m \in T : \A t \in T : m <= t BY <1>1, LeastElement
<1>5. PICK w \in ws : RepoOf[w] = m BY DEF T
<1>6. \A v \in ws : RepoOf[w] <= RepoOf[v] BY <1>4, <1>5 DEF T
<1> QED BY <1>5, <1>6 DEF First

\* A finite set of worktrees has one of the last repository: else each of its
\* subsets would have a proper subset without one, of one worktree less.
LEMMA LastIn ==
    ASSUME NEW ws \in SUBSET Worktrees, ws # {}
    PROVE  Last(ws) \in ws
<1> DEFINE Greatest(T, w) == w \in T /\ \A v \in T : RepoOf[v] <= RepoOf[w]
           B == {n \in Nat : \E T \in SUBSET ws : T # {} /\ Cardinality(T) = n
                                                 /\ ~ \E w \in T : Greatest(T, w)}
<1>1. \A T \in SUBSET ws : IsFiniteSet(T) /\ Cardinality(T) \in Nat
  BY GitConstants, FS_Subset, FS_CardinalityType
<1>2. \A w \in ws : RepoOf[w] \in Nat BY GitConstants
<1>3. B = {}
  <2> SUFFICES ASSUME B # {} PROVE FALSE OBVIOUS
  <2>1. B \in SUBSET Nat OBVIOUS
  <2> HIDE DEF B
  <2>4. PICK m \in B : \A n \in B : m <= n BY <2>1, LeastElement
  <2>5. PICK T \in SUBSET ws : T # {} /\ Cardinality(T) = m /\ ~ \E w \in T : Greatest(T, w)
    BY DEF B
  <2>6. PICK x \in T : TRUE BY <2>5
  <2> DEFINE S == T \ {x}
  <2>7. Cardinality(S) = m - 1 /\ Cardinality(S) \in Nat /\ S \in SUBSET ws
    BY <1>1, <2>5, <2>6, FS_RemoveElement
  <2>8. S # {}
    <3> SUFFICES ASSUME S = {} PROVE FALSE OBVIOUS
    <3>1. T = {x} BY <2>6
    <3> QED BY <1>2, <2>5, <3>1
  <2>9. Cardinality(S) \notin B BY <2>1, <2>4, <2>7
  <2>10. PICK y \in S : Greatest(S, y) BY <2>7, <2>8, <2>9 DEF B
  <2>11. Greatest(T, x) \/ Greatest(T, y) BY <1>2, <2>6, <2>10
  <2> QED BY <2>5, <2>10, <2>11
<1>4. Cardinality(ws) \notin B BY <1>3
<1> HIDE DEF B
<1>5. PICK w \in ws : Greatest(ws, w) BY <1>1, <1>4 DEF B
<1> QED BY <1>5 DEF Last

\* Modes are modes.
LEMMA ModesType ==
    ASSUME NEW hs, NEW r
    PROVE  TopModes(hs) \in Modes /\ RepoModes(hs, r) \in Modes
BY DEF TopModes, TopMode, RepoModes, RepoMode, Modes

\* The operators of the model in these terms.
LEMMA HoldsIsHeld ==
    ASSUME NEW h \in Handlers
    PROVE  Holds(h) = Held(handlers[h]) /\ (HasLease(h) => Leasing(handlers[h]))
BY DEF Holds, Held, Taken, HasLease, Leasing, NextId, Unlocked, At, Tree, Writes

\* References of the model, as a function of handlers, sessions and stores.
LEMMA ReferencesAreRefs == References = Refs(handlers, refs, store)
<1> DEFINE U == UNION {{ByHandler(h, w) : w \in Holds(h)} : h \in Handlers}
<1>1. U = HandlerRefs(handlers)
  <2>1. ASSUME NEW p PROVE p \in U <=> \E h \in Handlers : \E w \in Holds(h) : p = ByHandler(h, w)
    OBVIOUS
  <2>2. ASSUME NEW p
        PROVE  p \in HandlerRefs(handlers)
                  <=> \E h \in Handlers : \E w \in Held(handlers[h]) : p = ByHandler(h, w)
    BY DEF HandlerRefs
  <2> HIDE DEF U
  <2>3. \A h \in Handlers : Holds(h) = Held(handlers[h]) BY HoldsIsHeld
  <2>4. ASSUME NEW p PROVE p \in U <=> p \in HandlerRefs(handlers) BY <2>1, <2>2, <2>3, Zenon
  <2> QED BY <2>4
<1> DEFINE B == UNION {{BySession(s, w) : w \in refs[s]} : s \in Sessions}
           C == UNION {{BySnapshot(s, x) : x \in store[s]} : s \in Sessions}
<1>2. B = SessionRefs(refs) BY DEF SessionRefs
<1>3. C = SnapshotRefs(store) BY DEF SnapshotRefs
<1>4. References = (U \cup B) \cup C BY DEF References
<1> HIDE DEF U, B, C
<1> QED BY <1>1, <1>2, <1>3, <1>4 DEF Refs

\* The worktrees a handler has taken are worktrees.
LEMMA TakenType ==
    ASSUME NEW t \in HandlerRecs, RecOK(t)
    PROVE  /\ Taken(t) \subseteq t.ids /\ Taken(t) \in SUBSET Worktrees
           /\ Held(t) \in SUBSET Worktrees
           /\ Taken(t) # {} => ~Leasing(t) /\ Coordinating(t)
           /\ Leasing(t) => Held(t) = {t.tree}
<1>1. t.ids \in SUBSET Worktrees /\ t.tree \in Worktrees BY DEF HandlerRecs
<1>2. CASE t.pc = "lockWait"
  <2>1. First(t.ids \ t.locked) \in t.ids BY <1>1, <1>2, FirstIn DEF RecOK
  <2> QED BY <1>1, <1>2, <2>1 DEF Taken, Held, Leasing, Coordinating, RecOK
<1>3. CASE t.pc # "lockWait"
  BY <1>1, <1>3 DEF Taken, Held, Leasing, Coordinating, RecOK
<1> QED BY <1>2, <1>3

\* The members of Refs.
LEMMA HandlerRefsMembers ==
    ASSUME NEW hs, NEW p
    PROVE  p \in HandlerRefs(hs) <=> \E h \in Handlers : \E w \in Held(hs[h]) : p = ByHandler(h, w)
BY DEF HandlerRefs

\* ... of sessions, ...
LEMMA SessionRefsMembers ==
    ASSUME NEW rf, NEW p
    PROVE  p \in SessionRefs(rf) <=> \E s \in Sessions : \E w \in rf[s] : p = BySession(s, w)
BY DEF SessionRefs

\* ... and of snapshots.
LEMMA SnapshotRefsMembers ==
    ASSUME NEW st, NEW p
    PROVE  p \in SnapshotRefs(st) <=> \E s \in Sessions : \E x \in st[s] : p = BySnapshot(s, x)
BY DEF SnapshotRefs

\* Whoever wants the gate of a repository keeps its coordinator.
LEMMA Wanted ==
    ASSUME NEW reg \in Registries, NEW hs, HandlersOK(hs), NEW rf, NEW st,
           Exact(reg, Refs(hs, rf, st)), NEW h \in Handlers, NEW r, RepoMode(hs[h], r) # "out"
    PROVE  /\ reg.coords[r].refs > 0 /\ TopMode(hs[h]) # "out" /\ hs[h].pc \notin Asking
           /\ r \in Repos
<1>0. hs[h] \in HandlerRecs /\ RecOK(hs[h]) BY DEF HandlersOK
<1>1. PICK w \in Held(hs[h]) : RepoOf[w] = r
  BY <1>0 DEF RepoMode, Held, ReposOf
<1>2. w \in Worktrees BY <1>0, TakenType
<1>3. ByHandler(h, w) \in Refs(hs, rf, st) BY HandlerRefsMembers DEF Refs
<1>4. ByHandler(h, w)[2] = w BY DEF ByHandler
<1>5. reg.coords[RepoOf[w]].refs > 0 /\ RepoOf[w] \in Repos
  BY <1>2, <1>3, <1>4, ReferencedCoord
<1>6. Leasing(hs[h]) \/ Taken(hs[h]) # {} BY DEF RepoMode, ReposOf
<1>7. CASE Leasing(hs[h]) BY <1>1, <1>5, <1>7 DEF Leasing, TopMode, Asking
<1>8. CASE Taken(hs[h]) # {}
  <2>1. Coordinating(hs[h]) /\ ~Leasing(hs[h]) BY <1>0, <1>8, TakenType
  <2>2. TopMode(hs[h]) = "write" BY <2>1 DEF TopMode
  <2>3. hs[h].pc \notin {"resolve", "retain", "enter"} BY <2>1 DEF Coordinating
  <2>4. hs[h].pc # "coordinate"
    <3> SUFFICES ASSUME hs[h].pc = "coordinate" PROVE FALSE OBVIOUS
    <3>1. Taken(hs[h]) = hs[h].locked BY DEF Taken
    <3> QED BY <1>0, <1>8, <3>1 DEF RecOK
  <2> QED BY <1>1, <1>5, <2>2, <2>3, <2>4 DEF Asking
<1> QED BY <1>6, <1>7, <1>8

\* Whoever has the topology gate to itself is alone with the repositories.
LEMMA LoneWriter ==
    ASSUME NEW g, NEW hs, HandlersOK(hs), TopInv(g, hs), NEW h \in Handlers,
           Coordinating(hs[h]), h \notin Waiters(g), NEW i \in Handlers, i # h
    PROVE  /\ hs[i].pc \in {"idle", "session", "lease", "mark"} \cup Asking
           /\ hs[i].locked = {} /\ hs[i].pin = {} /\ Taken(hs[i]) = {} /\ ~Leasing(hs[i])
           /\ \A r : RepoMode(hs[i], r) = "out"
<1> DEFINE e == TopModes(hs)
<1>0. hs[i] \in HandlerRecs /\ RecOK(hs[i]) BY DEF HandlersOK
<1>1. e[h] = "write" /\ e[i] = TopMode(hs[i]) BY DEF TopModes, TopMode
<1>2. h \in Inside(g, e) BY <1>1 DEF Inside
<1>3. i \notin Inside(g, e) BY <1>1, <1>2 DEF TopInv, GateOK, AloneOK
<1>4. TopMode(hs[i]) = "out" \/ hs[i].pc \in Asking BY <1>1, <1>3 DEF Inside, TopInv
<1>5. hs[i].pc \in Phases BY <1>0 DEF HandlerRecs
<1>6. hs[i].pc \in {"idle", "session", "lease", "mark"} \cup Asking
  BY <1>4, <1>5 DEF TopMode, Coordinating, Leasing, Phases, Asking
<1>7. ~Leasing(hs[i]) /\ hs[i].pc \notin {"release", "lockWait"} BY <1>6 DEF Leasing, Asking
<1>8. ~(Coordinating(hs[i]) /\ hs[i].pc \notin {"coordinate", "scan"})
  BY <1>6 DEF Coordinating, Asking
<1>9. hs[i].locked = {} /\ hs[i].pin = {} BY <1>0, <1>7, <1>8 DEF RecOK
<1>10. Taken(hs[i]) = {} BY <1>7, <1>9 DEF Taken
<1> QED BY <1>6, <1>7, <1>9, <1>10 DEF RepoMode, ReposOf

----------------------------------------------------------------------------
(* One handler goes from one state to another. *)

Put(hs, h, u) == [hs EXCEPT ![h] = u]

\* it wants the same of the topology gate, or of the gates of repositories
SameTop(t, u) == TopMode(u) = TopMode(t) /\ (t.pc \in Asking => u.pc \in Asking)
SameRepos(t, u) == \A r : RepoMode(u, r) = RepoMode(t, r)

\* The modes change where the handler does.
LEMMA PutModes ==
    ASSUME NEW hs, HandlersOK(hs), NEW h \in Handlers, NEW u
    PROVE  /\ TopModes(Put(hs, h, u)) = [TopModes(hs) EXCEPT ![h] = TopMode(u)]
           /\ \A r : RepoModes(Put(hs, h, u), r) = [RepoModes(hs, r) EXCEPT ![h] = RepoMode(u, r)]
           /\ Put(hs, h, u)[h] = u /\ \A i \in Handlers \ {h} : Put(hs, h, u)[i] = hs[i]
           /\ TopModes(hs)[h] = TopMode(hs[h])
           /\ \A r : RepoModes(hs, r)[h] = RepoMode(hs[h], r)
           /\ u \in HandlerRecs /\ RecOK(u) => HandlersOK(Put(hs, h, u))
<1> DEFINE p == Put(hs, h, u)
<1>1. DOMAIN hs = Handlers BY DEF HandlersOK
<1>2. p[h] = u /\ \A i \in Handlers \ {h} : p[i] = hs[i] BY <1>1 DEF Put
<1>3. TopModes(p) = [TopModes(hs) EXCEPT ![h] = TopMode(u)] BY <1>2, Zenon DEF TopModes
<1>4. ASSUME NEW r PROVE RepoModes(p, r) = [RepoModes(hs, r) EXCEPT ![h] = RepoMode(u, r)]
  BY <1>2, Zenon DEF RepoModes
<1>5. TopModes(hs)[h] = TopMode(hs[h]) /\ \A r : RepoModes(hs, r)[h] = RepoMode(hs[h], r)
  BY DEF TopModes, RepoModes
<1>6. ASSUME u \in HandlerRecs, RecOK(u) PROVE HandlersOK(p)
  <2>1. hs \in [Handlers -> HandlerRecs] BY DEF HandlersOK
  <2>2. p \in [Handlers -> HandlerRecs] BY <1>6, <2>1 DEF Put
  <2>3. \A i \in Handlers : RecOK(p[i])
    <3> SUFFICES ASSUME NEW i \in Handlers PROVE RecOK(p[i]) OBVIOUS
    <3>1. CASE i = h BY <1>2, <1>6, <3>1
    <3>2. CASE i # h BY <1>2, <3>2 DEF HandlersOK
    <3> QED BY <3>1, <3>2
  <2> QED BY <2>2, <2>3 DEF HandlersOK
<1> QED BY <1>2, <1>3, <1>4, <1>5, <1>6

\* The topology gate.
LEMMA TopStay ==
    ASSUME NEW g, NEW hs, HandlersOK(hs), TopInv(g, hs), NEW h \in Handlers, NEW u,
           TopMode(u) = TopMode(hs[h]),
           h \notin Waiters(g) \/ (hs[h].pc \in Asking => u.pc \in Asking)
    PROVE  TopInv(g, Put(hs, h, u))
<1>1. TopModes(Put(hs, h, u)) = TopModes(hs)
  <2>1. TopModes(Put(hs, h, u)) = [TopModes(hs) EXCEPT ![h] = TopMode(u)]
        /\ TopModes(hs)[h] = TopMode(hs[h]) /\ TopModes(hs) \in Modes
    BY PutModes, ModesType
  <2> QED BY <2>1 DEF Modes
<1>2. ASSUME NEW c \in Waiters(g) PROVE Put(hs, h, u)[c].pc \in Asking
  <2>1. c \in Handlers BY DEF TopInv, GateOK, Gates, Waiters
  <2> QED BY <1>2, <2>1, PutModes DEF TopInv
<1> QED BY <1>1, <1>2 DEF TopInv

\* A handler asks for the topology gate, ...
LEMMA TopAsk ==
    ASSUME NEW g, NEW hs, HandlersOK(hs), TopInv(g, hs), NEW h \in Handlers, NEW u,
           TopMode(hs[h]) = "out", NEW write \in BOOLEAN, TopMode(u) = Mode(write),
           u.pc \in Asking
    PROVE  TopInv(Ask(g, h, write), Put(hs, h, u))
<1> DEFINE n == Ask(g, h, write)
<1>1. TopModes(hs) \in Modes /\ TopModes(hs)[h] = "out" BY ModesType, PutModes
<1>2. GateOK(n, [TopModes(hs) EXCEPT ![h] = Mode(write)]) /\ Waiters(n) \subseteq Waiters(g) \cup {h}
  BY <1>1, AskOK DEF TopInv
<1>3. GateOK(n, TopModes(Put(hs, h, u))) BY <1>2, PutModes
<1>4. ASSUME NEW c \in Waiters(n) PROVE Put(hs, h, u)[c].pc \in Asking
  <2>1. c \in Handlers BY <1>2 DEF GateOK, Gates, Waiters
  <2>2. CASE c = h BY <2>2, PutModes
  <2>3. CASE c # h BY <1>2, <2>1, <2>3, PutModes DEF TopInv
  <2> QED BY <2>2, <2>3
<1> QED BY <1>3, <1>4 DEF TopInv

\* ... leaves it, ...
LEMMA TopLeave ==
    ASSUME NEW g, NEW hs, HandlersOK(hs), TopInv(g, hs), NEW h \in Handlers, NEW u,
           h \notin Waiters(g), NEW write \in BOOLEAN, TopMode(hs[h]) = Mode(write),
           TopMode(u) = "out"
    PROVE  TopInv(release(g, write), Put(hs, h, u))
<1> DEFINE n == release(g, write)
<1>1. TopModes(hs) \in Modes /\ TopModes(hs)[h] = Mode(write) BY ModesType, PutModes
<1>2. h \in Inside(g, TopModes(hs)) BY <1>1 DEF Inside, Mode
<1>3. GateOK(n, [TopModes(hs) EXCEPT ![h] = "out"]) /\ Waiters(n) \subseteq Waiters(g)
  BY <1>1, <1>2, ReleaseOK DEF TopInv
<1>4. GateOK(n, TopModes(Put(hs, h, u))) BY <1>3, PutModes
<1>5. ASSUME NEW c \in Waiters(n) PROVE Put(hs, h, u)[c].pc \in Asking
  <2>1. c \in Handlers /\ c # h BY <1>3 DEF GateOK, Gates, Waiters
  <2> QED BY <1>3, <2>1, PutModes DEF TopInv
<1> QED BY <1>4, <1>5 DEF TopInv

\* ... or gives up waiting for it.
LEMMA TopGiveUp ==
    ASSUME NEW g, NEW hs, HandlersOK(hs), TopInv(g, hs), NEW h \in Handlers, NEW u,
           NEW write \in BOOLEAN, TopMode(hs[h]) = Mode(write), TopMode(u) = "out"
    PROVE  TopInv(GiveUp(g, h, write), Put(hs, h, u))
<1> DEFINE n == GiveUp(g, h, write)
<1>1. TopModes(hs) \in Modes /\ TopModes(hs)[h] = Mode(write) BY ModesType, PutModes
<1>2. GateOK(n, [TopModes(hs) EXCEPT ![h] = "out"]) /\ Waiters(n) \subseteq Waiters(g) \ {h}
  BY <1>1, GiveUpOK DEF TopInv
<1>3. GateOK(n, TopModes(Put(hs, h, u))) BY <1>2, PutModes
<1>4. ASSUME NEW c \in Waiters(n) PROVE Put(hs, h, u)[c].pc \in Asking
  <2>1. c \in Handlers /\ c # h BY <1>2 DEF GateOK, Gates, Waiters
  <2> QED BY <1>2, <2>1, PutModes DEF TopInv
<1> QED BY <1>3, <1>4 DEF TopInv

\* The gates of the repositories.  One whose coordinator was replaced is new,
\* and nobody wanted it.
KeepsGates(g, q) ==
    \A r \in Repos : \/ q.coords[r].gate = g.coords[r].gate
                     \/ g.coords[r].refs = 0 /\ q.coords[r].gate = NewGate

\* A handler moves and wants the same of the repositories.
LEMMA GatesStay ==
    ASSUME NEW reg \in Registries, NEW hs, HandlersOK(hs), NEW rf, NEW st,
           Exact(reg, Refs(hs, rf, st)), GatesInv(reg, hs), NEW q, KeepsGates(reg, q),
           NEW h \in Handlers, NEW u, SameRepos(hs[h], u),
           hs[h].pc = "gate" =>
              u.pc = "gate" \/ \A r \in Repos : h \notin Waiters(reg.coords[r].gate)
    PROVE  GatesInv(q, Put(hs, h, u))
<1> SUFFICES ASSUME NEW r \in Repos
             PROVE  /\ GateOK(q.coords[r].gate, RepoModes(Put(hs, h, u), r))
                    /\ \A c \in Waiters(q.coords[r].gate) : Put(hs, h, u)[c].pc = "gate"
  BY DEF GatesInv
<1>1. RepoModes(Put(hs, h, u), r) = RepoModes(hs, r) BY PutModes DEF SameRepos, RepoModes
<1>2. GateOK(reg.coords[r].gate, RepoModes(hs, r)) /\ RepoModes(hs, r) \in Modes
      /\ \A c \in Waiters(reg.coords[r].gate) : hs[c].pc = "gate"
  BY ModesType DEF GatesInv
<1>3. CASE q.coords[r].gate = reg.coords[r].gate
  <2>1. \A c \in Waiters(q.coords[r].gate) : c \in Handlers
    BY <1>2, <1>3 DEF GateOK, Gates, Waiters
  <2> QED BY <1>1, <1>2, <1>3, <2>1, PutModes
<1>4. CASE reg.coords[r].refs = 0 /\ q.coords[r].gate = NewGate
  <2>1. \A c \in Handlers : RepoMode(hs[c], r) = "out" BY <1>4, Wanted
  <2>2. \A c \in Handlers : RepoModes(hs, r)[c] = "out" BY <2>1 DEF RepoModes
  <2>3. Waiters(NewGate) = {} BY DEF NewGate, Waiters
  <2> QED BY <1>1, <1>2, <1>4, <2>2, <2>3, NewGateOK
<1> QED BY <1>3, <1>4 DEF KeepsGates

\* It asks for the gate of r, ...
LEMMA GatesAsk ==
    ASSUME NEW reg \in Registries, NEW hs, HandlersOK(hs), GatesInv(reg, hs), NEW q,
           NEW w \in Worktrees, NEW h \in Handlers, NEW u, NEW write \in BOOLEAN,
           q.coords[RepoOf[w]].gate = Ask(reg.coords[RepoOf[w]].gate, h, write),
           \A s \in Repos \ {RepoOf[w]} : q.coords[s].gate = reg.coords[s].gate,
           RepoMode(hs[h], RepoOf[w]) = "out", RepoMode(u, RepoOf[w]) = Mode(write),
           \A s \in Repos \ {RepoOf[w]} : RepoMode(u, s) = RepoMode(hs[h], s),
           hs[h].pc # "gate",
           u.pc = "gate" \/ canAcquireImmediately(reg.coords[RepoOf[w]].gate, write)
    PROVE  GatesInv(q, Put(hs, h, u))
<1> DEFINE p == Put(hs, h, u)
<1> SUFFICES ASSUME NEW r \in Repos
             PROVE  /\ GateOK(q.coords[r].gate, RepoModes(p, r))
                    /\ \A c \in Waiters(q.coords[r].gate) : p[c].pc = "gate"
  BY DEF GatesInv
<1>1. RepoModes(p, r) = [RepoModes(hs, r) EXCEPT ![h] = RepoMode(u, r)]
      /\ RepoModes(hs, r)[h] = RepoMode(hs[h], r) /\ p[h] = u
      /\ \A i \in Handlers \ {h} : p[i] = hs[i]
  BY PutModes
<1>2. GateOK(reg.coords[r].gate, RepoModes(hs, r)) /\ RepoModes(hs, r) \in Modes
      /\ \A c \in Waiters(reg.coords[r].gate) : hs[c].pc = "gate" /\ c \in Handlers
  BY ModesType DEF GatesInv, GateOK, Gates, Waiters
<1>3. CASE r # RepoOf[w]
  <2>1. RepoModes(p, r) = RepoModes(hs, r) BY <1>1, <1>2, <1>3 DEF Modes
  <2>2. \A c \in Waiters(reg.coords[r].gate) : c # h BY <1>2
  <2> QED BY <1>1, <1>2, <1>3, <2>1, <2>2
<1>4. CASE r = RepoOf[w]
  <2> DEFINE g == reg.coords[r].gate
             n == Ask(g, h, write)
  <2>1. /\ GateOK(n, [RepoModes(hs, r) EXCEPT ![h] = Mode(write)])
        /\ canAcquireImmediately(g, write) => Waiters(n) = {}
        /\ Waiters(n) \subseteq Waiters(g) \cup {h}
    BY <1>1, <1>2, <1>4, AskOK
  <2>2. q.coords[r].gate = n BY <1>4
  <2> HIDE DEF g, n
  <2>3. g = reg.coords[r].gate BY DEF g
  <2>4. ASSUME NEW c \in Waiters(n) PROVE p[c].pc = "gate"
    <3>1. u.pc = "gate" BY <1>4, <2>1, <2>3, <2>4
    <3>2. CASE c = h BY <1>1, <3>1, <3>2
    <3>3. CASE c # h BY <1>1, <1>2, <2>1, <2>3, <2>4, <3>3
    <3> QED BY <3>2, <3>3
  <2> QED BY <1>1, <1>4, <2>1, <2>2, <2>4
<1> QED BY <1>3, <1>4

\* ... leaves it, ...
LEMMA GatesLeave ==
    ASSUME NEW reg \in Registries, NEW hs, HandlersOK(hs), GatesInv(reg, hs), NEW q,
           NEW w \in Worktrees, NEW h \in Handlers, NEW u, NEW write \in BOOLEAN,
           q.coords[RepoOf[w]].gate = release(reg.coords[RepoOf[w]].gate, write),
           \A s \in Repos \ {RepoOf[w]} : q.coords[s].gate = reg.coords[s].gate,
           RepoMode(hs[h], RepoOf[w]) = Mode(write), RepoMode(u, RepoOf[w]) = "out",
           \A s \in Repos \ {RepoOf[w]} : RepoMode(u, s) = RepoMode(hs[h], s),
           hs[h].pc # "gate"
    PROVE  GatesInv(q, Put(hs, h, u))
<1> DEFINE p == Put(hs, h, u)
<1> SUFFICES ASSUME NEW r \in Repos
             PROVE  /\ GateOK(q.coords[r].gate, RepoModes(p, r))
                    /\ \A c \in Waiters(q.coords[r].gate) : p[c].pc = "gate"
  BY DEF GatesInv
<1>1. RepoModes(p, r) = [RepoModes(hs, r) EXCEPT ![h] = RepoMode(u, r)]
      /\ RepoModes(hs, r)[h] = RepoMode(hs[h], r) /\ p[h] = u
      /\ \A i \in Handlers \ {h} : p[i] = hs[i]
  BY PutModes
<1>2. GateOK(reg.coords[r].gate, RepoModes(hs, r)) /\ RepoModes(hs, r) \in Modes
      /\ \A c \in Waiters(reg.coords[r].gate) : hs[c].pc = "gate" /\ c \in Handlers /\ c # h
  BY ModesType DEF GatesInv, GateOK, Gates, Waiters
<1>3. CASE r # RepoOf[w]
  <2>1. RepoModes(p, r) = RepoModes(hs, r) BY <1>1, <1>2, <1>3 DEF Modes
  <2> QED BY <1>1, <1>2, <1>3, <2>1
<1>4. CASE r = RepoOf[w]
  <2> DEFINE g == reg.coords[r].gate
  <2>1. h \in Inside(g, RepoModes(hs, r)) BY <1>1, <1>2, <1>4 DEF Inside, Mode
  <2>2. /\ GateOK(release(g, write), [RepoModes(hs, r) EXCEPT ![h] = "out"])
        /\ Waiters(release(g, write)) \subseteq Waiters(g)
    BY <1>1, <1>2, <1>4, <2>1, ReleaseOK
  <2>3. q.coords[r].gate = release(g, write) BY <1>4
  <2> HIDE DEF g
  <2>4. g = reg.coords[r].gate BY DEF g
  <2> QED BY <1>1, <1>2, <1>4, <2>2, <2>3, <2>4
<1> QED BY <1>3, <1>4

\* ... or gives up waiting for it.
LEMMA GatesGiveUp ==
    ASSUME NEW reg \in Registries, NEW hs, HandlersOK(hs), GatesInv(reg, hs), NEW q,
           NEW w \in Worktrees, NEW h \in Handlers, NEW u, NEW write \in BOOLEAN,
           q.coords[RepoOf[w]].gate = GiveUp(reg.coords[RepoOf[w]].gate, h, write),
           \A s \in Repos \ {RepoOf[w]} : q.coords[s].gate = reg.coords[s].gate,
           RepoMode(hs[h], RepoOf[w]) = Mode(write), \A s \in Repos : RepoMode(u, s) = "out",
           \A s \in Repos \ {RepoOf[w]} : RepoMode(hs[h], s) = "out"
    PROVE  GatesInv(q, Put(hs, h, u))
<1> DEFINE p == Put(hs, h, u)
<1> SUFFICES ASSUME NEW r \in Repos
             PROVE  /\ GateOK(q.coords[r].gate, RepoModes(p, r))
                    /\ \A c \in Waiters(q.coords[r].gate) : p[c].pc = "gate"
  BY DEF GatesInv
<1>1. RepoModes(p, r) = [RepoModes(hs, r) EXCEPT ![h] = RepoMode(u, r)]
      /\ RepoModes(hs, r)[h] = RepoMode(hs[h], r) /\ p[h] = u
      /\ \A i \in Handlers \ {h} : p[i] = hs[i]
  BY PutModes
<1>2. GateOK(reg.coords[r].gate, RepoModes(hs, r)) /\ RepoModes(hs, r) \in Modes
      /\ \A c \in Waiters(reg.coords[r].gate) : hs[c].pc = "gate" /\ c \in Handlers
  BY ModesType DEF GatesInv, GateOK, Gates, Waiters
<1>3. CASE r # RepoOf[w]
  <2>1. RepoModes(p, r) = RepoModes(hs, r) BY <1>1, <1>2, <1>3 DEF Modes
  <2>2. RepoModes(hs, r)[h] = "out" BY <1>1, <1>3
  <2>3. \A c \in Waiters(reg.coords[r].gate) : RepoModes(hs, r)[c] \in {"read", "write"}
    BY <1>2 DEF GateOK, QueueOK, Waiters
  <2>4. \A c \in Waiters(reg.coords[r].gate) : c # h BY <2>2, <2>3
  <2> QED BY <1>1, <1>2, <1>3, <2>1, <2>4
<1>4. CASE r = RepoOf[w]
  <2> DEFINE g == reg.coords[r].gate
  <2>2. /\ GateOK(GiveUp(g, h, write), [RepoModes(hs, r) EXCEPT ![h] = "out"])
        /\ Waiters(GiveUp(g, h, write)) \subseteq Waiters(g) \ {h}
    BY <1>1, <1>2, <1>4, GiveUpOK
  <2>3. q.coords[r].gate = GiveUp(g, h, write) BY <1>4
  <2> HIDE DEF g
  <2>4. g = reg.coords[r].gate BY DEF g
  <2> QED BY <1>1, <1>2, <1>4, <2>2, <2>3, <2>4
<1> QED BY <1>3, <1>4

----------------------------------------------------------------------------
(* The references as one handler, session or store changes. *)

\* References of different keepers differ.
LEMMA RefsDiffer ==
    /\ \A h, s, w, v : ByHandler(h, w) # BySession(s, v)
    /\ \A h, s, w, x : ByHandler(h, w) # BySnapshot(s, x)
    /\ \A s, i, w, x : BySession(s, w) # BySnapshot(i, x)
    /\ \A h, i, w, v : ByHandler(h, w) = ByHandler(i, v) => h = i /\ w = v
    /\ \A s, i, w, v : BySession(s, w) = BySession(i, v) => s = i /\ w = v
    /\ \A s, i, x, y : BySnapshot(s, x) = BySnapshot(i, y) => s = i /\ x = y
    /\ \A h, w : ByHandler(h, w)[2] = w
    /\ \A s, w : BySession(s, w)[2] = w
    /\ \A s, x : BySnapshot(s, x)[2] = x.tree
BY DEF ByHandler, BySession, BySnapshot

\* A reference has a keeper of one kind.
LEMMA RefsApart ==
    ASSUME NEW hs, NEW rf, NEW st, NEW h, NEW s, NEW x, NEW w
    PROVE  /\ ByHandler(h, w) \notin SessionRefs(rf) \cup SnapshotRefs(st)
           /\ BySession(s, w) \notin HandlerRefs(hs) \cup SnapshotRefs(st)
           /\ BySnapshot(s, x) \notin HandlerRefs(hs) \cup SessionRefs(rf)
<1>1. ByHandler(h, w) \notin SessionRefs(rf) BY SessionRefsMembers, RefsDiffer
<1>2. ByHandler(h, w) \notin SnapshotRefs(st) BY SnapshotRefsMembers, RefsDiffer
<1>3. BySession(s, w) \notin HandlerRefs(hs) BY HandlerRefsMembers, RefsDiffer
<1>4. BySession(s, w) \notin SnapshotRefs(st) BY SnapshotRefsMembers, RefsDiffer
<1>5. BySnapshot(s, x) \notin HandlerRefs(hs) BY HandlerRefsMembers, RefsDiffer
<1>6. BySnapshot(s, x) \notin SessionRefs(rf) BY SessionRefsMembers, RefsDiffer
<1> QED BY <1>1, <1>2, <1>3, <1>4, <1>5, <1>6

\* A handler keeps the same entries, one more, or one less.
LEMMA RefsStay ==
    ASSUME NEW hs, HandlersOK(hs), NEW rf, NEW st, NEW h \in Handlers, NEW u,
           Held(u) = Held(hs[h])
    PROVE  Refs(Put(hs, h, u), rf, st) = Refs(hs, rf, st)
<1>1. Put(hs, h, u)[h] = u /\ \A i \in Handlers \ {h} : Put(hs, h, u)[i] = hs[i] BY PutModes
<1>2. ASSUME NEW i \in Handlers PROVE Held(Put(hs, h, u)[i]) = Held(hs[i])
  <2>1. CASE i = h BY <1>1, <2>1
  <2>2. CASE i # h
    <3>1. Put(hs, h, u)[i] = hs[i] BY <1>1, <2>2
    <3> QED BY <3>1
  <2> QED BY <2>1, <2>2
<1>3. ASSUME NEW p PROVE p \in HandlerRefs(Put(hs, h, u)) <=> p \in HandlerRefs(hs)
  <2>1. \A i \in Handlers : Held(Put(hs, h, u)[i]) = Held(hs[i]) BY <1>2
  <2>2. /\ p \in HandlerRefs(Put(hs, h, u))
              <=> \E i \in Handlers : \E w \in Held(Put(hs, h, u)[i]) : p = ByHandler(i, w)
        /\ p \in HandlerRefs(hs) <=> \E i \in Handlers : \E w \in Held(hs[i]) : p = ByHandler(i, w)
    BY HandlerRefsMembers
  <2> QED BY <2>1, <2>2, Zenon
<1>4. HandlerRefs(Put(hs, h, u)) = HandlerRefs(hs) BY <1>3
<1> QED BY <1>4 DEF Refs

\* ... one more: ...
LEMMA RefsTake ==
    ASSUME NEW hs, HandlersOK(hs), NEW rf, NEW st, NEW h \in Handlers, NEW u, NEW w,
           w \notin Held(hs[h]), Held(u) = Held(hs[h]) \cup {w}
    PROVE  /\ Refs(Put(hs, h, u), rf, st) = Refs(hs, rf, st) \cup {ByHandler(h, w)}
           /\ ByHandler(h, w) \notin Refs(hs, rf, st) /\ ByHandler(h, w)[2] = w
<1> DEFINE p == Put(hs, h, u)
<1>1. p[h] = u /\ \A i \in Handlers \ {h} : p[i] = hs[i] BY PutModes
<1> HIDE DEF p
<1>2. ASSUME NEW q PROVE q \in HandlerRefs(p) <=> q \in HandlerRefs(hs) \cup {ByHandler(h, w)}
  <2>1. ASSUME q \in HandlerRefs(p) PROVE q \in HandlerRefs(hs) \cup {ByHandler(h, w)}
    <3>0. PICK i \in Handlers : \E v \in Held(p[i]) : q = ByHandler(i, v)
      BY <2>1, HandlerRefsMembers
    <3>1. PICK v \in Held(p[i]) : q = ByHandler(i, v) BY <3>0
    <3>2. CASE i # h BY <1>1, <3>1, <3>2, HandlerRefsMembers
    <3>3. CASE i = h
      <4>1. v \in Held(hs[h]) \/ v = w BY <1>1, <3>1, <3>3
      <4> QED BY <3>1, <3>3, <4>1, HandlerRefsMembers
    <3> QED BY <3>2, <3>3
  <2>2. ASSUME q \in HandlerRefs(hs) PROVE q \in HandlerRefs(p)
    <3>0. PICK i \in Handlers : \E v \in Held(hs[i]) : q = ByHandler(i, v)
      BY <2>2, HandlerRefsMembers
    <3>1. PICK v \in Held(hs[i]) : q = ByHandler(i, v) BY <3>0
    <3>2. CASE i # h
      <4>1. p[i] = hs[i] BY <1>1, <3>2
      <4> QED BY <3>1, <4>1, HandlerRefsMembers
    <3>3. CASE i = h
      <4>1. v \in Held(p[h]) BY <1>1, <3>1, <3>3
      <4> QED BY <3>1, <3>3, <4>1, HandlerRefsMembers
    <3> QED BY <3>2, <3>3
  <2>3. w \in Held(p[h]) BY <1>1
  <2>4. ByHandler(h, w) \in HandlerRefs(p) BY <2>3, HandlerRefsMembers
  <2> QED BY <2>1, <2>2, <2>4
<1>3. ByHandler(h, w) \notin HandlerRefs(hs) BY HandlerRefsMembers, RefsDiffer
<1> QED BY <1>2, <1>3, RefsApart, RefsDiffer DEF Refs, p

\* ... one less.
LEMMA RefsDrop ==
    ASSUME NEW hs, HandlersOK(hs), NEW rf, NEW st, NEW h \in Handlers, NEW u, NEW w,
           w \in Held(hs[h]), Held(u) = Held(hs[h]) \ {w}
    PROVE  /\ Refs(Put(hs, h, u), rf, st) = Refs(hs, rf, st) \ {ByHandler(h, w)}
           /\ ByHandler(h, w) \in Refs(hs, rf, st) /\ ByHandler(h, w)[2] = w
<1> DEFINE p == Put(hs, h, u)
<1>0. HandlersOK(hs) OBVIOUS
<1>1. p[h] = u /\ \A i \in Handlers \ {h} : p[i] = hs[i] BY PutModes
<1> HIDE DEF p
<1>2. ASSUME NEW q PROVE q \in HandlerRefs(p) <=> q \in HandlerRefs(hs) \ {ByHandler(h, w)}
  <2>1. ASSUME q \in HandlerRefs(p) PROVE q \in HandlerRefs(hs) \ {ByHandler(h, w)}
    <3>0. PICK i \in Handlers : \E v \in Held(p[i]) : q = ByHandler(i, v)
      BY <2>1, HandlerRefsMembers
    <3>1. PICK v \in Held(p[i]) : q = ByHandler(i, v) BY <3>0
    <3>2. CASE i # h
      <4>1. p[i] = hs[i] BY <1>1, <3>2
      <4> QED BY <3>1, <3>2, <4>1, HandlerRefsMembers, RefsDiffer
    <3>3. CASE i = h
      <4>1. v \in Held(hs[h]) /\ v # w BY <1>1, <3>1, <3>3
      <4> QED BY <3>1, <3>3, <4>1, HandlerRefsMembers, RefsDiffer
    <3> QED BY <3>2, <3>3
  <2>2. ASSUME q \in HandlerRefs(hs), q # ByHandler(h, w) PROVE q \in HandlerRefs(p)
    <3>0. PICK i \in Handlers : \E v \in Held(hs[i]) : q = ByHandler(i, v)
      BY <2>2, HandlerRefsMembers
    <3>1. PICK v \in Held(hs[i]) : q = ByHandler(i, v) BY <3>0
    <3>2. CASE i # h
      <4>1. p[i] = hs[i] BY <1>1, <3>2
      <4> QED BY <3>1, <4>1, HandlerRefsMembers
    <3>3. CASE i = h
      <4>1. v \in Held(p[h]) BY <1>1, <2>2, <3>1, <3>3
      <4> QED BY <3>1, <3>3, <4>1, HandlerRefsMembers
    <3> QED BY <3>2, <3>3
  <2> QED BY <2>1, <2>2
<1>3. ByHandler(h, w) \in HandlerRefs(hs) BY HandlerRefsMembers
<1> QED BY <1>2, <1>3, RefsApart, RefsDiffer DEF Refs, p

\* A session keeps one more, or none.
Kept(rf, s, w) == [rf EXCEPT ![s] = @ \cup {w}]
Cleared(rf, s) == [rf EXCEPT ![s] = {}]

\* A session keeps one more: ...
LEMMA RefsSessionAdd ==
    ASSUME NEW hs, NEW rf \in [Sessions -> SUBSET Worktrees], NEW st, NEW s \in Sessions,
           NEW w, w \notin rf[s]
    PROVE  /\ Refs(hs, Kept(rf, s, w), st) = Refs(hs, rf, st) \cup {BySession(s, w)}
           /\ BySession(s, w) \notin Refs(hs, rf, st) /\ BySession(s, w)[2] = w
<1> DEFINE p == Kept(rf, s, w)
<1>1. p[s] = rf[s] \cup {w} /\ \A i \in Sessions \ {s} : p[i] = rf[i] BY DEF Kept, Cleared
<1> HIDE DEF p
<1>2. ASSUME NEW q PROVE q \in SessionRefs(p) <=> q \in SessionRefs(rf) \cup {BySession(s, w)}
  <2>1. ASSUME q \in SessionRefs(p) PROVE q \in SessionRefs(rf) \cup {BySession(s, w)}
    <3>0. PICK i \in Sessions : \E v \in p[i] : q = BySession(i, v)
      BY <2>1, SessionRefsMembers
    <3>1. PICK v \in p[i] : q = BySession(i, v) BY <3>0
    <3>2. (i = s /\ v = w) \/ v \in rf[i] BY <1>1, <3>1
    <3> QED BY <3>1, <3>2, SessionRefsMembers
  <2>2. ASSUME q \in SessionRefs(rf) PROVE q \in SessionRefs(p)
    <3>0. PICK i \in Sessions : \E v \in rf[i] : q = BySession(i, v)
      BY <2>2, SessionRefsMembers
    <3>1. PICK v \in rf[i] : q = BySession(i, v) BY <3>0
    <3>2. v \in p[i] BY <1>1, <3>1
    <3> QED BY <3>1, <3>2, SessionRefsMembers
  <2>3. w \in p[s] BY <1>1
  <2>4. BySession(s, w) \in SessionRefs(p) BY <2>3, SessionRefsMembers
  <2> QED BY <2>1, <2>2, <2>4
<1>3. BySession(s, w) \notin SessionRefs(rf) BY SessionRefsMembers, RefsDiffer
<1> QED BY <1>2, <1>3, RefsApart, RefsDiffer DEF Refs, p

\* ... it keeps none.
LEMMA RefsSessionClear ==
    ASSUME NEW hs, NEW rf \in [Sessions -> SUBSET Worktrees], NEW st, NEW s \in Sessions
    PROVE  /\ Refs(hs, Cleared(rf, s), st)
                 = Refs(hs, rf, st) \ {BySession(s, w) : w \in rf[s]}
           /\ {BySession(s, w) : w \in rf[s]} \subseteq Refs(hs, rf, st)
<1> DEFINE p == Cleared(rf, s)
           G == {BySession(s, w) : w \in rf[s]}
<1>1. p[s] = {} /\ \A i \in Sessions \ {s} : p[i] = rf[i] BY DEF Kept, Cleared
<1>2. \A q : q \in G <=> \E w \in rf[s] : q = BySession(s, w) OBVIOUS
<1> HIDE DEF p, G
<1>3. ASSUME NEW q PROVE q \in SessionRefs(p) <=> q \in SessionRefs(rf) \ G
  <2>1. ASSUME q \in SessionRefs(p) PROVE q \in SessionRefs(rf) \ G
    <3>0. PICK i \in Sessions : \E v \in p[i] : q = BySession(i, v)
      BY <2>1, SessionRefsMembers
    <3>1. PICK v \in p[i] : q = BySession(i, v) BY <3>0
    <3>2. i # s /\ v \in rf[i] BY <1>1, <3>1
    <3>3. q \notin G BY <1>2, <3>1, <3>2, RefsDiffer
    <3> QED BY <3>1, <3>2, <3>3, SessionRefsMembers
  <2>2. ASSUME q \in SessionRefs(rf), q \notin G PROVE q \in SessionRefs(p)
    <3>0. PICK i \in Sessions : \E v \in rf[i] : q = BySession(i, v)
      BY <2>2, SessionRefsMembers
    <3>1. PICK v \in rf[i] : q = BySession(i, v) BY <3>0
    <3>2. v \in p[i] BY <1>1, <1>2, <2>2, <3>1
    <3> QED BY <3>1, <3>2, SessionRefsMembers
  <2> QED BY <2>1, <2>2
<1>4. G \subseteq SessionRefs(rf) BY <1>2, SessionRefsMembers
<1>5. \A q \in G : q \notin HandlerRefs(hs) \cup SnapshotRefs(st) BY <1>2, RefsApart
<1> QED BY <1>3, <1>4, <1>5 DEF Refs, p, G

\* Snapshots leave a store, or one comes, in place of that of the same key.
Dropped(st, s, gone) == [st EXCEPT ![s] = @ \ gone]
Stored(st, s, gone, x) == [st EXCEPT ![s] = (@ \ gone) \cup {x}]

\* Snapshots leave a store: ...
LEMMA RefsStoreDrop ==
    ASSUME NEW hs, NEW rf, NEW st \in [Sessions -> SUBSET Snapshots], NEW s \in Sessions,
           NEW gone \in SUBSET st[s]
    PROVE  /\ Refs(hs, rf, Dropped(st, s, gone))
                 = Refs(hs, rf, st) \ {BySnapshot(s, x) : x \in gone}
           /\ {BySnapshot(s, x) : x \in gone} \subseteq Refs(hs, rf, st)
<1> DEFINE p == Dropped(st, s, gone)
           G == {BySnapshot(s, x) : x \in gone}
<1>1. p[s] = st[s] \ gone /\ \A i \in Sessions \ {s} : p[i] = st[i] BY DEF Dropped, Stored
<1>2. \A q : q \in G <=> \E x \in gone : q = BySnapshot(s, x) OBVIOUS
<1> HIDE DEF p, G
<1>3. ASSUME NEW q PROVE q \in SnapshotRefs(p) <=> q \in SnapshotRefs(st) \ G
  <2>1. ASSUME q \in SnapshotRefs(p) PROVE q \in SnapshotRefs(st) \ G
    <3>0. PICK i \in Sessions : \E v \in p[i] : q = BySnapshot(i, v)
      BY <2>1, SnapshotRefsMembers
    <3>1. PICK v \in p[i] : q = BySnapshot(i, v) BY <3>0
    <3>2. v \in st[i] /\ (i = s => v \notin gone) BY <1>1, <3>1
    <3>3. q \notin G BY <1>2, <3>1, <3>2, RefsDiffer
    <3> QED BY <3>1, <3>2, <3>3, SnapshotRefsMembers
  <2>2. ASSUME q \in SnapshotRefs(st), q \notin G PROVE q \in SnapshotRefs(p)
    <3>0. PICK i \in Sessions : \E v \in st[i] : q = BySnapshot(i, v)
      BY <2>2, SnapshotRefsMembers
    <3>1. PICK v \in st[i] : q = BySnapshot(i, v) BY <3>0
    <3>2. v \in p[i] BY <1>1, <1>2, <2>2, <3>1
    <3> QED BY <3>1, <3>2, SnapshotRefsMembers
  <2> QED BY <2>1, <2>2
<1>4. G \subseteq SnapshotRefs(st) BY <1>2, SnapshotRefsMembers
<1>5. \A q \in G : q \notin HandlerRefs(hs) \cup SessionRefs(rf) BY <1>2, RefsApart
<1> QED BY <1>3, <1>4, <1>5 DEF Refs, p, G

\* ... one comes, in place of that of the same key.
LEMMA RefsStoreAdd ==
    ASSUME NEW hs, NEW rf, NEW st \in [Sessions -> SUBSET Snapshots], NEW s \in Sessions,
           NEW gone \in SUBSET st[s], NEW x, x \in st[s] => x \in gone
    PROVE  Refs(hs, rf, Stored(st, s, gone, x))
              = (Refs(hs, rf, st) \ {BySnapshot(s, y) : y \in gone}) \cup {BySnapshot(s, x)}
<1> DEFINE p == Stored(st, s, gone, x)
           G == {BySnapshot(s, y) : y \in gone}
<1>1. p[s] = (st[s] \ gone) \cup {x} /\ \A i \in Sessions \ {s} : p[i] = st[i] BY DEF Dropped, Stored
<1>2. \A q : q \in G <=> \E y \in gone : q = BySnapshot(s, y) OBVIOUS
<1> HIDE DEF p, G
<1>3. ASSUME NEW q
      PROVE  q \in SnapshotRefs(p) <=> q \in (SnapshotRefs(st) \ G) \cup {BySnapshot(s, x)}
  <2>1. ASSUME q \in SnapshotRefs(p), q # BySnapshot(s, x) PROVE q \in SnapshotRefs(st) \ G
    <3>0. PICK i \in Sessions : \E v \in p[i] : q = BySnapshot(i, v)
      BY <2>1, SnapshotRefsMembers
    <3>1. PICK v \in p[i] : q = BySnapshot(i, v) BY <3>0
    <3>2. v \in st[i] /\ (i = s => v \notin gone) BY <1>1, <2>1, <3>1
    <3>3. q \notin G BY <1>2, <3>1, <3>2, RefsDiffer
    <3> QED BY <3>1, <3>2, <3>3, SnapshotRefsMembers
  <2>2. ASSUME q \in SnapshotRefs(st), q \notin G PROVE q \in SnapshotRefs(p)
    <3>0. PICK i \in Sessions : \E v \in st[i] : q = BySnapshot(i, v)
      BY <2>2, SnapshotRefsMembers
    <3>1. PICK v \in st[i] : q = BySnapshot(i, v) BY <3>0
    <3>2. v \in p[i] BY <1>1, <1>2, <2>2, <3>1
    <3> QED BY <3>1, <3>2, SnapshotRefsMembers
  <2>3. x \in p[s] BY <1>1
  <2>4. BySnapshot(s, x) \in SnapshotRefs(p) BY <2>3, SnapshotRefsMembers
  <2> QED BY <2>1, <2>2, <2>4
<1>5. \A q \in G : q \notin HandlerRefs(hs) \cup SessionRefs(rf) BY <1>2, RefsApart
<1> QED BY <1>3, <1>5 DEF Refs, p, G

----------------------------------------------------------------------------
(* The wishes of a handler by its phase. *)

Light == {"idle", "resolve", "session", "retain", "lease", "enter", "mark", "coordinate", "scan"}

\* In a light phase a handler keeps and wants nothing of the repositories.
LEMMA LightFacts ==
    ASSUME NEW t, RecOK(t), t.pc \in Light
    PROVE  /\ Held(t) = {} /\ Taken(t) = {} /\ \A r : RepoMode(t, r) = "out"
           /\ t.locked = {} /\ ~Leasing(t)
<1>1. ~Leasing(t) /\ t.pc # "lockWait" /\ t.pc # "unretain" BY DEF Light, Leasing
<1>2. t.locked = {} BY DEF Light, RecOK, Coordinating
<1>3. Taken(t) = {} BY <1>1, <1>2 DEF Taken
<1> QED BY <1>1, <1>2, <1>3 DEF Held, RepoMode, ReposOf

\* With a lease, or waiting for it, it keeps its tree and wants its repository.
LEMMA LeaseFacts ==
    ASSUME NEW t \in HandlerRecs, RecOK(t), Leasing(t)
    PROVE  /\ Held(t) = {t.tree} /\ Taken(t) = {} /\ t.locked = {} /\ TopMode(t) = "read"
           /\ RepoMode(t, RepoOf[t.tree]) = Mode(t.kind = "mutation")
           /\ \A r : r # RepoOf[t.tree] => RepoMode(t, r) = "out"
           /\ t.pc \notin Asking /\ ~Coordinating(t)
<1>1. ~Coordinating(t) /\ t.pc \notin Asking BY DEF Leasing, Coordinating, Asking
<1>2. Taken(t) = {} /\ Held(t) = {t.tree} BY <1>1, TakenType
<1>3. t.locked = {} BY <1>1 DEF RecOK
<1> QED BY <1>1, <1>2, <1>3 DEF TopMode, RepoMode, ReposOf, Mode

\* After the lease it keeps its tree until it lets go of the topology.
LEMMA UnretainFacts ==
    ASSUME NEW t \in HandlerRecs, RecOK(t), t.pc = "unretain"
    PROVE  /\ Held(t) = {t.tree} /\ t.locked = {} /\ TopMode(t) = "read"
           /\ \A r : RepoMode(t, r) = "out"
           /\ t.pc \notin Asking
<1>1. ~Leasing(t) /\ ~Coordinating(t) BY DEF Leasing, Coordinating
<1>2. t.locked = {} BY <1>1 DEF RecOK
<1>3. Taken(t) = {} BY <1>2 DEF Taken
<1> QED BY <1>1, <1>2, <1>3 DEF TopMode, RepoMode, ReposOf, Held, Asking

\* To change the topology it wants what it has taken, to itself.
LEMMA CoordFacts ==
    ASSUME NEW t \in HandlerRecs, RecOK(t), Coordinating(t)
    PROVE  /\ Held(t) = Taken(t) /\ TopMode(t) = "write" /\ ~Leasing(t)
           /\ \A r : RepoMode(t, r) = IF r \in ReposOf(Taken(t)) THEN "write" ELSE "out"
           /\ Taken(t) \in SUBSET Worktrees
<1>1. ~Leasing(t) /\ t.pc # "unretain" BY DEF Leasing, Coordinating
<1> QED BY <1>1, TakenType DEF TopMode, RepoMode, Held

\* Two coordinating states that have taken the same worktrees.
LEMMA SameTaken ==
    ASSUME NEW t \in HandlerRecs, RecOK(t), Coordinating(t),
           NEW u \in HandlerRecs, RecOK(u), Coordinating(u), Taken(u) = Taken(t)
    PROVE  /\ Held(u) = Held(t) /\ TopMode(u) = TopMode(t) /\ SameRepos(t, u)
BY CoordFacts DEF SameRepos

\* An idle handler wants and keeps nothing.
LEMMA IdleFacts ==
    /\ IdleHandler \in HandlerRecs /\ RecOK(IdleHandler) /\ IdleHandler.pc = "idle"
    /\ Held(IdleHandler) = {} /\ TopMode(IdleHandler) = "out"
    /\ \A r : RepoMode(IdleHandler, r) = "out"
    /\ IdleHandler.pin = {} /\ IdleHandler.locked = {} /\ IdleHandler.ids = {}
<1>1. (CHOOSE w \in Worktrees : TRUE) \in Worktrees BY GitConstants
<1>2. IdleHandler \in HandlerRecs BY <1>1 DEF IdleHandler, HandlerRecs, Phases
<1>3. IdleHandler.pc = "idle" /\ IdleHandler.pin = {} /\ IdleHandler.locked = {}
      /\ IdleHandler.ids = {} /\ IdleHandler.todo = {}
  BY DEF IdleHandler
<1>4. ~Coordinating(IdleHandler) BY <1>3 DEF Coordinating
<1>5. RecOK(IdleHandler) BY <1>3, <1>4 DEF RecOK
<1>6. TopMode(IdleHandler) = "out" BY <1>3, <1>4 DEF TopMode, Leasing
<1> QED BY <1>2, <1>3, <1>5, <1>6, LightFacts DEF Light

\* What the updates of a handler amount to.
LEMMA GotoFacts ==
    ASSUME HandlersOK(handlers), NEW h \in Handlers, NEW pc \in Phases, Goto(h, pc)
    PROVE  LET t == handlers[h]
               u == handlers'[h]
           IN  /\ handlers' = Put(handlers, h, u) /\ u \in HandlerRecs
               /\ u.pc = pc /\ u.queued = FALSE /\ u.kind = t.kind /\ u.tree = t.tree
               /\ u.epoch = t.epoch /\ u.pin = t.pin /\ u.over = t.over /\ u.todo = t.todo
               /\ u.ids = t.ids /\ u.locked = t.locked
<1> DEFINE t == handlers[h]
           v == [t EXCEPT !.pc = pc, !.queued = FALSE]
<1>1. handlers \in [Handlers -> HandlerRecs] /\ t \in HandlerRecs BY DEF HandlersOK
<1>2. handlers' = Put(handlers, h, v) BY <1>1 DEF Goto, Put
<1>3. handlers'[h] = v BY <1>1, <1>2 DEF Put
<1> QED BY <1>1, <1>2, <1>3 DEF HandlerRecs

Moved(t, pc, b) == [t EXCEPT !.pc = pc, !.queued = b]

\* A handler goes on to another phase.
LEMMA MovedFacts ==
    ASSUME NEW t \in HandlerRecs, NEW pc \in Phases, NEW b \in BOOLEAN
    PROVE  /\ Moved(t, pc, b) \in HandlerRecs /\ Moved(t, pc, b).pc = pc
           /\ Moved(t, pc, b).queued = b /\ Moved(t, pc, b).kind = t.kind
           /\ Moved(t, pc, b).tree = t.tree /\ Moved(t, pc, b).epoch = t.epoch
           /\ Moved(t, pc, b).pin = t.pin /\ Moved(t, pc, b).over = t.over
           /\ Moved(t, pc, b).todo = t.todo /\ Moved(t, pc, b).ids = t.ids
           /\ Moved(t, pc, b).locked = t.locked
BY DEF HandlerRecs, Moved

\* A handler is done.
LEMMA DoneFacts ==
    ASSUME HandlersOK(handlers), NEW h \in Handlers, Done(h)
    PROVE  handlers' = Put(handlers, h, IdleHandler) /\ handlers'[h] = IdleHandler
BY DEF Done, Put, HandlersOK

----------------------------------------------------------------------------
(* The invariant: the gates agree with the handlers, and the registry counts *)
(* the references of handlers, sessions and snapshots.                       *)

Core ==
    /\ registry \in Registries
    /\ HandlersOK(handlers)
    /\ StoresOK(store)
    /\ refs \in [Sessions -> SUBSET Worktrees]
    /\ TopInv(topology, handlers)
    /\ GatesInv(registry, handlers)
    /\ Exact(registry, Refs(handlers, refs, store))

\* h goes to u, which wants the same of the repositories and keeps the same
\* entries
LEMMA MoveStep ==
    ASSUME Core, NEW h \in Handlers, NEW u, handlers' = Put(handlers, h, u),
           u \in HandlerRecs, RecOK(u), SameRepos(handlers[h], u), Held(u) = Held(handlers[h]),
           handlers[h].pc = "gate" =>
              u.pc = "gate" \/ \A r \in Repos : h \notin Waiters(registry.coords[r].gate),
           TopInv(topology', handlers'),
           registry' \in Registries, KeepsGates(registry, registry'),
           refs' \in [Sessions -> SUBSET Worktrees], StoresOK(store'),
           Exact(registry', Refs(handlers, refs', store'))
    PROVE  Core'
<1> USE DEF Core
<1>1. HandlersOK(handlers') BY PutModes
<1>2. GatesInv(registry', handlers') BY GatesStay
<1>3. Refs(handlers', refs', store') = Refs(handlers, refs', store') BY RefsStay
<1>4. Exact(registry', Refs(handlers', refs', store')) BY <1>3
<1> QED BY <1>1, <1>2, <1>4

\* and the registry counts the same
LEMMA QuietStep ==
    ASSUME Core, NEW h \in Handlers, NEW u, handlers' = Put(handlers, h, u),
           u \in HandlerRecs, RecOK(u), SameRepos(handlers[h], u), Held(u) = Held(handlers[h]),
           handlers[h].pc = "gate" =>
              u.pc = "gate" \/ \A r \in Repos : h \notin Waiters(registry.coords[r].gate),
           TopInv(topology', handlers'),
           registry' \in Registries, KeepsGates(registry, registry'),
           \A R : Exact(registry, R) => Exact(registry', R),
           refs' = refs, store' = store
    PROVE  Core'
<1>1. /\ Exact(registry', Refs(handlers, refs', store')) /\ StoresOK(store')
      /\ refs' \in [Sessions -> SUBSET Worktrees]
  BY DEF Core
<1> QED BY <1>1, MoveStep

\* A registry that does not change keeps its gates and counts.
LEMMA SameRegistry ==
    ASSUME registry \in Registries, registry' = registry
    PROVE  /\ registry' \in Registries /\ KeepsGates(registry, registry')
           /\ \A R : Exact(registry, R) => Exact(registry', R)
BY DEF KeepsGates

\* What keeps gates and epochs keeps gates.
LEMMA KeepsAreKept ==
    ASSUME NEW g, NEW q, Keeps(g, q)
    PROVE  KeepsGates(g, q)
BY DEF Keeps, KeepsGates

\* between light phases
LEMMA LightStep ==
    ASSUME Core, NEW h \in Handlers, NEW u, handlers' = Put(handlers, h, u),
           u \in HandlerRecs, RecOK(u), u.pc \in Light, handlers[h].pc \in Light,
           TopInv(topology', handlers'),
           registry' \in Registries, KeepsGates(registry, registry'),
           \A R : Exact(registry, R) => Exact(registry', R),
           refs' = refs, store' = store
    PROVE  Core'
<1>1. RecOK(handlers[h]) BY DEF Core, HandlersOK
<1>2. SameRepos(handlers[h], u) /\ Held(u) = Held(handlers[h]) BY <1>1, LightFacts DEF SameRepos
<1>3. handlers[h].pc # "gate" BY DEF Light
<1> QED BY <1>2, <1>3, QuietStep

----------------------------------------------------------------------------
(* Each action keeps Core. *)

\* It holds initially: nobody wants or keeps anything.
LEMMA CoreInit == ASSUME Init PROVE Core
<1> USE DEF Init
<1>1. NewGate \in Gates /\ NewGate.readers = 0 BY DEF NewGate, Gates
<1>2. NoCoordinator \in Coordinators /\ NoCoordinator.refs = 0 /\ NoCoordinator.gate = NewGate
  BY <1>1 DEF NoCoordinator, Coordinators
<1>3. registry \in Registries BY <1>2 DEF Registries, NoEntry
<1>4. \A h \in Handlers : handlers[h] = IdleHandler OBVIOUS
<1>5. HandlersOK(handlers) BY IdleFacts DEF HandlersOK
<1>6. StoresOK(store) /\ refs \in [Sessions -> SUBSET Worktrees] BY DEF StoresOK
<1>7. \A h \in Handlers : TopModes(handlers)[h] = "out" BY <1>4, IdleFacts DEF TopModes
<1>8. Waiters(NewGate) = {} BY DEF NewGate, Waiters
<1>9. TopInv(topology, handlers) BY <1>7, <1>8, ModesType, NewGateOK DEF TopInv
<1>10. ASSUME NEW r \in Repos
       PROVE  /\ GateOK(registry.coords[r].gate, RepoModes(handlers, r))
              /\ Waiters(registry.coords[r].gate) = {}
  <2>1. \A h \in Handlers : RepoModes(handlers, r)[h] = "out" BY <1>4, IdleFacts DEF RepoModes
  <2>2. registry.coords[r].gate = NewGate BY <1>2
  <2> QED BY <1>8, <2>1, <2>2, ModesType, NewGateOK
<1>11. GatesInv(registry, handlers) BY <1>10 DEF GatesInv
<1>12. HandlerRefs(handlers) = {}
  <2>1. \A p : p \notin HandlerRefs(handlers) BY <1>4, IdleFacts, HandlerRefsMembers
  <2> QED BY <2>1
<1>13. SessionRefs(refs) = {}
  <2>1. \A p : p \notin SessionRefs(refs) BY SessionRefsMembers
  <2> QED BY <2>1
<1>14. SnapshotRefs(store) = {}
  <2>1. \A p : p \notin SnapshotRefs(store) BY SnapshotRefsMembers
  <2> QED BY <2>1
<1>15. Refs(handlers, refs, store) = {} BY <1>12, <1>13, <1>14 DEF Refs
<1>16. IsFiniteSet({}) /\ \A ws : Uses({}, ws) = 0 BY FS_EmptySet DEF Uses
<1>17. \A w \in Worktrees : Counted(registry, w) = 0 BY DEF Counted
<1>18. \A r \in Repos : registry.coords[r].refs = 0 BY <1>2
<1>19. Exact(registry, {}) BY <1>16, <1>17, <1>18 DEF Exact
<1> QED BY <1>3, <1>5, <1>6, <1>9, <1>11, <1>15, <1>19 DEF Core

\* the topology gate of a handler that asks for it
LEMMA AskedTop ==
    ASSUME Core, NEW h \in Handlers, NEW write \in BOOLEAN, NEW u,
           handlers' = Put(handlers, h, u), topology' = Ask(topology, h, write),
           TopMode(handlers[h]) = "out", TopMode(u) = Mode(write), u.pc \in Asking
    PROVE  TopInv(topology', handlers')
<1>1. HandlersOK(handlers) /\ TopInv(topology, handlers) BY DEF Core
<1> QED BY <1>1, TopAsk

\* A handler leaves the topology gate, ...
LEMMA LeftTop ==
    ASSUME Core, NEW h \in Handlers, NEW write \in BOOLEAN, NEW u,
           handlers' = Put(handlers, h, u), topology' = release(topology, write),
           LetIn(topology, h), TopMode(handlers[h]) = Mode(write), TopMode(u) = "out"
    PROVE  TopInv(topology', handlers')
<1>1. HandlersOK(handlers) /\ TopInv(topology, handlers) BY DEF Core
<1> QED BY <1>1, TopLeave DEF LetIn

\* ... or moves with the same wish.
LEMMA SameTopGate ==
    ASSUME Core, NEW h \in Handlers, NEW u,
           handlers' = Put(handlers, h, u), topology' = topology,
           TopMode(handlers[h]) = TopMode(u),
           LetIn(topology, h) \/ handlers[h].pc \notin Asking
    PROVE  TopInv(topology', handlers')
<1>1. HandlersOK(handlers) /\ TopInv(topology, handlers) BY DEF Core
<1> QED BY <1>1, TopStay DEF LetIn

\* a light handler's mode of the topology gate
LEMMA LightModes ==
    ASSUME NEW t, t.pc \in Light
    PROVE  TopMode(t) = IF t.pc \in {"coordinate", "scan"} THEN "write"
                        ELSE IF t.pc \in {"resolve", "retain", "enter"} THEN "read" ELSE "out"
BY DEF Light, TopMode, Coordinating, Leasing

\* Start keeps Core.
LEMMA StartCore ==
    ASSUME Core, NEW h \in Handlers, NEW kind \in Kinds, NEW w \in Worktrees, Start(h, kind, w)
    PROVE  Core'
<1> DEFINE b == ~canAcquireImmediately(topology, FALSE)
           u == [IdleHandler EXCEPT !.pc = "resolve", !.kind = kind, !.tree = w, !.queued = b]
<1>1. HandlersOK(handlers) /\ registry \in Registries BY DEF Core
<1>2. b \in BOOLEAN OBVIOUS
<1>3. kind \in {"read", "mutation", "delete", "files"} BY GitConstants
<1>4. u \in HandlerRecs /\ u.pc = "resolve" /\ u.locked = {} /\ u.ids = {} /\ u.pin = {}
      /\ u.todo = {}
  BY <1>2, <1>3, IdleFacts DEF HandlerRecs, Phases, IdleHandler
<1>5. handlers' = Put(handlers, h, u) BY DEF Start, Put
<1> HIDE DEF u
<1>6. RecOK(u) BY <1>4 DEF RecOK, Coordinating
<1>7. handlers[h].pc = "idle" /\ topology' = Ask(topology, h, FALSE) BY DEF Start, At
<1>8. u.pc \in Light /\ handlers[h].pc \in Light BY <1>4, <1>7 DEF Light
<1>9. TopMode(u) = Mode(FALSE) /\ TopMode(handlers[h]) = "out" /\ u.pc \in Asking
  BY <1>4, <1>7, <1>8, LightModes DEF Mode, Asking
<1>10. TopInv(topology', handlers') BY <1>5, <1>7, <1>9, AskedTop
<1>11. registry' = registry /\ refs' = refs /\ store' = store BY DEF Start, sessions
<1> QED BY <1>1, <1>4, <1>5, <1>6, <1>8, <1>10, <1>11, SameRegistry, LightStep

\* StartFiles keeps Core.
LEMMA StartFilesCore ==
    ASSUME Core, NEW h \in Handlers, NEW over \in SUBSET Worktrees, NEW paths \in SUBSET Worktrees,
           StartFiles(h, over, paths)
    PROVE  Core'
<1> DEFINE b == ~canAcquireImmediately(topology, TRUE)
           u == [IdleHandler EXCEPT !.pc = "coordinate", !.kind = "files", !.over = over,
                                    !.todo = paths, !.queued = b]
<1>1. HandlersOK(handlers) /\ registry \in Registries BY DEF Core
<1>2. b \in BOOLEAN OBVIOUS
<1>4. u \in HandlerRecs /\ u.pc = "coordinate" /\ u.kind = "files" /\ u.locked = {} /\ u.ids = {}
      /\ u.pin = {}
  BY <1>2, IdleFacts DEF HandlerRecs, Phases, IdleHandler
<1>5. handlers' = Put(handlers, h, u) BY DEF StartFiles, Put
<1> HIDE DEF u
<1>6. RecOK(u) BY <1>4 DEF RecOK
<1>7. handlers[h].pc = "idle" /\ topology' = Ask(topology, h, TRUE) BY DEF StartFiles, At
<1>8. u.pc \in Light /\ handlers[h].pc \in Light BY <1>4, <1>7 DEF Light
<1>9. TopMode(u) = Mode(TRUE) /\ TopMode(handlers[h]) = "out" /\ u.pc \in Asking
  BY <1>4, <1>7, <1>8, LightModes DEF Mode, Asking
<1>10. TopInv(topology', handlers') BY <1>5, <1>7, <1>9, AskedTop
<1>11. registry' = registry /\ refs' = refs /\ store' = store BY DEF StartFiles, sessions
<1> QED BY <1>1, <1>4, <1>5, <1>6, <1>8, <1>10, <1>11, SameRegistry, LightStep

\* h, let into the topology gate to read, is done
LEMMA DoneReading ==
    ASSUME Core, NEW h \in Handlers, handlers[h].pc \in {"resolve", "retain", "enter"},
           LetIn(topology, h), topology' = release(topology, FALSE), Done(h),
           registry' \in Registries, KeepsGates(registry, registry'),
           \A R : Exact(registry, R) => Exact(registry', R),
           refs' = refs, store' = store
    PROVE  Core'
<1>1. HandlersOK(handlers) BY DEF Core
<1>2. handlers' = Put(handlers, h, IdleHandler) BY <1>1, DoneFacts
<1>3. IdleHandler.pc \in Light /\ handlers[h].pc \in Light BY IdleFacts DEF Light
<1>4. TopMode(handlers[h]) = Mode(FALSE) BY <1>3, LightModes DEF Mode
<1>5. TopInv(topology', handlers') BY <1>2, <1>4, IdleFacts, LeftTop
<1> QED BY <1>2, <1>3, <1>5, IdleFacts, LightStep

\* and one that moves on to a phase outside the gate
LEMMA GoneReading ==
    ASSUME Core, NEW h \in Handlers, handlers[h].pc \in {"resolve", "retain", "enter"},
           LetIn(topology, h), topology' = release(topology, FALSE),
           NEW pc \in {"session", "lease", "mark"}, Goto(h, pc),
           registry' \in Registries, KeepsGates(registry, registry'),
           \A R : Exact(registry, R) => Exact(registry', R),
           refs' = refs, store' = store
    PROVE  Core'
<1> DEFINE u == handlers'[h]
<1>1. HandlersOK(handlers) /\ RecOK(handlers[h]) /\ pc \in Phases BY DEF Core, HandlersOK, Phases
<1>2. handlers' = Put(handlers, h, u) /\ u \in HandlerRecs /\ u.pc = pc
      /\ u.pin = handlers[h].pin /\ u.todo = handlers[h].todo /\ u.tree = handlers[h].tree
      /\ u.ids = handlers[h].ids /\ u.locked = handlers[h].locked
  BY <1>1, GotoFacts
<1> HIDE DEF u
<1>3. u.pc \in Light /\ handlers[h].pc \in Light BY <1>2 DEF Light
<1>4. handlers[h].locked = {} BY <1>1, <1>3, LightFacts
<1>5. handlers[h].pin = {} BY <1>1 DEF RecOK
<1>6. RecOK(u) BY <1>1, <1>2, <1>4, <1>5 DEF RecOK, Coordinating
<1>7. TopMode(handlers[h]) = Mode(FALSE) /\ TopMode(u) = "out"
  BY <1>2, <1>3, LightModes DEF Mode
<1>8. TopInv(topology', handlers') BY <1>2, <1>7, LeftTop
<1> QED BY <1>2, <1>3, <1>6, <1>8, LightStep

\* Resolve keeps Core.
LEMMA ResolveCore ==
    ASSUME Core, NEW h \in Handlers, Resolve(h)
    PROVE  Core'
<1>1. handlers[h].pc = "resolve" /\ LetIn(topology, h) /\ topology' = release(topology, FALSE)
      /\ refs' = refs /\ store' = store /\ registry \in Registries
      /\ handlers[h] \in HandlerRecs
  BY DEF Resolve, At, sessions, Core, HandlersOK
<1>2. Tree(h) \in Worktrees BY <1>1 DEF Tree, HandlerRecs
<1>3. CASE registry' \in admitIdentity(registry, Tree(h)) /\ Goto(h, "session")
  BY <1>1, <1>2, <1>3, AdmitFacts, KeepsAreKept, GoneReading
<1>4. CASE registry' \in retainFailures(registry, Tree(h)) /\ Done(h)
  BY <1>1, <1>2, <1>4, FailFacts, KeepsAreKept, DoneReading
<1>5. CASE Done(h) /\ UNCHANGED registry
  BY <1>1, <1>5, SameRegistry, DoneReading
<1> QED BY <1>3, <1>4, <1>5 DEF Resolve

\* LockSession keeps Core.
LEMMA LockSessionCore ==
    ASSUME Core, NEW h \in Handlers, LockSession(h)
    PROVE  Core'
<1>1. handlers[h].pc = "session" /\ registry' = registry /\ refs' = refs /\ store' = store
      /\ registry \in Registries /\ HandlersOK(handlers) /\ RecOK(handlers[h])
      /\ handlers \in [Handlers -> HandlerRecs]
  BY DEF LockSession, At, Core, HandlersOK
<1>2. handlers[h].pc \in Light /\ TopMode(handlers[h]) = "out"
  BY <1>1, LightModes DEF Light
<1>3. CASE Done(h) /\ UNCHANGED topology
  <2>1. handlers' = Put(handlers, h, IdleHandler) BY <1>1, <1>3, DoneFacts
  <2>2. IdleHandler.pc \in Light BY IdleFacts DEF Light
  <2>3. handlers[h].pc \notin Asking BY <1>1 DEF Asking
  <2>4. TopInv(topology', handlers') BY <1>2, <1>3, <2>1, <2>3, IdleFacts, SameTopGate
  <2> QED BY <1>1, <1>2, <2>1, <2>2, <2>4, IdleFacts, SameRegistry, LightStep
<1>4. CASE AskTopology(h, FALSE, "retain")
  <2> DEFINE b == ~canAcquireImmediately(topology, FALSE)
             u == Moved(handlers[h], "retain", b)
  <2>1. handlers' = Put(handlers, h, u) BY <1>1, <1>4 DEF AskTopology, Put, Moved
  <2>2. u \in HandlerRecs /\ u.pc = "retain" /\ u.locked = handlers[h].locked
        /\ u.ids = handlers[h].ids /\ u.pin = handlers[h].pin /\ u.tree = handlers[h].tree
    <3>1. "retain" \in Phases /\ b \in BOOLEAN /\ handlers[h] \in HandlerRecs BY <1>1 DEF Phases
    <3> HIDE DEF b
    <3> QED BY <3>1, MovedFacts
  <2> HIDE DEF u
  <2>3. u.pc \in Light /\ u.pc \in Asking /\ TopMode(u) = Mode(FALSE)
    BY <2>2, LightModes DEF Light, Asking, Mode
  <2>4. handlers[h].locked = {} /\ handlers[h].pin = {} BY <1>1, <1>2, LightFacts DEF RecOK
  <2>5. RecOK(u) BY <1>1, <2>2, <2>4 DEF RecOK, Coordinating
  <2>6. TopInv(topology', handlers') BY <1>2, <1>4, <2>1, <2>3, AskedTop DEF AskTopology
  <2> QED BY <1>1, <1>2, <2>1, <2>2, <2>3, <2>5, <2>6, SameRegistry, LightStep
<1> QED BY <1>3, <1>4 DEF LockSession

\* What Session.refs keeps is counted once, however often it is retained.
LEMMA KeepReferenceFacts ==
    ASSUME Core, NEW h \in Handlers, InSession(h) \in Sessions, KeepReference(h, registry)
    PROVE  /\ registry' \in Registries /\ KeepsGates(registry, registry')
           /\ refs' \in [Sessions -> SUBSET Worktrees]
           /\ Exact(registry', Refs(handlers, refs', store))
           /\ Keeps(registry, registry')
<1> DEFINE s == InSession(h)
           w == Tree(h)
           R == Refs(handlers, refs, store)
<1>1. w \in Worktrees BY DEF Core, HandlersOK, HandlerRecs, Tree
<1>2. registry \in Registries /\ refs \in [Sessions -> SUBSET Worktrees] /\ Exact(registry, R)
  BY DEF Core
<1>3. refs' = Kept(refs, s, w) BY DEF KeepReference, Kept
<1>4. refs' \in [Sessions -> SUBSET Worktrees] /\ s \in Sessions BY <1>1, <1>2, <1>3 DEF Kept
<1> HIDE DEF w, s
<1>5. CASE w \in refs[s]
  <2>1. registry' \in admitIdentity(registry, w) BY <1>5 DEF KeepReference, w, s
  <2>2. refs' = refs BY <1>2, <1>3, <1>4, <1>5 DEF Kept
  <2>3. registry' \in Registries /\ Keeps(registry, registry') /\ Exact(registry', R)
    BY <1>1, <1>2, <2>1, AdmitFacts
  <2> QED BY <1>4, <2>2, <2>3, KeepsAreKept
<1>6. CASE w \notin refs[s]
  <2>1. registry' \in retainIdentity(registry, w) BY <1>6 DEF KeepReference, w, s
  <2>2. Refs(handlers, refs', store) = R \cup {BySession(s, w)} /\ BySession(s, w) \notin R
        /\ BySession(s, w)[2] = w
    BY ONLY <1>2, <1>3, <1>6, <1>4, RefsSessionAdd, RefsDiffer
  <2>3. registry' \in Registries /\ Keeps(registry, registry')
        /\ Exact(registry', R \cup {BySession(s, w)})
    <3> HIDE DEF R
    <3> QED BY <1>1, <1>2, <2>1, <2>2, RetainFacts
  <2> QED BY <1>4, <2>2, <2>3, KeepsAreKept
<1> QED BY <1>5, <1>6

\* The session of a handler is a session.
LEMMA SessionType == ASSUME NEW h \in Handlers PROVE InSession(h) \in Sessions
BY GitConstants DEF InSession

\* RetainInSession keeps Core.
LEMMA RetainInSessionCore ==
    ASSUME Core, NEW h \in Handlers, RetainInSession(h)
    PROVE  Core'
<1>1. handlers[h].pc = "retain" /\ LetIn(topology, h) /\ topology' = release(topology, FALSE)
      /\ store' = store /\ registry \in Registries
      /\ handlers[h] \in HandlerRecs /\ RecOK(handlers[h]) /\ HandlersOK(handlers)
      /\ StoresOK(store)
  BY DEF RetainInSession, At, Core, HandlersOK
<1>2. Tree(h) \in Worktrees BY <1>1 DEF Tree, HandlerRecs
<1>3. CASE KeepReference(h, registry) /\ Goto(h, "lease")
  <2> DEFINE u == handlers'[h]
  <2>1. "lease" \in Phases BY DEF Phases
  <2>2. handlers' = Put(handlers, h, u) /\ u \in HandlerRecs /\ u.pc = "lease"
        /\ u.pin = handlers[h].pin /\ u.todo = handlers[h].todo /\ u.tree = handlers[h].tree
        /\ u.ids = handlers[h].ids /\ u.locked = handlers[h].locked
    BY <1>1, <1>3, <2>1, GotoFacts
  <2> HIDE DEF u
  <2>3. u.pc \in Light /\ handlers[h].pc \in Light BY <1>1, <2>2 DEF Light
  <2>4. handlers[h].locked = {} /\ handlers[h].pin = {} BY <1>1, <2>3, LightFacts DEF RecOK
  <2>5. RecOK(u) BY <1>1, <2>2, <2>4 DEF RecOK, Coordinating
  <2>6. TopMode(handlers[h]) = Mode(FALSE) /\ TopMode(u) = "out"
    BY <1>1, <2>2, <2>3, LightModes DEF Mode
  <2>7. TopInv(topology', handlers') BY <1>1, <2>2, <2>6, LeftTop
  <2>8. SameRepos(handlers[h], u) /\ Held(u) = Held(handlers[h])
    BY <1>1, <2>3, <2>5, LightFacts DEF SameRepos
  <2>9. /\ registry' \in Registries /\ KeepsGates(registry, registry')
        /\ refs' \in [Sessions -> SUBSET Worktrees]
        /\ Exact(registry', Refs(handlers, refs', store'))
    BY <1>1, <1>3, SessionType, KeepReferenceFacts
  <2> QED BY <1>1, <2>2, <2>5, <2>7, <2>8, <2>9, MoveStep
<1>4. CASE registry' \in retainFailures(registry, Tree(h)) /\ Done(h) /\ UNCHANGED refs
  BY <1>1, <1>2, <1>4, FailFacts, KeepsAreKept, DoneReading
<1>5. CASE registry' = [registry EXCEPT !.incomplete = TRUE] /\ Done(h) /\ UNCHANGED refs
  <2>1. registry' \in Registries /\ SameCoords(registry, registry')
        /\ \A R : Exact(registry, R) => Exact(registry', R)
    BY <1>1, <1>5, MarkFacts
  <2> QED BY <1>1, <1>5, <2>1, SameKeeps, KeepsAreKept, DoneReading
<1> QED BY <1>3, <1>4, <1>5 DEF RetainInSession

\* RequestLease keeps Core.
LEMMA RequestLeaseCore ==
    ASSUME Core, NEW h \in Handlers, RequestLease(h)
    PROVE  Core'
<1> DEFINE b == ~canAcquireImmediately(topology, FALSE)
           u == Moved(handlers[h], "enter", b)
<1>1. handlers[h].pc = "lease" /\ registry' = registry /\ refs' = refs /\ store' = store
      /\ registry \in Registries /\ HandlersOK(handlers) /\ RecOK(handlers[h])
      /\ handlers \in [Handlers -> HandlerRecs] /\ AskTopology(h, FALSE, "enter")
  BY DEF RequestLease, At, Core, HandlersOK, sessions
<1>2. handlers[h].pc \in Light /\ TopMode(handlers[h]) = "out"
  BY <1>1, LightModes DEF Light
<1>3. handlers' = Put(handlers, h, u) BY <1>1 DEF AskTopology, Put, Moved
<1>4. u \in HandlerRecs /\ u.pc = "enter" /\ u.locked = handlers[h].locked
      /\ u.ids = handlers[h].ids /\ u.pin = handlers[h].pin /\ u.tree = handlers[h].tree
  <2>1. "enter" \in Phases /\ b \in BOOLEAN /\ handlers[h] \in HandlerRecs BY <1>1 DEF Phases
  <2> HIDE DEF b
  <2> QED BY <2>1, MovedFacts
<1> HIDE DEF u
<1>5. u.pc \in Light /\ u.pc \in Asking /\ TopMode(u) = Mode(FALSE)
  BY <1>4, LightModes DEF Light, Asking, Mode
<1>6. handlers[h].locked = {} /\ handlers[h].pin = {} BY <1>1, <1>2, LightFacts DEF RecOK
<1>7. RecOK(u) BY <1>1, <1>4, <1>6 DEF RecOK, Coordinating
<1>8. TopInv(topology', handlers') BY <1>1, <1>2, <1>3, <1>5, AskedTop DEF AskTopology
<1> QED BY <1>1, <1>2, <1>3, <1>4, <1>5, <1>7, <1>8, SameRegistry, LightStep

\* The case of EnterRepository that asks for the gate of the repository.
LEMMA EnteredCore ==
    ASSUME Core, NEW h \in Handlers, handlers[h].pc = "enter", LetIn(topology, h),
           NEW g \in retainIdentity(registry, Tree(h)),
           registry' = AskRepo(g, h, Tree(h), Writes(h)),
           handlers' = [handlers EXCEPT ![h].pc = "gate",
                ![h].queued = ~canAcquireImmediately(g.coords[RepoOf[Tree(h)]].gate, Writes(h))],
           topology' = topology, refs' = refs, store' = store
    PROVE  Core'
<1> DEFINE t == handlers[h]
           w == Tree(h)
           r == RepoOf[Tree(h)]
           b == ~canAcquireImmediately(g.coords[RepoOf[Tree(h)]].gate, Writes(h))
           u == Moved(t, "gate", b)
           R == Refs(handlers, refs, store)
           n == Ask(g.coords[r].gate, h, Writes(h))
           mid == Put(handlers, h, t)
<1>1. /\ HandlersOK(handlers) /\ RecOK(t) /\ t \in HandlerRecs /\ registry \in Registries
      /\ handlers \in [Handlers -> HandlerRecs] /\ GatesInv(registry, handlers)
      /\ Exact(registry, R)
  BY DEF Core, HandlersOK
<1>2. w \in Worktrees /\ r \in Repos /\ w = t.tree BY <1>1, GitConstants DEF HandlerRecs, Tree
<1>3. t.pc \in Light /\ t.locked = {} /\ t.pin = {} /\ Held(t) = {} /\ \A s : RepoMode(t, s) = "out"
  BY <1>1, LightFacts DEF Light, RecOK
<1>4. b \in BOOLEAN OBVIOUS
<1>5. u \in HandlerRecs /\ u.pc = "gate" /\ u.locked = {} /\ u.pin = {} /\ u.tree = w
      /\ u.kind = t.kind /\ u.ids = t.ids
  <2>1. "gate" \in Phases BY DEF Phases
  <2> HIDE DEF b
  <2> QED BY <1>1, <1>2, <1>3, <1>4, <2>1, MovedFacts
<1>6. handlers' = Put(handlers, h, u) BY <1>1 DEF Put, Moved
<1> HIDE DEF u, b
<1>7. RecOK(u) /\ Leasing(u) BY <1>1, <1>5 DEF RecOK, Coordinating, Leasing
<1>8. /\ Held(u) = {w} /\ TopMode(u) = "read" /\ RepoMode(u, r) = Mode(Writes(h))
      /\ \A s : s # r => RepoMode(u, s) = "out"
  BY <1>2, <1>5, <1>7, LeaseFacts DEF Writes
<1>9. TopMode(t) = "read" BY <1>3, LightModes
<1>10. TopInv(topology', handlers') BY <1>6, <1>8, <1>9, SameTopGate
<1>11. g \in Registries /\ KeepsGates(registry, g) /\ \A x : x \notin R /\ x[2] = w => Exact(g, R \cup {x})
  BY <1>1, <1>2, RetainFacts, KeepsAreKept
<1>12. mid = handlers /\ SameRepos(t, t) BY <1>1 DEF Put, SameRepos
<1>13. GatesInv(g, handlers) BY <1>1, <1>11, <1>12, GatesStay
<1>14. Writes(h) \in BOOLEAN BY DEF Writes
<1>15. n \in Gates
  <2>1. GateOK(g.coords[r].gate, RepoModes(handlers, r)) BY <1>2, <1>13 DEF GatesInv
  <2>2. RepoModes(handlers, r)[h] = "out" BY <1>1, <1>3, PutModes
  <2>3. RepoModes(handlers, r) \in Modes BY ModesType
  <2>4. GateOK(n, [RepoModes(handlers, r) EXCEPT ![h] = Mode(Writes(h))])
    BY ONLY <1>14, <2>1, <2>2, <2>3, h \in Handlers, AskOK
  <2> QED BY <2>4 DEF GateOK
<1>16. registry' = WithGate(g, r, n) BY DEF AskRepo, WithGate
<1>n. n = Ask(g.coords[r].gate, h, Writes(h)) OBVIOUS
<1> HIDE DEF n
<1>17. /\ registry' \in Registries /\ registry'.coords[r].gate = n
       /\ \A s \in Repos : s # r => registry'.coords[s].gate = g.coords[s].gate
       /\ \A S : Exact(g, S) => Exact(registry', S)
  BY ONLY <1>2, <1>11, <1>15, <1>16, SetGateFacts
<1>18. GatesInv(registry', handlers')
  <2>1. t.pc # "gate" BY <1>3 DEF Light
  <2>2. /\ RepoMode(t, r) = "out" /\ RepoMode(u, r) = Mode(Writes(h))
        /\ \A s \in Repos \ {r} : RepoMode(u, s) = RepoMode(t, s)
    BY <1>3, <1>8
  <2> QED BY ONLY <1>n, <1>1, <1>2, <1>5, <1>6, <1>11, <1>13, <1>14, <1>17, <2>1, <2>2, h \in Handlers, GatesAsk
<1>19. Exact(registry', Refs(handlers', refs', store'))
  <2>1. Refs(handlers', refs', store') = R \cup {ByHandler(h, w)} /\ ByHandler(h, w) \notin R
        /\ ByHandler(h, w)[2] = w
    <3>1. w \notin Held(t) /\ Held(u) = Held(t) \cup {w} BY <1>3, <1>8
    <3>2. Refs(Put(handlers, h, u), refs, store) = R \cup {ByHandler(h, w)}
          /\ ByHandler(h, w) \notin R /\ ByHandler(h, w)[2] = w
      BY ONLY <1>1, <3>1, h \in Handlers, RefsTake
    <3> QED BY <1>6, <3>2
  <2> QED BY <1>11, <1>17, <2>1
<1>20. HandlersOK(handlers') BY ONLY <1>1, <1>5, <1>6, <1>7, h \in Handlers, PutModes
<1> QED BY <1>10, <1>17, <1>18, <1>19, <1>20 DEF Core

\* EnterRepository keeps Core.
LEMMA EnterRepositoryCore ==
    ASSUME Core, NEW h \in Handlers, EnterRepository(h)
    PROVE  Core'
<1>1. handlers[h].pc = "enter" /\ LetIn(topology, h) /\ refs' = refs /\ store' = store
      /\ registry \in Registries /\ handlers[h] \in HandlerRecs
  BY DEF EnterRepository, At, sessions, Core, HandlersOK
<1>2. Tree(h) \in Worktrees BY <1>1 DEF Tree, HandlerRecs
<1>3. CASE /\ \E g \in retainIdentity(registry, Tree(h)) :
               /\ registry' = AskRepo(g, h, Tree(h), Writes(h))
               /\ handlers' = [handlers EXCEPT ![h].pc = "gate",
                       ![h].queued = ~canAcquireImmediately(g.coords[RepoOf[Tree(h)]].gate,
                                                            Writes(h))]
           /\ UNCHANGED topology
  BY <1>1, <1>3, EnteredCore
<1>4. CASE registry' \in retainFailures(registry, Tree(h)) /\ topology' = release(topology, FALSE)
           /\ Done(h)
  BY <1>1, <1>2, <1>4, FailFacts, KeepsAreKept, DoneReading
<1>5. CASE topology' = release(topology, FALSE) /\ Goto(h, "mark") /\ UNCHANGED registry
  BY <1>1, <1>5, SameRegistry, GoneReading
<1> QED BY <1>3, <1>4, <1>5 DEF EnterRepository

\* MarkIncomplete keeps Core.
LEMMA MarkIncompleteCore ==
    ASSUME Core, NEW h \in Handlers, MarkIncomplete(h)
    PROVE  Core'
<1>1. handlers[h].pc = "mark" /\ refs' = refs /\ store' = store /\ topology' = topology
      /\ Done(h) /\ registry' = [registry EXCEPT !.incomplete = TRUE]
      /\ registry \in Registries /\ HandlersOK(handlers)
  BY DEF MarkIncomplete, At, sessions, Core
<1>2. handlers' = Put(handlers, h, IdleHandler) BY <1>1, DoneFacts
<1>3. IdleHandler.pc \in Light /\ handlers[h].pc \in Light BY <1>1, IdleFacts DEF Light
<1>4. TopMode(handlers[h]) = "out" /\ handlers[h].pc \notin Asking
  BY <1>1, <1>3, LightModes DEF Asking
<1>5. TopInv(topology', handlers') BY <1>1, <1>2, <1>4, IdleFacts, SameTopGate
<1>6. registry' \in Registries /\ KeepsGates(registry, registry')
      /\ \A R : Exact(registry, R) => Exact(registry', R)
  BY <1>1, MarkFacts, SameKeeps, KeepsAreKept
<1> QED BY <1>1, <1>2, <1>3, <1>5, <1>6, IdleFacts, LightStep

\* CancelTopology keeps Core.
LEMMA CancelTopologyCore ==
    ASSUME Core, NEW h \in Handlers, CancelTopology(h)
    PROVE  Core'
<1>1. handlers[h].pc \in {"resolve", "retain", "enter", "coordinate"}
      /\ topology' = GiveUp(topology, h, At(h, "coordinate"))
      /\ refs' = refs /\ store' = store /\ Done(h) /\ registry' = registry
      /\ registry \in Registries /\ HandlersOK(handlers) /\ TopInv(topology, handlers)
  BY DEF CancelTopology, Core
<1>2. handlers' = Put(handlers, h, IdleHandler) BY <1>1, DoneFacts
<1>3. IdleHandler.pc \in Light /\ handlers[h].pc \in Light BY <1>1, IdleFacts DEF Light
<1>4. TopMode(handlers[h]) = Mode(At(h, "coordinate")) /\ At(h, "coordinate") \in BOOLEAN
  BY <1>1, <1>3, LightModes DEF Mode, At
<1>5. TopInv(topology', handlers') BY <1>1, <1>2, <1>4, IdleFacts, TopGiveUp
<1> QED BY <1>1, <1>2, <1>3, <1>5, IdleFacts, SameRegistry, LightStep

\* Snapshots leave the store of a session, with their references.
LEMMA DropFrom ==
    ASSUME StoresOK(store), NEW s \in Sessions, NEW gone \in SUBSET store[s],
           NEW g \in Registries, NEW hs, NEW rf, Exact(g, Refs(hs, rf, store))
    PROVE  /\ Without(g, s, gone) \in Registries /\ SameCoords(g, Without(g, s, gone))
           /\ Exact(Without(g, s, gone), Refs(hs, rf, Dropped(store, s, gone)))
           /\ StoresOK(Dropped(store, s, gone))
           /\ \A v \in Worktrees : Without(g, s, gone).trees[v] = NoEntry <=> g.trees[v] = NoEntry
<1> DEFINE R == Refs(hs, rf, store)
           G == {BySnapshot(s, x) : x \in gone}
<1>1. store \in [Sessions -> SUBSET Snapshots] BY DEF StoresOK
<1>2. Refs(hs, rf, Dropped(store, s, gone)) = R \ G /\ G \subseteq R
  BY <1>1, RefsStoreDrop
<1>3. Without(g, s, gone) = Released(g, G) BY DEF Without
<1>4. Exact(g, R) OBVIOUS
<1> HIDE DEF R, G
<1>5. /\ Released(g, G) \in Registries /\ SameCoords(g, Released(g, G))
      /\ Exact(Released(g, G), R \ G)
      /\ \A v \in Worktrees : Released(g, G).trees[v] = NoEntry <=> g.trees[v] = NoEntry
  BY <1>2, <1>4, ReleasedFacts
<1>6. StoresOK(Dropped(store, s, gone))
  <2> DEFINE p == Dropped(store, s, gone)
  <2>1. p \in [Sessions -> SUBSET Snapshots] /\ \A i \in Sessions : p[i] \subseteq store[i]
    BY <1>1 DEF Dropped
  <2> HIDE DEF p
  <2>2. \A i \in Sessions : \A x, y \in p[i] : Key(x) = Key(y) => x = y
    BY <1>1, <2>1 DEF StoresOK
  <2> QED BY <2>1, <2>2 DEF StoresOK, p
<1> QED BY <1>2, <1>3, <1>5, <1>6

\* The same of the registry and the store as they are.
LEMMA DropFacts ==
    ASSUME Core, NEW s \in Sessions, NEW gone \in SUBSET store[s],
           NEW g \in Registries, \A R : Exact(registry, R) => Exact(g, R)
    PROVE  /\ Without(g, s, gone) \in Registries /\ SameCoords(g, Without(g, s, gone))
           /\ Exact(Without(g, s, gone), Refs(handlers, refs, Dropped(store, s, gone)))
           /\ StoresOK(Dropped(store, s, gone))
           /\ \A v \in Worktrees : Without(g, s, gone).trees[v] = NoEntry <=> g.trees[v] = NoEntry
<1>1. StoresOK(store) /\ Exact(g, Refs(handlers, refs, store)) BY DEF Core
<1> QED BY <1>1, DropFrom

\* Two states of a lease.
LEMMA SameLease ==
    ASSUME NEW t \in HandlerRecs, RecOK(t), Leasing(t), NEW u \in HandlerRecs, RecOK(u), Leasing(u),
           u.kind = t.kind, u.tree = t.tree
    PROVE  SameRepos(t, u) /\ Held(u) = Held(t) /\ TopMode(u) = TopMode(t)
<1>1. TopMode(t) = TopMode(u) /\ Held(u) = Held(t) BY LeaseFacts
<1>2. ASSUME NEW r PROVE RepoMode(u, r) = RepoMode(t, r)
  <2>1. CASE r = RepoOf[t.tree]
    <3>1. RepoMode(t, r) = Mode(t.kind = "mutation") BY <2>1, LeaseFacts
    <3>2. RepoMode(u, r) = Mode(u.kind = "mutation") BY <2>1, LeaseFacts
    <3> QED BY <3>1, <3>2
  <2>2. CASE r # RepoOf[t.tree] BY <2>2, LeaseFacts
  <2> QED BY <2>1, <2>2
<1> QED BY <1>1, <1>2 DEF SameRepos

\* A handler moves within its lease.
LEMMA LeaseStep ==
    ASSUME Core, NEW h \in Handlers, NEW u, handlers' = Put(handlers, h, u),
           u \in HandlerRecs, RecOK(u), Leasing(handlers[h]), Leasing(u),
           u.kind = handlers[h].kind, u.tree = handlers[h].tree,
           handlers[h].pc = "gate" => LetIn(RepoGate(Tree(h)), h),
           topology' = topology,
           registry' \in Registries, KeepsGates(registry, registry'),
           refs' \in [Sessions -> SUBSET Worktrees], StoresOK(store'),
           Exact(registry', Refs(handlers, refs', store'))
    PROVE  Core'
<1> DEFINE t == handlers[h]
<1>1. t \in HandlerRecs /\ RecOK(t) /\ HandlersOK(handlers) /\ GatesInv(registry, handlers)
  BY DEF Core, HandlersOK
<1>2. SameRepos(t, u) /\ Held(u) = Held(t) /\ TopMode(u) = TopMode(t) BY <1>1, SameLease
<1>3. t.pc \notin Asking BY <1>1, LeaseFacts
<1>4. TopInv(topology', handlers') BY <1>2, <1>3, SameTopGate
<1>5. ASSUME t.pc = "gate", NEW r \in Repos PROVE h \notin Waiters(registry.coords[r].gate)
  <2>1. CASE r = RepoOf[t.tree] BY <1>5, <2>1 DEF RepoGate, Tree, LetIn
  <2>2. CASE r # RepoOf[t.tree]
    <3>1. RepoModes(handlers, r)[h] = "out" BY <1>1, <2>2, LeaseFacts, PutModes
    <3>2. QueueOK(registry.coords[r].gate, RepoModes(handlers, r)) BY <1>1 DEF GatesInv, GateOK
    <3> QED BY <3>1, <3>2 DEF QueueOK, Waiters
  <2> QED BY <2>1, <2>2
<1> QED BY <1>2, <1>4, <1>5, MoveStep

\* What invalidate removes was stored.
LEMMA StaleInStore ==
    ASSUME NEW s, NEW w
    PROVE  Stale(s, w) \in SUBSET store[s]
BY DEF Stale

\* Leased keeps Core.
LEMMA LeasedCore ==
    ASSUME Core, NEW h \in Handlers, Leased(h)
    PROVE  Core'
<1> DEFINE s == InSession(h)
           t == handlers[h]
           gone == IF Writes(h) THEN Stale(InSession(h), Tree(h)) ELSE {}
           g == IF Writes(h) THEN Bump(registry, Tree(h)) ELSE registry
           e == g.coords[RepoOf[Tree(h)]].epoch
           u == [t EXCEPT !.pc = "work", !.queued = FALSE, !.epoch = e]
<1>1. t \in HandlerRecs /\ RecOK(t) /\ HandlersOK(handlers) /\ registry \in Registries
      /\ handlers \in [Handlers -> HandlerRecs] /\ refs \in [Sessions -> SUBSET Worktrees]
      /\ s \in Sessions
  BY SessionType DEF Core, HandlersOK
<1>2. t.pc = "gate" /\ LetIn(RepoGate(Tree(h)), h) /\ topology' = topology /\ refs' = refs
      /\ registry' = Without(g, s, gone) /\ store' = Dropped(store, s, gone)
      /\ handlers' = Put(handlers, h, u)
  BY <1>1 DEF Leased, At, sessions, Dropped, Put
<1>3. Tree(h) \in Worktrees /\ RepoOf[Tree(h)] \in Repos
  BY <1>1, GitConstants DEF Tree, HandlerRecs
<1>4. g \in Registries /\ \A R : Exact(registry, R) => Exact(g, R)
  BY <1>1, <1>3, BumpFacts
<1>5. \A r \in Repos : g.coords[r].gate = registry.coords[r].gate
  BY <1>1, <1>3, BumpFacts
<1>6. gone \in SUBSET store[s] BY StaleInStore
<1> HIDE DEF g, gone
<1>7. e \in Nat BY <1>3, <1>4 DEF Registries, Coordinators
<1> HIDE DEF e
<1>8. u \in HandlerRecs /\ u.pc = "work" /\ u.kind = t.kind /\ u.tree = t.tree /\ u.locked = t.locked
      /\ u.ids = t.ids /\ u.pin = t.pin
  BY <1>1, <1>7 DEF HandlerRecs, Phases
<1> HIDE DEF u
<1>9. Leasing(t) /\ Leasing(u) BY <1>2, <1>8 DEF Leasing
<1>10. RecOK(u) BY <1>1, <1>2, <1>8 DEF RecOK, Coordinating
<1>11. /\ registry' \in Registries /\ SameCoords(g, registry')
       /\ Exact(registry', Refs(handlers, refs', store')) /\ StoresOK(store')
  BY <1>1, <1>2, <1>4, <1>6, DropFacts
<1>12. KeepsGates(registry, registry') BY <1>5, <1>11 DEF KeepsGates, SameCoords
<1> QED BY <1>1, <1>2, <1>8, <1>9, <1>10, <1>11, <1>12, LeaseStep

\* Capture keeps Core.
LEMMA CaptureCore ==
    ASSUME Core, content \in [Worktrees -> Contents], NEW h \in Handlers, Capture(h)
    PROVE  Core'
<1> DEFINE s == InSession(h)
           t == handlers[h]
           x == [tree |-> Tree(h), content |-> content[Tree(h)], epoch |-> handlers[h].epoch]
           same == {y \in store[s] : Key(y) = Key(x)}
           u == [t EXCEPT !.pc = "release", !.pin = {Key(x)}]
           R == Refs(handlers, refs, store)
           G == {BySnapshot(s, y) : y \in same}
<1>1. t \in HandlerRecs /\ RecOK(t) /\ HandlersOK(handlers) /\ registry \in Registries
      /\ handlers \in [Handlers -> HandlerRecs] /\ refs \in [Sessions -> SUBSET Worktrees]
      /\ s \in Sessions /\ StoresOK(store) /\ Exact(registry, R)
      /\ store \in [Sessions -> SUBSET Snapshots]
  BY SessionType DEF Core, HandlersOK, StoresOK
<1>2. t.pc = "work" /\ t.kind = "read" /\ topology' = topology /\ refs' = refs
      /\ store' = Stored(store, s, same, x) /\ handlers' = Put(handlers, h, u)
      /\ registry' \in IF same = {} THEN retainIdentity(registry, Tree(h))
                                    ELSE admitIdentity(registry, Tree(h))
  BY <1>1 DEF Capture, At, sessions, Stored, Put
<1>3. Tree(h) \in Worktrees /\ Tree(h) = t.tree /\ t.epoch \in Nat BY <1>1 DEF Tree, HandlerRecs
<1>4. x \in Snapshots /\ Key(x) \in Keys /\ x.tree = t.tree /\ Key(x).tree = t.tree
  BY <1>3 DEF Snapshots, Keys, Key
<1> HIDE DEF x
<1>5. same \in SUBSET store[s] /\ (x \in store[s] => x \in same)
      /\ \A y \in same : Key(y) = Key(x)
  OBVIOUS
<1>6. u \in HandlerRecs /\ u.pc = "release" /\ u.kind = t.kind /\ u.tree = t.tree
      /\ u.locked = t.locked /\ u.ids = t.ids /\ u.pin = {Key(x)}
  BY <1>1, <1>4 DEF HandlerRecs, Phases
<1>7. \A y : y \in store[s] /\ Key(y) = Key(x) => y \in same OBVIOUS
<1> HIDE DEF u, same
<1>8. Leasing(t) /\ Leasing(u) /\ t.pc # "gate" BY <1>2, <1>6 DEF Leasing
<1>9. RecOK(u) BY <1>1, <1>2, <1>4, <1>6 DEF RecOK, Coordinating
<1>10. StoresOK(store')
  <2>1. store' \in [Sessions -> SUBSET Snapshots] /\ store'[s] = (store[s] \ same) \cup {x}
        /\ \A i \in Sessions \ {s} : store'[i] = store[i]
    BY <1>1, <1>2, <1>4, <1>5 DEF Stored
  <2>2. ASSUME NEW i \in Sessions, NEW y \in store'[i], NEW z \in store'[i], Key(y) = Key(z)
        PROVE  y = z
    <3>1. CASE i # s BY <1>1, <2>1, <2>2, <3>1 DEF StoresOK
    <3>2. CASE i = s
      <4>1. \A a \in store[s] \ same : Key(a) # Key(x) BY <1>7
      <4>2. CASE y = x BY <2>1, <2>2, <3>2, <4>1, <4>2
      <4>3. CASE z = x BY <2>1, <2>2, <3>2, <4>1, <4>3
      <4>4. CASE y # x /\ z # x BY <1>1, <2>1, <2>2, <3>2, <4>4 DEF StoresOK
      <4> QED BY <4>2, <4>3, <4>4
    <3> QED BY <3>1, <3>2
  <2> QED BY <2>1, <2>2 DEF StoresOK
<1>11. Refs(handlers, refs', store') = (R \ G) \cup {BySnapshot(s, x)}
  BY <1>1, <1>2, <1>5, RefsStoreAdd
<1>12. BySnapshot(s, x)[2] = Tree(h) BY <1>3, <1>4, RefsDiffer
<1>13. BySnapshot(s, x) \in R => BySnapshot(s, x) \in G
  <2> SUFFICES ASSUME BySnapshot(s, x) \in R PROVE BySnapshot(s, x) \in G OBVIOUS
  <2>1. BySnapshot(s, x) \in SnapshotRefs(store) BY RefsApart DEF Refs
  <2>2. PICK i \in Sessions : \E y \in store[i] : BySnapshot(s, x) = BySnapshot(i, y)
    BY <2>1, SnapshotRefsMembers
  <2>3. x \in store[s] BY <2>2, RefsDiffer
  <2> QED BY <1>5, <2>3
<1>14. /\ registry' \in Registries /\ KeepsGates(registry, registry')
       /\ Exact(registry', Refs(handlers, refs', store'))
  <2>1. CASE same = {}
    <3>1. registry' \in retainIdentity(registry, Tree(h)) BY <1>2, <2>1
    <3>2. G = {} BY <2>1
    <3> HIDE DEF G, R
    <3>3. BySnapshot(s, x) \notin R /\ Refs(handlers, refs', store') = R \cup {BySnapshot(s, x)}
      BY <1>11, <1>13, <3>2
    <3> QED BY <1>1, <1>3, <1>12, <3>1, <3>3, RetainFacts, KeepsAreKept
  <2>2. CASE same # {}
    <3>1. registry' \in admitIdentity(registry, Tree(h)) BY <1>2, <2>2
    <3>2. PICK y \in same : TRUE BY <2>2
    <3>3. \A z \in same : z = y BY <1>1, <1>5, <3>2 DEF StoresOK
    <3>4. G = {BySnapshot(s, y)} BY <3>2, <3>3
    <3>5. y.tree = x.tree BY <1>5, <3>2 DEF Key
    <3>6. BySnapshot(s, y) \in R BY <1>1, <1>5, <3>2, SnapshotRefsMembers DEF Refs
    <3> HIDE DEF G, R
    <3>7. registry' \in Registries /\ Keeps(registry, registry') /\ Exact(registry', R)
      BY <1>1, <1>3, <3>1, AdmitFacts
    <3> DEFINE a == BySnapshot(s, y)
               b == BySnapshot(s, x)
    <3>8. a[2] = b[2] /\ a \in R /\ (b \in R => b = a)
      BY <1>13, <3>4, <3>5, <3>6, RefsDiffer
    <3> HIDE DEF a, b
    <3>9. Exact(registry', (R \ {a}) \cup {b})
      <4> DEFINE S == R \ {a}
      <4>1. IsFiniteSet(R) /\ IsFiniteSet(S) BY <3>7, FS_RemoveElement DEF Exact
      <4>2. S \cup {a} = R /\ a \notin S /\ b \notin S BY <3>8
      <4> HIDE DEF S
      <4>3. IsFiniteSet(S \cup {b}) BY <4>1, FS_AddElement
      <4>4. ASSUME NEW ws PROVE Uses(S \cup {b}, ws) = Uses(R, ws)
        <5>1. Uses(S \cup {a}, ws) = IF a[2] \in ws THEN Uses(S, ws) + 1 ELSE Uses(S, ws)
          BY ONLY <4>1, <4>2, UsesAdd
        <5>2. Uses(S \cup {b}, ws) = IF b[2] \in ws THEN Uses(S, ws) + 1 ELSE Uses(S, ws)
          BY ONLY <4>1, <4>2, UsesAdd
        <5> QED BY <3>8, <4>2, <5>1, <5>2
      <4>5. Exact(registry', S \cup {b}) BY <3>7, <4>3, <4>4 DEF Exact
      <4> QED BY <4>5 DEF S
    <3> QED BY <1>11, <3>4, <3>7, <3>9, KeepsAreKept DEF a, b
  <2> QED BY <2>1, <2>2
<1> HIDE DEF R
<1> QED BY <1>1, <1>2, <1>6, <1>8, <1>9, <1>10, <1>14, LeaseStep

\* Page keeps Core.
LEMMA PageCore ==
    ASSUME Core, NEW h \in Handlers, NEW x \in store[InSession(h)], Page(h, x)
    PROVE  Core'
<1> DEFINE s == InSession(h)
           t == handlers[h]
           u == handlers'[h]
<1>1. t \in HandlerRecs /\ RecOK(t) /\ HandlersOK(handlers) /\ registry \in Registries
      /\ handlers \in [Handlers -> HandlerRecs] /\ refs \in [Sessions -> SUBSET Worktrees]
      /\ s \in Sessions /\ StoresOK(store) /\ Exact(registry, Refs(handlers, refs, store))
      /\ x \in Snapshots
  BY SessionType DEF Core, HandlersOK, StoresOK
<1>2. t.pc = "work" /\ t.kind = "read" /\ topology' = topology /\ refs' = refs
      /\ x.tree = t.tree
  BY <1>1 DEF Page, At, sessions, Tree
<1>3. CASE /\ handlers' = [handlers EXCEPT ![h].pc = "release", ![h].pin = {Key(x)}]
           /\ UNCHANGED <<registry, store>>
  <2> DEFINE v == [t EXCEPT !.pc = "release", !.pin = {Key(x)}]
  <2>1. handlers' = Put(handlers, h, v) BY <1>1, <1>3 DEF Put
  <2>2. Key(x) \in Keys /\ Key(x).tree = t.tree BY <1>1, <1>2 DEF Key, Keys, Snapshots
  <2>3. v \in HandlerRecs /\ v.pc = "release" /\ v.kind = t.kind /\ v.tree = t.tree
        /\ v.locked = t.locked /\ v.ids = t.ids /\ v.pin = {Key(x)}
    BY <1>1, <2>2 DEF HandlerRecs, Phases
  <2> HIDE DEF v
  <2>4. Leasing(t) /\ Leasing(v) /\ t.pc # "gate" BY <1>2, <2>3 DEF Leasing
  <2>5. RecOK(v) BY <1>1, <1>2, <2>2, <2>3 DEF RecOK, Coordinating
  <2>6. registry' \in Registries /\ KeepsGates(registry, registry') /\ StoresOK(store')
        /\ Exact(registry', Refs(handlers, refs', store'))
    BY <1>1, <1>2, <1>3 DEF KeepsGates
  <2> QED BY <1>1, <1>2, <2>1, <2>3, <2>4, <2>5, <2>6, LeaseStep
<1>4. CASE /\ registry' = Without(registry, s, Stale(s, x.tree))
           /\ store' = [store EXCEPT ![s] = @ \ Stale(s, x.tree)]
           /\ Goto(h, "release")
  <2>1. "release" \in Phases BY DEF Phases
  <2>2. handlers' = Put(handlers, h, u) /\ u \in HandlerRecs /\ u.pc = "release"
        /\ u.pin = t.pin /\ u.tree = t.tree /\ u.kind = t.kind
        /\ u.ids = t.ids /\ u.locked = t.locked
    BY <1>1, <1>4, <2>1, GotoFacts
  <2> HIDE DEF u
  <2>3. Leasing(t) /\ Leasing(u) /\ t.pc # "gate" BY <1>2, <2>2 DEF Leasing
  <2>4. RecOK(u) BY <1>1, <1>2, <2>2 DEF RecOK, Coordinating
  <2>5. store' = Dropped(store, s, Stale(s, x.tree)) BY <1>4 DEF Dropped
  <2>6. /\ registry' \in Registries /\ SameCoords(registry, registry')
        /\ Exact(registry', Refs(handlers, refs', store')) /\ StoresOK(store')
    <3>1. \A R : Exact(registry, R) => Exact(registry, R) OBVIOUS
    <3>2. Stale(s, x.tree) \in SUBSET store[s] BY StaleInStore
    <3> HIDE DEF s
    <3> QED BY <1>1, <1>2, <1>4, <2>5, <3>1, <3>2, DropFacts
  <2>7. KeepsGates(registry, registry') BY <2>6 DEF KeepsGates, SameCoords
  <2> QED BY <1>1, <1>2, <2>2, <2>3, <2>4, <2>6, <2>7, LeaseStep
<1> QED BY <1>3, <1>4 DEF Page

\* A handler moves between coordinating phases with the same worktrees taken.
LEMMA CoordStep ==
    ASSUME Core, NEW h \in Handlers, NEW u, handlers' = Put(handlers, h, u),
           u \in HandlerRecs, RecOK(u), Coordinating(handlers[h]), Coordinating(u),
           Taken(u) = Taken(handlers[h]), LetIn(topology, h) \/ handlers[h].pc \notin Asking,
           topology' = topology,
           registry' \in Registries, KeepsGates(registry, registry'),
           refs' \in [Sessions -> SUBSET Worktrees], StoresOK(store'),
           Exact(registry', Refs(handlers, refs', store'))
    PROVE  Core'
<1> DEFINE t == handlers[h]
<1>1. t \in HandlerRecs /\ RecOK(t) BY DEF Core, HandlersOK
<1>2. SameRepos(t, u) /\ Held(u) = Held(t) /\ TopMode(u) = TopMode(t) BY <1>1, SameTaken
<1>3. TopInv(topology', handlers') BY <1>2, SameTopGate
<1>4. t.pc # "gate" BY DEF Coordinating
<1> QED BY <1>2, <1>3, <1>4, MoveStep

\* the registry that counts the same keeps its counts
LEMMA CountsKept ==
    ASSUME Core, \A R : Exact(registry, R) => Exact(registry', R), refs' = refs, store' = store
    PROVE  /\ refs' \in [Sessions -> SUBSET Worktrees] /\ StoresOK(store')
           /\ Exact(registry', Refs(handlers, refs', store'))
BY DEF Core

\* ReadOnly keeps Core.
LEMMA ReadOnlyCore ==
    ASSUME Core, NEW h \in Handlers, ReadOnly(h)
    PROVE  Core'
<1> DEFINE t == handlers[h]
           u == handlers'[h]
<1>1. t \in HandlerRecs /\ RecOK(t) /\ HandlersOK(handlers) /\ registry \in Registries
  BY DEF Core, HandlersOK
<1>2. t.pc = "work" /\ topology' = topology /\ registry' = registry /\ refs' = refs
      /\ store' = store /\ Goto(h, "release")
  BY DEF ReadOnly, At, sessions
<1>3. "release" \in Phases BY DEF Phases
<1>4. handlers' = Put(handlers, h, u) /\ u \in HandlerRecs /\ u.pc = "release"
      /\ u.pin = t.pin /\ u.tree = t.tree /\ u.kind = t.kind
      /\ u.ids = t.ids /\ u.locked = t.locked
  BY <1>1, <1>2, <1>3, GotoFacts
<1> HIDE DEF u
<1>5. Leasing(t) /\ Leasing(u) /\ t.pc # "gate" BY <1>2, <1>4 DEF Leasing
<1>6. RecOK(u) BY <1>1, <1>2, <1>4 DEF RecOK, Coordinating
<1>7. registry' \in Registries /\ KeepsGates(registry, registry')
      /\ refs' \in [Sessions -> SUBSET Worktrees] /\ StoresOK(store')
      /\ Exact(registry', Refs(handlers, refs', store'))
  BY <1>1, <1>2, SameRegistry, CountsKept
<1> QED BY <1>2, <1>4, <1>5, <1>6, <1>7, LeaseStep

\* Mutate keeps Core.
LEMMA MutateCore ==
    ASSUME Core, NEW h \in Handlers, Mutate(h)
    PROVE  Core'
<1> DEFINE t == handlers[h]
           u == handlers'[h]
<1>1. t \in HandlerRecs /\ RecOK(t) /\ HandlersOK(handlers) /\ registry \in Registries
  BY DEF Core, HandlersOK
<1>2. t.pc = "work" /\ t.kind = "mutation" /\ topology' = topology /\ registry' = registry
      /\ refs' = refs /\ store' = store /\ \E pc \in {"reload", "release"} : Goto(h, pc)
  BY DEF Mutate, At, sessions, Writes
<1>3. PICK pc \in {"reload", "release"} : Goto(h, pc) BY <1>2
<1>4. pc \in Phases BY <1>3 DEF Phases
<1>5. handlers' = Put(handlers, h, u) /\ u \in HandlerRecs /\ u.pc = pc
      /\ u.pin = t.pin /\ u.tree = t.tree /\ u.kind = t.kind
      /\ u.ids = t.ids /\ u.locked = t.locked
  BY <1>1, <1>3, <1>4, GotoFacts
<1> HIDE DEF u
<1>6. Leasing(t) /\ Leasing(u) /\ t.pc # "gate" /\ ~Coordinating(t) /\ ~Coordinating(u)
  BY <1>2, <1>3, <1>5 DEF Leasing, Coordinating
<1>7. t.pin = {} /\ t.locked = {} BY <1>1, <1>2, <1>6 DEF RecOK
<1>8. RecOK(u) BY <1>1, <1>3, <1>5, <1>6, <1>7 DEF RecOK
<1>9. registry' \in Registries /\ KeepsGates(registry, registry')
      /\ refs' \in [Sessions -> SUBSET Worktrees] /\ StoresOK(store')
      /\ Exact(registry', Refs(handlers, refs', store'))
  BY <1>1, <1>2, SameRegistry, CountsKept
<1> QED BY <1>2, <1>5, <1>6, <1>8, <1>9, LeaseStep

\* The moves of Reload, in a lease and in an effect.
LEMMA ReloadStep ==
    ASSUME Core, NEW h \in Handlers, handlers[h].pc = "reload", NEW pc, Goto(h, pc),
           IF Writes(h) THEN pc = "release" ELSE pc \in {"effect", "unlock"},
           topology' = topology,
           registry' \in Registries, KeepsGates(registry, registry'),
           refs' \in [Sessions -> SUBSET Worktrees], StoresOK(store'),
           Exact(registry', Refs(handlers, refs', store'))
    PROVE  Core'
<1> DEFINE t == handlers[h]
           u == handlers'[h]
<1>1. t \in HandlerRecs /\ RecOK(t) /\ HandlersOK(handlers)
  BY DEF Core, HandlersOK
<1>2. pc \in Phases BY DEF Phases
<1>3. handlers' = Put(handlers, h, u) /\ u \in HandlerRecs /\ u.pc = pc
      /\ u.pin = t.pin /\ u.tree = t.tree /\ u.kind = t.kind
      /\ u.ids = t.ids /\ u.locked = t.locked /\ u.todo = t.todo
  BY <1>1, <1>2, GotoFacts
<1> HIDE DEF u
<1>4. CASE Writes(h)
  <2>1. pc = "release" /\ t.kind = "mutation" BY <1>4 DEF Writes
  <2>2. Leasing(t) /\ Leasing(u) /\ t.pc # "gate" /\ ~Coordinating(u)
    BY <1>3, <2>1 DEF Leasing, Coordinating
  <2>3. t.locked = {} BY <1>1, <2>2, LeaseFacts
  <2>4. RecOK(u) BY <1>1, <1>3, <2>1, <2>2, <2>3 DEF RecOK
  <2> QED BY <1>3, <2>2, <2>4, LeaseStep
<1>5. CASE ~Writes(h)
  <2>1. pc \in {"effect", "unlock"} /\ t.kind # "mutation" BY <1>5 DEF Writes
  <2>2. Coordinating(t) /\ Coordinating(u) /\ t.pc \notin Asking
    BY <1>3, <2>1 DEF Coordinating, Asking
  <2>3. RecOK(u) BY <1>1, <1>3, <2>1, <2>2 DEF RecOK
  <2>4. Taken(u) = Taken(t) BY <1>3, <2>1 DEF Taken
  <2> QED BY <1>3, <2>2, <2>3, <2>4, CoordStep
<1> QED BY <1>4, <1>5

\* Reload keeps Core.
LEMMA ReloadCore ==
    ASSUME Core, NEW h \in Handlers, Reload(h)
    PROVE  Core'
<1>1. handlers[h] \in HandlerRecs /\ registry \in Registries /\ refs \in [Sessions -> SUBSET Worktrees]
  BY DEF Core, HandlersOK
<1>2. handlers[h].pc = "reload" /\ topology' = topology /\ store' = store
  BY DEF Reload, At
<1>3. Tree(h) \in Worktrees BY <1>1 DEF Tree, HandlerRecs
<1>4. /\ IF Writes(h) THEN AfterReload(h) = "release" ELSE AfterReload(h) \in {"effect", "unlock"}
      /\ IF Writes(h) THEN AfterFailedReload(h) = "release"
                      ELSE AfterFailedReload(h) \in {"effect", "unlock"}
  BY DEF AfterReload, AfterFailedReload
<1>5. CASE KeepReference(h, registry) /\ Goto(h, AfterReload(h))
  <2>1. /\ registry' \in Registries /\ KeepsGates(registry, registry')
        /\ refs' \in [Sessions -> SUBSET Worktrees]
        /\ Exact(registry', Refs(handlers, refs', store))
    BY <1>5, SessionType, KeepReferenceFacts
  <2>2. StoresOK(store') BY <1>2 DEF Core
  <2> QED BY <1>2, <1>4, <1>5, <2>1, <2>2, ReloadStep
<1>6. ASSUME /\ registry' \in Registries /\ KeepsGates(registry, registry')
             /\ \A R : Exact(registry, R) => Exact(registry', R),
             refs' = refs, Goto(h, AfterFailedReload(h))
      PROVE  Core'
  <2>1. refs' \in [Sessions -> SUBSET Worktrees] /\ StoresOK(store')
        /\ Exact(registry', Refs(handlers, refs', store'))
    BY <1>2, <1>6, CountsKept
  <2> QED BY <1>2, <1>4, <1>6, <2>1, ReloadStep
<1>7. CASE registry' \in retainFailures(registry, Tree(h)) /\ Goto(h, AfterFailedReload(h))
           /\ UNCHANGED refs
  BY <1>1, <1>3, <1>6, <1>7, FailFacts, KeepsAreKept
<1>8. CASE registry' \in admitIdentity(registry, Tree(h)) /\ Goto(h, AfterFailedReload(h))
           /\ UNCHANGED refs
  BY <1>1, <1>3, <1>6, <1>8, AdmitFacts, KeepsAreKept
<1>9. CASE Goto(h, AfterFailedReload(h)) /\ UNCHANGED <<registry, refs>>
  BY <1>1, <1>6, <1>9, SameRegistry
<1> QED BY <1>5, <1>7, <1>8, <1>9 DEF Reload

\* a registry with the gates of the present one agrees with the handlers
LEMMA GatesSame ==
    ASSUME Core, NEW q, KeepsGates(registry, q)
    PROVE  GatesInv(q, handlers)
<1>1. HandlersOK(handlers) /\ registry \in Registries /\ GatesInv(registry, handlers)
      /\ Exact(registry, Refs(handlers, refs, store))
  BY DEF Core
<1>2. CASE Handlers = {}
  <2> SUFFICES ASSUME NEW r \in Repos
               PROVE  /\ GateOK(q.coords[r].gate, RepoModes(handlers, r))
                      /\ \A c \in Waiters(q.coords[r].gate) : handlers[c].pc = "gate"
    BY DEF GatesInv
  <2>1. Waiters(NewGate) = {} BY DEF NewGate, Waiters
  <2>2. GateOK(NewGate, RepoModes(handlers, r)) BY <1>2, NewGateOK, ModesType
  <2> QED BY <1>1, <2>1, <2>2 DEF KeepsGates, GatesInv
<1>3. CASE Handlers # {}
  <2>1. PICK h \in Handlers : TRUE BY <1>3
  <2>2. Put(handlers, h, handlers[h]) = handlers BY <1>1 DEF Put, HandlersOK
  <2>3. SameRepos(handlers[h], handlers[h]) BY DEF SameRepos
  <2> QED BY <1>1, <2>2, <2>3, GatesStay
<1> QED BY <1>2, <1>3

\* the gate of a repository is released
LEMMA FreeFacts ==
    ASSUME HandlersOK(handlers), NEW q \in Registries, GatesInv(q, handlers), NEW h \in Handlers,
           NEW w \in Worktrees, NEW write \in BOOLEAN,
           RepoMode(handlers[h], RepoOf[w]) = Mode(write), handlers[h].pc # "gate"
    PROVE  /\ FreeRepo(q, w, write) \in Registries
           /\ FreeRepo(q, w, write).coords[RepoOf[w]].gate = release(q.coords[RepoOf[w]].gate, write)
           /\ \A s \in Repos :
                 /\ s # RepoOf[w] => FreeRepo(q, w, write).coords[s].gate = q.coords[s].gate
                 /\ FreeRepo(q, w, write).coords[s].epoch = q.coords[s].epoch
                 /\ FreeRepo(q, w, write).coords[s].refs = q.coords[s].refs
           /\ \A R : Exact(q, R) => Exact(FreeRepo(q, w, write), R)
           /\ FreeRepo(q, w, write).trees = q.trees
<1> DEFINE r == RepoOf[w]
           g == q.coords[r].gate
           e == RepoModes(handlers, r)
           n == release(g, write)
<1>1. r \in Repos BY GitConstants
<1>2. GateOK(g, e) /\ e \in Modes /\ e[h] = Mode(write) /\ \A c \in Waiters(g) : handlers[c].pc = "gate"
  BY <1>1, ModesType, PutModes DEF GatesInv
<1>3. h \in Inside(g, e) BY <1>2 DEF Inside, Mode
<1> HIDE DEF e, g
<1>4. GateOK(n, [e EXCEPT ![h] = "out"])
  BY ONLY <1>2, <1>3, write \in BOOLEAN, ReleaseOK
<1>5. n \in Gates BY <1>4 DEF GateOK
<1>6. FreeRepo(q, w, write) = WithGate(q, r, n) BY DEF FreeRepo, WithGate, g
<1>7. n = release(q.coords[RepoOf[w]].gate, write) BY DEF g
<1> HIDE DEF n
<1>8. /\ WithGate(q, r, n) \in Registries /\ WithGate(q, r, n).coords[r].gate = n
      /\ \A s \in Repos : /\ s # r => WithGate(q, r, n).coords[s].gate = q.coords[s].gate
                          /\ WithGate(q, r, n).coords[s].epoch = q.coords[s].epoch
                          /\ WithGate(q, r, n).coords[s].refs = q.coords[s].refs
      /\ \A R : Exact(q, R) => Exact(WithGate(q, r, n), R)
      /\ WithGate(q, r, n).trees = q.trees
  BY ONLY <1>1, <1>5, q \in Registries, SetGateFacts
<1> QED BY <1>6, <1>7, <1>8, Zenon

\* ReleaseLease keeps Core.
LEMMA ReleaseLeaseCore ==
    ASSUME Core, NEW h \in Handlers, ReleaseLease(h)
    PROVE  Core'
<1> DEFINE s == InSession(h)
           t == handlers[h]
           w == Tree(h)
           others == UNION {handlers[i].pin : i \in {i \in Handlers \ {h} : SessionOf[i] = s}}
           unpinned == IF status[s] = "open" THEN {}
                       ELSE {x \in store[s] : Key(x) \in handlers[h].pin \ others}
           gone == unpinned \cup (IF Writes(h) THEN Stale(s, Tree(h)) ELSE {})
           g == IF Writes(h) THEN Bump(registry, Tree(h)) ELSE registry
           q == Without(g, s, gone)
           u == [t EXCEPT !.pc = "unretain", !.pin = {}]
<1>1. t \in HandlerRecs /\ RecOK(t) /\ HandlersOK(handlers) /\ registry \in Registries
      /\ handlers \in [Handlers -> HandlerRecs] /\ refs \in [Sessions -> SUBSET Worktrees]
      /\ s \in Sessions
  BY SessionType DEF Core, HandlersOK
<1>2. t.pc = "release" /\ topology' = topology /\ refs' = refs
      /\ registry' = FreeRepo(q, w, Writes(h)) /\ store' = Dropped(store, s, gone)
      /\ handlers' = Put(handlers, h, u)
  BY <1>1 DEF ReleaseLease, At, sessions, Dropped, Put
<1>3. w \in Worktrees /\ RepoOf[w] \in Repos /\ w = t.tree
  BY <1>1, GitConstants DEF Tree, HandlerRecs
<1>4. g \in Registries /\ \A R : Exact(registry, R) => Exact(g, R)
  BY <1>1, <1>3, BumpFacts
<1>5. \A r \in Repos : g.coords[r].gate = registry.coords[r].gate
  BY <1>1, <1>3, BumpFacts
<1>6. gone \in SUBSET store[s] BY StaleInStore
<1> HIDE DEF g, gone, others, unpinned
<1>7. u \in HandlerRecs /\ u.pc = "unretain" /\ u.kind = t.kind /\ u.tree = t.tree
      /\ u.locked = t.locked /\ u.ids = t.ids /\ u.pin = {}
  BY <1>1 DEF HandlerRecs, Phases
<1> HIDE DEF u
<1>8. Leasing(t) BY <1>2 DEF Leasing
<1>9. /\ Held(t) = {w} /\ t.locked = {} /\ TopMode(t) = "read" /\ t.pc \notin Asking
      /\ RepoMode(t, RepoOf[w]) = Mode(Writes(h)) /\ \A r : r # RepoOf[w] => RepoMode(t, r) = "out"
  BY <1>1, <1>3, <1>8, LeaseFacts DEF Writes
<1>10. RecOK(u) BY <1>1, <1>7, <1>9 DEF RecOK, Coordinating
<1>11. Held(u) = {w} /\ TopMode(u) = "read" /\ \A r : RepoMode(u, r) = "out"
  BY <1>3, <1>7, <1>10, UnretainFacts
<1>12. TopInv(topology', handlers') BY <1>2, <1>9, <1>11, SameTopGate
<1>13. /\ q \in Registries /\ SameCoords(g, q) /\ StoresOK(store')
       /\ Exact(q, Refs(handlers, refs, store'))
  BY <1>1, <1>2, <1>4, <1>6, DropFacts
<1> HIDE DEF q
<1>14. KeepsGates(registry, q) BY <1>5, <1>13 DEF KeepsGates, SameCoords
<1>15. GatesInv(q, handlers) BY <1>14, GatesSame
<1>16. t.pc # "gate" /\ Writes(h) \in BOOLEAN BY <1>2 DEF Writes
<1>17. /\ registry' \in Registries
       /\ registry'.coords[RepoOf[w]].gate = release(q.coords[RepoOf[w]].gate, Writes(h))
       /\ \A r \in Repos \ {RepoOf[w]} : registry'.coords[r].gate = q.coords[r].gate
       /\ \A R : Exact(q, R) => Exact(registry', R)
  BY <1>1, <1>2, <1>3, <1>9, <1>13, <1>15, <1>16, FreeFacts
<1>18. GatesInv(registry', handlers')
  <2>1. \A r \in Repos \ {RepoOf[w]} : RepoMode(u, r) = RepoMode(t, r) BY <1>9, <1>11
  <2>2. RepoMode(u, RepoOf[w]) = "out" BY <1>11
  <2> QED BY <1>1, <1>2, <1>3, <1>9, <1>13, <1>15, <1>16, <1>17, <2>1, <2>2, GatesLeave
<1>19. Refs(handlers', refs', store') = Refs(handlers, refs, store')
  <2>1. Held(u) = Held(t) BY <1>9, <1>11
  <2> QED BY <1>1, <1>2, <2>1, RefsStay
<1>20. Exact(registry', Refs(handlers', refs', store')) BY <1>13, <1>17, <1>19
<1>21. HandlersOK(handlers') BY <1>1, <1>2, <1>7, <1>10, PutModes
<1> QED BY <1>1, <1>2, <1>12, <1>13, <1>17, <1>18, <1>20, <1>21 DEF Core

\* Unretain keeps Core.
LEMMA UnretainCore ==
    ASSUME Core, NEW h \in Handlers, Unretain(h)
    PROVE  Core'
<1> DEFINE s == InSession(h)
           t == handlers[h]
           w == Tree(h)
           g == ReleasedOne(registry, Tree(h))
           free == release(topology, FALSE)
           R == Refs(handlers, refs, store)
<1>1. /\ t \in HandlerRecs /\ RecOK(t) /\ HandlersOK(handlers) /\ registry \in Registries
      /\ handlers \in [Handlers -> HandlerRecs] /\ refs \in [Sessions -> SUBSET Worktrees]
      /\ s \in Sessions /\ StoresOK(store) /\ TopInv(topology, handlers)
      /\ GatesInv(registry, handlers) /\ Exact(registry, R)
  BY SessionType DEF Core, HandlersOK
<1>2. t.pc = "unretain" /\ refs' = refs BY DEF Unretain, At, sessions
<1>3. w \in Worktrees /\ RepoOf[w] \in Repos /\ w = t.tree
  BY <1>1, GitConstants DEF Tree, HandlerRecs
<1>4. /\ Held(t) = {w} /\ t.locked = {} /\ TopMode(t) = Mode(FALSE) /\ t.pin = {}
      /\ \A r : RepoMode(t, r) = "out"
  BY <1>1, <1>2, <1>3, UnretainFacts DEF RecOK, Mode
<1>5. h \notin Waiters(topology)
  <2>1. t.pc \notin Asking BY <1>2 DEF Asking
  <2> QED BY <1>1, <2>1 DEF TopInv
<1>6. ASSUME NEW v, Held(v) = {}
      PROVE  Exact(g, Refs(Put(handlers, h, v), refs, store))
  <2>1. /\ Refs(Put(handlers, h, v), refs, store) = R \ {ByHandler(h, w)}
        /\ ByHandler(h, w) \in R /\ ByHandler(h, w)[2] = w
    BY <1>1, <1>4, <1>6, RefsDrop
  <2> HIDE DEF R
  <2> QED BY <1>1, <1>3, <2>1, ReleasedOneExact
<1>7. g \in Registries /\ SameCoords(registry, g) BY <1>1, <1>3, ReleasedOneFacts
<1>8. ASSUME NEW v, \A r : RepoMode(v, r) = "out", NEW q, SameCoords(g, q)
      PROVE  GatesInv(q, Put(handlers, h, v))
  <2>1. SameRepos(t, v) BY <1>4, <1>8 DEF SameRepos
  <2>2. KeepsGates(registry, q) BY <1>7, <1>8 DEF SameCoords, KeepsGates
  <2>3. t.pc # "gate" BY <1>2
  <2> QED BY <1>1, <2>1, <2>2, <2>3, GatesStay
<1>9. ASSUME NEW v, TopMode(v) = "out" PROVE TopInv(free, Put(handlers, h, v))
  BY <1>1, <1>4, <1>5, <1>9, TopLeave
<1>10. CASE registry' = g /\ topology' = free /\ Done(h) /\ UNCHANGED store
  <2>1. handlers' = Put(handlers, h, IdleHandler) BY <1>1, <1>10, DoneFacts
  <2>2. SameCoords(g, g) BY DEF SameCoords
  <2>3. GatesInv(g, handlers') BY <1>8, <2>1, <2>2, IdleFacts
  <2>4. HandlersOK(handlers') BY <1>1, <2>1, IdleFacts, PutModes
  <2>5. Exact(g, Refs(handlers', refs, store)) BY <1>6, <2>1, IdleFacts
  <2>6. TopInv(free, handlers') BY <1>9, <2>1, IdleFacts
  <2> HIDE DEF g, free
  <2> QED BY <1>1, <1>2, <1>7, <1>10, <2>3, <2>4, <2>5, <2>6 DEF Core
<1>11. ASSUME NEW linked \in TreesOf(RepoOf[Tree(h)]), t.kind = "delete",
              registry' = Without(g, s, Stale(s, w)),
              store' = [store EXCEPT ![s] = @ \ Stale(s, w)],
              topology' = Ask(free, h, TRUE),
              handlers' = [handlers EXCEPT ![h].pc = "coordinate",
                                    ![h].queued = ~canAcquireImmediately(free, TRUE),
                                    ![h].over = {w, linked},
                                    ![h].todo = {w, linked}]
       PROVE  Core'
  <2> DEFINE b == ~canAcquireImmediately(free, TRUE)
             u == [t EXCEPT !.pc = "coordinate", !.queued = b, !.over = {w, linked},
                            !.todo = {w, linked}]
  <2>1. handlers' = Put(handlers, h, u) BY <1>1, <1>11 DEF Put
  <2>2. b \in BOOLEAN /\ linked \in Worktrees BY DEF TreesOf
  <2> HIDE DEF b
  <2>3. u \in HandlerRecs /\ u.pc = "coordinate" /\ u.kind = "delete" /\ u.tree = w
        /\ u.locked = {} /\ u.ids = t.ids /\ u.pin = {}
    BY <1>1, <1>3, <1>4, <1>11, <2>2 DEF HandlerRecs, Phases
  <2> HIDE DEF u
  <2>4. RecOK(u) BY <1>1, <2>3 DEF RecOK
  <2>5. u.pc \in Light /\ u.pc \in Asking BY <2>3 DEF Light, Asking
  <2>6. TopMode(u) = Mode(TRUE) /\ Held(u) = {} /\ \A r : RepoMode(u, r) = "out"
    BY <2>3, <2>4, <2>5, LightModes, LightFacts DEF Mode
  <2>7. /\ registry' \in Registries /\ SameCoords(g, registry') /\ StoresOK(store')
        /\ Exact(registry', Refs(handlers', refs, store'))
    <3>1. Exact(g, Refs(handlers', refs, store)) BY <1>6, <2>1, <2>6
    <3>2. store' = Dropped(store, s, Stale(s, w)) BY <1>11 DEF Dropped
    <3>3. Stale(s, w) \in SUBSET store[s] BY StaleInStore
    <3> DEFINE gone == Stale(s, w)
    <3>4. registry' = Without(g, s, gone) /\ store' = Dropped(store, s, gone)
          /\ gone \in SUBSET store[s]
      BY <1>11, <3>2, <3>3
    <3>5. s \in Sessions /\ StoresOK(store) /\ g \in Registries BY <1>1, <1>7
    <3> HIDE DEF g, s, w, gone
    <3> QED BY ONLY <3>1, <3>4, <3>5, DropFrom
  <2>8. GatesInv(registry', handlers') BY <1>8, <2>1, <2>6, <2>7
  <2>9. HandlersOK(handlers') BY <1>1, <2>1, <2>3, <2>4, PutModes
  <2>10. TopInv(topology', handlers')
    <3> DEFINE m == Put(handlers, h, IdleHandler)
    <3>0. TopInv(free, m) BY <1>9, IdleFacts
    <3>1. HandlersOK(m) /\ m[h] = IdleHandler
      BY ONLY <1>1, IdleFacts, PutModes, h \in Handlers
    <3>2. Put(m, h, u) = handlers' BY <1>1, <2>1 DEF Put
    <3>3. TopMode(m[h]) = "out" BY <3>1, IdleFacts
    <3>4. topology' = Ask(free, h, TRUE) /\ TopMode(u) = Mode(TRUE) /\ u.pc \in Asking
          /\ TRUE \in BOOLEAN
      BY <1>11, <2>5, <2>6
    <3> HIDE DEF m, free
    <3>5. TopInv(Ask(free, h, TRUE), Put(m, h, u))
      BY ONLY <3>0, <3>1, <3>3, <3>4, h \in Handlers, TopAsk
    <3> QED BY <3>2, <3>4, <3>5
  <2> QED BY <1>1, <1>2, <2>7, <2>8, <2>9, <2>10 DEF Core
<1> HIDE DEF g, free, R
<1>12. t.kind # "delete" => registry' = g /\ topology' = free /\ Done(h) /\ UNCHANGED store
  BY DEF Unretain, g, free
<1>13. t.kind = "delete" =>
         \E linked \in TreesOf(RepoOf[Tree(h)]) :
                /\ registry' = Without(g, s, Stale(s, w))
                /\ store' = [store EXCEPT ![s] = @ \ Stale(s, w)]
                /\ topology' = Ask(free, h, TRUE)
                /\ handlers' = [handlers EXCEPT ![h].pc = "coordinate",
                                    ![h].queued = ~canAcquireImmediately(free, TRUE),
                                    ![h].over = {w, linked},
                                    ![h].todo = {w, linked}]
  BY DEF Unretain, g, free
<1> QED BY <1>10, <1>11, <1>12, <1>13

\* CancelRepository keeps Core.
LEMMA CancelRepositoryCore ==
    ASSUME Core, NEW h \in Handlers, CancelRepository(h)
    PROVE  Core'
<1> DEFINE t == handlers[h]
           w == Tree(h)
           r == RepoOf[Tree(h)]
           n == GiveUp(registry.coords[r].gate, h, Writes(h))
           q == WithGate(registry, r, n)
           R == Refs(handlers, refs, store)
<1>1. /\ t \in HandlerRecs /\ RecOK(t) /\ HandlersOK(handlers) /\ registry \in Registries
      /\ TopInv(topology, handlers)
      /\ GatesInv(registry, handlers) /\ Exact(registry, R)
  BY DEF Core, HandlersOK
<1>2. t.pc = "gate" /\ refs' = refs /\ store' = store /\ topology' = release(topology, FALSE)
      /\ Done(h) /\ registry' = ReleasedOne(q, w)
  BY DEF CancelRepository, At, sessions, WithGate
<1>3. handlers' = Put(handlers, h, IdleHandler) BY <1>1, <1>2, DoneFacts
<1>4. w \in Worktrees /\ r \in Repos /\ w = t.tree
  BY <1>1, GitConstants DEF Tree, HandlerRecs
<1>5. Leasing(t) BY <1>2 DEF Leasing
<1>6. /\ Held(t) = {w} /\ TopMode(t) = Mode(FALSE) /\ t.pc \notin Asking
      /\ RepoMode(t, r) = Mode(Writes(h)) /\ \A s : s # r => RepoMode(t, s) = "out"
  BY <1>1, <1>4, <1>5, LeaseFacts DEF Writes, Mode
<1>7. h \notin Waiters(topology) BY <1>1, <1>6 DEF TopInv
<1>8. TopInv(topology', handlers') BY <1>1, <1>2, <1>3, <1>6, <1>7, IdleFacts, TopLeave
<1>9. Writes(h) \in BOOLEAN BY DEF Writes
<1>10. n \in Gates
  <2>1. GateOK(registry.coords[r].gate, RepoModes(handlers, r)) BY <1>1, <1>4 DEF GatesInv
  <2>2. RepoModes(handlers, r)[h] = Mode(Writes(h)) BY <1>1, <1>6, PutModes
  <2>3. RepoModes(handlers, r) \in Modes BY ModesType
  <2>4. GateOK(n, [RepoModes(handlers, r) EXCEPT ![h] = "out"])
    BY ONLY <1>9, <2>1, <2>2, <2>3, h \in Handlers, GiveUpOK
  <2> QED BY <2>4 DEF GateOK
<1>11. n = GiveUp(registry.coords[r].gate, h, Writes(h)) OBVIOUS
<1> HIDE DEF n
<1>12. /\ q \in Registries /\ q.coords[r].gate = n
       /\ \A s \in Repos \ {r} : q.coords[s].gate = registry.coords[s].gate
       /\ \A S : Exact(registry, S) => Exact(q, S)
  BY ONLY <1>1, <1>4, <1>10, SetGateFacts
<1> HIDE DEF q
<1>13. registry' \in Registries /\ SameCoords(q, registry') BY <1>2, <1>4, <1>12, ReleasedOneFacts
<1>14. GatesInv(registry', handlers')
  <2>1. /\ registry'.coords[r].gate = n
        /\ \A s \in Repos \ {r} : registry'.coords[s].gate = registry.coords[s].gate
    BY <1>4, <1>12, <1>13 DEF SameCoords
  <2>2. \A s \in Repos : RepoMode(IdleHandler, s) = "out" BY IdleFacts
  <2>3. \A s \in Repos \ {r} : RepoMode(t, s) = "out" BY <1>6
  <2> QED BY <1>1, <1>3, <1>4, <1>6, <1>9, <1>11, <2>1, <2>2, <2>3, GatesGiveUp
<1>15. Exact(registry', Refs(handlers', refs', store'))
  <2>1. /\ Refs(handlers', refs', store') = R \ {ByHandler(h, w)}
        /\ ByHandler(h, w) \in R /\ ByHandler(h, w)[2] = w
    <3>1. w \in Held(t) /\ Held(IdleHandler) = Held(t) \ {w} BY <1>6, IdleFacts
    <3> QED BY <1>1, <1>2, <1>3, <3>1, RefsDrop
  <2> HIDE DEF R
  <2> QED BY <1>1, <1>2, <1>4, <1>12, <2>1, ReleasedOneExact
<1>16. HandlersOK(handlers') BY <1>1, <1>3, IdleFacts, PutModes
<1> QED BY <1>2, <1>8, <1>13, <1>14, <1>15, <1>16 DEF Core

\* between coordinating phases, the registry counting the same
LEMMA CoordQuiet ==
    ASSUME Core, NEW h \in Handlers, NEW pc \in Phases, Goto(h, pc),
           LetIn(topology, h) \/ handlers[h].pc \notin Asking,
           handlers[h].pc \in {"coordinate", "scan", "lockNext", "lockWait", "effect", "unlock"},
           handlers[h].pc # "lockWait", pc # "lockWait", RecOK(handlers'[h]),
           Coordinating(handlers'[h]),
           topology' = topology,
           registry' \in Registries, KeepsGates(registry, registry'),
           \A R : Exact(registry, R) => Exact(registry', R),
           refs' = refs, store' = store
    PROVE  Core'
<1> DEFINE t == handlers[h]
           u == handlers'[h]
<1>1. HandlersOK(handlers) BY DEF Core
<1>2. handlers' = Put(handlers, h, u) /\ u \in HandlerRecs /\ u.pc = pc /\ u.locked = t.locked
  BY <1>1, GotoFacts
<1> HIDE DEF u
<1>3. Taken(u) = Taken(t) BY <1>2 DEF Taken
<1>4. Coordinating(t) BY DEF Coordinating
<1>5. RecOK(u) /\ Coordinating(u) BY DEF u
<1>6. refs' \in [Sessions -> SUBSET Worktrees] /\ StoresOK(store')
      /\ Exact(registry', Refs(handlers, refs', store'))
  BY CountsKept
<1> QED BY <1>2, <1>3, <1>4, <1>5, <1>6, CoordStep

\* Scan keeps Core.
LEMMA ScanCore ==
    ASSUME Core, NEW h \in Handlers, Scan(h)
    PROVE  Core'
<1> DEFINE t == handlers[h]
<1>1. t \in HandlerRecs /\ RecOK(t) /\ HandlersOK(handlers) /\ registry \in Registries
      /\ handlers \in [Handlers -> HandlerRecs]
  BY DEF Core, HandlersOK
<1>2. t.pc = "coordinate" /\ LetIn(topology, h) /\ refs' = refs /\ store' = store
  BY DEF Scan, At, sessions
<1>3. t.pc \in Light /\ t.locked = {} /\ t.pin = {} /\ TopMode(t) = Mode(TRUE)
      /\ t.kind \in {"delete", "files"}
  BY <1>1, <1>2, LightFacts, LightModes DEF Light, RecOK, Mode, Coordinating
<1>4. ASSUME NEW g \in rebuildRegistry(registry), NEW ids \in SUBSET t.over,
             ids \in Overlapping(g, t.over), registry' = g, topology' = topology,
             handlers' = [handlers EXCEPT ![h].pc = "scan", ![h].queued = FALSE, ![h].ids = ids]
      PROVE  Core'
  <2> DEFINE u == [t EXCEPT !.pc = "scan", !.queued = FALSE, !.ids = ids]
  <2>1. handlers' = Put(handlers, h, u) BY <1>1, <1>4 DEF Put
  <2>2. u \in HandlerRecs /\ u.pc = "scan" /\ u.kind = t.kind /\ u.locked = {} /\ u.ids = ids
        /\ u.pin = {}
    BY <1>1, <1>3 DEF HandlerRecs, Phases
  <2> HIDE DEF u
  <2>3. \A v, w \in ids : RepoOf[v] = RepoOf[w] => v = w
    <3> SUFFICES ASSUME NEW v \in ids, NEW w \in ids, RepoOf[v] = RepoOf[w] PROVE v = w
      OBVIOUS
    <3>1. ids \in SUBSET (t.over \cap Registered(g)) BY <1>4 DEF Overlapping
    <3>2. RepoOf[v] \in ReposOf(t.over \cap Registered(g)) BY <3>1 DEF ReposOf
    <3>3. Cardinality(ids \cap TreesOf(RepoOf[v])) = 1 BY <1>4, <3>2 DEF Overlapping
    <3>4. v \in ids \cap TreesOf(RepoOf[v]) /\ w \in ids \cap TreesOf(RepoOf[v])
      BY <1>1, <3>1 DEF TreesOf, HandlerRecs
    <3>5. ids \in SUBSET Worktrees BY <3>1 DEF Registered
    <3>6. IsFiniteSet(ids \cap TreesOf(RepoOf[v])) BY <3>5, GitConstants, FS_Subset
    <3> HIDE DEF t
    <3>7. PICK x : ids \cap TreesOf(RepoOf[v]) = {x} BY <3>3, <3>6, FS_Singleton
    <3> QED BY <3>4, <3>7
  <2>4. RecOK(u) BY <1>3, <2>2, <2>3 DEF RecOK
  <2>5. TopMode(u) = TopMode(t) /\ u.pc \in Light
    BY <1>3, <2>2, LightModes DEF Light, Mode
  <2>6. TopInv(topology', handlers') BY <1>2, <1>4, <2>1, <2>5, SameTopGate
  <2>7. /\ registry' \in Registries /\ KeepsGates(registry, registry')
        /\ \A R : Exact(registry, R) => Exact(registry', R)
    BY <1>1, <1>4, RebuildFacts, SameKeeps, KeepsAreKept
  <2> QED BY <1>2, <1>3, <2>1, <2>2, <2>4, <2>5, <2>6, <2>7, LightStep
<1>5. ASSUME NEW ws \in SUBSET (InactiveTrees(registry) \ exists),
             registry' = Evicted(registry, ws, {}), topology' = release(topology, TRUE), Done(h)
      PROVE  Core'
  <2>1. handlers' = Put(handlers, h, IdleHandler) BY <1>1, <1>5, DoneFacts
  <2>2. IdleHandler.pc \in Light BY IdleFacts DEF Light
  <2>3. TopInv(topology', handlers') BY <1>2, <1>3, <1>5, <2>1, IdleFacts, LeftTop
  <2>4. ws \in SUBSET InactiveTrees(registry) OBVIOUS
  <2>5. /\ registry' \in Registries /\ KeepsGates(registry, registry')
        /\ \A R : Exact(registry, R) => Exact(registry', R)
    BY <1>1, <1>5, <2>4, EvictedFacts, SameKeeps, KeepsAreKept
  <2> QED BY <1>2, <1>3, <2>1, <2>2, <2>3, <2>5, IdleFacts, LightStep
<1>6. \/ \E g \in rebuildRegistry(registry), ids \in SUBSET t.over :
            /\ ids \in Overlapping(g, t.over)
            /\ registry' = g
            /\ handlers' = [handlers EXCEPT ![h].pc = "scan", ![h].queued = FALSE, ![h].ids = ids]
            /\ UNCHANGED topology
      \/ /\ \E ws \in SUBSET (InactiveTrees(registry) \ exists) :
                registry' = Evicted(registry, ws, {})
         /\ topology' = release(topology, TRUE)
         /\ Done(h)
  BY DEF Scan
<1> QED BY <1>4, <1>5, <1>6

\* ResolvePath keeps Core.
LEMMA ResolvePathCore ==
    ASSUME Core, NEW h \in Handlers, NEW w \in handlers[h].todo, ResolvePath(h, w)
    PROVE  Core'
<1> DEFINE t == handlers[h]
<1>1. t \in HandlerRecs /\ RecOK(t) /\ HandlersOK(handlers) /\ registry \in Registries
      /\ handlers \in [Handlers -> HandlerRecs]
  BY DEF Core, HandlersOK
<1>2. t.pc = "scan" /\ topology' = topology /\ refs' = refs /\ store' = store
  BY DEF ResolvePath, At, sessions
<1>3. t.pc \in Light /\ t.locked = {} /\ t.pin = {} /\ TopMode(t) = "write"
      /\ t.kind \in {"delete", "files"} /\ t.pc \notin Asking
  BY <1>1, <1>2, LightFacts, LightModes DEF Light, RecOK, Asking, Coordinating
<1>4. w \in Worktrees BY <1>1 DEF HandlerRecs
<1>5. ASSUME NEW ids, ids = t.ids \/ (ids = t.ids \cup {w} /\ RepoOf[w] \notin ReposOf(t.ids)),
             handlers' = Put(handlers, h, [t EXCEPT !.todo = t.todo \ {w}, !.ids = ids]),
             registry' \in Registries, KeepsGates(registry, registry'),
             \A R : Exact(registry, R) => Exact(registry', R)
      PROVE  Core'
  <2> DEFINE u == [t EXCEPT !.todo = t.todo \ {w}, !.ids = ids]
  <2>1. u \in HandlerRecs /\ u.pc = "scan" /\ u.kind = t.kind /\ u.locked = {} /\ u.ids = ids
        /\ u.pin = {}
    BY <1>1, <1>2, <1>3, <1>4, <1>5 DEF HandlerRecs
  <2>2. handlers' = Put(handlers, h, u) BY <1>5
  <2> HIDE DEF u
  <2>3. \A x, y \in ids : RepoOf[x] = RepoOf[y] => x = y BY <1>1, <1>5 DEF RecOK, ReposOf
  <2>4. RecOK(u) BY <1>3, <2>1, <2>3 DEF RecOK
  <2>5. TopMode(u) = TopMode(t) /\ u.pc \in Light
    BY <1>3, <2>1, LightModes DEF Light
  <2>6. TopInv(topology', handlers') BY <1>2, <1>3, <2>2, <2>5, SameTopGate
  <2> QED BY <1>2, <1>3, <1>5, <2>1, <2>2, <2>4, <2>5, <2>6, LightStep
<1>6. CASE /\ registry' \in admitIdentity(registry, w)
           /\ handlers' = [handlers EXCEPT ![h].todo = @ \ {w},
                 ![h].ids = IF RepoOf[w] \in ReposOf(@) THEN @ ELSE @ \cup {w}]
  <2> DEFINE ids == IF RepoOf[w] \in ReposOf(t.ids) THEN t.ids ELSE t.ids \cup {w}
  <2>1. ids = t.ids \/ (ids = t.ids \cup {w} /\ RepoOf[w] \notin ReposOf(t.ids)) OBVIOUS
  <2>2. handlers' = Put(handlers, h, [t EXCEPT !.todo = t.todo \ {w}, !.ids = ids])
    BY <1>1, <1>6 DEF Put
  <2>3. /\ registry' \in Registries /\ KeepsGates(registry, registry')
        /\ \A R : Exact(registry, R) => Exact(registry', R)
    BY <1>1, <1>4, <1>6, AdmitFacts, KeepsAreKept
  <2> HIDE DEF ids
  <2> QED BY <1>5, <2>1, <2>2, <2>3
<1>7. CASE registry' \in retainFailures(registry, w) /\ Goto(h, "unlock")
  <2> DEFINE u == handlers'[h]
  <2>1. "unlock" \in Phases BY DEF Phases
  <2>2. u.pc = "unlock" /\ u.pin = t.pin /\ u.tree = t.tree /\ u.kind = t.kind /\ u.ids = t.ids
        /\ u.locked = t.locked /\ u.todo = t.todo
    BY <1>1, <1>7, <2>1, GotoFacts
  <2>3. Coordinating(u) /\ RecOK(u) BY <1>1, <1>3, <2>2 DEF Coordinating, RecOK
  <2>4. /\ registry' \in Registries /\ KeepsGates(registry, registry')
        /\ \A R : Exact(registry, R) => Exact(registry', R)
    BY <1>1, <1>4, <1>7, FailFacts, KeepsAreKept
  <2> QED BY <1>2, <1>3, <1>7, <2>1, <2>3, <2>4, CoordQuiet
<1>8. CASE handlers' = [handlers EXCEPT ![h].todo = @ \ {w}] /\ UNCHANGED registry
  <2>1. handlers' = Put(handlers, h, [t EXCEPT !.todo = t.todo \ {w}, !.ids = t.ids])
    <3>1. [t EXCEPT !.todo = t.todo \ {w}] = [t EXCEPT !.todo = t.todo \ {w}, !.ids = t.ids]
      BY <1>1 DEF HandlerRecs
    <3>2. handlers' = Put(handlers, h, [t EXCEPT !.todo = t.todo \ {w}])
      BY <1>1, <1>8 DEF Put
    <3> QED BY <3>1, <3>2
  <2> QED BY <1>1, <1>5, <1>8, <2>1, SameRegistry
<1> QED BY <1>6, <1>7, <1>8 DEF ResolvePath

\* StartLocking keeps Core.
LEMMA StartLockingCore ==
    ASSUME Core, NEW h \in Handlers, StartLocking(h)
    PROVE  Core'
<1> DEFINE t == handlers[h]
           u == handlers'[h]
<1>1. t \in HandlerRecs /\ RecOK(t) /\ HandlersOK(handlers) /\ registry \in Registries
  BY DEF Core, HandlersOK
<1>2. t.pc = "scan" /\ topology' = topology /\ registry' = registry /\ refs' = refs
      /\ store' = store /\ Goto(h, "lockNext") /\ t.todo = {}
  BY DEF StartLocking, At, sessions
<1>3. "lockNext" \in Phases /\ t.pc \notin Asking BY <1>2 DEF Phases, Asking
<1>4. u.pc = "lockNext" /\ u.pin = t.pin /\ u.tree = t.tree /\ u.kind = t.kind /\ u.ids = t.ids
      /\ u.locked = t.locked /\ u.todo = {}
  BY <1>1, <1>2, <1>3, GotoFacts
<1>5. t.locked = {} /\ t.pin = {} /\ t.kind \in {"delete", "files"}
  BY <1>1, <1>2 DEF RecOK, Coordinating
<1>6. Coordinating(u) /\ RecOK(u) BY <1>1, <1>4, <1>5 DEF Coordinating, RecOK
<1> QED BY <1>1, <1>2, <1>3, <1>6, SameRegistry, CoordQuiet

\* Revalidate keeps Core.
LEMMA RevalidateCore ==
    ASSUME Core, NEW h \in Handlers, Revalidate(h)
    PROVE  Core'
<1> DEFINE t == handlers[h]
           u == handlers'[h]
<1>1. t \in HandlerRecs /\ RecOK(t) /\ HandlersOK(handlers) /\ registry \in Registries
  BY DEF Core, HandlersOK
<1>2. t.pc = "lockNext" /\ topology' = topology /\ registry' = registry /\ refs' = refs
      /\ store' = store /\ t.ids \ t.locked = {}
      /\ \E pc \in {"unlock", "reload", "effect"} :
            Goto(h, pc) /\ (pc = "reload" => t.kind = "delete")
  BY DEF Revalidate, At, sessions, Unlocked
<1>3. PICK pc \in {"unlock", "reload", "effect"} :
            Goto(h, pc) /\ (pc = "reload" => t.kind = "delete")
  BY <1>2
<1>4. pc \in Phases /\ t.pc \notin Asking BY <1>2 DEF Phases, Asking
<1>5. u.pc = pc /\ u.pin = t.pin /\ u.tree = t.tree /\ u.kind = t.kind /\ u.ids = t.ids
      /\ u.locked = t.locked /\ u.todo = t.todo
  BY <1>1, <1>3, <1>4, GotoFacts
<1>6. t.pin = {} /\ t.kind \in {"delete", "files"} /\ t.todo = {} /\ t.locked = t.ids
  BY <1>1, <1>2 DEF RecOK, Coordinating
<1>7. Coordinating(u) /\ pc # "lockWait" BY <1>3, <1>5 DEF Coordinating
<1>8. RecOK(u) BY <1>1, <1>3, <1>5, <1>6, <1>7 DEF RecOK
<1> QED BY <1>1, <1>2, <1>3, <1>4, <1>7, <1>8, SameRegistry, CoordQuiet

\* Effect keeps Core.
LEMMA EffectCore ==
    ASSUME Core, NEW h \in Handlers, Effect(h)
    PROVE  Core'
<1> DEFINE t == handlers[h]
           u == handlers'[h]
<1>1. t \in HandlerRecs /\ RecOK(t) /\ HandlersOK(handlers) /\ registry \in Registries
  BY DEF Core, HandlersOK
<1>2. t.pc = "effect" /\ topology' = topology /\ registry' = registry /\ refs' = refs
      /\ store' = store /\ Goto(h, "unlock")
  BY DEF Effect, At, sessions
<1>3. "unlock" \in Phases /\ t.pc \notin Asking BY <1>2 DEF Phases, Asking
<1>4. u.pc = "unlock" /\ u.pin = t.pin /\ u.tree = t.tree /\ u.kind = t.kind /\ u.ids = t.ids
      /\ u.locked = t.locked /\ u.todo = t.todo
  BY <1>1, <1>2, <1>3, GotoFacts
<1>5. t.pin = {} /\ t.kind \in {"delete", "files"} BY <1>1, <1>2 DEF RecOK, Coordinating
<1>6. Coordinating(u) /\ RecOK(u) BY <1>1, <1>4, <1>5 DEF Coordinating, RecOK
<1> QED BY <1>1, <1>2, <1>3, <1>6, SameRegistry, CoordQuiet

\* the gate that a handler alone with the topology wants next is free
LEMMA NextGateFree ==
    ASSUME Core, NEW h \in Handlers, Coordinating(handlers[h]), handlers[h].pc \notin Asking,
           NEW r \in Repos, RepoMode(handlers[h], r) = "out", NEW q, GatesInv(q, handlers)
    PROVE  canAcquireImmediately(q.coords[r].gate, TRUE)
<1>1. HandlersOK(handlers) /\ TopInv(topology, handlers) BY DEF Core
<1>2. h \notin Waiters(topology) BY <1>1 DEF TopInv
<1>3. ASSUME NEW i \in Handlers PROVE RepoModes(handlers, r)[i] = "out"
  <2>1. CASE i = h BY <2>1 DEF RepoModes
  <2>2. CASE i # h BY <1>1, <1>2, <2>2, LoneWriter DEF RepoModes
  <2> QED BY <2>1, <2>2
<1>4. GateOK(q.coords[r].gate, RepoModes(handlers, r)) BY DEF GatesInv
<1> QED BY <1>3, <1>4, ModesType, UnwantedGate

\* The case of LockNext that asks for the gate of a repository: it is free.
LEMMA LockedNextCore ==
    ASSUME Core, NEW h \in Handlers, handlers[h].pc = "lockNext", Unlocked(h) # {},
           NEW g \in retainIdentity(registry, NextId(h)),
           registry' = AskRepo(g, h, NextId(h), TRUE), Goto(h, "lockWait"),
           topology' = topology, refs' = refs, store' = store
    PROVE  Core'
<1> DEFINE t == handlers[h]
           u == handlers'[h]
           w == NextId(h)
           r == RepoOf[NextId(h)]
           n == Ask(g.coords[r].gate, h, TRUE)
           R == Refs(handlers, refs, store)
<1>1. /\ t \in HandlerRecs /\ RecOK(t) /\ HandlersOK(handlers) /\ registry \in Registries
      /\ GatesInv(registry, handlers) /\ Exact(registry, R)
      /\ refs \in [Sessions -> SUBSET Worktrees] /\ StoresOK(store)
  BY DEF Core, HandlersOK
<1>2. t.ids \ t.locked # {} /\ w = First(t.ids \ t.locked) BY DEF Unlocked, NextId
<1>3. w \in t.ids /\ w \notin t.locked /\ w \in Worktrees /\ r \in Repos
  <2>1. t.ids \ t.locked \in SUBSET Worktrees BY <1>1 DEF HandlerRecs
  <2>2. w \in t.ids \ t.locked BY <1>2, <2>1, FirstIn
  <2> QED BY <2>1, <2>2, GitConstants
<1>4. "lockWait" \in Phases BY DEF Phases
<1>5. handlers' = Put(handlers, h, u) /\ u \in HandlerRecs /\ u.pc = "lockWait" /\ u.pin = t.pin
      /\ u.tree = t.tree /\ u.kind = t.kind /\ u.ids = t.ids /\ u.locked = t.locked
      /\ u.todo = t.todo
  BY <1>1, <1>4, GotoFacts
<1> HIDE DEF u
<1>6. t.pin = {} /\ t.todo = {} /\ t.kind \in {"delete", "files"} /\ Coordinating(t)
      /\ t.pc \notin Asking
  BY <1>1 DEF RecOK, Coordinating, Asking
<1>7. Coordinating(u) BY <1>5 DEF Coordinating
<1>8. RecOK(u) BY <1>1, <1>2, <1>5, <1>6, <1>7 DEF RecOK
<1>9. Taken(t) = t.locked /\ Taken(u) = t.locked \cup {w} BY <1>2, <1>5 DEF Taken
<1>10. r \notin ReposOf(t.locked) BY <1>1, <1>3 DEF RecOK, ReposOf
<1>11. /\ Held(t) = t.locked /\ TopMode(t) = "write"
       /\ \A s : RepoMode(t, s) = IF s \in ReposOf(t.locked) THEN "write" ELSE "out"
  BY <1>1, <1>6, <1>9, CoordFacts
<1>12. /\ Held(u) = t.locked \cup {w} /\ TopMode(u) = "write"
       /\ \A s : RepoMode(u, s) = IF s \in ReposOf(t.locked \cup {w}) THEN "write" ELSE "out"
  BY <1>5, <1>7, <1>8, <1>9, CoordFacts
<1>13. TopInv(topology', handlers') BY <1>5, <1>6, <1>11, <1>12, SameTopGate
<1>14. g \in Registries /\ KeepsGates(registry, g)
       /\ \A x : x \notin R /\ x[2] = w => Exact(g, R \cup {x})
  BY <1>1, <1>3, RetainFacts, KeepsAreKept
<1>15. GatesInv(g, handlers) BY <1>14, GatesSame
<1>16. RepoMode(t, r) = "out" BY <1>10, <1>11
<1>17. canAcquireImmediately(g.coords[r].gate, TRUE) BY <1>3, <1>6, <1>15, <1>16, NextGateFree
<1>18. n \in Gates
  <2>1. GateOK(g.coords[r].gate, RepoModes(handlers, r)) BY <1>3, <1>15 DEF GatesInv
  <2>2. RepoModes(handlers, r)[h] = "out" BY <1>1, <1>16, PutModes
  <2>3. RepoModes(handlers, r) \in Modes /\ TRUE \in BOOLEAN BY ModesType
  <2>4. ASSUME NEW gate, NEW e \in Modes, GateOK(gate, e), e[h] = "out", NEW write \in BOOLEAN
        PROVE  GateOK(Ask(gate, h, write), [e EXCEPT ![h] = Mode(write)])
    BY ONLY <2>4, h \in Handlers, AskOK
  <2>5. GateOK(n, [RepoModes(handlers, r) EXCEPT ![h] = Mode(TRUE)])
    BY ONLY <2>1, <2>2, <2>3, <2>4
  <2> QED BY <2>5 DEF GateOK
<1>19. registry' = WithGate(g, r, n) /\ n = Ask(g.coords[r].gate, h, TRUE)
  BY DEF AskRepo, WithGate
<1> HIDE DEF n
<1>20. /\ registry' \in Registries /\ registry'.coords[r].gate = n
       /\ \A s \in Repos : s # r => registry'.coords[s].gate = g.coords[s].gate
       /\ \A S : Exact(g, S) => Exact(registry', S)
  <2> HIDE DEF r
  <2>1. /\ WithGate(g, r, n) \in Registries /\ WithGate(g, r, n).coords[r].gate = n
        /\ \A s \in Repos : s # r => WithGate(g, r, n).coords[s].gate = g.coords[s].gate
        /\ \A S : Exact(g, S) => Exact(WithGate(g, r, n), S)
    BY ONLY <1>3, <1>14, <1>18, SetGateFacts
  <2> QED BY <1>19, <2>1
<1>21. GatesInv(registry', handlers')
  <2>1. RepoMode(u, r) = Mode(TRUE) BY <1>12 DEF ReposOf, Mode
  <2>2. \A s \in Repos \ {r} : RepoMode(u, s) = RepoMode(t, s) BY <1>11, <1>12 DEF ReposOf
  <2>3. t.pc # "gate" /\ TRUE \in BOOLEAN OBVIOUS
  <2> QED BY ONLY <1>1, <1>3, <1>5, <1>14, <1>15, <1>16, <1>17, <1>19, <1>20, <2>1, <2>2, <2>3,
                  h \in Handlers, GatesAsk
<1>22. Exact(registry', Refs(handlers', refs', store'))
  <2>1. /\ Refs(handlers', refs', store') = R \cup {ByHandler(h, w)} /\ ByHandler(h, w) \notin R
        /\ ByHandler(h, w)[2] = w
    <3>1. w \notin Held(t) /\ Held(u) = Held(t) \cup {w} BY <1>3, <1>11, <1>12
    <3> QED BY <1>1, <1>5, <3>1, RefsTake
  <2> QED BY <1>14, <1>20, <2>1
<1>23. HandlersOK(handlers') BY ONLY <1>1, <1>5, <1>8, h \in Handlers, PutModes
<1> QED BY <1>1, <1>13, <1>20, <1>21, <1>22, <1>23 DEF Core

\* LockNext keeps Core.
LEMMA LockNextCore ==
    ASSUME Core, NEW h \in Handlers, LockNext(h)
    PROVE  Core'
<1> DEFINE t == handlers[h]
           u == handlers'[h]
<1>1. t \in HandlerRecs /\ RecOK(t) /\ HandlersOK(handlers) /\ registry \in Registries
  BY DEF Core, HandlersOK
<1>2. t.pc = "lockNext" /\ topology' = topology /\ refs' = refs /\ store' = store
      /\ Unlocked(h) # {}
  BY DEF LockNext, At, sessions
<1>3. CASE /\ registry' \in {AskRepo(g, h, NextId(h), TRUE) : g \in retainIdentity(registry, NextId(h))}
           /\ Goto(h, "lockWait")
  BY <1>2, <1>3, LockedNextCore
<1>4. CASE registry' \in retainFailures(registry, NextId(h)) /\ Goto(h, "unlock")
  <2>1. "unlock" \in Phases /\ t.pc \notin Asking BY <1>2 DEF Phases, Asking
  <2>2. u.pc = "unlock" /\ u.pin = t.pin /\ u.tree = t.tree /\ u.kind = t.kind /\ u.ids = t.ids
        /\ u.locked = t.locked /\ u.todo = t.todo
    BY <1>1, <1>4, <2>1, GotoFacts
  <2>3. t.pin = {} /\ t.kind \in {"delete", "files"} BY <1>1, <1>2 DEF RecOK, Coordinating
  <2>4. Coordinating(u) /\ RecOK(u) BY <1>1, <2>2, <2>3 DEF Coordinating, RecOK
  <2>5. NextId(h) \in Worktrees
    <3>1. t.ids \ t.locked # {} /\ NextId(h) = First(t.ids \ t.locked)
      BY <1>2 DEF Unlocked, NextId
    <3>2. t.ids \ t.locked \in SUBSET Worktrees BY <1>1 DEF HandlerRecs
    <3> QED BY <3>1, <3>2, FirstIn
  <2>6. /\ registry' \in Registries /\ KeepsGates(registry, registry')
        /\ \A R : Exact(registry, R) => Exact(registry', R)
    BY <1>1, <1>4, <2>5, FailFacts, KeepsAreKept
  <2> QED BY <1>2, <1>4, <2>1, <2>4, <2>6, CoordQuiet
<1> QED BY <1>3, <1>4 DEF LockNext

\* Locked keeps Core.
LEMMA LockedCore ==
    ASSUME Core, NEW h \in Handlers, Locked(h)
    PROVE  Core'
<1> DEFINE t == handlers[h]
           w == NextId(h)
           u == [t EXCEPT !.pc = "lockNext", !.locked = t.locked \cup {w}]
<1>1. t \in HandlerRecs /\ RecOK(t) /\ HandlersOK(handlers) /\ registry \in Registries
      /\ handlers \in [Handlers -> HandlerRecs]
  BY DEF Core, HandlersOK
<1>2. t.pc = "lockWait" /\ topology' = topology /\ refs' = refs /\ store' = store
      /\ registry' = Bump(registry, w) /\ handlers' = Put(handlers, h, u)
  BY <1>1 DEF Locked, At, sessions, Put
<1>3. t.ids \ t.locked # {} /\ w = First(t.ids \ t.locked)
  BY <1>1, <1>2 DEF RecOK, Unlocked, NextId
<1>4. w \in t.ids /\ w \in Worktrees
  <2>1. t.ids \ t.locked \in SUBSET Worktrees BY <1>1 DEF HandlerRecs
  <2> QED BY <1>3, <2>1, FirstIn
<1>5. u \in HandlerRecs /\ u.pc = "lockNext" /\ u.kind = t.kind /\ u.tree = t.tree
      /\ u.locked = t.locked \cup {w} /\ u.ids = t.ids /\ u.pin = t.pin /\ u.todo = t.todo
  BY <1>1, <1>4 DEF HandlerRecs, Phases
<1> HIDE DEF u
<1>6. Coordinating(t) /\ Coordinating(u) /\ t.pc \notin Asking BY <1>2, <1>5 DEF Coordinating, Asking
<1>7. t.pin = {} /\ t.todo = {} /\ t.kind \in {"delete", "files"} BY <1>1, <1>2, <1>6 DEF RecOK
<1>8. RecOK(u) BY <1>1, <1>4, <1>5, <1>6, <1>7 DEF RecOK
<1>9. Taken(u) = Taken(t) BY <1>2, <1>3, <1>5 DEF Taken
<1>10. /\ registry' \in Registries /\ KeepsGates(registry, registry')
       /\ \A R : Exact(registry, R) => Exact(registry', R)
  BY <1>1, <1>2, <1>4, BumpFacts DEF KeepsGates
<1>11. refs' \in [Sessions -> SUBSET Worktrees] /\ StoresOK(store')
       /\ Exact(registry', Refs(handlers, refs', store'))
  BY <1>2, <1>10, CountsKept
<1> QED BY <1>2, <1>5, <1>6, <1>8, <1>9, <1>10, <1>11, CoordStep

\* UnlockLast keeps Core.
LEMMA UnlockLastCore ==
    ASSUME Core, NEW h \in Handlers, UnlockLast(h)
    PROVE  Core'
<1> DEFINE t == handlers[h]
           w == LastLocked(h)
           r == RepoOf[w]
           g == Bump(registry, w)
           q == FreeRepo(g, w, TRUE)
           u == [t EXCEPT !.locked = t.locked \ {w}]
           R == Refs(handlers, refs, store)
<1>1. /\ t \in HandlerRecs /\ RecOK(t) /\ HandlersOK(handlers) /\ registry \in Registries
      /\ handlers \in [Handlers -> HandlerRecs] /\ Exact(registry, R)
      /\ refs \in [Sessions -> SUBSET Worktrees] /\ StoresOK(store)
  BY DEF Core, HandlersOK
<1>2. t.pc = "unlock" /\ t.locked # {} /\ topology' = topology /\ refs' = refs /\ store' = store
      /\ registry' = ReleasedOne(q, w) /\ handlers' = Put(handlers, h, u)
  BY <1>1 DEF UnlockLast, At, sessions, Put
<1>3. w \in t.locked /\ w \in t.ids /\ w \in Worktrees /\ r \in Repos
  <2>1. t.locked \in SUBSET Worktrees BY <1>1 DEF HandlerRecs
  <2>2. w \in t.locked BY <1>2, <2>1, LastIn DEF LastLocked
  <2> QED BY <1>1, <2>1, <2>2, GitConstants DEF RecOK
<1>4. u \in HandlerRecs /\ u.pc = "unlock" /\ u.kind = t.kind /\ u.tree = t.tree
      /\ u.locked = t.locked \ {w} /\ u.ids = t.ids /\ u.pin = t.pin /\ u.todo = t.todo
  BY <1>1, <1>2 DEF HandlerRecs
<1> HIDE DEF u
<1>5. Coordinating(t) /\ Coordinating(u) /\ t.pc \notin Asking BY <1>2, <1>4 DEF Coordinating, Asking
<1>6. RecOK(u) BY <1>1, <1>2, <1>4, <1>5 DEF RecOK
<1>7. Taken(t) = t.locked /\ Taken(u) = t.locked \ {w} BY <1>2, <1>4 DEF Taken
<1>8. /\ Held(t) = t.locked /\ TopMode(t) = "write"
      /\ \A s : RepoMode(t, s) = IF s \in ReposOf(t.locked) THEN "write" ELSE "out"
  BY <1>1, <1>5, <1>7, CoordFacts
<1>9. /\ Held(u) = t.locked \ {w} /\ TopMode(u) = "write"
      /\ \A s : RepoMode(u, s) = IF s \in ReposOf(t.locked \ {w}) THEN "write" ELSE "out"
  BY <1>4, <1>5, <1>6, <1>7, CoordFacts
<1>10. TopInv(topology', handlers') BY <1>2, <1>5, <1>8, <1>9, SameTopGate
<1>11. g \in Registries /\ KeepsGates(registry, g) /\ \A S : Exact(registry, S) => Exact(g, S)
  BY <1>1, <1>3, BumpFacts DEF KeepsGates
<1> HIDE DEF g
<1>12. GatesInv(g, handlers) BY <1>11, GatesSame
<1>13. RepoMode(t, r) = Mode(TRUE) BY <1>3, <1>8 DEF ReposOf, Mode
<1>14. r \notin ReposOf(t.locked \ {w}) BY <1>1, <1>3 DEF RecOK, ReposOf
<1>15. t.pc # "gate" /\ TRUE \in BOOLEAN BY <1>2
<1>16. /\ q \in Registries /\ q.coords[r].gate = release(g.coords[r].gate, TRUE)
       /\ \A s \in Repos : s # r => q.coords[s].gate = g.coords[s].gate
       /\ \A S : Exact(g, S) => Exact(q, S)
  <2> HIDE DEF w
  <2>1. q = FreeRepo(g, w, TRUE) OBVIOUS
  <2> HIDE DEF q
  <2>2. RepoMode(handlers[h], RepoOf[w]) = Mode(TRUE) /\ handlers[h].pc # "gate" /\ TRUE \in BOOLEAN
    BY <1>13, <1>15
  <2>3. HandlersOK(handlers) /\ g \in Registries /\ w \in Worktrees BY <1>1, <1>3, <1>11
  <2>4. /\ FreeRepo(g, w, TRUE) \in Registries
        /\ FreeRepo(g, w, TRUE).coords[RepoOf[w]].gate = release(g.coords[RepoOf[w]].gate, TRUE)
        /\ \A s \in Repos : s # RepoOf[w] => FreeRepo(g, w, TRUE).coords[s].gate = g.coords[s].gate
        /\ \A S : Exact(g, S) => Exact(FreeRepo(g, w, TRUE), S)
    BY ONLY <1>12, <2>2, <2>3, h \in Handlers, FreeFacts
  <2> QED BY <2>1, <2>4
<1> HIDE DEF q
<1>17. registry' \in Registries /\ SameCoords(q, registry') BY <1>2, <1>3, <1>16, ReleasedOneFacts
<1>18. GatesInv(registry', handlers')
  <2>1. registry'.coords[r].gate = release(g.coords[r].gate, TRUE)
        /\ \A s \in Repos \ {r} : registry'.coords[s].gate = g.coords[s].gate
    BY <1>3, <1>16, <1>17 DEF SameCoords
  <2>2. RepoMode(u, r) = "out" BY <1>9, <1>14
  <2>3. \A s \in Repos \ {r} : RepoMode(u, s) = RepoMode(t, s) BY <1>8, <1>9 DEF ReposOf
  <2> QED BY ONLY <1>1, <1>2, <1>3, <1>11, <1>12, <1>13, <1>15, <2>1, <2>2, <2>3, h \in Handlers,
                  GatesLeave
<1>19. Exact(registry', Refs(handlers', refs', store'))
  <2>1. /\ Refs(handlers', refs', store') = R \ {ByHandler(h, w)}
        /\ ByHandler(h, w) \in R /\ ByHandler(h, w)[2] = w
    <3>1. w \in Held(t) /\ Held(u) = Held(t) \ {w} BY <1>3, <1>8, <1>9
    <3>2. /\ Refs(Put(handlers, h, u), refs, store) = R \ {ByHandler(h, w)}
          /\ ByHandler(h, w) \in R /\ ByHandler(h, w)[2] = w
      BY ONLY <1>1, <3>1, h \in Handlers, RefsDrop
    <3> QED BY <1>2, <3>2
  <2> HIDE DEF R
  <2>2. Exact(q, R) BY <1>1, <1>11, <1>16
  <2> QED BY <1>2, <1>3, <1>16, <2>1, <2>2, ReleasedOneExact
<1>20. HandlersOK(handlers') BY ONLY <1>1, <1>2, <1>4, <1>6, h \in Handlers, PutModes
<1> QED BY <1>1, <1>2, <1>10, <1>17, <1>18, <1>19, <1>20 DEF Core

\* EndEffect keeps Core.
LEMMA EndEffectCore ==
    ASSUME Core, NEW h \in Handlers, EndEffect(h)
    PROVE  Core'
<1> DEFINE t == handlers[h]
           s == InSession(h)
           gone == IF handlers[h].kind = "delete" THEN Stale(InSession(h), Tree(h)) ELSE {}
<1>1. /\ t \in HandlerRecs /\ RecOK(t) /\ HandlersOK(handlers) /\ registry \in Registries
      /\ refs \in [Sessions -> SUBSET Worktrees] /\ s \in Sessions
  BY SessionType DEF Core, HandlersOK
<1>2. t.pc = "unlock" /\ t.locked = {} /\ topology' = release(topology, TRUE) /\ refs' = refs
      /\ registry' = Without(registry, s, gone) /\ store' = Dropped(store, s, gone) /\ Done(h)
  BY DEF EndEffect, At, sessions, Dropped
<1>3. handlers' = Put(handlers, h, IdleHandler) BY <1>1, <1>2, DoneFacts
<1>4. Coordinating(t) /\ Taken(t) = {} /\ t.pc \notin Asking BY <1>2 DEF Coordinating, Taken, Asking
<1>5. Held(t) = {} /\ TopMode(t) = Mode(TRUE) /\ \A r : RepoMode(t, r) = "out"
  BY <1>1, <1>4, CoordFacts DEF ReposOf, Mode
<1>6. LetIn(topology, h) BY <1>4 DEF Core, TopInv, LetIn
<1>7. TopInv(topology', handlers') BY <1>2, <1>3, <1>5, <1>6, IdleFacts, LeftTop
<1>8. gone \in SUBSET store[s] BY StaleInStore
<1> HIDE DEF gone, s
<1>9. \A R : Exact(registry, R) => Exact(registry, R) OBVIOUS
<1>10. /\ registry' \in Registries /\ SameCoords(registry, registry')
       /\ Exact(registry', Refs(handlers, refs', store')) /\ StoresOK(store')
  <2>1. /\ Without(registry, s, gone) \in Registries /\ SameCoords(registry, Without(registry, s, gone))
        /\ Exact(Without(registry, s, gone), Refs(handlers, refs, Dropped(store, s, gone)))
        /\ StoresOK(Dropped(store, s, gone))
    BY ONLY Core, <1>1, <1>8, <1>9, DropFacts
  <2>2. refs' = refs BY <1>2
  <2> QED BY ONLY <1>2, <2>1, <2>2
<1>11. SameRepos(t, IdleHandler) /\ Held(IdleHandler) = Held(t) /\ t.pc # "gate"
  BY <1>2, <1>5, IdleFacts DEF SameRepos
<1>12. KeepsGates(registry, registry') BY <1>10 DEF SameCoords, KeepsGates
<1>13. refs' \in [Sessions -> SUBSET Worktrees] BY <1>1, <1>2
<1> QED BY <1>3, <1>7, <1>10, <1>11, <1>12, <1>13, IdleFacts, MoveStep

\* no handler moves
LEMMA ReferencesStep ==
    ASSUME Core, topology' = topology, handlers' = handlers,
           registry' \in Registries, KeepsGates(registry, registry'),
           refs' \in [Sessions -> SUBSET Worktrees], StoresOK(store'),
           Exact(registry', Refs(handlers, refs', store'))
    PROVE  Core'
<1>1. GatesInv(registry', handlers) BY GatesSame
<1> QED BY <1>1 DEF Core

\* Snapshots leave a store and no handler moves.
LEMMA DropCore ==
    ASSUME Core, NEW s \in Sessions, NEW gone \in SUBSET store[s],
           topology' = topology, handlers' = handlers, refs' = refs,
           registry' = Without(registry, s, gone), store' = [store EXCEPT ![s] = @ \ gone]
    PROVE  Core'
<1>1. registry \in Registries /\ refs' \in [Sessions -> SUBSET Worktrees] BY DEF Core
<1>2. store' = Dropped(store, s, gone) BY DEF Dropped
<1>3. \A R : Exact(registry, R) => Exact(registry, R) OBVIOUS
<1>4. /\ registry' \in Registries /\ SameCoords(registry, registry')
      /\ Exact(registry', Refs(handlers, refs', store')) /\ StoresOK(store')
  <2>1. /\ Without(registry, s, gone) \in Registries /\ SameCoords(registry, Without(registry, s, gone))
        /\ Exact(Without(registry, s, gone), Refs(handlers, refs, Dropped(store, s, gone)))
        /\ StoresOK(Dropped(store, s, gone))
    BY ONLY Core, <1>1, <1>3, s \in Sessions, gone \in SUBSET store[s], DropFacts
  <2>2. refs' = refs /\ registry' = Without(registry, s, gone) OBVIOUS
  <2> QED BY ONLY <1>2, <2>1, <2>2
<1>5. KeepsGates(registry, registry') BY <1>4 DEF SameCoords, KeepsGates
<1> QED BY <1>1, <1>4, <1>5, ReferencesStep

\* Eviction and the end of a session.
LEMMA CloseCore ==
    ASSUME Core, NEW s \in Sessions, Close(s)
    PROVE  Core'
<1>1. ASSUME NEW x \in store[s], EvictSnapshot(s, x) PROVE Core'
  <2>1. {x} \in SUBSET store[s] OBVIOUS
  <2> QED BY <1>1, <2>1, DropCore DEF EvictSnapshot, sessions
<1>2. CASE CloseStore(s)
  <2> DEFINE gone == {x \in store[s] : Key(x) \notin Pinned(s)}
  <2>1. gone \in SUBSET store[s] OBVIOUS
  <2>2. topology' = topology /\ handlers' = handlers /\ refs' = refs
        /\ registry' = Without(registry, s, gone) /\ store' = [store EXCEPT ![s] = @ \ gone]
    BY <1>2 DEF CloseStore
  <2> HIDE DEF gone
  <2> QED BY <2>1, <2>2, DropCore
<1>3. CASE CloseSession(s)
  <2> DEFINE R == Refs(handlers, refs, store)
             G == {BySession(s, w) : w \in refs[s]}
  <2>1. /\ topology' = topology /\ handlers' = handlers /\ store' = store
        /\ registry' = Released(registry, G) /\ refs' = Cleared(refs, s)
    BY <1>3 DEF CloseSession, Cleared
  <2>2. /\ registry \in Registries /\ refs \in [Sessions -> SUBSET Worktrees] /\ Exact(registry, R)
        /\ StoresOK(store)
    BY DEF Core
  <2>3. Refs(handlers, refs', store') = R \ G /\ G \subseteq R BY <2>1, <2>2, RefsSessionClear
  <2>4. refs' \in [Sessions -> SUBSET Worktrees] BY <2>1, <2>2 DEF Cleared
  <2> HIDE DEF R, G
  <2>5. registry' \in Registries /\ SameCoords(registry, registry') /\ Exact(registry', R \ G)
    BY <2>1, <2>2, <2>3, ReleasedFacts
  <2>6. KeepsGates(registry, registry') BY <2>5 DEF SameCoords, KeepsGates
  <2> QED BY <2>1, <2>2, <2>3, <2>4, <2>5, <2>6, ReferencesStep
<1> QED BY <1>1, <1>2, <1>3 DEF Close

\* the rest of the state
World ==
    /\ exists \in SUBSET Worktrees
    /\ content \in [Worktrees -> Contents]
    /\ mu \in [Sessions -> Handlers \cup {Nobody}]
    /\ status \in [Sessions -> {"open", "closing", "closed"}]

\* It holds initially, ...
LEMMA WorldInit == ASSUME Init PROVE World
<1>1. (CHOOSE c \in Contents : TRUE) \in Contents BY GitConstants
<1> QED BY <1>1 DEF Init, World

\* ... while nothing of it changes, ...
LEMMA WorldKept ==
    ASSUME World, exists' = exists, content' = content, mu' = mu, status' = status
    PROVE  World'
BY DEF World

\* ... through the steps of a handler, ...
LEMMA StepWorld ==
    ASSUME World, HandlersOK(handlers), NEW h \in Handlers, Step(h)
    PROVE  World'
<1> USE DEF filesystem, sessions
<1>1. InSession(h) \in Sessions BY SessionType
<1>2. CASE Resolve(h) BY <1>2, WorldKept DEF Resolve
<1>3. CASE LockSession(h)
  <2>1. mu' \in [Sessions -> Handlers \cup {Nobody}] BY <1>1, <1>3 DEF LockSession, World
  <2>2. exists' = exists /\ content' = content /\ status' = status BY <1>3 DEF LockSession
  <2> QED BY <2>1, <2>2 DEF World
<1>4. CASE RetainInSession(h)
  <2>1. mu' \in [Sessions -> Handlers \cup {Nobody}] BY <1>1, <1>4 DEF RetainInSession, World
  <2>2. exists' = exists /\ content' = content /\ status' = status BY <1>4 DEF RetainInSession
  <2> QED BY <2>1, <2>2 DEF World
<1>5. CASE RequestLease(h) BY <1>5, WorldKept DEF RequestLease
<1>6. CASE EnterRepository(h) BY <1>6, WorldKept DEF EnterRepository
<1>7. CASE MarkIncomplete(h) BY <1>7, WorldKept DEF MarkIncomplete
<1>8. CASE Leased(h) BY <1>8, WorldKept DEF Leased
<1>9. CASE Capture(h) BY <1>9, WorldKept DEF Capture
<1>10. CASE \E x \in store[InSession(h)] : Page(h, x) BY <1>10, WorldKept DEF Page
<1>11. CASE ReadOnly(h) BY <1>11, WorldKept DEF ReadOnly
<1>12. CASE Mutate(h)
  <2>1. PICK c \in [TreesOf(RepoOf[Tree(h)]) -> Contents] :
           content' = [w \in Worktrees |-> IF w \in DOMAIN c THEN c[w] ELSE content[w]]
    BY <1>12 DEF Mutate
  <2>2. content' \in [Worktrees -> Contents] BY <2>1 DEF World
  <2>3. exists' = exists /\ mu' = mu /\ status' = status BY <1>12 DEF Mutate
  <2> QED BY <2>2, <2>3 DEF World
<1>13. CASE Reload(h) BY <1>13, WorldKept DEF Reload
<1>14. CASE ReleaseLease(h) BY <1>14, WorldKept DEF ReleaseLease
<1>15. CASE Unretain(h) BY <1>15, WorldKept DEF Unretain
<1>16. CASE Scan(h) BY <1>16, WorldKept DEF Scan
<1>17. CASE \E w \in handlers[h].todo : ResolvePath(h, w) BY <1>17, WorldKept DEF ResolvePath
<1>18. CASE StartLocking(h) BY <1>18, WorldKept DEF StartLocking
<1>19. CASE LockNext(h) BY <1>19, WorldKept DEF LockNext
<1>20. CASE Locked(h) BY <1>20, WorldKept DEF Locked
<1>21. CASE Revalidate(h) BY <1>21, WorldKept DEF Revalidate
<1>22. CASE Effect(h)
  <2> DEFINE files == handlers[h].kind = "files"
             changed == IF files THEN handlers[h].over ELSE TreesOf(RepoOf[Tree(h)])
             moved == IF files THEN handlers[h].over ELSE handlers[h].over \ {Tree(h)}
  <2>1. /\ \E c \in [changed -> Contents] :
              content' = [w \in Worktrees |-> IF w \in changed THEN c[w] ELSE content[w]]
        /\ \E now \in SUBSET moved : exists' = (exists \ moved) \cup now
        /\ mu' = mu /\ status' = status
    BY <1>22 DEF Effect
  <2>2. moved \in SUBSET Worktrees BY DEF HandlersOK, HandlerRecs
  <2> HIDE DEF changed, moved
  <2>3. content' \in [Worktrees -> Contents] BY <2>1 DEF World
  <2>4. exists' \in SUBSET Worktrees BY <2>1, <2>2 DEF World
  <2> QED BY <2>1, <2>3, <2>4 DEF World
<1>23. CASE UnlockLast(h) BY <1>23, WorldKept DEF UnlockLast
<1>24. CASE EndEffect(h) BY <1>24, WorldKept DEF EndEffect
<1> QED
  BY <1>2, <1>3, <1>4, <1>5, <1>6, <1>7, <1>8, <1>9, <1>10, <1>11, <1>12, <1>13, <1>14, <1>15,
     <1>16, <1>17, <1>18, <1>19, <1>20, <1>21, <1>22, <1>23, <1>24 DEF Step

\* ... and through all others.
LEMMA OtherWorld ==
    ASSUME World, Next, \A h \in Handlers : ~Step(h)
    PROVE  World'
<1> USE DEF filesystem, sessions
<1>1. ASSUME NEW h \in Handlers, Arrive(h) PROVE World'
  BY <1>1, WorldKept DEF Arrive, Start, StartFiles
<1>2. ASSUME NEW h \in Handlers, CancelTopology(h) PROVE World'
  <2>1. mu' = [s \in Sessions |-> IF mu[s] = h THEN Nobody ELSE mu[s]]
        /\ exists' = exists /\ content' = content /\ status' = status
    BY <1>2 DEF CancelTopology
  <2> QED BY <2>1 DEF World
<1>3. ASSUME NEW h \in Handlers, CancelRepository(h) PROVE World'
  BY <1>3, WorldKept DEF CancelRepository
<1>4. ASSUME NEW s \in Sessions, Close(s) PROVE World'
  <2>1. CASE \E x \in store[s] : EvictSnapshot(s, x) BY <2>1, WorldKept DEF EvictSnapshot
  <2>2. CASE CloseStore(s) \/ CloseSession(s)
    <3>1. exists' = exists /\ content' = content /\ mu' = mu
      BY <2>2 DEF CloseStore, CloseSession
    <3>2. status' \in [Sessions -> {"open", "closing", "closed"}]
      BY <2>2 DEF CloseStore, CloseSession, World
    <3> QED BY <3>1, <3>2 DEF World
  <2> QED BY <1>4, <2>1, <2>2 DEF Close
<1> QED BY <1>1, <1>2, <1>3, <1>4 DEF Next, Cancel

\* Every step of a handler keeps Core.
LEMMA StepCore ==
    ASSUME Core, World, NEW h \in Handlers, Step(h)
    PROVE  Core'
<1>1. content \in [Worktrees -> Contents] BY DEF World
<1> QED
  BY <1>1, ResolveCore, LockSessionCore, RetainInSessionCore, RequestLeaseCore, EnterRepositoryCore,
     MarkIncompleteCore, LeasedCore, CaptureCore, PageCore, ReadOnlyCore, MutateCore, ReloadCore,
     ReleaseLeaseCore, UnretainCore, ScanCore, ResolvePathCore, StartLockingCore, LockNextCore,
     LockedCore, RevalidateCore, EffectCore, UnlockLastCore, EndEffectCore DEF Step

\* Core is inductive.
LEMMA CoreNext ==
    ASSUME Core, World, [Next]_vars
    PROVE  Core' /\ World'
<1>1. ASSUME NEW h \in Handlers, Arrive(h) PROVE Core'
  BY <1>1, StartCore, StartFilesCore DEF Arrive
<1>2. ASSUME NEW h \in Handlers, Step(h) PROVE Core' /\ World'
  BY <1>2, StepCore, StepWorld DEF Core
<1>3. ASSUME NEW h \in Handlers, Cancel(h) PROVE Core'
  BY <1>3, CancelTopologyCore, CancelRepositoryCore DEF Cancel
<1>4. ASSUME NEW s \in Sessions, Close(s) PROVE Core'
  BY <1>4, CloseCore
<1>5. CASE UNCHANGED vars
  BY <1>5 DEF vars, filesystem, sessions, Core, World
<1>6. CASE Next /\ \A h \in Handlers : ~Step(h)
  BY <1>1, <1>3, <1>4, <1>6, OtherWorld DEF Next
<1> QED BY <1>2, <1>5, <1>6

\* The gates agree with the handlers and the registry counts their references,
\* in every reachable state (gate.go, runtime.go, session.go).
THEOREM CoreHolds == Spec => [](Core /\ World)
<1>1. Init => Core /\ World BY CoreInit, WorldInit
<1>2. Core /\ World /\ [Next]_vars => (Core /\ World)' BY CoreNext
<1> QED BY <1>1, <1>2, PTL DEF Spec

\* Core and World give every variable its type.
LEMMA CoreTypes == ASSUME Core, World PROVE TypeOK
<1>1. \A h \in Handlers : handlers[h].pc \in Phases BY DEF Core, HandlersOK, HandlerRecs
<1>2. topology.readers \in Nat BY DEF Core, TopInv, GateOK, Gates
<1>3. registry.trees \in [Worktrees -> Nat \cup {NoEntry}] BY DEF Core, Registries
<1>4. \A r \in Repos : registry.coords[r].refs \in Nat /\ registry.coords[r].gate.readers \in Nat
  BY DEF Core, Registries, Coordinators, Gates
<1>5. refs \in [Sessions -> SUBSET Worktrees] /\ \A s \in Sessions : store[s] \subseteq Snapshots
  BY DEF Core, StoresOK
<1> QED BY <1>1, <1>2, <1>3, <1>4, <1>5 DEF TypeOK, World

\* The variables keep their types: no counter of the registry and no number of
\* readers of a gate goes below zero.
THEOREM GitTypes == Spec => []TypeOK
BY CoreHolds, CoreTypes, PTL

\* The registry counts, for every worktree and every repository, exactly the
\* handlers, sessions and snapshots that reference it: none is leaked, none is
\* released twice (retainIdentity, releaseIdentity).
THEOREM ReferencesCounted == Spec => []ReferencesExact
<1>1. ASSUME Core PROVE ReferencesExact
  <2>0. Exact(registry, Refs(handlers, refs, store)) BY <1>1 DEF Core
  <2>1. Exact(registry, References) BY ONLY <2>0, ReferencesAreRefs
  <2> QED BY <2>1 DEF ReferencesExact, Exact, Counted
<1> QED BY <1>1, CoreHolds, PTL

\* Whoever has the topology gate to itself finds the gate of a repository free,
\* so the locks of CoordinateTopologyMutation cannot wait for each other.
THEOREM WritersFindGatesFree == Spec => []RepositoryGatesFree
<1>1. ASSUME Core, NEW h \in Handlers, At(h, "lockWait") PROVE LetIn(RepoGate(NextId(h)), h)
  <2>1. handlers[h] \in HandlerRecs /\ RecOK(handlers[h]) /\ handlers[h].pc = "lockWait"
    BY <1>1 DEF Core, HandlersOK, At
  <2>2. NextId(h) = First(handlers[h].ids \ handlers[h].locked) BY DEF NextId, Unlocked
  <2>3. handlers[h].ids \ handlers[h].locked \in SUBSET Worktrees BY <2>1 DEF HandlerRecs
  <2>4. NextId(h) \in Worktrees BY <2>1, <2>2, <2>3, FirstIn DEF RecOK
  <2>5. RepoOf[NextId(h)] \in Repos BY <2>4, GitConstants
  <2> QED BY <1>1, <2>1, <2>5 DEF Core, GatesInv, LetIn, RepoGate
<1>2. Core => RepositoryGatesFree BY <1>1 DEF RepositoryGatesFree
<1> QED BY <1>2, CoreHolds, PTL

\* Who may read or change a repository is inside its gate.
LEMMA Admitted ==
    ASSUME Core, NEW h \in Handlers, NEW r
    PROVE  /\ r \in Changes(h) => /\ r \in Repos /\ h \in Inside(registry.coords[r].gate, RepoModes(handlers, r))
                                  /\ RepoModes(handlers, r)[h] = "write"
           /\ r \in Reads(h) => r \in Repos /\ h \in Inside(registry.coords[r].gate, RepoModes(handlers, r))
<1> DEFINE t == handlers[h]
<1>1. t \in HandlerRecs /\ RecOK(t) BY DEF Core, HandlersOK
<1>2. RepoModes(handlers, r)[h] = RepoMode(t, r) BY DEF RepoModes
<1>3. ASSUME r \in Repos, RepoMode(t, r) # "out", t.pc # "gate"
      PROVE  h \in Inside(registry.coords[r].gate, RepoModes(handlers, r))
  BY <1>2, <1>3 DEF Core, GatesInv, Inside
<1>4. ASSUME r \in ReposOf(t.locked)
      PROVE  RepoMode(t, r) = "write" /\ r \in Repos /\ t.pc # "gate"
  <2>1. r \in ReposOf(Taken(t)) BY <1>4 DEF Taken, ReposOf
  <2>2. t.pc # "gate" BY <1>1, <1>4 DEF RecOK, ReposOf, Coordinating
  <2>3. r \in Repos BY <1>1, <1>4, GitConstants DEF HandlerRecs, ReposOf
  <2> QED BY <2>1, <2>2, <2>3 DEF RepoMode
<1>5. ASSUME HasLease(h), r = RepoOf[Tree(h)]
      PROVE  /\ RepoMode(t, r) # "out" /\ r \in Repos /\ t.pc # "gate"
             /\ Writes(h) => RepoMode(t, r) = "write"
  <2>1. Leasing(t) /\ t.pc # "gate" BY <1>5 DEF HasLease, Leasing, At, Writes
  <2>2. r \in Repos /\ RepoOf[t.tree] = r BY <1>1, <1>5, GitConstants DEF HandlerRecs, Tree
  <2> QED BY <2>1, <2>2 DEF RepoMode, Writes
<1> QED BY <1>2, <1>3, <1>4, <1>5 DEF Changes, Reads

\* A repository that one handler may change is not read or changed by another,
\* although the coordinator that owns its gate may have been evicted and made
\* anew in between.
THEOREM RepositoriesExclude == Spec => []RepositoryExclusion
<1>1. ASSUME Core, NEW h \in Handlers, NEW i \in Handlers, h # i, NEW r \in Changes(h)
      PROVE  r \notin Reads(i) \cup Changes(i)
  <2>1. r \in Repos /\ h \in Inside(registry.coords[r].gate, RepoModes(handlers, r))
        /\ RepoModes(handlers, r)[h] = "write"
    BY <1>1, Admitted
  <2>2. AloneOK(registry.coords[r].gate, RepoModes(handlers, r))
    BY <1>1, <2>1 DEF Core, GatesInv, GateOK
  <2>3. i \notin Inside(registry.coords[r].gate, RepoModes(handlers, r))
    BY <1>1, <2>1, <2>2 DEF AloneOK
  <2> QED BY <1>1, <2>3, Admitted
<1>2. Core => RepositoryExclusion BY <1>1 DEF RepositoryExclusion
<1> QED BY <1>2, CoreHolds, PTL

----------------------------------------------------------------------------
(* Epochs, snapshots and worktrees. *)

\* the repositories a handler may change while it is in this phase
Changing(t) ==
    ReposOf(t.locked) \cup (IF t.pc = "work" /\ t.kind = "mutation" THEN {RepoOf[t.tree]} ELSE {})

\* the scan of the registry was repeated under the locks
Scanned(t) == t.pc = "effect" \/ (t.pc = "reload" /\ t.kind # "mutation")

\* a stored snapshot of the current epoch says what git says now
StoresFresh(reg, st, ct) ==
    \A s \in Sessions : \A x \in st[s] :
        /\ x.epoch <= reg.coords[RepoOf[x.tree]].epoch
        /\ x.epoch = reg.coords[RepoOf[x.tree]].epoch => x.content = ct[x.tree]

\* a lease knows the epoch of its coordinator
EpochOK(t, reg) == t.pc = "work" => t.epoch = reg.coords[RepoOf[t.tree]].epoch

\* the snapshots of a repository that may change are of earlier epochs
OldOK(t, reg, st) ==
    \A s \in Sessions : \A x \in st[s] :
        RepoOf[x.tree] \in Changing(t) => x.epoch < reg.coords[RepoOf[x.tree]].epoch

PinOK(t, ct) == \A k \in t.pin : k.content = ct[k.tree]

\* an effect has locked the repositories of the snapshots it may falsify
ScopeOK(t, st) ==
    Scanned(t) => \A s \in Sessions : \A x \in st[s] :
                      x.tree \in t.over => RepoOf[x.tree] \in ReposOf(t.locked)

StandOK(t, ex) == Leasing(t) => t.tree \in ex

\* the repository of a worktree whose branch is deleted gets locked, unless
\* the worktree is gone
DeleteOK(t, ex) ==
    t.kind = "delete" =>
        /\ t.pc = "coordinate" => t.tree \in t.todo
        /\ t.pc \in {"scan", "lockNext", "lockWait", "reload", "effect"}
              => t.tree \in t.todo \/ t.tree \notin ex \/ RepoOf[t.tree] \in ReposOf(t.ids)
        /\ t.pc = "effect" => t.tree \in ex

HandlerFresh(t, reg, st, ex, ct) ==
    /\ EpochOK(t, reg) /\ OldOK(t, reg, st) /\ PinOK(t, ct)
    /\ ScopeOK(t, st) /\ StandOK(t, ex) /\ DeleteOK(t, ex)

FreshInv ==
    /\ StoresFresh(registry, store, content)
    /\ \A h \in Handlers : HandlerFresh(handlers[h], registry, store, exists, content)

\* coordinators with references keep their epochs
Epochs(g, q) ==
    \A r \in Repos : g.coords[r].refs = 0 \/ q.coords[r].epoch = g.coords[r].epoch

\* but for the one of r, which advances
Advances(g, q, r) ==
    /\ \A s \in Repos \ {r} : g.coords[s].refs = 0 \/ q.coords[s].epoch = g.coords[s].epoch
    /\ q.coords[r].epoch = g.coords[r].epoch + 1

SameEpochs(g, q) == \A r \in Repos : q.coords[r].epoch = g.coords[r].epoch

Shrinks(st, tt) == \A s \in Sessions : tt[s] \subseteq st[s]

Others(h, hs, hn) == \A i \in Handlers \ {h} : hn[i] = hs[i]

\* How these relations compose.
LEMMA SameAreEpochs ==
    /\ \A g, q : SameCoords(g, q) => SameEpochs(g, q)
    /\ \A g, q : SameEpochs(g, q) => Epochs(g, q)
    /\ \A g, q : Keeps(g, q) => Epochs(g, q)
    /\ \A g, p, q : Epochs(g, p) /\ SameEpochs(p, q) => Epochs(g, q)
    /\ \A g, p, q, r : Advances(g, p, r) /\ SameEpochs(p, q) /\ r \in Repos => Advances(g, q, r)
BY DEF SameCoords, SameEpochs, Epochs, Keeps, Advances

\* releaseIdentity leaves the epochs alone, ...
LEMMA ReleasedEpochs ==
    ASSUME NEW g \in Registries, NEW T
    PROVE  SameEpochs(g, Released(g, T))
<1>1. g.coords \in [Repos -> Coordinators] BY DEF Registries
<1>2. ASSUME NEW r \in Repos PROVE Released(g, T).coords[r].epoch = g.coords[r].epoch
  <2>1. g.coords[r] \in Coordinators BY <1>1
  <2>2. Released(g, T).coords = [s \in Repos |->
                  [g.coords[s] EXCEPT !.refs = Less(g.coords[s].refs, Uses(T, TreesOf(s)))]]
    BY DEF Released, Registries
  <2>3. Released(g, T).coords[r]
          = [g.coords[r] EXCEPT !.refs = Less(g.coords[r].refs, Uses(T, TreesOf(r)))]
    BY <2>2
  <2> QED BY <2>1, <2>3 DEF Coordinators
<1> QED BY <1>2 DEF SameEpochs

\* ... and so does a gate.
LEMMA GateEpochs ==
    ASSUME NEW g \in Registries, NEW r \in Repos, NEW n
    PROVE  SameEpochs(g, WithGate(g, r, n))
<1>1. g.coords \in [Repos -> Coordinators] BY DEF Registries
<1>2. WithGate(g, r, n).coords = [g.coords EXCEPT ![r] = [g.coords[r] EXCEPT !.gate = n]]
  BY <1>1 DEF WithGate, Registries
<1>3. ASSUME NEW s \in Repos PROVE WithGate(g, r, n).coords[s].epoch = g.coords[s].epoch
  <2>1. g.coords[r] \in Coordinators BY <1>1
  <2>2. [g.coords[r] EXCEPT !.gate = n].epoch = g.coords[r].epoch BY <2>1 DEF Coordinators
  <2>3. CASE s = r BY <1>1, <1>2, <2>2, <2>3
  <2>4. CASE s # r BY <1>1, <1>2, <2>4
  <2> QED BY <2>3, <2>4
<1> QED BY <1>3 DEF SameEpochs

\* advanceEpoch.
LEMMA BumpAdvances ==
    ASSUME NEW g \in Registries, NEW w \in Worktrees
    PROVE  Advances(g, Bump(g, w), RepoOf[w])
BY BumpFacts DEF Advances

\* The coordinator of a snapshot, and of a handler at work, has references.
LEMMA Referenced ==
    ASSUME Core
    PROVE  /\ \A s \in Sessions : \A x \in store[s] :
                 /\ x.tree \in Worktrees /\ RepoOf[x.tree] \in Repos /\ x.epoch \in Nat
                 /\ registry.coords[RepoOf[x.tree]].refs # 0
                 /\ registry.coords[RepoOf[x.tree]].epoch \in Nat
                 /\ registry.trees[x.tree] # NoEntry
           /\ \A h \in Handlers :
                 handlers[h].pc = "work" =>
                     /\ registry.coords[RepoOf[handlers[h].tree]].refs # 0
                     /\ RepoOf[handlers[h].tree] \in Repos
<1> DEFINE R == Refs(handlers, refs, store)
<1>0. Exact(registry, R) /\ registry \in Registries BY DEF Core
<1>1. ASSUME NEW s \in Sessions, NEW x \in store[s]
      PROVE  /\ x.tree \in Worktrees /\ RepoOf[x.tree] \in Repos /\ x.epoch \in Nat
             /\ registry.coords[RepoOf[x.tree]].refs # 0
             /\ registry.coords[RepoOf[x.tree]].epoch \in Nat
             /\ registry.trees[x.tree] # NoEntry
  <2>1. x \in Snapshots BY DEF Core, StoresOK
  <2>2. x.tree \in Worktrees /\ x.epoch \in Nat /\ RepoOf[x.tree] \in Repos
    BY <2>1, GitConstants DEF Snapshots
  <2>3. BySnapshot(s, x) \in SnapshotRefs(store) BY SnapshotRefsMembers
  <2>4. BySnapshot(s, x) \in R BY <2>3 DEF Refs
  <2>5. BySnapshot(s, x)[2] = x.tree BY DEF BySnapshot
  <2> HIDE DEF R
  <2>6. registry.coords[RepoOf[x.tree]].refs > 0 /\ registry.trees[x.tree] # NoEntry
    BY <1>0, <2>2, <2>4, <2>5, ReferencedCoord
  <2>7. registry.coords[RepoOf[x.tree]] \in Coordinators BY <1>0, <2>2 DEF Registries
  <2> QED BY <2>2, <2>6, <2>7 DEF Coordinators
<1>2. ASSUME NEW h \in Handlers, handlers[h].pc = "work"
      PROVE  registry.coords[RepoOf[handlers[h].tree]].refs # 0 /\ RepoOf[handlers[h].tree] \in Repos
  <2>1. handlers[h] \in HandlerRecs /\ RecOK(handlers[h]) BY DEF Core, HandlersOK
  <2>2. RepoMode(handlers[h], RepoOf[handlers[h].tree]) # "out" BY <1>2 DEF RepoMode, Leasing
  <2>3. handlers[h].tree \in Worktrees BY <2>1 DEF HandlerRecs
  <2>4. RepoOf[handlers[h].tree] \in Repos BY <2>3, GitConstants
  <2>5. registry.coords[RepoOf[handlers[h].tree]].refs > 0 BY <2>2, Wanted DEF Core
  <2> QED BY <2>4, <2>5
<1> QED BY <1>1, <1>2

\* Nothing changes but that snapshots go and coordinators are replaced.
LEMMA CalmStores ==
    ASSUME Core, FreshInv, NEW q, NEW st, Shrinks(store, st), Epochs(registry, q)
    PROVE  /\ StoresFresh(q, st, content)
           /\ \A i \in Handlers : HandlerFresh(handlers[i], q, st, exists, content)
<1>1. ASSUME NEW s \in Sessions, NEW x \in st[s]
      PROVE  /\ x \in store[s]
             /\ q.coords[RepoOf[x.tree]].epoch = registry.coords[RepoOf[x.tree]].epoch
  BY Referenced DEF Shrinks, Epochs
<1>2. StoresFresh(q, st, content) BY <1>1 DEF StoresFresh, FreshInv
<1>3. ASSUME NEW i \in Handlers
      PROVE  HandlerFresh(handlers[i], q, st, exists, content)
  <2> DEFINE t == handlers[i]
  <2>1. HandlerFresh(t, registry, store, exists, content) BY DEF FreshInv
  <2>2. EpochOK(t, q) BY <2>1, Referenced DEF HandlerFresh, EpochOK, Epochs
  <2>3. OldOK(t, q, st) BY <1>1, <2>1 DEF HandlerFresh, OldOK
  <2>4. ScopeOK(t, st) BY <1>1, <2>1 DEF HandlerFresh, ScopeOK
  <2> QED BY <2>1, <2>2, <2>3, <2>4 DEF HandlerFresh
<1> QED BY <1>2, <1>3

\* One coordinator advances, and no other handler is at work in its repository.
LEMMA AdvanceStores ==
    ASSUME Core, FreshInv, Shrinks(store, store'), NEW r \in Repos,
           Advances(registry, registry', r), content' = content, exists' = exists, NEW h \in Handlers,
           \A i \in Handlers \ {h} : handlers[i].pc = "work" => RepoOf[handlers[i].tree] # r
    PROVE  /\ StoresFresh(registry', store', content')
           /\ \A i \in Handlers \ {h} :
                 HandlerFresh(handlers[i], registry', store', exists', content')
           /\ \A s \in Sessions : \A x \in store'[s] :
                 /\ x \in store[s]
                 /\ RepoOf[x.tree] = r => x.epoch < registry'.coords[r].epoch
                 /\ RepoOf[x.tree] # r => registry'.coords[RepoOf[x.tree]].epoch
                                             = registry.coords[RepoOf[x.tree]].epoch
<1>1. ASSUME NEW s \in Sessions, NEW x \in store'[s]
      PROVE  /\ x \in store[s] /\ x.epoch \in Nat
             /\ RepoOf[x.tree] = r => /\ x.epoch < registry'.coords[r].epoch
             /\ RepoOf[x.tree] # r => registry'.coords[RepoOf[x.tree]].epoch
                                         = registry.coords[RepoOf[x.tree]].epoch
  <2>1. x \in store[s] BY DEF Shrinks
  <2>2. /\ x.epoch \in Nat /\ RepoOf[x.tree] \in Repos
        /\ registry.coords[RepoOf[x.tree]].refs # 0
        /\ registry.coords[RepoOf[x.tree]].epoch \in Nat
    BY <2>1, Referenced
  <2>3. x.epoch <= registry.coords[RepoOf[x.tree]].epoch BY <2>1 DEF FreshInv, StoresFresh
  <2> QED BY <2>1, <2>2, <2>3 DEF Advances
<1>2. StoresFresh(registry', store', content')
  <2> SUFFICES ASSUME NEW s \in Sessions, NEW x \in store'[s]
               PROVE  /\ x.epoch <= registry'.coords[RepoOf[x.tree]].epoch
                      /\ x.epoch = registry'.coords[RepoOf[x.tree]].epoch
                            => x.content = content'[x.tree]
    BY DEF StoresFresh
  <2>1. /\ x.epoch <= registry.coords[RepoOf[x.tree]].epoch
        /\ x.epoch = registry.coords[RepoOf[x.tree]].epoch => x.content = content[x.tree]
    BY <1>1 DEF FreshInv, StoresFresh
  <2>2. registry.coords[r].epoch \in Nat BY DEF Core, Registries, Coordinators
  <2>3. registry'.coords[r].epoch \in Nat BY <2>2 DEF Advances
  <2>4. CASE RepoOf[x.tree] = r BY <1>1, <2>3, <2>4
  <2>5. CASE RepoOf[x.tree] # r BY <1>1, <2>1, <2>5
  <2> QED BY <2>4, <2>5
<1>3. ASSUME NEW i \in Handlers \ {h}
      PROVE  HandlerFresh(handlers[i], registry', store', exists', content')
  <2> DEFINE t == handlers[i]
  <2>1. HandlerFresh(t, registry, store, exists, content) BY DEF FreshInv
  <2>2. EpochOK(t, registry')
    <3>1. ASSUME t.pc = "work" PROVE t.epoch = registry'.coords[RepoOf[t.tree]].epoch
      <4>1. RepoOf[t.tree] \in Repos \ {r} /\ registry.coords[RepoOf[t.tree]].refs # 0
        BY <3>1, Referenced
      <4>2. t.epoch = registry.coords[RepoOf[t.tree]].epoch
        BY <2>1, <3>1 DEF HandlerFresh, EpochOK
      <4> QED BY <4>1, <4>2 DEF Advances
    <3> QED BY <3>1 DEF EpochOK
  <2>3. OldOK(t, registry', store')
    <3> SUFFICES ASSUME NEW s \in Sessions, NEW x \in store'[s], RepoOf[x.tree] \in Changing(t)
                 PROVE  x.epoch < registry'.coords[RepoOf[x.tree]].epoch
      BY DEF OldOK
    <3>1. x.epoch < registry.coords[RepoOf[x.tree]].epoch
      BY <1>1, <2>1 DEF HandlerFresh, OldOK
    <3> QED BY <1>1, <3>1
  <2>4. ScopeOK(t, store') BY <1>1, <2>1 DEF HandlerFresh, ScopeOK
  <2> QED BY <2>1, <2>2, <2>3, <2>4 DEF HandlerFresh
<1> QED BY <1>1, <1>2, <1>3

\* One handler moves, snapshots go, coordinators are replaced.
LEMMA CalmMove ==
    ASSUME Core, FreshInv, NEW h \in Handlers, Others(h, handlers, handlers'),
           Shrinks(store, store'), Epochs(registry, registry'), content' = content, exists' = exists,
           HandlerFresh(handlers'[h], registry', store', exists', content')
    PROVE  FreshInv'
<1>1. /\ StoresFresh(registry', store', content')
      /\ \A i \in Handlers : HandlerFresh(handlers[i], registry', store', exists', content')
  BY CalmStores
<1> QED BY <1>1 DEF FreshInv, Others

\* A light handler claims nothing of snapshots and worktrees.
LEMMA LightFresh ==
    ASSUME NEW t, RecOK(t), t.pc \in Light, NEW ex, DeleteOK(t, ex), NEW reg, NEW st, NEW ct
    PROVE  HandlerFresh(t, reg, st, ex, ct)
<1>1. t.pin = {} /\ t.locked = {} /\ ~Leasing(t) BY LightFacts DEF RecOK, Light
<1>2. Changing(t) = {} /\ ~Scanned(t) /\ t.pc # "work"
  BY <1>1 DEF Changing, Scanned, ReposOf, Light
<1> QED BY <1>1, <1>2 DEF HandlerFresh, EpochOK, OldOK, PinOK, ScopeOK, StandOK

\* A handler goes to a light phase.
LEMMA LightMove ==
    ASSUME Core, Core', FreshInv, NEW h \in Handlers, Others(h, handlers, handlers'),
           handlers'[h].pc \in Light, DeleteOK(handlers'[h], exists),
           Shrinks(store, store'), Epochs(registry, registry'), content' = content, exists' = exists
    PROVE  FreshInv'
<1>1. RecOK(handlers'[h]) BY DEF Core, HandlersOK
<1>2. HandlerFresh(handlers'[h], registry', store', exists', content') BY <1>1, LightFresh
<1> QED BY <1>2, CalmMove

\* A step of h leaves the other handlers alone.
LEMMA GotoOthers ==
    ASSUME HandlersOK(handlers), NEW h \in Handlers
    PROVE  /\ \A pc : Goto(h, pc) => /\ Others(h, handlers, handlers')
                                     /\ handlers'[h] = Moved(handlers[h], pc, FALSE)
           /\ Done(h) => Others(h, handlers, handlers') /\ handlers'[h] = IdleHandler
           /\ \A u : handlers' = [handlers EXCEPT ![h] = u]
                        => Others(h, handlers, handlers') /\ handlers'[h] = u
<1>1. handlers \in [Handlers -> HandlerRecs] BY DEF HandlersOK
<1> QED BY <1>1 DEF Goto, Done, Others, Moved

\* What a handler keeps when it goes on.
LEMMA MovedTo ==
    ASSUME HandlersOK(handlers), NEW h \in Handlers
    PROVE  \A pc : Goto(h, pc) =>
              /\ Others(h, handlers, handlers') /\ handlers'[h].pc = pc
              /\ handlers'[h].kind = handlers[h].kind /\ handlers'[h].tree = handlers[h].tree
              /\ handlers'[h].epoch = handlers[h].epoch /\ handlers'[h].pin = handlers[h].pin
              /\ handlers'[h].over = handlers[h].over /\ handlers'[h].todo = handlers[h].todo
              /\ handlers'[h].ids = handlers[h].ids /\ handlers'[h].locked = handlers[h].locked
<1>1. handlers \in [Handlers -> HandlerRecs] /\ handlers[h] \in HandlerRecs BY DEF HandlersOK
<1> SUFFICES ASSUME NEW pc, Goto(h, pc)
             PROVE  /\ Others(h, handlers, handlers') /\ handlers'[h].pc = pc
                    /\ handlers'[h].kind = handlers[h].kind /\ handlers'[h].tree = handlers[h].tree
                    /\ handlers'[h].epoch = handlers[h].epoch /\ handlers'[h].pin = handlers[h].pin
                    /\ handlers'[h].over = handlers[h].over /\ handlers'[h].todo = handlers[h].todo
                    /\ handlers'[h].ids = handlers[h].ids /\ handlers'[h].locked = handlers[h].locked
  OBVIOUS
<1>2. Others(h, handlers, handlers') /\ handlers'[h] = Moved(handlers[h], pc, FALSE)
  BY GotoOthers
<1> QED BY <1>1, <1>2 DEF Moved, HandlerRecs

\* What does not change, or only loses snapshots.
LEMMA Untouched ==
    /\ registry' = registry => SameEpochs(registry, registry')
    /\ store' = store => Shrinks(store, store')
    /\ \A s, gone : store \in [Sessions -> SUBSET Snapshots] /\ store' = [store EXCEPT ![s] = @ \ gone]
          => Shrinks(store, store')
BY DEF SameEpochs, Shrinks

\* the phases in which the deletion of a branch has nothing to keep
NoDelete == {"idle", "resolve", "session", "retain", "lease", "enter", "mark"}

\* Phases in which the deletion of a branch claims nothing.
LEMMA QuietDelete ==
    ASSUME NEW t, t.pc \in NoDelete, NEW ex
    PROVE  t.pc \in Light /\ DeleteOK(t, ex)
BY DEF NoDelete, Light, DeleteOK

\* A handler goes to such a phase.
LEMMA QuietMove ==
    ASSUME Core, Core', FreshInv, NEW h \in Handlers, Others(h, handlers, handlers'),
           handlers'[h].pc \in NoDelete, store' = store, Epochs(registry, registry'),
           content' = content, exists' = exists
    PROVE  FreshInv'
BY QuietDelete, LightMove, Untouched

\* Start keeps FreshInv.
LEMMA StartFresh ==
    ASSUME Core, Core', FreshInv, NEW h \in Handlers, Arrive(h)
    PROVE  FreshInv'
<1>0. HandlersOK(handlers) BY DEF Core
<1>1. /\ registry' = registry /\ content' = content /\ exists' = exists /\ store' = store
  BY DEF Arrive, Start, StartFiles, filesystem
<1>2. Epochs(registry, registry') BY <1>1, Untouched, SameAreEpochs
<1>3. ASSUME NEW kind \in Kinds, NEW w \in Worktrees, Start(h, kind, w) PROVE FreshInv'
  <2> DEFINE u == [IdleHandler EXCEPT !.pc = "resolve", !.kind = kind, !.tree = w,
                        !.queued = ~canAcquireImmediately(topology, FALSE)]
  <2>1. handlers' = [handlers EXCEPT ![h] = u] BY <1>3 DEF Start
  <2>2. u.pc = "resolve" BY DEF IdleHandler
  <2> HIDE DEF u
  <2>3. Others(h, handlers, handlers') /\ handlers'[h] = u BY <1>0, <2>1, GotoOthers
  <2> QED BY <1>1, <1>2, <2>2, <2>3, QuietMove DEF NoDelete
<1>4. ASSUME NEW over, NEW paths, StartFiles(h, over, paths) PROVE FreshInv'
  <2> DEFINE u == [IdleHandler EXCEPT
                        !.pc = "coordinate", !.kind = "files", !.over = over, !.todo = paths,
                        !.queued = ~canAcquireImmediately(topology, TRUE)]
  <2>1. handlers' = [handlers EXCEPT ![h] = u] BY <1>4 DEF StartFiles
  <2>2. u.pc = "coordinate" /\ u.kind = "files" BY DEF IdleHandler
  <2> HIDE DEF u
  <2>3. Others(h, handlers, handlers') /\ handlers'[h] = u BY <1>0, <2>1, GotoOthers
  <2>4. u.pc \in Light /\ DeleteOK(u, exists) BY <2>2 DEF Light, DeleteOK
  <2> QED BY <1>1, <1>2, <2>3, <2>4, LightMove, Untouched
<1> QED BY <1>3, <1>4 DEF Arrive

\* retainIdentity keeps the epochs of referenced coordinators.
LEMMA RetainEpochs ==
    ASSUME NEW g \in Registries, NEW w \in Worktrees
    PROVE  /\ \A q \in retainIdentity(g, w) : q \in Registries /\ Epochs(g, q)
           /\ \A q \in admitIdentity(g, w) : q \in Registries /\ Epochs(g, q)
           /\ \A q \in retainFailures(g, w) : q \in Registries /\ Epochs(g, q)
BY RetainFacts, AdmitFacts, FailFacts, SameAreEpochs

\* Types of the state around a handler.
LEMMA TreeType ==
    ASSUME Core, NEW h \in Handlers
    PROVE  /\ Tree(h) \in Worktrees /\ RepoOf[Tree(h)] \in Repos /\ handlers[h] \in HandlerRecs
           /\ RecOK(handlers[h]) /\ HandlersOK(handlers) /\ registry \in Registries
           /\ store \in [Sessions -> SUBSET Snapshots]
<1>1. handlers[h] \in HandlerRecs /\ RecOK(handlers[h]) /\ HandlersOK(handlers)
  BY DEF Core, HandlersOK
<1>2. Tree(h) \in Worktrees BY <1>1 DEF HandlerRecs, Tree
<1> QED BY <1>1, <1>2, GitConstants DEF Core, StoresOK

\* Resolve keeps FreshInv.
LEMMA ResolveFresh ==
    ASSUME Core, Core', FreshInv, NEW h \in Handlers, Resolve(h)
    PROVE  FreshInv'
<1>1. /\ content' = content /\ exists' = exists /\ store' = store
  BY DEF Resolve, filesystem
<1>2. Epochs(registry, registry')
  BY TreeType, RetainEpochs, SameAreEpochs, Untouched DEF Resolve
<1>3. Others(h, handlers, handlers') /\ handlers'[h].pc \in {"session", "idle"}
  <2>1. Goto(h, "session") \/ Done(h) BY DEF Resolve
  <2> QED BY <2>1, MovedTo, GotoOthers, IdleFacts, TreeType
<1> QED BY <1>1, <1>2, <1>3, QuietMove DEF NoDelete

\* LockSession keeps FreshInv.
LEMMA LockSessionFresh ==
    ASSUME Core, Core', FreshInv, NEW h \in Handlers, LockSession(h)
    PROVE  FreshInv'
<1>1. content' = content /\ exists' = exists /\ store' = store /\ registry' = registry
  BY DEF LockSession, filesystem
<1>2. Epochs(registry, registry') BY <1>1, Untouched, SameAreEpochs
<1>3. Others(h, handlers, handlers') /\ handlers'[h].pc \in {"retain", "idle"}
  <2>1. CASE Done(h) BY <2>1, GotoOthers, IdleFacts, TreeType
  <2>2. CASE AskTopology(h, FALSE, "retain")
    <3>1. handlers \in [Handlers -> HandlerRecs] BY TreeType DEF HandlersOK
    <3> QED BY <2>2, <3>1 DEF AskTopology, Others, HandlerRecs
  <2> QED BY <2>1, <2>2 DEF LockSession
<1> QED BY <1>1, <1>2, <1>3, QuietMove DEF NoDelete

\* Session.retain keeps the epochs of referenced coordinators.
LEMMA KeepReferenceEpochs ==
    ASSUME Core, NEW h \in Handlers, KeepReference(h, registry)
    PROVE  Epochs(registry, registry')
BY TreeType, RetainEpochs DEF KeepReference

\* RetainInSession keeps FreshInv.
LEMMA RetainInSessionFresh ==
    ASSUME Core, Core', FreshInv, NEW h \in Handlers, RetainInSession(h)
    PROVE  FreshInv'
<1>1. content' = content /\ exists' = exists /\ store' = store
  BY DEF RetainInSession, filesystem
<1>2. Epochs(registry, registry')
  <2>1. CASE KeepReference(h, registry) BY <2>1, KeepReferenceEpochs
  <2>2. CASE registry' \in retainFailures(registry, Tree(h)) BY <2>2, TreeType, RetainEpochs
  <2>3. CASE registry' = [registry EXCEPT !.incomplete = TRUE]
    BY <2>3, TreeType, MarkFacts, SameAreEpochs
  <2> QED BY <2>1, <2>2, <2>3 DEF RetainInSession
<1>3. Others(h, handlers, handlers') /\ handlers'[h].pc \in {"lease", "idle"}
  <2>1. Goto(h, "lease") \/ Done(h) BY DEF RetainInSession
  <2> QED BY <2>1, MovedTo, GotoOthers, IdleFacts, TreeType
<1> QED BY <1>1, <1>2, <1>3, QuietMove DEF NoDelete

\* RequestLease keeps FreshInv.
LEMMA RequestLeaseFresh ==
    ASSUME Core, Core', FreshInv, NEW h \in Handlers, RequestLease(h)
    PROVE  FreshInv'
<1>1. content' = content /\ exists' = exists /\ store' = store /\ registry' = registry
  BY DEF RequestLease, filesystem
<1>2. Epochs(registry, registry') BY <1>1, Untouched, SameAreEpochs
<1>3. Others(h, handlers, handlers') /\ handlers'[h].pc = "enter"
  <2>1. handlers \in [Handlers -> HandlerRecs] BY TreeType DEF HandlersOK
  <2> QED BY <2>1 DEF RequestLease, AskTopology, Others, HandlerRecs
<1> QED BY <1>1, <1>2, <1>3, QuietMove DEF NoDelete

\* MarkIncomplete keeps FreshInv.
LEMMA MarkIncompleteFresh ==
    ASSUME Core, Core', FreshInv, NEW h \in Handlers, MarkIncomplete(h)
    PROVE  FreshInv'
<1>1. content' = content /\ exists' = exists /\ store' = store
      /\ registry' = [registry EXCEPT !.incomplete = TRUE] /\ Done(h)
  BY DEF MarkIncomplete, filesystem
<1>2. Epochs(registry, registry') BY <1>1, TreeType, MarkFacts, SameAreEpochs
<1>3. Others(h, handlers, handlers') /\ handlers'[h].pc = "idle"
  BY <1>1, GotoOthers, IdleFacts, TreeType
<1> QED BY <1>1, <1>2, <1>3, QuietMove DEF NoDelete

\* CancelTopology keeps FreshInv.
LEMMA CancelTopologyFresh ==
    ASSUME Core, Core', FreshInv, NEW h \in Handlers, CancelTopology(h)
    PROVE  FreshInv'
<1>1. content' = content /\ exists' = exists /\ store' = store /\ registry' = registry /\ Done(h)
  BY DEF CancelTopology, filesystem
<1>2. Epochs(registry, registry') BY <1>1, Untouched, SameAreEpochs
<1>3. Others(h, handlers, handlers') /\ handlers'[h].pc = "idle"
  BY <1>1, GotoOthers, IdleFacts, TreeType
<1> QED BY <1>1, <1>2, <1>3, QuietMove DEF NoDelete

\* CancelRepository keeps FreshInv.
LEMMA CancelRepositoryFresh ==
    ASSUME Core, Core', FreshInv, NEW h \in Handlers, CancelRepository(h)
    PROVE  FreshInv'
<1> DEFINE n == GiveUp(registry.coords[RepoOf[Tree(h)]].gate, h, Writes(h))
           q == WithGate(registry, RepoOf[Tree(h)], n)
<1>1. content' = content /\ exists' = exists /\ store' = store
      /\ registry' = ReleasedOne(q, Tree(h)) /\ Done(h)
  BY DEF CancelRepository, filesystem, WithGate
<1>2. SameEpochs(registry, q) BY TreeType, GateEpochs
<1>3. Epochs(registry, registry')
  <2>1. n \in Gates
    <3>1. At(h, "gate") BY DEF CancelRepository
    <3>2. Leasing(handlers[h]) BY <3>1 DEF At, Leasing
    <3>3. RepoMode(handlers[h], RepoOf[Tree(h)]) = Mode(Writes(h))
      BY <3>2, TreeType, LeaseFacts DEF Writes, Tree
    <3>4. GateOK(registry.coords[RepoOf[Tree(h)]].gate, RepoModes(handlers, RepoOf[Tree(h)]))
      BY TreeType DEF Core, GatesInv
    <3>5. RepoModes(handlers, RepoOf[Tree(h)])[h] = Mode(Writes(h)) BY <3>3 DEF RepoModes
    <3>6. Writes(h) \in BOOLEAN BY DEF Writes
    <3>7. RepoModes(handlers, RepoOf[Tree(h)]) \in Modes BY ModesType
    <3>8. GateOK(n, [RepoModes(handlers, RepoOf[Tree(h)]) EXCEPT ![h] = "out"])
      BY ONLY <3>4, <3>5, <3>6, <3>7, h \in Handlers, GiveUpOK
    <3> QED BY <3>8 DEF GateOK
  <2>2. q \in Registries BY <2>1, TreeType, SetGateFacts
  <2> HIDE DEF q
  <2>3. SameCoords(q, registry') BY <1>1, <2>2, TreeType, ReleasedOneFacts
  <2> QED BY <1>2, <2>3, SameAreEpochs
<1>4. Others(h, handlers, handlers') /\ handlers'[h].pc = "idle"
  BY <1>1, GotoOthers, IdleFacts, TreeType
<1> QED BY <1>1, <1>3, <1>4, QuietMove DEF NoDelete

\* What a handler in its lease must know.
LEMMA LeaseFresh ==
    ASSUME NEW t, RecOK(t), Leasing(t), NEW reg, NEW st, NEW ex, NEW ct, t.tree \in ex,
           PinOK(t, ct), EpochOK(t, reg), OldOK(t, reg, st)
    PROVE  HandlerFresh(t, reg, st, ex, ct)
<1>1. ~Scanned(t) BY DEF Scanned, Leasing
<1>2. DeleteOK(t, ex) BY DEF DeleteOK, Leasing
<1> QED BY <1>1, <1>2 DEF HandlerFresh, ScopeOK, StandOK

\* before the work of a lease, and after it
LEMMA IdleLeaseFresh ==
    ASSUME NEW t, RecOK(t), Leasing(t), t.pc # "work", NEW reg, NEW st, NEW ex, NEW ct, t.tree \in ex,
           PinOK(t, ct)
    PROVE  HandlerFresh(t, reg, st, ex, ct)
<1>1. t.locked = {} BY DEF RecOK, Leasing, Coordinating
<1>2. EpochOK(t, reg) /\ OldOK(t, reg, st) BY <1>1 DEF EpochOK, OldOK, Changing, ReposOf
<1> QED BY <1>2, LeaseFresh

\* Who has the gate of a repository to itself is alone with it.
LEMMA Sole ==
    ASSUME Core, NEW h \in Handlers, NEW r \in Repos, RepoMode(handlers[h], r) = "write",
           h \notin Waiters(registry.coords[r].gate),
           NEW i \in Handlers \ {h}, handlers[i].pc # "gate"
    PROVE  RepoMode(handlers[i], r) = "out"
<1> DEFINE g == registry.coords[r].gate
           e == RepoModes(handlers, r)
<1>1. GateOK(g, e) /\ \A c \in Waiters(g) : handlers[c].pc = "gate" BY DEF Core, GatesInv
<1>2. e[h] = "write" /\ e[i] = RepoMode(handlers[i], r) BY DEF RepoModes
<1>3. AloneOK(g, e) BY <1>1 DEF GateOK
<1> HIDE DEF g, e
<1>4. h \in Inside(g, e) BY <1>2 DEF Inside, g
<1>5. i \notin Waiters(g) BY <1>1
<1>6. i \notin Inside(g, e) BY <1>2, <1>3, <1>4 DEF AloneOK
<1> QED BY <1>2, <1>5, <1>6 DEF Inside

\* One handler moves and its coordinator advances.
LEMMA AdvanceMove ==
    ASSUME Core, FreshInv, Shrinks(store, store'), NEW r \in Repos,
           Advances(registry, registry', r), content' = content, exists' = exists, NEW h \in Handlers,
           \A i \in Handlers \ {h} : handlers[i].pc = "work" => RepoOf[handlers[i].tree] # r,
           Others(h, handlers, handlers'),
           HandlerFresh(handlers'[h], registry', store', exists', content')
    PROVE  FreshInv'
<1>1. /\ StoresFresh(registry', store', content')
      /\ \A i \in Handlers \ {h} :
            HandlerFresh(handlers[i], registry', store', exists', content')
  BY AdvanceStores
<1> QED BY <1>1 DEF FreshInv, Others

\* nobody else is at work in a repository that is leased to be changed
LEMMA SoleWorker ==
    ASSUME Core, NEW h \in Handlers, NEW r \in Repos, RepoMode(handlers[h], r) = "write",
           h \notin Waiters(registry.coords[r].gate)
    PROVE  \A i \in Handlers \ {h} : handlers[i].pc = "work" => RepoOf[handlers[i].tree] # r
<1> SUFFICES ASSUME NEW i \in Handlers \ {h}, handlers[i].pc = "work", RepoOf[handlers[i].tree] = r
             PROVE  FALSE
  OBVIOUS
<1>1. RepoMode(handlers[i], r) = "out" BY Sole
<1>2. RepoMode(handlers[i], r) # "out" BY DEF RepoMode, Leasing
<1> QED BY <1>1, <1>2

\* EnterRepository keeps FreshInv.
LEMMA EnterRepositoryFresh ==
    ASSUME Core, Core', FreshInv, NEW h \in Handlers, EnterRepository(h)
    PROVE  FreshInv'
<1>1. content' = content /\ exists' = exists /\ store' = store
  BY DEF EnterRepository, filesystem
<1>2. RecOK(handlers'[h]) BY DEF Core, HandlersOK
<1>3. ASSUME NEW g \in retainIdentity(registry, Tree(h)), Tree(h) \in exists,
             registry' = AskRepo(g, h, Tree(h), Writes(h)),
             handlers' = [handlers EXCEPT ![h].pc = "gate",
                       ![h].queued = ~canAcquireImmediately(g.coords[RepoOf[Tree(h)]].gate,
                                                            Writes(h))]
      PROVE  FreshInv'
  <2>1. g \in Registries /\ Epochs(registry, g) BY TreeType, RetainEpochs
  <2>2. registry' = WithGate(g, RepoOf[Tree(h)], Ask(g.coords[RepoOf[Tree(h)]].gate, h, Writes(h)))
    BY <1>3 DEF AskRepo, WithGate
  <2>3. Epochs(registry, registry') BY <2>1, <2>2, TreeType, GateEpochs, SameAreEpochs
  <2>4. Others(h, handlers, handlers') /\ handlers'[h].pc = "gate"
        /\ handlers'[h].tree = Tree(h)
    <3>1. handlers \in [Handlers -> HandlerRecs] BY TreeType DEF HandlersOK
    <3> QED BY <1>3, <3>1 DEF Others, HandlerRecs, Tree
  <2>5. handlers'[h].pin = {} BY <1>2, <2>4 DEF RecOK
  <2>6. HandlerFresh(handlers'[h], registry', store', exists', content')
    <3>1. Leasing(handlers'[h]) /\ handlers'[h].pc # "work" BY <2>4 DEF Leasing
    <3>2. PinOK(handlers'[h], content') BY <2>5 DEF PinOK
    <3>3. handlers'[h].tree \in exists' BY <1>1, <1>3, <2>4
    <3> QED BY <1>2, <3>1, <3>2, <3>3, IdleLeaseFresh
  <2> QED BY <1>1, <2>3, <2>4, <2>6, CalmMove, Untouched
<1>4. CASE registry' \in retainFailures(registry, Tree(h)) /\ Done(h)
  <2>1. Epochs(registry, registry') BY <1>4, TreeType, RetainEpochs
  <2>2. Others(h, handlers, handlers') /\ handlers'[h].pc = "idle"
    BY <1>4, GotoOthers, IdleFacts, TreeType
  <2> QED BY <1>1, <2>1, <2>2, QuietMove DEF NoDelete
<1>5. CASE registry' = registry /\ Goto(h, "mark")
  <2>1. Epochs(registry, registry') BY <1>5, Untouched, SameAreEpochs
  <2>2. Others(h, handlers, handlers') /\ handlers'[h].pc = "mark" BY <1>5, MovedTo, TreeType
  <2> QED BY <1>1, <2>1, <2>2, QuietMove DEF NoDelete
<1> QED BY <1>3, <1>4, <1>5 DEF EnterRepository

\* Leased keeps FreshInv.
LEMMA LeasedFresh ==
    ASSUME Core, Core', FreshInv, NEW h \in Handlers, Leased(h)
    PROVE  FreshInv'
<1> DEFINE t == handlers[h]
           u == handlers'[h]
           r == RepoOf[Tree(h)]
           gone == IF Writes(h) THEN Stale(InSession(h), Tree(h)) ELSE {}
           g == IF Writes(h) THEN Bump(registry, Tree(h)) ELSE registry
<1>1. /\ content' = content /\ exists' = exists
      /\ t.pc = "gate" /\ h \notin Waiters(registry.coords[r].gate)
      /\ registry' = Without(g, InSession(h), gone)
      /\ store' = [store EXCEPT ![InSession(h)] = @ \ gone]
      /\ handlers' = [handlers EXCEPT ![h].pc = "work", ![h].queued = FALSE,
                                      ![h].epoch = g.coords[r].epoch]
  BY DEF Leased, filesystem, LetIn, RepoGate, At
<1>2. /\ t \in HandlerRecs /\ RecOK(t) /\ HandlersOK(handlers) /\ registry \in Registries
      /\ Tree(h) \in Worktrees /\ r \in Repos /\ store \in [Sessions -> SUBSET Snapshots]
  BY TreeType
<1>3. Shrinks(store, store') BY <1>1, <1>2, Untouched
<1>4. /\ Others(h, handlers, handlers') /\ u.pc = "work" /\ u.epoch = g.coords[r].epoch
      /\ u.tree = t.tree /\ u.kind = t.kind /\ u.pin = t.pin
  <2>1. handlers \in [Handlers -> HandlerRecs] BY <1>2 DEF HandlersOK
  <2> HIDE DEF g, r
  <2> QED BY <1>1, <2>1 DEF Others, HandlerRecs
<1>5. g \in Registries BY <1>2, BumpFacts
<1> HIDE DEF gone
<1>6. SameEpochs(g, registry') BY <1>1, <1>5, ReleasedEpochs DEF Without
<1> HIDE DEF u
<1>7. RecOK(u) BY DEF Core, HandlersOK, u
<1>8. Leasing(u) /\ Leasing(t) /\ t.pin = {} BY <1>1, <1>2, <1>4 DEF Leasing, RecOK
<1>9. u.tree \in exists'
  <2>1. StandOK(t, exists) BY DEF FreshInv, HandlerFresh
  <2> QED BY <1>1, <1>4, <1>8, <2>1 DEF StandOK
<1>10. PinOK(u, content') BY <1>4, <1>8 DEF PinOK
<1>11. EpochOK(u, registry') BY <1>2, <1>4, <1>6 DEF EpochOK, SameEpochs, Tree
<1>12. Changing(u) = IF t.kind = "mutation" THEN {r} ELSE {}
  <2>1. u.locked = {} BY <1>7, <1>8 DEF RecOK, Coordinating, Leasing
  <2> QED BY <1>4, <2>1 DEF Changing, ReposOf, Tree
<1>13. CASE Writes(h)
  <2>1. Advances(registry, registry', r)
    <3>1. Advances(registry, g, r) BY <1>2, <1>13, BumpAdvances
    <3> HIDE DEF g
    <3> QED BY <1>2, <1>6, <3>1, SameAreEpochs
  <2>2. RepoMode(t, r) = "write" BY <1>2, <1>8, <1>13 DEF RepoMode, Writes, Tree
  <2>3. \A i \in Handlers \ {h} : handlers[i].pc = "work" => RepoOf[handlers[i].tree] # r
    BY <1>1, <1>2, <2>2, SoleWorker
  <2> HIDE DEF r
  <2>4. \A s \in Sessions : \A x \in store'[s] :
                 RepoOf[x.tree] = r => x.epoch < registry'.coords[r].epoch
    BY <1>1, <1>2, <1>3, <2>1, <2>3, AdvanceStores
  <2>5. OldOK(u, registry', store') BY <1>12, <2>4 DEF OldOK
  <2>6. HandlerFresh(u, registry', store', exists', content')
    BY <1>7, <1>8, <1>9, <1>10, <1>11, <2>5, LeaseFresh
  <2> QED BY <1>1, <1>2, <1>3, <1>4, <2>1, <2>3, <2>6, AdvanceMove DEF u
<1>14. CASE ~Writes(h)
  <2>1. Epochs(registry, registry') BY <1>6, <1>14, SameAreEpochs
  <2>2. OldOK(u, registry', store') BY <1>12, <1>14 DEF OldOK, Writes
  <2>3. HandlerFresh(u, registry', store', exists', content')
    BY <1>7, <1>8, <1>9, <1>10, <1>11, <2>2, LeaseFresh
  <2> QED BY <1>1, <1>3, <1>4, <2>1, <2>3, CalmMove DEF u
<1> QED BY <1>13, <1>14

\* ReadOnly keeps FreshInv.
LEMMA ReadOnlyFresh ==
    ASSUME Core, Core', FreshInv, NEW h \in Handlers, ReadOnly(h)
    PROVE  FreshInv'
<1> DEFINE t == handlers[h]
           u == handlers'[h]
<1>1. /\ content' = content /\ exists' = exists /\ store' = store /\ registry' = registry
      /\ t.pc = "work" /\ Goto(h, "release")
  BY DEF ReadOnly, filesystem, At
<1>2. Epochs(registry, registry') BY <1>1, Untouched, SameAreEpochs
<1>3. Others(h, handlers, handlers') /\ u.pc = "release" /\ u.tree = t.tree /\ u.pin = t.pin
  BY <1>1, MovedTo, TreeType
<1>4. RecOK(u) /\ RecOK(t) BY TreeType DEF Core, HandlersOK
<1>5. HandlerFresh(t, registry, store, exists, content) BY DEF FreshInv
<1>6. Leasing(u) /\ Leasing(t) BY <1>1, <1>3 DEF Leasing
<1>7. u.tree \in exists' /\ PinOK(u, content')
  BY <1>1, <1>3, <1>5, <1>6 DEF HandlerFresh, StandOK, PinOK
<1>8. HandlerFresh(u, registry', store', exists', content')
  <2> HIDE DEF u
  <2> QED BY <1>3, <1>4, <1>6, <1>7, IdleLeaseFresh
<1> QED BY <1>1, <1>2, <1>3, <1>8, CalmMove, Untouched

\* Capture keeps FreshInv.
LEMMA CaptureFresh ==
    ASSUME Core, Core', FreshInv, NEW h \in Handlers, Capture(h)
    PROVE  FreshInv'
<1> DEFINE t == handlers[h]
           u == handlers'[h]
           r == RepoOf[Tree(h)]
           s == InSession(h)
           x == [tree |-> Tree(h), content |-> content[Tree(h)], epoch |-> handlers[h].epoch]
           same == {y \in store[s] : Key(y) = Key(x)}
<1>1. /\ content' = content /\ exists' = exists
      /\ t.pc = "work" /\ t.kind = "read"
      /\ registry' \in retainIdentity(registry, Tree(h)) \cup admitIdentity(registry, Tree(h))
      /\ store' = [store EXCEPT ![s] = (@ \ same) \cup {x}]
      /\ handlers' = [handlers EXCEPT ![h].pc = "release", ![h].pin = {Key(x)}]
  BY DEF Capture, filesystem, At
<1>2. /\ t \in HandlerRecs /\ RecOK(t) /\ HandlersOK(handlers) /\ registry \in Registries
      /\ Tree(h) \in Worktrees /\ r \in Repos /\ store \in [Sessions -> SUBSET Snapshots]
  BY TreeType
<1>3. Epochs(registry, registry') BY <1>1, <1>2, RetainEpochs
<1>4. /\ x.tree = Tree(h) /\ x.content = content[Tree(h)] /\ x.epoch = t.epoch
      /\ Key(x).tree = Tree(h) /\ Key(x).content = content[Tree(h)]
  BY DEF Key
<1> HIDE DEF x
<1>5. \A v \in Sessions : \A y \in store'[v] : y \in store[v] \/ y = x BY <1>1, <1>2
<1>6. /\ StoresFresh(registry', store, content)
      /\ \A i \in Handlers : HandlerFresh(handlers[i], registry', store, exists, content)
  <2>1. Shrinks(store, store) BY DEF Shrinks
  <2> QED BY <1>3, <2>1, CalmStores
<1>7. /\ Others(h, handlers, handlers') /\ u.pc = "release" /\ u.pin = {Key(x)} /\ u.tree = t.tree
      /\ u.kind = t.kind
  <2>1. handlers \in [Handlers -> HandlerRecs] BY <1>2 DEF HandlersOK
  <2> QED BY <1>1, <2>1 DEF Others, HandlerRecs
<1> HIDE DEF u, same
<1>8. x.epoch = registry'.coords[RepoOf[x.tree]].epoch
  <2>1. EpochOK(t, registry') BY <1>6 DEF HandlerFresh
  <2> QED BY <1>1, <1>4, <2>1 DEF EpochOK, Tree
<1>9. registry'.coords[r].epoch \in Nat BY <1>2 DEF Core, Registries, Coordinators
<1>10. StoresFresh(registry', store', content')
  <2> SUFFICES ASSUME NEW v \in Sessions, NEW y \in store'[v]
               PROVE  /\ y.epoch <= registry'.coords[RepoOf[y.tree]].epoch
                      /\ y.epoch = registry'.coords[RepoOf[y.tree]].epoch
                            => y.content = content'[y.tree]
    BY DEF StoresFresh
  <2>1. CASE y \in store[v] BY <1>1, <1>6, <2>1 DEF StoresFresh
  <2>2. CASE y = x BY <1>1, <1>4, <1>8, <1>9, <2>2
  <2> QED BY <1>5, <2>1, <2>2
<1>11. RepoMode(t, r) = "read" /\ h \notin Waiters(registry.coords[r].gate) /\ Leasing(t)
  <2>1. Leasing(t) /\ t.tree = Tree(h) BY <1>1 DEF Leasing, Tree
  <2>2. RepoMode(t, r) = Mode(FALSE) BY <1>1, <1>2, <2>1, LeaseFacts
  <2>3. h \notin Waiters(registry.coords[r].gate) BY <1>1, <1>2 DEF Core, GatesInv
  <2> QED BY <2>1, <2>2, <2>3 DEF Mode
<1>12. ASSUME NEW i \in Handlers \ {h}
       PROVE  HandlerFresh(handlers[i], registry', store', exists', content')
  <2> DEFINE d == handlers[i]
  <2>0. d \in HandlerRecs /\ RecOK(d) BY DEF Core, HandlersOK
  <2>1. HandlerFresh(d, registry', store, exists, content) BY <1>6
  <2>2. r \notin Changing(d)
    <3> SUFFICES ASSUME r \in Changing(d) PROVE FALSE
      OBVIOUS
    <3>1. RepoMode(d, r) = "write" /\ d.pc # "gate"
      <4>1. CASE r \in ReposOf(d.locked)
        <5>1. r \in ReposOf(Taken(d)) BY <4>1 DEF ReposOf, Taken
        <5>2. d.pc # "gate" BY <2>0, <4>1 DEF RecOK, ReposOf, Coordinating
        <5> QED BY <5>1, <5>2 DEF RepoMode
      <4>2. CASE d.pc = "work" /\ d.kind = "mutation" /\ RepoOf[d.tree] = r
        BY <4>2 DEF RepoMode, Leasing
      <4> QED BY <4>1, <4>2 DEF Changing
    <3>2. i \notin Waiters(registry.coords[r].gate) BY <1>2, <3>1 DEF Core, GatesInv
    <3>3. RepoMode(t, r) = "out" BY <1>1, <1>2, <3>1, <3>2, Sole
    <3> QED BY <1>11, <3>3
  <2>3. OldOK(d, registry', store')
    <3> SUFFICES ASSUME NEW v \in Sessions, NEW y \in store'[v], RepoOf[y.tree] \in Changing(d)
                 PROVE  y.epoch < registry'.coords[RepoOf[y.tree]].epoch
      BY DEF OldOK
    <3>1. y # x BY <1>4, <2>2
    <3> QED BY <1>5, <2>1, <3>1 DEF HandlerFresh, OldOK
  <2>4. ~Scanned(d)
    <3> SUFFICES ASSUME Scanned(d) PROVE FALSE
      OBVIOUS
    <3>1. Coordinating(d) /\ d.pc \notin Asking BY DEF Scanned, Coordinating, Asking
    <3>2. i \notin Waiters(topology) BY <3>1 DEF Core, TopInv
    <3>3. ~Leasing(t) BY <3>1, <3>2, LoneWriter DEF Core
    <3> QED BY <1>11, <3>3
  <2> QED BY <1>1, <2>1, <2>3, <2>4 DEF HandlerFresh, ScopeOK
<1>13. HandlerFresh(u, registry', store', exists', content')
  <2>1. RecOK(u) BY DEF Core, HandlersOK, u
  <2>2. Leasing(u) /\ u.pc # "work" BY <1>7 DEF Leasing
  <2>3. u.tree \in exists' BY <1>1, <1>6, <1>7, <1>11 DEF HandlerFresh, StandOK
  <2>4. PinOK(u, content') BY <1>1, <1>4, <1>7 DEF PinOK
  <2> QED BY <2>1, <2>2, <2>3, <2>4, IdleLeaseFresh
<1> QED BY <1>7, <1>10, <1>12, <1>13 DEF FreshInv, Others, u

\* Page keeps FreshInv.
LEMMA PageFresh ==
    ASSUME Core, Core', FreshInv, NEW h \in Handlers, NEW x \in store[InSession(h)], Page(h, x)
    PROVE  FreshInv'
<1> DEFINE t == handlers[h]
           u == handlers'[h]
           s == InSession(h)
<1>1. content' = content /\ exists' = exists /\ t.pc = "work" /\ x.tree = Tree(h)
  BY DEF Page, filesystem, At
<1>2. /\ t \in HandlerRecs /\ RecOK(t) /\ HandlersOK(handlers) /\ registry \in Registries
      /\ Tree(h) \in Worktrees /\ store \in [Sessions -> SUBSET Snapshots] /\ s \in Sessions
  BY TreeType, SessionType
<1>3. HandlerFresh(t, registry, store, exists, content) BY DEF FreshInv
<1>4. CASE x.epoch = t.epoch /\ handlers' = [handlers EXCEPT ![h].pc = "release", ![h].pin = {Key(x)}]
           /\ registry' = registry /\ store' = store
  <2>1. Others(h, handlers, handlers') /\ u.pc = "release" /\ u.pin = {Key(x)} /\ u.tree = t.tree
    <3>1. handlers \in [Handlers -> HandlerRecs] BY <1>2 DEF HandlersOK
    <3> QED BY <1>4, <3>1 DEF Others, HandlerRecs
  <2>2. x.content = content[x.tree]
    <3>1. x.epoch = registry.coords[RepoOf[x.tree]].epoch
      BY <1>1, <1>3, <1>4 DEF HandlerFresh, EpochOK, Tree
    <3> QED BY <1>2, <3>1 DEF FreshInv, StoresFresh
  <2>3. PinOK(u, content') BY <1>1, <2>1, <2>2 DEF PinOK, Key
  <2>4. HandlerFresh(u, registry', store', exists', content')
    <3>1. RecOK(u) BY DEF Core, HandlersOK
    <3>2. u.tree \in exists' BY <1>1, <1>3, <2>1 DEF HandlerFresh, StandOK, Leasing
    <3>3. Leasing(u) /\ u.pc # "work" BY <2>1 DEF Leasing
    <3> HIDE DEF u
    <3> QED BY <2>3, <3>1, <3>2, <3>3, IdleLeaseFresh
  <2> QED BY <1>1, <1>4, <2>1, <2>4, CalmMove, Untouched, SameAreEpochs
<1>5. CASE /\ Goto(h, "release") /\ registry' = Without(registry, s, Stale(s, x.tree))
           /\ store' = [store EXCEPT ![s] = @ \ Stale(s, x.tree)]
  <2>1. Others(h, handlers, handlers') /\ u.pc = "release" /\ u.pin = t.pin /\ u.tree = t.tree
    BY <1>2, <1>5, MovedTo
  <2>2. Shrinks(store, store') BY <1>2, <1>5, Untouched
  <2>3. Epochs(registry, registry') BY <1>2, <1>5, ReleasedEpochs, SameAreEpochs DEF Without
  <2>4. HandlerFresh(u, registry', store', exists', content')
    <3>1. RecOK(u) BY DEF Core, HandlersOK
    <3>2. u.tree \in exists' BY <1>1, <1>3, <2>1 DEF HandlerFresh, StandOK, Leasing
    <3>3. Leasing(u) /\ u.pc # "work" BY <2>1 DEF Leasing
    <3>4. PinOK(u, content') BY <1>1, <1>3, <2>1 DEF HandlerFresh, PinOK
    <3> HIDE DEF u
    <3> QED BY <3>1, <3>2, <3>3, <3>4, IdleLeaseFresh
  <2> QED BY <1>1, <2>1, <2>2, <2>3, <2>4, CalmMove
<1> QED BY <1>4, <1>5 DEF Page

\* Mutate keeps FreshInv.
LEMMA MutateFresh ==
    ASSUME Core, Core', World, FreshInv, NEW h \in Handlers, Mutate(h)
    PROVE  FreshInv'
<1> DEFINE t == handlers[h]
           u == handlers'[h]
           r == RepoOf[Tree(h)]
<1>1. /\ exists' = exists /\ registry' = registry /\ store' = store
      /\ t.pc = "work" /\ t.kind = "mutation" /\ \E pc \in {"reload", "release"} : Goto(h, pc)
  BY DEF Mutate, At, Writes
<1>2. /\ t \in HandlerRecs /\ RecOK(t) /\ HandlersOK(handlers) /\ registry \in Registries
      /\ Tree(h) \in Worktrees /\ r \in Repos /\ store \in [Sessions -> SUBSET Snapshots]
  BY TreeType
<1>3. \A w \in Worktrees : RepoOf[w] # r => content'[w] = content[w]
  <2>1. PICK c \in [TreesOf(RepoOf[Tree(h)]) -> Contents] :
           content' = [w \in Worktrees |-> IF w \in DOMAIN c THEN c[w] ELSE content[w]]
    BY DEF Mutate
  <2>2. DOMAIN c = TreesOf(r) BY <2>1
  <2>3. \A w \in Worktrees : w \in TreesOf(r) => RepoOf[w] = r BY DEF TreesOf
  <2> QED BY <2>1, <2>2, <2>3
<1>4. HandlerFresh(t, registry, store, exists, content) BY DEF FreshInv
<1>5. StoresFresh(registry', store', content')
  <2> SUFFICES ASSUME NEW v \in Sessions, NEW y \in store[v]
               PROVE  /\ y.epoch <= registry.coords[RepoOf[y.tree]].epoch
                      /\ y.epoch = registry.coords[RepoOf[y.tree]].epoch
                            => y.content = content'[y.tree]
    BY <1>1 DEF StoresFresh
  <2>1. /\ y.tree \in Worktrees /\ y.epoch \in Nat /\ registry.coords[RepoOf[y.tree]].epoch \in Nat
    BY Referenced
  <2>2. /\ y.epoch <= registry.coords[RepoOf[y.tree]].epoch
        /\ y.epoch = registry.coords[RepoOf[y.tree]].epoch => y.content = content[y.tree]
    BY DEF FreshInv, StoresFresh
  <2>3. CASE RepoOf[y.tree] = r
    <3>1. RepoOf[y.tree] \in Changing(t) BY <1>1, <2>3 DEF Changing, Tree
    <3>2. y.epoch < registry.coords[RepoOf[y.tree]].epoch BY <1>4, <3>1 DEF HandlerFresh, OldOK
    <3> QED BY <2>1, <2>2, <3>2
  <2>4. CASE RepoOf[y.tree] # r BY <1>3, <2>1, <2>2, <2>4
  <2> QED BY <2>3, <2>4
<1>6. RepoMode(t, r) = "write" /\ h \notin Waiters(registry.coords[r].gate)
  <2>1. RepoMode(t, r) = "write" BY <1>1 DEF RepoMode, Leasing, Tree
  <2>2. h \notin Waiters(registry.coords[r].gate) BY <1>1, <1>2 DEF Core, GatesInv
  <2> QED BY <2>1, <2>2
<1>7. ASSUME NEW i \in Handlers \ {h}
      PROVE  HandlerFresh(handlers[i], registry', store', exists', content')
  <2> DEFINE d == handlers[i]
  <2>1. HandlerFresh(d, registry, store, exists, content) /\ d \in HandlerRecs /\ RecOK(d)
    BY DEF FreshInv, Core, HandlersOK
  <2>2. PinOK(d, content')
    <3> SUFFICES ASSUME NEW k \in d.pin PROVE k.content = content'[k.tree]
      BY DEF PinOK
    <3>1. d.pc = "release" /\ k.tree = d.tree /\ d.tree \in Worktrees
      BY <2>1 DEF RecOK, HandlerRecs
    <3>2. RepoOf[d.tree] # r
      <4> SUFFICES ASSUME RepoOf[d.tree] = r PROVE FALSE
        OBVIOUS
      <4>1. RepoMode(d, r) # "out" BY <3>1 DEF RepoMode, Leasing
      <4>2. d.pc # "gate" BY <3>1
      <4>3. RepoMode(d, r) = "out" BY <1>2, <1>6, <4>2, Sole
      <4> QED BY <4>1, <4>3
    <3> QED BY <1>3, <2>1, <3>1, <3>2 DEF HandlerFresh, PinOK
  <2> QED BY <1>1, <2>1, <2>2 DEF HandlerFresh
<1>8. /\ Others(h, handlers, handlers') /\ u.pc \in {"reload", "release"} /\ u.kind = "mutation"
      /\ u.tree = t.tree /\ u.pin = {}
  <2>1. t.pin = {} BY <1>1, <1>2 DEF RecOK
  <2> QED BY <1>1, <1>2, <2>1, MovedTo
<1>9. HandlerFresh(u, registry', store', exists', content')
  <2>1. RecOK(u) BY DEF Core, HandlersOK
  <2>2. Leasing(u) /\ u.pc # "work" BY <1>8 DEF Leasing
  <2>3. u.tree \in exists' BY <1>1, <1>4, <1>8 DEF HandlerFresh, StandOK, Leasing
  <2>4. PinOK(u, content') BY <1>8 DEF PinOK
  <2> HIDE DEF u
  <2> QED BY <2>1, <2>2, <2>3, <2>4, IdleLeaseFresh
<1> QED BY <1>5, <1>7, <1>8, <1>9 DEF FreshInv, Others

\* What a handler that changes the topology must know.
LEMMA CoordFresh ==
    ASSUME NEW t, RecOK(t), Coordinating(t), NEW reg, NEW st, NEW ex, NEW ct,
           OldOK(t, reg, st), ScopeOK(t, st), DeleteOK(t, ex)
    PROVE  HandlerFresh(t, reg, st, ex, ct)
<1>1. t.pc # "work" /\ t.pc # "release" /\ ~Leasing(t) BY DEF Coordinating, Leasing
<1>2. t.pin = {} BY <1>1 DEF RecOK
<1> QED BY <1>1, <1>2 DEF HandlerFresh, EpochOK, PinOK, StandOK

\* h goes from one coordinating phase to another with the same locks
LEMMA CoordMove ==
    ASSUME Core, Core', FreshInv, NEW h \in Handlers, Others(h, handlers, handlers'),
           Coordinating(handlers[h]), Coordinating(handlers'[h]),
           handlers'[h].locked \subseteq handlers[h].locked,
           Shrinks(store, store'), Epochs(registry, registry'), content' = content, exists' = exists,
           ScopeOK(handlers'[h], store'), DeleteOK(handlers'[h], exists)
    PROVE  FreshInv'
<1> DEFINE t == handlers[h]
           u == handlers'[h]
<1>1. OldOK(t, registry', store') BY CalmStores DEF HandlerFresh
<1>2. Changing(t) = ReposOf(t.locked) /\ Changing(u) = ReposOf(u.locked)
  BY DEF Changing, Coordinating
<1>3. Changing(u) \subseteq Changing(t) BY <1>2 DEF ReposOf
<1>4. OldOK(u, registry', store') BY <1>1, <1>3 DEF OldOK
<1>5. RecOK(u) BY DEF Core, HandlersOK
<1>6. HandlerFresh(u, registry', store', exists', content')
  <2> HIDE DEF u
  <2> QED BY <1>4, <1>5, CoordFresh DEF u
<1> QED BY <1>6, CalmMove

\* Reload keeps FreshInv.
LEMMA ReloadFresh ==
    ASSUME Core, Core', FreshInv, NEW h \in Handlers, Reload(h)
    PROVE  FreshInv'
<1> DEFINE t == handlers[h]
           u == handlers'[h]
<1>1. content' = content /\ exists' = exists /\ store' = store /\ t.pc = "reload"
  BY DEF Reload, filesystem, At
<1>2. /\ t \in HandlerRecs /\ RecOK(t) /\ HandlersOK(handlers) /\ registry \in Registries
      /\ Tree(h) \in Worktrees
  BY TreeType
<1>3. Epochs(registry, registry')
  <2>1. CASE KeepReference(h, registry) BY <2>1, KeepReferenceEpochs
  <2>2. CASE registry' \in retainFailures(registry, Tree(h)) BY <1>2, <2>2, RetainEpochs
  <2>3. CASE registry' \in admitIdentity(registry, Tree(h)) BY <1>2, <2>3, RetainEpochs
  <2>4. CASE registry' = registry BY <2>4, Untouched, SameAreEpochs
  <2> QED BY <2>1, <2>2, <2>3, <2>4 DEF Reload
<1>4. \/ Goto(h, AfterReload(h)) /\ Tree(h) \in exists
      \/ Goto(h, AfterFailedReload(h))
  BY DEF Reload
<1>5. HandlerFresh(t, registry, store, exists, content) BY DEF FreshInv
<1>6. Shrinks(store, store') BY <1>1, Untouched
<1>7. CASE t.kind = "mutation"
  <2>1. Goto(h, "release") BY <1>4, <1>7 DEF AfterReload, AfterFailedReload, Writes
  <2>2. Others(h, handlers, handlers') /\ u.pc = "release" /\ u.pin = t.pin /\ u.tree = t.tree
    BY <1>2, <2>1, MovedTo
  <2>3. Leasing(u) /\ Leasing(t) /\ u.pc # "work" BY <1>1, <1>7, <2>2 DEF Leasing
  <2>4. u.tree \in exists' /\ PinOK(u, content')
    BY <1>1, <1>5, <2>2, <2>3 DEF HandlerFresh, StandOK, PinOK
  <2>5. RecOK(u) BY DEF Core, HandlersOK
  <2>6. HandlerFresh(u, registry', store', exists', content')
    <3> HIDE DEF u
    <3> QED BY <2>3, <2>4, <2>5, IdleLeaseFresh
  <2> QED BY <1>1, <1>3, <1>6, <2>2, <2>6, CalmMove
<1>8. CASE t.kind # "mutation"
  <2>1. \/ Goto(h, "effect") /\ Tree(h) \in exists
        \/ Goto(h, "unlock")
    BY <1>4, <1>8 DEF AfterReload, AfterFailedReload, Writes
  <2>2. /\ Others(h, handlers, handlers') /\ u.kind = t.kind /\ u.tree = t.tree /\ u.over = t.over
        /\ u.todo = t.todo /\ u.ids = t.ids /\ u.locked = t.locked
        /\ \/ u.pc = "effect" /\ t.tree \in exists
           \/ u.pc = "unlock"
    BY <1>2, <2>1, MovedTo DEF Tree
  <2>3. Coordinating(t) /\ Coordinating(u) /\ Scanned(t)
    BY <1>1, <1>8, <2>2 DEF Coordinating, Scanned
  <2>4. ScopeOK(u, store') BY <1>1, <1>5, <2>2, <2>3 DEF HandlerFresh, ScopeOK
  <2>5. DeleteOK(u, exists) BY <1>1, <1>5, <2>2 DEF HandlerFresh, DeleteOK
  <2>6. u.locked \subseteq t.locked BY <2>2
  <2> QED BY <1>1, <1>3, <1>6, <2>2, <2>3, <2>4, <2>5, <2>6, CoordMove
<1> QED BY <1>7, <1>8

\* A lease that is over claims nothing.
LEMMA UnretainFresh ==
    ASSUME NEW t, RecOK(t), t.pc = "unretain", NEW reg, NEW st, NEW ex, NEW ct
    PROVE  HandlerFresh(t, reg, st, ex, ct)
<1>1. t.pin = {} /\ t.locked = {} /\ ~Leasing(t) /\ ~Scanned(t)
  BY DEF RecOK, Coordinating, Leasing, Scanned
<1>2. Changing(t) = {} BY <1>1 DEF Changing, ReposOf
<1> QED BY <1>1, <1>2
  DEF HandlerFresh, EpochOK, OldOK, PinOK, ScopeOK, StandOK, DeleteOK

\* Snapshots go and a gate is released: the epochs stay.
LEMMA FreeEpochs ==
    ASSUME Core, NEW g \in Registries, \A R : Exact(registry, R) => Exact(g, R),
           NEW s \in Sessions, NEW gone \in SUBSET store[s], NEW w \in Worktrees, NEW write
    PROVE  SameEpochs(g, FreeRepo(Without(g, s, gone), w, write))
<1> DEFINE q == Without(g, s, gone)
           n == release(q.coords[RepoOf[w]].gate, write)
<1>1. q \in Registries BY DropFacts
<1>2. SameEpochs(g, q) BY ReleasedEpochs DEF Without
<1>3. FreeRepo(q, w, write) = WithGate(q, RepoOf[w], n) BY DEF FreeRepo, WithGate
<1>4. RepoOf[w] \in Repos BY GitConstants
<1> HIDE DEF q, n
<1>5. SameEpochs(q, WithGate(q, RepoOf[w], n)) BY <1>1, <1>4, GateEpochs
<1> QED BY <1>2, <1>3, <1>5 DEF SameEpochs, q

\* ReleaseLease keeps FreshInv.
LEMMA ReleaseLeaseFresh ==
    ASSUME Core, Core', FreshInv, NEW h \in Handlers, ReleaseLease(h)
    PROVE  FreshInv'
<1> DEFINE t == handlers[h]
           u == handlers'[h]
           s == InSession(h)
           r == RepoOf[Tree(h)]
           others == UNION {handlers[i].pin : i \in {i \in Handlers \ {h} : SessionOf[i] = s}}
           unpinned == IF status[s] = "open" THEN {}
                       ELSE {x \in store[s] : Key(x) \in handlers[h].pin \ others}
           gone == unpinned \cup (IF Writes(h) THEN Stale(s, Tree(h)) ELSE {})
           g == IF Writes(h) THEN Bump(registry, Tree(h)) ELSE registry
<1>1. /\ content' = content /\ exists' = exists /\ t.pc = "release"
      /\ registry' = FreeRepo(Without(g, s, gone), Tree(h), Writes(h))
      /\ store' = [store EXCEPT ![s] = @ \ gone]
      /\ handlers' = [handlers EXCEPT ![h].pc = "unretain", ![h].pin = {}]
  BY DEF ReleaseLease, filesystem, At
<1>2. /\ t \in HandlerRecs /\ RecOK(t) /\ HandlersOK(handlers) /\ registry \in Registries
      /\ Tree(h) \in Worktrees /\ r \in Repos /\ store \in [Sessions -> SUBSET Snapshots]
      /\ s \in Sessions
  BY TreeType, SessionType
<1>3. gone \in SUBSET store[s] BY DEF Stale
<1> HIDE DEF gone
<1>4. Shrinks(store, store') BY <1>1, <1>2, Untouched
<1>5. g \in Registries /\ \A R : Exact(registry, R) => Exact(g, R) BY <1>2, BumpFacts
<1>6. SameEpochs(g, registry')
  <2> HIDE DEF g, s
  <2>1. SameEpochs(g, FreeRepo(Without(g, s, gone), Tree(h), Writes(h)))
    BY ONLY Core, <1>2, <1>3, <1>5, FreeEpochs
  <2> QED BY <1>1, <2>1
<1>7. Others(h, handlers, handlers') /\ u.pc = "unretain"
  <2>1. handlers \in [Handlers -> HandlerRecs] BY <1>2 DEF HandlersOK
  <2> QED BY <1>1, <2>1 DEF Others, HandlerRecs
<1>8. HandlerFresh(u, registry', store', exists', content')
  <2>1. RecOK(u) BY DEF Core, HandlersOK
  <2> HIDE DEF u
  <2> QED BY <1>7, <2>1, UnretainFresh
<1>9. CASE Writes(h)
  <2>1. Advances(registry, registry', r)
    <3>1. Advances(registry, g, r) BY <1>2, <1>9, BumpAdvances
    <3> HIDE DEF g
    <3> QED BY <1>2, <1>6, <3>1, SameAreEpochs
  <2>2. RepoMode(t, r) = "write" BY <1>1, <1>9 DEF RepoMode, Writes, Tree, Leasing
  <2>3. h \notin Waiters(registry.coords[r].gate) BY <1>1, <1>2 DEF Core, GatesInv
  <2>4. \A i \in Handlers \ {h} : handlers[i].pc = "work" => RepoOf[handlers[i].tree] # r
    BY <1>2, <2>2, <2>3, SoleWorker
  <2> HIDE DEF r
  <2> QED BY <1>1, <1>2, <1>4, <1>7, <1>8, <2>1, <2>4, AdvanceMove
<1>10. CASE ~Writes(h)
  <2>1. Epochs(registry, registry') BY <1>6, <1>10, SameAreEpochs
  <2> QED BY <1>1, <1>4, <1>7, <1>8, <2>1, CalmMove
<1> QED BY <1>9, <1>10

\* Unretain keeps FreshInv.
LEMMA UnretainStepFresh ==
    ASSUME Core, Core', FreshInv, NEW h \in Handlers, Unretain(h)
    PROVE  FreshInv'
<1> DEFINE g == ReleasedOne(registry, Tree(h))
           s == InSession(h)
           u == handlers'[h]
<1>1. content' = content /\ exists' = exists BY DEF Unretain, filesystem
<1>2. /\ handlers[h] \in HandlerRecs /\ HandlersOK(handlers) /\ registry \in Registries
      /\ Tree(h) \in Worktrees /\ store \in [Sessions -> SUBSET Snapshots]
  BY TreeType
<1>3. g \in Registries /\ SameCoords(registry, g) BY <1>2, ReleasedOneFacts
<1> HIDE DEF g
<1>4. CASE registry' = g /\ Done(h) /\ store' = store
  <2>1. Others(h, handlers, handlers') /\ u.pc = "idle" BY <1>2, <1>4, GotoOthers, IdleFacts
  <2>2. Epochs(registry, registry') BY <1>3, <1>4, SameAreEpochs
  <2> QED BY <1>1, <1>4, <2>1, <2>2, QuietMove DEF NoDelete
<1>5. ASSUME NEW linked \in TreesOf(RepoOf[Tree(h)]), NEW b,
             registry' = Without(g, s, Stale(s, Tree(h))),
             store' = [store EXCEPT ![s] = @ \ Stale(s, Tree(h))],
             handlers' = [handlers EXCEPT ![h].pc = "coordinate", ![h].queued = b,
                                    ![h].over = {Tree(h), linked}, ![h].todo = {Tree(h), linked}]
      PROVE  FreshInv'
  <2>1. Others(h, handlers, handlers') /\ u.pc = "coordinate" /\ u.todo = {Tree(h), linked}
        /\ u.tree = Tree(h)
    <3>1. handlers \in [Handlers -> HandlerRecs] BY <1>2 DEF HandlersOK
    <3> QED BY <1>5, <3>1 DEF Others, HandlerRecs, Tree
  <2>2. Shrinks(store, store') BY <1>2, <1>5, Untouched
  <2>3. SameEpochs(g, registry') BY <1>3, <1>5, ReleasedEpochs DEF Without
  <2>4. Epochs(registry, registry') BY <1>3, <2>3, SameAreEpochs
  <2>5. u.pc \in Light /\ DeleteOK(u, exists) BY <2>1 DEF Light, DeleteOK
  <2> QED BY <1>1, <2>1, <2>2, <2>4, <2>5, LightMove
<1> QED BY <1>4, <1>5 DEF Unretain, g

\* a handler that holds the topology gate to change it is alone
LEMMA AloneWorker ==
    ASSUME Core, NEW h \in Handlers, Coordinating(handlers[h]), handlers[h].pc \notin Asking
    PROVE  \A i \in Handlers \ {h} :
              /\ handlers[i].pc \in {"idle", "session", "lease", "mark"} \cup Asking
              /\ handlers[i].pc # "work"
<1>1. h \notin Waiters(topology) BY DEF Core, TopInv
<1>2. ASSUME NEW i \in Handlers \ {h}
      PROVE  handlers[i].pc \in {"idle", "session", "lease", "mark"} \cup Asking
  BY <1>1, LoneWriter DEF Core
<1> QED BY <1>2 DEF Asking

\* Scan keeps FreshInv.
LEMMA ScanFresh ==
    ASSUME Core, Core', FreshInv, NEW h \in Handlers, Scan(h)
    PROVE  FreshInv'
<1> DEFINE t == handlers[h]
           u == handlers'[h]
<1>1. content' = content /\ exists' = exists /\ store' = store /\ t.pc = "coordinate"
  BY DEF Scan, filesystem, At
<1>2. t \in HandlerRecs /\ RecOK(t) /\ HandlersOK(handlers) /\ registry \in Registries
  BY TreeType
<1>3. ASSUME NEW g \in rebuildRegistry(registry), NEW ids \in SUBSET t.over, registry' = g,
             handlers' = [handlers EXCEPT ![h].pc = "scan", ![h].queued = FALSE, ![h].ids = ids]
      PROVE  FreshInv'
  <2>1. Epochs(registry, registry') BY <1>2, <1>3, RebuildFacts, SameAreEpochs
  <2>2. /\ Others(h, handlers, handlers') /\ u.pc = "scan" /\ u.kind = t.kind /\ u.tree = t.tree
        /\ u.todo = t.todo
    <3>1. handlers \in [Handlers -> HandlerRecs] BY <1>2 DEF HandlersOK
    <3> QED BY <1>3, <3>1 DEF Others, HandlerRecs
  <2>3. HandlerFresh(t, registry, store, exists, content) BY DEF FreshInv
  <2>4. DeleteOK(u, exists) BY <1>1, <2>2, <2>3 DEF HandlerFresh, DeleteOK
  <2>5. u.pc \in Light BY <2>2 DEF Light
  <2> QED BY <1>1, <2>1, <2>2, <2>4, <2>5, LightMove, Untouched
<1>4. ASSUME NEW ws \in SUBSET (InactiveTrees(registry) \ exists),
             registry' = Evicted(registry, ws, {}), Done(h)
      PROVE  FreshInv'
  <2>1. ws \in SUBSET InactiveTrees(registry) OBVIOUS
  <2>2. Epochs(registry, registry') BY <1>2, <1>4, <2>1, EvictedFacts, SameAreEpochs
  <2>3. Others(h, handlers, handlers') /\ u.pc = "idle" BY <1>2, <1>4, GotoOthers, IdleFacts
  <2> QED BY <1>1, <2>2, <2>3, QuietMove DEF NoDelete
<1> QED BY <1>3, <1>4 DEF Scan

\* ResolvePath keeps FreshInv.
LEMMA ResolvePathFresh ==
    ASSUME Core, Core', FreshInv, NEW h \in Handlers, NEW w \in handlers[h].todo, ResolvePath(h, w)
    PROVE  FreshInv'
<1> DEFINE t == handlers[h]
           u == handlers'[h]
<1>1. content' = content /\ exists' = exists /\ store' = store /\ t.pc = "scan"
  BY DEF ResolvePath, filesystem, At
<1>2. t \in HandlerRecs /\ RecOK(t) /\ HandlersOK(handlers) /\ registry \in Registries
      /\ handlers \in [Handlers -> HandlerRecs]
  BY TreeType DEF HandlersOK
<1>3. w \in Worktrees BY <1>2 DEF HandlerRecs
<1>4. HandlerFresh(t, registry, store, exists, content) /\ DeleteOK(t, exists)
  BY DEF FreshInv, HandlerFresh
<1>5. Shrinks(store, store') /\ Coordinating(t) BY <1>1, Untouched DEF Coordinating
<1>6. CASE /\ w \in exists /\ registry' \in admitIdentity(registry, w)
           /\ handlers' = [handlers EXCEPT ![h].todo = @ \ {w},
                 ![h].ids = IF RepoOf[w] \in ReposOf(@) THEN @ ELSE @ \cup {w}]
  <2>1. Epochs(registry, registry') BY <1>2, <1>3, <1>6, RetainEpochs
  <2>2. /\ Others(h, handlers, handlers') /\ u.pc = "scan" /\ u.kind = t.kind /\ u.tree = t.tree
        /\ u.todo = t.todo \ {w} /\ u.ids = IF RepoOf[w] \in ReposOf(t.ids) THEN t.ids ELSE t.ids \cup {w}
    BY <1>1, <1>2, <1>6 DEF Others, HandlerRecs
  <2>3. ReposOf(t.ids) \subseteq ReposOf(u.ids) /\ RepoOf[w] \in ReposOf(u.ids)
    BY <2>2 DEF ReposOf
  <2>4. DeleteOK(u, exists) BY <1>1, <1>4, <2>2, <2>3 DEF DeleteOK
  <2>5. u.pc \in Light BY <2>2 DEF Light
  <2> QED BY <1>1, <1>5, <2>1, <2>2, <2>4, <2>5, LightMove
<1>7. CASE registry' \in retainFailures(registry, w) /\ Goto(h, "unlock")
  <2>1. Epochs(registry, registry') BY <1>2, <1>3, <1>7, RetainEpochs
  <2>2. Others(h, handlers, handlers') /\ u.pc = "unlock" /\ u.locked = t.locked
    BY <1>2, <1>7, MovedTo
  <2>3. Coordinating(u) /\ DeleteOK(u, exists) /\ ScopeOK(u, store') /\ u.locked \subseteq t.locked
    BY <2>2 DEF Coordinating, DeleteOK, ScopeOK, Scanned
  <2> QED BY <1>1, <1>5, <2>1, <2>2, <2>3, CoordMove
<1>8. CASE /\ w \notin exists /\ registry' = registry
           /\ handlers' = [handlers EXCEPT ![h].todo = @ \ {w}]
  <2>1. Epochs(registry, registry') BY <1>8, Untouched, SameAreEpochs
  <2>2. /\ Others(h, handlers, handlers') /\ u.pc = "scan" /\ u.kind = t.kind /\ u.tree = t.tree
        /\ u.todo = t.todo \ {w} /\ u.ids = t.ids
    BY <1>1, <1>2, <1>8 DEF Others, HandlerRecs
  <2>4. DeleteOK(u, exists) BY <1>1, <1>4, <1>8, <2>2 DEF DeleteOK
  <2>5. u.pc \in Light BY <2>2 DEF Light
  <2> QED BY <1>1, <1>5, <2>1, <2>2, <2>4, <2>5, LightMove
<1> QED BY <1>6, <1>7, <1>8 DEF ResolvePath

\* StartLocking keeps FreshInv.
LEMMA StartLockingFresh ==
    ASSUME Core, Core', FreshInv, NEW h \in Handlers, StartLocking(h)
    PROVE  FreshInv'
<1> DEFINE t == handlers[h]
           u == handlers'[h]
<1>1. /\ content' = content /\ exists' = exists /\ store' = store /\ registry' = registry
      /\ t.pc = "scan" /\ Goto(h, "lockNext")
  BY DEF StartLocking, filesystem, At
<1>2. HandlersOK(handlers) BY TreeType
<1>3. /\ Others(h, handlers, handlers') /\ u.pc = "lockNext" /\ u.kind = t.kind /\ u.tree = t.tree
      /\ u.todo = t.todo /\ u.ids = t.ids /\ u.locked = t.locked
  BY <1>1, <1>2, MovedTo
<1>4. DeleteOK(t, exists) BY DEF FreshInv, HandlerFresh
<1>5. Coordinating(t) /\ Coordinating(u) /\ ScopeOK(u, store') /\ u.locked \subseteq t.locked
  BY <1>1, <1>3 DEF Coordinating, ScopeOK, Scanned
<1>6. DeleteOK(u, exists) BY <1>1, <1>3, <1>4 DEF DeleteOK
<1> QED BY <1>1, <1>3, <1>5, <1>6, CoordMove, Untouched, SameAreEpochs

\* The next repository to lock is one.
LEMMA NextIdType ==
    ASSUME Core, NEW h \in Handlers, Unlocked(h) # {}
    PROVE  NextId(h) \in Worktrees /\ RepoOf[NextId(h)] \in Repos /\ NextId(h) \in handlers[h].ids
<1>1. handlers[h].ids \ handlers[h].locked \in SUBSET Worktrees BY TreeType DEF HandlerRecs
<1>2. NextId(h) = First(handlers[h].ids \ handlers[h].locked) /\ handlers[h].ids \ handlers[h].locked # {}
  BY DEF NextId, Unlocked
<1> QED BY <1>1, <1>2, FirstIn, GitConstants

\* LockNext keeps FreshInv.
LEMMA LockNextFresh ==
    ASSUME Core, Core', FreshInv, NEW h \in Handlers, LockNext(h)
    PROVE  FreshInv'
<1> DEFINE t == handlers[h]
           u == handlers'[h]
           w == NextId(h)
<1>1. /\ content' = content /\ exists' = exists /\ store' = store
      /\ t.pc = "lockNext" /\ Unlocked(h) # {}
  BY DEF LockNext, filesystem, At
<1>2. HandlersOK(handlers) /\ registry \in Registries /\ w \in Worktrees /\ RepoOf[w] \in Repos
  BY <1>1, TreeType, NextIdType
<1>3. DeleteOK(t, exists) BY DEF FreshInv, HandlerFresh
<1>4. ASSUME Epochs(registry, registry'), NEW pc \in {"lockWait", "unlock"}, Goto(h, pc)
      PROVE  FreshInv'
  <2>1. /\ Others(h, handlers, handlers') /\ u.pc = pc /\ u.kind = t.kind /\ u.tree = t.tree
        /\ u.todo = t.todo /\ u.ids = t.ids /\ u.locked = t.locked
    BY <1>2, <1>4, MovedTo
  <2>2. Coordinating(t) /\ Coordinating(u) /\ ScopeOK(u, store') /\ u.locked \subseteq t.locked
    BY <1>1, <1>4, <2>1 DEF Coordinating, ScopeOK, Scanned
  <2>3. DeleteOK(u, exists) BY <1>1, <1>3, <1>4, <2>1 DEF DeleteOK
  <2> QED BY <1>1, <1>4, <2>1, <2>2, <2>3, CoordMove, Untouched
<1>5. ASSUME NEW g \in retainIdentity(registry, w), registry' = AskRepo(g, h, w, TRUE)
      PROVE  Epochs(registry, registry')
  <2> HIDE DEF w
  <2>1. g \in Registries /\ Epochs(registry, g) BY <1>2, RetainEpochs
  <2>2. registry' = WithGate(g, RepoOf[w], Ask(g.coords[RepoOf[w]].gate, h, TRUE))
    BY <1>5 DEF AskRepo, WithGate
  <2> QED BY <1>2, <2>1, <2>2, GateEpochs, SameAreEpochs
<1>6. ASSUME registry' \in retainFailures(registry, w) PROVE Epochs(registry, registry')
  BY <1>2, <1>6, RetainEpochs
<1>7. \/ (\E g \in retainIdentity(registry, w) : registry' = AskRepo(g, h, w, TRUE))
         /\ Goto(h, "lockWait")
      \/ registry' \in retainFailures(registry, w) /\ Goto(h, "unlock")
  BY DEF LockNext
<1> HIDE DEF w
<1> QED BY <1>4, <1>5, <1>6, <1>7

\* Locked keeps FreshInv.
LEMMA LockedFresh ==
    ASSUME Core, Core', FreshInv, NEW h \in Handlers, Locked(h)
    PROVE  FreshInv'
<1> DEFINE t == handlers[h]
           u == handlers'[h]
           w == NextId(h)
           r == RepoOf[w]
<1>1. /\ content' = content /\ exists' = exists /\ store' = store /\ registry' = Bump(registry, w)
      /\ t.pc = "lockWait"
      /\ handlers' = [handlers EXCEPT ![h].pc = "lockNext", ![h].locked = @ \cup {w}]
  BY DEF Locked, filesystem, At
<1>2. /\ t \in HandlerRecs /\ RecOK(t) /\ handlers \in [Handlers -> HandlerRecs]
      /\ registry \in Registries
  BY TreeType DEF HandlersOK
<1>3. Unlocked(h) # {} BY <1>1, <1>2 DEF RecOK, Unlocked
<1>4. w \in Worktrees /\ r \in Repos BY <1>3, NextIdType
<1>5. /\ Others(h, handlers, handlers') /\ u.pc = "lockNext" /\ u.kind = t.kind /\ u.tree = t.tree
      /\ u.todo = t.todo /\ u.ids = t.ids /\ u.locked = t.locked \cup {w}
  <2> HIDE DEF w
  <2> QED BY <1>1, <1>2 DEF Others, HandlerRecs
<1>6. Advances(registry, registry', r) BY <1>1, <1>2, <1>4, BumpAdvances
<1> HIDE DEF w, r
<1>7. \A i \in Handlers \ {h} : handlers[i].pc = "work" => RepoOf[handlers[i].tree] # r
  <2>1. Coordinating(t) /\ t.pc \notin Asking BY <1>1 DEF Coordinating, Asking
  <2> QED BY <2>1, AloneWorker
<1>8. Shrinks(store, store') BY <1>1, Untouched
<1>9. \A s \in Sessions : \A x \in store'[s] :
                 /\ x \in store[s]
                 /\ RepoOf[x.tree] = r => x.epoch < registry'.coords[r].epoch
                 /\ RepoOf[x.tree] # r => registry'.coords[RepoOf[x.tree]].epoch
                                             = registry.coords[RepoOf[x.tree]].epoch
  BY <1>1, <1>4, <1>6, <1>7, <1>8, AdvanceStores
<1>10. HandlerFresh(t, registry, store, exists, content) BY DEF FreshInv
<1>11. OldOK(u, registry', store')
  <2> SUFFICES ASSUME NEW s \in Sessions, NEW x \in store'[s], RepoOf[x.tree] \in Changing(u)
               PROVE  x.epoch < registry'.coords[RepoOf[x.tree]].epoch
    BY DEF OldOK
  <2>1. CASE RepoOf[x.tree] = r BY <1>9, <2>1
  <2>2. CASE RepoOf[x.tree] # r
    <3>1. RepoOf[x.tree] \in ReposOf(t.locked \cup {w}) BY <1>5 DEF Changing
    <3>2. RepoOf[x.tree] \in Changing(t) BY <2>2, <3>1 DEF Changing, ReposOf, r
    <3>3. x.epoch < registry.coords[RepoOf[x.tree]].epoch
      BY <1>9, <1>10, <3>2 DEF HandlerFresh, OldOK
    <3> QED BY <1>9, <2>2, <3>3
  <2> QED BY <2>1, <2>2
<1>12. Coordinating(u) /\ ScopeOK(u, store') BY <1>5 DEF Coordinating, ScopeOK, Scanned
<1>13. DeleteOK(u, exists') BY <1>1, <1>5, <1>10 DEF HandlerFresh, DeleteOK
<1>14. RecOK(u) BY DEF Core, HandlersOK
<1>15. HandlerFresh(u, registry', store', exists', content')
  <2> HIDE DEF u
  <2> QED BY <1>11, <1>12, <1>13, <1>14, CoordFresh
<1> QED BY <1>1, <1>4, <1>5, <1>6, <1>7, <1>8, <1>15, AdvanceMove

\* Revalidate keeps FreshInv.
LEMMA RevalidateFresh ==
    ASSUME Core, Core', FreshInv, NEW h \in Handlers, Revalidate(h)
    PROVE  FreshInv'
<1> DEFINE t == handlers[h]
           u == handlers'[h]
           known == t.over \cap Registered(registry)
<1>1. /\ content' = content /\ exists' = exists /\ store' = store /\ registry' = registry
      /\ t.pc = "lockNext"
      /\ \/ Goto(h, "unlock")
         \/ /\ ReposOf(known) = ReposOf(t.locked)
            /\ Goto(h, IF t.kind = "delete" THEN "reload" ELSE "effect")
  BY DEF Revalidate, filesystem, At
<1>2. t \in HandlerRecs /\ RecOK(t) /\ HandlersOK(handlers) /\ registry \in Registries
  BY TreeType
<1>3. DeleteOK(t, exists) BY DEF FreshInv, HandlerFresh
<1>4. Shrinks(store, store') /\ Epochs(registry, registry') BY <1>1, Untouched, SameAreEpochs
<1>5. Coordinating(t) BY <1>1 DEF Coordinating
<1>6. CASE Goto(h, "unlock")
  <2>1. Others(h, handlers, handlers') /\ u.pc = "unlock" /\ u.locked = t.locked
    BY <1>2, <1>6, MovedTo
  <2>2. Coordinating(u) /\ DeleteOK(u, exists) /\ ScopeOK(u, store') /\ u.locked \subseteq t.locked
    BY <2>1 DEF Coordinating, DeleteOK, ScopeOK, Scanned
  <2> QED BY <1>1, <1>4, <1>5, <2>1, <2>2, CoordMove
<1>7. CASE /\ ReposOf(known) = ReposOf(t.locked)
           /\ Goto(h, IF t.kind = "delete" THEN "reload" ELSE "effect")
  <2>1. /\ Others(h, handlers, handlers') /\ u.kind = t.kind /\ u.tree = t.tree
        /\ u.pc = (IF t.kind = "delete" THEN "reload" ELSE "effect")
        /\ u.over = t.over /\ u.todo = t.todo /\ u.ids = t.ids /\ u.locked = t.locked
    BY <1>2, <1>7, MovedTo
  <2>2. Coordinating(u) BY <2>1 DEF Coordinating
  <2>3. ScopeOK(u, store')
    <3> SUFFICES ASSUME NEW s \in Sessions, NEW x \in store[s], x.tree \in t.over
                 PROVE  RepoOf[x.tree] \in ReposOf(t.locked)
      BY <1>1, <2>1 DEF ScopeOK
    <3>1. x.tree \in Worktrees /\ registry.trees[x.tree] # NoEntry BY Referenced
    <3>2. registry.trees[x.tree] >= 0
      <4>1. registry.trees[x.tree] \in Nat \cup {NoEntry} BY <1>2, <3>1 DEF Registries
      <4> QED BY <3>1, <4>1
    <3>3. x.tree \in known BY <3>1, <3>2 DEF Registered
    <3> HIDE DEF known
    <3> QED BY <1>7, <3>3 DEF ReposOf
  <2>4. DeleteOK(u, exists) BY <1>1, <1>3, <2>1 DEF DeleteOK
  <2>5. u.locked \subseteq t.locked BY <2>1
  <2> QED BY <1>1, <1>4, <1>5, <2>1, <2>2, <2>3, <2>4, <2>5, CoordMove
<1> QED BY <1>1, <1>6, <1>7

\* Effect keeps FreshInv.
LEMMA EffectFresh ==
    ASSUME Core, Core', World, FreshInv, NEW h \in Handlers, Effect(h)
    PROVE  FreshInv'
<1> DEFINE t == handlers[h]
           u == handlers'[h]
           changed == IF t.kind = "files" THEN t.over ELSE TreesOf(RepoOf[Tree(h)])
<1>1. /\ store' = store /\ registry' = registry /\ t.pc = "effect" /\ Goto(h, "unlock")
  BY DEF Effect, At
<1>2. t \in HandlerRecs /\ RecOK(t) /\ HandlersOK(handlers) /\ registry \in Registries
  BY TreeType
<1>3. \A w \in Worktrees : w \notin changed => content'[w] = content[w]
  <2>1. \E c \in [changed -> Contents] :
             content' = [w \in Worktrees |-> IF w \in changed THEN c[w] ELSE content[w]]
    BY DEF Effect
  <2> HIDE DEF changed
  <2> QED BY <2>1
<1>4. HandlerFresh(t, registry, store, exists, content) BY DEF FreshInv
<1>5. Coordinating(t) /\ Scanned(t) /\ t.pc \notin Asking
  BY <1>1 DEF Coordinating, Scanned, Asking
<1>6. /\ t.kind \in {"delete", "files"} /\ t.ids = t.locked /\ t.todo = {}
  BY <1>1, <1>2, <1>5 DEF RecOK
<1>7. ASSUME NEW s \in Sessions, NEW x \in store[s], x.tree \in changed
      PROVE  x.epoch < registry.coords[RepoOf[x.tree]].epoch
  <2>1. RepoOf[x.tree] \in ReposOf(t.locked)
    <3>1. CASE t.kind = "files" BY <1>4, <1>5, <1>7, <3>1 DEF HandlerFresh, ScopeOK
    <3>2. CASE t.kind = "delete"
      <4>1. RepoOf[t.tree] \in ReposOf(t.locked)
        BY <1>1, <1>4, <1>6, <3>2 DEF HandlerFresh, DeleteOK
      <4>2. RepoOf[x.tree] = RepoOf[t.tree] BY <1>7, <3>2 DEF TreesOf, Tree
      <4> QED BY <4>1, <4>2
    <3> QED BY <1>6, <3>1, <3>2
  <2>2. RepoOf[x.tree] \in Changing(t) BY <2>1 DEF Changing
  <2> QED BY <1>4, <2>2 DEF HandlerFresh, OldOK
<1> HIDE DEF changed
<1>8. StoresFresh(registry', store', content')
  <2> SUFFICES ASSUME NEW s \in Sessions, NEW x \in store[s]
               PROVE  /\ x.epoch <= registry.coords[RepoOf[x.tree]].epoch
                      /\ x.epoch = registry.coords[RepoOf[x.tree]].epoch
                            => x.content = content'[x.tree]
    BY <1>1 DEF StoresFresh
  <2>1. x.tree \in Worktrees /\ x.epoch \in Nat /\ registry.coords[RepoOf[x.tree]].epoch \in Nat
    BY Referenced
  <2>2. /\ x.epoch <= registry.coords[RepoOf[x.tree]].epoch
        /\ x.epoch = registry.coords[RepoOf[x.tree]].epoch => x.content = content[x.tree]
    BY DEF FreshInv, StoresFresh
  <2>3. CASE x.tree \in changed BY <1>7, <2>1, <2>2, <2>3
  <2>4. CASE x.tree \notin changed BY <1>3, <2>1, <2>2, <2>4
  <2> QED BY <2>3, <2>4
<1>9. ASSUME NEW i \in Handlers \ {h}
      PROVE  HandlerFresh(handlers[i], registry', store', exists', content')
  <2> DEFINE d == handlers[i]
  <2>1. d.pc \in {"idle", "session", "lease", "mark"} \cup Asking BY <1>5, AloneWorker
  <2>2. RecOK(d) BY DEF Core, HandlersOK
  <2>3. DeleteOK(d, exists) BY DEF FreshInv, HandlerFresh
  <2>4. DeleteOK(d, exists') BY <2>1, <2>3 DEF DeleteOK, Asking
  <2>5. d.pc \in Light BY <2>1 DEF Light, Asking
  <2> QED BY <2>2, <2>4, <2>5, LightFresh
<1>10. Others(h, handlers, handlers') /\ u.pc = "unlock" /\ u.locked = t.locked
  BY <1>1, <1>2, MovedTo
<1>11. HandlerFresh(u, registry', store', exists', content')
  <2>1. Changing(u) = Changing(t) BY <1>1, <1>10 DEF Changing
  <2>2. OldOK(u, registry', store') BY <1>1, <1>4, <2>1 DEF HandlerFresh, OldOK
  <2>3. Coordinating(u) /\ DeleteOK(u, exists') /\ ScopeOK(u, store')
    BY <1>10 DEF Coordinating, DeleteOK, ScopeOK, Scanned
  <2>4. RecOK(u) BY DEF Core, HandlersOK
  <2> HIDE DEF u
  <2> QED BY <2>2, <2>3, <2>4, CoordFresh
<1> QED BY <1>8, <1>9, <1>10, <1>11 DEF FreshInv, Others

\* UnlockLast keeps FreshInv.
LEMMA UnlockLastFresh ==
    ASSUME Core, Core', FreshInv, NEW h \in Handlers, UnlockLast(h)
    PROVE  FreshInv'
<1> DEFINE t == handlers[h]
           u == handlers'[h]
           w == LastLocked(h)
           g == Bump(registry, w)
           q == FreeRepo(g, w, TRUE)
<1>1. /\ content' = content /\ exists' = exists /\ store' = store /\ t.pc = "unlock"
      /\ t.locked # {} /\ registry' = ReleasedOne(q, w)
      /\ handlers' = [handlers EXCEPT ![h].locked = @ \ {w}]
  BY DEF UnlockLast, filesystem, At
<1>2. /\ t \in HandlerRecs /\ RecOK(t) /\ handlers \in [Handlers -> HandlerRecs]
      /\ registry \in Registries /\ HandlersOK(handlers)
  BY TreeType DEF HandlersOK
<1>3. w \in t.locked /\ w \in Worktrees /\ RepoOf[w] \in Repos
  <2>1. t.locked \in SUBSET Worktrees BY <1>2 DEF HandlerRecs
  <2>2. w \in t.locked BY <1>1, <2>1, LastIn DEF LastLocked
  <2> QED BY <2>1, <2>2, GitConstants
<1> HIDE DEF w
<1>4. g \in Registries /\ KeepsGates(registry, g) BY <1>2, <1>3, BumpFacts DEF KeepsGates
<1>5. GatesInv(g, handlers) BY <1>4, GatesSame
<1>6. Advances(registry, g, RepoOf[w]) BY <1>2, <1>3, BumpAdvances
<1>7. /\ RepoMode(handlers[h], RepoOf[w]) = Mode(TRUE) /\ handlers[h].pc # "gate"
      /\ TRUE \in BOOLEAN
  <2>1. RepoOf[w] \in ReposOf(Taken(t)) BY <1>3 DEF Taken, ReposOf
  <2> QED BY <1>1, <2>1 DEF RepoMode, Mode
<1> HIDE DEF g
<1>8. /\ q \in Registries
      /\ \A s \in Repos : q.coords[s].epoch = g.coords[s].epoch
  BY ONLY <1>2, <1>3, <1>4, <1>5, <1>7, h \in Handlers, FreeFacts
<1> HIDE DEF q
<1>9. Advances(registry, registry', RepoOf[w])
  <2>1. SameCoords(q, registry') BY <1>1, <1>3, <1>8, ReleasedOneFacts
  <2>2. SameEpochs(g, registry') BY <1>8, <2>1 DEF SameCoords, SameEpochs
  <2> QED BY <1>3, <1>6, <2>2, SameAreEpochs
<1>10. Coordinating(t) /\ t.pc \notin Asking BY <1>1 DEF Coordinating, Asking
<1>11. \A i \in Handlers \ {h} : handlers[i].pc = "work" => RepoOf[handlers[i].tree] # RepoOf[w]
  BY <1>10, AloneWorker
<1>12. Others(h, handlers, handlers') /\ u.pc = "unlock" /\ u.locked = t.locked \ {w}
  BY <1>1, <1>2 DEF Others, HandlerRecs
<1>13. Shrinks(store, store') BY <1>1, Untouched
<1>14. \A s \in Sessions : \A x \in store'[s] :
                 /\ x \in store[s]
                 /\ RepoOf[x.tree] = RepoOf[w] => x.epoch < registry'.coords[RepoOf[w]].epoch
                 /\ RepoOf[x.tree] # RepoOf[w] => registry'.coords[RepoOf[x.tree]].epoch
                                             = registry.coords[RepoOf[x.tree]].epoch
  BY <1>1, <1>3, <1>9, <1>11, <1>13, AdvanceStores
<1>15. OldOK(u, registry', store')
  <2> SUFFICES ASSUME NEW s \in Sessions, NEW x \in store'[s], RepoOf[x.tree] \in Changing(u)
               PROVE  x.epoch < registry'.coords[RepoOf[x.tree]].epoch
    BY DEF OldOK
  <2>1. CASE RepoOf[x.tree] = RepoOf[w] BY <1>14, <2>1
  <2>2. CASE RepoOf[x.tree] # RepoOf[w]
    <3>1. RepoOf[x.tree] \in Changing(t) BY <1>12 DEF Changing, ReposOf
    <3>2. HandlerFresh(t, registry, store, exists, content) BY DEF FreshInv
    <3>3. x.epoch < registry.coords[RepoOf[x.tree]].epoch
      BY <1>14, <3>1, <3>2 DEF HandlerFresh, OldOK
    <3> QED BY <1>14, <2>2, <3>3
  <2> QED BY <2>1, <2>2
<1>16. HandlerFresh(u, registry', store', exists', content')
  <2>1. Coordinating(u) /\ DeleteOK(u, exists') /\ ScopeOK(u, store')
    BY <1>12 DEF Coordinating, DeleteOK, ScopeOK, Scanned
  <2>2. RecOK(u) BY DEF Core, HandlersOK
  <2> HIDE DEF u
  <2> QED BY <1>15, <2>1, <2>2, CoordFresh
<1> QED BY <1>1, <1>3, <1>9, <1>11, <1>12, <1>13, <1>16, AdvanceMove

\* EndEffect keeps FreshInv.
LEMMA EndEffectFresh ==
    ASSUME Core, Core', FreshInv, NEW h \in Handlers, EndEffect(h)
    PROVE  FreshInv'
<1> DEFINE gone == IF handlers[h].kind = "delete" THEN Stale(InSession(h), Tree(h)) ELSE {}
<1>1. /\ content' = content /\ exists' = exists /\ Done(h)
      /\ registry' = Without(registry, InSession(h), gone)
      /\ store' = [store EXCEPT ![InSession(h)] = @ \ gone]
  BY DEF EndEffect, filesystem
<1> HIDE DEF gone
<1>2. Shrinks(store, store') BY <1>1, TreeType, Untouched
<1>3. Epochs(registry, registry') BY <1>1, TreeType, ReleasedEpochs, SameAreEpochs DEF Without
<1>4. Others(h, handlers, handlers') /\ handlers'[h].pc = "idle"
  BY <1>1, GotoOthers, IdleFacts, TreeType
<1>5. handlers'[h].pc \in Light /\ DeleteOK(handlers'[h], exists)
  BY <1>4, QuietDelete DEF NoDelete
<1> QED BY <1>1, <1>2, <1>3, <1>4, <1>5, LightMove

\* Close keeps FreshInv.
LEMMA CloseFresh ==
    ASSUME Core, FreshInv, NEW s \in Sessions, Close(s)
    PROVE  FreshInv'
<1>0. store \in [Sessions -> SUBSET Snapshots] /\ registry \in Registries
  BY DEF Core, StoresOK
<1>1. content' = content /\ exists' = exists /\ handlers' = handlers
  BY DEF Close, EvictSnapshot, CloseStore, CloseSession, filesystem
<1>2. Shrinks(store, store') /\ Epochs(registry, registry')
  <2>1. ASSUME NEW x \in store[s], EvictSnapshot(s, x)
        PROVE  Shrinks(store, store') /\ Epochs(registry, registry')
    BY <1>0, <2>1, Untouched, ReleasedEpochs, SameAreEpochs DEF EvictSnapshot, Without
  <2>2. CASE CloseStore(s)
    BY <1>0, <2>2, Untouched, ReleasedEpochs, SameAreEpochs DEF CloseStore, Without
  <2>3. CASE CloseSession(s)
    BY <1>0, <2>3, Untouched, ReleasedEpochs, SameAreEpochs DEF CloseSession
  <2> QED BY <2>1, <2>2, <2>3 DEF Close
<1>3. /\ StoresFresh(registry', store', content')
      /\ \A i \in Handlers : HandlerFresh(handlers[i], registry', store', exists', content')
  BY <1>1, <1>2, CalmStores
<1> QED BY <1>1, <1>3 DEF FreshInv

\* FreshInv holds initially: no handler has a lease and nothing is stored.
LEMMA FreshInit == ASSUME Init PROVE FreshInv
<1>1. ASSUME NEW h \in Handlers
      PROVE  HandlerFresh(handlers[h], registry, store, exists, content)
  <2>1. handlers[h] = IdleHandler BY DEF Init
  <2>2. IdleHandler.pc \in Light /\ DeleteOK(IdleHandler, exists)
    BY IdleFacts, QuietDelete DEF NoDelete
  <2> QED BY <2>1, <2>2, IdleFacts, LightFresh
<1>2. StoresFresh(registry, store, content) BY DEF Init, StoresFresh
<1> QED BY <1>1, <1>2 DEF FreshInv

\* Every step of a handler keeps it.
LEMMA StepFresh ==
    ASSUME Core, Core', World, FreshInv, NEW h \in Handlers, Step(h)
    PROVE  FreshInv'
BY ResolveFresh, LockSessionFresh, RetainInSessionFresh, RequestLeaseFresh, EnterRepositoryFresh,
   MarkIncompleteFresh, LeasedFresh, CaptureFresh, PageFresh, ReadOnlyFresh, MutateFresh,
   ReloadFresh, ReleaseLeaseFresh, UnretainStepFresh, ScanFresh, ResolvePathFresh,
   StartLockingFresh, LockNextFresh, LockedFresh, RevalidateFresh, EffectFresh, UnlockLastFresh,
   EndEffectFresh DEF Step

\* FreshInv is inductive, given Core and World.
LEMMA FreshNext ==
    ASSUME Core, World, FreshInv, [Next]_vars
    PROVE  FreshInv'
<1>0. Core' BY CoreNext
<1>1. ASSUME NEW h \in Handlers, Arrive(h) PROVE FreshInv' BY <1>0, <1>1, StartFresh
<1>2. ASSUME NEW h \in Handlers, Step(h) PROVE FreshInv' BY <1>0, <1>2, StepFresh
<1>3. ASSUME NEW h \in Handlers, Cancel(h) PROVE FreshInv'
  BY <1>0, <1>3, CancelTopologyFresh, CancelRepositoryFresh DEF Cancel
<1>4. ASSUME NEW s \in Sessions, Close(s) PROVE FreshInv' BY <1>4, CloseFresh
<1>5. CASE UNCHANGED vars BY <1>5 DEF vars, FreshInv
<1> QED BY <1>1, <1>2, <1>3, <1>4, <1>5 DEF Next

GitInv == Core /\ World /\ FreshInv

\* The inductive invariant of the Git runtime.
THEOREM GitInvariant == Spec => []GitInv
<1>1. Init => GitInv BY CoreInit, WorldInit, FreshInit DEF GitInv
<1>2. GitInv /\ [Next]_vars => GitInv' BY CoreNext, FreshNext DEF GitInv
<1> QED BY <1>1, <1>2, PTL DEF Spec

\* A worktree under a lease is not moved or removed: acquireRepository checks it
\* inside the topology gate, and whoever may move it holds that gate alone.
THEOREM WorktreesStand == Spec => []LeasedWorktreeStands
<1>1. ASSUME GitInv, NEW h \in Handlers, HasLease(h) PROVE Tree(h) \in exists
  <2>1. Leasing(handlers[h]) BY <1>1, HoldsIsHeld
  <2>2. StandOK(handlers[h], exists) BY <1>1 DEF GitInv, FreshInv, HandlerFresh
  <2> QED BY <2>1, <2>2 DEF StandOK, Tree
<1>2. GitInv => LeasedWorktreeStands BY <1>1 DEF LeasedWorktreeStands
<1> QED BY <1>2, GitInvariant, PTL

\* A snapshot that a request pages through says what git would say now: its epoch
\* is the epoch of the lease, and nobody changes the repository meanwhile
\* (workspace_snapshot.go).
THEOREM PagesAreFresh == Spec => []SnapshotFresh
<1>1. GitInv => SnapshotFresh
  BY DEF GitInv, FreshInv, HandlerFresh, PinOK, SnapshotFresh
<1> QED BY <1>1, GitInvariant, PTL
=============================================================================
