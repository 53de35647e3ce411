------------------------- MODULE FlowerOutboxProofs -------------------------
(***************************************************************************)
(* Proofs about FlowerOutbox, for any number of messages, failures and     *)
(* reloads.                                                                *)
(*                                                                         *)
(* The invariant Inv speaks of every copy of an entry (in the outbox, in   *)
(* the writes that wait for IndexedDB, on the disk), because a reload may  *)
(* bring any of them back, and of every request on the wire, because one   *)
(* that is given up may still be admitted.  Three of the properties rest   *)
(* on each other: that what is launched can be recovered (Secured), that a *)
(* launch is the only one (Single), and that nothing later has gone ahead  *)
(* of a message that still waits (InLine).                                 *)
(*                                                                         *)
(* A second invariant, Once, says where a message goes: to one thread.  It *)
(* holds as long as no message has overtaken one in doubt, every write was *)
(* saved and every read succeeded (Orderly), and needs Inv.                *)
(***************************************************************************)
EXTENDS FlowerOutbox, FiniteSetTheorems, SequenceTheorems, TLAPS

-----------------------------------------------------------------------------
(* Types. *)

\* a message of a thread knows it, one of the new chat does not
Fits(e) == IF e.thread = None THEN e.place = Draft ELSE e.place = e.thread

Writes == Seq(UNION {[S -> Entry \cup {None}] : S \in SUBSET Messages})

Calls ==
    {[step |-> "idle"], [step |-> "prepare"], [step |-> "request"]}
        \cup [step : {"capture", "store"}, thread : Threads \cup {None}, wait : Nat, ok : BOOLEAN]

Requests == [m : Messages, thread : Threads \cup {None}, awaited : BOOLEAN, taken : BOOLEAN]

Typed ==
    /\ entries \in [Messages -> Entry \cup {None}]
    /\ order \subseteq Messages \X Messages
    /\ handoffs \subseteq Retained
    /\ dispatch \in [Messages -> Calls]
    /\ restoring \in BOOLEAN
    /\ disk \in [Messages -> Entry \cup {None}]
    /\ writes \in Writes /\ latest \in BOOLEAN
    /\ wire \subseteq Requests
    /\ threads \in [Threads -> Seq(Messages)]
    /\ sent \in Seq([m : Messages, to : Threads \cup {Draft}])
    /\ removed \subseteq Messages /\ doubted \subseteq Messages /\ refused \subseteq Messages
    /\ early \subseteq Messages /\ unsaved \subseteq Messages
    /\ faults \in 0..MaxFaults

-----------------------------------------------------------------------------
(* The parts of the invariant. *)

(* The order is one of exactly the messages that are retained. *)
Lined == order \in Orders(Retained)

\* the values that the writes of q give m, those of the first k left out
Later(q, k, m) == {q[i][m] : i \in {j \in DOMAIN q : j > k /\ m \in DOMAIN q[j]}}

\* what the queue q over the disk d says of m after its first i writes, if the i-th is one of m
Val(q, d, i, m) == IF i = 0 THEN d[m] ELSE IF m \in DOMAIN q[i] THEN q[i][m] ELSE None

\* every copy of the entry of m
Values(m) == {entries[m], disk[m]} \cup Later(writes, 0, m)

Waits(c) == c.step \in {"capture", "store"}

(* A dispatch in flight is one of a message that waits; it waits for writes  *)
(* that exist, and knows whether the message has been prepared.              *)
StagedAt(m) ==
    /\ dispatch[m] # Idle => entries[m] # None /\ entries[m].delivery = "pending"
    /\ Waits(dispatch[m]) => dispatch[m].wait <= Len(writes)
    /\ dispatch[m].step = "capture" => dispatch[m].thread = None
    /\ dispatch[m].step = "prepare" => entries[m].preparing
    /\ dispatch[m].step \in {"store", "request"} => ~ entries[m].preparing
    /\ dispatch[m].step = "store" => dispatch[m].thread \in {None, entries[m].place}

Staged == \A m \in Messages : StagedAt(m)

(* An awaited answer is that of the one dispatch of its message; what the    *)
(* server has taken it has admitted.                                         *)
Answered ==
    /\ \A w \in wire : w.awaited =>
            /\ dispatch[w.m].step = "request"
            /\ w.thread \in {None, entries[w.m].place}
            /\ \A x \in wire : x.awaited /\ x.m = w.m => x = w
    /\ \A w \in wire : w.taken => w.awaited /\ w.m \in AdmittedTo(Addressed(w))

\* a thread exists from the start or through the message it is named after
Known(t) == t = Home \/ t \in AdmittedTo(t)

Bad == refused \cup doubted

Sent(m) == \E i \in DOMAIN sent : sent[i].m = m
SentTo(m, p) == \E i \in DOMAIN sent : sent[i].m = m /\ sent[i].to = p

(* What any copy of an entry says is true: a failure and a doubt have been   *)
(* recorded, its thread exists, and it was sent there or to the new chat.    *)
Valid(m, v) ==
    /\ Fits(v)
    /\ v.stranded => v.delivery = "failed"
    /\ v.delivery = "failed" /\ ~ v.stranded => m \in Bad
    /\ v.delivery = "unknown" => m \in doubted
    /\ v.place # Draft => Known(v.place)
    /\ SentTo(m, Draft) \/ SentTo(m, v.place)

ValidAt(m) == \A v \in Values(m) : v # None => Valid(m, v)

AllValid == \A m \in Messages : ValidAt(m)

OnWire(m) == \E w \in wire : w.m = m
Launched(m) == OnWire(m) \/ Admitted(m)

(* A message is sent once, and nothing is known of one that was not sent. *)
SentOnce ==
    /\ \A i, j \in DOMAIN sent : sent[i].m = sent[j].m => i = j
    /\ \A m \in Messages :
        \/ Launched(m) \/ m \in removed \cup doubted \cup refused
        \/ \E v \in Values(m) : v # None
        => Sent(m)

(* What has messages, or is launched to, is a thread that exists. *)
ThreadsKnown ==
    /\ \A t \in Threads : threads[t] # <<>> => Known(t)
    /\ \A w \in wire : w.thread # None => Known(w.thread)

\* copies of a message that was ready to be launched
Good == {e \in Entry : ~ e.preparing /\ e.delivery = "pending"}
Late == {e \in Entry : ~ e.preparing /\ e.delivery \in {"pending", "accepted"}} \cup {None}

\* after i of the writes that wait the disk has a good copy of m, and it keeps one
GoodFrom(i, m) == Val(writes, disk, i, m) \in Good /\ Later(writes, i, m) \subseteq Good

\* how many of the writes that wait have ended when m is launched
Due(m) ==
    IF dispatch[m] = Idle THEN Len(writes)
    ELSE IF dispatch[m].step \in {"capture", "store"} THEN dispatch[m].wait
    ELSE 0

(* Durability: when a prepared message is launched, its entry is on the      *)
(* disk; if it has neither failed nor been in doubt, it is the dispatch      *)
(* itself that waits for that write.                                         *)
SecuredAt(m) ==
    entries[m] # None /\ entries[m].delivery = "pending" /\ ~ entries[m].preparing =>
        /\ m \notin unsaved => \E i \in 0..Due(m) : GoodFrom(i, m)
        /\ m \notin Bad =>
            /\ dispatch[m].step \in {"store", "request"}
            /\ dispatch[m].step = "request" => GoodFrom(0, m)
            /\ dispatch[m].step = "store" =>
                \/ dispatch[m].wait > 0 /\ GoodFrom(dispatch[m].wait, m)
                \/ dispatch[m].wait = 0 /\ Later(writes, 0, m) \subseteq Good /\ (dispatch[m].ok => disk[m] \in Good)

Secured == \A m \in Messages : SecuredAt(m)

\* never in doubt, and not refused after a write that failed
Clean(m) == m \notin doubted /\ m \notin (unsaved \cap refused)

(* One launch: of a message that is launched and was never in doubt there is *)
(* one request, not admitted yet if it was not taken, and no copy from which *)
(* a reload would launch it again or give it back to the user.               *)
SingleAt(m) ==
    Clean(m) /\ Launched(m) =>
        /\ m \notin removed
        /\ entries[m] # None =>
            ~ entries[m].preparing /\ (entries[m].delivery = "accepted" \/ dispatch[m].step = "request")
        /\ disk[m] \in Late /\ Later(writes, 0, m) \subseteq Late
        /\ \A w \in wire : w.m = m =>
            /\ ~ w.taken => ~ Admitted(m)
            /\ \A x \in wire : x.m = m => x = w

Single == \A m \in Messages : SingleAt(m)

\* waits, and has neither failed nor been in doubt
Waiting(m) == m \notin Bad /\ entries[m] # None /\ entries[m].delivery = "pending"

\* t has not admitted n, and no request can bring it there
NotIn(n, t) == n \notin AdmittedTo(t) /\ \A w \in wire : w.m = n => Addressed(w) # t

\* m keeps its lead over n
Ahead(m, n) ==
    /\ entries[n] # None /\ entries[n].place = entries[m].place => Before(order, m, n) /\ dispatch[n] = Idle
    /\ entries[m].place = Draft => ~ Launched(n) /\ (entries[n] # None => entries[n].place = Draft)
    /\ entries[m].place # Draft => NotIn(n, entries[m].place)

InLineAt(m, n) == Waiting(m) /\ SentBefore(m, n) => Ahead(m, n)

(* While a message waits, none that was sent after it to the same place has  *)
(* been launched to where it will go.                                        *)
InLine == \A m, n \in Messages : InLineAt(m, n)

ApartAt(m, n) ==
    /\ Waiting(m) /\ SentTo(m, Draft) /\ entries[m].place # Draft
    /\ entries[n] # None /\ entries[n].place = Draft
    => n # entries[m].place /\ NotIn(n, entries[m].place)

(* What still waits in the new chat has nothing to do with the thread that   *)
(* an earlier new chat became.                                               *)
Apart == \A m, n \in Messages : ApartAt(m, n)

(* A request that was given up without a doubt was given up by a reload: its *)
(* entry will come back from the disk, as unknown.                           *)
Lost ==
    \A w \in wire : ~ w.awaited /\ w.m \notin Bad =>
        /\ restoring /\ entries[w.m] = None /\ disk[w.m] \in Good
        /\ \A n \in Messages : SentBefore(w.m, n) => NotIn(n, Addressed(w))

(* What is in the outbox while it is being restored was sent since, and      *)
(* waits for its first write.                                                *)
Resuming ==
    restoring =>
        /\ \A m \in Messages : entries[m] # None =>
            /\ disk[m] = None /\ ~ Launched(m) /\ SentTo(m, entries[m].place) /\ writes # <<>>
            /\ dispatch[m] # Idle => dispatch[m].step = "capture" /\ dispatch[m].wait > 0
            /\ \A n \in Messages : disk[n] # None => ~ SentBefore(m, n)
        /\ \A m \in Messages : Later(writes, 0, m) # {} => disk[m] = None

(* What waits has not been taken back. *)
Unremoved == \A m \in Messages : entries[m] # None /\ entries[m].delivery = "pending" => m \notin removed

(* The inductive invariant *)
Inv ==
    /\ Unremoved /\ Typed /\ Lined /\ Staged /\ Answered /\ AllValid /\ SentOnce /\ ThreadsKnown
    /\ Secured /\ Single /\ InLine /\ Apart /\ Lost /\ Resuming /\ OrderKept

-----------------------------------------------------------------------------
(* Writes, and the values they give a message. *)

\* r is q with writes added
Extends(q, r) == r \in Writes /\ Len(q) <= Len(r) /\ \A i \in 1..Len(q) : r[i] = q[i]

(* What a dispatch may be. *)
LEMMA CallKinds ==
    \A c \in Calls :
        /\ c.step \in {"idle", "capture", "prepare", "store", "request"}
        /\ c.step = "idle" <=> c = Idle
        /\ Waits(c) => /\ c.wait \in Nat /\ c.ok \in BOOLEAN /\ c.thread \in Threads \cup {None}
                       /\ c = [step |-> c.step, thread |-> c.thread, wait |-> c.wait, ok |-> c.ok]
BY DEF Calls, Idle, Waits

(* A write maps some messages to their values. *)
LEMMA WriteIs ==
    ASSUME NEW q \in Writes, NEW i \in DOMAIN q
    PROVE  /\ DOMAIN q = 1..Len(q) /\ Len(q) \in Nat
           /\ DOMAIN q[i] \subseteq Messages
           /\ \A m \in DOMAIN q[i] : q[i][m] \in Entry \cup {None}
BY DEF Writes

(* Membership in Later. *)
LEMMA LaterIs ==
    ASSUME NEW q, NEW k, NEW m, NEW v
    PROVE  v \in Later(q, k, m) <=> \E i \in DOMAIN q : i > k /\ m \in DOMAIN q[i] /\ v = q[i][m]
BY DEF Later

(* The values of a queue are entries or deletions. *)
LEMMA LaterTyped ==
    ASSUME NEW q \in Writes, NEW k, NEW m
    PROVE  Later(q, k, m) \subseteq Entry \cup {None}
BY WriteIs DEF Later

(* Fewer writes give fewer values. *)
LEMMA LaterShrinks ==
    ASSUME NEW q \in Writes, NEW k \in Nat, NEW j \in Nat, k <= j, NEW m
    PROVE  Later(q, j, m) \subseteq Later(q, k, m)
BY WriteIs DEF Later

(* Behind its last write a queue gives nothing. *)
LEMMA LaterEnds ==
    ASSUME NEW q \in Writes, NEW m
    PROVE  Later(q, Len(q), m) = {}
BY WriteIs DEF Later

(* The length of a queue of writes. *)
LEMMA WritesLen == ASSUME NEW q \in Writes PROVE Len(q) \in Nat /\ DOMAIN q = 1..Len(q)
BY DEF Writes

(* Extends is reflexive ... *)
LEMMA ExtendsSelf == ASSUME NEW q \in Writes PROVE Extends(q, q)
BY WritesLen DEF Extends

(* ... and transitive. *)
LEMMA ExtendsTwice ==
    ASSUME NEW q \in Writes, NEW r \in Writes, NEW s \in Writes, Extends(q, r), Extends(r, s)
    PROVE  Extends(q, s)
BY WritesLen DEF Extends

(* The values of a longer queue are the old ones and the added ones. *)
LEMMA LaterSplits ==
    ASSUME NEW q \in Writes, NEW r \in Writes, Extends(q, r), NEW k \in 0..Len(q), NEW m
    PROVE  Later(r, k, m) = Later(q, k, m) \cup Later(r, Len(q), m)
<1>1. ASSUME NEW v PROVE v \in Later(r, k, m) <=> v \in Later(q, k, m) \/ v \in Later(r, Len(q), m)
  <2>1. DOMAIN q = 1..Len(q) /\ DOMAIN r = 1..Len(r) /\ Len(q) \in Nat /\ Len(r) \in Nat
    BY WritesLen
  <2>2. v \in Later(r, k, m) => v \in Later(q, k, m) \/ v \in Later(r, Len(q), m)
    BY <2>1, LaterIs DEF Extends
  <2>3. v \in Later(q, k, m) => v \in Later(r, k, m)
    BY <2>1, LaterIs DEF Extends
  <2>4. v \in Later(r, Len(q), m) => v \in Later(r, k, m)
    BY <2>1, LaterIs DEF Extends
  <2> QED BY <2>2, <2>3, <2>4
<1> QED BY <1>1

(* What is added in two steps is added by the first or by the second. *)
LEMMA AddedTwice ==
    ASSUME NEW q \in Writes, NEW r \in Writes, NEW s \in Writes, Extends(q, r), Extends(r, s), NEW m
    PROVE  Later(s, Len(q), m) = Later(r, Len(q), m) \cup Later(s, Len(r), m)
<1>1. Len(q) \in 0..Len(r)
  BY WritesLen DEF Extends
<1> QED BY <1>1, LaterSplits

(* What the first writes give is not changed by those behind them. *)
LEMMA ValKept ==
    ASSUME NEW q \in Writes, NEW r \in Writes, Extends(q, r), NEW d, NEW i \in 0..Len(q), NEW m
    PROVE  Val(r, d, i, m) = Val(q, d, i, m)
BY WritesLen DEF Val, Extends

(* persist gives a queue of writes. *)
LEMMA PersistTyped ==
    ASSUME NEW q \in Writes, NEW b \in [Messages -> Entry \cup {None}], NEW a \in [Messages -> Entry \cup {None}]
    PROVE  Persist(q, b, a) \in Writes
<1> DEFINE changed == {m \in Messages : b[m] # a[m]}
           w == [m \in changed |-> a[m]]
<1>1. w \in [changed -> Entry \cup {None}]
  OBVIOUS
<1>2. w \in UNION {[S -> Entry \cup {None}] : S \in SUBSET Messages}
  BY <1>1
<1>3. Append(q, w) \in Writes
  <2> HIDE DEF w
  <2> QED BY <1>2 DEF Writes
<1> QED BY <1>3 DEF Persist

(* persist adds one write, of exactly the messages that have changed. *)
LEMMA PersistAdds ==
    ASSUME NEW q \in Writes, NEW b \in [Messages -> Entry \cup {None}], NEW a \in [Messages -> Entry \cup {None}]
    PROVE  /\ Extends(q, Persist(q, b, a))
           /\ \A m \in Messages :
                /\ Later(Persist(q, b, a), Len(q), m) = IF b[m] # a[m] THEN {a[m]} ELSE {}
                /\ b[m] # a[m] =>
                    /\ Len(Persist(q, b, a)) = Len(q) + 1
                    /\ m \in DOMAIN Persist(q, b, a)[Len(Persist(q, b, a))]
                    /\ \A d : Val(Persist(q, b, a), d, Len(Persist(q, b, a)), m) = a[m]
<1> DEFINE changed == {m \in Messages : b[m] # a[m]}
           w == [m \in changed |-> a[m]]
           r == Persist(q, b, a)
<1>0. r \in Writes
  BY PersistTyped
<1>1. CASE changed = {}
  <2>1. r = q
    BY <1>1 DEF Persist
  <2>2. \A m \in Messages : ~ (b[m] # a[m])
    BY <1>1
  <2> QED BY <2>1, <2>2, ExtendsSelf, LaterEnds
<1>2. CASE changed # {}
  <2>1. r = Append(q, w)
    BY <1>2 DEF Persist
  <2>2. Len(r) = Len(q) + 1 /\ (\A i \in 1..Len(q) : r[i] = q[i]) /\ r[Len(q) + 1] = w /\ Len(q) \in Nat
    BY <2>1, WritesLen DEF Writes
  <2>3. Extends(q, r)
    BY <1>0, <2>2 DEF Extends
  <2>4. ASSUME NEW m \in Messages, b[m] # a[m]
        PROVE  Later(r, Len(q), m) = {a[m]} /\ m \in DOMAIN r[Len(r)] /\ \A d : Val(r, d, Len(r), m) = a[m]
    <3>1. m \in DOMAIN w /\ w[m] = a[m]
      BY <2>4
    <3>2. \A i \in DOMAIN r : i > Len(q) <=> i = Len(q) + 1
      BY <1>0, <2>2, WritesLen
    <3>3. Len(q) + 1 \in DOMAIN r
      BY <1>0, <2>2, WritesLen
    <3>4. \A v : v \in Later(r, Len(q), m) <=> v = a[m]
      BY <3>1, <3>2, <3>3, <2>2, LaterIs
    <3>5. m \in DOMAIN r[Len(r)] /\ \A d : Val(r, d, Len(r), m) = a[m]
      BY <3>1, <2>2 DEF Val
    <3> QED BY <3>4, <3>5
  <2>5. ASSUME NEW m \in Messages, ~ (b[m] # a[m])
        PROVE  Later(r, Len(q), m) = {}
    <3>1. m \notin DOMAIN w
      BY <2>5
    <3>2. \A i \in DOMAIN r : i > Len(q) <=> i = Len(q) + 1
      BY <1>0, <2>2, WritesLen
    <3> QED BY <3>1, <3>2, <2>2, LaterIs
  <2> QED BY <2>2, <2>3, <2>4, <2>5
<1> QED BY <1>1, <1>2

-----------------------------------------------------------------------------
(* The dispatcher, and binding a new chat to its thread. *)

Open(e) == e.delivery \in {"pending", "unknown"}

StartedNow(m) ==
    /\ entries'[m] # None /\ entries'[m].delivery = "pending"
    /\ dispatch'[m] \in Calls
    /\ dispatch'[m].step = "capture" /\ dispatch'[m].thread = None /\ dispatch'[m].wait = Len(writes')
    /\ \A n \in Messages : entries'[n] # None /\ entries'[n].place = entries'[m].place /\ Open(entries'[n])
            => ~ Before(order', n, m)

Called(m, c) ==
    IF entries'[m] = None THEN dispatch'[m] = Idle
    ELSE dispatch'[m] = c \/ (c = Idle /\ StartedNow(m))

Boxes == [Messages -> Entry \cup {None}]

(* What the dispatcher leaves behind, whatever the step before it has        *)
(* changed.                                                                  *)
LEMMA DispatcherEffect ==
    ASSUME NEW box \in Boxes, NEW ord \in SUBSET (Messages \X Messages), NEW hand, NEW calls \in [Messages -> Calls],
           NEW queue \in Writes, latest \in BOOLEAN, Dispatcher(box, ord, hand, calls, queue)
    PROVE  /\ entries' = box /\ order' = Kept(box, ord) /\ writes' = queue
           /\ order' \subseteq Messages \X Messages
           /\ latest' \in BOOLEAN
           /\ handoffs' \subseteq {m \in Messages : entries'[m] # None} \cup hand
           /\ \A m \in handoffs' : box[m] # None
           /\ dispatch' \in [Messages -> Calls]
           /\ \A m \in Messages : Called(m, calls[m])
<1> DEFINE heads == Heads(box, ord, {"pending", "unknown"})
           starts == {m \in Pending(box, heads) : box[m].place \notin Active(box, calls)}
           begun == Flushing("capture", None, queue, latest)
<1>1. Dispatched(box, Kept(box, ord), hand, calls, queue, heads, starts)
  BY DEF Dispatcher
<1>2. entries' = box /\ order' = Kept(box, ord) /\ writes' = queue
  BY <1>1 DEF Dispatched
<1>3. latest' \in BOOLEAN
  BY <1>1 DEF Dispatched
<1>4. order' \subseteq Messages \X Messages
  BY <1>2 DEF Kept
<1>5. heads \subseteq {m \in Messages : box[m] # None}
  BY DEF Heads
<1>6. handoffs' \subseteq {m \in Messages : entries'[m] # None} \cup hand /\ \A m \in handoffs' : box[m] # None
  <2> HIDE DEF heads, starts
  <2> QED BY <1>1, <1>2, <1>5 DEF Dispatched
<1>7. dispatch' = [m \in Messages |-> IF box[m] = None THEN Idle ELSE IF m \in starts THEN begun ELSE calls[m]]
  BY <1>1 DEF Dispatched
<1>8. begun \in Calls /\ begun.step = "capture" /\ begun.thread = None /\ begun.wait = Len(queue)
  BY WritesLen DEF Flushing, Calls
<1>9. Idle \in Calls
  BY DEF Idle, Calls
<1>10. dispatch' \in [Messages -> Calls]
  <2> HIDE DEF begun, starts, heads
  <2> QED BY <1>7, <1>8, <1>9
<1>11. ASSUME NEW m \in Messages PROVE Called(m, calls[m])
  <2>1. CASE box[m] = None
    BY <2>1, <1>2, <1>7 DEF Called
  <2>2. CASE box[m] # None /\ m \notin starts
    <3> HIDE DEF begun, starts, heads
    <3> QED BY <2>2, <1>2, <1>7 DEF Called
  <2>3. CASE box[m] # None /\ m \in starts
    <3>1. calls[m] = Idle
      BY <2>3 DEF Active
    <3>2. box[m].delivery = "pending" /\ m \in heads
      BY <2>3 DEF Pending
    <3>3. ASSUME NEW n \in Messages, box[n] # None, box[n].place = box[m].place, Open(box[n])
          PROVE  ~ Before(ord, n, m)
      BY <3>2, <3>3 DEF Heads, Open
    <3>4. ASSUME NEW n \in Messages, box[n] # None, box[n].place = box[m].place, Open(box[n])
          PROVE  ~ Before(order', n, m)
      BY <3>3, <3>4, <1>2 DEF Kept, Before
    <3>5. dispatch'[m] = begun
      <4> HIDE DEF begun, starts, heads
      <4> QED BY <2>3, <1>7
    <3>6. StartedNow(m)
      <4> HIDE DEF begun, starts, heads
      <4> QED BY <1>2, <1>8, <2>3, <3>2, <3>4, <3>5 DEF StartedNow
    <3> QED BY <3>1, <3>6, <2>3, <1>2 DEF Called
  <2> QED BY <2>1, <2>2, <2>3
<1> QED BY <1>2, <1>3, <1>4, <1>6, <1>10, <1>11

\* started in a place that nothing in flight held
Free(n) ==
    \A o \in Messages : entries'[o] # None /\ entries'[o].place = entries'[n].place /\ dispatch'[o] # Idle => StartedNow(o)

(* The dispatcher starts a message only in a place that nothing in flight holds. *)
LEMMA DispatcherFree ==
    ASSUME NEW box \in Boxes, NEW ord \in SUBSET (Messages \X Messages), NEW hand, NEW calls \in [Messages -> Calls],
           NEW queue \in Writes, latest \in BOOLEAN, Dispatcher(box, ord, hand, calls, queue)
    PROVE  \A m \in Messages : dispatch'[m] # Idle =>
                box[m] # None /\ (dispatch'[m] = calls[m] \/ (StartedNow(m) /\ Free(m)))
<1> DEFINE heads == Heads(box, ord, {"pending", "unknown"})
           starts == {m \in Pending(box, heads) : box[m].place \notin Active(box, calls)}
           begun == Flushing("capture", None, queue, latest)
<1>1. entries' = box /\ \A m \in Messages : Called(m, calls[m])
  BY DispatcherEffect
<1>2. dispatch' = [m \in Messages |-> IF box[m] = None THEN Idle ELSE IF m \in starts THEN begun ELSE calls[m]]
  BY DEF Dispatcher, Dispatched
<1>3. ASSUME NEW m \in Messages, dispatch'[m] # Idle
      PROVE  box[m] # None /\ (dispatch'[m] = calls[m] \/ (m \in starts /\ StartedNow(m)))
  <2> HIDE DEF heads, starts, begun
  <2>1. box[m] # None
    BY <1>2, <1>3
  <2>2. dispatch'[m] = calls[m] \/ StartedNow(m)
    BY <1>1, <2>1 DEF Called
  <2>3. m \notin starts => dispatch'[m] = calls[m]
    BY <1>2, <2>1
  <2> QED BY <2>1, <2>2, <2>3
<1>4. ASSUME NEW m \in Messages, m \in starts PROVE Free(m)
  <2> SUFFICES ASSUME NEW o \in Messages, box[o] # None, box[o].place = box[m].place, dispatch'[o] # Idle
               PROVE  StartedNow(o)
    BY <1>1 DEF Free
  <2>1. box[m].place \notin Active(box, calls)
    BY <1>4
  <2>2. calls[o] = Idle
    BY <2>1 DEF Active
  <2> QED BY <1>1, <2>2 DEF Called
<1> HIDE DEF starts
<1> QED BY <1>3, <1>4

AllFit(box) == \A n \in Messages : box[n] # None => Fits(box[n])

Moved(e, t) == [e EXCEPT !.place = t, !.thread = t]

AllBound(box, t) ==
    [n \in Messages |-> IF box[n] # None /\ box[n].place = Draft THEN Moved(box[n], t) ELSE box[n]]

(* An entry that is bound to a thread changes in nothing else. *)
LEMMA MovedIs ==
    ASSUME NEW e \in Entry, NEW t \in Threads
    PROVE  /\ Moved(e, t) \in Entry /\ Moved(e, t).place = t /\ Moved(e, t).thread = t
           /\ Moved(e, t).preparing = e.preparing /\ Moved(e, t).delivery = e.delivery
           /\ Moved(e, t).stranded = e.stranded
           /\ Fits(Moved(e, t)) /\ Moved(e, t) # None
           /\ e.place = t /\ e.thread = t => Moved(e, t) = e
BY OutboxConstants DEF Moved, Entry, Fits

(* Binding the new chat keeps entries well formed. *)
LEMMA AllBoundIs ==
    ASSUME NEW box \in Boxes, AllFit(box), NEW t \in Threads
    PROVE  AllBound(box, t) \in Boxes /\ AllFit(AllBound(box, t))
<1>1. ASSUME NEW n \in Messages
      PROVE  /\ AllBound(box, t)[n] \in Entry \cup {None}
             /\ AllBound(box, t)[n] # None => Fits(AllBound(box, t)[n])
  <2>1. box[n] \in Entry \cup {None}
    BY DEF Boxes
  <2>2. CASE box[n] # None /\ box[n].place = Draft
    BY <2>1, <2>2, MovedIs DEF AllBound
  <2>3. CASE ~ (box[n] # None /\ box[n].place = Draft)
    BY <2>1, <2>3 DEF AllBound, AllFit
  <2> QED BY <2>2, <2>3
<1>2. AllBound(box, t) = [n \in Messages |-> AllBound(box, t)[n]]
  BY DEF AllBound
<1> QED BY <1>1, <1>2 DEF Boxes, AllFit

(* bindAcceptedThread does nothing, or it binds the whole new chat. *)
LEMMA BoundIs ==
    ASSUME NEW box \in Boxes, AllFit(box), NEW m \in Messages, NEW t \in Threads
    PROVE  \/ Bound(box, m, t) = box
           \/ box[m] # None /\ box[m].place = Draft /\ Bound(box, m, t) = AllBound(box, t)
<1>0. None \notin Threads /\ Draft \notin Threads
  BY OutboxConstants
<1>1. CASE box[m] = None \/ box[m].thread \notin {None, t}
  BY <1>1 DEF Bound
<1>2. CASE box[m] # None /\ box[m].thread = t
  <2>1. box[m] \in Entry /\ box[m].place = t
    BY <1>0, <1>2 DEF AllFit, Fits, Boxes
  <2>2. ASSUME NEW n \in Messages PROVE Bound(box, m, t)[n] = box[n]
    <3>1. Bound(box, m, t)[n] =
            IF n = m \/ (box[n] # None /\ box[m].thread = None /\ box[n].place = box[m].place /\ box[n].thread = None)
            THEN Moved(box[n], t) ELSE box[n]
      BY <1>2 DEF Bound, Moved
    <3>2. Moved(box[m], t) = box[m]
      BY <1>2, <2>1, MovedIs
    <3> QED BY <3>1, <3>2, <1>0, <1>2
  <2>3. Bound(box, m, t) = [n \in Messages |-> Bound(box, m, t)[n]]
    BY <1>2 DEF Bound
  <2>4. Bound(box, m, t) = [n \in Messages |-> box[n]]
    BY <2>2, <2>3
  <2> QED BY <2>4 DEF Boxes
<1>3. CASE box[m] # None /\ box[m].thread = None
  <2>1. box[m].place = Draft
    BY <1>3 DEF AllFit, Fits
  <2>2. ASSUME NEW n \in Messages PROVE Bound(box, m, t)[n] = AllBound(box, t)[n]
    <3>1. Bound(box, m, t)[n] =
            IF n = m \/ (box[n] # None /\ box[m].thread = None /\ box[n].place = box[m].place /\ box[n].thread = None)
            THEN Moved(box[n], t) ELSE box[n]
      BY <1>3 DEF Bound, Moved
    <3>2. box[n] # None => (box[n].thread = None <=> box[n].place = Draft)
      BY <1>0, OutboxConstants DEF AllFit, Fits, Boxes, Entry
    <3> QED BY <3>1, <3>2, <1>3, <2>1 DEF AllBound
  <2>3. Bound(box, m, t) = [n \in Messages |-> Bound(box, m, t)[n]]
    BY <1>3 DEF Bound
  <2>4. AllBound(box, t) = [n \in Messages |-> AllBound(box, t)[n]]
    BY DEF AllBound
  <2>5. Bound(box, m, t) = AllBound(box, t)
    BY <2>2, <2>3, <2>4
  <2> QED BY <1>3, <2>1, <2>5
<1> QED BY <1>1, <1>2, <1>3

(* A message that bindAcceptedThread can bind is bound then. *)
LEMMA BoundThread ==
    ASSUME NEW box \in Boxes, NEW m \in Messages, NEW t \in Threads, box[m] # None, box[m].thread \in {None, t}
    PROVE  Bound(box, m, t)[m].thread = t
<1>1. box[m] \in Entry
  BY DEF Boxes
<1>2. Bound(box, m, t)[m] = Moved(box[m], t)
  BY DEF Bound, Moved
<1> QED BY <1>1, <1>2, MovedIs

(* reconcileRuntimeObservation binds the new chat or nothing, and drops what *)
(* the view has.                                                             *)
LEMMA ReconciledIs ==
    ASSUME NEW box \in Boxes, AllFit(box), NEW hand, NEW t \in Threads, NEW seen \in SUBSET Messages,
           NEW r, r = Reconciled(box, hand, t, seen)
    PROVE  /\ r.bound = box \/ ((\E z \in r.matched : box[z] # None /\ box[z].place = Draft) /\ r.bound = AllBound(box, t))
           /\ r.matched \subseteq {n \in seen : box[n] # None}
           /\ r.after = [n \in Messages |-> IF n \in r.matched THEN None ELSE r.bound[n]]
           /\ r.bound \in Boxes /\ r.after \in Boxes /\ AllFit(r.bound) /\ AllFit(r.after)
<1> DEFINE unbound == {m \in Matching(box, hand, t, seen) : box[m].thread = None}
           bound == IF unbound = {} THEN box ELSE Bound(box, CHOOSE m \in unbound : TRUE, t)
           matched == Matching(bound, hand, t, seen)
<1>1. /\ r.bound = bound /\ r.matched = matched
      /\ r.after = [m \in Messages |-> IF m \in matched THEN None ELSE bound[m]]
  BY DEF Reconciled
<1>2. bound = box \/ ((\E z \in matched : box[z] # None /\ box[z].place = Draft) /\ bound = AllBound(box, t))
  <2>1. CASE unbound = {}
    BY <2>1
  <2>2. CASE unbound # {}
    <3> DEFINE z == CHOOSE m \in unbound : TRUE
    <3>1. z \in unbound
      BY <2>2
    <3>2. z \in seen /\ z \in Messages
      BY <3>1 DEF Matching
    <3>3. bound = Bound(box, z, t)
      BY <2>2
    <3> HIDE DEF z, bound, unbound, matched
    <3>4. bound = box \/ (box[z] # None /\ box[z].place = Draft /\ bound = AllBound(box, t))
      BY <3>2, <3>3, BoundIs
    <3>5. ASSUME box[z] # None, box[z].place = Draft, bound = AllBound(box, t)
          PROVE  z \in matched
      <4>1. bound[z] = Moved(box[z], t) /\ box[z] \in Entry
        BY <3>2, <3>5 DEF AllBound, Boxes
      <4>2. bound[z] # None /\ bound[z].thread = t /\ bound[z].place # Draft
        BY <4>1, MovedIs, OutboxConstants
      <4> QED BY <3>2, <4>2 DEF matched, Matching
    <3> QED BY <3>4, <3>5
  <2> QED BY <2>1, <2>2
<1>3. matched \subseteq seen /\ \A n \in matched : bound[n] # None
  BY DEF Matching
<1>4. bound \in Boxes /\ AllFit(bound)
  BY <1>2, AllBoundIs
<1>5. \A n \in Messages : bound[n] # None => box[n] # None
  BY <1>2 DEF AllBound
<1> HIDE DEF bound, matched
<1>6. r.after \in Boxes /\ AllFit(r.after)
  BY <1>1, <1>4 DEF Boxes, AllFit
<1> QED BY <1>1, <1>2, <1>3, <1>4, <1>5, <1>6

-----------------------------------------------------------------------------
(* What steps leave as it was: frames of the parts of the invariant. *)

AddsTo(m) == Later(writes', Len(writes), m)

(* What every step does to the history *)
Grows ==
    /\ doubted \subseteq doubted' /\ Bad \subseteq Bad' /\ unsaved \subseteq unsaved'
    /\ \A t \in Threads : AdmittedTo(t) \subseteq AdmittedTo(t)'
    /\ \A m \in Messages, p \in Threads \cup {Draft} : SentTo(m, p) => SentTo(m, p)'

(* A thread does not cease to exist. *)
LEMMA KnownStays == ASSUME NEW t, t = Home \/ t \in Threads, Grows, Known(t) PROVE Known(t)'
BY DEF Known, Grows, Threads

(* What was true of a copy stays true. *)
LEMMA ValidStays ==
    ASSUME NEW m \in Messages, NEW v \in Entry, Grows, Valid(m, v)
    PROVE  Valid(m, v)'
<1>1. v.place \in Threads \cup {Draft}
  BY DEF Entry
<1>2. v.place # Draft => Known(v.place)'
  BY <1>1, KnownStays DEF Valid
<1>3. SentTo(m, Draft)' \/ SentTo(m, v.place)'
  BY <1>1 DEF Valid, Grows
<1> QED BY <1>2, <1>3 DEF Valid, Grows

(* A message that is clean has been clean. *)
LEMMA CleanStays ==
    ASSUME NEW m \in Messages, Grows, Clean(m)'
    PROVE  Clean(m)
BY DEF Grows, Clean, Bad

(* The copies of an entry after a step that leaves the disk alone. *)
LEMMA ValuesAre ==
    ASSUME Typed, Extends(writes, writes'), NEW m \in Messages, disk'[m] = disk[m]
    PROVE  Values(m)' = {entries'[m], disk[m]} \cup Later(writes, 0, m) \cup AddsTo(m)
<1>1. writes \in Writes /\ writes' \in Writes /\ 0 \in 0..Len(writes)
  BY WritesLen DEF Typed, Extends
<1>2. Later(writes', 0, m) = Later(writes, 0, m) \cup AddsTo(m)
  BY <1>1, LaterSplits DEF AddsTo
<1>3. Values(m)' = {entries'[m], disk'[m]} \cup Later(writes', 0, m)
  BY DEF Values
<1> QED BY <1>2, <1>3

(* Every copy stays true if those that are new are. *)
LEMMA ValidFrame ==
    ASSUME Typed, Grows, Extends(writes, writes'), NEW m \in Messages, disk'[m] = disk[m], ValidAt(m),
           \A v \in {entries'[m]} \cup AddsTo(m) : v \in Values(m) \/ (v \in Entry => Valid(m, v)'),
           entries'[m] \in Entry \cup {None}
    PROVE  ValidAt(m)'
<1>1. writes \in Writes /\ writes' \in Writes
  BY DEF Typed, Extends
<1>2. Values(m) \subseteq Entry \cup {None} /\ AddsTo(m) \subseteq Entry \cup {None}
  BY <1>1, LaterTyped DEF Values, AddsTo, Typed
<1>3. ASSUME NEW v \in Values(m)', v # None PROVE Valid(m, v)'
  <2>1. v \in Values(m) \/ v \in {entries'[m]} \cup AddsTo(m)
    BY ValuesAre DEF Values
  <2>2. v \in Entry
    BY <2>1, <1>2, <1>3
  <2>3. v \in Values(m) => Valid(m, v)'
    BY <2>2, <1>3, ValidStays DEF ValidAt
  <2> QED BY <2>1, <2>2, <2>3
<1> QED BY <1>3 DEF ValidAt

(* A dispatch stays in order if the step changes only the place of a draft. *)
LEMMA StagedFrame ==
    ASSUME Typed, NEW m \in Messages, StagedAt(m), Called(m, dispatch[m]), Extends(writes, writes'),
           entries'[m] # None =>
                /\ entries[m] # None
                /\ dispatch[m] # Idle =>
                    /\ entries'[m].delivery = entries[m].delivery /\ entries'[m].preparing = entries[m].preparing
                    /\ entries'[m].place = entries[m].place \/ entries[m].place = Draft
    PROVE  StagedAt(m)'
<1>1. dispatch[m] \in Calls /\ Len(writes) \in Nat /\ Len(writes') \in Nat /\ Len(writes) <= Len(writes')
  BY WritesLen DEF Typed, Extends
<1>2. Draft \notin Threads /\ None \notin Threads \cup {Draft} /\ Idle.step = "idle"
  BY OutboxConstants DEF Idle
<1>3. CASE dispatch'[m] = Idle
  BY <1>2, <1>3 DEF StagedAt, Waits
<1>4. CASE dispatch'[m] = dispatch[m] /\ entries'[m] # None /\ dispatch[m] # Idle
  <2>1. Waits(dispatch[m]) => dispatch[m].wait \in Nat /\ dispatch[m].thread \in Threads \cup {None}
    BY <1>1, CallKinds
  <2>2. dispatch[m].step = "store" => Waits(dispatch[m])
    BY DEF Waits
  <2>3. dispatch'[m].step = "store" => dispatch'[m].thread \in {None, entries'[m].place}
    BY <1>2, <1>4, <2>1, <2>2 DEF StagedAt
  <2>4. Waits(dispatch'[m]) => dispatch'[m].wait <= Len(writes')
    BY <1>1, <1>4, <2>1 DEF StagedAt
  <2>5. Waits(dispatch[m])' <=> Waits(dispatch'[m])
    BY DEF Waits
  <2> QED BY <1>4, <2>3, <2>4, <2>5 DEF StagedAt
<1>5. CASE entries'[m] # None /\ StartedNow(m)
  <2>1. Waits(dispatch'[m]) /\ dispatch'[m].wait = Len(writes')
    BY <1>5 DEF StartedNow, Waits
  <2> QED BY <1>1, <1>5, <2>1 DEF StagedAt, StartedNow, Waits
<1> QED BY <1>3, <1>4, <1>5 DEF Called

(* Good copies behind good copies. *)
LEMMA GoodFromStays ==
    ASSUME Typed, Extends(writes, writes'), NEW m \in Messages, disk'[m] = disk[m], AddsTo(m) \subseteq Good,
           NEW i \in 0..Len(writes), GoodFrom(i, m)
    PROVE  GoodFrom(i, m)'
<1>1. writes \in Writes /\ writes' \in Writes
  BY DEF Typed, Extends
<1>2. Later(writes', i, m) = Later(writes, i, m) \cup AddsTo(m)
  BY <1>1, LaterSplits DEF AddsTo
<1>3. Val(writes', disk', i, m) = Val(writes', disk, i, m)
  BY DEF Val
<1>4. Val(writes', disk, i, m) = Val(writes, disk, i, m)
  BY <1>1, ValKept
<1> QED BY <1>2, <1>3, <1>4 DEF GoodFrom

(* Durability is kept by a step that prepares nothing and writes only good   *)
(* copies of what waits.                                                     *)
LEMMA SecuredFrame ==
    ASSUME Typed, NEW m \in Messages, StagedAt(m), SecuredAt(m), Grows, Extends(writes, writes'), disk'[m] = disk[m],
           Called(m, dispatch[m]),
           entries'[m] # None /\ entries'[m].delivery = "pending" /\ ~ entries'[m].preparing =>
                /\ entries[m] # None /\ entries[m].delivery = "pending" /\ ~ entries[m].preparing
                /\ AddsTo(m) \subseteq Good
    PROVE  SecuredAt(m)'
<1> SUFFICES ASSUME entries'[m] # None, entries'[m].delivery = "pending", ~ entries'[m].preparing
             PROVE  /\ m \notin unsaved' => \E i \in 0..(Due(m)') : GoodFrom(i, m)'
                    /\ m \notin Bad' =>
                        /\ dispatch'[m].step \in {"store", "request"}
                        /\ dispatch'[m].step = "request" => GoodFrom(0, m)'
                        /\ dispatch'[m].step = "store" =>
                            \/ dispatch'[m].wait > 0 /\ (\E k \in Nat : k = dispatch'[m].wait /\ GoodFrom(k, m)')
                            \/ /\ dispatch'[m].wait = 0 /\ Later(writes', 0, m) \subseteq Good
                               /\ dispatch'[m].ok => disk'[m] \in Good
  BY DEF SecuredAt, GoodFrom
<1>1. /\ entries[m] # None /\ entries[m].delivery = "pending" /\ ~ entries[m].preparing
      /\ AddsTo(m) \subseteq Good
  OBVIOUS
<1>2. dispatch[m] \in Calls /\ Len(writes) \in Nat /\ Len(writes') \in Nat /\ Len(writes) <= Len(writes')
      /\ writes \in Writes /\ writes' \in Writes
  BY WritesLen DEF Typed, Extends
<1>3. ASSUME NEW i \in 0..Len(writes), GoodFrom(i, m) PROVE GoodFrom(i, m)'
  BY <1>1, <1>3, GoodFromStays
<1>4. Waits(dispatch[m]) => dispatch[m].wait \in 0..Len(writes)
  BY <1>2, CallKinds DEF StagedAt
<1>5. Due(m) \in 0..Len(writes)
  BY <1>2, <1>4, CallKinds DEF Due, Waits
<1>6. Due(m)' >= Due(m) /\ Due(m)' \in Nat
  <2>1. CASE dispatch'[m] = dispatch[m]
    BY <1>2, <1>4, <1>5, <2>1 DEF Due, Waits
  <2>2. CASE StartedNow(m)
    <3>1. Due(m)' = Len(writes')
      BY <2>2 DEF Due, StartedNow, Idle
    <3> QED BY <3>1, <1>2, <1>5
  <2> QED BY <2>1, <2>2 DEF Called
<1>7. m \notin unsaved' => \E i \in 0..(Due(m)') : GoodFrom(i, m)'
  <2> SUFFICES ASSUME m \notin unsaved' PROVE \E i \in 0..(Due(m)') : GoodFrom(i, m)'
    OBVIOUS
  <2>1. PICK i \in 0..Due(m) : GoodFrom(i, m)
    BY <1>1 DEF SecuredAt, Grows
  <2>2. i \in 0..Len(writes) /\ i \in 0..(Due(m)')
    BY <1>5, <1>6
  <2> QED BY <1>3, <2>1, <2>2
<1>8. ASSUME m \notin Bad'
      PROVE  /\ dispatch'[m].step \in {"store", "request"}
             /\ dispatch'[m].step = "request" => GoodFrom(0, m)'
             /\ dispatch'[m].step = "store" =>
                    \/ dispatch'[m].wait > 0 /\ (\E k \in Nat : k = dispatch'[m].wait /\ GoodFrom(k, m)')
                    \/ /\ dispatch'[m].wait = 0 /\ Later(writes', 0, m) \subseteq Good
                       /\ dispatch'[m].ok => disk'[m] \in Good
  <2>1. m \notin Bad
    BY <1>8 DEF Grows
  <2>2. /\ dispatch[m].step \in {"store", "request"}
        /\ dispatch[m].step = "request" => GoodFrom(0, m)
        /\ dispatch[m].step = "store" =>
            \/ dispatch[m].wait > 0 /\ GoodFrom(dispatch[m].wait, m)
            \/ dispatch[m].wait = 0 /\ Later(writes, 0, m) \subseteq Good /\ (dispatch[m].ok => disk[m] \in Good)
    BY <1>1, <2>1 DEF SecuredAt
  <2>3. dispatch'[m] = dispatch[m]
    BY <2>2 DEF Called, Idle
  <2>4. Later(writes', 0, m) = Later(writes, 0, m) \cup AddsTo(m)
    BY <1>2, LaterSplits DEF AddsTo
  <2>5. 0 \in 0..Len(writes)
    BY <1>2
  <2>6. CASE dispatch[m].step = "request"
    BY <2>2, <2>3, <2>5, <2>6, <1>3
  <2>7. CASE dispatch[m].step = "store"
    <3>1. dispatch[m].wait \in 0..Len(writes) /\ dispatch[m].wait \in Nat
      BY <2>7, <1>4, <1>2 DEF Waits
    <3> QED BY <2>2, <2>3, <2>4, <2>7, <3>1, <1>1, <1>3
  <2> QED BY <2>2, <2>6, <2>7
<1> QED BY <1>7, <1>8

(* One launch stays one if the step launches, admits and takes back nothing. *)
LEMMA SingleFrame ==
    ASSUME Typed, NEW m \in Messages, SingleAt(m), Grows, Extends(writes, writes'),
           Clean(m)' /\ Launched(m)' =>
                /\ Launched(m) /\ (Admitted(m)' => Admitted(m))
                /\ m \in removed' => m \in removed
                /\ entries'[m] # None /\ entries[m] # None =>
                    /\ entries'[m].preparing = entries[m].preparing
                    /\ \/ entries'[m].delivery = "accepted"
                       \/ entries'[m].delivery = entries[m].delivery /\ dispatch'[m] = dispatch[m]
                /\ entries'[m] # None => entries[m] # None
                /\ disk'[m] = disk[m] /\ AddsTo(m) \subseteq Late
                /\ \A w \in wire' : w.m = m => \E x \in wire : x.m = m /\ (x.taken => w.taken)
                /\ \A w, x \in wire' : w.m = m /\ x.m = m /\ w # x =>
                        \E y, z \in wire : y # z /\ y.m = m /\ z.m = m
    PROVE  SingleAt(m)'
<1> SUFFICES ASSUME Clean(m)', Launched(m)'
             PROVE  /\ m \notin removed'
                    /\ entries'[m] # None =>
                        /\ ~ entries'[m].preparing
                        /\ entries'[m].delivery = "accepted" \/ dispatch'[m].step = "request"
                    /\ disk'[m] \in Late /\ Later(writes', 0, m) \subseteq Late
                    /\ \A w \in wire' : w.m = m =>
                        /\ ~ w.taken => ~ Admitted(m)'
                        /\ \A x \in wire' : x.m = m => x = w
  BY DEF SingleAt
<1>1. Clean(m) /\ Launched(m)
  BY CleanStays
<1>2. /\ m \notin removed
      /\ entries[m] # None =>
            ~ entries[m].preparing /\ (entries[m].delivery = "accepted" \/ dispatch[m].step = "request")
      /\ disk[m] \in Late /\ Later(writes, 0, m) \subseteq Late
      /\ \A w \in wire : w.m = m =>
            /\ ~ w.taken => ~ Admitted(m)
            /\ \A x \in wire : x.m = m => x = w
  BY <1>1 DEF SingleAt
<1>3. writes \in Writes /\ writes' \in Writes /\ 0 \in 0..Len(writes)
  BY WritesLen DEF Typed, Extends
<1>4. Later(writes', 0, m) \subseteq Late
  BY <1>2, <1>3, LaterSplits DEF AddsTo
<1>5. ASSUME NEW w \in wire', w.m = m
      PROVE  (~ w.taken => ~ Admitted(m)') /\ \A x \in wire' : x.m = m => x = w
  BY <1>2, <1>5
<1> QED BY <1>2, <1>4, <1>5

(* Steps that admit nothing, launch nothing and leave everything in its place *)
Quiet ==
    /\ threads' = threads /\ sent' = sent
    /\ \A n \in Messages :
        /\ entries'[n] = None \/ (entries[n] # None /\ entries'[n].place = entries[n].place)
        /\ dispatch[n] = Idle => dispatch'[n] = Idle \/ (entries'[n] # None /\ StartedNow(n))
        /\ Waiting(n)' => Waiting(n)
    /\ entries' \in Boxes
    /\ order' = Kept(entries', order)
    /\ \A w \in wire' : \E x \in wire : x.m = w.m /\ x.thread = w.thread

(* What is left of an order is an order. *)
LEMMA QuietOrder ==
    ASSUME NEW ord, NEW S, ord \in Orders(S), NEW box, NEW R \in SUBSET S,
           R = {m \in S : box[m] # None}
    PROVE  Kept(box, ord) \in Orders(R)
<1>1. Kept(box, ord) \subseteq R \X R
  BY DEF Kept, Orders
<1>2. \A m \in R, n \in R : Before(Kept(box, ord), m, n) <=> Before(ord, m, n)
  BY DEF Kept, Before
<1> QED BY <1>1, <1>2 DEF Orders

(* The address of a request. *)
LEMMA AddressedIs == ASSUME NEW w, NEW x, w.m = x.m, w.thread = x.thread PROVE Addressed(w) = Addressed(x)
BY DEF Addressed

(* A quiet step leaves what it retains in its place. *)
LEMMA QuietPlaces ==
    ASSUME Inv, Quiet, NEW m \in Messages, entries'[m] # None
    PROVE  entries[m] # None /\ entries'[m].place = entries[m].place
BY DEF Quiet

(* A quiet step launches nothing. *)
LEMMA QuietLaunched ==
    ASSUME Quiet, NEW n \in Messages
    PROVE  /\ Launched(n)' => Launched(n)
           /\ Admitted(n)' <=> Admitted(n)
           /\ \A t \in Threads : NotIn(n, t) => NotIn(n, t)'
<1>1. OnWire(n)' => OnWire(n)
  BY DEF Quiet, OnWire
<1>2. \A t \in Threads : AdmittedTo(t)' = AdmittedTo(t)
  BY DEF Quiet, AdmittedTo
<1>3. Admitted(n)' <=> Admitted(n)
  BY <1>2 DEF Admitted
<1>4. ASSUME NEW t \in Threads, NotIn(n, t) PROVE NotIn(n, t)'
  <2>1. n \notin AdmittedTo(t)'
    BY <1>2, <1>4 DEF NotIn
  <2>2. ASSUME NEW w \in wire', w.m = n PROVE Addressed(w) # t
    <3>1. PICK x \in wire : x.m = w.m /\ x.thread = w.thread
      BY DEF Quiet
    <3> QED BY <1>4, <2>2, <3>1, AddressedIs DEF NotIn
  <2> QED BY <2>1, <2>2 DEF NotIn, Addressed
<1> QED BY <1>1, <1>3, <1>4 DEF Launched

(* Where an entry may be. *)
LEMMA PlaceTyped ==
    ASSUME Typed, NEW m \in Messages, entries[m] # None
    PROVE  entries[m] \in Entry /\ entries[m].place \in Threads \cup {Draft} /\ entries[m].thread \in Threads \cup {None}
BY DEF Typed, Entry

(* A quiet step keeps the lines of the threads. *)
LEMMA QuietKeeps ==
    ASSUME Inv, Quiet
    PROVE  Lined' /\ ThreadsKnown' /\ InLine' /\ Apart' /\ (Grows => OrderKept')
<1>0. Typed
  BY DEF Inv
<1>1. Lined'
  <2>1. Retained' = {m \in Retained : entries'[m] # None}
    BY DEF Retained, Quiet
  <2>2. order' \in Orders(Retained')
    BY <2>1, QuietOrder DEF Quiet, Inv, Lined
  <2> QED BY <2>2 DEF Lined
<1>2. ThreadsKnown'
  <2>1. \A t : Known(t) => Known(t)'
    BY DEF Known, AdmittedTo, Quiet
  <2> QED BY <2>1 DEF ThreadsKnown, Quiet, Inv
<1>3. ASSUME NEW m \in Messages, NEW n \in Messages PROVE InLineAt(m, n)'
  <2> SUFFICES ASSUME Waiting(m)', SentBefore(m, n)' PROVE Ahead(m, n)'
    BY DEF InLineAt
  <2>1. Ahead(m, n)
    BY DEF Inv, InLine, InLineAt, Quiet, SentBefore
  <2>2. entries'[m] # None /\ entries[m] # None /\ entries'[m].place = entries[m].place
    BY QuietPlaces DEF Waiting
  <2>3. entries[m].place \in Threads \cup {Draft}
    BY <1>0, <2>2, PlaceTyped
  <2>4. ASSUME entries'[n] # None, entries'[n].place = entries'[m].place
        PROVE  Before(order', m, n) /\ dispatch'[n] = Idle
    <3>1. entries[n] # None /\ entries[n].place = entries[m].place
      BY <2>2, <2>4, QuietPlaces
    <3>2. Before(order, m, n) /\ dispatch[n] = Idle
      BY <2>1, <3>1 DEF Ahead
    <3>3. Before(order', m, n)
      BY <2>2, <2>4, <3>2 DEF Quiet, Kept, Before
    <3>4. Open(entries'[m])
      BY DEF Waiting, Open
    <3>5. ~ StartedNow(n)
      BY <2>2, <2>4, <3>3, <3>4 DEF StartedNow
    <3> QED BY <3>2, <3>3, <3>5 DEF Quiet
  <2>5. ASSUME entries'[m].place = Draft
        PROVE  ~ Launched(n)' /\ (entries'[n] # None => entries'[n].place = Draft)
    BY <2>1, <2>2, <2>5, QuietLaunched, QuietPlaces DEF Ahead
  <2>6. ASSUME entries'[m].place # Draft PROVE NotIn(n, entries[m].place)'
    BY <2>1, <2>2, <2>3, <2>6, QuietLaunched DEF Ahead
  <2>7. entries'[m].place # Draft => \E t : t = entries'[m].place /\ NotIn(n, t)'
    <3> SUFFICES ASSUME entries'[m].place # Draft PROVE NotIn(n, entries[m].place)'
      BY <2>2
    <3> QED BY <2>6
  <2> QED BY <2>4, <2>5, <2>7 DEF Ahead
<1>4. ASSUME NEW m \in Messages, NEW n \in Messages PROVE ApartAt(m, n)'
  <2> SUFFICES ASSUME Waiting(m)', SentTo(m, Draft)', entries'[m].place # Draft,
                      entries'[n] # None, entries'[n].place = Draft
               PROVE  n # entries'[m].place /\ \E t : t = entries'[m].place /\ NotIn(n, t)'
    BY DEF ApartAt
  <2>1. entries'[m] # None /\ entries[m] # None /\ entries'[m].place = entries[m].place
    BY QuietPlaces DEF Waiting
  <2>2. entries[n] # None /\ entries[n].place = Draft
    BY QuietPlaces
  <2>3. Waiting(m) /\ SentTo(m, Draft)
    BY DEF Quiet, SentTo
  <2>4. n # entries[m].place /\ NotIn(n, entries[m].place)
    BY <2>1, <2>2, <2>3 DEF Inv, Apart, ApartAt
  <2>5. entries[m].place \in Threads
    BY <1>0, <2>1, PlaceTyped
  <2> QED BY <2>1, <2>4, <2>5, QuietLaunched
<1>5. ASSUME Grows PROVE OrderKept'
  BY <1>5 DEF Grows, Quiet, OrderKept, Inv, SentBefore, Bad
<1> QED BY <1>1, <1>2, <1>3, <1>4, <1>5 DEF InLine, Apart

-----------------------------------------------------------------------------
(* Steps of one message. *)

(* One change of the outbox: its write, and the dispatcher behind it. *)
LEMMA OnePut ==
    ASSUME Typed, NEW box \in Boxes, NEW ord \in SUBSET (Messages \X Messages), NEW hand \in SUBSET Messages,
           NEW calls \in [Messages -> Calls],
           Dispatcher(box, ord, hand, calls, Persist(writes, entries, box))
    PROVE  /\ entries' = box /\ order' = Kept(box, ord)
           /\ order' \subseteq Messages \X Messages
           /\ latest' \in BOOLEAN
           /\ handoffs' \subseteq Retained'
           /\ dispatch' \in [Messages -> Calls]
           /\ \A n \in Messages : Called(n, calls[n])
           /\ Extends(writes, writes')
           /\ \A n \in Messages :
                /\ AddsTo(n) = IF entries[n] # box[n] THEN {box[n]} ELSE {}
                /\ entries[n] # box[n] =>
                    /\ Len(writes') = Len(writes) + 1
                    /\ Val(writes', disk', Len(writes'), n) = box[n]
<1>1. writes \in Writes /\ entries \in [Messages -> Entry \cup {None}] /\ latest \in BOOLEAN
  BY DEF Typed
<1>2. box \in [Messages -> Entry \cup {None}]
  BY DEF Boxes
<1>3. Persist(writes, entries, box) \in Writes
  BY <1>1, <1>2, PersistTyped
<1>4. /\ entries' = box /\ order' = Kept(box, ord) /\ writes' = Persist(writes, entries, box)
      /\ order' \subseteq Messages \X Messages
      /\ latest' \in BOOLEAN
      /\ handoffs' \subseteq {m \in Messages : entries'[m] # None} \cup hand
      /\ \A m \in handoffs' : box[m] # None
      /\ dispatch' \in [Messages -> Calls]
      /\ \A m \in Messages : Called(m, calls[m])
  BY <1>1, <1>3, DispatcherEffect
<1>5. handoffs' \subseteq Retained'
  BY <1>4 DEF Retained
<1>6. /\ Extends(writes, writes')
      /\ \A n \in Messages :
            /\ AddsTo(n) = IF entries[n] # box[n] THEN {box[n]} ELSE {}
            /\ entries[n] # box[n] =>
                /\ Len(writes') = Len(writes) + 1
                /\ Val(writes', disk', Len(writes'), n) = box[n]
  BY <1>1, <1>2, <1>4, PersistAdds DEF AddsTo
<1> QED BY <1>4, <1>5, <1>6

(* The put of one entry. *)
LEMMA PutEffect ==
    ASSUME Typed, NEW m \in Messages, NEW e \in Entry, NEW hand \in SUBSET handoffs, PutWith(hand, m, e)
    PROVE  /\ entries' = [entries EXCEPT ![m] = e] /\ entries' \in Boxes
           /\ order' = Kept(entries', order)
           /\ order' \subseteq Messages \X Messages
           /\ latest' \in BOOLEAN
           /\ handoffs' \subseteq Retained'
           /\ dispatch' \in [Messages -> Calls]
           /\ \A n \in Messages : n # m => Called(n, dispatch[n]) /\ AddsTo(n) = {} /\ entries'[n] = entries[n]
           /\ Called(m, Idle) /\ AddsTo(m) \subseteq {e} /\ entries'[m] = e
           /\ Extends(writes, writes')
           /\ entries[m] # e => Len(writes') = Len(writes) + 1 /\ Val(writes', disk', Len(writes'), m) = e
<1> DEFINE box == [entries EXCEPT ![m] = e]
           calls == [dispatch EXCEPT ![m] = Idle]
<1>1. box \in Boxes /\ \A n \in Messages : box[n] = IF n = m THEN e ELSE entries[n]
  BY DEF Typed, Boxes
<1>2. calls \in [Messages -> Calls] /\ \A n \in Messages : calls[n] = IF n = m THEN Idle ELSE dispatch[n]
  BY DEF Typed, Calls, Idle
<1>3. Dispatcher(box, order, hand, calls, Persist(writes, entries, box))
  BY DEF PutWith
<1>4. order \in SUBSET (Messages \X Messages) /\ hand \in SUBSET Messages
  BY DEF Typed, Retained
<1> HIDE DEF box, calls
<1>5. /\ entries' = box /\ order' = Kept(box, order)
      /\ order' \subseteq Messages \X Messages
      /\ latest' \in BOOLEAN
      /\ handoffs' \subseteq Retained'
      /\ dispatch' \in [Messages -> Calls]
      /\ \A n \in Messages : Called(n, calls[n])
      /\ Extends(writes, writes')
      /\ \A n \in Messages :
            /\ AddsTo(n) = IF entries[n] # box[n] THEN {box[n]} ELSE {}
            /\ entries[n] # box[n] =>
                /\ Len(writes') = Len(writes) + 1
                /\ Val(writes', disk', Len(writes'), n) = box[n]
  BY <1>1, <1>2, <1>3, <1>4, OnePut
<1>6. entries' = [entries EXCEPT ![m] = e]
  BY <1>5 DEF box
<1> QED BY <1>1, <1>2, <1>5, <1>6

(* What is in the outbox was sent. *)
LEMMA RetainedIsSent ==
    ASSUME Inv, NEW m \in Messages, entries[m] # None
    PROVE  Sent(m)
BY DEF Inv, SentOnce, Values

(* Steps that send nothing. *)
LEMMA SameSent == ASSUME sent' = sent PROVE \A m, p : (SentTo(m, p)' <=> SentTo(m, p)) /\ (Sent(m)' <=> Sent(m))
BY DEF Sent, SentTo

(* Steps that admit nothing. *)
LEMMA SameThreads ==
    ASSUME threads' = threads
    PROVE  /\ \A t : AdmittedTo(t)' = AdmittedTo(t)
           /\ \A m : Admitted(m)' <=> Admitted(m)
BY DEF AdmittedTo, Admitted

(* A step of one message *)
LEMMA AtOneKeeps ==
    ASSUME Inv, NEW m \in Messages, Grows, Quiet, Typed', entries[m] # None,
           restoring' = restoring, disk' = disk, threads' = threads, sent' = sent, early' = early,
           unsaved' = unsaved, Extends(writes, writes'),
           \A n \in Messages : n # m => Called(n, dispatch[n]) /\ AddsTo(n) = {} /\ entries'[n] = entries[n],
           StagedAt(m)', ValidAt(m)', SecuredAt(m)', SingleAt(m)',
           removed' \subseteq removed \cup {m}, doubted' \subseteq doubted \cup {m}, refused' \subseteq refused \cup {m},
           \A w \in wire' : w.m # m => w \in wire,
           \A w \in wire' : w.m = m =>
                /\ ~ w.awaited /\ ~ w.taken
                /\ \E x \in wire : x.m = m /\ x.thread = w.thread /\ (~ x.awaited \/ m \in doubted'),
           restoring /\ dispatch'[m] # Idle => dispatch'[m].step = "capture" /\ dispatch'[m].wait > 0,
           entries'[m] # None /\ entries'[m].delivery = "pending" => m \notin removed'
    PROVE  Inv'
<1>0. Typed /\ Staged /\ Answered /\ AllValid /\ SentOnce /\ Secured /\ Single /\ Lost /\ Resuming
  BY DEF Inv
<1>2. wire' \subseteq Requests /\ entries' \in Boxes
  BY DEF Typed, Quiet
<1>6. Lined' /\ ThreadsKnown' /\ InLine' /\ Apart' /\ OrderKept'
  BY QuietKeeps
<1>7. ASSUME NEW n \in Messages, n # m PROVE StagedAt(n)'
  BY <1>7, <1>0, StagedFrame DEF Staged
<1>8. Answered'
  <2>1. ASSUME NEW w \in wire', w.awaited
        PROVE  /\ dispatch'[w.m].step = "request"
               /\ w.thread \in {None, entries'[w.m].place}
               /\ \A x \in wire' : x.awaited /\ x.m = w.m => x = w
    <3>1. w.m # m /\ w \in wire /\ w.m \in Messages
      BY <2>1, <1>2 DEF Requests
    <3>2. /\ dispatch[w.m].step = "request"
          /\ w.thread \in {None, entries[w.m].place}
          /\ \A x \in wire : x.awaited /\ x.m = w.m => x = w
      BY <1>0, <2>1, <3>1 DEF Answered
    <3>3. entries'[w.m] = entries[w.m] /\ entries[w.m] # None /\ dispatch[w.m] # Idle
      BY <1>0, <3>1, <3>2 DEF Staged, StagedAt, Idle
    <3>4. dispatch'[w.m] = dispatch[w.m]
      BY <3>1, <3>3 DEF Called
    <3> QED BY <3>1, <3>2, <3>3, <3>4
  <2>2. ASSUME NEW w \in wire', w.taken
        PROVE  w.awaited /\ w.m \in AdmittedTo(Addressed(w))'
    <3>1. w.m # m /\ w \in wire
      BY <2>2
    <3>2. w.awaited /\ w.m \in AdmittedTo(Addressed(w))
      BY <1>0, <2>2, <3>1 DEF Answered
    <3> QED BY <3>2 DEF AdmittedTo, Addressed
  <2> QED BY <2>1, <2>2 DEF Answered, Addressed
<1>9. ASSUME NEW n \in Messages, n # m PROVE ValidAt(n)'
  <2>1. ValidAt(n) /\ disk'[n] = disk[n] /\ entries'[n] \in Entry \cup {None}
    BY <1>0, <1>2 DEF AllValid, Boxes
  <2>2. \A v \in {entries'[n]} \cup AddsTo(n) : v \in Values(n) \/ (v \in Entry => Valid(n, v)')
    BY <1>9 DEF Values
  <2> QED BY <1>0, <2>1, <2>2, ValidFrame
<1>10. SentOnce'
  <2>1. ASSUME NEW n \in Messages,
               \/ Launched(n)' \/ n \in removed' \cup doubted' \cup refused'
               \/ \E v \in Values(n)' : v # None
        PROVE  Sent(n)'
    <3>1. CASE n = m
      BY <3>1, RetainedIsSent, SameSent
    <3>2. CASE n # m
      <4>1. Launched(n)' => Launched(n)
        BY QuietLaunched
      <4>2. Values(n)' = Values(n)
        BY <1>0, <3>2, ValuesAre DEF Values
      <4>3. Sent(n)
        BY <1>0, <2>1, <3>2, <4>1, <4>2 DEF SentOnce
      <4> QED BY <4>3, SameSent
    <3> QED BY <3>1, <3>2
  <2>2. \A i, j \in DOMAIN sent' : sent'[i].m = sent'[j].m => i = j
    BY <1>0 DEF SentOnce
  <2> QED BY <2>1, <2>2 DEF SentOnce
<1>11. ASSUME NEW n \in Messages, n # m PROVE SecuredAt(n)'
  <2>1. StagedAt(n) /\ SecuredAt(n) /\ disk'[n] = disk[n]
    BY <1>0 DEF Staged, Secured
  <2> QED BY <2>1, <1>0, <1>11, SecuredFrame
<1>12. ASSUME NEW n \in Messages, n # m PROVE SingleAt(n)'
  <2> SUFFICES ASSUME Clean(n)', Launched(n)' PROVE SingleAt(n)'
    BY DEF SingleAt
  <2>1. SingleAt(n) /\ Clean(n) /\ Launched(n) /\ (Admitted(n)' => Admitted(n))
    BY <1>0, CleanStays, QuietLaunched DEF Single
  <2>2. \A w \in wire' : w.m = n => w \in wire
    BY <1>12
  <2>3. entries'[n] = entries[n] /\ AddsTo(n) = {} /\ disk'[n] = disk[n] /\ Called(n, dispatch[n])
    BY <1>12
  <2>4. entries'[n] # None => entries'[n].delivery = "accepted" \/ dispatch'[n] = dispatch[n]
    BY <2>1, <2>3 DEF SingleAt, Called, Idle
  <2> QED BY <1>0, <2>1, <2>2, <2>3, <2>4, SingleFrame
<1>13. Lost'
  <2> SUFFICES ASSUME NEW w \in wire', ~ w.awaited, w.m \notin Bad'
               PROVE  /\ restoring' /\ entries'[w.m] = None /\ disk'[w.m] \in Good
                      /\ \A n \in Messages : SentBefore(w.m, n)' => NotIn(n, Addressed(w))'
    BY DEF Lost, Addressed
  <2>1. w.m # m
    <3> SUFFICES ASSUME w.m = m PROVE FALSE
      OBVIOUS
    <3>1. PICK x \in wire : x.m = m /\ x.thread = w.thread /\ (~ x.awaited \/ m \in doubted')
      OBVIOUS
    <3> QED BY <3>1, <1>0 DEF Lost, Bad, Grows
  <2>2. w \in wire /\ w.m \in Messages /\ w.m \notin Bad
    BY <2>1, <1>2 DEF Requests, Grows
  <2>3. /\ restoring /\ entries[w.m] = None /\ disk[w.m] \in Good
        /\ \A n \in Messages : SentBefore(w.m, n) => NotIn(n, Addressed(w))
    BY <2>2, <1>0 DEF Lost
  <2>4. Addressed(w) \in Threads
    BY <1>2, <2>2 DEF Addressed, Requests, Threads
  <2>5. ASSUME NEW n \in Messages, SentBefore(w.m, n)' PROVE NotIn(n, Addressed(w))'
    <3>1. NotIn(n, Addressed(w))
      BY <2>3, <2>5 DEF SentBefore
    <3>2. \A t \in Threads : NotIn(n, t) => NotIn(n, t)'
      BY QuietLaunched
    <3> QED BY <2>4, <3>1, <3>2 DEF Addressed
  <2> QED BY <2>1, <2>2, <2>3, <2>5
<1>14. Resuming'
  <2> SUFFICES ASSUME restoring
               PROVE  /\ \A n \in Messages : entries'[n] # None =>
                            /\ disk'[n] = None /\ ~ Launched(n)' /\ SentTo(n, entries[n].place)' /\ writes' # <<>>
                            /\ dispatch'[n] # Idle => dispatch'[n].step = "capture" /\ dispatch'[n].wait > 0
                            /\ \A o \in Messages : disk'[o] # None => ~ SentBefore(n, o)'
                      /\ \A n \in Messages : Later(writes', 0, n) # {} => disk'[n] = None
    BY DEF Resuming
  <2>1. writes \in Writes /\ writes' \in Writes /\ Len(writes) \in Nat /\ Len(writes') \in Nat /\ Len(writes) <= Len(writes')
    BY <1>0, WritesLen DEF Typed, Extends
  <2>2. ASSUME NEW n \in Messages, entries'[n] # None
        PROVE  /\ disk'[n] = None /\ ~ Launched(n)' /\ SentTo(n, entries[n].place)' /\ writes' # <<>>
               /\ dispatch'[n] # Idle => dispatch'[n].step = "capture" /\ dispatch'[n].wait > 0
               /\ \A o \in Messages : disk'[o] # None => ~ SentBefore(n, o)'
    <3>1. entries[n] # None /\ entries'[n].place = entries[n].place
      BY <2>2 DEF Quiet
    <3>2. /\ disk[n] = None /\ ~ Launched(n) /\ SentTo(n, entries[n].place) /\ writes # <<>>
          /\ dispatch[n] # Idle => dispatch[n].step = "capture" /\ dispatch[n].wait > 0
          /\ \A o \in Messages : disk[o] # None => ~ SentBefore(n, o)
      BY <3>1, <1>0 DEF Resuming
    <3>3. ~ Launched(n)' /\ SentTo(n, entries[n].place)'
      BY <3>1, <3>2, QuietLaunched DEF SentTo
    <3>4. Len(writes) > 0
      BY <2>1, <3>2 DEF Writes
    <3>5. writes' # <<>>
      BY <2>1, <3>4
    <3>6. dispatch'[n] # Idle => dispatch'[n].step = "capture" /\ dispatch'[n].wait > 0
      <4>1. n # m => Called(n, dispatch[n])
        OBVIOUS
      <4>2. Len(writes') > 0
        BY <2>1, <3>4
      <4> QED BY <2>1, <2>2, <3>2, <4>1, <4>2 DEF Called, StartedNow
    <3>7. \A o \in Messages : disk'[o] # None => ~ SentBefore(n, o)'
      BY <3>2 DEF SentBefore
    <3> QED BY <3>2, <3>3, <3>5, <3>6, <3>7
  <2>3. ASSUME NEW n \in Messages, Later(writes', 0, n) # {} PROVE disk'[n] = None
    <3>1. CASE n = m
      BY <3>1, <1>0 DEF Resuming
    <3>2. CASE n # m
      <4>1. Later(writes', 0, n) = Later(writes, 0, n) \cup AddsTo(n)
        BY <2>1, LaterSplits DEF AddsTo
      <4> QED BY <4>1, <3>2, <1>0, <2>3 DEF Resuming
    <3> QED BY <3>1, <3>2
  <2> QED BY <2>2, <2>3
<1>15. Unremoved'
  BY DEF Unremoved, Inv
<1> QED BY <1>6, <1>7, <1>8, <1>9, <1>10, <1>11, <1>12, <1>13, <1>14, <1>15 DEF Inv, Staged, AllValid, Secured, Single

(* A put that changes the delivery of one message, and what it may know of   *)
(* its requests.                                                             *)
LEMMA PutKeeps ==
    ASSUME Inv, NEW m \in Messages, NEW e \in Entry, NEW hand \in SUBSET handoffs, PutWith(hand, m, e),
           entries[m] # None,
           e.place = entries[m].place, e.thread = entries[m].thread, e.preparing = entries[m].preparing,
           e.delivery = "pending" => m \in Bad /\ dispatch[m] = Idle /\ entries[m].delivery # "pending",
           Valid(m, e)',
           restoring' = restoring, disk' = disk, threads' = threads, sent' = sent, early' = early,
           unsaved' = unsaved, faults' \in 0..MaxFaults,
           removed' \subseteq removed,
           doubted \subseteq doubted', doubted' \subseteq doubted \cup {m},
           Bad \subseteq Bad', refused' \subseteq refused \cup {m},
           wire' \subseteq Requests,
           \A w \in wire' : w.m # m => w \in wire,
           \A w \in wire' : w.m = m =>
                /\ ~ w.awaited /\ ~ w.taken
                /\ \E x \in wire : x.m = m /\ x.thread = w.thread /\ (~ x.awaited \/ m \in doubted'),
           Clean(m)' => ~ Launched(m)',
           e.delivery = "pending" => m \notin removed'
    PROVE  Inv'
<1>0. Typed /\ Staged /\ Answered /\ AllValid /\ SentOnce /\ Secured /\ Single /\ Lost /\ Resuming
  BY DEF Inv
<1>1. /\ entries' = [entries EXCEPT ![m] = e] /\ entries' \in Boxes
      /\ order' = Kept(entries', order)
      /\ order' \subseteq Messages \X Messages
      /\ latest' \in BOOLEAN
      /\ handoffs' \subseteq Retained'
      /\ dispatch' \in [Messages -> Calls]
      /\ \A n \in Messages : n # m => Called(n, dispatch[n]) /\ AddsTo(n) = {} /\ entries'[n] = entries[n]
      /\ Called(m, Idle) /\ AddsTo(m) \subseteq {e} /\ entries'[m] = e
      /\ Extends(writes, writes')
      /\ entries[m] # e => Len(writes') = Len(writes) + 1 /\ Val(writes', disk', Len(writes'), m) = e
  BY <1>0, PutEffect
<1>2. Grows
  BY SameSent, SameThreads DEF Grows
<1>3. Typed'
  <2>1. writes' \in Writes
    BY <1>1 DEF Extends
  <2>2. removed' \subseteq Messages /\ doubted' \subseteq Messages /\ refused' \subseteq Messages
    BY <1>0 DEF Typed
  <2> QED BY <1>0, <1>1, <2>1, <2>2 DEF Typed, Boxes
<1>4. e # None
  BY OutboxConstants
<1>5. Quiet
  <2>1. ASSUME NEW n \in Messages
        PROVE  /\ entries'[n] = None \/ (entries[n] # None /\ entries'[n].place = entries[n].place)
               /\ dispatch[n] = Idle => dispatch'[n] = Idle \/ (entries'[n] # None /\ StartedNow(n))
               /\ Waiting(n)' => Waiting(n)
    <3>1. CASE n = m
      BY <3>1, <1>1, <1>2, <1>4 DEF Called, Waiting, Grows
    <3>2. CASE n # m
      BY <3>2, <1>1, <1>2 DEF Called, Waiting, Grows
    <3> QED BY <3>1, <3>2
  <2> QED BY <1>1, <2>1 DEF Quiet
<1>7. StagedAt(m)'
  <2>1. dispatch'[m] = Idle => StagedAt(m)'
    BY DEF StagedAt, Waits, Idle
  <2>2. StartedNow(m) => StagedAt(m)'
    <3>1. Len(writes') \in Nat
      BY <1>1, WritesLen DEF Extends
    <3> QED BY <3>1 DEF StagedAt, Waits, StartedNow
  <2> QED BY <1>1, <1>4, <2>1, <2>2 DEF Called
<1>9. ValidAt(m)'
  <2>1. ValidAt(m) /\ disk'[m] = disk[m] /\ entries'[m] \in Entry \cup {None}
    BY <1>0, <1>1 DEF AllValid, Boxes
  <2>2. \A v \in {entries'[m]} \cup AddsTo(m) : v \in Values(m) \/ (v \in Entry => Valid(m, v)')
    BY <1>1
  <2> QED BY <1>0, <1>1, <1>2, <2>1, <2>2, ValidFrame
<1>11. SecuredAt(m)'
  <2> SUFFICES ASSUME e.delivery = "pending", ~ e.preparing
               PROVE  m \in Bad' /\ \E i \in 0..(Due(m)') : GoodFrom(i, m)'
    BY <1>1 DEF SecuredAt
  <2>1. m \in Bad'
    BY <1>2 DEF Grows
  <2>2. entries[m] # e
    OBVIOUS
  <2>3. Len(writes') \in Nat /\ writes' \in Writes
    BY <1>1, WritesLen DEF Extends
  <2>4. Due(m)' = Len(writes')
    BY <1>1, <1>4 DEF Called, Due, StartedNow, Idle
  <2>5. e \in Good
    BY DEF Good
  <2>6. GoodFrom(Len(writes), m)' <=> Val(writes', disk', Len(writes'), m) \in Good /\ Later(writes', Len(writes'), m) \subseteq Good
    BY DEF GoodFrom
  <2>7. \E i \in 0..(Due(m)') : GoodFrom(i, m)'
    <3>1. PICK i \in 0..(Due(m)') : i = Len(writes')
      BY <2>3, <2>4
    <3>2. Val(writes', disk', i, m) \in Good /\ Later(writes', i, m) \subseteq Good
      BY <3>1, <1>1, <2>2, <2>3, <2>5, LaterEnds
    <3> QED BY <3>2 DEF GoodFrom
  <2> QED BY <2>1, <2>7
<1>12. SingleAt(m)'
  BY DEF SingleAt
<1>13. restoring /\ dispatch'[m] # Idle => dispatch'[m].step = "capture" /\ dispatch'[m].wait > 0
  <2> SUFFICES ASSUME restoring, dispatch'[m] # Idle
               PROVE  dispatch'[m].step = "capture" /\ dispatch'[m].wait > 0
    OBVIOUS
  <2>1. writes # <<>> /\ writes \in Writes
    BY <1>0 DEF Resuming, Typed
  <2>2. Len(writes) > 0 /\ Len(writes) \in Nat /\ Len(writes') >= Len(writes) /\ Len(writes') \in Nat
    BY <2>1, <1>1, WritesLen DEF Writes, Extends
  <2> QED BY <2>2, <1>1, <1>4 DEF Called, StartedNow
<1> QED BY <1>1, <1>2, <1>3, <1>5, <1>7, <1>9, <1>11, <1>12, <1>13, AtOneKeeps

(* A request that was given up is not awaited and was not taken. *)
LEMMA AbandonedIs ==
    ASSUME Typed, NEW ms, NEW w, w \in Abandoned(ms)
    PROVE  /\ w \in Requests
           /\ w.m \notin ms => w \in wire
           /\ w.m \in ms =>
                /\ ~ w.awaited /\ ~ w.taken
                /\ \E x \in wire : x.m = w.m /\ x.thread = w.thread /\ ~ x.taken
                                   /\ w = [x EXCEPT !.awaited = FALSE]
<1>1. PICK x \in wire : ~ (x.m \in ms /\ x.taken) /\ w = IF x.m \in ms THEN [x EXCEPT !.awaited = FALSE] ELSE x
  BY DEF Abandoned
<1>2. x \in Requests
  BY DEF Typed
<1>3. x.m \in ms => w \in Requests /\ w.m = x.m /\ w.thread = x.thread /\ w.taken = x.taken /\ ~ w.awaited
  BY <1>1, <1>2 DEF Requests
<1> QED BY <1>1, <1>2, <1>3 DEF Requests

(* An entry with another delivery. *)
LEMMA SetDelivery ==
    ASSUME NEW e \in Entry, NEW d \in {"pending", "accepted", "failed", "unknown"}
    PROVE  /\ [e EXCEPT !.delivery = d] \in Entry
           /\ [e EXCEPT !.delivery = d].place = e.place
           /\ [e EXCEPT !.delivery = d].thread = e.thread
           /\ [e EXCEPT !.delivery = d].preparing = e.preparing
           /\ [e EXCEPT !.delivery = d].stranded = e.stranded
           /\ [e EXCEPT !.delivery = d].delivery = d
BY DEF Entry

(* What the outbox says of a message is true. *)
LEMMA EntryValid ==
    ASSUME Inv, NEW m \in Messages, entries[m] # None
    PROVE  entries[m] \in Entry /\ Valid(m, entries[m])
BY DEF Inv, AllValid, ValidAt, Values, Typed

(* Valid with another delivery *)
LEMMA DeliveryValid ==
    ASSUME Inv, NEW m \in Messages, entries[m] # None, NEW e \in Entry,
           e.place = entries[m].place, e.thread = entries[m].thread,
           threads' = threads, sent' = sent,
           e.stranded => e.delivery = "failed",
           e.delivery = "failed" => m \in Bad', e.delivery = "unknown" => m \in doubted'
    PROVE  Valid(m, e)'
<1>1. entries[m] \in Entry /\ Valid(m, entries[m])
  BY EntryValid
<1>2. Fits(e) /\ (e.place # Draft => Known(e.place)) /\ (SentTo(m, Draft) \/ SentTo(m, e.place))
  BY <1>1 DEF Valid, Fits
<1>3. e.place # Draft => Known(e.place)'
  BY <1>2 DEF Known, AdmittedTo
<1>4. SentTo(m, Draft)' \/ SentTo(m, e.place)'
  BY <1>2, SameSent
<1> QED BY <1>2, <1>3, <1>4 DEF Valid

(* retryOutboxEntry keeps the invariant. *)
LEMMA RetryKeeps ==
    ASSUME Inv, NEW m \in Messages, Retry(m)
    PROVE  Inv'
<1>0. Typed /\ Answered /\ Single
  BY DEF Inv
<1>1. /\ entries[m] # None /\ entries[m].delivery \in {"failed", "unknown"}
      /\ ~ entries[m].stranded /\ dispatch[m] = Idle
      /\ Put(m, [entries[m] EXCEPT !.delivery = "pending"])
      /\ removed' = removed \ {m}
      /\ restoring' = restoring /\ disk' = disk /\ threads' = threads /\ sent' = sent /\ early' = early
      /\ unsaved' = unsaved /\ faults' = faults /\ doubted' = doubted /\ refused' = refused /\ wire' = wire
  BY DEF Retry, InFlight
<1>2. entries[m] \in Entry /\ Valid(m, entries[m])
  BY <1>1, EntryValid
<1>3. PICK e \in Entry :
        /\ e = [entries[m] EXCEPT !.delivery = "pending"]
        /\ e.place = entries[m].place /\ e.thread = entries[m].thread
        /\ e.preparing = entries[m].preparing /\ e.stranded = entries[m].stranded /\ e.delivery = "pending"
  BY <1>2, SetDelivery
<1>4. m \in Bad
  BY <1>1, <1>2 DEF Valid, Bad
<1>5. Bad' = Bad
  BY <1>1 DEF Bad
<1>6. Valid(m, e)'
  BY <1>1, <1>3, DeliveryValid
<1>7. \A w \in wire' : w.m = m =>
        /\ ~ w.awaited /\ ~ w.taken
        /\ \E x \in wire : x.m = m /\ x.thread = w.thread /\ (~ x.awaited \/ m \in doubted')
  BY <1>0, <1>1 DEF Answered, Idle
<1>8. Clean(m)' => ~ Launched(m)'
  <2>1. Clean(m)' => Clean(m)
    BY <1>1 DEF Clean
  <2>2. Launched(m)' => Launched(m)
    BY <1>1 DEF Launched, OnWire, Admitted, AdmittedTo
  <2> QED BY <1>0, <1>1, <2>1, <2>2 DEF Single, SingleAt, Idle
<1>9. faults' \in 0..MaxFaults /\ wire' \subseteq Requests
  BY <1>0, <1>1 DEF Typed
<1> QED BY <1>1, <1>3, <1>4, <1>5, <1>6, <1>7, <1>8, <1>9, PutKeeps DEF Put

(* The count of faults stays within its bound. *)
LEMMA FaultBounds == ASSUME Typed, Fault PROVE faults' \in 0..MaxFaults
BY OutboxConstants DEF Typed, Fault

(* What the catch of a dispatch puts for a failure *)
LEMMA FailedPut ==
    ASSUME NEW m \in Messages, entries[m] \in Entry, Failed(m) \/ FailedForGood(m)
    PROVE  \E e \in Entry, hand \in SUBSET handoffs :
                /\ PutWith(hand, m, e)
                /\ e.place = entries[m].place /\ e.thread = entries[m].thread
                /\ e.preparing = entries[m].preparing /\ e.delivery = "failed"
<1>1. CASE Failed(m)
  <2> DEFINE e == [entries[m] EXCEPT !.delivery = "failed"]
  <2>1. /\ e \in Entry /\ e.place = entries[m].place /\ e.thread = entries[m].thread
        /\ e.preparing = entries[m].preparing /\ e.delivery = "failed"
    BY SetDelivery
  <2>2. PutWith(handoffs, m, e)
    BY <1>1 DEF Failed, Put
  <2> HIDE DEF e
  <2> QED BY <2>1, <2>2
<1>2. CASE FailedForGood(m)
  <2> DEFINE e == [entries[m] EXCEPT !.delivery = "failed", !.stranded = TRUE]
  <2>1. /\ e \in Entry /\ e.place = entries[m].place /\ e.thread = entries[m].thread
        /\ e.preparing = entries[m].preparing /\ e.delivery = "failed"
    BY DEF Entry
  <2>2. PutWith(handoffs \ {m}, m, e)
    BY <1>2 DEF FailedForGood
  <2> HIDE DEF e
  <2> QED BY <2>1, <2>2
<1> QED BY <1>1, <1>2

(* A failure that is recorded keeps the invariant, if nothing of a clean     *)
(* message remains on the wire.                                              *)
LEMMA FailedKeeps ==
    ASSUME Inv, NEW m \in Messages, Failed(m) \/ FailedForGood(m), dispatch[m] # Idle,
           restoring' = restoring, disk' = disk, threads' = threads, sent' = sent, early' = early,
           unsaved' = unsaved, removed' = removed, faults' \in 0..MaxFaults,
           wire' \subseteq wire,
           \A w \in wire' : w.m = m => ~ w.awaited,
           Clean(m) => ~ Launched(m)'
    PROVE  Inv'
<1>0. Typed /\ Answered /\ Staged
  BY DEF Inv
<1>1. refused' = refused \cup {m} /\ doubted' = doubted
  BY DEF Failed, FailedForGood
<1>2. entries[m] # None /\ entries[m].delivery = "pending"
  BY <1>0 DEF Staged, StagedAt
<1>3. entries[m] \in Entry
  BY <1>2, EntryValid
<1>4. PICK e \in Entry, hand \in SUBSET handoffs :
        /\ PutWith(hand, m, e)
        /\ e.place = entries[m].place /\ e.thread = entries[m].thread
        /\ e.preparing = entries[m].preparing /\ e.delivery = "failed"
  BY <1>3, FailedPut
<1>5. Bad \subseteq Bad' /\ m \in Bad'
  BY <1>1 DEF Bad
<1>6. Valid(m, e)'
  BY <1>2, <1>4, <1>5, DeliveryValid
<1>7. \A w \in wire' : w.m = m =>
        /\ ~ w.awaited /\ ~ w.taken
        /\ \E x \in wire : x.m = m /\ x.thread = w.thread /\ (~ x.awaited \/ m \in doubted')
  BY <1>0 DEF Answered
<1>8. Clean(m)' => ~ Launched(m)'
  BY <1>1 DEF Clean
<1>9. wire' \subseteq Requests
  BY <1>0 DEF Typed
<1> QED BY <1>1, <1>2, <1>4, <1>5, <1>6, <1>7, <1>8, <1>9, PutKeeps

(* A failed flush or preparation keeps the invariant. *)
LEMMA NotSentKeeps ==
    ASSUME Inv, NEW m \in Messages, NotSent(m)
    PROVE  Inv'
<1>0. Typed /\ Answered /\ Single /\ Staged
  BY DEF Inv
<1>1. /\ Failed(m)
      /\ restoring' = restoring /\ disk' = disk /\ threads' = threads /\ sent' = sent /\ early' = early
      /\ unsaved' = unsaved /\ removed' = removed /\ wire' = wire
  BY DEF NotSent
<1>2. dispatch[m].step \in {"capture", "store", "prepare"}
  BY DEF NotSent, Flushed
<1>3. dispatch[m] # Idle
  BY <1>2 DEF Idle
<1>4. faults' \in 0..MaxFaults
  BY <1>0, FaultBounds DEF NotSent, Typed
<1>5. \A w \in wire' : w.m = m => ~ w.awaited
  BY <1>0, <1>1, <1>2 DEF Answered
<1>6. Clean(m) => ~ Launched(m)'
  <2>1. Launched(m)' => Launched(m)
    BY <1>1 DEF Launched, OnWire, Admitted, AdmittedTo
  <2>2. entries[m] # None /\ entries[m].delivery = "pending"
    BY <1>0, <1>3 DEF Staged, StagedAt
  <2> QED BY <1>0, <1>2, <2>1, <2>2 DEF Single, SingleAt
<1> QED BY <1>1, <1>3, <1>4, <1>5, <1>6, FailedKeeps

(* A refusal keeps the invariant: the one request was not admitted. *)
LEMMA RefusedKeeps ==
    ASSUME Inv, NEW w \in wire, Refused(w)
    PROVE  Inv'
<1>0. Typed /\ Answered /\ Single
  BY DEF Inv
<1>1. /\ w.awaited /\ ~ w.taken /\ wire' = wire \ {w} /\ (Failed(w.m) \/ FailedForGood(w.m)) /\ Fault
      /\ restoring' = restoring /\ disk' = disk /\ threads' = threads /\ sent' = sent /\ early' = early
      /\ unsaved' = unsaved /\ removed' = removed
  BY DEF Refused
<1>2. w.m \in Messages
  BY <1>0 DEF Typed, Requests
<1>3. dispatch[w.m] # Idle
  BY <1>0, <1>1 DEF Answered, Idle
<1>4. \A x \in wire' : x.m = w.m => ~ x.awaited
  BY <1>0, <1>1 DEF Answered
<1>5. Clean(w.m) => ~ Launched(w.m)'
  <2> SUFFICES ASSUME Clean(w.m) PROVE ~ Launched(w.m)'
    OBVIOUS
  <2>1. Launched(w.m)
    BY DEF Launched, OnWire
  <2>2. ~ Admitted(w.m) /\ \A x \in wire : x.m = w.m => x = w
    BY <1>0, <1>1, <1>2, <2>1 DEF Single, SingleAt
  <2>3. ~ Admitted(w.m)'
    BY <1>1, <2>2 DEF Admitted, AdmittedTo
  <2>4. ~ OnWire(w.m)'
    BY <1>1, <2>2 DEF OnWire
  <2> QED BY <2>3, <2>4 DEF Launched
<1>6. faults' \in 0..MaxFaults
  BY <1>0, <1>1, FaultBounds
<1> QED BY <1>1, <1>2, <1>3, <1>4, <1>5, <1>6, FailedKeeps

(* An outcome that is lost keeps the invariant. *)
LEMMA OutcomeLostKeeps ==
    ASSUME Inv, NEW w \in wire, OutcomeLost(w)
    PROVE  Inv'
<1> DEFINE m == w.m
<1>0. Typed /\ Answered /\ Staged
  BY DEF Inv
<1>1. /\ w.awaited /\ wire' = Abandoned({m}) /\ Put(m, [entries[m] EXCEPT !.delivery = "unknown"]) /\ Fault
      /\ doubted' = doubted \cup {m} /\ refused' = refused \ {m}
      /\ restoring' = restoring /\ disk' = disk /\ threads' = threads /\ sent' = sent /\ early' = early
      /\ unsaved' = unsaved /\ removed' = removed
  BY DEF OutcomeLost, Unknown
<1>2. m \in Messages
  BY <1>0 DEF Typed, Requests
<1>3. dispatch[m].step = "request" /\ dispatch[m] # Idle
  BY <1>0, <1>1 DEF Answered, Idle
<1>4. entries[m] # None /\ entries[m].delivery = "pending"
  BY <1>0, <1>2, <1>3 DEF Staged, StagedAt
<1>5. entries[m] \in Entry /\ Valid(m, entries[m])
  BY <1>2, <1>4, EntryValid
<1>6. PICK e \in Entry :
        /\ e = [entries[m] EXCEPT !.delivery = "unknown"]
        /\ e.place = entries[m].place /\ e.thread = entries[m].thread
        /\ e.preparing = entries[m].preparing /\ e.stranded = entries[m].stranded /\ e.delivery = "unknown"
  BY <1>5, SetDelivery
<1>7. Bad \subseteq Bad' /\ m \in doubted' /\ refused' \subseteq refused \cup {m}
  BY <1>1 DEF Bad
<1>8. ~ entries[m].stranded
  BY <1>4, <1>5 DEF Valid
<1>9. Valid(m, e)'
  BY <1>1, <1>2, <1>4, <1>6, <1>7, <1>8, DeliveryValid
<1>10. \A x \in wire' : x \in Requests /\ (x.m # m => x \in wire)
        /\ (x.m = m => ~ x.awaited /\ ~ x.taken /\ \E y \in wire : y.m = m /\ y.thread = x.thread)
  BY <1>0, <1>1, AbandonedIs
<1>11. ~ Clean(m)'
  BY <1>7 DEF Clean
<1>12. faults' \in 0..MaxFaults
  BY <1>0, <1>1, FaultBounds
<1> HIDE DEF m
<1>13. wire' \subseteq Requests
  BY <1>10
<1>14. \A x \in wire' : x.m = m =>
        /\ ~ x.awaited /\ ~ x.taken
        /\ \E y \in wire : y.m = m /\ y.thread = x.thread /\ (~ y.awaited \/ m \in doubted')
  BY <1>7, <1>10
<1> QED BY <1>1, <1>2, <1>4, <1>6, <1>7, <1>9, <1>10, <1>11, <1>12, <1>13, <1>14, PutKeeps DEF Put

(* Nothing is dropped from the order as long as nothing is dropped from the  *)
(* outbox.                                                                   *)
LEMMA KeptSame == ASSUME Lined PROVE order = Kept(entries, order)
BY DEF Lined, Orders, Kept, Retained

(* Requests of a message whose dispatch awaits no answer. *)
LEMMA NotAwaited ==
    ASSUME Inv, NEW m \in Messages, dispatch[m].step # "request", wire' = wire
    PROVE  \A w \in wire' : w.m = m =>
                /\ ~ w.awaited /\ ~ w.taken
                /\ \E x \in wire : x.m = m /\ x.thread = w.thread /\ (~ x.awaited \/ m \in doubted')
BY DEF Inv, Answered

(* Taking a message back keeps the invariant: it is not in flight, so that   *)
(* none is awaited.                                                          *)
LEMMA DiscardKeeps ==
    ASSUME Inv, NEW m \in Messages, Discard(m)
    PROVE  Inv'
<1> DEFINE box == [entries EXCEPT ![m] = None]
<1>0. Typed /\ Answered /\ Staged /\ AllValid /\ Single
  BY DEF Inv
<1>1. /\ entries[m] # None /\ entries[m].delivery \notin {"unknown", "accepted"} /\ dispatch[m] = Idle
      /\ Dispatcher(box, order, handoffs \ {m}, dispatch, Persist(writes, entries, box))
      /\ removed' = removed \cup {m}
      /\ restoring' = restoring /\ disk' = disk /\ threads' = threads /\ sent' = sent /\ early' = early
      /\ unsaved' = unsaved /\ faults' = faults /\ doubted' = doubted /\ refused' = refused /\ wire' = wire
  BY DEF Discard, InFlight
<1>2. box \in Boxes /\ \A n \in Messages : box[n] = IF n = m THEN None ELSE entries[n]
  BY <1>0 DEF Typed, Boxes
<1>3. order \in SUBSET (Messages \X Messages) /\ handoffs \ {m} \in SUBSET Messages /\ dispatch \in [Messages -> Calls]
  BY <1>0 DEF Typed, Retained
<1> HIDE DEF box
<1>4. /\ entries' = box /\ order' = Kept(box, order)
      /\ order' \subseteq Messages \X Messages
      /\ latest' \in BOOLEAN
      /\ handoffs' \subseteq Retained'
      /\ dispatch' \in [Messages -> Calls]
      /\ \A n \in Messages : Called(n, dispatch[n])
      /\ Extends(writes, writes')
      /\ \A n \in Messages : AddsTo(n) = IF entries[n] # box[n] THEN {box[n]} ELSE {}
  BY <1>0, <1>1, <1>2, <1>3, OnePut
<1>5. Grows
  BY <1>1, SameSent, SameThreads DEF Grows, Bad
<1>6. Quiet
  <2>1. ASSUME NEW n \in Messages
        PROVE  /\ entries'[n] = None \/ (entries[n] # None /\ entries'[n].place = entries[n].place)
               /\ dispatch[n] = Idle => dispatch'[n] = Idle \/ (entries'[n] # None /\ StartedNow(n))
               /\ Waiting(n)' => Waiting(n)
    BY <1>1, <1>2, <1>4 DEF Called, Waiting, Bad
  <2> QED BY <1>1, <1>2, <1>4, <2>1 DEF Quiet
<1>7. Typed'
  BY <1>0, <1>1, <1>2, <1>4 DEF Typed, Boxes, Extends
<1>8. entries'[m] = None /\ dispatch'[m] = Idle
  BY <1>2, <1>4 DEF Called
<1>9. StagedAt(m)' /\ SecuredAt(m)'
  BY <1>8 DEF StagedAt, SecuredAt, Waits, Idle
<1>10. ValidAt(m)'
  <2>1. \A v \in {entries'[m]} \cup AddsTo(m) : v \in Values(m) \/ (v \in Entry => Valid(m, v)')
    BY <1>2, <1>4, OutboxConstants
  <2> QED BY <2>1, <1>0, <1>1, <1>4, <1>5, <1>8, ValidFrame DEF AllValid
<1>11. SingleAt(m)'
  <2>1. Clean(m)' => Clean(m)
    BY <1>5, CleanStays
  <2>2. Launched(m)' => Launched(m)
    BY <1>6, QuietLaunched
  <2> QED BY <1>0, <1>1, <2>1, <2>2 DEF Single, SingleAt, Idle
<1>12. \A n \in Messages : n # m => Called(n, dispatch[n]) /\ AddsTo(n) = {} /\ entries'[n] = entries[n]
  BY <1>2, <1>4
<1>13. \A w \in wire' : w.m = m =>
                /\ ~ w.awaited /\ ~ w.taken
                /\ \E x \in wire : x.m = m /\ x.thread = w.thread /\ (~ x.awaited \/ m \in doubted')
  BY <1>1, NotAwaited DEF Idle
<1> QED BY <1>1, <1>4, <1>5, <1>6, <1>7, <1>8, <1>9, <1>10, <1>11, <1>12, <1>13, AtOneKeeps

(* The preparation begins. *)
LEMMA PreparingKeeps ==
    ASSUME Inv, NEW m \in Messages, Captured(m), entries[m].preparing
    PROVE  Inv'
<1>0. Typed /\ Answered /\ Staged /\ AllValid /\ Single /\ Lined
  BY DEF Inv
<1>1. /\ dispatch[m].step = "capture"
      /\ dispatch' = [dispatch EXCEPT ![m] = [step |-> "prepare"]]
      /\ wire' = wire /\ entries' = entries /\ order' = order /\ handoffs' = handoffs /\ restoring' = restoring
      /\ disk' = disk /\ writes' = writes /\ latest' = latest /\ threads' = threads /\ sent' = sent
      /\ removed' = removed /\ doubted' = doubted /\ refused' = refused /\ early' = early /\ unsaved' = unsaved
      /\ faults' = faults
      /\ dispatch[m].wait = 0
  BY DEF Captured, Flushed, storage
<1>2. entries[m] # None /\ entries[m].delivery = "pending"
  BY <1>0, <1>1 DEF Staged, StagedAt, Idle
<1>3. dispatch'[m] = [step |-> "prepare"] /\ \A n \in Messages : n # m => dispatch'[n] = dispatch[n]
  BY <1>0, <1>1 DEF Typed
<1>4. dispatch' \in [Messages -> Calls]
  <2>1. [step |-> "prepare"] \in Calls
    BY DEF Calls
  <2> QED BY <1>0, <1>1, <2>1 DEF Typed
<1>5. Typed'
  BY <1>0, <1>1, <1>4 DEF Typed, Retained
<1>6. Grows
  BY <1>1, SameSent, SameThreads DEF Grows, Bad
<1>7. Extends(writes, writes') /\ \A n \in Messages : AddsTo(n) = {}
  BY <1>0, <1>1, ExtendsSelf, LaterEnds DEF AddsTo, Typed
<1>8. \A n \in Messages : n # m => Called(n, dispatch[n]) /\ AddsTo(n) = {} /\ entries'[n] = entries[n]
  BY <1>0, <1>1, <1>3, <1>7 DEF Called, Staged, StagedAt
<1>9. Quiet
  <2>1. order' = Kept(entries', order)
    BY <1>0, <1>1, KeptSame
  <2>2. ASSUME NEW n \in Messages
        PROVE  /\ entries'[n] = None \/ (entries[n] # None /\ entries'[n].place = entries[n].place)
               /\ dispatch[n] = Idle => dispatch'[n] = Idle \/ (entries'[n] # None /\ StartedNow(n))
               /\ Waiting(n)' => Waiting(n)
    BY <1>1, <1>3 DEF Waiting, Bad, Idle
  <2> QED BY <1>0, <1>1, <2>1, <2>2 DEF Quiet, Typed, Boxes
<1>10. StagedAt(m)'
  BY <1>1, <1>2, <1>3 DEF StagedAt, Waits
<1>11. ValidAt(m)'
  BY <1>0, <1>1, <1>6, <1>7, ValidFrame DEF AllValid, Typed, Values
<1>12. SecuredAt(m)'
  BY <1>1 DEF SecuredAt
<1>13. SingleAt(m)'
  <2>1. Clean(m)' => Clean(m)
    BY <1>6, CleanStays
  <2>2. Launched(m)' => Launched(m)
    BY <1>9, QuietLaunched
  <2> QED BY <1>0, <1>1, <1>2, <2>1, <2>2 DEF Single, SingleAt
<1>14. \A w \in wire' : w.m = m =>
                /\ ~ w.awaited /\ ~ w.taken
                /\ \E x \in wire : x.m = m /\ x.thread = w.thread /\ (~ x.awaited \/ m \in doubted')
  BY <1>1, NotAwaited
<1>15. ~ restoring
  BY <1>1, <1>2 DEF Inv, Resuming, Idle
<1>16. entries'[m] # None /\ entries'[m].delivery = "pending" => m \notin removed'
  BY <1>1 DEF Inv, Unremoved
<1> QED BY <1>1, <1>2, <1>5, <1>6, <1>7, <1>8, <1>9, <1>10, <1>11, <1>12, <1>13, <1>14, <1>15, <1>16, AtOneKeeps

(* An entry that has been prepared. *)
LEMMA SetPreparing ==
    ASSUME NEW e \in Entry
    PROVE  /\ [e EXCEPT !.preparing = FALSE] \in Entry
           /\ [e EXCEPT !.preparing = FALSE].place = e.place
           /\ [e EXCEPT !.preparing = FALSE].thread = e.thread
           /\ [e EXCEPT !.preparing = FALSE].preparing = FALSE
           /\ [e EXCEPT !.preparing = FALSE].stranded = e.stranded
           /\ [e EXCEPT !.preparing = FALSE].delivery = e.delivery
BY DEF Entry

(* The result of the preparation is put, and its dispatch waits for that     *)
(* write.                                                                    *)
LEMMA PreparedKeeps ==
    ASSUME Inv, NEW m \in Messages, Prepared(m)
    PROVE  Inv'
<1> DEFINE box == [entries EXCEPT ![m].preparing = FALSE]
           queue == Persist(writes, entries, box)
           call == Flushing("store", entries[m].thread, queue, latest)
           calls == [dispatch EXCEPT ![m] = call]
<1>0. Typed /\ Answered /\ Staged /\ AllValid /\ Single /\ Resuming
  BY DEF Inv
<1>1. /\ dispatch[m].step = "prepare"
      /\ Dispatcher(box, order, handoffs, calls, queue)
      /\ wire' = wire /\ restoring' = restoring
      /\ disk' = disk /\ threads' = threads /\ sent' = sent
      /\ removed' = removed /\ doubted' = doubted /\ refused' = refused /\ early' = early /\ unsaved' = unsaved
      /\ faults' = faults
  BY DEF Prepared, history
<1>2. entries[m] # None /\ entries[m].delivery = "pending" /\ entries[m].preparing /\ dispatch[m] # Idle
  BY <1>0, <1>1 DEF Staged, StagedAt, Idle
<1>3. entries[m] \in Entry /\ Valid(m, entries[m])
  BY <1>2, EntryValid
<1>4. PICK e \in Entry :
        /\ e = [entries[m] EXCEPT !.preparing = FALSE]
        /\ e.place = entries[m].place /\ e.thread = entries[m].thread /\ ~ e.preparing
        /\ e.stranded = entries[m].stranded /\ e.delivery = entries[m].delivery
  BY <1>3, SetPreparing
<1>5. box \in Boxes /\ \A n \in Messages : box[n] = IF n = m THEN e ELSE entries[n]
  BY <1>0, <1>4 DEF Typed, Boxes
<1>6. queue \in Writes
  BY <1>0, <1>5, PersistTyped DEF Typed, Boxes
<1>7. /\ call \in Calls /\ call.step = "store" /\ call.wait = Len(queue) /\ call.thread = entries[m].thread
      /\ call # Idle
  <2>1. Len(queue) \in Nat /\ entries[m].thread \in Threads \cup {None} /\ latest \in BOOLEAN
    BY <1>0, <1>3, <1>6, WritesLen DEF Typed, Entry
  <2> HIDE DEF queue
  <2> QED BY <2>1 DEF Flushing, Calls, Idle
<1> HIDE DEF call
<1>8. calls \in [Messages -> Calls] /\ \A n \in Messages : calls[n] = IF n = m THEN call ELSE dispatch[n]
  BY <1>0, <1>7 DEF Typed
<1>9. order \in SUBSET (Messages \X Messages) /\ handoffs \in SUBSET Messages
  BY <1>0 DEF Typed, Retained
<1>10. writes' = queue
  BY <1>1 DEF Dispatcher, Dispatched
<1> HIDE DEF box, calls
<1>11. /\ entries' = box /\ order' = Kept(box, order)
       /\ order' \subseteq Messages \X Messages
       /\ latest' \in BOOLEAN
       /\ handoffs' \subseteq Retained'
       /\ dispatch' \in [Messages -> Calls]
       /\ \A n \in Messages : Called(n, calls[n])
       /\ Extends(writes, writes')
       /\ \A n \in Messages :
            /\ AddsTo(n) = IF entries[n] # box[n] THEN {box[n]} ELSE {}
            /\ entries[n] # box[n] =>
                /\ Len(writes') = Len(writes) + 1
                /\ Val(writes', disk', Len(writes'), n) = box[n]
  BY <1>0, <1>1, <1>5, <1>8, <1>9, OnePut
<1> HIDE DEF queue
<1>12. /\ entries'[m] = e /\ entries'[m] # None /\ e # entries[m]
       /\ dispatch'[m] = call
       /\ AddsTo(m) = {e} /\ Len(writes') = Len(writes) + 1 /\ Val(writes', disk', Len(writes'), m) = e
       /\ \A n \in Messages : n # m => Called(n, dispatch[n]) /\ AddsTo(n) = {} /\ entries'[n] = entries[n]
  <2>1. e # None /\ e # entries[m]
    BY <1>2, <1>4, OutboxConstants
  <2> QED BY <2>1, <1>5, <1>7, <1>8, <1>11 DEF Called
<1>13. Grows
  BY <1>1, SameSent, SameThreads DEF Grows, Bad
<1>14. Typed'
  BY <1>0, <1>1, <1>5, <1>11 DEF Typed, Boxes, Extends
<1>15. Quiet
  <2>1. ASSUME NEW n \in Messages
        PROVE  /\ entries'[n] = None \/ (entries[n] # None /\ entries'[n].place = entries[n].place)
               /\ dispatch[n] = Idle => dispatch'[n] = Idle \/ (entries'[n] # None /\ StartedNow(n))
               /\ Waiting(n)' => Waiting(n)
    <3>1. CASE n = m
      BY <3>1, <1>1, <1>2, <1>4, <1>12 DEF Waiting, Bad
    <3>2. CASE n # m
      BY <3>2, <1>1, <1>12 DEF Waiting, Bad, Called
    <3> QED BY <3>1, <3>2
  <2> QED BY <1>1, <1>5, <1>11, <2>1 DEF Quiet
<1>16. StagedAt(m)'
  <2>1. Len(writes') \in Nat
    BY <1>11, WritesLen DEF Extends
  <2>2. call.thread \in {None, e.place}
    BY <1>3, <1>4, <1>7 DEF Valid, Fits
  <2> QED BY <2>1, <2>2, <1>2, <1>4, <1>7, <1>10, <1>12 DEF StagedAt, Waits
<1>17. ValidAt(m)'
  <2>1. Valid(m, e)'
    <3>1. e.stranded => e.delivery = "failed"
      BY <1>3, <1>4 DEF Valid
    <3>2. e.delivery = "failed" => m \in Bad'
      BY <1>2, <1>4
    <3>3. e.delivery = "unknown" => m \in doubted'
      BY <1>2, <1>4
    <3> QED BY <3>1, <3>2, <3>3, <1>1, <1>2, <1>4, DeliveryValid
  <2>2. \A v \in {entries'[m]} \cup AddsTo(m) : v \in Values(m) \/ (v \in Entry => Valid(m, v)')
    BY <2>1, <1>12
  <2> QED BY <2>2, <1>0, <1>1, <1>4, <1>11, <1>12, <1>13, ValidFrame DEF AllValid
<1>18. SecuredAt(m)'
  <2>1. Len(writes') \in Nat /\ writes' \in Writes /\ Len(writes) \in Nat
    BY <1>0, <1>11, WritesLen DEF Extends, Typed
  <2>2. Due(m)' = Len(writes') /\ dispatch'[m].step = "store" /\ dispatch'[m].wait = Len(writes')
    BY <1>7, <1>10, <1>12 DEF Due
  <2>3. e \in Good
    BY <1>2, <1>4 DEF Good
  <2>4. \A i : i = Len(writes') => GoodFrom(i, m)'
    BY <2>1, <2>3, <1>12, LaterEnds DEF GoodFrom
  <2>5. dispatch'[m].wait > 0 /\ Len(writes') \in 0..(Due(m)')
    BY <2>1, <2>2, <1>12
  <2>6. \E i \in 0..(Due(m)') : GoodFrom(i, m)'
    BY <2>4, <2>5
  <2>7. GoodFrom(dispatch[m].wait, m)'
    <3>1. Val(writes', disk', dispatch'[m].wait, m) \in Good /\ Later(writes', dispatch'[m].wait, m) \subseteq Good
      BY <2>1, <2>2, <2>3, <1>12, LaterEnds
    <3> QED BY <3>1 DEF GoodFrom
  <2> QED BY <2>2, <2>5, <2>6, <2>7 DEF SecuredAt
<1>19. SingleAt(m)'
  <2>1. Clean(m)' => Clean(m)
    BY <1>13, CleanStays
  <2>2. Launched(m)' => Launched(m)
    BY <1>15, QuietLaunched
  <2> QED BY <1>0, <1>2, <2>1, <2>2 DEF Single, SingleAt
<1>20. \A w \in wire' : w.m = m =>
                /\ ~ w.awaited /\ ~ w.taken
                /\ \E x \in wire : x.m = m /\ x.thread = w.thread /\ (~ x.awaited \/ m \in doubted')
  BY <1>1, NotAwaited
<1>21. ~ restoring
  BY <1>0, <1>1, <1>2 DEF Resuming
<1>22. entries'[m] # None /\ entries'[m].delivery = "pending" => m \notin removed'
  BY <1>1, <1>2 DEF Inv, Unremoved
<1> QED BY <1>1, <1>2, <1>11, <1>12, <1>13, <1>14, <1>15, <1>16, <1>17, <1>18, <1>19, <1>20, <1>21, <1>22, AtOneKeeps

(* Launch, by a dispatch whose last flush has succeeded *)
LEMMA LaunchKeeps ==
    ASSUME Inv, NEW m \in Messages, NEW t \in Threads \cup {None},
           dispatch[m].step \in {"capture", "store"}, dispatch[m].wait = 0, dispatch[m].ok,
           ~ entries[m].preparing, t \in {None, entries[m].place},
           Launch(m, t),
           UNCHANGED <<entries, order, handoffs, restoring, storage, threads, sent, removed, doubted, refused, early, unsaved, faults>>
    PROVE  Inv'
<1> DEFINE w == [m |-> m, thread |-> t, awaited |-> TRUE, taken |-> FALSE]
<1>0. /\ Typed /\ Lined /\ Staged /\ Answered /\ AllValid /\ SentOnce /\ ThreadsKnown
      /\ Secured /\ Single /\ InLine /\ Apart /\ Lost /\ Resuming /\ OrderKept /\ Unremoved
  BY DEF Inv
<1>1. /\ wire' = wire \cup {w} /\ dispatch' = [dispatch EXCEPT ![m] = [step |-> "request"]]
      /\ entries' = entries /\ order' = order /\ handoffs' = handoffs /\ restoring' = restoring
      /\ disk' = disk /\ writes' = writes /\ latest' = latest /\ threads' = threads /\ sent' = sent
      /\ removed' = removed /\ doubted' = doubted /\ refused' = refused /\ early' = early /\ unsaved' = unsaved
      /\ faults' = faults
  BY DEF Launch, storage
<1>2. entries[m] # None /\ entries[m].delivery = "pending" /\ entries[m] \in Entry /\ Valid(m, entries[m])
  <2>1. entries[m] # None /\ entries[m].delivery = "pending"
    BY <1>0 DEF Staged, StagedAt, Idle
  <2> QED BY <2>1, EntryValid
<1>3. w \in Requests /\ w.m = m /\ w.thread = t /\ w.awaited /\ ~ w.taken
  BY DEF Requests
<1> HIDE DEF w
<1>4. dispatch'[m] = [step |-> "request"] /\ \A n \in Messages : n # m => dispatch'[n] = dispatch[n]
  BY <1>0, <1>1 DEF Typed
<1>5. dispatch' \in [Messages -> Calls]
  <2>1. [step |-> "request"] \in Calls
    BY DEF Calls
  <2> QED BY <1>0, <1>1, <2>1 DEF Typed
<1>6. ~ restoring
  BY <1>0, <1>2 DEF Resuming, Idle
<1>7. Typed'
  BY <1>0, <1>1, <1>3, <1>5 DEF Typed, Retained
<1>8. Lined' /\ OrderKept' /\ Unremoved' /\ Resuming'
  BY <1>0, <1>1, <1>6 DEF Lined, Retained, OrderKept, SentBefore, Unremoved, Resuming
<1>9. Staged'
  <2>1. ASSUME NEW n \in Messages PROVE StagedAt(n)'
    <3>1. StagedAt(n)
      BY <1>0 DEF Staged
    <3>2. CASE n = m
      BY <3>2, <1>1, <1>2, <1>4 DEF StagedAt, Waits
    <3>3. CASE n # m
      BY <3>1, <3>3, <1>1, <1>4 DEF StagedAt, Waits
    <3> QED BY <3>2, <3>3
  <2> QED BY <2>1 DEF Staged
<1>10. Answered'
  <2>1. \A x \in wire : x.awaited => x.m # m
    BY <1>0 DEF Answered
  <2>2. ASSUME NEW x \in wire', x.awaited
        PROVE  /\ dispatch'[x.m].step = "request"
               /\ x.thread \in {None, entries'[x.m].place}
               /\ \A y \in wire' : y.awaited /\ y.m = x.m => y = x
    <3>1. CASE x = w
      BY <3>1, <2>1, <1>1, <1>3, <1>4
    <3>2. CASE x # w
      <4>1. x \in wire /\ x.m # m /\ x.m \in Messages
        BY <1>0, <1>1, <2>1, <2>2, <3>2 DEF Typed, Requests
      <4> QED BY <4>1, <2>2, <1>0, <1>1, <1>3, <1>4 DEF Answered
    <3> QED BY <3>1, <3>2
  <2>3. \A x \in wire' : x.taken => x.awaited /\ x.m \in AdmittedTo(Addressed(x))'
    BY <1>0, <1>1, <1>3 DEF Answered, AdmittedTo, Addressed
  <2> QED BY <2>2, <2>3 DEF Answered, Addressed
<1>11. \A n : Values(n)' = Values(n) /\ (Admitted(n)' <=> Admitted(n))
  BY <1>1 DEF Values, Later, Admitted, AdmittedTo
<1>12. AllValid'
  <2>1. \A n, v : Valid(n, v)' <=> Valid(n, v)
    BY <1>1 DEF Valid, SentTo, Known, AdmittedTo, Bad
  <2> QED BY <2>1, <1>0, <1>11 DEF AllValid, ValidAt
<1>13. \A n \in Messages : n # m => (Launched(n)' <=> Launched(n))
  BY <1>1, <1>3, <1>11 DEF Launched, OnWire
<1>14. SentOnce'
  <2>1. \A n \in Messages : Sent(n)' <=> Sent(n)
    BY <1>1 DEF Sent
  <2>2. Sent(m)
    BY <1>2, RetainedIsSent
  <2> QED BY <2>1, <2>2, <1>0, <1>1, <1>11, <1>13 DEF SentOnce
<1>15. ThreadsKnown'
  <2>1. \A u : Known(u)' <=> Known(u)
    BY <1>1 DEF Known, AdmittedTo
  <2>2. t # None => Known(t)
    BY <1>2, OutboxConstants DEF Valid
  <2> QED BY <2>1, <2>2, <1>0, <1>1, <1>3 DEF ThreadsKnown
<1>16. m \notin unsaved \/ m \notin Bad => GoodFrom(0, m)
  <2>1. SecuredAt(m)
    BY <1>0 DEF Secured
  <2>2. Due(m) = 0
    BY DEF Due, Idle
  <2>3. m \notin unsaved => GoodFrom(0, m)
    <3>1. m \notin unsaved => \E i \in 0..0 : GoodFrom(i, m)
      BY <2>1, <2>2, <1>2 DEF SecuredAt
    <3>2. \A i \in 0..0 : i = 0
      OBVIOUS
    <3> QED BY <3>1, <3>2
  <2>4. m \notin Bad => GoodFrom(0, m)
    BY <2>1, <1>2 DEF SecuredAt, GoodFrom, Val
  <2> QED BY <2>3, <2>4
<1>17. \A i, n : GoodFrom(i, n)' <=> GoodFrom(i, n)
  BY <1>1 DEF GoodFrom, Val, Later
<1>18. Secured'
  <2>1. ASSUME NEW n \in Messages PROVE SecuredAt(n)'
    <3>1. SecuredAt(n)
      BY <1>0 DEF Secured
    <3>2. CASE n = m
      <4>1. m \notin unsaved' => \E i \in 0..(Due(m)') : GoodFrom(i, m)'
        <5>1. Due(m)' = 0
          BY <1>4 DEF Due, Idle
        <5>2. 0 \in 0..(Due(m)')
          BY <5>1
        <5>3. GoodFrom(0, m) => \E i \in 0..(Due(m)') : i = 0 /\ GoodFrom(i, m)
          BY <5>2
        <5> QED BY <5>3, <1>1, <1>16, <1>17
      <4>2. m \notin Bad' => GoodFrom(0, m)'
        BY <1>1, <1>16, <1>17 DEF Bad
      <4> QED BY <4>1, <4>2, <3>2, <1>4 DEF SecuredAt
    <3>3. CASE n # m
      <4>1. dispatch'[n] = dispatch[n]
        BY <3>3, <1>4
      <4> QED BY <4>1, <3>1, <1>1 DEF SecuredAt, GoodFrom, Val, Later, Due, Bad
    <3> QED BY <3>2, <3>3
  <2> QED BY <2>1 DEF Secured
<1>19. Single'
  <2>1. ASSUME NEW n \in Messages PROVE SingleAt(n)'
    <3>1. SingleAt(n) /\ (Clean(n)' <=> Clean(n))
      BY <1>0, <1>1 DEF Single, Clean
    <3>2. CASE n = m
      <4> SUFFICES ASSUME Clean(m) PROVE SingleAt(m)'
        BY <3>1, <3>2 DEF SingleAt
      <4>1. ~ Launched(m)
        BY <3>1, <3>2, <1>2 DEF SingleAt
      <4>2. m \notin removed
        BY <1>0, <1>2 DEF Unremoved
      <4>3. GoodFrom(0, m)
        BY <1>16 DEF Clean, Bad
      <4>4. disk[m] \in Late /\ Later(writes, 0, m) \subseteq Late
        BY <4>3 DEF GoodFrom, Val, Good, Late
      <4>5. \A x \in wire' : x.m = m => x = w
        BY <4>1, <1>1 DEF Launched, OnWire
      <4>6. ~ Admitted(m)'
        BY <4>1, <1>11 DEF Launched
      <4> QED BY <4>2, <4>4, <4>5, <4>6, <1>1, <1>4 DEF SingleAt, Later
    <3>3. CASE n # m
      BY <3>1, <3>3, <1>1, <1>3, <1>4, <1>11, <1>13 DEF SingleAt, Later
    <3> QED BY <3>2, <3>3
  <2> QED BY <2>1 DEF Single
<1>20. ASSUME NEW n \in Messages, NEW p \in Threads, NotIn(n, p), n = m => Addressed(w) # p
       PROVE  NotIn(n, p)'
  BY <1>20, <1>1, <1>3 DEF NotIn, AdmittedTo, Addressed
<1>21. InLine'
  <2>1. ASSUME NEW a \in Messages, NEW b \in Messages PROVE InLineAt(a, b)'
    <3> SUFFICES ASSUME Waiting(a), SentBefore(a, b) PROVE Ahead(a, b)'
      BY <1>1 DEF InLineAt, Waiting, Bad, SentBefore
    <3>1. Ahead(a, b)
      BY <1>0 DEF InLine, InLineAt
    <3>2. entries[a] # None /\ entries[a] \in Entry /\ Valid(a, entries[a]) /\ entries[a].place \in Threads \cup {Draft}
      BY <1>0, EntryValid, PlaceTyped DEF Waiting
    <3>3. CASE b = m
      <4>1. entries[m].place # entries[a].place
        BY <3>1, <3>3, <1>2 DEF Ahead, Idle
      <4>2. entries[a].place # Draft /\ NotIn(m, entries[a].place)
        BY <3>1, <3>3, <4>1, <1>2 DEF Ahead
      <4>3. Known(entries[a].place)
        BY <3>2, <4>2 DEF Valid
      <4>4. m # entries[a].place
        BY <4>2, <4>3, OutboxConstants DEF Known, NotIn
      <4>5. Addressed(w) # entries[a].place
        BY <4>1, <4>4, <1>3 DEF Addressed
      <4>6. NotIn(m, entries[a].place)'
        <5>1. \A p \in Threads : p = entries[a].place => NotIn(m, p)'
          BY <4>2, <4>5, <1>20
        <5> QED BY <5>1, <3>2, <4>2, <1>1
      <4> QED BY <4>1, <4>2, <4>6, <3>3, <1>1 DEF Ahead
    <3>4. CASE b # m
      <4>1. entries[a].place # Draft => NotIn(b, entries[a].place)'
        <5>1. \A p \in Threads : p = entries[a].place /\ NotIn(b, p) => NotIn(b, p)'
          BY <3>4, <1>20
        <5> QED BY <5>1, <3>1, <3>2, <1>1 DEF Ahead
      <4> QED BY <4>1, <3>1, <3>4, <1>1, <1>4, <1>13 DEF Ahead
    <3> QED BY <3>3, <3>4
  <2> QED BY <2>1 DEF InLine
<1>22. Apart'
  <2>1. ASSUME NEW a \in Messages, NEW n \in Messages PROVE ApartAt(a, n)'
    <3> SUFFICES ASSUME Waiting(a), SentTo(a, Draft), entries[a].place # Draft,
                        entries[n] # None, entries[n].place = Draft
                 PROVE  n # entries[a].place /\ NotIn(n, entries[a].place)'
      BY <1>1 DEF ApartAt, Waiting, Bad, SentTo
    <3>1. n # entries[a].place /\ NotIn(n, entries[a].place)
      BY <1>0 DEF Apart, ApartAt
    <3>2. entries[a].place \in Threads
      BY <1>0, PlaceTyped DEF Waiting
    <3>3. n = m => Addressed(w) # entries[a].place
      BY <3>1, <1>3, OutboxConstants DEF Addressed
    <3>4. \A p \in Threads : p = entries[a].place => NotIn(n, p)'
      BY <3>1, <3>3, <1>20
    <3> QED BY <3>1, <3>2, <3>4, <1>1
  <2> QED BY <2>1 DEF Apart
<1>23. Lost'
  BY <1>0, <1>1, <1>3, <1>6 DEF Lost, Bad
<1> QED BY <1>7, <1>8, <1>9, <1>10, <1>12, <1>14, <1>15, <1>18, <1>19, <1>21, <1>22, <1>23 DEF Inv

(* The first flush has succeeded: the message is prepared or launched. *)
LEMMA CapturedKeeps ==
    ASSUME Inv, NEW m \in Messages, Captured(m)
    PROVE  Inv'
<1>1. CASE entries[m].preparing
  BY <1>1, PreparingKeeps
<1>2. CASE ~ entries[m].preparing
  <2>1. /\ dispatch[m].step = "capture" /\ dispatch[m].wait = 0 /\ dispatch[m].ok
        /\ Launch(m, entries[m].thread)
        /\ UNCHANGED <<entries, order, handoffs, restoring, storage, threads, sent, removed, doubted, refused, early, unsaved, faults>>
    BY <1>2 DEF Captured, Flushed
  <2>2. entries[m] # None
    BY <2>1 DEF Inv, Staged, StagedAt, Idle
  <2>3. entries[m].thread \in Threads \cup {None} /\ entries[m].thread \in {None, entries[m].place}
    BY <2>2, EntryValid DEF Entry, Valid, Fits
  <2> QED BY <1>2, <2>1, <2>3, LaunchKeeps
<1> QED BY <1>1, <1>2

(* The second flush has succeeded: the message is launched. *)
LEMMA StoredKeeps ==
    ASSUME Inv, NEW m \in Messages, Stored(m)
    PROVE  Inv'
<1>1. /\ dispatch[m].step = "store" /\ dispatch[m].wait = 0 /\ dispatch[m].ok
      /\ Launch(m, dispatch[m].thread)
      /\ UNCHANGED <<entries, order, handoffs, restoring, storage, threads, sent, removed, doubted, refused, early, unsaved, faults>>
  BY DEF Stored, Flushed
<1>2. StagedAt(m) /\ dispatch[m] \in Calls
  BY DEF Inv, Staged, Typed
<1>3. dispatch[m].thread \in Threads \cup {None} /\ dispatch[m].thread \in {None, entries[m].place} /\ ~ entries[m].preparing
  BY <1>1, <1>2, CallKinds DEF StagedAt, Waits
<1> QED BY <1>1, <1>3, LaunchKeeps

-----------------------------------------------------------------------------
(* IndexedDB. *)

(* What the end of the first write does to the values of m *)
LEMMA FirstEnds ==
    ASSUME NEW q \in Writes, q # <<>>, NEW d, NEW e, NEW ok \in BOOLEAN, NEW m,
           e = IF ok /\ m \in DOMAIN Head(q) THEN Head(q)[m] ELSE d
    PROVE  /\ Tail(q) \in Writes /\ Len(Tail(q)) = Len(q) - 1 /\ Len(q) > 0
           /\ \A k \in Nat : Later(Tail(q), k, m) = Later(q, k + 1, m)
           /\ \A k \in Nat : Later(Tail(q), k, m) \subseteq Later(q, k, m)
           /\ e = d \/ e \in Later(q, 0, m)
           /\ DOMAIN Head(q) \subseteq Messages
           /\ m \in DOMAIN Head(q) => Later(q, 0, m) # {}
<1>1. /\ Tail(q) \in Writes /\ Len(Tail(q)) = Len(q) - 1 /\ Len(q) > 0 /\ Len(q) \in Nat
      /\ Head(q) = q[1] /\ \A i \in 1..(Len(q) - 1) : Tail(q)[i] = q[i + 1]
  BY DEF Writes
<1>2. DOMAIN q = 1..Len(q) /\ DOMAIN Tail(q) = 1..(Len(q) - 1)
  BY <1>1, WritesLen
<1>3. ASSUME NEW k \in Nat, NEW v PROVE v \in Later(Tail(q), k, m) <=> v \in Later(q, k + 1, m)
  <2>0. v \in Later(Tail(q), k, m) => \E i \in DOMAIN Tail(q) : i > k /\ m \in DOMAIN Tail(q)[i] /\ v = Tail(q)[i][m]
    BY DEF Later
  <2>1. ASSUME NEW i \in DOMAIN Tail(q), i > k, m \in DOMAIN Tail(q)[i], v = Tail(q)[i][m]
        PROVE  v \in Later(q, k + 1, m)
    <3>1. i + 1 \in DOMAIN q /\ i + 1 > k + 1 /\ q[i + 1] = Tail(q)[i]
      BY <2>1, <1>1, <1>2
    <3> QED BY <3>1, <2>1, LaterIs
  <2>2. ASSUME NEW i \in DOMAIN q, i > k + 1, m \in DOMAIN q[i], v = q[i][m]
        PROVE  v \in Later(Tail(q), k, m)
    <3>1. i - 1 \in DOMAIN Tail(q) /\ i - 1 > k /\ q[i] = Tail(q)[i - 1]
      BY <2>2, <1>1, <1>2
    <3> QED BY <3>1, <2>2, LaterIs
  <2>3. v \in Later(q, k + 1, m) => \E i \in DOMAIN q : i > k + 1 /\ m \in DOMAIN q[i] /\ v = q[i][m]
    BY DEF Later
  <2> QED BY <2>0, <2>1, <2>2, <2>3
<1>4. ASSUME NEW k \in Nat PROVE Later(Tail(q), k, m) = Later(q, k + 1, m)
  BY <1>3
<1>5. ASSUME NEW k \in Nat PROVE Later(Tail(q), k, m) \subseteq Later(q, k, m)
  BY <1>4, LaterShrinks
<1>6. m \in DOMAIN Head(q) => Head(q)[m] \in Later(q, 0, m)
  BY <1>1, <1>2, LaterIs
<1>7. DOMAIN Head(q) \subseteq Messages
  <2>1. 1 \in DOMAIN q
    BY <1>1, <1>2
  <2> QED BY <1>1, <2>1, WriteIs
<1> QED BY <1>1, <1>4, <1>5, <1>6, <1>7

(* Good copies as the first write ends. *)
LEMMA GoodEnds ==
    ASSUME writes \in Writes, writes # <<>>, writes' = Tail(writes), NEW m \in Messages, NEW ok \in BOOLEAN,
           disk'[m] = IF ok /\ m \in DOMAIN Head(writes) THEN Head(writes)[m] ELSE disk[m],
           NEW i \in 0..Len(writes), GoodFrom(i, m)
    PROVE  /\ i = 0 => GoodFrom(0, m)'
           /\ i = 1 => /\ m \in DOMAIN Head(writes) /\ Head(writes)[m] \in Good
                       /\ Later(writes', 0, m) \subseteq Good
                       /\ ok => GoodFrom(0, m)'
           /\ i > 1 => GoodFrom(i - 1, m)'
<1>1. /\ \A k \in Nat : Later(writes', k, m) = Later(writes, k + 1, m)
      /\ \A k \in Nat : Later(writes', k, m) \subseteq Later(writes, k, m)
      /\ disk'[m] = disk[m] \/ disk'[m] \in Later(writes, 0, m)
      /\ m \in DOMAIN Head(writes) => Later(writes, 0, m) # {}
  BY FirstEnds
<1>2. /\ \A k \in Nat : k >= 1 /\ k + 1 <= Len(writes) => Val(writes', disk', k, m) = Val(writes, disk, k + 1, m)
      /\ Val(writes, disk, 1, m) = IF m \in DOMAIN Head(writes) THEN Head(writes)[m] ELSE None
      /\ Val(writes, disk, 0, m) = disk[m] /\ Val(writes', disk', 0, m) = disk'[m]
  <2>1. \A k \in 1..(Len(writes) - 1) : writes'[k] = writes[k + 1]
    BY DEF Writes
  <2>2. Head(writes) = writes[1] /\ Len(writes) \in Nat
    BY DEF Writes
  <2>3. \A k \in Nat : k >= 1 /\ k + 1 <= Len(writes) => Val(writes', disk', k, m) = Val(writes, disk, k + 1, m)
    BY <2>1, <2>2 DEF Val
  <2>4. Val(writes, disk, 1, m) = IF m \in DOMAIN Head(writes) THEN Head(writes)[m] ELSE None
    BY <2>2 DEF Val
  <2>5. Val(writes, disk, 0, m) = disk[m] /\ Val(writes', disk', 0, m) = disk'[m]
    BY DEF Val
  <2> QED BY <2>3, <2>4, <2>5
<1>3. CASE i = 0
  <2>1. disk[m] \in Good /\ Later(writes, 0, m) \subseteq Good
    BY <1>3 DEF GoodFrom, Val
  <2>2. disk'[m] \in Good
    BY <1>1, <2>1
  <2>3. Later(writes', 0, m) \subseteq Good
    BY <1>1, <2>1
  <2>4. GoodFrom(0, m)'
    <3>1. Val(writes', disk', 0, m) \in Good
      BY <1>2, <2>2
    <3> QED BY <3>1, <2>3 DEF GoodFrom
  <2> QED BY <1>3, <2>4
<1>4. CASE i = 1
  <2>1. Val(writes, disk, 1, m) \in Good /\ Later(writes, 1, m) \subseteq Good
    BY <1>4 DEF GoodFrom
  <2>2. None \notin Good
    BY OutboxConstants DEF Good
  <2>3. m \in DOMAIN Head(writes) /\ Head(writes)[m] \in Good
    BY <1>2, <2>1, <2>2
  <2>4. Later(writes', 0, m) = Later(writes, 1, m)
    BY <1>1
  <2> QED BY <1>2, <1>4, <2>1, <2>3, <2>4 DEF GoodFrom
<1>5. CASE i > 1
  <2>1. Len(writes) \in Nat
    BY WritesLen
  <2>2. i - 1 \in Nat /\ i - 1 >= 1 /\ (i - 1) + 1 = i
    BY <1>5
  <2>3. PICK k \in Nat : k = i - 1 /\ k >= 1 /\ k + 1 = i
    BY <2>2
  <2>4. Later(writes', k, m) = Later(writes, k + 1, m) /\ Val(writes', disk', k, m) = Val(writes, disk, k + 1, m)
    <3>1. k + 1 <= Len(writes)
      BY <2>1, <2>3
    <3>2. Later(writes', k, m) = Later(writes, k + 1, m)
      BY <1>1, <2>3
    <3>3. Val(writes', disk', k, m) = Val(writes, disk, k + 1, m)
      BY <1>2, <2>3, <3>1
    <3> QED BY <3>2, <3>3
  <2>5. GoodFrom(k, m)'
    BY <2>3, <2>4 DEF GoodFrom
  <2> QED BY <1>5, <2>3, <2>5 DEF GoodFrom
<1> QED BY <1>3, <1>4, <1>5

(* The end of a write keeps the invariant, whether it succeeds or fails. *)
LEMMA WriteKeeps ==
    ASSUME Inv, NEW ok \in BOOLEAN, WriteEnds(ok), faults' \in 0..MaxFaults
    PROVE  Inv'
<1>0. /\ Typed /\ Lined /\ Staged /\ Answered /\ AllValid /\ SentOnce /\ ThreadsKnown
      /\ Secured /\ Single /\ InLine /\ Apart /\ Lost /\ Resuming /\ OrderKept /\ Unremoved
  BY DEF Inv
<1>1. /\ writes # <<>> /\ ~ restoring /\ writes \in Writes
      /\ disk' = [m \in Messages |-> IF ok /\ m \in DOMAIN Head(writes) THEN Head(writes)[m] ELSE disk[m]]
      /\ writes' = Tail(writes)
      /\ latest' = (ok \/ Tail(writes) # <<>>)
      /\ unsaved' = IF ok THEN unsaved ELSE unsaved \cup DOMAIN Head(writes)
      /\ entries' = entries /\ order' = order /\ handoffs' = handoffs /\ restoring' = restoring
      /\ wire' = wire /\ threads' = threads /\ sent' = sent
      /\ removed' = removed /\ doubted' = doubted /\ refused' = refused /\ early' = early
  BY <1>0 DEF WriteEnds, Typed
<1>2. ASSUME NEW m \in Messages
      PROVE  /\ Waits(dispatch[m]) /\ dispatch[m].wait > 0 =>
                    /\ dispatch'[m].step = dispatch[m].step /\ dispatch'[m].thread = dispatch[m].thread
                    /\ dispatch'[m].wait = dispatch[m].wait - 1
                    /\ dispatch'[m].ok <=> ok \/ dispatch[m].wait > 1
             /\ ~ (Waits(dispatch[m]) /\ dispatch[m].wait > 0) => dispatch'[m] = dispatch[m]
             /\ dispatch'[m] \in Calls /\ dispatch'[m].step = dispatch[m].step
  <2> DEFINE c == dispatch[m]
  <2>1. c \in Calls
    BY <1>0 DEF Typed
  <2>2. dispatch'[m] = IF c.step \in {"capture", "store"} /\ c.wait > 0
                       THEN [[c EXCEPT !.wait = c.wait - 1] EXCEPT !.ok = ok \/ c.wait > 1] ELSE c
    BY DEF WriteEnds
  <2>3. CASE Waits(c) /\ c.wait > 0
    <3>1. c.wait \in Nat /\ c = [step |-> c.step, thread |-> c.thread, wait |-> c.wait, ok |-> c.ok]
          /\ c.step \in {"capture", "store"} /\ c.thread \in Threads \cup {None}
      BY <2>1, <2>3, CallKinds DEF Waits
    <3> HIDE DEF c
    <3>2. PICK b \in BOOLEAN : b <=> (ok \/ c.wait > 1)
      <4>1. (ok \/ c.wait > 1) \in BOOLEAN
        OBVIOUS
      <4> QED BY <4>1
    <3>3. dispatch'[m] = [step |-> c.step, thread |-> c.thread, wait |-> c.wait - 1, ok |-> b]
      BY <2>2, <2>3, <3>1, <3>2
    <3>4. dispatch'[m] \in Calls
      BY <2>3, <3>1, <3>3 DEF Calls
    <3>5. /\ dispatch'[m].step = c.step /\ dispatch'[m].thread = c.thread /\ dispatch'[m].wait = c.wait - 1
          /\ dispatch'[m].ok = b
      BY <3>3
    <3> QED BY <2>3, <3>2, <3>4, <3>5 DEF c
  <2>4. CASE ~ (Waits(c) /\ c.wait > 0)
    BY <2>1, <2>2, <2>4 DEF Waits
  <2> QED BY <2>3, <2>4
<1>3. ASSUME NEW m \in Messages
      PROVE  disk'[m] = IF ok /\ m \in DOMAIN Head(writes) THEN Head(writes)[m] ELSE disk[m]
  BY <1>1
<1>4. ASSUME NEW m \in Messages
      PROVE  /\ writes' \in Writes /\ Len(writes') = Len(writes) - 1 /\ Len(writes) > 0
             /\ Later(writes', 0, m) \subseteq Later(writes, 0, m)
             /\ disk'[m] = disk[m] \/ disk'[m] \in Later(writes, 0, m)
             /\ DOMAIN Head(writes) \subseteq Messages
  BY <1>1, <1>3, FirstEnds
<1>5. ASSUME NEW m \in Messages PROVE Values(m)' \subseteq Values(m)
  BY <1>1, <1>4 DEF Values
<1>6. Typed'
  <2>1. writes' \in Writes /\ DOMAIN Head(writes) \subseteq Messages
    BY <1>1, FirstEnds
  <2>2. disk' \in [Messages -> Entry \cup {None}]
    <3>1. \A m \in Messages : disk'[m] \in Entry \cup {None}
      BY <1>0, <1>1, <1>4, LaterTyped DEF Typed
    <3>2. disk' = [m \in Messages |-> disk'[m]]
      BY <1>1
    <3> QED BY <3>1, <3>2
  <2>3. dispatch' \in [Messages -> Calls]
    <3>1. dispatch' = [m \in Messages |-> dispatch'[m]]
      BY DEF WriteEnds
    <3> QED BY <3>1, <1>2
  <2>4. latest' \in BOOLEAN /\ unsaved' \subseteq Messages
    BY <1>0, <1>1, <2>1 DEF Typed
  <2> QED BY <2>1, <2>2, <2>3, <2>4, <1>0, <1>1 DEF Typed, Retained
<1>7. Lined' /\ OrderKept' /\ Unremoved' /\ ThreadsKnown' /\ Resuming' /\ Apart'
  <2>1. Lined' /\ Unremoved' /\ Resuming'
    BY <1>0, <1>1 DEF Lined, Retained, Unremoved, Resuming
  <2>2. OrderKept'
    BY <1>0, <1>1 DEF OrderKept, SentBefore, AdmittedTo
  <2>3. ThreadsKnown'
    BY <1>0, <1>1 DEF ThreadsKnown, Known, AdmittedTo
  <2>4. Apart'
    BY <1>0, <1>1 DEF Apart, ApartAt, Waiting, Bad, SentTo, NotIn, Addressed, AdmittedTo
  <2> QED BY <2>1, <2>2, <2>3, <2>4
<1>8. ASSUME NEW m \in Messages PROVE dispatch'[m] = Idle <=> dispatch[m] = Idle
  <2>1. dispatch[m] \in Calls
    BY <1>0 DEF Typed
  <2>2. dispatch'[m] \in Calls /\ dispatch'[m].step = dispatch[m].step
    BY <1>2
  <2> QED BY <2>1, <2>2, CallKinds
<1>9. Staged'
  <2>1. ASSUME NEW m \in Messages PROVE StagedAt(m)'
    <3>1. StagedAt(m) /\ dispatch[m] \in Calls
      BY <1>0 DEF Staged, Typed
    <3>2. Waits(dispatch'[m]) <=> Waits(dispatch[m])
      BY <1>2 DEF Waits
    <3>3. Len(writes) \in Nat /\ (Waits(dispatch[m]) => dispatch[m].wait \in Nat)
      BY <1>1, <3>1, WritesLen, CallKinds
    <3>4. Waits(dispatch'[m]) => dispatch'[m].wait <= Len(writes')
      BY <3>1, <3>2, <3>3, <1>2, <1>4 DEF StagedAt
    <3>5. (dispatch'[m].step = "capture" => dispatch'[m].thread = None)
          /\ (dispatch'[m].step = "store" => dispatch'[m].thread \in {None, entries[m].place})
      BY <3>1, <1>2 DEF StagedAt
    <3> QED BY <3>1, <3>4, <3>5, <1>1, <1>2, <1>8 DEF StagedAt, Waits
  <2> QED BY <2>1 DEF Staged
<1>10. Answered'
  <2>1. \A w \in wire : w.m \in Messages
    BY <1>0 DEF Typed, Requests
  <2> QED BY <2>1, <1>0, <1>1, <1>2 DEF Answered, AdmittedTo, Addressed
<1>11. AllValid'
  <2>1. \A m, v : Valid(m, v)' <=> Valid(m, v)
    BY <1>1 DEF Valid, SentTo, Known, AdmittedTo, Bad
  <2> QED BY <2>1, <1>0, <1>5 DEF AllValid, ValidAt
<1>12. \A m : (Admitted(m)' <=> Admitted(m)) /\ (Launched(m)' <=> Launched(m)) /\ (Sent(m)' <=> Sent(m))
  BY <1>1 DEF Admitted, AdmittedTo, Launched, OnWire, Sent
<1>13. SentOnce'
  BY <1>0, <1>1, <1>5, <1>12 DEF SentOnce
<1>14. Single'
  <2>1. ASSUME NEW m \in Messages PROVE SingleAt(m)'
    <3> SUFFICES ASSUME Clean(m)', Launched(m) PROVE SingleAt(m)'
      BY <1>12 DEF SingleAt
    <3>1. Clean(m)
      BY <1>1 DEF Clean
    <3>2. SingleAt(m)
      BY <1>0 DEF Single
    <3> QED BY <3>1, <3>2, <1>1, <1>2, <1>4, <1>12 DEF SingleAt
  <2> QED BY <2>1 DEF Single
<1>15. InLine'
  <2>1. ASSUME NEW a \in Messages, NEW b \in Messages PROVE InLineAt(a, b)'
    <3> SUFFICES ASSUME Waiting(a), SentBefore(a, b) PROVE Ahead(a, b)'
      BY <1>1 DEF InLineAt, Waiting, Bad, SentBefore
    <3>1. Ahead(a, b)
      BY <1>0 DEF InLine, InLineAt
    <3>2. \A p : NotIn(b, p) => NotIn(b, p)'
      BY <1>1 DEF NotIn, AdmittedTo, Addressed
    <3>3. NotIn(b, entries[a].place) => NotIn(b, entries[a].place)'
      BY <1>1 DEF NotIn, AdmittedTo, Addressed
    <3> QED BY <3>1, <3>3, <1>1, <1>8, <1>12 DEF Ahead
  <2> QED BY <2>1 DEF InLine
<1>16. Lost'
  BY <1>0, <1>1 DEF Lost, Bad
<1>17. Secured'
  <2>1. ASSUME NEW m \in Messages PROVE SecuredAt(m)'
    <3> SUFFICES ASSUME entries[m] # None, entries[m].delivery = "pending", ~ entries[m].preparing PROVE SecuredAt(m)'
      BY <1>1 DEF SecuredAt
    <3>0. SecuredAt(m) /\ StagedAt(m) /\ dispatch[m] \in Calls
      BY <1>0 DEF Secured, Staged, Typed
    <3>1. Len(writes) \in Nat /\ Len(writes') = Len(writes) - 1 /\ Len(writes') \in Nat
      BY <1>1, <1>4, WritesLen
    <3>2. Waits(dispatch[m]) => dispatch[m].wait \in 0..Len(writes) /\ dispatch[m].ok \in BOOLEAN
      BY <3>0, <3>1, CallKinds DEF StagedAt
    <3>3. ASSUME NEW i \in 0..Len(writes), GoodFrom(i, m)
          PROVE  /\ i = 0 => GoodFrom(0, m)'
                 /\ i = 1 => /\ m \in DOMAIN Head(writes) /\ Head(writes)[m] \in Good
                             /\ Later(writes', 0, m) \subseteq Good
                             /\ ok => GoodFrom(0, m)'
                 /\ i > 1 => GoodFrom(i - 1, m)'
      BY <3>3, <1>1, <1>3, GoodEnds
    <3>4. Due(m) \in 0..Len(writes) /\ Due(m)' \in Nat /\ (Due(m) > 0 => Due(m)' = Due(m) - 1)
      <4>1. CASE dispatch[m] = Idle
        BY <4>1, <3>1, <1>4, <1>8 DEF Due
      <4>2. CASE Waits(dispatch[m])
        <5>1. dispatch[m] # Idle /\ dispatch'[m] # Idle
          BY <4>2, <1>8 DEF Waits, Idle
        <5>2. CASE dispatch[m].wait > 0
          BY <4>2, <5>1, <5>2, <3>1, <3>2, <1>2 DEF Due, Waits
        <5>3. CASE ~ (dispatch[m].wait > 0)
          BY <4>2, <5>1, <5>3, <3>1, <3>2, <1>2 DEF Due, Waits
        <5> QED BY <5>2, <5>3
      <4>3. CASE dispatch[m] # Idle /\ ~ Waits(dispatch[m])
        BY <4>3, <3>1, <1>2, <1>8 DEF Due, Waits
      <4> QED BY <4>1, <4>2, <4>3
    <3>5. ASSUME m \notin unsaved' PROVE \E i \in 0..(Due(m)') : GoodFrom(i, m)'
      <4>1. m \notin unsaved /\ (~ ok => m \notin DOMAIN Head(writes))
        BY <3>5, <1>1
      <4>2. PICK i \in 0..Due(m) : GoodFrom(i, m)
        BY <4>1, <3>0 DEF SecuredAt
      <4>3. i \in 0..Len(writes) /\ i \in Nat
        BY <3>1, <3>4
      <4>4. i \in {0, 1} => GoodFrom(0, m)'
        BY <4>1, <4>2, <4>3, <3>3
      <4>5. i > 1 => GoodFrom(i - 1, m)'
        BY <4>2, <4>3, <3>3
      <4>6. CASE i \in {0, 1}
        <5>1. \E k \in 0..(Due(m)') : k = 0
          BY <3>4
        <5>2. \A k : k = 0 => GoodFrom(k, m)'
          BY <4>4, <4>6 DEF GoodFrom
        <5> QED BY <5>1, <5>2
      <4>7. CASE i > 1
        <5>1. \E k \in 0..(Due(m)') : k = i - 1
          BY <4>3, <4>7, <3>4
        <5>2. \A k : k = i - 1 => GoodFrom(k, m)'
          BY <4>5, <4>7 DEF GoodFrom
        <5> QED BY <5>1, <5>2
      <4> QED BY <4>3, <4>6, <4>7
    <3>6. ASSUME m \notin Bad
          PROVE  /\ dispatch'[m].step \in {"store", "request"}
                 /\ dispatch'[m].step = "request" => GoodFrom(0, m)'
                 /\ dispatch'[m].step = "store" =>
                    \/ dispatch'[m].wait > 0 /\ \A k : k = dispatch'[m].wait => GoodFrom(k, m)'
                    \/ /\ dispatch'[m].wait = 0 /\ Later(writes', 0, m) \subseteq Good
                       /\ dispatch'[m].ok => disk'[m] \in Good
      <4>1. /\ dispatch[m].step \in {"store", "request"}
            /\ dispatch[m].step = "request" => GoodFrom(0, m)
            /\ dispatch[m].step = "store" =>
                \/ dispatch[m].wait > 0 /\ GoodFrom(dispatch[m].wait, m)
                \/ dispatch[m].wait = 0 /\ Later(writes, 0, m) \subseteq Good /\ (dispatch[m].ok => disk[m] \in Good)
        BY <3>0, <3>6 DEF SecuredAt
      <4>2. CASE dispatch[m].step = "request"
        <5>1. 0 \in 0..Len(writes)
          BY <3>1
        <5>2. GoodFrom(0, m)'
          BY <4>1, <4>2, <5>1, <3>3
        <5> QED BY <5>2, <4>2, <1>2
      <4>3. CASE dispatch[m].step = "store"
        <5>0. Waits(dispatch[m]) /\ dispatch[m].wait \in 0..Len(writes) /\ dispatch[m].wait \in Nat
          BY <4>3, <3>1, <3>2 DEF Waits
        <5>1. CASE dispatch[m].wait = 0
          <6>1. dispatch'[m] = dispatch[m] /\ Later(writes, 0, m) \subseteq Good /\ (dispatch[m].ok => disk[m] \in Good)
            BY <5>1, <4>1, <4>3, <1>2
          <6> QED BY <6>1, <5>1, <4>3, <1>4
        <5>2. CASE dispatch[m].wait = 1
          <6>1. GoodFrom(1, m) /\ 1 \in 0..Len(writes)
            BY <5>0, <5>2, <4>1, <4>3
          <6>2. /\ m \in DOMAIN Head(writes) /\ Head(writes)[m] \in Good
                /\ Later(writes', 0, m) \subseteq Good
            BY <6>1, <3>3
          <6>3. dispatch'[m].step = "store" /\ dispatch'[m].wait = 0 /\ (dispatch'[m].ok <=> ok)
            BY <5>0, <5>2, <4>3, <1>2
          <6> QED BY <6>2, <6>3, <1>3
        <5>3. CASE dispatch[m].wait > 1
          <6>1. GoodFrom(dispatch[m].wait, m)
            BY <5>3, <4>1, <4>3
          <6>2. dispatch'[m].wait > 0 /\ \A j : j = dispatch'[m].wait => GoodFrom(j, m)'
            <7>1. ASSUME NEW i \in 0..Len(writes), i > 1, GoodFrom(i, m), NEW k, k = i - 1 PROVE GoodFrom(k, m)'
              BY <7>1, <3>3
            <7>2. PICK i \in 0..Len(writes) : i = dispatch[m].wait
              BY <5>0
            <7>3. PICK k \in Nat : k = i - 1
              BY <7>2, <5>0, <5>3
            <7>4. GoodFrom(k, m)'
              BY <7>1, <7>2, <7>3, <6>1, <5>3
            <7>5. dispatch'[m].wait = k /\ k > 0
              BY <7>2, <7>3, <5>0, <5>3, <1>2
            <7> QED BY <7>4, <7>5 DEF GoodFrom
          <6>3. dispatch'[m].step = "store"
            BY <5>0, <4>3, <1>2
          <6> QED BY <6>2, <6>3
        <5> QED BY <5>0, <5>1, <5>2, <5>3
      <4> QED BY <4>1, <4>2, <4>3
    <3> QED BY <3>5, <3>6, <1>1 DEF SecuredAt, Bad, GoodFrom
  <2> QED BY <2>1 DEF Secured
<1> QED BY <1>6, <1>7, <1>9, <1>10, <1>11, <1>13, <1>14, <1>15, <1>16, <1>17 DEF Inv

(* The steps of IndexedDB. *)
LEMMA DiskKeeps == ASSUME Inv, Write \/ WriteFails PROVE Inv'
<1>1. CASE Write
  BY <1>1, WriteKeeps DEF Write, Inv, Typed
<1>2. CASE WriteFails
  <2>1. faults' \in 0..MaxFaults
    BY <1>2, FaultBounds DEF WriteFails, Inv
  <2> QED BY <1>2, <2>1, WriteKeeps DEF WriteFails
<1> QED BY <1>1, <1>2

-----------------------------------------------------------------------------
(* The network and the server. *)

(* Two requests of the same message, both awaited or none of them *)
Like(u, x) == u.m = x.m /\ (u.awaited <=> x.awaited)

(* A step of the network: what it leaves on the wire was there, and it      *)
(* admits at most what it takes from there.                                 *)
NetStep ==
    /\ UNCHANGED <<surface, storage, history, faults>>
    /\ wire' \subseteq Requests /\ threads' \in [Threads -> Seq(Messages)]
    /\ \A t \in Threads : AdmittedTo(t) \subseteq AdmittedTo(t)'
    /\ \A x \in wire' : \E y \in wire :
            x.m = y.m /\ x.thread = y.thread /\ x.awaited = y.awaited /\ (y.taken => x.taken)
    /\ \A x, y \in wire' : x # y => \E u, v \in wire : u # v /\ Like(u, x) /\ Like(v, y)
    /\ \A x \in wire' : x.taken => x.awaited /\ x.m \in AdmittedTo(Addressed(x))'
    /\ \A n \in Messages, t \in Threads : n \in AdmittedTo(t)' =>
            n \in AdmittedTo(t) \/ \E x \in wire : x.m = n /\ Addressed(x) = t
    /\ \A t \in Threads : threads'[t] # <<>> => Known(t)'
    /\ \A x \in wire' : ~ x.taken =>
            x \in wire /\ (Admitted(x.m)' => Admitted(x.m) \/ \E y \in wire : y # x /\ y.m = x.m)
    /\ OrderKept'

(* What a step of the network leaves as it was. *)
LEMMA NetFrame ==
    ASSUME NetStep
    PROVE  /\ \A n \in Messages : Launched(n)' => Launched(n)
           /\ \A n \in Messages, t \in Threads : NotIn(n, t) => NotIn(n, t)'
           /\ \A t \in Threads : Known(t) => Known(t)'
<1>1. ASSUME NEW n \in Messages, Launched(n)' PROVE Launched(n)
  <2>1. OnWire(n)' => OnWire(n)
    BY DEF NetStep, OnWire
  <2>2. ASSUME Admitted(n)' PROVE Admitted(n) \/ OnWire(n)
    <3>1. PICK t \in Threads : n \in AdmittedTo(t)'
      BY <2>2 DEF Admitted
    <3> QED BY <3>1 DEF NetStep, Admitted, OnWire
  <2> QED BY <1>1, <2>1, <2>2 DEF Launched
<1>2. ASSUME NEW n \in Messages, NEW t \in Threads, NotIn(n, t) PROVE NotIn(n, t)'
  <2>1. n \notin AdmittedTo(t)'
    BY <1>2 DEF NetStep, NotIn
  <2>2. ASSUME NEW x \in wire', x.m = n PROVE Addressed(x) # t
    <3>1. PICK y \in wire : x.m = y.m /\ x.thread = y.thread
      BY DEF NetStep
    <3> QED BY <1>2, <2>2, <3>1, AddressedIs DEF NotIn
  <2> QED BY <2>1, <2>2 DEF NotIn, Addressed
<1>3. ASSUME NEW t \in Threads, Known(t) PROVE Known(t)'
  BY <1>3 DEF NetStep, Known
<1> QED BY <1>1, <1>2, <1>3

(* A step of the network keeps the invariant. *)
LEMMA NetKeeps ==
    ASSUME Inv, NetStep
    PROVE  Inv'
<1>0. /\ Typed /\ Lined /\ Staged /\ Answered /\ AllValid /\ SentOnce /\ ThreadsKnown
      /\ Secured /\ Single /\ InLine /\ Apart /\ Lost /\ Resuming /\ OrderKept /\ Unremoved
  BY DEF Inv
<1>1. /\ dispatch' = dispatch /\ entries' = entries /\ order' = order /\ handoffs' = handoffs /\ restoring' = restoring
      /\ disk' = disk /\ writes' = writes /\ latest' = latest /\ sent' = sent
      /\ removed' = removed /\ doubted' = doubted /\ refused' = refused /\ early' = early /\ unsaved' = unsaved
      /\ faults' = faults /\ Bad' = Bad
  BY DEF NetStep, surface, storage, history, Bad
<1>2. /\ \A n \in Messages : Launched(n)' => Launched(n)
      /\ \A n \in Messages, t \in Threads : NotIn(n, t) => NotIn(n, t)'
      /\ \A t \in Threads : Known(t) => Known(t)'
  BY NetFrame
<1>3. Typed'
  BY <1>0, <1>1 DEF Typed, Retained, NetStep
<1>4. Lined' /\ Unremoved' /\ Staged'
  BY <1>0, <1>1 DEF Lined, Retained, Unremoved, Staged, StagedAt, Waits
<1>20. \A x, y \in wire' : x # y => \E u, v \in wire : u # v /\ Like(u, x) /\ Like(v, y)
  BY DEF NetStep
<1>5. Answered'
  <2>1. ASSUME NEW x \in wire', x.awaited
        PROVE  /\ dispatch'[x.m].step = "request"
               /\ x.thread \in {None, entries'[x.m].place}
               /\ \A y \in wire' : y.awaited /\ y.m = x.m => y = x
    <3>1. PICK z \in wire : x.m = z.m /\ x.thread = z.thread /\ x.awaited = z.awaited
      BY DEF NetStep
    <3>2. dispatch[z.m].step = "request" /\ z.thread \in {None, entries[z.m].place}
      BY <1>0, <2>1, <3>1 DEF Answered
    <3>3. ASSUME NEW y \in wire', y.awaited, y.m = x.m, y # x PROVE FALSE
      <4>1. \E u, v \in wire : u # v /\ Like(u, x) /\ Like(v, y)
        BY <3>3, <1>20
      <4> QED BY <4>1, <2>1, <3>3, <1>0 DEF Answered, Like
    <3> QED BY <3>1, <3>2, <3>3, <1>1
  <2> QED BY <2>1 DEF Answered, Addressed, NetStep
<1>6. AllValid'
  <2>1. ASSUME NEW n \in Messages, NEW v \in Values(n)', v # None PROVE Valid(n, v)'
    <3>1. v \in Values(n)
      BY <1>1 DEF Values, Later
    <3>2. Valid(n, v)
      BY <3>1, <2>1, <1>0 DEF AllValid, ValidAt
    <3>3. Values(n) \subseteq Entry \cup {None}
      BY <1>0, LaterTyped DEF Values, Typed
    <3>4. v.place \in Threads \cup {Draft}
      BY <3>1, <3>3, <2>1 DEF Entry
    <3>5. v.place # Draft => Known(v.place)'
      BY <3>2, <3>4, <1>2 DEF Valid
    <3> QED BY <3>2, <3>5, <1>1 DEF Valid, SentTo
  <2> QED BY <2>1 DEF AllValid, ValidAt
<1>7. SentOnce'
  <2>1. \A n : Values(n)' = Values(n) /\ (Sent(n)' <=> Sent(n))
    BY <1>1 DEF Values, Later, Sent
  <2> QED BY <2>1, <1>0, <1>1, <1>2 DEF SentOnce
<1>8. ThreadsKnown'
  <2>1. ASSUME NEW x \in wire', x.thread # None PROVE Known(x.thread)'
    <3>1. PICK z \in wire : x.thread = z.thread
      BY DEF NetStep
    <3>2. Known(z.thread) /\ z.thread \in Threads
      BY <2>1, <3>1, <1>0 DEF ThreadsKnown, Typed, Requests
    <3>3. \A t \in Threads : t = z.thread => Known(t)'
      BY <3>2, <1>2
    <3> QED BY <3>1, <3>2, <3>3 DEF Known
  <2> QED BY <2>1 DEF ThreadsKnown, NetStep
<1>9. Secured'
  BY <1>0, <1>1 DEF Secured, SecuredAt, GoodFrom, Val, Later, Due
<1>10. Single'
  <2>1. ASSUME NEW n \in Messages PROVE SingleAt(n)'
    <3> SUFFICES ASSUME Clean(n)', Launched(n)' PROVE SingleAt(n)'
      BY DEF SingleAt
    <3>1. Clean(n) /\ Launched(n) /\ SingleAt(n)
      BY <1>0, <1>1, <1>2 DEF Single, Clean
    <3>2. ASSUME NEW x \in wire', x.m = n
          PROVE  (~ x.taken => ~ Admitted(n)') /\ \A y \in wire' : y.m = n => y = x
      <4>1. \A u, v \in wire : u.m = n /\ v.m = n => u = v
        BY <3>1 DEF SingleAt
      <4>2. ASSUME NEW y \in wire', y.m = n, y # x PROVE FALSE
        <5>1. \E u, v \in wire : u # v /\ u.m = x.m /\ v.m = y.m
          BY <4>2, <3>2, <1>20 DEF Like
        <5> QED BY <5>1, <4>1, <4>2, <3>2
      <4>3. ASSUME ~ x.taken, Admitted(n)' PROVE FALSE
        <5>1. x \in wire /\ (Admitted(x.m) \/ \E y \in wire : y # x /\ y.m = x.m)
          BY <4>3, <3>2 DEF NetStep
        <5> QED BY <5>1, <4>1, <4>3, <3>1, <3>2 DEF SingleAt
      <4> QED BY <4>2, <4>3
    <3> QED BY <3>1, <3>2, <1>1 DEF SingleAt, Later
  <2> QED BY <2>1 DEF Single
<1>11. InLine'
  <2>1. ASSUME NEW a \in Messages, NEW b \in Messages PROVE InLineAt(a, b)'
    <3> SUFFICES ASSUME Waiting(a), SentBefore(a, b) PROVE Ahead(a, b)'
      BY <1>1 DEF InLineAt, Waiting, SentBefore
    <3>1. Ahead(a, b)
      BY <1>0 DEF InLine, InLineAt
    <3>2. entries[a].place \in Threads \cup {Draft}
      BY <1>0, PlaceTyped DEF Waiting
    <3>3. \A t \in Threads : t = entries[a].place /\ NotIn(b, t) => NotIn(b, t)'
      BY <1>2
    <3>4. entries[a].place # Draft => NotIn(b, entries[a].place)'
      BY <3>1, <3>2, <3>3, <1>1 DEF Ahead
    <3> QED BY <3>1, <3>4, <1>1, <1>2 DEF Ahead
  <2> QED BY <2>1 DEF InLine
<1>12. Apart'
  <2>1. ASSUME NEW a \in Messages, NEW n \in Messages PROVE ApartAt(a, n)'
    <3> SUFFICES ASSUME Waiting(a), SentTo(a, Draft), entries[a].place # Draft,
                        entries[n] # None, entries[n].place = Draft
                 PROVE  n # entries[a].place /\ NotIn(n, entries[a].place)'
      BY <1>1 DEF ApartAt, Waiting, SentTo
    <3>1. n # entries[a].place /\ NotIn(n, entries[a].place)
      BY <1>0 DEF Apart, ApartAt
    <3>2. entries[a].place \in Threads
      BY <1>0, PlaceTyped DEF Waiting
    <3>3. \A t \in Threads : t = entries[a].place => NotIn(n, t)'
      BY <3>1, <1>2
    <3> QED BY <3>1, <3>2, <3>3, <1>1
  <2> QED BY <2>1 DEF Apart
<1>13. Lost'
  <2>1. ASSUME NEW x \in wire', ~ x.awaited, x.m \notin Bad
        PROVE  /\ restoring /\ entries[x.m] = None /\ disk[x.m] \in Good
               /\ \A n \in Messages : SentBefore(x.m, n) => NotIn(n, Addressed(x))'
    <3>1. PICK z \in wire : x.m = z.m /\ x.thread = z.thread /\ x.awaited = z.awaited
      BY DEF NetStep
    <3>2. /\ restoring /\ entries[x.m] = None /\ disk[x.m] \in Good
          /\ \A n \in Messages : SentBefore(x.m, n) => NotIn(n, Addressed(z))
      BY <3>1, <2>1, <1>0 DEF Lost
    <3>3. Addressed(x) = Addressed(z) /\ Addressed(x) \in Threads
      BY <3>1, <1>3, AddressedIs DEF Addressed, Typed, Requests, Threads
    <3>4. \A n \in Messages, t \in Threads : t = Addressed(x) /\ NotIn(n, t) => NotIn(n, t)'
      BY <1>2
    <3>5. ASSUME NEW n \in Messages, SentBefore(x.m, n) PROVE NotIn(n, Addressed(x))'
      BY <3>2, <3>3, <3>4, <3>5 DEF Addressed
    <3> QED BY <3>2, <3>5
  <2> QED BY <2>1, <1>1 DEF Lost, SentBefore, Addressed
<1>14. Resuming'
  BY <1>0, <1>1, <1>2 DEF Resuming, SentTo, SentBefore, Later
<1> QED BY <1>3, <1>4, <1>5, <1>6, <1>7, <1>8, <1>9, <1>10, <1>11, <1>12, <1>13, <1>14 DEF Inv, NetStep

(* A request is lost. *)
LEMMA VanishKeeps ==
    ASSUME Inv, NEW w \in wire, Vanish(w)
    PROVE  Inv'
<1>0. Typed /\ Answered /\ ThreadsKnown /\ OrderKept
  BY DEF Inv
<1>1. /\ wire' = wire \ {w} /\ threads' = threads /\ sent' = sent /\ refused' = refused /\ doubted' = doubted
      /\ UNCHANGED <<surface, storage, history, faults>>
  BY DEF Vanish, history
<1>2. \A t : AdmittedTo(t)' = AdmittedTo(t)
  BY <1>1 DEF AdmittedTo
<1>3. OrderKept'
  BY <1>0, <1>1 DEF OrderKept, SentBefore
<1>4. wire' \subseteq Requests /\ threads' \in [Threads -> Seq(Messages)]
  BY <1>0, <1>1 DEF Typed
<1>5. \A x \in wire' : x.taken => x.awaited /\ x.m \in AdmittedTo(Addressed(x))'
  BY <1>0, <1>1 DEF Answered, AdmittedTo, Addressed
<1>6. \A t \in Threads : threads'[t] # <<>> => Known(t)'
  BY <1>0, <1>1 DEF ThreadsKnown, Known, AdmittedTo
<1>7. \A x \in wire' : x \in wire /\ (Admitted(x.m)' => Admitted(x.m))
  BY <1>1 DEF Admitted, AdmittedTo
<1>8. \A x, y \in wire' : x # y => \E u, v \in wire : u # v /\ Like(u, x) /\ Like(v, y)
  BY <1>1 DEF Like
<1>9. \A x \in wire' : \E y \in wire : x.m = y.m /\ x.thread = y.thread /\ x.awaited = y.awaited /\ (y.taken => x.taken)
  BY <1>1
<1>10. NetStep
  BY <1>1, <1>2, <1>3, <1>4, <1>5, <1>6, <1>7, <1>8, <1>9 DEF NetStep
<1> QED BY <1>10, NetKeeps

(* A request is admitted: nothing later can be in its thread before it, for  *)
(* all of that line is behind it.                                            *)
LEMMA AdmitKeeps ==
    ASSUME Inv, NEW w \in wire, Admit(w)
    PROVE  Inv'
<1> DEFINE T == Addressed(w)
           s == threads[T]
           kept == w.m \in Range(s)
           answer == [w EXCEPT !.taken = TRUE]
<1>0. Typed /\ Answered /\ ThreadsKnown /\ OrderKept /\ Staged /\ InLine /\ Lost
  BY DEF Inv
<1>1. /\ ~ w.taken /\ sent' = sent /\ refused' = refused /\ doubted' = doubted
      /\ wire' = (wire \ {w}) \cup (IF w.awaited THEN {answer} ELSE {})
      /\ threads' = [threads EXCEPT ![T] = IF kept THEN s ELSE Append(s, w.m)]
      /\ UNCHANGED <<surface, storage, history, faults>>
  BY DEF Admit, history
<1>2. w \in Requests /\ w.m \in Messages /\ T \in Threads /\ s \in Seq(Messages)
  BY <1>0 DEF Typed, Requests, Addressed, Threads
<1>3. answer \in Requests /\ answer.m = w.m /\ answer.thread = w.thread /\ answer.awaited = w.awaited /\ answer.taken
      /\ Addressed(answer) = T
  BY <1>2 DEF Requests, Addressed
<1> HIDE DEF answer, T
<1>4. /\ threads'[T] = IF kept THEN s ELSE Append(s, w.m)
      /\ \A t \in Threads : t # T => threads'[t] = threads[t]
      /\ threads' \in [Threads -> Seq(Messages)]
  BY <1>0, <1>1, <1>2 DEF Typed
<1>5. /\ AdmittedTo(T)' = AdmittedTo(T) \cup {w.m}
      /\ \A t \in Threads : t # T => AdmittedTo(t)' = AdmittedTo(t)
  <2>1. \A t \in Threads : t # T => AdmittedTo(t)' = AdmittedTo(t)
    BY <1>4 DEF AdmittedTo
  <2>2. AdmittedTo(T)' = Range(threads'[T])
    <3>1. \A t : t = T => AdmittedTo(t)' = Range(threads'[t])
      BY DEF AdmittedTo
    <3> QED BY <3>1
  <2>3. Range(Append(s, w.m)) = Range(s) \cup {w.m}
    <3>1. DOMAIN Append(s, w.m) = 1..(Len(s) + 1) /\ DOMAIN s = 1..Len(s) /\ Len(s) \in Nat
          /\ Append(s, w.m)[Len(s) + 1] = w.m /\ \A i \in 1..Len(s) : Append(s, w.m)[i] = s[i]
      BY <1>2
    <3> HIDE DEF s
    <3>2. \A v : v \in Range(Append(s, w.m)) <=> v \in Range(s) \cup {w.m}
      BY <3>1 DEF Range
    <3> QED BY <3>2
  <2> QED BY <2>1, <2>2, <2>3, <1>4 DEF AdmittedTo
<1>6. \A t \in Threads, n \in Messages : n \in AdmittedTo(t)' => n \in AdmittedTo(t) \/ (n = w.m /\ t = T)
  BY <1>5
<1>7. OrderKept'
  <2> SUFFICES ASSUME NEW t \in Threads, NEW i \in DOMAIN threads'[t], NEW j \in DOMAIN threads'[t],
                      i < j, SentBefore(threads'[t][j], threads'[t][i])
               PROVE  threads'[t][j] \in refused \cup doubted
    BY <1>1 DEF OrderKept, SentBefore
  <2>1. CASE threads'[t] = threads[t]
    BY <2>1, <1>0 DEF OrderKept
  <2>2. CASE threads'[t] # threads[t]
    <3>1. t = T /\ ~ kept /\ threads'[t] = Append(s, w.m)
      BY <2>2, <1>4
    <3>2. Len(s) \in Nat /\ DOMAIN s = 1..Len(s) /\ DOMAIN threads'[t] = 1..(Len(s) + 1)
          /\ (\A k \in 1..Len(s) : threads'[t][k] = s[k]) /\ threads'[t][Len(s) + 1] = w.m
      BY <3>1, <1>2
    <3>3. CASE j # Len(s) + 1
      <4>1. i \in DOMAIN s /\ j \in DOMAIN s /\ threads'[t][i] = s[i] /\ threads'[t][j] = s[j]
        BY <3>2, <3>3
      <4>2. SentBefore(threads[T][j], threads[T][i])
        BY <4>1
      <4>3. s[j] \in refused \cup doubted
        BY <4>1, <4>2, <1>0, <1>2 DEF OrderKept
      <4> QED BY <4>1, <4>3
    <3>4. CASE j = Len(s) + 1
      <4>1. i \in DOMAIN s /\ threads'[t][i] = s[i] /\ threads'[t][j] = w.m
        BY <3>2, <3>4
      <4> DEFINE b == s[i]
      <4>2. b \in Messages /\ b \in AdmittedTo(T) /\ SentBefore(w.m, b)
        BY <4>1, <1>2 DEF AdmittedTo, Range
      <4> HIDE DEF b
      <4> SUFFICES ASSUME w.m \notin Bad PROVE FALSE
        BY <4>1 DEF Bad
      <4>3. ~ NotIn(b, T) /\ Launched(b)
        BY <4>2, <1>2 DEF NotIn, Launched, Admitted
      <4>4. w.awaited
        BY <4>2, <4>3, <1>0 DEF Lost, T
      <4>5. dispatch[w.m] # Idle /\ w.thread \in {None, entries[w.m].place}
        BY <4>4, <1>0 DEF Answered, Idle
      <4>6. Waiting(w.m)
        BY <4>5, <1>0, <1>2 DEF Staged, StagedAt, Waiting
      <4>7. Ahead(w.m, b)
        BY <4>2, <4>6, <1>0, <1>2 DEF InLine, InLineAt
      <4>8. entries[w.m].place # Draft /\ NotIn(b, entries[w.m].place)
        BY <4>3, <4>7 DEF Ahead
      <4>9. w.thread = None
        BY <4>3, <4>5, <4>8 DEF T, Addressed
      <4>10. T = w.m
        BY <4>9 DEF T, Addressed
      <4>11. s # <<>>
        BY <4>1
      <4>12. Known(T)
        BY <4>11, <1>0, <1>2 DEF ThreadsKnown
      <4>13. w.m \in AdmittedTo(T)
        BY <4>10, <4>12, <1>2, OutboxConstants DEF Known
      <4> QED BY <4>13, <3>1 DEF AdmittedTo
    <3> QED BY <3>3, <3>4
  <2> QED BY <2>1, <2>2
<1>8. ASSUME NEW x \in wire'
      PROVE  /\ x \in Requests
             /\ (x = answer /\ w.awaited) \/ (x \in wire /\ x # w)
  BY <1>0, <1>1, <1>3 DEF Typed
<1>9. \A x \in wire' : \E y \in wire : x.m = y.m /\ x.thread = y.thread /\ x.awaited = y.awaited /\ (y.taken => x.taken)
  BY <1>8, <1>3
<1>10. ASSUME NEW x \in wire', NEW y \in wire', x # y
       PROVE  \E u, v \in wire : u # v /\ Like(u, x) /\ Like(v, y)
  <2>1. CASE x = answer
    BY <2>1, <1>8, <1>3, <1>10 DEF Like
  <2>2. CASE y = answer
    BY <2>2, <1>8, <1>3, <1>10 DEF Like
  <2>3. CASE x # answer /\ y # answer
    BY <2>3, <1>8, <1>10 DEF Like
  <2> QED BY <2>1, <2>2, <2>3
<1>11. ASSUME NEW x \in wire', x.taken PROVE x.awaited /\ x.m \in AdmittedTo(Addressed(x))'
  <2>1. CASE x = answer /\ w.awaited
    <3>1. w.m \in AdmittedTo(T)'
      BY <1>5
    <3>2. \A t : t = T => AdmittedTo(t)' = Range(threads'[t])
      BY DEF AdmittedTo
    <3>3. w.m \in Range(threads'[T])
      BY <3>1 DEF AdmittedTo, T, Addressed
    <3> QED BY <2>1, <3>3, <1>3, <1>8 DEF AdmittedTo, Addressed
  <2>2. CASE x \in wire
    <3>1. x \in wire /\ x.awaited /\ x.m \in AdmittedTo(Addressed(x)) /\ Addressed(x) \in Threads
      BY <2>2, <1>8, <1>11, <1>0 DEF Answered, Addressed, Requests, Threads
    <3>2. \A t \in Threads : AdmittedTo(t) \subseteq AdmittedTo(t)'
      BY <1>5
    <3>3. \A t \in Threads : t = Addressed(x) => x.m \in AdmittedTo(t)'
      BY <3>1, <3>2
    <3> QED BY <3>1, <3>3 DEF Addressed
  <2> QED BY <2>1, <2>2, <1>8
<1>12. ASSUME NEW t \in Threads, threads'[t] # <<>> PROVE Known(t)'
  <2>0. Known(t) => Known(t)'
    BY <1>5 DEF Known
  <2>1. CASE threads[t] # <<>>
    BY <2>1, <2>0, <1>0 DEF ThreadsKnown
  <2>2. CASE threads[t] = <<>>
    <3>1. t = T
      BY <2>2, <1>4, <1>12
    <3>2. CASE w.thread = None
      <4>1. t = w.m /\ w.m \in AdmittedTo(t)'
        BY <3>1, <3>2, <1>5 DEF T, Addressed
      <4> QED BY <4>1 DEF Known
    <3>3. CASE w.thread # None
      BY <3>1, <3>3, <2>0, <1>0 DEF ThreadsKnown, T, Addressed
    <3> QED BY <3>2, <3>3
  <2> QED BY <2>1, <2>2
<1>13. ASSUME NEW x \in wire', ~ x.taken
       PROVE  x \in wire /\ (Admitted(x.m)' => Admitted(x.m) \/ \E y \in wire : y # x /\ y.m = x.m)
  <2>1. x \in wire /\ x # w /\ x.m \in Messages
    BY <1>8, <1>13, <1>3 DEF Requests
  <2>2. ASSUME Admitted(x.m)', ~ Admitted(x.m) PROVE x.m = w.m
    BY <2>1, <2>2, <1>6 DEF Admitted
  <2> QED BY <2>1, <2>2
<1>14. \A n \in Messages, t \in Threads : n \in AdmittedTo(t)' =>
            n \in AdmittedTo(t) \/ \E x \in wire : x.m = n /\ Addressed(x) = t
  BY <1>6 DEF T
<1>15. wire' \subseteq Requests /\ \A t \in Threads : AdmittedTo(t) \subseteq AdmittedTo(t)'
  BY <1>5, <1>8
<1>16. NetStep
  BY <1>1, <1>4, <1>7, <1>9, <1>10, <1>11, <1>12, <1>13, <1>14, <1>15 DEF NetStep
<1> QED BY <1>16, NetKeeps

-----------------------------------------------------------------------------
(* Sending. *)

(* The entry of a message that is sent. *)
LEMMA NewEntryIs ==
    ASSUME NEW p \in Threads \cup {Draft}
    PROVE  /\ NewEntry(p) \in Entry /\ NewEntry(p) # None
           /\ NewEntry(p).place = p /\ NewEntry(p).preparing /\ NewEntry(p).delivery = "pending"
           /\ ~ NewEntry(p).stranded /\ Fits(NewEntry(p))
<1>1. Draft \notin Threads /\ None \notin Threads \cup {Draft} /\ None \notin Entry
  BY OutboxConstants
<1>2. CASE p = Draft
  <2>1. NewEntry(p) = [place |-> Draft, thread |-> None, preparing |-> TRUE, delivery |-> "pending", stranded |-> FALSE]
    BY <1>2 DEF NewEntry
  <2>2. NewEntry(p) \in Entry
    BY <2>1, <1>2 DEF Entry
  <2>3. NewEntry(p) # None
    BY <2>2, <1>1
  <2>4. Fits(NewEntry(p))
    BY <2>1, <1>1, <1>2 DEF Fits
  <2> QED BY <2>1, <2>2, <2>3, <2>4, <1>2
<1>3. CASE p \in Threads
  <2>1. NewEntry(p) = [place |-> p, thread |-> p, preparing |-> TRUE, delivery |-> "pending", stranded |-> FALSE]
    BY <1>1, <1>3 DEF NewEntry
  <2>2. NewEntry(p) \in Entry
    BY <2>1, <1>3 DEF Entry
  <2>3. NewEntry(p) # None
    BY <2>2, <1>1
  <2>4. Fits(NewEntry(p))
    BY <2>1, <1>1, <1>3 DEF Fits
  <2> QED BY <2>1, <2>2, <2>3, <2>4, <1>3
<1> QED BY <1>2, <1>3

(* A message at the end of the order *)
LEMMA LastOrder ==
    ASSUME NEW S, NEW ord \in Orders(S), NEW m, m \notin S
    PROVE  ord \cup (S \X {m}) \in Orders(S \cup {m})
<1> DEFINE R == S \cup {m}
           r == ord \cup (S \X {m})
<1>1. r \subseteq R \X R
  BY DEF Orders
<1>2. \A a, b \in R : Before(r, a, b) <=> Before(ord, a, b) \/ (a \in S /\ b = m)
  BY DEF Before
<1>3. \A a, b : Before(ord, a, b) => a \in S /\ b \in S
  BY DEF Orders, Before
<1>4. \A a \in R : ~ Before(r, a, a)
  BY <1>2, <1>3 DEF Orders
<1>5. \A a, b \in R : a = b \/ Before(r, a, b) \/ Before(r, b, a)
  BY <1>2 DEF Orders
<1>6. \A a, b, c \in R : Before(r, a, b) /\ Before(r, b, c) => Before(r, a, c)
  <2>1. \A a, b, c \in S : Before(ord, a, b) /\ Before(ord, b, c) => Before(ord, a, c)
    BY DEF Orders
  <2> HIDE DEF r
  <2> QED BY <1>2, <1>3, <2>1
<1> QED BY <1>1, <1>4, <1>5, <1>6 DEF Orders

(* The history of sending after one more message *)
LEMMA SentAppends ==
    ASSUME Typed, SentOnce, NEW m \in Messages, NEW p \in Threads \cup {Draft}, ~ Sent(m),
           sent' = Append(sent, [m |-> m, to |-> p])
    PROVE  /\ sent' \in Seq([m : Messages, to : Threads \cup {Draft}])
           /\ \A n, q : SentTo(n, q)' <=> SentTo(n, q) \/ (n = m /\ q = p)
           /\ \A n : Sent(n)' <=> Sent(n) \/ n = m
           /\ \A a, b : SentBefore(a, b)' <=> SentBefore(a, b) \/ (b = m /\ SentTo(a, p))
           /\ \A a, b : SentBefore(a, b) => Sent(a) /\ Sent(b) /\ a # b
           /\ \A i, j \in DOMAIN sent' : sent'[i].m = sent'[j].m => i = j
<1> DEFINE k == Len(sent) + 1
<1>1. /\ sent' \in Seq([m : Messages, to : Threads \cup {Draft}])
      /\ DOMAIN sent = 1..Len(sent) /\ DOMAIN sent' = 1..k /\ k \in Nat /\ Len(sent) \in Nat
      /\ sent'[k] = [m |-> m, to |-> p] /\ \A i \in 1..Len(sent) : sent'[i] = sent[i]
  BY DEF Typed
<1>2. \A i \in DOMAIN sent' : i = k \/ i \in DOMAIN sent
  BY <1>1
<1>3. k \in DOMAIN sent' /\ sent'[k].m = m /\ sent'[k].to = p /\ k \notin DOMAIN sent
      /\ \A i \in DOMAIN sent : i \in DOMAIN sent' /\ sent'[i] = sent[i] /\ i < k /\ ~ (k < i)
  BY <1>1
<1> HIDE DEF k
<1>4. \A n, q : SentTo(n, q)' <=> SentTo(n, q) \/ (n = m /\ q = p)
  BY <1>2, <1>3 DEF SentTo
<1>5. \A n : Sent(n)' <=> Sent(n) \/ n = m
  BY <1>2, <1>3 DEF Sent
<1>6. \A i \in DOMAIN sent : sent[i].m # m
  BY DEF Sent
<1>7. ASSUME NEW a, NEW b PROVE SentBefore(a, b)' <=> SentBefore(a, b) \/ (b = m /\ SentTo(a, p))
  <2>1. SentBefore(a, b)' => SentBefore(a, b) \/ (b = m /\ SentTo(a, p))
    <3> SUFFICES ASSUME NEW i \in DOMAIN sent', NEW j \in DOMAIN sent', i < j, sent'[i].m = a, sent'[j].m = b, sent'[i].to = sent'[j].to
                 PROVE  SentBefore(a, b) \/ (b = m /\ SentTo(a, p))
      BY DEF SentBefore
    <3>1. i \in DOMAIN sent
      BY <1>1, <1>2, <1>3
    <3>2. CASE j = k
      BY <3>1, <3>2, <1>3 DEF SentTo
    <3>3. CASE j # k
      BY <3>1, <3>3, <1>2, <1>3 DEF SentBefore
    <3> QED BY <3>2, <3>3
  <2>2. SentBefore(a, b) => SentBefore(a, b)'
    BY <1>3 DEF SentBefore
  <2>3. b = m /\ SentTo(a, p) => SentBefore(a, b)'
    BY <1>3 DEF SentBefore, SentTo
  <2> QED BY <2>1, <2>2, <2>3
<1>8. ASSUME NEW a, NEW b, SentBefore(a, b) PROVE Sent(a) /\ Sent(b) /\ a # b
  <2>1. PICK i \in DOMAIN sent, j \in DOMAIN sent : i < j /\ sent[i].m = a /\ sent[j].m = b
    BY <1>8 DEF SentBefore
  <2>2. i # j
    BY <2>1, <1>1
  <2> QED BY <2>1, <2>2 DEF Sent, SentOnce
<1>9. \A i, j \in DOMAIN sent' : sent'[i].m = sent'[j].m => i = j
  BY <1>2, <1>3, <1>6 DEF SentOnce
<1> QED BY <1>1, <1>4, <1>5, <1>7, <1>8, <1>9

(* To one place only *)
LEMMA SentToOne ==
    ASSUME SentOnce, NEW n, NEW p, NEW q, SentTo(n, p), SentTo(n, q)
    PROVE  p = q
BY DEF SentOnce, SentTo

(* Sending keeps the invariant: the new message is the last of its line. *)
LEMMA SendKeeps ==
    ASSUME Inv, NEW m \in Messages, NEW p \in Threads \cup {Draft}, Send(m, p)
    PROVE  Inv'
<1> DEFINE e == NewEntry(p)
           box == [entries EXCEPT ![m] = e]
           ord == order \cup (Retained \X {m})
<1>0. /\ Typed /\ Lined /\ Staged /\ Answered /\ AllValid /\ SentOnce /\ ThreadsKnown
      /\ Secured /\ Single /\ InLine /\ Apart /\ Lost /\ Resuming /\ OrderKept /\ Unremoved
  BY DEF Inv
<1>1. /\ m \in Unsent /\ (p = Draft \/ (p \in Threads /\ Exists(p)))
      /\ Dispatcher(box, ord, handoffs \cup {m}, dispatch, Persist(writes, entries, box))
      /\ sent' = Append(sent, [m |-> m, to |-> p])
      /\ early' = IF restoring THEN early \cup {m} ELSE early
      /\ restoring' = restoring /\ disk' = disk /\ wire' = wire /\ threads' = threads
      /\ removed' = removed /\ doubted' = doubted /\ refused' = refused /\ unsaved' = unsaved /\ faults' = faults
  BY DEF Send
<1>2. ~ Sent(m)
  BY <1>1 DEF Unsent, Sent
<1>3. /\ sent' \in Seq([m : Messages, to : Threads \cup {Draft}])
      /\ \A n, q : SentTo(n, q)' <=> SentTo(n, q) \/ (n = m /\ q = p)
      /\ \A n : Sent(n)' <=> Sent(n) \/ n = m
      /\ \A a, b : SentBefore(a, b)' <=> SentBefore(a, b) \/ (b = m /\ SentTo(a, p))
      /\ \A a, b : SentBefore(a, b) => Sent(a) /\ Sent(b) /\ a # b
      /\ \A i, j \in DOMAIN sent' : sent'[i].m = sent'[j].m => i = j
  BY <1>0, <1>1, <1>2, SentAppends
<1>4. /\ e \in Entry /\ e # None /\ e.place = p /\ e.preparing /\ e.delivery = "pending"
      /\ ~ e.stranded /\ Fits(e)
  BY NewEntryIs
<1>5. /\ \A v \in Values(m) : v = None
      /\ ~ Launched(m) /\ m \notin removed
  BY <1>0, <1>2 DEF SentOnce
<1>6. entries[m] = None /\ disk[m] = None /\ dispatch[m] = Idle
  BY <1>0, <1>5 DEF Values, Staged, StagedAt
<1> HIDE DEF e
<1>7. box \in Boxes /\ \A n \in Messages : box[n] = IF n = m THEN e ELSE entries[n]
  BY <1>0, <1>4 DEF Typed, Boxes
<1>8. ord \in SUBSET (Messages \X Messages) /\ handoffs \cup {m} \in SUBSET Messages /\ dispatch \in [Messages -> Calls]
      /\ Retained \subseteq Messages /\ m \notin Retained
  BY <1>0, <1>6 DEF Typed, Retained
<1> HIDE DEF box, ord
<1>9. /\ entries' = box /\ order' = Kept(box, ord)
      /\ order' \subseteq Messages \X Messages
      /\ latest' \in BOOLEAN
      /\ handoffs' \subseteq Retained'
      /\ dispatch' \in [Messages -> Calls]
      /\ \A n \in Messages : Called(n, dispatch[n])
      /\ Extends(writes, writes')
      /\ \A n \in Messages :
            /\ AddsTo(n) = IF entries[n] # box[n] THEN {box[n]} ELSE {}
            /\ entries[n] # box[n] => Len(writes') = Len(writes) + 1
  BY <1>0, <1>1, <1>7, <1>8, OnePut
<1>10. /\ entries'[m] = e /\ AddsTo(m) = {e} /\ Len(writes') = Len(writes) + 1
       /\ dispatch'[m] = Idle \/ StartedNow(m)
       /\ \A n \in Messages : n # m => Called(n, dispatch[n]) /\ AddsTo(n) = {} /\ entries'[n] = entries[n]
  BY <1>4, <1>6, <1>7, <1>9 DEF Called
<1>11. Grows
  BY <1>1, <1>3, SameThreads DEF Grows, Bad
<1>12. Typed'
  BY <1>0, <1>1, <1>3, <1>7, <1>9 DEF Typed, Boxes, Extends
<1>13. Lined'
  <2>1. ord \in Orders(Retained \cup {m})
    BY <1>0, <1>8, LastOrder DEF Lined, ord
  <2>2. Retained' = {n \in Retained \cup {m} : box[n] # None}
    BY <1>4, <1>7, <1>9 DEF Retained
  <2>3. Kept(box, ord) \in Orders(Retained')
    BY <2>1, <2>2, QuietOrder
  <2> QED BY <2>3, <1>9 DEF Lined
<1>14. \A n \in Messages : n # m => (entries'[n] # None => dispatch'[n] = dispatch[n] \/ (dispatch[n] = Idle /\ StartedNow(n)))
       /\ (entries[n] = None => dispatch'[n] = Idle)
  BY <1>10 DEF Called
<1>15. Staged'
  <2>1. ASSUME NEW n \in Messages, n # m PROVE StagedAt(n)'
    BY <2>1, <1>0, <1>9, <1>10, StagedFrame DEF Staged
  <2>2. StagedAt(m)'
    <3>1. Len(writes') \in Nat
      BY <1>9, WritesLen DEF Extends
    <3>2. dispatch'[m] = Idle => StagedAt(m)'
      BY DEF StagedAt, Waits, Idle
    <3>3. StartedNow(m) => StagedAt(m)'
      BY <3>1 DEF StagedAt, Waits, StartedNow
    <3> QED BY <3>2, <3>3, <1>10
  <2> QED BY <2>1, <2>2 DEF Staged
<1>16. Answered'
  <2>1. ASSUME NEW w \in wire, w.awaited
        PROVE  dispatch'[w.m].step = "request" /\ entries'[w.m] = entries[w.m]
    <3>1. dispatch[w.m].step = "request" /\ w.m \in Messages
      BY <2>1, <1>0 DEF Answered, Typed, Requests
    <3>2. w.m # m /\ dispatch[w.m] # Idle /\ entries[w.m] # None
      BY <3>1, <1>0, <1>6 DEF Idle, Staged, StagedAt
    <3> QED BY <3>1, <3>2, <1>10, <1>14
  <2> QED BY <2>1, <1>0, <1>1 DEF Answered, AdmittedTo, Addressed
<1>17. AllValid'
  <2>1. ASSUME NEW n \in Messages PROVE ValidAt(n)'
    <3>1. Valid(m, e)'
      <4>1. p # Draft => Known(p)
        BY <1>0, <1>1 DEF Exists, ThreadsKnown, Known
      <4>2. p # Draft => Known(p)'
        BY <4>1, <1>1 DEF Known, AdmittedTo
      <4>3. SentTo(m, p)'
        BY <1>3
      <4>4. e.place # Draft => Known(e.place)'
        BY <4>2, <1>4 DEF Known
      <4>5. SentTo(m, e.place)'
        BY <4>3, <1>4 DEF SentTo
      <4> QED BY <4>4, <4>5, <1>4 DEF Valid
    <3>2. \A v \in {entries'[n]} \cup AddsTo(n) : v \in Values(n) \/ (v \in Entry => Valid(n, v)')
      BY <3>1, <1>10 DEF Values
    <3> QED BY <3>2, <1>0, <1>1, <1>9, <1>11, <1>12, ValidFrame DEF AllValid, Typed
  <2> QED BY <2>1 DEF AllValid
<1>18. \A n : (Admitted(n)' <=> Admitted(n)) /\ (Launched(n)' <=> Launched(n))
       /\ \A t : NotIn(n, t) => NotIn(n, t)'
  <2>1. \A n : (Admitted(n)' <=> Admitted(n)) /\ (Launched(n)' <=> Launched(n))
    BY <1>1 DEF Admitted, AdmittedTo, Launched, OnWire
  <2>2. \A n, t : NotIn(n, t) => NotIn(n, t)'
    BY <1>1 DEF NotIn, AdmittedTo, Addressed
  <2> QED BY <2>1, <2>2
<1>19. SentOnce'
  <2>1. ASSUME NEW n \in Messages, n # m PROVE Values(n)' = Values(n)
    BY <2>1, <1>0, <1>1, <1>9, <1>10, ValuesAre DEF Values
  <2> QED BY <2>1, <1>0, <1>1, <1>3, <1>18 DEF SentOnce
<1>20. ThreadsKnown'
  BY <1>0, <1>1 DEF ThreadsKnown, Known, AdmittedTo
<1>21. Secured'
  <2>1. ASSUME NEW n \in Messages, n # m PROVE SecuredAt(n)'
    <3>1. StagedAt(n) /\ SecuredAt(n) /\ disk'[n] = disk[n]
      BY <1>0, <1>1 DEF Staged, Secured
    <3> QED BY <2>1, <3>1, <1>0, <1>9, <1>10, <1>11, SecuredFrame
  <2>2. SecuredAt(m)'
    BY <1>4, <1>10 DEF SecuredAt
  <2> QED BY <2>1, <2>2 DEF Secured
<1>22. Single'
  <2>1. ASSUME NEW n \in Messages PROVE SingleAt(n)'
    <3> SUFFICES ASSUME Clean(n)', Launched(n)' PROVE SingleAt(n)'
      BY DEF SingleAt
    <3>1. n # m /\ Clean(n) /\ Launched(n) /\ SingleAt(n)
      BY <1>0, <1>5, <1>11, <1>18, CleanStays DEF Single
    <3>2. entries'[n] = entries[n] /\ AddsTo(n) = {} /\ disk'[n] = disk[n]
      BY <3>1, <1>1, <1>10
    <3>3. entries'[n] # None => entries'[n].delivery = "accepted" \/ dispatch'[n] = dispatch[n]
      BY <3>1, <3>2, <1>14 DEF SingleAt, Idle
    <3> QED BY <3>1, <3>2, <3>3, <1>0, <1>1, <1>9, <1>11, <1>18, SingleFrame
  <2> QED BY <2>1 DEF Single
<1>23. \A n : Bad' = Bad /\ (Waiting(n)' /\ n # m /\ n \in Messages => Waiting(n))
  BY <1>1, <1>10 DEF Bad, Waiting
<1>24. \A a, b \in Messages : Before(order, a, b) /\ entries[a] # None /\ entries[b] # None => Before(order', a, b)
  BY <1>7, <1>9, <1>4 DEF ord, Kept, Before
<1>25. InLine'
  <2>1. ASSUME NEW a \in Messages, NEW b \in Messages PROVE InLineAt(a, b)'
    <3> SUFFICES ASSUME Waiting(a)', SentBefore(a, b)' PROVE Ahead(a, b)'
      BY DEF InLineAt
    <3>1. a # m
      BY <1>2, <1>3 DEF Sent, SentTo
    <3>2. Waiting(a) /\ entries'[a] = entries[a] /\ entries[a] # None
      BY <3>1, <1>10, <1>23 DEF Waiting
    <3>3. Open(entries[a])
      BY <3>2 DEF Waiting, Open
    <3>4. CASE b # m
      <4>1. Ahead(a, b)
        BY <3>2, <3>4, <1>0, <1>3 DEF InLine, InLineAt
      <4>2. entries'[b] = entries[b]
        BY <3>4, <1>10
      <4>3. ASSUME entries[b] # None, entries[b].place = entries[a].place
            PROVE  Before(order', a, b) /\ dispatch'[b] = Idle
        <5>1. Before(order, a, b) /\ dispatch[b] = Idle
          BY <4>1, <4>3 DEF Ahead
        <5>2. Before(order', a, b)
          BY <5>1, <4>3, <3>2, <1>24
        <5>3. ~ StartedNow(b)
          BY <5>2, <4>2, <4>3, <3>2, <3>3 DEF StartedNow
        <5> QED BY <5>1, <5>2, <5>3, <4>2, <4>3, <3>4, <1>14
      <4>4. entries[a].place # Draft => NotIn(b, entries[a].place)'
        <5>1. \A t : t = entries[a].place /\ NotIn(b, t) => \E u : u = entries'[a].place /\ NotIn(b, u)'
          BY <3>2, <1>18
        <5> QED BY <5>1, <4>1, <3>2 DEF Ahead, NotIn
      <4> QED BY <4>1, <4>2, <4>3, <4>4, <3>2, <1>18 DEF Ahead
    <3>5. CASE b = m
      <4>1. SentTo(a, p)
        BY <3>5, <1>2, <1>3
      <4>2. ASSUME p = entries[a].place PROVE Before(order', a, m) /\ dispatch'[m] = Idle
        <5>1. Before(ord, a, m)
          BY <3>1, <3>2 DEF ord, Before, Retained
        <5>2. Before(order', a, m)
          BY <5>1, <3>2, <1>4, <1>7, <1>9, <3>1 DEF Kept, Before
        <5>3. ~ StartedNow(m)
          BY <5>2, <4>2, <3>2, <3>3, <1>4, <1>10 DEF StartedNow
        <5> QED BY <5>2, <5>3, <1>10
      <4>3. entries[a].place = Draft => p = Draft
        <5>1. Valid(a, entries[a])
          BY <3>2, EntryValid
        <5> QED BY <5>1, <4>1, <1>0, SentToOne DEF Valid
      <4>4. entries[a].place # Draft => NotIn(m, entries[a].place)'
        <5>1. \A t \in Threads : NotIn(m, t)
          BY <1>5 DEF NotIn, Launched, OnWire, Admitted
        <5>2. entries[a].place # Draft => entries[a].place \in Threads
          BY <1>0, <3>2, PlaceTyped
        <5>3. \A t \in Threads : t = entries[a].place => \E u : u = entries'[a].place /\ NotIn(m, u)'
          BY <5>1, <3>2, <1>18
        <5> QED BY <5>2, <5>3
      <4> QED BY <4>2, <4>3, <4>4, <3>2, <3>5, <1>4, <1>5, <1>10, <1>18 DEF Ahead
    <3> QED BY <3>4, <3>5
  <2> QED BY <2>1 DEF InLine
<1>26. Apart'
  <2>1. ASSUME NEW a \in Messages, NEW n \in Messages PROVE ApartAt(a, n)'
    <3> SUFFICES ASSUME Waiting(a)', SentTo(a, Draft)', entries'[a].place # Draft,
                        entries'[n] # None, entries'[n].place = Draft
                 PROVE  n # entries'[a].place /\ \E t : t = entries'[a].place /\ NotIn(n, t)'
      BY DEF ApartAt
    <3>1. a # m
      <4>1. SentTo(a, Draft) \/ (a = m /\ Draft = p)
        BY <1>3
      <4>2. SentTo(m, Draft) => Sent(m)
        BY DEF Sent, SentTo
      <4> QED BY <4>1, <4>2, <1>2, <1>4, <1>10
    <3>2. Waiting(a) /\ entries'[a] = entries[a] /\ entries[a] # None /\ SentTo(a, Draft)
      BY <3>1, <1>3, <1>10, <1>23 DEF Waiting
    <3>3. entries[a].place \in Threads
      BY <3>2, <1>0, PlaceTyped
    <3>4. CASE n # m
      <4>1. n # entries[a].place /\ NotIn(n, entries[a].place)
        BY <3>2, <3>4, <1>0, <1>10 DEF Apart, ApartAt
      <4> QED BY <4>1, <3>2, <1>18
    <3>5. CASE n = m
      <4>1. \A t \in Threads : NotIn(m, t)
        BY <1>5 DEF NotIn, Launched, OnWire, Admitted
      <4>2. Known(entries[a].place)
        BY <3>2, EntryValid DEF Valid
      <4>3. m # entries[a].place
        BY <4>2, <1>5, <3>3, OutboxConstants DEF Known, Launched, Admitted
      <4> QED BY <4>1, <4>3, <3>2, <3>3, <3>5, <1>18
    <3> QED BY <3>4, <3>5
  <2> QED BY <2>1 DEF Apart
<1>27. Lost'
  <2>1. ASSUME NEW w \in wire, ~ w.awaited, w.m \notin Bad
        PROVE  /\ restoring /\ entries'[w.m] = None /\ disk[w.m] \in Good
               /\ \A n \in Messages : SentBefore(w.m, n)' => NotIn(n, Addressed(w))'
    <3>1. /\ restoring /\ entries[w.m] = None /\ disk[w.m] \in Good
          /\ \A n \in Messages : SentBefore(w.m, n) => NotIn(n, Addressed(w))
      BY <2>1, <1>0 DEF Lost
    <3>2. w.m # m /\ w.m \in Messages
      BY <1>0, <1>5 DEF Launched, OnWire, Typed, Requests
    <3>3. Addressed(w) \in Threads
      BY <1>0 DEF Addressed, Typed, Requests, Threads
    <3>4. ASSUME NEW n \in Messages, SentBefore(w.m, n)' PROVE NotIn(n, Addressed(w))'
      <4>1. CASE n # m
        <5>1. NotIn(n, Addressed(w))
          BY <4>1, <3>1, <3>4, <1>3
        <5> QED BY <5>1, <1>1 DEF NotIn, AdmittedTo, Addressed
      <4>2. CASE n = m
        <5>1. NotIn(m, Addressed(w))
          BY <3>3, <1>5 DEF NotIn, Launched, OnWire, Admitted
        <5> QED BY <5>1, <4>2, <1>1 DEF NotIn, AdmittedTo, Addressed
      <4> QED BY <4>1, <4>2
    <3> QED BY <3>1, <3>2, <3>4, <1>10
  <2> QED BY <2>1, <1>1, <1>23 DEF Lost, Addressed
<1>28. Resuming'
  <2> SUFFICES ASSUME restoring
               PROVE  /\ \A n \in Messages : entries'[n] # None =>
                            /\ disk[n] = None /\ ~ Launched(n) /\ SentTo(n, entries[n].place)' /\ writes' # <<>>
                            /\ dispatch'[n] # Idle => dispatch'[n].step = "capture" /\ dispatch'[n].wait > 0
                            /\ \A o \in Messages : disk[o] # None => ~ SentBefore(n, o)'
                      /\ \A n \in Messages : Later(writes', 0, n) # {} => disk[n] = None
    BY <1>1, <1>18 DEF Resuming
  <2>1. Len(writes') \in Nat /\ Len(writes') > 0 /\ writes' # <<>>
    <3>1. writes \in Writes /\ writes' \in Writes
      BY <1>0, <1>9 DEF Extends, Typed
    <3>2. Len(writes) \in Nat /\ Len(writes') \in Nat
      BY <3>1, WritesLen
    <3>3. Len(writes') > 0
      BY <3>2, <1>10
    <3> QED BY <3>2, <3>3
  <2>2. ASSUME NEW n \in Messages, entries'[n] # None
        PROVE  /\ disk[n] = None /\ ~ Launched(n) /\ SentTo(n, entries[n].place)'
               /\ dispatch'[n] # Idle => dispatch'[n].step = "capture" /\ dispatch'[n].wait > 0
               /\ \A o \in Messages : disk[o] # None => ~ SentBefore(n, o)'
    <3>1. CASE n = m
      <4>1. SentTo(m, p)'
        BY <1>3
      <4>2. SentTo(m, entries[m].place)'
        BY <4>1, <1>4, <1>10 DEF SentTo
      <4>3. \A o : ~ SentBefore(m, o)'
        BY <1>2, <1>3 DEF Sent, SentTo
      <4> QED BY <4>2, <4>3, <3>1, <2>1, <1>5, <1>6, <1>10 DEF StartedNow
    <3>2. CASE n # m
      <4>1. entries[n] # None /\ entries'[n] = entries[n]
        BY <3>2, <2>2, <1>10
      <4>2. /\ disk[n] = None /\ ~ Launched(n) /\ SentTo(n, entries[n].place)
            /\ dispatch[n] # Idle => dispatch[n].step = "capture" /\ dispatch[n].wait > 0
            /\ \A o \in Messages : disk[o] # None => ~ SentBefore(n, o)
        BY <4>1, <1>0 DEF Resuming
      <4>3. \A q : q = entries[n].place => \E r : r = entries'[n].place /\ SentTo(n, r)'
        BY <4>1, <4>2, <1>3
      <4>4. dispatch'[n] # Idle => dispatch'[n].step = "capture" /\ dispatch'[n].wait > 0
        BY <4>2, <3>2, <2>1, <2>2, <1>14 DEF StartedNow
      <4>5. \A o \in Messages : disk[o] # None => ~ SentBefore(n, o)'
        BY <4>2, <1>3, <1>6
      <4> QED BY <4>2, <4>3, <4>4, <4>5 DEF SentTo
    <3> QED BY <3>1, <3>2
  <2>3. ASSUME NEW n \in Messages, Later(writes', 0, n) # {} PROVE disk[n] = None
    <3>1. CASE n = m
      BY <3>1, <1>6
    <3>2. CASE n # m
      <4>1. writes \in Writes /\ writes' \in Writes /\ 0 \in 0..Len(writes)
        BY <1>0, <1>9, WritesLen DEF Extends, Typed
      <4>2. Later(writes', 0, n) = Later(writes, 0, n) \cup AddsTo(n)
        BY <4>1, <1>9, LaterSplits DEF AddsTo
      <4> QED BY <4>2, <3>2, <2>3, <1>0, <1>10 DEF Resuming
    <3> QED BY <3>1, <3>2
  <2> QED BY <2>1, <2>2, <2>3
<1>29. OrderKept'
  <2> SUFFICES ASSUME NEW t \in Threads, NEW i \in DOMAIN threads[t], NEW j \in DOMAIN threads[t],
                      i < j, SentBefore(threads[t][j], threads[t][i])'
               PROVE  threads[t][j] \in refused \cup doubted
    BY <1>1 DEF OrderKept, SentBefore
  <2>1. threads[t][i] \in AdmittedTo(t) /\ threads[t][i] \in Messages
    BY <1>0 DEF AdmittedTo, Range, Typed
  <2>2. threads[t][i] # m
    BY <2>1, <1>5 DEF Launched, Admitted
  <2>3. SentBefore(threads[t][j], threads[t][i])
    BY <2>2, <1>1, <1>3 DEF SentBefore
  <2> QED BY <2>3, <1>0 DEF OrderKept
<1>30. Unremoved'
  BY <1>0, <1>1, <1>5, <1>10 DEF Unremoved
<1> QED BY <1>12, <1>13, <1>15, <1>16, <1>17, <1>19, <1>20, <1>21, <1>22, <1>25, <1>26, <1>27, <1>28, <1>29, <1>30 DEF Inv

-----------------------------------------------------------------------------
(* Reload and restoration. *)

(* A step that gives nothing to the server and puts nothing on the wire that was not there *)
LEMMA WireStays ==
    ASSUME Inv, threads' = threads,
           \A w \in wire' : w \in Requests /\ \E x \in wire : x.m = w.m /\ x.thread = w.thread
    PROVE  /\ \A n \in Messages : Launched(n)' => Launched(n)
           /\ \A n : Admitted(n)' <=> Admitted(n)
           /\ \A n \in Messages, t \in Threads : NotIn(n, t) => NotIn(n, t)'
           /\ ThreadsKnown'
<1>1. \A t : AdmittedTo(t)' = AdmittedTo(t)
  BY DEF AdmittedTo
<1>2. \A n : Admitted(n)' <=> Admitted(n)
  BY <1>1 DEF Admitted
<1>3. \A n \in Messages : OnWire(n)' => OnWire(n)
  BY DEF OnWire
<1>4. ASSUME NEW n \in Messages, NEW t \in Threads, NotIn(n, t) PROVE NotIn(n, t)'
  <2>1. n \notin AdmittedTo(t)'
    BY <1>1, <1>4 DEF NotIn
  <2>2. ASSUME NEW w \in wire', w.m = n PROVE Addressed(w) # t
    <3>1. PICK x \in wire : x.m = w.m /\ x.thread = w.thread
      OBVIOUS
    <3> QED BY <1>4, <2>2, <3>1, AddressedIs DEF NotIn
  <2> QED BY <2>1, <2>2 DEF NotIn, Addressed
<1>5. ThreadsKnown'
  <2>1. \A t : Known(t) => Known(t)'
    BY <1>1 DEF Known
  <2>2. ASSUME NEW w \in wire', w.thread # None PROVE Known(w.thread)'
    <3>1. PICK x \in wire : x.m = w.m /\ x.thread = w.thread
      OBVIOUS
    <3>2. Known(x.thread)
      BY <2>2, <3>1 DEF Inv, ThreadsKnown
    <3>3. \A t : t = x.thread => Known(t)'
      BY <3>2, <2>1
    <3> QED BY <3>1, <3>3 DEF Known
  <2> QED BY <2>1, <2>2 DEF ThreadsKnown, Inv
<1> QED BY <1>2, <1>3, <1>4, <1>5 DEF Launched

(* A reload keeps the invariant: of every awaited request there is a good    *)
(* copy on the disk.                                                         *)
LEMMA ReloadKeeps ==
    ASSUME Inv, Reload
    PROVE  Inv'
<1>0. /\ Typed /\ Lined /\ Staged /\ Answered /\ AllValid /\ SentOnce /\ ThreadsKnown
      /\ Secured /\ Single /\ InLine /\ Apart /\ Lost /\ Resuming /\ OrderKept /\ Unremoved
  BY DEF Inv
<1>1. /\ entries' = [m \in Messages |-> None] /\ order' = {} /\ handoffs' = {}
      /\ dispatch' = [m \in Messages |-> Idle]
      /\ restoring' = TRUE
      /\ writes' = <<>> /\ latest' = TRUE
      /\ wire' = Abandoned(Messages)
      /\ disk' = disk /\ threads' = threads /\ sent' = sent
      /\ removed' = removed /\ doubted' = doubted /\ refused' = refused /\ early' = early /\ unsaved' = unsaved
      /\ Fault
  BY DEF Reload, history
<1>2. ASSUME NEW w \in wire'
      PROVE  /\ w \in Requests /\ w.m \in Messages /\ ~ w.awaited /\ ~ w.taken
             /\ \E x \in wire : x.m = w.m /\ x.thread = w.thread /\ ~ x.taken /\ w = [x EXCEPT !.awaited = FALSE]
  <2>1. w \in Requests /\ w.m \in Messages
    BY <1>0, <1>1, AbandonedIs DEF Requests
  <2> QED BY <2>1, <1>0, <1>1, AbandonedIs
<1>3. /\ \A n \in Messages : Launched(n)' => Launched(n)
      /\ \A n : Admitted(n)' <=> Admitted(n)
      /\ \A n \in Messages, t \in Threads : NotIn(n, t) => NotIn(n, t)'
      /\ ThreadsKnown'
  BY <1>1, <1>2, WireStays
<1>4. \A m \in Messages : entries'[m] = None /\ dispatch'[m] = Idle
  BY <1>1
<1>5. Typed'
  <2>1. Idle \in Calls /\ <<>> \in Writes
    BY DEF Idle, Calls, Writes
  <2>2. faults' \in 0..MaxFaults
    BY <1>0, <1>1, FaultBounds
  <2>3. wire' \subseteq Requests
    BY <1>2
  <2> QED BY <2>1, <2>2, <2>3, <1>0, <1>1 DEF Typed
<1>6. Lined'
  <2>1. Retained' = {}
    BY <1>4 DEF Retained
  <2>2. {} \in Orders({})
    BY DEF Orders
  <2> QED BY <2>1, <2>2, <1>1 DEF Lined
<1>7. Staged' /\ Unremoved' /\ InLine' /\ Apart' /\ Secured'
  BY <1>4 DEF Staged, StagedAt, Waits, Idle, Unremoved, InLine, InLineAt, Apart, ApartAt, Waiting, Secured, SecuredAt
<1>8. Answered'
  BY <1>2 DEF Answered
<1>9. ASSUME NEW m \in Messages PROVE Values(m)' \subseteq Values(m) \cup {None} /\ Later(writes', 0, m) = {}
  BY <1>1, <1>4 DEF Values, Later
<1>10. AllValid'
  <2>1. \A m, v : Valid(m, v)' <=> Valid(m, v)
    BY <1>1 DEF Valid, SentTo, Known, AdmittedTo, Bad
  <2> QED BY <2>1, <1>0, <1>9 DEF AllValid, ValidAt
<1>11. SentOnce'
  <2>1. \A n : Sent(n)' <=> Sent(n)
    BY <1>1 DEF Sent
  <2> QED BY <2>1, <1>0, <1>1, <1>3, <1>9 DEF SentOnce
<1>12. Single'
  <2>1. ASSUME NEW n \in Messages PROVE SingleAt(n)'
    <3> SUFFICES ASSUME Clean(n)', Launched(n)' PROVE SingleAt(n)'
      BY DEF SingleAt
    <3>1. Clean(n) /\ Launched(n) /\ SingleAt(n)
      BY <1>0, <1>1, <1>3 DEF Single, Clean
    <3>2. ASSUME NEW w \in wire', w.m = n
          PROVE  ~ Admitted(n)' /\ \A z \in wire' : z.m = n => z = w
      <4>1. PICK x \in wire : x.m = w.m /\ ~ x.taken /\ w = [x EXCEPT !.awaited = FALSE]
        BY <1>2
      <4>2. ASSUME NEW z \in wire', z.m = n PROVE z = w
        <5>1. PICK y \in wire : y.m = z.m /\ z = [y EXCEPT !.awaited = FALSE]
          BY <1>2
        <5>2. x = y
          BY <5>1, <4>1, <4>2, <3>1, <3>2 DEF SingleAt
        <5> QED BY <5>1, <5>2, <4>1
      <4> QED BY <4>1, <4>2, <3>1, <3>2, <1>3 DEF SingleAt
    <3> QED BY <3>1, <3>2, <1>1, <1>4, <1>9 DEF SingleAt
  <2> QED BY <2>1 DEF Single
<1>13. Lost'
  <2> SUFFICES ASSUME NEW w \in wire', w.m \notin Bad
               PROVE  /\ disk[w.m] \in Good
                      /\ \A n \in Messages : SentBefore(w.m, n) => NotIn(n, Addressed(w))'
    <3>1. Bad' = Bad /\ (\A a, b : SentBefore(a, b)' <=> SentBefore(a, b))
      BY <1>1 DEF Bad, SentBefore
    <3> QED BY <3>1, <1>1, <1>2, <1>4 DEF Lost, Addressed
  <2> DEFINE m == w.m
  <2>1. PICK x \in wire : x.m = m /\ x.thread = w.thread /\ ~ x.taken /\ w = [x EXCEPT !.awaited = FALSE]
    BY <1>2
  <2>2. m \in Messages /\ Addressed(x) = Addressed(w) /\ Addressed(w) \in Threads
    BY <1>2, <2>1, AddressedIs DEF Addressed, Requests, Threads
  <2> HIDE DEF m
  <2>3. disk[m] \in Good /\ \A n \in Messages : SentBefore(m, n) => NotIn(n, Addressed(x))
    <3>1. CASE ~ x.awaited
      BY <3>1, <2>1, <1>0 DEF Lost, m
    <3>2. CASE x.awaited
      <4>1. dispatch[m].step = "request" /\ x.thread \in {None, entries[m].place}
        BY <3>2, <2>1, <1>0 DEF Answered
      <4>2. entries[m] # None /\ entries[m].delivery = "pending" /\ ~ entries[m].preparing
        BY <4>1, <2>2, <1>0 DEF Staged, StagedAt, Idle
      <4>3. Waiting(m)
        BY <4>2 DEF Waiting, m
      <4>4. GoodFrom(0, m)
        BY <4>1, <4>2, <4>3, <2>2, <1>0 DEF Secured, SecuredAt, Waiting
      <4>5. disk[m] \in Good
        BY <4>4 DEF GoodFrom, Val
      <4>6. ~ Admitted(m)
        <5>1. Clean(m) /\ Launched(m)
          BY <4>3, <2>1 DEF Waiting, Clean, Bad, Launched, OnWire
        <5> QED BY <5>1, <2>1, <2>2, <1>0 DEF Single, SingleAt
      <4>7. ASSUME NEW n \in Messages, SentBefore(m, n) PROVE NotIn(n, Addressed(x))
        <5>1. Ahead(m, n)
          BY <4>3, <4>7, <2>2, <1>0 DEF InLine, InLineAt
        <5>2. CASE entries[m].place = Draft
          BY <5>1, <5>2, <2>1, <2>2 DEF Ahead, NotIn, Launched, Admitted, OnWire
        <5>3. CASE entries[m].place # Draft /\ x.thread # None
          BY <5>1, <5>3, <4>1 DEF Ahead, Addressed
        <5>4. CASE x.thread = None
          <6>1. Addressed(x) = m
            BY <5>4, <2>1 DEF Addressed
          <6>2. ~ Known(m)
            BY <4>6, <2>2, OutboxConstants DEF Known, Admitted, Threads
          <6>3. n \notin AdmittedTo(m)
            <7>1. m \in Threads /\ (threads[m] # <<>> => Known(m))
              BY <2>2, <1>0 DEF ThreadsKnown, Threads
            <7>2. threads[m] = <<>>
              BY <6>2, <7>1
            <7> QED BY <7>2 DEF AdmittedTo, Range
          <6>4. n # m
            <7>1. PICK i \in DOMAIN sent, j \in DOMAIN sent : i < j /\ sent[i].m = m /\ sent[j].m = n
              BY <4>7 DEF SentBefore
            <7>2. i # j
              BY <7>1, <1>0 DEF Typed
            <7> QED BY <7>1, <7>2, <1>0 DEF SentOnce
          <6>5. ASSUME NEW y \in wire, y.m = n, Addressed(y) = m PROVE FALSE
            <7>1. y.thread = m /\ y.thread # None
              BY <6>4, <6>5, <2>2, OutboxConstants DEF Addressed, Threads
            <7> QED BY <7>1, <6>2, <1>0 DEF ThreadsKnown
          <6> QED BY <6>1, <6>3, <6>5 DEF NotIn
        <5> QED BY <5>2, <5>3, <5>4
      <4> QED BY <4>5, <4>7
    <3> QED BY <3>1, <3>2
  <2>4. ASSUME NEW n \in Messages, SentBefore(m, n) PROVE NotIn(n, Addressed(w))'
    <3>1. NotIn(n, Addressed(w))
      BY <2>2, <2>3, <2>4
    <3>2. \A t \in Threads : t = Addressed(w) => NotIn(n, t)'
      BY <3>1, <1>3
    <3> QED BY <3>2, <2>2 DEF Addressed
  <2> QED BY <2>3, <2>4 DEF m
<1>14. Resuming'
  BY <1>4, <1>9 DEF Resuming
<1>15. OrderKept'
  BY <1>0, <1>1 DEF OrderKept, SentBefore
<1> QED BY <1>3, <1>5, <1>6, <1>7, <1>8, <1>10, <1>11, <1>12, <1>13, <1>14, <1>15 DEF Inv

(* The outbox holds finitely many messages, for they have been sent. *)
LEMMA RetainedFinite ==
    ASSUME Inv
    PROVE  IsFiniteSet(Retained) /\ Cardinality(Retained) \in Nat
<1> DEFINE S == {sent[i].m : i \in DOMAIN sent}
           f == [i \in DOMAIN sent |-> sent[i].m]
<1>1. Len(sent) \in Nat /\ DOMAIN sent = 1..Len(sent)
  BY DEF Inv, Typed
<1>2. IsFiniteSet(DOMAIN sent)
  <2>1. 1 \in Int /\ Len(sent) \in Int
    BY <1>1
  <2>2. IsFiniteSet(1..Len(sent))
    BY <2>1, FS_Interval
  <2> QED BY <2>2, <1>1
<1>3. f \in Surjection(DOMAIN sent, S)
  BY DEF Surjection
<1>4. IsFiniteSet(S)
  <2> HIDE DEF f, S
  <2> QED BY <1>2, <1>3, FS_Surjection
<1>5. Retained \subseteq S
  BY RetainedIsSent DEF Retained, Sent
<1>6. IsFiniteSet(Retained)
  <2> HIDE DEF f, S
  <2> QED BY <1>4, <1>5, FS_Subset
<1> QED BY <1>6, FS_CardinalityType

(* The elements of a concatenation. *)
LEMMA Joined ==
    ASSUME NEW W, NEW a \in Seq(W), NEW b \in Seq(W), NEW k \in Nat, k = Len(b)
    PROVE  /\ a \o b \in Seq(W) /\ Len(a \o b) = Len(a) + k /\ Len(a) \in Nat
           /\ \A i \in 1..Len(a) : (a \o b)[i] = a[i]
           /\ \A i \in 1..Len(a \o b) : i > Len(a) =>
                i - Len(a) \in 1..k /\ (a \o b)[i] = b[i - Len(a)]
<1>1. Len(a) \in Nat
  OBVIOUS
<1>2. a \o b \in Seq(W) /\ Len(a \o b) = Len(a) + Len(b)
  BY ConcatProperties
<1>3. \A i \in 1..Len(a) + Len(b) : (a \o b)[i] = IF i <= Len(a) THEN a[i] ELSE b[i - Len(a)]
  BY ConcatProperties, ZenonT(30)
<1> DEFINE s == a \o b
<1>4. \A i \in 1..Len(a) : s[i] = a[i]
  <2> HIDE DEF s
  <2>1. \A i \in 1..Len(a) + Len(b) : s[i] = IF i <= Len(a) THEN a[i] ELSE b[i - Len(a)]
    BY <1>3 DEF s
  <2> QED BY <1>1, <2>1
<1>5. \A i \in 1..Len(s) : i > Len(a) => i - Len(a) \in 1..k /\ s[i] = b[i - Len(a)]
  <2>1. Len(s) = Len(a) + k
    BY <1>2
  <2>2. \A i \in 1..Len(a) + k : s[i] = IF i <= Len(a) THEN a[i] ELSE b[i - Len(a)]
    BY <1>3
  <2> HIDE DEF s
  <2> QED BY <1>1, <2>1, <2>2
<1> QED BY <1>1, <1>2, <1>4, <1>5

(* The writes that restoreTransportOutbox adds *)
LEMMA PutAgain ==
    ASSUME Inv, NEW again \in Listings(Retained, order),
           NEW q, q = writes \o [i \in DOMAIN again |-> [m \in {again[i]} |-> entries[m]]]
    PROVE  /\ Extends(writes, q)
           /\ \A m \in Messages : Later(q, Len(writes), m) \subseteq {entries[m]} \ {None}
<1> DEFINE k == Cardinality(Retained)
           puts == [i \in DOMAIN again |-> [m \in {again[i]} |-> entries[m]]]
           W == UNION {[S -> Entry \cup {None}] : S \in SUBSET Messages}
<1>1. again \in [1..k -> Retained] /\ k \in Nat
  BY RetainedFinite DEF Listings
<1>2. writes \in Seq(W) /\ Writes = Seq(W) /\ Retained \subseteq Messages /\ entries \in [Messages -> Entry \cup {None}]
  BY DEF Inv, Typed, Writes, Retained
<1>3. ASSUME NEW i \in 1..k
      PROVE  /\ puts[i] \in W /\ again[i] \in Messages /\ entries[again[i]] # None
             /\ \A m : m \in DOMAIN puts[i] <=> m = again[i]
             /\ puts[i][again[i]] = entries[again[i]]
  <2>1. again[i] \in Messages /\ entries[again[i]] # None
    BY <1>1, <1>2 DEF Retained
  <2>2. puts[i] = [m \in {again[i]} |-> entries[m]]
    BY <1>1
  <2>3. puts[i] \in [{again[i]} -> Entry \cup {None}] /\ {again[i]} \in SUBSET Messages
    BY <2>1, <2>2, <1>2
  <2>4. puts[i] \in W
    BY <2>3
  <2> QED BY <2>1, <2>2, <2>4
<1>4. puts \in Seq(W) /\ Len(puts) = k /\ DOMAIN puts = 1..k
  <2>1. DOMAIN puts = 1..k /\ puts \in [1..k -> W]
    BY <1>1, <1>3
  <2> HIDE DEF puts, W, k
  <2> QED BY <1>1, <2>1
<1> HIDE DEF puts, k, W
<1>5. q = writes \o puts
  BY DEF puts
<1>6. /\ q \in Seq(W) /\ Len(q) = Len(writes) + k /\ Len(writes) \in Nat
      /\ \A i \in 1..Len(writes) : q[i] = writes[i]
      /\ \A i \in 1..Len(q) : i > Len(writes) => i - Len(writes) \in 1..k /\ q[i] = puts[i - Len(writes)]
  <2>1. k \in Nat /\ k = Len(puts)
    BY <1>1, <1>4
  <2>2. writes \in Seq(W) /\ puts \in Seq(W)
    BY <1>2, <1>4
  <2>3. /\ writes \o puts \in Seq(W) /\ Len(writes \o puts) = Len(writes) + k /\ Len(writes) \in Nat
        /\ \A i \in 1..Len(writes) : (writes \o puts)[i] = writes[i]
        /\ \A i \in 1..Len(writes \o puts) : i > Len(writes) =>
             i - Len(writes) \in 1..k /\ (writes \o puts)[i] = puts[i - Len(writes)]
    BY <2>1, <2>2, Joined, ZenonT(30)
  <2> QED BY <2>3, <1>5, Zenon
<1>7. Extends(writes, q)
  <2>1. q \in Writes
    BY <1>2, <1>6
  <2>2. Len(writes) <= Len(q)
    BY <1>1, <1>6
  <2> QED BY <2>1, <2>2, <1>6 DEF Extends
<1>8. ASSUME NEW m \in Messages, NEW v, v \in Later(q, Len(writes), m) PROVE v = entries[m] /\ v # None
  <2>1. PICK i \in DOMAIN q : i > Len(writes) /\ m \in DOMAIN q[i] /\ v = q[i][m]
    BY <1>8 DEF Later
  <2>2. i \in 1..Len(q)
    BY <1>6
  <2>3. PICK j \in 1..k : q[i] = puts[j]
    BY <2>1, <2>2, <1>6
  <2> QED BY <2>1, <2>3, <1>3
<1> QED BY <1>7, <1>8

(* What was saved, and then what was sent meanwhile *)
LEMMA TwoOrders ==
    ASSUME NEW S, NEW T, \A x \in S : x \notin T, NEW r \in Orders(S), NEW s \in Orders(T)
    PROVE  r \cup (s \cap (T \X T)) \cup (S \X T) \in Orders(S \cup T)
<1> DEFINE u == r \cup (s \cap (T \X T)) \cup (S \X T)
<1>1. u \subseteq (S \cup T) \X (S \cup T)
  BY DEF Orders
<1>2. \A a, b \in S \cup T : Before(u, a, b) <=> Before(r, a, b) \/ Before(s, a, b) \/ (a \in S /\ b \in T)
  BY DEF Before, Orders
<1>3. (\A a, b : Before(r, a, b) => a \in S /\ b \in S) /\ (\A a, b : Before(s, a, b) => a \in T /\ b \in T)
  BY DEF Orders, Before
<1>4. \A a \in S \cup T : ~ Before(u, a, a)
  BY <1>2, <1>3 DEF Orders
<1>5. \A a, b \in S \cup T : a = b \/ Before(u, a, b) \/ Before(u, b, a)
  BY <1>2 DEF Orders
<1>6. ASSUME NEW a \in S \cup T, NEW b \in S \cup T, NEW c \in S \cup T, Before(u, a, b), Before(u, b, c)
      PROVE  Before(u, a, c)
  <2>1. (\A x, y, z \in S : Before(r, x, y) /\ Before(r, y, z) => Before(r, x, z))
        /\ (\A x, y, z \in T : Before(s, x, y) /\ Before(s, y, z) => Before(s, x, z))
    BY DEF Orders
  <2> HIDE DEF u
  <2> QED BY <1>2, <1>3, <1>6, <2>1
<1> QED BY <1>1, <1>4, <1>5, <1>6 DEF Orders

(* An entry as it comes back after a reload *)
LEMMA RestoredIs ==
    ASSUME NEW e \in Entry
    PROVE  /\ Restored(e) \in Entry /\ Restored(e) # None
           /\ Restored(e).place = e.place /\ Restored(e).thread = e.thread /\ Restored(e).preparing = e.preparing
           /\ Restored(e).delivery # "pending"
           /\ e.preparing => Restored(e).delivery = "failed" /\ Restored(e).stranded
           /\ ~ e.preparing =>
                /\ Restored(e).stranded = e.stranded
                /\ Restored(e).delivery = IF e.delivery = "pending" THEN "unknown" ELSE e.delivery
<1>1. CASE e.preparing
  <2>1. Restored(e) = [e EXCEPT !.delivery = "failed", !.stranded = TRUE]
    BY <1>1 DEF Restored
  <2>2. Restored(e) \in Entry
    BY <2>1 DEF Entry
  <2>3. Restored(e) # None
    BY <2>2, OutboxConstants
  <2>4. Restored(e).place = e.place /\ Restored(e).thread = e.thread /\ Restored(e).preparing = e.preparing
        /\ Restored(e).delivery = "failed" /\ Restored(e).stranded
    BY <2>1 DEF Entry
  <2> QED BY <2>2, <2>3, <2>4, <1>1
<1>2. CASE ~ e.preparing /\ e.delivery = "pending"
  <2>1. Restored(e) = [e EXCEPT !.delivery = "unknown"]
    BY <1>2 DEF Restored
  <2>2. Restored(e) \in Entry
    BY <2>1 DEF Entry
  <2>3. Restored(e) # None
    BY <2>2, OutboxConstants
  <2>4. Restored(e).place = e.place /\ Restored(e).thread = e.thread /\ Restored(e).preparing = e.preparing
        /\ Restored(e).delivery = "unknown" /\ Restored(e).stranded = e.stranded
    BY <2>1 DEF Entry
  <2> QED BY <2>2, <2>3, <2>4, <1>2
<1>3. CASE ~ e.preparing /\ e.delivery # "pending"
  BY <1>3, OutboxConstants DEF Restored
<1> QED BY <1>1, <1>2, <1>3

(* restoreTransportOutbox keeps the invariant. *)
LEMMA RestoreKeeps ==
    ASSUME Inv, NEW ord \in Orders(Saved), NEW again \in Listings(Retained, order), Restore(ord, again)
    PROVE  Inv'
<1> DEFINE found == [m \in Messages |-> IF disk[m] = None THEN None ELSE Restored(disk[m])]
           box == [m \in Messages |-> IF entries[m] = None THEN found[m] ELSE entries[m]]
           later == Retained \ Saved
           whole == ord \cup (order \cap (later \X later)) \cup (Saved \X later)
           queue == writes \o [i \in DOMAIN again |-> [m \in {again[i]} |-> entries[m]]]
<1>0. /\ Typed /\ Lined /\ Staged /\ Answered /\ AllValid /\ SentOnce /\ ThreadsKnown
      /\ Secured /\ Single /\ InLine /\ Apart /\ Lost /\ Resuming /\ OrderKept /\ Unremoved
  BY DEF Inv
<1>1. /\ restoring /\ restoring' = FALSE
      /\ Dispatcher(box, whole, handoffs, dispatch, queue)
      /\ doubted' = doubted \cup {m \in Messages : box[m] # None /\ box[m].delivery = "unknown"}
      /\ disk' = disk /\ wire' = wire /\ threads' = threads /\ sent' = sent
      /\ removed' = removed /\ refused' = refused /\ early' = early /\ unsaved' = unsaved /\ faults' = faults
  BY DEF Restore
<1>2. ASSUME NEW m \in Messages
      PROVE  /\ entries[m] # None => box[m] = entries[m] /\ disk[m] = None
             /\ entries[m] = None /\ disk[m] = None => box[m] = None
             /\ entries[m] = None /\ disk[m] # None =>
                    box[m] = Restored(disk[m]) /\ disk[m] \in Entry /\ box[m] \in Entry /\ box[m] # None
             /\ box[m] \in Entry \cup {None}
  <2>1. entries[m] \in Entry \cup {None} /\ disk[m] \in Entry \cup {None}
    BY <1>0 DEF Typed
  <2>2. disk[m] # None => Restored(disk[m]) \in Entry /\ Restored(disk[m]) # None
    BY <2>1, RestoredIs
  <2>3. entries[m] # None => disk[m] = None
    BY <1>0, <1>1 DEF Resuming
  <2>4. box[m] = IF entries[m] = None THEN (IF disk[m] = None THEN None ELSE Restored(disk[m])) ELSE entries[m]
    OBVIOUS
  <2> QED BY <2>1, <2>2, <2>3, <2>4
<1>3. box \in Boxes /\ \A m \in Messages : box[m] # None <=> m \in Retained \/ m \in Saved
  <2>1. box \in Boxes
    BY <1>2 DEF Boxes
  <2> HIDE DEF box
  <2> QED BY <2>1, <1>2 DEF Retained, Saved
<1>4. later = Retained /\ \A x \in Saved : x \notin Retained
  BY <1>2 DEF Retained, Saved
<1>5. whole \in Orders(Saved \cup Retained)
  <2>1. order \in Orders(Retained)
    BY <1>0 DEF Lined
  <2> HIDE DEF later
  <2> QED BY <2>1, <1>4, TwoOrders
<1>6. Extends(writes, queue) /\ \A m \in Messages : Later(queue, Len(writes), m) \subseteq {entries[m]} \ {None}
  <2> HIDE DEF queue
  <2>1. queue = writes \o [i \in DOMAIN again |-> [m \in {again[i]} |-> entries[m]]]
    BY DEF queue
  <2> QED BY <2>1, PutAgain
<1>7. whole \in SUBSET (Messages \X Messages)
  BY <1>5 DEF Orders, Saved, Retained
<1> HIDE DEF box, later, whole, queue
<1>8. /\ entries' = box /\ order' = Kept(box, whole) /\ writes' = queue
      /\ order' \subseteq Messages \X Messages
      /\ latest' \in BOOLEAN
      /\ handoffs' \subseteq {m \in Messages : entries'[m] # None} \cup handoffs
      /\ \A m \in handoffs' : box[m] # None
      /\ dispatch' \in [Messages -> Calls]
      /\ \A m \in Messages : Called(m, dispatch[m])
  <2>1. queue \in Writes /\ dispatch \in [Messages -> Calls] /\ latest \in BOOLEAN
    BY <1>0, <1>6 DEF Extends, Typed
  <2> QED BY <2>1, <1>1, <1>3, <1>7, DispatcherEffect
<1>9. Extends(writes, writes') /\ \A m \in Messages : AddsTo(m) \subseteq {entries[m]} \ {None}
  BY <1>6, <1>8 DEF AddsTo
<1>10. Grows
  BY <1>1, SameSent, SameThreads DEF Grows, Bad
<1>11. Typed'
  <2>1. handoffs' \subseteq Retained'
    BY <1>0, <1>8 DEF Retained, Typed
  <2> QED BY <2>1, <1>0, <1>1, <1>3, <1>8, <1>9 DEF Typed, Boxes, Extends
<1>12. Lined'
  <2>1. Retained' = {m \in Saved \cup Retained : box[m] # None}
    BY <1>3, <1>8 DEF Retained, Saved
  <2>2. Kept(box, whole) \in Orders(Retained')
    BY <2>1, <1>5, QuietOrder
  <2> QED BY <2>2, <1>8 DEF Lined
<1>13. ASSUME NEW m \in Messages, entries[m] = None
       PROVE  dispatch'[m] = Idle /\ (entries'[m] # None => entries'[m].delivery # "pending")
  <2>1. dispatch[m] = Idle
    BY <1>0, <1>13 DEF Staged, StagedAt
  <2>2. entries'[m] # None => entries'[m].delivery # "pending"
    BY <1>2, <1>8, <1>13, RestoredIs
  <2> QED BY <2>1, <2>2, <1>8 DEF Called, StartedNow
<1>14. Staged'
  <2>1. ASSUME NEW m \in Messages PROVE StagedAt(m)'
    <3>1. CASE entries[m] = None
      BY <3>1, <1>13 DEF StagedAt, Waits, Idle
    <3>2. CASE entries[m] # None
      <4>1. entries'[m] = entries[m]
        BY <3>2, <1>2, <1>8
      <4> QED BY <3>2, <4>1, <1>0, <1>8, <1>9, StagedFrame DEF Staged
    <3> QED BY <3>1, <3>2
  <2> QED BY <2>1 DEF Staged
<1>15. ASSUME NEW w \in wire PROVE ~ w.awaited /\ ~ w.taken /\ w.m \in Messages
  <2>1. w.m \in Messages
    BY <1>0 DEF Typed, Requests
  <2>2. w.awaited => dispatch[w.m].step = "request" /\ entries[w.m] # None
    BY <2>1, <1>0 DEF Answered, Staged, StagedAt, Idle
  <2>3. ~ w.awaited
    BY <2>1, <2>2, <1>0, <1>1 DEF Resuming, Idle
  <2> QED BY <2>1, <2>3, <1>0 DEF Answered
<1>16. Answered'
  BY <1>1, <1>15 DEF Answered
<1>17. AllValid'
  <2>1. ASSUME NEW m \in Messages PROVE ValidAt(m)'
    <3>0. ValidAt(m) /\ disk'[m] = disk[m] /\ entries'[m] \in Entry \cup {None}
      BY <1>0, <1>1, <1>2, <1>8 DEF AllValid
    <3>1. ASSUME entries[m] = None, disk[m] # None
          PROVE  Valid(m, Restored(disk[m]))'
      <4>1. disk[m] \in Entry /\ Valid(m, disk[m]) /\ box[m] = Restored(disk[m])
        BY <3>0, <3>1, <1>2 DEF ValidAt, Values
      <4> DEFINE d == disk[m]
      <4>2. PICK e \in Entry : e = Restored(d)
        BY <4>1, RestoredIs
      <4>3. /\ e.place = d.place /\ e.thread = d.thread /\ e.delivery # "pending"
            /\ d.preparing => e.delivery = "failed" /\ e.stranded
            /\ ~ d.preparing => e.stranded = d.stranded
                                /\ e.delivery = IF d.delivery = "pending" THEN "unknown" ELSE d.delivery
        BY <4>1, <4>2, RestoredIs
      <4>4. Fits(e) /\ (e.stranded => e.delivery = "failed")
        BY <4>1, <4>3 DEF Valid, Fits
      <4>5. e.delivery = "unknown" => m \in doubted'
        BY <4>1, <4>2, <1>1, <1>2, <3>1
      <4>6. e.delivery = "failed" /\ ~ e.stranded => m \in Bad'
        BY <4>1, <4>3, <1>10 DEF Valid, Grows
      <4>7. e.place # Draft => Known(e.place)'
        BY <4>1, <4>3, <1>1 DEF Valid, Known, AdmittedTo
      <4>8. SentTo(m, Draft)' \/ SentTo(m, e.place)'
        BY <4>1, <4>3, <1>1 DEF Valid, SentTo
      <4>9. Valid(m, e)'
        BY <4>4, <4>5, <4>6, <4>7, <4>8 DEF Valid
      <4> QED BY <4>2, <4>9, <1>1 DEF Valid
    <3>2. \A v \in {entries'[m]} \cup AddsTo(m) : v \in Values(m) \/ (v \in Entry => Valid(m, v)')
      <4>1. CASE entries[m] # None
        BY <4>1, <1>2, <1>8, <1>9 DEF Values
      <4>2. CASE entries[m] = None /\ disk[m] # None
        <5>1. Valid(m, Restored(disk[m]))' /\ entries'[m] = Restored(disk[m])
          BY <4>2, <3>1, <1>2, <1>8
        <5>2. \A v : v = entries'[m] => Valid(m, v)'
          BY <5>1, <1>1 DEF Valid
        <5> QED BY <4>2, <5>2, <1>9
      <4>3. CASE entries[m] = None /\ disk[m] = None
        BY <4>3, <1>2, <1>8, <1>9 DEF Values
      <4> QED BY <4>1, <4>2, <4>3
    <3> QED BY <3>0, <3>2, <1>0, <1>9, <1>10, ValidFrame
  <2> QED BY <2>1 DEF AllValid
<1>18. \A n : (Admitted(n)' <=> Admitted(n)) /\ (Launched(n)' <=> Launched(n)) /\ (Sent(n)' <=> Sent(n))
  BY <1>1 DEF Admitted, AdmittedTo, Launched, OnWire, Sent
<1>19. SentOnce'
  <2>1. ASSUME NEW m \in Messages,
               \/ Launched(m)' \/ m \in removed' \cup doubted' \cup refused'
               \/ \E v \in Values(m)' : v # None
        PROVE  Sent(m)
    <3>1. CASE entries[m] # None \/ disk[m] # None
      BY <3>1, <1>0 DEF SentOnce, Values
    <3>2. CASE entries[m] = None /\ disk[m] = None
      <4>1. box[m] = None /\ m \notin doubted' \ doubted
        BY <3>2, <1>1, <1>2
      <4>2. Values(m)' \subseteq Values(m)
        <5>1. Values(m)' = {entries'[m], disk[m]} \cup Later(writes, 0, m) \cup AddsTo(m)
          BY <1>0, <1>1, <1>9, ValuesAre
        <5> QED BY <5>1, <4>1, <3>2, <1>8, <1>9 DEF Values
      <4> QED BY <4>1, <4>2, <2>1, <1>0, <1>1, <1>18 DEF SentOnce
    <3> QED BY <3>1, <3>2
  <2> QED BY <2>1, <1>0, <1>1, <1>18 DEF SentOnce
<1>20. ThreadsKnown'
  BY <1>0, <1>1 DEF ThreadsKnown, Known, AdmittedTo
<1>21. Secured'
  <2>1. ASSUME NEW m \in Messages PROVE SecuredAt(m)'
    <3>1. StagedAt(m) /\ SecuredAt(m) /\ disk'[m] = disk[m]
      BY <1>0, <1>1 DEF Staged, Secured
    <3>2. ASSUME entries'[m] # None, entries'[m].delivery = "pending", ~ entries'[m].preparing
          PROVE  /\ entries[m] # None /\ entries[m].delivery = "pending" /\ ~ entries[m].preparing
                 /\ AddsTo(m) \subseteq Good
      <4>1. entries[m] # None /\ entries'[m] = entries[m] /\ entries[m] \in Entry
        BY <3>2, <1>2, <1>8, <1>13
      <4> QED BY <4>1, <3>2, <1>9 DEF Good
    <3> QED BY <3>1, <3>2, <1>0, <1>8, <1>9, <1>10, SecuredFrame
  <2> QED BY <2>1 DEF Secured
<1>22. Single'
  <2>1. ASSUME NEW m \in Messages PROVE SingleAt(m)'
    <3> SUFFICES ASSUME Clean(m)', Launched(m)' PROVE SingleAt(m)'
      BY DEF SingleAt
    <3>1. Clean(m) /\ Launched(m) /\ SingleAt(m)
      BY <1>0, <1>10, <1>18, CleanStays DEF Single
    <3>2. entries[m] = None
      BY <3>1, <1>0, <1>1 DEF Resuming
    <3>3. Later(writes', 0, m) = Later(writes, 0, m)
      <4>1. writes \in Writes /\ writes' \in Writes /\ 0 \in 0..Len(writes)
        BY <1>0, <1>9, WritesLen DEF Extends, Typed
      <4>2. Later(writes', 0, m) = Later(writes, 0, m) \cup AddsTo(m)
        BY <4>1, <1>9, LaterSplits DEF AddsTo
      <4> QED BY <4>2, <3>2, <1>9
    <3>4. ASSUME entries'[m] # None PROVE ~ entries'[m].preparing /\ entries'[m].delivery = "accepted"
      <4>1. disk[m] # None /\ entries'[m] = Restored(disk[m]) /\ disk[m] \in Entry
        BY <3>2, <3>4, <1>2, <1>8
      <4>2. ~ disk[m].preparing /\ disk[m].delivery \in {"pending", "accepted"}
        BY <3>1, <4>1 DEF SingleAt, Late
      <4>3. entries'[m].delivery # "unknown"
        BY <3>4, <1>1, <1>8 DEF Clean
      <4> QED BY <4>1, <4>2, <4>3, RestoredIs
    <3> QED BY <3>1, <3>3, <3>4, <1>1, <1>18 DEF SingleAt
  <2> QED BY <2>1 DEF Single
<1>23. ASSUME NEW m \in Messages, Waiting(m)' PROVE Waiting(m) /\ entries'[m] = entries[m] /\ entries[m] # None
  <2>1. entries[m] # None
    BY <1>13, <1>23 DEF Waiting
  <2> QED BY <2>1, <1>2, <1>8, <1>10, <1>23 DEF Waiting, Grows
<1>24. InLine'
  <2>1. ASSUME NEW a \in Messages, NEW b \in Messages PROVE InLineAt(a, b)'
    <3> SUFFICES ASSUME Waiting(a)', SentBefore(a, b) PROVE Ahead(a, b)'
      BY <1>1 DEF InLineAt, SentBefore
    <3>1. Waiting(a) /\ entries'[a] = entries[a] /\ entries[a] # None
      BY <1>23
    <3>2. Ahead(a, b)
      BY <3>1, <1>0 DEF InLine, InLineAt
    <3>3. entries'[b] # None => entries[b] # None /\ entries'[b] = entries[b]
      <4>1. disk[b] = None
        BY <3>1, <1>0, <1>1 DEF Resuming
      <4> QED BY <4>1, <1>2, <1>8
    <3>4. ASSUME entries'[b] # None, entries'[b].place = entries'[a].place
          PROVE  Before(order', a, b) /\ dispatch'[b] = Idle
      <4>1. Before(order, a, b) /\ dispatch[b] = Idle
        BY <3>1, <3>2, <3>3, <3>4 DEF Ahead
      <4>2. a \in Retained /\ b \in Retained
        BY <3>1, <3>3, <3>4 DEF Retained
      <4>3. Before(whole, a, b)
        BY <4>1, <4>2, <1>4 DEF whole, Before
      <4>4. Before(order', a, b)
        BY <4>2, <4>3, <1>3, <1>8 DEF Kept, Before
      <4>5. ~ StartedNow(b)
        BY <4>4, <3>1, <3>4 DEF StartedNow, Waiting, Open
      <4> QED BY <4>1, <4>4, <4>5, <1>8 DEF Called
    <3>5. NotIn(b, entries[a].place) => NotIn(b, entries[a].place)'
      <4>1. \A t : NotIn(b, t) => NotIn(b, t)'
        BY <1>1 DEF NotIn, AdmittedTo, Addressed
      <4>2. \A t : t = entries[a].place => (NotIn(b, t) => \E u : u = entries'[a].place /\ NotIn(b, u)')
        BY <4>1, <3>1
      <4> QED BY <4>2
    <3> QED BY <3>1, <3>2, <3>3, <3>4, <3>5, <1>18 DEF Ahead
  <2> QED BY <2>1 DEF InLine
<1>25. Apart'
  <2>1. ASSUME NEW a \in Messages, NEW n \in Messages PROVE ApartAt(a, n)'
    <3> SUFFICES ASSUME Waiting(a)', SentTo(a, Draft), entries'[a].place # Draft PROVE FALSE
      BY <1>1 DEF ApartAt, SentTo
    <3>1. entries'[a] = entries[a] /\ entries[a] # None
      BY <1>23
    <3>2. SentTo(a, entries[a].place)
      BY <3>1, <1>0, <1>1 DEF Resuming
    <3> QED BY <3>1, <3>2, <1>0, SentToOne
  <2> QED BY <2>1 DEF Apart
<1>26. Lost'
  <2> SUFFICES ASSUME NEW w \in wire, w.m \notin Bad' PROVE FALSE
    BY <1>1 DEF Lost
  <2>1. ~ w.awaited /\ w.m \in Messages /\ w.m \notin Bad
    BY <1>10, <1>15 DEF Grows
  <2>2. entries[w.m] = None /\ disk[w.m] \in Good
    BY <2>1, <1>0 DEF Lost
  <2>3. disk[w.m] # None /\ ~ disk[w.m].preparing /\ disk[w.m].delivery = "pending" /\ disk[w.m] \in Entry
    BY <2>2, OutboxConstants DEF Good
  <2>4. box[w.m] # None /\ box[w.m].delivery = "unknown"
    BY <2>1, <2>2, <2>3, <1>2, RestoredIs
  <2> QED BY <2>1, <2>4, <1>1 DEF Bad
<1>27. Resuming' /\ OrderKept' /\ Unremoved'
  <2>1. Resuming'
    BY <1>1 DEF Resuming
  <2>2. OrderKept'
    BY <1>0, <1>1 DEF OrderKept, SentBefore
  <2>3. Unremoved'
    BY <1>0, <1>1, <1>2, <1>8, <1>13 DEF Unremoved
  <2> QED BY <2>1, <2>2, <2>3
<1> QED BY <1>11, <1>12, <1>14, <1>16, <1>17, <1>19, <1>20, <1>21, <1>22, <1>24, <1>25, <1>26, <1>27 DEF Inv

-----------------------------------------------------------------------------
(* What the surface hears. *)

Result(n, t, moves) ==
    IF entries[n] # None /\ entries[n].place \in moves THEN Moved(entries[n], t) ELSE entries[n]

Heard(t, gone, moves, own) ==
    /\ gone \subseteq AdmittedTo(t) /\ \A n \in gone : entries[n] # None
    /\ \E z \in AdmittedTo(t) : entries[z] # None
    /\ Draft \in moves => \E z \in AdmittedTo(t) : entries[z] # None /\ entries[z].place = Draft
    /\ own \in Messages => own \in AdmittedTo(t) /\ dispatch[own].step = "request"
    /\ entries' \in Boxes /\ order' = Kept(entries', order) /\ order' \subseteq Messages \X Messages
    /\ handoffs' \subseteq Retained' /\ latest' \in BOOLEAN /\ dispatch' \in [Messages -> Calls]
    /\ Extends(writes, writes')
    /\ \A n \in Messages :
        /\ AddsTo(n) \subseteq {entries'[n], Result(n, t, moves)}
        /\ Called(n, IF n = own THEN Idle ELSE dispatch[n])
        /\ n \in gone => entries'[n] = None
        /\ n \notin gone /\ n # own => entries'[n] = Result(n, t, moves)
        /\ n \notin gone /\ n = own =>
            \E d \in {"accepted", "unknown"} :
                entries'[n] = [Result(n, t, moves) EXCEPT !.delivery = d] /\ (d = "unknown" => n \in doubted')
    /\ wire' \subseteq Abandoned(gone) /\ \A w \in wire' : w.m = own => ~ w.awaited
    /\ restoring' = restoring /\ disk' = disk /\ threads' = threads /\ sent' = sent /\ removed' = removed
    /\ refused' = refused /\ early' = early /\ unsaved' = unsaved /\ faults' = faults
    /\ doubted \subseteq doubted' /\ doubted' \subseteq Messages /\ \A n \in doubted' : n \in doubted \/ n = own

(* What else such a step does: what it writes, which message tells of the    *)
(* new chat, and how its own message ends.                                   *)
Told(t, gone, moves, own) ==
    /\ \E b, c, d \in Boxes :
        writes' = Persist(Persist(Persist(Persist(writes, entries, b), b, c), c, d), d, entries')
    /\ Draft \in moves => \E z \in gone \cup {own} : z \in AdmittedTo(t) /\ entries[z] # None /\ entries[z].place = Draft
    /\ own \in Messages \ gone =>
        \/ entries'[own].delivery = "accepted" /\ entries'[own].thread = t /\ doubted' = doubted
        \/ entries[own].thread \notin {None, t}
    /\ own \notin Messages \ gone => doubted' = doubted
    /\ \A n \in Messages : dispatch'[n] # Idle =>
        (n # own /\ dispatch'[n] = dispatch[n]) \/ (StartedNow(n) /\ Free(n))

(* What binding the new chat makes of one entry. *)
LEMMA ResultIs ==
    ASSUME Inv, NEW t \in Threads, NEW n \in Messages, NEW moves \in SUBSET {Draft}
    PROVE  /\ entries[n] = None => Result(n, t, moves) = None
           /\ entries[n] # None =>
                /\ entries[n] \in Entry
                /\ Result(n, t, moves) \in Entry /\ Result(n, t, moves) # None /\ Fits(Result(n, t, moves))
                /\ Result(n, t, moves).preparing = entries[n].preparing
                /\ Result(n, t, moves).delivery = entries[n].delivery
                /\ Result(n, t, moves).stranded = entries[n].stranded
                /\ Result(n, t, moves).place = IF entries[n].place \in moves THEN t ELSE entries[n].place
<1>1. CASE entries[n] = None
  BY <1>1 DEF Result
<1>2. CASE entries[n] # None
  <2>1. entries[n] \in Entry /\ Valid(n, entries[n])
    BY <1>2, EntryValid
  <2>2. CASE entries[n].place \in moves
    BY <1>2, <2>1, <2>2, MovedIs DEF Result
  <2>3. CASE entries[n].place \notin moves
    BY <1>2, <2>1, <2>3 DEF Result, Valid
  <2> QED BY <1>2, <2>1, <2>2, <2>3
<1> QED BY <1>1, <1>2

HeardAt(n, t, gone, moves, own) ==
    /\ n \notin gone /\ entries[n] # None /\ entries[n] \in Entry /\ entries'[n] \in Entry /\ Fits(entries'[n])
    /\ entries'[n].preparing = entries[n].preparing /\ entries'[n].stranded = entries[n].stranded
    /\ entries'[n].place = IF entries[n].place \in moves THEN t ELSE entries[n].place
    /\ n # own => entries'[n] = Result(n, t, moves) /\ entries'[n].delivery = entries[n].delivery
    /\ n = own => /\ entries'[n].delivery \in {"accepted", "unknown"}
                  /\ entries'[n].delivery = "unknown" => n \in doubted'

(* The entry of one message after such a step. *)
LEMMA HeardEntry ==
    ASSUME Inv, NEW t \in Threads, NEW gone, NEW moves \in SUBSET {Draft}, NEW own, Heard(t, gone, moves, own),
           NEW n \in Messages, entries'[n] # None
    PROVE  HeardAt(n, t, gone, moves, own)
<1> DEFINE R == Result(n, t, moves)
<1>1. n \notin gone
  BY DEF Heard
<1>2. CASE n # own
  <2>1. entries'[n] = Result(n, t, moves)
    BY <1>1, <1>2 DEF Heard
  <2> QED BY <1>1, <1>2, <2>1, ResultIs DEF HeardAt
<1>3. CASE n = own
  <2>1. Staged /\ own \in Messages /\ dispatch[own].step = "request"
    BY <1>3 DEF Inv, Heard
  <2>2. entries[n] # None
    BY <2>1, <1>3 DEF Staged, StagedAt, Idle
  <2>3. PICK d \in {"accepted", "unknown"} :
            entries'[n] = [Result(n, t, moves) EXCEPT !.delivery = d] /\ (d = "unknown" => n \in doubted')
    BY <1>1, <1>3 DEF Heard
  <2>4. /\ R \in Entry /\ R.preparing = entries[n].preparing /\ R.stranded = entries[n].stranded /\ Fits(R)
        /\ R.place = IF entries[n].place \in moves THEN t ELSE entries[n].place
        /\ entries[n] \in Entry
    BY <2>2, ResultIs
  <2>5. PICK r \in Entry : r = R /\ entries'[n] = [r EXCEPT !.delivery = d]
    BY <2>3, <2>4
  <2> HIDE DEF R
  <2>6. /\ entries'[n] \in Entry /\ entries'[n].place = R.place /\ entries'[n].thread = R.thread
        /\ entries'[n].preparing = R.preparing /\ entries'[n].stranded = R.stranded /\ entries'[n].delivery = d
    <3> DEFINE f == [r EXCEPT !.delivery = d]
    <3>1. /\ f \in Entry /\ f.place = r.place /\ f.thread = r.thread
          /\ f.preparing = r.preparing /\ f.stranded = r.stranded /\ f.delivery = d
      BY DEF Entry
    <3> HIDE DEF f
    <3>2. entries'[n] = f
      BY <2>5 DEF f
    <3> QED BY <3>1, <3>2, <2>5
  <2>7. Fits(entries'[n])
    BY <2>4, <2>6 DEF Fits
  <2> QED BY <1>1, <1>3, <2>2, <2>3, <2>4, <2>6, <2>7 DEF HeardAt
<1> QED BY <1>2, <1>3

(* A step that hears of admitted messages of one thread keeps the invariant. *)
LEMMA HeardKeeps ==
    ASSUME Inv, NEW t \in Threads, NEW gone, NEW moves \in SUBSET {Draft}, NEW own, Heard(t, gone, moves, own)
    PROVE  Inv'
<1>0. Typed /\ Lined /\ Staged /\ Answered /\ AllValid /\ SentOnce /\ ThreadsKnown /\ Secured /\ Single /\ InLine
      /\ Apart /\ Lost /\ Resuming /\ OrderKept /\ Unremoved
  BY DEF Inv
<1>1. /\ restoring' = restoring /\ disk' = disk /\ threads' = threads /\ sent' = sent /\ removed' = removed
      /\ refused' = refused /\ early' = early /\ unsaved' = unsaved /\ faults' = faults
      /\ order' = Kept(entries', order) /\ Extends(writes, writes') /\ entries' \in Boxes
      /\ gone \subseteq AdmittedTo(t) /\ wire' \subseteq Abandoned(gone) /\ (\A w \in wire' : w.m = own => ~ w.awaited)
      /\ \A n \in Messages :
            AddsTo(n) \subseteq {entries'[n], Result(n, t, moves)} /\ Called(n, IF n = own THEN Idle ELSE dispatch[n])
  BY DEF Heard
<1>2. own \in Messages => /\ own \in AdmittedTo(t) /\ dispatch[own].step = "request" /\ dispatch[own] # Idle
                          /\ entries[own] # None /\ entries[own].delivery = "pending"
  BY <1>0 DEF Heard, Staged, StagedAt, Idle
<1>3. AdmittedTo(t) \subseteq Messages
  <2>1. threads[t] \in Seq(Messages)
    BY <1>0 DEF Typed
  <2>2. \A i \in DOMAIN threads[t] : threads[t][i] \in Messages
    BY <2>1
  <2> QED BY <2>2 DEF AdmittedTo, Range
<1>4. ~ restoring /\ Known(t)
  <2>1. PICK z \in AdmittedTo(t) : entries[z] # None
    BY DEF Heard
  <2>2. z \in Messages /\ Launched(z)
    BY <2>1, <1>3 DEF Launched, Admitted
  <2>3. threads[t] # <<>>
    <3>1. \A i : i \notin DOMAIN <<>>
      OBVIOUS
    <3> QED BY <3>1, <2>1 DEF AdmittedTo, Range
  <2> QED BY <2>1, <2>2, <2>3, <1>0 DEF Resuming, ThreadsKnown
<1>5. Grows
  BY <1>1 DEF Grows, Bad, AdmittedTo, SentTo, Heard
<1>6. \A n \in Messages : /\ Admitted(n)' <=> Admitted(n)
                          /\ \A p : (SentTo(n, p)' <=> SentTo(n, p))
                          /\ (Sent(n)' <=> Sent(n))
  BY <1>1, SameSent, SameThreads
<1>7. ASSUME NEW w \in wire'
      PROVE  /\ w \in Requests
             /\ w.m \notin gone => w \in wire
             /\ w.m \in gone =>
                /\ ~ w.awaited /\ ~ w.taken
                /\ \E x \in wire : x.m = w.m /\ x.thread = w.thread /\ ~ x.taken /\ w = [x EXCEPT !.awaited = FALSE]
  BY <1>0, <1>1, AbandonedIs
<1>8. \A w \in wire' : \E x \in wire : x.m = w.m /\ x.thread = w.thread /\ (x.taken => w.taken)
  BY <1>7
<1>9. ASSUME NEW n \in Messages
      PROVE  /\ Launched(n)' => Launched(n)
             /\ \A p \in Threads : NotIn(n, p) => NotIn(n, p)'
  <2>1. OnWire(n)' => OnWire(n)
    BY <1>8 DEF OnWire
  <2>2. ASSUME NEW p \in Threads, NotIn(n, p) PROVE NotIn(n, p)'
    <3>1. \A w \in wire' : w.m = n => Addressed(w) # p
      BY <1>8, <2>2, AddressedIs DEF NotIn
    <3> QED BY <3>1, <2>2, <1>1 DEF NotIn, AdmittedTo, Addressed
  <2> QED BY <2>1, <2>2, <1>6 DEF Launched
<1>10. ASSUME NEW n \in Messages, entries'[n] # None
       PROVE  /\ n \notin gone /\ entries[n] # None /\ entries[n] \in Entry /\ entries'[n] \in Entry /\ Fits(entries'[n])
              /\ entries'[n].preparing = entries[n].preparing /\ entries'[n].stranded = entries[n].stranded
              /\ entries'[n].place = IF entries[n].place \in moves THEN t ELSE entries[n].place
              /\ n # own => entries'[n] = Result(n, t, moves) /\ entries'[n].delivery = entries[n].delivery
              /\ n = own => /\ entries'[n].delivery \in {"accepted", "unknown"}
                            /\ entries'[n].delivery = "unknown" => n \in doubted'
  <2>1. HeardAt(n, t, gone, moves, own)
    BY <1>10, HeardEntry
  <2> QED BY <2>1 DEF HeardAt
<1>11. Draft \notin Threads /\ None \notin Threads \cup {Draft} /\ None \notin Entry
  BY OutboxConstants
<1>12. ASSUME own \in Messages PROVE dispatch'[own] = Idle
  <2>1. Called(own, Idle)
    BY <1>1, <1>12
  <2>2. ~ StartedNow(own)
    BY <1>10, <1>12 DEF StartedNow
  <2> QED BY <2>1, <2>2 DEF Called
<1>20. Typed'
  <2>1. wire' \subseteq Requests
    BY <1>7
  <2>2. writes' \in Writes
    BY <1>1 DEF Extends
  <2> QED BY <1>0, <1>1, <2>1, <2>2 DEF Typed, Heard, Boxes
<1>21. Lined'
  <2>1. Retained' = {m \in Retained : entries'[m] # None}
    BY <1>10 DEF Retained
  <2>2. order' \in Orders(Retained')
    BY <2>1, <1>0, <1>1, QuietOrder DEF Lined
  <2> QED BY <2>2 DEF Lined
<1>22. ASSUME NEW n \in Messages PROVE StagedAt(n)'
  <2>1. CASE n = own
    BY <2>1, <1>12 DEF StagedAt, Waits, Idle
  <2>2. CASE n # own
    <3>1. Called(n, dispatch[n]) /\ StagedAt(n)
      BY <2>2, <1>0, <1>1 DEF Staged
    <3>2. entries'[n] # None =>
                /\ entries[n] # None
                /\ dispatch[n] # Idle =>
                    /\ entries'[n].delivery = entries[n].delivery /\ entries'[n].preparing = entries[n].preparing
                    /\ entries'[n].place = entries[n].place \/ entries[n].place = Draft
      BY <2>2, <1>10
    <3> QED BY <3>1, <3>2, <1>0, <1>1, StagedFrame
  <2> QED BY <2>1, <2>2
<1>23. Answered'
  <2>1. ASSUME NEW w \in wire', w.awaited
        PROVE  /\ dispatch'[w.m].step = "request"
               /\ w.thread \in {None, entries'[w.m].place}
               /\ \A x \in wire' : x.awaited /\ x.m = w.m => x = w
    <3>1. w \in wire /\ w.m # own /\ w.m \notin gone /\ w.m \in Messages /\ w.thread \in Threads \cup {None}
      BY <2>1, <1>1, <1>7 DEF Requests
    <3>2. /\ dispatch[w.m].step = "request"
          /\ w.thread \in {None, entries[w.m].place}
          /\ \A x \in wire : x.awaited /\ x.m = w.m => x = w
      BY <1>0, <2>1, <3>1 DEF Answered
    <3>3. entries[w.m] # None /\ dispatch[w.m] # Idle
      BY <1>0, <3>1, <3>2 DEF Staged, StagedAt, Idle
    <3>4. entries'[w.m] = Result(w.m, t, moves)
      BY <3>1 DEF Heard
    <3>5. entries'[w.m] # None
      BY <3>1, <3>3, <3>4, ResultIs
    <3>6. dispatch'[w.m] = dispatch[w.m]
      BY <1>1, <3>1, <3>3, <3>5 DEF Called
    <3>7. w.thread \in {None, entries'[w.m].place}
      BY <1>10, <1>11, <3>1, <3>2, <3>5
    <3>8. \A x \in wire' : x.awaited /\ x.m = w.m => x = w
      BY <1>7, <3>1, <3>2
    <3> QED BY <3>2, <3>6, <3>7, <3>8
  <2>2. ASSUME NEW w \in wire', w.taken
        PROVE  w.awaited /\ w.m \in AdmittedTo(Addressed(w))'
    <3>1. w \in wire
      BY <2>2, <1>7
    <3>2. w.awaited /\ w.m \in AdmittedTo(Addressed(w))
      BY <1>0, <2>2, <3>1 DEF Answered
    <3> QED BY <3>2, <1>1 DEF AdmittedTo, Addressed
  <2> QED BY <2>1, <2>2 DEF Answered, Addressed
<1>24. ASSUME NEW n \in Messages PROVE ValidAt(n)'
  <2>1. ValidAt(n) /\ disk'[n] = disk[n] /\ entries'[n] \in Entry \cup {None}
    BY <1>0, <1>1 DEF AllValid, Boxes
  <2>2. ASSUME NEW e \in Entry, entries[n] # None, Fits(e), e.stranded = entries[n].stranded,
               e.place = IF entries[n].place \in moves THEN t ELSE entries[n].place,
               e.delivery = entries[n].delivery
               \/ (~ e.stranded /\ e.delivery \in {"accepted", "unknown"} /\ (e.delivery = "unknown" => n \in doubted'))
        PROVE  Valid(n, e)'
    <3>1. Valid(n, entries[n]) /\ entries[n] \in Entry
      BY <2>2, EntryValid
    <3>2. e.place # Draft => Known(e.place)
      BY <2>2, <3>1, <1>4 DEF Valid
    <3>3. SentTo(n, Draft) \/ SentTo(n, e.place)
      BY <2>2, <3>1 DEF Valid
    <3>4. e.place # Draft => Known(e.place)'
      BY <3>2, <1>1 DEF Known, AdmittedTo
    <3>5. SentTo(n, Draft)' \/ SentTo(n, e.place)'
      BY <3>3, <1>6
    <3>6. e.stranded => e.delivery = "failed"
      BY <2>2, <3>1 DEF Valid
    <3>7. (e.delivery = "failed" /\ ~ e.stranded => n \in Bad') /\ (e.delivery = "unknown" => n \in doubted')
      BY <2>2, <3>1, <1>5 DEF Valid, Grows
    <3> QED BY <2>2, <3>4, <3>5, <3>6, <3>7 DEF Valid
  <2>4. ASSUME entries'[n] \in Entry PROVE \A e : e = entries'[n] => Valid(n, e)'
    <3> SUFFICES ASSUME NEW e, e = entries'[n] PROVE Valid(n, e)'
      OBVIOUS
    <3>1. entries'[n] # None
      BY <2>4, <1>11
    <3>2. entries[n] # None /\ Valid(n, entries[n])
      BY <3>1, <1>10, EntryValid
    <3>3. n = own => ~ entries[n].stranded
      BY <3>2, <1>2 DEF Valid
    <3> QED BY <2>2, <3>1, <3>2, <3>3, <2>4, <1>10
  <2>5. \A v \in {entries'[n]} \cup AddsTo(n) : v \in Values(n) \/ (v \in Entry => Valid(n, v)')
    <3> SUFFICES ASSUME NEW v \in {entries'[n]} \cup AddsTo(n), v \in Entry PROVE Valid(n, v)'
      OBVIOUS
    <3>1. v = entries'[n] \/ v = Result(n, t, moves)
      BY <1>1
    <3>2. CASE v = entries'[n]
      BY <3>2, <2>4
    <3>3. CASE v = Result(n, t, moves)
      <4>1. entries[n] # None
        BY <3>3, <1>11, ResultIs
      <4> QED BY <2>2, <3>3, <4>1, ResultIs
    <3> QED BY <3>1, <3>2, <3>3
  <2> QED BY <1>0, <1>1, <1>5, <2>1, <2>5, ValidFrame
<1>25. SentOnce'
  <2>1. ASSUME NEW n \in Messages,
               \/ Launched(n)' \/ n \in removed' \cup doubted' \cup refused'
               \/ \E v \in Values(n)' : v # None
        PROVE  Sent(n)'
    <3>1. n \in doubted' => n \in doubted \/ Launched(n)
      BY <1>2 DEF Heard, Launched, Admitted
    <3>2. ASSUME NEW v \in Values(n)', v # None PROVE \E u \in Values(n) : u # None
      <4>1. v \in {entries'[n], Result(n, t, moves)} \cup Values(n)
        BY <1>0, <1>1, ValuesAre DEF Values
      <4>2. v \in {entries'[n], Result(n, t, moves)} => entries[n] # None
        BY <3>2, <1>10, ResultIs
      <4> QED BY <3>2, <4>1, <4>2 DEF Values
    <3>3. Sent(n)
      BY <1>0, <1>1, <1>9, <2>1, <3>1, <3>2 DEF SentOnce
    <3> QED BY <3>3, <1>6
  <2>2. \A i, j \in DOMAIN sent' : sent'[i].m = sent'[j].m => i = j
    BY <1>0, <1>1 DEF SentOnce
  <2> QED BY <2>1, <2>2 DEF SentOnce
<1>26. ThreadsKnown'
  <2>1. \A p : Known(p) => Known(p)'
    BY <1>1 DEF Known, AdmittedTo
  <2> QED BY <2>1, <1>0, <1>1, <1>8 DEF ThreadsKnown
<1>27. ASSUME NEW n \in Messages PROVE SecuredAt(n)'
  <2>1. CASE n = own
    BY <2>1, <1>10 DEF SecuredAt
  <2>2. CASE n # own
    <3>1. Called(n, dispatch[n]) /\ StagedAt(n) /\ SecuredAt(n) /\ disk'[n] = disk[n]
      BY <2>2, <1>0, <1>1 DEF Staged, Secured
    <3>2. entries'[n] # None /\ entries'[n].delivery = "pending" /\ ~ entries'[n].preparing =>
            /\ entries[n] # None /\ entries[n].delivery = "pending" /\ ~ entries[n].preparing
            /\ AddsTo(n) \subseteq Good
      BY <2>2, <1>1, <1>10 DEF Good
    <3> QED BY <3>1, <3>2, <1>0, <1>1, <1>5, SecuredFrame
  <2> QED BY <2>1, <2>2
<1>28. ASSUME NEW n \in Messages PROVE SingleAt(n)'
  <2> SUFFICES ASSUME Clean(n)', Launched(n)' PROVE SingleAt(n)'
    BY DEF SingleAt
  <2>1. SingleAt(n) /\ Clean(n) /\ Launched(n)
    BY <1>0, <1>5, <1>9, CleanStays DEF Single
  <2>2. entries[n] # None =>
            ~ entries[n].preparing /\ (entries[n].delivery = "accepted" \/ dispatch[n].step = "request")
    BY <2>1 DEF SingleAt
  <2>3. dispatch[n].step = "request" => dispatch[n] # Idle /\ entries[n] # None /\ entries[n].delivery = "pending"
    BY <1>0 DEF Staged, StagedAt, Idle
  <2>4. entries'[n] # None =>
            /\ entries[n] # None /\ entries'[n].preparing = entries[n].preparing
            /\ \/ entries'[n].delivery = "accepted"
               \/ entries'[n].delivery = entries[n].delivery /\ dispatch'[n] = dispatch[n]
    <3> SUFFICES ASSUME entries'[n] # None
                 PROVE  /\ entries[n] # None /\ entries'[n].preparing = entries[n].preparing
                        /\ \/ entries'[n].delivery = "accepted"
                           \/ entries'[n].delivery = entries[n].delivery /\ dispatch'[n] = dispatch[n]
      OBVIOUS
    <3>1. CASE n = own
      BY <3>1, <1>10 DEF Clean
    <3>2. CASE n # own
      BY <3>2, <1>1, <1>10, <2>2, <2>3 DEF Called
    <3> QED BY <3>1, <3>2
  <2>5. AddsTo(n) \subseteq Late
    <3>1. entries'[n] \in Late
      BY <2>2, <2>3, <2>4, <1>10 DEF Late
    <3>2. Result(n, t, moves) \in Late
      <4>1. entries[n] = None => Result(n, t, moves) = None
        BY ResultIs
      <4>2. entries[n] # None =>
              /\ Result(n, t, moves) \in Entry
              /\ Result(n, t, moves).preparing = entries[n].preparing
              /\ Result(n, t, moves).delivery = entries[n].delivery
        BY ResultIs
      <4> QED BY <4>1, <4>2, <2>2, <2>3 DEF Late
    <3> QED BY <3>1, <3>2, <1>1
  <2>6. \A w \in wire' : w.m = n => \E x \in wire : x.m = n /\ (x.taken => w.taken)
    BY <1>8
  <2>7. \A w, x \in wire' : w.m = n /\ x.m = n /\ w # x => \E y, z \in wire : y # z /\ y.m = n /\ z.m = n
    <3> SUFFICES ASSUME NEW w \in wire', NEW x \in wire', w.m = n, x.m = n, w # x
                 PROVE  \E y, z \in wire : y # z /\ y.m = n /\ z.m = n
      OBVIOUS
    <3>1. CASE n \notin gone
      BY <3>1, <1>7
    <3>2. CASE n \in gone
      <4>1. PICK y \in wire : y.m = n /\ w = [y EXCEPT !.awaited = FALSE]
        BY <3>2, <1>7
      <4>2. PICK z \in wire : z.m = n /\ x = [z EXCEPT !.awaited = FALSE]
        BY <3>2, <1>7
      <4> QED BY <4>1, <4>2
    <3> QED BY <3>1, <3>2
  <2> QED BY <1>0, <1>1, <1>5, <1>6, <2>1, <2>4, <2>5, <2>6, <2>7, SingleFrame
<1>29. ASSUME NEW a \in Messages, Waiting(a)'
       PROVE  /\ Waiting(a) /\ a # own /\ entries'[a] # None
              /\ entries'[a].place = IF entries[a].place \in moves THEN t ELSE entries[a].place
              /\ Open(entries'[a]) /\ entries[a].place \in Threads \cup {Draft}
  <2>1. entries'[a] # None /\ entries'[a].delivery = "pending" /\ a \notin Bad'
    BY <1>29 DEF Waiting
  <2>2. a # own
    BY <2>1, <1>10
  <2>3. entries[a].place \in Threads \cup {Draft}
    BY <2>1, <1>10 DEF Entry
  <2> QED BY <2>1, <2>2, <2>3, <1>5, <1>10 DEF Waiting, Open, Grows
<1>30. InLine'
  <2>1. ASSUME NEW a \in Messages, NEW b \in Messages PROVE InLineAt(a, b)'
    <3> SUFFICES ASSUME Waiting(a)', SentBefore(a, b)' PROVE Ahead(a, b)'
      BY DEF InLineAt
    <3>1. Waiting(a) /\ SentBefore(a, b) /\ a # own
      BY <1>1, <1>29 DEF SentBefore
    <3>2. Ahead(a, b)
      BY <3>1, <1>0 DEF InLine, InLineAt
    <3>3. ASSUME entries[b] # None, entries'[b] # None, entries[b].place = entries[a].place,
                 entries'[b].place = entries'[a].place
          PROVE  Before(order', a, b) /\ dispatch'[b] = Idle
      <4>1. Before(order, a, b) /\ dispatch[b] = Idle
        BY <3>2, <3>3 DEF Ahead
      <4>2. Before(order', a, b)
        BY <4>1, <3>3, <1>1, <1>29 DEF Kept, Before
      <4>3. ~ StartedNow(b)
        BY <4>2, <3>3, <1>29 DEF StartedNow
      <4>4. Called(b, Idle)
        BY <4>1, <1>1
      <4> QED BY <4>2, <4>3, <4>4 DEF Called
    <3>4. CASE entries[a].place = Draft /\ Draft \notin moves
      <4>1. entries'[a].place = Draft
        BY <3>4, <1>29
      <4>2. ~ Launched(b)' /\ (entries'[b] # None => entries'[b].place = Draft /\ entries[b] # None /\ entries[b].place = Draft)
        BY <3>2, <3>4, <1>9, <1>10 DEF Ahead
      <4> QED BY <3>3, <3>4, <4>1, <4>2 DEF Ahead
    <3>5. CASE entries[a].place = Draft /\ Draft \in moves
      <4>1. entries'[a].place = t
        BY <3>5, <1>29
      <4>2. ~ Launched(b) /\ (entries'[b] # None => entries[b] # None /\ entries[b].place = Draft)
        BY <3>2, <3>5, <1>10 DEF Ahead
      <4>3. NotIn(b, t)
        BY <4>2 DEF NotIn, Launched, OnWire, Admitted
      <4>4. NotIn(b, t)'
        BY <4>3, <1>9
      <4>5. \E p : p = entries'[a].place /\ NotIn(b, p)'
        BY <4>1, <4>4 DEF NotIn, AdmittedTo, Addressed
      <4>6. t # Draft
        BY <1>11
      <4> QED BY <3>3, <3>5, <4>1, <4>2, <4>5, <4>6 DEF Ahead
    <3>6. CASE entries[a].place # Draft
      <4>1. entries'[a].place = entries[a].place /\ entries[a].place \in Threads
        BY <3>6, <1>29
      <4>2. NotIn(b, entries[a].place)
        BY <3>2, <3>6 DEF Ahead
      <4>3. \E p : p = entries'[a].place /\ NotIn(b, p)'
        BY <4>1, <4>2, <1>9
      <4>4. ASSUME entries'[b] # None, entries'[b].place = entries'[a].place
            PROVE  entries[b] # None /\ entries[b].place = entries[a].place
        <5>1. entries[b] # None /\ (entries[b].place = entries[a].place \/ (Draft \in moves /\ entries[b].place = Draft /\ t = entries[a].place))
          BY <4>1, <4>4, <1>10
        <5> SUFFICES ASSUME Draft \in moves, entries[b].place = Draft, t = entries[a].place PROVE FALSE
          BY <5>1
        <5>2. SentTo(b, Draft)
          BY <5>1, EntryValid DEF Valid
        <5>3. SentTo(a, Draft)
          BY <3>1, <5>2, <1>0 DEF SentBefore, SentTo, SentOnce
        <5>4. PICK z \in AdmittedTo(t) : entries[z] # None /\ entries[z].place = Draft
          BY DEF Heard
        <5> QED BY <5>3, <5>4, <3>1, <3>6, <1>0, <1>3 DEF Apart, ApartAt, NotIn
      <4> QED BY <3>3, <3>6, <4>1, <4>3, <4>4 DEF Ahead
    <3> QED BY <3>4, <3>5, <3>6
  <2> QED BY <2>1 DEF InLine
<1>31. Apart'
  <2>1. ASSUME NEW a \in Messages, NEW n \in Messages PROVE ApartAt(a, n)'
    <3> SUFFICES ASSUME Waiting(a)', SentTo(a, Draft)', entries'[a].place # Draft,
                        entries'[n] # None, entries'[n].place = Draft
                 PROVE  n # entries'[a].place /\ \E p : p = entries'[a].place /\ NotIn(n, p)'
      BY DEF ApartAt
    <3>1. entries[n] # None /\ entries[n].place = Draft /\ Draft \notin moves
      BY <1>10, <1>11
    <3>2. Waiting(a) /\ SentTo(a, Draft) /\ entries'[a].place = entries[a].place /\ entries[a].place \in Threads
      BY <3>1, <1>6, <1>29
    <3>3. n # entries[a].place /\ NotIn(n, entries[a].place)
      BY <3>1, <3>2, <1>0 DEF Apart, ApartAt
    <3> QED BY <3>2, <3>3, <1>9
  <2> QED BY <2>1 DEF Apart
<1>32. Lost'
  <2>1. ASSUME NEW w \in wire', ~ w.awaited, w.m \notin Bad' PROVE FALSE
    <3>1. w.m \in Messages /\ w.m \notin Bad
      BY <2>1, <1>5, <1>7 DEF Requests, Grows
    <3>2. CASE w.m \notin gone
      BY <3>1, <3>2, <2>1, <1>0, <1>4, <1>7 DEF Lost
    <3>3. CASE w.m \in gone
      <4>1. PICK x \in wire : x.m = w.m /\ ~ x.taken
        BY <3>3, <1>7
      <4>2. Admitted(w.m) /\ Launched(w.m) /\ Clean(w.m)
        BY <3>1, <3>3, <1>1 DEF Admitted, Launched, Clean, Bad
      <4> QED BY <4>1, <4>2, <3>1, <1>0 DEF Single, SingleAt
    <3> QED BY <3>2, <3>3
  <2> QED BY <2>1 DEF Lost
<1>33. Resuming'
  BY <1>1, <1>4 DEF Resuming
<1>34. OrderKept'
  BY <1>0, <1>1 DEF OrderKept, SentBefore, Heard
<1>35. Unremoved'
  BY <1>0, <1>1, <1>10 DEF Unremoved
<1> QED BY <1>20, <1>21, <1>22, <1>23, <1>24, <1>25, <1>26, <1>27, <1>28, <1>30, <1>31, <1>32, <1>33, <1>34, <1>35
        DEF Inv, Staged, AllValid, Secured, Single

(* Two changes of the outbox, each persisted. *)
LEMMA PersistTwice ==
    ASSUME NEW q \in Writes, NEW b0 \in Boxes, NEW b1 \in Boxes, NEW b2 \in Boxes
    PROVE  /\ Persist(Persist(q, b0, b1), b1, b2) \in Writes
           /\ Extends(q, Persist(Persist(q, b0, b1), b1, b2))
           /\ \A m \in Messages : \A v \in Later(Persist(Persist(q, b0, b1), b1, b2), Len(q), m) :
                (b0[m] # b1[m] /\ v = b1[m]) \/ (b1[m] # b2[m] /\ v = b2[m])
<1> DEFINE r == Persist(q, b0, b1)
           s == Persist(r, b1, b2)
<1>1. b0 \in [Messages -> Entry \cup {None}] /\ b1 \in [Messages -> Entry \cup {None}]
      /\ b2 \in [Messages -> Entry \cup {None}]
  BY DEF Boxes
<1>2. r \in Writes /\ Extends(q, r) /\ \A m \in Messages : Later(r, Len(q), m) = IF b0[m] # b1[m] THEN {b1[m]} ELSE {}
  BY <1>1, PersistTyped, PersistAdds
<1> HIDE DEF r
<1>3. s \in Writes /\ Extends(r, s) /\ \A m \in Messages : Later(s, Len(r), m) = IF b1[m] # b2[m] THEN {b2[m]} ELSE {}
  BY <1>1, <1>2, PersistTyped, PersistAdds
<1> HIDE DEF s
<1>4. Extends(q, s)
  BY <1>2, <1>3, ExtendsTwice
<1>5. \A m : Later(s, Len(q), m) = Later(r, Len(q), m) \cup Later(s, Len(r), m)
  BY <1>2, <1>3, AddedTwice
<1>6. s \in Writes /\ Extends(q, s)
      /\ \A m \in Messages : \A v \in Later(s, Len(q), m) :
            (b0[m] # b1[m] /\ v = b1[m]) \/ (b1[m] # b2[m] /\ v = b2[m])
  BY <1>2, <1>3, <1>4, <1>5
<1> QED BY <1>6 DEF s, r

(* persist writes nothing when nothing has changed. *)
LEMMA PersistNothing == ASSUME NEW q, NEW b PROVE Persist(q, b, b) = q
BY DEF Persist

(* The outbox is well formed. *)
LEMMA EntriesFit == ASSUME Inv PROVE entries \in Boxes /\ AllFit(entries)
<1>1. entries \in Boxes
  BY DEF Inv, Typed, Boxes
<1>2. AllFit(entries)
  BY EntryValid DEF AllFit, Valid
<1> QED BY <1>1, <1>2

(* What reconcileRuntimeObservation makes of each entry *)
LEMMA ReconciledResult ==
    ASSUME Inv, NEW t \in Threads, NEW seen \in SUBSET AdmittedTo(t), seen \subseteq Messages,
           NEW r, r = Reconciled(entries, handoffs, t, seen)
    PROVE  /\ r.matched \subseteq seen /\ \A n \in r.matched : entries[n] # None
           /\ r.bound \in Boxes /\ r.after \in Boxes /\ AllFit(r.after)
           /\ \E moves \in SUBSET {Draft} :
                /\ Draft \in moves => \E z \in r.matched : entries[z] # None /\ entries[z].place = Draft
                /\ \A n \in Messages : r.bound[n] = Result(n, t, moves)
                /\ \A n \in Messages : r.after[n] = IF n \in r.matched THEN None ELSE Result(n, t, moves)
<1>1. entries \in Boxes /\ AllFit(entries) /\ seen \in SUBSET Messages
  BY EntriesFit
<1>2. /\ r.bound = entries
         \/ ((\E z \in r.matched : entries[z] # None /\ entries[z].place = Draft) /\ r.bound = AllBound(entries, t))
      /\ r.after = [n \in Messages |-> IF n \in r.matched THEN None ELSE r.bound[n]]
  BY <1>1, ReconciledIs
<1>6. r.matched \subseteq seen /\ \A n \in r.matched : entries[n] # None
  <2>1. r.matched \subseteq {n \in seen : entries[n] # None}
    BY <1>1, ReconciledIs
  <2> QED BY <2>1
<1>7. r.bound \in Boxes /\ r.after \in Boxes /\ AllFit(r.after)
  BY <1>1, ReconciledIs
<1> SUFFICES \E moves \in SUBSET {Draft} :
                /\ Draft \in moves => \E z \in r.matched : entries[z] # None /\ entries[z].place = Draft
                /\ \A n \in Messages : r.bound[n] = Result(n, t, moves)
                /\ \A n \in Messages : r.after[n] = IF n \in r.matched THEN None ELSE Result(n, t, moves)
  BY <1>6, <1>7
<1>3. \A n \in Messages : Result(n, t, {}) = entries[n] /\ Result(n, t, {Draft}) = AllBound(entries, t)[n]
  BY DEF Result, AllBound
<1>4. CASE r.bound = entries
  <2> WITNESS {} \in SUBSET {Draft}
  <2> QED BY <1>2, <1>3, <1>4
<1>5. CASE (\E z \in r.matched : entries[z] # None /\ entries[z].place = Draft) /\ r.bound = AllBound(entries, t)
  <2> WITNESS {Draft} \in SUBSET {Draft}
  <2> QED BY <1>2, <1>3, <1>5
<1> QED BY <1>2, <1>4, <1>5

(* What a thread has admitted are messages. *)
LEMMA AdmittedAreMessages == ASSUME Typed, NEW t \in Threads PROVE AdmittedTo(t) \subseteq Messages
<1>1. threads[t] \in Seq(Messages)
  BY DEF Typed
<1>2. \A i \in DOMAIN threads[t] : threads[t][i] \in Messages
  BY <1>1
<1> QED BY <1>2 DEF AdmittedTo, Range

(* A view of a thread *)
LEMMA ObserveHeard ==
    ASSUME Inv, NEW t \in Threads, NEW seen \in SUBSET AdmittedTo(t), Observe(t, seen)
    PROVE  \E gone : \E moves \in SUBSET {Draft} : \E own : Heard(t, gone, moves, own) /\ Told(t, gone, moves, own)
<1>0. Typed
  BY DEF Inv
<1>1. seen \in SUBSET Messages /\ seen \subseteq Messages /\ AdmittedTo(t) \subseteq Messages
  BY <1>0, AdmittedAreMessages
<1>2. PICK r : r = Reconciled(entries, handoffs, t, seen)
  OBVIOUS
<1> DEFINE queue == Persist(Persist(writes, entries, r.bound), r.bound, r.after)
<1>3. /\ Dispatcher(r.after, order, handoffs, dispatch, queue)
      /\ wire' = Abandoned(r.matched)
      /\ UNCHANGED <<restoring, disk, threads, history, faults>>
  BY <1>2 DEF Observe
<1>4. \E z \in seen : entries[z] # None
  BY DEF Observe, Matching
<1>5. /\ r.matched \subseteq seen /\ \A n \in r.matched : entries[n] # None
      /\ r.bound \in Boxes /\ r.after \in Boxes
  BY <1>1, <1>2, ReconciledResult
<1>6. PICK moves \in SUBSET {Draft} :
            /\ Draft \in moves => \E z \in r.matched : entries[z] # None /\ entries[z].place = Draft
            /\ \A n \in Messages : r.bound[n] = Result(n, t, moves)
            /\ \A n \in Messages : r.after[n] = IF n \in r.matched THEN None ELSE Result(n, t, moves)
  BY <1>1, <1>2, ReconciledResult
<1>7. writes \in Writes /\ entries \in Boxes /\ order \in SUBSET (Messages \X Messages) /\ dispatch \in [Messages -> Calls]
      /\ latest \in BOOLEAN /\ handoffs \subseteq Messages
  BY <1>0 DEF Typed, Boxes, Retained
<1>8. /\ queue \in Writes /\ Extends(writes, queue)
      /\ \A m \in Messages : \A v \in Later(queue, Len(writes), m) : v \in {r.bound[m], r.after[m]}
  BY <1>5, <1>7, PersistTwice
<1> HIDE DEF queue
<1>9. /\ entries' = r.after /\ order' = Kept(r.after, order) /\ writes' = queue
      /\ order' \subseteq Messages \X Messages
      /\ latest' \in BOOLEAN
      /\ handoffs' \subseteq {m \in Messages : entries'[m] # None} \cup handoffs
      /\ \A m \in handoffs' : r.after[m] # None
      /\ dispatch' \in [Messages -> Calls]
      /\ \A m \in Messages : Called(m, dispatch[m])
  BY <1>3, <1>5, <1>7, <1>8, DispatcherEffect
<1>10. handoffs' \subseteq Retained'
  BY <1>7, <1>9 DEF Retained
<1>11. None \notin Messages
  BY OutboxConstants DEF Threads
<1>12. \A n \in Messages : AddsTo(n) \subseteq {entries'[n], Result(n, t, moves)}
  BY <1>6, <1>8, <1>9 DEF AddsTo
<1>13. \A n \in Messages : (n \in r.matched => entries'[n] = None)
                           /\ (n \notin r.matched => entries'[n] = Result(n, t, moves))
  BY <1>6, <1>9
<1>14. Heard(t, r.matched, moves, None)
  BY <1>0, <1>3, <1>4, <1>5, <1>6, <1>8, <1>9, <1>10, <1>11, <1>12, <1>13, AbandonedIs
     DEF Heard, Typed, Requests, history
<1>15. \A n \in Messages : dispatch'[n] # Idle => dispatch'[n] = dispatch[n] \/ (StartedNow(n) /\ Free(n))
  BY <1>3, <1>5, <1>7, <1>8, DispatcherFree
<1>16. writes' = Persist(Persist(Persist(Persist(writes, entries, r.bound), r.bound, r.after), r.after, r.after), r.after, entries')
  BY <1>9, PersistNothing DEF queue
<1>17. Told(t, r.matched, moves, None)
  BY <1>3, <1>5, <1>6, <1>11, <1>15, <1>16 DEF Told, history
<1> QED BY <1>14, <1>17

(* A view of a thread keeps the invariant. *)
LEMMA ObserveKeeps ==
    ASSUME Inv, NEW t \in Threads, NEW seen \in SUBSET AdmittedTo(t), Observe(t, seen)
    PROVE  Inv'
BY ObserveHeard, HeardKeeps

(* A receipt *)
LEMMA ReceiptHeard ==
    ASSUME Inv, NEW w \in wire, NEW seen \in SUBSET AdmittedTo(Addressed(w)), Receipt(w, seen)
    PROVE  \E t \in Threads : \E gone : \E moves \in SUBSET {Draft} : \E own :
                Heard(t, gone, moves, own) /\ Told(t, gone, moves, own)
<1>0. Typed /\ Answered /\ Staged
  BY DEF Inv
<1>1. PICK m \in Messages, t \in Threads : m = w.m /\ t = Addressed(w)
  BY <1>0 DEF Typed, Requests, Addressed, Threads
<1>2. seen \in SUBSET AdmittedTo(t) /\ seen \in SUBSET Messages /\ seen \subseteq Messages /\ AdmittedTo(t) \subseteq Messages
  BY <1>0, <1>1, AdmittedAreMessages
<1>3. PICK r : r = Reconciled(entries, handoffs, t, seen)
  OBVIOUS
<1> DEFINE mismatch == r.after[m] # None /\ r.after[m].thread \notin {None, t}
           bound == Bound(r.after, m, t)
           box == CASE r.after[m] = None -> r.after
                    [] mismatch -> [r.after EXCEPT ![m].delivery = "unknown"]
                    [] OTHER -> [bound EXCEPT ![m].delivery = "accepted"]
           hand == IF mismatch THEN handoffs ELSE handoffs \ {m}
           first == Persist(Persist(writes, entries, r.bound), r.bound, r.after)
           queue == IF r.after[m] = None \/ mismatch
                    THEN Persist(first, r.after, box)
                    ELSE Persist(Persist(first, r.after, bound), bound, box)
<1>4. /\ w.awaited /\ w.taken
      /\ Dispatcher(box, order, hand, [dispatch EXCEPT ![m] = Idle], queue)
      /\ doubted' = IF mismatch THEN doubted \cup {m} ELSE doubted
      /\ wire' = {x \in Abandoned(r.matched) : x.m # m \/ ~ x.awaited}
      /\ UNCHANGED <<restoring, disk, threads, sent, removed, refused, early, unsaved, faults>>
  BY <1>1, <1>3 DEF Receipt
<1>5. /\ m \in AdmittedTo(t) /\ dispatch[m].step = "request" /\ dispatch[m] # Idle /\ entries[m] # None
  <2>1. w.awaited /\ w.taken
    BY <1>4
  <2>2. m \in AdmittedTo(t) /\ dispatch[m].step = "request"
    BY <1>0, <1>1, <2>1 DEF Answered
  <2>3. dispatch[m] # Idle
    BY <2>2 DEF Idle
  <2> QED BY <1>0, <1>1, <2>2, <2>3 DEF Staged, StagedAt
<1>6. /\ r.matched \subseteq seen /\ \A n \in r.matched : entries[n] # None
      /\ r.bound \in Boxes /\ r.after \in Boxes /\ AllFit(r.after)
  BY <1>2, <1>3, ReconciledResult
<1>7. PICK early0 \in SUBSET {Draft} :
            /\ Draft \in early0 => \E z \in r.matched : entries[z] # None /\ entries[z].place = Draft
            /\ \A n \in Messages : r.bound[n] = Result(n, t, early0)
            /\ \A n \in Messages : r.after[n] = IF n \in r.matched THEN None ELSE Result(n, t, early0)
  BY <1>2, <1>3, ReconciledResult
<1>8. writes \in Writes /\ entries \in Boxes /\ order \in SUBSET (Messages \X Messages) /\ dispatch \in [Messages -> Calls]
      /\ latest \in BOOLEAN /\ handoffs \subseteq Messages
  BY <1>0 DEF Typed, Boxes, Retained
<1>9. Idle \in Calls /\ [dispatch EXCEPT ![m] = Idle] \in [Messages -> Calls]
      /\ \A n \in Messages : [dispatch EXCEPT ![m] = Idle][n] = IF n = m THEN Idle ELSE dispatch[n]
  BY <1>8 DEF Calls, Idle
<1>10. None \notin Entry /\ Draft \notin Threads
  BY OutboxConstants
<1>11. first \in Writes /\ Extends(writes, first)
       /\ \A n \in Messages : \A v \in Later(first, Len(writes), n) :
            (entries[n] # r.bound[n] /\ v = r.bound[n]) \/ (r.bound[n] # r.after[n] /\ v = r.after[n])
  BY <1>6, <1>8, PersistTwice
<1> HIDE DEF first
(* the outbox, what is written, and how the message of the receipt ends *)
<1>12. \E moves \in SUBSET {Draft} :
        /\ Draft \in moves => \E z \in r.matched \cup {m} : entries[z] # None /\ entries[z].place = Draft
        /\ box \in Boxes /\ queue \in Writes /\ Extends(writes, queue)
        /\ \E b, c, d \in Boxes : queue = Persist(Persist(Persist(Persist(writes, entries, b), b, c), c, d), d, box)
        /\ m \notin r.matched =>
            (box[m].delivery = "accepted" /\ box[m].thread = t /\ ~ mismatch) \/ entries[m].thread \notin {None, t}
        /\ m \in r.matched => ~ mismatch
        /\ \A n \in Messages :
            /\ Later(queue, Len(writes), n) \subseteq {box[n], Result(n, t, moves)}
            /\ n \in r.matched => box[n] = None
            /\ n \notin r.matched /\ n # m => box[n] = Result(n, t, moves)
            /\ n \notin r.matched /\ n = m =>
                \E d \in {"accepted", "unknown"} :
                    box[n] = [Result(n, t, moves) EXCEPT !.delivery = d] /\ (d = "unknown" => mismatch)
  <2>1. CASE r.after[m] = None
    <3>1. box = r.after /\ queue = Persist(first, r.after, r.after)
      BY <2>1
    <3> HIDE DEF box, queue, bound, mismatch, hand
    <3>0. r.after \in [Messages -> Entry \cup {None}]
      BY <1>6 DEF Boxes
    <3>2. queue \in Writes /\ Extends(first, queue) /\ \A n \in Messages : Later(queue, Len(first), n) = {}
      BY <3>0, <3>1, <1>11, PersistTyped, PersistAdds
    <3>3. m \in r.matched
      BY <2>1, <1>5, <1>7, ResultIs
    <3>4. Extends(writes, queue)
      BY <3>2, <1>8, <1>11, ExtendsTwice
    <3>5. \A n \in Messages : Later(queue, Len(writes), n) = Later(first, Len(writes), n)
      <4> SUFFICES ASSUME NEW n \in Messages
                   PROVE  Later(queue, Len(writes), n) = Later(first, Len(writes), n)
        OBVIOUS
      <4>1. Later(queue, Len(writes), n) = Later(first, Len(writes), n) \cup Later(queue, Len(first), n)
        BY <3>2, <1>8, <1>11, AddedTwice
      <4> QED BY <3>2, <4>1
    <3>6. queue = Persist(Persist(Persist(Persist(writes, entries, r.bound), r.bound, r.after), r.after, r.after), r.after, box)
      BY <3>1, PersistNothing DEF first
    <3>7. ~ mismatch
      BY <2>1 DEF mismatch
    <3> WITNESS early0 \in SUBSET {Draft}
    <3> QED BY <1>6, <1>7, <1>11, <3>1, <3>2, <3>3, <3>4, <3>5, <3>6, <3>7
  <2>2. CASE mismatch
    <3>1. box = [r.after EXCEPT ![m].delivery = "unknown"] /\ queue = Persist(first, r.after, box)
      BY <2>2
    <3>2. m \notin r.matched /\ r.after[m] = Result(m, t, early0)
      BY <2>2, <1>7
    <3>3. r.after[m] \in Entry
      BY <2>2, <1>6 DEF Boxes
    <3>4. [r.after[m] EXCEPT !.delivery = "unknown"] \in Entry
      BY <3>3, SetDelivery
    <3>5. box \in Boxes /\ \A n \in Messages : box[n] = IF n = m THEN [r.after[m] EXCEPT !.delivery = "unknown"] ELSE r.after[n]
      <4> HIDE DEF box
      <4> QED BY <3>1, <3>4, <1>6 DEF Boxes
    <3> HIDE DEF box, queue, bound, mismatch, hand
    <3>0. r.after \in [Messages -> Entry \cup {None}] /\ box \in [Messages -> Entry \cup {None}]
      BY <3>5, <1>6 DEF Boxes
    <3>6. /\ queue \in Writes /\ Extends(first, queue)
          /\ \A n \in Messages : Later(queue, Len(first), n) \subseteq {box[n]}
      BY <3>0, <3>1, <1>11, PersistTyped, PersistAdds
    <3>7. Extends(writes, queue)
          /\ \A n \in Messages : Later(queue, Len(writes), n) = Later(first, Len(writes), n) \cup Later(queue, Len(first), n)
      BY <3>6, <1>8, <1>11, ExtendsTwice, AddedTwice
    <3>8. ASSUME NEW n \in Messages, NEW v \in Later(queue, Len(writes), n)
          PROVE  v \in {box[n], Result(n, t, early0)}
      <4>1. v = box[n] \/ v = r.bound[n] \/ (r.bound[n] # r.after[n] /\ v = r.after[n])
        BY <3>6, <3>7, <1>11
      <4>2. r.bound[n] # r.after[n] => n # m /\ r.after[n] = box[n]
        BY <3>2, <3>5, <1>7
      <4> QED BY <4>1, <4>2, <1>7
    <3>9. box[m] = [Result(m, t, early0) EXCEPT !.delivery = "unknown"]
      BY <3>2, <3>5
    <3>10. /\ \A n \in Messages : n \in r.matched => box[n] = None
           /\ \A n \in Messages : n \notin r.matched /\ n # m => box[n] = Result(n, t, early0)
      BY <3>2, <3>5, <1>7
    <3>11. entries[m].thread \notin {None, t} /\ m \notin r.matched
      <4>1. Result(m, t, early0).thread \notin {None, t}
        BY <2>2, <3>2 DEF mismatch
      <4>2. entries[m].place \in early0 => Result(m, t, early0).thread = t
        BY <1>5, EntryValid, MovedIs DEF Result
      <4> QED BY <3>2, <4>1, <4>2 DEF Result
    <3>12. queue = Persist(Persist(Persist(Persist(writes, entries, r.bound), r.bound, r.after), r.after, r.after), r.after, box)
      BY <3>1, PersistNothing DEF first
    <3>13. \E b, c, d \in Boxes : queue = Persist(Persist(Persist(Persist(writes, entries, b), b, c), c, d), d, box)
      BY <1>6, <3>12
    <3> WITNESS early0 \in SUBSET {Draft}
    <3> HIDE DEF mismatch
    <3> QED BY <2>2, <1>7, <3>5, <3>6, <3>7, <3>8, <3>9, <3>10, <3>11, <3>13
  <2>3. CASE r.after[m] # None /\ ~ mismatch
    <3>1. box = [bound EXCEPT ![m].delivery = "accepted"]
          /\ queue = Persist(Persist(first, r.after, bound), bound, box)
      BY <2>3
    <3>2. m \notin r.matched
      BY <2>3, <1>7
    <3>3. bound = r.after \/ (r.after[m].place = Draft /\ bound = AllBound(r.after, t))
      BY <1>6, BoundIs
    <3>4. bound \in Boxes
      BY <3>3, <1>6, AllBoundIs
    <3>5. PICK moves \in SUBSET {Draft} :
            /\ early0 \subseteq moves
            /\ Draft \in moves => \E z \in r.matched \cup {m} : entries[z] # None /\ entries[z].place = Draft
            /\ \A n \in Messages : bound[n] = IF n \in r.matched THEN None ELSE Result(n, t, moves)
      <4>1. CASE bound = r.after
        BY <4>1, <1>7
      <4>2. CASE r.after[m].place = Draft /\ bound = AllBound(r.after, t)
        <5>1. r.after[m] = Result(m, t, early0)
          BY <3>2, <1>7
        <5>2. entries[m].place = Draft /\ Draft \notin early0
          BY <4>2, <5>1, <1>5, <1>10, ResultIs
        <5>3. \A n \in Messages : Result(n, t, early0) = entries[n] /\ early0 = {}
          BY <5>2 DEF Result
        <5>4. \A n \in Messages : bound[n] = IF n \in r.matched THEN None ELSE Result(n, t, {Draft})
          BY <4>2, <5>3, <1>7 DEF AllBound, Result
        <5>5. {Draft} \in SUBSET {Draft} /\ early0 \subseteq {Draft}
          OBVIOUS
        <5> HIDE DEF bound
        <5> QED BY <5>2, <5>4, <5>5, <1>2, <1>5
      <4> QED BY <3>3, <4>1, <4>2
    <3> HIDE DEF bound
    <3>6. bound[m] = Result(m, t, moves) /\ bound[m] \in Entry
      BY <3>2, <3>5, <1>5, ResultIs
    <3>7. [bound[m] EXCEPT !.delivery = "accepted"] \in Entry
      BY <3>6, SetDelivery
    <3>8. box \in Boxes /\ \A n \in Messages : box[n] = IF n = m THEN [bound[m] EXCEPT !.delivery = "accepted"] ELSE bound[n]
      <4> HIDE DEF box
      <4> QED BY <3>1, <3>4, <3>7 DEF Boxes
    <3> HIDE DEF box, queue, mismatch, hand
    <3>9. /\ queue \in Writes /\ Extends(first, queue)
          /\ \A n \in Messages : \A v \in Later(queue, Len(first), n) :
                (r.after[n] # bound[n] /\ v = bound[n]) \/ (bound[n] # box[n] /\ v = box[n])
      <4> DEFINE second == Persist(Persist(first, r.after, bound), bound, box)
      <4>1. /\ second \in Writes /\ Extends(first, second)
            /\ \A n \in Messages : \A v \in Later(second, Len(first), n) :
                (r.after[n] # bound[n] /\ v = bound[n]) \/ (bound[n] # box[n] /\ v = box[n])
        <5>1. first \in Writes /\ r.after \in Boxes /\ bound \in Boxes /\ box \in Boxes
          BY <3>4, <3>8, <1>6, <1>11
        <5> QED BY <5>1, PersistTwice
      <4>2. queue = second
        BY <3>1
      <4> HIDE DEF second
      <4> QED BY <4>1, <4>2
    <3>10. Extends(writes, queue)
           /\ \A n \in Messages : Later(queue, Len(writes), n) = Later(first, Len(writes), n) \cup Later(queue, Len(first), n)
      BY <3>9, <1>8, <1>11, ExtendsTwice, AddedTwice
    <3>11. /\ \A n \in Messages : n \in r.matched => box[n] = None
           /\ \A n \in Messages : n \notin r.matched /\ n # m => box[n] = Result(n, t, moves)
           /\ box[m] = [Result(m, t, moves) EXCEPT !.delivery = "accepted"]
      BY <3>2, <3>5, <3>6, <3>8
    <3>12. ASSUME NEW n \in Messages, NEW v \in Later(queue, Len(writes), n)
           PROVE  v \in {box[n], Result(n, t, moves)}
      <4>1. CASE v \in Later(queue, Len(first), n)
        <5>1. v = box[n] \/ (r.after[n] # bound[n] /\ v = bound[n])
          BY <4>1, <3>9
        <5> QED BY <5>1, <3>5, <1>7
      <4>2. CASE v \in Later(first, Len(writes), n)
        <5>1. CASE entries[n] # r.bound[n] /\ v = r.bound[n]
          <6>1. Result(n, t, early0) # entries[n] /\ v = Result(n, t, early0)
            BY <5>1, <1>7
          <6>2. entries[n].place \in early0 /\ entries[n] # None
            BY <6>1 DEF Result
          <6> QED BY <6>1, <6>2, <3>5 DEF Result
        <5>2. CASE r.bound[n] # r.after[n] /\ v = r.after[n]
          BY <5>2, <1>7, <3>11
        <5> QED BY <4>2, <5>1, <5>2, <1>11
      <4> QED BY <4>1, <4>2, <3>10
    <3>13. \E b, c, d \in Boxes : queue = Persist(Persist(Persist(Persist(writes, entries, b), b, c), c, d), d, box)
      <4>1. queue = Persist(Persist(Persist(Persist(writes, entries, r.bound), r.bound, r.after), r.after, bound), bound, box)
        BY <3>1 DEF first
      <4> QED BY <4>1, <1>6, <3>4
    <3>14. box[m].delivery = "accepted" /\ box[m].thread = t
      <4>1. bound[m].thread = t
        BY <2>3, <1>6, BoundThread DEF bound, mismatch
      <4>2. box[m] = [bound[m] EXCEPT !.delivery = "accepted"]
        BY <3>8
      <4> QED BY <3>6, <4>1, <4>2, SetDelivery
    <3> WITNESS moves \in SUBSET {Draft}
    <3> QED BY <2>3, <3>2, <3>5, <3>8, <3>9, <3>10, <3>11, <3>12, <3>13, <3>14
  <2> QED BY <2>1, <2>2, <2>3
<1>13. PICK moves \in SUBSET {Draft} :
        /\ Draft \in moves => \E z \in r.matched \cup {m} : entries[z] # None /\ entries[z].place = Draft
        /\ box \in Boxes /\ queue \in Writes /\ Extends(writes, queue)
        /\ \E b, c, d \in Boxes : queue = Persist(Persist(Persist(Persist(writes, entries, b), b, c), c, d), d, box)
        /\ m \notin r.matched =>
            (box[m].delivery = "accepted" /\ box[m].thread = t /\ ~ mismatch) \/ entries[m].thread \notin {None, t}
        /\ m \in r.matched => ~ mismatch
        /\ \A n \in Messages :
            /\ Later(queue, Len(writes), n) \subseteq {box[n], Result(n, t, moves)}
            /\ n \in r.matched => box[n] = None
            /\ n \notin r.matched /\ n # m => box[n] = Result(n, t, moves)
            /\ n \notin r.matched /\ n = m =>
                \E d \in {"accepted", "unknown"} :
                    box[n] = [Result(n, t, moves) EXCEPT !.delivery = d] /\ (d = "unknown" => mismatch)
  BY <1>12
<1> HIDE DEF box, queue, bound, mismatch
<1>14. hand \subseteq Messages
  BY <1>8
<1> HIDE DEF hand
<1>15. /\ entries' = box /\ order' = Kept(box, order) /\ writes' = queue
       /\ order' \subseteq Messages \X Messages
       /\ latest' \in BOOLEAN
       /\ handoffs' \subseteq {n \in Messages : entries'[n] # None} \cup hand
       /\ \A n \in handoffs' : box[n] # None
       /\ dispatch' \in [Messages -> Calls]
       /\ \A n \in Messages : Called(n, [dispatch EXCEPT ![m] = Idle][n])
  BY <1>4, <1>8, <1>9, <1>13, DispatcherEffect
<1>16. handoffs' \subseteq Retained'
  BY <1>14, <1>15 DEF Retained
<1>17. \A n \in Messages : Called(n, IF n = m THEN Idle ELSE dispatch[n])
  BY <1>9, <1>15
<1>18. doubted' \subseteq Messages /\ doubted \subseteq doubted' /\ (mismatch => m \in doubted')
       /\ \A n \in doubted' : n \in doubted \/ n = m
  BY <1>0, <1>4 DEF Typed
<1>19. wire' \subseteq Abandoned(r.matched) /\ \A x \in wire' : x.m = m => ~ x.awaited
  BY <1>4
<1>20. \A n \in Messages : AddsTo(n) \subseteq {entries'[n], Result(n, t, moves)}
  BY <1>13, <1>15 DEF AddsTo
<1>21. r.matched \subseteq AdmittedTo(t) /\ \E z \in AdmittedTo(t) : entries[z] # None
  BY <1>2, <1>5, <1>6
<1>22. Heard(t, r.matched, moves, m)
  <2>1. Draft \in moves => \E z \in AdmittedTo(t) : entries[z] # None /\ entries[z].place = Draft
    BY <1>5, <1>13, <1>21
  <2> QED BY <1>4, <1>5, <1>6, <1>13, <1>15, <1>16, <1>17, <1>18, <1>19, <1>20, <1>21, <2>1 DEF Heard
<1>23. \A n \in Messages : dispatch'[n] # Idle => dispatch'[n] = [dispatch EXCEPT ![m] = Idle][n] \/ (StartedNow(n) /\ Free(n))
  BY <1>4, <1>8, <1>9, <1>13, DispatcherFree
<1>24. \E b, c, d \in Boxes : writes' = Persist(Persist(Persist(Persist(writes, entries, b), b, c), c, d), d, entries')
  BY <1>13, <1>15
<1>25. Draft \in moves => \E z \in r.matched \cup {m} : z \in AdmittedTo(t) /\ entries[z] # None /\ entries[z].place = Draft
  BY <1>5, <1>13, <1>21
<1>26. /\ m \notin r.matched =>
            \/ entries'[m].delivery = "accepted" /\ entries'[m].thread = t /\ doubted' = doubted
            \/ entries[m].thread \notin {None, t}
       /\ m \in r.matched => doubted' = doubted
  BY <1>4, <1>13, <1>15
<1>27. \A n \in Messages : dispatch'[n] # Idle =>
            (n # m /\ dispatch'[n] = dispatch[n]) \/ (StartedNow(n) /\ Free(n))
  BY <1>9, <1>23
<1>28. Told(t, r.matched, moves, m)
  BY <1>24, <1>25, <1>26, <1>27 DEF Told
<1> QED BY <1>22, <1>28

(* A receipt keeps the invariant. *)
LEMMA ReceiptKeeps ==
    ASSUME Inv, NEW w \in wire, NEW seen \in SUBSET AdmittedTo(Addressed(w)), Receipt(w, seen)
    PROVE  Inv'
BY ReceiptHeard, HeardKeeps

-----------------------------------------------------------------------------
(* The invariant, and what follows from it. *)

(* The invariant holds in the beginning. *)
LEMMA InitInv ==
    ASSUME Init
    PROVE  Inv
<1>1. /\ \A m \in Messages : entries[m] = None /\ disk[m] = None /\ dispatch[m] = Idle
      /\ Retained = {} /\ writes = <<>> /\ wire = {} /\ order = {} /\ ~ restoring /\ sent = <<>>
      /\ removed = {} /\ doubted = {} /\ refused = {}
      /\ \A t \in Threads : threads[t] = <<>> /\ AdmittedTo(t) = {}
  BY DEF Init, Retained, AdmittedTo, Range
<1>2. \A m \in Messages : ~ Launched(m) /\ Values(m) = {None} /\ \A n : ~ SentBefore(m, n)
  BY <1>1 DEF Launched, OnWire, Admitted, Values, Later, SentBefore
<1>3. Typed
  <2>1. Idle \in Calls /\ writes \in Writes /\ threads \in [Threads -> Seq(Messages)] /\ 0 \in 0..MaxFaults
    BY OutboxConstants DEF Init, Idle, Calls, Writes
  <2>2. entries \in [Messages -> Entry \cup {None}] /\ disk \in [Messages -> Entry \cup {None}] /\ dispatch \in [Messages -> Calls]
    BY <2>1 DEF Init
  <2>3. faults \in 0..MaxFaults /\ latest \in BOOLEAN
        /\ restoring \in BOOLEAN /\ handoffs = {} /\ early = {} /\ unsaved = {}
    BY <2>1 DEF Init
  <2>4. \A S : <<>> \in Seq(S)
    OBVIOUS
  <2>5. sent \in Seq([m : Messages, to : Threads \cup {Draft}])
    BY <1>1, <2>4
  <2> QED BY <1>1, <2>1, <2>2, <2>3, <2>5 DEF Typed
<1>4. Lined
  BY <1>1 DEF Lined, Orders
<1>5. Staged
  BY <1>1 DEF Staged, StagedAt, Idle, Waits
<1>6. Answered /\ Lost
  BY <1>1 DEF Answered, Lost
<1>7. AllValid /\ SentOnce
  BY <1>1, <1>2 DEF AllValid, ValidAt, SentOnce
<1>8. ThreadsKnown
  BY <1>1 DEF ThreadsKnown
<1>9. Secured /\ Single /\ Unremoved /\ Resuming
  BY <1>1, <1>2 DEF Secured, SecuredAt, Single, SingleAt, Unremoved, Resuming
<1>10. InLine /\ Apart
  BY <1>1 DEF InLine, InLineAt, Apart, ApartAt, Waiting
<1>11. OrderKept
  BY <1>1 DEF OrderKept
<1> QED BY <1>3, <1>4, <1>5, <1>6, <1>7, <1>8, <1>9, <1>10, <1>11 DEF Inv

(* The restore fails: what is hidden is not in the outbox, and is recorded as *)
(* in doubt if its outcome was unknown.                                       *)
LEMMA RestoreFailsKeeps ==
    ASSUME Inv, RestoreFails
    PROVE  Inv'
<1>0. /\ Typed /\ Lined /\ Staged /\ Answered /\ AllValid /\ SentOnce /\ ThreadsKnown
      /\ Secured /\ Single /\ InLine /\ Apart /\ Lost /\ Resuming /\ OrderKept /\ Unremoved
  BY DEF Inv
<1>1. /\ restoring /\ restoring' = FALSE /\ Fault
      /\ doubted' = doubted \cup {m \in Saved : Restored(disk[m]).delivery = "unknown"}
      /\ unsaved' = unsaved \cup Saved
      /\ entries' = entries /\ order' = order /\ handoffs' = handoffs /\ dispatch' = dispatch
      /\ disk' = disk /\ writes' = writes /\ latest' = latest /\ wire' = wire /\ threads' = threads
      /\ sent' = sent /\ removed' = removed /\ refused' = refused /\ early' = early
  BY DEF RestoreFails, storage
<1>2. Typed'
  <2>1. faults' \in 0..MaxFaults
    BY <1>0, <1>1, FaultBounds
  <2> QED BY <1>0, <1>1, <2>1 DEF Typed, Retained, Saved
<1>3. doubted \subseteq doubted' /\ unsaved \subseteq unsaved' /\ Bad \subseteq Bad'
  BY <1>1 DEF Bad
<1>4. /\ Lined' /\ Staged' /\ Answered' /\ ThreadsKnown' /\ Unremoved'
  BY <1>0, <1>1 DEF Lined, Retained, Staged, StagedAt, Answered, AdmittedTo, Addressed, ThreadsKnown, Known, Unremoved
<1>5. AllValid'
  BY <1>0, <1>1, <1>3 DEF AllValid, ValidAt, Values, Later, Valid, Known, AdmittedTo, SentTo
<1>6. SentOnce'
  <2>1. \A m \in doubted' \ doubted : disk[m] # None
    BY <1>1 DEF Saved
  <2> QED BY <1>0, <1>1, <2>1 DEF SentOnce, Launched, OnWire, Admitted, AdmittedTo, Values, Later, Sent
<1>7. Secured'
  BY <1>0, <1>1, <1>3 DEF Secured, SecuredAt, GoodFrom, Val, Later, Due
<1>8. Single'
  BY <1>0, <1>1, <1>3 DEF Single, SingleAt, Clean, Launched, OnWire, Admitted, AdmittedTo, Later
<1>9. InLine' /\ Apart'
  <2>1. \A m : Waiting(m)' => Waiting(m)
    BY <1>1, <1>3 DEF Waiting
  <2> QED BY <1>0, <1>1, <2>1 DEF InLine, InLineAt, Ahead, Apart, ApartAt, NotIn, Launched, OnWire, Admitted, AdmittedTo,
          Addressed, SentBefore, SentTo
<1>10. Lost'
  <2>1. ASSUME NEW w \in wire, ~ w.awaited, w.m \notin Bad' PROVE FALSE
    <3>1. w.m \in Messages /\ disk[w.m] \in Good
      BY <1>0, <1>3, <2>1 DEF Lost, Typed, Requests
    <3>2. w.m \in Saved /\ Restored(disk[w.m]).delivery = "unknown"
      BY <3>1, OutboxConstants DEF Good, Saved, Restored, Entry
    <3> QED BY <1>1, <2>1, <3>2 DEF Bad
  <2> QED BY <1>1, <2>1 DEF Lost
<1>11. Resuming' /\ OrderKept'
  BY <1>0, <1>1, <1>3 DEF Resuming, OrderKept, SentBefore
<1> QED BY <1>2, <1>4, <1>5, <1>6, <1>7, <1>8, <1>9, <1>10, <1>11 DEF Inv

(* Every step keeps the invariant. *)
LEMMA StepKeeps ==
    ASSUME Inv, Step
    PROVE  Inv'
<1>1. CASE \E m \in Messages : \E p \in Threads \cup {Draft} : Send(m, p)
  BY <1>1, SendKeeps
<1>2. CASE \E m \in Messages : Retry(m)
  BY <1>2, RetryKeeps
<1>3. CASE \E m \in Messages : Discard(m)
  BY <1>3, DiscardKeeps
<1>4. CASE \E m \in Messages : Captured(m)
  BY <1>4, CapturedKeeps
<1>5. CASE \E m \in Messages : Prepared(m)
  BY <1>5, PreparedKeeps
<1>6. CASE \E m \in Messages : Stored(m)
  BY <1>6, StoredKeeps
<1>7. CASE \E m \in Messages : NotSent(m)
  BY <1>7, NotSentKeeps
<1>8. CASE Write \/ WriteFails
  BY <1>8, DiskKeeps
<1>9. CASE \E w \in wire : Admit(w)
  BY <1>9, AdmitKeeps
<1>10. CASE \E w \in wire : Vanish(w)
  BY <1>10, VanishKeeps
<1>11. CASE \E w \in wire : Refused(w)
  BY <1>11, RefusedKeeps
<1>12. CASE \E w \in wire : OutcomeLost(w)
  BY <1>12, OutcomeLostKeeps
<1>13. CASE \E w \in wire : \E seen \in {{}, AdmittedTo(Addressed(w))} : Receipt(w, seen)
  <2>1. PICK w \in wire : \E seen \in {{}, AdmittedTo(Addressed(w))} : Receipt(w, seen)
    BY <1>13
  <2>2. PICK seen \in SUBSET AdmittedTo(Addressed(w)) : Receipt(w, seen)
    BY <2>1
  <2> QED BY <2>2, ReceiptKeeps
<1>14. CASE \E t \in Threads : \E seen \in SUBSET AdmittedTo(t) : Observe(t, seen)
  BY <1>14, ObserveKeeps
<1>15. CASE Reload
  BY <1>15, ReloadKeeps
<1>16. CASE RestoreEnds
  BY <1>16, RestoreKeeps DEF RestoreEnds
<1>17. CASE RestoreFails
  BY <1>17, RestoreFailsKeeps
<1> QED BY <1>1, <1>2, <1>3, <1>4, <1>5, <1>6, <1>7, <1>8, <1>9, <1>10, <1>11, <1>12, <1>13, <1>14, <1>15, <1>16, <1>17
        DEF Step

(* So does a step that changes nothing. *)
LEMMA StutterKeeps ==
    ASSUME Inv, UNCHANGED vars
    PROVE  Inv'
<1>1. UNCHANGED <<entries, order, handoffs, dispatch, restoring, disk, writes, latest, wire, threads, sent, removed, doubted,
                  refused, early, unsaved, faults>>
  BY DEF vars, surface, storage, history
<1> QED BY <1>1 DEF Inv, Unremoved, Typed, Retained, Lined, Staged, StagedAt, Answered, AllValid, ValidAt, Valid, Values, Later,
        SentOnce, ThreadsKnown, Secured, SecuredAt, GoodFrom, Val, Due, Single, SingleAt, Clean, Launched, OnWire, Admitted,
        AdmittedTo, InLine, InLineAt, Ahead, NotIn, Waiting, Apart, ApartAt, Lost, Resuming, OrderKept, SentBefore,
        Sent, SentTo, Bad, Known, Addressed

(* The invariant holds in every reachable state, for any number of messages, *)
(* faults and reloads: what the outbox, the writes that wait, the disk, the  *)
(* wire and the threads of the server say of a message agrees.               *)
THEOREM OutboxInvariant == Spec => []Inv
<1>1. Init => Inv
  BY InitInv
<1>2. Inv /\ [Next]_vars => Inv'
  BY StepKeeps, StutterKeeps DEF Next
<1> QED BY <1>1, <1>2, PTL DEF Spec

(* The order lists exactly what is retained, and a dispatch in flight        *)
(* belongs to a message that waits (the Maps and Sets of FlowerSurface.tsx   *)
(* fit together).                                                            *)
THEOREM OutboxTypes == Spec => []TypeOK
<1>1. Inv => TypeOK
  <2> SUFFICES ASSUME Inv PROVE TypeOK
    OBVIOUS
  <2>1. ASSUME NEW m \in Messages, entries[m] # None
        PROVE  entries[m].thread = None <=> entries[m].place = Draft
    BY <2>1, EntryValid, OutboxConstants DEF Valid, Fits, Entry
  <2>2. \A m \in Messages : InFlight(m) => entries[m] # None /\ entries[m].delivery = "pending"
    BY DEF Inv, Staged, StagedAt, InFlight
  <2>3. order \in Orders(Retained)
    BY DEF Inv, Lined
  <2> QED BY <2>1, <2>2, <2>3 DEF Inv, Typed, TypeOK
<1> QED BY <1>1, OutboxInvariant, PTL

(* A launch whose answer is awaited is on the disk with its final input      *)
(* (flushTransportOutbox comes before the launch), unless its last write has *)
(* failed.                                                                   *)
THEOREM AwaitedLaunchOnDisk == Spec => []SentIsRemembered
<1>1. Inv => SentIsRemembered
  <2> SUFFICES ASSUME Inv, NEW w \in wire, w.awaited, w.m \notin unsaved
               PROVE  disk[w.m] # None /\ ~ disk[w.m].preparing
    BY DEF SentIsRemembered
  <2>1. w.m \in Messages /\ dispatch[w.m].step = "request"
    BY DEF Inv, Typed, Requests, Answered
  <2>2. entries[w.m] # None /\ entries[w.m].delivery = "pending" /\ ~ entries[w.m].preparing /\ dispatch[w.m] # Idle
    BY <2>1 DEF Inv, Staged, StagedAt, Idle
  <2>3. Due(w.m) = 0
    BY <2>1, <2>2 DEF Due
  <2>4. GoodFrom(0, w.m)
    BY <2>1, <2>2, <2>3 DEF Inv, Secured, SecuredAt
  <2>5. disk[w.m] \in Good
    BY <2>4 DEF GoodFrom, Val
  <2> QED BY <2>5, OutboxConstants DEF Good
<1> QED BY <1>1, OutboxInvariant, PTL

(* What the user takes back has not been admitted and never will be, unless  *)
(* it was in doubt before or one of its writes has failed                    *)
(* (discardUnsentOutboxEntry offers it only without an unknown outcome).     *)
THEOREM TakenBackStaysOut == Spec => []FreshIdentitySafe
<1>1. Inv => FreshIdentitySafe
  BY DEF Inv, Typed, Single, SingleAt, Clean, Launched, FreshIdentitySafe
<1> QED BY <1>1, OutboxInvariant, PTL

(* Messages of one conversation are admitted in the order of sending, but    *)
(* for those that have failed or were in doubt ("One ordered transport owner *)
(* per thread").                                                             *)
THEOREM ArrivesInOrder == Spec => []OrderKept
<1>1. Inv => OrderKept
  BY DEF Inv
<1> QED BY <1>1, OutboxInvariant, PTL

-----------------------------------------------------------------------------
(* One destination.  As long as no write or read has failed and nothing has  *)
(* overtaken a message in doubt, a message goes to one thread.               *)

\* every entry there is of m
Copies(m) == Values(m) \ {None}

\* the thread that a launch of the copy e of m is addressed to
Target(m, e) == IF e.thread = None THEN m ELSE e.thread

\* m has been admitted to t, or a request may still bring it there
Goes(m, t) == m \in AdmittedTo(t) \/ \E w \in wire : w.m = m /\ Addressed(w) = t

\* may have been launched, or comes back from the disk as if it were
Touched(n) == Launched(n) \/ (n \notin refused /\ \E v \in Copies(n) : ~ v.preparing)

\* some copy does not know its thread
Unbound(n) == \E v \in Copies(n) : v.thread = None

\* how many of the writes that wait the dispatch of n waits for
WaitOf(n) == IF Waits(dispatch[n]) THEN dispatch[n].wait ELSE 0

Alike(e) == IF e = None THEN {None} ELSE {v \in Entry : v.thread = e.thread}
Heading(t) == {None} \cup {v \in Entry : v.thread = t}
Elsewhere == {None} \cup {v \in Entry : v.thread # None}

\* after k writes of q, or fewer, the disk has a value of m in S, and the writes behind keep it there
Settled(q, d, m, k, S) ==
    \E i \in 0..k : /\ i = 0 \/ m \in DOMAIN q[i]
                    /\ Val(q, d, i, m) \in S /\ Later(q, i, m) \subseteq S

(* More writes, and a larger set *)
LEMMA SettledWidens ==
    ASSUME NEW q, NEW d, NEW m, NEW k \in Nat, NEW j \in Nat, k <= j, NEW S, NEW T, S \subseteq T, Settled(q, d, m, k, S)
    PROVE  Settled(q, d, m, j, T)
<1>1. PICK i \in 0..k : (i = 0 \/ m \in DOMAIN q[i]) /\ Val(q, d, i, m) \in S /\ Later(q, i, m) \subseteq S
  BY DEF Settled
<1>2. i \in 0..j
  OBVIOUS
<1> QED BY <1>1, <1>2 DEF Settled

(* What is settled stays settled if the writes that are added keep it so. *)
LEMMA SettledStays ==
    ASSUME NEW q \in Writes, NEW r \in Writes, Extends(q, r), NEW d, NEW m, NEW k \in 0..Len(q), NEW S,
           Later(r, Len(q), m) \subseteq S, Settled(q, d, m, k, S)
    PROVE  Settled(r, d, m, k, S)
<1>1. PICK i \in 0..k : (i = 0 \/ m \in DOMAIN q[i]) /\ Val(q, d, i, m) \in S /\ Later(q, i, m) \subseteq S
  BY DEF Settled
<1>2. Len(q) \in Nat
  BY WritesLen
<1>3. i \in 0..Len(q)
  BY <1>1, <1>2
<1>4. Val(r, d, i, m) = Val(q, d, i, m) /\ Later(r, i, m) \subseteq S
  BY <1>1, <1>3, ValKept, LaterSplits
<1>5. i = 0 \/ m \in DOMAIN r[i]
  BY <1>1, <1>2, <1>3 DEF Extends
<1> QED BY <1>1, <1>4, <1>5 DEF Settled

(* The queue ends with what the outbox says, and persist keeps that so. *)
LEMMA PersistSettles ==
    ASSUME NEW q \in Writes, NEW b \in Boxes, NEW a \in Boxes, NEW d, NEW m \in Messages,
           Settled(q, d, m, Len(q), Alike(b[m]))
    PROVE  Settled(Persist(q, b, a), d, m, Len(Persist(q, b, a)), Alike(a[m]))
<1> SUFFICES ASSUME NEW r, r = Persist(q, b, a)
             PROVE  Settled(r, d, m, Len(r), Alike(a[m]))
  OBVIOUS
<1>1. b \in [Messages -> Entry \cup {None}] /\ a \in [Messages -> Entry \cup {None}]
  BY DEF Boxes
<1>2. /\ Extends(q, r)
      /\ Later(r, Len(q), m) = IF b[m] # a[m] THEN {a[m]} ELSE {}
      /\ b[m] # a[m] => m \in DOMAIN r[Len(r)] /\ Val(r, d, Len(r), m) = a[m]
  BY <1>1, PersistAdds
<1>3. r \in Writes /\ Len(q) \in Nat /\ Len(r) \in Nat /\ Len(q) <= Len(r)
  BY <1>2, WritesLen DEF Extends
<1>4. CASE b[m] = a[m]
  <2>1. Later(r, Len(q), m) = {} /\ Len(q) \in 0..Len(q)
    BY <1>2, <1>3, <1>4
  <2>2. Settled(q, d, m, Len(q), Alike(a[m]))
    BY <1>4
  <2>3. Settled(r, d, m, Len(q), Alike(a[m]))
    BY <1>2, <1>3, <2>1, <2>2, SettledStays
  <2> QED BY <2>3, <1>3, SettledWidens
<1>5. CASE b[m] # a[m]
  <2>1. a[m] \in Alike(a[m])
    BY <1>1 DEF Alike
  <2>2. Later(r, Len(r), m) = {}
    BY <1>3, LaterEnds
  <2>3. Val(r, d, Len(r), m) \in Alike(a[m]) /\ m \in DOMAIN r[Len(r)]
    BY <1>2, <1>5, <2>1
  <2>4. Len(r) \in 0..Len(r)
    BY <1>3
  <2> QED BY <2>2, <2>3, <2>4 DEF Settled
<1> QED BY <1>4, <1>5

(* The first write ends, and is not lost. *)
LEMMA SettledEnds ==
    ASSUME NEW q \in Writes, q # <<>>, NEW d, NEW e, NEW ok \in BOOLEAN, NEW m,
           e[m] = IF ok /\ m \in DOMAIN Head(q) THEN Head(q)[m] ELSE d[m],
           m \in DOMAIN Head(q) => ok,
           NEW k \in 0..Len(q), NEW j \in Nat, k <= j + 1, NEW S, Settled(q, d, m, k, S)
    PROVE  Settled(Tail(q), e, m, j, S)
<1>1. PICK i \in 0..k : (i = 0 \/ m \in DOMAIN q[i]) /\ Val(q, d, i, m) \in S /\ Later(q, i, m) \subseteq S
  BY DEF Settled
<1>2. /\ \A n \in Nat : Later(Tail(q), n, m) = Later(q, n + 1, m)
      /\ \A n \in Nat : Later(Tail(q), n, m) \subseteq Later(q, n, m)
      /\ e[m] = d[m] \/ e[m] \in Later(q, 0, m)
  BY FirstEnds
<1>3. Val(Tail(q), e, 0, m) = e[m] /\ Val(q, d, 0, m) = d[m] /\ Head(q) = q[1]
  BY DEF Val, Writes
<1>4. CASE i = 0
  <2>1. Val(Tail(q), e, 0, m) \in S /\ Later(Tail(q), 0, m) \subseteq S
    BY <1>1, <1>2, <1>3, <1>4
  <2>2. 0 \in 0..j
    OBVIOUS
  <2> QED BY <2>1, <2>2 DEF Settled
<1>5. CASE i = 1
  <2>1. Val(q, d, 1, m) = q[1][m] /\ m \in DOMAIN q[1]
    BY <1>1, <1>5 DEF Val
  <2>2. e[m] = q[1][m]
    BY <1>3, <2>1
  <2>3. Val(Tail(q), e, 0, m) \in S
    BY <1>1, <1>3, <1>5, <2>1, <2>2
  <2>4. Later(Tail(q), 0, m) \subseteq S
    BY <1>1, <1>2, <1>5
  <2>5. 0 \in 0..j
    OBVIOUS
  <2> QED BY <2>5, <2>3, <2>4 DEF Settled
<1>6. CASE i > 1
  <2>1. PICK n \in 0..j : n = i - 1 /\ n >= 1 /\ n + 1 = i
    BY <1>6
  <2>2. Later(Tail(q), n, m) = Later(q, i, m)
    BY <1>2, <2>1
  <2>3. i \in DOMAIN q
    BY <1>6, WritesLen
  <2>4. Tail(q)[n] = q[i]
    BY <2>1, <2>3 DEF Writes
  <2>5. Val(Tail(q), e, n, m) = Val(q, d, i, m)
    BY <2>1, <2>4, <1>6 DEF Val
  <2> QED BY <1>1, <1>6, <2>1, <2>2, <2>4, <2>5 DEF Settled
<1> QED BY <1>4, <1>5, <1>6

-----------------------------------------------------------------------------
(* The invariant of one destination. *)

(* A place has one dispatch in flight. *)
UniqueAt(m, n) == m # n /\ dispatch[m] # Idle /\ dispatch[n] # Idle => entries[m].place # entries[n].place

(* What was written last of m agrees with the outbox: whether there is an    *)
(* entry, and its thread.  What the disk has comes back first.               *)
TipAt(m) == (restoring => disk[m] = None) => Settled(writes, disk, m, Len(writes), Alike(entries[m]))

(* When n is launched, all there is of it knows the thread it is launched to. *)
SteadyAt(n) ==
    dispatch[n] # Idle =>
        /\ Settled(writes, disk, n, WaitOf(n), Heading(entries[n].thread))
        /\ dispatch[n].step = "store" => dispatch[n].thread = entries[n].thread

(* m goes to one thread, and every copy of it names that thread. *)
AimedAt(m) ==
    \E t \in Threads : \A u \in Threads : Goes(m, u) => u = t /\ \A v \in Copies(m) : Target(m, v) = t

(* One launch of a new chat: with copies of two messages that do not know    *)
(* their thread, one could bind the other to its own.                        *)
AloneAt(m, n) == m # n /\ Launched(m) /\ Touched(n) => ~ (Unbound(m) /\ Unbound(n))

(* When n is launched from the new chat, what went before it has left. *)
ClearAt(m, n) ==
    m # n /\ dispatch[n] # Idle /\ entries[n].thread = None /\ ~ restoring /\ Touched(m) =>
        Settled(writes, disk, m, WaitOf(n), Elsewhere)

(* What a copy says of the past *)
Tells(n, v) ==
    /\ n \in doubted => ~ v.preparing
    /\ v.delivery = "failed" /\ ~ v.preparing => n \in refused /\ (Launched(n) => n \in doubted)
    /\ v.delivery = "accepted" => v.thread # None

TellingAt(n) == \A v \in Copies(n) : Tells(n, v)

(* What rests in the new chat after it may have been launched is in doubt. *)
RestingAt(n) ==
    Touched(n) /\ entries[n] # None /\ entries[n].thread = None /\ dispatch[n] = Idle => n \in doubted

(* What is in the outbox while it is being restored is not launched. *)
EarlyAt(m) ==
    restoring => /\ entries[m] # None => m \in early
                 /\ entries[m] # None \/ Later(writes, 0, m) # {} => ~ Touched(m)

Singly == \A m \in Messages : TipAt(m) /\ SteadyAt(m) /\ AimedAt(m) /\ TellingAt(m) /\ RestingAt(m) /\ EarlyAt(m)

Pairwise == \A m, n \in Messages : UniqueAt(m, n) /\ AloneAt(m, n)

Clear == \A m, n \in Messages : ClearAt(m, n)

Calm == \A m \in Messages : InFlight(m) => InDoubt(m) = {}

Once == Singly /\ Pairwise /\ Clear /\ Calm

-----------------------------------------------------------------------------
(* How one message comes through a step that writes behind what waits. *)

New(n) == ({entries'[n]} \cup AddsTo(n)) \ {None}

\* may be launched by this step
Begins(n) == dispatch[n] # Idle /\ WaitOf(n) = 0 /\ entries[n] # None

Continues(n) ==
    /\ dispatch[n] # Idle /\ entries[n] # None /\ entries'[n] # None
    /\ entries'[n].place = entries[n].place /\ entries'[n].thread = entries[n].thread
    /\ AddsTo(n) \subseteq Heading(entries[n].thread)
    /\ WaitOf(n) <= WaitOf(n)' /\ WaitOf(n)' <= Len(writes')
    /\ dispatch'[n].step = "store" => dispatch'[n].thread = entries[n].thread

Proceeds(n) == dispatch'[n] # Idle => (StartedNow(n) /\ Free(n)) \/ Continues(n)

Carries(n) ==
    /\ TipAt(n)' /\ RestingAt(n)'
    /\ \A v \in New(n) :
        /\ Tells(n, v)'
        /\ \/ ~ Touched(n)'
           \/ \E u \in Copies(n) : u.thread = v.thread
           \/ v.thread \in Threads /\ Goes(n, v.thread)
    /\ \A v \in Copies(n) : Tells(n, v) => Tells(n, v)'
    /\ restoring' /\ (entries'[n] # None \/ AddsTo(n) # {}) => entries[n] # None \/ ~ Touched(n)'
    /\ entries'[n] = None \/ entries'[n].thread # None =>
        AddsTo(n) \subseteq Elsewhere \/ (Touched(n) /\ entries[n] # None /\ entries[n].thread = None)
    /\ Proceeds(n)
    /\ Touched(n)' => Touched(n) \/ Begins(n)
    /\ \A t \in Threads : Goes(n, t)' => Goes(n, t) \/ (Begins(n) /\ t = Target(n, entries[n]))
    /\ restoring' /\ entries'[n] # None => n \in early'
    /\ n \in doubted' /\ entries'[n] # None /\ entries'[n].delivery # "accepted" =>
        \/ n \in refused'
        \/ /\ entries[n] # None /\ entries'[n].place = entries[n].place
           /\ dispatch[n] # Idle \/ (n \in doubted /\ entries[n].delivery # "accepted")

(* An unknown outcome pauses its thread. *)
Pausing ==
    \A m \in Messages : InFlight(m)' =>
        \A n \in InDoubt(m)' : Before(order', m, n) \/ n \in refused' \/ m \in early'

(* Where a message goes is a thread. *)
LEMMA GoesIs ==
    ASSUME Typed, NEW m \in Messages
    PROVE  Launched(m) <=> \E t \in Threads : Goes(m, t)
<1>1. \A w \in wire : Addressed(w) \in Threads
  BY DEF Typed, Requests, Addressed, Threads
<1> QED BY <1>1 DEF Launched, OnWire, Admitted, Goes

(* The copies of an entry are entries. *)
LEMMA CopiesAre ==
    ASSUME Typed, NEW m \in Messages
    PROVE  Copies(m) \subseteq Entry /\ (entries[m] # None => entries[m] \in Copies(m)) /\ (disk[m] # None => disk[m] \in Copies(m))
<1>1. Later(writes, 0, m) \subseteq Entry \cup {None}
  BY LaterTyped DEF Typed
<1> QED BY <1>1 DEF Typed, Copies, Values

(* What no write waits for: all there is of the message. *)
LEMMA AllSettled ==
    ASSUME Typed, NEW m \in Messages, NEW S, Settled(writes, disk, m, 0, S), entries[m] \in S \cup {None}
    PROVE  Copies(m) \subseteq S
<1>1. PICK i \in 0..0 : Val(writes, disk, i, m) \in S /\ Later(writes, i, m) \subseteq S
  BY DEF Settled
<1>2. disk[m] \in S /\ Later(writes, 0, m) \subseteq S
  BY <1>1 DEF Val
<1> QED BY <1>2 DEF Copies, Values

(* All copies of what may be launched now know the same thread. *)
LEMMA BeginsSettled ==
    ASSUME Inv, NEW m \in Messages, SteadyAt(m), Begins(m)
    PROVE  /\ \A v \in Copies(m) : v \in Entry /\ v.thread = entries[m].thread
           /\ ~ restoring
<1>0. Typed /\ Resuming
  BY DEF Inv
<1>1. Settled(writes, disk, m, 0, Heading(entries[m].thread)) /\ entries[m] # None /\ entries[m] \in Entry
  BY <1>0 DEF SteadyAt, Begins, Typed
<1>2. entries[m] \in Heading(entries[m].thread)
  BY <1>1 DEF Heading
<1>3. Copies(m) \subseteq Heading(entries[m].thread)
  BY <1>0, <1>1, <1>2, AllSettled
<1>4. None \notin Copies(m)
  BY DEF Copies
<1>5. ~ restoring
  BY <1>0 DEF Resuming, Begins, WaitOf, Waits
<1> QED BY <1>3, <1>4, <1>5 DEF Heading

(* The frame of an extending step *)
Behind == Extends(writes, writes') /\ disk' = disk /\ restoring' = restoring

(* The copies of a message after such a step *)
LEMMA CopiesNew ==
    ASSUME Typed, Behind, NEW m \in Messages
    PROVE  Copies(m)' \subseteq Copies(m) \cup New(m)
<1>1. Values(m)' = {entries'[m], disk[m]} \cup Later(writes, 0, m) \cup AddsTo(m)
  BY ValuesAre DEF Behind
<1>2. Copies(m)' = Values(m)' \ {None}
  BY DEF Copies
<1> QED BY <1>1, <1>2 DEF Copies, Values, New

(* A place has one dispatch in flight ... *)
LEMMA UniqueKeeps ==
    ASSUME Inv', NEW m \in Messages, NEW n \in Messages, UniqueAt(m, n), Proceeds(m), Proceeds(n)
    PROVE  UniqueAt(m, n)'
<1> SUFFICES ASSUME m # n, dispatch'[m] # Idle, dispatch'[n] # Idle, entries'[m].place = entries'[n].place
             PROVE  FALSE
  BY DEF UniqueAt
<1>1. entries'[m] # None /\ entries'[m].delivery = "pending" /\ entries'[n] # None /\ entries'[n].delivery = "pending"
  BY DEF Inv, Staged, StagedAt
<1>2. (StartedNow(m) /\ Free(m)) \/ Continues(m)
  BY DEF Proceeds
<1>3. (StartedNow(n) /\ Free(n)) \/ Continues(n)
  BY DEF Proceeds
<1>4. CASE Continues(m) /\ Continues(n)
  BY <1>4 DEF Continues, UniqueAt
<1>5. CASE StartedNow(m) /\ StartedNow(n)
  <2>1. order' \in Orders(Retained') /\ m \in Retained' /\ n \in Retained'
    BY <1>1 DEF Inv, Lined, Retained
  <2>2. Before(order', m, n) \/ Before(order', n, m)
    BY <2>1 DEF Orders
  <2>3. Open(entries'[m]) /\ Open(entries'[n])
    BY <1>1 DEF Open
  <2> QED BY <1>1, <1>5, <2>2, <2>3 DEF StartedNow
<1> QED BY <1>1, <1>2, <1>3, <1>4, <1>5 DEF Free

(* ... the queue ends with copies that agree with what is dispatched ... *)
LEMMA SteadyKeeps ==
    ASSUME Inv, Inv', Extends(writes, writes'), disk' = disk, NEW n \in Messages, SteadyAt(n), TipAt(n)', Proceeds(n)
    PROVE  SteadyAt(n)'
<1>0. Typed /\ Typed' /\ Staged /\ Staged' /\ Resuming'
  BY DEF Inv
<1> SUFFICES ASSUME dispatch'[n] # Idle
             PROVE  /\ \E k \in Nat : k = WaitOf(n)' /\ Settled(writes', disk', n, k, Heading(entries'[n].thread))
                    /\ dispatch'[n].step = "store" => dispatch'[n].thread = entries'[n].thread
  BY DEF SteadyAt
<1>1. writes \in Writes /\ writes' \in Writes /\ Extends(writes, writes') /\ disk' = disk
      /\ Len(writes) \in Nat /\ Len(writes') \in Nat /\ Len(writes) <= Len(writes')
  BY <1>0, WritesLen DEF Typed, Extends
<1>2. CASE Continues(n)
  <2>1. dispatch[n] # Idle /\ entries[n] # None /\ dispatch[n] \in Calls /\ dispatch'[n] \in Calls
    BY <1>0, <1>2 DEF Continues, Typed
  <2>2. Waits(dispatch[n]) => dispatch[n].wait \in 0..Len(writes)
    BY <1>0, <1>1, <2>1, CallKinds DEF Staged, StagedAt
  <2>3. WaitOf(n) \in 0..Len(writes) /\ WaitOf(n) \in Nat
    BY <1>1, <2>2 DEF WaitOf
  <2>4. WaitOf(n)' \in Nat
    BY <2>1, CallKinds DEF WaitOf, Waits
  <2>5. Settled(writes, disk, n, WaitOf(n), Heading(entries[n].thread))
    BY <2>1 DEF SteadyAt
  <2>6. Later(writes', Len(writes), n) \subseteq Heading(entries[n].thread)
    BY <1>2 DEF Continues, AddsTo
  <2>7. Settled(writes', disk', n, WaitOf(n), Heading(entries[n].thread))
    BY <1>1, <2>3, <2>5, <2>6, SettledStays
  <2>8. PICK k \in Nat : k = WaitOf(n)' /\ WaitOf(n) <= k
    BY <1>2, <2>4 DEF Continues
  <2>9. Settled(writes', disk', n, k, Heading(entries[n].thread))
    BY <2>3, <2>7, <2>8, SettledWidens
  <2> QED BY <1>2, <2>8, <2>9 DEF Continues
<1>3. CASE StartedNow(n)
  <2>1. WaitOf(n)' = Len(writes') /\ dispatch'[n].step # "store" /\ entries'[n] # None
    BY <1>3 DEF StartedNow, WaitOf, Waits
  <2>2. restoring' => disk'[n] = None
    BY <1>0, <2>1 DEF Resuming
  <2>3. Settled(writes', disk', n, Len(writes'), Alike(entries'[n]))
    BY <2>2 DEF TipAt
  <2>4. Alike(entries'[n]) \subseteq Heading(entries'[n].thread)
    BY <2>1 DEF Alike, Heading
  <2>5. Settled(writes', disk', n, Len(writes'), Heading(entries'[n].thread))
    BY <1>1, <2>3, <2>4, SettledWidens
  <2> QED BY <1>1, <2>1, <2>5
<1> QED BY <1>2, <1>3 DEF Proceeds

(* ... a message goes to one thread ... *)
LEMMA AimedKeeps ==
    ASSUME Inv, Inv', Behind, NEW m \in Messages, AimedAt(m), SteadyAt(m), Carries(m)
    PROVE  AimedAt(m)'
<1>0. Typed /\ Typed'
  BY DEF Inv
<1>1. PICK t \in Threads : \A u \in Threads : Goes(m, u) => u = t /\ \A v \in Copies(m) : Target(m, v) = t
  BY DEF AimedAt
<1>2. \A u \in Threads : Goes(m, u)' => Goes(m, u) \/ (Begins(m) /\ u = Target(m, entries[m]))
  BY DEF Carries
<1>3. Copies(m)' \subseteq Copies(m) \cup New(m)
  BY <1>0, CopiesNew
<1>4. ASSUME NEW u \in Threads, Goes(m, u)'
      PROVE  Touched(m)'
  <2>1. Launched(m)'
    BY <1>4 DEF Launched, OnWire, Admitted, Goes
  <2> QED BY <2>1 DEF Touched
<1>5. \A v : v \in Copies(m)' =>
        \/ v \in Copies(m)
        \/ ~ Touched(m)'
        \/ \E u \in Copies(m) : u.thread = v.thread
        \/ v.thread \in Threads /\ Goes(m, v.thread)
  BY <1>3 DEF Carries
<1>6. None \notin Threads
  BY OutboxConstants
<1>7. CASE \E s \in Threads : Goes(m, s)
  <2>1. Goes(m, t) /\ \A v \in Copies(m) : Target(m, v) = t
    BY <1>1, <1>7
  <2>2. Begins(m) => Target(m, entries[m]) = t
    BY <1>0, <2>1, CopiesAre DEF Begins
  <2>3. ASSUME NEW u \in Threads, Goes(m, u)'
        PROVE  u = t /\ \A v \in Copies(m)' : Target(m, v) = t
    <3>1. u = t
      BY <1>1, <1>2, <2>2, <2>3
    <3>2. ASSUME NEW v \in Copies(m)' PROVE Target(m, v) = t
      <4>1. v.thread \in Threads /\ Goes(m, v.thread) => v.thread = t
        BY <1>1
      <4> QED BY <1>4, <1>5, <1>6, <2>1, <2>3, <4>1 DEF Target
    <3> QED BY <3>1, <3>2
  <2>4. \E s \in Threads : \A u \in Threads : Goes(m, u)' => u = s /\ \A v \in Copies(m)' : Target(m, v) = s
    BY <2>3
  <2> QED BY <2>4 DEF AimedAt, Target
<1>8. CASE ~ \E s \in Threads : Goes(m, s)
  <2>1. ASSUME NEW u \in Threads, Goes(m, u)'
        PROVE  u = Target(m, entries[m]) /\ \A v \in Copies(m)' : Target(m, v) = Target(m, entries[m])
    <3>1. Begins(m) /\ u = Target(m, entries[m])
      BY <1>2, <1>8, <2>1
    <3>2. \A v \in Copies(m) : v.thread = entries[m].thread
      BY <3>1, BeginsSettled
    <3>3. ASSUME NEW v \in Copies(m)' PROVE v.thread = entries[m].thread
      BY <1>4, <1>5, <1>8, <2>1, <3>2
    <3> QED BY <3>1, <3>3 DEF Target
  <2>2. CASE \E u \in Threads : Goes(m, u)'
    <3>1. Target(m, entries[m]) \in Threads
      BY <2>1, <2>2
    <3>2. \E s \in Threads : \A u \in Threads : Goes(m, u)' => u = s /\ \A v \in Copies(m)' : Target(m, v) = s
      BY <2>1, <3>1
    <3> QED BY <3>2 DEF AimedAt, Target
  <2>3. CASE ~ \E u \in Threads : Goes(m, u)'
    BY <2>3, <1>1 DEF AimedAt
  <2> QED BY <2>2, <2>3
<1> QED BY <1>7, <1>8

(* Where a launch leads that was not there before *)
LEMMA LaunchedNew ==
    ASSUME Typed', NEW m \in Messages, Carries(m)
    PROVE  Launched(m)' => Launched(m) \/ Begins(m)
<1> SUFFICES ASSUME Launched(m)', ~ Begins(m)
             PROVE  Launched(m)
  OBVIOUS
<1>1. ASSUME NEW t \in Threads, Goes(m, t)'
      PROVE  Launched(m)
  <2>1. Goes(m, t)
    BY <1>1 DEF Carries
  <2> QED BY <2>1 DEF Launched, OnWire, Admitted, Goes
<1>2. CASE Admitted(m)'
  BY <1>1, <1>2 DEF Admitted, Goes
<1>3. CASE OnWire(m)'
  <2>1. PICK w \in wire' : w.m = m
    BY <1>3 DEF OnWire
  <2>2. Addressed(w) \in Threads
    BY <2>1 DEF Typed, Requests, Addressed, Threads
  <2> QED BY <1>1, <2>1, <2>2 DEF Goes
<1> QED BY <1>2, <1>3 DEF Launched

(* Copies that do not know their thread, of a message that may have been launched, are not new. *)
LEMMA UnboundNew ==
    ASSUME Typed, Behind, NEW m \in Messages, Carries(m), Touched(m)', Unbound(m)'
    PROVE  Unbound(m)
<1>1. PICK v \in Copies(m)' : v.thread = None
  BY DEF Unbound
<1>2. Copies(m)' \subseteq Copies(m) \cup New(m)
  BY CopiesNew
<1>3. CASE v \in Copies(m)
  BY <1>1, <1>3 DEF Unbound
<1>4. CASE v \in New(m)
  <2>1. None \notin Threads
    BY OutboxConstants
  <2>2. \E u \in Copies(m) : u.thread = v.thread
    BY <1>1, <1>4, <2>1 DEF Carries
  <2> QED BY <1>1, <2>2 DEF Unbound
<1> QED BY <1>1, <1>2, <1>3, <1>4

(* While n is dispatched from the new chat, nothing else that was touched is there. *)
LEMMA NewChatFree ==
    ASSUME Inv, Calm, NEW m \in Messages, NEW n \in Messages, m # n, UniqueAt(m, n), RestingAt(m), TellingAt(m),
           dispatch[n] # Idle, entries[n].thread = None, Touched(m) \/ dispatch[m] # Idle
    PROVE  entries[m] = None \/ entries[m].thread # None
<1> SUFFICES ASSUME entries[m] # None, entries[m].thread = None
             PROVE  FALSE
  OBVIOUS
<1>0. Typed /\ Staged
  BY DEF Inv
<1>1. entries[n] # None
  BY <1>0 DEF Staged, StagedAt
<1>2. entries[m].place = Draft /\ entries[n].place = Draft
  BY <1>1, EntryValid DEF Valid, Fits
<1>3. dispatch[m] = Idle /\ Touched(m)
  BY <1>2 DEF UniqueAt
<1>4. m \in doubted
  BY <1>3 DEF RestingAt
<1>5. entries[m].delivery # "accepted"
  BY <1>0, CopiesAre DEF TellingAt, Tells
<1>6. m \in InDoubt(n)
  BY <1>2, <1>4, <1>5 DEF InDoubt
<1> QED BY <1>6 DEF Calm, InFlight

(* So it is after a step that has overtaken nothing. *)
LEMMA NewChatNow ==
    ASSUME Inv', Calm', NEW m \in Messages, NEW n \in Messages, m # n, UniqueAt(m, n)', RestingAt(m)', TellingAt(m)',
           dispatch'[n] # Idle, entries'[n].thread = None, Touched(m)'
    PROVE  entries'[m] = None \/ entries'[m].thread # None
<1> SUFFICES ASSUME entries'[m] # None, entries'[m].thread = None
             PROVE  FALSE
  OBVIOUS
<1>1. entries'[n] # None
  BY DEF Inv, Staged, StagedAt
<1>2. Fits(entries'[m]) /\ Fits(entries'[n])
  BY <1>1 DEF Inv, AllValid, ValidAt, Valid, Values
<1>3. entries'[m].place = Draft /\ entries'[n].place = Draft
  BY <1>2 DEF Fits
<1>4. dispatch'[m] = Idle
  BY <1>3 DEF UniqueAt
<1>5. m \in doubted'
  BY <1>4 DEF RestingAt
<1>6. entries'[m] \in Copies(m)'
  BY DEF Copies, Values
<1>7. entries'[m].delivery # "accepted"
  BY <1>6 DEF TellingAt, Tells
<1>8. m \in InDoubt(n)'
  BY <1>3, <1>5, <1>7 DEF InDoubt
<1> QED BY <1>8 DEF Calm, InFlight

(* Of two messages that do not know their thread none is launched if the other may have been. *)
LEMMA OneBegins ==
    ASSUME Inv, Once, NEW m \in Messages, NEW n \in Messages, m # n, Begins(m), Touched(n) \/ Begins(n),
           Unbound(m), Unbound(n)
    PROVE  FALSE
<1>0. Typed
  BY DEF Inv
<1>1. SteadyAt(m) /\ SteadyAt(n) /\ UniqueAt(n, m) /\ RestingAt(n) /\ TellingAt(n) /\ ClearAt(n, m) /\ Calm
  BY DEF Once, Singly, Pairwise, Clear
<1>2. dispatch[m] # Idle /\ WaitOf(m) = 0 /\ entries[m].thread = None /\ ~ restoring
  BY <1>1, BeginsSettled DEF Begins, Unbound
<1>3. entries[n] = None \/ entries[n].thread # None
  BY <1>1, <1>2, NewChatFree DEF Begins
<1>4. CASE Touched(n)
  <2>1. Settled(writes, disk, n, 0, Elsewhere)
    BY <1>1, <1>2, <1>4 DEF ClearAt
  <2>2. entries[n] \in Elsewhere \cup {None}
    BY <1>0, <1>3 DEF Elsewhere, Typed
  <2>3. Copies(n) \subseteq Elsewhere
    BY <1>0, <2>1, <2>2, AllSettled
  <2> QED BY <2>3 DEF Unbound, Elsewhere, Copies
<1>5. CASE Begins(n)
  BY <1>1, <1>3, <1>5, BeginsSettled DEF Unbound, Begins
<1> QED BY <1>4, <1>5

(* ... one launch of a new chat ... *)
LEMMA AloneKeeps ==
    ASSUME Inv, Inv', Once, Behind, NEW m \in Messages, NEW n \in Messages, Carries(m), Carries(n)
    PROVE  AloneAt(m, n)'
<1> SUFFICES ASSUME m # n, Launched(m)', Touched(n)', Unbound(m)', Unbound(n)'
             PROVE  FALSE
  BY DEF AloneAt
<1>0. Typed /\ Typed'
  BY DEF Inv
<1>1. Touched(m)'
  BY DEF Touched
<1>2. Unbound(m) /\ Unbound(n)
  BY <1>0, <1>1, UnboundNew
<1>3. (Launched(m) \/ Begins(m)) /\ (Touched(n) \/ Begins(n))
  BY <1>0, LaunchedNew DEF Carries
<1>4. CASE Begins(m)
  BY <1>2, <1>3, <1>4, OneBegins
<1>5. CASE Begins(n) /\ Launched(m)
  BY <1>2, <1>5, OneBegins DEF Touched
<1>6. CASE Launched(m) /\ Touched(n)
  BY <1>2, <1>6 DEF Once, Pairwise, AloneAt
<1> QED BY <1>3, <1>4, <1>5, <1>6

(* ... what copies say ... *)
LEMMA TellingKeeps ==
    ASSUME Typed, Behind, NEW n \in Messages, Carries(n), TellingAt(n)
    PROVE  TellingAt(n)'
<1>1. Copies(n)' \subseteq Copies(n) \cup New(n)
  BY CopiesNew
<1>2. \A v \in Copies(n)' : Tells(n, v)'
  BY <1>1 DEF Carries, TellingAt
<1> QED BY <1>2 DEF TellingAt, Tells

(* ... nothing that went before is behind a launch from the new chat ... *)
LEMMA ClearKeeps ==
    ASSUME Inv, Inv', Once, Behind, NEW m \in Messages, NEW n \in Messages, Carries(m), Carries(n), Calm'
    PROVE  ClearAt(m, n)'
<1> SUFFICES ASSUME m # n, dispatch'[n] # Idle, entries'[n].thread = None, ~ restoring', Touched(m)'
             PROVE  \E k \in Nat : k = WaitOf(n)' /\ Settled(writes', disk', m, k, Elsewhere)
  BY DEF ClearAt
<1>0. Typed /\ Typed' /\ Staged /\ Staged'
  BY DEF Inv
<1>1. UniqueAt(m, n) /\ RestingAt(m) /\ TellingAt(m) /\ ClearAt(m, n) /\ SteadyAt(m) /\ Calm
  BY DEF Once, Singly, Pairwise, Clear
<1>2. UniqueAt(m, n)' /\ TellingAt(m)' /\ RestingAt(m)' /\ TipAt(m)'
  <2>1. Proceeds(m) /\ Proceeds(n) /\ RestingAt(m)' /\ TipAt(m)'
    BY DEF Carries
  <2> QED BY <1>0, <1>1, <2>1, UniqueKeeps, TellingKeeps
<1>3. entries'[m] = None \/ entries'[m].thread # None
  BY <1>2, NewChatNow
<1>4. writes \in Writes /\ writes' \in Writes /\ Extends(writes, writes') /\ disk' = disk
      /\ Len(writes) \in Nat /\ Len(writes') \in Nat /\ Len(writes) <= Len(writes') /\ restoring' = restoring
  BY <1>0, WritesLen DEF Behind, Typed, Extends
<1>5. CASE StartedNow(n)
  <2>1. WaitOf(n)' = Len(writes')
    BY <1>5 DEF StartedNow, WaitOf, Waits
  <2>2. Settled(writes', disk', m, Len(writes'), Alike(entries'[m]))
    BY <1>2 DEF TipAt
  <2>3. Alike(entries'[m]) \subseteq Elsewhere
    BY <1>3 DEF Alike, Elsewhere
  <2> QED BY <1>4, <2>1, <2>2, <2>3, SettledWidens
<1>6. CASE Continues(n)
  <2>1. dispatch[n] # Idle /\ entries[n].thread = None /\ dispatch[n] \in Calls /\ dispatch'[n] \in Calls
    BY <1>0, <1>6 DEF Continues, Typed
  <2>2. WaitOf(n) \in 0..Len(writes) /\ WaitOf(n) \in Nat /\ WaitOf(n)' \in Nat /\ WaitOf(n) <= WaitOf(n)'
    <3>1. Waits(dispatch[n]) => dispatch[n].wait \in 0..Len(writes)
      BY <1>0, <1>4, <2>1, CallKinds DEF Staged, StagedAt
    <3>2. WaitOf(n) \in 0..Len(writes) /\ WaitOf(n) \in Nat
      BY <1>4, <3>1 DEF WaitOf
    <3>3. WaitOf(n)' \in Nat
      BY <2>1, CallKinds DEF WaitOf, Waits
    <3> QED BY <3>2, <3>3, <1>6 DEF Continues
  <2>3. AddsTo(m) \subseteq Elsewhere
    BY <1>1, <1>3, <2>1, NewChatFree DEF Carries
  <2>4. Later(writes', Len(writes), m) \subseteq Elsewhere
    BY <2>3 DEF AddsTo
  <2>5. Settled(writes, disk, m, WaitOf(n), Elsewhere)
    <3>1. CASE Touched(m)
      BY <1>1, <1>4, <2>1, <3>1 DEF ClearAt
    <3>2. CASE Begins(m)
      <4>1. entries[m].thread # None
        BY <1>1, <2>1, <3>2, NewChatFree DEF Begins
      <4>2. \A v \in Copies(m) : v \in Elsewhere
        BY <1>1, <3>2, <4>1, BeginsSettled DEF Elsewhere
      <4>3. Val(writes, disk, 0, m) \in Elsewhere /\ Later(writes, 0, m) \subseteq Elsewhere
        BY <4>2 DEF Val, Copies, Values, Elsewhere
      <4>4. 0 \in 0..WaitOf(n)
        BY <2>2
      <4> QED BY <4>3, <4>4 DEF Settled
    <3> QED BY <3>1, <3>2 DEF Carries
  <2>6. Settled(writes', disk', m, WaitOf(n), Elsewhere)
    BY <1>4, <2>2, <2>4, <2>5, SettledStays
  <2>7. PICK k \in Nat : k = WaitOf(n)' /\ WaitOf(n) <= k
    BY <2>2
  <2>8. Settled(writes', disk', m, k, Elsewhere)
    BY <2>2, <2>6, <2>7, SettledWidens
  <2> QED BY <2>7, <2>8
<1> QED BY <1>5, <1>6 DEF Carries, Proceeds

(* ... what is being restored has not been launched ... *)
LEMMA EarlyKeeps ==
    ASSUME Inv, Inv', Behind, NEW m \in Messages, EarlyAt(m), SteadyAt(m), Carries(m)
    PROVE  EarlyAt(m)'
<1> SUFFICES ASSUME restoring'
             PROVE  /\ entries'[m] # None => m \in early'
                    /\ entries'[m] # None \/ Later(writes, 0, m)' # {} => ~ Touched(m)'
  BY DEF EarlyAt
<1>0. Typed /\ Typed'
  BY DEF Inv
<1>1. Later(writes', 0, m) = Later(writes, 0, m) \cup AddsTo(m)
  <2>1. 0 \in 0..Len(writes)
    BY <1>0, WritesLen DEF Typed
  <2> QED BY <1>0, <2>1, LaterSplits DEF Typed, Behind, AddsTo
<1>2. ~ Begins(m) /\ restoring
  BY BeginsSettled DEF Behind
<1>3. Touched(m)' => Touched(m) /\ entries[m] = None /\ Later(writes, 0, m) = {}
  BY <1>2 DEF Carries, EarlyAt
<1> QED BY <1>1, <1>3 DEF Carries

(* ... and an unknown outcome pauses its thread. *)
LEMMA PausesNow ==
    ASSUME Inv, Inv', Once, Behind, NEW m \in Messages, NEW n \in Messages, Carries(m), Carries(n),
           InFlight(m)', n \in InDoubt(m)'
    PROVE  Before(order', m, n) \/ n \in refused' \/ m \in early'
<1>0. Typed /\ Typed' /\ Staged' /\ Lined'
  BY DEF Inv
<1>1. n # m /\ n \in doubted' /\ entries'[n] # None /\ entries'[n].delivery # "accepted"
      /\ entries'[n].place = entries'[m].place /\ dispatch'[m] # Idle
  BY DEF InDoubt, InFlight
<1>2. entries'[m] # None
  BY <1>0, <1>1 DEF Staged, StagedAt
<1>3. CASE StartedNow(m)
  <2>1. CASE Open(entries'[n])
    <3>1. ~ Before(order', n, m)
      BY <1>1, <1>3, <2>1 DEF StartedNow
    <3>2. order' \in Orders(Retained') /\ m \in Retained' /\ n \in Retained'
      BY <1>0, <1>1, <1>2 DEF Lined, Retained
    <3> QED BY <1>1, <3>1, <3>2 DEF Orders
  <2>2. CASE ~ Open(entries'[n])
    <3>1. entries'[n].delivery = "failed"
      BY <1>0, <1>1, <2>2 DEF Open, Typed, Entry
    <3>2. TellingAt(n)'
      BY <1>0, TellingKeeps DEF Once, Singly
    <3>3. entries'[n] \in Copies(n)'
      BY <1>1 DEF Copies, Values
    <3> QED BY <1>1, <3>1, <3>2, <3>3 DEF TellingAt, Tells
  <2> QED BY <2>1, <2>2
<1>4. CASE Continues(m)
  <2>1. dispatch[m] # Idle /\ entries[m].place = entries'[m].place
    BY <1>4 DEF Continues
  <2>2. UniqueAt(m, n) /\ Calm
    BY DEF Once, Pairwise
  <2>3. CASE n \in refused'
    BY <2>3
  <2>4. CASE entries[n] # None /\ entries'[n].place = entries[n].place /\ dispatch[n] # Idle
    BY <1>1, <2>1, <2>2, <2>4 DEF UniqueAt
  <2>5. CASE entries[n] # None /\ entries'[n].place = entries[n].place /\ n \in doubted /\ entries[n].delivery # "accepted"
    <3>1. n \in InDoubt(m)
      BY <1>1, <2>1, <2>5 DEF InDoubt
    <3> QED BY <2>1, <2>2, <3>1 DEF Calm, InFlight
  <2> QED BY <1>1, <2>3, <2>4, <2>5 DEF Carries
<1> QED BY <1>1, <1>3, <1>4 DEF Carries, Proceeds

\* what a step makes of the invariant
Onward == Singly' /\ Pairwise' /\ (Calm' => Clear') /\ Pausing

(* A step that carries every message *)
LEMMA CarriedOn ==
    ASSUME Inv, Inv', Once, Behind, \A n \in Messages : Carries(n)
    PROVE  Onward
<1>0. Typed
  BY DEF Inv
<1>1. ASSUME NEW m \in Messages
      PROVE  (TipAt(m) /\ SteadyAt(m) /\ AimedAt(m) /\ TellingAt(m) /\ RestingAt(m) /\ EarlyAt(m))'
  <2>1. SteadyAt(m) /\ AimedAt(m) /\ TellingAt(m) /\ EarlyAt(m)
    BY DEF Once, Singly
  <2>2. TipAt(m)' /\ RestingAt(m)' /\ Proceeds(m) /\ Extends(writes, writes') /\ disk' = disk
    BY DEF Carries, Behind
  <2> QED BY <1>0, <2>1, <2>2, SteadyKeeps, AimedKeeps, TellingKeeps, EarlyKeeps
<1>2. ASSUME NEW m \in Messages, NEW n \in Messages
      PROVE  UniqueAt(m, n)' /\ AloneAt(m, n)'
  <2>1. UniqueAt(m, n) /\ Proceeds(m) /\ Proceeds(n)
    BY DEF Once, Pairwise, Carries
  <2> QED BY <2>1, UniqueKeeps, AloneKeeps
<1>3. Calm' => Clear'
  BY ClearKeeps DEF Clear
<1>4. Pausing
  <2>1. \A m \in Messages : InDoubt(m)' \subseteq Messages
    BY DEF Inv, Typed, InDoubt
  <2> QED BY <2>1, PausesNow DEF Pausing
<1> QED BY <1>1, <1>2, <1>3, <1>4 DEF Onward, Singly, Pairwise

-----------------------------------------------------------------------------
(* Steps that write behind what waits. *)

(* persist keeps the tip of every message. *)
LEMMA PersistTip ==
    ASSUME Typed, entries' \in Boxes, writes' = Persist(writes, entries, entries'), disk' = disk, restoring' = restoring,
           NEW m \in Messages, TipAt(m)
    PROVE  TipAt(m)'
<1>1. writes \in Writes /\ entries \in Boxes
  BY DEF Typed, Boxes
<1>2. (restoring => disk[m] = None) => Settled(writes, disk, m, Len(writes), Alike(entries[m]))
  BY DEF TipAt
<1>3. (restoring => disk[m] = None) => Settled(writes', disk, m, Len(writes'), Alike(entries'[m]))
  BY <1>1, <1>2, PersistSettles
<1> QED BY <1>3 DEF TipAt

(* What waits counts the writes that it waits for. *)
LEMMA WaitIs ==
    ASSUME Typed, Staged, NEW n \in Messages
    PROVE  WaitOf(n) \in Nat /\ WaitOf(n) <= Len(writes) /\ Len(writes) \in Nat
<1>1. dispatch[n] \in Calls /\ Len(writes) \in Nat
  BY WritesLen DEF Typed
<1>2. Waits(dispatch[n]) => dispatch[n].wait \in Nat /\ dispatch[n].wait <= Len(writes)
  BY <1>1, CallKinds DEF Staged, StagedAt
<1> QED BY <1>1, <1>2 DEF WaitOf

\* how the dispatch of n goes on, if the step does not end it
GoesOn(n) == dispatch'[n] = dispatch[n] \/ (StartedNow(n) /\ Free(n))

(* A dispatch that is not changed continues. *)
LEMMA SameContinues ==
    ASSUME Inv, Inv', NEW n \in Messages, SteadyAt(n), dispatch'[n] = dispatch[n], dispatch[n] # Idle,
           entries[n] # None, entries'[n] # None,
           entries'[n].place = entries[n].place, entries'[n].thread = entries[n].thread,
           AddsTo(n) \subseteq Heading(entries[n].thread)
    PROVE  Continues(n)
<1>1. WaitOf(n)' = WaitOf(n)
  BY DEF WaitOf
<1>2. WaitOf(n)' <= Len(writes')
  <2>1. dispatch'[n] \in Calls /\ Len(writes') \in Nat /\ StagedAt(n)'
    BY WritesLen DEF Inv, Typed, Staged
  <2> QED BY <2>1, CallKinds DEF WaitOf, StagedAt
<1>3. WaitOf(n) \in Nat
  BY WaitIs DEF Inv
<1>4. WaitOf(n) <= WaitOf(n)'
  BY <1>1, <1>3
<1> QED BY <1>2, <1>4 DEF Continues, SteadyAt

\* what a step that does not concern n does to it
Untouched(n) ==
    /\ entries'[n] = entries[n] /\ AddsTo(n) = {}
    /\ n \in doubted' <=> n \in doubted
    /\ n \in refused' <=> n \in refused
    /\ early \subseteq early'
    /\ \A t \in Threads : Goes(n, t)' => Goes(n, t)
    /\ dispatch[n] # Idle => dispatch'[n] = dispatch[n]
    /\ dispatch'[n] # Idle => GoesOn(n)

(* Such a message is carried on. *)
LEMMA UntouchedCarries ==
    ASSUME Inv, Inv', Once, Behind, NEW n \in Messages, Untouched(n)
    PROVE  Carries(n)
<1>0. Typed /\ Typed' /\ Staged /\ Staged'
  BY DEF Inv
<1>1. TipAt(n) /\ SteadyAt(n) /\ TellingAt(n) /\ RestingAt(n) /\ EarlyAt(n)
  BY DEF Once, Singly
<1>2. writes \in Writes /\ writes' \in Writes /\ Extends(writes, writes') /\ disk' = disk
      /\ Len(writes) \in Nat /\ Len(writes') \in Nat /\ Len(writes) <= Len(writes') /\ restoring' = restoring
  BY <1>0, WritesLen DEF Behind, Typed, Extends
<1>3. TipAt(n)'
  <2>1. SUFFICES ASSUME restoring => disk[n] = None
                 PROVE  Settled(writes', disk, n, Len(writes'), Alike(entries[n]))
    BY <1>2 DEF TipAt, Untouched
  <2>2. Settled(writes, disk, n, Len(writes), Alike(entries[n]))
    BY <1>1, <2>1 DEF TipAt
  <2>3. Later(writes', Len(writes), n) = {} /\ Len(writes) \in 0..Len(writes)
    BY <1>2 DEF Untouched, AddsTo
  <2>4. Settled(writes', disk, n, Len(writes), Alike(entries[n]))
    BY <1>2, <2>2, <2>3, SettledStays
  <2> QED BY <1>2, <2>4, SettledWidens
<1>4. Launched(n)' => Launched(n)
  <2>1. \A t \in Threads : Goes(n, t)' => Goes(n, t)
    BY DEF Untouched
  <2>2. Launched(n)' => \E t \in Threads : Goes(n, t)'
    <3>1. \A w \in wire' : Addressed(w) \in Threads
      BY <1>0 DEF Typed, Requests, Addressed, Threads
    <3> QED BY <3>1 DEF Launched, OnWire, Admitted, Goes
  <2> QED BY <1>0, <2>1, <2>2, GoesIs
<1>5. Copies(n)' = Copies(n)
  <2>1. Values(n)' = {entries'[n], disk[n]} \cup Later(writes, 0, n) \cup AddsTo(n)
    BY <1>0, <1>2, ValuesAre
  <2> QED BY <2>1 DEF Copies, Values, Untouched
<1>6. Touched(n)' => Touched(n)
  BY <1>4, <1>5 DEF Touched, Untouched
<1>7. \A v \in Copies(n) : Tells(n, v) => Tells(n, v)'
  BY <1>4 DEF Tells, Untouched
<1>8. New(n) \subseteq Copies(n)
  BY DEF New, Copies, Values, Untouched
<1>9. \A v \in New(n) :
        /\ Tells(n, v)'
        /\ \E u \in Copies(n) : u.thread = v.thread
  BY <1>1, <1>7, <1>8 DEF TellingAt
<1>10. RestingAt(n)'
  BY <1>1, <1>6 DEF RestingAt, Untouched
<1>11. dispatch'[n] # Idle => (StartedNow(n) /\ Free(n)) \/ Continues(n)
  <2> SUFFICES ASSUME dispatch'[n] # Idle, dispatch'[n] = dispatch[n] PROVE Continues(n)
    BY DEF Untouched, GoesOn
  <2>1. entries[n] # None
    BY <1>0 DEF Staged, StagedAt
  <2> QED BY <1>1, <2>1, SameContinues DEF Untouched
<1>12. restoring' /\ entries'[n] # None => n \in early'
  BY <1>1, <1>2 DEF EarlyAt, Untouched
<1> QED BY <1>3, <1>6, <1>7, <1>9, <1>10, <1>11, <1>12 DEF Carries, Proceeds, Untouched

(* One entry is put that differs in its delivery. *)
LEMMA PutCarries ==
    ASSUME Inv, Inv', Once, NEW m \in Messages, NEW e \in Entry, NEW hand \in SUBSET handoffs, PutWith(hand, m, e),
           entries[m] # None,
           e.place = entries[m].place, e.thread = entries[m].thread, e.preparing = entries[m].preparing,
           disk' = disk, restoring' = restoring, early' = early,
           \A n \in Messages : n # m => (n \in doubted' <=> n \in doubted) /\ (n \in refused' <=> n \in refused),
           \A n \in Messages : \A t \in Threads : Goes(n, t)' => Goes(n, t),
           Touched(m)' => Touched(m),
           Touched(m)' /\ dispatch'[m] = Idle /\ e.thread = None => m \in doubted',
           Tells(m, e)', \A v \in Copies(m) : Tells(m, v) => Tells(m, v)',
           m \in doubted' => m \in refused' \/ dispatch[m] # Idle \/ (m \in doubted /\ entries[m].delivery # "accepted")
    PROVE  Onward
<1>0. Typed /\ Typed' /\ Staged /\ Staged'
  BY DEF Inv
<1> DEFINE box == [entries EXCEPT ![m] = e]
           calls == [dispatch EXCEPT ![m] = Idle]
<1>1. /\ entries' = box /\ entries' \in Boxes
      /\ \A n \in Messages : n # m => Called(n, dispatch[n]) /\ AddsTo(n) = {} /\ entries'[n] = entries[n]
      /\ AddsTo(m) \subseteq {e} /\ entries'[m] = e /\ Extends(writes, writes')
  BY <1>0, PutEffect
<1>2. Dispatcher(box, order, hand, calls, Persist(writes, entries, box))
  BY DEF PutWith
<1>3. calls \in [Messages -> Calls] /\ \A n \in Messages : calls[n] = IF n = m THEN Idle ELSE dispatch[n]
  BY <1>0 DEF Typed, Calls, Idle
<1>4. writes' = Persist(writes, entries, entries')
  BY <1>1, <1>2 DEF Dispatcher, Dispatched
<1>5. order \in SUBSET (Messages \X Messages) /\ latest \in BOOLEAN /\ writes' \in Writes
  BY <1>0 DEF Typed
<1> HIDE DEF box, calls
<1>6. \A n \in Messages : dispatch'[n] # Idle => dispatch'[n] = calls[n] \/ (StartedNow(n) /\ Free(n))
  BY <1>1, <1>2, <1>3, <1>4, <1>5, DispatcherFree
<1>7. Behind
  BY <1>1 DEF Behind
<1>8. ASSUME NEW n \in Messages, n # m PROVE Carries(n)
  <2>1. dispatch[n] # Idle => dispatch'[n] = dispatch[n]
    <3>1. entries[n] # None \/ dispatch[n] = Idle
      BY <1>0 DEF Staged, StagedAt
    <3> QED BY <1>1, <1>8, <3>1 DEF Called
  <2>2. dispatch'[n] # Idle => GoesOn(n)
    BY <1>3, <1>6, <1>8 DEF GoesOn
  <2>3. Untouched(n)
    BY <1>1, <1>8, <2>1, <2>2 DEF Untouched
  <2> QED BY <1>7, <2>3, UntouchedCarries
<1>9. Carries(m)
  <2>1. TipAt(m) /\ EarlyAt(m)
    BY DEF Once, Singly
  <2>2. TipAt(m)'
    BY <1>0, <1>1, <1>4, <2>1, PersistTip
  <2>3. RestingAt(m)'
    BY <1>1 DEF RestingAt
  <2>4. New(m) \subseteq {e} /\ entries[m] \in Copies(m)
    BY <1>0, <1>1, CopiesAre DEF New
  <2>5. \A v \in New(m) : Tells(m, v)' /\ \E u \in Copies(m) : u.thread = v.thread
    BY <2>4
  <2>6. dispatch'[m] # Idle => (StartedNow(m) /\ Free(m))
    BY <1>3, <1>6
  <2>7. restoring' /\ entries'[m] # None => m \in early'
    BY <2>1 DEF EarlyAt
  <2>8. entries'[m] = None \/ entries'[m].thread # None => AddsTo(m) \subseteq Elsewhere
    <3>1. entries'[m] = e /\ e # None /\ AddsTo(m) \subseteq {e}
      BY <1>1, OutboxConstants
    <3> QED BY <3>1 DEF Elsewhere
  <2>9. m \in doubted' =>
            \/ m \in refused'
            \/ entries'[m].place = entries[m].place
               /\ (dispatch[m] # Idle \/ (m \in doubted /\ entries[m].delivery # "accepted"))
    BY <1>1
  <2> QED BY <2>2, <2>3, <2>5, <2>6, <2>7, <2>8, <2>9 DEF Carries, Proceeds
<1> QED BY <1>7, <1>8, <1>9, CarriedOn

(* Nothing goes where it did not go before. *)
LEMMA GoesBefore ==
    ASSUME threads' = threads, \A w \in wire' : \E x \in wire : x.m = w.m /\ x.thread = w.thread
    PROVE  /\ \A n, t : Goes(n, t)' => Goes(n, t)
           /\ \A n : Launched(n)' => Launched(n)
<1>1. \A w, x : x.m = w.m /\ x.thread = w.thread => Addressed(x) = Addressed(w)
  BY DEF Addressed
<1> QED BY <1>1 DEF Goes, AdmittedTo, Launched, OnWire, Admitted

(* A retry *)
LEMMA RetryOnce ==
    ASSUME Inv, Inv', Once, NEW m \in Messages, Retry(m)
    PROVE  Onward
<1>0. Typed /\ Typed'
  BY DEF Inv
<1>1. /\ entries[m] # None /\ entries[m].delivery \in {"failed", "unknown"} /\ dispatch[m] = Idle
      /\ Put(m, [entries[m] EXCEPT !.delivery = "pending"])
      /\ disk' = disk /\ restoring' = restoring /\ early' = early /\ threads' = threads
      /\ doubted' = doubted /\ refused' = refused /\ wire' = wire
  BY DEF Retry, InFlight
<1>2. entries[m] \in Entry
  BY <1>1, EntryValid
<1>3. PICK e \in Entry :
        /\ e = [entries[m] EXCEPT !.delivery = "pending"]
        /\ e.place = entries[m].place /\ e.thread = entries[m].thread
        /\ e.preparing = entries[m].preparing /\ e.stranded = entries[m].stranded /\ e.delivery = "pending"
  BY <1>2, SetDelivery
<1>4. \A n, t : (Goes(n, t)' => Goes(n, t)) /\ (Launched(n)' => Launched(n))
  BY <1>1, GoesBefore
<1>5. TellingAt(m) /\ RestingAt(m) /\ entries[m] \in Copies(m)
  BY <1>0, <1>1, CopiesAre DEF Once, Singly
<1>6. Tells(m, e)' /\ \A v \in Copies(m) : Tells(m, v) => Tells(m, v)'
  BY <1>1, <1>3, <1>4, <1>5 DEF TellingAt, Tells
<1>7. /\ entries'[m] = e /\ AddsTo(m) \subseteq {e} /\ Extends(writes, writes')
  BY <1>0, <1>1, <1>3, PutEffect DEF Put
<1>8. Touched(m)' => Touched(m)
  <2>1. Copies(m)' \subseteq Copies(m) \cup {e}
    BY <1>0, <1>1, <1>7, CopiesNew DEF Behind, New
  <2>2. \A v \in Copies(m)' : ~ v.preparing => \E u \in Copies(m) : ~ u.preparing
    BY <1>3, <1>5, <2>1
  <2> QED BY <1>1, <1>4, <2>2 DEF Touched
<1>9. Touched(m)' /\ dispatch'[m] = Idle /\ e.thread = None => m \in doubted'
  BY <1>1, <1>3, <1>5, <1>8 DEF RestingAt
<1> QED BY <1>1, <1>3, <1>4, <1>6, <1>8, <1>9, PutCarries DEF Put

(* A failure that is recorded: the message is not launched, unless it was in doubt. *)
LEMMA FailedOnce ==
    ASSUME Inv, Inv', Once, unsaved = {}, NEW m \in Messages, Failed(m) \/ FailedForGood(m), dispatch[m] # Idle,
           disk' = disk, restoring' = restoring, early' = early, threads' = threads, wire' \subseteq wire,
           Clean(m) => ~ Launched(m)'
    PROVE  Onward
<1>0. Typed /\ Typed' /\ Staged
  BY DEF Inv
<1>1. refused' = refused \cup {m} /\ doubted' = doubted
  BY DEF Failed, FailedForGood
<1>2. entries[m] # None /\ entries[m].delivery = "pending" /\ entries[m] \in Entry
  BY <1>0, EntryValid DEF Staged, StagedAt
<1>3. PICK e \in Entry, hand \in SUBSET handoffs :
        /\ PutWith(hand, m, e)
        /\ e.place = entries[m].place /\ e.thread = entries[m].thread
        /\ e.preparing = entries[m].preparing /\ e.delivery = "failed"
  BY <1>2, FailedPut
<1>4. \A n, t : (Goes(n, t)' => Goes(n, t)) /\ (Launched(n)' => Launched(n))
  BY GoesBefore
<1>5. TellingAt(m) /\ entries[m] \in Copies(m)
  BY <1>0, <1>2, CopiesAre DEF Once, Singly
<1>6. Launched(m)' => m \in doubted
  BY DEF Clean
<1>7. Tells(m, e)' /\ \A v \in Copies(m) : Tells(m, v) => Tells(m, v)'
  BY <1>1, <1>3, <1>5, <1>6 DEF TellingAt, Tells
<1>8. Touched(m)' => Launched(m)'
  BY <1>1 DEF Touched
<1>9. Touched(m)' => Touched(m) /\ m \in doubted'
  BY <1>1, <1>4, <1>6, <1>8 DEF Touched
<1> QED BY <1>1, <1>2, <1>3, <1>4, <1>7, <1>9, PutCarries

(* A flush or the preparation fails. *)
LEMMA NotSentOnce ==
    ASSUME Inv, Inv', Once, unsaved = {}, NEW m \in Messages, NotSent(m)
    PROVE  Onward
<1>0. Typed /\ Single /\ Staged
  BY DEF Inv
<1>1. Failed(m) /\ restoring' = restoring /\ disk' = disk /\ threads' = threads /\ early' = early /\ wire' = wire
  BY DEF NotSent
<1>2. dispatch[m].step \in {"capture", "store", "prepare"}
  BY DEF NotSent, Flushed
<1>3. dispatch[m] # Idle
  BY <1>2 DEF Idle
<1>4. Clean(m) => ~ Launched(m)'
  <2>1. Launched(m)' => Launched(m)
    BY <1>1, GoesBefore
  <2>2. entries[m] # None /\ entries[m].delivery = "pending"
    BY <1>0, <1>3 DEF Staged, StagedAt
  <2> QED BY <1>0, <1>2, <2>1, <2>2 DEF Single, SingleAt
<1> QED BY <1>1, <1>3, <1>4, FailedOnce

(* The server refuses. *)
LEMMA RefusedOnce ==
    ASSUME Inv, Inv', Once, unsaved = {}, NEW w \in wire, Refused(w)
    PROVE  Onward
<1>0. Typed /\ Answered /\ Single
  BY DEF Inv
<1>1. /\ w.awaited /\ ~ w.taken /\ wire' = wire \ {w} /\ (Failed(w.m) \/ FailedForGood(w.m))
      /\ restoring' = restoring /\ disk' = disk /\ threads' = threads /\ early' = early
  BY DEF Refused
<1>2. w.m \in Messages
  BY <1>0 DEF Typed, Requests
<1>3. dispatch[w.m] # Idle
  BY <1>0, <1>1 DEF Answered, Idle
<1>4. Clean(w.m) => ~ Launched(w.m)'
  <2> SUFFICES ASSUME Clean(w.m) PROVE ~ Launched(w.m)'
    OBVIOUS
  <2>1. Launched(w.m)
    BY DEF Launched, OnWire
  <2>2. ~ Admitted(w.m) /\ \A x \in wire : x.m = w.m => x = w
    BY <1>0, <1>1, <1>2, <2>1 DEF Single, SingleAt
  <2> QED BY <1>1, <2>2 DEF Launched, OnWire, Admitted, AdmittedTo
<1> QED BY <1>1, <1>2, <1>3, <1>4, FailedOnce

(* The outcome is lost: all copies are of a message that was ready to be launched. *)
LEMMA OutcomeLostOnce ==
    ASSUME Inv, Inv', Once, unsaved = {}, NEW w \in wire, OutcomeLost(w)
    PROVE  Onward
<1>0. Typed /\ Typed' /\ Answered /\ Staged /\ Secured
  BY DEF Inv
<1> DEFINE m == w.m
<1>1. /\ w.awaited /\ wire' = Abandoned({m}) /\ Put(m, [entries[m] EXCEPT !.delivery = "unknown"])
      /\ doubted' = doubted \cup {m} /\ refused' = refused \ {m}
      /\ restoring' = restoring /\ disk' = disk /\ threads' = threads /\ early' = early
  BY DEF OutcomeLost, Unknown
<1>2. m \in Messages
  BY <1>0 DEF Typed, Requests
<1>3. dispatch[m].step = "request" /\ dispatch[m] # Idle
  BY <1>0, <1>1 DEF Answered, Idle
<1>4. entries[m] # None /\ entries[m].delivery = "pending" /\ entries[m] \in Entry /\ ~ entries[m].preparing
  BY <1>0, <1>2, <1>3, EntryValid DEF Staged, StagedAt
<1>5. PICK e \in Entry :
        /\ e = [entries[m] EXCEPT !.delivery = "unknown"]
        /\ e.place = entries[m].place /\ e.thread = entries[m].thread
        /\ e.preparing = entries[m].preparing /\ e.stranded = entries[m].stranded /\ e.delivery = "unknown"
  BY <1>4, SetDelivery
<1>6. \A x \in wire' : \E y \in wire : y.m = x.m /\ y.thread = x.thread
  BY <1>0, <1>1, AbandonedIs
<1>7. \A n, t : (Goes(n, t)' => Goes(n, t)) /\ (Launched(n)' => Launched(n))
  BY <1>1, <1>6, GoesBefore
<1>8. GoodFrom(0, m)
  <2>1. Due(m) = 0
    BY <1>3 DEF Due
  <2>2. \E i \in 0..0 : GoodFrom(i, m)
    BY <1>0, <1>2, <1>4, <2>1 DEF Secured, SecuredAt
  <2> QED BY <2>2
<1>9. \A v \in Copies(m) : ~ v.preparing /\ v.delivery = "pending"
  BY <1>4, <1>8 DEF GoodFrom, Good, Val, Copies, Values
<1>10. Tells(m, e)' /\ \A v \in Copies(m) : Tells(m, v) => Tells(m, v)'
  BY <1>4, <1>5, <1>9 DEF Tells
<1>11. Touched(m) /\ m \in doubted'
  BY <1>1 DEF Touched, Launched, OnWire
<1>12. \A n \in Messages : n # m => (n \in doubted' <=> n \in doubted) /\ (n \in refused' <=> n \in refused)
  BY <1>1
<1> HIDE DEF m
<1> QED BY <1>1, <1>2, <1>3, <1>4, <1>5, <1>7, <1>10, <1>11, <1>12, PutCarries DEF Put

(* One change of the outbox: how the dispatches go on. *)
LEMMA OnePutFree ==
    ASSUME Typed, NEW box \in Boxes, NEW ord \in SUBSET (Messages \X Messages), NEW hand \in SUBSET Messages,
           NEW calls \in [Messages -> Calls],
           Dispatcher(box, ord, hand, calls, Persist(writes, entries, box))
    PROVE  /\ entries' = box /\ writes' = Persist(writes, entries, entries') /\ Extends(writes, writes')
           /\ \A n \in Messages :
                /\ Called(n, calls[n])
                /\ AddsTo(n) = IF entries[n] # box[n] THEN {box[n]} ELSE {}
                /\ dispatch'[n] # Idle => dispatch'[n] = calls[n] \/ (StartedNow(n) /\ Free(n))
<1>1. /\ entries' = box /\ Extends(writes, writes')
      /\ \A n \in Messages : Called(n, calls[n]) /\ AddsTo(n) = IF entries[n] # box[n] THEN {box[n]} ELSE {}
  BY OnePut
<1>2. writes' = Persist(writes, entries, entries') /\ writes' \in Writes /\ latest \in BOOLEAN
  BY <1>1 DEF Dispatcher, Dispatched, Typed, Extends
<1>3. \A n \in Messages : dispatch'[n] # Idle => dispatch'[n] = calls[n] \/ (StartedNow(n) /\ Free(n))
  BY <1>1, <1>2, DispatcherFree
<1> QED BY <1>1, <1>2, <1>3

\* what a step of the entry of m does to the others
Alone(m) ==
    /\ disk' = disk /\ restoring' = restoring /\ early \subseteq early' /\ wire' = wire /\ threads' = threads
    /\ doubted' = doubted /\ refused' = refused
    /\ \A n \in Messages : n # m =>
        /\ entries'[n] = entries[n] /\ AddsTo(n) = {} /\ Called(n, dispatch[n])
        /\ dispatch'[n] # Idle => GoesOn(n)

(* A step of one entry: the others are carried on. *)
LEMMA OthersCarry ==
    ASSUME Inv, Inv', Once, NEW m \in Messages, Alone(m), Extends(writes, writes')
    PROVE  /\ Behind
           /\ \A t \in Threads : Goes(m, t)' => Goes(m, t)
           /\ Launched(m)' => Launched(m)
           /\ writes' = Persist(writes, entries, entries') => TipAt(m)'
           /\ \A n \in Messages : n # m => Carries(n)
<1>0. Typed /\ Typed' /\ Staged
  BY DEF Inv
<1>1. Behind
  BY DEF Behind, Alone
<1>2. (\A n, t : Goes(n, t)' => Goes(n, t)) /\ (\A n : Launched(n)' => Launched(n))
  BY GoesBefore DEF Alone
<1>3. writes' = Persist(writes, entries, entries') => TipAt(m)'
  BY <1>0, PersistTip DEF Once, Singly, Alone, Typed, Boxes
<1>4. ASSUME NEW n \in Messages, n # m PROVE Carries(n)
  <2>1. dispatch[n] # Idle => dispatch'[n] = dispatch[n]
    BY <1>0, <1>4 DEF Called, Staged, StagedAt, Alone
  <2>2. Untouched(n)
    BY <1>2, <1>4, <2>1 DEF Untouched, Alone
  <2> QED BY <1>1, <2>2, UntouchedCarries
<1> QED BY <1>1, <1>2, <1>3, <1>4

(* The message is taken back. *)
LEMMA DiscardOnce ==
    ASSUME Inv, Inv', Once, NEW m \in Messages, Discard(m)
    PROVE  Onward
<1> DEFINE box == [entries EXCEPT ![m] = None]
<1>0. Typed /\ Typed'
  BY DEF Inv
<1>1. /\ entries[m] # None /\ dispatch[m] = Idle
      /\ Dispatcher(box, order, handoffs \ {m}, dispatch, Persist(writes, entries, box))
      /\ restoring' = restoring /\ disk' = disk /\ threads' = threads /\ early' = early
      /\ doubted' = doubted /\ refused' = refused /\ wire' = wire
  BY DEF Discard, InFlight
<1>2. box \in Boxes /\ \A n \in Messages : box[n] = IF n = m THEN None ELSE entries[n]
  BY <1>0 DEF Typed, Boxes
<1>3. order \in SUBSET (Messages \X Messages) /\ handoffs \ {m} \in SUBSET Messages /\ dispatch \in [Messages -> Calls]
  BY <1>0 DEF Typed, Retained
<1> HIDE DEF box
<1>4. /\ entries' = box /\ writes' = Persist(writes, entries, entries') /\ Extends(writes, writes')
      /\ \A n \in Messages :
            /\ Called(n, dispatch[n])
            /\ AddsTo(n) = IF entries[n] # box[n] THEN {box[n]} ELSE {}
            /\ dispatch'[n] # Idle => dispatch'[n] = dispatch[n] \/ (StartedNow(n) /\ Free(n))
  BY <1>0, <1>1, <1>2, <1>3, OnePutFree
<1>5. Alone(m)
  BY <1>1, <1>2, <1>4 DEF Alone, GoesOn
<1>6. /\ Behind /\ entries' = box /\ AddsTo(m) \subseteq {None} /\ dispatch'[m] = Idle
      /\ \A t \in Threads : Goes(m, t)' => Goes(m, t)
      /\ Launched(m)' => Launched(m)
      /\ TipAt(m)'
      /\ \A n \in Messages : n # m => Carries(n)
  BY <1>2, <1>4, <1>5, OthersCarry DEF Called
<1>7. Carries(m)
  <2>1. entries'[m] = None /\ New(m) = {}
    BY <1>2, <1>6 DEF New
  <2>2. Copies(m)' \subseteq Copies(m)
    BY <1>0, <1>6, <2>1, CopiesNew
  <2>3. Touched(m)' => Touched(m)
    BY <1>1, <1>6, <2>2 DEF Touched
  <2>4. \A v \in Copies(m) : Tells(m, v) => Tells(m, v)'
    BY <1>1, <1>6 DEF Tells
  <2>5. AddsTo(m) \subseteq Elsewhere
    BY <1>6 DEF Elsewhere
  <2> QED BY <1>1, <1>6, <2>1, <2>3, <2>4, <2>5 DEF Carries, Proceeds, RestingAt
<1> QED BY <1>6, <1>7, CarriedOn

(* A message is sent. *)
LEMMA SendOnce ==
    ASSUME Inv, Inv', Once, NEW m \in Messages, NEW p \in Threads \cup {Draft}, Send(m, p)
    PROVE  Onward
<1> DEFINE e == NewEntry(p)
           box == [entries EXCEPT ![m] = e]
           ord == order \cup (Retained \X {m})
<1>0. Typed /\ Typed' /\ SentOnce /\ Staged
  BY DEF Inv
<1>1. /\ m \in Unsent
      /\ Dispatcher(box, ord, handoffs \cup {m}, dispatch, Persist(writes, entries, box))
      /\ early' = IF restoring THEN early \cup {m} ELSE early
      /\ restoring' = restoring /\ disk' = disk /\ wire' = wire /\ threads' = threads
      /\ doubted' = doubted /\ refused' = refused
  BY DEF Send
<1>2. ~ Sent(m)
  BY <1>1 DEF Unsent, Sent
<1>3. e \in Entry /\ e # None /\ e.preparing /\ e.delivery = "pending"
  BY NewEntryIs
<1>4. /\ \A v \in Values(m) : v = None
      /\ ~ Launched(m) /\ m \notin doubted /\ m \notin refused
  BY <1>0, <1>2 DEF SentOnce
<1>5. entries[m] = None /\ dispatch[m] = Idle
  BY <1>0, <1>4 DEF Values, Staged, StagedAt
<1> HIDE DEF e
<1>6. box \in Boxes /\ \A n \in Messages : box[n] = IF n = m THEN e ELSE entries[n]
  BY <1>0, <1>3 DEF Typed, Boxes
<1>7. ord \in SUBSET (Messages \X Messages) /\ handoffs \cup {m} \in SUBSET Messages /\ dispatch \in [Messages -> Calls]
  BY <1>0 DEF Typed, Retained
<1> HIDE DEF box, ord
<1>8. /\ entries' = box /\ writes' = Persist(writes, entries, entries') /\ Extends(writes, writes')
      /\ \A n \in Messages :
           /\ Called(n, dispatch[n])
           /\ AddsTo(n) = IF entries[n] # box[n] THEN {box[n]} ELSE {}
           /\ dispatch'[n] # Idle => dispatch'[n] = dispatch[n] \/ (StartedNow(n) /\ Free(n))
  BY <1>0, <1>1, <1>6, <1>7, OnePutFree
<1>9. Alone(m)
  BY <1>1, <1>6, <1>8 DEF Alone, GoesOn
<1>10. /\ Behind /\ entries' = box /\ AddsTo(m) \subseteq {e}
       /\ dispatch'[m] # Idle => StartedNow(m) /\ Free(m)
       /\ \A t \in Threads : Goes(m, t)' => Goes(m, t)
       /\ Launched(m)' => Launched(m)
       /\ TipAt(m)'
       /\ \A n \in Messages : n # m => Carries(n)
  BY <1>5, <1>6, <1>8, <1>9, OthersCarry
<1>11. Carries(m)
  <2>1. entries'[m] = e /\ New(m) \subseteq {e}
    BY <1>6, <1>10 DEF New
  <2>2. Copies(m) = {}
    BY <1>4 DEF Copies
  <2>3. Copies(m)' \subseteq {e}
    BY <1>0, <1>10, <2>1, <2>2, CopiesNew
  <2>4. ~ Touched(m)'
    BY <1>3, <1>4, <1>10, <2>3 DEF Touched
  <2>5. \A v \in New(m) : Tells(m, v)'
    BY <1>1, <1>3, <1>4, <2>1 DEF Tells
  <2>6. RestingAt(m)'
    BY <2>4 DEF RestingAt
  <2>7. e.thread # None => AddsTo(m) \subseteq Elsewhere
    BY <1>3, <1>10 DEF Elsewhere
  <2> QED BY <1>1, <1>3, <1>4, <1>10, <2>1, <2>2, <2>4, <2>5, <2>6, <2>7 DEF Carries, Proceeds
<1> QED BY <1>10, <1>11, CarriedOn

(* The preparation has succeeded. *)
LEMMA PreparedOnce ==
    ASSUME Inv, Inv', Once, NEW m \in Messages, Prepared(m)
    PROVE  Onward
<1> DEFINE box == [entries EXCEPT ![m].preparing = FALSE]
           queue == Persist(writes, entries, box)
           call == Flushing("store", entries[m].thread, queue, latest)
           calls == [dispatch EXCEPT ![m] = call]
<1>0. Typed /\ Typed' /\ Staged
  BY DEF Inv
<1>1. /\ dispatch[m].step = "prepare"
      /\ Dispatcher(box, order, handoffs, calls, queue)
      /\ wire' = wire /\ restoring' = restoring
      /\ disk' = disk /\ threads' = threads /\ doubted' = doubted /\ refused' = refused /\ early' = early
  BY DEF Prepared, history
<1>2. entries[m] # None /\ entries[m].delivery = "pending" /\ dispatch[m] # Idle /\ entries[m] \in Entry
  BY <1>0, <1>1, EntryValid DEF Staged, StagedAt, Idle
<1>3. PICK e \in Entry :
        /\ e = [entries[m] EXCEPT !.preparing = FALSE]
        /\ e.place = entries[m].place /\ e.thread = entries[m].thread /\ ~ e.preparing
        /\ e.stranded = entries[m].stranded /\ e.delivery = entries[m].delivery
  BY <1>2, SetPreparing
<1>4. box \in Boxes /\ \A n \in Messages : box[n] = IF n = m THEN e ELSE entries[n]
  BY <1>0, <1>3 DEF Typed, Boxes
<1>5. queue \in Writes
  BY <1>0, <1>4, PersistTyped DEF Typed, Boxes
<1>6. call \in Calls /\ call.step = "store" /\ call.wait = Len(queue) /\ call.thread = entries[m].thread /\ call # Idle
  <2>1. Len(queue) \in Nat /\ entries[m].thread \in Threads \cup {None} /\ latest \in BOOLEAN
    BY <1>0, <1>2, <1>5, WritesLen DEF Typed, Entry
  <2> HIDE DEF queue
  <2> QED BY <2>1 DEF Flushing, Calls, Idle
<1> HIDE DEF call
<1>7. calls \in [Messages -> Calls] /\ \A n \in Messages : calls[n] = IF n = m THEN call ELSE dispatch[n]
  BY <1>0, <1>6 DEF Typed
<1>8. order \in SUBSET (Messages \X Messages) /\ handoffs \in SUBSET Messages
  BY <1>0 DEF Typed, Retained
<1>9. writes' = queue
  BY <1>1 DEF Dispatcher, Dispatched
<1> HIDE DEF box, calls
<1>10. /\ entries' = box /\ writes' = Persist(writes, entries, entries') /\ Extends(writes, writes')
       /\ \A n \in Messages :
            /\ Called(n, calls[n])
            /\ AddsTo(n) = IF entries[n] # box[n] THEN {box[n]} ELSE {}
            /\ dispatch'[n] # Idle => dispatch'[n] = calls[n] \/ (StartedNow(n) /\ Free(n))
  BY <1>0, <1>1, <1>4, <1>7, <1>8, OnePutFree
<1>11. Alone(m)
  BY <1>1, <1>4, <1>7, <1>10 DEF Alone, GoesOn
<1>12. /\ Behind /\ entries' = box /\ AddsTo(m) \subseteq {box[m]}
       /\ Called(m, calls[m])
       /\ \A t \in Threads : Goes(m, t)' => Goes(m, t)
       /\ Launched(m)' => Launched(m)
       /\ TipAt(m)'
       /\ \A n \in Messages : n # m => Carries(n)
  BY <1>10, <1>11, OthersCarry
<1>13. Carries(m)
  <2>1. entries'[m] = e /\ AddsTo(m) \subseteq {e} /\ New(m) \subseteq {e} /\ e # None
    BY <1>4, <1>12, OutboxConstants DEF New
  <2>2. dispatch'[m] = call
    BY <1>6, <1>7, <1>12, <2>1 DEF Called
  <2>3. WaitOf(m) = 0 /\ Begins(m)
    BY <1>1, <1>2 DEF WaitOf, Waits, Begins
  <2>4. WaitOf(m)' = Len(writes') /\ Len(writes') \in Nat
    BY <1>0, <1>6, <1>9, <2>2, WritesLen DEF WaitOf, Waits, Typed
  <2>5. AddsTo(m) \subseteq Heading(entries[m].thread)
    BY <1>3, <2>1 DEF Heading
  <2>6. Continues(m)
    BY <1>2, <1>3, <1>6, <2>1, <2>2, <2>3, <2>4, <2>5 DEF Continues
  <2>7. TellingAt(m) /\ EarlyAt(m) /\ entries[m] \in Copies(m)
    BY <1>0, <1>2, CopiesAre DEF Once, Singly
  <2>8. \A v \in Copies(m) : Tells(m, v) => Tells(m, v)'
    BY <1>1, <1>12 DEF Tells
  <2>9. \A v \in New(m) : Tells(m, v)' /\ \E u \in Copies(m) : u.thread = v.thread
    BY <1>2, <1>3, <2>1, <2>7 DEF Tells
  <2>10. RestingAt(m)'
    BY <1>6, <2>2 DEF RestingAt
  <2>11. e.thread # None => AddsTo(m) \subseteq Elsewhere
    BY <2>1 DEF Elsewhere
  <2>12. restoring' /\ entries'[m] # None => m \in early'
    BY <1>1, <1>2, <2>7 DEF EarlyAt
  <2> QED BY <1>2, <1>3, <1>12, <2>1, <2>3, <2>6, <2>8, <2>9, <2>10, <2>11, <2>12 DEF Carries, Proceeds
<1> QED BY <1>12, <1>13, CarriedOn

\* the outbox and its writes are not changed
Still ==
    /\ entries' = entries /\ writes' = writes /\ disk' = disk /\ restoring' = restoring
    /\ doubted' = doubted /\ refused' = refused /\ early' = early

(* Such a step writes nothing. *)
LEMMA StillAdds ==
    ASSUME Typed, Still
    PROVE  Behind /\ \A n : AddsTo(n) = {} /\ Copies(n)' = Copies(n)
<1>1. writes \in Writes
  BY DEF Typed
<1>2. Behind
  BY <1>1, ExtendsSelf DEF Still, Behind
<1>3. \A n : AddsTo(n) = {}
  BY <1>1, LaterEnds DEF Still, AddsTo
<1>4. \A n : Copies(n)' = Copies(n)
  BY DEF Still, Copies, Values, Later
<1> QED BY <1>2, <1>3, <1>4

(* The dispatch of m goes on: to its preparation, or to its launch. *)
LEMMA DispatchMoves ==
    ASSUME Inv, Inv', Once, Still, NEW m \in Messages, NEW c, dispatch' = [dispatch EXCEPT ![m] = c],
           c # Idle, ~ Waits(c), c.step # "store", Begins(m),
           \A n \in Messages : \A t \in Threads : Goes(n, t)' => Goes(n, t) \/ (n = m /\ t = Target(m, entries[m])),
           \A v \in Copies(m) : Tells(m, v) => Tells(m, v)'
    PROVE  Onward
<1>0. Typed /\ Typed' /\ Staged
  BY DEF Inv
<1>1. Behind /\ \A n : AddsTo(n) = {}
  BY <1>0, StillAdds
<1>2. \A n \in Messages : dispatch'[n] = IF n = m THEN c ELSE dispatch[n]
  BY <1>0 DEF Typed
<1>3. ASSUME NEW n \in Messages, n # m PROVE Carries(n)
  <2>1. Untouched(n)
    BY <1>1, <1>2, <1>3 DEF Untouched, Still, GoesOn
  <2> QED BY <1>1, <2>1, UntouchedCarries
<1>4. Carries(m)
  <2>1. TipAt(m) /\ TellingAt(m) /\ EarlyAt(m)
    BY DEF Once, Singly
  <2>2. entries[m] # None /\ dispatch[m] # Idle /\ WaitOf(m) = 0
    BY DEF Begins
  <2>3. New(m) \subseteq Copies(m) /\ entries[m] \in Copies(m)
    BY <1>0, <1>1, <2>2, CopiesAre DEF New, Still
  <2>4. TipAt(m)'
    BY <2>1 DEF TipAt, Still
  <2>5. WaitOf(m)' = 0 /\ Len(writes') \in Nat
    BY <1>0, <1>2, WritesLen DEF WaitOf, Typed
  <2>6. Continues(m)
    BY <1>1, <1>2, <2>2, <2>5 DEF Continues, Still
  <2>7. \A v \in New(m) : Tells(m, v)' /\ \E u \in Copies(m) : u.thread = v.thread
    BY <2>1, <2>3 DEF TellingAt
  <2>8. RestingAt(m)'
    BY <1>2 DEF RestingAt
  <2>9. restoring' /\ entries'[m] # None => m \in early'
    BY <2>1, <2>2 DEF EarlyAt, Still
  <2>10. \A t \in Threads : Goes(m, t)' => Goes(m, t) \/ (Begins(m) /\ t = Target(m, entries[m]))
    OBVIOUS
  <2> QED BY <1>1, <2>2, <2>4, <2>6, <2>7, <2>8, <2>9, <2>10 DEF Carries, Proceeds, Still
<1> QED BY <1>1, <1>3, <1>4, CarriedOn

(* A launch to the thread of the entry: all copies are of a message that was ready. *)
LEMMA LaunchOnce ==
    ASSUME Inv, Inv', Once, unsaved = {}, Still, threads' = threads, NEW m \in Messages, ~ entries[m].preparing,
           dispatch[m].step \in {"capture", "store"}, dispatch[m].wait = 0, Launch(m, entries[m].thread)
    PROVE  Onward
<1> DEFINE w == [m |-> m, thread |-> entries[m].thread, awaited |-> TRUE, taken |-> FALSE]
<1>0. Typed /\ Staged /\ Secured
  BY DEF Inv
<1>1. entries[m] # None /\ entries[m].delivery = "pending" /\ Begins(m)
  BY <1>0 DEF Staged, StagedAt, Idle, Begins, WaitOf
<1>2. dispatch' = [dispatch EXCEPT ![m] = [step |-> "request"]] /\ wire' = wire \cup {w}
  BY DEF Launch
<1>3. w.m = m /\ Addressed(w) = Target(m, entries[m])
  BY DEF Addressed, Target
<1> HIDE DEF w
<1>4. \A n \in Messages : \A t \in Threads : Goes(n, t)' => Goes(n, t) \/ (n = m /\ t = Target(m, entries[m]))
  BY <1>2, <1>3 DEF Goes, AdmittedTo
<1>5. GoodFrom(0, m)
  <2>1. Due(m) = 0
    BY DEF Due, Idle
  <2>2. \E i \in 0..0 : GoodFrom(i, m)
    BY <1>0, <1>1, <2>1 DEF Secured, SecuredAt
  <2> QED BY <2>2
<1>6. \A v \in Copies(m) : v.delivery = "pending"
  BY <1>1, <1>5 DEF GoodFrom, Good, Val, Copies, Values
<1>7. \A v \in Copies(m) : Tells(m, v) => Tells(m, v)'
  BY <1>6 DEF Tells, Still
<1>8. \A c : c = [step |-> "request"] => c # Idle /\ ~ Waits(c) /\ c.step # "store"
  BY DEF Idle, Waits
<1> QED BY <1>1, <1>2, <1>4, <1>7, <1>8, DispatchMoves

(* The first flush has succeeded ... *)
LEMMA CapturedOnce ==
    ASSUME Inv, Inv', Once, unsaved = {}, NEW m \in Messages, Captured(m)
    PROVE  Onward
<1>0. Typed /\ Staged
  BY DEF Inv
<1>1. /\ dispatch[m].step = "capture" /\ dispatch[m].wait = 0 /\ dispatch[m] # Idle /\ Still /\ threads' = threads
      /\ IF entries[m].preparing THEN dispatch' = [dispatch EXCEPT ![m] = [step |-> "prepare"]] /\ wire' = wire
         ELSE Launch(m, entries[m].thread)
  BY DEF Captured, Flushed, Still, storage
<1>2. CASE entries[m].preparing
  <2>1. Begins(m)
    BY <1>0, <1>1 DEF Staged, StagedAt, Begins, WaitOf
  <2>2. (\A n, t : Goes(n, t)' => Goes(n, t)) /\ (\A n : Launched(n)' => Launched(n))
    BY <1>1, <1>2, GoesBefore
  <2>3. \A v \in Copies(m) : Tells(m, v) => Tells(m, v)'
    BY <1>1, <2>2 DEF Tells, Still
  <2>4. \A c : c = [step |-> "prepare"] => c # Idle /\ ~ Waits(c) /\ c.step # "store"
    BY DEF Idle, Waits
  <2> QED BY <1>1, <1>2, <2>1, <2>2, <2>3, <2>4, DispatchMoves
<1>3. CASE ~ entries[m].preparing
  BY <1>1, <1>3, LaunchOnce
<1> QED BY <1>2, <1>3

(* ... and the second. *)
LEMMA StoredOnce ==
    ASSUME Inv, Inv', Once, unsaved = {}, NEW m \in Messages, Stored(m)
    PROVE  Onward
<1>1. /\ dispatch[m].step = "store" /\ dispatch[m].wait = 0 /\ dispatch[m] # Idle /\ Still /\ threads' = threads
      /\ Launch(m, dispatch[m].thread)
  BY DEF Stored, Flushed, Still, storage
<1>2. ~ entries[m].preparing /\ dispatch[m].thread = entries[m].thread
  BY <1>1 DEF Inv, Staged, StagedAt, Once, Singly, SteadyAt
<1> QED BY <1>1, <1>2, LaunchOnce

(* The network and the server: nothing goes where it did not go. *)
LEMMA NetOnce ==
    ASSUME Inv, Inv', Once, Still, dispatch' = dispatch,
           \A n \in Messages : \A t \in Threads : Goes(n, t)' => Goes(n, t)
    PROVE  Onward
<1>1. Behind /\ \A n : AddsTo(n) = {}
  BY StillAdds DEF Inv
<1>2. ASSUME NEW n \in Messages PROVE Carries(n)
  <2>1. Untouched(n)
    BY <1>1 DEF Untouched, Still, GoesOn
  <2> QED BY <1>1, <2>1, UntouchedCarries
<1> QED BY <1>1, <1>2, CarriedOn

(* A request is lost ... *)
LEMMA VanishOnce ==
    ASSUME Inv, Inv', Once, NEW w \in wire, Vanish(w)
    PROVE  Onward
<1>1. Still /\ dispatch' = dispatch /\ threads' = threads /\ wire' \subseteq wire
  BY DEF Vanish, Still, surface, storage, history
<1>2. \A n, t : Goes(n, t)' => Goes(n, t)
  BY <1>1, GoesBefore
<1> QED BY <1>1, <1>2, NetOnce

(* ... or admitted. *)
LEMMA AdmitOnce ==
    ASSUME Inv, Inv', Once, NEW w \in wire, Admit(w)
    PROVE  Onward
<1> DEFINE T == Addressed(w)
           s == threads[T]
           answer == [w EXCEPT !.taken = TRUE]
<1>0. Typed
  BY DEF Inv
<1>1. /\ Still /\ dispatch' = dispatch
      /\ wire' = (wire \ {w}) \cup (IF w.awaited THEN {answer} ELSE {})
      /\ threads' = [threads EXCEPT ![T] = IF w.m \in Range(s) THEN s ELSE Append(s, w.m)]
  BY DEF Admit, Still, surface, storage, history
<1>2. w \in Requests /\ w.m \in Messages /\ T \in Threads /\ s \in Seq(Messages)
  BY <1>0 DEF Typed, Requests, Addressed, Threads
<1>3. answer.m = w.m /\ Addressed(answer) = T
  BY <1>2 DEF Requests, Addressed
<1>4. \A t \in Threads : threads'[t] = IF t # T THEN threads[t] ELSE IF w.m \in Range(s) THEN s ELSE Append(s, w.m)
  BY <1>0, <1>1, <1>2 DEF Typed
<1>5. Range(Append(s, w.m)) \subseteq Range(s) \cup {w.m}
  <2>1. DOMAIN Append(s, w.m) = 1..(Len(s) + 1) /\ DOMAIN s = 1..Len(s) /\ Len(s) \in Nat
        /\ Append(s, w.m)[Len(s) + 1] = w.m /\ \A i \in 1..Len(s) : Append(s, w.m)[i] = s[i]
    BY <1>2
  <2> HIDE DEF s
  <2> QED BY <2>1 DEF Range
<1> HIDE DEF answer, T, s
<1>6. ASSUME NEW n \in Messages, NEW t \in Threads, Goes(n, t)'
      PROVE  Goes(n, t)
  <2>1. n = w.m /\ t = T => Goes(n, t)
    BY DEF Goes, T
  <2>2. CASE n \in AdmittedTo(t)'
    <3>1. n \in Range(threads'[t])
      BY <2>2 DEF AdmittedTo
    <3>2. CASE t # T
      BY <1>4, <3>1, <3>2 DEF Goes, AdmittedTo
    <3>3. CASE t = T
      <4>1. n \in Range(s) \/ n = w.m
        BY <1>4, <1>5, <3>1, <3>3
      <4> QED BY <2>1, <3>3, <4>1 DEF Goes, AdmittedTo, s
    <3> QED BY <3>2, <3>3
  <2>3. CASE \E x \in wire' : x.m = n /\ Addressed(x) = t
    BY <1>1, <1>3, <2>1, <2>3 DEF Goes
  <2> QED BY <1>6, <2>2, <2>3 DEF Goes
<1> QED BY <1>1, <1>6, NetOnce

(* Four writes of persist, each of what the one before it has left *)
LEMMA FourWrites ==
    ASSUME Typed, entries' \in Boxes, NEW b \in Boxes, NEW c \in Boxes, NEW d \in Boxes,
           writes' = Persist(Persist(Persist(Persist(writes, entries, b), b, c), c, d), d, entries'),
           disk' = disk, restoring' = restoring, NEW n \in Messages, TipAt(n)
    PROVE  TipAt(n)'
<1> SUFFICES ASSUME restoring => disk[n] = None
             PROVE  Settled(writes', disk, n, Len(writes'), Alike(entries'[n]))
  BY DEF TipAt
<1>0. writes \in Writes /\ entries \in Boxes
  BY DEF Typed, Boxes
<1>1. PICK q \in Writes : q = Persist(writes, entries, b)
  BY <1>0, PersistTyped DEF Boxes
<1>2. PICK r \in Writes : r = Persist(q, b, c)
  BY PersistTyped DEF Boxes
<1>3. PICK s \in Writes : s = Persist(r, c, d)
  BY PersistTyped DEF Boxes
<1>4. Settled(q, disk, n, Len(q), Alike(b[n]))
  BY <1>0, <1>1, PersistSettles DEF TipAt
<1>5. Settled(r, disk, n, Len(r), Alike(c[n]))
  BY <1>2, <1>4, PersistSettles
<1>6. Settled(s, disk, n, Len(s), Alike(d[n]))
  BY <1>3, <1>5, PersistSettles
<1>7. writes' = Persist(s, d, entries')
  BY <1>1, <1>2, <1>3
<1> QED BY <1>6, <1>7, PersistSettles

\* what every message is told by a step that hears of messages of t
Hearing(t, gone, moves, own) ==
    /\ ~ restoring /\ Behind
    /\ doubted' = doubted /\ refused' = refused /\ gone \subseteq AdmittedTo(t)
    /\ own \in Messages \ gone => entries'[own].delivery = "accepted" /\ entries'[own].thread = t
    /\ Draft \in moves => \E z \in Messages : /\ z \in gone \cup {own} /\ z \in AdmittedTo(t)
                                              /\ entries[z] # None /\ entries[z].thread = None
    /\ \A n \in Messages :
        /\ TipAt(n)'
        /\ \A u \in Threads : Goes(n, u)' => Goes(n, u)
        /\ Launched(n)' => Launched(n)
        /\ AddsTo(n) \subseteq {entries'[n], Result(n, t, moves)}
        /\ Called(n, IF n = own THEN Idle ELSE dispatch[n])
        /\ n \in gone => entries'[n] = None /\ entries[n] # None
        /\ n \notin gone /\ n # own => entries'[n] = Result(n, t, moves)
        /\ entries'[n] # None => HeardAt(n, t, gone, moves, own)
        /\ n = own /\ n \notin gone => entries'[n] # None /\ Result(n, t, moves).thread = t
        /\ dispatch'[n] # Idle => (n # own /\ dispatch'[n] = dispatch[n]) \/ (StartedNow(n) /\ Free(n))

(* A step that hears of messages of t tells every message that. *)
LEMMA HearingIs ==
    ASSUME Inv, Inv', Once, NEW t \in Threads, NEW gone, NEW moves \in SUBSET {Draft}, NEW own,
           Heard(t, gone, moves, own), Told(t, gone, moves, own)
    PROVE  Hearing(t, gone, moves, own)
<1>0. Typed /\ Typed' /\ Staged /\ Resuming
  BY DEF Inv
<1>1. AdmittedTo(t) \subseteq Messages
  BY <1>0, AdmittedAreMessages
<1>2. ASSUME NEW z \in AdmittedTo(t), entries[z] # None
      PROVE  entries[z].thread \in {None, t} /\ Launched(z)
  <2>1. AimedAt(z) /\ Goes(z, t) /\ entries[z] \in Copies(z)
    BY <1>0, <1>1, <1>2, CopiesAre DEF Once, Singly, Goes
  <2> QED BY <1>1, <1>2, <2>1 DEF AimedAt, Target, Launched, Admitted
<1>3. ~ restoring
  <2>1. PICK z \in AdmittedTo(t) : entries[z] # None
    BY DEF Heard
  <2> QED BY <1>0, <1>1, <1>2, <2>1 DEF Resuming
<1>4. Behind /\ refused' = refused /\ threads' = threads /\ gone \subseteq AdmittedTo(t)
  BY DEF Heard, Behind
<1>5. own \in Messages \ gone => entries'[own].delivery = "accepted" /\ entries'[own].thread = t /\ doubted' = doubted
  <2>1. own \in Messages => own \in AdmittedTo(t) /\ entries[own] # None
    BY <1>0 DEF Heard, Staged, StagedAt, Idle
  <2> QED BY <1>2, <2>1 DEF Told
<1>6. doubted' = doubted
  BY <1>5 DEF Told
<1>7. Draft \in moves => \E z \in Messages : /\ z \in gone \cup {own} /\ z \in AdmittedTo(t)
                                              /\ entries[z] # None /\ entries[z].thread = None
  <2>1. \A z \in Messages : entries[z] # None /\ entries[z].place = Draft => entries[z].thread = None
    BY EntryValid, OutboxConstants DEF Valid, Fits, Entry
  <2> QED BY <1>1, <2>1 DEF Told
<1>8. (\A n, u : Goes(n, u)' => Goes(n, u)) /\ (\A n : Launched(n)' => Launched(n))
  <2>1. \A w \in wire' : \E x \in wire : x.m = w.m /\ x.thread = w.thread
    BY <1>0, AbandonedIs DEF Heard
  <2> QED BY <1>4, <2>1, GoesBefore
<1>9. ASSUME NEW n \in Messages PROVE TipAt(n)'
  <2>1. entries' \in Boxes /\ TipAt(n)
    BY DEF Heard, Once, Singly
  <2>2. PICK b \in Boxes, c \in Boxes, d \in Boxes :
            writes' = Persist(Persist(Persist(Persist(writes, entries, b), b, c), c, d), d, entries')
    BY DEF Told
  <2> QED BY <1>0, <1>4, <2>1, <2>2, FourWrites DEF Behind
<1>10. ASSUME NEW n \in Messages, n = own, n \notin gone
       PROVE  entries'[n] # None /\ Result(n, t, moves).thread = t
  <2>1. entries[n] # None
    BY <1>0, <1>10 DEF Heard, Staged, StagedAt, Idle
  <2>2. PICK r \in Entry : r = Result(n, t, moves)
    BY <2>1, ResultIs
  <2>3. PICK d \in {"accepted", "unknown"} : entries'[n] = [r EXCEPT !.delivery = d]
    BY <1>10, <2>2 DEF Heard
  <2>4. [r EXCEPT !.delivery = d] \in Entry /\ [r EXCEPT !.delivery = d].thread = r.thread
    BY DEF Entry
  <2>5. None \notin Entry
    BY OutboxConstants
  <2> QED BY <1>5, <1>10, <2>2, <2>3, <2>4, <2>5
<1>11. \A n \in Messages : entries'[n] # None => HeardAt(n, t, gone, moves, own)
  BY HeardEntry
<1>12. ASSUME NEW n \in Messages
       PROVE  /\ AddsTo(n) \subseteq {entries'[n], Result(n, t, moves)}
              /\ Called(n, IF n = own THEN Idle ELSE dispatch[n])
              /\ n \in gone => entries'[n] = None /\ entries[n] # None
              /\ n \notin gone /\ n # own => entries'[n] = Result(n, t, moves)
  BY DEF Heard
<1>13. \A n \in Messages :
        dispatch'[n] # Idle => (n # own /\ dispatch'[n] = dispatch[n]) \/ (StartedNow(n) /\ Free(n))
  BY DEF Told
<1> QED BY <1>3, <1>4, <1>5, <1>6, <1>7, <1>8, <1>9, <1>10, <1>11, <1>12, <1>13 DEF Hearing

(* What is bound with the new chat, and is not the message that tells of it, has not been touched. *)
LEMMA MovedFree ==
    ASSUME Inv, Once, NEW t \in Threads, NEW gone, NEW moves \in SUBSET {Draft}, NEW own, Hearing(t, gone, moves, own),
           NEW n \in Messages, entries[n] # None, entries[n].place \in moves
    PROVE  /\ Goes(n, t) \/ ~ Touched(n)
           /\ n \notin gone \cup {own} => ~ Touched(n) /\ dispatch[n] = Idle
<1>1. PICK z \in Messages : z \in gone \cup {own} /\ z \in AdmittedTo(t) /\ entries[z] # None /\ entries[z].thread = None
  BY DEF Hearing
<1>2. entries[n].thread = None
  BY EntryValid, OutboxConstants DEF Valid, Fits, Entry
<1>3. Launched(z) /\ Touched(z) /\ Unbound(z) /\ Unbound(n)
  BY <1>1, <1>2, CopiesAre DEF Launched, Admitted, Touched, Unbound, Inv
<1>4. CASE n = z
  BY <1>1, <1>4 DEF Goes
<1>5. CASE n # z
  <2>1. ~ Touched(n)
    BY <1>3, <1>5 DEF Once, Pairwise, AloneAt
  <2>2. dispatch[n] = Idle
    BY <1>1, <1>2, <1>3, <1>5, NewChatFree DEF Once, Pairwise, Singly
  <2> QED BY <2>1, <2>2
<1> QED BY <1>4, <1>5

(* Each message is carried on by what is heard. *)
LEMMA HeardCarries ==
    ASSUME Inv, Inv', Once, NEW t \in Threads, NEW gone, NEW moves \in SUBSET {Draft}, NEW own,
           Hearing(t, gone, moves, own), NEW n \in Messages
    PROVE  Carries(n)
<1> DEFINE R == Result(n, t, moves)
<1>0. Typed /\ Typed' /\ Staged /\ Staged'
  BY DEF Inv
<1>1. /\ ~ restoring /\ Behind /\ doubted' = doubted /\ refused' = refused /\ gone \subseteq AdmittedTo(t)
      /\ TipAt(n)' /\ (\A u \in Threads : Goes(n, u)' => Goes(n, u)) /\ (Launched(n)' => Launched(n))
      /\ AddsTo(n) \subseteq {entries'[n], R}
      /\ Called(n, IF n = own THEN Idle ELSE dispatch[n])
      /\ n \in gone => entries'[n] = None /\ entries[n] # None
      /\ n \notin gone /\ n # own => entries'[n] = R
      /\ entries'[n] # None => HeardAt(n, t, gone, moves, own)
      /\ n = own /\ n \notin gone =>
            entries'[n] # None /\ R.thread = t /\ entries'[n].delivery = "accepted" /\ entries'[n].thread = t
      /\ dispatch'[n] # Idle => (n # own /\ dispatch'[n] = dispatch[n]) \/ (StartedNow(n) /\ Free(n))
  BY DEF Hearing
<1>2. TipAt(n) /\ SteadyAt(n) /\ TellingAt(n) /\ RestingAt(n)
  BY DEF Once, Singly
<1>3. /\ entries[n] = None => R = None
      /\ entries[n] # None => /\ entries[n] \in Entry /\ entries[n] \in Copies(n) /\ R \in Entry /\ R # None
                              /\ R.preparing = entries[n].preparing /\ R.delivery = entries[n].delivery
                              /\ R.thread = IF entries[n].place \in moves THEN t ELSE entries[n].thread
                              /\ entries[n].place \notin moves => R = entries[n]
  <2>1. CASE entries[n] = None
    BY <2>1, ResultIs
  <2>2. CASE entries[n] # None
    <3>1. entries[n] \in Entry /\ entries[n] \in Copies(n)
      BY <1>0, <2>2, EntryValid, CopiesAre
    <3>2. R.thread = IF entries[n].place \in moves THEN t ELSE entries[n].thread
      BY <2>2, <3>1, MovedIs DEF Result
    <3>3. entries[n].place \notin moves => R = entries[n]
      BY DEF Result
    <3> QED BY <2>2, <3>1, <3>2, <3>3, ResultIs
  <2> QED BY <2>1, <2>2
<1> HIDE DEF R
<1>4. entries[n] # None /\ entries[n].place \in moves =>
        /\ Goes(n, t) \/ ~ Touched(n)
        /\ n \notin gone \cup {own} => ~ Touched(n) /\ dispatch[n] = Idle
  BY MovedFree
<1>5. t # None /\ None \notin Entry
  BY OutboxConstants
<1>6. ASSUME NEW v \in New(n)
      PROVE  /\ entries[n] # None
             /\ v \in Entry /\ v.preparing = entries[n].preparing /\ v.thread = R.thread
             /\ v.delivery = entries[n].delivery \/ (v.delivery = "accepted" /\ v.thread = t)
  <2>1. v # None /\ (v = entries'[n] \/ v = R)
    BY <1>1 DEF New
  <2>2. CASE v = R
    BY <1>3, <2>1, <2>2
  <2>3. CASE v = entries'[n] /\ n # own
    BY <1>1, <1>3, <2>1, <2>3
  <2>4. CASE v = entries'[n] /\ n = own
    BY <1>1, <2>1, <2>4 DEF HeardAt
  <2> QED BY <2>1, <2>2, <2>3, <2>4
<1>7. Touched(n)' => Touched(n)
  <2>1. Copies(n)' \subseteq Copies(n) \cup New(n)
    BY <1>0, <1>1, CopiesNew
  <2>2. \A v \in Copies(n)' : ~ v.preparing => \E u \in Copies(n) : ~ u.preparing
    BY <1>3, <1>6, <2>1
  <2> QED BY <1>1, <2>2 DEF Touched
<1>8. \A v \in Copies(n) : Tells(n, v) => Tells(n, v)'
  BY <1>1 DEF Tells
<1>9. ASSUME NEW v \in New(n)
      PROVE  /\ Tells(n, v)'
             /\ \/ ~ Touched(n)'
                \/ \E u \in Copies(n) : u.thread = v.thread
                \/ v.thread \in Threads /\ Goes(n, v.thread)
  <2>1. Tells(n, entries[n]) /\ entries[n] \in Copies(n)
    BY <1>2, <1>3, <1>6 DEF TellingAt
  <2>2. v.delivery = "accepted" => v.thread # None
    BY <1>3, <1>5, <1>6, <2>1 DEF Tells
  <2>3. Tells(n, v)'
    BY <1>1, <1>6, <2>1, <2>2 DEF Tells
  <2> QED BY <1>3, <1>4, <1>6, <1>7, <2>1, <2>3
<1>10. RestingAt(n)'
  <2> SUFFICES ASSUME Touched(n)', entries'[n] # None, entries'[n].thread = None, dispatch'[n] = Idle
               PROVE  n \in doubted
    BY <1>1 DEF RestingAt
  <2>1. n \notin gone /\ n # own
    BY <1>1, <1>5
  <2>2. entries'[n] = entries[n]
    BY <1>1, <1>3, <1>5, <2>1
  <2>3. dispatch[n] = Idle
    BY <1>1, <2>1 DEF Called
  <2> QED BY <1>2, <1>7, <2>2, <2>3 DEF RestingAt
<1>11. entries'[n] = None \/ entries'[n].thread # None =>
        AddsTo(n) \subseteq Elsewhere \/ (Touched(n) /\ entries[n] # None /\ entries[n].thread = None)
  <2>1. CASE n \in gone
    <3>1. Touched(n) /\ entries[n] # None
      BY <1>1, <2>1 DEF Touched, Launched, Admitted
    <3>2. R.thread # None => AddsTo(n) \subseteq Elsewhere
      BY <1>1, <1>3, <2>1, <3>1 DEF Elsewhere
    <3> QED BY <1>3, <1>5, <3>1, <3>2
  <2>2. CASE n \notin gone /\ n # own
    BY <1>1, <1>3, <2>2 DEF Elsewhere
  <2>3. CASE n \notin gone /\ n = own
    BY <1>1, <1>3, <1>5, <2>3 DEF Elsewhere, HeardAt
  <2> QED BY <2>1, <2>2, <2>3
<1>12. dispatch'[n] # Idle => (StartedNow(n) /\ Free(n)) \/ Continues(n)
  <2> SUFFICES ASSUME dispatch'[n] # Idle, n # own, dispatch'[n] = dispatch[n] PROVE Continues(n)
    BY <1>1
  <2>1. entries'[n] # None /\ entries[n] # None
    BY <1>0 DEF Staged, StagedAt
  <2>2. entries'[n] = entries[n] /\ AddsTo(n) \subseteq {entries[n]}
    BY <1>1, <1>3, <1>4, <2>1
  <2>3. AddsTo(n) \subseteq Heading(entries[n].thread)
    BY <1>3, <2>1, <2>2 DEF Heading
  <2> QED BY <1>2, <2>1, <2>2, <2>3, SameContinues
<1>13. n \in doubted' /\ entries'[n] # None /\ entries'[n].delivery # "accepted" =>
        \/ n \in refused'
        \/ /\ entries[n] # None /\ entries'[n].place = entries[n].place
           /\ dispatch[n] # Idle \/ (n \in doubted /\ entries[n].delivery # "accepted")
  <2> SUFFICES ASSUME n \in doubted, entries'[n] # None, entries'[n].delivery # "accepted", n \notin refused
               PROVE  entries[n] # None /\ entries'[n].place = entries[n].place /\ entries[n].delivery # "accepted"
    BY <1>1
  <2>1. n \notin gone /\ n # own /\ entries[n] # None
    BY <1>1 DEF HeardAt
  <2>2. entries'[n] = R /\ R.delivery = entries[n].delivery
    BY <1>1, <1>3, <2>1
  <2>3. Tells(n, entries[n]) /\ entries[n] \in Copies(n)
    BY <1>2, <1>3, <2>1 DEF TellingAt
  <2>4. Touched(n)
    BY <2>3 DEF Tells, Touched
  <2>5. R = entries[n]
    BY <1>3, <1>4, <2>1, <2>4
  <2> QED BY <2>1, <2>2, <2>5
<1>14. ~ restoring'
  BY <1>1 DEF Behind
<1> QED BY <1>1, <1>7, <1>8, <1>9, <1>10, <1>11, <1>12, <1>13, <1>14 DEF Carries, Proceeds

(* A view of a thread, or a receipt with or without one *)
LEMMA HeardOnce ==
    ASSUME Inv, Inv', Once, NEW t \in Threads, NEW gone, NEW moves \in SUBSET {Draft}, NEW own,
           Heard(t, gone, moves, own), Told(t, gone, moves, own)
    PROVE  Onward
<1>1. Hearing(t, gone, moves, own)
  BY HearingIs
<1>2. Behind
  BY <1>1 DEF Hearing
<1> QED BY <1>1, <1>2, HeardCarries, CarriedOn

(* A view confirms messages. *)
LEMMA ObserveOnce ==
    ASSUME Inv, Inv', Once, NEW t \in Threads, NEW seen \in SUBSET AdmittedTo(t), Observe(t, seen)
    PROVE  Onward
BY ObserveHeard, HeardOnce

(* A receipt confirms its message, with what a view has seen. *)
LEMMA ReceiptOnce ==
    ASSUME Inv, Inv', Once, NEW w \in wire, NEW seen \in SUBSET AdmittedTo(Addressed(w)), Receipt(w, seen)
    PROVE  Onward
BY ReceiptHeard, HeardOnce

(* What a message is to a step that only forgets: no new copy, no new launch. *)
Forgets(m) ==
    /\ \A v \in Copies(m)' : \E u \in Copies(m) : u.thread = v.thread /\ u.preparing = v.preparing
    /\ \A t \in Threads : Goes(m, t)' => Goes(m, t)
    /\ Launched(m)' => Launched(m)
    /\ m \in refused' <=> m \in refused

(* Such a message goes where it went, and is not touched anew. *)
LEMMA ForgetsKeeps ==
    ASSUME NEW m \in Messages, Forgets(m)
    PROVE  /\ Touched(m)' => Touched(m)
           /\ Unbound(m)' => Unbound(m)
           /\ AimedAt(m) => AimedAt(m)'
<1>1. Touched(m)' => Touched(m)
  BY DEF Touched, Forgets
<1>2. Unbound(m)' => Unbound(m)
  BY DEF Unbound, Forgets
<1>3. ASSUME AimedAt(m) PROVE AimedAt(m)'
  <2>1. PICK t \in Threads : \A u \in Threads : Goes(m, u) => u = t /\ \A v \in Copies(m) : Target(m, v) = t
    BY <1>3 DEF AimedAt
  <2>2. ASSUME NEW u \in Threads, Goes(m, u)'
        PROVE  u = t /\ \A v \in Copies(m)' : Target(m, v) = t
    BY <2>1, <2>2 DEF Forgets, Target
  <2>3. \E s \in Threads : \A u \in Threads : Goes(m, u)' => u = s /\ \A v \in Copies(m)' : Target(m, v) = s
    BY <2>2
  <2> QED BY <2>3 DEF AimedAt, Target
<1> QED BY <1>1, <1>2, <1>3

(* One launch of a new chat *)
LEMMA ForgetsAlone ==
    ASSUME NEW m \in Messages, NEW n \in Messages, Forgets(m), Forgets(n), AloneAt(m, n)
    PROVE  AloneAt(m, n)'
<1>1. (Unbound(m)' => Unbound(m)) /\ (Touched(n)' => Touched(n)) /\ (Unbound(n)' => Unbound(n))
  BY ForgetsKeeps
<1> QED BY <1>1 DEF AloneAt, Forgets

(* A write ends that is not lost. *)
LEMMA DiskOnce ==
    ASSUME Inv, Inv', Once, unsaved = {}, unsaved' = {}, NEW ok \in BOOLEAN, WriteEnds(ok)
    PROVE  Onward
<1>0. Typed /\ Staged
  BY DEF Inv
<1>1. /\ writes # <<>> /\ ~ restoring /\ ~ restoring' /\ writes \in Writes /\ writes' = Tail(writes)
      /\ disk' = [m \in Messages |-> IF ok /\ m \in DOMAIN Head(writes) THEN Head(writes)[m] ELSE disk[m]]
      /\ entries' = entries /\ order' = order /\ wire' = wire /\ threads' = threads
      /\ doubted' = doubted /\ refused' = refused /\ early' = early
      /\ unsaved' = IF ok THEN unsaved ELSE unsaved \cup DOMAIN Head(writes)
  BY <1>0 DEF WriteEnds, Typed
<1>2. ASSUME NEW m \in Messages
      PROVE  /\ WaitOf(m) \in Nat /\ WaitOf(m)' \in Nat /\ WaitOf(m) <= WaitOf(m)' + 1
             /\ dispatch'[m] = Idle <=> dispatch[m] = Idle
             /\ dispatch'[m].step = "store" => dispatch[m].step = "store" /\ dispatch'[m].thread = dispatch[m].thread
  <2> DEFINE c == dispatch[m]
  <2>1. c \in Calls
    BY <1>0 DEF Typed
  <2>2. dispatch'[m] = IF c.step \in {"capture", "store"} /\ c.wait > 0
                       THEN [c EXCEPT !.wait = @ - 1, !.ok = ok \/ c.wait > 1] ELSE c
    BY DEF WriteEnds
  <2>3. CASE Waits(c) /\ c.wait > 0
    <3>1. /\ c.wait \in Nat /\ c.step # "idle"
          /\ c = [step |-> c.step, thread |-> c.thread, wait |-> c.wait, ok |-> c.ok]
      BY <2>1, <2>3, CallKinds DEF Waits
    <3>2. /\ dispatch'[m].step = c.step /\ dispatch'[m].thread = c.thread /\ dispatch'[m].wait = c.wait - 1
      <4> HIDE DEF c
      <4> QED BY <2>2, <2>3, <3>1 DEF Waits
    <3>3. WaitOf(m) = c.wait /\ WaitOf(m)' = c.wait - 1
      BY <2>3, <3>2 DEF WaitOf, Waits
    <3>4. dispatch'[m] # Idle /\ dispatch[m] # Idle
      BY <3>1, <3>2 DEF Idle
    <3> QED BY <2>3, <3>1, <3>2, <3>3, <3>4
  <2>4. CASE ~ (Waits(c) /\ c.wait > 0)
    <3>1. dispatch'[m] = c
      BY <2>2, <2>4 DEF Waits
    <3>2. WaitOf(m) \in Nat /\ WaitOf(m)' = WaitOf(m)
      BY <1>0, <3>1, WaitIs DEF WaitOf
    <3> QED BY <3>1, <3>2
  <2> QED BY <2>3, <2>4
<1>3. \A m : m \in DOMAIN Head(writes) => ok
  BY <1>1
<1>4. ASSUME NEW m \in Messages
      PROVE  /\ Copies(m)' \subseteq Copies(m)
             /\ \A k \in 0..Len(writes), j \in Nat : \A S : k <= j + 1 /\ Settled(writes, disk, m, k, S)
                    => Settled(writes', disk', m, j, S)
             /\ Len(writes') = Len(writes) - 1 /\ Len(writes) \in Nat /\ Len(writes') \in Nat
  <2>1. disk'[m] = IF ok /\ m \in DOMAIN Head(writes) THEN Head(writes)[m] ELSE disk[m]
    BY <1>1
  <2>2. /\ Later(Tail(writes), 0, m) \subseteq Later(writes, 0, m)
        /\ disk'[m] = disk[m] \/ disk'[m] \in Later(writes, 0, m)
        /\ Len(Tail(writes)) = Len(writes) - 1 /\ Tail(writes) \in Writes
    BY <1>1, <2>1, FirstEnds
  <2>3. Values(m)' = {entries'[m], disk'[m]} \cup Later(writes', 0, m)
    BY DEF Values
  <2>4. Copies(m)' \subseteq Copies(m)
    BY <1>1, <2>2, <2>3 DEF Copies, Values
  <2>5. ASSUME NEW k \in 0..Len(writes), NEW j \in Nat, NEW S, k <= j + 1, Settled(writes, disk, m, k, S)
        PROVE  Settled(writes', disk', m, j, S)
    BY <1>1, <1>3, <2>1, <2>5, SettledEnds
  <2>6. Len(writes) \in Nat /\ Len(writes') \in Nat
    BY <1>1, <2>2, WritesLen
  <2> QED BY <1>1, <2>2, <2>4, <2>5, <2>6
<1>5. (\A n, t : Goes(n, t)' => Goes(n, t)) /\ (\A n : Launched(n)' => Launched(n))
  BY <1>1, GoesBefore
<1>6. \A m \in Messages : Forgets(m)
  BY <1>1, <1>4, <1>5 DEF Forgets
<1>7. \A m \in Messages : (Touched(m)' => Touched(m)) /\ (AimedAt(m) => AimedAt(m)')
  BY <1>6, ForgetsKeeps
<1>8. ASSUME NEW m \in Messages
      PROVE  (TipAt(m) /\ SteadyAt(m) /\ AimedAt(m) /\ TellingAt(m) /\ RestingAt(m) /\ EarlyAt(m))'
  <2>1. TipAt(m) /\ SteadyAt(m) /\ AimedAt(m) /\ TellingAt(m) /\ RestingAt(m)
    BY DEF Once, Singly
  <2>2. TipAt(m)'
    <3>1. Settled(writes, disk, m, Len(writes), Alike(entries[m]))
      BY <1>1, <2>1 DEF TipAt
    <3>2. Len(writes) \in 0..Len(writes) /\ Len(writes) <= Len(writes') + 1
      BY <1>4
    <3>3. Settled(writes', disk', m, Len(writes'), Alike(entries[m]))
      BY <1>4, <3>1, <3>2
    <3> QED BY <1>1, <3>3 DEF TipAt
  <2>3. SteadyAt(m)'
    <3> SUFFICES ASSUME dispatch'[m] # Idle
                 PROVE  /\ \E k \in Nat : k = WaitOf(m)' /\ Settled(writes', disk', m, k, Heading(entries'[m].thread))
                        /\ dispatch'[m].step = "store" => dispatch'[m].thread = entries'[m].thread
      BY DEF SteadyAt
    <3>1. /\ Settled(writes, disk, m, WaitOf(m), Heading(entries[m].thread))
          /\ dispatch[m].step = "store" => dispatch[m].thread = entries[m].thread
      BY <1>2, <2>1 DEF SteadyAt
    <3>2. WaitOf(m) \in 0..Len(writes)
      BY <1>0, <1>2, WaitIs
    <3>3. PICK k \in Nat : k = WaitOf(m)' /\ WaitOf(m) <= k + 1
      BY <1>2
    <3>4. Settled(writes', disk', m, k, Heading(entries[m].thread))
      BY <1>4, <3>1, <3>2, <3>3
    <3> QED BY <1>1, <1>2, <3>1, <3>3, <3>4
  <2>4. TellingAt(m)'
    <3>1. \A v \in Copies(m)' : Tells(m, v)
      BY <1>4, <2>1 DEF TellingAt
    <3>2. \A v \in Copies(m)' : Tells(m, v)'
      BY <1>1, <1>5, <3>1 DEF Tells
    <3> QED BY <3>2 DEF TellingAt, Tells
  <2>5. RestingAt(m)' /\ EarlyAt(m)'
    BY <1>1, <1>2, <1>7, <2>1 DEF RestingAt, EarlyAt
  <2> QED BY <1>7, <2>1, <2>2, <2>3, <2>4, <2>5
<1>9. ASSUME NEW m \in Messages, NEW n \in Messages
      PROVE  (UniqueAt(m, n) /\ AloneAt(m, n) /\ ClearAt(m, n))'
  <2>1. UniqueAt(m, n) /\ AloneAt(m, n) /\ ClearAt(m, n)
    BY DEF Once, Pairwise, Clear
  <2>2. UniqueAt(m, n)' /\ AloneAt(m, n)'
    BY <1>1, <1>2, <1>6, <2>1, ForgetsAlone DEF UniqueAt
  <2>3. ClearAt(m, n)'
    <3> SUFFICES ASSUME m # n, dispatch'[n] # Idle, entries'[n].thread = None, Touched(m)'
                 PROVE  \E k \in Nat : k = WaitOf(n)' /\ Settled(writes', disk', m, k, Elsewhere)
      BY DEF ClearAt
    <3>1. Settled(writes, disk, m, WaitOf(n), Elsewhere)
      BY <1>1, <1>2, <1>7, <2>1 DEF ClearAt
    <3>2. WaitOf(n) \in 0..Len(writes)
      BY <1>0, <1>2, <1>4, WaitIs
    <3>3. PICK k \in Nat : k = WaitOf(n)' /\ WaitOf(n) <= k + 1
      BY <1>2
    <3> QED BY <1>4, <3>1, <3>2, <3>3
  <2> QED BY <2>2, <2>3
<1>10. Pausing
  <2>1. \A m \in Messages : InDoubt(m)' = InDoubt(m)
    BY <1>1 DEF InDoubt
  <2> QED BY <1>2, <2>1 DEF Pausing, Once, Calm, InFlight
<1> QED BY <1>8, <1>9, <1>10 DEF Onward, Singly, Pairwise, Clear

(* A reload: nothing is dispatched, and what comes back is on the disk. *)
LEMMA ReloadOnce ==
    ASSUME Inv, Inv', Once, Reload
    PROVE  Onward
<1>0. Typed
  BY DEF Inv
<1>1. /\ \A m \in Messages : entries'[m] = None /\ dispatch'[m] = Idle
      /\ restoring' /\ writes' = <<>> /\ wire' = Abandoned(Messages)
      /\ disk' = disk /\ threads' = threads /\ doubted' = doubted /\ refused' = refused
  BY DEF Reload, history
<1>2. ASSUME NEW m \in Messages PROVE Later(writes', 0, m) = {} /\ Copies(m)' \subseteq Copies(m)
  <2>1. Later(writes', 0, m) = {}
    BY <1>1 DEF Later
  <2>2. Values(m)' = {entries'[m], disk'[m]} \cup Later(writes', 0, m)
    BY DEF Values
  <2> QED BY <1>1, <2>1, <2>2 DEF Copies, Values
<1>3. (\A n, t : Goes(n, t)' => Goes(n, t)) /\ (\A n : Launched(n)' => Launched(n))
  <2>1. \A w \in wire' : \E x \in wire : x.m = w.m /\ x.thread = w.thread
    BY <1>0, <1>1, AbandonedIs
  <2> QED BY <1>1, <2>1, GoesBefore
<1>4. \A m \in Messages : Forgets(m)
  BY <1>1, <1>2, <1>3 DEF Forgets
<1>5. ASSUME NEW m \in Messages
      PROVE  (TipAt(m) /\ SteadyAt(m) /\ AimedAt(m) /\ TellingAt(m) /\ RestingAt(m) /\ EarlyAt(m))'
  <2>1. AimedAt(m) /\ TellingAt(m)
    BY DEF Once, Singly
  <2>2. TipAt(m)'
    <3> SUFFICES ASSUME disk[m] = None
                 PROVE  Settled(writes', disk', m, Len(writes'), Alike(entries'[m]))
      BY <1>1 DEF TipAt
    <3>1. Val(writes', disk', 0, m) \in Alike(entries'[m]) /\ Later(writes', 0, m) \subseteq Alike(entries'[m])
      BY <1>1, <1>2 DEF Val, Alike
    <3>2. 0 \in 0..Len(writes')
      BY <1>1
    <3> QED BY <3>1, <3>2 DEF Settled
  <2>3. \A v \in Copies(m)' : Tells(m, v)'
    BY <1>1, <1>2, <1>3, <2>1 DEF TellingAt, Tells
  <2>4. SteadyAt(m)' /\ RestingAt(m)' /\ EarlyAt(m)'
    BY <1>1, <1>2 DEF SteadyAt, RestingAt, EarlyAt
  <2> QED BY <1>4, <2>1, <2>2, <2>3, <2>4, ForgetsKeeps DEF TellingAt, Tells
<1>6. ASSUME NEW m \in Messages, NEW n \in Messages
      PROVE  (UniqueAt(m, n) /\ AloneAt(m, n) /\ ClearAt(m, n))'
  <2>1. AloneAt(m, n)'
    BY <1>4, ForgetsAlone DEF Once, Pairwise
  <2> QED BY <1>1, <2>1 DEF UniqueAt, ClearAt
<1>7. Pausing
  BY <1>1 DEF Pausing, InFlight
<1> QED BY <1>5, <1>6, <1>7 DEF Onward, Singly, Pairwise, Clear

\* what a message is when restoreTransportOutbox has answered
Restoring(m) ==
    /\ entries[m] # None => entries'[m] = entries[m] /\ disk[m] = None
    /\ entries[m] = None /\ disk[m] = None => entries'[m] = None
    /\ entries[m] = None /\ disk[m] # None =>
        /\ disk[m] \in Entry /\ entries'[m] \in Entry /\ entries'[m] # None
        /\ entries'[m].place = disk[m].place /\ entries'[m].thread = disk[m].thread
        /\ entries'[m].preparing = disk[m].preparing /\ entries'[m].delivery # "pending"
        /\ disk[m].preparing => entries'[m].delivery = "failed"
        /\ ~ disk[m].preparing =>
            entries'[m].delivery = IF disk[m].delivery = "pending" THEN "unknown" ELSE disk[m].delivery
    /\ m \in doubted' <=> m \in doubted \/ (entries'[m] # None /\ entries'[m].delivery = "unknown")
    /\ AddsTo(m) \subseteq {entries[m]} \ {None}
    /\ Called(m, dispatch[m])
    /\ dispatch'[m] # Idle => GoesOn(m)

(* The restore is such a step. *)
LEMMA RestoringIs ==
    ASSUME Inv, NEW ord \in Orders(Saved), NEW again \in Listings(Retained, order), Restore(ord, again)
    PROVE  Extends(writes, writes') /\ \A m \in Messages : Restoring(m)
<1> DEFINE found == [m \in Messages |-> IF disk[m] = None THEN None ELSE Restored(disk[m])]
           box == [m \in Messages |-> IF entries[m] = None THEN found[m] ELSE entries[m]]
           later == Retained \ Saved
           whole == ord \cup (order \cap (later \X later)) \cup (Saved \X later)
           queue == writes \o [i \in DOMAIN again |-> [m \in {again[i]} |-> entries[m]]]
<1>0. Typed /\ Resuming
  BY DEF Inv
<1>1. /\ restoring /\ Dispatcher(box, whole, handoffs, dispatch, queue)
      /\ doubted' = doubted \cup {m \in Messages : box[m] # None /\ box[m].delivery = "unknown"}
  BY DEF Restore
<1>2. ASSUME NEW m \in Messages
      PROVE  /\ box[m] = IF entries[m] = None THEN (IF disk[m] = None THEN None ELSE Restored(disk[m])) ELSE entries[m]
             /\ box[m] \in Entry \cup {None}
             /\ disk[m] # None => disk[m] \in Entry
  <2>1. entries[m] \in Entry \cup {None} /\ disk[m] \in Entry \cup {None}
    BY <1>0 DEF Typed
  <2>2. disk[m] # None => Restored(disk[m]) \in Entry
    BY <2>1, RestoredIs
  <2> QED BY <2>1, <2>2
<1>3. box \in Boxes
  BY <1>2 DEF Boxes
<1>4. whole \in SUBSET (Messages \X Messages)
  BY DEF Orders, Saved, Retained
<1>5. Extends(writes, queue) /\ \A m \in Messages : Later(queue, Len(writes), m) \subseteq {entries[m]} \ {None}
  <2> HIDE DEF queue
  <2>1. queue = writes \o [i \in DOMAIN again |-> [m \in {again[i]} |-> entries[m]]]
    BY DEF queue
  <2> QED BY <2>1, PutAgain
<1> HIDE DEF box, later, whole, queue
<1>6. queue \in Writes /\ dispatch \in [Messages -> Calls] /\ latest \in BOOLEAN
  BY <1>0, <1>5 DEF Extends, Typed
<1>7. entries' = box /\ writes' = queue /\ \A m \in Messages : Called(m, dispatch[m])
  BY <1>1, <1>3, <1>4, <1>6, DispatcherEffect
<1>8. \A m \in Messages : dispatch'[m] # Idle => GoesOn(m)
  BY <1>1, <1>3, <1>4, <1>6, DispatcherFree DEF GoesOn
<1>9. ASSUME NEW m \in Messages PROVE Restoring(m)
  <2>1. entries[m] # None => entries'[m] = entries[m] /\ disk[m] = None
    BY <1>0, <1>1, <1>2, <1>7 DEF Resuming
  <2>2. entries[m] = None /\ disk[m] = None => entries'[m] = None
    BY <1>2, <1>7
  <2>3. entries[m] = None /\ disk[m] # None =>
            /\ disk[m] \in Entry /\ entries'[m] \in Entry /\ entries'[m] # None
            /\ entries'[m].place = disk[m].place /\ entries'[m].thread = disk[m].thread
            /\ entries'[m].preparing = disk[m].preparing /\ entries'[m].delivery # "pending"
            /\ disk[m].preparing => entries'[m].delivery = "failed"
            /\ ~ disk[m].preparing =>
                entries'[m].delivery = IF disk[m].delivery = "pending" THEN "unknown" ELSE disk[m].delivery
    BY <1>2, <1>7, RestoredIs
  <2>4. m \in doubted' <=> m \in doubted \/ (entries'[m] # None /\ entries'[m].delivery = "unknown")
    BY <1>1, <1>7
  <2>5. AddsTo(m) \subseteq {entries[m]} \ {None}
    BY <1>5, <1>7 DEF AddsTo
  <2> QED BY <1>7, <1>8, <2>1, <2>2, <2>3, <2>4, <2>5 DEF Restoring
<1> QED BY <1>5, <1>7, <1>9

(* What was sent meanwhile is put again, and what was saved comes back: failed or in doubt. *)
LEMMA RestoreOnce ==
    ASSUME Inv, Inv', Once, unsaved = {}, NEW ord \in Orders(Saved), NEW again \in Listings(Retained, order),
           Restore(ord, again)
    PROVE  Onward
<1>0. Typed /\ Typed' /\ Staged /\ Staged' /\ Resuming /\ Single /\ AllValid
  BY DEF Inv
<1>1. /\ restoring /\ ~ restoring' /\ disk' = disk /\ wire' = wire /\ threads' = threads
      /\ refused' = refused /\ early' = early
  BY DEF Restore
<1>2. Extends(writes, writes') /\ \A m \in Messages : Restoring(m)
  BY RestoringIs
<1>3. (\A n, t : Goes(n, t)' => Goes(n, t)) /\ (\A n : Launched(n)' => Launched(n))
  BY <1>1, GoesBefore
<1>4. ASSUME NEW m \in Messages
      PROVE  (TipAt(m) /\ SteadyAt(m) /\ AimedAt(m) /\ TellingAt(m) /\ RestingAt(m) /\ EarlyAt(m))
  BY DEF Once, Singly
<1>5. ASSUME NEW m \in Messages
      PROVE  /\ entries[m] # None => ~ Touched(m) /\ m \in early
             /\ Later(writes, 0, m) # {} => disk[m] = None /\ ~ Touched(m)
             /\ entries[m] = None => dispatch[m] = Idle /\ dispatch'[m] = Idle
  <2>1. entries[m] = None => dispatch[m] = Idle
    BY <1>0 DEF Staged, StagedAt
  <2>2. entries[m] = None => ~ StartedNow(m)
    BY <1>2 DEF StartedNow, Restoring
  <2> QED BY <1>0, <1>1, <1>2, <1>4, <2>1, <2>2 DEF EarlyAt, Resuming, Restoring, Called
<1>6. ASSUME NEW m \in Messages
      PROVE  Copies(m)' \subseteq Copies(m) \cup ({entries'[m]} \ {None}) /\ Later(writes', 0, m) = Later(writes, 0, m) \cup AddsTo(m)
  <2>1. Later(writes', 0, m) = Later(writes, 0, m) \cup AddsTo(m)
    <3>1. 0 \in 0..Len(writes)
      BY <1>0, WritesLen DEF Typed
    <3> QED BY <1>0, <1>2, <3>1, LaterSplits DEF Typed, AddsTo
  <2>2. Values(m)' = {entries'[m], disk'[m]} \cup Later(writes', 0, m)
    BY DEF Values
  <2>3. AddsTo(m) \subseteq {entries[m]}
    BY <1>2 DEF Restoring
  <2> QED BY <1>1, <2>1, <2>2, <2>3 DEF Copies, Values
<1>7. ASSUME NEW m \in Messages PROVE Forgets(m)
  <2>1. ASSUME NEW v \in Copies(m)' PROVE \E u \in Copies(m) : u.thread = v.thread /\ u.preparing = v.preparing
    <3>1. CASE v \in Copies(m)
      BY <3>1
    <3>2. CASE v = entries'[m] /\ v # None
      <4>1. entries[m] # None => entries[m] \in Copies(m)
        BY <1>0, CopiesAre
      <4>2. disk[m] # None => disk[m] \in Copies(m)
        BY <1>0, CopiesAre
      <4> QED BY <1>2, <3>2, <4>1, <4>2 DEF Restoring
    <3> QED BY <1>6, <2>1, <3>1, <3>2
  <2> QED BY <1>1, <1>3, <2>1 DEF Forgets
<1>8. \A m \in Messages : Touched(m)' => Touched(m)
  BY <1>7, ForgetsKeeps
<1>9. ASSUME NEW m \in Messages PROVE TipAt(m)'
  <2>1. CASE disk[m] = None
    <3>1. Settled(writes, disk, m, Len(writes), Alike(entries[m])) /\ entries'[m] = entries[m]
      BY <1>2, <1>4, <2>1 DEF TipAt, Restoring
    <3>2. Later(writes', Len(writes), m) \subseteq Alike(entries[m])
      <4>1. entries[m] \in Entry \cup {None} /\ AddsTo(m) \subseteq {entries[m]} \ {None}
        BY <1>0, <1>2 DEF Typed, Restoring
      <4> QED BY <4>1 DEF AddsTo, Alike
    <3>3. writes \in Writes /\ writes' \in Writes /\ Len(writes) \in Nat /\ Len(writes') \in Nat /\ Len(writes) <= Len(writes')
      BY <1>0, <1>2, WritesLen DEF Typed, Extends
    <3>4. Len(writes) \in 0..Len(writes)
      BY <3>3
    <3>5. Settled(writes', disk, m, Len(writes), Alike(entries[m]))
      BY <1>2, <3>1, <3>2, <3>3, <3>4, SettledStays
    <3>6. Settled(writes', disk, m, Len(writes'), Alike(entries[m]))
      BY <3>3, <3>5, SettledWidens
    <3> QED BY <1>1, <3>1, <3>6 DEF TipAt
  <2>2. CASE disk[m] # None
    <3>1. entries[m] = None /\ Later(writes, 0, m) = {} /\ AddsTo(m) = {}
      BY <1>2, <1>5, <2>2 DEF Restoring
    <3>2. disk[m] \in Alike(entries'[m])
      BY <1>2, <2>2, <3>1 DEF Alike, Restoring
    <3>3. Val(writes', disk', 0, m) \in Alike(entries'[m]) /\ Later(writes', 0, m) \subseteq Alike(entries'[m])
      BY <1>1, <1>6, <3>1, <3>2 DEF Val
    <3>4. 0 \in 0..Len(writes')
      BY <1>0, WritesLen DEF Typed
    <3> QED BY <3>3, <3>4 DEF Settled, TipAt
  <2> QED BY <2>1, <2>2
<1>10. ASSUME NEW m \in Messages PROVE TellingAt(m)'
  <2>1. ASSUME NEW v \in Copies(m)' PROVE Tells(m, v)'
    <3>1. \A u \in Copies(m) : Tells(m, u)
      BY <1>4 DEF TellingAt
    <3>2. CASE entries[m] = None /\ disk[m] # None
      <4>1. Copies(m) \subseteq {disk[m]} /\ disk[m] \in Copies(m)
        BY <1>0, <1>5, <3>2, CopiesAre DEF Copies, Values
      <4>2. v = disk[m] \/ v = entries'[m]
        BY <1>6, <2>1, <4>1
      <4>3. m \in doubted' => ~ disk[m].preparing
        BY <1>2, <3>1, <3>2, <4>1 DEF Restoring, Tells
      <4> QED BY <1>1, <1>2, <1>3, <3>1, <3>2, <4>1, <4>2, <4>3 DEF Restoring, Tells
    <3>3. CASE entries[m] # None \/ disk[m] = None
      <4>1. entries'[m] = entries[m]
        BY <1>2, <3>3 DEF Restoring
      <4>2. v \in Copies(m)
        BY <1>0, <1>6, <2>1, <4>1, CopiesAre
      <4>3. m \in doubted' <=> m \in doubted
        BY <1>2, <4>1, EntryValid DEF Restoring, Valid
      <4> QED BY <1>1, <1>3, <3>1, <4>2, <4>3 DEF Tells
    <3> QED BY <3>2, <3>3
  <2> QED BY <2>1 DEF TellingAt, Tells
<1>11. ASSUME NEW m \in Messages PROVE RestingAt(m)'
  <2> SUFFICES ASSUME Touched(m)', entries'[m] # None, entries'[m].thread = None, m \notin doubted'
               PROVE  FALSE
    BY DEF RestingAt
  <2>1. Touched(m) /\ entries[m] = None /\ disk[m] # None /\ Later(writes, 0, m) = {} /\ m \notin doubted
    BY <1>2, <1>5, <1>8 DEF Restoring
  <2>2. Copies(m) = {disk[m]} /\ Tells(m, disk[m])
    BY <1>4, <2>1 DEF Copies, Values, TellingAt
  <2>3. CASE disk[m].preparing
    <3>1. Launched(m)
      BY <2>1, <2>2, <2>3 DEF Touched
    <3>2. Clean(m)
      BY <2>1 DEF Clean
    <3>3. disk[m] \in Late
      BY <1>0, <3>1, <3>2 DEF Single, SingleAt
    <3> QED BY <2>1, <2>3, <3>3 DEF Late
  <2>4. CASE ~ disk[m].preparing
    <3>1. disk[m].delivery \notin {"pending", "unknown", "accepted"}
      BY <1>2, <2>1, <2>2, <2>4 DEF Restoring, Tells
    <3>2. disk[m].delivery = "failed"
      BY <1>2, <2>1, <3>1 DEF Restoring, Entry
    <3> QED BY <2>1, <2>2, <2>4, <3>2 DEF Tells, Touched
  <2> QED BY <2>3, <2>4
<1>12. ASSUME NEW n \in Messages PROVE Proceeds(n)
  <2> SUFFICES ASSUME dispatch'[n] # Idle, dispatch'[n] = dispatch[n] PROVE Continues(n)
    BY <1>2 DEF Proceeds, Restoring, GoesOn
  <2>1. entries[n] # None
    BY <1>5
  <2>2. entries'[n] = entries[n] /\ AddsTo(n) \subseteq {entries[n]} /\ entries[n] \in Entry
    BY <1>2, <2>1, EntryValid DEF Restoring
  <2>3. AddsTo(n) \subseteq Heading(entries[n].thread)
    BY <2>2 DEF Heading
  <2> QED BY <1>4, <2>1, <2>2, <2>3, SameContinues
<1>13. ASSUME NEW m \in Messages PROVE (SteadyAt(m) /\ AimedAt(m) /\ EarlyAt(m))'
  <2>1. SteadyAt(m)'
    BY <1>1, <1>2, <1>4, <1>9, <1>12, SteadyKeeps
  <2>2. AimedAt(m)'
    BY <1>4, <1>7, ForgetsKeeps
  <2> QED BY <1>1, <2>1, <2>2 DEF EarlyAt
<1>14. ASSUME NEW m \in Messages, NEW n \in Messages PROVE UniqueAt(m, n)' /\ AloneAt(m, n)'
  <2>1. UniqueAt(m, n) /\ AloneAt(m, n)
    BY DEF Once, Pairwise
  <2> QED BY <1>7, <1>12, <2>1, UniqueKeeps, ForgetsAlone
<1>15. ASSUME Calm', NEW m \in Messages, NEW n \in Messages PROVE ClearAt(m, n)'
  <2> SUFFICES ASSUME m # n, dispatch'[n] # Idle, entries'[n].thread = None, Touched(m)'
               PROVE  \E k \in Nat : k = WaitOf(n)' /\ Settled(writes', disk', m, k, Elsewhere)
    BY DEF ClearAt
  <2>1. entries'[m] = None \/ entries'[m].thread # None
    BY <1>10, <1>11, <1>14, <1>15, NewChatNow
  <2>2. entries[m] = None /\ Later(writes, 0, m) = {} /\ AddsTo(m) = {}
    BY <1>2, <1>5, <1>8 DEF Restoring
  <2>3. disk[m] \in Elsewhere
    BY <1>2, <2>1, <2>2 DEF Restoring, Elsewhere
  <2>4. Val(writes', disk', 0, m) \in Elsewhere /\ Later(writes', 0, m) \subseteq Elsewhere
    BY <1>1, <1>6, <2>2, <2>3 DEF Val
  <2>5. PICK k \in Nat : k = WaitOf(n)'
    <3>1. dispatch'[n] \in Calls
      BY <1>0 DEF Typed
    <3> QED BY <3>1, CallKinds DEF WaitOf
  <2>6. 0 \in 0..k
    OBVIOUS
  <2> QED BY <2>4, <2>5, <2>6 DEF Settled
<1>16. Pausing
  BY <1>1, <1>5 DEF Pausing, InFlight
<1> QED BY <1>9, <1>10, <1>11, <1>13, <1>14, <1>15, <1>16 DEF Onward, Singly, Pairwise, Clear

(* A restore that fails hides nothing as long as every entry was read. *)
LEMMA RestoreFailsOnce ==
    ASSUME Inv, Inv', Once, unsaved' = {}, RestoreFails
    PROVE  Onward
<1>0. Typed /\ Staged
  BY DEF Inv
<1>1. /\ restoring /\ restoring' = FALSE /\ unsaved' = unsaved \cup Saved
      /\ doubted' = doubted \cup {m \in Saved : Restored(disk[m]).delivery = "unknown"}
      /\ entries' = entries /\ order' = order /\ handoffs' = handoffs /\ dispatch' = dispatch
      /\ disk' = disk /\ writes' = writes /\ wire' = wire /\ threads' = threads
      /\ refused' = refused /\ early' = early
  BY DEF RestoreFails, storage
<1>2. Saved = {} /\ doubted' = doubted
  BY <1>1
<1>3. \A m \in Messages : disk[m] = None
  BY <1>2 DEF Saved
<1>4. ASSUME NEW m \in Messages
      PROVE  (TipAt(m) /\ SteadyAt(m) /\ AimedAt(m) /\ TellingAt(m) /\ RestingAt(m) /\ EarlyAt(m))'
  <2>1. TipAt(m) /\ SteadyAt(m) /\ AimedAt(m) /\ TellingAt(m) /\ RestingAt(m)
    BY DEF Once, Singly
  <2>2. TipAt(m)'
    BY <1>1, <1>3, <2>1 DEF TipAt, Settled, Val, Later
  <2>3. SteadyAt(m)' /\ AimedAt(m)'
    BY <1>1, <2>1 DEF SteadyAt, AimedAt, Settled, Val, Later, WaitOf, Goes, AdmittedTo, Copies, Values
  <2>4. TellingAt(m)' /\ RestingAt(m)'
    BY <1>1, <1>2, <2>1 DEF TellingAt, RestingAt, Tells, Copies, Values, Later, Launched, OnWire, Admitted, AdmittedTo, Touched
  <2>5. EarlyAt(m)'
    BY <1>1 DEF EarlyAt
  <2> QED BY <2>2, <2>3, <2>4, <2>5
<1>5. ASSUME NEW m \in Messages, NEW n \in Messages
      PROVE  UniqueAt(m, n)' /\ AloneAt(m, n)' /\ ClearAt(m, n)'
  <2>1. UniqueAt(m, n) /\ AloneAt(m, n) /\ EarlyAt(m)
    BY DEF Once, Singly, Pairwise
  <2>2. UniqueAt(m, n)' /\ AloneAt(m, n)'
    BY <1>1, <2>1 DEF UniqueAt, AloneAt, Launched, OnWire, Admitted, AdmittedTo, Touched, Unbound, Copies, Values, Later
  <2>3. ClearAt(m, n)'
    <3> SUFFICES ASSUME Touched(m)' PROVE Settled(writes', disk', m, WaitOf(n)', Elsewhere)
      BY DEF ClearAt
    <3>1. Touched(m)
      BY <1>1 DEF Touched, Launched, OnWire, Admitted, AdmittedTo, Copies, Values, Later
    <3>2. Later(writes, 0, m) = {}
      BY <1>1, <2>1, <3>1 DEF EarlyAt
    <3>3. 0 \in 0..WaitOf(n)
      BY <1>0 DEF WaitOf, Waits, Typed, Calls
    <3> QED BY <1>1, <1>3, <3>2, <3>3 DEF Settled, Val, Later, WaitOf, Elsewhere
  <2> QED BY <2>2, <2>3
<1>6. Pausing
  <2>1. \A m \in Messages : InDoubt(m)' = InDoubt(m)
    BY <1>1, <1>2 DEF InDoubt
  <2> QED BY <1>1, <2>1 DEF Pausing, Once, Calm, InFlight
<1> QED BY <1>4, <1>5, <1>6 DEF Onward, Singly, Pairwise, Clear

(* The invariant of one destination holds in the beginning ... *)
LEMMA InitOnce ==
    ASSUME Init
    PROVE  Once
<1>1. /\ \A m \in Messages : entries[m] = None /\ disk[m] = None /\ dispatch[m] = Idle
      /\ writes = <<>> /\ wire = {} /\ ~ restoring /\ \A t \in Threads : AdmittedTo(t) = {}
  BY DEF Init, AdmittedTo, Range
<1>2. ASSUME NEW m \in Messages
      PROVE  Copies(m) = {} /\ (\A t \in Threads : ~ Goes(m, t)) /\ ~ Launched(m) /\ ~ Touched(m)
  <2>1. Copies(m) = {}
    BY <1>1 DEF Copies, Values, Later
  <2> QED BY <1>1, <2>1 DEF Goes, Launched, OnWire, Admitted, Touched
<1>3. ASSUME NEW m \in Messages PROVE TipAt(m)
  <2>1. Val(writes, disk, 0, m) \in Alike(entries[m]) /\ Later(writes, 0, m) \subseteq Alike(entries[m])
    BY <1>1 DEF Val, Alike, Later
  <2>2. 0 \in 0..Len(writes)
    BY <1>1
  <2> QED BY <2>1, <2>2 DEF TipAt, Settled
<1>4. \E t : t \in Threads
  BY DEF Threads
<1>5. Singly
  BY <1>1, <1>2, <1>3, <1>4 DEF Singly, SteadyAt, AimedAt, TellingAt, RestingAt, EarlyAt
<1>6. Pairwise /\ Clear /\ Calm
  BY <1>1, <1>2 DEF Pairwise, UniqueAt, AloneAt, Clear, ClearAt, Calm, InFlight
<1> QED BY <1>5, <1>6 DEF Once

(* ... and as long as no write or read fails, a step keeps it, unless it     *)
(* overtakes a message in doubt.                                             *)
LEMMA StepOnce ==
    ASSUME Inv, Inv', Once, unsaved = {}, unsaved' = {}, Step
    PROVE  Onward
<1>1. CASE \E m \in Messages : \E p \in Threads \cup {Draft} : Send(m, p)
  BY <1>1, SendOnce
<1>2. CASE \E m \in Messages : Retry(m)
  BY <1>2, RetryOnce
<1>3. CASE \E m \in Messages : Discard(m)
  BY <1>3, DiscardOnce
<1>4. CASE \E m \in Messages : Captured(m)
  BY <1>4, CapturedOnce
<1>5. CASE \E m \in Messages : Prepared(m)
  BY <1>5, PreparedOnce
<1>6. CASE \E m \in Messages : Stored(m)
  BY <1>6, StoredOnce
<1>7. CASE \E m \in Messages : NotSent(m)
  BY <1>7, NotSentOnce
<1>8. CASE Write \/ WriteFails
  <2>1. PICK ok \in BOOLEAN : WriteEnds(ok)
    BY <1>8 DEF Write, WriteFails
  <2> QED BY <2>1, DiskOnce
<1>9. CASE \E w \in wire : Admit(w)
  BY <1>9, AdmitOnce
<1>10. CASE \E w \in wire : Vanish(w)
  BY <1>10, VanishOnce
<1>11. CASE \E w \in wire : Refused(w)
  BY <1>11, RefusedOnce
<1>12. CASE \E w \in wire : OutcomeLost(w)
  BY <1>12, OutcomeLostOnce
<1>13. CASE \E w \in wire : \E seen \in {{}, AdmittedTo(Addressed(w))} : Receipt(w, seen)
  <2>1. PICK w \in wire : \E seen \in {{}, AdmittedTo(Addressed(w))} : Receipt(w, seen)
    BY <1>13
  <2>2. PICK seen \in SUBSET AdmittedTo(Addressed(w)) : Receipt(w, seen)
    BY <2>1
  <2> QED BY <2>2, ReceiptOnce
<1>14. CASE \E t \in Threads : \E seen \in SUBSET AdmittedTo(t) : Observe(t, seen)
  BY <1>14, ObserveOnce
<1>15. CASE Reload
  BY <1>15, ReloadOnce
<1>16. CASE RestoreEnds
  BY <1>16, RestoreOnce DEF RestoreEnds
<1>17. CASE RestoreFails
  BY <1>17, RestoreFailsOnce
<1> QED BY <1>1, <1>2, <1>3, <1>4, <1>5, <1>6, <1>7, <1>8, <1>9, <1>10, <1>11, <1>12, <1>13, <1>14, <1>15, <1>16, <1>17
        DEF Step

(* A write that has been lost stays lost. *)
LEMMA UnsavedStays ==
    ASSUME Step
    PROVE  unsaved \subseteq unsaved'
<1>1. CASE \E m \in Messages : (\E p \in Threads \cup {Draft} : Send(m, p)) \/ Retry(m) \/ Discard(m)
  BY <1>1 DEF Send, Retry, Discard
<1>2. CASE \E m \in Messages : Captured(m) \/ Prepared(m) \/ Stored(m) \/ NotSent(m)
  BY <1>2 DEF Captured, Prepared, Stored, NotSent, history
<1>3. CASE Write \/ WriteFails
  BY <1>3 DEF Write, WriteFails, WriteEnds
<1>4. CASE \E w \in wire : Admit(w) \/ Vanish(w) \/ Refused(w) \/ OutcomeLost(w)
  BY <1>4 DEF Admit, Vanish, Refused, OutcomeLost, history
<1>5. CASE \E w \in wire : \E seen \in {{}, AdmittedTo(Addressed(w))} : Receipt(w, seen)
  BY <1>5 DEF Receipt
<1>6. CASE \E t \in Threads : \E seen \in SUBSET AdmittedTo(t) : Observe(t, seen)
  BY <1>6 DEF Observe, history
<1>7. CASE Reload \/ RestoreEnds \/ RestoreFails
  BY <1>7 DEF Reload, RestoreEnds, Restore, RestoreFails, history
<1> QED BY <1>1, <1>2, <1>3, <1>4, <1>5, <1>6, <1>7 DEF Step

\* what is invariant as long as nothing was overtaken and no write or read failed
Orderly == ~ overtaken /\ unsaved = {} => Once

(* A step keeps that, and an unknown outcome pauses its thread. *)
LEMMA NextOnce ==
    ASSUME Inv, Inv', Orderly, [Next]_vars
    PROVE  Orderly' /\ (~ overtaken /\ overtaken' /\ unsaved' = {} => Pausing)
<1>1. CASE Next
  <2>1. Step /\ overtaken' = (overtaken \/ Overtaking')
    BY <1>1 DEF Next
  <2>2. ~ overtaken' => ~ overtaken /\ Calm'
    BY <2>1 DEF Overtaking, Calm
  <2>3. unsaved' = {} => unsaved = {}
    BY <2>1, UnsavedStays
  <2>4. ASSUME ~ overtaken, unsaved' = {} PROVE Onward
    BY <2>1, <2>3, <2>4, StepOnce DEF Orderly
  <2>5. ~ overtaken' /\ unsaved' = {} => Once'
    BY <2>2, <2>4 DEF Onward, Once
  <2> QED BY <2>4, <2>5 DEF Orderly, Onward
<1>2. CASE UNCHANGED vars
  <2>1. UNCHANGED <<entries, order, handoffs, dispatch, restoring, disk, writes, latest, wire, threads, sent, removed, doubted,
                    refused, early, unsaved, overtaken, faults>>
    BY <1>2 DEF vars, surface, storage, history
  <2>2. Once' <=> Once
    BY <2>1 DEF Once, Singly, Pairwise, Clear, Calm, TipAt, SteadyAt, AimedAt, TellingAt, RestingAt, EarlyAt, UniqueAt, AloneAt,
           ClearAt, Settled, Val, Later, Goes, AdmittedTo, Addressed, Copies, Values, Target, WaitOf, Touched, Launched, OnWire,
           Admitted, Unbound, Tells, InFlight, InDoubt
  <2> QED BY <2>1, <2>2 DEF Orderly
<1> QED BY <1>1, <1>2

(* The invariant of one destination holds as long as no message has          *)
(* overtaken one in doubt and no write or read has failed: every copy of a   *)
(* message that was launched names the thread it was launched to, and of two *)
(* that do not know their thread one was never launched.                     *)
THEOREM OneDestination == Spec => []Orderly
<1>1. Init => Orderly
  BY InitOnce DEF Orderly
<1>2. Inv /\ Inv' /\ Orderly /\ [Next]_vars => Orderly'
  BY NextOnce
<1> QED BY <1>1, <1>2, OutboxInvariant, PTL DEF Spec

(* A message is admitted in at most one thread, however often it is retried, *)
(* restored or bound to another thread.                                      *)
THEOREM AdmittedOnce == Spec => []OnceOnly
<1>1. Inv /\ Orderly => OnceOnly
  <2> SUFFICES ASSUME Inv, Once, NEW m \in Messages
               PROVE  Cardinality({t \in Threads : m \in AdmittedTo(t)}) <= 1
    BY DEF Orderly, OnceOnly
  <2>1. PICK t \in Threads : \A u \in Threads : m \in AdmittedTo(u) => u = t
    BY DEF Once, Singly, AimedAt, Goes
  <2>2. {u \in Threads : m \in AdmittedTo(u)} \subseteq {t}
    BY <2>1
  <2>3. IsFiniteSet({t}) /\ Cardinality({t}) = 1
    BY FS_Singleton
  <2> QED BY <2>2, <2>3, FS_Subset
<1> QED BY <1>1, OutboxInvariant, OneDestination, PTL

(* The first message that is launched past one in doubt stands before it,    *)
(* was sent during the restore, or passes one that had failed: else an       *)
(* unknown outcome pauses its thread, as long as no write or read failed.    *)
THEOREM UnknownPausesItsThread == Spec => UnknownPauses
<1>1. Inv /\ Inv' /\ Orderly /\ [Next]_vars =>
        [~ overtaken /\ overtaken' /\ unsaved' = {} =>
            \A m \in Messages : InFlight(m)' =>
                \A n \in InDoubt(m)' : Before(order', m, n) \/ n \in refused' \/ m \in early']_vars
  BY NextOnce DEF Pausing
<1> QED BY <1>1, OutboxInvariant, OneDestination, PTL DEF Spec, UnknownPauses
=============================================================================
