------------------------------ MODULE FlowerOutbox ------------------------------
(***************************************************************************)
(* Delivery of the user's messages from a Flower surface to the runtime    *)
(* (internal/flower_ui/src/transportOutbox.ts and the dispatcher, send and *)
(* recovery actions of FlowerSurface.tsx).                                 *)
(*                                                                         *)
(* A message is put into the outbox, prepared, made durable and launched;  *)
(* the receipt or a current view of its thread confirms it.  A step is one *)
(* callback of the event loop with the effects it triggers: the dispatcher *)
(* runs at the end of every step.  Ordinary messages of one surface,       *)
(* without attachments; goals, compactions, desktop repairs, the deletion  *)
(* of a thread and the expiry of entries after a day are left out.         *)
(***************************************************************************)
EXTENDS Naturals, Sequences, Functions, FiniteSets, TLC

CONSTANTS
    Messages,     \* request identities
    Home,         \* a thread that exists from the start
    Draft,        \* key of the new chat (PENDING_NEW_THREAD_ID)
    None,
    MaxFaults     \* bound: failures of the disk, the network, the server, and reloads

VARIABLES
    entries,      \* TransportOutbox.entries, None for a message that has none
    order,        \* their order in the Map: the pairs of which the first stands before the second
    handoffs,     \* pendingAdmissionHandoffs
    dispatch,     \* outboxResendInFlight: where the dispatch of each message stands
    restoring,    \* restoreTransportOutbox has not answered yet
    disk,         \* the object store of IndexedDB
    writes,       \* persistenceTail: the writes that wait for it
    latest,       \* tracker.latest has succeeded, if no write waits
    wire,         \* launch requests that were handed to the network
    threads,      \* external: what each thread of the server has admitted, in order
    sent,         \* history: messages in the order of sending, and the places they were sent to
    removed,      \* history: taken back into the composer or deleted by the user
    doubted,      \* history: messages that had an outcome nobody knows
    refused,      \* history: messages that were recorded as failed, for sure
    overtaken,    \* history: a message was launched although the outcome of another of its thread was in doubt
    early,        \* history: messages sent while the outbox was being restored
    unsaved,      \* history: messages whose last write, or the read after a reload, has failed
    faults

base == <<entries, dispatch, restoring, disk, writes, wire, threads>>
surface == <<entries, order, handoffs, dispatch, restoring>>
storage == <<disk, writes, latest>>
history == <<sent, removed, doubted, refused, early, unsaved>>
vars == <<surface, storage, wire, threads, history, overtaken, faults>>

\* The thread that the launch of m without a thread creates is named m.
Threads == {Home} \cup Messages

Entry ==
    [place : Threads \cup {Draft}, thread : Threads \cup {None}, preparing : BOOLEAN,
     delivery : {"pending", "accepted", "failed", "unknown"}, stranded : BOOLEAN]

ASSUME OutboxConstants ==
    /\ Home \notin Messages /\ Draft \notin Threads /\ None \notin Threads \cup {Draft}
    /\ None \notin Entry
    /\ MaxFaults \in Nat

\* thread: input.thread_id; stranded: terminalError
NewEntry(p) ==
    [place |-> p, thread |-> IF p = Draft THEN None ELSE p,
     preparing |-> TRUE, delivery |-> "pending", stranded |-> FALSE]

Idle == [step |-> "idle"]
InFlight(m) == dispatch[m] # Idle
Retained == {m \in Messages : entries[m] # None}
AdmittedTo(t) == Range(threads[t])
Exists(t) == t = Home \/ threads[t] # <<>>

-----------------------------------------------------------------------------
(* The outbox: an outbox is a function from messages to entries, with an order. *)

(* persist: what changed is one write, queued behind the others. *)
Persist(queue, before, after) ==
    LET changed == {m \in Messages : before[m] # after[m]}
    IN IF changed = {} THEN queue ELSE Append(queue, [m \in changed |-> after[m]])

MutBound(box, m, t) ==
    IF box[m] = None \/ box[m].thread \notin {None, t} THEN box
    ELSE [box EXCEPT ![m].thread = t]

(* bindAcceptedThread: with a message of a draft go those that wait in it. *)
Bound(box, m, t) ==
    IF box[m] = None \/ box[m].thread \notin {None, t} THEN box
    ELSE [n \in Messages |->
            IF n = m \/ (/\ box[n] # None /\ box[m].thread = None
                         /\ box[n].place = box[m].place /\ box[n].thread = None)
            THEN [box[n] EXCEPT !.place = t, !.thread = t]
            ELSE box[n]]

(* matchingEntries with canConfirmOutboxEntry: seen are messages in a view of t. *)
Matching(box, hand, t, seen) ==
    {m \in seen : /\ box[m] # None
                  /\ box[m].thread \in {None, t}
                  /\ box[m].place # Draft \/ m \in hand}

(* reconcileRuntimeObservation, binding one message that needs it (the others *)
(* of its draft are bound with it), then dropping what the view confirms.     *)
Reconciled(box, hand, t, seen) ==
    LET unbound == {m \in Matching(box, hand, t, seen) : box[m].thread = None}
        bound == IF unbound = {} THEN box ELSE Bound(box, CHOOSE m \in unbound : TRUE, t)
        matched == Matching(bound, hand, t, seen)
    IN [after |-> [m \in Messages |-> IF m \in matched THEN None ELSE bound[m]],
        bound |-> bound, matched |-> matched]

Flushing(step, t, queue, ok) ==
    [step |-> step, thread |-> t, wait |-> Len(queue), ok |-> queue # <<>> \/ ok]

(* The parts of the dispatcher, of which the mutants below change one each. *)
Dispatched(box, kept, hand, calls, queue, heads, starts) ==
    /\ entries' = box
    /\ order' = kept
    /\ handoffs' = {m \in hand : box[m] # None} \cup {m \in heads : box[m].place = Draft}
    /\ dispatch' = [m \in Messages |->
                     IF box[m] = None THEN Idle
                     ELSE IF m \in starts THEN Flushing("capture", None, queue, latest)
                     ELSE calls[m]]
    /\ writes' = queue
    /\ latest' = (queue # <<>> \/ latest)

Kept(box, ord) == {p \in ord : box[p[1]] # None /\ box[p[2]] # None}

Before(ord, n, m) == <<n, m>> \in ord

(* The first of each thread among the entries whose delivery is one of these *)
Heads(box, ord, deliveries) ==
    LET open == {m \in Messages : box[m] # None /\ box[m].delivery \in deliveries}
    IN {m \in open : \A n \in open : Before(ord, n, m) => box[n].place # box[m].place}

Active(box, calls) == {box[m].place : m \in {n \in Messages : box[n] # None /\ calls[n] # Idle}}

Pending(box, ms) == {m \in ms : box[m].delivery = "pending"}

(* Every entry that waits is dispatched at once. *)
MutDispatchAll(box, ord, hand, calls, queue) ==
    LET open == Pending(box, {m \in Messages : box[m] # None})
    IN Dispatched(box, Kept(box, ord), hand, calls, queue, open, {m \in open : calls[m] = Idle})

(* An unknown outcome does not pause its thread. *)
MutDispatchPastUnknown(box, ord, hand, calls, queue) ==
    LET heads == Heads(box, ord, {"pending"})
    IN Dispatched(box, Kept(box, ord), hand, calls, queue, heads,
                  {m \in heads : box[m].place \notin Active(box, calls)})

(* The thread of a dispatch in flight is not reserved. *)
MutDispatchTwice(box, ord, hand, calls, queue) ==
    LET heads == Heads(box, ord, {"pending", "unknown"})
    IN Dispatched(box, Kept(box, ord), hand, calls, queue, heads,
                  {m \in Pending(box, heads) : calls[m] = Idle})

(* The dispatcher effect, at the end of every step: one message of a thread *)
(* at a time, in the order of the Map; an unknown outcome pauses its thread. *)
Dispatcher(box, ord, hand, calls, queue) ==
    LET heads == Heads(box, ord, {"pending", "unknown"})
    IN Dispatched(box, Kept(box, ord), hand, calls, queue, heads,
                  {m \in Pending(box, heads) : box[m].place \notin Active(box, calls)})

(* The dispatch in flight is not forgotten. *)
MutPut(m, e) ==
    LET box == [entries EXCEPT ![m] = e]
    IN Dispatcher(box, order, handoffs, dispatch, Persist(writes, entries, box))

(* put of one entry by a step that ends the dispatch of m, if there is one *)
PutWith(hand, m, e) ==
    LET box == [entries EXCEPT ![m] = e]
    IN Dispatcher(box, order, hand, [dispatch EXCEPT ![m] = Idle], Persist(writes, entries, box))

Put(m, e) == PutWith(handoffs, m, e)

Fault == faults < MaxFaults /\ faults' = faults + 1

-----------------------------------------------------------------------------
(* The user. *)

(* createFlowerTurnRequestID: which one is of no importance. *)
Unsent == {m \in Messages : \A i \in DOMAIN sent : sent[i].m # m}
Fresh == CHOOSE m \in Unsent : TRUE

(* launchChatTurn: captured into the outbox before anything asynchronous.   *)
Send(m, p) ==
    /\ m \in Unsent /\ m = Fresh
    /\ p = Draft \/ (p \in Threads /\ Exists(p))
    /\ LET box == [entries EXCEPT ![m] = NewEntry(p)]
       IN Dispatcher(box, order \cup (Retained \X {m}), handoffs \cup {m}, dispatch, Persist(writes, entries, box))
    /\ sent' = Append(sent, [m |-> m, to |-> p])
    /\ early' = IF restoring THEN early \cup {m} ELSE early
    /\ UNCHANGED <<restoring, disk, wire, threads, removed, doubted, refused, unsaved, faults>>

(* retryOutboxEntry: the same identity is used again. *)
Retry(m) ==
    /\ entries[m] # None /\ entries[m].delivery \in {"failed", "unknown"}
    /\ ~ entries[m].stranded /\ ~ InFlight(m)
    /\ Put(m, [entries[m] EXCEPT !.delivery = "pending"])
    /\ removed' = removed \ {m}
    /\ UNCHANGED <<restoring, disk, wire, threads, sent, doubted, refused, early, unsaved, faults>>

(* discardUnsentOutboxEntry, alone or after restoreUnsentOutboxEntry has put *)
(* the text back into the composer for a fresh identity.                     *)
Discard(m) ==
    /\ entries[m] # None /\ entries[m].delivery \notin {"unknown", "accepted"}
    /\ ~ InFlight(m)
    /\ LET box == [entries EXCEPT ![m] = None]
       IN Dispatcher(box, order, handoffs \ {m}, dispatch, Persist(writes, entries, box))
    /\ removed' = removed \cup {m}
    /\ UNCHANGED <<restoring, disk, wire, threads, sent, doubted, refused, early, unsaved, faults>>

-----------------------------------------------------------------------------
(* The dispatch of one message. *)

(* What the catch of the dispatch records. *)
Failed(m) ==
    /\ Put(m, [entries[m] EXCEPT !.delivery = "failed"])
    /\ refused' = refused \cup {m}
    /\ UNCHANGED doubted

(* AI_STORAGE_RESTORED: failed, and not to be tried again. *)
FailedForGood(m) ==
    /\ PutWith(handoffs \ {m}, m, [entries[m] EXCEPT !.delivery = "failed", !.stranded = TRUE])
    /\ refused' = refused \cup {m}
    /\ UNCHANGED doubted

Unknown(m) ==
    /\ Put(m, [entries[m] EXCEPT !.delivery = "unknown"])
    /\ doubted' = doubted \cup {m}
    /\ refused' = refused \ {m}

Flushed(m, step) == dispatch[m] # Idle /\ dispatch[m].step = step /\ dispatch[m].wait = 0

Launch(m, t) ==
    /\ wire' = wire \cup {[m |-> m, thread |-> t, awaited |-> TRUE, taken |-> FALSE]}
    /\ dispatch' = [dispatch EXCEPT ![m] = [step |-> "request"]]

(* The first flush has succeeded. *)
Captured(m) ==
    /\ Flushed(m, "capture") /\ dispatch[m].ok
    /\ IF entries[m].preparing
       THEN dispatch' = [dispatch EXCEPT ![m] = [step |-> "prepare"]] /\ UNCHANGED wire
       ELSE Launch(m, entries[m].thread)
    /\ UNCHANGED <<entries, order, handoffs, restoring, storage, threads, sent, removed, doubted, refused, early, unsaved, faults>>

(* The result is launched without being made durable. *)
MutPrepared(m) ==
    /\ dispatch[m].step = "prepare"
    /\ LET box == [entries EXCEPT ![m].preparing = FALSE]
       IN Dispatcher(box, order, handoffs,
                     [dispatch EXCEPT ![m] = [step |-> "store", thread |-> entries[m].thread, wait |-> 0, ok |-> TRUE]],
                     Persist(writes, entries, box))
    /\ UNCHANGED <<restoring, disk, wire, threads, history, faults>>

(* operation.prepare has succeeded: its result is put and made durable. *)
Prepared(m) ==
    /\ dispatch[m].step = "prepare"
    /\ LET box == [entries EXCEPT ![m].preparing = FALSE]
           queue == Persist(writes, entries, box)
       IN Dispatcher(box, order, handoffs,
                     [dispatch EXCEPT ![m] = Flushing("store", entries[m].thread, queue, latest)], queue)
    /\ UNCHANGED <<restoring, disk, wire, threads, history, faults>>

Stored(m) ==
    /\ Flushed(m, "store") /\ dispatch[m].ok
    /\ Launch(m, dispatch[m].thread)
    /\ UNCHANGED <<entries, order, handoffs, restoring, storage, threads, sent, removed, doubted, refused, early, unsaved, faults>>

(* A flush or the preparation has failed. *)
NotSent(m) ==
    /\ \/ /\ \E step \in {"capture", "store"} : Flushed(m, step) /\ ~ dispatch[m].ok
          /\ UNCHANGED faults
       \/ dispatch[m].step = "prepare" /\ Fault
    /\ Failed(m)
    /\ UNCHANGED <<restoring, disk, wire, threads, sent, removed, early, unsaved>>

-----------------------------------------------------------------------------
(* IndexedDB: one write after the other.  The read of restoreTransportOutbox *)
(* was asked for first, and a write waits for it.                            *)

WriteEnds(ok) ==
    /\ writes # <<>> /\ ~ restoring
    /\ disk' = [m \in Messages |-> IF ok /\ m \in DOMAIN Head(writes) THEN Head(writes)[m] ELSE disk[m]]
    /\ writes' = Tail(writes)
    /\ latest' = (ok \/ Tail(writes) # <<>>)
    /\ dispatch' = [m \in Messages |->
                     IF dispatch[m].step \in {"capture", "store"} /\ dispatch[m].wait > 0
                     THEN [dispatch[m] EXCEPT !.wait = @ - 1, !.ok = ok \/ dispatch[m].wait > 1]
                     ELSE dispatch[m]]
    /\ unsaved' = IF ok THEN unsaved ELSE unsaved \cup DOMAIN Head(writes)
    /\ UNCHANGED <<entries, order, handoffs, restoring, wire, threads, sent, removed, doubted, refused, early>>

Write == WriteEnds(TRUE) /\ UNCHANGED faults

WriteFails == WriteEnds(FALSE) /\ Fault

-----------------------------------------------------------------------------
(* The server and the network.  Admission is idempotent in a thread by the  *)
(* request identity, and so is the creation of a thread.                    *)

Addressed(w) == IF w.thread = None THEN w.m ELSE w.thread

Admit(w) ==
    /\ w \in wire /\ ~ w.taken
    /\ threads' = [threads EXCEPT ![Addressed(w)] = IF w.m \in Range(@) THEN @ ELSE Append(@, w.m)]
    /\ wire' = (wire \ {w}) \cup (IF w.awaited THEN {[w EXCEPT !.taken = TRUE]} ELSE {})
    /\ UNCHANGED <<surface, storage, history, faults>>

(* A request whose answer nobody awaits is lost. *)
Vanish(w) ==
    /\ w \in wire /\ ~ w.awaited
    /\ wire' = wire \ {w}
    /\ UNCHANGED <<surface, storage, threads, history, faults>>

(* What becomes of the requests of those whose answers are not awaited any more *)
Abandoned(ms) ==
    {IF w.m \in ms THEN [w EXCEPT !.awaited = FALSE] ELSE w : w \in {x \in wire : ~ (x.m \in ms /\ x.taken)}}

-----------------------------------------------------------------------------
(* What the surface hears. *)

(* applyAcceptedTurnLaunchReceipt: the receipt carries a current view, or is *)
(* used without one (seen = {}).                                             *)
Receipt(w, seen) ==
    /\ w \in wire /\ w.awaited /\ w.taken
    /\ \E r \in {Reconciled(entries, handoffs, Addressed(w), seen)} :
       LET m == w.m
           t == Addressed(w)
           queue == Persist(Persist(writes, entries, r.bound), r.bound, r.after)
           mismatch == r.after[m] # None /\ r.after[m].thread \notin {None, t}
           bound == Bound(r.after, m, t)
           box == CASE r.after[m] = None -> r.after
                    [] mismatch -> [r.after EXCEPT ![m].delivery = "unknown"]
                    [] OTHER -> [bound EXCEPT ![m].delivery = "accepted"]
       IN /\ Dispatcher(box, order, IF mismatch THEN handoffs ELSE handoffs \ {m},
                        [dispatch EXCEPT ![m] = Idle],
                        IF r.after[m] = None \/ mismatch
                        THEN Persist(queue, r.after, box)
                        ELSE Persist(Persist(queue, r.after, bound), bound, box))
          /\ doubted' = IF mismatch THEN doubted \cup {m} ELSE doubted
          /\ wire' = {x \in Abandoned(r.matched) : x.m # m \/ ~ x.awaited}
    /\ UNCHANGED <<restoring, disk, threads, sent, removed, refused, early, unsaved, faults>>

(* 4xx, or the server's storage was restored: this request has not been     *)
(* admitted.                                                                 *)
Refused(w) ==
    /\ w \in wire /\ w.awaited /\ ~ w.taken
    /\ wire' = wire \ {w}
    /\ (Failed(w.m) \/ FailedForGood(w.m)) /\ Fault
    /\ UNCHANGED <<restoring, disk, threads, sent, removed, early, unsaved>>

(* No answer is taken for a refusal. *)
MutOutcomeLost(w) ==
    /\ w \in wire /\ w.awaited
    /\ wire' = Abandoned({w.m})
    /\ Failed(w.m) /\ Fault
    /\ UNCHANGED <<restoring, disk, threads, sent, removed, early, unsaved>>

(* 5xx, an unusable answer, or no answer. *)
OutcomeLost(w) ==
    /\ w \in wire /\ w.awaited
    /\ wire' = Abandoned({w.m})
    /\ Unknown(w.m) /\ Fault
    /\ UNCHANGED <<restoring, disk, threads, sent, removed, early, unsaved>>

(* A live update or a loaded view of t, with some of its messages. *)
Observe(t, seen) ==
    /\ Matching(entries, handoffs, t, seen) # {}
    /\ LET r == Reconciled(entries, handoffs, t, seen)
       IN /\ Dispatcher(r.after, order, handoffs, dispatch,
                        Persist(Persist(writes, entries, r.bound), r.bound, r.after))
          /\ wire' = Abandoned(r.matched)
    /\ UNCHANGED <<restoring, disk, threads, history, faults>>

-----------------------------------------------------------------------------
(* The page goes away and is opened again. *)

Reload ==
    /\ Fault
    /\ entries' = [m \in Messages |-> None] /\ order' = {} /\ handoffs' = {}
    /\ dispatch' = [m \in Messages |-> Idle]
    /\ restoring' = TRUE
    /\ writes' = <<>> /\ latest' = TRUE
    /\ wire' = Abandoned(Messages)
    /\ UNCHANGED <<disk, threads, history>>

(* restoreTransportOutbox *)
Restored(e) ==
    IF e.preparing THEN [e EXCEPT !.delivery = "failed", !.stranded = TRUE]
    ELSE IF e.delivery = "pending" THEN [e EXCEPT !.delivery = "unknown"] ELSE e

Saved == {m \in Messages : disk[m] # None}

Orders(ms) ==
    {r \in SUBSET (ms \X ms) :
        /\ \A m \in ms : ~ Before(r, m, m)
        /\ \A m, n \in ms : m = n \/ Before(r, m, n) \/ Before(r, n, m)
        /\ \A m, n, o \in ms : Before(r, m, n) /\ Before(r, n, o) => Before(r, m, o)}

Listings(ms, ord) ==
    {s \in [1..Cardinality(ms) -> ms] : \A i, j \in DOMAIN s : i < j => Before(ord, s[i], s[j])}

(* What was saved, in the order of the request identities, then what was    *)
(* sent meanwhile; each of these is put again.                              *)
Restore(ord, again) ==
    /\ restoring /\ restoring' = FALSE
    /\ LET found == [m \in Messages |-> IF disk[m] = None THEN None ELSE Restored(disk[m])]
           box == [m \in Messages |-> IF entries[m] = None THEN found[m] ELSE entries[m]]
           later == Retained \ Saved
       IN /\ Dispatcher(box, ord \cup (order \cap (later \X later)) \cup (Saved \X later), handoffs, dispatch,
                        writes \o [i \in DOMAIN again |-> [m \in {again[i]} |-> entries[m]]])
          /\ doubted' = doubted \cup {m \in Messages : box[m] # None /\ box[m].delivery = "unknown"}
    /\ UNCHANGED <<disk, wire, threads, sent, removed, refused, early, unsaved, faults>>

(* The read fails: what was saved stays hidden until the next reload. *)
RestoreFails ==
    /\ restoring /\ restoring' = FALSE /\ Fault
    /\ doubted' = doubted \cup {m \in Saved : Restored(disk[m]).delivery = "unknown"}
    /\ unsaved' = unsaved \cup Saved
    /\ UNCHANGED <<entries, order, handoffs, dispatch, storage, wire, threads, sent, removed, refused, early>>

RestoreEnds == \E ord \in Orders(Saved) : \E again \in Listings(Retained, order) : Restore(ord, again)

-----------------------------------------------------------------------------
Init ==
    /\ entries = [m \in Messages |-> None] /\ order = {} /\ handoffs = {}
    /\ dispatch = [m \in Messages |-> Idle]
    /\ restoring = FALSE
    /\ disk = [m \in Messages |-> None] /\ writes = <<>> /\ latest = TRUE
    /\ wire = {}
    /\ threads = [t \in Threads |-> <<>>]
    /\ sent = <<>> /\ removed = {} /\ doubted = {} /\ refused = {}
    /\ overtaken = FALSE /\ early = {} /\ unsaved = {}
    /\ faults = 0

(* Messages of the same thread that may have been admitted for all the surface knows *)
InDoubt(m) ==
    {n \in doubted \ {m} : /\ entries[n] # None /\ entries[n].delivery # "accepted"
                           /\ entries[n].place = entries[m].place}

Overtaking == \E m \in Messages : InFlight(m) /\ InDoubt(m) # {}

Step ==
    \/ \E m \in Messages :
        \/ \E p \in Threads \cup {Draft} : Send(m, p)
        \/ Retry(m) \/ Discard(m)
        \/ Captured(m) \/ Prepared(m) \/ Stored(m) \/ NotSent(m)
    \/ Write \/ WriteFails
    \/ \E w \in wire :
        \/ Admit(w) \/ Vanish(w) \/ Refused(w) \/ OutcomeLost(w)
        \/ \E seen \in {{}, AdmittedTo(Addressed(w))} : Receipt(w, seen)
    \/ \E t \in Threads : \E seen \in SUBSET AdmittedTo(t) : Observe(t, seen)
    \/ Reload
    \/ RestoreEnds \/ RestoreFails

Next == Step /\ overtaken' = (overtaken \/ Overtaking')

Spec == Init /\ [][Next]_vars

Fairness ==
    /\ WF_base(Write)
    /\ WF_base(RestoreEnds)
    /\ \A m \in Messages : WF_base(Captured(m) \/ Prepared(m) \/ Stored(m) \/ NotSent(m))
    /\ WF_base(\E w \in wire : w.awaited /\ Admit(w))
    /\ WF_base(\E w \in wire : \E seen \in {{}, AdmittedTo(Addressed(w))} : Receipt(w, seen))

LiveSpec == Spec /\ Fairness
-----------------------------------------------------------------------------
(* Types, and how the parts of the surface fit: the order is one of exactly  *)
(* what is retained, a draft's message has no thread, handoffs and dispatches are  *)
(* of retained entries, and what is in flight is pending.                     *)
TypeOK ==
    /\ entries \in [Messages -> Entry \cup {None}]
    /\ \A m \in Messages : entries[m] # None => (entries[m].thread = None <=> entries[m].place = Draft)
    /\ order \in Orders(Retained)
    /\ handoffs \subseteq Retained
    /\ \A m \in Messages : InFlight(m) => entries[m] # None /\ entries[m].delivery = "pending"
    /\ disk \in [Messages -> Entry \cup {None}]
    /\ faults \in 0..MaxFaults

Admitted(m) == \E t \in Threads : m \in AdmittedTo(t)

(* Messages of one conversation arrive in the order of sending ("One ordered *)
(* transport owner per thread", FlowerSurface.tsx:5443): a thread admits a   *)
(* message after a later one of the same place only when the earlier one had *)
(* failed, or its outcome was unknown for a while.                           *)
SentBefore(m, n) ==
    \E i, j \in DOMAIN sent : i < j /\ sent[i].m = m /\ sent[j].m = n /\ sent[i].to = sent[j].to

OrderKept ==
    \A t \in Threads : \A i, j \in DOMAIN threads[t] :
        i < j /\ SentBefore(threads[t][j], threads[t][i]) => threads[t][j] \in refused \cup doubted

(* What the user takes back, to send it again under a fresh identity or not  *)
(* at all, has not been admitted and never will be (flower-turn-launcher.md: *)
(* an unknown outcome keeps its identity).  Left out are the messages that   *)
(* were in doubt before they failed, whose doubt the failure overwrites, and *)
(* those that came back after a reload because a write or a read had failed. *)
FreshIdentitySafe == \A m \in removed : Admitted(m) => m \in doubted \cup unsaved

(* The first message that is launched past an unknown outcome of its thread  *)
(* stands before it, was sent while the outbox was being restored, or passes *)
(* one that had failed before: else an unknown outcome pauses its thread, as *)
(* long as every write was saved and every read after a reload succeeded.    *)
UnknownPauses ==
    [][~ overtaken /\ overtaken' /\ unsaved' = {} =>
        \A m \in Messages : InFlight(m)' =>
            \A n \in InDoubt(m)' : Before(order', m, n) \/ n \in refused' \/ m \in early']_vars

(* A message is admitted in at most one thread, however often it is retried, *)
(* restored or bound to another thread, as long as no message has overtaken  *)
(* one in doubt, every write was saved and every read succeeded.             *)
OnceOnly ==
    ~ overtaken /\ unsaved = {} =>
        \A m \in Messages : Cardinality({t \in Threads : m \in AdmittedTo(t)}) <= 1

(* A launch whose answer is awaited is on the disk, with its final input:    *)
(* after a reload it comes back as unknown, under the same identity.         *)
SentIsRemembered ==
    \A w \in wire : w.awaited /\ w.m \notin unsaved => disk[w.m] # None /\ ~ disk[w.m].preparing

(* A message that waits is confirmed, fails, becomes unknown or is taken     *)
(* back, or waits behind one of its thread whose outcome is unknown.         *)
PendingSettles ==
    \A m \in Messages :
        []<>(\/ entries[m] = None \/ entries[m].delivery # "pending"
             \/ \E n \in Messages : /\ entries[n] # None /\ entries[n].delivery = "unknown"
                                    /\ entries[n].place = entries[m].place)
=============================================================================
