------------------------------ MODULE SSHTransport ------------------------------
(***************************************************************************)
(* Desktop's shared SSH connections                                        *)
(* (desktop/src/main/sshTransportManager.ts, macOS and Linux).             *)
(*                                                                         *)
(* Callers acquire leases on an entry, one ControlMaster process per entry *)
(* serves them.  The manager keeps at most one entry per destination and   *)
(* credential scope; this module is one such key.  Entries are connected   *)
(* on demand, reconnected when their master is gone, closed by the idle    *)
(* timer, by a caller with other credentials, by the last waiter that      *)
(* fails and by dispose.                                                   *)
(*                                                                         *)
(* A step is one callback of the event loop with the promise reactions     *)
(* that follow it: all who wait for a connection go on, or fail, in the    *)
(* step that settles it.  The commands of a lease are left out.            *)
(*                                                                         *)
(* A master that was started while its entry was being closed is assumed   *)
(* not to authenticate before the entry's directory has been removed: from *)
(* then on its control socket cannot appear.                               *)
(***************************************************************************)
EXTENDS Naturals, FiniteSets

CONSTANTS
    Callers,
    PasswordOf,    \* the password each of them gives
    Omitted,       \* none given: that of the entry will do
    Empty,         \* password of an entry nobody gave one for, and of a closed one
    MaxEntries,    \* connection objects, used again when nothing refers to them
    MaxGeneration  \* a connection starts only from a generation below this

ASSUME SSHConstants ==
    /\ IsFiniteSet(Callers)
    /\ MaxEntries \in Nat \ {0} /\ MaxGeneration \in Nat

VARIABLES
    entries,   \* the entry of the key, or None
    pending,   \* the entry being created (entryTasks), or None
    entry,     \* the connection objects
    process,   \* ssh master processes, by entry and the generation that started them
    caller,    \* callers and their leases
    disposed   \* "no", "disposing", "yes"

vars == <<entries, pending, entry, process, caller, disposed>>

Generations == 1..(MaxGeneration + 1)
Passwords == {PasswordOf[c] : c \in Callers} \cup {Empty}
Entries == 1..MaxEntries
None == 0

\* master: generation of the current process, 0 for none; task: generation of
\* the process the connect task waits for, 0 before it has started one; killed:
\* the process closeEntry waits for; stray: idle timers that were overwritten
NewEntry ==
    [phase |-> "creating", password |-> Empty, generation |-> 0, master |-> 0,
     connect |-> "none", task |-> 0, leases |-> 0, idle |-> FALSE, stray |-> FALSE, killed |-> 0]

NoEntry == [NewEntry EXCEPT !.phase = "closed"]

\* own: history, the process a lease was given on
NoCaller == [pc |-> "idle", entry |-> None, recheck |-> FALSE, generation |-> 0, own |-> 0]

TypeOK ==
    /\ entries \in Entries \cup {None}
    /\ pending \in Entries \cup {None}
    /\ entry \in [Entries ->
         [phase : {"creating", "open", "closing", "closed"},
          password : Passwords, generation : 0..(MaxGeneration + 2),
          master : {0} \cup Generations, connect : {"none", "preparing", "checking"},
          task : {0} \cup Generations, leases : 0..Cardinality(Callers),
          idle : BOOLEAN, stray : BOOLEAN, killed : {0} \cup Generations]]
    /\ process \in [Entries -> [Generations -> {"none", "starting", "left", "up", "ending", "exited"}]]
    /\ caller \in [Callers ->
         [pc : {"idle", "creating", "created", "replacing", "waiting", "leased"},
          entry : Entries \cup {None}, recheck : BOOLEAN,
          generation : 0..(MaxGeneration + 2), own : {0} \cup Generations]]
    /\ disposed \in {"no", "disposing", "yes"}
    /\ entries # None => entry[entries].phase \in {"open", "closing"}
    /\ pending # None => entry[pending].phase = "creating"

Init ==
    /\ entries = None
    /\ pending = None
    /\ entry = [e \in Entries |-> NoEntry]
    /\ process = [e \in Entries |-> [g \in Generations |-> "none"]]
    /\ caller = [c \in Callers |-> NoCaller]
    /\ disposed = "no"

-----------------------------------------------------------------------------
(* Processes and entries.                                                  *)

\* exitCode and signalCode are still null; a signal that was sent changes neither.
Running(e) == {g \in Generations : process[e][g] # "none"}
processAlive(e, g) == g # 0 /\ process[e][g] \in {"starting", "left", "up", "ending"}
transportAlive(e) == entry[e].phase = "open" /\ processAlive(e, entry[e].master)

At(pc, e) == {c \in Callers : caller[c].pc = pc /\ caller[c].entry = e}
Waiters(e) == At("waiting", e)

\* Those who waited for the entry to be created go on before any other callback.
Settled(e) == At("created", e) = {}

Fresh(e) ==
    /\ entry[e].phase = "closed"
    /\ entry[e].connect = "none"
    /\ Running(e) = {}
    /\ \A c \in Callers : caller[c].entry # e

\* closeEntry up to its first await
Closed(e) ==
    [entry[e] EXCEPT !.phase = "closing", !.password = Empty, !.idle = FALSE, !.stray = FALSE,
                     !.master = 0,
                     !.killed = IF processAlive(e, entry[e].master) THEN entry[e].master ELSE 0]

MutKilled(e, g) == process
\* The process is told to end.
Killed(e, g) == IF processAlive(e, g) THEN [process EXCEPT ![e][g] = "ending"] ELSE process

\* closeEntry(force) of the open entries of a set
Close(set) ==
    LET closing == {e \in set : entry[e].phase = "open"} IN
    /\ entry' = [e \in Entries |-> IF e \in closing THEN Closed(e) ELSE entry[e]]
    /\ process' = [e \in Entries |-> IF e \in closing THEN Killed(e, entry[e].master)[e] ELSE process[e]]

-----------------------------------------------------------------------------
(* acquire                                                                 *)

Becomes(c, pc, e) == caller' = [caller EXCEPT ![c] = [NoCaller EXCEPT !.pc = pc, !.entry = e]]
Fails(c) == caller' = [caller EXCEPT ![c] = NoCaller]

\* acquire from its check of the idle timer on: ensureConnected, and connect up
\* to its first await.
Join(c, e) ==
    /\ UNCHANGED <<entries, pending>>
    /\ \/ /\ transportAlive(e)
          /\ entry' = [entry EXCEPT ![e].idle = FALSE, ![e].leases = @ + 1]
          /\ caller' = [caller EXCEPT ![c] =
               [pc |-> "leased", entry |-> e, recheck |-> FALSE,
                generation |-> entry[e].generation, own |-> entry[e].master]]
          /\ UNCHANGED process
       \/ /\ ~transportAlive(e) /\ entry[e].connect # "none"
          /\ entry' = [entry EXCEPT ![e].idle = FALSE]
          /\ Becomes(c, "waiting", e)
          /\ UNCHANGED process
       \/ /\ entry[e].phase = "open" /\ ~transportAlive(e) /\ entry[e].connect = "none"
          /\ disposed = "no" /\ entry[e].generation < MaxGeneration
          /\ entry' = [entry EXCEPT ![e].idle = FALSE, ![e].connect = "preparing", ![e].task = 0]
          /\ Becomes(c, "waiting", e)
          /\ UNCHANGED process
       \/ /\ ~transportAlive(e) /\ entry[e].connect = "none"
          /\ entry[e].phase # "open" \/ disposed # "no"
          /\ IF entry[e].leases = 0 THEN Close({e}) ELSE UNCHANGED <<entry, process>>
          /\ Fails(c)

\* The entry of the key has other credentials: it is replaced, unless it is
\* leased.  One that is already closing is found in the map again.
Replace(c, e) ==
    /\ UNCHANGED <<entries, pending>>
    /\ IF entry[e].leases > 0
       THEN Fails(c) /\ UNCHANGED <<entry, process>>
       ELSE /\ entry[e].phase = "open"
            /\ Close({e})
            /\ Becomes(c, "replacing", e)

MutEnter(c, e) == Join(c, e)
Enter(c, e) ==
    IF \/ PasswordOf[c] \in {Omitted, entry[e].password}
       \/ entry[e].phase # "open" /\ entry[e].leases = 0
    THEN Join(c, e)
    ELSE Replace(c, e)

\* The objects are alike: any that is free is taken.
StartEntry(c, objects) ==
    LET free == {e \in Entries : Fresh(e)}
        new == CHOOSE e \in free : TRUE
        password == IF PasswordOf[c] = Omitted THEN Empty ELSE PasswordOf[c]
    IN /\ free # {}
       /\ pending' = new
       /\ entry' = [objects EXCEPT ![new] = [NewEntry EXCEPT !.password = password]]

Creating(c, e, recheck) ==
    caller' = [caller EXCEPT ![c] = [NoCaller EXCEPT !.pc = "creating", !.entry = e, !.recheck = recheck]]

Acquire(c) ==
    /\ caller[c].pc = "idle" /\ disposed = "no" /\ Settled(entries)
    /\ \/ /\ entries # None
          /\ Enter(c, entries)
       \/ /\ entries = None /\ pending # None
          /\ Creating(c, pending, TRUE)
          /\ UNCHANGED <<entries, pending, entry, process>>
       \/ /\ entries = None /\ pending = None
          /\ StartEntry(c, entry) /\ Creating(c, pending', TRUE)
          /\ UNCHANGED <<entries, process>>
    /\ UNCHANGED disposed

\* The task of getOrCreateEntry ends: an entry that comes too late is closed.
Created(e) ==
    /\ pending = e
    /\ pending' = None
    /\ \/ /\ disposed = "no"
          /\ entries' = e
          /\ entry' = [entry EXCEPT ![e].phase = "open"]
          /\ caller' = [c \in Callers |-> IF c \in At("creating", e)
                                          THEN [caller[c] EXCEPT !.pc = "created"] ELSE caller[c]]
       \/ \* ... or fails
          /\ entry' = [entry EXCEPT ![e].phase = "closed"]
          /\ caller' = [c \in Callers |-> IF c \in At("creating", e) THEN NoCaller ELSE caller[c]]
          /\ UNCHANGED entries
    /\ UNCHANGED <<process, disposed>>

\* acquire after the entry was created; after a replacement the credentials are
\* not compared again.
Continue(c) ==
    /\ caller[c].pc = "created"
    /\ IF caller[c].recheck THEN Enter(c, caller[c].entry) ELSE Join(c, caller[c].entry)
    /\ UNCHANGED disposed

MutCancel(c) ==
    /\ caller[c].pc = "waiting" /\ Settled(caller[c].entry)
    /\ Fails(c)
    /\ UNCHANGED <<entries, pending, entry, process, disposed>>

\* The signal of one who waits is aborted.
Cancel(c) ==
    /\ caller[c].pc = "waiting" /\ Settled(caller[c].entry)
    /\ IF Waiters(caller[c].entry) = {c} /\ entry[caller[c].entry].leases = 0
       THEN Close({caller[c].entry}) ELSE UNCHANGED <<entry, process>>
    /\ Fails(c)
    /\ UNCHANGED <<entries, pending, disposed>>

-----------------------------------------------------------------------------
(* connect                                                                 *)

\* The socket of the last master is removed and a master started, also when the
\* entry was closed in the meantime.
StartMaster(e) ==
    /\ entry[e].connect = "preparing" /\ Settled(e)
    /\ LET g == entry[e].generation + 1 IN
       /\ entry' = [entry EXCEPT ![e].generation = g, ![e].master = g,
                                 ![e].connect = "checking", ![e].task = g]
       /\ process' = [process EXCEPT ![e][g] = "starting"]
    /\ UNCHANGED <<entries, pending, caller, disposed>>

\* ssh -O check succeeds, perhaps on a master that was just told to end: all
\* who wait have their lease.
Connected(e) ==
    /\ entry[e].connect = "checking"
    /\ process[e][entry[e].task] \in {"up", "ending"}
    /\ entry' = [entry EXCEPT ![e].connect = "none", ![e].task = 0,
                              ![e].leases = @ + Cardinality(Waiters(e))]
    /\ caller' = [c \in Callers |->
         IF c \in Waiters(e)
         THEN [caller[c] EXCEPT !.pc = "leased", !.generation = entry[e].generation,
                                !.own = entry[e].task]
         ELSE caller[c]]
    /\ UNCHANGED <<entries, pending, process, disposed>>

MutConnectFails(e) ==
    /\ entry[e].connect = "checking"
    /\ entry' = [entry EXCEPT ![e].connect = "none", ![e].task = 0]
    /\ caller' = [c \in Callers |-> IF c \in Waiters(e) THEN NoCaller ELSE caller[c]]
    /\ UNCHANGED <<entries, pending, process, disposed>>

\* ssh -O check cannot be run: the master is left alone.
Left(e, g) == IF g # 0 /\ process[e][g] = "starting" THEN [process EXCEPT ![e][g] = "left"] ELSE process

\* The master is gone, or not ready at the deadline and told to end, or left
\* alone.  All who wait fail; the last one closes an entry that nobody has leased.
ConnectFails(e) ==
    /\ entry[e].connect = "checking"
    /\ LET last == Waiters(e) # {} /\ entry[e].leases = 0 /\ entry[e].phase = "open" IN
       /\ entry' = [entry EXCEPT ![e] = [(IF last THEN Closed(e) ELSE @) EXCEPT !.connect = "none",
                                                                                !.task = 0]]
       /\ process' = Killed(e, entry[e].task) \/ (~last /\ process' = Left(e, entry[e].task))
    /\ caller' = [c \in Callers |-> IF c \in Waiters(e) THEN NoCaller ELSE caller[c]]
    /\ UNCHANGED <<entries, pending, disposed>>

-----------------------------------------------------------------------------
(* ssh processes                                                           *)

\* The control socket needs the entry's directory.
MasterUp(e, g) ==
    /\ process[e][g] \in {"starting", "left"}
    /\ entry[e].phase = "open"
    /\ process' = [process EXCEPT ![e][g] = "up"]
    /\ UNCHANGED <<entries, pending, entry, caller, disposed>>

\* Authentication fails, the network is gone, a signal arrives.
MasterExits(e, g) ==
    /\ processAlive(e, g)
    /\ process' = [process EXCEPT ![e][g] = "exited"]
    /\ UNCHANGED <<entries, pending, entry, caller, disposed>>

MutMasterClosed(e, g) ==
    /\ process[e][g] = "exited"
    /\ process' = [process EXCEPT ![e][g] = "none"]
    /\ entry' = [entry EXCEPT ![e].master = 0, ![e].generation = @ + 1]
    /\ UNCHANGED <<entries, pending, caller, disposed>>

\* The close event, after the exit.
MasterClosed(e, g) ==
    /\ process[e][g] = "exited"
    /\ process' = [process EXCEPT ![e][g] = "none"]
    /\ entry' = IF entry[e].master = g
                THEN [entry EXCEPT ![e].master = 0, ![e].generation = @ + 1] ELSE entry
    /\ UNCHANGED <<entries, pending, caller, disposed>>

-----------------------------------------------------------------------------
(* release, idle timer, closing                                            *)

\* The idle timer is set; one that is set already goes on without its handle.
Release(c) ==
    /\ caller[c].pc = "leased"
    /\ LET e == caller[c].entry
           arm == entry[e].leases = 1 /\ entry[e].phase = "open" /\ disposed = "no"
       IN entry' = [entry EXCEPT ![e].leases = @ - 1,
                                 ![e].idle = @ \/ arm,
                                 ![e].stray = @ \/ (arm /\ entry[e].idle)]
    /\ Fails(c)
    /\ UNCHANGED <<entries, pending, process, disposed>>

\* A timer that fires forgets the handle, its own or that of the next timer.
TimerFires(e) ==
    /\ entry[e].idle \/ entry[e].stray
    /\ \E stray \in BOOLEAN :
         /\ stray => entry[e].stray
         /\ IF entry[e].leases = 0 /\ entry[e].phase = "open"
            THEN /\ entry' = [entry EXCEPT ![e] = Closed(e)]
                 /\ process' = Killed(e, entry[e].master)
            ELSE /\ entry' = [entry EXCEPT ![e].idle = FALSE, ![e].stray = stray]
                 /\ UNCHANGED process
    /\ UNCHANGED <<entries, pending, caller, disposed>>

\* A closed entry nobody refers to is as good as new.
Gone(e) ==
    IF entry[e].connect = "none" /\ entry[e].leases = 0 /\ Running(e) = {}
    THEN NoEntry ELSE [entry[e] EXCEPT !.phase = "closed", !.killed = 0]

\* The master that was told to end is gone and the directory removed; the
\* caller that wanted the entry replaced creates the next one.
Removed(e) ==
    /\ entry[e].phase = "closing" /\ Settled(e)
    /\ entry[e].killed \notin Running(e)
    /\ entries' = IF entries = e THEN None ELSE entries
    /\ \/ /\ At("replacing", e) = {}
          /\ entry' = [entry EXCEPT ![e] = Gone(e)]
          /\ UNCHANGED <<pending, caller>>
       \/ \E c \in At("replacing", e) :
            /\ StartEntry(c, [entry EXCEPT ![e] = Gone(e)])
            /\ Creating(c, pending', FALSE)
    /\ UNCHANGED <<process, disposed>>

\* dispose waits for the entry that is being created, then closes the other.
DisposeCloses ==
    /\ disposed' = "yes"
    /\ Close({e \in Entries : entries = e})
    /\ UNCHANGED <<entries, pending, caller>>

Dispose ==
    /\ disposed = "no" /\ Settled(entries)
    /\ \/ /\ pending # None
          /\ disposed' = "disposing"
          /\ UNCHANGED <<entries, pending, entry, process, caller>>
       \/ pending = None /\ DisposeCloses

Disposed == disposed = "disposing" /\ pending = None /\ DisposeCloses

Next ==
    \/ \E c \in Callers : Acquire(c) \/ Continue(c) \/ Cancel(c) \/ Release(c)
    \/ \E e \in Entries : \/ Created(e) \/ StartMaster(e) \/ Connected(e) \/ ConnectFails(e)
                          \/ TimerFires(e) \/ Removed(e)
    \/ \E e \in Entries, g \in Generations : MasterUp(e, g) \/ MasterExits(e, g) \/ MasterClosed(e, g)
    \/ Dispose \/ Disposed

Spec == Init /\ [][Next]_vars

(* Fairness.  The operations of the file system, timers and reactions       *)
(* happen; a connection attempt ends, at its deadline at the latest; a      *)
(* process that was told to end does, and so does a master that was left    *)
(* alone when the directory of its entry is gone (it has a ConnectTimeout,  *)
(* and no place for its socket); its exit is reported.  Nothing is asked of *)
(* callers or of the network.                                               *)
LiveSpec ==
    /\ Spec
    /\ WF_vars(Disposed)
    /\ WF_vars(\E c \in Callers : Continue(c))
    /\ \A e \in Entries :
         /\ WF_vars(Created(e) \/ StartMaster(e) \/ Removed(e))
         /\ WF_vars(Connected(e) \/ ConnectFails(e))
         /\ WF_vars(TimerFires(e))
         /\ WF_vars(\E g \in Generations :
                       \/ /\ process[e][g] = "ending" \/ (process[e][g] = "left" /\ entry[e].phase = "closed")
                          /\ MasterExits(e, g)
                       \/ MasterClosed(e, g))

-----------------------------------------------------------------------------
(* Properties                                                              *)

MutAccepted(c) == caller[c].pc = "leased" /\ transportAlive(caller[c].entry)

\* assertCurrent: what a command of a lease asks first.
Accepted(c) ==
    /\ caller[c].pc = "leased"
    /\ caller[c].generation = entry[caller[c].entry].generation
    /\ transportAlive(caller[c].entry)

\* A lease works on the master it was given on or not at all: after a reconnect
\* it is never taken for one of the new connection, whichever of the old
\* master's close event and the new master's start comes first.
StaleNeverAccepted ==
    \A c \in Callers : Accepted(c) => entry[caller[c].entry].master = caller[c].own

\* Nobody works on a connection that was made with another's password, however
\* creation, replacement and acquisition interleave.
LeaseHasOwnCredentials ==
    \A c \in Callers : Accepted(c) => PasswordOf[c] \in {Omitted, entry[caller[c].entry].password}

\* A lease in use is lost only with its master or when the manager is disposed
\* of: no timer, cancellation, failure or request of somebody else takes it.
LeaseEndsWithMaster ==
    [][\A c \in Callers :
         Accepted(c) /\ caller'[c].pc = "leased" /\ ~Accepted(c)'
         => disposed' = "yes" \/ ~processAlive(caller[c].entry, caller[c].own)']_vars

\* Every acquire is answered, with a lease or an error, also one that waits for
\* the connection of an entry that is closed meanwhile.
AcquireEnds == \A c \in Callers : []<>(caller[c].pc \in {"idle", "leased"})

\* A connection nobody uses or waits for does not stay: there is always a timer
\* left, or somebody who closes it.
Unused ==
    /\ entries # None
    /\ entry[entries].phase = "open" /\ entry[entries].leases = 0
    /\ Waiters(entries) = {}
IdleCloses == []<>~Unused

\* After dispose every ssh master ends, those included that were started for an
\* entry that was closed already.
DisposedEnds == disposed = "yes" ~> \A e \in Entries : Running(e) = {}
=============================================================================
