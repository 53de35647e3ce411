----------------------------- MODULE GitRuntime -----------------------------
(***************************************************************************)
(* How the RPC handlers of the Git and Files services coordinate:          *)
(*                                                                         *)
(*   internal/gitruntime/runtime.go   topology gate, one coordinator (gate *)
(*                                    and epoch) per repository, bounded   *)
(*                                    registry of worktrees                *)
(*   internal/gitruntime/session.go   references one session keeps         *)
(*   internal/gitruntime/resolve.go   identity of a worktree               *)
(*   internal/gitrepo/service.go, workspace_snapshot.go                    *)
(*                                    the handlers and their snapshots     *)
(*                                                                         *)
(* A handler is a goroutine that serves one request at a time.  Each       *)
(* critical section of a gate, of Runtime.mu, of Session.mu and of the     *)
(* snapshot store is one action; a section that only registers and         *)
(* releases what the next one needs is joined to it.  A handler that is    *)
(* not in the queue of the gate it asked for has been let in.              *)
(*                                                                         *)
(* Inactivity is not timed: whatever nobody references may be pruned by    *)
(* any later registration, which covers every retention and every order   *)
(* of eviction.  Path and heap budgets of the registry are counted in      *)
(* worktrees.  Every effect the services coordinate has ChangesTopology    *)
(* set, so the shared form of an effect is left out.                       *)
(***************************************************************************)
EXTENDS GateOps, Integers

CONSTANTS
    Handlers,         \* goroutines serving requests
    Sessions,         \* direct sessions, each with its Git service
    SessionOf,        \* the session of each handler
    Worktrees,        \* worktrees, by WorktreeKey
    Repos,            \* repositories, by CommonRepoKey, which orders them
    RepoOf,           \* the repository of each worktree
    Contents,         \* what `git status` may say of a worktree
    Kinds,            \* the requests that are made
    MaxCoordinators,  \* maxCoordinators (256)
    MaxWorktrees,     \* maxWorktrees (1024)
    MaxChanges        \* bound of the model: requests that change something

\* a process has finitely many goroutines, sessions and worktrees at a time
ASSUME GitConstants ==
    /\ IsFiniteSet(Handlers) /\ IsFiniteSet(Sessions) /\ IsFiniteSet(Worktrees)
    /\ Worktrees # {} /\ Contents # {}
    /\ SessionOf \in [Handlers -> Sessions]
    /\ Repos \subseteq Nat
    /\ RepoOf \in [Worktrees -> Repos]
    /\ Kinds \subseteq {"read", "mutation", "delete", "files"}
    /\ {MaxCoordinators, MaxWorktrees, MaxChanges} \subseteq Nat

Nobody == "nobody"

VARIABLES
    topology,    \* Runtime.topology
    registry,    \* Runtime.registry, .coordinators and .registryIncomplete
    exists,      \* worktrees whose identity is current in the filesystem
    content,     \* what `git status` says of each worktree
    mu,          \* Session.mu: the handler that holds it
    refs,        \* Session.refs
    status,      \* how far Service.Close of each session has come
    store,       \* workspaceSnapshotStore.entries of each session
    handlers,    \* program counter and locals of each handler
    changes      \* requests so far that change something

vars == <<topology, registry, exists, content, mu, refs, status, store, handlers, changes>>

filesystem == <<exists, content>>
sessions == <<mu, refs, status>>

\* what `coords` holds for a repository without a coordinator is what a new
\* coordinator starts from
NoCoordinator == [present |-> FALSE, refs |-> 0, epoch |-> 0, gate |-> NewGate]

NoEntry == -1

Snapshots == [tree : Worktrees, content : Contents, epoch : Nat]

IdleHandler == [pc |-> "idle", kind |-> "read", tree |-> CHOOSE w \in Worktrees : TRUE,
                queued |-> FALSE, epoch |-> 0, pin |-> {}, over |-> {}, todo |-> {},
                ids |-> {}, locked |-> {}]

Phases == {"idle", "resolve", "session", "retain", "lease", "enter", "mark", "gate", "work",
           "reload", "effect", "release", "unretain", "coordinate", "scan", "lockNext",
           "lockWait", "unlock"}

Init ==
    /\ topology = NewGate
    /\ registry = [trees |-> [w \in Worktrees |-> NoEntry],
                   coords |-> [r \in Repos |-> NoCoordinator],
                   incomplete |-> FALSE]
    /\ exists = Worktrees
    /\ content = [w \in Worktrees |-> CHOOSE c \in Contents : TRUE]
    /\ mu = [s \in Sessions |-> Nobody]
    /\ refs = [s \in Sessions |-> {}]
    /\ status = [s \in Sessions |-> "open"]
    /\ store = [s \in Sessions |-> {}]
    /\ handlers = [h \in Handlers |-> IdleHandler]
    /\ changes = 0

----------------------------------------------------------------------------
(* The registry of worktrees and repositories. *)

TreesOf(r) == {w \in Worktrees : RepoOf[w] = r}
ReposOf(ws) == {RepoOf[w] : w \in ws}

Registered(g) == {w \in Worktrees : g.trees[w] >= 0}
Coordinated(g) == {r \in Repos : g.coords[r].present}
InactiveTrees(g) == {w \in Worktrees : g.trees[w] = 0}
InactiveCoords(g) == {r \in Repos : g.coords[r].present /\ g.coords[r].refs = 0}

Evicted(g, ws, rs) ==
    [g EXCEPT !.trees = [w \in Worktrees |-> IF w \in ws THEN NoEntry ELSE @[w]],
              !.coords = [r \in Repos |-> IF r \in rs THEN NoCoordinator ELSE @[r]]]

\* pruneInactiveLocked and the evictions: any of what nobody references goes
Pruned(g) ==
    {Evicted(g, ws, rs) : ws \in SUBSET InactiveTrees(g), rs \in SUBSET InactiveCoords(g)}

TreeRoom(g, w) == Cardinality(Registered(g) \cup {w}) <= MaxWorktrees
CoordRoom(g, w) == Cardinality(Coordinated(g) \cup {RepoOf[w]}) <= MaxCoordinators

\* one more reference to the entry of w and to its coordinator
AddRef(g, w) ==
    [g EXCEPT !.trees[w] = IF @ = NoEntry THEN 1 ELSE @ + 1,
              !.coords[RepoOf[w]].present = TRUE,
              !.coords[RepoOf[w]].refs = @ + 1]

\* the registries retainIdentity may leave when it succeeds
retainIdentity(g, w) ==
    {AddRef(p, w) : p \in {q \in Pruned(g) : TreeRoom(q, w) /\ CoordRoom(q, w)}}

\* and when it fails: the entry of w is of another identity, its common
\* directory having changed, or everything inactive was evicted and there is no room
retainFailures(g, w) ==
    {[p EXCEPT !.incomplete = TRUE] :
        p \in {q \in Pruned(g) :
                 \/ q.trees[w] # NoEntry
                 \/ ~TreeRoom(q, w) /\ InactiveTrees(q) = {}
                 \/ TreeRoom(q, w) /\ ~CoordRoom(q, w) /\ InactiveCoords(q) = {}}}

\* a counter that stays where it is at 0 or below
Less(n, k) == IF n <= 0 THEN n ELSE IF k > n THEN 0 ELSE n - k

\* A reference is a pair: who keeps it, and the worktree whose entry it keeps.
ByHandler(h, w) == <<<<"handler", h>>, w>>
BySession(s, w) == <<<<"session", s>>, w>>
BySnapshot(s, x) == <<<<"snapshot", s, x>>, x.tree>>

\* how many of the references R keep an entry of the worktrees ws
Uses(R, ws) == Cardinality({p \in R : p[2] \in ws})

\* releaseIdentity
ReleasedOne(g, w) == [g EXCEPT !.trees[w] = Less(@, 1), !.coords[RepoOf[w]].refs = Less(@, 1)]

\* releaseIdentity for every reference of R
Released(g, R) ==
    [g EXCEPT !.trees = [w \in Worktrees |-> Less(@[w], Uses(R, {w}))],
              !.coords = [r \in Repos |->
                  [g.coords[r] EXCEPT !.refs = Less(g.coords[r].refs, Uses(R, TreesOf(r)))]]]

\* retainIdentity and at once releaseIdentity
admitIdentity(g, w) == {ReleasedOne(q, w) : q \in retainIdentity(g, w)}

----------------------------------------------------------------------------
(* Gates, and the snapshots of a session. *)

\* acquire: let in at once, or queued
Ask(g, h, write) ==
    IF canAcquireImmediately(g, write) THEN markAcquired(g, write) ELSE Enqueue(g, h, write)

LetIn(g, h) == h \notin Waiters(g)

MutGiveUpReleases(g, h, write) == release(g, write)

\* acquire returns the error of a cancelled context: the handler gave up while
\* it was queued, or the grant came first and is released
GiveUp(g, h, write) == IF h \in Waiters(g) THEN Withdraw(g, h) ELSE release(g, write)

MutAskRepoShared(g, h, w, write) == [g EXCEPT !.coords[RepoOf[w]].gate = Ask(@, h, FALSE)]

AskRepo(g, h, w, write) == [g EXCEPT !.coords[RepoOf[w]].gate = Ask(@, h, write)]
FreeRepo(g, w, write) == [g EXCEPT !.coords[RepoOf[w]].gate = release(@, write)]
Bump(g, w) == [g EXCEPT !.coords[RepoOf[w]].epoch = @ + 1]
RepoGate(w) == registry.coords[RepoOf[w]].gate

InSession(h) == SessionOf[h]
Tree(h) == handlers[h].tree
At(h, pc) == handlers[h].pc = pc
Goto(h, pc) == handlers' = [handlers EXCEPT ![h].pc = pc, ![h].queued = FALSE]
Done(h) == handlers' = [handlers EXCEPT ![h] = IdleHandler]

\* the phase in which a handler waits for the gate it asks for
AskTopology(h, write, pc) ==
    /\ topology' = Ask(topology, h, write)
    /\ handlers' = [handlers EXCEPT ![h].pc = pc,
                                    ![h].queued = ~canAcquireImmediately(topology, write)]

Key(x) == [tree |-> x.tree, content |-> x.content]
Pinned(s) == UNION {handlers[h].pin : h \in {h \in Handlers : SessionOf[h] = s}}

\* removeLocked: the entries leave with the references they hold
Without(g, s, gone) == Released(g, {BySnapshot(s, x) : x \in gone})

\* what invalidate removes: every entry of the worktree that is not pinned
Stale(s, w) == {x \in store[s] : x.tree = w /\ Key(x) \notin Pinned(s)}

----------------------------------------------------------------------------
(* Resolving the repository a request names. *)

\* validateRepoRootIdentity asks for the identity of w.
Start(h, kind, w) ==
    /\ At(h, "idle") /\ status[InSession(h)] = "open"
    /\ kind \in Kinds \ {"files"}
    /\ kind # "read" => changes < MaxChanges
    /\ changes' = IF kind = "read" THEN changes ELSE changes + 1
    /\ topology' = Ask(topology, h, FALSE)
    /\ handlers' = [handlers EXCEPT ![h] = [IdleHandler EXCEPT
                        !.pc = "resolve", !.kind = kind, !.tree = w,
                        !.queued = ~canAcquireImmediately(topology, FALSE)]]
    /\ UNCHANGED <<registry, filesystem, sessions, store>>

\* ResolveRepositoryIdentity under the topology gate.
Resolve(h) ==
    /\ At(h, "resolve") /\ LetIn(topology, h)
    /\ topology' = release(topology, FALSE)
    /\ \/ /\ Tree(h) \in exists
          /\ registry' \in admitIdentity(registry, Tree(h))
          /\ Goto(h, "session")
       \/ /\ Tree(h) \in exists
          /\ registry' \in retainFailures(registry, Tree(h))
          /\ Done(h)
       \/ /\ Tree(h) \notin exists
          /\ Done(h)
          /\ UNCHANGED registry
    /\ UNCHANGED <<filesystem, sessions, store, changes>>

\* Session.RetainRepository: Session.mu is taken, and kept while the call
\* waits for the topology gate.
LockSession(h) ==
    /\ At(h, "session") /\ mu[InSession(h)] = Nobody
    /\ IF status[InSession(h)] = "closed"
       THEN Done(h) /\ UNCHANGED <<mu, topology>>
       ELSE mu' = [mu EXCEPT ![InSession(h)] = h] /\ AskTopology(h, FALSE, "retain")
    /\ UNCHANGED <<registry, filesystem, refs, status, store, changes>>

MutRetainTwice(h, g) ==
    /\ registry' \in retainIdentity(g, Tree(h))
    /\ refs' = [refs EXCEPT ![InSession(h)] = @ \cup {Tree(h)}]

\* a reference the session already has is released again
KeepReference(h, g) ==
    /\ registry' \in IF Tree(h) \in refs[InSession(h)]
                     THEN admitIdentity(g, Tree(h))
                     ELSE retainIdentity(g, Tree(h))
    /\ refs' = [refs EXCEPT ![InSession(h)] = @ \cup {Tree(h)}]

RetainInSession(h) ==
    /\ At(h, "retain") /\ LetIn(topology, h)
    /\ topology' = release(topology, FALSE)
    /\ mu' = [mu EXCEPT ![InSession(h)] = Nobody]
    /\ \/ /\ Tree(h) \in exists
          /\ KeepReference(h, registry)
          /\ Goto(h, "lease")
       \/ /\ Tree(h) \in exists
          /\ registry' \in retainFailures(registry, Tree(h))
          /\ Done(h)
          /\ UNCHANGED refs
       \/ /\ Tree(h) \notin exists
          /\ registry' = [registry EXCEPT !.incomplete = TRUE]
          /\ Done(h)
          /\ UNCHANGED refs
    /\ UNCHANGED <<filesystem, status, store, changes>>

----------------------------------------------------------------------------
(* The lease of a repository: topology gate, reference, repository gate. *)

Writes(h) == handlers[h].kind = "mutation"

RequestLease(h) ==
    /\ At(h, "lease")
    /\ AskTopology(h, FALSE, "enter")
    /\ UNCHANGED <<registry, filesystem, sessions, store, changes>>

MutEnterUnchecked(h) ==
    /\ At(h, "enter") /\ LetIn(topology, h)
    /\ \E g \in retainIdentity(registry, Tree(h)) :
         /\ registry' = AskRepo(g, h, Tree(h), Writes(h))
         /\ handlers' = [handlers EXCEPT ![h].pc = "gate",
                 ![h].queued = ~canAcquireImmediately(g.coords[RepoOf[Tree(h)]].gate, Writes(h))]
    /\ UNCHANGED <<topology, filesystem, sessions, store, changes>>

MutEnterLeaksTopology(h) ==
    /\ At(h, "enter") /\ LetIn(topology, h)
    /\ \/ /\ Tree(h) \in exists
          /\ \E g \in retainIdentity(registry, Tree(h)) :
               /\ registry' = AskRepo(g, h, Tree(h), Writes(h))
               /\ handlers' = [handlers EXCEPT ![h].pc = "gate",
                       ![h].queued = ~canAcquireImmediately(g.coords[RepoOf[Tree(h)]].gate,
                                                            Writes(h))]
       \/ /\ Tree(h) \in exists
          /\ registry' \in retainFailures(registry, Tree(h))
          /\ Done(h)
       \/ /\ Tree(h) \notin exists
          /\ Goto(h, "mark")
          /\ UNCHANGED registry
    /\ UNCHANGED <<topology, filesystem, sessions, store, changes>>

\* acquireRepository, let into the topology gate
EnterRepository(h) ==
    /\ At(h, "enter") /\ LetIn(topology, h)
    /\ \/ /\ Tree(h) \in exists
          /\ \E g \in retainIdentity(registry, Tree(h)) :
               /\ registry' = AskRepo(g, h, Tree(h), Writes(h))
               /\ handlers' = [handlers EXCEPT ![h].pc = "gate",
                       ![h].queued = ~canAcquireImmediately(g.coords[RepoOf[Tree(h)]].gate,
                                                            Writes(h))]
          /\ UNCHANGED topology
       \/ /\ Tree(h) \in exists
          /\ registry' \in retainFailures(registry, Tree(h))
          /\ topology' = release(topology, FALSE)
          /\ Done(h)
       \/ /\ Tree(h) \notin exists
          /\ topology' = release(topology, FALSE)
          /\ Goto(h, "mark")
          /\ UNCHANGED registry
    /\ UNCHANGED <<filesystem, sessions, store, changes>>

\* markRegistryIncomplete, after the topology gate was released
MarkIncomplete(h) ==
    /\ At(h, "mark")
    /\ registry' = [registry EXCEPT !.incomplete = TRUE]
    /\ Done(h)
    /\ UNCHANGED <<topology, filesystem, sessions, store, changes>>

\* acquireRepoRead and acquireRepoMutation have their lease.
Leased(h) ==
    /\ At(h, "gate") /\ LetIn(RepoGate(Tree(h)), h)
    /\ LET gone == IF Writes(h) THEN Stale(InSession(h), Tree(h)) ELSE {}
           g == IF Writes(h) THEN Bump(registry, Tree(h)) ELSE registry
       IN  /\ registry' = Without(g, InSession(h), gone)
           /\ store' = [store EXCEPT ![InSession(h)] = @ \ gone]
           /\ handlers' = [handlers EXCEPT ![h].pc = "work", ![h].queued = FALSE,
                                           ![h].epoch = g.coords[RepoOf[Tree(h)]].epoch]
    /\ UNCHANGED <<topology, filesystem, sessions, changes>>

\* captureWorkspaceSnapshot: what git says is published with the epoch of the
\* lease and a reference, or renews the entry of the same revision; the entry
\* is pinned.
Capture(h) ==
    LET s == InSession(h)
        x == [tree |-> Tree(h), content |-> content[Tree(h)], epoch |-> handlers[h].epoch]
        same == {y \in store[s] : Key(y) = Key(x)}
    IN  /\ At(h, "work") /\ handlers[h].kind = "read" /\ status[s] = "open"
        /\ registry' \in IF same = {} THEN retainIdentity(registry, Tree(h))
                                      ELSE admitIdentity(registry, Tree(h))
        /\ store' = [store EXCEPT ![s] = (@ \ same) \cup {x}]
        /\ handlers' = [handlers EXCEPT ![h].pc = "release", ![h].pin = {Key(x)}]
        /\ UNCHANGED <<topology, filesystem, sessions, changes>>

MutPageAnyEpoch(h, x) ==
    /\ At(h, "work") /\ handlers[h].kind = "read" /\ status[InSession(h)] = "open"
    /\ x.tree = Tree(h)
    /\ handlers' = [handlers EXCEPT ![h].pc = "release", ![h].pin = {Key(x)}]
    /\ UNCHANGED <<topology, registry, filesystem, sessions, store, changes>>

\* workspaceSnapshot with the revision of an earlier answer: the entry is used
\* if its epoch is the epoch of the lease, else the worktree is invalidated.
Page(h, x) ==
    LET s == InSession(h)
    IN  /\ At(h, "work") /\ handlers[h].kind = "read" /\ status[s] = "open"
        /\ x.tree = Tree(h)
        /\ IF x.epoch = handlers[h].epoch
           THEN /\ handlers' = [handlers EXCEPT ![h].pc = "release", ![h].pin = {Key(x)}]
                /\ UNCHANGED <<registry, store>>
           ELSE /\ registry' = Without(registry, s, Stale(s, x.tree))
                /\ store' = [store EXCEPT ![s] = @ \ Stale(s, x.tree)]
                /\ Goto(h, "release")
        /\ UNCHANGED <<topology, filesystem, sessions, changes>>

\* a read that takes no snapshot, fails to take one, or finds none
ReadOnly(h) ==
    /\ At(h, "work") /\ ~Writes(h)
    /\ Goto(h, "release")
    /\ UNCHANGED <<topology, registry, filesystem, sessions, store, changes>>

\* the git commands of a mutation, which may change every worktree of the
\* repository; some reload the repository afterwards
Mutate(h) ==
    /\ At(h, "work") /\ Writes(h)
    /\ \E c \in [TreesOf(RepoOf[Tree(h)]) -> Contents] :
         content' = [w \in Worktrees |-> IF w \in DOMAIN c THEN c[w] ELSE content[w]]
    /\ \E pc \in {"reload", "release"} : Goto(h, pc)
    /\ UNCHANGED <<topology, registry, exists, sessions, store, changes>>

\* where a handler goes after loadRepoContext
AfterReload(h) == IF Writes(h) THEN "release" ELSE "effect"
AfterFailedReload(h) == IF Writes(h) THEN "release" ELSE "unlock"

\* loadRepoContext in the context of a lease or of an effect: it resolves and
\* retains without asking for the topology gate, but it takes Session.mu.
Reload(h) ==
    /\ At(h, "reload") /\ mu[InSession(h)] = Nobody
    /\ \/ /\ Tree(h) \in exists /\ status[InSession(h)] # "closed"
          /\ KeepReference(h, registry)
          /\ Goto(h, AfterReload(h))
       \/ /\ Tree(h) \in exists
          /\ registry' \in retainFailures(registry, Tree(h))
          /\ Goto(h, AfterFailedReload(h))
          /\ UNCHANGED refs
       \/ /\ Tree(h) \in exists /\ status[InSession(h)] = "closed"
          /\ registry' \in admitIdentity(registry, Tree(h))
          /\ Goto(h, AfterFailedReload(h))
          /\ UNCHANGED refs
       \/ /\ Tree(h) \notin exists
          /\ Goto(h, AfterFailedReload(h))
          /\ UNCHANGED <<registry, refs>>
    /\ UNCHANGED <<topology, filesystem, mu, status, store, changes>>

\* The pin and the lease are released, a mutation having invalidated its
\* worktree and advanced the epoch; the last pin of a closed store takes the
\* entry along.
ReleaseLease(h) ==
    LET s == InSession(h)
        others == UNION {handlers[i].pin : i \in {i \in Handlers \ {h} : SessionOf[i] = s}}
        unpinned == IF status[s] = "open" THEN {}
                    ELSE {x \in store[s] : Key(x) \in handlers[h].pin \ others}
        gone == unpinned \cup (IF Writes(h) THEN Stale(s, Tree(h)) ELSE {})
        g == IF Writes(h) THEN Bump(registry, Tree(h)) ELSE registry
    IN  /\ At(h, "release")
        /\ registry' = FreeRepo(Without(g, s, gone), Tree(h), Writes(h))
        /\ store' = [store EXCEPT ![s] = @ \ gone]
        /\ handlers' = [handlers EXCEPT ![h].pc = "unretain", ![h].pin = {}]
        /\ UNCHANGED <<topology, filesystem, sessions, changes>>

\* The rest of the release.  The handler that deletes a branch knows the paths
\* of its worktree and of the worktree bound to the branch; it invalidates its
\* snapshots and asks for the topology gate again, now to change the topology.
Unretain(h) ==
    LET g == ReleasedOne(registry, Tree(h))
        free == release(topology, FALSE)
    IN  /\ At(h, "unretain")
        /\ IF handlers[h].kind # "delete"
           THEN /\ registry' = g
                /\ topology' = free
                /\ Done(h)
                /\ UNCHANGED store
           ELSE \E linked \in TreesOf(RepoOf[Tree(h)]) :
                /\ registry' = Without(g, InSession(h), Stale(InSession(h), Tree(h)))
                /\ store' = [store EXCEPT ![InSession(h)] = @ \ Stale(InSession(h), Tree(h))]
                /\ topology' = Ask(free, h, TRUE)
                /\ handlers' = [handlers EXCEPT ![h].pc = "coordinate",
                                    ![h].queued = ~canAcquireImmediately(free, TRUE),
                                    ![h].over = {Tree(h), linked},
                                    ![h].todo = {Tree(h), linked}]
        /\ UNCHANGED <<filesystem, sessions, changes>>

----------------------------------------------------------------------------
(* CoordinateTopologyMutation. *)

MutStartFilesShared(h, over, paths) ==
    /\ At(h, "idle") /\ "files" \in Kinds /\ changes < MaxChanges
    /\ status[InSession(h)] = "open"
    /\ changes' = changes + 1
    /\ topology' = Ask(topology, h, FALSE)
    /\ handlers' = [handlers EXCEPT ![h] = [IdleHandler EXCEPT
                        !.pc = "coordinate", !.kind = "files", !.over = over, !.todo = paths,
                        !.queued = ~canAcquireImmediately(topology, FALSE)]]
    /\ UNCHANGED <<registry, filesystem, sessions, store>>

\* A Files request: its paths lie in the worktrees `paths`, and overlap these
\* and the others of `over`.
StartFiles(h, over, paths) ==
    /\ At(h, "idle") /\ "files" \in Kinds /\ changes < MaxChanges
    /\ status[InSession(h)] = "open"
    /\ changes' = changes + 1
    /\ topology' = Ask(topology, h, TRUE)
    /\ handlers' = [handlers EXCEPT ![h] = [IdleHandler EXCEPT
                        !.pc = "coordinate", !.kind = "files", !.over = over, !.todo = paths,
                        !.queued = ~canAcquireImmediately(topology, TRUE)]]
    /\ UNCHANGED <<registry, filesystem, sessions, store>>

\* rebuildRegistry: an incomplete registry loses the entries that are no
\* longer current, unless somebody references one
rebuildRegistry(g) ==
    LET lost == Registered(g) \ exists
    IN  IF ~g.incomplete THEN {g}
        ELSE IF lost \subseteq InactiveTrees(g)
        THEN {[Evicted(g, lost, {}) EXCEPT !.incomplete = FALSE]}
        ELSE {}

\* one registered worktree for each repository the paths overlap
Overlapping(g, over) ==
    {ids \in SUBSET (over \cap Registered(g)) :
        \A r \in ReposOf(over \cap Registered(g)) : Cardinality(ids \cap TreesOf(r)) = 1}

\* The topology gate is held: the registry is rebuilt and scanned.
Scan(h) ==
    /\ At(h, "coordinate") /\ LetIn(topology, h)
    /\ \/ \E g \in rebuildRegistry(registry), ids \in SUBSET handlers[h].over :
            /\ ids \in Overlapping(g, handlers[h].over)
            /\ registry' = g
            /\ handlers' = [handlers EXCEPT ![h].pc = "scan", ![h].queued = FALSE,
                                            ![h].ids = ids]
            /\ UNCHANGED topology
       \/ /\ rebuildRegistry(registry) = {}
          /\ \E ws \in SUBSET (InactiveTrees(registry) \ exists) :
                registry' = Evicted(registry, ws, {})
          /\ topology' = release(topology, TRUE)
          /\ Done(h)
    /\ UNCHANGED <<filesystem, sessions, store, changes>>

\* resolveEffectIdentities: the worktree a path lies in is admitted, and
\* stands for its repository if none does.
ResolvePath(h, w) ==
    /\ At(h, "scan") /\ w \in handlers[h].todo
    /\ \/ /\ w \in exists
          /\ registry' \in admitIdentity(registry, w)
          /\ handlers' = [handlers EXCEPT ![h].todo = @ \ {w},
                 ![h].ids = IF RepoOf[w] \in ReposOf(@) THEN @ ELSE @ \cup {w}]
       \/ /\ w \in exists
          /\ registry' \in retainFailures(registry, w)
          /\ Goto(h, "unlock")
       \/ /\ w \notin exists
          /\ handlers' = [handlers EXCEPT ![h].todo = @ \ {w}]
          /\ UNCHANGED registry
    /\ UNCHANGED <<topology, filesystem, sessions, store, changes>>

StartLocking(h) ==
    /\ At(h, "scan") /\ handlers[h].todo = {}
    /\ Goto(h, "lockNext")
    /\ UNCHANGED <<topology, registry, filesystem, sessions, store, changes>>

Unlocked(h) == handlers[h].ids \ handlers[h].locked

\* the worktrees of the first and the last repository in the order of CommonRepoKey
First(ws) == CHOOSE w \in ws : \A v \in ws : RepoOf[w] <= RepoOf[v]
Last(ws) == CHOOSE w \in ws : \A v \in ws : RepoOf[v] <= RepoOf[w]

NextId(h) == First(Unlocked(h))

LockNext(h) ==
    /\ At(h, "lockNext") /\ Unlocked(h) # {}
    /\ \/ /\ registry' \in {AskRepo(g, h, NextId(h), TRUE) : g \in retainIdentity(registry, NextId(h))}
          /\ Goto(h, "lockWait")
       \/ /\ registry' \in retainFailures(registry, NextId(h))
          /\ Goto(h, "unlock")
    /\ UNCHANGED <<topology, filesystem, sessions, store, changes>>

Locked(h) ==
    /\ At(h, "lockWait") /\ LetIn(RepoGate(NextId(h)), h)
    /\ registry' = Bump(registry, NextId(h))
    /\ handlers' = [handlers EXCEPT ![h].pc = "lockNext", ![h].locked = @ \cup {NextId(h)}]
    /\ UNCHANGED <<topology, filesystem, sessions, store, changes>>

\* The scan is repeated under the locks and must find the same repositories.
\* The callback that deletes a branch first loads the repository again.
Revalidate(h) ==
    /\ At(h, "lockNext") /\ Unlocked(h) = {}
    /\ Goto(h, IF \/ registry.incomplete
                 \/ ReposOf(handlers[h].over \cap Registered(registry)) # ReposOf(handlers[h].locked)
              THEN "unlock"
              ELSE IF handlers[h].kind = "delete" THEN "reload" ELSE "effect")
    /\ UNCHANGED <<topology, registry, filesystem, sessions, store, changes>>

\* The effect: worktrees under the paths change, are moved away or moved
\* back.  Deleting a branch may change every worktree of its repository and
\* remove the one bound to the branch.
Effect(h) ==
    LET files == handlers[h].kind = "files"
        changed == IF files THEN handlers[h].over ELSE TreesOf(RepoOf[Tree(h)])
        moved == IF files THEN handlers[h].over ELSE handlers[h].over \ {Tree(h)}
    IN  /\ At(h, "effect")
        /\ \E c \in [changed -> Contents] :
             content' = [w \in Worktrees |-> IF w \in changed THEN c[w] ELSE content[w]]
        /\ \E now \in SUBSET moved : exists' = (exists \ moved) \cup now
        /\ Goto(h, "unlock")
        /\ UNCHANGED <<topology, registry, sessions, store, changes>>

LastLocked(h) == Last(handlers[h].locked)

\* the deferred loop, in the reverse order
UnlockLast(h) ==
    /\ At(h, "unlock") /\ handlers[h].locked # {}
    /\ registry' = ReleasedOne(FreeRepo(Bump(registry, LastLocked(h)), LastLocked(h), TRUE),
                               LastLocked(h))
    /\ handlers' = [handlers EXCEPT ![h].locked = @ \ {LastLocked(h)}]
    /\ UNCHANGED <<topology, filesystem, sessions, store, changes>>

\* The topology gate is released; the handler that deletes a branch
\* invalidates its snapshots once more.
EndEffect(h) ==
    LET gone == IF handlers[h].kind = "delete" THEN Stale(InSession(h), Tree(h)) ELSE {}
    IN  /\ At(h, "unlock") /\ handlers[h].locked = {}
        /\ topology' = release(topology, TRUE)
        /\ registry' = Without(registry, InSession(h), gone)
        /\ store' = [store EXCEPT ![InSession(h)] = @ \ gone]
        /\ Done(h)
        /\ UNCHANGED <<filesystem, sessions, changes>>

----------------------------------------------------------------------------
(* Cancellation, expiry and the end of a session. *)

\* A request whose context ends leaves the topology gate, ...
CancelTopology(h) ==
    /\ handlers[h].queued
    /\ handlers[h].pc \in {"resolve", "retain", "enter", "coordinate"}
    /\ topology' = GiveUp(topology, h, At(h, "coordinate"))
    /\ mu' = [s \in Sessions |-> IF mu[s] = h THEN Nobody ELSE mu[s]]
    /\ Done(h)
    /\ UNCHANGED <<registry, filesystem, refs, status, store, changes>>

\* ... or the gate of its repository, and with it the reference and the
\* topology gate.
CancelRepository(h) ==
    /\ handlers[h].queued /\ At(h, "gate")
    /\ registry' = ReleasedOne([registry EXCEPT !.coords[RepoOf[Tree(h)]].gate =
                                    GiveUp(@, h, Writes(h))], Tree(h))
    /\ topology' = release(topology, FALSE)
    /\ Done(h)
    /\ UNCHANGED <<filesystem, sessions, store, changes>>

\* A snapshot that is not pinned expires, or makes room for another.
EvictSnapshot(s, x) ==
    /\ status[s] = "open"
    /\ Key(x) \notin Pinned(s)
    /\ registry' = Without(registry, s, {x})
    /\ store' = [store EXCEPT ![s] = @ \ {x}]
    /\ UNCHANGED <<topology, filesystem, sessions, handlers, changes>>

\* Service.Close: the store first, ...
CloseStore(s) ==
    LET gone == {x \in store[s] : Key(x) \notin Pinned(s)}
    IN  /\ status[s] = "open"
        /\ status' = [status EXCEPT ![s] = "closing"]
        /\ registry' = Without(registry, s, gone)
        /\ store' = [store EXCEPT ![s] = @ \ gone]
        /\ UNCHANGED <<topology, filesystem, mu, refs, handlers, changes>>

\* ... then Session.Close, which waits for Session.mu.
CloseSession(s) ==
    /\ status[s] = "closing" /\ mu[s] = Nobody
    /\ status' = [status EXCEPT ![s] = "closed"]
    /\ registry' = Released(registry, {BySession(s, w) : w \in refs[s]})
    /\ refs' = [refs EXCEPT ![s] = {}]
    /\ UNCHANGED <<topology, filesystem, mu, store, handlers, changes>>

----------------------------------------------------------------------------

\* what a handler does when it is not cancelled
Step(h) ==
    \/ Resolve(h) \/ LockSession(h) \/ RetainInSession(h)
    \/ RequestLease(h) \/ EnterRepository(h) \/ MarkIncomplete(h) \/ Leased(h)
    \/ Capture(h) \/ (\E x \in store[InSession(h)] : Page(h, x)) \/ ReadOnly(h)
    \/ Mutate(h) \/ Reload(h) \/ ReleaseLease(h) \/ Unretain(h)
    \/ Scan(h) \/ (\E w \in handlers[h].todo : ResolvePath(h, w)) \/ StartLocking(h)
    \/ LockNext(h) \/ Locked(h) \/ Revalidate(h) \/ Effect(h) \/ UnlockLast(h) \/ EndEffect(h)

Cancel(h) == CancelTopology(h) \/ CancelRepository(h)

Arrive(h) ==
    \/ \E kind \in Kinds, w \in Worktrees : Start(h, kind, w)
    \/ \E over \in SUBSET Worktrees, paths \in SUBSET Worktrees :
          over # {} /\ paths \subseteq over /\ StartFiles(h, over, paths)

Close(s) ==
    \/ \E x \in store[s] : EvictSnapshot(s, x)
    \/ CloseStore(s) \/ CloseSession(s)

Next ==
    \/ \E h \in Handlers : Arrive(h) \/ Step(h) \/ Cancel(h)
    \/ \E s \in Sessions : Close(s)

Spec == Init /\ [][Next]_vars

----------------------------------------------------------------------------

\* Types of the variables.
TypeOK ==
    /\ topology.readers \in Nat
    /\ registry.trees \in [Worktrees -> Nat \cup {NoEntry}]
    /\ \A r \in Repos : registry.coords[r].refs \in Nat /\ registry.coords[r].gate.readers \in Nat
    /\ exists \subseteq Worktrees
    /\ content \in [Worktrees -> Contents]
    /\ mu \in [Sessions -> Handlers \cup {Nobody}]
    /\ refs \in [Sessions -> SUBSET Worktrees]
    /\ status \in [Sessions -> {"open", "closing", "closed"}]
    /\ \A s \in Sessions : store[s] \subseteq Snapshots
    /\ \A h \in Handlers : handlers[h].pc \in Phases

\* the repositories a handler may read, and those it may change
HasLease(h) == \/ handlers[h].pc \in {"work", "release"}
               \/ At(h, "reload") /\ Writes(h)
Reads(h) == IF HasLease(h) THEN {RepoOf[Tree(h)]} ELSE {}
Changes(h) == (IF HasLease(h) /\ Writes(h) THEN {RepoOf[Tree(h)]} ELSE {})
              \cup ReposOf(handlers[h].locked)

\* A repository that one handler may change is not read or changed by another:
\* the lease of a mutation and the effects of CoordinateTopologyMutation
\* exclude every other lease, although the gate they use belongs to a
\* coordinator that the registry may evict.
RepositoryExclusion ==
    \A h, i \in Handlers : h # i => Changes(h) \cap (Reads(i) \cup Changes(i)) = {}

\* A worktree under a lease is not moved or removed: acquireRepository checks
\* the identity inside the topology gate and the lease keeps the gate.
LeasedWorktreeStands == \A h \in Handlers : HasLease(h) => Tree(h) \in exists

\* the worktrees whose registry entry a handler holds a reference to
Holds(h) ==
    handlers[h].locked
    \cup (IF At(h, "lockWait") THEN {NextId(h)} ELSE {})
    \cup (IF HasLease(h) \/ handlers[h].pc \in {"gate", "unretain"} THEN {Tree(h)} ELSE {})

References ==
    (UNION {{ByHandler(h, w) : w \in Holds(h)} : h \in Handlers})
    \cup (UNION {{BySession(s, w) : w \in refs[s]} : s \in Sessions})
    \cup (UNION {{BySnapshot(s, x) : x \in store[s]} : s \in Sessions})

\* References are neither leaked nor released twice: the registry counts for
\* every worktree and every repository exactly the handlers, sessions and
\* published snapshots that use it, through cancellation, failure, eviction of
\* snapshots and the end of a session.
ReferencesExact ==
    /\ \A w \in Worktrees :
          Uses(References, {w}) = IF registry.trees[w] = NoEntry THEN 0 ELSE registry.trees[w]
    /\ \A r \in Repos : registry.coords[r].refs = Uses(References, TreesOf(r))

\* A handler that has the topology gate to itself never waits for the gate of
\* a repository: whoever is in one is in the topology gate too.
RepositoryGatesFree ==
    \A h \in Handlers : At(h, "lockWait") => LetIn(RepoGate(NextId(h)), h)

\* A snapshot that a request pages through under its lease says what git would
\* say now, whichever sessions changed the repository since it was captured
\* and although the coordinator that counts the epochs may have been evicted.
SnapshotFresh ==
    \A h \in Handlers : \A x \in handlers[h].pin : x.content = content[x.tree]

\* The callback of CoordinateTopologyMutation resolves its repository safely:
\* the mutex it takes is not held by a request that waits for the topology
\* gate, which the callback's own handler holds.
CallbackResolvesSafely ==
    \A h, i \in Handlers :
        At(h, "reload") /\ handlers[h].kind = "delete" /\ mu[InSession(h)] = i
            => LetIn(topology, i)

\* goroutines run; nothing is assumed of cancellation, of new requests or of
\* the end of sessions
LiveSpec == Spec /\ \A h \in Handlers : WF_vars(Step(h))

\* Every request ends, without being cancelled.
RequestEnds == \A h \in Handlers : []<>(handlers[h].pc = "idle")
=============================================================================
