------------------------- MODULE ControlArtifactPool -------------------------
(***************************************************************************)
(* The pool of one-shot control artifacts that the runtime keeps so that   *)
(* it can always reconnect to its Portal, and the durable spend ledger     *)
(* that burns every artifact before a byte of it is sent.                  *)
(*                                                                         *)
(*   internal/agent/control_artifact_pool.go     top-up protocol           *)
(*   internal/agent/control_artifact_source.go   acquire, spend, ledger    *)
(*   internal/config/{config,bootstrap,cloud_association,                  *)
(*                    config_persistence}.go     pool contract, disk       *)
(*                                                                         *)
(* Processes: the connection controller of the Flowersec SDK, which asks   *)
(* for leases and commits them (Acquire, CommitSpendLedger,                *)
(* CommitPoolSpend, Recover...); the heartbeat goroutine, which tops the   *)
(* pool up (PrepareTopUp ... ClearTopUp); the Portal, which mints          *)
(* artifacts; the clock; and a crash of the process at any point.          *)
(* Every critical section of Agent.mu is one action.  SaveConnection       *)
(* writes a temporary file, renames it and syncs the directory, so a       *)
(* failed save leaves either the old or the new configuration on disk.     *)
(*                                                                         *)
(* An artifact is identified by <<generation, sequence>>: its digest, its  *)
(* channel and its JSON are in one-to-one correspondence with that pair.   *)
(* ControlArtifactEntry.Revoked is never set by the code and is left out.  *)
(***************************************************************************)
EXTENDS Integers, FiniteSets

CONSTANTS
    Leases,           \* artifact leases the SDK may hold at the same time
    DataArtifacts,    \* data-plane artifacts, burned through the same ledger
    NoPool,           \* Config.ControlArtifactPool = nil
    TargetWaterline,  \* ControlArtifactTargetWaterline (2)
    MaxPoolEntries,   \* ControlArtifactMaxPoolEntries (8)
    MaxOutstanding,   \* ControlArtifactMaxOutstanding (4)
    MaxTopUpEntries,  \* ControlArtifactMaxTopUpEntries (4)
    RefreshHorizon,   \* ControlArtifactRefreshHorizonS (60 s)
    MaxLifetime,      \* an accepted artifact expires within 5 minutes
    ConnectTimeout,   \* ConnectorOptions.ConnectTimeout (15 s)
    Retention,        \* artifactSpendLedgerRetention (1 h)
    MaxLedgerEntries, \* artifactSpendLedgerMaxEntries (65 536)
    DataExpiry,       \* expiry of the data-plane artifacts
    MaxGeneration, MaxSequence, MaxRequests, MaxTime  \* bounds of the model

\* The contract constants of the code satisfy all of these.
ASSUME PoolContract ==
    /\ {TargetWaterline, MaxPoolEntries, MaxOutstanding, MaxTopUpEntries} \subseteq Nat \ {0}
    /\ {RefreshHorizon, ConnectTimeout, DataExpiry, MaxLedgerEntries} \subseteq Nat
    /\ MaxLifetime \in Nat /\ MaxLifetime > RefreshHorizon
    /\ Retention \in Nat /\ Retention > 0
    /\ {MaxGeneration, MaxSequence} \subseteq Nat \ {0}
    /\ {MaxRequests, MaxTime} \subseteq Nat
    /\ TargetWaterline <= MaxOutstanding

\* An attempt to connect ends before an artifact chosen at its start expires.
ASSUME LeaseBeforeExpiry == ConnectTimeout <= RefreshHorizon

\* Whatever expires while a top-up is in flight, the response still fits.
ASSUME RoomForTopUp == MaxOutstanding + MaxTopUpEntries <= MaxPoolEntries

ASSUME NamesAreDistinct ==
    /\ DataArtifacts \cap ((1..MaxGeneration) \X (1..MaxSequence)) = {}

Generations == 1..MaxGeneration
Sequences == 1..MaxSequence
Requests == 1..MaxRequests
Artifacts == Generations \X Sequences
Burnable == Artifacts \cup DataArtifacts

(***************************************************************************)
(* A pool.  entries[s] is "none" when the list has no entry of sequence s, *)
(* "live" when the entry is unspent and keeps its JSON, "erased" when it   *)
(* is unspent but normalisation dropped its JSON, "spent" when it is spent *)
(* (which drops its JSON too).  The list is ordered by sequence.           *)
(***************************************************************************)
EntryStates == {"none", "live", "erased", "spent"}
RecoveryStates == {"ready", "degraded", "exhausted", "relink_required"}
TopUpStates == {"pending", "applied", "acked", "terminal"}
NoTopUp == [id |-> 0, state |-> "none"]
PendingTopUps == {NoTopUp} \cup [id : Requests, state : TopUpStates]

ControlArtifactPools ==
    [generation : Generations, entries : [Sequences -> EntryStates],
     recovery : RecoveryStates, pending : PendingTopUps,
     lastTerminal : {0} \cup Requests]

ASSUME NilIsNoPool == NoPool \notin ControlArtifactPools

Configs == [generation : Generations, pool : ControlArtifactPools \cup {NoPool}]

NoEntries == [s \in Sequences |-> "none"]

VARIABLES
    now,              \* wall clock, seconds
    expires,          \* expiry of every minted artifact; 0: not minted yet
    mem,              \* Agent.cfg
    disk,             \* the configuration file
    ledger,           \* tombstone of each artifact in flowersec-spend/
    leases,           \* leases handed to the SDK
    rejected,         \* Agent.controlBusinessRejected
    source,           \* controlArtifactSource.Acquire: idle or in recovery
    maint,            \* maintainControlArtifactPool: program counter and locals
    usedRequests,     \* request identities drawn so far
    replies,          \* Portal: entries minted for each top-up request
    ackedRequests,    \* Portal: requests whose acknowledgement it processed
    controlArtifact,  \* Agent.controlArtifact, {} or one artifact
    fate              \* history: what became of each artifact

vars == <<now, expires, mem, disk, ledger, leases, rejected, source, maint,
          usedRequests, replies, ackedRequests, controlArtifact, fate>>

portalVars == <<usedRequests, replies, ackedRequests>>
leaseVars == <<ledger, leases, controlArtifact, fate>>

FreeLease == [pc |-> "free", artifact |-> <<1, 1>>, deadline |-> 0]
IdleMaint == [pc |-> "idle", id |-> 0, generation |-> 1, snapshot |-> NoEntries,
              response |-> {}]

LeaseRecords == [pc : {"free", "held", "burned"}, artifact : Artifacts, deadline : Nat]
MaintRecords ==
    {IdleMaint} \cup
    [pc : {"topup", "apply", "fail", "expire", "expireack", "snap", "ack", "mark", "clear"},
     id : Requests, generation : Generations,
     snapshot : [Sequences -> EntryStates], response : SUBSET Sequences]

TypeOK ==
    /\ now \in Nat
    /\ expires \in [Burnable -> Nat]
    /\ mem \in Configs /\ disk \in Configs
    /\ ledger \in [Burnable -> {"absent", "torn", "committed"}]
    /\ leases \in [Leases -> LeaseRecords]
    /\ rejected \in BOOLEAN
    /\ source \in {"idle", "recovering"}
    /\ maint \in MaintRecords
    /\ usedRequests \in 0..MaxRequests
    /\ replies \in [Requests -> [generation : {0} \cup Generations, entries : SUBSET Sequences]]
    /\ ackedRequests \in SUBSET Requests
    /\ controlArtifact \in SUBSET Artifacts
    /\ fate \in [Burnable -> {"fresh", "burned", "spent", "twice"}]

----------------------------------------------------------------------------
(* Helpers on entries and pools. *)

Live(e) == {s \in Sequences : e[s] = "live"}
Terminal(e) == {s \in Sequences : e[s] \in {"erased", "spent"}}
Present(e) == {s \in Sequences : e[s] # "none"}

Expiry(g, s) == expires[<<g, s>>]

usableSet(g, e) == {s \in Live(e) : Expiry(g, s) > now + RefreshHorizon}
outstandingSet(g, e) == {s \in Live(e) : Expiry(g, s) > now}

\* sequence numbers above every entry of the list
AboveHighest(e) == {s \in Sequences : \A t \in Present(e) : t < s}

\* The oldest terminal entries make room; a live one is never dropped.
compactEntries(e) ==
    LET over == Cardinality(Present(e)) - MaxPoolEntries
    IN  [s \in Sequences |->
            IF s \in Terminal(e) /\ Cardinality({t \in Terminal(e) : t < s}) < over
            THEN "none" ELSE e[s]]

MutEraseInHorizon(g, e) ==
    compactEntries([s \in Sequences |->
        IF e[s] = "live" /\ Expiry(g, s) <= now + RefreshHorizon THEN "erased" ELSE e[s]])

\* entry list with the JSON of expired entries erased, then compacted
normalizeEntries(g, e) ==
    compactEntries([s \in Sequences |->
        IF e[s] = "live" /\ Expiry(g, s) <= now THEN "erased" ELSE e[s]])

\* every unspent entry with a tombstone becomes spent
reconcileEntries(g, e) ==
    [s \in Sequences |->
        IF e[s] \in {"live", "erased"} /\ ledger[<<g, s>>] # "absent"
        THEN "spent" ELSE e[s]]

\* what prepareControlArtifactTopUp and acquireControlArtifactEntry do first
Refreshed(p) ==
    [p EXCEPT !.entries = normalizeEntries(p.generation, reconcileEntries(p.generation, p.entries))]

Usable(p) == usableSet(p.generation, p.entries)
ReadyOrDegraded(p) ==
    IF Cardinality(Usable(p)) >= TargetWaterline THEN "ready" ELSE "degraded"

\* ControlArtifactPool.Validate, as far as the list of entries decides it
ValidPool(p) ==
    /\ Cardinality(Present(p.entries)) <= MaxPoolEntries
    /\ \A s \in Present(p.entries) :
          Expiry(p.generation, s) > now => p.entries[s] # "erased"
    /\ Cardinality(outstandingSet(p.generation, p.entries)) <= MaxOutstanding

\* first..last: a run of consecutive sequence numbers
Runs == {i..j : i, j \in Sequences}

WithPool(p) == [mem EXCEPT !.pool = p]

\* config.SaveConnection succeeds, and the caller publishes the saved value
Save(next) == disk' = next /\ mem' = next

\* it fails before or after the rename; memory keeps its value
SaveFails(next) == disk' \in {disk, next} /\ mem' = mem

SaveOrFail(next) == Save(next) \/ SaveFails(next)

\* nothing is written when the pool did not change
SaveIfChanged(p) ==
    IF p = mem.pool THEN UNCHANGED <<mem, disk>> ELSE Save(WithPool(p))

----------------------------------------------------------------------------
(* The bootstrap delivery: sequences from 1, saved before the agent runs. *)

DeliveredPool(g, run) ==
    [generation |-> g, entries |-> [s \in Sequences |-> IF s \in run THEN "live" ELSE "none"],
     recovery |-> "ready", pending |-> NoTopUp, lastTerminal |-> 0]

Init ==
    /\ now = 1
    /\ \E run \in {1..j : j \in Sequences} :
          /\ Cardinality(run) \in TargetWaterline..MaxOutstanding
          /\ expires = [x \in Burnable |->
                           IF x \in {<<1, s>> : s \in run} THEN 1 + MaxLifetime
                           ELSE IF x \in DataArtifacts THEN DataExpiry ELSE 0]
          /\ disk = [generation |-> 1, pool |-> DeliveredPool(1, run)]
    /\ mem = disk
    /\ ledger = [x \in Burnable |-> "absent"]
    /\ leases = [l \in Leases |-> FreeLease]
    /\ rejected = FALSE
    /\ source = "idle"
    /\ maint = IdleMaint
    /\ usedRequests = 0
    /\ replies = [r \in Requests |-> [generation |-> 0, entries |-> {}]]
    /\ ackedRequests = {}
    /\ controlArtifact = {}
    /\ fate = [x \in Burnable |-> "fresh"]

----------------------------------------------------------------------------
(* The clock, and a crash followed by a restart from the configuration file. *)

Tick ==
    /\ now < MaxTime
    /\ now' = now + 1
    /\ UNCHANGED <<expires, mem, disk, portalVars, leaseVars, rejected, source, maint>>

\* A tombstone whose fsync was not confirmed may or may not survive.
Crash ==
    /\ mem' = disk
    /\ \E lost \in SUBSET {x \in Burnable : ledger[x] = "torn"} :
          ledger' = [x \in Burnable |-> IF x \in lost THEN "absent" ELSE ledger[x]]
    /\ leases' = [l \in Leases |-> FreeLease]
    /\ rejected' = FALSE
    /\ source' = "idle"
    /\ maint' = IdleMaint
    /\ controlArtifact' = {}
    /\ UNCHANGED <<now, expires, disk, portalVars, fate>>

----------------------------------------------------------------------------
(* The artifact source: Acquire and the recovery it falls back on. *)

ToRecovery ==
    /\ source' = "recovering"
    /\ UNCHANGED leases

\* the first entry of the list that may still be used
HandOut(l, p) ==
    /\ \E s \in Usable(p) :
          /\ \A t \in Usable(p) : s <= t
          /\ leases' = [leases EXCEPT ![l] =
                           [pc |-> "held", artifact |-> <<p.generation, s>>,
                            deadline |-> now + ConnectTimeout]]
    /\ UNCHANGED source

AcquireFails == UNCHANGED <<leases, source>>

\* the pool acquireControlArtifactEntry persists before it looks at entries
AcquirePool(p) ==
    LET q == Refreshed(p)
    IN  IF Cardinality(Usable(q)) < TargetWaterline /\ q.recovery = "ready"
        THEN [q EXCEPT !.recovery = "degraded"] ELSE q

NeedsRelink(p) == p.recovery = "relink_required" \/ p.pending.state = "terminal"

Acquire(l) ==
    /\ leases[l].pc = "free"
    /\ source = "idle"
    /\ UNCHANGED <<now, expires, ledger, rejected, maint, portalVars, controlArtifact, fate>>
    /\ \/ (rejected \/ mem.pool = NoPool) /\ ToRecovery /\ UNCHANGED <<mem, disk>>
       \/ /\ ~rejected /\ mem.pool # NoPool
          /\ LET q == AcquirePool(mem.pool)
                 x == [q EXCEPT !.recovery = "exhausted"]
             IN  \/ /\ q # mem.pool
                    /\ SaveFails(WithPool(q))
                    /\ AcquireFails
                 \/ /\ NeedsRelink(q)
                    /\ SaveIfChanged(q)
                    /\ ToRecovery
                 \/ /\ ~NeedsRelink(q) /\ Usable(q) # {}
                    /\ SaveIfChanged(q)
                    /\ HandOut(l, q)
                 \/ /\ ~NeedsRelink(q) /\ Usable(q) = {}
                    /\ SaveIfChanged(x)
                    /\ ToRecovery
                 \/ /\ ~NeedsRelink(q) /\ Usable(q) = {} /\ x # q
                    /\ mem' = WithPool(q)
                    /\ disk' \in {IF q = mem.pool THEN disk ELSE WithPool(q), WithPool(x)}
                    /\ AcquireFails

\* lifetimes the Portal gives to what it mints
Lifetimes == (RefreshHorizon + 1)..MaxLifetime

\* Portal: no number is skipped, none is given twice
MintedInOrder(g, run) ==
    \A s \in run : Expiry(g, s) = 0 =>
        \A t \in Sequences : t < s => (t \in run \/ Expiry(g, t) # 0)

Minted(g, run, life) ==
    [x \in Burnable |-> IF x \in {<<g, s>> : s \in run} /\ expires[x] = 0
                       THEN now + life ELSE expires[x]]

\* Recovery is approved: the delivered pool replaces the reserve.  The Portal
\* may repeat an earlier delivery; the code refuses one that does not advance
\* the sequence, but only while it still has a reserve to compare it with.
RecoverApproved ==
    /\ source = "recovering"
    /\ source' = "idle"
    /\ \E g \in Generations \cap {mem.generation, mem.generation + 1},
          run \in Runs, life \in Lifetimes :
          /\ Cardinality(run) \in TargetWaterline..MaxOutstanding
          /\ MintedInOrder(g, run)
          /\ expires' = Minted(g, run, life)
          /\ \A s \in run : expires'[<<g, s>>] \in (now + RefreshHorizon + 1)..(now + MaxLifetime)
          /\ (mem.pool # NoPool /\ mem.pool.generation = g) => run \subseteq AboveHighest(mem.pool.entries)
          /\ LET next == [generation |-> g, pool |-> DeliveredPool(g, run)]
             IN  \/ Save(next) /\ rejected' = FALSE
                 \/ SaveFails(next) /\ UNCHANGED rejected
    /\ UNCHANGED <<now, portalVars, leaseVars, maint>>

\* Recovery is refused.  The reserve goes even when the save fails.
RecoverRefused ==
    /\ source = "recovering"
    /\ source' = "idle"
    /\ rejected' = TRUE
    /\ \E g \in Generations \cap {mem.generation, mem.generation + 1} :
          LET next == [generation |-> g, pool |-> NoPool]
          IN  \/ Save(next)
              \/ mem' = WithPool(NoPool) /\ disk' \in {disk, next}
    /\ UNCHANGED <<now, expires, portalVars, leaseVars, maint>>

\* recordCloudTerminal: memory takes the new value whatever the save does
RecoverTerminal ==
    /\ source = "recovering"
    /\ source' = "idle"
    /\ rejected' = TRUE
    /\ mem' = WithPool(NoPool)
    /\ disk' \in {disk, WithPool(NoPool)}
    /\ UNCHANGED <<now, expires, portalVars, leaseVars, maint>>

\* any other error of recovery; the SDK retries later
RecoverFails ==
    /\ source = "recovering"
    /\ source' = "idle"
    /\ UNCHANGED <<now, expires, mem, disk, portalVars, leaseVars, rejected, maint>>

----------------------------------------------------------------------------
(* Interventions of the rest of the agent. *)

\* applyCloudClosure: the fence is in memory first ...
FencePool ==
    /\ mem' = WithPool(NoPool)
    /\ rejected' = TRUE
    /\ UNCHANGED <<now, expires, disk, portalVars, leaseVars, source, maint>>

\* ... and reaches the disk with the closure receipt.
PersistReceipt ==
    /\ rejected
    /\ disk' = mem
    /\ UNCHANGED <<now, expires, mem, portalVars, leaseVars, rejected, source, maint>>

\* startControlChannel: cancels what is in flight and forgets the rejection
RestartChannel ==
    /\ maint.pc \in {"idle", "topup", "ack"}
    /\ rejected' = FALSE
    /\ source' = "idle"
    /\ maint' = IdleMaint
    /\ UNCHANGED <<now, expires, mem, disk, portalVars, leaseVars>>

\* a 401, 403 or 409 answer to register or heartbeat
SessionRejected ==
    /\ rejected' = TRUE
    /\ UNCHANGED <<now, expires, mem, disk, portalVars, leaseVars, source, maint>>

----------------------------------------------------------------------------
(* Spending a lease: tombstone first, then the pool. *)

MutPruneAtExpiry(keepTorn) ==
    [x \in Burnable |->
        IF now + Retention >= expires[x] /\ ~(keepTorn /\ ledger[x] = "torn")
        THEN "absent" ELSE ledger[x]]

\* Tombstones past their retention go.  A torn one goes only if its record
\* happens to be readable.
pruneLedger(keepTorn) ==
    [x \in Burnable |->
        IF now >= expires[x] + Retention /\ ~(keepTorn /\ ledger[x] = "torn")
        THEN "absent" ELSE ledger[x]]

\* createSpendLedgerEntry succeeds: no tombstone, room, create, fsync
CanBurn(x, pruned) ==
    /\ pruned[x] = "absent"
    /\ Cardinality({y \in Burnable : pruned[y] # "absent"}) < MaxLedgerEntries

Burn(x) ==
    \E keepTorn \in BOOLEAN :
        LET pruned == pruneLedger(keepTorn)
        IN  CanBurn(x, pruned) /\ ledger' = [pruned EXCEPT ![x] = "committed"]

\* it fails: refused, or an I/O error that may leave a torn tombstone behind
BurnFails(x) ==
    \E keepTorn \in BOOLEAN :
        LET pruned == pruneLedger(keepTorn)
        IN  \/ ledger' \in {ledger, pruned}
            \/ CanBurn(x, pruned) /\ ledger' = [pruned EXCEPT ![x] = "torn"]

\* The SDK commits a lease during the connect attempt it was acquired for.
CommitSpendLedger(l) ==
    LET a == leases[l].artifact
    IN  /\ leases[l].pc = "held"
        /\ now <= leases[l].deadline
        /\ \/ /\ Burn(a)
              /\ leases' = [leases EXCEPT ![l].pc = "burned"]
              /\ fate' = [fate EXCEPT ![a] = IF fate[a] = "fresh" THEN "burned" ELSE fate[a]]
           \/ /\ BurnFails(a)
              /\ leases' = [leases EXCEPT ![l] = FreeLease]
              /\ UNCHANGED fate
        /\ UNCHANGED <<now, expires, mem, disk, portalVars, rejected, source, maint, controlArtifact>>

AbandonLease(l) ==
    /\ leases[l].pc = "held"
    /\ leases' = [leases EXCEPT ![l] = FreeLease]
    /\ UNCHANGED <<now, expires, mem, disk, portalVars, rejected, source, maint,
                   ledger, controlArtifact, fate>>

Used(x) == [fate EXCEPT ![x] = IF fate[x] = "spent" THEN "twice" ELSE "spent"]

SpendableIn(a, cfg) ==
    /\ cfg.pool # NoPool
    /\ cfg.generation = a[1]
    /\ cfg.pool.generation = a[1]
    /\ cfg.pool.entries[a[2]] = "live"

\* Second half of commitControlArtifactPoolSpend.  When the save fails the
\* entry is spent in memory all the same, and the lease is not confirmed.
CommitPoolSpend(l) ==
    LET a == leases[l].artifact
        next == WithPool([mem.pool EXCEPT !.entries[a[2]] = "spent"])
    IN  /\ leases[l].pc = "burned"
        /\ leases' = [leases EXCEPT ![l] = FreeLease]
        /\ \/ /\ ~SpendableIn(a, mem)
              /\ UNCHANGED <<mem, disk, controlArtifact, fate>>
           \/ /\ SpendableIn(a, mem)
              /\ Save(next)
              /\ controlArtifact' = {a}
              /\ fate' = Used(a)
           \/ /\ SpendableIn(a, mem)
              /\ mem' = next
              /\ disk' \in {disk, next}
              /\ UNCHANGED <<controlArtifact, fate>>
        /\ UNCHANGED <<now, expires, portalVars, ledger, rejected, source, maint>>

\* commitDataArtifactSpend, also called during a connect attempt
CommitDataSpend(d) ==
    /\ now < expires[d]
    /\ \/ Burn(d) /\ fate' = Used(d)
       \/ BurnFails(d) /\ UNCHANGED fate
    /\ UNCHANGED <<now, expires, mem, disk, portalVars, leases, rejected, source,
                   maint, controlArtifact>>

----------------------------------------------------------------------------
(* Top-up: maintainControlArtifactPool, run by the heartbeat goroutine. *)

MaintIdle == maint' = IdleMaint
MaintAt(pc) == maint' = [maint EXCEPT !.pc = pc]

\* samePendingControlArtifactTopUp against the current configuration
SamePending(state) ==
    /\ mem.pool # NoPool
    /\ mem.pool.generation = maint.generation
    /\ mem.pool.pending = [id |-> maint.id, state |-> state]

\* an acknowledged request is forgotten before a new one is considered
ForgetAcked(p) ==
    IF p.pending.state = "acked" THEN [p EXCEPT !.pending = NoTopUp] ELSE p

StartMaint(p, pc) ==
    maint' = [pc |-> pc, id |-> p.pending.id, generation |-> p.generation,
              snapshot |-> p.entries, response |-> {}]

PreparedPool(p) == ForgetAcked(Refreshed(p))

MutPrepareForgetsOpen ==
    /\ maint.pc = "idle"
    /\ mem.pool # NoPool
    /\ mem.pool.pending = NoTopUp
    /\ usedRequests < MaxRequests
    /\ Cardinality(Usable(Refreshed(mem.pool))) < TargetWaterline
    /\ usedRequests' = usedRequests + 1
    /\ LET asked == [Refreshed(mem.pool) EXCEPT !.pending = [id |-> usedRequests + 1, state |-> "pending"]]
       IN  Save(WithPool(asked)) /\ StartMaint(asked, "topup")
    /\ UNCHANGED <<now, expires, leaseVars, rejected, source, replies, ackedRequests>>

\* prepareControlArtifactTopUp, one critical section
PrepareTopUp ==
    /\ maint.pc = "idle"
    /\ mem.pool # NoPool
    /\ UNCHANGED <<now, expires, leaseVars, rejected, source, replies, ackedRequests>>
    /\ LET q == PreparedPool(mem.pool)
           enough == Cardinality(Usable(q)) >= TargetWaterline
           ready == [q EXCEPT !.recovery = "ready"]
           asked == [q EXCEPT !.recovery = "degraded",
                              !.pending = [id |-> usedRequests + 1, state |-> "pending"]]
       IN  \/ /\ q.pending # NoTopUp
              /\ SaveIfChanged(q)
              /\ CASE q.pending.state = "pending" -> StartMaint(q, "topup")
                   [] q.pending.state = "applied" -> StartMaint(q, "ack")
                   [] OTHER -> UNCHANGED maint
              /\ UNCHANGED usedRequests
           \/ /\ q.pending # NoTopUp /\ q # mem.pool
              /\ SaveFails(WithPool(q))
              /\ UNCHANGED <<maint, usedRequests>>
           \/ /\ q.pending = NoTopUp /\ enough
              /\ SaveIfChanged(ready) \/ (ready # mem.pool /\ SaveFails(WithPool(ready)))
              /\ UNCHANGED <<maint, usedRequests>>
           \/ /\ q.pending = NoTopUp /\ ~enough
              /\ usedRequests < MaxRequests
              /\ usedRequests' = usedRequests + 1
              /\ \/ Save(WithPool(asked)) /\ StartMaint(asked, "topup")
                 \/ SaveFails(WithPool(asked)) /\ UNCHANGED maint

\* Portal: a request is answered once; a repeated request gets the same answer
PortalTopUp ==
    /\ maint.pc = "topup"
    /\ replies[maint.id].generation = 0
    /\ \E run \in Runs, life \in Lifetimes :
          /\ Cardinality(run) <= MaxTopUpEntries
          /\ \A s \in run : Expiry(maint.generation, s) = 0
          /\ MintedInOrder(maint.generation, run)
          /\ expires' = Minted(maint.generation, run, life)
          /\ replies' = [replies EXCEPT ![maint.id] =
                            [generation |-> maint.generation, entries |-> run]]
    /\ UNCHANGED <<now, mem, disk, leaseVars, rejected, source, maint, usedRequests, ackedRequests>>

MutNoOutstandingBound(q) ==
    LET run == replies[q].entries
    IN  /\ q = maint.id
        /\ replies[q].generation = maint.generation
        /\ Cardinality(run) <= MaxTopUpEntries
        /\ run \subseteq AboveHighest(maint.snapshot)
        /\ \A s \in run : Expiry(maint.generation, s)
              \in (now + RefreshHorizon + 1)..(now + MaxLifetime)

\* validateControlArtifactPoolTopUpResponse, against the pool as it was when
\* the request was prepared
ValidResponse(q) ==
    LET run == replies[q].entries
    IN  /\ q = maint.id
        /\ replies[q].generation = maint.generation
        /\ Cardinality(run) <= MaxTopUpEntries
        /\ run \subseteq AboveHighest(maint.snapshot)
        /\ \A s \in run : Expiry(maint.generation, s)
              \in (now + RefreshHorizon + 1)..(now + MaxLifetime)
        /\ Cardinality(outstandingSet(maint.generation, maint.snapshot)) + Cardinality(run)
              <= MaxOutstanding

\* An answer arrives: that of this request or, out of place, that of another.
TopUpAnswered ==
    /\ maint.pc = "topup"
    /\ \E q \in Requests :
          /\ replies[q].generation # 0
          /\ maint' = [maint EXCEPT
                          !.pc = IF ValidResponse(q) THEN "apply" ELSE "fail",
                          !.response = IF ValidResponse(q) THEN replies[q].entries ELSE {}]
    /\ UNCHANGED <<now, expires, mem, disk, leaseVars, rejected, source, portalVars>>

\* A malformed answer or a 409 "relink required" is terminal, a 409 "expired"
\* is recorded, and any other error keeps the request for the next heartbeat.
TopUpError ==
    /\ maint.pc = "topup"
    /\ MaintAt("fail") \/ MaintAt("expire") \/ MaintIdle
    /\ UNCHANGED <<now, expires, mem, disk, leaseVars, rejected, source, portalVars>>

AppliedPool(p) ==
    LET e == compactEntries([s \in Sequences |->
                 IF s \in maint.response THEN "live" ELSE p.entries[s]])
        q == [p EXCEPT !.entries = e, !.pending = [id |-> maint.id, state |-> "applied"]]
    IN  [q EXCEPT !.recovery = ReadyOrDegraded(q)]

MutApplyIgnoresSaveError ==
    LET next == AppliedPool(mem.pool)
        accepted == SamePending("pending") /\ ValidPool(next)
    IN  /\ maint.pc = "apply"
        /\ \/ ~accepted /\ MaintIdle /\ UNCHANGED <<mem, disk>>
           \/ /\ accepted /\ MaintAt("snap")
              /\ mem' = WithPool(next) /\ disk' \in {disk, WithPool(next)}
        /\ UNCHANGED <<now, expires, leaseVars, rejected, source, portalVars>>

\* applyControlArtifactTopUp
ApplyTopUp ==
    LET next == AppliedPool(mem.pool)
        accepted == SamePending("pending") /\ ValidPool(next)
    IN  /\ maint.pc = "apply"
        /\ \/ ~accepted /\ MaintIdle /\ UNCHANGED <<mem, disk>>
           \/ accepted /\ Save(WithPool(next)) /\ MaintAt("snap")
           \/ accepted /\ SaveFails(WithPool(next)) /\ MaintIdle
        /\ UNCHANGED <<now, expires, leaseVars, rejected, source, portalVars>>

\* controlArtifactPendingSnapshot
SnapshotPending ==
    /\ maint.pc = "snap"
    /\ IF mem.pool # NoPool /\ mem.pool.pending.state = "applied"
       THEN StartMaint(mem.pool, "ack") ELSE MaintIdle
    /\ UNCHANGED <<now, expires, mem, disk, leaseVars, rejected, source, portalVars>>

\* markControlArtifactTopUpTerminal
MarkTerminal ==
    /\ maint.pc = "fail"
    /\ MaintIdle
    /\ \/ ~SamePending("pending") /\ UNCHANGED <<mem, disk>>
       \/ /\ SamePending("pending")
          /\ SaveOrFail(WithPool([mem.pool EXCEPT !.pending.state = "terminal",
                                                 !.recovery = "relink_required"]))
    /\ UNCHANGED <<now, expires, leaseVars, rejected, source, portalVars>>

ExpiredPool(p) ==
    LET q == [p EXCEPT !.lastTerminal = maint.id, !.pending = NoTopUp,
                       !.entries = normalizeEntries(p.generation, p.entries)]
    IN  [q EXCEPT !.recovery = ReadyOrDegraded(q)]

\* recordExpiredControlArtifactTopUp
RecordExpired ==
    /\ maint.pc \in {"expire", "expireack"}
    /\ MaintIdle
    /\ LET state == IF maint.pc = "expire" THEN "pending" ELSE "applied"
       IN  \/ ~SamePending(state) /\ UNCHANGED <<mem, disk>>
           \/ SamePending(state) /\ SaveOrFail(WithPool(ExpiredPool(mem.pool)))
    /\ UNCHANGED <<now, expires, leaseVars, rejected, source, portalVars>>

\* Portal: an acknowledgement, which it may process without its answer arriving
PortalAck ==
    /\ maint.pc = "ack"
    /\ maint.id \notin ackedRequests
    /\ ackedRequests' = ackedRequests \cup {maint.id}
    /\ UNCHANGED <<now, expires, mem, disk, leaseVars, rejected, source, maint, usedRequests, replies>>

AckAnswered ==
    /\ maint.pc = "ack"
    /\ maint.id \in ackedRequests
    /\ MaintAt("mark")
    /\ UNCHANGED <<now, expires, mem, disk, leaseVars, rejected, source, portalVars>>

AckError ==
    /\ maint.pc = "ack"
    /\ MaintAt("expireack") \/ MaintIdle
    /\ UNCHANGED <<now, expires, mem, disk, leaseVars, rejected, source, portalVars>>

\* markControlArtifactTopUpAcknowledged
MarkAcknowledged ==
    /\ maint.pc = "mark"
    /\ LET next == WithPool([mem.pool EXCEPT !.pending.state = "acked"])
       IN  \/ ~SamePending("applied") /\ MaintIdle /\ UNCHANGED <<mem, disk>>
           \/ SamePending("applied") /\ Save(next) /\ MaintAt("clear")
           \/ SamePending("applied") /\ SaveFails(next) /\ MaintIdle
    /\ UNCHANGED <<now, expires, leaseVars, rejected, source, portalVars>>

\* clearAcknowledgedControlArtifactTopUp
ClearTopUp ==
    /\ maint.pc = "clear"
    /\ MaintIdle
    /\ \/ ~SamePending("acked") /\ UNCHANGED <<mem, disk>>
       \/ SamePending("acked") /\ SaveOrFail(WithPool([mem.pool EXCEPT !.pending = NoTopUp]))
    /\ UNCHANGED <<now, expires, leaseVars, rejected, source, portalVars>>

----------------------------------------------------------------------------
Maintainer ==
    \/ PrepareTopUp \/ TopUpAnswered \/ TopUpError \/ ApplyTopUp \/ SnapshotPending
    \/ MarkTerminal \/ RecordExpired \/ AckAnswered \/ AckError
    \/ MarkAcknowledged \/ ClearTopUp

Portal == PortalTopUp \/ PortalAck

Connector ==
    \/ \E l \in Leases : Acquire(l) \/ CommitSpendLedger(l) \/ AbandonLease(l) \/ CommitPoolSpend(l)
    \/ RecoverApproved \/ RecoverRefused \/ RecoverTerminal \/ RecoverFails

Environment ==
    \/ Tick \/ Crash \/ FencePool \/ PersistReceipt \/ RestartChannel \/ SessionRejected
    \/ \E d \in DataArtifacts : CommitDataSpend(d)

Next == Maintainer \/ Portal \/ Connector \/ Environment

Spec == Init /\ [][Next]_vars

\* While a session lasts the heartbeat runs the maintainer again and again; the
\* Portal answers and a save succeeds infinitely often when tried infinitely
\* often.  Nothing is assumed about crashes, restarts, closures or the clock.
TopUpFairness ==
    /\ SF_vars(PrepareTopUp /\ maint'.pc # "idle")
    /\ SF_vars(Portal)
    /\ SF_vars(TopUpAnswered \/ AckAnswered)
    /\ SF_vars(\/ ApplyTopUp /\ maint'.pc = "snap"
               \/ MarkTerminal /\ mem' # mem
               \/ MarkAcknowledged /\ maint'.pc = "clear")
    /\ SF_vars(SnapshotPending)
    /\ WF_vars(ApplyTopUp \/ MarkTerminal \/ RecordExpired \/ MarkAcknowledged \/ ClearTopUp)

LiveSpec == Spec /\ TopUpFairness

----------------------------------------------------------------------------
(* Properties. *)

\* An artifact is confirmed to the SDK at most once, whatever crashes, failed
\* saves, overlapping leases, repeated deliveries and ledger pruning do
\* between two attempts (createSpendLedgerEntry, commitControlArtifactPoolSpend).
SingleSpend == \A x \in Burnable : fate[x] # "twice"

\* Acquire never hands out an artifact that the ledger has already burned, not
\* even when a crash or a failed save kept the pool from recording the spend
\* (reconcileControlArtifactPoolSpendLedger).
NoBurnedHandout ==
    [][\A l \in Leases :
          (leases[l].pc = "free" /\ leases'[l].pc = "held") =>
              ledger[leases'[l].artifact] = "absent"]_vars

\* No step of the top-up protocol or of spending drops an entry that has not
\* expired: compaction and normalisation only ever lose terminal ones
\* (compactControlArtifactEntries, normalizeControlArtifactPool).
OutstandingNeverDropped ==
    [][(Maintainer \/ \E l \in Leases : Acquire(l) \/ CommitPoolSpend(l)) =>
          (mem.pool # NoPool =>
              \A s \in outstandingSet(mem.pool.generation, mem.pool.entries) :
                  mem'.pool.entries[s] \in {"live", "spent"})]_vars

\* Once the Portal has processed the acknowledgement of a request, neither the
\* running configuration nor the one a crash would bring back still has that
\* request unapplied, and both hold what it delivered (apply before ack).
HoldsAcked(cfg) ==
    \A r \in ackedRequests :
        (cfg.pool # NoPool /\ cfg.pool.pending.id = r) =>
            /\ cfg.pool.pending.state \in {"applied", "acked"}
            /\ replies[r].entries \cap AboveHighest(cfg.pool.entries) = {}

AckedMeansDurable == HoldsAcked(mem) /\ HoldsAcked(disk)

\* A validated response for the request that is still pending always fits: the
\* fail-closed check of the resulting pool never refuses it, although entries
\* were spent and expired while the request was in flight.
ValidResponseFits ==
    (maint.pc = "apply" /\ SamePending("pending")) => ValidPool(AppliedPool(mem.pool))

\* A request that was persisted does not stay open for ever: it is acknowledged,
\* expires, ends terminal, or its pool goes.  A lost answer, a
\* failed save or a crash in the middle only delays this, because the heartbeat
\* resumes the persisted request (prepareControlArtifactTopUp).
Open(r) ==
    /\ mem.pool # NoPool
    /\ mem.pool.pending.id = r
    /\ mem.pool.pending.state \in {"pending", "applied"}

RequestResolved == \A r \in Requests : []<>~Open(r)
=============================================================================
