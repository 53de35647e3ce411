---------------------- MODULE ControlArtifactPoolProofs ----------------------
(***************************************************************************)
(* Proofs about ControlArtifactPool, for every value of its constants.     *)
(***************************************************************************)
EXTENDS ControlArtifactPool, FiniteSetTheorems, WellFoundedInduction, TLAPS

Entries == [Sequences -> EntryStates]

----------------------------------------------------------------------------
(* The helpers return well-formed entry lists and pools. *)

\* Compaction, normalisation and reconciliation map entry lists to entry lists.
LEMMA EntriesClosed ==
    ASSUME NEW g, NEW e \in Entries
    PROVE  /\ compactEntries(e) \in Entries
           /\ normalizeEntries(g, e) \in Entries
           /\ reconcileEntries(g, e) \in Entries
<1>1. ASSUME NEW f \in Entries PROVE compactEntries(f) \in Entries
  BY <1>1 DEF compactEntries, Entries, EntryStates
<1>2. [s \in Sequences |-> IF e[s] = "live" /\ Expiry(g, s) <= now THEN "erased" ELSE e[s]] \in Entries
  BY DEF Entries, EntryStates
<1>3. normalizeEntries(g, e) \in Entries
  BY <1>1, <1>2 DEF normalizeEntries
<1>4. reconcileEntries(g, e) \in Entries
  BY DEF reconcileEntries, Entries, EntryStates
<1> QED BY <1>1, <1>3, <1>4

\* Every pool the handlers compute from a well-formed pool is well formed.
LEMMA PoolsClosed ==
    ASSUME NEW p \in ControlArtifactPools
    PROVE  /\ Refreshed(p) \in ControlArtifactPools
           /\ AcquirePool(p) \in ControlArtifactPools
           /\ PreparedPool(p) \in ControlArtifactPools
<1>1. Refreshed(p) \in ControlArtifactPools
  <2>1. p.entries \in Entries BY DEF ControlArtifactPools, Entries
  <2>2. normalizeEntries(p.generation, reconcileEntries(p.generation, p.entries)) \in Entries
    BY <2>1, EntriesClosed
  <2> QED BY <2>2 DEF Refreshed, ControlArtifactPools, Entries
<1>2. AcquirePool(p) \in ControlArtifactPools
  BY <1>1 DEF AcquirePool, ControlArtifactPools, RecoveryStates
<1>3. PreparedPool(p) \in ControlArtifactPools
  BY <1>1 DEF PreparedPool, ForgetAcked, ControlArtifactPools, PendingTopUps
<1> QED BY <1>1, <1>2, <1>3

\* A pool that was applied to, or whose request expired, is well formed.
LEMMA TopUpPoolsClosed ==
    ASSUME NEW p \in ControlArtifactPools, maint \in MaintRecords, maint # IdleMaint
    PROVE  /\ AppliedPool(p) \in ControlArtifactPools
           /\ ExpiredPool(p) \in ControlArtifactPools
<1>0. p.entries \in Entries BY DEF ControlArtifactPools, Entries
<1>a. maint.id \in Requests BY DEF MaintRecords
<1>1. ASSUME NEW q \in ControlArtifactPools
      PROVE  [q EXCEPT !.recovery = ReadyOrDegraded(q)] \in ControlArtifactPools
  <2>1. ReadyOrDegraded(q) \in RecoveryStates BY DEF ReadyOrDegraded, RecoveryStates
  <2> QED BY <1>1, <2>1 DEF ControlArtifactPools
<1>2. AppliedPool(p) \in ControlArtifactPools
  <2> DEFINE e == compactEntries([s \in Sequences |->
                 IF s \in maint.response THEN "live" ELSE p.entries[s]])
             q == [p EXCEPT !.entries = e, !.pending = [id |-> maint.id, state |-> "applied"]]
  <2>1. [s \in Sequences |-> IF s \in maint.response THEN "live" ELSE p.entries[s]] \in Entries
    BY <1>0 DEF Entries, EntryStates
  <2>2. e \in Entries BY <2>1, EntriesClosed
  <2>3. [id |-> maint.id, state |-> "applied"] \in PendingTopUps
    BY <1>a DEF PendingTopUps, TopUpStates
  <2>4. q \in ControlArtifactPools
    <3> HIDE DEF e
    <3> QED BY <2>2, <2>3 DEF ControlArtifactPools, Entries
  <2>5. AppliedPool(p) = [q EXCEPT !.recovery = ReadyOrDegraded(q)] BY DEF AppliedPool
  <2> HIDE DEF q
  <2> QED BY <1>1, <2>4, <2>5
<1>3. ExpiredPool(p) \in ControlArtifactPools
  <2> DEFINE q == [p EXCEPT !.lastTerminal = maint.id, !.pending = NoTopUp,
                       !.entries = normalizeEntries(p.generation, p.entries)]
  <2>1. normalizeEntries(p.generation, p.entries) \in Entries BY <1>0, EntriesClosed
  <2>2. q \in ControlArtifactPools
    BY <2>1, <1>a DEF ControlArtifactPools, Entries, PendingTopUps
  <2>3. ExpiredPool(p) = [q EXCEPT !.recovery = ReadyOrDegraded(q)] BY DEF ExpiredPool
  <2> HIDE DEF q
  <2> QED BY <1>1, <2>2, <2>3
<1> QED BY <1>2, <1>3

----------------------------------------------------------------------------
(* Type correctness. *)

\* The part of TypeOK about the two copies of the configuration.
ConfigsOK == mem \in Configs /\ disk \in Configs

\* Replacing the pool of the configuration keeps it a configuration.
LEMMA WithPoolType ==
    ASSUME ConfigsOK, NEW p \in ControlArtifactPools \cup {NoPool}
    PROVE  WithPool(p) \in Configs
BY DEF ConfigsOK, Configs, WithPool

\* Saving a configuration, with or without success, keeps both copies typed.
LEMMA SaveType ==
    ASSUME ConfigsOK, NEW c \in Configs
    PROVE  /\ Save(c) => ConfigsOK'
           /\ SaveFails(c) => ConfigsOK'
           /\ SaveOrFail(c) => ConfigsOK'
BY DEF ConfigsOK, Save, SaveFails, SaveOrFail

\* The same for the conditional save.
LEMMA SaveIfChangedType ==
    ASSUME ConfigsOK, NEW p \in ControlArtifactPools, SaveIfChanged(p)
    PROVE  ConfigsOK'
<1>1. WithPool(p) \in Configs BY WithPoolType
<1>2. CASE p = mem.pool BY <1>2 DEF SaveIfChanged, ConfigsOK
<1>3. CASE p # mem.pool BY <1>1, <1>3, SaveType DEF SaveIfChanged
<1> QED BY <1>2, <1>3

\* The bootstrap state is well typed.
LEMMA InitType == Init => TypeOK
<1> SUFFICES ASSUME Init PROVE TypeOK OBVIOUS
<1> USE PoolContract
<1>1. PICK run \in {1..j : j \in Sequences} :
          /\ expires = [x \in Burnable |->
                           IF x \in {<<1, s>> : s \in run} THEN 1 + MaxLifetime
                           ELSE IF x \in DataArtifacts THEN DataExpiry ELSE 0]
          /\ disk = [generation |-> 1, pool |-> DeliveredPool(1, run)]
  BY DEF Init
<1>2. 1 \in Generations /\ 1 \in Sequences BY DEF Generations, Sequences
<1>3. expires \in [Burnable -> Nat] BY <1>1
<1>4. DeliveredPool(1, run) \in ControlArtifactPools
  BY <1>2 DEF DeliveredPool, ControlArtifactPools, EntryStates, RecoveryStates, PendingTopUps
<1>5. disk \in Configs /\ mem \in Configs
  BY <1>1, <1>2, <1>4 DEF Configs, Init
<1>6. leases \in [Leases -> LeaseRecords]
  BY <1>2 DEF Init, FreeLease, LeaseRecords, Artifacts
<1>7. maint \in MaintRecords BY DEF Init, MaintRecords
<1>8. usedRequests \in 0..MaxRequests /\ now \in Nat BY DEF Init
<1>9. replies \in [Requests -> [generation : {0} \cup Generations, entries : SUBSET Sequences]]
  BY DEF Init
<1>10. /\ ledger \in [Burnable -> {"absent", "torn", "committed"}]
       /\ fate \in [Burnable -> {"fresh", "burned", "spent", "twice"}]
  BY DEF Init
<1>11. /\ rejected \in BOOLEAN
       /\ source \in {"idle", "recovering"}
       /\ ackedRequests \in SUBSET Requests
       /\ controlArtifact \in SUBSET Artifacts
  BY DEF Init
<1> QED BY <1>3, <1>5, <1>6, <1>7, <1>8, <1>9, <1>10, <1>11 DEF TypeOK

\* Every pool the configuration holds is well formed.
LEMMA CurrentPoolType ==
    ASSUME TypeOK, mem.pool # NoPool
    PROVE  mem.pool \in ControlArtifactPools
BY DEF TypeOK, Configs

\* What the artifact source does keeps the types.
LEMMA AcquireType ==
    ASSUME TypeOK, NEW l \in Leases, Acquire(l)
    PROVE  TypeOK'
<1> USE PoolContract
<1>0. ConfigsOK BY DEF TypeOK, ConfigsOK
<1>1. SUFFICES ConfigsOK' /\ leases' \in [Leases -> LeaseRecords] /\ source' \in {"idle", "recovering"}
  BY DEF Acquire, TypeOK, ConfigsOK, portalVars
<1>2. CASE (rejected \/ mem.pool = NoPool) /\ ToRecovery /\ UNCHANGED <<mem, disk>>
  BY <1>2 DEF ToRecovery, TypeOK, ConfigsOK
<1>3. ASSUME mem.pool # NoPool, NEW q, q = AcquirePool(mem.pool),
             NEW x, x = [q EXCEPT !.recovery = "exhausted"]
      PROVE  q \in ControlArtifactPools /\ x \in ControlArtifactPools
  <2>1. q \in ControlArtifactPools BY <1>3, CurrentPoolType, PoolsClosed
  <2> QED BY <1>3, <2>1 DEF ControlArtifactPools, RecoveryStates
<1>4. ASSUME NEW q \in ControlArtifactPools, HandOut(l, q)
      PROVE  leases' \in [Leases -> LeaseRecords] /\ source' \in {"idle", "recovering"}
  <2>1. PICK s \in Usable(q) : leases' = [leases EXCEPT ![l] =
                                 [pc |-> "held", artifact |-> <<q.generation, s>>,
                                  deadline |-> now + ConnectTimeout]]
    BY <1>4 DEF HandOut
  <2>2. <<q.generation, s>> \in Artifacts
    BY DEF Usable, usableSet, Live, Artifacts, ControlArtifactPools
  <2>3. now + ConnectTimeout \in Nat BY DEF TypeOK
  <2>4. [pc |-> "held", artifact |-> <<q.generation, s>>, deadline |-> now + ConnectTimeout] \in LeaseRecords
    BY <2>2, <2>3 DEF LeaseRecords
  <2> QED BY <1>4, <2>1, <2>4 DEF HandOut, TypeOK
<1>5. ASSUME ~(rejected \/ mem.pool = NoPool) PROVE <1>1!1
  <2> DEFINE q == AcquirePool(mem.pool)
             x == [q EXCEPT !.recovery = "exhausted"]
  <2>1. q \in ControlArtifactPools /\ x \in ControlArtifactPools BY <1>3, <1>5
  <2>2. WithPool(q) \in Configs /\ WithPool(x) \in Configs BY <1>0, <2>1, WithPoolType
  <2>3. (AcquireFails \/ ToRecovery) => leases' \in [Leases -> LeaseRecords] /\ source' \in {"idle", "recovering"}
    BY DEF AcquireFails, ToRecovery, TypeOK
  <2>4. CASE q # mem.pool /\ SaveFails(WithPool(q)) /\ AcquireFails
    BY <1>0, <2>2, <2>3, <2>4, SaveType
  <2>5. CASE NeedsRelink(q) /\ SaveIfChanged(q) /\ ToRecovery
    BY <1>0, <2>1, <2>3, <2>5, SaveIfChangedType
  <2>6. CASE ~NeedsRelink(q) /\ Usable(q) # {} /\ SaveIfChanged(q) /\ HandOut(l, q)
    BY <1>0, <1>4, <2>1, <2>6, SaveIfChangedType
  <2>7. CASE ~NeedsRelink(q) /\ Usable(q) = {} /\ SaveIfChanged(x) /\ ToRecovery
    BY <1>0, <2>1, <2>3, <2>7, SaveIfChangedType
  <2>8. CASE /\ ~NeedsRelink(q) /\ Usable(q) = {} /\ x # q
             /\ mem' = WithPool(q)
             /\ disk' \in {IF q = mem.pool THEN disk ELSE WithPool(q), WithPool(x)}
             /\ AcquireFails
    BY <1>0, <2>2, <2>3, <2>8 DEF ConfigsOK
  <2> QED BY <1>5, <2>4, <2>5, <2>6, <2>7, <2>8 DEF Acquire
<1> QED BY <1>2, <1>5 DEF Acquire

\* A pool delivered by bootstrap or recovery is well formed.
LEMMA DeliveredType ==
    ASSUME NEW g \in Generations, NEW run
    PROVE  [generation |-> g, pool |-> DeliveredPool(g, run)] \in Configs
<1>1. DeliveredPool(g, run) \in ControlArtifactPools
  <2>1. [s \in Sequences |-> IF s \in run THEN "live" ELSE "none"] \in [Sequences -> EntryStates]
    BY DEF EntryStates
  <2>2. "ready" \in RecoveryStates /\ NoTopUp \in PendingTopUps
    BY DEF RecoveryStates, PendingTopUps
  <2> QED BY <2>1, <2>2 DEF DeliveredPool, ControlArtifactPools
<1> QED BY <1>1 DEF Configs

\* Minting gives natural expiry times.
LEMMA MintedType ==
    ASSUME TypeOK, NEW g, NEW run, NEW life \in Lifetimes
    PROVE  Minted(g, run, life) \in [Burnable -> Nat]
<1>1. now + life \in Nat BY PoolContract DEF TypeOK, Lifetimes
<1> QED BY <1>1 DEF TypeOK, Minted

\* The recovery actions keep the types.
LEMMA RecoverType ==
    ASSUME TypeOK,
           RecoverApproved \/ RecoverRefused \/ RecoverTerminal \/ RecoverFails
    PROVE  TypeOK'
<1>0. ConfigsOK BY DEF TypeOK, ConfigsOK
<1>1. CASE RecoverApproved
  <2>1. PICK g \in Generations, run \in Runs, life \in Lifetimes :
           /\ expires' = Minted(g, run, life)
           /\ LET next == [generation |-> g, pool |-> DeliveredPool(g, run)]
              IN  \/ Save(next) /\ rejected' = FALSE
                  \/ SaveFails(next) /\ UNCHANGED rejected
    BY <1>1 DEF RecoverApproved
  <2>2. expires' \in [Burnable -> Nat] BY <2>1, MintedType
  <2>3. ConfigsOK' BY <1>0, <2>1, DeliveredType, SaveType
  <2>4. rejected' \in BOOLEAN BY <2>1 DEF TypeOK
  <2> QED BY <1>1, <2>2, <2>3, <2>4 DEF RecoverApproved, TypeOK, ConfigsOK, portalVars, leaseVars
<1>2. CASE RecoverRefused
  <2>1. PICK g \in Generations :
           LET next == [generation |-> g, pool |-> NoPool]
           IN  \/ Save(next)
               \/ mem' = WithPool(NoPool) /\ disk' \in {disk, next}
    BY <1>2 DEF RecoverRefused
  <2>2. [generation |-> g, pool |-> NoPool] \in Configs BY DEF Configs
  <2>3. WithPool(NoPool) \in Configs BY <1>0, WithPoolType
  <2>4. ConfigsOK' BY <1>0, <2>1, <2>2, <2>3, SaveType DEF ConfigsOK
  <2> QED BY <1>2, <2>4 DEF RecoverRefused, TypeOK, ConfigsOK, portalVars, leaseVars
<1>3. CASE RecoverTerminal
  <2>1. WithPool(NoPool) \in Configs BY <1>0, WithPoolType
  <2> QED BY <1>3, <2>1 DEF RecoverTerminal, TypeOK, portalVars, leaseVars
<1>4. CASE RecoverFails BY <1>4 DEF RecoverFails, TypeOK, portalVars, leaseVars
<1> QED BY <1>1, <1>2, <1>3, <1>4

\* The clock, crashes and the interventions of the agent keep the types.
LEMMA EnvironmentType == ASSUME TypeOK, Environment PROVE TypeOK'
<1>0. FreeLease \in LeaseRecords
  BY PoolContract DEF FreeLease, LeaseRecords, Artifacts, Generations, Sequences
<1>1. CASE Tick BY <1>1 DEF Tick, TypeOK, portalVars, leaseVars
<1>2. CASE Crash
  <2>1. ledger' \in [Burnable -> {"absent", "torn", "committed"}] BY <1>2 DEF Crash, TypeOK
  <2>2. leases' \in [Leases -> LeaseRecords] BY <1>0, <1>2 DEF Crash
  <2>3. maint' \in MaintRecords BY <1>2 DEF Crash, MaintRecords
  <2> QED BY <1>2, <2>1, <2>2, <2>3 DEF Crash, TypeOK, portalVars
<1>3. CASE FencePool
  <2>1. WithPool(NoPool) \in Configs BY WithPoolType DEF TypeOK, ConfigsOK
  <2> QED BY <1>3, <2>1 DEF FencePool, TypeOK, portalVars, leaseVars
<1>4. CASE PersistReceipt BY <1>4 DEF PersistReceipt, TypeOK, portalVars, leaseVars
<1>5. CASE RestartChannel
  BY <1>5 DEF RestartChannel, TypeOK, MaintRecords, portalVars, leaseVars
<1>6. CASE SessionRejected BY <1>6 DEF SessionRejected, TypeOK, portalVars, leaseVars
<1>7. ASSUME NEW d \in DataArtifacts, CommitDataSpend(d) PROVE TypeOK'
  <2>1. ledger' \in [Burnable -> {"absent", "torn", "committed"}]
    BY <1>7 DEF CommitDataSpend, Burn, BurnFails, pruneLedger, TypeOK
  <2>2. fate' \in [Burnable -> {"fresh", "burned", "spent", "twice"}]
    BY <1>7 DEF CommitDataSpend, Used, TypeOK
  <2> QED BY <1>7, <2>1, <2>2 DEF CommitDataSpend, TypeOK, portalVars
<1> QED BY <1>1, <1>2, <1>3, <1>4, <1>5, <1>6, <1>7 DEF Environment

\* Committing and abandoning leases keeps the types.
LEMMA SpendType ==
    ASSUME TypeOK, NEW l \in Leases,
           CommitSpendLedger(l) \/ AbandonLease(l) \/ CommitPoolSpend(l)
    PROVE  TypeOK'
<1>0. FreeLease \in LeaseRecords
  BY PoolContract DEF FreeLease, LeaseRecords, Artifacts, Generations, Sequences
<1>a. leases[l] \in LeaseRecords BY DEF TypeOK
<1> DEFINE a == leases[l].artifact
<1>b. a \in Artifacts BY <1>a DEF LeaseRecords
<1>1. CASE CommitSpendLedger(l)
  <2>1. ledger' \in [Burnable -> {"absent", "torn", "committed"}]
    BY <1>1 DEF CommitSpendLedger, Burn, BurnFails, pruneLedger, TypeOK
  <2>2. fate' \in [Burnable -> {"fresh", "burned", "spent", "twice"}]
    BY <1>1, <1>b DEF CommitSpendLedger, TypeOK, Burnable
  <2>3. leases' \in [Leases -> LeaseRecords]
    <3>1. [leases[l] EXCEPT !.pc = "burned"] \in LeaseRecords BY <1>a DEF LeaseRecords
    <3> QED BY <1>0, <1>1, <3>1 DEF CommitSpendLedger, TypeOK
  <2> QED BY <1>1, <2>1, <2>2, <2>3 DEF CommitSpendLedger, TypeOK, portalVars
<1>2. CASE AbandonLease(l)
  <2>1. leases' \in [Leases -> LeaseRecords] BY <1>0, <1>2 DEF AbandonLease, TypeOK
  <2> QED BY <1>2, <2>1 DEF AbandonLease, TypeOK, portalVars
<1>3. CASE CommitPoolSpend(l)
  <2> DEFINE q == [mem.pool EXCEPT !.entries[a[2]] = "spent"]
  <2>1. leases' \in [Leases -> LeaseRecords] BY <1>0, <1>3 DEF CommitPoolSpend, TypeOK
  <2>2. ASSUME SpendableIn(a, mem) PROVE WithPool(q) \in Configs
    <3>1. mem.pool \in ControlArtifactPools BY <2>2, CurrentPoolType DEF SpendableIn
    <3>2. [mem.pool.entries EXCEPT ![a[2]] = "spent"] \in Entries
      BY <3>1 DEF ControlArtifactPools, Entries, EntryStates
    <3>3. q \in ControlArtifactPools BY <3>1, <3>2 DEF ControlArtifactPools, Entries
    <3> QED BY <3>3, WithPoolType DEF TypeOK, ConfigsOK
  <2>3. ConfigsOK'
    <3> HIDE DEF q
    <3>1. CASE SpendableIn(a, mem)
      <4>1. mem' = WithPool(q) /\ disk' \in {disk, WithPool(q)}
        BY <1>3, <3>1 DEF CommitPoolSpend, Save, q
      <4> QED BY <2>2, <3>1, <4>1 DEF TypeOK, ConfigsOK
    <3>2. CASE ~SpendableIn(a, mem)
      BY <1>3, <3>2 DEF CommitPoolSpend, TypeOK, ConfigsOK
    <3> QED BY <3>1, <3>2
  <2>4. fate' \in [Burnable -> {"fresh", "burned", "spent", "twice"}]
    BY <1>3 DEF CommitPoolSpend, Used, TypeOK
  <2>5. controlArtifact' \in SUBSET Artifacts
    BY <1>3, <1>b DEF CommitPoolSpend, TypeOK
  <2> QED BY <1>3, <2>1, <2>3, <2>4, <2>5 DEF CommitPoolSpend, TypeOK, ConfigsOK, portalVars
<1> QED BY <1>1, <1>2, <1>3

\* What the Portal does keeps the types.
LEMMA PortalType == ASSUME TypeOK, Portal PROVE TypeOK'
<1>1. CASE PortalTopUp
  <2>1. maint.id \in Requests /\ maint.generation \in Generations
    BY <1>1 DEF PortalTopUp, TypeOK, MaintRecords, IdleMaint
  <2>2. PICK run \in Runs, life \in Lifetimes :
          /\ expires' = Minted(maint.generation, run, life)
          /\ replies' = [replies EXCEPT ![maint.id] =
                            [generation |-> maint.generation, entries |-> run]]
    BY <1>1 DEF PortalTopUp
  <2>3. run \in SUBSET Sequences BY PoolContract DEF Runs, Sequences
  <2>4. expires' \in [Burnable -> Nat] BY <2>2, MintedType
  <2>5. replies' \in [Requests -> [generation : {0} \cup Generations, entries : SUBSET Sequences]]
    BY <2>1, <2>2, <2>3 DEF TypeOK
  <2> QED BY <1>1, <2>4, <2>5 DEF PortalTopUp, TypeOK, leaseVars
<1>2. CASE PortalAck
  <2>1. maint.id \in Requests BY <1>2 DEF PortalAck, TypeOK, MaintRecords, IdleMaint
  <2> QED BY <1>2, <2>1 DEF PortalAck, TypeOK, leaseVars
<1> QED BY <1>1, <1>2 DEF Portal

\* Preparing a top-up keeps the types.
LEMMA PrepareType == ASSUME TypeOK, PrepareTopUp PROVE TypeOK'
<1>0. ConfigsOK BY DEF TypeOK, ConfigsOK
<1> DEFINE q == PreparedPool(mem.pool)
           ready == [q EXCEPT !.recovery = "ready"]
           asked == [q EXCEPT !.recovery = "degraded",
                              !.pending = [id |-> usedRequests + 1, state |-> "pending"]]
<1>1. mem.pool \in ControlArtifactPools BY CurrentPoolType DEF PrepareTopUp
<1>2. q \in ControlArtifactPools BY <1>1, PoolsClosed
<1>3. ready \in ControlArtifactPools
  <2> HIDE DEF q
  <2> QED BY <1>2 DEF ControlArtifactPools, RecoveryStates
<1>4. ASSUME usedRequests < MaxRequests
      PROVE  asked \in ControlArtifactPools /\ usedRequests + 1 \in 0..MaxRequests /\ asked.pending.id \in Requests
  <2> HIDE DEF q
  <2>1. usedRequests + 1 \in Requests /\ usedRequests + 1 \in 0..MaxRequests
    BY <1>4, PoolContract DEF TypeOK, Requests
  <2>2. [id |-> usedRequests + 1, state |-> "pending"] \in PendingTopUps
    BY <2>1 DEF PendingTopUps, TopUpStates
  <2> QED BY <1>2, <2>1, <2>2 DEF ControlArtifactPools, RecoveryStates
<1>5. ASSUME NEW p \in ControlArtifactPools, p.pending.id \in Requests,
             NEW pc \in {"topup", "ack"}, StartMaint(p, pc)
      PROVE  maint' \in MaintRecords
  BY <1>5 DEF StartMaint, MaintRecords, ControlArtifactPools
<1>6. q.pending.state \in {"pending", "applied"} => q.pending.id \in Requests
  <2> HIDE DEF q
  <2> QED BY <1>2 DEF ControlArtifactPools, PendingTopUps, NoTopUp
<1>7. WithPool(q) \in Configs /\ WithPool(ready) \in Configs BY <1>0, <1>2, <1>3, WithPoolType
<1>8. SUFFICES ConfigsOK' /\ maint' \in MaintRecords /\ usedRequests' \in 0..MaxRequests
  BY DEF PrepareTopUp, TypeOK, ConfigsOK, leaseVars
<1>9. maint \in MaintRecords /\ usedRequests \in 0..MaxRequests BY DEF TypeOK
<1>10. CASE /\ q.pending # NoTopUp
            /\ SaveIfChanged(q)
            /\ CASE q.pending.state = "pending" -> StartMaint(q, "topup")
                 [] q.pending.state = "applied" -> StartMaint(q, "ack")
                 [] OTHER -> UNCHANGED maint
            /\ UNCHANGED usedRequests
  <2> HIDE DEF q
  <2>1. ConfigsOK' BY <1>0, <1>2, <1>10, SaveIfChangedType
  <2>2. maint' \in MaintRecords
    <3>1. CASE q.pending.state = "pending" BY <1>2, <1>5, <1>6, <1>10, <3>1
    <3>2. CASE q.pending.state = "applied" BY <1>2, <1>5, <1>6, <1>10, <3>2
    <3>3. CASE q.pending.state \notin {"pending", "applied"} BY <1>9, <1>10, <3>3
    <3> QED BY <3>1, <3>2, <3>3
  <2> QED BY <1>9, <1>10, <2>1, <2>2
<1>11. CASE /\ q.pending # NoTopUp /\ q # mem.pool
            /\ SaveFails(WithPool(q))
            /\ UNCHANGED <<maint, usedRequests>>
  BY <1>0, <1>7, <1>9, <1>11, SaveType
<1>12. CASE /\ SaveIfChanged(ready) \/ (ready # mem.pool /\ SaveFails(WithPool(ready)))
            /\ UNCHANGED <<maint, usedRequests>>
  BY <1>0, <1>3, <1>7, <1>9, <1>12, SaveType, SaveIfChangedType
<1>13. CASE /\ usedRequests < MaxRequests
            /\ usedRequests' = usedRequests + 1
            /\ \/ Save(WithPool(asked)) /\ StartMaint(asked, "topup")
               \/ SaveFails(WithPool(asked)) /\ UNCHANGED maint
  <2>1. WithPool(asked) \in Configs BY <1>0, <1>4, <1>13, WithPoolType
  <2>2. ConfigsOK' BY <1>0, <1>13, <2>1, SaveType
  <2>3. maint' \in MaintRecords
    <3> HIDE DEF asked
    <3> QED BY <1>4, <1>5, <1>9, <1>13
  <2> QED BY <1>4, <1>13, <2>2, <2>3
<1> QED BY <1>10, <1>11, <1>12, <1>13 DEF PrepareTopUp

\* The other steps of the top-up protocol keep the types.
LEMMA MaintainerType == ASSUME TypeOK, Maintainer PROVE TypeOK'
<1>0. ConfigsOK BY DEF TypeOK, ConfigsOK
<1>a. IdleMaint \in MaintRecords BY DEF MaintRecords
<1>b. ASSUME maint.pc # "idle",
             NEW pc \in {"topup", "apply", "fail", "expire", "expireack", "snap", "ack", "mark", "clear"},
             MaintAt(pc)
      PROVE  maint' \in MaintRecords
  BY <1>b DEF MaintAt, MaintRecords, TypeOK, IdleMaint
<1>c. maint.pc # "idle" => maint # IdleMaint /\ maint.id \in Requests
  BY DEF IdleMaint, TypeOK, MaintRecords
<1>d. ASSUME NEW state, SamePending(state) PROVE mem.pool \in ControlArtifactPools
  BY <1>d, CurrentPoolType DEF SamePending
<1>1. CASE PrepareTopUp BY <1>1, PrepareType
<1>2. CASE TopUpAnswered
  <2>1. PICK r \in Requests :
          maint' = [maint EXCEPT
                          !.pc = IF ValidResponse(r) THEN "apply" ELSE "fail",
                          !.response = IF ValidResponse(r) THEN replies[r].entries ELSE {}]
    BY <1>2 DEF TopUpAnswered
  <2>2. replies[r].entries \in SUBSET Sequences BY DEF TypeOK
  <2>3. maint' \in MaintRecords
    <3> DEFINE pc == IF ValidResponse(r) THEN "apply" ELSE "fail"
               response == IF ValidResponse(r) THEN replies[r].entries ELSE {}
    <3>1. pc \in {"apply", "fail"} /\ response \in SUBSET Sequences BY <2>2
    <3>2. maint # IdleMaint BY <1>2, <1>c DEF TopUpAnswered
    <3>3. maint' = [maint EXCEPT !.pc = pc, !.response = response] BY <2>1
    <3> HIDE DEF pc, response
    <3> QED BY <3>1, <3>2, <3>3 DEF TypeOK, MaintRecords
  <2> QED BY <1>2, <2>3 DEF TopUpAnswered, TypeOK, leaseVars, portalVars
<1>3. CASE TopUpError
  <2>1. maint' \in MaintRecords BY <1>3, <1>a, <1>b DEF TopUpError, MaintIdle
  <2> QED BY <1>3, <2>1 DEF TopUpError, TypeOK, leaseVars, portalVars
<1>4. CASE ApplyTopUp
  <2>1. ASSUME SamePending("pending") PROVE WithPool(AppliedPool(mem.pool)) \in Configs
    <3>1. AppliedPool(mem.pool) \in ControlArtifactPools
      BY <1>4, <1>c, <1>d, <2>1, TopUpPoolsClosed DEF ApplyTopUp, TypeOK
    <3> QED BY <1>0, <3>1, WithPoolType
  <2>2. ConfigsOK' BY <1>0, <1>4, <2>1, SaveType DEF ApplyTopUp, ConfigsOK
  <2>3. maint' \in MaintRecords BY <1>4, <1>a, <1>b DEF ApplyTopUp, MaintIdle
  <2> QED BY <1>4, <2>2, <2>3 DEF ApplyTopUp, TypeOK, ConfigsOK, leaseVars, portalVars
<1>5. CASE SnapshotPending
  <2>1. CASE mem.pool # NoPool /\ mem.pool.pending.state = "applied"
    <3>1. mem.pool \in ControlArtifactPools BY <2>1, CurrentPoolType
    <3>2. mem.pool.pending.id \in Requests
      BY <2>1, <3>1 DEF ControlArtifactPools, PendingTopUps, NoTopUp
    <3>3. maint' \in MaintRecords
      BY <1>5, <2>1, <3>1, <3>2 DEF SnapshotPending, StartMaint, MaintRecords, ControlArtifactPools
    <3> QED BY <1>5, <3>3 DEF SnapshotPending, TypeOK, leaseVars, portalVars
  <2>2. CASE ~(mem.pool # NoPool /\ mem.pool.pending.state = "applied")
    BY <1>5, <1>a, <2>2 DEF SnapshotPending, MaintIdle, TypeOK, leaseVars, portalVars
  <2> QED BY <2>1, <2>2
<1>6. CASE MarkTerminal
  <2>1. ASSUME SamePending("pending")
        PROVE  WithPool([mem.pool EXCEPT !.pending.state = "terminal",
                                         !.recovery = "relink_required"]) \in Configs
    <3>1. mem.pool \in ControlArtifactPools BY <1>d, <2>1
    <3>2. mem.pool.pending = [id |-> maint.id, state |-> "pending"] /\ maint.id \in Requests
      BY <1>6, <1>c, <2>1 DEF SamePending, MarkTerminal
    <3>3. [mem.pool.pending EXCEPT !.state = "terminal"] \in PendingTopUps
      BY <3>2 DEF PendingTopUps, TopUpStates
    <3>4. [mem.pool EXCEPT !.pending.state = "terminal", !.recovery = "relink_required"] \in ControlArtifactPools
      BY <3>1, <3>3 DEF ControlArtifactPools, RecoveryStates
    <3> QED BY <1>0, <3>4, WithPoolType
  <2>2. ConfigsOK' BY <1>0, <1>6, <2>1, SaveType DEF MarkTerminal, ConfigsOK
  <2> QED BY <1>6, <1>a, <2>2 DEF MarkTerminal, MaintIdle, TypeOK, ConfigsOK, leaseVars, portalVars
<1>7. CASE RecordExpired
  <2>1. ASSUME NEW state, SamePending(state) PROVE WithPool(ExpiredPool(mem.pool)) \in Configs
    <3>1. ExpiredPool(mem.pool) \in ControlArtifactPools
      BY <1>7, <1>c, <1>d, <2>1, TopUpPoolsClosed DEF RecordExpired, TypeOK
    <3> QED BY <1>0, <3>1, WithPoolType
  <2>2. ConfigsOK' BY <1>0, <1>7, <2>1, SaveType DEF RecordExpired, ConfigsOK
  <2> QED BY <1>7, <1>a, <2>2 DEF RecordExpired, MaintIdle, TypeOK, ConfigsOK, leaseVars, portalVars
<1>8. CASE AckAnswered
  <2>1. maint' \in MaintRecords BY <1>8, <1>b DEF AckAnswered
  <2> QED BY <1>8, <2>1 DEF AckAnswered, TypeOK, leaseVars, portalVars
<1>9. CASE AckError
  <2>1. maint' \in MaintRecords BY <1>9, <1>a, <1>b DEF AckError, MaintIdle
  <2> QED BY <1>9, <2>1 DEF AckError, TypeOK, leaseVars, portalVars
<1>10. CASE MarkAcknowledged
  <2>1. ASSUME SamePending("applied")
        PROVE  WithPool([mem.pool EXCEPT !.pending.state = "acked"]) \in Configs
    <3>1. mem.pool \in ControlArtifactPools BY <1>d, <2>1
    <3>2. mem.pool.pending = [id |-> maint.id, state |-> "applied"] /\ maint.id \in Requests
      BY <1>10, <1>c, <2>1 DEF SamePending, MarkAcknowledged
    <3>3. [mem.pool.pending EXCEPT !.state = "acked"] \in PendingTopUps
      BY <3>2 DEF PendingTopUps, TopUpStates
    <3>4. [mem.pool EXCEPT !.pending.state = "acked"] \in ControlArtifactPools
      BY <3>1, <3>3 DEF ControlArtifactPools
    <3> QED BY <1>0, <3>4, WithPoolType
  <2>2. ConfigsOK' BY <1>0, <1>10, <2>1, SaveType DEF MarkAcknowledged, ConfigsOK
  <2>3. maint' \in MaintRecords BY <1>10, <1>a, <1>b DEF MarkAcknowledged, MaintIdle
  <2> QED BY <1>10, <2>2, <2>3 DEF MarkAcknowledged, TypeOK, ConfigsOK, leaseVars, portalVars
<1>11. CASE ClearTopUp
  <2>1. ASSUME SamePending("acked")
        PROVE  WithPool([mem.pool EXCEPT !.pending = NoTopUp]) \in Configs
    <3>1. mem.pool \in ControlArtifactPools BY <1>d, <2>1
    <3>2. [mem.pool EXCEPT !.pending = NoTopUp] \in ControlArtifactPools
      BY <3>1 DEF ControlArtifactPools, PendingTopUps
    <3> QED BY <1>0, <3>2, WithPoolType
  <2>2. ConfigsOK' BY <1>0, <1>11, <2>1, SaveType DEF ClearTopUp, ConfigsOK
  <2> QED BY <1>11, <1>a, <2>2 DEF ClearTopUp, MaintIdle, TypeOK, ConfigsOK, leaseVars, portalVars
<1> QED BY <1>1, <1>2, <1>3, <1>4, <1>5, <1>6, <1>7, <1>8, <1>9, <1>10, <1>11 DEF Maintainer

\* Every step of the system keeps the types.
LEMMA NextType == TypeOK /\ [Next]_vars => TypeOK'
<1> SUFFICES ASSUME TypeOK, [Next]_vars PROVE TypeOK' OBVIOUS
<1>1. CASE Maintainer BY <1>1, MaintainerType
<1>2. CASE Portal BY <1>2, PortalType
<1>3. CASE Connector BY <1>3, AcquireType, SpendType, RecoverType DEF Connector
<1>4. CASE Environment BY <1>4, EnvironmentType
<1>5. CASE UNCHANGED vars BY <1>5 DEF vars, TypeOK
<1> QED BY <1>1, <1>2, <1>3, <1>4, <1>5 DEF Next

\* The pool, the ledger, the leases and the locals of the maintainer are always
\* well formed: a request identity is never missing where the protocol sends it.
THEOREM TypeCorrect == Spec => []TypeOK
BY InitType, NextType, PTL DEF Spec

----------------------------------------------------------------------------
(***************************************************************************)
(* Single spend.  SingleSpend alone is not inductive: it needs to know     *)
(* that a tombstone outlives every lease that could be committed against   *)
(* it.  SpendInv says so: a lease expires before its artifact, a burned    *)
(* artifact keeps its tombstone until the retention has passed, and the    *)
(* only lease past the ledger is the one that burned its artifact.         *)
(***************************************************************************)
LeaseInv ==
    \A l \in Leases : leases[l].pc # "free" =>
        leases[l].deadline < expires[leases[l].artifact]

BurnedLeaseInv ==
    \A l \in Leases : leases[l].pc = "burned" =>
        /\ fate[leases[l].artifact] = "burned"
        /\ \A k \in Leases : (leases[k].pc = "burned" /\ leases[k].artifact = leases[l].artifact) => k = l

TombstoneInv ==
    \A x \in Burnable : fate[x] # "fresh" =>
        /\ expires[x] > 0
        /\ ledger[x] = "committed" \/ now >= expires[x] + Retention

SpendInv == TypeOK /\ LeaseInv /\ BurnedLeaseInv /\ TombstoneInv /\ SingleSpend

\* The invariant holds initially: nothing is leased, nothing is burned.
LEMMA InitSpend == Init => SpendInv
<1> SUFFICES ASSUME Init PROVE SpendInv OBVIOUS
<1>1. TypeOK BY InitType
<1>2. LeaseInv /\ BurnedLeaseInv BY DEF Init, LeaseInv, BurnedLeaseInv, FreeLease
<1>3. TombstoneInv /\ SingleSpend BY DEF Init, TombstoneInv, SingleSpend
<1> QED BY <1>1, <1>2, <1>3 DEF SpendInv

\* Steps that leave ledger, leases and fate alone preserve the invariant, as
\* long as they keep the expiry of what is already minted and never turn the
\* clock back.
LEMMA QuietStep ==
    ASSUME SpendInv, TypeOK', UNCHANGED <<ledger, leases, fate>>,
           now' >= now, \A x \in Burnable : expires[x] > 0 => expires'[x] = expires[x]
    PROVE  SpendInv'
<1>1. LeaseInv'
  <2> SUFFICES ASSUME NEW l \in Leases, leases[l].pc # "free"
               PROVE  leases[l].deadline < expires'[leases[l].artifact]
    BY DEF LeaseInv
  <2>1. leases[l].artifact \in Burnable /\ leases[l].deadline \in Nat
    BY DEF SpendInv, TypeOK, LeaseRecords, Burnable
  <2>2. leases[l].deadline < expires[leases[l].artifact] BY DEF SpendInv, LeaseInv
  <2>3. expires[leases[l].artifact] \in Nat BY <2>1 DEF SpendInv, TypeOK
  <2> QED BY <2>1, <2>2, <2>3
<1>2. BurnedLeaseInv' BY DEF SpendInv, BurnedLeaseInv
<1>3. TombstoneInv'
  <2> SUFFICES ASSUME NEW x \in Burnable, fate[x] # "fresh"
               PROVE  expires'[x] > 0 /\ (ledger[x] = "committed" \/ now' >= expires'[x] + Retention)
    BY DEF TombstoneInv
  <2>1. expires[x] > 0 /\ (ledger[x] = "committed" \/ now >= expires[x] + Retention)
    BY DEF SpendInv, TombstoneInv
  <2>2. now \in Nat /\ now' \in Nat /\ expires[x] \in Nat BY DEF SpendInv, TypeOK
  <2> QED BY <2>1, <2>2, PoolContract
<1>4. SingleSpend' BY DEF SpendInv, SingleSpend
<1> QED BY <1>1, <1>2, <1>3, <1>4 DEF SpendInv

\* Pruning keeps every tombstone that is still within its retention.
LEMMA PruneKeeps ==
    ASSUME TypeOK, NEW keepTorn \in BOOLEAN, NEW x \in Burnable,
           ledger[x] = "committed", now < expires[x] + Retention
    PROVE  pruneLedger(keepTorn)[x] = "committed"
BY PoolContract DEF pruneLedger, TypeOK

\* So an artifact can be burned before its expiry only if it never was before.
LEMMA BurnIsFirst ==
    ASSUME SpendInv, NEW x \in Burnable, now < expires[x], Burn(x)
    PROVE  fate[x] = "fresh"
<1> SUFFICES ASSUME fate[x] # "fresh" PROVE FALSE OBVIOUS
<1>1. now \in Nat /\ expires[x] \in Nat BY DEF SpendInv, TypeOK
<1>2. now < expires[x] + Retention BY <1>1, PoolContract
<1>3. ledger[x] = "committed" BY <1>1, <1>2, PoolContract DEF SpendInv, TombstoneInv
<1>4. ASSUME NEW keepTorn \in BOOLEAN PROVE pruneLedger(keepTorn)[x] = "committed"
  BY <1>2, <1>3, PruneKeeps DEF SpendInv
<1> QED BY <1>4 DEF Burn, CanBurn

\* Neither a successful nor a failed attempt to burn loses a tombstone that is
\* still needed.
LEMMA BurnKeepsTombstones ==
    ASSUME TypeOK, NEW x \in Burnable, Burn(x) \/ BurnFails(x),
           NEW y \in Burnable, ledger[y] = "committed", now < expires[y] + Retention
    PROVE  ledger'[y] = "committed"
<1>1. ASSUME NEW keepTorn \in BOOLEAN
      PROVE  /\ pruneLedger(keepTorn)[y] = "committed"
             /\ pruneLedger(keepTorn) \in [Burnable -> {"absent", "torn", "committed"}]
  BY PruneKeeps DEF pruneLedger, TypeOK
<1>2. CASE Burn(x)
  <2>1. PICK keepTorn \in BOOLEAN : ledger' = [pruneLedger(keepTorn) EXCEPT ![x] = "committed"]
    BY <1>2 DEF Burn
  <2> QED BY <1>1, <2>1
<1>3. CASE BurnFails(x)
  <2>1. PICK keepTorn \in BOOLEAN :
           \/ ledger' \in {ledger, pruneLedger(keepTorn)}
           \/ /\ CanBurn(x, pruneLedger(keepTorn))
              /\ ledger' = [pruneLedger(keepTorn) EXCEPT ![x] = "torn"]
    BY <1>3 DEF BurnFails
  <2> QED BY <1>1, <2>1 DEF CanBurn
<1> QED BY <1>2, <1>3

\* A successful attempt leaves a tombstone for what it burned.
LEMMA BurnMarks ==
    ASSUME NEW x \in Burnable, Burn(x)
    PROVE  ledger'[x] = "committed"
<1>1. PICK keepTorn \in BOOLEAN : ledger' = [pruneLedger(keepTorn) EXCEPT ![x] = "committed"]
  BY DEF Burn
<1> QED BY <1>1 DEF pruneLedger

\* Minting never changes the expiry of what was minted before.
LEMMA MintKeeps ==
    ASSUME TypeOK, NEW g, NEW run, NEW life, expires' = Minted(g, run, life)
    PROVE  \A x \in Burnable : expires[x] > 0 => expires'[x] = expires[x]
BY DEF Minted, TypeOK

\* The top-up protocol, the Portal, recovery and the interventions are quiet.
LEMMA QuietSteps ==
    ASSUME SpendInv,
           \/ Maintainer \/ Portal
           \/ RecoverApproved \/ RecoverRefused \/ RecoverTerminal \/ RecoverFails
           \/ Tick \/ FencePool \/ PersistReceipt \/ RestartChannel \/ SessionRejected
    PROVE  SpendInv'
<1>0. TypeOK /\ now \in Nat BY DEF SpendInv, TypeOK
<1>1. TypeOK'
  BY <1>0, MaintainerType, PortalType, RecoverType, EnvironmentType DEF Environment
<1>2. ASSUME UNCHANGED <<ledger, leases, fate, now, expires>> PROVE SpendInv'
  BY <1>0, <1>1, <1>2, QuietStep
<1>3. CASE Maintainer
  BY <1>2, <1>3 DEF Maintainer, PrepareTopUp, TopUpAnswered, TopUpError, ApplyTopUp, SnapshotPending,
     MarkTerminal, RecordExpired, AckAnswered, AckError, MarkAcknowledged, ClearTopUp, leaseVars
<1>4. CASE PortalTopUp
  <2>1. \A x \in Burnable : expires[x] > 0 => expires'[x] = expires[x]
    BY <1>0, <1>4, MintKeeps DEF PortalTopUp
  <2> QED BY <1>0, <1>1, <1>4, <2>1, QuietStep DEF PortalTopUp, leaseVars
<1>5. CASE PortalAck BY <1>2, <1>5 DEF PortalAck, leaseVars
<1>6. CASE RecoverApproved
  <2>1. \A x \in Burnable : expires[x] > 0 => expires'[x] = expires[x]
    BY <1>0, <1>6, MintKeeps DEF RecoverApproved
  <2> QED BY <1>0, <1>1, <1>6, <2>1, QuietStep DEF RecoverApproved, leaseVars
<1>7. CASE RecoverRefused \/ RecoverTerminal \/ RecoverFails
  BY <1>2, <1>7 DEF RecoverRefused, RecoverTerminal, RecoverFails, leaseVars
<1>8. CASE Tick
  <2>1. now' >= now BY <1>0, <1>8 DEF Tick
  <2> QED BY <1>1, <1>8, <2>1, QuietStep DEF Tick, leaseVars
<1>9. CASE FencePool \/ PersistReceipt \/ RestartChannel \/ SessionRejected
  BY <1>2, <1>9 DEF FencePool, PersistReceipt, RestartChannel, SessionRejected, leaseVars
<1> QED BY <1>3, <1>4, <1>5, <1>6, <1>7, <1>8, <1>9 DEF Portal

\* A lease handed out ends before its artifact expires.
LEMMA AcquireSpend == ASSUME SpendInv, NEW l \in Leases, Acquire(l) PROVE SpendInv'
<1>0. TypeOK BY DEF SpendInv
<1>1. TypeOK' BY <1>0, AcquireType
<1>2. CASE UNCHANGED leases
  BY <1>0, <1>1, <1>2, QuietStep DEF Acquire, TypeOK
<1>3. CASE ~UNCHANGED leases
  <2>1. PICK q : mem.pool # NoPool /\ q = AcquirePool(mem.pool) /\ HandOut(l, q)
    BY <1>3 DEF Acquire, AcquireFails, ToRecovery
  <2>2. q \in ControlArtifactPools BY <1>0, <2>1, CurrentPoolType, PoolsClosed
  <2>3. PICK s \in Usable(q) : leases' = [leases EXCEPT ![l] =
                                 [pc |-> "held", artifact |-> <<q.generation, s>>,
                                  deadline |-> now + ConnectTimeout]]
    BY <2>1 DEF HandOut
  <2>4. expires[<<q.generation, s>>] > now + RefreshHorizon
    BY DEF Usable, usableSet, Expiry
  <2>5. <<q.generation, s>> \in Burnable
    BY <2>2 DEF Usable, usableSet, Live, Artifacts, Burnable, ControlArtifactPools
  <2>6. now + ConnectTimeout < expires[<<q.generation, s>>]
    BY <1>0, <2>4, <2>5, PoolContract, LeaseBeforeExpiry DEF TypeOK
  <2>7. /\ leases'[l].pc = "held"
        /\ leases'[l].deadline < expires[leases'[l].artifact]
        /\ \A k \in Leases \ {l} : leases'[k] = leases[k]
    BY <1>0, <2>3, <2>6 DEF TypeOK
  <2>8. UNCHANGED <<ledger, fate, now, expires>> BY DEF Acquire
  <2>9. LeaseInv' BY <2>7, <2>8 DEF SpendInv, LeaseInv
  <2>10. BurnedLeaseInv' BY <2>7, <2>8 DEF SpendInv, BurnedLeaseInv
  <2>11. TombstoneInv' /\ SingleSpend' BY <2>8 DEF SpendInv, TombstoneInv, SingleSpend
  <2> QED BY <1>1, <2>9, <2>10, <2>11 DEF SpendInv
<1> QED BY <1>2, <1>3

\* Freeing a lease preserves what the invariant says of the others.
LEMMA FreeKeeps ==
    ASSUME SpendInv, NEW l \in Leases, leases' = [leases EXCEPT ![l] = FreeLease],
           UNCHANGED expires,
           \A k \in Leases \ {l} : leases[k].pc = "burned" =>
               fate'[leases[k].artifact] = fate[leases[k].artifact]
    PROVE  LeaseInv' /\ BurnedLeaseInv'
<1>1. leases'[l].pc = "free" /\ \A k \in Leases \ {l} : leases'[k] = leases[k]
  BY DEF SpendInv, TypeOK, FreeLease
<1>2. LeaseInv' BY <1>1 DEF SpendInv, LeaseInv
<1>3. BurnedLeaseInv' BY <1>1 DEF SpendInv, BurnedLeaseInv
<1> QED BY <1>2, <1>3

\* The ledger step: only the first attempt passes, and it leaves a tombstone.
LEMMA LedgerSpend == ASSUME SpendInv, NEW l \in Leases, CommitSpendLedger(l) PROVE SpendInv'
<1> DEFINE a == leases[l].artifact
<1>0. TypeOK BY DEF SpendInv
<1>1. TypeOK' BY <1>0, SpendType
<1>2. a \in Burnable BY <1>0 DEF TypeOK, LeaseRecords, Burnable
<1>3. now < expires[a]
  <2>1. leases[l].pc # "free" /\ now <= leases[l].deadline BY DEF CommitSpendLedger
  <2>2. now \in Nat /\ leases[l].deadline \in Nat /\ expires[a] \in Nat
    BY <1>0, <1>2 DEF TypeOK, LeaseRecords
  <2> QED BY <2>1, <2>2 DEF SpendInv, LeaseInv
<1>4. UNCHANGED <<now, expires>> BY DEF CommitSpendLedger
<1>5. CASE /\ Burn(a)
           /\ leases' = [leases EXCEPT ![l].pc = "burned"]
           /\ fate' = [fate EXCEPT ![a] = IF fate[a] = "fresh" THEN "burned" ELSE fate[a]]
  <2>1. fate[a] = "fresh" BY <1>2, <1>3, <1>5, BurnIsFirst
  <2>2. fate'[a] = "burned" /\ \A x \in Burnable \ {a} : fate'[x] = fate[x]
    BY <1>0, <1>2, <1>5, <2>1 DEF TypeOK
  <2>3. /\ leases'[l].pc = "burned" /\ leases'[l].artifact = a
        /\ leases'[l].deadline = leases[l].deadline
        /\ \A k \in Leases \ {l} : leases'[k] = leases[k]
    BY <1>0, <1>5 DEF TypeOK, LeaseRecords
  <2>4. LeaseInv' BY <1>4, <2>3 DEF SpendInv, LeaseInv, CommitSpendLedger
  <2>5. \A k \in Leases \ {l} : leases[k].pc = "burned" => leases[k].artifact # a
    BY <2>1 DEF SpendInv, BurnedLeaseInv
  <2>6. \A k \in Leases : leases[k].artifact \in Burnable
    BY <1>0 DEF TypeOK, LeaseRecords, Burnable
  <2>7. BurnedLeaseInv' BY <2>2, <2>3, <2>5, <2>6 DEF SpendInv, BurnedLeaseInv
  <2>8. TombstoneInv'
    <3> SUFFICES ASSUME NEW x \in Burnable, fate'[x] # "fresh"
                 PROVE  expires[x] > 0 /\ (ledger'[x] = "committed" \/ now >= expires[x] + Retention)
      BY <1>4 DEF TombstoneInv
    <3>1. CASE x = a
      BY <1>0, <1>2, <1>3, <1>5, <3>1, BurnMarks DEF TypeOK
    <3>2. CASE x # a
      <4>1. expires[x] > 0 /\ (ledger[x] = "committed" \/ now >= expires[x] + Retention)
        BY <2>2, <3>2 DEF SpendInv, TombstoneInv
      <4>2. now \in Nat /\ expires[x] + Retention \in Nat BY <1>0, PoolContract DEF TypeOK
      <4> QED BY <1>0, <1>2, <1>5, <4>1, <4>2, BurnKeepsTombstones
    <3> QED BY <3>1, <3>2
  <2>9. SingleSpend' BY <2>2 DEF SpendInv, SingleSpend
  <2> QED BY <1>1, <2>4, <2>7, <2>8, <2>9 DEF SpendInv
<1>6. CASE BurnFails(a) /\ leases' = [leases EXCEPT ![l] = FreeLease] /\ UNCHANGED fate
  <2>1. LeaseInv' /\ BurnedLeaseInv' BY <1>4, <1>6, FreeKeeps
  <2>2. TombstoneInv'
    <3> SUFFICES ASSUME NEW x \in Burnable, fate[x] # "fresh"
                 PROVE  expires[x] > 0 /\ (ledger'[x] = "committed" \/ now >= expires[x] + Retention)
      BY <1>4, <1>6 DEF TombstoneInv
    <3>1. expires[x] > 0 /\ (ledger[x] = "committed" \/ now >= expires[x] + Retention)
      BY DEF SpendInv, TombstoneInv
    <3>2. now \in Nat /\ expires[x] + Retention \in Nat BY <1>0, PoolContract DEF TypeOK
    <3> QED BY <1>0, <1>2, <1>6, <3>1, <3>2, BurnKeepsTombstones
  <2> QED BY <1>1, <1>6, <2>1, <2>2 DEF SpendInv, SingleSpend
<1> QED BY <1>5, <1>6 DEF CommitSpendLedger

\* Giving a lease up changes nothing else.
LEMMA AbandonSpend == ASSUME SpendInv, NEW l \in Leases, AbandonLease(l) PROVE SpendInv'
<1>0. TypeOK BY DEF SpendInv
<1>1. TypeOK' BY <1>0, SpendType
<1>2. UNCHANGED <<now, expires, ledger, fate>> /\ leases' = [leases EXCEPT ![l] = FreeLease]
  BY DEF AbandonLease
<1>3. LeaseInv' /\ BurnedLeaseInv' BY <1>2, FreeKeeps
<1>4. TombstoneInv' /\ SingleSpend' BY <1>2 DEF SpendInv, TombstoneInv, SingleSpend
<1> QED BY <1>1, <1>3, <1>4 DEF SpendInv

\* The pool step: the burned lease is the only one of its artifact, so the
\* artifact it confirms was not confirmed before.
LEMMA PoolSpend == ASSUME SpendInv, NEW l \in Leases, CommitPoolSpend(l) PROVE SpendInv'
<1> DEFINE a == leases[l].artifact
<1>0. TypeOK BY DEF SpendInv
<1>1. TypeOK' BY <1>0, SpendType
<1>2. a \in Burnable BY <1>0 DEF TypeOK, LeaseRecords, Burnable
<1>3. leases[l].pc = "burned" /\ UNCHANGED <<now, expires, ledger>>
      /\ leases' = [leases EXCEPT ![l] = FreeLease]
  BY DEF CommitPoolSpend
<1>4. fate[a] = "burned" BY <1>3 DEF SpendInv, BurnedLeaseInv
<1>5. fate' = fate \/ fate' = Used(a) BY DEF CommitPoolSpend
<1>6. fate'[a] \in {"burned", "spent"} /\ \A x \in Burnable \ {a} : fate'[x] = fate[x]
  BY <1>0, <1>2, <1>4, <1>5 DEF Used, TypeOK
<1>7. \A k \in Leases \ {l} : leases[k].pc = "burned" => leases[k].artifact \in Burnable \ {a}
  BY <1>0, <1>3 DEF SpendInv, BurnedLeaseInv, TypeOK, LeaseRecords, Burnable
<1>8. LeaseInv' /\ BurnedLeaseInv' BY <1>3, <1>6, <1>7, FreeKeeps
<1>9. TombstoneInv'
  <2> SUFFICES ASSUME NEW x \in Burnable, fate'[x] # "fresh"
               PROVE  expires[x] > 0 /\ (ledger[x] = "committed" \/ now >= expires[x] + Retention)
    BY <1>3 DEF TombstoneInv
  <2>1. fate[x] # "fresh" BY <1>4, <1>6
  <2> QED BY <2>1 DEF SpendInv, TombstoneInv
<1>10. SingleSpend' BY <1>6 DEF SpendInv, SingleSpend
<1> QED BY <1>1, <1>8, <1>9, <1>10 DEF SpendInv

\* A data-plane artifact passes the same ledger, and no lease is of one.
LEMMA DataSpend == ASSUME SpendInv, NEW d \in DataArtifacts, CommitDataSpend(d) PROVE SpendInv'
<1>0. TypeOK BY DEF SpendInv
<1>1. TypeOK' BY <1>0, EnvironmentType DEF Environment
<1>2. d \in Burnable BY DEF Burnable
<1>3. now < expires[d] /\ UNCHANGED <<now, expires, leases>> BY DEF CommitDataSpend
<1>4. \A l \in Leases : leases[l].artifact \in Burnable \ {d}
  BY <1>0, NamesAreDistinct DEF TypeOK, LeaseRecords, Burnable, Artifacts, Generations, Sequences
<1>5. (Burn(d) /\ fate' = Used(d)) \/ (BurnFails(d) /\ fate' = fate) BY DEF CommitDataSpend
<1>6. /\ \A x \in Burnable \ {d} : fate'[x] = fate[x]
      /\ \/ Burn(d) /\ fate'[d] = "spent"
         \/ BurnFails(d) /\ fate'[d] = fate[d]
  <2>1. CASE Burn(d) /\ fate' = Used(d)
    <3>1. fate[d] = "fresh" BY <1>2, <1>3, <2>1, BurnIsFirst
    <3> QED BY <1>0, <1>2, <2>1, <3>1 DEF Used, TypeOK
  <2>2. CASE BurnFails(d) /\ fate' = fate BY <2>2
  <2> QED BY <1>5, <2>1, <2>2
<1>7. LeaseInv' BY <1>3 DEF SpendInv, LeaseInv
<1>8. BurnedLeaseInv' BY <1>3, <1>4, <1>6 DEF SpendInv, BurnedLeaseInv
<1>9. TombstoneInv'
  <2> SUFFICES ASSUME NEW x \in Burnable, fate'[x] # "fresh"
               PROVE  expires[x] > 0 /\ (ledger'[x] = "committed" \/ now >= expires[x] + Retention)
    BY <1>3 DEF TombstoneInv
  <2>1. CASE fate'[x] = fate[x]
    <3>1. expires[x] > 0 /\ (ledger[x] = "committed" \/ now >= expires[x] + Retention)
      BY <2>1 DEF SpendInv, TombstoneInv
    <3>2. now \in Nat /\ expires[x] + Retention \in Nat BY <1>0, PoolContract DEF TypeOK
    <3> QED BY <1>0, <1>2, <1>6, <3>1, <3>2, BurnKeepsTombstones
  <2>2. CASE x = d /\ Burn(d)
    BY <1>0, <1>2, <1>3, <2>2, BurnMarks DEF TypeOK
  <2> QED BY <1>6, <2>1, <2>2
<1>10. SingleSpend' BY <1>6 DEF SpendInv, SingleSpend
<1> QED BY <1>1, <1>7, <1>8, <1>9, <1>10 DEF SpendInv

\* A crash loses leases and torn tombstones, never a committed one.
LEMMA CrashSpend == ASSUME SpendInv, Crash PROVE SpendInv'
<1>0. TypeOK BY DEF SpendInv
<1>1. TypeOK' BY <1>0, EnvironmentType DEF Environment
<1>2. \A l \in Leases : leases'[l].pc = "free" BY DEF Crash, FreeLease
<1>3. UNCHANGED <<now, expires, fate>> BY DEF Crash
<1>4. \A x \in Burnable : ledger[x] = "committed" => ledger'[x] = "committed"
  <2>1. PICK lost \in SUBSET {x \in Burnable : ledger[x] = "torn"} :
           ledger' = [x \in Burnable |-> IF x \in lost THEN "absent" ELSE ledger[x]]
    BY DEF Crash
  <2> QED BY <2>1
<1>5. LeaseInv' /\ BurnedLeaseInv' BY <1>2 DEF LeaseInv, BurnedLeaseInv
<1>6. TombstoneInv' /\ SingleSpend' BY <1>3, <1>4 DEF SpendInv, TombstoneInv, SingleSpend
<1> QED BY <1>1, <1>5, <1>6 DEF SpendInv

\* Every step preserves the strengthened invariant.
LEMMA NextSpend == SpendInv /\ [Next]_vars => SpendInv'
<1> SUFFICES ASSUME SpendInv, [Next]_vars PROVE SpendInv' OBVIOUS
<1>1. CASE UNCHANGED vars
  BY <1>1 DEF vars, SpendInv, TypeOK, LeaseInv, BurnedLeaseInv, TombstoneInv, SingleSpend
<1>2. CASE Maintainer \/ Portal BY <1>2, QuietSteps
<1>3. CASE Connector
  BY <1>3, QuietSteps, AcquireSpend, LedgerSpend, AbandonSpend, PoolSpend DEF Connector
<1>4. CASE Environment
  BY <1>4, QuietSteps, CrashSpend, DataSpend DEF Environment
<1> QED BY <1>1, <1>2, <1>3, <1>4 DEF Next

\* An artifact is confirmed at most once in every behaviour, for every number
\* of leases, artifacts, crashes and failed saves: the create-once tombstone is
\* pruned only after the artifact has expired, and a lease ends before that.
THEOREM SpentOnce == Spec => []SingleSpend
<1>1. SpendInv => SingleSpend BY DEF SpendInv
<1> QED BY <1>1, InitSpend, NextSpend, PTL DEF Spec

\* What Acquire may still use has no tombstone: reconciliation with the ledger
\* comes first, and neither normalisation nor compaction revives an entry.
LEMMA UsableHasNoTombstone ==
    ASSUME TypeOK, NEW p \in ControlArtifactPools, NEW s \in Usable(AcquirePool(p))
    PROVE  ledger[<<AcquirePool(p).generation, s>>] = "absent"
<1> DEFINE e == reconcileEntries(p.generation, p.entries)
           n == normalizeEntries(p.generation, e)
<1>1. AcquirePool(p).generation = p.generation /\ AcquirePool(p).entries = n
  BY DEF AcquirePool, Refreshed, ControlArtifactPools
<1>2. s \in Sequences /\ n[s] = "live" BY <1>1 DEF Usable, usableSet, Live
<1>3. e[s] = "live" BY <1>2 DEF normalizeEntries, compactEntries
<1>4. p.generation \in Generations BY DEF ControlArtifactPools
<1>5. <<p.generation, s>> \in Burnable BY <1>2, <1>4 DEF Burnable, Artifacts
<1> QED BY <1>1, <1>2, <1>3, <1>5 DEF reconcileEntries, TypeOK

\* Acquire hands out only artifacts that no tombstone burns, in every
\* behaviour, whatever a crash or a failed save kept the pool from recording.
THEOREM HandoutUnburned == Spec => NoBurnedHandout
<1> DEFINE A == \A l \in Leases :
                   (leases[l].pc = "free" /\ leases'[l].pc = "held") =>
                       ledger[leases'[l].artifact] = "absent"
<1>1. ASSUME TypeOK, [Next]_vars PROVE [A]_vars
  <2> SUFFICES ASSUME Next, NEW l \in Leases, leases[l].pc = "free", leases'[l].pc = "held"
               PROVE  ledger[leases'[l].artifact] = "absent"
    BY <1>1
  <2>1. CASE \E k \in Leases : Acquire(k)
    <3>1. PICK k \in Leases : Acquire(k) BY <2>1
    <3>2. leases' # leases OBVIOUS
    <3>3. mem.pool # NoPool /\ HandOut(k, AcquirePool(mem.pool))
      BY <3>1, <3>2 DEF Acquire, AcquireFails, ToRecovery
    <3>4. PICK s \in Usable(AcquirePool(mem.pool)) :
             leases' = [leases EXCEPT ![k] =
                          [pc |-> "held", artifact |-> <<AcquirePool(mem.pool).generation, s>>,
                           deadline |-> now + ConnectTimeout]]
      BY <3>3 DEF HandOut
    <3>5. l = k BY <3>4
    <3>6. leases'[l].artifact = <<AcquirePool(mem.pool).generation, s>>
      BY <1>1, <3>4, <3>5 DEF TypeOK
    <3> QED BY <1>1, <3>3, <3>6, CurrentPoolType, UsableHasNoTombstone
  <2>2. CASE ~\E k \in Leases : Acquire(k)
    <3>1. ASSUME NEW k \in Leases, CommitSpendLedger(k) \/ AbandonLease(k) \/ CommitPoolSpend(k)
          PROVE  leases'[l].pc # "held"
      BY <1>1, <3>1 DEF TypeOK, CommitSpendLedger, AbandonLease, CommitPoolSpend, FreeLease
    <3>2. CASE Crash BY <3>2 DEF Crash, FreeLease
    <3>3. CASE UNCHANGED leases BY <3>3
    <3>4. (Maintainer \/ Portal) => UNCHANGED leases
      BY DEF Maintainer, PrepareTopUp, TopUpAnswered, TopUpError, ApplyTopUp, SnapshotPending,
         MarkTerminal, RecordExpired, AckAnswered, AckError, MarkAcknowledged, ClearTopUp,
         Portal, PortalTopUp, PortalAck, leaseVars
    <3>5. (RecoverApproved \/ RecoverRefused \/ RecoverTerminal \/ RecoverFails) => UNCHANGED leases
      BY DEF RecoverApproved, RecoverRefused, RecoverTerminal, RecoverFails, leaseVars
    <3>6. ASSUME Environment, ~Crash PROVE UNCHANGED leases
      BY <3>6 DEF Environment, Tick, FencePool, PersistReceipt, RestartChannel, SessionRejected,
         CommitDataSpend, leaseVars
    <3> QED BY <2>2, <3>1, <3>2, <3>3, <3>4, <3>5, <3>6 DEF Next, Connector
  <2> QED BY <2>1, <2>2
<1> QED BY <1>1, TypeCorrect, PTL DEF Spec, NoBurnedHandout

----------------------------------------------------------------------------
(* How the handlers rewrite a list of entries. *)

\* Sets of sequence numbers are finite.
LEMMA SequencesFinite ==
    /\ IsFiniteSet(Sequences)
    /\ \A S \in SUBSET Sequences : IsFiniteSet(S) /\ Cardinality(S) \in Nat
<1>1. IsFiniteSet(Sequences) BY PoolContract, FS_Interval DEF Sequences
<1> QED BY <1>1, FS_Subset, FS_CardinalityType

\* The sets of live, terminal and present entries are sets of sequence numbers.
LEMMA EntrySets ==
    ASSUME NEW e
    PROVE  /\ Live(e) \in SUBSET Sequences
           /\ Terminal(e) \in SUBSET Sequences
           /\ Present(e) \in SUBSET Sequences
BY DEF Live, Terminal, Present

\* What becomes of a list that is only refreshed, spent from or relabelled: no
\* entry comes or goes, none turns live, and one turns erased only when it has
\* expired.
EntriesEvolve(g, e, f) ==
    /\ f \in Entries
    /\ Present(f) = Present(e)
    /\ \A s \in Sequences :
          /\ f[s] = "live" => e[s] = "live"
          /\ f[s] = "erased" => e[s] = "erased" \/ Expiry(g, s) <= now

PoolEvolves(p, q) ==
    /\ q \in ControlArtifactPools
    /\ q.generation = p.generation
    /\ EntriesEvolve(p.generation, p.entries, q.entries)

\* Compaction drops nothing from a list that is not too long.
LEMMA NothingDropped ==
    ASSUME NEW e \in Entries, Cardinality(Present(e)) <= MaxPoolEntries
    PROVE  compactEntries(e) = e
<1> DEFINE over == Cardinality(Present(e)) - MaxPoolEntries
<1>1. over \in Int /\ over <= 0
  BY PoolContract, EntrySets, SequencesFinite
<1>2. ASSUME NEW s \in Sequences PROVE ~(Cardinality({t \in Terminal(e) : t < s}) < over)
  <2>1. {t \in Terminal(e) : t < s} \in SUBSET Sequences BY DEF Terminal
  <2>2. Cardinality({t \in Terminal(e) : t < s}) \in Nat BY <2>1, SequencesFinite
  <2> QED BY <1>1, <2>2
<1>3. compactEntries(e) = [s \in Sequences |-> e[s]]
  BY <1>2 DEF compactEntries
<1> QED BY <1>3 DEF Entries

\* Normalising a list that is not too long erases what has expired, no more.
LEMMA NormalizeEvolves ==
    ASSUME NEW g, NEW e \in Entries, Cardinality(Present(e)) <= MaxPoolEntries
    PROVE  /\ EntriesEvolve(g, e, normalizeEntries(g, e))
           /\ Live(normalizeEntries(g, e)) \subseteq {s \in Live(e) : ~(Expiry(g, s) <= now)}
<1> DEFINE f == [s \in Sequences |->
                   IF e[s] = "live" /\ Expiry(g, s) <= now THEN "erased" ELSE e[s]]
<1>1. f \in Entries BY DEF Entries, EntryStates
<1>2. Present(f) = Present(e) BY DEF Present
<1>3. normalizeEntries(g, e) = f BY <1>1, <1>2, NothingDropped DEF normalizeEntries
<1>4. EntriesEvolve(g, e, f) BY <1>1, <1>2 DEF EntriesEvolve
<1>5. Live(f) \subseteq {s \in Live(e) : ~(Expiry(g, s) <= now)} BY DEF Live
<1> QED BY <1>3, <1>4, <1>5

\* Reconciling with the ledger only turns unspent entries into spent ones.
LEMMA ReconcileEvolves ==
    ASSUME NEW g, NEW e \in Entries
    PROVE  /\ EntriesEvolve(g, e, reconcileEntries(g, e))
           /\ Live(reconcileEntries(g, e)) \subseteq Live(e)
<1>1. reconcileEntries(g, e) \in Entries BY EntriesClosed
<1>2. Present(reconcileEntries(g, e)) = Present(e) BY DEF reconcileEntries, Present
<1>3. \A s \in Sequences : reconcileEntries(g, e)[s] \in {"spent", e[s]} BY DEF reconcileEntries
<1>4. EntriesEvolve(g, e, reconcileEntries(g, e)) BY <1>1, <1>2, <1>3 DEF EntriesEvolve
<1> QED BY <1>3, <1>4 DEF Live

\* A refreshed pool evolved from the pool, keeps its request, and what is still
\* live in it was outstanding.
LEMMA RefreshedEvolves ==
    ASSUME TypeOK, NEW p \in ControlArtifactPools, Cardinality(Present(p.entries)) <= MaxPoolEntries
    PROVE  /\ PoolEvolves(p, Refreshed(p))
           /\ Refreshed(p).pending = p.pending
           /\ Live(Refreshed(p).entries) \subseteq outstandingSet(p.generation, p.entries)
<1> DEFINE g == p.generation
           e == reconcileEntries(g, p.entries)
           f == normalizeEntries(g, e)
<1>1. p.entries \in Entries /\ g \in Generations BY DEF ControlArtifactPools, Entries
<1>2. EntriesEvolve(g, p.entries, e) /\ Live(e) \subseteq Live(p.entries) BY <1>1, ReconcileEvolves
<1>3. e \in Entries /\ Present(e) = Present(p.entries) BY <1>2 DEF EntriesEvolve
<1>4. /\ EntriesEvolve(g, e, f)
      /\ Live(f) \subseteq {s \in Live(e) : ~(Expiry(g, s) <= now)}
  BY <1>3, NormalizeEvolves
<1>5. /\ Refreshed(p) = [p EXCEPT !.entries = f]
      /\ Refreshed(p) \in ControlArtifactPools
  BY PoolsClosed DEF Refreshed
<1> HIDE DEF e, f
<1>6. EntriesEvolve(g, p.entries, f) BY <1>2, <1>4 DEF EntriesEvolve
<1>7. /\ Refreshed(p).entries = f /\ Refreshed(p).generation = g
      /\ Refreshed(p).pending = p.pending
  BY <1>5 DEF ControlArtifactPools
<1>8. PoolEvolves(p, Refreshed(p)) BY <1>5, <1>6, <1>7 DEF PoolEvolves
<1>9. ASSUME NEW s \in Live(f) PROVE s \in outstandingSet(g, p.entries)
  <2>1. s \in Live(e) /\ ~(Expiry(g, s) <= now) BY <1>4
  <2>2. s \in Live(p.entries) /\ s \in Sequences BY <1>2, <2>1 DEF Live
  <2>3. Expiry(g, s) \in Nat /\ now \in Nat BY <1>1, <2>2 DEF Expiry, TypeOK, Burnable, Artifacts
  <2> QED BY <2>1, <2>2, <2>3 DEF outstandingSet
<1> QED BY <1>7, <1>8, <1>9

\* Every non-empty set of natural numbers has a least element.
LEMMA LeastElement ==
    ASSUME NEW T \in SUBSET Nat, T # {}
    PROVE  \E m \in T : \A t \in T : m <= t
<1>1. \E m \in T : \A t \in T : ~ (<<t, m>> \in OpToRel(<, Nat))
  BY NatLessThanWellFounded, WFMin
<1>2. ASSUME NEW m \in T, NEW t \in T, ~ (<<t, m>> \in OpToRel(<, Nat)) PROVE m <= t
  BY <1>2 DEF OpToRel
<1> QED BY <1>1, <1>2

\* The number of members of T below s, and the members with fewer than k below them.
Rank(T, s) == Cardinality({t \in T : t < s})
Lowest(T, k) == {s \in T : Rank(T, s) < k}

\* Ranks are numbers and Lowest is a finite set.
LEMMA RankTypes ==
    ASSUME NEW T \in SUBSET Nat, IsFiniteSet(T)
    PROVE  /\ Cardinality(T) \in Nat
           /\ \A s \in T : Rank(T, s) \in Nat
           /\ \A k \in Nat : IsFiniteSet(Lowest(T, k)) /\ Cardinality(Lowest(T, k)) \in Nat
<1>1. \A s \in T : IsFiniteSet({t \in T : t < s}) BY FS_Subset
<1>2. \A s \in T : Rank(T, s) \in Nat BY <1>1, FS_CardinalityType DEF Rank
<1>3. \A k \in Nat : Lowest(T, k) \subseteq T BY DEF Lowest
<1>4. \A k \in Nat : IsFiniteSet(Lowest(T, k)) BY <1>3, FS_Subset
<1> QED BY <1>2, <1>4, FS_CardinalityType

\* If the k lowest members are counted right and there is another one, the
\* least of the others is the next.
LEMMA LowestGrows ==
    ASSUME NEW T \in SUBSET Nat, IsFiniteSet(T), NEW k \in Nat, k < Cardinality(T),
           Cardinality(Lowest(T, k)) >= k
    PROVE  Cardinality(Lowest(T, k + 1)) >= k + 1
<1> DEFINE A == Lowest(T, k)
           B == Lowest(T, k + 1)
<1>1. /\ IsFiniteSet(A) /\ Cardinality(A) \in Nat
      /\ IsFiniteSet(B) /\ Cardinality(B) \in Nat
      /\ Cardinality(T) \in Nat
  BY RankTypes
<1>2. A \subseteq T /\ A \subseteq B
  <2>1. \A s \in T : Rank(T, s) \in Nat BY RankTypes
  <2>2. \A s \in T : Rank(T, s) < k => Rank(T, s) < k + 1 BY <2>1
  <2> QED BY <2>2 DEF Lowest
<1>3. CASE Cardinality(A) > k
  BY <1>1, <1>2, <1>3, FS_Subset
<1>4. CASE Cardinality(A) = k
  <2>1. T \ A # {} BY <1>2, <1>4
  <2>2. PICK m \in T \ A : \A t \in T \ A : m <= t
    <3> HIDE DEF A
    <3> QED BY <2>1, LeastElement
  <2>3. {t \in T : t < m} \subseteq A
    <3>1. ASSUME NEW t \in T, t < m, t \notin A PROVE FALSE
      <4>1. m <= t BY <2>2, <3>1
      <4> QED BY <3>1, <4>1
    <3> QED BY <3>1
  <2>4. Rank(T, m) <= k BY <1>1, <1>4, <2>3, FS_Subset DEF Rank
  <2>5. m \in B BY <2>2, <2>4, RankTypes DEF Lowest
  <2> HIDE DEF A, B
  <2>6. Cardinality(A \cup {m}) = k + 1 BY <1>1, <1>4, <2>2, FS_AddElement
  <2>7. Cardinality(A \cup {m}) <= Cardinality(B) BY <1>1, <1>2, <2>5, FS_Subset
  <2> QED BY <1>1, <2>6, <2>7 DEF B
<1> QED BY <1>1, <1>3, <1>4

\* The members of a finite set of numbers with fewer than k members below
\* them are at least k, when the set has that many.
LEMMA LowestRanks ==
    ASSUME NEW T \in SUBSET Nat, IsFiniteSet(T), NEW k \in Nat, k <= Cardinality(T)
    PROVE  Cardinality(Lowest(T, k)) >= k
<1> DEFINE bad == {j \in Nat : j <= Cardinality(T) /\ ~(Cardinality(Lowest(T, j)) >= j)}
<1>1. ASSUME bad # {} PROVE FALSE
  <2>1. bad \subseteq Nat OBVIOUS
  <2>2. PICK j \in bad : \A i \in bad : j <= i
    <3> HIDE DEF bad
    <3> QED BY <1>1, <2>1, LeastElement
  <2>3. j \in Nat /\ j <= Cardinality(T) /\ ~(Cardinality(Lowest(T, j)) >= j) BY <2>2
  <2>4. j # 0 BY <2>3, RankTypes
  <2>5. j - 1 \in Nat /\ j - 1 < Cardinality(T) BY <2>3, <2>4, RankTypes
  <2>6. j - 1 \notin bad
    <3> HIDE DEF bad
    <3> QED BY <2>2, <2>3, <2>5
  <2>7. Cardinality(Lowest(T, j - 1)) >= j - 1 BY <2>5, <2>6, RankTypes
  <2>8. Cardinality(Lowest(T, (j - 1) + 1)) >= (j - 1) + 1 BY <2>5, <2>7, LowestGrows
  <2>9. (j - 1) + 1 = j BY <2>3
  <2> QED BY <2>3, <2>8, <2>9
<1>2. k \notin bad BY <1>1
<1> QED BY <1>2

\* What compaction does to one entry: a terminal one may go, no other changes.
LEMMA CompactEntry ==
    ASSUME NEW e \in Entries, NEW s \in Sequences
    PROVE  /\ compactEntries(e)[s] \in {e[s], "none"}
           /\ e[s] \notin {"erased", "spent"} => compactEntries(e)[s] = e[s]
BY DEF compactEntries, Terminal

\* Compaction makes the list fit, if its live entries alone do: the oldest
\* terminal entries it drops are enough.
LEMMA CompactFits ==
    ASSUME NEW e \in Entries, Cardinality(Live(e)) <= MaxPoolEntries
    PROVE  Cardinality(Present(compactEntries(e))) <= MaxPoolEntries
<1> DEFINE T == Terminal(e)
           over == Cardinality(Present(e)) - MaxPoolEntries
<1>1. /\ IsFiniteSet(T) /\ IsFiniteSet(Live(e)) /\ IsFiniteSet(Present(e))
      /\ Cardinality(T) \in Nat /\ Cardinality(Live(e)) \in Nat /\ Cardinality(Present(e)) \in Nat
      /\ MaxPoolEntries \in Nat
  BY PoolContract, EntrySets, SequencesFinite
<1>2. T \in SUBSET Nat BY PoolContract DEF Terminal, Sequences
<1>3. Present(e) = Live(e) \cup T /\ Live(e) \cap T = {}
  BY DEF Present, Live, Terminal, Entries, EntryStates
<1>4. Cardinality(Present(e)) = Cardinality(Live(e)) + Cardinality(T)
  <2>1. Cardinality(Live(e) \cap T) = 0 BY <1>3, FS_EmptySet
  <2> HIDE DEF T
  <2>2. Cardinality(Live(e) \cup T)
          = Cardinality(Live(e)) + Cardinality(T) - Cardinality(Live(e) \cap T)
    BY <1>1, FS_Union
  <2> QED BY <1>1, <1>3, <2>1, <2>2
<1>5. CASE over <= 0 BY <1>1, <1>5, NothingDropped
<1>6. CASE over > 0
  <2>1. over \in Nat /\ over <= Cardinality(T) BY <1>1, <1>4, <1>6
  <2>2. Cardinality(Lowest(T, over)) >= over BY <1>1, <1>2, <2>1, LowestRanks
  <2>3. Present(compactEntries(e)) \subseteq Present(e) \ Lowest(T, over)
    BY DEF Present, compactEntries, Lowest, Rank, Terminal
  <2>4. Lowest(T, over) \in SUBSET Present(e) BY <1>3 DEF Lowest
  <2> HIDE DEF T, over
  <2>5. Present(e) \cap Lowest(T, over) = Lowest(T, over) BY <2>4
  <2>6. Cardinality(Present(e) \ Lowest(T, over)) = Cardinality(Present(e)) - Cardinality(Lowest(T, over))
    BY <1>1, <2>5, FS_Difference
  <2>7. IsFiniteSet(Present(e) \ Lowest(T, over)) BY <1>1, FS_Difference
  <2>8. Cardinality(Present(compactEntries(e))) <= Cardinality(Present(e) \ Lowest(T, over))
    BY <2>3, <2>7, FS_Subset
  <2>9. Cardinality(Lowest(T, over)) \in Nat /\ Cardinality(Present(compactEntries(e))) \in Nat
    BY <1>1, <1>2, <2>1, RankTypes, EntrySets, SequencesFinite
  <2> QED BY <1>1, <2>1, <2>2, <2>6, <2>8, <2>9 DEF over
<1> QED BY <1>1, <1>5, <1>6

\* The pool that a response is applied to: what was live stays, the response is
\* live, nothing else comes.
LEMMA AppliedShape ==
    ASSUME NEW p \in ControlArtifactPools, maint \in MaintRecords, maint # IdleMaint
    PROVE  LET q == AppliedPool(p)
           IN  /\ q \in ControlArtifactPools
               /\ q.generation = p.generation
               /\ q.pending = [id |-> maint.id, state |-> "applied"]
               /\ \A s \in Sequences :
                     /\ s \in maint.response => q.entries[s] = "live"
                     /\ s \notin maint.response => q.entries[s] \in {p.entries[s], "none"}
                     /\ s \notin maint.response /\ p.entries[s] = "live" => q.entries[s] = "live"
<1> DEFINE f == [s \in Sequences |-> IF s \in maint.response THEN "live" ELSE p.entries[s]]
           e == compactEntries(f)
           q == [p EXCEPT !.entries = e, !.pending = [id |-> maint.id, state |-> "applied"]]
<1>1. p.entries \in Entries BY DEF ControlArtifactPools, Entries
<1>2. f \in Entries BY <1>1 DEF Entries, EntryStates
<1>3. AppliedPool(p) = [q EXCEPT !.recovery = ReadyOrDegraded(q)] BY DEF AppliedPool
<1>4. \A s \in Sequences : e[s] \in {f[s], "none"} /\ (f[s] = "live" => e[s] = "live")
  <2> HIDE DEF f
  <2> QED BY <1>2, CompactEntry
<1>5. \A s \in Sequences :
         /\ s \in maint.response => e[s] = "live"
         /\ s \notin maint.response => e[s] \in {p.entries[s], "none"}
         /\ s \notin maint.response /\ p.entries[s] = "live" => e[s] = "live"
  BY <1>4
<1> HIDE DEF e
<1>6. AppliedPool(p).entries = e /\ AppliedPool(p).generation = p.generation
      /\ AppliedPool(p).pending = [id |-> maint.id, state |-> "applied"]
  <2> DEFINE r == ReadyOrDegraded(q)
  <2> HIDE DEF r
  <2>1. AppliedPool(p) = [q EXCEPT !.recovery = r] BY <1>3 DEF r
  <2> QED BY <2>1 DEF ControlArtifactPools
<1> QED BY <1>5, <1>6, TopUpPoolsClosed

\* Its list fits whenever the live entries and the response do.
LEMMA AppliedFits ==
    ASSUME NEW p \in ControlArtifactPools, maint \in MaintRecords, maint # IdleMaint,
           Cardinality(Live(p.entries)) + Cardinality(maint.response) <= MaxPoolEntries
    PROVE  Cardinality(Present(AppliedPool(p).entries)) <= MaxPoolEntries
<1> DEFINE f == [s \in Sequences |-> IF s \in maint.response THEN "live" ELSE p.entries[s]]
           e == compactEntries(f)
           q == [p EXCEPT !.entries = e, !.pending = [id |-> maint.id, state |-> "applied"]]
<1>1. p.entries \in Entries BY DEF ControlArtifactPools, Entries
<1>2. f \in Entries BY <1>1 DEF Entries, EntryStates
<1>3. maint.response \in SUBSET Sequences BY DEF MaintRecords
<1>4. Live(f) \subseteq Live(p.entries) \cup maint.response BY DEF Live
<1>5. /\ IsFiniteSet(Live(p.entries)) /\ IsFiniteSet(maint.response)
      /\ Cardinality(Live(p.entries)) \in Nat /\ Cardinality(maint.response) \in Nat
      /\ Cardinality(Live(p.entries) \cap maint.response) \in Nat
      /\ Cardinality(Live(f)) \in Nat
  <2>1. Live(p.entries) \cap maint.response \in SUBSET Sequences BY <1>3
  <2> QED BY <1>3, <2>1, EntrySets, SequencesFinite
<1> HIDE DEF f
<1>6. Cardinality(Live(f)) <= MaxPoolEntries
  <2>1. /\ IsFiniteSet(Live(p.entries) \cup maint.response)
        /\ Cardinality(Live(p.entries) \cup maint.response)
             = Cardinality(Live(p.entries)) + Cardinality(maint.response)
               - Cardinality(Live(p.entries) \cap maint.response)
    BY <1>5, FS_Union
  <2>2. Cardinality(Live(f)) <= Cardinality(Live(p.entries) \cup maint.response)
    BY <1>4, <2>1, FS_Subset
  <2> QED BY <1>5, <2>1, <2>2, PoolContract
<1>7. Cardinality(Present(e)) <= MaxPoolEntries BY <1>2, <1>6, CompactFits
<1> HIDE DEF e
<1>8. AppliedPool(p).entries = e
  <2> DEFINE r == ReadyOrDegraded(q)
  <2>1. AppliedPool(p) = [q EXCEPT !.recovery = r] BY DEF AppliedPool, e, f
  <2> HIDE DEF r
  <2> QED BY <2>1 DEF ControlArtifactPools
<1> QED BY <1>7, <1>8

----------------------------------------------------------------------------
(* What one step may do to the two copies of the configuration. *)

\* A pool of which ControlArtifactPool.Validate holds at time t when artifacts
\* expire as x says, and of which every artifact was minted.
SoundPool(p, x, t) ==
    /\ Cardinality(Present(p.entries)) <= MaxPoolEntries
    /\ Cardinality({s \in Live(p.entries) : x[<<p.generation, s>>] > t}) <= MaxOutstanding
    /\ \A s \in Present(p.entries) :
          /\ x[<<p.generation, s>>] > 0
          /\ p.entries[s] = "erased" => x[<<p.generation, s>>] <= t

SoundConfig(c, x, t) == c.pool # NoPool => SoundPool(c.pool, x, t)

\* How the pending request moves when the list of entries only evolves.
PendingMoves(from, to) ==
    \/ to = from
    \/ to = NoTopUp
    \/ /\ maint.pc = "idle"
       /\ to = [id |-> usedRequests + 1, state |-> "pending"]
       /\ usedRequests' = usedRequests + 1
    \/ from.state = "pending" /\ to = [id |-> from.id, state |-> "terminal"]
    \/ from.state = "applied" /\ to = [id |-> from.id, state |-> "acked"]

\* What a step writes, in memory or on disk: the current pool rewritten, the
\* current pool with a response applied, a delivered pool, or none.
Rewrites(c) ==
    /\ mem.pool # NoPool
    /\ PoolEvolves(mem.pool, c.pool)
    /\ PendingMoves(mem.pool.pending, c.pool.pending)

Keeps(c) ==
    /\ mem.pool # NoPool
    /\ PoolEvolves(mem.pool, c.pool)
    /\ c.pool.pending = mem.pool.pending

Applies(c) ==
    /\ maint.pc = "apply"
    /\ SamePending("pending")
    /\ c = WithPool(AppliedPool(mem.pool))
    /\ ValidPool(c.pool)

Delivers(c) ==
    \E g \in Generations, run \in Runs :
        /\ c.pool = DeliveredPool(g, run)
        /\ Cardinality(run) <= MaxOutstanding
        /\ \A s \in run : expires'[<<g, s>>] > now

Works(c) == Rewrites(c) \/ Applies(c)

Writes(c) == Works(c) \/ Delivers(c) \/ c.pool = NoPool

\* The copies a step of the protocol leaves behind.
WorkShape ==
    \/ UNCHANGED <<mem, disk>>
    \/ mem' = mem /\ disk' = mem
    \/ mem' = mem /\ Works(disk')
    \/ mem' = disk' /\ Works(mem')

\* The copies a step leaves behind: both untouched; memory persisted, or lost in
\* a crash; a value written although the save reported an error; a value saved;
\* a rewrite that keeps the request, in either copy; the pool gone.
StepShape ==
    \/ UNCHANGED <<mem, disk>>
    \/ mem' = mem /\ disk' = mem
    \/ mem' = disk /\ disk' = disk /\ maint' = IdleMaint
    \/ mem' = mem /\ Writes(disk')
    \/ mem' = disk' /\ Writes(mem')
    \/ (mem' = mem \/ Keeps(mem')) /\ (disk' = disk \/ Keeps(disk'))
    \/ mem'.pool = NoPool /\ (disk' = disk \/ disk'.pool = NoPool)

\* Pools of sound configurations fit.
LEMMA SoundFits ==
    ASSUME TypeOK, SoundConfig(mem, expires, now), mem.pool # NoPool
    PROVE  /\ mem.pool \in ControlArtifactPools
           /\ Cardinality(Present(mem.pool.entries)) <= MaxPoolEntries
BY CurrentPoolType DEF SoundConfig, SoundPool

\* A pool whose list and generation did not change has evolved.
LEMMA SameEntriesEvolve ==
    ASSUME NEW p \in ControlArtifactPools, NEW q \in ControlArtifactPools,
           q.generation = p.generation, q.entries = p.entries
    PROVE  PoolEvolves(p, q)
BY DEF PoolEvolves, EntriesEvolve, ControlArtifactPools, Entries

\* A change of other fields after an evolution is an evolution.
LEMMA RelabelledEvolves ==
    ASSUME NEW p, NEW q, PoolEvolves(p, q), NEW r \in ControlArtifactPools,
           r.generation = q.generation, r.entries = q.entries
    PROVE  PoolEvolves(p, r)
BY DEF PoolEvolves

\* The written pool is read back from the configuration.
LEMMA WithPoolPool == ASSUME TypeOK, NEW p PROVE WithPool(p).pool = p
BY DEF WithPool, TypeOK, Configs

\* Acquire rewrites the pool and keeps the request.
LEMMA AcquireShape ==
    ASSUME TypeOK, SoundConfig(mem, expires, now), NEW l \in Leases, Acquire(l)
    PROVE  (mem' = mem \/ Keeps(mem')) /\ (disk' = disk \/ Keeps(disk'))
<1>1. CASE (rejected \/ mem.pool = NoPool) /\ ToRecovery /\ UNCHANGED <<mem, disk>>
  BY <1>1
<1>2. CASE ~rejected /\ mem.pool # NoPool
  <2> DEFINE p == mem.pool
             q == AcquirePool(p)
             x == [q EXCEPT !.recovery = "exhausted"]
  <2>1. p \in ControlArtifactPools /\ Cardinality(Present(p.entries)) <= MaxPoolEntries
    BY <1>2, SoundFits
  <2>2. PoolEvolves(p, Refreshed(p)) /\ Refreshed(p).pending = p.pending
    BY <2>1, RefreshedEvolves
  <2>3. /\ q \in ControlArtifactPools /\ q.generation = Refreshed(p).generation
        /\ q.entries = Refreshed(p).entries /\ q.pending = Refreshed(p).pending
    BY <2>1, PoolsClosed DEF AcquirePool, ControlArtifactPools
  <2> HIDE DEF q
  <2>4. /\ x \in ControlArtifactPools /\ x.generation = q.generation
        /\ x.entries = q.entries /\ x.pending = q.pending
    BY <2>3 DEF ControlArtifactPools, RecoveryStates
  <2>5. PoolEvolves(p, q) /\ PoolEvolves(p, x) BY <2>2, <2>3, <2>4, RelabelledEvolves
  <2>6. Keeps(WithPool(q)) /\ Keeps(WithPool(x))
    BY <1>2, <2>2, <2>3, <2>4, <2>5, WithPoolPool DEF Keeps
  <2>7. /\ mem' \in {mem, WithPool(q), WithPool(x)}
        /\ disk' \in {disk, WithPool(q), WithPool(x)}
    BY <1>2 DEF Acquire, SaveIfChanged, Save, SaveFails, q
  <2> HIDE DEF x
  <2> QED BY <2>6, <2>7
<1> QED BY <1>1, <1>2 DEF Acquire

\* So does spending, in the second half of which the entry becomes spent.
LEMMA PoolSpendShape ==
    ASSUME TypeOK, NEW l \in Leases, CommitPoolSpend(l)
    PROVE  (mem' = mem \/ Keeps(mem')) /\ (disk' = disk \/ Keeps(disk'))
<1> DEFINE a == leases[l].artifact
           q == [mem.pool EXCEPT !.entries[a[2]] = "spent"]
<1>1. CASE ~SpendableIn(a, mem) BY <1>1 DEF CommitPoolSpend
<1>2. CASE SpendableIn(a, mem)
  <2>1. mem.pool # NoPool /\ mem.pool \in ControlArtifactPools /\ mem.pool.entries[a[2]] = "live"
    BY <1>2, CurrentPoolType DEF SpendableIn
  <2>2. mem.pool.entries \in Entries BY <2>1 DEF ControlArtifactPools, Entries
  <2> DEFINE e == [mem.pool.entries EXCEPT ![a[2]] = "spent"]
  <2>3. e \in Entries BY <2>2 DEF Entries, EntryStates
  <2>4. /\ q.generation = mem.pool.generation /\ q.pending = mem.pool.pending
        /\ q.entries = e /\ q \in ControlArtifactPools
    BY <2>1, <2>3 DEF ControlArtifactPools, Entries
  <2>5. Present(e) = Present(mem.pool.entries) BY <2>1, <2>2 DEF Present, Entries
  <2>6. \A s \in Sequences : e[s] = mem.pool.entries[s] \/ e[s] = "spent" BY <2>2 DEF Entries
  <2>7. PoolEvolves(mem.pool, q)
    BY <2>3, <2>4, <2>5, <2>6 DEF PoolEvolves, EntriesEvolve
  <2> HIDE DEF q
  <2>8. Keeps(WithPool(q)) BY <2>1, <2>4, <2>7, WithPoolPool DEF Keeps
  <2>9. mem' = WithPool(q) /\ disk' \in {disk, WithPool(q)}
    BY <1>2 DEF CommitPoolSpend, Save, q
  <2> QED BY <2>8, <2>9
<1> QED BY <1>1, <1>2

\* A saved, or half saved, rewrite has one of the shapes.
LEMMA SaveShape ==
    ASSUME NEW c, Writes(c), SaveOrFail(c)
    PROVE  StepShape
BY DEF SaveOrFail, Save, SaveFails, StepShape

\* So has one of the protocol.
LEMMA WorkSaveShape ==
    ASSUME NEW c, Works(c), SaveOrFail(c)
    PROVE  WorkShape
BY DEF SaveOrFail, Save, SaveFails, WorkShape

\* Preparing a top-up rewrites the pool; the request stays, goes when it was
\* acknowledged, or is a new one.
LEMMA PrepareShape ==
    ASSUME TypeOK, SoundConfig(mem, expires, now), PrepareTopUp
    PROVE  WorkShape
<1> DEFINE p == mem.pool
           q == PreparedPool(p)
           ready == [q EXCEPT !.recovery = "ready"]
           asked == [q EXCEPT !.recovery = "degraded",
                              !.pending = [id |-> usedRequests + 1, state |-> "pending"]]
<1>1. p # NoPool /\ p \in ControlArtifactPools /\ Cardinality(Present(p.entries)) <= MaxPoolEntries
  BY SoundFits DEF PrepareTopUp
<1>2. PoolEvolves(p, Refreshed(p)) /\ Refreshed(p).pending = p.pending
  BY <1>1, RefreshedEvolves
<1>3. /\ q \in ControlArtifactPools /\ q.generation = Refreshed(p).generation
      /\ q.entries = Refreshed(p).entries /\ q.pending \in {p.pending, NoTopUp}
  BY <1>1, <1>2, PoolsClosed DEF PreparedPool, ForgetAcked, ControlArtifactPools
<1> HIDE DEF q
<1>4. /\ ready \in ControlArtifactPools /\ ready.generation = q.generation
      /\ ready.entries = q.entries /\ ready.pending = q.pending
  BY <1>3 DEF ControlArtifactPools, RecoveryStates
<1>5. Works(WithPool(q)) /\ Works(WithPool(ready))
  BY <1>1, <1>2, <1>3, <1>4, RelabelledEvolves, WithPoolPool DEF Works, Rewrites, PendingMoves
<1>6. ASSUME usedRequests < MaxRequests, usedRequests' = usedRequests + 1
      PROVE  Works(WithPool(asked))
  <2>1. usedRequests + 1 \in Requests BY <1>6, PoolContract DEF TypeOK, Requests
  <2>2. [id |-> usedRequests + 1, state |-> "pending"] \in PendingTopUps
    BY <2>1 DEF PendingTopUps, TopUpStates
  <2>3. /\ asked \in ControlArtifactPools /\ asked.generation = q.generation
        /\ asked.entries = q.entries
        /\ asked.pending = [id |-> usedRequests + 1, state |-> "pending"]
    BY <1>3, <2>2 DEF ControlArtifactPools, RecoveryStates
  <2> HIDE DEF asked
  <2>4. PoolEvolves(p, asked) BY <1>2, <1>3, <2>3, RelabelledEvolves
  <2> QED BY <1>1, <1>6, <2>3, <2>4, WithPoolPool DEF Works, Rewrites, PendingMoves, PrepareTopUp
<1>7. \/ UNCHANGED <<mem, disk>>
      \/ SaveOrFail(WithPool(q)) \/ SaveOrFail(WithPool(ready))
      \/ /\ usedRequests < MaxRequests /\ usedRequests' = usedRequests + 1
         /\ SaveOrFail(WithPool(asked))
  BY DEF PrepareTopUp, SaveIfChanged, SaveOrFail, q
<1> HIDE DEF ready, asked
<1>8. CASE UNCHANGED <<mem, disk>> BY <1>8 DEF WorkShape
<1>9. CASE SaveOrFail(WithPool(q)) BY <1>5, <1>9, WorkSaveShape
<1>10. CASE SaveOrFail(WithPool(ready)) BY <1>5, <1>10, WorkSaveShape
<1>11. CASE /\ usedRequests < MaxRequests /\ usedRequests' = usedRequests + 1
            /\ SaveOrFail(WithPool(asked))
  BY <1>6, <1>11, WorkSaveShape
<1> QED BY <1>7, <1>8, <1>9, <1>10, <1>11

\* The other steps of the protocol relabel the pending request, apply the
\* response, or record that the request expired.
LEMMA MaintainerShape ==
    ASSUME TypeOK, SoundConfig(mem, expires, now), Maintainer
    PROVE  WorkShape
<1>0. ASSUME NEW state, SamePending(state)
      PROVE  /\ mem.pool # NoPool /\ mem.pool \in ControlArtifactPools
             /\ Cardinality(Present(mem.pool.entries)) <= MaxPoolEntries
             /\ mem.pool.pending = [id |-> maint.id, state |-> state]
  BY <1>0, SoundFits DEF SamePending
<1>1. CASE UNCHANGED <<mem, disk>> BY <1>1 DEF WorkShape
<1>2. CASE PrepareTopUp BY <1>2, PrepareShape
<1>3. CASE ApplyTopUp
  <2>1. CASE SamePending("pending") /\ ValidPool(AppliedPool(mem.pool))
    <3>1. Works(WithPool(AppliedPool(mem.pool)))
      BY <1>3, <2>1, WithPoolPool DEF Works, Applies, ApplyTopUp
    <3>2. SaveOrFail(WithPool(AppliedPool(mem.pool)))
      BY <1>3, <2>1 DEF ApplyTopUp, SaveOrFail
    <3> QED BY <3>1, <3>2, WorkSaveShape
  <2>2. CASE ~(SamePending("pending") /\ ValidPool(AppliedPool(mem.pool)))
    BY <1>1, <1>3, <2>2 DEF ApplyTopUp
  <2> QED BY <2>1, <2>2
<1>4. CASE MarkTerminal /\ SamePending("pending")
  <2> DEFINE q == [mem.pool EXCEPT !.pending.state = "terminal", !.recovery = "relink_required"]
  <2>1. maint # IdleMaint /\ maint.id \in Requests
    BY <1>4 DEF MarkTerminal, IdleMaint, TypeOK, MaintRecords
  <2>a. mem.pool.pending = [id |-> maint.id, state |-> "pending"] BY <1>4 DEF SamePending
  <2>2. [mem.pool.pending EXCEPT !.state = "terminal"] = [id |-> maint.id, state |-> "terminal"]
    BY <2>a
  <2>3. [id |-> maint.id, state |-> "terminal"] \in PendingTopUps
    BY <2>1 DEF PendingTopUps, TopUpStates
  <2>4. /\ q \in ControlArtifactPools /\ q.generation = mem.pool.generation
        /\ q.entries = mem.pool.entries /\ q.pending = [id |-> maint.id, state |-> "terminal"]
    BY <1>0, <1>4, <2>2, <2>3 DEF ControlArtifactPools, RecoveryStates
  <2> HIDE DEF q
  <2>5. PoolEvolves(mem.pool, q) BY <1>0, <1>4, <2>4, SameEntriesEvolve
  <2>b. PendingMoves(mem.pool.pending, q.pending) BY <2>a, <2>4 DEF PendingMoves
  <2>6. Works(WithPool(q))
    BY <1>0, <1>4, <2>5, <2>b, WithPoolPool DEF Works, Rewrites
  <2>7. SaveOrFail(WithPool(q)) BY <1>4 DEF MarkTerminal, q
  <2> QED BY <2>6, <2>7, WorkSaveShape
<1>5. ASSUME RecordExpired, NEW state, SamePending(state), SaveOrFail(WithPool(ExpiredPool(mem.pool)))
      PROVE  WorkShape
  <2> DEFINE p == mem.pool
             q == [p EXCEPT !.lastTerminal = maint.id, !.pending = NoTopUp,
                            !.entries = normalizeEntries(p.generation, p.entries)]
             r == ExpiredPool(p)
  <2>1. maint # IdleMaint /\ maint.id \in Requests
    BY <1>5 DEF RecordExpired, IdleMaint, TypeOK, MaintRecords
  <2>2. p \in ControlArtifactPools /\ p.entries \in Entries
    BY <1>0, <1>5 DEF ControlArtifactPools, Entries
  <2>3. EntriesEvolve(p.generation, p.entries, normalizeEntries(p.generation, p.entries))
    BY <1>0, <1>5, <2>2, NormalizeEvolves
  <2>4. r \in ControlArtifactPools BY <2>1, <2>2, TopUpPoolsClosed DEF TypeOK
  <2>5. /\ r.generation = p.generation /\ r.pending = NoTopUp
        /\ r.entries = normalizeEntries(p.generation, p.entries)
    <3> DEFINE v == ReadyOrDegraded(q)
    <3>1. r = [q EXCEPT !.recovery = v] BY DEF ExpiredPool
    <3> HIDE DEF v
    <3> QED BY <2>2, <3>1 DEF ControlArtifactPools
  <2> HIDE DEF r
  <2>6. PoolEvolves(p, r) BY <2>3, <2>4, <2>5 DEF PoolEvolves
  <2>7. Works(WithPool(r))
    BY <1>0, <1>5, <2>5, <2>6, WithPoolPool DEF Works, Rewrites, PendingMoves
  <2> QED BY <1>5, <2>7, WorkSaveShape DEF r
<1>6. CASE MarkAcknowledged /\ SamePending("applied")
  <2> DEFINE q == [mem.pool EXCEPT !.pending.state = "acked"]
  <2>1. maint # IdleMaint /\ maint.id \in Requests
    BY <1>6 DEF MarkAcknowledged, IdleMaint, TypeOK, MaintRecords
  <2>a. mem.pool.pending = [id |-> maint.id, state |-> "applied"] BY <1>6 DEF SamePending
  <2>2. [mem.pool.pending EXCEPT !.state = "acked"] = [id |-> maint.id, state |-> "acked"]
    BY <2>a
  <2>3. [id |-> maint.id, state |-> "acked"] \in PendingTopUps
    BY <2>1 DEF PendingTopUps, TopUpStates
  <2>4. /\ q \in ControlArtifactPools /\ q.generation = mem.pool.generation
        /\ q.entries = mem.pool.entries /\ q.pending = [id |-> maint.id, state |-> "acked"]
    BY <1>0, <1>6, <2>2, <2>3 DEF ControlArtifactPools
  <2> HIDE DEF q
  <2>5. PoolEvolves(mem.pool, q) BY <1>0, <1>6, <2>4, SameEntriesEvolve
  <2>b. PendingMoves(mem.pool.pending, q.pending) BY <2>a, <2>4 DEF PendingMoves
  <2>6. Works(WithPool(q))
    BY <1>0, <1>6, <2>5, <2>b, WithPoolPool DEF Works, Rewrites
  <2>7. SaveOrFail(WithPool(q)) BY <1>6 DEF MarkAcknowledged, SaveOrFail, q
  <2> QED BY <2>6, <2>7, WorkSaveShape
<1>7. CASE ClearTopUp /\ SamePending("acked")
  <2> DEFINE q == [mem.pool EXCEPT !.pending = NoTopUp]
  <2>1. /\ q \in ControlArtifactPools /\ q.generation = mem.pool.generation
        /\ q.entries = mem.pool.entries /\ q.pending = NoTopUp
    BY <1>0, <1>7 DEF ControlArtifactPools, PendingTopUps
  <2> HIDE DEF q
  <2>2. PoolEvolves(mem.pool, q) BY <1>0, <1>7, <2>1, SameEntriesEvolve
  <2>3. Works(WithPool(q))
    BY <1>0, <1>7, <2>1, <2>2, WithPoolPool DEF Works, Rewrites, PendingMoves
  <2>4. SaveOrFail(WithPool(q)) BY <1>7 DEF ClearTopUp, q
  <2> QED BY <2>3, <2>4, WorkSaveShape
<1>8. CASE TopUpAnswered \/ TopUpError \/ SnapshotPending \/ AckAnswered \/ AckError
  BY <1>1, <1>8 DEF TopUpAnswered, TopUpError, SnapshotPending, AckAnswered, AckError
<1>9. CASE MarkTerminal /\ ~SamePending("pending") BY <1>1, <1>9 DEF MarkTerminal
<1>10. CASE RecordExpired
  <2>1. \/ UNCHANGED <<mem, disk>>
        \/ \E state : SamePending(state) /\ SaveOrFail(WithPool(ExpiredPool(mem.pool)))
    BY <1>10 DEF RecordExpired
  <2> QED BY <1>1, <1>5, <1>10, <2>1
<1>11. CASE MarkAcknowledged /\ ~SamePending("applied") BY <1>1, <1>11 DEF MarkAcknowledged
<1>12. CASE ClearTopUp /\ ~SamePending("acked") BY <1>1, <1>12 DEF ClearTopUp
<1> QED BY <1>2, <1>3, <1>4, <1>6, <1>7, <1>8, <1>9, <1>10, <1>11, <1>12 DEF Maintainer

\* A recovery replaces the pool or removes it.
LEMMA RecoverShape ==
    ASSUME TypeOK,
           RecoverApproved \/ RecoverRefused \/ RecoverTerminal \/ RecoverFails
    PROVE  StepShape
<1>1. CASE RecoverApproved
  <2>1. PICK g \in Generations, run \in Runs, life \in Lifetimes :
           /\ Cardinality(run) \in TargetWaterline..MaxOutstanding
           /\ \A s \in run : expires'[<<g, s>>] \in (now + RefreshHorizon + 1)..(now + MaxLifetime)
           /\ LET next == [generation |-> g, pool |-> DeliveredPool(g, run)]
              IN  Save(next) \/ SaveFails(next)
    BY <1>1 DEF RecoverApproved
  <2> DEFINE next == [generation |-> g, pool |-> DeliveredPool(g, run)]
  <2>2. Cardinality(run) <= MaxOutstanding BY <2>1
  <2>3. \A s \in run : expires'[<<g, s>>] > now BY <2>1, PoolContract DEF TypeOK
  <2>4. next.pool = DeliveredPool(g, run) OBVIOUS
  <2>5. SaveOrFail(next) BY <2>1 DEF SaveOrFail
  <2> HIDE DEF next
  <2>6. Writes(next) BY <2>2, <2>3, <2>4 DEF Writes, Delivers
  <2> QED BY <2>5, <2>6, SaveShape
<1>2. CASE RecoverRefused
  <2>1. PICK g \in Generations :
           LET next == [generation |-> g, pool |-> NoPool]
           IN  \/ Save(next)
               \/ mem' = WithPool(NoPool) /\ disk' \in {disk, next}
    BY <1>2 DEF RecoverRefused
  <2>2. WithPool(NoPool).pool = NoPool BY WithPoolPool
  <2> QED BY <2>1, <2>2 DEF Save, StepShape
<1>3. CASE RecoverTerminal
  <2>1. WithPool(NoPool).pool = NoPool BY WithPoolPool
  <2> QED BY <1>3, <2>1 DEF RecoverTerminal, StepShape
<1>4. CASE RecoverFails BY <1>4 DEF RecoverFails, StepShape
<1> QED BY <1>1, <1>2, <1>3, <1>4

\* Every step has one of the shapes.
LEMMA NextShape ==
    ASSUME TypeOK, SoundConfig(mem, expires, now), Next
    PROVE  StepShape
<1>1. CASE Maintainer BY <1>1, MaintainerShape DEF WorkShape, StepShape, Writes
<1>2. CASE Portal BY <1>2 DEF Portal, PortalTopUp, PortalAck, StepShape
<1>3. ASSUME NEW l \in Leases, Acquire(l) \/ CommitPoolSpend(l) PROVE StepShape
  BY <1>3, AcquireShape, PoolSpendShape DEF StepShape
<1>4. ASSUME NEW l \in Leases, CommitSpendLedger(l) \/ AbandonLease(l) PROVE StepShape
  BY <1>4 DEF CommitSpendLedger, AbandonLease, StepShape
<1>5. CASE RecoverApproved \/ RecoverRefused \/ RecoverTerminal \/ RecoverFails
  BY <1>5, RecoverShape
<1>6. CASE Connector BY <1>3, <1>4, <1>5, <1>6 DEF Connector
<1>7. CASE FencePool
  <2>1. WithPool(NoPool).pool = NoPool BY WithPoolPool
  <2> QED BY <1>7, <2>1 DEF FencePool, StepShape
<1>8. CASE Crash BY <1>8 DEF Crash, StepShape
<1>9. CASE PersistReceipt BY <1>9 DEF PersistReceipt, StepShape
<1>10. CASE Tick \/ RestartChannel \/ SessionRejected \/ \E d \in DataArtifacts : CommitDataSpend(d)
  BY <1>10 DEF Tick, RestartChannel, SessionRejected, CommitDataSpend, StepShape
<1> QED BY <1>1, <1>2, <1>6, <1>7, <1>8, <1>9, <1>10 DEF Next, Environment

----------------------------------------------------------------------------
(***************************************************************************)
(* Every pool stays valid.  The two copies of the configuration are sound  *)
(* only together with what is known of a response that was validated and   *)
(* is not applied yet, so the invariant has both: while a top-up is in     *)
(* flight what is live in the pool was live in the snapshot it is checked  *)
(* against, and the response fits what of that snapshot is outstanding.    *)
(***************************************************************************)
FlightInv ==
    maint.pc \in {"topup", "apply"} =>
        /\ Cardinality(Live(maint.snapshot)) <= MaxOutstanding
        /\ \A s \in Present(maint.snapshot) : Expiry(maint.generation, s) > 0
        /\ SamePending("pending") => Live(mem.pool.entries) \subseteq Live(maint.snapshot)

ResponseInv ==
    maint.pc = "apply" =>
        /\ Cardinality(outstandingSet(maint.generation, maint.snapshot))
             + Cardinality(maint.response) <= MaxOutstanding
        /\ Cardinality(maint.response) <= MaxTopUpEntries
        /\ \A s \in maint.response : Expiry(maint.generation, s) > 0

SoundInv ==
    /\ TypeOK
    /\ SoundConfig(mem, expires, now) /\ SoundConfig(disk, expires, now)
    /\ FlightInv /\ ResponseInv

\* Every sequence number of every pool has an expiry.
LEMMA ExpiryType ==
    ASSUME NEW x \in [Burnable -> Nat], NEW g \in Generations, NEW s \in Sequences
    PROVE  <<g, s>> \in Burnable /\ x[<<g, s>>] \in Nat
BY DEF Burnable, Artifacts

\* What evolved from a sound pool is sound.
LEMMA EvolvedSound ==
    ASSUME TypeOK, NEW p \in ControlArtifactPools, SoundPool(p, expires, now),
           NEW q, PoolEvolves(p, q)
    PROVE  SoundPool(q, expires, now)
<1> DEFINE g == p.generation
           out(e) == {s \in Live(e) : expires[<<g, s>>] > now}
<1>1. q.generation = g /\ EntriesEvolve(g, p.entries, q.entries) BY DEF PoolEvolves
<1>2. Present(q.entries) = Present(p.entries) BY <1>1 DEF EntriesEvolve
<1>3. out(q.entries) \subseteq out(p.entries) BY <1>1 DEF EntriesEvolve, Live
<1>4. /\ IsFiniteSet(out(p.entries)) /\ Cardinality(out(p.entries)) \in Nat
      /\ Cardinality(out(q.entries)) \in Nat
  <2>1. out(p.entries) \in SUBSET Sequences /\ out(q.entries) \in SUBSET Sequences BY DEF Live
  <2> QED BY <2>1, SequencesFinite
<1>5. Cardinality(out(q.entries)) <= Cardinality(out(p.entries)) BY <1>3, <1>4, FS_Subset
<1>6. Cardinality(out(p.entries)) <= MaxOutstanding BY DEF SoundPool
<1>7. Cardinality(out(q.entries)) <= MaxOutstanding BY <1>4, <1>5, <1>6, PoolContract
<1>8. ASSUME NEW s \in Present(q.entries), q.entries[s] = "erased"
      PROVE  expires[<<g, s>>] <= now
  <2>1. s \in Sequences /\ s \in Present(p.entries) BY <1>2, <1>8 DEF Present
  <2>2. p.entries[s] = "erased" \/ Expiry(g, s) <= now BY <1>1, <1>8, <2>1 DEF EntriesEvolve
  <2> QED BY <2>1, <2>2 DEF SoundPool, Expiry
<1> QED BY <1>1, <1>2, <1>7, <1>8 DEF SoundPool

\* A sound pool stays sound when time passes and other artifacts are minted.
LEMMA SoundLater ==
    ASSUME NEW p \in ControlArtifactPools,
           NEW x \in [Burnable -> Nat], NEW y \in [Burnable -> Nat],
           NEW t \in Nat, NEW u \in Nat, t <= u,
           \A b \in Burnable : x[b] > 0 => y[b] = x[b],
           SoundPool(p, x, t)
    PROVE  SoundPool(p, y, u)
<1> DEFINE g == p.generation
           old == {s \in Live(p.entries) : x[<<g, s>>] > t}
           new == {s \in Live(p.entries) : y[<<g, s>>] > u}
<1>1. g \in Generations BY DEF ControlArtifactPools
<1>2. \A s \in Present(p.entries) :
         /\ s \in Sequences
         /\ x[<<g, s>>] \in Nat /\ x[<<g, s>>] > 0 /\ y[<<g, s>>] = x[<<g, s>>]
  <2> SUFFICES ASSUME NEW s \in Present(p.entries)
               PROVE  /\ s \in Sequences
                      /\ x[<<g, s>>] \in Nat /\ x[<<g, s>>] > 0 /\ y[<<g, s>>] = x[<<g, s>>]
    OBVIOUS
  <2>1. s \in Sequences BY DEF Present
  <2>2. x[<<g, s>>] > 0 BY DEF SoundPool
  <2> QED BY <1>1, <2>1, <2>2, ExpiryType
<1>3. Live(p.entries) \subseteq Present(p.entries) BY DEF Live, Present
<1>4. new \subseteq old BY <1>2, <1>3
<1>5. /\ IsFiniteSet(old) /\ Cardinality(old) \in Nat /\ Cardinality(new) \in Nat
  <2>1. old \in SUBSET Sequences /\ new \in SUBSET Sequences BY DEF Live
  <2> QED BY <2>1, SequencesFinite
<1>6. Cardinality(new) <= Cardinality(old) BY <1>4, <1>5, FS_Subset
<1>7. Cardinality(old) <= MaxOutstanding BY DEF SoundPool
<1>8. Cardinality(new) <= MaxOutstanding BY <1>5, <1>6, <1>7, PoolContract
<1>9. \A s \in Present(p.entries) : p.entries[s] = "erased" => y[<<g, s>>] <= u
  BY <1>2 DEF SoundPool
<1>10. Cardinality(Present(p.entries)) <= MaxPoolEntries BY DEF SoundPool
<1> QED BY <1>2, <1>8, <1>9, <1>10 DEF SoundPool

\* The clock is never turned back and minted artifacts keep their expiry.
LEMMA TimeMoves ==
    ASSUME TypeOK, [Next]_vars
    PROVE  now' >= now /\ \A x \in Burnable : expires[x] > 0 => expires'[x] = expires[x]
<1>0. now \in Nat BY DEF TypeOK
<1>1. CASE UNCHANGED <<now, expires>> BY <1>0, <1>1
<1>2. CASE PortalTopUp
  <2>1. PICK run \in Runs, life \in Lifetimes : expires' = Minted(maint.generation, run, life)
    BY <1>2 DEF PortalTopUp
  <2> QED BY <1>0, <1>2, <2>1, MintKeeps DEF PortalTopUp
<1>3. CASE RecoverApproved
  <2>1. PICK g \in Generations, run \in Runs, life \in Lifetimes : expires' = Minted(g, run, life)
    BY <1>3 DEF RecoverApproved
  <2> QED BY <1>0, <1>3, <2>1, MintKeeps DEF RecoverApproved
<1>4. CASE Tick BY <1>0, <1>4 DEF Tick
<1>5. CASE UNCHANGED vars BY <1>1, <1>5 DEF vars
<1>6. CASE Maintainer
  BY <1>1, <1>6 DEF Maintainer, PrepareTopUp, TopUpAnswered, TopUpError, ApplyTopUp,
     SnapshotPending, MarkTerminal, RecordExpired, AckAnswered, AckError, MarkAcknowledged, ClearTopUp
<1>7. CASE PortalAck BY <1>1, <1>7 DEF PortalAck
<1>8. CASE Connector /\ ~RecoverApproved
  BY <1>1, <1>8 DEF Connector, Acquire, CommitSpendLedger, AbandonLease, CommitPoolSpend,
     RecoverRefused, RecoverTerminal, RecoverFails
<1>9. CASE Environment /\ ~Tick
  BY <1>1, <1>9 DEF Environment, Crash, FencePool, PersistReceipt, RestartChannel,
     SessionRejected, CommitDataSpend
<1> QED BY <1>2, <1>3, <1>4, <1>5, <1>6, <1>7, <1>8, <1>9 DEF Next, Portal

\* A validated pool is sound if its artifacts were minted.
LEMMA ValidIsSound ==
    ASSUME TypeOK, NEW p \in ControlArtifactPools, ValidPool(p),
           \A s \in Present(p.entries) : Expiry(p.generation, s) > 0
    PROVE  SoundPool(p, expires, now)
<1>1. p.generation \in Generations /\ \A s \in Present(p.entries) : s \in Sequences
  BY DEF ControlArtifactPools, Present
<1>2. \A s \in Present(p.entries) : expires[<<p.generation, s>>] \in Nat /\ now \in Nat
  BY <1>1, ExpiryType DEF TypeOK
<1>3. \A s \in Present(p.entries) : p.entries[s] = "erased" => expires[<<p.generation, s>>] <= now
  BY <1>2 DEF ValidPool, Expiry
<1> QED BY <1>3 DEF SoundPool, ValidPool, outstandingSet, Expiry

\* And the other way round: a sound pool passes ControlArtifactPool.Validate.
LEMMA SoundIsValid ==
    ASSUME TypeOK, NEW p \in ControlArtifactPools, SoundPool(p, expires, now)
    PROVE  ValidPool(p)
<1>1. p.generation \in Generations /\ \A s \in Present(p.entries) : s \in Sequences
  BY DEF ControlArtifactPools, Present
<1>2. \A s \in Present(p.entries) : expires[<<p.generation, s>>] \in Nat /\ now \in Nat
  BY <1>1, ExpiryType DEF TypeOK
<1>3. \A s \in Present(p.entries) : Expiry(p.generation, s) > now => p.entries[s] # "erased"
  BY <1>2 DEF SoundPool, Expiry
<1> QED BY <1>3 DEF SoundPool, ValidPool, outstandingSet, Expiry

\* A delivered pool is sound: it has no more entries than may be outstanding,
\* all of them live and minted.
LEMMA DeliveredSound ==
    ASSUME NEW g \in Generations, NEW run \in Runs, Cardinality(run) <= MaxOutstanding,
           NEW x \in [Burnable -> Nat], NEW t, \A s \in run : x[<<g, s>>] > 0
    PROVE  SoundPool(DeliveredPool(g, run), x, t)
<1> DEFINE e == [s \in Sequences |-> IF s \in run THEN "live" ELSE "none"]
<1>1. run \in SUBSET Sequences BY PoolContract DEF Runs, Sequences
<1>2. Present(e) = run BY <1>1 DEF Present
<1>3. {s \in Live(e) : x[<<g, s>>] > t} \subseteq run BY DEF Live
<1>4. IsFiniteSet(run) /\ Cardinality(run) \in Nat BY <1>1, SequencesFinite
<1>5. Cardinality({s \in Live(e) : x[<<g, s>>] > t}) <= Cardinality(run)
  BY <1>3, <1>4, FS_Subset
<1>6. Cardinality({s \in Live(e) : x[<<g, s>>] > t}) \in Nat
  <2>1. {s \in Live(e) : x[<<g, s>>] > t} \in SUBSET Sequences BY DEF Live
  <2> QED BY <2>1, SequencesFinite
<1>7. MaxOutstanding <= MaxPoolEntries BY PoolContract, RoomForTopUp
<1>8. \A s \in run : e[s] # "erased" BY <1>1
<1> HIDE DEF e
<1>9. DeliveredPool(g, run).entries = e /\ DeliveredPool(g, run).generation = g
  BY DEF DeliveredPool, e
<1> QED BY <1>2, <1>4, <1>5, <1>6, <1>7, <1>8, <1>9, PoolContract DEF SoundPool

\* Whatever a step writes is sound after the step.
LEMMA WrittenSound ==
    ASSUME SoundInv, TypeOK', [Next]_vars, NEW c \in Configs, Writes(c)
    PROVE  SoundConfig(c, expires', now')
<1> SUFFICES ASSUME c.pool # NoPool PROVE SoundPool(c.pool, expires', now')
  BY DEF SoundConfig
<1>1. c.pool \in ControlArtifactPools BY DEF Configs
<1>2. /\ expires \in [Burnable -> Nat] /\ expires' \in [Burnable -> Nat]
      /\ now \in Nat /\ now' \in Nat /\ TypeOK
  BY DEF SoundInv, TypeOK
<1>3. ASSUME SoundPool(c.pool, expires, now) PROVE SoundPool(c.pool, expires', now')
  BY <1>1, <1>2, <1>3, TimeMoves, SoundLater
<1>4. CASE Rewrites(c)
  <2>1. mem.pool \in ControlArtifactPools /\ SoundPool(mem.pool, expires, now)
    BY <1>4, CurrentPoolType DEF SoundInv, SoundConfig, Rewrites
  <2> QED BY <1>2, <1>3, <1>4, <2>1, EvolvedSound DEF Rewrites
<1>5. CASE Applies(c)
  <2> DEFINE p == mem.pool
  <2>1. /\ p \in ControlArtifactPools /\ SoundPool(p, expires, now)
        /\ p.generation = maint.generation
    BY <1>5, CurrentPoolType DEF SoundInv, SoundConfig, Applies, SamePending
  <2>2. maint \in MaintRecords /\ maint # IdleMaint
    BY <1>2, <1>5 DEF Applies, IdleMaint, TypeOK
  <2>3. c.pool = AppliedPool(p) /\ ValidPool(c.pool) BY <1>2, <1>5, WithPoolPool DEF Applies
  <2>4. /\ c.pool.generation = p.generation
        /\ \A s \in Sequences : s \notin maint.response => c.pool.entries[s] \in {p.entries[s], "none"}
    BY <2>1, <2>2, <2>3, AppliedShape
  <2>5. \A s \in Present(c.pool.entries) : s \in maint.response \/ s \in Present(p.entries)
    BY <2>4 DEF Present
  <2>6. \A s \in maint.response : Expiry(maint.generation, s) > 0
    BY <1>5 DEF Applies, SoundInv, ResponseInv
  <2>7. \A s \in Present(p.entries) : Expiry(p.generation, s) > 0
    BY <2>1 DEF SoundPool, Expiry
  <2>8. \A s \in Present(c.pool.entries) : Expiry(c.pool.generation, s) > 0
    BY <2>1, <2>4, <2>5, <2>6, <2>7
  <2> QED BY <1>1, <1>2, <1>3, <2>3, <2>8, ValidIsSound
<1>6. CASE Delivers(c)
  <2>1. PICK g \in Generations, run \in Runs :
          /\ c.pool = DeliveredPool(g, run)
          /\ Cardinality(run) <= MaxOutstanding
          /\ \A s \in run : expires'[<<g, s>>] > now
    BY <1>6 DEF Delivers
  <2>2. run \in SUBSET Sequences BY PoolContract DEF Runs, Sequences
  <2>3. \A s \in run : expires'[<<g, s>>] > 0 BY <1>2, <2>1, <2>2, ExpiryType
  <2> QED BY <1>2, <2>1, <2>3, DeliveredSound
<1> QED BY <1>4, <1>5, <1>6 DEF Writes, Works

\* A step keeps both copies sound.
LEMMA ConfigsStaySound ==
    ASSUME SoundInv, TypeOK', [Next]_vars
    PROVE  SoundConfig(mem, expires, now)' /\ SoundConfig(disk, expires, now)'
<1>1. mem' \in Configs /\ disk' \in Configs /\ mem \in Configs /\ disk \in Configs
  BY DEF SoundInv, TypeOK
<1>2. ASSUME NEW c \in {mem, disk} PROVE SoundConfig(c, expires', now')
  <2>1. /\ expires \in [Burnable -> Nat] /\ expires' \in [Burnable -> Nat]
        /\ now \in Nat /\ now' \in Nat /\ TypeOK
    BY DEF SoundInv, TypeOK
  <2>2. c.pool # NoPool => c.pool \in ControlArtifactPools /\ SoundPool(c.pool, expires, now)
    BY <1>1, <1>2 DEF SoundInv, SoundConfig, Configs
  <2> QED BY <2>1, <2>2, TimeMoves, SoundLater DEF SoundConfig
<1>3. ASSUME NEW c \in Configs, Writes(c) PROVE SoundConfig(c, expires', now')
  BY <1>3, WrittenSound
<1>4. ASSUME NEW c, Keeps(c) PROVE Writes(c)
  BY <1>4 DEF Keeps, Writes, Works, Rewrites, PendingMoves
<1>5. ASSUME NEW c, c.pool = NoPool PROVE SoundConfig(c, expires', now')
  BY <1>5 DEF SoundConfig
<1>6. UNCHANGED vars => StepShape BY DEF vars, StepShape
<1>7. StepShape BY <1>6, NextShape DEF SoundInv
<1>8. SoundConfig(mem', expires', now') /\ SoundConfig(disk', expires', now')
  BY <1>1, <1>2, <1>3, <1>4, <1>5, <1>7 DEF StepShape
<1> QED BY <1>8

\* A top-up is in flight after a step only if the step left the maintainer
\* alone, answered its request or started it.
LEMMA MaintainerMoves ==
    ASSUME TypeOK, [Next]_vars
    PROVE  \/ UNCHANGED maint
           \/ maint'.pc \notin {"topup", "apply"}
           \/ TopUpAnswered
           \/ PrepareTopUp
<1>1. CASE UNCHANGED vars BY <1>1 DEF vars
<1>0. ASSUME NEW pc, MaintAt(pc) PROVE maint'.pc = pc
  <2>1. maint \in MaintRecords BY DEF TypeOK
  <2> QED BY <1>0, <2>1 DEF MaintAt, MaintRecords, IdleMaint
<1>a. MaintIdle => maint'.pc = "idle" BY DEF MaintIdle, IdleMaint
<1>b. SnapshotPending => maint'.pc \notin {"topup", "apply"}
  BY <1>a DEF SnapshotPending, StartMaint
<1>2. CASE Maintainer
  BY <1>0, <1>a, <1>b, <1>2 DEF Maintainer, TopUpError, ApplyTopUp, MarkTerminal, RecordExpired,
     AckAnswered, AckError, MarkAcknowledged, ClearTopUp
<1>3. CASE Portal BY <1>3 DEF Portal, PortalTopUp, PortalAck
<1>4. CASE Connector
  BY <1>4 DEF Connector, Acquire, CommitSpendLedger, AbandonLease, CommitPoolSpend,
     RecoverApproved, RecoverRefused, RecoverTerminal, RecoverFails
<1>5. CASE Environment
  BY <1>5 DEF Environment, Tick, Crash, FencePool, PersistReceipt, RestartChannel,
     SessionRejected, CommitDataSpend, IdleMaint
<1> QED BY <1>1, <1>2, <1>3, <1>4, <1>5 DEF Next

\* A snapshot of the maintainer has the type of a list of entries.
LEMMA SnapshotType ==
    ASSUME TypeOK
    PROVE  /\ maint.snapshot \in Entries /\ maint.generation \in Generations
           /\ maint.response \in SUBSET Sequences
BY PoolContract DEF TypeOK, MaintRecords, IdleMaint, NoEntries, EntryStates, Entries, Generations

\* While a top-up is in flight no other step makes an entry of the pool live.
LEMMA FlightKept ==
    ASSUME SoundInv, TypeOK', [Next]_vars, UNCHANGED maint
    PROVE  FlightInv'
<1> SUFFICES ASSUME maint.pc \in {"topup", "apply"}
             PROVE  /\ Cardinality(Live(maint.snapshot)) <= MaxOutstanding
                    /\ \A s \in Present(maint.snapshot) : Expiry(maint.generation, s)' > 0
                    /\ SamePending("pending")' => Live(mem'.pool.entries) \subseteq Live(maint.snapshot)
  BY DEF FlightInv
<1>1. TypeOK /\ FlightInv BY DEF SoundInv
<1>2. Cardinality(Live(maint.snapshot)) <= MaxOutstanding BY <1>1 DEF FlightInv
<1>3. ASSUME NEW s \in Present(maint.snapshot) PROVE expires'[<<maint.generation, s>>] > 0
  <2>1. s \in Sequences /\ maint.generation \in Generations
    BY <1>1, SnapshotType DEF Present
  <2>2. expires[<<maint.generation, s>>] > 0 BY <1>1, <1>3 DEF FlightInv, Expiry
  <2>3. <<maint.generation, s>> \in Burnable BY <2>1 DEF Burnable, Artifacts
  <2> QED BY <1>1, <2>2, <2>3, TimeMoves
<1>4. ASSUME SamePending("pending")' PROVE Live(mem'.pool.entries) \subseteq Live(maint.snapshot)
  <2>0. /\ mem'.pool # NoPool
        /\ mem'.pool.generation = maint.generation
        /\ mem'.pool.pending = [id |-> maint.id, state |-> "pending"]
    BY <1>4 DEF SamePending
  <2>1. UNCHANGED vars => StepShape BY DEF vars, StepShape
  <2>2. StepShape BY <1>1, <2>1, NextShape DEF SoundInv
  <2>3. maint # IdleMaint BY DEF IdleMaint
  <2>4. mem' = mem \/ Writes(mem') \/ Keeps(mem') BY <2>0, <2>2, <2>3 DEF StepShape
  <2>5. CASE mem' = mem
    <3>1. SamePending("pending") BY <2>0, <2>5 DEF SamePending
    <3> QED BY <1>1, <2>5, <3>1 DEF FlightInv
  <2>6. CASE Rewrites(mem') \/ Keeps(mem')
    <3>1. mem.pool # NoPool /\ PoolEvolves(mem.pool, mem'.pool) BY <2>6 DEF Rewrites, Keeps
    <3>2. PendingMoves(mem.pool.pending, mem'.pool.pending)
      BY <2>6 DEF Rewrites, Keeps, PendingMoves
    <3>3. mem.pool.pending = mem'.pool.pending
      BY <2>0, <3>2 DEF PendingMoves, NoTopUp
    <3>4. SamePending("pending") BY <2>0, <3>1, <3>3 DEF SamePending, PoolEvolves
    <3>5. Live(mem.pool.entries) \subseteq Live(maint.snapshot) BY <1>1, <3>4 DEF FlightInv
    <3>6. Live(mem'.pool.entries) \subseteq Live(mem.pool.entries)
      BY <3>1 DEF PoolEvolves, EntriesEvolve, Live
    <3> QED BY <3>5, <3>6
  <2>7. CASE Applies(mem')
    <3>1. mem'.pool = AppliedPool(mem.pool) /\ mem.pool \in ControlArtifactPools
      BY <1>1, <2>7, WithPoolPool, CurrentPoolType DEF Applies, SamePending
    <3>2. mem'.pool.pending.state = "applied"
      BY <1>1, <2>3, <3>1, AppliedShape DEF TypeOK
    <3> QED BY <2>0, <3>2
  <2>8. CASE Delivers(mem')
    <3>1. mem'.pool.pending = NoTopUp BY <2>8 DEF Delivers, DeliveredPool
    <3> QED BY <2>0, <3>1 DEF NoTopUp
  <2> QED BY <2>0, <2>4, <2>5, <2>6, <2>7, <2>8 DEF Writes, Works
<1> QED BY <1>2, <1>3, <1>4 DEF Expiry

\* The snapshot of a new request has only outstanding entries live.
LEMMA FlightStarted ==
    ASSUME SoundInv, PrepareTopUp, maint'.pc \in {"topup", "apply"}
    PROVE  FlightInv'
<1> DEFINE p == mem.pool
           q == PreparedPool(p)
           asked == [q EXCEPT !.recovery = "degraded",
                              !.pending = [id |-> usedRequests + 1, state |-> "pending"]]
<1>1. TypeOK /\ SoundConfig(mem, expires, now) BY DEF SoundInv
<1>2. p # NoPool /\ p \in ControlArtifactPools /\ Cardinality(Present(p.entries)) <= MaxPoolEntries
  BY <1>1, SoundFits DEF PrepareTopUp
<1>3. /\ PoolEvolves(p, Refreshed(p))
      /\ Live(Refreshed(p).entries) \subseteq outstandingSet(p.generation, p.entries)
  BY <1>1, <1>2, RefreshedEvolves
<1>4. /\ q \in ControlArtifactPools /\ q.generation = p.generation
      /\ q.entries = Refreshed(p).entries
  BY <1>2, <1>3, PoolsClosed DEF PreparedPool, ForgetAcked, ControlArtifactPools, PoolEvolves
<1> HIDE DEF q
<1>5. asked.generation = q.generation /\ asked.entries = q.entries
  BY <1>4 DEF ControlArtifactPools
<1>6. maint.pc = "idle" BY DEF PrepareTopUp
<1>7. /\ mem'.pool.entries = q.entries
      /\ maint'.snapshot = q.entries /\ maint'.generation = q.generation
  <2>1. CASE SaveIfChanged(q) /\ (StartMaint(q, "topup") \/ StartMaint(q, "ack"))
    <3>1. mem'.pool = q BY <1>1, <2>1, WithPoolPool DEF SaveIfChanged, Save
    <3> QED BY <2>1, <3>1 DEF StartMaint
  <2>2. CASE Save(WithPool(asked)) /\ StartMaint(asked, "topup")
    <3> HIDE DEF asked
    <3>1. mem'.pool = asked BY <1>1, <2>2, WithPoolPool DEF Save
    <3> QED BY <1>5, <2>2, <3>1 DEF StartMaint
  <2>3. ~UNCHANGED maint BY <1>6
  <2> QED BY <2>1, <2>2, <2>3 DEF PrepareTopUp, q
<1>8. Cardinality(Live(q.entries)) <= MaxOutstanding
  <2>1. Cardinality(outstandingSet(p.generation, p.entries)) <= MaxOutstanding
    BY <1>1, <1>2 DEF SoundConfig, SoundPool, outstandingSet, Expiry
  <2>2. outstandingSet(p.generation, p.entries) \in SUBSET Sequences BY DEF outstandingSet, Live
  <2>3. /\ IsFiniteSet(outstandingSet(p.generation, p.entries))
        /\ Cardinality(outstandingSet(p.generation, p.entries)) \in Nat
        /\ Cardinality(Live(q.entries)) \in Nat
    BY <2>2, EntrySets, SequencesFinite
  <2>4. Cardinality(Live(q.entries)) <= Cardinality(outstandingSet(p.generation, p.entries))
    BY <1>3, <1>4, <2>3, FS_Subset
  <2> QED BY <2>1, <2>3, <2>4, PoolContract
<1>9. \A s \in Present(q.entries) : expires[<<q.generation, s>>] > 0
  <2>1. Present(q.entries) = Present(p.entries) BY <1>3, <1>4 DEF PoolEvolves, EntriesEvolve
  <2> QED BY <1>1, <1>2, <1>4, <2>1 DEF SoundConfig, SoundPool
<1>10. UNCHANGED expires BY DEF PrepareTopUp
<1> QED BY <1>7, <1>8, <1>9, <1>10 DEF FlightInv, Expiry

\* A response that waits to be applied stays within what is outstanding.
LEMMA ResponseKept ==
    ASSUME SoundInv, TypeOK', [Next]_vars, UNCHANGED maint
    PROVE  ResponseInv'
<1> DEFINE g == maint.generation
           old == {s \in Live(maint.snapshot) : expires[<<g, s>>] > now}
           new == {s \in Live(maint.snapshot) : expires'[<<g, s>>] > now'}
<1> SUFFICES ASSUME maint.pc = "apply"
             PROVE  /\ Cardinality(new) + Cardinality(maint.response) <= MaxOutstanding
                    /\ Cardinality(maint.response) <= MaxTopUpEntries
                    /\ \A s \in maint.response : expires'[<<g, s>>] > 0
  BY DEF ResponseInv, outstandingSet, Expiry
<1>1. TypeOK /\ FlightInv /\ ResponseInv BY DEF SoundInv
<1>2. g \in Generations /\ maint.response \in SUBSET Sequences BY <1>1, SnapshotType
<1>3. /\ expires \in [Burnable -> Nat] /\ expires' \in [Burnable -> Nat]
      /\ now \in Nat /\ now' \in Nat
  BY DEF SoundInv, TypeOK
<1>4. ASSUME NEW s \in Sequences, expires[<<g, s>>] > 0
      PROVE  expires'[<<g, s>>] = expires[<<g, s>>]
  BY <1>1, <1>2, <1>3, <1>4, ExpiryType, TimeMoves
<1>5. \A s \in maint.response : expires'[<<g, s>>] > 0
  <2>1. \A s \in maint.response : expires[<<g, s>>] > 0 BY <1>1 DEF ResponseInv, Expiry
  <2> QED BY <1>2, <1>4, <2>1
<1>6. new \subseteq old
  <2> SUFFICES ASSUME NEW s \in Live(maint.snapshot), expires'[<<g, s>>] > now'
               PROVE  expires[<<g, s>>] > now
    OBVIOUS
  <2>1. s \in Sequences /\ s \in Present(maint.snapshot) BY DEF Live, Present
  <2>2. expires[<<g, s>>] > 0 BY <1>1, <2>1 DEF FlightInv, Expiry
  <2>3. expires'[<<g, s>>] = expires[<<g, s>>] BY <1>4, <2>1, <2>2
  <2>4. expires[<<g, s>>] \in Nat BY <1>2, <1>3, <2>1, ExpiryType
  <2>5. now' >= now BY <1>1, TimeMoves
  <2> QED BY <1>3, <2>3, <2>4, <2>5
<1>7. /\ IsFiniteSet(old) /\ Cardinality(old) \in Nat /\ Cardinality(new) \in Nat
      /\ Cardinality(maint.response) \in Nat
  <2>1. old \in SUBSET Sequences /\ new \in SUBSET Sequences BY DEF Live
  <2> QED BY <1>2, <2>1, SequencesFinite
<1>8. Cardinality(new) <= Cardinality(old) BY <1>6, <1>7, FS_Subset
<1>9. /\ Cardinality(old) + Cardinality(maint.response) <= MaxOutstanding
      /\ Cardinality(maint.response) <= MaxTopUpEntries
  BY <1>1 DEF ResponseInv, outstandingSet, Expiry
<1> QED BY <1>5, <1>7, <1>8, <1>9, PoolContract

\* Validation establishes it.
LEMMA ResponseValidated ==
    ASSUME SoundInv, TopUpAnswered
    PROVE  FlightInv' /\ ResponseInv'
<1>1. TypeOK /\ FlightInv /\ maint \in MaintRecords /\ maint # IdleMaint
  BY DEF SoundInv, TypeOK, TopUpAnswered, IdleMaint
<1>2. PICK r \in Requests :
          maint' = [maint EXCEPT
                          !.pc = IF ValidResponse(r) THEN "apply" ELSE "fail",
                          !.response = IF ValidResponse(r) THEN replies[r].entries ELSE {}]
  BY DEF TopUpAnswered
<1>3. UNCHANGED <<now, expires, mem>> /\ maint.pc = "topup" BY DEF TopUpAnswered
<1> DEFINE ok == ValidResponse(r)
<1>4. /\ maint'.pc = (IF ok THEN "apply" ELSE "fail")
      /\ maint'.response = (IF ok THEN replies[r].entries ELSE {})
      /\ maint'.id = maint.id /\ maint'.generation = maint.generation
      /\ maint'.snapshot = maint.snapshot
  <2> HIDE DEF ok
  <2> QED BY <1>1, <1>2 DEF MaintRecords, ok
<1>5. FlightInv'
  BY <1>1, <1>3, <1>4 DEF FlightInv, SamePending, Expiry
<1>6. ResponseInv'
  <2> SUFFICES ASSUME ok
               PROVE  /\ Cardinality(outstandingSet(maint.generation, maint.snapshot))
                           + Cardinality(replies[r].entries) <= MaxOutstanding
                      /\ Cardinality(replies[r].entries) <= MaxTopUpEntries
                      /\ \A s \in replies[r].entries : Expiry(maint.generation, s) > 0
    BY <1>3, <1>4 DEF ResponseInv, outstandingSet, Expiry
  <2>1. /\ Cardinality(replies[r].entries) <= MaxTopUpEntries
        /\ \A s \in replies[r].entries : Expiry(maint.generation, s)
              \in (now + RefreshHorizon + 1)..(now + MaxLifetime)
        /\ Cardinality(outstandingSet(maint.generation, maint.snapshot))
             + Cardinality(replies[r].entries) <= MaxOutstanding
    BY DEF ValidResponse
  <2>2. now \in Nat BY <1>1 DEF TypeOK
  <2> QED BY <2>1, <2>2, PoolContract
<1> QED BY <1>5, <1>6

\* The bootstrap pool is sound and nothing is in flight.
LEMMA InitSound == Init => SoundInv
<1> SUFFICES ASSUME Init PROVE SoundInv OBVIOUS
<1>1. TypeOK BY InitType
<1>2. maint.pc = "idle" BY DEF Init, IdleMaint
<1>3. FlightInv /\ ResponseInv BY <1>2 DEF FlightInv, ResponseInv
<1>4. PICK run \in {1..j : j \in Sequences} :
          /\ Cardinality(run) \in TargetWaterline..MaxOutstanding
          /\ expires = [x \in Burnable |->
                           IF x \in {<<1, s>> : s \in run} THEN 1 + MaxLifetime
                           ELSE IF x \in DataArtifacts THEN DataExpiry ELSE 0]
          /\ disk = [generation |-> 1, pool |-> DeliveredPool(1, run)]
  BY DEF Init
<1>5. 1 \in Generations /\ 1 \in Sequences BY PoolContract DEF Generations, Sequences
<1>6. run \in Runs BY <1>4, <1>5 DEF Runs
<1>7. run \in SUBSET Sequences BY <1>6, PoolContract DEF Runs, Sequences
<1>8. ASSUME NEW s \in run PROVE expires[<<1, s>>] > 0
  <2>1. <<1, s>> \in Burnable BY <1>5, <1>7 DEF Burnable, Artifacts
  <2>2. expires[<<1, s>>] = 1 + MaxLifetime BY <1>4, <2>1
  <2> QED BY <2>2, PoolContract
<1>9. Cardinality(run) <= MaxOutstanding BY <1>4
<1>10. SoundPool(DeliveredPool(1, run), expires, now)
  BY <1>1, <1>5, <1>6, <1>8, <1>9, DeliveredSound DEF TypeOK
<1>11. mem = disk /\ disk.pool = DeliveredPool(1, run) BY <1>4 DEF Init
<1> QED BY <1>1, <1>3, <1>10, <1>11 DEF SoundInv, SoundConfig

\* Every step preserves the invariant.
LEMMA NextSound == SoundInv /\ [Next]_vars => SoundInv'
<1> SUFFICES ASSUME SoundInv, [Next]_vars PROVE SoundInv' OBVIOUS
<1>1. TypeOK' BY NextType DEF SoundInv
<1>2. SoundConfig(mem, expires, now)' /\ SoundConfig(disk, expires, now)'
  BY <1>1, ConfigsStaySound
<1>3. FlightInv' /\ ResponseInv'
  <2>1. CASE UNCHANGED maint BY <1>1, <2>1, FlightKept, ResponseKept
  <2>2. CASE maint'.pc \notin {"topup", "apply"} BY <2>2 DEF FlightInv, ResponseInv
  <2>3. CASE TopUpAnswered BY <2>3, ResponseValidated
  <2>4. CASE PrepareTopUp /\ maint'.pc \in {"topup", "apply"} /\ ~UNCHANGED maint
    <3>1. FlightInv' BY <2>4, FlightStarted
    <3>2. maint'.pc # "apply" BY <2>4 DEF PrepareTopUp, StartMaint
    <3> QED BY <3>1, <3>2 DEF ResponseInv
  <2> QED BY <2>1, <2>2, <2>3, <2>4, MaintainerMoves DEF SoundInv
<1> QED BY <1>1, <1>2, <1>3 DEF SoundInv

\* The invariant holds in every state.
LEMMA SoundAlways == Spec => []SoundInv
BY InitSound, NextSound, PTL DEF Spec

\* Both copies of the configuration pass ControlArtifactPool.Validate in every
\* state: no sequence of refreshes, spends, top-ups, recoveries, failed saves
\* and crashes leaves a pool that the next load would refuse.
THEOREM PoolsStayValid ==
    Spec => [](\A c \in {mem, disk} : c.pool # NoPool => ValidPool(c.pool))
<1>1. SoundInv => (\A c \in {mem, disk} : c.pool # NoPool => ValidPool(c.pool))
  BY SoundIsValid DEF SoundInv, SoundConfig, TypeOK, Configs
<1> QED BY <1>1, SoundAlways, PTL

\* A validated response for the request that is still pending always fits,
\* whatever was spent and whatever expired while it was in flight.
THEOREM ResponseFits == Spec => []ValidResponseFits
<1>1. ASSUME SoundInv PROVE ValidResponseFits
  <2> DEFINE p == mem.pool
             q == AppliedPool(p)
             out(e) == {s \in Live(e) : expires[<<p.generation, s>>] > now}
  <2> SUFFICES ASSUME maint.pc = "apply", SamePending("pending") PROVE ValidPool(q)
    BY DEF ValidResponseFits
  <2>1. TypeOK /\ FlightInv /\ ResponseInv /\ SoundConfig(mem, expires, now) BY <1>1 DEF SoundInv
  <2>2. p # NoPool /\ p \in ControlArtifactPools /\ p.generation = maint.generation
    BY <2>1, CurrentPoolType DEF SamePending
  <2>3. SoundPool(p, expires, now) BY <2>1, <2>2 DEF SoundConfig
  <2>4. maint \in MaintRecords /\ maint # IdleMaint BY <2>1 DEF IdleMaint, TypeOK
  <2>5. /\ q \in ControlArtifactPools /\ q.generation = p.generation
        /\ \A s \in Sequences :
              /\ s \in maint.response => q.entries[s] = "live"
              /\ s \notin maint.response => q.entries[s] \in {p.entries[s], "none"}
    BY <2>2, <2>4, AppliedShape
  <2>6. maint.response \in SUBSET Sequences BY <2>1, SnapshotType
  <2>7. /\ Cardinality(Live(maint.snapshot)) <= MaxOutstanding
        /\ Live(p.entries) \subseteq Live(maint.snapshot)
        /\ Cardinality(out(maint.snapshot)) + Cardinality(maint.response) <= MaxOutstanding
        /\ Cardinality(maint.response) <= MaxTopUpEntries
    BY <2>1, <2>2 DEF FlightInv, ResponseInv, outstandingSet, Expiry
  <2>8. /\ IsFiniteSet(Live(maint.snapshot)) /\ IsFiniteSet(maint.response)
        /\ Cardinality(Live(maint.snapshot)) \in Nat /\ Cardinality(Live(p.entries)) \in Nat
        /\ Cardinality(maint.response) \in Nat
    BY <2>6, EntrySets, SequencesFinite
  <2>9. /\ IsFiniteSet(out(maint.snapshot)) /\ Cardinality(out(maint.snapshot)) \in Nat
        /\ Cardinality(out(q.entries)) \in Nat
        /\ Cardinality(out(maint.snapshot) \cap maint.response) \in Nat
    <3>1. /\ out(maint.snapshot) \in SUBSET Sequences /\ out(q.entries) \in SUBSET Sequences
          /\ out(maint.snapshot) \cap maint.response \in SUBSET Sequences
      BY <2>6 DEF Live
    <3> QED BY <3>1, SequencesFinite
  <2>10. Cardinality(Present(q.entries)) <= MaxPoolEntries
    <3>1. Cardinality(Live(p.entries)) <= Cardinality(Live(maint.snapshot))
      BY <2>7, <2>8, FS_Subset
    <3>2. Cardinality(Live(p.entries)) + Cardinality(maint.response) <= MaxPoolEntries
      BY <2>7, <2>8, <3>1, PoolContract, RoomForTopUp
    <3> QED BY <2>2, <2>4, <3>2, AppliedFits
  <2>11. Cardinality(out(q.entries)) <= MaxOutstanding
    <3>1. out(q.entries) \subseteq out(maint.snapshot) \cup maint.response
      BY <2>5, <2>7 DEF Live
    <3> HIDE DEF out
    <3>2. /\ IsFiniteSet(out(maint.snapshot) \cup maint.response)
          /\ Cardinality(out(maint.snapshot) \cup maint.response)
               = Cardinality(out(maint.snapshot)) + Cardinality(maint.response)
                 - Cardinality(out(maint.snapshot) \cap maint.response)
      BY <2>8, <2>9, FS_Union
    <3>3. Cardinality(out(q.entries)) <= Cardinality(out(maint.snapshot) \cup maint.response)
      BY <3>1, <3>2, FS_Subset
    <3> QED BY <2>7, <2>8, <2>9, <3>2, <3>3, PoolContract
  <2>12. \A s \in Present(q.entries) : Expiry(p.generation, s) > now => q.entries[s] # "erased"
    <3> SUFFICES ASSUME NEW s \in Present(q.entries), q.entries[s] = "erased"
                 PROVE  ~(Expiry(p.generation, s) > now)
      OBVIOUS
    <3>1. s \in Sequences /\ p.entries[s] = "erased" BY <2>5 DEF Present
    <3>2. expires[<<p.generation, s>>] <= now BY <2>3, <3>1 DEF SoundPool, Present
    <3>3. expires[<<p.generation, s>>] \in Nat /\ now \in Nat
      BY <2>1, <2>2, <3>1, ExpiryType DEF TypeOK, ControlArtifactPools
    <3> QED BY <3>2, <3>3 DEF Expiry
  <2> QED BY <2>5, <2>10, <2>11, <2>12 DEF ValidPool, outstandingSet, Expiry
<1> QED BY <1>1, SoundAlways, PTL

\* No step of the protocol or of spending drops an entry that has not expired:
\* the list always fits before it is refreshed, so that only a response makes
\* compaction drop anything, and then it drops terminal entries.
THEOREM NoOutstandingDropped == Spec => OutstandingNeverDropped
<1> DEFINE A == (Maintainer \/ \E l \in Leases : Acquire(l) \/ CommitPoolSpend(l)) =>
                  (mem.pool # NoPool =>
                      \A s \in outstandingSet(mem.pool.generation, mem.pool.entries) :
                          mem'.pool.entries[s] \in {"live", "spent"})
<1>1. ASSUME SoundInv, [Next]_vars PROVE [A]_vars
  <2> DEFINE p == mem.pool
  <2> SUFFICES ASSUME Maintainer \/ \E l \in Leases : Acquire(l) \/ CommitPoolSpend(l),
                      p # NoPool, NEW s \in outstandingSet(p.generation, p.entries)
               PROVE  mem'.pool.entries[s] \in {"live", "spent"}
    OBVIOUS
  <2>1. TypeOK /\ SoundConfig(mem, expires, now) /\ p \in ControlArtifactPools
    BY <1>1, CurrentPoolType DEF SoundInv
  <2>2. s \in Sequences /\ p.entries[s] = "live" /\ Expiry(p.generation, s) > now
    BY DEF outstandingSet, Live
  <2>3. ~(Expiry(p.generation, s) <= now)
    BY <2>1, <2>2, ExpiryType DEF Expiry, TypeOK, ControlArtifactPools
  <2>4. CASE mem' = mem BY <2>2, <2>4
  <2>5. CASE PoolEvolves(p, mem'.pool)
    <3>1. s \in Present(mem'.pool.entries) /\ mem'.pool.entries[s] # "erased"
      BY <2>2, <2>3, <2>5 DEF PoolEvolves, EntriesEvolve, Present
    <3>2. mem'.pool.entries[s] \in EntryStates BY <2>2, <2>5 DEF PoolEvolves, EntriesEvolve, Entries
    <3> QED BY <3>1, <3>2 DEF Present, EntryStates
  <2>6. CASE Applies(mem')
    <3>1. maint \in MaintRecords /\ maint # IdleMaint
      BY <2>1, <2>6 DEF Applies, IdleMaint, TypeOK
    <3>2. mem'.pool = AppliedPool(p) BY <2>1, <2>6, WithPoolPool DEF Applies
    <3> QED BY <2>1, <2>2, <3>1, <3>2, AppliedShape
  <2>7. CASE Keeps(mem') \/ Rewrites(mem') BY <2>5, <2>7 DEF Keeps, Rewrites
  <2>8. CASE Maintainer
    <3>1. mem' = mem \/ Works(mem') BY <2>1, <2>8, MaintainerShape DEF WorkShape
    <3> QED BY <2>4, <2>6, <2>7, <3>1 DEF Works
  <2>9. CASE \E l \in Leases : Acquire(l) \/ CommitPoolSpend(l)
    <3>1. mem' = mem \/ Keeps(mem') BY <2>1, <2>9, AcquireShape, PoolSpendShape
    <3> QED BY <2>4, <2>7, <3>1
  <2> QED BY <2>8, <2>9
<1> QED BY <1>1, SoundAlways, PTL DEF Spec, OutstandingNeverDropped

----------------------------------------------------------------------------
(***************************************************************************)
(* What the Portal was told was applied is durable.  A request is firm     *)
(* when neither copy of the configuration can show it unapplied and both   *)
(* hold its reply.  Requests become firm when the applied pool is saved,   *)
(* before the acknowledgement starts, and stay firm: the list of entries   *)
(* keeps its members, and an identity is never drawn twice.                *)
(***************************************************************************)
AppliedIn(c) == c.pool # NoPool /\ c.pool.pending.state \in {"applied", "acked"}

Settled(c, r, rep) ==
    (c.pool # NoPool /\ c.pool.pending.id = r) =>
        /\ c.pool.pending.state \in {"applied", "acked"}
        /\ rep[r].generation # 0
        /\ rep[r].entries \cap AboveHighest(c.pool.entries) = {}

Firm(r) ==
    /\ r \in Requests /\ r <= usedRequests
    /\ replies[r].generation # 0
    /\ Settled(mem, r, replies) /\ Settled(disk, r, replies)

\* the same after a step, of a request that the step may have determined
FirmAfter(r) ==
    /\ r \in Requests /\ r <= usedRequests'
    /\ replies'[r].generation # 0
    /\ Settled(mem', r, replies') /\ Settled(disk', r, replies')

DrawnBefore(c, n) == c.pool # NoPool => c.pool.pending.id <= n

DrawnInv ==
    /\ DrawnBefore(mem, usedRequests) /\ DrawnBefore(disk, usedRequests)
    /\ maint.id <= usedRequests

AppliedInv ==
    /\ AppliedIn(mem) => Firm(mem.pool.pending.id)
    /\ AppliedIn(disk) => Settled(disk, disk.pool.pending.id, replies)

ReplyInv ==
    maint.pc = "apply" =>
        replies[maint.id].generation # 0 /\ maint.response = replies[maint.id].entries

AckInv ==
    /\ maint.pc = "ack" => Firm(maint.id)
    /\ \A r \in ackedRequests : Firm(r)

DurableInv == SoundInv /\ DrawnInv /\ AppliedInv /\ ReplyInv /\ AckInv

\* A reply that the Portal gave stays; identities are only drawn; a request is
\* acknowledged while the maintainer waits for that.
LEMMA PortalMoves ==
    ASSUME TypeOK, [Next]_vars
    PROVE  /\ \A r \in Requests : replies[r].generation # 0 => replies'[r] = replies[r]
           /\ usedRequests <= usedRequests'
           /\ \A r \in ackedRequests' : r \in ackedRequests \/ (maint.pc = "ack" /\ r = maint.id)
<1>1. usedRequests \in Nat BY DEF TypeOK
<1>2. CASE UNCHANGED portalVars BY <1>1, <1>2 DEF portalVars
<1>3. CASE PrepareTopUp BY <1>1, <1>3 DEF PrepareTopUp
<1>4. CASE PortalTopUp
  <2>1. PICK e : replies' = [replies EXCEPT ![maint.id] = e] BY <1>4 DEF PortalTopUp
  <2>2. replies[maint.id].generation = 0 BY <1>4 DEF PortalTopUp
  <2>3. \A r \in Requests : r # maint.id => replies'[r] = replies[r] BY <2>1 DEF TypeOK
  <2> QED BY <1>1, <1>4, <2>2, <2>3 DEF PortalTopUp
<1>5. CASE PortalAck BY <1>1, <1>5 DEF PortalAck
<1>6. Maintainer => PrepareTopUp \/ UNCHANGED portalVars
  BY DEF Maintainer, TopUpAnswered, TopUpError, ApplyTopUp, SnapshotPending,
     MarkTerminal, RecordExpired, AckAnswered, AckError, MarkAcknowledged, ClearTopUp
<1>7. Connector => UNCHANGED portalVars
  BY DEF Connector, Acquire, CommitSpendLedger, AbandonLease, CommitPoolSpend,
     RecoverApproved, RecoverRefused, RecoverTerminal, RecoverFails
<1>8. Environment => UNCHANGED portalVars
  BY DEF Environment, Tick, Crash, FencePool, PersistReceipt, RestartChannel,
     SessionRejected, CommitDataSpend
<1>9. UNCHANGED vars => UNCHANGED portalVars BY DEF vars, portalVars
<1> QED BY <1>2, <1>3, <1>4, <1>5, <1>6, <1>7, <1>8, <1>9 DEF Next, Portal

\* The request of the maintainer is the one it had, none, or the one pending in
\* the pool it leaves in memory; it starts to acknowledge only an applied one.
LEMMA MaintainerIds ==
    ASSUME TypeOK, [Next]_vars
    PROVE  /\ \/ maint'.id = maint.id
              \/ maint'.id = 0
              \/ mem'.pool # NoPool /\ maint'.id = mem'.pool.pending.id
           /\ maint'.pc = "ack" =>
                 \/ UNCHANGED maint
                 \/ AppliedIn(mem') /\ maint'.id = mem'.pool.pending.id
<1>0. ASSUME NEW pc, MaintAt(pc) PROVE maint'.id = maint.id /\ maint'.pc = pc
  <2>1. maint \in MaintRecords BY DEF TypeOK
  <2>2. maint' = [maint EXCEPT !.pc = pc] BY <1>0 DEF MaintAt
  <2>3. CASE maint = IdleMaint BY <2>2, <2>3 DEF IdleMaint
  <2>4. CASE maint # IdleMaint BY <2>1, <2>2, <2>4 DEF MaintRecords
  <2> QED BY <2>3, <2>4
<1>1. MaintIdle => maint'.id = 0 /\ maint'.pc = "idle" BY DEF MaintIdle, IdleMaint
<1>2. CASE UNCHANGED maint BY <1>2
<1>3. CASE PrepareTopUp
  <2> DEFINE q == PreparedPool(mem.pool)
             asked == [q EXCEPT !.recovery = "degraded",
                                !.pending = [id |-> usedRequests + 1, state |-> "pending"]]
  <2>0. mem.pool # NoPool /\ q \in ControlArtifactPools
    BY <1>3, CurrentPoolType, PoolsClosed DEF PrepareTopUp
  <2>1. CASE UNCHANGED maint BY <1>2, <2>1
  <2>2. CASE /\ SaveIfChanged(q)
             /\ CASE q.pending.state = "pending" -> StartMaint(q, "topup")
                  [] q.pending.state = "applied" -> StartMaint(q, "ack")
                  [] OTHER -> UNCHANGED maint
    <3> HIDE DEF q
    <3>1. mem' = WithPool(q) \/ (q = mem.pool /\ mem' = mem)
      BY <2>2 DEF SaveIfChanged, Save
    <3>2. mem'.pool = q /\ q # NoPool BY <2>0, <3>1, WithPoolPool, NilIsNoPool
    <3>3. CASE q.pending.state = "pending" BY <2>2, <3>2, <3>3 DEF StartMaint
    <3>4. CASE q.pending.state = "applied" BY <2>2, <3>2, <3>4 DEF StartMaint, AppliedIn
    <3>5. CASE q.pending.state \notin {"pending", "applied"} BY <1>2, <2>2, <3>5
    <3> QED BY <3>3, <3>4, <3>5
  <2>3. CASE usedRequests + 1 \in Requests /\ Save(WithPool(asked)) /\ StartMaint(asked, "topup")
    <3>1. [id |-> usedRequests + 1, state |-> "pending"] \in PendingTopUps
      BY <2>3 DEF PendingTopUps, TopUpStates
    <3> HIDE DEF q
    <3>2. asked \in ControlArtifactPools BY <2>0, <3>1 DEF ControlArtifactPools, RecoveryStates
    <3> HIDE DEF asked
    <3>3. mem'.pool = asked /\ asked # NoPool BY <2>3, <3>2, WithPoolPool, NilIsNoPool DEF Save
    <3> QED BY <2>3, <3>3 DEF StartMaint
  <2>4. \/ UNCHANGED maint
        \/ /\ SaveIfChanged(q)
           /\ CASE q.pending.state = "pending" -> StartMaint(q, "topup")
                [] q.pending.state = "applied" -> StartMaint(q, "ack")
                [] OTHER -> UNCHANGED maint
        \/ /\ usedRequests < MaxRequests
           /\ Save(WithPool(asked)) /\ StartMaint(asked, "topup")
    BY <1>3, ZenonT(60) DEF PrepareTopUp
  <2>5. usedRequests < MaxRequests => usedRequests + 1 \in Requests
    BY PoolContract DEF TypeOK, Requests
  <2> HIDE DEF q, asked
  <2> QED BY <2>1, <2>2, <2>3, <2>4, <2>5
<1>4. CASE TopUpAnswered
  <2>1. PICK q \in Requests :
           maint' = [maint EXCEPT !.pc = IF ValidResponse(q) THEN "apply" ELSE "fail",
                                  !.response = IF ValidResponse(q) THEN replies[q].entries ELSE {}]
    BY <1>4 DEF TopUpAnswered
  <2>2. maint \in MaintRecords /\ maint # IdleMaint BY <1>4 DEF TopUpAnswered, IdleMaint, TypeOK
  <2>3. maint'.id = maint.id /\ maint'.pc \in {"apply", "fail"} BY <2>1, <2>2 DEF MaintRecords
  <2> QED BY <2>2, <2>3
<1>5. CASE SnapshotPending
  <2>1. CASE mem.pool # NoPool /\ mem.pool.pending.state = "applied"
    BY <1>5, <2>1 DEF SnapshotPending, StartMaint, AppliedIn
  <2> QED BY <1>1, <1>5, <2>1 DEF SnapshotPending
<1>6. CASE TopUpError \/ ApplyTopUp \/ MarkTerminal \/ RecordExpired \/ AckAnswered \/ AckError
           \/ MarkAcknowledged \/ ClearTopUp
  BY <1>0, <1>1, <1>6 DEF TopUpError, ApplyTopUp, MarkTerminal, RecordExpired,
     AckAnswered, AckError, MarkAcknowledged, ClearTopUp
<1>7. Portal => UNCHANGED maint BY DEF Portal, PortalTopUp, PortalAck
<1>8. Connector => UNCHANGED maint
  BY DEF Connector, Acquire, CommitSpendLedger, AbandonLease, CommitPoolSpend,
     RecoverApproved, RecoverRefused, RecoverTerminal, RecoverFails
<1>9. Environment => UNCHANGED maint \/ maint' = IdleMaint
  BY DEF Environment, Tick, Crash, FencePool, PersistReceipt, RestartChannel,
     SessionRejected, CommitDataSpend
<1>10. maint' = IdleMaint => maint'.id = 0 /\ maint'.pc = "idle" BY DEF IdleMaint
<1>11. UNCHANGED vars => UNCHANGED maint BY DEF vars
<1> QED BY <1>2, <1>3, <1>4, <1>5, <1>6, <1>7, <1>8, <1>9, <1>10, <1>11 DEF Next, Maintainer

\* The applied pool has an entry for everything in the response.
LEMMA AppliedLands ==
    ASSUME NEW p \in ControlArtifactPools, maint \in MaintRecords, maint # IdleMaint
    PROVE  maint.response \cap AboveHighest(AppliedPool(p).entries) = {}
<1> SUFFICES ASSUME NEW s \in maint.response, s \in AboveHighest(AppliedPool(p).entries)
             PROVE  FALSE
  OBVIOUS
<1>1. s \in Sequences BY DEF AboveHighest
<1>2. AppliedPool(p).entries[s] = "live" BY <1>1, AppliedShape
<1>3. s \in Present(AppliedPool(p).entries) BY <1>1, <1>2 DEF Present
<1>4. s < s BY <1>3 DEF AboveHighest
<1> QED BY <1>1, <1>4 DEF Sequences

\* A list that evolves keeps its highest entry, hence what has landed in it.
LEMMA LandedKept ==
    ASSUME NEW p, NEW q, PoolEvolves(p, q)
    PROVE  AboveHighest(q.entries) = AboveHighest(p.entries)
<1>1. Present(q.entries) = Present(p.entries) BY DEF PoolEvolves, EntriesEvolve
<1> QED BY <1>1 DEF AboveHighest

\* What a step writes shows no firm request unapplied.
LEMMA WrittenSettles ==
    ASSUME DurableInv, [Next]_vars, NEW c, Writes(c) \/ Keeps(c), NEW r, Firm(r)
    PROVE  Settled(c, r, replies')
<1> SUFFICES ASSUME c.pool # NoPool, c.pool.pending.id = r
             PROVE  /\ c.pool.pending.state \in {"applied", "acked"}
                    /\ replies'[r].generation # 0
                    /\ replies'[r].entries \cap AboveHighest(c.pool.entries) = {}
  BY DEF Settled
<1>1. TypeOK BY DEF DurableInv, SoundInv
<1>2. r \in Requests /\ r <= usedRequests /\ usedRequests \in Nat /\ r \in Nat /\ r # 0
  BY <1>1 DEF Firm, TypeOK, Requests
<1>3. replies'[r] = replies[r] /\ replies[r].generation # 0 BY <1>1, <1>2, PortalMoves DEF Firm
<1>4. Settled(mem, r, replies) BY DEF Firm
<1>5. CASE Rewrites(c) \/ Keeps(c)
  <2>1. mem.pool # NoPool /\ PoolEvolves(mem.pool, c.pool) BY <1>5 DEF Rewrites, Keeps
  <2>2. PendingMoves(mem.pool.pending, c.pool.pending)
    BY <1>5 DEF Rewrites, Keeps, PendingMoves
  <2>3. AboveHighest(c.pool.entries) = AboveHighest(mem.pool.entries) BY <2>1, LandedKept
  <2>4. c.pool.pending # NoTopUp BY <1>2 DEF NoTopUp
  <2>5. c.pool.pending # [id |-> usedRequests + 1, state |-> "pending"] BY <1>2
  <2>6. mem.pool.pending.id = r BY <2>2, <2>4, <2>5 DEF PendingMoves
  <2>7. /\ mem.pool.pending.state \in {"applied", "acked"}
        /\ replies[r].entries \cap AboveHighest(mem.pool.entries) = {}
    BY <1>4, <2>1, <2>6 DEF Settled
  <2>8. c.pool.pending.state \in {"applied", "acked"}
    BY <2>2, <2>4, <2>5, <2>7 DEF PendingMoves
  <2> QED BY <1>3, <2>3, <2>7, <2>8
<1>6. CASE Applies(c)
  <2>1. mem.pool # NoPool /\ mem.pool.pending = [id |-> maint.id, state |-> "pending"]
    BY <1>6 DEF Applies, SamePending
  <2>2. maint \in MaintRecords /\ maint # IdleMaint
    BY <1>1, <1>6 DEF Applies, IdleMaint, TypeOK
  <2>3. mem.pool \in ControlArtifactPools /\ c.pool = AppliedPool(mem.pool)
    BY <1>1, <1>6, <2>1, CurrentPoolType, WithPoolPool DEF Applies
  <2>4. c.pool.pending = [id |-> maint.id, state |-> "applied"] BY <2>2, <2>3, AppliedShape
  <2>5. mem.pool.pending.id = r /\ mem.pool.pending.state = "pending" BY <2>1, <2>4
  <2> QED BY <1>4, <2>1, <2>5 DEF Settled
<1>7. CASE Delivers(c)
  <2>1. c.pool.pending = NoTopUp BY <1>7 DEF Delivers, DeliveredPool
  <2> QED BY <1>2, <2>1 DEF NoTopUp
<1> QED BY <1>5, <1>6, <1>7 DEF Writes, Works

\* What a step writes holds the reply of the request it shows applied, whose
\* identity was drawn.
LEMMA WrittenHolds ==
    ASSUME DurableInv, [Next]_vars, NEW c, Writes(c) \/ Keeps(c)
    PROVE  /\ DrawnBefore(c, usedRequests')
           /\ AppliedIn(c) => /\ Settled(c, c.pool.pending.id, replies')
                              /\ replies'[c.pool.pending.id].generation # 0
                              /\ c.pool.pending.id \in Requests
<1> SUFFICES ASSUME c.pool # NoPool
             PROVE  /\ c.pool.pending.id <= usedRequests'
                    /\ AppliedIn(c) => /\ Settled(c, c.pool.pending.id, replies')
                                       /\ replies'[c.pool.pending.id].generation # 0
                                       /\ c.pool.pending.id \in Requests
  BY DEF DrawnBefore, AppliedIn
<1>1. TypeOK /\ DrawnInv /\ AppliedInv BY DEF DurableInv, SoundInv
<1>2. /\ usedRequests \in Nat /\ usedRequests <= usedRequests'
      /\ \A r \in Requests : replies[r].generation # 0 => replies'[r] = replies[r]
  BY <1>1, PortalMoves DEF TypeOK
<1>a. TypeOK' BY <1>1, NextType
<1>b. usedRequests' \in Nat BY <1>a DEF TypeOK
<1>3. CASE Rewrites(c) \/ Keeps(c)
  <2>1. /\ mem.pool # NoPool /\ PoolEvolves(mem.pool, c.pool) /\ mem.pool \in ControlArtifactPools
    BY <1>1, <1>3, CurrentPoolType DEF Rewrites, Keeps
  <2>2. PendingMoves(mem.pool.pending, c.pool.pending)
    BY <1>3 DEF Rewrites, Keeps, PendingMoves
  <2>3. mem.pool.pending.id <= usedRequests /\ mem.pool.pending.id \in Nat
    BY <1>1, <2>1 DEF DrawnInv, DrawnBefore, ControlArtifactPools, PendingTopUps, NoTopUp, Requests
  <2>4. c.pool.pending.id <= usedRequests'
    BY <1>2, <1>b, <2>2, <2>3 DEF PendingMoves, NoTopUp
  <2>5. ASSUME AppliedIn(c) PROVE Firm(mem.pool.pending.id) /\ c.pool.pending.id = mem.pool.pending.id
    <3>1. /\ mem.pool.pending.state \in {"applied", "acked"}
          /\ c.pool.pending.id = mem.pool.pending.id
      BY <2>2, <2>5 DEF AppliedIn, PendingMoves, NoTopUp
    <3> QED BY <1>1, <2>1, <3>1 DEF AppliedIn, AppliedInv
  <2>6. ASSUME AppliedIn(c)
        PROVE  /\ Settled(c, c.pool.pending.id, replies')
               /\ replies'[c.pool.pending.id].generation # 0
               /\ c.pool.pending.id \in Requests
    BY <1>2, <1>3, <2>5, <2>6, WrittenSettles DEF Firm
  <2> QED BY <2>4, <2>6
<1>4. CASE Applies(c)
  <2>1. maint.pc = "apply" /\ mem.pool # NoPool BY <1>4 DEF Applies, SamePending
  <2>2. maint \in MaintRecords /\ maint # IdleMaint BY <1>1, <2>1 DEF IdleMaint, TypeOK
  <2>3. mem.pool \in ControlArtifactPools /\ c.pool = AppliedPool(mem.pool)
    BY <1>1, <1>4, <2>1, CurrentPoolType, WithPoolPool DEF Applies
  <2>4. c.pool.pending = [id |-> maint.id, state |-> "applied"] BY <2>2, <2>3, AppliedShape
  <2>5. maint.id \in Requests /\ maint.id <= usedRequests /\ maint.id \in Nat
    BY <1>1, <2>2 DEF MaintRecords, Requests, DrawnInv
  <2>6. replies[maint.id].generation # 0 /\ maint.response = replies[maint.id].entries
    BY <2>1 DEF DurableInv, ReplyInv
  <2>7. replies'[maint.id] = replies[maint.id] BY <1>2, <2>5, <2>6
  <2>8. maint.response \cap AboveHighest(c.pool.entries) = {} BY <2>2, <2>3, AppliedLands
  <2> QED BY <1>2, <1>b, <2>4, <2>5, <2>6, <2>7, <2>8 DEF Settled
<1>5. CASE Delivers(c)
  <2>1. c.pool.pending = NoTopUp BY <1>5 DEF Delivers, DeliveredPool
  <2> QED BY <1>b, <2>1 DEF NoTopUp, AppliedIn
<1> QED BY <1>3, <1>4, <1>5 DEF Writes, Works

\* Every copy after a step is a copy from before it or was written by it; the
\* disk then holds what memory holds, or keeps what it held or takes what is
\* written, so that what is applied in memory is on disk.
LEMMA CopiesMove ==
    ASSUME SoundInv, [Next]_vars
    PROVE  /\ mem' \in {mem, disk} \/ Writes(mem') \/ Keeps(mem')
           /\ disk' \in {mem, disk} \/ Writes(disk') \/ Keeps(disk')
           /\ \/ mem' = mem
              \/ mem' = disk /\ disk' = disk
              \/ mem' = disk'
              \/ Keeps(mem')
              \/ mem'.pool = NoPool
<1>1. UNCHANGED vars => StepShape BY DEF vars, StepShape
<1>2. StepShape BY <1>1, NextShape DEF SoundInv
<1> QED BY <1>2 DEF StepShape, Writes

\* A firm request stays firm.
LEMMA FirmStays ==
    ASSUME DurableInv, [Next]_vars, NEW r, Firm(r)
    PROVE  FirmAfter(r)
<1>1. SoundInv /\ TypeOK BY DEF DurableInv, SoundInv
<1>2. r \in Requests /\ r \in Nat /\ r <= usedRequests /\ replies[r].generation # 0
  BY DEF Firm, Requests
<1>3. replies'[r] = replies[r] /\ usedRequests <= usedRequests' BY <1>1, <1>2, PortalMoves
<1>a. TypeOK' BY <1>1, NextType
<1>4. r <= usedRequests' BY <1>1, <1>2, <1>3, <1>a DEF TypeOK
<1>5. ASSUME NEW c \in {mem, disk} PROVE Settled(c, r, replies')
  BY <1>3, <1>5 DEF Firm, Settled
<1>6. Settled(mem', r, replies') BY <1>1, <1>5, CopiesMove, WrittenSettles
<1>7. Settled(disk', r, replies') BY <1>1, <1>5, CopiesMove, WrittenSettles
<1> QED BY <1>2, <1>3, <1>4, <1>6, <1>7 DEF FirmAfter

\* Each copy after a step holds the reply of the request it shows applied.
LEMMA CopiesHold ==
    ASSUME DurableInv, [Next]_vars, NEW c, c \in {mem, disk} \/ Writes(c) \/ Keeps(c)
    PROVE  /\ DrawnBefore(c, usedRequests')
           /\ AppliedIn(c) => /\ Settled(c, c.pool.pending.id, replies')
                              /\ replies'[c.pool.pending.id].generation # 0
                              /\ c.pool.pending.id \in Requests
<1>1. CASE Writes(c) \/ Keeps(c) BY <1>1, WrittenHolds
<1>2. CASE c \in {mem, disk}
  <2>1. TypeOK /\ DrawnInv /\ AppliedInv BY DEF DurableInv, SoundInv
  <2>2. TypeOK' BY <2>1, NextType
  <2>3. /\ usedRequests \in Nat /\ usedRequests' \in Nat /\ usedRequests <= usedRequests'
        /\ \A r \in Requests : replies[r].generation # 0 => replies'[r] = replies[r]
    BY <2>1, <2>2, PortalMoves DEF TypeOK
  <2>4. ASSUME c.pool # NoPool PROVE c.pool.pending \in PendingTopUps
    BY <1>2, <2>1, <2>4 DEF TypeOK, Configs, ControlArtifactPools
  <2>5. DrawnBefore(c, usedRequests) BY <1>2, <2>1 DEF DrawnInv
  <2>6. DrawnBefore(c, usedRequests')
    BY <2>3, <2>4, <2>5 DEF DrawnBefore, PendingTopUps, NoTopUp, Requests
  <2>7. ASSUME AppliedIn(c)
        PROVE  /\ Settled(c, c.pool.pending.id, replies')
               /\ replies'[c.pool.pending.id].generation # 0
               /\ c.pool.pending.id \in Requests
    <3>1. c.pool.pending.id \in Requests
      BY <2>4, <2>7 DEF AppliedIn, PendingTopUps, NoTopUp
    <3>2. Settled(c, c.pool.pending.id, replies) BY <1>2, <2>1, <2>7 DEF AppliedInv, Firm
    <3>3. replies[c.pool.pending.id].generation # 0 BY <2>7, <3>2 DEF Settled, AppliedIn
    <3>4. replies'[c.pool.pending.id] = replies[c.pool.pending.id] BY <2>3, <3>1, <3>3
    <3> QED BY <3>1, <3>2, <3>3, <3>4 DEF Settled
  <2> QED BY <2>6, <2>7
<1> QED BY <1>1, <1>2

\* The request applied in memory after a step is firm.
LEMMA AppliedIsFirm ==
    ASSUME DurableInv, [Next]_vars, AppliedIn(mem')
    PROVE  FirmAfter(mem'.pool.pending.id)
<1> DEFINE r == mem'.pool.pending.id
<1>1. SoundInv /\ AppliedInv BY DEF DurableInv
<1>2. /\ DrawnBefore(mem', usedRequests') /\ Settled(mem', r, replies')
      /\ replies'[r].generation # 0 /\ r \in Requests
  BY <1>1, CopiesMove, CopiesHold
<1>3. r <= usedRequests' BY <1>2 DEF DrawnBefore, AppliedIn
<1>4. CASE mem' = mem \/ Keeps(mem')
  <2>1. AppliedIn(mem) /\ mem.pool.pending.id = r BY <1>4 DEF AppliedIn, Keeps
  <2>2. Firm(r) BY <1>1, <2>1 DEF AppliedInv
  <2> QED BY <2>2, FirmStays
<1>5. CASE disk' = mem' BY <1>2, <1>3, <1>5 DEF FirmAfter
<1>6. mem'.pool # NoPool BY DEF AppliedIn
<1> QED BY <1>1, <1>4, <1>5, <1>6, CopiesMove

\* At the start no request was drawn.
LEMMA InitDurable == Init => DurableInv
<1> SUFFICES ASSUME Init PROVE DurableInv OBVIOUS
<1>1. SoundInv BY InitSound
<1>2. mem = disk /\ maint = IdleMaint /\ usedRequests = 0 /\ ackedRequests = {} BY DEF Init
<1>3. mem.pool.pending = NoTopUp BY DEF Init, DeliveredPool
<1> QED BY <1>1, <1>2, <1>3 DEF DurableInv, DrawnInv, DrawnBefore, AppliedInv, AppliedIn,
           ReplyInv, AckInv, IdleMaint, NoTopUp

\* Every step preserves the invariant.
LEMMA NextDurable == DurableInv /\ [Next]_vars => DurableInv'
<1> SUFFICES ASSUME DurableInv, [Next]_vars PROVE DurableInv' OBVIOUS
<1>1. SoundInv /\ TypeOK BY DEF DurableInv, SoundInv
<1>2. SoundInv' /\ TypeOK' BY <1>1, NextSound DEF SoundInv
<1>3. /\ DrawnBefore(mem', usedRequests') /\ DrawnBefore(disk', usedRequests')
      /\ AppliedIn(disk') => Settled(disk', disk'.pool.pending.id, replies')
  BY <1>1, CopiesMove, CopiesHold
<1>4. usedRequests \in Nat /\ usedRequests' \in Nat /\ usedRequests <= usedRequests'
  BY <1>1, <1>2, PortalMoves DEF TypeOK
<1>5. DrawnInv'
  <2>1. maint.id <= usedRequests /\ maint.id \in Nat
    BY <1>1 DEF DurableInv, DrawnInv, TypeOK, MaintRecords, IdleMaint, Requests
  <2>2. maint'.id <= usedRequests'
    <3>1. CASE maint'.id = maint.id BY <1>4, <2>1, <3>1
    <3>2. CASE maint'.id = 0 BY <1>4, <3>2
    <3>3. CASE mem'.pool # NoPool /\ maint'.id = mem'.pool.pending.id
      BY <1>3, <3>3 DEF DrawnBefore
    <3> QED BY <1>1, <3>1, <3>2, <3>3, MaintainerIds
  <2> QED BY <1>3, <2>2 DEF DrawnInv, DrawnBefore
<1>6. AppliedInv'
  <2>1. ASSUME AppliedIn(mem') PROVE FirmAfter(mem'.pool.pending.id) BY <2>1, AppliedIsFirm
  <2> QED BY <1>3, <2>1 DEF AppliedInv, AppliedIn, Settled, Firm, FirmAfter
<1>7. ReplyInv'
  <2> SUFFICES ASSUME maint'.pc = "apply"
               PROVE  replies'[maint'.id].generation # 0 /\ maint'.response = replies'[maint'.id].entries
    BY DEF ReplyInv
  <2>1. CASE UNCHANGED maint
    <3>1. replies[maint.id].generation # 0 /\ maint.response = replies[maint.id].entries
      BY <2>1 DEF DurableInv, ReplyInv
    <3>2. maint \in MaintRecords /\ maint # IdleMaint BY <1>1, <2>1 DEF IdleMaint, TypeOK
    <3>3. replies'[maint.id] = replies[maint.id]
      BY <1>1, <3>1, <3>2, PortalMoves DEF MaintRecords
    <3> QED BY <2>1, <3>1, <3>3
  <2>2. CASE TopUpAnswered
    <3>1. PICK q \in Requests :
             /\ replies[q].generation # 0
             /\ maint' = [maint EXCEPT
                             !.pc = IF ValidResponse(q) THEN "apply" ELSE "fail",
                             !.response = IF ValidResponse(q) THEN replies[q].entries ELSE {}]
      BY <2>2 DEF TopUpAnswered
    <3>2. maint \in MaintRecords /\ maint # IdleMaint
      BY <1>1, <2>2 DEF TopUpAnswered, IdleMaint, TypeOK
    <3>3. ValidResponse(q) BY <3>1, <3>2 DEF MaintRecords
    <3>4. q = maint.id BY <3>3 DEF ValidResponse
    <3>5. maint'.id = q /\ maint'.response = replies[q].entries
      BY <3>1, <3>2, <3>3, <3>4 DEF MaintRecords
    <3>6. UNCHANGED replies BY <2>2 DEF TopUpAnswered, portalVars
    <3> QED BY <3>1, <3>5, <3>6
  <2>3. CASE PrepareTopUp
    <3>1. UNCHANGED maint \/ maint'.pc \in {"topup", "ack"} BY <2>3 DEF PrepareTopUp, StartMaint
    <3> QED BY <2>1, <3>1
  <2> QED BY <1>1, <2>1, <2>2, <2>3, MaintainerMoves
<1>8. AckInv'
  <2>1. ASSUME maint'.pc = "ack" PROVE FirmAfter(maint'.id)
    <3>1. CASE UNCHANGED maint BY <2>1, <3>1, FirmStays DEF DurableInv, AckInv
    <3>2. CASE AppliedIn(mem') /\ maint'.id = mem'.pool.pending.id BY <3>2, AppliedIsFirm
    <3> QED BY <1>1, <2>1, <3>1, <3>2, MaintainerIds
  <2>2. ASSUME NEW r \in ackedRequests' PROVE FirmAfter(r)
    <3>1. Firm(r) BY <1>1, PortalMoves DEF DurableInv, AckInv
    <3> QED BY <3>1, FirmStays
  <2> QED BY <2>1, <2>2 DEF AckInv, Firm, FirmAfter
<1> QED BY <1>2, <1>5, <1>6, <1>7, <1>8 DEF DurableInv

\* Once the Portal has processed an acknowledgement, neither copy of the
\* configuration shows the request unapplied, and both hold its entries.
THEOREM AckedStaysDurable == Spec => []AckedMeansDurable
<1>1. DurableInv => AckedMeansDurable
  BY DEF DurableInv, AckInv, Firm, Settled, AckedMeansDurable, HoldsAcked
<1> QED BY <1>1, InitDurable, NextDurable, PTL DEF Spec
=============================================================================
