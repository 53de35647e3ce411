------------------------ MODULE MCControlArtifactPool ------------------------
(***************************************************************************)
(* Small instances of ControlArtifactPool for TLC.  The number of          *)
(* disturbances in one behaviour is bounded: crashes, closures,            *)
(* rejections, recoveries, and writes after which disk and memory differ.  *)
(***************************************************************************)
EXTENDS ControlArtifactPool, TLC

CONSTANT MaxDisturbances

VARIABLE disturbances

mcvars == <<vars, disturbances>>

\* Leases are interchangeable.
LeaseSymmetry == Permutations(Leases)

Quiet == Tick \/ PersistReceipt \/ RestartChannel \/ RecoverFails \/ \E d \in DataArtifacts : CommitDataSpend(d)
Disturbing ==
    \/ Crash \/ FencePool \/ SessionRejected
    \/ RecoverApproved \/ RecoverRefused \/ RecoverTerminal
Ordinary ==
    Maintainer \/ Portal \/ Quiet
    \/ \E l \in Leases : Acquire(l) \/ CommitSpendLedger(l) \/ AbandonLease(l) \/ CommitPoolSpend(l)

DiskDiverges == <<mem', disk'>> # <<mem, disk>> /\ mem' # disk'

MCInit == Init /\ disturbances = 0

MCNext ==
    \/ /\ Disturbing
       /\ disturbances < MaxDisturbances
       /\ disturbances' = disturbances + 1
    \/ /\ Ordinary
       /\ disturbances' = disturbances + (IF DiskDiverges THEN 1 ELSE 0)
       /\ disturbances' <= MaxDisturbances

MCSpec == MCInit /\ [][MCNext]_mcvars

MCLiveSpec == MCSpec /\ TopUpFairness
=============================================================================
