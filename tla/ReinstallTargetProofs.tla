------------------------- MODULE ReinstallTargetProofs -------------------------
(***************************************************************************)
(* What reinstalling promises, for any number of operations and faults, as *)
(* long as no preview overlaps the start of an attempt                     *)
(* (ConcurrentPreview = FALSE).                                            *)
(***************************************************************************)
EXTENDS ReinstallTarget, TLAPS

\* Where an attempt stands: before it installs, installing, undoing that, or
\* completing.
Preparing == {"mark", "open", "resolve", "stage", "session", "stop", "skip_stop",
              "isolate"}
Installed == {"start", "verify", "catalog"}
Undoing == {"stop_fresh", "roll_back", "restart", "finish_rollback"}
Completing == {"resume", "resume_finalize", "finalize", "clean", "clear", "converge"}

Verified(phase) == AtLeast(phase, "catalog_and_local_ui_verified")
CameToInstall(phase) == AtLeast(phase, "old_root_isolated_or_cleared")

\* What an operation in a phase knows of the target: managed files, quarantines
\* and rollback directories.
Knows(o, phase, mode, before, files, aside, kept) ==
    /\ Verified(phase) => files = "settled"
    /\ phase = "old_data_cleaned" => \A p \in Ops : aside[p] = "none"
    /\ mode = "preserve_data" =>
         /\ aside[o] = "none"
         /\ ~CameToInstall(phase) => kept[o] = "none" /\ files = before

\* Without concurrent previews there is one journal, that of the attempt if one
\* runs, and no preview then.
OneJournal == \A p, q \in Journals : p = q
AttemptAlone ==
    attempt.op # None => /\ \A p \in Journals : p = Op
                         /\ \A p \in Ops : status[p] # "previewing"

\* While another lifecycle operation has the target no reinstall has begun.
OtherAlone == other => attempt.op = None /\ Started = {}
PreviewsClean ==
    \A o \in Ops : status[o] = "previewing" =>
        quarantine[o] = "none" /\ rollback[o] = "none" /\ Started = {}

\* What a journal says holds; a confirmation does not know the files yet.
JournalsTrue ==
    \A o \in Journals :
        Knows(o, journal[o].phase, journal[o].mode,
              IF journal[o].phase = "confirmation" THEN live ELSE journal[o].before,
              live, quarantine, rollback)

\* The attempt and its journal agree, unless the journal was retired.
Agrees ==
    Op \in Journals => /\ journal[Op].phase = attempt.phase
                       /\ journal[Op].mode = attempt.mode
                       /\ attempt.phase # "confirmation" => journal[Op].before = attempt.before

AttemptTrue ==
    attempt.op # None =>
        Knows(Op, attempt.phase, attempt.mode, attempt.before, live, quarantine, rollback)

\* What the position of the attempt says of its phase.
PositionOf(pc, phase, mode) ==
    /\ pc \in {"mark", "open"} => phase = "confirmation"
    /\ pc \in {"install"} \cup Installed \cup Undoing => CameToInstall(phase)
    /\ pc \in Undoing => mode = "preserve_data"
    /\ Verified(phase) <=> pc \in Completing
    /\ pc \in {"clear", "converge"} => phase = "old_data_cleaned"
Positions == PositionOf(attempt.pc, attempt.phase, attempt.mode)

\* Between the first and the last write its journal is there, unless retired.
Recorded == attempt.pc \notin {"none", "mark", "open", "converge"} => Op \in Started \cup forgotten

\* The files found before can be put back, if no earlier attempt came to install.
RestorableOf(pc, phase, before, files, kept) ==
    /\ pc \in Preparing => ~CameToInstall(phase)
    /\ pc = "install" => kept = "none" /\ files = before
    /\ pc \in Installed \cup {"stop_fresh", "roll_back"} =>
         /\ kept # "committed"
         /\ before = CASE kept \in {"none", "empty"} -> files [] kept = "absent" -> "none"
                       [] OTHER -> kept
    /\ pc \in {"restart", "finish_rollback"} => files = before
Restorable ==
    attempt.op # None /\ attempt.mode = "preserve_data" /\ attempt.untouched =>
        RestorableOf(attempt.pc, attempt.phase, attempt.before, live, rollback[Op])

Inv ==
    /\ TypeOK
    /\ OneJournal /\ AttemptAlone /\ OtherAlone /\ PreviewsClean /\ JournalsTrue
    /\ Agrees /\ AttemptTrue /\ Positions /\ Recorded /\ Restorable
    /\ IsolatedDataHasJournal

Pcs == {"none"} \cup Working \cup Resuming \cup Recovering
Attempts == [op : Ops \cup {None}, pc : Pcs, phase : Phases, mode : Modes, before : Files,
             untouched : BOOLEAN, aborted : BOOLEAN]
JournalEntries == [phase : Phases, mode : Modes, before : Files]

----------------------------------------------------------------------------
(* Phases. *)

LEMMA Ranks ==
    /\ Phases = {"confirmation", "direct_channel_open", "target_resolved",
         "package_batch_prepared_and_verified", "redeven_process_stop_attempted",
         "old_root_isolated_or_cleared", "runtime_installed", "runtime_started",
         "runtime_verified", "catalog_and_local_ui_verified", "old_data_cleaned"}
    /\ Rank["confirmation"] = 0 /\ Rank["direct_channel_open"] = 1 /\ Rank["target_resolved"] = 2
    /\ Rank["package_batch_prepared_and_verified"] = 3
    /\ Rank["redeven_process_stop_attempted"] = 4
    /\ Rank["old_root_isolated_or_cleared"] = 5
    /\ Rank["runtime_installed"] = 6 /\ Rank["runtime_started"] = 7
    /\ Rank["runtime_verified"] = 8 /\ Rank["catalog_and_local_ui_verified"] = 9
    /\ Rank["old_data_cleaned"] = 10
BY DEF Phases, Rank

LEMMA PhaseClasses ==
    \A phase \in Phases :
        /\ Verified(phase) <=> (phase \in {"catalog_and_local_ui_verified", "old_data_cleaned"})
        /\ CameToInstall(phase) <=>
             (phase \notin {"confirmation", "direct_channel_open", "target_resolved",
                            "package_batch_prepared_and_verified", "redeven_process_stop_attempted"})
BY Ranks DEF Verified, CameToInstall, AtLeast

\* The later of two phases.
LEMMA LaterPhase ==
    ASSUME NEW p \in Phases, NEW q \in Phases, NEW next, next = IF AtLeast(p, q) THEN p ELSE q
    PROVE  /\ next \in Phases
           /\ Verified(next) <=> (Verified(p) \/ Verified(q))
           /\ CameToInstall(next) <=> (CameToInstall(p) \/ CameToInstall(q))
           /\ (next = "old_data_cleaned") = (p = "old_data_cleaned" \/ q = "old_data_cleaned")
           /\ (next = "confirmation") = (p = "confirmation" /\ q = "confirmation")
<1>1. Rank[p] \in 0..10 /\ Rank[q] \in 0..10 BY Ranks
<1> QED BY <1>1, Ranks DEF Verified, CameToInstall, AtLeast

----------------------------------------------------------------------------
(* What the building blocks of the actions do, field by field. *)

LEMMA NoJournalType == NoJournal \notin JournalEntries
BY Ranks DEF NoJournal, JournalEntries

LEMMA GoneTo ==
    ASSUME TypeOK, attempt.op # None, NEW pc \in Pcs \ {"none"}, Goto(pc)
    PROVE  /\ attempt' \in Attempts /\ attempt'.op = attempt.op /\ attempt'.pc = pc
           /\ attempt'.phase = attempt.phase /\ attempt'.mode = attempt.mode
           /\ attempt'.before = attempt.before /\ attempt'.untouched = attempt.untouched
           /\ attempt'.aborted = attempt.aborted
           /\ (attempt'.op = None) = (attempt'.pc = "none")
BY DEF TypeOK, Goto, Attempts, Pcs

LEMMA Written ==
    ASSUME TypeOK, attempt.op # None, NEW phase \in Phases, Write(phase)
    PROVE  /\ journal' \in [Ops -> JournalEntries \cup {NoJournal}]
           /\ latest' \in Ops
           /\ \A p \in Ops \ {Op} : journal'[p] = journal[p]
           /\ journal'[Op] # NoJournal
           /\ journal'[Op].phase = phase /\ journal'[Op].mode = attempt.mode
           /\ journal'[Op].before = attempt.before
<1> DEFINE new == [phase |-> phase, mode |-> attempt.mode, before |-> attempt.before]
<1>1. new \in JournalEntries BY DEF TypeOK, JournalEntries
<1>2. new # NoJournal BY <1>1, NoJournalType
<1>3. Op \in Ops BY DEF TypeOK, Op
<1>4. journal' = [journal EXCEPT ![Op] = new] BY DEF Write
<1>5. journal \in [Ops -> JournalEntries \cup {NoJournal}] BY DEF TypeOK, JournalEntries
<1>6. journal'[Op] = new /\ \A p \in Ops \ {Op} : journal'[p] = journal[p]
  BY <1>3, <1>4, <1>5
<1>7. new.phase = phase /\ new.mode = attempt.mode /\ new.before = attempt.before OBVIOUS
<1> HIDE DEF new
<1> QED BY <1>1, <1>2, <1>3, <1>4, <1>5, <1>6, <1>7 DEF Write

LEMMA Persisted ==
    ASSUME TypeOK, attempt.op # None, NEW phase \in Phases, NEW pc \in Pcs \ {"none"},
           Persist(phase, pc)
    PROVE  /\ attempt' \in Attempts /\ attempt'.op = attempt.op /\ attempt'.pc = pc
           /\ attempt'.phase = IF AtLeast(attempt.phase, phase) THEN attempt.phase ELSE phase
           /\ attempt'.mode = attempt.mode /\ attempt'.before = attempt.before
           /\ attempt'.untouched = attempt.untouched /\ attempt'.aborted = attempt.aborted
           /\ (attempt'.op = None) = (attempt'.pc = "none")
           /\ journal' \in [Ops -> JournalEntries \cup {NoJournal}]
           /\ latest' \in Ops \cup {None}
           /\ \A p \in Ops \ {Op} : journal'[p] = journal[p]
           /\ \/ AtLeast(attempt.phase, phase) /\ journal' = journal
              \/ /\ journal'[Op] # NoJournal
                 /\ journal'[Op].phase = phase /\ journal'[Op].mode = attempt.mode
                 /\ journal'[Op].before = attempt.before /\ ~AtLeast(attempt.phase, phase)
<1>1. CASE AtLeast(attempt.phase, phase)
  <2>1. Goto(pc) /\ UNCHANGED <<journal, latest>> BY <1>1 DEF Persist
  <2> QED BY <1>1, <2>1, GoneTo DEF TypeOK, JournalEntries
<1>2. CASE ~AtLeast(attempt.phase, phase)
  <2>1. Write(phase) /\ attempt' = [attempt EXCEPT !.phase = phase, !.pc = pc]
    BY <1>2 DEF Persist
  <2>2. /\ attempt' \in Attempts /\ attempt'.op = attempt.op /\ attempt'.pc = pc
        /\ attempt'.phase = phase /\ attempt'.mode = attempt.mode
        /\ attempt'.before = attempt.before /\ attempt'.untouched = attempt.untouched
        /\ attempt'.aborted = attempt.aborted
    BY <2>1 DEF TypeOK, Attempts, Pcs
  <2> QED BY <1>2, <2>1, <2>2, Written DEF TypeOK
<1> QED BY <1>1, <1>2

LEMMA Ended ==
    ASSUME TypeOK, NEW final \in {"failed", "succeeded", "erase_recommended"}, Ends(final)
    PROVE  /\ attempt' \in Attempts /\ attempt'.op = None /\ attempt'.pc = "none"
           /\ attempt'.phase = "confirmation" /\ attempt' = Idle
           /\ status' \in [Ops -> {"none", "previewing", "needs_confirmation", "erase_recommended",
                                   "running", "failed", "succeeded"}]
           /\ \A p \in Ops : status'[p] = "previewing" => status[p] = "previewing"
<1>1. Idle \in Attempts BY Ranks DEF Idle, Attempts, Pcs, Modes, Files
<1>2. Idle.op = None /\ Idle.pc = "none" /\ Idle.phase = "confirmation" BY DEF Idle
<1> QED BY <1>1, <1>2 DEF Ends, TypeOK

LEMMA CleanedUpTypes ==
    ASSUME TypeOK, attempt.op # None, NEW outcome, CleanedUp(outcome)
    PROVE  /\ rollback' \in [Ops -> {"none", "settled", "fresh", "absent", "empty", "committed"}]
           /\ \A p \in Ops \ {Op} : rollback'[p] = rollback[p]
           /\ rollback[Op] = "none" => rollback'[Op] = "none"
<1>1. PICK r \in {rollback[Op], "none", "committed"} :
        /\ rollback' = [rollback EXCEPT ![Op] = r]
        /\ rollback[Op] = "none" => r = "none"
  BY DEF CleanedUp
<1> QED BY <1>1 DEF TypeOK, Op

LEMMA Spent == ASSUME TypeOK, NEW outcome \in Outcomes, Spend(outcome) PROVE faults' \in 0..MaxFaults
BY ReinstallConstants DEF TypeOK, Outcomes, Spend

LEMMA RootedUp == ASSUME TypeOK, Uproot PROVE running' \in {"none", "live", "stale"}
BY DEF TypeOK, Uproot

LEMMA StartedUp == ASSUME TypeOK, StartedProcess PROVE running' \in {"none", "live", "stale"}
BY DEF TypeOK, StartedProcess

----------------------------------------------------------------------------
(* How an attempt goes on. *)

TargetTypes ==
    /\ data \in {"old", "new"}
    /\ live \in Files
    /\ running \in {"none", "live", "stale"}
    /\ rollback \in [Ops -> {"none", "settled", "fresh", "absent", "empty", "committed"}]
    /\ quarantine \in [Ops -> {"none", "old", "new"}]

\* A step on the target that isolates nothing without a journal.
TargetStep ==
    /\ TargetTypes'
    /\ marker' \in BOOLEAN /\ faults' \in 0..MaxFaults
    /\ UNCHANGED <<other, refresh, forgotten>>
    /\ \A o \in Ops : quarantine'[o] # "none" => o \in Started \cup forgotten

LEMMA Sorts ==
    ASSUME TypeOK, attempt.op # None
    PROVE  /\ Op \in Ops /\ attempt.phase \in Phases /\ attempt.mode \in Modes
           /\ attempt.before \in Files /\ attempt.pc \in Pcs \ {"none"}
           /\ attempt.untouched \in BOOLEAN /\ attempt.aborted \in BOOLEAN
BY DEF TypeOK, Op, Pcs

\* It fails: the operation stays offered with its journal.
LEMMA FailsInv ==
    ASSUME Inv, attempt.op # None, Fails, TargetStep,
           Knows(Op, attempt.phase, attempt.mode, attempt.before, live', quarantine', rollback')
    PROVE  Inv'
<1> USE DEF Op
<1>t. TypeOK BY DEF Inv
<1>1. UNCHANGED <<journal, latest, marker>> /\ Ends("failed") BY DEF Fails
<1>2. /\ attempt' \in Attempts /\ attempt'.op = None /\ attempt'.pc = "none"
      /\ attempt'.phase = "confirmation"
      /\ status' \in [Ops -> {"none", "previewing", "needs_confirmation", "erase_recommended",
                              "running", "failed", "succeeded"}]
      /\ \A p \in Ops : status'[p] = "previewing" => status[p] = "previewing"
  BY <1>t, <1>1, Ended
<1>3. TypeOK' BY <1>t, <1>1, <1>2 DEF TypeOK, TargetStep, TargetTypes, Attempts, Pcs
<1>4. OneJournal' /\ AttemptAlone' BY <1>1, <1>2 DEF Inv, OneJournal, AttemptAlone, Journals
<1>5. PreviewsClean' BY <1>1, <1>2 DEF Inv, AttemptAlone, PreviewsClean
<1>6. Agrees' BY <1>t, <1>1, <1>2, ReinstallConstants DEF Agrees, Journals
<1>7. AttemptTrue' /\ Positions' /\ Recorded' /\ Restorable'
  BY <1>2, PhaseClasses, Ranks
  DEF AttemptTrue, Positions, PositionOf, Recorded, Restorable, Installed, Undoing, Completing
<1>8. JournalsTrue'
  <2> SUFFICES ASSUME NEW o \in Journals
               PROVE  Knows(o, journal[o].phase, journal[o].mode,
                            IF journal[o].phase = "confirmation" THEN live' ELSE journal[o].before,
                            live', quarantine', rollback')
    BY <1>1 DEF JournalsTrue, Journals
  <2>1. o = Op BY DEF Inv, AttemptAlone
  <2>2. Agrees BY DEF Inv
  <2> QED BY <2>1, <2>2 DEF Agrees, Knows
<1>9. IsolatedDataHasJournal' BY <1>1 DEF IsolatedDataHasJournal, TargetStep, Started, Journals
<1>10. OtherAlone' BY DEF Inv, OtherAlone, TargetStep
<1> QED BY <1>3, <1>4, <1>5, <1>6, <1>7, <1>8, <1>9, <1>10 DEF Inv

\* It goes on to pc without writing its journal.
LEMMA MovesInv ==
    ASSUME Inv, attempt.op # None, NEW pc \in Pcs \ {"none"}, Goto(pc),
           UNCHANGED <<journal, latest, status>>, TargetStep,
           Knows(Op, attempt.phase, attempt.mode, attempt.before, live', quarantine', rollback'),
           PositionOf(pc, attempt.phase, attempt.mode),
           pc \in {"mark", "open", "converge"} \/ Op \in Started \cup forgotten,
           attempt.mode = "preserve_data" /\ attempt.untouched =>
               RestorableOf(pc, attempt.phase, attempt.before, live', rollback'[Op])
    PROVE  Inv'
<1> USE DEF Op
<1>t. TypeOK BY DEF Inv
<1>1. /\ attempt' \in Attempts /\ attempt'.op = attempt.op /\ attempt'.pc = pc
      /\ attempt'.phase = attempt.phase /\ attempt'.mode = attempt.mode
      /\ attempt'.before = attempt.before /\ attempt'.untouched = attempt.untouched
      /\ (attempt'.op = None) = (attempt'.pc = "none")
  BY <1>t, GoneTo
<1>2. TypeOK' BY <1>t, <1>1 DEF TypeOK, TargetStep, TargetTypes, Attempts, Pcs
<1>3. OneJournal' /\ AttemptAlone' /\ PreviewsClean' /\ Agrees'
  BY <1>1 DEF Inv, OneJournal, AttemptAlone, PreviewsClean, Agrees, Journals
<1>4. AttemptTrue' /\ Positions' /\ Restorable'
  BY <1>1 DEF AttemptTrue, Positions, Restorable, Knows
<1>5. Recorded' BY <1>1 DEF Recorded, Started, Journals, TargetStep
<1>6. JournalsTrue'
  <2> SUFFICES ASSUME NEW o \in Journals
               PROVE  Knows(o, journal[o].phase, journal[o].mode,
                            IF journal[o].phase = "confirmation" THEN live' ELSE journal[o].before,
                            live', quarantine', rollback')
    BY DEF JournalsTrue, Journals
  <2>1. o = Op BY DEF Inv, AttemptAlone
  <2>2. Agrees BY DEF Inv
  <2> QED BY <2>1, <2>2 DEF Agrees, Knows
<1>7. IsolatedDataHasJournal' BY DEF IsolatedDataHasJournal, TargetStep, Started, Journals
<1>8. OtherAlone' BY DEF Inv, OtherAlone, TargetStep
<1> QED BY <1>2, <1>3, <1>4, <1>5, <1>6, <1>7, <1>8 DEF Inv

\* It goes on to pc, in the phase next, and its journal agrees.
LEMMA AdvancesInv ==
    ASSUME Inv, attempt.op # None, NEW pc \in Pcs \ {"none"}, NEW next \in Phases,
           attempt' \in Attempts, attempt'.op = attempt.op, attempt'.pc = pc,
           attempt'.phase = next, attempt'.mode = attempt.mode,
           attempt'.before = attempt.before, attempt'.untouched = attempt.untouched,
           journal' \in [Ops -> JournalEntries \cup {NoJournal}], latest' \in Ops \cup {None},
           \A p \in Ops \ {Op} : journal'[p] = journal[p],
           \/ next = attempt.phase /\ journal' = journal /\ Op \in Started \cup forgotten
           \/ /\ journal'[Op] # NoJournal /\ next # "confirmation"
              /\ journal'[Op].phase = next /\ journal'[Op].mode = attempt.mode
              /\ journal'[Op].before = attempt.before,
           UNCHANGED status, TargetTypes', marker' \in BOOLEAN, faults' \in 0..MaxFaults,
           UNCHANGED <<other, refresh, forgotten>>,
           \A o \in Ops \ {Op} : quarantine'[o] # "none" => o \in Started \cup forgotten,
           Knows(Op, next, attempt.mode, attempt.before, live', quarantine', rollback'),
           PositionOf(pc, next, attempt.mode),
           attempt.mode = "preserve_data" /\ attempt.untouched =>
               RestorableOf(pc, next, attempt.before, live', rollback'[Op])
    PROVE  Inv'
<1> USE DEF Op
<1>t. TypeOK BY DEF Inv
<1>0. Op \in Ops /\ attempt.phase \in Phases /\ attempt.mode \in Modes BY <1>t, Sorts
<1>2. TypeOK'
  BY <1>t DEF TypeOK, TargetTypes, Attempts, Pcs, JournalEntries
<1>3. \A p \in Journals' : p = Op
  BY DEF Inv, AttemptAlone, Journals
<1>4. OneJournal' /\ AttemptAlone' /\ PreviewsClean'
  BY <1>3 DEF Inv, OneJournal, AttemptAlone, PreviewsClean, Journals
<1>5. Agrees' BY <1>0 DEF Inv, Agrees, Journals
<1>6. AttemptTrue' /\ Positions' /\ Restorable'
  BY DEF AttemptTrue, Positions, Restorable, Knows
<1>7. Op \in Started' \cup forgotten
  BY <1>0 DEF Started, Journals
<1>8. Started \ {Op} \subseteq Started' BY DEF Started, Journals
<1>9. Recorded' BY <1>7 DEF Recorded
<1>10. JournalsTrue'
  <2> SUFFICES ASSUME Op \in Journals'
               PROVE  Knows(Op, journal'[Op].phase, journal'[Op].mode,
                            IF journal'[Op].phase = "confirmation" THEN live' ELSE journal'[Op].before,
                            live', quarantine', rollback')
    BY <1>3 DEF JournalsTrue
  <2>1. Agrees' BY <1>5
  <2> QED BY <2>1 DEF Agrees, Knows
<1>11. IsolatedDataHasJournal' BY <1>7, <1>8 DEF IsolatedDataHasJournal
<1>12. OtherAlone' BY DEF Inv, OtherAlone
<1> QED BY <1>2, <1>4, <1>5, <1>6, <1>9, <1>10, <1>11, <1>12 DEF Inv

LEMMA PersistInv ==
    ASSUME Inv, attempt.op # None, NEW pc \in Pcs \ {"none"},
           NEW phase \in Phases \ {"confirmation"}, NEW next \in Phases,
           next = IF AtLeast(attempt.phase, phase) THEN attempt.phase ELSE phase,
           Persist(phase, pc), UNCHANGED status,
           TargetTypes', marker' \in BOOLEAN, faults' \in 0..MaxFaults,
           UNCHANGED <<other, refresh, forgotten>>,
           \A o \in Ops \ {Op} : quarantine'[o] # "none" => o \in Started \cup forgotten,
           Knows(Op, next, attempt.mode, attempt.before, live', quarantine', rollback'),
           PositionOf(pc, next, attempt.mode), Op \in Started \cup forgotten,
           attempt.mode = "preserve_data" /\ attempt.untouched =>
               RestorableOf(pc, next, attempt.before, live', rollback'[Op])
    PROVE  Inv'
<1>t. TypeOK BY DEF Inv
<1>1. /\ attempt' \in Attempts /\ attempt'.op = attempt.op /\ attempt'.pc = pc
      /\ attempt'.phase = next /\ attempt'.mode = attempt.mode
      /\ attempt'.before = attempt.before /\ attempt'.untouched = attempt.untouched
      /\ journal' \in [Ops -> JournalEntries \cup {NoJournal}]
      /\ latest' \in Ops \cup {None}
      /\ \A p \in Ops \ {Op} : journal'[p] = journal[p]
      /\ \/ next = attempt.phase /\ journal' = journal
         \/ /\ journal'[Op] # NoJournal
            /\ journal'[Op].phase = next /\ journal'[Op].mode = attempt.mode
            /\ journal'[Op].before = attempt.before /\ next # "confirmation"
  BY <1>t, Persisted
<1> QED BY <1>1, AdvancesInv

----------------------------------------------------------------------------
(* The steps of an attempt. *)

\* What is known at any of them.
LEMMA Now ==
    ASSUME Inv, attempt.op # None
    PROVE  /\ TypeOK /\ TargetTypes /\ marker \in BOOLEAN /\ faults \in 0..MaxFaults
           /\ Op \in Ops /\ attempt.phase \in Phases /\ attempt.mode \in Modes
           /\ Knows(Op, attempt.phase, attempt.mode, attempt.before, live, quarantine, rollback)
           /\ PositionOf(attempt.pc, attempt.phase, attempt.mode)
           /\ attempt.pc \notin {"mark", "open", "converge"} => Op \in Started \cup forgotten
           /\ attempt.mode = "preserve_data" /\ attempt.untouched =>
                 RestorableOf(attempt.pc, attempt.phase, attempt.before, live, rollback[Op])
           /\ \A o \in Ops : quarantine[o] # "none" => o \in Started \cup forgotten
           /\ ~other
BY Sorts DEF Inv, OtherAlone, TypeOK, TargetTypes, AttemptTrue, Positions, Recorded, Restorable,
             IsolatedDataHasJournal

LEMMA Running == ASSUME Inv, NEW pc \in Pcs \ {"none"}, At(pc) PROVE attempt.op # None
BY DEF Inv, TypeOK, At

\* Steps that leave the files and directories of the target alone.
Quiet ==
    /\ UNCHANGED <<data, live, rollback, quarantine, other, refresh, forgotten>>
    /\ running' \in {"none", "live", "stale"}
    /\ marker' \in BOOLEAN /\ faults' \in 0..MaxFaults

LEMMA QuietStep == ASSUME Inv, attempt.op # None, Quiet PROVE TargetStep
BY Now DEF Quiet, TargetStep, TargetTypes

LEMMA QuietFails == ASSUME Inv, attempt.op # None, Fails, Quiet PROVE Inv'
BY QuietStep, Now, FailsInv DEF Quiet

LEMMA QuietRecovers ==
    ASSUME Inv, attempt.op # None, NEW pc \in Pcs \ {"none"}, Recovers(pc), Quiet,
           PositionOf(pc, attempt.phase, attempt.mode),
           attempt.pc \notin {"mark", "open", "converge"},
           attempt.mode = "preserve_data" /\ attempt.untouched =>
               RestorableOf(pc, attempt.phase, attempt.before, live, rollback[Op])
    PROVE  Inv'
BY QuietStep, Now, MovesInv DEF Quiet, Recovers

LEMMA QuietPersist ==
    ASSUME Inv, attempt.op # None, NEW pc \in Pcs \ {"none"},
           NEW phase \in Phases \ {"confirmation"}, NEW next \in Phases,
           next = IF AtLeast(attempt.phase, phase) THEN attempt.phase ELSE phase,
           Persist(phase, pc), UNCHANGED status, Quiet,
           PositionOf(pc, next, attempt.mode),
           Knows(Op, next, attempt.mode, attempt.before, live, quarantine, rollback),
           attempt.pc \notin {"mark", "open", "converge"},
           attempt.mode = "preserve_data" /\ attempt.untouched =>
               RestorableOf(pc, next, attempt.before, live, rollback[Op])
    PROVE  Inv'
BY QuietStep, Now, PersistInv DEF Quiet, TargetStep

LEMMA MarkInv == ASSUME Inv, MarkInProgress PROVE Inv'
<1>1. At("mark") /\ attempt.op # None BY Running DEF MarkInProgress, Pcs, Working
<1>2. Goto("open") /\ UNCHANGED <<journal, latest, status>> /\ TargetStep
  BY <1>1, Now DEF MarkInProgress, TargetStep, target, TargetTypes
<1>3. /\ PositionOf("open", attempt.phase, attempt.mode)
      /\ attempt.mode = "preserve_data" /\ attempt.untouched =>
           RestorableOf("open", attempt.phase, attempt.before, live, rollback[Op])
  BY <1>1, Now, PhaseClasses
  DEF At, PositionOf, RestorableOf, Preparing, Installed, Undoing, Completing
<1> QED BY <1>1, <1>2, <1>3, Now, MovesInv DEF MarkInProgress, target, Pcs, Working

LEMMA OpenInv == ASSUME Inv, OpenDirectChannel PROVE Inv'
<1>1. At("open") /\ attempt.op # None BY Running DEF OpenDirectChannel, Pcs, Working
<1>n. TypeOK /\ Op \in Ops BY <1>1, Now
<1>p. "direct_channel_open" \in Phases /\ "resolve" \in Pcs \ {"none"} BY Ranks DEF Pcs, Working
<1>2. attempt' = [attempt EXCEPT !.phase = "direct_channel_open", !.pc = "resolve"]
  BY DEF OpenDirectChannel
<1>3. /\ attempt' \in Attempts /\ attempt'.op = attempt.op /\ attempt'.pc = "resolve"
      /\ attempt'.phase = "direct_channel_open" /\ attempt'.mode = attempt.mode
      /\ attempt'.before = attempt.before /\ attempt'.untouched = attempt.untouched
  BY <1>2, <1>n, <1>p DEF TypeOK, Attempts, Pcs
<1>4. /\ journal' \in [Ops -> JournalEntries \cup {NoJournal}] /\ latest' \in Ops
      /\ \A p \in Ops \ {Op} : journal'[p] = journal[p]
      /\ journal'[Op] # NoJournal
      /\ journal'[Op].phase = "direct_channel_open" /\ journal'[Op].mode = attempt.mode
      /\ journal'[Op].before = attempt.before
  BY <1>1, <1>n, <1>p, Written DEF OpenDirectChannel
<1>5. /\ PositionOf("resolve", "direct_channel_open", attempt.mode)
      /\ attempt.mode = "preserve_data" /\ attempt.untouched =>
           RestorableOf("resolve", "direct_channel_open", attempt.before, live, rollback[Op])
      /\ Knows(Op, "direct_channel_open", attempt.mode, attempt.before, live, quarantine, rollback)
  BY <1>1, <1>p, Now, PhaseClasses
  DEF At, PositionOf, RestorableOf, Knows, Preparing, Installed, Undoing, Completing
<1>6. /\ UNCHANGED <<live, quarantine, rollback, status, other, refresh, forgotten>>
      /\ TargetTypes' /\ marker' \in BOOLEAN /\ faults' \in 0..MaxFaults
      /\ \A o \in Ops \ {Op} : quarantine'[o] # "none" => o \in Started \cup forgotten
  BY <1>1, Now DEF OpenDirectChannel, target, TargetTypes
<1> QED BY <1>1, <1>p, <1>3, <1>4, <1>5, <1>6, AdvancesInv

LEMMA ResolveInv == ASSUME Inv, ResolveTarget PROVE Inv'
<1>1. At("resolve") /\ attempt.op # None BY Running DEF ResolveTarget, Pcs, Working
<1>n. TypeOK /\ Op \in Ops /\ attempt.phase \in Phases BY <1>1, Now
<1>2. PICK outcome \in Outcomes :
        /\ Spend(outcome)
        /\ IF outcome = "ok"
           THEN LET phase == IF AtLeast(attempt.phase, "target_resolved") THEN attempt.phase
                             ELSE "target_resolved"
                IN /\ Write(phase)
                   /\ attempt' = [attempt EXCEPT !.phase = phase, !.pc = "stage"]
                   /\ UNCHANGED <<marker, status>>
           ELSE Fails
  BY DEF ResolveTarget
<1>3. CASE outcome # "ok"
  <2>1. Fails BY <1>2, <1>3
  <2>2. Quiet
    BY <1>1, <1>2, <2>1, Now, Spent DEF Quiet, ResolveTarget, target, TargetTypes, Fails
  <2> QED BY <1>1, <2>1, <2>2, QuietFails
<1>4. CASE outcome = "ok"
  <2> DEFINE phase == IF AtLeast(attempt.phase, "target_resolved") THEN attempt.phase
                      ELSE "target_resolved"
  <2>p. phase \in Phases \ {"confirmation"} /\ "stage" \in Pcs \ {"none"}
    BY <1>n, Ranks DEF Pcs, Working, AtLeast
  <2>1. Write(phase) /\ attempt' = [attempt EXCEPT !.phase = phase, !.pc = "stage"]
        /\ UNCHANGED <<marker, status>>
    BY <1>2, <1>4
  <2>c. /\ PositionOf("stage", phase, attempt.mode)
        /\ attempt.mode = "preserve_data" /\ attempt.untouched =>
             RestorableOf("stage", phase, attempt.before, live, rollback[Op])
        /\ Knows(Op, phase, attempt.mode, attempt.before, live, quarantine, rollback)
    <3>1. "target_resolved" \in Phases BY Ranks
    <3>2. /\ (Verified(phase) <=> Verified(attempt.phase))
          /\ (CameToInstall(phase) <=> CameToInstall(attempt.phase))
          /\ phase = "old_data_cleaned" => attempt.phase = "old_data_cleaned"
      BY <1>n, <3>1, LaterPhase, PhaseClasses
    <3> HIDE DEF phase
    <3> QED BY <1>1, <3>2, Now
        DEF At, PositionOf, RestorableOf, Knows, Preparing, Installed, Undoing, Completing
  <2> HIDE DEF phase
  <2>3. /\ attempt' \in Attempts /\ attempt'.op = attempt.op /\ attempt'.pc = "stage"
        /\ attempt'.phase = phase /\ attempt'.mode = attempt.mode
        /\ attempt'.before = attempt.before /\ attempt'.untouched = attempt.untouched
    BY <2>1, <1>n, <2>p DEF TypeOK, Attempts, Pcs
  <2>4. /\ journal' \in [Ops -> JournalEntries \cup {NoJournal}] /\ latest' \in Ops
        /\ \A p \in Ops \ {Op} : journal'[p] = journal[p]
        /\ journal'[Op] # NoJournal
        /\ journal'[Op].phase = phase /\ journal'[Op].mode = attempt.mode
        /\ journal'[Op].before = attempt.before
    BY <1>1, <1>n, <2>1, <2>p, Written
  <2>6. /\ UNCHANGED <<live, quarantine, rollback, status, other, refresh, forgotten>>
        /\ TargetTypes' /\ marker' \in BOOLEAN /\ faults' \in 0..MaxFaults
        /\ \A o \in Ops \ {Op} : quarantine'[o] # "none" => o \in Started \cup forgotten
    BY <1>1, <1>2, <2>1, Now, Spent DEF ResolveTarget, target, TargetTypes
  <2> QED BY <1>1, <2>p, <2>c, <2>3, <2>4, <2>6, AdvancesInv
<1> QED BY <1>3, <1>4

\* A cleanup script before the attempt came to install, or after it is over.
LEMMA CleanupKnows ==
    ASSUME Inv, attempt.op # None, NEW outcome, CleanedUp(outcome),
           UNCHANGED <<live, quarantine>>
    PROVE  /\ Knows(Op, attempt.phase, attempt.mode, attempt.before, live', quarantine', rollback')
           /\ rollback' \in [Ops -> {"none", "settled", "fresh", "absent", "empty", "committed"}]
BY CleanedUpTypes, Now DEF Knows

LEMMA StageInv == ASSUME Inv, StagePackage PROVE Inv'
<1>1. At("stage") /\ attempt.op # None BY Running DEF StagePackage, Pcs, Working
<1>n. TypeOK /\ Op \in Ops /\ attempt.phase \in Phases BY <1>1, Now
<1> DEFINE X == "package_batch_prepared_and_verified"
           next == IF AtLeast(attempt.phase, X) THEN attempt.phase ELSE X
<1>2. PICK outcome \in Outcomes :
        /\ Spend(outcome)
        /\ IF outcome = "ok"
           THEN /\ Persist(X, "session")
                /\ UNCHANGED <<rollback, marker, status>>
           ELSE /\ \E cleanup \in {"ok", "failed", "lost"} :
                      (attempt.aborted => cleanup = "failed") /\ CleanedUp(cleanup)
                /\ Fails
  BY DEF StagePackage
<1>3. CASE outcome # "ok"
  <2>1. PICK cleanup \in {"ok", "failed", "lost"} : CleanedUp(cleanup) BY <1>2, <1>3
  <2>2. Fails BY <1>2, <1>3
  <2>3. /\ UNCHANGED <<data, live, running, quarantine, other, refresh, forgotten, marker>>
        /\ faults' \in 0..MaxFaults
    BY <1>n, <1>2, <2>2, Spent DEF StagePackage, Fails
  <2>4. TargetStep BY <1>1, <2>1, <2>3, Now, CleanupKnows DEF TargetStep, TargetTypes
  <2> QED BY <1>1, <2>1, <2>2, <2>3, <2>4, CleanupKnows, FailsInv
<1>4. CASE outcome = "ok"
  <2>1. Persist(X, "session") /\ UNCHANGED <<rollback, marker, status>> BY <1>2, <1>4
  <2>2. Quiet BY <1>1, <1>2, <2>1, Now, Spent DEF Quiet, StagePackage, TargetTypes
  <2>x. X \in Phases \ {"confirmation"} /\ "session" \in Pcs \ {"none"} BY Ranks DEF Pcs, Working
  <2>y. /\ next \in Phases /\ (Verified(next) <=> Verified(attempt.phase))
        /\ (CameToInstall(next) <=> CameToInstall(attempt.phase))
        /\ next = "old_data_cleaned" => attempt.phase = "old_data_cleaned"
    BY <1>n, <2>x, LaterPhase, PhaseClasses
  <2> HIDE DEF next
  <2>3. /\ PositionOf("session", next, attempt.mode)
        /\ attempt.mode = "preserve_data" /\ attempt.untouched =>
             RestorableOf("session", next, attempt.before, live, rollback[Op])
        /\ Knows(Op, next, attempt.mode, attempt.before, live, quarantine, rollback)
    BY <1>1, <2>y, Now
    DEF At, PositionOf, RestorableOf, Knows, Preparing, Installed, Undoing, Completing
  <2> QED BY <1>1, <2>1, <2>2, <2>3, <2>x, <2>y, QuietPersist DEF At, next
<1> QED BY <1>3, <1>4

LEMMA SessionInv == ASSUME Inv, OpenProcessSession PROVE Inv'
<1>1. At("session") /\ attempt.op # None BY Running DEF OpenProcessSession, Pcs, Working
<1>2. PICK pc \in {"stop", "skip_stop", "discard_staging"} : Recovers(pc) BY DEF OpenProcessSession
<1>3. Quiet
  BY <1>1, <1>2, Now, Spent DEF Quiet, OpenProcessSession, target, TargetTypes, Recovers
<1>4. /\ pc \in Pcs \ {"none"}
      /\ PositionOf(pc, attempt.phase, attempt.mode)
      /\ attempt.mode = "preserve_data" /\ attempt.untouched =>
           RestorableOf(pc, attempt.phase, attempt.before, live, rollback[Op])
  BY <1>1, Now
  DEF At, PositionOf, RestorableOf, Preparing, Installed, Undoing, Completing, Pcs, Working,
      Recovering
<1> QED BY <1>1, <1>2, <1>3, <1>4, QuietRecovers DEF At

LEMMA StopInv == ASSUME Inv, StopProcesses \/ LeaveProcesses PROVE Inv'
<1>1. At("stop") \/ At("skip_stop") BY DEF StopProcesses, LeaveProcesses
<1>0. attempt.op # None BY <1>1, Running DEF Pcs, Working
<1>n. TypeOK /\ attempt.phase \in Phases BY <1>0, Now
<1> DEFINE X == "redeven_process_stop_attempted"
           next == IF AtLeast(attempt.phase, X) THEN attempt.phase ELSE X
<1>2. Persist(X, "isolate") /\ UNCHANGED status BY DEF StopProcesses, LeaveProcesses
<1>3. Quiet BY <1>0, <1>1, <1>n, Now, Spent DEF Quiet, StopProcesses, LeaveProcesses, target, TargetTypes
<1>x. X \in Phases \ {"confirmation"} /\ "isolate" \in Pcs \ {"none"} BY Ranks DEF Pcs, Working
<1>y. /\ next \in Phases /\ (Verified(next) <=> Verified(attempt.phase))
      /\ (CameToInstall(next) <=> CameToInstall(attempt.phase))
      /\ next = "old_data_cleaned" => attempt.phase = "old_data_cleaned"
  BY <1>n, <1>x, LaterPhase, PhaseClasses
<1> HIDE DEF next
<1>4. /\ PositionOf("isolate", next, attempt.mode)
      /\ attempt.mode = "preserve_data" /\ attempt.untouched =>
           RestorableOf("isolate", next, attempt.before, live, rollback[Op])
      /\ Knows(Op, next, attempt.mode, attempt.before, live, quarantine, rollback)
  BY <1>0, <1>1, <1>y, Now
  DEF At, Wipe, PositionOf, RestorableOf, Knows, Preparing, Installed, Undoing, Completing
<1> QED BY <1>0, <1>1, <1>2, <1>3, <1>4, <1>x, <1>y, QuietPersist DEF At, next

LEMMA KeepInv == ASSUME Inv, KeepRoot PROVE Inv'
<1>1. At("isolate") /\ attempt.op # None /\ ~Wipe BY Running DEF KeepRoot, Pcs, Working
<1>n. TypeOK /\ attempt.phase \in Phases BY <1>1, Now
<1> DEFINE X == "old_root_isolated_or_cleared"
           next == IF AtLeast(attempt.phase, X) THEN attempt.phase ELSE X
<1>2. Persist(X, "install") /\ UNCHANGED status BY DEF KeepRoot
<1>3. Quiet BY <1>1, <1>n, Now DEF Quiet, KeepRoot, target, TargetTypes
<1>x. X \in Phases \ {"confirmation"} /\ "install" \in Pcs \ {"none"} BY Ranks DEF Pcs, Working
<1>y. /\ next \in Phases /\ (Verified(next) <=> Verified(attempt.phase))
      /\ CameToInstall(next)
      /\ next = "old_data_cleaned" => attempt.phase = "old_data_cleaned"
  BY <1>n, <1>x, LaterPhase, PhaseClasses
<1> HIDE DEF next
<1>4. /\ PositionOf("install", next, attempt.mode)
      /\ attempt.mode = "preserve_data" /\ attempt.untouched =>
           RestorableOf("install", next, attempt.before, live, rollback[Op])
      /\ Knows(Op, next, attempt.mode, attempt.before, live, quarantine, rollback)
  BY <1>1, <1>y, Now
  DEF At, Wipe, PositionOf, RestorableOf, Knows, Preparing, Installed, Undoing, Completing
<1> QED BY <1>1, <1>2, <1>3, <1>4, <1>x, <1>y, QuietPersist DEF At, next

LEMMA IsolateInv == ASSUME Inv, IsolateRoot PROVE Inv'
<1>1. At("isolate") /\ Wipe /\ attempt.op # None BY Running DEF IsolateRoot, Pcs, Working
<1>n. TypeOK /\ Op \in Ops /\ attempt.phase \in Phases BY <1>1, Now
<1>v. ~Verified(attempt.phase) /\ attempt.mode = "wipe_data" /\ attempt.phase # "old_data_cleaned"
      /\ Op \in Started \cup forgotten
  BY <1>1, Now, PhaseClasses DEF At, Wipe, PositionOf, Completing
<1> DEFINE X == "old_root_isolated_or_cleared"
           next == IF AtLeast(attempt.phase, X) THEN attempt.phase ELSE X
<1>2. PICK outcome \in Outcomes :
        /\ Spend(outcome)
        /\ IF outcome = "failed" THEN UNCHANGED target ELSE Isolated
        /\ IF outcome = "ok"
           THEN Persist(X, "install") /\ UNCHANGED <<marker, status>>
           ELSE Recovers("discard_staging")
  BY DEF IsolateRoot
<1>3. /\ TargetTypes' /\ faults' \in 0..MaxFaults /\ marker' \in BOOLEAN
      /\ UNCHANGED <<other, refresh, forgotten>>
      /\ \A o \in Ops : quarantine'[o] # "none" => o \in Started \cup forgotten
  <2>1. faults' \in 0..MaxFaults BY <1>n, <1>2, Spent
  <2>2. marker' \in BOOLEAN /\ UNCHANGED <<other, refresh, forgotten>>
    BY <1>1, <1>2, Now DEF IsolateRoot, Recovers
  <2>3. CASE UNCHANGED target BY <1>1, <2>1, <2>2, <2>3, Now DEF target, TargetTypes
  <2>4. CASE Isolated
    <3>1. /\ data' \in {"old", "new"} /\ live' \in Files
          /\ rollback' \in [Ops -> {"none", "settled", "fresh", "absent", "empty", "committed"}]
          /\ running' \in {"none", "live", "stale"}
      BY <1>n, <2>4, RootedUp DEF Isolated, Files
    <3>2. /\ quarantine' \in [Ops -> {"none", "old", "new"}]
          /\ \A o \in Ops \ {Op} : quarantine'[o] = quarantine[o]
      BY <1>n, <2>4 DEF Isolated, TypeOK
    <3> QED BY <1>1, <1>v, <2>1, <2>2, <3>1, <3>2, Now DEF TargetTypes
  <2> QED BY <1>2, <2>3, <2>4
<1>4. CASE outcome = "ok"
  <2>x. X \in Phases \ {"confirmation"} /\ "install" \in Pcs \ {"none"} BY Ranks DEF Pcs, Working
  <2>y. /\ next \in Phases /\ ~Verified(next) /\ CameToInstall(next)
        /\ next # "old_data_cleaned"
    BY <1>n, <1>v, <2>x, LaterPhase, PhaseClasses
  <2> HIDE DEF next
  <2>1. PositionOf("install", next, attempt.mode)
    BY <2>y DEF PositionOf, Installed, Undoing, Completing
  <2>2. Knows(Op, next, attempt.mode, attempt.before, live', quarantine', rollback')
    BY <1>v, <2>y DEF Knows
  <2>3. Persist(X, "install") /\ UNCHANGED status BY <1>2, <1>4
  <2> QED BY <1>1, <1>3, <1>v, <2>x, <2>y, <2>1, <2>2, <2>3, PersistInv DEF next
<1>5. CASE outcome # "ok"
  <2>1. Recovers("discard_staging") BY <1>2, <1>5
  <2>2. Knows(Op, attempt.phase, attempt.mode, attempt.before, live', quarantine', rollback')
    BY <1>v DEF Knows
  <2>3. PositionOf("discard_staging", attempt.phase, attempt.mode)
    BY <1>v DEF PositionOf, Installed, Undoing, Completing
  <2>4. TargetStep BY <1>3 DEF TargetStep
  <2> QED BY <1>1, <1>v, <2>1, <2>2, <2>3, <2>4, MovesInv DEF Recovers, Pcs, Recovering
<1> QED BY <1>4, <1>5

\* Where an attempt that fails from install on goes.
LEMMA Undone ==
    ASSUME Inv, attempt.op # None, InstallFailed, CameToInstall(attempt.phase),
           ~Verified(attempt.phase), attempt.pc \notin {"mark", "open", "converge"},
           TargetStep,
           Knows(Op, attempt.phase, attempt.mode, attempt.before, live', quarantine', rollback'),
           attempt.mode = "preserve_data" /\ attempt.untouched =>
               RestorableOf("stop_fresh", attempt.phase, attempt.before, live', rollback'[Op])
    PROVE  Inv'
<1>n. Op \in Started \cup forgotten /\ attempt.mode \in Modes BY Now
<1>1. CASE Wipe
  <2>1. Recovers("discard_staging") BY <1>1 DEF InstallFailed
  <2>2. PositionOf("discard_staging", attempt.phase, attempt.mode)
    BY DEF PositionOf, Installed, Undoing, Completing
  <2> QED BY <1>n, <1>1, <2>1, <2>2, MovesInv DEF Recovers, Wipe, Pcs, Recovering
<1>2. CASE ~Wipe
  <2>1. Recovers("stop_fresh") BY <1>2 DEF InstallFailed
  <2>2. PositionOf("stop_fresh", attempt.phase, attempt.mode)
    BY <1>n, <1>2, PhaseClasses DEF PositionOf, Installed, Undoing, Completing, Wipe, Modes
  <2> QED BY <1>n, <1>2, <2>1, <2>2, MovesInv DEF Recovers, Pcs, Recovering
<1> QED BY <1>1, <1>2

LEMMA InstallInv == ASSUME Inv, InstallRuntime PROVE Inv'
<1>1. At("install") /\ attempt.op # None BY Running DEF InstallRuntime, Pcs, Working
<1>n. TypeOK /\ Op \in Ops /\ attempt.phase \in Phases /\ attempt.mode \in Modes
      /\ Op \in Started \cup forgotten
  BY <1>1, Now DEF At
<1>v. ~Verified(attempt.phase) /\ CameToInstall(attempt.phase) /\ attempt.phase # "old_data_cleaned"
  BY <1>1, Now, PhaseClasses DEF At, PositionOf, Completing
<1> DEFINE X == "runtime_installed"
           next == IF AtLeast(attempt.phase, X) THEN attempt.phase ELSE X
<1>2. PICK outcome \in Outcomes :
        /\ Spend(outcome)
        /\ IF outcome = "failed" THEN UNCHANGED <<live, running, rollback>>
           ELSE \/ live' = "fresh" /\ rollback' = [rollback EXCEPT ![Op] = Kept] /\ Uproot
                \/ outcome = "lost" /\ InstallHalted
        /\ IF outcome = "ok"
           THEN Persist(X, "start") /\ UNCHANGED <<marker, status>>
           ELSE InstallFailed
  BY DEF InstallRuntime
<1>u. /\ UNCHANGED <<data, quarantine, other, refresh, forgotten>>
      /\ faults' \in 0..MaxFaults /\ marker' \in BOOLEAN
  BY <1>1, <1>2, <1>n, Now, Spent DEF InstallRuntime, InstallFailed, Recovers
<1>k. /\ Kept \in {"none", "settled", "fresh", "absent", "empty", "committed"}
      /\ attempt.mode = "preserve_data" /\ rollback[Op] = "none" =>
           Kept = IF live = "none" THEN "absent" ELSE live
      /\ Restored \in Files
      /\ rollback[Op] = "none" => Restored = live
  BY <1>n DEF TypeOK, Kept, Restored, HoldsFiles, Wipe, Files
<1>r. /\ live' \in Files /\ rollback' \in [Ops -> {"none", "settled", "fresh", "absent", "empty", "committed"}]
      /\ running' \in {"none", "live", "stale"}
      /\ \/ rollback' = rollback /\ live' = live
         \/ rollback'[Op] = Kept
         \/ rollback'[Op] \in {"none", "empty"} /\ live' = Restored
  <2>1. CASE outcome = "failed" BY <1>n, <1>2, <2>1 DEF TypeOK
  <2>2. CASE live' = "fresh" /\ rollback' = [rollback EXCEPT ![Op] = Kept] /\ Uproot
    BY <1>n, <1>k, <2>2, RootedUp DEF TypeOK, Files
  <2>3. CASE live' = "none" /\ rollback' = [rollback EXCEPT ![Op] = Kept] /\ Uproot
    BY <1>n, <1>k, <2>3, RootedUp DEF TypeOK, Files
  <2>4. CASE /\ live' = Restored
             /\ rollback' \in {[rollback EXCEPT ![Op] = r] : r \in {"none", "empty"}}
             /\ IF HoldsFiles THEN Uproot ELSE UNCHANGED running
    <3>1. PICK r \in {"none", "empty"} : rollback' = [rollback EXCEPT ![Op] = r] BY <2>4
    <3>2. /\ rollback' \in [Ops -> {"none", "settled", "fresh", "absent", "empty", "committed"}]
          /\ rollback'[Op] \in {"none", "empty"}
      BY <1>n, <3>1 DEF TypeOK
    <3>3. running' \in {"none", "live", "stale"} BY <1>n, <2>4, RootedUp DEF TypeOK
    <3> QED BY <1>k, <2>4, <3>2, <3>3
  <2> QED BY <1>2, <2>1, <2>2, <2>3, <2>4 DEF InstallHalted
<1>3. TargetStep BY <1>1, <1>r, <1>u, Now DEF TargetStep, TargetTypes
<1>4. attempt.mode = "preserve_data" /\ attempt.untouched =>
        /\ rollback'[Op] # "committed"
        /\ attempt.before = CASE rollback'[Op] \in {"none", "empty"} -> live'
                              [] rollback'[Op] = "absent" -> "none"
                              [] OTHER -> rollback'[Op]
  <2> SUFFICES ASSUME attempt.mode = "preserve_data", attempt.untouched
               PROVE  /\ rollback'[Op] # "committed"
                      /\ attempt.before = CASE rollback'[Op] \in {"none", "empty"} -> live'
                           [] rollback'[Op] = "absent" -> "none" [] OTHER -> rollback'[Op]
    OBVIOUS
  <2>1. rollback[Op] = "none" /\ live = attempt.before
    BY <1>1, Now DEF At, RestorableOf
  <2>2. live \in {"none", "settled", "fresh"} BY <1>n DEF TypeOK, Files
  <2> QED BY <1>k, <1>r, <2>1, <2>2
<1>5. CASE outcome = "ok"
  <2>x. X \in Phases \ {"confirmation"} /\ "start" \in Pcs \ {"none"} BY Ranks DEF Pcs, Working
  <2>y. next \in Phases /\ ~Verified(next) /\ CameToInstall(next) /\ next # "old_data_cleaned"
    BY <1>n, <1>v, <2>x, LaterPhase, PhaseClasses
  <2> HIDE DEF next
  <2>1. PositionOf("start", next, attempt.mode)
    BY <2>y DEF PositionOf, Installed, Undoing, Completing
  <2>2. Knows(Op, next, attempt.mode, attempt.before, live', quarantine', rollback')
    BY <1>1, <1>u, <2>y, Now DEF Knows
  <2>3. Persist(X, "start") /\ UNCHANGED status BY <1>2, <1>5
  <2>4. attempt.mode = "preserve_data" /\ attempt.untouched =>
          RestorableOf("start", next, attempt.before, live', rollback'[Op])
    BY <1>4 DEF RestorableOf, Preparing
  <2> QED BY <1>1, <1>n, <1>3, <2>x, <2>y, <2>1, <2>2, <2>3, <2>4, PersistInv DEF TargetStep, next
<1>6. CASE outcome # "ok"
  <2>1. Knows(Op, attempt.phase, attempt.mode, attempt.before, live', quarantine', rollback')
    BY <1>1, <1>u, <1>v, Now DEF Knows
  <2>2. attempt.mode = "preserve_data" /\ attempt.untouched =>
          RestorableOf("stop_fresh", attempt.phase, attempt.before, live', rollback'[Op])
    BY <1>4 DEF RestorableOf, Preparing, Installed
  <2> QED BY <1>1, <1>2, <1>6, <1>3, <1>v, <2>1, <2>2, Undone DEF At
<1> QED BY <1>5, <1>6

LEMMA StartInv == ASSUME Inv, StartRuntime PROVE Inv'
<1>1. At("start") /\ attempt.op # None BY Running DEF StartRuntime, Pcs, Working
<1>n. TypeOK /\ attempt.phase \in Phases BY <1>1, Now
<1>v. ~Verified(attempt.phase) /\ CameToInstall(attempt.phase) /\ attempt.phase # "old_data_cleaned"
  BY <1>1, Now, PhaseClasses DEF At, PositionOf, Installed, Completing
<1> DEFINE X == "runtime_started"
           next == IF AtLeast(attempt.phase, X) THEN attempt.phase ELSE X
<1>2. PICK outcome \in Outcomes :
        /\ Spend(outcome)
        /\ IF outcome = "failed" THEN UNCHANGED running ELSE StartedProcess
        /\ IF outcome = "ok"
           THEN Persist(X, "verify") /\ UNCHANGED <<marker, status>>
           ELSE InstallFailed
  BY DEF StartRuntime
<1>3. Quiet
  BY <1>1, <1>2, Now, Spent, StartedUp
  DEF Quiet, StartRuntime, InstallFailed, Recovers, TargetTypes
<1>4. CASE outcome = "ok"
  <2>x. X \in Phases \ {"confirmation"} /\ "verify" \in Pcs \ {"none"} BY Ranks DEF Pcs, Working
  <2>y. next \in Phases /\ ~Verified(next) /\ CameToInstall(next) /\ next # "old_data_cleaned"
    BY <1>n, <1>v, <2>x, LaterPhase, PhaseClasses
  <2> HIDE DEF next
  <2>1. /\ PositionOf("verify", next, attempt.mode)
        /\ attempt.mode = "preserve_data" /\ attempt.untouched =>
             RestorableOf("verify", next, attempt.before, live, rollback[Op])
        /\ Knows(Op, next, attempt.mode, attempt.before, live, quarantine, rollback)
    BY <1>1, <2>y, Now DEF At, PositionOf, RestorableOf, Knows, Preparing, Installed, Undoing, Completing
  <2>2. Persist(X, "verify") /\ UNCHANGED status BY <1>2, <1>4
  <2> QED BY <1>1, <1>3, <2>x, <2>y, <2>1, <2>2, QuietPersist DEF At, next
<1>5. CASE outcome # "ok"
  <2>1. attempt.mode = "preserve_data" /\ attempt.untouched =>
          RestorableOf("stop_fresh", attempt.phase, attempt.before, live, rollback[Op])
    BY <1>1, Now DEF At, RestorableOf, Preparing, Installed
  <2> QED BY <1>1, <1>2, <1>3, <1>5, <1>v, <2>1, Now, QuietStep, Undone DEF At, Quiet
<1> QED BY <1>4, <1>5

LEMMA IdentityInv == ASSUME Inv, VerifyIdentity PROVE Inv'
<1>1. At("verify") /\ attempt.op # None BY Running DEF VerifyIdentity, Pcs, Working
<1>n. TypeOK /\ attempt.phase \in Phases BY <1>1, Now
<1>v. ~Verified(attempt.phase) /\ CameToInstall(attempt.phase) /\ attempt.phase # "old_data_cleaned"
  BY <1>1, Now, PhaseClasses DEF At, PositionOf, Installed, Completing
<1> DEFINE X == "runtime_verified"
           next == IF AtLeast(attempt.phase, X) THEN attempt.phase ELSE X
<1>2. PICK outcome \in Outcomes :
        /\ Spend(outcome)
        /\ IF outcome = "ok" /\ running = "live"
           THEN Persist(X, "catalog") /\ UNCHANGED <<marker, status>>
           ELSE InstallFailed
  BY DEF VerifyIdentity
<1>3. Quiet
  BY <1>1, <1>2, Now, Spent DEF Quiet, VerifyIdentity, InstallFailed, Recovers, target, TargetTypes
<1>4. CASE outcome = "ok" /\ running = "live"
  <2>x. X \in Phases \ {"confirmation"} /\ "catalog" \in Pcs \ {"none"} BY Ranks DEF Pcs, Working
  <2>y. next \in Phases /\ ~Verified(next) /\ CameToInstall(next) /\ next # "old_data_cleaned"
    BY <1>n, <1>v, <2>x, LaterPhase, PhaseClasses
  <2> HIDE DEF next
  <2>1. /\ PositionOf("catalog", next, attempt.mode)
        /\ attempt.mode = "preserve_data" /\ attempt.untouched =>
             RestorableOf("catalog", next, attempt.before, live, rollback[Op])
        /\ Knows(Op, next, attempt.mode, attempt.before, live, quarantine, rollback)
    BY <1>1, <2>y, Now DEF At, PositionOf, RestorableOf, Knows, Preparing, Installed, Undoing, Completing
  <2>2. Persist(X, "catalog") /\ UNCHANGED status BY <1>2, <1>4
  <2> QED BY <1>1, <1>3, <2>x, <2>y, <2>1, <2>2, QuietPersist DEF At, next
<1>5. CASE ~(outcome = "ok" /\ running = "live")
  <2>1. attempt.mode = "preserve_data" /\ attempt.untouched =>
          RestorableOf("stop_fresh", attempt.phase, attempt.before, live, rollback[Op])
    BY <1>1, Now DEF At, RestorableOf, Preparing, Installed
  <2> QED BY <1>1, <1>2, <1>3, <1>5, <1>v, <2>1, Now, QuietStep, Undone DEF At, Quiet
<1> QED BY <1>4, <1>5

LEMMA CatalogInv == ASSUME Inv, VerifyCatalog PROVE Inv'
<1>1. At("catalog") /\ attempt.op # None BY Running DEF VerifyCatalog, Pcs, Working
<1>n. TypeOK /\ attempt.phase \in Phases /\ Op \in Started \cup forgotten BY <1>1, Now DEF At
<1>v. ~Verified(attempt.phase) /\ CameToInstall(attempt.phase) /\ attempt.phase # "old_data_cleaned"
  BY <1>1, Now, PhaseClasses DEF At, PositionOf, Installed, Completing
<1> DEFINE X == "catalog_and_local_ui_verified"
           next == IF AtLeast(attempt.phase, X) THEN attempt.phase ELSE X
<1>2. PICK outcome \in Outcomes :
        /\ Spend(outcome)
        /\ \/ /\ live' = "settled"
              /\ Persist(X, "finalize")
              /\ UNCHANGED <<marker, status>>
           \/ /\ InstallFailed
              /\ UNCHANGED live
  BY DEF VerifyCatalog
<1>3. TargetStep
  BY <1>1, <1>2, Now, Spent
  DEF TargetStep, VerifyCatalog, InstallFailed, Recovers, TargetTypes, Files
<1>4. CASE live' = "settled" /\ Persist(X, "finalize") /\ UNCHANGED <<marker, status>>
  <2>x. X \in Phases \ {"confirmation"} /\ "finalize" \in Pcs \ {"none"} BY Ranks DEF Pcs, Working
  <2>y. next \in Phases /\ Verified(next) /\ CameToInstall(next) /\ next # "old_data_cleaned"
    BY <1>n, <1>v, <2>x, LaterPhase, PhaseClasses
  <2> HIDE DEF next
  <2>1. /\ PositionOf("finalize", next, attempt.mode)
        /\ attempt.mode = "preserve_data" /\ attempt.untouched =>
             RestorableOf("finalize", next, attempt.before, live', rollback'[Op])
        /\ Knows(Op, next, attempt.mode, attempt.before, live', quarantine', rollback')
    BY <1>1, <1>4, <2>y, Now
    DEF VerifyCatalog, At, PositionOf, RestorableOf, Knows, Preparing, Installed, Undoing, Completing
  <2>2. Persist(X, "finalize") /\ UNCHANGED status BY <1>4
  <2> QED BY <1>1, <1>n, <1>3, <2>x, <2>y, <2>1, <2>2, PersistInv DEF TargetStep, next
<1>5. CASE InstallFailed /\ UNCHANGED live
  <2>1. /\ attempt.mode = "preserve_data" /\ attempt.untouched =>
             RestorableOf("stop_fresh", attempt.phase, attempt.before, live', rollback'[Op])
        /\ Knows(Op, attempt.phase, attempt.mode, attempt.before, live', quarantine', rollback')
    BY <1>1, <1>5, Now DEF VerifyCatalog, At, RestorableOf, Preparing, Installed, Knows
  <2> QED BY <1>1, <1>3, <1>5, <1>v, <2>1, Undone DEF At
<1> QED BY <1>2, <1>4, <1>5

LEMMA ResumeInv == ASSUME Inv, ResumeCompletion PROVE Inv'
<1>1. At("resume") /\ attempt.op # None BY Running DEF ResumeCompletion, Pcs, Resuming
<1>2. PICK outcome \in Outcomes :
        /\ Spend(outcome)
        /\ IF outcome = "ok"
           THEN Recovers(IF attempt.phase = "old_data_cleaned" THEN "clear" ELSE "resume_finalize")
           ELSE Fails
  BY DEF ResumeCompletion
<1>3. Quiet
  BY <1>1, <1>2, Now, Spent DEF Quiet, ResumeCompletion, Fails, Recovers, target, TargetTypes
<1>4. CASE outcome = "ok"
  <2> DEFINE pc == IF attempt.phase = "old_data_cleaned" THEN "clear" ELSE "resume_finalize"
  <2>1. pc \in Pcs \ {"none"} BY DEF Pcs, Working, Resuming
  <2>2. /\ PositionOf(pc, attempt.phase, attempt.mode)
        /\ RestorableOf(pc, attempt.phase, attempt.before, live, rollback[Op])
    BY <1>1, Now
    DEF At, PositionOf, RestorableOf, Knows, Preparing, Installed, Undoing, Completing
  <2>3. Recovers(pc) BY <1>2, <1>4
  <2> HIDE DEF pc
  <2> QED BY <1>1, <1>3, <2>1, <2>2, <2>3, QuietRecovers DEF At
<1>5. CASE outcome # "ok"
  <2>1. Fails BY <1>2, <1>5
  <2> QED BY <1>1, <1>3, <2>1, QuietFails
<1> QED BY <1>4, <1>5

LEMMA FinalizeInv == ASSUME Inv, FinalizeInstall PROVE Inv'
<1>1. /\ At("finalize") \/ At("resume_finalize")
      /\ attempt.op # None
  BY Running DEF FinalizeInstall, Pcs, Working, Resuming
<1>n. TypeOK /\ Op \in Ops /\ attempt.phase \in Phases /\ Op \in Started \cup forgotten
  BY <1>1, Now DEF At
<1>v. Verified(attempt.phase) /\ attempt.phase # "confirmation"
  BY <1>1, <1>n, Now, PhaseClasses DEF At, PositionOf, Completing
<1>2. PICK outcome \in Outcomes :
        /\ Spend(outcome)
        /\ CleanedUp(outcome)
        /\ IF outcome = "ok"
           THEN /\ Goto("clean")
                /\ IF At("finalize") THEN Write(attempt.phase) ELSE UNCHANGED <<journal, latest>>
                /\ UNCHANGED <<marker, status>>
           ELSE Fails
  BY DEF FinalizeInstall
<1>3. UNCHANGED <<data, live, running, quarantine, other, refresh, forgotten, marker>>
  BY <1>2 DEF FinalizeInstall, Fails
<1>4. /\ TargetStep
      /\ Knows(Op, attempt.phase, attempt.mode, attempt.before, live', quarantine', rollback')
  BY <1>1, <1>2, <1>3, Now, Spent, CleanupKnows DEF TargetStep, TargetTypes
<1>5. CASE outcome # "ok"
  <2>1. Fails BY <1>2, <1>5
  <2> QED BY <1>1, <1>4, <2>1, FailsInv
<1>6. CASE outcome = "ok"
  <2>1. Goto("clean") /\ UNCHANGED status BY <1>2, <1>6
  <2>2. "clean" \in Pcs \ {"none"} BY DEF Pcs, Working
  <2>3. /\ PositionOf("clean", attempt.phase, attempt.mode)
        /\ RestorableOf("clean", attempt.phase, attempt.before, live', rollback'[Op])
    BY <1>v DEF PositionOf, RestorableOf, Preparing, Installed, Undoing, Completing
  <2>4. /\ attempt' \in Attempts /\ attempt'.op = attempt.op /\ attempt'.pc = "clean"
        /\ attempt'.phase = attempt.phase /\ attempt'.mode = attempt.mode
        /\ attempt'.before = attempt.before /\ attempt'.untouched = attempt.untouched
    BY <1>1, <1>n, <2>1, <2>2, GoneTo
  <2>5. CASE UNCHANGED <<journal, latest>>
    BY <1>1, <1>n, <1>4, <2>1, <2>2, <2>3, <2>5, MovesInv
  <2>6. CASE Write(attempt.phase)
    <3>1. /\ journal' \in [Ops -> JournalEntries \cup {NoJournal}] /\ latest' \in Ops
          /\ \A p \in Ops \ {Op} : journal'[p] = journal[p]
          /\ journal'[Op] # NoJournal
          /\ journal'[Op].phase = attempt.phase /\ journal'[Op].mode = attempt.mode
          /\ journal'[Op].before = attempt.before
      BY <1>1, <1>n, <2>6, Written
    <3> QED BY <1>1, <1>n, <1>v, <1>4, <2>1, <2>2, <2>3, <2>4, <3>1, AdvancesInv DEF TargetStep
  <2> QED BY <1>2, <1>6, <2>5, <2>6
<1> QED BY <1>5, <1>6

LEMMA CleanInv == ASSUME Inv, CleanQuarantines PROVE Inv'
<1>1. At("clean") /\ attempt.op # None BY Running DEF CleanQuarantines, Pcs, Working
<1>n. TypeOK /\ Op \in Ops /\ attempt.phase \in Phases /\ Op \in Started \cup forgotten
  BY <1>1, Now DEF At
<1>v. Verified(attempt.phase) BY <1>1, Now DEF At, PositionOf, Completing
<1> DEFINE X == "old_data_cleaned"
           next == IF AtLeast(attempt.phase, X) THEN attempt.phase ELSE X
<1>2. PICK outcome \in Outcomes :
        /\ Spend(outcome)
        /\ \E gone \in SUBSET Ops :
             /\ (outcome = "ok" => gone = Ops) /\ (outcome = "failed" => gone = {})
             /\ quarantine' = [o \in Ops |-> IF o \in gone THEN "none" ELSE quarantine[o]]
        /\ IF outcome = "ok"
           THEN Persist(X, "clear") /\ UNCHANGED <<marker, status>>
           ELSE Fails
  BY DEF CleanQuarantines
<1>3. /\ quarantine' \in [Ops -> {"none", "old", "new"}]
      /\ \A o \in Ops : quarantine'[o] \in {"none", quarantine[o]}
      /\ outcome = "ok" => \A o \in Ops : quarantine'[o] = "none"
  BY <1>2, <1>n DEF TypeOK
<1>4. TargetStep
  BY <1>1, <1>2, <1>3, Now, Spent DEF TargetStep, TargetTypes, CleanQuarantines, Fails
<1>5. CASE outcome = "ok"
  <2>x. X \in Phases \ {"confirmation"} /\ "clear" \in Pcs \ {"none"} BY Ranks DEF Pcs, Working
  <2>y. next \in Phases /\ Verified(next) /\ CameToInstall(next) /\ next = "old_data_cleaned"
    BY <1>n, <1>v, <2>x, LaterPhase, PhaseClasses
  <2> HIDE DEF next
  <2>1. /\ PositionOf("clear", next, attempt.mode)
        /\ attempt.mode = "preserve_data" /\ attempt.untouched =>
             RestorableOf("clear", next, attempt.before, live', rollback'[Op])
        /\ Knows(Op, next, attempt.mode, attempt.before, live', quarantine', rollback')
    BY <1>1, <1>v, <1>n, <1>3, <1>5, <2>y, Now
    DEF CleanQuarantines, At, PositionOf, RestorableOf, Knows, Preparing, Installed, Undoing, Completing
  <2>2. Persist(X, "clear") /\ UNCHANGED status BY <1>2, <1>5
  <2> QED BY <1>1, <1>n, <1>4, <2>x, <2>y, <2>1, <2>2, PersistInv DEF TargetStep, next
<1>6. CASE outcome # "ok"
  <2>1. Fails BY <1>2, <1>6
  <2>2. Knows(Op, attempt.phase, attempt.mode, attempt.before, live', quarantine', rollback')
    BY <1>1, <1>n, <1>3, Now DEF CleanQuarantines, Knows
  <2> QED BY <1>1, <1>4, <2>1, <2>2, FailsInv
<1> QED BY <1>5, <1>6

LEMMA ClearMarkerInv == ASSUME Inv, ClearMarker PROVE Inv'
<1>1. /\ UNCHANGED <<target, journal, latest, status, attempt, other, refresh, faults, forgotten>>
      /\ marker' = FALSE
  BY DEF ClearMarker
<1>2. TypeOK' BY ZenonT(60), <1>1 DEF Inv, TypeOK, target
<1>3. OneJournal' /\ AttemptAlone' /\ OtherAlone' /\ PreviewsClean' /\ JournalsTrue'
  BY <1>1 DEF Inv, target, OneJournal, AttemptAlone, OtherAlone, PreviewsClean, JournalsTrue,
              Journals, Started, Op
<1>4. Agrees' /\ AttemptTrue' /\ Positions' /\ Recorded' /\ Restorable' /\ IsolatedDataHasJournal'
  BY <1>1 DEF Inv, target, Agrees, AttemptTrue, Positions, Recorded, Restorable,
              IsolatedDataHasJournal, Journals, Started, Op
<1> QED BY <1>2, <1>3, <1>4 DEF Inv

\* Journals go only when nothing is left aside.
LEMMA ClearJournalsInv == ASSUME Inv, ClearJournals PROVE Inv'
<1>1. At("clear") /\ attempt.op # None BY Running DEF ClearJournals, Pcs, Working
<1>n. TypeOK /\ Op \in Ops BY <1>1, Now
<1>2. /\ attempt' \in Attempts /\ attempt'.op = attempt.op /\ attempt'.pc = "converge"
      /\ attempt'.phase = attempt.phase /\ attempt'.mode = attempt.mode
      /\ attempt'.before = attempt.before /\ attempt'.untouched = attempt.untouched
      /\ (attempt'.op = None) = (attempt'.pc = "none")
  BY <1>1, <1>n, GoneTo DEF ClearJournals, Pcs, Working
<1>3. journal' = [o \in Ops |-> NoJournal] /\ latest' \in {latest, None}
  BY DEF ClearJournals, RemoveJournals
<1>4. Journals' = {} BY <1>3 DEF Journals
<1>5. UNCHANGED <<target, marker, status, other, refresh, faults, forgotten>> BY DEF ClearJournals
<1>6. TypeOK' BY <1>n, <1>2, <1>3, <1>5 DEF TypeOK, target, Attempts, Pcs
<1>7. attempt.phase = "old_data_cleaned" BY <1>1, Now DEF At, PositionOf
<1>8. \A o \in Ops : quarantine[o] = "none" BY <1>1, <1>7, Now DEF Knows
<1>9. OneJournal' /\ AttemptAlone' /\ PreviewsClean' /\ JournalsTrue' /\ Agrees'
  BY <1>1, <1>2, <1>4, <1>5 DEF Inv, OneJournal, AttemptAlone, PreviewsClean, JournalsTrue, Agrees
<1>10. AttemptTrue' /\ Recorded'
  BY <1>1, <1>2, <1>5, Now DEF AttemptTrue, Recorded, target, Op
<1>11. Positions' /\ Restorable'
  BY <1>1, <1>2, <1>7, Now
  DEF Positions, PositionOf, Restorable, RestorableOf, At, Preparing, Installed, Undoing, Completing
<1>12. IsolatedDataHasJournal' BY <1>5, <1>8 DEF IsolatedDataHasJournal, target
<1>13. OtherAlone' BY <1>1, <1>5, Now DEF OtherAlone
<1> QED BY <1>6, <1>9, <1>10, <1>11, <1>12, <1>13 DEF Inv

\* What an attempt leaves that is over.
LEMMA IdleInv ==
    ASSUME TypeOK', attempt' = Idle, OneJournal', PreviewsClean', JournalsTrue',
           IsolatedDataHasJournal', other' => Started' = {}
    PROVE  Inv'
<1>1. attempt'.op = None /\ attempt'.pc = "none" /\ attempt'.phase = "confirmation" BY DEF Idle
<1>2. AttemptAlone' /\ OtherAlone' /\ Agrees' /\ AttemptTrue' /\ Recorded' /\ Restorable'
  BY <1>1, ReinstallConstants
  DEF AttemptAlone, OtherAlone, Agrees, AttemptTrue, Recorded, Restorable, Op, Journals
<1>3. Positions'
  BY <1>1, PhaseClasses, Ranks DEF Positions, PositionOf, Installed, Undoing, Completing
<1> QED BY <1>2, <1>3 DEF Inv

LEMMA ConvergeInv == ASSUME Inv, Converge PROVE Inv'
<1>1. At("converge") /\ attempt.op # None BY Running DEF Converge, Pcs, Working
<1>n. TypeOK /\ Op \in Ops BY <1>1, Now
<1>2. attempt' = Idle /\ UNCHANGED <<target, desktop, other, refresh, faults, forgotten>>
  BY DEF Converge
<1>3. status' = [p \in Ops |-> IF p = Op THEN "succeeded"
                               ELSE IF Active(p) THEN status[p] ELSE "none"]
  BY DEF Converge, Supersede
<1>4. /\ status' \in [Ops -> {"none", "previewing", "needs_confirmation", "erase_recommended",
                              "running", "failed", "succeeded"}]
      /\ \A p \in Ops : status'[p] = "previewing" => status[p] = "previewing"
  BY <1>n, <1>3 DEF TypeOK
<1>5. Idle \in Attempts /\ Idle.op = None /\ Idle.pc = "none"
  BY Ranks DEF Idle, Attempts, Pcs, Modes, Files
<1>6. TypeOK' BY <1>n, <1>2, <1>4, <1>5 DEF TypeOK, target, desktop, Attempts, Pcs
<1>7. OneJournal' /\ PreviewsClean' /\ JournalsTrue' /\ IsolatedDataHasJournal'
  BY <1>2, <1>4 DEF Inv, OneJournal, PreviewsClean, JournalsTrue, IsolatedDataHasJournal, target,
                    desktop, Journals, Started
<1>8. ~other' BY <1>1, <1>2, Now
<1> QED BY <1>2, <1>6, <1>7, <1>8, IdleInv

LEMMA StopFreshInv == ASSUME Inv, StopFresh PROVE Inv'
<1>1. At("stop_fresh") /\ attempt.op # None BY Running DEF StopFresh, Pcs, Recovering
<1>2. PICK outcome \in Outcomes :
        /\ Spend(outcome)
        /\ running' = IF outcome = "failed" THEN running ELSE "none"
        /\ IF outcome = "ok" THEN Recovers("roll_back") ELSE Fails
  BY DEF StopFresh
<1>3. Quiet
  BY <1>1, <1>2, Now, Spent DEF Quiet, StopFresh, Fails, Recovers, TargetTypes
<1>4. CASE outcome = "ok"
  <2>1. /\ PositionOf("roll_back", attempt.phase, attempt.mode)
        /\ attempt.mode = "preserve_data" /\ attempt.untouched =>
             RestorableOf("roll_back", attempt.phase, attempt.before, live, rollback[Op])
    BY <1>1, Now DEF At, PositionOf, RestorableOf, Preparing, Installed, Undoing, Completing
  <2> QED BY <1>1, <1>2, <1>3, <1>4, <2>1, QuietRecovers DEF At, Pcs, Recovering
<1>5. CASE outcome # "ok" BY <1>1, <1>2, <1>3, <1>5, QuietFails
<1> QED BY <1>4, <1>5

LEMMA RollBackInv == ASSUME Inv, RollBack PROVE Inv'
<1>1. At("roll_back") /\ attempt.op # None BY Running DEF RollBack, Pcs, Recovering
<1>n. TypeOK /\ Op \in Ops /\ attempt.phase \in Phases /\ Op \in Started \cup forgotten
  BY <1>1, Now DEF At
<1>v. ~Verified(attempt.phase) /\ CameToInstall(attempt.phase) /\ attempt.phase # "old_data_cleaned"
  BY <1>1, Now, PhaseClasses DEF At, PositionOf, Undoing, Completing
<1>2. PICK outcome \in Outcomes :
        /\ Spend(outcome)
        /\ IF outcome = "failed" \/ rollback[Op] \in {"none", "committed"}
           THEN UNCHANGED <<live, running, rollback>>
           ELSE /\ \/ live' = Restored /\ rollback' = [rollback EXCEPT ![Op] = "none"]
                   \/ /\ outcome = "lost"
                      /\ \/ live' = "none" /\ HoldsFiles /\ UNCHANGED rollback
                         \/ live' = Restored /\ rollback' = [rollback EXCEPT ![Op] = "empty"]
                /\ IF HoldsFiles THEN Uproot ELSE UNCHANGED running
        /\ IF outcome = "ok" /\ rollback[Op] # "committed" THEN Recovers("restart") ELSE Fails
  BY DEF RollBack
<1>3. /\ live' \in Files /\ running' \in {"none", "live", "stale"}
      /\ rollback' \in [Ops -> {"none", "settled", "fresh", "absent", "empty", "committed"}]
  <2>1. Restored \in Files BY <1>n DEF TypeOK, Restored, HoldsFiles, Files
  <2>2. live' \in Files BY <1>n, <1>2, <2>1 DEF TypeOK, Files
  <2>3. running' \in {"none", "live", "stale"} BY <1>n, <1>2, RootedUp DEF TypeOK
  <2>4. rollback' \in [Ops -> {"none", "settled", "fresh", "absent", "empty", "committed"}]
    BY <1>n, <1>2 DEF TypeOK
  <2> QED BY <2>2, <2>3, <2>4
<1>4. TargetStep
  BY <1>1, <1>2, <1>3, Now, Spent DEF TargetStep, TargetTypes, RollBack, Fails, Recovers
<1>5. Knows(Op, attempt.phase, attempt.mode, attempt.before, live', quarantine', rollback')
  BY <1>1, <1>v, Now DEF Knows, RollBack
<1>6. CASE outcome = "ok" /\ rollback[Op] # "committed"
  <2>1. live' = IF rollback[Op] = "none" THEN live ELSE Restored BY <1>2, <1>6
  <2>2. /\ PositionOf("restart", attempt.phase, attempt.mode)
        /\ attempt.mode = "preserve_data" /\ attempt.untouched =>
             RestorableOf("restart", attempt.phase, attempt.before, live', rollback'[Op])
    BY <1>1, <1>n, <2>1, Now
    DEF At, TypeOK, PositionOf, RestorableOf, Restored, HoldsFiles, Preparing, Installed, Undoing,
        Completing
  <2> QED BY <1>1, <1>2, <1>n, <1>4, <1>5, <1>6, <2>2, MovesInv DEF Recovers, Pcs, Recovering
<1>7. CASE ~(outcome = "ok" /\ rollback[Op] # "committed")
  BY <1>1, <1>2, <1>4, <1>5, <1>7, FailsInv
<1> QED BY <1>6, <1>7

LEMMA RestartInv == ASSUME Inv, RestartRestored PROVE Inv'
<1>1. At("restart") /\ attempt.op # None BY Running DEF RestartRestored, Pcs, Recovering
<1>2. PICK outcome \in Outcomes :
        /\ Spend(outcome)
        /\ IF outcome = "failed" \/ live = "none" THEN UNCHANGED running ELSE StartedProcess
  BY DEF RestartRestored
<1>3. Quiet /\ Recovers("finish_rollback")
  BY <1>1, <1>2, Now, Spent, StartedUp
  DEF Quiet, RestartRestored, Recovers, desktop, TargetTypes
<1>4. /\ PositionOf("finish_rollback", attempt.phase, attempt.mode)
      /\ attempt.mode = "preserve_data" /\ attempt.untouched =>
           RestorableOf("finish_rollback", attempt.phase, attempt.before, live, rollback[Op])
  BY <1>1, Now DEF At, PositionOf, RestorableOf, Preparing, Installed, Undoing, Completing
<1> QED BY <1>1, <1>3, <1>4, QuietRecovers DEF At, Pcs, Recovering

LEMMA DiscardInv == ASSUME Inv, DiscardStaging PROVE Inv'
<1>1. At("discard_staging") /\ attempt.op # None BY Running DEF DiscardStaging, Pcs, Recovering
<1>2. PICK outcome \in Outcomes : Spend(outcome) /\ CleanedUp(outcome) BY DEF DiscardStaging
<1>3. Fails /\ UNCHANGED <<data, live, running, quarantine, other, refresh, forgotten>>
  BY DEF DiscardStaging
<1>4. /\ TargetStep
      /\ Knows(Op, attempt.phase, attempt.mode, attempt.before, live', quarantine', rollback')
  BY <1>1, <1>2, <1>3, Now, Spent, CleanupKnows DEF TargetStep, TargetTypes, Fails
<1> QED BY <1>1, <1>3, <1>4, FailsInv

\* The operation that was undone isolated nothing.
LEMMA FinishRollbackInv == ASSUME Inv, FinishRollback PROVE Inv'
<1>1. At("finish_rollback") /\ attempt.op # None BY Running DEF FinishRollback, Pcs, Recovering
<1>n. TypeOK /\ Op \in Ops BY <1>1, Now
<1>2. PICK outcome \in Outcomes : Spend(outcome) /\ CleanedUp(outcome) BY DEF FinishRollback
<1>3. /\ UNCHANGED <<data, live, running, quarantine, other, refresh, forgotten>>
      /\ marker' = FALSE /\ RemoveJournals({Op}) /\ Ends("erase_recommended")
  BY DEF FinishRollback
<1>4. quarantine[Op] = "none"
  BY <1>1, Now DEF At, PositionOf, Undoing, Knows
<1>5. \A p \in Ops : journal'[p] = NoJournal
  BY <1>1, <1>n, <1>3 DEF Inv, AttemptAlone, RemoveJournals, Journals
<1>6. Journals' = {} BY <1>5 DEF Journals
<1>7. /\ attempt' \in Attempts /\ attempt'.op = None /\ attempt'.pc = "none" /\ attempt' = Idle
      /\ status' \in [Ops -> {"none", "previewing", "needs_confirmation", "erase_recommended",
                              "running", "failed", "succeeded"}]
      /\ \A p \in Ops : status'[p] = "previewing" => status[p] = "previewing"
  BY <1>n, <1>3, Ended
<1>8. journal' \in [Ops -> JournalEntries \cup {NoJournal}] /\ latest' \in Ops \cup {None}
  BY <1>n, <1>3 DEF RemoveJournals, TypeOK, JournalEntries
<1>9. TypeOK'
  BY <1>1, <1>n, <1>2, <1>3, <1>7, <1>8, Spent, CleanupKnows
  DEF TypeOK, Attempts, Pcs, JournalEntries
<1>10. OneJournal' /\ PreviewsClean' /\ JournalsTrue'
  BY <1>1, <1>6, <1>7 DEF Inv, AttemptAlone, OneJournal, PreviewsClean, JournalsTrue
<1>11. IsolatedDataHasJournal'
  <2> SUFFICES ASSUME NEW o \in Ops, quarantine[o] # "none" PROVE o \in forgotten
    BY <1>3 DEF IsolatedDataHasJournal
  <2>1. o # Op /\ o \in Started \cup forgotten BY <1>1, <1>4, Now
  <2> QED BY <1>1, <2>1 DEF Inv, AttemptAlone, Started
<1>12. ~other' BY <1>1, <1>3, Now
<1> QED BY <1>7, <1>9, <1>10, <1>11, <1>12, IdleInv

LEMMA TimeoutInv == ASSUME Inv, Timeout PROVE Inv'
<1>t. TypeOK BY DEF Inv
<1>1. /\ attempt' = [attempt EXCEPT !.aborted = TRUE] /\ faults > 0 /\ faults' = faults - 1
      /\ UNCHANGED <<target, desktop, status, other, refresh, forgotten>>
  BY DEF Timeout
<1>2. /\ attempt' \in Attempts /\ attempt'.op = attempt.op /\ attempt'.pc = attempt.pc
      /\ attempt'.phase = attempt.phase /\ attempt'.mode = attempt.mode
      /\ attempt'.before = attempt.before /\ attempt'.untouched = attempt.untouched
  BY <1>t, <1>1 DEF TypeOK, Attempts, Pcs
<1>3. faults' \in 0..MaxFaults BY <1>t, <1>1, ReinstallConstants DEF TypeOK
<1>4. TypeOK' BY <1>t, <1>1, <1>2, <1>3 DEF TypeOK, target, desktop, Attempts, Pcs
<1> QED
  BY <1>1, <1>2, <1>4
  DEF Inv, target, desktop, OneJournal, AttemptAlone, OtherAlone, PreviewsClean, JournalsTrue,
      Agrees, AttemptTrue, Positions, Recorded, Restorable, IsolatedDataHasJournal, Journals, Started, Op

LEMMA AttemptStepInv == ASSUME Inv, AttemptStep PROVE Inv'
BY MarkInv, OpenInv, ResolveInv, StageInv, SessionInv, StopInv, KeepInv, IsolateInv, InstallInv,
   StartInv, IdentityInv, CatalogInv, ResumeInv, FinalizeInv, CleanInv, ClearMarkerInv,
   ClearJournalsInv, ConvergeInv, StopFreshInv, RollBackInv, RestartInv, FinishRollbackInv,
   DiscardInv
DEF AttemptStep

----------------------------------------------------------------------------
(* User, launcher and surroundings. *)

StatusTypes ==
    status \in [Ops -> {"none", "previewing", "needs_confirmation", "erase_recommended",
                        "running", "failed", "succeeded"}]

\* Steps of the launcher that begin no preview and leave the rest alone.
LEMMA LauncherInv ==
    ASSUME Inv, StatusTypes',
           \A p \in Ops : status'[p] = "previewing" => status[p] = "previewing",
           UNCHANGED <<target, desktop, attempt, other, refresh, faults, forgotten>>
    PROVE  Inv'
<1>1. TypeOK' BY DEF Inv, TypeOK, StatusTypes, target, desktop
<1>2. OneJournal' /\ AttemptAlone' /\ OtherAlone' /\ PreviewsClean' /\ JournalsTrue'
  BY DEF Inv, target, desktop, OneJournal, AttemptAlone, OtherAlone, PreviewsClean, JournalsTrue,
         Journals, Started, Op
<1>3. Agrees' /\ AttemptTrue' /\ Positions' /\ Recorded' /\ Restorable' /\ IsolatedDataHasJournal'
  BY DEF Inv, target, desktop, Agrees, AttemptTrue, Positions, Recorded, Restorable,
         IsolatedDataHasJournal, Journals, Started, Op
<1> QED BY <1>1, <1>2, <1>3 DEF Inv

LEMMA LauncherSteps ==
    ASSUME Inv, NEW o \in Ops,
           PreviewStarted(o) \/ ReinstallConflict(o) \/ ReinstallExpired(o) \/ Dismiss(o)
    PROVE  Inv'
<1>1. UNCHANGED <<target, desktop, attempt, other, refresh, faults, forgotten>>
  BY DEF PreviewStarted, ReinstallConflict, ReinstallExpired, Dismiss
<1>2. StatusTypes' /\ \A p \in Ops : status'[p] = "previewing" => status[p] = "previewing"
  <2>1. CASE PreviewStarted(o)
    BY <2>1 DEF PreviewStarted, Supersede, Inv, TypeOK, StatusTypes
  <2>2. CASE \E final \in {"none", "needs_confirmation"} : status' = [status EXCEPT ![o] = final]
    BY <2>2 DEF Inv, TypeOK, StatusTypes
  <2> QED BY <2>1, <2>2 DEF ReinstallConflict, ReinstallExpired, Dismiss
<1> QED BY <1>1, <1>2, LauncherInv

LEMMA PreviewNewInv == ASSUME Inv, ~ConcurrentPreview, NEW o \in Ops, PreviewNew(o) PROVE Inv'
<1>t. TypeOK BY DEF Inv
<1>1. /\ UNCHANGED <<target, desktop, attempt, other, refresh, faults>>
      /\ status' = [status EXCEPT ![o] = "previewing"] /\ forgotten' = forgotten \ {o}
      /\ attempt = Idle /\ quarantine[o] = "none" /\ rollback[o] = "none"
      /\ Current \cap Started = {}
  BY DEF PreviewNew, Unused
<1>2. Started = {} BY <1>1 DEF Inv, OneJournal, Current, Started, Journals
<1>3. TypeOK' BY <1>t, <1>1 DEF TypeOK, target, desktop
<1>4. OneJournal' /\ JournalsTrue'
  BY <1>1 DEF Inv, OneJournal, JournalsTrue, Journals, target, desktop
<1>5. Started' = {} BY <1>1, <1>2 DEF Started, Journals, desktop
<1>6. PreviewsClean' BY <1>t, <1>1, <1>5 DEF Inv, PreviewsClean, TypeOK, target
<1>7. IsolatedDataHasJournal' BY <1>1, <1>2 DEF Inv, IsolatedDataHasJournal, target
<1>8. attempt' = Idle BY <1>1
<1> QED BY <1>3, <1>4, <1>5, <1>6, <1>7, <1>8, IdleInv

LEMMA PreviewWrittenInv ==
    ASSUME Inv, NEW o \in Ops, NEW mode \in Modes, PreviewWritten(o, mode)
    PROVE  Inv'
<1>t. TypeOK BY DEF Inv
<1> DEFINE new == [phase |-> "confirmation", mode |-> mode, before |-> "none"]
<1>1. /\ UNCHANGED <<target, marker, attempt, other, refresh, faults, forgotten>>
      /\ status[o] = "previewing" /\ latest' = o
      /\ Supersede(o, "needs_confirmation")
      /\ journal' = [p \in Ops |-> IF p = o THEN new ELSE IF p \in Started THEN journal[p] ELSE NoJournal]
  BY DEF PreviewWritten
<1>2. quarantine[o] = "none" /\ rollback[o] = "none" /\ Started = {} /\ attempt.op = None
  BY <1>1 DEF Inv, PreviewsClean, AttemptAlone
<1>3. /\ StatusTypes'
      /\ \A p \in Ops : status'[p] = "previewing" => status[p] = "previewing"
  BY <1>t, <1>1 DEF Supersede, TypeOK, StatusTypes
<1>n. /\ new \in JournalEntries /\ new # NoJournal
      /\ new.phase = "confirmation" /\ new.mode = mode
  BY Ranks, NoJournalType DEF JournalEntries, Files
<1> HIDE DEF new
<1>4. /\ journal' \in [Ops -> JournalEntries \cup {NoJournal}]
      /\ journal'[o] = new /\ \A p \in Ops \ {o} : journal'[p] = NoJournal
  BY <1>t, <1>1, <1>2, <1>n
<1>5. Journals' = {o} /\ Started' = {} BY <1>4, <1>n DEF Journals, Started
<1>6. TypeOK' BY <1>t, <1>1, <1>3, <1>4 DEF TypeOK, StatusTypes, JournalEntries, target
<1>7. OneJournal' /\ AttemptAlone' /\ OtherAlone'
  BY <1>1, <1>2, <1>5 DEF OneJournal, AttemptAlone, OtherAlone
<1>8. PreviewsClean' BY <1>1, <1>3, <1>5 DEF Inv, PreviewsClean, target
<1>9. JournalsTrue'
  <2>1. ~Verified("confirmation") BY Ranks, PhaseClasses
  <2> QED BY <1>1, <1>2, <1>4, <1>5, <1>n, <2>1 DEF JournalsTrue, Knows, target
<1>10. Agrees' BY <1>1, <1>2, <1>5, ReinstallConstants DEF Agrees, Op
<1>11. AttemptTrue' /\ Positions' /\ Recorded' /\ Restorable'
  BY <1>1, <1>2, <1>t DEF Inv, TypeOK, AttemptTrue, Positions, Recorded, Restorable
<1>12. IsolatedDataHasJournal' BY <1>1, <1>2 DEF Inv, IsolatedDataHasJournal, target
<1> QED BY <1>6, <1>7, <1>8, <1>9, <1>10, <1>11, <1>12 DEF Inv

LEMMA ReinstallInv == ASSUME Inv, ~ConcurrentPreview, NEW o \in Ops, Reinstall(o) PROVE Inv'
<1>t. TypeOK BY DEF Inv
<1> DEFINE phase == journal[o].phase
           first == IF phase = "confirmation" THEN live ELSE journal[o].before
           start == CASE AtLeast(phase, "catalog_and_local_ui_verified") -> "resume"
                      [] phase = "confirmation" -> "mark"
                      [] OTHER -> "resolve"
<1>1. /\ UNCHANGED <<target, desktop, other, refresh, faults, forgotten>> /\ ~other
      /\ journal[o] # NoJournal /\ status' = [status EXCEPT ![o] = "running"]
      /\ \A p \in Ops : status[p] # "previewing"
      /\ attempt' = [op |-> o, phase |-> phase, mode |-> journal[o].mode, before |-> first,
                     untouched |-> ~CameToInstall(phase), aborted |-> FALSE, pc |-> start]
  BY DEF Reinstall, CameToInstall
<1>2. phase \in Phases /\ journal[o].mode \in Modes /\ first \in Files /\ start \in Pcs \ {"none"}
      /\ CameToInstall(phase) \in BOOLEAN
  <2>1. journal[o] \in JournalEntries BY <1>t, <1>1 DEF TypeOK, JournalEntries
  <2>2. live \in Files BY <1>t DEF TypeOK
  <2>3. start \in {"resume", "mark", "resolve"} OBVIOUS
  <2>4. start \in Pcs \ {"none"} BY <2>3 DEF Pcs, Working, Resuming
  <2> QED BY <2>1, <2>2, <2>4 DEF JournalEntries, CameToInstall, AtLeast
<1>p. /\ PositionOf(start, phase, journal[o].mode)
      /\ start = "mark" <=> phase = "confirmation"
      /\ start \in {"mark", "resolve", "resume"}
  <2>1. Verified(phase) <=> start = "resume"
    BY <1>2, PhaseClasses DEF Verified
  <2>2. start = "mark" <=> phase = "confirmation"
    BY <1>2, PhaseClasses DEF Verified
  <2>3. start \in {"mark", "resolve", "resume"} OBVIOUS
  <2> HIDE DEF start
  <2> QED BY <2>1, <2>2, <2>3 DEF PositionOf, Installed, Undoing, Completing
<1>k. Knows(o, phase, journal[o].mode, first, live, quarantine, rollback)
  BY <1>1 DEF Inv, JournalsTrue, Journals
<1>f. phase # "confirmation" => first = journal[o].before OBVIOUS
<1> HIDE DEF first, start
<1>3. /\ attempt' \in Attempts /\ attempt'.op = o /\ attempt'.phase = phase
      /\ attempt'.mode = journal[o].mode /\ attempt'.before = first /\ attempt'.pc = start
      /\ attempt'.untouched = ~CameToInstall(phase)
  BY <1>1, <1>2 DEF Attempts
<1>4. TypeOK' BY <1>t, <1>1, <1>2, <1>3, ReinstallConstants DEF TypeOK, target, desktop, Attempts, Pcs
<1>5. OneJournal' /\ AttemptAlone' /\ OtherAlone' /\ PreviewsClean'
  BY <1>t, <1>1, <1>3
  DEF Inv, OneJournal, AttemptAlone, OtherAlone, PreviewsClean, Journals, desktop, TypeOK, Op
<1>6. JournalsTrue' BY <1>1 DEF Inv, JournalsTrue, Journals, target, desktop
<1>7. Agrees' /\ AttemptTrue' BY <1>1, <1>3, <1>k, <1>f DEF Agrees, AttemptTrue, Op, target, desktop
<1>8. Positions' BY <1>3, <1>p DEF Positions
<1>9. Recorded' BY <1>1, <1>3, <1>p DEF Recorded, Op, Started, Journals, desktop
<1>10. Restorable'
  BY <1>1, <1>3, <1>p DEF Restorable, RestorableOf, Preparing, Installed
<1>11. IsolatedDataHasJournal'
  BY <1>1 DEF Inv, IsolatedDataHasJournal, Started, Journals, target, desktop
<1> QED BY <1>4, <1>5, <1>6, <1>7, <1>8, <1>9, <1>10, <1>11 DEF Inv

LEMMA RestartsInv == ASSUME Inv, DesktopRestarts PROVE Inv'
<1>t. TypeOK BY DEF Inv
<1>1. /\ faults > 0 /\ faults' = faults - 1 /\ attempt' = Idle
      /\ other' = FALSE /\ refresh' = "none" /\ status' = [o \in Ops |-> "none"]
      /\ journal' = [o \in Ops |-> IF o \in Journals \ Started THEN NoJournal ELSE journal[o]]
      /\ latest' \in {latest, None} /\ marker' \in {marker, marker \/ Started # {}}
      /\ UNCHANGED <<target, forgotten>>
  BY DEF DesktopRestarts, RemoveJournals
<1>2. Idle \in Attempts /\ Idle.op = None /\ Idle.pc = "none"
  BY Ranks DEF Idle, Attempts, Pcs, Modes, Files
<1>3. faults' \in 0..MaxFaults BY <1>t, <1>1, ReinstallConstants DEF TypeOK
<1>m. marker' \in BOOLEAN
  <2>1. marker \in BOOLEAN BY <1>t DEF TypeOK
  <2>2. marker' = marker \/ marker' = (marker \/ Started # {}) BY <1>1
  <2> QED BY <2>1, <2>2
<1>4. TypeOK' BY <1>t, <1>1, <1>2, <1>3, <1>m DEF TypeOK, target, Attempts, Pcs
<1>5. Started \subseteq Started' /\ \A p \in Journals' : p \in Journals /\ journal'[p] = journal[p]
  BY <1>1 DEF Started, Journals
<1>6. OneJournal' /\ PreviewsClean' /\ JournalsTrue' /\ IsolatedDataHasJournal'
  BY <1>1, <1>5 DEF Inv, OneJournal, PreviewsClean, JournalsTrue, IsolatedDataHasJournal, target
<1> QED BY <1>1, <1>4, <1>6, IdleInv

\* What goes on beside Desktop's operations.
LEMMA AsideInv ==
    ASSUME Inv, TypeOK',
           UNCHANGED <<live, rollback, quarantine, journal, status, attempt, forgotten>>,
           OtherAlone'
    PROVE  Inv'
<1>1. OneJournal' /\ AttemptAlone' /\ PreviewsClean' /\ JournalsTrue'
  BY DEF Inv, OneJournal, AttemptAlone, PreviewsClean, JournalsTrue, Journals, Started, Op
<1>2. Agrees' /\ AttemptTrue' /\ Positions' /\ Recorded' /\ Restorable' /\ IsolatedDataHasJournal'
  BY DEF Inv, Agrees, AttemptTrue, Positions, Recorded, Restorable, IsolatedDataHasJournal,
         Journals, Started, Op
<1> QED BY <1>1, <1>2 DEF Inv

LEMMA AsideSteps ==
    ASSUME Inv, RuntimeExits \/ OtherBegins \/ RefreshProbes \/ RefreshChecks
    PROVE  Inv'
<1>1. UNCHANGED <<live, rollback, quarantine, journal, status, attempt, forgotten>>
  BY DEF RuntimeExits, OtherBegins, RefreshProbes, RefreshChecks, target, desktop
<1>2. TypeOK'
  <2>1. CASE RuntimeExits
    BY <2>1, ReinstallConstants DEF Inv, TypeOK, RuntimeExits, desktop
  <2>2. CASE OtherBegins \/ RefreshProbes
    BY <2>2 DEF Inv, TypeOK, OtherBegins, RefreshProbes, target, desktop
  <2>3. CASE RefreshChecks
    BY ZenonT(60), <2>3 DEF Inv, TypeOK, RefreshChecks, target
  <2> QED BY <2>1, <2>2, <2>3
<1>3. OtherAlone'
  <2>1. CASE OtherBegins
    <3>1. attempt = Idle /\ Current \cap Started = {} BY <2>1 DEF OtherBegins, RecoveryRequired
    <3>2. Started = {} BY <3>1 DEF Inv, OneJournal, Current, Started, Journals
    <3> QED BY <1>1, <3>1, <3>2 DEF OtherAlone, Idle, Started, Journals
  <2>2. CASE UNCHANGED other BY <1>1, <2>2 DEF Inv, OtherAlone, Started, Journals
  <2> QED BY <2>1, <2>2 DEF RuntimeExits, RefreshProbes, RefreshChecks
<1> QED BY <1>1, <1>2, <1>3, AsideInv

\* Another operation may have installed files: only confirmations are there,
\* which do not know the files yet.
LEMMA OtherEndsInv == ASSUME Inv, OtherEnds PROVE Inv'
<1>t. TypeOK BY DEF Inv
<1>1. /\ other /\ ~other' /\ live' \in {live, "settled"} /\ marker' \in BOOLEAN
      /\ other' \in BOOLEAN
      /\ running' \in {running, "none", "live"}
      /\ UNCHANGED <<data, rollback, quarantine, journal, latest, status, attempt, refresh, faults,
                     forgotten>>
  BY DEF OtherEnds
<1>2. attempt.op = None /\ Started = {} BY <1>1 DEF Inv, OtherAlone
<1>3. TypeOK'
  <2>1. live' \in Files /\ running' \in {"none", "live", "stale"} BY <1>t, <1>1 DEF TypeOK, Files
  <2> QED BY <1>t, <1>1, <2>1 DEF TypeOK
<1>4. OneJournal' /\ AttemptAlone' /\ OtherAlone' /\ PreviewsClean'
  BY <1>1 DEF Inv, OneJournal, AttemptAlone, OtherAlone, PreviewsClean, Journals, Started, Op
<1>5. JournalsTrue'
  <2> SUFFICES ASSUME NEW o \in Journals
               PROVE  Knows(o, journal[o].phase, journal[o].mode,
                            IF journal[o].phase = "confirmation" THEN live' ELSE journal[o].before,
                            live', quarantine, rollback)
    BY <1>1 DEF JournalsTrue, Journals
  <2>1. journal[o].phase = "confirmation" BY <1>2 DEF Started
  <2>2. ~Verified("confirmation") BY Ranks, PhaseClasses
  <2> QED BY <2>1, <2>2 DEF Inv, JournalsTrue, Knows
<1>6. Agrees' /\ AttemptTrue' /\ Positions' /\ Recorded' /\ Restorable'
  BY <1>1, <1>2 DEF Inv, Agrees, AttemptTrue, Positions, Recorded, Restorable, Journals, Started, Op
<1>7. IsolatedDataHasJournal' BY <1>1 DEF Inv, IsolatedDataHasJournal, Journals, Started
<1> QED BY <1>3, <1>4, <1>5, <1>6, <1>7 DEF Inv

LEMMA RetiresInv == ASSUME Inv, RefreshRetires PROVE Inv'
<1>t. TypeOK BY DEF Inv
<1>1. /\ refresh' = "none" /\ forgotten' = forgotten \cup Started
      /\ journal' = [o \in Ops |-> NoJournal] /\ latest' \in {latest, None}
      /\ UNCHANGED <<target, marker, status, attempt, other, faults>>
  BY DEF RefreshRetires, RemoveJournals
<1>2. TypeOK' BY <1>t, <1>1 DEF TypeOK, target, Started, Journals
<1>3. Journals' = {} /\ Started' = {} BY <1>1 DEF Journals, Started
<1>4. OneJournal' /\ AttemptAlone' /\ PreviewsClean' /\ JournalsTrue' /\ Agrees'
  BY <1>1, <1>3 DEF Inv, OneJournal, AttemptAlone, PreviewsClean, JournalsTrue, Agrees, target
<1>5. AttemptTrue' /\ Positions' /\ Recorded' /\ Restorable'
  BY <1>1 DEF Inv, AttemptTrue, Positions, Recorded, Restorable, Op, target
<1>6. IsolatedDataHasJournal' BY <1>1 DEF Inv, IsolatedDataHasJournal, target
<1>7. OtherAlone' BY <1>1, <1>3 DEF Inv, OtherAlone
<1> QED BY <1>2, <1>4, <1>5, <1>6, <1>7 DEF Inv

LEMMA InitInv == Init => Inv
<1> SUFFICES ASSUME Init PROVE Inv OBVIOUS
<1>1. Idle \in Attempts /\ Idle.op = None /\ Idle.pc = "none" /\ Idle.phase = "confirmation"
  BY Ranks DEF Idle, Attempts, Pcs, Modes, Files
<1>2. TypeOK
  <2>1. live \in Files /\ running \in {"none", "live", "stale"} BY DEF Init, Files
  <2>2. faults \in 0..MaxFaults /\ forgotten \subseteq Ops BY ReinstallConstants DEF Init
  <2>3. /\ journal \in [Ops -> JournalEntries \cup {NoJournal}]
        /\ rollback \in [Ops -> {"none", "settled", "fresh", "absent", "empty", "committed"}]
        /\ quarantine \in [Ops -> {"none", "old", "new"}] /\ StatusTypes
    BY DEF Init, StatusTypes
  <2>4. attempt \in Attempts /\ (attempt.op = None) = (attempt.pc = "none") BY <1>1 DEF Init
  <2> QED BY <2>1, <2>2, <2>3, <2>4
      DEF Init, TypeOK, JournalEntries, StatusTypes, Attempts, Pcs
<1>3. Journals = {} /\ Started = {} BY DEF Init, Journals, Started
<1>4. OneJournal /\ PreviewsClean /\ JournalsTrue /\ Agrees /\ IsolatedDataHasJournal
  BY <1>3 DEF Init, OneJournal, PreviewsClean, JournalsTrue, Agrees, IsolatedDataHasJournal
<1>5. AttemptAlone /\ OtherAlone /\ AttemptTrue /\ Recorded /\ Restorable
  BY <1>1 DEF Init, AttemptAlone, OtherAlone, AttemptTrue, Recorded, Restorable
<1>6. Positions
  BY <1>1, PhaseClasses, Ranks DEF Init, Positions, PositionOf, Installed, Undoing, Completing
<1> QED BY <1>2, <1>4, <1>5, <1>6 DEF Inv

LEMMA NextInv == ASSUME ~ConcurrentPreview PROVE Inv /\ [Next]_vars => Inv'
<1> SUFFICES ASSUME Inv, [Next]_vars PROVE Inv' OBVIOUS
<1>1. CASE UNCHANGED vars
  <2>1. TypeOK' BY <1>1 DEF Inv, TypeOK, vars, target, desktop
  <2>2. OtherAlone' BY <1>1 DEF Inv, OtherAlone, Started, Journals, vars, desktop
  <2> QED BY <1>1, <2>1, <2>2, AsideInv DEF vars, target, desktop
<1>2. CASE \E o \in Ops : User(o)
  BY <1>2, LauncherSteps, PreviewNewInv, PreviewWrittenInv, ReinstallInv DEF User
<1>3. CASE AttemptStep BY <1>3, AttemptStepInv
<1>4. CASE Next /\ ~(\E o \in Ops : User(o)) /\ ~AttemptStep
  BY <1>4, TimeoutInv, RestartsInv, AsideSteps, OtherEndsInv, RetiresInv DEF Next
<1> QED BY <1>1, <1>2, <1>3, <1>4

LEMMA InvHolds == ASSUME ~ConcurrentPreview PROVE Spec => []Inv
<1>1. Init => Inv BY InitInv
<1>2. Inv /\ [Next]_vars => Inv' BY NextInv
<1> QED BY <1>1, <1>2, PTL DEF Spec

----------------------------------------------------------------------------
(* Theorems *)

\* The state of Desktop and of the target is well typed.
THEOREM ReinstallTypes == ASSUME ~ConcurrentPreview PROVE Spec => []TypeOK
BY InvHolds, PTL DEF Inv

\* A root that was moved aside belongs to an operation that can be continued, or
\* whose journal the health refresh retired.
THEOREM IsolatedDataKept == ASSUME ~ConcurrentPreview PROVE Spec => []IsolatedDataHasJournal
BY InvHolds, PTL DEF Inv

\* A journal that only needs completing is about verified files.
THEOREM CompletionSafe == ASSUME ~ConcurrentPreview PROVE Spec => []CompletionStands
<1>1. Inv => CompletionStands
  BY DEF Inv, JournalsTrue, Knows, Verified, CompletionStands
<1> QED BY <1>1, InvHolds, PTL

\* The first attempt to install that is undone puts back the files it found.
THEOREM FirstRollbackRestores == ASSUME ~ConcurrentPreview PROVE Spec => []FirstAttemptRestores
<1>1. Inv => FirstAttemptRestores
  <2> SUFFICES ASSUME Inv, attempt.pc \in {"restart", "finish_rollback"}, attempt.untouched
               PROVE  live = attempt.before
    BY DEF FirstAttemptRestores
  <2>1. attempt.op # None BY DEF Inv, TypeOK
  <2>2. attempt.mode = "preserve_data" BY <2>1, Now DEF PositionOf, Undoing
  <2> QED BY <2>1, <2>2, Now DEF RestorableOf
<1> QED BY <1>1, InvHolds, PTL

\* Whichever attempt of whichever operation erases: the last copy of the user's
\* data goes only after the fresh Runtime was verified, or from a root that
\* cannot be moved aside.
THEOREM OldDataErasedLast == ASSUME ~ConcurrentPreview PROVE Spec => OldDataErasedOnlyVerified
<1> DEFINE Erases ==
        HasOldData /\ ~HasOldData' => \/ At("clean") /\ live = "settled"
                                      \/ At("isolate") /\ Wipe /\ data = "old"
<1>1. Inv /\ [Next]_vars => [Erases]_vars
  <2> SUFFICES ASSUME Inv, Next, HasOldData, ~HasOldData'
               PROVE  \/ At("clean") /\ live = "settled"
                      \/ At("isolate") /\ Wipe /\ data = "old"
    OBVIOUS
  <2>1. CASE CleanQuarantines
    <3>1. At("clean") /\ attempt.op # None BY <2>1, Running DEF CleanQuarantines, Pcs, Working
    <3>2. live = "settled" BY <3>1, Now DEF At, PositionOf, Completing, Knows
    <3> QED BY <3>1, <3>2
  <2>2. CASE IsolateRoot
    <3>1. At("isolate") /\ Wipe BY <2>2 DEF IsolateRoot
    <3>2. UNCHANGED target \/ Isolated BY <2>2 DEF IsolateRoot
    <3>3. data = "old"
      <4> SUFFICES ASSUME data # "old" PROVE FALSE OBVIOUS
      <4>1. PICK o \in Ops : quarantine[o] = "old" BY DEF HasOldData
      <4>2. quarantine'[o] # "old" BY DEF HasOldData
      <4>3. quarantine \in [Ops -> {"none", "old", "new"}] BY DEF Inv, TypeOK
      <4> QED BY <3>2, <4>1, <4>2, <4>3 DEF Isolated, target
    <3> QED BY <3>1, <3>3
  <2>3. CASE Next /\ ~CleanQuarantines /\ ~IsolateRoot
    <3>1. UNCHANGED <<data, quarantine>>
      <4>1. CASE \E o \in Ops : User(o)
        BY <4>1 DEF User, PreviewStarted, PreviewNew, PreviewWritten, ReinstallConflict,
                    ReinstallExpired, Reinstall, Dismiss, target
      <4>2. CASE AttemptStep
        BY <2>3, <4>2
        DEF AttemptStep, MarkInProgress, OpenDirectChannel, ResolveTarget, StagePackage,
            OpenProcessSession, StopProcesses, LeaveProcesses, KeepRoot, InstallRuntime, StartRuntime,
            VerifyIdentity, VerifyCatalog, ResumeCompletion, FinalizeInstall, ClearMarker,
            ClearJournals, Converge, StopFresh, RollBack, RestartRestored, FinishRollback,
            DiscardStaging, target
      <4>3. CASE Next /\ ~(\E o \in Ops : User(o)) /\ ~AttemptStep
        BY <4>3 DEF Next, Timeout, DesktopRestarts, RuntimeExits, OtherBegins, OtherEnds,
                    RefreshProbes, RefreshChecks, RefreshRetires, target
      <4> QED BY <2>3, <4>1, <4>2, <4>3
    <3> QED BY <3>1 DEF HasOldData
  <2> QED BY <2>1, <2>2, <2>3
<1>2. Spec => []Inv BY InvHolds
<1> QED BY <1>1, <1>2, PTL DEF Spec, OldDataErasedOnlyVerified

\* A reinstall is reported as done only with verified files in place and nothing
\* left aside by any operation.
THEOREM SuccessVerified == ASSUME ~ConcurrentPreview PROVE Spec => SuccessIsVerified
<1> DEFINE Succeeds ==
        \A o \in Ops : status'[o] = "succeeded" /\ status[o] # "succeeded"
            => live = "settled" /\ \A p \in Ops : quarantine[p] = "none"
<1>1. Inv /\ [Next]_vars => [Succeeds]_vars
  <2> SUFFICES ASSUME Inv, Next, NEW o \in Ops, status'[o] = "succeeded", status[o] # "succeeded"
               PROVE  live = "settled" /\ \A p \in Ops : quarantine[p] = "none"
    OBVIOUS
  <2>t. status \in [Ops -> {"none", "previewing", "needs_confirmation", "erase_recommended",
                            "running", "failed", "succeeded"}]
    BY DEF Inv, TypeOK
  <2>1. CASE Converge
    <3>1. At("converge") /\ attempt.op # None BY <2>1, Running DEF Converge, Pcs, Working
    <3>2. attempt.phase = "old_data_cleaned" /\ Verified(attempt.phase)
      BY <3>1, Now DEF At, PositionOf, Completing
    <3> QED BY <3>1, <3>2, Now DEF Knows
  <2>2. CASE \E p \in Ops : User(p)
    <3>1. PICK p \in Ops : User(p) BY <2>2
    <3> QED
      BY <3>1, <2>t DEF User, PreviewStarted, PreviewNew, PreviewWritten, ReinstallConflict,
                  ReinstallExpired, Reinstall, Dismiss, Supersede
  <2>3. CASE AttemptStep /\ ~Converge
    <3>1. \/ UNCHANGED status
          \/ \E final \in {"failed", "erase_recommended"} : status' = [status EXCEPT ![Op] = final]
      BY <2>3
      DEF AttemptStep, MarkInProgress, OpenDirectChannel, ResolveTarget, StagePackage,
          OpenProcessSession, StopProcesses, LeaveProcesses, KeepRoot, IsolateRoot, InstallRuntime, StartRuntime,
          VerifyIdentity, VerifyCatalog, ResumeCompletion, FinalizeInstall, CleanQuarantines,
          ClearMarker, ClearJournals, StopFresh, RollBack, RestartRestored, FinishRollback,
          DiscardStaging, Fails, Ends, Recovers, InstallFailed
    <3> QED BY <3>1, <2>t
  <2>4. CASE Next /\ ~(\E p \in Ops : User(p)) /\ ~AttemptStep
    <3>1. UNCHANGED status \/ status' = [p \in Ops |-> "none"]
      BY <2>4 DEF Next, Timeout, DesktopRestarts, RuntimeExits, OtherBegins, OtherEnds,
                  RefreshProbes, RefreshChecks, RefreshRetires
    <3> QED BY <3>1, <2>t
  <2> QED BY <2>1, <2>2, <2>3, <2>4
<1>2. Spec => []Inv BY InvHolds
<1> QED BY <1>1, <1>2, PTL DEF Spec, SuccessIsVerified
=============================================================================
