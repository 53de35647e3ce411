---------------------------- MODULE ReinstallTarget ----------------------------
(***************************************************************************)
(* Desktop reinstalls the managed Runtime of one target.                   *)
(*                                                                         *)
(*   desktop/src/main/reinstallTargetCoordinator.ts   journal and sequence *)
(*   desktop/src/main/reinstallRuntimePackage.ts      target-side scripts  *)
(*   desktop/src/main/main.ts                         status, markers,     *)
(*                                                    health refresh       *)
(*   desktop/src/main/launcherOperations.ts, runtimeLifecycleCoordinator.ts*)
(*                                                                         *)
(* The target is one runtime root: its data, its managed files, the        *)
(* rollback and quarantine directories an operation leaves beside them and *)
(* the Runtime process.  Desktop keeps one journal file per operation, a   *)
(* "reinstall required" marker and the launcher's list of operations.      *)
(* Three activities interleave: one attempt of one operation (every await  *)
(* is a step), the preview of a new operation, and the health refresh.     *)
(*                                                                         *)
(* A command on the target succeeds, fails without effect, or takes effect *)
(* and loses its answer ("lost"); installing and cleaning up can also stop *)
(* half way.  A command is joined to the journal write that follows its    *)
(* success: a crash between the two is a lost answer and a crash.          *)
(*                                                                         *)
(* One environment, whose registration does not change, and no failing     *)
(* write of Desktop's own files; staging directories, which nothing reads  *)
(* back, are left out.  Managed files are told apart only by whether an    *)
(* operation has verified them.                                            *)
(***************************************************************************)
EXTENDS Naturals

CONSTANTS
    Ops,       \* operations: preflight, operation key and journal of the same life
    None,      \* no operation
    ConcurrentPreview, \* a preview may overlap the start of a confirmed attempt: it
                       \* looks for a started journal first and writes its own later
    MaxFaults  \* faults in a behaviour: failed commands, timeouts, crashes

ASSUME ReinstallConstants ==
    None \notin Ops /\ ConcurrentPreview \in BOOLEAN /\ MaxFaults \in Nat

Modes == {"wipe_data", "preserve_data"}

\* The durable phases in their order.
Rank == [confirmation |-> 0, direct_channel_open |-> 1, target_resolved |-> 2,
         package_batch_prepared_and_verified |-> 3, redeven_process_stop_attempted |-> 4,
         old_root_isolated_or_cleared |-> 5, runtime_installed |-> 6, runtime_started |-> 7,
         runtime_verified |-> 8, catalog_and_local_ui_verified |-> 9, old_data_cleaned |-> 10]

Phases == DOMAIN Rank
AtLeast(phase, minimum) == Rank[phase] >= Rank[minimum]

VARIABLES
    data,       \* what the runtime root holds: the user's "old" data or "new" data
    live,       \* managed files: "none", "settled" (in use before, or verified), "fresh"
    running,    \* Runtime process: "none", of the "live" files, or a "stale" one
    rollback,   \* rollback directory of an operation: "none", the files it keeps,
                \* "absent" (there were none), "empty" (it says neither), or
                \* "committed" (renamed, half deleted)
    quarantine, \* isolated root of an operation: "none" or the data in it
    journal,    \* journal of an operation: its phase and mode; "before" is history,
                \* the managed files when the operation was confirmed
    latest,     \* the journal written last
    marker,     \* the target is marked "reinstall required"
    status,     \* launcher operations
    attempt,    \* the attempt that runs; "untouched": no earlier one came to install
    other,      \* another lifecycle operation (start, open, stop) has the target
    refresh,    \* health refresh: "none", "probed" (saw the target online), "retiring"
    faults,     \* faults left
    forgotten   \* history: operations whose journal the health refresh retired

target == <<data, live, running, rollback, quarantine>>
desktop == <<journal, latest, marker>>
vars == <<target, desktop, status, attempt, other, refresh, faults, forgotten>>

Working == {"mark", "open", "resolve", "stage", "session", "stop", "skip_stop", "isolate",
            "install",
            "start", "verify", "catalog", "finalize", "clean", "clear", "converge"}
Resuming == {"resume", "resume_finalize"}
Recovering == {"stop_fresh", "roll_back", "restart", "finish_rollback", "discard_staging"}

NoJournal == [phase |-> "none", mode |-> "none", before |-> "none"]
Idle == [op |-> None, pc |-> "none", phase |-> "confirmation", mode |-> "wipe_data",
         before |-> "none", untouched |-> FALSE, aborted |-> FALSE]

Files == {"none", "settled", "fresh"}

TypeOK ==
    /\ data \in {"old", "new"}
    /\ live \in Files
    /\ running \in {"none", "live", "stale"}
    /\ rollback \in [Ops -> {"none", "settled", "fresh", "absent", "empty", "committed"}]
    /\ quarantine \in [Ops -> {"none", "old", "new"}]
    /\ journal \in [Ops -> [phase : Phases, mode : Modes, before : Files] \cup {NoJournal}]
    /\ latest \in Ops \cup {None}
    /\ marker \in BOOLEAN
    /\ status \in [Ops -> {"none", "previewing", "needs_confirmation", "erase_recommended",
                           "running", "failed", "succeeded"}]
    /\ attempt \in [op : Ops \cup {None}, pc : {"none"} \cup Working \cup Resuming \cup Recovering,
                    phase : Phases, mode : Modes, before : Files,
                    untouched : BOOLEAN, aborted : BOOLEAN]
    /\ (attempt.op = None) = (attempt.pc = "none")
    /\ other \in BOOLEAN
    /\ refresh \in {"none", "probed", "retiring"}
    /\ faults \in 0..MaxFaults
    /\ forgotten \subseteq Ops

Init ==
    /\ data = "old"
    /\ live \in {"none", "settled"}
    /\ running \in IF live = "none" THEN {"none"} ELSE {"none", "live", "stale"}
    /\ rollback = [o \in Ops |-> "none"]
    /\ quarantine = [o \in Ops |-> "none"]
    /\ journal = [o \in Ops |-> NoJournal]
    /\ latest = None
    /\ marker = FALSE
    /\ status = [o \in Ops |-> "none"]
    /\ attempt = Idle
    /\ other = FALSE
    /\ refresh = "none"
    /\ faults = MaxFaults
    /\ forgotten = {}

-----------------------------------------------------------------------------
(* Journals.                                                               *)

Journals == {o \in Ops : journal[o] # NoJournal}
Started == {o \in Journals : journal[o].phase # "confirmation"}

\* The journal of the target with the latest update: exact for two journals,
\* any of the others when the latest of three was removed.
Current == IF latest \in Journals THEN {latest} ELSE Journals

RemoveJournals(removed) ==
    /\ journal' = [o \in Ops |-> IF o \in removed THEN NoJournal ELSE journal[o]]
    /\ latest' = IF latest \in removed THEN None ELSE latest

RecoveryRequired == marker \/ \E o \in Current : o \in Started

-----------------------------------------------------------------------------
(* Launcher.                                                               *)

Active(o) == status[o] \in {"running", "previewing"}

\* Ends the operations of the environment that are not active, except o.
Supersede(o, final) ==
    status' = [p \in Ops |-> IF p = o THEN final ELSE IF Active(p) THEN status[p] ELSE "none"]

\* An operation identity nothing on the target or on disk refers to.
Unused(o) ==
    /\ status[o] = "none" /\ journal[o] = NoJournal /\ attempt.op # o
    /\ quarantine[o] = "none" /\ rollback[o] = "none"

\* The user asks for a reinstall.  An interrupted reinstall is offered again,
\* with the mode it was confirmed with; otherwise a new operation begins.
PreviewStarted(o) ==
    /\ o \in Current \cap Started
    /\ status[o] = "none"
    /\ Supersede(o, "failed")
    /\ UNCHANGED <<target, desktop, attempt, other, refresh, faults, forgotten>>

PreviewNew(o) ==
    /\ Current \cap Started = {}
    /\ Unused(o)
    /\ \A p \in Ops : status[p] # "previewing"
    /\ attempt = Idle \/ ConcurrentPreview
    /\ status' = [status EXCEPT ![o] = "previewing"]
    /\ forgotten' = forgotten \ {o}
    /\ UNCHANGED <<target, desktop, attempt, other, refresh, faults>>

\* The coordinator's preview: confirmation journals of the target are
\* superseded, the new one is written.
PreviewWritten(o, mode) ==
    /\ status[o] = "previewing"
    /\ journal' = [p \in Ops |->
          IF p = o THEN [phase |-> "confirmation", mode |-> mode, before |-> "none"]
          ELSE IF p \in Started THEN journal[p] ELSE NoJournal]
    /\ latest' = o
    /\ Supersede(o, "needs_confirmation")
    /\ UNCHANGED <<target, marker, attempt, other, refresh, faults, forgotten>>

Offered(o) == status[o] \in {"needs_confirmation", "erase_recommended", "failed"}

\* The user confirms or continues o while another operation has the target.
ReinstallConflict(o) ==
    /\ Offered(o)
    /\ attempt # Idle \/ other
    /\ status' = [status EXCEPT ![o] = "none"]
    /\ UNCHANGED <<target, desktop, attempt, other, refresh, faults, forgotten>>

\* ... when its journal is gone: the target must be reviewed again.
ReinstallExpired(o) ==
    /\ Offered(o)
    /\ attempt = Idle /\ ~other
    /\ journal[o] = NoJournal
    /\ status' = [status EXCEPT ![o] = "needs_confirmation"]
    /\ UNCHANGED <<target, desktop, attempt, other, refresh, faults, forgotten>>

MutReinstall(o) ==
    /\ Offered(o)
    /\ attempt = Idle /\ ~other
    /\ journal[o] # NoJournal
    /\ ConcurrentPreview \/ \A p \in Ops : status[p] # "previewing"
    /\ status' = [status EXCEPT ![o] = "running"]
    /\ LET phase == journal[o].phase IN
       attempt' = [op |-> o, phase |-> phase, mode |-> journal[o].mode,
                   before |-> IF phase = "confirmation" THEN live ELSE journal[o].before,
                   untouched |-> ~AtLeast(phase, "old_root_isolated_or_cleared"),
                   aborted |-> FALSE,
                   pc |-> IF phase = "confirmation" THEN "mark"
                          ELSE IF phase = "old_data_cleaned" THEN "resume" ELSE "resolve"]
    /\ UNCHANGED <<target, desktop, other, refresh, faults, forgotten>>

\* ... and the attempt starts where the journal says.
Reinstall(o) ==
    /\ Offered(o)
    /\ attempt = Idle /\ ~other
    /\ journal[o] # NoJournal
    /\ ConcurrentPreview \/ \A p \in Ops : status[p] # "previewing"
    /\ status' = [status EXCEPT ![o] = "running"]
    /\ LET phase == journal[o].phase IN
       attempt' = [op |-> o, phase |-> phase, mode |-> journal[o].mode,
                   before |-> IF phase = "confirmation" THEN live ELSE journal[o].before,
                   untouched |-> ~AtLeast(phase, "old_root_isolated_or_cleared"),
                   aborted |-> FALSE,
                   pc |-> CASE AtLeast(phase, "catalog_and_local_ui_verified") -> "resume"
                            [] phase = "confirmation" -> "mark"
                            [] OTHER -> "resolve"]
    /\ UNCHANGED <<target, desktop, other, refresh, faults, forgotten>>

\* The user dismisses an operation, or the removal timer of a finished one fires.
Dismiss(o) ==
    /\ Offered(o) \/ status[o] = "succeeded"
    /\ status' = [status EXCEPT ![o] = "none"]
    /\ UNCHANGED <<target, desktop, attempt, other, refresh, faults, forgotten>>

-----------------------------------------------------------------------------
(* One attempt.                                                            *)

At(pc) == attempt.pc = pc
Op == attempt.op
Wipe == attempt.mode = "wipe_data"
Goto(pc) == attempt' = [attempt EXCEPT !.pc = pc]

\* What a command on the target can do; none succeeds after the timeout.
Outcomes == IF attempt.aborted THEN {"failed"}
            ELSE {"ok"} \cup IF faults > 0 THEN {"failed", "lost"} ELSE {}
Spend(outcome) == faults' = IF outcome = "ok" \/ attempt.aborted THEN faults ELSE faults - 1

Write(phase) ==
    /\ journal' = [journal EXCEPT ![Op] =
                     [phase |-> phase, mode |-> attempt.mode, before |-> attempt.before]]
    /\ latest' = Op

\* Advances the attempt to pc; the journal follows unless it is already there.
Persist(phase, pc) ==
    IF AtLeast(attempt.phase, phase)
    THEN Goto(pc) /\ UNCHANGED <<journal, latest>>
    ELSE /\ attempt' = [attempt EXCEPT !.phase = phase, !.pc = pc]
         /\ Write(phase)

Ends(final) ==
    /\ attempt' = Idle
    /\ status' = [status EXCEPT ![Op] = final]

\* The operation stays offered with its journal.
Fails == Ends("failed") /\ UNCHANGED <<journal, latest, marker>>

\* A failure once the package is staged: a preserve-data attempt that came to
\* install is undone, otherwise only the staged package is discarded.
Recovers(pc) == Goto(pc) /\ UNCHANGED <<journal, latest, marker, status>>

\* Replacing the managed files under a process makes it stale.
Uproot == running' = IF running = "none" THEN "none" ELSE "stale"

\* The cleanup script: the rollback directory is renamed, then deleted.
CleanedUp(outcome) ==
    rollback' \in {[rollback EXCEPT ![Op] = r] :
                     r \in CASE outcome = "failed" -> {rollback[Op]}
                             [] outcome = "ok" -> {"none"}
                             [] OTHER -> {"none", IF rollback[Op] = "none" THEN "none" ELSE "committed"}}

MarkInProgress ==
    /\ At("mark")
    /\ marker' = TRUE
    /\ Goto("open")
    /\ UNCHANGED <<target, journal, latest, status, other, refresh, faults, forgotten>>

OpenDirectChannel ==
    /\ At("open")
    /\ Write("direct_channel_open")
    /\ attempt' = [attempt EXCEPT !.phase = "direct_channel_open", !.pc = "resolve"]
    /\ UNCHANGED <<target, marker, status, other, refresh, faults, forgotten>>

\* The journal is written again even when it does not advance.
ResolveTarget ==
    /\ At("resolve")
    /\ \E outcome \in Outcomes :
        /\ Spend(outcome)
        /\ IF outcome = "ok"
           THEN LET phase == IF AtLeast(attempt.phase, "target_resolved") THEN attempt.phase
                             ELSE "target_resolved"
                IN /\ Write(phase)
                   /\ attempt' = [attempt EXCEPT !.phase = phase, !.pc = "stage"]
                   /\ UNCHANGED <<marker, status>>
           ELSE Fails
    /\ UNCHANGED <<target, other, refresh, forgotten>>

\* Staging that fails runs the cleanup script of the operation, as far as it gets.
StagePackage ==
    /\ At("stage")
    /\ \E outcome \in Outcomes :
        /\ Spend(outcome)
        /\ IF outcome = "ok"
           THEN /\ Persist("package_batch_prepared_and_verified", "session")
                /\ UNCHANGED <<rollback, marker, status>>
           ELSE /\ \E cleanup \in {"ok", "failed", "lost"} : 
                      (attempt.aborted => cleanup = "failed") /\ CleanedUp(cleanup)
                /\ Fails
    /\ UNCHANGED <<data, live, running, quarantine, other, refresh, forgotten>>

\* A wipe goes on without a process session, a preserve-data attempt does not.
OpenProcessSession ==
    /\ At("session")
    /\ \E outcome \in Outcomes :
        /\ Spend(outcome)
        /\ Recovers(CASE outcome = "ok" -> "stop" [] Wipe -> "skip_stop" [] OTHER -> "discard_staging")
    /\ UNCHANGED <<target, other, refresh, forgotten>>

\* Stopping the old processes is best effort.
StopProcesses ==
    /\ At("stop")
    /\ \E outcome \in Outcomes :
        /\ Spend(outcome)
        /\ running' = IF outcome = "failed" THEN running ELSE "none"
    /\ Persist("redeven_process_stop_attempted", "isolate")
    /\ UNCHANGED <<data, live, rollback, quarantine, marker, status, other, refresh, forgotten>>

\* Without a process session nothing is inspected or stopped.
LeaveProcesses ==
    /\ At("skip_stop")
    /\ Persist("redeven_process_stop_attempted", "isolate")
    /\ UNCHANGED <<target, marker, status, other, refresh, faults, forgotten>>

\* A preserve-data attempt leaves the root where it is.
KeepRoot ==
    /\ At("isolate")
    /\ ~Wipe
    /\ Persist("old_root_isolated_or_cleared", "install")
    /\ UNCHANGED <<target, marker, status, other, refresh, faults, forgotten>>

MutIsolated ==
    /\ data' = "new" /\ live' = "none" /\ Uproot
    /\ rollback' = [o \in Ops |-> "none"]
    /\ quarantine' = [quarantine EXCEPT ![Op] = data]

\* The root is moved aside with all it holds; where this operation has moved
\* it before, or where it cannot be moved, it is deleted.
Isolated ==
    /\ data' = "new" /\ live' = "none" /\ Uproot
    /\ rollback' = [o \in Ops |-> "none"]
    /\ quarantine' \in {quarantine} \cup {[quarantine EXCEPT ![Op] = IF @ = "none" THEN data ELSE @]}

IsolateRoot ==
    /\ At("isolate")
    /\ Wipe
    /\ \E outcome \in Outcomes :
        /\ Spend(outcome)
        /\ IF outcome = "failed" THEN UNCHANGED target ELSE Isolated
        /\ IF outcome = "ok"
           THEN Persist("old_root_isolated_or_cleared", "install") /\ UNCHANGED <<marker, status>>
           ELSE Recovers("discard_staging")
    /\ UNCHANGED <<other, refresh, forgotten>>

\* Undoes a preserve-data attempt from install on.
InstallFailed == Recovers(IF Wipe THEN "discard_staging" ELSE "stop_fresh")

\* The managed files with what the rollback directory has put back.
HoldsFiles == rollback[Op] \in {"settled", "fresh", "absent"}
Restored == IF ~HoldsFiles THEN live ELSE IF rollback[Op] = "absent" THEN "none" ELSE rollback[Op]

MutKept == IF Wipe \/ HoldsFiles THEN rollback[Op] ELSE live

\* What the install script leaves of the rollback directory.  An earlier
\* attempt's is restored first, so it keeps what it kept.
Kept == IF Wipe THEN IF rollback[Op] = "committed" THEN "none" ELSE rollback[Op]
        ELSE IF Restored = "none" THEN "absent" ELSE Restored

\* Half way: the old files are aside and no new ones in place; or an earlier
\* attempt's rollback has been undone, a committed one deleted or a directory
\* made for the next.
InstallHalted ==
    \/ live' = "none" /\ rollback' = [rollback EXCEPT ![Op] = Kept] /\ Uproot
    \/ /\ ~Wipe
       /\ live' = Restored
       /\ rollback' \in {[rollback EXCEPT ![Op] = r] : r \in {"none", "empty"}}
       /\ IF HoldsFiles THEN Uproot ELSE UNCHANGED running

InstallRuntime ==
    /\ At("install")
    /\ \E outcome \in Outcomes :
        /\ Spend(outcome)
        /\ IF outcome = "failed" THEN UNCHANGED <<live, running, rollback>>
           ELSE \/ live' = "fresh" /\ rollback' = [rollback EXCEPT ![Op] = Kept] /\ Uproot
                \/ outcome = "lost" /\ InstallHalted
        /\ IF outcome = "ok"
           THEN Persist("runtime_installed", "start") /\ UNCHANGED <<marker, status>>
           ELSE InstallFailed
    /\ UNCHANGED <<data, quarantine, other, refresh, forgotten>>

\* One process that is already there is taken for the one to start.
StartedProcess == running' = IF running = "none" THEN "live" ELSE running

StartRuntime ==
    /\ At("start")
    /\ \E outcome \in Outcomes :
        /\ Spend(outcome)
        /\ IF outcome = "failed" THEN UNCHANGED running ELSE StartedProcess
        /\ IF outcome = "ok"
           THEN Persist("runtime_started", "verify") /\ UNCHANGED <<marker, status>>
           ELSE InstallFailed
    /\ UNCHANGED <<data, live, rollback, quarantine, other, refresh, forgotten>>

\* One process of the installed files, with this package's release and commit.
VerifyIdentity ==
    /\ At("verify")
    /\ \E outcome \in Outcomes :
        /\ Spend(outcome)
        /\ IF outcome = "ok" /\ running = "live"
           THEN Persist("runtime_verified", "catalog") /\ UNCHANGED <<marker, status>>
           ELSE InstallFailed
    /\ UNCHANGED <<target, other, refresh, forgotten>>

\* The fresh Runtime may be unable to open the data it was given.
VerifyCatalog ==
    /\ At("catalog")
    /\ \E outcome \in Outcomes :
        /\ Spend(outcome)
        /\ \/ /\ outcome = "ok" /\ running = "live"
              /\ live' = "settled"
              /\ Persist("catalog_and_local_ui_verified", "finalize")
              /\ UNCHANGED <<marker, status>>
           \/ /\ outcome # "ok" \/ running # "live" \/ data = "old"
              /\ InstallFailed
              /\ UNCHANGED live
    /\ UNCHANGED <<data, running, rollback, quarantine, other, refresh, forgotten>>

MutResumeCompletion ==
    /\ At("resume")
    /\ \E outcome \in Outcomes :
        /\ Spend(outcome)
        /\ IF outcome = "ok" /\ attempt.phase # "old_data_cleaned"
           THEN Recovers("resume_finalize")
           ELSE Fails
    /\ UNCHANGED <<target, other, refresh, forgotten>>

\* From here on a failure keeps the journal, and the attempt that continues
\* only completes: resumeCompletion.
ResumeCompletion ==
    /\ At("resume")
    /\ \E outcome \in Outcomes :
        /\ Spend(outcome)
        /\ IF outcome = "ok"
           THEN Recovers(IF attempt.phase = "old_data_cleaned" THEN "clear" ELSE "resume_finalize")
           ELSE Fails
    /\ UNCHANGED <<target, other, refresh, forgotten>>

FinalizeInstall ==
    /\ At("finalize") \/ At("resume_finalize")
    /\ \E outcome \in Outcomes :
        /\ Spend(outcome)
        /\ CleanedUp(outcome)
        /\ IF outcome = "ok"
           THEN /\ Goto("clean")
                /\ IF At("finalize") THEN Write(attempt.phase) ELSE UNCHANGED <<journal, latest>>
                /\ UNCHANGED <<marker, status>>
           ELSE Fails
    /\ UNCHANGED <<data, live, running, quarantine, other, refresh, forgotten>>

MutCleanOwn ==
    /\ At("clean")
    /\ \E outcome \in Outcomes :
        /\ Spend(outcome)
        /\ quarantine' = IF outcome = "failed" THEN quarantine ELSE [quarantine EXCEPT ![Op] = "none"]
        /\ IF outcome = "ok"
           THEN Persist("old_data_cleaned", "clear") /\ UNCHANGED <<marker, status>>
           ELSE Fails
    /\ UNCHANGED <<data, live, running, rollback, other, refresh, forgotten>>

MutCleanBestEffort ==
    /\ At("clean")
    /\ \E outcome \in Outcomes :
        /\ Spend(outcome)
        /\ quarantine' = IF outcome = "failed" THEN quarantine ELSE [o \in Ops |-> "none"]
    /\ Persist("old_data_cleaned", "clear")
    /\ UNCHANGED <<data, live, running, rollback, marker, status, other, refresh, forgotten>>

\* Every quarantine beside the root goes, whichever operation made it.
CleanQuarantines ==
    /\ At("clean")
    /\ \E outcome \in Outcomes :
        /\ Spend(outcome)
        /\ \E gone \in SUBSET Ops :
             /\ (outcome = "ok" => gone = Ops) /\ (outcome = "failed" => gone = {})
             /\ quarantine' = [o \in Ops |-> IF o \in gone THEN "none" ELSE quarantine[o]]
        /\ IF outcome = "ok"
           THEN Persist("old_data_cleaned", "clear") /\ UNCHANGED <<marker, status>>
           ELSE Fails
    /\ UNCHANGED <<data, live, running, rollback, other, refresh, forgotten>>

\* The marker goes before the journals of the target do.
ClearMarker ==
    /\ At("clear")
    /\ marker
    /\ marker' = FALSE
    /\ UNCHANGED <<target, journal, latest, status, attempt, other, refresh, faults, forgotten>>

ClearJournals ==
    /\ At("clear")
    /\ ~marker
    /\ RemoveJournals(Ops)
    /\ Goto("converge")
    /\ UNCHANGED <<target, marker, status, other, refresh, faults, forgotten>>

\* convergeLauncherStateAfterSuccessfulReinstall, then the operation succeeds.
Converge ==
    /\ At("converge")
    /\ attempt' = Idle
    /\ Supersede(Op, "succeeded")
    /\ UNCHANGED <<target, desktop, other, refresh, faults, forgotten>>

-----------------------------------------------------------------------------
(* Failure of an attempt.                                                  *)

StopFresh ==
    /\ At("stop_fresh")
    /\ \E outcome \in Outcomes :
        /\ Spend(outcome)
        /\ running' = IF outcome = "failed" THEN running ELSE "none"
        /\ IF outcome = "ok" THEN Recovers("roll_back") ELSE Fails
    /\ UNCHANGED <<data, live, rollback, quarantine, other, refresh, forgotten>>

\* The rollback script; without a rollback directory it has nothing to do.
RollBack ==
    /\ At("roll_back")
    /\ \E outcome \in Outcomes :
        /\ Spend(outcome)
        /\ IF outcome = "failed" \/ rollback[Op] \in {"none", "committed"}
           THEN UNCHANGED <<live, running, rollback>>
           ELSE /\ \/ live' = Restored /\ rollback' = [rollback EXCEPT ![Op] = "none"]
                   \/ /\ outcome = "lost"
                      /\ \/ live' = "none" /\ HoldsFiles /\ UNCHANGED rollback
                         \/ live' = Restored /\ rollback' = [rollback EXCEPT ![Op] = "empty"]
                /\ IF HoldsFiles THEN Uproot ELSE UNCHANGED running
        /\ IF outcome = "ok" /\ rollback[Op] # "committed" THEN Recovers("restart") ELSE Fails
    /\ UNCHANGED <<data, quarantine, other, refresh, forgotten>>

RestartRestored ==
    /\ At("restart")
    /\ \E outcome \in Outcomes :
        /\ Spend(outcome)
        /\ IF outcome = "failed" \/ live = "none" THEN UNCHANGED running ELSE StartedProcess
    /\ Goto("finish_rollback")
    /\ UNCHANGED <<data, live, rollback, quarantine, desktop, status, other, refresh, forgotten>>

\* "Desktop restored the previous managed files": the operation is over and
\* erasing the data is recommended.
FinishRollback ==
    /\ At("finish_rollback")
    /\ \E outcome \in Outcomes : Spend(outcome) /\ CleanedUp(outcome)
    /\ marker' = FALSE
    /\ RemoveJournals({Op})
    /\ Ends("erase_recommended")
    /\ UNCHANGED <<data, live, running, quarantine, other, refresh, forgotten>>

DiscardStaging ==
    /\ At("discard_staging")
    /\ \E outcome \in Outcomes : Spend(outcome) /\ CleanedUp(outcome)
    /\ Fails
    /\ UNCHANGED <<data, live, running, quarantine, other, refresh, forgotten>>

AttemptStep ==
    \/ MarkInProgress \/ OpenDirectChannel \/ ResolveTarget \/ StagePackage \/ OpenProcessSession
    \/ StopProcesses \/ LeaveProcesses \/ KeepRoot \/ IsolateRoot \/ InstallRuntime \/ StartRuntime
    \/ VerifyIdentity \/ VerifyCatalog \/ ResumeCompletion \/ FinalizeInstall
    \/ CleanQuarantines \/ ClearMarker \/ ClearJournals \/ Converge
    \/ StopFresh \/ RollBack \/ RestartRestored \/ FinishRollback \/ DiscardStaging

-----------------------------------------------------------------------------
(* Surroundings.                                                           *)

\* The lifecycle coordinator's timer: every later command of the attempt fails.
Timeout ==
    /\ attempt # Idle /\ ~attempt.aborted /\ faults > 0
    /\ attempt' = [attempt EXCEPT !.aborted = TRUE]
    /\ faults' = faults - 1
    /\ UNCHANGED <<target, desktop, status, other, refresh, forgotten>>

\* Desktop ends at any point and starts again; completeDesktopStartup discards
\* confirmations, and starting the local Runtime marks it when a reinstall is
\* in the way.
DesktopRestarts ==
    /\ faults > 0
    /\ faults' = faults - 1
    /\ attempt' = Idle
    /\ other' = FALSE
    /\ refresh' = "none"
    /\ status' = [o \in Ops |-> "none"]
    /\ RemoveJournals(Journals \ Started)
    /\ marker' \in {marker, marker \/ Started # {}}
    /\ UNCHANGED <<target, forgotten>>

\* The Runtime ends by itself; during an attempt this is a fault.
RuntimeExits ==
    /\ running # "none"
    /\ running' = "none"
    /\ IF attempt = Idle THEN UNCHANGED faults ELSE faults > 0 /\ faults' = faults - 1
    /\ UNCHANGED <<data, live, rollback, quarantine, desktop, status, attempt, other, refresh, forgotten>>

\* The user opens, starts, stops or updates the Runtime, which an interrupted
\* reinstall forbids.
OtherBegins ==
    /\ attempt = Idle /\ ~other /\ ~RecoveryRequired
    /\ other' = TRUE
    /\ UNCHANGED <<target, desktop, status, attempt, refresh, faults, forgotten>>

\* It may have installed the files of a verified package; it clears the marker,
\* or sets it when a Runtime would not start on the data.
OtherEnds ==
    /\ other
    /\ other' = FALSE
    /\ live' \in {live, "settled"}
    /\ running' \in {running, "none"} \cup IF live' # "none" THEN {"live"} ELSE {}
    /\ marker' \in BOOLEAN
    /\ UNCHANGED <<data, rollback, quarantine, journal, latest, status, attempt, refresh, faults, forgotten>>

\* refreshWelcomeRuntimeHealth: a target seen online while no reinstall is
\* active loses its marker, and then its journals.
RefreshProbes ==
    /\ refresh = "none" /\ running # "none"
    /\ refresh' = "probed"
    /\ UNCHANGED <<target, desktop, status, attempt, other, faults, forgotten>>

RefreshChecks ==
    /\ refresh = "probed"
    /\ IF \E o \in Ops : Active(o)
       THEN refresh' = "none" /\ UNCHANGED marker
       ELSE refresh' = "retiring" /\ marker' = FALSE
    /\ UNCHANGED <<target, journal, latest, status, attempt, other, faults, forgotten>>

RefreshRetires ==
    /\ refresh = "retiring"
    /\ refresh' = "none"
    /\ forgotten' = forgotten \cup Started
    /\ RemoveJournals(Ops)
    /\ UNCHANGED <<target, marker, status, attempt, other, faults>>

User(o) ==
    \/ PreviewStarted(o) \/ PreviewNew(o) \/ \E mode \in Modes : PreviewWritten(o, mode)
    \/ ReinstallConflict(o) \/ ReinstallExpired(o) \/ Reinstall(o) \/ Dismiss(o)

Next ==
    \/ \E o \in Ops : User(o)
    \/ AttemptStep
    \/ Timeout \/ DesktopRestarts \/ RuntimeExits \/ OtherBegins \/ OtherEnds
    \/ RefreshProbes \/ RefreshChecks \/ RefreshRetires

Spec == Init /\ [][Next]_vars

(* Fairness.  An attempt that runs goes on or fails: its commands have      *)
(* timeouts, and the lifecycle coordinator one for all of them.  The last   *)
(* two are the user, who asks for a reinstall when none is offered and      *)
(* continues the one that is again and again.                               *)
UserAsks == /\ ~ \E o \in Ops : Active(o) \/ Offered(o)
            /\ \E o \in Ops : PreviewStarted(o) \/ PreviewNew(o)
UserGoesOn == \E o \in Ops : Reinstall(o)

LiveSpec ==
    /\ Spec
    /\ WF_vars(AttemptStep)
    /\ WF_vars(\E o \in Ops, mode \in Modes : PreviewWritten(o, mode))
    /\ WF_vars(OtherEnds)
    /\ WF_vars(UserAsks)
    /\ SF_vars(UserGoesOn)

-----------------------------------------------------------------------------
(* What reinstalling promises.                                             *)

HasOldData == data = "old" \/ \E o \in Ops : quarantine[o] = "old"

\* However attempts fail, crash and are repeated, and whichever operation
\* erases: the last copy of the user's data goes only when the fresh Runtime
\* has been verified, or from the root itself, when a wipe cannot move it aside.
OldDataErasedOnlyVerified ==
    [][HasOldData /\ ~HasOldData' => \/ At("clean") /\ live = "settled"
                                     \/ At("isolate") /\ Wipe /\ data = "old"]_vars

\* A root that was moved aside belongs to an operation that can be continued,
\* over crashes and repeated attempts: only the health refresh, which has seen
\* a healthy Runtime, may drop the journal that points to it.
IsolatedDataHasJournal ==
    \A o \in Ops : quarantine[o] # "none" => o \in Started \cup forgotten

\* A journal from which an attempt would only complete, erasing the old data
\* without installing, is never about files no operation has verified.
CompletionStands ==
    \A o \in Journals : AtLeast(journal[o].phase, "catalog_and_local_ui_verified") => live = "settled"

\* The launcher reports a reinstall as done only with verified files in place
\* and nothing left aside, whichever attempt or operation moved it there.
SuccessIsVerified ==
    [][\A o \in Ops : status'[o] = "succeeded" /\ status[o] # "succeeded"
          => live = "settled" /\ \A p \in Ops : quarantine[p] = "none"]_vars

\* A preserve-data attempt that undoes its installation puts back the managed
\* files the user had when confirming, if no earlier attempt came to install.
FirstAttemptRestores ==
    attempt.pc \in {"restart", "finish_rollback"} /\ attempt.untouched => live = attempt.before

\* A reinstall that began does not stay behind for ever: with a user who
\* continues it, it is completed, rolled back or found unnecessary.
StartedConverges == \A o \in Ops : []<>(o \notin Started)
=============================================================================
