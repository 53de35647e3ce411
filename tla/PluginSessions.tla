---------------------------- MODULE PluginSessions ----------------------------
(***************************************************************************)
(* Generations of plugin sessions.                                         *)
(*                                                                         *)
(*   internal/agent/plugin_session_registry.go   the registry              *)
(*   internal/agent/agent.go, local_direct.go    host sessions, maintenance *)
(*                                               of closed generations,    *)
(*                                               shutdown (Agent.Run)      *)
(*                                                                         *)
(* Processes: the goroutine of every host session (remote or local), the   *)
(* plugin requests that are admitted under a generation, the callers that  *)
(* end a generation from outside (a plugin request that revokes its scope, *)
(* the Local UI that ends an access session), one maintainer for every     *)
(* generation that is being closed, and Agent.Run.  Every critical section *)
(* of the registry's mutex is one action.                                  *)
(*                                                                         *)
(* A host session removes only itself from Agent.sessions, and no session  *)
(* replaces another there, so publishing a generation in its session       *)
(* (the second half of markSessionConnected) is joined to the activation.  *)
(* Credentials are random, one for each local session.  Admissions of      *)
(* hijacked connections end like those of other requests.                  *)
(***************************************************************************)
EXTENDS Naturals, FiniteSets

CONSTANTS
    HostSessions,   \* host sessions, each served once
    Channels,       \* channel identities
    ChannelOf,      \* the channel of each session
    Local,          \* the sessions of the Local UI; the others are remote
    AccessSessions, \* access sessions of the Local UI
    AccessOf,       \* the access session of each local session
    Requests,       \* plugin requests, one admission each at a time
    None,           \* no session
    Outside,        \* maintained by whoever ended the generation from outside
    Detached,       \* maintained by a goroutine of its own
    MaxGeneration   \* bound of the model

ASSUME PluginConstants ==
    /\ ChannelOf \in [HostSessions -> Channels]
    /\ Local \subseteq HostSessions
    /\ AccessOf \in [Local -> AccessSessions]
    /\ MaxGeneration \in Nat
    /\ None \notin HostSessions
    /\ Outside # Detached /\ {Outside, Detached} \cap HostSessions = {}
    /\ IsFiniteSet(Requests)

Generations == 1..MaxGeneration

VARIABLES
    phase,       \* how far Agent.Run has come
    accepting,   \* registry.accepting
    next,        \* registry.next
    record,      \* registry.byGeneration
    active,      \* registry.active: the generation of a channel, 0 if none
    credentials, \* registry.credentials: the generations one can log in to
    sessions,    \* Agent.sessions
    serving,     \* the goroutine of each session and its pluginGeneration
    requests,    \* the admission of each plugin request
    ending,      \* generations somebody outside is about to close
    maint,       \* maintainPluginSessionGeneration
    intents      \* generations whose terminal intent the plugin host recorded

vars == <<phase, accepting, next, record, active, credentials, sessions, serving,
          requests, ending, maint, intents>>

registry == <<accepting, next, record, active, credentials>>

NoRecord == [state |-> "none", session |-> None, admissions |-> 0, drained |-> FALSE,
             closeStarted |-> FALSE]
IdleRequest == [pc |-> "idle", generation |-> 0, channel |-> None]
NoMaint == [pc |-> "none", by |-> Outside]

TypeOK ==
    /\ phase \in {"running", "cancelled", "stopping", "waitSessions", "waitCloses", "closed", "abandoned"}
    /\ accepting \in BOOLEAN
    /\ next \in 0..MaxGeneration
    /\ record \in [Generations ->
          [state : {"none", "active", "retired", "terminal", "discarded"},
           session : HostSessions \cup {None}, admissions : Nat, drained : BOOLEAN,
           closeStarted : BOOLEAN]]
    /\ active \in [Channels -> {0} \cup Generations]
    /\ credentials \subseteq Generations
    /\ sessions \in [Channels -> HostSessions \cup {None}]
    /\ serving \in [HostSessions -> [pc : {"idle", "connected", "open", "ending", "closing", "done"},
                                     generation : {0} \cup Generations]]
    /\ requests \in [Requests -> [pc : {"idle", "admitted", "revoking"},
                                  generation : {0} \cup Generations, channel : Channels \cup {None}]]
    /\ ending \subseteq Generations
    /\ maint \in [Generations ->
          [pc : {"none", "spawn", "drain", "intent", "terminalize", "host", "discard", "retry",
                 "done"},
           by : HostSessions \cup {Outside, Detached}]]
    /\ intents \subseteq Generations

Init ==
    /\ phase = "running"
    /\ accepting = TRUE
    /\ next = 0
    /\ record = [g \in Generations |-> NoRecord]
    /\ active = [c \in Channels |-> 0]
    /\ credentials = {}
    /\ sessions = [c \in Channels |-> None]
    /\ serving = [s \in HostSessions |-> [pc |-> "idle", generation |-> 0]]
    /\ requests = [q \in Requests |-> IdleRequest]
    /\ ending = {}
    /\ maint = [g \in Generations |-> NoMaint]
    /\ intents = {}

----------------------------------------------------------------------------
(* The registry. *)

\* byGeneration has a record
Known(g) == record[g].state \in {"active", "retired", "terminal"}

ActiveRecords == {g \in Generations : record[g].state = "active"}

ChannelOfGeneration(g) == ChannelOf[record[g].session]

\* registerCredentialHashBound, when nothing stands in the way
registered(s) ==
    /\ next' = next + 1
    /\ record' = [record EXCEPT ![next + 1] = [NoRecord EXCEPT !.state = "active", !.session = s]]
    /\ active' = [active EXCEPT ![ChannelOf[s]] = next + 1]
    /\ credentials' = IF s \in Local THEN credentials \cup {next + 1} ELSE credentials
    /\ UNCHANGED accepting

\* retireLocked on one record; `started` when beginClose is the caller
retired(r, started) ==
    [r EXCEPT !.state = IF @ = "active" THEN "retired" ELSE @,
              !.drained = @ \/ (r.state = "active" /\ r.admissions = 0),
              !.closeStarted = @ \/ started]

MutRetireKeepsIndex(gs, started) ==
    /\ record' = [g \in Generations |->
          IF g \in gs THEN retired(record[g], started) ELSE record[g]]
    /\ active' = [c \in Channels |-> IF active[c] \in gs THEN 0 ELSE active[c]]
    /\ UNCHANGED credentials

\* retireLocked for each of gs
retire(gs, started) ==
    /\ record' = [g \in Generations |->
          IF g \in gs THEN retired(record[g], started) ELSE record[g]]
    /\ active' = [c \in Channels |-> IF active[c] \in gs THEN 0 ELSE active[c]]
    /\ credentials' = credentials \ gs

CanClose(g) == Known(g) /\ ~record[g].closeStarted

\* beginClose succeeds: maintenance follows, in the hands of `by`
beginClose(g, by, pc) ==
    /\ retire({g}, TRUE)
    /\ maint' = [maint EXCEPT ![g] = [pc |-> pc, by |-> by]]

----------------------------------------------------------------------------
(* Host sessions. *)

Serving(s, pc) == serving' = [serving EXCEPT ![s].pc = pc]

\* a grant or a direct connection is accepted
Connect(s) ==
    /\ serving[s].pc = "idle"
    /\ phase \in {"running", "cancelled"}
    /\ sessions[ChannelOf[s]] = None
    /\ sessions' = [sessions EXCEPT ![ChannelOf[s]] = s]
    /\ Serving(s, "connected")
    /\ UNCHANGED <<phase, registry, requests, ending, maint, intents>>

\* activatePluginSession binds and registers a generation
Activate(s) ==
    /\ serving[s].pc = "connected"
    /\ accepting /\ active[ChannelOf[s]] = 0
    /\ next < MaxGeneration
    /\ registered(s)
    /\ serving' = [serving EXCEPT ![s] = [pc |-> "open", generation |-> next + 1]]
    /\ UNCHANGED <<phase, sessions, requests, ending, maint, intents>>

\* it does not, and the session goes on without: refused by the registry, or
\* the plugin host fails to bind the generation, whose number is used up
ActivateFails(s) ==
    /\ serving[s].pc = "connected"
    /\ Serving(s, "open")
    /\ \/ (~accepting \/ active[ChannelOf[s]] # 0) /\ UNCHANGED next
       \/ accepting /\ active[ChannelOf[s]] = 0 /\ next < MaxGeneration /\ next' = next + 1
    /\ UNCHANGED <<phase, accepting, record, active, credentials, sessions, requests,
                   ending, maint, intents>>

\* removeActiveSession
EndSession(s) ==
    /\ serving[s].pc \in {"connected", "open"}
    /\ sessions' = [sessions EXCEPT ![ChannelOf[s]] = None]
    /\ Serving(s, "ending")
    /\ UNCHANGED <<phase, registry, requests, ending, maint, intents>>

MutCloseOnlyActive(s) ==
    LET g == serving[s].generation
    IN  /\ serving[s].pc = "ending"
        /\ IF g # 0 /\ CanClose(g) /\ record[g].state = "active"
           THEN beginClose(g, s, IF s \in Local THEN "spawn" ELSE "drain") /\ Serving(s, "closing")
           ELSE Serving(s, "done") /\ UNCHANGED <<record, active, credentials, maint>>
        /\ UNCHANGED <<phase, accepting, next, sessions, requests, ending, intents>>

\* closePluginSessionGeneration of a remote session, which maintains the
\* generation itself, and startPluginSessionClose of a local one
CloseOwn(s) ==
    LET g == serving[s].generation
    IN  /\ serving[s].pc = "ending"
        /\ IF g # 0 /\ CanClose(g)
           THEN beginClose(g, s, IF s \in Local THEN "spawn" ELSE "drain") /\ Serving(s, "closing")
           ELSE Serving(s, "done") /\ UNCHANGED <<record, active, credentials, maint>>
        /\ UNCHANGED <<phase, accepting, next, sessions, requests, ending, intents>>

\* the goroutine returns when nothing is left to maintain in it
Return(s) ==
    /\ serving[s].pc = "closing"
    /\ \A g \in Generations : maint[g].by = s => maint[g].pc = "done"
    /\ Serving(s, "done")
    /\ UNCHANGED <<phase, registry, sessions, requests, ending, maint, intents>>

----------------------------------------------------------------------------
(* Plugin requests. *)

MutAdmitAnyKnown(q, g) ==
    /\ requests[q].pc = "idle"
    /\ accepting /\ Known(g)
    /\ record' = [record EXCEPT ![g].admissions = @ + 1]
    /\ requests' = [requests EXCEPT ![q] =
                       [pc |-> "admitted", generation |-> g, channel |-> ChannelOfGeneration(g)]]
    /\ UNCHANGED <<phase, accepting, next, active, credentials, sessions, serving, ending, maint, intents>>

\* acquireChannel and acquireCredential
Admit(q, g) ==
    /\ requests[q].pc = "idle"
    /\ \/ \E c \in Channels : active[c] = g
       \/ g \in credentials
    /\ accepting /\ record[g].state = "active"
    /\ record' = [record EXCEPT ![g].admissions = @ + 1]
    /\ requests' = [requests EXCEPT ![q] =
                       [pc |-> "admitted", generation |-> g, channel |-> ChannelOfGeneration(g)]]
    /\ UNCHANGED <<phase, accepting, next, active, credentials, sessions, serving, ending, maint, intents>>

MutReleaseNoDrain(g) ==
    record' = IF Known(g) /\ record[g].admissions > 0
              THEN [record EXCEPT ![g].admissions = @ - 1] ELSE record

\* the release function of an admission, which runs once
release(g) ==
    record' = IF Known(g) /\ record[g].admissions > 0
              THEN [record EXCEPT ![g].admissions = @ - 1,
                                  ![g].drained = @ \/ (record[g].state # "active"
                                                       /\ record[g].admissions = 1)]
              ELSE record

\* a request ends; one that revoked its scope goes on to end its channel
Finish(q, revoke) ==
    /\ requests[q].pc = "admitted"
    /\ release(requests[q].generation)
    /\ requests' = [requests EXCEPT ![q] =
                       IF revoke THEN [@ EXCEPT !.pc = "revoking", !.generation = 0] ELSE IdleRequest]
    /\ UNCHANGED <<phase, accepting, next, active, credentials, sessions, serving, ending, maint, intents>>

\* EndPluginSession up to startPluginSessionClose
EndPluginSession(q) ==
    /\ requests[q].pc = "revoking"
    /\ ending' = ending \cup ({active[requests[q].channel]} \ {0})
    /\ requests' = [requests EXCEPT ![q] = IdleRequest]
    /\ UNCHANGED <<phase, registry, sessions, serving, maint, intents>>

\* EndPluginAccessSession: retireAccessSession, and a close for each
EndPluginAccessSession(x) ==
    LET gs == {g \in ActiveRecords : record[g].session \in Local /\ AccessOf[record[g].session] = x}
    IN  /\ gs # {}
        /\ retire(gs, FALSE)
        /\ ending' = ending \cup gs
        /\ UNCHANGED <<phase, accepting, next, sessions, serving, requests, maint, intents>>

\* startPluginSessionClose from outside, up to pluginCloseMu
BeginClose(g) ==
    /\ g \in ending
    /\ ending' = ending \ {g}
    /\ IF CanClose(g) THEN beginClose(g, Outside, "spawn")
       ELSE UNCHANGED <<record, active, credentials, maint>>
    /\ UNCHANGED <<phase, accepting, next, sessions, serving, requests, intents>>

----------------------------------------------------------------------------
(* Maintenance of a closed generation. *)

pluginClosing == phase \in {"waitCloses", "closed"}

MaintStep(g, from, to) ==
    /\ maint[g].pc = from
    /\ maint' = [maint EXCEPT ![g].pc = to]

\* the rest of startPluginSessionClose: a goroutine, unless Run waits already
\* (once Run has given up, nobody waits for either)
Spawn(g) ==
    /\ maint[g].pc = "spawn"
    /\ maint' = [maint EXCEPT ![g] = [pc |-> "drain", by |-> IF pluginClosing THEN @.by ELSE Detached]]
    /\ UNCHANGED <<phase, registry, sessions, serving, requests, ending, intents>>

MutDrainNoWait(g) ==
    /\ MaintStep(g, "drain", "intent")
    /\ UNCHANGED <<phase, registry, sessions, serving, requests, ending, intents>>

\* waitDrained returns: drained, or 30 seconds have passed
Drain(g) ==
    /\ \/ record[g].drained /\ MaintStep(g, "drain", "intent")
       \/ MaintStep(g, "drain", "retry")
    /\ UNCHANGED <<phase, registry, sessions, serving, requests, ending, intents>>

\* RecordPluginSessionTerminalIntent; when it fails the host may have it or not
RecordIntent(g) ==
    /\ \/ MaintStep(g, "intent", "terminalize") /\ intents' = intents \cup {g}
       \/ MaintStep(g, "intent", "retry") /\ intents' \in {intents, intents \cup {g}}
    /\ UNCHANGED <<phase, registry, sessions, serving, requests, ending>>

Terminalize(g) ==
    /\ IF record[g].state # "active" /\ record[g].admissions = 0
       THEN /\ MaintStep(g, "terminalize", "host")
            /\ record' = [record EXCEPT ![g].state = "terminal"]
       ELSE MaintStep(g, "terminalize", "retry") /\ UNCHANGED record
    /\ UNCHANGED <<phase, accepting, next, active, credentials, sessions, serving, requests, ending, intents>>

\* MaintainTerminalPluginSession
MaintainHost(g) ==
    /\ MaintStep(g, "host", "discard") \/ MaintStep(g, "host", "retry")
    /\ UNCHANGED <<phase, registry, sessions, serving, requests, ending, intents>>

Discard(g) ==
    /\ MaintStep(g, "discard", "done")
    /\ record' = IF record[g].state = "terminal" /\ record[g].admissions = 0
                 THEN [record EXCEPT ![g].state = "discarded"] ELSE record
    /\ UNCHANGED <<phase, accepting, next, active, credentials, sessions, serving, requests, ending, intents>>

\* the back-off ends, or it is cut short because the runtime stops
Retry(g) ==
    /\ \/ MaintStep(g, "retry", "drain")
       \/ phase # "running" /\ MaintStep(g, "retry", "done")
    /\ UNCHANGED <<phase, registry, sessions, serving, requests, ending, intents>>

----------------------------------------------------------------------------
(* Agent.Run after its context ends. *)

RunStep(from, to) == phase = from /\ phase' = to

CancelRun ==
    /\ RunStep("running", "cancelled")
    /\ UNCHANGED <<registry, sessions, serving, requests, ending, maint, intents>>

BeginSessionShutdown ==
    /\ RunStep("cancelled", "stopping")
    /\ UNCHANGED <<registry, sessions, serving, requests, ending, maint, intents>>

\* stopAdmission, then stopAllSessions
StopAdmission ==
    /\ RunStep("stopping", "waitSessions")
    /\ accepting' = FALSE
    /\ retire(ActiveRecords, FALSE)
    /\ UNCHANGED <<next, sessions, serving, requests, ending, maint, intents>>

SessionsReturned == \A s \in HostSessions : serving[s].pc \in {"idle", "done"}

WaitForSessions ==
    /\ \/ SessionsReturned /\ RunStep("waitSessions", "waitCloses")
       \/ ~SessionsReturned /\ RunStep("waitSessions", "abandoned")
    /\ UNCHANGED <<registry, sessions, serving, requests, ending, maint, intents>>

DetachedDone == \A g \in Generations : maint[g].by = Detached => maint[g].pc = "done"

WaitForPluginSessionCloses ==
    /\ \/ DetachedDone /\ RunStep("waitCloses", "closed")
       \/ ~DetachedDone /\ RunStep("waitCloses", "abandoned")
    /\ UNCHANGED <<registry, sessions, serving, requests, ending, maint, intents>>

----------------------------------------------------------------------------
Session(s) == Connect(s) \/ Activate(s) \/ ActivateFails(s) \/ EndSession(s) \/ CloseOwn(s) \/ Return(s)

Request(q) ==
    \/ \E g \in Generations : Admit(q, g)
    \/ \E revoke \in BOOLEAN : Finish(q, revoke)
    \/ EndPluginSession(q)

Maintain(g) ==
    \/ Spawn(g) \/ Drain(g) \/ RecordIntent(g) \/ Terminalize(g)
    \/ MaintainHost(g) \/ Discard(g) \/ Retry(g)

Run ==
    \/ CancelRun \/ BeginSessionShutdown \/ StopAdmission
    \/ WaitForSessions \/ WaitForPluginSessionCloses

Next ==
    \/ \E s \in HostSessions : Session(s)
    \/ \E q \in Requests : Request(q)
    \/ \E x \in AccessSessions : EndPluginAccessSession(x)
    \/ \E g \in Generations : BeginClose(g) \/ Maintain(g)
    \/ Run

Spec == Init /\ [][Next]_vars

\* Requests end, sessions that are over close their generation, maintainers go
\* on, and a drain, a record of an intent and the plugin host succeed when they
\* are tried again and again.  Nothing is assumed of the end of sessions or of
\* the shutdown.  The host succeeds once for each generation, so that fairness
\* need not tell the generations apart.
Fairness ==
    /\ \A q \in Requests : WF_vars((\E revoke \in BOOLEAN : Finish(q, revoke)) \/ EndPluginSession(q))
    /\ \A s \in HostSessions : WF_vars(CloseOwn(s))
    /\ \A g \in Generations : WF_vars(BeginClose(g)) /\ WF_vars(Maintain(g))
    /\ SF_vars(\E g \in Generations : Drain(g) /\ maint'[g].pc = "intent")
    /\ SF_vars(\E g \in Generations : RecordIntent(g) /\ maint'[g].pc = "terminalize")
    /\ SF_vars(\E g \in Generations : MaintainHost(g) /\ maint'[g].pc = "discard")

LiveSpec == Spec /\ Fairness

----------------------------------------------------------------------------
(* Properties. *)

Admitted(g) == {q \in Requests : requests[q].pc = "admitted" /\ requests[q].generation = g}

\* The admissions of a generation are the requests that hold one, and the
\* channel that tells the maintainer "drained" is closed exactly when the
\* generation is closed to requests and the last one has left.
AdmissionsExact ==
    \A g \in Generations : Known(g) =>
        /\ record[g].admissions = Cardinality(Admitted(g))
        /\ record[g].drained <=> (record[g].state # "active" /\ Admitted(g) = {})

\* The two indexes of the registry lead to the active generations, to all of
\* them, and to no other: whoever retires a generation takes it out of both.
IndexExact ==
    /\ \A c \in Channels, g \in Generations :
          active[c] = g <=> (record[g].state = "active" /\ ChannelOfGeneration(g) = c)
    /\ credentials = {g \in ActiveRecords : record[g].session \in Local}

\* Once the plugin host has recorded that a generation is to end, no request
\* runs under it, neither one from before nor a new one.
NoAdmissionAfterIntent == \A g \in intents : Admitted(g) = {}

\* Maintenance is never refused by the registry: what it waited for still
\* holds when it is used, so "terminalization rejected" and "could not be
\* discarded" are not met, whatever requests and shutdown do in between.
MaintenanceNeverRejected ==
    \A g \in Generations :
        /\ maint[g].pc = "terminalize" => record[g].state \in {"retired", "terminal"} /\ record[g].admissions = 0
        /\ maint[g].pc = "discard" => record[g].state = "terminal" /\ record[g].admissions = 0

\* When the plugin host is closed in good order, no generation is left that
\* nobody began to close, whoever retired it first.
NothingLeftOpen == phase = "closed" => \A g \in Generations : Known(g) => record[g].closeStarted

\* The plugin host is closed only when no request runs any more: Agent.Run
\* drains the admissions first, or gives up and leaves the host open.
HostClosedDrained == phase = "closed" => \A q \in Requests : requests[q].pc # "admitted"

\* A generation that is over is forgotten while the runtime runs: its session
\* ended, or it was retired from outside, perhaps both at the same time.
Over(g) ==
    /\ Known(g)
    /\ record[g].state # "active" \/ serving[record[g].session].pc \in {"ending", "closing", "done"}

ClosedIsForgotten ==
    \A g \in Generations : Over(g) ~> (record[g].state = "discarded" \/ phase # "running")
=============================================================================
