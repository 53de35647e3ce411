------------------------ MODULE PluginSessionsProofs ------------------------
(***************************************************************************)
(* The registry of plugin sessions, for any number of sessions, channels,  *)
(* requests and generations.                                               *)
(*                                                                         *)
(* Neither NoAdmissionAfterIntent nor MaintenanceNeverRejected is          *)
(* inductive.  `Inv` adds where a request, a maintainer and an intent can  *)
(* stand with respect to the record of their generation.                   *)
(***************************************************************************)
EXTENDS PluginSessions, FiniteSetTheorems, TLAPS

Closed == {"retired", "terminal", "discarded"}

\* Generations are numbered in order, and each belongs to a session.
RecordsOf ==
    \A g \in Generations : record[g].state # "none" =>
        g <= next /\ record[g].session \in HostSessions

\* A request is admitted under a generation the registry knows.
RequestsOf ==
    \A q \in Requests :
        /\ requests[q].pc = "admitted" =>
              requests[q].generation \in Generations /\ Known(requests[q].generation)
        /\ requests[q].pc \in {"admitted", "revoking"} => requests[q].channel \in Channels

\* What the position of a maintainer says of the record.
MaintOf ==
    \A g \in Generations :
        /\ maint[g].pc # "none" => record[g].state \in Closed
        /\ maint[g].pc \notin {"none", "done"} => Known(g)
        /\ maint[g].pc \in {"intent", "terminalize", "host", "discard"} => record[g].drained
        /\ maint[g].pc \in {"host", "discard"} => record[g].state = "terminal"

IntentsOf == \A g \in intents : record[g].state \in Closed /\ record[g].drained

Inv ==
    /\ TypeOK /\ RecordsOf /\ RequestsOf /\ AdmissionsExact /\ IndexExact
    /\ MaintOf /\ IntentsOf

LEMMA AdmittedFinite ==
    \A g : IsFiniteSet(Admitted(g)) /\ Cardinality(Admitted(g)) \in Nat
<1> SUFFICES ASSUME NEW g PROVE IsFiniteSet(Admitted(g)) /\ Cardinality(Admitted(g)) \in Nat
  OBVIOUS
<1>1. Admitted(g) \in SUBSET Requests BY DEF Admitted
<1>2. IsFiniteSet(Admitted(g)) BY <1>1, PluginConstants, FS_Subset
<1> QED BY <1>2, FS_CardinalityType

LEMMA InitInv == Init => Inv
<1> SUFFICES ASSUME Init PROVE Inv OBVIOUS
<1>g. Generations \subseteq Nat \ {0} BY PluginConstants DEF Generations
<1>1. TypeOK
  BY PluginConstants DEF Init, TypeOK, NoRecord, IdleRequest, NoMaint
<1>2. RecordsOf /\ RequestsOf /\ AdmissionsExact /\ MaintOf /\ IntentsOf
  BY DEF Init, RecordsOf, RequestsOf, AdmissionsExact, MaintOf, IntentsOf, Known, NoRecord,
         IdleRequest, NoMaint
<1>3. IndexExact
  BY <1>g DEF Init, IndexExact, ActiveRecords, NoRecord
<1> QED BY <1>1, <1>2, <1>3 DEF Inv

----------------------------------------------------------------------------
(* Types. *)

States == {"none", "active", "retired", "terminal", "discarded"}

Records ==
    [state : States, session : HostSessions \cup {None}, admissions : Nat, drained : BOOLEAN,
     closeStarted : BOOLEAN]

\* What retireLocked does to a record.
LEMMA RetiredRecord ==
    ASSUME NEW r \in Records, NEW started \in BOOLEAN
    PROVE  /\ retired(r, started) \in Records
           /\ retired(r, started).session = r.session
           /\ retired(r, started).admissions = r.admissions
           /\ retired(r, started).state = IF r.state = "active" THEN "retired" ELSE r.state
           /\ retired(r, started).drained = (r.drained \/ (r.state = "active" /\ r.admissions = 0))
<1> DEFINE st == IF r.state = "active" THEN "retired" ELSE r.state
           d == r.drained \/ (r.state = "active" /\ r.admissions = 0)
           cs == r.closeStarted \/ started
<1>1. st \in States /\ d \in BOOLEAN /\ cs \in BOOLEAN BY DEF Records, States
<1>2. r = [state |-> r.state, session |-> r.session, admissions |-> r.admissions,
           drained |-> r.drained, closeStarted |-> r.closeStarted]
      /\ r.session \in HostSessions \cup {None} /\ r.admissions \in Nat
  BY DEF Records
<1>3. retired(r, started) = [r EXCEPT !.state = st, !.drained = d, !.closeStarted = cs]
  BY Zenon DEF retired
<1> HIDE DEF st, d, cs
<1>4. /\ retired(r, started) \in Records /\ retired(r, started).session = r.session
      /\ retired(r, started).admissions = r.admissions /\ retired(r, started).state = st
      /\ retired(r, started).drained = d
  BY <1>1, <1>2, <1>3 DEF Records
<1> QED BY <1>4 DEF st, d

\* What retire does to the registry, field by field.
LEMMA Retired ==
    ASSUME TypeOK, NEW gs \in SUBSET Generations, NEW started \in BOOLEAN, retire(gs, started)
    PROVE  /\ record' \in [Generations -> Records]
           /\ \A g \in Generations \ gs : record'[g] = record[g]
           /\ \A g \in gs :
                 /\ record'[g].session = record[g].session
                 /\ record'[g].admissions = record[g].admissions
                 /\ record'[g].state = IF record[g].state = "active" THEN "retired"
                                       ELSE record[g].state
                 /\ record'[g].drained = (record[g].drained \/ (record[g].state = "active"
                                                               /\ record[g].admissions = 0))
           /\ active' = [c \in Channels |-> IF active[c] \in gs THEN 0 ELSE active[c]]
           /\ credentials' = credentials \ gs
<1>1. record \in [Generations -> Records] BY DEF TypeOK, Records, States
<1>2. record' = [g \in Generations |->
          IF g \in gs THEN retired(record[g], started) ELSE record[g]]
  BY DEF retire
<1>3. \A g \in gs : record[g] \in Records /\ record'[g] = retired(record[g], started)
  BY <1>1, <1>2
<1>4. \A g \in Generations \ gs : record'[g] = record[g] BY <1>2
<1>5. record' \in [Generations -> Records] BY <1>1, <1>2, <1>3, RetiredRecord
<1> QED BY <1>3, <1>4, <1>5, RetiredRecord DEF retire

\* The types of the registry survive retire.
LEMMA RetireTypes ==
    ASSUME TypeOK, NEW gs \in SUBSET Generations, NEW started \in BOOLEAN, retire(gs, started)
    PROVE  /\ record' \in [Generations -> Records]
           /\ active' \in [Channels -> {0} \cup Generations]
           /\ credentials' \subseteq Generations
<1>1. active \in [Channels -> {0} \cup Generations] /\ credentials \subseteq Generations
  BY DEF TypeOK
<1>2. active' = [c \in Channels |-> IF active[c] \in gs THEN 0 ELSE active[c]]
  BY Retired
<1>3. active' \in [Channels -> {0} \cup Generations] BY <1>1, <1>2
<1> QED BY <1>1, <1>3, Retired

MaintPcs == {"none", "spawn", "drain", "intent", "terminalize", "host", "discard", "retry", "done"}

\* A maintainer that moves keeps its type.
LEMMA MaintTypes ==
    ASSUME TypeOK, NEW g \in Generations, NEW to \in MaintPcs,
           \/ maint' = [maint EXCEPT ![g].pc = to]
           \/ \E by \in HostSessions \cup {Outside, Detached} :
                 maint' = [maint EXCEPT ![g] = [pc |-> to, by |-> by]]
    PROVE  maint' \in [Generations -> [pc : MaintPcs, by : HostSessions \cup {Outside, Detached}]]
<1> DEFINE By == HostSessions \cup {Outside, Detached}
           Maints == [pc : MaintPcs, by : By]
<1>1. maint \in [Generations -> Maints] BY DEF TypeOK, MaintPcs
<1> HIDE DEF By
<1>2. maint[g].by \in By BY <1>1
<1>3. CASE maint' = [maint EXCEPT ![g].pc = to]
  <2>1. [maint[g] EXCEPT !.pc = to] \in Maints BY <1>1
  <2>2. maint' = [maint EXCEPT ![g] = [maint[g] EXCEPT !.pc = to]] BY Zenon, <1>3
  <2> HIDE DEF Maints
  <2>3. maint' \in [Generations -> Maints] BY <1>1, <2>1, <2>2
  <2> QED BY <2>3 DEF Maints, By
<1>4. CASE \E by \in By : maint' = [maint EXCEPT ![g] = [pc |-> to, by |-> by]]
  <2>1. PICK by \in By : maint' = [maint EXCEPT ![g] = [pc |-> to, by |-> by]] BY <1>4
  <2>2. [pc |-> to, by |-> by] \in Maints OBVIOUS
  <2> HIDE DEF Maints
  <2>3. maint' \in [Generations -> Maints] BY <1>1, <2>1, <2>2
  <2> QED BY <2>3 DEF Maints, By
<1> QED BY <1>3, <1>4 DEF By

LEMMA CloseTypes ==
    ASSUME TypeOK, NEW g \in Generations, NEW by \in HostSessions \cup {Outside, Detached},
           NEW to \in MaintPcs, beginClose(g, by, to)
    PROVE  /\ record' \in [Generations -> Records]
           /\ active' \in [Channels -> {0} \cup Generations]
           /\ credentials' \subseteq Generations
           /\ maint' \in [Generations -> [pc : MaintPcs, by : HostSessions \cup {Outside, Detached}]]
BY RetireTypes, MaintTypes DEF beginClose

Servings ==
    [pc : {"idle", "connected", "open", "ending", "closing", "done"}, generation : {0} \cup Generations]

LEMMA ServingTypes ==
    ASSUME TypeOK, NEW s \in HostSessions,
           NEW to \in {"idle", "connected", "open", "ending", "closing", "done"}, Serving(s, to)
    PROVE  serving' \in [HostSessions -> Servings]
<1>1. serving \in [HostSessions -> Servings] BY DEF TypeOK, Servings
<1> QED BY <1>1 DEF Serving, Servings

LEMMA SessionTypes == ASSUME Inv, NEW s \in HostSessions, Session(s) PROVE TypeOK'
<1>t. TypeOK BY DEF Inv
<1>1. CASE Connect(s)
  <2>1. serving' \in [HostSessions -> Servings] BY <1>t, <1>1, ServingTypes DEF Connect
  <2>2. sessions' \in [Channels -> HostSessions \cup {None}] BY <1>t, <1>1 DEF Connect, TypeOK
  <2> QED BY <1>t, <1>1, <2>1, <2>2 DEF Connect, TypeOK, Servings, registry
<1>2. CASE Activate(s)
  <2>1. next + 1 \in Generations /\ next' = next + 1 /\ next' \in 0..MaxGeneration
    BY <1>t, <1>2, PluginConstants DEF Activate, TypeOK, Generations, registered
  <2>2. /\ record' \in [Generations -> Records]
        /\ active' \in [Channels -> {0} \cup Generations]
        /\ credentials' \subseteq Generations
    BY <1>t, <1>2, <2>1, PluginConstants
       DEF Activate, registered, TypeOK, Records, States, NoRecord
  <2> QED BY <1>t, <1>2, <2>1, <2>2 DEF Activate, TypeOK, Records, States, registered
<1>3. CASE ActivateFails(s)
  <2>1. next' \in 0..MaxGeneration
    BY <1>t, <1>3, PluginConstants DEF ActivateFails, TypeOK
  <2>2. serving' \in [HostSessions -> Servings] BY <1>t, <1>3, ServingTypes DEF ActivateFails
  <2> QED BY <1>t, <1>3, <2>1, <2>2 DEF ActivateFails, TypeOK, Servings
<1>4. CASE EndSession(s)
  <2>1. serving' \in [HostSessions -> Servings] BY <1>t, <1>4, ServingTypes DEF EndSession
  <2>2. sessions' \in [Channels -> HostSessions \cup {None}] BY <1>t, <1>4 DEF EndSession, TypeOK
  <2> QED BY <1>t, <1>4, <2>1, <2>2 DEF EndSession, TypeOK, Servings, registry
<1>5. CASE CloseOwn(s)
  <2> DEFINE g == serving[s].generation
  <2>1. g \in {0} \cup Generations BY <1>t DEF TypeOK
  <2>2. serving' \in [HostSessions -> Servings] BY <1>t, <1>5, ServingTypes DEF CloseOwn
  <2>3. CASE g # 0 /\ CanClose(g)
    <3>1. PICK to \in {"spawn", "drain"} : beginClose(g, s, to) BY <1>5, <2>3 DEF CloseOwn
    <3>2. /\ record' \in [Generations -> Records]
          /\ active' \in [Channels -> {0} \cup Generations]
          /\ credentials' \subseteq Generations
          /\ maint' \in [Generations -> [pc : MaintPcs, by : HostSessions \cup {Outside, Detached}]]
      BY <1>t, <2>1, <2>3, <3>1, CloseTypes DEF MaintPcs
    <3> QED BY <1>t, <1>5, <2>2, <3>2 DEF CloseOwn, TypeOK, Records, States, MaintPcs, Servings
  <2>4. CASE ~(g # 0 /\ CanClose(g))
    BY <1>t, <1>5, <2>2, <2>4 DEF CloseOwn, TypeOK, Servings
  <2> QED BY <2>3, <2>4
<1>6. CASE Return(s)
  <2>1. serving' \in [HostSessions -> Servings] BY <1>t, <1>6, ServingTypes DEF Return
  <2> QED BY <1>t, <1>6, <2>1 DEF Return, TypeOK, Servings, registry
<1> QED BY <1>1, <1>2, <1>3, <1>4, <1>5, <1>6 DEF Session

LEMMA ReleaseTypes ==
    ASSUME TypeOK, NEW g, release(g)
    PROVE  record' \in [Generations -> Records]
<1>1. record \in [Generations -> Records] BY DEF TypeOK, Records, States
<1>2. CASE record' = record BY <1>1, <1>2
<1>3. CASE g \in Generations /\ record[g].admissions > 0 /\ record' # record
  <2>1. PICK d \in BOOLEAN :
          d = (record[g].drained \/ (record[g].state # "active" /\ record[g].admissions = 1))
    OBVIOUS
  <2>2. PICK n \in Nat : n = record[g].admissions - 1 BY <1>1, <1>3 DEF Records
  <2>3. record' = [record EXCEPT ![g] = [record[g] EXCEPT !.admissions = n, !.drained = d]]
    BY Zenon, <1>3, <2>1, <2>2 DEF release
  <2>4. record[g] \in Records BY <1>1, <1>3
  <2>5. [record[g] EXCEPT !.admissions = n, !.drained = d] \in Records BY Zenon, <2>4 DEF Records
  <2> QED BY <1>1, <1>3, <2>3, <2>5
<1>4. CASE g \notin Generations /\ record' # record
  BY <1>1, <1>4 DEF release
<1> QED BY <1>2, <1>3, <1>4 DEF release

LEMMA RequestTypes == ASSUME Inv, NEW q \in Requests, Request(q) PROVE TypeOK'
<1>t. TypeOK /\ RecordsOf /\ RequestsOf BY DEF Inv
<1>1. ASSUME NEW g \in Generations, Admit(q, g) PROVE TypeOK'
  <2>1. ChannelOfGeneration(g) \in Channels
    BY <1>t, <1>1, PluginConstants DEF Admit, RecordsOf, ChannelOfGeneration
  <2>2. record \in [Generations -> Records] BY <1>t DEF TypeOK, Records, States
  <2>3. record' = [record EXCEPT ![g] = [record[g] EXCEPT !.admissions = @ + 1]]
    BY <2>2, <1>1 DEF Admit
  <2>4. record[g] \in Records /\ record[g].admissions + 1 \in Nat BY <2>2 DEF Records
  <2>5. [record[g] EXCEPT !.admissions = @ + 1] \in Records
    <3> DEFINE n == record[g].admissions + 1
    <3>0. n \in Nat BY <2>4
    <3> HIDE DEF n
    <3>1. [record[g] EXCEPT !.admissions = n] \in Records BY SMT, <2>4, <3>0 DEF Records
    <3> QED BY Zenon, <3>1 DEF n
  <2>6. record' \in [Generations -> Records] BY <2>2, <2>3, <2>5
  <2> QED BY <1>t, <1>1, <2>1, <2>6 DEF Admit, TypeOK, Records, States
<1>2. ASSUME NEW revoke \in BOOLEAN, Finish(q, revoke) PROVE TypeOK'
  <2>1. record' \in [Generations -> Records] BY <1>t, <1>2, ReleaseTypes DEF Finish
  <2>2. requests' \in [Requests -> [pc : {"idle", "admitted", "revoking"},
                                    generation : {0} \cup Generations,
                                    channel : Channels \cup {None}]]
    <3>1. requests \in [Requests -> [pc : {"idle", "admitted", "revoking"},
                                     generation : {0} \cup Generations,
                                     channel : Channels \cup {None}]]
      BY <1>t DEF TypeOK
    <3>2. CASE revoke
      <4>1. requests' = [requests EXCEPT ![q] = [requests[q] EXCEPT !.pc = "revoking", !.generation = 0]]
        BY <1>2, <3>2 DEF Finish
      <4>2. requests[q] \in [pc : {"idle", "admitted", "revoking"}, generation : {0} \cup Generations,
                             channel : Channels \cup {None}]
        BY <3>1
      <4>3. [requests[q] EXCEPT !.pc = "revoking", !.generation = 0]
              \in [pc : {"idle", "admitted", "revoking"}, generation : {0} \cup Generations,
                  channel : Channels \cup {None}]
        BY ZenonT(60), <4>2
      <4> QED BY <3>1, <4>1, <4>3
    <3>3. CASE ~revoke
      <4>1. requests' = [requests EXCEPT ![q] = IdleRequest] BY <1>2, <3>3 DEF Finish
      <4>2. IdleRequest \in [pc : {"idle", "admitted", "revoking"}, generation : {0} \cup Generations,
                             channel : Channels \cup {None}]
        BY DEF IdleRequest
      <4> QED BY <3>1, <4>1, <4>2
    <3> QED BY <3>2, <3>3
  <2> QED BY <1>t, <1>2, <2>1, <2>2 DEF Finish, TypeOK, Records, States
<1>3. CASE EndPluginSession(q)
  <2>1. active[requests[q].channel] \in {0} \cup Generations
    BY <1>t, <1>3 DEF EndPluginSession, RequestsOf, TypeOK
  <2> QED BY <1>t, <1>3, <2>1 DEF EndPluginSession, TypeOK, IdleRequest, registry
<1> QED BY <1>1, <1>2, <1>3 DEF Request

LEMMA MaintainTypes ==
    ASSUME Inv, NEW g \in Generations, BeginClose(g) \/ Maintain(g)
    PROVE  TypeOK'
<1>t. TypeOK BY DEF Inv
<1> DEFINE Maints == [Generations -> [pc : MaintPcs, by : HostSessions \cup {Outside, Detached}]]
<1>1. CASE BeginClose(g)
  <2>1. CASE CanClose(g)
    <3>1. beginClose(g, Outside, "spawn") BY <1>1, <2>1 DEF BeginClose
    <3>2. /\ record' \in [Generations -> Records]
          /\ active' \in [Channels -> {0} \cup Generations]
          /\ credentials' \subseteq Generations
          /\ maint' \in Maints
      BY <1>t, <3>1, CloseTypes DEF MaintPcs
    <3> QED BY <1>t, <1>1, <3>2 DEF BeginClose, TypeOK, Records, States, MaintPcs
  <2>2. CASE ~CanClose(g)
    BY <1>t, <1>1, <2>2 DEF BeginClose, TypeOK
  <2> QED BY <2>1, <2>2
<1>2. ASSUME maint' \in Maints, record' \in [Generations -> Records],
             intents' \subseteq Generations,
             UNCHANGED <<phase, accepting, next, active, credentials, sessions, serving, requests,
                         ending>>
      PROVE  TypeOK'
  BY <1>t, <1>2 DEF TypeOK, Records, States, MaintPcs
<1>3. record \in [Generations -> Records] /\ intents \subseteq Generations
  BY <1>t DEF TypeOK, Records, States
<1>4. ASSUME NEW from, NEW to \in MaintPcs, MaintStep(g, from, to) PROVE maint' \in Maints
  BY <1>t, <1>4, MaintTypes DEF MaintStep
<1>5. CASE Spawn(g)
  <2>1. PICK by \in HostSessions \cup {Outside, Detached} :
          maint' = [maint EXCEPT ![g] = [pc |-> "drain", by |-> by]]
    BY <1>t, <1>5 DEF Spawn, TypeOK
  <2>2. maint' \in Maints BY <1>t, <2>1, MaintTypes DEF MaintPcs
  <2> QED BY <1>2, <1>3, <1>5, <2>2 DEF Spawn, registry
<1>6. CASE Drain(g) BY <1>2, <1>3, <1>4, <1>6 DEF Drain, MaintPcs, registry
<1>7. CASE RecordIntent(g)
  <2>1. intents' \subseteq Generations BY <1>3, <1>7 DEF RecordIntent
  <2> QED BY <1>2, <1>3, <1>4, <1>7, <2>1 DEF RecordIntent, MaintPcs, registry
<1>8. ASSUME NEW st \in States PROVE [record EXCEPT ![g].state = st] \in [Generations -> Records]
  BY <1>3, <1>8 DEF Records
<1>9. CASE Terminalize(g)
  <2>1. record' \in [Generations -> Records] BY <1>3, <1>8, <1>9 DEF Terminalize, States
  <2> QED BY <1>2, <1>3, <1>4, <1>9, <2>1 DEF Terminalize, MaintPcs
<1>10. CASE MaintainHost(g) BY <1>2, <1>3, <1>4, <1>10 DEF MaintainHost, MaintPcs, registry
<1>11. CASE Discard(g)
  <2>1. record' \in [Generations -> Records] BY <1>3, <1>8, <1>11 DEF Discard, States
  <2> QED BY <1>2, <1>3, <1>4, <1>11, <2>1 DEF Discard, MaintPcs
<1>12. CASE Retry(g) BY <1>2, <1>3, <1>4, <1>12 DEF Retry, MaintPcs, registry
<1> QED BY <1>1, <1>5, <1>6, <1>7, <1>9, <1>10, <1>11, <1>12 DEF Maintain

LEMMA OutsideTypes ==
    ASSUME Inv, (\E x \in AccessSessions : EndPluginAccessSession(x)) \/ Run
    PROVE  TypeOK'
<1>t. TypeOK BY DEF Inv
<1>1. ASSUME NEW x \in AccessSessions, EndPluginAccessSession(x) PROVE TypeOK'
  <2>1. PICK gs \in SUBSET Generations : retire(gs, FALSE) /\ ending' = ending \cup gs
    BY <1>1 DEF EndPluginAccessSession, ActiveRecords
  <2>2. /\ record' \in [Generations -> Records]
        /\ active' \in [Channels -> {0} \cup Generations]
        /\ credentials' \subseteq Generations
    BY <1>t, <2>1, RetireTypes
  <2> QED BY <1>t, <1>1, <2>1, <2>2 DEF EndPluginAccessSession, TypeOK, Records, States
<1>2. CASE StopAdmission
  <2>1. ActiveRecords \in SUBSET Generations BY DEF ActiveRecords
  <2>2. /\ record' \in [Generations -> Records]
        /\ active' \in [Channels -> {0} \cup Generations]
        /\ credentials' \subseteq Generations
    BY <1>t, <1>2, <2>1, RetireTypes DEF StopAdmission
  <2> QED BY <1>t, <1>2, <2>2 DEF StopAdmission, RunStep, TypeOK, Records, States
<1>3. CASE CancelRun \/ BeginSessionShutdown \/ WaitForSessions \/ WaitForPluginSessionCloses
  BY <1>t, <1>3
     DEF CancelRun, BeginSessionShutdown, WaitForSessions, WaitForPluginSessionCloses, RunStep,
         registry, TypeOK
<1> QED BY <1>1, <1>2, <1>3 DEF Run

----------------------------------------------------------------------------
(* The rest of the invariant. *)

\* Retiring generations keeps the registry in order, and what was closed closed.
LEMMA RetireKeeps ==
    ASSUME Inv, NEW gs \in SUBSET Generations, NEW started \in BOOLEAN, retire(gs, started),
           UNCHANGED <<next, requests, intents>>
    PROVE  /\ RecordsOf' /\ RequestsOf' /\ AdmissionsExact' /\ IndexExact' /\ IntentsOf'
           /\ \A g \in Generations :
                 /\ Known(g)' <=> Known(g)
                 /\ record[g].state \in Closed =>
                       record'[g].state = record[g].state /\ record'[g].drained = record[g].drained
                 /\ g \in gs /\ Known(g) => record'[g].state \in Closed
<1>t. TypeOK BY DEF Inv
<1>1. \A g \in Generations \ gs : record'[g] = record[g] BY <1>t, Retired
<1>2. \A g \in Generations :
        /\ record'[g].session = record[g].session
        /\ record'[g].admissions = record[g].admissions
        /\ record'[g].state = IF g \in gs /\ record[g].state = "active" THEN "retired"
                              ELSE record[g].state
  BY <1>t, <1>1, Retired
<1>3. \A g \in Generations : record[g].state # "active" => record'[g].drained = record[g].drained
  <2> SUFFICES ASSUME NEW g \in Generations, record[g].state # "active"
               PROVE  record'[g].drained = record[g].drained
    OBVIOUS
  <2>1. CASE g \in gs
    <3>1. record'[g].drained = (record[g].drained \/ (record[g].state = "active"
                                                     /\ record[g].admissions = 0))
      BY <1>t, <2>1, Retired
    <3>2. record[g].drained \in BOOLEAN BY <1>t DEF TypeOK
    <3> QED BY <3>1, <3>2
  <2> QED BY <1>1, <2>1
<1>4. \A g \in Generations : Known(g)' <=> Known(g) BY <1>2 DEF Known
<1>5. RecordsOf' BY <1>2 DEF Inv, RecordsOf
<1>6. RequestsOf' BY <1>4 DEF Inv, RequestsOf
<1>7. IntentsOf' BY <1>t, <1>2, <1>3 DEF Inv, IntentsOf, Closed, TypeOK
<1>8. AdmissionsExact'
  <2> SUFFICES ASSUME NEW g \in Generations, Known(g)
               PROVE  /\ record'[g].admissions = Cardinality(Admitted(g)')
                      /\ record'[g].drained <=> (record'[g].state # "active" /\ Admitted(g)' = {})
    BY <1>4 DEF AdmissionsExact
  <2>1. Admitted(g)' = Admitted(g) BY DEF Admitted
  <2>2. /\ record[g].admissions = Cardinality(Admitted(g))
        /\ record[g].drained <=> (record[g].state # "active" /\ Admitted(g) = {})
    BY DEF Inv, AdmissionsExact
  <2>3. record[g].admissions = 0 <=> Admitted(g) = {}
    BY <2>2, AdmittedFinite, FS_EmptySet
  <2>4. CASE g \in gs /\ record[g].state = "active"
    <3>1. record'[g].drained = (record[g].drained \/ (record[g].state = "active"
                                                     /\ record[g].admissions = 0))
      BY <1>t, <2>4, Retired
    <3>2. record'[g].state = "retired" BY <1>2, <2>4
    <3>3. ~record[g].drained BY <2>2, <2>4
    <3>4. record'[g].drained <=> Admitted(g) = {} BY <2>3, <2>4, <3>1, <3>3
    <3> QED BY <1>2, <2>1, <2>2, <3>2, <3>4
  <2>5. CASE g \in gs /\ record[g].state # "active"
    BY <1>2, <1>3, <2>1, <2>2, <2>5
  <2>6. CASE g \notin gs BY <1>1, <2>1, <2>2, <2>6
  <2> QED BY <2>4, <2>5, <2>6
<1>9. IndexExact'
  <2>1. active' = [c \in Channels |-> IF active[c] \in gs THEN 0 ELSE active[c]]
        /\ credentials' = credentials \ gs
    BY <1>t, Retired
  <2>2. 0 \notin Generations BY PluginConstants DEF Generations
  <2>3. \A g \in Generations : record'[g].state = "active" <=> record[g].state = "active" /\ g \notin gs
    BY <1>2
  <2>4. \A c \in Channels, g \in Generations :
          active'[c] = g <=> (record'[g].state = "active" /\ ChannelOfGeneration(g)' = c)
    BY <1>2, <2>1, <2>2, <2>3 DEF Inv, IndexExact, ChannelOfGeneration
  <2>5. credentials' = {g \in ActiveRecords' : record'[g].session \in Local}
    BY <1>2, <2>1, <2>3 DEF Inv, IndexExact, ActiveRecords
  <2> QED BY <2>4, <2>5 DEF IndexExact
<1>10. \A g \in Generations :
          /\ record[g].state \in Closed =>
                record'[g].state = record[g].state /\ record'[g].drained = record[g].drained
          /\ g \in gs /\ Known(g) => record'[g].state \in Closed
  BY <1>2, <1>3 DEF Closed, Known
<1> QED BY <1>4, <1>5, <1>6, <1>7, <1>8, <1>9, <1>10

\* Retiring generations from outside, or in StopAdmission.
LEMMA RetireInv ==
    ASSUME Inv, NEW gs \in SUBSET Generations, NEW started \in BOOLEAN, retire(gs, started),
           UNCHANGED <<next, requests, intents, maint>>, TypeOK'
    PROVE  Inv'
<1>1. MaintOf'
  BY RetireKeeps DEF Inv, MaintOf, Closed
<1> QED BY <1>1, RetireKeeps DEF Inv

LEMMA CloseInv ==
    ASSUME Inv, NEW g \in Generations, CanClose(g), NEW by, NEW to \in {"spawn", "drain"},
           beginClose(g, by, to), UNCHANGED <<next, requests, intents>>, TypeOK'
    PROVE  Inv'
<1>1. retire({g}, TRUE) /\ maint' = [maint EXCEPT ![g] = [pc |-> to, by |-> by]]
  BY DEF beginClose
<1>2. Known(g) BY DEF CanClose
<1>3. \A h \in Generations : maint'[h] = IF h = g THEN [pc |-> to, by |-> by] ELSE maint[h]
  BY <1>1 DEF Inv, TypeOK
<1>4. /\ RecordsOf' /\ RequestsOf' /\ AdmissionsExact' /\ IndexExact' /\ IntentsOf'
      /\ \A h \in Generations :
            /\ Known(h)' <=> Known(h)
            /\ record[h].state \in Closed =>
                  record'[h].state = record[h].state /\ record'[h].drained = record[h].drained
      /\ record'[g].state \in Closed
  BY <1>1, <1>2, RetireKeeps
<1>5. MaintOf'
  <2>1. maint'[g].pc \in {"spawn", "drain"} BY <1>3
  <2>2. \A h \in Generations \ {g} : maint'[h] = maint[h] BY <1>3
  <2> QED BY <1>2, <1>4, <2>1, <2>2 DEF Inv, MaintOf, Closed
<1> QED BY <1>4, <1>5 DEF Inv

\* Steps that leave the registry, the requests and the maintenance alone.
LEMMA QuietInv ==
    ASSUME Inv, UNCHANGED <<record, active, credentials, requests, maint, intents>>,
           next \in Nat, next' \in Nat, next <= next', TypeOK'
    PROVE  Inv'
<1>1. RecordsOf'
  <2>1. \A g \in Generations : g \in Nat BY PluginConstants DEF Generations
  <2> QED BY <2>1 DEF Inv, RecordsOf
<1>2. RequestsOf' BY DEF Inv, RequestsOf, Known
<1>3. AdmissionsExact' BY DEF Inv, AdmissionsExact, Admitted, Known
<1>4. IndexExact' BY DEF Inv, IndexExact, ActiveRecords, ChannelOfGeneration
<1>5. MaintOf' /\ IntentsOf' BY DEF Inv, MaintOf, IntentsOf, Known
<1> QED BY <1>1, <1>2, <1>3, <1>4, <1>5 DEF Inv

LEMMA ActivateInv == ASSUME Inv, NEW s \in HostSessions, Activate(s), TypeOK' PROVE Inv'
<1> DEFINE n == next + 1
           new == [NoRecord EXCEPT !.state = "active", !.session = s]
<1>1. /\ n \in Generations /\ n > next /\ next \in Nat /\ ChannelOf[s] \in Channels
      /\ active[ChannelOf[s]] = 0 /\ 0 \notin Generations
  BY PluginConstants DEF Inv, TypeOK, Activate, Generations
<1>2. /\ record' = [record EXCEPT ![n] = new] /\ next' = n
      /\ active' = [active EXCEPT ![ChannelOf[s]] = n]
      /\ credentials' = IF s \in Local THEN credentials \cup {n} ELSE credentials
      /\ UNCHANGED <<requests, maint, intents>>
  BY DEF Activate, registered
<1>3. /\ new.state = "active" /\ new.session = s /\ new.admissions = 0 /\ new.drained = FALSE
  BY DEF NoRecord
<1> HIDE DEF n, new
<1>4. /\ record'[n] = new /\ record[n].state = "none"
      /\ \A g \in Generations \ {n} : record'[g] = record[g]
  <2>1. \A g \in Generations : g \in Nat BY PluginConstants DEF Generations
  <2> QED BY <1>1, <1>2, <2>1 DEF Inv, TypeOK, RecordsOf
<1>5. RecordsOf'
  <2>1. \A g \in Generations : g \in Nat BY PluginConstants DEF Generations
  <2>2. n = next + 1 BY DEF n
  <2> QED BY <1>1, <1>2, <1>3, <1>4, <2>1, <2>2 DEF Inv, RecordsOf
<1>6. RequestsOf' BY <1>2, <1>3, <1>4 DEF Inv, RequestsOf, Known
<1>7. AdmissionsExact'
  <2> SUFFICES ASSUME NEW g \in Generations, Known(g)'
               PROVE  /\ record'[g].admissions = Cardinality(Admitted(g)')
                      /\ record'[g].drained <=> (record'[g].state # "active" /\ Admitted(g)' = {})
    BY DEF AdmissionsExact
  <2>1. Admitted(g)' = Admitted(g) BY <1>2 DEF Admitted
  <2>2. CASE g = n
    <3>1. Admitted(n) = {} BY <1>1, <1>4 DEF Inv, RequestsOf, Admitted, Known
    <3> QED BY <1>3, <1>4, <2>1, <2>2, <3>1, FS_EmptySet
  <2>3. CASE g # n BY <1>4, <2>1, <2>3 DEF Inv, AdmissionsExact, Known
  <2> QED BY <2>2, <2>3
<1>8. IndexExact'
  <2>1. ASSUME NEW c \in Channels, NEW g \in Generations
        PROVE  active'[c] = g <=> (record'[g].state = "active" /\ ChannelOfGeneration(g)' = c)
    <3>1. active \in [Channels -> {0} \cup Generations] BY DEF Inv, TypeOK
    <3>2. active[c] = g <=> (record[g].state = "active" /\ ChannelOf[record[g].session] = c)
      BY DEF Inv, IndexExact, ChannelOfGeneration
    <3>3. active'[c] = IF c = ChannelOf[s] THEN n ELSE active[c] BY <1>2, <3>1
    <3>4. CASE g = n BY <1>1, <1>3, <1>4, <3>2, <3>3, <3>4 DEF ChannelOfGeneration
    <3>5. CASE g # n BY <1>1, <1>4, <3>2, <3>3, <3>5 DEF ChannelOfGeneration
    <3> QED BY <3>4, <3>5
  <2>2. credentials' = {g \in ActiveRecords' : record'[g].session \in Local}
    BY <1>1, <1>2, <1>3, <1>4 DEF Inv, IndexExact, ActiveRecords
  <2> QED BY <2>1, <2>2 DEF IndexExact
<1>9. MaintOf' BY <1>2, <1>4 DEF Inv, MaintOf, Closed, Known
<1>10. IntentsOf' BY <1>2, <1>4 DEF Inv, IntentsOf, Closed, TypeOK
<1> QED BY <1>5, <1>6, <1>7, <1>8, <1>9, <1>10 DEF Inv

LEMMA SessionInv == ASSUME Inv, NEW s \in HostSessions, Session(s) PROVE Inv'
<1>t. TypeOK' /\ next \in Nat BY SessionTypes DEF Inv, TypeOK
<1>1. CASE Connect(s) \/ EndSession(s) \/ Return(s) \/ ActivateFails(s)
  <2>1. UNCHANGED <<record, active, credentials, requests, maint, intents>>
    BY <1>1 DEF Connect, EndSession, Return, ActivateFails, registry
  <2>2. next' = next \/ next' = next + 1
    BY <1>1 DEF Connect, EndSession, Return, ActivateFails, registry
  <2> QED BY <1>t, <2>1, <2>2, QuietInv
<1>2. CASE Activate(s) BY <1>2, <1>t, ActivateInv
<1>3. CASE CloseOwn(s)
  <2>1. UNCHANGED <<next, requests, intents>> BY <1>3 DEF CloseOwn
  <2>2. CASE serving[s].generation # 0 /\ CanClose(serving[s].generation)
    <3>1. serving[s].generation \in Generations BY <2>2 DEF Inv, TypeOK
    <3>2. PICK to \in {"spawn", "drain"} : beginClose(serving[s].generation, s, to)
      BY <1>3, <2>2 DEF CloseOwn
    <3> QED BY <1>t, <2>1, <2>2, <3>1, <3>2, CloseInv
  <2>3. CASE ~(serving[s].generation # 0 /\ CanClose(serving[s].generation))
    <3>1. UNCHANGED <<record, active, credentials, maint>> BY <1>3, <2>3 DEF CloseOwn
    <3> QED BY <1>t, <2>1, <3>1, QuietInv
  <2> QED BY <2>2, <2>3
<1> QED BY <1>1, <1>2, <1>3 DEF Session

\* Admission and release change the count of one record; nothing else depends
\* on it.
LEMMA CountChangeInv ==
    ASSUME Inv, NEW g \in Generations,
           \A h \in Generations \ {g} : record'[h] = record[h],
           record'[g].state = record[g].state, record'[g].session = record[g].session,
           record[g].state \in Closed => (record[g].drained => record'[g].drained),
           UNCHANGED <<next, active, credentials, maint, intents>>
    PROVE  /\ RecordsOf' /\ IndexExact' /\ MaintOf' /\ IntentsOf'
           /\ \A h \in Generations : Known(h)' <=> Known(h)
<1>1. \A h \in Generations : record'[h].state = record[h].state /\ record'[h].session = record[h].session
  OBVIOUS
<1>2. RecordsOf' BY <1>1 DEF Inv, RecordsOf
<1>3. IndexExact' BY <1>1 DEF Inv, IndexExact, ActiveRecords, ChannelOfGeneration
<1>4. \A h \in Generations : Known(h)' <=> Known(h) BY <1>1 DEF Known
<1>5. \A h \in Generations : record[h].state \in Closed /\ record[h].drained => record'[h].drained
  OBVIOUS
<1>6. MaintOf' BY <1>1, <1>4, <1>5 DEF Inv, MaintOf
<1>7. IntentsOf' BY <1>1, <1>5 DEF Inv, IntentsOf, TypeOK
<1> QED BY <1>2, <1>3, <1>4, <1>6, <1>7

LEMMA AdmitInv ==
    ASSUME Inv, NEW q \in Requests, NEW g \in Generations, Admit(q, g), TypeOK'
    PROVE  Inv'
<1>1. /\ record[g].state = "active" /\ requests[q].pc = "idle"
      /\ record' = [record EXCEPT ![g].admissions = @ + 1]
      /\ requests' = [requests EXCEPT ![q] = [pc |-> "admitted", generation |-> g,
                                             channel |-> ChannelOfGeneration(g)]]
      /\ UNCHANGED <<next, active, credentials, maint, intents>>
  BY DEF Admit
<1>2. /\ record'[g].admissions = record[g].admissions + 1
      /\ record'[g].state = record[g].state /\ record'[g].session = record[g].session
      /\ record'[g].drained = record[g].drained
      /\ \A h \in Generations \ {g} : record'[h] = record[h]
  BY <1>1 DEF Inv, TypeOK
<1>3. /\ RecordsOf' /\ IndexExact' /\ MaintOf' /\ IntentsOf'
      /\ \A h \in Generations : Known(h)' <=> Known(h)
  BY <1>1, <1>2, CountChangeInv
<1>4. ChannelOfGeneration(g) \in Channels
  BY <1>1, PluginConstants DEF Inv, RecordsOf, ChannelOfGeneration
<1>5. /\ requests'[q] = [pc |-> "admitted", generation |-> g, channel |-> ChannelOfGeneration(g)]
      /\ \A r \in Requests \ {q} : requests'[r] = requests[r]
  BY <1>1 DEF Inv, TypeOK
<1>6. RequestsOf' BY <1>1, <1>3, <1>4, <1>5 DEF Inv, RequestsOf, Known
<1>7. /\ Admitted(g)' = Admitted(g) \cup {q} /\ q \notin Admitted(g)
      /\ \A h \in Generations \ {g} : Admitted(h)' = Admitted(h)
  BY <1>1, <1>5 DEF Admitted
<1>8. AdmissionsExact'
  <2> SUFFICES ASSUME NEW h \in Generations, Known(h)
               PROVE  /\ record'[h].admissions = Cardinality(Admitted(h)')
                      /\ record'[h].drained <=> (record'[h].state # "active" /\ Admitted(h)' = {})
    BY <1>3 DEF AdmissionsExact
  <2>1. /\ record[h].admissions = Cardinality(Admitted(h))
        /\ record[h].drained <=> (record[h].state # "active" /\ Admitted(h) = {})
    BY DEF Inv, AdmissionsExact
  <2>2. CASE h = g
    <3>1. Cardinality(Admitted(g)') = Cardinality(Admitted(g)) + 1
      BY <1>7, AdmittedFinite, FS_AddElement
    <3> QED BY <1>1, <1>2, <2>1, <2>2, <3>1
  <2>3. CASE h # g BY <1>2, <1>7, <2>1, <2>3
  <2> QED BY <2>2, <2>3
<1> QED BY <1>3, <1>6, <1>8 DEF Inv

LEMMA FinishInv ==
    ASSUME Inv, NEW q \in Requests, NEW revoke \in BOOLEAN, Finish(q, revoke), TypeOK'
    PROVE  Inv'
<1>a. requests[q].pc = "admitted" BY DEF Finish
<1>b. PICK g \in Generations : g = requests[q].generation BY <1>a DEF Inv, RequestsOf
<1>0. /\ requests[q].pc = "admitted" /\ release(g)
      /\ UNCHANGED <<next, active, credentials, maint, intents>>
  BY <1>b DEF Finish
<1>1. Known(g) BY <1>0, <1>b DEF Inv, RequestsOf
<1>2. q \in Admitted(g) BY <1>0, <1>b DEF Admitted
<1>3. /\ record[g].admissions = Cardinality(Admitted(g)) /\ record[g].admissions \in Nat
      /\ record[g].drained <=> (record[g].state # "active" /\ Admitted(g) = {})
  BY <1>1 DEF Inv, AdmissionsExact, TypeOK
<1>4. record[g].admissions > 0 /\ ~record[g].drained
  BY <1>2, <1>3, AdmittedFinite, FS_EmptySet
<1>5. PICK d \in BOOLEAN : d = (record[g].state # "active" /\ record[g].admissions = 1)
  OBVIOUS
<1>6. /\ record'[g].admissions = record[g].admissions - 1
      /\ record'[g].state = record[g].state /\ record'[g].session = record[g].session
      /\ record'[g].drained = d
      /\ \A h \in Generations \ {g} : record'[h] = record[h]
  <2>1. PICK n \in Nat : n = record[g].admissions - 1 BY <1>3, <1>4
  <2>2. (record[g].drained \/ (record[g].state # "active" /\ record[g].admissions = 1)) = d
    BY <1>4, <1>5
  <2>3. record' = [record EXCEPT ![g] =
           [record[g] EXCEPT !.admissions = n,
                             !.drained = record[g].drained
                                 \/ (record[g].state # "active" /\ record[g].admissions = 1)]]
    BY Zenon, <1>0, <1>1, <1>4, <2>1 DEF release
  <2>4. record' = [record EXCEPT ![g] = [record[g] EXCEPT !.admissions = n, !.drained = d]]
    BY Zenon, <2>2, <2>3
  <2>5. record \in [Generations -> Records] BY DEF Inv, TypeOK, Records, States
  <2>6. record'[g] = [record[g] EXCEPT !.admissions = n, !.drained = d]
        /\ \A h \in Generations \ {g} : record'[h] = record[h]
    BY <1>1, <2>4, <2>5
  <2>7. record[g] \in Records BY <1>1, <2>5
  <2>8. /\ record'[g].admissions = n /\ record'[g].drained = d
        /\ record'[g].state = record[g].state /\ record'[g].session = record[g].session
    BY <2>6, <2>7 DEF Records
  <2> QED BY <2>1, <2>6, <2>8
<1>7. /\ requests'[q].pc \in {"idle", "revoking"}
      /\ requests'[q].pc = "revoking" => requests'[q].channel = requests[q].channel
      /\ \A r \in Requests \ {q} : requests'[r] = requests[r]
  BY DEF Finish, Inv, TypeOK, IdleRequest
<1>8. /\ RecordsOf' /\ IndexExact' /\ MaintOf' /\ IntentsOf'
      /\ \A h \in Generations : Known(h)' <=> Known(h)
  BY <1>0, <1>1, <1>4, <1>6, CountChangeInv
<1>9. RequestsOf'
  BY <1>0, <1>7, <1>8 DEF Inv, RequestsOf
<1>10. /\ Admitted(g)' = Admitted(g) \ {q}
       /\ \A h \in Generations \ {g} : Admitted(h)' = Admitted(h)
  <2>1. \A h : Admitted(h)' = {r \in Requests : requests'[r].pc = "admitted"
                                               /\ requests'[r].generation = h}
    BY DEF Admitted
  <2>2. requests'[q].pc # "admitted" BY <1>7
  <2>3. \A h \in Generations \ {g} : q \notin Admitted(h) BY <1>b DEF Admitted
  <2>4. \A h : Admitted(h)' = Admitted(h) \ {q} BY <1>7, <2>1, <2>2 DEF Admitted
  <2> QED BY <2>3, <2>4
<1>11. AdmissionsExact'
  <2> SUFFICES ASSUME NEW h \in Generations, Known(h)
               PROVE  /\ record'[h].admissions = Cardinality(Admitted(h)')
                      /\ record'[h].drained <=> (record'[h].state # "active" /\ Admitted(h)' = {})
    BY <1>8 DEF AdmissionsExact
  <2>1. CASE h = g
    <3>1. /\ Cardinality(Admitted(g)') = Cardinality(Admitted(g)) - 1
          /\ IsFiniteSet(Admitted(g)')
      BY <1>2, <1>10, AdmittedFinite, FS_RemoveElement
    <3>2. Admitted(g)' = {} <=> record[g].admissions = 1
      BY <1>3, <3>1, FS_EmptySet
    <3>3. record'[g].drained <=> (record[g].state # "active" /\ record[g].admissions = 1)
      BY <1>5, <1>6
    <3>4. record'[g].drained <=> (record'[g].state # "active" /\ Admitted(g)' = {})
      BY <1>6, <3>2, <3>3
    <3> QED BY <1>3, <1>6, <2>1, <3>1, <3>4
  <2>2. CASE h # g BY <1>6, <1>10, <2>2 DEF Inv, AdmissionsExact
  <2> QED BY <2>1, <2>2
<1> QED BY <1>8, <1>9, <1>11 DEF Inv

LEMMA RequestInv == ASSUME Inv, NEW q \in Requests, Request(q) PROVE Inv'
<1>t. TypeOK' BY RequestTypes
<1>1. ASSUME NEW g \in Generations, Admit(q, g) PROVE Inv' BY <1>1, <1>t, AdmitInv
<1>2. ASSUME NEW revoke \in BOOLEAN, Finish(q, revoke) PROVE Inv' BY <1>2, <1>t, FinishInv
<1>3. CASE EndPluginSession(q)
  <2>1. /\ requests[q].pc = "revoking" /\ requests' = [requests EXCEPT ![q] = IdleRequest]
        /\ UNCHANGED <<record, next, active, credentials, maint, intents>>
    BY <1>3 DEF EndPluginSession, registry
  <2>2. /\ requests'[q].pc = "idle"
        /\ \A r \in Requests \ {q} : requests'[r] = requests[r]
    BY <2>1 DEF Inv, TypeOK, IdleRequest
  <2>3. \A g \in Generations : Admitted(g)' = Admitted(g) BY <2>1, <2>2 DEF Admitted
  <2>4. AdmissionsExact' BY <2>1, <2>3 DEF Inv, AdmissionsExact, Known
  <2>5. RequestsOf' BY <2>1, <2>2 DEF Inv, RequestsOf, Known
  <2>6. RecordsOf' /\ IndexExact'
    BY <2>1 DEF Inv, RecordsOf, IndexExact, ActiveRecords, ChannelOfGeneration
  <2>7. MaintOf' /\ IntentsOf' BY <2>1 DEF Inv, MaintOf, IntentsOf, Known
  <2> QED BY <1>t, <2>4, <2>5, <2>6, <2>7 DEF Inv
<1> QED BY <1>1, <1>2, <1>3 DEF Request

\* A maintainer moves on, and perhaps the plugin host records an intent.
LEMMA MoveInv ==
    ASSUME Inv, NEW g \in Generations, TypeOK',
           UNCHANGED <<record, next, active, credentials, requests>>,
           \A h \in Generations \ {g} : maint'[h] = maint[h],
           maint[g].pc \notin {"none", "done"},
           maint'[g].pc \in {"intent", "terminalize", "host", "discard"} => record[g].drained,
           maint'[g].pc \in {"host", "discard"} => record[g].state = "terminal",
           intents' = intents \/ (intents' = intents \cup {g} /\ record[g].drained)
    PROVE  Inv'
<1>1. RecordsOf' /\ RequestsOf' BY DEF Inv, RecordsOf, RequestsOf, Known
<1>2. AdmissionsExact' BY DEF Inv, AdmissionsExact, Admitted, Known
<1>3. IndexExact' BY DEF Inv, IndexExact, ActiveRecords, ChannelOfGeneration
<1>4. record[g].state \in Closed /\ Known(g) BY DEF Inv, MaintOf
<1>5. MaintOf' BY <1>4 DEF Inv, MaintOf, Known
<1>6. IntentsOf' BY <1>4 DEF Inv, IntentsOf
<1> QED BY <1>1, <1>2, <1>3, <1>5, <1>6 DEF Inv

\* A drained generation changes its state: Terminalize and Discard.
LEMMA ClosedStateInv ==
    ASSUME Inv, NEW g \in Generations, NEW st \in {"terminal", "discarded"}, TypeOK',
           record' = [record EXCEPT ![g].state = st],
           UNCHANGED <<next, active, credentials, requests, intents>>,
           record[g].state \in {"retired", "terminal"}, record[g].admissions = 0,
           \A h \in Generations \ {g} : maint'[h] = maint[h],
           maint'[g].pc \in {"host", "done"}, maint'[g].pc = "host" => st = "terminal",
           record[g].drained
    PROVE  Inv'
<1>1. /\ record'[g].state = st /\ record'[g].session = record[g].session
      /\ record'[g].admissions = record[g].admissions /\ record'[g].drained = record[g].drained
      /\ \A h \in Generations \ {g} : record'[h] = record[h]
  <2>1. record \in [Generations -> Records] BY DEF Inv, TypeOK, Records, States
  <2>2. record'[g] = [record[g] EXCEPT !.state = st]
        /\ \A h \in Generations \ {g} : record'[h] = record[h]
    BY <2>1
  <2>3. record[g] \in Records BY <2>1
  <2>4. record'[g].state = st /\ record'[g].session = record[g].session
        /\ record'[g].admissions = record[g].admissions
    BY SMT, <2>2, <2>3 DEF Records
  <2>5. record'[g].drained = record[g].drained BY ZenonT(60), <2>2, <2>3 DEF Records
  <2> QED BY <2>2, <2>4, <2>5
<1>2. Known(g) /\ \A h \in Generations : Known(h)' => Known(h) BY <1>1 DEF Known
<1>3. Admitted(g) = {} BY <1>2, AdmittedFinite, FS_EmptySet DEF Inv, AdmissionsExact
<1>4. RecordsOf' BY <1>1 DEF Inv, RecordsOf
<1>5. RequestsOf'
  <2>1. \A q \in Requests : requests[q].pc = "admitted" => requests[q].generation # g
    BY <1>3 DEF Admitted
  <2> QED BY <1>1, <2>1 DEF Inv, RequestsOf, Known
<1>6. AdmissionsExact'
  <2> SUFFICES ASSUME NEW h \in Generations, Known(h)'
               PROVE  /\ record'[h].admissions = Cardinality(Admitted(h)')
                      /\ record'[h].drained <=> (record'[h].state # "active" /\ Admitted(h)' = {})
    BY DEF AdmissionsExact
  <2>1. Admitted(h)' = Admitted(h) BY DEF Admitted
  <2>2. CASE h = g BY <1>1, <1>2, <1>3, <2>1, <2>2 DEF Inv, AdmissionsExact
  <2>3. CASE h # g BY <1>1, <1>2, <2>1, <2>3 DEF Inv, AdmissionsExact
  <2> QED BY <2>2, <2>3
<1>7. IndexExact'
  <2>1. \A h \in Generations : /\ record'[h].state = "active" <=> record[h].state = "active"
                               /\ record'[h].session = record[h].session
    BY <1>1
  <2> QED BY <2>1 DEF Inv, IndexExact, ActiveRecords, ChannelOfGeneration
<1>8. MaintOf'
  <2> SUFFICES ASSUME NEW h \in Generations
               PROVE  /\ maint'[h].pc # "none" => record'[h].state \in Closed
                      /\ maint'[h].pc \notin {"none", "done"} => Known(h)'
                      /\ maint'[h].pc \in {"intent", "terminalize", "host", "discard"}
                            => record'[h].drained
                      /\ maint'[h].pc \in {"host", "discard"} => record'[h].state = "terminal"
    BY DEF MaintOf
  <2>1. CASE h = g BY <1>1, <2>1 DEF Closed, Known
  <2>2. CASE h # g BY <1>1, <2>2 DEF Inv, MaintOf, Known
  <2> QED BY <2>1, <2>2
<1>9. IntentsOf' BY <1>1 DEF Inv, IntentsOf, Closed, TypeOK
<1> QED BY <1>4, <1>5, <1>6, <1>7, <1>8, <1>9 DEF Inv

LEMMA MaintainInv ==
    ASSUME Inv, NEW g \in Generations, BeginClose(g) \/ Maintain(g)
    PROVE  Inv'
<1>t. TypeOK' /\ next \in Nat BY MaintainTypes DEF Inv, TypeOK
<1>1. ASSUME NEW from, NEW to, MaintStep(g, from, to)
      PROVE  /\ maint[g].pc = from /\ maint'[g].pc = to
             /\ \A h \in Generations \ {g} : maint'[h] = maint[h]
  BY <1>1 DEF MaintStep, Inv, TypeOK
<1>2. maint[g].pc \in {"intent", "terminalize", "host", "discard"} => record[g].drained
  BY DEF Inv, MaintOf
<1>3. CASE BeginClose(g)
  <2>1. CASE CanClose(g)
    BY <1>t, <1>3, <2>1, CloseInv DEF BeginClose
  <2>2. CASE ~CanClose(g)
    BY <1>t, <1>3, <2>2, QuietInv DEF BeginClose
  <2> QED BY <2>1, <2>2
<1>4. CASE Spawn(g)
  <2>1. /\ maint[g].pc = "spawn" /\ maint'[g].pc = "drain"
        /\ \A h \in Generations \ {g} : maint'[h] = maint[h]
    BY <1>4 DEF Spawn, Inv, TypeOK
  <2> QED BY <1>t, <1>4, <2>1, MoveInv DEF Spawn, registry
<1>5. CASE Drain(g)
  <2>1. /\ UNCHANGED <<record, next, active, credentials, requests, intents>>
        /\ \/ record[g].drained /\ MaintStep(g, "drain", "intent")
           \/ MaintStep(g, "drain", "retry")
    BY <1>5 DEF Drain, registry
  <2>2. /\ maint[g].pc = "drain"
        /\ maint'[g].pc = "retry" \/ (maint'[g].pc = "intent" /\ record[g].drained)
        /\ \A h \in Generations \ {g} : maint'[h] = maint[h]
    BY <1>1, <2>1
  <2> QED BY <1>t, <2>1, <2>2, MoveInv
<1>6. CASE RecordIntent(g)
  <2>1. /\ UNCHANGED <<record, next, active, credentials, requests>>
        /\ intents' = intents \/ intents' = intents \cup {g}
        /\ MaintStep(g, "intent", "terminalize") \/ MaintStep(g, "intent", "retry")
    BY <1>6 DEF RecordIntent, registry
  <2>2. /\ maint[g].pc = "intent" /\ maint'[g].pc \in {"terminalize", "retry"}
        /\ \A h \in Generations \ {g} : maint'[h] = maint[h]
    BY <1>1, <2>1
  <2> QED BY <1>t, <1>2, <2>1, <2>2, MoveInv
<1>7. CASE Terminalize(g)
  <2>1. maint[g].pc = "terminalize" BY <1>7 DEF Terminalize, MaintStep
  <2>2. record[g].state \in {"retired", "terminal"} /\ record[g].drained
    BY <1>2, <2>1 DEF Inv, MaintOf, Known, Closed
  <2>3. CASE record[g].admissions = 0
    <3>1. MaintStep(g, "terminalize", "host") /\ record' = [record EXCEPT ![g].state = "terminal"]
      BY <1>7, <2>2, <2>3 DEF Terminalize
    <3>2. maint'[g].pc = "host" /\ \A h \in Generations \ {g} : maint'[h] = maint[h]
      BY <1>1, <3>1
    <3> QED BY <1>t, <1>7, <2>2, <2>3, <3>1, <3>2, ClosedStateInv DEF Terminalize
  <2>4. CASE record[g].admissions # 0
    <3>1. MaintStep(g, "terminalize", "retry") /\ UNCHANGED record
      BY <1>7, <2>4 DEF Terminalize
    <3>2. maint'[g].pc = "retry" /\ \A h \in Generations \ {g} : maint'[h] = maint[h]
      BY <1>1, <3>1
    <3> QED BY <1>t, <1>7, <2>1, <3>1, <3>2, MoveInv DEF Terminalize
  <2> QED BY <2>3, <2>4
<1>8. CASE MaintainHost(g)
  <2>1. /\ UNCHANGED <<record, next, active, credentials, requests, intents>>
        /\ MaintStep(g, "host", "discard") \/ MaintStep(g, "host", "retry")
    BY <1>8 DEF MaintainHost, registry
  <2>2. /\ maint[g].pc = "host" /\ maint'[g].pc \in {"discard", "retry"}
        /\ \A h \in Generations \ {g} : maint'[h] = maint[h]
    BY <1>1, <2>1
  <2>3. record[g].state = "terminal" /\ record[g].drained BY <1>2, <2>2 DEF Inv, MaintOf
  <2> QED BY <1>t, <2>1, <2>2, <2>3, MoveInv
<1>9. CASE Discard(g)
  <2>1. /\ maint[g].pc = "discard" /\ maint'[g].pc = "done"
        /\ \A h \in Generations \ {g} : maint'[h] = maint[h]
    BY <1>1, <1>9 DEF Discard
  <2>2. record[g].state = "terminal" /\ record[g].drained BY <1>2, <2>1 DEF Inv, MaintOf
  <2>3. CASE record[g].admissions = 0
    BY <1>t, <1>9, <2>1, <2>2, <2>3, ClosedStateInv DEF Discard
  <2>4. CASE record[g].admissions # 0
    BY <1>t, <1>9, <2>1, <2>4, MoveInv DEF Discard
  <2> QED BY <2>3, <2>4
<1>10. CASE Retry(g)
  <2>1. /\ UNCHANGED <<record, next, active, credentials, requests, intents>>
        /\ MaintStep(g, "retry", "drain") \/ MaintStep(g, "retry", "done")
    BY <1>10 DEF Retry, registry
  <2>2. /\ maint[g].pc = "retry" /\ maint'[g].pc \in {"drain", "done"}
        /\ \A h \in Generations \ {g} : maint'[h] = maint[h]
    BY <1>1, <2>1
  <2> QED BY <1>t, <2>1, <2>2, MoveInv
<1> QED BY <1>3, <1>4, <1>5, <1>6, <1>7, <1>8, <1>9, <1>10 DEF Maintain

LEMMA OutsideInv ==
    ASSUME Inv, (\E x \in AccessSessions : EndPluginAccessSession(x)) \/ Run
    PROVE  Inv'
<1>t. TypeOK' /\ next \in Nat BY OutsideTypes DEF Inv, TypeOK
<1>1. ASSUME NEW x \in AccessSessions, EndPluginAccessSession(x) PROVE Inv'
  <2>1. PICK gs \in SUBSET Generations : retire(gs, FALSE)
    BY <1>1 DEF EndPluginAccessSession, ActiveRecords
  <2> QED BY <1>t, <1>1, <2>1, RetireInv DEF EndPluginAccessSession
<1>2. CASE StopAdmission
  <2>1. ActiveRecords \in SUBSET Generations BY DEF ActiveRecords
  <2> QED BY <1>t, <1>2, <2>1, RetireInv DEF StopAdmission
<1>3. CASE CancelRun \/ BeginSessionShutdown \/ WaitForSessions \/ WaitForPluginSessionCloses
  <2>1. UNCHANGED <<record, next, active, credentials, requests, maint, intents>>
    BY <1>3 DEF CancelRun, BeginSessionShutdown, WaitForSessions, WaitForPluginSessionCloses,
                registry
  <2> QED BY <1>t, <2>1, QuietInv
<1> QED BY <1>1, <1>2, <1>3 DEF Run

LEMMA NextInv == Inv /\ [Next]_vars => Inv'
<1> SUFFICES ASSUME Inv, [Next]_vars PROVE Inv' OBVIOUS
<1>1. CASE \E s \in HostSessions : Session(s) BY <1>1, SessionInv
<1>2. CASE \E q \in Requests : Request(q) BY <1>2, RequestInv
<1>3. CASE (\E x \in AccessSessions : EndPluginAccessSession(x)) \/ Run BY <1>3, OutsideInv
<1>4. CASE \E g \in Generations : BeginClose(g) \/ Maintain(g) BY <1>4, MaintainInv
<1>5. CASE UNCHANGED vars
  <2>1. next \in Nat BY DEF Inv, TypeOK
  <2>2. TypeOK' BY <1>5 DEF Inv, TypeOK, vars
  <2> QED BY <1>5, <2>1, <2>2, QuietInv DEF vars
<1> QED BY <1>1, <1>2, <1>3, <1>4, <1>5 DEF Next

LEMMA InvHolds == Spec => []Inv
BY InitInv, NextInv, PTL DEF Spec

----------------------------------------------------------------------------
(* Theorems. *)

\* The registry, the sessions, the requests and the maintainers stay within
\* their types; a count of admissions never goes below zero.
THEOREM SessionsTyped == Spec => []TypeOK
<1>1. Inv => TypeOK BY DEF Inv
<1> QED BY <1>1, InvHolds, PTL

\* pluginSessionRecord.admissions and drained say at every moment what the
\* requests say: how many hold an admission, and that the last one has left.
THEOREM AdmissionsCounted == Spec => []AdmissionsExact
<1>1. Inv => AdmissionsExact BY DEF Inv
<1> QED BY <1>1, InvHolds, PTL

\* byGeneration, active and credentials of the registry never disagree.
THEOREM IndexesAgree == Spec => []IndexExact
<1>1. Inv => IndexExact BY DEF Inv
<1> QED BY <1>1, InvHolds, PTL

\* No request runs under a generation whose terminal intent is recorded,
\* whatever the shutdown, the revocations and the sessions do meanwhile.
THEOREM NothingRunsAfterIntent == Spec => []NoAdmissionAfterIntent
<1>1. Inv => NoAdmissionAfterIntent
  <2> SUFFICES ASSUME Inv, NEW g \in intents PROVE Admitted(g) = {}
    BY DEF NoAdmissionAfterIntent
  <2>1. g \in Generations /\ record[g].drained BY DEF Inv, IntentsOf, TypeOK
  <2>2. CASE Known(g) BY <2>1, <2>2 DEF Inv, AdmissionsExact
  <2>3. CASE ~Known(g) BY <2>3 DEF Inv, RequestsOf, Admitted
  <2> QED BY <2>2, <2>3
<1> QED BY <1>1, InvHolds, PTL

\* terminalize and discard are called by maintainPluginSessionGeneration only
\* when the registry grants them.
THEOREM MaintenanceGranted == Spec => []MaintenanceNeverRejected
<1>1. Inv => MaintenanceNeverRejected
  <2> SUFFICES ASSUME Inv, NEW g \in Generations
      PROVE  /\ maint[g].pc = "terminalize" =>
                   record[g].state \in {"retired", "terminal"} /\ record[g].admissions = 0
             /\ maint[g].pc = "discard" => record[g].state = "terminal" /\ record[g].admissions = 0
    BY DEF MaintenanceNeverRejected
  <2>1. ASSUME maint[g].pc \in {"terminalize", "discard"}
        PROVE  Known(g) /\ record[g].drained /\ record[g].state \in Closed
    BY <2>1 DEF Inv, MaintOf
  <2>2. ASSUME maint[g].pc \in {"terminalize", "discard"} PROVE record[g].admissions = 0
    BY <2>1, <2>2, FS_EmptySet DEF Inv, AdmissionsExact
  <2>3. maint[g].pc = "discard" => record[g].state = "terminal" BY DEF Inv, MaintOf
  <2> QED BY <2>1, <2>2, <2>3 DEF Known, Closed
<1> QED BY <1>1, InvHolds, PTL

----------------------------------------------------------------------------
(***************************************************************************)
(* A shutdown in good order leaves no generation that nobody began to      *)
(* close.  A generation belongs to one session for ever, whose goroutine   *)
(* closes it before it returns if nobody else did, and Agent.Run passes    *)
(* from waiting for sessions to waiting for closes only when all returned. *)
(***************************************************************************)
OwnerInv ==
    \A g \in Generations : record[g].state # "none" =>
        /\ serving[record[g].session].generation = g
        /\ serving[record[g].session].pc \in {"open", "ending", "closing", "done"}

ReturnedInv ==
    \A s \in HostSessions :
        /\ serving[s].generation <= next
        /\ serving[s].pc \in {"closing", "done"} /\ serving[s].generation # 0 =>
              ~CanClose(serving[s].generation)

WaitingInv == pluginClosing => SessionsReturned

ShutdownInv == Inv /\ OwnerInv /\ ReturnedInv /\ WaitingInv

\* CanClose after a step, of a generation the step may have determined
CanCloseAfter(g) ==
    record'[g].state \in {"active", "retired", "terminal"} /\ ~record'[g].closeStarted

\* What no step but a registration does to the record of a generation.
RecordGoesOn(g) ==
    /\ record'[g].session = record[g].session
    /\ record'[g].state = "none" <=> record[g].state = "none"
    /\ CanCloseAfter(g) => CanClose(g)

\* retireLocked starts no record and reopens none.
LEMMA RetireGoesOn ==
    ASSUME TypeOK, NEW gs \in SUBSET Generations, NEW started \in BOOLEAN, retire(gs, started),
           NEW g \in Generations
    PROVE  RecordGoesOn(g) /\ (started /\ g \in gs => ~CanCloseAfter(g))
<1>1. record[g] \in Records BY DEF TypeOK, Records, States
<1>2. CASE g \notin gs
  <2>1. record'[g] = record[g] BY <1>2 DEF retire
  <2> QED BY <1>2, <2>1 DEF RecordGoesOn, CanCloseAfter, CanClose, Known
<1>3. CASE g \in gs
  <2>1. record'[g] = retired(record[g], started) BY <1>3 DEF retire
  <2> DEFINE r == record[g]
             st == IF r.state = "active" THEN "retired" ELSE r.state
             d == r.drained \/ (r.state = "active" /\ r.admissions = 0)
             cs == r.closeStarted \/ started
  <2>2. retired(r, started) = [r EXCEPT !.state = st, !.drained = d, !.closeStarted = cs]
    BY Zenon DEF retired
  <2> HIDE DEF d, st, cs
  <2>3. /\ retired(r, started).state = st /\ retired(r, started).session = r.session
        /\ retired(r, started).closeStarted = cs
    BY <1>1, <2>2 DEF Records
  <2> HIDE DEF r
  <2>4. /\ record'[g].state = st /\ record'[g].session = r.session
        /\ record'[g].closeStarted = cs /\ r = record[g]
    BY <2>1, <2>3 DEF r
  <2>5. (cs <=> (r.closeStarted \/ started)) BY DEF cs
  <2>6. st = IF r.state = "active" THEN "retired" ELSE r.state BY DEF st
  <2> QED BY <2>4, <2>5, <2>6 DEF RecordGoesOn, CanCloseAfter, CanClose, Known
<1> QED BY <1>2, <1>3

\* Other changes of a record keep its session and whether its close started.
LEMMA ChangeGoesOn ==
    ASSUME TypeOK, NEW g \in Generations, NEW h \in Generations, NEW r,
           record' = [record EXCEPT ![h] = r],
           r.session = record[h].session, r.closeStarted = record[h].closeStarted,
           \/ r.state = record[h].state
           \/ record[h].state # "none" /\ r.state \in {"terminal", "discarded"} /\ Known(h)
    PROVE  RecordGoesOn(g)
<1>1. CASE g = h
  <2>1. record'[g] = r BY <1>1 DEF TypeOK
  <2> QED BY <1>1, <2>1 DEF RecordGoesOn, CanCloseAfter, CanClose, Known
<1>2. CASE g # h
  <2>1. record'[g] = record[g] BY <1>2 DEF TypeOK
  <2> QED BY <2>1 DEF RecordGoesOn, CanCloseAfter, CanClose, Known
<1> QED BY <1>1, <1>2

\* No step but Activate starts or reopens a record.
LEMMA RecordsGoOn ==
    ASSUME Inv, Next, ~\E s \in HostSessions : Activate(s), NEW g \in Generations
    PROVE  RecordGoesOn(g)
<1>t. TypeOK BY DEF Inv
<1>r. \A h \in Generations : record[h] \in Records BY <1>t DEF TypeOK, Records, States
<1>1. CASE UNCHANGED record BY <1>1 DEF RecordGoesOn, CanCloseAfter, CanClose, Known
<1>2. ASSUME NEW s \in HostSessions, Session(s) PROVE RecordGoesOn(g)
  <2>1. CASE CloseOwn(s) /\ ~UNCHANGED record
    <3>1. PICK to \in {"spawn", "drain"} : beginClose(serving[s].generation, s, to)
      BY <2>1 DEF CloseOwn
    <3>2. serving[s].generation # 0 /\ serving[s].generation \in Generations
      BY <1>t, <2>1 DEF CloseOwn, TypeOK
    <3> QED BY <1>t, <3>1, <3>2, RetireGoesOn DEF beginClose
  <2>2. CASE Connect(s) \/ ActivateFails(s) \/ EndSession(s) \/ Return(s)
    BY <1>1, <2>2 DEF Connect, ActivateFails, EndSession, Return, registry
  <2> QED BY <1>1, <1>2, <2>1, <2>2 DEF Session
<1>3. ASSUME NEW q \in Requests, Request(q) PROVE RecordGoesOn(g)
  <2>1. ASSUME NEW h \in Generations, Admit(q, h) PROVE RecordGoesOn(g)
    <3> DEFINE n == record[h].admissions + 1
               r == [record[h] EXCEPT !.admissions = n]
    <3>1. record' = [record EXCEPT ![h] = r] BY <2>1, Zenon DEF Admit
    <3> HIDE DEF n
    <3>2. /\ r.session = record[h].session /\ r.closeStarted = record[h].closeStarted
          /\ r.state = record[h].state
      BY <1>r DEF Records
    <3> HIDE DEF r
    <3> QED BY <1>t, <3>1, <3>2, ChangeGoesOn
  <2>2. ASSUME NEW revoke \in BOOLEAN, Finish(q, revoke) PROVE RecordGoesOn(g)
    <3> DEFINE h == requests[q].generation
               n == record[h].admissions - 1
               d == record[h].drained \/ (record[h].state # "active" /\ record[h].admissions = 1)
               r == [record[h] EXCEPT !.admissions = n, !.drained = d]
    <3>1. h \in Generations BY <2>2 DEF Finish, Inv, RequestsOf
    <3>2. record' = record \/ record' = [record EXCEPT ![h] = r]
      BY <2>2, ZenonT(60) DEF Finish, release
    <3> HIDE DEF n, d
    <3>3. /\ r.session = record[h].session /\ r.closeStarted = record[h].closeStarted
          /\ r.state = record[h].state
      BY <1>r, <3>1 DEF Records
    <3> HIDE DEF r, h
    <3> QED BY <1>t, <1>1, <3>1, <3>2, <3>3, ChangeGoesOn
  <2>3. CASE EndPluginSession(q) BY <1>1, <2>3 DEF EndPluginSession, registry
  <2> QED BY <1>3, <2>1, <2>2, <2>3 DEF Request
<1>4. ASSUME NEW x \in AccessSessions, EndPluginAccessSession(x) PROVE RecordGoesOn(g)
  <2>1. PICK gs \in SUBSET Generations : retire(gs, FALSE)
    BY <1>4 DEF EndPluginAccessSession, ActiveRecords
  <2> QED BY <1>t, <2>1, RetireGoesOn
<1>5. ASSUME NEW h \in Generations, BeginClose(h) PROVE RecordGoesOn(g)
  BY <1>t, <1>1, <1>5, RetireGoesOn DEF BeginClose, beginClose
<1>6. ASSUME NEW h \in Generations, Maintain(h) PROVE RecordGoesOn(g)
  <2>1. ASSUME NEW st \in {"terminal", "discarded"}, record' = [record EXCEPT ![h].state = st],
               Known(h)
        PROVE  RecordGoesOn(g)
    <3> DEFINE r == [record[h] EXCEPT !.state = st]
    <3>1. record' = [record EXCEPT ![h] = r] BY <2>1, Zenon
    <3>2. r.session = record[h].session /\ r.closeStarted = record[h].closeStarted /\ r.state = st
      BY <1>r DEF Records
    <3>3. record[h].state # "none" BY <2>1 DEF Known
    <3> HIDE DEF r
    <3> QED BY <1>t, <2>1, <3>1, <3>2, <3>3, ChangeGoesOn
  <2>2. CASE Terminalize(h)
    <3>1. Known(h) BY <2>2 DEF Terminalize, MaintStep, Inv, MaintOf
    <3> QED BY <1>1, <2>1, <2>2, <3>1 DEF Terminalize
  <2>3. CASE Discard(h)
    <3>1. Known(h) BY <2>3 DEF Discard, MaintStep, Inv, MaintOf
    <3> QED BY <1>1, <2>1, <2>3, <3>1 DEF Discard
  <2>4. CASE Spawn(h) \/ Drain(h) \/ RecordIntent(h) \/ MaintainHost(h) \/ Retry(h)
    BY <1>1, <2>4 DEF Spawn, Drain, RecordIntent, MaintainHost, Retry, registry
  <2> QED BY <1>6, <2>2, <2>3, <2>4 DEF Maintain
<1>7. CASE Run
  <2>1. CASE StopAdmission
    <3>1. ActiveRecords \in SUBSET Generations BY DEF ActiveRecords
    <3> QED BY <1>t, <2>1, <3>1, RetireGoesOn DEF StopAdmission
  <2>2. CASE ~StopAdmission
    BY <1>1, <1>7, <2>2 DEF Run, CancelRun, BeginSessionShutdown, WaitForSessions,
       WaitForPluginSessionCloses, registry
  <2> QED BY <2>1, <2>2
<1> QED BY <1>2, <1>3, <1>4, <1>5, <1>6, <1>7 DEF Next

\* How the goroutine of a session moves in a step that registers nothing.
LEMMA ServingMoves ==
    ASSUME TypeOK, Next, ~\E k \in HostSessions : Activate(k), NEW s \in HostSessions
    PROVE  /\ serving'[s].generation = serving[s].generation
           /\ \/ serving'[s].pc = serving[s].pc
              \/ Connect(s)
              \/ serving[s].pc \in {"connected", "open"} /\ serving'[s].pc \in {"open", "ending"}
              \/ CloseOwn(s)
              \/ serving[s].pc = "closing" /\ serving'[s].pc = "done"
<1>1. CASE UNCHANGED serving BY <1>1
<1>2. ASSUME NEW k \in HostSessions, NEW to, Serving(k, to)
      PROVE  /\ serving'[s].generation = serving[s].generation
             /\ serving'[s].pc = IF s = k THEN to ELSE serving[s].pc
  <2>1. serving \in [HostSessions -> Servings] BY DEF TypeOK, Servings
  <2>2. serving' = [serving EXCEPT ![k] = [serving[k] EXCEPT !.pc = to]] BY <1>2, Zenon DEF Serving
  <2> DEFINE r == [serving[k] EXCEPT !.pc = to]
  <2>3. r.pc = to /\ r.generation = serving[k].generation BY <2>1 DEF Servings
  <2> HIDE DEF r
  <2> QED BY <2>1, <2>2, <2>3 DEF r
<1>3. ASSUME NEW k \in HostSessions, Session(k)
      PROVE  \/ Connect(k)
             \/ serving[k].pc = "connected" /\ Serving(k, "open")
             \/ serving[k].pc \in {"connected", "open"} /\ Serving(k, "ending")
             \/ CloseOwn(k) /\ (Serving(k, "closing") \/ Serving(k, "done"))
             \/ serving[k].pc = "closing" /\ Serving(k, "done")
  BY <1>3 DEF Session, ActivateFails, EndSession, CloseOwn, Return
<1>4. CASE \E k \in HostSessions : Session(k)
  <2>1. PICK k \in HostSessions : Session(k) BY <1>4
  <2>2. Connect(k) => Serving(k, "connected") BY DEF Connect
  <2> QED BY <1>2, <1>3, <2>1, <2>2
<1>5. (\E q \in Requests : Request(q)) => UNCHANGED serving
  BY DEF Request, Admit, Finish, EndPluginSession
<1>6. (\E x \in AccessSessions : EndPluginAccessSession(x)) => UNCHANGED serving
  BY DEF EndPluginAccessSession
<1>7. (\E g \in Generations : BeginClose(g) \/ Maintain(g)) => UNCHANGED serving
  BY DEF BeginClose, Maintain, Spawn, Drain, RecordIntent, Terminalize, MaintainHost, Discard, Retry
<1>8. Run => UNCHANGED serving
  BY DEF Run, CancelRun, BeginSessionShutdown, StopAdmission, WaitForSessions, WaitForPluginSessionCloses
<1> QED BY <1>1, <1>4, <1>5, <1>6, <1>7, <1>8 DEF Next

\* A session that is over has its generation closed, or had it closed before.
LEMMA ClosedOwn ==
    ASSUME TypeOK, NEW s \in HostSessions, CloseOwn(s), serving[s].generation # 0
    PROVE  ~CanCloseAfter(serving[s].generation)
<1> DEFINE g == serving[s].generation
<1>0. g \in Generations BY DEF TypeOK
<1>1. CASE CanClose(g)
  <2>1. PICK to \in {"spawn", "drain"} : beginClose(g, s, to) BY <1>1 DEF CloseOwn
  <2>2. retire({g}, TRUE) BY <2>1 DEF beginClose
  <2> HIDE DEF g
  <2>3. ~CanCloseAfter(g) BY <1>0, <2>2, RetireGoesOn
  <2> QED BY <2>3 DEF g
<1>2. CASE ~CanClose(g) BY <1>2 DEF CloseOwn, CanCloseAfter, CanClose, Known
<1> QED BY <1>1, <1>2

\* At the start there is no generation.
LEMMA InitShutdown == Init => ShutdownInv
<1> SUFFICES ASSUME Init PROVE ShutdownInv OBVIOUS
<1>1. Inv BY InitInv
<1>2. OwnerInv /\ ReturnedInv /\ WaitingInv
  BY PluginConstants DEF Init, OwnerInv, ReturnedInv, WaitingInv, pluginClosing, NoRecord
<1> QED BY <1>1, <1>2 DEF ShutdownInv

\* So does a registration, which starts the record of a new number.
LEMMA ActivateShutdown ==
    ASSUME ShutdownInv, Inv', NEW s \in HostSessions, Activate(s)
    PROVE  ShutdownInv'
<1>1. /\ TypeOK /\ RecordsOf /\ next \in Nat /\ next + 1 \in Generations /\ next' = next + 1
  BY PluginConstants DEF ShutdownInv, Inv, Activate, TypeOK, Generations, registered
<1>2. /\ record'[next + 1].session = s
      /\ \A g \in Generations \ {next + 1} : record'[g] = record[g]
  BY <1>1 DEF Activate, registered, TypeOK, NoRecord
<1>3. /\ serving'[s].pc = "open" /\ serving'[s].generation = next + 1
      /\ \A k \in HostSessions \ {s} : serving'[k] = serving[k]
      /\ serving[s].pc = "connected"
  BY <1>1 DEF Activate, TypeOK
<1>4. OwnerInv'
  <2> SUFFICES ASSUME NEW g \in Generations, record'[g].state # "none"
               PROVE  /\ serving'[record'[g].session].generation = g
                      /\ serving'[record'[g].session].pc \in {"open", "ending", "closing", "done"}
    BY DEF OwnerInv
  <2>1. CASE g = next + 1 BY <1>2, <1>3, <2>1
  <2>2. CASE g # next + 1
    <3>1. /\ serving[record[g].session].generation = g /\ record[g].session \in HostSessions
          /\ serving[record[g].session].pc \in {"open", "ending", "closing", "done"}
      BY <1>1, <1>2, <2>2 DEF ShutdownInv, OwnerInv, RecordsOf
    <3>2. record[g].session # s BY <1>3, <3>1
    <3> QED BY <1>2, <1>3, <2>2, <3>1, <3>2
  <2> QED BY <2>1, <2>2
<1>5. ReturnedInv'
  <2> SUFFICES ASSUME NEW k \in HostSessions
               PROVE  /\ serving'[k].generation <= next'
                      /\ serving'[k].pc \in {"closing", "done"} /\ serving'[k].generation # 0 =>
                            ~CanCloseAfter(serving'[k].generation)
    BY DEF ReturnedInv, CanCloseAfter, CanClose, Known
  <2>1. CASE k = s BY <1>1, <1>3, <2>1
  <2>2. CASE k # s
    <3>1. serving'[k] = serving[k] BY <1>3, <2>2
    <3> DEFINE g == serving[k].generation
    <3>2. g \in {0} \cup Generations /\ g <= next /\ g \in Nat
      BY <1>1 DEF ShutdownInv, ReturnedInv, TypeOK, Generations
    <3>3. ASSUME serving[k].pc \in {"closing", "done"}, g # 0 PROVE ~CanCloseAfter(g)
      <4>1. ~CanClose(g) BY <3>3 DEF ShutdownInv, ReturnedInv
      <4>2. record'[g] = record[g] BY <1>1, <1>2, <3>2, <3>3
      <4> QED BY <4>1, <4>2 DEF CanCloseAfter, CanClose, Known
    <3> QED BY <1>1, <3>1, <3>2, <3>3 DEF CanCloseAfter, CanClose, Known
  <2> QED BY <2>1, <2>2
<1>6. WaitingInv'
  <2>1. ~SessionsReturned BY <1>3 DEF SessionsReturned
  <2> QED BY <2>1 DEF ShutdownInv, WaitingInv, pluginClosing, Activate
<1> QED BY <1>4, <1>5, <1>6 DEF ShutdownInv

\* Every step preserves the invariant.
LEMMA NextShutdown == ShutdownInv /\ [Next]_vars => ShutdownInv'
<1> SUFFICES ASSUME ShutdownInv, [Next]_vars PROVE ShutdownInv' OBVIOUS
<1>t. Inv' /\ Inv /\ TypeOK /\ RecordsOf /\ next \in Nat
  BY NextInv DEF ShutdownInv, Inv, TypeOK
<1>1. CASE UNCHANGED vars
  BY <1>t, <1>1 DEF ShutdownInv, OwnerInv, ReturnedInv, WaitingInv, SessionsReturned, pluginClosing,
                    CanClose, Known, vars
<1>2. CASE \E s \in HostSessions : Activate(s) BY <1>t, <1>2, ActivateShutdown
<1>3. CASE Next /\ ~\E s \in HostSessions : Activate(s)
  <2>1. \A g \in Generations : RecordGoesOn(g) BY <1>t, <1>3, RecordsGoOn
  <2>2. next <= next' /\ next' \in Nat
    <3>1. next' \in Nat BY <1>t DEF Inv, TypeOK
    <3>2. next' \in {next, next + 1}
      BY <1>3 DEF Next, Session, Connect, ActivateFails, EndSession, CloseOwn, Return, Request, Admit,
         Finish, EndPluginSession, EndPluginAccessSession, BeginClose, Maintain, Spawn, Drain,
         RecordIntent, Terminalize, MaintainHost, Discard, Retry, Run, CancelRun,
         BeginSessionShutdown, StopAdmission, WaitForSessions, WaitForPluginSessionCloses, registry
    <3> QED BY <1>t, <3>1, <3>2
  <2>3. OwnerInv'
    <3> SUFFICES ASSUME NEW g \in Generations, record'[g].state # "none"
                 PROVE  /\ serving'[record'[g].session].generation = g
                        /\ serving'[record'[g].session].pc \in {"open", "ending", "closing", "done"}
      BY DEF OwnerInv
    <3> DEFINE s == record[g].session
    <3>1. record'[g].session = s /\ record[g].state # "none" BY <2>1 DEF RecordGoesOn
    <3>2. /\ serving[s].generation = g /\ s \in HostSessions
          /\ serving[s].pc \in {"open", "ending", "closing", "done"}
      BY <1>t, <3>1 DEF ShutdownInv, OwnerInv, RecordsOf
    <3> HIDE DEF s
    <3>3. ~Connect(s) BY <3>2 DEF Connect
    <3>4. CloseOwn(s) => serving'[s].pc \in {"closing", "done"}
      BY <1>t, <3>2 DEF CloseOwn, Serving, TypeOK
    <3> QED BY <1>t, <1>3, <3>1, <3>2, <3>3, <3>4, ServingMoves
  <2>4. ReturnedInv'
    <3> SUFFICES ASSUME NEW s \in HostSessions
                 PROVE  /\ serving'[s].generation <= next'
                        /\ serving'[s].pc \in {"closing", "done"} /\ serving'[s].generation # 0 =>
                              ~CanCloseAfter(serving'[s].generation)
      BY DEF ReturnedInv, CanCloseAfter, CanClose, Known
    <3> DEFINE g == serving[s].generation
    <3>1. serving'[s].generation = g BY <1>t, <1>3, ServingMoves
    <3>2. g \in {0} \cup Generations /\ g <= next /\ g \in Nat
      BY <1>t DEF ShutdownInv, ReturnedInv, TypeOK, Generations
    <3>3. ASSUME serving'[s].pc \in {"closing", "done"}, g # 0 PROVE ~CanCloseAfter(g)
      <4>1. CASE CloseOwn(s) BY <1>t, <3>3, <4>1, ClosedOwn DEF CanCloseAfter, CanClose, Known
      <4>2. CASE serving[s].pc \in {"closing", "done"}
        BY <2>1, <3>2, <3>3, <4>2 DEF ShutdownInv, ReturnedInv, RecordGoesOn
      <4>3. Connect(s) => serving'[s].pc = "connected" BY <1>t DEF Connect, Serving, TypeOK
      <4> QED BY <1>t, <1>3, <3>3, <4>1, <4>2, <4>3, ServingMoves
    <3> QED BY <1>t, <2>2, <3>1, <3>2, <3>3 DEF CanCloseAfter, CanClose, Known
  <2>5. WaitingInv'
    <3> SUFFICES ASSUME pluginClosing', NEW s \in HostSessions PROVE serving'[s].pc \in {"idle", "done"}
      BY DEF WaitingInv, SessionsReturned
    <3>1. phase' = phase \/ Run
      BY <1>3 DEF Next, Session, Connect, ActivateFails, EndSession, CloseOwn, Return, Request, Admit,
         Finish, EndPluginSession, EndPluginAccessSession, BeginClose, Maintain, Spawn, Drain,
         RecordIntent, Terminalize, MaintainHost, Discard, Retry
    <3>2. SessionsReturned /\ phase \in {"waitSessions", "waitCloses", "closed"}
      BY <3>1 DEF Run, CancelRun, BeginSessionShutdown, StopAdmission, WaitForSessions,
         WaitForPluginSessionCloses, RunStep, pluginClosing, ShutdownInv, WaitingInv
    <3>3. ~Connect(s) /\ ~CloseOwn(s) BY <3>2 DEF Connect, CloseOwn, SessionsReturned
    <3> QED BY <1>t, <1>3, <3>2, <3>3, ServingMoves DEF SessionsReturned
  <2> QED BY <1>t, <2>3, <2>4, <2>5 DEF ShutdownInv
<1> QED BY <1>1, <1>2, <1>3

\* A shutdown in good order leaves no generation that nobody began to close.
THEOREM ShutdownClosesAll == Spec => []NothingLeftOpen
<1>1. ShutdownInv => NothingLeftOpen
  <2> SUFFICES ASSUME ShutdownInv, phase = "closed", NEW g \in Generations, Known(g)
               PROVE  record[g].closeStarted
    BY DEF NothingLeftOpen
  <2> DEFINE s == record[g].session
  <2>1. /\ s \in HostSessions /\ serving[s].generation = g
        /\ serving[s].pc \in {"open", "ending", "closing", "done"}
    BY DEF ShutdownInv, Inv, RecordsOf, OwnerInv, Known
  <2>2. serving[s].pc = "done"
    BY <2>1 DEF ShutdownInv, WaitingInv, pluginClosing, SessionsReturned
  <2>3. g # 0 BY PluginConstants DEF Generations
  <2> QED BY <2>1, <2>2, <2>3 DEF ShutdownInv, ReturnedInv, CanClose
<1> QED BY <1>1, InitShutdown, NextShutdown, PTL DEF Spec
=============================================================================
