--------------------------- MODULE SSHTransportProofs ---------------------------
(***************************************************************************)
(* What holds of the shared SSH connections for any number of callers,     *)
(* connection objects and reconnections.                                   *)
(***************************************************************************)
EXTENDS SSHTransport, FiniteSetTheorems, TLAPS

EntryRecords ==
    [phase : {"creating", "open", "closing", "closed"},
     password : Passwords, generation : 0..(MaxGeneration + 2),
     master : {0} \cup Generations, connect : {"none", "preparing", "checking"},
     task : {0} \cup Generations, leases : 0..Cardinality(Callers),
     idle : BOOLEAN, stray : BOOLEAN, killed : {0} \cup Generations]

ProcessStates == {"none", "starting", "left", "up", "ending", "exited"}

CallerRecords ==
    [pc : {"idle", "creating", "created", "replacing", "waiting", "leased"},
     entry : Entries \cup {None}, recheck : BOOLEAN,
     generation : 0..(MaxGeneration + 2), own : {0} \cup Generations]

\* The current master is the one of the current generation, a connect task that
\* has not started one can still count up, and the process a task waits for is
\* the one of the current generation or its close event was processed.
Sound(n, p) ==
    /\ n.master # 0 => n.master = n.generation
    /\ n.connect = "preparing" =>
         /\ n.generation <= MaxGeneration
         /\ n.generation = MaxGeneration => n.master = 0
    /\ n.connect = "checking" =>
         /\ n.task # 0
         /\ n.generation = n.task \/ p[n.task] = "none"

\* A caller that is under way refers to an entry, and a lease remembers the
\* generation of the process it was given on.
Placed(k) ==
    /\ k.pc # "idle" => k.entry \in Entries
    /\ k.pc = "leased" => k.own = k.generation

\* Whoever will not compare the credentials again fits those of its entry.
Bound(k) == k.pc \in {"waiting", "leased"} \/ (k.pc \in {"creating", "created"} /\ ~k.recheck)
Fits(k, password, n) ==
    k.pc # "idle" =>
      /\ n.phase = "creating" => k.pc = "creating"
      /\ n.phase \in {"creating", "open"} /\ Bound(k) => password \in {Omitted, n.password}

Counted(e) == entry[e].leases = Cardinality(At("leased", e))

Inv ==
    /\ TypeOK
    /\ \A e \in Entries : Sound(entry[e], process[e]) /\ Counted(e)
    /\ \A c \in Callers : Placed(caller[c]) /\ Fits(caller[c], PasswordOf[c], entry[caller[c].entry])

-----------------------------------------------------------------------------
(* Values, counts and parts of the invariant.                              *)

\* Zero is no entry and no generation; passwords of entries.
LEMMA Numbers ==
    ASSUME SSHConstants
    PROVE  /\ None \notin Entries /\ 0 \notin Generations
           /\ Entries \subseteq Nat /\ Generations \subseteq Nat
           /\ \A n \in Nat : n \in Generations <=> 1 <= n /\ n <= MaxGeneration + 1
           /\ Empty \in Passwords
           /\ \A c \in Callers : PasswordOf[c] \in Passwords
BY DEF SSHConstants, None, Entries, Generations, Passwords

\* The types of TypeOK with the sorts named.
LEMMA Types ==
    TypeOK <=>
      /\ entries \in Entries \cup {None}
      /\ pending \in Entries \cup {None}
      /\ entry \in [Entries -> EntryRecords]
      /\ process \in [Entries -> [Generations -> ProcessStates]]
      /\ caller \in [Callers -> CallerRecords]
      /\ disposed \in {"no", "disposing", "yes"}
      /\ entries # None => entry[entries].phase \in {"open", "closing"}
      /\ pending # None => entry[pending].phase = "creating"
BY DEF TypeOK, EntryRecords, ProcessStates, CallerRecords

\* The callers at an entry are finitely many, at most all.
LEMMA AtFinite ==
    ASSUME SSHConstants, NEW pc, NEW e
    PROVE  /\ IsFiniteSet(At(pc, e))
           /\ Cardinality(At(pc, e)) \in 0..Cardinality(Callers)
<1>1. At(pc, e) \subseteq Callers
  BY DEF At
<1>2. IsFiniteSet(At(pc, e)) /\ Cardinality(At(pc, e)) <= Cardinality(Callers)
  BY <1>1, FS_Subset DEF SSHConstants
<1>3. Cardinality(At(pc, e)) \in Nat /\ Cardinality(Callers) \in Nat
  BY <1>2, FS_CardinalityType DEF SSHConstants
<1>4. QED
  BY <1>2, <1>3

\* A caller that neither has nor gets a lease disturbs no count.
LEMMA CountKept ==
    ASSUME Inv, SSHConstants, NEW c \in Callers, NEW k,
           caller[c].pc # "leased", k.pc # "leased",
           caller' = [caller EXCEPT ![c] = k],
           NEW e \in Entries, entry'[e].leases = entry[e].leases
    PROVE  Counted(e)'
<1>1. caller \in [Callers -> CallerRecords]
  BY Types DEF Inv
<1>2. At("leased", e)' = At("leased", e)
  BY <1>1 DEF At
<1>3. QED
  BY <1>2 DEF Inv, Counted

\* A new lease counts for its entry alone.
LEMMA CountMore ==
    ASSUME Inv, SSHConstants, NEW c \in Callers, NEW k,
           caller[c].pc # "leased", k.pc = "leased",
           caller' = [caller EXCEPT ![c] = k],
           NEW e \in Entries,
           entry'[e].leases = IF e = k.entry THEN entry[e].leases + 1 ELSE entry[e].leases
    PROVE  Counted(e)'
<1>1. caller \in [Callers -> CallerRecords]
  BY Types DEF Inv
<1>2. CASE e = k.entry
  <2>1. At("leased", e)' = At("leased", e) \cup {c} /\ c \notin At("leased", e)
    BY <1>1, <1>2 DEF At
  <2>2. Cardinality(At("leased", e) \cup {c}) = Cardinality(At("leased", e)) + 1
    BY <2>1, AtFinite, FS_AddElement
  <2>3. QED
    BY <1>2, <2>1, <2>2 DEF Inv, Counted
<1>3. CASE e # k.entry
  <2>1. At("leased", e)' = At("leased", e)
    BY <1>1, <1>3 DEF At
  <2>2. QED
    BY <1>3, <2>1 DEF Inv, Counted
<1>4. QED
  BY <1>2, <1>3

\* A lease given back.
LEMMA CountLess ==
    ASSUME Inv, SSHConstants, NEW c \in Callers, caller[c].pc = "leased", Fails(c),
           NEW e \in Entries,
           entry'[e].leases = IF e = caller[c].entry THEN entry[e].leases - 1 ELSE entry[e].leases
    PROVE  Counted(e)'
<1>1. caller \in [Callers -> CallerRecords]
  BY Types DEF Inv
<1>2. CASE e = caller[c].entry
  <2>1. At("leased", e)' = At("leased", e) \ {c} /\ c \in At("leased", e)
    BY <1>1, <1>2 DEF At, Fails, NoCaller
  <2>2. Cardinality(At("leased", e) \ {c}) = Cardinality(At("leased", e)) - 1
    BY <2>1, AtFinite, FS_RemoveElement
  <2>3. QED
    BY <1>2, <2>1, <2>2 DEF Inv, Counted
<1>3. CASE e # caller[c].entry
  <2>1. At("leased", e)' = At("leased", e)
    BY <1>1, <1>3 DEF At, Fails, NoCaller
  <2>2. QED
    BY <1>3, <2>1 DEF Inv, Counted
<1>4. QED
  BY <1>2, <1>3

\* Nothing that is done to entries but opening them disturbs a caller that stays.
LEMMA CallerKept ==
    ASSUME Inv, NEW c \in Callers, caller'[c] = caller[c],
           \A e \in Entries : \/ /\ entry'[e].phase = entry[e].phase
                                 /\ entry'[e].password = entry[e].password
                              \/ entry'[e].phase \in {"closing", "closed"}
    PROVE  Placed(caller[c])' /\ Fits(caller[c], PasswordOf[c], entry[caller[c].entry])'
BY DEF Inv, Placed, Fits, Bound

\* Who is idle is at no entry.
LEMMA IdleCaller ==
    ASSUME NEW c \in Callers, caller'[c] = NoCaller
    PROVE  Placed(caller[c])' /\ Fits(caller[c], PasswordOf[c], entry[caller[c].entry])'
BY DEF NoCaller, Placed, Fits

\* A step of an entry may change its process states as long as a process that
\* is gone stays gone.
LEMMA SoundKept ==
    ASSUME NEW n, NEW p, NEW q, Sound(n, p), n \in EntryRecords,
           \A g \in Generations : p[g] = "none" => q[g] = "none"
    PROVE  Sound(n, q)
BY DEF Sound, EntryRecords

\* A process that is told to end.
LEMMA KilledStep ==
    ASSUME Inv, SSHConstants, NEW e \in Entries, NEW g \in {0} \cup Generations
    PROVE  /\ Killed(e, g) \in [Entries -> [Generations -> ProcessStates]]
           /\ \A f \in Entries : f # e => Killed(e, g)[f] = process[f]
           /\ \A h \in Generations : process[e][h] = "none" => Killed(e, g)[e][h] = "none"
<1>1. process \in [Entries -> [Generations -> ProcessStates]]
  BY Types DEF Inv
<1>2. CASE processAlive(e, g)
  <2>1. g \in Generations /\ process[e][g] # "none"
    BY <1>2, Numbers DEF processAlive
  <2>2. Killed(e, g) = [process EXCEPT ![e][g] = "ending"]
    BY <1>2 DEF Killed
  <2>3. QED
    BY <1>1, <2>1, <2>2 DEF ProcessStates
<1>3. CASE ~processAlive(e, g)
  BY <1>1, <1>3 DEF Killed
<1>4. QED
  BY <1>2, <1>3

\* A master that is told to end or left alone.
LEMMA MasterToldStep ==
    ASSUME Inv, SSHConstants, NEW e \in Entries, NEW g \in {0} \cup Generations,
           process' = Killed(e, g) \/ process' = Left(e, g)
    PROVE  /\ process' \in [Entries -> [Generations -> ProcessStates]]
           /\ \A f \in Entries : f # e => process'[f] = process[f]
           /\ \A h \in Generations : process[e][h] = "none" => process'[e][h] = "none"
<1>1. process \in [Entries -> [Generations -> ProcessStates]]
  BY Types DEF Inv
<1>2. CASE process' = Killed(e, g)
  BY <1>2, KilledStep
<1>3. CASE process' = Left(e, g) /\ g # 0 /\ process[e][g] = "starting"
  <2>1. process' = [process EXCEPT ![e][g] = "left"] /\ g \in Generations
    BY <1>3 DEF Left
  <2>2. QED
    BY <1>1, <1>3, <2>1 DEF ProcessStates
<1>4. CASE process' = Left(e, g) /\ ~(g # 0 /\ process[e][g] = "starting")
  BY <1>1, <1>4 DEF Left
<1>5. QED
  BY <1>2, <1>3, <1>4

\* An entry that is closed is sound and keeps its leases.
LEMMA ClosedEntry ==
    ASSUME Inv, SSHConstants, NEW e \in Entries
    PROVE  /\ Closed(e) \in EntryRecords
           /\ Closed(e).phase = "closing" /\ Closed(e).leases = entry[e].leases
           /\ Closed(e).generation = entry[e].generation
           /\ Sound(Closed(e), process[e])
<1>1. entry[e] \in EntryRecords /\ Sound(entry[e], process[e])
  BY Types DEF Inv
<1>2. Empty \in Passwords
  BY Numbers
<1>3. Closed(e) \in EntryRecords
  BY <1>1, <1>2 DEF Closed, EntryRecords
<1>4. QED
  BY <1>1, <1>3 DEF Closed, EntryRecords, Sound

\* closeEntry of a set of entries.
LEMMA CloseStep ==
    ASSUME Inv, SSHConstants, NEW set, Close(set)
    PROVE  /\ entry' \in [Entries -> EntryRecords]
           /\ process' \in [Entries -> [Generations -> ProcessStates]]
           /\ \A e \in Entries :
                /\ Sound(entry[e], process[e])'
                /\ entry'[e].leases = entry[e].leases
                /\ \/ /\ entry'[e].phase = entry[e].phase
                      /\ entry'[e].password = entry[e].password
                   \/ entry[e].phase = "open" /\ entry'[e].phase = "closing"
<1>. DEFINE closing == {e \in set : entry[e].phase = "open"}
<1>1. /\ entry' = [e \in Entries |-> IF e \in closing THEN Closed(e) ELSE entry[e]]
      /\ process' = [e \in Entries |-> IF e \in closing THEN Killed(e, entry[e].master)[e]
                                                        ELSE process[e]]
  BY DEF Close
<1>2. /\ entry \in [Entries -> EntryRecords]
      /\ process \in [Entries -> [Generations -> ProcessStates]]
  BY Types DEF Inv
<1>3. SUFFICES ASSUME NEW e \in Entries
               PROVE  /\ entry'[e] \in EntryRecords
                      /\ process'[e] \in [Generations -> ProcessStates]
                      /\ Sound(entry[e], process[e])'
                      /\ entry'[e].leases = entry[e].leases
                      /\ \/ /\ entry'[e].phase = entry[e].phase
                            /\ entry'[e].password = entry[e].password
                         \/ entry[e].phase = "open" /\ entry'[e].phase = "closing"
  BY <1>1
<1>4. CASE e \in closing
  <2>1. entry'[e] = Closed(e) /\ process'[e] = Killed(e, entry[e].master)[e]
    BY <1>1, <1>4
  <2>2. entry[e].master \in {0} \cup Generations
    BY <1>2 DEF EntryRecords
  <2>3. /\ process'[e] \in [Generations -> ProcessStates]
        /\ \A h \in Generations : process[e][h] = "none" => process'[e][h] = "none"
    <3>1. /\ Killed(e, entry[e].master) \in [Entries -> [Generations -> ProcessStates]]
          /\ \A h \in Generations :
               process[e][h] = "none" => Killed(e, entry[e].master)[e][h] = "none"
      BY <2>2, KilledStep
    <3>2. QED
      BY <2>1, <3>1
  <2>4. Sound(Closed(e), process'[e])
    BY <2>3, ClosedEntry, SoundKept
  <2>5. QED
    BY <1>4, <2>1, <2>3, <2>4, ClosedEntry
<1>5. CASE e \notin closing
  <2>1. entry'[e] = entry[e] /\ process'[e] = process[e]
    BY <1>1, <1>5
  <2>2. QED
    BY <1>2, <2>1 DEF Inv
<1>6. QED
  BY <1>4, <1>5

\* The invariant after a step, from its parts.
LEMMA Assembled ==
    ASSUME entries' \in Entries \cup {None}, pending' \in Entries \cup {None},
           entry' \in [Entries -> EntryRecords],
           process' \in [Entries -> [Generations -> ProcessStates]],
           caller' \in [Callers -> CallerRecords],
           disposed' \in {"no", "disposing", "yes"},
           entries' # None => entry'[entries'].phase \in {"open", "closing"},
           pending' # None => entry'[pending'].phase = "creating",
           \A e \in Entries : Sound(entry[e], process[e])' /\ Counted(e)',
           \A c \in Callers : Placed(caller[c])' /\ Fits(caller[c], PasswordOf[c], entry[caller[c].entry])'
    PROVE  Inv'
BY DEF Inv, TypeOK, EntryRecords, ProcessStates, CallerRecords

\* A step that opens and creates no entry.
LEMMA Quiet ==
    ASSUME Inv, UNCHANGED <<entries, pending>>,
           entry' \in [Entries -> EntryRecords],
           process' \in [Entries -> [Generations -> ProcessStates]],
           caller' \in [Callers -> CallerRecords],
           disposed' \in {"no", "disposing", "yes"},
           \A e \in Entries :
             /\ Sound(entry[e], process[e])' /\ Counted(e)'
             /\ \/ /\ entry'[e].phase = entry[e].phase
                   /\ entry'[e].password = entry[e].password
                \/ entry[e].phase = "open" /\ entry'[e].phase = "closing",
           \A c \in Callers :
             \/ caller'[c] = caller[c]
             \/ caller'[c] = NoCaller
             \/ Placed(caller[c])' /\ Fits(caller[c], PasswordOf[c], entry[caller[c].entry])'
    PROVE  Inv'
<1>1. /\ entries \in Entries \cup {None} /\ pending \in Entries \cup {None}
      /\ entries # None => entry[entries].phase \in {"open", "closing"}
      /\ pending # None => entry[pending].phase = "creating"
  BY Types DEF Inv
<1>2. entries' # None => entry'[entries'].phase \in {"open", "closing"}
  BY <1>1
<1>3. pending' # None => entry'[pending'].phase = "creating"
  BY <1>1
<1>4. \A c \in Callers : Placed(caller[c])' /\ Fits(caller[c], PasswordOf[c], entry[caller[c].entry])'
  BY CallerKept, IdleCaller
<1>5. QED
  BY <1>1, <1>2, <1>3, <1>4, Assembled

\* Records of callers that have no lease.
LEMMA CallerValues ==
    ASSUME SSHConstants
    PROVE  /\ NoCaller \in CallerRecords
           /\ \A pc \in {"creating", "replacing", "waiting"}, e \in Entries :
                [NoCaller EXCEPT !.pc = pc, !.entry = e] \in CallerRecords
           /\ \A e \in Entries, r \in BOOLEAN :
                [NoCaller EXCEPT !.pc = "creating", !.entry = e, !.recheck = r] \in CallerRecords
<1>1. 0 \in 0..(MaxGeneration + 2)
  BY DEF SSHConstants
<1>2. NoCaller = [pc |-> "idle", entry |-> None, recheck |-> FALSE, generation |-> 0, own |-> 0]
  BY DEF NoCaller
<1>3. NoCaller \in CallerRecords
  BY <1>1, <1>2 DEF CallerRecords
<1>4. ASSUME NEW pc \in {"creating", "replacing", "waiting"}, NEW e \in Entries
      PROVE  [NoCaller EXCEPT !.pc = pc, !.entry = e] \in CallerRecords
  BY <1>3 DEF CallerRecords
<1>5. ASSUME NEW e \in Entries, NEW r \in BOOLEAN
      PROVE  [NoCaller EXCEPT !.pc = "creating", !.entry = e, !.recheck = r] \in CallerRecords
  BY <1>3 DEF CallerRecords
<1>6. QED
  BY <1>3, <1>4, <1>5

-----------------------------------------------------------------------------
(* acquire                                                                 *)

\* One caller waits: no count changes, if no lease does.
LEMMA WaitStep ==
    ASSUME Inv, SSHConstants, NEW c \in Callers, NEW e \in Entries, NEW pc \in {"replacing", "waiting"},
           UNCHANGED <<entries, pending, disposed>>,
           caller[c].pc # "leased", Becomes(c, pc, e),
           entry' \in [Entries -> EntryRecords],
           process' \in [Entries -> [Generations -> ProcessStates]],
           \A f \in Entries :
             /\ Sound(entry[f], process[f])' /\ entry'[f].leases = entry[f].leases
             /\ \/ /\ entry'[f].phase = entry[f].phase
                   /\ entry'[f].password = entry[f].password
                \/ entry[f].phase = "open" /\ entry'[f].phase = "closing",
           entry'[e].phase # "creating",
           pc = "waiting" /\ entry'[e].phase = "open" => PasswordOf[c] \in {Omitted, entry'[e].password}
    PROVE  Inv'
<1>. DEFINE k == [NoCaller EXCEPT !.pc = pc, !.entry = e]
<1>1. caller \in [Callers -> CallerRecords] /\ disposed \in {"no", "disposing", "yes"}
  BY Types DEF Inv
<1>2. caller' = [caller EXCEPT ![c] = k] /\ k \in CallerRecords
  BY CallerValues DEF Becomes
<1>3. k.pc = pc /\ k.entry = e /\ k.pc # "leased"
  BY DEF NoCaller
<1>4. caller' \in [Callers -> CallerRecords]
  BY <1>1, <1>2
<1>5. \A f \in Entries : Counted(f)'
  BY <1>2, <1>3, CountKept
<1>6. caller'[c] = k /\ \A d \in Callers : d # c => caller'[d] = caller[d]
  BY <1>1, <1>2
<1>7. Placed(caller[c])' /\ Fits(caller[c], PasswordOf[c], entry[caller[c].entry])'
  BY <1>3, <1>6 DEF Placed, Fits, Bound
<1>8. QED
  BY <1>1, <1>4, <1>5, <1>6, <1>7, Quiet

\* One caller fails that has no lease.
LEMMA FailStep ==
    ASSUME Inv, SSHConstants, NEW c \in Callers, UNCHANGED <<entries, pending, disposed>>,
           caller[c].pc # "leased", Fails(c),
           entry' \in [Entries -> EntryRecords],
           process' \in [Entries -> [Generations -> ProcessStates]],
           \A f \in Entries :
             /\ Sound(entry[f], process[f])' /\ entry'[f].leases = entry[f].leases
             /\ \/ /\ entry'[f].phase = entry[f].phase
                   /\ entry'[f].password = entry[f].password
                \/ entry[f].phase = "open" /\ entry'[f].phase = "closing"
    PROVE  Inv'
<1>1. caller \in [Callers -> CallerRecords] /\ disposed \in {"no", "disposing", "yes"}
  BY Types DEF Inv
<1>2. caller' = [caller EXCEPT ![c] = NoCaller] /\ NoCaller \in CallerRecords
  BY CallerValues DEF Fails
<1>3. caller' \in [Callers -> CallerRecords]
  BY <1>1, <1>2
<1>4. \A f \in Entries : Counted(f)'
  BY <1>2, CountKept DEF NoCaller
<1>5. \A d \in Callers : caller'[d] = caller[d] \/ caller'[d] = NoCaller
  BY <1>1, <1>2
<1>6. QED
  BY <1>1, <1>3, <1>4, <1>5, Quiet

\* acquire from its check of the idle timer on, by one who may use the entry if
\* it is open.
LEMMA JoinInv ==
    ASSUME Inv, SSHConstants, NEW c \in Callers, NEW e \in Entries, caller[c].pc # "leased",
           entry[e].phase # "creating",
           entry[e].phase = "open" => PasswordOf[c] \in {Omitted, entry[e].password},
           Join(c, e), UNCHANGED disposed
    PROVE  Inv'
<1>1. /\ entry \in [Entries -> EntryRecords]
      /\ process \in [Entries -> [Generations -> ProcessStates]]
      /\ caller \in [Callers -> CallerRecords]
      /\ disposed \in {"no", "disposing", "yes"}
      /\ UNCHANGED <<entries, pending>>
  BY Types DEF Inv, Join
<1>2. \A f \in Entries : Sound(entry[f], process[f]) /\ Counted(f)
  BY DEF Inv
<1>3. CASE /\ transportAlive(e)
           /\ entry' = [entry EXCEPT ![e].idle = FALSE, ![e].leases = @ + 1]
           /\ caller' = [caller EXCEPT ![c] =
                [pc |-> "leased", entry |-> e, recheck |-> FALSE,
                 generation |-> entry[e].generation, own |-> entry[e].master]]
           /\ UNCHANGED process
  <2>. DEFINE k == [pc |-> "leased", entry |-> e, recheck |-> FALSE,
                    generation |-> entry[e].generation, own |-> entry[e].master]
  <2>1. entry[e].phase = "open" /\ entry[e].master # 0 /\ entry[e].master = entry[e].generation
    BY <1>2, <1>3 DEF transportAlive, processAlive, Sound
  <2>2. /\ k \in CallerRecords /\ k.pc = "leased" /\ k.entry = e /\ Placed(k)
        /\ caller' = [caller EXCEPT ![c] = k]
    BY <1>1, <1>3, <2>1 DEF EntryRecords, CallerRecords, Placed
  <2>. HIDE DEF k
  <2>3. /\ caller' \in [Callers -> CallerRecords]
        /\ caller'[c] = k /\ \A d \in Callers : d # c => caller'[d] = caller[d]
    BY <1>1, <1>3, <2>2
  <2>4. /\ \A f \in Entries : f # e => entry'[f] = entry[f]
        /\ entry'[e] = [entry[e] EXCEPT !.idle = FALSE, !.leases = @ + 1]
    BY <1>1, <1>3
  <2>5. \A f \in Entries : /\ entry'[f].phase = entry[f].phase
                           /\ entry'[f].password = entry[f].password
                           /\ entry'[f].leases = IF f = k.entry THEN entry[f].leases + 1
                                                                ELSE entry[f].leases
    <3>1. /\ entry'[e].phase = entry[e].phase /\ entry'[e].password = entry[e].password
          /\ entry'[e].leases = entry[e].leases + 1
      BY <1>1, <2>4 DEF EntryRecords
    <3>2. QED
      BY <2>2, <2>4, <3>1
  <2>6. \A f \in Entries : Counted(f)'
    BY <2>2, <2>5, CountMore
  <2>7. At("leased", e)' \in SUBSET Callers /\ entry'[e].leases = Cardinality(At("leased", e)')
    BY <2>6 DEF Counted, At
  <2>8. entry'[e].leases \in 0..Cardinality(Callers)
    BY <2>7, FS_Subset, FS_CardinalityType DEF SSHConstants
  <2>9. entry' \in [Entries -> EntryRecords]
    BY <1>1, <1>3, <2>4, <2>8 DEF EntryRecords
  <2>10. \A f \in Entries : Sound(entry[f], process[f])'
    BY <1>1, <1>2, <1>3, <2>4 DEF Sound, EntryRecords
  <2>11. Fits(caller[c], PasswordOf[c], entry[caller[c].entry])'
    BY <2>1, <2>2, <2>3, <2>5 DEF Fits
  <2>12. QED
    BY <1>1, <1>3, <2>2, <2>3, <2>5, <2>6, <2>9, <2>10, <2>11, Quiet
<1>4. CASE /\ ~transportAlive(e) /\ entry[e].connect # "none"
           /\ entry' = [entry EXCEPT ![e].idle = FALSE]
           /\ Becomes(c, "waiting", e)
           /\ UNCHANGED process
  <2>1. /\ entry' \in [Entries -> EntryRecords]
        /\ \A f \in Entries : /\ entry'[f].phase = entry[f].phase
                              /\ entry'[f].password = entry[f].password
                              /\ entry'[f].leases = entry[f].leases
    <3>1. PICK n : n = [entry[e] EXCEPT !.idle = FALSE]
      OBVIOUS
    <3>2. /\ n \in EntryRecords /\ n.phase = entry[e].phase
          /\ n.password = entry[e].password /\ n.leases = entry[e].leases
      BY ZenonT(60), <1>1, <3>1 DEF EntryRecords
    <3>3. entry' = [entry EXCEPT ![e] = n]
      BY <1>1, <1>4, <3>1
    <3>4. QED
      BY <1>1, <3>2, <3>3
  <2>2. \A f \in Entries : Sound(entry[f], process[f])'
    BY <1>1, <1>2, <1>4 DEF Sound, EntryRecords
  <2>3. QED
    BY <1>1, <1>4, <2>1, <2>2, WaitStep
<1>5. CASE /\ entry[e].phase = "open" /\ ~transportAlive(e) /\ entry[e].connect = "none"
           /\ disposed = "no" /\ entry[e].generation < MaxGeneration
           /\ entry' = [entry EXCEPT ![e].idle = FALSE, ![e].connect = "preparing", ![e].task = 0]
           /\ Becomes(c, "waiting", e)
           /\ UNCHANGED process
  <2>1. /\ entry' \in [Entries -> EntryRecords]
        /\ \A f \in Entries : /\ entry'[f].phase = entry[f].phase
                              /\ entry'[f].password = entry[f].password
                              /\ entry'[f].leases = entry[f].leases
    <3>1. PICK n : n = [entry[e] EXCEPT !.idle = FALSE, !.connect = "preparing", !.task = 0]
      OBVIOUS
    <3>2. /\ n \in EntryRecords /\ n.phase = entry[e].phase
          /\ n.password = entry[e].password /\ n.leases = entry[e].leases
      BY ZenonT(60), <1>1, <3>1 DEF EntryRecords
    <3>3. entry' = [entry EXCEPT ![e] = n]
      BY <1>1, <1>5, <3>1
    <3>4. QED
      BY <1>1, <3>2, <3>3
  <2>2. \A f \in Entries : Sound(entry[f], process[f])'
    BY <1>1, <1>2, <1>5, SSHConstants DEF Sound, EntryRecords
  <2>3. QED
    BY <1>1, <1>5, <2>1, <2>2, WaitStep
<1>6. CASE /\ ~transportAlive(e) /\ entry[e].connect = "none"
           /\ entry[e].phase # "open" \/ disposed # "no"
           /\ IF entry[e].leases = 0 THEN Close({e}) ELSE UNCHANGED <<entry, process>>
           /\ Fails(c)
  <2>1. CASE Close({e})
    BY <1>1, <1>6, <2>1, CloseStep, FailStep
  <2>2. CASE UNCHANGED <<entry, process>>
    BY <1>1, <1>2, <1>6, <2>2, FailStep
  <2>3. QED
    BY <1>6, <2>1, <2>2
<1>7. QED
  BY <1>3, <1>4, <1>5, <1>6 DEF Join

\* Credentials are compared first.
LEMMA EnterInv ==
    ASSUME Inv, SSHConstants, NEW c \in Callers, NEW e \in Entries, caller[c].pc # "leased",
           entry[e].phase # "creating", Enter(c, e), UNCHANGED disposed
    PROVE  Inv'
<1>1. CASE \/ PasswordOf[c] \in {Omitted, entry[e].password}
           \/ entry[e].phase # "open" /\ entry[e].leases = 0
  BY <1>1, JoinInv DEF Enter
<1>2. CASE Replace(c, e)
  <2>1. CASE Fails(c) /\ UNCHANGED <<entry, process>>
    <3>1. /\ entry \in [Entries -> EntryRecords]
          /\ process \in [Entries -> [Generations -> ProcessStates]]
          /\ \A f \in Entries : Sound(entry[f], process[f])
      BY Types DEF Inv
    <3>2. QED
      BY <1>2, <2>1, <3>1, FailStep DEF Replace
  <2>2. CASE Close({e}) /\ Becomes(c, "replacing", e)
    <3>1. entry'[e].phase # "creating"
      BY <2>2, CloseStep
    <3>2. QED
      BY <1>2, <2>2, <3>1, CloseStep, WaitStep DEF Replace
  <2>3. QED
    BY <1>2, <2>1, <2>2 DEF Replace
<1>3. QED
  BY <1>1, <1>2 DEF Enter

\* A free object becomes the entry that is being created, for one caller.
LEMMA CreateInv ==
    ASSUME Inv, SSHConstants, NEW c \in Callers, NEW objects \in [Entries -> EntryRecords],
           NEW recheck \in BOOLEAN,
           caller[c].pc # "leased", StartEntry(c, objects), Creating(c, pending', recheck),
           entries' \in {entries, None}, UNCHANGED <<process, disposed>>,
           \A e \in Entries :
             \/ objects[e] = entry[e]
             \/ /\ entry[e].phase = "closing" /\ entries' # e
                /\ objects[e].phase = "closed" /\ objects[e].leases = entry[e].leases
                /\ Sound(objects[e], process[e])
    PROVE  Inv'
<1>. DEFINE new == pending'
            password == IF PasswordOf[c] = Omitted THEN Empty ELSE PasswordOf[c]
            fresh == [NewEntry EXCEPT !.password = password]
            k == [NoCaller EXCEPT !.pc = "creating", !.entry = new, !.recheck = recheck]
<1>1. /\ entry \in [Entries -> EntryRecords]
      /\ process \in [Entries -> [Generations -> ProcessStates]]
      /\ caller \in [Callers -> CallerRecords]
      /\ disposed \in {"no", "disposing", "yes"}
      /\ entries \in Entries \cup {None}
      /\ entries # None => entry[entries].phase \in {"open", "closing"}
  BY Types DEF Inv
<1>2. /\ new \in Entries /\ Fresh(new)
      /\ entry' = [objects EXCEPT ![new] = fresh]
  BY DEF StartEntry
<1>3. /\ entry[new].phase = "closed" /\ entry[new].connect = "none"
      /\ \A d \in Callers : caller[d].entry # new
  BY <1>2 DEF Fresh
<1>4. /\ fresh \in EntryRecords /\ fresh.phase = "creating" /\ fresh.leases = 0
      /\ fresh.connect = "none" /\ fresh.master = 0 /\ fresh.password = password
  <2>1. password \in Passwords
    BY Numbers
  <2>2. Cardinality(Callers) \in Nat /\ 0 \in 0..(MaxGeneration + 2)
    BY FS_CardinalityType DEF SSHConstants
  <2>. HIDE DEF password
  <2>3. NewEntry \in EntryRecords
    BY <2>2, Numbers DEF NewEntry, EntryRecords
  <2>4. fresh \in EntryRecords
    BY <2>1, <2>3 DEF EntryRecords
  <2>5. QED
    BY <2>4 DEF NewEntry
<1>. HIDE DEF fresh
<1>5. /\ k \in CallerRecords /\ k.pc = "creating" /\ k.entry = new /\ k.recheck = recheck
      /\ caller' = [caller EXCEPT ![c] = k]
  BY <1>2, CallerValues DEF Creating, NoCaller
<1>. HIDE DEF k
<1>6. /\ caller' \in [Callers -> CallerRecords]
      /\ caller'[c] = k /\ \A d \in Callers : d # c => caller'[d] = caller[d]
  BY <1>1, <1>5
<1>7. /\ entry' \in [Entries -> EntryRecords] /\ entry'[new] = fresh
      /\ \A e \in Entries : e # new => entry'[e] = objects[e]
  BY <1>2, <1>4
<1>8. Counted(new)
  BY <1>2 DEF Inv
<1>9. At("leased", new) = {} /\ entry[new].leases = 0
  <2>1. At("leased", new) = {}
    BY <1>3 DEF At
  <2>2. QED
    BY <1>8, <2>1, FS_EmptySet DEF Counted
<1>10. \A e \in Entries : entry'[e].leases = entry[e].leases
  BY <1>4, <1>7, <1>9
<1>11. \A e \in Entries : Counted(e)'
  BY <1>5, <1>10, CountKept
<1>12. \A e \in Entries : Sound(entry[e], process[e])'
  <2>1. SUFFICES ASSUME NEW e \in Entries PROVE Sound(entry'[e], process[e])
    OBVIOUS
  <2>2. CASE e = new
    BY <1>4, <1>7, <2>2 DEF Sound
  <2>3. CASE e # new
    BY <1>7, <2>3 DEF Inv
  <2>4. QED
    BY <2>2, <2>3
<1>13. entries' \in Entries \cup {None} /\ entries' # new
  <2>1. CASE entries' = None
    BY <1>2, <2>1, Numbers
  <2>2. CASE entries' = entries
    BY <1>1, <1>2, <1>3, <2>2, Numbers
  <2>3. QED
    BY <2>1, <2>2
<1>14. ASSUME entries' # None PROVE entry'[entries'].phase \in {"open", "closing"}
  <2>1. entries' = entries /\ entries \in Entries /\ entries # new
    BY <1>13, <1>14
  <2>2. objects[entries] = entry[entries]
    BY <2>1
  <2>3. QED
    BY <1>1, <1>7, <1>14, <2>1, <2>2
<1>15. new \in Entries \cup {None} /\ entry'[new].phase = "creating"
  BY <1>2, <1>4, <1>7
<1>16. Placed(caller[c])' /\ Fits(caller[c], PasswordOf[c], entry[caller[c].entry])'
  BY <1>2, <1>4, <1>5, <1>6, <1>7 DEF Placed, Fits
<1>17. ASSUME NEW d \in Callers, d # c
       PROVE  Placed(caller[d])' /\ Fits(caller[d], PasswordOf[d], entry[caller[d].entry])'
  <2>1. caller'[d] = caller[d] /\ Placed(caller[d]) /\ Fits(caller[d], PasswordOf[d], entry[caller[d].entry])
    BY <1>6, <1>17 DEF Inv
  <2>2. CASE caller[d].pc = "idle"
    BY <2>1, <2>2 DEF Placed, Fits
  <2>3. CASE caller[d].pc # "idle"
    <3>1. caller[d].entry \in Entries /\ caller[d].entry # new
      BY <1>3, <2>1, <2>3 DEF Placed
    <3>2. \/ entry'[caller[d].entry] = entry[caller[d].entry]
          \/ entry'[caller[d].entry].phase = "closed"
      BY <1>7, <3>1
    <3>3. QED
      BY <2>1, <3>1, <3>2 DEF Placed, Fits
  <2>4. QED
    BY <2>2, <2>3
<1>18. \A d \in Callers : Placed(caller[d])' /\ Fits(caller[d], PasswordOf[d], entry[caller[d].entry])'
  BY <1>16, <1>17
<1>19. process' \in [Entries -> [Generations -> ProcessStates]] /\ disposed' \in {"no", "disposing", "yes"}
  BY <1>1
<1>20. QED
  BY <1>6, <1>7, <1>11, <1>12, <1>13, <1>14, <1>15, <1>18, <1>19, Assembled

\* One caller goes to where the entry is being created, with credentials still
\* to be compared.
LEMMA AttendInv ==
    ASSUME Inv, SSHConstants, NEW c \in Callers, caller[c].pc # "leased", pending # None,
           Creating(c, pending, TRUE), UNCHANGED <<entries, pending, entry, process, disposed>>
    PROVE  Inv'
<1>. DEFINE k == [NoCaller EXCEPT !.pc = "creating", !.entry = pending, !.recheck = TRUE]
<1>1. /\ entry \in [Entries -> EntryRecords]
      /\ process \in [Entries -> [Generations -> ProcessStates]]
      /\ caller \in [Callers -> CallerRecords]
      /\ disposed \in {"no", "disposing", "yes"}
      /\ pending \in Entries
  BY Types DEF Inv
<1>2. /\ k \in CallerRecords /\ k.pc = "creating" /\ k.entry = pending /\ k.recheck
      /\ caller' = [caller EXCEPT ![c] = k]
  BY <1>1, CallerValues DEF Creating, NoCaller
<1>. HIDE DEF k
<1>3. /\ caller' \in [Callers -> CallerRecords]
      /\ caller'[c] = k /\ \A d \in Callers : d # c => caller'[d] = caller[d]
  BY <1>1, <1>2
<1>4. \A e \in Entries : Counted(e)'
  BY <1>2, CountKept
<1>5. Placed(caller[c])' /\ Fits(caller[c], PasswordOf[c], entry[caller[c].entry])'
  BY <1>1, <1>2, <1>3 DEF Placed, Fits, Bound
<1>6. \A e \in Entries : Sound(entry[e], process[e])'
  BY DEF Inv
<1>7. QED
  BY <1>1, <1>3, <1>4, <1>5, <1>6, Quiet

\* One lemma per action: it preserves every part of Inv.
LEMMA AcquireInv ==
    ASSUME Inv, SSHConstants, NEW c \in Callers, Acquire(c)
    PROVE  Inv'
<1>1. caller[c].pc # "leased" /\ UNCHANGED disposed
  BY DEF Acquire
<1>2. CASE entries # None /\ Enter(c, entries)
  <2>1. entries \in Entries /\ entry[entries].phase # "creating"
    BY <1>2, Types DEF Inv
  <2>2. QED
    BY <1>1, <1>2, <2>1, EnterInv
<1>3. CASE /\ entries = None /\ pending # None
           /\ Creating(c, pending, TRUE) /\ UNCHANGED <<entries, pending, entry, process>>
  BY <1>1, <1>3, AttendInv
<1>4. CASE /\ entries = None /\ pending = None
           /\ StartEntry(c, entry) /\ Creating(c, pending', TRUE) /\ UNCHANGED <<entries, process>>
  <2>1. PICK objects : objects = entry
    OBVIOUS
  <2>2. objects \in [Entries -> EntryRecords]
    BY <2>1, Types DEF Inv
  <2>3. StartEntry(c, objects)
    BY <1>4, <2>1
  <2>4. QED
    BY <1>1, <1>4, <2>1, <2>2, <2>3, CreateInv
<1>5. QED
  BY <1>2, <1>3, <1>4 DEF Acquire

LEMMA ContinueInv ==
    ASSUME Inv, SSHConstants, NEW c \in Callers, Continue(c)
    PROVE  Inv'
<1>1. caller[c].pc = "created" /\ UNCHANGED disposed
  BY DEF Continue
<1>2. Placed(caller[c]) /\ Fits(caller[c], PasswordOf[c], entry[caller[c].entry])
  BY DEF Inv
<1>3. caller[c].entry \in Entries /\ entry[caller[c].entry].phase # "creating"
  BY <1>1, <1>2 DEF Placed, Fits
<1>4. PICK e \in Entries : e = caller[c].entry
  BY <1>3
<1>5. CASE caller[c].recheck
  BY <1>1, <1>3, <1>4, <1>5, EnterInv DEF Continue
<1>6. CASE ~caller[c].recheck
  <2>1. entry[e].phase = "open" => PasswordOf[c] \in {Omitted, entry[e].password}
    BY <1>1, <1>2, <1>4, <1>6 DEF Fits, Bound
  <2>2. QED
    BY <1>1, <1>3, <1>4, <1>6, <2>1, JoinInv DEF Continue
<1>7. QED
  BY <1>5, <1>6

LEMMA CancelInv ==
    ASSUME Inv, SSHConstants, NEW c \in Callers, Cancel(c)
    PROVE  Inv'
<1>1. caller[c].pc = "waiting" /\ Fails(c) /\ UNCHANGED <<entries, pending, disposed>>
  BY DEF Cancel
<1>2. Placed(caller[c])
  BY DEF Inv
<1>3. PICK e \in Entries : e = caller[c].entry
  BY <1>1, <1>2 DEF Placed
<1>4. CASE Close({e})
  BY <1>1, <1>4, CloseStep, FailStep
<1>5. CASE UNCHANGED <<entry, process>>
  <2>1. /\ entry \in [Entries -> EntryRecords]
        /\ process \in [Entries -> [Generations -> ProcessStates]]
        /\ \A f \in Entries : Sound(entry[f], process[f])
    BY Types DEF Inv
  <2>2. QED
    BY <1>1, <1>5, <2>1, FailStep
<1>6. QED
  BY <1>3, <1>4, <1>5 DEF Cancel

-----------------------------------------------------------------------------
(* connect, processes, timer, closing                                      *)

\* A step of one entry in which every caller stays and no entry opens.
LEMMA EntryStep ==
    ASSUME Inv, SSHConstants, NEW e \in Entries, NEW n \in EntryRecords,
           UNCHANGED <<entries, pending, caller>>,
           disposed' \in {"no", "disposing", "yes"},
           entry' = [entry EXCEPT ![e] = n],
           process' \in [Entries -> [Generations -> ProcessStates]],
           \A f \in Entries : f # e => process'[f] = process[f],
           n.leases = entry[e].leases, Sound(n, process'[e]),
           \/ n.phase = entry[e].phase /\ n.password = entry[e].password
           \/ entry[e].phase = "open" /\ n.phase = "closing"
    PROVE  Inv'
<1>1. /\ entry \in [Entries -> EntryRecords] /\ caller \in [Callers -> CallerRecords]
  BY Types DEF Inv
<1>2. /\ entry' \in [Entries -> EntryRecords] /\ entry'[e] = n
      /\ \A f \in Entries : f # e => entry'[f] = entry[f]
  BY <1>1
<1>3. \A f \in Entries : Counted(f)'
  <2>1. \A f \in Entries : At("leased", f)' = At("leased", f) /\ entry'[f].leases = entry[f].leases
    BY <1>2 DEF At
  <2>2. QED
    BY <2>1 DEF Inv, Counted
<1>4. \A f \in Entries : Sound(entry[f], process[f])'
  <2>1. SUFFICES ASSUME NEW f \in Entries PROVE Sound(entry'[f], process'[f])
    OBVIOUS
  <2>2. CASE f = e
    BY <1>2, <2>2
  <2>3. CASE f # e
    BY <1>2, <2>3 DEF Inv
  <2>4. QED
    BY <2>2, <2>3
<1>5. \A f \in Entries : \/ /\ entry'[f].phase = entry[f].phase
                            /\ entry'[f].password = entry[f].password
                         \/ entry[f].phase = "open" /\ entry'[f].phase = "closing"
  BY <1>2
<1>6. QED
  BY <1>1, <1>2, <1>3, <1>4, <1>5, Quiet

LEMMA StartMasterInv ==
    ASSUME Inv, SSHConstants, NEW e \in Entries, StartMaster(e)
    PROVE  Inv'
<1>. DEFINE g == entry[e].generation + 1
            n == [entry[e] EXCEPT !.generation = g, !.master = g, !.connect = "checking", !.task = g]
<1>1. /\ entry \in [Entries -> EntryRecords]
      /\ process \in [Entries -> [Generations -> ProcessStates]]
      /\ disposed \in {"no", "disposing", "yes"}
      /\ entry[e].connect = "preparing" /\ Sound(entry[e], process[e])
  BY Types DEF Inv, StartMaster
<1>2. entry[e].generation \in 0..MaxGeneration
  BY <1>1, SSHConstants DEF Sound, EntryRecords
<1>3. g \in Generations /\ g \in 0..(MaxGeneration + 2) /\ g # 0
  BY <1>2, SSHConstants DEF Generations
<1>4. entry' = [entry EXCEPT ![e] = n]
  BY <1>1 DEF StartMaster
<1>5. /\ process' \in [Entries -> [Generations -> ProcessStates]]
      /\ \A f \in Entries : f # e => process'[f] = process[f]
  BY <1>1, <1>3 DEF StartMaster, ProcessStates
<1>. HIDE DEF g
<1>6. /\ n \in EntryRecords /\ n.leases = entry[e].leases
      /\ n.phase = entry[e].phase /\ n.password = entry[e].password
  <2>1. n \in EntryRecords
    BY ZenonT(60), <1>1, <1>3 DEF EntryRecords
  <2>2. QED
    BY <1>1, <1>3, <2>1 DEF EntryRecords
<1>7. Sound(n, process'[e])
  BY <1>1, <1>3 DEF Sound, EntryRecords
<1>8. UNCHANGED <<entries, pending, caller, disposed>>
  BY DEF StartMaster
<1>. HIDE DEF n
<1>9. QED
  BY <1>1, <1>4, <1>5, <1>6, <1>7, <1>8, EntryStep

LEMMA ConnectedInv ==
    ASSUME Inv, SSHConstants, NEW e \in Entries, Connected(e)
    PROVE  Inv'
<1>. DEFINE g == entry[e].task
<1>1. /\ entry \in [Entries -> EntryRecords]
      /\ process \in [Entries -> [Generations -> ProcessStates]]
      /\ caller \in [Callers -> CallerRecords]
      /\ disposed \in {"no", "disposing", "yes"}
      /\ Sound(entry[e], process[e])
  BY Types DEF Inv
<1>2. /\ entry[e].connect = "checking" /\ process[e][g] \in {"up", "ending"}
      /\ entry' = [entry EXCEPT ![e].connect = "none", ![e].task = 0,
                                ![e].leases = @ + Cardinality(Waiters(e))]
      /\ UNCHANGED <<entries, pending, process, disposed>>
  BY DEF Connected
<1>3. g \in Generations /\ entry[e].generation = g
  BY <1>1, <1>2 DEF Sound, EntryRecords
<1>4. \A c \in Callers : c \notin Waiters(e) => caller'[c] = caller[c]
  BY DEF Connected
<1>5. ASSUME NEW c \in Waiters(e)
      PROVE  c \in Callers /\ caller[c].pc = "waiting" /\ caller[c].entry = e
  BY <1>5 DEF Waiters, At
<1>6. ASSUME NEW c \in Waiters(e)
      PROVE  /\ caller'[c] \in CallerRecords
             /\ caller'[c].pc = "leased" /\ caller'[c].entry = e
             /\ caller'[c].own = caller'[c].generation
  <2>1. c \in Callers /\ caller[c].entry = e
    BY <1>5, <1>6
  <2>2. caller[c] \in CallerRecords /\ g \in 0..(MaxGeneration + 2)
    BY <1>1, <1>3, <2>1 DEF EntryRecords
  <2>3. caller'[c] = [caller[c] EXCEPT !.pc = "leased", !.generation = g, !.own = g]
    BY <1>3, <1>6, <2>1 DEF Connected
  <2>4. QED
    BY <1>3, <2>1, <2>2, <2>3 DEF CallerRecords
<1>7. caller' \in [Callers -> CallerRecords]
  <2>1. caller' = [c \in Callers |-> caller'[c]]
    BY DEF Connected
  <2>2. \A c \in Callers : caller'[c] \in CallerRecords
    BY <1>1, <1>4, <1>6
  <2>3. QED
    BY <2>1, <2>2
<1>8. At("leased", e)' = At("leased", e) \cup Waiters(e) /\ At("leased", e) \cap Waiters(e) = {}
  <2>1. At("leased", e) \cap Waiters(e) = {}
    BY DEF At, Waiters
  <2>2. ASSUME NEW c \in Waiters(e) PROVE c \in At("leased", e)'
    BY <1>5, <1>6, <2>2 DEF At
  <2>3. ASSUME NEW c \in Callers, c \notin Waiters(e)
        PROVE  c \in At("leased", e)' <=> c \in At("leased", e)
    BY <1>4, <2>3 DEF At
  <2>4. At("leased", e)' \subseteq Callers /\ At("leased", e) \subseteq Callers
    BY DEF At
  <2>5. QED
    BY <1>5, <2>1, <2>2, <2>3, <2>4
<1>9. \A f \in Entries : f # e => At("leased", f)' = At("leased", f)
  <2>1. SUFFICES ASSUME NEW f \in Entries, f # e, NEW c \in Callers
                 PROVE  c \in At("leased", f)' <=> c \in At("leased", f)
    BY DEF At
  <2>2. CASE c \in Waiters(e)
    <3>1. caller[c].entry # f /\ caller'[c].entry # f
      BY <1>5, <1>6, <2>1, <2>2
    <3>2. QED
      BY <3>1 DEF At
  <2>3. CASE c \notin Waiters(e)
    BY <1>4, <2>3 DEF At
  <2>4. QED
    BY <2>2, <2>3
<1>10. Cardinality(At("leased", e)') = Cardinality(At("leased", e)) + Cardinality(Waiters(e))
  <2>1. IsFiniteSet(At("leased", e)) /\ IsFiniteSet(Waiters(e))
    BY AtFinite DEF Waiters
  <2>2. Cardinality(At("leased", e) \cap Waiters(e)) = 0
    BY <1>8, FS_EmptySet
  <2>3. Cardinality(At("leased", e)) \in Nat /\ Cardinality(Waiters(e)) \in Nat
    BY <2>1, FS_CardinalityType
  <2>4. Cardinality(At("leased", e) \cup Waiters(e))
          = Cardinality(At("leased", e)) + Cardinality(Waiters(e)) - Cardinality(At("leased", e) \cap Waiters(e))
    BY <2>1, FS_Union
  <2>5. Cardinality(At("leased", e) \cup Waiters(e))
          = Cardinality(At("leased", e)) + Cardinality(Waiters(e))
    BY <2>2, <2>3, <2>4
  <2>6. QED
    BY <1>8, <2>5
<1>11. /\ \A f \in Entries : f # e => entry'[f] = entry[f]
       /\ entry'[e] = [entry[e] EXCEPT !.connect = "none", !.task = 0,
                                       !.leases = @ + Cardinality(Waiters(e))]
  BY <1>1, <1>2
<1>12. /\ entry'[e].phase = entry[e].phase /\ entry'[e].password = entry[e].password
       /\ entry'[e].leases = entry[e].leases + Cardinality(Waiters(e))
       /\ entry'[e].connect = "none" /\ entry'[e].master = entry[e].master
       /\ entry'[e].generation = entry[e].generation
  BY <1>1, <1>11 DEF EntryRecords
<1>13. \A f \in Entries : Counted(f)'
  <2>1. ASSUME NEW f \in Entries PROVE Counted(f)
    BY DEF Inv
  <2>2. Counted(e)'
    BY <1>10, <1>12, <2>1 DEF Counted
  <2>3. ASSUME NEW f \in Entries, f # e PROVE Counted(f)'
    BY <1>9, <1>11, <2>1, <2>3 DEF Counted
  <2>4. QED
    BY <2>2, <2>3
<1>14. entry'[e].leases \in 0..Cardinality(Callers)
  <2>1. At("leased", e)' \subseteq Callers
    BY DEF At
  <2>2. QED
    BY <1>13, <2>1, FS_Subset, FS_CardinalityType DEF Counted, SSHConstants
<1>15. entry' \in [Entries -> EntryRecords]
  <2>1. entry'[e] \in EntryRecords
    BY <1>1, <1>11, <1>12, <1>14 DEF EntryRecords
  <2>2. QED
    BY <1>1, <1>2, <1>11, <2>1
<1>16. \A f \in Entries : Sound(entry[f], process[f])'
  <2>1. Sound(entry'[e], process'[e])
    BY <1>1, <1>2, <1>12 DEF Sound
  <2>2. ASSUME NEW f \in Entries, f # e PROVE Sound(entry'[f], process'[f])
    BY <1>2, <1>11, <2>2 DEF Inv
  <2>3. QED
    BY <2>1, <2>2
<1>17. ASSUME NEW c \in Waiters(e)
       PROVE  Placed(caller[c])' /\ Fits(caller[c], PasswordOf[c], entry[caller[c].entry])'
  <2>1. Placed(caller'[c])
    BY <1>6, <1>17 DEF Placed
  <2>2. Fits(caller[c], PasswordOf[c], entry[e])
    BY <1>5, <1>17 DEF Inv
  <2>3. entry[e].phase # "creating"
    BY <1>5, <1>17, <2>2 DEF Fits
  <2>4. entry[e].phase = "open" => PasswordOf[c] \in {Omitted, entry[e].password}
    BY <1>5, <1>17, <2>2 DEF Fits, Bound
  <2>5. Fits(caller'[c], PasswordOf[c], entry'[e])
    BY <1>12, <2>3, <2>4 DEF Fits
  <2>6. QED
    BY <1>6, <1>17, <2>1, <2>5
<1>18. QED
  BY <1>1, <1>2, <1>4, <1>7, <1>12, <1>11, <1>13, <1>15, <1>16, <1>17, Quiet

LEMMA ConnectFailsInv ==
    ASSUME Inv, SSHConstants, NEW e \in Entries, ConnectFails(e)
    PROVE  Inv'
<1>. DEFINE last == Waiters(e) # {} /\ entry[e].leases = 0 /\ entry[e].phase = "open"
            m == IF last THEN Closed(e) ELSE entry[e]
            n == [m EXCEPT !.connect = "none", !.task = 0]
<1>1. /\ entry \in [Entries -> EntryRecords]
      /\ process \in [Entries -> [Generations -> ProcessStates]]
      /\ caller \in [Callers -> CallerRecords]
      /\ disposed \in {"no", "disposing", "yes"}
      /\ Sound(entry[e], process[e])
  BY Types DEF Inv
<1>2. /\ process' = Killed(e, entry[e].task) \/ process' = Left(e, entry[e].task)
      /\ UNCHANGED <<entries, pending, disposed>>
  BY DEF ConnectFails
<1>3. entry' = [entry EXCEPT ![e] = n]
  BY DEF ConnectFails
<1>4. /\ m \in EntryRecords /\ m.leases = entry[e].leases /\ Sound(m, process[e])
      /\ \/ m.phase = entry[e].phase /\ m.password = entry[e].password
         \/ entry[e].phase = "open" /\ m.phase = "closing"
  BY <1>1, ClosedEntry
<1>. HIDE DEF m
<1>5. /\ n \in EntryRecords /\ n.leases = entry[e].leases
      /\ \/ n.phase = entry[e].phase /\ n.password = entry[e].password
         \/ entry[e].phase = "open" /\ n.phase = "closing"
      /\ n.connect = "none" /\ n.master = m.master /\ n.generation = m.generation
  BY <1>4 DEF EntryRecords
<1>. HIDE DEF n
<1>6. /\ process' \in [Entries -> [Generations -> ProcessStates]]
      /\ \A f \in Entries : f # e => process'[f] = process[f]
  <2>1. entry[e].task \in {0} \cup Generations
    BY <1>1 DEF EntryRecords
  <2>2. QED
    BY <1>2, <2>1, MasterToldStep
<1>7. Sound(n, process'[e])
  BY <1>4, <1>5 DEF Sound
<1>8. /\ caller' \in [Callers -> CallerRecords]
      /\ \A c \in Callers : caller'[c] = IF c \in Waiters(e) THEN NoCaller ELSE caller[c]
  BY <1>1, CallerValues DEF ConnectFails
<1>9. \A f \in Entries : At("leased", f)' = At("leased", f)
  BY <1>8 DEF At, Waiters, NoCaller
<1>10. /\ entry' \in [Entries -> EntryRecords] /\ entry'[e] = n
       /\ \A f \in Entries : f # e => entry'[f] = entry[f]
  BY <1>1, <1>3, <1>5
<1>11. \A f \in Entries : Counted(f)'
  <2>1. \A f \in Entries : entry'[f].leases = entry[f].leases
    BY <1>5, <1>10
  <2>2. QED
    BY <1>9, <2>1 DEF Inv, Counted
<1>12. \A f \in Entries : Sound(entry[f], process[f])'
  <2>1. ASSUME NEW f \in Entries, f # e PROVE Sound(entry'[f], process'[f])
    BY <1>6, <1>10, <2>1 DEF Inv
  <2>2. QED
    BY <1>7, <1>10, <2>1
<1>13. QED
  BY <1>1, <1>2, <1>5, <1>6, <1>8, <1>10, <1>11, <1>12, Quiet

LEMMA MasterInv ==
    ASSUME Inv, SSHConstants, NEW e \in Entries, NEW g \in Generations,
           MasterUp(e, g) \/ MasterExits(e, g) \/ MasterClosed(e, g)
    PROVE  Inv'
<1>1. /\ entry \in [Entries -> EntryRecords]
      /\ process \in [Entries -> [Generations -> ProcessStates]]
      /\ caller \in [Callers -> CallerRecords]
      /\ disposed \in {"no", "disposing", "yes"}
      /\ entry[e] \in EntryRecords /\ Sound(entry[e], process[e])
  BY Types DEF Inv
<1>2. CASE MasterUp(e, g) \/ MasterExits(e, g)
  <2>1. PICK q \in {"up", "exited"} : process' = [process EXCEPT ![e][g] = q] /\ process[e][g] # "none"
    BY <1>2 DEF MasterUp, MasterExits, processAlive
  <2>2. /\ process' \in [Entries -> [Generations -> ProcessStates]]
        /\ \A f \in Entries : f # e => process'[f] = process[f]
        /\ \A h \in Generations : process[e][h] = "none" => process'[e][h] = "none"
    BY <1>1, <2>1 DEF ProcessStates
  <2>3. Sound(entry[e], process'[e])
    BY <1>1, <2>2, SoundKept
  <2>4. UNCHANGED <<entries, pending, entry, caller, disposed>>
    BY <1>2 DEF MasterUp, MasterExits
  <2>5. entry' = [entry EXCEPT ![e] = entry[e]]
    BY <1>1, <2>4
  <2>6. PICK n \in EntryRecords : n = entry[e]
    BY <1>1
  <2>7. QED
    BY <1>1, <2>2, <2>3, <2>4, <2>5, <2>6, EntryStep
<1>3. CASE MasterClosed(e, g)
  <2>1. /\ process' = [process EXCEPT ![e][g] = "none"]
        /\ UNCHANGED <<entries, pending, caller, disposed>>
    BY <1>3 DEF MasterClosed
  <2>2. /\ process' \in [Entries -> [Generations -> ProcessStates]]
        /\ \A f \in Entries : f # e => process'[f] = process[f]
        /\ \A h \in Generations : process[e][h] = "none" => process'[e][h] = "none"
        /\ process'[e][g] = "none"
    BY <1>1, <2>1 DEF ProcessStates
  <2>. DEFINE n == IF entry[e].master = g THEN [entry[e] EXCEPT !.master = 0, !.generation = @ + 1]
                                          ELSE entry[e]
  <2>3. entry' = [entry EXCEPT ![e] = n]
    BY <1>1, <1>3 DEF MasterClosed
  <2>4. CASE entry[e].master = g
    <3>1. g # 0 /\ g \in Nat /\ g <= MaxGeneration + 1
      BY Numbers
    <3>2. entry[e].generation = g
      BY <1>1, <2>4, <3>1 DEF Sound
    <3>3. n = [entry[e] EXCEPT !.master = 0, !.generation = g + 1]
      BY <2>4, <3>2
    <3>4. g + 1 \in 0..(MaxGeneration + 2)
      BY <3>1, SSHConstants
    <3>. HIDE DEF n
    <3>5. n \in EntryRecords
      BY <1>1, <3>3, <3>4 DEF EntryRecords
    <3>6. /\ n.leases = entry[e].leases /\ n.phase = entry[e].phase
          /\ n.password = entry[e].password
          /\ n.master = 0 /\ n.generation = g + 1 /\ n.connect = entry[e].connect
          /\ n.task = entry[e].task
      BY <1>1, <3>3 DEF EntryRecords
    <3>7. Sound(n, process'[e])
      <4>1. n.connect = "preparing" => g + 1 <= MaxGeneration
        BY <1>1, <2>4, <3>1, <3>2, <3>6, SSHConstants DEF Sound
      <4>2. n.connect = "checking" => n.task # 0 /\ process'[e][n.task] = "none"
        <5>1. ASSUME n.connect = "checking"
              PROVE  n.task \in Generations /\ (g = n.task \/ process[e][n.task] = "none") /\ n.task # 0
          BY <1>1, <3>2, <3>6, <5>1 DEF Sound, EntryRecords
        <5>2. QED
          BY <2>2, <5>1
      <4>3. QED
        BY <3>6, <4>1, <4>2 DEF Sound
    <3>8. QED
      BY <1>1, <2>1, <2>2, <2>3, <3>5, <3>6, <3>7, EntryStep
  <2>5. CASE entry[e].master # g
    <3>1. n = entry[e] /\ Sound(entry[e], process'[e])
      BY <1>1, <2>2, <2>5, SoundKept
    <3>. HIDE DEF n
    <3>2. QED
      BY <1>1, <2>1, <2>2, <2>3, <3>1, EntryStep
  <2>6. QED
    BY <2>4, <2>5
<1>4. QED
  BY <1>2, <1>3

LEMMA ReleaseInv ==
    ASSUME Inv, SSHConstants, NEW c \in Callers, Release(c)
    PROVE  Inv'
<1>1. /\ entry \in [Entries -> EntryRecords]
      /\ process \in [Entries -> [Generations -> ProcessStates]]
      /\ caller \in [Callers -> CallerRecords]
      /\ disposed \in {"no", "disposing", "yes"}
      /\ Placed(caller[c])
  BY Types DEF Inv
<1>2. caller[c].pc = "leased" /\ Fails(c) /\ UNCHANGED <<entries, pending, process, disposed>>
  BY DEF Release
<1>3. PICK e \in Entries : e = caller[c].entry
  BY <1>1, <1>2 DEF Placed
<1>. DEFINE arm == entry[e].leases = 1 /\ entry[e].phase = "open" /\ disposed = "no"
            n == [entry[e] EXCEPT !.leases = @ - 1, !.idle = @ \/ arm,
                                  !.stray = @ \/ (arm /\ entry[e].idle)]
<1>4. entry' = [entry EXCEPT ![e] = n]
  BY <1>1, <1>3 DEF Release
<1>5. entry[e].leases \in 1..Cardinality(Callers)
  <2>1. c \in At("leased", e) /\ entry[e].leases = Cardinality(At("leased", e))
    BY <1>2, <1>3 DEF At, Inv, Counted
  <2>2. Cardinality(At("leased", e)) # 0
    BY <2>1, AtFinite, FS_EmptySet
  <2>3. entry[e].leases \in 0..Cardinality(Callers)
    BY <1>1 DEF EntryRecords
  <2>4. QED
    BY <2>1, <2>2, <2>3, FS_CardinalityType DEF SSHConstants
<1>6. arm \in BOOLEAN
  OBVIOUS
<1>. HIDE DEF arm
<1>7. entry[e].leases - 1 \in 0..Cardinality(Callers)
  BY <1>5, FS_CardinalityType DEF SSHConstants
<1>8. /\ n \in EntryRecords
      /\ n.leases = entry[e].leases - 1 /\ n.phase = entry[e].phase
      /\ n.password = entry[e].password /\ n.master = entry[e].master
      /\ n.generation = entry[e].generation /\ n.connect = entry[e].connect /\ n.task = entry[e].task
  <2>1. n \in EntryRecords
    BY ZenonT(60), <1>1, <1>6, <1>7 DEF EntryRecords
  <2>2. QED
    BY <1>1, <1>6, <1>7, <2>1 DEF EntryRecords
<1>. HIDE DEF n
<1>9. /\ entry' \in [Entries -> EntryRecords] /\ entry'[e] = n
      /\ \A f \in Entries : f # e => entry'[f] = entry[f]
  BY <1>1, <1>4, <1>8
<1>10. \A f \in Entries :
         entry'[f].leases = IF f = caller[c].entry THEN entry[f].leases - 1 ELSE entry[f].leases
  BY <1>3, <1>8, <1>9
<1>11. \A f \in Entries : Counted(f)'
  BY <1>2, <1>10, CountLess
<1>12. Sound(n, process'[e])
  BY <1>2, <1>8 DEF Sound, Inv
<1>13. \A f \in Entries : Sound(entry[f], process[f])'
  <2>1. ASSUME NEW f \in Entries, f # e PROVE Sound(entry'[f], process'[f])
    BY <1>2, <1>9, <2>1 DEF Inv
  <2>2. QED
    BY <1>9, <1>12, <2>1
<1>14. /\ caller' \in [Callers -> CallerRecords]
       /\ \A d \in Callers : caller'[d] = caller[d] \/ caller'[d] = NoCaller
  BY <1>1, <1>2, CallerValues DEF Fails
<1>15. QED
  BY <1>1, <1>2, <1>8, <1>9, <1>11, <1>13, <1>14, Quiet

LEMMA TimerFiresInv ==
    ASSUME Inv, SSHConstants, NEW e \in Entries, TimerFires(e)
    PROVE  Inv'
<1>1. /\ entry \in [Entries -> EntryRecords]
      /\ process \in [Entries -> [Generations -> ProcessStates]]
      /\ disposed \in {"no", "disposing", "yes"}
      /\ Sound(entry[e], process[e])
      /\ UNCHANGED <<entries, pending, caller, disposed>>
  BY Types DEF Inv, TimerFires
<1>2. CASE /\ entry[e].phase = "open"
           /\ entry' = [entry EXCEPT ![e] = Closed(e)] /\ process' = Killed(e, entry[e].master)
  <2>1. entry[e].master \in {0} \cup Generations
    BY <1>1 DEF EntryRecords
  <2>2. /\ process' \in [Entries -> [Generations -> ProcessStates]]
        /\ \A f \in Entries : f # e => process'[f] = process[f]
        /\ \A h \in Generations : process[e][h] = "none" => process'[e][h] = "none"
    BY <1>2, <2>1, KilledStep
  <2>3. PICK n \in EntryRecords : n = Closed(e)
    BY ClosedEntry
  <2>4. Sound(n, process'[e])
    BY <2>2, <2>3, ClosedEntry, SoundKept
  <2>5. QED
    BY <1>1, <1>2, <2>2, <2>3, <2>4, ClosedEntry, EntryStep
<1>3. ASSUME NEW s \in BOOLEAN, entry' = [entry EXCEPT ![e].idle = FALSE, ![e].stray = s], UNCHANGED process
      PROVE  Inv'
  <2>1. PICK n \in EntryRecords : n = [entry[e] EXCEPT !.idle = FALSE, !.stray = s]
    BY ZenonT(60), <1>1 DEF EntryRecords
  <2>2. /\ n.leases = entry[e].leases /\ n.phase = entry[e].phase
        /\ n.password = entry[e].password /\ Sound(n, process[e])
    BY <1>1, <2>1 DEF EntryRecords, Sound
  <2>3. entry' = [entry EXCEPT ![e] = n]
    BY <1>1, <1>3, <2>1
  <2>4. QED
    BY <1>1, <1>3, <2>2, <2>3, EntryStep
<1>4. QED
  BY <1>2, <1>3 DEF TimerFires

\* A closed entry that is forgotten, or kept for what still refers to it.
LEMMA GoneEntry ==
    ASSUME Inv, SSHConstants, NEW e \in Entries
    PROVE  /\ Gone(e) \in EntryRecords /\ Gone(e).phase = "closed"
           /\ Gone(e).leases = entry[e].leases /\ Sound(Gone(e), process[e])
<1>1. entry[e] \in EntryRecords /\ Sound(entry[e], process[e])
  BY Types DEF Inv
<1>2. CASE entry[e].connect = "none" /\ entry[e].leases = 0 /\ Running(e) = {}
  <2>1. Gone(e) = NoEntry
    BY <1>2 DEF Gone
  <2>2. Cardinality(Callers) \in Nat /\ 0 \in 0..(MaxGeneration + 2)
    BY FS_CardinalityType DEF SSHConstants
  <2>3. NewEntry \in EntryRecords
    BY <2>2, Numbers DEF NewEntry, EntryRecords
  <2>4. NoEntry \in EntryRecords
    BY <2>3 DEF NoEntry, EntryRecords
  <2>5. /\ NoEntry.phase = "closed" /\ NoEntry.leases = 0 /\ NoEntry.master = 0
        /\ NoEntry.connect = "none"
    BY DEF NoEntry, NewEntry
  <2>6. QED
    BY <1>2, <2>1, <2>4, <2>5 DEF Sound
<1>3. CASE ~(entry[e].connect = "none" /\ entry[e].leases = 0 /\ Running(e) = {})
  <2>1. Gone(e) = [entry[e] EXCEPT !.phase = "closed", !.killed = 0]
    BY <1>3 DEF Gone
  <2>2. QED
    BY <1>1, <2>1 DEF EntryRecords, Sound
<1>4. QED
  BY <1>2, <1>3

LEMMA RemovedInv ==
    ASSUME Inv, SSHConstants, NEW e \in Entries, Removed(e)
    PROVE  Inv'
<1>1. /\ entry \in [Entries -> EntryRecords]
      /\ process \in [Entries -> [Generations -> ProcessStates]]
      /\ caller \in [Callers -> CallerRecords]
      /\ disposed \in {"no", "disposing", "yes"}
      /\ entries \in Entries \cup {None} /\ pending \in Entries \cup {None}
      /\ entries # None => entry[entries].phase \in {"open", "closing"}
      /\ pending # None => entry[pending].phase = "creating"
  BY Types DEF Inv
<1>2. /\ entry[e].phase = "closing" /\ UNCHANGED <<process, disposed>>
      /\ entries' = IF entries = e THEN None ELSE entries
  BY DEF Removed
<1>3. entries' \in {entries, None} /\ entries' # e
  BY <1>2, Numbers
<1>4. PICK objects \in [Entries -> EntryRecords] : objects = [entry EXCEPT ![e] = Gone(e)]
  BY <1>1, GoneEntry
<1>5. /\ objects[e] = Gone(e) /\ \A f \in Entries : f # e => objects[f] = entry[f]
  BY <1>1, <1>4
<1>6. CASE /\ entry' = [entry EXCEPT ![e] = Gone(e)] /\ UNCHANGED <<pending, caller>>
  <2>1. entry' = objects
    BY <1>4, <1>6
  <2>2. \A f \in Entries : entry'[f].leases = entry[f].leases /\ Sound(entry'[f], process'[f])
    BY <1>2, <1>5, <2>1, GoneEntry DEF Inv
  <2>3. \A f \in Entries : Counted(f)'
    <3>1. \A f \in Entries : At("leased", f)' = At("leased", f)
      BY <1>6 DEF At
    <3>2. QED
      BY <2>2, <3>1 DEF Inv, Counted
  <2>4. \A f \in Entries : \/ /\ entry'[f].phase = entry[f].phase
                              /\ entry'[f].password = entry[f].password
                           \/ entry'[f].phase \in {"closing", "closed"}
    BY <1>5, <2>1, GoneEntry
  <2>5. \A c \in Callers : Placed(caller[c])' /\ Fits(caller[c], PasswordOf[c], entry[caller[c].entry])'
    BY <1>6, <2>4, CallerKept
  <2>6. pending # e /\ (pending # None => entry'[pending].phase = "creating")
    BY <1>1, <1>2, <1>5, <2>1, Numbers
  <2>7. ASSUME entries' # None PROVE entry'[entries'].phase \in {"open", "closing"}
    <3>1. entries' = entries /\ entries \in Entries /\ entries # e
      BY <1>1, <1>3, <2>7
    <3>2. QED
      BY <1>1, <1>5, <2>1, <2>7, <3>1
  <2>8. entries' \in Entries \cup {None}
    BY <1>1, <1>2
  <2>9. QED
    BY <1>1, <1>2, <1>6, <2>1, <2>2, <2>3, <2>5, <2>6, <2>7, <2>8, Assembled
<1>7. ASSUME NEW c \in At("replacing", e),
             StartEntry(c, [entry EXCEPT ![e] = Gone(e)]), Creating(c, pending', FALSE)
      PROVE  Inv'
  <2>1. c \in Callers /\ caller[c].pc # "leased"
    BY <1>7 DEF At
  <2>2. StartEntry(c, objects)
    BY <1>4, <1>7
  <2>3. \A f \in Entries :
          \/ objects[f] = entry[f]
          \/ /\ entry[f].phase = "closing" /\ entries' # f
             /\ objects[f].phase = "closed" /\ objects[f].leases = entry[f].leases
             /\ Sound(objects[f], process[f])
    BY <1>2, <1>3, <1>5, GoneEntry
  <2>4. QED
    BY <1>2, <1>3, <1>7, <2>1, <2>2, <2>3, CreateInv
<1>8. QED
  BY <1>6, <1>7 DEF Removed

LEMMA CreatedInv ==
    ASSUME Inv, SSHConstants, NEW e \in Entries, Created(e)
    PROVE  Inv'
<1>1. /\ entry \in [Entries -> EntryRecords]
      /\ process \in [Entries -> [Generations -> ProcessStates]]
      /\ caller \in [Callers -> CallerRecords]
      /\ disposed \in {"no", "disposing", "yes"}
      /\ entries \in Entries \cup {None} /\ pending \in Entries \cup {None}
      /\ entries # None => entry[entries].phase \in {"open", "closing"}
      /\ pending # None => entry[pending].phase = "creating"
  BY Types DEF Inv
<1>2. /\ pending = e /\ pending' = None /\ UNCHANGED <<process, disposed>>
      /\ entry[e].phase = "creating"
  BY <1>1, Numbers DEF Created
<1>3. \A c \in Callers : Placed(caller[c]) /\ Fits(caller[c], PasswordOf[c], entry[caller[c].entry])
  BY DEF Inv
<1>4. ASSUME NEW c \in Callers, caller[c].pc # "idle", caller[c].entry = e
      PROVE  c \in At("creating", e)
  BY <1>2, <1>3, <1>4 DEF Fits, At
<1>5. PICK ph \in {"open", "closed"}, to \in [Callers -> CallerRecords] :
        /\ entry' = [entry EXCEPT ![e].phase = ph]
        /\ caller' = [c \in Callers |-> IF c \in At("creating", e) THEN to[c] ELSE caller[c]]
        /\ ph = "open" => /\ entries' = e
                          /\ \A c \in At("creating", e) : to[c] = [caller[c] EXCEPT !.pc = "created"]
        /\ ph = "closed" => /\ entries' = entries
                            /\ \A c \in At("creating", e) : to[c] = NoCaller
  <2>1. CASE /\ entries' = e /\ entry' = [entry EXCEPT ![e].phase = "open"]
             /\ caller' = [c \in Callers |-> IF c \in At("creating", e)
                                             THEN [caller[c] EXCEPT !.pc = "created"] ELSE caller[c]]
    <3>1. PICK to : to = [c \in Callers |-> [caller[c] EXCEPT !.pc = "created"]]
      OBVIOUS
    <3>2. to \in [Callers -> CallerRecords]
      BY ZenonT(60), <1>1, <3>1 DEF CallerRecords
    <3>3. /\ \A c \in At("creating", e) : to[c] = [caller[c] EXCEPT !.pc = "created"]
          /\ caller' = [c \in Callers |-> IF c \in At("creating", e) THEN to[c] ELSE caller[c]]
      BY <2>1, <3>1 DEF At
    <3>4. QED
      BY <2>1, <3>2, <3>3
  <2>2. CASE /\ entry' = [entry EXCEPT ![e].phase = "closed"]
             /\ caller' = [c \in Callers |-> IF c \in At("creating", e) THEN NoCaller ELSE caller[c]]
             /\ UNCHANGED entries
    <3>1. PICK to : to = [c \in Callers |-> NoCaller]
      OBVIOUS
    <3>2. to \in [Callers -> CallerRecords]
      BY <3>1, CallerValues
    <3>3. /\ \A c \in At("creating", e) : to[c] = NoCaller
          /\ caller' = [c \in Callers |-> IF c \in At("creating", e) THEN to[c] ELSE caller[c]]
      BY <2>2, <3>1 DEF At
    <3>4. QED
      BY <2>2, <3>2, <3>3
  <2>3. QED
    BY <2>1, <2>2 DEF Created
<1>6. /\ entry' \in [Entries -> EntryRecords]
      /\ \A f \in Entries : f # e => entry'[f] = entry[f]
      /\ entry'[e] = [entry[e] EXCEPT !.phase = ph]
  <2>1. PICK n : n = [entry[e] EXCEPT !.phase = ph]
    OBVIOUS
  <2>2. n \in EntryRecords
    <3>1. entry[e] \in EntryRecords /\ ph \in {"creating", "open", "closing", "closed"}
      BY <1>1
    <3>2. QED
      BY <2>1, <3>1 DEF EntryRecords
  <2>3. entry' = [entry EXCEPT ![e] = n]
    BY <1>5, <2>1
  <2>4. QED
    BY <1>1, <2>1, <2>2, <2>3
<1>7. entry'[e].phase = ph /\ entry'[e].password = entry[e].password
      /\ entry'[e].leases = entry[e].leases
  BY <1>1, <1>6 DEF EntryRecords
<1>8. /\ caller' \in [Callers -> CallerRecords]
      /\ \A c \in Callers : c \notin At("creating", e) => caller'[c] = caller[c]
  BY <1>1, <1>5
<1>9. ASSUME NEW c \in At("creating", e)
      PROVE  /\ c \in Callers /\ caller[c].pc = "creating" /\ caller[c].entry = e
             /\ \/ caller'[c] = NoCaller
                \/ /\ ph = "open" /\ caller'[c].pc = "created" /\ caller'[c].entry = e
                   /\ caller'[c].recheck = caller[c].recheck
  <2>1. c \in Callers /\ caller[c].pc = "creating" /\ caller[c].entry = e
    BY <1>9 DEF At
  <2>2. caller'[c] = to[c] /\ caller[c] \in CallerRecords
    BY <1>1, <1>5, <1>9, <2>1
  <2>3. CASE ph = "open"
    <3>1. to[c] = [caller[c] EXCEPT !.pc = "created"]
      BY <1>5, <1>9, <2>3
    <3>2. QED
      BY <2>1, <2>2, <2>3, <3>1 DEF CallerRecords
  <2>4. CASE ph = "closed"
    <3>1. to[c] = NoCaller
      BY <1>5, <1>9, <2>4
    <3>2. QED
      BY <2>1, <2>2, <3>1
  <2>5. QED
    BY <2>3, <2>4
<1>10. \A f \in Entries : At("leased", f)' = At("leased", f)
  BY <1>8, <1>9 DEF At, NoCaller
<1>11. \A f \in Entries : Counted(f)'
  <2>1. \A f \in Entries : entry'[f].leases = entry[f].leases
    BY <1>6, <1>7
  <2>2. QED
    BY <1>10, <2>1 DEF Inv, Counted
<1>12. \A f \in Entries : Sound(entry[f], process[f])'
  <2>1. Sound(entry'[e], process'[e])
    BY <1>1, <1>2, <1>6 DEF Inv, Sound, EntryRecords
  <2>2. ASSUME NEW f \in Entries, f # e PROVE Sound(entry'[f], process'[f])
    BY <1>2, <1>6, <2>2 DEF Inv
  <2>3. QED
    BY <2>1, <2>2
<1>13. ASSUME NEW c \in Callers
       PROVE  Placed(caller[c])' /\ Fits(caller[c], PasswordOf[c], entry[caller[c].entry])'
  <2>1. CASE c \notin At("creating", e)
    <3>1. caller'[c] = caller[c]
      BY <1>8, <2>1
    <3>2. caller[c].pc = "idle" \/ (caller[c].entry \in Entries /\ caller[c].entry # e)
      BY <1>3, <1>4, <2>1 DEF Placed
    <3>3. QED
      BY <1>3, <1>6, <3>1, <3>2 DEF Placed, Fits
  <2>2. CASE c \in At("creating", e) /\ caller'[c] = NoCaller
    BY <2>2, IdleCaller
  <2>3. CASE /\ c \in At("creating", e) /\ ph = "open"
             /\ caller'[c].pc = "created" /\ caller'[c].entry = e
             /\ caller'[c].recheck = caller[c].recheck
    <3>1. caller[c].pc = "creating" /\ caller[c].entry = e /\ entry[e].phase = "creating"
      BY <1>2, <1>9, <2>3
    <3>2. ~caller[c].recheck => PasswordOf[c] \in {Omitted, entry[e].password}
      BY <1>3, <3>1 DEF Fits, Bound
    <3>3. QED
      BY <1>7, <2>3, <3>2 DEF Placed, Fits, Bound
  <2>4. QED
    BY <1>9, <2>1, <2>2, <2>3
<1>14. entries' \in Entries \cup {None}
  BY <1>1, <1>5
<1>15. ASSUME entries' # None PROVE entry'[entries'].phase \in {"open", "closing"}
  <2>1. CASE ph = "open"
    BY <1>5, <1>7, <2>1
  <2>2. CASE ph = "closed"
    <3>1. entries' = entries /\ entries \in Entries /\ entries # e
      BY <1>1, <1>2, <1>5, <1>15, <2>2
    <3>2. QED
      BY <1>1, <1>6, <1>15, <3>1
  <2>3. QED
    BY <2>1, <2>2
<1>16. QED
  BY <1>1, <1>2, <1>6, <1>8, <1>11, <1>12, <1>13, <1>14, <1>15, Assembled

LEMMA DisposeInv ==
    ASSUME Inv, SSHConstants, Dispose \/ Disposed
    PROVE  Inv'
<1>1. /\ entry \in [Entries -> EntryRecords]
      /\ process \in [Entries -> [Generations -> ProcessStates]]
      /\ caller \in [Callers -> CallerRecords]
  BY Types DEF Inv
<1>2. CASE /\ disposed' = "disposing" /\ UNCHANGED <<entries, pending, entry, process, caller>>
  <2>1. \A f \in Entries : Sound(entry[f], process[f])' /\ Counted(f)'
    BY <1>2 DEF Inv, Counted, At
  <2>2. QED
    BY <1>1, <1>2, <2>1, Quiet
<1>3. CASE DisposeCloses
  <2>1. PICK set : set = {e \in Entries : entries = e}
    OBVIOUS
  <2>2. Close(set) /\ disposed' = "yes" /\ UNCHANGED <<entries, pending, caller>>
    BY <1>3, <2>1 DEF DisposeCloses
  <2>3. \A f \in Entries : Counted(f)'
    <3>1. \A f \in Entries : At("leased", f)' = At("leased", f) /\ entry'[f].leases = entry[f].leases
      BY <2>2, CloseStep DEF At
    <3>2. QED
      BY <3>1 DEF Inv, Counted
  <2>4. QED
    BY <1>1, <2>2, <2>3, CloseStep, Quiet
<1>4. QED
  BY <1>2, <1>3 DEF Dispose, Disposed

-----------------------------------------------------------------------------
(* The theorems.                                                           *)

LEMMA InitInv ==
    ASSUME SSHConstants, Init
    PROVE  Inv
<1>1. Cardinality(Callers) \in Nat /\ 0 \in 0..(MaxGeneration + 2)
  BY FS_CardinalityType DEF SSHConstants
<1>2. NewEntry \in EntryRecords
  BY <1>1, Numbers DEF NewEntry, EntryRecords
<1>3. NoEntry \in EntryRecords
  BY <1>2 DEF NoEntry, EntryRecords
<1>4. NoEntry.leases = 0 /\ NoEntry.master = 0 /\ NoEntry.connect = "none"
  BY DEF NoEntry, NewEntry
<1>5. TypeOK
  BY <1>3, CallerValues, Types DEF Init, ProcessStates
<1>6. \A e \in Entries : entry[e] = NoEntry /\ Sound(entry[e], process[e])
  BY <1>4 DEF Init, Sound
<1>7. \A e \in Entries : At("leased", e) = {}
  BY DEF Init, At, NoCaller
<1>8. \A e \in Entries : Counted(e)
  BY <1>4, <1>6, <1>7, FS_EmptySet DEF Counted
<1>9. \A c \in Callers : Placed(caller[c]) /\ Fits(caller[c], PasswordOf[c], entry[caller[c].entry])
  BY DEF Init, NoCaller, Placed, Fits
<1>10. QED
  BY <1>5, <1>6, <1>8, <1>9 DEF Inv

\* The invariant holds after every step.
LEMMA NextInv ==
    ASSUME SSHConstants, Inv, [Next]_vars
    PROVE  Inv'
<1>1. CASE UNCHANGED vars
  BY <1>1 DEF vars, Inv, TypeOK, Counted, At
<1>2. ASSUME NEW c \in Callers, Acquire(c) \/ Continue(c) \/ Cancel(c) \/ Release(c)
      PROVE  Inv'
  BY <1>2, AcquireInv, ContinueInv, CancelInv, ReleaseInv
<1>3. ASSUME NEW e \in Entries,
             \/ Created(e) \/ StartMaster(e) \/ Connected(e) \/ ConnectFails(e)
             \/ TimerFires(e) \/ Removed(e)
      PROVE  Inv'
  BY <1>3, CreatedInv, StartMasterInv, ConnectedInv, ConnectFailsInv, TimerFiresInv, RemovedInv
<1>4. ASSUME NEW e \in Entries, NEW g \in Generations,
             MasterUp(e, g) \/ MasterExits(e, g) \/ MasterClosed(e, g)
      PROVE  Inv'
  BY <1>4, MasterInv
<1>5. CASE Dispose \/ Disposed
  BY <1>5, DisposeInv
<1>6. QED
  BY <1>1, <1>2, <1>3, <1>4, <1>5 DEF Next

\* Every reachable state satisfies Inv.
LEMMA Invariant == Spec => []Inv
<1>1. Init => Inv
  BY SSHConstants, InitInv
<1>2. Inv /\ [Next]_vars => Inv'
  BY SSHConstants, NextInv
<1>3. QED
  BY <1>1, <1>2, PTL DEF Spec

\* Every state is well typed; the map of entries leads to connections that are
\* open or closing, and what is being created is not in it yet.
THEOREM TransportTyped == Spec => []TypeOK
<1>1. Inv => TypeOK
  BY DEF Inv
<1>2. QED
  BY <1>1, Invariant, PTL

\* sshTransportManager's assertCurrent accepts a lease only on the very master it
\* was given on, for any number of reconnections and whatever order close events
\* and new masters come in.
THEOREM StaleRefused == Spec => []StaleNeverAccepted
<1>1. Inv => StaleNeverAccepted
  <2>1. SUFFICES ASSUME Inv, NEW c \in Callers, Accepted(c)
                 PROVE  entry[caller[c].entry].master = caller[c].own
    BY DEF StaleNeverAccepted
  <2>2. /\ caller[c].pc = "leased" /\ caller[c].generation = entry[caller[c].entry].generation
        /\ entry[caller[c].entry].master # 0
    BY <2>1 DEF Accepted, transportAlive, processAlive
  <2>3. caller[c].entry \in Entries /\ caller[c].own = caller[c].generation
    BY <2>1, <2>2 DEF Inv, Placed
  <2>4. entry[caller[c].entry].master = entry[caller[c].entry].generation
    BY <2>1, <2>2, <2>3 DEF Inv, Sound
  <2>5. QED
    BY <2>2, <2>3, <2>4
<1>2. QED
  BY <1>1, Invariant, PTL

\* Nobody's commands run on a connection that was authenticated with another's
\* password, for any number of callers with any passwords.
THEOREM OwnCredentials == Spec => []LeaseHasOwnCredentials
<1>1. Inv => LeaseHasOwnCredentials
  BY DEF Inv, LeaseHasOwnCredentials, Accepted, transportAlive, Fits, Bound
<1>2. QED
  BY <1>1, Invariant, PTL

-----------------------------------------------------------------------------
(* A lease ends with its master: what nobody but the master, its lease and   *)
(* dispose may do to an entry.                                               *)

\* A connect task that is about to start a master has found none alive.
Unserved(e) == entry[e].connect = "preparing" => ~processAlive(e, entry[e].master)

ServedInv == Inv /\ \A e \in Entries : Unserved(e)

\* e is as it was, as far as its leases are concerned
Kept(e) ==
    /\ entry'[e].phase = entry[e].phase /\ entry'[e].master = entry[e].master
    /\ entry'[e].generation = entry[e].generation
    /\ processAlive(e, entry[e].master)'

\* the process that was the master of e is not alive any more
Ended(e) == process'[e][entry[e].master] \notin {"starting", "left", "up", "ending"}

\* What a step may do to an entry with a lease whose master is alive
Holds(e) == Kept(e) \/ Ended(e) \/ disposed' = "yes"

\* Closing other entries leaves an entry alone.
LEMMA CloseOthers ==
    ASSUME Inv, NEW set, Close(set), NEW e \in Entries, e \notin set
    PROVE  entry'[e] = entry[e] /\ process'[e] = process[e]
BY DEF Close

\* closeEntry brings no process to life and ends with no master.
LEMMA CloseUnserved ==
    ASSUME ServedInv, SSHConstants, NEW set, Close(set), NEW e \in Entries
    PROVE  Unserved(e)'
<1>1. /\ entry \in [Entries -> EntryRecords]
      /\ process \in [Entries -> [Generations -> ProcessStates]]
  BY Types DEF ServedInv, Inv
<1>2. CASE e \in set /\ entry[e].phase = "open"
  <2>1. entry'[e] = Closed(e)
    BY <1>2 DEF Close
  <2>2. entry'[e].master = 0
    BY <1>1, <2>1 DEF Closed, EntryRecords
  <2>3. QED
    BY <2>2 DEF Unserved, processAlive
<1>3. CASE ~(e \in set /\ entry[e].phase = "open")
  <2>1. entry'[e] = entry[e] /\ process'[e] = process[e]
    BY <1>3 DEF Close
  <2>2. QED
    BY <2>1 DEF Unserved, processAlive, ServedInv
<1>4. QED
  BY <1>2, <1>3

\* A process that is told to end is alive until it exits, and no other changes.
LEMMA KilledAlive ==
    ASSUME Inv, NEW e \in Entries, NEW g \in {0} \cup Generations, process' = Killed(e, g)
    PROVE  \A f \in Entries, h \in {0} \cup Generations : processAlive(f, h)' <=> processAlive(f, h)
<1>1. process \in [Entries -> [Generations -> ProcessStates]]
  BY Types DEF Inv
<1>2. CASE processAlive(e, g)
  <2>1. process' = [process EXCEPT ![e][g] = "ending"]
    BY <1>2 DEF Killed
  <2>2. g \in Generations
    BY <1>2 DEF processAlive
  <2>3. ASSUME NEW f \in Entries, NEW h \in {0} \cup Generations
        PROVE  processAlive(f, h)' <=> processAlive(f, h)
    <3>1. CASE f = e /\ h = g
      <4>1. process'[f][h] = "ending"
        BY <1>1, <2>1, <2>2, <3>1
      <4>2. QED
        BY <1>2, <3>1, <4>1 DEF processAlive
    <3>2. CASE ~(f = e /\ h = g)
      <4>1. h # 0 => process'[f][h] = process[f][h]
        BY <1>1, <2>1, <2>2, <3>2, SSHConstants, Numbers
      <4>2. QED
        BY <4>1 DEF processAlive
    <3>3. QED
      BY <3>1, <3>2
  <2>4. QED
    BY <2>3
<1>3. CASE ~processAlive(e, g)
  BY <1>3 DEF Killed, processAlive
<1>4. QED
  BY <1>2, <1>3

\* So is one that is left alone.
LEMMA LeftAlive ==
    ASSUME Inv, NEW e \in Entries, NEW g \in {0} \cup Generations, process' = Left(e, g)
    PROVE  \A f \in Entries, h \in {0} \cup Generations : processAlive(f, h)' <=> processAlive(f, h)
<1>1. process \in [Entries -> [Generations -> ProcessStates]]
  BY Types DEF Inv
<1>2. CASE g # 0 /\ process[e][g] = "starting"
  <2>1. process' = [process EXCEPT ![e][g] = "left"] /\ g \in Generations
    BY <1>2 DEF Left
  <2>2. ASSUME NEW f \in Entries, NEW h \in {0} \cup Generations
        PROVE  processAlive(f, h)' <=> processAlive(f, h)
    <3>1. CASE f = e /\ h = g
      <4>1. process'[f][h] = "left"
        BY <1>1, <2>1, <3>1
      <4>2. QED
        BY <1>2, <3>1, <4>1 DEF processAlive
    <3>2. CASE ~(f = e /\ h = g)
      <4>1. h # 0 => process'[f][h] = process[f][h]
        BY <1>1, <2>1, <3>2
      <4>2. QED
        BY <4>1 DEF processAlive
    <3>3. QED
      BY <3>1, <3>2
  <2>3. QED
    BY <2>2
<1>3. CASE ~(g # 0 /\ process[e][g] = "starting")
  BY <1>3 DEF Left, processAlive
<1>4. QED
  BY <1>2, <1>3

\* Unserved and Kept for entries a step does not touch
LEMMA Untouched ==
    ASSUME ServedInv, NEW e \in Entries, entry'[e].connect = entry[e].connect \/ entry'[e].connect # "preparing",
           entry'[e].phase = entry[e].phase, entry'[e].master = entry[e].master,
           entry'[e].generation = entry[e].generation, process'[e] = process[e]
    PROVE  Unserved(e)' /\ (transportAlive(e) => Kept(e))
BY DEF ServedInv, Unserved, Kept, transportAlive, processAlive

\* Both for one step of an entry
Fine(e) == Unserved(e)' /\ (transportAlive(e) /\ entry[e].leases > 0 => Holds(e))

\* A caller joins an entry: it closes none that is leased.
LEMMA JoinFine ==
    ASSUME ServedInv, SSHConstants, NEW c \in Callers, NEW f \in Entries, Join(c, f), NEW e \in Entries
    PROVE  Fine(e)
<1>1. /\ entry \in [Entries -> EntryRecords]
      /\ process \in [Entries -> [Generations -> ProcessStates]]
  BY Types DEF ServedInv, Inv
<1>2. CASE /\ ~transportAlive(f) /\ entry[f].connect = "none" /\ entry[f].leases = 0 /\ Close({f})
  <2>1. Unserved(e)'
    BY <1>2, CloseUnserved
  <2>2. entry[e].leases > 0 => entry'[e] = entry[e] /\ process'[e] = process[e]
    BY <1>2, CloseOthers DEF ServedInv
  <2>3. QED
    BY <2>1, <2>2 DEF Fine, Holds, Kept, transportAlive, processAlive
<1>3. CASE /\ entry[f].phase = "open" /\ ~transportAlive(f) /\ entry[f].connect = "none"
           /\ entry' = [entry EXCEPT ![f].idle = FALSE, ![f].connect = "preparing", ![f].task = 0]
           /\ UNCHANGED process
  <2>1. ~processAlive(f, entry[f].master)
    BY <1>3 DEF transportAlive
  <2>2. CASE e = f
    <3>1. entry'[e].master = entry[e].master /\ process'[e] = process[e]
      BY <1>1, <1>3, <2>2 DEF EntryRecords
    <3>2. QED
      BY <1>3, <2>1, <2>2, <3>1 DEF Fine, Unserved, processAlive
  <2>3. CASE e # f
    <3>1. entry'[e] = entry[e] /\ process'[e] = process[e]
      BY <1>1, <1>3, <2>3
    <3>2. QED
      BY <3>1, Untouched DEF Fine, Holds
  <2>4. QED
    BY <2>2, <2>3
<1>4. CASE /\ \/ entry' = [entry EXCEPT ![f].idle = FALSE, ![f].leases = @ + 1]
              \/ entry' = [entry EXCEPT ![f].idle = FALSE]
              \/ entry' = entry
           /\ UNCHANGED process
  <2>1. /\ entry'[e].connect = entry[e].connect /\ entry'[e].phase = entry[e].phase
        /\ entry'[e].master = entry[e].master /\ entry'[e].generation = entry[e].generation
    <3>1. CASE entry' = [entry EXCEPT ![f].idle = FALSE, ![f].leases = @ + 1]
      <4>1. CASE e = f
        <5>1. entry'[e] = [entry[e] EXCEPT !.idle = FALSE, !.leases = entry[e].leases + 1]
          BY <1>1, <3>1, <4>1
        <5>2. QED
          BY <1>1, <5>1 DEF EntryRecords
      <4>2. CASE e # f
        BY <1>1, <3>1, <4>2
      <4>3. QED
        BY <4>1, <4>2
    <3>2. CASE entry' = [entry EXCEPT ![f].idle = FALSE]
      BY <1>1, <3>2 DEF EntryRecords
    <3>3. CASE entry' = entry
      BY <3>3
    <3>4. QED
      BY <1>4, <3>1, <3>2, <3>3
  <2>2. QED
    BY <1>4, <2>1, Untouched DEF Fine, Holds
<1>5. QED
  BY <1>2, <1>3, <1>4 DEF Join

\* Nor does one that finds other credentials.
LEMMA EnterFine ==
    ASSUME ServedInv, SSHConstants, NEW c \in Callers, NEW f \in Entries, Enter(c, f), NEW e \in Entries
    PROVE  Fine(e)
<1>1. CASE Join(c, f)
  BY <1>1, JoinFine
<1>2. CASE Replace(c, f) /\ entry[f].leases > 0
  <2>1. entry' = entry /\ process' = process
    BY <1>2 DEF Replace
  <2>2. QED
    BY <2>1, Untouched DEF Fine, Holds
<1>3. CASE Replace(c, f) /\ ~(entry[f].leases > 0)
  <2>1. Close({f})
    BY <1>3 DEF Replace
  <2>2. Unserved(e)'
    BY <2>1, CloseUnserved
  <2>3. entry[e].leases > 0 => entry'[e] = entry[e] /\ process'[e] = process[e]
    BY <1>3, <2>1, CloseOthers DEF ServedInv
  <2>4. QED
    BY <2>2, <2>3 DEF Fine, Holds, Kept, transportAlive, processAlive
<1>4. QED
  BY <1>1, <1>2, <1>3 DEF Enter

\* A new entry is put into an object that was closed.
LEMMA StartFine ==
    ASSUME ServedInv, SSHConstants, NEW c, NEW objects \in [Entries -> EntryRecords], StartEntry(c, objects),
           NEW e \in Entries, objects[e] = entry[e], process' = process
    PROVE  Fine(e)
<1>1. /\ entry \in [Entries -> EntryRecords]
      /\ process \in [Entries -> [Generations -> ProcessStates]]
  BY Types DEF ServedInv, Inv
<1>2. PICK new \in Entries :
         Fresh(new) /\ \E password : entry' = [objects EXCEPT ![new] = [NewEntry EXCEPT !.password = password]]
  BY DEF StartEntry
<1>3. CASE e = new
  <2>1. PICK password : entry'[e] = [NewEntry EXCEPT !.password = password]
    BY <1>2, <1>3
  <2>2. entry'[e].connect = "none"
    BY <2>1 DEF NewEntry
  <2>3. ~transportAlive(e)
    BY <1>2, <1>3 DEF Fresh, transportAlive
  <2>4. QED
    BY <2>2, <2>3 DEF Fine, Unserved
<1>4. CASE e # new
  <2>1. entry'[e] = entry[e]
    BY <1>2, <1>4
  <2>2. QED
    BY <2>1, Untouched DEF Fine, Holds
<1>5. QED
  BY <1>3, <1>4

\* Steps of one entry that close nothing and bring no process to life.
LEMMA SmallFine ==
    ASSUME ServedInv, NEW f \in Entries, NEW x, entry' = [entry EXCEPT ![f] = x],
           x.phase = entry[f].phase, x.master = entry[f].master, x.generation = entry[f].generation,
           x.connect # "preparing" \/ x.connect = entry[f].connect,
           \A g \in Entries, h \in {0} \cup Generations : processAlive(g, h)' <=> processAlive(g, h),
           NEW e \in Entries
    PROVE  Fine(e)
<1>1. /\ entry \in [Entries -> EntryRecords]
      /\ \A h \in {0} \cup Generations : processAlive(e, h)' <=> processAlive(e, h)
  BY Types DEF ServedInv, Inv
<1>2. /\ entry'[e].phase = entry[e].phase /\ entry'[e].master = entry[e].master
      /\ entry'[e].generation = entry[e].generation
      /\ entry'[e].connect # "preparing" \/ entry'[e].connect = entry[e].connect
  BY <1>1
<1>3. entry[e].master \in {0} \cup Generations
  BY <1>1 DEF EntryRecords
<1>4. processAlive(e, entry[e].master)' <=> processAlive(e, entry[e].master)
  <2>1. processAlive(e, entry[e].master)' <=> (entry[e].master # 0 /\ process'[e][entry[e].master] \in {"starting", "left", "up", "ending"})
    BY <1>2 DEF processAlive
  <2>2. QED
    BY <1>1, <1>3, <2>1 DEF processAlive
<1>5. QED
  BY <1>2, <1>4 DEF Fine, Holds, Kept, Unserved, ServedInv, transportAlive

\* a leased entry counts its leases
LEMMA LeaseCounts ==
    ASSUME Inv, SSHConstants, NEW c \in Callers, caller[c].pc = "leased"
    PROVE  caller[c].entry \in Entries /\ entry[caller[c].entry].leases > 0
<1> DEFINE e == caller[c].entry
<1>1. e \in Entries /\ Counted(e)
  BY DEF Inv, Placed
<1>2. c \in At("leased", e)
  BY DEF At
<1>3. Cardinality(At("leased", e)) # 0
  BY <1>2, AtFinite, FS_EmptySet
<1>4. Cardinality(At("leased", e)) \in Nat
  BY AtFinite, FS_CardinalityType
<1>5. QED
  BY <1>1, <1>3, <1>4 DEF Counted

\* A caller acquires or goes on after the creation of its entry.
LEMMA AcquireFine ==
    ASSUME ServedInv, SSHConstants, NEW c \in Callers, Acquire(c) \/ Continue(c), NEW e \in Entries
    PROVE  Fine(e)
<1>1. /\ entry \in [Entries -> EntryRecords] /\ entries \in Entries \cup {None}
  BY Types DEF ServedInv, Inv
<1>2. CASE Acquire(c) /\ entries # None /\ Enter(c, entries)
  BY <1>1, <1>2, EnterFine
<1>3. CASE UNCHANGED <<entry, process>>
  BY <1>3, Untouched DEF Fine, Holds
<1>4. CASE StartEntry(c, entry) /\ UNCHANGED process
  BY <1>1, <1>4, StartFine
<1>5. CASE Continue(c)
  <2>1. caller[c].entry \in Entries
    BY <1>5 DEF ServedInv, Inv, Placed, Continue
  <2>2. QED
    BY <1>5, <2>1, EnterFine, JoinFine DEF Continue
<1>6. QED
  BY <1>2, <1>3, <1>4, <1>5 DEF Acquire

\* The last one to wait closes an entry only when nobody has leased it.
LEMMA CancelFine ==
    ASSUME ServedInv, SSHConstants, NEW c \in Callers, Cancel(c), NEW e \in Entries
    PROVE  Fine(e)
<1>1. CASE entry[caller[c].entry].leases = 0 /\ Close({caller[c].entry})
  <2>1. Unserved(e)'
    BY <1>1, CloseUnserved
  <2>2. entry[e].leases > 0 => entry'[e] = entry[e] /\ process'[e] = process[e]
    BY <1>1, CloseOthers DEF ServedInv
  <2>3. QED
    BY <2>1, <2>2 DEF Fine, Holds, Kept, transportAlive, processAlive
<1>2. CASE UNCHANGED <<entry, process>>
  BY <1>2, Untouched DEF Fine, Holds
<1>3. QED
  BY <1>1, <1>2 DEF Cancel

\* A release arms the timer and changes nothing a lease depends on.
LEMMA ReleaseFine ==
    ASSUME ServedInv, SSHConstants, NEW c \in Callers, Release(c), NEW e \in Entries
    PROVE  Fine(e)
<1> DEFINE f == caller[c].entry
           arm == entry[f].leases = 1 /\ entry[f].phase = "open" /\ disposed = "no"
           x == [entry[f] EXCEPT !.leases = entry[f].leases - 1, !.idle = entry[f].idle \/ arm,
                                 !.stray = entry[f].stray \/ (arm /\ entry[f].idle)]
<1>1. /\ entry \in [Entries -> EntryRecords] /\ f \in Entries
  BY Types DEF ServedInv, Inv, Placed, Release
<1>2. entry' = [entry EXCEPT ![f] = x]
  BY <1>1 DEF Release
<1>3. x.phase = entry[f].phase /\ x.master = entry[f].master /\ x.generation = entry[f].generation
      /\ x.connect = entry[f].connect
  BY <1>1 DEF EntryRecords
<1>4. process' = process
  BY DEF Release
<1>5. \A g \in Entries, h \in {0} \cup Generations : processAlive(g, h)' <=> processAlive(g, h)
  BY <1>4 DEF processAlive
<1> HIDE DEF x
<1>6. QED
  BY <1>1, <1>2, <1>3, <1>5, SmallFine

\* The idle timer closes an entry only when nobody has leased it.
LEMMA TimerFine ==
    ASSUME ServedInv, SSHConstants, NEW f \in Entries, TimerFires(f), NEW e \in Entries
    PROVE  Fine(e)
<1>1. /\ entry \in [Entries -> EntryRecords]
      /\ process \in [Entries -> [Generations -> ProcessStates]]
  BY Types DEF ServedInv, Inv
<1>2. CASE entry[f].leases = 0 /\ entry[f].phase = "open"
  <2>1. entry' = [entry EXCEPT ![f] = Closed(f)] /\ process' = Killed(f, entry[f].master)
    BY <1>2 DEF TimerFires
  <2>2. \A g \in Entries, h \in {0} \cup Generations : processAlive(g, h)' <=> processAlive(g, h)
    <3>1. entry[f].master \in {0} \cup Generations
      BY <1>1 DEF EntryRecords
    <3>2. QED
      BY <2>1, <3>1, KilledAlive DEF ServedInv
  <2>3. CASE e = f
    <3>1. entry'[e] = Closed(f)
      BY <1>1, <2>1, <2>3
    <3>2. entry'[e].master = 0
      BY <1>1, <3>1 DEF Closed, EntryRecords
    <3>3. QED
      BY <1>2, <2>3, <3>2 DEF Fine, Unserved, processAlive
  <2>4. CASE e # f
    <3>1. entry'[e] = entry[e]
      BY <1>1, <2>1, <2>4
    <3>2. process'[e] = process[e]
      <4>1. entry[f].master \in {0} \cup Generations
        BY <1>1 DEF EntryRecords
      <4>2. QED
        BY <2>1, <2>4, <4>1, KilledStep DEF ServedInv
    <3>3. QED
      BY <3>1, <3>2, Untouched DEF Fine, Holds
  <2>5. QED
    BY <2>3, <2>4
<1>3. CASE ~(entry[f].leases = 0 /\ entry[f].phase = "open")
  <2>1. PICK stray \in BOOLEAN :
          entry' = [entry EXCEPT ![f].idle = FALSE, ![f].stray = stray] /\ process' = process
    BY <1>3 DEF TimerFires
  <2>2. PICK x : x = [entry[f] EXCEPT !.idle = FALSE, !.stray = stray]
    OBVIOUS
  <2>3. entry' = [entry EXCEPT ![f] = x]
    BY <1>1, <2>1, <2>2
  <2>4. x.phase = entry[f].phase /\ x.master = entry[f].master /\ x.generation = entry[f].generation
        /\ x.connect = entry[f].connect
    BY <1>1, <2>2 DEF EntryRecords
  <2>5. \A g \in Entries, h \in {0} \cup Generations : processAlive(g, h)' <=> processAlive(g, h)
    BY <2>1 DEF processAlive
  <2>6. QED
    BY <2>3, <2>4, <2>5, SmallFine
<1>4. QED
  BY <1>2, <1>3

\* An entry that is created has no leases yet.
LEMMA CreatedFine ==
    ASSUME ServedInv, SSHConstants, NEW f \in Entries, Created(f), NEW e \in Entries
    PROVE  Fine(e)
<1>1. /\ entry \in [Entries -> EntryRecords] /\ entry[f].phase = "creating" /\ process' = process
  BY Types, Numbers DEF ServedInv, Inv, Created
<1>2. PICK ph \in {"open", "closed"} : entry' = [entry EXCEPT ![f].phase = ph]
  BY DEF Created
<1>3. CASE e = f
  <2>1. entry'[e].master = entry[e].master /\ entry'[e].connect = entry[e].connect
    BY <1>1, <1>2, <1>3 DEF EntryRecords
  <2>2. ~transportAlive(e)
    BY <1>1, <1>3 DEF transportAlive
  <2>3. QED
    BY <1>1, <2>1, <2>2 DEF Fine, Unserved, ServedInv, processAlive
<1>4. CASE e # f
  <2>1. entry'[e] = entry[e]
    BY <1>1, <1>2, <1>4
  <2>2. QED
    BY <1>1, <2>1, Untouched DEF Fine, Holds
<1>5. QED
  BY <1>3, <1>4

\* A connect task starts a master only where none is alive.
LEMMA StartMasterFine ==
    ASSUME ServedInv, SSHConstants, NEW f \in Entries, StartMaster(f), NEW e \in Entries
    PROVE  Fine(e)
<1> DEFINE g == entry[f].generation + 1
<1>1. /\ entry \in [Entries -> EntryRecords]
      /\ process \in [Entries -> [Generations -> ProcessStates]]
  BY Types DEF ServedInv, Inv
<1>2. /\ entry' = [entry EXCEPT ![f].generation = g, ![f].master = g, ![f].connect = "checking", ![f].task = g]
      /\ process' = [process EXCEPT ![f][g] = "starting"]
      /\ entry[f].connect = "preparing"
  BY DEF StartMaster
<1> HIDE DEF g
<1>3. CASE e = f
  <2>1. entry'[e].connect = "checking"
    BY <1>1, <1>2, <1>3 DEF EntryRecords
  <2>2. ~transportAlive(e)
    BY <1>2, <1>3 DEF ServedInv, Unserved, transportAlive
  <2>3. QED
    BY <2>1, <2>2 DEF Fine, Unserved
<1>4. CASE e # f
  <2>1. entry'[e] = entry[e] /\ process'[e] = process[e]
    BY <1>1, <1>2, <1>4
  <2>2. QED
    BY <2>1, Untouched DEF Fine, Holds
<1>5. QED
  BY <1>3, <1>4

\* New leases leave the connection as it is.
LEMMA ConnectedFine ==
    ASSUME ServedInv, SSHConstants, NEW f \in Entries, Connected(f), NEW e \in Entries
    PROVE  Fine(e)
<1>1. entry \in [Entries -> EntryRecords]
  BY Types DEF ServedInv, Inv
<1>2. PICK n : n = entry[f].leases + Cardinality(Waiters(f))
  OBVIOUS
<1>3. PICK x : x = [entry[f] EXCEPT !.connect = "none", !.task = 0, !.leases = n]
  OBVIOUS
<1>4. entry' = [entry EXCEPT ![f] = x] /\ process' = process
  BY <1>1, <1>2, <1>3 DEF Connected
<1>5. x.phase = entry[f].phase /\ x.master = entry[f].master /\ x.generation = entry[f].generation
      /\ x.connect = "none"
  BY <1>1, <1>3 DEF EntryRecords
<1>6. \A g \in Entries, h \in {0} \cup Generations : processAlive(g, h)' <=> processAlive(g, h)
  BY <1>4 DEF processAlive
<1>7. QED
  BY <1>4, <1>5, <1>6, SmallFine

\* A connect task that fails closes its entry only when nobody has leased it.
LEMMA ConnectFailsFine ==
    ASSUME ServedInv, SSHConstants, NEW f \in Entries, ConnectFails(f), NEW e \in Entries
    PROVE  Fine(e)
<1> DEFINE last == Waiters(f) # {} /\ entry[f].leases = 0 /\ entry[f].phase = "open"
           x == [(IF last THEN Closed(f) ELSE entry[f]) EXCEPT !.connect = "none", !.task = 0]
<1>1. /\ entry \in [Entries -> EntryRecords] /\ Closed(f) \in EntryRecords
      /\ process \in [Entries -> [Generations -> ProcessStates]]
  BY Types, ClosedEntry DEF ServedInv, Inv
<1>2. /\ entry' = [entry EXCEPT ![f] = x]
      /\ process' = Killed(f, entry[f].task) \/ process' = Left(f, entry[f].task)
  BY DEF ConnectFails
<1>3. entry[f].task \in {0} \cup Generations
  BY <1>1 DEF EntryRecords
<1>4. \A g \in Entries, h \in {0} \cup Generations : processAlive(g, h)' <=> processAlive(g, h)
  BY <1>2, <1>3, KilledAlive, LeftAlive DEF ServedInv
<1>5. CASE last
  <2>1. CASE e = f
    <3>1. entry'[e] = [Closed(f) EXCEPT !.connect = "none", !.task = 0]
      BY <1>1, <1>2, <1>5, <2>1
    <3>2. entry'[e].connect = "none"
      BY <1>1, <3>1 DEF EntryRecords
    <3>3. QED
      BY <1>5, <2>1, <3>2 DEF Fine, Unserved
  <2>2. CASE e # f
    <3>1. entry'[e] = entry[e] /\ process'[e] = process[e]
      BY <1>1, <1>2, <1>3, <2>2, MasterToldStep DEF ServedInv
    <3>2. QED
      BY <3>1, Untouched DEF Fine, Holds
  <2>3. QED
    BY <2>1, <2>2
<1>6. CASE ~last
  <2>1. x = [entry[f] EXCEPT !.connect = "none", !.task = 0]
    BY <1>6
  <2>2. x.phase = entry[f].phase /\ x.master = entry[f].master /\ x.generation = entry[f].generation
        /\ x.connect = "none"
    <3> HIDE DEF x
    <3> QED BY <1>1, <2>1 DEF EntryRecords
  <2> HIDE DEF x, last
  <2>3. QED
    BY <1>2, <1>4, <2>2, SmallFine
<1>7. QED
  BY <1>5, <1>6

\* What happens to a process: its entry is disturbed only through its own master.
LEMMA MasterFine ==
    ASSUME ServedInv, SSHConstants, NEW f \in Entries, NEW g \in Generations,
           MasterUp(f, g) \/ MasterExits(f, g) \/ MasterClosed(f, g), NEW e \in Entries
    PROVE  Fine(e)
<1>1. /\ entry \in [Entries -> EntryRecords]
      /\ process \in [Entries -> [Generations -> ProcessStates]]
  BY Types DEF ServedInv, Inv
<1>2. PICK q \in {"up", "exited", "none"} : process' = [process EXCEPT ![f][g] = q]
  BY DEF MasterUp, MasterExits, MasterClosed
<1>3. \A h \in Generations : process'[e][h] = IF e = f /\ h = g THEN q ELSE process[e][h]
  BY <1>1, <1>2
<1>4. ASSUME NEW h \in {0} \cup Generations, processAlive(e, h)' PROVE processAlive(e, h)
  <2>1. h \in Generations /\ process'[e][h] \in {"starting", "left", "up", "ending"}
    BY <1>4 DEF processAlive
  <2>2. CASE e = f /\ h = g
    <3>1. process'[e][h] = q /\ q = "up"
      BY <1>3, <2>1, <2>2
    <3>2. process[f][g] \in {"starting", "left"}
      BY <1>1, <1>3, <2>2, <3>1 DEF MasterUp, MasterExits, MasterClosed
    <3>3. QED
      BY <1>4, <2>2, <3>2 DEF processAlive
  <2>3. CASE ~(e = f /\ h = g)
    BY <1>3, <1>4, <2>1, <2>3 DEF processAlive
  <2>4. QED
    BY <2>2, <2>3
<1>5. entry[e].master \in {0} \cup Generations
  BY <1>1 DEF EntryRecords
<1>6. CASE entry'[e] = entry[e]
  BY <1>4, <1>5, <1>6 DEF Fine, Holds, Kept, Ended, Unserved, ServedInv, transportAlive, processAlive
<1>7. CASE entry'[e] # entry[e]
  <2>1. /\ e = f /\ MasterClosed(f, g) /\ entry[f].master = g
        /\ entry' = [entry EXCEPT ![f].master = 0, ![f].generation = @ + 1]
    BY <1>1, <1>7 DEF MasterUp, MasterExits, MasterClosed
  <2>2. entry'[e].master = 0
    BY <1>1, <2>1 DEF EntryRecords
  <2>3. ~transportAlive(e)
    BY <2>1 DEF MasterClosed, transportAlive, processAlive
  <2>4. QED
    BY <2>2, <2>3 DEF Fine, Unserved, processAlive
<1>8. QED
  BY <1>6, <1>7

\* Only a closed entry is cleared or used again.
LEMMA RemovedFine ==
    ASSUME ServedInv, SSHConstants, NEW f \in Entries, Removed(f), NEW e \in Entries
    PROVE  Fine(e)
<1>1. /\ entry \in [Entries -> EntryRecords] /\ entry[f] \in EntryRecords /\ Gone(f) \in EntryRecords
  BY Types, GoneEntry DEF ServedInv, Inv
<1>2. PICK objects \in [Entries -> EntryRecords] : objects = [entry EXCEPT ![f] = Gone(f)]
  BY <1>1
<1>3. /\ objects[f] = Gone(f) /\ (e # f => objects[e] = entry[e]) /\ process' = process
      /\ entry[f].phase = "closing"
  BY <1>1, <1>2 DEF Removed
<1>4. Gone(f).connect = "none" \/ (Gone(f).connect = entry[f].connect /\ Gone(f).master = entry[f].master)
  BY <1>1 DEF Gone, NoEntry, NewEntry, EntryRecords
<1>5. CASE entry' = objects
  <2>1. CASE e = f
    BY <1>3, <1>4, <1>5, <2>1 DEF Fine, Unserved, ServedInv, transportAlive, processAlive
  <2>2. CASE e # f
    BY <1>3, <1>5, <2>2, Untouched DEF Fine, Holds
  <2>3. QED
    BY <2>1, <2>2
<1>6. CASE \E c \in Callers : StartEntry(c, objects)
  <2>1. PICK c \in Callers : StartEntry(c, objects)
    BY <1>6
  <2>2. CASE e # f
    BY <1>3, <2>1, <2>2, StartFine
  <2>3. CASE e = f
    <3>1. PICK new \in Entries :
             \E password : entry' = [objects EXCEPT ![new] = [NewEntry EXCEPT !.password = password]]
      BY <2>1 DEF StartEntry
    <3>2. entry'[e] = objects[e] \/ entry'[e].connect = "none"
      BY <3>1 DEF NewEntry
    <3>3. QED
      BY <1>3, <1>4, <2>3, <3>2 DEF Fine, Unserved, ServedInv, transportAlive, processAlive
  <2>4. QED
    BY <2>2, <2>3
<1>7. entry' = objects \/ \E c \in At("replacing", f) : StartEntry(c, objects)
  BY <1>2 DEF Removed
<1>8. QED
  BY <1>5, <1>6, <1>7 DEF At

\* dispose may close what is leased.
LEMMA DisposeFine ==
    ASSUME ServedInv, SSHConstants, Dispose \/ Disposed, NEW e \in Entries
    PROVE  Fine(e)
<1>1. CASE UNCHANGED <<entry, process>>
  BY <1>1, Untouched DEF Fine, Holds
<1>2. CASE DisposeCloses
  <2>1. PICK set : set = {f \in Entries : entries = f}
    OBVIOUS
  <2>2. Close(set) /\ disposed' = "yes"
    BY <1>2, <2>1 DEF DisposeCloses
  <2>3. QED
    BY <2>2, CloseUnserved DEF Fine, Holds
<1>3. QED
  BY <1>1, <1>2 DEF Dispose, Disposed

\* No step but dispose takes a lease away whose master is alive, ...
LEMMA NextFine ==
    ASSUME ServedInv, SSHConstants, [Next]_vars, NEW e \in Entries
    PROVE  Fine(e)
<1>1. CASE UNCHANGED vars
  BY <1>1, Untouched DEF vars, Fine, Holds
<1>2. ASSUME NEW c \in Callers, Acquire(c) \/ Continue(c) \/ Cancel(c) \/ Release(c)
      PROVE  Fine(e)
  BY <1>2, AcquireFine, CancelFine, ReleaseFine
<1>3. ASSUME NEW f \in Entries,
             \/ Created(f) \/ StartMaster(f) \/ Connected(f) \/ ConnectFails(f)
             \/ TimerFires(f) \/ Removed(f)
      PROVE  Fine(e)
  BY <1>3, CreatedFine, StartMasterFine, ConnectedFine, ConnectFailsFine, TimerFine, RemovedFine
<1>4. ASSUME NEW f \in Entries, NEW g \in Generations,
             MasterUp(f, g) \/ MasterExits(f, g) \/ MasterClosed(f, g)
      PROVE  Fine(e)
  BY <1>4, MasterFine
<1>5. CASE Dispose \/ Disposed
  BY <1>5, DisposeFine
<1>6. QED
  BY <1>1, <1>2, <1>3, <1>4, <1>5 DEF Next

\* ... and a caller that keeps its lease keeps it as it is.
LEMMA LeaseKept ==
    ASSUME ServedInv, SSHConstants, [Next]_vars, NEW c \in Callers,
           caller[c].pc = "leased", caller'[c].pc = "leased"
    PROVE  caller'[c] = caller[c]
<1>1. caller \in [Callers -> CallerRecords]
  BY Types DEF ServedInv, Inv
<1>2. ASSUME NEW d \in Callers, NEW k, d # c, caller' = [caller EXCEPT ![d] = k]
      PROVE  caller'[c] = caller[c]
  BY <1>1, <1>2
<1>3. CASE UNCHANGED caller
  BY <1>3
<1>4. ASSUME NEW d \in Callers, Acquire(d) \/ Continue(d) \/ Cancel(d)
      PROVE  caller'[c] = caller[c]
  <2>1. d # c
    BY <1>4 DEF Acquire, Continue, Cancel
  <2>2. \E k : caller' = [caller EXCEPT ![d] = k]
    BY <1>4 DEF Acquire, Continue, Cancel, Enter, Join, Replace, Creating, Becomes, Fails
  <2>3. QED
    BY <1>2, <2>1, <2>2
<1>5. ASSUME NEW d \in Callers, Release(d)
      PROVE  caller'[c] = caller[c]
  <2>1. d # c
    BY <1>1, <1>5 DEF Release, Fails, NoCaller
  <2>2. QED
    BY <1>2, <1>5, <2>1 DEF Release, Fails
<1>6. ASSUME NEW f \in Entries, Created(f) \/ Connected(f) \/ ConnectFails(f)
      PROVE  caller'[c] = caller[c]
  BY <1>6 DEF Created, Connected, ConnectFails, At, Waiters
<1>7. ASSUME NEW f \in Entries, Removed(f)
      PROVE  caller'[c] = caller[c]
  <2>1. CASE \E d \in At("replacing", f) : Creating(d, pending', FALSE)
    <3>1. PICK d \in At("replacing", f) : Creating(d, pending', FALSE)
      BY <2>1
    <3>2. d \in Callers /\ d # c
      BY <3>1 DEF At
    <3>3. QED
      BY <1>2, <3>1, <3>2 DEF Creating
  <2>2. QED
    BY <1>7, <2>1 DEF Removed
<1>8. ASSUME NEW f \in Entries, StartMaster(f) \/ TimerFires(f)
      PROVE  UNCHANGED caller
  BY <1>8 DEF StartMaster, TimerFires
<1>9. ASSUME NEW f \in Entries, NEW g \in Generations,
             MasterUp(f, g) \/ MasterExits(f, g) \/ MasterClosed(f, g)
      PROVE  UNCHANGED caller
  BY <1>9 DEF MasterUp, MasterExits, MasterClosed
<1>10. Dispose \/ Disposed => UNCHANGED caller
  BY DEF Dispose, Disposed, DisposeCloses
<1>11. UNCHANGED vars => UNCHANGED caller
  BY DEF vars
<1>12. QED
  BY <1>3, <1>4, <1>5, <1>6, <1>7, <1>8, <1>9, <1>10, <1>11 DEF Next

\* All reachable states satisfy the invariant.
LEMMA ServedInvariant == Spec => []ServedInv
<1>1. Init => ServedInv
  BY SSHConstants, InitInv DEF Init, ServedInv, Unserved, NoEntry, NewEntry
<1>2. ServedInv /\ [Next]_vars => ServedInv'
  BY SSHConstants, NextInv, NextFine DEF ServedInv, Fine
<1>3. QED
  BY <1>1, <1>2, PTL DEF Spec

\* A lease in use ends with its master, through its own release, or because the
\* manager is disposed of: no timer, cancellation, failed connection or
\* replacement by another caller takes it away (releaseLease, closeEntry and
\* their callers in sshTransportManager.ts).
THEOREM LeasesOutliveOthers == Spec => LeaseEndsWithMaster
<1>1. ServedInv /\ [Next]_vars =>
        \A c \in Callers :
          Accepted(c) /\ caller'[c].pc = "leased" /\ ~Accepted(c)'
          => disposed' = "yes" \/ ~processAlive(caller[c].entry, caller[c].own)'
  <2>1. SUFFICES ASSUME ServedInv, [Next]_vars, NEW c \in Callers, Accepted(c),
                        caller'[c].pc = "leased", ~Accepted(c)', disposed' # "yes"
                 PROVE  ~processAlive(caller[c].entry, caller[c].own)'
    OBVIOUS
  <2>2. caller[c].pc = "leased" /\ transportAlive(caller[c].entry)
        /\ caller[c].generation = entry[caller[c].entry].generation
    BY <2>1 DEF Accepted
  <2>3. caller'[c] = caller[c]
    BY <2>1, <2>2, SSHConstants, LeaseKept
  <2>4. PICK e \in Entries : e = caller[c].entry /\ entry[e].leases > 0
    BY <2>1, <2>2, SSHConstants, LeaseCounts DEF ServedInv
  <2>5. entry[e].master = caller[c].own
    <3>1. entry[e].master # 0 /\ caller[c].own = caller[c].generation
      BY <2>1, <2>2, <2>4 DEF ServedInv, Inv, Placed, transportAlive, processAlive
    <3>2. entry[e].master = entry[e].generation
      BY <2>1, <3>1 DEF ServedInv, Inv, Sound
    <3>3. QED
      BY <2>2, <2>4, <3>1, <3>2
  <2>6. Kept(e) \/ Ended(e)
    BY <2>1, <2>2, <2>4, SSHConstants, NextFine DEF Fine, Holds
  <2>7. ~Kept(e)
    BY <2>1, <2>2, <2>3, <2>4 DEF Kept, Accepted, transportAlive, processAlive
  <2>8. Ended(e)
    BY <2>6, <2>7
  <2>9. QED
    BY <2>3, <2>4, <2>5, <2>8 DEF Ended, processAlive
<1>2. ServedInv /\ [Next]_vars =>
        [\A c \in Callers :
           Accepted(c) /\ caller'[c].pc = "leased" /\ ~Accepted(c)'
           => disposed' = "yes" \/ ~processAlive(caller[c].entry, caller[c].own)']_vars
  BY <1>1
<1>3. QED
  BY <1>2, ServedInvariant, PTL DEF LeaseEndsWithMaster, Spec
=============================================================================
