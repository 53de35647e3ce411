---------------------------- MODULE LimiterProofs ----------------------------
(***************************************************************************)
(* The limiter for every finite set of clients and every limit.            *)
(***************************************************************************)
EXTENDS Limiter, FiniteSetTheorems, TLAPS

Inv == TypeOK /\ WithinLimit /\ NoMissedWake

LEMMA AtFinite == \A place \in Places : IsFiniteSet(At(place)) /\ Cardinality(At(place)) \in Nat
<1> SUFFICES ASSUME NEW place \in Places
             PROVE  IsFiniteSet(At(place)) /\ Cardinality(At(place)) \in Nat
  OBVIOUS
<1>1. At(place) \in SUBSET Clients BY DEF At
<1>2. IsFiniteSet(At(place)) BY <1>1, LimiterConstants, FS_Subset
<1> QED BY <1>2, FS_CardinalityType

\* Where a client that moves is counted before and after.
LEMMA Moved ==
    ASSUME TypeOK, NEW c \in Clients, NEW from \in Places, NEW to \in Places, from # to,
           Move(c, from, to)
    PROVE  /\ pc' \in [Clients -> Places]
           /\ c \in At(from) /\ c \notin At(to)
           /\ At(from)' = At(from) \ {c}
           /\ At(to)' = At(to) \cup {c}
           /\ \A place \in Places \ {from, to} : At(place)' = At(place)
BY DEF TypeOK, Move, At

LEMMA InitInv == Init => Inv
<1> SUFFICES ASSUME Init PROVE Inv OBVIOUS
<1>1. TypeOK BY DEF Init, TypeOK, Places
<1>2. At("inside") = {} /\ At("parked") = {} BY DEF Init, At
<1>3. WithinLimit BY <1>2, FS_EmptySet, LimiterConstants DEF Init, WithinLimit
<1>4. NoMissedWake BY <1>2 DEF NoMissedWake
<1> QED BY <1>1, <1>3, <1>4 DEF Inv

LEMMA NextInv == Inv /\ [Next]_vars => Inv'
<1> SUFFICES ASSUME Inv, [Next]_vars PROVE Inv' OBVIOUS
<1>t. TypeOK /\ active \in Nat /\ woken \subseteq Clients BY DEF Inv, TypeOK
<1>p. {"idle", "trying", "parked", "inside"} = Places BY DEF Places
<1>n. Cardinality(At("inside")) \in Nat /\ IsFiniteSet(At("inside")) /\ Limit \in Nat \ {0}
  BY AtFinite, LimiterConstants DEF Places
<1>1. CASE UNCHANGED vars
  BY <1>1 DEF Inv, vars, TypeOK, WithinLimit, NoMissedWake, At
<1>2. ASSUME NEW c \in Clients, Acquire(c) PROVE Inv'
  <2>1. /\ pc' \in [Clients -> Places]
        /\ At("inside")' = At("inside") /\ At("parked")' = At("parked")
    BY <1>2, <1>t, <1>p, Moved DEF Acquire
  <2> QED BY <1>2, <2>1 DEF Inv, TypeOK, WithinLimit, NoMissedWake, Acquire
<1>3. ASSUME NEW c \in Clients, NEW from \in {"trying", "idle"}, Move(c, from, "inside"),
             active < Limit, active' = active + 1, UNCHANGED woken
      PROVE  Inv'
  <2>1. /\ pc' \in [Clients -> Places]
        /\ At("inside")' = At("inside") \cup {c} /\ c \notin At("inside")
        /\ At("parked")' = At("parked")
    BY <1>3, <1>t, <1>p, Moved
  <2>2. Cardinality(At("inside")') = Cardinality(At("inside")) + 1
    BY <1>n, <2>1, FS_AddElement
  <2> QED BY <1>3, <1>t, <1>n, <2>1, <2>2 DEF Inv, TypeOK, WithinLimit, NoMissedWake
<1>4. ASSUME NEW c \in Clients, Park(c) PROVE Inv'
  <2>1. pc' \in [Clients -> Places] /\ At("inside")' = At("inside")
    BY <1>4, <1>t, <1>p, Moved DEF Park
  <2> QED BY <1>4, <1>t, <1>n, <2>1 DEF Inv, TypeOK, WithinLimit, NoMissedWake, Park
<1>5. ASSUME NEW c \in Clients, Wake(c) \/ Cancel(c) PROVE Inv'
  <2>1. /\ pc' \in [Clients -> Places]
        /\ At("inside")' = At("inside") /\ At("parked")' \subseteq At("parked")
    BY <1>5, <1>t, <1>p, Moved DEF Wake, Cancel
  <2> QED BY <1>5, <2>1 DEF Inv, TypeOK, WithinLimit, NoMissedWake, Wake, Cancel
<1>6. ASSUME NEW c \in Clients, Release(c) PROVE Inv'
  <2>1. /\ pc' \in [Clients -> Places] /\ c \in At("inside")
        /\ At("inside")' = At("inside") \ {c} /\ At("parked")' = At("parked")
    BY <1>6, <1>t, <1>p, Moved DEF Release
  <2>2. /\ Cardinality(At("inside")') = Cardinality(At("inside")) - 1
        /\ IsFiniteSet(At("inside")')
    BY <1>n, <2>1, FS_RemoveElement
  <2>3. Cardinality(At("inside")') \in Nat BY <2>2, FS_CardinalityType
  <2>4. active' = active - 1 /\ woken' = woken \cup At("parked") BY <1>6 DEF Release
  <2>5. At("parked") \subseteq Clients BY DEF At
  <2> QED BY <1>t, <1>n, <2>1, <2>2, <2>3, <2>4, <2>5 DEF Inv, TypeOK, WithinLimit, NoMissedWake
<1>7. CASE Next
  <2>1. PICK c \in Clients : Client(c) BY <1>7 DEF Next
  <2> QED BY <1>2, <1>3, <1>4, <1>5, <1>6, <2>1 DEF Client, Enter, TryAcquire
<1> QED BY <1>1, <1>7

\* The limiter is well typed in every reachable state.
THEOREM LimiterTypes == Spec => []TypeOK
BY InitInv, NextInv, PTL DEF Spec, Inv

\* Never more clients inside than the limit, and `active` counts them.
THEOREM LimiterBound == Spec => []WithinLimit
BY InitInv, NextInv, PTL DEF Spec, Inv

\* A client that waits for a channel still open waits for a full limiter.
THEOREM LimiterWakes == Spec => []NoMissedWake
BY InitInv, NextInv, PTL DEF Spec, Inv

----------------------------------------------------------------------------
(* The step simulation. *)

LEMMA StepSimulates == Inv /\ [Next]_vars => [Abstract!Next]_(Abstract!vars)
<1> SUFFICES ASSUME Inv, [Next]_vars PROVE [Abstract!Next]_(Abstract!vars) OBVIOUS
<1>t. TypeOK BY DEF Inv
<1>p. {"idle", "trying", "parked", "inside"} = Places BY DEF Places
<1>r. active < Limit => Abstract!Room
  BY DEF Inv, WithinLimit, Abstract!Room, Cardinality, Abstract!Cardinality
<1>1. CASE UNCHANGED vars BY <1>1 DEF vars, Abstract!vars, At
<1>2. ASSUME NEW c \in Clients, Acquire(c) PROVE Abstract!Ask(c)
  <2>1. /\ c \in At("idle") /\ At("trying")' = At("trying") \cup {c}
        /\ At("parked")' = At("parked") /\ At("inside")' = At("inside")
    BY <1>2, <1>t, <1>p, Moved DEF Acquire
  <2>2. c \notin At("trying") \cup At("parked") \cup At("inside") BY <2>1 DEF At
  <2> QED BY <2>1, <2>2 DEF Abstract!Ask
<1>3. ASSUME NEW c \in Clients, Enter(c) PROVE Abstract!Enter(c)
  <2>1. /\ c \in At("trying") /\ c \notin At("inside") /\ At("trying")' = At("trying") \ {c}
        /\ At("parked")' = At("parked") /\ At("inside")' = At("inside") \cup {c}
    BY <1>3, <1>t, <1>p, Moved DEF Enter
  <2>2. c \notin At("parked") BY <2>1 DEF At
  <2> QED BY <1>3, <1>r, <2>1, <2>2 DEF Abstract!Enter, Enter
<1>4. ASSUME NEW c \in Clients, TryAcquire(c) PROVE Abstract!Enter(c)
  <2>1. /\ c \in At("idle") /\ c \notin At("inside") /\ At("trying")' = At("trying")
        /\ At("parked")' = At("parked") /\ At("inside")' = At("inside") \cup {c}
    BY <1>4, <1>t, <1>p, Moved DEF TryAcquire
  <2>2. c \notin At("trying") \cup At("parked") BY <2>1 DEF At
  <2> QED BY <1>4, <1>r, <2>1, <2>2 DEF Abstract!Enter, TryAcquire
<1>5. ASSUME NEW c \in Clients, Park(c) \/ Wake(c) PROVE UNCHANGED Abstract!vars
  <2>1. /\ (At("trying") \cup At("parked"))' = At("trying") \cup At("parked")
        /\ At("inside")' = At("inside")
    BY <1>5, <1>t, <1>p, Moved DEF Park, Wake
  <2> QED BY <2>1 DEF Abstract!vars
<1>6. ASSUME NEW c \in Clients, Cancel(c) PROVE Abstract!GiveUp(c)
  <2>1. /\ c \in At("parked") /\ At("trying")' = At("trying")
        /\ At("parked")' = At("parked") \ {c} /\ At("inside")' = At("inside")
    BY <1>6, <1>t, <1>p, Moved DEF Cancel
  <2>2. c \notin At("trying") BY <2>1 DEF At
  <2> QED BY <2>1, <2>2 DEF Abstract!GiveUp
<1>7. ASSUME NEW c \in Clients, Release(c) PROVE Abstract!Leave(c)
  <2>1. /\ c \in At("inside") /\ At("trying")' = At("trying")
        /\ At("parked")' = At("parked") /\ At("inside")' = At("inside") \ {c}
    BY <1>7, <1>t, <1>p, Moved DEF Release
  <2> QED BY <2>1 DEF Abstract!Leave
<1>8. CASE Next
  <2>1. PICK c \in Clients : Client(c) BY <1>8 DEF Next
  <2> QED BY <1>2, <1>3, <1>4, <1>5, <1>6, <1>7, <2>1 DEF Client, Abstract!Next
<1> QED BY <1>1, <1>8

\* Every behaviour of the limiter is one of the semaphore, as far as safety
\* goes; its progress is for the model checker.
THEOREM LimiterIsSemaphore == Spec => Abstract!Safe
<1>1. Init => Abstract!Init BY DEF Init, Abstract!Init, At
<1> QED BY <1>1, InitInv, NextInv, StepSimulates, PTL DEF Spec, Abstract!Safe
=============================================================================
