---------------------------- MODULE ReadWriteLock ----------------------------
(***************************************************************************)
(* What a read/write gate promises its clients: several may read, or one   *)
(* may write.  A client comes to read or to write and is let in at once or *)
(* waits; whenever a client goes, any of those waiting may be let in.      *)
(***************************************************************************)
CONSTANT Clients

VARIABLE place      \* where each client is, and with which intention

Places == {"out", "waitRead", "waitWrite", "reading", "writing"}

TypeOK == place \in [Clients -> Places]

Inside == {"reading", "writing"}
Waiting == {"waitRead", "waitWrite"}

\* no writer shares the inside with anyone
Exclusive(p) ==
    \A c, d \in Clients : (p[c] = "writing" /\ p[d] \in Inside) => c = d

Init == place = [c \in Clients |-> "out"]

Come(c) ==
    /\ place[c] = "out"
    /\ \E where \in Inside \cup Waiting : place' = [place EXCEPT ![c] = where]

\* the place of a client that is let in
LetIn(where) == IF where = "waitRead" THEN "reading" ELSE "writing"

Go(c) ==
    /\ place[c] # "out"
    /\ \E admitted \in SUBSET {d \in Clients \ {c} : place[d] \in Waiting} :
          place' = [d \in Clients |->
                       IF d = c THEN "out"
                       ELSE IF d \in admitted THEN LetIn(place[d]) ELSE place[d]]

Next == Exclusive(place') /\ \E c \in Clients : Come(c) \/ Go(c)

Spec == Init /\ [][Next]_place
=============================================================================
