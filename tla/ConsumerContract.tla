--------------------------- MODULE ConsumerContract ---------------------------
(***************************************************************************)
(* What the collector event log promises its consumers.  A position never  *)
(* goes back.  Those that copy or route the events get to them one behind  *)
(* the other and acknowledge none they have not settled.  Events are taken *)
(* away only up to a position that some consumer has acknowledged.         *)
(***************************************************************************)
EXTENDS Naturals

CONSTANTS Consumers, Copying

VARIABLES
    position,  \* the sequence up to which a consumer has acknowledged
    settled,   \* the events a copying one has copied, routed or dead-lettered
    lost       \* the events deleted before it settled them

vars == <<position, settled, lost>>

Init ==
    /\ position = [c \in Consumers |-> 0]
    /\ settled = [c \in Copying |-> {}]
    /\ lost = [c \in Copying |-> {}]

Behind(c, n) == 1..n \subseteq settled[c] \cup lost[c]

Settle(c) ==
    /\ \E s \in settled'[c] :
         /\ Behind(c, s - 1)
         /\ settled' = [settled EXCEPT ![c] = @ \cup {s}]
    /\ UNCHANGED <<position, lost>>

Advance(c) ==
    /\ position'[c] > position[c]
    /\ c \in Copying => Behind(c, position'[c])
    /\ position' = [position EXCEPT ![c] = position'[c]]
    /\ UNCHANGED <<settled, lost>>

Prune(d) ==
    /\ \A c \in Copying : /\ lost[c] \subseteq lost'[c]
                          /\ lost'[c] \subseteq lost[c] \cup 1..position[d]
    /\ UNCHANGED <<position, settled>>

Next ==
    \/ \E c \in Copying : Settle(c)
    \/ \E c \in Consumers : Advance(c) \/ Prune(c)

Spec == Init /\ [][Next]_vars
=============================================================================
