---------------------------- MODULE ChannelContract ----------------------------
(***************************************************************************)
(* What the channel listener promises to those who write: updates are      *)
(* handled one behind the other and none is passed over, the agent starts  *)
(* once for a message identifier, and the channel forgets an update, or    *)
(* the state file lies behind it, only when it is handled to the end.  It  *)
(* does not promise that the saved offset never goes back, nor that an     *)
(* update gets handled at all: the code does not.                          *)
(***************************************************************************)
EXTENDS Naturals

CONSTANTS Updates, Keys, Silent

VARIABLES
    keyOf,      \* message identifier of each update, Silent for none
    starts,     \* agent runs begun for each identifier
    finished,   \* the updates handled to the end
    forgotten,  \* updates up to this one do not come again
    saved       \* update to begin the next poll with

vars == <<keyOf, starts, finished, forgotten, saved>>

Init ==
    /\ keyOf = [i \in Updates |-> Silent] /\ starts = [k \in Keys |-> 0]
    /\ finished = {} /\ forgotten = 0 /\ saved = 0

Handled(n) == 1..n \subseteq finished

Write(i, k) ==
    /\ i \notin finished /\ keyOf[i] = Silent
    /\ keyOf' = [keyOf EXCEPT ![i] = k]
    /\ UNCHANGED <<starts, finished, forgotten, saved>>

Start(k) ==
    /\ starts[k] = 0
    /\ starts' = [starts EXCEPT ![k] = 1]
    /\ UNCHANGED <<keyOf, finished, forgotten, saved>>

Finish(i) ==
    /\ Handled(i - 1)
    /\ keyOf[i] # Silent => starts[keyOf[i]] = 1
    /\ finished' = finished \cup {i}
    /\ UNCHANGED <<keyOf, starts, forgotten, saved>>

Forget ==
    /\ forgotten' > forgotten /\ Handled(forgotten')
    /\ UNCHANGED <<keyOf, starts, finished, saved>>

Save ==
    /\ saved' = 0 \/ Handled(saved' - 1)
    /\ UNCHANGED <<keyOf, starts, finished, forgotten>>

Next ==
    \/ \E i \in Updates : Finish(i) \/ \E k \in Keys : Write(i, k)
    \/ \E k \in Keys : Start(k)
    \/ Forget \/ Save

Spec == Init /\ [][Next]_vars
===============================================================================
