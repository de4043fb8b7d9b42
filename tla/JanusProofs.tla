------------------------------ MODULE JanusProofs -----------------------------
(***************************************************************************)
(* Theorems about Janus: JanusMemory for any requests, candidates and      *)
(* invalidating statuses, JanusDeepDive for any executions, and both for   *)
(* any bounds and any number of deaths.                                    *)
(***************************************************************************)
EXTENDS MCCognition, RuntimeQueueProofs

-----------------------------------------------------------------------------
(***************************************************************************)
(* JanusMemory: the inductive invariant.                                   *)
(***************************************************************************)

RequestLocals == [pc : {"calm", "status", "look", "check", "append", "mark", "retract", "archive",
                 "whose", "cascade", "next", "activations", "skip", "decline", "accept"},
           kind : Statuses, direct : BOOLEAN, answer : BOOLEAN, by : Decisions, at : Memories \cup {"none"},
           todo : SUBSET Memories, fresh : SUBSET Memories, id : Nat, alone : BOOLEAN]

Records == [of : Memories, archived : BOOLEAN]

\* At a candidate, and with a record of knowledge in hand.
AtCandidate == {"status", "look", "check", "append", "mark", "retract", "archive", "whose"}
Placed(l) ==
    /\ l.pc \in AtCandidate => l.at \in Memories
    /\ l.pc \in {"mark", "archive"} => l.id # 0
    /\ l.pc \in {"mark", "archive"} => knowledge[l.id].of = l.at

JanusTypeInv ==
    /\ JanusTypeOK
    /\ link \in [Memories -> Nat] /\ corrector \in [Correctors -> RequestLocals]
    /\ \A q \in Correctors : Placed(corrector[q])

\* Whoever refuses undisturbed does so behind the router.
RefusedBehindRouter == refusal # "none" => router = "gone"

\* What holds of the candidates and of the knowledge while nobody but a request with
\* the locals l is under way: only the candidate it is retracting may be invalid and
\* not retracted, and of the records whose row was not replaced only the one it is about
\* to link may be kept and not linked.
Lone(l) ==
    /\ \A c \in Memories :
        memory[c] \in Invalid /\ link[c] # 0 =>
            \/ ~Kept(link[c]) \/ c \in suspect
            \/ l.pc \in {"retract", "archive"} /\ c = l.at
    /\ l.pc \in {"look", "check", "append", "mark"} => memory[l.at] \notin Invalid
    /\ l.pc \in {"check", "archive"} => link[l.at] \in {0, l.id}
    /\ \A c \in l.todo \ l.fresh : l.kind = "accepted" /\ memory[c] \notin Invalid
    /\ \A k \in DOMAIN knowledge :
        Kept(k) /\ k \notin dropped /\ knowledge[k].of \notin torn =>
            /\ link[knowledge[k].of] = k \/ (l.pc = "mark" /\ l.id = k)
            /\ l.pc \in {"append", "mark"} /\ knowledge[k].of = l.at =>
                 l.pc = "mark" /\ k = l.id

\* A request is alone, or another has left its traces.
Flow ==
    /\ Underway = {} => Lone(Calm)
    /\ \A q \in Underway :
        IF corrector[q].alone THEN Underway = {q} /\ Lone(corrector[q])
        ELSE suspect = Memories /\ torn = Memories

JanusInv == JanusTypeInv /\ RefusedBehindRouter /\ RefusalStays /\ Flow

-----------------------------------------------------------------------------
(***************************************************************************)
(* Knowledge as a sequence: what appending does to it.                     *)
(***************************************************************************)

LEMMA Appended ==
    ASSUME NEW s \in Seq(Records), NEW e \in Records
    PROVE  /\ Append(s, e) \in Seq(Records) /\ Len(Append(s, e)) = Len(s) + 1
           /\ DOMAIN s = 1..Len(s) /\ DOMAIN Append(s, e) = 1..Len(s) + 1
           /\ \A k \in 1..Len(s) : Append(s, e)[k] = s[k]
           /\ Append(s, e)[Len(s) + 1] = e
  OBVIOUS

-----------------------------------------------------------------------------
(***************************************************************************)
(* A step of one request, whose locals were l and become new.              *)
(***************************************************************************)

\* What the proofs use of the invariant when q takes a step.
LEMMA Facts ==
    ASSUME JanusTypeInv, NEW q \in Correctors
    PROVE  /\ corrector[q] \in RequestLocals /\ Placed(corrector[q])
           /\ knowledge \in Seq(Records) /\ DOMAIN knowledge = 1..Len(knowledge)
           /\ Len(knowledge) \in Nat
           /\ \A k \in 1..Len(knowledge) : knowledge[k] \in Records
           /\ corrector[q].id \in 0..Len(knowledge)
           /\ memory \in [Memories -> Statuses] /\ link \in [Memories -> Nat]
           /\ corrector \in [Correctors -> RequestLocals]
           /\ suspect \subseteq Memories /\ torn \subseteq Memories
           /\ owner \in [Memories -> Decisions] /\ dropped \subseteq 1..Len(knowledge)
           /\ \A c \in Memories :
                link[c] # 0 => link[c] \in 1..Len(knowledge) /\ knowledge[link[c]].of = c
<1>1. knowledge \in Seq(Records)
  BY DEF JanusTypeInv, JanusTypeOK, Records
<1>2. /\ DOMAIN knowledge = 1..Len(knowledge) /\ Len(knowledge) \in Nat
      /\ \A k \in 1..Len(knowledge) : knowledge[k] \in Records
  BY <1>1
<1>3. \A c \in Memories :
        link[c] # 0 => link[c] \in 1..Len(knowledge) /\ knowledge[link[c]].of = c
  BY <1>2 DEF JanusTypeInv, JanusTypeOK
<1>4. /\ corrector[q] \in RequestLocals /\ Placed(corrector[q])
      /\ corrector[q].id \in 0..Len(knowledge)
      /\ memory \in [Memories -> Statuses] /\ link \in [Memories -> Nat]
      /\ corrector \in [Correctors -> RequestLocals]
      /\ suspect \subseteq Memories /\ torn \subseteq Memories
      /\ owner \in [Memories -> Decisions]
  BY DEF JanusTypeInv, JanusTypeOK
<1>5. dropped \subseteq 1..Len(knowledge)
  BY <1>2 DEF JanusTypeInv, JanusTypeOK
<1> QED
  BY <1>1, <1>2, <1>3, <1>4, <1>5

\* The request q goes on with the locals new, or leaves.
Moves(q, new) ==
    /\ corrector[q].pc # "calm"
    /\ corrector' = [corrector EXCEPT ![q] = new]
    /\ IF new.pc = "calm" THEN new = Calm ELSE new.alone = corrector[q].alone

\* Then it is enough to look at a request that is alone.
LEMMA MovesKeepFlow ==
    ASSUME JanusTypeInv, Flow, NEW q \in Correctors, NEW new, Moves(q, new),
           torn' = torn, corrector[q].alone \/ suspect' = suspect,
           \A k \in DOMAIN knowledge' : knowledge'[k].of \in Memories,
           Lone(corrector[q]) /\ corrector[q].alone => Lone(new)'
    PROVE  Flow'
<1>1. /\ corrector'[q] = new
      /\ \A r \in Correctors \ {q} : corrector'[r] = corrector[r]
  BY DEF Moves, JanusTypeInv
<1>2. q \in Underway
  BY DEF Moves, Underway
<1>3. CASE corrector[q].alone
  <2>1. Underway = {q} /\ Lone(new)'
    BY <1>2, <1>3 DEF Flow
  <2>2. Underway' = IF new.pc = "calm" THEN {} ELSE {q}
    BY <1>1, <2>1 DEF Underway
  <2>3. CASE new.pc = "calm"
    BY <2>1, <2>2, <2>3 DEF Moves, Flow
  <2>4. CASE new.pc # "calm"
    BY <1>1, <1>3, <2>1, <2>2, <2>4 DEF Moves, Flow
  <2> QED
    BY <2>3, <2>4
<1>4. CASE ~corrector[q].alone
  <2>1. suspect = Memories /\ torn = Memories /\ suspect' = Memories /\ torn' = Memories
    BY <1>2, <1>4 DEF Flow
  <2>2. ASSUME NEW r \in Underway' PROVE ~corrector'[r].alone
    <3>1. CASE r = q
      BY <1>1, <1>4, <2>2, <3>1 DEF Moves, Underway
    <3>2. CASE r # q
      <4>1. r \in Underway /\ corrector'[r] = corrector[r]
        BY <1>1, <2>2, <3>2 DEF Underway
      <4>2. Underway # {r}
        BY <1>2, <3>2
      <4> QED
        BY <4>1, <4>2 DEF Flow
    <3> QED
      BY <3>1, <3>2
  <2>3. Lone(Calm)'
    <3>1. \A k \in DOMAIN knowledge' : knowledge'[k].of \in torn'
      BY <2>1
    <3> QED
      BY <2>1, <3>1 DEF Lone, Calm
  <2> QED
    BY <2>1, <2>2, <2>3 DEF Flow
<1> QED
  BY <1>3, <1>4 DEF JanusTypeInv, RequestLocals

\* The other requests keep their types and places when knowledge only grows or is
\* archived.
LEMMA MovesKeepTypes ==
    ASSUME JanusTypeInv, NEW q \in Correctors, NEW new \in RequestLocals,
           corrector' = [corrector EXCEPT ![q] = new],
           knowledge' \in Seq(Records), Len(knowledge) <= Len(knowledge)',
           \A k \in 1..Len(knowledge) : knowledge'[k].of = knowledge[k].of,
           Placed(new)', new.id \in 0..Len(knowledge)'
    PROVE  /\ corrector' \in [Correctors -> RequestLocals]
           /\ \A r \in Correctors : Placed(corrector[r])' /\ corrector'[r].id \in 0..Len(knowledge)'
<1>1. corrector' \in [Correctors -> RequestLocals]
  BY DEF JanusTypeInv
<1>2. ASSUME NEW r \in Correctors
      PROVE  Placed(corrector[r])' /\ corrector'[r].id \in 0..Len(knowledge)'
  <2>1. CASE r = q
    BY <2>1 DEF JanusTypeInv, Placed
  <2>2. CASE r # q
    <3>1. corrector'[r] = corrector[r] /\ corrector[r] \in RequestLocals
      BY <2>2 DEF JanusTypeInv
    <3>2. /\ corrector[r].id \in 0..Len(knowledge) /\ Placed(corrector[r])
          /\ Len(knowledge) \in Nat /\ Len(knowledge)' \in Nat
      BY Facts
    <3>3. corrector[r].id \in 0..Len(knowledge)'
      BY <3>2
    <3>4. corrector[r].id # 0 => corrector[r].id \in 1..Len(knowledge)
      BY <3>2
    <3> QED
      BY <3>1, <3>2, <3>3, <3>4 DEF Placed
  <2> QED
    BY <2>1, <2>2
<1> QED
  BY <1>1, <1>2

\* A step of a request that touches candidates and knowledge only keeps the invariant
\* when it keeps what a lone request may rely on.
LEMMA MemoryStep ==
    ASSUME JanusInv, NEW q \in Correctors, NEW new \in RequestLocals, Moves(q, new), InMemory,
           memory' \in [Memories -> Statuses], link' \in [Memories -> Nat],
           knowledge' \in Seq(Records), Len(knowledge) <= Len(knowledge)',
           \A k \in 1..Len(knowledge) : knowledge'[k].of = knowledge[k].of,
           \A c \in Memories : link'[c] # 0 =>
                link'[c] \in 1..Len(knowledge)' /\ knowledge'[link'[c]].of = c,
           Placed(new)', new.id \in 0..Len(knowledge)',
           suspect' \subseteq Memories, corrector[q].alone \/ suspect' = suspect,
           Lone(corrector[q]) /\ corrector[q].alone => Lone(new)'
    PROVE  JanusInv'
<1>1. JanusTypeInv /\ Flow /\ RefusedBehindRouter /\ RefusalStays
  BY DEF JanusInv
<1>2. corrector' = [corrector EXCEPT ![q] = new]
  BY DEF Moves
<1>3. /\ corrector' \in [Correctors -> RequestLocals]
      /\ \A r \in Correctors : Placed(corrector[r])' /\ corrector'[r].id \in 0..Len(knowledge)'
  BY <1>1, <1>2, MovesKeepTypes
<1>4. \A r \in Correctors : corrector'[r] \in RequestLocals
  BY <1>3
<1>5. /\ DOMAIN knowledge' = 1..Len(knowledge)'
      /\ \A k \in DOMAIN knowledge' : knowledge'[k].of \in Memories
  <2>1. DOMAIN knowledge' = 1..Len(knowledge)' /\ \A k \in DOMAIN knowledge' : knowledge'[k] \in Records
    OBVIOUS
  <2> QED
    BY <2>1 DEF Records
<1>6. JanusTypeOK'
  <2>1. \A r \in Correctors :
          /\ corrector'[r].pc \in {"calm", "status", "look", "check", "append", "mark",
                                   "retract", "archive", "whose", "cascade", "next",
                                   "activations", "skip", "decline", "accept"}
          /\ corrector'[r].kind \in Statuses /\ corrector'[r].by \in Decisions
          /\ corrector'[r].at \in Memories \cup {"none"}
          /\ corrector'[r].fresh \cup corrector'[r].todo \subseteq Memories
    BY <1>4 DEF RequestLocals
  <2>2. /\ activation' \in {"prepared", "pending", "submitted", "skipped", "failed"}
        /\ activation' = "pending" => router' = "waking" \/ stops' > 0
        /\ router' \in {"waking", "gone"} /\ torn' \subseteq Memories
        /\ refusal' \in {"none", "corrected", "declined"}
        /\ corrections' \in 0..MaxCorrections /\ stops' \in 0..MaxStops
        /\ owner' \in [Memories -> Decisions]
    BY <1>1 DEF JanusTypeInv, JanusTypeOK, InMemory
  <2>3. dropped' \subseteq DOMAIN knowledge'
    <3>1. dropped' = dropped /\ dropped \subseteq 1..Len(knowledge)
      BY <1>1, Facts DEF InMemory
    <3>2. Len(knowledge) \in Nat /\ Len(knowledge)' \in Nat
      BY <1>1, Facts
    <3> QED
      BY <1>5, <3>1, <3>2
  <2> QED
    BY <1>3, <1>5, <2>1, <2>2, <2>3 DEF JanusTypeOK, Records
<1>7. Flow'
  BY <1>1, <1>5, MovesKeepFlow DEF InMemory, Records
<1>8. RefusedBehindRouter' /\ RefusalStays'
  BY <1>1 DEF InMemory, RefusedBehindRouter, RefusalStays
<1> QED
  BY <1>3, <1>6, <1>7, <1>8 DEF JanusInv, JanusTypeInv

\* The locals of a request that is done with its candidate.
Left(l) ==
    IF l.direct /\ l.kind = "accepted" THEN Calm
    ELSE IF l.direct THEN [l EXCEPT !.pc = "whose", !.id = 0]
    ELSE [l EXCEPT !.pc = "next", !.at = "none", !.id = 0]

LEMMA CalmIsTyped ==
    /\ Calm \in RequestLocals /\ Calm.pc = "calm" /\ Calm.id = 0 /\ Calm.alone
    /\ Calm.todo = {} /\ Calm.fresh = {}
  BY DEF Calm, RequestLocals, Statuses, Decisions

LEMMA LeftIsTyped ==
    ASSUME NEW l \in RequestLocals
    PROVE  /\ Left(l) \in RequestLocals /\ Left(l).id = 0
           /\ Left(l).pc \in {"calm", "whose", "next"}
           /\ Left(l).pc = "whose" => Left(l).at = l.at
           /\ IF Left(l).pc = "calm" THEN Left(l) = Calm
              ELSE /\ Left(l).alone = l.alone /\ Left(l).todo = l.todo
                   /\ Left(l).fresh = l.fresh /\ Left(l).kind = l.kind
<1>1. CASE l.direct /\ l.kind = "accepted"
  BY <1>1, CalmIsTyped DEF Left
<1>2. CASE ~(l.direct /\ l.kind = "accepted")
  BY <1>2 DEF Left, RequestLocals
<1> QED
  BY <1>1, <1>2

LEMMA LeaveMoves ==
    ASSUME JanusTypeInv, NEW q \in Correctors, NEW l \in RequestLocals, l = corrector[q], Leave(q),
           l.pc \in AtCandidate
    PROVE  /\ Moves(q, Left(l)) /\ Left(l) \in RequestLocals /\ Left(l).id = 0 /\ Placed(Left(l))'
           /\ suspect' = IF l.alone THEN suspect \ {l.at} ELSE suspect
           /\ suspect' \subseteq Memories /\ (l.alone \/ suspect' = suspect)
<1>1. suspect \subseteq Memories
  BY Facts
<1>2. corrector' = [corrector EXCEPT ![q] = Left(l)]
  BY DEF Leave, Left, JanusTypeInv
<1>3. suspect' = IF l.alone THEN suspect \ {l.at} ELSE suspect
  BY DEF Leave
<1>4. Moves(q, Left(l))
  BY <1>2, LeftIsTyped DEF Moves, AtCandidate
<1>5. Placed(Left(l))'
  <2>1. Left(l).pc \in {"calm", "whose", "next"} /\ (Left(l).pc = "whose" => Left(l).at = l.at)
    BY LeftIsTyped
  <2>2. l.at \in Memories
    BY Facts DEF Placed
  <2> QED
    BY <2>1, <2>2 DEF Placed, AtCandidate
<1> QED
  BY <1>1, <1>3, <1>4, <1>5, LeftIsTyped

\* A request that is alone may leave when its candidate is as it should be.
LEMMA LeaveIsLone ==
    ASSUME JanusTypeInv, NEW q \in Correctors, NEW l \in RequestLocals, l = corrector[q], l.alone,
           suspect' = suspect \ {l.at}, torn' = torn, dropped' = dropped,
           \A c \in Memories \ {l.at} :
                /\ memory'[c] = memory[c] /\ link'[c] = link[c]
                /\ link[c] # 0 => (knowledge'[link[c]].archived <=> knowledge[link[c]].archived),
           Lone(l), \A c \in l.todo \ l.fresh : memory'[c] \notin Invalid,
           memory'[l.at] \in Invalid /\ link'[l.at] # 0 => knowledge'[link'[l.at]].archived,
           \A k \in DOMAIN knowledge' :
                ~knowledge'[k].archived /\ k \notin dropped /\ knowledge'[k].of \notin torn =>
                    link'[knowledge'[k].of] = k
    PROVE  Lone(Left(l))'
<1> DEFINE new == Left(l)
<1>1. /\ new.pc \in {"calm", "whose", "next"}
      /\ new.todo \ new.fresh # {} => new.todo \ new.fresh = l.todo \ l.fresh /\ new.kind = l.kind
  BY LeftIsTyped, CalmIsTyped
<1> HIDE DEF new
<1>2. ASSUME NEW c \in Memories, memory'[c] \in Invalid, link'[c] # 0
      PROVE  ~Kept(link[c])' \/ c \in suspect'
  <2>1. CASE c = l.at
    BY <1>2, <2>1 DEF Kept
  <2>2. CASE c # l.at
    BY <1>2, <2>2 DEF Lone, Kept
  <2> QED
    BY <2>1, <2>2
<1>3. \A c \in new.todo \ new.fresh : new.kind = "accepted" /\ memory'[c] \notin Invalid
  BY <1>1 DEF Lone
<1>4. Lone(new)'
  BY <1>1, <1>2, <1>3 DEF Lone, Kept
<1> QED
  BY <1>4 DEF new

-----------------------------------------------------------------------------
(***************************************************************************)
(* The steps of a request on candidates and knowledge.                     *)
(***************************************************************************)

\* update_memory_candidate_status.
LEMMA SetStatusKeepsInv == ASSUME JanusInv, NEW q \in Correctors, SetStatus(q) PROVE JanusInv'
<1>1. JanusTypeInv
  BY DEF JanusInv
<1>2. PICK l \in RequestLocals : l = corrector[q]
  BY <1>1, Facts
<1>3. /\ l.pc = "status" /\ l.at \in Memories /\ l.id \in 0..Len(knowledge)
      /\ Len(knowledge) \in Nat /\ knowledge \in Seq(Records) /\ suspect \subseteq Memories
      /\ memory \in [Memories -> Statuses] /\ link \in [Memories -> Nat]
      /\ \A c \in Memories :
            link[c] # 0 => link[c] \in 1..Len(knowledge) /\ knowledge[link[c]].of = c
  BY <1>1, <1>2, Facts DEF SetStatus, Doing, Placed, AtCandidate
<1> DEFINE new == [l EXCEPT !.pc = IF l.kind = "accepted" THEN "look" ELSE "retract"]
<1>4. new \in RequestLocals
  BY DEF RequestLocals
<1>5. /\ new.pc = IF l.kind = "accepted" THEN "look" ELSE "retract"
      /\ new.at = l.at /\ new.id = l.id /\ new.alone = l.alone /\ new.todo = l.todo
      /\ new.fresh = l.fresh /\ new.kind = l.kind
  BY DEF RequestLocals
<1>6. corrector' = [corrector EXCEPT ![q] = new]
  BY <1>1, <1>2 DEF SetStatus, Proceed, JanusTypeInv
<1> HIDE DEF new
<1>7. Moves(q, new)
  BY <1>2, <1>3, <1>5, <1>6 DEF Moves
<1>8. /\ memory' = [memory EXCEPT ![l.at] = l.kind]
      /\ UNCHANGED <<link, knowledge, suspect>> /\ InMemory
  BY <1>2 DEF SetStatus
<1>9. /\ memory' \in [Memories -> Statuses] /\ memory'[l.at] = l.kind
      /\ \A c \in Memories \ {l.at} : memory'[c] = memory[c]
  BY <1>3, <1>8 DEF RequestLocals
<1>10. Placed(new)'
  BY <1>3, <1>5 DEF Placed, AtCandidate
<1>11. ASSUME Lone(l) PROVE Lone(new)'
  <2>1. "accepted" \notin Invalid
    BY JanusConstants
  <2>2. l.kind \in Invalid \cup {"candidate", "accepted"}
    BY DEF RequestLocals, Statuses
  <2>3. \A c \in Memories : memory'[c] \in Invalid /\ link'[c] # 0 =>
            \/ ~Kept(link[c])' \/ c \in suspect'
            \/ (new.pc \in {"retract", "archive"} /\ c = new.at)
    BY <1>3, <1>5, <1>8, <1>9, <1>11, <2>1 DEF Lone, Kept
  <2>4. \A c \in new.todo \ new.fresh : new.kind = "accepted" /\ memory'[c] \notin Invalid
    <3> SUFFICES ASSUME NEW c \in l.todo \ l.fresh
                 PROVE  l.kind = "accepted" /\ memory'[c] \notin Invalid
      BY <1>5
    <3>1. l.kind = "accepted" /\ memory[c] \notin Invalid /\ c \in Memories
      BY <1>11 DEF Lone, RequestLocals
    <3> QED
      BY <1>9, <2>1, <3>1
  <2>5. new.pc \in {"look", "check", "append", "mark"} => memory'[new.at] \notin Invalid
    BY <1>5, <1>9, <2>1
  <2>6. \A k \in DOMAIN knowledge' :
          Kept(k)' /\ k \notin dropped' /\ knowledge'[k].of \notin torn' =>
              link'[knowledge'[k].of] = k
    BY <1>3, <1>8, <1>11 DEF Lone, InMemory, Kept
  <2> QED
    BY <1>5, <2>3, <2>4, <2>5, <2>6 DEF Lone
<1> QED
  BY <1>1, <1>2, <1>3, <1>4, <1>5, <1>7, <1>8, <1>9, <1>10, <1>11, MemoryStep

\* promote_memory_candidate looks at the row ...
LEMMA LookKeepsInv == ASSUME JanusInv, NEW q \in Correctors, LookAtCandidate(q) PROVE JanusInv'
<1>1. JanusTypeInv
  BY DEF JanusInv
<1>2. PICK l \in RequestLocals : l = corrector[q]
  BY <1>1, Facts
<1>3. /\ l.pc = "look" /\ l.at \in Memories /\ l.id \in 0..Len(knowledge)
      /\ Len(knowledge) \in Nat /\ knowledge \in Seq(Records) /\ suspect \subseteq Memories
      /\ memory \in [Memories -> Statuses] /\ link \in [Memories -> Nat]
      /\ \A c \in Memories :
            link[c] # 0 => link[c] \in 1..Len(knowledge) /\ knowledge[link[c]].of = c
  BY <1>1, <1>2, Facts DEF LookAtCandidate, Doing, Placed, AtCandidate
<1>4. UNCHANGED <<memory, link, knowledge>> /\ InMemory
  BY DEF LookAtCandidate
<1>5. CASE memory[l.at] \in Invalid
  <2>1. Leave(q)
    BY <1>2, <1>5 DEF LookAtCandidate
  <2>2. /\ Moves(q, Left(l)) /\ Left(l) \in RequestLocals /\ Left(l).id = 0 /\ Placed(Left(l))'
        /\ suspect' \subseteq Memories /\ (l.alone \/ suspect' = suspect)
    BY <1>1, <1>2, <1>3, <2>1, LeaveMoves DEF AtCandidate
  <2>3. ~Lone(l)
    BY <1>3, <1>5 DEF Lone
  <2> QED
    BY <1>1, <1>2, <1>3, <1>4, <2>2, <2>3, MemoryStep
<1>6. CASE memory[l.at] \notin Invalid
  <2>0. PICK n \in Nat : n = link[l.at]
    BY <1>3
  <2> DEFINE new == [l EXCEPT !.pc = "check", !.id = n]
  <2>1. new \in RequestLocals
    BY <1>3 DEF RequestLocals
  <2>2. /\ new.pc = "check" /\ new.at = l.at /\ new.id = n /\ new.alone = l.alone
        /\ new.todo = l.todo /\ new.fresh = l.fresh /\ new.kind = l.kind
    BY <1>3 DEF RequestLocals
  <2>3. corrector' = [corrector EXCEPT ![q] = new] /\ suspect' = suspect
    BY <1>1, <1>2, <1>6, <2>0 DEF LookAtCandidate, JanusTypeInv
  <2> HIDE DEF new
  <2>4. Moves(q, new)
    BY <1>2, <1>3, <2>2, <2>3 DEF Moves
  <2>5. Placed(new)' /\ new.id \in 0..Len(knowledge)'
    BY <1>3, <1>4, <2>0, <2>2 DEF Placed, AtCandidate
  <2>6. ASSUME Lone(l) PROVE Lone(new)'
    BY <1>3, <1>4, <1>6, <2>0, <2>2, <2>3, <2>6 DEF Lone, Kept, InMemory
  <2> QED
    BY <1>1, <1>2, <1>3, <1>4, <2>1, <2>3, <2>4, <2>5, <2>6, MemoryStep
<1> QED
  BY <1>5, <1>6

\* ... and at the knowledge that it names ...
LEMMA CheckKeepsInv == ASSUME JanusInv, NEW q \in Correctors, CheckKnowledge(q) PROVE JanusInv'
<1>1. JanusTypeInv
  BY DEF JanusInv
<1>2. PICK l \in RequestLocals : l = corrector[q]
  BY <1>1, Facts
<1>3. /\ l.pc = "check" /\ l.at \in Memories /\ l.id \in 0..Len(knowledge)
      /\ Len(knowledge) \in Nat /\ knowledge \in Seq(Records) /\ suspect \subseteq Memories
      /\ memory \in [Memories -> Statuses] /\ link \in [Memories -> Nat]
      /\ DOMAIN knowledge = 1..Len(knowledge)
      /\ \A c \in Memories :
            link[c] # 0 => link[c] \in 1..Len(knowledge) /\ knowledge[link[c]].of = c
  BY <1>1, <1>2, Facts DEF CheckKnowledge, Doing, Placed, AtCandidate
<1>4. UNCHANGED <<memory, link, knowledge>> /\ InMemory
  BY DEF CheckKnowledge
<1>5. CASE l.id # 0 /\ ~knowledge[l.id].archived
  <2>1. Leave(q)
    BY <1>2, <1>5 DEF CheckKnowledge
  <2>2. /\ Moves(q, Left(l)) /\ Left(l) \in RequestLocals /\ Left(l).id = 0 /\ Placed(Left(l))'
        /\ suspect' = IF l.alone THEN suspect \ {l.at} ELSE suspect
        /\ suspect' \subseteq Memories /\ (l.alone \/ suspect' = suspect)
    BY <1>1, <1>2, <1>3, <2>1, LeaveMoves DEF AtCandidate
  <2>3. ASSUME Lone(l), l.alone PROVE Lone(Left(l))'
    <3>1. /\ memory'[l.at] \notin Invalid
          /\ \A c \in l.todo \ l.fresh : memory'[c] \notin Invalid
          /\ \A k \in DOMAIN knowledge' :
                ~knowledge'[k].archived /\ k \notin dropped /\ knowledge'[k].of \notin torn =>
                    link'[knowledge'[k].of] = k
      BY <1>3, <1>4, <2>3 DEF Lone, Kept
    <3> QED
      BY <1>1, <1>2, <1>4, <2>2, <2>3, <3>1, LeaveIsLone DEF InMemory
  <2> QED
    BY <1>1, <1>2, <1>3, <1>4, <2>2, <2>3, MemoryStep
<1>6. CASE ~(l.id # 0 /\ ~knowledge[l.id].archived)
  <2> DEFINE new == [l EXCEPT !.pc = "append"]
  <2>1. new \in RequestLocals
    BY <1>3 DEF RequestLocals
  <2>2. /\ new.pc = "append" /\ new.at = l.at /\ new.id = l.id /\ new.alone = l.alone
        /\ new.todo = l.todo /\ new.fresh = l.fresh /\ new.kind = l.kind
    BY <1>3 DEF RequestLocals
  <2>3. corrector' = [corrector EXCEPT ![q] = new] /\ suspect' = suspect
    BY <1>1, <1>2, <1>6 DEF CheckKnowledge, Proceed, JanusTypeInv
  <2> HIDE DEF new
  <2>4. Moves(q, new)
    BY <1>2, <1>3, <2>2, <2>3 DEF Moves
  <2>5. Placed(new)' /\ new.id \in 0..Len(knowledge)'
    BY <1>3, <1>4, <2>2 DEF Placed, AtCandidate
  <2>6. ASSUME Lone(l) PROVE Lone(new)'
    <3>1. ASSUME NEW k \in DOMAIN knowledge, Kept(k), k \notin dropped, knowledge[k].of \notin torn
          PROVE  link[knowledge[k].of] = k /\ knowledge[k].of # l.at
      <4>1. link[knowledge[k].of] = k
        BY <1>3, <2>6, <3>1 DEF Lone
      <4>2. link[l.at] \in {0, l.id} /\ k # 0
        BY <1>3, <2>6 DEF Lone
      <4> QED
        BY <1>6, <3>1, <4>1, <4>2 DEF Kept
    <3> QED
      BY <1>3, <1>4, <2>2, <2>3, <2>6, <3>1 DEF Lone, Kept, InMemory
  <2> QED
    BY <1>1, <1>2, <1>3, <1>4, <2>1, <2>3, <2>4, <2>5, <2>6, MemoryStep
<1> QED
  BY <1>5, <1>6

\* ... appends a record ...
LEMMA AppendKeepsInv == ASSUME JanusInv, NEW q \in Correctors, AppendKnowledge(q) PROVE JanusInv'
<1>1. JanusTypeInv
  BY DEF JanusInv
<1>2. PICK l \in RequestLocals : l = corrector[q]
  BY <1>1, Facts
<1>3. /\ l.pc = "append" /\ l.at \in Memories /\ l.id \in 0..Len(knowledge)
      /\ Len(knowledge) \in Nat /\ knowledge \in Seq(Records) /\ suspect \subseteq Memories
      /\ memory \in [Memories -> Statuses] /\ link \in [Memories -> Nat]
      /\ DOMAIN knowledge = 1..Len(knowledge)
      /\ \A c \in Memories :
            link[c] # 0 => link[c] \in 1..Len(knowledge) /\ knowledge[link[c]].of = c
  BY <1>1, <1>2, Facts DEF AppendKnowledge, Doing, Placed, AtCandidate
<1>4. UNCHANGED <<memory, link, suspect>> /\ InMemory
  BY DEF AppendKnowledge
<1> DEFINE record == [of |-> l.at, archived |-> FALSE]
<1>5. record \in Records /\ record.of = l.at /\ ~record.archived
  BY <1>3 DEF Records
<1>6. PICK n \in Nat : n = Len(knowledge) + 1
  BY <1>3
<1>7. /\ knowledge' = Append(knowledge, record) /\ knowledge' \in Seq(Records)
      /\ Len(knowledge)' = n /\ DOMAIN knowledge' = 1..n
      /\ \A k \in 1..Len(knowledge) : knowledge'[k] = knowledge[k]
      /\ knowledge'[n] = record
  <2>1. knowledge' = Append(knowledge, record)
    BY <1>2 DEF AppendKnowledge
  <2> HIDE DEF record
  <2> QED
    BY <1>3, <1>5, <1>6, <2>1, Appended
<1>8. PICK m \in RequestLocals : m = [l EXCEPT !.pc = "mark", !.id = n]
  <2>1. [l EXCEPT !.pc = "mark", !.id = n] \in RequestLocals
    BY DEF RequestLocals
  <2> QED
    BY <2>1
<1>9. /\ m.pc = "mark" /\ m.at = l.at /\ m.id = n /\ m.alone = l.alone
      /\ m.todo = l.todo /\ m.fresh = l.fresh /\ m.kind = l.kind
  BY <1>3, <1>6, <1>8 DEF RequestLocals
<1>10. corrector' = [corrector EXCEPT ![q] = m]
  BY <1>1, <1>2, <1>6, <1>8 DEF AppendKnowledge, JanusTypeInv
<1> HIDE DEF record
<1>11. Moves(q, m)
  BY <1>2, <1>3, <1>9, <1>10 DEF Moves
<1>12. Placed(m)' /\ m.id \in 0..Len(knowledge)'
  BY <1>3, <1>5, <1>6, <1>7, <1>9 DEF Placed, AtCandidate
<1>13. \A c \in Memories : link'[c] # 0 =>
          link'[c] \in 1..Len(knowledge)' /\ knowledge'[link'[c]].of = c
  BY <1>3, <1>4, <1>6, <1>7
<1>14. ASSUME Lone(l) PROVE Lone(m)'
  <2>1. ASSUME NEW c \in Memories, memory'[c] \in Invalid, link'[c] # 0
        PROVE  ~Kept(link[c])' \/ c \in suspect'
    BY <1>3, <1>4, <1>7, <1>14, <2>1 DEF Lone, Kept
  <2>2. ASSUME NEW k \in DOMAIN knowledge', Kept(k)', k \notin dropped', knowledge'[k].of \notin torn'
        PROVE  \/ k = n
               \/ link'[knowledge'[k].of] = k /\ knowledge'[k].of # l.at
    <3>1. k \in 1..n
      BY <1>7
    <3>2. CASE k # n
      <4>1. k \in 1..Len(knowledge)
        BY <1>3, <1>6, <3>1, <3>2
      <4>2. knowledge'[k] = knowledge[k] /\ Kept(k) /\ k \notin dropped /\ knowledge[k].of \notin torn
        BY <1>4, <1>7, <2>2, <4>1 DEF Kept, InMemory
      <4> QED
        BY <1>3, <1>4, <1>14, <4>1, <4>2 DEF Lone
    <3> QED
      BY <3>2
  <2>3. /\ m.pc \in {"look", "check", "append", "mark"} => memory'[m.at] \notin Invalid
        /\ \A c \in m.todo \ m.fresh : m.kind = "accepted" /\ memory'[c] \notin Invalid
    BY <1>3, <1>4, <1>9, <1>14 DEF Lone
  <2> QED
    BY <1>9, <2>1, <2>2, <2>3 DEF Lone
<1>15. Len(knowledge) <= Len(knowledge)'
  BY <1>3, <1>6, <1>7
<1> QED
  BY <1>1, <1>2, <1>3, <1>4, <1>7, <1>11, <1>12, <1>13, <1>14, <1>15, MemoryStep

\* ... and links it to the row.
LEMMA MarkKeepsInv == ASSUME JanusInv, NEW q \in Correctors, MarkPromoted(q) PROVE JanusInv'
<1>1. JanusTypeInv
  BY DEF JanusInv
<1>2. PICK l \in RequestLocals : l = corrector[q]
  BY <1>1, Facts
<1>3. /\ l.pc = "mark" /\ l.at \in Memories /\ l.id \in 1..Len(knowledge)
      /\ knowledge[l.id].of = l.at
      /\ Len(knowledge) \in Nat /\ knowledge \in Seq(Records) /\ suspect \subseteq Memories
      /\ memory \in [Memories -> Statuses] /\ link \in [Memories -> Nat]
      /\ DOMAIN knowledge = 1..Len(knowledge)
      /\ \A c \in Memories :
            link[c] # 0 => link[c] \in 1..Len(knowledge) /\ knowledge[link[c]].of = c
  BY <1>1, <1>2, Facts DEF MarkPromoted, Doing, Placed, AtCandidate
<1>4. UNCHANGED <<memory, knowledge>> /\ InMemory /\ Leave(q)
  BY DEF MarkPromoted
<1>5. /\ link' \in [Memories -> Nat] /\ link'[l.at] = l.id
      /\ \A c \in Memories \ {l.at} : link'[c] = link[c]
  BY <1>2, <1>3 DEF MarkPromoted
<1>6. /\ Moves(q, Left(l)) /\ Left(l) \in RequestLocals /\ Left(l).id = 0 /\ Placed(Left(l))'
      /\ suspect' = IF l.alone THEN suspect \ {l.at} ELSE suspect
      /\ suspect' \subseteq Memories /\ (l.alone \/ suspect' = suspect)
  BY <1>1, <1>2, <1>3, <1>4, LeaveMoves DEF AtCandidate
<1>7. ASSUME Lone(l), l.alone PROVE Lone(Left(l))'
  <2>1. memory'[l.at] \notin Invalid /\ \A c \in l.todo \ l.fresh : memory'[c] \notin Invalid
    BY <1>3, <1>4, <1>7 DEF Lone
  <2>2. ASSUME NEW k \in DOMAIN knowledge', ~knowledge'[k].archived, k \notin dropped,
               knowledge'[k].of \notin torn
        PROVE  link'[knowledge'[k].of] = k
    <3>1. /\ k \in DOMAIN knowledge /\ Kept(k)
          /\ knowledge[k].of \in Memories /\ knowledge[k].of \notin torn
      <4>1. knowledge[k] \in Records
        BY <1>1, <1>3, <1>4, Facts
      <4> QED
        BY <1>4, <2>2, <4>1 DEF Kept, Records
    <3>2. CASE k = l.id
      BY <1>3, <1>4, <1>5, <3>2
    <3>3. CASE k # l.id
      <4>1. knowledge[k].of # l.at /\ link[knowledge[k].of] = k
        BY <1>3, <1>7, <2>2, <3>1, <3>3 DEF Lone
      <4> QED
        BY <1>4, <1>5, <3>1, <4>1
    <3> QED
      BY <3>2, <3>3
  <2> QED
    BY <1>1, <1>2, <1>4, <1>5, <1>6, <1>7, <2>1, <2>2, LeaveIsLone DEF InMemory
<1>8. \A c \in Memories : link'[c] # 0 =>
          link'[c] \in 1..Len(knowledge)' /\ knowledge'[link'[c]].of = c
  BY <1>3, <1>4, <1>5
<1> QED
  BY <1>1, <1>2, <1>3, <1>4, <1>5, <1>6, <1>7, <1>8, MemoryStep

\* retract_promoted_memory_candidate looks at the row ...
LEMMA ReadLinkKeepsInv == ASSUME JanusInv, NEW q \in Correctors, ReadLink(q) PROVE JanusInv'
<1>1. JanusTypeInv
  BY DEF JanusInv
<1>2. PICK l \in RequestLocals : l = corrector[q]
  BY <1>1, Facts
<1>3. /\ l.pc = "retract" /\ l.at \in Memories /\ l.id \in 0..Len(knowledge)
      /\ Len(knowledge) \in Nat /\ knowledge \in Seq(Records) /\ suspect \subseteq Memories
      /\ memory \in [Memories -> Statuses] /\ link \in [Memories -> Nat]
      /\ DOMAIN knowledge = 1..Len(knowledge)
      /\ \A c \in Memories :
            link[c] # 0 => link[c] \in 1..Len(knowledge) /\ knowledge[link[c]].of = c
  BY <1>1, <1>2, Facts DEF ReadLink, Doing, Placed, AtCandidate
<1>4. UNCHANGED <<memory, link, knowledge>> /\ InMemory
  BY DEF ReadLink
<1>5. CASE link[l.at] = 0
  <2>1. Leave(q)
    BY <1>2, <1>5 DEF ReadLink
  <2>2. /\ Moves(q, Left(l)) /\ Left(l) \in RequestLocals /\ Left(l).id = 0 /\ Placed(Left(l))'
        /\ suspect' = IF l.alone THEN suspect \ {l.at} ELSE suspect
        /\ suspect' \subseteq Memories /\ (l.alone \/ suspect' = suspect)
    BY <1>1, <1>2, <1>3, <2>1, LeaveMoves DEF AtCandidate
  <2>3. ASSUME Lone(l), l.alone PROVE Lone(Left(l))'
    <3>1. /\ link'[l.at] = 0
          /\ \A c \in l.todo \ l.fresh : memory'[c] \notin Invalid
          /\ \A k \in DOMAIN knowledge' :
                ~knowledge'[k].archived /\ k \notin dropped /\ knowledge'[k].of \notin torn =>
                    link'[knowledge'[k].of] = k
      BY <1>3, <1>4, <1>5, <2>3 DEF Lone, Kept
    <3> QED
      BY <1>1, <1>2, <1>4, <2>2, <2>3, <3>1, LeaveIsLone DEF InMemory
  <2> QED
    BY <1>1, <1>2, <1>3, <1>4, <2>2, <2>3, MemoryStep
<1>6. CASE link[l.at] # 0
  <2>0. PICK n \in Nat : n = link[l.at]
    BY <1>3
  <2> DEFINE new == [l EXCEPT !.pc = "archive", !.id = n]
  <2>1. new \in RequestLocals
    BY DEF RequestLocals
  <2>2. /\ new.pc = "archive" /\ new.at = l.at /\ new.id = n /\ new.alone = l.alone
        /\ new.todo = l.todo /\ new.fresh = l.fresh /\ new.kind = l.kind
    BY DEF RequestLocals
  <2>3. corrector' = [corrector EXCEPT ![q] = new] /\ suspect' = suspect
    BY <1>1, <1>2, <1>6, <2>0 DEF ReadLink, JanusTypeInv
  <2> HIDE DEF new
  <2>4. Moves(q, new)
    BY <1>2, <1>3, <2>2, <2>3 DEF Moves
  <2>5. Placed(new)' /\ new.id \in 0..Len(knowledge)'
    BY <1>3, <1>4, <1>6, <2>0, <2>2 DEF Placed, AtCandidate
  <2>6. ASSUME Lone(l) PROVE Lone(new)'
    BY <1>3, <1>4, <2>0, <2>2, <2>3, <2>6 DEF Lone, Kept, InMemory
  <2> QED
    BY <1>1, <1>2, <1>3, <1>4, <2>1, <2>3, <2>4, <2>5, <2>6, MemoryStep
<1> QED
  BY <1>5, <1>6

\* ... and archives the knowledge that it names.
LEMMA ArchiveKeepsInv == ASSUME JanusInv, NEW q \in Correctors, ArchiveKnowledge(q) PROVE JanusInv'
<1>1. JanusTypeInv
  BY DEF JanusInv
<1>2. PICK l \in RequestLocals : l = corrector[q]
  BY <1>1, Facts
<1>3. /\ l.pc = "archive" /\ l.at \in Memories /\ l.id \in 1..Len(knowledge)
      /\ knowledge[l.id].of = l.at
      /\ Len(knowledge) \in Nat /\ knowledge \in Seq(Records) /\ suspect \subseteq Memories
      /\ memory \in [Memories -> Statuses] /\ link \in [Memories -> Nat]
      /\ DOMAIN knowledge = 1..Len(knowledge)
      /\ \A c \in Memories :
            link[c] # 0 => link[c] \in 1..Len(knowledge) /\ knowledge[link[c]].of = c
  BY <1>1, <1>2, Facts DEF ArchiveKnowledge, Doing, Placed, AtCandidate
<1>4. UNCHANGED <<memory, link>> /\ InMemory /\ Leave(q)
  BY DEF ArchiveKnowledge
<1>5. /\ knowledge' \in Seq(Records) /\ Len(knowledge)' = Len(knowledge)
      /\ DOMAIN knowledge' = DOMAIN knowledge
      /\ \A k \in 1..Len(knowledge) :
            /\ knowledge'[k].of = knowledge[k].of
            /\ (knowledge'[k].archived <=> (knowledge[k].archived \/ k = l.id))
  <2>1. knowledge' = [knowledge EXCEPT ![l.id].archived = TRUE]
    BY <1>2 DEF ArchiveKnowledge
  <2> QED
    <3>1. knowledge \in [1..Len(knowledge) -> Records]
      BY <1>3
    <3>2. [knowledge[l.id] EXCEPT !.archived = TRUE] \in Records
      <4>1. l.id \in DOMAIN knowledge /\ knowledge[l.id] \in Records
        BY <1>3, <3>1
      <4> QED
        BY ONLY <4>1 DEF Records
    <3>3. knowledge' \in [DOMAIN knowledge -> Records]
      BY <1>3, <2>1, <3>1, <3>2
    <3>4. \A k \in 1..Len(knowledge) :
            knowledge'[k] = IF k = l.id THEN [knowledge[k] EXCEPT !.archived = TRUE]
                            ELSE knowledge[k]
      BY <1>3, <2>1, <3>1
    <3>5. /\ knowledge' \in Seq(Records) /\ Len(knowledge)' = Len(knowledge)
          /\ DOMAIN knowledge' = DOMAIN knowledge
      BY <1>3, <3>3
    <3>6. ASSUME NEW k \in 1..Len(knowledge)
          PROVE  /\ knowledge'[k].of = knowledge[k].of
                 /\ (knowledge'[k].archived <=> (knowledge[k].archived \/ k = l.id))
      <4>1. knowledge[k] \in Records
        BY <3>1
      <4>2. CASE k = l.id
        BY <3>4, <4>1, <4>2 DEF Records
      <4>3. CASE k # l.id
        BY <3>4, <4>1, <4>3 DEF Records
      <4> QED
        BY <4>2, <4>3
    <3> QED
      BY <3>5, <3>6
<1>6. /\ Moves(q, Left(l)) /\ Left(l) \in RequestLocals /\ Left(l).id = 0 /\ Placed(Left(l))'
      /\ suspect' = IF l.alone THEN suspect \ {l.at} ELSE suspect
      /\ suspect' \subseteq Memories /\ (l.alone \/ suspect' = suspect)
  BY <1>1, <1>2, <1>3, <1>4, LeaveMoves DEF AtCandidate
<1>7. ASSUME Lone(l), l.alone PROVE Lone(Left(l))'
  <2>1. link[l.at] \in {0, l.id} /\ (link'[l.at] # 0 => knowledge'[link'[l.at]].archived)
    BY <1>3, <1>4, <1>5, <1>7 DEF Lone
  <2>2. ASSUME NEW c \in Memories \ {l.at}, link[c] # 0
        PROVE  (knowledge'[link[c]].archived <=> knowledge[link[c]].archived)
    <3>1. link[c] \in 1..Len(knowledge) /\ link[c] # l.id /\ knowledge[link[c]] \in Records
      <4>1. link[c] \in 1..Len(knowledge) /\ knowledge[link[c]].of = c /\ c # l.at
        BY <1>3, <2>2
      <4>2. knowledge[l.id].of = l.at
        BY <1>2, <1>3
      <4> QED
        BY <1>1, <4>1, <4>2, Facts
    <3> QED
      BY <1>5, <3>1 DEF Records
  <2>3. \A k \in DOMAIN knowledge' :
            ~knowledge'[k].archived /\ k \notin dropped /\ knowledge'[k].of \notin torn =>
                link'[knowledge'[k].of] = k
    BY <1>3, <1>4, <1>5, <1>7 DEF Lone, Kept
  <2>4. \A c \in l.todo \ l.fresh : memory'[c] \notin Invalid
    BY <1>4, <1>7 DEF Lone
  <2> QED
    BY <1>1, <1>2, <1>4, <1>6, <1>7, <2>1, <2>2, <2>3, <2>4, LeaveIsLone DEF InMemory
<1>8. /\ Len(knowledge) <= Len(knowledge)'
      /\ \A c \in Memories : link'[c] # 0 =>
            link'[c] \in 1..Len(knowledge)' /\ knowledge'[link'[c]].of = c
  BY <1>3, <1>4, <1>5
<1>9. memory' \in [Memories -> Statuses] /\ link' \in [Memories -> Nat]
  BY <1>3, <1>4
<1>10. Left(l).id \in 0..Len(knowledge)'
  BY <1>3, <1>5, <1>6
<1> QED
  BY <1>1, <1>2, <1>4, <1>5, <1>6, <1>7, <1>8, <1>9, <1>10, MemoryStep

\* A correction of a candidate goes on with the decision of the row.
LEMMA FindDecisionKeepsInv == ASSUME JanusInv, NEW q \in Correctors, FindDecision(q) PROVE JanusInv'
<1>1. JanusTypeInv
  BY DEF JanusInv
<1>2. PICK l \in RequestLocals : l = corrector[q]
  BY <1>1, Facts
<1>3. /\ l.pc = "whose" /\ l.at \in Memories /\ l.id \in 0..Len(knowledge)
      /\ Len(knowledge) \in Nat /\ knowledge \in Seq(Records) /\ suspect \subseteq Memories
      /\ memory \in [Memories -> Statuses] /\ link \in [Memories -> Nat]
      /\ owner \in [Memories -> Decisions]
      /\ \A c \in Memories :
            link[c] # 0 => link[c] \in 1..Len(knowledge) /\ knowledge[link[c]].of = c
  BY <1>1, <1>2, Facts DEF FindDecision, Doing, Placed, AtCandidate
<1>4. UNCHANGED <<memory, link, knowledge, suspect>> /\ InMemory
  BY DEF FindDecision
<1>5. PICK d \in Decisions : d = owner[l.at]
  BY <1>3
<1>6. PICK m \in RequestLocals :
         m = [l EXCEPT !.pc = "cascade", !.by = d, !.direct = FALSE, !.at = "none"]
  <2>1. [l EXCEPT !.pc = "cascade", !.by = d, !.direct = FALSE, !.at = "none"] \in RequestLocals
    BY DEF RequestLocals
  <2> QED
    BY <2>1
<1>7. /\ m.pc = "cascade" /\ m.id = l.id /\ m.alone = l.alone
      /\ m.todo = l.todo /\ m.fresh = l.fresh /\ m.kind = l.kind
  BY <1>6 DEF RequestLocals
<1>8. corrector' = [corrector EXCEPT ![q] = m]
  BY <1>1, <1>2, <1>5, <1>6 DEF FindDecision, JanusTypeInv
<1>9. Moves(q, m)
  BY <1>2, <1>3, <1>7, <1>8 DEF Moves
<1>10. Placed(m)' /\ m.id \in 0..Len(knowledge)'
  BY <1>3, <1>4, <1>7 DEF Placed, AtCandidate
<1>11. ASSUME Lone(l) PROVE Lone(m)'
  BY <1>3, <1>4, <1>7, <1>11 DEF Lone, Kept, InMemory
<1>12. /\ memory' \in [Memories -> Statuses] /\ link' \in [Memories -> Nat]
       /\ knowledge' \in Seq(Records) /\ Len(knowledge) <= Len(knowledge)'
       /\ \A k \in 1..Len(knowledge) : knowledge'[k].of = knowledge[k].of
       /\ \A c \in Memories : link'[c] # 0 =>
             link'[c] \in 1..Len(knowledge)' /\ knowledge'[link'[c]].of = c
       /\ suspect' \subseteq Memories /\ suspect' = suspect
  BY ONLY <1>3, <1>4
<1> QED
  BY <1>2, <1>4, <1>9, <1>10, <1>11, <1>12, MemoryStep

\* A cascade over the candidates of the decision: it reads them ...
LEMMA ReadCandidatesKeepsInv ==
    ASSUME JanusInv, NEW q \in Correctors, ReadCandidates(q) PROVE JanusInv'
<1>1. JanusTypeInv
  BY DEF JanusInv
<1>2. PICK l \in RequestLocals : l = corrector[q]
  BY <1>1, Facts
<1>3. /\ l.pc = "cascade" /\ l.id \in 0..Len(knowledge)
      /\ Len(knowledge) \in Nat /\ knowledge \in Seq(Records) /\ suspect \subseteq Memories
      /\ memory \in [Memories -> Statuses] /\ link \in [Memories -> Nat]
      /\ \A c \in Memories :
            link[c] # 0 => link[c] \in 1..Len(knowledge) /\ knowledge[link[c]].of = c
  BY <1>1, <1>2, Facts DEF ReadCandidates, Doing
<1>4. UNCHANGED <<memory, link, knowledge, suspect>> /\ InMemory
  BY DEF ReadCandidates
<1>5. PICK fresh \in SUBSET Memories : fresh = {c \in Memories : memory[c] # l.kind}
  OBVIOUS
<1>6. PICK todo \in SUBSET Memories :
         todo = {c \in Memories : /\ owner[c] = l.by
                                  /\ IF l.kind = "accepted" THEN memory[c] \notin Invalid
                                     ELSE memory[c] # l.kind}
  OBVIOUS
<1> DEFINE new == [l EXCEPT !.pc = "next", !.fresh = fresh, !.todo = todo]
<1>7. new \in RequestLocals
  BY DEF RequestLocals
<1>8. /\ new.pc = "next" /\ new.at = l.at /\ new.id = l.id /\ new.alone = l.alone
      /\ new.todo = todo /\ new.fresh = fresh /\ new.kind = l.kind
  BY DEF RequestLocals
<1>9. corrector' = [corrector EXCEPT ![q] = new]
  BY <1>1, <1>2, <1>5, <1>6 DEF ReadCandidates, JanusTypeInv
<1> HIDE DEF new
<1>10. Moves(q, new)
  BY <1>2, <1>3, <1>8, <1>9 DEF Moves
<1>11. Placed(new)' /\ new.id \in 0..Len(knowledge)'
  BY <1>3, <1>4, <1>8 DEF Placed, AtCandidate
<1>12. ASSUME Lone(l) PROVE Lone(new)'
  BY <1>3, <1>4, <1>5, <1>6, <1>8, <1>12 DEF Lone, Kept, InMemory
<1> QED
  BY <1>1, <1>2, <1>3, <1>4, <1>7, <1>10, <1>11, <1>12, MemoryStep

\* ... takes the next ...
LEMMA NextCandidateKeepsInv ==
    ASSUME JanusInv, NEW q \in Correctors, NextCandidate(q) PROVE JanusInv'
<1>1. JanusTypeInv
  BY DEF JanusInv
<1>2. PICK l \in RequestLocals : l = corrector[q]
  BY <1>1, Facts
<1>3. /\ l.pc = "next" /\ l.id \in 0..Len(knowledge)
      /\ Len(knowledge) \in Nat /\ knowledge \in Seq(Records) /\ suspect \subseteq Memories
      /\ memory \in [Memories -> Statuses] /\ link \in [Memories -> Nat]
      /\ \A c \in Memories :
            link[c] # 0 => link[c] \in 1..Len(knowledge) /\ knowledge[link[c]].of = c
  BY <1>1, <1>2, Facts DEF NextCandidate, Doing
<1>4. UNCHANGED <<memory, link, knowledge, suspect>> /\ InMemory
  BY DEF NextCandidate
<1>5. PICK c \in l.todo :
         corrector' = [corrector EXCEPT
                         ![q].at = c, ![q].todo = @ \ {c}, ![q].fresh = @ \ {c},
                         ![q].pc = IF c \in l.fresh THEN "status" ELSE "look"]
  BY <1>2 DEF NextCandidate
<1>6. c \in Memories
  BY DEF RequestLocals
<1> DEFINE new == [l EXCEPT !.at = c, !.todo = @ \ {c}, !.fresh = @ \ {c},
                            !.pc = IF c \in l.fresh THEN "status" ELSE "look"]
<1>7. new \in RequestLocals
  BY <1>6 DEF RequestLocals
<1>8. /\ new.pc = IF c \in l.fresh THEN "status" ELSE "look"
      /\ new.at = c /\ new.id = l.id /\ new.alone = l.alone
      /\ new.todo = l.todo \ {c} /\ new.fresh = l.fresh \ {c} /\ new.kind = l.kind
  BY DEF RequestLocals
<1>9. corrector' = [corrector EXCEPT ![q] = new]
  BY <1>1, <1>2, <1>5 DEF JanusTypeInv
<1> HIDE DEF new
<1>10. Moves(q, new)
  BY <1>2, <1>3, <1>8, <1>9 DEF Moves
<1>11. Placed(new)' /\ new.id \in 0..Len(knowledge)'
  BY <1>3, <1>4, <1>6, <1>8 DEF Placed, AtCandidate
<1>12. ASSUME Lone(l) PROVE Lone(new)'
  <2>1. new.pc = "look" => memory[c] \notin Invalid
    BY <1>8, <1>12 DEF Lone
  <2>2. new.todo \ new.fresh \subseteq l.todo \ l.fresh
    BY <1>8
  <2> QED
    BY <1>3, <1>4, <1>8, <1>12, <2>1, <2>2 DEF Lone, Kept, InMemory
<1> QED
  BY <1>1, <1>2, <1>3, <1>4, <1>7, <1>10, <1>11, <1>12, MemoryStep

\* ... until none is left.
LEMMA LastCandidateKeepsInv ==
    ASSUME JanusInv, NEW q \in Correctors, LastCandidate(q) PROVE JanusInv'
<1>1. JanusTypeInv
  BY DEF JanusInv
<1>2. PICK l \in RequestLocals : l = corrector[q]
  BY <1>1, Facts
<1>3. /\ l.pc = "next" /\ l.todo = {} /\ l.id \in 0..Len(knowledge)
      /\ Len(knowledge) \in Nat /\ knowledge \in Seq(Records) /\ suspect \subseteq Memories
      /\ memory \in [Memories -> Statuses] /\ link \in [Memories -> Nat]
      /\ \A c \in Memories :
            link[c] # 0 => link[c] \in 1..Len(knowledge) /\ knowledge[link[c]].of = c
  BY <1>1, <1>2, Facts DEF LastCandidate, Doing
<1>4. UNCHANGED <<memory, link, knowledge, suspect>> /\ InMemory
  BY DEF LastCandidate
<1> DEFINE new == IF l.kind = "accepted" \/ l.by # "this" THEN Calm
                  ELSE [l EXCEPT !.pc = "activations", !.fresh = {}]
<1>5. new \in RequestLocals
  BY CalmIsTyped DEF RequestLocals
<1>6. /\ new.pc \in {"calm", "activations"} /\ new.id \in {0, l.id} /\ new.todo = {}
      /\ IF new.pc = "calm" THEN new = Calm ELSE new.alone = l.alone
  BY <1>3, CalmIsTyped DEF RequestLocals
<1>7. corrector' = [corrector EXCEPT ![q] = new]
  BY <1>1, <1>2 DEF LastCandidate, JanusTypeInv
<1> HIDE DEF new
<1>8. Moves(q, new)
  BY <1>2, <1>3, <1>6, <1>7 DEF Moves
<1>9. Placed(new)' /\ new.id \in 0..Len(knowledge)'
  BY <1>3, <1>4, <1>6 DEF Placed, AtCandidate
<1>10. ASSUME Lone(l) PROVE Lone(new)'
  BY <1>3, <1>4, <1>6, <1>10 DEF Lone, Kept, InMemory
<1> QED
  BY <1>1, <1>2, <1>3, <1>4, <1>5, <1>8, <1>9, <1>10, MemoryStep

-----------------------------------------------------------------------------
(***************************************************************************)
(* The steps on the activation.                                            *)
(***************************************************************************)

Choices == {"skip", "decline"}

\* A request goes on with the activation, or is done; candidates and knowledge stay.
LEMMA ActivationStep ==
    ASSUME JanusInv, NEW q \in Correctors, OnActivation,
           corrector[q].pc \in {"activations", "skip", "decline", "accept"},
           \/ \E pc \in Choices : corrector' = [corrector EXCEPT ![q].pc = pc]
           \/ corrector' = [corrector EXCEPT ![q] = Calm],
           activation' \in {activation, "prepared", "submitted", "skipped"}, router' = router,
           refusal' \in {"none", "corrected", "declined"}
    PROVE  JanusTypeInv' /\ Flow'
<1>1. JanusTypeInv /\ Flow
  BY DEF JanusInv
<1>2. PICK l \in RequestLocals : l = corrector[q]
  BY <1>1, Facts
<1>3. /\ l.pc \in {"activations", "skip", "decline", "accept"}
      /\ l.id \in 0..Len(knowledge) /\ Len(knowledge) \in Nat /\ knowledge \in Seq(Records)
  BY <1>1, <1>2, Facts
<1>4. PICK new \in RequestLocals :
         /\ corrector' = [corrector EXCEPT ![q] = new]
         /\ new.pc \in {"calm"} \cup Choices /\ new.id \in {0, l.id}
         /\ IF new.pc = "calm" THEN new = Calm
            ELSE new.alone = l.alone /\ new.todo = l.todo /\ new.fresh = l.fresh /\ new.kind = l.kind
  <2>1. CASE corrector' = [corrector EXCEPT ![q] = Calm]
    BY <2>1, CalmIsTyped
  <2>2. ASSUME NEW pc \in Choices, corrector' = [corrector EXCEPT ![q].pc = pc]
        PROVE  \E new \in RequestLocals :
                 /\ corrector' = [corrector EXCEPT ![q] = new]
                 /\ new.pc \in {"calm"} \cup Choices /\ new.id \in {0, l.id}
                 /\ IF new.pc = "calm" THEN new = Calm
                    ELSE /\ new.alone = l.alone /\ new.todo = l.todo /\ new.fresh = l.fresh
                         /\ new.kind = l.kind
    <3> DEFINE new == [l EXCEPT !.pc = pc]
    <3>1. new \in RequestLocals
      BY DEF RequestLocals, Choices
    <3>2. /\ new.pc = pc /\ new.pc # "calm" /\ new.id = l.id /\ new.alone = l.alone
          /\ new.todo = l.todo /\ new.fresh = l.fresh /\ new.kind = l.kind
      BY DEF RequestLocals, Choices
    <3>3. corrector' = [corrector EXCEPT ![q] = new]
      BY <1>1, <1>2, <2>2 DEF JanusTypeInv
    <3> HIDE DEF new
    <3> QED
      BY <3>1, <3>2, <3>3
  <2> QED
    BY <2>1, <2>2
<1>5. Moves(q, new)
  BY <1>2, <1>3, <1>4 DEF Moves
<1>6. Placed(new)' /\ new.id \in 0..Len(knowledge)'
  BY <1>3, <1>4 DEF Placed, AtCandidate, Choices, OnActivation
<1>7. Lone(l) => Lone(new)'
  BY <1>3, <1>4, CalmIsTyped DEF Lone, Kept, OnActivation, Choices
<1>8. Flow'
  <2>1. \A k \in DOMAIN knowledge' : knowledge'[k].of \in Memories
    BY <1>1, <1>2, <1>3, Facts DEF OnActivation, Records
  <2> QED
    BY <1>1, <1>2, <1>5, <1>7, <2>1, MovesKeepFlow DEF OnActivation
<1>9. /\ corrector' \in [Correctors -> RequestLocals]
      /\ \A r \in Correctors : Placed(corrector[r])' /\ corrector'[r].id \in 0..Len(knowledge)'
  <2>1. /\ knowledge' \in Seq(Records) /\ Len(knowledge) <= Len(knowledge)'
        /\ \A k \in 1..Len(knowledge) : knowledge'[k].of = knowledge[k].of
    BY <1>3 DEF OnActivation
  <2> QED
    BY <1>1, <1>4, <1>6, <2>1, MovesKeepTypes
<1>10. JanusTypeOK'
  <2>1. \A r \in Correctors :
          /\ corrector'[r].pc \in {"calm", "status", "look", "check", "append", "mark",
                                   "retract", "archive", "whose", "cascade", "next",
                                   "activations", "skip", "decline", "accept"}
          /\ corrector'[r].kind \in Statuses /\ corrector'[r].by \in Decisions
          /\ corrector'[r].at \in Memories \cup {"none"}
          /\ corrector'[r].fresh \cup corrector'[r].todo \subseteq Memories
    BY <1>9 DEF RequestLocals
  <2>2. /\ memory' \in [Memories -> Statuses]
        /\ knowledge' \in Seq([of : Memories, archived : BOOLEAN])
        /\ \A c \in Memories :
             link'[c] # 0 => link'[c] \in DOMAIN knowledge' /\ knowledge'[link'[c]].of = c
        /\ suspect' \subseteq Memories /\ torn' \subseteq Memories
        /\ corrections' \in 0..MaxCorrections /\ stops' \in 0..MaxStops
        /\ owner' \in [Memories -> Decisions] /\ dropped' \subseteq DOMAIN knowledge'
    BY <1>1 DEF JanusTypeInv, JanusTypeOK, OnActivation
  <2>3. /\ activation' \in {"prepared", "pending", "submitted", "skipped", "failed"}
        /\ activation' = "pending" => router' = "waking" \/ stops' > 0
        /\ router' \in {"waking", "gone"}
    BY <1>1 DEF JanusTypeInv, JanusTypeOK, OnActivation
  <2> QED
    BY <1>9, <2>1, <2>2, <2>3 DEF JanusTypeOK
<1>11. link' \in [Memories -> Nat]
  BY <1>1 DEF JanusTypeInv, OnActivation
<1> QED
  BY <1>8, <1>9, <1>10, <1>11 DEF JanusTypeInv

LEMMA OnActivationKeepsInv ==
    ASSUME JanusInv, NEW q \in Correctors,
           ReadActivation(q) \/ SkipActivation(q) \/ DeclineActivation(q) \/ PrepareActivation(q)
    PROVE  JanusInv'
<1>1. /\ refusal \in {"none", "corrected", "declined"} /\ RefusedBehindRouter /\ RefusalStays
  BY DEF JanusInv, JanusTypeInv, JanusTypeOK
<1>2. /\ corrector[q].pc \in {"activations", "skip", "decline", "accept"}
      /\ OnActivation /\ router' = router
      /\ \/ \E pc \in Choices : corrector' = [corrector EXCEPT ![q].pc = pc]
         \/ corrector' = [corrector EXCEPT ![q] = Calm]
      /\ activation' \in {activation, "prepared", "submitted", "skipped"}
      /\ refusal' \in {"none", "corrected", "declined"}
      /\ RefusedBehindRouter' /\ RefusalStays'
  <2>1. CASE ReadActivation(q)
    BY <1>1, <2>1 DEF ReadActivation, Doing, Proceed, Refuse, Choices, RefusedBehindRouter,
                      RefusalStays
  <2>2. CASE SkipActivation(q)
    BY <1>1, <2>2 DEF SkipActivation, Doing, Proceed, Refuse, Choices, RefusedBehindRouter,
                      RefusalStays
  <2>3. CASE DeclineActivation(q)
    BY <1>1, <2>3 DEF DeclineActivation, Doing, Refuse, RefusedBehindRouter, RefusalStays
  <2>4. CASE PrepareActivation(q)
    BY <1>1, <2>4 DEF PrepareActivation, Doing, RefusedBehindRouter, RefusalStays
  <2> QED
    BY <2>1, <2>2, <2>3, <2>4
<1> QED
  BY <1>2, ActivationStep DEF JanusInv

\* The router's run of the agent ends: nothing has been refused undisturbed before.
LEMMA RouterKeepsInv == ASSUME JanusInv, RouterEnds PROVE JanusInv'
<1>1. /\ router = "waking" /\ router' = "gone" /\ activation' \in {"submitted", "failed", "skipped"}
      /\ UNCHANGED <<memory, link, owner, knowledge, corrector, corrections>>
      /\ UNCHANGED <<suspect, torn, dropped, refusal, stops>>
  BY DEF RouterEnds, OnActivation
<1>2. RefusedBehindRouter' /\ RefusalStays'
  BY <1>1 DEF JanusInv, RefusedBehindRouter, RefusalStays
<1>3. JanusTypeInv'
  BY <1>1 DEF JanusInv, JanusTypeInv, JanusTypeOK, Placed
<1>4. Flow'
  BY <1>1 DEF JanusInv, Flow, Lone, Kept, Underway
<1> QED
  BY <1>2, <1>3, <1>4 DEF JanusInv

\* A candidate that a later decision replaces is neither invalid nor linked any more.
LEMMA ReplacedIsLone ==
    ASSUME JanusTypeInv, NEW d \in Later, RecordCandidate(d), NEW l \in RequestLocals, Placed(l),
           Lone(l)
    PROVE  Lone(l)'
<1>1. PICK c \in Memories :
         /\ memory' = [memory EXCEPT ![c] = "candidate"] /\ link' = [link EXCEPT ![c] = 0]
         /\ dropped' = dropped \cup ({link[c]} \ {0})
         /\ UNCHANGED <<knowledge, suspect, torn>>
  BY DEF RecordCandidate
<1>2. /\ memory \in [Memories -> Statuses] /\ link \in [Memories -> Nat]
      /\ knowledge \in Seq(Records) /\ DOMAIN knowledge = 1..Len(knowledge) /\ Len(knowledge) \in Nat
      /\ \A k \in 1..Len(knowledge) : knowledge[k] \in Records
  <2>1. knowledge \in Seq(Records)
    BY DEF JanusTypeInv, JanusTypeOK, Records
  <2> QED
    BY <2>1 DEF JanusTypeInv, JanusTypeOK
<1>3. "candidate" \notin Invalid
  BY JanusConstants
<1>4. /\ memory'[c] = "candidate" /\ link'[c] = 0
      /\ \A b \in Memories \ {c} : memory'[b] = memory[b] /\ link'[b] = link[b]
  BY <1>1, <1>2
<1>5. ASSUME NEW b \in Memories, memory'[b] \in Invalid, link'[b] # 0
      PROVE  \/ ~Kept(link[b])' \/ b \in suspect'
             \/ l.pc \in {"retract", "archive"} /\ b = l.at
  BY <1>1, <1>4, <1>5 DEF Lone, Kept
<1>6. l.pc \in {"look", "check", "append", "mark"} => memory'[l.at] \notin Invalid
  BY <1>3, <1>4 DEF Lone, Placed, AtCandidate
<1>7. l.pc \in {"check", "archive"} => link'[l.at] \in {0, l.id}
  BY <1>4 DEF Lone, Placed, AtCandidate
<1>8. \A b \in l.todo \ l.fresh : l.kind = "accepted" /\ memory'[b] \notin Invalid
  BY <1>3, <1>4 DEF Lone, RequestLocals
<1>9. ASSUME NEW k \in DOMAIN knowledge, Kept(k), k \notin dropped', knowledge[k].of \notin torn
      PROVE  /\ link'[knowledge[k].of] = k \/ (l.pc = "mark" /\ l.id = k)
             /\ l.pc \in {"append", "mark"} /\ knowledge[k].of = l.at =>
                  l.pc = "mark" /\ k = l.id
  <2>1. knowledge[k].of \in Memories /\ k # 0
    BY <1>2 DEF Records
  <2>2. k \notin dropped /\ k # link[c]
    BY <1>1, <1>9, <2>1
  <2>3. /\ link[knowledge[k].of] = k \/ (l.pc = "mark" /\ l.id = k)
        /\ l.pc \in {"append", "mark"} /\ knowledge[k].of = l.at =>
             l.pc = "mark" /\ k = l.id
    BY <1>9, <2>2 DEF Lone
  <2> QED
    BY <1>4, <2>1, <2>2, <2>3
<1> QED
  BY <1>1, <1>5, <1>6, <1>7, <1>8, <1>9 DEF Lone, Kept

LEMMA ReplaceKeepsInv == ASSUME JanusInv, NEW d \in Later, RecordCandidate(d) PROVE JanusInv'
<1>1. JanusTypeInv /\ Flow /\ RefusedBehindRouter /\ RefusalStays
  BY DEF JanusInv
<1>2. PICK c \in Memories :
         /\ memory' = [memory EXCEPT ![c] = "candidate"] /\ link' = [link EXCEPT ![c] = 0]
         /\ owner' = [owner EXCEPT ![c] = d] /\ dropped' = dropped \cup ({link[c]} \ {0})
         /\ UNCHANGED <<knowledge, activation, router, corrector, corrections>>
         /\ UNCHANGED <<suspect, torn, refusal, stops>>
  BY DEF RecordCandidate
<1>3. /\ memory \in [Memories -> Statuses] /\ link \in [Memories -> Nat]
      /\ owner \in [Memories -> Decisions] /\ dropped \subseteq DOMAIN knowledge
      /\ \A b \in Memories :
            link[b] # 0 => link[b] \in DOMAIN knowledge /\ knowledge[link[b]].of = b
  BY <1>1 DEF JanusTypeInv, JanusTypeOK
<1>4. /\ memory' \in [Memories -> Statuses] /\ link' \in [Memories -> Nat]
      /\ owner' \in [Memories -> Decisions] /\ dropped' \subseteq DOMAIN knowledge'
      /\ \A b \in Memories :
            link'[b] # 0 => link'[b] \in DOMAIN knowledge' /\ knowledge'[link'[b]].of = b
  <2>1. "candidate" \in Statuses /\ d \in Decisions
    BY DEF Statuses, Decisions
  <2> QED
    BY <1>2, <1>3, <2>1
<1>5. JanusTypeInv'
  BY <1>1, <1>2, <1>4 DEF JanusTypeInv, JanusTypeOK, Placed
<1>6. Flow'
  <2>1. Underway' = Underway
    BY <1>2 DEF Underway
  <2>2. Underway = {} => Lone(Calm)'
    BY <1>1, CalmIsTyped, ReplacedIsLone DEF Flow, Placed, AtCandidate
  <2>3. ASSUME NEW q \in Underway
        PROVE  IF corrector[q].alone THEN Underway = {q} /\ Lone(corrector[q])'
               ELSE suspect' = Memories /\ torn' = Memories
    <3>1. PICK l \in RequestLocals : l = corrector[q] /\ Placed(l) /\ corrector'[q] = l
      BY <1>1, <1>2, <2>3, Facts DEF Underway
    <3>2. Lone(l) => Lone(l)'
      BY <1>1, <3>1, ReplacedIsLone
    <3> QED
      BY <1>1, <1>2, <2>3, <3>1, <3>2 DEF Flow
  <2> QED
    BY <1>2, <2>1, <2>2, <2>3 DEF Flow
<1>7. RefusedBehindRouter' /\ RefusalStays'
  BY <1>1, <1>2 DEF RefusedBehindRouter, RefusalStays
<1> QED
  BY <1>5, <1>6, <1>7 DEF JanusInv

-----------------------------------------------------------------------------
(***************************************************************************)
(* Requests that come in, and those that raise or are killed.              *)
(***************************************************************************)

Entered(locals) ==
    /\ locals \in RequestLocals /\ locals.pc \in {"status", "cascade", "accept"} /\ locals.id = 0
    /\ locals.pc = "status" => locals.at \in Memories
    /\ locals.todo = {}

LEMMA EnterKeepsInv ==
    ASSUME JanusInv, NEW q \in Correctors, NEW locals, Entered(locals), Enter(q, locals),
           refusal' \in {refusal, "none"}
    PROVE  JanusInv'
<1>1. JanusTypeInv /\ Flow /\ RefusedBehindRouter /\ RefusalStays
  BY DEF JanusInv
<1>2. /\ UNCHANGED <<memory, link, owner, knowledge, activation, router, dropped, stops>>
      /\ corrector[q].pc = "calm" /\ corrections' = corrections + 1 /\ corrections < MaxCorrections
  BY DEF Enter
<1>3. [locals EXCEPT !.alone = (Underway = {})] \in RequestLocals
  BY DEF Entered, RequestLocals
<1>4. PICK new \in RequestLocals :
         /\ new = [locals EXCEPT !.alone = (Underway = {})]
         /\ new.pc = locals.pc /\ new.id = 0 /\ new.at = locals.at
         /\ new.todo = {} /\ (new.alone <=> Underway = {})
  BY <1>3 DEF Entered, RequestLocals
<1>5. ASSUME NEW r \in Correctors, r # q
      PROVE  /\ corrector'[r] \in RequestLocals /\ ~corrector'[r].alone
             /\ corrector'[r].pc = corrector[r].pc /\ corrector'[r].id = corrector[r].id
             /\ corrector'[r].at = corrector[r].at
  <2>1. corrector[r] \in RequestLocals /\ corrector'[r] = [corrector[r] EXCEPT !.alone = FALSE]
    BY <1>1, <1>5 DEF Enter, JanusTypeInv
  <2> QED
    BY <2>1 DEF RequestLocals
<1>6. corrector'[q] = new
  BY <1>4 DEF Enter
<1>7. corrector' \in [Correctors -> RequestLocals]
  <2>1. \A r \in Correctors : corrector'[r] \in RequestLocals
    BY <1>4, <1>5, <1>6
  <2>2. corrector' = [r \in Correctors |-> corrector'[r]]
    BY DEF Enter
  <2> QED
    BY ONLY <2>1, <2>2
<1>8. /\ knowledge \in Seq(Records) /\ Len(knowledge) \in Nat
      /\ \A r \in Correctors : Placed(corrector[r]) /\ corrector[r].id \in 0..Len(knowledge)
  BY <1>1, Facts
<1>9. \A r \in Correctors : Placed(corrector[r])' /\ corrector'[r].id \in 0..Len(knowledge)'
  <2> SUFFICES ASSUME NEW r \in Correctors
               PROVE  Placed(corrector[r])' /\ corrector'[r].id \in 0..Len(knowledge)'
    OBVIOUS
  <2>1. CASE r = q
    <3>1. /\ corrector'[r] = new /\ new.pc \in {"status", "cascade", "accept"}
          /\ new.pc = "status" => new.at \in Memories
      BY <1>4, <1>6, <2>1 DEF Entered
    <3>2. Placed(corrector[r])'
      BY <3>1 DEF Placed, AtCandidate
    <3> QED
      BY <1>2, <1>4, <1>8, <3>1, <3>2
  <2>2. CASE r # q
    BY <1>2, <1>5, <1>8, <2>2 DEF Placed
  <2> QED
    BY <2>1, <2>2
<1>10. /\ suspect' = IF Underway = {} THEN suspect ELSE Memories
       /\ torn' = IF Underway = {} THEN torn ELSE Memories
  BY DEF Enter
<1>11. JanusTypeOK'
  <2>1. \A r \in Correctors :
          /\ corrector'[r].pc \in {"calm", "status", "look", "check", "append", "mark",
                                   "retract", "archive", "whose", "cascade", "next",
                                   "activations", "skip", "decline", "accept"}
          /\ corrector'[r].kind \in Statuses /\ corrector'[r].by \in Decisions
          /\ corrector'[r].at \in Memories \cup {"none"}
          /\ corrector'[r].fresh \cup corrector'[r].todo \subseteq Memories
    BY <1>7 DEF RequestLocals
  <2>2. /\ memory' \in [Memories -> Statuses]
        /\ knowledge' \in Seq([of : Memories, archived : BOOLEAN])
        /\ \A c \in Memories :
             link'[c] # 0 => link'[c] \in DOMAIN knowledge' /\ knowledge'[link'[c]].of = c
        /\ activation' \in {"prepared", "pending", "submitted", "skipped", "failed"}
        /\ activation' = "pending" => router' = "waking" \/ stops' > 0
        /\ router' \in {"waking", "gone"} /\ stops' \in 0..MaxStops
        /\ owner' \in [Memories -> Decisions] /\ dropped' \subseteq DOMAIN knowledge'
    BY <1>1, <1>2 DEF JanusTypeInv, JanusTypeOK
  <2>3. corrections' \in 0..MaxCorrections
    BY <1>1, <1>2, JanusConstants DEF JanusTypeInv, JanusTypeOK
  <2>4. suspect' \subseteq Memories /\ torn' \subseteq Memories
    BY <1>1, <1>10 DEF JanusTypeInv, JanusTypeOK
  <2>5. refusal' \in {"none", "corrected", "declined"}
    BY <1>1 DEF JanusTypeInv, JanusTypeOK
  <2> QED
    BY <1>9, <2>1, <2>2, <2>3, <2>4, <2>5 DEF JanusTypeOK
<1>12. JanusTypeInv'
  BY <1>1, <1>2, <1>7, <1>9, <1>11 DEF JanusTypeInv
<1>13. q \in Underway' /\ q \notin Underway
       /\ \A r \in Correctors \ {q} : r \in Underway' <=> r \in Underway
  BY <1>2, <1>4, <1>5, <1>6 DEF Underway, Entered
<1>14. CASE Underway = {}
  <2>1. Underway' = {q}
    BY <1>13, <1>14 DEF Underway
  <2>2. Lone(new)'
    <3>1. Lone(Calm) /\ suspect' = suspect /\ torn' = torn
      BY <1>1, <1>10, <1>14 DEF Flow, JanusTypeInv, JanusTypeOK
    <3>2. new.pc \in {"status", "cascade", "accept"}
      BY <1>4 DEF Entered
    <3> QED
      BY <1>2, <1>4, <3>1, <3>2, CalmIsTyped DEF Lone, Kept
  <2>3. corrector'[q].alone /\ Lone(corrector[q])'
    BY <1>4, <1>6, <1>14, <2>2
  <2> QED
    BY <1>1, <1>2, <1>12, <2>1, <2>3 DEF JanusInv, Flow, RefusedBehindRouter, RefusalStays
<1>15. CASE Underway # {}
  <2>1. suspect' = Memories /\ torn' = Memories
    BY <1>10, <1>15
  <2>2. \A r \in Correctors : ~corrector'[r].alone
    <3>1. ~corrector'[q].alone
      BY <1>4, <1>6, <1>15
    <3> QED
      BY <1>5, <3>1
  <2>3. Flow'
    BY <1>13, <2>1, <2>2 DEF Flow, Underway
  <2> QED
    BY <1>1, <1>2, <1>12, <2>3 DEF JanusInv, RefusedBehindRouter, RefusalStays
<1> QED
  BY <1>14, <1>15

LEMMA EntersKeepInv ==
    ASSUME JanusInv, NEW q \in Correctors,
           CorrectCandidate(q) \/ CorrectDecision(q) \/ Decline(q) \/ Accept(q)
    PROVE  JanusInv'
<1>1. \A kind \in Invalid \cup {"accepted"} : kind \in Statuses
  BY DEF Statuses
<1>2. CASE CorrectCandidate(q)
  <2>1. PICK kind \in Invalid \cup {"accepted"}, c \in Memories :
           Enter(q, [Calm EXCEPT !.pc = "status", !.kind = kind, !.direct = TRUE, !.at = c])
    BY <1>2 DEF CorrectCandidate
  <2>2. Entered([Calm EXCEPT !.pc = "status", !.kind = kind, !.direct = TRUE, !.at = c])
    BY <1>1 DEF Entered, Calm, RequestLocals, Decisions
  <2>3. refusal' = refusal
    BY <1>2 DEF CorrectCandidate
  <2> QED
    BY <2>1, <2>2, <2>3, EnterKeepsInv
<1>3. CASE CorrectDecision(q)
  <2>1. PICK kind \in Invalid \cup {"accepted"}, d \in Decisions :
           Enter(q, [Calm EXCEPT !.pc = "cascade", !.kind = kind, !.by = d])
    BY <1>3 DEF CorrectDecision
  <2>2. Entered([Calm EXCEPT !.pc = "cascade", !.kind = kind, !.by = d])
    BY <1>1 DEF Entered, Calm, RequestLocals, Decisions
  <2>3. refusal' = refusal
    BY <1>3 DEF CorrectDecision
  <2> QED
    BY <2>1, <2>2, <2>3, EnterKeepsInv
<1>4. CASE Decline(q)
  <2>1. PICK kind \in Invalid \ {"rejected"} :
           Enter(q, [Calm EXCEPT !.pc = "cascade", !.kind = kind, !.answer = TRUE])
    BY <1>4 DEF Decline
  <2>2. Entered([Calm EXCEPT !.pc = "cascade", !.kind = kind, !.answer = TRUE])
    BY <1>1 DEF Entered, Calm, RequestLocals, Decisions
  <2>3. refusal' = refusal
    BY <1>4 DEF Decline
  <2> QED
    BY <2>1, <2>2, <2>3, EnterKeepsInv
<1>5. CASE Accept(q)
  <2>1. Entered([Calm EXCEPT !.pc = "accept"])
    BY CalmIsTyped DEF Entered, Calm, RequestLocals, Statuses, Decisions
  <2> QED
    BY <1>5, <2>1, EnterKeepsInv DEF Accept
<1> QED
  BY <1>2, <1>3, <1>4, <1>5

\* A request that stops may leave anything half done.
LEMMA StopKeepsInv == ASSUME JanusInv, NEW q \in Correctors, Stop(q) PROVE JanusInv'
<1>1. JanusTypeInv /\ Flow
  BY DEF JanusInv
<1>2. /\ UNCHANGED <<memory, link, owner, knowledge, activation, corrections, dropped>>
      /\ corrector' = [corrector EXCEPT ![q] = Calm] /\ stops' = stops + 1 /\ stops < MaxStops
      /\ corrector[q].pc # "calm" /\ router' \in {router, "gone"}
      /\ suspect' = Memories /\ refusal' = "none"
      /\ torn' = torn \cup IF corrector[q].pc = "mark" THEN {corrector[q].at} ELSE {}
  BY DEF Stop, Doing
<1>3. knowledge \in Seq(Records) /\ Len(knowledge) \in Nat
  BY <1>1, Facts
<1>4. /\ corrector' \in [Correctors -> RequestLocals]
      /\ \A r \in Correctors : Placed(corrector[r])' /\ corrector'[r].id \in 0..Len(knowledge)'
  <2>1. Placed(Calm)' /\ Calm.id \in 0..Len(knowledge)'
    BY <1>2, <1>3, CalmIsTyped DEF Placed, AtCandidate
  <2>2. /\ knowledge' \in Seq(Records) /\ Len(knowledge) <= Len(knowledge)'
        /\ \A k \in 1..Len(knowledge) : knowledge'[k].of = knowledge[k].of
    BY <1>2, <1>3
  <2> QED
    BY <1>1, <1>2, <2>1, <2>2, CalmIsTyped, MovesKeepTypes
<1>5. JanusTypeOK'
  <2>1. \A r \in Correctors :
          /\ corrector'[r].pc \in {"calm", "status", "look", "check", "append", "mark",
                                   "retract", "archive", "whose", "cascade", "next",
                                   "activations", "skip", "decline", "accept"}
          /\ corrector'[r].kind \in Statuses /\ corrector'[r].by \in Decisions
          /\ corrector'[r].at \in Memories \cup {"none"}
          /\ corrector'[r].fresh \cup corrector'[r].todo \subseteq Memories
    BY <1>4 DEF RequestLocals
  <2>2. /\ memory' \in [Memories -> Statuses]
        /\ knowledge' \in Seq([of : Memories, archived : BOOLEAN])
        /\ \A c \in Memories :
             link'[c] # 0 => link'[c] \in DOMAIN knowledge' /\ knowledge'[link'[c]].of = c
        /\ activation' \in {"prepared", "pending", "submitted", "skipped", "failed"}
        /\ router' \in {"waking", "gone"} /\ corrections' \in 0..MaxCorrections
        /\ owner' \in [Memories -> Decisions] /\ dropped' \subseteq DOMAIN knowledge'
    BY <1>1, <1>2 DEF JanusTypeInv, JanusTypeOK
  <2>3. stops' \in 0..MaxStops /\ stops' > 0
    BY <1>1, <1>2, JanusConstants DEF JanusTypeInv, JanusTypeOK
  <2>4. torn' \subseteq Memories
    BY <1>1, <1>2, Facts DEF Placed, AtCandidate
  <2> QED
    BY <1>2, <1>4, <2>1, <2>2, <2>3, <2>4 DEF JanusTypeOK
<1>6. JanusTypeInv'
  BY <1>1, <1>2, <1>4, <1>5 DEF JanusTypeInv
<1>7. /\ corrector'[q] = Calm /\ \A r \in Correctors \ {q} : corrector'[r] = corrector[r]
  BY <1>1, <1>2 DEF JanusTypeInv
<1>8. Underway' = Underway \ {q} /\ q \in Underway
  BY <1>2, <1>7, CalmIsTyped DEF Underway
<1>9. RefusedBehindRouter' /\ RefusalStays'
  BY <1>2 DEF RefusedBehindRouter, RefusalStays
<1>10. CASE corrector[q].alone
  <2>1. PICK l \in RequestLocals : l = corrector[q]
    BY <1>1, Facts
  <2>2. Underway' = {} /\ Lone(l)
    BY <1>1, <1>8, <1>10, <2>1 DEF Flow
  <2>3. ASSUME NEW k \in DOMAIN knowledge, Kept(k), k \notin dropped, knowledge[k].of \notin torn'
        PROVE  link[knowledge[k].of] = k
    BY <1>1, <1>2, <2>1, <2>2, <2>3, Facts DEF Lone, Placed
  <2>4. Lone(Calm)'
    BY <1>2, <2>2, <2>3, CalmIsTyped DEF Lone, Kept
  <2> QED
    BY <1>6, <1>9, <2>2, <2>4 DEF Flow, JanusInv
<1>11. CASE ~corrector[q].alone
  <2>1. torn' = Memories
    BY <1>1, <1>2, <1>8, <1>11, Facts DEF Flow, Placed, AtCandidate
  <2>2. Lone(Calm)'
    BY <1>1, <1>2, <2>1, CalmIsTyped, Facts DEF Lone, Kept, Records
  <2>3. ASSUME NEW r \in Underway' PROVE ~corrector'[r].alone
    <3>1. r \in Underway /\ r # q /\ corrector'[r] = corrector[r]
      BY <1>7, <1>8, <2>3 DEF Underway
    <3>2. Underway # {r}
      BY <1>8, <3>1
    <3> QED
      BY <1>1, <3>1, <3>2 DEF Flow
  <2> QED
    BY <1>2, <1>6, <1>9, <2>1, <2>2, <2>3 DEF Flow, JanusInv
<1> QED
  BY <1>10, <1>11

-----------------------------------------------------------------------------
(***************************************************************************)
(* The invariant holds, and with it the properties.                        *)
(***************************************************************************)

LEMMA InitJanusInv == JanusInit => JanusInv
<1> SUFFICES ASSUME JanusInit PROVE JanusInv
  OBVIOUS
<1>1. /\ memory = [c \in Memories |-> "candidate"] /\ link = [c \in Memories |-> 0]
      /\ owner = [c \in Memories |-> "this"] /\ dropped = {}
      /\ knowledge = <<>> /\ corrector = [q \in Correctors |-> Calm] /\ corrections = 0
      /\ suspect = {} /\ torn = {} /\ refusal = "none" /\ stops = 0
      /\ activation \in {"pending", "prepared"} /\ router \in {"waking", "gone"}
      /\ activation = "pending" => router = "waking"
  BY DEF JanusInit
<1>2. /\ knowledge \in Seq(Records) /\ DOMAIN knowledge = {} /\ Len(knowledge) = 0
  BY <1>1
<1>3. \A q \in Correctors : corrector[q] = Calm
  BY <1>1
<1>4. JanusTypeOK
  <2>1. /\ "calm" = Calm.pc /\ Calm.kind \in Statuses /\ Calm.at \in Memories \cup {"none"}
        /\ Calm.fresh \cup Calm.todo \subseteq Memories /\ Calm.id \in 0..Len(knowledge)
        /\ Calm.by \in Decisions
    BY <1>2, CalmIsTyped DEF RequestLocals
  <2>2. memory \in [Memories -> Statuses] /\ owner \in [Memories -> Decisions]
    BY <1>1 DEF Statuses, Decisions
  <2>3. corrections \in 0..MaxCorrections /\ stops \in 0..MaxStops
    BY <1>1, JanusConstants
  <2>4. \A c \in Memories :
          link[c] # 0 => link[c] \in DOMAIN knowledge /\ knowledge[link[c]].of = c
    BY <1>1
  <2>5. torn \subseteq Memories /\ suspect \subseteq Memories /\ dropped \subseteq DOMAIN knowledge
    BY <1>1
  <2> QED
    BY <1>1, <1>2, <1>3, <2>1, <2>2, <2>3, <2>4, <2>5 DEF JanusTypeOK, Records
<1>5. JanusTypeInv
  BY <1>1, <1>3, <1>4, CalmIsTyped DEF JanusTypeInv, Placed, AtCandidate
<1>6. Underway = {}
  BY <1>3, CalmIsTyped DEF Underway
<1>7. Lone(Calm)
  BY <1>1, <1>2, CalmIsTyped DEF Lone
<1> QED
  BY <1>1, <1>5, <1>6, <1>7 DEF JanusInv, Flow, RefusedBehindRouter, RefusalStays

LEMMA NextKeepsJanusInv == ASSUME JanusInv, [JanusNext]_janusVars PROVE JanusInv'
<1>1. CASE RouterEnds
  BY <1>1, RouterKeepsInv
<1>2. ASSUME NEW q \in Correctors, CorrectorStep(q) PROVE JanusInv'
  <2>1. CASE CorrectCandidate(q) \/ CorrectDecision(q) \/ Decline(q) \/ Accept(q)
    BY <2>1, EntersKeepInv
  <2>2. CASE Promote(q)
    BY <2>2, LookKeepsInv, CheckKeepsInv, AppendKeepsInv, MarkKeepsInv DEF Promote
  <2>3. CASE Retract(q)
    BY <2>3, ReadLinkKeepsInv, ArchiveKeepsInv DEF Retract
  <2>4. CASE \/ SetStatus(q) \/ FindDecision(q) \/ ReadCandidates(q) \/ NextCandidate(q)
             \/ LastCandidate(q)
    BY <2>4, SetStatusKeepsInv, FindDecisionKeepsInv, ReadCandidatesKeepsInv,
       NextCandidateKeepsInv, LastCandidateKeepsInv
  <2>5. CASE ReadActivation(q) \/ SkipActivation(q) \/ DeclineActivation(q) \/ PrepareActivation(q)
    BY <2>5, OnActivationKeepsInv
  <2>6. CASE Stop(q)
    BY <2>6, StopKeepsInv
  <2> QED
    BY <1>2, <2>1, <2>2, <2>3, <2>4, <2>5, <2>6 DEF CorrectorStep
<1>3. CASE UNCHANGED janusVars
  <2>1. /\ UNCHANGED <<memory, link, owner, knowledge, activation, router, corrector, corrections>>
        /\ UNCHANGED <<suspect, torn, dropped, refusal, stops>>
    BY <1>3 DEF janusVars, janusHistory
  <2>2. JanusTypeInv' /\ RefusedBehindRouter' /\ RefusalStays'
    BY <2>1 DEF JanusInv, JanusTypeInv, JanusTypeOK, Placed, RefusedBehindRouter, RefusalStays
  <2>3. Flow'
    BY <2>1 DEF JanusInv, Flow, Lone, Kept, Underway
  <2> QED
    BY <2>2, <2>3 DEF JanusInv
<1>4. ASSUME NEW d \in Later, RecordCandidate(d) PROVE JanusInv'
  BY <1>4, ReplaceKeepsInv
<1> QED
  BY <1>1, <1>2, <1>3, <1>4 DEF JanusNext

LEMMA JanusInvHolds == JanusSpec => []JanusInv
  BY InitJanusInv, NextKeepsJanusInv, PTL DEF JanusSpec

\* The tables and the locals hold what they may; in particular no candidate names
\* knowledge that is not there or is another's.
THEOREM JanusTypeCorrect == JanusSpec => []JanusTypeOK
<1>1. JanusInv => JanusTypeOK
  BY DEF JanusInv, JanusTypeInv
<1> QED
  BY <1>1, JanusInvHolds, PTL

\* What a user has invalidated does not go on as knowledge that the planner sees, and
\* of each candidate at most the record that its row names counts, unless requests have
\* overlapped or died, or a later decision replaced the row (service.py
\* record_user_correction, memory_promotion.py, store.py record_memory_candidate).
THEOREM KnowledgeFollowsTheUser == JanusSpec => []KnowledgeFollows
<1>1. JanusInv => KnowledgeFollows
  <2> SUFFICES ASSUME JanusInv PROVE InvalidIsRetracted /\ KnowledgeIsLinked
    BY DEF KnowledgeFollows
  <2>1. InvalidIsRetracted
    BY CalmIsTyped DEF JanusInv, Flow, Lone, InvalidIsRetracted
  <2>2. KnowledgeIsLinked
    <3>1. CASE Underway = {}
      BY <3>1, CalmIsTyped DEF JanusInv, Flow, Lone, KnowledgeIsLinked
    <3>2. ASSUME NEW q \in Underway PROVE KnowledgeIsLinked
      <4>1. torn = Memories \/ Lone(corrector[q])
        BY DEF JanusInv, Flow
      <4>2. q \in Correctors
        BY DEF Underway
      <4> QED
        BY <4>1, <4>2, Facts DEF JanusInv, Lone, KnowledgeIsLinked, Doing, Records
    <3> QED
      BY <3>1, <3>2
  <2> QED
    BY <2>1, <2>2
<1> QED
  BY <1>1, JanusInvHolds, PTL

\* What was declined undisturbed stays skipped and what was corrected is not offered
\* again, whatever requests come later, short of one that accepts (service.py).
THEOREM RefusalsStay == JanusSpec => []RefusalStays
<1>1. JanusInv => RefusalStays
  BY DEF JanusInv
<1> QED
  BY <1>1, JanusInvHolds, PTL

-----------------------------------------------------------------------------
(***************************************************************************)
(* JanusDeepDive: the inductive invariant.                                 *)
(***************************************************************************)

Places == {"off", "looked", "gathering", "recorded"}

\* Executions that have looked at an approval and not recorded a result yet.
PendingIn(ex) == {x \in Executors : ex[x] \in {"looked", "gathering"}}

\* An approval that no execution has looked at.
LeftIn(d, ex) == IF d = "approved" /\ \A x \in Executors : ex[x] # "looked" THEN 1 ELSE 0

\* Every approval, and every look at one that another execution was looking at, is used
\* up by a result or an execution, or still there.
ApprovalsSuffice ==
    gathered + Cardinality(PendingIn(executor)) + LeftIn(dive, executor) <= approved + shared

\* An execution that has recorded its result may rely on it unless results were deleted.
ExecutorsAgree == \A x \in Executors : executor[x] = "recorded" => results > 0 \/ trimmed

\* Without a row, the results that are there or to come are the ones its deletion left.
DeletionAccounts ==
    dive = "none" => results + Cardinality(PendingIn(executor)) <= spared

DiveInv == /\ DiveTypeOK /\ IsFiniteSet(PendingIn(executor)) /\ ApprovalsSuffice
           /\ ExecutorsAgree /\ CompletedHasResult /\ DeletionAccounts

-----------------------------------------------------------------------------
\* How the cardinality of a set follows one element that comes, goes or stays.
LEMMA OneElement ==
    ASSUME NEW old, NEW new, NEW x, IsFiniteSet(old),
           \A y : y # x => (y \in new <=> y \in old)
    PROVE  /\ IsFiniteSet(new) /\ Cardinality(old) \in Nat /\ Cardinality(new) \in Nat
           /\ x \in old /\ x \in new => Cardinality(new) = Cardinality(old)
           /\ x \in old /\ x \notin new => Cardinality(new) = Cardinality(old) - 1
           /\ x \notin old /\ x \in new => Cardinality(new) = Cardinality(old) + 1
           /\ x \notin old /\ x \notin new => Cardinality(new) = Cardinality(old)
<1>1. Cardinality(old) \in Nat
  BY FS_CardinalityType
<1>2. CASE x \in old <=> x \in new
  <2>1. new = old
    BY <1>2
  <2> QED
    BY <1>1, <1>2, <2>1
<1>3. CASE x \notin old /\ x \in new
  <2>1. new = old \cup {x}
    BY <1>3
  <2>2. IsFiniteSet(new) /\ Cardinality(new) = Cardinality(old) + 1
    BY <2>1, <1>3, FS_AddElement
  <2> QED
    BY <1>1, <1>3, <2>2
<1>4. CASE x \in old /\ x \notin new
  <2>1. new = old \ {x}
    BY <1>4
  <2>2. IsFiniteSet(new) /\ Cardinality(new) = Cardinality(old) - 1
    BY <2>1, <1>4, FS_RemoveElement
  <2>3. Cardinality(new) \in Nat
    BY <2>2, FS_CardinalityType
  <2> QED
    BY <1>1, <1>4, <2>2, <2>3
<1> QED
  BY <1>2, <1>3, <1>4

LEMMA DiveInvInit == DiveInit => DiveInv
<1> SUFFICES ASSUME DiveInit PROVE DiveInv
  OBVIOUS
<1> USE DeepDiveConstants DEF DiveInit
<1>1. PendingIn(executor) = {}
  BY DEF PendingIn
<1>2. IsFiniteSet(PendingIn(executor)) /\ Cardinality(PendingIn(executor)) = 0
  BY <1>1, FS_EmptySet
<1>3. DiveTypeOK
  <2>1. executor \in [Executors -> {"off", "looked", "gathering", "recorded"}]
    OBVIOUS
  <2>2. results \in 0..gathered /\ asked \in 0..MaxAsked /\ approved \in 0..MaxApproved
        /\ deaths \in 0..MaxDeaths
    OBVIOUS
  <2> QED
    BY <2>1, <2>2 DEF DiveTypeOK
<1>4. ApprovalsSuffice
  BY <1>2 DEF ApprovalsSuffice, LeftIn
<1>5. ExecutorsAgree /\ CompletedHasResult /\ DeletionAccounts
  BY <1>2 DEF ExecutorsAgree, CompletedHasResult, DeletionAccounts
<1> QED
  BY <1>2, <1>3, <1>4, <1>5 DEF DiveInv

\* Requests of clients leave the executions alone; approvals come with them, and rows
\* and results go.
LEMMA ClientStep ==
    ASSUME DiveInv, RequestDive \/ ApproveDive \/ RejectDive \/ DeleteDive \/ DeleteInPart
    PROVE  DiveInv'
<1> USE DeepDiveConstants
<1>1. executor' = executor /\ gathered' = gathered /\ shared' = shared /\ deaths' = deaths
  BY DEF RequestDive, ApproveDive, RejectDive, DeleteDive, DeleteInPart
<1>2. PICK n \in Nat : n = Cardinality(PendingIn(executor))
  BY FS_CardinalityType DEF DiveInv
<1>3. /\ PendingIn(executor)' = PendingIn(executor) /\ Cardinality(Pending) = n
      /\ IsFiniteSet(PendingIn(executor))'
  BY <1>1, <1>2 DEF DiveInv, PendingIn, Pending
<1>4. /\ gathered \in Nat /\ results \in Nat /\ results <= gathered /\ approved \in Nat
      /\ shared \in Nat /\ spared \in Nat /\ trimmed \in BOOLEAN
      /\ dive \in DiveStatuses \cup {"none"}
  BY DEF DiveInv, DiveTypeOK
<1>5. /\ results' \in 0..results /\ spared' \in Nat /\ trimmed' \in BOOLEAN
      /\ (trimmed => trimmed') /\ (results' = results \/ results = 0 \/ trimmed')
      /\ dive' \in DiveStatuses \cup {"none"}
      /\ dive' = "completed" => dive = "completed" \/ trimmed'
      /\ dive' = "none" => results' + n <= spared'
      /\ dive' = "approved" => approved' = approved + 1 \/ (dive = "approved" /\ approved' = approved)
      /\ approved' \in {approved, approved + 1}
  <2>1. CASE RequestDive
    <3>1. /\ results' = results /\ spared' = 0 /\ dive' \in DiveStatuses
          /\ IF dive' = "approved" THEN approved' = approved + 1 ELSE approved' = approved
      BY <2>1 DEF RequestDive
    <3>2. trimmed' \in BOOLEAN /\ (trimmed => trimmed') /\ (dive' = "completed" => trimmed')
      BY Zenon, <1>4, <2>1 DEF RequestDive
    <3>3. dive' # "none"
      BY <3>1 DEF DiveStatuses
    <3> QED
      BY <1>4, <3>1, <3>2, <3>3
  <2>2. CASE ApproveDive \/ RejectDive
    BY <1>4, <2>2 DEF ApproveDive, RejectDive, DiveStatuses
  <2>3. CASE DeleteDive
    <3>1. /\ results' = 0 /\ spared' = n /\ dive' = "none" /\ approved' = approved
          /\ results = 0 \/ results > 0
      BY <1>3, <1>4, <2>3 DEF DeleteDive
    <3>2. trimmed' \in BOOLEAN /\ (trimmed => trimmed') /\ (results > 0 => trimmed')
      BY Zenon, <2>3 DEF DeleteDive
    <3> QED
      BY <1>2, <1>4, <3>1, <3>2
  <2>4. CASE DeleteInPart
    <3>1. results' \in 0..results /\ spared' = IF dive' = "none" THEN results' + n ELSE 0
      BY <1>3, <2>4 DEF DeleteInPart
    <3>2. /\ dive' \in {dive, "none"} /\ approved' = approved
          /\ results' = results \/ results' < results
      BY <1>4, <2>4 DEF DeleteInPart
    <3>3. trimmed' \in BOOLEAN /\ (trimmed => trimmed') /\ (results' < results => trimmed')
      BY Zenon, <2>4 DEF DeleteInPart
    <3> QED
      BY <1>2, <1>4, <3>1, <3>2, <3>3
  <2> QED
    BY <2>1, <2>2, <2>3, <2>4
<1>6. DiveTypeOK'
  <2>1. asked' \in 0..MaxAsked /\ approved' \in 0..MaxApproved /\ (asked' = 0 => dive' = "none")
    BY DEF DiveInv, DiveTypeOK, RequestDive, ApproveDive, RejectDive, DeleteDive, DeleteInPart
  <2>2. executor \in [Executors -> {"off", "looked", "gathering", "recorded"}] /\ deaths \in 0..MaxDeaths
    BY DEF DiveInv, DiveTypeOK
  <2> QED
    BY <1>1, <1>4, <1>5, <2>1, <2>2 DEF DiveTypeOK
<1>7. ApprovalsSuffice'
  <2>1. /\ LeftIn(dive, executor) \in {0, 1} /\ LeftIn(dive, executor)' \in {0, 1}
        /\ LeftIn(dive, executor)' = 1 => LeftIn(dive, executor) = 1 \/ approved' = approved + 1
    BY <1>1, <1>5 DEF LeftIn
  <2>2. gathered + n + LeftIn(dive, executor) <= approved + shared
    BY <1>2 DEF DiveInv, ApprovalsSuffice
  <2>3. gathered + n + LeftIn(dive, executor)' <= approved' + shared
    BY <1>2, <1>4, <1>5, <2>1, <2>2
  <2> QED
    BY <1>1, <1>2, <1>3, <2>3 DEF ApprovalsSuffice
<1>8. ExecutorsAgree' /\ CompletedHasResult'
  <2>1. results > 0 \/ trimmed => results' > 0 \/ trimmed'
    <3>1. results' = results \/ results = 0 \/ trimmed'
      BY Zenon, <1>5
    <3>2. trimmed => trimmed'
      BY Zenon, <1>5
    <3>3. ~(0 > 0)
      OBVIOUS
    <3> QED
      BY Zenon, <3>1, <3>2, <3>3
  <2> QED
    BY <1>1, <1>5, <2>1 DEF DiveInv, ExecutorsAgree, CompletedHasResult
<1>9. DeletionAccounts'
  BY <1>1, <1>2, <1>3, <1>5 DEF DeletionAccounts
<1> QED
  BY <1>3, <1>6, <1>7, <1>8, <1>9 DEF DiveInv

\* What an execution does to the approvals: it uses one up, records a result for one,
\* or gives one up.
LEMMA ExecutorStep ==
    ASSUME DiveInv, NEW x \in Executors,
           LookAtStatus(x) \/ StartDive(x) \/ RecordResult(x) \/ CompleteDive(x) \/ KillDive(x)
    PROVE  DiveInv'
<1> USE DeepDiveConstants
<1>b. /\ spared' = spared /\ asked' = asked /\ approved' = approved
      /\ dive' \in {dive, "executing", "completed"} /\ (dive' = "none" <=> dive = "none")
      /\ trimmed' = trimmed \/ (trimmed' = FALSE /\ results' = results + 1)
  <2>1. CASE LookAtStatus(x)
    BY <2>1 DEF LookAtStatus
  <2>2. CASE StartDive(x)
    BY <2>2 DEF StartDive, Write
  <2>3. CASE RecordResult(x)
    BY <2>3 DEF RecordResult
  <2>4. CASE CompleteDive(x)
    BY <2>4 DEF CompleteDive, Write
  <2>5. CASE KillDive(x)
    BY <2>5 DEF KillDive
  <2> QED
    BY <2>1, <2>2, <2>3, <2>4, <2>5
<1>a. shared' = shared \/ (shared' = shared + 1 /\ LookAtStatus(x))
  BY DEF LookAtStatus, StartDive, RecordResult, CompleteDive, KillDive
<1>c. \/ gathered' = gathered /\ results' = results
      \/ gathered' = gathered + 1 /\ results' = results + 1 /\ executor[x] = "gathering"
  BY DEF LookAtStatus, StartDive, RecordResult, CompleteDive, KillDive
<1>d. deaths' = deaths \/ (deaths < MaxDeaths /\ deaths' = deaths + 1)
  BY DEF LookAtStatus, StartDive, RecordResult, CompleteDive, KillDive
<1>e. PICK to \in Places : executor' = [executor EXCEPT ![x] = to]
  BY DEF Places, LookAtStatus, StartDive, RecordResult, CompleteDive, KillDive
<1>f. executor' \in [Executors -> Places]
  BY <1>e DEF DiveInv, DiveTypeOK, Places
<1>1. DiveTypeOK'
  <2>1. /\ dive' \in DiveStatuses \cup {"none"} /\ (asked' = 0 => dive' = "none")
        /\ asked' \in 0..MaxAsked /\ approved' \in 0..MaxApproved
    BY <1>b DEF DiveInv, DiveTypeOK, DiveStatuses
  <2>2. gathered' \in Nat /\ results' \in 0..gathered'
    BY <1>c DEF DiveInv, DiveTypeOK
  <2>3. deaths' \in 0..MaxDeaths
    BY <1>d DEF DiveInv, DiveTypeOK
  <2>4. shared' \in Nat /\ spared' \in Nat
    BY <1>a, <1>b DEF DiveInv, DiveTypeOK
  <2>5. trimmed' \in BOOLEAN
    BY Zenon, <1>b DEF DiveInv, DiveTypeOK
  <2> QED
    BY <1>f, <2>1, <2>2, <2>3, <2>4, <2>5 DEF DiveTypeOK, Places
<1>3. executor \in [Executors -> Places]
  BY DEF DiveInv, DiveTypeOK, Places
<1> DEFINE n == Cardinality(PendingIn(executor))
           m == Cardinality(PendingIn(executor'))
<1>4. /\ IsFiniteSet(PendingIn(executor')) /\ n \in Nat /\ m \in Nat
      /\ x \in PendingIn(executor) /\ x \in PendingIn(executor') => m = n
      /\ x \in PendingIn(executor) /\ x \notin PendingIn(executor') => m = n - 1
      /\ x \notin PendingIn(executor) /\ x \in PendingIn(executor') => m = n + 1
      /\ x \notin PendingIn(executor) /\ x \notin PendingIn(executor') => m = n
  <2>1. \A y : y # x => (y \in PendingIn(executor') <=> y \in PendingIn(executor))
    BY <1>3, <1>e DEF PendingIn
  <2>2. IsFiniteSet(PendingIn(executor))
    BY DEF DiveInv
  <2> QED
    BY <2>1, <2>2, OneElement
<1>5. ApprovalsSuffice'
  <2> SUFFICES gathered' + m + LeftIn(dive', executor') <= approved' + shared'
    BY DEF ApprovalsSuffice, PendingIn, LeftIn
  <2>1. approved' = approved
    BY <1>b
  <2>2. gathered + n + LeftIn(dive, executor) <= approved + shared
    BY DEF DiveInv, ApprovalsSuffice
  <2>3. LeftIn(dive, executor) \in {0, 1} /\ LeftIn(dive', executor') \in {0, 1}
    BY DEF LeftIn
  <2>4. gathered \in Nat /\ approved \in Int /\ shared \in Nat
    BY DEF DiveInv, DiveTypeOK
  <2> HIDE DEF n, m
  <2>5. CASE LookAtStatus(x)
    <3>1. x \notin PendingIn(executor) /\ x \in PendingIn(executor') /\ gathered' = gathered
      BY <1>3, <2>5 DEF LookAtStatus, PendingIn
    <3>2. /\ \/ LeftIn(dive, executor) = 1 /\ shared' = shared
             \/ shared' = shared + 1
          /\ LeftIn(dive', executor') = 0
      BY <1>3, <2>5 DEF LookAtStatus, LeftIn, Allowed
    <3>3. m = n + 1
      BY <1>4, <3>1
    <3> QED
      BY <1>4, <2>1, <2>2, <2>3, <2>4, <3>1, <3>2, <3>3
  <2>6. CASE StartDive(x)
    <3>1. x \in PendingIn(executor) /\ x \in PendingIn(executor') /\ gathered' = gathered /\ shared' = shared
      BY <1>3, <2>6 DEF StartDive, PendingIn
    <3>2. LeftIn(dive', executor') = 0
      BY <2>6 DEF StartDive, LeftIn, Write
    <3> QED
      BY <1>4, <2>1, <2>2, <2>3, <2>4, <3>1, <3>2
  <2>7. CASE RecordResult(x)
    <3>1. /\ x \in PendingIn(executor) /\ x \notin PendingIn(executor')
          /\ gathered' = gathered + 1 /\ shared' = shared
      BY <1>3, <2>7 DEF RecordResult, PendingIn
    <3>2. LeftIn(dive', executor') = LeftIn(dive, executor)
      BY <1>3, <2>7 DEF RecordResult, LeftIn
    <3> QED
      BY <1>4, <2>1, <2>2, <2>3, <2>4, <3>1, <3>2
  <2>8. CASE CompleteDive(x)
    <3>1. x \notin PendingIn(executor) /\ x \notin PendingIn(executor') /\ gathered' = gathered /\ shared' = shared
      BY <1>3, <2>8 DEF CompleteDive, PendingIn
    <3>2. LeftIn(dive', executor') = 0
      BY <2>8 DEF CompleteDive, LeftIn, Write
    <3> QED
      BY <1>4, <2>1, <2>2, <2>3, <2>4, <3>1, <3>2
  <2>9. CASE KillDive(x)
    <3>1. x \notin PendingIn(executor') /\ gathered' = gathered /\ shared' = shared
      BY <1>3, <2>9 DEF KillDive, PendingIn
    <3>2. CASE x \in PendingIn(executor)
      BY <1>4, <2>1, <2>2, <2>3, <2>4, <3>1, <3>2
    <3>3. CASE x \notin PendingIn(executor)
      <4>1. LeftIn(dive', executor') = LeftIn(dive, executor)
        BY <1>3, <2>9, <3>3 DEF KillDive, LeftIn, PendingIn
      <4> QED
        BY <1>4, <2>1, <2>2, <2>3, <2>4, <3>1, <3>3, <4>1
    <3> QED
      BY <3>2, <3>3
  <2> QED
    BY <2>5, <2>6, <2>7, <2>8, <2>9
<1>6. ExecutorsAgree'
  <2> SUFFICES ASSUME NEW y \in Executors, executor'[y] = "recorded"
               PROVE  results' > 0 \/ trimmed'
    BY DEF ExecutorsAgree
  <2>1. results \in Nat /\ (results' = results \/ results' > 0)
    BY <1>1, <1>c DEF DiveInv, DiveTypeOK
  <2>2. executor[y] = "recorded" => results > 0 \/ trimmed
    BY DEF DiveInv, ExecutorsAgree
  <2>3. executor[y] = "recorded" \/ results' > 0
    BY <1>3, <2>1 DEF DiveInv, DiveTypeOK, LookAtStatus, StartDive, RecordResult,
                      CompleteDive, KillDive
  <2> QED
    BY <1>b, <2>1, <2>2, <2>3
<1>7. CompletedHasResult'
  <2>1. results \in Nat /\ (results' = results \/ results' > 0)
    BY <1>c DEF DiveInv, DiveTypeOK
  <2>2. dive' = "completed" => dive = "completed" \/ executor[x] = "recorded"
    BY DEF LookAtStatus, StartDive, RecordResult, CompleteDive, KillDive, Write
  <2>3. dive' = "completed" => results > 0 \/ trimmed
    BY <2>2 DEF DiveInv, ExecutorsAgree, CompletedHasResult
  <2> QED
    BY <1>b, <2>1, <2>3 DEF CompletedHasResult
<1>8. DeletionAccounts'
  <2> SUFFICES ASSUME dive' = "none" PROVE results' + m <= spared'
    BY DEF DeletionAccounts, PendingIn
  <2>1. dive = "none" /\ results + n <= spared /\ spared' = spared
    BY <1>b DEF DiveInv, DeletionAccounts
  <2>2. results \in Nat /\ spared \in Nat
    BY DEF DiveInv, DiveTypeOK
  <2>3. \/ m <= n /\ results' = results
        \/ m = n - 1 /\ results' = results + 1
    <3>1. ~LookAtStatus(x)
      BY <2>1 DEF LookAtStatus, Allowed
    <3>2. CASE RecordResult(x)
      <4>1. x \in PendingIn(executor) /\ x \notin PendingIn(executor') /\ results' = results + 1
        BY <1>3, <3>2 DEF RecordResult, PendingIn
      <4> QED
        BY <1>4, <4>1
    <3>3. CASE StartDive(x) \/ CompleteDive(x) \/ KillDive(x)
      <4>1. (x \in PendingIn(executor') => x \in PendingIn(executor)) /\ results' = results
        BY <1>3, <3>3 DEF StartDive, CompleteDive, KillDive, PendingIn
      <4> HIDE DEF n, m
      <4> QED
        BY <1>4, <4>1
    <3> QED
      BY <3>1, <3>2, <3>3
  <2> HIDE DEF n, m
  <2> QED
    BY <1>4, <2>1, <2>2, <2>3
<1> QED
  BY <1>1, <1>4, <1>5, <1>6, <1>7, <1>8 DEF DiveInv, PendingIn

LEMMA DiveInvStep == DiveInv /\ [DiveNext]_diveVars => DiveInv'
<1>1. ASSUME DiveInv, UNCHANGED diveVars PROVE DiveInv'
  BY <1>1 DEF DiveInv, diveVars, DiveTypeOK, PendingIn, ApprovalsSuffice, LeftIn, ExecutorsAgree,
              CompletedHasResult, DeletionAccounts
<1> QED
  BY <1>1, ClientStep, ExecutorStep DEF DiveNext

-----------------------------------------------------------------------------
LEMMA DiveInvHolds == DiveSpec => []DiveInv
  BY DiveInvInit, DiveInvStep, PTL DEF DiveSpec

\* Every row and every execution of a deep dive stays in its range (JanusDeepDive).
THEOREM DiveTypeCorrect == DiveSpec => []DiveTypeOK
<1>1. DiveInv => DiveTypeOK
  BY DEF DiveInv
<1> QED
  BY <1>1, DiveInvHolds, PTL

\* There are no more results than approvals, but for the looks at an approval that
\* another execution was looking at; a completed request has its result unless a client
\* deleted it or said "completed" itself; and behind a deletion there are no more results
\* than it left, however many executions and requests of clients overlap (deep_dive.py
\* execute_approved_deep_dive, service.py janus_privacy_delete).
THEOREM DivesHold == DiveSpec => []DivesAreBacked
<1>1. DiveInv => DivesAreBacked
  <2> SUFFICES ASSUME DiveInv PROVE DivesAreBacked
    OBVIOUS
  <2>1. Cardinality(PendingIn(executor)) \in Nat
    BY FS_CardinalityType DEF DiveInv
  <2>2. LeftIn(dive, executor) \in {0, 1}
    BY DEF LeftIn
  <2>3. /\ gathered \in Nat /\ approved \in Int /\ shared \in Nat
        /\ results \in Nat /\ spared \in Nat
    BY DEF DiveInv, DiveTypeOK
  <2>4. /\ gathered + Cardinality(PendingIn(executor)) + LeftIn(dive, executor)
              <= approved + shared
        /\ dive = "none" => results + Cardinality(PendingIn(executor)) <= spared
    BY DEF DiveInv, ApprovalsSuffice, DeletionAccounts
  <2>5. ResultsAreApproved /\ DeletionIsComplete
    BY <2>1, <2>2, <2>3, <2>4 DEF ResultsAreApproved, DeletionIsComplete
  <2> QED
    BY <2>5 DEF DiveInv, DivesAreBacked
<1> QED
  BY <1>1, DiveInvHolds, PTL
-----------------------------------------------------------------------------
(***************************************************************************)
(* The queue, the memory and the dives side by side, as the run Cognition  *)
(* has them: what moves one of them leaves the others alone, so that       *)
(* whatever is proved of a component holds of it there.                    *)
(***************************************************************************)

LEMMA CognitionInitParts == CognitionInit => Init /\ JanusInit /\ DiveInit
  BY DEF CognitionInit

\* A step of the composition is a step of one component and none of the others.
LEMMA CognitionStepParts ==
    [CognitionNext]_cognitionVars =>
        [Next]_vars /\ [JanusNext]_janusVars /\ [DiveNext]_diveVars
<1> SUFFICES ASSUME [CognitionNext]_cognitionVars
             PROVE  [Next]_vars /\ [JanusNext]_janusVars /\ [DiveNext]_diveVars
  OBVIOUS
<1>1. CASE Next /\ UNCHANGED <<janusVars, diveVars>>
  BY <1>1
<1>2. CASE JanusNext /\ UNCHANGED <<vars, diveVars>>
  BY <1>2
<1>3. CASE DiveNext /\ UNCHANGED <<vars, janusVars>>
  BY <1>3
<1>4. CASE UNCHANGED cognitionVars
  BY <1>4 DEF cognitionVars
<1> QED
  BY <1>1, <1>2, <1>3, <1>4 DEF CognitionNext

\* The queue of the runtime, what users make of a decision and the deep dives behave
\* beside each other as each does alone; they have no state in common.
THEOREM CognitionHasParts == CognitionSpec => Spec /\ JanusSpec /\ DiveSpec
  BY CognitionInitParts, CognitionStepParts, PTL
  DEF CognitionSpec, Spec, JanusSpec, DiveSpec

\* Every column and every local of the three stays in its range, beside the others.
THEOREM CognitionTypeCorrect == CognitionSpec => []CognitionTypeOK
  BY CognitionHasParts, TypeCorrect, JanusTypeCorrect, DiveTypeCorrect, PTL
  DEF CognitionTypeOK
===============================================================================
