-------------------------- MODULE CollectorTickProofs --------------------------
(***************************************************************************)
(* Theorems about CollectorTick, for any set of ticks, any signatures, any *)
(* limits and any bounds.                                                  *)
(***************************************************************************)
EXTENDS CollectorTick, FiniteSetTheorems, TLAPS

-----------------------------------------------------------------------------
(***************************************************************************)
(* The inductive invariant.                                                *)
(***************************************************************************)

Punctual == \A l \in logged : ~Belated(l)

\* The lines that a tick with the state st has behind it, of which it has those of the
\* batch b still to gate; the lines in the log that it has still before it; and those in
\* the log that come before all that it will gate.
Behind(st, b) == (1..st.offset) \ b
Ahead(st, b) == {j \in logged : j > st.offset \/ j \in b}
Done(st, b) == {j \in logged : j <= st.offset /\ \A k \in b : j < k}

\* Of two lines of one signature the tick may take the later one for new.
Outdone(st, b, l) == Enough({m \in Done(st, b) : l < m}, l)

\* What a state knows of the log, in a tick or in the file and however old: each line
\* behind it was judged; its signature is remembered, or it was refused, or so many were
\* stored behind it; what it remembers is in the log, each signature once; and when no
\* line in the log was belated, its count of this minute covers all lines of this minute
\* but those that it has still before it.
Judges(st, b) == \A l \in Behind(st, b) : Judged(l)
Remembers(st, b) ==
    \A l \in Behind(st, b) :
        lineOf[l] \in Sigs => l \in st.sigs \/ refused[l] # {} \/ Outdone(st, b, l)
Recalls(st, b) ==
    /\ st.sigs \subseteq Done(st, b)
    /\ \A k, l \in st.sigs : lineOf[k] = lineOf[l] => k = l
Counts(st, b) == Punctual => perMinute[minute] <= Recent(st) + Cardinality(Ahead(st, b))
Knows(st, b) == Judges(st, b) /\ Remembers(st, b) /\ Recalls(st, b) /\ Counts(st, b)

StatesKnow ==
    /\ stateFile # Broken => Knows(stateFile, {})
    /\ \A r \in Runners : Knows(runner[r].st, runner[r].batch)

\* The batch of a tick is there between the read and the save.
BatchesFit ==
    \A r \in Runners :
        /\ runner[r].pc # "gate" => runner[r].batch = {}
        /\ runner[r].pc \in {"idle", "read"} => runner[r].stored = 0
        /\ \A l \in runner[r].batch : l <= runner[r].st.offset /\ lineOf[l] # Junk

\* Refusals say what the line and the log are like.
RefusalsFit ==
    \A l \in Lines :
        /\ refused[l] # {} => l <= written
        /\ "private" \in refused[l] => lineOf[l] = Private
LogFits == \A l \in logged : lineOf[l] \in Sigs

\* A line comes into the log when all before it have been judged, and those of its
\* signature were refused or forgotten.
LogIsInOrder ==
    \A l \in logged : \A k \in 1..(l - 1) :
        /\ Judged(k)
        /\ lineOf[k] = lineOf[l] => refused[k] # {} \/ Forgotten(k, l)

\* Minutes to come have no lines, this one no more than the log.
MinutesFit ==
    /\ \A m \in 0..MaxMinutes : m > minute => perMinute[m] = 0
    /\ IsFiniteSet(logged) /\ perMinute[minute] <= Cardinality(logged)

TickInv == /\ TickTypeOK /\ StatesKnow /\ BatchesFit /\ RefusalsFit /\ LogFits /\ LogIsInOrder
           /\ DuplicatesAreStored /\ MinutesFit /\ BudgetIsKept

-----------------------------------------------------------------------------
(***************************************************************************)
(* About the operators.                                                    *)
(***************************************************************************)

LEMMA HasLeast ==
    ASSUME NEW S \in SUBSET Nat, S # {}
    PROVE  \E x \in S : \A y \in S : x <= y
<1> DEFINE R == OpToRel(<, Nat)
<1>1. IsWellFoundedOn(R, Nat)
  BY NatLessThanWellFounded
<1>2. \A x, y \in Nat : y < x => <<y, x>> \in R
  BY DEF OpToRel
<1> HIDE DEF R
<1>3. PICK x \in S : \A y \in S : ~(<<y, x>> \in R)
  BY <1>1, WFMin
<1>4. \A y \in S : ~(y < x)
  BY <1>2, <1>3
<1> QED
  BY <1>4

LEMMA FirstIsLeast ==
    ASSUME NEW S \in SUBSET Nat, S # {}
    PROVE  FirstOf(S) \in S /\ \A k \in S : FirstOf(S) <= k
BY HasLeast DEF FirstOf

LEMMA ThreeApart == Junk # Private /\ Junk # Poison /\ Private # Poison
<1> SUFFICES ASSUME Junk = Private \/ Junk = Poison \/ Private = Poison
             PROVE  FALSE
  OBVIOUS
<1>1. PICK a, b : {Junk, Private, Poison} = {a} \cup {b}
  <2>1. CASE Junk = Private
    BY <2>1
  <2>2. CASE Junk = Poison
    BY <2>2
  <2>3. CASE Private = Poison
    BY <2>3
  <2> QED
    BY <2>1, <2>2, <2>3
<1>2. IsFiniteSet({a}) /\ Cardinality({a}) = 1
  BY FS_Singleton
<1>3. Cardinality({a} \cup {b}) <= 2
  BY <1>2, FS_AddElement
<1> QED
  BY <1>1, <1>3, TickConstants DEF TickConstants

LEMMA ReadUpToFits ==
    ASSUME NEW r, runner[r].st.offset \in 0..written, written \in Nat
    PROVE  /\ ReadUpTo(r) \in runner[r].st.offset..written
           /\ ReadUpTo(r) = written \/ ReadUpTo(r) > runner[r].st.offset
<1> DEFINE o == runner[r].st.offset
           events(n) == {l \in Passed(r, n) : Legible(l)}
           Fits(n) == \/ n = written /\ Cardinality(events(n)) <= MaxRead
                      \/ Cardinality(events(n)) = MaxRead /\ n > 0 /\ Legible(n)
<1>0. MaxRead \in Nat /\ MaxRead > 0
  BY TickConstants
<1>1. \A n \in o..written : IsFiniteSet(events(n)) /\ Cardinality(events(n)) \in Nat
  <2> SUFFICES ASSUME NEW n \in o..written
               PROVE  IsFiniteSet(events(n)) /\ Cardinality(events(n)) \in Nat
    OBVIOUS
  <2>1. IsFiniteSet((o + 1)..n)
    BY FS_Interval
  <2>2. events(n) \subseteq (o + 1)..n
    BY DEF Passed
  <2>3. IsFiniteSet(events(n))
    BY <2>1, <2>2, FS_Subset
  <2> QED
    BY <2>3, FS_CardinalityType
<1>2. \E n \in o..written : Fits(n)
  <2>1. CASE Cardinality(events(written)) <= MaxRead
    BY <2>1
  <2>2. CASE Cardinality(events(written)) > MaxRead
    <3> DEFINE S == {n \in o..written : Cardinality(events(n)) >= MaxRead}
    <3>1. S \subseteq Nat /\ written \in S
      BY <2>2, <1>0, <1>1
    <3>2. PICK n \in S : \A m \in S : n <= m
      BY <3>1, HasLeast
    <3>3. n \in o..written /\ Cardinality(events(n)) >= MaxRead
      OBVIOUS
    <3>4. n # o
      <4> SUFFICES ASSUME n = o PROVE FALSE
        OBVIOUS
      <4>1. events(o) = {}
        BY DEF Passed
      <4>2. Cardinality({}) = 0
        BY FS_EmptySet
      <4> QED
        BY <4>1, <4>2, <3>3, <1>0
    <3>5. n - 1 \in o..written /\ n > 0
      BY <3>3, <3>4
    <3>6. ~(Cardinality(events(n - 1)) >= MaxRead)
      <4>1. n - 1 \notin S
        BY <3>2, <3>5
      <4> QED
        BY <4>1, <3>5
    <3>7. Passed(r, n) = Passed(r, n - 1) \cup {n}
      BY <3>3, <3>4 DEF Passed
    <3>8. Legible(n)
      <4> SUFFICES ASSUME ~Legible(n) PROVE FALSE
        OBVIOUS
      <4>1. events(n) = events(n - 1)
        BY <3>7
      <4> QED
        BY <4>1, <3>3, <3>6
    <3>9. events(n) = events(n - 1) \cup {n} /\ n \notin events(n - 1)
      BY <3>7, <3>8, <3>5 DEF Passed
    <3>10. Cardinality(events(n)) = Cardinality(events(n - 1)) + 1
      BY <3>9, <3>5, <1>1, FS_AddElement
    <3> DEFINE a == Cardinality(events(n)) b == Cardinality(events(n - 1))
    <3>11. a \in Nat /\ b \in Nat /\ a = b + 1 /\ a >= MaxRead /\ ~(b >= MaxRead)
      BY <3>10, <3>3, <3>5, <3>6, <1>1
    <3> HIDE DEF a, b
    <3>12. a = MaxRead
      BY <3>11, <1>0
    <3> QED
      BY <3>12, <3>5, <3>8, <3>3 DEF a
  <2> QED
    BY <2>1, <2>2, <1>0, <1>1
<1>3. ReadUpTo(r) = CHOOSE n \in o..written : Fits(n)
  BY DEF ReadUpTo
<1>4. ReadUpTo(r) \in o..written /\ Fits(ReadUpTo(r))
  <2> HIDE DEF Fits
  <2> QED
    BY <1>2, <1>3
<1>5. PICK n \in o..written : n = ReadUpTo(r)
  BY <1>4
<1>6. n = o => events(n) = {}
  BY DEF Passed
<1>7. Cardinality({}) = 0
  BY FS_EmptySet
<1> QED
  BY <1>4, <1>5, <1>6, <1>7, <1>0

\* More lines have more signatures.
LEMMA MoreSignatures ==
    ASSUME NEW S, NEW T, IsFiniteSet(T), S \subseteq T, NEW k, Enough(S, k)
    PROVE  Enough(T, k)
<1> DEFINE A == {lineOf[m] : m \in S}
           B == {lineOf[m] : m \in T}
           g == [m \in T |-> lineOf[m]]
<1>1. g \in Surjection(T, B)
  BY DEF Surjection
<1>2. IsFiniteSet(B)
  BY <1>1, FS_Surjection
<1>3. A \subseteq B
  OBVIOUS
<1> HIDE DEF A, B, g
<1>4. A \ {lineOf[k]} \subseteq B \ {lineOf[k]} /\ IsFiniteSet(B \ {lineOf[k]})
  BY <1>2, <1>3, FS_Subset
<1>5. /\ Cardinality(A \ {lineOf[k]}) <= Cardinality(B \ {lineOf[k]})
      /\ Cardinality(A \ {lineOf[k]}) \in Nat /\ Cardinality(B \ {lineOf[k]}) \in Nat
  BY <1>4, FS_Subset, FS_CardinalityType
<1>6. MaxKept \in Nat
  BY TickConstants DEF TickConstants
<1>7. Cardinality(A \ {lineOf[k]}) >= MaxKept
  BY DEF A, Enough
<1>8. Cardinality(B \ {lineOf[k]}) >= MaxKept
  BY <1>5, <1>6, <1>7
<1> QED
  BY <1>8 DEF B, Enough

\* When the first of too many lines with different signatures is left out, enough others
\* remain.
LEMMA EnoughRemain ==
    ASSUME NEW S \in SUBSET Nat, IsFiniteSet(S), Crowded(S),
           \A k, l \in S : lineOf[k] = lineOf[l] => k = l
    PROVE  /\ FirstOf(S) \in S
           /\ \A k \in S \ {FirstOf(S)} : FirstOf(S) < k
           /\ Enough(S \ {FirstOf(S)}, FirstOf(S))
<1>1. MaxKept \in Nat /\ Cardinality(S) \in Nat /\ Cardinality(S) > MaxKept
  BY TickConstants, FS_CardinalityType DEF TickConstants, Crowded
<1>2. S # {}
  BY <1>1, FS_EmptySet
<1>3. PICK o : o = FirstOf(S)
  OBVIOUS
<1>4. o \in S /\ \A k \in S : o <= k
  BY <1>2, <1>3, FirstIsLeast
<1>5. \A k \in S \ {o} : o < k
  BY <1>4
<1> DEFINE R == S \ {o}
           T == {lineOf[m] : m \in R}
           g == [m \in R |-> lineOf[m]]
<1>6. IsFiniteSet(R) /\ Cardinality(R) = Cardinality(S) - 1
  BY <1>4, FS_RemoveElement
<1>7. g \in Surjection(R, T) /\ g \in Injection(R, T)
  BY DEF Surjection, Injection, IsInjective
<1>8. T \ {lineOf[o]} = T
  BY <1>4
<1> HIDE DEF R, T, g
<1>9. Cardinality(T) = Cardinality(R)
  BY <1>6, <1>7, FS_Surjection
<1>10. Cardinality(T) >= MaxKept
  BY <1>1, <1>6, <1>9
<1>11. Enough(R, o)
  BY <1>8, <1>10 DEF T, Enough
<1> QED
  BY <1>3, <1>4, <1>5, <1>11 DEF R

LEMMA LogIsFinite ==
    ASSUME TickInv
    PROVE  /\ IsFiniteSet(logged)
           /\ \A st, b : /\ IsFiniteSet(Ahead(st, b))
                         /\ Cardinality(Ahead(st, b)) \in Nat
                         /\ Cardinality(Ahead(st, b)) <= Cardinality(logged)
<1>1. IsFiniteSet(logged)
  BY DEF TickInv, MinutesFit
<1>2. ASSUME NEW st, NEW b
      PROVE  /\ IsFiniteSet(Ahead(st, b))
             /\ Cardinality(Ahead(st, b)) \in Nat
             /\ Cardinality(Ahead(st, b)) <= Cardinality(logged)
  <2>1. Ahead(st, b) \subseteq logged
    BY DEF Ahead
  <2> QED
    BY <1>1, <2>1, FS_Subset, FS_CardinalityType
<1> QED
  BY <1>1, <1>2

\* What a state may take for new stays so when more lies behind it.
LEMMA OutdoneStays ==
    ASSUME lineOf' = lineOf, IsFiniteSet(logged'), NEW st, NEW b, NEW q, NEW c,
           Done(st, b) \subseteq Done(q, c)', NEW l, Outdone(st, b, l)
    PROVE  Outdone(q, c, l)'
<1>1. PICK A, B : A = {m \in Done(st, b) : l < m} /\ B = {m \in Done(q, c)' : l < m}
  OBVIOUS
<1>2. A \subseteq B
  BY <1>1
<1>3. IsFiniteSet(B)
  <2>1. B \subseteq logged'
    BY <1>1 DEF Done
  <2> QED
    BY <2>1, FS_Subset
<1>4. Enough(B, l)
  BY <1>1, <1>2, <1>3, MoreSignatures DEF Outdone
<1> QED
  BY <1>1, <1>4 DEF Outdone, Enough

LEMMA BlankKnows ==
    ASSUME TickInv
    PROVE  Knows(Blank, {})
<1>1. Behind(Blank, {}) = {}
  BY DEF Behind, Blank
<1>2. Ahead(Blank, {}) = logged
  <2>1. \A j \in logged : j > 0
    BY TickConstants DEF TickConstants, TickInv, TickTypeOK
  <2>2. Blank.offset = 0
    BY DEF Blank
  <2> QED
    BY <2>1, <2>2 DEF Ahead
<1>3. Recent(Blank) = 0
  BY DEF Recent, Blank
<1>4. perMinute[minute] <= Cardinality(logged) /\ Cardinality(logged) \in Nat
  BY FS_CardinalityType DEF TickInv, MinutesFit
<1>5. Counts(Blank, {})
  BY <1>2, <1>3, <1>4 DEF Counts
<1>6. Judges(Blank, {}) /\ Remembers(Blank, {}) /\ Recalls(Blank, {})
  BY <1>1 DEF Judges, Remembers, Recalls, Blank
<1> QED
  BY <1>5, <1>6 DEF Knows

LEMMA StateTypes ==
    ASSUME TickInv
    PROVE  /\ stateFile # Broken => stateFile \in TickStates
           /\ \A r \in Runners : /\ runner[r].st \in TickStates
                                 /\ runner[r].batch \subseteq 1..written
BY DEF TickInv, TickTypeOK

\* The initial state satisfies the invariant.
LEMMA TickInitInv == TickInit => TickInv
<1> SUFFICES ASSUME TickInit PROVE TickInv
  OBVIOUS
<1> USE TickConstants DEF TickConstants, TickInit
<1>1. TickTypeOK
  <2>1. Blank \in TickStates
    BY DEF Blank, TickStates
  <2>2. Asleep \in [pc : {"idle", "read", "gate", "write"}, st : TickStates,
                    batch : SUBSET (1..written), stored : 0..MaxStored]
    BY <2>1 DEF Asleep
  <2>3. perMinute \in [0..MaxMinutes -> Nat] /\ lineOf \in [Lines -> Sigs \cup {Junk, Private, Poison}]
    OBVIOUS
  <2>4. runner \in [Runners -> [pc : {"idle", "read", "gate", "write"}, st : TickStates,
                               batch : SUBSET (1..written), stored : 0..MaxStored]]
    BY <2>2
  <2>5. refused \in [Lines -> SUBSET Reasons]
    OBVIOUS
  <2>6. half \in BOOLEAN
    OBVIOUS
  <2>7. written \in 0..MaxLines /\ minute \in 0..MaxMinutes /\ breaks \in 0..MaxBreaks
    OBVIOUS
  <2>8. stateFile \in TickStates \cup {Broken} /\ logged \subseteq 1..written
    BY <2>1
  <2> QED
    BY ONLY <2>3, <2>4, <2>5, <2>6, <2>7, <2>8 DEF TickTypeOK
<1>2. IsFiniteSet({}) /\ Cardinality({}) = 0
  BY FS_EmptySet
<1>3. Knows(Blank, {})
  <2>1. Behind(Blank, {}) = {}
    BY DEF Behind, Blank
  <2>2. Ahead(Blank, {}) = {}
    BY DEF Ahead
  <2>3. Counts(Blank, {})
    <3>1. perMinute[minute] = 0 /\ Recent(Blank) = 0
      BY DEF Recent, Blank
    <3>2. Cardinality(Ahead(Blank, {})) = 0
      BY <2>2, <1>2
    <3>3. 0 <= 0 + 0
      OBVIOUS
    <3> QED
      BY ONLY <3>1, <3>2, <3>3 DEF Counts
  <2> QED
    BY <2>1, <2>3 DEF Knows, Judges, Remembers, Recalls, Blank
<1>4. StatesKnow
  BY <1>3 DEF StatesKnow, Asleep
<1>5. BatchesFit
  BY DEF BatchesFit, Asleep
<1>6. RefusalsFit /\ LogFits /\ LogIsInOrder /\ DuplicatesAreStored
  BY DEF RefusalsFit, LogFits, LogIsInOrder, DuplicatesAreStored
<1>7. MinutesFit
  BY <1>2 DEF MinutesFit
<1>8. BudgetIsKept
  BY DEF BudgetIsKept
<1> QED
  BY <1>1, <1>4, <1>5, <1>6, <1>7, <1>8 DEF TickInv

-----------------------------------------------------------------------------
(***************************************************************************)
(* Steps that leave the log alone.                                         *)
(***************************************************************************)

\* A state goes from a tick with nothing left to gate to the file, from the file to a
\* tick, or is lost.
LEMMA StatesMove ==
    ASSUME TickInv, TickTypeOK', BatchesFit',
           UNCHANGED <<written, lineOf, minute, logged, refused, perMinute>>,
           \/ stateFile' = Broken
           \/ stateFile' = stateFile
           \/ \E r \in Runners : runner[r].batch = {} /\ stateFile' = runner[r].st,
           \A r \in Runners :
               \/ runner'[r].st = runner[r].st /\ runner'[r].batch = runner[r].batch
               \/ /\ runner'[r].batch = {}
                  /\ \/ runner'[r].st = Blank
                     \/ stateFile # Broken /\ runner'[r].st = stateFile
    PROVE  TickInv'
<1>1. ASSUME NEW st, NEW b, Knows(st, b)
      PROVE  Knows(st, b)'
  BY <1>1 DEF Knows, Judges, Remembers, Recalls, Counts, Behind, Ahead, Recent,
              Done, Outdone, Enough, Judged, Belated, Punctual
<1>2. Knows(Blank, {})
  BY BlankKnows
<1>3. stateFile' # Broken => Knows(stateFile, {})'
  <2> SUFFICES ASSUME stateFile' # Broken
               PROVE  Knows(stateFile, {})'
    OBVIOUS
  <2>1. PICK st : st = stateFile'
    OBVIOUS
  <2>2. Knows(st, {})
    BY <2>1 DEF TickInv, StatesKnow
  <2>3. Knows(st, {})'
    BY <1>1, <2>2
  <2> QED
    BY <2>1, <2>3 DEF Knows, Judges, Remembers, Recalls, Counts, Behind, Ahead, Recent,
                      Done, Outdone, Enough
<1>4. ASSUME NEW r \in Runners
      PROVE  Knows(runner[r].st, runner[r].batch)'
  <2>1. PICK st, b : st = runner'[r].st /\ b = runner'[r].batch
    OBVIOUS
  <2>2. Knows(st, b)
    BY <2>1, <1>2 DEF TickInv, StatesKnow
  <2>3. Knows(st, b)'
    BY <1>1, <2>2
  <2> QED
    BY <2>1, <2>3 DEF Knows, Judges, Remembers, Recalls, Counts, Behind, Ahead, Recent,
                      Done, Outdone, Enough
<1>5. StatesKnow'
  BY <1>3, <1>4 DEF StatesKnow
<1>6. RefusalsFit' /\ LogFits'
  BY DEF TickInv, RefusalsFit, LogFits
<1>7. LogIsInOrder'
  BY DEF TickInv, LogIsInOrder, Judged, Forgotten, Enough
<1>8. DuplicatesAreStored'
  BY DEF TickInv, DuplicatesAreStored
<1>9. MinutesFit'
  BY DEF TickInv, MinutesFit
<1>10. BudgetIsKept'
  BY DEF TickInv, BudgetIsKept, Belated
<1> QED
  BY <1>5, <1>6, <1>7, <1>8, <1>9, <1>10 DEF TickInv

LEMMA FinishLineInv ==
    ASSUME TickInv, FinishLine
    PROVE  TickInv'
<1>1. TickTypeOK' /\ BatchesFit'
  BY DEF TickInv, TickTypeOK, BatchesFit, FinishLine, tickHistory, TickStates
<1> QED
  BY <1>1, StatesMove DEF FinishLine, tickHistory

LEMMA LoadTickInv ==
    ASSUME TickInv, NEW r \in Runners, LoadTick(r)
    PROVE  TickInv'
<1> USE TickConstants DEF TickConstants
<1>1. Blank \in TickStates
  BY DEF TickInv, TickTypeOK, Blank, TickStates
<1>2. runner' = [runner EXCEPT ![r] = runner'[r]]
  BY DEF LoadTick, TickInv, TickTypeOK
<1>3. /\ runner'[r].pc = "read" /\ runner'[r].batch = {} /\ runner'[r].stored = 0
      /\ runner'[r].st = IF stateFile = Broken THEN Blank ELSE stateFile
      /\ DOMAIN runner'[r] = {"pc", "st", "batch", "stored"}
  BY DEF LoadTick, TickInv, TickTypeOK, Asleep
<1>4. runner'[r].st \in TickStates
  BY <1>1, <1>3 DEF TickInv, TickTypeOK
<1>5. runner'[r] \in [pc : {"idle", "read", "gate", "write"}, st : TickStates,
                      batch : SUBSET (1..written), stored : 0..MaxStored]
  <2> DEFINE st == IF stateFile = Broken THEN Blank ELSE stateFile
  <2>1. runner'[r] = [pc |-> "read", st |-> st, batch |-> {}, stored |-> 0]
    BY DEF LoadTick, TickInv, TickTypeOK, Asleep
  <2>2. st \in TickStates
    BY <1>1 DEF TickInv, TickTypeOK
  <2> HIDE DEF st
  <2> QED
    BY <2>1, <2>2
<1>6. TickTypeOK'
  BY <1>2, <1>5 DEF TickInv, TickTypeOK, LoadTick, tickHistory, TickStates
<1>7. BatchesFit'
  BY <1>2, <1>3 DEF TickInv, TickTypeOK, BatchesFit, LoadTick
<1>8. \A s \in Runners :
        \/ runner'[s].st = runner[s].st /\ runner'[s].batch = runner[s].batch
        \/ /\ runner'[s].batch = {}
           /\ \/ runner'[s].st = Blank
              \/ stateFile # Broken /\ runner'[s].st = stateFile
  BY <1>2, <1>3 DEF TickInv, TickTypeOK
<1> QED
  BY <1>6, <1>7, <1>8, StatesMove DEF LoadTick, tickHistory

\* What the three steps share that end a tick.
LEMMA AsleepFits ==
    ASSUME TickInv, NEW r \in Runners, runner' = [runner EXCEPT ![r] = Asleep],
           UNCHANGED <<written, lineOf, minute>>
    PROVE  /\ BatchesFit'
           /\ runner' \in [Runners -> [pc : {"idle", "read", "gate", "write"}, st : TickStates,
                             batch : SUBSET (1..written), stored : 0..MaxStored]]
           /\ \A s \in Runners :
                \/ runner'[s].st = runner[s].st /\ runner'[s].batch = runner[s].batch
                \/ runner'[s].batch = {} /\ runner'[s].st = Blank
<1> USE TickConstants DEF TickConstants
<1>1. Blank \in TickStates
  BY DEF TickInv, TickTypeOK, Blank, TickStates
<1>2. Asleep \in [pc : {"idle", "read", "gate", "write"}, st : TickStates,
                  batch : SUBSET (1..written), stored : 0..MaxStored]
  BY <1>1 DEF Asleep
<1>3. Asleep.pc = "idle" /\ Asleep.batch = {} /\ Asleep.stored = 0 /\ Asleep.st = Blank
  BY DEF Asleep
<1>4. BatchesFit'
  BY <1>3 DEF TickInv, TickTypeOK, BatchesFit
<1> QED
  BY <1>2, <1>3, <1>4 DEF TickInv, TickTypeOK

LEMMA RejectLineInv ==
    ASSUME TickInv, NEW r \in Runners, NEW l \in Lines, RejectLine(r, l)
    PROVE  TickInv'
<1>1. TickTypeOK'
  BY AsleepFits DEF TickInv, TickTypeOK, RejectLine, tickHistory, TickStates
<1> QED
  BY <1>1, AsleepFits, StatesMove DEF RejectLine, tickHistory

LEMMA BreakTickInv ==
    ASSUME TickInv, NEW r \in Runners, BreakTick(r)
    PROVE  TickInv'
<1> USE TickConstants DEF TickConstants
<1>0. breaks' \in 0..MaxBreaks
  BY DEF TickInv, TickTypeOK, BreakTick
<1>1. TickTypeOK'
  BY <1>0, AsleepFits DEF TickInv, TickTypeOK, BreakTick, TickStates
<1> QED
  BY <1>1, AsleepFits, StatesMove DEF BreakTick

LEMMA OpenFileInv ==
    ASSUME TickInv, NEW r \in Runners, OpenFile(r)
    PROVE  TickInv'
<1>1. /\ runner'[r] = [runner[r] EXCEPT !.pc = "write"]
      /\ \A s \in Runners : s # r => runner'[s] = runner[s]
  BY DEF OpenFile, TickInv, TickTypeOK
<1>2. runner' \in [Runners -> [pc : {"idle", "read", "gate", "write"}, st : TickStates,
                             batch : SUBSET (1..written), stored : 0..MaxStored]]
  <2>1. runner' = [runner EXCEPT ![r].pc = "write"]
    BY DEF OpenFile
  <2>2. runner \in [Runners -> [pc : {"idle", "read", "gate", "write"}, st : TickStates,
                               batch : SUBSET (1..written), stored : 0..MaxStored]]
    BY DEF TickInv, TickTypeOK
  <2> QED
    BY ONLY <2>1, <2>2
<1>3. TickTypeOK'
  BY <1>2 DEF TickInv, TickTypeOK, OpenFile, tickHistory, TickStates
<1>4. runner'[r].pc = "write" /\ runner'[r].batch = {} /\ runner'[r].st = runner[r].st
  BY <1>1 DEF OpenFile, TickInv, TickTypeOK
<1>5. BatchesFit'
  BY <1>1, <1>4 DEF TickInv, TickTypeOK, BatchesFit, OpenFile
<1>6. \A s \in Runners : runner'[s].st = runner[s].st /\ runner'[s].batch = runner[s].batch
  BY <1>1, <1>4 DEF OpenFile
<1> QED
  BY <1>3, <1>5, <1>6, StatesMove DEF OpenFile, tickHistory

LEMMA FillFileInv ==
    ASSUME TickInv, NEW r \in Runners, FillFile(r)
    PROVE  TickInv'
<1>1. runner[r].batch = {} /\ runner[r].st \in TickStates
  BY StateTypes DEF TickInv, BatchesFit, FillFile
<1>2. TickTypeOK'
  BY <1>1, AsleepFits DEF TickInv, TickTypeOK, FillFile, tickHistory, TickStates
<1>3. stateFile' = Broken \/ \E s \in Runners : runner[s].batch = {} /\ stateFile' = runner[s].st
  BY <1>1 DEF FillFile
<1> QED
  BY <1>2, <1>3, AsleepFits, StatesMove DEF FillFile, tickHistory

-----------------------------------------------------------------------------
(***************************************************************************)
(* Time and the spool.                                                     *)
(***************************************************************************)

\* In a new minute no state counts anything, and no line of it is stored.
LEMMA PassMinuteInv ==
    ASSUME TickInv, PassMinute
    PROVE  TickInv'
<1> USE TickConstants DEF TickConstants
<1>0. /\ minute \in Nat /\ minute' \in 0..MaxMinutes /\ minute' > minute
      /\ TickStates \subseteq TickStates'
  BY DEF TickInv, TickTypeOK, PassMinute, TickStates
<1>1. TickTypeOK'
  BY <1>0 DEF TickInv, TickTypeOK, PassMinute, tickHistory
<1>2. \A m \in 0..MaxMinutes : m > minute' => perMinute'[m] = 0
  BY <1>0 DEF TickInv, MinutesFit, PassMinute, tickHistory
<1>3. perMinute'[minute'] = 0
  BY <1>0 DEF TickInv, MinutesFit, PassMinute, tickHistory
<1>4. IsFiniteSet(logged') /\ Cardinality(logged') \in Nat
  BY LogIsFinite, FS_CardinalityType DEF PassMinute
<1>5. MinutesFit'
  BY <1>2, <1>3, <1>4 DEF MinutesFit
<1>6. ASSUME NEW st, NEW b, Knows(st, b), st \in TickStates
      PROVE  Knows(st, b)'
  <2>1. Recent(st)' \in Nat
    BY <1>6 DEF Recent, TickStates
  <2>2. Cardinality(Ahead(st, b))' \in Nat
    BY LogIsFinite DEF Ahead, PassMinute
  <2>3. Counts(st, b)'
    BY <2>1, <2>2, <1>3 DEF Counts
  <2> QED
    BY <1>6, <2>3 DEF PassMinute, tickHistory, Knows, Judges, Remembers, Recalls, Behind,
                      Judged, Done, Outdone, Enough
<1>7. stateFile' # Broken => Knows(stateFile, {})'
  <2> SUFFICES ASSUME stateFile' # Broken
               PROVE  Knows(stateFile, {})'
    OBVIOUS
  <2>1. PICK st : st = stateFile
    OBVIOUS
  <2>2. Knows(st, {}) /\ st \in TickStates
    BY <2>1, StateTypes DEF TickInv, StatesKnow, PassMinute
  <2>3. Knows(st, {})'
    BY <1>6, <2>2
  <2>4. stateFile' = st
    BY <2>1 DEF PassMinute
  <2> QED
    BY ONLY <2>4, <2>3 DEF Knows, Judges, Remembers, Recalls, Counts, Behind, Ahead, Recent,
                      Done, Outdone, Enough
<1>8. ASSUME NEW r \in Runners
      PROVE  Knows(runner[r].st, runner[r].batch)'
  <2>1. PICK st, b : st = runner[r].st /\ b = runner[r].batch
    OBVIOUS
  <2>2. Knows(st, b) /\ st \in TickStates
    BY <2>1, StateTypes DEF TickInv, StatesKnow
  <2>3. Knows(st, b)'
    BY <1>6, <2>2
  <2>4. st = runner'[r].st /\ b = runner'[r].batch
    BY <2>1 DEF PassMinute
  <2> QED
    BY ONLY <2>4, <2>3 DEF Knows, Judges, Remembers, Recalls, Counts, Behind, Ahead, Recent,
                      Done, Outdone, Enough
<1>9. StatesKnow'
  BY <1>7, <1>8 DEF StatesKnow
<1>10. BatchesFit' /\ RefusalsFit' /\ LogFits'
  BY DEF TickInv, BatchesFit, RefusalsFit, LogFits, PassMinute, tickHistory
<1>11. LogIsInOrder' /\ DuplicatesAreStored' /\ BudgetIsKept'
  <2>1. UNCHANGED <<lineOf, logged, refused, perMinute>>
    BY DEF PassMinute, tickHistory
  <2>2. \A k, l : Forgotten(k, l)' = Forgotten(k, l)
    BY <2>1 DEF Forgotten, Enough
  <2>3. LogIsInOrder'
    BY <2>1, <2>2 DEF TickInv, LogIsInOrder, Judged
  <2> QED
    BY <2>1, <2>3 DEF TickInv, DuplicatesAreStored, BudgetIsKept, Belated
<1> QED
  BY <1>1, <1>5, <1>9, <1>10, <1>11 DEF TickInv

\* A new line is in no state, in no batch and in no history.
LEMMA AppendLineInv ==
    ASSUME TickInv, AppendLine
    PROVE  TickInv'
<1> USE TickConstants DEF TickConstants
<1>0. /\ written \in Nat /\ written' = written + 1 /\ written' \in Lines
      /\ \A k \in 1..written : k \in Lines /\ lineOf'[k] = lineOf[k]
      /\ TickStates \subseteq TickStates'
  BY DEF TickInv, TickTypeOK, AppendLine, TickStates, Lines
<1>1. TickTypeOK'
  <2>1. PICK x \in Contents : lineOf' = [lineOf EXCEPT ![written'] = x]
    BY DEF AppendLine
  <2>2. lineOf' \in [Lines -> Sigs \cup {Junk, Private, Poison}]
    BY <2>1 DEF TickInv, TickTypeOK
  <2>3. 1..written \subseteq 1..written' /\ written' \in 0..MaxLines
    BY <1>0 DEF Lines
  <2>4. \A r \in Runners :
           runner[r] \in [pc : {"idle", "read", "gate", "write"}, st : TickStates',
                          batch : SUBSET (1..written'), stored : 0..MaxStored]
    BY <1>0, <2>3 DEF TickInv, TickTypeOK
  <2>5. runner' \in [Runners -> [pc : {"idle", "read", "gate", "write"}, st : TickStates',
                              batch : SUBSET (1..written'), stored : 0..MaxStored]]
    BY <2>4 DEF AppendLine, TickInv, TickTypeOK
  <2> QED
    BY <1>0, <2>2, <2>3, <2>5 DEF TickInv, TickTypeOK, AppendLine, tickHistory
<1>2. ASSUME NEW st, NEW b, Knows(st, b), st \in TickStates
      PROVE  Knows(st, b)'
  <2>1. Behind(st, b) \subseteq 1..written
    BY <1>0, <1>2 DEF Behind, TickStates
  <2>2. logged \subseteq 1..written
    BY DEF TickInv, TickTypeOK
  <2>3. UNCHANGED <<logged, refused, minute, perMinute>>
    BY DEF AppendLine, tickHistory
  <2>4. Judges(st, b)' /\ Counts(st, b)'
    BY <1>2, <2>3 DEF Knows, Judges, Counts, Behind, Judged, Belated, Ahead, Recent, Punctual
  <2>5. Done(st, b)' = Done(st, b) /\ Done(st, b) \subseteq 1..written
    BY <2>2, <2>3 DEF Done
  <2>6. ASSUME NEW l \in Behind(st, b)
        PROVE  Outdone(st, b, l)' = Outdone(st, b, l)
    <3>1. PICK A : A = {m \in Done(st, b) : l < m}
      OBVIOUS
    <3>2. {lineOf'[m] : m \in A} = {lineOf[m] : m \in A} /\ lineOf'[l] = lineOf[l]
      BY <1>0, <2>1, <2>5, <2>6, <3>1
    <3> QED
      BY <2>5, <3>1, <3>2 DEF Outdone, Enough
  <2>7. Remembers(st, b)'
    BY <1>0, <1>2, <2>1, <2>3, <2>6 DEF Knows, Remembers, Behind
  <2>8. Recalls(st, b)'
    BY <1>0, <1>2, <2>5 DEF Knows, Recalls
  <2> QED
    BY <2>4, <2>7, <2>8 DEF Knows
<1>7. stateFile' # Broken => Knows(stateFile, {})'
  <2> SUFFICES ASSUME stateFile' # Broken
               PROVE  Knows(stateFile, {})'
    OBVIOUS
  <2>1. PICK st : st = stateFile
    OBVIOUS
  <2>2. Knows(st, {}) /\ st \in TickStates
    BY <2>1, StateTypes DEF TickInv, StatesKnow, AppendLine
  <2>3. Knows(st, {})'
    BY <1>2, <2>2
  <2>4. stateFile' = st
    BY <2>1 DEF AppendLine
  <2> QED
    BY ONLY <2>4, <2>3 DEF Knows, Judges, Remembers, Recalls, Counts, Behind, Ahead, Recent,
                      Done, Outdone, Enough
<1>8. ASSUME NEW r \in Runners
      PROVE  Knows(runner[r].st, runner[r].batch)'
  <2>1. PICK st, b : st = runner[r].st /\ b = runner[r].batch
    OBVIOUS
  <2>2. Knows(st, b) /\ st \in TickStates
    BY <2>1, StateTypes DEF TickInv, StatesKnow
  <2>3. Knows(st, b)'
    BY <1>2, <2>2
  <2>4. st = runner'[r].st /\ b = runner'[r].batch
    BY <2>1 DEF AppendLine
  <2> QED
    BY ONLY <2>4, <2>3 DEF Knows, Judges, Remembers, Recalls, Counts, Behind, Ahead, Recent,
                      Done, Outdone, Enough
<1>9. StatesKnow'
  BY <1>7, <1>8 DEF StatesKnow
<1>10. BatchesFit'
  BY <1>0, StateTypes DEF TickInv, BatchesFit, AppendLine
<1>11. RefusalsFit'
  <2> SUFFICES ASSUME NEW l \in Lines
               PROVE  /\ refused'[l] # {} => l <= written'
                      /\ "private" \in refused'[l] => lineOf'[l] = Private
    BY DEF RefusalsFit
  <2>1. refused'[l] = refused[l] /\ l \in Nat /\ l > 0
    BY DEF AppendLine, tickHistory, Lines
  <2>2. refused[l] # {} => l \in 1..written
    BY <1>0, <2>1 DEF TickInv, RefusalsFit
  <2>3. refused[l] # {} => l <= written'
    BY <1>0, <2>2
  <2>4. "private" \in refused[l] => lineOf'[l] = Private
    BY <1>0, <2>2 DEF TickInv, RefusalsFit
  <2> QED
    BY <2>1, <2>3, <2>4
<1>12. LogFits' /\ LogIsInOrder'
  <2>1. \A l \in logged : l \in 1..written /\ \A k \in 1..(l - 1) : k \in 1..written
    BY <1>0 DEF TickInv, TickTypeOK
  <2>2. UNCHANGED <<logged, refused>>
    BY DEF AppendLine, tickHistory
  <2>3. ASSUME NEW l \in logged, NEW k \in 1..(l - 1)
        PROVE  Forgotten(k, l)' = Forgotten(k, l)
    <3>1. PICK A : A = {m \in logged : k < m /\ m < l}
      OBVIOUS
    <3>2. {lineOf'[m] : m \in A} = {lineOf[m] : m \in A} /\ lineOf'[k] = lineOf[k]
      BY <1>0, <2>1, <2>3, <3>1
    <3> QED
      BY <2>2, <3>1, <3>2 DEF Forgotten, Enough
  <2>4. LogFits'
    BY <1>0, <2>1, <2>2 DEF TickInv, LogFits
  <2>5. LogIsInOrder'
    BY <1>0, <2>1, <2>2, <2>3 DEF TickInv, LogIsInOrder, Judged
  <2> QED
    BY <2>4, <2>5
<1>13. DuplicatesAreStored'
  <2> SUFFICES ASSUME NEW l \in Lines, "duplicate" \in refused[l]
               PROVE  \E k \in logged : lineOf'[k] = lineOf'[l]
    BY DEF DuplicatesAreStored, AppendLine, tickHistory
  <2>1. l \in 1..written
    BY <1>0 DEF TickInv, RefusalsFit, Lines
  <2>2. PICK k \in logged : lineOf[k] = lineOf[l]
    BY DEF TickInv, DuplicatesAreStored
  <2> QED
    BY <1>0, <2>1, <2>2 DEF TickInv, TickTypeOK
<1>14. MinutesFit' /\ BudgetIsKept'
  BY DEF TickInv, MinutesFit, BudgetIsKept, Belated, AppendLine, tickHistory
<1> QED
  BY <1>1, <1>9, <1>10, <1>11, <1>12, <1>13, <1>14 DEF TickInv

-----------------------------------------------------------------------------
(***************************************************************************)
(* Refusals.                                                               *)
(***************************************************************************)

\* More refusals take nothing from what a state knows.
LEMMA MoreRefused ==
    ASSUME TickInv, UNCHANGED <<written, lineOf, minute, logged, perMinute>>,
           \A l \in Lines : refused[l] \subseteq refused'[l],
           NEW st, NEW b, Knows(st, b), st \in TickStates
    PROVE  Knows(st, b)'
<1> USE TickConstants DEF TickConstants
<1>1. Behind(st, b) \subseteq Lines /\ logged \subseteq Lines
  BY DEF Behind, TickInv, TickTypeOK, TickStates, Lines
<1>2. Judges(st, b)' /\ Remembers(st, b)' /\ Recalls(st, b)'
  BY <1>1 DEF Knows, Judges, Remembers, Recalls, Behind, Judged, Done, Outdone, Enough
<1>3. Punctual' => Punctual
  BY <1>1 DEF Punctual, Belated
<1>4. Counts(st, b)'
  BY <1>3 DEF Knows, Counts, Recent, Ahead
<1> QED
  BY <1>2, <1>4 DEF Knows

\* A tick refuses lines: what is left to show is what the step does itself.
LEMMA TickRefuses ==
    ASSUME TickInv, NEW r \in Runners, TickTypeOK', BatchesFit', RefusalsFit',
           DuplicatesAreStored', Knows(runner[r].st, runner[r].batch)',
           UNCHANGED <<written, lineOf, minute, stateFile, logged, perMinute>>,
           \A l \in Lines : refused[l] \subseteq refused'[l],
           \A s \in Runners : s # r => runner'[s] = runner[s]
    PROVE  TickInv'
<1> USE TickConstants DEF TickConstants
<1>1. stateFile' # Broken => Knows(stateFile, {})'
  <2> SUFFICES ASSUME stateFile' # Broken
               PROVE  Knows(stateFile, {})'
    OBVIOUS
  <2>1. PICK st : st = stateFile
    OBVIOUS
  <2>2. Knows(st, {}) /\ st \in TickStates
    BY <2>1, StateTypes DEF TickInv, StatesKnow
  <2>3. Knows(st, {})'
    BY <2>2, MoreRefused
  <2>4. stateFile' = st
    BY <2>1
  <2> QED
    BY ONLY <2>4, <2>3 DEF Knows, Judges, Remembers, Recalls, Counts, Behind, Ahead, Recent,
                      Done, Outdone, Enough
<1>2. ASSUME NEW s \in Runners, s # r
      PROVE  Knows(runner[s].st, runner[s].batch)'
  <2>1. PICK st, b : st = runner[s].st /\ b = runner[s].batch
    OBVIOUS
  <2>2. Knows(st, b) /\ st \in TickStates
    BY <2>1, StateTypes DEF TickInv, StatesKnow
  <2>3. Knows(st, b)'
    BY <2>2, MoreRefused
  <2>4. st = runner'[s].st /\ b = runner'[s].batch
    BY <1>2, <2>1
  <2> QED
    BY ONLY <2>4, <2>3 DEF Knows, Judges, Remembers, Recalls, Counts, Behind, Ahead, Recent,
                      Done, Outdone, Enough
<1>3. StatesKnow'
  BY <1>1, <1>2 DEF StatesKnow
<1>4. logged \subseteq Lines /\ \A l \in logged : \A k \in 1..(l - 1) : k \in Lines
  BY DEF TickInv, TickTypeOK, Lines
<1>5. LogFits' /\ LogIsInOrder'
  <2>1. \A k, l : Forgotten(k, l)' = Forgotten(k, l)
    BY DEF Forgotten, Enough
  <2>2. LogIsInOrder'
    BY <1>4, <2>1 DEF TickInv, LogIsInOrder, Judged
  <2> QED
    BY <2>2 DEF TickInv, LogFits
<1>6. MinutesFit'
  BY DEF TickInv, MinutesFit
<1>7. BudgetIsKept'
  BY <1>4 DEF TickInv, BudgetIsKept, Belated
<1> QED
  BY <1>3, <1>5, <1>6, <1>7 DEF TickInv

\* The lines that a tick reads over are late; the others are its batch.
LEMMA ReadSpoolInv ==
    ASSUME TickInv, NEW r \in Runners, ReadSpool(r)
    PROVE  TickInv'
<1> USE TickConstants DEF TickConstants
<1>0. /\ written \in Nat /\ written <= MaxLines
      /\ runner[r].st \in TickStates /\ runner[r].batch = {} /\ runner[r].stored = 0
      /\ runner[r].st.offset \in 0..written
  <2>1. written \in Nat /\ written <= MaxLines
    BY DEF TickInv, TickTypeOK
  <2>2. runner[r].st \in TickStates /\ runner[r].batch = {} /\ runner[r].stored = 0
    BY StateTypes DEF TickInv, BatchesFit, ReadSpool
  <2> QED
    BY <2>1, <2>2 DEF TickStates
<1>1. PICK st : st = runner[r].st
  OBVIOUS
<1>2. PICK n : n = ReadUpTo(r)
  OBVIOUS
<1>3. n \in st.offset..written /\ st \in TickStates /\ st.offset \in 0..written
  BY <1>0, <1>1, <1>2, ReadUpToFits
<1>4. PICK b : b = {l \in Passed(r, n) : Legible(l)}
  OBVIOUS
<1>5. PICK q : q = [st EXCEPT !.offset = n]
  OBVIOUS
<1>6. /\ runner'[r].pc = "gate" /\ runner'[r].st = q /\ runner'[r].batch = b
      /\ runner'[r].stored = 0
      /\ \A s \in Runners : s # r => runner'[s] = runner[s]
  BY <1>0, <1>1, <1>2, <1>4, <1>5 DEF ReadSpool, TickInv, TickTypeOK
<1>7. /\ q.offset = n /\ q.sigs = st.sigs /\ q.stamp = st.stamp /\ q.count = st.count
      /\ q \in TickStates
  BY <1>3, <1>5 DEF TickStates
<1>8. /\ b \subseteq 1..written /\ b \subseteq (st.offset + 1)..n
      /\ \A l \in b : lineOf[l] # Junk
  <2>1. (st.offset + 1)..n \subseteq 1..written
    BY <1>0, <1>3
  <2>2. b \subseteq (st.offset + 1)..n
    BY <1>1, <1>4 DEF Passed
  <2>3. \A l \in b : lineOf[l] # Junk
    BY <1>4 DEF Legible
  <2> QED
    BY <2>1, <2>2, <2>3
<1>9. /\ \A l \in Lines : refused[l] \subseteq refused'[l]
      /\ \A l \in (st.offset + 1)..n : l \notin b => "illegible" \in refused'[l]
      /\ \A l \in Lines : refused'[l] = refused[l] \/ /\ l \in 1..written
                                                      /\ refused'[l] = refused[l] \cup {"illegible"}
  <2>1. /\ \A l \in Lines : refused'[l] = IF l \in Passed(r, n) /\ ~Legible(l)
                                         THEN refused[l] \cup {"illegible"} ELSE refused[l]
        /\ Passed(r, n) = (st.offset + 1)..n
    BY <1>1, <1>2 DEF ReadSpool, Passed
  <2>2. (st.offset + 1)..n \subseteq Lines /\ (st.offset + 1)..n \subseteq 1..written
    BY <1>0, <1>3 DEF Lines
  <2> QED
    BY <2>1, <2>2, <1>4
<1>10. TickTypeOK'
  <2>1. runner' = [runner EXCEPT ![r].pc = "gate", ![r].st.offset = n, ![r].batch = b]
    BY <1>2, <1>4 DEF ReadSpool
  <2>2. /\ runner \in [Runners -> [pc : {"idle", "read", "gate", "write"}, st : TickStates,
                                 batch : SUBSET (1..written), stored : 0..MaxStored]]
        /\ n \in 0..written /\ b \in SUBSET (1..written)
    BY <1>0, <1>3, <1>8 DEF TickInv, TickTypeOK
  <2>3. runner' \in [Runners -> [pc : {"idle", "read", "gate", "write"}, st : TickStates,
                              batch : SUBSET (1..written), stored : 0..MaxStored]]
    <3> DEFINE T == [pc : {"idle", "read", "gate", "write"}, st : TickStates,
                     batch : SUBSET (1..written), stored : 0..MaxStored]
               f == [runner EXCEPT ![r].pc = "gate"]
               g == [f EXCEPT ![r].st = [@ EXCEPT !.offset = n]]
               h == [g EXCEPT ![r].batch = b]
    <3>1. f \in [Runners -> T]
      BY <2>2
    <3>2. f[r].st \in TickStates
      BY <3>1
    <3>3. [f[r].st EXCEPT !.offset = n] \in TickStates
      BY <2>2, <3>2 DEF TickStates
    <3>4. g \in [Runners -> T]
      <4> HIDE DEF f
      <4> QED
        BY <3>1, <3>3
    <3>5. h \in [Runners -> T]
      <4> HIDE DEF g
      <4> QED
        BY <3>4, <2>2
    <3>6. runner' = h
      BY <2>1
    <3> QED
      BY <3>5, <3>6
  <2>4. refused' \in [Lines -> SUBSET Reasons]
    BY DEF ReadSpool, TickInv, TickTypeOK, Reasons
  <2> QED
    BY <2>3, <2>4 DEF TickInv, TickTypeOK, ReadSpool, TickStates
<1>11. BatchesFit'
  <2>1. \A l \in b : l <= n
    BY <1>8, <1>3
  <2> QED
    <3>1. ASSUME NEW s \in Runners
          PROVE  /\ runner'[s].pc # "gate" => runner'[s].batch = {}
                 /\ runner'[s].pc \in {"idle", "read"} => runner'[s].stored = 0
                 /\ \A l \in runner'[s].batch : l <= runner'[s].st.offset /\ lineOf[l] # Junk
      <4>1. CASE s = r
        BY <4>1, <1>6, <1>7, <1>8, <2>1
      <4>2. CASE s # r
        BY <4>2, <1>6 DEF TickInv, BatchesFit
      <4> QED
        BY <4>1, <4>2
    <3>2. lineOf' = lineOf
      BY DEF ReadSpool
    <3> QED
      BY <3>1, <3>2 DEF BatchesFit
<1>12. RefusalsFit'
  <2> SUFFICES ASSUME NEW l \in Lines
               PROVE  /\ refused'[l] # {} => l <= written'
                      /\ "private" \in refused'[l] => lineOf'[l] = Private
    BY DEF RefusalsFit
  <2>1. CASE refused'[l] = refused[l]
    BY <2>1 DEF TickInv, RefusalsFit, ReadSpool
  <2>2. CASE l \in 1..written /\ refused'[l] = refused[l] \cup {"illegible"}
    BY <2>2, <1>0 DEF TickInv, RefusalsFit, ReadSpool
  <2> QED
    BY <2>1, <2>2, <1>9
<1>13. DuplicatesAreStored'
  BY <1>9 DEF TickInv, DuplicatesAreStored, ReadSpool
<1>14. Knows(q, b)'
  <2>1. Knows(st, {})
    BY <1>0, <1>1 DEF TickInv, StatesKnow
  <2>2. Knows(st, {})'
    BY <2>1, <1>3, <1>9, MoreRefused DEF ReadSpool
  <2>3. /\ Behind(st, {}) \subseteq Behind(q, b)
        /\ \A l \in Behind(q, b) : l \in Behind(st, {}) \/ "illegible" \in refused'[l]
    BY <1>3, <1>7, <1>8, <1>9 DEF Behind
  <2>4. Done(st, {})' \subseteq Done(q, b)'
    <3>1. \A j \in logged' : j <= st.offset => j <= n /\ \A k \in b : j < k
      <4>1. logged' \subseteq 1..written /\ st.offset \in Nat /\ n \in Nat /\ st.offset <= n
        <5>1. logged \subseteq 1..written /\ logged' = logged
          BY DEF ReadSpool, TickInv, TickTypeOK
        <5>2. st.offset \in Nat /\ n \in Nat /\ st.offset <= n
          BY <1>0, <1>3
        <5> QED
          BY ONLY <5>1, <5>2, <1>0
      <4> QED
        BY <4>1, <1>0, <1>8
    <3> QED
      BY <3>1, <1>7 DEF Done
  <2>6. ASSUME NEW l, Outdone(st, {}, l)
        PROVE  Outdone(q, b, l)'
    <3>1. Done(st, {}) \subseteq Done(q, b)'
      BY <2>4 DEF Done, ReadSpool
    <3>2. IsFiniteSet(logged')
      BY LogIsFinite DEF ReadSpool
    <3> QED
      BY <2>6, <3>1, <3>2, OutdoneStays DEF ReadSpool
  <2>7. Judges(q, b)' /\ Recalls(q, b)'
    BY <2>2, <2>3, <2>4, <1>7 DEF Knows, Judges, Recalls, Judged
  <2>8. Remembers(q, b)'
    <3> SUFFICES ASSUME NEW l \in Behind(q, b), lineOf[l] \in Sigs
                 PROVE  l \in q.sigs \/ refused'[l] # {} \/ Outdone(q, b, l)'
      BY DEF Remembers, Behind, ReadSpool
    <3>1. CASE "illegible" \in refused'[l]
      BY <3>1
    <3>2. CASE l \in Behind(st, {})
      <4>1. l \in st.sigs \/ refused[l] # {} \/ Outdone(st, {}, l)
        BY <2>1, <3>2 DEF Knows, Remembers
      <4>2. l \in Lines
        BY <1>0, <1>3, <3>2 DEF Behind, Lines
      <4> QED
        BY <4>1, <4>2, <2>6, <1>7, <1>9
    <3> QED
      BY <3>1, <3>2, <2>3
  <2>5. Counts(q, b)'
    <3> SUFFICES ASSUME Punctual'
                 PROVE  perMinute'[minute'] <= Recent(q)' + Cardinality(Ahead(q, b)')
      BY DEF Counts
    <3>1. Recent(q)' = Recent(st)'
      BY <1>7 DEF Recent
    <3>2. \A j \in logged' : j > st.offset /\ ~(j > n) => j \in b
      <4> SUFFICES ASSUME NEW j \in logged', j > st.offset, ~(j > n), j \notin b
                   PROVE  FALSE
        OBVIOUS
      <4>1. j \in (st.offset + 1)..n
        <5>1. j \in 1..written
          BY DEF ReadSpool, TickInv, TickTypeOK
        <5> QED
          BY <5>1, <1>0, <1>3
      <4>2. "illegible" \in refused'[j]
        BY <4>1, <1>9
      <4> QED
        BY <4>2 DEF Punctual, Belated
    <3>3. \A j \in logged' : (j > st.offset <=> (j > n \/ j \in b))
      <4>1. logged' \subseteq 1..written /\ st.offset \in Nat /\ n \in Nat /\ st.offset <= n
        <5>1. logged \subseteq 1..written /\ logged' = logged
          BY DEF ReadSpool, TickInv, TickTypeOK
        <5>2. st.offset \in Nat /\ n \in Nat /\ st.offset <= n
          BY <1>0, <1>3
        <5> QED
          BY ONLY <5>1, <5>2, <1>0
      <4>2. \A j \in b : j > st.offset
        BY <1>8, <4>1
      <4> QED
        BY <3>2, <4>1, <4>2, <1>0
    <3>4. Ahead(q, b)' = Ahead(st, {})'
      BY <3>3, <1>7 DEF Ahead
    <3> QED
      BY <3>1, <3>4, <2>2 DEF Knows, Counts
  <2> QED
    BY <2>5, <2>7, <2>8 DEF Knows
<1>15. Knows(runner[r].st, runner[r].batch)'
  BY <1>6, <1>14 DEF Knows, Judges, Remembers, Recalls, Counts, Behind, Ahead, Recent,
                     Done, Outdone, Enough
<1> QED
  BY <1>6, <1>9, <1>10, <1>11, <1>12, <1>13, <1>15, TickRefuses DEF ReadSpool

\* The line that is next to be gated: what the tick has behind it are all before it.
LEMMA NextInBatch ==
    ASSUME TickInv, NEW r \in Runners, NEW l \in Lines, Gating(r, l)
    PROVE  /\ l \in runner[r].batch /\ l \in 1..runner[r].st.offset /\ l \in 1..written
           /\ \A k \in runner[r].batch : l <= k
           /\ \A k \in 1..(l - 1) : k \in Behind(runner[r].st, runner[r].batch)
           /\ Behind(runner[r].st, runner[r].batch \ {l})
                = Behind(runner[r].st, runner[r].batch) \cup {l}
           /\ Ahead(runner[r].st, runner[r].batch \ {l})
                = Ahead(runner[r].st, runner[r].batch) \ {l}
           /\ l \in logged => l \in Ahead(runner[r].st, runner[r].batch)
           /\ lineOf[l] # Junk
<1> USE TickConstants DEF TickConstants
<1>1. PICK b, o : b = runner[r].batch /\ o = runner[r].st.offset
  OBVIOUS
<1>2. b \subseteq 1..written /\ written \in Nat /\ o \in 0..written
  <2>1. runner[r].batch \in SUBSET (1..written) /\ runner[r].st \in TickStates
    BY StateTypes DEF TickInv, TickTypeOK
  <2>2. runner[r].st.offset \in 0..written /\ written \in Nat
    <3>1. written \in Nat /\ runner[r].st \in TickStates
      BY StateTypes DEF TickInv, TickTypeOK
    <3> QED
      BY ONLY <3>1 DEF TickStates
  <2> QED
    BY <1>1, <2>1, <2>2
<1>3. b \in SUBSET Nat /\ b # {} /\ l = FirstOf(b)
  BY <1>1, <1>2 DEF Gating
<1>4. l \in b /\ \A k \in b : l <= k
  BY <1>3, FirstIsLeast
<1>5. \A k \in b : k <= o /\ lineOf[k] # Junk
  BY <1>1 DEF TickInv, BatchesFit
<1>6. l \in 1..o /\ l \in 1..written /\ l \in Nat
  BY <1>2, <1>4, <1>5
<1>7. \A k \in 1..(l - 1) : k \in 1..o /\ k \notin b
  BY <1>2, <1>4, <1>6
<1>8. logged \subseteq 1..written
  BY DEF TickInv, TickTypeOK
<1>9. \A k \in 1..(l - 1) : k \in Behind(runner[r].st, runner[r].batch)
  BY <1>1, <1>7 DEF Behind
<1>10. Behind(runner[r].st, runner[r].batch \ {l})
         = Behind(runner[r].st, runner[r].batch) \cup {l}
  BY <1>1, <1>6 DEF Behind
<1>11. ~(l > o)
  BY <1>2, <1>6
<1>12. Ahead(runner[r].st, runner[r].batch \ {l})
         = Ahead(runner[r].st, runner[r].batch) \ {l}
  BY <1>1, <1>11 DEF Ahead
<1> QED
  BY <1>1, <1>4, <1>5, <1>6, <1>9, <1>10, <1>12 DEF Ahead

\* A refused line is then behind its tick: judged, and either late, or known to be in the
\* log, or no signature.
LEMMA RefuseLineInv ==
    ASSUME TickInv, NEW r \in Runners, NEW l \in Lines, RefuseLine(r, l)
    PROVE  TickInv'
<1> USE TickConstants DEF TickConstants
<1>1. PICK st, b : st = runner[r].st /\ b = runner[r].batch
  OBVIOUS
<1>2. PICK why : why = Refusal(r, l)
  OBVIOUS
<1>3. /\ l \in b /\ b \subseteq 1..written /\ l \in 1..written /\ st \in TickStates
      /\ lineOf[l] # Junk
      /\ Behind(st, b \ {l}) = Behind(st, b) \cup {l}
      /\ Ahead(st, b \ {l}) = Ahead(st, b) \ {l}
  BY <1>1, NextInBatch, StateTypes DEF RefuseLine
<1>4. /\ why \in {"private", "duplicate", "busy"}
      /\ why = "private" => lineOf[l] = Private
      /\ why = "duplicate" => \E k \in st.sigs : lineOf[k] = lineOf[l]
  BY <1>1, <1>2 DEF Refusal, RefuseLine
<1>5. refused' = [refused EXCEPT ![l] = @ \cup {why}]
  BY <1>2 DEF RefuseLine
<1>6. \A k \in Lines : refused[k] \subseteq refused'[k]
  BY <1>5 DEF TickInv, TickTypeOK
<1>7. why \in refused'[l] /\ \A k \in Lines : k # l => refused'[k] = refused[k]
  BY <1>5 DEF TickInv, TickTypeOK
<1>8. /\ runner'[r].pc = "gate" /\ runner'[r].st = st /\ runner'[r].batch = b \ {l}
      /\ \A s \in Runners : s # r => runner'[s] = runner[s]
  BY <1>1 DEF RefuseLine, Gating, TickInv, TickTypeOK
<1>9. TickTypeOK'
  <2>1. runner' \in [Runners -> [pc : {"idle", "read", "gate", "write"}, st : TickStates,
                              batch : SUBSET (1..written), stored : 0..MaxStored]]
    <3>1. runner' = [runner EXCEPT ![r].batch = b \ {l}]
      BY <1>1 DEF RefuseLine
    <3> DEFINE T == [pc : {"idle", "read", "gate", "write"}, st : TickStates,
                     batch : SUBSET (1..written), stored : 0..MaxStored]
    <3>2. b \ {l} \in SUBSET (1..written)
      BY <1>3
    <3>3. runner \in [Runners -> T]
      BY DEF TickInv, TickTypeOK
    <3> QED
      BY ONLY <3>1, <3>2, <3>3
  <2>2. refused' \in [Lines -> SUBSET Reasons]
    BY <1>4, <1>5 DEF TickInv, TickTypeOK, Reasons
  <2> QED
    BY <2>1, <2>2 DEF RefuseLine, TickInv, TickTypeOK, TickStates
<1>10. BatchesFit'
  BY <1>1, <1>8 DEF TickInv, BatchesFit, RefuseLine, Gating
<1>11. RefusalsFit'
  <2> SUFFICES ASSUME NEW k \in Lines
               PROVE  /\ refused'[k] # {} => k <= written'
                      /\ "private" \in refused'[k] => lineOf'[k] = Private
    BY DEF RefusalsFit
  <2>1. CASE k # l
    BY <2>1, <1>7 DEF TickInv, RefusalsFit, RefuseLine
  <2>2. CASE k = l
    <3>1. k <= written'
      BY <2>2, <1>3 DEF RefuseLine, TickInv, TickTypeOK
    <3>2. "private" \in refused'[k] => lineOf[k] = Private
      BY <2>2, <1>4, <1>5 DEF TickInv, RefusalsFit, TickTypeOK
    <3> QED
      BY <3>1, <3>2 DEF RefuseLine
  <2> QED
    BY <2>1, <2>2
<1>12. Knows(st, b)
  BY <1>1 DEF TickInv, StatesKnow
<1>13. DuplicatesAreStored'
  <2> SUFFICES ASSUME NEW k \in Lines, "duplicate" \in refused'[k]
               PROVE  \E j \in logged : lineOf[j] = lineOf[k]
    BY DEF DuplicatesAreStored, RefuseLine
  <2>1. CASE "duplicate" \in refused[k]
    BY <2>1 DEF TickInv, DuplicatesAreStored
  <2>2. CASE k = l /\ why = "duplicate"
    BY <2>2, <1>4, <1>12 DEF Knows, Recalls, Done
  <2> QED
    BY <2>1, <2>2, <1>5, <1>7 DEF TickInv, TickTypeOK
<1>14. Knows(st, b)'
  BY <1>3, <1>6, <1>12, MoreRefused DEF RefuseLine
<1>15. Knows(st, b \ {l})'
  <2>1. /\ Behind(st, b \ {l})' = Behind(st, b)' \cup {l}
        /\ Ahead(st, b \ {l})' = Ahead(st, b)' \ {l}
    BY <1>3 DEF Behind, Ahead, RefuseLine
  <2>2. Judged(l)'
    BY <1>7 DEF Judged
  <2>3. Done(st, b) \subseteq Done(st, b \ {l})'
    BY DEF Done, RefuseLine
  <2>4. ASSUME NEW k, Outdone(st, b, k)
        PROVE  Outdone(st, b \ {l}, k)'
    BY <2>3, <2>4, LogIsFinite, OutdoneStays DEF RefuseLine
  <2>5. Judges(st, b \ {l})' /\ Recalls(st, b \ {l})'
    BY <1>12, <1>14, <2>1, <2>2, <2>3 DEF Knows, Judges, Recalls, RefuseLine
  <2>7. Remembers(st, b \ {l})'
    <3> SUFFICES ASSUME NEW k \in Behind(st, b) \cup {l}, lineOf[k] \in Sigs
                 PROVE  k \in st.sigs \/ refused'[k] # {} \/ Outdone(st, b \ {l}, k)'
      BY <1>3 DEF Remembers, Behind, RefuseLine
    <3>1. CASE k = l
      BY <3>1, <1>7
    <3>2. CASE k \in Behind(st, b)
      <4>1. k \in st.sigs \/ refused[k] # {} \/ Outdone(st, b, k)
        BY <1>12, <3>2 DEF Knows, Remembers
      <4>2. k \in Lines
        BY <1>3, <3>2 DEF Behind, Lines, TickStates, TickInv, TickTypeOK
      <4> QED
        BY <4>1, <4>2, <2>4, <1>6
    <3> QED
      BY <3>1, <3>2
  <2>6. Counts(st, b \ {l})'
    <3> SUFFICES ASSUME Punctual'
                 PROVE  perMinute'[minute'] <= Recent(st)' + Cardinality(Ahead(st, b \ {l})')
      BY DEF Counts
    <3>1. l \notin logged'
      BY <1>7 DEF Punctual, Belated
    <3>2. Ahead(st, b \ {l})' = Ahead(st, b)'
      BY <2>1, <3>1 DEF Ahead
    <3> QED
      BY <3>2, <1>14 DEF Knows, Counts
  <2> QED
    BY <2>5, <2>6, <2>7 DEF Knows
<1>16. Knows(runner[r].st, runner[r].batch)'
  BY <1>8, <1>15 DEF Knows, Judges, Remembers, Recalls, Counts, Behind, Ahead, Recent,
                     Done, Outdone, Enough
<1> QED
  BY <1>6, <1>8, <1>9, <1>10, <1>11, <1>13, <1>16, TickRefuses DEF RefuseLine

-----------------------------------------------------------------------------
(***************************************************************************)
(* Storing a line.                                                         *)
(***************************************************************************)

\* What the gates have found of a line that is stored.
LEMMA StoredIsNew ==
    ASSUME TickInv, NEW r \in Runners, NEW l \in Lines, StoreLine(r, l)
    PROVE  /\ lineOf[l] \in Sigs /\ \A k \in runner[r].st.sigs : lineOf[k] # lineOf[l]
           /\ Recent(runner[r].st) \in Nat /\ Recent(runner[r].st) < RateLimit
           /\ runner[r].stored < MaxStored
           /\ Knows(runner[r].st, runner[r].batch) /\ runner[r].st \in TickStates
<1> USE TickConstants DEF TickConstants
<1>1. runner[r].st \in TickStates /\ Knows(runner[r].st, runner[r].batch)
  BY StateTypes DEF TickInv, StatesKnow
<1>2. /\ ~(runner[r].stored >= MaxStored) /\ lineOf[l] # Private
      /\ (\A k \in runner[r].st.sigs : lineOf[k] # lineOf[l]) /\ ~Full(runner[r].st)
  BY DEF StoreLine, Refusal
<1>3. lineOf[l] # Junk /\ lineOf[l] # Poison
  BY NextInBatch DEF StoreLine
<1>4. lineOf[l] \in Sigs
  BY <1>2, <1>3 DEF TickInv, TickTypeOK
<1>5. Recent(runner[r].st) \in Nat
  BY <1>1 DEF Recent, TickStates
<1>6. runner[r].stored < MaxStored
  BY <1>2 DEF TickInv, TickTypeOK
<1> QED
  BY <1>1, <1>2, <1>4, <1>5, <1>6 DEF Full

\* All lines before it have been judged, and those of its signature were refused or are
\* forgotten.
LEMMA StoredInOrder ==
    ASSUME TickInv, NEW r \in Runners, NEW l \in Lines, StoreLine(r, l)
    PROVE  LogIsInOrder'
<1> USE TickConstants DEF TickConstants
<1>1. UNCHANGED <<lineOf, refused>> /\ logged' = logged \cup {l} /\ l \in Nat
  BY DEF StoreLine, Lines
<1>2. PICK st, b : st = runner[r].st /\ b = runner[r].batch
  OBVIOUS
<1>3. ASSUME NEW k, NEW j, NEW S, S \subseteq {m \in logged' : k < m /\ m < j},
             Enough(S, k)
      PROVE  Forgotten(k, j)'
  <2>1. PICK T : T = {m \in logged' : k < m /\ m < j}
    OBVIOUS
  <2>2. IsFiniteSet(T)
    <3>1. IsFiniteSet(logged')
      BY <1>1, LogIsFinite, FS_AddElement
    <3> QED
      BY <2>1, <3>1, FS_Subset
  <2>3. Enough(T, k)
    BY <1>3, <2>1, <2>2, MoreSignatures
  <2> QED
    BY <1>1, <2>1, <2>3 DEF Forgotten, Enough
<1>4. ASSUME NEW k \in 1..(l - 1)
      PROVE  Judged(k) /\ (lineOf[k] = lineOf[l] => refused[k] # {} \/ Forgotten(k, l)')
  <2>1. k \in Behind(st, b) /\ l \in b
    BY <1>2, NextInBatch DEF StoreLine
  <2>2. Judged(k)
    BY <1>2, <2>1, StoredIsNew DEF Knows, Judges
  <2>3. CASE Outdone(st, b, k)
    <3>1. PICK S : S = {m \in Done(st, b) : k < m}
      OBVIOUS
    <3>2. S \subseteq {m \in logged' : k < m /\ m < l}
      BY <1>1, <2>1, <3>1 DEF Done
    <3>3. Enough(S, k)
      BY <2>3, <3>1 DEF Outdone
    <3> QED
      BY <1>3, <2>2, <3>2, <3>3
  <2> QED
    BY <1>2, <2>1, <2>2, <2>3, StoredIsNew DEF Knows, Remembers
<1>5. ASSUME NEW j \in logged, NEW k \in 1..(j - 1)
      PROVE  Judged(k) /\ (lineOf[k] = lineOf[j] => refused[k] # {} \/ Forgotten(k, j)')
  <2>1. Judged(k) /\ (lineOf[k] = lineOf[j] => refused[k] # {} \/ Forgotten(k, j))
    BY DEF TickInv, LogIsInOrder
  <2>2. CASE Forgotten(k, j)
    <3>1. PICK S : S = {m \in logged : k < m /\ m < j}
      OBVIOUS
    <3>2. S \subseteq {m \in logged' : k < m /\ m < j}
      BY <1>1, <3>1
    <3>3. Enough(S, k)
      BY <2>2, <3>1 DEF Forgotten
    <3> QED
      BY <1>3, <2>1, <3>2, <3>3
  <2> QED
    BY <2>1, <2>2
<1>6. \A k : Judged(k) => Judged(k)'
  BY <1>1 DEF Judged
<1> QED
  BY <1>1, <1>4, <1>5, <1>6 DEF LogIsInOrder

\* If the log holds none that was belated, then no line is ahead of a tick that inserts
\* one, and its count is that of the minute.
LEMMA NoneAhead ==
    ASSUME TickInv, NEW r \in Runners, NEW l \in Lines, StoreLine(r, l),
           l \notin logged, Punctual'
    PROVE  Ahead(runner[r].st, runner[r].batch) = {}
<1> USE TickConstants DEF TickConstants
<1>1. UNCHANGED <<lineOf, refused, written>> /\ logged' = logged \cup {l} /\ l \in Nat
  BY DEF StoreLine, Lines
<1>2. logged' \subseteq Lines /\ logged \subseteq Lines
  BY <1>1 DEF TickInv, TickTypeOK, Lines
<1> SUFFICES ASSUME NEW j \in Ahead(runner[r].st, runner[r].batch)
             PROVE  FALSE
  OBVIOUS
<1>3. j \in logged /\ (j > runner[r].st.offset \/ j \in runner[r].batch) /\ j \in Nat
  <2>1. j \in logged /\ (j > runner[r].st.offset \/ j \in runner[r].batch)
    BY DEF Ahead
  <2>2. j \in Lines
    BY ONLY <1>2, <2>1
  <2> QED
    BY ONLY <2>1, <2>2, MaxLines \in Nat DEF Lines
<1>4. l \in 1..runner[r].st.offset /\ (\A k \in runner[r].batch : l <= k)
      /\ runner[r].st.offset \in Nat
  <2>1. l \in 1..runner[r].st.offset /\ (\A k \in runner[r].batch : l <= k)
    BY NextInBatch DEF StoreLine
  <2>2. runner[r].st.offset \in Nat
    BY StoredIsNew DEF TickStates, TickInv, TickTypeOK
  <2> QED
    BY <2>1, <2>2
<1>5. l \in 1..(j - 1)
  <2>1. l <= j /\ l # j
    BY <1>3, <1>4
  <2> QED
    BY <2>1, <1>3, <1>4
<1>6. Judged(l)
  BY <1>3, <1>5 DEF TickInv, LogIsInOrder
<1>7. refused[l] = {}
  BY <1>1 DEF Punctual, Belated
<1> QED
  BY <1>6, <1>7 DEF Judged

\* What a state of another tick, or the file, knows when a line is inserted: either it is
\* ahead of it, or it was refused.
LEMMA OthersKnow ==
    ASSUME TickInv, NEW r \in Runners, NEW l \in Lines, StoreLine(r, l), l \notin logged,
           NEW st, NEW b, Knows(st, b), st \in TickStates, b \subseteq 1..written
    PROVE  Knows(st, b)'
<1> USE TickConstants DEF TickConstants
<1>1. /\ UNCHANGED <<lineOf, refused, written, minute>> /\ logged' = logged \cup {l} /\ l \in Nat
      /\ perMinute' = [perMinute EXCEPT ![minute] = @ + 1]
  BY DEF StoreLine, Lines
<1>2. logged' \subseteq Lines /\ logged \subseteq Lines
  BY <1>1 DEF TickInv, TickTypeOK, Lines
<1>3. Judges(st, b)' /\ Remembers(st, b)' /\ Recalls(st, b)'
  <2>1. Done(st, b) \subseteq Done(st, b)' /\ IsFiniteSet(logged')
    BY <1>1, LogIsFinite, FS_AddElement DEF Done
  <2>2. \A k : Outdone(st, b, k) => Outdone(st, b, k)'
    BY <1>1, <2>1, OutdoneStays
  <2> QED
    BY <1>1, <2>1, <2>2 DEF Knows, Judges, Remembers, Recalls, Behind, Judged
<1>4. Counts(st, b)'
  <2> SUFFICES ASSUME Punctual'
               PROVE  perMinute'[minute'] <= Recent(st)' + Cardinality(Ahead(st, b)')
    BY DEF Counts
  <2>1. Punctual
    BY <1>1 DEF Punctual, Belated
  <2>2. l > st.offset \/ l \in b
    <3> SUFFICES ASSUME ~(l > st.offset), l \notin b PROVE FALSE
      OBVIOUS
    <3>1. l \in Behind(st, b)
      BY <1>1 DEF Behind, TickStates, TickInv, TickTypeOK, Lines
    <3>2. refused[l] = {}
      BY <1>1 DEF Punctual, Belated
    <3> QED
      BY <3>1, <3>2 DEF Knows, Judges, Judged
  <2>3. Ahead(st, b)' = Ahead(st, b) \cup {l} /\ l \notin Ahead(st, b)
    BY <1>1, <2>2 DEF Ahead
  <2>4. IsFiniteSet(Ahead(st, b)) /\ Cardinality(Ahead(st, b)) \in Nat
    BY LogIsFinite
  <2>5. Cardinality(Ahead(st, b)') = Cardinality(Ahead(st, b)) + 1
    BY <2>3, <2>4, FS_AddElement
  <2>6. perMinute[minute] <= Recent(st) + Cardinality(Ahead(st, b))
    BY <2>1 DEF Knows, Counts
  <2>7. Recent(st)' = Recent(st) /\ Recent(st) \in Nat
    BY <1>1 DEF Recent, TickStates
  <2>8. perMinute'[minute'] = perMinute[minute] + 1 /\ perMinute[minute] \in Nat
    BY <1>1 DEF TickInv, TickTypeOK
  <2> QED
    BY <2>4, <2>5, <2>6, <2>7, <2>8
<1> QED
  BY <1>3, <1>4 DEF Knows

\* The tick itself has the line behind it, remembers it and has counted it.
LEMMA StorerKnows ==
    ASSUME TickInv, NEW r \in Runners, NEW l \in Lines, StoreLine(r, l),
           NEW st, NEW b, NEW q, st = runner[r].st, b = runner[r].batch, q = Remembered(st, l)
    PROVE  Knows(q, b \ {l})'
<1> USE TickConstants DEF TickConstants
<1>1. /\ UNCHANGED <<lineOf, refused, written, minute>> /\ logged' = logged \cup {l}
      /\ perMinute' = IF l \in logged THEN perMinute ELSE [perMinute EXCEPT ![minute] = @ + 1]
  BY DEF StoreLine
<1>2. PICK now : now = st.sigs \cup {l}
  OBVIOUS
<1>9. /\ q.offset = st.offset /\ q.stamp = minute /\ q.count = Recent(st) + 1
      /\ q.sigs = IF Crowded(now) THEN now \ {FirstOf(now)} ELSE now
  BY <1>2, StoredIsNew DEF Remembered, TickStates
<1>3. /\ l \in b /\ Behind(st, b \ {l}) = Behind(st, b) \cup {l}
      /\ Ahead(st, b \ {l}) = Ahead(st, b) \ {l}
      /\ l \in logged => l \in Ahead(st, b)
  BY NextInBatch DEF StoreLine
<1>4. Behind(q, b \ {l}) = Behind(st, b) \cup {l}
  BY <1>3, <1>9 DEF Behind
<1>5. Knows(st, b) /\ st \in TickStates /\ Recent(st) \in Nat
  BY StoredIsNew
<1>10. Judges(q, b \ {l})'
  BY <1>1, <1>4, <1>5 DEF Knows, Judges, Behind, Judged
<1>11. /\ Done(st, b) \subseteq Done(q, b \ {l})' /\ IsFiniteSet(logged')
       /\ now \subseteq Done(q, b \ {l})' /\ now \in SUBSET Nat /\ IsFiniteSet(now)
  <2>1. /\ l \in 1..st.offset /\ l \in Nat /\ (\A k \in b : l <= k) /\ st.offset \in Nat
        /\ logged \subseteq Nat /\ b \subseteq Nat
    <3>1. l \in 1..st.offset /\ \A k \in b : l <= k
      BY NextInBatch DEF StoreLine
    <3>2. st.offset \in Nat
      BY <1>5 DEF TickStates, TickInv, TickTypeOK
    <3>3. logged \subseteq Nat /\ b \subseteq Nat /\ l \in Nat
      BY StateTypes DEF TickInv, TickTypeOK, Lines
    <3> QED
      BY ONLY <3>1, <3>2, <3>3
  <2>2. l \in Done(q, b \ {l})'
    <3>1. \A k \in b \ {l} : l < k
      BY ONLY <2>1
    <3>2. l <= st.offset
      BY ONLY <2>1
    <3> QED
      BY <1>1, <1>9, <3>1, <3>2 DEF Done
  <2>3. Done(st, b) \subseteq Done(q, b \ {l})'
    BY <1>1, <1>9 DEF Done
  <2>4. st.sigs \subseteq Done(st, b)
    BY <1>5 DEF Knows, Recalls
  <2>5. IsFiniteSet(logged')
    BY <1>1, LogIsFinite, FS_AddElement
  <2>6. now \subseteq logged' /\ now \subseteq Nat
    BY <1>1, <1>2, <2>1, <2>4 DEF Done
  <2>7. IsFiniteSet(now)
    BY <2>5, <2>6, FS_Subset
  <2> QED
    BY <1>2, <2>2, <2>3, <2>4, <2>5, <2>6, <2>7
<1>12. \A j, k \in now : lineOf[j] = lineOf[k] => j = k
  BY <1>2, <1>5, StoredIsNew DEF Knows, Recalls
<1>7. Recalls(q, b \ {l})'
  <2>1. q.sigs \subseteq now
    BY <1>9
  <2> QED
    BY <1>1, <1>11, <1>12, <2>1 DEF Recalls
<1>13. ASSUME NEW k \in now, k \notin q.sigs
       PROVE  Outdone(q, b \ {l}, k)'
  <2>1. Crowded(now) /\ k = FirstOf(now)
    BY <1>9, <1>13
  <2>2. PICK S : S = now \ {k}
    OBVIOUS
  <2>3. /\ \A j \in S : k < j
        /\ Enough(S, k)
    BY <1>11, <1>12, <2>1, <2>2, EnoughRemain
  <2>4. PICK T : T = {m \in Done(q, b \ {l})' : k < m}
    OBVIOUS
  <2>5. S \subseteq T
    BY <1>11, <2>2, <2>3, <2>4
  <2>6. IsFiniteSet(T)
    <3>1. T \subseteq logged'
      BY <2>4 DEF Done
    <3> QED
      BY <1>11, <3>1, FS_Subset
  <2>7. Enough(T, k)
    BY <2>3, <2>5, <2>6, MoreSignatures
  <2> QED
    BY <1>1, <2>4, <2>7 DEF Outdone, Enough
<1>14. \A k : Outdone(st, b, k) => Outdone(q, b \ {l}, k)'
  BY <1>1, <1>11, OutdoneStays
<1>15. Remembers(q, b \ {l})'
  <2> SUFFICES ASSUME NEW k \in Behind(st, b) \cup {l}, lineOf[k] \in Sigs
               PROVE  k \in q.sigs \/ refused[k] # {} \/ Outdone(q, b \ {l}, k)'
    BY <1>1, <1>4 DEF Remembers, Behind
  <2>1. CASE k \in now
    BY <1>13, <2>1
  <2>2. CASE k \notin now
    BY <1>2, <1>5, <1>14, <2>2 DEF Knows, Remembers
  <2> QED
    BY <2>1, <2>2
<1>8. Counts(q, b \ {l})'
  <2> SUFFICES ASSUME Punctual'
               PROVE  perMinute'[minute'] <= Recent(q)' + Cardinality(Ahead(q, b \ {l})')
    BY DEF Counts
  <2>1. Punctual
    BY <1>1 DEF Punctual, Belated
  <2>2. perMinute[minute] <= Recent(st) + Cardinality(Ahead(st, b))
    BY <1>5, <2>1 DEF Knows, Counts
  <2>3. Recent(q)' = Recent(st) + 1
    BY <1>1, <1>9 DEF Recent
  <2>4. IsFiniteSet(Ahead(st, b)) /\ Cardinality(Ahead(st, b)) \in Nat
    BY LogIsFinite
  <2>5. perMinute[minute] \in Nat
    BY DEF TickInv, TickTypeOK
  <2>6. CASE l \in logged
    <3>1. Ahead(q, b \ {l})' = Ahead(st, b) \ {l} /\ l \in Ahead(st, b)
      BY <1>1, <1>3, <1>9, <2>6 DEF Ahead
    <3> DEFINE S == Ahead(st, b)
    <3> HIDE DEF S
    <3>2. Cardinality(S \ {l}) = Cardinality(S) - 1
      <4>1. IsFiniteSet(S) /\ l \in S
        BY <2>4, <3>1 DEF S
      <4> QED
        BY <4>1, FS_RemoveElement
    <3>4. Cardinality(Ahead(q, b \ {l})') = Cardinality(Ahead(st, b)) - 1
      BY <3>1, <3>2 DEF S
    <3>3. perMinute'[minute'] = perMinute[minute]
      BY <1>1, <2>6
    <3> QED
      BY <2>2, <2>3, <2>4, <2>5, <3>4, <3>3, <1>5
  <2>7. CASE l \notin logged
    <3>1. l \notin Ahead(st, b)
      BY <2>7 DEF Ahead
    <3>2. ~(l > q.offset)
      <4>1. l \in 1..st.offset
        BY NextInBatch DEF StoreLine
      <4>2. st.offset \in Nat
        BY <1>5 DEF TickStates, TickInv, TickTypeOK
      <4> QED
        BY <4>1, <4>2, <1>9
    <3>3. Ahead(q, b \ {l})' = Ahead(st, b)
      BY <1>1, <1>9, <3>1, <3>2 DEF Ahead
    <3>4. perMinute'[minute'] = perMinute[minute] + 1
      BY <1>1, <2>7 DEF TickInv, TickTypeOK
    <3> QED
      BY <2>2, <2>3, <2>4, <2>5, <3>3, <3>4, <1>5
  <2> QED
    BY <2>6, <2>7
<1> QED
  BY <1>7, <1>8, <1>10, <1>15 DEF Knows

LEMMA StoreLineInv ==
    ASSUME TickInv, NEW r \in Runners, NEW l \in Lines, StoreLine(r, l)
    PROVE  TickInv'
<1> USE TickConstants DEF TickConstants
<1>1. PICK st, b : st = runner[r].st /\ b = runner[r].batch
  OBVIOUS
<1>2. PICK q : q = Remembered(st, l)
  OBVIOUS
<1>3. /\ UNCHANGED <<lineOf, refused, written, minute, stateFile, half, breaks>>
      /\ logged' = logged \cup {l}
      /\ perMinute' = IF l \in logged THEN perMinute ELSE [perMinute EXCEPT ![minute] = @ + 1]
      /\ runner' = [runner EXCEPT ![r].batch = b \ {l}, ![r].stored = @ + 1, ![r].st = q]
  BY <1>1, <1>2 DEF StoreLine
<1>4. l \in 1..written /\ b \subseteq 1..written /\ runner[r].stored < MaxStored
  BY <1>1, NextInBatch, StoredIsNew, StateTypes DEF StoreLine
<1>5. q \in TickStates
  <2>1. st \in TickStates /\ Recent(st) \in Nat /\ Recent(st) < RateLimit /\ lineOf[l] \in Sigs
    BY <1>1, StoredIsNew
  <2>2. Recent(st) + 1 \in 0..RateLimit /\ minute \in 0..minute
    BY <2>1 DEF TickInv, TickTypeOK
  <2>3. st.sigs \cup {l} \in SUBSET (1..written)
    BY <1>4, <2>1 DEF TickStates
  <2> QED
    BY <1>2, <2>1, <2>2, <2>3 DEF Remembered, TickStates
<1>6. /\ runner'[r].pc = "gate" /\ runner'[r].st = q /\ runner'[r].batch = b \ {l}
      /\ \A s \in Runners : s # r => runner'[s] = runner[s]
  <2>1. runner \in [Runners -> [pc : {"idle", "read", "gate", "write"}, st : TickStates,
                               batch : SUBSET (1..written), stored : 0..MaxStored]]
    BY DEF TickInv, TickTypeOK
  <2>2. runner[r].pc = "gate"
    BY DEF StoreLine, Gating
  <2> QED
    BY ONLY <1>3, <2>1, <2>2
<1>7. TickTypeOK'
  <2>1. runner' \in [Runners -> [pc : {"idle", "read", "gate", "write"}, st : TickStates,
                              batch : SUBSET (1..written), stored : 0..MaxStored]]
    <3> DEFINE T == [pc : {"idle", "read", "gate", "write"}, st : TickStates,
                     batch : SUBSET (1..written), stored : 0..MaxStored]
    <3>1. runner \in [Runners -> T]
      BY DEF TickInv, TickTypeOK
    <3>2. runner[r].stored + 1 \in 0..MaxStored
      BY <1>4, <3>1
    <3>3. b \ {l} \in SUBSET (1..written)
      BY <1>4
    <3> QED
      BY ONLY <1>3, <1>5, <3>1, <3>2, <3>3
  <2>2. perMinute' \in [0..MaxMinutes -> Nat]
    <3>1. perMinute \in [0..MaxMinutes -> Nat] /\ minute \in 0..MaxMinutes
      BY DEF TickInv, TickTypeOK
    <3>2. perMinute[minute] + 1 \in Nat
      BY <3>1
    <3> QED
      BY ONLY <1>3, <3>1, <3>2
  <2>3. logged' \subseteq 1..written
    BY <1>3, <1>4 DEF TickInv, TickTypeOK
  <2> QED
    BY <1>3, <2>1, <2>2, <2>3 DEF TickInv, TickTypeOK, TickStates
<1>8. BatchesFit'
  <2>1. q.offset = st.offset
    BY <1>1, <1>2, StoredIsNew DEF Remembered, TickStates
  <2> QED
    <3>1. ASSUME NEW s \in Runners
          PROVE  /\ runner'[s].pc # "gate" => runner'[s].batch = {}
                 /\ runner'[s].pc \in {"idle", "read"} => runner'[s].stored = 0
                 /\ \A k \in runner'[s].batch : k <= runner'[s].st.offset /\ lineOf[k] # Junk
      <4>1. CASE s = r
        BY <4>1, <1>1, <1>6, <2>1 DEF TickInv, BatchesFit
      <4>2. CASE s # r
        BY <4>2, <1>6 DEF TickInv, BatchesFit
      <4> QED
        BY <4>1, <4>2
    <3> QED
      BY <3>1, <1>3 DEF BatchesFit
<1>9. RefusalsFit'
  BY <1>3 DEF TickInv, RefusalsFit
<1>10. LogFits'
  BY <1>3, StoredIsNew DEF TickInv, LogFits
<1>11. LogIsInOrder'
  BY StoredInOrder
<1>12. DuplicatesAreStored'
  BY <1>3 DEF TickInv, DuplicatesAreStored
<1>13. MinutesFit'
  <2>1. IsFiniteSet(logged) /\ Cardinality(logged) \in Nat
    BY LogIsFinite, FS_CardinalityType
  <2>2. /\ IsFiniteSet(logged')
        /\ Cardinality(logged') = IF l \in logged THEN Cardinality(logged)
                                  ELSE Cardinality(logged) + 1
    BY <1>3, <2>1, FS_AddElement
  <2>3. perMinute'[minute] = IF l \in logged THEN perMinute[minute] ELSE perMinute[minute] + 1
    BY <1>3 DEF TickInv, TickTypeOK
  <2>4. perMinute[minute] <= Cardinality(logged) /\ perMinute[minute] \in Nat
    BY DEF TickInv, TickTypeOK, MinutesFit
  <2>5. perMinute'[minute'] <= Cardinality(logged')
    BY <1>3, <2>1, <2>2, <2>3, <2>4
  <2>6. \A m \in 0..MaxMinutes : m > minute' => perMinute'[m] = 0
    BY <1>3 DEF TickInv, TickTypeOK, MinutesFit
  <2> QED
    BY <2>2, <2>5, <2>6 DEF MinutesFit
<1>14. BudgetIsKept'
  <2> SUFFICES ASSUME NEW m \in 0..MaxMinutes, ~\E j \in logged' : Belated(j)'
               PROVE  perMinute'[m] <= RateLimit
    BY DEF BudgetIsKept
  <2>1. Punctual'
    BY DEF Punctual
  <2>2. ~\E j \in logged : Belated(j)
    BY <1>3 DEF Belated
  <2>3. perMinute[m] <= RateLimit
    BY <2>2 DEF TickInv, BudgetIsKept
  <2>4. CASE l \in logged \/ m # minute
    BY <2>3, <2>4, <1>3 DEF TickInv, TickTypeOK
  <2>5. CASE l \notin logged /\ m = minute
    <3>1. Ahead(st, b) = {}
      BY <1>1, <2>1, <2>5, NoneAhead
    <3>2. Cardinality({}) = 0
      BY FS_EmptySet
    <3>3. Punctual
      BY <1>3, <2>1 DEF Punctual, Belated
    <3>4. perMinute[minute] <= Recent(st) + 0
      BY <1>1, <3>1, <3>2, <3>3, StoredIsNew DEF Knows, Counts
    <3>5. Recent(st) < RateLimit /\ Recent(st) \in Nat
      BY <1>1, StoredIsNew
    <3>6. perMinute'[m] = perMinute[minute] + 1 /\ perMinute[minute] \in Nat
      BY <1>3, <2>5 DEF TickInv, TickTypeOK
    <3> QED
      BY <3>4, <3>5, <3>6
  <2> QED
    BY <2>4, <2>5
<1>15. ASSUME NEW s, NEW c, Knows(s, c), s \in TickStates, c \subseteq 1..written
       PROVE  Knows(s, c)'
  <2>1. CASE l \notin logged
    BY <1>15, <2>1, OthersKnow
  <2>2. CASE l \in logged
    <3>1. logged' = logged /\ perMinute' = perMinute
      BY <1>3, <2>2
    <3> QED
      <4>1. Behind(s, c)' = Behind(s, c) /\ Ahead(s, c)' = Ahead(s, c) /\ Done(s, c)' = Done(s, c)
        BY <3>1 DEF Behind, Ahead, Done
      <4>2. \A k : Outdone(s, c, k)' = Outdone(s, c, k)
        BY <1>3, <4>1 DEF Outdone, Enough
      <4>3. Judges(s, c)' /\ Remembers(s, c)' /\ Recalls(s, c)'
        BY <1>3, <1>15, <3>1, <4>1, <4>2 DEF Knows, Judges, Remembers, Recalls, Judged
      <4>4. Counts(s, c)'
        BY <1>3, <1>15, <3>1, <4>1 DEF Knows, Counts, Recent, Belated, Punctual
      <4> QED
        BY <4>3, <4>4 DEF Knows
  <2> QED
    BY <2>1, <2>2
<1>16. stateFile' # Broken => Knows(stateFile, {})'
  <2> SUFFICES ASSUME stateFile' # Broken
               PROVE  Knows(stateFile, {})'
    OBVIOUS
  <2>1. PICK s : s = stateFile
    OBVIOUS
  <2>2. Knows(s, {}) /\ s \in TickStates
    BY <1>3, <2>1, StateTypes DEF TickInv, StatesKnow
  <2>3. Knows(s, {})'
    BY <2>2, <1>15
  <2>4. stateFile' = s
    BY <1>3, <2>1
  <2> QED
    BY ONLY <2>4, <2>3 DEF Knows, Judges, Remembers, Recalls, Counts, Behind, Ahead, Recent,
                      Done, Outdone, Enough
<1>17. ASSUME NEW s \in Runners
       PROVE  Knows(runner[s].st, runner[s].batch)'
  <2>1. CASE s = r
    <3>1. Knows(q, b \ {l})'
      BY <1>1, <1>2, StorerKnows
    <3>2. runner'[s].st = q /\ runner'[s].batch = b \ {l}
      BY <1>6, <2>1
    <3> QED
      BY ONLY <3>1, <3>2 DEF Knows, Judges, Remembers, Recalls, Counts, Behind, Ahead, Recent,
                              Done, Outdone, Enough
  <2>2. CASE s # r
    <3>1. PICK t, c : t = runner[s].st /\ c = runner[s].batch
      OBVIOUS
    <3>2. Knows(t, c) /\ t \in TickStates /\ c \subseteq 1..written
      BY <3>1, StateTypes DEF TickInv, StatesKnow
    <3>3. Knows(t, c)'
      BY <3>2, <1>15
    <3>4. t = runner'[s].st /\ c = runner'[s].batch
      BY <1>6, <2>2, <3>1
    <3> QED
      BY ONLY <3>4, <3>3 DEF Knows, Judges, Remembers, Recalls, Counts, Behind, Ahead, Recent,
                        Done, Outdone, Enough
  <2> QED
    BY <2>1, <2>2
<1>18. StatesKnow'
  BY <1>16, <1>17 DEF StatesKnow
<1> QED
  BY <1>7, <1>8, <1>9, <1>10, <1>11, <1>12, <1>13, <1>14, <1>18 DEF TickInv

-----------------------------------------------------------------------------
(***************************************************************************)
(* The theorems.                                                           *)
(***************************************************************************)

LEMMA TickStepInv == TickInv /\ [TickNext]_tickVars => TickInv'
<1> SUFFICES ASSUME TickInv, [TickNext]_tickVars
             PROVE  TickInv'
  OBVIOUS
<1>1. CASE AppendLine
  BY <1>1, AppendLineInv
<1>2. CASE FinishLine
  BY <1>2, FinishLineInv
<1>3. CASE PassMinute
  BY <1>3, PassMinuteInv
<1>4. ASSUME NEW r \in Runners, RunnerStep(r) \/ BreakTick(r)
      PROVE  TickInv'
  <2>1. CASE LoadTick(r)
    BY <2>1, LoadTickInv
  <2>2. CASE ReadSpool(r)
    BY <2>2, ReadSpoolInv
  <2>3. CASE OpenFile(r)
    BY <2>3, OpenFileInv
  <2>4. CASE FillFile(r)
    BY <2>4, FillFileInv
  <2>5. ASSUME NEW l \in Lines, RefuseLine(r, l)
        PROVE  TickInv'
    BY <2>5, RefuseLineInv
  <2>6. ASSUME NEW l \in Lines, StoreLine(r, l)
        PROVE  TickInv'
    BY <2>6, StoreLineInv
  <2>7. ASSUME NEW l \in Lines, RejectLine(r, l)
        PROVE  TickInv'
    BY <2>7, RejectLineInv
  <2>8. CASE BreakTick(r)
    BY <2>8, BreakTickInv
  <2> QED
    BY <1>4, <2>1, <2>2, <2>3, <2>4, <2>5, <2>6, <2>7, <2>8 DEF RunnerStep
<1>5. CASE UNCHANGED tickVars
  <2>1. TickTypeOK' /\ BatchesFit'
    BY <1>5 DEF tickVars, tickHistory, TickInv, TickTypeOK, TickStates, BatchesFit
  <2> QED
    BY <1>5, <2>1, StatesMove DEF tickVars, tickHistory
<1> QED
  BY <1>1, <1>2, <1>3, <1>4, <1>5 DEF TickNext

LEMMA TickInvariant == TickSpec => []TickInv
<1> QED
  BY TickInitInv, TickStepInv, PTL DEF TickSpec

\* The file, the log and the locals of the ticks hold only what they may.
THEOREM TickTypeCorrect == TickSpec => []TickTypeOK
<1>1. TickInv => TickTypeOK
  BY DEF TickInv
<1> QED
  BY <1>1, TickInvariant, PTL

\* However ticks overlap, raise or die: every line behind the saved offset is in the log
\* or was refused by a gate, and what was refused as a duplicate has its like in the log.
THEOREM EveryLineIsAccountedFor == TickSpec => []LinesAreAccountedFor
<1>1. TickInv => LinesAreAccountedFor
  <2> SUFFICES ASSUME TickInv PROVE LinesAreAccountedFor
    OBVIOUS
  <2>1. PassedIsJudged
    <3> SUFFICES ASSUME stateFile # Broken, NEW l \in 1..stateFile.offset
                 PROVE  Judged(l)
      BY DEF PassedIsJudged
    <3>1. Judges(stateFile, {})
      BY DEF TickInv, StatesKnow, Knows
    <3>2. l \in Behind(stateFile, {})
      BY DEF Behind
    <3> QED
      BY <3>1, <3>2 DEF Judges
  <2> QED
    BY <2>1 DEF LinesAreAccountedFor, TickInv
<1> QED
  BY <1>1, TickInvariant, PTL

\* No signature is stored twice that is not forgotten, and no minute's budget exceeded,
\* except by way of a line that one tick has refused and another stored.
THEOREM GatesHoldAlways == TickSpec => []GatesHold
<1>1. TickInv => GatesHold
  <2> SUFFICES ASSUME TickInv PROVE GatesHold
    OBVIOUS
  <2>1. SignaturesStoredOnce
    <3> SUFFICES ASSUME NEW k \in logged, NEW l \in logged, k < l, lineOf[k] = lineOf[l]
                 PROVE  Belated(k) \/ Forgotten(k, l)
      BY DEF SignaturesStoredOnce
    <3>1. k \in 1..(l - 1)
      BY TickConstants DEF TickConstants, TickInv, TickTypeOK
    <3>2. refused[k] # {} \/ Forgotten(k, l)
      BY <3>1 DEF TickInv, LogIsInOrder
    <3> QED
      BY <3>2 DEF Belated
  <2> QED
    BY <2>1 DEF GatesHold, TickInv
<1> QED
  BY <1>1, TickInvariant, PTL

-----------------------------------------------------------------------------
(***************************************************************************)
(* A line that the log refuses.                                            *)
(***************************************************************************)

\* The gates have nothing against the line that holds the tick up.
LEMMA StuckIsPassed ==
    ASSUME TickInv, NEW l \in Lines, Stuck(l), NEW r \in Runners, runner[r].pc = "gate"
    PROVE  l = FirstOf(runner[r].batch) /\ Refusal(r, l) = "none" /\ runner[r].batch # {}
<1> USE TickConstants DEF TickConstants
<1>1. /\ runner[r].stored = 0 /\ ~Full(runner[r].st) /\ l \in runner[r].batch
      /\ FirstOf(runner[r].batch) = l /\ lineOf[l] = Poison
  BY DEF Stuck
<1>2. \A k \in runner[r].st.sigs : lineOf[k] \in Sigs
  BY DEF TickInv, StatesKnow, Knows, Recalls, Done, LogFits
<1>3. (\A k \in runner[r].st.sigs : lineOf[k] # lineOf[l]) /\ lineOf[l] # Private
  BY <1>1, <1>2, ThreeApart
<1>4. ~(runner[r].stored >= MaxStored)
  BY <1>1
<1> QED
  BY <1>1, <1>3, <1>4 DEF Refusal

\* A tick that reads comes to the line first.
LEMMA StuckIsReadFirst ==
    ASSUME TickInv, NEW l \in Lines, Stuck(l), NEW r \in Runners, ReadSpool(r)
    PROVE  /\ runner'[r].pc = "gate" /\ runner'[r].stored = 0 /\ ~Full(runner[r].st)'
           /\ l \in runner'[r].batch /\ FirstOf(runner'[r].batch) = l
<1> USE TickConstants DEF TickConstants
<1>1. /\ runner[r].st = stateFile /\ runner[r].st.offset = l - 1 /\ ~Full(runner[r].st)
      /\ lineOf[l] = Poison /\ ~(half /\ l = written) /\ l <= written /\ l \in Nat /\ l > 0
  BY DEF Stuck, ReadSpool, Lines
<1>2. PICK n : n = ReadUpTo(r)
  OBVIOUS
<1>3. written \in Nat /\ runner[r].st \in TickStates /\ runner[r].stored = 0
  BY StateTypes DEF TickInv, TickTypeOK, BatchesFit, ReadSpool
<1>4. n \in (l - 1)..written /\ (n = written \/ n > l - 1)
  BY <1>1, <1>2, <1>3, ReadUpToFits
<1>5. n \in l..written
  BY <1>1, <1>3, <1>4
<1>6. PICK b : b = {k \in Passed(r, n) : Legible(k)}
  OBVIOUS
<1>7. l \in b /\ \A k \in b : k \in Nat /\ l <= k
  <2>1. Passed(r, n) = l..n
    BY <1>1, <1>5 DEF Passed
  <2>2. Legible(l)
    BY <1>1, ThreeApart DEF Legible
  <2> QED
    BY <1>1, <1>5, <1>6, <2>1, <2>2
<1>8. FirstOf(b) = l
  <2>1. b \in SUBSET Nat /\ b # {}
    BY <1>7
  <2>2. FirstOf(b) \in b /\ \A k \in b : FirstOf(b) <= k
    BY <2>1, FirstIsLeast
  <2>3. FirstOf(b) <= l /\ l <= FirstOf(b) /\ FirstOf(b) \in Nat
    BY <2>2, <1>7
  <2> HIDE DEF FirstOf
  <2> QED
    BY <2>3, <1>1
<1>9. /\ runner'[r].pc = "gate" /\ runner'[r].stored = 0 /\ runner'[r].batch = b
      /\ runner'[r].st = [runner[r].st EXCEPT !.offset = n]
  BY <1>2, <1>3, <1>6 DEF ReadSpool, TickInv, TickTypeOK
<1>10. runner'[r].st.stamp = runner[r].st.stamp /\ runner'[r].st.count = runner[r].st.count
  BY <1>3, <1>9 DEF TickStates
<1>11. ~Full(runner[r].st)'
  BY <1>1, <1>10 DEF Full, Recent, ReadSpool
<1> QED
  BY <1>7, <1>8, <1>9, <1>11

LEMMA StuckStays ==
    ASSUME TickInv, [TickNext]_tickVars, NEW l \in Lines, Stuck(l)
    PROVE  Stuck(l)' /\ logged' = logged
<1> USE TickConstants DEF TickConstants
<1> DEFINE Held(s) ==
             \/ runner[s].pc = "idle"
             \/ runner[s].pc = "read" /\ runner[s].st = stateFile
             \/ /\ runner[s].pc = "gate" /\ runner[s].stored = 0 /\ ~Full(runner[s].st)
                /\ l \in runner[s].batch /\ FirstOf(runner[s].batch) = l
<1>0. /\ l <= written /\ lineOf[l] = Poison /\ ~(half /\ l = written) /\ l \in Nat
      /\ stateFile # Broken /\ stateFile.offset = l - 1 /\ ~Full(stateFile)
      /\ written \in Nat /\ \A s \in Runners : Held(s)
  BY DEF Stuck, Lines, TickInv, TickTypeOK
<1>1. ASSUME UNCHANGED <<stateFile, logged>>, l <= written', lineOf'[l] = Poison,
             ~(half' /\ l = written'), ~Full(stateFile)', \A s \in Runners : Held(s)'
      PROVE  Stuck(l)' /\ logged' = logged
  BY <1>0, <1>1 DEF Stuck
<1>2. ASSUME NEW r \in Runners, Held(r)', UNCHANGED <<stateFile, logged, written, lineOf, half, minute>>,
             \A s \in Runners : s # r => runner'[s] = runner[s]
      PROVE  Stuck(l)' /\ logged' = logged
  <2>1. \A s \in Runners : Held(s)'
    <3> SUFFICES ASSUME NEW s \in Runners, s # r PROVE Held(s)'
      BY <1>2
    <3>1. Held(s) /\ runner'[s] = runner[s] /\ minute' = minute /\ stateFile' = stateFile
      BY <1>0, <1>2
    <3> QED
      BY <3>1 DEF Full, Recent
  <2>2. ~Full(stateFile)'
    BY <1>0, <1>2 DEF Full, Recent
  <2> QED
    BY <1>0, <1>1, <1>2, <2>1, <2>2
<1>3. CASE AppendLine
  <2>1. UNCHANGED <<stateFile, logged, runner, minute>> /\ written' = written + 1
    BY <1>3 DEF AppendLine
  <2>2. lineOf'[l] = lineOf[l]
    BY <1>3, <1>0 DEF AppendLine, TickInv, TickTypeOK, Lines
  <2>3. \A s \in Runners : Held(s)'
    BY <1>0, <2>1 DEF Full, Recent
  <2>4. ~Full(stateFile)'
    BY <1>0, <2>1 DEF Full, Recent
  <2>5. l <= written' /\ l # written'
    BY <1>0, <2>1
  <2> QED
    BY <1>0, <1>1, <2>1, <2>2, <2>3, <2>4, <2>5
<1>4. CASE FinishLine
  <2>1. UNCHANGED <<stateFile, logged, runner, minute, written, lineOf>> /\ ~half'
    BY <1>4 DEF FinishLine
  <2>2. \A s \in Runners : Held(s)'
    BY <1>0, <2>1 DEF Full, Recent
  <2>3. ~Full(stateFile)'
    BY <1>0, <2>1 DEF Full, Recent
  <2> QED
    BY <1>0, <1>1, <2>1, <2>2, <2>3
<1>5. CASE PassMinute
  <2>1. UNCHANGED <<stateFile, logged, runner, half, written, lineOf>> /\ minute' = minute + 1
    BY <1>5 DEF PassMinute
  <2>2. ASSUME NEW st \in TickStates
        PROVE  ~Full(st)'
    <3>1. st.stamp # minute'
      BY <2>1 DEF TickStates, TickInv, TickTypeOK
    <3> QED
      BY <3>1 DEF Full, Recent
  <2>3. ~Full(stateFile)'
    <3>1. PICK st : st = stateFile
      OBVIOUS
    <3>2. ~Full(st)'
      BY <3>1, <2>2, <1>0, StateTypes
    <3> QED
      BY <3>1, <3>2, <2>1 DEF Full, Recent
  <2>4. \A s \in Runners : Held(s)'
    <3> SUFFICES ASSUME NEW s \in Runners PROVE Held(s)'
      OBVIOUS
    <3>1. PICK st : st = runner[s].st
      OBVIOUS
    <3>2. ~Full(st)'
      BY <3>1, <2>2, StateTypes
    <3>3. ~Full(runner[s].st)'
      BY <3>1, <3>2, <2>1 DEF Full, Recent
    <3> QED
      BY <1>0, <2>1, <3>3
  <2> QED
    BY <1>0, <1>1, <2>1, <2>3, <2>4
<1>6. ASSUME NEW r \in Runners, RunnerStep(r) \/ BreakTick(r)
      PROVE  Stuck(l)' /\ logged' = logged
  <2>1. CASE LoadTick(r)
    <3>1. runner'[r].pc = "read" /\ runner'[r].st = stateFile
      BY <2>1, <1>0 DEF LoadTick, TickInv, TickTypeOK
    <3>2. \A s \in Runners : s # r => runner'[s] = runner[s]
      BY <2>1 DEF LoadTick, TickInv, TickTypeOK
    <3> QED
      BY <1>2, <3>1, <3>2, <2>1 DEF LoadTick
  <2>2. CASE ReadSpool(r)
    <3>1. Held(r)'
      BY <2>2, StuckIsReadFirst
    <3>2. \A s \in Runners : s # r => runner'[s] = runner[s]
      BY <2>2 DEF ReadSpool, TickInv, TickTypeOK
    <3> QED
      BY <1>2, <3>1, <3>2, <2>2 DEF ReadSpool
  <2>3. CASE OpenFile(r)
    BY <2>3, StuckIsPassed DEF OpenFile
  <2>4. CASE FillFile(r)
    BY <2>4, <1>0 DEF FillFile
  <2>5. ASSUME NEW k \in Lines, RefuseLine(r, k)
        PROVE  FALSE
    BY <2>5, StuckIsPassed DEF RefuseLine, Gating
  <2>6. ASSUME NEW k \in Lines, StoreLine(r, k)
        PROVE  FALSE
    BY <2>6, <1>0, StuckIsPassed DEF StoreLine, Gating
  <2>7. ASSUME UNCHANGED <<stateFile, logged, written, lineOf, half, minute>>,
               runner' = [runner EXCEPT ![r] = Asleep]
        PROVE  Stuck(l)' /\ logged' = logged
    <3>1. runner'[r].pc = "idle"
      BY <2>7 DEF Asleep, TickInv, TickTypeOK
    <3>2. \A s \in Runners : s # r => runner'[s] = runner[s]
      BY <2>7 DEF TickInv, TickTypeOK
    <3> QED
      BY <1>2, <3>1, <3>2, <2>7
  <2>8. ASSUME NEW k \in Lines, RejectLine(r, k)
        PROVE  Stuck(l)' /\ logged' = logged
    BY <2>7, <2>8 DEF RejectLine
  <2>9. CASE BreakTick(r)
    BY <2>7, <2>9 DEF BreakTick
  <2> QED
    BY <1>6, <2>1, <2>2, <2>3, <2>4, <2>5, <2>6, <2>8, <2>9 DEF RunnerStep
<1>7. CASE UNCHANGED tickVars
  BY <1>7, <1>0, <1>1 DEF tickVars, Full, Recent
<1> QED
  BY <1>3, <1>4, <1>5, <1>6, <1>7 DEF TickNext

\* Once such a line is the next with budget left and no tick is past it, nothing but it is
\* ever read and nothing more is stored.
THEOREM PoisonHolds == TickSpec => PoisonHoldsForGood
<1>1. TickInv /\ [TickNext]_tickVars
        => [\A l \in Lines : Stuck(l) => Stuck(l)' /\ logged' = logged]_tickVars
  BY StuckStays
<1> QED
  BY <1>1, TickInvariant, PTL DEF TickSpec, PoisonHoldsForGood
=============================================================================
