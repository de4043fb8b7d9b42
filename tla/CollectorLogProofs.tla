-------------------------- MODULE CollectorLogProofs --------------------------
(***************************************************************************)
(* Theorems about CollectorLog, for any consumers, any number of ticks at  *)
(* a time, any limits and any number of faults.                            *)
(***************************************************************************)
EXTENDS CollectorLog, FiniteSetTheorems, TLAPS

-----------------------------------------------------------------------------
(* Type correctness. *)

Locals == [pc : PCs, stage : 1..Len(Order), base : 0..latest,
           batch : SUBSET (1..latest), last : 0..latest,
           item : 0..latest, tried : 0..(MaxAttempts - 1),
           draft : SUBSET Sequence, floor : 0..latest,
           excess : 0..latest]

\* A tick that has recorded a failure knows of which event.
HasItem(l) == l.pc \in {"failed", "retry", "deadAck"} => l.item > 0

\* The tables and the history, without the locals of the ticks.
TablesOK ==
    /\ latest \in 0..MaxSequence
    /\ live \subseteq 1..latest
    /\ aged \in 0..latest
    /\ offset \in [Consumers -> 0..latest]
    /\ attempts \in [Consumers -> [Sequence -> 0..(MaxAttempts - 1)]]
    /\ waiting \in [Consumers -> SUBSET Sequence]
    /\ dead \in [Consumers -> SUBSET Sequence]
    /\ saved \in [Consumers -> SUBSET Sequence]
    /\ handled \in [Consumers -> [Sequence -> Nat]]
    /\ failures \in [Consumers -> [Sequence -> Nat]]
    /\ missed \in [Consumers -> SUBSET Sequence]
    /\ faults \in 0..MaxFaults

LocalsOK == tick \in [Ticks -> Locals] /\ \A t \in Ticks : HasItem(tick[t])

LEMMA TypeParts ==
    (TypeOK <=> TablesOK /\ LocalsOK) /\ (TypeOK' <=> TablesOK' /\ LocalsOK')
  BY DEF TypeOK, TablesOK, LocalsOK, Locals, HasItem

\* A tick between two consumers is well typed, and holds nothing.
LEMMA IdleIsTyped ==
    ASSUME TablesOK
    PROVE  /\ Idle \in Locals /\ HasItem(Idle)
           /\ \A p \in PCs, n \in 1..Len(Order) :
                [Idle EXCEPT !.pc = p, !.stage = n] \in Locals
           /\ \A p \in PCs : [Idle EXCEPT !.pc = p] \in Locals
           /\ \A n \in 1..Len(Order) : FirstPC(n) \in PCs
           /\ 1 \in 1..Len(Order)
<1>1. Len(Order) \in Nat /\ Len(Order) # 0
  BY LogConstants
<1>2. latest \in Nat
  BY LogConstants DEF TablesOK
<1>3. /\ 0 \in 0..latest /\ {} \in SUBSET (1..latest) /\ {} \in SUBSET Sequence
      /\ 0 \in 0..(MaxAttempts - 1) /\ 1 \in 1..Len(Order)
  BY <1>1, <1>2, LogConstants
<1>4. \A p \in PCs, n \in 1..Len(Order) : [Idle EXCEPT !.pc = p, !.stage = n] \in Locals
  BY <1>3 DEF Idle, Locals
<1>5. \A p \in PCs : [Idle EXCEPT !.pc = p] \in Locals
  BY <1>3 DEF Idle, Locals
<1>6. Idle \in Locals /\ HasItem(Idle)
  BY <1>3 DEF Idle, Locals, HasItem, PCs
<1>7. \A n \in 1..Len(Order) : FirstPC(n) \in PCs
  BY DEF FirstPC, PCs
<1> QED
  BY <1>3, <1>4, <1>5, <1>6, <1>7

LEMMA ZeroIsInRange ==
    ASSUME TablesOK
    PROVE  0 \in 0..latest /\ 0 \in 0..(MaxAttempts - 1)
  BY LogConstants DEF TablesOK

\* The consumer that a tick runs is one.
LEMMA RunningIsConsumer ==
    ASSUME LocalsOK, NEW t \in Ticks
    PROVE  /\ Running(t) \in Consumers /\ tick[t] \in Locals
           /\ tick[t].stage \in 1..Len(Order)
  BY LogConstants DEF LocalsOK, Locals, Running

\* Locals stay well typed when the log grows.
LEMMA LocalsGrow ==
    ASSUME TablesOK, TablesOK', latest <= latest'
    PROVE  Locals \subseteq Locals'
<1>1. 0..latest \subseteq 0..latest' /\ 1..latest \subseteq 1..latest'
  BY LogConstants DEF TablesOK
<1> QED
  BY <1>1 DEF Locals

\* One tick's locals change.
LEMMA TickMoves ==
    ASSUME TablesOK, TablesOK', LocalsOK, latest' = latest,
           NEW t \in Ticks, NEW l \in Locals, HasItem(l), Becomes(t, l)
    PROVE  LocalsOK'
<1>1. Locals' = Locals
  BY DEF Locals
<1> QED
  BY <1>1 DEF LocalsOK, Becomes

\* On to the next consumer or to the retention.
LEMMA NextConsumerIsTyped ==
    ASSUME TablesOK, LocalsOK, NEW t \in Ticks, NextConsumer(t)
    PROVE  \E l \in Locals :
             /\ Becomes(t, l)
             /\ l.pc \notin {"failed", "retry", "deadAck", "read", "delete", "reload",
                             "submit", "save"}
             /\ l.batch = {} /\ l.last = 0
             /\ l.pc = "load" => Kind[Order[l.stage]] = "attention"
             /\ l.pc \in {"load", "offset", "floor"}
             /\ l.pc = "offset" => Kind[Order[l.stage]] # "attention"
<1> DEFINE next == tick[t].stage + 1
           to == IF next <= Len(Order) THEN [Idle EXCEPT !.pc = FirstPC(next), !.stage = next]
                                       ELSE [Idle EXCEPT !.pc = "floor"]
<1>1. Becomes(t, to)
  BY DEF NextConsumer
<1>2. next \in Nat /\ next >= 1 /\ Len(Order) \in Nat
  BY RunningIsConsumer, LogConstants
<1>3. CASE next <= Len(Order)
  <2>1. next \in 1..Len(Order)
    BY <1>2, <1>3
  <2>2. to = [Idle EXCEPT !.pc = FirstPC(next), !.stage = next]
    BY <1>3
  <2>3. to \in Locals /\ to.pc = FirstPC(next) /\ to.batch = {} /\ to.last = 0
        /\ to.stage = next
    BY <2>1, <2>2, IdleIsTyped DEF Idle, FirstPC
  <2> HIDE DEF to, next
  <2> QED
    BY <1>1, <2>3 DEF FirstPC
<1>4. CASE ~(next <= Len(Order))
  <2>1. to = [Idle EXCEPT !.pc = "floor"]
    BY <1>4
  <2>2. to \in Locals /\ to.pc = "floor" /\ to.batch = {} /\ to.last = 0
    BY <2>1, IdleIsTyped DEF Idle, PCs
  <2> HIDE DEF to, next
  <2> QED
    BY <1>1, <2>2
<1> QED
  BY <1>3, <1>4

\* An acknowledgement keeps its tables well typed, and never goes back.
LEMMA AcknowledgeIsTyped ==
    ASSUME TablesOK, NEW c \in Consumers, NEW n \in 0..latest, Acknowledge(c, n)
    PROVE  /\ offset' \in [Consumers -> 0..latest]
           /\ attempts' \in [Consumers -> [Sequence -> 0..(MaxAttempts - 1)]]
           /\ waiting' \in [Consumers -> SUBSET Sequence]
           /\ \A d \in Consumers : /\ offset[d] <= offset'[d]
                                   /\ offset'[d] \in {offset[d], n}
                                   /\ d # c => offset'[d] = offset[d]
           /\ \A d \in Consumers, s \in Sequence : attempts'[d][s] <= attempts[d][s]
<1> USE DEF TablesOK, Acknowledge
<1>1. 0 \in 0..(MaxAttempts - 1) /\ latest \in Nat
  BY LogConstants
<1>2. offset' \in [Consumers -> 0..latest]
  BY <1>1
<1>3. attempts' \in [Consumers -> [Sequence -> 0..(MaxAttempts - 1)]]
  BY <1>1
<1>4. waiting' \in [Consumers -> SUBSET Sequence]
  OBVIOUS
<1>5. ASSUME NEW d \in Consumers
      PROVE  offset[d] <= offset'[d] /\ offset'[d] \in {offset[d], n} /\ (d # c => offset'[d] = offset[d])
  <2>1. offset[d] \in Nat /\ n \in Nat
    BY <1>1
  <2>2. offset'[d] = IF d = c THEN IF offset[c] > n THEN offset[c] ELSE n ELSE offset[d]
    OBVIOUS
  <2>3. offset'[d] \in {offset[d], n} /\ (d # c => offset'[d] = offset[d])
    BY <2>2
  <2>4. offset[d] <= offset'[d]
    BY <2>1, <2>2
  <2> QED
    BY <2>3, <2>4
<1>6. ASSUME NEW d \in Consumers, NEW s \in Sequence
      PROVE  attempts'[d][s] <= attempts[d][s]
  <2>1. attempts[d][s] \in 0..(MaxAttempts - 1)
    OBVIOUS
  <2>2. attempts'[d] = IF d = c THEN [q \in Sequence |-> IF q <= n THEN 0 ELSE attempts[c][q]]
                                ELSE attempts[d]
    OBVIOUS
  <2>3. attempts'[d][s] = 0 \/ attempts'[d][s] = attempts[d][s]
    BY <2>2
  <2> HIDE DEF TablesOK, Acknowledge
  <2> QED
    BY <2>1, <2>3, LogConstants
<1> QED
  BY <1>2, <1>3, <1>4, <1>5, <1>6

LEMMA TypeInit == Init => TypeOK
<1> SUFFICES ASSUME Init PROVE TypeOK
  OBVIOUS
<1>1. TablesOK
  BY LogConstants DEF Init, TablesOK
<1>2. LocalsOK
  BY <1>1, IdleIsTyped DEF Init, LocalsOK
<1> QED
  BY <1>1, <1>2, TypeParts

\* A step that moves one tick and leaves the tables alone.
LEMMA OnlyTheTickMoves ==
    ASSUME TablesOK, LocalsOK, NEW t \in Ticks, NEW l \in Locals, HasItem(l), Becomes(t, l),
           UNCHANGED <<events, offset, failing, saved, history, faults>>
    PROVE  TypeOK'
<1>1. TablesOK'
  BY DEF TablesOK, events, failing, history
<1> QED
  BY <1>1, TickMoves, TypeParts DEF events

\* The next event of a batch.
LEMMA BatchIsTyped ==
    ASSUME TablesOK, LocalsOK, NEW t \in Ticks, NEW s \in tick[t].batch
    PROVE  s \in 1..latest /\ s \in 0..latest /\ s \in Sequence /\ s \in Nat /\ s > 0
<1>1. tick[t].batch \in SUBSET (1..latest) /\ latest \in 0..MaxSequence /\ MaxSequence \in Nat
  BY RunningIsConsumer, LogConstants DEF TablesOK, Locals
<1>2. s \in 1..latest
  BY <1>1
<1> QED
  BY <1>1, <1>2 DEF Sequence

LEMMA TypeStepOfTick == ASSUME TypeOK, NEW t \in Ticks, TickStep(t) PROVE TypeOK'
<1> DEFINE c == Running(t)
<1>1. TablesOK /\ LocalsOK /\ c \in Consumers /\ tick[t] \in Locals
      /\ tick[t].stage \in 1..Len(Order) /\ HasItem(tick[t])
  BY TypeParts, RunningIsConsumer DEF LocalsOK
<1>2. /\ latest \in Nat /\ live \subseteq 1..latest /\ latest \in 0..MaxSequence
      /\ 0 \in 0..latest /\ 1..latest \subseteq Sequence /\ 0 \in 0..(MaxAttempts - 1)
  BY <1>1, LogConstants DEF TablesOK, Sequence
<1>3. CASE StartTick(t)
  <2>1. [Idle EXCEPT !.pc = IF t \in Bare THEN "floor" ELSE FirstPC(1)] \in Locals
    BY <1>1, IdleIsTyped DEF PCs
  <2>2. HasItem([Idle EXCEPT !.pc = IF t \in Bare THEN "floor" ELSE FirstPC(1)])
    BY DEF HasItem, FirstPC, Idle
  <2> QED
    BY <1>1, <1>3, <2>1, <2>2, OnlyTheTickMoves DEF StartTick
<1>4. CASE SkipConsumer(t)
  <2>1. PICK l \in Locals : Becomes(t, l) /\ HasItem(l)
    BY <1>1, <1>4, NextConsumerIsTyped DEF SkipConsumer, HasItem
  <2> QED
    BY <1>1, <1>4, <2>1, OnlyTheTickMoves DEF SkipConsumer
<1>5. CASE LoadState(t)
  <2> DEFINE l == [tick[t] EXCEPT !.pc = IF @ = "load" THEN "offset" ELSE "handle",
                                  !.draft = saved[Running(t)]]
  <2>1. saved[Running(t)] \in SUBSET Sequence
    BY <1>1 DEF TablesOK
  <2>2. l \in Locals /\ HasItem(l)
    BY <1>1, <2>1 DEF Locals, HasItem, PCs
  <2> QED
    BY <1>1, <1>5, <2>2, OnlyTheTickMoves DEF LoadState
<1>6. CASE ReadOffset(t)
  <2> DEFINE l == [tick[t] EXCEPT !.pc = "read", !.base = offset[Running(t)]]
  <2>1. offset[Running(t)] \in 0..latest
    BY <1>1 DEF TablesOK
  <2>2. l \in Locals /\ HasItem(l)
    BY <1>1, <2>1 DEF Locals, HasItem, PCs
  <2> QED
    BY <1>1, <1>6, <2>2, OnlyTheTickMoves DEF ReadOffset
<1>7. CASE ReadEvents(t)
  <2>1. PICK to \in 0..latest :
          Becomes(t, [tick[t] EXCEPT !.pc = AfterRead(t), !.base = 0,
                                     !.batch = Rows(tick[t].base, to)])
    BY <1>7 DEF ReadEvents
  <2> DEFINE l == [tick[t] EXCEPT !.pc = AfterRead(t), !.base = 0,
                                  !.batch = Rows(tick[t].base, to)]
  <2>2. Rows(tick[t].base, to) \subseteq 1..latest
    BY <1>2 DEF Rows
  <2>3. l \in Locals /\ HasItem(l)
    BY <1>1, <1>2, <2>2 DEF Locals, HasItem, PCs, AfterRead
  <2> QED
    BY <1>1, <1>7, <2>1, <2>3, OnlyTheTickMoves DEF ReadEvents
<1>8. CASE Handle(t)
  <2>1. PICK s \in tick[t].batch :
          /\ Becomes(t, [tick[t] EXCEPT !.batch = @ \ {s}, !.last = s])
          /\ handled' = [handled EXCEPT ![Running(t)][s] = @ + 1]
    BY <1>8 DEF Handle
  <2> DEFINE l == [tick[t] EXCEPT !.batch = @ \ {s}, !.last = s]
  <2>2. s \in 0..latest /\ s \in Sequence
    BY <1>1, BatchIsTyped
  <2>3. l \in Locals /\ HasItem(l)
    BY <1>1, <2>2 DEF Locals, HasItem
  <2>4. handled' \in [Consumers -> [Sequence -> Nat]]
    BY <1>1, <2>1, <2>2 DEF TablesOK
  <2>5. TablesOK'
    BY <1>1, <1>8, <2>4 DEF TablesOK, Handle, events, failing
  <2> QED
    BY <1>1, <1>8, <2>1, <2>3, <2>5, TickMoves, TypeParts DEF Handle, events
<1>9. CASE Keep(t)
  <2>1. PICK s \in tick[t].batch :
          LET grown == tick[t].draft \cup {s} IN
          /\ Becomes(t, [tick[t] EXCEPT !.batch = @ \ {s}, !.last = s, !.draft = Newest(grown)])
          /\ missed' = [missed EXCEPT ![Running(t)] = @ \cup (grown \ Newest(grown))]
    BY <1>9 DEF Keep
  <2> DEFINE grown == tick[t].draft \cup {s}
             l == [tick[t] EXCEPT !.batch = @ \ {s}, !.last = s, !.draft = Newest(grown)]
  <2>2. s \in 0..latest /\ s \in Sequence
    BY <1>1, BatchIsTyped
  <2>3. grown \in SUBSET Sequence /\ Newest(grown) \in SUBSET grown
    BY <1>1, <2>2 DEF Locals, Newest
  <2>4. l \in Locals /\ HasItem(l)
    BY <1>1, <2>2, <2>3 DEF Locals, HasItem
  <2>5. missed' \in [Consumers -> SUBSET Sequence]
    BY <1>1, <2>1, <2>3 DEF TablesOK
  <2>6. TablesOK'
    BY <1>1, <1>9, <2>5 DEF TablesOK, Keep, events, failing
  <2> QED
    BY <1>1, <1>9, <2>1, <2>4, <2>6, TickMoves, TypeParts DEF Keep, events
<1>10. CASE HandleFails(t)
  <2>1. PICK s \in tick[t].batch :
          /\ Becomes(t, [tick[t] EXCEPT !.pc = "failed", !.item = s, !.batch = {}])
          /\ failures' = [failures EXCEPT ![Running(t)][s] = @ + 1]
    BY <1>10 DEF HandleFails
  <2> DEFINE l == [tick[t] EXCEPT !.pc = "failed", !.item = s, !.batch = {}]
  <2>2. s \in 0..latest /\ s \in Sequence /\ s > 0
    BY <1>1, BatchIsTyped
  <2>3. l \in Locals /\ HasItem(l)
    BY <1>1, <2>2 DEF Locals, HasItem, PCs
  <2>4. failures' \in [Consumers -> [Sequence -> Nat]]
    BY <1>1, <2>1, <2>2 DEF TablesOK
  <2>5. TablesOK'
    BY <1>1, <1>10, <2>4 DEF TablesOK, HandleFails, events, failing
  <2> QED
    BY <1>1, <1>10, <2>1, <2>3, <2>5, TickMoves, TypeParts DEF HandleFails, events
<1> DEFINE i == tick[t].item
<1>11. tick[t].pc \in {"failed", "retry", "deadAck"} => i \in Sequence /\ i \in 0..latest
  BY <1>1, <1>2 DEF HasItem, Locals, Sequence
<1>12. CASE RetryRead(t)
  <2> DEFINE l == [tick[t] EXCEPT !.pc = "retry", !.tried = attempts[Running(t)][tick[t].item]]
  <2>1. attempts[c][i] \in 0..(MaxAttempts - 1)
    BY <1>1, <1>11, <1>12 DEF TablesOK, RetryRead, At
  <2>2. l \in Locals
    BY <1>1, <2>1 DEF Locals, PCs
  <2>3. HasItem(l)
    BY <1>1, <1>12 DEF HasItem, RetryRead, At, Locals
  <2> QED
    BY <1>1, <1>12, <2>2, <2>3, OnlyTheTickMoves DEF RetryRead
<1>13. CASE RetryLater(t)
  <2> DEFINE l == [tick[t] EXCEPT !.pc = "handle", !.item = 0, !.tried = 0]
  <2>1. l \in Locals /\ HasItem(l)
    BY <1>1, <1>2 DEF Locals, PCs, HasItem
  <2>2. i \in Sequence /\ tick[t].tried + 1 \in 0..(MaxAttempts - 1)
    <3>1. tick[t].tried \in 0..(MaxAttempts - 1) /\ tick[t].tried + 1 < MaxAttempts
      BY <1>1, <1>13 DEF RetryLater, Locals
    <3> QED
      <4>1. i \in Sequence
        BY <1>11, <1>13 DEF RetryLater, At
      <4> QED
        BY ONLY <3>1, <4>1, LogConstants
  <2>3. attempts' \in [Consumers -> [Sequence -> 0..(MaxAttempts - 1)]]
    BY <1>1, <1>13, <2>2 DEF TablesOK, RetryLater
  <2>4. waiting' \in [Consumers -> SUBSET Sequence]
    BY <1>1, <1>13, <2>2 DEF TablesOK, RetryLater
  <2>5. TablesOK'
    BY <1>1, <1>13, <2>3, <2>4 DEF TablesOK, RetryLater, events, history
  <2> QED
    BY <1>1, <1>13, <2>1, <2>5, TickMoves, TypeParts DEF RetryLater, events
<1>14. CASE DeadLetter(t)
  <2> DEFINE l == [tick[t] EXCEPT !.pc = "deadAck", !.tried = 0]
  <2>1. l \in Locals /\ HasItem(l)
    BY <1>1, <1>2, <1>14 DEF Locals, PCs, HasItem, DeadLetter, At
  <2>2. i \in Sequence
    BY <1>11, <1>14 DEF DeadLetter, At
  <2>3. attempts' \in [Consumers -> [Sequence -> 0..(MaxAttempts - 1)]]
    BY <1>1, <1>2, <1>14, <2>2 DEF TablesOK, DeadLetter
  <2>4. waiting' \in [Consumers -> SUBSET Sequence] /\ dead' \in [Consumers -> SUBSET Sequence]
    BY <1>1, <1>14, <2>2 DEF TablesOK, DeadLetter
  <2>5. TablesOK'
    BY <1>1, <1>14, <2>3, <2>4 DEF TablesOK, DeadLetter, events, history
  <2> QED
    BY <1>1, <1>14, <2>1, <2>5, TickMoves, TypeParts DEF DeadLetter, events
<1>15. CASE DeadAck(t)
  <2> DEFINE l == [tick[t] EXCEPT !.pc = "handle", !.item = 0]
  <2>1. l \in Locals /\ HasItem(l)
    BY <1>1, <1>2 DEF Locals, PCs, HasItem
  <2>2. i \in 0..latest /\ Acknowledge(c, i)
    BY <1>11, <1>15 DEF DeadAck, At
  <2>3. TablesOK'
    BY <1>1, <1>15, <2>2, AcknowledgeIsTyped DEF TablesOK, DeadAck, events, history
  <2> QED
    BY <1>1, <1>15, <2>1, <2>3, TickMoves, TypeParts DEF DeadAck, events
<1>16. CASE AckBatch(t)
  <2>1. tick[t].last \in 0..latest
    BY <1>1 DEF Locals
  <2>2. ASSUME Acknowledge(c, tick[t].last) PROVE TablesOK'
    <3>1. /\ offset' \in [Consumers -> 0..latest]
          /\ attempts' \in [Consumers -> [Sequence -> 0..(MaxAttempts - 1)]]
          /\ waiting' \in [Consumers -> SUBSET Sequence]
      BY <1>1, <2>1, <2>2, AcknowledgeIsTyped
    <3> QED
      BY <1>1, <1>16, <3>1 DEF TablesOK, AckBatch, events, history
  <2>3. ASSUME UNCHANGED <<offset, attempts, waiting>> PROVE TablesOK'
    BY <1>1, <1>16, <2>3 DEF TablesOK, AckBatch, events, history
  <2>4. TablesOK'
    <3>1. Acknowledge(c, tick[t].last) \/ UNCHANGED <<offset, attempts, waiting>>
      BY <1>16 DEF AckBatch
    <3> QED
      BY <3>1, <2>2, <2>3
  <2>5. PICK l \in Locals : Becomes(t, l) /\ HasItem(l)
    <3>1. CASE NextConsumer(t)
      BY <1>1, <3>1, NextConsumerIsTyped DEF HasItem
    <3>2. ASSUME NEW p \in {"save", "submit"}, Becomes(t, [tick[t] EXCEPT !.pc = p])
          PROVE  \E l \in Locals : Becomes(t, l) /\ HasItem(l)
      <4>1. [tick[t] EXCEPT !.pc = p] \in Locals /\ HasItem([tick[t] EXCEPT !.pc = p])
        BY <1>1 DEF Locals, HasItem, PCs
      <4> QED
        BY <3>2, <4>1
    <3> QED
      BY <1>16, <3>1, <3>2 DEF AckBatch
  <2> QED
    BY <1>1, <1>16, <2>4, <2>5, TickMoves, TypeParts DEF AckBatch, events
<1>17. CASE Submit(t)
  <2>1. PICK due \in {{}, tick[t].draft} :
          /\ handled' = [handled EXCEPT ![Running(t)] =
                           [s \in Sequence |-> IF s \in due THEN @[s] + 1 ELSE @[s]]]
          /\ Becomes(t, [tick[t] EXCEPT !.pc = "save", !.draft = @ \ due])
    BY <1>17 DEF Submit
  <2> DEFINE l == [tick[t] EXCEPT !.pc = "save", !.draft = @ \ due]
  <2>2. l \in Locals /\ HasItem(l)
    BY <1>1 DEF Locals, HasItem, PCs
  <2>3. handled' \in [Consumers -> [Sequence -> Nat]]
    BY <1>1, <2>1 DEF TablesOK
  <2>4. TablesOK'
    BY <1>1, <1>17, <2>3 DEF TablesOK, Submit, events, failing
  <2> QED
    BY <1>1, <1>17, <2>1, <2>2, <2>4, TickMoves, TypeParts DEF Submit, events
<1>18. CASE SaveState(t)
  <2>1. PICK l \in Locals : Becomes(t, l) /\ HasItem(l)
    BY <1>1, <1>18, NextConsumerIsTyped DEF SaveState, HasItem
  <2>2. saved' \in [Consumers -> SUBSET Sequence]
    BY <1>1, <1>18 DEF TablesOK, SaveState, Locals
  <2>3. TablesOK'
    BY <1>1, <1>18, <2>2 DEF TablesOK, SaveState, events, failing, history
  <2> QED
    BY <1>1, <1>18, <2>1, <2>3, TickMoves, TypeParts DEF SaveState, events
<1>19. CASE ReadFloor(t)
  <2>1. CASE Becomes(t, Idle)
    BY <1>1, <1>19, <2>1, IdleIsTyped, OnlyTheTickMoves DEF ReadFloor
  <2>2. ASSUME NEW n \in Offsets,
               Becomes(t, [tick[t] EXCEPT !.pc = "delete", !.floor = n, !.excess = Excess])
        PROVE  TypeOK'
    <3>1. n \in 0..latest /\ Excess \in 0..latest
      BY <1>1, <1>2, LogConstants DEF TablesOK, Offsets, Excess
    <3>2. /\ [tick[t] EXCEPT !.pc = "delete", !.floor = n, !.excess = Excess] \in Locals
          /\ HasItem([tick[t] EXCEPT !.pc = "delete", !.floor = n, !.excess = Excess])
      BY <1>1, <3>1 DEF Locals, HasItem, PCs
    <3> QED
      BY <1>1, <1>19, <2>2, <3>2, OnlyTheTickMoves DEF ReadFloor
  <2> QED
    BY <1>19, <2>1, <2>2 DEF ReadFloor
<1>20. CASE Delete(t)
  <2>1. live' \subseteq live /\ Becomes(t, Idle)
    BY <1>20 DEF Delete
  <2>2. missed' \in [Consumers -> SUBSET Sequence]
    BY <1>1, <1>2, <1>20 DEF TablesOK, Delete
  <2>3. TablesOK'
    BY <1>1, <1>20, <2>1, <2>2 DEF TablesOK, Delete, failing
  <2> QED
    BY <1>1, <1>20, <2>1, <2>3, IdleIsTyped, TickMoves, TypeParts DEF Delete
<1> QED
  BY <1>3, <1>4, <1>5, <1>6, <1>7, <1>8, <1>9, <1>10, <1>12, <1>13, <1>14, <1>15, <1>16,
     <1>17, <1>18, <1>19, <1>20 DEF TickStep

\* Ticks that raise or crash leave typed locals.
LEMMA AbandonIsTyped == ASSUME TypeOK, NEW ticks, Abandon(ticks) PROVE TypeOK'
<1>1. TablesOK /\ LocalsOK
  BY TypeParts
<1>2. TablesOK'
  BY <1>1, LogConstants DEF TablesOK, Abandon, events, failing, history
<1>3. Locals' = Locals
  BY DEF Abandon, Locals, events
<1>4. LocalsOK'
  BY <1>1, <1>3, IdleIsTyped DEF LocalsOK, Abandon
<1> QED
  BY <1>2, <1>4, TypeParts

LEMMA TypeStep == TypeOK /\ [Next]_vars => TypeOK'
<1> SUFFICES ASSUME TypeOK, [Next]_vars PROVE TypeOK'
  OBVIOUS
<1>1. TablesOK /\ LocalsOK
  BY TypeParts
<1>2. CASE UNCHANGED vars
  BY <1>2 DEF vars, events, failing, history, TypeOK
<1>3. CASE AppendEvent
  <2>1. latest \in Nat /\ MaxSequence \in Nat /\ latest < MaxSequence
    BY <1>1, <1>3, LogConstants DEF TablesOK, AppendEvent
  <2>2. latest' \in 0..MaxSequence /\ 0..latest \subseteq 0..latest'
        /\ 1..latest \subseteq 1..latest' /\ latest' \in 1..latest' /\ latest <= latest'
    BY <1>3, <2>1 DEF AppendEvent
  <2>3. live' \subseteq 1..latest'
    BY <1>1, <1>3, <2>2 DEF TablesOK, AppendEvent
  <2>4. offset' \in [Consumers -> 0..latest'] /\ aged' \in 0..latest'
    BY <1>1, <1>3, <2>2 DEF TablesOK, AppendEvent
  <2>5. TablesOK'
    BY <1>1, <1>3, <2>2, <2>3, <2>4 DEF TablesOK, AppendEvent, failing, history
  <2>6. LocalsOK'
    BY <1>1, <1>3, <2>2, <2>5, LocalsGrow DEF LocalsOK, AppendEvent
  <2> QED
    BY <2>5, <2>6, TypeParts
<1>4. CASE GrowOld
  <2>1. aged' \in 0..latest
    BY <1>1, <1>4, LogConstants DEF TablesOK, GrowOld
  <2> QED
    BY <1>4, <2>1 DEF TypeOK, GrowOld, failing, history
<1>5. CASE Elapse
  <2>1. waiting' \in [Consumers -> SUBSET Sequence]
    BY <1>1, <1>5 DEF TablesOK, Elapse
  <2> QED
    BY <1>5, <2>1 DEF TypeOK, Elapse, events, history
<1>6. CASE Crash \/ \E t \in Ticks : Raise(t)
  BY <1>6, AbandonIsTyped DEF Crash, Raise
<1>7. ASSUME NEW t \in Ticks, TickStep(t) PROVE TypeOK'
  BY <1>7, TypeStepOfTick
<1> QED
  BY <1>2, <1>3, <1>4, <1>5, <1>6, <1>7 DEF Next

\* Every column and every local stays in its range, for any consumers, ticks and faults
\* (event_log.py and the consumers).
THEOREM TypeCorrect == Spec => []TypeOK
  BY TypeInit, TypeStep, PTL DEF Spec

-----------------------------------------------------------------------------
(***************************************************************************)
(* The inductive invariant.  SettlingIsEarned says what the tables hold;   *)
(* what a tick still carries in its locals must be earned as well, whoever *)
(* else writes meanwhile.                                                  *)
(***************************************************************************)

\* What a consumer is through with or will never see.
Reached(c) == Settled(c) \cup missed[c]

\* What the locals l of a tick say of the tables.  A batch holds all that its
\* consumer has still to reach in front of the batch's last event.
Agrees(l) ==
    LET c == Order[l.stage] IN
    /\ l.pc = "read" => l.base <= offset[c]
    /\ l.pc = "delete" => \E d \in Consumers : l.floor <= offset[d]
    /\ l.pc \in {"load", "reload", "submit", "save"} => c \notin Copiers
    /\ c \in Copiers =>
         /\ \A s \in l.batch : \A q \in 1..(s - 1) : q \in l.batch \cup Reached(c)
         /\ 1..l.last \subseteq Reached(c)
         /\ l.pc \in {"failed", "retry", "deadAck"} => 1..(l.item - 1) \subseteq Reached(c)
         /\ l.pc = "deadAck" => l.item \in dead[c]

\* A copying consumer has no saved state, and retention counts what it deletes.
TablesAgree ==
    \A c \in Copiers : saved[c] = {} /\ (1..latest) \ live \subseteq Reached(c)

\* The ticks that have failed on an event and not recorded it yet.
Fails(l, c, s) == l.pc \in {"failed", "retry"} /\ Order[l.stage] = c /\ l.item = s
Pending(c, s) == {t \in Ticks : Fails(tick[t], c, s)}

\* No attempt is recorded, or about to be, that was not made: racing ticks count
\* too low at the worst.
AttemptsAreMade ==
    \A c \in Consumers : \A s \in Sequence :
        /\ attempts[c][s] + Cardinality(Pending(c, s)) <= failures[c][s]
        /\ \A t \in Pending(c, s) :
             tick[t].pc = "retry" => tick[t].tried + Cardinality(Pending(c, s)) <= failures[c][s]

LogInv ==
    /\ TypeOK
    /\ \A t \in Ticks : Agrees(tick[t])
    /\ TablesAgree
    /\ AttemptsAreMade
    /\ SettlingIsEarned

LEMMA LogInvInit == Init => LogInv
<1> SUFFICES ASSUME Init PROVE LogInv
  OBVIOUS
<1>1. TypeOK
  BY TypeInit
<1>2. TablesAgree
  BY DEF Init, TablesAgree, Copiers
<1>3. \A t \in Ticks : tick[t] = Idle
  BY DEF Init
<1>4. \A t \in Ticks : Agrees(tick[t])
  BY <1>3 DEF Agrees, Idle
<1>5. \A c, s : Pending(c, s) = {}
  BY <1>3 DEF Pending, Fails, Idle
<1>6. AttemptsAreMade
  <2>1. \A c \in Consumers, s \in Sequence : attempts[c][s] = 0 /\ failures[c][s] = 0
    BY DEF Init
  <2>2. Cardinality({}) = 0
    BY FS_EmptySet
  <2> QED
    BY <1>5, <2>1, <2>2 DEF AttemptsAreMade
<1>7. SettlingIsEarned
  <2>1. \A c \in Consumers : offset[c] = 0 /\ dead[c] = {} /\ Settled(c) = {}
    BY DEF Init, Settled
  <2> QED
    BY <2>1 DEF SettlingIsEarned, AckedIsSettled, SettledInOrder, DeadLetterIsEarned, Copiers
<1> QED
  BY <1>1, <1>2, <1>4, <1>6, <1>7 DEF LogInv

\* What the history records and what is acknowledged is not taken back.
Grows ==
    /\ \A c \in Consumers : /\ Settled(c) \subseteq Settled(c)'
                            /\ Reached(c) \subseteq Reached(c)'
                            /\ dead[c] \subseteq dead'[c]
                            /\ offset[c] <= offset'[c]
                            /\ \A s \in Sequence : failures[c][s] <= failures'[c][s]
    /\ latest <= latest'

\* One more event that is handled, pushed out, failed or dead.
LEMMA GrowthOf ==
    ASSUME TypeOK, TypeOK',
           \A c \in Consumers :
             /\ \A s \in Sequence : handled[c][s] <= handled'[c][s]
             /\ \A s \in Sequence : failures[c][s] <= failures'[c][s]
             /\ missed[c] \subseteq missed'[c] /\ dead[c] \subseteq dead'[c]
             /\ offset[c] <= offset'[c],
           latest <= latest'
    PROVE  Grows
<1>1. ASSUME NEW c \in Consumers
      PROVE  Settled(c) \subseteq Settled(c)'
  <2>1. ASSUME NEW s \in Sequence, handled[c][s] > 0
        PROVE  handled'[c][s] > 0
    <3>1. handled[c][s] \in Nat /\ handled'[c][s] \in Nat
      BY DEF TypeOK
    <3> QED
      BY <2>1, <3>1
  <2> QED
    BY <2>1 DEF Settled
<1> QED
  BY <1>1 DEF Grows, Reached

LEMMA NextGrows == ASSUME TypeOK, TypeOK', [Next]_vars PROVE Grows
<1>1. /\ latest \in Nat
      /\ \A c \in Consumers : offset[c] \in Nat
      /\ \A c \in Consumers, s \in Sequence : handled[c][s] \in Nat /\ failures[c][s] \in Nat
  BY LogConstants DEF TypeOK
<1>2. TablesOK /\ LocalsOK
  BY TypeParts
<1>3. ASSUME UNCHANGED <<offset, dead, history>>, latest <= latest'
      PROVE  Grows
  BY <1>1, <1>3, GrowthOf DEF history
<1>4. CASE UNCHANGED vars
  BY <1>1, <1>3, <1>4 DEF vars, events, failing
<1>5. CASE AppendEvent
  BY <1>1, <1>3, <1>5 DEF AppendEvent, failing
<1>6. CASE GrowOld \/ Elapse \/ Crash \/ \E t \in Ticks : Raise(t)
  BY <1>1, <1>3, <1>6 DEF GrowOld, Elapse, Crash, Raise, Abandon, events, failing
<1>7. ASSUME NEW t \in Ticks, TickStep(t)
      PROVE  Grows
  <2> DEFINE c == Running(t)
  <2>1. c \in Consumers /\ tick[t] \in Locals
    BY <1>2, RunningIsConsumer
  <2>2. CASE \/ StartTick(t) \/ SkipConsumer(t) \/ LoadState(t) \/ ReadOffset(t)
             \/ ReadEvents(t) \/ RetryRead(t) \/ ReadFloor(t)
    <3>1. UNCHANGED <<events, offset, failing, history>>
      BY <2>2 DEF StartTick, SkipConsumer, LoadState, ReadOffset, ReadEvents, RetryRead, ReadFloor
    <3> QED
      BY <1>1, <1>3, <3>1 DEF events, failing
  <2>3. CASE RetryLater(t) \/ SaveState(t)
    BY <1>1, <1>3, <2>3 DEF RetryLater, SaveState, events, failing
  <2>4. CASE Handle(t)
    <3>1. PICK s \in tick[t].batch : handled' = [handled EXCEPT ![c][s] = @ + 1]
      BY <2>4 DEF Handle
    <3>2. s \in Sequence /\ handled \in [Consumers -> [Sequence -> Nat]]
      BY <1>2, BatchIsTyped DEF TypeOK
    <3>3. \A d \in Consumers, q \in Sequence : handled[d][q] <= handled'[d][q]
      BY <1>1, <2>1, <3>1, <3>2
    <3> QED
      BY <1>1, <2>4, <3>3, GrowthOf DEF Handle, events, failing
  <2>5. CASE Keep(t)
    <3>1. \A d \in Consumers : missed[d] \subseteq missed'[d]
      BY <2>1, <2>5 DEF Keep, TypeOK
    <3> QED
      BY <1>1, <2>5, <3>1, GrowthOf DEF Keep, events, failing
  <2>6. CASE HandleFails(t)
    <3>1. PICK s \in tick[t].batch : failures' = [failures EXCEPT ![c][s] = @ + 1]
      BY <2>6 DEF HandleFails
    <3>2. s \in Sequence /\ failures \in [Consumers -> [Sequence -> Nat]]
      BY <1>2, BatchIsTyped DEF TypeOK
    <3>3. \A d \in Consumers, q \in Sequence : failures[d][q] <= failures'[d][q]
      BY <1>1, <2>1, <3>1, <3>2
    <3> QED
      BY <1>1, <2>6, <3>3, GrowthOf DEF HandleFails, events, failing
  <2>7. CASE DeadLetter(t)
    <3>1. \A d \in Consumers : dead[d] \subseteq dead'[d]
      BY <2>1, <2>7 DEF DeadLetter, TypeOK
    <3> QED
      BY <1>1, <2>7, <3>1, GrowthOf DEF DeadLetter, events, history
  <2>8. ASSUME NEW n \in 0..latest, Acknowledge(c, n), UNCHANGED <<events, dead, history>>
        PROVE  Grows
    <3>1. \A d \in Consumers : offset[d] <= offset'[d]
      BY <1>2, <2>1, <2>8, AcknowledgeIsTyped
    <3> QED
      BY <1>1, <2>8, <3>1, GrowthOf DEF events, history
  <2>9. CASE DeadAck(t)
    <3>1. tick[t].item \in 0..latest
      BY <2>1 DEF Locals
    <3> QED
      BY <2>8, <2>9, <3>1 DEF DeadAck
  <2>10. CASE AckBatch(t)
    <3>1. tick[t].last \in 0..latest
      BY <2>1 DEF Locals
    <3>2. CASE UNCHANGED <<offset, attempts, waiting>>
      BY <1>1, <1>3, <2>10, <3>2 DEF AckBatch, events
    <3> QED
      BY <2>8, <2>10, <3>1, <3>2 DEF AckBatch
  <2>11. CASE Submit(t)
    <3>1. PICK due \in {{}, tick[t].draft} :
            handled' = [handled EXCEPT ![c] = [s \in Sequence |-> IF s \in due THEN @[s] + 1 ELSE @[s]]]
      BY <2>11 DEF Submit
    <3>2. handled \in [Consumers -> [Sequence -> Nat]]
      BY DEF TypeOK
    <3>3. \A d \in Consumers, q \in Sequence : handled[d][q] <= handled'[d][q]
      BY <1>1, <2>1, <3>1, <3>2
    <3> QED
      BY <1>1, <2>11, <3>3, GrowthOf DEF Submit, events, failing
  <2>12. CASE Delete(t)
    <3>1. \A d \in Consumers : missed[d] \subseteq missed'[d]
      BY <2>12 DEF Delete
    <3> QED
      BY <1>1, <2>12, <3>1, GrowthOf DEF Delete, failing
  <2> QED
    BY <1>7, <2>2, <2>3, <2>4, <2>5, <2>6, <2>7, <2>9, <2>10, <2>11, <2>12 DEF TickStep
<1> QED
  BY <1>4, <1>5, <1>6, <1>7 DEF Next

\* Whatever the others do, what a tick's locals said of the tables stays true.
LEMMA AgreesStays ==
    ASSUME TypeOK, TypeOK', Grows, NEW l \in Locals, Agrees(l)
    PROVE  Agrees(l)'
<1> DEFINE c == Order[l.stage]
<1>1. c \in Consumers
  BY LogConstants DEF Locals
<1>2. /\ \A d \in Consumers : offset[d] \in Nat /\ offset'[d] \in Nat /\ offset[d] <= offset'[d]
      /\ Reached(c) \subseteq Reached(c)' /\ dead[c] \subseteq dead'[c]
  BY <1>1, LogConstants DEF Grows, TypeOK
<1>3. l.base \in Nat /\ l.floor \in Nat
  BY LogConstants DEF Locals, TypeOK
<1>4. ASSUME l.pc = "read" PROVE l.base <= offset'[c]
  <2>1. l.base <= offset[c] /\ offset[c] <= offset'[c] /\ offset[c] \in Nat /\ offset'[c] \in Nat
    BY <1>1, <1>2, <1>4 DEF Agrees
  <2> QED
    BY <1>3, <2>1
<1>5. ASSUME l.pc = "delete" PROVE \E d \in Consumers : l.floor <= offset'[d]
  <2>1. PICK d \in Consumers : l.floor <= offset[d]
    BY <1>5 DEF Agrees
  <2>2. l.floor <= offset'[d]
    BY <1>2, <1>3, <2>1
  <2> QED
    BY <2>2
<1> HIDE DEF c
<1>6. ASSUME c \in Copiers
      PROVE  /\ \A s \in l.batch : \A q \in 1..(s - 1) : q \in l.batch \cup Reached(c)'
             /\ 1..l.last \subseteq Reached(c)'
             /\ l.pc \in {"failed", "retry", "deadAck"} => 1..(l.item - 1) \subseteq Reached(c)'
             /\ l.pc = "deadAck" => l.item \in dead'[c]
  BY <1>2, <1>6 DEF Agrees, c
<1>7. l.pc \in {"load", "reload", "submit", "save"} => c \notin Copiers
  BY DEF Agrees, c
<1> QED
  BY <1>4, <1>5, <1>6, <1>7 DEF Agrees, c, Copiers

\* So that a step has to be looked at only for the tick that takes it.
LEMMA AgreesOfOthers ==
    ASSUME LogInv, TypeOK', Grows, NEW t \in Ticks, NEW l \in Locals, Agrees(l)', Becomes(t, l)
    PROVE  (\A u \in Ticks : Agrees(tick[u]))'
<1>1. ASSUME NEW u \in Ticks PROVE Agrees(tick[u])'
  <2>1. tick \in [Ticks -> Locals]
    BY TypeParts DEF LogInv, LocalsOK
  <2>2. CASE u = t
    <3>1. tick'[u] = l
      BY <2>1, <2>2 DEF Becomes
    <3> QED
      BY <3>1 DEF Agrees, Reached, Settled
  <2>3. CASE u # t
    <3>1. tick'[u] = tick[u] /\ tick[u] \in Locals
      BY <2>1, <2>3 DEF Becomes
    <3> DEFINE k == tick[u]
    <3>2. Agrees(k)
      BY DEF LogInv
    <3>3. \A m \in Locals : Agrees(m) => Agrees(m)'
      BY AgreesStays DEF LogInv
    <3>4. PICK m \in Locals : m = tick[u] /\ Agrees(m)'
      BY <3>1, <3>2, <3>3
    <3> QED
      BY <3>1, <3>4 DEF Agrees, Reached, Settled
  <2> QED
    BY <2>2, <2>3
<1> QED
  BY <1>1

-----------------------------------------------------------------------------
(* What the ticks have failed on and not recorded yet. *)

LEMMA PendingIsFinite ==
    ASSUME NEW c, NEW s
    PROVE  /\ IsFiniteSet(Pending(c, s)) /\ Cardinality(Pending(c, s)) \in Nat
           /\ IsFiniteSet(Pending(c, s)') /\ Cardinality(Pending(c, s)') \in Nat
  BY FS_Subset, FS_CardinalityType, LogConstants DEF Pending

LEMMA CountsAreNat ==
    /\ TypeOK => \A c \in Consumers, s \in Sequence : attempts[c][s] \in Nat /\ failures[c][s] \in Nat
    /\ TypeOK' => \A c \in Consumers, s \in Sequence : attempts'[c][s] \in Nat /\ failures'[c][s] \in Nat
<1>1. 0..(MaxAttempts - 1) \subseteq Nat
  BY LogConstants
<1> QED
  BY <1>1 DEF TypeOK

\* Nobody fails, and nothing more is recorded.
LEMMA AttemptsFewer ==
    ASSUME LogInv, TypeOK',
           \A c \in Consumers, s \in Sequence :
             /\ failures[c][s] <= failures'[c][s] /\ attempts'[c][s] <= attempts[c][s]
             /\ Pending(c, s)' \subseteq Pending(c, s),
           \A t \in Ticks : tick'[t].pc = "retry" => tick'[t] = tick[t]
    PROVE  AttemptsAreMade'
<1>1. ASSUME NEW c \in Consumers, NEW s \in Sequence
      PROVE  /\ attempts'[c][s] + Cardinality(Pending(c, s)') <= failures'[c][s]
             /\ \A t \in Pending(c, s)' :
                  tick'[t].pc = "retry"
                    => tick'[t].tried + Cardinality(Pending(c, s)') <= failures'[c][s]
  <2>1. Cardinality(Pending(c, s)') <= Cardinality(Pending(c, s))
    BY PendingIsFinite, FS_Subset
  <2>2. /\ Cardinality(Pending(c, s)') \in Nat /\ Cardinality(Pending(c, s)) \in Nat
        /\ attempts[c][s] \in Nat /\ attempts'[c][s] \in Nat
        /\ failures[c][s] \in Nat /\ failures'[c][s] \in Nat
    BY PendingIsFinite, CountsAreNat DEF LogInv
  <2>3. attempts[c][s] + Cardinality(Pending(c, s)) <= failures[c][s]
    BY DEF LogInv, AttemptsAreMade
  <2>4. attempts'[c][s] + Cardinality(Pending(c, s)') <= failures'[c][s]
    BY <2>1, <2>2, <2>3
  <2>5. ASSUME NEW t \in Pending(c, s)', tick'[t].pc = "retry"
        PROVE  tick'[t].tried + Cardinality(Pending(c, s)') <= failures'[c][s]
    <3>1. t \in Ticks /\ t \in Pending(c, s) /\ tick'[t] = tick[t]
      BY <2>5 DEF Pending
    <3>2. tick[t].tried + Cardinality(Pending(c, s)) <= failures[c][s]
      BY <2>5, <3>1 DEF LogInv, AttemptsAreMade
    <3>3. tick[t].tried \in Nat
      BY <3>1, TypeParts, LogConstants DEF LogInv, LocalsOK, Locals
    <3> QED
      BY <2>1, <2>2, <3>1, <3>2, <3>3
  <2> QED
    BY <2>4, <2>5
<1> QED
  BY <1>1 DEF AttemptsAreMade

\* A step of a tick that has not failed, or has not any more.
LEMMA PendingOfMove ==
    ASSUME LogInv, NEW t \in Ticks, NEW l \in Locals, Becomes(t, l), l.pc \notin {"failed", "retry"}
    PROVE  /\ \A c, s : Pending(c, s)' \subseteq Pending(c, s) \ {t}
           /\ \A u \in Ticks : tick'[u].pc = "retry" => tick'[u] = tick[u]
<1>1. \A u \in Ticks : tick'[u] = IF u = t THEN l ELSE tick[u]
  BY DEF Becomes, LogInv, TypeOK
<1> QED
  BY <1>1 DEF Pending, Fails

LEMMA AttemptsOfMove ==
    ASSUME LogInv, TypeOK', NEW t \in Ticks, NEW l \in Locals, Becomes(t, l),
           l.pc \notin {"failed", "retry"},
           \A c \in Consumers, s \in Sequence :
             failures[c][s] <= failures'[c][s] /\ attempts'[c][s] <= attempts[c][s]
    PROVE  AttemptsAreMade'
<1>1. \A c, s : Pending(c, s)' \subseteq Pending(c, s)
  BY PendingOfMove
<1>2. \A u \in Ticks : tick'[u].pc = "retry" => tick'[u] = tick[u]
  BY PendingOfMove
<1> QED
  BY <1>1, <1>2, AttemptsFewer

\* A tick fails, which is counted at once.
LEMMA AttemptsOfFailure ==
    ASSUME LogInv, TypeOK', NEW t \in Ticks, HandleFails(t)
    PROVE  AttemptsAreMade'
<1>1. PICK s \in tick[t].batch :
        /\ Becomes(t, [tick[t] EXCEPT !.pc = "failed", !.item = s, !.batch = {}])
        /\ failures' = [failures EXCEPT ![Running(t)][s] = @ + 1]
  BY DEF HandleFails
<1> DEFINE c == Running(t)
<1>2. tick \in [Ticks -> Locals] /\ tick[t] \in Locals /\ TablesOK /\ c \in Consumers
      /\ s \in Sequence
  BY TypeParts, RunningIsConsumer, BatchIsTyped DEF LogInv, LocalsOK
<1>3. /\ tick'[t].pc = "failed" /\ tick'[t].item = s /\ tick'[t].stage = tick[t].stage
      /\ tick[t].pc = "handle"
      /\ \A u \in Ticks : u # t => tick'[u] = tick[u]
  BY <1>1, <1>2 DEF Becomes, HandleFails, At, Locals
<1>4. ASSUME NEW d \in Consumers, NEW q \in Sequence
      PROVE  /\ attempts'[d][q] + Cardinality(Pending(d, q)') <= failures'[d][q]
             /\ \A u \in Pending(d, q)' :
                  tick'[u].pc = "retry"
                    => tick'[u].tried + Cardinality(Pending(d, q)') <= failures'[d][q]
  <2>1. /\ attempts[d][q] \in Nat /\ failures[d][q] \in Nat
        /\ Cardinality(Pending(d, q)) \in Nat /\ IsFiniteSet(Pending(d, q))
    BY PendingIsFinite, CountsAreNat DEF LogInv
  <2>2. attempts' = attempts
    BY DEF HandleFails, failing
  <2>3. /\ attempts[d][q] + Cardinality(Pending(d, q)) <= failures[d][q]
        /\ \A u \in Pending(d, q) :
             tick[u].pc = "retry" => tick[u].tried + Cardinality(Pending(d, q)) <= failures[d][q]
    BY DEF LogInv, AttemptsAreMade
  <2>4. \A u \in Ticks : tick[u].tried \in Nat
    BY <1>2, LogConstants DEF Locals
  <2>5. CASE d = c /\ q = s
    <3>1. Pending(d, q)' = Pending(d, q) \cup {t} /\ t \notin Pending(d, q)
      BY <1>3, <2>5 DEF Pending, Fails, Running
    <3>2. Cardinality(Pending(d, q)') = Cardinality(Pending(d, q)) + 1
      BY <2>1, <3>1, FS_AddElement
    <3>3. failures'[d][q] = failures[d][q] + 1
      BY <1>1, <1>2, <2>5 DEF TablesOK
    <3>4. \A u \in Pending(d, q)' : tick'[u].pc = "retry"
            => u \in Pending(d, q) /\ tick'[u] = tick[u] /\ u \in Ticks
      BY <1>3, <3>1 DEF Pending
    <3> HIDE DEF c
    <3> QED
      BY <2>1, <2>2, <2>3, <2>4, <3>2, <3>3, <3>4
  <2>6. CASE ~(d = c /\ q = s)
    <3>1. Pending(d, q)' = Pending(d, q)
      BY <1>3, <2>6 DEF Pending, Fails, Running
    <3>2. failures'[d][q] = failures[d][q]
      BY <1>1, <1>2, <2>6 DEF TablesOK
    <3>3. \A u \in Pending(d, q)' : tick'[u].pc = "retry" => tick'[u] = tick[u]
      BY <1>3 DEF Pending
    <3> QED
      BY <2>2, <2>3, <3>1, <3>2, <3>3
  <2> QED
    BY <2>5, <2>6
<1> QED
  BY <1>4 DEF AttemptsAreMade

\* retry_later reads what is recorded ...
LEMMA AttemptsOfRead ==
    ASSUME LogInv, TypeOK', NEW t \in Ticks, RetryRead(t)
    PROVE  AttemptsAreMade'
<1> DEFINE c == Running(t)
           i == tick[t].item
<1>1. tick \in [Ticks -> Locals] /\ tick[t] \in Locals
  BY TypeParts DEF LogInv, LocalsOK
<1>2. /\ tick'[t].pc = "retry" /\ tick'[t].item = i /\ tick'[t].stage = tick[t].stage
      /\ tick'[t].tried = attempts[c][i] /\ tick[t].pc = "failed"
      /\ \A u \in Ticks : u # t => tick'[u] = tick[u]
  BY <1>1 DEF RetryRead, Becomes, At, Locals
<1>3. \A d, q : Pending(d, q)' = Pending(d, q)
  BY <1>2 DEF Pending, Fails
<1>4. attempts' = attempts /\ failures' = failures
  BY DEF RetryRead, failing, history
<1>5. ASSUME NEW d \in Consumers, NEW q \in Sequence, NEW u \in Pending(d, q)', tick'[u].pc = "retry"
      PROVE  tick'[u].tried + Cardinality(Pending(d, q)) <= failures[d][q]
  <2>1. CASE u = t
    <3>1. d = c /\ q = i
      BY <1>2, <1>5, <2>1 DEF Pending, Fails, Running
    <3> QED
      BY <1>2, <2>1, <3>1 DEF LogInv, AttemptsAreMade
  <2>2. CASE u # t
    BY <1>2, <1>3, <1>5, <2>2 DEF LogInv, AttemptsAreMade, Pending
  <2> QED
    BY <2>1, <2>2
<1> QED
  BY <1>3, <1>4, <1>5 DEF AttemptsAreMade, LogInv

\* ... and records one more, which the failure of this very tick stands for.
LEMMA AttemptsOfRetry ==
    ASSUME LogInv, TypeOK', NEW t \in Ticks, RetryLater(t)
    PROVE  AttemptsAreMade'
<1> DEFINE c == Running(t)
           i == tick[t].item
           l == [tick[t] EXCEPT !.pc = "handle", !.item = 0, !.tried = 0]
<1>1. tick \in [Ticks -> Locals] /\ tick[t] \in Locals /\ c \in Consumers /\ i \in Sequence
  <2>1. TablesOK /\ LocalsOK
    BY TypeParts DEF LogInv
  <2>2. tick[t].item \in 0..latest /\ tick[t].item > 0 /\ latest \in 0..MaxSequence
    BY <2>1 DEF LocalsOK, Locals, HasItem, RetryLater, At, TablesOK
  <2> QED
    BY <2>1, <2>2, RunningIsConsumer, LogConstants DEF LocalsOK, Sequence
<1>2. \A u \in Ticks : tick'[u] = IF u = t THEN l ELSE tick[u]
  BY <1>1 DEF RetryLater, Becomes
<1>3. l.pc = "handle" /\ tick[t].pc = "retry" /\ t \in Pending(c, i)
  BY <1>1 DEF RetryLater, At, Pending, Fails, Running, Locals
<1> HIDE DEF l
<1>4. \A d, q : Pending(d, q)' = Pending(d, q) \ {t}
  BY <1>2, <1>3 DEF Pending, Fails
<1>5. failures' = failures
  BY DEF RetryLater, history
<1>6. ASSUME NEW d \in Consumers, NEW q \in Sequence
      PROVE  /\ attempts'[d][q] + Cardinality(Pending(d, q)') <= failures[d][q]
             /\ \A u \in Pending(d, q)' :
                  tick'[u].pc = "retry"
                    => tick'[u].tried + Cardinality(Pending(d, q)') <= failures[d][q]
  <2>1. /\ attempts[d][q] \in Nat /\ failures[d][q] \in Nat
        /\ Cardinality(Pending(d, q)) \in Nat /\ IsFiniteSet(Pending(d, q))
        /\ Cardinality(Pending(d, q)') \in Nat
    BY PendingIsFinite, CountsAreNat DEF LogInv
  <2>2. \A u \in Ticks : tick[u].tried \in Nat
    BY <1>1, LogConstants DEF Locals
  <2>3. Cardinality(Pending(d, q)')
          = IF t \in Pending(d, q) THEN Cardinality(Pending(d, q)) - 1 ELSE Cardinality(Pending(d, q))
    BY <1>4, <2>1, FS_RemoveElement
  <2>4. /\ attempts[d][q] + Cardinality(Pending(d, q)) <= failures[d][q]
        /\ \A u \in Pending(d, q) :
             tick[u].pc = "retry" => tick[u].tried + Cardinality(Pending(d, q)) <= failures[d][q]
    BY DEF LogInv, AttemptsAreMade
  <2>5. attempts'[d][q] = IF d = c /\ q = i THEN tick[t].tried + 1 ELSE attempts[d][q]
    BY <1>1, TypeParts DEF RetryLater, LogInv, TablesOK
  <2>6. attempts'[d][q] + Cardinality(Pending(d, q)') <= failures[d][q]
    <3>1. CASE d = c /\ q = i
      BY <1>3, <2>1, <2>2, <2>3, <2>4, <2>5, <3>1
    <3>2. CASE ~(d = c /\ q = i)
      BY <2>1, <2>3, <2>4, <2>5, <3>2
    <3> QED
      BY <3>1, <3>2
  <2>7. ASSUME NEW u \in Pending(d, q)', tick'[u].pc = "retry"
        PROVE  tick'[u].tried + Cardinality(Pending(d, q)') <= failures[d][q]
    <3>1. u \in Pending(d, q) /\ u # t /\ u \in Ticks /\ tick'[u] = tick[u]
      BY <1>2, <1>4, <2>7 DEF Pending
    <3>2. tick[u].tried + Cardinality(Pending(d, q)) <= failures[d][q] /\ tick[u].tried \in Nat
      BY <2>2, <2>4, <2>7, <3>1
    <3> QED
      BY <2>1, <2>3, <3>1, <3>2
  <2> QED
    BY <2>6, <2>7
<1> QED
  BY <1>5, <1>6 DEF AttemptsAreMade

\* A dead letter is written behind MaxAttempts failures.
LEMMA DeadLetterWasTried ==
    ASSUME LogInv, NEW t \in Ticks, DeadLetter(t)
    PROVE  failures[Running(t)][tick[t].item] >= MaxAttempts
<1> DEFINE c == Running(t)
           i == tick[t].item
<1>1. TablesOK /\ LocalsOK
  BY TypeParts DEF LogInv
<1>2. /\ c \in Consumers /\ i \in Sequence /\ tick[t].tried \in Nat /\ tick[t].pc = "retry"
      /\ tick[t].tried + 1 >= MaxAttempts
  <2>1. tick[t].item \in 0..latest /\ tick[t].item > 0 /\ latest \in 0..MaxSequence
    BY <1>1 DEF LocalsOK, Locals, HasItem, DeadLetter, At, TablesOK
  <2> QED
    <3>1. tick[t] \in Locals /\ c \in Consumers
      BY <1>1, RunningIsConsumer
    <3>2. tick[t].tried \in Nat
      BY <3>1, LogConstants DEF Locals
    <3>3. i \in Sequence
      BY <2>1, LogConstants DEF Sequence
    <3> QED
      BY <3>1, <3>2, <3>3 DEF DeadLetter, At
<1>3. t \in Pending(c, i)
  BY <1>2 DEF Pending, Fails, Running
<1>4. Cardinality(Pending(c, i)) >= 1
  <2>1. Cardinality(Pending(c, i)) # 0
    BY <1>3, PendingIsFinite, FS_EmptySet
  <2> QED
    BY <2>1, PendingIsFinite
<1>5. tick[t].tried + Cardinality(Pending(c, i)) <= failures[c][i]
  BY <1>2, <1>3 DEF LogInv, AttemptsAreMade
<1>6. failures[c][i] \in Nat
  BY <1>1, <1>2 DEF TablesOK
<1> HIDE DEF c, i
<1> QED
  BY <1>2, <1>4, <1>5, <1>6, PendingIsFinite, LogConstants DEF c, i

-----------------------------------------------------------------------------
(* The inductive invariant, step by step. *)

\* Locals that hold nothing agree with any tables.
LEMMA BlankAgrees ==
    ASSUME NEW l, l.batch = {}, l.last = 0,
           l.pc \notin {"failed", "retry", "deadAck", "read", "delete", "reload", "submit", "save"},
           l.pc = "load" => Kind[Order[l.stage]] = "attention"
    PROVE  Agrees(l) /\ Agrees(l)'
<1>1. 1..0 = {}
  OBVIOUS
<1> QED
  BY <1>1 DEF Agrees, Copiers

\* Nothing is settled, acknowledged or declared dead.
LEMMA SettlingFrame ==
    ASSUME LogInv, TypeOK', Grows,
           \A c \in Copiers : Settled(c)' = Settled(c) /\ offset'[c] = offset[c],
           dead' = dead
    PROVE  SettlingIsEarned'
<1>1. AckedIsSettled'
  BY DEF LogInv, SettlingIsEarned, AckedIsSettled, Grows, Reached, Copiers
<1>2. SettledInOrder'
  BY DEF LogInv, SettlingIsEarned, SettledInOrder, Grows, Reached, Copiers
<1>3. DeadLetterIsEarned'
  <2>1. ASSUME NEW c \in Consumers, NEW s \in dead[c]
        PROVE  failures'[c][s] >= MaxAttempts
    <3>1. s \in Sequence
      BY <2>1 DEF LogInv, TypeOK
    <3>2. failures[c][s] >= MaxAttempts /\ failures[c][s] <= failures'[c][s]
      BY <2>1, <3>1 DEF LogInv, SettlingIsEarned, DeadLetterIsEarned, Grows
    <3> QED
      BY <3>1, <3>2, CountsAreNat, LogConstants DEF LogInv
  <2> QED
    BY <2>1 DEF DeadLetterIsEarned
<1> QED
  BY <1>1, <1>2, <1>3 DEF SettlingIsEarned

\* One consumer settles an event behind all that it has reached.
LEMMA SettlingOfOne ==
    ASSUME LogInv, TypeOK', Grows, UNCHANGED offset,
           NEW c \in Copiers, NEW s \in Sequence,
           1..(s - 1) \subseteq Reached(c), Settled(c)' = Settled(c) \cup {s},
           \A d \in Copiers : d # c => Settled(d)' = Settled(d)
    PROVE  AckedIsSettled' /\ SettledInOrder'
<1>1. AckedIsSettled'
  BY DEF LogInv, SettlingIsEarned, AckedIsSettled, Grows, Reached, Copiers
<1>2. ASSUME NEW d \in Copiers, NEW q \in Settled(d)'
      PROVE  1..(q - 1) \subseteq Reached(d)'
  <2>1. CASE q \in Settled(d)
    BY <2>1 DEF LogInv, SettlingIsEarned, SettledInOrder, Grows, Reached, Copiers
  <2>2. CASE d = c /\ q = s
    BY <2>2 DEF Grows, Copiers
  <2> QED
    BY <1>2, <2>1, <2>2
<1> QED
  BY <1>1, <1>2 DEF SettledInOrder, Reached, Copiers

\* An acknowledgement of what is reached.
LEMMA SettlingOfAck ==
    ASSUME LogInv, TypeOK', Grows, NEW c \in Consumers, NEW n \in 0..latest, Acknowledge(c, n),
           c \in Copiers => 1..n \subseteq Reached(c),
           UNCHANGED <<dead, handled, missed>>
    PROVE  SettlingIsEarned'
<1>1. \A d : Settled(d)' = Settled(d) /\ Reached(d)' = Reached(d)
  BY DEF Settled, Reached
<1>2. \A d \in Consumers : offset'[d] \in {offset[d], n} /\ (d # c => offset'[d] = offset[d])
  BY AcknowledgeIsTyped, TypeParts DEF LogInv
<1>3. AckedIsSettled'
  BY <1>1, <1>2 DEF LogInv, SettlingIsEarned, AckedIsSettled, Reached, Copiers
<1>4. SettledInOrder'
  BY <1>1 DEF LogInv, SettlingIsEarned, SettledInOrder, Reached, Copiers
<1>5. DeadLetterIsEarned'
  <2>1. ASSUME NEW d \in Consumers, NEW s \in dead[d]
        PROVE  failures'[d][s] >= MaxAttempts
    <3>1. s \in Sequence
      BY <2>1 DEF LogInv, TypeOK
    <3>2. failures[d][s] >= MaxAttempts /\ failures[d][s] <= failures'[d][s]
      BY <2>1, <3>1 DEF LogInv, SettlingIsEarned, DeadLetterIsEarned, Grows
    <3> QED
      BY <3>1, <3>2, CountsAreNat, LogConstants DEF LogInv
  <2> QED
    BY <2>1 DEF DeadLetterIsEarned
<1> QED
  BY <1>3, <1>4, <1>5 DEF SettlingIsEarned

LEMMA TablesFrame ==
    ASSUME LogInv, TypeOK', Grows, UNCHANGED <<latest, live>>,
           \A c \in Copiers : saved'[c] = saved[c]
    PROVE  TablesAgree'
  BY DEF LogInv, TablesAgree, Grows, Copiers

\* A tick moves and the tables stay as they are.
LEMMA MoveKeepsInv ==
    ASSUME LogInv, TypeOK', Grows, NEW t \in Ticks, NEW l \in Locals, Becomes(t, l), Agrees(l)',
           l.pc \notin {"failed", "retry"},
           UNCHANGED <<events, offset, failing, saved, history, faults>>
    PROVE  LogInv'
<1>1. (\A u \in Ticks : Agrees(tick[u]))'
  BY AgreesOfOthers
<1>2. TablesAgree'
  BY TablesFrame DEF events
<1>3. AttemptsAreMade'
  <2>1. \A c \in Consumers, s \in Sequence :
          failures[c][s] <= failures'[c][s] /\ attempts'[c][s] <= attempts[c][s]
    BY CountsAreNat DEF LogInv, failing, history
  <2> QED
    BY <2>1, AttemptsOfMove
<1>4. SettlingIsEarned'
  <2>1. \A c : Settled(c)' = Settled(c)
    BY DEF Settled, history, failing
  <2> QED
    BY <2>1, SettlingFrame DEF failing
<1> QED
  BY <1>1, <1>2, <1>3, <1>4 DEF LogInv

\* The steps that only move the tick.
LEMMA InvOfMoves ==
    ASSUME LogInv, TypeOK', Grows, NEW t \in Ticks,
           \/ StartTick(t) \/ SkipConsumer(t) \/ LoadState(t) \/ ReadOffset(t) \/ ReadEvents(t)
           \/ ReadFloor(t)
    PROVE  LogInv'
<1> DEFINE c == Running(t)
<1>1. TablesOK /\ LocalsOK /\ c \in Consumers /\ tick[t] \in Locals /\ Agrees(tick[t])
      /\ tick[t].stage \in 1..Len(Order)
  BY TypeParts, RunningIsConsumer DEF LogInv
<1>2. tick'[t] \in Locals'
  BY TypeParts DEF LocalsOK
<1>3. ASSUME UNCHANGED events PROVE Locals' = Locals
  BY <1>3 DEF Locals, events
<1>4. CASE StartTick(t)
  <2> DEFINE l == [Idle EXCEPT !.pc = IF t \in Bare THEN "floor" ELSE FirstPC(1)]
  <2>1. l \in Locals
    BY <1>1, IdleIsTyped DEF PCs
  <2>2. Agrees(l)' /\ l.pc \notin {"failed", "retry"}
    <3>1. l.batch = {} /\ l.last = 0 /\ l.stage = 1
          /\ l.pc = (IF t \in Bare THEN "floor" ELSE FirstPC(1))
      BY DEF Idle
    <3> HIDE DEF l
    <3> QED
      BY <3>1, BlankAgrees DEF FirstPC
  <2> QED
    BY <1>4, <2>1, <2>2, MoveKeepsInv DEF StartTick
<1>5. CASE SkipConsumer(t)
  <2>1. PICK l \in Locals :
             /\ Becomes(t, l)
             /\ l.pc \notin {"failed", "retry", "deadAck", "read", "delete", "reload",
                             "submit", "save"}
             /\ l.batch = {} /\ l.last = 0
             /\ l.pc = "load" => Kind[Order[l.stage]] = "attention"
    BY <1>1, <1>5, NextConsumerIsTyped DEF SkipConsumer
  <2>2. Agrees(l)'
    BY <2>1, BlankAgrees
  <2> QED
    BY <1>5, <2>1, <2>2, MoveKeepsInv DEF SkipConsumer
<1>6. CASE LoadState(t)
  <2>1. PICK l \in Locals : l = [tick[t] EXCEPT !.pc = IF @ = "load" THEN "offset" ELSE "handle",
                                  !.draft = saved[Running(t)]]
    BY <1>1, <1>6, <1>2, <1>3 DEF LoadState, Becomes, LogInv, TypeOK
  <2>2. l.pc \in {"offset", "handle"} /\ l.stage = tick[t].stage
    BY <1>1, <2>1 DEF Locals
  <2>3. c \notin Copiers
    BY <1>1, <1>6 DEF LoadState, Agrees, Running
  <2>4. Agrees(l)
    BY <2>2, <2>3 DEF Agrees, Running
  <2>5. Agrees(l)'
    BY <2>1, <2>4, AgreesStays DEF LogInv
  <2>6. Becomes(t, l)
    BY <1>6, <2>1 DEF LoadState
  <2> QED
    BY <1>6, <2>1, <2>2, <2>5, <2>6, MoveKeepsInv DEF LoadState
<1>7. CASE ReadOffset(t)
  <2>1. PICK l \in Locals : l = [tick[t] EXCEPT !.pc = "read", !.base = offset[Running(t)]]
    BY <1>1, <1>7, <1>2, <1>3 DEF ReadOffset, Becomes, LogInv, TypeOK
  <2>2. /\ l.pc = "read" /\ l.stage = tick[t].stage /\ l.base = offset[c]
        /\ l.batch = tick[t].batch /\ l.last = tick[t].last
    BY <1>1, <2>1 DEF Locals
  <2>3. offset[c] <= offset[c]
    BY <1>1, LogConstants DEF TablesOK
  <2>4. Agrees(l)
    BY <1>1, <2>2, <2>3 DEF Agrees, Running
  <2>5. Agrees(l)'
    BY <2>1, <2>4, AgreesStays DEF LogInv
  <2>6. Becomes(t, l)
    BY <1>7, <2>1 DEF ReadOffset
  <2> QED
    BY <1>7, <2>1, <2>2, <2>5, <2>6, MoveKeepsInv DEF ReadOffset
<1>8. CASE ReadEvents(t)
  <2>1. PICK to \in 0..latest :
          Becomes(t, [tick[t] EXCEPT !.pc = AfterRead(t), !.base = 0,
                                     !.batch = Rows(tick[t].base, to)])
    BY <1>8 DEF ReadEvents
  <2>2. PICK l \in Locals : l = [tick[t] EXCEPT !.pc = AfterRead(t), !.base = 0,
                                  !.batch = Rows(tick[t].base, to)]
    BY <1>1, <1>8, <1>2, <1>3, <2>1 DEF ReadEvents, Becomes, LogInv, TypeOK
  <2>3. /\ l.pc = AfterRead(t) /\ l.stage = tick[t].stage /\ l.batch = Rows(tick[t].base, to)
        /\ l.last = tick[t].last
    BY <1>1, <2>2 DEF Locals
  <2>4. tick[t].base <= offset[c]
    BY <1>1, <1>8 DEF ReadEvents, At, Agrees, Running
  <2>5. ASSUME c \in Copiers, NEW s \in l.batch, NEW q \in 1..(s - 1), q \notin l.batch
        PROVE  q \in Reached(c)
    <3>1. s \in live /\ s <= to /\ latest \in Nat /\ live \subseteq 1..latest
          /\ tick[t].base \in Nat /\ offset[c] \in Nat /\ to \in Nat
      <4>1. s \in live /\ s <= to /\ latest \in Nat /\ live \subseteq 1..latest
        BY <1>1, <2>3, <2>5, LogConstants DEF Rows, TablesOK
      <4>2. tick[t].base \in 0..latest /\ offset[c] \in 0..latest
        BY <1>1 DEF TablesOK, Locals
      <4> QED
        BY <4>1, <4>2
    <3>2. q \in Nat /\ q >= 1 /\ q <= to /\ q \in 1..latest
      BY <2>1, <3>1, <2>5
    <3>3. CASE q <= tick[t].base
      <4>1. q \in 1..offset[c]
        BY <2>4, <3>1, <3>2, <3>3
      <4> QED
        BY <2>5, <4>1 DEF LogInv, SettlingIsEarned, AckedIsSettled, Reached
    <3>4. CASE ~(q <= tick[t].base)
      <4>1. q \notin live
        BY <2>3, <2>5, <3>1, <3>2, <3>4 DEF Rows
      <4> QED
        BY <2>5, <3>2, <4>1 DEF LogInv, TablesAgree
    <3> QED
      BY <3>3, <3>4
  <2>6. Agrees(l)
    <3>1. l.pc = "reload" => c \notin Copiers
      BY <2>3 DEF AfterRead, Copiers
    <3>2. l.pc \in {"reload", "handle"}
      BY <2>3 DEF AfterRead
    <3>3. c \in Copiers => 1..l.last \subseteq Reached(c)
      BY <1>1, <2>3 DEF Agrees, Running
    <3>4. c = Order[l.stage]
      BY <2>3 DEF Running
    <3> HIDE DEF c
    <3> QED
      BY <2>5, <3>1, <3>2, <3>3, <3>4 DEF Agrees
  <2>7. Agrees(l)'
    BY <2>2, <2>6, AgreesStays DEF LogInv
  <2>8. Becomes(t, l)
    BY <2>1, <2>2
  <2>9. l.pc \notin {"failed", "retry"}
    BY <2>3 DEF AfterRead
  <2> QED
    BY <1>8, <2>2, <2>7, <2>8, <2>9, MoveKeepsInv DEF ReadEvents
<1>9. CASE ReadFloor(t)
  <2>1. CASE Becomes(t, Idle)
    <3>1. Agrees(Idle)' /\ Idle.pc = "idle"
      BY BlankAgrees DEF Idle
    <3> QED
      BY <1>1, <1>9, <2>1, <3>1, IdleIsTyped, MoveKeepsInv DEF ReadFloor
  <2>2. ASSUME NEW n \in Offsets,
               Becomes(t, [tick[t] EXCEPT !.pc = "delete", !.floor = n, !.excess = Excess])
        PROVE  LogInv'
    <3>1. PICK l \in Locals : l = [tick[t] EXCEPT !.pc = "delete", !.floor = n, !.excess = Excess]
      BY <1>1, <1>9, <1>2, <1>3, <2>2 DEF ReadFloor, Becomes, LogInv, TypeOK
    <3>2. /\ l.pc = "delete" /\ l.stage = tick[t].stage /\ l.floor = n
          /\ l.batch = tick[t].batch /\ l.last = tick[t].last
      BY <1>1, <3>1 DEF Locals
    <3>3. \E d \in Consumers : n <= offset[d]
      <4>1. PICK d \in Consumers : n = offset[d]
        BY <2>2 DEF Offsets
      <4>2. n <= offset[d]
        BY <1>1, <4>1, LogConstants DEF TablesOK
      <4> QED
        BY <4>2
    <3>4. Agrees(l)
      BY <1>1, <3>2, <3>3 DEF Agrees, Running
    <3>5. Agrees(l)'
      BY <3>1, <3>4, AgreesStays DEF LogInv
    <3>6. Becomes(t, l)
      BY <2>2, <3>1
    <3> QED
      BY <1>9, <3>1, <3>2, <3>5, <3>6, MoveKeepsInv DEF ReadFloor
  <2> QED
    BY <1>9, <2>1, <2>2 DEF ReadFloor
<1> QED
  BY <1>4, <1>5, <1>6, <1>7, <1>8, <1>9

\* In front of the first event of a batch everything is reached.
LEMMA FrontIsReached ==
    ASSUME LogInv, NEW t \in Ticks, Running(t) \in Copiers,
           NEW s \in tick[t].batch, Least(s, tick[t].batch)
    PROVE  1..(s - 1) \subseteq Reached(Running(t))
<1>1. \A q \in 1..(s - 1) : q \in tick[t].batch \cup Reached(Running(t))
  BY DEF LogInv, Agrees, Running
<1>2. s \in Nat
  BY BatchIsTyped, TypeParts DEF LogInv
<1>3. ASSUME NEW q \in 1..(s - 1) PROVE q \notin tick[t].batch
  BY <1>2 DEF Least
<1> QED
  BY <1>1, <1>3

LEMMA InvOfHandle ==
    ASSUME LogInv, TypeOK', Grows, NEW t \in Ticks, Handle(t) PROVE LogInv'
<1>1. TablesOK /\ LocalsOK /\ Running(t) \in Consumers /\ tick[t] \in Locals /\ Agrees(tick[t])
  BY TypeParts, RunningIsConsumer DEF LogInv
<1>2. PICK c \in Consumers : c = Running(t)
  BY <1>1
<1>3. PICK s \in tick[t].batch :
        /\ Least(s, tick[t].batch)
        /\ Becomes(t, [tick[t] EXCEPT !.batch = @ \ {s}, !.last = s])
        /\ handled' = [handled EXCEPT ![c][s] = @ + 1]
  BY <1>2 DEF Handle
<1>4. s \in 0..latest /\ s \in Sequence /\ s \in Nat /\ s > 0
  BY <1>1, BatchIsTyped
<1>5. PICK l \in Locals : l = [tick[t] EXCEPT !.batch = @ \ {s}, !.last = s]
  BY <1>1, <1>4 DEF Locals
<1>6. /\ l.pc = "handle" /\ l.stage = tick[t].stage /\ l.batch = tick[t].batch \ {s}
      /\ l.last = s /\ c = Order[l.stage]
  BY <1>1, <1>2, <1>5 DEF Locals, Handle, At, Running
<1>7. UNCHANGED <<events, offset, failing, saved, failures, missed, faults>>
  BY DEF Handle
<1>8. /\ Settled(c)' = Settled(c) \cup {s}
      /\ \A d \in Consumers : d # c => Settled(d)' = Settled(d)
  <2>1. \A d \in Consumers, q \in Sequence : handled[d][q] \in Nat
    BY <1>1 DEF TablesOK
  <2>2. \A d \in Consumers, q \in Sequence :
          handled'[d][q] = IF d = c /\ q = s THEN handled[d][q] + 1 ELSE handled[d][q]
    BY <1>1, <1>3, <1>4 DEF TablesOK
  <2>3. \A d \in Consumers, q \in Sequence :
          handled'[d][q] > 0 <=> handled[d][q] > 0 \/ (d = c /\ q = s)
    BY <2>1, <2>2
  <2> QED
    BY <1>4, <1>7, <2>3 DEF Settled, failing
<1>9. c \in Copiers => 1..(s - 1) \subseteq Reached(c)
  BY <1>2, <1>3, FrontIsReached
<1>10. Agrees(l)'
  <2>1. ASSUME c \in Copiers
        PROVE  /\ \A x \in l.batch : \A q \in 1..(x - 1) : q \in l.batch \cup Reached(c)'
               /\ 1..l.last \subseteq Reached(c)'
    <3>1. Reached(c) \subseteq Reached(c)' /\ s \in Reached(c)'
      BY <1>8 DEF Grows, Reached
    <3>2. \A x \in tick[t].batch : \A q \in 1..(x - 1) : q \in tick[t].batch \cup Reached(c)
      BY <1>1, <1>2, <2>1 DEF Agrees, Running
    <3>3. \A q \in 1..s : q \in 1..(s - 1) \/ q = s
      BY <1>4
    <3> QED
      BY <1>6, <1>9, <2>1, <3>1, <3>2, <3>3
  <2> QED
    BY <1>6, <2>1 DEF Agrees, Copiers
<1>11. Becomes(t, l)
  BY <1>3, <1>5
<1>12. (\A u \in Ticks : Agrees(tick[u]))'
  BY <1>10, <1>11, AgreesOfOthers
<1>13. TablesAgree'
  BY <1>7, TablesFrame DEF events
<1>14. AttemptsAreMade'
  <2>1. \A d \in Consumers, q \in Sequence :
          failures[d][q] <= failures'[d][q] /\ attempts'[d][q] <= attempts[d][q]
    BY <1>7, CountsAreNat DEF LogInv, failing
  <2> QED
    BY <1>6, <1>11, <2>1, AttemptsOfMove
<1>15. SettlingIsEarned'
  <2>1. CASE c \in Copiers
    <3>1. AckedIsSettled' /\ SettledInOrder'
      BY <1>4, <1>7, <1>8, <1>9, <2>1, SettlingOfOne DEF Copiers
    <3>2. DeadLetterIsEarned'
      BY <1>7 DEF LogInv, SettlingIsEarned, DeadLetterIsEarned, failing
    <3> QED
      BY <3>1, <3>2 DEF SettlingIsEarned
  <2>2. CASE c \notin Copiers
    <3>1. \A d \in Copiers : Settled(d)' = Settled(d) /\ offset'[d] = offset[d]
      BY <1>7, <1>8, <2>2 DEF Copiers
    <3> QED
      BY <1>7, <3>1, SettlingFrame DEF failing
  <2> QED
    BY <2>1, <2>2
<1> QED
  BY <1>12, <1>13, <1>14, <1>15 DEF LogInv

\* A step of a consumer that does not copy, whatever it writes of its own.
LEMMA InvOfOthers ==
    ASSUME LogInv, TypeOK', Grows, NEW t \in Ticks, NEW l \in Locals, Becomes(t, l),
           Agrees(l)', l.pc \notin {"failed", "retry"},
           UNCHANGED <<events, offset, failing, failures, faults>>,
           \A d \in Copiers : Settled(d)' = Settled(d) /\ saved'[d] = saved[d]
    PROVE  LogInv'
<1>1. (\A u \in Ticks : Agrees(tick[u]))'
  BY AgreesOfOthers
<1>2. TablesAgree'
  BY TablesFrame DEF events
<1>3. AttemptsAreMade'
  <2>1. \A d \in Consumers, q \in Sequence :
          failures[d][q] <= failures'[d][q] /\ attempts'[d][q] <= attempts[d][q]
    BY CountsAreNat DEF LogInv, failing
  <2> QED
    BY <2>1, AttemptsOfMove
<1>4. SettlingIsEarned'
  BY SettlingFrame DEF failing
<1> QED
  BY <1>1, <1>2, <1>3, <1>4 DEF LogInv

LEMMA InvOfKeep ==
    ASSUME LogInv, TypeOK', Grows, NEW t \in Ticks, Keep(t) \/ Submit(t) \/ SaveState(t)
    PROVE  LogInv'
<1>1. TablesOK /\ LocalsOK /\ Running(t) \in Consumers /\ tick[t] \in Locals /\ Agrees(tick[t])
  BY TypeParts, RunningIsConsumer DEF LogInv
<1>2. Running(t) \notin Copiers
  BY <1>1 DEF Keep, Submit, SaveState, At, Agrees, Running, Copiers
<1>3. CASE Keep(t)
  <2>1. PICK s \in tick[t].batch :
          LET grown == tick[t].draft \cup {s} IN
          Becomes(t, [tick[t] EXCEPT !.batch = @ \ {s}, !.last = s, !.draft = Newest(grown)])
    BY <1>3 DEF Keep
  <2>2. s \in 0..latest /\ s \in Sequence
    BY <1>1, BatchIsTyped
  <2>3. Newest(tick[t].draft \cup {s}) \in SUBSET Sequence
    BY <1>1, <2>2 DEF Newest, Locals
  <2>4. PICK l \in Locals :
          l = [tick[t] EXCEPT !.batch = @ \ {s}, !.last = s, !.draft = Newest(tick[t].draft \cup {s})]
    BY <1>1, <2>2, <2>3 DEF Locals
  <2>5. l.pc = "handle" /\ Order[l.stage] = Running(t)
    BY <1>1, <1>3, <2>4 DEF Locals, Keep, At, Running
  <2>6. Agrees(l)'
    BY <1>2, <2>5 DEF Agrees, Copiers
  <2>7. \A d \in Copiers : Settled(d)' = Settled(d)
    BY <1>3 DEF Keep, Settled, failing
  <2>8. Becomes(t, l)
    BY <2>1, <2>4
  <2> QED
    BY <1>3, <2>5, <2>6, <2>7, <2>8, InvOfOthers DEF Keep
<1>4. CASE Submit(t)
  <2>1. PICK due \in {{}, tick[t].draft} :
          /\ handled' = [handled EXCEPT ![Running(t)] =
                           [s \in Sequence |-> IF s \in due THEN @[s] + 1 ELSE @[s]]]
          /\ Becomes(t, [tick[t] EXCEPT !.pc = "save", !.draft = @ \ due])
    BY <1>4 DEF Submit
  <2>2. PICK l \in Locals : l = [tick[t] EXCEPT !.pc = "save", !.draft = @ \ due]
    BY <1>1 DEF Locals, PCs
  <2>3. l.pc = "save" /\ Order[l.stage] = Running(t)
    BY <1>1, <2>2 DEF Locals, Running
  <2>4. Agrees(l)'
    BY <1>2, <2>3 DEF Agrees, Copiers
  <2>5. \A d \in Copiers : Settled(d)' = Settled(d)
    BY <1>1, <1>2, <1>4, <2>1 DEF Submit, Settled, failing, TablesOK, Copiers
  <2>6. Becomes(t, l)
    BY <2>1, <2>2
  <2> QED
    BY <1>4, <2>3, <2>4, <2>5, <2>6, InvOfOthers DEF Submit
<1>5. CASE SaveState(t)
  <2>1. PICK l \in Locals :
             /\ Becomes(t, l)
             /\ l.pc \notin {"failed", "retry", "deadAck", "read", "delete", "reload",
                             "submit", "save"}
             /\ l.batch = {} /\ l.last = 0
             /\ l.pc = "load" => Kind[Order[l.stage]] = "attention"
    BY <1>1, <1>5, NextConsumerIsTyped DEF SaveState
  <2>2. Agrees(l)'
    BY <2>1, BlankAgrees
  <2>3. \A d \in Copiers : saved'[d] = saved[d]
    BY <1>1, <1>2, <1>5 DEF SaveState, TablesOK, Copiers
  <2>4. \A d : Settled(d)' = Settled(d)
    BY <1>5 DEF SaveState, Settled, failing, history
  <2> QED
    BY <1>5, <2>1, <2>2, <2>3, <2>4, InvOfOthers DEF SaveState, history
<1> QED
  BY <1>3, <1>4, <1>5

LEMMA InvOfFailure ==
    ASSUME LogInv, TypeOK', Grows, NEW t \in Ticks,
           HandleFails(t) \/ RetryRead(t) \/ RetryLater(t)
    PROVE  LogInv'
<1>1. TablesOK /\ LocalsOK /\ Running(t) \in Consumers /\ tick[t] \in Locals /\ Agrees(tick[t])
  BY TypeParts, RunningIsConsumer DEF LogInv
<1>2. UNCHANGED <<events, offset, dead, saved, handled, missed>>
  BY DEF HandleFails, RetryRead, RetryLater, failing, history
<1>3. TablesAgree'
  BY <1>2, TablesFrame DEF events
<1>4. SettlingIsEarned'
  <2>1. \A c : Settled(c)' = Settled(c)
    BY <1>2 DEF Settled
  <2> QED
    BY <1>2, <2>1, SettlingFrame
<1>5. AttemptsAreMade'
  BY AttemptsOfFailure, AttemptsOfRead, AttemptsOfRetry
<1>6. \E l \in Locals : Becomes(t, l) /\ Agrees(l)'
  <2>1. CASE HandleFails(t)
    <3>1. PICK s \in tick[t].batch :
            /\ Least(s, tick[t].batch)
            /\ Becomes(t, [tick[t] EXCEPT !.pc = "failed", !.item = s, !.batch = {}])
      BY <2>1 DEF HandleFails
    <3>2. s \in 0..latest
      BY <1>1, BatchIsTyped
    <3>3. PICK l \in Locals : l = [tick[t] EXCEPT !.pc = "failed", !.item = s, !.batch = {}]
      BY <1>1, <3>2 DEF Locals, PCs
    <3>4. /\ l.pc = "failed" /\ l.item = s /\ l.batch = {} /\ l.last = tick[t].last
          /\ Order[l.stage] = Running(t)
      BY <1>1, <3>3 DEF Locals, Running
    <3>5. Running(t) \in Copiers => 1..(s - 1) \subseteq Reached(Running(t))
      BY <3>1, FrontIsReached
    <3>6. Agrees(l)
      BY <1>1, <3>4, <3>5 DEF Agrees, Running
    <3>7. Agrees(l)'
      BY <3>6, AgreesStays DEF LogInv
    <3> QED
      BY <3>1, <3>3, <3>7
  <2>2. CASE RetryRead(t)
    <3>1. tick[t].item \in Sequence
      <4>1. tick[t].item \in 0..latest /\ tick[t].item > 0 /\ latest \in 0..MaxSequence
        BY <1>1, <2>2 DEF LocalsOK, Locals, HasItem, RetryRead, At, TablesOK
      <4> QED
        BY <4>1, LogConstants DEF Sequence
    <3>2. attempts[Running(t)][tick[t].item] \in 0..(MaxAttempts - 1)
      BY <1>1, <3>1 DEF TablesOK
    <3>3. PICK l \in Locals :
            l = [tick[t] EXCEPT !.pc = "retry", !.tried = attempts[Running(t)][tick[t].item]]
      BY <1>1, <3>2 DEF Locals, PCs
    <3>4. /\ l.pc = "retry" /\ l.item = tick[t].item /\ l.batch = tick[t].batch
          /\ l.last = tick[t].last /\ Order[l.stage] = Running(t) /\ tick[t].pc = "failed"
      BY <1>1, <2>2, <3>3 DEF Locals, Running, RetryRead, At
    <3>5. Agrees(l)
      BY <1>1, <3>4 DEF Agrees, Running
    <3>6. Agrees(l)'
      BY <3>5, AgreesStays DEF LogInv
    <3> QED
      BY <2>2, <3>3, <3>6 DEF RetryRead
  <2>3. CASE RetryLater(t)
    <3>1. PICK l \in Locals : l = [tick[t] EXCEPT !.pc = "handle", !.item = 0, !.tried = 0]
      BY <1>1, ZeroIsInRange DEF Locals, PCs
    <3>2. /\ l.pc = "handle" /\ l.batch = tick[t].batch
          /\ l.last = tick[t].last /\ Order[l.stage] = Running(t)
      BY <1>1, <3>1 DEF Locals, Running
    <3>3. Agrees(l)
      BY <1>1, <3>2 DEF Agrees, Running
    <3>4. Agrees(l)'
      BY <3>3, AgreesStays DEF LogInv
    <3> QED
      BY <2>3, <3>1, <3>4 DEF RetryLater
  <2> QED
    BY <2>1, <2>2, <2>3
<1>7. (\A u \in Ticks : Agrees(tick[u]))'
  BY <1>6, AgreesOfOthers
<1> QED
  BY <1>3, <1>4, <1>5, <1>7 DEF LogInv

LEMMA InvOfDeadLetter ==
    ASSUME LogInv, TypeOK', Grows, NEW t \in Ticks, DeadLetter(t)
    PROVE  LogInv'
<1>1. TablesOK /\ LocalsOK /\ Running(t) \in Consumers /\ tick[t] \in Locals /\ Agrees(tick[t])
  BY TypeParts, RunningIsConsumer DEF LogInv
<1>2. PICK c \in Consumers, s \in Sequence : c = Running(t) /\ s = tick[t].item
  <2>1. tick[t].item \in 0..latest /\ tick[t].item > 0 /\ latest \in 0..MaxSequence
    BY <1>1 DEF LocalsOK, Locals, HasItem, DeadLetter, At, TablesOK
  <2>2. tick[t].item \in Sequence
    BY <2>1, LogConstants DEF Sequence
  <2> QED
    BY <1>1, <2>2
<1>3. /\ dead' = [dead EXCEPT ![c] = @ \cup {s}]
      /\ attempts' = [attempts EXCEPT ![c][s] = 0]
      /\ UNCHANGED <<events, offset, saved, history, faults>>
      /\ tick[t].pc = "retry"
  BY <1>2 DEF DeadLetter, At
<1>4. PICK l \in Locals : l = [tick[t] EXCEPT !.pc = "deadAck", !.tried = 0]
  BY <1>1, ZeroIsInRange DEF Locals, PCs
<1>5. /\ l.pc = "deadAck" /\ l.item = s /\ l.batch = tick[t].batch /\ l.last = tick[t].last
      /\ Order[l.stage] = c
  BY <1>1, <1>2, <1>4 DEF Locals, Running
<1>6. Becomes(t, l)
  BY <1>4 DEF DeadLetter
<1>7. c \in Copiers => 1..(s - 1) \subseteq Reached(c)
  BY <1>1, <1>2, <1>3 DEF Agrees, Running
<1>8. s \in dead'[c] /\ Reached(c) \subseteq Reached(c)'
  BY <1>1, <1>2, <1>3 DEF TablesOK, Grows
<1>9. Agrees(l)'
  BY <1>1, <1>2, <1>5, <1>7, <1>8 DEF Agrees, Running, Copiers
<1>10. (\A u \in Ticks : Agrees(tick[u]))'
  BY <1>6, <1>9, AgreesOfOthers
<1>11. TablesAgree'
  BY <1>3, TablesFrame DEF events
<1>12. AttemptsAreMade'
  <2>1. \A d \in Consumers, q \in Sequence :
          failures[d][q] <= failures'[d][q] /\ attempts'[d][q] <= attempts[d][q]
    <3>1. \A d \in Consumers, q \in Sequence :
            attempts'[d][q] = IF d = c /\ q = s THEN 0 ELSE attempts[d][q]
      BY <1>1, <1>2, <1>3 DEF TablesOK
    <3> QED
      BY <1>3, <3>1, CountsAreNat DEF LogInv, history
  <2> QED
    BY <1>5, <1>6, <2>1, AttemptsOfMove
<1>13. /\ Settled(c)' = Settled(c) \cup {s}
       /\ \A d \in Consumers : d # c => Settled(d)' = Settled(d)
  BY <1>1, <1>2, <1>3 DEF Settled, TablesOK, history
<1>14. AckedIsSettled' /\ SettledInOrder'
  <2>1. CASE c \in Copiers
    BY <1>2, <1>3, <1>7, <1>13, <2>1, SettlingOfOne DEF Copiers
  <2>2. CASE c \notin Copiers
    BY <1>3, <1>13, <2>2 DEF LogInv, SettlingIsEarned, AckedIsSettled, SettledInOrder, Copiers, history
  <2> QED
    BY <2>1, <2>2
<1>15. DeadLetterIsEarned'
  <2>1. failures[c][s] >= MaxAttempts
    BY <1>2, DeadLetterWasTried
  <2>2. \A d \in Consumers : dead'[d] \subseteq IF d = c THEN dead[d] \cup {s} ELSE dead[d]
    BY <1>1, <1>3 DEF TablesOK
  <2> QED
    BY <1>3, <2>1, <2>2 DEF DeadLetterIsEarned, LogInv, SettlingIsEarned, history
<1> QED
  BY <1>10, <1>11, <1>12, <1>14, <1>15 DEF LogInv, SettlingIsEarned

\* An acknowledgement of what is reached.
LEMMA InvOfAck ==
    ASSUME LogInv, TypeOK', Grows, NEW t \in Ticks, NEW l \in Locals, Becomes(t, l), Agrees(l)',
           l.pc \notin {"failed", "retry"},
           NEW c \in Consumers, NEW n \in 0..latest, Acknowledge(c, n),
           c \in Copiers => 1..n \subseteq Reached(c),
           UNCHANGED <<events, dead, saved, history, faults>>
    PROVE  LogInv'
<1>1. (\A u \in Ticks : Agrees(tick[u]))'
  BY AgreesOfOthers
<1>2. TablesAgree'
  BY TablesFrame DEF events
<1>3. AttemptsAreMade'
  <2>1. \A d \in Consumers, q \in Sequence : attempts'[d][q] <= attempts[d][q]
    BY AcknowledgeIsTyped, TypeParts DEF LogInv
  <2>2. \A d \in Consumers, q \in Sequence : failures[d][q] <= failures'[d][q]
    BY DEF Grows
  <2> QED
    BY <2>1, <2>2, AttemptsOfMove
<1>4. SettlingIsEarned'
  BY SettlingOfAck DEF history
<1> QED
  BY <1>1, <1>2, <1>3, <1>4 DEF LogInv

LEMMA InvOfAcks ==
    ASSUME LogInv, TypeOK', Grows, NEW t \in Ticks, DeadAck(t) \/ AckBatch(t)
    PROVE  LogInv'
<1>1. TablesOK /\ LocalsOK /\ Running(t) \in Consumers /\ tick[t] \in Locals /\ Agrees(tick[t])
  BY TypeParts, RunningIsConsumer DEF LogInv
<1>2. CASE DeadAck(t)
  <2>1. tick[t].pc = "deadAck" /\ tick[t].item \in 0..latest
    BY <1>1, <1>2 DEF DeadAck, At, Locals
  <2>2. PICK l \in Locals : l = [tick[t] EXCEPT !.pc = "handle", !.item = 0]
    BY <1>1, ZeroIsInRange DEF Locals, PCs
  <2>3. /\ l.pc = "handle" /\ l.batch = tick[t].batch /\ l.last = tick[t].last
        /\ Order[l.stage] = Running(t)
    BY <1>1, <2>2 DEF Locals, Running
  <2>4. Agrees(l)
    BY <1>1, <2>3 DEF Agrees, Running
  <2>5. Agrees(l)'
    BY <2>4, AgreesStays DEF LogInv
  <2>6. Running(t) \in Copiers => 1..tick[t].item \subseteq Reached(Running(t))
    <3>1. ASSUME Running(t) \in Copiers
          PROVE  /\ 1..(tick[t].item - 1) \subseteq Reached(Running(t))
                 /\ tick[t].item \in Reached(Running(t))
      BY <1>1, <2>1, <3>1 DEF Agrees, Running, Reached, Settled
    <3>2. tick[t].item \in Nat
      BY <2>1, LogConstants DEF TablesOK
    <3>3. \A q \in 1..tick[t].item : q \in 1..(tick[t].item - 1) \/ q = tick[t].item
      BY <3>2
    <3> QED
      BY <3>1, <3>3
  <2> QED
    BY <1>1, <1>2, <2>1, <2>2, <2>3, <2>5, <2>6, InvOfAck DEF DeadAck
<1>3. CASE AckBatch(t)
  <2>1. \E l \in Locals : Becomes(t, l) /\ Agrees(l)' /\ l.pc \notin {"failed", "retry"}
    <3>1. CASE NextConsumer(t)
      <4>1. PICK l \in Locals :
                 /\ Becomes(t, l)
                 /\ l.pc \notin {"failed", "retry", "deadAck", "read", "delete", "reload",
                                 "submit", "save"}
                 /\ l.batch = {} /\ l.last = 0
                 /\ l.pc = "load" => Kind[Order[l.stage]] = "attention"
        BY <1>1, <3>1, NextConsumerIsTyped
      <4> QED
        BY <4>1, BlankAgrees
    <3>2. ASSUME NEW p \in {"save", "submit"}, Becomes(t, [tick[t] EXCEPT !.pc = p]),
                 Kind[Running(t)] \notin {"mirror", "router"}
          PROVE  \E l \in Locals : Becomes(t, l) /\ Agrees(l)' /\ l.pc \notin {"failed", "retry"}
      <4>1. PICK l \in Locals : l = [tick[t] EXCEPT !.pc = p]
        BY <1>1 DEF Locals, PCs
      <4>2. l.pc = p /\ Order[l.stage] = Running(t)
        BY <1>1, <4>1 DEF Locals, Running
      <4>3. Agrees(l)'
        BY <3>2, <4>2 DEF Agrees, Copiers
      <4> QED
        BY <3>2, <4>1, <4>2, <4>3
    <3> QED
      BY <1>3, <3>1, <3>2 DEF AckBatch
  <2>2. PICK l \in Locals : Becomes(t, l) /\ Agrees(l)' /\ l.pc \notin {"failed", "retry"}
    BY <2>1
  <2>3. UNCHANGED <<events, dead, saved, history, faults>>
    BY <1>3 DEF AckBatch
  <2>4. ASSUME UNCHANGED <<offset, attempts, waiting>> PROVE LogInv'
    <3>1. UNCHANGED <<events, offset, failing, failures, faults>>
      BY <2>3, <2>4 DEF failing, history
    <3>2. \A d \in Copiers : Settled(d)' = Settled(d) /\ saved'[d] = saved[d]
      BY <2>3 DEF Settled, history
    <3> QED
      BY <2>2, <3>1, <3>2, InvOfOthers
  <2>5. ASSUME Acknowledge(Running(t), tick[t].last) PROVE LogInv'
    <3>1. tick[t].last \in 0..latest
      BY <1>1 DEF Locals
    <3>2. Running(t) \in Copiers => 1..tick[t].last \subseteq Reached(Running(t))
      BY <1>1 DEF Agrees, Running
    <3> QED
      BY <1>1, <2>2, <2>3, <2>5, <3>1, <3>2, InvOfAck
  <2> QED
    BY <1>3, <2>4, <2>5 DEF AckBatch
<1> QED
  BY <1>2, <1>3

\* Retention counts what it takes away from a consumer that has not been there.
LEMMA InvOfDelete ==
    ASSUME LogInv, TypeOK', Grows, NEW t \in Ticks, Delete(t)
    PROVE  LogInv'
<1>1. TablesOK /\ LocalsOK
  BY TypeParts DEF LogInv
<1>2. /\ Becomes(t, Idle) /\ UNCHANGED <<latest, aged, offset, failing, saved, handled, failures, faults>>
      /\ live' \subseteq live
      /\ \A c \in Consumers :
           missed'[c] = missed[c] \cup ((live \ live') \ (Settled(c) \cup saved[c]))
  BY DEF Delete
<1>3. Idle \in Locals /\ Agrees(Idle)' /\ Idle.pc = "idle"
  BY <1>1, IdleIsTyped, BlankAgrees DEF Idle
<1>4. (\A u \in Ticks : Agrees(tick[u]))'
  BY <1>2, <1>3, AgreesOfOthers
<1>5. \A c : Settled(c)' = Settled(c)
  BY <1>2 DEF Settled, failing
<1>6. TablesAgree'
  <2>1. ASSUME NEW c \in Copiers
        PROVE  saved'[c] = {} /\ (1..latest') \ live' \subseteq Reached(c)'
    <3>1. c \in Consumers /\ saved[c] = {} /\ (1..latest) \ live \subseteq Reached(c)
      BY <2>1 DEF LogInv, TablesAgree, Copiers
    <3>2. Reached(c) \subseteq Reached(c)' /\ live \ live' \subseteq Reached(c)'
      BY <1>2, <1>5, <3>1 DEF Reached, Grows
    <3> QED
      BY <1>2, <3>1, <3>2
  <2> QED
    BY <2>1 DEF TablesAgree, Reached, Settled, Copiers
<1>7. AttemptsAreMade'
  <2>1. \A d \in Consumers, q \in Sequence :
          failures[d][q] <= failures'[d][q] /\ attempts'[d][q] <= attempts[d][q]
    BY <1>2, CountsAreNat DEF LogInv, failing
  <2> QED
    BY <1>2, <1>3, <2>1, AttemptsOfMove
<1>8. SettlingIsEarned'
  BY <1>2, <1>5, SettlingFrame DEF failing
<1> QED
  BY <1>4, <1>6, <1>7, <1>8 DEF LogInv

LEMMA InvOfTick == ASSUME LogInv, TypeOK', Grows, NEW t \in Ticks, TickStep(t) PROVE LogInv'
  BY InvOfMoves, InvOfHandle, InvOfKeep, InvOfFailure, InvOfDeadLetter, InvOfAcks, InvOfDelete
     DEF TickStep

\* The log grows, time goes by, or nothing happens.
LEMMA InvOfTime ==
    ASSUME LogInv, TypeOK', Grows, AppendEvent \/ GrowOld \/ Elapse \/ UNCHANGED vars
    PROVE  LogInv'
<1>1. UNCHANGED <<offset, attempts, dead, saved, tick, history>>
  BY DEF AppendEvent, GrowOld, Elapse, vars, failing
<1>2. tick \in [Ticks -> Locals]
  BY TypeParts DEF LogInv, LocalsOK
<1>3. ASSUME NEW u \in Ticks PROVE Agrees(tick[u])'
  <2>1. PICK l \in Locals : l = tick[u]
    BY <1>2
  <2>2. Agrees(l)
    BY <2>1 DEF LogInv
  <2>3. Agrees(l)'
    BY <2>2, AgreesStays DEF LogInv
  <2>4. tick'[u] = l
    BY <1>1, <2>1
  <2> QED
    BY <2>3, <2>4 DEF Agrees, Reached, Settled
<1>4. TablesAgree'
  <2>1. \A c : Reached(c)' = Reached(c)
    BY <1>1 DEF Reached, Settled, history
  <2>2. (1..latest') \ live' \subseteq (1..latest) \ live
    <3>1. CASE AppendEvent
      <4>1. latest' = latest + 1 /\ live' = live \cup {latest + 1} /\ latest \in Nat
        BY <3>1, LogConstants DEF AppendEvent, LogInv, TypeOK
      <4> QED
        BY <4>1
    <3>2. CASE GrowOld \/ Elapse \/ UNCHANGED vars
      BY <3>2 DEF GrowOld, Elapse, vars, events
    <3> QED
      BY <3>1, <3>2
  <2> QED
    BY <1>1, <2>1, <2>2 DEF LogInv, TablesAgree
<1>5. AttemptsAreMade'
  BY <1>1 DEF LogInv, AttemptsAreMade, Pending, Fails, history
<1>6. SettlingIsEarned'
  <2>1. \A c : Settled(c)' = Settled(c)
    BY <1>1 DEF Settled, history
  <2> QED
    BY <1>1, <2>1, SettlingFrame
<1> QED
  BY <1>3, <1>4, <1>5, <1>6 DEF LogInv

\* A tick that raises or crashes forgets its locals.
LEMMA InvOfAbandon ==
    ASSUME LogInv, TypeOK', Grows, NEW ticks, Abandon(ticks)
    PROVE  LogInv'
<1>1. UNCHANGED <<events, offset, failing, saved, history>>
  BY DEF Abandon
<1>2. tick \in [Ticks -> Locals] /\ \A u \in Ticks : tick'[u] = Idle \/ tick'[u] = tick[u]
  BY TypeParts DEF LogInv, LocalsOK, Abandon
<1>3. ASSUME NEW u \in Ticks PROVE Agrees(tick[u])'
  <2>1. CASE tick'[u] = Idle
    <3>1. Agrees(Idle)'
      BY BlankAgrees DEF Idle
    <3> QED
      BY <2>1, <3>1 DEF Agrees, Reached, Settled
  <2>2. CASE tick'[u] = tick[u]
    <3>1. PICK l \in Locals : l = tick[u]
      BY <1>2
    <3>2. Agrees(l)
      BY <3>1 DEF LogInv
    <3>3. Agrees(l)'
      BY <3>2, AgreesStays DEF LogInv
    <3> QED
      BY <2>2, <3>1, <3>3 DEF Agrees, Reached, Settled
  <2> QED
    BY <1>2, <2>1, <2>2
<1>4. TablesAgree'
  BY <1>1, TablesFrame DEF events
<1>5. AttemptsAreMade'
  <2>1. \A c, s : Pending(c, s)' \subseteq Pending(c, s)
    BY <1>2 DEF Pending, Fails, Idle
  <2>2. \A u \in Ticks : tick'[u].pc = "retry" => tick'[u] = tick[u]
    BY <1>2 DEF Idle
  <2>3. \A d \in Consumers, q \in Sequence :
          failures[d][q] <= failures'[d][q] /\ attempts'[d][q] <= attempts[d][q]
    BY <1>1, CountsAreNat DEF LogInv, failing, history
  <2> QED
    BY <2>1, <2>2, <2>3, AttemptsFewer
<1>6. SettlingIsEarned'
  <2>1. \A c : Settled(c)' = Settled(c)
    BY <1>1 DEF Settled, history, failing
  <2> QED
    BY <1>1, <2>1, SettlingFrame DEF failing
<1> QED
  BY <1>3, <1>4, <1>5, <1>6 DEF LogInv

LEMMA LogInvStep == LogInv /\ [Next]_vars => LogInv'
<1> SUFFICES ASSUME LogInv, [Next]_vars PROVE LogInv'
  OBVIOUS
<1>1. TypeOK' /\ Grows
  BY TypeStep, NextGrows DEF LogInv
<1>2. CASE Crash \/ \E t \in Ticks : Raise(t)
  BY <1>1, <1>2, InvOfAbandon DEF Crash, Raise
<1> QED
  BY <1>1, <1>2, InvOfTime, InvOfTick DEF Next

LEMMA LogInvHolds == Spec => []LogInv
  BY LogInvInit, LogInvStep, PTL DEF Spec

\* However many ticks run the same consumers, and wherever they raise or crash: an
\* acknowledged event was copied, routed, dead-lettered or deleted under the consumer, a
\* consumer gets to an event only behind all earlier ones, and a dead letter was tried
\* MaxAttempts times (event_log.py, read_batch, ack, retry_later).
THEOREM SettlingHolds == Spec => []SettlingIsEarned
<1>1. LogInv => SettlingIsEarned
  BY DEF LogInv
<1> QED
  BY <1>1, LogInvHolds, PTL

-----------------------------------------------------------------------------
(***************************************************************************)
(* The log implements ConsumerContract.  Three tables are all that the     *)
(* contract sees: the offsets, what is settled and what was missed.        *)
(***************************************************************************)
SettledTable == [c \in Copiers |-> Settled(c)]
MissedTable == [c \in Copiers |-> missed[c]]

\* What stays out of the offsets and of what the copying consumers settle or miss.
LEMMA ContractStutter ==
    ASSUME UNCHANGED offset,
           \A c \in Copiers : Settled(c)' = Settled(c) /\ missed'[c] = missed[c]
    PROVE  UNCHANGED Contract!vars
<1>1. Copiers' = Copiers
  BY DEF Copiers
<1>2. SettledTable' = SettledTable /\ MissedTable' = MissedTable
  BY <1>1 DEF SettledTable, MissedTable
<1> QED
  BY <1>2 DEF Contract!vars, SettledTable, MissedTable

LEMMA ContractSettles ==
    ASSUME NEW c \in Copiers, NEW s, 1..(s - 1) \subseteq Reached(c),
           UNCHANGED <<offset, missed>>, Settled(c)' = Settled(c) \cup {s},
           \A d \in Copiers : d # c => Settled(d)' = Settled(d)
    PROVE  Contract!Next
<1>1. SettledTable' = [SettledTable EXCEPT ![c] = @ \cup {s}]
  BY DEF SettledTable, Copiers
<1>2. s \in SettledTable'[c]
  BY DEF SettledTable, Copiers
<1>3. Contract!Behind(c, s - 1)
  BY DEF Contract!Behind, Reached
<1>4. MissedTable' = MissedTable
  BY DEF MissedTable, Copiers
<1>5. Contract!Settle(c)
  BY <1>1, <1>2, <1>3, <1>4 DEF Contract!Settle, SettledTable, MissedTable
<1> QED
  BY <1>5 DEF Contract!Next

LEMMA ContractAdvances ==
    ASSUME LogInv, NEW c \in Consumers, NEW n \in 0..latest, Acknowledge(c, n),
           c \in Copiers => 1..n \subseteq Reached(c), UNCHANGED <<handled, missed, dead>>
    PROVE  Contract!Next \/ UNCHANGED Contract!vars
<1>1. offset \in [Consumers -> 0..latest] /\ latest \in Nat
  BY LogConstants DEF LogInv, TypeOK
<1>2. \A d \in Copiers : Settled(d)' = Settled(d) /\ missed'[d] = missed[d]
  BY DEF Settled
<1>3. SettledTable' = SettledTable /\ MissedTable' = MissedTable
  BY <1>2 DEF SettledTable, MissedTable, Copiers
<1>4. CASE offset[c] < n
  <2>1. offset' = [offset EXCEPT ![c] = n]
    <3>1. offset[c] \in Nat /\ n \in Nat
      BY <1>1
    <3>2. (IF offset[c] > n THEN offset[c] ELSE n) = n
      BY <1>4, <3>1
    <3> QED
      BY <3>2 DEF Acknowledge
  <2>2. offset'[c] = n
    BY <1>1, <2>1
  <2>3. offset' = [offset EXCEPT ![c] = offset'[c]]
    BY <2>1, <2>2
  <2>4. c \in Copiers => Contract!Behind(c, offset'[c])
    BY <2>2 DEF Contract!Behind, Reached
  <2>5. offset'[c] > offset[c]
    BY <1>1, <1>4, <2>2
  <2>6. Contract!Advance(c)
    BY <1>3, <2>3, <2>4, <2>5 DEF Contract!Advance, SettledTable, MissedTable
  <2> QED
    BY <2>6 DEF Contract!Next
<1>5. CASE ~(offset[c] < n)
  <2>1. (IF offset[c] > n THEN offset[c] ELSE n) = offset[c]
    BY <1>1, <1>5
  <2>2. offset' = offset
    BY <1>1, <2>1 DEF Acknowledge
  <2> QED
    BY <1>2, <2>2, ContractStutter
<1> QED
  BY <1>4, <1>5

LEMMA ContractPrunes ==
    ASSUME LogInv, NEW t \in Ticks, Delete(t)
    PROVE  Contract!Next
<1>1. tick[t].floor \in Nat /\ live \subseteq Nat \ {0}
  <2>1. tick[t] \in Locals /\ latest \in Nat /\ live \subseteq 1..latest
    BY TypeParts, LogConstants DEF LogInv, LocalsOK, TablesOK
  <2> QED
    BY <2>1 DEF Locals
<1>2. PICK d \in Consumers : tick[t].floor <= offset[d]
  BY DEF LogInv, Agrees, Delete, At
<1>3. offset[d] \in Nat
  BY LogConstants DEF LogInv, TypeOK
<1>4. UNCHANGED <<offset, handled, dead>>
  BY DEF Delete, failing
<1>5. live \ live' \subseteq 1..offset[d]
  <2>1. ASSUME NEW s \in live \ live'
        PROVE  s \in 1..offset[d]
    <3>1. ~(s > tick[t].floor)
      BY DEF Delete
    <3>2. s \in Nat /\ s # 0
      BY <1>1
    <3> QED
      BY <1>1, <1>2, <1>3, <3>1, <3>2
  <2> QED
    BY <2>1
<1>6. \A c \in Copiers : /\ MissedTable[c] \subseteq MissedTable'[c]
                         /\ MissedTable'[c] \subseteq MissedTable[c] \cup 1..offset[d]
  BY <1>5 DEF Delete, MissedTable, Copiers
<1>7. SettledTable' = SettledTable
  BY <1>4 DEF SettledTable, Settled, Copiers
<1>8. Contract!Prune(d)
  BY <1>4, <1>6, <1>7 DEF Contract!Prune, SettledTable, MissedTable
<1> QED
  BY <1>8 DEF Contract!Next

LEMMA ContractInit == Init => Contract!Init
<1> SUFFICES ASSUME Init PROVE Contract!Init
  OBVIOUS
<1>1. \A c \in Copiers : Settled(c) = {} /\ missed[c] = {}
  BY DEF Init, Settled, Copiers
<1>2. offset = [c \in Consumers |-> 0]
  BY DEF Init
<1> QED
  BY <1>1, <1>2 DEF Contract!Init

\* A step of a tick is a step of the contract or invisible to it.
LEMMA ContractOfTick ==
    ASSUME LogInv, NEW t \in Ticks, TickStep(t)
    PROVE  Contract!Next \/ UNCHANGED Contract!vars
<1>1. TablesOK /\ LocalsOK /\ Running(t) \in Consumers /\ tick[t] \in Locals /\ Agrees(tick[t])
  BY TypeParts, RunningIsConsumer DEF LogInv
<1>2. CASE \/ StartTick(t) \/ SkipConsumer(t) \/ LoadState(t) \/ ReadOffset(t)
           \/ ReadEvents(t) \/ RetryRead(t) \/ ReadFloor(t) \/ HandleFails(t)
           \/ RetryLater(t) \/ SaveState(t)
  <2>1. UNCHANGED <<offset, handled, dead, missed>>
    BY <1>2 DEF StartTick, SkipConsumer, LoadState, ReadOffset, ReadEvents, RetryRead,
                ReadFloor, HandleFails, RetryLater, SaveState, failing, history
  <2> QED
    BY <2>1, ContractStutter DEF Settled
<1>3. CASE Handle(t)
  <2>1. PICK c \in Consumers : c = Running(t)
    BY <1>1
  <2>2. PICK s \in tick[t].batch :
          Least(s, tick[t].batch) /\ handled' = [handled EXCEPT ![c][s] = @ + 1]
    BY <1>3, <2>1 DEF Handle
  <2>3. s \in Sequence /\ handled \in [Consumers -> [Sequence -> Nat]]
    BY <1>1, BatchIsTyped DEF TablesOK
  <2>4. UNCHANGED <<offset, dead, missed>>
    BY <1>3 DEF Handle, failing
  <2>5. /\ Settled(c)' = Settled(c) \cup {s}
        /\ \A d \in Copiers : d # c => Settled(d)' = Settled(d)
    <3>1. \A d \in Consumers, q \in Sequence :
            handled'[d][q] = IF d = c /\ q = s THEN handled[d][q] + 1 ELSE handled[d][q]
      BY <2>2, <2>3
    <3>2. \A d \in Consumers, q \in Sequence :
            handled'[d][q] > 0 <=> handled[d][q] > 0 \/ (d = c /\ q = s)
      BY <2>3, <3>1
    <3> QED
      BY <2>3, <2>4, <3>2 DEF Settled, Copiers
  <2>6. CASE c \in Copiers
    BY <2>1, <2>2, <2>4, <2>5, <2>6, FrontIsReached, ContractSettles
  <2>7. CASE c \notin Copiers
    BY <2>4, <2>5, <2>7, ContractStutter
  <2> QED
    BY <2>6, <2>7
<1>4. CASE DeadLetter(t)
  <2>1. PICK c \in Consumers, s \in Sequence : c = Running(t) /\ s = tick[t].item
    <3>1. tick[t].item \in 0..latest /\ tick[t].item > 0 /\ latest \in 0..MaxSequence
      BY <1>1, <1>4 DEF LocalsOK, Locals, HasItem, DeadLetter, At, TablesOK
    <3>2. tick[t].item \in Sequence
      BY <3>1, LogConstants DEF Sequence
    <3> QED
      BY <1>1, <3>2
  <2>2. UNCHANGED <<offset, handled, missed>> /\ dead' = [dead EXCEPT ![c] = @ \cup {s}]
    BY <1>4, <2>1 DEF DeadLetter, history
  <2>3. /\ Settled(c)' = Settled(c) \cup {s}
        /\ \A d \in Copiers : d # c => Settled(d)' = Settled(d)
    BY <1>1, <2>2 DEF Settled, TablesOK, Copiers
  <2>4. c \in Copiers => 1..(s - 1) \subseteq Reached(c)
    BY <1>1, <1>4, <2>1 DEF Agrees, Running, DeadLetter, At
  <2>5. CASE c \in Copiers
    BY <2>2, <2>3, <2>4, <2>5, ContractSettles
  <2>6. CASE c \notin Copiers
    BY <2>2, <2>3, <2>6, ContractStutter
  <2> QED
    BY <2>5, <2>6
<1>5. CASE Keep(t) \/ Submit(t)
  <2>1. UNCHANGED <<offset, dead>> /\ Running(t) \notin Copiers
    <3>1. CASE Keep(t)
      BY <3>1 DEF Keep, failing, Copiers
    <3>2. CASE Submit(t)
      BY <1>1, <3>2 DEF Submit, failing, Agrees, Running, At
    <3> QED
      BY <1>5, <3>1, <3>2
  <2>2. \A d \in Copiers : handled'[d] = handled[d] /\ missed'[d] = missed[d]
    <3>1. \A d \in Copiers : d \in Consumers /\ d # Running(t)
      BY <2>1 DEF Copiers
    <3> QED
      BY <1>1, <1>5, <3>1, <2>1 DEF Keep, Submit, TablesOK, Copiers
  <2> QED
    BY <2>1, <2>2, ContractStutter DEF Settled
<1>6. CASE DeadAck(t)
  <2>1. tick[t].pc = "deadAck" /\ tick[t].item \in 0..latest
    BY <1>1, <1>6 DEF DeadAck, At, Locals
  <2>2. Running(t) \in Copiers => 1..tick[t].item \subseteq Reached(Running(t))
    <3>1. ASSUME Running(t) \in Copiers
          PROVE  /\ 1..(tick[t].item - 1) \subseteq Reached(Running(t))
                 /\ tick[t].item \in Reached(Running(t))
      BY <1>1, <2>1, <3>1 DEF Agrees, Running, Reached, Settled
    <3>2. tick[t].item \in Nat
      BY <1>1, <2>1, LogConstants DEF TablesOK
    <3>3. \A q \in 1..tick[t].item : q \in 1..(tick[t].item - 1) \/ q = tick[t].item
      BY <3>2
    <3> QED
      BY <3>1, <3>3
  <2> QED
    BY <1>1, <1>6, <2>1, <2>2, ContractAdvances DEF DeadAck, history
<1>7. CASE AckBatch(t)
  <2>1. tick[t].last \in 0..latest
        /\ (Running(t) \in Copiers => 1..tick[t].last \subseteq Reached(Running(t)))
    BY <1>1 DEF Agrees, Locals, Running
  <2>2. UNCHANGED <<handled, missed, dead>>
    BY <1>7 DEF AckBatch, history
  <2>3. CASE Acknowledge(Running(t), tick[t].last)
    BY <1>1, <2>1, <2>2, <2>3, ContractAdvances
  <2>4. CASE UNCHANGED offset
    BY <2>2, <2>4, ContractStutter DEF Settled
  <2> QED
    BY <1>7, <2>3, <2>4 DEF AckBatch
<1>8. CASE Delete(t)
  BY <1>8, ContractPrunes
<1> QED
  BY <1>2, <1>3, <1>4, <1>5, <1>6, <1>7, <1>8 DEF TickStep

LEMMA ContractStep == LogInv /\ [Next]_vars => [Contract!Next]_(Contract!vars)
<1> SUFFICES ASSUME LogInv, [Next]_vars
             PROVE  Contract!Next \/ UNCHANGED Contract!vars
  OBVIOUS
<1>1. CASE AppendEvent \/ GrowOld \/ Elapse \/ Crash \/ (\E t \in Ticks : Raise(t)) \/ UNCHANGED vars
  <2>1. UNCHANGED <<offset, handled, dead, missed>>
    BY <1>1 DEF AppendEvent, GrowOld, Elapse, Crash, Raise, Abandon, vars, failing, history
  <2> QED
    BY <2>1, ContractStutter DEF Settled
<1> QED
  BY <1>1, ContractOfTick DEF Next

\* The log with its consumers behaves as ConsumerContract promises, whatever the ticks
\* interleave, raise or crash in: positions never go back, a copying consumer advances
\* only behind what it has settled or lost, and retention takes events away only up to
\* a position that some consumer has acknowledged.
THEOREM ContractHolds == Spec => ImplementsContract
  BY ContractInit, ContractStep, LogInvHolds, PTL
  DEF Spec, ImplementsContract, Contract!Spec

-----------------------------------------------------------------------------
(***************************************************************************)
(* One tick at a time.  A second inductive invariant says how far the tick *)
(* has got with its consumer; it holds until something raises or crashes.  *)
(***************************************************************************)

OneTick == \E t : Ticks = {t}

\* The tick has the state of its consumer in its locals l.
Loaded(l) ==
    \/ Kind[Order[l.stage]] = "attention" /\ l.pc \in {"offset", "read", "handle", "submit", "save"}
    \/ Kind[Order[l.stage]] = "stream" /\ l.pc \in {"handle", "save"}

\* Each step has its kind of consumer and its place.
InPlace(l) ==
    LET c == Order[l.stage] IN
    /\ l.pc \notin {"handle", "failed", "retry", "deadAck", "submit", "save"} => l.last = 0
    /\ l.pc \notin {"reload", "handle"} => l.batch = {}
    /\ l.pc = "read" => l.base = offset[c]
    /\ \A s \in l.batch : s > offset[c] /\ s > l.last
    /\ l.pc \in {"failed", "retry", "deadAck"} =>
         l.item > offset[c] /\ l.item > l.last /\ Kind[c] = "router"
    /\ l.pc \in {"submit", "save"} => l.last <= offset[c]
    /\ l.pc = "reload" => Kind[c] = "stream"
    /\ l.pc \in {"load", "submit"} => Kind[c] = "attention"
    /\ l.pc = "save" => c \notin Copiers

\* The state in hand holds, with what is settled, all that the tick has passed.
Passes(l, s) == s <= offset[Order[l.stage]] \/ s <= l.last
InHand(l) == l.draft \cup Reached(Order[l.stage])
KeepsAll(l) ==
    LET c == Order[l.stage] IN
    /\ Loaded(l) =>
         /\ \A s \in l.draft : handled[c][s] = 0 /\ Passes(l, s)
         /\ \A s \in Sequence : Passes(l, s) => s \in InHand(l)
         /\ saved[c] \subseteq InHand(l)
         /\ \A s \in l.batch : \A q \in 1..(s - 1) : q \in l.batch \cup InHand(l)
    /\ l.pc = "reload" =>
         \A s \in l.batch : \A q \in 1..(s - 1) : q \in l.batch \cup saved[c] \cup Reached(c)

\* The tick is through with event s for consumer c.
Through(l, c, s) ==
    Order[l.stage] = c /\ (s <= l.last \/ (l.pc = "deadAck" /\ s = l.item))
Submits(l, c) == Order[l.stage] = c /\ l.pc \in {"submit", "save"}

\* What lies ahead is untouched; what is settled is settled once; what is saved is
\* neither ahead nor settled; and what retention has deleted was seen.
AheadIsUntouched(l, c) ==
    \A s \in Sequence :
        s > offset[c] /\ ~Through(l, c, s) => handled[c][s] = 0 /\ s \notin dead[c]
OnceEach(c) ==
    /\ \A s \in Sequence : handled[c][s] <= 1 /\ (s \in dead[c] => handled[c][s] = 0)
    /\ dead[c] # {} => Kind[c] = "router"
SavedIsOpen(l, c) ==
    c \notin Copiers =>
        /\ \A s \in saved[c] : s <= offset[c]
        /\ ~(Submits(l, c) /\ l.pc = "save") => \A s \in saved[c] : handled[c][s] = 0
KeptOrSeen(l, c) ==
    c \notin Copiers =>
        /\ ~Submits(l, c) => 1..offset[c] \subseteq saved[c] \cup Reached(c)
        /\ (1..latest) \ live \subseteq saved[c] \cup Reached(c)
Orderly(l, c) ==
    AheadIsUntouched(l, c) /\ OnceEach(c) /\ SavedIsOpen(l, c) /\ KeptOrSeen(l, c)

\* As long as nothing has raised or crashed.
Proper(l) == InPlace(l) /\ KeepsAll(l) /\ \A c \in Consumers : Orderly(l, c)

\* The tick that deletes knows the lowest offset there is.
SerialAt(l) ==
    /\ l.pc = "delete" => \A c \in Consumers : offset[c] # 0 => l.floor <= offset[c]
    /\ faults = 0 => Proper(l)

SerialInv == \A t \in Ticks : SerialAt(tick[t])

LEMMA SerialInit == Init => SerialInv
<1> SUFFICES ASSUME Init, NEW t \in Ticks PROVE SerialAt(tick[t])
  BY DEF SerialInv
<1>1. /\ tick[t] = Idle /\ latest = 0 /\ live = {}
      /\ \A c \in Consumers : /\ offset[c] = 0 /\ dead[c] = {} /\ saved[c] = {} /\ missed[c] = {}
                              /\ \A s \in Sequence : handled[c][s] = 0
  BY DEF Init
<1>2. Idle.pc = "idle" /\ Idle.batch = {} /\ Idle.last = 0
  BY DEF Idle
<1>3. InPlace(Idle) /\ KeepsAll(Idle)
  BY <1>2 DEF InPlace, KeepsAll, Loaded
<1>4. \A c \in Consumers : Orderly(Idle, c)
  BY <1>1, <1>2 DEF Orderly, AheadIsUntouched, OnceEach, SavedIsOpen, KeptOrSeen, Submits, Through
<1> QED
  BY <1>1, <1>2, <1>3, <1>4 DEF SerialAt, Proper

\* What the types say of the numbers that the proofs compare.
LEMMA SerialTypes ==
    ASSUME TypeOK
    PROVE  /\ latest \in Nat /\ 1..latest \subseteq Sequence /\ live \subseteq 1..latest
           /\ Sequence \subseteq Nat \ {0} /\ faults \in Nat
           /\ \A c \in Consumers :
                /\ offset[c] \in Nat /\ offset[c] <= latest /\ 1..offset[c] \subseteq Sequence
                /\ saved[c] \subseteq Sequence /\ dead[c] \subseteq Sequence
                /\ missed[c] \subseteq Sequence
                /\ \A s \in Sequence : handled[c][s] \in Nat
           /\ \A l \in Locals :
                /\ Order[l.stage] \in Consumers /\ l.last \in Nat /\ l.last <= latest
                /\ l.item \in Nat /\ l.item <= latest /\ l.floor \in Nat
                /\ l.batch \subseteq 1..latest /\ l.batch \subseteq Sequence
                /\ l.draft \subseteq Sequence
<1>1. /\ latest \in Nat /\ latest <= MaxSequence /\ live \subseteq 1..latest /\ faults \in Nat
      /\ offset \in [Consumers -> 0..latest] /\ MaxSequence \in Nat
      /\ handled \in [Consumers -> [Sequence -> Nat]]
      /\ saved \in [Consumers -> SUBSET Sequence] /\ dead \in [Consumers -> SUBSET Sequence]
      /\ missed \in [Consumers -> SUBSET Sequence]
  BY LogConstants DEF TypeOK
<1>2. 1..latest \subseteq Sequence /\ Sequence \subseteq Nat \ {0}
  BY <1>1 DEF Sequence
<1>3. \A c \in Consumers : offset[c] \in Nat /\ offset[c] <= latest /\ 1..offset[c] \subseteq Sequence
  <2> TAKE c \in Consumers
  <2>1. offset[c] \in 0..latest
    BY <1>1
  <2> QED
    BY <1>1, <2>1 DEF Sequence
<1>4. ASSUME NEW l \in Locals
      PROVE  /\ Order[l.stage] \in Consumers /\ l.last \in 0..latest /\ l.item \in 0..latest
             /\ l.floor \in 0..latest /\ l.batch \subseteq 1..latest /\ l.draft \subseteq Sequence
  BY LogConstants DEF Locals
<1> QED
  BY <1>1, <1>2, <1>3, <1>4

\* A step that leaves what is handled, missed and saved as it is, and acknowledges
\* at most what the tick is through with.
LEMMA OrderlyMoves ==
    ASSUME TypeOK, TypeOK', NEW l, NEW m, \A c \in Consumers : Orderly(l, c),
           l.pc \notin {"submit", "save"},
           UNCHANGED <<handled, dead, missed, saved, live, latest>>,
           \A c \in Consumers : offset[c] <= offset'[c],
           \A c \in Consumers, s \in Sequence :
               Through(l, c, s) /\ s > offset'[c] => Through(m, c, s),
           \A c \in Consumers \ Copiers : Submits(m, c) \/ offset'[c] = offset[c]
    PROVE  \A c \in Consumers : Orderly(m, c)'
<1> SUFFICES ASSUME NEW c \in Consumers PROVE Orderly(m, c)'
  OBVIOUS
<1>1. /\ AheadIsUntouched(l, c) /\ OnceEach(c) /\ SavedIsOpen(l, c) /\ KeptOrSeen(l, c)
      /\ ~Submits(l, c)
  BY DEF Orderly, Submits
<1>2. /\ offset[c] \in Nat /\ offset'[c] \in Nat /\ saved[c] \subseteq Sequence
      /\ Sequence \subseteq Nat
  <2>1. offset' \in [Consumers -> 0..latest'] /\ latest' \in Nat
    BY LogConstants DEF TypeOK
  <2> QED
    BY <2>1, SerialTypes
<1>3. Reached(c)' = Reached(c) /\ Copiers' = Copiers
  BY DEF Reached, Settled, Copiers
<1>4. AheadIsUntouched(m, c)'
  <2> SUFFICES ASSUME NEW s \in Sequence, s > offset'[c], ~Through(m, c, s)
               PROVE  handled'[c][s] = 0 /\ s \notin dead'[c]
    BY DEF AheadIsUntouched, Through
  <2>1. ~Through(l, c, s) /\ s > offset[c]
    BY <1>2
  <2> QED
    BY <1>1, <2>1 DEF AheadIsUntouched
<1>5. OnceEach(c)'
  BY <1>1 DEF OnceEach
<1>6. SavedIsOpen(m, c)'
  <2>1. ASSUME c \notin Copiers, NEW s \in saved[c] PROVE s <= offset'[c] /\ handled'[c][s] = 0
    <3>1. s <= offset[c] /\ handled[c][s] = 0
      BY <1>1, <2>1 DEF SavedIsOpen
    <3>2. s \in Nat
      BY <1>2
    <3>3. offset[c] <= offset'[c] /\ handled'[c][s] = handled[c][s]
      OBVIOUS
    <3> QED
      BY <1>2, <3>1, <3>2, <3>3
  <2> QED
    BY <1>3, <2>1 DEF SavedIsOpen
<1>7. KeptOrSeen(m, c)'
  BY <1>1, <1>3 DEF KeptOrSeen, Submits
<1> QED
  BY <1>4, <1>5, <1>6, <1>7 DEF Orderly

\* A tick between two consumers holds nothing.
LEMMA BlankIsInPlace ==
    ASSUME NEW m, m.pc \in {"idle", "floor", "load", "offset", "delete"}, m.batch = {}, m.last = 0,
           m.pc = "load" => Kind[Order[m.stage]] = "attention",
           m.pc = "offset" => Kind[Order[m.stage]] # "attention"
    PROVE  InPlace(m)' /\ KeepsAll(m)'
<1>1. ~Loaded(m)
  BY DEF Loaded
<1> QED
  BY <1>1 DEF InPlace, KeepsAll, Loaded

\* A tick that has nothing in hand is through with nothing.
LEMMA NothingThrough ==
    ASSUME TypeOK, NEW l, InPlace(l),
           l.pc \notin {"handle", "failed", "retry", "deadAck", "submit", "save"},
           NEW c, NEW s \in Sequence
    PROVE  ~Through(l, c, s)
<1>1. l.last = 0 /\ l.pc # "deadAck"
  BY DEF InPlace
<1>2. s \in Nat /\ s # 0
  BY SerialTypes
<1> QED
  BY <1>1, <1>2 DEF Through

\* The next locals are proper when nothing but them changes.
LEMMA QuietMove ==
    ASSUME LogInv, TypeOK', NEW t \in Ticks, Proper(tick[t]), NEW m, InPlace(m)', KeepsAll(m)',
           tick[t].pc \notin {"submit", "save"},
           UNCHANGED <<handled, dead, missed, saved, latest, live, offset>>,
           \A c \in Consumers, s \in Sequence : Through(tick[t], c, s) => Through(m, c, s)
    PROVE  Proper(m)'
<1> DEFINE l == tick[t]
<1>1. TypeOK /\ \A c \in Consumers : Orderly(l, c)
  BY DEF LogInv, Proper
<1>2. \A c \in Consumers : offset[c] \in Nat
  BY <1>1, SerialTypes
<1>3. \A c \in Consumers : offset[c] <= offset'[c] /\ offset'[c] = offset[c]
  BY <1>2
<1>4. \A c \in Consumers, s \in Sequence :
        Through(l, c, s) /\ s > offset'[c] => Through(m, c, s)
  OBVIOUS
<1>5. l.pc \notin {"submit", "save"}
  OBVIOUS
<1>6. PICK k : k = l
  OBVIOUS
<1> HIDE DEF l
<1>7. \A c \in Consumers : Orderly(m, c)'
  BY <1>1, <1>3, <1>4, <1>5, <1>6, OrderlyMoves
<1> QED
  BY <1>7 DEF Proper

\* To another consumer, or to the end of the tick.
LEMMA ProperBetween ==
    ASSUME LogInv, TypeOK', NEW t \in Ticks, Proper(tick[t]),
           StartTick(t) \/ SkipConsumer(t) \/ ReadFloor(t)
    PROVE  \E m \in Locals : Becomes(t, m) /\ Proper(m)' /\ (m.pc = "delete" => ReadFloor(t))
<1>1. TypeOK /\ TablesOK /\ LocalsOK /\ tick[t] \in Locals /\ InPlace(tick[t])
  BY TypeParts, RunningIsConsumer DEF LogInv, Proper
<1>2. tick[t].pc \in {"idle", "load", "offset", "floor"}
  BY <1>1, IdleIsTyped, RunningIsConsumer DEF StartTick, SkipConsumer, ReadFloor, At, FirstPC
<1>3. UNCHANGED <<handled, dead, missed, saved, latest, live, offset>>
  BY DEF StartTick, SkipConsumer, ReadFloor, events, failing, history
<1>4. \A c \in Consumers, s \in Sequence : ~Through(tick[t], c, s)
  BY <1>1, <1>2, NothingThrough
<1>5. \E m \in Locals :
        /\ Becomes(t, m) /\ m.batch = {} /\ m.last = 0
        /\ m.pc \in {"idle", "floor", "load", "offset", "delete"}
        /\ m.pc = "delete" => ReadFloor(t)
        /\ m.pc = "load" => Kind[Order[m.stage]] = "attention"
        /\ m.pc = "offset" => Kind[Order[m.stage]] # "attention"
  <2>1. CASE StartTick(t)
    <3> DEFINE m == [Idle EXCEPT !.pc = IF t \in Bare THEN "floor" ELSE FirstPC(1)]
    <3>1. m \in Locals /\ Becomes(t, m) /\ m.batch = {} /\ m.last = 0 /\ m.stage = 1
          /\ m.pc = IF t \in Bare THEN "floor" ELSE FirstPC(1)
      BY <1>1, <2>1, IdleIsTyped DEF StartTick, Idle, PCs
    <3> HIDE DEF m
    <3> QED
      BY <3>1 DEF FirstPC
  <2>2. CASE SkipConsumer(t)
    BY <1>1, <2>2, NextConsumerIsTyped DEF SkipConsumer
  <2>3. CASE ReadFloor(t) /\ Becomes(t, Idle)
    BY <1>1, <2>3, IdleIsTyped DEF Idle
  <2>4. CASE ReadFloor(t) /\ ~Becomes(t, Idle)
    <3>1. PICK n \in Offsets :
            Becomes(t, [tick[t] EXCEPT !.pc = "delete", !.floor = n, !.excess = Excess])
      BY <2>4 DEF ReadFloor
    <3>2. PICK l \in Locals : l = tick[t] /\ l.batch = {} /\ l.last = 0
      BY <1>1, <1>2 DEF InPlace
    <3> DEFINE m == [l EXCEPT !.pc = "delete", !.floor = n, !.excess = Excess]
    <3>3. n \in 0..latest /\ Excess \in 0..latest
      <4>1. latest \in Nat /\ MaxEvents \in Nat /\ offset \in [Consumers -> 0..latest]
        BY <1>1, LogConstants DEF TypeOK
      <4> QED
        BY <4>1 DEF Offsets, Excess
    <3>4. m \in Locals /\ m.pc = "delete" /\ m.batch = {} /\ m.last = 0
      <4>1. "delete" \in PCs
        BY DEF PCs
      <4> QED
        BY ONLY <3>2, <3>3, <4>1 DEF Locals
    <3>5. Becomes(t, m)
      BY <3>1, <3>2
    <3> HIDE DEF m
    <3> QED
      BY <2>4, <3>4, <3>5
  <2> QED
    BY <2>1, <2>2, <2>3, <2>4
<1>6. PICK m \in Locals :
        /\ Becomes(t, m) /\ m.batch = {} /\ m.last = 0
        /\ m.pc \in {"idle", "floor", "load", "offset", "delete"}
        /\ m.pc = "delete" => ReadFloor(t)
        /\ m.pc = "load" => Kind[Order[m.stage]] = "attention"
        /\ m.pc = "offset" => Kind[Order[m.stage]] # "attention"
  BY <1>5
<1>7. InPlace(m)' /\ KeepsAll(m)'
  BY <1>6, BlankIsInPlace
<1>8. Proper(m)'
  BY <1>2, <1>3, <1>4, <1>7, QuietMove
<1> QED
  BY <1>6, <1>8

\* What a step of a tick starts from.
LEMMA SerialStart ==
    ASSUME LogInv, NEW t \in Ticks, Proper(tick[t])
    PROVE  /\ TypeOK /\ TablesOK /\ LocalsOK
           /\ \E l \in Locals : \E c \in Consumers :
                /\ l = tick[t] /\ c = Running(t) /\ c = Order[l.stage]
                /\ InPlace(l) /\ KeepsAll(l) /\ \A d \in Consumers : Orderly(l, d)
<1>1. TypeOK /\ TablesOK /\ LocalsOK
  BY TypeParts DEF LogInv
<1>2. tick[t] \in Locals /\ Running(t) \in Consumers
  BY <1>1, RunningIsConsumer
<1> QED
  BY <1>1, <1>2 DEF Running, Proper

\* The state is loaded, in front of the batch or behind it.
LEMMA ProperLoad ==
    ASSUME LogInv, TypeOK', NEW t \in Ticks, Proper(tick[t]), LoadState(t)
    PROVE  \E m \in Locals : Becomes(t, m) /\ Proper(m)' /\ m.pc # "delete"
<1>1. TypeOK /\ TablesOK /\ LocalsOK
  BY SerialStart
<1>2. PICK l \in Locals, c \in Consumers :
        /\ l = tick[t] /\ c = Running(t) /\ c = Order[l.stage]
        /\ InPlace(l) /\ KeepsAll(l) /\ \A d \in Consumers : Orderly(l, d)
  BY SerialStart
<1>3. PICK m : m = [l EXCEPT !.pc = IF @ = "load" THEN "offset" ELSE "handle",
                             !.draft = saved[c]]
  OBVIOUS
<1>4. /\ m \in Locals /\ Becomes(t, m) /\ m.pc = (IF l.pc = "load" THEN "offset" ELSE "handle")
      /\ m.draft = saved[c] /\ m.batch = l.batch /\ m.last = l.last /\ m.stage = l.stage
  BY <1>1, <1>2, <1>3 DEF Locals, LoadState, TablesOK, PCs
<1>5. l.pc \in {"load", "reload"} /\ l.last = 0
  BY <1>2 DEF LoadState, InPlace
<1>6. UNCHANGED <<handled, dead, missed, saved, latest, live, offset>>
  BY DEF LoadState, events, failing, history
<1>7. c \notin Copiers /\ Kind[c] \in {"attention", "stream"}
  BY <1>2, <1>5 DEF InPlace, Copiers
<1>8. /\ \A s \in saved[c] : s <= offset[c] /\ handled[c][s] = 0
      /\ 1..offset[c] \subseteq saved[c] \cup Reached(c)
  BY <1>2, <1>5, <1>7 DEF Orderly, SavedIsOpen, KeptOrSeen, Submits
<1>9. InPlace(m)'
  BY <1>2, <1>4, <1>5, <1>6, <1>7 DEF InPlace, Copiers
<1>10. KeepsAll(m)'
  <2>1. ASSUME NEW s \in Sequence, Passes(m, s) PROVE s \in saved[c] \cup Reached(c)
    <3>1. s <= offset[c]
      BY <1>1, <1>2, <1>4, <1>5, <2>1, SerialTypes DEF Passes
    <3>2. s \in 1..offset[c]
      BY <1>1, <3>1, SerialTypes
    <3> QED
      BY <1>8, <3>2
  <2>2. \A s \in m.batch : \A q \in 1..(s - 1) : q \in m.batch \cup saved[c] \cup Reached(c)
    BY <1>2, <1>4, <1>5 DEF InPlace, KeepsAll
  <2>3. Reached(c)' = Reached(c)
    BY <1>6 DEF Reached, Settled
  <2> QED
    <3>1. Order[m.stage] = c /\ InHand(m)' = saved[c] \cup Reached(c)
      BY <1>2, <1>4, <1>6, <2>3 DEF InHand
    <3>2. \A s \in m.draft : handled'[c][s] = 0 /\ Passes(m, s)'
      BY <1>4, <1>6, <1>8, <3>1 DEF Passes
    <3>3. \A s \in Sequence : Passes(m, s)' => s \in saved[c] \cup Reached(c)
      BY <1>6, <2>1 DEF Passes
    <3>4. m.pc # "reload"
      BY <1>4
    <3> QED
      BY <1>6, <2>2, <3>1, <3>2, <3>3, <3>4 DEF KeepsAll
<1>11. \A d \in Consumers, s \in Sequence : ~Through(tick[t], d, s)
  BY <1>1, <1>2, <1>5, NothingThrough
<1>12. Proper(m)'
  BY <1>2, <1>5, <1>6, <1>9, <1>10, <1>11, QuietMove
<1> QED
  BY <1>4, <1>5, <1>12

\* read_batch reads the offset ...
LEMMA ProperOffset ==
    ASSUME LogInv, TypeOK', NEW t \in Ticks, Proper(tick[t]), ReadOffset(t)
    PROVE  \E m \in Locals : Becomes(t, m) /\ Proper(m)' /\ m.pc # "delete"
<1>1. TypeOK /\ TablesOK /\ LocalsOK
  BY SerialStart
<1>2. PICK l \in Locals, c \in Consumers :
        /\ l = tick[t] /\ c = Running(t) /\ c = Order[l.stage]
        /\ InPlace(l) /\ KeepsAll(l) /\ \A d \in Consumers : Orderly(l, d)
  BY SerialStart
<1>3. PICK m : m = [l EXCEPT !.pc = "read", !.base = offset[c]]
  OBVIOUS
<1>4. /\ m \in Locals /\ Becomes(t, m) /\ m.pc = "read" /\ m.base = offset[c]
      /\ m.draft = l.draft /\ m.batch = l.batch /\ m.last = l.last /\ m.stage = l.stage
  BY <1>1, <1>2, <1>3 DEF Locals, ReadOffset, TablesOK, PCs
<1>5. l.pc = "offset" /\ l.last = 0 /\ l.batch = {}
  BY <1>2 DEF ReadOffset, InPlace, At
<1>6. UNCHANGED <<handled, dead, missed, saved, latest, live, offset>>
  BY DEF ReadOffset, events, failing, history
<1>7. InPlace(m)'
  BY <1>2, <1>4, <1>5, <1>6 DEF InPlace
<1>8. KeepsAll(m)'
  <2>1. Reached(c)' = Reached(c)
    BY <1>6 DEF Reached, Settled
  <2>2. Loaded(m) => Loaded(l)
    BY <1>4, <1>5 DEF Loaded
  <2> QED
    BY <1>2, <1>4, <1>5, <1>6, <2>1, <2>2 DEF KeepsAll, InHand, Passes
<1>9. \A d \in Consumers, s \in Sequence : ~Through(tick[t], d, s)
  BY <1>1, <1>2, <1>5, NothingThrough
<1>10. Proper(m)'
  BY <1>2, <1>5, <1>6, <1>7, <1>8, <1>9, QuietMove
<1> QED
  BY <1>4, <1>10

\* ... and then the events: all rows that are left behind it, up to the last one read.
LEMMA ProperRead ==
    ASSUME LogInv, TypeOK', NEW t \in Ticks, Proper(tick[t]), ReadEvents(t)
    PROVE  \E m \in Locals : Becomes(t, m) /\ Proper(m)' /\ m.pc # "delete"
<1>1. TypeOK /\ TablesOK /\ LocalsOK
  BY SerialStart
<1>2. PICK l \in Locals, c \in Consumers :
        /\ l = tick[t] /\ c = Running(t) /\ c = Order[l.stage]
        /\ InPlace(l) /\ KeepsAll(l) /\ \A d \in Consumers : Orderly(l, d)
  BY SerialStart
<1>3. l.pc = "read" /\ l.last = 0 /\ l.base = offset[c]
  BY <1>2 DEF ReadEvents, InPlace, At
<1>4. PICK to \in 0..latest :
        Becomes(t, [l EXCEPT !.pc = AfterRead(t), !.base = 0, !.batch = Rows(offset[c], to)])
  BY <1>2, <1>3 DEF ReadEvents
<1>5. PICK m : m = [l EXCEPT !.pc = AfterRead(t), !.base = 0, !.batch = Rows(offset[c], to)]
  OBVIOUS
<1>6. Rows(offset[c], to) \subseteq 1..latest /\ 0 \in 0..latest /\ AfterRead(t) \in PCs
  BY <1>1, SerialTypes DEF Rows, AfterRead, PCs
<1>7. /\ m \in Locals /\ m.pc = AfterRead(t) /\ m.batch = Rows(offset[c], to)
      /\ m.draft = l.draft /\ m.last = 0 /\ m.stage = l.stage
  <2>1. l \in Locals /\ Rows(offset[c], to) \in SUBSET (1..latest)
    BY <1>2, <1>6
  <2> QED
    BY ONLY <1>3, <1>5, <1>6, <2>1 DEF Locals
<1>8. m.pc = IF Kind[c] = "stream" THEN "reload" ELSE "handle"
  <2>1. AfterRead(t) = IF Kind[Running(t)] = "stream" THEN "reload" ELSE "handle"
    BY DEF AfterRead
  <2>2. m.pc = AfterRead(t) /\ c = Running(t)
    BY <1>2, <1>7
  <2> QED
    BY <2>1, <2>2
<1>9. UNCHANGED <<handled, dead, missed, saved, latest, live, offset>>
  BY DEF ReadEvents, events, failing, history
<1>10. /\ offset[c] \in Nat /\ to \in Nat /\ to <= latest /\ latest \in Nat
       /\ Sequence \subseteq Nat \ {0} /\ live \subseteq 1..latest
  BY <1>1, SerialTypes
<1>11. \A s \in m.batch : s \in Nat /\ s > 0 /\ s > offset[c] /\ s <= to
  <2> SUFFICES ASSUME NEW s \in m.batch PROVE s \in Nat /\ s > 0 /\ s > offset[c] /\ s <= to
    OBVIOUS
  <2>1. s \in live /\ offset[c] < s /\ s <= to
    BY <1>7 DEF Rows
  <2> QED
    <3>1. s \in 1..latest /\ s \in Nat
      BY <1>10, <2>1
    <3> QED
      BY ONLY <1>10, <2>1, <3>1
<1>12. InPlace(m)'
  <2>1. Reached(c)' = Reached(c) /\ m.pc \in {"reload", "handle"}
    BY <1>8, <1>9 DEF Reached, Settled
  <2> QED
    BY <1>2, <1>7, <1>8, <1>9, <1>11, <2>1 DEF InPlace
<1>13. ASSUME c \notin Copiers, NEW s \in m.batch, NEW q \in 1..(s - 1)
       PROVE  q \in m.batch \cup saved[c] \cup Reached(c)
  <2>1. KeptOrSeen(l, c) /\ ~Submits(l, c)
    BY <1>2, <1>3 DEF Orderly, Submits
  <2>2. /\ 1..offset[c] \subseteq saved[c] \cup Reached(c)
        /\ (1..latest) \ live \subseteq saved[c] \cup Reached(c)
    BY <1>13, <2>1 DEF KeptOrSeen
  <2>3. s \in Nat /\ s <= to /\ s <= latest
    BY <1>10, <1>11
  <2>4. q \in Nat /\ q > 0 /\ q < s /\ q <= to /\ q \in 1..latest
    BY <1>10, <2>3
  <2>5. CASE q <= offset[c]
    BY <1>10, <2>2, <2>4, <2>5
  <2>6. CASE q \notin live
    BY <2>2, <2>4, <2>6
  <2>7. CASE ~(q <= offset[c]) /\ q \in live
    BY <1>7, <1>10, <2>4, <2>7 DEF Rows
  <2> QED
    BY <2>5, <2>6, <2>7
<1>14. KeepsAll(m)'
  <2>1. Reached(c)' = Reached(c)
    BY <1>9 DEF Reached, Settled
  <2>2. Loaded(m) => Loaded(l) /\ c \notin Copiers
    BY <1>2, <1>3, <1>7, <1>8 DEF Loaded, Copiers
  <2>3. m.pc = "reload" => c \notin Copiers
    BY <1>8 DEF Copiers
  <2>4. Loaded(m) =>
          /\ \A s \in m.draft : handled[c][s] = 0 /\ Passes(m, s)
          /\ \A s \in Sequence : Passes(m, s) => s \in InHand(m)
          /\ saved[c] \subseteq InHand(m)
    BY <1>2, <1>3, <1>7, <2>2 DEF KeepsAll, InHand, Passes
  <2>5. Loaded(m) => \A s \in m.batch : \A q \in 1..(s - 1) : q \in m.batch \cup InHand(m)
    <3>1. Loaded(m) => Reached(c) \subseteq InHand(m)
      BY <1>2, <1>7 DEF InHand
    <3> QED
      BY <1>13, <2>2, <2>4, <3>1
  <2>6. /\ InHand(m)' = InHand(m) /\ Loaded(m)' = Loaded(m)
        /\ \A s : Passes(m, s)' = Passes(m, s)
    BY <1>2, <1>7, <1>9, <2>1 DEF InHand, Loaded, Passes
  <2> QED
    BY <1>2, <1>7, <1>9, <1>13, <2>1, <2>3, <2>4, <2>5, <2>6 DEF KeepsAll
<1>15. \A d \in Consumers, s \in Sequence : ~Through(tick[t], d, s)
  BY <1>1, <1>2, <1>3, NothingThrough
<1>16. Proper(m)'
  BY <1>2, <1>3, <1>9, <1>12, <1>14, <1>15, QuietMove
<1>17. Becomes(t, m) /\ m.pc # "delete"
  <2>1. Becomes(t, m)
    BY <1>4, <1>5
  <2>2. m.pc # "delete"
    BY <1>8
  <2> QED
    BY <2>1, <2>2
<1> QED
  BY <1>7, <1>16, <1>17

\* A failure on the next event, and what retry_later does of it short of a dead letter.
LEMMA ProperFailure ==
    ASSUME LogInv, TypeOK', NEW t \in Ticks, Proper(tick[t]),
           HandleFails(t) \/ RetryRead(t) \/ RetryLater(t)
    PROVE  \E m \in Locals : Becomes(t, m) /\ Proper(m)' /\ m.pc # "delete"
<1>1. TypeOK /\ TablesOK /\ LocalsOK
  BY SerialStart
<1>2. PICK l \in Locals, c \in Consumers :
        /\ l = tick[t] /\ c = Running(t) /\ c = Order[l.stage]
        /\ InPlace(l) /\ KeepsAll(l) /\ \A d \in Consumers : Orderly(l, d)
  BY SerialStart
<1>3. UNCHANGED <<handled, dead, missed, saved, latest, live, offset>>
  BY DEF HandleFails, RetryRead, RetryLater, events, failing, history
<1>4. l.pc \in {"handle", "failed", "retry"} /\ Kind[c] = "router"
  BY <1>2 DEF HandleFails, RetryRead, RetryLater, InPlace, At
<1>5. \E m \in Locals :
        /\ Becomes(t, m) /\ m.pc \in {"failed", "retry", "handle"}
        /\ m.batch = {} /\ m.last = l.last /\ m.stage = l.stage
        /\ m.pc \in {"failed", "retry"} => m.item > offset[c] /\ m.item > l.last
  <2>1. CASE HandleFails(t)
    <3>1. PICK s \in l.batch : Becomes(t, [l EXCEPT !.pc = "failed", !.item = s, !.batch = {}])
      BY <1>2, <2>1 DEF HandleFails
    <3>2. PICK m : m = [l EXCEPT !.pc = "failed", !.item = s, !.batch = {}]
      OBVIOUS
    <3>3. s \in 0..latest /\ s > offset[c] /\ s > l.last
      BY <1>1, <1>2, BatchIsTyped DEF InPlace
    <3>4. /\ m \in Locals /\ m.pc = "failed" /\ m.batch = {} /\ m.last = l.last
          /\ m.stage = l.stage /\ m.item = s
      BY <1>2, <3>2, <3>3 DEF Locals, PCs
    <3> QED
      BY <3>1, <3>2, <3>3, <3>4
  <2>2. CASE RetryRead(t)
    <3>1. PICK m : m = [l EXCEPT !.pc = "retry", !.tried = attempts[c][l.item]]
      OBVIOUS
    <3>2. l.pc = "failed" /\ l.item > offset[c] /\ l.item > l.last /\ l.batch = {}
      BY <1>2, <2>2 DEF RetryRead, At, InPlace
    <3>3. attempts[c][l.item] \in 0..(MaxAttempts - 1)
      <4>1. l.item \in Sequence
        <5>1. l.item \in 0..latest /\ l.item > 0 /\ latest \in 0..MaxSequence
          BY <1>1, <1>2, <3>2 DEF LocalsOK, Locals, HasItem, TablesOK
        <5> QED
          BY <5>1, LogConstants DEF Sequence
      <4> QED
        BY <1>1, <4>1 DEF TablesOK
    <3>4. /\ m \in Locals /\ m.pc = "retry" /\ m.batch = l.batch /\ m.last = l.last
          /\ m.stage = l.stage /\ m.item = l.item
      BY <1>2, <3>1, <3>3 DEF Locals, PCs
    <3>5. Becomes(t, m)
      BY <1>2, <2>2, <3>1 DEF RetryRead
    <3> QED
      BY <3>2, <3>4, <3>5
  <2>3. CASE RetryLater(t)
    <3>1. PICK m : m = [l EXCEPT !.pc = "handle", !.item = 0, !.tried = 0]
      OBVIOUS
    <3>2. l.batch = {}
      BY <1>2, <2>3 DEF RetryLater, At, InPlace
    <3>3. /\ m \in Locals /\ m.pc = "handle" /\ m.batch = l.batch /\ m.last = l.last
          /\ m.stage = l.stage
      BY <1>1, <1>2, <3>1, ZeroIsInRange DEF Locals, PCs
    <3>4. Becomes(t, m)
      BY <1>2, <2>3, <3>1 DEF RetryLater
    <3> QED
      BY <3>2, <3>3, <3>4
  <2> QED
    BY <2>1, <2>2, <2>3
<1>6. PICK m \in Locals :
        /\ Becomes(t, m) /\ m.pc \in {"failed", "retry", "handle"}
        /\ m.batch = {} /\ m.last = l.last /\ m.stage = l.stage
        /\ m.pc \in {"failed", "retry"} => m.item > offset[c] /\ m.item > l.last
  BY <1>5
<1>7. InPlace(m)'
  BY <1>2, <1>3, <1>4, <1>6 DEF InPlace
<1>8. KeepsAll(m)'
  BY <1>2, <1>4, <1>6 DEF KeepsAll, Loaded
<1>9. \A d \in Consumers, s \in Sequence : Through(tick[t], d, s) => Through(m, d, s)
  BY <1>2, <1>4, <1>6 DEF Through
<1>10. Proper(m)'
  <2>1. tick[t].pc \notin {"submit", "save"}
    BY <1>2, <1>4
  <2> QED
    BY <1>3, <1>7, <1>8, <1>9, <2>1, QuietMove
<1> QED
  BY <1>6, <1>10

\* The next event is taken from the batch: it is settled, or it is in hand.
LEMMA ProperTake ==
    ASSUME TypeOK, TypeOK', NEW l \in Locals, NEW m \in Locals, NEW c \in Consumers, NEW s,
           c = Order[l.stage], InPlace(l), KeepsAll(l), \A d \in Consumers : Orderly(l, d),
           l.pc = "handle", s \in l.batch, Least(s, l.batch),
           m.pc = "handle", m.stage = l.stage, m.batch = l.batch \ {s}, m.last = s,
           UNCHANGED <<offset, dead, saved, latest, live>>,
           \A d \in Consumers : missed[d] \subseteq missed'[d],
           \A d \in Consumers, q \in Sequence :
               \/ handled'[d][q] = handled[d][q]
               \/ d = c /\ q = s /\ handled'[d][q] = handled[d][q] + 1,
           Loaded(l) => /\ m.draft \subseteq l.draft \cup {s}
                        /\ s \in m.draft => handled'[c][s] = handled[c][s]
                        /\ l.draft \cup {s} \subseteq m.draft \cup Reached(c)'
    PROVE  Proper(m)'
<1>1. /\ Sequence \subseteq Nat \ {0} /\ s \in Sequence /\ s \in Nat
      /\ offset[c] \in Nat /\ l.last \in Nat /\ l.batch \subseteq Sequence
      /\ l.draft \subseteq Sequence
  BY SerialTypes
<1>2. \A d \in Consumers, q \in Sequence : handled[d][q] \in Nat
  BY SerialTypes
<1>3. s > offset[c] /\ s > l.last /\ \A q \in l.batch : s <= q
  BY DEF InPlace, Least
<1>4. \A d \in Consumers : Reached(d) \subseteq Reached(d)'
  <2> SUFFICES ASSUME NEW d \in Consumers, NEW q \in Reached(d) PROVE q \in Reached(d)'
    OBVIOUS
  <2>1. CASE q \in Sequence /\ handled[d][q] > 0
    <3>1. handled'[d][q] > 0
      BY <1>2, <2>1
    <3> QED
      BY <2>1, <3>1 DEF Reached, Settled
  <2> QED
    BY <2>1 DEF Reached, Settled
<1>5. handled[c][s] = 0 /\ s \notin dead[c]
  <2>1. ~Through(l, c, s)
    BY <1>1, <1>3 DEF Through
  <2> QED
    BY <1>1, <1>3, <2>1 DEF Orderly, AheadIsUntouched
<1>6. InPlace(m)'
  <2>1. \A q \in m.batch : q > offset[c] /\ q > s
    <3> SUFFICES ASSUME NEW q \in m.batch PROVE q > offset[c] /\ q > s
      OBVIOUS
    <3>1. q \in l.batch /\ q # s /\ s <= q /\ q \in Nat
      BY <1>1, <1>3
    <3> QED
      BY <1>1, <1>3, <3>1
  <2> QED
    BY <2>1 DEF InPlace
<1>7. ASSUME NEW d \in Consumers PROVE Orderly(m, d)'
  <2>1. AheadIsUntouched(l, d) /\ OnceEach(d) /\ SavedIsOpen(l, d) /\ KeptOrSeen(l, d)
    BY DEF Orderly
  <2>2. AheadIsUntouched(m, d)'
    <3> SUFFICES ASSUME NEW q \in Sequence, q > offset[d], ~Through(m, d, q)
                 PROVE  handled'[d][q] = 0 /\ q \notin dead[d]
      BY DEF AheadIsUntouched, Through
    <3>1. ~(d = c /\ q <= s)
      BY DEF Through
    <3>2. ~Through(l, d, q) /\ ~(d = c /\ q = s)
      BY <1>1, <1>3, <3>1 DEF Through
    <3> QED
      BY <2>1, <3>2 DEF AheadIsUntouched
  <2>3. OnceEach(d)'
    <3>1. ASSUME NEW q \in Sequence
          PROVE  handled'[d][q] <= 1 /\ (q \in dead[d] => handled'[d][q] = 0)
      <4>1. CASE d = c /\ q = s
        BY <1>5, <4>1
      <4>2. CASE ~(d = c /\ q = s)
        BY <2>1, <4>2 DEF OnceEach
      <4> QED
        BY <4>1, <4>2
    <3> QED
      BY <2>1, <3>1 DEF OnceEach
  <2>4. SavedIsOpen(m, d)'
    <3>1. ASSUME d \notin Copiers, NEW q \in saved[d]
          PROVE  q <= offset[d] /\ handled'[d][q] = 0
      <4>1. q <= offset[d] /\ handled[d][q] = 0 /\ q \in Sequence /\ q \in Nat
        BY <2>1, <3>1, SerialTypes DEF SavedIsOpen, Submits
      <4>2. ~(d = c /\ q = s)
        BY <1>1, <1>3, <4>1
      <4> QED
        BY <4>1, <4>2
    <3> QED
      BY <3>1 DEF SavedIsOpen, Copiers
  <2>5. KeptOrSeen(m, d)'
    <3>1. Copiers' = Copiers /\ ~Submits(l, d)
      BY DEF Copiers, Submits
    <3> QED
      BY <1>4, <2>1, <3>1 DEF KeptOrSeen
  <2> QED
    BY <2>2, <2>3, <2>4, <2>5 DEF Orderly
<1>8. KeepsAll(m)'
  <2>1. CASE ~Loaded(m)
    BY <2>1 DEF KeepsAll, Loaded
  <2>2. CASE Loaded(m)
    <3>1. Loaded(l)
      BY <2>2 DEF Loaded
    <3>2. InHand(l) \cup {s} \subseteq InHand(m)'
      BY <1>4, <3>1 DEF InHand
    <3>3. ASSUME NEW q \in m.draft PROVE handled'[c][q] = 0 /\ Passes(m, q)'
      <4>1. CASE q = s
        BY <1>1, <1>5, <3>1, <4>1 DEF Passes
      <4>2. CASE q # s
        <5>1. q \in l.draft /\ q \in Sequence /\ q \in Nat
          BY <1>1, <3>1, <4>2
        <5>2. handled[c][q] = 0 /\ Passes(l, q)
          BY <3>1, <5>1 DEF KeepsAll
        <5>3. Passes(m, q)'
          BY <1>1, <1>3, <5>1, <5>2 DEF Passes
        <5> QED
          BY <4>2, <5>1, <5>2, <5>3
      <4> QED
        BY <4>1, <4>2
    <3>4. ASSUME NEW q \in Sequence, Passes(m, q)' PROVE q \in InHand(m)'
      <4>1. q \in Nat /\ q # 0 /\ (q <= offset[c] \/ q <= s)
        BY <1>1, <3>4 DEF Passes
      <4>2. CASE q <= offset[c]
        BY <3>1, <3>2, <4>2 DEF KeepsAll, Passes
      <4>3. CASE q = s
        BY <3>2, <4>3
      <4>4. CASE q < s
        <5>1. q \in 1..(s - 1)
          BY <1>1, <4>1, <4>4
        <5>2. q \in l.batch \cup InHand(l)
          BY <3>1, <5>1 DEF KeepsAll
        <5>3. q \notin l.batch
          BY <1>1, <1>3, <4>1, <4>4
        <5> QED
          BY <3>2, <5>2, <5>3
      <4> QED
        BY <1>1, <4>1, <4>2, <4>3, <4>4
    <3>5. saved'[c] \subseteq InHand(m)'
      BY <3>1, <3>2 DEF KeepsAll
    <3>6. \A q \in m.batch : \A r \in 1..(q - 1) : r \in m.batch \cup InHand(m)'
      BY <3>1, <3>2 DEF KeepsAll
    <3> QED
      BY <3>3, <3>4, <3>5, <3>6 DEF KeepsAll
  <2> QED
    BY <2>1, <2>2
<1> QED
  BY <1>6, <1>7, <1>8 DEF Proper

LEMMA ProperHandle ==
    ASSUME LogInv, TypeOK', NEW t \in Ticks, Proper(tick[t]), Handle(t) \/ Keep(t)
    PROVE  \E m \in Locals : Becomes(t, m) /\ Proper(m)' /\ m.pc # "delete"
<1>1. TypeOK /\ TablesOK /\ LocalsOK
  BY SerialStart
<1>2. PICK l \in Locals, c \in Consumers :
        /\ l = tick[t] /\ c = Running(t) /\ c = Order[l.stage]
        /\ InPlace(l) /\ KeepsAll(l) /\ \A d \in Consumers : Orderly(l, d)
  BY SerialStart
<1>3. l.pc = "handle" /\ l.draft \subseteq Sequence /\ l.batch \subseteq Sequence
  BY <1>1, <1>2, SerialTypes DEF Handle, Keep, At
<1>4. UNCHANGED <<offset, dead, saved, latest, live>>
  BY DEF Handle, Keep, events, failing
<1>5. CASE Handle(t)
  <2>1. PICK s \in l.batch :
          /\ Least(s, l.batch)
          /\ Becomes(t, [l EXCEPT !.batch = @ \ {s}, !.last = s])
          /\ handled' = [handled EXCEPT ![c][s] = @ + 1]
    BY <1>2, <1>5 DEF Handle
  <2>2. PICK m : m = [l EXCEPT !.batch = @ \ {s}, !.last = s]
    OBVIOUS
  <2>3. s \in 0..latest /\ s \in Sequence /\ s \in Nat
    BY <1>1, <1>2, BatchIsTyped
  <2>4. /\ m \in Locals /\ m.pc = "handle" /\ m.stage = l.stage /\ m.batch = l.batch \ {s}
        /\ m.last = s /\ m.draft = l.draft
    BY <1>2, <1>3, <2>2, <2>3 DEF Locals
  <2>5. handled \in [Consumers -> [Sequence -> Nat]]
    BY <1>1 DEF TablesOK
  <2>6. \A d \in Consumers, q \in Sequence :
          handled'[d][q] = IF d = c /\ q = s THEN handled[d][q] + 1 ELSE handled[d][q]
    BY <2>1, <2>3, <2>5
  <2>7. \A d \in Consumers : missed[d] \subseteq missed'[d]
    BY <1>5 DEF Handle
  <2>8. Loaded(l) => /\ m.draft \subseteq l.draft \cup {s}
                     /\ s \in m.draft => handled'[c][s] = handled[c][s]
                     /\ l.draft \cup {s} \subseteq m.draft \cup Reached(c)'
    <3> SUFFICES ASSUME Loaded(l)
                 PROVE  s \notin l.draft /\ s \in Reached(c)'
      BY <2>4
    <3>1. handled[c][s] \in Nat /\ handled'[c][s] = handled[c][s] + 1
      BY <2>3, <2>5, <2>6
    <3>2. s \in Reached(c)'
      BY <2>3, <3>1 DEF Reached, Settled
    <3>3. s > offset[c] /\ s > l.last /\ offset[c] \in Nat /\ l.last \in Nat
      BY <1>1, <1>2, SerialTypes DEF InPlace
    <3>4. ~Passes(l, s)
      BY <1>2, <2>3, <3>3 DEF Passes
    <3> QED
      BY <1>2, <3>2, <3>4 DEF KeepsAll
  <2>9. \A d \in Consumers, q \in Sequence :
          \/ handled'[d][q] = handled[d][q]
          \/ d = c /\ q = s /\ handled'[d][q] = handled[d][q] + 1
    BY <2>6
  <2>10. Proper(m)'
    <3>1. Least(s, l.batch) /\ s \in l.batch
      BY <2>1
    <3> QED
      BY <1>1, <1>2, <1>3, <1>4, <2>4, <2>7, <2>8, <2>9, <3>1, ProperTake
  <2>11. Becomes(t, m)
    BY <2>1, <2>2
  <2> QED
    BY <2>4, <2>10, <2>11
<1>6. CASE Keep(t)
  <2>1. PICK s \in l.batch :
          LET grown == l.draft \cup {s} IN
          /\ Least(s, l.batch)
          /\ Becomes(t, [l EXCEPT !.batch = @ \ {s}, !.last = s, !.draft = Newest(grown)])
          /\ missed' = [missed EXCEPT ![c] = @ \cup (grown \ Newest(grown))]
    BY <1>2, <1>6 DEF Keep
  <2>2. PICK new : new = Newest(l.draft \cup {s})
    OBVIOUS
  <2>3. /\ Becomes(t, [l EXCEPT !.batch = @ \ {s}, !.last = s, !.draft = new])
        /\ missed' = [missed EXCEPT ![c] = @ \cup ((l.draft \cup {s}) \ new)]
    BY <2>1, <2>2
  <2>4. s \in 0..latest /\ s \in Sequence
    BY <1>1, <1>2, BatchIsTyped
  <2>5. new \subseteq l.draft \cup {s} /\ new \subseteq Sequence
    BY <1>3, <2>2, <2>4 DEF Newest
  <2>6. PICK m : m = [l EXCEPT !.batch = @ \ {s}, !.last = s, !.draft = new]
    OBVIOUS
  <2>7. /\ m \in Locals /\ m.pc = "handle" /\ m.stage = l.stage /\ m.batch = l.batch \ {s}
        /\ m.last = s /\ m.draft = new
    BY <1>2, <1>3, <2>4, <2>5, <2>6 DEF Locals
  <2>8. missed \in [Consumers -> SUBSET Sequence] /\ UNCHANGED handled
    BY <1>1, <1>6 DEF TablesOK, Keep
  <2>9. /\ \A d \in Consumers : missed[d] \subseteq missed'[d]
        /\ (l.draft \cup {s}) \ new \subseteq missed'[c]
    BY <2>3, <2>8
  <2>10. Loaded(l) => /\ m.draft \subseteq l.draft \cup {s}
                      /\ s \in m.draft => handled'[c][s] = handled[c][s]
                      /\ l.draft \cup {s} \subseteq m.draft \cup Reached(c)'
    BY <2>5, <2>7, <2>8, <2>9 DEF Reached
  <2>11. \A d \in Consumers, q \in Sequence :
           \/ handled'[d][q] = handled[d][q]
           \/ d = c /\ q = s /\ handled'[d][q] = handled[d][q] + 1
    BY <2>8
  <2>12. Proper(m)'
    <3>1. Least(s, l.batch) /\ s \in l.batch
      BY <2>1
    <3> QED
      BY <1>1, <1>2, <1>3, <1>4, <2>7, <2>9, <2>10, <2>11, <3>1, ProperTake
  <2>13. Becomes(t, m)
    BY <2>3, <2>6
  <2> QED
    BY <2>7, <2>12, <2>13
<1> QED
  BY <1>5, <1>6

\* A dead letter is written for an event that was neither processed nor passed.
LEMMA ProperDeadLetter ==
    ASSUME LogInv, TypeOK', NEW t \in Ticks, Proper(tick[t]), DeadLetter(t)
    PROVE  \E m \in Locals : Becomes(t, m) /\ Proper(m)' /\ m.pc # "delete"
<1>1. TypeOK /\ TablesOK /\ LocalsOK
  BY SerialStart
<1>2. PICK l \in Locals, c \in Consumers :
        /\ l = tick[t] /\ c = Running(t) /\ c = Order[l.stage]
        /\ InPlace(l) /\ KeepsAll(l) /\ \A d \in Consumers : Orderly(l, d)
  BY SerialStart
<1>3. PICK s : s = l.item
  OBVIOUS
<1>4. l.pc = "retry" /\ Kind[c] = "router" /\ s > offset[c] /\ s > l.last /\ l.batch = {}
  BY <1>2, <1>3 DEF DeadLetter, At, InPlace
<1>5. PICK m : m = [l EXCEPT !.pc = "deadAck", !.tried = 0]
  OBVIOUS
<1>6. /\ m \in Locals /\ Becomes(t, m) /\ m.pc = "deadAck" /\ m.stage = l.stage
      /\ m.item = s /\ m.batch = {} /\ m.last = l.last
  BY <1>1, <1>2, <1>3, <1>4, <1>5, ZeroIsInRange DEF Locals, DeadLetter, PCs
<1>7. dead' = [dead EXCEPT ![c] = @ \cup {s}] /\ dead \in [Consumers -> SUBSET Sequence]
  BY <1>1, <1>2, <1>3 DEF DeadLetter, TablesOK
<1>8. UNCHANGED <<handled, missed, saved, latest, live, offset>>
  BY DEF DeadLetter, events, history
<1>9. /\ s \in Nat /\ l.last \in Nat /\ offset[c] \in Nat /\ Sequence \subseteq Nat
      /\ 1..latest \subseteq Sequence /\ s \in Sequence
  <2>1. s \in Nat /\ s <= latest /\ l.last \in Nat /\ offset[c] \in Nat /\ latest \in Nat
        /\ Sequence \subseteq Nat /\ 1..latest \subseteq Sequence
    BY <1>1, <1>2, <1>3, SerialTypes
  <2>2. s \in 1..latest
    BY <1>4, <2>1
  <2> QED
    BY <2>1, <2>2
<1>10. c \in Copiers
  BY <1>4 DEF Copiers
<1>11. handled[c][s] = 0
  <2>1. ~Through(l, c, s)
    BY <1>4, <1>9 DEF Through
  <2> QED
    BY <1>2, <1>4, <1>9, <2>1 DEF Orderly, AheadIsUntouched
<1>12. InPlace(m)' /\ KeepsAll(m)'
  BY <1>2, <1>4, <1>6, <1>8 DEF InPlace, KeepsAll, Loaded
<1>13. ASSUME NEW d \in Consumers PROVE Orderly(m, d)'
  <2>1. AheadIsUntouched(l, d) /\ OnceEach(d) /\ SavedIsOpen(l, d) /\ KeptOrSeen(l, d)
    BY <1>2 DEF Orderly
  <2>2. dead'[d] = IF d = c THEN dead[d] \cup {s} ELSE dead[d]
    BY <1>7
  <2>3. AheadIsUntouched(m, d)'
    <3> SUFFICES ASSUME NEW q \in Sequence, q > offset[d], ~Through(m, d, q)
                 PROVE  handled[d][q] = 0 /\ q \notin dead'[d]
      BY <1>8 DEF AheadIsUntouched, Through
    <3>1. ~Through(l, d, q) /\ ~(d = c /\ q = s)
      BY <1>2, <1>4, <1>6 DEF Through
    <3> QED
      BY <2>1, <2>2, <3>1 DEF AheadIsUntouched
  <2>4. OnceEach(d)'
    BY <1>4, <1>8, <1>11, <2>1, <2>2 DEF OnceEach
  <2>5. SavedIsOpen(m, d)'
    BY <1>4, <1>8, <2>1 DEF SavedIsOpen, Submits, Copiers
  <2>6. KeptOrSeen(m, d)'
    <3>1. d \notin Copiers => Reached(d)' = Reached(d)
      BY <1>8, <1>10, <2>2 DEF Reached, Settled
    <3> QED
      BY <1>4, <1>8, <2>1, <3>1 DEF KeptOrSeen, Submits, Copiers
  <2> QED
    BY <2>3, <2>4, <2>5, <2>6 DEF Orderly
<1>14. Proper(m)'
  BY <1>12, <1>13 DEF Proper
<1> QED
  BY <1>6, <1>14

LEMMA AckOffset ==
    ASSUME TypeOK, NEW c \in Consumers, NEW n \in Nat, Acknowledge(c, n)
    PROVE  /\ offset'[c] = IF offset[c] > n THEN offset[c] ELSE n
           /\ offset'[c] >= n /\ offset[c] <= offset'[c]
           /\ \A d \in Consumers : d # c => offset'[d] = offset[d]
<1>1. offset \in [Consumers -> 0..latest] /\ offset[c] \in Nat
  BY SerialTypes DEF TypeOK
<1>2. offset'[c] = IF offset[c] > n THEN offset[c] ELSE n
  BY <1>1 DEF Acknowledge
<1>3. \A d \in Consumers : d # c => offset'[d] = offset[d]
  BY <1>1 DEF Acknowledge
<1> QED
  BY <1>1, <1>2, <1>3

\* A dead letter is acknowledged.
LEMMA ProperDeadAck ==
    ASSUME LogInv, TypeOK', NEW t \in Ticks, Proper(tick[t]), DeadAck(t)
    PROVE  \E m \in Locals : Becomes(t, m) /\ Proper(m)' /\ m.pc # "delete"
<1>1. TypeOK /\ TablesOK /\ LocalsOK
  BY SerialStart
<1>2. PICK l \in Locals, c \in Consumers :
        /\ l = tick[t] /\ c = Running(t) /\ c = Order[l.stage]
        /\ InPlace(l) /\ KeepsAll(l) /\ \A d \in Consumers : Orderly(l, d)
  BY SerialStart
<1>3. l.pc = "deadAck" /\ Kind[c] = "router" /\ l.item > l.last /\ l.batch = {}
  BY <1>2 DEF DeadAck, At, InPlace
<1>4. PICK m : m = [l EXCEPT !.pc = "handle", !.item = 0]
  OBVIOUS
<1>5. /\ m \in Locals /\ Becomes(t, m) /\ m.pc = "handle" /\ m.stage = l.stage
      /\ m.batch = {} /\ m.last = l.last
  BY <1>1, <1>2, <1>3, <1>4, ZeroIsInRange DEF Locals, DeadAck, PCs
<1>6. UNCHANGED <<handled, dead, missed, saved, latest, live>>
  BY DEF DeadAck, events, history
<1>7. /\ l.item \in Nat /\ l.last \in Nat /\ Sequence \subseteq Nat
      /\ \A d \in Consumers : offset[d] \in Nat
  BY <1>1, <1>2, SerialTypes
<1>8. /\ offset'[c] >= l.item /\ offset[c] <= offset'[c]
      /\ offset'[c] = (IF offset[c] > l.item THEN offset[c] ELSE l.item)
      /\ \A d \in Consumers : d # c => offset'[d] = offset[d]
  BY <1>1, <1>2, <1>7, AckOffset DEF DeadAck
<1>9. \A d \in Consumers : offset[d] <= offset'[d] /\ (d \notin Copiers => offset'[d] = offset[d])
  BY <1>3, <1>7, <1>8 DEF Copiers
<1>10. ASSUME NEW d \in Consumers, NEW s \in Sequence, Through(l, d, s), s > offset'[d]
       PROVE  Through(m, d, s)
  <2>1. d = c /\ s \in Nat /\ (s <= l.last \/ s = l.item) /\ offset'[c] \in Nat
    BY <1>2, <1>7, <1>8, <1>10 DEF Through
  <2>2. ~(s <= l.last) /\ s # l.item
    BY <1>3, <1>7, <1>8, <1>10, <2>1
  <2> QED
    BY <2>1, <2>2
<1>11. \A d \in Consumers : Orderly(m, d)'
  <2>1. l.pc \notin {"submit", "save"}
    BY <1>3
  <2> QED
    BY <1>1, <1>2, <1>6, <1>9, <1>10, <2>1, OrderlyMoves
<1>12. InPlace(m)' /\ KeepsAll(m)'
  BY <1>2, <1>3, <1>5 DEF InPlace, KeepsAll, Loaded
<1>13. Proper(m)'
  BY <1>11, <1>12 DEF Proper
<1> QED
  BY <1>5, <1>13

\* The consumer acknowledges the batch: on to the next one, or to the state in hand.
LEMMA ProperAckBatch ==
    ASSUME LogInv, TypeOK', NEW t \in Ticks, Proper(tick[t]), AckBatch(t)
    PROVE  \E m \in Locals : Becomes(t, m) /\ Proper(m)' /\ m.pc # "delete"
<1>1. TypeOK /\ TablesOK /\ LocalsOK
  BY SerialStart
<1>2. PICK l \in Locals, c \in Consumers :
        /\ l = tick[t] /\ c = Running(t) /\ c = Order[l.stage]
        /\ InPlace(l) /\ KeepsAll(l) /\ \A d \in Consumers : Orderly(l, d)
  BY SerialStart
<1>3. l.pc = "handle" /\ l.batch = {}
  BY <1>2 DEF AckBatch, At
<1>4. UNCHANGED <<handled, dead, missed, saved, latest, live>>
  BY DEF AckBatch, events, history
<1>5. /\ l.last \in Nat /\ Sequence \subseteq Nat /\ Kind[c] \in Kinds
      /\ \A d \in Consumers : offset[d] \in Nat
  BY <1>1, <1>2, SerialTypes, LogConstants
<1>6. /\ offset'[c] >= l.last /\ offset[c] <= offset'[c]
      /\ offset'[c] = (IF offset[c] > l.last THEN offset[c] ELSE l.last)
      /\ \A d \in Consumers : d # c => offset'[d] = offset[d]
  <2>1. CASE l.last > 0
    BY <1>1, <1>2, <1>5, <2>1, AckOffset DEF AckBatch
  <2>2. CASE ~(l.last > 0)
    <3>1. offset' = offset /\ l.last = 0
      BY <1>2, <1>5, <2>2 DEF AckBatch
    <3> QED
      BY <1>5, <3>1
  <2> QED
    BY <2>1, <2>2
<1>7. \A d \in Consumers : offset[d] <= offset'[d]
  BY <1>5, <1>6
<1>8. \A d \in Consumers, s \in Sequence : Through(l, d, s) => ~(s > offset'[d])
  <2> SUFFICES ASSUME NEW d \in Consumers, NEW s \in Sequence, Through(l, d, s)
               PROVE  ~(s > offset'[d])
    OBVIOUS
  <2>1. d = c /\ s <= l.last
    BY <1>2, <1>3 DEF Through
  <2> QED
    BY <1>5, <1>6, <2>1
<1>9. l.pc \notin {"submit", "save"}
  BY <1>3
<1>10. CASE c \in Copiers
  <2>1. NextConsumer(t)
    BY <1>2, <1>10 DEF AckBatch, Copiers
  <2>2. PICK m \in Locals :
          /\ Becomes(t, m) /\ m.batch = {} /\ m.last = 0
          /\ m.pc \in {"load", "offset", "floor"}
          /\ m.pc = "load" => Kind[Order[m.stage]] = "attention"
          /\ m.pc = "offset" => Kind[Order[m.stage]] # "attention"
    BY <1>1, <2>1, NextConsumerIsTyped
  <2>3. InPlace(m)' /\ KeepsAll(m)'
    BY <2>2, BlankIsInPlace
  <2>4. \A d \in Consumers \ Copiers : offset'[d] = offset[d]
    BY <1>6, <1>10
  <2>5. \A d \in Consumers : Orderly(m, d)'
    BY <1>1, <1>2, <1>4, <1>7, <1>8, <1>9, <2>4, OrderlyMoves
  <2>6. Proper(m)'
    BY <2>3, <2>5 DEF Proper
  <2> QED
    BY <2>2, <2>6
<1>11. CASE c \notin Copiers
  <2>1. Kind[c] \in {"stream", "attention"}
    BY <1>5, <1>11 DEF Copiers, Kinds
  <2>2. PICK p : p = IF Kind[c] = "stream" THEN "save" ELSE "submit"
    OBVIOUS
  <2>3. PICK m : m = [l EXCEPT !.pc = p]
    OBVIOUS
  <2>4. Becomes(t, m)
    <3>1. Becomes(t, [l EXCEPT !.pc = IF Kind[c] = "stream" THEN "save" ELSE "submit"])
      BY <1>2, <2>1 DEF AckBatch
    <3> QED
      BY <2>2, <2>3, <3>1
  <2>5. p \in {"submit", "save"} /\ (p = "submit" => Kind[c] = "attention")
    BY <2>1, <2>2
  <2>6. /\ m \in Locals /\ m.pc = p /\ m.stage = l.stage /\ m.last = l.last
        /\ m.batch = {} /\ m.draft = l.draft
    BY <1>2, <1>3, <2>3, <2>5 DEF Locals, PCs
  <2>7. InPlace(m)'
    BY <1>2, <1>4, <1>6, <1>11, <2>5, <2>6 DEF InPlace, Copiers
  <2>8. Loaded(l)
    BY <1>2, <1>3, <2>1 DEF Loaded
  <2>9. Reached(c)' = Reached(c)
    BY <1>4 DEF Reached, Settled
  <2>10. ASSUME NEW s \in Sequence
         PROVE  Passes(m, s)' <=> Passes(l, s)
    BY <1>2, <1>5, <1>6, <2>6 DEF Passes
  <2>11. l.draft \subseteq Sequence
    BY <1>1, SerialTypes
  <2>12. KeepsAll(m)'
    <3>1. InHand(m)' = InHand(l)
      BY <1>2, <2>6, <2>9 DEF InHand
    <3> QED
      BY <1>2, <1>4, <2>5, <2>6, <2>8, <2>10, <2>11, <3>1 DEF KeepsAll
  <2>13. \A d \in Consumers \ Copiers : Submits(m, d) \/ offset'[d] = offset[d]
    BY <1>2, <1>6, <2>5, <2>6 DEF Submits
  <2>14. \A d \in Consumers : Orderly(m, d)'
    BY <1>1, <1>2, <1>4, <1>7, <1>8, <1>9, <2>13, OrderlyMoves
  <2>15. Proper(m)'
    BY <2>7, <2>12, <2>14 DEF Proper
  <2> QED
    BY <2>4, <2>5, <2>6, <2>15
<1> QED
  BY <1>10, <1>11

\* The pending events go to the harness, all of them or none.
LEMMA ProperSubmit ==
    ASSUME LogInv, TypeOK', NEW t \in Ticks, Proper(tick[t]), Submit(t)
    PROVE  \E m \in Locals : Becomes(t, m) /\ Proper(m)' /\ m.pc # "delete"
<1>1. TypeOK /\ TablesOK /\ LocalsOK
  BY SerialStart
<1>2. PICK l \in Locals, c \in Consumers :
        /\ l = tick[t] /\ c = Running(t) /\ c = Order[l.stage]
        /\ InPlace(l) /\ KeepsAll(l) /\ \A d \in Consumers : Orderly(l, d)
  BY SerialStart
<1>3. l.pc = "submit" /\ l.batch = {} /\ Kind[c] = "attention" /\ l.last <= offset[c]
  BY <1>2 DEF Submit, At, InPlace
<1>4. PICK due \in {{}, l.draft} :
        /\ handled' = [handled EXCEPT ![c] =
                         [s \in Sequence |-> IF s \in due THEN @[s] + 1 ELSE @[s]]]
        /\ Becomes(t, [l EXCEPT !.pc = "save", !.draft = @ \ due])
  <2>1. PICK due \in {{}, tick[t].draft} :
          /\ handled' = [handled EXCEPT ![Running(t)] =
                           [s \in Sequence |-> IF s \in due THEN @[s] + 1 ELSE @[s]]]
          /\ Becomes(t, [tick[t] EXCEPT !.pc = "save", !.draft = @ \ due])
    BY DEF Submit
  <2>2. tick[t] = l /\ Running(t) = c
    BY <1>2
  <2> QED
    BY ONLY <2>1, <2>2
<1>5. PICK m : m = [l EXCEPT !.pc = "save", !.draft = @ \ due]
  OBVIOUS
<1>6. l.draft \subseteq Sequence /\ due \subseteq l.draft
  BY <1>1, SerialTypes
<1>7. /\ m \in Locals /\ m.pc = "save" /\ m.stage = l.stage /\ m.batch = {}
      /\ m.last = l.last /\ m.draft = l.draft \ due
  BY <1>2, <1>3, <1>5, <1>6 DEF Locals, PCs
<1>8. UNCHANGED <<dead, missed, saved, latest, live, offset>>
  BY DEF Submit, events, failing
<1>9. handled \in [Consumers -> [Sequence -> Nat]]
  BY <1>1 DEF TablesOK
<1>10. \A d \in Consumers, q \in Sequence :
         handled'[d][q] = IF d = c /\ q \in due THEN handled[d][q] + 1 ELSE handled[d][q]
  BY <1>4, <1>9
<1>11. /\ Sequence \subseteq Nat /\ offset[c] \in Nat /\ l.last \in Nat
       /\ \A d \in Consumers, q \in Sequence : handled[d][q] \in Nat
  BY <1>1, <1>2, SerialTypes
<1>12. Loaded(l) /\ c \notin Copiers
  BY <1>2, <1>3 DEF Loaded, Copiers
<1>13. \A q \in due : handled[c][q] = 0 /\ q <= offset[c] /\ q \in Sequence
  <2> SUFFICES ASSUME NEW q \in due PROVE handled[c][q] = 0 /\ q <= offset[c] /\ q \in Sequence
    OBVIOUS
  <2>1. q \in l.draft /\ q \in Sequence /\ q \in Nat
    BY <1>6, <1>11
  <2>2. handled[c][q] = 0 /\ Passes(l, q)
    BY <1>2, <1>12, <2>1 DEF KeepsAll
  <2> QED
    BY <1>2, <1>3, <1>11, <2>1, <2>2 DEF Passes
<1>14. \A d \in Consumers : Reached(d) \subseteq Reached(d)'
  <2> SUFFICES ASSUME NEW d \in Consumers, NEW q \in Reached(d) PROVE q \in Reached(d)'
    OBVIOUS
  <2>1. CASE q \in Sequence /\ handled[d][q] > 0
    <3>1. handled'[d][q] > 0
      <4>1. handled[d][q] \in Nat
        BY <1>11, <2>1
      <4>2. handled'[d][q] \in {handled[d][q], handled[d][q] + 1}
        BY <1>10, <2>1
      <4> QED
        BY <2>1, <4>1, <4>2
    <3> QED
      BY <2>1, <3>1 DEF Reached, Settled
  <2> QED
    BY <1>8, <2>1 DEF Reached, Settled
<1>15. due \subseteq Reached(c)'
  <2> SUFFICES ASSUME NEW q \in due PROVE q \in Reached(c)'
    OBVIOUS
  <2>1. handled'[c][q] > 0 /\ q \in Sequence
    BY <1>10, <1>13
  <2> QED
    BY <2>1 DEF Reached, Settled
<1>16. InPlace(m)'
  BY <1>2, <1>3, <1>7, <1>8, <1>12 DEF InPlace, Copiers
<1>17. KeepsAll(m)'
  <2>1. InHand(l) \subseteq InHand(m)'
    BY <1>2, <1>7, <1>14, <1>15 DEF InHand
  <2>2. \A q \in m.draft : q \in l.draft /\ handled'[c][q] = handled[c][q]
    BY <1>6, <1>7, <1>10
  <2>3. \A q : Passes(m, q)' <=> Passes(l, q)
    BY <1>2, <1>7, <1>8 DEF Passes
  <2> QED
    BY <1>2, <1>7, <1>8, <1>12, <2>1, <2>2, <2>3 DEF KeepsAll
<1>18. ASSUME NEW d \in Consumers PROVE Orderly(m, d)'
  <2>1. AheadIsUntouched(l, d) /\ OnceEach(d) /\ SavedIsOpen(l, d) /\ KeptOrSeen(l, d)
    BY <1>2 DEF Orderly
  <2>2. AheadIsUntouched(m, d)'
    <3> SUFFICES ASSUME NEW q \in Sequence, q > offset[d], ~Through(m, d, q)
                 PROVE  handled'[d][q] = 0 /\ q \notin dead[d]
      BY <1>8 DEF AheadIsUntouched, Through
    <3>1. ~Through(l, d, q)
      BY <1>3, <1>7 DEF Through
    <3>2. ~(d = c /\ q \in due)
      BY <1>11, <1>13
    <3> QED
      BY <1>10, <2>1, <3>1, <3>2 DEF AheadIsUntouched
  <2>3. OnceEach(d)'
    <3>1. ASSUME NEW q \in Sequence
          PROVE  handled'[d][q] <= 1 /\ (q \in dead[d] => handled'[d][q] = 0)
      <4>1. CASE d = c /\ q \in due
        <5>1. q \notin dead[d] /\ handled'[d][q] = 1
          BY <1>3, <1>10, <1>13, <2>1, <4>1 DEF OnceEach
        <5> QED
          BY <5>1
      <4>2. CASE ~(d = c /\ q \in due)
        BY <1>10, <2>1, <4>2 DEF OnceEach
      <4> QED
        BY <4>1, <4>2
    <3> QED
      BY <1>8, <2>1, <3>1 DEF OnceEach
  <2>4. SavedIsOpen(m, d)'
    <3>1. CASE d = c
      BY <1>2, <1>7, <1>8, <2>1, <3>1 DEF SavedIsOpen, Submits, Copiers
    <3>2. CASE d # c
      <4>1. \A q \in saved[d] : q \in Sequence
        BY <1>1, SerialTypes
      <4> QED
        BY <1>2, <1>8, <1>10, <2>1, <3>2, <4>1 DEF SavedIsOpen, Submits, Copiers
    <3> QED
      BY <3>1, <3>2
  <2>5. KeptOrSeen(m, d)'
    <3>1. Submits(m, d) <=> Submits(l, d)
      BY <1>3, <1>7 DEF Submits
    <3> QED
      BY <1>8, <1>14, <2>1, <3>1 DEF KeptOrSeen, Copiers, Submits
  <2> QED
    BY <2>2, <2>3, <2>4, <2>5 DEF Orderly
<1>19. Proper(m)'
  BY <1>16, <1>17, <1>18 DEF Proper
<1>20. Becomes(t, m)
  BY <1>4, <1>5
<1> QED
  BY <1>7, <1>19, <1>20

\* The state in hand is saved, with all that was acknowledged and is not settled.
LEMMA ProperSave ==
    ASSUME LogInv, TypeOK', NEW t \in Ticks, Proper(tick[t]), SaveState(t)
    PROVE  \E m \in Locals : Becomes(t, m) /\ Proper(m)' /\ m.pc # "delete"
<1>1. TypeOK /\ TablesOK /\ LocalsOK
  BY SerialStart
<1>2. PICK l \in Locals, c \in Consumers :
        /\ l = tick[t] /\ c = Running(t) /\ c = Order[l.stage]
        /\ InPlace(l) /\ KeepsAll(l) /\ \A d \in Consumers : Orderly(l, d)
  BY SerialStart
<1>3. l.pc = "save" /\ l.last <= offset[c] /\ c \notin Copiers
  BY <1>2 DEF SaveState, At, InPlace
<1>4. PICK m \in Locals :
        /\ Becomes(t, m) /\ m.batch = {} /\ m.last = 0
        /\ m.pc \in {"load", "offset", "floor"}
        /\ m.pc = "load" => Kind[Order[m.stage]] = "attention"
        /\ m.pc = "offset" => Kind[Order[m.stage]] # "attention"
  BY <1>1, NextConsumerIsTyped DEF SaveState
<1>5. /\ UNCHANGED <<handled, dead, missed, latest, live, offset>>
      /\ saved' = [saved EXCEPT ![c] = l.draft]
  BY <1>2 DEF SaveState, events, failing, history
<1>6. \A d \in Consumers : saved'[d] = IF d = c THEN l.draft ELSE saved[d]
  BY <1>1, <1>5 DEF TablesOK
<1>7. InPlace(m)' /\ KeepsAll(m)'
  BY <1>4, BlankIsInPlace
<1>8. /\ Sequence \subseteq Nat /\ l.last \in Nat /\ l.draft \subseteq Sequence
      /\ \A d \in Consumers : offset[d] \in Nat /\ 1..offset[d] \subseteq Sequence
  BY <1>1, <1>2, SerialTypes
<1>9. Loaded(l)
  BY <1>1, <1>2, <1>3, LogConstants DEF Loaded, Copiers, Kinds
<1>10. /\ \A q \in l.draft : handled[c][q] = 0 /\ q <= offset[c]
       /\ 1..offset[c] \subseteq l.draft \cup Reached(c)
       /\ saved[c] \subseteq l.draft \cup Reached(c)
  <2>1. \A q \in l.draft : handled[c][q] = 0 /\ q <= offset[c]
    <3> SUFFICES ASSUME NEW q \in l.draft PROVE handled[c][q] = 0 /\ q <= offset[c]
      OBVIOUS
    <3>1. handled[c][q] = 0 /\ Passes(l, q)
      BY <1>2, <1>9 DEF KeepsAll
    <3>2. q \in Nat
      BY <1>8
    <3> QED
      BY <1>2, <1>3, <1>8, <3>1, <3>2 DEF Passes
  <2>2. \A q \in 1..offset[c] : q \in InHand(l)
    <3> SUFFICES ASSUME NEW q \in 1..offset[c] PROVE q \in InHand(l)
      OBVIOUS
    <3>1. q \in Sequence /\ Passes(l, q)
      BY <1>2, <1>8 DEF Passes
    <3> QED
      BY <1>9, <1>2, <3>1 DEF KeepsAll
  <2>3. saved[c] \subseteq InHand(l)
    BY <1>2, <1>9 DEF KeepsAll
  <2> QED
    BY <1>2, <2>1, <2>2, <2>3 DEF InHand
<1>11. ASSUME NEW d \in Consumers PROVE Orderly(m, d)'
  <2>1. AheadIsUntouched(l, d) /\ OnceEach(d) /\ SavedIsOpen(l, d) /\ KeptOrSeen(l, d)
    BY <1>2 DEF Orderly
  <2>2. AheadIsUntouched(m, d)'
    <3> SUFFICES ASSUME NEW q \in Sequence, q > offset[d]
                 PROVE  handled[d][q] = 0 /\ q \notin dead[d]
      BY <1>5 DEF AheadIsUntouched
    <3>1. ~Through(l, d, q)
      BY <1>2, <1>3, <1>8 DEF Through
    <3> QED
      BY <2>1, <3>1 DEF AheadIsUntouched
  <2>3. OnceEach(d)'
    BY <1>5, <2>1 DEF OnceEach
  <2>4. SavedIsOpen(m, d)'
    <3>1. CASE d = c
      BY <1>5, <1>6, <1>10, <3>1 DEF SavedIsOpen
    <3>2. CASE d # c
      BY <1>2, <1>5, <1>6, <2>1, <3>2 DEF SavedIsOpen, Submits, Copiers
    <3> QED
      BY <3>1, <3>2
  <2>5. KeptOrSeen(m, d)'
    <3>1. Reached(d)' = Reached(d)
      BY <1>5 DEF Reached, Settled
    <3>2. CASE d = c
      <4>1. (1..latest) \ live \subseteq saved[c] \cup Reached(c)
        BY <1>3, <2>1, <3>2 DEF KeptOrSeen
      <4> QED
        BY <1>5, <1>6, <1>10, <3>1, <3>2, <4>1 DEF KeptOrSeen
    <3>3. CASE d # c
      <4>1. ~Submits(l, d)
        BY <1>2, <3>3 DEF Submits
      <4> QED
        BY <1>5, <1>6, <2>1, <3>1, <3>3, <4>1 DEF KeptOrSeen, Copiers
    <3> QED
      BY <3>2, <3>3
  <2> QED
    BY <2>2, <2>3, <2>4, <2>5 DEF Orderly
<1>12. Proper(m)'
  BY <1>7, <1>11 DEF Proper
<1> QED
  BY <1>4, <1>12

\* Retention deletes: what a consumer had not reached is missed.
LEMMA ProperDelete ==
    ASSUME LogInv, TypeOK', NEW t \in Ticks, Proper(tick[t]), Delete(t)
    PROVE  \E m \in Locals : Becomes(t, m) /\ Proper(m)' /\ m.pc # "delete"
<1>1. TypeOK /\ TablesOK /\ LocalsOK
  BY SerialStart
<1>2. PICK l \in Locals, c \in Consumers :
        /\ l = tick[t] /\ c = Running(t) /\ c = Order[l.stage]
        /\ InPlace(l) /\ KeepsAll(l) /\ \A d \in Consumers : Orderly(l, d)
  BY SerialStart
<1>3. l.pc = "delete"
  BY <1>2 DEF Delete, At
<1>4. /\ Idle \in Locals /\ Becomes(t, Idle) /\ Idle.pc = "idle" /\ Idle.batch = {}
      /\ Idle.last = 0
  BY <1>1, IdleIsTyped DEF Delete, Idle
<1>5. InPlace(Idle)' /\ KeepsAll(Idle)'
  BY <1>4 DEF InPlace, KeepsAll, Loaded
<1>6. PICK deleted : deleted = live \ live'
  OBVIOUS
<1>7. /\ UNCHANGED <<handled, dead, saved, latest, offset>> /\ live' \subseteq live
      /\ missed' = [d \in Consumers |-> missed[d] \cup (deleted \ (Settled(d) \cup saved[d]))]
  BY <1>6 DEF Delete, failing
<1>8. \A d \in Consumers, s \in Sequence : ~Through(l, d, s)
  BY <1>1, <1>2, <1>3, NothingThrough
<1>9. ASSUME NEW d \in Consumers PROVE Orderly(Idle, d)'
  <2>1. AheadIsUntouched(l, d) /\ OnceEach(d) /\ SavedIsOpen(l, d) /\ KeptOrSeen(l, d)
    BY <1>2 DEF Orderly
  <2>2. ~Submits(l, d)
    BY <1>3 DEF Submits
  <2>3. AheadIsUntouched(Idle, d)' /\ OnceEach(d)'
    BY <1>7, <1>8, <2>1 DEF AheadIsUntouched, OnceEach
  <2>4. SavedIsOpen(Idle, d)'
    BY <1>7, <2>1, <2>2 DEF SavedIsOpen, Copiers
  <2>5. /\ Reached(d) \subseteq Reached(d)'
        /\ deleted \subseteq saved[d] \cup Reached(d)'
    BY <1>7 DEF Reached, Settled
  <2>6. (1..latest) \ live' \subseteq ((1..latest) \ live) \cup deleted
    BY <1>6
  <2>7. KeptOrSeen(Idle, d)'
    BY <1>7, <2>1, <2>2, <2>5, <2>6 DEF KeptOrSeen, Copiers
  <2> QED
    BY <2>3, <2>4, <2>7 DEF Orderly
<1>10. Proper(Idle)'
  BY <1>5, <1>9 DEF Proper
<1> QED
  BY <1>4, <1>10

LEMMA ProperStep ==
    ASSUME LogInv, TypeOK', NEW t \in Ticks, Proper(tick[t]), TickStep(t)
    PROVE  \E m \in Locals : Becomes(t, m) /\ Proper(m)'
  BY ProperBetween, ProperLoad, ProperOffset, ProperRead, ProperFailure, ProperHandle,
     ProperDeadLetter, ProperDeadAck, ProperAckBatch, ProperSubmit, ProperSave, ProperDelete
  DEF TickStep

\* Only enforce_retention goes on to delete, and it has read the lowest offset.
LEMMA FloorIsLowest ==
    ASSUME LogInv, NEW t \in Ticks, TickStep(t)
    PROVE  tick'[t].pc = "delete" =>
             \A c \in Consumers : offset'[c] # 0 => tick'[t].floor <= offset'[c]
<1>1. TablesOK /\ LocalsOK /\ TypeOK
  BY TypeParts DEF LogInv
<1>2. PICK l \in Locals : l = tick[t]
  BY <1>1, RunningIsConsumer
<1>3. tick \in [Ticks -> Locals]
  BY <1>1 DEF LocalsOK
<1>4. CASE ReadFloor(t)
  <2>1. CASE Becomes(t, Idle)
    BY <1>3, <2>1 DEF Becomes, Idle
  <2>2. CASE ~Becomes(t, Idle)
    <3>1. PICK n \in Offsets :
            /\ Least(n, Offsets)
            /\ Becomes(t, [l EXCEPT !.pc = "delete", !.floor = n, !.excess = Excess])
      BY <1>2, <1>4, <2>2 DEF ReadFloor
    <3>2. tick'[t].floor = n
      BY <1>2, <1>3, <3>1 DEF Becomes, Locals
    <3>3. \A c \in Consumers : offset[c] # 0 => n <= offset[c]
      BY <3>1 DEF Least, Offsets
    <3>4. offset' = offset
      BY <1>4 DEF ReadFloor
    <3> QED
      BY <3>2, <3>3, <3>4
  <2> QED
    BY <2>1, <2>2
<1>5. CASE ~ReadFloor(t)
  <2>1. CASE NextConsumer(t)
    <3>1. PICK m \in Locals : Becomes(t, m) /\ m.pc # "delete"
      BY <1>1, <2>1, NextConsumerIsTyped
    <3> QED
      BY <1>3, <3>1 DEF Becomes
  <2>2. CASE StartTick(t)
    BY <1>3, <2>2 DEF StartTick, Becomes, Idle, FirstPC
  <2>3. CASE LoadState(t)
    BY <1>2, <1>3, <2>3 DEF LoadState, Becomes, Locals
  <2>4. CASE ReadOffset(t)
    BY <1>2, <1>3, <2>4 DEF ReadOffset, Becomes, Locals
  <2>5. CASE ReadEvents(t)
    <3>1. AfterRead(t) # "delete"
      BY DEF AfterRead
    <3> QED
      BY <1>2, <1>3, <2>5, <3>1 DEF ReadEvents, Becomes, Locals
  <2>6. CASE Handle(t)
    BY <1>2, <1>3, <2>6 DEF Handle, Becomes, Locals, At
  <2>7. CASE Keep(t)
    BY <1>2, <1>3, <2>7 DEF Keep, Becomes, Locals, At
  <2>8. CASE HandleFails(t)
    BY <1>2, <1>3, <2>8 DEF HandleFails, Becomes, Locals
  <2>9. CASE RetryRead(t) \/ RetryLater(t) \/ DeadLetter(t) \/ DeadAck(t)
    <3>1. CASE RetryRead(t)
      BY <1>2, <1>3, <3>1 DEF RetryRead, Becomes, Locals
    <3>2. CASE RetryLater(t)
      BY <1>2, <1>3, <3>2 DEF RetryLater, Becomes, Locals
    <3>3. CASE DeadLetter(t)
      BY <1>2, <1>3, <3>3 DEF DeadLetter, Becomes, Locals
    <3>4. CASE DeadAck(t)
      BY <1>2, <1>3, <3>4 DEF DeadAck, Becomes, Locals
    <3> QED
      BY <2>9, <3>1, <3>2, <3>3, <3>4
  <2>10. CASE AckBatch(t) /\ ~NextConsumer(t)
    BY <1>2, <1>3, <2>10 DEF AckBatch, Becomes, Locals
  <2>11. CASE Submit(t)
    BY <1>2, <1>3, <2>11 DEF Submit, Becomes, Locals
  <2>12. CASE Delete(t)
    BY <1>3, <2>12 DEF Delete, Becomes, Idle
  <2> QED
    BY <1>5, <2>1, <2>2, <2>3, <2>4, <2>5, <2>6, <2>7, <2>8, <2>9, <2>10, <2>11, <2>12
    DEF TickStep, SkipConsumer, SaveState
<1> QED
  BY <1>4, <1>5

\* The log grows, time goes by, or nothing happens.
LEMMA ProperOfTime ==
    ASSUME LogInv, TypeOK', NEW l \in Locals, Proper(l),
           AppendEvent \/ GrowOld \/ Elapse \/ UNCHANGED vars
    PROVE  Proper(l)'
<1>1. UNCHANGED <<offset, dead, saved, handled, missed>> /\ Copiers' = Copiers
  BY DEF AppendEvent, GrowOld, Elapse, vars, failing, history, events, Copiers
<1>2. \A c : Reached(c)' = Reached(c)
  BY <1>1 DEF Reached, Settled
<1>3. InPlace(l)'
  BY <1>1 DEF Proper, InPlace
<1>4. KeepsAll(l)'
  <2>1. InHand(l)' = InHand(l) /\ \A s : Passes(l, s)' = Passes(l, s)
    BY <1>1, <1>2 DEF InHand, Passes
  <2> QED
    BY <1>1, <1>2, <2>1 DEF Proper, KeepsAll, Loaded
<1>5. (1..latest') \ live' \subseteq (1..latest) \ live
  <2>1. latest \in Nat
    BY SerialTypes DEF LogInv
  <2>2. CASE AppendEvent
    <3>1. latest' = latest + 1 /\ live' = live \cup {latest + 1}
      BY <2>2 DEF AppendEvent
    <3>2. \A s \in 1..latest' : s = latest + 1 \/ s \in 1..latest
      BY <2>1, <3>1
    <3> QED
      BY <3>1, <3>2
  <2>3. CASE ~AppendEvent
    <3>1. latest' = latest /\ live' = live
      BY <2>3 DEF GrowOld, Elapse, vars, events
    <3> QED
      BY <3>1
  <2> QED
    BY <2>2, <2>3
<1>6. ASSUME NEW c \in Consumers PROVE Orderly(l, c)'
  <2>1. AheadIsUntouched(l, c) /\ OnceEach(c) /\ SavedIsOpen(l, c) /\ KeptOrSeen(l, c)
    BY DEF Proper, Orderly
  <2>2. AheadIsUntouched(l, c)' /\ OnceEach(c)' /\ SavedIsOpen(l, c)'
    BY <1>1, <2>1 DEF AheadIsUntouched, OnceEach, SavedIsOpen, Through, Submits
  <2>3. KeptOrSeen(l, c)'
    BY <1>1, <1>2, <1>5, <2>1 DEF KeptOrSeen, Submits
  <2> QED
    BY <2>2, <2>3 DEF Orderly
<1> QED
  BY <1>3, <1>4, <1>6 DEF Proper

LEMMA SerialStep ==
    ASSUME OneTick
    PROVE  LogInv /\ LogInv' /\ SerialInv /\ [Next]_vars => SerialInv'
<1> SUFFICES ASSUME LogInv, LogInv', SerialInv, [Next]_vars PROVE SerialInv'
  OBVIOUS
<1>1. PICK t : Ticks = {t}
  BY DEF OneTick
<1>2. TypeOK /\ TypeOK' /\ LocalsOK /\ LocalsOK' /\ t \in Ticks
  BY <1>1, TypeParts DEF LogInv
<1>3. PICK l \in Locals : l = tick[t]
  BY <1>2, RunningIsConsumer
<1>4. /\ l.pc = "delete" => \A c \in Consumers : offset[c] # 0 => l.floor <= offset[c]
      /\ faults = 0 => Proper(l)
  BY <1>2, <1>3 DEF SerialInv, SerialAt
<1>5. tick \in [Ticks -> Locals]
  BY <1>2 DEF LocalsOK
<1> SUFFICES ASSUME NEW m, m = tick'[t]
             PROVE  SerialAt(m)'
  <2>1. PICK m : m = tick'[t]
    OBVIOUS
  <2>2. SerialAt(m)'
    BY <2>1
  <2>3. \A u \in Ticks : u = t
    BY <1>1
  <2> QED
    BY <2>1, <2>2, <2>3 DEF SerialInv, SerialAt, Proper, InPlace, KeepsAll, Orderly,
       Loaded, Passes, InHand, Through, Submits, AheadIsUntouched, SavedIsOpen, KeptOrSeen
<1>6. CASE TickStep(t)
  <2>1. faults' = faults
    BY <1>6 DEF TickStep, StartTick, SkipConsumer, LoadState, ReadOffset, ReadEvents, Handle,
                Keep, HandleFails, RetryRead, RetryLater, DeadLetter, DeadAck, AckBatch,
                Submit, SaveState, ReadFloor, Delete
  <2>2. m.pc = "delete" => \A c \in Consumers : offset'[c] # 0 => m.floor <= offset'[c]
    BY <1>2, <1>6, FloorIsLowest
  <2>3. ASSUME faults = 0 PROVE Proper(m)'
    <3>1. PICK k \in Locals : Becomes(t, k) /\ Proper(k)'
      BY <1>2, <1>3, <1>4, <1>6, <2>3, ProperStep
    <3>2. k = m
      BY <1>2, <1>5, <3>1 DEF Becomes
    <3> QED
      BY <3>1, <3>2
  <2> QED
    BY <2>1, <2>2, <2>3 DEF SerialAt
<1>7. CASE AppendEvent \/ GrowOld \/ Elapse \/ UNCHANGED vars
  <2>1. UNCHANGED <<tick, offset, faults>>
    BY <1>7 DEF AppendEvent, GrowOld, Elapse, vars, events
  <2>2. m = l
    BY <1>3, <2>1
  <2>3. faults = 0 => Proper(l)'
    BY <1>2, <1>4, <1>7, ProperOfTime
  <2> QED
    BY <1>4, <2>1, <2>2, <2>3 DEF SerialAt
<1>8. CASE Crash \/ Raise(t)
  <2>1. faults' # 0
    <3>1. faults' = faults + 1 /\ faults \in Nat
      BY <1>2, <1>8, SerialTypes DEF Crash, Raise, Abandon
    <3> QED
      BY <3>1
  <2>2. m = Idle
    BY <1>1, <1>8 DEF Crash, Raise, Abandon
  <2> QED
    BY <2>1, <2>2 DEF SerialAt, Idle
<1> QED
  BY <1>1, <1>6, <1>7, <1>8 DEF Next

LEMMA SerialHolds == ASSUME OneTick PROVE Spec => []SerialInv
<1>1. LogInv /\ SerialInv /\ [Next]_vars /\ LogInv' => SerialInv'
  BY SerialStep
<1> QED
  BY <1>1, SerialInit, LogInvHolds, PTL DEF Spec

\* One tick at a time, until something raises or crashes: however failures, retries and
\* partly acknowledged batches follow each other, no consumer processes an event twice
\* or both processes and dead-letters it, and a consumer with a saved state finds there
\* what it has acknowledged and not submitted, but for what newer events pushed out
\* (collectors/consumers/, event_log.py, ack, retry_later).
THEOREM EachEventOnce == ASSUME OneTick PROVE Spec => []SettledOnceAndKept
<1>1. LogInv /\ SerialInv => SettledOnceAndKept
  <2> SUFFICES ASSUME LogInv, SerialInv, faults = 0 PROVE SettledOnce /\ AckedIsKept
    BY DEF SettledOnceAndKept
  <2>1. PICK t \in Ticks : Ticks = {t}
    BY DEF OneTick
  <2>2. \A c \in Consumers : Orderly(tick[t], c)
    BY DEF SerialInv, SerialAt, Proper
  <2>3. SettledOnce
    BY <2>2 DEF SettledOnce, Orderly, OnceEach
  <2>4. AckedIsKept
    BY <2>1, <2>2 DEF AckedIsKept, Orderly, KeptOrSeen, Submits, Running, Reached
  <2> QED
    BY <2>3, <2>4
<1> QED
  BY <1>1, SerialHolds, LogInvHolds, PTL

\* One tick at a time, whatever raises or crashes: retention takes an event from a copying
\* consumer that has not reached it only when that consumer has never acknowledged
\* anything (event_log.py, enforce_retention).
THEOREM NewcomersOnlyMiss == ASSUME OneTick PROVE Spec => OnlyNewcomersMiss
<1> DEFINE Misses == \A c \in Copiers : missed'[c] # missed[c] => offset[c] = 0
<1>1. LogInv /\ SerialInv /\ [Next]_vars => [Misses]_vars
  <2> SUFFICES ASSUME LogInv, SerialInv, Next,
                      NEW c \in Copiers, offset[c] # 0
               PROVE  missed'[c] = missed[c]
    BY DEF vars, history
  <2>1. TypeOK /\ LocalsOK /\ c \in Consumers
    BY TypeParts DEF LogInv, Copiers
  <2>2. CASE \E t \in Ticks : Delete(t)
    <3>1. PICK t \in Ticks : Delete(t)
      BY <2>2
    <3>2. tick[t].floor <= offset[c] /\ tick[t].floor \in Nat /\ offset[c] \in Nat
          /\ live \subseteq 1..latest /\ latest \in Nat
      BY <2>1, <3>1, RunningIsConsumer, SerialTypes DEF SerialInv, SerialAt, Delete, At
    <3>3. 1..offset[c] \subseteq Settled(c) \cup missed[c]
      BY DEF LogInv, SettlingIsEarned, AckedIsSettled
    <3>4. ASSUME NEW s \in live, s \notin live' PROVE s \in Settled(c) \cup missed[c]
      <4>1. ~(s > tick[t].floor)
        BY <3>1, <3>4 DEF Delete
      <4>2. s \in 1..offset[c]
        BY <3>2, <4>1
      <4> QED
        BY <3>3, <4>2
    <3>5. missed'[c] = missed[c] \cup ((live \ live') \ (Settled(c) \cup saved[c]))
      BY <2>1, <3>1 DEF Delete
    <3> QED
      BY <3>4, <3>5
  <2>3. CASE \E t \in Ticks : Keep(t)
    <3>1. PICK t \in Ticks : Keep(t)
      BY <2>3
    <3>2. Running(t) # c
      BY <3>1 DEF Keep, Copiers
    <3>3. missed \in [Consumers -> SUBSET Sequence] /\ Running(t) \in Consumers
      BY <2>1, RunningIsConsumer DEF TypeOK
    <3>4. \E x : missed' = [missed EXCEPT ![Running(t)] = x]
      BY <3>1 DEF Keep
    <3> QED
      BY <2>1, <3>2, <3>3, <3>4
  <2>4. CASE ~\E t \in Ticks : Delete(t) \/ Keep(t)
    <3>1. CASE AppendEvent \/ GrowOld \/ Elapse \/ Crash
      BY <3>1 DEF AppendEvent, GrowOld, Elapse, Crash, Abandon, history
    <3>2. CASE \E t \in Ticks : TickStep(t) \/ Raise(t)
      <4>1. PICK t \in Ticks : (TickStep(t) \/ Raise(t)) /\ ~Delete(t) /\ ~Keep(t)
        BY <2>4, <3>2
      <4>2. CASE StartTick(t) \/ SkipConsumer(t) \/ LoadState(t) \/ ReadOffset(t) \/ ReadEvents(t)
                 \/ Handle(t) \/ HandleFails(t) \/ RetryRead(t) \/ RetryLater(t)
        BY <4>2 DEF StartTick, SkipConsumer, LoadState, ReadOffset, ReadEvents, Handle,
                    HandleFails, RetryRead, RetryLater, history
      <4>3. CASE DeadLetter(t) \/ DeadAck(t) \/ AckBatch(t) \/ Submit(t) \/ SaveState(t)
                 \/ ReadFloor(t) \/ Raise(t)
        BY <4>3 DEF DeadLetter, DeadAck, AckBatch, Submit, SaveState, ReadFloor, Raise,
                    Abandon, history
      <4> QED
        BY <4>1, <4>2, <4>3 DEF TickStep
    <3> QED
      BY <3>1, <3>2 DEF Next
  <2> QED
    BY <2>2, <2>3, <2>4
<1> QED
  BY <1>1, SerialHolds, LogInvHolds, PTL DEF OnlyNewcomersMiss, Spec
=============================================================================
