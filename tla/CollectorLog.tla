----------------------------- MODULE CollectorLog -----------------------------
(***************************************************************************)
(* The collector event log (collectors/event_log.py) and the consumers     *)
(* that every collector tick runs over it one after the other              *)
(* (collectors/manager.py, collectors/consumers/).                         *)
(*                                                                         *)
(* Anyone appends: the tick's own collectors, and the API threads that     *)
(* ingest what native helpers and app sources post.  A tick is run by the  *)
(* background worker and by every POST /collectors/tick, so several ticks  *)
(* run the same consumers at the same time.  Each statement of the log is  *)
(* a transaction of its own and a step of this specification.              *)
(*                                                                         *)
(* An event is its sequence number: what it says is left out, and so is an *)
(* append of an event id that is already in the log, which changes nothing.*)
(* Retention goes by age and by number.                                    *)
(***************************************************************************)
EXTENDS Naturals, Sequences, FiniteSets

CONSTANTS
    Consumers,    \* consumer names
    Kind,         \* the consume method each of them runs, see Kinds
    Order,        \* the order in which a tick runs them
    Optional,     \* those a profile can switch off
    Ticks,        \* the threads and processes that run ticks
    Bare,         \* those that run them with process_consumers=False
    MaxAttempts,  \* max_attempts of retry_later
    BatchLimit,   \* limit of read_batch
    Retain,       \* how many events a saved state keeps
    MaxEvents,    \* max_events of enforce_retention
    MaxSequence,  \* bound: events appended
    MaxFaults     \* bound: ticks that raise and process crashes

\* "mirror" copies each event and acknowledges the batch (memory, semantic);
\* "router" may fail on an event, which is then retried (janus); "stream" and
\* "attention" keep the events in their saved state (ui_stream, attention_batch).
Kinds == {"mirror", "router", "stream", "attention"}

ASSUME LogConstants ==
    /\ Kind \in [Consumers -> Kinds]
    /\ Order \in Seq(Consumers) /\ Order # <<>>
    /\ Optional \subseteq Consumers /\ Bare \subseteq Ticks /\ IsFiniteSet(Ticks)
    /\ MaxAttempts \in Nat \ {0}
    /\ BatchLimit \in Nat \ {0}
    /\ Retain \in Nat \ {0}
    /\ MaxEvents \in Nat /\ MaxSequence \in Nat /\ MaxFaults \in Nat

VARIABLES
    \* table collector_events
    latest,    \* the highest sequence ever assigned (AUTOINCREMENT)
    live,      \* the sequences of its rows
    aged,      \* the highest sequence older than max_age_seconds
    \* tables collector_consumer_offsets, _failures, _dead_letters, _state
    offset,    \* last_sequence of each consumer, 0 without a row
    attempts,  \* attempts of the failure row of (consumer, sequence), 0 without
    waiting,   \* the failure rows whose next_retry_at lies ahead
    dead,      \* the dead letters of each consumer
    saved,     \* the events in the state a consumer saved
    tick,      \* the locals of each tick, see Idle
    \* what really happened, for the properties only
    handled,   \* how often a consumer has processed an event
    failures,  \* how often it has failed on it
    missed,    \* the events deleted before the consumer was through with them,
               \* and those that newer ones pushed out of its state
    faults

Sequence == 1..MaxSequence

events == <<latest, live, aged>>
failing == <<attempts, waiting, dead>>
history == <<handled, failures, missed>>
vars == <<events, offset, failing, saved, tick, history, faults>>

PCs == {"idle", "load", "offset", "read", "reload", "handle", "failed", "retry",
        "deadAck", "submit", "save", "floor", "delete"}

Idle == [pc     |-> "idle",
         stage  |-> 1,   \* index in Order of the consumer that runs
         base   |-> 0,   \* the offset read_batch has read
         batch  |-> {},  \* the events read and not processed yet
         last   |-> 0,   \* the last event processed, last_sequence
         item   |-> 0,   \* the event whose failure is recorded
         tried  |-> 0,   \* the attempts retry_later has read
         draft  |-> {},  \* the state loaded and not saved yet
         floor  |-> 0,   \* the lowest offset enforce_retention has read
         excess |-> 0]   \* the highest sequence there are MaxEvents behind

Init ==
    /\ latest = 0 /\ live = {} /\ aged = 0
    /\ offset = [c \in Consumers |-> 0]
    /\ attempts = [c \in Consumers |-> [s \in Sequence |-> 0]]
    /\ waiting = [c \in Consumers |-> {}]
    /\ dead = [c \in Consumers |-> {}]
    /\ saved = [c \in Consumers |-> {}]
    /\ tick = [t \in Ticks |-> Idle]
    /\ handled = [c \in Consumers |-> [s \in Sequence |-> 0]]
    /\ failures = [c \in Consumers |-> [s \in Sequence |-> 0]]
    /\ missed = [c \in Consumers |-> {}]
    /\ faults = 0

Running(t) == Order[tick[t].stage]
At(t, here) == tick[t].pc = here
Becomes(t, locals) == tick' = [tick EXCEPT ![t] = locals]

\* What consumer c is through with.
Settled(c) == {s \in Sequence : handled[c][s] > 0} \cup dead[c]

\* What a state that holds the set is cut down to.
Newest(set) == {s \in set : Cardinality({q \in set : q > s}) < Retain}

Least(s, set) == s \in set /\ \A q \in set : s <= q

-----------------------------------------------------------------------------
(***************************************************************************)
(* The log's own operations, and time.                                     *)
(***************************************************************************)
AppendEvent ==
    /\ latest < MaxSequence
    /\ latest' = latest + 1
    /\ live' = live \cup {latest + 1}
    /\ UNCHANGED <<aged, offset, failing, saved, tick, history, faults>>

\* Mutant: the offset is set to the sequence, whatever it was.
AckRewinds(c, n) ==
    /\ offset' = [offset EXCEPT ![c] = n]
    /\ attempts' = [attempts EXCEPT ![c] = [s \in Sequence |-> IF s <= n THEN 0 ELSE @[s]]]
    /\ waiting' = [waiting EXCEPT ![c] = {s \in @ : s > n}]

\* ack: the offset never goes back, and the failures it passes are deleted.
Acknowledge(c, n) ==
    /\ offset' = [offset EXCEPT ![c] = IF @ > n THEN @ ELSE n]
    /\ attempts' = [attempts EXCEPT ![c] = [s \in Sequence |-> IF s <= n THEN 0 ELSE @[s]]]
    /\ waiting' = [waiting EXCEPT ![c] = {s \in @ : s > n}]

Rows(from, to) == {s \in live : from < s /\ s <= to}

\* Mutant: an event that has failed once is never read again.
NeverDue(c, from, to) ==
    /\ Cardinality(Rows(from, to)) <= BatchLimit
    /\ \A s \in Rows(from, to) : attempts[c][s] = 0

\* read_batch stops in front of the first event that waits for its retry.
Readable(c, from, to) ==
    /\ Cardinality(Rows(from, to)) <= BatchLimit
    /\ Rows(from, to) \cap waiting[c] = {}

\* Events grow old, which takes hours and far longer than a tick.
GrowOld ==
    /\ aged < latest /\ \A t \in Ticks : At(t, "idle")
    /\ \E s \in (aged + 1)..latest : aged' = s
    /\ UNCHANGED <<latest, live, offset, failing, saved, tick, history, faults>>

\* A retry becomes due.
Elapse ==
    /\ \E c \in Consumers : \E s \in waiting[c] : waiting' = [waiting EXCEPT ![c] = @ \ {s}]
    /\ UNCHANGED <<events, offset, attempts, dead, saved, tick, history, faults>>

-----------------------------------------------------------------------------
(***************************************************************************)
(* The tick.                                                               *)
(***************************************************************************)
FirstPC(n) == IF Kind[Order[n]] = "attention" THEN "load" ELSE "offset"

\* Mutant: the tick does not end behind the last consumer.
RunsPastTheEnd(t) == Becomes(t, [Idle EXCEPT !.pc = "offset", !.stage = tick[t].stage + 1])

\* On to the next consumer, behind the last one to the retention.
NextConsumer(t) ==
    LET next == tick[t].stage + 1 IN
    Becomes(t, IF next <= Len(Order)
               THEN [Idle EXCEPT !.pc = FirstPC(next), !.stage = next]
               ELSE [Idle EXCEPT !.pc = "floor"])

StartTick(t) ==
    /\ At(t, "idle")
    /\ Becomes(t, [Idle EXCEPT !.pc = IF t \in Bare THEN "floor" ELSE FirstPC(1)])
    /\ UNCHANGED <<events, offset, failing, saved, history, faults>>

SkipConsumer(t) ==
    /\ Running(t) \in Optional /\ At(t, FirstPC(tick[t].stage))
    /\ NextConsumer(t)
    /\ UNCHANGED <<events, offset, failing, saved, history, faults>>

\* Mutant: the saved state is not loaded, the new one replaces it.
StateForgotten(t) ==
    /\ tick[t].pc \in {"load", "reload"}
    /\ Becomes(t, [tick[t] EXCEPT !.pc = IF @ = "load" THEN "offset" ELSE "handle"])
    /\ UNCHANGED <<events, offset, failing, saved, history, faults>>

\* consumer_state: attention reads it in front of the batch, stream behind it.
LoadState(t) ==
    /\ tick[t].pc \in {"load", "reload"}
    /\ Becomes(t, [tick[t] EXCEPT !.pc = IF @ = "load" THEN "offset" ELSE "handle",
                                  !.draft = saved[Running(t)]])
    /\ UNCHANGED <<events, offset, failing, saved, history, faults>>

\* read_batch: the offset in one transaction ...
ReadOffset(t) ==
    /\ At(t, "offset")
    /\ Becomes(t, [tick[t] EXCEPT !.pc = "read", !.base = offset[Running(t)]])
    /\ UNCHANGED <<events, offset, failing, saved, history, faults>>

AfterRead(t) == IF Kind[Running(t)] = "stream" THEN "reload" ELSE "handle"

\* Mutant: what waits for its retry is passed over.
WaitingSkipped(t) ==
    /\ At(t, "read")
    /\ Becomes(t, [tick[t] EXCEPT !.pc = AfterRead(t), !.base = 0,
                     !.batch = Rows(tick[t].base, latest) \ waiting[Running(t)]])
    /\ UNCHANGED <<events, offset, failing, saved, history, faults>>

\* ... the events behind it in the next: as many as are readable.
ReadEvents(t) ==
    /\ At(t, "read")
    /\ \E to \in 0..latest :
         /\ Readable(Running(t), tick[t].base, to)
         /\ to < latest => ~Readable(Running(t), tick[t].base, to + 1)
         /\ Becomes(t, [tick[t] EXCEPT !.pc = AfterRead(t), !.base = 0,
                          !.batch = Rows(tick[t].base, to)])
    /\ UNCHANGED <<events, offset, failing, saved, history, faults>>

\* The next event of the batch is copied or routed; attention passes over what
\* is muted or not eligible.
Handle(t) ==
    /\ At(t, "handle") /\ Kind[Running(t)] # "stream"
    /\ \E s \in tick[t].batch :
         /\ Least(s, tick[t].batch)
         /\ Becomes(t, [tick[t] EXCEPT !.batch = @ \ {s}, !.last = s])
         /\ handled' = [handled EXCEPT ![Running(t)][s] = @ + 1]
    /\ UNCHANGED <<events, offset, failing, saved, failures, missed, faults>>

\* Or it joins the state, which keeps the newest.
Keep(t) ==
    /\ At(t, "handle") /\ Kind[Running(t)] \in {"stream", "attention"}
    /\ \E s \in tick[t].batch :
         LET grown == tick[t].draft \cup {s} IN
         /\ Least(s, tick[t].batch)
         /\ Becomes(t, [tick[t] EXCEPT !.batch = @ \ {s}, !.last = s,
                                       !.draft = Newest(grown)])
         /\ missed' = [missed EXCEPT ![Running(t)] = @ \cup (grown \ Newest(grown))]
    /\ UNCHANGED <<events, offset, failing, saved, handled, failures, faults>>

\* Mutant: the batch goes on behind the event that failed.
FailureSkipped(t) ==
    /\ At(t, "handle") /\ Kind[Running(t)] = "router"
    /\ \E s \in tick[t].batch :
         /\ Least(s, tick[t].batch)
         /\ Becomes(t, [tick[t] EXCEPT !.pc = "failed", !.item = s, !.batch = @ \ {s}])
         /\ failures' = [failures EXCEPT ![Running(t)][s] = @ + 1]
    /\ UNCHANGED <<events, offset, failing, saved, handled, missed, faults>>

\* Mutant: a failure gives up what the batch had reached.
ProgressForgotten(t) ==
    /\ At(t, "handle") /\ Kind[Running(t)] = "router"
    /\ \E s \in tick[t].batch :
         /\ Least(s, tick[t].batch)
         /\ Becomes(t, [tick[t] EXCEPT !.pc = "failed", !.item = s, !.batch = {}, !.last = 0])
         /\ failures' = [failures EXCEPT ![Running(t)][s] = @ + 1]
    /\ UNCHANGED <<events, offset, failing, saved, handled, missed, faults>>

\* Routing raises: the rest of the batch is left for another tick.
HandleFails(t) ==
    /\ At(t, "handle") /\ Kind[Running(t)] = "router"
    /\ \E s \in tick[t].batch :
         /\ Least(s, tick[t].batch)
         /\ Becomes(t, [tick[t] EXCEPT !.pc = "failed", !.item = s, !.batch = {}])
         /\ failures' = [failures EXCEPT ![Running(t)][s] = @ + 1]
    /\ UNCHANGED <<events, offset, failing, saved, handled, missed, faults>>

\* retry_later reads the attempts ...
RetryRead(t) ==
    /\ At(t, "failed")
    /\ Becomes(t, [tick[t] EXCEPT !.pc = "retry",
                                  !.tried = attempts[Running(t)][tick[t].item]])
    /\ UNCHANGED <<events, offset, failing, saved, history, faults>>

\* ... and schedules another one ...
RetryLater(t) ==
    LET c == Running(t)  s == tick[t].item IN
    /\ At(t, "retry") /\ tick[t].tried + 1 < MaxAttempts
    /\ attempts' = [attempts EXCEPT ![c][s] = tick[t].tried + 1]
    /\ waiting' = [waiting EXCEPT ![c] = @ \cup {s}]
    /\ Becomes(t, [tick[t] EXCEPT !.pc = "handle", !.item = 0, !.tried = 0])
    /\ UNCHANGED <<events, offset, dead, saved, history, faults>>

\* Mutant: the first failure is the last.
DeadLetterEarly(t) ==
    /\ At(t, "retry")
    /\ dead' = [dead EXCEPT ![Running(t)] = @ \cup {tick[t].item}]
    /\ Becomes(t, [tick[t] EXCEPT !.pc = "deadAck", !.tried = 0])
    /\ UNCHANGED <<events, offset, attempts, waiting, saved, history, faults>>

\* ... or writes a dead letter, which it then acknowledges.
DeadLetter(t) ==
    LET c == Running(t)  s == tick[t].item IN
    /\ At(t, "retry") /\ tick[t].tried + 1 >= MaxAttempts
    /\ attempts' = [attempts EXCEPT ![c][s] = 0]
    /\ waiting' = [waiting EXCEPT ![c] = @ \ {s}]
    /\ dead' = [dead EXCEPT ![c] = @ \cup {s}]
    /\ Becomes(t, [tick[t] EXCEPT !.pc = "deadAck", !.tried = 0])
    /\ UNCHANGED <<events, offset, saved, history, faults>>

DeadAck(t) ==
    /\ At(t, "deadAck")
    /\ Acknowledge(Running(t), tick[t].item)
    /\ Becomes(t, [tick[t] EXCEPT !.pc = "handle", !.item = 0])
    /\ UNCHANGED <<events, dead, saved, history, faults>>

\* The consumer acknowledges the last event it processed, if any.
AckBatch(t) ==
    /\ At(t, "handle") /\ tick[t].batch = {}
    /\ IF tick[t].last > 0 THEN Acknowledge(Running(t), tick[t].last)
                           ELSE UNCHANGED <<offset, attempts, waiting>>
    /\ IF Kind[Running(t)] \in {"mirror", "router"} THEN NextConsumer(t)
       ELSE Becomes(t, [tick[t] EXCEPT !.pc = IF Kind[Running(t)] = "stream"
                                              THEN "save" ELSE "submit"])
    /\ UNCHANGED <<events, dead, saved, history, faults>>

\* The pending events may be due as a batch, which goes to the harness.
Submit(t) ==
    /\ At(t, "submit")
    /\ \E due \in {{}, tick[t].draft} :
         /\ handled' = [handled EXCEPT ![Running(t)] =
                          [s \in Sequence |-> IF s \in due THEN @[s] + 1 ELSE @[s]]]
         /\ Becomes(t, [tick[t] EXCEPT !.pc = "save", !.draft = @ \ due])
    /\ UNCHANGED <<events, offset, failing, saved, failures, missed, faults>>

\* save_consumer_state overwrites the state as a whole.
SaveState(t) ==
    /\ At(t, "save")
    /\ saved' = [saved EXCEPT ![Running(t)] = tick[t].draft]
    /\ NextConsumer(t)
    /\ UNCHANGED <<events, offset, failing, history, faults>>

Excess == IF latest > MaxEvents THEN latest - MaxEvents ELSE 0
Offsets == {offset[c] : c \in Consumers} \ {0}

\* Mutant: what the fastest consumer has acknowledged may go.
FloorOfTheFastest(t) ==
    /\ At(t, "floor")
    /\ \/ Offsets = {} /\ Becomes(t, Idle)
       \/ \E n \in Offsets :
            /\ \A o \in Offsets : o <= n
            /\ Becomes(t, [tick[t] EXCEPT !.pc = "delete", !.floor = n, !.excess = Excess])
    /\ UNCHANGED <<events, offset, failing, saved, history, faults>>

\* enforce_retention reads the offsets there are ...
ReadFloor(t) ==
    /\ At(t, "floor")
    /\ \/ Offsets = {} /\ Becomes(t, Idle)
       \/ \E n \in Offsets :
            /\ Least(n, Offsets)
            /\ Becomes(t, [tick[t] EXCEPT !.pc = "delete", !.floor = n, !.excess = Excess])
    /\ UNCHANGED <<events, offset, failing, saved, history, faults>>

\* ... and deletes, up to the lowest of them, what is too much or too old.
Delete(t) ==
    LET kept == {s \in live : \/ s > tick[t].floor
                              \/ s > tick[t].excess /\ s > aged}
    IN /\ At(t, "delete")
       /\ live' = kept
       /\ missed' = [c \in Consumers |->
                       missed[c] \cup ((live \ kept) \ (Settled(c) \cup saved[c]))]
       /\ Becomes(t, Idle)
       /\ UNCHANGED <<latest, aged, offset, failing, saved, handled, failures, faults>>

-----------------------------------------------------------------------------
(***************************************************************************)
(* A tick that raises (a locked database, a harness error) is abandoned by *)
(* the worker, which starts another one later; a crash abandons all.       *)
(***************************************************************************)
Abandon(ticks) ==
    /\ faults < MaxFaults /\ faults' = faults + 1
    /\ tick' = [t \in Ticks |-> IF t \in ticks THEN Idle ELSE tick[t]]
    /\ UNCHANGED <<events, offset, failing, saved, history>>

Raise(t) == ~At(t, "idle") /\ Abandon({t})
Crash == Abandon(Ticks)

TickStep(t) ==
    \/ StartTick(t)  \/ SkipConsumer(t) \/ LoadState(t)
    \/ ReadOffset(t) \/ ReadEvents(t)   \/ Handle(t)     \/ Keep(t)
    \/ HandleFails(t) \/ RetryRead(t)   \/ RetryLater(t) \/ DeadLetter(t)
    \/ DeadAck(t)    \/ AckBatch(t)     \/ Submit(t)     \/ SaveState(t)
    \/ ReadFloor(t)  \/ Delete(t)

Next ==
    \/ AppendEvent \/ GrowOld \/ Elapse \/ Crash
    \/ \E t \in Ticks : TickStep(t) \/ Raise(t)

Spec == Init /\ [][Next]_vars

\* The background worker ticks on for ever, and time goes by.
FairSpec == Spec /\ WF_vars(Elapse) /\ \A t \in Ticks : WF_vars(TickStep(t))

-----------------------------------------------------------------------------
(* The type invariant: what each column and each local may hold. *)
TypeOK ==
    /\ latest \in 0..MaxSequence
    /\ live \subseteq 1..latest
    /\ aged \in 0..latest
    /\ offset \in [Consumers -> 0..latest]
    /\ attempts \in [Consumers -> [Sequence -> 0..(MaxAttempts - 1)]]
    /\ waiting \in [Consumers -> SUBSET Sequence]
    /\ dead \in [Consumers -> SUBSET Sequence]
    /\ saved \in [Consumers -> SUBSET Sequence]
    /\ tick \in [Ticks -> [pc : PCs, stage : 1..Len(Order), base : 0..latest,
                           batch : SUBSET (1..latest), last : 0..latest,
                           item : 0..latest, tried : 0..(MaxAttempts - 1),
                           draft : SUBSET Sequence, floor : 0..latest,
                           excess : 0..latest]]
    /\ \A t \in Ticks : tick[t].pc \in {"failed", "retry", "deadAck"} => tick[t].item > 0
    /\ handled \in [Consumers -> [Sequence -> Nat]]
    /\ failures \in [Consumers -> [Sequence -> Nat]]
    /\ missed \in [Consumers -> SUBSET Sequence]
    /\ faults \in 0..MaxFaults

(***************************************************************************)
(* Safety, for any number of ticks at a time, raising and crashing.        *)
(***************************************************************************)
Copiers == {c \in Consumers : Kind[c] \in {"mirror", "router"}}

\* An acknowledged event was copied, routed or dead-lettered, or deleted before
\* the consumer could read it: no failure, crash or other tick makes a consumer
\* acknowledge an event it has not seen (consume of memory, semantic, janus).
AckedIsSettled ==
    \A c \in Copiers : 1..offset[c] \subseteq Settled(c) \cup missed[c]

\* A consumer gets to an event only behind all earlier ones, also when one of
\* them waits for its retry while others are appended (the break in read_batch).
SettledInOrder ==
    \A c \in Copiers : \A s \in Settled(c) : 1..(s - 1) \subseteq Settled(c) \cup missed[c]

\* A dead letter was attempted MaxAttempts times: ticks that race in retry_later
\* can lose an attempt, never count one that was not made.
DeadLetterIsEarned ==
    \A c \in Consumers : \A s \in dead[c] : failures[c][s] >= MaxAttempts

\* No acknowledgement, no order and no dead letter without the work that it stands
\* for (event_log.py, read_batch, ack, retry_later).
SettlingIsEarned == AckedIsSettled /\ SettledInOrder /\ DeadLetterIsEarned

\* The log with its copying consumers keeps what ConsumerContract promises.
Contract == INSTANCE ConsumerContract WITH
    Copying  <- Copiers,
    position <- offset,
    settled  <- [c \in Copiers |-> Settled(c)],
    lost     <- [c \in Copiers |-> missed[c]]
ImplementsContract == Contract!Spec

(***************************************************************************)
(* Of one tick at a time.  What raises or crashes half-way repeats what it *)
(* had not acknowledged, and loses what it had not saved.                  *)
(***************************************************************************)

\* No event is processed twice, and none both processed and dead-lettered,
\* however failures, retries and partly acknowledged batches follow each other.
SettledOnce ==
    \A c \in Consumers : \A s \in Sequence :
        /\ handled[c][s] <= 1
        /\ s \in dead[c] => handled[c][s] = 0

\* Retention deletes an unread event only under a consumer that has never
\* acknowledged anything, whatever the others have done.
OnlyNewcomersMiss ==
    [][\A c \in Copiers : missed'[c] # missed[c] => offset[c] = 0]_vars

\* Outside the few steps between its acknowledgement and its save, a consumer
\* with a saved state finds every acknowledged event in it, in a batch it has
\* submitted, or pushed out by newer ones.
AckedIsKept ==
    \A c \in Consumers \ Copiers :
        (\A t \in Ticks : ~(Running(t) = c /\ tick[t].pc \in {"submit", "save"}))
            => 1..offset[c] \subseteq Settled(c) \cup saved[c] \cup missed[c]

\* As long as nothing raises or crashes, each event is processed once, and what that
\* has left is not lost.
SettledOnceAndKept == faults = 0 => SettledOnce /\ AckedIsKept

\* What no profile switches off reaches every event that is appended: a failing
\* event is retried or dead-lettered and does not block the ones behind it.  Ticks
\* that raise or crash do not change this, but for a consumer that acknowledges
\* before it saves.
EventsAreReached ==
    \A c \in Consumers \ Optional : \A s \in Sequence :
        s <= latest ~> \/ s \in Settled(c) \cup saved[c] \cup missed[c]
                       \/ faults > 0 /\ c \notin Copiers

(***************************************************************************)
(* What the documents promise and the code does not keep.                  *)
(***************************************************************************)

\* docs/JANUS_REFLEX_ARCHITECTURE.md: the log is "independently consumable",
\* with "retention based on acknowledged offsets": no consumer that every tick
\* runs loses an event to retention.
NothingUnreadIsDeleted == \A c \in Consumers \ Optional : missed[c] = {}
=============================================================================
