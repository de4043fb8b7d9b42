--------------------------- MODULE ChannelListener ---------------------------
(***************************************************************************)
(* The listener of chat channels (integrations/channel_listeners.py): a    *)
(* tick polls Telegram from a saved offset and hands each update to the    *)
(* interaction harness; webhook requests of other channels hand over their *)
(* messages and write the same state file.  Ticks and webhooks are         *)
(* requests of one threaded server, or tools of other processes.           *)
(*                                                                         *)
(* The harness records the message under its identifier, which is the key  *)
(* of cognitive_events: a second message with the same identifier raises.  *)
(* Updates are numbered as Telegram numbers them.  The counters and the    *)
(* list of recent events in the state file are left out.                   *)
(***************************************************************************)
EXTENDS Naturals

CONSTANTS
    Ticks, Hooks,  \* requests
    Groups,        \* the sets of them that may be there together
    Keys,          \* message identifiers
    HookKeys,      \* those that webhooks deliver
    Silent,        \* an update without text, or of a bot
    Torn,          \* a state file that cannot be parsed
    Limit,         \* updates a poll asks for
    MaxUpdates,    \* bound: updates that arrive
    MaxFaults      \* bound: requests that fail or are killed

Callers == Ticks \cup Hooks
Updates == 1..MaxUpdates

ASSUME ListenerConstants ==
    /\ Ticks \cap Hooks = {} /\ Groups \subseteq SUBSET (Ticks \cup Hooks)
    /\ HookKeys \subseteq Keys
    /\ Silent \notin Keys /\ Torn \notin Nat
    /\ Limit \in Nat \ {0} /\ MaxUpdates \in Nat /\ MaxFaults \in Nat

VARIABLES
    \* Telegram's side
    arrived,    \* number of updates that have arrived
    keyOf,      \* message identifier of each
    confirmed,  \* updates up to this one are not delivered again
    \* this side
    file,       \* telegram_update_offset in the state file
    keys,       \* table cognitive_events: event_id
    caller,     \* locals of each request, see Rest
    \* what really happened, for the properties only
    begun,      \* updates that the harness has recorded
    finished,   \* updates that have been handled to the end
    starts,     \* agent runs begun for each identifier
    newest,     \* highest offset ever saved
    disturbed,  \* a request has failed, two messages shared an identifier, or a
                \* save or a read of the state file has lost an offset
    listenerFaults

listenerHistory == <<begun, finished, starts, newest, disturbed, listenerFaults>>
listenerVars == <<arrived, keyOf, confirmed, file, keys, caller, listenerHistory>>

Rest == [pc     |-> "idle",
         offset |-> 0,   \* offset in the state the tick loaded
         next   |-> 1,   \* update to handle
         last   |-> 0,   \* last update of the batch, 0 for none
         copy   |-> 0]   \* offset in the state loaded again at the end

Absent == [Rest EXCEPT !.pc = "absent"]

ListenerInit ==
    /\ arrived = 0 /\ keyOf = [i \in Updates |-> Silent] /\ confirmed = 0
    /\ file = 0 /\ keys = {}
    /\ \E group \in Groups : caller = [c \in Callers |-> IF c \in group THEN Rest ELSE Absent]
    /\ begun = {} /\ finished = {} /\ starts = [k \in Keys |-> 0]
    /\ newest = 0 /\ disturbed = FALSE /\ listenerFaults = 0

OffsetIn(f) == IF f = Torn THEN 0 ELSE f

\* A user writes, or edits a message: an edit has the identifier of the message
\* it edits, and Telegram numbers the messages of each chat on its own.
Arrive ==
    /\ arrived < MaxUpdates
    /\ arrived' = arrived + 1
    /\ \E k \in Keys \cup {Silent} : keyOf' = [keyOf EXCEPT ![arrived + 1] = k]
    /\ UNCHANGED <<confirmed, file, keys, caller, listenerHistory>>

\* A tick for Telegram, or for channels that are not polled: those it only saves.
Load(t, then) ==
    /\ caller[t].pc = "idle"
    /\ caller' = [caller EXCEPT ![t] = [Rest EXCEPT !.pc = then, !.offset = OffsetIn(file)]]
    /\ disturbed' = (disturbed \/ (file = Torn /\ newest > 0))
    /\ UNCHANGED <<arrived, keyOf, confirmed, file, keys, begun, finished, starts, newest,
                   listenerFaults>>
LoadState(t) == Load(t, "poll")
LoadOther(t) == Load(t, "save")

AcknowledgedMore(t) == IF caller[t].offset > confirmed THEN caller[t].offset ELSE confirmed
\* getUpdates: Telegram forgets the updates below the offset and sends the next.
Acknowledged(t) == IF caller[t].offset > confirmed + 1 THEN caller[t].offset - 1 ELSE confirmed

Poll(t) ==
    /\ caller[t].pc = "poll"
    /\ confirmed' = Acknowledged(t)
    /\ caller' = [caller EXCEPT ![t].pc = "handle",
                    ![t].next = confirmed' + 1,
                    ![t].last = IF arrived = confirmed' THEN 0
                                ELSE IF arrived < confirmed' + Limit THEN arrived
                                ELSE confirmed' + Limit]
    /\ UNCHANGED <<arrived, keyOf, file, keys, listenerHistory>>

\* The answer is lost.
LosePoll(t) ==
    /\ caller[t].pc = "poll" /\ listenerFaults < MaxFaults
    /\ listenerFaults' = listenerFaults + 1
    /\ confirmed' = Acknowledged(t)
    /\ caller' = [caller EXCEPT ![t] = Rest]
    /\ UNCHANGED <<arrived, keyOf, file, keys, begun, finished, starts, newest, disturbed>>

RecordAgain(k) ==
    /\ keys' = keys \cup {k}
    /\ starts' = [starts EXCEPT ![k] = @ + 1]

\* The message is recorded under its identifier; the agent runs for it.
Record(k) ==
    /\ k \notin keys
    /\ keys' = keys \cup {k}
    /\ starts' = [starts EXCEPT ![k] = @ + 1]

AtUpdate(t) == caller[t].pc = "handle" /\ caller[t].next <= caller[t].last

SkipUpdate(t) ==
    /\ AtUpdate(t) /\ keyOf[caller[t].next] = Silent
    /\ finished' = finished \cup {caller[t].next}
    /\ caller' = [caller EXCEPT ![t].next = @ + 1]
    /\ UNCHANGED <<arrived, keyOf, confirmed, file, keys, begun, starts, newest, disturbed,
                   listenerFaults>>

StartUpdate(t) ==
    /\ AtUpdate(t) /\ keyOf[caller[t].next] # Silent /\ Record(keyOf[caller[t].next])
    /\ begun' = begun \cup {caller[t].next}
    /\ caller' = [caller EXCEPT ![t].pc = "run"]
    /\ UNCHANGED <<arrived, keyOf, confirmed, file, finished, newest, disturbed, listenerFaults>>

PassOver(t) ==
    /\ AtUpdate(t) /\ keyOf[caller[t].next] \in keys
    /\ caller' = [caller EXCEPT ![t].next = @ + 1]
    /\ UNCHANGED <<arrived, keyOf, confirmed, file, keys, listenerHistory>>

\* The identifier is taken: the whole tick raises.
RefuseUpdate(t) ==
    /\ AtUpdate(t) /\ keyOf[caller[t].next] \in keys
    /\ caller' = [caller EXCEPT ![t] = Rest]
    /\ disturbed' = (disturbed \/ caller[t].next \notin begun)
    /\ UNCHANGED <<arrived, keyOf, confirmed, file, keys, begun, finished, starts, newest,
                   listenerFaults>>

\* A webhook request with a message, or with nothing to handle.
ReceiveHook(h) ==
    /\ caller[h].pc = "idle"
    /\ \/ \E k \in HookKeys : Record(k) /\ caller' = [caller EXCEPT ![h].pc = "run"]
       \/ caller' = [caller EXCEPT ![h].pc = "merge"] /\ UNCHANGED <<keys, starts>>
    /\ UNCHANGED <<arrived, keyOf, confirmed, file, begun, finished, newest, disturbed,
                   listenerFaults>>

RunAgent(c) ==
    /\ caller[c].pc = "run"
    /\ IF c \in Ticks
         THEN /\ finished' = finished \cup {caller[c].next}
              /\ caller' = [caller EXCEPT ![c].pc = "handle", ![c].next = @ + 1]
         ELSE caller' = [caller EXCEPT ![c].pc = "merge"] /\ UNCHANGED finished
    /\ UNCHANGED <<arrived, keyOf, confirmed, file, keys, begun, starts, newest, disturbed,
                   listenerFaults>>

PassAllButOne(t) ==
    /\ caller[t].pc = "handle" /\ caller[t].next > caller[t].last
    /\ caller' = [caller EXCEPT ![t].pc = "merge",
                    ![t].offset = IF caller[t].last > @ THEN caller[t].last ELSE @]
    /\ UNCHANGED <<arrived, keyOf, confirmed, file, keys, listenerHistory>>

\* All updates are handled: the offset moves past the last.
PassBatch(t) ==
    /\ caller[t].pc = "handle" /\ caller[t].next > caller[t].last
    /\ caller' = [caller EXCEPT ![t].pc = "merge",
                    ![t].offset = IF caller[t].last >= @ /\ caller[t].last > 0
                                    THEN caller[t].last + 1 ELSE @]
    /\ UNCHANGED <<arrived, keyOf, confirmed, file, keys, listenerHistory>>

\* The events are appended to a state that is read again.
MergeEvents(c) ==
    /\ caller[c].pc = "merge"
    /\ caller' = [caller EXCEPT ![c].pc = "merged", ![c].copy = OffsetIn(file)]
    /\ disturbed' = (disturbed \/ (file = Torn /\ newest > 0))
    /\ UNCHANGED <<arrived, keyOf, confirmed, file, keys, begun, finished, starts, newest,
                   listenerFaults>>

\* write_text empties the file and then writes it.
OpenState(c) ==
    /\ \/ caller[c].pc = "merged" /\ caller' = [caller EXCEPT ![c].pc = "merging"]
       \/ caller[c].pc = "save" /\ caller' = [caller EXCEPT ![c].pc = "saving"]
    /\ file' = Torn
    /\ UNCHANGED <<arrived, keyOf, confirmed, keys, listenerHistory>>

\* Over what another has written meanwhile the text may end in a rest of it.
WriteOffset(n) ==
    /\ \/ file' = n
       \/ file # Torn /\ file' = Torn
    /\ newest' = IF n > newest THEN n ELSE newest
    /\ disturbed' = (disturbed \/ file' = Torn \/ n < newest)

WriteState(c) ==
    /\ \/ /\ caller[c].pc = "merging"
          /\ WriteOffset(caller[c].copy)
          /\ caller' = [caller EXCEPT ![c] = IF c \in Ticks THEN [@ EXCEPT !.pc = "save"]
                                             ELSE Rest]
       \/ /\ caller[c].pc = "saving"
          /\ WriteOffset(caller[c].offset)
          /\ caller' = [caller EXCEPT ![c] = Rest]
    /\ UNCHANGED <<arrived, keyOf, confirmed, keys, begun, finished, starts, listenerFaults>>

BreakPast(c) ==
    /\ c \in Ticks /\ caller[c].pc = "run" /\ listenerFaults < MaxFaults
    /\ caller' = [caller EXCEPT ![c].pc = "handle", ![c].next = @ + 1]
    /\ disturbed' = TRUE
    /\ listenerFaults' = listenerFaults + 1
    /\ UNCHANGED <<arrived, keyOf, confirmed, file, keys, begun, finished, starts, newest>>

\* What the request calls raises, or its process is killed.
Break(c) ==
    /\ caller[c].pc \notin {"idle", "absent"} /\ listenerFaults < MaxFaults
    /\ caller' = [caller EXCEPT ![c] = Rest]
    /\ disturbed' = TRUE
    /\ listenerFaults' = listenerFaults + 1
    /\ UNCHANGED <<arrived, keyOf, confirmed, file, keys, begun, finished, starts, newest>>

Finishing(c) == RunAgent(c) \/ MergeEvents(c) \/ OpenState(c) \/ WriteState(c)
Working(t) == \/ Poll(t) \/ SkipUpdate(t) \/ StartUpdate(t) \/ RefuseUpdate(t)
              \/ PassBatch(t) \/ Finishing(t)

ListenerNext ==
    \/ Arrive
    \/ \E t \in Ticks : LoadState(t) \/ LoadOther(t) \/ LosePoll(t) \/ Working(t)
    \/ \E h \in Hooks : ReceiveHook(h) \/ Finishing(h)
    \/ \E c \in Callers : Break(c)

\* The threads run, and a client asks for Telegram again and again.
ListenerFairness ==
    /\ \A t \in Ticks : WF_listenerVars(Working(t)) /\ SF_listenerVars(LoadState(t))
    /\ \A h \in Hooks : WF_listenerVars(Finishing(h))

ListenerSpec == ListenerInit /\ [][ListenerNext]_listenerVars
ListenerFairSpec == ListenerSpec /\ ListenerFairness
-----------------------------------------------------------------------------
(* The type invariant: what each column and each local may hold. *)
ListenerTypeOK ==
    /\ arrived \in 0..MaxUpdates /\ confirmed \in 0..arrived
    /\ keyOf \in [Updates -> Keys \cup {Silent}]
    /\ file \in 0..arrived + 1 \cup {Torn} /\ newest \in 0..arrived + 1
    /\ keys \subseteq Keys
    /\ caller \in [Callers -> [pc     : {"idle", "poll", "handle", "run", "merge", "merged",
                                        "merging", "save", "saving", "absent"},
                               offset : 0..arrived + 1,
                               next   : 1..arrived + 1,
                               last   : 0..arrived,
                               copy   : 0..arrived + 1]]
    /\ begun \subseteq 1..arrived /\ finished \subseteq 1..arrived
    /\ starts \in [Keys -> Nat]
    /\ disturbed \in BOOLEAN /\ listenerFaults \in 0..MaxFaults

(***************************************************************************)
(* Safety, with requests that overlap, fail and are killed.                *)
(***************************************************************************)

\* Telegram forgets an update, and the state file passes one, only when it has
\* been handled to the end: whatever overlaps, is lost or dies, no message is
\* skipped (_poll_telegram: the offset moves behind the loop).
PassedIsFinished ==
    /\ 1..confirmed \subseteq finished
    /\ \A i \in 1..arrived : i < OffsetIn(file) => i \in finished

\* An update that comes again, a webhook that is retried, two ticks that poll the
\* same updates: the agent starts once for a message identifier (event_bus.py,
\* the key of cognitive_events).
MessagesStartOnce == \A k \in Keys : starts[k] <= 1

\* No message is skipped and none is answered twice (channel_listeners.py).
MessagesAreHandledOnce == PassedIsFinished /\ MessagesStartOnce

\* And more, step by step: updates are handled in the order in which they came, each
\* behind the start of the agent for its identifier (_poll_telegram, event_bus.py).
Contract == INSTANCE ChannelContract WITH
    forgotten <- confirmed,
    saved     <- OffsetIn(file)
ImplementsContract == Contract!Spec

\* An update whose identifier is taken and that no request works on any more,
\* in front of which no request is to save an offset.
Blocked(i) ==
    /\ i \in 1..arrived /\ keyOf[i] \in keys
    /\ confirmed < i /\ OffsetIn(file) <= i
    /\ \A c \in Callers : /\ caller[c].offset <= i /\ caller[c].copy <= i /\ caller[c].next <= i
                          /\ ~(c \in Ticks /\ caller[c].pc = "run" /\ caller[c].next = i)

\* Such an update blocks the channel for good: each poll begins in front of it
\* and raises at it, and what comes behind it is never handled.
BlockedForGood ==
    [][\A i \in Updates : Blocked(i) =>
            Blocked(i)' /\ \A j \in finished' \ finished : j < i]_listenerVars

(***************************************************************************)
(* Liveness.                                                               *)
(***************************************************************************)

\* As long as nothing fails, identifiers differ and no save overlaps another, the
\* listener again and again has handled all that arrived, also when two ticks poll
\* the same updates.
UpdatesAreHandled == []<>(disturbed \/ 1..arrived \subseteq finished)
=============================================================================
