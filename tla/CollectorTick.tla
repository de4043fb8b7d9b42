---------------------------- MODULE CollectorTick ----------------------------
(***************************************************************************)
(* What a collector tick does before its consumers run                     *)
(* (collectors/manager.py run_collector_tick, collectors/bridge.py): it    *)
(* reads the lines that a native helper has appended to the collector's    *)
(* spool, passes each through the gates, stores those that pass in the     *)
(* event log and saves offset, signatures and rate counts in one JSON      *)
(* file.  Ticks come from the worker, from requests and from the command   *)
(* line, so they overlap, and each may raise or be killed.                 *)
(*                                                                         *)
(* One collector and one type of stimulus, without force; active_window    *)
(* and browser, which also dwell, are not meant.  Time passes in whole     *)
(* minutes.  CollectorLog has what becomes of the stored events.           *)
(***************************************************************************)
EXTENDS Naturals, FiniteSets

CONSTANTS
    Runners,       \* ticks that may be under way at once
    Sigs,          \* signatures of fit lines
    Junk,          \* a line that is no event
    Private,       \* an event that a privacy rule or a policy refuses
    Poison,        \* an event that the log refuses to validate
    Contents,      \* those of these that helpers write
    Broken,        \* a state file that cannot be parsed
    MaxRead,       \* events read per tick
    MaxStored,     \* events stored per tick
    RateLimit,     \* events stored per minute
    MaxKept,       \* signatures remembered
    MaxLines,      \* bound: lines written
    MaxMinutes,    \* bound: minutes
    MaxBreaks      \* bound: ticks that fail or are killed

Lines == 1..MaxLines

ASSUME TickConstants ==
    /\ Cardinality({Junk, Private, Poison}) = 3 /\ {Junk, Private, Poison} \cap Sigs = {}
    /\ Contents \subseteq Sigs \cup {Junk, Private, Poison}
    /\ MaxRead \in Nat \ {0} /\ MaxStored \in Nat \ {0} /\ RateLimit \in Nat \ {0}
    /\ MaxKept \in Nat \ {0}
    /\ MaxLines \in Nat /\ MaxMinutes \in Nat /\ MaxBreaks \in Nat

VARIABLES
    written,    \* number of lines in the spool
    lineOf,     \* what each line holds
    half,       \* the last line is written in part
    minute,     \* time
    stateFile,  \* collectors_state.json
    logged,     \* table collector_events: the lines stored
    runner,     \* locals of each tick
    \* what really happened, for the properties only
    refused,    \* why ticks have passed over a line
    perMinute,  \* lines stored in each minute
    breaks

tickHistory == <<refused, perMinute, breaks>>
tickVars == <<written, lineOf, half, minute, stateFile, logged, runner, tickHistory>>

\* The remembered signatures are those of the lines in sigs: a tick goes through the
\* spool in order, so what it has remembered first is the signature of the first line.
Blank == [offset |-> 0, sigs |-> {}, stamp |-> 0, count |-> 0]

Asleep == [pc     |-> "idle",
           st     |-> Blank,  \* the state it has loaded and works on
           batch  |-> {},     \* lines left to gate
           stored |-> 0]      \* events stored by this tick

TickInit ==
    /\ written = 0 /\ lineOf = [l \in Lines |-> Junk] /\ half = FALSE /\ minute = 0
    /\ stateFile = Blank /\ logged = {} /\ runner = [r \in Runners |-> Asleep]
    /\ refused = [l \in Lines |-> {}] /\ perMinute = [m \in 0..MaxMinutes |-> 0]
    /\ breaks = 0

\* append_bridge_event: a long line reaches the file in two writes.
AppendLine ==
    /\ ~half /\ written < MaxLines
    /\ written' = written + 1
    /\ \E x \in Contents : lineOf' = [lineOf EXCEPT ![written'] = x]
    /\ half' \in BOOLEAN
    /\ UNCHANGED <<minute, stateFile, logged, runner, tickHistory>>

FinishLine ==
    /\ half /\ half' = FALSE
    /\ UNCHANGED <<written, lineOf, minute, stateFile, logged, runner, tickHistory>>

PassMinute ==
    /\ minute < MaxMinutes /\ minute' = minute + 1
    /\ UNCHANGED <<written, lineOf, half, stateFile, logged, runner, tickHistory>>

LoadTick(r) ==
    /\ runner[r].pc = "idle"
    /\ runner' = [runner EXCEPT ![r] = [Asleep EXCEPT !.pc = "read",
                                       !.st = IF stateFile = Broken THEN Blank ELSE stateFile]]
    /\ UNCHANGED <<written, lineOf, half, minute, stateFile, logged, tickHistory>>

\* read_bridge_events: up to MaxRead events; the offset counts lines, also those
\* that are no event or not yet complete.
Legible(l) == lineOf[l] # Junk /\ ~(half /\ l = written)
Passed(r, n) == (runner[r].st.offset + 1)..n
ReadUpToJunk(r) ==
    CHOOSE n \in runner[r].st.offset..written :
        /\ \A l \in Passed(r, n) : Legible(l)
        /\ n = written \/ ~Legible(n + 1) \/ Cardinality(Passed(r, n)) = MaxRead
        /\ Cardinality(Passed(r, n)) <= MaxRead
ReadUpTo(r) ==
    CHOOSE n \in runner[r].st.offset..written :
        LET events == Cardinality({l \in Passed(r, n) : Legible(l)})
        IN  \/ n = written /\ events <= MaxRead
            \/ events = MaxRead /\ n > 0 /\ Legible(n)

ReadAndRemember(r) ==
    /\ runner[r].pc = "read"
    /\ LET events == {l \in Passed(r, ReadUpTo(r)) : Legible(l)}
       IN  runner' = [runner EXCEPT ![r].pc = "gate", ![r].st.offset = ReadUpTo(r), ![r].batch = events,
                                   ![r].st.sigs = @ \cup {l \in events : lineOf[l] \in Sigs}]
    /\ UNCHANGED <<written, lineOf, half, minute, stateFile, logged, tickHistory>>

ReadSpool(r) ==
    /\ runner[r].pc = "read"
    /\ LET read == Passed(r, ReadUpTo(r))
       IN  /\ runner' = [runner EXCEPT ![r].pc = "gate", ![r].st.offset = ReadUpTo(r),
                                   ![r].batch = {l \in read : Legible(l)}]
           /\ refused' = [l \in Lines |->
                            IF l \in read /\ ~Legible(l) THEN refused[l] \cup {"illegible"}
                            ELSE refused[l]]
    /\ UNCHANGED <<written, lineOf, half, minute, stateFile, logged, perMinute, breaks>>

FirstOf(S) == CHOOSE l \in S : \A k \in S : l <= k
Recent(st) == IF st.stamp = minute THEN st.count ELSE 0
FullLate(st) == Recent(st) > RateLimit
Full(st) == Recent(st) >= RateLimit

\* The gates, in the order of the code: Refusal is what the first one says.
Refusal(r, l) ==
    IF runner[r].stored >= MaxStored THEN "busy"
    ELSE IF lineOf[l] = Private THEN "private"
    ELSE IF \E k \in runner[r].st.sigs : lineOf[k] = lineOf[l] THEN "duplicate"
    ELSE IF Full(runner[r].st) THEN "busy"
    ELSE "none"

Gating(r, l) == runner[r].pc = "gate" /\ runner[r].batch # {} /\ l = FirstOf(runner[r].batch)

RefuseLine(r, l) ==
    /\ Gating(r, l) /\ Refusal(r, l) # "none"
    /\ runner' = [runner EXCEPT ![r].batch = @ \ {l}]
    /\ refused' = [refused EXCEPT ![l] = @ \cup {Refusal(r, l)}]
    /\ UNCHANGED <<written, lineOf, half, minute, stateFile, logged, perMinute, breaks>>

LastOf(S) == CHOOSE l \in S : \A k \in S : k <= l
Crowded(S) == Cardinality(S) > MaxKept

RememberedFree(st, l) == [st EXCEPT !.sigs = @ \cup {l}, !.stamp = minute]

RememberedFirst(st, l) ==
    LET now == st.sigs \cup {l}
    IN  [st EXCEPT !.sigs = IF Crowded(now) THEN now \ {LastOf(now)} ELSE now,
                   !.stamp = minute, !.count = Recent(st) + 1]

\* Of too many signatures the one remembered first is forgotten.  A line that is in the
\* log already is not inserted again, but counts.
Remembered(st, l) ==
    LET now == st.sigs \cup {l}
    IN  [st EXCEPT !.sigs = IF Crowded(now) THEN now \ {FirstOf(now)} ELSE now,
                   !.stamp = minute, !.count = Recent(st) + 1]

DropLine(r, l) ==
    /\ Gating(r, l) /\ Refusal(r, l) = "none" /\ lineOf[l] # Poison
    /\ runner' = [runner EXCEPT ![r].batch = @ \ {l}]
    /\ UNCHANGED <<written, lineOf, half, minute, stateFile, logged, tickHistory>>

StoreLine(r, l) ==
    /\ Gating(r, l) /\ Refusal(r, l) = "none" /\ lineOf[l] # Poison
    /\ logged' = logged \cup {l}
    /\ perMinute' = IF l \in logged THEN perMinute ELSE [perMinute EXCEPT ![minute] = @ + 1]
    /\ runner' = [runner EXCEPT ![r].batch = @ \ {l}, ![r].stored = @ + 1,
                            ![r].st = Remembered(@, l)]
    /\ UNCHANGED <<written, lineOf, half, minute, stateFile, refused, breaks>>

RejectAndSave(r, l) ==
    /\ Gating(r, l) /\ Refusal(r, l) = "none" /\ lineOf[l] = Poison
    /\ runner' = [runner EXCEPT ![r].batch = @ \ {l}]
    /\ UNCHANGED <<written, lineOf, half, minute, stateFile, logged, tickHistory>>

\* validate_envelope_record raises through the whole tick: nothing is saved.
RejectLine(r, l) ==
    /\ Gating(r, l) /\ Refusal(r, l) = "none" /\ lineOf[l] = Poison
    /\ runner' = [runner EXCEPT ![r] = Asleep]
    /\ UNCHANGED <<written, lineOf, half, minute, stateFile, logged, tickHistory>>

\* After the consumers the state is written: the file is emptied and then filled.
OpenFile(r) ==
    /\ runner[r].pc = "gate" /\ runner[r].batch = {}
    /\ runner' = [runner EXCEPT ![r].pc = "write"]
    /\ stateFile' = Broken
    /\ UNCHANGED <<written, lineOf, half, minute, logged, tickHistory>>

\* Over what another has filled in meanwhile the text may end in a rest of it.
FillFile(r) ==
    /\ runner[r].pc = "write"
    /\ \/ stateFile' = runner[r].st
       \/ stateFile # Broken /\ stateFile' = Broken
    /\ runner' = [runner EXCEPT ![r] = Asleep]
    /\ UNCHANGED <<written, lineOf, half, minute, logged, tickHistory>>

BreakTick(r) ==
    /\ runner[r].pc # "idle" /\ breaks < MaxBreaks
    /\ runner' = [runner EXCEPT ![r] = Asleep]
    /\ breaks' = breaks + 1
    /\ UNCHANGED <<written, lineOf, half, minute, stateFile, logged, refused, perMinute>>

RunnerStep(r) ==
    \/ LoadTick(r) \/ ReadSpool(r) \/ OpenFile(r) \/ FillFile(r)
    \/ \E l \in Lines : RefuseLine(r, l) \/ StoreLine(r, l) \/ RejectLine(r, l)

TickNext ==
    \/ AppendLine \/ FinishLine \/ PassMinute
    \/ \E r \in Runners : RunnerStep(r) \/ BreakTick(r)

\* The worker ticks for ever: some tick moves on.
TickFairness == WF_tickVars(\E r \in Runners : RunnerStep(r))

TickSpec == TickInit /\ [][TickNext]_tickVars
-----------------------------------------------------------------------------
(* The type invariant: what the file, the log and the locals may hold. *)
TickStates == [offset : 0..written, sigs : SUBSET (1..written), stamp : 0..minute,
               count : 0..RateLimit]
Reasons == {"illegible", "private", "duplicate", "busy"}

TickTypeOK ==
    /\ written \in 0..MaxLines /\ half \in BOOLEAN /\ minute \in 0..MaxMinutes
    /\ lineOf \in [Lines -> Sigs \cup {Junk, Private, Poison}]
    /\ stateFile \in TickStates \cup {Broken}
    /\ logged \subseteq 1..written
    /\ runner \in [Runners -> [pc : {"idle", "read", "gate", "write"}, st : TickStates,
                             batch : SUBSET (1..written), stored : 0..MaxStored]]
    /\ refused \in [Lines -> SUBSET Reasons]
    /\ perMinute \in [0..MaxMinutes -> Nat]
    /\ breaks \in 0..MaxBreaks

(***************************************************************************)
(* Safety.                                                                 *)
(***************************************************************************)

Judged(l) == l \in logged \/ refused[l] # {}

\* Whatever overlaps, raises or dies, the saved offset passes no line that has
\* neither been stored nor been refused by a gate (manager.py: the offset moves in
\* memory before the gates and in the file behind them).
PassedIsJudged ==
    stateFile # Broken =>
        \A l \in 1..stateFile.offset : Judged(l)

\* A line is refused as a duplicate only when a line of its signature is in the log:
\* a tick that fails after remembering a signature leaves no trace of it.
DuplicatesAreStored ==
    \A l \in Lines : "duplicate" \in refused[l] =>
        \E k \in logged : lineOf[k] = lineOf[l]

\* Every line behind the offset is accounted for, by the log or by a gate that was
\* right (bridge.py, manager.py).
LinesAreAccountedFor == PassedIsJudged /\ DuplicatesAreStored

\* Stored by one tick, but refused by another, which had no budget for it, read half of
\* it or still knew its signature.
Belated(l) == l \in logged /\ refused[l] # {}

\* As many other signatures as are remembered were stored between the two lines.
Enough(S, k) == Cardinality({lineOf[m] : m \in S} \ {lineOf[k]}) >= MaxKept
Forgotten(k, l) == Enough({m \in logged : k < m /\ m < l}, k)

\* A tick that is killed or raises after it stored a line, and a tick that reads the
\* lines of another, store them again, which inserts nothing.  Two lines of one
\* signature are both in the log only when the earlier one is belated or forgotten: the
\* state file may be emptied, damaged or overwritten with an older one, but offset,
\* signatures and counts go back together, and the lines behind the offset are judged
\* again.
SignaturesStoredOnce ==
    \A k, l \in logged : k < l /\ lineOf[k] = lineOf[l] => Belated(k) \/ Forgotten(k, l)

\* Unless some line is belated the budget of a minute is kept.
BudgetIsKept ==
    \A m \in 0..MaxMinutes :
        perMinute[m] <= RateLimit \/ \E l \in logged : Belated(l)

\* The gates let nothing through that they have let through before, and not more
\* than they may (policies/dedupe.py, rate_limits.py).
GatesHold == SignaturesStoredOnce /\ BudgetIsKept

\* A line that the log refuses, once it is the next to be read with budget left and
\* no tick is past it, holds the collection up for good: each tick raises at it and
\* saves nothing.
Stuck(l) ==
    /\ l <= written /\ lineOf[l] = Poison /\ ~(half /\ l = written)
    /\ stateFile # Broken /\ stateFile.offset = l - 1 /\ ~Full(stateFile)
    /\ \A r \in Runners :
        \/ runner[r].pc = "idle"
        \/ runner[r].pc = "read" /\ runner[r].st = stateFile
        \/ /\ runner[r].pc = "gate" /\ runner[r].stored = 0 /\ ~Full(runner[r].st)
           /\ l \in runner[r].batch /\ FirstOf(runner[r].batch) = l
PoisonHoldsForGood == [][\A l \in Lines : Stuck(l) => Stuck(l)' /\ logged' = logged]_tickVars

(***************************************************************************)
(* Liveness.                                                               *)
(***************************************************************************)

\* Again and again every line there is has been stored or refused, unless a line that
\* the log refuses stands before it or is the line itself.  Ticks that never cease to
\* overlap may prevent it: each reads the file that the other has just emptied, or
\* overwrites its offset.
Overlapping == \E r, s \in Runners : r # s /\ runner[r].pc # "idle" /\ runner[s].pc # "idle"
LinesAreJudged ==
    []<>(Overlapping \/ \A l \in 1..written : Judged(l) \/ \E k \in 1..l : lineOf[k] = Poison)
=============================================================================
