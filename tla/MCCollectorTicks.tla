--------------------------- MODULE MCCollectorTicks ---------------------------
(***************************************************************************)
(* The two halves of a collector tick and the connections that collectors  *)
(* use, in one run: part says which of them a behaviour is about, the      *)
(* others stay in their initial states.  CollectorTick ends where          *)
(* CollectorLog begins, with the rows of collector_events, and shares no   *)
(* other state with it; ConnectorVault shares none with either.            *)
(***************************************************************************)
EXTENDS MCCollectorLog, CollectorTick, ConnectorVault, TLC

CONSTANTS t1, t2, t3

VARIABLE part

TicksInit == part \in {"log", "race", "tick", "turns", "vault"} /\ Init /\ TickInit /\ VaultInit

\* One tick and the bare one, with a fault or with a third event.
Alone ==
    /\ part = "log" /\ tick'[t2] = Idle
    /\ latest' < MaxSequence \/ faults' = 0

\* Two ticks over two events, which grow old together or not at all, the second when
\* memory is through with them.
Race ==
    /\ part = "race" /\ tick'[t3] = Idle
    /\ latest' <= 2 /\ aged' # 1 /\ faults' = 0
    /\ tick'[t1] = Idle \/ latest = 2
    /\ tick'[t2] = Idle \/ offset["memory"] = 2

\* Two ticks over two lines within two minutes, or one breaks within one; or one tick at
\* a time over three fit lines, so that a signature is forgotten.
Resting(r) == runner[r].pc = "idle"
Spool ==
    /\ TickNext
    /\ \/ part = "tick" /\ written' <= 2 /\ minute' <= 1 /\ (minute' = 0 \/ breaks' = 0)
       \/ /\ part = "turns" /\ breaks' = 0 /\ \A l \in 1..written' : lineOf'[l] # Poison
          /\ \A r, s \in Runners : r = s \/ Resting(r)' \/ Resting(s)'

\* An operation dies where one provider is connected.
Vault ==
    /\ part = "vault" /\ VaultNext
    /\ kills' = 0 \/ \A c \in 1..prepared' : codeOf'[c] = codeOf'[1]

TicksNext ==
    /\ UNCHANGED part
    /\ \/ Next /\ (Alone \/ Race) /\ UNCHANGED <<tickVars, vaultVars>>
       \/ Spool /\ UNCHANGED <<vars, vaultVars>>
       \/ Vault /\ UNCHANGED <<vars, tickVars>>

\* The type invariants of the components.
TicksTypeOK == TypeOK /\ TickTypeOK /\ VaultTypeOK

TicksSpec == TicksInit /\ [][TicksNext]_<<part, vars, tickVars, vaultVars>>

\* The ticks of CollectorTick are told apart by their names alone.
Symmetric == Permutations(Runners)
===============================================================================
