---------------------------- MODULE ConnectorVault ----------------------------
(***************************************************************************)
(* The connections to external applications (connectors/oauth.py,         *)
(* store.py, vault.py): authorizing a provider, refreshing its tokens and  *)
(* disconnecting it.  The row of a provider in connector_tokens says which *)
(* secrets it has; the secrets of all providers are in one file that each  *)
(* change reads, changes and writes again without a lock.  Requests and    *)
(* source collectors call these from threads and processes of their own.   *)
(*                                                                         *)
(* Access tokens are told apart no further than being there; refresh       *)
(* tokens are numbered, and the provider accepts the last one it issued.   *)
(* Secrets of clients, scopes and expiry times are left out.               *)
(***************************************************************************)
EXTENDS Naturals, Sequences

CONSTANTS
    Requests,       \* callers that may be under way at once
    Providers,
    Spoilt,         \* a secrets file that cannot be parsed
    MaxPrepared,    \* bound: authorizations prepared
    MaxIssued,      \* bound: refresh tokens that a provider issues
    MaxCalls,       \* bound: operations begun
    MaxKills        \* bound: operations that fail or are killed

Codes == 1..MaxPrepared

ASSUME VaultConstants ==
    /\ Providers # {} /\ "none" \notin Providers
    /\ MaxPrepared \in Nat /\ MaxIssued \in Nat /\ MaxCalls \in Nat /\ MaxKills \in Nat

VARIABLES
    prepared,  \* number of authorizations prepared
    codeOf,    \* the provider of each
    states,    \* table connector_oauth_states
    row,       \* table connector_tokens: "none", "bare" or "full", with a refresh token
    vault,     \* secrets.json
    request,   \* locals of each request, see Free
    \* the providers' side
    spent,     \* authorization codes that have been exchanged
    issued,    \* number of refresh tokens issued
    valid,     \* the refresh token that is accepted, 0 for none
    \* what really happened, for the properties only
    truth,     \* what the vault would hold had every change been one step
    shared,    \* providers of which two operations, not both a refresh, have overlapped
               \* since one began while no other was under way
    crossed,   \* those of which such two have overlapped and ...
    killed,    \* those of which an operation has failed half-way and no authorization on
               \* its own has made it good
    offline,   \* providers whose last authorization brought a refresh token
    orphaned,  \* providers whose refresh token stayed behind at a new authorization
    calls, kills

vaultHistory == <<truth, shared, crossed, killed, offline, orphaned, calls, kills>>
providerVars == <<spent, issued, valid>>
vaultVars == <<prepared, codeOf, states, row, vault, request, providerVars, vaultHistory>>

NoSecrets == [access |-> FALSE, refresh |-> 0]

Free == [pc   |-> "free",
         p    |-> "none",       \* the provider it works on
         code |-> 0,            \* the authorization it completes, 0 for none
         seen |-> "none",       \* the row it has read
         old  |-> 0,            \* the refresh token it presents
         got  |-> 0,            \* the refresh token of the answer, 0 for none
         todo |-> <<>>,         \* secrets left to set or to delete
         copy |-> NoSecrets]    \* what it has read from the vault

VaultInit ==
    /\ prepared = 0 /\ codeOf = [c \in Codes |-> CHOOSE p \in Providers : TRUE] /\ states = {}
    /\ row = [p \in Providers |-> "none"] /\ vault = [p \in Providers |-> NoSecrets]
    /\ request = [q \in Requests |-> Free]
    /\ spent = {} /\ issued = [p \in Providers |-> 0] /\ valid = [p \in Providers |-> 0]
    /\ truth = vault /\ shared = {} /\ crossed = {} /\ killed = {}
    /\ offline = {} /\ orphaned = {} /\ calls = 0 /\ kills = 0

PrepareAuthorization ==
    /\ prepared < MaxPrepared
    /\ prepared' = prepared + 1 /\ states' = states \cup {prepared'}
    /\ \E p \in Providers : codeOf' = [codeOf EXCEPT ![prepared'] = p]
    /\ UNCHANGED <<row, vault, request, providerVars, vaultHistory>>

Busy(p) == \E q \in Requests : request[q].p = p
Refreshes(locals) == locals.old # 0
Crosses(p, locals) ==
    \E r \in Requests : request[r].p = p /\ ~(Refreshes(locals) /\ Refreshes(request[r]))

Begin(q, p, locals) ==
    /\ request[q].pc = "free" /\ calls < MaxCalls
    /\ calls' = calls + 1
    /\ request' = [request EXCEPT ![q] = locals]
    /\ IF Crosses(p, locals)
         THEN shared' = shared \cup {p} /\ crossed' = crossed \cup {p}
         ELSE shared' = (IF Busy(p) THEN shared ELSE shared \ {p}) /\ UNCHANGED crossed
    /\ UNCHANGED <<prepared, codeOf, states, row, vault, providerVars, truth, killed,
                   offline, orphaned, kills>>

\* complete_authorization: the state is selected and then deleted.
SelectState(q, c) ==
    /\ c \in states
    /\ Begin(q, codeOf[c], [Free EXCEPT !.pc = "pop", !.p = codeOf[c], !.code = c])

PopState(q) ==
    /\ request[q].pc = "pop"
    /\ states' = states \ {request[q].code}
    /\ request' = [request EXCEPT ![q].pc = "exchange"]
    /\ UNCHANGED <<prepared, codeOf, row, vault, providerVars, vaultHistory>>

\* The row and then the secret: what another deletes in between, it deletes after
\* the row, so that reading both in one step loses nothing.
StartRefresh(q, p) ==
    /\ row[p] = "full" /\ vault # Spoilt /\ vault[p].refresh # 0
    /\ Begin(q, p, [Free EXCEPT !.pc = "exchange", !.p = p, !.seen = "full",
                                !.old = vault[p].refresh])

StartDisconnect(q, p) ==
    Begin(q, p, [Free EXCEPT !.pc = "drop", !.p = p, !.seen = row[p]])

\* The provider answers with an access token, and perhaps with a refresh token that
\* takes the place of the one before.
Issue(q, p, n) ==
    /\ issued' = [issued EXCEPT ![p] = n]
    /\ valid' = [valid EXCEPT ![p] = n]
    /\ request' = [request EXCEPT ![q].pc = "vault", ![q].got = n,
                                  ![q].todo = <<"access", "refresh">>]

Answer(q) ==
    LET p == request[q].p IN
    \/ issued[p] < MaxIssued /\ Issue(q, p, issued[p] + 1)
    \/ /\ request' = [request EXCEPT ![q].pc = "vault", ![q].todo = <<"access">>]
       /\ UNCHANGED <<issued, valid>>

ExchangeCode(q) ==
    /\ request[q].pc = "exchange" /\ request[q].code # 0 /\ request[q].code \notin spent
    /\ spent' = spent \cup {request[q].code}
    /\ Answer(q)
    /\ UNCHANGED <<prepared, codeOf, states, row, vault, vaultHistory>>

ExchangeRefresh(q) ==
    /\ request[q].pc = "exchange" /\ request[q].code = 0
    /\ request[q].old = valid[request[q].p]
    /\ Answer(q)
    /\ UNCHANGED <<prepared, codeOf, states, row, vault, spent, vaultHistory>>

Refused(q) ==
    /\ request[q].pc = "exchange"
    /\ IF request[q].code # 0 THEN request[q].code \in spent
       ELSE request[q].old # valid[request[q].p]
    /\ request' = [request EXCEPT ![q] = Free]
    /\ UNCHANGED <<prepared, codeOf, states, row, vault, providerVars, vaultHistory>>

ReadVaultRaw(q) ==
    /\ request[q].pc \in {"vault", "erase"} /\ request[q].todo # <<>>
    /\ request' = [request EXCEPT ![q].pc = IF @ = "vault" THEN "set" ELSE "delete",
                                  ![q].copy = vault]
    /\ UNCHANGED <<prepared, codeOf, states, row, vault, providerVars, vaultHistory>>

\* set_secret and delete_secret: read, change, empty the file, fill it.
ReadVault(q) ==
    /\ request[q].pc \in {"vault", "erase"} /\ request[q].todo # <<>>
    /\ request' = [request EXCEPT
                     ![q].pc = IF @ = "vault" THEN "set" ELSE "delete",
                     ![q].copy = IF vault = Spoilt THEN [p \in Providers |-> NoSecrets]
                                 ELSE vault]
    /\ UNCHANGED <<prepared, codeOf, states, row, vault, providerVars, vaultHistory>>

OpenVault(q) ==
    /\ request[q].pc \in {"set", "delete"}
    /\ request' = [request EXCEPT ![q].pc = IF @ = "set" THEN "setting" ELSE "deleting"]
    /\ vault' = Spoilt
    /\ UNCHANGED <<prepared, codeOf, states, row, providerVars, vaultHistory>>

\* What the first change to do makes of the secrets in v.
Changed(q, v) ==
    LET p == request[q].p
        value == IF request[q].pc = "deleting" THEN NoSecrets
                 ELSE [access |-> TRUE, refresh |-> request[q].got]
    IN  IF Head(request[q].todo) = "access" THEN [v EXCEPT ![p].access = value.access]
        ELSE [v EXCEPT ![p].refresh = value.refresh]

FillVault(q) ==
    /\ request[q].pc \in {"setting", "deleting"}
    /\ truth' = Changed(q, truth)
    /\ \/ vault' = Changed(q, request[q].copy)
       \/ vault # Spoilt /\ vault' = Spoilt
    /\ request' = [request EXCEPT
                     ![q].todo = Tail(@),
                     ![q].pc = IF @ = "setting" THEN "vault" ELSE "erase"]
    /\ UNCHANGED <<prepared, codeOf, states, row, providerVars, shared, crossed, killed,
                   offline, orphaned, calls, kills>>

SaveRowFirst(q) ==
    /\ request[q].pc = "vault"
    /\ LET p == request[q].p
           brought == request[q].got # 0
       IN  /\ row' = [row EXCEPT ![p] = IF brought THEN "full" ELSE "bare"]
           /\ request' = [request EXCEPT ![q] = Free]
           /\ offline' = IF request[q].code = 0 THEN offline
                         ELSE IF brought THEN offline \cup {p} ELSE offline \ {p}
    /\ UNCHANGED <<prepared, codeOf, states, vault, providerVars, truth, shared, crossed,
                   killed, orphaned, calls, kills>>

\* _save_token_from_response: the row after the secrets.
SaveRow(q) ==
    /\ request[q].pc = "vault" /\ request[q].todo = <<>>
    /\ LET p == request[q].p
           brought == request[q].got # 0
       IN  /\ row' = [row EXCEPT ![p] = IF brought THEN "full" ELSE "bare"]
           /\ request' = [request EXCEPT ![q] = IF @.code = 0 /\ ~brought
                                                THEN [@ EXCEPT !.pc = "keep"] ELSE Free]
           /\ offline' = IF request[q].code = 0 THEN offline
                         ELSE IF brought THEN offline \cup {p} ELSE offline \ {p}
           /\ orphaned' = IF brought THEN orphaned \ {p}
                          ELSE IF row[p] = "full" /\ request[q].code # 0
                          THEN orphaned \cup {p} ELSE orphaned
           /\ IF brought /\ request[q].code # 0 /\ p \notin shared
                THEN crossed' = crossed \ {p} /\ killed' = killed \ {p}
                ELSE UNCHANGED <<crossed, killed>>
    /\ UNCHANGED <<prepared, codeOf, states, vault, providerVars, truth, shared, calls, kills>>

KeepNothing(q) ==
    /\ request[q].pc = "keep"
    /\ request' = [request EXCEPT ![q] = Free]
    /\ UNCHANGED <<prepared, codeOf, states, row, vault, providerVars, vaultHistory>>

\* refresh_token: an answer without a refresh token leaves the old one in use.
KeepRefresh(q) ==
    /\ request[q].pc = "keep"
    /\ row' = [row EXCEPT ![request[q].p] = "full"]
    /\ request' = [request EXCEPT ![q] = Free]
    /\ UNCHANGED <<prepared, codeOf, states, vault, providerVars, vaultHistory>>

DropRowOnly(q) ==
    /\ request[q].pc = "drop"
    /\ row' = [row EXCEPT ![request[q].p] = "none"]
    /\ request' = [request EXCEPT ![q] = Free]
    /\ UNCHANGED <<prepared, codeOf, states, vault, providerVars, vaultHistory>>

\* disconnect: the row before the secrets that it had named.
DropRow(q) ==
    /\ request[q].pc = "drop"
    /\ row' = [row EXCEPT ![request[q].p] = "none"]
    /\ request' = [request EXCEPT ![q].pc = "erase",
                     ![q].todo = IF request[q].seen = "full" THEN <<"access", "refresh">>
                                 ELSE IF request[q].seen = "bare" THEN <<"access">> ELSE <<>>]
    /\ UNCHANGED <<prepared, codeOf, states, vault, providerVars, vaultHistory>>

Erased(q) ==
    /\ request[q].pc = "erase" /\ request[q].todo = <<>>
    /\ request' = [request EXCEPT ![q] = Free]
    /\ UNCHANGED <<prepared, codeOf, states, row, vault, providerVars, vaultHistory>>

KillRequest(q) ==
    /\ request[q].pc # "free" /\ kills < MaxKills
    /\ kills' = kills + 1
    /\ killed' = IF request[q].pc \in {"pop", "exchange", "drop"} THEN killed
                 ELSE killed \cup {request[q].p}
    /\ request' = [request EXCEPT ![q] = Free]
    /\ UNCHANGED <<prepared, codeOf, states, row, vault, providerVars, truth, shared, crossed,
                   offline, orphaned, calls>>

VaultStep(q) ==
    \/ \E c \in Codes : SelectState(q, c)
    \/ \E p \in Providers : StartRefresh(q, p) \/ StartDisconnect(q, p)
    \/ PopState(q) \/ ExchangeCode(q) \/ ExchangeRefresh(q) \/ Refused(q)
    \/ ReadVault(q) \/ OpenVault(q) \/ FillVault(q)
    \/ SaveRow(q) \/ KeepRefresh(q) \/ DropRow(q) \/ Erased(q) \/ KillRequest(q)

VaultNext == PrepareAuthorization \/ \E q \in Requests : VaultStep(q)

VaultSpec == VaultInit /\ [][VaultNext]_vaultVars
-----------------------------------------------------------------------------
(* The type invariant: what the tables, the file and the locals may hold. *)
Secrets == [Providers -> [access : BOOLEAN, refresh : 0..MaxIssued]]

VaultTypeOK ==
    /\ prepared \in 0..MaxPrepared /\ states \subseteq 1..prepared /\ spent \subseteq 1..prepared
    /\ codeOf \in [Codes -> Providers]
    /\ row \in [Providers -> {"none", "bare", "full"}]
    /\ vault \in Secrets \cup {Spoilt} /\ truth \in Secrets
    /\ issued \in [Providers -> 0..MaxIssued] /\ valid = issued
    /\ \A q \in Requests :
        /\ request[q].pc \in {"free", "pop", "exchange", "vault", "set", "setting", "keep",
                              "drop", "erase", "delete", "deleting"}
        /\ request[q].pc # "free" => request[q].p \in Providers
        /\ request[q].pc \in {"setting", "deleting"} => request[q].copy \in Secrets
    /\ shared \subseteq crossed /\ crossed \cup killed \subseteq Providers
    /\ calls \in 0..MaxCalls /\ kills \in 0..MaxKills

(***************************************************************************)
(* Safety, with operations of several providers that overlap and die.      *)
(***************************************************************************)

\* A write of another's has undone a change of the secrets of p, or made up for it
\* not yet: nobody locks the file.
Undone(p) == vault[p] # truth[p]

\* A connection that the tables report has its secrets: they are stored before the
\* row and erased after it, so no operation that dies half-way breaks this, only
\* operations on one provider that cross, or a vault write that undoes another's.
RowsHaveSecrets ==
    \A p \in Providers :
        row[p] # "none" /\ vault # Spoilt =>
            \/ vault[p].access /\ (row[p] = "full" => vault[p].refresh # 0)
            \/ Undone(p) \/ p \in crossed

\* An authorization for good stays one: the refresh token on file is the one that
\* the provider accepts, whatever it rotates, as long as no operation dies between
\* the answer and the second of the two rows that refresh_token saves.  Two
\* refreshes at once do no harm.
RefreshIsAccepted ==
    \A p \in offline :
        row[p] # "none" /\ vault # Spoilt /\ ~Busy(p) =>
            \/ row[p] = "full" /\ vault[p].refresh = valid[p]
            \/ Undone(p) \/ p \in crossed \cup killed

\* After a disconnect no secret of the provider is left, except for a refresh token
\* that a later authorization without one had left behind: no row names it any more,
\* so disconnect does not erase it.
DisconnectErases ==
    \A p \in Providers :
        row[p] = "none" /\ vault # Spoilt /\ ~Busy(p) =>
            \/ ~vault[p].access /\ (vault[p].refresh # 0 => p \in orphaned)
            \/ Undone(p) \/ p \in crossed \cup killed

\* Tables, secrets and provider tell the same of every connection (oauth.py,
\* store.py, vault.py).  Where operations have crossed or died, connecting anew makes
\* it good, if nothing crosses that and the provider sends a refresh token.
ConnectionsAreTrue == RowsHaveSecrets /\ RefreshIsAccepted /\ DisconnectErases
=============================================================================
