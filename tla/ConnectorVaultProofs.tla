------------------------- MODULE ConnectorVaultProofs -------------------------
(***************************************************************************)
(* Theorems about ConnectorVault, for any requests, any providers and any  *)
(* bounds.                                                                 *)
(***************************************************************************)
EXTENDS MCCollectorTicks, CollectorLogProofs, CollectorTickProofs

-----------------------------------------------------------------------------
(***************************************************************************)
(* The inductive invariant.                                                *)
(***************************************************************************)

Both == <<"access", "refresh">>
Todos == {Both, <<"access">>, <<"refresh">>, <<>>}
ToDo(s) == {Both, <<s>>}

OperationPCs == {"free", "pop", "exchange", "vault", "set", "setting", "keep", "drop", "erase",
                 "delete", "deleting"}
Copying == {"set", "setting", "delete", "deleting"}
Storing == {"vault", "set", "setting"}
Erasing == {"erase", "delete", "deleting"}

OperationLocals ==
    [pc : OperationPCs, p : Providers \cup {"none"}, code : 0..MaxPrepared,
     seen : {"none", "bare", "full"}, old : 0..MaxIssued, got : 0..MaxIssued,
     todo : Todos, copy : Secrets \cup {NoSecrets}]

TablesFit ==
    /\ prepared \in 0..MaxPrepared /\ states \subseteq 1..prepared /\ spent \subseteq 1..prepared
    /\ codeOf \in [Codes -> Providers]
    /\ row \in [Providers -> {"none", "bare", "full"}]
    /\ vault \in Secrets \cup {Spoilt} /\ truth \in Secrets
    /\ issued \in [Providers -> 0..MaxIssued] /\ valid = issued /\ offline \subseteq Providers
    /\ shared \subseteq crossed /\ crossed \cup killed \subseteq Providers
    /\ calls \in 0..MaxCalls /\ kills \in 0..MaxKills

\* What each kind of request has in its locals: one that completes an authorization has
\* its code, one that refreshes the old token, one that disconnects neither.
LocalsFit(q) ==
    LET l == request[q] IN
    /\ l.pc = "free" <=> l.p = "none"
    /\ l.code \in 0..prepared
    /\ l.pc = "pop" => l.code # 0
    /\ l.pc \in {"exchange", "keep"} \cup Storing => (l.code = 0 <=> l.old # 0)
    /\ l.pc = "keep" => l.old # 0
    /\ l.pc \in {"free", "pop", "drop"} \cup Erasing => l.old = 0
    /\ l.pc \in {"free", "drop"} \cup Erasing => l.code = 0
    /\ l.pc \notin Storing => l.got = 0
    /\ l.pc \in Storing => /\ l.got = 0 => l.todo \in {<<"access">>, <<>>}
                           /\ l.got # 0 => l.todo \in {Both, <<"refresh">>, <<>>}
    /\ l.pc \in Copying => l.todo # <<>> /\ l.copy \in Secrets

On(q, p) == request[q].p = p

\* Only refreshes overlap.
OneKind(p) == \A q, r \in Requests : q # r /\ On(q, p) /\ On(r, p) => Refreshes(request[q])

\* A row tells of secrets, which the provider has issued, and a request has stored what
\* it has done with.
RowIsBacked(p) ==
    /\ row[p] # "none" => truth[p].access /\ (row[p] = "full" => truth[p].refresh # 0)
    /\ truth[p].refresh <= valid[p]
Taken(l, p) ==
    /\ l.got <= valid[p]
    /\ l.old # 0 => row[p] # "none" /\ truth[p].refresh # 0
    /\ l.old # 0 /\ l.pc = "exchange" => l.old <= truth[p].refresh
    /\ l.pc \in Storing /\ l.todo \notin ToDo("access") => truth[p].access
    /\ l.pc \in Storing /\ l.got # 0 /\ l.todo \notin ToDo("refresh") => truth[p].refresh # 0
    /\ l.pc \in Erasing => row[p] = "none"
    /\ l.pc = "drop" => l.seen = row[p]
StepsAreTaken(p) == \A q \in Requests : On(q, p) => Taken(request[q], p)

\* At most one token has been issued and not yet stored, the last one.
Holding(q, p) ==
    On(q, p) /\ request[q].pc \in Storing /\ request[q].got # 0
             /\ request[q].todo \in ToDo("refresh")
OnePending(p) ==
    \A q \in Requests : Holding(q, p) =>
        /\ request[q].got = valid[p] /\ truth[p].refresh < valid[p]
        /\ \A r \in Requests : Holding(r, p) => r = q

\* The token on file is the valid one, or that is still to be stored.
TokenIsValid(p) ==
    \/ p \in offline /\ row[p] # "none"
    \/ \E q \in Requests : On(q, p) /\ request[q].got # 0
    => (truth[p].refresh = valid[p] \/ \E q \in Requests : Holding(q, p))

\* A row without the token, where there is one, is about to get it.
RowIsFull(p) ==
    row[p] = "bare" /\ (p \in offline \/ \E q \in Requests : On(q, p) /\ Refreshes(request[q]))
        => \E q \in Requests : On(q, p) /\ request[q].pc = "keep"

\* Secrets that no row tells of are being stored or erased, or were left behind.
AccessIsErased(p) ==
    row[p] = "none" /\ truth[p].access =>
        \E q \in Requests :
            On(q, p) /\ \/ request[q].pc \in Storing
                        \/ request[q].pc \in Erasing /\ request[q].todo \in ToDo("access")
RefreshIsErased(p) ==
    row[p] # "full" /\ truth[p].refresh # 0 =>
        p \in orphaned \/ \E q \in Requests :
            On(q, p) /\ \/ request[q].pc = "keep"
                        \/ request[q].pc \in Storing /\ request[q].got # 0
                        \/ request[q].pc \in Erasing /\ request[q].todo \in ToDo("refresh")

\* The first hold although operations die half-way, the others as long as none does.
InOrder(p) == OneKind(p) /\ RowIsBacked(p) /\ StepsAreTaken(p) /\ OnePending(p)
Whole(p) == TokenIsValid(p) /\ RowIsFull(p) /\ AccessIsErased(p) /\ RefreshIsErased(p)
Sound(p) == InOrder(p) /\ (p \notin killed => Whole(p))

\* The refresh token n of p is in the file or in a copy of it that is to be written, be
\* it out of date.  None is later than the last that was issued, and while nothing
\* has crossed none is later than the one that ought to be there.
OnFile(n, p) ==
    \/ vault # Spoilt /\ vault[p].refresh = n
    \/ \E q \in Requests : request[q].pc \in Copying /\ request[q].copy[p].refresh = n
Bounded(p) ==
    /\ \A n \in 0..MaxIssued : OnFile(n, p) => n <= valid[p]
    /\ \A q \in Requests : On(q, p) => request[q].got <= valid[p]
NoLaterToken(p) ==
    truth[p].refresh # 0 => \A n \in 0..MaxIssued : OnFile(n, p) => n <= truth[p].refresh

\* An authorization on its own has stored what it has done with, whatever was before.
Fresh(l, p) ==
    l.code # 0 /\ l.pc \in Storing =>
        /\ l.got # 0 => l.got = valid[p]
        /\ l.todo \notin ToDo("access") => truth[p].access
        /\ l.got # 0 /\ l.todo \notin ToDo("refresh") => truth[p].refresh = l.got
Anew(p) == \A q \in Requests : On(q, p) => Fresh(request[q], p)

\* What holds of a provider always, while nothing crosses on it, and if nothing has.
Going(p) ==
    /\ Bounded(p)
    /\ p \notin shared => OneKind(p) /\ Anew(p)
    /\ p \notin crossed => Sound(p) /\ NoLaterToken(p)

VaultInv ==
    /\ TablesFit /\ request \in [Requests -> OperationLocals] /\ \A q \in Requests : LocalsFit(q)
    /\ \A p \in Providers : Going(p)

LEMMA Facts ==
    ASSUME VaultInv, NEW q \in Requests
    PROVE  /\ request[q] \in OperationLocals /\ LocalsFit(q)
           /\ request \in [Requests -> OperationLocals]
           /\ request[q].p \in Providers \cup {"none"} /\ request[q].pc \in OperationPCs
           /\ request[q].pc # "free" => request[q].p \in Providers
           /\ request[q].todo \in Todos
           /\ request[q].old \in 0..MaxIssued /\ request[q].got \in 0..MaxIssued
           /\ row \in [Providers -> {"none", "bare", "full"}]
           /\ truth \in Secrets /\ valid \in [Providers -> 0..MaxIssued]
<1>1. /\ request[q] \in OperationLocals /\ request \in [Requests -> OperationLocals]
      /\ LocalsFit(q) /\ TablesFit
  BY DEF VaultInv
<1>2. request[q].p \in Providers \cup {"none"} /\ request[q].pc \in OperationPCs
  BY <1>1 DEF OperationLocals
<1>3. /\ request[q].todo \in Todos
      /\ request[q].old \in 0..MaxIssued /\ request[q].got \in 0..MaxIssued
  BY <1>1 DEF OperationLocals
<1>4. request[q].pc # "free" => request[q].p \in Providers
  BY <1>1, <1>2 DEF LocalsFit
<1>5. /\ row \in [Providers -> {"none", "bare", "full"}]
      /\ truth \in Secrets /\ valid \in [Providers -> 0..MaxIssued]
  BY <1>1 DEF TablesFit
<1> QED
  BY <1>1, <1>2, <1>3, <1>4, <1>5

LEMMA FreeFits ==
    Free \in OperationLocals /\ Free.pc = "free" /\ Free.p = "none" /\ Free.old = 0 /\ Free.got = 0
    /\ Free.code = 0
<1>1. NoSecrets \in Secrets \cup {NoSecrets} /\ <<>> \in Todos
  BY DEF Todos
<1>2. 0 \in 0..MaxPrepared /\ 0 \in 0..MaxIssued
  BY VaultConstants
<1> QED
  BY <1>1, <1>2 DEF Free, OperationLocals, OperationPCs

\* What the properties read of provider p stays.
Same(p) ==
    /\ row'[p] = row[p] /\ truth'[p] = truth[p] /\ valid'[p] = valid[p]
    /\ p \in offline' <=> p \in offline
    /\ p \in orphaned' <=> p \in orphaned

SameExcuses(p) ==
    /\ p \in shared' <=> p \in shared
    /\ p \in crossed' <=> p \in crossed
    /\ p \in killed' <=> p \in killed

\* No refresh token of p comes into the file or a copy of it.
FilesKept(p) == \A n \in 0..MaxIssued : OnFile(n, p)' => OnFile(n, p) \/ n = 0

\* Operations on one provider do not concern another.
LEMMA OthersStaySound ==
    ASSUME NEW p \in Providers, Sound(p), Same(p), p \in killed => p \in killed',
           \A r \in Requests :
              \/ ~On(r, p) /\ ~On(r, p)'
              \/ request'[r] = request[r]
    PROVE  Sound(p)'
<1>1. \A r \in Requests : (On(r, p)' <=> On(r, p)) /\ (On(r, p) => request'[r] = request[r])
  BY DEF On
<1>2. \A r \in Requests : Holding(r, p)' <=> Holding(r, p)
  BY <1>1 DEF Holding
<1>3. OneKind(p)' /\ RowIsBacked(p)' /\ StepsAreTaken(p)' /\ OnePending(p)'
  <2>1. OneKind(p)'
    BY <1>1 DEF Sound, InOrder, OneKind, Refreshes
  <2>2. RowIsBacked(p)'
    BY DEF Sound, InOrder, RowIsBacked, Same
  <2>3. StepsAreTaken(p)'
    BY <1>1 DEF Sound, InOrder, StepsAreTaken, Taken, Same
  <2>4. OnePending(p)'
    BY <1>1, <1>2 DEF Sound, InOrder, OnePending, Same, Holding
  <2> QED
    BY <2>1, <2>2, <2>3, <2>4
<1>4. ASSUME p \notin killed' PROVE Whole(p)'
  <2>1. Whole(p)
    BY <1>4 DEF Sound
  <2>3. TokenIsValid(p)'
    BY <1>1, <1>2, <2>1 DEF Whole, TokenIsValid, Same
  <2>4. RowIsFull(p)'
    BY <1>1, <2>1 DEF Whole, RowIsFull, Same, Refreshes
  <2>5. AccessIsErased(p)'
    BY <1>1, <2>1 DEF Whole, AccessIsErased, Same
  <2>6. RefreshIsErased(p)'
    BY <1>1, <2>1 DEF Whole, RefreshIsErased, Same
  <2> QED
    BY <2>3, <2>4, <2>5, <2>6 DEF Whole
<1> QED
  BY <1>3, <1>4 DEF Sound, InOrder

\* A change of what request q has copied, or the loss of the file, brings no token.
LEMMA FilesStay ==
    ASSUME VaultInv, NEW q \in Requests, NEW new,
           request' = [request EXCEPT ![q] = new], vault' \in {vault, Spoilt},
           new.pc \in Copying => request[q].pc \in Copying /\ new.copy = request[q].copy,
           NEW p \in Providers
    PROVE  FilesKept(p)
<1>1. /\ request'[q] = new
      /\ \A r \in Requests \ {q} : request'[r] = request[r]
  BY DEF VaultInv
<1> SUFFICES ASSUME NEW n \in 0..MaxIssued, OnFile(n, p)' PROVE OnFile(n, p)
  BY DEF FilesKept
<1>2. CASE vault' # Spoilt /\ vault'[p].refresh = n
  BY <1>2 DEF OnFile
<1>3. ASSUME NEW r \in Requests, request'[r].pc \in Copying, request'[r].copy[p].refresh = n
      PROVE  OnFile(n, p)
  <2>1. request[r].pc \in Copying /\ request[r].copy = request'[r].copy
    BY <1>1, <1>3
  <2> QED
    BY <1>3, <2>1 DEF OnFile
<1> QED
  BY <1>2, <1>3 DEF OnFile

\* A token that no row changes stays behind the one that ought to be there.
LEMMA NoneComesAhead ==
    ASSUME VaultInv, NEW p \in Providers, NoLaterToken(p), FilesKept(p),
           truth'[p].refresh = truth[p].refresh
    PROVE  NoLaterToken(p)'
<1>1. truth[p].refresh \in 0..MaxIssued
  BY DEF VaultInv, TablesFit, Secrets
<1>2. 0 <= truth[p].refresh
  BY <1>1, VaultConstants
<1> QED
  BY <1>2 DEF NoLaterToken, FilesKept

\* So a step of request q keeps the invariant when it keeps that of the provider of q.
LEMMA StepOfOne ==
    ASSUME VaultInv, NEW q \in Requests, NEW new \in OperationLocals,
           request' = [request EXCEPT ![q] = new],
           NEW at \in Providers, request[q].p \in {at, "none"},
           new.p = at \/ (request[q].p = at /\ new.p = "none" /\ shared' = shared),
           prepared' = prepared, TablesFit', LocalsFit(q)',
           \A p \in Providers \ {at} : Same(p) /\ SameExcuses(p) /\ FilesKept(p),
           Bounded(at)', at \notin shared' => OneKind(at)' /\ Fresh(new, at)',
           at \notin crossed' => Sound(at)' /\ NoLaterToken(at)'
    PROVE  VaultInv'
<1>1. request' \in [Requests -> OperationLocals] /\ request'[q] = new
      /\ \A r \in Requests \ {q} : request'[r] = request[r]
  BY DEF VaultInv
<1>2. \A r \in Requests : LocalsFit(r)'
  BY <1>1 DEF VaultInv, LocalsFit
<1>3. ASSUME NEW p \in Providers, p # at PROVE Going(p)'
  <2>1. Going(p) /\ Same(p) /\ SameExcuses(p) /\ FilesKept(p)
    BY <1>3 DEF VaultInv
  <2>2. \A r \in Requests : (~On(r, p) /\ ~On(r, p)') \/ request'[r] = request[r]
    BY <1>1, <1>3, VaultConstants DEF On
  <2>3. \A r \in Requests : (On(r, p)' <=> On(r, p)) /\ (On(r, p) => request'[r] = request[r])
    BY <2>2 DEF On
  <2>4. Bounded(p)'
    <3>1. valid[p] \in 0..MaxIssued /\ 0 <= valid[p] /\ valid'[p] = valid[p]
      BY <2>1, VaultConstants DEF VaultInv, TablesFit, Same
    <3> QED
      BY <2>1, <2>3, <3>1 DEF Going, Bounded, FilesKept
  <2>5. p \notin shared' => OneKind(p)' /\ Anew(p)'
    <3> SUFFICES ASSUME p \notin shared' PROVE OneKind(p)' /\ Anew(p)'
      OBVIOUS
    <3>1. OneKind(p) /\ Anew(p)
      BY <2>1 DEF Going, SameExcuses
    <3>2. OneKind(p)'
      BY <2>3, <3>1 DEF OneKind, Refreshes
    <3>3. Anew(p)'
      BY <2>1, <2>3, <3>1 DEF Anew, Fresh, Same
    <3> QED
      BY <3>2, <3>3
  <2>6. p \notin crossed' => Sound(p)' /\ NoLaterToken(p)'
    <3> SUFFICES ASSUME p \notin crossed' PROVE Sound(p)' /\ NoLaterToken(p)'
      OBVIOUS
    <3>1. Sound(p) /\ NoLaterToken(p)
      BY <2>1 DEF Going, SameExcuses
    <3>2. Sound(p)'
      BY <2>1, <2>2, <3>1, OthersStaySound DEF SameExcuses
    <3>3. truth'[p].refresh = truth[p].refresh
      BY <2>1 DEF Same
    <3> QED
      BY <2>1, <3>1, <3>2, <3>3, NoneComesAhead
  <2> QED
    BY <2>4, <2>5, <2>6 DEF Going
<1>4. Going(at)'
  <2>1. ASSUME at \notin shared' PROVE Anew(at)'
    <3> SUFFICES ASSUME NEW r \in Requests, On(r, at)' PROVE Fresh(request[r], at)'
      BY DEF Anew
    <3>1. CASE r = q
      BY <1>1, <2>1, <3>1
    <3>2. CASE r # q
      <4>1. request'[r] = request[r] /\ On(r, at)
        BY <1>1, <3>2 DEF On
      <4>2. request[r].old # 0
        <5>1. CASE new.p = at
          <6>1. On(q, at)'
            BY <1>1, <5>1 DEF On
          <6> QED
            BY <2>1, <3>2, <4>1, <6>1 DEF OneKind, Refreshes
        <5>2. CASE request[q].p = at /\ shared' = shared
          <6>1. OneKind(at) /\ On(q, at)
            BY <2>1, <5>2 DEF VaultInv, Going, On
          <6> QED
            BY <3>2, <4>1, <6>1 DEF OneKind, Refreshes
        <5> QED
          BY <5>1, <5>2
      <4> QED
        BY <4>1, <4>2, Facts DEF Fresh, LocalsFit
    <3> QED
      BY <3>1, <3>2
  <2> QED
    BY <2>1 DEF Going
<1> QED
  BY <1>1, <1>2, <1>3, <1>4 DEF VaultInv

\* A step in the midst of an operation, that crosses none and changes no refresh token
\* where it ought to be.
LEMMA StepWithin ==
    ASSUME VaultInv, NEW q \in Requests, NEW new \in OperationLocals,
           request' = [request EXCEPT ![q] = new],
           NEW at \in Providers, request[q].p = at,
           (new.p = at /\ new.old = request[q].old) \/ new.p = "none",
           prepared' = prepared, shared' = shared, crossed' = crossed, TablesFit', LocalsFit(q)',
           \A p \in Providers \ {at} : Same(p) /\ SameExcuses(p),
           \A p \in Providers : FilesKept(p),
           truth'[at].refresh = truth[at].refresh,
           valid[at] <= valid'[at], new.got <= valid'[at],
           at \notin shared /\ Fresh(request[q], at) => Fresh(new, at)',
           Sound(at) => Sound(at)'
    PROVE  VaultInv'
<1>1. /\ request'[q] = new /\ On(q, at)
      /\ \A r \in Requests \ {q} : request'[r] = request[r]
  BY DEF VaultInv, On
<1>2. Going(at) /\ FilesKept(at)
  BY DEF VaultInv
<1>3. \A r \in Requests : On(r, at)' => On(r, at) /\ request'[r].old = request[r].old
  BY <1>1, VaultConstants DEF On
<1>4. Bounded(at)'
  <2>1. valid[at] \in 0..MaxIssued /\ valid'[at] \in 0..MaxIssued
    BY DEF VaultInv, TablesFit
  <2>2. ASSUME NEW n \in 0..MaxIssued, OnFile(n, at)' PROVE n <= valid'[at]
    <3>1. n <= valid[at]
      BY <1>2, <2>1, <2>2, VaultConstants DEF Going, Bounded, FilesKept
    <3> QED
      BY <2>1, <3>1
  <2>3. ASSUME NEW r \in Requests, On(r, at)' PROVE request'[r].got <= valid'[at]
    <3>1. CASE r = q
      BY <1>1, <3>1
    <3>2. CASE r # q
      <4>1. request'[r] = request[r] /\ On(r, at)
        BY <1>1, <2>3, <3>2 DEF On
      <4>2. request[r].got <= valid[at] /\ request[r].got \in 0..MaxIssued
        BY <1>2, <4>1, Facts DEF Going, Bounded
      <4> QED
        BY <2>1, <4>1, <4>2
    <3> QED
      BY <3>1, <3>2
  <2> QED
    BY <2>2, <2>3 DEF Bounded
<1>5. at \notin shared' => OneKind(at)' /\ Fresh(new, at)'
  <2> SUFFICES ASSUME at \notin shared' PROVE OneKind(at)' /\ Fresh(new, at)'
    OBVIOUS
  <2>1. OneKind(at) /\ Anew(at)
    BY <1>2 DEF Going
  <2>2. OneKind(at)'
    BY <1>3, <2>1 DEF OneKind, Refreshes
  <2>3. Fresh(request[q], at)
    BY <1>1, <2>1 DEF Anew
  <2> QED
    BY <2>2, <2>3
<1>6. at \notin crossed' => Sound(at)' /\ NoLaterToken(at)'
  BY <1>2, NoneComesAhead DEF Going
<1> QED
  BY <1>4, <1>5, <1>6, StepOfOne

-----------------------------------------------------------------------------
(***************************************************************************)
(* Steps that leave the tables and the secrets as they are.                *)
(***************************************************************************)

TablesStay == UNCHANGED <<row, truth, valid, offline, orphaned, shared, crossed>>

\* The request goes on with what it has to do.
LEMMA GoesOn ==
    ASSUME VaultInv, NEW q \in Requests, NEW new \in OperationLocals, NEW l, l = request[q],
           request' = [request EXCEPT ![q] = new], l.pc # "free",
           TablesStay, killed' = killed, \A p \in Providers : FilesKept(p),
           prepared' = prepared, TablesFit', LocalsFit(q)',
           new.p = l.p, new.old = l.old, new.got = l.got, new.todo = l.todo, new.code = l.code,
           new.pc \in Storing <=> l.pc \in Storing, new.pc \in Erasing <=> l.pc \in Erasing,
           l.pc # "keep", new.pc # "keep", new.pc # "drop",
           new.pc = "exchange" => l.pc = "exchange" \/ l.old = 0
    PROVE  VaultInv'
<1>1. PICK p \in Providers : p = l.p
  BY Facts
<1>2. /\ request'[q] = new
      /\ \A r \in Requests \ {q} : request'[r] = request[r]
  BY DEF VaultInv
<1>3. ASSUME Sound(p) PROVE Sound(p)'
  <2>2. Sound(p) /\ p = l.p
    BY <1>1, <1>3
  <2>3. Same(p)
    BY DEF Same, TablesStay
  <2>4. \A r \in Requests : Holding(r, p)' <=> Holding(r, p)
    BY <1>2 DEF Holding, On
  <2>5. \A r \in Requests :
          /\ On(r, p)' <=> On(r, p)
          /\ request'[r].old = request[r].old /\ request'[r].got = request[r].got
          /\ request'[r].todo = request[r].todo
          /\ request'[r].pc \in Storing <=> request[r].pc \in Storing
          /\ request'[r].pc \in Erasing <=> request[r].pc \in Erasing
          /\ request'[r].pc = "keep" <=> request[r].pc = "keep"
          /\ request'[r].pc = "drop" => request'[r] = request[r]
          /\ request'[r].pc = "exchange" => request[r].pc = "exchange" \/ request[r].old = 0
    BY <1>2 DEF On
  <2>6. InOrder(p)'
    <3>1. OneKind(p)'
      BY <2>2, <2>5 DEF Sound, InOrder, OneKind, Refreshes
    <3>2. RowIsBacked(p)'
      BY <2>2, <2>3 DEF Sound, InOrder, RowIsBacked, Same
    <3>3. StepsAreTaken(p)'
      BY <2>2, <2>3, <2>5 DEF Sound, InOrder, StepsAreTaken, Taken, Same
    <3>4. OnePending(p)'
      BY <2>2, <2>3, <2>4, <2>5 DEF Sound, InOrder, OnePending, Same
    <3> QED
      BY <3>1, <3>2, <3>3, <3>4 DEF InOrder
  <2>7. ASSUME p \notin killed' PROVE Whole(p)'
    <3>1. Whole(p)
      BY <2>2, <2>7 DEF Sound
    <3>3. TokenIsValid(p)'
      BY <2>3, <2>4, <2>5, <3>1 DEF Whole, TokenIsValid, Same
    <3>4. RowIsFull(p)'
      BY <2>3, <2>5, <3>1 DEF Whole, RowIsFull, Same, Refreshes
    <3>5. AccessIsErased(p)'
      BY <2>3, <2>5, <3>1 DEF Whole, AccessIsErased, Same
    <3>6. RefreshIsErased(p)'
      BY <2>3, <2>5, <3>1 DEF Whole, RefreshIsErased, Same
    <3> QED
      BY <3>3, <3>4, <3>5, <3>6 DEF Whole
  <2> QED
    BY <2>6, <2>7 DEF Sound
<1>4. valid'[p] = valid[p] /\ valid[p] \in 0..MaxIssued /\ valid[p] <= valid[p]
  BY VaultConstants DEF TablesStay, VaultInv, TablesFit
<1>5. \A other \in Providers : Same(other) /\ SameExcuses(other)
  BY DEF Same, SameExcuses, TablesStay
<1>6. new.got <= valid'[p]
  BY <1>1, <1>4 DEF VaultInv, Going, Bounded, On
<1>7. Fresh(l, p) => Fresh(new, p)'
  BY <1>4 DEF Fresh, TablesStay
<1>8. shared' = shared /\ crossed' = crossed /\ truth' = truth
  BY DEF TablesStay
<1> QED
  BY <1>1, <1>3, <1>4, <1>5, <1>6, <1>7, <1>8, StepWithin

\* The request ends: nothing waited for it, or it is killed.
LEMMA Leaves ==
    ASSUME VaultInv, NEW q \in Requests, NEW l, l = request[q],
           request' = [request EXCEPT ![q] = Free], l.pc # "free",
           TablesStay, vault' = vault, prepared' = prepared, TablesFit',
           \/ killed' = killed \cup {l.p}
           \/ /\ killed' = killed /\ l.pc \notin Storing /\ l.pc # "keep"
              /\ l.pc \in Erasing => l.todo = <<>>
    PROVE  VaultInv'
<1>1. PICK p \in Providers : p = l.p
  BY Facts
<1>2. /\ request'[q] = Free
      /\ \A r \in Requests \ {q} : request'[r] = request[r]
  BY DEF VaultInv
<1>3. ASSUME Sound(p) PROVE Sound(p)'
  <2>2. Sound(p) /\ p = l.p /\ ~On(q, p)'
    BY <1>1, <1>2, <1>3, FreeFits, VaultConstants DEF On
  <2>3. Same(p)
    BY DEF Same, TablesStay
  <2>4. \A r \in Requests : On(r, p)' => On(r, p) /\ r # q /\ request'[r] = request[r]
    BY <1>2, <2>2 DEF On
  <2>5. InOrder(p)'
    <3>1. OneKind(p)'
      BY <2>2, <2>4 DEF Sound, InOrder, OneKind, Refreshes
    <3>2. RowIsBacked(p)'
      BY <2>2, <2>3 DEF Sound, InOrder, RowIsBacked, Same
    <3>3. StepsAreTaken(p)'
      BY <2>2, <2>3, <2>4 DEF Sound, InOrder, StepsAreTaken, Taken, Same
    <3>4. OnePending(p)'
      BY <2>2, <2>3, <2>4 DEF Sound, InOrder, OnePending, Holding, Same
    <3> QED
      BY <3>1, <3>2, <3>3, <3>4 DEF InOrder
  <2>6. ASSUME p \notin killed' PROVE Whole(p)'
    <3>1. Whole(p) /\ l.pc \notin Storing /\ l.pc # "keep" /\ (l.pc \in Erasing => l.todo = <<>>)
      BY <2>2, <2>6 DEF Sound
    <3>2. \A r \in Requests : On(r, p) /\ r # q => On(r, p)' /\ request'[r] = request[r]
      BY <1>2 DEF On
    <3>3. <<>> \notin ToDo("access") /\ <<>> \notin ToDo("refresh")
      BY DEF ToDo, Both
    <3>4. ~Holding(q, p) /\ ~Holding(q, p)'
      BY <2>2, <3>1 DEF Holding
    <3>5. \A r \in Requests : Holding(r, p)' <=> Holding(r, p)
      BY <2>4, <3>2, <3>4 DEF Holding
    <3>7. TokenIsValid(p)'
      BY <2>3, <2>4, <3>1, <3>5 DEF Whole, TokenIsValid, Same
    <3>8. RowIsFull(p)'
      BY <2>3, <2>4, <3>1, <3>2 DEF Whole, RowIsFull, Same, Refreshes
    <3>9. AccessIsErased(p)'
      <4>1. ~(l.pc \in Storing \/ (l.pc \in Erasing /\ l.todo \in ToDo("access")))
        BY <3>1, <3>3
      <4> QED
        BY <2>3, <3>1, <3>2, <4>1 DEF Whole, AccessIsErased, Same
    <3>10. RefreshIsErased(p)'
      <4>1. ~(\/ l.pc = "keep" \/ l.pc \in Storing
              \/ (l.pc \in Erasing /\ l.todo \in ToDo("refresh")))
        BY <3>1, <3>3
      <4> QED
        BY <2>3, <3>1, <3>2, <4>1 DEF Whole, RefreshIsErased, Same
    <3> QED
      BY <3>7, <3>8, <3>9, <3>10 DEF Whole
  <2> QED
    BY <2>5, <2>6 DEF Sound
<1>4. /\ valid'[p] = valid[p] /\ valid[p] \in 0..MaxIssued /\ valid[p] <= valid[p]
      /\ Free.got <= valid'[p]
  BY FreeFits, VaultConstants DEF TablesStay, VaultInv, TablesFit
<1>5. \A other \in Providers \ {p} : Same(other) /\ SameExcuses(other)
  BY <1>1 DEF Same, SameExcuses, TablesStay
<1>6. LocalsFit(q)'
  <2>1. 0 \in 0..prepared'
    BY VaultConstants DEF TablesFit
  <2> QED
    BY <1>2, <2>1, FreeFits DEF LocalsFit, Storing, Erasing, Copying
<1>7. \A other \in Providers : FilesKept(other)
  BY FreeFits, FilesStay DEF Copying
<1>8. shared' = shared /\ crossed' = crossed /\ truth' = truth
  BY DEF TablesStay
<1>9. Fresh(Free, p)'
  BY FreeFits DEF Fresh
<1> QED
  BY <1>1, <1>3, <1>4, <1>5, <1>6, <1>7, <1>8, <1>9, FreeFits, StepWithin

LEMMA RefusedKeepsInv ==
    ASSUME VaultInv, NEW q \in Requests, Refused(q) PROVE VaultInv'
<1>1. TablesFit'
  BY DEF Refused, VaultInv, TablesFit, providerVars, vaultHistory
<1> QED
  BY <1>1, Leaves DEF Refused, TablesStay, Storing, Erasing, providerVars, vaultHistory

LEMMA ErasedKeepsInv ==
    ASSUME VaultInv, NEW q \in Requests, Erased(q) PROVE VaultInv'
<1>1. TablesFit'
  BY DEF Erased, VaultInv, TablesFit, providerVars, vaultHistory
<1> QED
  BY <1>1, Leaves DEF Erased, TablesStay, Storing, Erasing, providerVars, vaultHistory

LEMMA KillRequestKeepsInv ==
    ASSUME VaultInv, NEW q \in Requests, KillRequest(q) PROVE VaultInv'
<1>1. TablesFit'
  <2>1. kills' \in 0..MaxKills
    BY VaultConstants DEF KillRequest, VaultInv, TablesFit
  <2>2. killed' \subseteq Providers
    BY Facts DEF KillRequest, VaultInv, TablesFit
  <2> QED
    BY <2>1, <2>2 DEF KillRequest, VaultInv, TablesFit, providerVars
<1> QED
  <2>1. \/ killed' = killed \cup {request[q].p}
        \/ killed' = killed /\ request[q].pc \in {"pop", "exchange", "drop"}
    BY DEF KillRequest
  <2> QED
    BY <1>1, <2>1, Leaves DEF KillRequest, TablesStay, Storing, Erasing, providerVars

LEMMA PopStateKeepsInv ==
    ASSUME VaultInv, NEW q \in Requests, PopState(q) PROVE VaultInv'
<1>1. TablesFit'
  BY DEF PopState, VaultInv, TablesFit, providerVars, vaultHistory
<1>2. PICK l \in OperationLocals : l = request[q]
  BY Facts
<1>3. PICK new : new = [l EXCEPT !.pc = "exchange"]
  OBVIOUS
<1>4. /\ new \in OperationLocals /\ new.p = l.p /\ new.old = l.old /\ new.got = l.got
      /\ new.todo = l.todo /\ new.pc = "exchange" /\ new.code = l.code /\ new.copy = l.copy
  BY <1>3 DEF OperationLocals, OperationPCs
<1>5. request' = [request EXCEPT ![q] = new]
  BY <1>2, <1>3, Facts DEF PopState
<1>6. l.pc = "pop" /\ LocalsFit(q) /\ l.old = 0
  BY <1>2, Facts DEF PopState, LocalsFit
<1>7. LocalsFit(q)'
  <2>1. request'[q] = new
    BY <1>5, Facts
  <2> QED
    BY <1>2, <1>4, <1>6, <2>1 DEF LocalsFit, Storing, Erasing, Copying, PopState
<1>8. \A p \in Providers : FilesKept(p)
  BY <1>4, <1>5, FilesStay DEF PopState, Copying
<1> QED
  BY <1>1, <1>2, <1>4, <1>5, <1>6, <1>7, <1>8, GoesOn
     DEF PopState, TablesStay, Storing, Erasing, providerVars, vaultHistory

LEMMA ReadVaultKeepsInv ==
    ASSUME VaultInv, NEW q \in Requests, ReadVault(q) PROVE VaultInv'
<1>1. TablesFit'
  BY DEF ReadVault, VaultInv, TablesFit, providerVars, vaultHistory
<1>2. PICK l \in OperationLocals : l = request[q]
  BY Facts
<1>3. PICK copy : copy = IF vault = Spoilt THEN [p \in Providers |-> NoSecrets] ELSE vault
  OBVIOUS
<1>4. copy \in Secrets
  <2>1. NoSecrets \in [access : BOOLEAN, refresh : 0..MaxIssued]
    BY VaultConstants DEF NoSecrets
  <2> QED
    BY <1>3, <2>1 DEF VaultInv, TablesFit, Secrets
<1>5. PICK pc \in OperationPCs : pc = IF l.pc = "vault" THEN "set" ELSE "delete"
  BY DEF OperationPCs
<1>6. PICK new : new = [l EXCEPT !.pc = pc, !.copy = copy]
  OBVIOUS
<1>7. /\ new \in OperationLocals /\ new.p = l.p /\ new.old = l.old /\ new.got = l.got
      /\ new.todo = l.todo /\ new.pc = pc /\ new.code = l.code /\ new.copy = copy
  BY <1>4, <1>5, <1>6 DEF OperationLocals
<1>8. request' = [request EXCEPT ![q] = new]
  BY <1>2, <1>3, <1>5, <1>6, Facts DEF ReadVault
<1>9. l.pc \in {"vault", "erase"} /\ l.todo # <<>> /\ LocalsFit(q)
  BY <1>2, Facts DEF ReadVault
<1>10. LocalsFit(q)'
  <2>1. request'[q] = new
    BY <1>8, Facts
  <2> QED
    BY <1>2, <1>4, <1>5, <1>7, <1>9, <2>1 DEF LocalsFit, Storing, Erasing, Copying, ReadVault
<1>11. /\ new.pc \in Storing <=> l.pc \in Storing
       /\ new.pc \in Erasing <=> l.pc \in Erasing
       /\ l.pc # "free" /\ l.pc # "keep" /\ new.pc \notin {"keep", "drop", "exchange"}
  BY <1>5, <1>7, <1>9 DEF Storing, Erasing
<1>12. TablesStay /\ killed' = killed /\ vault' = vault /\ prepared' = prepared
  BY DEF ReadVault, TablesStay, providerVars, vaultHistory
<1>13. ASSUME NEW p \in Providers PROVE FilesKept(p)
  <2> SUFFICES ASSUME NEW n \in 0..MaxIssued, OnFile(n, p)', n # 0 PROVE OnFile(n, p)
    BY DEF FilesKept
  <2>1. CASE vault' # Spoilt /\ vault'[p].refresh = n
    BY <1>12, <2>1 DEF OnFile
  <2>2. ASSUME NEW r \in Requests, request'[r].pc \in Copying, request'[r].copy[p].refresh = n
        PROVE  OnFile(n, p)
    <3>1. CASE r = q
      <4>1. copy[p].refresh = n
        BY <1>7, <1>8, <2>2, <3>1, Facts
      <4>2. vault # Spoilt
        BY <1>3, <4>1 DEF NoSecrets
      <4> QED
        BY <1>3, <4>1, <4>2 DEF OnFile
    <3>2. CASE r # q
      <4>1. request'[r] = request[r]
        BY <1>8, <3>2, Facts
      <4> QED
        BY <2>2, <4>1 DEF OnFile
    <3> QED
      BY <3>1, <3>2
  <2> QED
    BY <2>1, <2>2 DEF OnFile
<1> QED
  BY <1>1, <1>2, <1>7, <1>8, <1>10, <1>11, <1>12, <1>13, GoesOn

LEMMA OpenVaultKeepsInv ==
    ASSUME VaultInv, NEW q \in Requests, OpenVault(q) PROVE VaultInv'
<1>1. TablesFit'
  BY DEF OpenVault, VaultInv, TablesFit, providerVars, vaultHistory
<1>2. PICK l \in OperationLocals : l = request[q]
  BY Facts
<1>3. PICK pc \in OperationPCs : pc = IF l.pc = "set" THEN "setting" ELSE "deleting"
  BY DEF OperationPCs
<1>4. PICK new : new = [l EXCEPT !.pc = pc]
  OBVIOUS
<1>5. /\ new \in OperationLocals /\ new.p = l.p /\ new.old = l.old /\ new.got = l.got
      /\ new.todo = l.todo /\ new.pc = pc /\ new.code = l.code /\ new.copy = l.copy
  BY <1>3, <1>4 DEF OperationLocals
<1>6. request' = [request EXCEPT ![q] = new]
  BY <1>2, <1>3, <1>4, Facts DEF OpenVault
<1>7. l.pc \in {"set", "delete"} /\ LocalsFit(q)
  BY <1>2, Facts DEF OpenVault
<1>8. LocalsFit(q)'
  <2>1. request'[q] = new
    BY <1>6, Facts
  <2>2. new.copy \in Secrets
    BY <1>2, <1>5, <1>7 DEF LocalsFit, Copying
  <2> QED
    BY <1>2, <1>3, <1>5, <1>7, <2>1, <2>2 DEF LocalsFit, Storing, Erasing, Copying, OpenVault
<1> QED
  <2>1. /\ TablesStay /\ killed' = killed /\ prepared' = prepared
        /\ vault' \in {vault, Spoilt}
    BY DEF OpenVault, TablesStay, providerVars, vaultHistory
  <2>4. \A p \in Providers : FilesKept(p)
    BY <1>2, <1>5, <1>6, <1>7, <2>1, FilesStay DEF Copying
  <2>2. /\ l = request[q] /\ l.pc # "free" /\ l.pc # "keep"
        /\ new.pc # "keep" /\ new.pc # "drop" /\ new.pc # "exchange"
    BY <1>2, <1>3, <1>5, <1>7
  <2>3. (new.pc \in Storing <=> l.pc \in Storing) /\ (new.pc \in Erasing <=> l.pc \in Erasing)
    BY <1>3, <1>5, <1>7 DEF Storing, Erasing
  <2> QED
    BY <1>1, <1>2, <1>5, <1>6, <1>8, <2>1, <2>2, <2>3, <2>4, GoesOn

-----------------------------------------------------------------------------
(***************************************************************************)
(* Steps that begin an operation.                                          *)
(***************************************************************************)

LEMMA Begins ==
    ASSUME VaultInv, NEW q \in Requests, NEW p \in Providers, NEW new \in OperationLocals,
           Begin(q, p, new), new.p = p, new.got = 0, new.todo = <<>>,
           \/ new.pc = "pop" /\ new.code \in 1..prepared /\ new.old = 0
           \/ new.pc = "exchange" /\ new.code = 0 /\ new.old # 0
           \/ new.pc = "drop" /\ new.code = 0 /\ new.old = 0 /\ new.seen = row[p],
           new.old # 0 => /\ row[p] = "full"
                          /\ p \notin crossed =>
                                truth[p].refresh # 0 /\ new.old <= truth[p].refresh
    PROVE  VaultInv'
<1>1. TablesFit'
  <2>1. calls' \in 0..MaxCalls
    BY VaultConstants DEF Begin, VaultInv, TablesFit
  <2>2. shared' \subseteq crossed' /\ crossed' \subseteq Providers
    BY DEF Begin, VaultInv, TablesFit
  <2> QED
    BY <2>1, <2>2 DEF Begin, VaultInv, TablesFit, providerVars
<1>2. /\ request'[q] = new /\ request' = [request EXCEPT ![q] = new]
      /\ \A r \in Requests \ {q} : request'[r] = request[r]
  BY Facts DEF Begin
<1>3. request[q].p = "none" /\ request[q].pc = "free" /\ ~On(q, p) /\ On(q, p)'
  BY <1>2, Facts, VaultConstants DEF Begin, LocalsFit, On
<1>4. LocalsFit(q)' /\ prepared' = prepared
  <2>1. prepared' = prepared /\ prepared \in Nat
    BY VaultConstants DEF Begin, VaultInv, TablesFit
  <2>2. new.code \in 0..prepared'
    BY <2>1
  <2>3. new.code # 0 <=> new.pc = "pop"
    BY <2>1
  <2> QED
    BY <1>2, <2>1, <2>2, <2>3, VaultConstants DEF LocalsFit, Storing, Erasing, Copying
<1>5. Same(p) /\ vault' = vault /\ truth' = truth /\ killed' = killed
  BY DEF Begin, Same, providerVars
<1>6. ASSUME p \notin crossed', Sound(p) PROVE Sound(p)'
  <2>1. /\ \A r \in Requests : On(r, p) => Refreshes(new) /\ Refreshes(request[r])
        /\ p \notin crossed
    BY <1>6 DEF Begin, Crosses, On
  <2>2. \A r \in Requests : On(r, p)' => r = q \/ (On(r, p) /\ r # q /\ request'[r] = request[r])
    BY <1>2, <1>3 DEF On
  <2>3. \A r \in Requests : On(r, p) => On(r, p)' /\ r # q /\ request'[r] = request[r]
    BY <1>2, <1>3 DEF On
  <2>4. new.pc \notin Storing /\ new.pc \notin Erasing /\ new.pc # "keep"
    BY DEF Storing, Erasing
  <2>5. \A r \in Requests : Holding(r, p)' <=> Holding(r, p)
    BY <1>2, <1>3, <2>2, <2>3, <2>4 DEF Holding
  <2>6. InOrder(p)'
    <3>1. OneKind(p)'
      BY <1>2, <2>1, <2>2 DEF OneKind, Refreshes
    <3>2. RowIsBacked(p)'
      BY <1>5, <1>6 DEF Sound, InOrder, RowIsBacked, Same
    <3>3. StepsAreTaken(p)'
      <4> SUFFICES ASSUME NEW r \in Requests, On(r, p)' PROVE Taken(request[r], p)'
        BY DEF StepsAreTaken
      <4>1. CASE r = q
        <5>1. valid'[p] \in 0..MaxIssued
          BY <1>1 DEF TablesFit
        <5>2. 0 <= valid'[p]
          BY <5>1, VaultConstants
        <5> QED
          BY <1>2, <1>5, <1>6, <2>1, <2>4, <4>1, <5>2 DEF Taken, Same
      <4>2. CASE r # q
        <5>1. On(r, p) /\ request'[r] = request[r] /\ StepsAreTaken(p)
          BY <1>6, <2>2, <4>2 DEF Sound, InOrder
        <5> QED
          BY <1>5, <5>1 DEF StepsAreTaken, Taken, Same
      <4> QED
        BY <4>1, <4>2
    <3>4. OnePending(p)'
      BY <1>2, <1>3, <1>5, <1>6, <2>2, <2>4, <2>5
         DEF Sound, InOrder, OnePending, Same, Holding
    <3> QED
      BY <3>1, <3>2, <3>3, <3>4 DEF InOrder
  <2>7. ASSUME p \notin killed' PROVE Whole(p)'
    <3>1. Whole(p)
      BY <1>5, <1>6, <2>7 DEF Sound
    <3>3. TokenIsValid(p)'
      BY <1>2, <1>5, <2>2, <2>5, <3>1 DEF Whole, TokenIsValid, Same
    <3>4. RowIsFull(p)'
      <4> SUFFICES ASSUME row'[p] = "bare", NEW r \in Requests,
                          p \in offline' \/ (On(r, p)' /\ Refreshes(request'[r]))
                   PROVE  \E u \in Requests : On(u, p)' /\ request'[u].pc = "keep"
        BY DEF RowIsFull, Refreshes
      <4>1. p \in offline \/ (On(r, p) /\ Refreshes(request[r]))
        BY <1>2, <1>5, <2>2 DEF Same, Refreshes
      <4>2. PICK u \in Requests : On(u, p) /\ request[u].pc = "keep"
        BY <1>5, <3>1, <4>1 DEF Same, Whole, RowIsFull
      <4> QED
        BY <2>3, <4>2
    <3>5. AccessIsErased(p)'
      BY <1>5, <2>3, <3>1 DEF Whole, AccessIsErased, Same
    <3>6. RefreshIsErased(p)'
      BY <1>5, <2>3, <3>1 DEF Whole, RefreshIsErased, Same
    <3> QED
      BY <3>3, <3>4, <3>5, <3>6 DEF Whole
  <2> QED
    BY <2>6, <2>7 DEF Sound
<1>7. \A o \in Providers : FilesKept(o)
  <2>1. new.pc \notin Copying
    BY DEF Copying
  <2> QED
    BY <1>2, <1>5, <2>1, FilesStay
<1>8. \A o \in Providers \ {p} : Same(o) /\ SameExcuses(o)
  BY DEF Begin, Same, SameExcuses, providerVars
<1>9. Bounded(p)'
  <2>1. /\ \A n \in 0..MaxIssued : OnFile(n, p) => n <= valid[p]
        /\ \A r \in Requests : On(r, p) => request[r].got <= valid[p]
        /\ valid'[p] = valid[p] /\ 0 <= valid[p]
    BY <1>5, VaultConstants DEF VaultInv, TablesFit, Going, Bounded, Same
  <2>2. \A r \in Requests : On(r, p)' => r = q \/ (On(r, p) /\ request'[r] = request[r])
    BY <1>2 DEF On
  <2> QED
    BY <1>2, <1>7, <2>1, <2>2 DEF Bounded, FilesKept
<1>10. p \notin shared' => OneKind(p)' /\ Fresh(new, p)'
  <2> SUFFICES ASSUME p \notin shared' PROVE OneKind(p)' /\ Fresh(new, p)'
    OBVIOUS
  <2>1. \A r \in Requests : On(r, p) => Refreshes(new) /\ Refreshes(request[r])
    BY DEF Begin, Crosses, On
  <2>2. \A r \in Requests : On(r, p)' => r = q \/ (On(r, p) /\ request'[r] = request[r])
    BY <1>2 DEF On
  <2>3. OneKind(p)'
    BY <1>2, <2>1, <2>2 DEF OneKind, Refreshes
  <2>4. Fresh(new, p)'
    BY DEF Fresh, Storing
  <2> QED
    BY <2>3, <2>4
<1>11. p \notin crossed' => Sound(p)' /\ NoLaterToken(p)'
  <2>1. p \notin crossed' => p \notin crossed
    BY DEF Begin
  <2>2. p \notin crossed => Sound(p) /\ NoLaterToken(p)
    BY DEF VaultInv, Going
  <2> QED
    BY <1>5, <1>6, <1>7, <2>1, <2>2, NoneComesAhead
<1> QED
  BY <1>1, <1>2, <1>3, <1>4, <1>8, <1>9, <1>10, <1>11, <1>7, StepOfOne

LEMMA SelectStateKeepsInv ==
    ASSUME VaultInv, NEW q \in Requests, NEW c \in Codes, SelectState(q, c) PROVE VaultInv'
<1>1. codeOf[c] \in Providers
  BY DEF VaultInv, TablesFit
<1>2. PICK new : new = [Free EXCEPT !.pc = "pop", !.p = codeOf[c], !.code = c]
  OBVIOUS
<1>3. /\ new.pc = "pop" /\ new.p = codeOf[c] /\ new.code = c /\ new.old = 0 /\ new.got = 0
      /\ new.todo = <<>>
  BY <1>2 DEF Free
<1>4. new \in OperationLocals
  <2>1. c \in 0..MaxPrepared
    BY VaultConstants DEF Codes
  <2> QED
    BY <1>1, <1>2, <2>1, FreeFits DEF OperationLocals, OperationPCs
<1>5. c \in 1..prepared
  BY DEF SelectState, VaultInv, TablesFit
<1>6. Begin(q, codeOf[c], new)
  BY <1>2 DEF SelectState
<1> QED
  BY <1>1, <1>3, <1>4, <1>5, <1>6, Begins

LEMMA StartRefreshKeepsInv ==
    ASSUME VaultInv, NEW q \in Requests, NEW p \in Providers, StartRefresh(q, p) PROVE VaultInv'
<1>1. PICK n : n = vault[p].refresh
  OBVIOUS
<1>2. n \in 0..MaxIssued
  BY <1>1 DEF VaultInv, TablesFit, StartRefresh, Secrets
<1>3. PICK new : new = [Free EXCEPT !.pc = "exchange", !.p = p, !.seen = "full", !.old = n]
  OBVIOUS
<1>4. /\ new.pc = "exchange" /\ new.p = p /\ new.code = 0 /\ new.old = n /\ new.got = 0
      /\ new.todo = <<>>
  BY <1>3 DEF Free
<1>5. new \in OperationLocals
  BY <1>2, <1>3, FreeFits DEF OperationLocals, OperationPCs
<1>6. Begin(q, p, new) /\ row[p] = "full" /\ n # 0
  BY <1>1, <1>3 DEF StartRefresh
<1>7. OnFile(n, p)
  BY <1>1 DEF StartRefresh, OnFile
<1>8. ASSUME p \notin crossed PROVE truth[p].refresh # 0 /\ n <= truth[p].refresh
  <2>1. Sound(p) /\ NoLaterToken(p)
    BY <1>8 DEF VaultInv, Going
  <2>2. truth[p].refresh # 0
    BY <1>6, <2>1 DEF Sound, InOrder, RowIsBacked
  <2> QED
    BY <1>2, <1>7, <2>1, <2>2 DEF NoLaterToken
<1> QED
  BY <1>4, <1>5, <1>6, <1>8, Begins

LEMMA StartDisconnectKeepsInv ==
    ASSUME VaultInv, NEW q \in Requests, NEW p \in Providers, StartDisconnect(q, p)
    PROVE  VaultInv'
<1>1. PICK s : s = row[p]
  OBVIOUS
<1>2. s \in {"none", "bare", "full"}
  BY <1>1 DEF VaultInv, TablesFit
<1>3. PICK new : new = [Free EXCEPT !.pc = "drop", !.p = p, !.seen = s]
  OBVIOUS
<1>4. /\ new.pc = "drop" /\ new.p = p /\ new.code = 0 /\ new.old = 0 /\ new.got = 0
      /\ new.todo = <<>> /\ new.seen = s
  BY <1>3 DEF Free
<1>5. new \in OperationLocals
  BY <1>2, <1>3, FreeFits DEF OperationLocals, OperationPCs
<1>6. Begin(q, p, new)
  BY <1>1, <1>3 DEF StartDisconnect
<1> QED
  BY <1>1, <1>4, <1>5, <1>6, Begins

-----------------------------------------------------------------------------
(***************************************************************************)
(* The steps of an authorization and of a refresh.                         *)
(***************************************************************************)

\* The provider answers: a new token is the last one and is pending.
LEMMA AnswerKeepsInv ==
    ASSUME VaultInv, NEW q \in Requests, request[q].pc = "exchange", Answer(q),
           request[q].code = 0 => request[q].old = valid[request[q].p],
           spent' \subseteq 1..prepared,
           UNCHANGED <<prepared, codeOf, states, row, vault, vaultHistory>>
    PROVE  VaultInv'
<1>1. PICK l \in OperationLocals : l = request[q]
  BY Facts
<1>2. PICK p \in Providers : p = l.p
  BY <1>1, Facts
<1>3. /\ LocalsFit(q) /\ l.got = 0 /\ (l.code = 0 <=> l.old # 0) /\ TablesFit
      /\ l.old \in 0..MaxIssued /\ l.pc = "exchange" /\ On(q, p)
  <2>1. LocalsFit(q) /\ l.old \in 0..MaxIssued /\ TablesFit
    BY <1>1, Facts DEF VaultInv
  <2> QED
    BY <1>1, <1>2, <2>1 DEF LocalsFit, Storing, On
<1>4. valid \in [Providers -> 0..MaxIssued] /\ valid = issued /\ valid[p] \in 0..MaxIssued
      /\ truth[p].refresh \in 0..MaxIssued
  BY <1>3 DEF TablesFit, Secrets
<1>5. PICK n \in 0..MaxIssued, t \in Todos :
        \/ /\ n = valid[p] + 1 /\ t = Both /\ issued' = [issued EXCEPT ![p] = n]
           /\ valid' = [valid EXCEPT ![p] = n]
           /\ request' = [request EXCEPT ![q].pc = "vault", ![q].got = n, ![q].todo = t]
        \/ /\ n = 0 /\ t = <<"access">> /\ issued' = issued /\ valid' = valid
           /\ request' = [request EXCEPT ![q].pc = "vault", ![q].todo = t]
  <2>1. CASE issued[p] < MaxIssued /\ Issue(q, p, issued[p] + 1)
    <3>1. valid[p] + 1 \in 0..MaxIssued
      BY <1>4, <2>1, VaultConstants
    <3> QED
      BY <1>4, <2>1, <3>1 DEF Issue, Todos, Both
  <2>2. CASE /\ request' = [request EXCEPT ![q].pc = "vault", ![q].todo = <<"access">>]
             /\ UNCHANGED <<issued, valid>>
    <3>1. 0 \in 0..MaxIssued
      BY VaultConstants
    <3> QED
      BY <2>2, <3>1 DEF Todos
  <2> QED
    BY <1>1, <1>2, <2>1, <2>2 DEF Answer
<1>6. PICK new : new = [l EXCEPT !.pc = "vault", !.got = n, !.todo = t]
  OBVIOUS
<1>7. /\ new \in OperationLocals /\ new.p = p /\ new.old = l.old /\ new.got = n
      /\ new.todo = t /\ new.pc = "vault" /\ new.code = l.code /\ new.copy = l.copy
  BY <1>2, <1>6 DEF OperationLocals, OperationPCs
<1>8. request' = [request EXCEPT ![q] = new]
  <2>1. CASE n = valid[p] + 1
    <3>1. n # 0
      BY <1>4, <2>1
    <3> QED
      BY <1>1, <1>5, <1>6, <3>1, Facts
  <2>2. CASE n = 0
    <3>1. new = [l EXCEPT !.pc = "vault", !.todo = t]
      BY <1>3, <1>6, <2>2 DEF OperationLocals
    <3>2. valid[p] + 1 # 0
      BY <1>4
    <3> QED
      BY <1>1, <1>5, <2>2, <3>1, <3>2, Facts
  <2> QED
    BY <1>5, <2>1, <2>2
<1>9. /\ request'[q] = new
      /\ \A r \in Requests \ {q} : request'[r] = request[r]
  BY <1>8, Facts
<1>10. TablesFit'
  <2>1. issued' \in [Providers -> 0..MaxIssued] /\ valid' = issued'
    BY <1>3, <1>4, <1>5
  <2> QED
    BY <1>3, <2>1 DEF TablesFit, vaultHistory
<1>11. \/ n = 0 /\ t = <<"access">> /\ valid' = valid
       \/ n = valid[p] + 1 /\ n # 0 /\ t = Both /\ valid'[p] = n
          /\ \A o \in Providers \ {p} : valid'[o] = valid[o]
  BY <1>4, <1>5
<1>12. LocalsFit(q)'
  <2>1. new.pc \in Storing /\ new.pc \notin Erasing
    BY <1>7 DEF Storing, Erasing
  <2>2. l.code \in 0..prepared'
    BY <1>1, <1>3 DEF LocalsFit
  <2>3. new.got = 0 => new.todo \in {<<"access">>, <<>>}
    BY <1>7, <1>11
  <2>4. new.got # 0 => new.todo \in {Both, <<"refresh">>, <<>>}
    BY <1>7, <1>11
  <2> QED
    BY <1>3, <1>7, <1>9, <2>1, <2>2, <2>3, <2>4, VaultConstants DEF LocalsFit, Copying
<1>13. /\ row' = row /\ truth' = truth /\ offline' = offline /\ orphaned' = orphaned
       /\ shared' = shared /\ crossed' = crossed /\ killed' = killed /\ vault' = vault
  BY DEF vaultHistory
<1>14. ASSUME Sound(p) PROVE Sound(p)'
  <2>1. /\ \A r \in Requests : On(r, p)' <=> On(r, p)
        /\ "vault" \in Storing /\ "vault" \notin Erasing /\ "exchange" \notin Storing
        /\ "exchange" \notin Erasing
        /\ Both \in ToDo("access") /\ Both \in ToDo("refresh") /\ <<"access">> \in ToDo("access")
        /\ <<"access">> \notin ToDo("refresh")
    BY <1>1, <1>2, <1>7, <1>9 DEF On, Storing, Erasing, ToDo, Both
  <2>2. InOrder(p)
    BY <1>14 DEF Sound
  <2>3. OneKind(p)'
    BY <1>1, <1>7, <1>9, <2>1, <2>2 DEF InOrder, OneKind, Refreshes
  <2>4. truth[p].refresh <= valid[p] /\ valid[p] <= valid'[p] /\ n <= valid'[p]
        /\ valid'[p] \in 0..MaxIssued
    BY <1>4, <1>10, <1>11, <2>2 DEF InOrder, RowIsBacked, TablesFit
  <2>5. RowIsBacked(p)'
    BY <1>4, <1>13, <2>2, <2>4 DEF InOrder, RowIsBacked
  <2>6. StepsAreTaken(p)'
    <3> SUFFICES ASSUME NEW r \in Requests, On(r, p)' PROVE Taken(request[r], p)'
      BY DEF StepsAreTaken
    <3>1. Taken(request[r], p)
      BY <2>1, <2>2 DEF InOrder, StepsAreTaken
    <3>2. CASE r = q
      BY <1>1, <1>7, <1>9, <1>11, <1>13, <2>1, <2>4, <3>1, <3>2 DEF Taken
    <3>3. CASE r # q
      <4>1. request[r].got \in 0..MaxIssued /\ request'[r] = request[r]
        BY <1>9, <3>3, Facts
      <4>2. request[r].got <= valid'[p]
        BY <1>4, <2>4, <3>1, <4>1 DEF Taken
      <4> QED
        BY <1>13, <3>1, <4>1, <4>2 DEF Taken
    <3> QED
      BY <3>2, <3>3
  <2>7. \A r \in Requests \ {q} : Holding(r, p)' <=> Holding(r, p)
    BY <1>9 DEF Holding, On
  <2>8. ~Holding(q, p)
    BY <1>1, <1>3, <2>1 DEF Holding
  <2>9. Holding(q, p)' <=> n # 0
    BY <1>3, <1>7, <1>9, <1>11, <2>1 DEF Holding
  <2>10. ASSUME n # 0, NEW r \in Requests, Holding(r, p) PROVE FALSE
    <3>1. r # q /\ On(r, p) /\ truth[p].refresh < valid[p]
      BY <2>2, <2>8, <2>10 DEF Holding, InOrder, OnePending
    <3>2. l.old # 0
      BY <1>1, <1>3, <2>2, <3>1 DEF InOrder, OneKind, Refreshes
    <3>3. l.old <= truth[p].refresh /\ l.old = valid[p]
      BY <1>1, <1>2, <1>3, <2>2, <3>2 DEF InOrder, StepsAreTaken, Taken
    <3> QED
      BY <1>4, <3>1, <3>3
  <2>11. OnePending(p)'
    <3>1. CASE n = 0
      BY <1>9, <1>11, <1>13, <2>2, <2>7, <2>8, <2>9, <3>1 DEF InOrder, OnePending
    <3>2. CASE n # 0
      <4>1. \A r \in Requests : Holding(r, p)' => r = q
        BY <2>7, <2>10, <3>2
      <4>2. truth[p].refresh < valid'[p]
        BY <1>4, <1>11, <2>4, <3>2
      <4> QED
        BY <1>7, <1>9, <1>11, <1>13, <3>2, <4>1, <4>2 DEF OnePending
    <3> QED
      BY <3>1, <3>2
  <2>12. ASSUME p \notin killed' PROVE Whole(p)'
    <3>1. Whole(p)
      BY <1>13, <1>14, <2>12 DEF Sound
    <3>7. TokenIsValid(p)'
      <4>1. CASE n = 0
        <5>1. \A r \in Requests : On(r, p)' /\ request'[r].got # 0 => On(r, p) /\ request[r].got # 0
          BY <1>7, <1>9, <2>1, <4>1
        <5> QED
          BY <1>4, <1>11, <1>13, <2>7, <2>8, <3>1, <4>1, <5>1 DEF Whole, TokenIsValid
      <4>2. CASE n # 0
        BY <2>9, <4>2 DEF TokenIsValid
      <4> QED
        BY <4>1, <4>2
    <3>8. \A r \in Requests :
            /\ request'[r].old = request[r].old
            /\ request[r].pc = "keep" => request'[r].pc = "keep"
            /\ request[r].pc \in Storing \cup Erasing => request'[r] = request[r]
      BY <1>1, <1>3, <1>7, <1>9, <2>1
    <3>9. RowIsFull(p)'
      BY <1>13, <2>1, <3>1, <3>8 DEF Whole, RowIsFull, Refreshes
    <3>10. AccessIsErased(p)'
      BY <1>13, <2>1, <3>1, <3>8 DEF Whole, AccessIsErased
    <3>11. RefreshIsErased(p)'
      BY <1>13, <2>1, <3>1, <3>8 DEF Whole, RefreshIsErased
    <3> QED
      BY <3>7, <3>9, <3>10, <3>11 DEF Whole
  <2> QED
    BY <2>3, <2>5, <2>6, <2>11, <2>12 DEF Sound, InOrder
<1>15. \A o \in Providers \ {p} : Same(o) /\ SameExcuses(o)
  BY <1>11, <1>13 DEF Same, SameExcuses
<1>16. \A o \in Providers : FilesKept(o)
  BY <1>7, <1>8, <1>13, FilesStay DEF Copying
<1>17. valid[p] <= valid'[p] /\ new.got <= valid'[p]
  <2>1. valid'[p] \in 0..MaxIssued
    BY <1>10 DEF TablesFit
  <2> QED
    BY <1>4, <1>7, <1>11, <2>1
<1>18. Fresh(new, p)'
  <2>1. Both \in ToDo("access") /\ Both \in ToDo("refresh") /\ <<"access">> \in ToDo("access")
    BY DEF ToDo
  <2> QED
    BY <1>7, <1>11, <2>1 DEF Fresh
<1>19. prepared' = prepared
  OBVIOUS
<1> QED
  BY <1>1, <1>2, <1>7, <1>8, <1>10, <1>12, <1>13, <1>14, <1>15, <1>16, <1>17, <1>18, <1>19,
     StepWithin

LEMMA ExchangeCodeKeepsInv ==
    ASSUME VaultInv, NEW q \in Requests, ExchangeCode(q) PROVE VaultInv'
<1>1. spent \subseteq 1..prepared /\ prepared \in Nat
  BY VaultConstants DEF VaultInv, TablesFit
<1>2. request[q].code \in 0..prepared /\ request[q].code # 0
  BY Facts DEF ExchangeCode, LocalsFit
<1>3. spent' \subseteq 1..prepared
  <2>1. request[q].code \in 1..prepared
    BY <1>1, <1>2
  <2> QED
    BY <1>1, <2>1 DEF ExchangeCode
<1> QED
  BY <1>3, AnswerKeepsInv DEF ExchangeCode

LEMMA ExchangeRefreshKeepsInv ==
    ASSUME VaultInv, NEW q \in Requests, ExchangeRefresh(q) PROVE VaultInv'
<1>1. spent' \subseteq 1..prepared
  BY DEF ExchangeRefresh, VaultInv, TablesFit
<1> QED
  BY <1>1, AnswerKeepsInv DEF ExchangeRefresh

LEMMA KeepRefreshKeepsInv ==
    ASSUME VaultInv, NEW q \in Requests, KeepRefresh(q) PROVE VaultInv'
<1>1. PICK l \in OperationLocals : l = request[q]
  BY Facts
<1>2. PICK p \in Providers : p = l.p
  BY <1>1, Facts DEF KeepRefresh
<1>3. l.pc = "keep" /\ l.old # 0 /\ On(q, p)
  BY <1>1, <1>2, Facts DEF KeepRefresh, LocalsFit, On
<1>4. /\ request' = [request EXCEPT ![q] = Free] /\ request'[q] = Free
      /\ \A r \in Requests \ {q} : request'[r] = request[r]
  BY Facts DEF KeepRefresh
<1>5. /\ row' = [row EXCEPT ![p] = "full"] /\ row'[p] = "full"
      /\ \A o \in Providers \ {p} : row'[o] = row[o]
  BY <1>1, <1>2, Facts DEF KeepRefresh
<1>6. /\ truth' = truth /\ offline' = offline /\ orphaned' = orphaned /\ valid' = valid
      /\ shared' = shared /\ crossed' = crossed /\ killed' = killed /\ vault' = vault
      /\ prepared' = prepared
  BY DEF KeepRefresh, vaultHistory, providerVars
<1>7. TablesFit'
  BY <1>5 DEF KeepRefresh, VaultInv, TablesFit, vaultHistory, providerVars
<1>8. LocalsFit(q)'
  <2>1. 0 \in 0..prepared'
    BY <1>7, VaultConstants DEF TablesFit
  <2> QED
    BY <1>4, <2>1, FreeFits DEF LocalsFit, Storing, Erasing, Copying
<1>9. ASSUME Sound(p) PROVE Sound(p)'
  <2>1. ~On(q, p)'
    BY <1>4, FreeFits, VaultConstants DEF On
  <2>2. \A r \in Requests : On(r, p)' => r # q /\ On(r, p) /\ request'[r] = request[r]
    BY <1>4, <2>1 DEF On
  <2>3. \A r \in Requests : Holding(r, p)' <=> Holding(r, p)
    <3>1. ~Holding(q, p)
      BY <1>1, <1>3 DEF Holding, Storing
    <3> QED
      BY <1>4, <2>1, <3>1 DEF Holding, On
  <2>4. InOrder(p)
    BY <1>9 DEF Sound
  <2>5. OneKind(p)'
    BY <2>2, <2>4 DEF InOrder, OneKind
  <2>6. Taken(l, p)
    BY <1>1, <1>3, <2>4 DEF InOrder, StepsAreTaken
  <2>7. RowIsBacked(p)'
    BY <1>3, <1>5, <1>6, <2>4, <2>6 DEF InOrder, RowIsBacked, Taken
  <2>8. StepsAreTaken(p)'
    <3> SUFFICES ASSUME NEW r \in Requests, On(r, p)' PROVE Taken(request[r], p)'
      BY DEF StepsAreTaken
    <3>1. r # q /\ On(r, p) /\ request'[r] = request[r] /\ Taken(request[r], p)
      BY <2>2, <2>4 DEF InOrder, StepsAreTaken
    <3>2. request[r].old # 0
      BY <1>3, <2>4, <3>1 DEF InOrder, OneKind, Refreshes
    <3>3. request[r].pc \notin Erasing /\ request[r].pc # "drop"
      BY <3>2, Facts DEF LocalsFit
    <3> QED
      BY <1>5, <1>6, <3>1, <3>3 DEF Taken
  <2>9. OnePending(p)'
    BY <1>6, <2>2, <2>3, <2>4 DEF InOrder, OnePending, Holding
  <2>10. ASSUME p \notin killed' PROVE Whole(p)'
    <3>1. Whole(p)
      BY <1>6, <1>9, <2>10 DEF Sound
    <3>2. row[p] # "none"
      BY <1>3, <2>6 DEF Taken
    <3>3. TokenIsValid(p)'
      BY <1>6, <2>2, <2>3, <3>1, <3>2 DEF Whole, TokenIsValid
    <3> QED
      BY <1>5, <3>3 DEF Whole, RowIsFull, AccessIsErased, RefreshIsErased
  <2> QED
    BY <2>5, <2>7, <2>8, <2>9, <2>10 DEF Sound, InOrder
<1>10. \A o \in Providers \ {p} : Same(o) /\ SameExcuses(o)
  BY <1>5, <1>6 DEF Same, SameExcuses
<1>11. \A o \in Providers : FilesKept(o)
  BY <1>4, <1>6, FreeFits, FilesStay DEF Copying
<1>12. valid[p] <= valid'[p] /\ Free.got <= valid'[p]
  BY <1>6, FreeFits, VaultConstants DEF VaultInv, TablesFit
<1>13. Fresh(Free, p)'
  BY FreeFits DEF Fresh
<1> QED
  BY <1>1, <1>2, <1>4, <1>6, <1>7, <1>8, <1>9, <1>10, <1>11, <1>12, <1>13, FreeFits, StepWithin

LEMMA SaveRowKeepsInv ==
    ASSUME VaultInv, NEW q \in Requests, SaveRow(q) PROVE VaultInv'
<1>1. PICK l \in OperationLocals : l = request[q]
  BY Facts
<1>2. PICK p \in Providers : p = l.p
  BY <1>1, Facts DEF SaveRow
<1>3. /\ l.pc = "vault" /\ l.todo = <<>> /\ On(q, p) /\ (l.code = 0 <=> l.old # 0)
      /\ l.code \in 0..prepared
  BY <1>1, <1>2, Facts DEF SaveRow, LocalsFit, On, Storing
<1>4. PICK new : new = IF l.code = 0 /\ l.got = 0 THEN [l EXCEPT !.pc = "keep"] ELSE Free
  OBVIOUS
<1>5. /\ new \in OperationLocals /\ new.p \in {p, "none"} /\ new.pc \in {"keep", "free"}
      /\ new.pc = "keep" => /\ l.code = 0 /\ l.got = 0 /\ new.p = p /\ new.old = l.old
                            /\ new.code = 0 /\ new.got = 0
      /\ new.pc # "keep" => new = Free /\ ~(l.code = 0 /\ l.got = 0)
  BY <1>2, <1>4, FreeFits DEF OperationLocals, OperationPCs
<1>6. /\ request' = [request EXCEPT ![q] = new] /\ request'[q] = new
      /\ \A r \in Requests \ {q} : request'[r] = request[r]
  BY <1>1, <1>4, Facts DEF SaveRow
<1>7. /\ row' = [row EXCEPT ![p] = IF l.got # 0 THEN "full" ELSE "bare"]
      /\ row'[p] = IF l.got # 0 THEN "full" ELSE "bare"
      /\ \A o \in Providers \ {p} : row'[o] = row[o]
  BY <1>1, <1>2, Facts DEF SaveRow
<1>8. /\ offline' = IF l.code = 0 THEN offline
                    ELSE IF l.got # 0 THEN offline \cup {p} ELSE offline \ {p}
      /\ orphaned' = IF l.got # 0 THEN orphaned \ {p}
                     ELSE IF row[p] = "full" /\ l.code # 0 THEN orphaned \cup {p} ELSE orphaned
  BY <1>1, <1>2 DEF SaveRow
<1>9. /\ truth' = truth /\ valid' = valid /\ shared' = shared /\ vault' = vault
      /\ prepared' = prepared
      /\ IF l.got # 0 /\ l.code # 0 /\ p \notin shared
           THEN crossed' = crossed \ {p} /\ killed' = killed \ {p}
           ELSE crossed' = crossed /\ killed' = killed
  BY <1>1, <1>2 DEF SaveRow, providerVars
<1>10. TablesFit'
  <2>1. shared' \subseteq crossed' /\ crossed' \cup killed' \subseteq Providers
    BY <1>9 DEF VaultInv, TablesFit
  <2> QED
    BY <1>7, <1>8, <2>1 DEF SaveRow, VaultInv, TablesFit, providerVars
<1>11. LocalsFit(q)'
  <2>1. 0 \in 0..prepared'
    BY <1>10, VaultConstants DEF TablesFit
  <2>2. CASE new.pc = "keep"
    BY <1>3, <1>5, <1>6, <2>1, <2>2, VaultConstants DEF LocalsFit, Storing, Erasing, Copying
  <2>3. CASE new.pc # "keep"
    BY <1>5, <1>6, <2>1, <2>3, FreeFits DEF LocalsFit, Storing, Erasing, Copying
  <2> QED
    BY <2>2, <2>3
<1>12. ASSUME Sound(p), crossed' = crossed, killed' = killed PROVE Sound(p)'
  <2>1. <<>> \notin ToDo("access") /\ <<>> \notin ToDo("refresh")
    BY DEF ToDo, Both
  <2>2. "vault" \in Storing /\ "vault" \notin Erasing
    BY DEF Storing, Erasing
  <2>3. InOrder(p)
    BY <1>12 DEF Sound
  <2>4. Taken(l, p)
    BY <1>1, <1>3, <2>3 DEF InOrder, StepsAreTaken
  <2>5. truth[p].access /\ (l.got # 0 => truth[p].refresh # 0)
    BY <1>3, <2>1, <2>2, <2>4 DEF Taken
  <2>6. \A r \in Requests \ {q} : On(r, p) => request[r].old # 0 /\ l.old # 0
    BY <1>1, <1>3, <2>3 DEF InOrder, OneKind, Refreshes
  <2>7. \A r \in Requests \ {q} : (On(r, p)' <=> On(r, p)) /\ request'[r] = request[r]
    BY <1>6 DEF On
  <2>8. \A r \in Requests : Holding(r, p)' <=> Holding(r, p)
    <3>1. ~Holding(q, p)
      BY <1>1, <1>3, <2>1 DEF Holding
    <3>2. ~Holding(q, p)'
      BY <1>5, <1>6 DEF Holding, Storing
    <3> QED
      BY <2>7, <3>1, <3>2 DEF Holding
  <2>9. On(q, p)' => new.pc = "keep"
    BY <1>5, <1>6, FreeFits, VaultConstants DEF On
  <2>10. OneKind(p)'
    <3> SUFFICES ASSUME NEW r \in Requests, NEW u \in Requests, r # u, On(r, p)', On(u, p)'
                 PROVE  Refreshes(request[r])'
      BY DEF OneKind
    <3>1. On(r, p) /\ On(u, p)
      BY <1>3, <2>7
    <3>2. request[r].old # 0
      BY <2>3, <3>1 DEF InOrder, OneKind, Refreshes
    <3> QED
      BY <1>1, <1>5, <1>6, <2>9, <3>2 DEF Refreshes
  <2>11. RowIsBacked(p)'
    BY <1>7, <1>9, <2>3, <2>5 DEF InOrder, RowIsBacked
  <2>12. StepsAreTaken(p)'
    <3> SUFFICES ASSUME NEW r \in Requests, On(r, p)' PROVE Taken(request[r], p)'
      BY DEF StepsAreTaken
    <3>1. CASE r = q
      <4>1. new.pc = "keep" /\ new.got <= valid[p]
        BY <1>5, <2>4, <2>9, <3>1 DEF Taken
      <4> QED
        BY <1>5, <1>6, <1>7, <1>9, <2>4, <3>1, <4>1 DEF Taken, Storing, Erasing
    <3>2. CASE r # q
      <4>1. On(r, p) /\ request'[r] = request[r] /\ Taken(request[r], p) /\ request[r].old # 0
        BY <2>3, <2>6, <2>7, <3>2 DEF InOrder, StepsAreTaken
      <4>2. request[r].pc \notin Erasing /\ request[r].pc # "drop"
        BY <4>1, Facts DEF LocalsFit
      <4> QED
        BY <1>7, <1>9, <4>1, <4>2 DEF Taken
    <3> QED
      BY <3>1, <3>2
  <2>13. OnePending(p)'
    <3>1. \A r \in Requests : Holding(r, p)' => request'[r] = request[r]
      BY <1>5, <1>6 DEF Holding, Storing
    <3> QED
      BY <1>9, <2>3, <2>8, <3>1 DEF InOrder, OnePending
  <2>14. ASSUME p \notin killed' PROVE Whole(p)'
    <3>1. Whole(p)
      BY <1>12, <2>14 DEF Sound
    <3>2. TokenIsValid(p)'
      <4> SUFFICES ASSUME \/ p \in offline'
                          \/ \E r \in Requests : On(r, p)' /\ request'[r].got # 0
                   PROVE  \/ p \in offline /\ row[p] # "none"
                          \/ \E r \in Requests : On(r, p) /\ request[r].got # 0
        BY <1>9, <2>8, <3>1 DEF Whole, TokenIsValid
      <4>1. CASE l.got # 0
        BY <1>1, <1>3, <4>1
      <4>2. CASE l.got = 0 /\ l.code # 0
        <5>1. p \notin offline'
          BY <1>8, <4>2
        <5>2. PICK r \in Requests : On(r, p)' /\ request'[r].got # 0
          BY <5>1
        <5>3. r # q
          BY <1>6, <2>9, <5>2, <1>5
        <5> QED
          BY <2>7, <5>2, <5>3
      <4>3. CASE l.got = 0 /\ l.code = 0
        <5>1. row[p] # "none" /\ offline' = offline
          BY <1>3, <1>8, <2>4, <4>3 DEF Taken
        <5>2. \A r \in Requests : On(r, p)' /\ request'[r].got # 0 => r # q
          BY <1>5, <1>6, <4>3
        <5> QED
          BY <2>7, <5>1, <5>2
      <4> QED
        BY <4>1, <4>2, <4>3
    <3>3. RowIsFull(p)'
      <4> SUFFICES ASSUME l.got = 0,
                          \/ p \in offline'
                          \/ \E r \in Requests : On(r, p)' /\ Refreshes(request'[r])
                   PROVE  \E r \in Requests : On(r, p)' /\ request'[r].pc = "keep"
        BY <1>7 DEF RowIsFull, Refreshes
      <4>1. CASE l.code = 0
        BY <1>4, <1>5, <1>6, <4>1, FreeFits DEF On
      <4>2. CASE l.code # 0
        <5>1. p \notin offline' /\ l.old = 0
          BY <1>3, <1>8, <4>2
        <5>2. PICK r \in Requests : On(r, p)'
          BY <5>1
        <5>3. r # q
          BY <1>5, <2>9, <4>2, <5>2
        <5> QED
          BY <2>6, <2>7, <5>1, <5>2, <5>3
      <4> QED
        BY <4>1, <4>2
    <3>4. AccessIsErased(p)'
      BY <1>7 DEF AccessIsErased
    <3>5. RefreshIsErased(p)'
      <4> SUFFICES ASSUME l.got = 0, truth[p].refresh # 0
                   PROVE  \/ p \in orphaned'
                          \/ \E r \in Requests : On(r, p)' /\ request'[r].pc = "keep"
        BY <1>7, <1>9 DEF RefreshIsErased
      <4>1. CASE l.code = 0
        BY <1>4, <1>5, <1>6, <4>1, FreeFits DEF On
      <4>2. CASE l.code # 0 /\ row[p] = "full"
        BY <1>8, <4>2
      <4>3. CASE l.code # 0 /\ row[p] # "full"
        <5>1. \A r \in Requests : On(r, p) => r = q
          BY <1>3, <2>6, <4>3
        <5>2. p \in orphaned
          BY <1>1, <1>3, <2>2, <3>1, <4>3, <5>1 DEF Whole, RefreshIsErased
        <5> QED
          BY <1>8, <4>3, <5>2
      <4> QED
        BY <4>1, <4>2, <4>3
    <3> QED
      BY <3>2, <3>3, <3>4, <3>5 DEF Whole
  <2> QED
    BY <2>10, <2>11, <2>12, <2>13, <2>14 DEF Sound, InOrder
<1>13. \A o \in Providers \ {p} : Same(o) /\ SameExcuses(o)
  BY <1>7, <1>8, <1>9 DEF Same, SameExcuses
<1>14. \A o \in Providers : FilesKept(o)
  <2>1. new.pc \notin Copying
    BY <1>5 DEF Copying
  <2> QED
    BY <1>6, <1>9, <2>1, FilesStay
<1>15. valid[p] <= valid'[p] /\ new.got <= valid'[p]
  BY <1>5, <1>9, FreeFits, VaultConstants DEF VaultInv, TablesFit
<1>16. Fresh(new, p)'
  BY <1>5, FreeFits DEF Fresh, Storing
<1>17. CASE crossed' = crossed /\ killed' = killed
  BY <1>1, <1>2, <1>5, <1>6, <1>9, <1>10, <1>11, <1>12, <1>13, <1>14, <1>15, <1>16, <1>17,
     FreeFits, StepWithin
<1>18. CASE l.got # 0 /\ l.code # 0 /\ p \notin shared
  <2>1. new = Free /\ new.p = "none" /\ row'[p] = "full"
    BY <1>5, <1>7, <1>18, FreeFits
  <2>2. Going(p) /\ OneKind(p) /\ Fresh(l, p)
    BY <1>1, <1>3, <1>18 DEF VaultInv, Going, Anew
  <2>3. truth[p].access /\ l.got = valid[p] /\ truth[p].refresh = l.got
    <3>1. <<>> \notin ToDo("access") /\ <<>> \notin ToDo("refresh") /\ l.pc \in Storing
      BY <1>3 DEF ToDo, Both, Storing
    <3> QED
      BY <1>3, <1>18, <2>2, <3>1 DEF Fresh
  <2>4. \A r \in Requests : ~On(r, p)'
    <3>1. \A r \in Requests : On(r, p) => r = q
      BY <1>1, <1>3, <1>18, <2>2 DEF OneKind, Refreshes
    <3> QED
      BY <1>6, <2>1, <3>1, VaultConstants DEF On
  <2>5. valid[p] \in 0..MaxIssued /\ valid[p] <= valid[p]
    BY VaultConstants DEF VaultInv, TablesFit
  <2>6. InOrder(p)'
    <3>1. OneKind(p)' /\ StepsAreTaken(p)' /\ OnePending(p)'
      BY <2>4 DEF OneKind, StepsAreTaken, OnePending, Holding
    <3>2. RowIsBacked(p)'
      BY <1>9, <1>18, <2>3, <2>5 DEF RowIsBacked
    <3> QED
      BY <3>1, <3>2 DEF InOrder
  <2>7. Whole(p)'
    <3>1. TokenIsValid(p)'
      BY <1>9, <2>3 DEF TokenIsValid
    <3> QED
      BY <2>1, <3>1 DEF Whole, RowIsFull, AccessIsErased, RefreshIsErased
  <2>8. Bounded(p)'
    <3>1. \A n \in 0..MaxIssued : OnFile(n, p)' => n <= valid'[p]
      BY <1>9, <1>14, <2>2, <2>5, VaultConstants DEF Going, Bounded, FilesKept
    <3> QED
      BY <2>4, <3>1 DEF Bounded
  <2>9. NoLaterToken(p)'
    BY <1>9, <2>3, <2>8 DEF Bounded, NoLaterToken
  <2> QED
    BY <1>1, <1>2, <1>5, <1>6, <1>9, <1>10, <1>11, <1>13, <1>14, <1>16, <2>1, <2>6, <2>7, <2>8,
       <2>9, StepOfOne DEF Sound, InOrder
<1> QED
  BY <1>9, <1>17, <1>18

-----------------------------------------------------------------------------
(***************************************************************************)
(* Disconnecting, and the changes of the secrets.                          *)
(***************************************************************************)

LEMMA DropRowKeepsInv ==
    ASSUME VaultInv, NEW q \in Requests, DropRow(q) PROVE VaultInv'
<1>1. PICK l \in OperationLocals : l = request[q]
  BY Facts
<1>2. PICK p \in Providers : p = l.p
  BY <1>1, Facts DEF DropRow
<1>3. /\ l.pc = "drop" /\ l.old = 0 /\ l.code = 0 /\ l.got = 0 /\ On(q, p)
  BY <1>1, <1>2, Facts DEF DropRow, LocalsFit, On, Storing
<1>4. PICK t \in Todos : t = IF l.seen = "full" THEN Both
                             ELSE IF l.seen = "bare" THEN <<"access">> ELSE <<>>
  BY DEF Todos
<1>5. PICK new : new = [l EXCEPT !.pc = "erase", !.todo = t]
  OBVIOUS
<1>6. /\ new \in OperationLocals /\ new.p = p /\ new.pc = "erase" /\ new.todo = t /\ new.old = 0
      /\ new.code = 0 /\ new.got = 0
  BY <1>2, <1>3, <1>5 DEF OperationLocals, OperationPCs
<1>7. /\ request' = [request EXCEPT ![q] = new] /\ request'[q] = new
      /\ \A r \in Requests \ {q} : request'[r] = request[r]
  BY <1>1, <1>4, <1>5, Facts DEF DropRow, Both
<1>8. /\ row' = [row EXCEPT ![p] = "none"] /\ row'[p] = "none"
      /\ \A o \in Providers \ {p} : row'[o] = row[o]
  BY <1>1, <1>2, Facts DEF DropRow
<1>9. /\ truth' = truth /\ offline' = offline /\ orphaned' = orphaned /\ valid' = valid
      /\ shared' = shared /\ crossed' = crossed /\ killed' = killed /\ vault' = vault
      /\ prepared' = prepared
  BY DEF DropRow, vaultHistory, providerVars
<1>10. TablesFit'
  BY <1>8 DEF DropRow, VaultInv, TablesFit, vaultHistory, providerVars
<1>11. LocalsFit(q)'
  <2>1. 0 \in 0..prepared'
    BY <1>10, VaultConstants DEF TablesFit
  <2> QED
    BY <1>6, <1>7, <2>1, VaultConstants DEF LocalsFit, Storing, Erasing, Copying
<1>12. ASSUME Sound(p) PROVE Sound(p)'
  <2>1. InOrder(p)
    BY <1>12 DEF Sound
  <2>2. \A r \in Requests : On(r, p) => r = q
    BY <1>1, <1>3, <2>1 DEF InOrder, OneKind, Refreshes
  <2>3. \A r \in Requests : On(r, p)' => r = q
    BY <1>7, <2>2 DEF On
  <2>4. On(q, p)'
    BY <1>6, <1>7 DEF On
  <2>5. l.seen = row[p] /\ row[p] \in {"none", "bare", "full"}
    BY <1>1, <1>3, <2>1, Facts DEF InOrder, StepsAreTaken, Taken
  <2>6. OneKind(p)'
    BY <2>3 DEF OneKind
  <2>7. RowIsBacked(p)'
    BY <1>8, <1>9, <2>1 DEF InOrder, RowIsBacked
  <2>8. StepsAreTaken(p)'
    <3>1. 0 <= valid[p]
      BY <1>1, <1>3, <2>1 DEF InOrder, StepsAreTaken, Taken
    <3> QED
      BY <1>6, <1>7, <1>8, <1>9, <2>3, <3>1 DEF StepsAreTaken, Taken, Storing
  <2>9. \A r \in Requests : ~Holding(r, p)'
    BY <1>6, <1>7, <2>3 DEF Holding
  <2>10. OnePending(p)'
    BY <2>9 DEF OnePending
  <2>11. ASSUME p \notin killed' PROVE Whole(p)'
    <3>1. Whole(p)
      BY <1>9, <1>12, <2>11 DEF Sound
    <3>2. TokenIsValid(p)'
      BY <1>6, <1>7, <1>8, <2>3 DEF TokenIsValid
    <3>3. RowIsFull(p)'
      BY <1>8 DEF RowIsFull
    <3>4. AccessIsErased(p)'
      <4> SUFFICES ASSUME truth[p].access
                   PROVE  new.pc \in Erasing /\ new.todo \in ToDo("access")
        BY <1>7, <1>9, <2>4 DEF AccessIsErased
      <4>1. row[p] # "none"
        BY <1>1, <1>3, <2>2, <3>1 DEF Whole, AccessIsErased, Storing, Erasing
      <4> QED
        BY <1>4, <1>6, <2>5, <4>1 DEF Erasing, ToDo
    <3>5. RefreshIsErased(p)'
      <4> SUFFICES ASSUME truth[p].refresh # 0, p \notin orphaned
                   PROVE  new.pc \in Erasing /\ new.todo \in ToDo("refresh")
        BY <1>7, <1>9, <2>4 DEF RefreshIsErased
      <4>1. row[p] = "full"
        BY <1>1, <1>3, <2>2, <3>1 DEF Whole, RefreshIsErased, Storing, Erasing
      <4> QED
        BY <1>4, <1>6, <2>5, <4>1 DEF Erasing, ToDo
    <3> QED
      BY <3>2, <3>3, <3>4, <3>5 DEF Whole
  <2> QED
    BY <2>6, <2>7, <2>8, <2>10, <2>11 DEF Sound, InOrder
<1>13. \A o \in Providers \ {p} : Same(o) /\ SameExcuses(o)
  BY <1>8, <1>9 DEF Same, SameExcuses
<1>14. \A o \in Providers : FilesKept(o)
  BY <1>6, <1>7, <1>9, FilesStay DEF Copying
<1>15. valid[p] <= valid'[p] /\ new.got <= valid'[p]
  BY <1>6, <1>9, VaultConstants DEF VaultInv, TablesFit
<1>16. Fresh(new, p)'
  BY <1>6 DEF Fresh
<1>17. new.old = l.old
  BY <1>3, <1>6
<1> QED
  BY <1>1, <1>2, <1>6, <1>7, <1>9, <1>10, <1>11, <1>12, <1>13, <1>14, <1>15, <1>16, <1>17,
     StepWithin

\* What a change does to the secrets of the provider, and that it does no more.
LEMMA ChangedSecrets ==
    ASSUME VaultInv, NEW q \in Requests, NEW v \in Secrets, NEW p \in Providers,
           request[q].p = p
    PROVE  /\ Changed(q, v) \in Secrets
           /\ \A o \in Providers \ {p} : Changed(q, v)[o] = v[o]
           /\ IF Head(request[q].todo) = "access"
              THEN /\ Changed(q, v)[p].refresh = v[p].refresh
                   /\ Changed(q, v)[p].access <=> request[q].pc # "deleting"
              ELSE /\ Changed(q, v)[p].access <=> v[p].access
                   /\ Changed(q, v)[p].refresh = IF request[q].pc = "deleting" THEN 0
                                                 ELSE request[q].got
<1> DEFINE value == IF request[q].pc = "deleting" THEN NoSecrets
                    ELSE [access |-> TRUE, refresh |-> request[q].got]
<1>1. PICK a \in BOOLEAN : a = value.access /\ (a <=> request[q].pc # "deleting")
  BY DEF NoSecrets
<1>2. PICK n \in 0..MaxIssued :
        n = value.refresh /\ n = IF request[q].pc = "deleting" THEN 0 ELSE request[q].got
  BY Facts, VaultConstants DEF NoSecrets
<1>3. CASE Head(request[q].todo) = "access"
  <2>1. Changed(q, v) = [v EXCEPT ![p].access = a]
    BY <1>1, <1>3 DEF Changed
  <2>2. /\ Changed(q, v) \in Secrets /\ Changed(q, v)[p].access = a
        /\ Changed(q, v)[p].refresh = v[p].refresh
        /\ \A o \in Providers \ {p} : Changed(q, v)[o] = v[o]
    BY <2>1 DEF Secrets
  <2> QED
    BY <1>1, <1>3, <2>2, Zenon
<1>4. CASE Head(request[q].todo) # "access"
  <2>1. Changed(q, v) = [v EXCEPT ![p].refresh = n]
    BY <1>2, <1>4 DEF Changed
  <2> QED
    BY <1>2, <1>4, <2>1 DEF Secrets
<1> QED
  BY <1>3, <1>4

LEMMA TodosInOrder ==
    /\ Head(Both) = "access" /\ Tail(Both) = <<"refresh">>
    /\ Head(<<"access">>) = "access" /\ Tail(<<"access">>) = <<>>
    /\ Head(<<"refresh">>) = "refresh" /\ Tail(<<"refresh">>) = <<>>
    /\ Both \in ToDo("access") /\ Both \in ToDo("refresh")
    /\ <<"access">> \in ToDo("access") /\ <<"access">> \notin ToDo("refresh")
    /\ <<"refresh">> \in ToDo("refresh") /\ <<"refresh">> \notin ToDo("access")
    /\ <<>> \notin ToDo("access") /\ <<>> \notin ToDo("refresh")
    /\ Both # <<>> /\ Both # <<"access">> /\ Both # <<"refresh">>
  BY DEF Both, ToDo

\* The request has changed one secret of the provider in truth.
Changes(q, p, new) ==
    /\ On(q, p) /\ new.p = p /\ new.old = request[q].old /\ new.got = request[q].got
    /\ new.code = request[q].code
    /\ request[q].todo \in {Both, <<"access">>, <<"refresh">>}
    /\ new.todo = Tail(request[q].todo)
    /\ request'[q] = new /\ \A r \in Requests \ {q} : request'[r] = request[r]
    /\ UNCHANGED <<row, valid, offline, orphaned, killed>>

\* A secret is set: a token when it is pending, and then it is no longer.
LEMMA SettingIsSound ==
    ASSUME VaultInv, NEW q \in Requests, NEW p \in Providers, NEW new, Changes(q, p, new),
           request[q].pc = "setting", new.pc = "vault", Sound(p), truth' \in Secrets,
           \/ /\ Head(request[q].todo) = "access"
              /\ truth'[p].access /\ truth'[p].refresh = truth[p].refresh
           \/ /\ Head(request[q].todo) = "refresh"
              /\ (truth'[p].access <=> truth[p].access)
              /\ truth'[p].refresh = request[q].got
    PROVE  Sound(p)'
<1>1. PICK l \in OperationLocals : l = request[q]
  BY Facts
<1>2. /\ l.pc = "setting" /\ On(q, p) /\ On(q, p)' /\ l.got \in 0..MaxIssued
      /\ l.todo \in {Both, <<"access">>, <<"refresh">>} /\ new.todo = Tail(l.todo)
      /\ l.got = 0 => l.todo = <<"access">>
      /\ l.got # 0 => l.todo \in {Both, <<"refresh">>}
  BY <1>1, Facts, TodosInOrder DEF Changes, LocalsFit, Storing, On
<1>3. /\ \A r \in Requests : On(r, p)' <=> On(r, p)
      /\ \A r \in Requests : request'[r].old = request[r].old /\ request'[r].got = request[r].got
      /\ \A r \in Requests \ {q} : request'[r] = request[r]
      /\ row' = row /\ valid' = valid /\ offline' = offline /\ orphaned' = orphaned
      /\ killed' = killed
  BY <1>2 DEF Changes, On
<1>4. /\ "setting" \in Storing /\ "vault" \in Storing /\ "vault" \notin Erasing
  BY DEF Storing, Erasing
<1>5. InOrder(p) /\ truth[p].refresh <= valid[p] /\ Taken(l, p)
  BY <1>1, <1>2 DEF Sound, InOrder, RowIsBacked, StepsAreTaken
<1>6. /\ truth[p].refresh \in 0..MaxIssued /\ truth'[p].refresh \in 0..MaxIssued
      /\ valid[p] \in 0..MaxIssued
  BY DEF VaultInv, TablesFit, Secrets
<1>7. OneKind(p)'
  BY <1>3, <1>5 DEF InOrder, OneKind, Refreshes
<1>8. CASE Head(l.todo) = "access"
  <2>1. /\ l.todo \in {Both, <<"access">>} /\ l.todo \in ToDo("access")
        /\ l.got # 0 => l.todo = Both /\ new.todo = <<"refresh">>
        /\ truth'[p].access /\ truth'[p].refresh = truth[p].refresh
    BY <1>1, <1>2, <1>8, TodosInOrder
  <2>2. RowIsBacked(p)'
    BY <1>3, <1>5, <2>1 DEF InOrder, RowIsBacked
  <2>3. StepsAreTaken(p)'
    <3> SUFFICES ASSUME NEW r \in Requests, On(r, p)' PROVE Taken(request[r], p)'
      BY DEF StepsAreTaken
    <3>1. Taken(request[r], p)
      BY <1>3, <1>5 DEF InOrder, StepsAreTaken
    <3>2. CASE r = q
      BY <1>1, <1>3, <1>4, <2>1, <3>1, <3>2, TodosInOrder DEF Taken, Changes
    <3>3. CASE r # q
      BY <1>3, <2>1, <3>1, <3>3 DEF Taken
    <3> QED
      BY <3>2, <3>3
  <2>4. \A r \in Requests : Holding(r, p)' <=> Holding(r, p)
    <3>1. Holding(q, p)' <=> Holding(q, p)
      BY <1>1, <1>2, <1>3, <1>4, <2>1, TodosInOrder DEF Holding, Changes
    <3> QED
      BY <1>3, <3>1 DEF Holding
  <2>5. OnePending(p)'
    BY <1>3, <1>5, <2>1, <2>4 DEF InOrder, OnePending
  <2>6. ASSUME p \notin killed' PROVE Whole(p)'
    <3>1. Whole(p)
      BY <1>3, <2>6 DEF Sound
    <3>2. TokenIsValid(p)'
      BY <1>3, <2>1, <2>4, <3>1 DEF Whole, TokenIsValid
    <3>3. \A r \in Requests : request[r].pc = "keep" => request'[r].pc = "keep"
      BY <1>1, <1>2, <1>3
    <3>4. RowIsFull(p)'
      BY <1>3, <3>1, <3>3 DEF Whole, RowIsFull, Refreshes
    <3>5. AccessIsErased(p)'
      BY <1>2, <1>4 DEF AccessIsErased, Changes
    <3>6. request[q].pc \notin Erasing /\ "setting" # "keep" /\ (l.got # 0 <=> new.got # 0)
      BY <1>1, <1>2 DEF Erasing, Changes
    <3>7. RefreshIsErased(p)'
      <4>1. CASE l.got # 0
        BY <1>1, <1>2, <1>4, <3>6, <4>1 DEF RefreshIsErased, Changes
      <4>2. CASE l.got = 0
        BY <1>1, <1>2, <1>3, <2>1, <3>1, <3>6, <4>2 DEF Whole, RefreshIsErased
      <4> QED
        BY <4>1, <4>2
    <3> QED
      BY <3>2, <3>4, <3>5, <3>7 DEF Whole
  <2> QED
    BY <1>7, <2>2, <2>3, <2>5, <2>6 DEF Sound, InOrder
<1>9. CASE Head(l.todo) = "refresh"
  <2>1. /\ l.todo = <<"refresh">> /\ new.todo = <<>> /\ l.got # 0 /\ l.todo \in ToDo("refresh")
        /\ l.todo \notin ToDo("access")
        /\ (truth'[p].access <=> truth[p].access) /\ truth'[p].refresh = l.got
    BY <1>1, <1>2, <1>9, TodosInOrder
  <2>2. Holding(q, p)
    BY <1>1, <1>2, <1>4, <2>1 DEF Holding
  <2>3. l.got = valid[p] /\ truth[p].refresh < valid[p]
        /\ \A r \in Requests : Holding(r, p) => r = q
    BY <1>1, <1>5, <2>2 DEF InOrder, OnePending
  <2>4. truth[p].access
    BY <1>2, <1>4, <1>5, <2>1 DEF Taken
  <2>5. RowIsBacked(p)'
    BY <1>3, <1>6, <2>1, <2>3, <2>4 DEF RowIsBacked
  <2>6. StepsAreTaken(p)'
    <3> SUFFICES ASSUME NEW r \in Requests, On(r, p)' PROVE Taken(request[r], p)'
      BY DEF StepsAreTaken
    <3>1. Taken(request[r], p)
      BY <1>3, <1>5 DEF InOrder, StepsAreTaken
    <3>2. CASE r = q
      BY <1>1, <1>2, <1>3, <1>4, <2>1, <2>3, <2>4, <3>1, <3>2 DEF Taken, Changes
    <3>3. CASE r # q
      <4>1. request[r].old \in 0..MaxIssued
        BY Facts
      <4>2. request[r].old <= truth[p].refresh => request[r].old <= truth'[p].refresh
        BY <1>6, <2>1, <2>3, <4>1
      <4> QED
        BY <1>3, <2>1, <2>4, <3>1, <3>3, <4>2 DEF Taken
    <3> QED
      BY <3>2, <3>3
  <2>7. \A r \in Requests : ~Holding(r, p)'
    <3>1. ~Holding(q, p)'
      BY <1>3, <2>1, TodosInOrder DEF Holding, Changes
    <3>2. ASSUME NEW r \in Requests \ {q} PROVE ~Holding(r, p)'
      <4>1. ~Holding(r, p)
        BY <2>3
      <4> QED
        BY <1>3, <4>1 DEF Holding
    <3> QED
      BY <3>1, <3>2
  <2>8. OnePending(p)'
    BY <2>7 DEF OnePending
  <2>9. ASSUME p \notin killed' PROVE Whole(p)'
    <3>1. Whole(p)
      BY <1>3, <2>9 DEF Sound
    <3>2. TokenIsValid(p)'
      BY <1>3, <2>1, <2>3 DEF TokenIsValid
    <3>3. \A r \in Requests : request[r].pc = "keep" => request'[r].pc = "keep"
      BY <1>1, <1>2, <1>3
    <3>4. RowIsFull(p)'
      BY <1>3, <3>1, <3>3 DEF Whole, RowIsFull, Refreshes
    <3>5. AccessIsErased(p)'
      BY <1>2, <1>4 DEF AccessIsErased, Changes
    <3>6. RefreshIsErased(p)'
      BY <1>1, <1>2, <1>4, <2>1 DEF RefreshIsErased, Changes
    <3> QED
      BY <3>2, <3>4, <3>5, <3>6 DEF Whole
  <2> QED
    BY <1>7, <2>5, <2>6, <2>8, <2>9 DEF Sound, InOrder
<1> QED
  BY <1>1, <1>8, <1>9

\* A secret is deleted: the request is alone and the row is gone.
LEMMA DeletingIsSound ==
    ASSUME VaultInv, NEW q \in Requests, NEW p \in Providers, NEW new, Changes(q, p, new),
           request[q].pc = "deleting", new.pc = "erase", Sound(p), truth' \in Secrets,
           \/ /\ Head(request[q].todo) = "access"
              /\ ~truth'[p].access /\ truth'[p].refresh = truth[p].refresh
           \/ /\ Head(request[q].todo) = "refresh"
              /\ (truth'[p].access <=> truth[p].access)
              /\ truth'[p].refresh = 0
    PROVE  Sound(p)'
<1>1. PICK l \in OperationLocals : l = request[q]
  BY Facts
<1>2. /\ l.pc = "deleting" /\ On(q, p) /\ On(q, p)' /\ l.old = 0 /\ l.got = 0
      /\ l.todo \in {Both, <<"access">>, <<"refresh">>} /\ new.todo = Tail(l.todo)
      /\ l.pc \in Erasing /\ l.pc \notin Storing /\ new.pc \in Erasing /\ new.pc \notin Storing
  BY <1>1, Facts DEF Changes, LocalsFit, Storing, Erasing, Copying, On
<1>3. InOrder(p) /\ Taken(l, p) /\ row[p] = "none"
  BY <1>1, <1>2 DEF Sound, InOrder, StepsAreTaken, Taken
<1>4. \A r \in Requests : On(r, p) => r = q
  BY <1>1, <1>2, <1>3 DEF InOrder, OneKind, Refreshes
<1>5. \A r \in Requests : On(r, p)' => r = q
  BY <1>4 DEF Changes, On
<1>6. /\ request'[q] = new /\ new.old = 0 /\ new.got = 0
      /\ row'[p] = "none" /\ valid' = valid /\ orphaned' = orphaned /\ killed' = killed
  BY <1>1, <1>2, <1>3 DEF Changes
<1>7. valid[p] \in 0..MaxIssued /\ 0 <= valid[p]
  BY VaultConstants DEF VaultInv, TablesFit
<1>8. OneKind(p)'
  BY <1>5 DEF OneKind
<1>9. RowIsBacked(p)'
  BY <1>3, <1>6, <1>7 DEF InOrder, RowIsBacked
<1>10. StepsAreTaken(p)'
  BY <1>2, <1>5, <1>6, <1>7 DEF StepsAreTaken, Taken, Erasing
<1>11. OnePending(p)'
  BY <1>5, <1>6 DEF OnePending, Holding
<1>12. ASSUME p \notin killed' PROVE Whole(p)'
  <2>1. Whole(p)
    BY <1>6, <1>12 DEF Sound
  <2>2. TokenIsValid(p)'
    BY <1>5, <1>6 DEF TokenIsValid
  <2>3. RowIsFull(p)'
    BY <1>6 DEF RowIsFull
  <2>4. truth[p].access => l.todo \in ToDo("access")
    BY <1>1, <1>2, <1>3, <1>4, <2>1 DEF Whole, AccessIsErased
  <2>5. truth[p].refresh # 0 => p \in orphaned \/ l.todo \in ToDo("refresh")
    <3>1. "deleting" # "keep"
      OBVIOUS
    <3> QED
      BY <1>1, <1>2, <1>3, <1>4, <2>1, <3>1 DEF Whole, RefreshIsErased
  <2>6. AccessIsErased(p)'
    <3>1. ~truth'[p].access
      BY <1>1, <1>2, <2>4, TodosInOrder
    <3> QED
      BY <3>1 DEF AccessIsErased
  <2>7. RefreshIsErased(p)'
    <3>1. CASE Head(l.todo) = "refresh"
      BY <1>1, <3>1, TodosInOrder DEF RefreshIsErased
    <3>2. CASE Head(l.todo) = "access"
      <4>1. truth'[p].refresh = truth[p].refresh
        BY <1>1, <3>2
      <4>2. l.todo \in ToDo("refresh") => new.todo \in ToDo("refresh")
        BY <1>2, <3>2, TodosInOrder
      <4> QED
        BY <1>2, <1>6, <2>5, <4>1, <4>2 DEF RefreshIsErased
    <3> QED
      BY <1>1, <3>1, <3>2
  <2> QED
    BY <2>2, <2>3, <2>6, <2>7 DEF Whole
<1> QED
  BY <1>8, <1>9, <1>10, <1>11, <1>12 DEF Sound, InOrder

LEMMA FillVaultKeepsInv ==
    ASSUME VaultInv, NEW q \in Requests, FillVault(q) PROVE VaultInv'
<1>1. PICK l \in OperationLocals : l = request[q]
  BY Facts
<1>2. l.pc \in {"setting", "deleting"}
  BY <1>1 DEF FillVault
<1>3. PICK p \in Providers : p = l.p
  BY <1>1, <1>2, Facts
<1>4. /\ LocalsFit(q) /\ l.todo # <<>> /\ l.todo \in Todos /\ l.copy \in Secrets /\ On(q, p)
  BY <1>1, <1>2, <1>3, Facts DEF LocalsFit, Copying, On
<1>5. l.todo \in {Both, <<"access">>, <<"refresh">>} /\ Tail(l.todo) \in {<<"refresh">>, <<>>}
  BY <1>4, TodosInOrder DEF Todos
<1>6. PICK t \in Todos : t = Tail(l.todo)
  BY <1>5 DEF Todos
<1>7. PICK pc \in OperationPCs : pc = IF l.pc = "setting" THEN "vault" ELSE "erase"
  BY DEF OperationPCs
<1>8. PICK new : new = [l EXCEPT !.todo = t, !.pc = pc]
  OBVIOUS
<1>9. /\ new \in OperationLocals /\ new.p = p /\ new.pc = pc /\ new.todo = t /\ new.old = l.old
      /\ new.code = l.code /\ new.got = l.got
  BY <1>3, <1>8 DEF OperationLocals
<1>10. /\ request' = [request EXCEPT ![q] = new] /\ request'[q] = new
       /\ \A r \in Requests \ {q} : request'[r] = request[r]
  BY <1>1, <1>6, <1>7, <1>8, Facts DEF FillVault
<1>11. /\ row' = row /\ offline' = offline /\ orphaned' = orphaned /\ valid' = valid
       /\ shared' = shared /\ crossed' = crossed /\ killed' = killed /\ prepared' = prepared
  BY DEF FillVault, providerVars
<1>12. truth \in Secrets /\ truth' = Changed(q, truth)
  BY DEF FillVault, VaultInv, TablesFit
<1>13. /\ truth' \in Secrets /\ \A o \in Providers \ {p} : truth'[o] = truth[o]
       /\ Changed(q, l.copy) \in Secrets
  BY <1>1, <1>3, <1>4, <1>12, ChangedSecrets
<1>14. TablesFit'
  <2>1. vault' \in Secrets \cup {Spoilt}
    BY <1>1, <1>13 DEF FillVault
  <2> QED
    BY <1>11, <1>13, <2>1 DEF FillVault, VaultInv, TablesFit, providerVars
<1>15. LocalsFit(q)'
  <2>1. CASE l.pc = "setting"
    <3>1. (l.got = 0 => t = <<>>) /\ (l.got # 0 => t \in {<<"refresh">>, <<>>})
      BY <1>1, <1>4, <1>5, <1>6, <2>1, TodosInOrder DEF LocalsFit, Storing
    <3> QED
      BY <1>1, <1>4, <1>7, <1>9, <1>10, <1>11, <2>1, <3>1, VaultConstants
         DEF LocalsFit, Storing, Erasing, Copying
  <2>2. CASE l.pc = "deleting"
    BY <1>1, <1>4, <1>7, <1>9, <1>10, <1>11, <2>2, VaultConstants
       DEF LocalsFit, Storing, Erasing, Copying
  <2> QED
    BY <1>2, <2>1, <2>2
<1>16. Changes(q, p, new)
  BY <1>1, <1>4, <1>5, <1>6, <1>9, <1>10, <1>11 DEF Changes
<1>17. \/ Head(l.todo) = "access" /\ truth'[p].refresh = truth[p].refresh
           /\ (truth'[p].access <=> l.pc # "deleting")
       \/ Head(l.todo) = "refresh" /\ (truth'[p].access <=> truth[p].access)
           /\ truth'[p].refresh = IF l.pc = "deleting" THEN 0 ELSE l.got
  BY <1>1, <1>3, <1>5, <1>12, ChangedSecrets, TodosInOrder
<1>18. Sound(p) => Sound(p)'
  <2>1. CASE l.pc = "setting"
    BY <1>1, <1>7, <1>9, <1>13, <1>16, <1>17, <2>1, SettingIsSound
  <2>2. CASE l.pc = "deleting"
    BY <1>1, <1>7, <1>9, <1>13, <1>16, <1>17, <2>2, DeletingIsSound
  <2> QED
    BY <1>2, <2>1, <2>2
<1>19. \A o \in Providers \ {p} : Same(o) /\ SameExcuses(o)
  BY <1>11, <1>13 DEF Same, SameExcuses
<1>20. ASSUME NEW o \in Providers, NEW n \in 0..MaxIssued, OnFile(n, o)', n # 0
       PROVE  OnFile(n, o) \/ (o = p /\ n = l.got /\ Head(l.todo) = "refresh")
  <2>1. CASE vault' # Spoilt /\ vault'[o].refresh = n
    <3>1. vault' = Changed(q, l.copy)
      BY <1>1, <2>1 DEF FillVault
    <3>2. l.copy[o].refresh = n => OnFile(n, o)
      BY <1>1, <1>2 DEF OnFile, Copying
    <3>3. CASE o # p
      <4>1. vault'[o] = l.copy[o]
        BY <1>1, <1>3, <1>4, <3>1, <3>3, ChangedSecrets
      <4> QED
        BY <2>1, <3>2, <4>1
    <3>4. CASE o = p /\ Head(l.todo) = "access"
      <4>1. vault'[p].refresh = l.copy[p].refresh
        BY <1>1, <1>3, <1>4, <3>1, <3>4, ChangedSecrets
      <4> QED
        BY <2>1, <3>2, <3>4, <4>1
    <3>5. CASE o = p /\ Head(l.todo) = "refresh"
      <4>1. vault'[p].refresh = IF l.pc = "deleting" THEN 0 ELSE l.got
        BY <1>1, <1>3, <1>4, <3>1, <3>5, ChangedSecrets
      <4> QED
        BY <1>20, <2>1, <3>5, <4>1
    <3> QED
      BY <1>17, <3>3, <3>4, <3>5
  <2>2. ASSUME NEW r \in Requests, request'[r].pc \in Copying, request'[r].copy[o].refresh = n
        PROVE  OnFile(n, o)
    <3>1. r # q
      BY <1>7, <1>9, <1>10, <2>2 DEF Copying
    <3>2. request'[r] = request[r]
      BY <1>10, <3>1
    <3> QED
      BY <2>2, <3>2 DEF OnFile
  <2> QED
    BY <1>20, <2>1, <2>2 DEF OnFile
<1>21. \A o \in Providers \ {p} : FilesKept(o)
  BY <1>20 DEF FilesKept
<1>22. Going(p) /\ valid'[p] = valid[p] /\ valid[p] \in 0..MaxIssued /\ l.got <= valid[p]
  BY <1>1, <1>4, <1>11 DEF VaultInv, TablesFit, Going, Bounded
<1>23. Bounded(p)'
  <2>1. ASSUME NEW n \in 0..MaxIssued, OnFile(n, p)' PROVE n <= valid[p]
    <3>1. CASE n = 0
      BY <1>22, <3>1, VaultConstants
    <3>2. CASE n # 0
      BY <1>20, <1>22, <2>1, <3>2 DEF Going, Bounded
    <3> QED
      BY <3>1, <3>2
  <2>2. ASSUME NEW r \in Requests, On(r, p)' PROVE request'[r].got <= valid[p]
    <3>1. CASE r = q
      BY <1>9, <1>10, <1>22, <3>1
    <3>2. CASE r # q
      BY <1>10, <1>22, <2>2, <3>2 DEF Going, Bounded, On
    <3> QED
      BY <3>1, <3>2
  <2> QED
    BY <1>22, <2>1, <2>2 DEF Bounded
<1>24. p \notin shared' => OneKind(p)' /\ Fresh(new, p)'
  <2> SUFFICES ASSUME p \notin shared' PROVE OneKind(p)' /\ Fresh(new, p)'
    OBVIOUS
  <2>1. OneKind(p) /\ Fresh(l, p)
    BY <1>1, <1>4, <1>11, <1>22 DEF Going, Anew
  <2>2. OneKind(p)'
    BY <1>1, <1>3, <1>9, <1>10, <2>1 DEF OneKind, Refreshes, On
  <2>3. Fresh(new, p)'
    <3> SUFFICES ASSUME l.code # 0 PROVE Fresh(new, p)'
      BY <1>9 DEF Fresh
    <3>1. l.pc = "setting" /\ l.pc \in Storing
      BY <1>1, <1>2, <1>4 DEF LocalsFit, Storing, Erasing
    <3>2. l.got # 0 => l.got = valid[p]
      BY <2>1, <3>1 DEF Fresh
    <3>3. CASE Head(l.todo) = "access"
      <4>1. truth'[p].access /\ (l.got # 0 => t \in ToDo("refresh"))
        BY <1>1, <1>4, <1>5, <1>6, <1>17, <3>1, <3>3, TodosInOrder DEF LocalsFit
      <4> QED
        BY <1>9, <1>22, <3>2, <4>1 DEF Fresh
    <3>4. CASE Head(l.todo) = "refresh"
      <4>1. l.todo = <<"refresh">> /\ truth'[p].refresh = l.got
        BY <1>5, <1>17, <3>1, <3>4, TodosInOrder
      <4>2. truth[p].access
        BY <2>1, <3>1, <4>1, TodosInOrder DEF Fresh
      <4>3. truth'[p].access
        BY <1>17, <3>4, <4>1, <4>2, TodosInOrder
      <4> QED
        BY <1>9, <1>22, <3>2, <4>1, <4>3 DEF Fresh
    <3> QED
      BY <1>17, <3>3, <3>4
  <2> QED
    BY <2>2, <2>3
<1>25. p \notin crossed' => Sound(p)' /\ NoLaterToken(p)'
  <2> SUFFICES ASSUME p \notin crossed' PROVE Sound(p)' /\ NoLaterToken(p)'
    OBVIOUS
  <2>1. Sound(p) /\ NoLaterToken(p)
    BY <1>11, <1>22 DEF Going
  <2>2. CASE Head(l.todo) = "access"
    <3>1. FilesKept(p)
      BY <1>20, <2>2 DEF FilesKept
    <3>2. truth'[p].refresh = truth[p].refresh
      BY <1>17, <2>2
    <3> QED
      BY <1>18, <2>1, <3>1, <3>2, NoneComesAhead
  <2>3. CASE Head(l.todo) = "refresh" /\ l.pc = "deleting"
    BY <1>17, <1>18, <2>1, <2>3 DEF NoLaterToken
  <2>4. CASE Head(l.todo) = "refresh" /\ l.pc = "setting"
    <3>1. l.todo \in ToDo("refresh") /\ l.got # 0
      BY <1>1, <1>4, <1>5, <2>4, TodosInOrder DEF LocalsFit, Storing
    <3>2. Holding(q, p)
      BY <1>1, <1>4, <2>4, <3>1 DEF Holding, Storing
    <3>3. truth'[p].refresh = valid'[p]
      BY <1>1, <1>17, <1>22, <2>1, <2>4, <3>2 DEF Sound, InOrder, OnePending
    <3> QED
      BY <1>18, <1>23, <2>1, <3>3 DEF Bounded, NoLaterToken
  <2> QED
    BY <1>2, <1>17, <2>2, <2>3, <2>4
<1> QED
  BY <1>1, <1>3, <1>9, <1>10, <1>11, <1>14, <1>15, <1>19, <1>21, <1>23, <1>24, <1>25, StepOfOne

\* What holds of the providers stays when nothing is done with them.
LEMMA NothingGoesOn ==
    ASSUME VaultInv,
           UNCHANGED <<row, truth, valid, offline, orphaned, shared, crossed, killed, vault,
                       request>>
    PROVE  \A p \in Providers : Going(p)'
<1> SUFFICES ASSUME NEW p \in Providers PROVE Going(p)'
  OBVIOUS
<1>1. Going(p)
  BY DEF VaultInv
<1>2. Bounded(p)' /\ FilesKept(p)
  BY <1>1 DEF Going, Bounded, FilesKept, OnFile, On
<1>3. p \notin shared => OneKind(p)' /\ Anew(p)'
  BY <1>1 DEF Going, OneKind, Refreshes, Anew, Fresh, On
<1>4. Sound(p) => Sound(p)'
  BY OthersStaySound DEF Same
<1>5. NoLaterToken(p) => NoLaterToken(p)'
  BY <1>2, NoneComesAhead
<1> QED
  BY <1>1, <1>2, <1>3, <1>4, <1>5 DEF Going

LEMMA PrepareAuthorizationKeepsInv ==
    ASSUME VaultInv, PrepareAuthorization PROVE VaultInv'
<1>1. UNCHANGED <<row, truth, valid, offline, orphaned, shared, crossed, killed, vault, request>>
  BY DEF PrepareAuthorization, providerVars, vaultHistory
<1>2. prepared \in 0..MaxPrepared /\ prepared' = prepared + 1 /\ prepared < MaxPrepared
  BY DEF PrepareAuthorization, VaultInv, TablesFit
<1>3. /\ prepared' \in 0..MaxPrepared /\ prepared' \in 1..prepared'
      /\ \A n \in 0..prepared : n \in 0..prepared'
      /\ \A n \in 1..prepared : n \in 1..prepared'
  BY <1>2, VaultConstants
<1>4. TablesFit'
  <2>1. states' \subseteq 1..prepared' /\ spent' \subseteq 1..prepared'
    BY <1>3 DEF PrepareAuthorization, VaultInv, TablesFit, providerVars
  <2>2. codeOf' \in [Codes -> Providers]
    BY DEF PrepareAuthorization, VaultInv, TablesFit
  <2> QED
    BY <1>3, <2>1, <2>2 DEF PrepareAuthorization, VaultInv, TablesFit, providerVars, vaultHistory
<1>5. \A r \in Requests : LocalsFit(r)'
  BY <1>1, <1>3 DEF VaultInv, LocalsFit
<1>6. \A p \in Providers : Going(p)'
  BY <1>1, NothingGoesOn
<1> QED
  BY <1>1, <1>4, <1>5, <1>6 DEF VaultInv

LEMMA InitHolds == VaultInit => VaultInv
<1> SUFFICES ASSUME VaultInit PROVE VaultInv
  OBVIOUS
<1>1. \A q \in Requests : request[q] = Free
  BY DEF VaultInit
<1>2. 0 \in 0..MaxPrepared /\ 0 \in 0..MaxIssued /\ 0 \in 0..MaxCalls /\ 0 \in 0..MaxKills
      /\ 0 \in 0..0 /\ 0 <= 0
  BY VaultConstants
<1>3. TablesFit
  <2>1. codeOf \in [Codes -> Providers]
    BY VaultConstants DEF VaultInit
  <2>2. truth \in Secrets /\ vault = truth
    BY <1>2 DEF VaultInit, Secrets, NoSecrets
  <2> QED
    BY <1>2, <2>1, <2>2 DEF VaultInit, TablesFit
<1>4. request \in [Requests -> OperationLocals]
  BY FreeFits DEF VaultInit
<1>5. \A q \in Requests : LocalsFit(q)
  BY <1>1, <1>2, FreeFits DEF LocalsFit, Storing, Erasing, Copying, VaultInit
<1>6. ASSUME NEW p \in Providers PROVE InOrder(p) /\ Whole(p)
  <2>1. \A q \in Requests : ~On(q, p)
    BY <1>1, FreeFits, VaultConstants DEF On
  <2>2. row[p] = "none" /\ ~truth[p].access /\ truth[p].refresh = 0 /\ valid[p] = 0
    BY DEF VaultInit, NoSecrets
  <2>3. OneKind(p) /\ StepsAreTaken(p) /\ OnePending(p)
    BY <2>1 DEF OneKind, StepsAreTaken, OnePending, Holding
  <2>4. RowIsBacked(p)
    BY <1>2, <2>2 DEF RowIsBacked
  <2>5. TokenIsValid(p) /\ RowIsFull(p) /\ AccessIsErased(p) /\ RefreshIsErased(p)
    BY <2>2 DEF TokenIsValid, RowIsFull, AccessIsErased, RefreshIsErased
  <2> QED
    BY <2>3, <2>4, <2>5 DEF InOrder, Whole
<1>7. ASSUME NEW p \in Providers PROVE Going(p)
  <2>1. \A q \in Requests : ~On(q, p) /\ request[q].pc \notin Copying
    BY <1>1, FreeFits, VaultConstants DEF On, Copying
  <2>2. vault[p].refresh = 0 /\ truth[p].refresh = 0 /\ valid[p] = 0
    BY DEF VaultInit, NoSecrets
  <2>3. Bounded(p)
    BY <1>2, <2>1, <2>2 DEF Bounded, OnFile
  <2>4. Anew(p) /\ NoLaterToken(p)
    BY <2>1, <2>2 DEF Anew, NoLaterToken
  <2> QED
    BY <1>6, <2>3, <2>4 DEF Going, Sound, InOrder
<1> QED
  BY <1>3, <1>4, <1>5, <1>7 DEF VaultInv

-----------------------------------------------------------------------------
LEMMA StepKeepsInv ==
    VaultInv /\ [VaultNext]_vaultVars => VaultInv'
<1> SUFFICES ASSUME VaultInv, [VaultNext]_vaultVars PROVE VaultInv'
  OBVIOUS
<1>1. CASE PrepareAuthorization
  BY <1>1, PrepareAuthorizationKeepsInv
<1>2. ASSUME NEW q \in Requests, VaultStep(q) PROVE VaultInv'
  <2>1. ASSUME NEW c \in Codes, SelectState(q, c) PROVE VaultInv'
    BY <2>1, SelectStateKeepsInv
  <2>2. ASSUME NEW p \in Providers, StartRefresh(q, p) PROVE VaultInv'
    BY <2>2, StartRefreshKeepsInv
  <2>3. ASSUME NEW p \in Providers, StartDisconnect(q, p) PROVE VaultInv'
    BY <2>3, StartDisconnectKeepsInv
  <2>4. CASE PopState(q)
    BY <2>4, PopStateKeepsInv
  <2>5. CASE ExchangeCode(q)
    BY <2>5, ExchangeCodeKeepsInv
  <2>6. CASE ExchangeRefresh(q)
    BY <2>6, ExchangeRefreshKeepsInv
  <2>7. CASE Refused(q)
    BY <2>7, RefusedKeepsInv
  <2>8. CASE ReadVault(q)
    BY <2>8, ReadVaultKeepsInv
  <2>9. CASE OpenVault(q)
    BY <2>9, OpenVaultKeepsInv
  <2>10. CASE FillVault(q)
    BY <2>10, FillVaultKeepsInv
  <2>11. CASE SaveRow(q)
    BY <2>11, SaveRowKeepsInv
  <2>12. CASE KeepRefresh(q)
    BY <2>12, KeepRefreshKeepsInv
  <2>13. CASE DropRow(q)
    BY <2>13, DropRowKeepsInv
  <2>14. CASE Erased(q)
    BY <2>14, ErasedKeepsInv
  <2>15. CASE KillRequest(q)
    BY <2>15, KillRequestKeepsInv
  <2> QED
    BY <1>2, <2>1, <2>2, <2>3, <2>4, <2>5, <2>6, <2>7, <2>8, <2>9, <2>10, <2>11, <2>12, <2>13,
       <2>14, <2>15 DEF VaultStep
<1>3. CASE UNCHANGED vaultVars
  <2>1. \A p \in Providers : Going(p)'
    BY <1>3, NothingGoesOn DEF vaultVars, vaultHistory, providerVars
  <2>2. TablesFit' /\ \A q \in Requests : LocalsFit(q)'
    BY <1>3 DEF vaultVars, vaultHistory, providerVars, VaultInv, TablesFit, LocalsFit
  <2> QED
    BY <1>3, <2>1, <2>2 DEF vaultVars, vaultHistory, providerVars, VaultInv
<1> QED
  BY <1>1, <1>2, <1>3 DEF VaultNext

LEMMA VaultStaysInv == VaultSpec => []VaultInv
<1> QED
  BY InitHolds, StepKeepsInv, PTL DEF VaultSpec

\* What the tables, the file and the locals of every request hold is of its type.
THEOREM VaultTypeCorrect == VaultSpec => []VaultTypeOK
<1>1. ASSUME VaultInv PROVE VaultTypeOK
  <2>1. ASSUME NEW q \in Requests
        PROVE  /\ request[q].pc \in OperationPCs
               /\ request[q].pc # "free" => request[q].p \in Providers
               /\ request[q].pc \in {"setting", "deleting"} => request[q].copy \in Secrets
    BY <1>1, Facts DEF LocalsFit, Copying
  <2> QED
    BY <1>1, <2>1 DEF VaultInv, VaultTypeOK, TablesFit, OperationPCs
<1> QED
  BY <1>1, VaultStaysInv, PTL

\* Whatever operations overlap and die: a connection that is reported has its secrets, an
\* authorization for good stays one, and a disconnect leaves none of its secrets.
THEOREM ConnectionsStayTrue == VaultSpec => []ConnectionsAreTrue
<1>1. ASSUME VaultInv PROVE ConnectionsAreTrue
  <2>1. ASSUME NEW p \in Providers, ~Undone(p), p \notin crossed
        PROVE  /\ vault[p] = truth[p] /\ InOrder(p) /\ (p \notin killed => Whole(p))
               /\ row[p] \in {"none", "bare", "full"}
    BY <1>1, <2>1 DEF VaultInv, TablesFit, Going, Sound, Undone
  <2>2. RowsHaveSecrets
    <3> SUFFICES ASSUME NEW p \in Providers, row[p] # "none", ~Undone(p), p \notin crossed
                 PROVE  vault[p].access /\ (row[p] = "full" => vault[p].refresh # 0)
      BY DEF RowsHaveSecrets
    <3> QED
      BY <2>1 DEF InOrder, RowIsBacked
  <2>3. RefreshIsAccepted
    <3> SUFFICES ASSUME NEW p \in offline, row[p] # "none", ~Busy(p), ~Undone(p),
                        p \notin crossed, p \notin killed
                 PROVE  row[p] = "full" /\ vault[p].refresh = valid[p]
      BY DEF RefreshIsAccepted
    <3>1. p \in Providers
      BY <1>1 DEF VaultInv, TablesFit
    <3>2. \A q \in Requests : ~On(q, p) /\ ~Holding(q, p)
      BY DEF Busy, On, Holding
    <3> QED
      BY <2>1, <3>1, <3>2 DEF Whole, TokenIsValid, RowIsFull
  <2>4. DisconnectErases
    <3> SUFFICES ASSUME NEW p \in Providers, row[p] = "none", ~Busy(p), ~Undone(p),
                        p \notin crossed, p \notin killed
                 PROVE  ~vault[p].access /\ (vault[p].refresh # 0 => p \in orphaned)
      BY DEF DisconnectErases
    <3>1. \A q \in Requests : ~On(q, p)
      BY DEF Busy, On
    <3> QED
      BY <2>1, <3>1 DEF Whole, AccessIsErased, RefreshIsErased
  <2> QED
    BY <2>2, <2>3, <2>4 DEF ConnectionsAreTrue
<1> QED
  BY <1>1, VaultStaysInv, PTL
-----------------------------------------------------------------------------
(***************************************************************************)
(* The two halves of a collector tick and the connections side by side, as *)
(* the run Collector_ticks has them: what moves one of them leaves the     *)
(* others alone, so that whatever is proved of a component holds of it     *)
(* there.                                                                  *)
(***************************************************************************)

LEMMA TicksInitParts == TicksInit => Init /\ TickInit /\ VaultInit
  BY DEF TicksInit

\* A step of the composition is a step of one component and none of the others.
LEMMA TicksStepParts ==
    [TicksNext]_<<part, vars, tickVars, vaultVars>> =>
        [Next]_vars /\ [TickNext]_tickVars /\ [VaultNext]_vaultVars
<1> SUFFICES ASSUME [TicksNext]_<<part, vars, tickVars, vaultVars>>
             PROVE  [Next]_vars /\ [TickNext]_tickVars /\ [VaultNext]_vaultVars
  OBVIOUS
<1>1. CASE Next /\ UNCHANGED <<tickVars, vaultVars>>
  BY <1>1
<1>2. CASE Spool /\ UNCHANGED <<vars, vaultVars>>
  BY <1>2 DEF Spool
<1>3. CASE Vault /\ UNCHANGED <<vars, tickVars>>
  BY <1>3 DEF Vault
<1>4. CASE UNCHANGED <<part, vars, tickVars, vaultVars>>
  BY <1>4
<1> QED
  BY <1>1, <1>2, <1>3, <1>4 DEF TicksNext

\* The spool, the log with its consumers and the connections behave beside each other as
\* each does alone; they have no state in common.
THEOREM TicksHaveParts == TicksSpec => Spec /\ TickSpec /\ VaultSpec
  BY TicksInitParts, TicksStepParts, PTL DEF TicksSpec, Spec, TickSpec, VaultSpec

\* Every column, file and local of the three stays in its range, beside the others.
THEOREM TicksTypeCorrect == TicksSpec => []TicksTypeOK
  BY TicksHaveParts, TypeCorrect, TickTypeCorrect, VaultTypeCorrect, PTL DEF TicksTypeOK
=============================================================================
