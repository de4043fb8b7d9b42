----------------------------- MODULE JanusMemory -----------------------------
(***************************************************************************)
(* What a user makes of one decision of Janus (janus/service.py,           *)
(* memory_promotion.py): corrections move its memory candidates, promote   *)
(* them to knowledge that the planner sees or retract that, and skip its   *)
(* activation; answers to the activation accept, decline or wake the       *)
(* agent, while the router may still be waking it.  A later decision may   *)
(* name one of the candidates and replace it.  Memories and knowledge are  *)
(* in two databases, each statement is a transaction, and requests         *)
(* overlap, raise and die.                                                 *)
(*                                                                         *)
(* Texts, task contexts, muted scopes and the journal of corrections are   *)
(* left out: none of them is read back here.  So are the deletion of a     *)
(* decision's rows and the activations of later decisions.                 *)
(***************************************************************************)
EXTENDS Naturals, Sequences

CONSTANTS
    Correctors,      \* requests that may be under way at once
    Memories,        \* memory candidates of the decision
    Later,           \* decisions that come later
    Invalid,         \* statuses that an invalidating correction gives
    MaxCorrections,  \* bound: requests begun
    MaxStops         \* bound: requests that raise or are killed

ASSUME JanusConstants ==
    /\ Invalid \subseteq {"rejected", "private", "archived"} /\ "this" \notin Later
    /\ MaxCorrections \in Nat /\ MaxStops \in Nat

VARIABLES
    memory,      \* table active_memory_candidates: status of each
    link,        \* promoted_knowledge_id of each, 0 for none
    owner,       \* decision_id of each, "this" for the decision the module is about
    knowledge,   \* table cognitive_knowledge, as inserted: candidate, archived
    activation,  \* table janus_activations: status of the decision's row
    router,      \* thread that recorded the activation: "waking" or "gone"
    corrector,   \* locals of each request, see Calm
    corrections,
    \* what really happened, for the properties only
    suspect,     \* candidates that overlapping or dead requests may have left half done
    torn,        \* candidates that may have knowledge not linked: requests have overlapped,
                 \* or one died before it linked it
    dropped,     \* knowledge whose candidate was replaced
    refusal,     \* how the user has refused help, undisturbed: "none", "corrected",
                 \* "declined"
    stops

janusHistory == <<suspect, torn, dropped, refusal, stops>>
janusVars == <<memory, link, owner, knowledge, activation, router, corrector, corrections,
               janusHistory>>

Decisions == Later \cup {"this"}
Statuses == Invalid \cup {"candidate", "accepted"}

Calm == [pc     |-> "calm",
         kind   |-> "candidate",  \* status that the correction gives
         direct |-> FALSE,        \* it is at the candidate that it names
         answer |-> FALSE,        \* it declines the activation
         by     |-> "this",       \* decision whose candidates it goes through
         at     |-> "none",       \* candidate it works on
         todo   |-> {},           \* candidates left
         fresh  |-> {},           \* those of them that are not accepted yet
         id     |-> 0,            \* knowledge in hand
         alone  |-> TRUE]         \* no other request has been under way meanwhile

JanusInit ==
    /\ memory = [c \in Memories |-> "candidate"] /\ link = [c \in Memories |-> 0]
    /\ owner = [c \in Memories |-> "this"] /\ knowledge = <<>>
    /\ \/ activation = "pending" /\ router = "waking"
       \/ activation = "prepared" /\ router = "gone"
    /\ corrector = [q \in Correctors |-> Calm] /\ corrections = 0
    /\ suspect = {} /\ torn = {} /\ dropped = {} /\ refusal = "none" /\ stops = 0

Underway == {q \in Correctors : corrector[q].pc # "calm"}

\* A request comes in, to go on at pc.
Enter(q, locals) ==
    /\ corrector[q].pc = "calm" /\ corrections < MaxCorrections
    /\ corrections' = corrections + 1
    /\ corrector' = [r \in Correctors |->
                        IF r = q THEN [locals EXCEPT !.alone = (Underway = {})]
                        ELSE [corrector[r] EXCEPT !.alone = FALSE]]
    /\ suspect' = IF Underway = {} THEN suspect ELSE Memories
    /\ torn' = IF Underway = {} THEN torn ELSE Memories
    /\ UNCHANGED <<memory, link, owner, knowledge, activation, router, dropped, stops>>

CorrectCandidate(q) ==
    /\ \E kind \in Invalid \cup {"accepted"}, c \in Memories :
          Enter(q, [Calm EXCEPT !.pc = "status", !.kind = kind, !.direct = TRUE, !.at = c])
    /\ UNCHANGED refusal

CorrectDecision(q) ==
    /\ \E kind \in Invalid \cup {"accepted"}, d \in Decisions :
          Enter(q, [Calm EXCEPT !.pc = "cascade", !.kind = kind, !.by = d])
    /\ UNCHANGED refusal

Decline(q) ==
    /\ \E kind \in Invalid \ {"rejected"} :
          Enter(q, [Calm EXCEPT !.pc = "cascade", !.kind = kind, !.answer = TRUE])
    /\ UNCHANGED refusal

\* The request reads and writes the rows of candidates and knowledge only.
InMemory ==
    UNCHANGED <<owner, activation, router, corrections, torn, dropped, refusal, stops>>

Doing(q, pc) == corrector[q].pc = pc
Proceed(q, pc) == corrector' = [corrector EXCEPT ![q].pc = pc]

\* The request is done with a candidate.
Leave(q) ==
    LET me == corrector[q] IN
    /\ corrector' = [corrector EXCEPT
                       ![q] = IF me.direct /\ me.kind = "accepted" THEN Calm
                              ELSE IF me.direct THEN [@ EXCEPT !.pc = "whose", !.id = 0]
                              ELSE [@ EXCEPT !.pc = "next", !.at = "none", !.id = 0]]
    /\ suspect' = IF me.alone THEN suspect \ {me.at} ELSE suspect

SetStatusOnly(q) ==
    /\ Doing(q, "status")
    /\ memory' = [memory EXCEPT ![corrector[q].at] = corrector[q].kind]
    /\ IF corrector[q].kind = "archived" THEN Leave(q)
       ELSE /\ Proceed(q, IF corrector[q].kind = "accepted" THEN "look" ELSE "retract")
            /\ UNCHANGED suspect
    /\ UNCHANGED <<link, knowledge>> /\ InMemory

\* update_memory_candidate_status: whatever the status is.
SetStatus(q) ==
    /\ Doing(q, "status")
    /\ memory' = [memory EXCEPT ![corrector[q].at] = corrector[q].kind]
    /\ Proceed(q, IF corrector[q].kind = "accepted" THEN "look" ELSE "retract")
    /\ UNCHANGED <<link, knowledge, suspect>> /\ InMemory

\* promote_memory_candidate: the row, the knowledge that it names, a new record, the
\* row again.
LookAtCandidate(q) ==
    /\ Doing(q, "look")
    /\ IF memory[corrector[q].at] \in Invalid THEN Leave(q)
       ELSE /\ corrector' = [corrector EXCEPT ![q].pc = "check",
                                              ![q].id = link[corrector[q].at]]
            /\ UNCHANGED suspect
    /\ UNCHANGED <<memory, link, knowledge>> /\ InMemory

CheckNothing(q) ==
    /\ Doing(q, "check") /\ Proceed(q, "append")
    /\ UNCHANGED <<memory, link, knowledge, suspect>> /\ InMemory

CheckKnowledge(q) ==
    /\ Doing(q, "check")
    /\ IF corrector[q].id # 0 /\ ~knowledge[corrector[q].id].archived THEN Leave(q)
       ELSE Proceed(q, "append") /\ UNCHANGED suspect
    /\ UNCHANGED <<memory, link, knowledge>> /\ InMemory

AppendKnowledge(q) ==
    /\ Doing(q, "append")
    /\ knowledge' = Append(knowledge, [of |-> corrector[q].at, archived |-> FALSE])
    /\ corrector' = [corrector EXCEPT ![q].pc = "mark", ![q].id = Len(knowledge) + 1]
    /\ UNCHANGED <<memory, link, suspect>> /\ InMemory

MarkPromoted(q) ==
    /\ Doing(q, "mark")
    /\ link' = [link EXCEPT ![corrector[q].at] = corrector[q].id]
    /\ Leave(q)
    /\ UNCHANGED <<memory, knowledge>> /\ InMemory

\* retract_promoted_memory_candidate: the row, and the knowledge that it names.
ReadLink(q) ==
    /\ Doing(q, "retract")
    /\ IF link[corrector[q].at] = 0 THEN Leave(q)
       ELSE /\ corrector' = [corrector EXCEPT ![q].pc = "archive",
                                              ![q].id = link[corrector[q].at]]
            /\ UNCHANGED suspect
    /\ UNCHANGED <<memory, link, knowledge>> /\ InMemory

ArchiveKnowledge(q) ==
    /\ Doing(q, "archive")
    /\ knowledge' = [knowledge EXCEPT ![corrector[q].id].archived = TRUE]
    /\ Leave(q)
    /\ UNCHANGED <<memory, link>> /\ InMemory

\* A correction of a candidate goes on with the decision that the row names.
FindDecision(q) ==
    /\ Doing(q, "whose")
    /\ corrector' = [corrector EXCEPT
                       ![q].pc = "cascade", ![q].by = owner[corrector[q].at],
                       ![q].direct = FALSE, ![q].at = "none"]
    /\ UNCHANGED <<memory, link, knowledge, suspect>> /\ InMemory

\* The candidates of the decision, as they are now; of those a helpful correction
\* leaves out the invalid ones, another the ones that have its status already.
ReadCandidates(q) ==
    /\ Doing(q, "cascade")
    /\ corrector' = [corrector EXCEPT
                       ![q].pc = "next",
                       ![q].fresh = {c \in Memories : memory[c] # corrector[q].kind},
                       ![q].todo = {c \in Memories :
                                      /\ owner[c] = corrector[q].by
                                      /\ IF corrector[q].kind = "accepted"
                                         THEN memory[c] \notin Invalid
                                         ELSE memory[c] # corrector[q].kind}]
    /\ UNCHANGED <<memory, link, knowledge, suspect>> /\ InMemory

NextCandidate(q) ==
    /\ Doing(q, "next")
    /\ \E c \in corrector[q].todo :
          corrector' = [corrector EXCEPT
                          ![q].at = c, ![q].todo = @ \ {c}, ![q].fresh = @ \ {c},
                          ![q].pc = IF c \in corrector[q].fresh THEN "status" ELSE "look"]
    /\ UNCHANGED <<memory, link, knowledge, suspect>> /\ InMemory

LastCandidate(q) ==
    /\ Doing(q, "next") /\ corrector[q].todo = {}
    /\ IF corrector[q].kind = "accepted" \/ corrector[q].by # "this"
       THEN corrector' = [corrector EXCEPT ![q] = Calm]
       ELSE corrector' = [corrector EXCEPT ![q].pc = "activations", ![q].fresh = {}]
    /\ UNCHANGED <<memory, link, knowledge, suspect>> /\ InMemory

\* handle_event: a later decision whose model names a candidate that is there replaces
\* the row, whatever has become of it.
RecordCandidate(d) ==
    /\ \E c \in Memories :
          /\ memory' = [memory EXCEPT ![c] = "candidate"]
          /\ link' = [link EXCEPT ![c] = 0]
          /\ owner' = [owner EXCEPT ![c] = d]
          /\ dropped' = dropped \cup ({link[c]} \ {0})
    /\ UNCHANGED <<knowledge, activation, router, corrector, corrections,
                   suspect, torn, refusal, stops>>

-----------------------------------------------------------------------------
(***************************************************************************)
(* The activation.  Nobody looks at its status in the UPDATE.              *)
(***************************************************************************)
OnActivation ==
    UNCHANGED <<memory, link, owner, knowledge, corrections, suspect, torn, dropped, stops>>

Refuse(q, how) ==
    /\ corrector' = [corrector EXCEPT ![q] = Calm]
    /\ refusal' = IF corrector[q].alone /\ router = "gone" THEN how ELSE "none"

\* A correction skips what is not submitted yet; one that declines goes on.
ReadActivation(q) ==
    /\ Doing(q, "activations")
    /\ IF activation \in {"prepared", "pending"} THEN Proceed(q, "skip") /\ UNCHANGED refusal
       ELSE IF corrector[q].answer THEN Proceed(q, "decline") /\ UNCHANGED refusal
       ELSE Refuse(q, "corrected")
    /\ UNCHANGED <<activation, router>> /\ OnActivation

SkipActivation(q) ==
    /\ Doing(q, "skip")
    /\ activation' = "skipped"
    /\ IF corrector[q].answer THEN Proceed(q, "decline") /\ UNCHANGED refusal
       ELSE Refuse(q, "corrected")
    /\ UNCHANGED router /\ OnActivation

DeclineOpen(q) ==
    /\ Doing(q, "decline")
    /\ activation' = IF activation \in {"prepared", "pending"} THEN "skipped" ELSE activation
    /\ Refuse(q, "declined")
    /\ UNCHANGED router /\ OnActivation

\* The answer that declines skips the activation in any case.
DeclineActivation(q) ==
    /\ Doing(q, "decline")
    /\ activation' = "skipped"
    /\ Refuse(q, "declined")
    /\ UNCHANGED router /\ OnActivation

\* An answer that accepts prepares the activation, one that wakes the agent submits
\* it behind the run.
Accept(q) ==
    /\ Enter(q, [Calm EXCEPT !.pc = "accept"])
    /\ refusal' = "none"

PrepareActivation(q) ==
    /\ Doing(q, "accept")
    /\ activation' \in {"prepared", "submitted"}
    /\ corrector' = [corrector EXCEPT ![q] = Calm]
    /\ refusal' = "none"
    /\ UNCHANGED router /\ OnActivation

\* The router's own run of the agent is over, or was not allowed.
EndsQuietly ==
    /\ router = "waking" /\ router' = "gone"
    /\ activation' \in {activation, "submitted", "skipped"}
    /\ UNCHANGED <<corrector, refusal>> /\ OnActivation

RouterEnds ==
    /\ router = "waking" /\ router' = "gone"
    /\ activation' \in {"submitted", "failed", "skipped"}
    /\ UNCHANGED <<corrector, refusal>> /\ OnActivation

\* A request raises, or its process is killed, the router's thread along with it.
Stop(q) ==
    /\ corrector[q].pc # "calm" /\ stops < MaxStops
    /\ stops' = stops + 1
    /\ corrector' = [corrector EXCEPT ![q] = Calm]
    /\ router' \in {router, "gone"}
    /\ suspect' = Memories
    /\ torn' = torn \cup IF Doing(q, "mark") THEN {corrector[q].at} ELSE {}
    /\ refusal' = "none"
    /\ UNCHANGED <<memory, link, owner, knowledge, activation, corrections, dropped>>

Promote(q) == LookAtCandidate(q) \/ CheckKnowledge(q) \/ AppendKnowledge(q) \/ MarkPromoted(q)
Retract(q) == ReadLink(q) \/ ArchiveKnowledge(q)
CorrectorStep(q) ==
    \/ CorrectCandidate(q) \/ CorrectDecision(q) \/ Decline(q) \/ Accept(q)
    \/ SetStatus(q) \/ Promote(q) \/ Retract(q)
    \/ FindDecision(q) \/ ReadCandidates(q) \/ NextCandidate(q) \/ LastCandidate(q)
    \/ ReadActivation(q) \/ SkipActivation(q) \/ DeclineActivation(q)
    \/ PrepareActivation(q) \/ Stop(q)

JanusNext ==
    \/ RouterEnds
    \/ \E d \in Later : RecordCandidate(d)
    \/ \E q \in Correctors : CorrectorStep(q)

JanusSpec == JanusInit /\ [][JanusNext]_janusVars
-----------------------------------------------------------------------------
(* The type invariant: what the tables and the locals may hold. *)
JanusTypeOK ==
    /\ memory \in [Memories -> Statuses]
    /\ owner \in [Memories -> Decisions]
    /\ knowledge \in Seq([of : Memories, archived : BOOLEAN])
    /\ \A c \in Memories :
        link[c] # 0 => link[c] \in DOMAIN knowledge /\ knowledge[link[c]].of = c
    /\ activation \in {"prepared", "pending", "submitted", "skipped", "failed"}
    /\ activation = "pending" => router = "waking" \/ stops > 0
    /\ router \in {"waking", "gone"}
    /\ \A q \in Correctors :
        /\ corrector[q].pc \in {"calm", "status", "look", "check", "append", "mark",
                                "retract", "archive", "whose", "cascade", "next",
                                "activations", "skip", "decline", "accept"}
        /\ corrector[q].kind \in Statuses /\ corrector[q].by \in Decisions
        /\ corrector[q].at \in Memories \cup {"none"}
        /\ corrector[q].fresh \cup corrector[q].todo \subseteq Memories
        /\ corrector[q].id \in 0..Len(knowledge)
    /\ suspect \cup torn \subseteq Memories /\ dropped \subseteq DOMAIN knowledge
    /\ refusal \in {"none", "corrected", "declined"}
    /\ corrections \in 0..MaxCorrections /\ stops \in 0..MaxStops

(***************************************************************************)
(* Safety, with corrections that overlap, raise and die.                   *)
(***************************************************************************)

Kept(k) == ~knowledge[k].archived

\* What a correction has invalidated does not go on as knowledge, unless requests
\* have overlapped or died; and any later correction that is left alone and does not
\* pass over the candidate makes good what they left (service.py,
\* record_user_correction; a cascade passes over the candidates that have the
\* status already, retracted or not).
InvalidIsRetracted ==
    Underway = {} => \A c \in Memories :
        memory[c] \in Invalid /\ link[c] # 0 => ~Kept(link[c]) \/ c \in suspect

\* A candidate has at most one record of knowledge that counts, the one its row
\* names, however often it is promoted, retracted and promoted again, but for those
\* whose row a later decision replaced, unless two requests overlap or one dies between
\* the record and its row.
KnowledgeIsLinked ==
    \A k \in DOMAIN knowledge :
        Kept(k) => \/ link[knowledge[k].of] = k \/ k \in dropped
                   \/ knowledge[k].of \in torn
                   \/ \E q \in Correctors : Doing(q, "mark") /\ corrector[q].id = k

\* The planner's knowledge follows what the user has made of the candidates.
KnowledgeFollows == InvalidIsRetracted /\ KnowledgeIsLinked

\* A refusal that nothing disturbed stays: what was declined reads as skipped even if
\* the agent was woken for it, and what was corrected is not offered any more.
RefusalStays ==
    /\ refusal = "declined" => activation = "skipped"
    /\ refusal = "corrected" => activation \notin {"prepared", "pending"}
=============================================================================
