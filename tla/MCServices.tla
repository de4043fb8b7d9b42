------------------------------ MODULE MCServices ------------------------------
(***************************************************************************)
(* Components that share no state with each other, in one run: part says   *)
(* which of them a behaviour is about, the others stay in their initial    *)
(* states.                                                                 *)
(***************************************************************************)
EXTENDS ChannelListener, ChatMessage, CollectorTick

CONSTANTS t1, t2, h1

\* Two ticks, or a tick and a webhook.
AllGroups == {{t1, t2}, {t1, h1}}

VARIABLE part

servicesVars == <<part, listenerVars, chatVars, tickVars>>

ServicesInit ==
    /\ part \in {"listener", "chat", "tick"}
    /\ ListenerInit /\ ChatInit /\ TickInit
    /\ part = "listener" \/ caller[h1] = Absent
    /\ part = "chat" \/ worker.pc = "start"

ServicesNext ==
    /\ UNCHANGED part
    /\ \/ /\ part = "listener" /\ ListenerNext /\ UNCHANGED <<chatVars, tickVars>>
          /\ listenerFaults' = 0 \/ caller[t2].pc = "absent"  \* two ticks: no fault
       \/ part = "chat" /\ ChatNext /\ UNCHANGED <<listenerVars, tickVars>>
       \/ part = "tick" /\ TickNext /\ UNCHANGED <<listenerVars, chatVars>>

\* ListenerFairness, ChatFairness and TickFairness for the component that moves.
ServicesFairness ==
    /\ \A t \in Ticks : /\ WF_listenerVars(part = "listener" /\ Working(t))
                        /\ SF_listenerVars(part = "listener" /\ LoadState(t))
    /\ \A h \in Hooks : WF_listenerVars(part = "listener" /\ Finishing(h))
    /\ WF_chatVars(part = "chat" /\ \E s \in Listers : Sync(s))
    /\ WF_tickVars(part = "tick" /\ \E r \in Runners : RunnerStep(r))

\* The type invariants of the components.
ServicesTypeOK == ListenerTypeOK /\ ChatTypeOK /\ TickTypeOK

ServicesSpec == ServicesInit /\ [][ServicesNext]_servicesVars /\ ServicesFairness
===============================================================================
