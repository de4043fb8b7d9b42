---------------------------- MODULE MCCollectorLog ----------------------------
(* CollectorLog with the constants TLC needs. *)
EXTENDS CollectorLog

\* Two copying consumers; the real order has the memory mirror in front of Janus.
CopyingKind == [memory |-> "mirror", janus |-> "router"]
CopyingOrder == <<"memory", "janus">>

\* A consumer of each of the other kinds beside Janus, in the order of
\* run_collector_tick.
OtherKinds == [ui_stream |-> "stream", janus |-> "router", attention_batch |-> "attention"]
OtherOrder == <<"ui_stream", "janus", "attention_batch">>
===============================================================================
