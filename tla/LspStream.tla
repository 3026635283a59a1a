----------------------------- MODULE LspStream -----------------------------
(***************************************************************************)
(* What LSP promises: independent, reliable, ordered streams of payloads.  *)
(* The reader of a stream gets the payloads of its writer, in order and    *)
(* without gaps, and a stream that is finished has been read completely.   *)
(***************************************************************************)
EXTENDS Integers, Sequences

CONSTANTS Streams, Payload

VARIABLES sent, received, finished

streamVars == <<sent, received, finished>>

Init ==
  /\ sent = [s \in Streams |-> <<>>]
  /\ received = [s \in Streams |-> <<>>]
  /\ finished = [s \in Streams |-> FALSE]

Write(s, p) ==
  /\ sent' = [sent EXCEPT ![s] = Append(@, p)]
  /\ UNCHANGED <<received, finished>>

Deliver(s) ==
  /\ ~finished[s]
  /\ Len(received[s]) < Len(sent[s])
  /\ received' = [received EXCEPT ![s] = Append(@, sent[s][Len(@) + 1])]
  /\ UNCHANGED <<sent, finished>>

Finish(s) ==
  /\ received[s] = sent[s]
  /\ finished' = [finished EXCEPT ![s] = TRUE]
  /\ UNCHANGED <<sent, received>>

Next == \E s \in Streams : (\E p \in Payload : Write(s, p)) \/ Deliver(s) \/ Finish(s)

Spec == Init /\ [][Next]_streamVars
=============================================================================
