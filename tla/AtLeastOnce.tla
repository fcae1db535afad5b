------------------------------- MODULE AtLeastOnce -------------------------------
(***************************************************************************)
(* What a consumer group promises about one partition: messages are        *)
(* settled in log order, a message only after every earlier one, and an    *)
(* offset is committed only past messages that are settled.  A message is  *)
(* settled when each of its handlers has succeeded or given up into the    *)
(* dead-letter queue; settling twice is allowed, skipping is not.          *)
(***************************************************************************)
EXTENDS Integers

CONSTANTS Length,      \* messages of the partition: offsets 0 .. Length - 1
          Steps        \* [offset -> the handlers its message has to go through]

VARIABLES settled,     \* [offset, handler]
          committed    \* where a restarted consumer resumes

vars == <<settled, committed>>

Settled(o) == \A h \in Steps[o] : [offset |-> o, handler |-> h] \in settled

Init == settled = {} /\ committed = 0

Settle == /\ \E o \in 0..(Length - 1) : \E h \in Steps[o] :
               /\ \A p \in 0..(o - 1) : Settled(p)
               /\ settled' = settled \cup {[offset |-> o, handler |-> h]}
          /\ UNCHANGED committed

\* Nothing keeps the committed offset from moving back.
Commit == /\ \E n \in 0..Length : /\ \A p \in 0..(n - 1) : Settled(p)
                                  /\ committed' = n
          /\ UNCHANGED settled

Next == Settle \/ Commit

Spec == Init /\ [][Next]_vars
=============================================================================
