---------------------------- MODULE MCVoiceSocket ----------------------------
(* One socket that talks, another of the same guest that only listens; the *)
(* window holds one exchange.                                              *)
EXTENDS VoiceSocket

CONSTANTS s1, s2
Talkative == [s \in Sockets |-> IF s = s1 THEN 3 ELSE 0]
=============================================================================
