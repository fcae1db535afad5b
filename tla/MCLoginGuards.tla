---------------------------- MODULE MCLoginGuards ----------------------------
(* Windows and blocks of one tick. *)
EXTENDS LoginGuards, TLC

SmallLimit == [p \in Paths |-> IF p = "token" THEN 2 ELSE 1]
SmallWindow == [p \in Paths |-> 1]
AccountSymmetry == Permutations(Workers) \cup Permutations(Emails)
=============================================================================
