------------------------------ MODULE GuestNotices ------------------------------
(***************************************************************************)
(* What the hotel promises its guests about the completions of service     *)
(* requests, without views, queues, offsets and crashes: every completion  *)
(* that is saved is owed to its guest until he was told or it was lost.    *)
(* ServiceDesk implements it.                                              *)
(***************************************************************************)
CONSTANT Owable   \* what a guest can be told: a completion and whose it is

VARIABLES
    saved,   \* completions that were saved
    owed,    \* those on their way to the guest
    told,    \* those the guest was told of
    lost     \* those given up

vars == <<saved, owed, told, lost>>

Init == saved = {} /\ owed = {} /\ told = {} /\ lost = {}

Save(n) ==
    /\ saved' = saved \cup {n}
    /\ owed' = owed \cup {n}
    /\ UNCHANGED <<told, lost>>

\* At least once: what was told stays owed until it is settled.
Tell(n) ==
    /\ n \in owed
    /\ told' = told \cup {n}
    /\ UNCHANGED <<saved, owed, lost>>

\* What is lost may still be under way to being settled.
Lose(S) ==
    /\ lost' = lost \cup S
    /\ \E gone \in SUBSET S : owed' = owed \ gone
    /\ UNCHANGED <<saved, told>>

Settle(n) ==
    /\ n \in owed \cap (told \cup lost)
    /\ owed' = owed \ {n}
    /\ UNCHANGED <<saved, told, lost>>

Next == \/ \E n \in Owable : Save(n) \/ Tell(n) \/ Settle(n)
        \/ \E S \in SUBSET owed : Lose(S)

Spec == Init /\ [][Next]_vars
=============================================================================
