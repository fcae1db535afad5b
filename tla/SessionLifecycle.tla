---------------------------- MODULE SessionLifecycle ----------------------------
(***************************************************************************)
(* What the voice-session resource promises the rest of the hotel when     *)
(* only its documented routes are used: a session is opened once, closes   *)
(* and stays closed, and a service request appears only for a session that *)
(* was opened, once per turn, and after its "created" event was handed to  *)
(* Kafka.  How many workers serve the sessions, how far the replica lags   *)
(* and what crashes is invisible here.                                     *)
(***************************************************************************)
CONSTANTS Sessions, Turns

VARIABLES
    phase,      \* "unopened", "open" or "closed"
    announced,  \* requests whose "created" event was published
    created     \* requests that exist

vars == <<phase, announced, created>>

Request == [sid : Sessions, turn : Turns]

TypeOK == /\ phase \in [Sessions -> {"unopened", "open", "closed"}]
          /\ announced \subseteq Request
          /\ created \subseteq Request

Init == /\ phase = [s \in Sessions |-> "unopened"]
        /\ announced = {}
        /\ created = {}

Open(s) == /\ phase[s] = "unopened"
           /\ phase' = [phase EXCEPT ![s] = "open"]
           /\ UNCHANGED <<announced, created>>

\* The clean-up closes every stale session in one statement.
Close == /\ \E closing \in (SUBSET {s \in Sessions : phase[s] = "open"}) \ {{}} :
              phase' = [s \in Sessions |-> IF s \in closing THEN "closed" ELSE phase[s]]
         /\ UNCHANGED <<announced, created>>

Announce == /\ \E r \in Request : /\ phase[r.sid] # "unopened"
                                  /\ announced' = announced \cup {r}
            /\ UNCHANGED <<phase, created>>

Create == /\ \E r \in announced \ created : created' = created \cup {r}
          /\ UNCHANGED <<phase, announced>>

Next == (\E s \in Sessions : Open(s)) \/ Close \/ Announce \/ Create

Spec == Init /\ [][Next]_vars
=============================================================================
