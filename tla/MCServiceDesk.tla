---------------------------- MODULE MCServiceDesk ----------------------------
(* One request of a guest, a member of the staff and a manager. *)
EXTENDS ServiceDesk, TLC

CONSTANTS alice, sam, mia
Roles == alice :> "guest" @@ sam :> "staff" @@ mia :> "manager"
FiledFor == [q \in Requests |-> alice]
=============================================================================
