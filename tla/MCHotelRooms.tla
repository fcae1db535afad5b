----------------------------- MODULE MCHotelRooms -----------------------------
(* The model as it stands, with TLC's model values. *)
EXTENDS HotelRooms
=============================================================================
