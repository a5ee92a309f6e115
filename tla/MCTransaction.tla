---------------------------- MODULE MCTransaction ----------------------------
(* A transaction one step longer than the three the route service builds;
   the first and the third step may fail uncleanly. *)
EXTENDS Transaction

MCUnclean == {1, 3}
=============================================================================
