----------------------------- MODULE MCJsonStore -----------------------------
(* Writers and readers of one route table. *)
EXTENDS JsonStore

CONSTANTS w1, w2, q1, q2
=============================================================================
