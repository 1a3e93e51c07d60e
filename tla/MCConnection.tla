--------------------------- MODULE MCConnection ---------------------------
(* Instances of Connection for TLC. *)
EXTENDS Connection, TLC
CONSTANTS e1, e2
=============================================================================
