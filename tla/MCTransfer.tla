---------------------------- MODULE MCTransfer ----------------------------
(* Instances of Transfer for TLC. *)
EXTENDS Transfer, TLC
CONSTANTS r1, r2, m1, m2, d1, d2
\* One message with two attachments, and two messages with the same bytes.
OneMessage == [r \in Rows |-> m1]
OneEach == (r1 :> m1) @@ (r2 :> m2)
OtherBytes == (r1 :> d1) @@ (r2 :> d2)
SameBytes == [r \in Rows |-> d1]
=============================================================================
