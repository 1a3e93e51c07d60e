------------------------------ MODULE MCNotify ------------------------------
(* Pages for the notices: a laptop and a phone. *)
EXTENDS Notify

CONSTANTS laptop, phone
=============================================================================
