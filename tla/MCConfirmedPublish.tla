------------------------- MODULE MCConfirmedPublish -------------------------
(* ConfirmedPublish on a few attempts, for TLC. *)
EXTENDS ConfirmedPublish

CONSTANTS p, q, u
=============================================================================
