--------------------------- MODULE MCIntentEscrow ---------------------------
(***************************************************************************)
(* Two intents of one user; what may be recorded and by whom is in the     *)
(* configuration.                                                          *)
(***************************************************************************)
EXTENDS IntentEscrow
=============================================================================
