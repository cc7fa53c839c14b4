--------------------------- MODULE MCTriggerEval ---------------------------
(***************************************************************************)
(* Instances of TriggerEval for TLC.                                       *)
(***************************************************************************)
EXTENDS TriggerEval

=============================================================================
