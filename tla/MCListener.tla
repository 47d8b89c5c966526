------------------------------- MODULE MCListener -------------------------------
(* CCMListener for TLC. *)
EXTENDS CCMListener
================================================================================
