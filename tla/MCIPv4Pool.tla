---------------------------- MODULE MCIPv4Pool ----------------------------
(***************************************************************************)
(* IPv4Pool on two documentation nets of two hosts and three source nets:  *)
(* six addresses for four slots, so that nets collapse, owners lose their  *)
(* slot to the fallback and the pool runs out.                             *)
(***************************************************************************)
EXTENDS IPv4Pool
===========================================================================
