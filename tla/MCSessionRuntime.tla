-------------------------- MODULE MCSessionRuntime --------------------------
(***************************************************************************)
(* Instances of SessionRuntime: s1 is a prompt, which may steer, s2 an     *)
(* admitted turn; two runtimes are enough for one that closes and the one  *)
(* that takes its place.                                                   *)
(***************************************************************************)
EXTENDS SessionRuntime

CONSTANTS s1, s2, r1, r2
=============================================================================
