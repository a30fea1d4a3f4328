---------------------------- MODULE MCSessionSetup ----------------------------
(* SessionSetup for TLC; the bounds are given in the configurations.       *)
EXTENDS SessionSetup
=============================================================================
