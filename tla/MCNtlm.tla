------------------------------- MODULE MCNtlm -------------------------------
(* An instance of Ntlm for TLC: the table has bob, not BOB; the two names  *)
(* hash alike.                                                             *)
EXTENDS Ntlm

MCUserNames == {"bob", "BOB"}
MCUpper == [u \in MCUserNames |-> "BOB"]
MCTable == [u \in MCUserNames |-> IF u = "bob" THEN "pw1" ELSE NoUser]
=============================================================================
