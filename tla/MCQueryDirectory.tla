-------------------------- MODULE MCQueryDirectory --------------------------
(* An instance of QueryDirectory for TLC.                                  *)
EXTENDS QueryDirectory

CONSTANTS a, b, c

(* Names of 1, 2 and 13 units: with 12 bytes before them they take 14, 16  *)
(* and 38 bytes, padded or exact.                                          *)
MCNameLen == [n \in Names |-> CASE n = a -> 1 [] n = b -> 2 [] n = c -> 13]

(* Everything, one name, nothing.                                          *)
MCPatterns == {Names, {a}, {}}

(* Less than any entry; one entry less its padding; two entries exactly,   *)
(* and with the padding of one missing; all three.                         *)
MCCaps == {8, 14, 30, 32, 80}
=============================================================================
