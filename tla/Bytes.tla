-------------------------------- MODULE Bytes --------------------------------
(***************************************************************************)
(* Byte sequences as the codecs of the crate read and write them.  Byte i  *)
(* of the code is b[i + 1].  A decoder returns a value or Err.             *)
(***************************************************************************)
EXTENDS Integers, SequencesExt

Err == [err |-> TRUE]
Failed(r) == "err" \in DOMAIN r

Zeros(n) == [i \in 1 .. n |-> 0]

(* n in w bytes, the least significant first (to_le_bytes), for n < 2^31.  *)
Le(n, w) == [i \in 1 .. w |-> IF i > 4 THEN 0 ELSE (n \div 256 ^ (i - 1)) % 256]

(* from_le_bytes.  No message here is as long as 2^24 bytes, and numbers   *)
(* from there on are all alike: too large.                                 *)
TooLarge == 2 ^ 24
Num(b) ==
    IF \E i \in DOMAIN b : i > 3 /\ b[i] # 0 THEN TooLarge
    ELSE LET v[i \in 0 .. Len(b)] ==
                 IF i = 0 THEN 0 ELSE v[i - 1] + (IF i > 3 THEN 0 ELSE b[i] * 256 ^ (i - 1))
         IN  v[Len(b)]

(* slice.get(from .. from + len); Err if it is not within b.               *)
Slice(b, from, len) ==
    IF from + len > Len(b) THEN Err ELSE [bytes |-> SubSeq(b, from + 1, from + len)]

(* Bytes missing at position n to a multiple of 8.                         *)
Pad8(n) == (8 - (n % 8)) % 8
=============================================================================
