------------------------------- MODULE Spnego -------------------------------
(***************************************************************************)
(* The DER codec of SPNEGO tokens (proto/auth/spnego.rs) on sequences of   *)
(* bytes.  Positions count from 0 as in the code.                          *)
(***************************************************************************)
EXTENDS Bytes

TAG_SEQUENCE == 48
TAG_OBJECT == 6
TAG_OCTET == 4
TAG_ENUMERATED == 10
TAG_APP_0 == 96
TAG_CTX == [n \in 0 .. 3 |-> 160 + n]

OID_SPNEGO == <<43, 6, 1, 5, 5, 2>>
OID_NTLMSSP == <<43, 6, 1, 4, 1, 130, 55, 2, 2, 10>>

(* NegState.                                                               *)
AcceptCompleted == 0
AcceptIncomplete == 1
NegStates == 0 .. 3

(* An optional field that is absent.                                       *)
None == [absent |-> TRUE]

-----------------------------------------------------------------------------
(* Lengths.                                                                *)

(* The fewest bytes that hold n > 0.                                       *)
ByteCount(n) == Min({k \in 1 .. 4 : n \div 256 ^ (k - 1) < 256})

(* n in k bytes, the most significant first.                               *)
BigEndian(n, k) == [i \in 1 .. k |-> (n \div 256 ^ (k - i)) % 256]

der_len(n) ==
    IF n < 128 THEN <<n>> ELSE <<128 + ByteCount(n)>> \o BigEndian(n, ByteCount(n))

write_tlv(tag, content) == <<tag>> \o der_len(Len(content)) \o content

(* The length at pos and the position after it.                            *)
read_len(b, pos) ==
    LET nb == b[pos + 1] - 128
        value[i \in 0 .. nb] == IF i = 0 THEN 0 ELSE 256 * value[i - 1] + b[pos + 1 + i]
    IN  IF pos >= Len(b) THEN Err
        ELSE IF b[pos + 1] < 128 THEN [len |-> b[pos + 1], next |-> pos + 1]
        ELSE IF nb = 0 \/ nb > 4 \/ pos + 1 + nb > Len(b) THEN Err
        ELSE [len |-> value[nb], next |-> pos + 1 + nb]

(* Mutant: content that is cut off is taken as far as it goes.             *)
read_any_tlv_Unchecked(b, pos) ==
    LET l == read_len(b, pos + 1)
        end == Min({Len(b), l.next + l.len})
    IN  IF pos >= Len(b) THEN Err
        ELSE IF Failed(l) THEN Err
        ELSE [tag |-> b[pos + 1], content |-> SubSeq(b, l.next + 1, end), next |-> end]

read_any_tlv(b, pos) ==
    LET l == read_len(b, pos + 1)
    IN  IF pos >= Len(b) THEN Err
        ELSE IF Failed(l) THEN Err
        ELSE IF l.next + l.len > Len(b) THEN Err
        ELSE [tag |-> b[pos + 1], content |-> SubSeq(b, l.next + 1, l.next + l.len),
              next |-> l.next + l.len]

read_tlv(b, pos, tag) ==
    LET r == read_any_tlv(b, pos)
    IN  IF pos < Len(b) /\ b[pos + 1] # tag THEN Err ELSE r

-----------------------------------------------------------------------------
(* The TLVs of b one after the other; Err for one that is cut off.         *)
Tlvs(b) ==
    LET from[pos \in 0 .. Len(b)] ==
            LET r == read_any_tlv(b, pos)
            IN  IF pos = Len(b) THEN <<>>
                ELSE IF Failed(r) THEN <<Err>> ELSE <<r>> \o from[r.next]
    IN  from[0]

(* Put(t, tag, content) is token t with one more field, or Err.            *)
FoldTlvs(b, Put(_, _, _), init) ==
    LET Step(t, r) ==
            IF Failed(t) THEN Err ELSE IF Failed(r) THEN Err ELSE Put(t, r.tag, r.content)
    IN  FoldLeft(Step, init, Tlvs(b))

(* The token with field f set to the content of the TLV in c.              *)
SetTo(t, f, c, tag) ==
    LET r == read_tlv(c, 0, tag)
    IN  IF Failed(r) THEN Err ELSE [t EXCEPT ![f] = [some |-> r.content]]

(* mechTypes: a SEQUENCE of OBJECT IDENTIFIERs.                            *)
AddMechTypes(t, c) ==
    LET seq == read_tlv(c, 0, TAG_SEQUENCE)
        Put(l, tag, oid) ==
            IF tag # TAG_OBJECT THEN Err ELSE [l EXCEPT !.mech_types = Append(@, oid)]
    IN  IF Failed(seq) THEN Err ELSE FoldTlvs(seq.content, Put, t)

PutInit(t, tag, c) ==
    CASE tag = TAG_CTX[0] -> AddMechTypes(t, c)
      [] tag = TAG_CTX[2] -> SetTo(t, "mech_token", c, TAG_OCTET)
      [] OTHER -> t                       \* reqFlags, mechListMIC, unknown

(* The content of nested TLVs with the given tags, or Err.                 *)
Unwrap(b, pos, tag, inner) ==
    LET r == read_tlv(b, pos, tag)
    IN  IF Failed(r) THEN Err ELSE read_tlv(r.content, 0, inner)

decode_init_token(b) ==
    LET gss == read_tlv(b, 0, TAG_APP_0)
        mech == read_tlv(gss.content, 0, TAG_OBJECT)
        seq == Unwrap(gss.content, mech.next, TAG_CTX[0], TAG_SEQUENCE)
    IN  IF Failed(gss) THEN Err
        ELSE IF Failed(mech) THEN Err
        ELSE IF mech.content # OID_SPNEGO THEN Err
        ELSE IF Failed(seq) THEN Err
        ELSE FoldTlvs(seq.content, PutInit, [mech_types |-> <<>>, mech_token |-> None])

PutResp(t, tag, c) ==
    LET en == read_tlv(c, 0, TAG_ENUMERATED)
    IN  CASE tag = TAG_CTX[0] ->
               IF Failed(en) THEN Err
               ELSE IF Len(en.content) # 1 THEN Err
               ELSE IF en.content[1] \notin NegStates THEN Err
               ELSE [t EXCEPT !.neg_state = [some |-> en.content]]
          [] tag = TAG_CTX[1] -> SetTo(t, "supported_mech", c, TAG_OBJECT)
          [] tag = TAG_CTX[2] -> SetTo(t, "response_token", c, TAG_OCTET)
          [] tag = TAG_CTX[3] -> SetTo(t, "mech_list_mic", c, TAG_OCTET)
          [] OTHER -> t

NoResp == [neg_state |-> None, supported_mech |-> None, response_token |-> None,
           mech_list_mic |-> None]

decode_resp_token(b) ==
    LET seq == Unwrap(b, 0, TAG_CTX[1], TAG_SEQUENCE)
    IN  IF Failed(seq) THEN Err ELSE FoldTlvs(seq.content, PutResp, NoResp)

-----------------------------------------------------------------------------
(* Encoders.                                                               *)

encode_init_response ==
    LET mechs == write_tlv(TAG_CTX[0], write_tlv(TAG_SEQUENCE, write_tlv(TAG_OBJECT, OID_NTLMSSP)))
    IN  write_tlv(TAG_APP_0, write_tlv(TAG_OBJECT, OID_SPNEGO)
                    \o write_tlv(TAG_CTX[0], write_tlv(TAG_SEQUENCE, mechs)))

EncodeField(n, tag, v) ==
    IF v = None THEN <<>> ELSE write_tlv(TAG_CTX[n], write_tlv(tag, v.some))

encode_resp_token(t) ==
    write_tlv(TAG_CTX[1], write_tlv(TAG_SEQUENCE,
        EncodeField(0, TAG_ENUMERATED, t.neg_state)
            \o EncodeField(1, TAG_OBJECT, t.supported_mech)
            \o EncodeField(2, TAG_OCTET, t.response_token)
            \o EncodeField(3, TAG_OCTET, t.mech_list_mic)))
=============================================================================
