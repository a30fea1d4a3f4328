------------------------------ MODULE NtlmProofs ------------------------------
(***************************************************************************)
(* Proofs about Ntlm for any exchanges, users, passwords, tables, altered  *)
(* messages and offsets of payloads.                                       *)
(*                                                                         *)
(* The properties look back from what authenticate has returned to the     *)
(* client that made the message.  NtlmInv keeps what connects the two:     *)
(* every message in the network is the answer of the client of some        *)
(* exchange, altered at most in its flags, name, lengths and offsets       *)
(* (Answered, SentByClients, Judged); the challenge of an exchange stays   *)
(* what it was when its client saw it (Engaged).                           *)
(***************************************************************************)
EXTENDS Ntlm, TLAPS

Acceptors == [pending : BOOLEAN, negotiate : SUBSET Flags,
              challenge : [number : Nat, flags : SUBSET Flags]]

(* What Answer computes: the key of the client of x and its message, for   *)
(* challenge c, before and after the MIC is filled in.                     *)
Owf(user, pw) == ntowf_v2(nt_hash(pw), user, "dom")
Proof(x, user, pw, c) == NtProof(Owf(user, pw), c.number, <<"Blob", x>>)
Base(x, user, pw, c) == SessionBaseKey(Owf(user, pw), Proof(x, user, pw, c))
OwnKey(x, user, pw, c) ==
    IF KeyExch \in c.flags THEN <<"Random", x>> ELSE Base(x, user, pw, c)
LayoutOf(c, base) == Layout(base, 6, 44, IF KeyExch \in c.flags THEN 16 ELSE 0)
Bare(x, user, pw, c, base) ==
    [type |-> "AUTHENTICATE", len |-> LayoutOf(c, base).len,
     fields |-> LayoutOf(c, base).fields, flags |-> c.flags, user |-> user,
     domain |-> "dom", nt |-> [proof |-> Proof(x, user, pw, c), blob |-> <<"Blob", x>>],
     key |-> IF KeyExch \in c.flags
               THEN Rc4(Base(x, user, pw, c), <<"Random", x>>) ELSE ZeroKey,
     mic |-> ZeroKey]
Full(x, user, pw, offered, c, base) ==
    IF base < 88 THEN Bare(x, user, pw, c, base)
    ELSE [Bare(x, user, pw, c, base) EXCEPT
            !.mic = Mic(OwnKey(x, user, pw, c), offered, c, Bare(x, user, pw, c, base))]

(* The answer of a client, to the challenge of its own exchange.           *)
AnsweredBy(x, user, base) ==
    /\ client[x].pw \in Passwords
    /\ client[x].got.number = acceptor[x].challenge.number
    /\ client[x].key = OwnKey(x, user, client[x].pw, client[x].got)
    /\ client[x].msg =
          Full(x, user, client[x].pw, client[x].offered, client[x].got, base)
Answered ==
    \A x \in Exchanges : client[x].st = "answered" =>
        \E user \in UserNames, base \in Bases : AnsweredBy(x, user, base)

SentByClients ==
    \A m \in sent : \E x \in Exchanges :
        client[x].st = "answered" /\ m = client[x].msg

(* An acceptor exists, and has judged, only after the first round.         *)
Engaged ==
    \A x \in Exchanges :
        /\ client[x].st = "none" => ~acceptor[x].pending /\ outcome[x].is = "none"
        /\ acceptor[x].challenge.number \in {0, x}
        /\ acceptor[x].pending => outcome[x].is = "none"

(* What was returned is the verdict about a message that was sent.         *)
Judged ==
    \A x \in Exchanges : outcome[x].is # "none" =>
        \E a \in sent : \E m \in {a} \cup Altered(a) :
            /\ outcome[x].msg = m
            /\ outcome[x].is = Verdict(x, m)
            /\ outcome[x].is = "user" => outcome[x].key = SessionKey(x, m)

Domains ==
    /\ acceptor \in [Exchanges -> Acceptors]
    /\ DOMAIN client = Exchanges /\ client = [x \in Exchanges |-> client[x]]
    /\ DOMAIN outcome = Exchanges /\ outcome = [x \in Exchanges |-> outcome[x]]

(* The inductive invariant.                                                *)
NtlmInv ==
    /\ Domains
    /\ TypeOK
    /\ Answered
    /\ SentByClients
    /\ Engaged
    /\ Judged

-----------------------------------------------------------------------------
(* Terms.  Two are equal only if they were made from the same parts.       *)

LEMMA SameOwf ==
    ASSUME NEW p, NEW u, NEW d, NEW q, NEW v, NEW e,
           ntowf_v2(nt_hash(p), u, d) = ntowf_v2(nt_hash(q), v, e)
    PROVE  p = q /\ Upper[u] = Upper[v] /\ d = e
BY DEF ntowf_v2, nt_hash

LEMMA SameProof ==
    ASSUME NEW k, NEW n, NEW b, NEW l, NEW o, NEW c, NtProof(k, n, b) = NtProof(l, o, c)
    PROVE  k = l /\ n = o /\ b = c
BY DEF NtProof

LEMMA SameMic ==
    ASSUME NEW k, NEW n, NEW c, NEW m, NEW l, NEW o, NEW d, NEW a,
           Mic(k, n, c, m) = Mic(l, o, d, a)
    PROVE  k = l /\ n = o /\ c = d /\ m = a
BY DEF Mic

LEMMA MicIsNotZero ==
    ASSUME NEW k, NEW n, NEW c, NEW m
    PROVE  Mic(k, n, c, m) # ZeroKey
<1>1. Mic(k, n, c, m)[1] = "MIC" /\ ZeroKey[1] = "Zero"
  BY DEF Mic, ZeroKey
<1> QED BY <1>1

(* RC4 with the same key undoes itself.                                    *)
LEMMA Rc4Undoes ==
    ASSUME NEW base, NEW x
    PROVE  Rc4(base, Rc4(base, <<"Random", x>>)) = <<"Random", x>>
<1>1. Rc4(base, <<"Random", x>>) = <<"RC4", base, <<"Random", x>>>>
  BY DEF Rc4
<1>2. Rc4(base, <<"RC4", base, <<"Random", x>>>>) = <<"Random", x>>
  BY DEF Rc4
<1> QED BY <1>1, <1>2

-----------------------------------------------------------------------------
(* Messages.                                                               *)

AuthFields == {"type", "len", "fields", "flags", "user", "domain", "nt", "key", "mic"}

LEMMA LayoutIs ==
    ASSUME NEW base \in Nat, NEW u \in Nat, NEW n \in Nat, NEW k \in Nat
    PROVE  /\ Layout(base, u, n, k).len = base + 28 + u + n + k
           /\ DOMAIN Layout(base, u, n, k).fields = Fields
           /\ Layout(base, u, n, k).fields["domain"] = [len |-> 2, offset |-> base]
           /\ Layout(base, u, n, k).fields["user"] = [len |-> u, offset |-> base + 2]
           /\ Layout(base, u, n, k).fields["workstation"] = [len |-> 2, offset |-> base + 2 + u]
           /\ Layout(base, u, n, k).fields["lm"] = [len |-> 24, offset |-> base + 4 + u]
           /\ Layout(base, u, n, k).fields["nt"] = [len |-> n, offset |-> base + 28 + u]
           /\ Layout(base, u, n, k).fields["key"] = [len |-> k, offset |-> base + 28 + u + n]
BY DEF Layout, Desc, Fields

(* The message of a client, field by field.                                *)
IsFull(m, x, user, pw, offered, c, base) ==
    /\ DOMAIN m = AuthFields /\ m = [f \in AuthFields |-> m[f]]
    /\ m.type = "AUTHENTICATE" /\ m.user = user /\ m.domain = "dom"
    /\ m.flags = c.flags
    /\ m.nt.proof = Proof(x, user, pw, c) /\ m.nt.blob = <<"Blob", x>>
    /\ m.len = LayoutOf(c, base).len /\ m.fields = LayoutOf(c, base).fields
    /\ m.key = IF KeyExch \in c.flags
                 THEN Rc4(Base(x, user, pw, c), <<"Random", x>>) ELSE ZeroKey
    /\ m.mic = IF base < 88 THEN ZeroKey
               ELSE Mic(OwnKey(x, user, pw, c), offered, c, Bare(x, user, pw, c, base))
    /\ MicZeroed(m) = Bare(x, user, pw, c, base)

LEMMA FullIs ==
    ASSUME NEW x, NEW user, NEW pw, NEW offered, NEW c, NEW base
    PROVE  IsFull(Full(x, user, pw, offered, c, base), x, user, pw, offered, c, base)
<1> SUFFICES ASSUME NEW m, m = Full(x, user, pw, offered, c, base)
             PROVE  IsFull(m, x, user, pw, offered, c, base)
  OBVIOUS
<1> DEFINE b == Bare(x, user, pw, c, base)
           k == Mic(OwnKey(x, user, pw, c), offered, c, b)
<1>1. /\ DOMAIN b = AuthFields
      /\ b.type = "AUTHENTICATE" /\ b.user = user /\ b.domain = "dom"
      /\ b.flags = c.flags
      /\ b.nt = [proof |-> Proof(x, user, pw, c), blob |-> <<"Blob", x>>]
      /\ b.len = LayoutOf(c, base).len /\ b.fields = LayoutOf(c, base).fields
      /\ b.key = IF KeyExch \in c.flags
                   THEN Rc4(Base(x, user, pw, c), <<"Random", x>>) ELSE ZeroKey
      /\ b.mic = ZeroKey
      /\ b = [f \in DOMAIN b |-> b[f]]
  BY DEF Bare, AuthFields
<1>2. m = IF base < 88 THEN b ELSE [b EXCEPT !.mic = k]
  BY DEF Full
<1> HIDE DEF b, k
<1>3. [b EXCEPT !.mic = ZeroKey] = b
  BY <1>1 DEF AuthFields
<1>4. [[b EXCEPT !.mic = k] EXCEPT !.mic = ZeroKey] = b
  BY <1>1 DEF AuthFields
<1>5. MicZeroed(m) = b
  BY <1>2, <1>3, <1>4 DEF MicZeroed
<1>6. /\ DOMAIN m = AuthFields /\ m = [f \in AuthFields |-> m[f]]
      /\ m.mic = IF base < 88 THEN ZeroKey ELSE k
      /\ \A f \in AuthFields \ {"mic"} : m[f] = b[f]
  BY <1>1, <1>2 DEF AuthFields
<1>7. /\ m.type = b.type /\ m.user = b.user /\ m.domain = b.domain /\ m.flags = b.flags
      /\ m.nt = b.nt /\ m.len = b.len /\ m.fields = b.fields /\ m.key = b.key
  BY <1>6 DEF AuthFields
<1>8. m.nt.proof = Proof(x, user, pw, c) /\ m.nt.blob = <<"Blob", x>>
  BY <1>1, <1>7
<1> QED BY <1>1, <1>5, <1>6, <1>7, <1>8 DEF b, k, IsFull

(* On its way a message keeps what is computed from the password.          *)
LEMMA AlteredKeeps ==
    ASSUME NEW a, DOMAIN a = AuthFields, a = [f \in AuthFields |-> a[f]],
           NEW m \in {a} \cup Altered(a)
    PROVE  /\ DOMAIN m = AuthFields /\ m = [f \in AuthFields |-> m[f]]
           /\ m.nt = a.nt /\ m.mic = a.mic /\ m.domain = a.domain /\ m.key = a.key
<1>1. CASE m = a
  BY <1>1
<1>2. CASE m \in {[a EXCEPT !.flags = @ \ {KeyExch}], [a EXCEPT !.flags = @ \cup {KeyExch}]}
  BY <1>2 DEF AuthFields
<1>3. CASE m = [a EXCEPT !.fields["lm"].offset = 72]
  BY <1>3 DEF AuthFields
<1>4. CASE m \in {[a EXCEPT !.len = 63], [a EXCEPT !.len = @ - 17]}
  BY <1>4 DEF AuthFields
<1>5. CASE m = [a EXCEPT !.fields["key"].len = 15]
  BY <1>5 DEF AuthFields
<1>6. CASE m = [a EXCEPT !.fields["user"].len = 1, !.fields["nt"].len = 0]
  <2> DEFINE h == [a EXCEPT !.fields["user"].len = 1]
  <2>1. m = [h EXCEPT !.fields["nt"].len = 0]
    BY <1>6
  <2>2. /\ DOMAIN h = AuthFields /\ h = [f \in AuthFields |-> h[f]]
        /\ h.nt = a.nt /\ h.mic = a.mic /\ h.domain = a.domain /\ h.key = a.key
    BY DEF AuthFields
  <2> HIDE DEF h
  <2> QED BY <2>1, <2>2 DEF AuthFields
<1>7. CASE m \in {[a EXCEPT !.user = u] : u \in UserNames}
  BY <1>7 DEF AuthFields
<1>8. CASE m \in {[a EXCEPT !.fields[f].len = 0] : f \in {"user", "nt", "key"}}
  BY <1>8 DEF AuthFields
<1> QED BY <1>1, <1>2, <1>3, <1>4, <1>5, <1>6, <1>7, <1>8 DEF Altered

-----------------------------------------------------------------------------
(* From the verdict back to the client.                                    *)

(* A message in the network is the answer of the client of some exchange.  *)
LEMMA Origin ==
    ASSUME Answered, SentByClients, NEW a \in sent, NEW m \in {a} \cup Altered(a)
    PROVE  \E y \in Exchanges, user \in UserNames, base \in Bases :
             /\ client[y].st = "answered" /\ a = client[y].msg
             /\ AnsweredBy(y, user, base)
             /\ m.nt.proof = Proof(y, user, client[y].pw, client[y].got)
             /\ m.nt = a.nt /\ m.mic = a.mic
             /\ DOMAIN m = AuthFields /\ m = [f \in AuthFields |-> m[f]]
<1>1. PICK y \in Exchanges : client[y].st = "answered" /\ a = client[y].msg
  BY DEF SentByClients
<1>2. PICK user \in UserNames, base \in Bases : AnsweredBy(y, user, base)
  BY <1>1 DEF Answered
<1>3. a = Full(y, user, client[y].pw, client[y].offered, client[y].got, base)
  BY <1>1, <1>2 DEF AnsweredBy
<1>4. /\ DOMAIN a = AuthFields /\ a = [f \in AuthFields |-> a[f]]
      /\ a.nt.proof = Proof(y, user, client[y].pw, client[y].got)
  <2>1. IsFull(a, y, user, client[y].pw, client[y].offered, client[y].got, base)
    BY <1>3, FullIs
  <2> QED BY <2>1 DEF IsFull
<1>5. /\ DOMAIN m = AuthFields /\ m = [f \in AuthFields |-> m[f]]
      /\ m.nt = a.nt /\ m.mic = a.mic
  BY <1>4, AlteredKeeps
<1> QED BY <1>1, <1>2, <1>4, <1>5

(* A proof that matches was made by the client of this exchange, from the  *)
(* password in the table, if the challenge is the exchange's own.          *)
LEMMA Proven ==
    ASSUME Engaged, NEW x \in Exchanges, NEW y \in Exchanges, NEW m, NEW user,
           m.nt.proof = Proof(y, user, client[y].pw, client[y].got),
           client[y].got.number = acceptor[y].challenge.number,
           ProofMatches(x, m)
    PROVE  /\ ResponseKey(m) = Owf(user, client[y].pw)
           /\ Table[m.user] = client[y].pw
           /\ Fresh(x) => y = x
<1>1. NtProof(ResponseKey(m), acceptor[x].challenge.number, m.nt.blob)
        = NtProof(Owf(user, client[y].pw), client[y].got.number, <<"Blob", y>>)
  BY DEF ProofMatches, Proof
<1>2. /\ ResponseKey(m) = Owf(user, client[y].pw)
      /\ acceptor[x].challenge.number = client[y].got.number
  BY <1>1, SameProof
<1>3. Table[m.user] = client[y].pw
  BY <1>2, SameOwf DEF ResponseKey, Owf
<1>4. Fresh(x) => y = x
  <2> SUFFICES ASSUME Fresh(x) PROVE y = x
    OBVIOUS
  <2>1. x \in Nat \ {0}
    BY NtlmAssumption
  <2>2. acceptor[y].challenge.number = x
    BY <1>2 DEF Fresh
  <2>3. acceptor[y].challenge.number \in {0, y}
    BY DEF Engaged
  <2> QED BY <2>1, <2>2, <2>3
<1> QED BY <1>2, <1>3, <1>4

(* What a verdict for a user rests on.                                     *)
LEMMA UserVerdict ==
    ASSUME NEW x, NEW m
    PROVE  Verdict(x, m) = "user" =>
             /\ ProofMatches(x, m)
             /\ HasMic(m) => MicMatches(x, m)
BY DEF Verdict, UserAccepted

(* An inductive state gives sessions only to users that proved themselves. *)
LEMMA InvUserProven == NtlmInv => UserProven
<1> SUFFICES ASSUME NtlmInv, NEW x \in Exchanges, As(x, "user"), Fresh(x)
             PROVE  client[x].st = "answered" /\ Table[outcome[x].msg.user] = client[x].pw
  BY DEF UserProven
<1>1. outcome[x].is = "user" /\ outcome[x].is # "none"
  BY DEF As
<1>2. PICK a \in sent : \E m \in {a} \cup Altered(a) :
        outcome[x].msg = m /\ outcome[x].is = Verdict(x, m)
  BY <1>1 DEF NtlmInv, Judged
<1>3. PICK m \in {a} \cup Altered(a) : outcome[x].msg = m /\ outcome[x].is = Verdict(x, m)
  BY <1>2
<1>4. PICK y \in Exchanges, user \in UserNames, base \in Bases :
        /\ client[y].st = "answered" /\ AnsweredBy(y, user, base)
        /\ m.nt.proof = Proof(y, user, client[y].pw, client[y].got)
  <2>1. Answered /\ SentByClients
    BY DEF NtlmInv
  <2> QED BY <2>1, Origin
<1>5. ProofMatches(x, m)
  BY <1>1, <1>3, UserVerdict
<1>6. client[y].got.number = acceptor[y].challenge.number
  BY <1>4 DEF AnsweredBy
<1>7. Engaged
  BY DEF NtlmInv
<1>8. Table[m.user] = client[y].pw /\ y = x
  BY <1>4, <1>5, <1>6, <1>7, Proven
<1> QED BY <1>3, <1>4, <1>8

(* A MIC was made by the client of this exchange over what both sides saw. *)
LEMMA InvMicCovers == NtlmInv => MicCovers
<1> SUFFICES ASSUME NtlmInv, NEW x \in Exchanges, As(x, "user"), Fresh(x),
                    HasMic(outcome[x].msg)
             PROVE  /\ outcome[x].msg = client[x].msg
                    /\ acceptor[x].negotiate = client[x].offered
                    /\ acceptor[x].challenge = client[x].got
  BY DEF MicCovers
<1>1. outcome[x].is = "user" /\ outcome[x].is # "none"
  BY DEF As
<1>2. PICK a \in sent : \E m \in {a} \cup Altered(a) :
        outcome[x].msg = m /\ outcome[x].is = Verdict(x, m)
  BY <1>1 DEF NtlmInv, Judged
<1>3. PICK m \in {a} \cup Altered(a) : outcome[x].msg = m /\ outcome[x].is = Verdict(x, m)
  BY <1>2
<1>4. PICK y \in Exchanges, user \in UserNames, base \in Bases :
        /\ client[y].st = "answered" /\ a = client[y].msg /\ AnsweredBy(y, user, base)
        /\ m.nt.proof = Proof(y, user, client[y].pw, client[y].got)
        /\ m.nt = a.nt /\ m.mic = a.mic
        /\ DOMAIN m = AuthFields /\ m = [f \in AuthFields |-> m[f]]
  <2>1. Answered /\ SentByClients
    BY DEF NtlmInv
  <2> QED BY <2>1, Origin
<1>5. ProofMatches(x, m) /\ MicMatches(x, m)
  BY <1>1, <1>3, UserVerdict
<1>6. client[y].got.number = acceptor[y].challenge.number
  BY <1>4 DEF AnsweredBy
<1>7. y = x
  <2>1. Engaged
    BY DEF NtlmInv
  <2> QED BY <1>4, <1>5, <1>6, <2>1, Proven
<1> DEFINE b == Bare(x, user, client[x].pw, client[x].got, base)
           k == OwnKey(x, user, client[x].pw, client[x].got)
<1>8. a = Full(x, user, client[x].pw, client[x].offered, client[x].got, base)
  BY <1>4, <1>7 DEF AnsweredBy
<1>9. /\ a.mic = IF base < 88 THEN ZeroKey
                 ELSE Mic(k, client[x].offered, client[x].got, b)
      /\ MicZeroed(a) = b
      /\ DOMAIN a = AuthFields /\ a = [f \in AuthFields |-> a[f]]
  <2>1. IsFull(a, x, user, client[x].pw, client[x].offered, client[x].got, base)
    BY <1>8, FullIs
  <2> QED BY <2>1 DEF IsFull, b, k
<1> HIDE DEF b, k
<1>10. m.mic = Mic(SessionKey(x, m), acceptor[x].negotiate, acceptor[x].challenge, MicZeroed(m))
  BY <1>5 DEF MicMatches
<1>11. a.mic = Mic(k, client[x].offered, client[x].got, b)
  BY <1>4, <1>9, <1>10, MicIsNotZero
<1>12. /\ acceptor[x].negotiate = client[x].offered
       /\ acceptor[x].challenge = client[x].got
       /\ MicZeroed(m) = MicZeroed(a)
  BY <1>4, <1>9, <1>10, <1>11, SameMic
<1>13. m = a
  <2>1. \A f \in AuthFields \ {"mic"} : m[f] = MicZeroed(m)[f] /\ a[f] = MicZeroed(a)[f]
    BY <1>4, <1>9 DEF MicZeroed
  <2>2. \A f \in AuthFields : m[f] = a[f]
    BY <2>1, <1>12, <1>4
  <2> QED BY <2>2, <1>4, <1>9
<1> QED BY <1>3, <1>4, <1>7, <1>12, <1>13

(* The message of a client, when the server has the same password, makes   *)
(* the session key the client has.                                         *)
LEMMA SameKey ==
    ASSUME NEW x, NEW user, NEW pw, NEW offered, NEW c, NEW base \in Nat, NEW m,
           IsFull(m, x, user, pw, offered, c, base),
           ResponseKey(m) = Owf(user, pw)
    PROVE  /\ SessionKey(x, m) = OwnKey(x, user, pw, c)
           /\ Wrapped(x, m) <=> KeyExch \in c.flags
           /\ Wrapped(x, m) => m.fields["key"].len = 16
<1>1. m.fields["key"].len = IF KeyExch \in c.flags THEN 16 ELSE 0
  <2>1. CASE KeyExch \in c.flags
    <3>1. m.fields = Layout(base, 6, 44, 16).fields
      BY <2>1 DEF IsFull, LayoutOf
    <3> QED BY <2>1, <3>1 DEF Layout, Desc
  <2>2. CASE KeyExch \notin c.flags
    <3>1. m.fields = Layout(base, 6, 44, 0).fields
      BY <2>2 DEF IsFull, LayoutOf
    <3> QED BY <2>2, <3>1 DEF Layout, Desc
  <2> QED BY <2>1, <2>2
<1>2. Wrapped(x, m) <=> KeyExch \in c.flags
  BY <1>1 DEF IsFull, Wrapped, Empty
<1>3. SessionBaseKey(ResponseKey(m), m.nt.proof) = Base(x, user, pw, c)
  BY DEF IsFull, Base
<1>4. CASE KeyExch \in c.flags
  <2>1. m.key = Rc4(Base(x, user, pw, c), <<"Random", x>>)
    BY <1>4 DEF IsFull
  <2>2. SessionKey(x, m) = Rc4(Base(x, user, pw, c), m.key)
    BY <1>2, <1>3, <1>4 DEF SessionKey
  <2>3. SessionKey(x, m) = <<"Random", x>>
    BY <2>1, <2>2, Rc4Undoes
  <2> QED BY <2>3, <1>1, <1>2, <1>4 DEF OwnKey
<1>5. CASE KeyExch \notin c.flags
  <2>1. SessionKey(x, m) = Base(x, user, pw, c)
    BY <1>2, <1>3, <1>5 DEF SessionKey
  <2> QED BY <2>1, <1>1, <1>2, <1>5 DEF OwnKey
<1> QED BY <1>4, <1>5

(* The message of the client of x, as it was sent.                         *)
LEMMA OwnAnswer ==
    ASSUME Answered, NEW x \in Exchanges, client[x].st = "answered"
    PROVE  \E user \in UserNames, base \in Bases :
             /\ AnsweredBy(x, user, base) /\ base \in Nat
             /\ IsFull(client[x].msg, x, user, client[x].pw, client[x].offered,
                       client[x].got, base)
<1>1. PICK user \in UserNames, base \in Bases : AnsweredBy(x, user, base)
  BY DEF Answered
<1>2. base \in Nat
  BY NtlmAssumption
<1>3. IsFull(client[x].msg, x, user, client[x].pw, client[x].offered, client[x].got, base)
  <2>1. client[x].msg = Full(x, user, client[x].pw, client[x].offered, client[x].got, base)
    BY <1>1 DEF AnsweredBy
  <2> QED BY <2>1, FullIs
<1> QED BY <1>1, <1>2, <1>3

(* The keys of both sides agree in an inductive state.                     *)
LEMMA InvKeysAgree == NtlmInv => KeysAgree
<1> SUFFICES ASSUME NtlmInv, NEW x \in Exchanges, As(x, "user"),
                    client[x].st = "answered", outcome[x].msg = client[x].msg
             PROVE  outcome[x].key = client[x].key
  BY DEF KeysAgree
<1>1. outcome[x].is = "user" /\ outcome[x].is # "none"
  BY DEF As
<1> DEFINE m == client[x].msg
<1>2. Verdict(x, m) = "user" /\ outcome[x].key = SessionKey(x, m)
  BY <1>1 DEF NtlmInv, Judged
<1>3. Answered /\ Engaged
  BY DEF NtlmInv
<1>4. PICK user \in UserNames, base \in Bases :
        /\ AnsweredBy(x, user, base) /\ base \in Nat
        /\ IsFull(m, x, user, client[x].pw, client[x].offered, client[x].got, base)
  BY <1>3, OwnAnswer
<1> HIDE DEF m
<1>5. ResponseKey(m) = Owf(user, client[x].pw)
  <2>1. ProofMatches(x, m)
    BY <1>2, UserVerdict
  <2>2. m.nt.proof = Proof(x, user, client[x].pw, client[x].got)
    BY <1>4 DEF IsFull
  <2>3. client[x].got.number = acceptor[x].challenge.number
    BY <1>4 DEF AnsweredBy
  <2> QED BY <1>3, <2>1, <2>2, <2>3, Proven
<1>6. SessionKey(x, m) = OwnKey(x, user, client[x].pw, client[x].got)
  BY <1>4, <1>5, SameKey
<1>7. client[x].key = OwnKey(x, user, client[x].pw, client[x].got)
  BY <1>4 DEF AnsweredBy
<1> QED BY <1>2, <1>6, <1>7

(* A message with its payload at base parses, is not anonymous, and has a  *)
(* MIC only where the client left room for one.                            *)
LEMMA LayoutParses ==
    ASSUME NEW x, NEW user, NEW pw, NEW offered, NEW c, NEW base \in Nat, NEW m,
           IsFull(m, x, user, pw, offered, c, base)
    PROVE  /\ Parses(m, "AUTHENTICATE", 64)
           /\ ~UserIsEmpty(m) /\ ~IsAnonymous(m)
           /\ m.fields["nt"].len = 44
           /\ HasMic(m) => base >= 88
<1>1. PICK k \in {0, 16} : m.len = Layout(base, 6, 44, k).len
                        /\ m.fields = Layout(base, 6, 44, k).fields
  BY DEF IsFull, LayoutOf
<1>2. /\ m.len = base + 28 + 6 + 44 + k
      /\ DOMAIN m.fields = Fields
      /\ m.fields["domain"] = [len |-> 2, offset |-> base]
      /\ m.fields["user"] = [len |-> 6, offset |-> base + 2]
      /\ m.fields["workstation"] = [len |-> 2, offset |-> base + 2 + 6]
      /\ m.fields["lm"] = [len |-> 24, offset |-> base + 4 + 6]
      /\ m.fields["nt"] = [len |-> 44, offset |-> base + 28 + 6]
      /\ m.fields["key"] = [len |-> k, offset |-> base + 28 + 6 + 44]
  BY <1>1, LayoutIs
<1>3. m.type = "AUTHENTICATE"
  BY DEF IsFull
<1>4. \A f \in Fields : m.fields[f].offset + m.fields[f].len <= m.len
  BY <1>2 DEF Fields
<1>5. Parses(m, "AUTHENTICATE", 64)
  <2>1. m.len >= 64 /\ m.len >= 12
    BY <1>2
  <2> QED BY <2>1, <1>2, <1>3, <1>4 DEF Parses, InRange
<1>6. ~UserIsEmpty(m) /\ m.fields["nt"].len = 44
  BY <1>2 DEF UserIsEmpty
<1>7. HasMic(m) => base >= 88
  <2> SUFFICES ASSUME HasMic(m) PROVE base >= 88
    OBVIOUS
  <2>1. \A o \in PayloadOffsets(m) : o >= 88
    BY DEF HasMic
  <2>2. base + 2 \in PayloadOffsets(m)
    <3>1. "user" \in Fields /\ ~Empty(m, "user") /\ m.fields["user"].offset > 0
      BY <1>2 DEF Fields, Empty
    <3>2. m.fields["user"].offset \in PayloadOffsets(m)
      BY <3>1 DEF PayloadOffsets
    <3> QED BY <3>2, <1>2
  <2>3. base > 0
    BY <2>1, <2>2
  <2>4. base \in PayloadOffsets(m)
    <3>1. "domain" \in Fields /\ ~Empty(m, "domain") /\ m.fields["domain"].offset > 0
      BY <1>2, <2>3 DEF Fields, Empty
    <3>2. m.fields["domain"].offset \in PayloadOffsets(m)
      BY <3>1 DEF PayloadOffsets
    <3> QED BY <3>2, <1>2
  <2> QED BY <2>1, <2>4
<1> QED BY <1>5, <1>6, <1>7 DEF IsAnonymous

(* A client with the right password is not refused in an inductive state.  *)
LEMMA InvHonestAccepted == NtlmInv => HonestAccepted
<1> SUFFICES ASSUME NtlmInv, NEW x \in Exchanges, As(x, "error"),
                    client[x].st = "answered", outcome[x].msg = client[x].msg,
                    acceptor[x].negotiate = client[x].offered,
                    acceptor[x].challenge = client[x].got,
                    Table[client[x].msg.user] = client[x].pw
             PROVE  FALSE
  BY DEF HonestAccepted
<1>1. outcome[x].is = "error" /\ outcome[x].is # "none"
  BY DEF As
<1> DEFINE m == client[x].msg
<1>2. Verdict(x, m) = "error"
  BY <1>1 DEF NtlmInv, Judged
<1>3. Answered
  BY DEF NtlmInv
<1>4. PICK user \in UserNames, base \in Bases :
        /\ AnsweredBy(x, user, base) /\ base \in Nat
        /\ IsFull(m, x, user, client[x].pw, client[x].offered, client[x].got, base)
  BY <1>3, OwnAnswer
<1>5. Table[m.user] = client[x].pw /\ client[x].pw \in Passwords
  BY <1>4 DEF AnsweredBy
<1> HIDE DEF m
<1>6. ResponseKey(m) = Owf(user, client[x].pw)
  BY <1>4, <1>5 DEF IsFull, ResponseKey, Owf
<1>7. /\ SessionKey(x, m) = OwnKey(x, user, client[x].pw, client[x].got)
      /\ Wrapped(x, m) => m.fields["key"].len = 16
  BY <1>4, <1>6, SameKey
<1>8. /\ Parses(m, "AUTHENTICATE", 64) /\ ~UserIsEmpty(m) /\ ~IsAnonymous(m)
      /\ m.fields["nt"].len = 44
      /\ HasMic(m) => base >= 88
  BY <1>4, LayoutParses
<1>9. ProofMatches(x, m)
  BY <1>4, <1>6 DEF IsFull, Proof, ProofMatches
<1>10. HasMic(m) => MicMatches(x, m)
  <2> SUFFICES ASSUME HasMic(m) PROVE MicMatches(x, m)
    OBVIOUS
  <2>1. ~(base < 88)
    BY <1>4, <1>8
  <2>2. /\ m.mic = Mic(OwnKey(x, user, client[x].pw, client[x].got), client[x].offered,
                       client[x].got, Bare(x, user, client[x].pw, client[x].got, base))
        /\ MicZeroed(m) = Bare(x, user, client[x].pw, client[x].got, base)
    BY <1>4, <2>1 DEF IsFull
  <2> QED BY <2>2, <1>7 DEF MicMatches
<1>11. Table[m.user] # NoUser
  BY <1>5, NtlmAssumption
<1>12. UserAccepted(x, m)
  BY <1>7, <1>8, <1>9, <1>10, <1>11 DEF UserAccepted
<1>13. Verdict(x, m) = "user"
  BY <1>8, <1>12 DEF Verdict
<1> QED BY <1>2, <1>13

-----------------------------------------------------------------------------
(* The steps.                                                              *)

(* A verdict depends on what an acceptor keeps of the first round only.    *)
LEMMA VerdictKept ==
    ASSUME NEW x, NEW m,
           acceptor'[x].challenge = acceptor[x].challenge,
           acceptor'[x].negotiate = acceptor[x].negotiate
    PROVE  Verdict(x, m)' = Verdict(x, m)
<1>1. ProofMatches(x, m)' <=> ProofMatches(x, m)
  BY DEF ProofMatches
<1>2. MicMatches(x, m)' <=> MicMatches(x, m)
  BY DEF MicMatches, SessionKey, Wrapped
<1>3. UserAccepted(x, m)' <=> UserAccepted(x, m)
  BY <1>1, <1>2 DEF UserAccepted, Wrapped
<1> QED BY <1>3 DEF Verdict

LEMMA InitNtlmInv == Init => NtlmInv
<1> SUFFICES ASSUME Init PROVE NtlmInv
  OBVIOUS
<1>1. NoAcceptor \in Acceptors
  BY DEF NoAcceptor, Acceptors, Challenge
<1>2. Domains
  BY <1>1 DEF Init, Domains
<1>3. \A x \in Exchanges : /\ ~acceptor[x].pending /\ acceptor[x].negotiate = {}
                           /\ acceptor[x].challenge.flags = {}
                           /\ acceptor[x].challenge.number = 0
                           /\ outcome[x].is = "none" /\ client[x].st = "none"
  BY DEF Init, NoAcceptor, Challenge, NoClient, NoOutcome
<1>4. TypeOK
  <2>1. \A x \in Exchanges : acceptor[x] \in Acceptors
    BY <1>2 DEF Domains
  <2>2. \A x \in Exchanges : acceptor[x].pending \in BOOLEAN
    BY <2>1 DEF Acceptors
  <2> QED BY <2>2, <1>3 DEF TypeOK, Init
<1>5. Answered /\ Judged /\ Engaged /\ SentByClients
  BY <1>3 DEF Answered, Judged, Engaged, SentByClients, Init
<1> QED BY <1>2, <1>4, <1>5 DEF NtlmInv

(* The first round of x.                                                   *)
LEMMA StepStart ==
    ASSUME NtlmInv, NEW x \in Exchanges, Start(x)
    PROVE  NtlmInv'
<1> USE DEF NtlmInv
<1>1. PICK offered \in {{}, {KeyExch}}, number \in {0, x} :
        \E f \in AlteredFlags(x, offered) :
            \E n \in NegotiateMessages(f) : FirstRound(x, offered, n, number)
  BY DEF Start
<1>1a. PICK f \in AlteredFlags(x, offered) :
        \E n \in NegotiateMessages(f) : FirstRound(x, offered, n, number)
  BY <1>1
<1>2. PICK n \in NegotiateMessages(f) : FirstRound(x, offered, n, number)
  BY <1>1a
<1>3. f \subseteq Flags /\ n.flags = f
  <2>1. f \subseteq Flags
    BY DEF AlteredFlags, Flags
  <2> QED BY <2>1 DEF NegotiateMessages
<1>4. /\ client[x].st = "none"
      /\ client' = [client EXCEPT ![x] = [st |-> "waiting", offered |-> offered]]
      /\ acceptor' = [acceptor EXCEPT ![x] = Step1(n, number)] \/ acceptor' = acceptor
      /\ sent' = sent /\ outcome' = outcome
  BY <1>2 DEF FirstRound
<1>5. x \in Nat \ {0} /\ number \in Nat
  BY NtlmAssumption
<1>6. Step1(n, number) \in Acceptors /\ Step1(n, number).challenge.number = number
  BY <1>3, <1>5 DEF Step1, Acceptors, Challenge, MustHave, ServerFlags, Flags
<1>7. \A y \in Exchanges \ {x} : client'[y] = client[y] /\ acceptor'[y] = acceptor[y]
  BY <1>4 DEF Domains
<1>8. client'[x].st = "waiting"
  BY <1>4 DEF Domains
<1>9. outcome[x].is = "none" /\ outcome'[x].is = "none"
  BY <1>4 DEF Engaged
<1>10. Domains'
  BY <1>4, <1>6 DEF Domains
<1>11. acceptor'[x].challenge.number \in {0, x}
  BY <1>4, <1>6 DEF Engaged, Domains
<1>12. TypeOK'
  <2>1. \A y \in Exchanges : acceptor'[y] \in Acceptors
    BY <1>10 DEF Domains
  <2>2. \A y \in Exchanges : /\ acceptor'[y].pending \in BOOLEAN
                             /\ acceptor'[y].negotiate \subseteq Flags
                             /\ acceptor'[y].challenge.flags \subseteq Flags
    BY <2>1 DEF Acceptors
  <2>3. \A y \in Exchanges : client'[y].st \in {"none", "waiting", "answered"}
    BY <1>7, <1>8 DEF TypeOK
  <2> QED BY <2>2, <2>3, <1>4 DEF TypeOK, Parses, Empty, InRange
<1>13. Answered'
  <2> SUFFICES ASSUME NEW y \in Exchanges, client'[y].st = "answered"
               PROVE  \E user \in UserNames, base \in Bases : AnsweredBy(y, user, base)'
    BY DEF Answered
  <2>1. y # x
    BY <1>8
  <2>2. PICK user \in UserNames, base \in Bases : AnsweredBy(y, user, base)
    BY <2>1, <1>7 DEF Answered
  <2>3. AnsweredBy(y, user, base)'
    BY <2>1, <2>2, <1>7 DEF AnsweredBy
  <2> QED BY <2>3
<1>14. SentByClients'
  BY <1>4, <1>7 DEF SentByClients
<1>15. Engaged'
  BY <1>4, <1>7, <1>8, <1>9, <1>11 DEF Engaged
<1>16. Judged'
  <2> SUFFICES ASSUME NEW y \in Exchanges, outcome'[y].is # "none"
               PROVE  \E a \in sent' : \E m \in {a} \cup Altered(a) :
                        /\ outcome'[y].msg = m
                        /\ outcome'[y].is = Verdict(y, m)'
                        /\ outcome'[y].is = "user" => outcome'[y].key = SessionKey(y, m)
    BY DEF Judged, SessionKey, Wrapped
  <2>1. y # x
    BY <1>9
  <2>2. PICK a \in sent : \E m \in {a} \cup Altered(a) :
          /\ outcome[y].msg = m
          /\ outcome[y].is = Verdict(y, m)
          /\ outcome[y].is = "user" => outcome[y].key = SessionKey(y, m)
    BY <1>4 DEF Judged
  <2>3. \A m : Verdict(y, m)' = Verdict(y, m)
    BY <2>1, <1>7, VerdictKept
  <2> QED BY <2>2, <2>3, <1>4
<1> QED BY <1>10, <1>12, <1>13, <1>14, <1>15, <1>16

(* Answer, in the terms of this module.                                    *)
LEMMA AnswerIs ==
    ASSUME NEW x \in Exchanges, NEW user, NEW pw, NEW c, NEW base, Answer(x, user, pw, c, base)
    PROVE  /\ client[x].st = "waiting" /\ acceptor[x].pending
           /\ client' = [client EXCEPT ![x] =
                [st |-> "answered", offered |-> client[x].offered, pw |-> pw, got |-> c,
                 key |-> OwnKey(x, user, pw, c),
                 msg |-> Full(x, user, pw, client[x].offered, c, base)]]
           /\ sent' = sent \cup {Full(x, user, pw, client[x].offered, c, base)}
           /\ acceptor' = acceptor /\ outcome' = outcome
<1>1. client[x].st = "waiting" /\ acceptor[x].pending /\ acceptor' = acceptor /\ outcome' = outcome
  BY DEF Answer
<1>2. sent' = sent \cup {Full(x, user, pw, client[x].offered, c, base)}
  BY ZenonT(60) DEF Answer, Full, Bare, OwnKey, Base, Proof, Owf, LayoutOf
<1>3. client' = [client EXCEPT ![x] =
        [st |-> "answered", offered |-> client[x].offered, pw |-> pw, got |-> c,
         key |-> OwnKey(x, user, pw, c),
         msg |-> Full(x, user, pw, client[x].offered, c, base)]]
  BY ZenonT(60) DEF Answer, Full, Bare, OwnKey, Base, Proof, Owf, LayoutOf
<1> QED BY <1>1, <1>2, <1>3

(* The client of x answers.                                                *)
LEMMA StepReply ==
    ASSUME NtlmInv, NEW x \in Exchanges, Reply(x)
    PROVE  NtlmInv'
<1> USE DEF NtlmInv
<1>1. PICK user \in UserNames, pw \in Passwords, base \in Bases :
        \E f \in AlteredFlags(x, acceptor[x].challenge.flags) :
            Answer(x, user, pw, [acceptor[x].challenge EXCEPT !.flags = f], base)
  BY DEF Reply
<1>1a. PICK f \in AlteredFlags(x, acceptor[x].challenge.flags) :
        Answer(x, user, pw, [acceptor[x].challenge EXCEPT !.flags = f], base)
  BY <1>1
<1> DEFINE c == [acceptor[x].challenge EXCEPT !.flags = f]
           m == Full(x, user, pw, client[x].offered, c, base)
<1>2. c.number = acceptor[x].challenge.number
  BY DEF Domains, Acceptors
<1>3. /\ client[x].st = "waiting" /\ acceptor[x].pending
      /\ client' = [client EXCEPT ![x] =
           [st |-> "answered", offered |-> client[x].offered, pw |-> pw, got |-> c,
            key |-> OwnKey(x, user, pw, c), msg |-> m]]
      /\ sent' = sent \cup {m}
      /\ acceptor' = acceptor /\ outcome' = outcome
  BY <1>1a, AnswerIs
<1>4. IsFull(m, x, user, pw, client[x].offered, c, base)
  BY FullIs
<1>5. base \in Nat
  BY NtlmAssumption
<1>6. m = Full(x, user, pw, client[x].offered, c, base)
  OBVIOUS
<1> HIDE DEF c, m
<1>7. \A y \in Exchanges \ {x} : client'[y] = client[y]
  BY <1>3 DEF Domains
<1>8. /\ client'[x].st = "answered" /\ client'[x].offered = client[x].offered
      /\ client'[x].pw = pw /\ client'[x].got = c
      /\ client'[x].key = OwnKey(x, user, pw, c) /\ client'[x].msg = m
  BY <1>3 DEF Domains
<1>9. Domains'
  BY <1>3 DEF Domains
<1>10. TypeOK'
  <2>1. Parses(m, "AUTHENTICATE", 64)
    BY <1>4, <1>5, LayoutParses
  <2>2. \A y \in Exchanges : client'[y].st \in {"none", "waiting", "answered"}
    BY <1>7, <1>8 DEF TypeOK
  <2>3. \A a \in sent' : Parses(a, "AUTHENTICATE", 64)
    BY <2>1, <1>3 DEF TypeOK
  <2> QED BY <2>2, <2>3, <1>3 DEF TypeOK, Parses, Empty, InRange
<1>11. Answered'
  <2> SUFFICES ASSUME NEW y \in Exchanges, client'[y].st = "answered"
               PROVE  \E u \in UserNames, b \in Bases : AnsweredBy(y, u, b)'
    BY DEF Answered
  <2>1. CASE y = x
    <3>1. AnsweredBy(x, user, base)'
      BY <1>2, <1>3, <1>6, <1>8 DEF AnsweredBy
    <3> QED BY <2>1, <3>1
  <2>2. CASE y # x
    <3>1. PICK u \in UserNames, b \in Bases : AnsweredBy(y, u, b)
      BY <2>2, <1>7 DEF Answered
    <3>2. AnsweredBy(y, u, b)'
      BY <2>2, <3>1, <1>3, <1>7 DEF AnsweredBy
    <3> QED BY <3>2
  <2> QED BY <2>1, <2>2
<1>12. SentByClients'
  <2> SUFFICES ASSUME NEW a \in sent'
               PROVE  \E y \in Exchanges : client'[y].st = "answered" /\ a = client'[y].msg
    BY DEF SentByClients
  <2>1. CASE a = m
    BY <2>1, <1>8
  <2>2. CASE a \in sent
    <3>1. PICK y \in Exchanges : client[y].st = "answered" /\ a = client[y].msg
      BY <2>2 DEF SentByClients
    <3>2. y # x
      BY <3>1, <1>3
    <3> QED BY <3>1, <3>2, <1>7
  <2> QED BY <2>1, <2>2, <1>3
<1>13. Engaged'
  BY <1>3, <1>7, <1>8 DEF Engaged
<1>14. Judged'
  <2> SUFFICES ASSUME NEW y \in Exchanges, outcome'[y].is # "none"
               PROVE  \E a \in sent' : \E n \in {a} \cup Altered(a) :
                        /\ outcome'[y].msg = n
                        /\ outcome'[y].is = Verdict(y, n)'
                        /\ outcome'[y].is = "user" => outcome'[y].key = SessionKey(y, n)
    BY DEF Judged, SessionKey, Wrapped
  <2>1. PICK a \in sent : \E n \in {a} \cup Altered(a) :
          /\ outcome[y].msg = n
          /\ outcome[y].is = Verdict(y, n)
          /\ outcome[y].is = "user" => outcome[y].key = SessionKey(y, n)
    BY <1>3 DEF Judged
  <2>2. \A n : Verdict(y, n)' = Verdict(y, n)
    BY <1>3, VerdictKept
  <2>3. a \in sent'
    BY <1>3
  <2> QED BY <2>1, <2>2, <2>3, <1>3
<1> QED BY <1>9, <1>10, <1>11, <1>12, <1>13, <1>14

(* The acceptor of x judges a message.                                     *)
LEMMA StepReceive ==
    ASSUME NtlmInv, NEW x \in Exchanges, Receive(x)
    PROVE  NtlmInv'
<1> USE DEF NtlmInv
<1>1a. PICK a \in sent : \E m \in {a} \cup Altered(a) : FollowUp(x, m)
  BY DEF Receive
<1>1. PICK m \in {a} \cup Altered(a) : FollowUp(x, m)
  BY <1>1a
<1>2. /\ acceptor[x].pending
      /\ acceptor' = [acceptor EXCEPT ![x].pending = FALSE]
      /\ outcome' = [outcome EXCEPT
           ![x] = [is |-> Verdict(x, m), msg |-> m,
                   key |-> IF Verdict(x, m) = "user" THEN SessionKey(x, m) ELSE ZeroKey]]
      /\ client' = client /\ sent' = sent
  BY <1>1 DEF FollowUp
<1>3. acceptor' \in [Exchanges -> Acceptors]
  BY <1>2 DEF Domains, Acceptors
<1>4. \A y \in Exchanges : /\ acceptor'[y].challenge = acceptor[y].challenge
                           /\ acceptor'[y].negotiate = acceptor[y].negotiate
                           /\ acceptor'[y].pending <=> y # x /\ acceptor[y].pending
  BY <1>2 DEF Domains, Acceptors
<1>5. \A y \in Exchanges \ {x} : outcome'[y] = outcome[y]
  BY <1>2 DEF Domains
<1>6. /\ outcome'[x].is = Verdict(x, m) /\ outcome'[x].msg = m
      /\ Verdict(x, m) = "user" => outcome'[x].key = SessionKey(x, m)
  BY <1>2 DEF Domains
<1>7. Domains'
  BY <1>2, <1>3 DEF Domains
<1>8. TypeOK'
  <2>1. \A y \in Exchanges : /\ acceptor'[y].pending \in BOOLEAN
                             /\ acceptor'[y].negotiate \subseteq Flags
                             /\ acceptor'[y].challenge.flags \subseteq Flags
    BY <1>3 DEF Acceptors
  <2>2. Verdict(x, m) \in {"error", "anonymous", "user"}
    BY DEF Verdict
  <2>3. \A y \in Exchanges : outcome'[y].is \in {"none", "error", "anonymous", "user"}
    BY <2>2, <1>5, <1>6 DEF TypeOK
  <2> QED BY <2>1, <2>3, <1>2 DEF TypeOK, Parses, Empty, InRange
<1>9. Answered'
  <2> SUFFICES ASSUME NEW y \in Exchanges, client[y].st = "answered"
               PROVE  \E u \in UserNames, b \in Bases : AnsweredBy(y, u, b)'
    BY <1>2 DEF Answered
  <2>1. PICK u \in UserNames, b \in Bases : AnsweredBy(y, u, b)
    BY DEF Answered
  <2>2. AnsweredBy(y, u, b)'
    BY <2>1, <1>2, <1>4 DEF AnsweredBy
  <2> QED BY <2>2
<1>10. SentByClients'
  BY <1>2 DEF SentByClients
<1>11. Engaged'
  <2>1. client[x].st # "none"
    BY <1>2 DEF Engaged
  <2> QED BY <2>1, <1>2, <1>4, <1>5 DEF Engaged
<1>12. Judged'
  <2> SUFFICES ASSUME NEW y \in Exchanges, outcome'[y].is # "none"
               PROVE  \E b \in sent' : \E n \in {b} \cup Altered(b) :
                        /\ outcome'[y].msg = n
                        /\ outcome'[y].is = Verdict(y, n)'
                        /\ outcome'[y].is = "user" => outcome'[y].key = SessionKey(y, n)
    BY DEF Judged, SessionKey, Wrapped
  <2>1. \A n : Verdict(y, n)' = Verdict(y, n)
    BY <1>4, VerdictKept
  <2>2. CASE y = x
    BY <2>1, <2>2, <1>1, <1>2, <1>6
  <2>3. CASE y # x
    <3>1. PICK b \in sent : \E n \in {b} \cup Altered(b) :
            /\ outcome[y].msg = n
            /\ outcome[y].is = Verdict(y, n)
            /\ outcome[y].is = "user" => outcome[y].key = SessionKey(y, n)
      BY <2>3, <1>5 DEF Judged
    <3> QED BY <2>1, <2>3, <3>1, <1>2, <1>5
  <2> QED BY <2>2, <2>3
<1> QED BY <1>7, <1>8, <1>9, <1>10, <1>11, <1>12

LEMMA NtlmInvStutter ==
    ASSUME NtlmInv, UNCHANGED vars
    PROVE  NtlmInv'
<1> USE DEF NtlmInv, vars
<1>1. Domains' /\ TypeOK'
  BY DEF Domains, TypeOK, Parses, Empty, InRange
<1>2. SentByClients' /\ Engaged'
  BY DEF SentByClients, Engaged
<1>3. Answered'
  BY DEF Answered, AnsweredBy
<1>4. Judged'
  <2>1. \A x, m : Verdict(x, m)' = Verdict(x, m)
    BY VerdictKept
  <2> QED BY <2>1 DEF Judged, SessionKey, Wrapped
<1> QED BY <1>1, <1>2, <1>3, <1>4

LEMMA NtlmInvInductive == Spec => []NtlmInv
<1>1. NtlmInv /\ [Next]_vars => NtlmInv'
  <2> SUFFICES ASSUME NtlmInv, [Next]_vars PROVE NtlmInv'
    OBVIOUS
  <2>1. ASSUME NEW x \in Exchanges, Start(x) PROVE NtlmInv'
    BY <2>1, StepStart
  <2>2. ASSUME NEW x \in Exchanges, Reply(x) PROVE NtlmInv'
    BY <2>2, StepReply
  <2>3. ASSUME NEW x \in Exchanges, Receive(x) PROVE NtlmInv'
    BY <2>3, StepReceive
  <2>4. CASE UNCHANGED vars
    BY <2>4, NtlmInvStutter
  <2> QED BY <2>1, <2>2, <2>3, <2>4 DEF Next
<1> QED BY <1>1, InitNtlmInv, PTL DEF Spec

-----------------------------------------------------------------------------
(* The theorems.                                                           *)

(* NtlmServer::authenticate gives a session to a user only if the client   *)
(* of the same exchange proved the password of that user for the challenge *)
(* of that exchange, and a MIC stands for the three messages both saw.     *)
THEOREM UsersProveThemselves == Spec => []AcceptedRightly
<1>1. NtlmInv => AcceptedRightly
  BY InvUserProven, InvMicCovers DEF AcceptedRightly, NtlmInv
<1> QED BY <1>1, NtlmInvInductive, PTL

(* When the AUTHENTICATE arrives as it was sent, the session key that      *)
(* authenticate returns is the key of the client.                          *)
THEOREM SessionKeysAgree == Spec => []KeysAgree
BY InvKeysAgree, NtlmInvInductive, PTL

(* A client with the password of the table is never refused when nothing   *)
(* of its exchange was altered.                                            *)
THEOREM HonestUsersEnter == Spec => []HonestAccepted
BY InvHonestAccepted, NtlmInvInductive, PTL
=============================================================================
