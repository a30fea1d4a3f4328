-------------------------- MODULE SessionSetupProofs --------------------------
(***************************************************************************)
(* Proofs about SessionSetup for any number of session ids and NEGOTIATEs. *)
(*                                                                         *)
(* SetupInv is the inductive invariant.  A property about sessions or keys *)
(* rests on what is pending (a response that is not yet sent, an exchange  *)
(* that is not yet answered): IdsSpent keeps a session id from being used  *)
(* for a second exchange, Answering says what the response being made owes *)
(* the tables, and Heard follows the preauth hash of an exchange from its  *)
(* first request through the response and the table to its key.            *)
(***************************************************************************)
EXTENDS SessionSetup, SequenceTheorems, TLAPS

(* A hash that has absorbed n NEGOTIATEs, then the round trip of s.        *)
Negotiated(n) ==
    [i \in 1 .. 2 * n |->
        <<IF i % 2 = 1 THEN "NegReq" ELSE "NegRsp", (i + 1) \div 2>>]
Begun(s) == Append(Negotiated(exch[s].negAt), <<"First", s>>)
Challenged(s) == Append(Begun(s), <<"Challenge", s>>)
Finished(s) == Append(Challenged(s), <<"Final", s>>)

(* The ids of pending exchanges and of sessions have been allocated.       *)
IdsSpent ==
    \A s \in Sids : s \in pending_auths \/ Live(s) => s < next_session_id

(* The connection's hash has absorbed every NEGOTIATE, and an exchange can *)
(* have begun under 3.1.1 only after a NEGOTIATE that chose it.            *)
Absorbed ==
    /\ preauth = Negotiated(negs)
    /\ commits <= negs
    /\ commits = 0 => dialect = "none"
    /\ commits <= 1 /\ dialect # "311" => \A s \in Sids : ~exch[s].began311

(* The response is for a challenge that is outstanding, or for an exchange *)
(* that is over or whose id the client has used for something else.        *)
Answering ==
    /\ resp.at = "idle" => resp.pre = <<>>
    /\ resp.at = "snapshot" =>
        /\ resp.status # "more"
        /\ resp.sid \in Sids
    /\ resp.at = "respond" /\ resp.status = "more" => resp.sid \in pending_auths
    /\ resp.pre # <<>> /\ resp.hs \in pending_auths =>
        resp.status = "more" \/ ~exch[resp.hs].clean

(* Session hashes exist under 3.1.1 and for pending exchanges only.        *)
HashesOwned ==
    commits <= 1 =>
        /\ \A s \in Sids : session_preauth[s] # <<>> => s \in pending_auths
        /\ dialect # "311" =>
            resp.pre = <<>> /\ \A s \in Sids : session_preauth[s] = <<>>

(* A response that establishes a user's session is about that session,     *)
(* which has its key or was swept.                                         *)
Established(r) ==
    r.cmd = "SESSION_SETUP" /\ r.status = "ok" /\ ~r.skip_signing
SignatureDue ==
    Established(resp) =>
        /\ resp.sid \in Sids
        /\ resp.at = "idle" => resp.signed \/ exch[resp.sid].swept
        /\ resp.at # "idle" => sessions[resp.sid] = "user" \/ exch[resp.sid].swept
        /\ resp.at = "respond" /\ Live(resp.sid) =>
            signing_key[resp.sid] # ZeroKey

(* Where the hash of exchange s is: in the response that carries the       *)
(* challenge, in the table, in the response of its final round, in the key.*)
Challenging(s) == resp.at = "respond" /\ resp.status = "more" /\ resp.sid = s
HeardBy(s) ==
    /\ s \in pending_auths =>
        IF Challenging(s) THEN resp.pre = Begun(s)
                          ELSE session_preauth[s] = Challenged(s)
    /\ Live(s) =>
        IF resp.at = "snapshot" /\ resp.sid = s
          THEN resp.pre = Finished(s)
          ELSE signing_key[s] = Key311(Finished(s))
Heard ==
    commits = 1 =>
        \A s \in Sids : exch[s].began311 /\ exch[s].clean => HeardBy(s)

(* The inductive invariant.                                                *)
SetupInv ==
    /\ TypeOK
    /\ IdsSpent
    /\ OneAttempt
    /\ Absorbed
    /\ Answering
    /\ HashesOwned
    /\ SignatureDue
    /\ Heard

-----------------------------------------------------------------------------
(* The sequences that hashes are.                                          *)

(* Every message of an exchange is one.                                    *)
LEMMA MessageTypes ==
    /\ \A n \in 1 .. MaxNegotiate :
        <<"NegReq", n>> \in Messages /\ <<"NegRsp", n>> \in Messages
    /\ \A s \in 0 .. MaxSid :
        /\ <<"First", s>> \in Messages
        /\ <<"Challenge", s>> \in Messages
        /\ <<"Final", s>> \in Messages
BY DEF Messages

(* The hash of n NEGOTIATEs is a sequence of messages.                     *)
LEMMA NegotiatedType ==
    ASSUME NEW n \in 0 .. MaxNegotiate
    PROVE  /\ Negotiated(n) \in Seq(Messages)
           /\ Len(Negotiated(n)) = 2 * n
<1>1. n \in Nat /\ MaxNegotiate \in Nat /\ 2 * n \in Nat
  BY BoundsAssumption
<1>2. ASSUME NEW i \in 1 .. 2 * n
      PROVE  <<IF i % 2 = 1 THEN "NegReq" ELSE "NegRsp", (i + 1) \div 2>> \in Messages
  <2>1. (i + 1) \div 2 \in 1 .. MaxNegotiate
    BY <1>1
  <2> QED BY <2>1, MessageTypes
<1>3. Negotiated(n) \in [1 .. 2 * n -> Messages]
  BY <1>2 DEF Negotiated
<1> QED BY <1>1, <1>3

(* Before any NEGOTIATE, it is empty.                                      *)
LEMMA NegotiatedNone == Negotiated(0) = <<>>
BY DEF Negotiated

(* One more NEGOTIATE adds its request and its response.                   *)
LEMMA NegotiatedNext ==
    ASSUME NEW n \in 0 .. MaxNegotiate, n < MaxNegotiate
    PROVE  Negotiated(n + 1) =
             Negotiated(n) \o <<<<"NegReq", n + 1>>, <<"NegRsp", n + 1>>>>
<1> DEFINE p == Negotiated(n)
           q == <<<<"NegReq", n + 1>>, <<"NegRsp", n + 1>>>>
           r == Negotiated(n + 1)
<1>1. n \in Nat /\ MaxNegotiate \in Nat /\ n + 1 \in 1 .. MaxNegotiate
  BY BoundsAssumption
<1>2. p \in Seq(Messages) /\ Len(p) = 2 * n /\ r \in Seq(Messages) /\ Len(r) = 2 * n + 2
  BY <1>1, NegotiatedType
<1>3. q \in Seq(Messages) /\ Len(q) = 2
  BY <1>1, MessageTypes
<1>4. /\ \A i \in 1 .. 2 * n : r[i] = p[i]
      /\ r[2 * n + 1] = q[1] /\ r[2 * n + 2] = q[2]
  <2>1. /\ (2 * n + 1) % 2 = 1 /\ ((2 * n + 1) + 1) \div 2 = n + 1
        /\ (2 * n + 2) % 2 = 0 /\ ((2 * n + 2) + 1) \div 2 = n + 1
    BY <1>1
  <2>2. 2 * (n + 1) = 2 * n + 2 /\ 1 .. 2 * n \subseteq 1 .. 2 * n + 2
        /\ 2 * n + 1 \in 1 .. 2 * n + 2 /\ 2 * n + 2 \in 1 .. 2 * n + 2
    BY <1>1
  <2>3. r[2 * n + 1] = q[1] /\ r[2 * n + 2] = q[2]
    BY <2>1, <2>2 DEF Negotiated
  <2>4. \A i \in 1 .. 2 * n : r[i] = p[i]
    BY <2>2 DEF Negotiated
  <2> QED BY <2>3, <2>4
<1> HIDE DEF p, q, r
<1>5. /\ p \o q \in Seq(Messages) /\ Len(p \o q) = Len(r)
      /\ \A i \in 1 .. Len(r) : (p \o q)[i] = r[i]
  <2>0. Len(p) + Len(q) = 2 * n + 2
    BY <1>1, <1>2, <1>3
  <2>1. /\ p \o q \in Seq(Messages) /\ Len(p \o q) = Len(p) + Len(q)
        /\ \A i \in 1 .. Len(p) + Len(q) :
              (p \o q)[i] = IF i <= Len(p) THEN p[i] ELSE q[i - Len(p)]
    BY <1>2, <1>3, ConcatProperties
  <2>2. ASSUME NEW i \in 1 .. 2 * n + 2
        PROVE  (p \o q)[i] = r[i]
    <3>1. CASE i <= 2 * n
      BY <1>1, <1>2, <1>4, <2>0, <2>1, <3>1
    <3>2. CASE i = 2 * n + 1
      <4>1. ~(i <= Len(p)) /\ i - Len(p) = 1
        BY <1>1, <1>2, <3>2
      <4>2. (p \o q)[i] = q[1]
        BY <2>0, <2>1, <4>1
      <4> QED BY <1>4, <3>2, <4>2
    <3>3. CASE i = 2 * n + 2
      <4>1. ~(i <= Len(p)) /\ i - Len(p) = 2
        BY <1>1, <1>2, <3>3
      <4>2. (p \o q)[i] = q[2]
        BY <2>0, <2>1, <4>1
      <4>3. r[i] = q[2]
        BY ONLY <1>4, <3>3
      <4> QED BY <4>2, <4>3
    <3>4. i <= 2 * n \/ i = 2 * n + 1 \/ i = 2 * n + 2
      BY ONLY <1>1
    <3> QED BY <3>1, <3>2, <3>3, <3>4
  <2> QED BY <1>2, <2>0, <2>1, <2>2
<1>6. p \o q = r
  BY <1>2, <1>5, SeqEqual
<1> QED BY <1>6 DEF p, q, r

(* Three messages one after the other, or at once.                         *)
LEMMA AppendThree ==
    ASSUME NEW S, NEW p \in Seq(S), NEW a \in S, NEW b \in S, NEW c \in S
    PROVE  Append(Append(Append(p, a), b), c) = p \o <<a, b, c>>
<1> DEFINE q == Append(Append(Append(p, a), b), c)
           r == p \o <<a, b, c>>
<1>1. q \in Seq(S) /\ r \in Seq(S) /\ Len(q) = Len(r)
  OBVIOUS
<1>2. \A i \in 1 .. Len(q) : q[i] = r[i]
  OBVIOUS
<1> QED BY <1>1, <1>2, SeqEqual

-----------------------------------------------------------------------------
(* Types.                                                                  *)

(* What a hash absorbs next is still a hash.                               *)
LEMMA TakePreauthType ==
    ASSUME TypeOK, NEW hs \in 0 .. MaxSid, NEW m \in Messages
    PROVE  TakePreauth(hs, m) \in Seq(Messages)
<1>1. /\ preauth \in Seq(Messages)
      /\ hs \in Sids => session_preauth[hs] \in Seq(Messages)
      /\ <<>> \in Seq(Messages)
  BY DEF TypeOK
<1> QED BY <1>1 DEF TakePreauth

(* The table of session hashes keeps its type when an entry is taken.      *)
LEMMA TakenType ==
    ASSUME TypeOK, NEW hs
    PROVE  Taken(hs) \in [Sids -> Seq(Messages)]
BY DEF Taken, TypeOK

(* At the start, everything has its type.                                  *)
LEMMA InitTypeOK == Init => TypeOK
<1> SUFFICES ASSUME Init PROVE TypeOK
  OBVIOUS
<1>1. ZeroKey \in Keys /\ <<>> \in Seq(Messages)
  BY DEF ZeroKey, Keys
<1>2. 0 \in 0 .. MaxSid /\ 0 \in 0 .. MaxNegotiate /\ 1 \in 1 .. (MaxSid + 1)
  BY BoundsAssumption
<1>3. resp \in RespTypes
  BY <1>1, <1>2 DEF Init, RespTypes
<1>4. exch \in [Sids -> ExchangeTypes]
  BY <1>2 DEF Init, ExchangeTypes
<1>5. /\ sessions \in [Sids -> {"absent", "user", "anonymous"}]
      /\ signing_key \in [Sids -> Keys]
      /\ session_preauth \in [Sids -> Seq(Messages)]
  BY <1>1 DEF Init
<1> QED BY <1>1, <1>2, <1>3, <1>4, <1>5 DEF Init, TypeOK

(* A NEGOTIATE counts as heard.                                            *)
LEMMA AbsorbType ==
    ASSUME TypeOK, AbsorbNegotiate
    PROVE  negs' \in 0 .. MaxNegotiate /\ preauth' \in Seq(Messages)
<1>1. negs + 1 \in 1 .. MaxNegotiate /\ negs + 1 \in 0 .. MaxNegotiate
  BY BoundsAssumption DEF TypeOK, AbsorbNegotiate
<1>2. <<<<"NegReq", negs + 1>>, <<"NegRsp", negs + 1>>>> \in Seq(Messages)
  BY <1>1, MessageTypes
<1> QED BY <1>1, <1>2, ConcatProperties DEF AbsorbNegotiate, TypeOK

(* Every step keeps the types.                                             *)
LEMMA StepTypeOK ==
    ASSUME TypeOK, commits <= negs, [Next]_vars
    PROVE  TypeOK'
<1>b. MaxSid \in Nat /\ MaxNegotiate \in Nat
  BY BoundsAssumption
<1>e. \A s \in Sids : exch[s] \in ExchangeTypes
  BY DEF TypeOK
<1>n. <<>> \in Seq(Messages) /\ 0 \in 0 .. MaxSid /\ Sids \subseteq 0 .. MaxSid
  BY <1>b DEF Sids
<1>0. CASE UNCHANGED vars
  BY <1>0 DEF vars, tables, TypeOK
<1>1. ASSUME NEW st \in {"ok", "error"}, NegotiateReply(st)
      PROVE  resp' \in RespTypes
  BY <1>1, <1>n DEF NegotiateReply, RespTypes
<1>2. ASSUME NEW d \in {"older", "311"}, Negotiate(d)
      PROVE  TypeOK'
  <2>1. commits + 1 \in 0 .. MaxNegotiate
    BY <1>2, <1>b DEF TypeOK, Negotiate, AbsorbNegotiate
  <2> QED BY <1>1, <1>2, <2>1, AbsorbType DEF Negotiate, tables, TypeOK
<1>3. CASE NegotiateRefused
  BY <1>1, <1>3, AbsorbType DEF NegotiateRefused, tables, TypeOK
<1>4. CASE MultiProtocol
  BY <1>1, <1>4 DEF MultiProtocol, tables, TypeOK
<1>5. ASSUME NEW hs \in 0 .. MaxSid, NEW sig \in Sigs,
             NEW cmd \in {"SESSION_SETUP", "LOGOFF"}, Denied(cmd, hs, sig)
      PROVE  TypeOK'
  <2>1. resp' \in RespTypes
    BY <1>5, <1>n DEF Denied, Reply, RespTypes
  <2> QED BY <1>5, <2>1 DEF Denied, tables, TypeOK
<1>6. ASSUME NEW hs \in 0 .. MaxSid
      PROVE  Spoiled(hs) \in [Sids -> ExchangeTypes]
  BY <1>e DEF Spoiled, TypeOK, ExchangeTypes
<1>7. ASSUME NEW hs \in 0 .. MaxSid
      PROVE  TakePreauth(hs, <<"Final", hs>>) \in Seq(Messages)
  BY MessageTypes, TakePreauthType
<1>8. ASSUME NEW hs \in 0 .. MaxSid, next_session_id \in Sids
      PROVE  /\ TakePreauth(hs, <<"First", next_session_id>>) \in Seq(Messages)
             /\ next_session_id + 1 \in 1 .. (MaxSid + 1)
  <2>1. next_session_id \in 0 .. MaxSid /\ next_session_id + 1 \in 1 .. (MaxSid + 1)
    BY <1>8, <1>b DEF Sids
  <2>2. <<"First", next_session_id>> \in Messages
    BY <2>1, MessageTypes
  <2> QED BY <2>1, <2>2, TakePreauthType
<1>9. ASSUME NEW hs \in 0 .. MaxSid, NEW sig \in Sigs,
             SetupRejected(hs, sig) \/ SetupStep1Failed(hs, sig)
      PROVE  TypeOK'
  <2>1. resp' \in RespTypes
    <3>1. CASE SetupRejected(hs, sig)
      BY <1>7, <3>1 DEF SetupRejected, Reply, RespTypes
    <3>2. CASE SetupStep1Failed(hs, sig)
      BY <1>8, <3>2 DEF SetupStep1Failed, Reply, RespTypes
    <3> QED BY <1>9, <3>1, <3>2
  <2> QED BY <1>9, <1>6, <1>8, <2>1, TakenType
          DEF SetupRejected, SetupStep1Failed, tables, TypeOK
<1>10. ASSUME NEW hs \in 0 .. MaxSid, NEW sig \in Sigs, SetupChallenge(hs, sig)
       PROVE  TypeOK'
  <2> DEFINE new == next_session_id
             x == [negAt |-> negs, began311 |-> dialect = "311",
                   clean |-> hs \notin pending_auths,
                   attempts |-> 0, swept |-> FALSE]
  <2>1. new \in Sids /\ new \in 0 .. MaxSid
    BY <1>10, <1>n DEF SetupChallenge
  <2>2. resp' \in RespTypes
    BY <1>10, <1>8, <2>1 DEF SetupChallenge, Reply, RespTypes
  <2>3. x \in ExchangeTypes
    BY DEF TypeOK, ExchangeTypes
  <2>4. exch' = [Spoiled(hs) EXCEPT ![new] = x]
    BY <1>10 DEF SetupChallenge
  <2> HIDE DEF x
  <2>5. exch' \in [Sids -> ExchangeTypes]
    BY <1>6, <2>3, <2>4
  <2> QED BY <1>10, <1>8, <2>1, <2>2, <2>5, TakenType
          DEF SetupChallenge, tables, TypeOK
<1>11. ASSUME NEW s \in Sids
       PROVE  Attempted(s) \in [Sids -> ExchangeTypes]
  <2>1. [exch[s] EXCEPT !.attempts = @ + 1] \in ExchangeTypes
    BY <1>e DEF ExchangeTypes
  <2> QED BY <1>e, <2>1 DEF Attempted, TypeOK
<1>12. ASSUME NEW hs \in 0 .. MaxSid, NEW sig \in Sigs, SetupFailed(hs, sig)
       PROVE  TypeOK'
  <2>1. hs \in Sids
    BY <1>12 DEF SetupFailed, TypeOK
  <2>2. resp' \in RespTypes
    BY <1>12, <1>7 DEF SetupFailed, Reply, RespTypes
  <2> QED BY <1>12, <1>11, <2>1, <2>2, TakenType
          DEF SetupFailed, RemovePending, tables, TypeOK
<1>13. ASSUME NEW hs \in 0 .. MaxSid, NEW sig \in Sigs,
              NEW id \in {"user", "anonymous"}, SetupInsert(hs, id, sig)
       PROVE  TypeOK'
  <2>1. hs \in Sids
    BY <1>13 DEF SetupInsert, TypeOK
  <2>2. resp' \in RespTypes
    BY <1>13, <1>7 DEF SetupInsert, Reply, RespTypes
  <2>3. ZeroKey \in Keys /\ Key30 \in Keys
    BY <1>n DEF ZeroKey, Key30, Keys
  <2>4. signing_key' \in [Sids -> Keys]
    BY <1>13, <2>3 DEF SetupInsert, TypeOK
  <2> QED BY <1>13, <1>11, <2>1, <2>2, <2>4, TakenType
          DEF SetupInsert, RemovePending, tables, TypeOK
<1>14. CASE TakeSnapshot
  <2>1. resp \in RespTypes /\ resp' = [resp EXCEPT !.at = "respond"]
    BY <1>14 DEF TakeSnapshot, TypeOK
  <2>2. resp' \in RespTypes /\ Key311(resp.pre) \in Keys
    BY <2>1 DEF RespTypes, Key311, Keys
  <2>3. signing_key' \in [Sids -> Keys]
    BY <1>14, <2>2 DEF TakeSnapshot, TypeOK
  <2> QED BY <1>14, <2>2, <2>3 DEF TakeSnapshot, TypeOK
<1>15. ASSUME NEW hs \in 0 .. MaxSid, NEW sig \in Sigs, Logoff(hs, sig)
       PROVE  TypeOK'
  <2>1. resp' \in RespTypes
    BY <1>15, <1>n DEF Logoff, Reply, RespTypes
  <2> QED BY <1>15, <2>1 DEF Logoff, TypeOK
<1>16. ASSUME NEW s \in Sids, Sweep(s)
       PROVE  TypeOK'
  <2>1. exch' \in [Sids -> ExchangeTypes]
    BY <1>16, <1>e DEF Sweep, TypeOK, ExchangeTypes
  <2> QED BY <1>16, <2>1 DEF Sweep, TypeOK
<1>17. CASE Respond
  <2>1. resp \in RespTypes /\ ShouldSign \in BOOLEAN
    BY DEF TypeOK, ShouldSign
  <2>2. resp' = [resp EXCEPT !.at = "idle", !.signed = ShouldSign, !.pre = <<>>]
    BY <1>17 DEF Respond
  <2>3. resp' \in RespTypes
    BY <1>n, <2>1, <2>2 DEF RespTypes
  <2>4. resp.sid \in 0 .. MaxSid /\ resp.pre \in Seq(Messages)
    BY <2>1 DEF RespTypes
  <2>5. Append(resp.pre, <<"Challenge", resp.sid>>) \in Seq(Messages)
    <3>1. <<"Challenge", resp.sid>> \in Messages
      BY <2>4, MessageTypes
    <3> QED BY <2>4, <3>1
  <2>6. StorePreauth \in [Sids -> Seq(Messages)]
    BY <2>5, TakenType DEF StorePreauth, TypeOK
  <2> QED BY <1>17, <2>3, <2>6 DEF Respond, tables, TypeOK
<1> QED BY <1>0, <1>2, <1>3, <1>4, <1>5, <1>9, <1>10, <1>12, <1>13, <1>14, <1>15,
           <1>16, <1>17 DEF Next, Setup

-----------------------------------------------------------------------------
(* Session ids, and the history of exchanges.                              *)

(* Another use of the id of a pending exchange only spoils it.             *)
LEMMA SpoiledEffect ==
    ASSUME TypeOK, NEW hs \in 0 .. MaxSid, NEW s \in Sids
    PROVE  /\ Spoiled(hs)[s].negAt = exch[s].negAt
           /\ Spoiled(hs)[s].began311 = exch[s].began311
           /\ Spoiled(hs)[s].attempts = exch[s].attempts
           /\ Spoiled(hs)[s].swept = exch[s].swept
           /\ s # hs \/ hs \notin pending_auths =>
                Spoiled(hs)[s].clean = exch[s].clean
           /\ s = hs /\ hs \in pending_auths => ~Spoiled(hs)[s].clean
<1>1. exch[s] \in ExchangeTypes /\ exch \in [Sids -> ExchangeTypes]
  BY DEF TypeOK
<1>2. CASE hs \in pending_auths
  <2>1. Spoiled(hs) = [exch EXCEPT ![hs].clean = FALSE] /\ hs \in Sids
    BY <1>2 DEF Spoiled, TypeOK
  <2>2. CASE s = hs
    BY <1>1, <1>2, <2>1, <2>2 DEF ExchangeTypes
  <2>3. CASE s # hs
    BY <1>1, <1>2, <2>1, <2>3
  <2> QED BY <2>2, <2>3
<1>3. CASE hs \notin pending_auths
  BY <1>3 DEF Spoiled
<1> QED BY <1>2, <1>3

(* An answer counts as an attempt at its exchange.                         *)
LEMMA AttemptedEffect ==
    ASSUME TypeOK, NEW hs \in Sids, NEW s \in Sids
    PROVE  /\ Attempted(hs)[s].negAt = exch[s].negAt
           /\ Attempted(hs)[s].began311 = exch[s].began311
           /\ Attempted(hs)[s].clean = exch[s].clean
           /\ Attempted(hs)[s].swept = exch[s].swept
           /\ Attempted(hs)[s].attempts =
                exch[s].attempts + (IF s = hs THEN 1 ELSE 0)
<1>1. exch[s] \in ExchangeTypes /\ exch \in [Sids -> ExchangeTypes]
  BY DEF TypeOK
<1>2. CASE s = hs
  BY <1>1, <1>2 DEF Attempted, ExchangeTypes
<1>3. CASE s # hs
  BY <1>1, <1>3 DEF Attempted, ExchangeTypes
<1> QED BY <1>2, <1>3

(* A sweep leaves a mark.                                                  *)
LEMMA SweepEffect ==
    ASSUME TypeOK, NEW x \in Sids, Sweep(x), NEW s \in Sids
    PROVE  /\ exch'[s].negAt = exch[s].negAt
           /\ exch'[s].began311 = exch[s].began311
           /\ exch'[s].clean = exch[s].clean
           /\ exch'[s].attempts = exch[s].attempts
           /\ exch'[s].swept = IF s = x THEN TRUE ELSE exch[s].swept
           /\ sessions'[s] = IF s = x THEN "absent" ELSE sessions[s]
<1>1. exch[s] \in ExchangeTypes /\ exch \in [Sids -> ExchangeTypes]
  BY DEF TypeOK
<1>2. exch' = [exch EXCEPT ![x].swept = TRUE]
  BY DEF Sweep
<1>3. sessions'[s] = IF s = x THEN "absent" ELSE sessions[s]
  BY DEF Sweep, TypeOK
<1>4. CASE s = x
  BY <1>1, <1>2, <1>3, <1>4 DEF ExchangeTypes
<1>5. CASE s # x
  BY <1>1, <1>2, <1>3, <1>5
<1> QED BY <1>4, <1>5

(* A first round that is answered with a challenge begins exchange new.    *)
LEMMA ChallengeEffect ==
    ASSUME TypeOK, NEW hs \in 0 .. MaxSid, NEW sig \in Sigs, SetupChallenge(hs, sig)
    PROVE  LET new == next_session_id IN
           /\ new \in Sids
           /\ \A s \in Sids \ {new} : exch'[s] = Spoiled(hs)[s]
           /\ exch'[new].negAt = negs
           /\ exch'[new].began311 = (dialect = "311")
           /\ exch'[new].clean = (hs \notin pending_auths)
           /\ exch'[new].attempts = 0
<1>1. next_session_id \in Sids /\ DOMAIN Spoiled(hs) = Sids
  BY DEF SetupChallenge, Spoiled, TypeOK
<1> HIDE DEF Spoiled
<1> QED BY <1>1 DEF SetupChallenge

(* The ids of pending exchanges and of sessions stay allocated ones, and   *)
(* an exchange is answered once, in every step.                            *)
LEMMA StepOneAttempt ==
    ASSUME TypeOK, IdsSpent, OneAttempt, [Next]_vars
    PROVE  IdsSpent' /\ OneAttempt'
<1>t. /\ MaxSid \in Nat /\ Sids = 1 .. MaxSid
      /\ next_session_id \in 1 .. (MaxSid + 1) /\ pending_auths \subseteq Sids
  BY BoundsAssumption DEF TypeOK, Sids
<1>0. ASSUME UNCHANGED <<sessions, pending_auths, next_session_id, exch>>
      PROVE  IdsSpent' /\ OneAttempt'
  BY <1>0 DEF IdsSpent, OneAttempt, Live
<1>1. ASSUME NEW hs \in 0 .. MaxSid, NEW sig \in Sigs,
             SetupRejected(hs, sig) \/ SetupStep1Failed(hs, sig)
      PROVE  IdsSpent' /\ OneAttempt'
  <2>1. /\ \A s \in Sids : exch'[s].attempts = exch[s].attempts
        /\ UNCHANGED <<sessions, pending_auths>>
        /\ next_session_id' \in {next_session_id, next_session_id + 1}
    BY <1>1, SpoiledEffect DEF SetupRejected, SetupStep1Failed, tables
  <2>2. IdsSpent'
    BY <1>t, <2>1 DEF IdsSpent, Live
  <2> QED BY <1>t, <2>1, <2>2 DEF OneAttempt, Live
<1>2. ASSUME NEW hs \in 0 .. MaxSid, NEW sig \in Sigs, SetupChallenge(hs, sig)
      PROVE  IdsSpent' /\ OneAttempt'
  <2> DEFINE new == next_session_id
  <2>1. /\ new \in Sids /\ new \notin pending_auths /\ ~Live(new)
        /\ next_session_id' = new + 1 /\ pending_auths' = pending_auths \cup {new}
        /\ UNCHANGED sessions
    BY <1>2, <1>t DEF SetupChallenge, IdsSpent
  <2>2. \A s \in Sids :
           exch'[s].attempts = IF s = new THEN 0 ELSE exch[s].attempts
    BY <1>2, ChallengeEffect, SpoiledEffect
  <2>3. IdsSpent'
    BY <1>t, <2>1 DEF IdsSpent, Live
  <2>4. \A s \in Sids : exch'[s].attempts <= 1
    BY <2>2 DEF OneAttempt
  <2>5. ASSUME NEW s \in pending_auths'
        PROVE  ~Live(s)' /\ exch'[s].attempts = 0
    <3>1. s \in Sids /\ (s = new \/ s \in pending_auths)
      BY <1>t, <2>1
    <3>2. ~Live(s)
      BY <2>1, <3>1 DEF OneAttempt
    <3>3. exch'[s].attempts = 0
      BY <2>2, <3>1 DEF OneAttempt
    <3> QED BY <2>1, <3>2, <3>3 DEF Live
  <2> QED BY <2>3, <2>4, <2>5 DEF OneAttempt
<1>3. ASSUME NEW hs \in Sids, hs \in pending_auths, exch' = Attempted(hs),
             pending_auths' = pending_auths \ {hs},
             next_session_id' = next_session_id,
             \A s \in Sids \ {hs} : sessions'[s] = sessions[s]
      PROVE  IdsSpent' /\ OneAttempt'
  <2>1. \A s \in Sids :
           exch'[s].attempts = exch[s].attempts + (IF s = hs THEN 1 ELSE 0)
    BY <1>3, AttemptedEffect
  <2>2. exch[hs].attempts = 0
    BY <1>3 DEF OneAttempt
  <2>3. \A s \in Sids : exch[s].attempts \in Nat
    BY DEF TypeOK, ExchangeTypes
  <2>4. IdsSpent'
    BY <1>3, <1>t DEF IdsSpent, Live
  <2>5. \A s \in Sids : exch'[s].attempts <= 1
    BY <2>1, <2>2, <2>3 DEF OneAttempt
  <2>6. \A s \in pending_auths' : ~Live(s)' /\ exch'[s].attempts = 0
    BY <1>3, <1>t, <2>1 DEF OneAttempt, Live
  <2> QED BY <2>4, <2>5, <2>6 DEF OneAttempt
<1>4. ASSUME NEW hs \in 0 .. MaxSid, NEW sig \in Sigs,
             \/ SetupFailed(hs, sig)
             \/ \E id \in {"user", "anonymous"} : SetupInsert(hs, id, sig)
      PROVE  IdsSpent' /\ OneAttempt'
  <2>1. hs \in pending_auths /\ hs \in Sids
    BY <1>4, <1>t DEF SetupFailed, SetupInsert
  <2> QED BY <1>3, <1>4, <2>1 DEF SetupFailed, SetupInsert, RemovePending, TypeOK
<1>5. ASSUME NEW s \in Sids, sessions' = [sessions EXCEPT ![s] = "absent"],
             UNCHANGED <<pending_auths, next_session_id>>,
             \A x \in Sids : exch'[x].attempts = exch[x].attempts
      PROVE  IdsSpent' /\ OneAttempt'
  <2>1. \A x \in Sids : Live(x)' => Live(x)
    BY <1>5 DEF Live, TypeOK
  <2>2. IdsSpent'
    BY <1>5, <2>1 DEF IdsSpent
  <2> QED BY <1>5, <1>t, <2>1, <2>2 DEF OneAttempt
<1>6. ASSUME NEW hs \in 0 .. MaxSid, NEW sig \in Sigs, Logoff(hs, sig)
      PROVE  IdsSpent' /\ OneAttempt'
  BY <1>0, <1>5, <1>6 DEF Logoff
<1>7. ASSUME NEW s \in Sids, Sweep(s)
      PROVE  IdsSpent' /\ OneAttempt'
  BY <1>5, <1>7, SweepEffect DEF Sweep
<1>8. CASE \/ UNCHANGED vars
           \/ \E d \in {"older", "311"} : Negotiate(d)
           \/ NegotiateRefused \/ MultiProtocol \/ TakeSnapshot \/ Respond
           \/ \E hs \in 0 .. MaxSid, sig \in Sigs, cmd \in {"SESSION_SETUP", "LOGOFF"} :
                 Denied(cmd, hs, sig)
  BY <1>0, <1>8 DEF vars, tables, Negotiate, NegotiateRefused, MultiProtocol,
                    TakeSnapshot, Respond, Denied
<1> QED BY <1>1, <1>2, <1>4, <1>6, <1>7, <1>8 DEF Next, Setup

(* Only a challenge begins an exchange; what an exchange began with stays. *)
LEMMA HistoryKept ==
    ASSUME TypeOK, [Next]_vars, NEW s \in Sids
    PROVE  \/ /\ exch'[s].negAt = exch[s].negAt
              /\ exch'[s].began311 = exch[s].began311
              /\ exch'[s].clean => exch[s].clean
              /\ exch[s].swept => exch'[s].swept
           \/ \E hs \in 0 .. MaxSid, sig \in Sigs :
                 SetupChallenge(hs, sig) /\ s = next_session_id
<1> DEFINE Kept == /\ exch'[s].negAt = exch[s].negAt
                   /\ exch'[s].began311 = exch[s].began311
                   /\ exch'[s].clean => exch[s].clean
                   /\ exch[s].swept => exch'[s].swept
<1>1. ASSUME NEW hs \in 0 .. MaxSid, exch'[s] = Spoiled(hs)[s]
      PROVE  Kept
  BY <1>1, SpoiledEffect
<1>2. ASSUME NEW hs \in Sids, exch' = Attempted(hs)
      PROVE  Kept
  BY <1>2, AttemptedEffect
<1>3. ASSUME NEW x \in Sids, Sweep(x)
      PROVE  Kept
  BY <1>3, SweepEffect
<1>4. CASE UNCHANGED exch
  BY <1>4
<1>5. ASSUME NEW hs \in 0 .. MaxSid, NEW sig \in Sigs, Setup(hs, sig)
      PROVE  Kept \/ (SetupChallenge(hs, sig) /\ s = next_session_id)
  <2>1. CASE SetupRejected(hs, sig) \/ SetupStep1Failed(hs, sig)
    BY <1>1, <2>1 DEF SetupRejected, SetupStep1Failed
  <2>2. CASE SetupChallenge(hs, sig)
    BY <1>1, <2>2, ChallengeEffect
  <2>3. CASE \/ SetupFailed(hs, sig)
             \/ \E id \in {"user", "anonymous"} : SetupInsert(hs, id, sig)
    <3>1. hs \in Sids
      BY <2>3 DEF SetupFailed, SetupInsert, TypeOK
    <3> QED BY <1>2, <2>3, <3>1 DEF SetupFailed, SetupInsert
  <2> HIDE DEF Kept
  <2> QED BY <1>5, <2>1, <2>2, <2>3 DEF Setup
<1>6. ASSUME \/ UNCHANGED vars
             \/ \E d \in {"older", "311"} : Negotiate(d)
             \/ NegotiateRefused \/ MultiProtocol \/ TakeSnapshot \/ Respond
      PROVE  Kept
  BY <1>4, <1>6 DEF vars, Negotiate, NegotiateRefused, MultiProtocol, TakeSnapshot,
                    Respond
<1>8. ASSUME NEW hs \in 0 .. MaxSid, NEW sig \in Sigs,
             \/ Logoff(hs, sig)
             \/ \E cmd \in {"SESSION_SETUP", "LOGOFF"} : Denied(cmd, hs, sig)
      PROVE  Kept
  BY <1>4, <1>8 DEF Logoff, Denied
<1> HIDE DEF Kept
<1>7. Kept \/ \E hs \in 0 .. MaxSid, sig \in Sigs :
                 SetupChallenge(hs, sig) /\ s = next_session_id
  <2>1. CASE \E hs \in 0 .. MaxSid, sig \in Sigs :
                \/ Setup(hs, sig) \/ Logoff(hs, sig)
                \/ \E cmd \in {"SESSION_SETUP", "LOGOFF"} : Denied(cmd, hs, sig)
    BY <1>5, <1>8, <2>1
  <2>2. CASE \E x \in Sids : Sweep(x)
    BY <1>3, <2>2
  <2> QED BY <1>6, <2>1, <2>2 DEF Next
<1> QED BY <1>7 DEF Kept

(* Every step keeps what the connection's hash has absorbed.               *)
LEMMA StepAbsorbed ==
    ASSUME TypeOK, Absorbed, [Next]_vars
    PROVE  Absorbed'
<1>t. MaxNegotiate \in Nat /\ negs \in 0 .. MaxNegotiate /\ commits \in 0 .. MaxNegotiate
  BY BoundsAssumption DEF TypeOK
<1>1. ASSUME AbsorbNegotiate
      PROVE  preauth' = Negotiated(negs')
  BY <1>1, <1>t, NegotiatedNext DEF AbsorbNegotiate, Absorbed
<1>2. ASSUME NEW d \in {"older", "311"}, Negotiate(d)
      PROVE  Absorbed'
  <2>1. /\ commits' = commits + 1 /\ negs' = negs + 1 /\ dialect' = d /\ exch' = exch
        /\ AbsorbNegotiate
    BY <1>2 DEF Negotiate, AbsorbNegotiate
  <2>2. commits' <= 1 => \A s \in Sids : ~exch[s].began311
    BY <1>t, <2>1 DEF Absorbed
  <2> QED BY <1>t, <1>1, <2>1, <2>2 DEF Absorbed
<1>3. CASE NegotiateRefused
  <2>1. negs' = negs + 1 /\ UNCHANGED <<dialect, commits, exch>> /\ AbsorbNegotiate
    BY <1>3 DEF NegotiateRefused, AbsorbNegotiate
  <2> QED BY <1>t, <1>1, <2>1 DEF Absorbed
<1>4. CASE UNCHANGED <<preauth, negs, commits, dialect>>
  <2>1. ASSUME NEW s \in Sids, commits <= 1, dialect # "311"
        PROVE  ~exch'[s].began311
    <3>1. ASSUME NEW hs \in 0 .. MaxSid, NEW sig \in Sigs,
                 SetupChallenge(hs, sig), s = next_session_id
          PROVE  ~exch'[s].began311
      BY <2>1, <3>1, ChallengeEffect
    <3>2. ~exch[s].began311
      BY <2>1 DEF Absorbed
    <3> QED BY <3>1, <3>2, HistoryKept
  <2> QED BY <1>4, <2>1 DEF Absorbed
<1>5. ASSUME NEW hs \in 0 .. MaxSid, NEW sig \in Sigs,
             \/ Setup(hs, sig) \/ Logoff(hs, sig)
             \/ \E cmd \in {"SESSION_SETUP", "LOGOFF"} : Denied(cmd, hs, sig)
      PROVE  UNCHANGED <<preauth, negs, commits, dialect>>
  BY <1>5 DEF Setup, SetupRejected, SetupStep1Failed, SetupChallenge, SetupFailed,
              SetupInsert, Logoff, Denied
<1>6. CASE \/ UNCHANGED vars \/ MultiProtocol \/ TakeSnapshot \/ Respond
           \/ \E s \in Sids : Sweep(s)
  BY <1>4, <1>6 DEF vars, MultiProtocol, TakeSnapshot, Respond, Sweep
<1> QED BY <1>2, <1>3, <1>4, <1>5, <1>6 DEF Next

-----------------------------------------------------------------------------
(* Responses and hashes.                                                   *)

(* Every step keeps what the response being made is about.                 *)
LEMMA StepAnswering ==
    ASSUME TypeOK, Answering, [Next]_vars
    PROVE  Answering'
<1>1. ASSUME NEW st \in {"ok", "error"}, NegotiateReply(st)
      PROVE  Answering'
  BY <1>1 DEF NegotiateReply, Answering
<1>2. CASE \/ \E d \in {"older", "311"} : Negotiate(d)
           \/ NegotiateRefused \/ MultiProtocol
  BY <1>1, <1>2 DEF Negotiate, NegotiateRefused, MultiProtocol
<1>3. ASSUME NEW hs \in 0 .. MaxSid, NEW sig \in Sigs,
             \/ Logoff(hs, sig)
             \/ \E cmd \in {"SESSION_SETUP", "LOGOFF"} : Denied(cmd, hs, sig)
      PROVE  Answering'
  BY <1>3 DEF Logoff, Denied, Reply, Answering
<1>4. ASSUME NEW hs \in 0 .. MaxSid, NEW sig \in Sigs,
             SetupRejected(hs, sig) \/ SetupStep1Failed(hs, sig)
      PROVE  Answering'
  <2>1. exch' = Spoiled(hs) /\ UNCHANGED pending_auths
    BY <1>4 DEF SetupRejected, SetupStep1Failed, tables
  <2>2. resp'.at = "respond" /\ resp'.hs = hs /\ resp'.status = "error"
    BY <1>4 DEF SetupRejected, SetupStep1Failed, Reply
  <2>3. hs \in pending_auths => ~exch'[hs].clean
    BY <2>1, SpoiledEffect DEF TypeOK
  <2> QED BY <2>1, <2>2, <2>3 DEF Answering
<1>5. ASSUME NEW hs \in 0 .. MaxSid, NEW sig \in Sigs, SetupChallenge(hs, sig)
      PROVE  Answering'
  BY <1>5 DEF SetupChallenge, Reply, Answering
<1>6. ASSUME NEW hs \in 0 .. MaxSid, NEW sig \in Sigs,
             \/ SetupFailed(hs, sig)
             \/ \E id \in {"user", "anonymous"} : SetupInsert(hs, id, sig)
      PROVE  Answering'
  <2>1. /\ resp'.at # "idle" /\ resp'.hs = hs /\ resp'.sid = hs
        /\ resp'.status # "more" /\ hs \notin pending_auths' /\ hs \in Sids
    BY <1>6 DEF SetupFailed, SetupInsert, Reply, RemovePending, TypeOK
  <2> QED BY <2>1 DEF Answering
<1>7. CASE TakeSnapshot
  <2>1. /\ resp'.at = "respond" /\ resp'.status = resp.status /\ resp'.pre = resp.pre
        /\ resp'.hs = resp.hs /\ UNCHANGED <<pending_auths, exch>>
    BY <1>7 DEF TakeSnapshot, TypeOK, RespTypes
  <2> QED BY <1>7, <2>1 DEF TakeSnapshot, Answering
<1>8. CASE Respond
  <2>1. resp'.at = "idle" /\ resp'.pre = <<>>
    BY <1>8 DEF Respond, TypeOK, RespTypes
  <2> QED BY <2>1 DEF Answering
<1>9. CASE UNCHANGED vars \/ \E s \in Sids : Sweep(s)
  <2>1. UNCHANGED <<resp, pending_auths>> /\ pending_auths \subseteq Sids
    BY <1>9 DEF vars, tables, Sweep, TypeOK
  <2>2. \A s \in Sids : exch'[s].clean => exch[s].clean
    BY <1>9, SweepEffect DEF vars
  <2> QED BY <2>1, <2>2 DEF Answering
<1> QED BY <1>2, <1>3, <1>4, <1>5, <1>6, <1>7, <1>8, <1>9 DEF Next, Setup

(* Every step keeps the owners of session hashes.                          *)
LEMMA StepHashesOwned ==
    ASSUME TypeOK, Absorbed, Answering, HashesOwned, [Next]_vars
    PROVE  HashesOwned'
<1>t. commits \in Nat
  BY BoundsAssumption DEF TypeOK
<1>1. ASSUME NEW d \in {"older", "311"}, Negotiate(d)
      PROVE  HashesOwned'
  <2>1. /\ commits' = commits + 1 /\ resp'.pre = <<>>
        /\ UNCHANGED <<session_preauth, pending_auths>>
    BY <1>1 DEF Negotiate, NegotiateReply, tables
  <2>2. commits' <= 1 => \A s \in Sids : session_preauth[s] = <<>>
    BY <1>t, <2>1 DEF Absorbed, HashesOwned
  <2> QED BY <2>1, <2>2 DEF HashesOwned
<1>2. CASE NegotiateRefused \/ MultiProtocol
  BY <1>2 DEF NegotiateRefused, MultiProtocol, NegotiateReply, tables, HashesOwned
<1>3. ASSUME NEW hs \in 0 .. MaxSid, NEW sig \in Sigs,
             \/ Logoff(hs, sig)
             \/ \E cmd \in {"SESSION_SETUP", "LOGOFF"} : Denied(cmd, hs, sig)
      PROVE  HashesOwned'
  BY <1>3 DEF Logoff, Denied, Reply, tables, HashesOwned
<1>4. ASSUME NEW hs \in 0 .. MaxSid, NEW sig \in Sigs, Setup(hs, sig)
      PROVE  HashesOwned'
  <2>1. /\ session_preauth' = Taken(hs)
        /\ UNCHANGED <<dialect, commits>>
        /\ pending_auths \ {hs} \subseteq pending_auths'
        /\ dialect # "311" => resp'.pre = <<>>
    <3>1. CASE SetupRejected(hs, sig) \/ SetupStep1Failed(hs, sig)
      BY <3>1 DEF SetupRejected, SetupStep1Failed, tables, Reply, TakePreauth
    <3>2. CASE SetupChallenge(hs, sig)
      BY <3>2 DEF SetupChallenge, Reply, TakePreauth
    <3>3. CASE SetupFailed(hs, sig)
      BY <3>3 DEF SetupFailed, RemovePending, Reply, TakePreauth
    <3>4. ASSUME NEW id \in {"user", "anonymous"}, SetupInsert(hs, id, sig)
          PROVE  /\ session_preauth' = Taken(hs)
                 /\ UNCHANGED <<dialect, commits>>
                 /\ pending_auths \ {hs} \subseteq pending_auths'
                 /\ dialect # "311" => resp'.pre = <<>>
      BY <3>4 DEF SetupInsert, RemovePending, Reply, TakePreauth
    <3> QED BY <1>4, <3>1, <3>2, <3>3, <3>4 DEF Setup
  <2>2. CASE dialect = "311"
    <3>1. \A s \in Sids : session_preauth'[s] # <<>> =>
              s # hs /\ session_preauth[s] # <<>>
      BY <2>1, <2>2 DEF Taken, TypeOK
    <3> QED BY <2>1, <2>2, <3>1 DEF HashesOwned
  <2>3. CASE dialect # "311"
    BY <2>1, <2>3 DEF Taken, HashesOwned
  <2> QED BY <2>2, <2>3
<1>5. CASE TakeSnapshot
  <2>1. resp'.pre = resp.pre
    BY <1>5 DEF TakeSnapshot, TypeOK, RespTypes
  <2> QED BY <1>5, <2>1 DEF TakeSnapshot, HashesOwned
<1>6. CASE Respond
  <2>1. /\ resp'.pre = <<>> /\ UNCHANGED <<dialect, commits, pending_auths>>
        /\ session_preauth' = StorePreauth
    BY <1>6 DEF Respond, TypeOK, RespTypes, tables
  <2>2. \A s \in Sids : session_preauth'[s] # <<>> /\
                session_preauth'[s] # session_preauth[s]
            => resp.pre # <<>> /\ resp.status = "more" /\ s = resp.sid
    BY <2>1 DEF StorePreauth, Taken, TypeOK
  <2>3. resp.pre = <<>> => session_preauth' = session_preauth
    BY <2>1 DEF StorePreauth
  <2>4. resp.status = "more" => resp.sid \in pending_auths
    BY <1>6 DEF Respond, Answering
  <2> QED BY <2>1, <2>2, <2>3, <2>4 DEF HashesOwned
<1>7. CASE UNCHANGED vars \/ \E s \in Sids : Sweep(s)
  BY <1>7 DEF vars, tables, Sweep, HashesOwned
<1> QED BY <1>1, <1>2, <1>3, <1>4, <1>5, <1>6, <1>7 DEF Next

(* The three ways to derive a key give different keys.                     *)
LEMMA KeysApart == Key30 # ZeroKey /\ \A p : Key311(p) # ZeroKey
BY DEF Key30, Key311, ZeroKey

(* Every step keeps a signature due to a session that is established.      *)
LEMMA StepSignatureDue ==
    ASSUME TypeOK, SignatureDue, [Next]_vars
    PROVE  SignatureDue'
<1>t. resp \in RespTypes
  BY DEF TypeOK
<1>1. ASSUME \/ resp'.cmd # "SESSION_SETUP" \/ resp'.status # "ok"
      PROVE  SignatureDue'
  BY <1>1 DEF SignatureDue, Established
<1>2. CASE \/ \E d \in {"older", "311"} : Negotiate(d)
           \/ NegotiateRefused \/ MultiProtocol
  BY <1>1, <1>2 DEF Negotiate, NegotiateRefused, MultiProtocol, NegotiateReply
<1>3. ASSUME NEW hs \in 0 .. MaxSid, NEW sig \in Sigs,
             \/ Logoff(hs, sig) \/ SetupRejected(hs, sig)
             \/ SetupStep1Failed(hs, sig) \/ SetupChallenge(hs, sig)
             \/ SetupFailed(hs, sig)
             \/ \E cmd \in {"SESSION_SETUP", "LOGOFF"} : Denied(cmd, hs, sig)
      PROVE  SignatureDue'
  BY <1>1, <1>3 DEF Logoff, Denied, SetupRejected, SetupStep1Failed, SetupChallenge,
                    SetupFailed, Reply
<1>4. ASSUME NEW hs \in 0 .. MaxSid, NEW sig \in Sigs,
             NEW id \in {"user", "anonymous"}, SetupInsert(hs, id, sig)
      PROVE  SignatureDue'
  <2>1. /\ hs \in Sids /\ resp'.sid = hs /\ resp'.at \in {"snapshot", "respond"}
        /\ resp'.skip_signing = (id = "anonymous")
        /\ resp'.at = "respond" => dialect # "311"
    BY <1>4 DEF SetupInsert, Reply, TypeOK
  <2>2. sessions'[hs] = id /\ (dialect # "311" => signing_key'[hs] = Key30)
    BY <1>4, <2>1 DEF SetupInsert, TypeOK
  <2> QED BY <2>1, <2>2, KeysApart DEF SignatureDue, Established
<1>5. CASE TakeSnapshot
  <2>1. /\ resp'.at = "respond" /\ resp.at = "snapshot" /\ resp'.sid = resp.sid
        /\ Established(resp') = Established(resp)
        /\ UNCHANGED <<sessions, exch>>
    BY <1>5, <1>t DEF TakeSnapshot, RespTypes, Established
  <2>2. Live(resp.sid) => signing_key'[resp.sid] = Key311(resp.pre)
    BY <1>5 DEF TakeSnapshot, TypeOK, Live
  <2> QED BY <2>1, <2>2, KeysApart DEF SignatureDue, Live
<1>6. CASE Respond
  <2>1. /\ resp'.at = "idle" /\ resp.at = "respond" /\ resp'.sid = resp.sid
        /\ Established(resp') = Established(resp)
        /\ resp'.signed = ShouldSign /\ UNCHANGED exch
    BY <1>6, <1>t DEF Respond, RespTypes, Established
  <2>2. Established(resp) /\ sessions[resp.sid] = "user" => ShouldSign
    <3>1. \A s \in Sids : s # 0
      BY DEF Sids
    <3> QED BY <2>1, <3>1 DEF SignatureDue, Established, ShouldSign, Live
  <2> QED BY <2>1, <2>2 DEF SignatureDue
<1>7. ASSUME NEW x \in Sids, Sweep(x)
      PROVE  SignatureDue'
  <2>1. UNCHANGED <<resp, signing_key>>
    BY <1>7 DEF Sweep
  <2> QED BY <1>7, <2>1, SweepEffect DEF SignatureDue, Live
<1>8. CASE UNCHANGED vars
  BY <1>8 DEF vars, tables, SignatureDue, Live
<1> QED BY <1>2, <1>3, <1>4, <1>5, <1>6, <1>7, <1>8 DEF Next, Setup

-----------------------------------------------------------------------------
(* Keys.                                                                   *)

(* A hash that goes on does not disappear.                                 *)
LEMMA HashNotEmpty ==
    ASSUME TypeOK, NEW s \in Sids
    PROVE  /\ Begun(s) \in Seq(Messages) /\ Begun(s) # <<>>
           /\ Challenged(s) \in Seq(Messages) /\ Challenged(s) # <<>>
<1>1. exch[s].negAt \in 0 .. MaxNegotiate /\ s \in 0 .. MaxSid
  BY BoundsAssumption DEF TypeOK, ExchangeTypes, Sids
<1>2. Negotiated(exch[s].negAt) \in Seq(Messages)
  BY <1>1, NegotiatedType
<1>3. <<"First", s>> \in Messages /\ <<"Challenge", s>> \in Messages
  BY <1>1, MessageTypes
<1>4. ASSUME NEW p \in Seq(Messages), NEW m \in Messages
      PROVE  Append(p, m) \in Seq(Messages) /\ Append(p, m) # <<>>
  <2>1. Append(p, m) \in Seq(Messages) /\ Len(Append(p, m)) = Len(p) + 1
    OBVIOUS
  <2> QED BY <2>1, AppendProperties
<1> QED BY <1>2, <1>3, <1>4 DEF Begun, Challenged

(* The hash of a finished exchange is the client's.                        *)
LEMMA FinishedTranscript ==
    ASSUME TypeOK, NEW s \in Sids
    PROVE  Finished(s) = Transcript(s)
<1>1. exch[s].negAt \in 0 .. MaxNegotiate /\ s \in 0 .. MaxSid
  BY BoundsAssumption DEF TypeOK, ExchangeTypes, Sids
<1>2. Negotiated(exch[s].negAt) \in Seq(Messages)
  BY <1>1, NegotiatedType
<1>3. /\ <<"First", s>> \in Messages /\ <<"Challenge", s>> \in Messages
      /\ <<"Final", s>> \in Messages
  BY <1>1, MessageTypes
<1>4. Finished(s) = Negotiated(exch[s].negAt)
                      \o <<<<"First", s>>, <<"Challenge", s>>, <<"Final", s>>>>
  <2> DEFINE p == Negotiated(exch[s].negAt)
             a == <<"First", s>>
             b == <<"Challenge", s>>
             c == <<"Final", s>>
  <2> HIDE DEF p, a, b, c
  <2>1. Append(Append(Append(p, a), b), c) = p \o <<a, b, c>>
    <3>1. p \in Seq(Messages) /\ a \in Messages /\ b \in Messages /\ c \in Messages
      BY <1>2, <1>3 DEF p, a, b, c
    <3> QED BY <3>1, AppendThree
  <2> QED BY <2>1 DEF Finished, Challenged, Begun, p, a, b, c
<1> QED BY <1>4 DEF Transcript, Negotiated

(* A challenge starts from the connection's hash, and is not in use.       *)
LEMMA ChallengeHeard ==
    ASSUME TypeOK, IdsSpent, Absorbed, HashesOwned, commits = 1,
           NEW hs \in 0 .. MaxSid, NEW sig \in Sigs, SetupChallenge(hs, sig),
           NEW new, new = next_session_id,
           exch'[new].began311, exch'[new].clean
    PROVE  HeardBy(new)'
<1>1. /\ new \in Sids /\ exch'[new].negAt = negs
      /\ dialect = "311" /\ hs \notin pending_auths
  BY ChallengeEffect
<1>2. ~(hs \in Sids /\ session_preauth[hs] # <<>>)
  BY <1>1 DEF HashesOwned
<1>3. resp'.pre = Append(preauth, <<"First", new>>)
  BY <1>1, <1>2 DEF SetupChallenge, Reply, TakePreauth
<1>4. /\ resp'.at = "respond" /\ resp'.status = "more" /\ resp'.sid = new
      /\ UNCHANGED sessions
  BY DEF SetupChallenge, Reply
<1>5. preauth = Negotiated(negs)
  BY DEF Absorbed
<1>6. ~Live(new)
  <2>1. ~(new < new)
    BY <1>1 DEF Sids
  <2> QED BY <1>1, <2>1 DEF IdsSpent
<1>7. resp'.pre = Append(Negotiated(exch'[new].negAt), <<"First", new>>)
  BY <1>1, <1>3, <1>5
<1>8. sessions'[new] = "absent"
  BY <1>1, <1>4, <1>6 DEF Live
<1> QED BY <1>4, <1>7, <1>8 DEF HeardBy, Challenging, Begun, Live

(* Every step keeps the trail of the hash of an exchange.                  *)
LEMMA StepHeard ==
    ASSUME TypeOK, IdsSpent, OneAttempt, Absorbed, Answering, HashesOwned, Heard,
           [Next]_vars
    PROVE  Heard'
<1> SUFFICES ASSUME NEW s \in Sids, commits' = 1,
                    exch'[s].began311, exch'[s].clean
             PROVE  HeardBy(s)'
  BY DEF Heard
<1>t. /\ commits \in Nat /\ resp \in RespTypes
      /\ 0 \notin Sids /\ pending_auths \subseteq Sids
  BY BoundsAssumption DEF TypeOK, Sids
<1>1. ASSUME NEW d \in {"older", "311"}, Negotiate(d)
      PROVE  FALSE
  <2>1. commits = 0 /\ exch' = exch
    BY <1>1, <1>t DEF Negotiate
  <2> QED BY <2>1 DEF Absorbed
<1>2. commits = 1
  <2>1. CASE UNCHANGED vars
    BY <2>1 DEF vars
  <2>2. CASE NegotiateRefused \/ MultiProtocol \/ TakeSnapshot \/ Respond
             \/ \E x \in Sids : Sweep(x)
    BY <2>2 DEF NegotiateRefused, MultiProtocol, TakeSnapshot, Respond, Sweep
  <2>3. ASSUME NEW hs \in 0 .. MaxSid, NEW sig \in Sigs,
               \/ Setup(hs, sig) \/ Logoff(hs, sig)
               \/ \E cmd \in {"SESSION_SETUP", "LOGOFF"} : Denied(cmd, hs, sig)
        PROVE  commits' = commits
    BY <2>3 DEF Setup, SetupRejected, SetupStep1Failed, SetupChallenge, SetupFailed,
                SetupInsert, Logoff, Denied
  <2> QED BY <1>1, <2>1, <2>2, <2>3 DEF Next
<1>3. CASE \E hs \in 0 .. MaxSid, sig \in Sigs :
              SetupChallenge(hs, sig) /\ s = next_session_id
  BY <1>2, <1>3, ChallengeHeard
<1> SUFFICES ASSUME exch'[s].negAt = exch[s].negAt,
                    exch'[s].began311 = exch[s].began311, exch[s].clean,
                    \A hs \in 0 .. MaxSid, sig \in Sigs :
                        SetupChallenge(hs, sig) => s # next_session_id
             PROVE  HeardBy(s)'
  BY <1>3, HistoryKept
<1>4. HeardBy(s) /\ dialect = "311"
  BY <1>2 DEF Heard, Absorbed
<1>5. /\ Begun(s)' = Begun(s) /\ Challenged(s)' = Challenged(s)
      /\ Finished(s)' = Finished(s)
  BY DEF Finished, Challenged, Begun
<1>6. ASSUME resp.at = "idle", ~Challenging(s)',
             ~(resp'.at = "snapshot" /\ resp'.sid = s),
             s \in pending_auths' =>
                 s \in pending_auths /\ session_preauth'[s] = session_preauth[s],
             Live(s)' => Live(s) /\ signing_key'[s] = signing_key[s]
      PROVE  HeardBy(s)'
  <2>1. ~Challenging(s)
    BY <1>6 DEF Challenging
  <2>2. s \in pending_auths' => session_preauth'[s] = Challenged(s)
    BY <1>4, <1>6, <2>1 DEF HeardBy
  <2>3. Live(s)' => signing_key'[s] = Key311(Finished(s))
    BY <1>4, <1>6 DEF HeardBy
  <2> QED BY <1>5, <1>6, <2>2, <2>3 DEF HeardBy
<1>7. CASE NegotiateRefused \/ MultiProtocol
  BY <1>6, <1>7 DEF NegotiateRefused, MultiProtocol, NegotiateReply, tables,
                    Challenging, Live
<1>8. ASSUME NEW hs \in 0 .. MaxSid, NEW sig \in Sigs,
             \/ Logoff(hs, sig)
             \/ \E cmd \in {"SESSION_SETUP", "LOGOFF"} : Denied(cmd, hs, sig)
      PROVE  HeardBy(s)'
  <2>1. /\ resp.at = "idle" /\ resp'.at = "respond" /\ resp'.status # "more"
        /\ UNCHANGED <<pending_auths, session_preauth, signing_key>>
    BY <1>8 DEF Logoff, Denied, Reply, tables
  <2>2. Live(s)' => Live(s)
    BY <1>8 DEF Logoff, Denied, tables, Live, TypeOK
  <2> QED BY <1>6, <2>1, <2>2 DEF Challenging
<1>9. ASSUME NEW hs \in 0 .. MaxSid, s # hs \/ hs \notin Sids
      PROVE  Taken(hs)[s] = session_preauth[s]
  BY <1>9 DEF Taken, TypeOK
<1>10. ASSUME NEW hs \in 0 .. MaxSid, NEW sig \in Sigs,
              SetupRejected(hs, sig) \/ SetupStep1Failed(hs, sig)
       PROVE  HeardBy(s)'
  <2>1. /\ resp.at = "idle" /\ resp'.at = "respond" /\ resp'.status # "more"
        /\ UNCHANGED <<pending_auths, sessions, signing_key>>
        /\ session_preauth' = Taken(hs) /\ exch' = Spoiled(hs)
    BY <1>10 DEF SetupRejected, SetupStep1Failed, Reply, tables
  <2>2. s \in pending_auths => s # hs
    BY <2>1, SpoiledEffect
  <2> QED BY <1>6, <1>9, <2>1, <2>2 DEF Challenging, Live
<1>11. ASSUME NEW hs \in 0 .. MaxSid, NEW sig \in Sigs, SetupChallenge(hs, sig)
       PROVE  HeardBy(s)'
  <2>1. /\ resp.at = "idle" /\ resp'.at = "respond" /\ resp'.sid = next_session_id
        /\ UNCHANGED <<sessions, signing_key>>
        /\ pending_auths' = pending_auths \cup {next_session_id}
        /\ session_preauth' = Taken(hs) /\ s # next_session_id
    BY <1>11 DEF SetupChallenge, Reply
  <2>2. exch'[s] = Spoiled(hs)[s]
    BY <1>11, <2>1, ChallengeEffect
  <2>3. s \in pending_auths => s # hs
    BY <2>2, SpoiledEffect
  <2> QED BY <1>6, <1>9, <2>1, <2>3 DEF Challenging, Live
<1>12. ASSUME NEW hs \in 0 .. MaxSid, NEW sig \in Sigs, SetupFailed(hs, sig)
       PROVE  HeardBy(s)'
  <2>1. /\ resp.at = "idle" /\ resp'.at = "respond" /\ resp'.status # "more"
        /\ UNCHANGED <<sessions, signing_key>>
        /\ pending_auths' = pending_auths \ {hs} /\ session_preauth' = Taken(hs)
    BY <1>12 DEF SetupFailed, RemovePending, Reply
  <2> QED BY <1>6, <1>9, <2>1 DEF Challenging, Live
<1>13. ASSUME NEW hs \in 0 .. MaxSid, NEW sig \in Sigs,
              NEW id \in {"user", "anonymous"}, SetupInsert(hs, id, sig)
       PROVE  HeardBy(s)'
  <2>1. /\ resp.at = "idle" /\ resp'.at = "snapshot" /\ resp'.sid = hs
        /\ resp'.pre = TakePreauth(hs, <<"Final", hs>>)
        /\ hs \in pending_auths /\ hs \in Sids
        /\ pending_auths' = pending_auths \ {hs} /\ session_preauth' = Taken(hs)
    BY <1>13, <1>4, <1>t DEF SetupInsert, RemovePending, Reply
  <2>2. CASE s = hs
    <3>1. ~Challenging(s)
      BY <2>1 DEF Challenging
    <3>2. session_preauth[s] = Challenged(s)
      BY <1>4, <2>1, <2>2, <3>1 DEF HeardBy
    <3>3. resp'.pre = Finished(s)
      BY <1>4, <2>1, <2>2, <3>2, HashNotEmpty DEF TakePreauth, Finished
    <3> QED BY <1>5, <2>1, <2>2, <3>3 DEF HeardBy
  <2>3. CASE s # hs
    <3>1. sessions'[s] = sessions[s] /\ signing_key'[s] = signing_key[s]
      BY <1>13, <2>1, <2>3 DEF SetupInsert, TypeOK
    <3> QED BY <1>6, <1>9, <2>1, <2>3, <3>1 DEF Challenging, Live
  <2> QED BY <2>2, <2>3
<1>14. CASE TakeSnapshot
  <2>1. /\ resp.at = "snapshot" /\ resp'.at = "respond"
        /\ resp'.status = resp.status /\ resp'.sid = resp.sid /\ resp'.pre = resp.pre
        /\ UNCHANGED <<sessions, pending_auths, session_preauth>>
    BY <1>14, <1>t DEF TakeSnapshot, RespTypes
  <2>2. ~Challenging(s) /\ ~Challenging(s)'
    BY <2>1 DEF Challenging, Answering
  <2>3. Live(s)' => Live(s) /\ signing_key'[s] = Key311(Finished(s))
    <3>1. CASE s = resp.sid
      BY <1>14, <1>4, <2>1, <3>1 DEF TakeSnapshot, HeardBy, Live, TypeOK
    <3>2. CASE s # resp.sid
      BY <1>14, <1>4, <2>1, <3>2 DEF TakeSnapshot, HeardBy, Live, TypeOK
    <3> QED BY <3>1, <3>2
  <2>4. s \in pending_auths' => session_preauth'[s] = Challenged(s)
    BY <1>4, <2>1, <2>2 DEF HeardBy
  <2> QED BY <1>5, <2>1, <2>2, <2>3, <2>4 DEF HeardBy
<1>15. CASE Respond
  <2>1. /\ resp.at = "respond" /\ resp'.at = "idle"
        /\ UNCHANGED <<sessions, signing_key, pending_auths>>
        /\ session_preauth' = StorePreauth
    BY <1>15, <1>t DEF Respond, RespTypes, tables
  <2>2. Live(s)' => signing_key'[s] = Key311(Finished(s))
    BY <1>4, <2>1 DEF HeardBy, Live
  <2>3. ASSUME s \in pending_auths
        PROVE  session_preauth'[s] = Challenged(s)
    <3>1. CASE Challenging(s)
      <4>1. resp.pre = Begun(s) /\ resp.pre # <<>> /\ resp.status = "more" /\ resp.sid = s
        BY <1>4, <2>3, <3>1, HashNotEmpty DEF HeardBy, Challenging
      <4> QED BY <2>1, <4>1 DEF StorePreauth, Challenged, TypeOK
    <3>2. CASE ~Challenging(s)
      <4>1. session_preauth[s] = Challenged(s)
        BY <1>4, <2>3, <3>2 DEF HeardBy
      <4>2. CASE resp.pre = <<>>
        BY <2>1, <4>1, <4>2 DEF StorePreauth
      <4>3. CASE resp.pre # <<>> /\ resp.status = "more"
        BY <2>1, <3>2, <4>1, <4>3 DEF StorePreauth, Challenging, TypeOK
      <4>4. CASE resp.pre # <<>> /\ resp.status # "more"
        <5>1. resp.hs # s /\ resp.hs \in 0 .. MaxSid
          BY <1>t, <2>3, <4>4 DEF Answering, RespTypes
        <5> QED BY <1>9, <2>1, <4>1, <4>4, <5>1 DEF StorePreauth
      <4> QED BY <4>2, <4>3, <4>4
    <3> QED BY <3>1, <3>2
  <2> QED BY <1>5, <2>1, <2>2, <2>3 DEF HeardBy, Challenging
<1>16. ASSUME NEW x \in Sids, Sweep(x)
       PROVE  HeardBy(s)'
  <2>1. /\ UNCHANGED <<resp, signing_key, pending_auths, session_preauth>>
        /\ Live(s)' => Live(s)
    BY <1>16 DEF Sweep, Live, TypeOK
  <2> QED BY <1>4, <1>5, <2>1 DEF HeardBy, Challenging
<1>17. CASE UNCHANGED vars
  <2>1. /\ UNCHANGED <<resp, signing_key, pending_auths, session_preauth>>
        /\ Live(s)' => Live(s)
    BY <1>17 DEF vars, tables, Live
  <2> QED BY <1>4, <1>5, <2>1 DEF HeardBy, Challenging
<1> QED BY <1>1, <1>7, <1>8, <1>10, <1>11, <1>12, <1>13, <1>14, <1>15, <1>16, <1>17
        DEF Next, Setup

-----------------------------------------------------------------------------
(* The invariant, and what follows from it.                                *)

(* The inductive invariant holds at the start.                             *)
LEMMA InitSetupInv == Init => SetupInv
<1> SUFFICES ASSUME Init PROVE SetupInv
  OBVIOUS
<1>1. TypeOK
  BY InitTypeOK
<1>2. IdsSpent /\ OneAttempt /\ Answering /\ HashesOwned /\ SignatureDue /\ Heard
  BY DEF Init, IdsSpent, OneAttempt, Answering, HashesOwned, SignatureDue, Established,
         Heard, Live
<1>3. Absorbed
  BY NegotiatedNone DEF Init, Absorbed
<1> QED BY <1>1, <1>2, <1>3 DEF SetupInv

(* Every step keeps the inductive invariant.                               *)
LEMMA StepSetupInv == SetupInv /\ [Next]_vars => SetupInv'
<1> SUFFICES ASSUME SetupInv, [Next]_vars PROVE SetupInv'
  OBVIOUS
<1>1. /\ TypeOK /\ IdsSpent /\ OneAttempt /\ Absorbed /\ Answering /\ HashesOwned
      /\ SignatureDue /\ Heard /\ commits <= negs
  BY DEF SetupInv, Absorbed
<1>2. TypeOK'
  BY <1>1, StepTypeOK
<1>3. IdsSpent' /\ OneAttempt'
  BY <1>1, StepOneAttempt
<1>4. Absorbed' /\ Answering' /\ HashesOwned'
  BY <1>1, StepAbsorbed, StepAnswering, StepHashesOwned
<1>5. SignatureDue' /\ Heard'
  BY <1>1, StepSignatureDue, StepHeard
<1> QED BY <1>2, <1>3, <1>4, <1>5 DEF SetupInv

(* The inductive invariant holds always.                                   *)
LEMMA SetupInvariant == Spec => []SetupInv
BY InitSetupInv, StepSetupInv, PTL DEF Spec

(* Client and server have the same SMB 3.1.1 signing key, however many     *)
(* exchanges, reauthentications, logoffs, errors and swept sessions lie in *)
(* between (take_session_preauth, dispatch_one).                           *)
THEOREM SigningKeysAgree == Spec => []KeysAgree
<1>1. ASSUME SetupInv PROVE KeysAgree
  <2> SUFFICES ASSUME NEW s \in Sids, Keyed311(s), exch[s].clean
               PROVE  signing_key[s] = Key311(Transcript(s))
    BY DEF KeysAgree
  <2>1. TypeOK /\ HeardBy(s)
    BY <1>1 DEF SetupInv, Heard, Keyed311
  <2>2. signing_key[s] = Key311(Finished(s))
    BY <2>1 DEF HeardBy, Keyed311
  <2> QED BY <2>1, <2>2, FinishedTranscript
<1> QED BY <1>1, SetupInvariant, PTL

(* A challenge is answered once, and the exchange of a session that exists *)
(* cannot be continued (pending_auths in session_setup.rs).                *)
THEOREM AnsweredOnce == Spec => []OneAttempt
<1>1. SetupInv => OneAttempt
  BY DEF SetupInv
<1> QED BY <1>1, SetupInvariant, PTL

(* The answer that establishes a user's session is signed, except if a     *)
(* sweep has closed the session in the meantime (dispatch.rs).             *)
THEOREM EstablishedIsSigned == Spec => []SignedUnlessSwept
<1>1. SetupInv => SignedUnlessSwept
  BY DEF SetupInv, SignatureDue, Established, SignedUnlessSwept
<1> QED BY <1>1, SetupInvariant, PTL

(* Everything has its type, and on a connection negotiated once the hash   *)
(* of an exchange does not outlive it (session_preauth in conn/state.rs).  *)
THEOREM HashesDoNotOutlive == Spec => []PreauthOwned
<1>1. SetupInv => PreauthOwned
  BY DEF SetupInv, HashesOwned, PreauthOwned
<1> QED BY <1>1, SetupInvariant, PTL
=============================================================================
