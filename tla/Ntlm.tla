-------------------------------- MODULE Ntlm --------------------------------
(***************************************************************************)
(* The NTLMv2 acceptor (proto/auth/ntlm.rs) as SESSION_SETUP drives it     *)
(* (handlers/session_setup.rs): one acceptor per exchange, with the        *)
(* clients that talk to it and the network in between.                     *)
(*                                                                         *)
(* Hashes, MACs and ciphers are terms: two are equal if and only if they   *)
(* were made in the same way from the same parts.  A message is what the   *)
(* parser reads of it: its length, the (length, offset) descriptors, the   *)
(* flags and the contents of the fields.  Lengths are in bytes.            *)
(*                                                                         *)
(* The flags of NEGOTIATE and CHALLENGE, and flags, name, descriptors and  *)
(* length of an AUTHENTICATE, may reach the other side altered, and an     *)
(* AUTHENTICATE may reach another exchange than the one it was made for.   *)
(* The number of a CHALLENGE arrives as it was sent: no client answers the *)
(* challenge of an exchange other than its own.  Clients are external.     *)
(***************************************************************************)
EXTENDS Naturals, FiniteSets

CONSTANTS
    Exchanges,      \* SESSION_SETUP exchanges, each with its acceptor
    UserNames,      \* names clients give
    Passwords,
    Upper,          \* UserNames -> the name in upper case
    Table,          \* ServerUsers.table: the password of a user, or NoUser
    NoUser,
    Alterable,      \* bound: the exchanges whose messages may be altered
    Bases           \* bound: where the payload of an AUTHENTICATE starts

KeyExch == "KEY_EXCH"
Flags == {"UNICODE", "TARGET_INFO", "TARGET_TYPE_SERVER", KeyExch}

Fields == {"lm", "nt", "domain", "user", "workstation", "key"}

ASSUME NtlmAssumption ==
    /\ Exchanges \subseteq Nat \ {0}
    /\ Upper \in [UserNames -> UserNames]
    /\ Table \in [UserNames -> Passwords \cup {NoUser}]
    /\ NoUser \notin Passwords
    /\ Alterable \subseteq Exchanges
    /\ Bases \subseteq Nat

VARIABLES
    acceptor,   \* NtlmServer of every exchange, while in pending_auths
    client,     \* the client of every exchange
    sent,       \* AUTHENTICATE messages clients have sent
    outcome     \* what authenticate returned

vars == <<acceptor, client, sent, outcome>>

-----------------------------------------------------------------------------
(* Cryptography, as terms.                                                 *)

nt_hash(pw) == <<"NT", pw>>

ntowf_v2(hash, user, domain) == <<"OWF", hash, Upper[user], domain>>

NtProof(key, challenge, blob) == <<"Proof", key, challenge, blob>>
SessionBaseKey(key, proof) == <<"Base", key, proof>>

(* RC4 with the same key undoes itself.                                    *)
Rc4(key, x) == IF x[1] = "RC4" /\ x[2] = key THEN x[3] ELSE <<"RC4", key, x>>

Mic(key, n, c, a) == <<"MIC", key, n, c, a>>

ZeroKey == <<"Zero">>

-----------------------------------------------------------------------------
(* Parsing.                                                                *)

Empty(m, f) == m.fields[f].len = 0

(* slice_field, for a field that is not empty.                             *)
InRange(m, f) == m.fields[f].offset + m.fields[f].len <= m.len

(* Mutant: no field may end where the message ends.                        *)
Parses_Strict(m, type, min_len) ==
    /\ m.len >= 12 /\ m.type = type
    /\ m.len >= min_len
    /\ \A f \in DOMAIN m.fields :
          ~Empty(m, f) => m.fields[f].offset + m.fields[f].len < m.len

(* check_signature, the least length, and every field within the message.  *)
Parses(m, type, min_len) ==
    /\ m.len >= 12 /\ m.type = type
    /\ m.len >= min_len
    /\ \A f \in DOMAIN m.fields : ~Empty(m, f) => InRange(m, f)

(* Strings are decoded from pairs of bytes, an odd one is dropped.         *)
UserIsEmpty(m) == m.fields["user"].len < 2

(* Where the payload starts decides whether there is a MIC before it.      *)
PayloadOffsets(m) ==
    {m.fields[f].offset : f \in {g \in Fields : ~Empty(m, g) /\ m.fields[g].offset > 0}}

(* Mutant: a message that is long enough is taken to have a MIC.           *)
HasMic_ByLength(m) == m.len >= 88

HasMic(m) ==
    /\ PayloadOffsets(m) # {}
    /\ \A o \in PayloadOffsets(m) : o >= 88
    /\ m.len >= 88

-----------------------------------------------------------------------------
(* The server.                                                             *)

ServerFlags == Flags
MustHave == {"TARGET_INFO", "TARGET_TYPE_SERVER", "UNICODE"}

(* build_challenge: what differs from one CHALLENGE to another.            *)
Challenge(number, flags) == [number |-> number, flags |-> flags]

NoAcceptor == [pending |-> FALSE, negotiate |-> {}, challenge |-> Challenge(0, {})]

(* step1_negotiate and challenge: the message is kept for the MIC.         *)
Step1(n, number) ==
    [pending |-> TRUE, negotiate |-> n.flags,
     challenge |-> Challenge(number, (ServerFlags \cap n.flags) \cup MustHave)]

IsAnonymous(m) == UserIsEmpty(m) /\ Empty(m, "nt")

ResponseKey(m) == ntowf_v2(nt_hash(Table[m.user]), m.user, m.domain)

(* Mutant: the challenge is taken from the response.                       *)
ProofMatches_AnyChallenge(x, m) ==
    m.nt.proof = NtProof(ResponseKey(m), m.nt.proof[3], m.nt.blob)

ProofMatches(x, m) ==
    m.nt.proof = NtProof(ResponseKey(m), acceptor[x].challenge.number, m.nt.blob)

(* Mutant: what the server offered counts, not what the client took up.    *)
Wrapped_Offered(x, m) == KeyExch \in acceptor[x].challenge.flags /\ ~Empty(m, "key")

Wrapped(x, m) == KeyExch \in m.flags /\ ~Empty(m, "key")

SessionKey(x, m) ==
    LET base == SessionBaseKey(ResponseKey(m), m.nt.proof)
    IN  IF Wrapped(x, m) THEN Rc4(base, m.key) ELSE base

MicZeroed(m) == [m EXCEPT !.mic = ZeroKey]

(* Mutant: the AUTHENTICATE alone is compared.                             *)
MicMatches_AuthOnly(x, m) ==
    m.mic = Mic(SessionKey(x, m), m.mic[3], m.mic[4], MicZeroed(m))

MicMatches(x, m) ==
    m.mic = Mic(SessionKey(x, m), acceptor[x].negotiate, acceptor[x].challenge,
                MicZeroed(m))

UserAccepted(x, m) ==
    /\ ~UserIsEmpty(m) /\ Table[m.user] # NoUser
    /\ m.fields["nt"].len >= 16
    /\ ProofMatches(x, m)
    /\ Wrapped(x, m) => m.fields["key"].len = 16
    /\ HasMic(m) => MicMatches(x, m)

(* NtlmServer::authenticate.                                               *)
Verdict(x, m) ==
    IF ~Parses(m, "AUTHENTICATE", 64) THEN "error"
    ELSE IF IsAnonymous(m) THEN "anonymous"
    ELSE IF UserAccepted(x, m) THEN "user" ELSE "error"

NoOutcome == [is |-> "none", key |-> ZeroKey, msg |-> <<>>]

(* A follow-up round: the acceptor leaves pending_auths and judges m.      *)
FollowUp(x, m) ==
    /\ acceptor[x].pending
    /\ acceptor' = [acceptor EXCEPT ![x].pending = FALSE]
    /\ outcome' = [outcome EXCEPT
         ![x] = [is |-> Verdict(x, m), msg |-> m,
                 key |-> IF Verdict(x, m) = "user" THEN SessionKey(x, m) ELSE ZeroKey]]
    /\ UNCHANGED <<client, sent>>

-----------------------------------------------------------------------------
(* Clients and the network.                                                *)

Desc(len, offset) == [len |-> len, offset |-> offset]

(* NEGOTIATE messages: one that parses, and ones that do not.              *)
NegotiateMessages(flags) ==
    {[type |-> "NEGOTIATE", len |-> l, flags |-> flags,
      fields |-> [domain |-> d, workstation |-> Desc(0, 0)]] :
        l \in {31, 32, 40}, d \in {Desc(0, 0), Desc(8, 32)}}

NoClient == [st |-> "none", offered |-> {}]

(* The first round.  n is the NEGOTIATE as it arrives; its flags may have  *)
(* been altered.  The random number of a challenge is the exchange's own,  *)
(* or zero if the system has no random bytes (fill_random).                *)
FirstRound(x, offered, n, number) ==
    /\ client[x].st = "none"
    /\ client' = [client EXCEPT ![x] = [st |-> "waiting", offered |-> offered]]
    /\ acceptor' = IF Parses(n, "NEGOTIATE", 32)
                   THEN [acceptor EXCEPT ![x] = Step1(n, number)] ELSE acceptor
    /\ UNCHANGED <<sent, outcome>>

(* An AUTHENTICATE with its payload from offset base on.                   *)
Layout(base, user_len, nt_len, key_len) ==
    [len |-> base + 28 + user_len + nt_len + key_len,
     fields |-> [domain |-> Desc(2, base),
                 user |-> Desc(user_len, base + 2),
                 workstation |-> Desc(2, base + 2 + user_len),
                 lm |-> Desc(24, base + 4 + user_len),
                 nt |-> Desc(nt_len, base + 28 + user_len),
                 key |-> Desc(key_len, base + 28 + user_len + nt_len)]]

(* The client answers challenge c, which may have been altered on its way. *)
(* It sends a random key if the flags say so, and a MIC if it leaves room  *)
(* for one.                                                                *)
Answer(x, user, pw, c, base) ==
    LET owf == ntowf_v2(nt_hash(pw), user, "dom")
        proof == NtProof(owf, c.number, <<"Blob", x>>)
        exch == KeyExch \in c.flags
        key == IF exch THEN <<"Random", x>> ELSE SessionBaseKey(owf, proof)
        lay == Layout(base, 6, 44, IF exch THEN 16 ELSE 0)
        m == [type |-> "AUTHENTICATE", len |-> lay.len, fields |-> lay.fields,
              flags |-> c.flags, user |-> user, domain |-> "dom",
              nt |-> [proof |-> proof, blob |-> <<"Blob", x>>],
              key |-> IF exch THEN Rc4(SessionBaseKey(owf, proof), key) ELSE ZeroKey,
              mic |-> ZeroKey]
        full == IF base < 88 THEN m
                ELSE [m EXCEPT !.mic = Mic(key, client[x].offered, c, m)]
    IN  /\ client[x].st = "waiting" /\ acceptor[x].pending
        /\ client' = [client EXCEPT
             ![x] = [st |-> "answered", offered |-> client[x].offered, pw |-> pw,
                     got |-> c, key |-> key, msg |-> full]]
        /\ sent' = sent \cup {full}
        /\ UNCHANGED <<acceptor, outcome>>

(* What becomes of a message on its way: flags, the name, lengths, the     *)
(* payload's start and the length of the whole.                            *)
Altered(m) ==
    {m, [m EXCEPT !.flags = @ \ {KeyExch}], [m EXCEPT !.flags = @ \cup {KeyExch}],
     [m EXCEPT !.fields["lm"].offset = 72], [m EXCEPT !.len = 63],
     [m EXCEPT !.len = @ - 17], [m EXCEPT !.fields["key"].len = 15],
     [m EXCEPT !.fields["user"].len = 1, !.fields["nt"].len = 0]}
    \cup {[m EXCEPT !.user = u] : u \in UserNames}
    \cup {[m EXCEPT !.fields[f].len = 0] : f \in {"user", "nt", "key"}}

(* What becomes of the flags of a NEGOTIATE or a CHALLENGE on its way; the *)
(* rest of both arrives as it was sent.                                    *)
AlteredFlags(x, flags) ==
    IF x \in Alterable THEN {flags \cup {KeyExch}, flags \ {KeyExch}} ELSE {flags}

Init ==
    /\ acceptor = [x \in Exchanges |-> NoAcceptor]
    /\ client = [x \in Exchanges |-> NoClient]
    /\ sent = {}
    /\ outcome = [x \in Exchanges |-> NoOutcome]

Start(x) ==
    \E offered \in {{}, {KeyExch}}, number \in {0, x} :
        \E n \in UNION {NegotiateMessages(f) : f \in AlteredFlags(x, offered)} :
            FirstRound(x, offered, n, number)

Reply(x) ==
    \E user \in UserNames, pw \in Passwords, base \in Bases :
        \E f \in AlteredFlags(x, acceptor[x].challenge.flags) :
            Answer(x, user, pw, [acceptor[x].challenge EXCEPT !.flags = f], base)

Receive(x) ==
    \E a \in sent :
        \E m \in (IF x \in Alterable THEN Altered(a) ELSE {a}) : FollowUp(x, m)

Next == \E x \in Exchanges : Start(x) \/ Reply(x) \/ Receive(x)

Spec == Init /\ [][Next]_vars

-----------------------------------------------------------------------------
(* Properties.                                                             *)

TypeOK ==
    /\ \A x \in Exchanges :
        /\ acceptor[x].pending \in BOOLEAN
        /\ acceptor[x].negotiate \subseteq Flags
        /\ acceptor[x].challenge.flags \subseteq Flags
        /\ outcome[x].is \in {"none", "error", "anonymous", "user"}
        /\ client[x].st \in {"none", "waiting", "answered"}
    /\ \A m \in sent : Parses(m, "AUTHENTICATE", 64)

(* The challenge of x is its own: fill_random had random bytes.            *)
Fresh(x) == acceptor[x].challenge.number = x

As(x, is) == outcome[x].is = is

(* A session is given to a user only if the client of this very exchange   *)
(* answered with the password the table has for that user, whatever flags  *)
(* are altered, and whichever AUTHENTICATE is altered or reaches the wrong *)
(* exchange (authenticate).                                                *)
UserProven ==
    \A x \in Exchanges : As(x, "user") /\ Fresh(x) =>
        /\ client[x].st = "answered"
        /\ Table[outcome[x].msg.user] = client[x].pw

(* Client and server end up with the same session key if the AUTHENTICATE  *)
(* arrives as it was sent, even if flags of the messages before it were    *)
(* altered and no MIC tells: the server goes by the flags in it.           *)
KeysAgree ==
    \A x \in Exchanges :
        As(x, "user") /\ client[x].st = "answered" /\ outcome[x].msg = client[x].msg
            => outcome[x].key = client[x].key

(* A message with a MIC is accepted only if both sides saw the same        *)
(* NEGOTIATE, CHALLENGE and AUTHENTICATE.                                  *)
MicCovers ==
    \A x \in Exchanges : As(x, "user") /\ Fresh(x) /\ HasMic(outcome[x].msg) =>
        /\ outcome[x].msg = client[x].msg
        /\ acceptor[x].negotiate = client[x].offered
        /\ acceptor[x].challenge = client[x].got

(* What acceptance stands for.                                             *)
AcceptedRightly == TypeOK /\ UserProven /\ MicCovers

(* A client with the right password is let in if nothing was altered,      *)
(* whether or not it sends a MIC or a key of its own and however it writes *)
(* the name, as long as the table has it in that form.                     *)
HonestAccepted ==
    \A x \in Exchanges :
        (/\ As(x, "error")
         /\ client[x].st = "answered"
         /\ outcome[x].msg = client[x].msg
         /\ acceptor[x].negotiate = client[x].offered
         /\ acceptor[x].challenge = client[x].got)
        => Table[client[x].msg.user] # client[x].pw
=============================================================================
