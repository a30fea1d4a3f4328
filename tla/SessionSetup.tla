----------------------------- MODULE SessionSetup -----------------------------
(***************************************************************************)
(* NEGOTIATE, SESSION_SETUP and LOGOFF on one connection: the dispatcher's *)
(* part (dispatch.rs), the handlers (handlers/negotiate.rs,                *)
(* handlers/session_setup.rs, handlers/logoff.rs) and the tables they fill *)
(* (conn/state.rs).                                                        *)
(*                                                                         *)
(* A connection dispatches one request at a time, so the only other actor  *)
(* is a task that closes the sessions of a user.  It can act between the   *)
(* insertion of a session, the computation of its SMB 3.1.1 key and the    *)
(* signing of the response, which are separate steps.                      *)
(*                                                                         *)
(* A message is a token: what it is and the number of the NEGOTIATE or the *)
(* session id of the exchange.  A preauth hash is the sequence of messages *)
(* it has absorbed (SHA-512 chaining is taken to be injective); a signing  *)
(* key is how it was derived and from which hash.  The base key, the       *)
(* NTLM messages and the identity they prove are inputs.  All dialects     *)
(* other than 3.1.1 derive keys alike and are one dialect, "older".        *)
(***************************************************************************)
EXTENDS Naturals, Sequences

CONSTANTS
    MaxSid,        \* bound: session ids a connection allocates
    MaxNegotiate   \* bound: NEGOTIATE requests a client sends

ASSUME BoundsAssumption == MaxSid \in Nat /\ MaxNegotiate \in Nat

VARIABLES
    dialect,          \* Connection.dialect
    preauth,          \* Connection.preauth
    sessions,         \* Connection.sessions: the identity, or "absent"
    signing_key,      \* Session.signing_key
    pending_auths,    \* Connection.pending_auths
    session_preauth,  \* Connection.session_preauth; <<>> is no entry
    next_session_id,  \* Connection.next_session_id
    resp,             \* the response being made, then the last one sent
    negs,             \* NEGOTIATE requests received
    commits,          \* history: how many of them set the dialect
    exch              \* history of each exchange (see ExchangeTypes)

tables == <<sessions, signing_key, pending_auths, next_session_id>>
vars == <<dialect, preauth, tables, session_preauth, resp, negs, commits, exch>>

Sids == 1 .. MaxSid

Messages ==
    ({"NegReq", "NegRsp"} \X (1 .. MaxNegotiate))
        \cup ({"First", "Challenge", "Final"} \X (0 .. MaxSid))

(* A key of [0; 16], signing_key_30 of the base key, signing_key_311 of the *)
(* base key and a preauth hash.                                             *)
ZeroKey == [kdf |-> "zero", hash |-> <<>>]
Key30 == [kdf |-> "30", hash |-> <<>>]
Key311(p) == [kdf |-> "311", hash |-> p]

Keys == [kdf : {"zero", "30", "311"}, hash : Seq(Messages)]

(* For exchange s: NEGOTIATEs before its first round, whether it began     *)
(* under 3.1.1, whether the client used the session id for this exchange   *)
(* only, how often its acceptor was asked, whether its session was closed  *)
(* by a sweep.                                                             *)
ExchangeTypes == [negAt : 0 .. MaxNegotiate, began311 : BOOLEAN,
                  clean : BOOLEAN, attempts : Nat, swept : BOOLEAN]

RespTypes == [at : {"idle", "snapshot", "respond"},
              cmd : {"NEGOTIATE", "SESSION_SETUP", "LOGOFF"},
              status : {"ok", "more", "error"},
              hs : 0 .. MaxSid, sid : 0 .. MaxSid,
              signed : BOOLEAN, skip_signing : BOOLEAN, pre : Seq(Messages)]

TypeOK ==
    /\ dialect \in {"none", "older", "311"}
    /\ preauth \in Seq(Messages)
    /\ sessions \in [Sids -> {"absent", "user", "anonymous"}]
    /\ signing_key \in [Sids -> Keys]
    /\ pending_auths \in SUBSET Sids
    /\ session_preauth \in [Sids -> Seq(Messages)]
    /\ next_session_id \in 1 .. (MaxSid + 1)
    /\ resp \in RespTypes
    /\ negs \in 0 .. MaxNegotiate
    /\ commits \in 0 .. MaxNegotiate
    /\ exch \in [Sids -> ExchangeTypes]

Init ==
    /\ dialect = "none"
    /\ preauth = <<>>
    /\ sessions = [s \in Sids |-> "absent"]
    /\ signing_key = [s \in Sids |-> ZeroKey]
    /\ pending_auths = {}
    /\ session_preauth = [s \in Sids |-> <<>>]
    /\ next_session_id = 1
    /\ resp = [at |-> "idle", cmd |-> "NEGOTIATE", status |-> "error",
               hs |-> 0, sid |-> 0, signed |-> FALSE, skip_signing |-> FALSE,
               pre |-> <<>>]
    /\ negs = 0 /\ commits = 0
    /\ exch = [s \in Sids |-> [negAt |-> 0, began311 |-> FALSE, clean |-> FALSE,
                               attempts |-> 0, swept |-> FALSE]]

Live(s) == s \in Sids /\ sessions[s] # "absent"

-----------------------------------------------------------------------------
(* NEGOTIATE.  Request and response go into the connection's hash, also    *)
(* when the request is refused.                                            *)

AbsorbNegotiate ==
    /\ negs < MaxNegotiate
    /\ negs' = negs + 1
    /\ preauth' = preauth \o <<<<"NegReq", negs + 1>>, <<"NegRsp", negs + 1>>>>

NegotiateReply(status) ==
    resp' = [at |-> "idle", cmd |-> "NEGOTIATE", status |-> status, hs |-> 0,
             sid |-> 0, signed |-> FALSE, skip_signing |-> FALSE, pre |-> <<>>]

Negotiate(d) ==
    /\ resp.at = "idle"
    /\ AbsorbNegotiate
    /\ dialect' = d
    /\ commits' = commits + 1
    /\ NegotiateReply("ok")
    /\ UNCHANGED <<tables, session_preauth, exch>>

(* It does not parse, or offers no dialect the server supports.            *)
NegotiateRefused ==
    /\ resp.at = "idle"
    /\ AbsorbNegotiate
    /\ NegotiateReply("error")
    /\ UNCHANGED <<dialect, tables, session_preauth, commits, exch>>

(* Mutant: the dialect of the answer is taken for the negotiated one.      *)
MultiProtocol_Commits ==
    /\ resp.at = "idle"
    /\ dialect' = "wildcard"
    /\ NegotiateReply("ok")
    /\ UNCHANGED <<preauth, tables, session_preauth, negs, commits, exch>>

(* An SMB1 NEGOTIATE that offers SMB2: answered, not absorbed, no dialect. *)
MultiProtocol ==
    /\ resp.at = "idle"
    /\ NegotiateReply("ok")
    /\ UNCHANGED <<dialect, preauth, tables, session_preauth, negs, commits, exch>>

-----------------------------------------------------------------------------
(* What dispatch_one does around a handler.  sig is the request's          *)
(* signature: "none", "valid" or "invalid" under the session's key.        *)

Sigs == {"none", "valid", "invalid"}

Verified(hs, sig) ==
    \/ hs = 0
    \/ sig = "none"
    \/ Live(hs) /\ (sessions[hs] = "anonymous" \/ sig = "valid")

(* Mutant: every round starts from the connection's hash.                  *)
TakePreauth_Connection(hs, m) ==
    IF dialect # "311" THEN <<>> ELSE Append(preauth, m)

(* take_session_preauth, then p.update(frame).                             *)
TakePreauth(hs, m) ==
    IF dialect # "311"
    THEN <<>>
    ELSE Append(IF hs \in Sids /\ session_preauth[hs] # <<>>
                THEN session_preauth[hs] ELSE preauth, m)

Taken(hs) ==
    IF dialect = "311" /\ hs \in Sids
    THEN [session_preauth EXCEPT ![hs] = <<>>] ELSE session_preauth

Reply(cmd, status, hs, sid, sig, skip, pre, at) ==
    [at |-> at, cmd |-> cmd, status |-> status, hs |-> hs, sid |-> sid,
     signed |-> sig # "none", skip_signing |-> skip, pre |-> pre]

(* The signature does not verify: an error, before anything is touched.    *)
Denied(cmd, hs, sig) ==
    /\ resp.at = "idle"
    /\ ~Verified(hs, sig)
    /\ resp' = Reply(cmd, "error", hs, hs, sig, FALSE, <<>>, "respond")
    /\ UNCHANGED <<dialect, preauth, tables, session_preauth, negs, commits, exch>>

(* A round that names a pending exchange without continuing it.            *)
Spoiled(hs) ==
    IF hs \in pending_auths THEN [exch EXCEPT ![hs].clean = FALSE] ELSE exch

-----------------------------------------------------------------------------
(* SESSION_SETUP.                                                          *)

(* Malformed, not SPNEGO or NTLM, or a follow-up for no pending exchange.  *)
SetupRejected(hs, sig) ==
    /\ resp.at = "idle"
    /\ Verified(hs, sig)
    /\ session_preauth' = Taken(hs)
    /\ resp' = Reply("SESSION_SETUP", "error", hs, hs, sig, FALSE,
                     TakePreauth(hs, <<"Final", hs>>), "respond")
    /\ exch' = Spoiled(hs)
    /\ UNCHANGED <<dialect, preauth, tables, negs, commits>>

(* A first round.  The session id is spent also if step 1 of NTLM fails.   *)
SetupStep1Failed(hs, sig) ==
    /\ resp.at = "idle"
    /\ Verified(hs, sig)
    /\ next_session_id \in Sids
    /\ next_session_id' = next_session_id + 1
    /\ session_preauth' = Taken(hs)
    /\ resp' = Reply("SESSION_SETUP", "error", hs, hs, sig, FALSE,
                     TakePreauth(hs, <<"First", next_session_id>>), "respond")
    /\ exch' = Spoiled(hs)
    /\ UNCHANGED <<dialect, preauth, sessions, signing_key, pending_auths, negs,
                   commits>>

SetupChallenge(hs, sig) ==
    LET new == next_session_id
    IN  /\ resp.at = "idle"
        /\ Verified(hs, sig)
        /\ new \in Sids
        /\ next_session_id' = new + 1
        /\ pending_auths' = pending_auths \cup {new}
        /\ session_preauth' = Taken(hs)
        /\ resp' = Reply("SESSION_SETUP", "more", hs, new, sig, TRUE,
                         TakePreauth(hs, <<"First", new>>), "respond")
        /\ exch' = [Spoiled(hs) EXCEPT
                      ![new] = [negAt |-> negs, began311 |-> dialect = "311",
                                clean |-> hs \notin pending_auths,
                                attempts |-> 0, swept |-> FALSE]]
        /\ UNCHANGED <<dialect, preauth, sessions, signing_key, negs, commits>>

(* Mutant: the acceptor is looked up and left in the table.                *)
RemovePending_Keep(s) == pending_auths

(* pending_auths.remove(&sid), before the answer is judged.                *)
RemovePending(s) == pending_auths \ {s}

Attempted(s) == [exch EXCEPT ![s].attempts = @ + 1]

(* The answer is wrong, the anonymous identity is not allowed, or there is *)
(* no dialect yet.                                                         *)
SetupFailed(hs, sig) ==
    /\ resp.at = "idle"
    /\ hs \in pending_auths
    /\ Verified(hs, sig)
    /\ pending_auths' = RemovePending(hs)
    /\ session_preauth' = Taken(hs)
    /\ resp' = Reply("SESSION_SETUP", "error", hs, hs, sig, FALSE,
                     TakePreauth(hs, <<"Final", hs>>), "respond")
    /\ exch' = Attempted(hs)
    /\ UNCHANGED <<dialect, preauth, sessions, signing_key, next_session_id, negs,
                   commits>>

(* The session goes into the table, under 3.1.1 with a key of zeros.       *)
SetupInsert(hs, id, sig) ==
    /\ resp.at = "idle"
    /\ hs \in pending_auths
    /\ Verified(hs, sig)
    /\ dialect # "none"
    /\ pending_auths' = RemovePending(hs)
    /\ session_preauth' = Taken(hs)
    /\ sessions' = [sessions EXCEPT ![hs] = id]
    /\ signing_key' = [signing_key EXCEPT
                         ![hs] = IF dialect = "311" THEN ZeroKey ELSE Key30]
    /\ resp' = Reply("SESSION_SETUP", "ok", hs, hs, sig, id = "anonymous",
                     TakePreauth(hs, <<"Final", hs>>),
                     IF dialect = "311" THEN "snapshot" ELSE "respond")
    /\ exch' = Attempted(hs)
    /\ UNCHANGED <<dialect, preauth, next_session_id, negs, commits>>

(* The dispatcher computes the 3.1.1 key, if the session is still there.   *)
TakeSnapshot ==
    /\ resp.at = "snapshot"
    /\ resp' = [resp EXCEPT !.at = "respond"]
    /\ signing_key' = IF Live(resp.sid)
                      THEN [signing_key EXCEPT ![resp.sid] = Key311(resp.pre)]
                      ELSE signing_key
    /\ UNCHANGED <<dialect, preauth, sessions, pending_auths, next_session_id,
                   session_preauth, negs, commits, exch>>

-----------------------------------------------------------------------------
(* LOGOFF (of session 0: an error), and a sweep of remove_user.            *)

Logoff(hs, sig) ==
    /\ resp.at = "idle"
    /\ Verified(hs, sig)
    /\ sessions' = IF hs \in Sids THEN [sessions EXCEPT ![hs] = "absent"]
                   ELSE sessions
    /\ resp' = Reply("LOGOFF", IF hs = 0 THEN "error" ELSE "ok", hs, hs, sig,
                     FALSE, <<>>, "respond")
    /\ UNCHANGED <<dialect, preauth, signing_key, pending_auths, next_session_id,
                   session_preauth, negs, commits, exch>>

Sweep(s) ==
    /\ Live(s) /\ sessions[s] = "user"
    /\ sessions' = [sessions EXCEPT ![s] = "absent"]
    /\ exch' = [exch EXCEPT ![s].swept = TRUE]
    /\ UNCHANGED <<dialect, preauth, signing_key, pending_auths, next_session_id,
                   session_preauth, resp, negs, commits>>

-----------------------------------------------------------------------------
(* build_response_bytes, then the second half of the preauth bookkeeping.  *)

(* Mutant: only the answers to signed requests are signed.                 *)
ShouldSign_OnlySigned ==
    /\ ~resp.skip_signing /\ resp.sid # 0 /\ resp.signed
    /\ Live(resp.sid) /\ sessions[resp.sid] = "user"
    /\ signing_key[resp.sid] # ZeroKey

ShouldSign ==
    /\ ~resp.skip_signing
    /\ resp.sid # 0
    /\ resp.signed \/ (resp.cmd = "SESSION_SETUP" /\ resp.status = "ok")
    /\ Live(resp.sid) /\ sessions[resp.sid] = "user"
    /\ signing_key[resp.sid] # ZeroKey

(* Mutant: the hash is put back after every round.                         *)
StorePreauth_Always ==
    IF resp.pre # <<>> /\ resp.sid # 0
    THEN [session_preauth EXCEPT
            ![resp.sid] = Append(resp.pre, <<"Challenge", resp.sid>>)]
    ELSE session_preauth

(* The hash is kept only while the exchange goes on.                       *)
StorePreauth ==
    IF resp.pre = <<>>
    THEN session_preauth
    ELSE IF resp.status = "more"
         THEN [session_preauth EXCEPT
                 ![resp.sid] = Append(resp.pre, <<"Challenge", resp.sid>>)]
         ELSE Taken(resp.hs)

Respond ==
    /\ resp.at = "respond"
    /\ session_preauth' = StorePreauth
    /\ resp' = [resp EXCEPT !.at = "idle", !.signed = ShouldSign, !.pre = <<>>]
    /\ UNCHANGED <<dialect, preauth, tables, negs, commits, exch>>

-----------------------------------------------------------------------------
Setup(hs, sig) ==
    \/ SetupRejected(hs, sig)
    \/ SetupStep1Failed(hs, sig)
    \/ SetupChallenge(hs, sig)
    \/ SetupFailed(hs, sig)
    \/ \E id \in {"user", "anonymous"} : SetupInsert(hs, id, sig)

Next ==
    \/ \E d \in {"older", "311"} : Negotiate(d)
    \/ NegotiateRefused
    \/ MultiProtocol
    \/ \E hs \in 0 .. MaxSid, sig \in Sigs :
          \/ Setup(hs, sig)
          \/ Logoff(hs, sig)
          \/ \E cmd \in {"SESSION_SETUP", "LOGOFF"} : Denied(cmd, hs, sig)
    \/ TakeSnapshot
    \/ Respond
    \/ \E s \in Sids : Sweep(s)

Spec == Init /\ [][Next]_vars

-----------------------------------------------------------------------------
(* Properties.                                                             *)

(* The messages a client hashes for exchange s: the NEGOTIATEs it had sent *)
(* by then, its first request, the challenge and its final request.        *)
Transcript(s) ==
    [i \in 1 .. 2 * exch[s].negAt |->
        <<IF i % 2 = 1 THEN "NegReq" ELSE "NegRsp", (i + 1) \div 2>>]
    \o <<<<"First", s>>, <<"Challenge", s>>, <<"Final", s>>>>

(* The server is between two requests and has computed a 3.1.1 key for an  *)
(* exchange that began under 3.1.1, on a connection negotiated once.       *)
Keyed311(s) ==
    /\ resp.at = "idle" /\ commits = 1
    /\ exch[s].began311
    /\ Live(s)

(* Client and server have the same SMB 3.1.1 signing key: a session's key  *)
(* comes from exactly the messages of its own exchange, in their order,    *)
(* whatever other exchanges, reauthentications, logoffs, errors and closed *)
(* sessions lie in between, if the client used the id of an exchange in    *)
(* progress for nothing else (take_session_preauth, dispatch_one).         *)
KeysAgree ==
    \A s \in Sids :
        Keyed311(s) /\ exch[s].clean => signing_key[s] = Key311(Transcript(s))

(* A challenge is answered once: whatever a client sends, an NTLM acceptor *)
(* judges one answer, and an exchange whose session exists cannot be       *)
(* continued (pending_auths in session_setup.rs).                          *)
OneAttempt ==
    /\ \A s \in Sids : exch[s].attempts <= 1
    /\ \A s \in pending_auths : ~Live(s) /\ exch[s].attempts = 0

(* A SESSION_SETUP that establishes a user's session is answered with a    *)
(* signature, except if a sweep has closed the session in the meantime     *)
(* (TakeSnapshot before build_response_bytes).                             *)
SignedUnlessSwept ==
    resp.at = "idle" /\ resp.cmd = "SESSION_SETUP" /\ resp.status = "ok"
        /\ ~resp.skip_signing
    => resp.signed \/ exch[resp.sid].swept

(* The hash of an exchange does not outlive it: on a connection negotiated *)
(* once, session_preauth has entries for pending exchanges only, so a      *)
(* later reauthentication cannot pick up a stale one.                      *)
PreauthOwned ==
    /\ TypeOK
    /\ commits <= 1 =>
          \A s \in Sids : session_preauth[s] # <<>> => s \in pending_auths
=============================================================================
