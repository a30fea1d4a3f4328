------------------------------ MODULE Exchange ------------------------------
(***************************************************************************)
(* What one connection carries, byte by byte: a client writes a frame of   *)
(* one request or of a compound of two or three, the server cuts it into   *)
(* parts, parses, rewrites and answers each (dispatch.rs, handlers/), and  *)
(* the client reads the answer by the offsets and sizes it states.         *)
(*                                                                         *)
(* What handlers do to trees and files is in the other modules; here a     *)
(* handler that has parsed its request succeeds with some data, or fails.  *)
(* One session of a user is established, one exchange waits for its last   *)
(* message.  The signature of a request is a number that stands for the    *)
(* bytes it was made from, that of an answer is kept beside it, and its    *)
(* field is left zero.  Clients are external.                              *)
(***************************************************************************)
EXTENDS InfoClasses, Spnego

CONSTANTS
    Compounds,  \* bound: what clients ask, sequences of requests
    Cuttable,   \* bound: the frames that may end early
    Sweepable,  \* bound: the frames during which sessions may be swept
    Smb1Offers, \* bound: the dialects of SMB1 NEGOTIATEs
    Blobs,      \* bound: the data handlers answer with
    Challenges, \* bound: NTLM CHALLENGEs
    Infos       \* bound: what stat returns

VARIABLES
    phase,      \* idle, sent, serving, answered
    asked,      \* the requests of the frame, as the client means them
    frame,      \* the bytes on their way to the server
    whole,      \* they are all the client wrote
    todo,       \* sub-frames dispatch_frame has not come to
    cur,        \* the sub-frame dispatch_one has
    prev,       \* prev_session_id, prev_tree_id, prev_create_file_id
    got,        \* what the handlers were called with and did
    answers,    \* responses
    made,       \* what the signature of each was made from, <<>> without one
    reply,      \* the frame that reaches the client
    sessions,   \* conn.sessions, and whose exchange is in conn.pending_auths
    dialect,    \* conn.dialect, 0 for None
    told,       \* history: the dialect the client has last had an answer for
    unheard     \* history: one set since in a frame that was not answered

vars == <<phase, asked, frame, whole, todo, cur, prev, got, answers, made, reply,
          sessions, dialect, told, unheard>>

negotiated == <<dialect, told, unheard>>

STATUS_INVALID_PARAMETER == <<13, 0, 0, 192>>
STATUS_MORE_PROCESSING_REQUIRED == <<22, 0, 0, 192>>
STATUS_ACCESS_DENIED == <<34, 0, 0, 192>>
STATUS_LOGON_FAILURE == <<109, 0, 0, 192>>
STATUS_USER_SESSION_DELETED == <<3, 2, 0, 192>>
STATUS_FS_DRIVER_REQUIRED == <<156, 1, 0, 192>>

RELATED_OPERATIONS == 4
SIGNED == 8

Ones(n) == [i \in 1 .. n |-> 255]
SessionId == Le(1, 8)
PendingId == Le(2, 8)
FreshId == Le(3, 8)
FileId == Le(7, 8) \o Le(7, 8)
NewTree == Le(5, 4)
ServerGuid == [i \in 1 .. 16 |-> i]

-----------------------------------------------------------------------------
(* The client.                                                             *)

RequestLayout ==
    [NEGOTIATE |-> NegotiateRequest, SESSION_SETUP |-> SessionSetupRequest, LOGOFF |-> Plain,
     TREE_CONNECT |-> TreeConnectRequest, TREE_DISCONNECT |-> Plain, CREATE |-> CreateRequest,
     CLOSE |-> CloseRequest, FLUSH |-> FlushRequest, READ |-> ReadRequest,
     WRITE |-> WriteRequest, LOCK |-> LockRequest, IOCTL |-> IoctlRequest, CANCEL |-> Plain,
     ECHO |-> Plain, QUERY_DIRECTORY |-> QueryDirectoryRequest,
     CHANGE_NOTIFY |-> ChangeNotifyRequest, QUERY_INFO |-> QueryInfoRequest,
     SET_INFO |-> SetInfoRequest, OPLOCK_BREAK |-> OplockBreak]

ResponseLayout ==
    [NEGOTIATE |-> NegotiateResponse, SESSION_SETUP |-> SessionSetupResponse, LOGOFF |-> Plain,
     TREE_CONNECT |-> TreeConnectResponse, TREE_DISCONNECT |-> Plain,
     CREATE |-> CreateResponse, CLOSE |-> CloseResponse, FLUSH |-> Plain,
     READ |-> ReadResponse, WRITE |-> WriteResponse, LOCK |-> Plain,
     IOCTL |-> IoctlResponse, ECHO |-> Plain, QUERY_DIRECTORY |-> BufferResponse,
     CHANGE_NOTIFY |-> BufferResponse, QUERY_INFO |-> BufferResponse,
     SET_INFO |-> SetInfoResponse, OPLOCK_BREAK |-> OplockBreak]

CmdOf(h) == CHOOSE c \in DOMAIN Command : Command[c] = Num(h.command)

(* The bytes of request r: r.gap bytes of padding precede the last field.  *)
BodyBytes(r) ==
    LET l == RequestLayout[r.cmd]
    IN  WriteTo(Front(l), r.m) \o Zeros(r.gap) \o r.m[Last(l)[1]]

(* Part i of a compound, ended by padding when another follows; its        *)
(* signature is i.                                                         *)
PartBytes(reqs, i, signature) ==
    LET r == reqs[i]
        b == BodyBytes(r)
        pad == IF i < Len(reqs) THEN Pad8(Len(b)) ELSE 0
        flags == (IF r.related THEN RELATED_OPERATIONS ELSE 0) + (IF r.signed THEN SIGNED ELSE 0)
    IN  WriteTo(RawHeader, Header(
            [command |-> Le(Command[r.cmd], 2), flags |-> Le(flags, 4),
             next_command |-> Le(IF i < Len(reqs) THEN 64 + Len(b) + pad ELSE 0, 4),
             message_id |-> Le(10 + i, 8), tail |-> Zeros(4) \o r.tree,
             session_id |-> r.session, signature |-> signature]))
        \o b \o Zeros(pad)

Signature(reqs, i) == IF reqs[i].signed THEN Le(i, 16) ELSE Zeros(16)

FrameOf(reqs) == FlattenSeq([i \in DOMAIN reqs |-> PartBytes(reqs, i, Signature(reqs, i))])

(* Bound: after a frame that was not answered only what may tell.          *)
Send ==
    /\ phase = "idle" /\ phase' = "sent"
    /\ \E reqs \in Compounds :
          /\ unheard # 0 => \E i \in DOMAIN reqs : reqs[i].cmd \in {"NEGOTIATE", "IOCTL"}
          /\ asked' = reqs /\ frame' = encode_frame(FrameOf(reqs))
    /\ whole' = TRUE
    /\ UNCHANGED <<todo, prev, got, answers, made, reply, sessions, negotiated, cur>>

(* A frame that ends early, with the length it then has.  Bound: the first *)
(* on the connection, or one that negotiates.                              *)
Cut ==
    /\ phase = "sent" /\ asked \in Cuttable
    /\ dialect = 0 \/ asked[1].cmd = "NEGOTIATE"
    /\ whole /\ whole' = FALSE
    /\ \E n \in 1 .. Len(frame) - FRAME_HEADER_LEN - 1 :
          frame' = encode_frame(SubSeq(frame, FRAME_HEADER_LEN + 1, FRAME_HEADER_LEN + n))
    /\ UNCHANGED <<phase, asked, todo, prev, got, answers, made, reply, sessions, negotiated, cur>>

-----------------------------------------------------------------------------
(* dispatch_frame.                                                         *)

(* The sub-frames NextCommand leads to; <<>> where the frame is given up.  *)
SubFrames(b) ==
    LET from[at \in 0 .. Len(b)] ==
            LET available == SubSeq(b, at + 1, Len(b))
                h == ParseHeader(available)
                next == Num(h.m.next_command)
            IN  IF at = Len(b) THEN <<>>
                ELSE IF Failed(h) THEN << <<>> >>
                ELSE IF next = 0 THEN <<available>>
                ELSE IF next < SMB2_HEADER_LEN \/ next > Len(available) THEN << <<>> >>
                ELSE <<SubSeq(available, 1, next)>> \o from[at + next]
    IN  from[0]

NoPrev == [session |-> Zeros(8), tree |-> Zeros(4), file |-> Err]

Begin ==
    /\ phase = "sent" /\ phase' = "serving"
    /\ LET h == decode_frame_header(SubSeq(frame, 1, FRAME_HEADER_LEN))
       IN  todo' = SubFrames(SubSeq(frame, FRAME_HEADER_LEN + 1, FRAME_HEADER_LEN + h.len))
    /\ prev' = NoPrev /\ got' = <<>> /\ answers' = <<>> /\ made' = <<>> /\ frame' = <<>>
    /\ UNCHANGED <<asked, whole, reply, sessions, negotiated, cur>>

(* Mutant: SET_INFO taken for QUERY_INFO.                                  *)
file_id_body_offset_SetInfo(cmd) ==
    CASE cmd \in {"CLOSE", "FLUSH", "LOCK", "IOCTL", "QUERY_DIRECTORY", "CHANGE_NOTIFY",
                  "OPLOCK_BREAK"} -> 8
      [] cmd \in {"READ", "WRITE"} -> 16
      [] cmd \in {"QUERY_INFO", "SET_INFO"} -> 24
      [] OTHER -> -1

file_id_body_offset(cmd) ==
    CASE cmd \in {"CLOSE", "FLUSH", "LOCK", "IOCTL", "QUERY_DIRECTORY", "CHANGE_NOTIFY",
                  "OPLOCK_BREAK"} -> 8
      [] cmd \in {"READ", "WRITE", "SET_INFO"} -> 16
      [] cmd = "QUERY_INFO" -> 24
      [] OTHER -> -1

(* b with v in place of the bytes from position at on, if they are all     *)
(* ones.                                                                   *)
Fill(b, at, v) ==
    IF at + Len(v) <= Len(b) /\ SubSeq(b, at + 1, at + Len(v)) = Ones(Len(v))
    THEN SubSeq(b, 1, at) \o v \o SubSeq(b, at + Len(v) + 1, Len(b))
    ELSE b

(* inherit_related_context.                                                *)
Inherit(b) ==
    LET h == ParseHeader(b).m
        ids == Fill(Fill(b, 40, prev.session), 36, prev.tree)
        at == file_id_body_offset(CmdOf(h))
    IN  IF ~Flag(h, RELATED_OPERATIONS) THEN b
        ELSE IF Failed(prev.file) \/ at < 0 THEN ids
        ELSE Fill(ids, SMB2_HEADER_LEN + at, prev.file.id)

(* The bytes a signature was made from, with the signature as zeros.       *)
Unsigned(b) == SubSeq(b, 1, 48) \o Zeros(16) \o SubSeq(b, 65, Len(b))
SignedBytes(tag) ==
    LET i == Num(tag) IN IF i \in DOMAIN asked THEN Unsigned(PartBytes(asked, i, tag)) ELSE <<>>

(* Of a user, anonymous, pending or none.                                  *)
SessionOf(id) == IF id \in DOMAIN sessions THEN sessions[id] ELSE "none"
Become(id, who) == [sessions EXCEPT ![id] = who]

(* Mutant: the part is checked as it came in.                              *)
verify_request_signature_First(h, part) ==
    IF Num(h.command) = Command.NEGOTIATE \/ h.session_id = Zeros(8) \/ ~Flag(h, SIGNED)
    THEN STATUS_SUCCESS
    ELSE IF SessionOf(h.session_id) \in {"none", "pending"} THEN STATUS_USER_SESSION_DELETED
    ELSE IF SessionOf(h.session_id) = "user" /\ Unsigned(Head(todo)) # SignedBytes(h.signature)
    THEN STATUS_ACCESS_DENIED
    ELSE STATUS_SUCCESS

verify_request_signature(h, part) ==
    IF Num(h.command) = Command.NEGOTIATE \/ h.session_id = Zeros(8) \/ ~Flag(h, SIGNED)
    THEN STATUS_SUCCESS
    ELSE IF SessionOf(h.session_id) \in {"none", "pending"} THEN STATUS_USER_SESSION_DELETED
    ELSE IF SessionOf(h.session_id) = "user" /\ Unsigned(part) # SignedBytes(h.signature)
    THEN STATUS_ACCESS_DENIED
    ELSE STATUS_SUCCESS

NoPart == [cmd |-> "none"]

(* The next part is rewritten, its signature is checked and its body is    *)
(* what the handler will parse.                                            *)
Take ==
    /\ phase = "serving" /\ cur = NoPart /\ todo # <<>> /\ Head(todo) # <<>>
    /\ \E part \in {Inherit(Head(todo))} :
       \E h \in {ParseHeader(part).m} :
          cur' = [cmd |-> CmdOf(h), hdr |-> h, part |-> part,
                  status |-> verify_request_signature(h, part),
                  req |-> Parse(RequestLayout[CmdOf(h)],
                                SubSeq(part, SMB2_HEADER_LEN + 1, Len(part)))]
    /\ prev' = [prev EXCEPT !.session = cur'.hdr.session_id, !.tree = TreeId(cur'.hdr)]
    /\ todo' = Tail(todo)
    /\ UNCHANGED <<phase, asked, frame, whole, got, answers, made, reply, sessions, negotiated>>

(* remove_user, from another task: it may fall between any two steps.      *)
Sweep(id) ==
    /\ phase = "serving" /\ asked \in Sweepable
    /\ sessions[id] = "user" /\ sessions' = Become(id, "none")
    /\ UNCHANGED <<phase, asked, frame, whole, todo, cur, prev, got, answers, made, reply, negotiated>>

(* The part that is being served.                                          *)
Hdr == cur.hdr
Cmd == cur.cmd
Req == cur.req
Verified == cur.status = STATUS_SUCCESS
(* lookup_session.                                                         *)
HasSession == SessionOf(Hdr.session_id) \in {"user", "anonymous"}

-----------------------------------------------------------------------------
(* Responses.                                                              *)

(* HandlerResponse.                                                        *)
Ok(body) == [status |-> STATUS_SUCCESS, body |-> body, tree |-> TreeId(Hdr),
             session |-> Hdr.session_id, skip_signing |-> FALSE]
Error(status) ==
    [Ok(WriteTo(ErrorResponse, Message(ErrorResponse, [structure_size |-> Le(9, 2)])))
        EXCEPT !.status = status]

(* now: the sessions after the handler has run.                            *)
build_response_bytes(r, now) ==
    LET setup == Cmd = "SESSION_SETUP" /\ r.status = STATUS_SUCCESS
        sign == /\ ~r.skip_signing
                /\ Flag(Hdr, SIGNED) \/ setup
                /\ r.session \in DOMAIN now /\ now[r.session] = "user"
        flags == SERVER_TO_REDIR
                   + (IF Flag(Hdr, RELATED_OPERATIONS) THEN RELATED_OPERATIONS ELSE 0)
                   + (IF sign THEN SIGNED ELSE 0)
    IN  WriteTo(RawHeader, [Hdr EXCEPT
            !.flags = Le(flags, 4), !.next_command = Zeros(4),
            !.channel_sequence_status = r.status, !.tail = Zeros(4) \o r.tree,
            !.session_id = r.session, !.signature = Zeros(16)])
        \o r.body

IsSigned(b) == Flag(ParseHeader(b).m, SIGNED)

(* capture_create_file_id.                                                 *)
Captured(b) ==
    IF Len(b) < SMB2_HEADER_LEN + 80 \/ SubSeq(b, 9, 12) # STATUS_SUCCESS THEN Err
    ELSE [id |-> SubSeq(b, SMB2_HEADER_LEN + 65, SMB2_HEADER_LEN + 80)]

(* The handler does not look at the body; it is not called at all.         *)
NotRead == [unread |-> TRUE]
Refused == [refused |-> TRUE]

(* The part is done with response r.  m: the body as the handler read it,  *)
(* Err if it could not.  did: what it called or was told.                  *)
ServedWith(m, did, r, now) ==
    \E b \in {build_response_bytes(r, now)} :
        /\ answers' = Append(answers, b)
        /\ made' = Append(made, IF IsSigned(b) THEN b ELSE <<>>)
        /\ sessions' = now
        /\ prev' = [prev EXCEPT !.file = IF Cmd = "CREATE" THEN Captured(b) ELSE @]
        /\ got' = Append(got, [cmd |-> Cmd, m |-> m, did |-> did, hdr |-> Hdr, part |-> cur.part])
        /\ cur' = NoPart
        /\ UNCHANGED <<phase, asked, frame, whole, todo, reply, told, unheard>>

ServedBy(m, did, r) == ServedWith(m, did, r, sessions)

Nothing == [f \in {} |-> <<>>]

Served(m, r) == ServedBy(m, Nothing, r)

Serving(cmds) == Cmd \in cmds

(* A response with the given fields and its size.                          *)
Build(cmd, size, given) ==
    LET l == ResponseLayout[cmd]
    IN  WriteTo(l, [Message(l, given) EXCEPT !.structure_size = Le(size, 2)])

-----------------------------------------------------------------------------
(* Steps of dispatch_one that are alike for all commands.                  *)

(* The signature is refused.                                               *)
Refuse ==
    /\ Serving(DOMAIN Command) /\ ~Verified
    /\ Served(Refused, Error(cur.status))
    /\ UNCHANGED dialect

(* The commands whose handlers do not look at the body.                    *)
Bodyless == {"LOGOFF", "TREE_DISCONNECT", "LOCK", "ECHO", "CHANGE_NOTIFY", "OPLOCK_BREAK", "CANCEL"}

(* The body does not parse.                                                *)
Malformed ==
    /\ Serving(DOMAIN Command \ Bodyless) /\ Verified
    /\ Failed(Req)
    /\ Served(Err, Error(STATUS_INVALID_PARAMETER))
    /\ UNCHANGED dialect

(* A handler fails on the state of sessions, trees or files.               *)
Fails ==
    /\ Serving({"TREE_CONNECT", "TREE_DISCONNECT", "CREATE", "CLOSE", "FLUSH", "READ",
                "WRITE", "QUERY_DIRECTORY", "QUERY_INFO", "SET_INFO"})
    /\ Verified
    /\ Cmd \in Bodyless \/ ~Failed(Req)
    /\ Served(IF Cmd \in Bodyless THEN NotRead ELSE Req.m, Error(STATUS_ACCESS_DENIED))
    /\ UNCHANGED dialect

Cancel ==
    /\ Serving({"CANCEL"}) /\ Verified
    /\ cur' = NoPart
    /\ UNCHANGED <<phase, asked, frame, whole, todo, prev, got, answers, made, reply, sessions, negotiated>>

-----------------------------------------------------------------------------
(* NEGOTIATE.                                                              *)

Supported == {514, 528, 768, 770, 785}
Smb311 == 785
Smb202 == 514
Smb2Wildcard == 767

SecurityMode == Le(1, 2)
Capabilities == Le(7, 4)

(* The contexts of 3.1.1: preauthentication hash and signing.              *)
NegotiateContexts ==
    LET preauth == WriteTo(PreauthIntegrityCapabilities,
                     [hash_algorithm_count |-> Le(1, 2), salt_length |-> Le(32, 2),
                      hash_algorithms |-> Le(1, 2), salt |-> Ones(32)])
        signing == WriteTo(SigningCapabilities,
                     [signing_algorithm_count |-> Le(1, 2), signing_algorithms |-> Le(1, 2)])
        Context(type, data) == [context_type |-> Le(type, 2), data_length |-> Le(Len(data), 2),
                                reserved |-> Zeros(4), data |-> data]
    IN  <<Context(1, preauth), Context(8, signing)>>

NegotiateReply(chosen, capabilities, contexts) ==
    LET blob == encode_init_response
        end == 64 + 64 + Len(blob)
        at == IF contexts = <<>> THEN 0 ELSE end + Pad8(end)
    IN  Build("NEGOTIATE", 65,
            [security_mode |-> SecurityMode, dialect_revision |-> Le(chosen, 2),
             negotiate_context_count |-> Le(Len(contexts), 2), server_guid |-> ServerGuid,
             capabilities |-> capabilities, security_buffer_offset |-> Le(128, 2),
             security_buffer_length |-> Le(Len(blob), 2),
             negotiate_context_offset |-> Le(at, 4), security_buffer |-> blob])
        \o (IF contexts = <<>> THEN <<>> ELSE Zeros(at - end) \o encode_list(contexts))

Offered(m) == {Num(SubSeq(m.dialects, 2 * i - 1, 2 * i)) : i \in 1 .. Num(m.dialect_count)}

Negotiate ==
    /\ Serving({"NEGOTIATE"}) /\ ~Failed(Req)
    /\ LET known == Offered(Req.m) \cap Supported
           chosen == Max(known)
           contexts == IF chosen = Smb311 THEN NegotiateContexts ELSE <<>>
       IN  IF known = {}
           THEN Served(Req.m, Error(STATUS_NOT_SUPPORTED)) /\ UNCHANGED dialect
           ELSE /\ dialect' = chosen
                /\ Served(Req.m, [Ok(NegotiateReply(chosen, Capabilities, contexts))
                                    EXCEPT !.skip_signing = TRUE])

(* Mutant: an SMB1 NEGOTIATE sets the dialect, too.                        *)
Smb1Dialect_Set(chosen) == chosen

(* The dialect after multi_protocol_response.                              *)
Smb1Dialect(chosen) == dialect

(* handle_smb1_multi_protocol: an SMB1 NEGOTIATE that offers SMB2.         *)
Smb1Negotiate ==
    /\ phase = "idle" /\ phase' = "answered"
    /\ \E offered \in Smb1Offers :
          LET chosen == IF "SMB 2.???" \in offered THEN Smb2Wildcard ELSE Smb202
              hdr == Header([flags |-> Le(SERVER_TO_REDIR, 4), tail |-> Zeros(4) \o Le(65535, 4)])
          IN  /\ offered \cap {"SMB 2.???", "SMB 2.002"} # {}
              /\ answers' = <<WriteTo(RawHeader, hdr) \o NegotiateReply(chosen, Zeros(4), <<>>)>>
              /\ dialect' = Smb1Dialect(chosen)
    /\ reply' = encode_frame(answers'[1])
    /\ asked' = <<>> /\ got' = <<>> /\ made' = << <<>> >>
    /\ UNCHANGED <<frame, whole, todo, prev, sessions, told, unheard, cur>>

-----------------------------------------------------------------------------
(* SESSION_SETUP: the forms of the security buffer and of the answer.      *)

NTLMSSP_MAGIC == <<78, 84, 76, 77, 83, 83, 80, 0>>

NoToken == [form |-> "none"]

(* What the buffer holds: the NTLM message, and whether it is the first.   *)
Token(blob) ==
    LET init == decode_init_token(blob)
        resp == decode_resp_token(blob)
        Inner(t) == IF t = None THEN <<>> ELSE t.some
    IN  IF blob = <<>> THEN NoToken
        ELSE IF Len(blob) >= 8 /\ SubSeq(blob, 1, 8) = NTLMSSP_MAGIC
        THEN [form |-> "raw", first |-> Len(blob) >= 12 /\ SubSeq(blob, 9, 12) = Le(1, 4),
              ntlm |-> blob]
        ELSE IF blob[1] = TAG_APP_0
        THEN IF Failed(init) THEN Err
             ELSE IF OID_NTLMSSP \notin Range(init.mech_types)
             THEN [form |-> "other mechanism", first |-> TRUE, ntlm |-> <<>>]
             ELSE [form |-> "init", first |-> TRUE, ntlm |-> Inner(init.mech_token)]
        ELSE IF Failed(resp) THEN Err
        ELSE [form |-> "resp", first |-> FALSE, ntlm |-> Inner(resp.response_token)]

SetupReply(blob, session_flags) ==
    Build("SESSION_SETUP", 9,
        [session_flags |-> Le(session_flags, 2), security_buffer_offset |-> Le(72, 2),
         security_buffer_length |-> Le(Len(blob), 2), security_buffer |-> blob])

EmptyCompleted == encode_resp_token([NoResp EXCEPT !.neg_state = [some |-> <<AcceptCompleted>>]])

Wrapped(challenge) ==
    encode_resp_token([NoResp EXCEPT !.neg_state = [some |-> <<AcceptIncomplete>>],
                                     !.supported_mech = [some |-> OID_NTLMSSP],
                                     !.response_token = [some |-> challenge]])

(* Token t begins an exchange or is refused before one is looked up; what  *)
(* the acceptor says of the NTLM message is in Ntlm.                       *)
FirstResponses(t) ==
    IF Failed(t) THEN {Error(STATUS_LOGON_FAILURE)}
    ELSE IF t.form = "none" THEN {Error(STATUS_INVALID_PARAMETER)}
    ELSE IF t.form = "other mechanism" THEN {Error(STATUS_NOT_SUPPORTED)}
    ELSE {Error(STATUS_LOGON_FAILURE)}
         \cup {[Ok(SetupReply(IF t.form = "raw" THEN c ELSE Wrapped(c), 0))
                   EXCEPT !.status = STATUS_MORE_PROCESSING_REQUIRED,
                          !.session = FreshId, !.skip_signing = TRUE] : c \in Challenges}

IsFollowUp(t) == ~Failed(t) /\ t.form \in {"raw", "resp"} /\ ~t.first

SessionSetup ==
    /\ Serving({"SESSION_SETUP"}) /\ Verified /\ ~Failed(Req)
    /\ \E t \in {Token(Req.m.security_buffer)} :
          /\ ~IsFollowUp(t)
          /\ \E r \in FirstResponses(t) :
                Served(IF Failed(t) THEN Err ELSE [Req.m EXCEPT !.security_buffer = t], r)
    /\ UNCHANGED dialect

(* The session of an exchange that succeeds; an anonymous one is a guest's *)
(* and has no key.                                                         *)
Established(blob, who) ==
    [Ok(SetupReply(blob, IF who = "anonymous" THEN 1 ELSE 0))
        EXCEPT !.skip_signing = who = "anonymous"]

(* The exchange is taken from conn.pending_auths, whatever comes of it.    *)
FollowUp ==
    LET sid == Hdr.session_id
        pending == SessionOf(sid) = "pending"
    IN  /\ Serving({"SESSION_SETUP"}) /\ Verified /\ ~Failed(Req)
        /\ \E t \in {Token(Req.m.security_buffer)} :
           \E m \in {[Req.m EXCEPT !.security_buffer = t]} :
              /\ IsFollowUp(t)
              /\ \/ sid = Zeros(8) /\ Served(m, Error(STATUS_INVALID_PARAMETER))
                 \/ /\ sid # Zeros(8) /\ ~pending
                    /\ Served(m, Error(STATUS_USER_SESSION_DELETED))
                 \/ \E status \in {STATUS_LOGON_FAILURE} \cup
                                  (IF dialect = 0 THEN {STATUS_INVALID_PARAMETER} ELSE {}) :
                       pending /\ ServedWith(m, Nothing, Error(status), Become(sid, "none"))
                 \/ /\ pending /\ dialect # 0
                    /\ \E who \in {"user", "anonymous"}, blob \in {<<>>, EmptyCompleted} :
                          ServedWith(m, Nothing, Established(blob, who), Become(sid, who))
        /\ UNCHANGED dialect

-----------------------------------------------------------------------------
(* CREATE and its contexts.                                                *)

NAME_AAPL == <<65, 65, 80, 76>>
ServerQuery == 1

(* build_aapl_response_context: the capabilities that were asked for, of   *)
(* server (bit 1) and volume (bit 2).                                      *)
AaplResponse(c) ==
    LET bitmap == c.data[9]
        server == bitmap % 2
        volume == (bitmap \div 2) % 2
    IN  IF Len(c.data) # 24 THEN <<>>
        ELSE IF SubSeq(c.data, 1, 4) # Le(ServerQuery, 4) THEN <<>>
        ELSE << [name |-> NAME_AAPL,
                 data |-> Le(ServerQuery, 4) \o Zeros(4) \o Le(server + 2 * volume, 8)
                            \o (IF server = 1 THEN Le(4, 8) ELSE <<>>)
                            \o (IF volume = 1 THEN Zeros(8) ELSE <<>>)] >>

(* The contexts of the request; none if the chain is broken.               *)
ContextsIn(chain) ==
    LET parsed == parse_chain(chain)
    IN  IF \E i \in DOMAIN parsed : Failed(parsed[i]) THEN <<>> ELSE parsed

Answered(contexts) ==
    LET aapl == SelectSeq(contexts, LAMBDA c : c.name = NAME_AAPL)
    IN  IF aapl = <<>> THEN <<>> ELSE AaplResponse(aapl[1])

Create ==
    /\ Serving({"CREATE"}) /\ Verified /\ ~Failed(Req) /\ HasSession
    /\ LET out == encode_chain(Answered(ContextsIn(Req.m.create_contexts)))
       IN  Served(Req.m, Ok(Build("CREATE", 89,
               [file_id |-> FileId,
                create_contexts_offset |-> Le(IF out = <<>> THEN 0 ELSE 152, 4),
                create_contexts_length |-> Le(Len(out), 4), create_contexts |-> out])))
    /\ UNCHANGED dialect

-----------------------------------------------------------------------------
(* Answers with data.                                                      *)

Read ==
    /\ Serving({"READ"}) /\ Verified /\ ~Failed(Req) /\ HasSession
    /\ \E d \in Blobs :
          Served(Req.m, Ok(Build("READ", 17,
              [data_offset |-> Le(80, 1), data_length |-> Le(Len(d), 4), data |-> d])))
    /\ UNCHANGED dialect

BufferReply(d) ==
    Ok(Build(Cmd, 9, [output_buffer_offset |-> Le(72, 2), output_buffer_length |-> Le(Len(d), 4),
                      buffer |-> d]))

QueryDirectory ==
    /\ Serving({"QUERY_DIRECTORY"}) /\ Verified /\ ~Failed(Req) /\ HasSession
    /\ \E d \in Blobs : Served(Req.m, BufferReply(d))
    /\ UNCHANGED dialect

(* The second half of the FileId is the index of the file.                 *)
QueryInfo ==
    /\ Serving({"QUERY_INFO"}) /\ Verified /\ ~Failed(Req) /\ HasSession
    /\ \E info \in Infos, named_streams \in BOOLEAN :
       \E r \in {QueryInfoResult(Req.m, info, SubSeq(Req.m.file_id, 9, 16), named_streams)} :
          ServedBy(Req.m, info,
                   IF r.status = STATUS_SUCCESS THEN BufferReply(r.buffer) ELSE Error(r.status))
    /\ UNCHANGED dialect

SetInfo ==
    /\ Serving({"SET_INFO"}) /\ Verified /\ ~Failed(Req) /\ HasSession
    /\ \E r \in {SetInfoCall(Req.m)} :
          IF r.status = STATUS_SUCCESS
          THEN ServedBy(Req.m, r.call, Ok(Build("SET_INFO", 2, Nothing)))
          ELSE Served(Req.m, Error(r.status))
    /\ UNCHANGED dialect

VALIDATE_NEGOTIATE_INFO == <<4, 2, 20, 0>>
DFS_GET_REFERRALS == <<148, 1, 6, 0>>
DFS_GET_REFERRALS_EX == <<152, 1, 6, 0>>

ValidateInfo == Capabilities \o ServerGuid \o SecurityMode \o Le(dialect, 2)

Ioctl ==
    /\ Serving({"IOCTL"}) /\ Verified /\ ~Failed(Req)
    /\ Served(Req.m,
          IF Req.m.ctl_code = VALIDATE_NEGOTIATE_INFO
          THEN Ok(Build("IOCTL", 49,
                  [ctl_code |-> Req.m.ctl_code, file_id |-> Req.m.file_id,
                   output_offset |-> Le(112, 4), output_count |-> Le(Len(ValidateInfo), 4),
                   output |-> ValidateInfo]))
          ELSE Error(IF Req.m.ctl_code \in {DFS_GET_REFERRALS, DFS_GET_REFERRALS_EX}
                     THEN STATUS_FS_DRIVER_REQUIRED ELSE STATUS_NOT_SUPPORTED))
    /\ UNCHANGED dialect

-----------------------------------------------------------------------------
(* Answers without.                                                        *)

TreeConnect ==
    /\ Serving({"TREE_CONNECT"}) /\ Verified /\ ~Failed(Req) /\ HasSession
    /\ Served(Req.m, [Ok(Build("TREE_CONNECT", 16, [share_type |-> <<1>>])) EXCEPT !.tree = NewTree])
    /\ UNCHANGED dialect

(* CLOSE, WRITE and FLUSH: the sizes they state.                           *)
FixedSize == [CLOSE |-> 60, WRITE |-> 17, FLUSH |-> 4]

FileDone ==
    /\ Serving(DOMAIN FixedSize) /\ Verified /\ ~Failed(Req) /\ HasSession
    /\ Served(Req.m, Ok(Build(Cmd, FixedSize[Cmd],
           IF Cmd = "WRITE" THEN [count |-> Le(Len(Req.m.data), 4)] ELSE Nothing)))
    /\ UNCHANGED dialect

Bare ==
    /\ Serving({"TREE_DISCONNECT", "LOCK", "ECHO"}) /\ Verified
    /\ Cmd = "TREE_DISCONNECT" => HasSession
    /\ Served(NotRead, Ok(Build(Cmd, 4, Nothing)))
    /\ UNCHANGED dialect

(* The session is gone before the answer is built, which is not signed.    *)
Logoff ==
    /\ Serving({"LOGOFF"}) /\ Verified
    /\ IF Hdr.session_id = Zeros(8) THEN Served(NotRead, Error(STATUS_USER_SESSION_DELETED))
       ELSE ServedWith(NotRead, Nothing, Ok(Build("LOGOFF", 4, Nothing)),
                       IF HasSession THEN Become(Hdr.session_id, "none") ELSE sessions)
    /\ UNCHANGED dialect

ChangeNotify ==
    /\ Serving({"CHANGE_NOTIFY"}) /\ Verified
    /\ Served(NotRead, Error(STATUS_NOT_SUPPORTED))
    /\ UNCHANGED dialect

(* The file id of the answer is the one of no file.                        *)
OplockBreakAck ==
    /\ Serving({"OPLOCK_BREAK"}) /\ Verified
    /\ Served(NotRead, Ok(Build("OPLOCK_BREAK", 24, [file_id |-> Ones(16)])))
    /\ UNCHANGED dialect

-----------------------------------------------------------------------------
(* The end of a frame.                                                     *)

(* Response i of rs, with NextCommand if another follows.                  *)
Chained(rs, i) ==
    IF i = Len(rs) THEN rs[i]
    ELSE SubSeq(rs[i], 1, 20) \o Le(Len(rs[i]) + Pad8(Len(rs[i])), 4)
           \o SubSeq(rs[i], 25, Len(rs[i]))

(* Mutant: no padding between the responses.                               *)
stitch_responses_Unpadded(rs) == FlattenSeq([i \in DOMAIN rs |-> Chained(rs, i)])

stitch_responses(rs) ==
    FlattenSeq([i \in DOMAIN rs |-> Chained(rs, i) \o
                   (IF i = Len(rs) THEN <<>> ELSE Zeros(Pad8(Len(rs[i]))))])

(* Mutant: the signatures of the responses are kept.                       *)
SignedAnew_Kept(rs) == made

(* What the signatures are made from after stitch_responses: each is made  *)
(* anew, if the session is still there, over the response without the      *)
(* padding that follows it.                                                *)
SignedAnew(rs) ==
    [i \in DOMAIN rs |->
        IF IsSigned(rs[i]) /\ SessionOf(ParseHeader(rs[i]).m.session_id) = "user"
        THEN Chained(rs, i) ELSE made[i]]

(* All parts are served, or the rest is malformed and nothing is answered. *)
Finish ==
    /\ phase = "serving" /\ cur = NoPart /\ phase' = "answered"
    /\ \/ /\ todo = <<>>
          /\ reply' = IF answers = <<>> THEN <<>> ELSE encode_frame(stitch_responses(answers))
          /\ made' = SignedAnew(answers)
       \/ todo # <<>> /\ Head(todo) = <<>> /\ reply' = <<>> /\ UNCHANGED made
    /\ UNCHANGED <<asked, frame, whole, todo, prev, got, answers, sessions, negotiated, cur>>

-----------------------------------------------------------------------------
(* The client reads the reply.                                             *)

(* The answers as the client cuts them out of the reply.                   *)
Heard == SubFrames(SubSeq(reply, FRAME_HEADER_LEN + 1, Len(reply)))

StatusOf(b) == SubSeq(b, 9, 12)
Good(b) == StatusOf(b) \in {STATUS_SUCCESS, STATUS_MORE_PROCESSING_REQUIRED}
BodyOf(b, layout) == Parse(layout, SubSeq(b, SMB2_HEADER_LEN + 1, Len(b)))

(* The dialect the last of the answers rs to a NEGOTIATE that succeeded    *)
(* names, d if there is none.                                              *)
LastDialect(rs, d) ==
    LET at == {i \in DOMAIN rs : Good(rs[i]) /\ CmdOf(ParseHeader(rs[i]).m) = "NEGOTIATE"}
    IN  IF at = {} THEN d
        ELSE Num(BodyOf(rs[Max(at)], NegotiateResponse).m.dialect_revision)

(* At the start of each frame.                                             *)
Sessions == (SessionId :> "user") @@ (PendingId :> "pending")

(* The connection is ready for the next frame.  Bound: a frame that has    *)
(* changed the sessions is the last.                                       *)
Again ==
    /\ phase = "answered" /\ phase' = "idle" /\ sessions = Sessions
    /\ IF asked = <<>> THEN UNCHANGED <<told, unheard>>
       ELSE IF reply = <<>> THEN unheard' = LastDialect(answers, unheard) /\ UNCHANGED told
       ELSE \E d \in {LastDialect(Heard, 0)} :
               /\ told' = IF d = 0 THEN told ELSE d
               /\ unheard' = IF d = 0 THEN unheard ELSE 0
    /\ asked' = <<>> /\ todo' = <<>> /\ prev' = NoPrev /\ UNCHANGED <<frame, whole, cur>>
    /\ got' = <<>> /\ answers' = <<>> /\ made' = <<>> /\ reply' = <<>>
    /\ UNCHANGED <<sessions, dialect>>

Init ==
    /\ phase = "idle" /\ asked = <<>> /\ frame = <<>> /\ whole = TRUE /\ todo = <<>> /\ cur = NoPart /\ prev = NoPrev
    /\ got = <<>> /\ answers = <<>> /\ made = <<>> /\ reply = <<>>
    /\ sessions = Sessions /\ dialect = 0 /\ told = 0 /\ unheard = 0

Next ==
    \/ Send \/ Cut \/ Begin \/ Take \/ Refuse \/ Malformed \/ Fails \/ Cancel
    \/ Negotiate \/ Smb1Negotiate \/ SessionSetup \/ FollowUp \/ Create \/ Read \/ QueryDirectory
    \/ QueryInfo \/ SetInfo \/ Ioctl \/ TreeConnect \/ FileDone \/ Bare \/ Logoff
    \/ ChangeNotify \/ OplockBreakAck \/ Finish \/ Again
    \/ \E id \in {SessionId, PendingId} : Sweep(id)

Spec == Init /\ [][Next]_vars

-----------------------------------------------------------------------------
(* Properties.                                                             *)

TypeOK ==
    /\ phase \in {"idle", "sent", "serving", "answered"}
    /\ Len(todo) <= Len(asked)
    /\ {dialect, told, unheard} \subseteq Supported \cup {0}
    /\ sessions \in [{SessionId, PendingId} -> {"user", "anonymous", "pending", "none"}]
    /\ Len(answers) <= Len(got) + 1 /\ Len(made) = Len(answers)
    /\ \A i \in DOMAIN answers : ~Failed(ParseHeader(answers[i]))

Meant(g) == asked[Num(g.hdr.message_id) - 10]

(* The fields of a request that the server may see differently: ids that   *)
(* it fills in, contexts behind padding, and the token, which it unwraps.  *)
Own(r, f) ==
    \/ f = "file_id" /\ r.related /\ r.m.file_id = Ones(16)
    \/ f = "create_contexts" /\ r.gap > 0
    \/ f = "security_buffer" /\ r.cmd = "SESSION_SETUP"

(* A request is handled as its client means it or not at all: every        *)
(* decoder reads each field from where the encoder of the other side put   *)
(* it, a frame or a token that ends early is refused rather than read as   *)
(* something else, and one that is whole is not refused.                   *)
Understood ==
    \A i \in DOMAIN got :
        LET g == got[i]
            r == Meant(g)
        IN  g.m \notin {NotRead, Refused} =>
              IF Failed(g.m) THEN ~whole \/ Failed(r.token)
              ELSE /\ \A f \in DOMAIN g.m : Own(r, f) \/ g.m[f] = r.m[f]
                   /\ r.cmd = "SESSION_SETUP" => g.m.security_buffer = r.token

(* The FileId in the body of a part, wherever its command has it.          *)
FileIdOf(g) ==
    LET b == Parse(RequestLayout[g.cmd], SubSeq(g.part, SMB2_HEADER_LEN + 1, Len(g.part)))
    IN  IF Failed(b) THEN Err ELSE IF "file_id" \in DOMAIN b.m THEN [id |-> b.m.file_id] ELSE Err

(* In a compound, a related request that leaves its ids open works on the  *)
(* session, tree and file of the request before it, whatever its command   *)
(* (the offset file_id_body_offset gives is where that command has its     *)
(* FileId); a request that names its ids is not redirected.                *)
RelatedFollows ==
    \A i \in DOMAIN got :
        LET g == got[i]
            r == Meant(g)
            open == r.related /\ r.m.file_id = Ones(16) /\ i = 2
                      /\ asked[1].cmd = "CREATE" /\ ~Failed(Captured(answers[1]))
        IN  /\ ~Failed(FileIdOf(g)) =>
                  FileIdOf(g).id = IF open THEN FileId ELSE r.m.file_id
            /\ g.hdr.session_id = IF r.related /\ r.session = Ones(8) THEN got[1].hdr.session_id ELSE r.session

(* A part that passes as signed is handled exactly as its signer wrote it: *)
(* neither the network nor the rewriting of related parts changes a byte   *)
(* between the signature and the handler.                                  *)
SignedAsSent ==
    \A i \in DOMAIN got :
        LET g == got[i]
        IN  (g.m # Refused /\ Flag(g.hdr, SIGNED) /\ g.hdr.session_id = SessionId
               /\ g.cmd # "NEGOTIATE") =>
                Unsigned(g.part) = Unsigned(PartBytes(asked, Num(g.hdr.message_id) - 10, Zeros(16)))

(* Offset, length and contents of the data of a response.                  *)
DataOf ==
    [NEGOTIATE |-> <<"security_buffer_offset", "security_buffer_length", "security_buffer">>,
     SESSION_SETUP |-> <<"security_buffer_offset", "security_buffer_length", "security_buffer">>,
     CREATE |-> <<"create_contexts_offset", "create_contexts_length", "create_contexts">>,
     READ |-> <<"data_offset", "data_length", "data">>,
     IOCTL |-> <<"output_offset", "output_count", "output">>,
     QUERY_INFO |-> <<"output_buffer_offset", "output_buffer_length", "buffer">>,
     QUERY_DIRECTORY |-> <<"output_buffer_offset", "output_buffer_length", "buffer">>]

AnswerLayout(b) ==
    IF Good(b) THEN ResponseLayout[CmdOf(ParseHeader(b).m)] ELSE ErrorResponse

DataFound(b, m, d) ==
    Num(m[d[2]]) > 0 => Slice(b, Num(m[d[1]]), Num(m[d[2]])) = [bytes |-> m[d[3]]]

ContextsFound(b, m) ==
    LET at == Num(m.negotiate_context_offset)
    IN  Num(m.dialect_revision) = Smb311 =>
            /\ at % 8 = 0
            /\ parse_list(SubSeq(b, at + 1, Len(b)), Num(m.negotiate_context_count)).list
                  = NegotiateContexts

(* A client that reads an answer by the sizes and offsets it states finds  *)
(* the data that was written, inside the message; at the end of NEGOTIATE  *)
(* of 3.1.1 also the contexts, on a multiple of 8.                         *)
ReplyFound ==
    phase = "answered" /\ reply # <<>> =>
        \A b \in Range(Heard) \ {<<>>} :
        \A body \in {BodyOf(b, AnswerLayout(b))}, cmd \in {CmdOf(ParseHeader(b).m)} :
            /\ ~Failed(body)
            /\ Num(body.m.structure_size) \div 2 = FixedLen(AnswerLayout(b)) \div 2
            /\ Good(b) /\ cmd \in DOMAIN DataOf => DataFound(b, body.m, DataOf[cmd])
            /\ Good(b) /\ cmd = "NEGOTIATE" => ContextsFound(b, body.m)

(* Every request of a frame that is whole is answered, CANCEL apart, in    *)
(* the order of the frame and under its message id, and each answer of a   *)
(* compound starts on a multiple of 8.                                     *)
EachAnswered ==
    phase = "answered" /\ asked # <<>> =>
        \A ids \in {SelectSeq([i \in DOMAIN asked |-> i], LAMBDA i : asked[i].cmd # "CANCEL")} :
            /\ whole /\ ids # <<>> => reply # <<>>
            /\ reply # <<>> =>
                  /\ decode_frame_header(reply).len = Len(reply) - FRAME_HEADER_LEN
                  /\ \A heard \in {Heard} :
                        /\ Len(heard) <= Len(ids) /\ (whole => Len(heard) = Len(ids))
                        /\ \A i \in DOMAIN heard :
                              /\ heard[i] # <<>>
                              /\ Num(ParseHeader(heard[i]).m.message_id) = 10 + ids[i]
                              /\ i < Len(heard) => Len(heard[i]) % 8 = 0

(* A client checks the signature of an answer that is marked as signed     *)
(* over that answer, from its header to the end of its body, and finds it  *)
(* right, although NextCommand was written after it was signed; unless the *)
(* session has ended in between and another answer follows.  The padding   *)
(* before the next answer, which NextCommand counts, is not signed; that   *)
(* of a request is (SignedAsSent).  While its session lasts, each signed   *)
(* request has a signed answer, and so has the one that establishes a      *)
(* session (build_response_bytes, stitch_responses).                       *)
AnswersSigned ==
    phase = "answered" /\ reply # <<>> =>
        \A heard \in {Heard} : \A i \in DOMAIN heard : \A h \in {ParseHeader(heard[i]).m} :
            LET lasts == SessionOf(h.session_id) = "user"
                owed == \/ asked[Num(h.message_id) - 10].signed /\ CmdOf(h) # "NEGOTIATE"
                        \/ CmdOf(h) = "SESSION_SETUP" /\ StatusOf(heard[i]) = STATUS_SUCCESS
            IN  /\ Flag(h, SIGNED) /\ (lasts \/ i = Len(heard)) =>
                      \E n \in 0 .. 7 : heard[i] = made[i] \o Zeros(n)
                /\ lasts /\ owed => Flag(h, SIGNED)

(* The answers that were successes of command cmd.                         *)
Successes(cmd) ==
    IF phase = "answered" /\ reply # <<>>
    THEN {b \in Range(Heard) \ {<<>>} :
             StatusOf(b) = STATUS_SUCCESS /\ CmdOf(ParseHeader(b).m) = cmd}
    ELSE {}

(* The Apple capabilities are answered when they were asked for, whatever  *)
(* contexts surround the query, and never otherwise; a query behind        *)
(* padding is answered rightly or ignored.                                 *)
AaplAnswered ==
    \A b \in Successes("CREATE") :
    \A found \in {parse_chain(BodyOf(b, CreateResponse).m.create_contexts)},
       r \in {asked[Num(ParseHeader(b).m.message_id) - 10]} :
          found = Answered(r.contexts) \/ (r.gap > 0 /\ found = <<>>)

(* FSCTL_VALIDATE_NEGOTIATE_INFO confirms the last NEGOTIATE that the      *)
(* client has had an answer to, in an earlier frame or in an earlier part  *)
(* of this one, through SMB1 and failed SMB2 NEGOTIATEs after it; only     *)
(* where a NEGOTIATE has been handled since in a frame that was then given *)
(* up, answer and all, does it confirm that one (dispatch_frame).          *)
ValidateAgrees ==
    phase = "answered" /\ reply # <<>> =>
        \A heard \in {Heard} : \A i \in DOMAIN heard :
            (StatusOf(heard[i]) = STATUS_SUCCESS /\ CmdOf(ParseHeader(heard[i]).m) = "IOCTL") =>
                LET out == BodyOf(heard[i], IoctlResponse).m.output
                IN  Num(SubSeq(out, 23, 24)) =
                        LastDialect(SubSeq(heard, 1, i - 1), IF unheard # 0 THEN unheard ELSE told)

(* Where clients look for what QUERY_INFO tells of a file, by class, for   *)
(* the length of its name and for its attributes.                          *)
FieldAt ==
    LET times == [creation_time |-> 0, last_access_time |-> 8, last_write_time |-> 16,
                  change_time |-> 24]
    IN  FILE_BASIC_INFORMATION :> times
        @@ FILE_STANDARD_INFORMATION :> [allocation_size |-> 0, end_of_file |-> 8]
        @@ FILE_NETWORK_OPEN_INFORMATION :>
              (times @@ [allocation_size |-> 32, end_of_file |-> 40])
        @@ FILE_STREAM_INFORMATION :> [end_of_file |-> 8, allocation_size |-> 16]
        @@ FILE_ALL_INFORMATION :> (times @@ [allocation_size |-> 40, end_of_file |-> 48])
NameAt == FILE_NAME_INFORMATION :> 0 @@ FILE_ALL_INFORMATION :> 96
AttributesAt ==
    FILE_BASIC_INFORMATION :> 32 @@ FILE_ALL_INFORMATION :> 32 @@ FILE_NETWORK_OPEN_INFORMATION :> 48

(* The bytes of d from at on, as many as the field at lenAt says.          *)
Counted(d, lenAt, at) == Slice(d, at, Num(SubSeq(d, lenAt + 1, lenAt + 4)))

FileFound(class, d, info) ==
    /\ class \in DOMAIN FieldAt /\ d # <<>> =>
          \A f \in DOMAIN FieldAt[class] : Slice(d, FieldAt[class][f], 8) = [bytes |-> info[f]]
    /\ class \in DOMAIN NameAt =>
          Counted(d, NameAt[class], NameAt[class] + 4) = [bytes |-> info.name]
    /\ class \in DOMAIN AttributesAt =>
          (d[AttributesAt[class] + 1] = 16) = info.is_directory
    /\ class = FILE_ALL_INFORMATION => Len(d) >= 101

(* The list of a descriptor ends where it says, and its one entry with it. *)
DescriptorFound(d) ==
    LET U(at, w) == Num(SubSeq(d, at + 1, at + w))
        dacl == U(16, 4)
    IN  /\ SubSeq(d, U(4, 4) + 1, U(4, 4) + 12) = Everyone
        /\ dacl + U(dacl + 2, 2) = Len(d)
        /\ dacl + 8 + U(dacl + 10, 2) = Len(d)
        /\ SubSeq(d, Len(d) - 11, Len(d)) = Everyone

(* An answer to QUERY_INFO fits the client's buffer, and a client that     *)
(* knows the class finds times, sizes, kind and name of the file in it, in *)
(* FileAllInformation as in the classes it is made of, and following the   *)
(* offsets and sizes of a descriptor it finds the owner and the list.      *)
InfoFound ==
    \A i \in DOMAIN answers :
        (got # <<>> /\ got[i].cmd = "QUERY_INFO" /\ StatusOf(answers[i]) = STATUS_SUCCESS) =>
            LET d == BodyOf(answers[i], BufferResponse).m.buffer
                m == got[i].m
            IN  /\ Len(d) <= Num(m.output_buffer_length)
                /\ Num(m.info_type) = InfoType.File =>
                      FileFound(Num(m.file_information_class), d, got[i].did)
                /\ Num(m.info_type) = InfoType.Security => DescriptorFound(d)

(* SET_INFO calls the backend with what the client means, the name of a    *)
(* rename and the times to keep included; a buffer that is too short for   *)
(* its class is refused, and only such a one.                              *)
SetAsMeant ==
    \A i \in DOMAIN got :
        got[i].cmd = "SET_INFO" /\ got[i].m # Refused =>
            \/ got[i].did = Meant(got[i]).means
            \/ StatusOf(answers[i]) = STATUS_ACCESS_DENIED
            \/ StatusOf(answers[i]) = STATUS_INVALID_PARAMETER /\ ~whole

(* Requests do what their clients mean, in fields, in the file they are    *)
(* about and in what the backend is called with, or are refused.           *)
RequestsAsMeant == TypeOK /\ Understood /\ RelatedFollows /\ SetAsMeant

(* Answers say what the client asked for, where it looks for it.           *)
AnswersFound == ReplyFound /\ AaplAnswered /\ InfoFound
=============================================================================
