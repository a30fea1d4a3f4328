----------------------------- MODULE MCExchange -----------------------------
(***************************************************************************)
(* An instance for TLC of what clients send: exchanges of messages, or     *)
(* texts as paths, or as patterns.  The focus keeps them apart.            *)
(***************************************************************************)
EXTENDS Exchange, Paths

VARIABLES
    focus,      \* exchange, path, pattern
    typed       \* the pieces of the text

mcvars == <<vars, focus, typed>>

(* A request; ids and fields that do not matter are zero.                  *)
Request(c, given) ==
    [cmd |-> c, m |-> Message(RequestLayout[c], given), gap |-> 0, related |-> FALSE,
     signed |-> FALSE, tree |-> Le(3, 4), session |-> SessionId,
     token |-> NoToken, contexts |-> <<>>, means |-> Nothing]

Bytes(n) == [i \in 1 .. n |-> i % 256]
File == Le(9, 16)

Offer(ds) == Request("NEGOTIATE", [dialect_count |-> Le(Len(ds), 2), dialects |-> FlattenSeq([i \in DOMAIN ds |-> Le(ds[i], 2)])])
Negotiates == {Offer(ds) : ds \in {<<>>, <<514>>, <<785, 768>>, <<770, 514, 528>>, <<1>>}}

Ntlm(type, n) == NTLMSSP_MAGIC \o Le(type, 4) \o Bytes(n)
EncodeInit(mech, token) ==
    LET mechs == write_tlv(TAG_CTX[0], write_tlv(TAG_SEQUENCE, write_tlv(TAG_OBJECT, mech)))
    IN  write_tlv(TAG_APP_0, write_tlv(TAG_OBJECT, OID_SPNEGO) \o write_tlv(TAG_CTX[0],
            write_tlv(TAG_SEQUENCE, mechs \o write_tlv(TAG_CTX[2], write_tlv(TAG_OCTET, token)))))
EncodeResp(token) == encode_resp_token([NoResp EXCEPT !.response_token = [some |-> token]])
Setup(b, t) ==
    [Request("SESSION_SETUP", [security_buffer_length |-> Le(Len(b), 2), security_buffer |-> b])
        EXCEPT !.token = t, !.session = PendingId]
Tok(form, first, ntlm) == [form |-> form, first |-> first, ntlm |-> ntlm]
(* What is left of b when its end is missing.                              *)
Shortened(b) == {SubSeq(b, 1, k) : k \in 1 .. Len(b) - 1}

Setups ==
    {Setup(<<>>, NoToken)} \cup
    {Setup(Ntlm(k, 4), Tok("raw", k = 1, Ntlm(k, 4))) : k \in {1, 3}}
    \cup {Setup(EncodeInit(OID_NTLMSSP, Ntlm(1, n)), Tok("init", TRUE, Ntlm(1, n))) : n \in {4, 80, 116, 250}}
    \cup {Setup(EncodeInit(<<42>>, Ntlm(1, 4)), Tok("other mechanism", TRUE, <<>>))}
    \cup {Setup(EncodeResp(Ntlm(3, n)), Tok("resp", FALSE, Ntlm(3, n))) : n \in {4, 112, 250}}
    \cup {Setup(b, Err) : b \in Shortened(EncodeInit(OID_NTLMSSP, Ntlm(1, 80)))
                                \cup Shortened(EncodeResp(Ntlm(3, 112)))}
    \cup {[Setup(Ntlm(3, 4), Tok("raw", FALSE, Ntlm(3, 4))) EXCEPT !.session = id] :
             id \in {SessionId, Zeros(8)}}

Query(bitmap) == [name |-> NAME_AAPL, data |-> Le(1, 4) \o Zeros(4) \o Le(bitmap, 8) \o Le(3, 8)]
Other == [name |-> <<77, 120, 65, 99>>, data |-> Bytes(3)]
Chains == {<<>>, <<Query(3)>>, <<Other, Query(1)>>, <<Other, Other, Query(2)>>,
           <<[name |-> NAME_AAPL, data |-> Bytes(3)]>>, <<Other>>}
Creation(n, list, padded) ==
    LET chain == encode_chain(list)
    IN  [Request("CREATE", [name_length |-> Le(n, 2), name |-> Bytes(n),
                            create_contexts_length |-> Le(Len(chain), 4), create_contexts |-> chain,
                            file_attributes |-> Le(128, 4)])
            EXCEPT !.contexts = list, !.gap = IF padded THEN Pad8(n) ELSE 0]
Creates == {Creation(n, l, p) : n \in {0, 2, 8}, l \in Chains, p \in BOOLEAN}

(* QUERY_INFO: every class, and buffers around their lengths.              *)
QueryFor(f, type, class, room) ==
    Request("QUERY_INFO", [file_id |-> f, info_type |-> <<type>>,
                           file_information_class |-> <<class>>,
                           output_buffer_length |-> Le(room, 4)])
Queries ==
    {QueryFor(File, t, c, room) : t \in {1, 2}, c \in 1 .. 22 \cup {34},
                                  room \in {8, 24, 40, 56, 100, 101, 102}}
    \cup {QueryFor(File, t, 0, room) : t \in {0, 3, 4, 5}, room \in {59, 60, 61}}

Eight(k) == [i \in 1 .. 8 |-> 10 * k + i]
Info(name, dir) ==
    [name |-> name, end_of_file |-> Eight(1), allocation_size |-> Eight(2),
     creation_time |-> Eight(3), last_access_time |-> Eight(4), last_write_time |-> Eight(5),
     change_time |-> Eight(6), is_directory |-> dir]
MCInfos ==
    {Info(<<>>, TRUE), Info(Bytes(2), FALSE), [err |-> TRUE, status |-> STATUS_ACCESS_DENIED]}

(* SET_INFO with buffers that are whole, and ones that end early.          *)
Op(op, args) == [op |-> op, args |-> args]
SetOf(f, class, b, means) ==
    [Request("SET_INFO", [file_id |-> f, info_type |-> <<1>>, file_information_class |-> <<class>>,
                          buffer_length |-> Le(Len(b), 4), buffer |-> b])
        EXCEPT !.means = means]
TimesBuffer == Eight(1) \o Zeros(8) \o Ones(8) \o Eight(2) \o Zeros(8)
RenameBuffer(name) == <<1>> \o Zeros(15) \o Le(Len(name), 4) \o name
Meaning(class) ==
    CASE class = FILE_BASIC_INFORMATION ->
           <<TimesBuffer, Op("set_times", <<[to |-> Eight(1)], Keep, Keep, [to |-> Eight(2)]>>)>>
      [] class = FILE_END_OF_FILE_INFORMATION -> <<Eight(1), Op("truncate", <<Eight(1)>>)>>
      [] class = FILE_DISPOSITION_INFORMATION -> <<<<0>>, Op("delete_on_close", <<FALSE>>)>>
      [] class = FILE_RENAME_INFORMATION ->
           <<RenameBuffer(Bytes(4)), Op("rename", <<TRUE, Bytes(4)>>)>>
      [] class = FILE_ALLOCATION_INFORMATION -> <<Eight(1), Op("nothing", <<>>)>>
      [] OTHER -> <<<<>>, Nothing>>
(* Times need 36 of their 40 bytes, an allocation none.                    *)
Enough(class, b, k) ==
    \/ k = Len(b) \/ class = FILE_ALLOCATION_INFORMATION
    \/ class = FILE_BASIC_INFORMATION /\ k >= 36
Sets ==
    UNION {{SetOf(File, c, SubSeq(Meaning(c)[1], 1, k),
                  IF Enough(c, Meaning(c)[1], k) THEN Meaning(c)[2] ELSE Nothing) :
              k \in 0 .. Len(Meaning(c)[1])} : c \in {4, 10, 13, 19, 20, 21}}
    \cup {SetOf(File, 10, RenameBuffer(n), IF Len(n) % 2 = 0 THEN Op("rename", <<TRUE, n>>) ELSE Nothing) :
             n \in {<<>>, Bytes(3), Bytes(20), Bytes(40)}}
    \cup {[SetOf(File, 4, TimesBuffer, Nothing) EXCEPT !.m.info_type = <<t>>] : t \in {0, 2, 3}}

(* Requests on file f.                                                     *)
OnFile(f) ==
    {Request(c, [file_id |-> f]) : c \in {"CLOSE", "FLUSH", "CHANGE_NOTIFY", "OPLOCK_BREAK"}}
    \cup {Request("READ", [file_id |-> f, length |-> Le(300, 4)])}
    \cup {Request("WRITE", [file_id |-> f, length |-> Le(n, 4), data |-> Bytes(n)]) : n \in {1, 5}}
    \cup {Request("WRITE", [file_id |-> f])}
    \cup {Request("LOCK", [file_id |-> f, lock_count |-> Le(1, 2), locks |-> Bytes(24)])}
    \cup {Request("IOCTL", [file_id |-> f, ctl_code |-> c, input_count |-> Le(2, 4), input |-> Bytes(2)]) :
             c \in {VALIDATE_NEGOTIATE_INFO, DFS_GET_REFERRALS, <<24, 192, 17, 0>>}}
    \cup {Request("QUERY_DIRECTORY", [file_id |-> f, file_name_length |-> Le(2, 2), file_name |-> Bytes(2)])}
    \cup {QueryFor(f, InfoType.File, FILE_BASIC_INFORMATION, 300)}
    \cup {SetOf(f, FILE_DISPOSITION_INFORMATION, <<1>>, Op("delete_on_close", <<TRUE>>))}

Others ==
    {Request(c, Nothing) : c \in {"LOGOFF", "TREE_DISCONNECT", "CANCEL", "ECHO"}}
    \cup {Request("TREE_CONNECT", [path_length |-> Le(4, 2), path |-> Bytes(4)]),
          [Request("LOGOFF", Nothing) EXCEPT !.session = Zeros(8)]}

(* Compounds: CREATE and a request that leaves its ids open or names them. *)
After(r, related, signed, open) ==
    <<Creation(2, <<Query(1)>>, TRUE),
      [r EXCEPT !.related = related, !.signed = signed, !.session = IF open THEN Ones(8) ELSE @,
                !.tree = IF open THEN Ones(4) ELSE @]>>
Pairs ==
    {After(r, TRUE, s, TRUE) : r \in OnFile(Ones(16)), s \in BOOLEAN}
    \cup {After(r, rel, TRUE, FALSE) : r \in OnFile(File), rel \in BOOLEAN}

(* Signed compounds, with answers of 65 bytes and more, and one that logs  *)
(* off; one that goes on with the session it establishes.                  *)
Sign(r) == [r EXCEPT !.signed = TRUE]
Echo == Request("ECHO", Nothing)
Reading == Request("READ", [file_id |-> File, length |-> Le(300, 4)])
Leaving == Request("LOGOFF", Nothing)
LoggingOn == Setup(EncodeResp(Ntlm(3, 4)), Tok("resp", FALSE, Ntlm(3, 4)))
InSession(r) == [r EXCEPT !.related = TRUE, !.session = Ones(8)]
Chain ==
    {<<Sign(a), Sign(b)>> : a \in {Reading, Leaving, Creation(2, <<Query(1)>>, FALSE)},
                           b \in {Reading, Leaving, Echo}}
    \cup {<<Leaving, Sign(Reading)>>, <<Sign(Reading), Echo>>, <<Sign(Reading), InSession(Echo)>>}
    \cup {<<Sign(Echo), Sign(Reading), Sign(r)>> : r \in {Leaving, Echo}}
    \cup {<<LoggingOn, r>> : r \in {LoggingOn, InSession(Request("TREE_CONNECT",
                                  [path_length |-> Le(4, 2), path |-> Bytes(4)]))}}
MCSweepable == Chain \cup {<<Sign(Reading)>>}

(* Compounds that negotiate; a cut may drop the answer to a part that has  *)
(* been handled.                                                           *)
Validating == Request("IOCTL", [file_id |-> File, ctl_code |-> VALIDATE_NEGOTIATE_INFO])
Lost == <<Offer(<<770, 528>>), Echo>>
Renegotiations ==
    {Lost, <<Offer(<<785, 768>>), Validating>>, <<Validating, Offer(<<514>>)>>,
     <<Offer(<<514>>), Offer(<<1>>), Validating>>}

(* One of each kind, and a compound.                                       *)
MCCuttable ==
    {<<r>> : r \in {Offer(<<770, 514, 528>>), Creation(2, <<Other, Query(1)>>, TRUE),
                    Setup(EncodeResp(Ntlm(3, 4)), Tok("resp", FALSE, Ntlm(3, 4)))}
                   \cup OnFile(File) \cup Others}
    \cup {<<Creation(2, <<>>, FALSE),
            [Request("READ", [file_id |-> Ones(16)]) EXCEPT !.related = TRUE]>>, Lost}

MCCompounds ==
    {<<r>> : r \in Negotiates \cup Setups \cup Creates \cup OnFile(File) \cup Others
                   \cup Queries \cup Sets}
    \cup {<<[r EXCEPT !.signed = TRUE]>> : r \in OnFile(File)}
    \cup {<<Request("ECHO", Nothing), Request("CANCEL", Nothing)>>,
          <<Request("CANCEL", Nothing), Request("ECHO", Nothing)>>}
    \cup Pairs \cup Chain \cup Renegotiations \cup MCCuttable
MCSmb1Offers == SUBSET {"NT LM 0.12", "SMB 2.???", "SMB 2.002"}
MCBlobs == {<<>>, Bytes(1), Bytes(300)}
MCChallenges == {Bytes(n) : n \in {1, 93, 94, 130}}

(* Texts.  Bound: five pieces, the rare ones among the first three.        *)
MaxPieces == 5
Pieces == {<<"\\">>, <<"/">>, <<":">>, <<".">>, <<"a">>, <<"c", "O", "n">>,
           <<"$", "d", "a", "T", "a">>, <<"*">>}
Rare == {<<"c", "o", "m", "1">>, <<"L", "p", "t", "0">>, <<LoneSurrogate>>, <<"^_">>}
Wild == {<<c>> : c \in {"a", "B", ".", Star, One}}
Names == UNION {[1 .. n -> {"A", "b", "."}] : n \in 0 .. 4}

Type(Of, what) ==
    /\ focus = what /\ Len(typed) < MaxPieces
    /\ \E p \in Of : typed' = Append(typed, p)
    /\ UNCHANGED <<vars, focus>>
TypePath == Type(Pieces, "path")
TypeRare == Len(typed) < 3 /\ Type(Rare, "path")
TypePattern == Type(Wild, "pattern")

Message_(A) == focus = "exchange" /\ A /\ UNCHANGED <<focus, typed>>
MCInit == Init /\ focus \in {"exchange", "path", "pattern"} /\ typed = <<>>
MCNext ==
    \/ TypePath \/ TypeRare \/ TypePattern
    \/ Message_(Send) \/ Message_(Cut) \/ Message_(Begin) \/ Message_(Take) \/ Message_(Refuse)
    \/ Message_(Malformed) \/ Message_(Fails) \/ Message_(Cancel) \/ Message_(Negotiate)
    \/ Message_(Smb1Negotiate) \/ Message_(SessionSetup) \/ Message_(FollowUp)
    \/ (\E id \in {SessionId, PendingId} : Message_(Sweep(id)))
    \/ Message_(Logoff) \/ Message_(Create) \/ Message_(Read)
    \/ Message_(QueryDirectory) \/ Message_(QueryInfo) \/ Message_(SetInfo) \/ Message_(Ioctl) \/ Message_(TreeConnect)
    \/ Message_(FileDone) \/ Message_(Bare) \/ Message_(ChangeNotify)
    \/ Message_(OplockBreakAck) \/ Message_(Finish) \/ Message_(Again)

Text == FlattenSeq(typed)

(* Every text typed is a path that is trusted, displayed and joined as it  *)
(* should be, or refused, with its stream where it should be kept          *)
(* (PathTrusted, StreamsBelowHost, DisplayParses, JoinAgrees, the last     *)
(* with a directory opened with a stream), and as a pattern matches what   *)
(* it should (MatcherAgrees).                                              *)
NamesAgree ==
    /\ focus = "path" =>
          /\ PathTrusted(Text) /\ StreamsBelowHost(Text) /\ DisplayParses(Text)
          /\ JoinAgrees(Text, <<"d">>, <<"s">>)
    /\ focus = "pattern" => MatcherAgrees(Text, Names)
=============================================================================
