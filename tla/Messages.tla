------------------------------ MODULE Messages ------------------------------
(***************************************************************************)
(* SMB2 messages on the wire: proto/framing.rs, proto/header.rs and        *)
(* proto/messages/.  A layout is the sequence of a struct's fields as      *)
(* binrw reads and writes them: <<name, width>>, or for a field of counted *)
(* elements <<name, width of one, field with the count, least count>>.     *)
(* The value of a field is its bytes.                                      *)
(*                                                                         *)
(* parse reads a counted field right after the fields before it; the       *)
(* offset a message states for it is not looked at.                        *)
(***************************************************************************)
EXTENDS Bytes

IsCounted(x) == Len(x) = 4

(* BinRead::read: one field after the other, Err at the first one the      *)
(* buffer is too short for; what follows the last is ignored.              *)
Parse(layout, b) ==
    LET Count(m, x) == Max({x[4], Num(m[x[3]])})
        Width(m, x) == IF IsCounted(x) THEN x[2] * Count(m, x) ELSE x[2]
        Field(r, x) ==
            IF Failed(r) THEN Err
            ELSE LET v == Slice(b, r.pos, Width(r.m, x))
                 IN  IF Failed(v) THEN Err
                     ELSE [pos |-> r.pos + Width(r.m, x),
                           m |-> [f \in DOMAIN r.m \cup {x[1]} |->
                                     IF f = x[1] THEN v.bytes ELSE r.m[f]]]
    IN  FoldLeft(Field, [pos |-> 0, m |-> [f \in {} |-> <<>>]], layout)

(* BinWrite::write.                                                        *)
WriteTo(layout, m) == FlattenSeq([i \in DOMAIN layout |-> m[layout[i][1]]])

(* Bytes before the counted fields.                                        *)
FixedLen(layout) ==
    FoldLeft(LAMBDA n, x : IF IsCounted(x) THEN n ELSE n + x[2], 0, layout)

(* A message with the given fields and zeros in the others.                *)
Message(layout, given) ==
    [f \in {layout[i][1] : i \in DOMAIN layout} |->
        IF f \in DOMAIN given THEN given[f]
        ELSE LET x == CHOOSE y \in Range(layout) : y[1] = f
             IN  Zeros(IF IsCounted(x) THEN x[2] * x[4] ELSE x[2])]

-----------------------------------------------------------------------------
(* Frames.                                                                 *)

FRAME_HEADER_LEN == 4

encode_frame(payload) ==
    <<0, (Len(payload) \div 65536) % 256, (Len(payload) \div 256) % 256, Len(payload) % 256>>
        \o payload

decode_frame_header(b) ==
    IF b[1] # 0 THEN Err ELSE [len |-> b[2] * 65536 + b[3] * 256 + b[4]]

-----------------------------------------------------------------------------
(* The header.                                                             *)

SMB2_HEADER_LEN == 64
SMB2_MAGIC == <<254, 83, 77, 66>>

(* Command codes.                                                          *)
Command == [NEGOTIATE |-> 0, SESSION_SETUP |-> 1, LOGOFF |-> 2, TREE_CONNECT |-> 3,
            TREE_DISCONNECT |-> 4, CREATE |-> 5, CLOSE |-> 6, FLUSH |-> 7, READ |-> 8,
            WRITE |-> 9, LOCK |-> 10, IOCTL |-> 11, CANCEL |-> 12, ECHO |-> 13,
            QUERY_DIRECTORY |-> 14, CHANGE_NOTIFY |-> 15, QUERY_INFO |-> 16,
            SET_INFO |-> 17, OPLOCK_BREAK |-> 18]

RawHeader == <<
    <<"protocol_id", 4>>, <<"structure_size", 2>>, <<"credit_charge", 2>>,
    <<"channel_sequence_status", 4>>, <<"command", 2>>, <<"credit_request_response", 2>>,
    <<"flags", 4>>, <<"next_command", 4>>, <<"message_id", 8>>, <<"tail", 8>>,
    <<"session_id", 8>>, <<"signature", 16>> >>

(* Flags, in the first byte of the field.                                  *)
SERVER_TO_REDIR == 1
ASYNC_COMMAND == 2
Flag(h, bit) == (h.flags[1] \div bit) % 2 = 1

(* tree_id() of a header: its tail is reserved and TreeId, or AsyncId.     *)
TreeId(h) == IF Flag(h, ASYNC_COMMAND) THEN Zeros(4) ELSE SubSeq(h.tail, 5, 8)

(* Smb2Header::parse and write.                                            *)
ParseHeader(b) ==
    LET r == Parse(RawHeader, b)
    IN  IF Failed(r) THEN Err
        ELSE IF r.m.protocol_id # SMB2_MAGIC \/ Num(r.m.structure_size) # 64
                  \/ Num(r.m.command) \notin Range(Command) THEN Err
        ELSE r

Header(given) ==
    LET h == Message(RawHeader, given)
    IN  [h EXCEPT !.protocol_id = SMB2_MAGIC, !.structure_size = Le(64, 2)]

-----------------------------------------------------------------------------
(* Requests.                                                               *)

NegotiateRequest == <<
    <<"structure_size", 2>>, <<"dialect_count", 2>>, <<"security_mode", 2>>,
    <<"reserved", 2>>, <<"capabilities", 4>>, <<"client_guid", 16>>,
    <<"negotiate_context_offset_or_client_start_time", 8>>,
    <<"dialects", 2, "dialect_count", 0>> >>

SessionSetupRequest == <<
    <<"structure_size", 2>>, <<"flags", 1>>, <<"security_mode", 1>>, <<"capabilities", 4>>,
    <<"channel", 4>>, <<"security_buffer_offset", 2>>, <<"security_buffer_length", 2>>,
    <<"previous_session_id", 8>>, <<"security_buffer", 1, "security_buffer_length", 0>> >>

TreeConnectRequest == <<
    <<"structure_size", 2>>, <<"flags", 2>>, <<"path_offset", 2>>, <<"path_length", 2>>,
    <<"path", 1, "path_length", 0>> >>

CreateRequest == <<
    <<"structure_size", 2>>, <<"security_flags", 1>>, <<"requested_oplock_level", 1>>,
    <<"impersonation_level", 4>>, <<"smb_create_flags", 8>>, <<"reserved", 8>>,
    <<"desired_access", 4>>, <<"file_attributes", 4>>, <<"share_access", 4>>,
    <<"create_disposition", 4>>, <<"create_options", 4>>, <<"name_offset", 2>>,
    <<"name_length", 2>>, <<"create_contexts_offset", 4>>, <<"create_contexts_length", 4>>,
    <<"name", 1, "name_length", 0>>, <<"create_contexts", 1, "create_contexts_length", 0>> >>

CloseRequest == <<
    <<"structure_size", 2>>, <<"flags", 2>>, <<"reserved", 4>>, <<"file_id", 16>> >>

FlushRequest == <<
    <<"structure_size", 2>>, <<"reserved1", 2>>, <<"reserved2", 4>>, <<"file_id", 16>> >>

ReadRequest == <<
    <<"structure_size", 2>>, <<"padding", 1>>, <<"flags", 1>>, <<"length", 4>>,
    <<"offset", 8>>, <<"file_id", 16>>, <<"minimum_count", 4>>, <<"channel", 4>>,
    <<"remaining_bytes", 4>>, <<"read_channel_info_offset", 2>>,
    <<"read_channel_info_length", 2>>, <<"buffer", 1, "read_channel_info_length", 1>> >>

WriteRequest == <<
    <<"structure_size", 2>>, <<"data_offset", 2>>, <<"length", 4>>, <<"offset", 8>>,
    <<"file_id", 16>>, <<"channel", 4>>, <<"remaining_bytes", 4>>,
    <<"write_channel_info_offset", 2>>, <<"write_channel_info_length", 2>>, <<"flags", 4>>,
    <<"data", 1, "length", 1>> >>

LockRequest == <<
    <<"structure_size", 2>>, <<"lock_count", 2>>, <<"lock_sequence", 4>>, <<"file_id", 16>>,
    <<"locks", 24, "lock_count", 0>> >>

IoctlRequest == <<
    <<"structure_size", 2>>, <<"reserved", 2>>, <<"ctl_code", 4>>, <<"file_id", 16>>,
    <<"input_offset", 4>>, <<"input_count", 4>>, <<"max_input_response", 4>>,
    <<"output_offset", 4>>, <<"output_count", 4>>, <<"max_output_response", 4>>,
    <<"flags", 4>>, <<"reserved2", 4>>, <<"input", 1, "input_count", 0>> >>

QueryDirectoryRequest == <<
    <<"structure_size", 2>>, <<"file_information_class", 1>>, <<"flags", 1>>,
    <<"file_index", 4>>, <<"file_id", 16>>, <<"file_name_offset", 2>>,
    <<"file_name_length", 2>>, <<"output_buffer_length", 4>>,
    <<"file_name", 1, "file_name_length", 0>> >>

ChangeNotifyRequest == <<
    <<"structure_size", 2>>, <<"flags", 2>>, <<"output_buffer_length", 4>>,
    <<"file_id", 16>>, <<"completion_filter", 4>>, <<"reserved", 4>> >>

QueryInfoRequest == <<
    <<"structure_size", 2>>, <<"info_type", 1>>, <<"file_information_class", 1>>,
    <<"output_buffer_length", 4>>, <<"input_buffer_offset", 2>>, <<"reserved", 2>>,
    <<"input_buffer_length", 4>>, <<"additional_information", 4>>, <<"flags", 4>>,
    <<"file_id", 16>>, <<"input_buffer", 1, "input_buffer_length", 0>> >>

SetInfoRequest == <<
    <<"structure_size", 2>>, <<"info_type", 1>>, <<"file_information_class", 1>>,
    <<"buffer_length", 4>>, <<"buffer_offset", 2>>, <<"reserved", 2>>,
    <<"additional_information", 4>>, <<"file_id", 16>>,
    <<"buffer", 1, "buffer_length", 0>> >>

(* OPLOCK_BREAK: acknowledgement, notification and response.               *)
OplockBreak == <<
    <<"structure_size", 2>>, <<"oplock_level", 1>>, <<"reserved", 1>>, <<"reserved2", 4>>,
    <<"file_id", 16>> >>

(* LOGOFF, TREE_DISCONNECT, ECHO and CANCEL, and the responses to LOGOFF,  *)
(* TREE_DISCONNECT, FLUSH, LOCK and ECHO.                                  *)
Plain == << <<"structure_size", 2>>, <<"reserved", 2>> >>

-----------------------------------------------------------------------------
(* Responses.                                                              *)

ErrorResponse == <<
    <<"structure_size", 2>>, <<"error_context_count", 1>>, <<"reserved", 1>>,
    <<"byte_count", 4>>, <<"error_data", 1, "byte_count", 1>> >>

NegotiateResponse == <<
    <<"structure_size", 2>>, <<"security_mode", 2>>, <<"dialect_revision", 2>>,
    <<"negotiate_context_count", 2>>, <<"server_guid", 16>>, <<"capabilities", 4>>,
    <<"max_transact_size", 4>>, <<"max_read_size", 4>>, <<"max_write_size", 4>>,
    <<"system_time", 8>>, <<"server_start_time", 8>>, <<"security_buffer_offset", 2>>,
    <<"security_buffer_length", 2>>, <<"negotiate_context_offset", 4>>,
    <<"security_buffer", 1, "security_buffer_length", 0>> >>

SessionSetupResponse == <<
    <<"structure_size", 2>>, <<"session_flags", 2>>, <<"security_buffer_offset", 2>>,
    <<"security_buffer_length", 2>>, <<"security_buffer", 1, "security_buffer_length", 0>> >>

TreeConnectResponse == <<
    <<"structure_size", 2>>, <<"share_type", 1>>, <<"reserved", 1>>, <<"share_flags", 4>>,
    <<"capabilities", 4>>, <<"maximal_access", 4>> >>

CreateResponse == <<
    <<"structure_size", 2>>, <<"oplock_level", 1>>, <<"flags", 1>>, <<"create_action", 4>>,
    <<"creation_time", 8>>, <<"last_access_time", 8>>, <<"last_write_time", 8>>,
    <<"change_time", 8>>, <<"allocation_size", 8>>, <<"end_of_file", 8>>,
    <<"file_attributes", 4>>, <<"reserved2", 4>>, <<"file_id", 16>>,
    <<"create_contexts_offset", 4>>, <<"create_contexts_length", 4>>,
    <<"create_contexts", 1, "create_contexts_length", 0>> >>

CloseResponse == <<
    <<"structure_size", 2>>, <<"flags", 2>>, <<"reserved", 4>>, <<"creation_time", 8>>,
    <<"last_access_time", 8>>, <<"last_write_time", 8>>, <<"change_time", 8>>,
    <<"allocation_size", 8>>, <<"end_of_file", 8>>, <<"file_attributes", 4>> >>

ReadResponse == <<
    <<"structure_size", 2>>, <<"data_offset", 1>>, <<"reserved", 1>>, <<"data_length", 4>>,
    <<"data_remaining", 4>>, <<"flags", 4>>, <<"data", 1, "data_length", 0>> >>

WriteResponse == <<
    <<"structure_size", 2>>, <<"reserved", 2>>, <<"count", 4>>, <<"remaining", 4>>,
    <<"write_channel_info_offset", 2>>, <<"write_channel_info_length", 2>> >>

IoctlResponse == <<
    <<"structure_size", 2>>, <<"reserved", 2>>, <<"ctl_code", 4>>, <<"file_id", 16>>,
    <<"input_offset", 4>>, <<"input_count", 4>>, <<"output_offset", 4>>,
    <<"output_count", 4>>, <<"flags", 4>>, <<"reserved2", 4>>,
    <<"output", 1, "output_count", 0>> >>

(* QUERY_DIRECTORY, QUERY_INFO and CHANGE_NOTIFY.                          *)
BufferResponse == <<
    <<"structure_size", 2>>, <<"output_buffer_offset", 2>>, <<"output_buffer_length", 4>>,
    <<"buffer", 1, "output_buffer_length", 0>> >>

SetInfoResponse == << <<"structure_size", 2>> >>

-----------------------------------------------------------------------------
(* Contexts.                                                               *)

(* Mutant: Next counted from the end of the entry's header.                *)
NextEntry_FromHeader(at, next) == at + 16 + next

(* Where the entry after the one at position at starts.                    *)
NextEntry(at, next) == at + next

(* CreateContext::parse_chain: the entries of a chain, each [name, data],  *)
(* found by Next from the start of the one before.                         *)
parse_chain(chain) ==
    LET U(b, at, w) == Num(SubSeq(b, at + 1, at + w))
        Entry(e) ==
            LET name == Slice(e, U(e, 4, 2), U(e, 6, 2))
                data == IF U(e, 12, 4) = 0 THEN [bytes |-> <<>>]
                        ELSE Slice(e, U(e, 10, 2), U(e, 12, 4))
            IN  IF Len(e) < 16 THEN Err
                ELSE IF Failed(name) \/ Failed(data) THEN Err
                ELSE [name |-> name.bytes, data |-> data.bytes]
        from[at \in 0 .. Len(chain)] ==
            LET e == SubSeq(chain, at + 1, Len(chain))
            IN  IF Failed(Entry(e)) THEN <<Err>>
                ELSE IF U(e, 0, 4) = 0 THEN <<Entry(e)>>
                ELSE IF NextEntry(at, U(e, 0, 4)) > Len(chain) THEN <<Err>>
                ELSE <<Entry(e)>> \o from[NextEntry(at, U(e, 0, 4))]
    IN  IF chain = <<>> THEN <<>> ELSE from[0]

(* encode_chain: entries, names' and data's, on multiples of 8.            *)
encode_chain(list) ==
    LET Padded(b) == b \o Zeros(Pad8(Len(b)))
        Body(c) == Padded(Zeros(16) \o c.name) \o c.data
        Next(i) == IF i = Len(list) THEN 0 ELSE Len(Padded(Body(list[i])))
        Entry(i) ==
            LET c == list[i]
                named == Padded(Zeros(16) \o c.name)
            IN  Le(Next(i), 4) \o Le(16, 2) \o Le(Len(c.name), 2) \o Zeros(2)
                  \o Le(Len(named), 2) \o Le(Len(c.data), 4)
                  \o SubSeq(Body(c), 17, Len(Body(c)))
    IN  FlattenSeq([i \in DOMAIN list |-> IF i < Len(list) THEN Padded(Entry(i)) ELSE Entry(i)])

NegotiateContext == <<
    <<"context_type", 2>>, <<"data_length", 2>>, <<"reserved", 4>>,
    <<"data", 1, "data_length", 0>> >>

PreauthIntegrityCapabilities == <<
    <<"hash_algorithm_count", 2>>, <<"salt_length", 2>>,
    <<"hash_algorithms", 2, "hash_algorithm_count", 0>>, <<"salt", 1, "salt_length", 0>> >>

SigningCapabilities == <<
    <<"signing_algorithm_count", 2>>, <<"signing_algorithms", 2, "signing_algorithm_count", 0>> >>

(* Mutant: entries one right after the other.                              *)
encode_list_Packed(list) == FlattenSeq([i \in DOMAIN list |-> WriteTo(NegotiateContext, list[i])])

(* NegotiateContext::encode_list and parse_list: entries on multiples of 8 *)
(* from the start of the list.                                             *)
encode_list(list) ==
    FoldLeft(LAMBDA out, c : out \o Zeros(Pad8(Len(out))) \o WriteTo(NegotiateContext, c),
             <<>>, list)

parse_list(b, count) ==
    LET One(r, i) ==
            LET at == r.pos + Pad8(r.pos)
                c == Parse(NegotiateContext, SubSeq(b, at + 1, Len(b)))
            IN  IF Failed(r) THEN Err
                ELSE IF Failed(c) THEN Err
                ELSE [pos |-> at + c.pos, list |-> Append(r.list, c.m)]
    IN  FoldLeft(One, [pos |-> 0, list |-> <<>>], [i \in 1 .. count |-> i])
=============================================================================
