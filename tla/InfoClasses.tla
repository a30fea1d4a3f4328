----------------------------- MODULE InfoClasses -----------------------------
(***************************************************************************)
(* The information classes of QUERY_INFO and SET_INFO (info_class.rs and   *)
(* the two handlers).  A FileInfo has its times, sizes and its name as     *)
(* bytes.                                                                  *)
(***************************************************************************)
EXTENDS Messages

FILE_BASIC_INFORMATION == 4
FILE_STANDARD_INFORMATION == 5
FILE_INTERNAL_INFORMATION == 6
FILE_EA_INFORMATION == 7
FILE_ACCESS_INFORMATION == 8
FILE_NAME_INFORMATION == 9
FILE_RENAME_INFORMATION == 10
FILE_DISPOSITION_INFORMATION == 13
FILE_POSITION_INFORMATION == 14
FILE_FULL_EA_INFORMATION == 15
FILE_MODE_INFORMATION == 16
FILE_ALIGNMENT_INFORMATION == 17
FILE_ALL_INFORMATION == 18
FILE_ALLOCATION_INFORMATION == 19
FILE_END_OF_FILE_INFORMATION == 20
FILE_STREAM_INFORMATION == 22
FILE_NETWORK_OPEN_INFORMATION == 34

FS_VOLUME_INFORMATION == 1
FS_SIZE_INFORMATION == 3
FS_DEVICE_INFORMATION == 4
FS_ATTRIBUTE_INFORMATION == 5
FS_FULL_SIZE_INFORMATION == 7

InfoType == [File |-> 1, FileSystem |-> 2, Security |-> 3, Quota |-> 4]

STATUS_SUCCESS == Zeros(4)
STATUS_INVALID_INFO_CLASS == <<3, 0, 0, 192>>
STATUS_INFO_LENGTH_MISMATCH == <<4, 0, 0, 192>>
STATUS_OBJECT_NAME_INVALID == <<51, 0, 0, 192>>
STATUS_NO_EAS_ON_FILE == <<82, 0, 0, 192>>
STATUS_NOT_SUPPORTED == <<187, 0, 0, 192>>

-----------------------------------------------------------------------------
(* Files.                                                                  *)

FILE_ALL_ACCESS == <<255, 1, 31, 0>>

attributes(info) == Le(IF info.is_directory THEN 16 ELSE 128, 4)

Times(info) ==
    info.creation_time \o info.last_access_time \o info.last_write_time \o info.change_time

encode_file_basic_information(info) == Times(info) \o attributes(info) \o Zeros(4)

encode_file_standard_information(info) ==
    info.allocation_size \o info.end_of_file \o Le(1, 4)
        \o <<0, IF info.is_directory THEN 1 ELSE 0>> \o Zeros(2)

encode_file_name_information(info) == Le(Len(info.name), 4) \o info.name

encode_file_network_open_information(info) ==
    Times(info) \o info.allocation_size \o info.end_of_file \o attributes(info) \o Zeros(4)

(* The name of the only stream has seven characters.                       *)
DataStream == [i \in 1 .. 14 |-> 100 + i]

encode_file_stream_information(info) ==
    IF info.is_directory THEN <<>>
    ELSE Zeros(4) \o Le(Len(DataStream), 4) \o info.end_of_file \o info.allocation_size
            \o DataStream

(* Basic, standard, internal, EA, access, position, mode, alignment, name. *)
AllParts(info, file_index) ==
    encode_file_basic_information(info) \o encode_file_standard_information(info)
        \o file_index \o Zeros(4) \o FILE_ALL_ACCESS \o Zeros(8) \o Zeros(4) \o Zeros(4)
        \o encode_file_name_information(info)

(* Mutant: an empty name is not made up for.                               *)
encode_file_all_information_Short(info, file_index) == AllParts(info, file_index)

(* At least 101 bytes, as a name of one character would give.              *)
encode_file_all_information(info, file_index) ==
    LET out == AllParts(info, file_index) IN IF Len(out) < 101 THEN Append(out, 0) ELSE out

-----------------------------------------------------------------------------
(* The file system, and a descriptor that allows everyone everything.      *)

(* 2^39 and 2^40.                                                          *)
HalfUnits == Zeros(4) \o <<128, 0, 0, 0>>
TotalUnits == Zeros(5) \o <<1, 0, 0>>
Geometry == Le(1, 4) \o Le(4096, 4)

(* The label has ten characters, the name of the file system four.         *)
Label == [i \in 1 .. 20 |-> i]
FsName == [i \in 1 .. 8 |-> i]

encode_fs_volume_information(creation_time) ==
    creation_time \o <<190, 186, 254, 202>> \o Le(Len(Label), 4) \o Zeros(2) \o Label

encode_fs_attribute_information(named_streams) ==
    <<31, 0, IF named_streams THEN 196 ELSE 192, 0>> \o Le(255, 4) \o Le(Len(FsName), 4) \o FsName

FsInformation(creation_time, named_streams) ==
    FS_VOLUME_INFORMATION :> encode_fs_volume_information(creation_time)
    @@ FS_SIZE_INFORMATION :> TotalUnits \o HalfUnits \o Geometry
    @@ FS_DEVICE_INFORMATION :> Le(7, 4) \o Le(16, 4)
    @@ FS_ATTRIBUTE_INFORMATION :> encode_fs_attribute_information(named_streams)
    @@ FS_FULL_SIZE_INFORMATION :> TotalUnits \o HalfUnits \o HalfUnits \o Geometry

Everyone == <<1, 1, 0, 0, 0, 0, 0, 1, 0, 0, 0, 0>>

encode_minimal_security_descriptor ==
    LET ace == Zeros(2) \o Le(8 + Len(Everyone), 2) \o FILE_ALL_ACCESS \o Everyone
        dacl == <<2, 0>> \o Le(8 + Len(ace), 2) \o Le(1, 2) \o Zeros(2) \o ace
    IN  <<1, 0, 4, 128>> \o Le(20, 4) \o Zeros(8) \o Le(20 + Len(Everyone), 4)
            \o Everyone \o dacl

-----------------------------------------------------------------------------
(* QUERY_INFO.                                                             *)

FileInformation(info, file_index) ==
    FILE_BASIC_INFORMATION :> encode_file_basic_information(info)
    @@ FILE_STANDARD_INFORMATION :> encode_file_standard_information(info)
    @@ FILE_INTERNAL_INFORMATION :> file_index
    @@ FILE_EA_INFORMATION :> Zeros(4)
    @@ FILE_ACCESS_INFORMATION :> FILE_ALL_ACCESS
    @@ FILE_POSITION_INFORMATION :> Zeros(8)
    @@ FILE_MODE_INFORMATION :> Zeros(4)
    @@ FILE_ALIGNMENT_INFORMATION :> Zeros(4)
    @@ FILE_NAME_INFORMATION :> encode_file_name_information(info)
    @@ FILE_ALL_INFORMATION :> encode_file_all_information(info, file_index)
    @@ FILE_NETWORK_OPEN_INFORMATION :> encode_file_network_open_information(info)
    @@ FILE_STREAM_INFORMATION :> encode_file_stream_information(info)

Status(s) == [status |-> s]
Buffer(b) == [status |-> STATUS_SUCCESS, buffer |-> b]

(* The entry for class c of a table, if it has one.                        *)
ClassOf(table, c) ==
    IF c \in DOMAIN table THEN Buffer(table[c]) ELSE Status(STATUS_INVALID_INFO_CLASS)

(* info: what stat returned, or the status it failed with.                 *)
Information(type, class, info, file_index, named_streams) ==
    CASE type = InfoType.File ->
           IF Failed(info) THEN Status(info.status)
           ELSE IF class = FILE_FULL_EA_INFORMATION THEN Status(STATUS_NO_EAS_ON_FILE)
           ELSE ClassOf(FileInformation(info, file_index), class)
      [] type = InfoType.FileSystem ->
           ClassOf(FsInformation(IF Failed(info) THEN Zeros(8) ELSE info.creation_time,
                                 named_streams), class)
      [] type = InfoType.Security -> Buffer(encode_minimal_security_descriptor)
      [] type = InfoType.Quota -> Status(STATUS_NOT_SUPPORTED)
      [] OTHER -> Status(STATUS_INVALID_INFO_CLASS)

(* A buffer the client has no room for is not sent.                        *)
QueryInfoResult(m, info, file_index, named_streams) ==
    LET r == Information(Num(m.info_type), Num(m.file_information_class), info, file_index,
                         named_streams)
    IN  IF r.status # STATUS_SUCCESS THEN r
        ELSE IF Len(r.buffer) > Num(m.output_buffer_length)
        THEN Status(STATUS_INFO_LENGTH_MISMATCH) ELSE r

-----------------------------------------------------------------------------
(* SET_INFO: what the handler calls.                                       *)

Keep == [keep |-> TRUE]
to_some(v) == IF v \in {Zeros(8), [i \in 1 .. 8 |-> 255]} THEN Keep ELSE [to |-> v]

Call(op, args) == [status |-> STATUS_SUCCESS, call |-> [op |-> op, args |-> args]]

(* Mutant: the length counts the fixed part, too.                          *)
RenameCall_Whole(b) ==
    LET name == Slice(b, 20, Num(SubSeq(b, 17, 20)) - 20)
    IN  IF Len(b) < 20 \/ Num(SubSeq(b, 17, 20)) < 20 THEN Status(STATUS_INFO_LENGTH_MISMATCH)
        ELSE IF Failed(name) THEN Status(STATUS_INFO_LENGTH_MISMATCH)
        ELSE Call("rename", <<b[1] # 0, name.bytes>>)

(* ReplaceIfExists, RootDirectory (not looked at), length of the name,     *)
(* name.  Which names make a path is in Paths.                             *)
RenameCall(b) ==
    LET name == Slice(b, 20, Num(SubSeq(b, 17, 20)))
    IN  IF Len(b) < 20 THEN Status(STATUS_INFO_LENGTH_MISMATCH)
        ELSE IF Failed(name) THEN Status(STATUS_INFO_LENGTH_MISMATCH)
        ELSE IF Len(name.bytes) % 2 # 0 THEN Status(STATUS_OBJECT_NAME_INVALID)
        ELSE Call("rename", <<b[1] # 0, name.bytes>>)

(* The least length of the buffer of a class.                              *)
LeastLength ==
    FILE_BASIC_INFORMATION :> 36 @@ FILE_END_OF_FILE_INFORMATION :> 8
    @@ FILE_DISPOSITION_INFORMATION :> 1 @@ FILE_RENAME_INFORMATION :> 20
    @@ FILE_ALLOCATION_INFORMATION :> 0

SetInfoCall(m) ==
    LET b == m.buffer
        class == Num(m.file_information_class)
    IN  IF Num(m.info_type) \notin Range(InfoType) THEN Status(STATUS_INVALID_INFO_CLASS)
        ELSE IF Num(m.info_type) # InfoType.File THEN Status(STATUS_NOT_SUPPORTED)
        ELSE IF class \notin DOMAIN LeastLength THEN Status(STATUS_NOT_SUPPORTED)
        ELSE IF Len(b) < LeastLength[class] THEN Status(STATUS_INFO_LENGTH_MISMATCH)
        ELSE CASE class = FILE_BASIC_INFORMATION ->
                    Call("set_times",
                         [i \in 1 .. 4 |-> to_some(SubSeq(b, 8 * i - 7, 8 * i))])
               [] class = FILE_END_OF_FILE_INFORMATION -> Call("truncate", <<SubSeq(b, 1, 8)>>)
               [] class = FILE_DISPOSITION_INFORMATION -> Call("delete_on_close", <<b[1] # 0>>)
               [] class = FILE_RENAME_INFORMATION -> RenameCall(b)
               [] class = FILE_ALLOCATION_INFORMATION -> Call("nothing", <<>>)
=============================================================================
