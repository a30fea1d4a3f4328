------------------------------- MODULE LocalFs -------------------------------
(***************************************************************************)
(* LocalFsBackend (fs/local.rs): open, unlink and rename as the sequences  *)
(* of system calls they are, one call per step, so that the calls of       *)
(* several clients interleave.                                             *)
(*                                                                         *)
(* The share is one directory.  entries gives the inode of a name (0: no   *)
(* entry); streams is the directory .smb-streams, with one stream per name *)
(* of a host file.  Directories have no entries of their own, so removing  *)
(* or replacing one never fails for being non-empty.  Contents and times   *)
(* are not kept; last says what the latest step has changed.  The file     *)
(* system itself is external.                                              *)
(*                                                                         *)
(* A client has at most one file open and one backend call in progress,    *)
(* call[c]; fd[c] is the descriptor in its handle, and keeps the inode     *)
(* until the request that closed it is over.                               *)
(***************************************************************************)
EXTENDS Naturals

CONSTANTS
    Clients,
    Names,      \* names in the share's root
    NoName,     \* the path of no call and of no Open
    Dirs, Files   \* bound: the inodes of the file system, by kind

ASSUME LocalFsAssumption ==
    /\ Clients # {}
    /\ NoName \notin Names
    /\ Dirs \subseteq Nat \ {0} /\ Files \subseteq Nat \ {0}
    /\ Dirs \cap Files = {}

VARIABLES
    read_only,                 \* LocalFsBackend.read_only; never changes
    entries, streams,          \* the file system
    fd,                        \* LocalHandle of every client
    call,                      \* backend call of every client
    moved,                     \* history: another client has moved, replaced
                               \* or removed the file fd[c] refers to
    last                       \* history: what the latest step changed

Inodes == Dirs \cup Files
Intents == {"Open", "Create", "OpenOrCreate", "OverwriteOrCreate", "Truncate"}
Creating == {"Create", "OpenOrCreate", "OverwriteOrCreate"}

NoFd == [ino |-> 0, var |-> "none", writable |-> FALSE]
Fds == [ino : Inodes \cup {0}, var : {"none", "File", "Dir"}, writable : BOOLEAN]

OpenOptions == [path : Names, stream : BOOLEAN, intent : Intents,
                write : BOOLEAN, directory : BOOLEAN, non_directory : BOOLEAN,
                delete_on_close : BOOLEAN]

NoOptions == [path |-> NoName, stream |-> FALSE, intent |-> "Open",
              write |-> FALSE, directory |-> FALSE, non_directory |-> FALSE,
              delete_on_close |-> FALSE]

(* made: history, the inode the call has created.                          *)
NoCall == [at |-> "idle", opts |-> NoOptions, to |-> NoName,
           to_stream |-> FALSE, made |-> 0]

Nothing == [by |-> CHOOSE c \in Clients : TRUE, ino |-> 0, what |-> "none"]

LocalFsTypeOK ==
    /\ read_only \in BOOLEAN
    /\ entries \in [Names -> Inodes \cup {0}]
    /\ streams \in [Names -> Files \cup {0}]
    /\ fd \in [Clients -> Fds]
    /\ call \in [Clients ->
                   [at : {"idle", "exists", "mkdir", "opendir", "stat", "open",
                          "stream_stat", "stream_open", "rm_stat", "rm_dir",
                          "rm_file", "rename_check", "rename", "ok", "err"},
                    opts : OpenOptions \cup
                             [path : Names \cup {NoName}, stream : BOOLEAN,
                              intent : {"Open"}, write : {FALSE},
                              directory : {FALSE}, non_directory : {FALSE},
                              delete_on_close : {FALSE}],
                    to : Names \cup {NoName},
                    to_stream : BOOLEAN,
                    made : Inodes \cup {0}]]
    /\ moved \in [Clients -> BOOLEAN]
    /\ last \in [by : Clients, ino : Inodes \cup {0},
                 what : {"none", "create", "data", "times", "rename",
                         "unlink"}]

LocalFsInit ==
    /\ read_only \in BOOLEAN
    /\ entries \in [Names -> Inodes \cup {0}]
    /\ \A m, n \in Names : entries[m] = entries[n] => m = n \/ entries[m] = 0
    /\ streams = [n \in Names |-> 0]
    /\ fd = [c \in Clients |-> NoFd]
    /\ call = [c \in Clients |-> NoCall]
    /\ moved = [c \in Clients |-> FALSE]
    /\ last = Nothing

-----------------------------------------------------------------------------
IsDir(n) == entries[n] \in Dirs
IsFile(n) == entries[n] \in Files

(* An inode of the given kind nobody refers to; 0 if there is none, and    *)
(* the file system is full.                                                *)
FreeInode(kind) ==
    LET used == {entries[n] : n \in Names} \cup {streams[n] : n \in Names}
                  \cup {fd[c].ino : c \in Clients} \cup {call[c].made : c \in Clients}
        free == kind \ used
    IN  IF free = {} THEN 0 ELSE CHOOSE i \in free : TRUE

At(c, at) == call[c].at = at
Opts(c) == call[c].opts
Path(c) == call[c].opts.path

Goto(c, at) == call' = [call EXCEPT ![c].at = at]

Did(c, what, i) == last' = [by |-> c, what |-> what, ino |-> i]
DidNothing == last' = Nothing

(* The names of i.                                                         *)
Homes(e, i) == {n \in Names : e[n] = i}

(* The step of c has changed the entries: whose file has moved?            *)
TrackMoves(c, e) ==
    moved' = [d \in Clients |->
                moved[d] \/ (/\ d # c
                             /\ fd[d].ino # 0
                             /\ Homes(e, fd[d].ino) # Homes(entries, fd[d].ino))]

KeepFs == UNCHANGED <<entries, streams>>

Fail(c) == Goto(c, "err") /\ KeepFs /\ DidNothing /\ UNCHANGED <<fd, moved>>

Proceed(c, at) == Goto(c, at) /\ KeepFs /\ DidNothing /\ UNCHANGED <<fd, moved>>

(* The call has opened inode i: the client's handle.                       *)
Opened(c, i, var, writable) ==
    /\ fd' = [fd EXCEPT ![c] = [ino |-> i, var |-> var, writable |-> writable]]
    /\ moved' = [moved EXCEPT ![c] = FALSE]

-----------------------------------------------------------------------------
(* ShareBackend::open.                                                     *)

(* writes, of open; the descriptor is writable under the same condition.    *)
Writes(o) == o.write \/ o.intent # "Open"

FirstOpenStep(o) ==
    IF read_only /\ Writes(o) THEN "err"
    ELSE IF o.stream THEN "stream_stat"
    ELSE IF ~o.directory THEN "stat"
    ELSE CASE o.intent = "Open" -> "opendir"
           [] o.intent = "Create" -> "mkdir"
           [] o.intent = "OpenOrCreate" -> "exists"
           [] OTHER -> "err"

StartOpen(c, o) ==
    call' = [call EXCEPT ![c] = [NoCall EXCEPT !.at = FirstOpenStep(o), !.opts = o]]

Exists(c) ==
    /\ At(c, "exists")
    /\ Proceed(c, IF entries[Path(c)] = 0 THEN "mkdir" ELSE "opendir")

MkDir(c) ==
    /\ At(c, "mkdir")
    /\ LET i == FreeInode(Dirs)
       IN  IF entries[Path(c)] # 0 \/ i = 0
           THEN Fail(c)
           ELSE /\ entries' = [entries EXCEPT ![Path(c)] = i]
                /\ call' = [call EXCEPT ![c].at = "opendir", ![c].made = i]
                /\ Did(c, "create", i)
                /\ UNCHANGED <<streams, fd, moved>>

OpenDir(c) ==
    /\ At(c, "opendir")
    /\ IF ~IsDir(Path(c))
       THEN Fail(c)
       ELSE /\ Goto(c, "ok")
            /\ Opened(c, entries[Path(c)], "Dir", FALSE)
            /\ DidNothing
            /\ KeepFs

(* existing_is_dir.                                                        *)
StatPath(c) ==
    /\ At(c, "stat")
    /\ IF ~IsDir(Path(c))
       THEN Proceed(c, "open")
       ELSE IF ~Opts(c).non_directory /\ Opts(c).intent \in {"Open", "OpenOrCreate"}
            THEN Proceed(c, "opendir")
            ELSE Fail(c)

(* The flags of open_with: creating intents create, create_new refuses an  *)
(* existing file, everything but Open opens for writing.                   *)
Truncates(o) == o.intent \in {"OverwriteOrCreate", "Truncate"}

(* open_with has created inode i.                                          *)
CreateFile(c, i) ==
    /\ call' = [call EXCEPT ![c].at = "ok", ![c].made = i]
    /\ Opened(c, i, "File", TRUE)
    /\ Did(c, "create", i)

(* Mutant: FILE_CREATE opens without create_new.                           *)
OpenRefused_NotExclusive(o, i) ==
    \/ i = 0 /\ o.intent \notin Creating
    \/ i # 0 /\ i \in Dirs /\ Writes(o)

OpenRefused(o, i) ==
    \/ i = 0 /\ o.intent \notin Creating
    \/ i # 0 /\ o.intent = "Create"
    \/ i # 0 /\ i \in Dirs /\ Writes(o)

OpenExisting(c, i) ==
    /\ Goto(c, "ok")
    /\ Opened(c, i, "File", Writes(Opts(c)))
    /\ IF Truncates(Opts(c)) THEN Did(c, "data", i) ELSE DidNothing
    /\ KeepFs

OpenFile(c) ==
    LET i == entries[Path(c)]
    IN  /\ At(c, "open")
        /\ IF OpenRefused(Opts(c), i) \/ (i = 0 /\ FreeInode(Files) = 0)
           THEN Fail(c)
           ELSE IF i # 0 THEN OpenExisting(c, i)
           ELSE /\ entries' = [entries EXCEPT ![Path(c)] = FreeInode(Files)]
                /\ CreateFile(c, FreeInode(Files))
                /\ UNCHANGED streams

(* open_stream: the host must be a file; then a file beside it.            *)
StatHost(c) ==
    /\ At(c, "stream_stat")
    /\ IF IsFile(Path(c)) THEN Proceed(c, "stream_open") ELSE Fail(c)

(* Mutant: without a sidecar the stream is opened in the host file.        *)
OpenStream_InHost(c) ==
    LET i == IF streams[Path(c)] = 0 THEN entries[Path(c)] ELSE streams[Path(c)]
    IN  /\ At(c, "stream_open")
        /\ IF OpenRefused(Opts(c), i) \/ (i = 0 /\ FreeInode(Files) = 0)
           THEN Fail(c)
           ELSE IF i # 0 THEN OpenExisting(c, i)
           ELSE /\ streams' = [streams EXCEPT ![Path(c)] = FreeInode(Files)]
                /\ CreateFile(c, FreeInode(Files))
                /\ UNCHANGED entries

OpenStream(c) ==
    LET i == streams[Path(c)]
    IN  /\ At(c, "stream_open")
        /\ IF OpenRefused(Opts(c), i) \/ (i = 0 /\ FreeInode(Files) = 0)
           THEN Fail(c)
           ELSE IF i # 0 THEN OpenExisting(c, i)
           ELSE /\ streams' = [streams EXCEPT ![Path(c)] = FreeInode(Files)]
                /\ CreateFile(c, FreeInode(Files))
                /\ UNCHANGED entries

-----------------------------------------------------------------------------
(* ShareBackend::unlink and rename.  The stream of a path is ignored.      *)

OfPath(path, stream) == [NoOptions EXCEPT !.path = path, !.stream = stream]

(* Mutant: unlink does not look at read_only.                              *)
StartUnlink_NoCheck(c, path, stream) ==
    call' = [call EXCEPT ![c] = [NoCall EXCEPT !.at = "rm_stat", !.opts = OfPath(path, stream)]]

StartUnlink(c, path, stream) ==
    call' = [call EXCEPT
               ![c] = [NoCall EXCEPT !.at = IF read_only THEN "err" ELSE "rm_stat",
                                     !.opts = OfPath(path, stream)]]

RmStat(c) ==
    /\ At(c, "rm_stat")
    /\ IF entries[Path(c)] = 0
       THEN Fail(c)
       ELSE Proceed(c, IF IsDir(Path(c)) THEN "rm_dir" ELSE "rm_file")

(* remove_dir removes directories only, remove_file everything else.       *)
Remove(c) ==
    LET e == [entries EXCEPT ![Path(c)] = 0]
    IN  /\ At(c, "rm_dir") \/ At(c, "rm_file")
        /\ IF IF At(c, "rm_dir") THEN IsDir(Path(c)) ELSE IsFile(Path(c))
           THEN /\ entries' = e
                /\ Goto(c, "ok")
                /\ Did(c, "unlink", entries[Path(c)])
                /\ TrackMoves(c, e)
                /\ UNCHANGED <<streams, fd>>
           ELSE Fail(c)

StartRename(c, from, stream, to, to_stream, replace) ==
    call' = [call EXCEPT
               ![c] = [NoCall EXCEPT
                         !.at = IF read_only THEN "err"
                                ELSE IF replace THEN "rename" ELSE "rename_check",
                         !.opts = OfPath(from, stream),
                         !.to = to, !.to_stream = to_stream]]

RenameCheck(c) ==
    /\ At(c, "rename_check")
    /\ IF entries[call[c].to] # 0 THEN Fail(c) ELSE Proceed(c, "rename")

(* rename(2).                                                              *)
Rename(c) ==
    LET from == Path(c)
        to == call[c].to
        i == entries[from]
        e == IF from = to THEN entries
             ELSE [entries EXCEPT ![from] = 0, ![to] = i]
    IN  /\ At(c, "rename")
        /\ IF i = 0 \/ (entries[to] # 0 /\ IsDir(to) # IsDir(from))
           THEN Fail(c)
           ELSE /\ entries' = e
                /\ Goto(c, "ok")
                /\ IF from = to THEN DidNothing
                   ELSE Did(c, "rename", i)
                /\ TrackMoves(c, e)
                /\ UNCHANGED <<streams, fd>>

BackendStep(c) ==
    \/ Exists(c) \/ MkDir(c) \/ OpenDir(c) \/ StatPath(c) \/ OpenFile(c)
    \/ StatHost(c) \/ OpenStream(c)
    \/ RmStat(c) \/ Remove(c)
    \/ RenameCheck(c) \/ Rename(c)
=============================================================================
