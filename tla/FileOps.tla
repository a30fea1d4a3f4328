------------------------------- MODULE FileOps -------------------------------
(***************************************************************************)
(* The handlers that work on an Open (handlers/create.rs, write.rs,        *)
(* set_info.rs, close.rs) on top of LocalFsBackend, for clients that share *)
(* one directory.  A client is a tree connect with at most one Open; its   *)
(* requests are handled one after the other, those of different clients    *)
(* interleave at every system call.                                        *)
(*                                                                         *)
(* pc[c] is the request that waits for the backend call call[c].           *)
(***************************************************************************)
EXTENDS LocalFs

CONSTANTS
    Granted,    \* the access TREE_CONNECT computed for every client
    Requests    \* bound: the CREATE requests clients send

ASSUME FileOpsAssumption ==
    /\ Granted \in [Clients -> {"Read", "ReadWrite"}]
    /\ Requests \subseteq OpenOptions

VARIABLES open, pc

vars == <<read_only, entries, streams, fd, call, moved, last, open, pc>>

(* Open: last_path (a name and whether it selects the stream),             *)
(* is_directory and delete_on_close.                                       *)
NoOpen == [has |-> FALSE, path |-> NoName, stream |-> FALSE,
           is_directory |-> FALSE, delete_on_close |-> FALSE]
Opens == [has : BOOLEAN, path : Names \cup {NoName}, stream : BOOLEAN,
          is_directory : BOOLEAN, delete_on_close : BOOLEAN]

Init ==
    /\ LocalFsInit
    /\ open = [c \in Clients |-> NoOpen]
    /\ pc = [c \in Clients |-> "idle"]

(* TREE_CONNECT clamps the access to Read on a read-only backend.          *)
TreeAccess(c) == IF read_only THEN "Read" ELSE Granted[c]

Idle(c) == pc[c] = "idle"
HasOpen(c) == Idle(c) /\ open[c].has

-----------------------------------------------------------------------------
(* CREATE.                                                                 *)

(* Mutant: only the desired access is checked, not the disposition.        *)
CreateAllowed_AccessOnly(c, o) ==
    /\ o.write => TreeAccess(c) = "ReadWrite"
    /\ ~(o.directory /\ o.non_directory)
    /\ o.directory => o.intent \notin {"OverwriteOrCreate", "Truncate"} /\ ~o.stream

CreateAllowed(c, o) ==
    /\ o.write => TreeAccess(c) = "ReadWrite"
    /\ o.intent # "Open" => TreeAccess(c) = "ReadWrite"
    /\ ~(o.directory /\ o.non_directory)
    /\ o.directory => o.intent \notin {"OverwriteOrCreate", "Truncate"} /\ ~o.stream

CreateStart(c, o) ==
    /\ Idle(c) /\ ~open[c].has
    /\ CreateAllowed(c, o)
    /\ pc' = [pc EXCEPT ![c] = "create"]
    /\ StartOpen(c, o)
    /\ DidNothing
    /\ UNCHANGED <<entries, streams, fd, moved, open>>

(* The request waiting for a backend call ends; fd as given.               *)
EndRequest(c, f) ==
    /\ pc' = [pc EXCEPT ![c] = "idle"]
    /\ call' = [call EXCEPT ![c] = NoCall]
    /\ fd' = [fd EXCEPT ![c] = f]
    /\ moved' = [moved EXCEPT ![c] = f # NoFd /\ @]
    /\ DidNothing
    /\ UNCHANGED <<entries, streams>>

CreateFailed(c) ==
    /\ pc[c] = "create" /\ At(c, "err")
    /\ EndRequest(c, NoFd)
    /\ UNCHANGED open

(* stat for the response, then the Open is registered in the tree.         *)
CreateRegister(c) ==
    /\ pc[c] = "create" /\ At(c, "ok")
    /\ open' = [open EXCEPT ![c] =
                  [has |-> TRUE, path |-> Path(c), stream |-> Opts(c).stream,
                   is_directory |-> fd[c].ino \in Dirs,
                   delete_on_close |-> Opts(c).delete_on_close]]
    /\ EndRequest(c, fd[c])

(* The tree was closed while the backend call ran: the Open goes into a    *)
(* tree no request can find, and is dropped with it.                       *)
CreateLost(c) ==
    /\ pc[c] = "create" /\ At(c, "ok")
    /\ EndRequest(c, NoFd)
    /\ UNCHANGED open

-----------------------------------------------------------------------------
(* WRITE and SET_INFO.                                                     *)

(* A call on the handle that changes the file in the way of what.          *)
Touch(c, what) ==
    /\ Did(c, what, fd[c].ino)
    /\ UNCHANGED <<entries, streams, fd, call, moved, open, pc>>

WritableFile(c) == fd[c].var = "File" /\ ~read_only /\ fd[c].writable

Write(c) ==
    /\ HasOpen(c)
    /\ TreeAccess(c) = "ReadWrite"
    /\ WritableFile(c)
    /\ Touch(c, "data")

(* FILE_END_OF_FILE_INFORMATION: truncate of the handle; the backend       *)
(* refuses a directory.                                                    *)
Truncate(c) ==
    /\ HasOpen(c)
    /\ WritableFile(c)
    /\ Touch(c, "data")

(* FILE_BASIC_INFORMATION.                                                 *)
SetTimes(c) ==
    /\ HasOpen(c)
    /\ fd[c].var = "File" /\ ~read_only
    /\ Touch(c, "times")

(* FILE_DISPOSITION_INFORMATION.                                           *)
Disposition(c, b) ==
    /\ HasOpen(c)
    /\ open' = [open EXCEPT ![c].delete_on_close = b]
    /\ DidNothing
    /\ UNCHANGED <<entries, streams, fd, call, moved, pc>>

(* FILE_RENAME_INFORMATION; last_path is read here and set when the        *)
(* backend call is over.                                                   *)
RenameStart(c, to, to_stream, replace) ==
    /\ HasOpen(c)
    /\ pc' = [pc EXCEPT ![c] = "rename"]
    /\ StartRename(c, open[c].path, open[c].stream, to, to_stream, replace)
    /\ DidNothing
    /\ UNCHANGED <<entries, streams, fd, moved, open>>

(* Mutant: last_path keeps the old name.                                   *)
SetLastPath_Keep(c) == UNCHANGED open

SetLastPath(c) ==
    open' = IF At(c, "ok") /\ open[c].has
            THEN [open EXCEPT ![c].path = call[c].to, ![c].stream = call[c].to_stream]
            ELSE open

RenameDone(c) ==
    /\ pc[c] = "rename" /\ (At(c, "ok") \/ At(c, "err"))
    /\ SetLastPath(c)
    /\ EndRequest(c, fd[c])

-----------------------------------------------------------------------------
(* CLOSE: the Open is taken out of the tree and the handle closed; then,   *)
(* if asked for, the path is unlinked.  fd is kept to the end of the       *)
(* request for the properties, no step of CLOSE uses it.                   *)

CloseHandle(c) ==
    /\ fd' = [fd EXCEPT ![c] = NoFd]
    /\ moved' = [moved EXCEPT ![c] = FALSE]

CloseStart(c) ==
    /\ HasOpen(c)
    /\ open' = [open EXCEPT ![c] = NoOpen]
    /\ DidNothing
    /\ IF open[c].delete_on_close
       THEN /\ pc' = [pc EXCEPT ![c] = "close"]
            /\ StartUnlink(c, open[c].path, open[c].stream)
            /\ UNCHANGED fd
            /\ UNCHANGED moved
       ELSE CloseHandle(c) /\ UNCHANGED <<pc, call>>
    /\ UNCHANGED <<entries, streams>>

CloseDone(c) ==
    /\ pc[c] = "close" /\ (At(c, "ok") \/ At(c, "err"))
    /\ EndRequest(c, NoFd)
    /\ UNCHANGED open

(* Mutant: the handles are closed but the opens stay in the tree.          *)
CloseTree_NotDrained(c) ==
    /\ pc[c] \in {"idle", "rename"} /\ open[c].has
    /\ CloseHandle(c)
    /\ DidNothing
    /\ UNCHANGED <<entries, streams, call, open, pc>>

(* close_tree_state: TREE_DISCONNECT, LOGOFF, a sweep or the end of the    *)
(* connection.  A sweep may come while a rename waits for the backend.     *)
CloseTree(c) ==
    /\ pc[c] \in {"idle", "rename"} /\ open[c].has
    /\ open' = [open EXCEPT ![c] = NoOpen]
    /\ CloseHandle(c)
    /\ DidNothing
    /\ UNCHANGED <<entries, streams, call, pc>>

-----------------------------------------------------------------------------
(* The new names clients send: the paths they open.                        *)
Targets == {<<o.path, o.stream>> : o \in Requests}

Next ==
    /\ UNCHANGED read_only
    /\ \E c \in Clients :
        \/ \E o \in Requests : CreateStart(c, o)
        \/ CreateFailed(c) \/ CreateRegister(c) \/ CreateLost(c)
        \/ Write(c) \/ Truncate(c) \/ SetTimes(c)
        \/ \E b \in BOOLEAN : Disposition(c, b)
        \/ \E p \in Targets, r \in BOOLEAN : RenameStart(c, p[1], p[2], r)
        \/ RenameDone(c)
        \/ CloseStart(c) \/ CloseDone(c) \/ CloseTree(c)
        \/ BackendStep(c) /\ UNCHANGED <<open, pc>>

Spec == Init /\ [][Next]_vars

-----------------------------------------------------------------------------
(* The variables have the types above, a client waits for a backend call   *)
(* exactly while a request of its is under way, and every Open has the     *)
(* handle CREATE put into it (Open.handle is Some until close).            *)
TypeOK ==
    /\ LocalFsTypeOK
    /\ open \in [Clients -> Opens]
    /\ pc \in [Clients -> {"idle", "create", "rename", "close"}]
    /\ \A c \in Clients : Idle(c) <=> At(c, "idle")
    /\ \A c \in Clients : open[c].has => fd[c].ino # 0

IsStream(i) == \E n \in Names : streams[n] = i

(* Files are created, written and truncated only through trees with write  *)
(* access: CREATE checks it, SET_INFO does not and relies on the handle    *)
(* not being writable.                                                     *)
OnlyWritersChangeData ==
    last.what \in {"create", "data"} => TreeAccess(last.by) = "ReadWrite"

(* As long as no other client has moved or removed the file, last_path     *)
(* names the file the handle has open: rename keeps the two together.      *)
PathFollows ==
    \A c \in Clients :
        HasOpen(c) /\ ~moved[c] /\ ~IsStream(fd[c].ino)
            => entries[open[c].path] = fd[c].ino

(* Delete-on-close goes by name.  It removes the file that was open, if no *)
(* other client has moved or removed that file in between.                 *)
DeletesOwn ==
    last.what = "unlink" /\ ~moved[last.by] /\ ~IsStream(fd[last.by].ino)
        => last.ino = fd[last.by].ino

(* The path kept with a handle names the file that is open until another   *)
(* client interferes, for all that goes by it.                             *)
OwnPaths == TypeOK /\ PathFollows /\ DeletesOwn

(* FILE_CREATE succeeds for a file only if this request created it,        *)
(* whatever other clients do between the check for a directory and the     *)
(* open (create_new).                                                      *)
ExclusiveCreate ==
    \A c \in Clients :
        pc[c] = "create" /\ At(c, "ok") /\ Opts(c).intent = "Create"
            /\ fd[c].var = "File"
            => fd[c].ino = call[c].made

(* The data of a stream are kept apart from the host's: no name leads to   *)
(* the file of a stream, whatever is renamed, deleted and created again,   *)
(* and a request for a stream opens no file that has a name (open_stream). *)
StreamsApart ==
    LET named == {entries[n] : n \in Names} \ {0}
    IN  /\ \A i \in named : ~IsStream(i)
        /\ \A c \in Clients :
               pc[c] = "create" /\ At(c, "ok") /\ Opts(c).stream
                   => fd[c].ino \notin named

(* A backend made read_only is never changed, whatever access the share's  *)
(* configuration grants.                                                   *)
ReadOnlyBackendUnchanged == read_only => last.what = "none"

-----------------------------------------------------------------------------
(* What a comment says and the code does not do.                           *)

(* Access::Read: a client with read access changes nothing in the share.   *)
(* SET_INFO and delete-on-close do not look at granted_access.             *)
ReadAccessChangesNothing ==
    TreeAccess(last.by) = "Read" => last.what = "none"
=============================================================================
