---------------------------- MODULE FileOpsProofs ----------------------------
(***************************************************************************)
(* Proofs about FileOps for any clients, names, inodes, access and         *)
(* requests, with and without streams.                                     *)
(*                                                                         *)
(* The properties speak about files and names at the end of a step or of a *)
(* request.  OpsInv says of every client what holds in the middle of one:  *)
(* which system calls the request may be waiting for and with which        *)
(* options (Requested), that nobody who may not write gets past the check  *)
(* (Rightful), which name the handle goes by while a create, a rename or a *)
(* close is under way (Follows), and what an open has made of its request  *)
(* (Exclusive, StreamFd).                                                  *)
(***************************************************************************)
EXTENDS FileOps, TLAPS

CreateCalls == {"exists", "mkdir", "opendir", "stat", "open"}
StreamCalls == {"stream_stat", "stream_open"}
UnlinkCalls == {"rm_stat", "rm_dir", "rm_file"}
RenameCalls == {"rename_check", "rename"}
Over == {"ok", "err"}

AnyOptions == OpenOptions \cup
    [path : Names \cup {NoName}, stream : BOOLEAN, intent : {"Open"}, write : {FALSE},
     directory : {FALSE}, non_directory : {FALSE}, delete_on_close : {FALSE}]
Calls == [at : {"idle"} \cup CreateCalls \cup StreamCalls \cup UnlinkCalls
                \cup RenameCalls \cup Over,
          opts : AnyOptions, to : Names \cup {NoName}, to_stream : BOOLEAN,
          made : Inodes \cup {0}]

(* What a request waits for.                                               *)
InCreate(c) == pc[c] = "create" =>
    /\ call[c].at \in CreateCalls \cup StreamCalls \cup Over
    /\ Opts(c) \in OpenOptions /\ CreateAllowed(c, Opts(c)) /\ ~open[c].has
    /\ call[c].at \in {"exists", "mkdir"} => Opts(c).intent # "Open"
    /\ call[c].at \in CreateCalls => ~Opts(c).stream
    /\ call[c].at \in StreamCalls => Opts(c).stream
InRename(c) == pc[c] = "rename" =>
    /\ call[c].at \in RenameCalls \cup Over
    /\ Path(c) \in Names /\ call[c].to \in Names
    /\ open[c].has => Path(c) = open[c].path
InClose(c) == pc[c] = "close" =>
    /\ call[c].at \in UnlinkCalls \cup Over
    /\ Path(c) \in Names /\ ~open[c].has

Requested(c) == InCreate(c) /\ InRename(c) /\ InClose(c)

(* Who has a descriptor to write with, or calls a backend that is          *)
(* read-only.                                                              *)
Rightful(c) ==
    /\ fd[c].writable => TreeAccess(c) = "ReadWrite"
    /\ read_only /\ call[c].at \notin Over \cup {"idle"} =>
          pc[c] = "create" /\ ~Writes(Opts(c))

(* c has a handle that goes by a name, and which.                          *)
Held(c) ==
    \/ open[c].has
    \/ pc[c] = "create" /\ At(c, "ok")
    \/ pc[c] = "close" /\ call[c].at \in UnlinkCalls
GoesBy(c) ==
    IF pc[c] = "idle" THEN open[c].path
    ELSE IF pc[c] = "rename" /\ At(c, "ok") THEN call[c].to ELSE Path(c)

Follows(c) == Held(c) =>
    /\ fd[c].ino # 0 /\ GoesBy(c) \in Names
    /\ open[c].has => open[c].path \in Names
    /\ ~moved[c] /\ ~IsStream(fd[c].ino) => entries[GoesBy(c)] = fd[c].ino

Exclusive(c) ==
    pc[c] = "create" /\ At(c, "ok") /\ Opts(c).intent = "Create" /\ fd[c].var = "File"
        => fd[c].ino = call[c].made

StreamFd(c) ==
    pc[c] = "create" /\ At(c, "ok") /\ Opts(c).stream => IsStream(fd[c].ino)

ClientInv(c) ==
    /\ Requested(c)
    /\ Rightful(c)
    /\ Follows(c)
    /\ Exclusive(c)
    /\ StreamFd(c)

(* No name leads to a stream.                                              *)
NamesApart == \A n \in Names : entries[n] # 0 => ~IsStream(entries[n])

(* What the latest step may have done.                                     *)
LastRight == OnlyWritersChangeData /\ ReadOnlyBackendUnchanged /\ DeletesOwn

(* The inductive invariant.                                                *)
OpsInv ==
    /\ TypeOK
    /\ \A c \in Clients : ClientInv(c)
    /\ NamesApart
    /\ LastRight

-----------------------------------------------------------------------------
(* Operators of LocalFs.                                                   *)

LEMMA InodesAreNotZero == /\ \A i \in Inodes : i # 0
                          /\ \A i \in Dirs : i \notin Files
                          /\ Dirs \subseteq Inodes /\ Files \subseteq Inodes
BY LocalFsAssumption DEF Inodes

(* A new inode has no name and is no stream.                               *)
LEMMA FreeInodeIs ==
    ASSUME NEW kind \in {Dirs, Files}, FreeInode(kind) # 0
    PROVE  /\ FreeInode(kind) \in kind /\ FreeInode(kind) \in Inodes
           /\ \A n \in Names : entries[n] # FreeInode(kind) /\ streams[n] # FreeInode(kind)
<1> DEFINE used == {entries[n] : n \in Names} \cup {streams[n] : n \in Names}
                     \cup {fd[c].ino : c \in Clients} \cup {call[c].made : c \in Clients}
           free == kind \ used
<1>1. free # {} /\ FreeInode(kind) = CHOOSE i \in free : TRUE
  BY DEF FreeInode
<1>2. FreeInode(kind) \in free
  BY <1>1
<1> QED BY <1>2, InodesAreNotZero

Changes == [by : Clients, ino : Inodes \cup {0},
            what : {"none", "create", "data", "times", "rename", "unlink"}]

LEMMA NothingIs ==
    Nothing.what = "none" /\ Nothing.by \in Clients /\ Nothing.ino = 0 /\ Nothing \in Changes
<1>1. (CHOOSE c \in Clients : TRUE) \in Clients
  BY LocalFsAssumption
<1> QED BY <1>1 DEF Nothing, Changes

LEMMA NoCallIs ==
    /\ NoCall \in Calls /\ NoCall.at = "idle" /\ NoCall.made = 0
    /\ NoOptions \in AnyOptions
<1>1. NoOptions \in AnyOptions
  BY DEF NoOptions, AnyOptions
<1> QED BY <1>1 DEF NoCall, Calls

LEMMA NoFdIs == NoFd \in Fds /\ ~NoFd.writable /\ NoFd.ino = 0 /\ NoFd.var = "none"
BY DEF NoFd, Fds

LEMMA CallsAre ==
    Calls = [at : {"idle", "exists", "mkdir", "opendir", "stat", "open",
                   "stream_stat", "stream_open", "rm_stat", "rm_dir",
                   "rm_file", "rename_check", "rename", "ok", "err"},
             opts : OpenOptions \cup
                      [path : Names \cup {NoName}, stream : BOOLEAN,
                       intent : {"Open"}, write : {FALSE},
                       directory : {FALSE}, non_directory : {FALSE},
                       delete_on_close : {FALSE}],
             to : Names \cup {NoName}, to_stream : BOOLEAN, made : Inodes \cup {0}]
<1>1. {"idle"} \cup CreateCalls \cup StreamCalls \cup UnlinkCalls \cup RenameCalls \cup Over
        = {"idle", "exists", "mkdir", "opendir", "stat", "open",
           "stream_stat", "stream_open", "rm_stat", "rm_dir",
           "rm_file", "rename_check", "rename", "ok", "err"}
  BY DEF CreateCalls, StreamCalls, UnlinkCalls, RenameCalls, Over
<1> QED BY <1>1 DEF Calls, AnyOptions

(* What a step of one client leaves of what another relies on.             *)
LEMMA Bystander ==
    ASSUME NEW d \in Clients, ClientInv(d), read_only' = read_only,
           open'[d] = open[d], pc'[d] = pc[d], fd'[d] = fd[d], call'[d] = call[d],
           \A i : i # 0 /\ IsStream(i) => IsStream(i)',
           ~moved'[d] => ~moved[d],
           \A n \in Names : entries[n] # 0 /\ entries[n] = fd[d].ino /\ ~moved'[d]
               => entries'[n] = entries[n]
    PROVE  ClientInv(d)'
<1>1. Requested(d)'
  BY DEF ClientInv, Requested, InCreate, InRename, InClose, Opts, Path, CreateAllowed, TreeAccess
<1>2. Rightful(d)'
  BY DEF ClientInv, Rightful, Opts, TreeAccess
<1>3. Exclusive(d)'
  BY DEF ClientInv, Exclusive, Opts, At
<1>4. Follows(d)'
  <2>1. Held(d)' <=> Held(d)
    BY DEF Held, At
  <2>2. GoesBy(d)' = GoesBy(d)
    BY DEF GoesBy, At, Path
  <2> QED BY <2>1, <2>2 DEF ClientInv, Follows
<1>5. StreamFd(d)'
  <2>1. pc[d] = "create" /\ At(d, "ok") => fd[d].ino # 0
    BY DEF ClientInv, Follows, Held
  <2> QED BY <2>1 DEF ClientInv, StreamFd, Opts, At
<1> QED BY <1>1, <1>2, <1>3, <1>4, <1>5 DEF ClientInv

LEMMA Bystanders ==
    ASSUME \A d \in Clients : ClientInv(d), NEW c \in Clients, read_only' = read_only,
           \A d \in Clients \ {c} : /\ open'[d] = open[d] /\ pc'[d] = pc[d]
                                    /\ fd'[d] = fd[d] /\ call'[d] = call[d]
                                    /\ ~moved'[d] => ~moved[d],
           \A i : i # 0 /\ IsStream(i) => IsStream(i)',
           \A d \in Clients \ {c}, n \in Names :
               entries[n] # 0 /\ entries[n] = fd[d].ino /\ ~moved'[d]
                   => entries'[n] = entries[n]
    PROVE  \A d \in Clients \ {c} : ClientInv(d)'
<1> SUFFICES ASSUME NEW d \in Clients \ {c} PROVE ClientInv(d)'
  OBVIOUS
<1> QED BY Bystander

Pcs == {"idle", "create", "rename", "close"}

(* The types, for the steps below.                                         *)
LEMMA Types ==
    ASSUME OpsInv
    PROVE  /\ read_only \in BOOLEAN
           /\ entries \in [Names -> Inodes \cup {0}]
           /\ streams \in [Names -> Files \cup {0}]
           /\ fd \in [Clients -> Fds]
           /\ call \in [Clients -> Calls]
           /\ moved \in [Clients -> BOOLEAN]
           /\ open \in [Clients -> Opens]
           /\ pc \in [Clients -> Pcs]
           /\ \A c \in Clients : /\ pc[c] = "idle" <=> call[c].at = "idle"
                                 /\ open[c].has => fd[c].ino # 0
<1>1. LocalFsTypeOK
  BY DEF OpsInv, TypeOK
<1> QED BY <1>1, CallsAre DEF OpsInv, TypeOK, LocalFsTypeOK, Pcs, Idle, At

(* The state of c, after a step of c.                                      *)
Sets(c, o, p, f, k) ==
    /\ open' = [open EXCEPT ![c] = o]
    /\ pc' = [pc EXCEPT ![c] = p]
    /\ fd' = [fd EXCEPT ![c] = f]
    /\ call' = [call EXCEPT ![c] = k]

(* What of a step of c is about c and about the file system.               *)
LEMMA Step ==
    ASSUME OpsInv, NEW c \in Clients, NEW o \in Opens, NEW p \in Pcs, NEW f \in Fds,
           NEW k \in Calls, Sets(c, o, p, f, k),
           read_only' = read_only,
           entries' \in [Names -> Inodes \cup {0}],
           streams' \in [Names -> Files \cup {0}],
           moved' \in [Clients -> BOOLEAN],
           last' \in Changes, LastRight',
           p = "idle" <=> k.at = "idle", o.has => f.ino # 0,
           \A d \in Clients \ {c} : ~moved'[d] => ~moved[d],
           \A i : i # 0 /\ IsStream(i) => IsStream(i)',
           \A d \in Clients \ {c}, n \in Names :
               entries[n] # 0 /\ entries[n] = fd[d].ino /\ ~moved'[d]
                   => entries'[n] = entries[n],
           NamesApart', ClientInv(c)'
    PROVE  OpsInv'
<1>1. /\ read_only \in BOOLEAN
      /\ fd \in [Clients -> Fds]
      /\ call \in [Clients -> Calls]
      /\ open \in [Clients -> Opens]
      /\ pc \in [Clients -> Pcs]
      /\ \A d \in Clients : /\ pc[d] = "idle" <=> call[d].at = "idle"
                            /\ open[d].has => fd[d].ino # 0
  BY Types
<1>2. /\ open'[c] = o /\ pc'[c] = p /\ fd'[c] = f /\ call'[c] = k
      /\ \A d \in Clients \ {c} : /\ open'[d] = open[d] /\ pc'[d] = pc[d]
                                  /\ fd'[d] = fd[d] /\ call'[d] = call[d]
  BY <1>1 DEF Sets
<1>3. /\ fd' \in [Clients -> Fds] /\ call' \in [Clients -> Calls]
      /\ open' \in [Clients -> Opens] /\ pc' \in [Clients -> Pcs]
  BY <1>1 DEF Sets
<1>4. LocalFsTypeOK'
  BY <1>1, <1>3, CallsAre DEF LocalFsTypeOK, Changes
<1>5. \A d \in Clients : /\ pc'[d] = "idle" <=> call'[d].at = "idle"
                         /\ open'[d].has => fd'[d].ino # 0
  BY <1>1, <1>2
<1>6. TypeOK'
  BY <1>3, <1>4, <1>5 DEF TypeOK, Pcs, Idle, At
<1>7. \A d \in Clients \ {c} : ClientInv(d)'
  <2>1. \A d \in Clients : ClientInv(d)
    BY DEF OpsInv
  <2> QED BY <1>2, <2>1, Bystanders
<1> QED BY <1>6, <1>7 DEF OpsInv

(* The same if the step changes neither the directory nor the streams.     *)
Alone(c, o, p, f, k, m) ==
    /\ Sets(c, o, p, f, k)
    /\ moved' = [moved EXCEPT ![c] = m]
    /\ read_only' = read_only /\ entries' = entries /\ streams' = streams

LEMMA Single ==
    ASSUME OpsInv, NEW c \in Clients, NEW o \in Opens, NEW p \in Pcs, NEW f \in Fds,
           NEW k \in Calls, NEW m \in BOOLEAN, Alone(c, o, p, f, k, m),
           last' \in Changes, LastRight',
           p = "idle" <=> k.at = "idle", o.has => f.ino # 0,
           ClientInv(c)'
    PROVE  OpsInv'
<1>1. /\ entries' \in [Names -> Inodes \cup {0}]
      /\ streams' \in [Names -> Files \cup {0}]
      /\ moved' \in [Clients -> BOOLEAN]
      /\ \A d \in Clients \ {c} : moved'[d] = moved[d]
  BY Types DEF Alone
<1>2. \A i : i # 0 /\ IsStream(i) => IsStream(i)'
  BY DEF IsStream, Alone
<1>3. NamesApart'
  BY DEF OpsInv, NamesApart, IsStream, Alone
<1>4. Sets(c, o, p, f, k) /\ read_only' = read_only /\ entries' = entries
  BY DEF Alone
<1> QED BY <1>1, <1>2, <1>3, <1>4, Step

LEMMA DidNothingRight ==
    ASSUME DidNothing
    PROVE  LastRight' /\ last' \in Changes
BY NothingIs DEF DidNothing, LastRight, OnlyWritersChangeData, ReadOnlyBackendUnchanged, DeletesOwn

(* A call that waits, and the request it belongs to.                       *)
LEMMA Waiting ==
    ASSUME OpsInv, NEW c \in Clients
    PROVE  /\ call[c].at \in CreateCalls \cup StreamCalls => pc[c] = "create"
           /\ call[c].at \in UnlinkCalls => pc[c] = "close"
           /\ call[c].at \in RenameCalls => pc[c] = "rename"
           /\ call[c].at \in Over => pc[c] # "idle"
<1>1. Requested(c)
  BY DEF OpsInv, ClientInv
<1>2. pc[c] \in Pcs /\ (pc[c] = "idle" <=> call[c].at = "idle")
  BY Types
<1> QED BY <1>1, <1>2 DEF Requested, InCreate, InRename, InClose, Pcs,
      CreateCalls, StreamCalls, UnlinkCalls, RenameCalls, Over

(* A backend call of c goes on, or fails, without an effect.               *)
LEMMA Proceeding ==
    ASSUME OpsInv, NEW c \in Clients, NEW at, Proceed(c, at),
           UNCHANGED <<read_only, open, pc>>,
           \/ At(c, "exists") /\ at \in {"mkdir", "opendir"}
           \/ At(c, "stat") /\ at \in {"open", "opendir"}
           \/ At(c, "stream_stat") /\ at = "stream_open"
           \/ At(c, "rm_stat") /\ at \in {"rm_dir", "rm_file"}
           \/ At(c, "rename_check") /\ at = "rename"
           \/ call[c].at \notin Over \cup {"idle"} /\ at = "err"
    PROVE  OpsInv'
<1> DEFINE k == [call[c] EXCEPT !.at = at]
<1>1. /\ fd \in [Clients -> Fds] /\ call \in [Clients -> Calls]
      /\ moved \in [Clients -> BOOLEAN] /\ open \in [Clients -> Opens]
      /\ pc \in [Clients -> Pcs]
      /\ pc[c] = "idle" <=> call[c].at = "idle"
      /\ open[c].has => fd[c].ino # 0
  BY Types
<1>2. Alone(c, open[c], pc[c], fd[c], k, moved[c]) /\ DidNothing
  BY <1>1 DEF Proceed, Goto, KeepFs, Sets, Alone
<1>3. at \in {"mkdir", "opendir", "open", "stream_open", "rm_dir", "rm_file", "rename", "err"}
  OBVIOUS
<1>4. call[c].at # "idle" /\ call[c].at \notin Over
  BY DEF At, Over
<1>5. k \in Calls /\ k.at = at /\ k.opts = call[c].opts /\ k.to = call[c].to /\ k.made = call[c].made
  BY <1>1, <1>3 DEF Calls, CreateCalls, StreamCalls, UnlinkCalls, RenameCalls, Over
<1> HIDE DEF k
<1>6. /\ call'[c] = k /\ fd'[c] = fd[c] /\ moved'[c] = moved[c] /\ open'[c] = open[c]
      /\ pc'[c] = pc[c] /\ pc[c] # "idle" /\ at # "idle" /\ at # "ok"
  BY <1>1, <1>2, <1>3, <1>4 DEF Sets, Alone
<1>7. \/ pc[c] = "create" /\ call[c].at = "exists" /\ at \in {"mkdir", "opendir"}
      \/ pc[c] = "create" /\ call[c].at = "stat" /\ at \in {"open", "opendir"}
      \/ pc[c] = "create" /\ call[c].at = "stream_stat" /\ at = "stream_open"
      \/ pc[c] = "close" /\ call[c].at = "rm_stat" /\ at \in {"rm_dir", "rm_file"}
      \/ pc[c] = "rename" /\ call[c].at = "rename_check" /\ at = "rename"
      \/ at = "err"
  BY Waiting DEF At, CreateCalls, StreamCalls, UnlinkCalls, RenameCalls
<1>8. Requested(c) /\ Rightful(c) /\ Follows(c)
  BY DEF OpsInv, ClientInv
<1>9. Requested(c)'
  <2>1. InCreate(c)'
    BY <1>5, <1>6, <1>7, <1>8 DEF Requested, InCreate, CreateCalls, StreamCalls, Over, Opts,
       CreateAllowed, TreeAccess
  <2>2. InRename(c)'
    BY <1>5, <1>6, <1>7, <1>8 DEF Requested, InRename, RenameCalls, Over, Path
  <2>3. InClose(c)'
    BY <1>5, <1>6, <1>7, <1>8 DEF Requested, InClose, UnlinkCalls, Over, Path
  <2> QED BY <2>1, <2>2, <2>3 DEF Requested
<1>10. Rightful(c)'
  BY <1>4, <1>5, <1>6, <1>7, <1>8 DEF Rightful, Over, Opts, TreeAccess
<1>11. Follows(c)'
  <2>1. Held(c)' => Held(c)
    BY <1>5, <1>6, <1>7 DEF Held, At, UnlinkCalls
  <2>2. GoesBy(c)' = GoesBy(c)
    BY <1>4, <1>5, <1>6 DEF GoesBy, At, Path, Over
  <2>3. IsStream(fd[c].ino)' <=> IsStream(fd[c].ino)
    BY <1>2, <1>6 DEF IsStream, Alone
  <2> QED BY <2>1, <2>2, <2>3, <1>2, <1>6, <1>8 DEF Follows, Alone
<1>12. Exclusive(c)' /\ StreamFd(c)'
  BY <1>5, <1>6 DEF Exclusive, StreamFd, At
<1>13. ClientInv(c)'
  BY <1>9, <1>10, <1>11, <1>12 DEF ClientInv
<1>14. pc[c] = "idle" <=> k.at = "idle"
  BY <1>5, <1>6
<1>15. LastRight' /\ last' \in Changes
  BY <1>2, DidNothingRight
<1>16. open[c] \in Opens /\ pc[c] \in Pcs /\ fd[c] \in Fds /\ moved[c] \in BOOLEAN
  BY <1>1
<1> QED BY <1>1, <1>2, <1>5, <1>13, <1>14, <1>15, <1>16, Single

LEMMA StepEffectless ==
    ASSUME OpsInv, NEW c \in Clients, UNCHANGED <<read_only, open, pc>>,
           Exists(c) \/ StatPath(c) \/ StatHost(c) \/ RmStat(c) \/ RenameCheck(c)
    PROVE  OpsInv'
<1>1. CASE Exists(c)
  <2>1. PICK at \in {"mkdir", "opendir"} : At(c, "exists") /\ Proceed(c, at)
    BY <1>1 DEF Exists
  <2> QED BY <2>1, Proceeding
<1>2. CASE StatPath(c)
  <2>1. PICK at \in {"open", "opendir", "err"} : At(c, "stat") /\ Proceed(c, at)
    BY <1>2 DEF StatPath, Fail, Proceed
  <2>2. call[c].at \notin Over \cup {"idle"}
    BY <2>1 DEF At, Over
  <2> QED BY <2>1, <2>2, Proceeding
<1>3. CASE StatHost(c)
  <2>1. PICK at \in {"stream_open", "err"} : At(c, "stream_stat") /\ Proceed(c, at)
    BY <1>3 DEF StatHost, Fail, Proceed
  <2>2. call[c].at \notin Over \cup {"idle"}
    BY <2>1 DEF At, Over
  <2> QED BY <2>1, <2>2, Proceeding
<1>4. CASE RmStat(c)
  <2>1. PICK at \in {"rm_dir", "rm_file", "err"} : At(c, "rm_stat") /\ Proceed(c, at)
    BY <1>4 DEF RmStat, Fail, Proceed
  <2>2. call[c].at \notin Over \cup {"idle"}
    BY <2>1 DEF At, Over
  <2> QED BY <2>1, <2>2, Proceeding
<1>5. CASE RenameCheck(c)
  <2>1. PICK at \in {"rename", "err"} : At(c, "rename_check") /\ Proceed(c, at)
    BY <1>5 DEF RenameCheck, Fail, Proceed
  <2>2. call[c].at \notin Over \cup {"idle"}
    BY <2>1 DEF At, Over
  <2> QED BY <2>1, <2>2, Proceeding
<1> QED BY <1>1, <1>2, <1>3, <1>4, <1>5

LEMMA Failing ==
    ASSUME OpsInv, NEW c \in Clients, UNCHANGED <<read_only, open, pc>>, Fail(c),
           call[c].at \notin Over \cup {"idle"}
    PROVE  OpsInv'
<1>1. Proceed(c, "err")
  BY DEF Fail, Proceed
<1> QED BY <1>1, Proceeding

(* A create that waits for the backend may write if it opens to write.     *)
LEMMA WritersOnly ==
    ASSUME OpsInv, NEW c \in Clients, call[c].at \in CreateCalls \cup StreamCalls
    PROVE  /\ pc[c] = "create" /\ ~open[c].has
           /\ Opts(c) \in OpenOptions /\ Path(c) \in Names
           /\ Writes(Opts(c)) => TreeAccess(c) = "ReadWrite" /\ ~read_only
           /\ call[c].at \in CreateCalls => ~Opts(c).stream
           /\ call[c].at \in StreamCalls => Opts(c).stream
           /\ call[c].at \in {"exists", "mkdir"} => Writes(Opts(c))
           /\ read_only' = read_only => TreeAccess(c)' = TreeAccess(c)
<1>1. pc[c] = "create"
  BY Waiting
<1>2. Requested(c) /\ Rightful(c)
  BY DEF OpsInv, ClientInv
<1>3. call[c].at \notin Over \cup {"idle"}
  BY DEF CreateCalls, StreamCalls, Over
<1>4. Opts(c) \in OpenOptions /\ CreateAllowed(c, Opts(c)) /\ ~open[c].has
  BY <1>1, <1>2 DEF Requested, InCreate
<1>5. Path(c) \in Names
  BY <1>4 DEF OpenOptions, Opts, Path
<1>6. Writes(Opts(c)) => TreeAccess(c) = "ReadWrite" /\ ~read_only
  BY <1>2, <1>3, <1>4 DEF CreateAllowed, Writes, Rightful
<1>7. /\ call[c].at \in CreateCalls => ~Opts(c).stream
      /\ call[c].at \in StreamCalls => Opts(c).stream
      /\ call[c].at \in {"exists", "mkdir"} => Writes(Opts(c))
  BY <1>1, <1>2 DEF Requested, InCreate, Writes
<1>8. read_only' = read_only => TreeAccess(c)' = TreeAccess(c)
  BY DEF TreeAccess
<1> QED BY <1>1, <1>4, <1>5, <1>6, <1>7, <1>8

(* What c has when open has succeeded with inode i.                        *)
LEMMA OpenedInv ==
    ASSUME OpsInv, NEW c \in Clients, call[c].at \in CreateCalls \cup StreamCalls,
           NEW f \in Fds, NEW k \in Calls, Sets(c, open[c], pc[c], f, k),
           read_only' = read_only,
           k.at = "ok", k.opts = call[c].opts,
           f.ino # 0,
           f.writable => Writes(Opts(c)),
           Opts(c).stream => IsStream(f.ino)',
           ~Opts(c).stream => entries'[Path(c)] = f.ino,
           Opts(c).intent = "Create" /\ f.var = "File" => f.ino = k.made
    PROVE  ClientInv(c)'
<1>1. /\ pc[c] = "create" /\ ~open[c].has
      /\ Opts(c) \in OpenOptions /\ Path(c) \in Names
      /\ Writes(Opts(c)) => TreeAccess(c) = "ReadWrite"
      /\ TreeAccess(c)' = TreeAccess(c)
  BY WritersOnly
<1>2. open'[c] = open[c] /\ pc'[c] = pc[c] /\ fd'[c] = f /\ call'[c] = k
  BY Types DEF Sets
<1>3. Opts(c)' = Opts(c) /\ Path(c)' = Path(c) /\ At(c, "ok")'
  BY <1>2 DEF Opts, Path, At
<1>4. Requested(c)'
  <2>1. CreateAllowed(c, Opts(c))
    BY <1>1 DEF OpsInv, ClientInv, Requested, InCreate
  <2>2. InCreate(c)'
    BY <1>1, <1>2, <1>3, <2>1 DEF InCreate, CreateCalls, StreamCalls, Over, CreateAllowed
  <2>3. InRename(c)' /\ InClose(c)'
    BY <1>1, <1>2 DEF InRename, InClose
  <2> QED BY <2>2, <2>3 DEF Requested
<1>5. Rightful(c)'
  BY <1>1, <1>2 DEF Rightful, Over
<1>6. Follows(c)'
  <2>1. GoesBy(c)' = Path(c)
    BY <1>1, <1>2, <1>3 DEF GoesBy
  <2>2. IsStream(fd[c].ino)' <=> IsStream(f.ino)'
    BY <1>2 DEF IsStream
  <2> QED BY <1>1, <1>2, <1>3, <2>1, <2>2 DEF Follows
<1>7. Exclusive(c)'
  BY <1>2, <1>3 DEF Exclusive
<1>8. StreamFd(c)'
  BY <1>2, <1>3 DEF StreamFd, IsStream
<1> QED BY <1>4, <1>5, <1>6, <1>7, <1>8 DEF ClientInv

(* open succeeds with inode i, which existed.                              *)
OpensInode(c, i, var, w) ==
    /\ call[c].at \in CreateCalls \cup StreamCalls
    /\ Goto(c, "ok") /\ Opened(c, i, var, w) /\ KeepFs
    /\ UNCHANGED <<read_only, open, pc>>
    /\ w => Writes(Opts(c))
    /\ Opts(c).stream => IsStream(i)
    /\ ~Opts(c).stream => entries[Path(c)] = i
    /\ Opts(c).intent = "Create" => var # "File"
    /\ DidNothing \/ (Did(c, "data", i) /\ Writes(Opts(c)))

LEMMA Opening ==
    ASSUME OpsInv, NEW c \in Clients, NEW i \in Inodes, NEW var \in {"File", "Dir"},
           NEW w \in BOOLEAN, OpensInode(c, i, var, w)
    PROVE  OpsInv'
<1> USE DEF OpensInode
<1> DEFINE f == [ino |-> i, var |-> var, writable |-> w]
           k == [call[c] EXCEPT !.at = "ok"]
<1>1. call[c] \in Calls /\ open[c] \in Opens /\ pc[c] \in Pcs
  BY Types
<1>2. f \in Fds /\ f.ino = i /\ f.var = var /\ f.writable = w
  BY DEF Fds
<1>3. k \in Calls /\ k.at = "ok" /\ k.opts = call[c].opts
  BY <1>1 DEF Calls, Over
<1>4. Alone(c, open[c], pc[c], f, k, FALSE)
  BY Types DEF Goto, Opened, KeepFs, Alone, Sets
<1> HIDE DEF f, k
<1>5. /\ Sets(c, open[c], pc[c], f, k)
      /\ read_only' = read_only /\ entries' = entries /\ streams' = streams
  BY <1>4 DEF Alone
<1>6. i # 0
  BY InodesAreNotZero
<1>7. ClientInv(c)'
  <2>1. Opts(c).stream => IsStream(f.ino)'
    BY <1>2, <1>5 DEF IsStream
  <2>2. ~Opts(c).stream => entries'[Path(c)] = f.ino
    BY <1>2, <1>5
  <2> QED BY <1>2, <1>3, <1>5, <1>6, <2>1, <2>2, OpenedInv
<1>8. LastRight' /\ last' \in Changes
  <2>1. CASE DidNothing
    BY <2>1, DidNothingRight
  <2>2. CASE Did(c, "data", i) /\ Writes(Opts(c))
    <3>1. last'.by = c /\ last'.what = "data" /\ last' \in Changes
      BY <2>2 DEF Did, Changes
    <3>2. TreeAccess(c)' = "ReadWrite" /\ ~read_only'
      BY <2>2, <1>5, WritersOnly
    <3> QED BY <3>1, <3>2 DEF LastRight, OnlyWritersChangeData, ReadOnlyBackendUnchanged, DeletesOwn
  <2> QED BY <2>1, <2>2
<1>9. pc[c] # "idle"
  BY Waiting, <1>3 DEF CreateCalls, StreamCalls
<1>10. open[c].has => f.ino # 0
  BY <1>2, <1>6
<1> QED BY <1>1, <1>2, <1>3, <1>4, <1>7, <1>8, <1>9, <1>10, Single

LEMMA StepOpenDir ==
    ASSUME OpsInv, NEW c \in Clients, UNCHANGED <<read_only, open, pc>>, OpenDir(c)
    PROVE  OpsInv'
<1>1. At(c, "opendir")
  BY DEF OpenDir
<1>2. call[c].at \in CreateCalls /\ call[c].at \notin Over \cup {"idle"}
  BY <1>1 DEF At, CreateCalls, Over
<1>3. CASE ~IsDir(Path(c))
  <2>1. Fail(c)
    BY <1>3 DEF OpenDir
  <2> QED BY <1>2, <2>1, Failing
<1>4. CASE IsDir(Path(c))
  <2> SUFFICES ASSUME NEW i, i = entries[Path(c)], NEW w \in BOOLEAN, w = FALSE
               PROVE  OpsInv'
    OBVIOUS
  <2>1. Goto(c, "ok") /\ Opened(c, i, "Dir", w) /\ DidNothing /\ KeepFs
    BY <1>4 DEF OpenDir
  <2>2. i \in Inodes
    BY <1>4, InodesAreNotZero DEF IsDir
  <2>3. ~Opts(c).stream
    BY <1>2, WritersOnly
  <2>4. call[c].at \in CreateCalls \cup StreamCalls
    BY <1>2
  <2>5. OpensInode(c, i, "Dir", w)
    BY <2>1, <2>3, <2>4 DEF OpensInode
  <2> QED BY <2>2, <2>5, Opening
<1> QED BY <1>3, <1>4

LEMMA StepOpenExisting ==
    ASSUME OpsInv, NEW c \in Clients, UNCHANGED <<read_only, open, pc>>,
           NEW i \in Inodes, OpenExisting(c, i), ~OpenRefused(Opts(c), i),
           \/ At(c, "open") /\ i = entries[Path(c)]
           \/ At(c, "stream_open") /\ IsStream(i)
    PROVE  OpsInv'
<1>1. call[c].at \in CreateCalls \cup StreamCalls
  BY DEF At, CreateCalls, StreamCalls
<1>2. /\ Goto(c, "ok") /\ Opened(c, i, "File", Writes(Opts(c))) /\ KeepFs
      /\ IF Truncates(Opts(c)) THEN Did(c, "data", i) ELSE DidNothing
  BY DEF OpenExisting
<1>3. Opts(c) \in OpenOptions
  BY <1>1, WritersOnly
<1>4. Writes(Opts(c)) \in BOOLEAN /\ (Truncates(Opts(c)) => Writes(Opts(c)))
  BY <1>3 DEF Writes, Truncates, OpenOptions
<1>5. Opts(c).intent # "Create"
  BY InodesAreNotZero DEF OpenRefused
<1>6. /\ Opts(c).stream => IsStream(i)
      /\ ~Opts(c).stream => entries[Path(c)] = i
  BY <1>1, WritersOnly DEF At, CreateCalls, StreamCalls
<1>7. OpensInode(c, i, "File", Writes(Opts(c)))
  <2> SUFFICES ASSUME NEW w \in BOOLEAN, w = Writes(Opts(c))
               PROVE  OpensInode(c, i, "File", w)
    BY <1>4
  <2> QED BY <1>1, <1>2, <1>4, <1>5, <1>6 DEF OpensInode
<1> QED BY <1>4, <1>7, Opening

(* c creates an inode of the given kind, for a name or for a stream.       *)
CreatesInode(c, kind, f, k, m) ==
    /\ call[c].at \in CreateCalls \cup StreamCalls /\ Writes(Opts(c))
    /\ FreeInode(kind) # 0
    /\ Sets(c, open[c], pc[c], f, k)
    /\ moved' = [moved EXCEPT ![c] = m]
    /\ read_only' = read_only
    /\ Did(c, "create", FreeInode(kind))
    /\ \/ /\ entries[Path(c)] = 0
          /\ entries' = [entries EXCEPT ![Path(c)] = FreeInode(kind)]
          /\ streams' = streams
       \/ /\ streams[Path(c)] = 0 /\ kind = Files
          /\ streams' = [streams EXCEPT ![Path(c)] = FreeInode(kind)]
          /\ entries' = entries

LEMMA Creation ==
    ASSUME OpsInv, NEW c \in Clients, NEW kind \in {Dirs, Files}, NEW f \in Fds,
           NEW k \in Calls, NEW m \in BOOLEAN, CreatesInode(c, kind, f, k, m),
           k.at # "idle", ClientInv(c)'
    PROVE  OpsInv'
<1> DEFINE i == FreeInode(kind)
<1>1. /\ i \in kind /\ i \in Inodes
      /\ \A n \in Names : entries[n] # i /\ streams[n] # i
  BY FreeInodeIs DEF CreatesInode
<1>2. /\ entries \in [Names -> Inodes \cup {0}]
      /\ streams \in [Names -> Files \cup {0}]
      /\ moved \in [Clients -> BOOLEAN]
      /\ open[c] \in Opens /\ pc[c] \in Pcs
  BY Types
<1>3. /\ pc[c] = "create" /\ ~open[c].has /\ Path(c) \in Names
      /\ TreeAccess(c) = "ReadWrite" /\ ~read_only
      /\ TreeAccess(c)' = TreeAccess(c)
  BY WritersOnly DEF CreatesInode
<1>4. /\ Sets(c, open[c], pc[c], f, k)
      /\ moved' = [moved EXCEPT ![c] = m]
      /\ read_only' = read_only /\ Did(c, "create", i)
      /\ \/ /\ entries[Path(c)] = 0 /\ entries' = [entries EXCEPT ![Path(c)] = i]
            /\ streams' = streams
         \/ /\ streams[Path(c)] = 0 /\ i \in Files
            /\ streams' = [streams EXCEPT ![Path(c)] = i]
            /\ entries' = entries
  BY <1>1 DEF CreatesInode
<1> HIDE DEF i
<1>5. /\ entries' \in [Names -> Inodes \cup {0}]
      /\ streams' \in [Names -> Files \cup {0}]
      /\ moved' \in [Clients -> BOOLEAN]
      /\ \A d \in Clients \ {c} : moved'[d] = moved[d]
  BY <1>1, <1>2, <1>4
<1>6. \A n \in Names : entries[n] # 0 => entries'[n] = entries[n]
  BY <1>2, <1>3, <1>4
<1>7. i # 0
  BY <1>1, InodesAreNotZero
<1>8. \A j : j # 0 /\ IsStream(j) => IsStream(j)'
  BY <1>2, <1>3, <1>4 DEF IsStream
<1>9. NamesApart'
  <2> SUFFICES ASSUME NEW n \in Names, entries'[n] # 0, NEW s \in Names, streams'[s] = entries'[n]
               PROVE  FALSE
    BY DEF NamesApart, IsStream
  <2>1. CASE entries'[n] = i
    BY <2>1, <1>1, <1>2, <1>3, <1>4
  <2>2. CASE entries'[n] # i
    <3>1. entries'[n] = entries[n] /\ entries[n] # 0
      BY <2>2, <1>2, <1>3, <1>4
    <3>2. streams[s] = entries[n]
      BY <3>1, <2>2, <1>2, <1>3, <1>4
    <3> QED BY <3>1, <3>2 DEF OpsInv, NamesApart, IsStream
  <2> QED BY <2>1, <2>2
<1>10. LastRight' /\ last' \in Changes
  <2>1. last'.by = c /\ last'.what = "create" /\ last' \in Changes
    BY <1>1, <1>4 DEF Did, Changes
  <2>2. TreeAccess(c)' = "ReadWrite" /\ ~read_only'
    BY <1>3, <1>4
  <2> QED BY <2>1, <2>2 DEF LastRight, OnlyWritersChangeData, ReadOnlyBackendUnchanged, DeletesOwn
<1>11. pc[c] = "idle" <=> k.at = "idle"
  BY <1>3
<1> QED BY <1>2, <1>3, <1>4, <1>5, <1>6, <1>8, <1>9, <1>10, <1>11, Step

LEMMA StepMkDir ==
    ASSUME OpsInv, NEW c \in Clients, UNCHANGED <<read_only, open, pc>>, MkDir(c)
    PROVE  OpsInv'
<1>1. At(c, "mkdir")
  BY DEF MkDir
<1>2. /\ call[c].at \in CreateCalls \cup StreamCalls /\ call[c].at \notin Over \cup {"idle"}
      /\ call[c].at \in {"exists", "mkdir"}
  BY <1>1 DEF At, CreateCalls, StreamCalls, Over
<1> DEFINE i == FreeInode(Dirs)
<1>3. CASE entries[Path(c)] # 0 \/ i = 0
  <2>1. Fail(c)
    BY <1>3 DEF MkDir
  <2> QED BY <1>2, <2>1, Failing
<1>4. CASE ~(entries[Path(c)] # 0 \/ i = 0)
  <2> DEFINE k == [call[c] EXCEPT !.at = "opendir", !.made = i]
  <2>1. /\ entries' = [entries EXCEPT ![Path(c)] = i]
        /\ call' = [call EXCEPT ![c].at = "opendir", ![c].made = i]
        /\ Did(c, "create", i)
        /\ UNCHANGED <<streams, fd, moved>>
    BY <1>4 DEF MkDir
  <2>2. /\ fd \in [Clients -> Fds] /\ call \in [Clients -> Calls]
        /\ moved \in [Clients -> BOOLEAN] /\ open \in [Clients -> Opens]
        /\ pc \in [Clients -> Pcs]
    BY Types
  <2>3. i \in Inodes /\ i # 0
    BY <1>4, FreeInodeIs
  <2>4. call' = [call EXCEPT ![c] = k]
    BY <2>1, <2>2
  <2>5. k \in Calls /\ k.at = "opendir" /\ k.opts = call[c].opts
    BY <2>2, <2>3 DEF Calls, CreateCalls
  <2>6. fd' = [fd EXCEPT ![c] = fd[c]] /\ moved' = [moved EXCEPT ![c] = moved[c]]
    BY <2>1, <2>2
  <2>7. pc' = [pc EXCEPT ![c] = pc[c]] /\ open' = [open EXCEPT ![c] = open[c]]
    BY <2>2
  <2>8. Sets(c, open[c], pc[c], fd[c], k)
    BY <2>4, <2>6, <2>7 DEF Sets
  <2> HIDE DEF k, i
  <2>9. Writes(Opts(c)) /\ pc[c] = "create" /\ ~open[c].has /\ ~Opts(c).stream /\ ~read_only
    BY <1>1, <1>2, WritersOnly DEF At, CreateCalls
  <2>10. CreatesInode(c, Dirs, fd[c], k, moved[c])
    BY <1>2, <1>4, <2>1, <2>3, <2>6, <2>8, <2>9 DEF CreatesInode, i
  <2>11. open'[c] = open[c] /\ pc'[c] = pc[c] /\ fd'[c] = fd[c] /\ call'[c] = k
    BY <2>2, <2>8 DEF Sets
  <2>12. ClientInv(c)'
    <3>1. Requested(c) /\ Rightful(c)
      BY DEF OpsInv, ClientInv
    <3>2. InCreate(c)'
      BY <2>5, <2>9, <2>11, <3>1 DEF Requested, InCreate, Opts, CreateAllowed, TreeAccess,
         CreateCalls, StreamCalls
    <3>3. InRename(c)' /\ InClose(c)'
      BY <2>9, <2>11 DEF InRename, InClose
    <3>4. Rightful(c)'
      BY <2>9, <2>11, <3>1 DEF Rightful, TreeAccess
    <3>5. Follows(c)' /\ Exclusive(c)' /\ StreamFd(c)'
      BY <2>5, <2>9, <2>11 DEF Follows, Held, Exclusive, StreamFd, At
    <3> QED BY <3>2, <3>3, <3>4, <3>5 DEF ClientInv, Requested
  <2>13. fd[c] \in Fds /\ moved[c] \in BOOLEAN
    BY <2>2
  <2> QED BY <2>5, <2>10, <2>12, <2>13, Creation
<1> QED BY <1>3, <1>4

(* open creates a file, for a name or for a stream.                        *)
LEMMA Creates ==
    ASSUME OpsInv, NEW c \in Clients, UNCHANGED <<read_only, open, pc>>,
           call[c].at \in CreateCalls \cup StreamCalls,
           FreeInode(Files) # 0, CreateFile(c, FreeInode(Files)), Writes(Opts(c)),
           \/ /\ entries[Path(c)] = 0 /\ ~Opts(c).stream
              /\ entries' = [entries EXCEPT ![Path(c)] = FreeInode(Files)]
              /\ streams' = streams
           \/ /\ streams[Path(c)] = 0 /\ Opts(c).stream
              /\ streams' = [streams EXCEPT ![Path(c)] = FreeInode(Files)]
              /\ entries' = entries
    PROVE  OpsInv'
<1> SUFFICES ASSUME NEW i, i = FreeInode(Files) PROVE OpsInv'
  OBVIOUS
<1> DEFINE f == [ino |-> i, var |-> "File", writable |-> TRUE]
           k == [call[c] EXCEPT !.at = "ok", !.made = i]
<1>1. /\ fd \in [Clients -> Fds] /\ call \in [Clients -> Calls]
      /\ open \in [Clients -> Opens] /\ pc \in [Clients -> Pcs]
      /\ entries \in [Names -> Inodes \cup {0}]
      /\ streams \in [Names -> Files \cup {0}]
  BY Types
<1>2. i \in Inodes /\ i # 0
  BY FreeInodeIs
<1>3. /\ call' = [call EXCEPT ![c] = k]
      /\ fd' = [fd EXCEPT ![c] = f] /\ moved' = [moved EXCEPT ![c] = FALSE]
      /\ Did(c, "create", i)
  BY <1>1 DEF CreateFile, Opened
<1>4. k \in Calls /\ k.at = "ok" /\ k.opts = call[c].opts /\ k.made = i
  BY <1>1, <1>2 DEF Calls, Over
<1>5. f \in Fds /\ f.ino = i /\ f.var = "File" /\ f.writable
  BY <1>2 DEF Fds
<1>6. Sets(c, open[c], pc[c], f, k)
  BY <1>1, <1>3 DEF Sets
<1>7. CreatesInode(c, Files, f, k, FALSE)
  BY <1>2, <1>3, <1>6 DEF CreatesInode
<1>8. Path(c) \in Names /\ pc[c] = "create"
  BY WritersOnly
<1> HIDE DEF f, k
<1>9. Opts(c).stream => IsStream(f.ino)'
  BY <1>1, <1>5, <1>8 DEF IsStream
<1>10. ~Opts(c).stream => entries'[Path(c)] = f.ino
  BY <1>1, <1>5, <1>8
<1>11. ClientInv(c)'
  BY <1>2, <1>4, <1>5, <1>6, <1>9, <1>10, OpenedInv
<1> QED BY <1>4, <1>5, <1>7, <1>11, Creation

LEMMA StepOpenFile ==
    ASSUME OpsInv, NEW c \in Clients, UNCHANGED <<read_only, open, pc>>, OpenFile(c)
    PROVE  OpsInv'
<1> DEFINE i == entries[Path(c)]
<1>1. At(c, "open")
  BY DEF OpenFile
<1>2. /\ call[c].at \in CreateCalls \cup StreamCalls /\ call[c].at \in CreateCalls
      /\ call[c].at \notin Over \cup {"idle"}
  BY <1>1 DEF At, CreateCalls, StreamCalls, Over
<1>3. CASE OpenRefused(Opts(c), i) \/ (i = 0 /\ FreeInode(Files) = 0)
  <2>1. Fail(c)
    BY <1>3 DEF OpenFile
  <2> QED BY <1>2, <2>1, Failing
<1>4. CASE ~OpenRefused(Opts(c), i) /\ i # 0
  <2>1. OpenExisting(c, i)
    BY <1>4 DEF OpenFile
  <2>2. i \in Inodes
    BY <1>2, <1>4, WritersOnly, Types
  <2> QED BY <1>1, <1>4, <2>1, <2>2, StepOpenExisting
<1>5. CASE ~OpenRefused(Opts(c), i) /\ i = 0 /\ FreeInode(Files) # 0
  <2>1. /\ entries' = [entries EXCEPT ![Path(c)] = FreeInode(Files)]
        /\ CreateFile(c, FreeInode(Files)) /\ streams' = streams
    BY <1>5 DEF OpenFile
  <2>2. Writes(Opts(c)) /\ ~Opts(c).stream
    BY <1>2, <1>5, WritersOnly DEF OpenRefused, Writes, Creating
  <2> QED BY <1>2, <1>5, <2>1, <2>2, Creates
<1> QED BY <1>3, <1>4, <1>5

LEMMA StepOpenStream ==
    ASSUME OpsInv, NEW c \in Clients, UNCHANGED <<read_only, open, pc>>, OpenStream(c)
    PROVE  OpsInv'
<1> DEFINE i == streams[Path(c)]
<1>1. At(c, "stream_open")
  BY DEF OpenStream
<1>2. /\ call[c].at \in CreateCalls \cup StreamCalls /\ call[c].at \in StreamCalls
      /\ call[c].at \notin Over \cup {"idle"}
  BY <1>1 DEF At, CreateCalls, StreamCalls, Over
<1>3. CASE OpenRefused(Opts(c), i) \/ (i = 0 /\ FreeInode(Files) = 0)
  <2>1. Fail(c)
    BY <1>3 DEF OpenStream
  <2> QED BY <1>2, <2>1, Failing
<1>4. CASE ~OpenRefused(Opts(c), i) /\ i # 0
  <2>1. OpenExisting(c, i)
    BY <1>4 DEF OpenStream
  <2>2. Path(c) \in Names
    BY <1>2, WritersOnly
  <2>3. i \in Inodes /\ IsStream(i)
    BY <1>4, <2>2, Types, InodesAreNotZero DEF IsStream
  <2> QED BY <1>1, <1>4, <2>1, <2>3, StepOpenExisting
<1>5. CASE ~OpenRefused(Opts(c), i) /\ i = 0 /\ FreeInode(Files) # 0
  <2>1. /\ streams' = [streams EXCEPT ![Path(c)] = FreeInode(Files)]
        /\ CreateFile(c, FreeInode(Files)) /\ entries' = entries
    BY <1>5 DEF OpenStream
  <2>2. Writes(Opts(c)) /\ Opts(c).stream
    BY <1>2, <1>5, WritersOnly DEF OpenRefused, Writes, Creating
  <2> QED BY <1>2, <1>5, <2>1, <2>2, Creates
<1> QED BY <1>3, <1>4, <1>5

(* TrackMoves sees whose file the entries e no longer show where it was.   *)
LEMMA TrackMovesIs ==
    ASSUME OpsInv, NEW c \in Clients, NEW e, TrackMoves(c, e)
    PROVE  /\ moved' \in [Clients -> BOOLEAN]
           /\ moved'[c] <=> moved[c]
           /\ \A d \in Clients \ {c} : ~moved'[d] => ~moved[d]
           /\ \A d \in Clients \ {c}, n \in Names :
                  entries[n] # 0 /\ entries[n] = fd[d].ino /\ ~moved'[d]
                      => e[n] = entries[n]
<1>1. moved \in [Clients -> BOOLEAN]
  BY Types
<1>2. \A d \in Clients :
        moved'[d] <=> \/ moved[d]
                      \/ /\ d # c /\ fd[d].ino # 0
                         /\ Homes(e, fd[d].ino) # Homes(entries, fd[d].ino)
  BY <1>1, Zenon DEF TrackMoves
<1>3. moved' \in [Clients -> BOOLEAN]
  <2>1. moved' = [d \in Clients |->
                   moved[d] \/ (/\ d # c /\ fd[d].ino # 0
                                /\ Homes(e, fd[d].ino) # Homes(entries, fd[d].ino))]
    BY Zenon DEF TrackMoves
  <2>2. \A d \in Clients :
          (moved[d] \/ (/\ d # c /\ fd[d].ino # 0
                        /\ Homes(e, fd[d].ino) # Homes(entries, fd[d].ino))) \in BOOLEAN
    BY Zenon
  <2> QED BY <2>1, <2>2, Zenon
<1>4. ASSUME NEW d \in Clients \ {c}, NEW n \in Names,
             entries[n] # 0, entries[n] = fd[d].ino, ~moved'[d]
      PROVE  e[n] = entries[n]
  <2>1. Homes(e, fd[d].ino) = Homes(entries, fd[d].ino)
    BY <1>2, <1>4
  <2>2. n \in Homes(entries, fd[d].ino)
    BY <1>4 DEF Homes
  <2>3. n \in Homes(e, fd[d].ino)
    BY <2>1, <2>2
  <2> QED BY <2>3, <1>4 DEF Homes
<1> QED BY <1>2, <1>3, <1>4

LEMMA StepRemove ==
    ASSUME OpsInv, NEW c \in Clients, UNCHANGED <<read_only, open, pc>>, Remove(c)
    PROVE  OpsInv'
<1> SUFFICES ASSUME NEW e, e = [entries EXCEPT ![Path(c)] = 0] PROVE OpsInv'
  OBVIOUS
<1>1. call[c].at \in UnlinkCalls /\ call[c].at \notin Over \cup {"idle"}
  BY DEF Remove, At, UnlinkCalls, Over
<1>2. CASE Fail(c)
  BY <1>1, <1>2, Failing
<1>3. CASE ~Fail(c)
  <2> DEFINE k == [call[c] EXCEPT !.at = "ok"]
  <2>1. /\ entries' = e /\ Goto(c, "ok") /\ Did(c, "unlink", entries[Path(c)])
        /\ TrackMoves(c, e) /\ UNCHANGED <<streams, fd>>
    BY <1>3 DEF Remove
  <2>2. /\ fd \in [Clients -> Fds] /\ call \in [Clients -> Calls]
        /\ open \in [Clients -> Opens] /\ pc \in [Clients -> Pcs]
        /\ entries \in [Names -> Inodes \cup {0}]
        /\ streams \in [Names -> Files \cup {0}]
    BY Types
  <2>3. k \in Calls /\ k.at = "ok" /\ k.opts = call[c].opts
    BY <2>2 DEF Calls, Over
  <2>4. Sets(c, open[c], pc[c], fd[c], k)
    BY <2>1, <2>2 DEF Goto, Sets
  <2> HIDE DEF k
  <2>5. open'[c] = open[c] /\ pc'[c] = pc[c] /\ fd'[c] = fd[c] /\ call'[c] = k
    BY <2>2, <2>4 DEF Sets
  <2>6. Requested(c) /\ Rightful(c) /\ Follows(c)
    BY DEF OpsInv, ClientInv
  <2>7. pc[c] = "close" /\ Path(c) \in Names /\ ~open[c].has
    BY <1>1, <2>6, Waiting DEF Requested, InClose
  <2>8. ~read_only
    BY <1>1, <2>6, <2>7 DEF Rightful
  <2>9. ~moved[c] /\ ~IsStream(fd[c].ino) => entries[Path(c)] = fd[c].ino
    <3>1. Held(c) /\ GoesBy(c) = Path(c)
      BY <1>1, <2>7 DEF Held, GoesBy
    <3> QED BY <3>1, <2>6 DEF Follows
  <2>10. entries' \in [Names -> Inodes \cup {0}] /\ streams' \in [Names -> Files \cup {0}]
    BY <2>1, <2>2
  <2>11. /\ moved' \in [Clients -> BOOLEAN] /\ (moved'[c] <=> moved[c])
         /\ \A d \in Clients \ {c} : ~moved'[d] => ~moved[d]
         /\ \A d \in Clients \ {c}, n \in Names :
                entries[n] # 0 /\ entries[n] = fd[d].ino /\ ~moved'[d]
                    => entries'[n] = entries[n]
    <3>1. TrackMoves(c, e)
      BY <2>1
    <3>2. /\ moved' \in [Clients -> BOOLEAN] /\ (moved'[c] <=> moved[c])
          /\ \A d \in Clients \ {c} : ~moved'[d] => ~moved[d]
          /\ \A d \in Clients \ {c}, n \in Names :
                 entries[n] # 0 /\ entries[n] = fd[d].ino /\ ~moved'[d]
                     => e[n] = entries[n]
      BY ONLY OpsInv, <3>1, c \in Clients, TrackMovesIs
    <3> QED BY <3>2, <2>1
  <2>12. \A i : i # 0 /\ IsStream(i) => IsStream(i)'
    BY <2>1 DEF IsStream
  <2>13. NamesApart'
    <3>1. \A n \in Names : entries'[n] # 0 => entries'[n] = entries[n]
      BY <2>1, <2>2
    <3> QED BY <3>1, <2>1 DEF OpsInv, NamesApart, IsStream
  <2>14. LastRight' /\ last' \in Changes
    <3>1. /\ last'.by = c /\ last'.what = "unlink" /\ last'.ino = entries[Path(c)]
          /\ last' \in Changes
      BY <2>1, <2>2, <2>7 DEF Did, Changes
    <3>2. DeletesOwn'
      <4>1. IsStream(fd[c].ino)' <=> IsStream(fd[c].ino)
        BY <2>1 DEF IsStream
      <4> QED BY <3>1, <4>1, <2>5, <2>9, <2>11 DEF DeletesOwn
    <3>3. ReadOnlyBackendUnchanged' /\ OnlyWritersChangeData'
      BY <3>1, <2>8 DEF ReadOnlyBackendUnchanged, OnlyWritersChangeData
    <3> QED BY <3>1, <3>2, <3>3 DEF LastRight
  <2>15. ClientInv(c)'
    <3>1. Requested(c)'
      BY <2>3, <2>5, <2>6, <2>7 DEF Requested, InCreate, InRename, InClose, Path, Over
    <3>2. Rightful(c)'
      BY <2>3, <2>5, <2>6 DEF Rightful, TreeAccess, Over
    <3>3. Follows(c)' /\ Exclusive(c)' /\ StreamFd(c)'
      BY <2>3, <2>5, <2>7 DEF Follows, Held, Exclusive, StreamFd, At, UnlinkCalls
    <3> QED BY <3>1, <3>2, <3>3 DEF ClientInv
  <2>16. pc[c] = "idle" <=> k.at = "idle"
    BY <2>3, <2>7
  <2>17. open[c] \in Opens /\ pc[c] \in Pcs /\ fd[c] \in Fds /\ (open[c].has => fd[c].ino # 0)
    BY <2>2, <2>7
  <2> QED BY <2>3, <2>4, <2>10, <2>11, <2>12, <2>13, <2>14, <2>15, <2>16, <2>17, Step
<1> QED BY <1>2, <1>3

LEMMA StepRename ==
    ASSUME OpsInv, NEW c \in Clients, UNCHANGED <<read_only, open, pc>>, Rename(c)
    PROVE  OpsInv'
<1> SUFFICES ASSUME NEW from, from = Path(c), NEW to, to = call[c].to,
                    NEW i, i = entries[from],
                    NEW e, e = IF from = to THEN entries
                               ELSE [entries EXCEPT ![from] = 0, ![to] = i]
             PROVE  OpsInv'
  OBVIOUS
<1>1. call[c].at \in RenameCalls /\ call[c].at \notin Over \cup {"idle"}
  BY DEF Rename, At, RenameCalls, Over
<1>2. CASE Fail(c)
  BY <1>1, <1>2, Failing
<1>3. CASE ~Fail(c)
  <2> DEFINE k == [call[c] EXCEPT !.at = "ok"]
  <2>1. /\ entries' = e /\ Goto(c, "ok") /\ i # 0
        /\ IF from = to THEN DidNothing ELSE Did(c, "rename", i)
        /\ TrackMoves(c, e) /\ UNCHANGED <<streams, fd>>
    BY <1>3 DEF Rename
  <2>2. /\ fd \in [Clients -> Fds] /\ call \in [Clients -> Calls]
        /\ open \in [Clients -> Opens] /\ pc \in [Clients -> Pcs]
        /\ entries \in [Names -> Inodes \cup {0}]
        /\ streams \in [Names -> Files \cup {0}]
        /\ open[c].has => fd[c].ino # 0
    BY Types
  <2>3. k \in Calls /\ k.at = "ok" /\ k.opts = call[c].opts /\ k.to = to
    BY <2>2 DEF Calls, Over
  <2>4. Sets(c, open[c], pc[c], fd[c], k)
    BY <2>1, <2>2 DEF Goto, Sets
  <2> HIDE DEF k
  <2>5. open'[c] = open[c] /\ pc'[c] = pc[c] /\ fd'[c] = fd[c] /\ call'[c] = k
    BY <2>2, <2>4 DEF Sets
  <2>6. Requested(c) /\ Rightful(c) /\ Follows(c)
    BY DEF OpsInv, ClientInv
  <2>7. /\ pc[c] = "rename" /\ from \in Names /\ to \in Names
        /\ open[c].has => from = open[c].path
    BY <1>1, <2>6, Waiting DEF Requested, InRename
  <2>8. ~read_only
    BY <1>1, <2>6, <2>7 DEF Rightful
  <2>9. open[c].has =>
          /\ open[c].path \in Names
          /\ ~moved[c] /\ ~IsStream(fd[c].ino) => i = fd[c].ino
    <3>1. GoesBy(c) = from /\ (open[c].has => Held(c))
      BY <1>1, <2>7 DEF Held, GoesBy, At, Over
    <3> QED BY <3>1, <2>6 DEF Follows
  <2>10. /\ entries' \in [Names -> Inodes \cup {0}] /\ streams' \in [Names -> Files \cup {0}]
         /\ entries'[to] = i
    BY <2>1, <2>2, <2>7
  <2>11. /\ moved' \in [Clients -> BOOLEAN] /\ (moved'[c] <=> moved[c])
         /\ \A d \in Clients \ {c} : ~moved'[d] => ~moved[d]
         /\ \A d \in Clients \ {c}, n \in Names :
                entries[n] # 0 /\ entries[n] = fd[d].ino /\ ~moved'[d]
                    => entries'[n] = entries[n]
    <3>1. TrackMoves(c, e)
      BY <2>1
    <3>2. /\ moved' \in [Clients -> BOOLEAN] /\ (moved'[c] <=> moved[c])
          /\ \A d \in Clients \ {c} : ~moved'[d] => ~moved[d]
          /\ \A d \in Clients \ {c}, n \in Names :
                 entries[n] # 0 /\ entries[n] = fd[d].ino /\ ~moved'[d]
                     => e[n] = entries[n]
      BY ONLY OpsInv, <3>1, c \in Clients, TrackMovesIs
    <3> QED BY <3>2, <2>1
  <2>12. \A j : j # 0 /\ IsStream(j) => IsStream(j)'
    BY <2>1 DEF IsStream
  <2>13. NamesApart'
    <3>1. \A n \in Names : entries'[n] # 0 => entries'[n] = entries[n] \/ entries'[n] = i
      BY <2>1, <2>2, <2>7
    <3>2. ~IsStream(i)
      BY <2>1, <2>7 DEF OpsInv, NamesApart
    <3> QED BY <3>1, <3>2, <2>1 DEF OpsInv, NamesApart, IsStream
  <2>14. LastRight' /\ last' \in Changes
    <3>1. CASE from = to
      BY <3>1, <2>1, DidNothingRight
    <3>2. CASE from # to
      <4>1. last'.by = c /\ last'.what = "rename" /\ last' \in Changes
        BY <3>2, <2>1, <2>2, <2>7 DEF Did, Changes
      <4> QED BY <4>1, <2>8 DEF LastRight, DeletesOwn, ReadOnlyBackendUnchanged,
            OnlyWritersChangeData
    <3> QED BY <3>1, <3>2
  <2>15. ClientInv(c)'
    <3>1. Requested(c)'
      BY <2>3, <2>5, <2>6, <2>7 DEF Requested, InCreate, InRename, InClose, Path, Over
    <3>2. Rightful(c)'
      BY <2>3, <2>5, <2>6 DEF Rightful, TreeAccess, Over
    <3>3. Exclusive(c)' /\ StreamFd(c)'
      BY <2>5, <2>7 DEF Exclusive, StreamFd
    <3>4. Follows(c)'
      <4>1. GoesBy(c)' = to /\ (Held(c)' <=> open[c].has)
        BY <2>3, <2>5, <2>7 DEF GoesBy, Held, At
      <4>2. IsStream(fd[c].ino)' <=> IsStream(fd[c].ino)
        BY <2>1 DEF IsStream
      <4> QED BY <4>1, <4>2, <2>2, <2>5, <2>7, <2>9, <2>10, <2>11 DEF Follows
    <3> QED BY <3>1, <3>2, <3>3, <3>4 DEF ClientInv
  <2>16. pc[c] = "idle" <=> k.at = "idle"
    BY <2>3, <2>7
  <2>17. open[c] \in Opens /\ pc[c] \in Pcs /\ fd[c] \in Fds
    BY <2>2
  <2> QED BY <2>2, <2>3, <2>4, <2>10, <2>11, <2>12, <2>13, <2>14, <2>15, <2>16, <2>17, Step
<1> QED BY <1>2, <1>3

LEMMA StepBackend ==
    ASSUME OpsInv, NEW c \in Clients, UNCHANGED <<read_only, open, pc>>, BackendStep(c)
    PROVE  OpsInv'
BY StepEffectless, StepMkDir, StepOpenDir, StepOpenFile, StepOpenStream, StepRemove, StepRename
   DEF BackendStep

-----------------------------------------------------------------------------
(* The handlers.                                                           *)

LEMMA StepTouch ==
    ASSUME OpsInv, NEW c \in Clients, read_only' = read_only,
           Write(c) \/ Truncate(c) \/ SetTimes(c)
    PROVE  OpsInv'
<1>1. /\ fd \in [Clients -> Fds] /\ call \in [Clients -> Calls]
      /\ moved \in [Clients -> BOOLEAN] /\ open \in [Clients -> Opens]
      /\ pc \in [Clients -> Pcs]
      /\ pc[c] = "idle" <=> call[c].at = "idle"
      /\ open[c].has => fd[c].ino # 0
  BY Types
<1>2. PICK what \in {"data", "times"} :
        /\ Touch(c, what) /\ ~read_only
        /\ what = "data" => TreeAccess(c) = "ReadWrite"
  <2>1. fd[c].writable => TreeAccess(c) = "ReadWrite"
    BY DEF OpsInv, ClientInv, Rightful
  <2> QED BY <2>1 DEF Write, Truncate, SetTimes, WritableFile
<1>3. /\ Did(c, what, fd[c].ino)
      /\ UNCHANGED <<entries, streams, fd, call, moved, open, pc>>
  BY <1>2 DEF Touch
<1>4. Alone(c, open[c], pc[c], fd[c], call[c], moved[c])
  BY <1>1, <1>3 DEF Alone, Sets
<1>5. ClientInv(c)'
  <2>1. ClientInv(c)
    BY DEF OpsInv
  <2>2. \A i : i # 0 /\ IsStream(i) => IsStream(i)'
    BY <1>3 DEF IsStream
  <2> QED BY <1>3, <2>1, <2>2, Bystander
<1>6. LastRight' /\ last' \in Changes
  <2>1. last'.by = c /\ last'.what = what /\ last' \in Changes
    BY <1>1, <1>3 DEF Did, Changes, Fds
  <2>2. ~read_only' /\ TreeAccess(c)' = TreeAccess(c)
    BY <1>2 DEF TreeAccess
  <2> QED BY <1>2, <2>1, <2>2 DEF LastRight, OnlyWritersChangeData, ReadOnlyBackendUnchanged,
        DeletesOwn
<1>7. /\ open[c] \in Opens /\ pc[c] \in Pcs /\ fd[c] \in Fds /\ call[c] \in Calls
      /\ moved[c] \in BOOLEAN
  BY <1>1
<1> QED BY <1>1, <1>4, <1>5, <1>6, <1>7, Single

LEMMA StepCreateStart ==
    ASSUME OpsInv, NEW c \in Clients, read_only' = read_only, NEW o \in Requests,
           CreateStart(c, o)
    PROVE  OpsInv'
<1> DEFINE k == [NoCall EXCEPT !.at = FirstOpenStep(o), !.opts = o]
<1>1. o \in OpenOptions
  BY FileOpsAssumption
<1>2. /\ fd \in [Clients -> Fds] /\ moved \in [Clients -> BOOLEAN]
      /\ open \in [Clients -> Opens] /\ pc \in [Clients -> Pcs]
  BY Types
<1>3. /\ pc[c] = "idle" /\ ~open[c].has /\ CreateAllowed(c, o)
      /\ pc' = [pc EXCEPT ![c] = "create"] /\ call' = [call EXCEPT ![c] = k]
      /\ DidNothing /\ UNCHANGED <<entries, streams, fd, moved, open>>
  BY DEF CreateStart, StartOpen, Idle
<1>4. /\ FirstOpenStep(o) \in CreateCalls \cup StreamCalls \cup {"err"}
      /\ FirstOpenStep(o) \in {"exists", "mkdir"} => o.intent # "Open"
      /\ FirstOpenStep(o) \in CreateCalls => ~o.stream
      /\ FirstOpenStep(o) \in StreamCalls => o.stream
      /\ read_only /\ Writes(o) => FirstOpenStep(o) = "err"
  <2>1. CASE read_only /\ Writes(o)
    BY <2>1 DEF FirstOpenStep, CreateCalls, StreamCalls
  <2>2. CASE ~(read_only /\ Writes(o)) /\ o.stream
    BY <2>2 DEF FirstOpenStep, CreateCalls, StreamCalls
  <2>3. CASE ~(read_only /\ Writes(o)) /\ ~o.stream /\ ~o.directory
    BY <2>3 DEF FirstOpenStep, CreateCalls, StreamCalls
  <2>4. CASE ~(read_only /\ Writes(o)) /\ ~o.stream /\ o.directory
    <3>1. FirstOpenStep(o) = CASE o.intent = "Open" -> "opendir"
                               [] o.intent = "Create" -> "mkdir"
                               [] o.intent = "OpenOrCreate" -> "exists"
                               [] OTHER -> "err"
      BY <2>4 DEF FirstOpenStep
    <3> QED BY <2>4, <3>1 DEF CreateCalls, StreamCalls
  <2> QED BY <2>1, <2>2, <2>3, <2>4
<1>5. FirstOpenStep(o) \notin {"idle", "ok"}
  BY <1>4 DEF CreateCalls, StreamCalls
<1>6. k \in Calls /\ k.at = FirstOpenStep(o) /\ k.opts = o
  <2>1. NoCall \in Calls
    BY NoCallIs
  <2> QED BY <1>1, <1>4, <2>1 DEF Calls, AnyOptions, Over
<1> HIDE DEF k
<1>7. Alone(c, open[c], "create", fd[c], k, moved[c])
  BY <1>2, <1>3 DEF Alone, Sets
<1>8. open'[c] = open[c] /\ pc'[c] = "create" /\ fd'[c] = fd[c] /\ call'[c] = k
  BY <1>2, <1>3, <1>7, Types DEF Alone, Sets
<1>9. Opts(c)' = o
  BY <1>6, <1>8 DEF Opts
<1>10. ClientInv(c)'
  <2>1. CreateAllowed(c, Opts(c))'
    BY <1>3, <1>9 DEF CreateAllowed, TreeAccess
  <2>2. InCreate(c)'
    BY <1>1, <1>3, <1>4, <1>6, <1>8, <1>9, <2>1 DEF InCreate, Over
  <2>3. InRename(c)' /\ InClose(c)'
    BY <1>8 DEF InRename, InClose
  <2>4. Rightful(c)'
    <3>1. fd'[c].writable => TreeAccess(c)' = "ReadWrite"
      BY <1>8 DEF OpsInv, ClientInv, Rightful, TreeAccess
    <3>2. read_only' /\ call'[c].at \notin Over \cup {"idle"} => ~Writes(Opts(c))'
      BY <1>4, <1>6, <1>8, <1>9 DEF Over, Writes
    <3> QED BY <3>1, <3>2, <1>8 DEF Rightful
  <2>5. Follows(c)' /\ Exclusive(c)' /\ StreamFd(c)'
    BY <1>3, <1>5, <1>6, <1>8 DEF Follows, Held, Exclusive, StreamFd, At
  <2> QED BY <2>2, <2>3, <2>4, <2>5 DEF ClientInv, Requested
<1>11. LastRight' /\ last' \in Changes
  BY <1>3, DidNothingRight
<1>12. /\ open[c] \in Opens /\ fd[c] \in Fds /\ moved[c] \in BOOLEAN /\ "create" \in Pcs
       /\ "create" = "idle" <=> k.at = "idle"
       /\ open[c].has => fd[c].ino # 0
  BY <1>2, <1>3, <1>5, <1>6 DEF Pcs
<1> QED BY <1>6, <1>7, <1>10, <1>11, <1>12, Single

(* A request ends, with handle f and Open o.                               *)
Ends(c, f, o) ==
    /\ EndRequest(c, f)
    /\ open' = [open EXCEPT ![c] = o]
    /\ read_only' = read_only

LEMMA Ending ==
    ASSUME OpsInv, NEW c \in Clients, NEW f \in Fds, NEW o \in Opens, Ends(c, f, o),
           f.writable => TreeAccess(c) = "ReadWrite",
           o.has => f.ino # 0 /\ o.path \in Names,
           o.has /\ ~moved[c] /\ ~IsStream(f.ino) => entries[o.path] = f.ino
    PROVE  OpsInv'
<1>1. /\ fd \in [Clients -> Fds] /\ moved \in [Clients -> BOOLEAN]
      /\ open \in [Clients -> Opens] /\ pc \in [Clients -> Pcs]
      /\ call \in [Clients -> Calls]
  BY Types
<1> SUFFICES ASSUME NEW m \in BOOLEAN, m <=> f # NoFd /\ moved[c],
                    moved' = [moved EXCEPT ![c] = m]
             PROVE  OpsInv'
  <2>1. moved' = [moved EXCEPT ![c] = (f # NoFd /\ moved[c])]
    BY Zenon DEF Ends, EndRequest
  <2>2. (f # NoFd /\ moved[c]) \in BOOLEAN
    BY Zenon
  <2>3. moved' = [moved EXCEPT ![c] = IF f # NoFd /\ moved[c] THEN TRUE ELSE FALSE]
    <3>1. (f # NoFd /\ moved[c]) = IF f # NoFd /\ moved[c] THEN TRUE ELSE FALSE
      BY <2>2
    <3> QED BY <2>1, <3>1, Zenon
  <2> QED BY <2>3
<1>2. /\ Alone(c, o, "idle", f, NoCall, m) /\ DidNothing
      /\ entries' = entries /\ streams' = streams /\ read_only' = read_only
  BY <1>1 DEF Alone, Sets, Ends, EndRequest
<1>3. /\ open'[c] = o /\ pc'[c] = "idle" /\ fd'[c] = f /\ call'[c] = NoCall
      /\ moved'[c] <=> m
  BY <1>1, <1>2 DEF Alone, Sets
<1>4. ClientInv(c)'
  <2>1. Requested(c)'
    BY <1>3 DEF Requested, InCreate, InRename, InClose
  <2>2. Rightful(c)'
    BY <1>2, <1>3, NoCallIs DEF Rightful, TreeAccess
  <2>3. Exclusive(c)' /\ StreamFd(c)'
    BY <1>3 DEF Exclusive, StreamFd
  <2>4. Follows(c)'
    <3>1. (Held(c)' <=> o.has) /\ GoesBy(c)' = o.path
      BY <1>3 DEF Held, GoesBy
    <3>2. IsStream(fd[c].ino)' <=> IsStream(f.ino)
      BY <1>2, <1>3 DEF IsStream
    <3>3. o.has => f # NoFd
      BY NoFdIs
    <3> QED BY <1>2, <1>3, <3>1, <3>2, <3>3 DEF Follows
  <2> QED BY <2>1, <2>2, <2>3, <2>4 DEF ClientInv
<1>5. LastRight' /\ last' \in Changes
  BY <1>2, DidNothingRight
<1>6. "idle" \in Pcs /\ NoCall \in Calls /\ NoCall.at = "idle"
  BY NoCallIs DEF Pcs
<1> QED BY <1>2, <1>4, <1>5, <1>6, Single

LEMMA StepCreateEnds ==
    ASSUME OpsInv, NEW c \in Clients, read_only' = read_only,
           CreateFailed(c) \/ CreateRegister(c) \/ CreateLost(c)
    PROVE  OpsInv'
<1>1. /\ fd[c] \in Fds /\ open \in [Clients -> Opens] /\ open[c] \in Opens
  BY Types
<1>2. pc[c] = "create"
  BY DEF CreateFailed, CreateRegister, CreateLost
<1>3. Requested(c) /\ Rightful(c) /\ Follows(c)
  BY DEF OpsInv, ClientInv
<1>4. ~open[c].has /\ Opts(c) \in OpenOptions
  BY <1>2, <1>3 DEF Requested, InCreate
<1>5. CASE CreateFailed(c) \/ CreateLost(c)
  <2>1. Ends(c, NoFd, open[c])
    BY <1>1, <1>5 DEF CreateFailed, CreateLost, Ends
  <2> QED BY <1>1, <1>4, <2>1, NoFdIs, Ending
<1>6. CASE CreateRegister(c)
  <2> SUFFICES ASSUME NEW o, o = [has |-> TRUE, path |-> Path(c), stream |-> Opts(c).stream,
                                  is_directory |-> fd[c].ino \in Dirs,
                                  delete_on_close |-> Opts(c).delete_on_close]
               PROVE  OpsInv'
    OBVIOUS
  <2>1. Path(c) \in Names /\ Path(c) = Opts(c).path
    BY <1>4 DEF OpenOptions, Opts, Path
  <2>2. o \in Opens /\ o.has /\ o.path = Path(c)
    BY <1>4, <2>1 DEF Opens, OpenOptions
  <2>3. At(c, "ok") /\ Ends(c, fd[c], o)
    BY <1>6 DEF CreateRegister, Ends
  <2>4. Held(c) /\ GoesBy(c) = Path(c)
    BY <1>2, <2>3 DEF Held, GoesBy
  <2>5. /\ fd[c].ino # 0
        /\ ~moved[c] /\ ~IsStream(fd[c].ino) => entries[Path(c)] = fd[c].ino
    BY <1>3, <2>4 DEF Follows
  <2>6. fd[c].writable => TreeAccess(c) = "ReadWrite"
    BY <1>3 DEF Rightful
  <2> QED BY <1>1, <2>1, <2>2, <2>3, <2>5, <2>6, Ending
<1> QED BY <1>5, <1>6

LEMMA StepRenameDone ==
    ASSUME OpsInv, NEW c \in Clients, read_only' = read_only, RenameDone(c)
    PROVE  OpsInv'
<1> SUFFICES ASSUME NEW o, o = IF At(c, "ok") /\ open[c].has
                               THEN [open[c] EXCEPT !.path = call[c].to,
                                                    !.stream = call[c].to_stream]
                               ELSE open[c]
             PROVE  OpsInv'
  OBVIOUS
<1>1. fd[c] \in Fds /\ open \in [Clients -> Opens] /\ open[c] \in Opens /\ call[c] \in Calls
  BY Types
<1>2. pc[c] = "rename" /\ (At(c, "ok") \/ At(c, "err"))
  BY DEF RenameDone
<1>3. Requested(c) /\ Rightful(c) /\ Follows(c)
  BY DEF OpsInv, ClientInv
<1>4. call[c].to \in Names /\ (open[c].has => Path(c) = open[c].path)
  BY <1>2, <1>3 DEF Requested, InRename
<1>5. open' = [open EXCEPT ![c] = o]
  BY <1>1 DEF RenameDone, SetLastPath
<1>6. Ends(c, fd[c], o)
  BY <1>5 DEF RenameDone, Ends
<1>7. o \in Opens /\ (o.has <=> open[c].has)
  BY <1>1, <1>4 DEF Opens, Calls
<1>8. o.has => o.path = GoesBy(c)
  BY <1>1, <1>2, <1>4, <1>7 DEF GoesBy, At, Opens
<1>9. o.has => /\ fd[c].ino # 0 /\ o.path \in Names
               /\ ~moved[c] /\ ~IsStream(fd[c].ino) => entries[o.path] = fd[c].ino
  BY <1>3, <1>7, <1>8 DEF Follows, Held
<1>10. fd[c].writable => TreeAccess(c) = "ReadWrite"
  BY <1>3 DEF Rightful
<1> QED BY <1>1, <1>6, <1>7, <1>9, <1>10, Ending

LEMMA StepCloseDone ==
    ASSUME OpsInv, NEW c \in Clients, read_only' = read_only, CloseDone(c)
    PROVE  OpsInv'
<1>1. open \in [Clients -> Opens] /\ open[c] \in Opens
  BY Types
<1>2. Ends(c, NoFd, open[c]) /\ pc[c] = "close"
  BY <1>1 DEF CloseDone, Ends
<1>3. ~open[c].has
  BY <1>2 DEF OpsInv, ClientInv, Requested, InClose
<1> QED BY <1>1, <1>2, <1>3, NoFdIs, Ending

LEMMA StepDisposition ==
    ASSUME OpsInv, NEW c \in Clients, read_only' = read_only, NEW b \in BOOLEAN,
           Disposition(c, b)
    PROVE  OpsInv'
<1> DEFINE o == [open[c] EXCEPT !.delete_on_close = b]
<1>1. /\ fd \in [Clients -> Fds] /\ call \in [Clients -> Calls]
      /\ moved \in [Clients -> BOOLEAN] /\ open \in [Clients -> Opens]
      /\ pc \in [Clients -> Pcs]
      /\ pc[c] = "idle" <=> call[c].at = "idle"
      /\ open[c].has => fd[c].ino # 0
  BY Types
<1>2. /\ pc[c] = "idle" /\ open[c].has /\ open' = [open EXCEPT ![c] = o] /\ DidNothing
      /\ UNCHANGED <<entries, streams, fd, call, moved, pc>>
  BY <1>1 DEF Disposition, HasOpen, Idle
<1>3. o \in Opens /\ o.has = open[c].has /\ o.path = open[c].path
  BY <1>1 DEF Opens
<1> HIDE DEF o
<1>4. Alone(c, o, pc[c], fd[c], call[c], moved[c])
  BY <1>1, <1>2 DEF Alone, Sets
<1>5. open'[c] = o /\ pc'[c] = pc[c] /\ fd'[c] = fd[c] /\ call'[c] = call[c]
  BY <1>1, <1>2
<1>6. ClientInv(c)'
  <2>1. Rightful(c) /\ Follows(c)
    BY DEF OpsInv, ClientInv
  <2>2. Requested(c)' /\ Exclusive(c)' /\ StreamFd(c)'
    BY <1>2, <1>5 DEF Requested, InCreate, InRename, InClose, Exclusive, StreamFd
  <2>3. Rightful(c)'
    BY <1>1, <1>2, <1>5, <2>1 DEF Rightful, TreeAccess
  <2>4. Follows(c)'
    <3>1. Held(c) /\ GoesBy(c) = o.path /\ GoesBy(c)' = o.path
      BY <1>2, <1>3, <1>5 DEF Held, GoesBy
    <3>2. IsStream(fd[c].ino)' <=> IsStream(fd[c].ino)
      BY <1>2 DEF IsStream
    <3> QED BY <1>2, <1>3, <1>5, <2>1, <3>1, <3>2 DEF Follows
  <2> QED BY <2>2, <2>3, <2>4 DEF ClientInv
<1>7. LastRight' /\ last' \in Changes
  BY <1>2, DidNothingRight
<1>8. /\ pc[c] \in Pcs /\ fd[c] \in Fds /\ call[c] \in Calls /\ moved[c] \in BOOLEAN
      /\ o.has => fd[c].ino # 0
  BY <1>1, <1>3
<1> QED BY <1>1, <1>3, <1>4, <1>6, <1>7, <1>8, Single

(* A backend call about a path, as StartRename and StartUnlink make it.    *)
PathCall(k, at, path, stream, to, to_stream) ==
    /\ at \in RenameCalls \cup UnlinkCalls \cup {"err"}
    /\ path \in Names /\ stream \in BOOLEAN
    /\ to \in Names \cup {NoName} /\ to_stream \in BOOLEAN
    /\ \/ k = [NoCall EXCEPT !.at = at, !.opts = OfPath(path, stream),
                             !.to = to, !.to_stream = to_stream]
       \/ k = [NoCall EXCEPT !.at = at, !.opts = OfPath(path, stream)] /\ to = NoName

LEMMA CallOfPath ==
    ASSUME NEW at, NEW path, NEW stream, NEW to, NEW to_stream, NEW k,
           PathCall(k, at, path, stream, to, to_stream)
    PROVE  k \in Calls /\ k.at = at /\ k.opts.path = path /\ k.to = to
<1> USE DEF PathCall
<1>1. OfPath(path, stream) \in AnyOptions /\ OfPath(path, stream).path = path
  BY DEF OfPath, NoOptions, AnyOptions
<1>2. NoCall = [at |-> "idle", opts |-> NoOptions, to |-> NoName, to_stream |-> FALSE, made |-> 0]
  BY DEF NoCall
<1>3. /\ k.at = at /\ k.opts = OfPath(path, stream) /\ k.to = to
      /\ k.to_stream \in BOOLEAN /\ k.made = 0
      /\ DOMAIN k = DOMAIN NoCall /\ k = [x \in DOMAIN NoCall |-> k[x]]
  BY <1>2 DEF PathCall
<1>4. k = [at |-> k.at, opts |-> k.opts, to |-> k.to, to_stream |-> k.to_stream, made |-> k.made]
  BY <1>2, <1>3
<1> QED BY <1>1, <1>3, <1>4 DEF Calls, Over

LEMMA StepRenameStart ==
    ASSUME OpsInv, NEW c \in Clients, read_only' = read_only,
           NEW p \in Targets, NEW r \in BOOLEAN, RenameStart(c, p[1], p[2], r)
    PROVE  OpsInv'
<1> DEFINE at == IF read_only THEN "err" ELSE IF r THEN "rename" ELSE "rename_check"
           k == [NoCall EXCEPT !.at = at, !.opts = OfPath(open[c].path, open[c].stream),
                               !.to = p[1], !.to_stream = p[2]]
<1>1. p[1] \in Names /\ p[2] \in BOOLEAN
  BY FileOpsAssumption DEF Targets, OpenOptions
<1>2. /\ fd \in [Clients -> Fds] /\ call \in [Clients -> Calls]
      /\ moved \in [Clients -> BOOLEAN] /\ open \in [Clients -> Opens]
      /\ pc \in [Clients -> Pcs]
      /\ open[c].has => fd[c].ino # 0
  BY Types
<1>3. pc[c] = "idle" /\ open[c].has
  BY DEF RenameStart, HasOpen, Idle
<1>4. Rightful(c) /\ Follows(c)
  BY DEF OpsInv, ClientInv
<1>5. /\ open[c].path \in Names
      /\ ~moved[c] /\ ~IsStream(fd[c].ino) => entries[open[c].path] = fd[c].ino
  BY <1>3, <1>4 DEF Follows, Held, GoesBy
<1>6. open[c].stream \in BOOLEAN
  BY <1>2 DEF Opens
<1>7. at \in RenameCalls \cup {"err"} /\ (read_only => at = "err")
  BY DEF RenameCalls
<1>9. call' = [call EXCEPT ![c] = k]
  BY DEF RenameStart, StartRename
<1>16. PathCall(k, at, open[c].path, open[c].stream, p[1], p[2])
  <2> HIDE DEF at
  <2> QED BY <1>1, <1>5, <1>6, <1>7 DEF PathCall
<1> HIDE DEF k, at
<1>8. k \in Calls /\ k.at = at /\ k.opts.path = open[c].path /\ k.to = p[1]
  BY <1>16, CallOfPath
<1>10. /\ pc' = [pc EXCEPT ![c] = "rename"] /\ DidNothing
       /\ UNCHANGED <<entries, streams, fd, moved, open>>
  BY DEF RenameStart
<1>11. Alone(c, open[c], "rename", fd[c], k, moved[c])
  BY <1>2, <1>9, <1>10 DEF Alone, Sets
<1>12. open'[c] = open[c] /\ pc'[c] = "rename" /\ fd'[c] = fd[c] /\ call'[c] = k
  BY <1>2, <1>9, <1>10
<1>13. ClientInv(c)'
  <2>1. Requested(c)'
    BY <1>1, <1>5, <1>7, <1>8, <1>12 DEF Requested, InCreate, InRename, InClose, Path, Over
  <2>2. Rightful(c)'
    BY <1>4, <1>7, <1>8, <1>12 DEF Rightful, TreeAccess, Over
  <2>3. Exclusive(c)' /\ StreamFd(c)'
    BY <1>12 DEF Exclusive, StreamFd
  <2>4. Follows(c)'
    <3>1. k.at # "ok"
      BY <1>7, <1>8 DEF RenameCalls
    <3>2. GoesBy(c)' = open[c].path
      BY <1>8, <1>12, <3>1 DEF GoesBy, At, Path
    <3>3. IsStream(fd[c].ino)' <=> IsStream(fd[c].ino)
      BY <1>10 DEF IsStream
    <3> QED BY <1>2, <1>3, <1>5, <1>10, <1>12, <3>2, <3>3 DEF Follows
  <2> QED BY <2>1, <2>2, <2>3, <2>4 DEF ClientInv
<1>14. LastRight' /\ last' \in Changes
  BY <1>10, DidNothingRight
<1>15. /\ open[c] \in Opens /\ fd[c] \in Fds /\ moved[c] \in BOOLEAN /\ "rename" \in Pcs
       /\ "rename" = "idle" <=> k.at = "idle"
  BY <1>2, <1>7, <1>8 DEF Pcs, RenameCalls
<1> QED BY <1>2, <1>8, <1>11, <1>13, <1>14, <1>15, Single

LEMMA NoOpenIs == NoOpen \in Opens /\ ~NoOpen.has
BY DEF NoOpen, Opens

(* The Open of c goes; a rename of c that waits for the backend goes on.   *)
LEMMA Dropping ==
    ASSUME OpsInv, NEW c \in Clients, pc[c] \in {"idle", "rename"},
           Alone(c, NoOpen, pc[c], NoFd, call[c], FALSE), DidNothing
    PROVE  OpsInv'
<1>1. /\ fd \in [Clients -> Fds] /\ call \in [Clients -> Calls]
      /\ open \in [Clients -> Opens] /\ pc \in [Clients -> Pcs]
      /\ pc[c] = "idle" <=> call[c].at = "idle"
  BY Types
<1>2. /\ open'[c] = NoOpen /\ pc'[c] = pc[c] /\ fd'[c] = NoFd /\ call'[c] = call[c]
      /\ read_only' = read_only
  BY <1>1 DEF Alone, Sets
<1>3. Requested(c) /\ Rightful(c)
  BY DEF OpsInv, ClientInv
<1>4. ClientInv(c)'
  <2>1. Requested(c)'
    BY <1>2, <1>3, NoOpenIs DEF Requested, InCreate, InRename, InClose, Path
  <2>2. Rightful(c)'
    BY <1>2, <1>3, NoFdIs DEF Rightful, TreeAccess, Opts
  <2>3. Exclusive(c)' /\ StreamFd(c)' /\ Follows(c)'
    BY <1>2, NoOpenIs DEF Exclusive, StreamFd, Follows, Held
  <2> QED BY <2>1, <2>2, <2>3 DEF ClientInv
<1>5. LastRight' /\ last' \in Changes
  BY DidNothingRight
<1>6. call[c] \in Calls /\ pc[c] \in Pcs
  BY <1>1
<1> QED BY <1>1, <1>4, <1>5, <1>6, NoOpenIs, NoFdIs, Single

LEMMA StepCloseTree ==
    ASSUME OpsInv, NEW c \in Clients, read_only' = read_only, CloseTree(c)
    PROVE  OpsInv'
<1>1. call \in [Clients -> Calls] /\ pc \in [Clients -> Pcs]
  BY Types
<1>2. Alone(c, NoOpen, pc[c], NoFd, call[c], FALSE) /\ DidNothing /\ pc[c] \in {"idle", "rename"}
  BY <1>1 DEF CloseTree, CloseHandle, Alone, Sets
<1> QED BY <1>2, Dropping

LEMMA StepCloseStart ==
    ASSUME OpsInv, NEW c \in Clients, read_only' = read_only, CloseStart(c)
    PROVE  OpsInv'
<1>1. /\ fd \in [Clients -> Fds] /\ call \in [Clients -> Calls]
      /\ moved \in [Clients -> BOOLEAN] /\ open \in [Clients -> Opens]
      /\ pc \in [Clients -> Pcs]
      /\ open[c].has => fd[c].ino # 0
  BY Types
<1>2. pc[c] = "idle" /\ open[c].has
  BY DEF CloseStart, HasOpen, Idle
<1>3. /\ open' = [open EXCEPT ![c] = NoOpen] /\ DidNothing
      /\ entries' = entries /\ streams' = streams
  BY DEF CloseStart
<1>4. CASE ~open[c].delete_on_close
  <2>1. CloseHandle(c) /\ UNCHANGED <<pc, call>>
    BY <1>4 DEF CloseStart
  <2>2. Alone(c, NoOpen, pc[c], NoFd, call[c], FALSE)
    BY <1>1, <1>3, <2>1 DEF CloseHandle, Alone, Sets
  <2> QED BY <1>2, <1>3, <2>2, Dropping
<1>5. CASE open[c].delete_on_close
  <2> DEFINE at == IF read_only THEN "err" ELSE "rm_stat"
             k == [NoCall EXCEPT !.at = at, !.opts = OfPath(open[c].path, open[c].stream)]
  <2>1. Rightful(c) /\ Follows(c)
    BY DEF OpsInv, ClientInv
  <2>2. /\ open[c].path \in Names
        /\ ~moved[c] /\ ~IsStream(fd[c].ino) => entries[open[c].path] = fd[c].ino
    BY <1>2, <2>1 DEF Follows, Held, GoesBy
  <2>3. open[c].stream \in BOOLEAN
    BY <1>1 DEF Opens
  <2>4. at \in UnlinkCalls \cup {"err"} /\ (read_only => at = "err")
    BY DEF UnlinkCalls
  <2>6. /\ pc' = [pc EXCEPT ![c] = "close"]
        /\ StartUnlink(c, open[c].path, open[c].stream) /\ UNCHANGED <<fd, moved>>
    BY <1>5 DEF CloseStart
  <2>8. call' = [call EXCEPT ![c] = k]
    BY <2>6 DEF StartUnlink
  <2>7. PathCall(k, at, open[c].path, open[c].stream, NoName, open[c].stream)
    <3> HIDE DEF at
    <3> QED BY <2>2, <2>3, <2>4 DEF PathCall
  <2> HIDE DEF k, at
  <2>5. k \in Calls /\ k.at = at /\ k.opts.path = open[c].path
    BY <2>7, CallOfPath
  <2>9. Alone(c, NoOpen, "close", fd[c], k, moved[c])
    BY <1>1, <1>3, <2>6, <2>8 DEF Alone, Sets
  <2>10. open'[c] = NoOpen /\ pc'[c] = "close" /\ fd'[c] = fd[c] /\ call'[c] = k
    BY <1>1, <1>3, <2>6, <2>8
  <2>11. ClientInv(c)'
    <3>1. Requested(c)'
      BY <2>2, <2>4, <2>5, <2>10, NoOpenIs DEF Requested, InCreate, InRename, InClose, Path, Over
    <3>2. Rightful(c)'
      BY <2>1, <2>4, <2>5, <2>10 DEF Rightful, TreeAccess, Over
    <3>3. Exclusive(c)' /\ StreamFd(c)'
      BY <2>10 DEF Exclusive, StreamFd
    <3>4. Follows(c)'
      <4>1. GoesBy(c)' = open[c].path
        BY <2>5, <2>10 DEF GoesBy, Path
      <4>2. IsStream(fd[c].ino)' <=> IsStream(fd[c].ino)
        BY <1>3, <2>6 DEF IsStream
      <4> QED BY <1>1, <1>2, <1>3, <2>2, <2>6, <2>10, <4>1, <4>2, NoOpenIs DEF Follows
    <3> QED BY <3>1, <3>2, <3>3, <3>4 DEF ClientInv
  <2>12. LastRight' /\ last' \in Changes
    BY <1>3, DidNothingRight
  <2>13. /\ fd[c] \in Fds /\ moved[c] \in BOOLEAN /\ "close" \in Pcs
         /\ "close" = "idle" <=> k.at = "idle"
    BY <1>1, <2>4, <2>5 DEF Pcs, UnlinkCalls
  <2> QED BY <1>1, <1>2, <2>5, <2>9, <2>11, <2>12, <2>13, NoOpenIs, Single
<1> QED BY <1>4, <1>5

-----------------------------------------------------------------------------
(* The invariant.                                                          *)

LEMMA InitOpsInv == Init => OpsInv
<1> SUFFICES ASSUME Init PROVE OpsInv
  OBVIOUS
<1>1. /\ read_only \in BOOLEAN /\ entries \in [Names -> Inodes \cup {0}]
      /\ streams = [n \in Names |-> 0] /\ fd = [c \in Clients |-> NoFd]
      /\ call = [c \in Clients |-> NoCall] /\ moved = [c \in Clients |-> FALSE]
      /\ last = Nothing /\ open = [c \in Clients |-> NoOpen]
      /\ pc = [c \in Clients |-> "idle"]
  BY DEF Init, LocalFsInit
<1>2. LocalFsTypeOK
  BY <1>1, CallsAre, NoFdIs, NoCallIs, NothingIs DEF LocalFsTypeOK, Changes
<1>3. TypeOK
  BY <1>1, <1>2, NoOpenIs, NoCallIs DEF TypeOK, Idle, At
<1>4. \A c \in Clients : ClientInv(c)
  <2> TAKE c \in Clients
  <2>1. pc[c] = "idle" /\ open[c] = NoOpen /\ fd[c] = NoFd /\ call[c].at = "idle"
    BY <1>1, NoCallIs
  <2> QED BY <2>1, NoOpenIs, NoFdIs DEF ClientInv, Requested, InCreate, InRename, InClose,
        Rightful, Follows, Held, Exclusive, StreamFd
<1>5. NamesApart
  BY <1>1 DEF NamesApart, IsStream
<1>6. LastRight
  BY <1>1, NothingIs DEF LastRight, OnlyWritersChangeData, ReadOnlyBackendUnchanged, DeletesOwn
<1> QED BY <1>3, <1>4, <1>5, <1>6 DEF OpsInv

LEMMA OpsInvStutter ==
    ASSUME OpsInv, UNCHANGED vars
    PROVE  OpsInv'
<1> USE DEF vars
<1>1. TypeOK'
  BY DEF OpsInv, TypeOK, LocalFsTypeOK, Idle, At
<1>2. \A c \in Clients : ClientInv(c)'
  <2> TAKE c \in Clients
  <2>1. ClientInv(c)
    BY DEF OpsInv
  <2>2. \A i : i # 0 /\ IsStream(i) => IsStream(i)'
    BY DEF IsStream
  <2> QED BY <2>1, <2>2, Bystander
<1>3. NamesApart'
  BY DEF OpsInv, NamesApart, IsStream
<1>4. LastRight'
  BY DEF OpsInv, LastRight, OnlyWritersChangeData, ReadOnlyBackendUnchanged, DeletesOwn,
     IsStream, TreeAccess
<1> QED BY <1>1, <1>2, <1>3, <1>4 DEF OpsInv

LEMMA OpsInvInductive == Spec => []OpsInv
<1>1. OpsInv /\ [Next]_vars => OpsInv'
  <2> SUFFICES ASSUME OpsInv, [Next]_vars PROVE OpsInv'
    OBVIOUS
  <2>1. CASE UNCHANGED vars
    BY <2>1, OpsInvStutter
  <2>2. CASE Next
    <3>1. read_only' = read_only
      BY <2>2 DEF Next
    <3>2. ASSUME NEW c \in Clients, NEW o \in Requests, CreateStart(c, o) PROVE OpsInv'
      BY <3>1, <3>2, StepCreateStart
    <3>3. ASSUME NEW c \in Clients, CreateFailed(c) \/ CreateRegister(c) \/ CreateLost(c)
          PROVE  OpsInv'
      BY <3>1, <3>3, StepCreateEnds
    <3>4. ASSUME NEW c \in Clients, Write(c) \/ Truncate(c) \/ SetTimes(c) PROVE OpsInv'
      BY <3>1, <3>4, StepTouch
    <3>5. ASSUME NEW c \in Clients, NEW b \in BOOLEAN, Disposition(c, b) PROVE OpsInv'
      BY <3>1, <3>5, StepDisposition
    <3>6. ASSUME NEW c \in Clients, NEW p \in Targets, NEW r \in BOOLEAN,
                 RenameStart(c, p[1], p[2], r)
          PROVE  OpsInv'
      BY <3>1, <3>6, StepRenameStart
    <3>7. ASSUME NEW c \in Clients, RenameDone(c) PROVE OpsInv'
      BY <3>1, <3>7, StepRenameDone
    <3>8. ASSUME NEW c \in Clients, CloseStart(c) PROVE OpsInv'
      BY <3>1, <3>8, StepCloseStart
    <3>9. ASSUME NEW c \in Clients, CloseDone(c) PROVE OpsInv'
      BY <3>1, <3>9, StepCloseDone
    <3>10. ASSUME NEW c \in Clients, CloseTree(c) PROVE OpsInv'
      BY <3>1, <3>10, StepCloseTree
    <3>11. ASSUME NEW c \in Clients, BackendStep(c), UNCHANGED <<open, pc>> PROVE OpsInv'
      BY <3>1, <3>11, StepBackend
    <3> QED BY <2>2, <3>2, <3>3, <3>4, <3>5, <3>6, <3>7, <3>8, <3>9, <3>10, <3>11 DEF Next
  <2> QED BY <2>1, <2>2
<1> QED BY <1>1, InitOpsInv, PTL DEF Spec

-----------------------------------------------------------------------------
(* The theorems.                                                           *)

(* Files are created, written and truncated only through trees with write  *)
(* access: what CREATE checks reaches every later WRITE and SET_INFO by    *)
(* the handle.                                                             *)
THEOREM WritersChangeData == Spec => []OnlyWritersChangeData
<1>1. OpsInv => OnlyWritersChangeData
  BY DEF OpsInv, LastRight
<1> QED BY <1>1, OpsInvInductive, PTL

(* A backend made with read_only is never changed by any request.          *)
THEOREM ReadOnlyStays == Spec => []ReadOnlyBackendUnchanged
<1>1. OpsInv => ReadOnlyBackendUnchanged
  BY DEF OpsInv, LastRight
<1> QED BY <1>1, OpsInvInductive, PTL

(* FILE_CREATE succeeds for a file only if this request created it.        *)
THEOREM CreateIsExclusive == Spec => []ExclusiveCreate
<1>1. OpsInv => ExclusiveCreate
  BY DEF OpsInv, ClientInv, Exclusive, ExclusiveCreate
<1> QED BY <1>1, OpsInvInductive, PTL

(* No name leads to the file of a stream, and a request for a stream opens *)
(* no file that has a name.                                                *)
THEOREM StreamsStayApart == Spec => []StreamsApart
<1>1. OpsInv => StreamsApart
  <2> SUFFICES ASSUME OpsInv
               PROVE  /\ \A i \in {entries[n] : n \in Names} \ {0} : ~IsStream(i)
                      /\ \A c \in Clients :
                           pc[c] = "create" /\ At(c, "ok") /\ Opts(c).stream
                               => fd[c].ino \notin {entries[n] : n \in Names} \ {0}
    BY DEF StreamsApart
  <2>1. \A i \in {entries[n] : n \in Names} \ {0} : ~IsStream(i)
    BY DEF OpsInv, NamesApart
  <2> QED BY <2>1 DEF OpsInv, ClientInv, StreamFd
<1> QED BY <1>1, OpsInvInductive, PTL

(* The path kept with a handle names the file that is open, through every  *)
(* rename of the client's own, until another client interferes; and what   *)
(* delete-on-close removes by that path is that file.                      *)
THEOREM PathsAreOwn == Spec => []OwnPaths
<1>1. OpsInv => OwnPaths
  <2> SUFFICES ASSUME OpsInv PROVE OwnPaths
    OBVIOUS
  <2>1. PathFollows
    <3> SUFFICES ASSUME NEW c \in Clients, HasOpen(c), ~moved[c], ~IsStream(fd[c].ino)
                 PROVE  entries[open[c].path] = fd[c].ino
      BY DEF PathFollows
    <3>1. Held(c) /\ GoesBy(c) = open[c].path
      BY DEF HasOpen, Idle, Held, GoesBy
    <3> QED BY <3>1 DEF OpsInv, ClientInv, Follows
  <2> QED BY <2>1 DEF OpsInv, LastRight, OwnPaths
<1> QED BY <1>1, OpsInvInductive, PTL
=============================================================================
