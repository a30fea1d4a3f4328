# A TLA+ model of rust-smb-server

The server is an SMB2/SMB3 file server library.  An application builds a
server from users, shares and backends, runs it, and may change users and
shares while clients are connected.  This directory holds a model of the
server's own logic, the configurations that check it with TLC, and proofs
checked by TLAPS.  Paths below are relative to `src/src/` of the repository.

## 1. The system

| Component | State | Operations | Where |
|---|---|---|---|
| Control plane | user table, share table, ACL of every share | `add_user`, `remove_user`, `add_share`, `remove_share`, `grant_share_user`, `revoke_share_user`, `set_share_mode` | `server.rs`, `builder.rs` |
| Accept loop | shutdown flag, `Notify` | `serve`, `shutdown` | `server.rs` |
| Connection tasks | reader, writer, a bounded channel, registration | `connection_loop`, `reader_task`, `writer_task` | `conn/mod.rs`, `conn/reader.rs`, `conn/writer.rs` |
| Connection tables | sessions, their trees, their opens, backend handles | `close_session`, `close_tree`, `close_sessions_for_user`, `close_matching_trees` | `conn/state.rs` |
| Handlers | what a request holds across awaits | SESSION_SETUP, LOGOFF, TREE_CONNECT, TREE_DISCONNECT, CREATE, CLOSE, READ, WRITE, FLUSH, QUERY_*, SET_INFO | `handlers/` |
| Authentication exchange | pending NTLM acceptors, preauth hashes, dialect | NEGOTIATE, the rounds of SESSION_SETUP | `handlers/session_setup.rs`, `handlers/negotiate.rs`, `dispatch.rs` |
| Dispatcher | context a compound carries from one request to the next | `dispatch_frame`, `dispatch_one`, `stitch_responses` | `dispatch.rs` |
| Local backend | the file system itself | open, rename, unlink, streams | `fs/local.rs` |
| NTLM acceptor | challenge, flags and messages of one exchange | `step1_negotiate`, `authenticate` | `proto/auth/ntlm.rs` |
| Wire format | none | framing, header, message layouts, contexts, SPNEGO, information classes | `proto/`, `info_class.rs` |
| Names | none | paths with stream selectors, wildcard patterns | `path.rs`, `utils.rs` |

How they interact.  The accept loop spawns one `connection_loop` per socket.
Its reader awaits the dispatcher inline, so a connection has one request in
progress at a time; responses go through a channel to the writer.  Handlers
read the control plane (the user table in SESSION_SETUP, the share table and
an ACL in TREE_CONNECT) and fill the connection's tables.  A `ConfigHandle`
call runs in any task.  It changes the control plane and then reaches into
every registered connection to close sessions or trees, concurrently with
the handlers of those connections and with other calls.

What is hard: values read under one lock and used under another; sweeps over
tables that change meanwhile; handles closed while a request uses them; locks
held while waiting for other locks; a shutdown that must wake a task; a full
channel.  `PROJECT.json` lists these hazards with their lines.

What makes each part correct:

- control plane: ACLs name known users; public shares have no explicit users;
  every call returns;
- connection tables and sweeps: what a revoking call is to close is closed
  when it returns; what it may miss is known exactly; handles are closed
  once, never under I/O, never lost; nobody waits for ever;
- authentication: a session's key comes from the messages of its own
  exchange; a challenge is answered once; success is signed;
- dispatcher: an inherited id is the one the client means; an answer is signed
  as the client hears it, the padding behind it apart; what ran is answered;
- opens and backend: who may not write changes nothing; a handle and the path
  kept with it belong together; exclusive means exclusive; a directory is
  listed completely;
- accept loop and tasks: whoever may hold sessions is registered; a client
  that leaves frees its connection; shutdown stops dispatching, and accepting
  with the next client;
- NTLM: who is accepted has proven a password for this challenge, and both
  sides have the same key; who has the password is accepted;
- wire format: a request is handled as it was meant or refused; an answer is
  found where it says it is, and there is one for each request;
- names: what parses as a path stays inside the share and means what it says;
  the matcher finds exactly the matches.

## 2. Modules

**ShareConfig** models the control plane.  A call of `ConfigHandle` is a
record in `job[a]` and a place in `pc[a]`; it is split at every lock
acquisition, and what happens under one guard is one action.  `add_share` and
`grant_share_user` keep the read guard of the user table until they return;
`UsersReadHeld` is that guard, and `AddUser` and `RemoveUser` wait for it.
A share table entry is an `Arc`: `Bindings` are those objects, and `FindShare`
puts one in `bind[a]`, so a task may work on the ACL of a share that has been
removed.  An unreferenced binding may be allocated again.  `ConfigInit` is
any configuration `SmbServerBuilder::build` accepts.  User names exclude the
reserved ones and share names are taken modulo case, as `validate_user_name`,
`validate_share_name` and `eq_ignore_ascii_case` do.

**AccessTable** is the abstract specification of the control plane: one table of
who may use which share.  A call is made, takes effect once on the table as it
is at that moment or is refused by what it is then, and returns; there are no
locks, no bindings and no steps inside a call.  It gives up two things, which
the code cannot keep: a call on the ACL of a share that somebody removes
meanwhile may change nothing (`lost`), and `remove_user` takes the rights of its
user from one share at a time, among them perhaps rights given meanwhile to
somebody of the same name (`owed`).  `ShareConfig` implements it
(`ImplementsTable`): the table shows the ACL of the binding behind every name
(`ShareTable`), a call between its check and its change is still `called`
(`Stages`), it is lost if its share has another binding or none than the one it
has found (`LostCalls`), and `OwedShares` are those in the snapshot of
`remove_user` which name its user.

**SmbSessions** extends ShareConfig with the connections.  Sessions, trees
and opens are the tuples `<<connection, kind, k>>`; ids come from counters and
are never reused, so an object and its id are one.  `h[c]` is the request a
connection is handling, with what it holds across awaits; `w[p]` is what an
actor (an admin task or a handler) still has to close, from connections down
to handles.  LOGOFF, TREE_DISCONNECT and the sweeps close through the same
functions in the code and through the same actions here (`CloseSession`,
`DrainSession`, `RemoveTree`, `DrainTree`, `CloseDrained`).  The locks held
across a wait are the write lock of a session while its trees are closed
(`lockS`), the write lock of a tree while its handles are closed (`lockT`)
and the read lock of an open during I/O (`InIo`); all others are taken and
released within one action.  An object a sweep has locked is no longer in the
table it was taken from, which is why scans of a table can be one action.
READ, WRITE, FLUSH and the handle operations of SET_INFO, QUERY_INFO and
QUERY_DIRECTORY have the same shape (`FileIo`, `IoLookup`, `IoBegin`, `IoEnd`).
`doomed` and `late` are history variables used by properties only.  The
synthetic share IPC$ is left out: its binding is private to its tree, nobody
can revoke it and its backend opens nothing.

**AccessControl** extends AccessTable to what clients see: sessions and trees that
enter and leave at once.  A login or a tree is checked against the table as it
is and enters later, which is the window of section 4; its access is the one
the check gave, and stays so when the right is raised or lowered.  A call that
takes something away makes due every session of its user, or tree of its
share, when it takes effect, and returns when none of these is left; nothing
else closes anything but the client itself.  `SmbSessions` implements it
(`ImplementsAccess`): a session is there while clients can use it
(`Established`: before its close begins), a tree likewise and while its session
is (`LiveSessions`, `LiveTrees`), a handler past its check has a request
(`Asking`), which is `stale` if its share has been removed since it found it,
and what a sweep has still to visit or is about to match is due (`Due`).
Handles, the locks on objects and the phases of closing are stutters.

**Lifecycle** models `serve`, `shutdown` and the tasks of a connection.
`notify_waiters` wakes the `Notified` futures that exist and stores nothing;
`serve` makes one per round of its `select!`, so the accept loop has a state
`next`, between rounds, in which a notification is lost.  A stream that was
accepted is served only if the flag is still clear (`Admit`, `Spawn`).  `late`
has the clients that waited in the listener when the flag was set and those that
connect afterwards.  Frames are tokens; one whose header does not decode ends
the connection (`ReadGarbled`).
Clients, the listener's backlog and the sockets are external.

**SessionSetup** models one connection from NEGOTIATE to LOGOFF: the handlers
and what `dispatch_one` does around them.  Requests of a connection run one
after the other, so the only concurrency is a sweep, which can come between
the insertion of a session, the computation of its 3.1.1 key and the signing
of the response; `resp.at` says which of these is next.  A preauth hash is
the sequence of the messages it has absorbed and a key is the hash it was
derived from, so "client and server have the same key" becomes equality of
sequences (`KeysAgree` compares with `Transcript`, the messages the client
hashes).  Requests carry no signature, a valid or an invalid one.
`signing_required` is always false in the code, so an unsigned request passes.

**Compound** models what the requests of a frame inherit from each other in
`dispatch_frame`: one action per request, with inheritance, signature check and
handler, and `EndFrame`, after which nothing is inherited.  Handlers are reduced
to what a later request of the frame can see: sessions, trees and opens appear
and disappear.  File ids are counted per tree.  Responses, with what their
signatures are made from, are in Exchange.

**LocalFs** models `LocalFsBackend` on one directory, one action per system
call: `open` looks at the path first and opens it afterwards, `unlink` looks
and removes, `rename` without replacement looks and renames.  Inodes are
files or directories for ever; `entries` gives the inode of a name and
`streams` is the directory beside the share that holds named streams, one of a
name in the model; how streams are named is in Paths.
`read_only` is chosen at the start and never changes.

**FileOps** extends LocalFs with CREATE, WRITE, SET_INFO, CLOSE and
`close_tree_state` for several clients.  `last` records what the latest step
changed and by whom, `moved` whether another client has moved the file a
client has open; both are used by properties only.

**QueryDirectory** models the directory cursor and the loop that fills a
response, one action per round, with entry lengths, padding, the buffer's
limit and the `NextEntryOffset` chain.

**DirectoryScan** is the abstract specification of QUERY_DIRECTORY: a scan is
a list made once, every answer hands out the next entries, at least one, and
"no more files" is the answer at the end of the list and nowhere else; every
request is answered.  `QueryDirectory` implements it (`ImplementsScan`) under
the mapping `Scan`: the list is the cursor's, the position is the number of
entries answered so far and not the cursor, which runs ahead while a buffer is
being filled, and the reply is pending from `Begin` to `Respond`.

**Ntlm** models the acceptor and the two messages it reads.  Hashes, HMACs and
RC4 are terms (records of their arguments), so two are equal exactly when what
they were made from is.  What is kept of the bytes is what the code infers from
them: AUTHENTICATE has a descriptor per field, and `HasMic` finds the MIC by
the least offset of the fields that are not empty, as `NtlmAuthenticate::parse`
does.  Clients know a password or do not.  The network may alter the flags of
NEGOTIATE and CHALLENGE, and the flags, the name, the descriptors and the length
of an AUTHENTICATE, and may deliver the AUTHENTICATE of one exchange to another.
It does not alter the number of a CHALLENGE and does not deliver it to the
client of another exchange: what follows from that is not in the model.

**Bytes** has little-endian numbers, slices that fail when out of range, and
padding.  **Messages** has the header, the framing and the layout of every
message: a layout is a sequence of fields with a width or the name of the
field that counts them, and `Parse` and `WriteTo` do what the derived
`BinRead` and `BinWrite` do with it.  Create contexts and negotiate contexts
have their own chains.  **Spnego** encodes and decodes both kinds of tokens
byte by byte.  **InfoClasses** has the structures QUERY_INFO answers with, the
limit of the client's buffer, and what SET_INFO calls the backend with.

**Exchange** composes them to what one connection carries.  A client writes a
frame of one request or of a compound of two or three (`Send`), perhaps cut
short (`Cut`); the server cuts it into parts (`Begin`), rewrites, verifies and
parses each (`Take`), and one action per handler answers it; `Finish` stitches
the answers, or drops them if a later part is malformed.  Handlers are reduced to
what they parse and answer, with any data the backend may return; what they do
to trees and files is in the other modules.  `sessions` says of two ids whether
they belong to a session of a user or of a guest, to an exchange that waits for
its last message, or to nothing: SESSION_SETUP and LOGOFF change it, and a sweep
may (`Sweep`).  `made` has for each answer the bytes its signature was made from,
first by `build_response_bytes` and then anew by `stitch_responses`
(`SignedAnew`).  `got` records what handlers were called with, `told` the dialect
in the last answer to a NEGOTIATE that the client has heard, and `unheard` one
that has been set since in a frame that was not answered; all three are for
properties only.

**Paths** has `SmbPath` and `dos_pattern_matches` as operators on sequences of
characters, with reference definitions beside them: a path means the names
between separators, and a pattern matches if some way of filling its stars
gives the name.  `stream_rel_path` is where `LocalFsBackend` keeps the stream a
path names.

**MCShareConfig**, **MCSmbSessions**, **MCSessionSetup**, **MCCompound**, **MCFileOps**,
**MCQueryDirectory**, **MCNtlm** and **MCExchange** hold what TLC needs: sets of calls,
requests and messages, sizes and smaller initial states.  **MCSessionTeams** and
**MCFileOpsFocus** add a variable, chosen at the start and never changed, that
says which actors take part and what they send: one run then covers several
instances that would be too large together.  MCExchange has one too, to check
exchanges, paths and patterns in one run.  Each definition
named `X_Something` under a comment `Mutant:` is a faulty variant of the
definition `X` below it; putting it in the place of `X` makes TLC report the
property named with it in `PROJECT.json`.

The proofs about a module are in a module beside it: **ShareConfigProofs**,
**SmbSessionsProofs** (which uses the former; each ends with its refinement), **LifecycleProofs**,
**SessionSetupProofs**, **CompoundProofs**, **FileOpsProofs** (with the lemmas about
LocalFs), **QueryDirectoryProofs** (with the refinement of DirectoryScan) and
**NtlmProofs**.

## 3. Runs

| Run | Instance | Shows |
|---|---|---|
| config | 2 tasks, 1 user, 1 name, 2 bindings, all calls | `AclUsersKnown`, `PublicHasNoUsers`, `ImplementsTable`, `CallsReturn` |
| sessions | users removed and added: 1 task, 2 clients; share made public: 1 task, 1 client; right raised and lowered: 1 task, 1 client; share removed, added, revoked: 2 tasks, 1 client; 2 bindings | `SweepComplete`, `OnlyLate`, `SweepsSpareOthers`, `ImplementsAccess` |
| sessions_live | 2 tasks, both revoking, one also removing the user; 1 client with one open | `NoIoAfterClose`, `OneOwner`, `NoLeakedHandle`, `CallsReturn`, `RequestsEnd` |
| lifecycle | 2 clients, 2 frames each, channel of 1 | `ServedWithinBounds`, `AtMostOneOverrun`, `ClosedIsUnregistered`, `StopsWithNextClient` |
| session_setup | 2 exchanges, 2 NEGOTIATEs | `KeysAgree`, `OneAttempt`, `SignedUnlessSwept`, `PreauthOwned` |
| compound | 2 sessions, one with two trees; 2, 1 and no file ids; 4 requests a frame | `PlaceholderOwn` |
| file_ops | a reader and a writer without streams, or the writer alone with every request; 2 names, 1 directory, 4 files, backend read-only or not | `OnlyWritersChangeData`, `OwnPaths`, `ExclusiveCreate`, `ReadOnlyBackendUnchanged`, `StreamsApart` |
| query_directory | 3 names, 2 classes, 3 patterns, 5 buffer lengths | `ScanComplete`, `BufferRight`, `ImplementsScan` |
| ntlm | 2 exchanges, one of them altered on the way; 2 passwords, 2 names that hash alike, one in the table; payloads with and without room for a MIC | `AcceptedRightly`, `KeysAgree`, `HonestAccepted` |
| wire | one connection, any sequence of some 850 frames, 26 of them also cut at every byte and 17 with a sweep between any two steps; paths and patterns of 5 pieces | `RequestsAsMeant`, `SignedAsSent`, `AnswersFound`, `EachAnswered`, `AnswersSigned`, `ValidateAgrees`, `NamesAgree` |
| removed_user_keeps_session | 1 task, 1 client | violated: `RemovedUserHasNoSession` |
| reader_renames | as file_ops | violated: `ReadAccessChangesNothing` |

Several invariants are conjunctions of named parts, each with its own comment
and, where it differs, its own faulty variant: `OnlyLate` (the types,
`OnlyLateSessions`, `OnlyLateTrees`), `OwnPaths` (the types, `PathFollows`,
`DeletesOwn`), `ServedWithinBounds` (the types, with the bound of the channel,
`RegisteredWhileServed`), `ScanComplete` (the types, `EachOnce`, `NoMoreIsEnd`,
`RestartMatches`), `BufferRight` (`FitsUnlessOne`, `ChainIntact`), `AcceptedRightly` (the types,
`UserProven`, `MicCovers`), `RequestsAsMeant` (the types, `Understood`,
`RelatedFollows`, `SetAsMeant`), `AnswersFound` (`ReplyFound`, `AaplAnswered`,
`InfoFound`) and `NamesAgree` (`PathTrusted`, `StreamsBelowHost`,
`DisplayParses`, `JoinAgrees`, `MatcherAgrees` of Paths).  `PreauthOwned` and `PlaceholderOwn` include the types
of SessionSetup and Compound; the types of ShareConfig are part of those of
SmbSessions, whose own are `DataTypes` in `OnlyLate`; all are proved.

Why the bounds are enough.  A race needs two parties: two admin tasks, or one
and a handler.  Handlers of different connections share nothing but the control
plane; a second connection matters to a sweep that visits them in turn, and
`sessions` has one where users are removed.  One user and one name suffice where
a property is about one (user, share) pair; for `AclUsersKnown` and
`PublicHasNoUsers` the theorems of section 6 cover any number.  Two bindings
under one name let a share be replaced while a task still holds the old one.
One session, tree and open per client lets an object be created once; the
properties are about what happens to that object, and ids are not reused.  In
Lifecycle a channel of 1 is full as soon as one response waits.  Two exchanges
let one interfere with another; the third request of a compound is the first
that can inherit from two predecessors, and a fourth lets a CREATE, one that
fails and a change of tree come before it.  In FileOps two clients share two names,
so a file can be moved away, replaced, removed and created again while a handle
to it is open; running out of inodes is a failure of the call.  Where two
clients share files they send no streams and no FILE_DELETE_ON_CLOSE (SET_INFO
sets the same flag); a single client sends everything.  The buffer lengths of
query_directory are below one entry, one entry without its padding, two entries
without and with padding, and the whole listing.  In Ntlm two exchanges let the
answer of one reach the other; a base of 64 leaves no room for a MIC and one of
88 does.  The frames of MCExchange have every command, with lengths around the
places where an encoding changes: DER lengths around 128 and 256, names with and
without padding behind them, QUERY_INFO buffers around every structure's size,
SET_INFO buffers of every length up to the whole one.  Between frames a
connection keeps its dialect and its sessions.  A frame that has changed a
session is the last of a behaviour, and after one that negotiated and was not
answered only frames follow that negotiate or ask for the dialect; otherwise any
sequence of frames is covered.  A compound of two has all a part can inherit;
those of three have an answer that is neither first nor last, and longer ones are
in Compound.  The sweeps come in the frames whose answers are signed.
Texts of five pieces hold a path of two names with a selector and its type, or a
pattern with two stars and something between and behind them.

Symmetry.  sessions identifies states that differ by a permutation of tasks,
of clients or of the bindings not in use at the start; file_ops by one of names.
No run with a liveness property uses symmetry.

Deadlock is checked in all runs but three: elsewhere some task can always make
a call, some client can always send a request.  A server that has shut down
and whose clients have left has nothing more to do (lifecycle); an exchange of
NTLM ends with its verdict (ntlm); a text ends at five pieces, and a frame that
has changed a session is the last (wire).

## 4. Where text and code disagree

Two disagreements have a run that shows them.

1. The README of the repository (line 72) says that removing a user revokes the
   user's active sessions.  SESSION_SETUP authenticates against a clone of the
   user table and inserts the session afterwards.  If `remove_user` runs in
   between, the session is inserted after the sweep and stays
   (removed_user_keeps_session).  `OnlyLateSessions` shows that this is the
   only way.
2. `builder.rs` line 68 calls a share read-only for anonymous clients.  SET_INFO
   and delete-on-close check no access (reader_renames).
   `OnlyWritersChangeData` shows that such a client changes the data of no file
   that is there; it may still unlink a file, or rename another over it, and what
   was in it is lost with it.  `ReadOnlyBackendUnchanged` shows that a backend
   made read-only loses neither data nor names.

For the following the model does what the code does, and the property that
is checked names the exception.

3. Line 72 of the README also says that revoking access closes matching trees.
   TREE_CONNECT inserts the tree after it has released the ACL.
   `OnlyLateTrees` shows that this is the only way a tree outlives its right.
4. `server.rs` line 208: the accept loop stops on the next iteration after
   `shutdown()`.  A notification between two rounds, or before the first, is
   lost, and the loop waits for another client; `StopsWithNextClient` shows that
   the next one ends it and is not served.
5. `proto/crypto/sign.rs` line 12 computes a signature over the entire message,
   and a part that comes in is verified with the padding behind it
   (`dispatch.rs` lines 126 and 331).  `stitch_responses` signs its responses
   without theirs, although NextCommand counts it (lines 233 to 244 and 268);
   `AnswersSigned` leaves the padding out and shows that, while the session lasts,
   the signature is that of all else the client hears.
6. `path.rs` line 7: backends can blindly trust a path.  A stream may be named
   `.` or `..`, and `LocalFsBackend` makes it a component of a path
   (`fs/local.rs` line 517): `a:..` is `.smb-streams/a/..`, which is no stream of
   `a`.  `PathTrusted` excludes dot names from components only, and
   `StreamsBelowHost` shows that every other stream is kept below its own file's
   directory.
7. `dispatch.rs` line 537: a successful SESSION_SETUP must be signed.  A sweep
   may close the session first; `SignedUnlessSwept` shows that nothing else
   does.
8. `proto/crypto/preauth.rs` line 5: each exchange forks its own hash.  A
   malformed or first round that names a pending exchange consumes that
   exchange's hash, and its final round forks the connection's again;
   `exch[s].clean` excludes this in `KeysAgree`.
9. `conn/writer.rs` line 10: payloads are signed already.  `stitch_responses`
   changes a signed response and cannot sign it again if its session is gone;
   `AnswersSigned` has that condition.
10. `proto/messages/create.rs` reads `create_contexts_offset` and does not use
   it: contexts are expected right behind the name, and those of a client that
   pads the name to a multiple of 8 are dropped.  `AaplAnswered` shows that they
   are then ignored, never misread.
11. `dispatch.rs` line 330 verifies a signature after `inherit_related_context`
   has filled in the placeholders, so a rightly signed request with placeholders
   is refused.  `SignedAsSent` shows that no other is let through by this.
12. A malformed part of a frame drops the responses of the parts before it,
   which have run (`dispatch.rs` line 71); `EachAnswered` is stated for frames
   that are whole.  A NEGOTIATE may be among them: the connection then has a
   dialect its client has not heard of, which `ValidateAgrees` expects it to
   confirm.
13. `handlers/negotiate.rs` says of an SMB1 NEGOTIATE that the client will follow
   up with an SMB2 one.  For "SMB 2.002" a client need not, and the connection
   then has no dialect; `ValidateAgrees` speaks of the last SMB2 NEGOTIATE that
   was answered.

The model also shows behaviour that a comment rules out and no property
describes: `rename` without replacement checks and renames in two system calls,
and may replace a file made in between (`backend.rs` line 176; `RenameCheck`,
`Rename`); delete-on-close of a stream removes the host file, because `unlink`
drops the stream name (`backend.rs` line 149; `StartUnlink`). SET_INFO also
hands a truncate of a directory to the backend, which `backend.rs` line 214 says
the protocol layer rejects; the backend refuses it, and the model leaves the
call out.  A WRITE of length 0 is read with one byte of data, as the comment in
`proto/messages/write.rs` says the protocol has it, and `handlers/write.rs` line
64 writes that byte.  The pattern `*` against a name that itself contains a star
takes that star literally (`utils.rs` line 85); `path.rs` refuses such names, so
only a file made on the host can have one.  `backend.rs` line 85 says the
dispatcher puts the FileId in the place of a file index that is 0; QUERY_INFO
always uses the id of the handle and QUERY_DIRECTORY always the backend's, so
one file has several.  The comment in `proto/messages/negotiate.rs` says the
server parses the client's negotiate contexts; the handler does not.
`fill_random` leaves zeros when it fails, which its comment says the caller
should treat as fatal; no caller looks.

## 5. Fairness

An admin task, once it has made a call, and a connection task, once it has a
request, are tokio tasks: they run when they can.  Tokio's `RwLock` serves its
waiters in order, so a writer of the user table is not overtaken for ever by
readers: strong fairness for admin steps (`ConfigFairness`, `Fairness`).
Backends are assumed to answer.  In QueryDirectory a request that has begun goes
on: weak fairness for the rounds of the loop and for the response, which gives
the abstract scan its promise that every request is answered.  Nothing makes a
client connect, send, read or leave, and nothing makes an administrator call.
The accept loop is a task too; strong fairness for it says that a client in the
backlog is accepted although other rounds of the loop come first.

## 6. Proofs

Every safety property of section 3 that holds, except those of the run `wire`, is
a theorem, for every value of the constants that the named assumptions of its
module allow.
An invariant is proved by the inductive invariant that implies it; the tables
give both, and the text says why the property is not inductive by itself.  The
bounds of a model (`MaxSid`, `MaxOpens`, `MaxReqs`, the inodes) are any natural
numbers or sets in the proofs, and no symmetry and no smaller initial state is
used.

| Module | Assumptions | Inductive invariant | Theorems |
|---|---|---|---|
| ShareConfigProofs | None is no user, name, binding, access or ACL; the calls are calls of `ConfigHandle` | `ConfigInv` | `TypeCorrect`, `AclUsersAreKnown`, `PublicSharesHaveNoUsers`, `TableRefinement` |
| SmbSessionsProofs | those, and: numbers of objects are in Nat, read-only backends are bindings, Anonymous is no user, tasks are no connections | `SmbInv` | `ControlPlaneKept`, `OnlyLateOutlive`, `SweepsComplete`, `IoOnOpenHandles`, `OneOwnerAlways`, `HandlesReachable`, `SweepsSpare`, `AccessRefinement` |
| LifecycleProofs | a channel holds at least one response; None is no connection | one for each theorem | `LifecycleTypeCorrect`, `ServedIsRegistered`, `OneOverrun`, `LateClientsUnserved` |
| SessionSetupProofs | the bounds are in Nat | `SetupInv` | `SigningKeysAgree`, `AnsweredOnce`, `EstablishedIsSigned`, `HashesDoNotOutlive` |
| CompoundProofs | session and tree ids are positive, bounds are in Nat | `FrameInv` | `PlaceholdersReachOwn` |
| FileOpsProofs | there is a client; inodes are positive and of one kind; a tree grants Read or ReadWrite | `OpsInv` | `WritersChangeData`, `ReadOnlyStays`, `CreateIsExclusive`, `StreamsStayApart`, `PathsAreOwn` |
| QueryDirectoryProofs | names are finitely many; names, lengths, patterns and sizes have their types, cursors are no sequences | `ScanInv` | `TypeCorrect`, `ScanIsComplete`, `BufferLayout`, `ScanRefinement` |
| NtlmProofs | exchanges are positive numbers, the tables are functions, the mark for "no user" is no password | `NtlmInv` | `UsersProveThemselves`, `SessionKeysAgree`, `HonestUsersEnter` |

**Control plane.**  `TypeCorrect` needs that a call carries the arguments its
operation takes (`RequestTypes`, `JobsMade`).  `AclUsersKnown` by itself is not
inductive.  A grant is safe only because the user, once checked, stays in the
table while the guard is held (`GuardHolders`, which `RemoveUser` preserves
because it waits for the guard); the ACL a task writes must belong to a binding
(`BindFound`); and the exception for a removal in progress ends only with an
empty snapshot (`TodoOwned`).  `PublicHasNoUsers` needs the same strengthening.

`TableRefinement` maps every step of ShareConfig to a step of AccessTable or a
stutter.  The checks that pass and the moves from one lock to the next are
stutters (`SilentStep`); the step that changes a table or an ACL is `TakeEffect`
or `Miss`, the one that fails `Refuse`, and the rounds of the cleaning loop are
`TakeRight`.  That a check made earlier in the call still holds when the change
is made is what the refinement has to show: for a user it is `GuardHolders`, and
for a share `NamesKept`, by which the ACL a call has found is that of the share it
named, unless that share has been removed.  `StepLosses` and `StepDebts` show for
every other call what a step does to it.

**Connections and sweeps.**  `ControlPlaneKept` shows that the connections only
restrict the control plane: every behaviour of SmbSessions is one of ShareConfig,
so the theorems above hold of it too.  The properties relate an object in a
table to what some actor still holds, and each needs its own trail:

- `IoOnOpenHandles` and `OneOwnerAlways` (`NoIoAfterClose`, `OneOwner`): what a
  handler has read under a lock it has since released is still the object it
  was (`Carried`), and an open that has left its table is with exactly one actor,
  whose step in closing it tells its state (`Handed`).
- `SweepsComplete` (`SweepComplete`): whatever a sweep had to close when it
  listed the connections is closed, or in what it has still to visit, or in the
  hands of another actor who is closing it (`DoomedPending`, `Nested`,
  `WorkOfSweep`).
- `OnlyLateOutlive` (`OnlyLate`): a right that has been withdrawn is still used
  only by objects that were inserted in one of the two windows, or while the
  call that withdrew it has still to list the connections or to reach the object.
  It rests on `ConfigInv` and on `NamesKept`, that a call works on a binding which
  bears the name it asked for.
- `HandlesReachable` (`NoLeakedHandle`): a tree that has been used lives in a
  live session or goes with it (`UsedTrees`), and a registered open is in a
  live tree or in one whose table an actor is emptying (`Reached`).
- `SweepsSpare` (`SweepsSpareOthers`) is an action property: a session or tree
  ends by its own client or by a call that is about it.  It follows from `SmbInv`
  and one step for each action that ends something.
- `AccessRefinement` maps every step of SmbSessions to a step of AccessControl or a
  stutter.  The control plane's part is `TableRefinement`.  What remains is to
  say of each step what it does to the sessions and trees clients can use and to
  the work of every sweep (`ShownMeans`, `DueMeans`, `ListedMeans`): a step of a
  handler keeps what is due or adds what it has just inserted, a call that
  begins to sweep owes what is there, and the step of a sweep that takes an object
  from its table closes what was due and, with a session, its trees.  It rests
  on `SmbInv`, on `WorkOfSweep` in particular, and on one fact more: the binding a
  TREE_CONNECT has found bears the name it asked for (`FoundNamed`).

**Tasks.**  `LifecycleTypeCorrect` is strengthened by "no more frames wait than
were sent", `OneOverrun` by "after a dispatch with the flag set the reader is
never past its check again".  `LateClientsUnserved` is the half of
`StopsWithNextClient` that is a safety property: `LateInv` adds that a client is in
one place at a time (`OneByOne`) and that the one a task is about to be spawned
for was accepted before the flag was set.

**Authentication.**  A property about a session or its key rests on what is
pending.  `IdsSpent` keeps a session id from being used for a second exchange,
`Answering` says what the response being made owes the tables, and `Heard` follows
the preauth hash of an exchange from its first request through the response and
the table to the key; `Absorbed` says that the connection's own hash is that of
its NEGOTIATEs.  `SignatureDue` says of an answer that establishes a session that
the session has its key when the answer comes to be signed, or was swept.

**Compounds.**  `PlaceholderOwn` speaks of a request that has run; what makes it
true is what the loop carries: while a frame stays with one tree, `prev_fid` is
the file its last CREATE has made, in the session and tree carried with it
(`CarriesMade`).

**Opens and the backend.**  The properties speak of the end of a step or of a
request, `OpsInv` of what holds in the middle of one: which system calls a request
may be waiting for and with which options (`Requested`); that nobody who may
not write holds a writable descriptor, and nothing that changes a read-only
backend is under way (`Rightful`); by which name the open file goes while a create,
a rename or a close is in progress (`Follows`); what an open has made of its
request (`Exclusive`, `StreamFd`).  The theorems hold for any clients that all
send everything, streams and FILE_DELETE_ON_CLOSE included: `file_ops` checks
smaller instances.

**Directories.**  `ScanInv` says that the buffer holds the entries between the
position the request found and the cursor (`FromCursor`), that what was answered
before is the listing up to there (`Answered`, `Handed`), and that the listing is
what its pattern selects (`Matching`).  None of the checked properties is
inductive without these: the cursor moves in one action and what it stands for
reaches the client in another.  `BufferLayout` has an invariant of its own about
the bytes of a buffer, which rests on the lemmas about `align8`, `EntryLen` and
`Patch`.  `ScanRefinement` proves that every step of QueryDirectory is a step
of DirectoryScan or a stutter: `Begin` is `Ask` or `Refuse`, the rounds of the
loop are stutters, `Respond` is `HandOut` or `NoMore`.

**NTLM.**  The properties look back from what `authenticate` has returned to the
client that made the message.  `NtlmInv` keeps what connects the two: every
message in the network is the answer of the client of some exchange, altered
at most in what the network can alter (`Answered`, `SentByClients`), the challenge
of an exchange stays what its client saw (`Engaged`), and every verdict is that of
a message that was sent (`Judged`).  The cryptography enters only as lemmas that
equal terms were made from equal parts (`SameOwf`, `SameProof`, `SameMic`).

Only model-checked:

- All liveness: `CallsReturn`, `RequestsEnd`, `ClosedIsUnregistered`,
  that the accept loop stops (`StopsWithNextClient`), and the part of `ImplementsScan` that says every request
  is answered.  Fairness and ENABLED are out of this prover's reach.
- The properties of the run `wire`: `RequestsAsMeant`, `SignedAsSent`,
  `AnswersFound`, `EachAnswered`, `AnswersSigned`, `ValidateAgrees` of Exchange and
  `NamesAgree` of MCExchange.  Exchange and what it is composed of read and write bytes with
  recursive functions and folds (`Num`, `Parse`, `WriteTo`, `SubFrames`), and what
  these compute for every input takes induction over data, for which the provers
  have no usable rule.  Even `SignedAsSent`, whose control is one comparison,
  needs that the message id is read from where it was written.

## 7. Not modelled

The algorithms of `proto/crypto/`: HMAC, CMAC, GMAC and the KDF compute values
TLC cannot; which bytes they are given is modelled.  The request trace changes
nothing.  Of the local backend, nested paths, symbolic links, the contents of
files and the conversion of times are left out; a listing is taken at one
moment.  `fill_random` is assumed to work.

## 8. Plan

In order:

1. AccessControl with fairness: that what is due goes, checked by TLC (the
   refinement of section 6 is about steps only; `CallsReturn` covers the calls).
2. Action properties from the invariants of section 6: ids and counters never go
   back (SmbSessions, SessionSetup, Compound), a closed object is never used
   again.
3. FileOps under AccessControl: what the requests of a client may do when the
   access of its tree is that of an earlier check.
4. Streams of renamed and deleted hosts; directories below the root.
