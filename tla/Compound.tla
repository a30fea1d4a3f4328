------------------------------- MODULE Compound -------------------------------
(***************************************************************************)
(* dispatch_frame: the requests of a frame, run one after the other        *)
(* (dispatch.rs).  A related request may leave its session, tree and file  *)
(* id open (all ones on the wire) and inherits them; signatures of         *)
(* requests are checked after that.  The bytes of requests and responses   *)
(* and what their signatures are made from are in Exchange.                *)
(*                                                                         *)
(* Sessions and trees exist when the model starts (SessionSetup and        *)
(* SmbSessions are about how they come to be) and belong to users.  File   *)
(* ids are counted per tree, as TreeConnect::alloc_file_id does, so two    *)
(* trees use the same ids.  Whether a backend call succeeds is an input.   *)
(* A handler runs in one step with the checks before it; sweeps of other   *)
(* tasks come between requests.                                            *)
(***************************************************************************)
EXTENDS Integers

CONSTANTS
    Trees,     \* <<session id, tree id>> of every tree at the start
    MaxFid,    \* bound: file ids of every tree
    MaxReqs    \* bound: requests per frame

ASSUME TreesAssumption ==
    /\ Trees \subseteq (Nat \ {0}) \X (Nat \ {0})
    /\ MaxFid \in [Trees -> Nat] /\ MaxReqs \in Nat

VARIABLES
    live,      \* Connection.sessions
    trees,     \* the trees of the live sessions
    opens,     \* <<session id, tree id, file id>>
    next_fid,  \* TreeConnect.next_volatile
    fr         \* locals of dispatch_frame

vars == <<live, trees, opens, next_fid, fr>>

Sids == {x[1] : x \in Trees}
Tids == {x[2] : x \in Trees}
Fids == UNION {1 .. MaxFid[x] : x \in Trees}

(* No session, tree or CREATE yet.                                         *)
None == 0
(* The placeholder in a related request; no allocated id equals it.        *)
Any == "any"

FileCmds == {"CLOSE", "READ"}
Cmds == FileCmds \cup {"CREATE", "TREE_DISCONNECT", "LOGOFF", "ECHO", "CANCEL"}

(* An id on the wire.                                                      *)
Id(S) == {<<"id", x>> : x \in S} \cup {<<Any, 0>>}

(* signed: the client has signed the bytes it sent with the session's key. *)
(* succeeds: whether the backend opens the file of a CREATE.  READ stands  *)
(* for all requests with a file id that leave the tables alone, ECHO for   *)
(* those without.  Placeholders outside related requests name nothing, as  *)
(* the ids of closed sessions and trees do; a related request without any  *)
(* is treated as an unrelated one.                                         *)
Requests ==
    {r \in [cmd : Cmds, related : BOOLEAN, sid : Id(Sids), tid : Id(Tids),
            fid : Id(Fids), signed : BOOLEAN, succeeds : BOOLEAN] :
        /\ r.cmd \notin FileCmds => r.fid = <<Any, 0>>
        /\ r.cmd # "CREATE" => r.succeeds
        /\ r.sid[1] = Any \/ r.tid[1] = Any => r.related
        /\ r.related => r.sid[1] = Any \/ r.tid[1] = Any
                         \/ (r.cmd \in FileCmds /\ r.fid[1] = Any)}

NewFrame == [n |-> 0, prev_sid |-> <<"id", None>>, prev_tid |-> <<"id", None>>,
             prev_fid |-> None, made |-> <<>>, one_tree |-> TRUE,
             touched |-> <<>>, wanted |-> <<>>]

Files == Sids \X Tids \X Fids

TypeOK ==
    /\ live \in SUBSET Sids
    /\ trees \in SUBSET Trees
    /\ opens \in SUBSET Files
    /\ next_fid \in [Trees -> Nat]
    /\ \A x \in Trees : next_fid[x] \in 1 .. MaxFid[x] + 1
    /\ fr.n \in 0 .. MaxReqs
    /\ fr.prev_sid \in Id(Sids \cup {None})
    /\ fr.prev_tid \in Id(Tids \cup {None})
    /\ fr.prev_fid \in Fids \cup {None}

Init ==
    /\ live = Sids /\ trees = Trees /\ opens = {}
    /\ next_fid = [t \in Trees |-> 1]
    /\ fr = NewFrame

-----------------------------------------------------------------------------
(* inherit_related_context.                                                *)

IsAny(x) == x[1] = Any

TakesFileId(r) == r.cmd \in FileCmds

Inherit(r) ==
    IF ~r.related THEN r
    ELSE [r EXCEPT
            !.sid = IF IsAny(@) THEN fr.prev_sid ELSE @,
            !.tid = IF IsAny(@) THEN fr.prev_tid ELSE @,
            !.fid = IF IsAny(@) /\ TakesFileId(r) /\ fr.prev_fid # None
                    THEN <<"id", fr.prev_fid>> ELSE @]

(* verify_request_signature, of the request q made from r by Inherit: the  *)
(* signature is checked over the bytes of q.                               *)
Verified(r, q) ==
    \/ ~r.signed
    \/ q.sid = <<"id", None>>
    \/ q.sid[2] \in live /\ q = r

-----------------------------------------------------------------------------
(* The handlers, as far as later requests of the frame can see.            *)

TreeOf(q) == <<q.sid[2], q.tid[2]>>
OpenOf(q) == <<q.sid[2], q.tid[2], q.fid[2]>>
HasTree(q) == ~IsAny(q.sid) /\ ~IsAny(q.tid) /\ TreeOf(q) \in trees
HasOpen(q) == HasTree(q) /\ ~IsAny(q.fid) /\ OpenOf(q) \in opens

Creates(q) == q.cmd = "CREATE" /\ HasTree(q) /\ q.succeeds
                /\ next_fid[TreeOf(q)] <= MaxFid[TreeOf(q)]

Succeeds(q) ==
    CASE q.cmd = "CREATE" -> Creates(q)
      [] q.cmd \in FileCmds -> HasOpen(q)
      [] q.cmd = "TREE_DISCONNECT" -> HasTree(q)
      [] q.cmd = "LOGOFF" -> q.sid # <<"id", None>>
      [] OTHER -> TRUE

(* What a request of a session, or a sweep, leaves of the tables.          *)
Drop(S, T, O) ==
    /\ live' = live \ S
    /\ trees' = {t \in trees \ T : t[1] \notin S}
    /\ opens' = {o \in opens \ O : o[1] \notin S /\ <<o[1], o[2]>> \notin T}

Execute(q) ==
    /\ Drop(IF q.cmd = "LOGOFF" THEN {q.sid[2]} ELSE {},
            IF q.cmd = "TREE_DISCONNECT" THEN {TreeOf(q)} ELSE {},
            IF q.cmd = "CLOSE" THEN {OpenOf(q)} ELSE {})
    /\ UNCHANGED next_fid

Create(q) ==
    /\ opens' = opens \cup {<<q.sid[2], q.tid[2], next_fid[TreeOf(q)]>>}
    /\ next_fid' = [next_fid EXCEPT ![TreeOf(q)] = @ + 1]
    /\ UNCHANGED <<live, trees>>

-----------------------------------------------------------------------------
(* One round of the loop.                                                  *)

(* Mutant: only a successful CREATE sets the inherited file id.            *)
CaptureFileId_KeepOld(q, ok) ==
    IF q.cmd = "CREATE" /\ ok THEN next_fid[TreeOf(q)] ELSE fr.prev_fid

(* Mutant: the file id is read from the response whatever its status.      *)
CaptureFileId_AnyStatus(q, ok) ==
    IF q.cmd # "CREATE" THEN fr.prev_fid
    ELSE IF ok THEN next_fid[TreeOf(q)] ELSE -1

(* capture_create_file_id: a failed CREATE leaves nothing to inherit.      *)
CaptureFileId(q, ok) ==
    IF q.cmd # "CREATE" THEN fr.prev_fid
    ELSE IF ok THEN next_fid[TreeOf(q)] ELSE None

(* made, one_tree, touched and wanted are history: the file the last       *)
(* CREATE of the frame made; the frame has named one tree; what a          *)
(* placeholder for a file id reached, and what it should have.             *)
Advance(r, q, ok) ==
    fr' = [fr EXCEPT
             !.n = @ + 1,
             !.prev_sid = q.sid,
             !.prev_tid = q.tid,
             !.prev_fid = CaptureFileId(q, ok),
             !.made = IF q.cmd # "CREATE" THEN @
                      ELSE IF ok THEN <<q.sid[2], q.tid[2], next_fid[TreeOf(q)]>>
                      ELSE <<>>,
             !.one_tree = @ /\ (fr.n = 0
                                \/ (q.sid = fr.prev_sid /\ q.tid = fr.prev_tid)),
             !.touched = IF ok /\ TakesFileId(q) /\ IsAny(r.fid)
                         THEN OpenOf(q) ELSE <<>>,
             !.wanted = fr.made]

Tables == <<live, trees, opens, next_fid>>

Request(r) ==
    LET q == Inherit(r)
        ok == Verified(r, q) /\ Succeeds(q)
    IN  /\ fr.n < MaxReqs
        /\ IF ~ok THEN UNCHANGED Tables
           ELSE IF Creates(q) THEN Create(q) ELSE Execute(q)
        /\ Advance(r, q, ok)

(* The frame has no more parts, or the next is too short, does not parse   *)
(* or has a bad NextCommand: nothing is carried to the next frame.         *)
EndFrame ==
    /\ fr' = NewFrame
    /\ UNCHANGED Tables

(* remove_user, from another task.                                         *)
Sweep(s) ==
    /\ s \in live
    /\ Drop({s}, {}, {})
    /\ UNCHANGED <<next_fid, fr>>

Next ==
    \/ \E r \in Requests : Request(r)
    \/ EndFrame
    \/ \E s \in Sids : Sweep(s)

Spec == Init /\ [][Next]_vars

-----------------------------------------------------------------------------
(* Properties.                                                             *)

(* A placeholder for a file id reaches the file that the last CREATE of    *)
(* this frame has made, or nothing: never the file of an earlier CREATE    *)
(* when the last one failed, nor a file of an earlier frame.  For frames   *)
(* that stay with one tree; file ids of different trees coincide           *)
(* (inherit_related_context, capture_create_file_id).                      *)
PlaceholderOwn ==
    /\ TypeOK
    /\ fr.one_tree /\ fr.touched # <<>> => fr.touched = fr.wanted
=============================================================================
