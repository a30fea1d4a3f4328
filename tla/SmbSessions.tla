----------------------------- MODULE SmbSessions -----------------------------
(***************************************************************************)
(* The data plane under the control plane: connections with their session, *)
(* tree and open tables (conn/state.rs), the request handlers that fill    *)
(* and empty those tables, and the sweeps by which ConfigHandle closes     *)
(* them from outside (server.rs, the close functions of Connection).       *)
(*                                                                         *)
(* A connection handles one request at a time (conn/reader.rs awaits the   *)
(* dispatcher inline), so the interleavings that matter are those of a     *)
(* handler with admin tasks, and of admin tasks with each other.  A        *)
(* handler is split at the awaits between which it keeps something it has  *)
(* read: the user table it cloned, a session, tree, open or share Arc, an  *)
(* access it was granted.  A request that fails at its first lookup        *)
(* changes nothing and is left out; a request that fails later is not.     *)
(*                                                                         *)
(* Locks that are held across another wait are modelled: the write lock of *)
(* a session while its trees are closed, the write lock of a tree while    *)
(* its handles are closed, the read lock of an open during backend I/O.    *)
(* The others are held within one step.                                    *)
(*                                                                         *)
(* Session, tree and file ids come from counters and are never reused, so  *)
(* an id and the object it names are the same thing here.  The k-th object *)
(* a connection makes is <<c, kind, k>>; MaxSessions, MaxTrees and         *)
(* MaxOpens bound k.  NTLM, signing, paths and access masks are not here.  *)
(***************************************************************************)
EXTENDS ShareConfig

CONSTANTS
    Conns,                              \* client connections
    MaxSessions, MaxTrees, MaxOpens,    \* per connection
    ReadOnlyBackends,                   \* bindings whose backend is read-only
    Anonymous                           \* Identity::Anonymous

ASSUME BoundAssumption ==
    /\ MaxSessions \in Nat /\ MaxTrees \in Nat /\ MaxOpens \in Nat
    /\ ReadOnlyBackends \subseteq Bindings
    /\ Anonymous \notin Users \cup {None}

Sessions == Conns \X {"session"} \X (1 .. MaxSessions)
Trees == Conns \X {"tree"} \X (1 .. MaxTrees)
Opens == Conns \X {"open"} \X (1 .. MaxOpens)
Actors == Admins \cup Conns

ASSUME ObjectAssumption ==
    /\ None \notin Sessions \cup Trees \cup Opens
    /\ Admins \cap Conns = {}

VARIABLES
    conn,    \* "off" before accept, "on" while registered, "gone" after
    sst,     \* session: "free", "live" in Connection.sessions, "closed"
    suser,   \* Session.identity
    tst,     \* tree: "free", "live" in Session.trees, "closed"
    tsess,   \* the session a tree was connected in
    tbind,   \* TreeConnect.share
    tacc,    \* TreeConnect.granted_access
    ost,     \* backend handle: "free", "open", "taken", "closed", "dropped"
    oreg,    \* the open is in TreeConnect.opens
    otree,   \* the tree it was opened in
    h,       \* the request each connection is handling
    w,       \* what each actor still has to close
    doomed,  \* history: what a sweep found established when it began
    late     \* history: objects inserted after the right to them was gone

connVars == <<conn, sst, suser, tst, tsess, tbind, tacc, ost, oreg, otree>>
dataVars == <<connVars, h, w, doomed, late>>
vars == <<configVars, dataVars>>

Identities == Users \cup {Anonymous}

HandlerPCs == {"idle", "setup_insert", "anon_list", "anon_check", "tree_find",
               "tree_auth", "tree_insert", "closing", "create_open",
               "create_insert", "close_remove", "close_take", "close_handle",
               "io_lookup", "io_lock", "io"}
Handler == [pc : HandlerPCs, user : Identities \cup {None},
            sess : Sessions \cup {None}, tree : Trees \cup {None},
            open : Opens \cup {None}, share : Names \cup {None},
            bind : Bindings \cup {None}, access : Access \cup {None},
            todo : SUBSET Bindings]
Idle == [pc |-> "idle", user |-> None, sess |-> None, tree |-> None,
         open |-> None, share |-> None, bind |-> None, access |-> None,
         todo |-> {}]

(* A closing actor works inside out: opens of the locked tree, drained     *)
(* trees, trees to remove, sessions to scan, sessions to close, conns.     *)
Work == [conns : SUBSET Conns, sids : SUBSET Sessions, scan : SUBSET Sessions,
         rm : SUBSET Trees, removed : Sessions \cup {None},
         lockS : Sessions \cup {None}, drained : SUBSET Trees,
         lockT : Trees \cup {None}, opens : SUBSET Opens]
NoWork == [conns |-> {}, sids |-> {}, scan |-> {}, rm |-> {}, removed |-> None,
           lockS |-> None, drained |-> {}, lockT |-> None, opens |-> {}]

DataTypeOK ==
    /\ TypeOK
    /\ conn \in [Conns -> {"off", "on", "gone"}]
    /\ sst \in [Sessions -> {"free", "live", "closed"}]
    /\ suser \in [Sessions -> Identities \cup {None}]
    /\ tst \in [Trees -> {"free", "live", "closed"}]
    /\ tsess \in [Trees -> Sessions \cup {None}]
    /\ tbind \in [Trees -> Bindings \cup {None}]
    /\ tacc \in [Trees -> Access \cup {None}]
    /\ ost \in [Opens -> {"free", "open", "taken", "closed", "dropped"}]
    /\ oreg \in [Opens -> BOOLEAN]
    /\ otree \in [Opens -> Trees \cup {None}]
    /\ h \in [Conns -> Handler]
    /\ w \in [Actors -> Work]
    /\ doomed \in [Admins -> SUBSET (Sessions \cup Trees)]
    /\ late \in SUBSET (Sessions \cup Trees)

-----------------------------------------------------------------------------

Established(s) == conn[s[1]] = "on" /\ sst[s] = "live"
EstablishedTree(t) == tst[t] = "live" /\ Established(tsess[t])

SessLocked(s) == \E p \in Actors : w[p].lockS = s
TreeLocked(t) == \E p \in Actors : w[p].lockT = t
InIo(o) == h[o[1]].pc = "io" /\ h[o[1]].open = o

HAt(c, where) == h[c].pc = where
SetH(c, r) == h' = [h EXCEPT ![c] = r]
EndRequest(c) == SetH(c, Idle)
Fresh(c, st) == {x \in DOMAIN st : x[1] = c /\ st[x] = "free"}

Authorize(b, id) ==
    CASE acl[b].mode = "Public" -> "ReadWrite"
      [] acl[b].mode = "PublicReadOnly" -> "Read"
      [] OTHER -> IF id = Anonymous THEN None ELSE acl[b].users[id]

(* The tree could be connected again as things stand.                      *)
Allowed(b, id) == Listed(b) /\ Authorize(b, id) # None

-----------------------------------------------------------------------------
(* Connections.  connection_loop registers the connection before it reads  *)
(* a frame; the reader leaves between two requests.                        *)

Connect(c) ==
    /\ conn[c] = "off"
    /\ conn' = [conn EXCEPT ![c] = "on"]
    /\ UNCHANGED <<configVars, sst, suser, tst, tsess, tbind, tacc, ost, oreg,
                   otree, h, w, doomed, late>>

Disconnect(c) ==
    /\ conn[c] = "on"
    /\ HAt(c, "idle")
    /\ conn' = [conn EXCEPT ![c] = "gone"]
    /\ UNCHANGED <<configVars, sst, suser, tst, tsess, tbind, tacc, ost, oreg,
                   otree, h, w, doomed, late>>

Request(c) == conn[c] = "on" /\ HAt(c, "idle")

-----------------------------------------------------------------------------
(* SESSION_SETUP, the round that carries AUTHENTICATE: clone the user      *)
(* table, authenticate against the clone, insert the session.              *)

SetupAuthenticate(c, u) ==
    /\ Request(c)
    /\ Fresh(c, sst) # {}
    /\ u \in users
    /\ SetH(c, [Idle EXCEPT !.pc = "setup_insert", !.user = u])
    /\ UNCHANGED <<configVars, connVars, w, doomed, late>>

SetupAnonymous(c) ==
    /\ Request(c)
    /\ Fresh(c, sst) # {}
    /\ SetH(c, [Idle EXCEPT !.pc = "anon_list"])
    /\ UNCHANGED <<configVars, connVars, w, doomed, late>>

(* Mutant: the snapshot keeps the slots of removed shares.                 *)
AnonList_WithHoles(c) ==
    /\ HAt(c, "anon_list")
    /\ SetH(c, [h[c] EXCEPT !.pc = "anon_check",
                            !.todo = {shares[n] : n \in Names}])
    /\ UNCHANGED <<configVars, connVars, w, doomed, late>>

(* anonymous_allowed: a snapshot of the shares, then their ACLs in turn.   *)
AnonList(c) ==
    /\ HAt(c, "anon_list")
    /\ SetH(c, [h[c] EXCEPT !.pc = "anon_check",
                            !.todo = {b \in Bindings : Listed(b)}])
    /\ UNCHANGED <<configVars, connVars, w, doomed, late>>

AnonCheck(c, b) ==
    /\ HAt(c, "anon_check")
    /\ b \in h[c].todo
    /\ IF acl[b].mode \in PublicModes
         THEN SetH(c, [Idle EXCEPT !.pc = "setup_insert", !.user = Anonymous])
         ELSE SetH(c, [h[c] EXCEPT !.todo = @ \ {b}])
    /\ UNCHANGED <<configVars, connVars, w, doomed, late>>

AnonRefused(c) ==
    /\ HAt(c, "anon_check")
    /\ h[c].todo = {}
    /\ EndRequest(c)
    /\ UNCHANGED <<configVars, connVars, w, doomed, late>>

SetupInsert(c) ==
    /\ HAt(c, "setup_insert")
    /\ \E s \in Fresh(c, sst) :
        /\ sst' = [sst EXCEPT ![s] = "live"]
        /\ suser' = [suser EXCEPT ![s] = h[c].user]
        /\ late' = IF h[c].user \in users \cup {Anonymous}
                     THEN late ELSE late \cup {s}
    /\ EndRequest(c)
    /\ UNCHANGED <<configVars, conn, tst, tsess, tbind, tacc, ost, oreg, otree,
                   w, doomed>>

-----------------------------------------------------------------------------
(* TREE_CONNECT: session, share, ACL and session again, each under a lock  *)
(* of its own.                                                             *)

TreeConnect(c, s, n) ==
    /\ Request(c)
    /\ s[1] = c
    /\ Established(s)
    /\ Fresh(c, tst) # {}
    /\ SetH(c, [Idle EXCEPT !.pc = "tree_find", !.sess = s, !.share = n,
                            !.user = suser[s]])
    /\ UNCHANGED <<configVars, connVars, w, doomed, late>>

TreeFind(c) ==
    LET b == shares[h[c].share] IN
    /\ HAt(c, "tree_find")
    /\ IF b = None
         THEN EndRequest(c)
         ELSE SetH(c, [h[c] EXCEPT !.pc = "tree_auth", !.bind = b])
    /\ UNCHANGED <<configVars, connVars, w, doomed, late>>

(* Mutant: the access of a tree is what its backend allows.                *)
TreeAuthorize_BackendOnly(c) ==
    LET b == h[c].bind
        granted == Authorize(b, h[c].user)
    IN
    /\ HAt(c, "tree_auth")
    /\ IF granted = None
         THEN EndRequest(c)
         ELSE SetH(c, [h[c] EXCEPT !.pc = "tree_insert",
                  !.access = IF b \in ReadOnlyBackends THEN "Read" ELSE "ReadWrite"])
    /\ UNCHANGED <<configVars, connVars, w, doomed, late>>

TreeAuthorize(c) ==
    LET b == h[c].bind
        granted == Authorize(b, h[c].user)
    IN
    /\ HAt(c, "tree_auth")
    /\ IF granted = None
         THEN EndRequest(c)
         ELSE SetH(c, [h[c] EXCEPT !.pc = "tree_insert",
                  !.access = IF b \in ReadOnlyBackends THEN "Read" ELSE granted])
    /\ UNCHANGED <<configVars, connVars, w, doomed, late>>

TreeInsert(c) ==
    /\ HAt(c, "tree_insert")
    /\ ~SessLocked(h[c].sess)
    /\ \E t \in Fresh(c, tst) :
        /\ tst' = [tst EXCEPT ![t] = "live"]
        /\ tsess' = [tsess EXCEPT ![t] = h[c].sess]
        /\ tbind' = [tbind EXCEPT ![t] = h[c].bind]
        /\ tacc' = [tacc EXCEPT ![t] = h[c].access]
        /\ late' = IF Allowed(h[c].bind, h[c].user) THEN late ELSE late \cup {t}
    /\ EndRequest(c)
    /\ UNCHANGED <<configVars, conn, sst, suser, ost, oreg, otree, w, doomed>>

-----------------------------------------------------------------------------
(* LOGOFF and TREE_DISCONNECT close through the same functions as the      *)
(* sweeps; the work they make is done by the closing steps below.          *)

Logoff(c, s) ==
    /\ Request(c)
    /\ s[1] = c
    /\ Established(s)
    /\ SetH(c, [Idle EXCEPT !.pc = "closing"])
    /\ w' = [w EXCEPT ![c].sids = {s}]
    /\ UNCHANGED <<configVars, connVars, doomed, late>>

TreeDisconnect(c, t) ==
    /\ Request(c)
    /\ t[1] = c
    /\ EstablishedTree(t)
    /\ SetH(c, [Idle EXCEPT !.pc = "closing"])
    /\ w' = [w EXCEPT ![c].rm = {t}]
    /\ UNCHANGED <<configVars, connVars, doomed, late>>

ClosingDone(c) ==
    /\ HAt(c, "closing")
    /\ w[c] = NoWork
    /\ EndRequest(c)
    /\ UNCHANGED <<configVars, connVars, w, doomed, late>>

-----------------------------------------------------------------------------
(* CREATE: look the tree up, open and stat through the backend without a   *)
(* lock, register the open in the tree, whatever became of it meanwhile.   *)

Create(c, t) ==
    /\ Request(c)
    /\ t[1] = c
    /\ EstablishedTree(t)
    /\ Fresh(c, ost) # {}
    /\ SetH(c, [Idle EXCEPT !.pc = "create_open", !.tree = t])
    /\ UNCHANGED <<configVars, connVars, w, doomed, late>>

CreateOpen(c) ==
    /\ HAt(c, "create_open")
    /\ \E o \in Fresh(c, ost) :
        /\ ost' = [ost EXCEPT ![o] = "open"]
        /\ otree' = [otree EXCEPT ![o] = h[c].tree]
        /\ SetH(c, [h[c] EXCEPT !.pc = "create_insert", !.open = o])
    /\ UNCHANGED <<configVars, conn, sst, suser, tst, tsess, tbind, tacc, oreg,
                   w, doomed, late>>

(* backend.open failed, or stat failed and the handle was closed again.    *)
CreateFailed(c) ==
    /\ HAt(c, "create_open")
    /\ EndRequest(c)
    /\ UNCHANGED <<configVars, connVars, w, doomed, late>>

(* Nothing leads to the tree any more but the handler's own Arc.           *)
Orphaned(t) ==
    /\ tst[t] = "closed"
    /\ \A p \in Actors : t \notin w[p].drained

(* An open registered in an orphaned tree goes when the handler returns    *)
(* and the last Arc with it: the handle is dropped, not closed.            *)
CreateInsert(c) ==
    LET o == h[c].open
        t == h[c].tree
    IN
    /\ HAt(c, "create_insert")
    /\ ~TreeLocked(t)
    /\ IF Orphaned(t)
         THEN ost' = [ost EXCEPT ![o] = "dropped"] /\ UNCHANGED oreg
         ELSE oreg' = [oreg EXCEPT ![o] = TRUE] /\ UNCHANGED ost
    /\ EndRequest(c)
    /\ UNCHANGED <<configVars, conn, sst, suser, tst, tsess, tbind, tacc, otree,
                   w, doomed, late>>

-----------------------------------------------------------------------------
(* CLOSE: take the open out of the tree, the handle out of the open, close *)
(* the handle.                                                             *)

FileRequest(c, t, o, where) ==
    /\ Request(c)
    /\ t[1] = c
    /\ EstablishedTree(t)
    /\ otree[o] = t
    /\ SetH(c, [Idle EXCEPT !.pc = where, !.tree = t, !.open = o])
    /\ UNCHANGED <<configVars, connVars, w, doomed, late>>

Close(c, t, o) == FileRequest(c, t, o, "close_remove")

(* Mutant: CLOSE gets the open from the table instead of removing it.      *)
CloseRemove_Get(c) ==
    /\ HAt(c, "close_remove")
    /\ ~TreeLocked(h[c].tree)
    /\ IF oreg[h[c].open]
         THEN SetH(c, [h[c] EXCEPT !.pc = "close_take"])
         ELSE EndRequest(c)
    /\ UNCHANGED <<configVars, connVars, w, doomed, late>>

CloseRemove(c) ==
    LET o == h[c].open IN
    /\ HAt(c, "close_remove")
    /\ ~TreeLocked(h[c].tree)
    /\ IF oreg[o]
         THEN SetH(c, [h[c] EXCEPT !.pc = "close_take"])
         ELSE EndRequest(c)
    /\ oreg' = [oreg EXCEPT ![o] = FALSE]
    /\ UNCHANGED <<configVars, conn, sst, suser, tst, tsess, tbind, tacc, ost,
                   otree, w, doomed, late>>

CloseTake(c) ==
    /\ HAt(c, "close_take")
    /\ ost' = [ost EXCEPT ![h[c].open] = "taken"]
    /\ SetH(c, [h[c] EXCEPT !.pc = "close_handle"])
    /\ UNCHANGED <<configVars, conn, sst, suser, tst, tsess, tbind, tacc, oreg,
                   otree, w, doomed, late>>

CloseHandle(c) ==
    /\ HAt(c, "close_handle")
    /\ ost' = [ost EXCEPT ![h[c].open] = "closed"]
    /\ EndRequest(c)
    /\ UNCHANGED <<configVars, conn, sst, suser, tst, tsess, tbind, tacc, oreg,
                   otree, w, doomed, late>>

-----------------------------------------------------------------------------
(* READ, WRITE, FLUSH and the handle operations of SET_INFO, QUERY_INFO    *)
(* and QUERY_DIRECTORY: look the open up, lock it for reading, and keep    *)
(* that lock while the backend works on the handle.                        *)

FileIo(c, t, o) == FileRequest(c, t, o, "io_lookup")

(* Mutant: an unknown file id waits instead of ending in FILE_CLOSED.      *)
IoLookup_Waits(c) ==
    /\ HAt(c, "io_lookup")
    /\ ~TreeLocked(h[c].tree)
    /\ oreg[h[c].open]
    /\ SetH(c, [h[c] EXCEPT !.pc = "io_lock"])
    /\ UNCHANGED <<configVars, connVars, w, doomed, late>>

IoLookup(c) ==
    /\ HAt(c, "io_lookup")
    /\ ~TreeLocked(h[c].tree)
    /\ IF oreg[h[c].open]
         THEN SetH(c, [h[c] EXCEPT !.pc = "io_lock"])
         ELSE EndRequest(c)
    /\ UNCHANGED <<configVars, connVars, w, doomed, late>>

IoBegin(c) ==
    /\ HAt(c, "io_lock")
    /\ IF ost[h[c].open] = "open"
         THEN SetH(c, [h[c] EXCEPT !.pc = "io"])
         ELSE EndRequest(c)
    /\ UNCHANGED <<configVars, connVars, w, doomed, late>>

IoEnd(c) ==
    /\ HAt(c, "io")
    /\ EndRequest(c)
    /\ UNCHANGED <<configVars, connVars, w, doomed, late>>

-----------------------------------------------------------------------------
(* The closing steps, by an admin task in a sweep or by a handler.         *)

InnerIdle(p) ==
    /\ w[p].removed = None /\ w[p].lockS = None /\ w[p].drained = {}
    /\ w[p].lockT = None /\ w[p].opens = {}

(* close_session: out of the session table first.                          *)
CloseSession(p, s) ==
    /\ s \in w[p].sids
    /\ InnerIdle(p)
    /\ w' = [w EXCEPT ![p].sids = @ \ {s},
                      ![p].removed = IF sst[s] = "live" THEN s ELSE None]
    /\ sst' = [sst EXCEPT ![s] = IF @ = "live" THEN "closed" ELSE @]
    /\ UNCHANGED <<configVars, conn, suser, tst, tsess, tbind, tacc, ost, oreg,
                   otree, h, doomed, late>>

(* close_session_state: lock the session, drain its trees.                 *)
DrainSession(p) ==
    LET s == w[p].removed
        ts == {t \in Trees : tst[t] = "live" /\ tsess[t] = s}
    IN
    /\ s # None
    /\ w' = [w EXCEPT ![p].removed = None, ![p].lockS = s, ![p].drained = ts]
    /\ tst' = [t \in Trees |-> IF t \in ts THEN "closed" ELSE tst[t]]
    /\ UNCHANGED <<configVars, conn, sst, suser, tsess, tbind, tacc, ost, oreg,
                   otree, h, doomed, late>>

UnlockSession(p) ==
    /\ w[p].lockS # None
    /\ w[p].drained = {} /\ w[p].lockT = None
    /\ w' = [w EXCEPT ![p].lockS = None]
    /\ UNCHANGED <<configVars, connVars, h, doomed, late>>

(* remove_tree_from_session.                                               *)
RemoveTree(p, t) ==
    /\ t \in w[p].rm
    /\ InnerIdle(p)
    /\ ~SessLocked(tsess[t])
    /\ w' = [w EXCEPT ![p].rm = @ \ {t},
                      ![p].drained = IF tst[t] = "live" THEN {t} ELSE {}]
    /\ tst' = [tst EXCEPT ![t] = "closed"]
    /\ UNCHANGED <<configVars, conn, sst, suser, tsess, tbind, tacc, ost, oreg,
                   otree, h, doomed, late>>

(* Mutant: the table is emptied, its handles are forgotten.                *)
DrainTree_Forgets(p, t) ==
    /\ t \in w[p].drained
    /\ w[p].lockT = None
    /\ w' = [w EXCEPT ![p].drained = @ \ {t}, ![p].lockT = t]
    /\ oreg' = [o \in Opens |-> oreg[o] /\ otree[o] # t]
    /\ UNCHANGED <<configVars, conn, sst, suser, tst, tsess, tbind, tacc, ost,
                   otree, h, doomed, late>>

(* close_tree_state: lock the tree, drain its opens, close each handle     *)
(* under the write lock of its open.                                       *)
DrainTree(p, t) ==
    LET os == {o \in Opens : otree[o] = t /\ oreg[o]} IN
    /\ t \in w[p].drained
    /\ w[p].lockT = None
    /\ w' = [w EXCEPT ![p].drained = @ \ {t}, ![p].lockT = t, ![p].opens = os]
    /\ oreg' = [o \in Opens |-> oreg[o] /\ o \notin os]
    /\ UNCHANGED <<configVars, conn, sst, suser, tst, tsess, tbind, tacc, ost,
                   otree, h, doomed, late>>

(* Mutant: the handle is closed without the write lock of the open.        *)
CloseDrained_Unlocked(p, o) ==
    /\ o \in w[p].opens
    /\ ost' = [ost EXCEPT ![o] = "closed"]
    /\ w' = [w EXCEPT ![p].opens = @ \ {o}]
    /\ UNCHANGED <<configVars, conn, sst, suser, tst, tsess, tbind, tacc, oreg,
                   otree, h, doomed, late>>

CloseDrained(p, o) ==
    /\ o \in w[p].opens
    /\ ~InIo(o)
    /\ ost' = [ost EXCEPT ![o] = "closed"]
    /\ w' = [w EXCEPT ![p].opens = @ \ {o}]
    /\ UNCHANGED <<configVars, conn, sst, suser, tst, tsess, tbind, tacc, oreg,
                   otree, h, doomed, late>>

(* Mutant: the tree's guard is kept after its last handle is closed.       *)
UnlockTree_Never(p) ==
    /\ w[p].lockT # None
    /\ w[p].opens # {}
    /\ w' = [w EXCEPT ![p].lockT = None]
    /\ UNCHANGED <<configVars, connVars, h, doomed, late>>

UnlockTree(p) ==
    /\ w[p].lockT # None
    /\ w[p].opens = {}
    /\ w' = [w EXCEPT ![p].lockT = None]
    /\ UNCHANGED <<configVars, connVars, h, doomed, late>>

-----------------------------------------------------------------------------
(* The sweeps: live() lists the registered connections, then each is       *)
(* visited: close_sessions_for_user or close_matching_trees.               *)

(* Mutant: match the binding that is listed now, not the name.             *)
Matches_ListedBinding(j, s, t) ==
    /\ tbind[t] = shares[j.share]
    /\ j.op = "revoke_share_user" => suser[s] = j.user

Matches(j, s, t) ==
    /\ bname[tbind[t]] = j.share
    /\ j.op = "revoke_share_user" => suser[s] = j.user

(* What an admin's call is to close, as things stand.                      *)
Targets(j) ==
    IF j.op = "remove_user"
      THEN {s \in Sessions : Established(s) /\ suser[s] = j.user}
      ELSE {t \in Trees :
              /\ EstablishedTree(t) /\ bname[tbind[t]] = j.share
              /\ j.op = "revoke_share_user" => suser[tsess[t]] = j.user}

ListConnections(a) ==
    /\ ListLive(a)
    /\ w' = [w EXCEPT ![a].conns = {c \in Conns : conn[c] = "on"}]
    /\ doomed' = [doomed EXCEPT ![a] = Targets(job[a])]
    /\ UNCHANGED <<connVars, h, late>>

(* Mutant: only sessions that have trees are closed.                       *)
SweepConnection_WithTrees(a, c) ==
    LET live == {s \in Sessions : s[1] = c /\ sst[s] = "live"} IN
    /\ c \in w[a].conns
    /\ InnerIdle(a) /\ w[a].rm = {} /\ w[a].scan = {} /\ w[a].sids = {}
    /\ w' = IF job[a].op = "remove_user"
              THEN [w EXCEPT ![a].conns = @ \ {c},
                      ![a].sids = {s \in live : /\ suser[s] = job[a].user
                                                /\ \E t \in Trees : tsess[t] = s}]
              ELSE [w EXCEPT ![a].conns = @ \ {c}, ![a].scan = live]
    /\ UNCHANGED <<configVars, connVars, h, doomed, late>>

(* Mutant: the sessions of the connection are closed, whoever's they are.  *)
SweepConnection_AnyUser(a, c) ==
    LET live == {s \in Sessions : s[1] = c /\ sst[s] = "live"} IN
    /\ c \in w[a].conns
    /\ InnerIdle(a) /\ w[a].rm = {} /\ w[a].scan = {} /\ w[a].sids = {}
    /\ w' = IF job[a].op = "remove_user"
              THEN [w EXCEPT ![a].conns = @ \ {c}, ![a].sids = live]
              ELSE [w EXCEPT ![a].conns = @ \ {c}, ![a].scan = live]
    /\ UNCHANGED <<configVars, connVars, h, doomed, late>>

SweepConnection(a, c) ==
    LET live == {s \in Sessions : s[1] = c /\ sst[s] = "live"} IN
    /\ c \in w[a].conns
    /\ InnerIdle(a) /\ w[a].rm = {} /\ w[a].scan = {} /\ w[a].sids = {}
    /\ w' = IF job[a].op = "remove_user"
              THEN [w EXCEPT ![a].conns = @ \ {c},
                      ![a].sids = {s \in live : suser[s] = job[a].user}]
              ELSE [w EXCEPT ![a].conns = @ \ {c}, ![a].scan = live]
    /\ UNCHANGED <<configVars, connVars, h, doomed, late>>

ScanSession(a, s) ==
    /\ s \in w[a].scan
    /\ InnerIdle(a) /\ w[a].rm = {}
    /\ ~SessLocked(s)
    /\ w' = [w EXCEPT ![a].scan = @ \ {s},
               ![a].rm = {t \in Trees : /\ tst[t] = "live" /\ tsess[t] = s
                                        /\ Matches(job[a], s, t)}]
    /\ UNCHANGED <<configVars, connVars, h, doomed, late>>

ReturnSwept(a) ==
    /\ SweepDone(a)
    /\ w[a] = NoWork
    /\ doomed' = [doomed EXCEPT ![a] = {}]
    /\ UNCHANGED <<connVars, h, w, late>>

-----------------------------------------------------------------------------

(* A binding some connection still refers to has not been freed; the       *)
(* tables of a connection that is gone are freed once no sweep holds it.   *)
InUse(b) ==
    \/ \E t \in Trees :
        /\ tst[t] = "live" /\ tbind[t] = b
        /\ conn[t[1]] = "on" \/ \E a \in Admins : w[a] # NoWork
    \/ \E c \in Conns : h[c].bind = b \/ b \in h[c].todo

ConfigStep(a) ==
    /\ \/ UserSteps(a)
       \/ AclSteps(a)
       \/ AddShareRejected(a) \/ AddShareCheck(a) \/ AddShareDuplicate(a)
       \/ RemoveShare(a) \/ RemoveShareUnknown(a)
       \/ \E b \in Bindings : ~InUse(b) /\ AddShareInsert(a, b)
    /\ UNCHANGED dataVars

CallStep(a) == Call(a) /\ UNCHANGED dataVars

ClosingStep(p) ==
    \/ \E s \in Sessions : CloseSession(p, s)
    \/ DrainSession(p) \/ UnlockSession(p)
    \/ \E t \in Trees : RemoveTree(p, t) \/ DrainTree(p, t)
    \/ \E o \in Opens : CloseDrained(p, o)
    \/ UnlockTree(p)

SweepStep(a) ==
    \/ ListConnections(a)
    \/ \E c \in Conns : SweepConnection(a, c)
    \/ \E s \in Sessions : ScanSession(a, s)
    \/ ReturnSwept(a)

NewRequest(c) ==
    \/ \E u \in Users : SetupAuthenticate(c, u)
    \/ SetupAnonymous(c)
    \/ \E s \in Sessions : \E n \in Names : TreeConnect(c, s, n)
    \/ \E s \in Sessions : Logoff(c, s)
    \/ \E t \in Trees : TreeDisconnect(c, t)
    \/ \E t \in Trees : Create(c, t)
    \/ \E t \in Trees : \E o \in Opens : Close(c, t, o) \/ FileIo(c, t, o)

HandlerStep(c) ==
    \/ AnonList(c) \/ AnonRefused(c) \/ \E b \in Bindings : AnonCheck(c, b)
    \/ SetupInsert(c)
    \/ TreeFind(c) \/ TreeAuthorize(c) \/ TreeInsert(c)
    \/ ClosingDone(c)
    \/ CreateOpen(c) \/ CreateFailed(c) \/ CreateInsert(c)
    \/ CloseRemove(c) \/ CloseTake(c) \/ CloseHandle(c)
    \/ IoLookup(c) \/ IoBegin(c) \/ IoEnd(c)

DataInit ==
    /\ conn = [c \in Conns |-> "off"]
    /\ sst = [s \in Sessions |-> "free"]
    /\ suser = [s \in Sessions |-> None]
    /\ tst = [t \in Trees |-> "free"]
    /\ tsess = [t \in Trees |-> None]
    /\ tbind = [t \in Trees |-> None]
    /\ tacc = [t \in Trees |-> None]
    /\ ost = [o \in Opens |-> "free"]
    /\ oreg = [o \in Opens |-> FALSE]
    /\ otree = [o \in Opens |-> None]
    /\ h = [c \in Conns |-> Idle]
    /\ w = [p \in Actors |-> NoWork]
    /\ doomed = [a \in Admins |-> {}]
    /\ late = {}

Next ==
    \/ \E a \in Admins : CallStep(a) \/ ConfigStep(a) \/ SweepStep(a)
    \/ \E p \in Actors : ClosingStep(p)
    \/ \E c \in Conns :
        Connect(c) \/ Disconnect(c) \/ NewRequest(c) \/ HandlerStep(c)

Init == ConfigInit /\ DataInit
Spec == Init /\ [][Next]_vars

(* Each actor is one tokio task: it runs when it can, backends answer it,  *)
(* and lock waiters are served in order (strong fairness for the writers   *)
(* of the user table).  Clients and administrators may stop at any time.   *)
Fairness ==
    /\ \A a \in Admins : SF_vars(ConfigStep(a) \/ SweepStep(a) \/ ClosingStep(a))
    /\ \A c \in Conns : WF_vars(HandlerStep(c) \/ ClosingStep(c))

FairSpec == Spec /\ Fairness

-----------------------------------------------------------------------------
(* Properties.                                                             *)

(* What a revoking call found established when it listed the connections   *)
(* is gone from the tables when the call is about to return, although      *)
(* clients connect and log off and other calls sweep, or give the same     *)
(* right back, at the same time (remove_user, remove_share,                *)
(* revoke_share_user, set_share_mode).                                     *)
SweepComplete ==
    \A a \in Admins : pc[a] = "sweeping" /\ w[a] = NoWork =>
        /\ \A s \in doomed[a] \cap Sessions : ~Established(s)
        /\ \A t \in doomed[a] \cap Trees : ~EstablishedTree(t)

(* The remove_user of a has still to come to session s.                    *)
SessionDue(a, s) ==
    /\ job[a].op = "remove_user" /\ job[a].user = suser[s]
    /\ \/ pc[a] \in {"snapshot", "clean", "sweep"}
       \/ pc[a] = "sweeping" /\ (s[1] \in w[a].conns \/ s \in w[a].sids)
RemovalPending(s) == \E a \in Admins : SessionDue(a, s)

(* The call of a closes trees, and has still to come to tree t.            *)
TreeDue(a, t) ==
    /\ job[a].op \in {"remove_share", "revoke_share_user", "set_share_mode"}
    /\ bname[tbind[t]] = job[a].share
    /\ job[a].op = "revoke_share_user" => suser[tsess[t]] = job[a].user
    /\ \/ pc[a] = "sweep"
       \/ /\ pc[a] = "sweeping"
          /\ \/ t[1] \in w[a].conns \/ tsess[t] \in w[a].scan
             \/ t \in w[a].rm
ClosePending(t) == \E a \in Admins : TreeDue(a, t)

(* An established session belongs to a known user, unless its removal is   *)
(* still on the way or the session was inserted by a SESSION_SETUP that    *)
(* had cloned the user table before the removal: that window is the only   *)
(* one (session_setup.rs, remove_user, close_sessions_for_user).           *)
OnlyLateSessions ==
    \A s \in Sessions :
        Established(s) /\ suser[s] # Anonymous =>
            suser[s] \in users \/ s \in late \/ RemovalPending(s)

(* An established tree is one its user could connect again, unless a call  *)
(* is still on its way to close it or its TREE_CONNECT was authorised      *)
(* before the right was withdrawn and inserted the tree afterwards         *)
(* (tree_connect.rs, close_matching_trees).                                *)
OnlyLateTrees ==
    \A t \in Trees :
        EstablishedTree(t) =>
            \/ Allowed(tbind[t], suser[tsess[t]])
            \/ t \in late
            \/ ClosePending(t) \/ RemovalPending(tsess[t])

(* What outlives its right does so through a request that was past its     *)
(* check when the right was withdrawn, and through nothing else.           *)
OnlyLate == DataTypeOK /\ OnlyLateSessions /\ OnlyLateTrees

(* The call of a closes session s, or tree t, from outside.                *)
SweepsSession(a, s) ==
    pc[a] = "sweeping" /\ job[a].op = "remove_user" /\ job[a].user = suser[s]
SweepsTree(a, t) ==
    /\ pc[a] = "sweeping" /\ job[a].op # "remove_user"
    /\ job[a].share = bname[tbind[t]]
    /\ job[a].op = "revoke_share_user" => job[a].user = suser[tsess[t]]

(* A sweep takes no more than it must: a session ends by its own client's  *)
(* LOGOFF or by the removal of its own user, a tree with its session, by   *)
(* its client's TREE_DISCONNECT or by a call about its share and, for a    *)
(* revocation, its user; whatever else is swept, connected or removed in   *)
(* the meantime (close_sessions_for_user, close_matching_trees).           *)
SweepsSpareOthers ==
    [][/\ \A s \in Sessions : sst[s] = "live" /\ sst'[s] # "live" =>
            HAt(s[1], "closing") \/ \E a \in Admins : SweepsSession(a, s)
       /\ \A t \in Trees : tst[t] = "live" /\ tst'[t] # "live" =>
            \/ HAt(t[1], "closing") \/ sst[tsess[t]] = "closed"
            \/ \E a \in Admins : SweepsTree(a, t)]_vars

(* The backend never works on a handle that has been closed, though sweeps *)
(* close handles under requests in flight: close_tree_state waits for the  *)
(* write lock of the open (state.rs, read.rs, write.rs, flush.rs).         *)
NoIoAfterClose ==
    \A c \in Conns : HAt(c, "io") => ost[h[c].open] = "open"

(* An open has one owner: its tree's table, one closing actor or the CLOSE *)
(* handler, and whoever is to close the handle finds it there.  No handle  *)
(* is closed twice (state.rs close_tree_state, close.rs).                  *)
OneOwner ==
    \A o \in Opens :
        /\ \A p \in Actors : o \in w[p].opens =>
            /\ ~oreg[o] /\ ost[o] = "open"
            /\ \A q \in Actors \ {p} : o \notin w[q].opens
        /\ h[o[1]].open = o /\ h[o[1]].pc \in {"close_take", "close_handle"} =>
            /\ ~oreg[o] /\ ost[o] \in {"open", "taken"}
            /\ \A p \in Actors : o \notin w[p].opens
        /\ oreg[o] => ost[o] = "open"

(* No handle of a connected client is lost: an open one can be reached     *)
(* through the tables, or an actor is about to close it, or its own        *)
(* request is still in flight.                                             *)
NoLeakedHandle ==
    \A o \in Opens :
        ost[o] = "open" /\ conn[o[1]] = "on" =>
            \/ oreg[o] /\ EstablishedTree(otree[o])
            \/ h[o[1]].open = o /\ h[o[1]].pc \in {"create_insert", "close_take"}
            \/ \E p \in Actors :
                \/ o \in w[p].opens
                \/ otree[o] \in w[p].drained
                \/ tsess[otree[o]] = w[p].removed

(* Every request in progress is answered, whatever is being swept.         *)
RequestsEnd == \A c \in Conns : ~HAt(c, "idle") ~> HAt(c, "idle")

(* README: "Removing a user revokes that user's active sessions."  When    *)
(* nothing is in progress, no session belongs to a user who was removed.   *)
RemovedUserHasNoSession ==
    (\A a \in Admins : pc[a] = "idle") =>
        \A s \in Sessions : Established(s) => suser[s] \in users \cup {Anonymous}

-----------------------------------------------------------------------------
(* What clients see (AccessControl.tla): the sessions and trees that are   *)
(* established, the requests past a check and before the entry it was made *)
(* for, and what every call has still to close.                            *)

LiveSessions ==
    [s \in Sessions |-> IF Established(s) THEN suser[s] ELSE None]

NoTree == [sess |-> None, share |-> None, access |-> None]
LiveTrees ==
    [t \in Trees |->
       IF EstablishedTree(t)
         THEN [sess |-> tsess[t], share |-> bname[tbind[t]], access |-> tacc[t]]
         ELSE NoTree]

Kind(where) ==
    IF where = "setup_insert" THEN "login"
    ELSE IF where \in {"tree_find", "tree_auth"} THEN "ask"
    ELSE IF where = "tree_insert" THEN "enter"
    ELSE "none"
RequestOf(r) ==
    [kind |-> Kind(r.pc), user |-> r.user, sess |-> r.sess, share |-> r.share,
     access |-> r.access]
Askers == {"setup_insert", "tree_find", "tree_auth", "tree_insert"}
Unasked == RequestOf(Idle)
RequestIn(c) == IF h[c].pc \in Askers THEN RequestOf(h[c]) ELSE Unasked
Asking == [c \in Conns |-> RequestIn(c)]

Stale(c) == HAt(c, "tree_auth") /\ shares[h[c].share] # h[c].bind
StaleRequests == [c \in Conns |-> Stale(c)]

Leaving ==
    [c \in Conns |-> {s \in w[c].sids : Established(s)}
                        \cup {t \in w[c].rm : EstablishedTree(t)}]
Due ==
    [a \in Admins |->
       {s \in Sessions : Established(s) /\ SessionDue(a, s)}
         \cup {t \in Trees : EstablishedTree(t) /\ TreeDue(a, t)}]

Service == INSTANCE AccessControl WITH
              NoCall <- NoJob, known <- users, table <- ShareTable, call <- job,
              stage <- Stages, lost <- LostCalls, owed <- OwedShares,
              session <- LiveSessions, tree <- LiveTrees, request <- Asking,
              stale <- StaleRequests, leaving <- Leaving, due <- Due

(* To its clients and administrators the server is the table of            *)
(* AccessTable with sessions and trees that enter and leave at once: an    *)
(* entry rests on a check of the table as it was then, a call that takes   *)
(* rights away returns when everything that was on them is gone, and takes *)
(* nothing else, whatever locks, snapshots and sweeps the handlers and     *)
(* ConfigHandle go through to get there.                                   *)
ImplementsAccess == Service!AccessSpec
=============================================================================
