-------------------------- MODULE SmbSessionsProofs --------------------------
(***************************************************************************)
(* Proofs about SmbSessions for any users, share names, bindings, admin    *)
(* tasks and calls, any connections and any numbers of sessions, trees and *)
(* opens.                                                                  *)
(*                                                                         *)
(* SmbInv is the inductive invariant. OneOwner needs to know what every    *)
(* handler in the middle of a request has read (Carried, Handed).          *)
(* SweepComplete needs a trail: whatever was found when the connections    *)
(* were listed is closed, or in what the sweep has still to visit, or on   *)
(* its way to be closed by another actor (DoomedPending, Nested,           *)
(* WorkOfSweep). OnlyLate needs that a call which has withdrawn a right    *)
(* is still to list the connections or to reach the object (Only-          *)
(* LateSessions, OnlyLateTrees), that a running call keeps its share name  *)
(* and binding (NamesKept of ShareConfigProofs), and ConfigInv of the      *)
(* control plane.                                                          *)
(* NoLeakedHandle needs what keeps an emptied table reachable (UsedTrees,  *)
(* Reached).                                                               *)
(*                                                                         *)
(* The proofs that a part is kept take a step of a handler as quiet, when  *)
(* it leaves the tables and the closing work alone (QuietStep), or loud    *)
(* (LoudStep), and have one step for every loud action that disturbs it.   *)
(*                                                                         *)
(* The refinement of AccessControl comes last. The table is refined as in  *)
(* ShareConfigProofs; for the clients the proof says what a session, tree, *)
(* request or due object of one module shows of the other (ShownMeans,     *)
(* DueMeans, ListedMeans) and goes through the steps of Next once more. It *)
(* needs one more fact, that a handler past the lookup of its share has    *)
(* found a binding which had the name (FoundNamed).                        *)
(***************************************************************************)
EXTENDS SmbSessions, ShareConfigProofs

-----------------------------------------------------------------------------
(* The parts of the inductive invariant.                                   *)

(* The tables have their types.                                            *)
DataTypes ==
    /\ conn \in [Conns -> {"off", "on", "gone"}]
    /\ sst \in [Sessions -> {"free", "live", "closed"}]
    /\ suser \in [Sessions -> Identities \cup {None}]
    /\ tst \in [Trees -> {"free", "live", "closed"}]
    /\ tsess \in [Trees -> Sessions \cup {None}]
    /\ tbind \in [Trees -> Bindings \cup {None}]
    /\ tacc \in [Trees -> Access \cup {None}]
    /\ ost \in [Opens -> {"free", "open", "taken", "closed", "dropped"}]
    /\ oreg \in [Opens -> BOOLEAN]
    /\ otree \in [Opens -> Trees \cup {None}]
    /\ h \in [Conns -> Handler]
    /\ w \in [Actors -> Work]
    /\ doomed \in [Admins -> SUBSET (Sessions \cup Trees)]
    /\ late \in SUBSET (Sessions \cup Trees)

(* A connection has objects and requests only once it is accepted, and     *)
(* leaves between two requests.                                            *)
ConnUsed ==
    /\ \A c \in Conns : ~HAt(c, "idle") => conn[c] = "on"
    /\ \A s \in Sessions : sst[s] # "free" => conn[s[1]] # "off"

(* Every session has an identity; every tree was connected in a session of *)
(* its own connection; every open was opened in a tree of its own          *)
(* connection.                                                             *)
Owned ==
    /\ \A s \in Sessions : sst[s] # "free" => suser[s] \in Identities
    /\ \A t \in Trees : tst[t] # "free" =>
        /\ tsess[t] \in Sessions /\ tsess[t][1] = t[1]
        /\ sst[tsess[t]] # "free"
        /\ tbind[t] \in Bindings
    /\ \A o \in Opens :
        /\ ost[o] = "free" => otree[o] = None /\ ~oreg[o]
        /\ ost[o] # "free" =>
            otree[o] \in Trees /\ otree[o][1] = o[1] /\ tst[otree[o]] # "free"

TreePCs == {"tree_find", "tree_auth", "tree_insert"}
OpenPCs == {"create_insert", "close_remove", "close_take", "close_handle",
            "io_lookup", "io_lock", "io"}

(* What a handler has read is still the object it was.                     *)
CarriedBy(c) ==
    /\ HAt(c, "setup_insert") => h[c].user \in Identities
    /\ h[c].pc \in TreePCs =>
        /\ h[c].sess \in Sessions /\ h[c].sess[1] = c
        /\ sst[h[c].sess] # "free"
        /\ h[c].user = suser[h[c].sess]
        /\ h[c].share \in Names
    /\ h[c].pc \in {"tree_auth", "tree_insert"} => h[c].bind \in Bindings
    /\ HAt(c, "tree_insert") => h[c].access \in Access
    /\ h[c].pc \in OpenPCs \cup {"create_open"} =>
        h[c].tree \in Trees /\ h[c].tree[1] = c /\ tst[h[c].tree] # "free"
    /\ h[c].pc \in OpenPCs =>
        /\ h[c].open \in Opens /\ h[c].open[1] = c
        /\ ost[h[c].open] # "free"
        /\ otree[h[c].open] = h[c].tree
Carried == \A c \in Conns : CarriedBy(c)

(* A closing actor has reached what it holds from outside in.              *)
NestedIn(p) ==
    /\ \A s \in w[p].sids \cup w[p].scan : sst[s] # "free"
    /\ \A t \in w[p].rm : tst[t] # "free"
    /\ w[p].removed # None =>
        /\ sst[w[p].removed] = "closed"
        /\ w[p].lockS = None /\ w[p].drained = {} /\ w[p].lockT = None
    /\ \A t \in w[p].drained : tst[t] = "closed"
    /\ w[p].lockT # None => tst[w[p].lockT] = "closed"
    /\ w[p].lockT = None => w[p].opens = {}
Nested == \A p \in Actors : NestedIn(p)

(* The work a handler makes is its client's own, and that of a sweep is    *)
(* what the call is about.                                                 *)
WorkOfClient ==
    \A c \in Conns :
        /\ w[c].conns = {} /\ w[c].scan = {}
        /\ w[c] # NoWork => HAt(c, "closing")
        /\ \A s \in w[c].sids : s[1] = c
        /\ \A t \in w[c].rm : t[1] = c

SweepOps == {"remove_user", "remove_share", "revoke_share_user", "set_share_mode"}
TreeOps == SweepOps \ {"remove_user"}

(* The call of a closes tree t.                                            *)
About(a, t) ==
    /\ job[a].op \in TreeOps
    /\ bname[tbind[t]] = job[a].share
    /\ job[a].op = "revoke_share_user" => suser[tsess[t]] = job[a].user

WorkOfSweep ==
    \A a \in Admins :
        /\ pc[a] \in {"sweep", "sweeping"} => job[a].op \in SweepOps
        /\ w[a] # NoWork => pc[a] = "sweeping"
        /\ \A s \in w[a].sids : job[a].op = "remove_user" /\ job[a].user = suser[s]
        /\ \A s \in w[a].scan : job[a].op \in TreeOps
        /\ \A t \in w[a].rm : tst[t] = "live" => About(a, t)

(* An open is with one owner, whose step in closing it tells its state.    *)
Handed ==
    /\ \A o \in Opens : oreg[o] => ost[o] = "open"
    /\ \A o \in Opens : \A p \in Actors : o \in w[p].opens =>
        /\ ~oreg[o] /\ ost[o] = "open"
        /\ \A q \in Actors \ {p} : o \notin w[q].opens
    /\ \A c \in Conns : h[c].pc \in {"create_insert", "close_take", "close_handle"} =>
        /\ ~oreg[h[c].open]
        /\ ost[h[c].open] = IF HAt(c, "close_handle") THEN "taken" ELSE "open"
        /\ \A p \in Actors : h[c].open \notin w[p].opens

(* What a sweep found when it began is gone, or the sweep will come to it. *)
DoomedPending ==
    \A a \in Admins :
        /\ pc[a] # "sweeping" => doomed[a] = {}
        /\ \A s \in doomed[a] \cap Sessions :
            /\ job[a].op = "remove_user" /\ job[a].user = suser[s]
            /\ sst[s] # "free"
            /\ Established(s) => s[1] \in w[a].conns \/ s \in w[a].sids
        /\ \A t \in doomed[a] \cap Trees :
            /\ tst[t] # "free"
            /\ EstablishedTree(t) =>
                /\ About(a, t)
                /\ t[1] \in w[a].conns \/ tsess[t] \in w[a].scan \/ t \in w[a].rm

(* The handler of c will register o, or close it.                          *)
Held(o) ==
    h[o[1]].open = o /\ h[o[1]].pc \in {"create_insert", "close_take"}

(* Someone is about to close the trees of session s.                       *)
Doomed(s) == \E p \in Actors : w[p].removed = s

(* A tree that has been used lives in a live session, or goes with it.     *)
Used(t) ==
    \/ \E o \in Opens : otree[o] = t
    \/ h[t[1]].pc \in OpenPCs \cup {"create_open"} /\ h[t[1]].tree = t
UsedTrees ==
    \A t \in Trees :
        tst[t] = "live" /\ Used(t) => sst[tsess[t]] = "live" \/ Doomed(tsess[t])

(* Every open handle is someone's, and a registered one can be reached.    *)
Reached ==
    \A o \in Opens :
        /\ ost[o] = "open" =>
            oreg[o] \/ Held(o) \/ \E p \in Actors : o \in w[p].opens
        /\ oreg[o] =>
            \/ tst[otree[o]] = "live"
            \/ \E p \in Actors : otree[o] \in w[p].drained

(* The inductive invariant.                                                *)
SmbInv ==
    /\ ConfigInv
    /\ DataTypes
    /\ ConnUsed
    /\ Owned
    /\ Carried
    /\ Nested
    /\ WorkOfClient
    /\ WorkOfSweep
    /\ Handed
    /\ NoIoAfterClose
    /\ NamesKept
    /\ DoomedPending
    /\ OnlyLateSessions
    /\ OnlyLateTrees
    /\ UsedTrees
    /\ Reached

-----------------------------------------------------------------------------

(* The connections only restrict the control plane: a binding in use is    *)
(* not allocated again, a call returns after its sweep.                    *)
LEMMA ConfigPart == [Next]_vars => [ConfigNext]_configVars
<1> SUFFICES ASSUME [Next]_vars PROVE [ConfigNext]_configVars
  OBVIOUS
<1>1. CASE UNCHANGED vars
  BY <1>1 DEF vars
<1>2. ASSUME NEW a \in Admins, CallStep(a) \/ ConfigStep(a) \/ SweepStep(a)
      PROVE  [ConfigNext]_configVars
  <2>1. CASE CallStep(a)
    BY <2>1 DEF CallStep, ConfigNext
  <2>2. CASE ConfigStep(a)
    BY <2>2 DEF ConfigStep, ConfigNext, AdminStep, ShareSteps
  <2>3. CASE ListConnections(a) \/ ReturnSwept(a)
    BY <2>3 DEF ListConnections, ReturnSwept, ConfigNext, AdminStep
  <2>4. CASE \/ \E c \in Conns : SweepConnection(a, c)
             \/ \E s \in Sessions : ScanSession(a, s)
    BY <2>4 DEF SweepConnection, ScanSession
  <2> QED BY <1>2, <2>1, <2>2, <2>3, <2>4 DEF SweepStep
<1>3. ASSUME NEW p \in Actors, ClosingStep(p)
      PROVE  UNCHANGED configVars
  BY <1>3 DEF ClosingStep, CloseSession, DrainSession, UnlockSession,
              RemoveTree, DrainTree, CloseDrained, UnlockTree
<1>4. ASSUME NEW c \in Conns,
             Connect(c) \/ Disconnect(c) \/ NewRequest(c) \/ HandlerStep(c)
      PROVE  UNCHANGED configVars
  <2>1. CASE Connect(c) \/ Disconnect(c)
    BY <2>1 DEF Connect, Disconnect
  <2>2. CASE NewRequest(c)
    BY <2>2 DEF NewRequest, SetupAuthenticate, SetupAnonymous, TreeConnect, Logoff,
                TreeDisconnect, Create, Close, FileIo, FileRequest
  <2>3. CASE HandlerStep(c)
    BY <2>3 DEF HandlerStep, AnonList, AnonRefused, AnonCheck, SetupInsert,
                TreeFind, TreeAuthorize, TreeInsert, ClosingDone, CreateOpen,
                CreateFailed, CreateInsert, CloseRemove, CloseTake,
                CloseHandle, IoLookup, IoBegin, IoEnd
  <2> QED BY <1>4, <2>1, <2>2, <2>3
<1> QED BY <1>1, <1>2, <1>3, <1>4 DEF Next

(* Every behaviour of the server is one of the control plane: closing      *)
(* sessions and trees never disturbs users, shares and ACLs, and a revoke  *)
(* changes them in the order ShareConfig gives (server.rs, conn/state.rs). *)
THEOREM ControlPlaneKept == Spec => ConfigSpec
<1>1. Init => ConfigInit
  BY DEF Init
<1> QED BY <1>1, ConfigPart, PTL DEF Spec, ConfigSpec

-----------------------------------------------------------------------------
(* Types, and what the steps of handlers do to h.                          *)

(* Objects are told apart, and each belongs to a connection.               *)
LEMMA ObjectTypes ==
    /\ \A s \in Sessions : s[1] \in Conns /\ s # None /\ s \notin Trees
    /\ \A t \in Trees : t[1] \in Conns /\ t # None
    /\ \A o \in Opens : o[1] \in Conns /\ o # None
    /\ Conns \subseteq Actors /\ Admins \subseteq Actors
BY ObjectAssumption DEF Sessions, Trees, Opens, Actors

(* An idle handler is a handler.                                           *)
LEMMA IdleType == Idle \in Handler /\ Idle.pc = "idle"
BY DEF Idle, Handler, HandlerPCs

(* Having nothing to close is a state of the closing work.                 *)
LEMMA NoWorkType == NoWork \in Work
BY DEF NoWork, Work

(* The request of c, and no other, becomes one that is typed.              *)
Handles(c) ==
    /\ h' \in [Conns -> Handler]
    /\ \A d \in Conns \ {c} : h'[d] = h[d]

(* SetH sets the handler of one connection and no other.                   *)
LEMMA SetHandles ==
    ASSUME DataTypes, NEW c \in Conns, NEW r \in Handler, SetH(c, r)
    PROVE  Handles(c) /\ h'[c] = r
BY DEF DataTypes, SetH, Handles

(* A request that ends leaves its connection idle.                         *)
LEMMA EndHandles ==
    ASSUME DataTypes, NEW c \in Conns, EndRequest(c)
    PROVE  Handles(c) /\ h'[c].pc = "idle" /\ h'[c] = Idle
BY SetHandles, IdleType DEF EndRequest

(* A request that moves on keeps what it carries.                          *)
LEMMA MoveHandles ==
    ASSUME DataTypes, NEW c \in Conns, NEW x \in HandlerPCs,
           SetH(c, [h[c] EXCEPT !.pc = x])
    PROVE  /\ Handles(c) /\ h'[c].pc = x
           /\ h'[c].sess = h[c].sess /\ h'[c].user = h[c].user
           /\ h'[c].tree = h[c].tree /\ h'[c].open = h[c].open
           /\ h'[c].share = h[c].share /\ h'[c].bind = h[c].bind
<1>0. h[c] \in Handler
  BY DEF DataTypes
<1>1. [h[c] EXCEPT !.pc = x] \in Handler
  BY <1>0 DEF Handler
<1>2. Handles(c) /\ h'[c] = [h[c] EXCEPT !.pc = x]
  BY <1>1, SetHandles
<1> QED BY <1>0, <1>2 DEF Handler

(* What a new request of c is, and the work it makes.                      *)
Asked(c) ==
    \/ UNCHANGED w /\ h'[c].pc = "setup_insert" /\ h'[c].user \in Users
    \/ UNCHANGED w /\ h'[c].pc = "anon_list"
    \/ /\ UNCHANGED w /\ h'[c].pc = "tree_find"
       /\ h'[c].sess \in Sessions /\ h'[c].sess[1] = c
       /\ Established(h'[c].sess)
       /\ h'[c].user = suser[h'[c].sess] /\ h'[c].share \in Names
    \/ /\ UNCHANGED w /\ h'[c].pc = "create_open"
       /\ h'[c].tree \in Trees /\ h'[c].tree[1] = c
       /\ EstablishedTree(h'[c].tree)
    \/ /\ UNCHANGED w /\ h'[c].pc \in {"close_remove", "io_lookup"}
       /\ h'[c].tree \in Trees /\ h'[c].tree[1] = c
       /\ EstablishedTree(h'[c].tree)
       /\ h'[c].open \in Opens /\ otree[h'[c].open] = h'[c].tree
    \/ /\ h'[c].pc = "closing"
       /\ \E s \in Sessions : /\ s[1] = c /\ Established(s)
                              /\ w' = [w EXCEPT ![c].sids = {s}]
    \/ /\ h'[c].pc = "closing"
       /\ \E t \in Trees : /\ t[1] = c /\ EstablishedTree(t)
                           /\ w' = [w EXCEPT ![c].rm = {t}]

(* A new request changes what its handler has read, and nothing else but   *)
(* the work of a LOGOFF or TREE_DISCONNECT.                                *)
LEMMA RequestEffect ==
    ASSUME DataTypes, NEW c \in Conns, NewRequest(c)
    PROVE  /\ conn[c] = "on" /\ HAt(c, "idle")
           /\ Handles(c) /\ Asked(c)
           /\ UNCHANGED <<configVars, connVars, doomed, late>>
<1> DEFINE Effect == /\ conn[c] = "on" /\ HAt(c, "idle")
                     /\ Handles(c) /\ Asked(c)
                     /\ UNCHANGED <<configVars, connVars, doomed, late>>
<1>1. ASSUME NEW u \in Users, SetupAuthenticate(c, u)
      PROVE  Effect
  <2> DEFINE r == [Idle EXCEPT !.pc = "setup_insert", !.user = u]
  <2>1. r \in Handler /\ r.pc = "setup_insert" /\ r.user = u
    BY IdleType DEF Handler, HandlerPCs, Identities
  <2> HIDE DEF r
  <2> QED BY <1>1, <2>1, SetHandles DEF r, SetupAuthenticate, Request, Asked
<1>2. ASSUME SetupAnonymous(c)
      PROVE  Effect
  <2> DEFINE r == [Idle EXCEPT !.pc = "anon_list"]
  <2>1. r \in Handler /\ r.pc = "anon_list"
    BY IdleType DEF Handler, HandlerPCs
  <2> QED BY <1>2, <2>1, SetHandles DEF SetupAnonymous, Request, Asked
<1>3. ASSUME NEW s \in Sessions, NEW n \in Names, TreeConnect(c, s, n)
      PROVE  Effect
  <2> DEFINE r == [Idle EXCEPT !.pc = "tree_find", !.sess = s, !.share = n,
                               !.user = suser[s]]
  <2>1. suser[s] \in Identities \cup {None}
    BY DEF DataTypes
  <2>2. r \in Handler /\ r.pc = "tree_find" /\ r.sess = s /\ r.user = suser[s]
            /\ r.share = n
    BY <2>1, IdleType DEF Handler, HandlerPCs
  <2>3. Handles(c) /\ h'[c] = r
    BY <1>3, <2>2, SetHandles DEF TreeConnect
  <2> HIDE DEF r
  <2> QED BY <1>3, <2>2, <2>3 DEF TreeConnect, Request, Asked
<1>4. ASSUME NEW s \in Sessions, Logoff(c, s)
      PROVE  Effect
  <2> DEFINE r == [Idle EXCEPT !.pc = "closing"]
  <2>1. r \in Handler /\ r.pc = "closing"
    BY IdleType DEF Handler, HandlerPCs
  <2> QED BY <1>4, <2>1, SetHandles DEF Logoff, Request, Asked
<1>5. ASSUME NEW t \in Trees, TreeDisconnect(c, t)
      PROVE  Effect
  <2> DEFINE r == [Idle EXCEPT !.pc = "closing"]
  <2>1. r \in Handler /\ r.pc = "closing"
    BY IdleType DEF Handler, HandlerPCs
  <2> QED BY <1>5, <2>1, SetHandles DEF TreeDisconnect, Request, Asked
<1>6. ASSUME NEW t \in Trees, Create(c, t)
      PROVE  Effect
  <2> DEFINE r == [Idle EXCEPT !.pc = "create_open", !.tree = t]
  <2>1. r \in Handler /\ r.pc = "create_open" /\ r.tree = t
    BY IdleType DEF Handler, HandlerPCs
  <2>2. Handles(c) /\ h'[c] = r
    BY <1>6, <2>1, SetHandles DEF Create
  <2> HIDE DEF r
  <2> QED BY <1>6, <2>1, <2>2 DEF Create, Request, Asked
<1>7. ASSUME NEW t \in Trees, NEW o \in Opens,
             NEW where \in {"close_remove", "io_lookup"}, FileRequest(c, t, o, where)
      PROVE  Effect
  <2> DEFINE r == [Idle EXCEPT !.pc = where, !.tree = t, !.open = o]
  <2>1. r \in Handler /\ r.pc = where /\ r.tree = t /\ r.open = o
    BY IdleType DEF Handler, HandlerPCs
  <2>2. Handles(c) /\ h'[c] = r
    BY <1>7, <2>1, SetHandles DEF FileRequest
  <2> HIDE DEF r
  <2> QED BY <1>7, <2>1, <2>2 DEF FileRequest, Request, Asked
<1> HIDE DEF Effect
<1>8. Effect
  BY <1>1, <1>2, <1>3, <1>4, <1>5, <1>6, <1>7 DEF NewRequest, Close, FileIo
<1> QED BY <1>8 DEF Effect

(* A step of a handler that touches nothing but its own request.           *)
QuietStep(c) ==
    \/ AnonList(c) \/ AnonRefused(c) \/ \E b \in Bindings : AnonCheck(c, b)
    \/ TreeFind(c) \/ TreeAuthorize(c) \/ ClosingDone(c) \/ CreateFailed(c)
    \/ IoLookup(c) \/ IoBegin(c) \/ IoEnd(c)

WentOn(c) ==
    \/ h'[c].pc = "idle" /\ (HAt(c, "closing") => w[c] = NoWork)
    \/ h'[c].pc = "anon_check"
    \/ h'[c].pc = "setup_insert" /\ h'[c].user = Anonymous
    \/ /\ HAt(c, "tree_find") /\ h'[c].pc = "tree_auth"
       /\ h'[c].sess = h[c].sess /\ h'[c].user = h[c].user
       /\ h'[c].share = h[c].share /\ h'[c].bind \in Bindings
    \/ /\ HAt(c, "tree_auth") /\ h'[c].pc = "tree_insert"
       /\ h'[c].sess = h[c].sess /\ h'[c].user = h[c].user
       /\ h'[c].share = h[c].share /\ h'[c].bind = h[c].bind
       /\ h'[c].access \in Access
    \/ /\ HAt(c, "io_lookup") /\ h'[c].pc = "io_lock" /\ oreg[h[c].open]
       /\ h'[c].tree = h[c].tree /\ h'[c].open = h[c].open
    \/ /\ HAt(c, "io_lock") /\ h'[c].pc = "io" /\ ost[h[c].open] = "open"
       /\ h'[c].tree = h[c].tree /\ h'[c].open = h[c].open

(* Whatever identity and binding: an access, or none.                      *)
LEMMA AuthorizeType ==
    ASSUME TypeOK, NEW b \in Bindings, NEW id \in Identities
    PROVE  Authorize(b, id) \in Access \cup {None}
BY DEF TypeOK, Authorize, ShareAcl, Grants, Identities, Access

(* A quiet step changes what its handler has read and nothing else.        *)
LEMMA QuietEffect ==
    ASSUME TypeOK, DataTypes, Owned, Carried, NEW c \in Conns, QuietStep(c)
    PROVE  /\ ~HAt(c, "idle")
           /\ Handles(c) /\ WentOn(c)
           /\ UNCHANGED <<configVars, connVars, w, doomed, late>>
<1> DEFINE Effect == /\ ~HAt(c, "idle")
                     /\ Handles(c) /\ WentOn(c)
                     /\ UNCHANGED <<configVars, connVars, w, doomed, late>>
<1>h. h[c] \in Handler
  BY DEF DataTypes
<1>1. ASSUME AnonList(c)
      PROVE  Effect
  <2> DEFINE r == [h[c] EXCEPT !.pc = "anon_check",
                               !.todo = {b \in Bindings : Listed(b)}]
  <2>1. r \in Handler /\ r.pc = "anon_check"
    BY <1>h DEF Handler, HandlerPCs
  <2>2. Handles(c) /\ h'[c] = r
    BY <1>1, <2>1, SetHandles DEF AnonList
  <2> HIDE DEF r
  <2> QED BY <1>1, <2>1, <2>2 DEF AnonList, HAt, WentOn
<1>2. ASSUME AnonRefused(c) \/ CreateFailed(c) \/ ClosingDone(c) \/ IoEnd(c)
      PROVE  Effect
  BY <1>2, EndHandles DEF AnonRefused, CreateFailed, ClosingDone, IoEnd, HAt, WentOn
<1>3. ASSUME NEW b \in Bindings, AnonCheck(c, b)
      PROVE  Effect
  <2>1. CASE acl[b].mode \in PublicModes
    <3> DEFINE r == [Idle EXCEPT !.pc = "setup_insert", !.user = Anonymous]
    <3>1. r \in Handler /\ r.pc = "setup_insert" /\ r.user = Anonymous
      BY IdleType DEF Handler, HandlerPCs, Identities
    <3>2. Handles(c) /\ h'[c] = r
      BY <1>3, <2>1, <3>1, SetHandles DEF AnonCheck
    <3> HIDE DEF r
    <3> QED BY <1>3, <3>1, <3>2 DEF AnonCheck, HAt, WentOn
  <2>2. CASE acl[b].mode \notin PublicModes
    <3> DEFINE r == [h[c] EXCEPT !.todo = @ \ {b}]
    <3>1. r \in Handler /\ r.pc = "anon_check"
      BY <1>3, <1>h DEF Handler, AnonCheck, HAt
    <3>2. Handles(c) /\ h'[c] = r
      BY <1>3, <2>2, <3>1, SetHandles DEF AnonCheck
    <3> HIDE DEF r
    <3> QED BY <1>3, <3>1, <3>2 DEF AnonCheck, HAt, WentOn
  <2> QED BY <2>1, <2>2
<1>4. ASSUME TreeFind(c)
      PROVE  Effect
  <2>1. CASE shares[h[c].share] = None
    BY <1>4, <2>1, EndHandles DEF TreeFind, HAt, WentOn
  <2>2. CASE shares[h[c].share] # None
    <3> DEFINE b == shares[h[c].share]
               r == [h[c] EXCEPT !.pc = "tree_auth", !.bind = b]
    <3>0. b \in Bindings
      BY <1>4, <2>2 DEF TreeFind, HAt, Carried, CarriedBy, TreePCs, TypeOK
    <3> HIDE DEF b
    <3>1. r \in Handler /\ r.pc = "tree_auth"
            /\ r.sess = h[c].sess /\ r.user = h[c].user
            /\ r.share = h[c].share /\ r.bind = b
      BY <1>h, <3>0 DEF Handler, HandlerPCs
    <3>2. Handles(c) /\ h'[c] = r
      BY <1>4, <2>2, <3>1, SetHandles DEF TreeFind, b
    <3> HIDE DEF r
    <3> QED BY <1>4, <3>0, <3>1, <3>2 DEF TreeFind, HAt, WentOn
  <2> QED BY <2>1, <2>2
<1>5. ASSUME TreeAuthorize(c)
      PROVE  Effect
  <2> DEFINE granted == Authorize(h[c].bind, h[c].user)
  <2>0. granted \in Access \cup {None}
    BY <1>5, AuthorizeType DEF TreeAuthorize, HAt, Carried, CarriedBy, TreePCs, Owned
  <2> HIDE DEF granted
  <2>1. CASE granted = None
    BY <1>5, <2>1, EndHandles DEF TreeAuthorize, HAt, WentOn, granted
  <2>2. CASE granted # None
    <3> DEFINE x == IF h[c].bind \in ReadOnlyBackends THEN "Read" ELSE granted
               r == [h[c] EXCEPT !.pc = "tree_insert", !.access = x]
    <3>0. x \in Access
      BY <2>0, <2>2 DEF Access
    <3> HIDE DEF x
    <3>1. r \in Handler /\ r.pc = "tree_insert"
            /\ r.sess = h[c].sess /\ r.user = h[c].user
            /\ r.share = h[c].share /\ r.bind = h[c].bind /\ r.access = x
      BY <1>h, <3>0 DEF Handler, HandlerPCs
    <3>2. Handles(c) /\ h'[c] = r
      BY <1>5, <2>2, <3>1, SetHandles DEF TreeAuthorize, x, granted
    <3> HIDE DEF r
    <3> QED BY <1>5, <3>0, <3>1, <3>2 DEF TreeAuthorize, HAt, WentOn
  <2> QED BY <2>1, <2>2
<1>6. ASSUME IoLookup(c) \/ IoBegin(c)
      PROVE  Effect
  <2>1. CASE EndRequest(c)
    BY <1>6, <2>1, EndHandles DEF IoLookup, IoBegin, HAt, WentOn
  <2>2. CASE /\ HAt(c, "io_lookup") /\ oreg[h[c].open]
             /\ SetH(c, [h[c] EXCEPT !.pc = "io_lock"])
    BY <1>6, <2>2, MoveHandles DEF IoLookup, IoBegin, HAt, WentOn, HandlerPCs
  <2>3. CASE /\ HAt(c, "io_lock") /\ ost[h[c].open] = "open"
             /\ SetH(c, [h[c] EXCEPT !.pc = "io"])
    BY <1>6, <2>3, MoveHandles DEF IoLookup, IoBegin, HAt, WentOn, HandlerPCs
  <2> QED BY <1>6, <2>1, <2>2, <2>3 DEF IoLookup, IoBegin
<1> HIDE DEF Effect
<1>8. Effect
  BY <1>1, <1>2, <1>3, <1>4, <1>5, <1>6 DEF QuietStep
<1> QED BY <1>8 DEF Effect

(* At the start, the tables have their types.                              *)
LEMMA InitDataTypes == DataInit => DataTypes
BY IdleType, NoWorkType DEF DataInit, DataTypes

(* Every step keeps the types of the tables.                               *)
LEMMA StepDataTypes ==
    ASSUME TypeOK, DataTypes, Owned, Carried, [Next]_vars
    PROVE  DataTypes'
<1>0. CASE UNCHANGED dataVars
  BY <1>0 DEF dataVars, connVars, DataTypes
<1>1. ASSUME NEW c \in Conns, Connect(c) \/ Disconnect(c)
      PROVE  DataTypes'
  BY <1>1 DEF Connect, Disconnect, DataTypes
<1>2. ASSUME NEW c \in Conns, NewRequest(c)
      PROVE  DataTypes'
  <2>1. /\ Handles(c) /\ Asked(c)
        /\ UNCHANGED <<connVars, doomed, late>>
    BY <1>2, RequestEffect
  <2>2. w' \in [Actors -> Work]
    <3>1. CASE UNCHANGED w
      BY <3>1 DEF DataTypes
    <3>2. ASSUME NEW s \in Sessions, w' = [w EXCEPT ![c].sids = {s}]
          PROVE  w' \in [Actors -> Work]
      <4>1. w[c] \in Work
        BY ObjectTypes DEF DataTypes
      <4>2. [w[c] EXCEPT !.sids = {s}] \in Work
        BY <4>1 DEF Work
      <4> QED BY <3>2, <4>2, ObjectTypes DEF DataTypes
    <3>3. ASSUME NEW t \in Trees, w' = [w EXCEPT ![c].rm = {t}]
          PROVE  w' \in [Actors -> Work]
      <4>1. w[c] \in Work
        BY ObjectTypes DEF DataTypes
      <4>2. [w[c] EXCEPT !.rm = {t}] \in Work
        BY <4>1 DEF Work
      <4> QED BY <3>3, <4>2, ObjectTypes DEF DataTypes
    <3> QED BY <2>1, <3>1, <3>2, <3>3 DEF Asked
  <2> QED BY <2>1, <2>2 DEF Handles, DataTypes, connVars
<1>3. ASSUME NEW c \in Conns, QuietStep(c)
      PROVE  DataTypes'
  BY <1>3, QuietEffect DEF Handles, DataTypes, connVars
<1>4. ASSUME NEW c \in Conns, SetupInsert(c)
      PROVE  DataTypes'
  <2>1. Handles(c) /\ h[c].user \in Identities
    BY <1>4, EndHandles DEF SetupInsert, Carried, CarriedBy
  <2> QED BY <1>4, <2>1 DEF SetupInsert, Handles, DataTypes, Fresh
<1>5. ASSUME NEW c \in Conns, TreeInsert(c)
      PROVE  DataTypes'
  <2>1. Handles(c) /\ h[c] \in Handler
    BY <1>5, EndHandles DEF TreeInsert, DataTypes
  <2>2. /\ h[c].sess \in Sessions \cup {None} /\ h[c].bind \in Bindings \cup {None}
        /\ h[c].access \in Access \cup {None}
    BY <2>1 DEF Handler
  <2> QED BY <1>5, <2>1, <2>2 DEF TreeInsert, Handles, DataTypes, Fresh
<1>6. ASSUME NEW c \in Conns, CreateOpen(c)
      PROVE  DataTypes'
  <2>1. PICK o \in Fresh(c, ost) :
            /\ ost' = [ost EXCEPT ![o] = "open"]
            /\ otree' = [otree EXCEPT ![o] = h[c].tree]
            /\ SetH(c, [h[c] EXCEPT !.pc = "create_insert", !.open = o])
    BY <1>6 DEF CreateOpen
  <2>2. o \in Opens /\ h[c] \in Handler
    BY <2>1 DEF Fresh, DataTypes
  <2>3. [h[c] EXCEPT !.pc = "create_insert", !.open = o] \in Handler
    BY <2>2 DEF Handler, HandlerPCs
  <2>4. Handles(c)
    BY <2>1, <2>3, SetHandles
  <2>5. h[c].tree \in Trees \cup {None}
    BY <2>2 DEF Handler
  <2> QED BY <1>6, <2>1, <2>2, <2>4, <2>5 DEF CreateOpen, Handles, DataTypes
<1>7. ASSUME NEW c \in Conns, CreateInsert(c) \/ CloseHandle(c)
      PROVE  DataTypes'
  <2>1. Handles(c)
    BY <1>7, EndHandles DEF CreateInsert, CloseHandle
  <2>2. CASE CreateInsert(c)
    <3>1. /\ ost' \in [Opens -> {"free", "open", "taken", "closed", "dropped"}]
          /\ oreg' \in [Opens -> BOOLEAN]
      BY <2>2 DEF CreateInsert, DataTypes
    <3> QED BY <2>1, <2>2, <3>1 DEF CreateInsert, Handles, DataTypes
  <2>3. CASE CloseHandle(c)
    BY <2>1, <2>3 DEF CloseHandle, Handles, DataTypes
  <2> QED BY <1>7, <2>2, <2>3
<1>8. ASSUME NEW c \in Conns, CloseRemove(c) \/ CloseTake(c)
      PROVE  DataTypes'
  <2>1. Handles(c)
    BY <1>8, EndHandles, MoveHandles DEF CloseRemove, CloseTake, HandlerPCs
  <2>2. /\ ost' \in [Opens -> {"free", "open", "taken", "closed", "dropped"}]
        /\ oreg' \in [Opens -> BOOLEAN]
        /\ UNCHANGED <<conn, sst, suser, tst, tsess, tbind, tacc, otree, w, doomed, late>>
    BY <1>8 DEF CloseRemove, CloseTake, DataTypes
  <2> QED BY <2>1, <2>2 DEF Handles, DataTypes
<1>9. ASSUME NEW p \in Actors, NEW r \in Work, w' = [w EXCEPT ![p] = r]
      PROVE  w' \in [Actors -> Work]
  BY <1>9 DEF DataTypes
<1>w. \A p \in Actors : w[p] \in Work
  BY DEF DataTypes
<1>10. ASSUME NEW p \in Actors, NEW s \in Sessions, CloseSession(p, s)
       PROVE  DataTypes'
  <2>1. [w[p] EXCEPT !.sids = @ \ {s}, !.removed = IF sst[s] = "live" THEN s ELSE None]
            \in Work
    BY <1>w DEF Work
  <2> QED BY <1>9, <1>10, <2>1 DEF CloseSession, DataTypes
<1>11. ASSUME NEW p \in Actors, DrainSession(p)
       PROVE  DataTypes'
  <2> DEFINE ts == {t \in Trees : tst[t] = "live" /\ tsess[t] = w[p].removed}
  <2>1. [w[p] EXCEPT !.removed = None, !.lockS = w[p].removed, !.drained = ts] \in Work
    BY <1>w DEF Work
  <2> QED BY <1>9, <1>11, <2>1 DEF DrainSession, DataTypes
<1>12. ASSUME NEW p \in Actors, UnlockSession(p)
       PROVE  DataTypes'
  <2>1. [w[p] EXCEPT !.lockS = None] \in Work
    BY <1>w DEF Work
  <2> QED BY <1>9, <1>12, <2>1 DEF UnlockSession, DataTypes, connVars
<1>13. ASSUME NEW p \in Actors, NEW t \in Trees, RemoveTree(p, t)
       PROVE  DataTypes'
  <2>1. [w[p] EXCEPT !.rm = @ \ {t}, !.drained = IF tst[t] = "live" THEN {t} ELSE {}]
            \in Work
    BY <1>w DEF Work
  <2> QED BY <1>9, <1>13, <2>1 DEF RemoveTree, DataTypes
<1>14. ASSUME NEW p \in Actors, NEW t \in Trees, DrainTree(p, t)
       PROVE  DataTypes'
  <2> DEFINE os == {o \in Opens : otree[o] = t /\ oreg[o]}
  <2>1. [w[p] EXCEPT !.drained = @ \ {t}, !.lockT = t, !.opens = os] \in Work
    BY <1>w DEF Work
  <2>2. w' = [w EXCEPT ![p] = [w[p] EXCEPT !.drained = @ \ {t},
                                           !.lockT = t, !.opens = os]]
    BY <1>14 DEF DrainTree
  <2> HIDE DEF os
  <2>4. w' \in [Actors -> Work]
    BY <1>9, <2>1, <2>2
  <2>3. oreg' \in [Opens -> BOOLEAN]
    BY <1>14 DEF DrainTree, DataTypes
  <2> QED BY <1>14, <2>4, <2>3 DEF DrainTree, DataTypes
<1>15. ASSUME NEW p \in Actors, NEW o \in Opens, CloseDrained(p, o)
       PROVE  DataTypes'
  <2>1. [w[p] EXCEPT !.opens = @ \ {o}] \in Work
    BY <1>w DEF Work
  <2> QED BY <1>9, <1>15, <2>1 DEF CloseDrained, DataTypes
<1>16. ASSUME NEW p \in Actors, UnlockTree(p)
       PROVE  DataTypes'
  <2>1. [w[p] EXCEPT !.lockT = None] \in Work
    BY <1>w DEF Work
  <2> QED BY <1>9, <1>16, <2>1 DEF UnlockTree, DataTypes, connVars
<1>17. ASSUME NEW a \in Admins, ListConnections(a)
       PROVE  DataTypes'
  <2>1. [w[a] EXCEPT !.conns = {c \in Conns : conn[c] = "on"}] \in Work
    BY <1>w, ObjectTypes DEF Work
  <2>2. Targets(job[a]) \subseteq Sessions \cup Trees
    BY DEF Targets
  <2> QED BY <1>9, <1>17, <2>1, <2>2, ObjectTypes
          DEF ListConnections, DataTypes, connVars
<1>18. ASSUME NEW a \in Admins, NEW c \in Conns, SweepConnection(a, c)
       PROVE  DataTypes'
  <2> DEFINE live == {s \in Sessions : s[1] = c /\ sst[s] = "live"}
             mine == {s \in live : suser[s] = job[a].user}
  <2>0. w[a] \in Work /\ live \subseteq Sessions /\ mine \subseteq Sessions
    BY <1>w, ObjectTypes
  <2> HIDE DEF live, mine
  <2>1. /\ [w[a] EXCEPT !.conns = @ \ {c}, !.sids = mine] \in Work
        /\ [w[a] EXCEPT !.conns = @ \ {c}, !.scan = live] \in Work
    BY <2>0 DEF Work
  <2> QED BY <1>9, <1>18, <2>1, ObjectTypes
          DEF SweepConnection, DataTypes, connVars, live, mine
<1>19. ASSUME NEW a \in Admins, NEW s \in Sessions, ScanSession(a, s)
       PROVE  DataTypes'
  <2> DEFINE found == {t \in Trees : /\ tst[t] = "live" /\ tsess[t] = s
                                     /\ Matches(job[a], s, t)}
  <2>0. w[a] \in Work /\ found \subseteq Trees
    BY <1>w, ObjectTypes
  <2> HIDE DEF found
  <2>1. [w[a] EXCEPT !.scan = @ \ {s}, !.rm = found] \in Work
    BY <2>0 DEF Work
  <2> QED BY <1>9, <1>19, <2>1, ObjectTypes DEF ScanSession, DataTypes, connVars, found
<1>20. ASSUME NEW a \in Admins, ReturnSwept(a)
       PROVE  DataTypes'
  BY <1>20 DEF ReturnSwept, DataTypes, connVars
<1> QED
  BY <1>0, <1>1, <1>2, <1>3, <1>4, <1>5, <1>6, <1>7, <1>8, <1>10, <1>11, <1>12,
     <1>13, <1>14, <1>15, <1>16, <1>17, <1>18, <1>19, <1>20
  DEF Next, vars, CallStep, ConfigStep, SweepStep, ClosingStep, HandlerStep, QuietStep

-----------------------------------------------------------------------------
(* Connections, ownership and what handlers carry.                         *)

(* The steps of handlers that change the tables.                           *)
LoudStep(c) ==
    \/ SetupInsert(c) \/ TreeInsert(c) \/ CreateOpen(c) \/ CreateInsert(c)
    \/ CloseRemove(c) \/ CloseTake(c) \/ CloseHandle(c)

(* What a loud step does to its handler, and to the opens if it opens or   *)
(* takes one.                                                              *)
LEMMA LoudEffect ==
    ASSUME DataTypes, NEW c \in Conns, LoudStep(c)
    PROVE  /\ ~HAt(c, "idle") /\ ~HAt(c, "closing")
           /\ Handles(c)
           /\ UNCHANGED <<configVars, conn, w, doomed>>
           /\ \/ h'[c].pc = "idle"
              \/ /\ HAt(c, "create_open") /\ h'[c].pc = "create_insert"
                 /\ h'[c].tree = h[c].tree
                 /\ h'[c].open \in Fresh(c, ost)
                 /\ ost' = [ost EXCEPT ![h'[c].open] = "open"]
                 /\ otree' = [otree EXCEPT ![h'[c].open] = h[c].tree]
                 /\ UNCHANGED <<sst, suser, tst, tsess, tbind, tacc, oreg, late>>
              \/ /\ HAt(c, "close_remove") /\ h'[c].pc = "close_take"
                 /\ h'[c].tree = h[c].tree /\ h'[c].open = h[c].open
                 /\ oreg[h[c].open]
                 /\ oreg' = [oreg EXCEPT ![h[c].open] = FALSE]
                 /\ UNCHANGED <<sst, suser, tst, tsess, tbind, tacc, ost, otree, late>>
              \/ /\ HAt(c, "close_take") /\ h'[c].pc = "close_handle"
                 /\ h'[c].tree = h[c].tree /\ h'[c].open = h[c].open
                 /\ ost' = [ost EXCEPT ![h[c].open] = "taken"]
                 /\ UNCHANGED <<sst, suser, tst, tsess, tbind, tacc, oreg, otree, late>>
<1>1. CASE SetupInsert(c) \/ TreeInsert(c) \/ CreateInsert(c) \/ CloseHandle(c)
  BY <1>1, EndHandles DEF SetupInsert, TreeInsert, CreateInsert, CloseHandle, HAt
<1>2. CASE CreateOpen(c)
  <2>1. PICK o \in Fresh(c, ost) :
            /\ ost' = [ost EXCEPT ![o] = "open"]
            /\ otree' = [otree EXCEPT ![o] = h[c].tree]
            /\ SetH(c, [h[c] EXCEPT !.pc = "create_insert", !.open = o])
    BY <1>2 DEF CreateOpen
  <2>2. o \in Opens /\ h[c] \in Handler
    BY <2>1 DEF Fresh, DataTypes
  <2> DEFINE r == [h[c] EXCEPT !.pc = "create_insert", !.open = o]
  <2>3. r \in Handler /\ r.pc = "create_insert" /\ r.open = o /\ r.tree = h[c].tree
    BY <2>2 DEF Handler, HandlerPCs
  <2>4. Handles(c) /\ h'[c] = r
    BY <2>1, <2>3, SetHandles
  <2> HIDE DEF r
  <2> QED BY <1>2, <2>1, <2>3, <2>4 DEF CreateOpen, HAt
<1>3. CASE CloseRemove(c)
  BY <1>3, EndHandles, MoveHandles DEF CloseRemove, HandlerPCs, HAt
<1>4. CASE CloseTake(c)
  BY <1>4, MoveHandles DEF CloseTake, HandlerPCs, HAt
<1> QED BY <1>1, <1>2, <1>3, <1>4 DEF LoudStep

(* No step gives a connection that was never accepted anything.            *)
LEMMA StepConnUsed ==
    ASSUME TypeOK, DataTypes, Owned, Carried, ConnUsed, [Next]_vars
    PROVE  ConnUsed'
<1> USE ObjectTypes
<1>1. CASE UNCHANGED <<conn, sst, h>>
  BY <1>1 DEF ConnUsed, HAt
<1>2. ASSUME NEW c \in Conns, Connect(c) \/ Disconnect(c)
      PROVE  ConnUsed'
  BY <1>2 DEF Connect, Disconnect, ConnUsed, HAt, DataTypes
<1>3. ASSUME NEW c \in Conns, Handles(c), conn[c] = "on", UNCHANGED <<conn, sst>>
      PROVE  ConnUsed'
  BY <1>3 DEF Handles, ConnUsed, HAt
<1>4. ASSUME NEW c \in Conns, SetupInsert(c)
      PROVE  ConnUsed'
  <2>1. Handles(c) /\ conn[c] = "on"
    BY <1>4, LoudEffect DEF LoudStep, ConnUsed
  <2>2. PICK s \in Fresh(c, sst) : sst' = [sst EXCEPT ![s] = "live"]
    BY <1>4 DEF SetupInsert
  <2>3. s \in Sessions /\ s[1] = c /\ conn' = conn
    BY <1>4, <2>2 DEF SetupInsert, Fresh, DataTypes
  <2> QED BY <2>1, <2>2, <2>3 DEF Handles, ConnUsed, HAt, DataTypes
<1>5. ASSUME NEW p \in Actors, NEW s \in Sessions, CloseSession(p, s)
      PROVE  ConnUsed'
  BY <1>5 DEF CloseSession, ConnUsed, HAt, DataTypes
<1>6. ASSUME NEW c \in Conns, NewRequest(c) \/ HandlerStep(c), ~SetupInsert(c)
      PROVE  ConnUsed'
  <2>1. CASE NewRequest(c)
    BY <2>1, <1>3, RequestEffect DEF connVars
  <2>2. CASE QuietStep(c)
    BY <2>2, <1>3, QuietEffect DEF connVars, ConnUsed
  <2>3. CASE LoudStep(c)
    <3>1. UNCHANGED sst
      BY <2>3, <1>6 DEF LoudStep, TreeInsert, CreateOpen, CreateInsert,
                        CloseRemove, CloseTake, CloseHandle
    <3> QED BY <2>3, <3>1, <1>3, LoudEffect DEF ConnUsed
  <2> QED BY <1>6, <2>1, <2>2, <2>3 DEF HandlerStep, QuietStep, LoudStep
<1>7. ASSUME NEW p \in Actors, ClosingStep(p)
      PROVE  ConnUsed'
  BY <1>7, <1>1, <1>5 DEF ClosingStep, DrainSession, UnlockSession, RemoveTree,
                          DrainTree, CloseDrained, UnlockTree, connVars
<1>8. ASSUME NEW a \in Admins, CallStep(a) \/ ConfigStep(a) \/ SweepStep(a)
      PROVE  UNCHANGED <<conn, sst, h>>
  BY <1>8 DEF CallStep, ConfigStep, SweepStep, ListConnections, SweepConnection,
              ScanSession, ReturnSwept, dataVars, connVars
<1> QED BY <1>1, <1>2, <1>4, <1>6, <1>7, <1>8 DEF Next, vars, dataVars, connVars

(* The steps that leave sessions, trees and opens alone.                   *)
LEMMA TablesFrame ==
    ASSUME TypeOK, DataTypes, Owned, Carried, [Next]_vars
    PROVE  \/ UNCHANGED <<sst, suser, tst, tsess, tbind, ost, oreg, otree>>
           \/ \E c \in Conns : LoudStep(c)
           \/ \E p \in Actors :
                \/ \E s \in Sessions : CloseSession(p, s)
                \/ DrainSession(p)
                \/ \E t \in Trees : RemoveTree(p, t) \/ DrainTree(p, t)
                \/ \E o \in Opens : CloseDrained(p, o)
<1> DEFINE Same == UNCHANGED <<sst, suser, tst, tsess, tbind, ost, oreg, otree>>
<1>1. CASE UNCHANGED vars
  BY <1>1 DEF vars, dataVars, connVars
<1>2. ASSUME NEW a \in Admins, CallStep(a) \/ ConfigStep(a) \/ SweepStep(a)
      PROVE  Same
  BY <1>2 DEF CallStep, ConfigStep, SweepStep, ListConnections, SweepConnection,
              ScanSession, ReturnSwept, dataVars, connVars
<1>3. ASSUME NEW c \in Conns, Connect(c) \/ Disconnect(c)
      PROVE  Same
  BY <1>3 DEF Connect, Disconnect
<1>4. ASSUME NEW c \in Conns, NewRequest(c) \/ QuietStep(c)
      PROVE  Same
  BY <1>4, RequestEffect, QuietEffect DEF connVars
<1>5. ASSUME NEW p \in Actors, UnlockSession(p) \/ UnlockTree(p)
      PROVE  Same
  BY <1>5 DEF UnlockSession, UnlockTree, connVars
<1>6. ASSUME NEW c \in Conns, HandlerStep(c)
      PROVE  Same \/ LoudStep(c)
  BY <1>4, <1>6 DEF HandlerStep, QuietStep, LoudStep
<1>7. ASSUME NEW p \in Actors, ClosingStep(p)
      PROVE  \/ Same
             \/ \E s \in Sessions : CloseSession(p, s)
             \/ DrainSession(p)
             \/ \E t \in Trees : RemoveTree(p, t) \/ DrainTree(p, t)
             \/ \E o \in Opens : CloseDrained(p, o)
  BY <1>5, <1>7 DEF ClosingStep
<1> QED BY <1>1, <1>2, <1>3, <1>4, <1>6, <1>7 DEF Next

(* Every step keeps the owners of sessions, trees and opens.               *)
LEMMA StepOwned ==
    ASSUME TypeOK, DataTypes, Owned, Carried, Nested, Handed, [Next]_vars
    PROVE  Owned'
<1> USE ObjectTypes
<1>0. CASE UNCHANGED <<sst, suser, tst, tsess, tbind, ost, oreg, otree>>
  BY <1>0 DEF Owned
<1>1. ASSUME NEW c \in Conns, SetupInsert(c)
      PROVE  Owned'
  <2>1. PICK s \in Fresh(c, sst) :
            /\ sst' = [sst EXCEPT ![s] = "live"]
            /\ suser' = [suser EXCEPT ![s] = h[c].user]
    BY <1>1 DEF SetupInsert
  <2>2. s \in Sessions /\ sst[s] = "free" /\ h[c].user \in Identities
    BY <1>1, <2>1 DEF SetupInsert, Fresh, DataTypes, Carried, CarriedBy
  <2> QED BY <1>1, <2>1, <2>2 DEF SetupInsert, Owned, DataTypes
<1>2. ASSUME NEW c \in Conns, TreeInsert(c)
      PROVE  Owned'
  <2>1. PICK t \in Fresh(c, tst) :
            /\ tst' = [tst EXCEPT ![t] = "live"]
            /\ tsess' = [tsess EXCEPT ![t] = h[c].sess]
            /\ tbind' = [tbind EXCEPT ![t] = h[c].bind]
    BY <1>2 DEF TreeInsert
  <2>2. /\ t \in Trees /\ tst[t] = "free" /\ t[1] = c
        /\ h[c].sess \in Sessions /\ h[c].sess[1] = c /\ sst[h[c].sess] # "free"
        /\ h[c].bind \in Bindings
    BY <1>2, <2>1 DEF TreeInsert, Fresh, DataTypes, Carried, CarriedBy, HAt, TreePCs
  <2> QED BY <1>2, <2>1, <2>2 DEF TreeInsert, Owned, DataTypes
<1>3. ASSUME NEW c \in Conns, CreateOpen(c)
      PROVE  Owned'
  <2>1. PICK o \in Fresh(c, ost) :
            /\ ost' = [ost EXCEPT ![o] = "open"]
            /\ otree' = [otree EXCEPT ![o] = h[c].tree]
    BY <1>3 DEF CreateOpen
  <2>2. /\ o \in Opens /\ ost[o] = "free" /\ o[1] = c
        /\ h[c].tree \in Trees /\ h[c].tree[1] = c /\ tst[h[c].tree] # "free"
    BY <1>3, <2>1 DEF CreateOpen, Fresh, DataTypes, Carried, CarriedBy, HAt
  <2> QED BY <1>3, <2>1, <2>2 DEF CreateOpen, Owned, DataTypes
<1>4. ASSUME NEW c \in Conns,
             CreateInsert(c) \/ CloseRemove(c) \/ CloseTake(c) \/ CloseHandle(c)
      PROVE  Owned'
  <2>1. h[c].open \in Opens /\ ost[h[c].open] # "free"
    BY <1>4 DEF CreateInsert, CloseRemove, CloseTake, CloseHandle, Carried, CarriedBy,
              HAt, OpenPCs
  <2>2. CASE CreateInsert(c)
    BY <2>1, <2>2 DEF CreateInsert, Owned, DataTypes
  <2>3. CASE CloseRemove(c)
    BY <2>1, <2>3 DEF CloseRemove, Owned, DataTypes
  <2>4. CASE CloseTake(c) \/ CloseHandle(c)
    BY <2>1, <2>4 DEF CloseTake, CloseHandle, Owned, DataTypes
  <2> QED BY <1>4, <2>2, <2>3, <2>4
<1>5. ASSUME NEW p \in Actors, NEW s \in Sessions, CloseSession(p, s)
      PROVE  Owned'
  BY <1>5 DEF CloseSession, Owned, DataTypes
<1>6. ASSUME NEW p \in Actors, DrainSession(p)
      PROVE  Owned'
  BY <1>6 DEF DrainSession, Owned, DataTypes
<1>7. ASSUME NEW p \in Actors, NEW t \in Trees, RemoveTree(p, t)
      PROVE  Owned'
  BY <1>7 DEF RemoveTree, Owned, Nested, NestedIn, DataTypes
<1>8. ASSUME NEW p \in Actors, NEW t \in Trees, DrainTree(p, t)
      PROVE  Owned'
  BY <1>8 DEF DrainTree, Owned, DataTypes
<1>9. ASSUME NEW p \in Actors, NEW o \in Opens, CloseDrained(p, o)
      PROVE  Owned'
  <2>1. ost[o] = "open"
    BY <1>9 DEF CloseDrained, Handed
  <2> QED BY <1>9, <2>1 DEF CloseDrained, Owned, DataTypes
<1> QED BY <1>0, <1>1, <1>2, <1>3, <1>4, <1>5, <1>6, <1>7, <1>8, <1>9, TablesFrame
        DEF LoudStep

(* Objects once made stay what they are: the tables only change their      *)
(* state, and never back to "free".                                        *)
LEMMA Lasting ==
    ASSUME TypeOK, DataTypes, Owned, Carried, Nested, Handed, [Next]_vars
    PROVE  /\ \A s \in Sessions : sst[s] # "free" =>
                sst'[s] # "free" /\ suser'[s] = suser[s]
                    /\ (sst[s] = "closed" => sst'[s] = "closed")
           /\ \A t \in Trees : tst[t] # "free" =>
                /\ tst'[t] # "free" /\ tsess'[t] = tsess[t] /\ tbind'[t] = tbind[t]
                /\ tst[t] = "closed" => tst'[t] = "closed"
           /\ \A o \in Opens : ost[o] # "free" =>
                ost'[o] # "free" /\ otree'[o] = otree[o]
<1> USE ObjectTypes
<1>0. CASE UNCHANGED <<sst, suser, tst, tsess, tbind, ost, oreg, otree>>
  BY <1>0
<1>1. ASSUME NEW c \in Conns, LoudStep(c)
      PROVE  /\ \A s \in Sessions : sst[s] # "free" =>
                  sst'[s] = sst[s] /\ suser'[s] = suser[s]
             /\ \A t \in Trees : tst[t] # "free" =>
                  tst'[t] = tst[t] /\ tsess'[t] = tsess[t] /\ tbind'[t] = tbind[t]
             /\ \A o \in Opens : ost[o] # "free" =>
                  ost'[o] # "free" /\ otree'[o] = otree[o]
  <2>1. CASE SetupInsert(c)
    BY <2>1 DEF SetupInsert, Fresh, DataTypes
  <2>2. CASE TreeInsert(c)
    BY <2>2 DEF TreeInsert, Fresh, DataTypes
  <2>3. CASE CreateOpen(c)
    BY <2>3 DEF CreateOpen, Fresh, DataTypes
  <2>4. CASE CreateInsert(c)
    BY <2>4 DEF CreateInsert, DataTypes
  <2>5. CASE CloseRemove(c) \/ CloseTake(c) \/ CloseHandle(c)
    BY <2>5 DEF CloseRemove, CloseTake, CloseHandle, DataTypes
  <2> QED BY <1>1, <2>1, <2>2, <2>3, <2>4, <2>5 DEF LoudStep
<1>2. ASSUME NEW p \in Actors, NEW s \in Sessions, CloseSession(p, s)
      PROVE  /\ \A x \in Sessions : sst[x] # "free" =>
                  sst'[x] # "free" /\ (sst[x] = "closed" => sst'[x] = "closed")
             /\ UNCHANGED <<suser, tst, tsess, tbind, ost, otree>>
  BY <1>2 DEF CloseSession, DataTypes
<1>3. ASSUME NEW p \in Actors,
             DrainSession(p) \/ \E t \in Trees : RemoveTree(p, t)
      PROVE  /\ \A t \in Trees : tst[t] # "free" =>
                  tst'[t] # "free" /\ (tst[t] = "closed" => tst'[t] = "closed")
             /\ UNCHANGED <<sst, suser, tsess, tbind, ost, otree>>
  BY <1>3 DEF DrainSession, RemoveTree, DataTypes
<1>4. ASSUME NEW p \in Actors,
             \/ \E t \in Trees : DrainTree(p, t)
             \/ \E o \in Opens : CloseDrained(p, o)
      PROVE  /\ \A o \in Opens : ost[o] # "free" => ost'[o] # "free"
             /\ UNCHANGED <<sst, suser, tst, tsess, tbind, otree>>
  BY <1>4 DEF DrainTree, CloseDrained, DataTypes
<1> QED BY <1>0, <1>1, <1>2, <1>3, <1>4, TablesFrame

(* What a handler has read stays the object it was in every step.          *)
LEMMA StepCarried ==
    ASSUME TypeOK, DataTypes, Owned, Carried, Nested, Handed, [Next]_vars
    PROVE  Carried'
<1> USE ObjectTypes
<1>l. /\ \A s \in Sessions : sst[s] # "free" => sst'[s] # "free" /\ suser'[s] = suser[s]
      /\ \A t \in Trees : tst[t] # "free" => tst'[t] # "free"
      /\ \A o \in Opens : ost[o] # "free" => ost'[o] # "free" /\ otree'[o] = otree[o]
  BY Lasting
<1>1. ASSUME NEW d \in Conns, h'[d] = h[d]
      PROVE  CarriedBy(d)'
  BY <1>1, <1>l DEF Carried, CarriedBy, HAt, TreePCs, OpenPCs
<1>2. ASSUME NEW c \in Conns, Handles(c), CarriedBy(c)'
      PROVE  Carried'
  BY <1>1, <1>2 DEF Carried, Handles
<1>3. CASE UNCHANGED h
  BY <1>1, <1>3 DEF Carried
<1>4. ASSUME NEW c \in Conns, NewRequest(c)
      PROVE  Carried'
  <2>1. Handles(c) /\ Asked(c) /\ UNCHANGED connVars
    BY <1>4, RequestEffect
  <2>2. \/ h'[c].pc \in {"anon_list", "closing"}
        \/ h'[c].pc = "setup_insert" /\ h'[c].user \in Users
        \/ /\ h'[c].pc = "tree_find"
           /\ h'[c].sess \in Sessions /\ h'[c].sess[1] = c /\ sst[h'[c].sess] = "live"
           /\ h'[c].user = suser[h'[c].sess] /\ h'[c].share \in Names
        \/ /\ h'[c].pc = "create_open"
           /\ h'[c].tree \in Trees /\ h'[c].tree[1] = c /\ tst[h'[c].tree] = "live"
        \/ /\ h'[c].pc \in {"close_remove", "io_lookup"}
           /\ h'[c].tree \in Trees /\ h'[c].tree[1] = c /\ tst[h'[c].tree] = "live"
           /\ h'[c].open \in Opens /\ otree[h'[c].open] = h'[c].tree
    BY <2>1 DEF Asked, EstablishedTree, Established
  <2>3. ASSUME h'[c].open \in Opens, otree[h'[c].open] = h'[c].tree, h'[c].tree \in Trees
        PROVE  ost[h'[c].open] # "free" /\ h'[c].open[1] = h'[c].tree[1]
    BY <2>3 DEF Owned
  <2>4. CarriedBy(c)'
    BY <2>1, <2>2, <2>3 DEF CarriedBy, HAt, TreePCs, OpenPCs, connVars, Identities
  <2> QED BY <1>2, <2>1, <2>4
<1>5. ASSUME NEW c \in Conns, QuietStep(c)
      PROVE  Carried'
  <2>1. Handles(c) /\ WentOn(c) /\ UNCHANGED connVars
    BY <1>5, QuietEffect
  <2>2. CarriedBy(c)'
    BY <2>1 DEF Carried, CarriedBy, WentOn, HAt, TreePCs, OpenPCs, connVars, Identities
  <2> QED BY <1>2, <2>1, <2>2
<1>6. ASSUME NEW c \in Conns, LoudStep(c)
      PROVE  Carried'
  <2>0. CarriedBy(c)
    BY DEF Carried
  <2>1. Handles(c)
    BY <1>6, LoudEffect
  <2>2. CASE h'[c].pc = "idle"
    BY <1>2, <2>1, <2>2 DEF CarriedBy, HAt, TreePCs, OpenPCs
  <2>3. CASE /\ HAt(c, "create_open") /\ h'[c].pc = "create_insert"
             /\ h'[c].tree = h[c].tree
             /\ h'[c].open \in Fresh(c, ost)
             /\ ost' = [ost EXCEPT ![h'[c].open] = "open"]
             /\ otree' = [otree EXCEPT ![h'[c].open] = h[c].tree]
             /\ UNCHANGED tst
    <3>1. h'[c].open \in Opens /\ h'[c].open[1] = c
      BY <2>3 DEF Fresh, DataTypes
    <3>2. CarriedBy(c)'
      BY <2>0, <2>3, <3>1 DEF CarriedBy, HAt, TreePCs, OpenPCs, DataTypes
    <3> QED BY <1>2, <2>1, <3>2
  <2>4. CASE /\ HAt(c, "close_remove") /\ h'[c].pc = "close_take"
             /\ h'[c].tree = h[c].tree /\ h'[c].open = h[c].open
    <3>1. CarriedBy(c)'
      BY <1>l, <2>0, <2>4 DEF CarriedBy, HAt, TreePCs, OpenPCs
    <3> QED BY <1>2, <2>1, <3>1
  <2>5. CASE /\ HAt(c, "close_take") /\ h'[c].pc = "close_handle"
             /\ h'[c].tree = h[c].tree /\ h'[c].open = h[c].open
    <3>1. CarriedBy(c)'
      BY <1>l, <2>0, <2>5 DEF CarriedBy, HAt, TreePCs, OpenPCs
    <3> QED BY <1>2, <2>1, <3>1
  <2> QED BY <1>6, <2>2, <2>3, <2>4, <2>5, LoudEffect
<1>7. ASSUME NEW c \in Conns, Connect(c) \/ Disconnect(c)
      PROVE  UNCHANGED h
  BY <1>7 DEF Connect, Disconnect
<1>8. ASSUME NEW p \in Actors, ClosingStep(p)
      PROVE  UNCHANGED h
  BY <1>8 DEF ClosingStep, CloseSession, DrainSession, UnlockSession, RemoveTree,
              DrainTree, CloseDrained, UnlockTree
<1>9. ASSUME NEW a \in Admins, CallStep(a) \/ ConfigStep(a) \/ SweepStep(a)
      PROVE  UNCHANGED h
  BY <1>9 DEF CallStep, ConfigStep, SweepStep, ListConnections, SweepConnection,
              ScanSession, ReturnSwept, dataVars
<1>10. ASSUME NEW c \in Conns, HandlerStep(c)
       PROVE  QuietStep(c) \/ LoudStep(c)
  BY <1>10 DEF HandlerStep, QuietStep, LoudStep
<1> QED BY <1>3, <1>4, <1>5, <1>6, <1>7, <1>8, <1>9, <1>10 DEF Next, vars, dataVars

-----------------------------------------------------------------------------
(* The work of closing actors.                                             *)

(* The steps that change what someone has to close.                        *)
LEMMA WorkFrame ==
    ASSUME TypeOK, DataTypes, Owned, Carried, [Next]_vars
    PROVE  \/ UNCHANGED w
           \/ \E c \in Conns :
                \/ \E s \in Sessions : Logoff(c, s)
                \/ \E t \in Trees : TreeDisconnect(c, t)
           \/ \E p \in Actors : ClosingStep(p)
           \/ \E a \in Admins :
                \/ ListConnections(a)
                \/ \E c \in Conns : SweepConnection(a, c)
                \/ \E s \in Sessions : ScanSession(a, s)
<1>1. ASSUME NEW a \in Admins, CallStep(a) \/ ConfigStep(a) \/ ReturnSwept(a)
      PROVE  UNCHANGED w
  BY <1>1 DEF CallStep, ConfigStep, ReturnSwept, dataVars
<1>2. ASSUME NEW c \in Conns, Connect(c) \/ Disconnect(c) \/ QuietStep(c) \/ LoudStep(c)
      PROVE  UNCHANGED w
  BY <1>2, QuietEffect, LoudEffect DEF Connect, Disconnect
<1>3. ASSUME NEW c \in Conns, NewRequest(c)
      PROVE  \/ UNCHANGED w
             \/ \E s \in Sessions : Logoff(c, s)
             \/ \E t \in Trees : TreeDisconnect(c, t)
  BY <1>3 DEF NewRequest, SetupAuthenticate, SetupAnonymous, TreeConnect, Create,
              Close, FileIo, FileRequest
<1>4. ASSUME NEW c \in Conns, HandlerStep(c)
      PROVE  QuietStep(c) \/ LoudStep(c)
  BY <1>4 DEF HandlerStep, QuietStep, LoudStep
<1> QED BY <1>1, <1>2, <1>3, <1>4 DEF Next, SweepStep, vars, dataVars

(* What the closing steps of an actor do to its work.                      *)
LEMMA CloseSessionWork ==
    ASSUME DataTypes, NEW p \in Actors, NEW s \in Sessions, CloseSession(p, s)
    PROVE  /\ \A q \in Actors \ {p} : w'[q] = w[q]
           /\ w'[p].conns = w[p].conns /\ w'[p].sids = w[p].sids \ {s}
           /\ w'[p].scan = w[p].scan /\ w'[p].rm = w[p].rm
           /\ w'[p].removed = IF sst[s] = "live" THEN s ELSE None
           /\ w'[p].lockS = w[p].lockS /\ w'[p].drained = w[p].drained
           /\ w'[p].lockT = w[p].lockT /\ w'[p].opens = w[p].opens
BY DEF CloseSession, DataTypes, Work

(* Draining a session takes the trees of its table.                        *)
LEMMA DrainSessionWork ==
    ASSUME DataTypes, NEW p \in Actors, DrainSession(p)
    PROVE  /\ \A q \in Actors \ {p} : w'[q] = w[q]
           /\ w'[p].conns = w[p].conns /\ w'[p].sids = w[p].sids
           /\ w'[p].scan = w[p].scan /\ w'[p].rm = w[p].rm
           /\ w'[p].removed = None /\ w'[p].lockS = w[p].removed
           /\ w'[p].drained = {t \in Trees : tst[t] = "live" /\ tsess[t] = w[p].removed}
           /\ w'[p].lockT = w[p].lockT /\ w'[p].opens = w[p].opens
BY DEF DrainSession, DataTypes, Work

(* Removing a tree takes it from those to be removed.                      *)
LEMMA RemoveTreeWork ==
    ASSUME DataTypes, NEW p \in Actors, NEW t \in Trees, RemoveTree(p, t)
    PROVE  /\ \A q \in Actors \ {p} : w'[q] = w[q]
           /\ w'[p].conns = w[p].conns /\ w'[p].sids = w[p].sids
           /\ w'[p].scan = w[p].scan /\ w'[p].rm = w[p].rm \ {t}
           /\ w'[p].removed = w[p].removed /\ w'[p].lockS = w[p].lockS
           /\ w'[p].drained = IF tst[t] = "live" THEN {t} ELSE {}
           /\ w'[p].lockT = w[p].lockT /\ w'[p].opens = w[p].opens
BY DEF RemoveTree, DataTypes, Work

(* Draining a tree takes the opens of its table.                           *)
LEMMA DrainTreeWork ==
    ASSUME DataTypes, NEW p \in Actors, NEW t \in Trees, DrainTree(p, t)
    PROVE  /\ \A q \in Actors \ {p} : w'[q] = w[q]
           /\ w'[p].conns = w[p].conns /\ w'[p].sids = w[p].sids
           /\ w'[p].scan = w[p].scan /\ w'[p].rm = w[p].rm
           /\ w'[p].removed = w[p].removed /\ w'[p].lockS = w[p].lockS
           /\ w'[p].drained = w[p].drained \ {t} /\ w'[p].lockT = t
           /\ w'[p].opens = {o \in Opens : otree[o] = t /\ oreg[o]}
BY DEF DrainTree, DataTypes, Work

(* Closing a drained open takes it from those drained.                     *)
LEMMA CloseDrainedWork ==
    ASSUME DataTypes, NEW p \in Actors, NEW o \in Opens, CloseDrained(p, o)
    PROVE  /\ \A q \in Actors \ {p} : w'[q] = w[q]
           /\ w'[p].conns = w[p].conns /\ w'[p].sids = w[p].sids
           /\ w'[p].scan = w[p].scan /\ w'[p].rm = w[p].rm
           /\ w'[p].removed = w[p].removed /\ w'[p].lockS = w[p].lockS
           /\ w'[p].drained = w[p].drained /\ w'[p].lockT = w[p].lockT
           /\ w'[p].opens = w[p].opens \ {o}
BY DEF CloseDrained, DataTypes, Work

(* Unlocking lets go of a session, or of a tree without opens left.        *)
LEMMA UnlockWork ==
    ASSUME DataTypes, NEW p \in Actors, UnlockSession(p) \/ UnlockTree(p)
    PROVE  /\ \A q \in Actors \ {p} : w'[q] = w[q]
           /\ w'[p].conns = w[p].conns /\ w'[p].sids = w[p].sids
           /\ w'[p].scan = w[p].scan /\ w'[p].rm = w[p].rm
           /\ w'[p].removed = w[p].removed /\ w'[p].drained = w[p].drained
           /\ w'[p].lockS \in {w[p].lockS, None} /\ w'[p].opens = w[p].opens
           /\ w'[p].lockT = w[p].lockT \/ (w'[p].lockT = None /\ w[p].opens = {})
<1>1. CASE UnlockSession(p)
  <2>1. w[p] \in Work /\ w \in [Actors -> Work]
    BY DEF DataTypes
  <2>2. w' = [w EXCEPT ![p].lockS = None]
    BY <1>1 DEF UnlockSession
  <2>3. w'[p] = [w[p] EXCEPT !.lockS = None] /\ \A q \in Actors \ {p} : w'[q] = w[q]
    BY <2>1, <2>2
  <2>4. w'[p].lockS = None
    BY <2>1, <2>3 DEF Work
  <2> QED BY <2>1, <2>3, <2>4 DEF Work
<1>2. CASE UnlockTree(p)
  <2>1. w[p] \in Work /\ w \in [Actors -> Work]
    BY DEF DataTypes
  <2>2. w' = [w EXCEPT ![p].lockT = None] /\ w[p].opens = {}
    BY <1>2 DEF UnlockTree
  <2> QED BY <2>1, <2>2 DEF Work
<1> QED BY <1>1, <1>2

(* What a request or a sweep adds to the work of an actor, outside.        *)
Assigned(p) ==
    /\ \A q \in Actors \ {p} : w'[q] = w[q]
    /\ w'[p].removed = w[p].removed /\ w'[p].lockS = w[p].lockS
    /\ w'[p].drained = w[p].drained /\ w'[p].lockT = w[p].lockT
    /\ w'[p].opens = w[p].opens

(* LOGOFF has one session to close, TREE_DISCONNECT one tree.              *)
LEMMA RequestWork ==
    ASSUME DataTypes, NEW c \in Conns
    PROVE  /\ \A s \in Sessions : Logoff(c, s) =>
                /\ Assigned(c)
                /\ w'[c].sids = {s} /\ w'[c].rm = w[c].rm
                /\ w'[c].conns = w[c].conns /\ w'[c].scan = w[c].scan
           /\ \A t \in Trees : TreeDisconnect(c, t) =>
                /\ Assigned(c)
                /\ w'[c].rm = {t} /\ w'[c].sids = w[c].sids
                /\ w'[c].conns = w[c].conns /\ w'[c].scan = w[c].scan
<1>1. w[c] \in Work /\ c \in Actors /\ w \in [Actors -> Work]
  BY ObjectTypes DEF DataTypes
<1>2. ASSUME NEW s \in Sessions, w' = [w EXCEPT ![c].sids = {s}]
      PROVE  /\ Assigned(c)
             /\ w'[c].sids = {s} /\ w'[c].rm = w[c].rm
             /\ w'[c].conns = w[c].conns /\ w'[c].scan = w[c].scan
  BY <1>1, <1>2 DEF Work, Assigned
<1>3. ASSUME NEW t \in Trees, w' = [w EXCEPT ![c].rm = {t}]
      PROVE  /\ Assigned(c)
             /\ w'[c].rm = {t} /\ w'[c].sids = w[c].sids
             /\ w'[c].conns = w[c].conns /\ w'[c].scan = w[c].scan
  BY <1>1, <1>3 DEF Work, Assigned
<1> QED BY <1>2, <1>3 DEF Logoff, TreeDisconnect

(* Listing the connections makes each of them one to visit.                *)
LEMMA ListWork ==
    ASSUME DataTypes, NEW a \in Admins, ListConnections(a)
    PROVE  /\ Assigned(a)
           /\ w'[a].conns = {c \in Conns : conn[c] = "on"}
           /\ w'[a].sids = w[a].sids /\ w'[a].scan = w[a].scan /\ w'[a].rm = w[a].rm
BY ObjectTypes DEF ListConnections, DataTypes, Work, Assigned

(* Visiting a connection lists its sessions, those of the user or all.     *)
LEMMA SweepWork ==
    ASSUME DataTypes, NEW a \in Admins, NEW c \in Conns, SweepConnection(a, c)
    PROVE  /\ Assigned(a)
           /\ w'[a].conns = w[a].conns \ {c} /\ w'[a].rm = w[a].rm
           /\ IF job[a].op = "remove_user"
                THEN /\ w'[a].sids = {s \in Sessions : /\ s[1] = c /\ sst[s] = "live"
                                                       /\ suser[s] = job[a].user}
                     /\ w'[a].scan = w[a].scan
                ELSE /\ w'[a].scan = {s \in Sessions : s[1] = c /\ sst[s] = "live"}
                     /\ w'[a].sids = w[a].sids
<1> DEFINE live == {s \in Sessions : s[1] = c /\ sst[s] = "live"}
           mine == {s \in live : suser[s] = job[a].user}
<1>1. mine = {s \in Sessions : s[1] = c /\ sst[s] = "live" /\ suser[s] = job[a].user}
  OBVIOUS
<1>2. w[a] \in Work /\ a \in Actors /\ w \in [Actors -> Work]
  BY ObjectTypes DEF DataTypes
<1>3. w' = IF job[a].op = "remove_user"
             THEN [w EXCEPT ![a].conns = @ \ {c}, ![a].sids = mine]
             ELSE [w EXCEPT ![a].conns = @ \ {c}, ![a].scan = live]
  BY DEF SweepConnection
<1> HIDE DEF live, mine
<1>4. CASE job[a].op = "remove_user"
  <2>1. /\ Assigned(a) /\ w'[a].conns = w[a].conns \ {c} /\ w'[a].rm = w[a].rm
        /\ w'[a].sids = mine /\ w'[a].scan = w[a].scan
    BY <1>2, <1>3, <1>4 DEF Work, Assigned
  <2> QED BY <1>1, <1>4, <2>1
<1>5. CASE job[a].op # "remove_user"
  <2>1. /\ Assigned(a) /\ w'[a].conns = w[a].conns \ {c} /\ w'[a].rm = w[a].rm
        /\ w'[a].scan = live /\ w'[a].sids = w[a].sids
    BY <1>2, <1>3, <1>5 DEF Work, Assigned
  <2> QED BY <1>5, <2>1 DEF live
<1> QED BY <1>4, <1>5

(* Visiting a session lists the trees the call is about.                   *)
LEMMA ScanWork ==
    ASSUME DataTypes, NEW a \in Admins, NEW s \in Sessions, ScanSession(a, s)
    PROVE  /\ Assigned(a)
           /\ w'[a].conns = w[a].conns /\ w'[a].sids = w[a].sids
           /\ w'[a].scan = w[a].scan \ {s}
           /\ w'[a].rm = {t \in Trees : /\ tst[t] = "live" /\ tsess[t] = s
                                        /\ Matches(job[a], s, t)}
<1> DEFINE found == {t \in Trees : /\ tst[t] = "live" /\ tsess[t] = s
                                   /\ Matches(job[a], s, t)}
<1>1. w[a] \in Work /\ a \in Actors /\ w \in [Actors -> Work]
  BY ObjectTypes DEF DataTypes
<1>2. w' = [w EXCEPT ![a].scan = @ \ {s}, ![a].rm = found]
  BY DEF ScanSession
<1> HIDE DEF found
<1>3. /\ Assigned(a) /\ w'[a].conns = w[a].conns /\ w'[a].sids = w[a].sids
      /\ w'[a].scan = w[a].scan \ {s} /\ w'[a].rm = found
  BY <1>1, <1>2 DEF Work, Assigned
<1> QED BY <1>3 DEF found

(* Every step keeps closing actors going from outside in.                  *)
LEMMA StepNested ==
    ASSUME TypeOK, DataTypes, Owned, Carried, Nested, Handed, [Next]_vars
    PROVE  Nested'
<1> USE ObjectTypes
<1>l. /\ \A s \in Sessions : sst[s] # "free" => sst'[s] # "free"
      /\ \A s \in Sessions : sst[s] = "closed" => sst'[s] = "closed"
      /\ \A t \in Trees : tst[t] # "free" => tst'[t] # "free"
      /\ \A t \in Trees : tst[t] = "closed" => tst'[t] = "closed"
  BY Lasting
<1>w. \A p \in Actors :
        /\ w[p].sids \subseteq Sessions /\ w[p].scan \subseteq Sessions
        /\ w[p].rm \subseteq Trees /\ w[p].drained \subseteq Trees
        /\ w[p].removed \in Sessions \cup {None} /\ w[p].lockT \in Trees \cup {None}
  BY DEF DataTypes, Work
<1>1. ASSUME NEW p \in Actors, w'[p] = w[p]
      PROVE  NestedIn(p)'
  <2>1. NestedIn(p)
    BY DEF Nested
  <2> QED BY <1>1, <1>l, <1>w, <2>1 DEF NestedIn
<1>2. ASSUME NEW p \in Actors, \A q \in Actors \ {p} : w'[q] = w[q], NestedIn(p)'
      PROVE  Nested'
  BY <1>1, <1>2 DEF Nested
<1>3. CASE UNCHANGED w
  BY <1>1, <1>3 DEF Nested
<1>n. \A p \in Actors : NestedIn(p)
  BY DEF Nested
<1>4. ASSUME NEW p \in Actors, Assigned(p),
             \A s \in w'[p].sids \cup w'[p].scan : s \in Sessions /\ sst[s] # "free",
             \A t \in w'[p].rm : t \in Trees /\ tst[t] # "free"
      PROVE  Nested'
  <2>1. NestedIn(p)'
    BY <1>4, <1>l, <1>w, <1>n DEF NestedIn, Assigned
  <2> QED BY <1>4, <1>2, <2>1 DEF Assigned
<1>5. ASSUME NEW c \in Conns, NEW s \in Sessions, Logoff(c, s)
      PROVE  Nested'
  <2>1. sst[s] # "free"
    BY <1>5 DEF Logoff, Established
  <2> QED BY <1>4, <1>5, <1>w, <1>n, <2>1, RequestWork DEF NestedIn
<1>6. ASSUME NEW c \in Conns, NEW t \in Trees, TreeDisconnect(c, t)
      PROVE  Nested'
  <2>1. tst[t] # "free"
    BY <1>6 DEF TreeDisconnect, EstablishedTree
  <2> QED BY <1>4, <1>6, <1>w, <1>n, <2>1, RequestWork DEF NestedIn
<1>7. ASSUME NEW a \in Admins, ListConnections(a)
      PROVE  Nested'
  BY <1>4, <1>7, <1>w, <1>n, ListWork DEF NestedIn
<1>8. ASSUME NEW a \in Admins, NEW c \in Conns, SweepConnection(a, c)
      PROVE  Nested'
  <2>1. \A s \in w'[a].sids \cup w'[a].scan : s \in Sessions /\ sst[s] # "free"
    BY <1>8, <1>w, <1>n, SweepWork DEF NestedIn
  <2> QED BY <1>4, <1>8, <1>w, <1>n, <2>1, SweepWork DEF NestedIn
<1>9. ASSUME NEW a \in Admins, NEW s \in Sessions, ScanSession(a, s)
      PROVE  Nested'
  BY <1>4, <1>9, <1>w, <1>n, ScanWork DEF NestedIn
<1>10. ASSUME NEW p \in Actors, NEW s \in Sessions, CloseSession(p, s)
       PROVE  Nested'
  <2>1. /\ sst[s] = "live" => sst'[s] = "closed"
        /\ InnerIdle(p) /\ NestedIn(p)
    BY <1>10, <1>n DEF CloseSession, DataTypes
  <2>3. /\ w'[p].sids = w[p].sids \ {s} /\ w'[p].scan = w[p].scan /\ w'[p].rm = w[p].rm
        /\ w'[p].removed = IF sst[s] = "live" THEN s ELSE None
        /\ w'[p].lockS = None /\ w'[p].drained = {}
        /\ w'[p].lockT = None /\ w'[p].opens = {}
    BY <1>10, <2>1, CloseSessionWork DEF InnerIdle
  <2>2. NestedIn(p)'
    BY <1>l, <1>w, <2>1, <2>3 DEF NestedIn
  <2> QED BY <1>2, <1>10, <2>2, CloseSessionWork
<1>11. ASSUME NEW p \in Actors, DrainSession(p)
       PROVE  Nested'
  <2> DEFINE ts == {t \in Trees : tst[t] = "live" /\ tsess[t] = w[p].removed}
  <2>3. /\ w'[p].sids = w[p].sids /\ w'[p].scan = w[p].scan /\ w'[p].rm = w[p].rm
        /\ w'[p].removed = None /\ w'[p].drained = ts
        /\ w'[p].lockT = w[p].lockT /\ w'[p].opens = w[p].opens
    BY <1>11, DrainSessionWork
  <2>4. tst' = [t \in Trees |-> IF t \in ts THEN "closed" ELSE tst[t]]
        /\ ts \subseteq Trees
    BY <1>11 DEF DrainSession
  <2>5. NestedIn(p) /\ w[p].removed # None
    BY <1>11, <1>n DEF DrainSession
  <2> HIDE DEF ts
  <2>1. \A t \in w'[p].drained : t \in Trees /\ tst'[t] = "closed"
    BY <2>3, <2>4
  <2>2. NestedIn(p)'
    BY <1>l, <1>w, <2>1, <2>3, <2>5 DEF NestedIn
  <2> QED BY <1>2, <1>11, <2>2, DrainSessionWork
<1>12. ASSUME NEW p \in Actors, UnlockSession(p) \/ UnlockTree(p)
       PROVE  Nested'
  <2>2. NestedIn(p)'
    BY <1>12, <1>l, <1>w, <1>n, UnlockWork DEF NestedIn
  <2> QED BY <1>2, <1>12, <2>2, UnlockWork
<1>13. ASSUME NEW p \in Actors, NEW t \in Trees, RemoveTree(p, t)
       PROVE  Nested'
  <2>1. tst'[t] = "closed" /\ InnerIdle(p) /\ NestedIn(p)
    BY <1>13, <1>n DEF RemoveTree, DataTypes
  <2>3. /\ w'[p].sids = w[p].sids /\ w'[p].scan = w[p].scan /\ w'[p].rm = w[p].rm \ {t}
        /\ w'[p].drained = IF tst[t] = "live" THEN {t} ELSE {}
        /\ w'[p].removed = None
        /\ w'[p].lockT = None /\ w'[p].opens = {}
    BY <1>13, <2>1, RemoveTreeWork DEF InnerIdle
  <2>2. NestedIn(p)'
    BY <1>l, <1>w, <2>1, <2>3 DEF NestedIn
  <2> QED BY <1>2, <1>13, <2>2, RemoveTreeWork
<1>14. ASSUME NEW p \in Actors, NEW t \in Trees, DrainTree(p, t)
       PROVE  Nested'
  <2>1. t \in w[p].drained /\ w[p].lockT = None /\ NestedIn(p)
    BY <1>14, <1>n DEF DrainTree
  <2>3. /\ w'[p].sids = w[p].sids /\ w'[p].scan = w[p].scan /\ w'[p].rm = w[p].rm
        /\ w'[p].removed = w[p].removed /\ w'[p].drained = w[p].drained \ {t}
        /\ w'[p].lockT = t
    BY <1>14, DrainTreeWork
  <2>2. NestedIn(p)'
    BY <1>l, <1>w, <2>1, <2>3 DEF NestedIn
  <2> QED BY <1>2, <1>14, <2>2, DrainTreeWork
<1>15. ASSUME NEW p \in Actors, NEW o \in Opens, CloseDrained(p, o)
       PROVE  Nested'
  <2>2. NestedIn(p)'
    BY <1>15, <1>l, <1>w, <1>n, CloseDrainedWork DEF NestedIn
  <2> QED BY <1>2, <1>15, <2>2, CloseDrainedWork
<1>16. ASSUME NEW p \in Actors, ClosingStep(p)
       PROVE  Nested'
  BY <1>10, <1>11, <1>12, <1>13, <1>14, <1>15, <1>16 DEF ClosingStep
<1> QED BY <1>3, <1>5, <1>6, <1>7, <1>8, <1>9, <1>16, WorkFrame

(* A closing step takes from the work of its own actor, which it finds     *)
(* there, and changes the state of what it closes; nothing else.           *)
LEMMA ClosingEffect ==
    ASSUME DataTypes, NEW p \in Actors, ClosingStep(p)
    PROVE  /\ w[p] # NoWork
           /\ \A q \in Actors \ {p} : w'[q] = w[q]
           /\ w'[p].conns = w[p].conns /\ w'[p].scan = w[p].scan
           /\ w'[p].sids \subseteq w[p].sids /\ w'[p].rm \subseteq w[p].rm
           /\ UNCHANGED <<configVars, conn, suser, tsess, tbind, otree, h, doomed, late>>
<1> DEFINE Effect ==
        /\ w[p] # NoWork
        /\ \A q \in Actors \ {p} : w'[q] = w[q]
        /\ w'[p].conns = w[p].conns /\ w'[p].scan = w[p].scan
        /\ w'[p].sids \subseteq w[p].sids /\ w'[p].rm \subseteq w[p].rm
        /\ UNCHANGED <<configVars, conn, suser, tsess, tbind, otree, h, doomed, late>>
<1>1. ASSUME NEW s \in Sessions, CloseSession(p, s)
      PROVE  Effect
  <2>1. s \in w[p].sids
    BY <1>1 DEF CloseSession
  <2>2. UNCHANGED <<configVars, conn, suser, tsess, tbind, otree, h, doomed, late>>
    BY <1>1 DEF CloseSession
  <2> QED BY <1>1, <2>1, <2>2, CloseSessionWork DEF NoWork
<1>2. ASSUME DrainSession(p)
      PROVE  Effect
  <2>1. w[p].removed # None
    BY <1>2 DEF DrainSession
  <2>2. UNCHANGED <<configVars, conn, suser, tsess, tbind, otree, h, doomed, late>>
    BY <1>2 DEF DrainSession
  <2> QED BY <1>2, <2>1, <2>2, DrainSessionWork DEF NoWork
<1>3. ASSUME UnlockSession(p) \/ UnlockTree(p)
      PROVE  Effect
  <2>1. w[p].lockS # None \/ w[p].lockT # None
    BY <1>3 DEF UnlockSession, UnlockTree
  <2>2. UNCHANGED <<configVars, conn, suser, tsess, tbind, otree, h, doomed, late>>
    BY <1>3 DEF UnlockSession, UnlockTree, connVars
  <2> QED BY <1>3, <2>1, <2>2, UnlockWork DEF NoWork
<1>4. ASSUME NEW t \in Trees, RemoveTree(p, t)
      PROVE  Effect
  <2>1. t \in w[p].rm
    BY <1>4 DEF RemoveTree
  <2>2. UNCHANGED <<configVars, conn, suser, tsess, tbind, otree, h, doomed, late>>
    BY <1>4 DEF RemoveTree
  <2>3. /\ \A q \in Actors \ {p} : w'[q] = w[q]
        /\ w'[p].conns = w[p].conns /\ w'[p].scan = w[p].scan
        /\ w'[p].sids \subseteq w[p].sids /\ w'[p].rm \subseteq w[p].rm
    BY <1>4, RemoveTreeWork
  <2>4. w[p] # NoWork
    BY <2>1 DEF NoWork
  <2> QED BY <2>2, <2>3, <2>4
<1>5. ASSUME NEW t \in Trees, DrainTree(p, t)
      PROVE  Effect
  <2>1. t \in w[p].drained
    BY <1>5 DEF DrainTree
  <2>2. UNCHANGED <<configVars, conn, suser, tsess, tbind, otree, h, doomed, late>>
    BY <1>5 DEF DrainTree
  <2> QED BY <1>5, <2>1, <2>2, DrainTreeWork DEF NoWork
<1>6. ASSUME NEW o \in Opens, CloseDrained(p, o)
      PROVE  Effect
  <2>1. o \in w[p].opens
    BY <1>6 DEF CloseDrained
  <2>2. UNCHANGED <<configVars, conn, suser, tsess, tbind, otree, h, doomed, late>>
    BY <1>6 DEF CloseDrained
  <2> QED BY <1>6, <2>1, <2>2, CloseDrainedWork DEF NoWork
<1> HIDE DEF Effect
<1>7. Effect
  BY <1>1, <1>2, <1>3, <1>4, <1>5, <1>6 DEF ClosingStep
<1> QED BY <1>7 DEF Effect

(* Whose step changes the work of whom.                                    *)
LEMMA ClientWork ==
    ASSUME TypeOK, DataTypes, Owned, Carried, [Next]_vars, NEW c \in Conns
    PROVE  \/ w'[c] = w[c]
           \/ ClosingStep(c)
           \/ \E s \in Sessions : Logoff(c, s)
           \/ \E t \in Trees : TreeDisconnect(c, t)
<1> USE ObjectTypes, ObjectAssumption
<1>1. ASSUME NEW d \in Conns, d # c,
             \/ \E s \in Sessions : Logoff(d, s)
             \/ \E t \in Trees : TreeDisconnect(d, t)
      PROVE  w'[c] = w[c]
  BY <1>1, RequestWork DEF Assigned
<1>2. ASSUME NEW p \in Actors, p # c, ClosingStep(p)
      PROVE  w'[c] = w[c]
  BY <1>2, ClosingEffect
<1>3. ASSUME NEW a \in Admins,
             \/ ListConnections(a)
             \/ \E d \in Conns : SweepConnection(a, d)
             \/ \E s \in Sessions : ScanSession(a, s)
      PROVE  w'[c] = w[c]
  <2>1. c \in Actors \ {a}
    OBVIOUS
  <2>2. Assigned(a)
    BY <1>3, ListWork, SweepWork, ScanWork
  <2> QED BY <2>1, <2>2 DEF Assigned
<1> QED BY <1>1, <1>2, <1>3, WorkFrame

(* What can change the closing work of an admin task.                      *)
LEMMA AdminWork ==
    ASSUME TypeOK, DataTypes, Owned, Carried, [Next]_vars, NEW a \in Admins
    PROVE  \/ w'[a] = w[a]
           \/ ClosingStep(a)
           \/ ListConnections(a)
           \/ \E c \in Conns : SweepConnection(a, c)
           \/ \E s \in Sessions : ScanSession(a, s)
<1> USE ObjectTypes, ObjectAssumption
<1>1. ASSUME NEW d \in Conns,
             \/ \E s \in Sessions : Logoff(d, s)
             \/ \E t \in Trees : TreeDisconnect(d, t)
      PROVE  w'[a] = w[a]
  <2>1. a \in Actors \ {d}
    OBVIOUS
  <2> QED BY <1>1, <2>1, RequestWork DEF Assigned
<1>2. ASSUME NEW p \in Actors, p # a, ClosingStep(p)
      PROVE  w'[a] = w[a]
  BY <1>2, ClosingEffect
<1>3. ASSUME NEW b \in Admins, b # a,
             \/ ListConnections(b)
             \/ \E d \in Conns : SweepConnection(b, d)
             \/ \E s \in Sessions : ScanSession(b, s)
      PROVE  w'[a] = w[a]
  <2>2. Assigned(b)
    BY <1>3, ListWork, SweepWork, ScanWork
  <2> QED BY <1>3, <2>2 DEF Assigned
<1> QED BY <1>1, <1>2, <1>3, WorkFrame

(* A handler that closes ends when its work is done.                       *)
LEMMA ClosingStays ==
    ASSUME TypeOK, DataTypes, Owned, Carried, [Next]_vars, NEW c \in Conns,
           HAt(c, "closing")
    PROVE  h'[c] = h[c] \/ w[c] = NoWork
<1>1. ASSUME NEW a \in Admins, CallStep(a) \/ ConfigStep(a) \/ SweepStep(a)
      PROVE  UNCHANGED h
  BY <1>1 DEF CallStep, ConfigStep, SweepStep, ListConnections, SweepConnection,
              ScanSession, ReturnSwept, dataVars
<1>2. ASSUME NEW p \in Actors, ClosingStep(p)
      PROVE  UNCHANGED h
  BY <1>2, ClosingEffect
<1>3. ASSUME NEW d \in Conns, Connect(d) \/ Disconnect(d)
      PROVE  UNCHANGED h
  BY <1>3 DEF Connect, Disconnect
<1>4. ASSUME NEW d \in Conns, NewRequest(d) \/ HandlerStep(d)
      PROVE  h'[c] = h[c] \/ w[c] = NoWork
  <2>1. CASE NewRequest(d)
    BY <2>1, RequestEffect DEF Handles, HAt
  <2>2. CASE QuietStep(d)
    BY <2>2, QuietEffect DEF Handles, WentOn, HAt, QuietStep, AnonList, AnonRefused,
          AnonCheck, TreeFind, TreeAuthorize, ClosingDone, CreateFailed, IoLookup,
          IoBegin, IoEnd
  <2>3. CASE LoudStep(d)
    BY <2>3, LoudEffect DEF Handles
  <2> QED BY <1>4, <2>1, <2>2, <2>3 DEF HandlerStep, QuietStep, LoudStep
<1> QED BY <1>1, <1>2, <1>3, <1>4 DEF Next, vars, dataVars

(* Every step keeps what clients close their own.                          *)
LEMMA StepWorkOfClient ==
    ASSUME TypeOK, DataTypes, Owned, Carried, WorkOfClient, [Next]_vars
    PROVE  WorkOfClient'
<1> SUFFICES ASSUME NEW c \in Conns
             PROVE  /\ w'[c].conns = {} /\ w'[c].scan = {}
                    /\ w'[c] # NoWork => h'[c].pc = "closing"
                    /\ \A s \in w'[c].sids : s[1] = c
                    /\ \A t \in w'[c].rm : t[1] = c
  BY DEF WorkOfClient, HAt
<1> USE ObjectTypes
<1>c. /\ w[c].conns = {} /\ w[c].scan = {}
      /\ w[c] # NoWork => HAt(c, "closing")
      /\ \A s \in w[c].sids : s[1] = c
      /\ \A t \in w[c].rm : t[1] = c
  BY DEF WorkOfClient
<1>1. CASE w'[c] = w[c]
  BY <1>1, <1>c, ClosingStays DEF HAt
<1>2. CASE ClosingStep(c)
  BY <1>2, <1>c, ClosingEffect DEF HAt
<1>3. ASSUME NEW s \in Sessions, Logoff(c, s)
      PROVE  /\ w'[c].conns = {} /\ w'[c].scan = {} /\ h'[c].pc = "closing"
             /\ w'[c].sids = {s} /\ w'[c].rm = w[c].rm /\ s[1] = c
  <2> DEFINE r == [Idle EXCEPT !.pc = "closing"]
  <2>1. r \in Handler /\ r.pc = "closing"
    BY IdleType DEF Handler, HandlerPCs
  <2>2. h'[c] = r /\ s[1] = c
    BY <1>3, <2>1, SetHandles DEF Logoff
  <2> HIDE DEF r
  <2> QED BY <1>3, <1>c, <2>1, <2>2, RequestWork
<1>4. ASSUME NEW t \in Trees, TreeDisconnect(c, t)
      PROVE  /\ w'[c].conns = {} /\ w'[c].scan = {} /\ h'[c].pc = "closing"
             /\ w'[c].rm = {t} /\ w'[c].sids = w[c].sids /\ t[1] = c
  <2> DEFINE r == [Idle EXCEPT !.pc = "closing"]
  <2>1. r \in Handler /\ r.pc = "closing"
    BY IdleType DEF Handler, HandlerPCs
  <2>2. h'[c] = r /\ t[1] = c
    BY <1>4, <2>1, SetHandles DEF TreeDisconnect
  <2> HIDE DEF r
  <2> QED BY <1>4, <1>c, <2>1, <2>2, RequestWork
<1> QED BY <1>c, <1>1, <1>2, <1>3, <1>4, ClientWork

-----------------------------------------------------------------------------
(* The calls behind the sweeps.                                            *)

(* A call that is not sweeping gets there by ListConnections only, and is  *)
(* on its way to a sweep only if it revokes something.                     *)
LEMMA ConfigStepFrame ==
    ASSUME TypeOK, NEW a \in Admins, ConfigStep(a)
    PROVE  /\ pc[a] \notin {"idle", "sweep", "sweeping"} /\ pc'[a] # "sweeping"
           /\ pc'[a] = "sweep" => job'[a] = job[a] /\ job[a].op \in SweepOps
           /\ \A b \in Admins \ {a} : pc'[b] = pc[b] /\ job'[b] = job[b]
           /\ UNCHANGED dataVars
<1> USE DEF TypeOK, At, Goto, Return, SweepOps
<1> DEFINE Effect ==
        /\ pc[a] \notin {"idle", "sweep", "sweeping"} /\ pc'[a] # "sweeping"
        /\ pc'[a] = "sweep" => job'[a] = job[a] /\ job[a].op \in SweepOps
        /\ \A b \in Admins \ {a} : pc'[b] = pc[b] /\ job'[b] = job[b]
<1>1. ASSUME UserSteps(a)
      PROVE  Effect
  BY <1>1 DEF UserSteps, AddUser, RemoveUser, RemoveUserUnknown, RemoveUserSnapshot,
              RemoveUserAcl, RemoveUserCleaned
<1>2. ASSUME AclSteps(a)
      PROVE  Effect
  BY <1>2 DEF AclSteps, GrantCheck, GrantUnknown, FindShare, AtFind, FindShareUnknown,
              GrantInsert, GrantPublic, RevokeRemove, SetMode, SetModeNoChange
<1>3. ASSUME \/ AddShareRejected(a) \/ AddShareCheck(a) \/ AddShareDuplicate(a)
             \/ RemoveShare(a) \/ RemoveShareUnknown(a)
             \/ \E b \in Bindings : AddShareInsert(a, b)
      PROVE  Effect
  BY <1>3 DEF AddShareRejected, AddShareCheck, AddShareDuplicate, RemoveShare,
              RemoveShareUnknown, AddShareInsert
<1> HIDE DEF Effect
<1>4. Effect /\ UNCHANGED dataVars
  BY <1>1, <1>2, <1>3 DEF ConfigStep
<1> QED BY <1>4 DEF Effect

(* A sweeping call goes on sweeping until it returns.                      *)
LEMMA CallFrame ==
    ASSUME TypeOK, DataTypes, Owned, Carried, [Next]_vars, NEW a \in Admins
    PROVE  /\ pc[a] = "sweeping" =>
                ReturnSwept(a) \/ (pc'[a] = "sweeping" /\ job'[a] = job[a])
           /\ pc'[a] = "sweeping" => pc[a] = "sweeping" \/ ListConnections(a)
           /\ pc'[a] = "sweep" =>
                job'[a] = job[a] /\ (pc[a] = "sweep" \/ job[a].op \in SweepOps)
<1> USE DEF TypeOK
<1>1. CASE UNCHANGED configVars
  BY <1>1 DEF configVars
<1>2. ASSUME NEW b \in Admins, CallStep(b)
      PROVE  /\ \A x \in Admins \ {b} : pc'[x] = pc[x] /\ job'[x] = job[x]
             /\ pc[b] = "idle" /\ pc'[b] = "start"
  BY <1>2 DEF CallStep, Call
<1>3. ASSUME NEW b \in Admins, ListConnections(b)
      PROVE  /\ \A x \in Admins \ {b} : pc'[x] = pc[x]
             /\ UNCHANGED job /\ pc[b] = "sweep" /\ pc'[b] = "sweeping"
  BY <1>3 DEF ListConnections, ListLive, Goto
<1>4. ASSUME NEW b \in Admins, ReturnSwept(b)
      PROVE  /\ \A x \in Admins \ {b} : pc'[x] = pc[x] /\ job'[x] = job[x]
             /\ pc[b] = "sweeping" /\ pc'[b] = "idle"
  BY <1>4 DEF ReturnSwept, SweepDone, Return
<1>5. ASSUME NEW b \in Admins,
             \/ \E c \in Conns : SweepConnection(b, c)
             \/ \E s \in Sessions : ScanSession(b, s)
      PROVE  UNCHANGED configVars
  BY <1>5 DEF SweepConnection, ScanSession
<1>6. ASSUME NEW p \in Actors, ClosingStep(p)
      PROVE  UNCHANGED configVars
  BY <1>6, ClosingEffect
<1>7. ASSUME NEW c \in Conns,
             Connect(c) \/ Disconnect(c) \/ NewRequest(c) \/ HandlerStep(c)
      PROVE  UNCHANGED configVars
  BY <1>7, RequestEffect, QuietEffect, LoudEffect
  DEF Connect, Disconnect, HandlerStep, QuietStep, LoudStep
<1>8. ASSUME NEW b \in Admins, ConfigStep(b)
      PROVE  /\ \A x \in Admins \ {b} : pc'[x] = pc[x] /\ job'[x] = job[x]
             /\ pc[b] \notin {"idle", "sweep", "sweeping"} /\ pc'[b] # "sweeping"
             /\ pc'[b] = "sweep" => job'[b] = job[b] /\ job[b].op \in SweepOps
  BY <1>8, ConfigStepFrame
<1> QED
  <2>1. CASE \E b \in Admins : CallStep(b)
    BY <2>1, <1>2
  <2>2. CASE \E b \in Admins : ConfigStep(b)
    BY <2>2, <1>8
  <2>3. CASE \E b \in Admins : ListConnections(b)
    BY <2>3, <1>3
  <2>4. CASE \E b \in Admins : ReturnSwept(b)
    BY <2>4, <1>4
  <2>5. CASE UNCHANGED vars
    BY <2>5, <1>1 DEF vars
  <2> QED BY <1>1, <2>1, <2>2, <2>3, <2>4, <2>5, <1>5, <1>6, <1>7 DEF Next, SweepStep

(* Names change with new bindings only, and no binding in use is new.      *)
LEMMA NamesFrame ==
    ASSUME TypeOK, DataTypes, Owned, Carried, [Next]_vars
    PROVE  \/ UNCHANGED bname
           \/ \E a \in Admins : \E b \in Bindings : ~InUse(b) /\ AddShareInsert(a, b)
<1>1. ASSUME NEW b \in Admins, CallStep(b) \/ SweepStep(b)
      PROVE  UNCHANGED bname
  BY <1>1 DEF CallStep, Call, SweepStep, ListConnections, ListLive, SweepConnection,
              ScanSession, ReturnSwept, SweepDone, configVars
<1>2. ASSUME NEW p \in Actors, ClosingStep(p)
      PROVE  UNCHANGED bname
  BY <1>2, ClosingEffect DEF configVars
<1>3. ASSUME NEW c \in Conns,
             Connect(c) \/ Disconnect(c) \/ NewRequest(c) \/ HandlerStep(c)
      PROVE  UNCHANGED bname
  BY <1>3, RequestEffect, QuietEffect, LoudEffect
  DEF Connect, Disconnect, HandlerStep, QuietStep, LoudStep, configVars
<1>4. ASSUME NEW b \in Admins, ConfigStep(b)
      PROVE  \/ UNCHANGED bname
             \/ \E x \in Bindings : ~InUse(x) /\ AddShareInsert(b, x)
  <2>1. CASE UserSteps(b)
    BY <2>1 DEF UserSteps, AddUser, RemoveUser, RemoveUserUnknown, RemoveUserSnapshot,
                RemoveUserAcl, RemoveUserCleaned
  <2>2. CASE AclSteps(b)
    BY <2>2 DEF AclSteps, GrantCheck, GrantUnknown, FindShare, AtFind, FindShareUnknown,
                GrantInsert, GrantPublic, RevokeRemove, SetMode, SetModeNoChange
  <2>3. CASE \/ AddShareRejected(b) \/ AddShareCheck(b) \/ AddShareDuplicate(b)
             \/ RemoveShare(b) \/ RemoveShareUnknown(b)
    BY <2>3 DEF AddShareRejected, AddShareCheck, AddShareDuplicate, RemoveShare,
                RemoveShareUnknown
  <2> QED BY <1>4, <2>1, <2>2, <2>3 DEF ConfigStep
<1> QED BY <1>1, <1>2, <1>3, <1>4 DEF Next, vars, configVars

(* The binding of a live tree is not allocated again.                      *)
LEMMA NameStays ==
    ASSUME TypeOK, DataTypes, Owned, Carried, [Next]_vars,
           NEW t \in Trees, tst[t] = "live",
           conn[t[1]] = "on" \/ \E a \in Admins : w[a] # NoWork
    PROVE  bname'[tbind[t]] = bname[tbind[t]]
<1>1. CASE UNCHANGED bname
  BY <1>1
<1>2. ASSUME NEW a \in Admins, NEW b \in Bindings, ~InUse(b), AddShareInsert(a, b)
      PROVE  bname'[tbind[t]] = bname[tbind[t]]
  <2>1. tbind[t] # b /\ tbind[t] \in Bindings
    BY <1>2 DEF InUse, Owned
  <2> QED BY <1>2, <2>1 DEF AddShareInsert, TypeOK
<1> QED BY <1>1, <1>2, NamesFrame

(* Every step keeps what sweeps close what their call is about.            *)
LEMMA StepWorkOfSweep ==
    ASSUME TypeOK, DataTypes, Owned, Carried, Nested, Handed, WorkOfSweep, [Next]_vars
    PROVE  WorkOfSweep'
<1> SUFFICES ASSUME NEW a \in Admins
             PROVE  /\ pc'[a] \in {"sweep", "sweeping"} => job'[a].op \in SweepOps
                    /\ w'[a] # NoWork => pc'[a] = "sweeping"
                    /\ \A s \in w'[a].sids :
                        job'[a].op = "remove_user" /\ job'[a].user = suser'[s]
                    /\ \A s \in w'[a].scan : job'[a].op \in TreeOps
                    /\ \A t \in w'[a].rm : tst'[t] = "live" => About(a, t)'
  BY DEF WorkOfSweep
<1> USE ObjectTypes
<1>a. /\ pc[a] \in {"sweep", "sweeping"} => job[a].op \in SweepOps
      /\ w[a] # NoWork => pc[a] = "sweeping"
      /\ \A s \in w[a].sids : job[a].op = "remove_user" /\ job[a].user = suser[s]
      /\ \A s \in w[a].scan : job[a].op \in TreeOps
      /\ \A t \in w[a].rm : tst[t] = "live" => About(a, t)
  BY DEF WorkOfSweep
<1>1. pc'[a] \in {"sweep", "sweeping"} => job'[a].op \in SweepOps
  <2>1. ListConnections(a) => pc[a] = "sweep" /\ UNCHANGED job
    BY DEF ListConnections, ListLive, Goto
  <2>2. ReturnSwept(a) => pc'[a] = "idle"
    BY DEF ReturnSwept, SweepDone, Return, TypeOK
  <2> QED BY <1>a, <2>1, <2>2, CallFrame
(* What a had to close, and still has.                                     *)
<1>2. ASSUME w[a] # NoWork
      PROVE  /\ pc'[a] = "sweeping" /\ job'[a] = job[a]
             /\ \A s \in w[a].sids :
                    job'[a].op = "remove_user" /\ job'[a].user = suser'[s]
             /\ \A s \in w[a].scan : job'[a].op \in TreeOps
             /\ \A t \in w[a].rm : tst'[t] = "live" => About(a, t)'
  <2>1. pc'[a] = "sweeping" /\ job'[a] = job[a]
    BY <1>a, <1>2, CallFrame DEF ReturnSwept
  <2>2. w[a] \in Work /\ NestedIn(a)
    BY DEF DataTypes, Nested
  <2>3. /\ \A s \in w[a].sids : s \in Sessions /\ sst[s] # "free"
        /\ \A t \in w[a].rm : t \in Trees /\ tst[t] # "free"
    BY <2>2 DEF Work, NestedIn
  <2>4. \A s \in w[a].sids : suser'[s] = suser[s]
    BY <2>3, Lasting
  <2>5. ASSUME NEW t \in w[a].rm, tst'[t] = "live"
        PROVE  About(a, t)'
    <3>1. tst[t] = "live" /\ t \in Trees /\ tsess'[t] = tsess[t] /\ tbind'[t] = tbind[t]
      BY <2>3, <2>5, Lasting DEF DataTypes
    <3>2. tsess[t] \in Sessions /\ sst[tsess[t]] # "free"
      BY <3>1 DEF Owned
    <3>3. suser'[tsess[t]] = suser[tsess[t]]
      BY <3>2, Lasting
    <3>4. bname'[tbind[t]] = bname[tbind[t]]
      BY <1>2, <3>1, NameStays
    <3>5. About(a, t)
      BY <1>a, <3>1
    <3> QED BY <2>1, <3>1, <3>3, <3>4, <3>5 DEF About
  <2> QED BY <1>a, <2>1, <2>4, <2>5
<1>3. CASE w'[a] = w[a]
  <2>1. NoWork.sids = {} /\ NoWork.scan = {} /\ NoWork.rm = {}
    BY DEF NoWork
  <2> QED BY <1>1, <1>2, <1>3, <2>1
<1>4. CASE ClosingStep(a)
  <2>1. /\ w[a] # NoWork /\ w'[a].sids \subseteq w[a].sids
        /\ w'[a].scan = w[a].scan /\ w'[a].rm \subseteq w[a].rm
    BY <1>4, ClosingEffect
  <2> QED BY <1>1, <1>2, <2>1
<1>5. CASE ListConnections(a)
  <2>1. pc[a] = "sweep" /\ pc'[a] = "sweeping"
    BY <1>5 DEF ListConnections, ListLive, Goto, TypeOK
  <2>2. w[a].sids = {} /\ w[a].scan = {} /\ w[a].rm = {}
    BY <1>a, <2>1 DEF NoWork
  <2> QED BY <1>1, <1>5, <2>1, <2>2, ListWork
<1>6. ASSUME NEW c \in Conns, SweepConnection(a, c)
      PROVE  /\ w[a] # NoWork
             /\ \/ /\ job[a].op = "remove_user" /\ w'[a].scan = w[a].scan
                   /\ \A s \in w'[a].sids : job[a].user = suser[s]
                \/ job[a].op # "remove_user" /\ w'[a].sids = w[a].sids
             /\ w'[a].rm = w[a].rm /\ UNCHANGED <<suser, job>>
  <2>1. c \in w[a].conns /\ UNCHANGED <<suser, job>>
    BY <1>6 DEF SweepConnection, configVars, connVars
  <2> QED BY <1>6, <2>1, SweepWork DEF NoWork
<1>7. CASE \E c \in Conns : SweepConnection(a, c)
  <2>1. job[a].op \in SweepOps /\ pc[a] = "sweeping"
    BY <1>6, <1>7, <1>a
  <2> QED BY <1>1, <1>2, <1>6, <1>7, <2>1 DEF TreeOps
<1>8. ASSUME NEW s \in Sessions, ScanSession(a, s)
      PROVE  /\ w[a] # NoWork /\ job[a].op \in TreeOps
             /\ w'[a].scan \subseteq w[a].scan /\ w'[a].sids = w[a].sids
             /\ \A t \in w'[a].rm : About(a, t)'
  <2>1. s \in w[a].scan /\ UNCHANGED <<suser, job, bname, tsess, tbind>>
    BY <1>8 DEF ScanSession, configVars, connVars
  <2>2. w[a] # NoWork /\ job[a].op \in TreeOps
    BY <1>a, <2>1 DEF NoWork
  <2>3. \A t \in w'[a].rm : tsess[t] = s /\ Matches(job[a], s, t)
    BY <1>8, ScanWork
  <2>4. \A t \in w'[a].rm : About(a, t)'
    BY <2>1, <2>2, <2>3 DEF About, Matches
  <2> QED BY <1>8, <2>2, <2>4, ScanWork
<1> QED BY <1>1, <1>2, <1>3, <1>4, <1>5, <1>7, <1>8, AdminWork

-----------------------------------------------------------------------------
(* Who has an open handle.                                                 *)

LoudOpenStep(c) ==
    \/ CreateOpen(c) \/ CreateInsert(c) \/ CloseRemove(c)
    \/ CloseTake(c) \/ CloseHandle(c)

(* The request of c is no step in opening or closing a handle, and works   *)
(* on a handle only if that is open.                                       *)
HandsOff(c) ==
    /\ h[c].pc \notin {"create_insert", "close_take", "close_handle"}
    /\ h'[c].pc \notin {"create_insert", "close_take", "close_handle"}
    /\ h'[c].pc = "io" => ost[h'[c].open] = "open"

(* The steps that hand an open from one owner to another.                  *)
LEMMA HandFrame ==
    ASSUME TypeOK, DataTypes, Owned, Carried, [Next]_vars
    PROVE  \/ /\ UNCHANGED <<ost, oreg, otree>>
              /\ \A p \in Actors : w'[p].opens = w[p].opens
              /\ \A c \in Conns : h'[c] = h[c] \/ HandsOff(c)
           \/ \E c \in Conns : LoudOpenStep(c)
           \/ \E p \in Actors :
                \/ \E t \in Trees : DrainTree(p, t)
                \/ \E o \in Opens : CloseDrained(p, o)
<1> USE ObjectTypes
<1> DEFINE Same == /\ UNCHANGED <<ost, oreg, otree>>
                   /\ \A p \in Actors : w'[p].opens = w[p].opens
                   /\ \A c \in Conns : h'[c] = h[c] \/ HandsOff(c)
<1>1. ASSUME UNCHANGED vars
      PROVE  Same
  BY <1>1 DEF vars, dataVars, connVars
<1>2. ASSUME NEW a \in Admins, CallStep(a) \/ ConfigStep(a) \/ ReturnSwept(a)
      PROVE  Same
  BY <1>2 DEF CallStep, ConfigStep, ReturnSwept, dataVars, connVars
<1>3. ASSUME NEW a \in Admins,
             \/ ListConnections(a)
             \/ \E c \in Conns : SweepConnection(a, c)
             \/ \E s \in Sessions : ScanSession(a, s)
      PROVE  Same
  <2>1. Assigned(a)
    BY <1>3, ListWork, SweepWork, ScanWork
  <2>2. UNCHANGED <<ost, oreg, otree, h>>
    BY <1>3 DEF ListConnections, SweepConnection, ScanSession, connVars
  <2> QED BY <2>1, <2>2 DEF Assigned
<1>4. ASSUME NEW p \in Actors,
             \/ \E s \in Sessions : CloseSession(p, s)
             \/ DrainSession(p) \/ UnlockSession(p) \/ UnlockTree(p)
             \/ \E t \in Trees : RemoveTree(p, t)
      PROVE  Same
  <2>1. \A q \in Actors : w'[q].opens = w[q].opens
    BY <1>4, CloseSessionWork, DrainSessionWork, UnlockWork, RemoveTreeWork
  <2>2. UNCHANGED <<ost, oreg, otree, h>>
    BY <1>4 DEF CloseSession, DrainSession, UnlockSession, UnlockTree, RemoveTree,
                connVars
  <2> QED BY <2>1, <2>2
<1>5. ASSUME NEW c \in Conns, Connect(c) \/ Disconnect(c)
      PROVE  Same
  BY <1>5 DEF Connect, Disconnect
<1>6. ASSUME NEW c \in Conns, NewRequest(c)
      PROVE  Same
  <2>1. UNCHANGED <<ost, oreg, otree>> /\ Handles(c) /\ Asked(c)
    BY <1>6, RequestEffect DEF connVars
  <2>2. HandsOff(c)
    BY <1>6, <2>1, RequestEffect DEF Asked, HandsOff, HAt
  <2>3. \A p \in Actors : w'[p].opens = w[p].opens
    <3>1. \/ UNCHANGED w
          \/ \E s \in Sessions : Logoff(c, s)
          \/ \E t \in Trees : TreeDisconnect(c, t)
      BY <1>6 DEF NewRequest, SetupAuthenticate, SetupAnonymous, TreeConnect, Create,
                  Close, FileIo, FileRequest
    <3> QED BY <3>1, RequestWork DEF Assigned
  <2> QED BY <2>1, <2>2, <2>3 DEF Handles
<1>7. ASSUME NEW c \in Conns, QuietStep(c)
      PROVE  Same
  <2>1. /\ UNCHANGED <<ost, oreg, otree, w>> /\ Handles(c) /\ WentOn(c)
    BY <1>7, QuietEffect DEF connVars
  <2>2. h[c].pc \notin {"create_insert", "close_take", "close_handle"}
    BY <1>7 DEF QuietStep, AnonList, AnonRefused, AnonCheck, TreeFind, TreeAuthorize,
                ClosingDone, CreateFailed, IoLookup, IoBegin, IoEnd, HAt
  <2>3. HandsOff(c)
    BY <2>1, <2>2 DEF WentOn, HandsOff
  <2> QED BY <2>1, <2>3 DEF Handles
<1>8. ASSUME NEW c \in Conns, SetupInsert(c) \/ TreeInsert(c)
      PROVE  Same
  <2>1. UNCHANGED <<ost, oreg, otree, w>> /\ Handles(c) /\ h'[c].pc = "idle"
    BY <1>8, EndHandles DEF SetupInsert, TreeInsert
  <2> QED BY <1>8, <2>1 DEF HandsOff, Handles, SetupInsert, TreeInsert, HAt
<1> HIDE DEF Same
<1>a. ASSUME NEW a \in Admins, SweepStep(a)
      PROVE  Same
  BY <1>a, <1>2, <1>3 DEF SweepStep
<1>b. ASSUME NEW p \in Actors, ClosingStep(p)
      PROVE  \/ Same
             \/ \E t \in Trees : DrainTree(p, t)
             \/ \E o \in Opens : CloseDrained(p, o)
  BY <1>b, <1>4 DEF ClosingStep
<1>c. ASSUME NEW c \in Conns, HandlerStep(c)
      PROVE  Same \/ LoudOpenStep(c)
  BY <1>c, <1>7, <1>8 DEF HandlerStep, QuietStep, LoudOpenStep
<1>9. \/ Same
      \/ \E c \in Conns : LoudOpenStep(c)
      \/ \E p \in Actors :
           \/ \E t \in Trees : DrainTree(p, t)
           \/ \E o \in Opens : CloseDrained(p, o)
  BY <1>1, <1>2, <1>5, <1>6, <1>a, <1>b, <1>c DEF Next
<1> QED BY <1>9 DEF Same

(* Every step hands an open to at most one owner, and I/O keeps its lock.  *)
LEMMA StepHanded ==
    ASSUME TypeOK, DataTypes, Owned, Carried, Nested, Handed, NoIoAfterClose,
           [Next]_vars
    PROVE  Handed' /\ NoIoAfterClose'
<1> USE ObjectTypes
<1> DEFINE Hands == {"create_insert", "close_take", "close_handle"}
<1>h. /\ \A o \in Opens : oreg[o] => ost[o] = "open"
      /\ \A o \in Opens : \A p \in Actors : o \in w[p].opens =>
           /\ ~oreg[o] /\ ost[o] = "open"
           /\ \A q \in Actors \ {p} : o \notin w[q].opens
      /\ \A c \in Conns : h[c].pc \in Hands =>
           /\ ~oreg[h[c].open]
           /\ ost[h[c].open] = IF h[c].pc = "close_handle" THEN "taken" ELSE "open"
           /\ \A p \in Actors : h[c].open \notin w[p].opens
  BY DEF Handed, HAt
<1>i. \A c \in Conns : h[c].pc = "io" => ost[h[c].open] = "open"
  BY DEF NoIoAfterClose, HAt
<1>c. \A c \in Conns : h[c].pc \in Hands \cup {"io", "close_remove"} =>
        /\ h[c].open \in Opens /\ h[c].open[1] = c /\ ost[h[c].open] # "free"
  BY DEF Carried, CarriedBy, OpenPCs
<1>w. \A p \in Actors : w[p].opens \subseteq Opens
  BY DEF DataTypes, Work
<1>g. /\ (\A o \in Opens : oreg'[o] => ost'[o] = "open")
      /\ (\A o \in Opens : \A p \in Actors : o \in w'[p].opens =>
           /\ ~oreg'[o] /\ ost'[o] = "open"
           /\ \A q \in Actors \ {p} : o \notin w'[q].opens)
      /\ (\A c \in Conns : h'[c].pc \in Hands =>
           /\ ~oreg'[h'[c].open]
           /\ ost'[h'[c].open] = IF h'[c].pc = "close_handle" THEN "taken" ELSE "open"
           /\ \A p \in Actors : h'[c].open \notin w'[p].opens)
      /\ (\A c \in Conns : h'[c].pc = "io" => ost'[h'[c].open] = "open")
      => Handed' /\ NoIoAfterClose'
  BY DEF Handed, NoIoAfterClose, HAt
<1>1. CASE /\ UNCHANGED <<ost, oreg, otree>>
           /\ \A p \in Actors : w'[p].opens = w[p].opens
           /\ \A c \in Conns : h'[c] = h[c] \/ HandsOff(c)
  BY <1>1, <1>h, <1>i, <1>g DEF HandsOff
<1>2. ASSUME NEW c \in Conns, CreateOpen(c)
      PROVE  Handed' /\ NoIoAfterClose'
  <2>1. PICK o \in Fresh(c, ost) :
            /\ ost' = [ost EXCEPT ![o] = "open"]
            /\ SetH(c, [h[c] EXCEPT !.pc = "create_insert", !.open = o])
    BY <1>2 DEF CreateOpen
  <2>2. o \in Opens /\ ost[o] = "free" /\ h[c] \in Handler /\ UNCHANGED <<oreg, w>>
    BY <1>2, <2>1 DEF CreateOpen, Fresh, DataTypes
  <2>3. ~oreg[o]
    BY <2>2 DEF Owned
  <2> DEFINE r == [h[c] EXCEPT !.pc = "create_insert", !.open = o]
  <2>4. r \in Handler /\ r.pc = "create_insert" /\ r.open = o
    BY <2>2 DEF Handler, HandlerPCs
  <2>5. Handles(c) /\ h'[c] = r
    BY <2>1, <2>4, SetHandles
  <2> HIDE DEF r
  <2>6. \A x \in Opens : ost'[x] = IF x = o THEN "open" ELSE ost[x]
    BY <2>1, <2>2 DEF DataTypes
  <2>7. \A d \in Conns \ {c} : h'[d] = h[d]
    BY <2>5 DEF Handles
  <2>8. \A p \in Actors : o \notin w[p].opens
    BY <2>2, <1>h
  <2>9. \A d \in Conns \ {c} : h[d].pc \in Hands \cup {"io"} => h[d].open # o
    BY <2>2, <1>c
  <2> QED BY <1>h, <1>i, <1>c, <1>g, <2>2, <2>3, <2>4, <2>5, <2>6, <2>7, <2>8, <2>9
<1>3. ASSUME NEW c \in Conns, Handles(c), h'[c].pc = "idle", UNCHANGED w,
             NEW o \in Opens, o[1] = c, ~oreg[o], \A p \in Actors : o \notin w[p].opens,
             \A x \in Opens \ {o} : ost'[x] = ost[x] /\ oreg'[x] = oreg[x],
             oreg'[o] => ost'[o] = "open"
      PROVE  Handed' /\ NoIoAfterClose'
  <2>1. \A d \in Conns \ {c} : h'[d] = h[d]
    BY <1>3 DEF Handles
  <2>2. \A d \in Conns \ {c} : h[d].pc \in Hands \cup {"io"} => h[d].open \in Opens \ {o}
    BY <1>3, <1>c
  <2> QED BY <1>3, <1>h, <1>i, <1>g, <1>w, <2>1, <2>2
<1>4. ASSUME NEW c \in Conns, CreateInsert(c) \/ CloseHandle(c)
      PROVE  Handed' /\ NoIoAfterClose'
  <2>1. Handles(c) /\ h'[c].pc = "idle" /\ UNCHANGED w /\ h[c].pc \in Hands
    BY <1>4, EndHandles DEF CreateInsert, CloseHandle, HAt
  <2>2. /\ h[c].open \in Opens /\ h[c].open[1] = c /\ ~oreg[h[c].open]
        /\ \A p \in Actors : h[c].open \notin w[p].opens
    BY <2>1, <1>h, <1>c
  <2>3. \A x \in Opens \ {h[c].open} : ost'[x] = ost[x] /\ oreg'[x] = oreg[x]
    BY <1>4, <2>2 DEF CreateInsert, CloseHandle, DataTypes
  <2>4. oreg'[h[c].open] => ost'[h[c].open] = "open"
    <3>1. CASE CreateInsert(c)
      <4>1. ost[h[c].open] = "open"
        BY <3>1, <1>h DEF CreateInsert, HAt
      <4> QED BY <3>1, <2>2, <4>1 DEF CreateInsert, DataTypes
    <3>2. CASE CloseHandle(c)
      BY <3>2, <2>2 DEF CloseHandle
    <3> QED BY <1>4, <3>1, <3>2
  <2> QED BY <1>3, <2>1, <2>2, <2>3, <2>4
<1>5. ASSUME NEW c \in Conns, CloseRemove(c)
      PROVE  Handed' /\ NoIoAfterClose'
  <2>1. /\ h[c].pc = "close_remove" /\ UNCHANGED <<ost, w>> /\ Handles(c)
        /\ \/ h'[c].pc = "idle"
           \/ /\ oreg[h[c].open] /\ h'[c].pc = "close_take" /\ h'[c].open = h[c].open
    BY <1>5, EndHandles, MoveHandles DEF CloseRemove, HAt, HandlerPCs
  <2>2. h[c].open \in Opens /\ h[c].open[1] = c
    BY <2>1, <1>c
  <2>3. \A x \in Opens : oreg'[x] <=> oreg[x] /\ x # h[c].open
    BY <1>5, <2>2 DEF CloseRemove, DataTypes
  <2>4. \A d \in Conns \ {c} : h'[d] = h[d]
    BY <2>1 DEF Handles
  <2>5. oreg[h[c].open] => /\ ost[h[c].open] = "open"
                           /\ \A p \in Actors : h[c].open \notin w[p].opens
    BY <2>2, <1>h
  <2> QED BY <1>h, <1>i, <1>c, <1>g, <1>w, <2>1, <2>2, <2>3, <2>4, <2>5
<1>6. ASSUME NEW c \in Conns, CloseTake(c)
      PROVE  Handed' /\ NoIoAfterClose'
  <2>1. /\ h[c].pc = "close_take" /\ UNCHANGED <<oreg, w>> /\ Handles(c)
        /\ h'[c].pc = "close_handle" /\ h'[c].open = h[c].open
    BY <1>6, MoveHandles DEF CloseTake, HAt, HandlerPCs
  <2>2. /\ h[c].open \in Opens /\ h[c].open[1] = c /\ ~oreg[h[c].open]
        /\ \A p \in Actors : h[c].open \notin w[p].opens
    BY <2>1, <1>c, <1>h
  <2>3. \A x \in Opens : ost'[x] = IF x = h[c].open THEN "taken" ELSE ost[x]
    BY <1>6, <2>2 DEF CloseTake, DataTypes
  <2>4. \A d \in Conns \ {c} : h'[d] = h[d]
    BY <2>1 DEF Handles
  <2>5. \A d \in Conns \ {c} : h[d].pc \in Hands \cup {"io"} =>
            h[d].open \in Opens \ {h[c].open}
    BY <2>2, <1>c
  <2> QED BY <1>h, <1>i, <1>g, <1>w, <2>1, <2>2, <2>3, <2>4, <2>5
<1>7. ASSUME NEW p \in Actors, NEW t \in Trees, DrainTree(p, t)
      PROVE  Handed' /\ NoIoAfterClose'
  <2>1. UNCHANGED <<ost, h>> /\ w[p].opens = {}
    BY <1>7 DEF DrainTree, Nested, NestedIn
  <2>2. \A o \in Opens : o \in w'[p].opens <=> otree[o] = t /\ oreg[o]
    BY <1>7, DrainTreeWork
  <2>3. \A o \in Opens : oreg'[o] <=> oreg[o] /\ otree[o] # t
    BY <1>7 DEF DrainTree
  <2>4. \A q \in Actors \ {p} : w'[q].opens = w[q].opens
    BY <1>7, DrainTreeWork
  <2> QED BY <1>h, <1>i, <1>c, <1>g, <1>w, <2>1, <2>2, <2>3, <2>4
<1>8. ASSUME NEW p \in Actors, NEW o \in Opens, CloseDrained(p, o)
      PROVE  Handed' /\ NoIoAfterClose'
  <2>1. UNCHANGED <<oreg, h>> /\ o \in w[p].opens /\ ~InIo(o)
    BY <1>8 DEF CloseDrained
  <2>2. \A x \in Opens : ost'[x] = IF x = o THEN "closed" ELSE ost[x]
    BY <1>8 DEF CloseDrained, DataTypes
  <2>3. /\ w'[p].opens = w[p].opens \ {o}
        /\ \A q \in Actors \ {p} : w'[q].opens = w[q].opens
    BY <1>8, CloseDrainedWork
  <2>4. /\ ~oreg[o] /\ \A q \in Actors \ {p} : o \notin w[q].opens
        /\ \A d \in Conns : h[d].pc \in Hands => h[d].open # o
    BY <2>1, <1>h
  <2>5. \A d \in Conns : h[d].pc = "io" => h[d].open # o
    BY <2>1, <1>c DEF InIo
  <2> QED BY <1>h, <1>i, <1>c, <1>g, <1>w, <2>1, <2>2, <2>3, <2>4, <2>5
<1> QED BY <1>1, <1>2, <1>4, <1>5, <1>6, <1>7, <1>8, HandFrame DEF LoudOpenStep

-----------------------------------------------------------------------------
(* No handle is lost.                                                      *)

(* A tree comes into use while it can be reached.                          *)
LEMMA UseBegins ==
    ASSUME TypeOK, DataTypes, Owned, Carried, Nested, Handed, [Next]_vars,
           NEW t \in Trees, tst'[t] = "live", Used(t)'
    PROVE  tst[t] = "live" /\ tsess'[t] = tsess[t]
           /\ (Used(t) \/ sst'[tsess[t]] = "live")
<1> USE ObjectTypes
<1> DEFINE Begins == Used(t) \/ (EstablishedTree(t) /\ UNCHANGED <<sst, tsess>>)
           Using(c) == h[c].pc \in OpenPCs \cup {"create_open"} /\ h[c].tree = t
<1>u. /\ Used(t) <=> (\E o \in Opens : otree[o] = t) \/ Using(t[1])
      /\ Used(t)' <=> (\E o \in Opens : otree'[o] = t) \/ Using(t[1])'
  BY DEF Used
<1>1. ASSUME NEW c \in Conns, NewRequest(c)
      PROVE  Begins
  <2>1. UNCHANGED <<otree, sst, tsess>> /\ Handles(c) /\ Asked(c)
    BY <1>1, RequestEffect DEF connVars
  <2>2. CASE t[1] # c
    BY <1>u, <2>1, <2>2 DEF Handles
  <2>3. CASE t[1] = c
    <3>1. Using(c)' => EstablishedTree(t)
      BY <2>1 DEF Asked, OpenPCs
    <3> QED BY <1>u, <2>1, <2>3, <3>1
  <2> QED BY <2>2, <2>3
<1>2. ASSUME NEW c \in Conns, QuietStep(c)
      PROVE  Begins
  <2>1. UNCHANGED <<otree, sst, tsess>> /\ Handles(c) /\ WentOn(c)
    BY <1>2, QuietEffect DEF connVars
  <2>2. CASE t[1] # c
    BY <1>u, <2>1, <2>2 DEF Handles
  <2>3. CASE t[1] = c
    <3>1. Using(c)' => Using(c)
      BY <2>1 DEF WentOn, OpenPCs, HAt
    <3> QED BY <1>u, <2>1, <2>3, <3>1
  <2> QED BY <2>2, <2>3
<1>3. ASSUME NEW c \in Conns, LoudStep(c)
      PROVE  Begins
  <2>1. Handles(c)
    BY <1>3, LoudEffect
  <2>2. Using(c)' => Using(c)
    BY <1>3, LoudEffect DEF OpenPCs, HAt
  <2>3. \A o \in Opens : otree'[o] = otree[o]
                           \/ (otree'[o] = h[c].tree /\ HAt(c, "create_open"))
    BY <1>3 DEF LoudStep, SetupInsert, TreeInsert, CreateOpen, CreateInsert,
                CloseRemove, CloseTake, CloseHandle, DataTypes
  <2>4. HAt(c, "create_open") /\ h[c].tree = t => t[1] = c /\ Using(c)
    BY DEF Carried, CarriedBy, HAt
  <2>5. \A d \in Conns \ {c} : Using(d)' => Using(d)
    BY <2>1 DEF Handles
  <2> HIDE DEF Using
  <2> QED BY <1>u, <2>2, <2>3, <2>4, <2>5
<1>5. Begins
  <2>1. ASSUME NEW a \in Admins, CallStep(a) \/ ConfigStep(a) \/ SweepStep(a)
        PROVE  UNCHANGED <<otree, h>>
    BY <2>1 DEF CallStep, ConfigStep, SweepStep, ListConnections, SweepConnection,
                ScanSession, ReturnSwept, dataVars, connVars
  <2>2. ASSUME NEW p \in Actors, ClosingStep(p)
        PROVE  UNCHANGED <<otree, h>>
    BY <2>2, ClosingEffect
  <2>3. ASSUME NEW c \in Conns, Connect(c) \/ Disconnect(c)
        PROVE  UNCHANGED <<otree, h>>
    BY <2>3 DEF Connect, Disconnect
  <2>4. ASSUME NEW c \in Conns, HandlerStep(c)
        PROVE  QuietStep(c) \/ LoudStep(c)
    BY <2>4 DEF HandlerStep, QuietStep, LoudStep
  <2>5. CASE UNCHANGED <<otree, h>>
    BY <1>u, <2>5
  <2> HIDE DEF Begins
  <2> QED BY <1>1, <1>2, <1>3, <2>1, <2>2, <2>3, <2>4, <2>5
        DEF Next, vars, dataVars, connVars
<1>6. tst[t] # "free"
  <2>1. ASSUME NEW o \in Opens, otree[o] = t
        PROVE  tst[t] # "free"
    BY <2>1 DEF Owned
  <2>2. Using(t[1]) => tst[t] # "free"
    BY DEF Carried, CarriedBy
  <2> HIDE DEF Using
  <2> QED BY <1>5, <1>u, <2>1, <2>2 DEF EstablishedTree
<1>7. tst[t] = "live" /\ tsess'[t] = tsess[t]
  BY <1>6, Lasting DEF DataTypes
<1> QED BY <1>5, <1>7 DEF EstablishedTree, Established

(* What is to be closed inside changes by one's own steps from outside in. *)
LEMMA InnerFrame ==
    ASSUME TypeOK, DataTypes, Owned, Carried, [Next]_vars, NEW p \in Actors
    PROVE  /\ \/ w'[p].removed = w[p].removed
              \/ \E s \in Sessions : CloseSession(p, s)
              \/ DrainSession(p)
           /\ \/ w'[p].drained = w[p].drained
              \/ DrainSession(p)
              \/ \E t \in Trees : RemoveTree(p, t) \/ DrainTree(p, t)
<1> USE ObjectTypes
<1> DEFINE Effect ==
        /\ \/ w'[p].removed = w[p].removed
           \/ \E s \in Sessions : CloseSession(p, s)
           \/ DrainSession(p)
        /\ \/ w'[p].drained = w[p].drained
           \/ DrainSession(p)
           \/ \E t \in Trees : RemoveTree(p, t) \/ DrainTree(p, t)
<1>1. ASSUME w'[p] = w[p]
      PROVE  Effect
  BY <1>1
<1>2. ASSUME Assigned(p)
      PROVE  Effect
  BY <1>2 DEF Assigned
<1>3. ASSUME ClosingStep(p)
      PROVE  Effect
  <2>1. ASSUME NEW s \in Sessions, CloseSession(p, s)
        PROVE  w'[p].drained = w[p].drained
    BY <2>1, CloseSessionWork
  <2>2. ASSUME NEW o \in Opens, CloseDrained(p, o)
        PROVE  w'[p].removed = w[p].removed /\ w'[p].drained = w[p].drained
    BY <2>2, CloseDrainedWork
  <2>3. ASSUME UnlockSession(p) \/ UnlockTree(p)
        PROVE  w'[p].removed = w[p].removed /\ w'[p].drained = w[p].drained
    BY <2>3, UnlockWork
  <2>4. ASSUME NEW t \in Trees, RemoveTree(p, t) \/ DrainTree(p, t)
        PROVE  w'[p].removed = w[p].removed
    BY <2>4, RemoveTreeWork, DrainTreeWork
  <2> QED BY <1>3, <2>1, <2>2, <2>3, <2>4 DEF ClosingStep
<1>4. ASSUME NEW c \in Conns, p = c
      PROVE  Effect
  <2>1. w'[p] = w[p] \/ ClosingStep(p) \/ Assigned(p)
    BY <1>4, ClientWork, RequestWork
  <2> QED BY <1>1, <1>2, <1>3, <2>1
<1>5. ASSUME NEW a \in Admins, p = a
      PROVE  Effect
  <2>1. w'[p] = w[p] \/ ClosingStep(p) \/ Assigned(p)
    BY <1>5, AdminWork, ListWork, SweepWork, ScanWork
  <2> QED BY <1>1, <1>2, <1>3, <2>1
<1> HIDE DEF Effect
<1>6. Effect
  BY <1>4, <1>5 DEF Actors
<1> QED BY <1>6 DEF Effect

(* Every step keeps the table of a used tree reachable.                    *)
LEMMA StepUsedTrees ==
    ASSUME TypeOK, DataTypes, Owned, Carried, Nested, Handed, UsedTrees, [Next]_vars
    PROVE  UsedTrees'
<1> USE ObjectTypes
<1> SUFFICES ASSUME NEW t \in Trees, tst'[t] = "live", Used(t)'
             PROVE  \/ sst'[tsess'[t]] = "live"
                    \/ \E p \in Actors : w'[p].removed = tsess'[t]
  BY DEF UsedTrees, Doomed
<1>0. tst[t] = "live" /\ tsess'[t] = tsess[t]
           /\ (Used(t) \/ sst'[tsess[t]] = "live")
  BY UseBegins
<1>2. PICK s \in Sessions : s = tsess[t] /\ sst[s] # "free"
  BY <1>0 DEF Owned
<1>1. /\ tst[t] = "live" /\ tsess[t] = s /\ tsess'[t] = s
      /\ Used(t) \/ sst'[s] = "live"
  BY <1>0, <1>2
<1>3. sst[s] = "live" => sst'[s] = "live" \/ Doomed(s)'
  <2>1. ASSUME NEW p \in Actors, NEW x \in Sessions, CloseSession(p, x), sst[s] = "live"
        PROVE  sst'[s] = "live" \/ Doomed(s)'
    <3>1. x = s => w'[p].removed = s
      BY <2>1, CloseSessionWork
    <3>2. x # s => sst'[s] = sst[s]
      BY <2>1, <1>2 DEF CloseSession, DataTypes
    <3> QED BY <2>1, <3>1, <3>2 DEF Doomed
  <2>2. ASSUME NEW c \in Conns, LoudStep(c), sst[s] = "live"
        PROVE  sst'[s] = "live"
    BY <2>2, <1>2 DEF LoudStep, SetupInsert, TreeInsert, CreateOpen, CreateInsert,
          CloseRemove, CloseTake, CloseHandle, DataTypes, Fresh
  <2>3. ASSUME NEW p \in Actors,
               \/ DrainSession(p)
               \/ \E x \in Trees : RemoveTree(p, x) \/ DrainTree(p, x)
               \/ \E o \in Opens : CloseDrained(p, o)
        PROVE  UNCHANGED sst
    BY <2>3 DEF DrainSession, RemoveTree, DrainTree, CloseDrained
  <2> QED BY <2>1, <2>2, <2>3, TablesFrame
<1>4. Doomed(s) => Doomed(s)'
  <2> SUFFICES ASSUME NEW p \in Actors, w[p].removed = s
               PROVE  w'[p].removed = s
    BY DEF Doomed
  <2>1. ASSUME NEW x \in Sessions, CloseSession(p, x)
        PROVE  FALSE
    BY <2>1, <1>2 DEF CloseSession, InnerIdle
  <2>2. ~DrainSession(p)
    <3>1. SUFFICES ASSUME DrainSession(p) PROVE FALSE
      OBVIOUS
    <3>2. tst' = [x \in Trees |-> IF tst[x] = "live" /\ tsess[x] = w[p].removed
                                    THEN "closed" ELSE tst[x]]
      BY <3>1 DEF DrainSession
    <3> QED BY <1>1, <3>2
  <2> QED BY <2>1, <2>2, InnerFrame
<1>5. sst'[s] = "live" \/ Doomed(s)'
  BY <1>1, <1>3, <1>4 DEF UsedTrees
<1> QED BY <1>1, <1>5 DEF Doomed

(* Every step keeps every open handle within reach.                        *)
LEMMA StepReached ==
    ASSUME TypeOK, DataTypes, Owned, Carried, Nested, Handed, Reached, [Next]_vars
    PROVE  Reached'
<1> USE ObjectTypes
<1> DEFINE Waits(o) == \E p \in Actors : o \in w[p].opens
           Drains(t) == \E p \in Actors : t \in w[p].drained
           Drained(t) == \E p \in Actors : t \in w'[p].drained
<1>r. /\ \A o \in Opens : ost[o] = "open" => oreg[o] \/ Held(o) \/ Waits(o)
      /\ \A o \in Opens : oreg[o] => tst[otree[o]] = "live" \/ Drains(otree[o])
  BY DEF Reached
<1>1. ASSUME NEW o \in Opens, ost'[o] = "open"
      PROVE  oreg'[o] \/ Held(o)' \/ Waits(o)'
  <2>1. CASE /\ UNCHANGED <<ost, oreg, otree>>
             /\ \A p \in Actors : w'[p].opens = w[p].opens
             /\ \A c \in Conns : h'[c] = h[c] \/ HandsOff(c)
    BY <1>1, <1>r, <2>1 DEF Held, HandsOff
  <2>2. ASSUME NEW c \in Conns, LoudOpenStep(c)
        PROVE  UNCHANGED w /\ Handles(c)
    BY <2>2, LoudEffect DEF LoudOpenStep, LoudStep
  <2>3. ASSUME NEW c \in Conns, LoudOpenStep(c), o[1] # c
        PROVE  oreg'[o] \/ Held(o)' \/ Waits(o)'
    <3>1. h'[o[1]] = h[o[1]] /\ UNCHANGED w
      BY <2>2, <2>3 DEF Handles
    <3>2. ost'[o] = ost[o] /\ oreg'[o] = oreg[o]
      <4>1. CASE CreateOpen(c)
        BY <2>3, <4>1 DEF CreateOpen, Fresh, DataTypes
      <4>2. CASE ~CreateOpen(c)
        <5>1. h[c].open \in Opens /\ h[c].open[1] = c
          BY <2>3, <4>2 DEF LoudOpenStep, CreateInsert, CloseRemove, CloseTake,
                            CloseHandle, Carried, CarriedBy,
              HAt, OpenPCs
        <5> QED BY <2>3, <4>2, <5>1 DEF LoudOpenStep, CreateInsert, CloseRemove,
                                         CloseTake, CloseHandle, DataTypes
      <4> QED BY <4>1, <4>2
    <3> QED BY <1>1, <1>r, <3>1, <3>2 DEF Held
  <2>4. ASSUME NEW c \in Conns, LoudOpenStep(c), o[1] = c
        PROVE  oreg'[o] \/ Held(o)' \/ Waits(o)'
    <3>1. CASE CreateOpen(c)
      <4>1. PICK x \in Fresh(c, ost) :
                /\ ost' = [ost EXCEPT ![x] = "open"]
                /\ SetH(c, [h[c] EXCEPT !.pc = "create_insert", !.open = x])
        BY <3>1 DEF CreateOpen
      <4>2. h[c] \in Handler /\ x \in Opens /\ UNCHANGED oreg /\ UNCHANGED w
        BY <3>1, <4>1 DEF DataTypes, Fresh, CreateOpen
      <4> DEFINE r == [h[c] EXCEPT !.pc = "create_insert", !.open = x]
      <4>3. r \in Handler /\ r.pc = "create_insert" /\ r.open = x
        BY <4>2 DEF Handler, HandlerPCs
      <4>4. h'[c] = r
        BY <4>1, <4>3, SetHandles
      <4> HIDE DEF r
      <4>5. CASE o = x
        BY <2>4, <4>3, <4>4, <4>5 DEF Held
      <4>6. CASE o # x
        <5>1. ost[o] = "open"
          BY <1>1, <4>1, <4>6 DEF DataTypes
        <5>2. ~Held(o)
          BY <2>4, <3>1 DEF Held, CreateOpen, HAt
        <5> QED BY <1>r, <4>2, <5>1, <5>2
      <4> QED BY <4>5, <4>6
    <3>2. CASE ~CreateOpen(c)
      <4>0. h[c].open \in Opens
        BY <2>4, <3>2 DEF LoudOpenStep, CreateInsert, CloseRemove, CloseTake,
                          CloseHandle, Carried, CarriedBy,
              HAt, OpenPCs
      <4>1. CASE o # h[c].open
        <5>1. ost'[o] = ost[o] /\ oreg'[o] = oreg[o]
          BY <2>4, <3>2, <4>0, <4>1 DEF LoudOpenStep, CreateInsert, CloseRemove,
                                        CloseTake, CloseHandle, DataTypes
        <5>2. ~Held(o)
          BY <2>4, <4>1 DEF Held
        <5> QED BY <1>1, <1>r, <2>2, <2>4, <5>1, <5>2
      <4>2. CASE o = h[c].open
        <5>1. CASE CreateInsert(c)
          BY <1>1, <4>0, <4>2, <5>1 DEF CreateInsert, DataTypes
        <5>2. CASE CloseRemove(c)
          <6>1. ost[o] = "open" /\ HAt(c, "close_remove") /\ UNCHANGED w
            BY <1>1, <5>2 DEF CloseRemove
          <6>2. ~Held(o)
            BY <2>4, <6>1 DEF Held, HAt
          <6>3. oreg[o] => h'[c].pc = "close_take" /\ h'[c].open = o
            BY <4>2, <5>2, MoveHandles DEF CloseRemove, HandlerPCs
          <6> QED BY <1>r, <2>4, <6>1, <6>2, <6>3 DEF Held
        <5>3. CASE CloseTake(c) \/ CloseHandle(c)
          BY <1>1, <4>0, <4>2, <5>3 DEF CloseTake, CloseHandle, DataTypes
        <5> QED BY <2>4, <3>2, <5>1, <5>2, <5>3 DEF LoudOpenStep
      <4> QED BY <4>1, <4>2
    <3> QED BY <3>1, <3>2
  <2>5. ASSUME NEW p \in Actors, NEW t \in Trees, DrainTree(p, t)
        PROVE  oreg'[o] \/ Held(o)' \/ Waits(o)'
    <3>1. UNCHANGED <<ost, h>> /\ w[p].opens = {}
      BY <2>5 DEF DrainTree, Nested, NestedIn
    <3>2. oreg[o] => oreg'[o] \/ o \in w'[p].opens
      BY <2>5, DrainTreeWork DEF DrainTree
    <3>3. \A q \in Actors \ {p} : w'[q] = w[q]
      BY <2>5, DrainTreeWork
    <3> QED BY <1>1, <1>r, <3>1, <3>2, <3>3 DEF Held
  <2>6. ASSUME NEW p \in Actors, NEW x \in Opens, CloseDrained(p, x)
        PROVE  oreg'[o] \/ Held(o)' \/ Waits(o)'
    <3>1. UNCHANGED <<oreg, h>> /\ o # x /\ ost[o] = "open"
      BY <1>1, <2>6 DEF CloseDrained, DataTypes
    <3>2. /\ w'[p].opens = w[p].opens \ {x}
          /\ \A q \in Actors \ {p} : w'[q] = w[q]
      BY <2>6, CloseDrainedWork
    <3> QED BY <1>r, <3>1, <3>2 DEF Held
  <2> QED BY <2>1, <2>3, <2>4, <2>5, <2>6, HandFrame
<1>2. ASSUME NEW o \in Opens, oreg'[o]
      PROVE  tst'[otree'[o]] = "live" \/ Drained(otree'[o])
  <2>1. (oreg[o] /\ otree'[o] = otree[o]) \/
            \E c \in Conns : CreateInsert(c) /\ o = h[c].open /\ ~Orphaned(h[c].tree)
    <3>1. ASSUME NEW c \in Conns, LoudOpenStep(c)
          PROVE  oreg[o] \/ (CreateInsert(c) /\ o = h[c].open /\ ~Orphaned(h[c].tree))
      BY <1>2, <3>1 DEF LoudOpenStep, CreateOpen, CreateInsert, CloseRemove, CloseTake,
                        CloseHandle, DataTypes
    <3>2. ASSUME NEW p \in Actors,
                 \/ \E t \in Trees : DrainTree(p, t)
                 \/ \E x \in Opens : CloseDrained(p, x)
          PROVE  oreg[o]
      BY <1>2, <3>2 DEF DrainTree, CloseDrained
    <3>3. oreg[o] => otree'[o] = otree[o]
      BY Lasting DEF Handed
    <3> QED BY <1>2, <3>1, <3>2, <3>3, HandFrame
  <2>2. ASSUME NEW c \in Conns, CreateInsert(c), o = h[c].open, ~Orphaned(h[c].tree)
        PROVE  tst'[otree'[o]] = "live" \/ Drained(otree'[o])
    <3>1. /\ otree[o] = h[c].tree /\ tst[otree[o]] # "free" /\ otree[o] \in Trees
          /\ UNCHANGED <<tst, otree, w>>
      BY <2>2 DEF CreateInsert, Carried, CarriedBy, HAt, OpenPCs
    <3> QED BY <2>2, <3>1 DEF Orphaned, DataTypes
  <2>3. ASSUME oreg[o], otree'[o] = otree[o]
        PROVE  tst'[otree'[o]] = "live" \/ Drained(otree'[o])
    <3>0. PICK t \in Trees : t = otree[o] /\ (tst[t] = "live" \/ Drains(t))
      BY <2>3, <1>r DEF Handed, Owned
    <3>1. ASSUME NEW p \in Actors, DrainSession(p)
          PROVE  tst'[t] = "live" \/ Drained(t)
      <4> DEFINE ts == {x \in Trees : tst[x] = "live" /\ tsess[x] = w[p].removed}
      <4>1. /\ \A q \in Actors \ {p} : w'[q] = w[q]
            /\ w'[p].drained = ts /\ w[p].drained = {}
        BY <3>1, DrainSessionWork DEF DrainSession, Nested, NestedIn
      <4>2. tst' = [x \in Trees |-> IF x \in ts THEN "closed" ELSE tst[x]]
        BY <3>1 DEF DrainSession
      <4> HIDE DEF ts
      <4> QED BY <3>0, <4>1, <4>2
    <3>2. ASSUME NEW p \in Actors, NEW x \in Trees, RemoveTree(p, x)
          PROVE  tst'[t] = "live" \/ Drained(t)
      <4>1. /\ \A q \in Actors \ {p} : w'[q] = w[q]
            /\ w'[p].drained = IF tst[x] = "live" THEN {x} ELSE {}
            /\ w[p].drained = {}
        BY <3>2, RemoveTreeWork DEF RemoveTree, InnerIdle
      <4>2. tst' = [tst EXCEPT ![x] = "closed"]
        BY <3>2 DEF RemoveTree
      <4> QED BY <3>0, <4>1, <4>2 DEF DataTypes
    <3>3. ASSUME NEW p \in Actors, NEW x \in Trees, DrainTree(p, x)
          PROVE  tst'[t] = "live" \/ Drained(t)
      <4>1. t # x /\ UNCHANGED tst
        BY <1>2, <2>3, <3>0, <3>3 DEF DrainTree
      <4>2. /\ \A q \in Actors \ {p} : w'[q] = w[q]
            /\ w'[p].drained = w[p].drained \ {x}
        BY <3>3, DrainTreeWork
      <4> QED BY <3>0, <4>1, <4>2
    <3>4. ASSUME NEW c \in Conns, LoudStep(c)
          PROVE  tst[t] = "live" => tst'[t] = "live"
      BY <3>0, <3>4 DEF LoudStep, SetupInsert, TreeInsert, CreateOpen, CreateInsert,
                   CloseRemove, CloseTake, CloseHandle, DataTypes, Fresh
    <3>5. ASSUME NEW p \in Actors,
                 \/ \E s \in Sessions : CloseSession(p, s)
                 \/ \E x \in Opens : CloseDrained(p, x)
          PROVE  UNCHANGED tst
      BY <3>5 DEF CloseSession, CloseDrained
    <3>6. CASE tst[t] = "live"
      BY <3>0, <3>1, <3>2, <3>3, <3>4, <3>5, <3>6, <2>3, TablesFrame
    <3>7. ASSUME NEW p \in Actors, t \in w[p].drained
          PROVE  tst'[t] = "live" \/ Drained(t)
      BY <3>1, <3>2, <3>3, <3>7, InnerFrame
    <3> QED BY <2>3, <3>0, <3>6, <3>7
  <2> QED BY <2>1, <2>2, <2>3
<1> QED BY <1>1, <1>2 DEF Reached

-----------------------------------------------------------------------------
(* Sweeps come to what they are about.                                     *)

(* A connection once accepted never comes back after it is lost.           *)
LEMMA ConnFrame ==
    ASSUME TypeOK, DataTypes, Owned, Carried, [Next]_vars, NEW c \in Conns
    PROVE  conn[c] # "off" /\ conn'[c] = "on" => conn[c] = "on"
<1>1. ASSUME NEW d \in Conns, Connect(d) \/ Disconnect(d)
      PROVE  conn[c] # "off" /\ conn'[c] = "on" => conn[c] = "on"
  BY <1>1 DEF Connect, Disconnect, DataTypes
<1>2. ASSUME NEW d \in Conns, NewRequest(d) \/ HandlerStep(d)
      PROVE  UNCHANGED conn
  <2>1. NewRequest(d) \/ QuietStep(d) \/ LoudStep(d)
    BY <1>2 DEF HandlerStep, QuietStep, LoudStep
  <2> QED BY <2>1, RequestEffect, QuietEffect, LoudEffect DEF connVars
<1>3. ASSUME NEW p \in Actors, ClosingStep(p)
      PROVE  UNCHANGED conn
  BY <1>3, ClosingEffect
<1>4. ASSUME NEW a \in Admins, CallStep(a) \/ ConfigStep(a) \/ SweepStep(a)
      PROVE  UNCHANGED conn
  BY <1>4 DEF CallStep, ConfigStep, SweepStep, ListConnections, SweepConnection,
              ScanSession, ReturnSwept, dataVars, connVars
<1> QED BY <1>1, <1>2, <1>3, <1>4 DEF Next, vars, dataVars, connVars

(* What is established was so before, or is new.                           *)
LEMMA EstablishedBefore ==
    ASSUME TypeOK, DataTypes, Owned, Carried, Nested, Handed, ConnUsed, [Next]_vars,
           NEW s \in Sessions, sst[s] # "free", Established(s)'
    PROVE  Established(s)
<1> USE ObjectTypes
<1>1. conn[s[1]] # "off" /\ conn'[s[1]] = "on" /\ sst'[s] = "live"
  BY DEF ConnUsed, Established
<1>2. sst[s] = "live"
  BY <1>1, Lasting DEF DataTypes
<1> QED BY <1>1, <1>2, ConnFrame DEF Established

(* A tree that is established after a step, and was allocated before it,   *)
(* was established before it with the same session, user and share.        *)
LEMMA TreeBefore ==
    ASSUME TypeOK, DataTypes, Owned, Carried, Nested, Handed, ConnUsed, [Next]_vars,
           NEW t \in Trees, tst[t] # "free", EstablishedTree(t)'
    PROVE  /\ EstablishedTree(t) /\ tsess[t] \in Sessions /\ tsess[t][1] = t[1]
           /\ sst[tsess[t]] = "live" /\ conn[t[1]] = "on" /\ tbind[t] \in Bindings
           /\ tsess'[t] = tsess[t] /\ tbind'[t] = tbind[t]
           /\ suser'[tsess[t]] = suser[tsess[t]]
           /\ sst'[tsess[t]] = "live" /\ conn'[t[1]] = "on"
           /\ bname'[tbind[t]] = bname[tbind[t]]
<1> USE ObjectTypes
<1>1. /\ tsess'[t] = tsess[t] /\ tbind'[t] = tbind[t] /\ tst[t] = "live"
      /\ tbind[t] \in Bindings
  BY Lasting DEF Owned, DataTypes, EstablishedTree
<1>2. PICK s \in Sessions : s = tsess[t] /\ s[1] = t[1] /\ sst[s] # "free"
  BY DEF Owned
<1>3. conn'[s[1]] = "on" /\ sst'[s] = "live"
  BY <1>1, <1>2 DEF EstablishedTree, Established
<1>4. Established(s)
  BY <1>2, <1>3, EstablishedBefore DEF Established
<1>5. suser'[s] = suser[s]
  BY <1>2, Lasting
<1>6. bname'[tbind[t]] = bname[tbind[t]]
  BY <1>1, <1>2, <1>4, NameStays DEF Established
<1> QED BY <1>1, <1>2, <1>3, <1>4, <1>5, <1>6 DEF EstablishedTree, Established

(* A session that a removal has still to visit stays so until closed.      *)
LEMMA SessionStillDue ==
    ASSUME TypeOK, DataTypes, Owned, Carried, WorkOfSweep, [Next]_vars,
           NEW a \in Admins, NEW s \in Sessions,
           s[1] \in w[a].conns \/ s \in w[a].sids,
           sst[s] = "live", sst'[s] = "live",
           job[a].op = "remove_user", job[a].user = suser[s]
    PROVE  s[1] \in w'[a].conns \/ s \in w'[a].sids
<1> USE ObjectTypes
<1>1. w[a] # NoWork
  BY DEF NoWork
<1>2. CASE w'[a] = w[a]
  BY <1>2
<1>3. CASE ClosingStep(a)
  <2>1. w'[a].conns = w[a].conns
    BY <1>3, ClosingEffect
  <2>2. ASSUME NEW x \in Sessions, CloseSession(a, x)
        PROVE  x # s /\ w'[a].sids = w[a].sids \ {x}
    BY <2>2, CloseSessionWork DEF CloseSession, DataTypes
  <2>3. ASSUME \A x \in Sessions : ~CloseSession(a, x)
        PROVE  w'[a].sids = w[a].sids
    BY <1>3, <2>3, DrainSessionWork, UnlockWork, RemoveTreeWork, DrainTreeWork,
       CloseDrainedWork DEF ClosingStep
  <2> QED BY <2>1, <2>2, <2>3
<1>4. ~ListConnections(a)
  BY <1>1 DEF WorkOfSweep, ListConnections, ListLive
<1>5. ASSUME NEW c \in Conns, SweepConnection(a, c)
      PROVE  s[1] \in w'[a].conns \/ s \in w'[a].sids
  <2>1. w[a].sids = {} /\ w'[a].conns = w[a].conns \ {c}
    BY <1>5, SweepWork DEF SweepConnection
  <2>2. s[1] = c => s \in w'[a].sids
    BY <1>5, SweepWork
  <2> QED BY <2>1, <2>2
<1>6. ASSUME NEW x \in Sessions, ScanSession(a, x)
      PROVE  s[1] \in w'[a].conns \/ s \in w'[a].sids
  BY <1>6, ScanWork
<1> QED BY <1>2, <1>3, <1>4, <1>5, <1>6, AdminWork

(* A tree that a sweep has still to visit stays so until closed.           *)
LEMMA TreeStillDue ==
    ASSUME TypeOK, DataTypes, Owned, Carried, WorkOfSweep, [Next]_vars,
           NEW a \in Admins, NEW t \in Trees, NEW s \in Sessions,
           s = tsess[t], s[1] = t[1], sst[s] = "live",
           t[1] \in w[a].conns \/ s \in w[a].scan \/ t \in w[a].rm,
           tst[t] = "live", tst'[t] = "live", About(a, t)
    PROVE  t[1] \in w'[a].conns \/ s \in w'[a].scan \/ t \in w'[a].rm
<1> USE ObjectTypes
<1>1. w[a] # NoWork /\ job[a].op # "remove_user"
  BY DEF NoWork, About, TreeOps
<1>2. CASE w'[a] = w[a]
  BY <1>2
<1>3. CASE ClosingStep(a)
  <2>1. w'[a].conns = w[a].conns /\ w'[a].scan = w[a].scan
    BY <1>3, ClosingEffect
  <2>2. ASSUME NEW x \in Trees, RemoveTree(a, x)
        PROVE  x # t /\ w'[a].rm = w[a].rm \ {x}
    BY <2>2, RemoveTreeWork DEF RemoveTree, DataTypes
  <2>3. ASSUME \A x \in Trees : ~RemoveTree(a, x)
        PROVE  w'[a].rm = w[a].rm
    BY <1>3, <2>3, CloseSessionWork, DrainSessionWork, UnlockWork, DrainTreeWork,
       CloseDrainedWork DEF ClosingStep
  <2> QED BY <2>1, <2>2, <2>3
<1>4. ~ListConnections(a)
  BY <1>1 DEF WorkOfSweep, ListConnections, ListLive
<1>5. ASSUME NEW c \in Conns, SweepConnection(a, c)
      PROVE  t[1] \in w'[a].conns \/ s \in w'[a].scan \/ t \in w'[a].rm
  <2>1. w[a].scan = {} /\ w[a].rm = {} /\ w'[a].conns = w[a].conns \ {c}
    BY <1>5, SweepWork DEF SweepConnection
  <2>2. t[1] = c => s \in w'[a].scan
    BY <1>1, <1>5, SweepWork
  <2> QED BY <2>1, <2>2
<1>6. ASSUME NEW x \in Sessions, ScanSession(a, x)
      PROVE  t[1] \in w'[a].conns \/ s \in w'[a].scan \/ t \in w'[a].rm
  <2>1. w[a].rm = {} /\ w'[a].conns = w[a].conns /\ w'[a].scan = w[a].scan \ {x}
    BY <1>6, ScanWork DEF ScanSession
  <2>2. Matches(job[a], s, t)
    BY DEF Matches, About
  <2>3. x = s => t \in w'[a].rm
    BY <1>6, <2>2, ScanWork
  <2> QED BY <2>1, <2>3
<1> QED BY <1>2, <1>3, <1>4, <1>5, <1>6, AdminWork

(* What a sweep has found changes when it lists and when it returns.       *)
LEMMA DoomedFrame ==
    ASSUME TypeOK, DataTypes, Owned, Carried, [Next]_vars, NEW a \in Admins
    PROVE  doomed'[a] = doomed[a] \/ ListConnections(a) \/ ReturnSwept(a)
<1>1. ASSUME NEW c \in Conns,
             Connect(c) \/ Disconnect(c) \/ NewRequest(c) \/ HandlerStep(c)
      PROVE  UNCHANGED doomed
  <2>1. \/ Connect(c) \/ Disconnect(c)
        \/ NewRequest(c) \/ QuietStep(c) \/ LoudStep(c)
    BY <1>1 DEF HandlerStep, QuietStep, LoudStep
  <2> QED BY <2>1, RequestEffect, QuietEffect, LoudEffect DEF Connect, Disconnect
<1>2. ASSUME NEW p \in Actors, ClosingStep(p)
      PROVE  UNCHANGED doomed
  BY <1>2, ClosingEffect
<1>3. ASSUME NEW b \in Admins, CallStep(b) \/ ConfigStep(b) \/ SweepStep(b)
      PROVE  doomed'[a] = doomed[a] \/ ListConnections(a) \/ ReturnSwept(a)
  BY <1>3 DEF CallStep, ConfigStep, SweepStep, ListConnections, SweepConnection,
              ScanSession, ReturnSwept, dataVars, DataTypes
<1> QED BY <1>1, <1>2, <1>3 DEF Next, vars, dataVars

(* Every step keeps what a sweep found on its way to be closed.            *)
LEMMA StepDoomedPending ==
    ASSUME TypeOK, DataTypes, Owned, Carried, Nested, Handed, ConnUsed, WorkOfSweep,
           DoomedPending, [Next]_vars
    PROVE  DoomedPending'
<1> USE ObjectTypes
<1> SUFFICES ASSUME NEW a \in Admins
             PROVE  /\ pc'[a] # "sweeping" => doomed'[a] = {}
                    /\ \A s \in doomed'[a] \cap Sessions :
                        /\ job'[a].op = "remove_user" /\ job'[a].user = suser'[s]
                        /\ sst'[s] # "free"
                        /\ Established(s)' => s[1] \in w'[a].conns \/ s \in w'[a].sids
                    /\ \A t \in doomed'[a] \cap Trees :
                        /\ tst'[t] # "free"
                        /\ EstablishedTree(t)' =>
                            /\ About(a, t)'
                            /\ \/ t[1] \in w'[a].conns \/ tsess'[t] \in w'[a].scan
                               \/ t \in w'[a].rm
  BY DEF DoomedPending
<1>1. CASE ReturnSwept(a)
  <2>1. pc'[a] = "idle" /\ doomed'[a] = {}
    BY <1>1 DEF ReturnSwept, SweepDone, Return, TypeOK, DataTypes
  <2> QED BY <2>1
<1>2. CASE ListConnections(a)
  <2>1. /\ pc[a] = "sweep" /\ pc'[a] = "sweeping" /\ doomed'[a] = Targets(job[a])
        /\ UNCHANGED <<conn, sst, suser, tst, tsess, tbind, job, bname>>
        /\ job[a].op \in SweepOps
    BY <1>2 DEF ListConnections, ListLive, Goto, TypeOK, DataTypes, connVars, WorkOfSweep
  <2>2. w'[a].conns = {c \in Conns : conn[c] = "on"}
    BY <1>2, ListWork
  <2>3. ASSUME NEW s \in doomed'[a], s \in Sessions
        PROVE  /\ job'[a].op = "remove_user" /\ job'[a].user = suser'[s]
               /\ sst'[s] # "free" /\ s[1] \in w'[a].conns
    BY <2>1, <2>2, <2>3 DEF Targets, Established
  <2>4. ASSUME NEW t \in doomed'[a], t \in Trees
        PROVE  /\ tst'[t] # "free" /\ About(a, t)' /\ t[1] \in w'[a].conns
    <3>1. /\ job[a].op # "remove_user" /\ EstablishedTree(t)
          /\ bname[tbind[t]] = job[a].share
          /\ job[a].op = "revoke_share_user" => suser[tsess[t]] = job[a].user
      BY <2>1, <2>4 DEF Targets
    <3>2. conn[t[1]] = "on" /\ tst[t] = "live"
      BY <2>4, <3>1 DEF EstablishedTree, Established, Owned
    <3> QED BY <2>1, <2>2, <2>4, <3>1, <3>2 DEF About, TreeOps
  <2> QED BY <2>1, <2>3, <2>4
<1>3. CASE doomed'[a] = doomed[a] /\ ~ReturnSwept(a) /\ ~ListConnections(a)
  <2>1. /\ pc'[a] = "sweeping" <=> pc[a] = "sweeping"
        /\ pc[a] = "sweeping" => job'[a] = job[a]
    BY <1>3, CallFrame
  <2>2. pc[a] # "sweeping" => doomed[a] = {}
    BY DEF DoomedPending
  <2>3. ASSUME NEW s \in doomed[a], s \in Sessions
        PROVE  /\ job'[a].op = "remove_user" /\ job'[a].user = suser'[s]
               /\ sst'[s] # "free"
               /\ Established(s)' => s[1] \in w'[a].conns \/ s \in w'[a].sids
    <3>1. /\ job[a].op = "remove_user" /\ job[a].user = suser[s]
          /\ sst[s] # "free"
          /\ Established(s) => s[1] \in w[a].conns \/ s \in w[a].sids
      BY <2>3 DEF DoomedPending
    <3>2. job'[a] = job[a] /\ suser'[s] = suser[s] /\ sst'[s] # "free"
      BY <2>1, <2>2, <2>3, <3>1, Lasting
    <3>3. Established(s)' => s[1] \in w'[a].conns \/ s \in w'[a].sids
      BY <2>3, <3>1, EstablishedBefore, SessionStillDue DEF Established
    <3> QED BY <3>1, <3>2, <3>3
  <2>4. ASSUME NEW t \in doomed[a], t \in Trees
        PROVE  /\ tst'[t] # "free"
               /\ EstablishedTree(t)' =>
                    /\ About(a, t)'
                    /\ \/ t[1] \in w'[a].conns \/ tsess'[t] \in w'[a].scan
                       \/ t \in w'[a].rm
    <3>1. /\ tst[t] # "free"
          /\ EstablishedTree(t) =>
                /\ About(a, t)
                /\ t[1] \in w[a].conns \/ tsess[t] \in w[a].scan \/ t \in w[a].rm
      BY <2>4 DEF DoomedPending
    <3>2. job'[a] = job[a] /\ tst'[t] # "free"
      BY <2>1, <2>2, <2>4, <3>1, Lasting
    <3>3. ASSUME EstablishedTree(t)'
          PROVE  /\ About(a, t)'
                 /\ \/ t[1] \in w'[a].conns \/ tsess'[t] \in w'[a].scan
                    \/ t \in w'[a].rm
      <4>1. /\ EstablishedTree(t) /\ tsess[t] \in Sessions /\ tsess[t][1] = t[1]
            /\ sst[tsess[t]] = "live"
            /\ tsess'[t] = tsess[t] /\ tbind'[t] = tbind[t]
            /\ suser'[tsess[t]] = suser[tsess[t]]
            /\ bname'[tbind[t]] = bname[tbind[t]]
        BY <2>4, <3>1, <3>3, TreeBefore
      <4>2. About(a, t)'
        BY <3>1, <3>2, <4>1 DEF About
      <4>3. tst[t] = "live" /\ tst'[t] = "live"
        BY <3>3, <4>1 DEF EstablishedTree
      <4>4. t[1] \in w'[a].conns \/ tsess[t] \in w'[a].scan \/ t \in w'[a].rm
        BY <2>4, <3>1, <4>1, <4>3, TreeStillDue
      <4> QED BY <4>1, <4>2, <4>4
    <3> QED BY <3>2, <3>3
  <2> QED BY <1>3, <2>1, <2>2, <2>3, <2>4
<1> QED BY <1>1, <1>2, <1>3, DoomedFrame

-----------------------------------------------------------------------------
(* What outlives its right.                                                *)

(* A late object stays late.                                               *)
LEMMA LateGrows ==
    ASSUME TypeOK, DataTypes, Owned, Carried, [Next]_vars
    PROVE  late \subseteq late'
<1>1. ASSUME NEW c \in Conns,
             Connect(c) \/ Disconnect(c) \/ NewRequest(c) \/ HandlerStep(c)
      PROVE  late \subseteq late'
  <2>1. CASE Connect(c) \/ Disconnect(c) \/ NewRequest(c) \/ QuietStep(c)
    BY <2>1, RequestEffect, QuietEffect DEF Connect, Disconnect
  <2>2. CASE LoudStep(c)
    BY <2>2 DEF LoudStep, SetupInsert, TreeInsert, CreateOpen, CreateInsert,
                CloseRemove, CloseTake, CloseHandle
  <2> QED BY <1>1, <2>1, <2>2 DEF HandlerStep, QuietStep, LoudStep
<1>2. ASSUME NEW p \in Actors, ClosingStep(p)
      PROVE  UNCHANGED late
  BY <1>2, ClosingEffect
<1>3. ASSUME NEW a \in Admins, CallStep(a) \/ ConfigStep(a) \/ SweepStep(a)
      PROVE  UNCHANGED late
  BY <1>3 DEF CallStep, ConfigStep, SweepStep, ListConnections, SweepConnection,
              ScanSession, ReturnSwept, dataVars
<1> QED BY <1>1, <1>2, <1>3 DEF Next, vars, dataVars

(* A user leaves the table by remove_user, which then has it to close.     *)
LEMMA UsersFrame ==
    ASSUME TypeOK, [ConfigNext]_configVars, NEW u \in users, u \notin users'
    PROVE  \E a \in Admins : /\ job'[a].op = "remove_user" /\ job'[a].user = u
                             /\ pc'[a] = "snapshot"
<1>1. PICK a \in Admins : RemoveUser(a)
  BY DEF ConfigNext, AdminStep, UserSteps, ShareSteps, AclSteps,
              Call, AddUser, RemoveUser,
         RemoveUserUnknown, RemoveUserSnapshot, RemoveUserAcl, RemoveUserCleaned,
         AddShareRejected, AddShareCheck, AddShareInsert, AddShareDuplicate,
         RemoveShare, RemoveShareUnknown, GrantCheck, GrantUnknown, FindShare,
         FindShareUnknown, GrantInsert, GrantPublic, RevokeRemove, SetMode,
         SetModeNoChange, ListLive, SweepDone, configVars
<1> QED BY <1>1 DEF RemoveUser, At, Goto, TypeOK

(* A call of remove_user that has begun comes to its sweep.                *)
LEMMA RemovalGoesOn ==
    ASSUME TypeOK, [ConfigNext]_configVars, NEW a \in Admins,
           job[a].op = "remove_user", pc[a] \in {"snapshot", "clean", "sweep"}
    PROVE  /\ job'[a] = job[a]
           /\ \/ pc'[a] \in {"snapshot", "clean", "sweep"}
              \/ pc[a] = "sweep" /\ pc'[a] = "sweeping"
<1> USE DEF TypeOK, At, Goto, Return
<1>1. CASE UNCHANGED configVars
  BY <1>1 DEF configVars
<1>2. ASSUME NEW b \in Admins, Call(b) \/ ListLive(b) \/ SweepDone(b)
      PROVE  /\ job'[a] = job[a]
             /\ pc'[a] = pc[a] \/ (pc[a] = "sweep" /\ pc'[a] = "sweeping")
  BY <1>2 DEF Call, ListLive, SweepDone
<1>3. ASSUME NEW b \in Admins, UserSteps(b)
      PROVE  job'[a] = job[a] /\ pc'[a] \in {"snapshot", "clean", "sweep"}
  BY <1>3 DEF UserSteps, AddUser, RemoveUser, RemoveUserUnknown, RemoveUserSnapshot,
              RemoveUserAcl, RemoveUserCleaned
<1>4. ASSUME NEW b \in Admins, ShareSteps(b)
      PROVE  job'[a] = job[a] /\ pc'[a] = pc[a]
  BY <1>4 DEF ShareSteps, AddShareRejected, AddShareCheck, AddShareInsert,
              AddShareDuplicate, RemoveShare, RemoveShareUnknown
<1>5. ASSUME NEW b \in Admins, AclSteps(b)
      PROVE  job'[a] = job[a] /\ pc'[a] = pc[a]
  BY <1>5 DEF AclSteps, GrantCheck, GrantUnknown, FindShare, AtFind, FindShareUnknown,
              GrantInsert, GrantPublic, RevokeRemove, SetMode, SetModeNoChange
<1> QED BY <1>1, <1>2, <1>3, <1>4, <1>5 DEF ConfigNext, AdminStep

(* A call that is about to sweep keeps its arguments until it does.        *)
LEMMA SweepWaits ==
    ASSUME TypeOK, [ConfigNext]_configVars, NEW a \in Admins, pc[a] = "sweep"
    PROVE  job'[a] = job[a] /\ pc'[a] \in {"sweep", "sweeping"}
<1> USE DEF TypeOK, At, Goto, Return
<1>1. CASE UNCHANGED configVars
  BY <1>1 DEF configVars
<1>2. ASSUME NEW b \in Admins, Call(b) \/ ListLive(b) \/ SweepDone(b)
      PROVE  job'[a] = job[a] /\ pc'[a] \in {"sweep", "sweeping"}
  BY <1>2 DEF Call, ListLive, SweepDone
<1>3. ASSUME NEW b \in Admins, UserSteps(b)
      PROVE  job'[a] = job[a] /\ pc'[a] = "sweep"
  BY <1>3 DEF UserSteps, AddUser, RemoveUser, RemoveUserUnknown, RemoveUserSnapshot,
              RemoveUserAcl, RemoveUserCleaned
<1>4. ASSUME NEW b \in Admins, ShareSteps(b)
      PROVE  job'[a] = job[a] /\ pc'[a] = "sweep"
  BY <1>4 DEF ShareSteps, AddShareRejected, AddShareCheck, AddShareInsert,
              AddShareDuplicate, RemoveShare, RemoveShareUnknown
<1>5. ASSUME NEW b \in Admins, AclSteps(b)
      PROVE  job'[a] = job[a] /\ pc'[a] = "sweep"
  BY <1>5 DEF AclSteps, GrantCheck, GrantUnknown, FindShare, AtFind, FindShareUnknown,
              GrantInsert, GrantPublic, RevokeRemove, SetMode, SetModeNoChange
<1> QED BY <1>1, <1>2, <1>3, <1>4, <1>5 DEF ConfigNext, AdminStep

(* It still has to come to a session that stays established.               *)
LEMMA RemovalStays ==
    ASSUME TypeOK, DataTypes, Owned, Carried, Nested, Handed, WorkOfSweep, [Next]_vars,
           NEW s \in Sessions, Established(s), Established(s)', RemovalPending(s)
    PROVE  RemovalPending(s)'
<1> USE ObjectTypes
<1>1. PICK a \in Admins :
        /\ job[a].op = "remove_user" /\ job[a].user = suser[s]
        /\ \/ pc[a] \in {"snapshot", "clean", "sweep"}
           \/ pc[a] = "sweeping" /\ (s[1] \in w[a].conns \/ s \in w[a].sids)
  BY DEF RemovalPending, SessionDue
<1>2. /\ suser'[s] = suser[s] /\ sst[s] = "live" /\ sst'[s] = "live"
      /\ conn[s[1]] = "on"
  BY Lasting DEF Established
<1>3. CASE pc[a] \in {"snapshot", "clean", "sweep"}
  <2>1. /\ job'[a] = job[a]
        /\ \/ pc'[a] \in {"snapshot", "clean", "sweep"}
           \/ pc[a] = "sweep" /\ pc'[a] = "sweeping"
    BY <1>1, <1>3, ConfigPart, RemovalGoesOn
  <2>2. pc[a] = "sweep" /\ pc'[a] = "sweeping" => s[1] \in w'[a].conns
    BY <1>2, CallFrame, ListWork
  <2> QED BY <1>1, <1>2, <2>1, <2>2 DEF RemovalPending, SessionDue
<1>4. CASE pc[a] = "sweeping" /\ (s[1] \in w[a].conns \/ s \in w[a].sids)
  <2>1. w[a] # NoWork
    BY <1>4 DEF NoWork
  <2>2. pc'[a] = "sweeping" /\ job'[a] = job[a]
    BY <1>4, <2>1, CallFrame DEF ReturnSwept
  <2>3. s[1] \in w'[a].conns \/ s \in w'[a].sids
    BY <1>1, <1>2, <1>4, SessionStillDue
  <2> QED BY <1>1, <1>2, <2>2, <2>3 DEF RemovalPending, SessionDue
<1> QED BY <1>1, <1>3, <1>4

(* Every step keeps that only late sessions outlive their user.            *)
LEMMA StepOnlyLateSessions ==
    ASSUME TypeOK, DataTypes, Owned, Carried, Nested, Handed, ConnUsed, WorkOfSweep,
           OnlyLateSessions, [Next]_vars
    PROVE  OnlyLateSessions'
<1> USE ObjectTypes
<1> SUFFICES ASSUME NEW s \in Sessions, Established(s)', suser'[s] # Anonymous
             PROVE  suser'[s] \in users' \/ s \in late' \/ RemovalPending(s)'
  BY DEF OnlyLateSessions
<1>1. CASE sst[s] = "free"
  <2>1. sst'[s] = "live"
    BY DEF Established
  <2>2. PICK c \in Conns : SetupInsert(c)
    <3>1. ASSUME NEW p \in Actors, NEW x \in Sessions, CloseSession(p, x)
          PROVE  FALSE
      BY <1>1, <2>1, <3>1 DEF CloseSession, DataTypes
    <3>2. ASSUME NEW p \in Actors,
                 \/ DrainSession(p)
                 \/ \E t \in Trees : RemoveTree(p, t) \/ DrainTree(p, t)
                 \/ \E o \in Opens : CloseDrained(p, o)
          PROVE  FALSE
      BY <1>1, <2>1, <3>2 DEF DrainSession, RemoveTree, DrainTree, CloseDrained
    <3>3. ASSUME NEW c \in Conns, LoudStep(c)
          PROVE  SetupInsert(c)
      BY <1>1, <2>1, <3>3 DEF LoudStep, TreeInsert, CreateOpen, CreateInsert,
                              CloseRemove, CloseTake, CloseHandle
    <3> QED BY <1>1, <2>1, <3>1, <3>2, <3>3, TablesFrame
  <2>3. PICK x \in Fresh(c, sst) :
            /\ sst' = [sst EXCEPT ![x] = "live"]
            /\ suser' = [suser EXCEPT ![x] = h[c].user]
            /\ late' = IF h[c].user \in users \cup {Anonymous} THEN late
                                                               ELSE late \cup {x}
    BY <2>2 DEF SetupInsert
  <2>4. x = s
    BY <1>1, <2>1, <2>3 DEF DataTypes
  <2>5. users' = users
    BY <2>2 DEF SetupInsert, configVars
  <2> QED BY <2>3, <2>4, <2>5 DEF DataTypes
<1>2. CASE sst[s] # "free"
  <2>1. Established(s) /\ suser'[s] = suser[s]
    BY <1>2, EstablishedBefore, Lasting
  <2>2. CASE suser[s] \in users
    <3>1. CASE suser[s] \in users'
      BY <2>1, <3>1
    <3>2. CASE suser[s] \notin users'
      <4>1. PICK a \in Admins : /\ job'[a].op = "remove_user" /\ job'[a].user = suser[s]
                                /\ pc'[a] = "snapshot"
        BY <2>2, <3>2, ConfigPart, UsersFrame
      <4> QED BY <2>1, <4>1 DEF RemovalPending, SessionDue
    <3> QED BY <3>1, <3>2
  <2>3. CASE s \in late
    BY <2>3, LateGrows
  <2>4. CASE RemovalPending(s)
    BY <2>1, <2>4, RemovalStays
  <2> QED BY <2>1, <2>2, <2>3, <2>4 DEF OnlyLateSessions
<1> QED BY <1>1, <1>2

(* A right is withdrawn by a call that has then to close what depends on   *)
(* it.                                                                     *)
Withdraws(a, b, id) ==
    \/ job'[a].op = "remove_user" /\ job'[a].user = id /\ pc'[a] = "clean"
    \/ /\ job'[a].op \in TreeOps /\ job'[a].share = bname'[b] /\ pc'[a] = "sweep"
       /\ job'[a].op = "revoke_share_user" => job'[a].user = id

(* A right is lost only by a call that withdraws it.                       *)
LEMMA AllowedStays ==
    ASSUME ConfigInv, NamesKept, [ConfigNext]_configVars,
           NEW b \in Bindings, NEW id \in Identities, Allowed(b, id)
    PROVE  Allowed(b, id)' \/ \E a \in Admins : Withdraws(a, b, id)
<1>t. TypeOK /\ BindFound
  BY DEF ConfigInv, TypeInv
<1>n. PICK n \in Names : shares[n] = b /\ bname[b] = n
  BY NoneAssumption DEF Allowed, Listed, NamesKept, TypeOK
<1>a. Authorize(b, id) # None
  BY DEF Allowed
<1>1. CASE UNCHANGED <<shares, acl>>
  BY <1>1 DEF Allowed, Listed, Authorize
<1> SUFFICES ASSUME NEW a \in Admins, Call(a) \/ AdminStep(a)
             PROVE  Allowed(b, id)' \/ \E x \in Admins : Withdraws(x, b, id)
  BY <1>1 DEF ConfigNext, configVars
<1>j. /\ job[a] \in Jobs /\ acl[b] \in ShareAcl /\ None \notin Access
      /\ acl \in [Bindings -> ShareAcl]
      /\ job[a].op \in {"add_share", "remove_share", "revoke_share_user",
                        "set_share_mode", "grant_share_user"} => job[a].share \in Names
      /\ job[a].op = "grant_share_user" => job[a].user \in Users
  BY <1>t, NoneAssumption, RequestTypes DEF TypeOK, ConfigInv, TypeInv, JobsMade
(* The binding a call has found is b only if the call is about its name.   *)
<1>b. pc[a] = "acl" => bind[a] \in Bindings /\ bname[bind[a]] = job[a].share
  BY <1>t DEF BindFound, NamesKept
<1>2. CASE RemoveShare(a)
  <2>1. CASE job[a].share = n
    BY <1>n, <1>2, <1>t, <2>1 DEF RemoveShare, At, Goto, Withdraws,
              TypeOK, TreeOps, SweepOps
  <2>2. CASE job[a].share # n
    <3>1. shares'[n] = b /\ UNCHANGED acl
      BY <1>n, <1>2, <1>t, <2>2 DEF RemoveShare, TypeOK
    <3> QED BY <1>a, <3>1 DEF Allowed, Listed, Authorize
  <2> QED BY <2>1, <2>2
<1>3. ASSUME NEW x \in Bindings, AddShareInsert(a, x)
      PROVE  Allowed(b, id)'
  <2>1. x # b /\ job[a].share # n
    BY <1>n, NoneAssumption, <1>3 DEF AddShareInsert, Unreferenced, Listed
  <2>2. shares'[n] = b /\ acl'[b] = acl[b]
    BY <1>n, <1>3, <1>t, <2>1 DEF AddShareInsert, TypeOK
  <2> QED BY <1>a, <2>2 DEF Allowed, Listed, Authorize
<1>4. ASSUME NEW x \in Bindings, RemoveUserAcl(a, x)
      PROVE  Allowed(b, id)' \/ Withdraws(a, b, id)
  <2>1. /\ acl' = [acl EXCEPT ![x].users[job[a].user] = None]
        /\ UNCHANGED <<shares, pc, job>> /\ job[a].op = "remove_user" /\ pc[a] = "clean"
    BY <1>4 DEF RemoveUserAcl, At
  <2>2. CASE job[a].user = id
    BY <2>1, <2>2 DEF Withdraws
  <2>3. CASE job[a].user # id
    <3>1. /\ acl'[b].mode = acl[b].mode
          /\ id \in Users => acl'[b].users[id] = acl[b].users[id]
      BY <1>j, <2>1, <2>3 DEF ShareAcl, Grants
    <3> QED BY <1>a, <2>1, <3>1 DEF Allowed, Listed, Authorize, Identities
  <2> QED BY <2>2, <2>3
<1>5. CASE GrantInsert(a)
  <2>1. /\ acl' = [acl EXCEPT ![bind[a]].users[job[a].user] = job[a].access]
        /\ UNCHANGED shares /\ job[a].user \in Users
    BY <1>5, <1>j DEF GrantInsert, At
  <2>2. job[a].access # None
    BY <1>j DEF Jobs
  <2>3. /\ acl'[b].mode = acl[b].mode
        /\ id \in Users => acl'[b].users[id] \in {acl[b].users[id], job[a].access}
    BY <1>j, <2>1 DEF ShareAcl, Grants
  <2> QED BY <1>a, <2>1, <2>2, <2>3 DEF Allowed, Listed, Authorize, Identities
<1>6. CASE RevokeRemove(a)
  <2>1. /\ acl' = [acl EXCEPT ![bind[a]].users[job[a].user] = None]
        /\ UNCHANGED <<shares, bname, job>> /\ job[a].op = "revoke_share_user"
        /\ pc[a] = "acl" /\ pc'[a] = "sweep"
    BY <1>6, <1>t DEF RevokeRemove, At, Goto, TypeOK
  <2>2. CASE job[a].user = id /\ bind[a] = b
    BY <1>b, <2>1, <2>2 DEF Withdraws, TreeOps, SweepOps
  <2>3. CASE job[a].user # id \/ bind[a] # b
    <3>1. /\ acl'[b].mode = acl[b].mode
          /\ id \in Users => acl'[b].users[id] = acl[b].users[id]
      BY <1>j, <1>b, <2>1, <2>3 DEF ShareAcl, Grants
    <3> QED BY <1>a, <2>1, <3>1 DEF Allowed, Listed, Authorize, Identities
  <2> QED BY <2>2, <2>3
<1>7. CASE SetMode(a)
  <2>1. /\ acl' = [acl EXCEPT ![bind[a]].mode = job[a].mode]
        /\ UNCHANGED <<shares, bname, job>> /\ job[a].op = "set_share_mode"
        /\ pc[a] = "acl" /\ pc'[a] = "sweep"
    BY <1>7, <1>t DEF SetMode, At, Goto, TypeOK
  <2>2. CASE bind[a] = b
    BY <1>b, <2>1, <2>2 DEF Withdraws, TreeOps, SweepOps
  <2>3. CASE bind[a] # b
    <3>1. acl'[b] = acl[b]
      BY <1>j, <1>b, <2>1, <2>3
    <3> QED BY <1>a, <2>1, <3>1 DEF Allowed, Listed, Authorize
  <2> QED BY <2>2, <2>3
<1>8. \/ RemoveShare(a) \/ GrantInsert(a) \/ RevokeRemove(a) \/ SetMode(a)
      \/ \E x \in Bindings : AddShareInsert(a, x) \/ RemoveUserAcl(a, x)
      \/ UNCHANGED <<shares, acl>>
  BY DEF AdminStep, UserSteps, ShareSteps, AclSteps, Call, AddUser, RemoveUser,
         RemoveUserUnknown, RemoveUserSnapshot, RemoveUserCleaned,
         AddShareRejected, AddShareCheck, AddShareDuplicate,
         RemoveShareUnknown, GrantCheck, GrantUnknown, FindShare,
         FindShareUnknown, GrantPublic, SetModeNoChange, ListLive, SweepDone
<1> QED BY <1>1, <1>2, <1>3, <1>4, <1>5, <1>6, <1>7, <1>8

(* Every step keeps that only late trees outlive their grant or share.     *)
LEMMA StepOnlyLateTrees ==
    ASSUME ConfigInv, DataTypes, Owned, Carried, Nested, Handed, ConnUsed, WorkOfSweep,
           NamesKept, OnlyLateTrees, [Next]_vars
    PROVE  OnlyLateTrees'
<1> USE ObjectTypes
<1>t. TypeOK
  BY DEF ConfigInv, TypeInv
<1> SUFFICES ASSUME NEW t \in Trees, EstablishedTree(t)'
             PROVE  \/ \E b \in Bindings, id \in Identities :
                        b = tbind'[t] /\ id = suser'[tsess'[t]] /\ Allowed(b, id)'
                    \/ t \in late'
                    \/ ClosePending(t)'
                    \/ \E s \in Sessions : s = tsess'[t] /\ RemovalPending(s)'
  BY DEF OnlyLateTrees, Allowed, RemovalPending, SessionDue
<1>1. CASE tst[t] = "free"
  <2>1. tst'[t] = "live"
    BY DEF EstablishedTree
  <2>2. PICK c \in Conns : TreeInsert(c)
    <3>1. ASSUME NEW p \in Actors, NEW x \in Trees, RemoveTree(p, x)
          PROVE  FALSE
      BY <1>1, <2>1, <3>1 DEF RemoveTree, DataTypes
    <3>2. ASSUME NEW p \in Actors,
                 \/ \E s \in Sessions : CloseSession(p, s)
                 \/ DrainSession(p)
                 \/ \E x \in Trees : DrainTree(p, x)
                 \/ \E o \in Opens : CloseDrained(p, o)
          PROVE  FALSE
      BY <1>1, <2>1, <3>2 DEF CloseSession, DrainSession, DrainTree, CloseDrained
    <3>3. ASSUME NEW c \in Conns, LoudStep(c)
          PROVE  TreeInsert(c)
      BY <1>1, <2>1, <3>3 DEF LoudStep, SetupInsert, CreateOpen, CreateInsert,
                              CloseRemove, CloseTake, CloseHandle
    <3> QED BY <1>1, <1>t, <2>1, <3>1, <3>2, <3>3, TablesFrame
  <2>3. PICK x \in Fresh(c, tst) :
            /\ tst' = [tst EXCEPT ![x] = "live"]
            /\ tsess' = [tsess EXCEPT ![x] = h[c].sess]
            /\ tbind' = [tbind EXCEPT ![x] = h[c].bind]
            /\ late' = IF Allowed(h[c].bind, h[c].user) THEN late ELSE late \cup {x}
    BY <2>2 DEF TreeInsert
  <2>4. x = t
    BY <1>1, <2>1, <2>3 DEF DataTypes
  <2>5. UNCHANGED <<shares, acl, suser>>
    BY <2>2 DEF TreeInsert, configVars
  <2>6. /\ h[c].user = suser[h[c].sess] /\ h[c].sess \in Sessions
        /\ sst[h[c].sess] # "free" /\ h[c].bind \in Bindings
    BY <2>2 DEF TreeInsert, HAt, Carried, CarriedBy, TreePCs
  <2>7. h[c].user \in Identities
    BY <2>6 DEF Owned
  <2>8. tbind'[t] = h[c].bind /\ tsess'[t] = h[c].sess
    BY <2>3, <2>4 DEF DataTypes
  <2>9. ASSUME NEW b \in Bindings, NEW id \in Identities, Allowed(b, id)
        PROVE  Allowed(b, id)'
    BY <2>5, <2>9 DEF Allowed, Listed, Authorize
  <2>10. CASE Allowed(h[c].bind, h[c].user)
    BY <2>5, <2>6, <2>7, <2>8, <2>9, <2>10
  <2>11. CASE ~Allowed(h[c].bind, h[c].user)
    BY <2>3, <2>4, <2>11
  <2> QED BY <2>10, <2>11
<1>2. CASE tst[t] # "free"
  <2>1. PICK s \in Sessions, b \in Bindings, id \in Identities :
            /\ s = tsess[t] /\ b = tbind[t] /\ id = suser[s]
            /\ EstablishedTree(t) /\ s[1] = t[1]
            /\ sst[s] = "live" /\ conn[t[1]] = "on"
            /\ tsess'[t] = s /\ tbind'[t] = b /\ suser'[s] = id
            /\ sst'[s] = "live" /\ conn'[t[1]] = "on"
            /\ bname'[b] = bname[b]
    <3>1. tsess[t] \in Sessions /\ sst[tsess[t]] # "free" /\ tbind[t] \in Bindings
      BY <1>2 DEF Owned
    <3>2. suser[tsess[t]] \in Identities
      BY <3>1 DEF Owned
    <3> QED BY <1>2, <1>t, <3>1, <3>2, TreeBefore
  <2>2. CASE Allowed(b, id)
    <3>1. CASE Allowed(b, id)'
      BY <2>1, <3>1
    <3>2. ASSUME NEW a \in Admins, Withdraws(a, b, id)
          PROVE  ClosePending(t)' \/ RemovalPending(s)'
      BY <2>1, <3>2 DEF Withdraws, ClosePending, TreeDue, RemovalPending, SessionDue,
                            TreeOps, SweepOps
    <3> QED BY <2>1, <2>2, <3>1, <3>2, ConfigPart, AllowedStays
  <2>3. CASE t \in late
    BY <1>t, <2>3, LateGrows
  <2>4. CASE RemovalPending(s)
    <3>1. Established(s) /\ Established(s)'
      BY <2>1 DEF Established
    <3> QED BY <1>t, <2>1, <2>4, <3>1, RemovalStays
  <2>5. CASE ClosePending(t)
    <3>1. PICK a \in Admins :
            /\ About(a, t)
            /\ \/ pc[a] = "sweep"
               \/ /\ pc[a] = "sweeping"
                  /\ t[1] \in w[a].conns \/ s \in w[a].scan \/ t \in w[a].rm
      BY <2>1, <2>5 DEF ClosePending, TreeDue, About, TreeOps, SweepOps
    <3>2. ASSUME job'[a] = job[a]
          PROVE  About(a, t)'
      BY <2>1, <3>1, <3>2 DEF About
    <3>3. ASSUME job'[a] = job[a], pc'[a] = "sweep" \/
                    (pc'[a] = "sweeping" /\
                       (t[1] \in w'[a].conns \/ s \in w'[a].scan \/ t \in w'[a].rm))
          PROVE  ClosePending(t)'
      BY <2>1, <3>2, <3>3 DEF ClosePending, TreeDue, About, TreeOps, SweepOps
    <3>4. CASE pc[a] = "sweep"
      <4>1. job'[a] = job[a] /\ (pc'[a] = "sweep" \/ ListConnections(a))
        BY <1>t, <3>4, ConfigPart, SweepWaits, CallFrame
      <4>2. ListConnections(a) => pc'[a] = "sweeping" /\ t[1] \in w'[a].conns
        BY <1>t, <2>1, ListWork DEF ListConnections, ListLive, Goto, TypeOK
      <4> QED BY <3>3, <4>1, <4>2
    <3>5. CASE /\ pc[a] = "sweeping"
               /\ t[1] \in w[a].conns \/ s \in w[a].scan \/ t \in w[a].rm
      <4>1. w[a] # NoWork
        BY <3>5 DEF NoWork
      <4>2. pc'[a] = "sweeping" /\ job'[a] = job[a]
        BY <1>t, <3>5, <4>1, CallFrame DEF ReturnSwept
      <4>3. tst[t] = "live" /\ tst'[t] = "live"
        BY <2>1 DEF EstablishedTree
      <4>4. t[1] \in w'[a].conns \/ s \in w'[a].scan \/ t \in w'[a].rm
        BY <1>t, <2>1, <3>1, <3>5, <4>3, TreeStillDue
      <4> QED BY <3>3, <4>2, <4>4
    <3> QED BY <3>1, <3>4, <3>5
  <2> QED BY <2>1, <2>2, <2>3, <2>4, <2>5 DEF OnlyLateTrees
<1> QED BY <1>1, <1>2

-----------------------------------------------------------------------------
(* The invariant, and what follows from it.                                *)

(* The inductive invariant holds at the start.                             *)
LEMMA InitSmbInv == Init => SmbInv
<1> SUFFICES ASSUME Init PROVE SmbInv
  OBVIOUS
<1> USE ObjectTypes
<1>1. ConfigInv
  BY InitConfigInv DEF Init
<1>2. DataTypes
  BY InitDataTypes DEF Init
<1>3. /\ \A c \in Conns : h[c].pc = "idle"
      /\ \A s \in Sessions : sst[s] = "free"
      /\ \A t \in Trees : tst[t] = "free"
      /\ \A o \in Opens : ost[o] = "free" /\ ~oreg[o] /\ otree[o] = None
      /\ \A p \in Actors : w[p] = NoWork
      /\ \A a \in Admins : doomed[a] = {}
  BY IdleType DEF Init, DataInit
<1>4. ConnUsed /\ Owned /\ Carried
  BY <1>3 DEF ConnUsed, Owned, Carried, CarriedBy, HAt, TreePCs, OpenPCs
<1>5. \A p \in Actors :
        /\ w[p].conns = {} /\ w[p].sids = {} /\ w[p].scan = {} /\ w[p].rm = {}
        /\ w[p].removed = None /\ w[p].lockT = None /\ w[p].drained = {}
        /\ w[p].opens = {}
  BY <1>3 DEF NoWork
<1>6. Nested /\ WorkOfClient
  BY <1>3, <1>5 DEF Nested, NestedIn, WorkOfClient
<1>7. \A a \in Admins : pc[a] = "idle"
  BY DEF Init, ConfigInit
<1>8. WorkOfSweep /\ DoomedPending
  BY <1>3, <1>5, <1>7 DEF WorkOfSweep, DoomedPending
<1>9. Handed /\ NoIoAfterClose /\ UsedTrees /\ Reached
  BY <1>3, <1>5 DEF Handed, NoIoAfterClose, UsedTrees, Reached, HAt
<1>10. NamesKept
  BY <1>7 DEF Init, ConfigInit, NamesKept
<1>11. OnlyLateSessions /\ OnlyLateTrees
  BY <1>3 DEF OnlyLateSessions, OnlyLateTrees, Established, EstablishedTree
<1> QED BY <1>1, <1>2, <1>4, <1>6, <1>8, <1>9, <1>10, <1>11 DEF SmbInv

(* Every step keeps the inductive invariant.                               *)
LEMMA StepSmbInv == SmbInv /\ [Next]_vars => SmbInv'
<1> SUFFICES ASSUME SmbInv, [Next]_vars PROVE SmbInv'
  OBVIOUS
<1>1. /\ ConfigInv /\ DataTypes /\ ConnUsed /\ Owned /\ Carried /\ Nested
      /\ WorkOfClient /\ WorkOfSweep /\ Handed /\ NoIoAfterClose /\ NamesKept
      /\ DoomedPending /\ OnlyLateSessions /\ OnlyLateTrees /\ UsedTrees /\ Reached
      /\ TypeOK
  BY DEF SmbInv, ConfigInv, TypeInv
<1>2. ConfigInv'
  BY <1>1, ConfigPart, StepConfigInv
<1>3. DataTypes' /\ ConnUsed' /\ Owned' /\ Carried' /\ Nested'
  BY <1>1, StepDataTypes, StepConnUsed, StepOwned, StepCarried, StepNested
<1>4. WorkOfClient' /\ WorkOfSweep'
  BY <1>1, StepWorkOfClient, StepWorkOfSweep
<1>5. Handed' /\ NoIoAfterClose'
  BY <1>1, StepHanded
<1>6. NamesKept' /\ DoomedPending'
  BY <1>1, ConfigPart, StepNamesKept, StepDoomedPending
<1>7. OnlyLateSessions' /\ OnlyLateTrees'
  BY <1>1, StepOnlyLateSessions, StepOnlyLateTrees
<1>8. UsedTrees' /\ Reached'
  BY <1>1, StepUsedTrees, StepReached
<1> QED BY <1>2, <1>3, <1>4, <1>5, <1>6, <1>7, <1>8 DEF SmbInv

(* The inductive invariant holds always.                                   *)
LEMMA SmbInvariant == Spec => []SmbInv
BY InitSmbInv, StepSmbInv, PTL DEF Spec

(* Every variable has its type, and what outlives its right - a session    *)
(* its user, a tree the grant or the share - does so through a request     *)
(* that was past its check when the right was withdrawn, or has a call on  *)
(* its way to close it (session_setup.rs, tree_connect.rs, server.rs).     *)
THEOREM OnlyLateOutlive == Spec => []OnlyLate
<1>1. SmbInv => OnlyLate
  BY DEF SmbInv, OnlyLate, DataTypeOK, DataTypes, ConfigInv, TypeInv
<1> QED BY <1>1, SmbInvariant, PTL

(* When a revoking call is about to return, everything it found            *)
(* established when it listed the connections is gone from the tables,     *)
(* whatever clients and other calls did meanwhile (server.rs).             *)
THEOREM SweepsComplete == Spec => []SweepComplete
<1>1. SmbInv => SweepComplete
  BY DEF SmbInv, SweepComplete, DoomedPending, NoWork
<1> QED BY <1>1, SmbInvariant, PTL

(* The backend never works on a handle that was closed under a request in  *)
(* flight (state.rs close_tree_state; read.rs, write.rs, flush.rs).        *)
THEOREM IoOnOpenHandles == Spec => []NoIoAfterClose
<1>1. SmbInv => NoIoAfterClose
  BY DEF SmbInv
<1> QED BY <1>1, SmbInvariant, PTL

(* No handle is closed twice: of the tree's table, the closing actors and  *)
(* the CLOSE handler at most one has it (state.rs, close.rs).              *)
THEOREM OneOwnerAlways == Spec => []OneOwner
<1>1. ASSUME SmbInv PROVE OneOwner
  <2>1. Handed /\ \A o \in Opens : o[1] \in Conns
    BY <1>1, ObjectTypes DEF SmbInv
  <2> QED BY <2>1 DEF Handed, OneOwner, HAt
<1> QED BY <1>1, SmbInvariant, PTL

(* No open handle of a connected client is out of everybody's reach,       *)
(* although a sweep empties the tables it could be found through while     *)
(* requests register handles in them (state.rs, create.rs).                *)
THEOREM HandlesReachable == Spec => []NoLeakedHandle
<1>1. ASSUME SmbInv PROVE NoLeakedHandle
  <2> USE ObjectTypes
  <2>0. DataTypes /\ Owned /\ UsedTrees /\ Reached
    BY <1>1 DEF SmbInv
  <2> SUFFICES ASSUME NEW o \in Opens, ost[o] = "open", conn[o[1]] = "on"
               PROVE  \/ oreg[o] /\ EstablishedTree(otree[o])
                      \/ Held(o)
                      \/ \E p \in Actors :
                            \/ o \in w[p].opens
                            \/ otree[o] \in w[p].drained
                            \/ tsess[otree[o]] = w[p].removed
    BY DEF NoLeakedHandle, Held
  <2>1. /\ otree[o] \in Trees /\ otree[o][1] = o[1]
        /\ tsess[otree[o]] \in Sessions /\ tsess[otree[o]][1] = o[1]
    BY <2>0 DEF Owned
  <2>2. oreg[o] \/ Held(o) \/ \E p \in Actors : o \in w[p].opens
    BY <2>0 DEF Reached
  <2>3. CASE oreg[o] /\ tst[otree[o]] = "live"
    <3>1. Used(otree[o])
      BY DEF Used
    <3>2. sst[tsess[otree[o]]] = "live" \/ Doomed(tsess[otree[o]])
      BY <2>0, <2>1, <2>3, <3>1 DEF UsedTrees
    <3> QED BY <2>1, <2>3, <3>2 DEF EstablishedTree, Established, Doomed
  <2>4. CASE oreg[o] /\ tst[otree[o]] # "live"
    BY <2>0, <2>4 DEF Reached
  <2> QED BY <2>2, <2>3, <2>4
<1> QED BY <1>1, SmbInvariant, PTL

(* A session ends by its own client's LOGOFF or the removal of its own     *)
(* user, a tree with its session, by its client's TREE_DISCONNECT or by a  *)
(* call about its share and user (close_sessions_for_user,                 *)
(* close_matching_trees): in every step, a sweep spares all others.        *)
THEOREM SweepsSpare == Spec => SweepsSpareOthers
<1> DEFINE Spares ==
        /\ \A s \in Sessions : sst[s] = "live" /\ sst'[s] # "live" =>
             HAt(s[1], "closing") \/ \E a \in Admins : SweepsSession(a, s)
        /\ \A t \in Trees : tst[t] = "live" /\ tst'[t] # "live" =>
             \/ HAt(t[1], "closing") \/ sst[tsess[t]] = "closed"
             \/ \E a \in Admins : SweepsTree(a, t)
<1>1. ASSUME SmbInv, [Next]_vars PROVE Spares
  <2> USE ObjectTypes
  <2>0. /\ TypeOK /\ DataTypes /\ Owned /\ Carried /\ Nested
        /\ WorkOfClient /\ WorkOfSweep
    BY <1>1 DEF SmbInv, ConfigInv, TypeInv
  <2>1. ASSUME NEW s \in Sessions, sst[s] = "live", sst'[s] # "live"
        PROVE  HAt(s[1], "closing") \/ \E a \in Admins : SweepsSession(a, s)
    <3>1. PICK p \in Actors : CloseSession(p, s)
      <4>1. ASSUME NEW p \in Actors, NEW x \in Sessions, CloseSession(p, x)
            PROVE  CloseSession(p, s)
        BY <2>0, <2>1, <4>1 DEF CloseSession, DataTypes
      <4>2. ASSUME NEW p \in Actors,
                   \/ DrainSession(p)
                   \/ \E x \in Trees : RemoveTree(p, x) \/ DrainTree(p, x)
                   \/ \E o \in Opens : CloseDrained(p, o)
            PROVE  FALSE
        BY <2>1, <4>2 DEF DrainSession, RemoveTree, DrainTree, CloseDrained
      <4>3. ASSUME NEW c \in Conns, LoudStep(c)
            PROVE  FALSE
        BY <2>0, <2>1, <4>3 DEF LoudStep, SetupInsert, TreeInsert, CreateOpen,
              CreateInsert, CloseRemove, CloseTake, CloseHandle, DataTypes, Fresh
      <4> QED BY <1>1, <2>0, <2>1, <4>1, <4>2, <4>3, TablesFrame
    <3>2. s \in w[p].sids /\ w[p] # NoWork
      BY <3>1 DEF CloseSession, NoWork
    <3>3. CASE p \in Conns
      BY <2>0, <3>2, <3>3 DEF WorkOfClient
    <3>4. CASE p \in Admins
      BY <2>0, <3>2, <3>4 DEF WorkOfSweep, SweepsSession
    <3> QED BY <3>3, <3>4 DEF Actors
  <2>2. ASSUME NEW t \in Trees, tst[t] = "live", tst'[t] # "live"
        PROVE  \/ HAt(t[1], "closing") \/ sst[tsess[t]] = "closed"
               \/ \E a \in Admins : SweepsTree(a, t)
    <3>1. \E p \in Actors : DrainSession(p) \/ RemoveTree(p, t)
      <4>1. ASSUME NEW p \in Actors, NEW x \in Trees, RemoveTree(p, x)
            PROVE  RemoveTree(p, t)
        BY <2>0, <2>2, <4>1 DEF RemoveTree, DataTypes
      <4>2. ASSUME NEW p \in Actors,
                   \/ \E s \in Sessions : CloseSession(p, s)
                   \/ \E x \in Trees : DrainTree(p, x)
                   \/ \E o \in Opens : CloseDrained(p, o)
            PROVE  FALSE
        BY <2>2, <4>2 DEF CloseSession, DrainTree, CloseDrained
      <4>3. ASSUME NEW c \in Conns, LoudStep(c)
            PROVE  FALSE
        BY <2>0, <2>2, <4>3 DEF LoudStep, SetupInsert, TreeInsert, CreateOpen,
              CreateInsert, CloseRemove, CloseTake, CloseHandle, DataTypes, Fresh
      <4> QED BY <1>1, <2>0, <2>2, <4>1, <4>2, <4>3, TablesFrame
    <3>2. ASSUME NEW p \in Actors, DrainSession(p)
          PROVE  sst[tsess[t]] = "closed"
      <4>1. tst' = [x \in Trees |-> IF tst[x] = "live" /\ tsess[x] = w[p].removed
                                      THEN "closed" ELSE tst[x]]
        BY <3>2 DEF DrainSession
      <4>2. tsess[t] = w[p].removed /\ w[p].removed # None
        BY <2>2, <3>2, <4>1 DEF DrainSession
      <4> QED BY <2>0, <4>2 DEF Nested, NestedIn
    <3>3. ASSUME NEW p \in Actors, RemoveTree(p, t)
          PROVE  HAt(t[1], "closing") \/ \E a \in Admins : SweepsTree(a, t)
      <4>1. t \in w[p].rm /\ w[p] # NoWork
        BY <3>3 DEF RemoveTree, NoWork
      <4>2. CASE p \in Conns
        BY <2>0, <4>1, <4>2 DEF WorkOfClient
      <4>3. CASE p \in Admins
        BY <2>0, <2>2, <4>1, <4>3 DEF WorkOfSweep, SweepsTree, About, TreeOps
      <4> QED BY <4>2, <4>3 DEF Actors
    <3> QED BY <3>1, <3>2, <3>3
  <2> QED BY <2>1, <2>2
<1>2. SmbInv /\ [Next]_vars => [Spares]_vars
  BY <1>1
<1> QED BY <1>2, SmbInvariant, PTL DEF Spec, SweepsSpareOthers

-----------------------------------------------------------------------------
(* The refinement of AccessControl.                                        *)

(* A request that has found a share has it under the name it asked for.    *)
FoundNamed ==
    \A c \in Conns : h[c].pc \in {"tree_auth", "tree_insert"} =>
        bname[h[c].bind] = h[c].share

(* The table of AccessControl is that of AccessTable.                      *)
LEMMA ServiceTable ==
    /\ Table!TableInit => Service!TableInit
    /\ \A a \in Admins : Table!TableStep(a) => Service!TableStep(a)
    /\ UNCHANGED Table!tableVars => UNCHANGED Service!tableVars
BY DEF Table!TableStep, Service!TableStep, Table!Begin, Service!Begin,
       Table!TakeEffect, Service!TakeEffect, Table!Refuse, Service!Refuse,
       Table!Miss, Service!Miss, Table!TakeRight, Service!TakeRight,
       Table!RightsTaken, Service!RightsTaken, Table!Finish, Service!Finish,
       Table!To, Service!To, Table!Effect, Service!Effect, Table!Permitted,
       Service!Permitted, Table!Losses, Service!Losses, Table!Debts, Service!Debts,
       Table!Holding, Service!Holding, Table!Then, Service!Then, Table!Giving,
       Service!Giving, Table!Added, Service!Added, Table!Sound, Service!Sound,
       Table!Named, Service!Named, Table!Open, Service!Open, Table!TableInit,
       Service!TableInit, Table!Shares, Service!Shares, Table!tableVars,
       Service!tableVars

(* A step that leaves the tables of the control plane alone.               *)
LEMMA ServiceTableKept ==
    ASSUME UNCHANGED configVars
    PROVE  UNCHANGED Service!tableVars
BY TableKept, ServiceTable

(* A session or a tree clients can use.                                    *)
Shown(x) == IF x \in Sessions THEN Established(x) ELSE EstablishedTree(x)

(* What the call of a has still to close.                                  *)
OnList(a, x) == IF x \in Sessions THEN SessionDue(a, x) ELSE TreeDue(a, x)

(* What clients see of a session, a tree and what is to be closed.         *)
ShownMeans ==
    /\ \A s \in Sessions :
        /\ LiveSessions[s] = IF Shown(s) THEN suser[s] ELSE None
        /\ Shown(s) <=> LiveSessions[s] # None
    /\ \A t \in Trees :
        /\ LiveTrees[t] =
             IF Shown(t) THEN [sess |-> tsess[t], share |-> bname[tbind[t]],
                               access |-> tacc[t]]
             ELSE NoTree
        /\ LiveTrees[t].sess = IF Shown(t) THEN tsess[t] ELSE None
        /\ Shown(t) => /\ tsess[t] \in Sessions /\ Shown(tsess[t])
                       /\ tsess[t][1] = t[1] /\ tbind[t] \in Bindings
    /\ Service!Live = {x \in Sessions \cup Trees : Shown(x)}
    /\ \A a \in Admins :
        Due[a] = {x \in Sessions \cup Trees : Shown(x) /\ OnList(a, x)}
    /\ \A c \in Conns :
        Leaving[c] = {x \in Sessions \cup Trees :
                        Shown(x) /\ x \in w[c].sids \cup w[c].rm}

LEMMA ShownNow == DataTypes /\ Owned => ShownMeans
<1> SUFFICES ASSUME DataTypes, Owned PROVE ShownMeans
  OBVIOUS
<1> USE ObjectTypes
<1>1. ASSUME NEW s \in Sessions
      PROVE  /\ LiveSessions[s] = IF Shown(s) THEN suser[s] ELSE None
             /\ Shown(s) <=> LiveSessions[s] # None
  <2>1. Shown(s) => suser[s] # None
    BY NoneAssumption, BoundAssumption DEF Shown, Established, Owned, Identities
  <2> QED BY <2>1 DEF LiveSessions, Shown
<1>2. ASSUME NEW t \in Trees
      PROVE  /\ LiveTrees[t] =
                  IF Shown(t) THEN [sess |-> tsess[t], share |-> bname[tbind[t]],
                                    access |-> tacc[t]]
                  ELSE NoTree
             /\ LiveTrees[t].sess = IF Shown(t) THEN tsess[t] ELSE None
             /\ Shown(t) => /\ tsess[t] \in Sessions /\ Shown(tsess[t])
                            /\ tsess[t][1] = t[1] /\ tbind[t] \in Bindings
  <2>1. t \notin Sessions /\ (Shown(t) <=> EstablishedTree(t))
    BY DEF Shown
  <2>2. Shown(t) => /\ tsess[t] \in Sessions /\ Shown(tsess[t])
                    /\ tsess[t][1] = t[1] /\ tbind[t] \in Bindings
    BY <2>1 DEF Shown, EstablishedTree, Owned
  <2>3. NoTree.sess = None
    BY DEF NoTree
  <2> QED BY <2>1, <2>2, <2>3 DEF LiveTrees
<1>3. Service!Live = {x \in Sessions \cup Trees : Shown(x)}
  <2>1. \A t \in Trees : t \notin Sessions /\ (Shown(t) <=> LiveTrees[t].sess # None)
    BY <1>2
  <2> QED BY <1>1, <2>1 DEF Service!Live, Service!IsLive
<1>4. ASSUME NEW a \in Admins
      PROVE  Due[a] = {x \in Sessions \cup Trees : Shown(x) /\ OnList(a, x)}
  BY DEF Due, Shown, OnList
<1>5. ASSUME NEW c \in Conns
      PROVE  Leaving[c] = {x \in Sessions \cup Trees :
                             Shown(x) /\ x \in w[c].sids \cup w[c].rm}
  <2>1. w[c] \in Work
    BY DEF DataTypes
  <2> QED BY <2>1 DEF Leaving, Shown, Work
<1> QED BY <1>1, <1>2, <1>3, <1>4, <1>5 DEF ShownMeans

(* It is so after a step as well.                                          *)
LEMMA ShownThen == (DataTypes /\ Owned)' => ShownMeans'
BY ShownNow, PTL

(* A tree that clients see keeps the name of its share.                    *)
LEMMA NamesStay ==
    ASSUME SmbInv, [Next]_vars, NEW t \in Trees, Shown(t)
    PROVE  bname'[tbind[t]] = bname[tbind[t]]
<1>1. TypeOK /\ DataTypes /\ Owned /\ Carried
  BY DEF SmbInv, ConfigInv, TypeInv
<1>2. tst[t] = "live" /\ conn[t[1]] = "on"
  BY <1>1, ObjectTypes DEF Shown, EstablishedTree, Established, Owned
<1> QED BY <1>1, <1>2, NameStays

(* Every step keeps requests with shares of the name they asked for.       *)
LEMMA StepFoundNamed ==
    ASSUME SmbInv, FoundNamed, [Next]_vars
    PROVE  FoundNamed'
<1>t. /\ TypeOK /\ DataTypes /\ Owned /\ Carried /\ NamesKept
  BY DEF SmbInv, ConfigInv, TypeInv
<1>1. ASSUME NEW c \in Conns, h[c].pc \in {"tree_auth", "tree_insert"}
      PROVE  bname'[h[c].bind] = h[c].share
  <2>1. bname[h[c].bind] = h[c].share
    BY <1>1 DEF FoundNamed
  <2>2. ASSUME NEW a \in Admins, NEW b \in Bindings, ~InUse(b), AddShareInsert(a, b)
        PROVE  bname'[h[c].bind] = bname[h[c].bind]
    <3>1. h[c].bind # b /\ h[c].bind \in Bindings
      BY <1>t, <1>1, <2>2 DEF InUse, Carried, CarriedBy
    <3> QED BY <1>t, <2>2, <3>1 DEF AddShareInsert, TypeOK
  <2> QED BY <1>t, <2>1, <2>2, NamesFrame
<1>2. CASE UNCHANGED h
  BY <1>1, <1>2 DEF FoundNamed
<1>3. ASSUME NEW c \in Conns, Handles(c),
             h'[c].pc \in {"tree_auth", "tree_insert"} =>
                bname'[h'[c].bind] = h'[c].share
      PROVE  FoundNamed'
  BY <1>1, <1>3 DEF FoundNamed, Handles
<1>4. ASSUME NEW c \in Conns, NewRequest(c)
      PROVE  FoundNamed'
  BY <1>3, <1>4, <1>t, RequestEffect DEF Asked
<1>5. ASSUME NEW c \in Conns, LoudStep(c)
      PROVE  FoundNamed'
  BY <1>3, <1>5, <1>t, LoudEffect
<1>6. ASSUME NEW c \in Conns, QuietStep(c)
      PROVE  FoundNamed'
  <2>1. Handles(c) /\ WentOn(c) /\ UNCHANGED bname
    BY <1>6, <1>t, QuietEffect DEF configVars
  <2>2. CASE HAt(c, "tree_find") /\ h'[c].pc = "tree_auth"
    <3>1. TreeFind(c)
      BY <1>6, <2>2, <1>t, EndHandles
         DEF QuietStep, AnonList, AnonRefused, AnonCheck, TreeAuthorize, ClosingDone,
             CreateFailed, IoLookup, IoBegin, IoEnd, HAt
    <3>2. h[c].share \in Names /\ h'[c].share = h[c].share
      BY <1>t, <2>1, <2>2 DEF Carried, CarriedBy, TreePCs, WentOn, HAt
    <3>3. h'[c].bind = shares[h[c].share] /\ shares[h[c].share] # None
      <4>1. /\ shares[h[c].share] # None
            /\ SetH(c, [h[c] EXCEPT !.pc = "tree_auth", !.bind = shares[h[c].share]])
        BY <3>1, <2>2, <1>t, EndHandles DEF TreeFind
      <4>2. h[c] \in Handler /\ h \in [Conns -> Handler]
        BY <1>t DEF DataTypes
      <4>3. h'[c] = [h[c] EXCEPT !.pc = "tree_auth", !.bind = shares[h[c].share]]
        BY <4>1, <4>2 DEF SetH
      <4> QED BY <4>1, <4>2, <4>3 DEF Handler
    <3>4. bname[h'[c].bind] = h[c].share
      BY <3>2, <3>3, <1>t DEF NamesKept
    <3> QED BY <1>3, <2>1, <3>2, <3>4
  <2>3. CASE HAt(c, "tree_auth") /\ h'[c].pc = "tree_insert"
    BY <1>1, <1>3, <2>1, <2>3 DEF WentOn, HAt
  <2> QED BY <1>3, <2>1, <2>2, <2>3 DEF WentOn
<1>7. ASSUME NEW c \in Conns, Connect(c) \/ Disconnect(c)
      PROVE  UNCHANGED h
  BY <1>7 DEF Connect, Disconnect
<1>8. ASSUME NEW p \in Actors, ClosingStep(p)
      PROVE  UNCHANGED h
  BY <1>8, <1>t, ClosingEffect
<1>9. ASSUME NEW a \in Admins, CallStep(a) \/ ConfigStep(a) \/ SweepStep(a)
      PROVE  UNCHANGED h
  BY <1>9 DEF CallStep, ConfigStep, SweepStep, ListConnections, SweepConnection,
              ScanSession, ReturnSwept, dataVars
<1>10. ASSUME NEW c \in Conns, HandlerStep(c)
       PROVE  QuietStep(c) \/ LoudStep(c)
  BY <1>10 DEF HandlerStep, QuietStep, LoudStep
<1> QED BY <1>2, <1>4, <1>5, <1>6, <1>7, <1>8, <1>9, <1>10 DEF Next, vars, dataVars

-----------------------------------------------------------------------------
(* Closing.                                                                *)

(* The objects xs go, with the trees of the sessions among them, from the  *)
(* tables; what is left is due as before.                                  *)
LEMMA Closes ==
    ASSUME SmbInv, SmbInv', [Next]_vars, NEW xs \in SUBSET (Sessions \cup Trees),
           UNCHANGED <<configVars, suser, tsess, tbind, tacc, h>>,
           \A x \in Sessions \cup Trees :
                Shown(x)' <=> Shown(x) /\ x \notin xs /\ (x \in Trees => tsess[x] \notin xs),
           \A q \in Actors : w'[q].conns = w[q].conns /\ w'[q].scan = w[q].scan,
           \A q \in Actors : \A x \in (Sessions \cup Trees) \ xs :
                /\ x \in w'[q].sids <=> x \in w[q].sids
                /\ x \in w'[q].rm <=> x \in w[q].rm
    PROVE  Service!Close(xs)
<1> USE ObjectTypes
<1>t. ShownMeans /\ ShownMeans'
  BY ShownNow, ShownThen DEF SmbInv
<1>1. LiveSessions' = [s \in Sessions |-> IF s \in xs THEN None ELSE LiveSessions[s]]
  <2>1. ASSUME NEW s \in Sessions
        PROVE  LiveSessions'[s] = IF s \in xs THEN None ELSE LiveSessions[s]
    BY <1>t DEF ShownMeans
  <2>2. LiveSessions' = [s \in Sessions |-> LiveSessions'[s]]
    BY DEF LiveSessions
  <2> QED BY <2>1, <2>2
<1>2. LiveTrees' = [t \in Trees |-> IF t \in xs \/ LiveTrees[t].sess \in xs
                                     THEN Service!NoTree ELSE LiveTrees[t]]
  <2>1. ASSUME NEW t \in Trees
        PROVE  LiveTrees'[t] = IF t \in xs \/ LiveTrees[t].sess \in xs
                                 THEN Service!NoTree ELSE LiveTrees[t]
    <3>1. Service!NoTree = NoTree /\ NoTree' = NoTree
      BY DEF Service!NoTree, NoTree
    <3>2. CASE Shown(t)
      <4>1. LiveTrees[t].sess = tsess[t]
        BY <1>t, <3>2 DEF ShownMeans
      <4>2. LiveTrees[t] = [sess |-> tsess[t], share |-> bname[tbind[t]],
                            access |-> tacc[t]]
        BY <1>t, <3>2 DEF ShownMeans
      <4>3. LiveTrees'[t] = IF Shown(t)' THEN [sess |-> tsess[t], share |-> bname[tbind[t]],
                                              access |-> tacc[t]] ELSE NoTree
        BY <1>t, <3>1 DEF ShownMeans, configVars
      <4> QED BY <3>1, <3>2, <4>1, <4>2, <4>3
    <3>3. CASE ~Shown(t)
      <4>1. LiveTrees[t] = NoTree /\ LiveTrees'[t] = NoTree
        BY <1>t, <3>1, <3>3 DEF ShownMeans
      <4> QED BY <3>1, <4>1
    <3> QED BY <3>2, <3>3
  <2>2. LiveTrees' = [t \in Trees |-> LiveTrees'[t]]
    BY DEF LiveTrees
  <2> QED BY <2>1, <2>2
<1>3. Leaving' = [c \in Conns |-> Leaving[c] \cap Service!Live']
  <2>1. ASSUME NEW c \in Conns
        PROVE  Leaving'[c] = Leaving[c] \cap Service!Live'
    <3>1. \A x \in Sessions \cup Trees : Shown(x)' => Shown(x) /\ x \notin xs
      OBVIOUS
    <3> QED BY <1>t, <3>1 DEF ShownMeans
  <2>2. Leaving' = [c \in Conns |-> Leaving'[c]]
    BY DEF Leaving
  <2> QED BY <2>1, <2>2
<1>4. Due' = [a \in Admins |-> Due[a] \cap Service!Live']
  <2>1. ASSUME NEW a \in Admins, NEW x \in Sessions \cup Trees, Shown(x)'
        PROVE  OnList(a, x)' <=> OnList(a, x)
    <3>1. x \notin xs
      BY <2>1
    <3>2. CASE x \in Sessions
      BY <3>1, <3>2 DEF OnList, SessionDue, configVars
    <3>3. CASE x \in Trees
      BY <3>1, <3>3 DEF OnList, TreeDue, configVars
    <3> QED BY <3>2, <3>3
  <2>2. ASSUME NEW a \in Admins
        PROVE  Due'[a] = Due[a] \cap Service!Live'
    <3>1. \A x \in Sessions \cup Trees : Shown(x)' => Shown(x)
      OBVIOUS
    <3>2. \A x \in Sessions \cup Trees : Shown(x)' => (OnList(a, x)' <=> OnList(a, x))
      BY <2>1
    <3> QED BY <1>t, <3>1, <3>2 DEF ShownMeans
  <2>3. Due' = [a \in Admins |-> Due'[a]]
    BY DEF Due
  <2> QED BY <2>2, <2>3
<1>5. UNCHANGED <<Service!tableVars, Asking, StaleRequests>>
  BY ServiceTableKept DEF Asking, RequestIn, StaleRequests, Stale, HAt, configVars
<1> QED BY <1>1, <1>2, <1>3, <1>4, <1>5 DEF Service!Close

(* When nothing that clients see goes, they see nothing.                   *)
LEMMA ClosesNothing ==
    ASSUME SmbInv, NEW xs \in SUBSET (Sessions \cup Trees), Service!Close(xs),
           \A x \in xs : ~Shown(x)
    PROVE  UNCHANGED Service!accessVars
<1> USE ObjectTypes
<1>t. ShownMeans
  BY ShownNow DEF SmbInv
<1>1. \A s \in Sessions : LiveSessions[s] = IF s \in xs THEN None ELSE LiveSessions[s]
  BY <1>t DEF ShownMeans
<1>2. UNCHANGED LiveSessions
  BY <1>1 DEF Service!Close, LiveSessions
<1>3. ASSUME NEW t \in Trees
      PROVE  LiveTrees[t] = IF t \in xs \/ LiveTrees[t].sess \in xs
                              THEN Service!NoTree ELSE LiveTrees[t]
  <2>1. CASE Shown(t)
    BY <1>t, <2>1 DEF ShownMeans
  <2>2. CASE ~Shown(t)
    BY <1>t, <2>2 DEF ShownMeans, Service!NoTree, NoTree
  <2> QED BY <2>1, <2>2
<1>4. UNCHANGED LiveTrees
  BY <1>3 DEF Service!Close, LiveTrees
<1>5. Service!Live' = Service!Live
  <2>1. \A x \in Sessions \cup Trees : Service!IsLive(x)' <=> Service!IsLive(x)
    BY <1>2, <1>4 DEF Service!IsLive
  <2> QED BY <2>1 DEF Service!Live
<1>6. /\ \A c \in Conns : Leaving[c] \cap Service!Live = Leaving[c]
      /\ \A a \in Admins : Due[a] \cap Service!Live = Due[a]
  BY <1>t DEF ShownMeans
<1>7. UNCHANGED <<Leaving, Due>>
  BY <1>5, <1>6 DEF Service!Close, Leaving, Due
<1> QED BY <1>2, <1>4, <1>7 DEF Service!Close, Service!accessVars, Service!clientVars

(* A session or tree that an actor is about to close, and clients see, is  *)
(* one its client has given up or a call has to take away.                 *)
LEMMA GivenUp ==
    ASSUME SmbInv, NEW p \in Actors, NEW x \in Sessions \cup Trees, Shown(x),
           x \in w[p].sids \/ x \in w[p].rm
    PROVE  /\ x \in Service!Live
           /\ p \in Conns => x \in Leaving[p]
           /\ p \in Admins => x \in Due[p]
<1> USE ObjectTypes
<1>t. ShownMeans /\ WorkOfSweep /\ WorkOfClient /\ DataTypes
  BY ShownNow DEF SmbInv
<1>1. x \in Service!Live
  BY <1>t DEF ShownMeans
<1>2. ASSUME p \in Conns
      PROVE  x \in Leaving[p]
  BY <1>t, <1>2 DEF ShownMeans
<1>3. ASSUME p \in Admins
      PROVE  x \in Due[p]
  <2>1. w[p] # NoWork /\ w[p] \in Work
    BY <1>t DEF NoWork, DataTypes
  <2>2. pc[p] = "sweeping"
    BY <1>t, <1>3, <2>1 DEF WorkOfSweep
  <2>3. CASE x \in Sessions
    <3>1. x \in w[p].sids
      BY <2>1, <2>3 DEF Work
    <3> QED BY <1>t, <1>3, <2>2, <2>3, <3>1 DEF WorkOfSweep, ShownMeans, OnList, SessionDue
  <2>4. CASE x \in Trees
    <3>1. x \in w[p].rm /\ tst[x] = "live" /\ x \notin Sessions
      BY <2>1, <2>4 DEF Work, Shown, EstablishedTree
    <3>2. About(p, x)
      BY <1>t, <1>3, <3>1 DEF WorkOfSweep
    <3>3. TreeDue(p, x)
      BY <2>2, <3>1, <3>2 DEF TreeDue, About, TreeOps, SweepOps
    <3> QED BY <1>t, <1>3, <3>1, <3>3 DEF ShownMeans, OnList
  <2> QED BY <2>3, <2>4
<1> QED BY <1>1, <1>2, <1>3

(* The closing steps of an actor: what goes from the tables goes from      *)
(* sight at that moment; the locks and the handles behind it are not seen. *)
LEMMA ClosingAccess ==
    ASSUME SmbInv, SmbInv', [Next]_vars, NEW p \in Actors, ClosingStep(p)
    PROVE  \/ \E x \in Service!Live :
                \/ p \in Conns /\ Service!Leave(p, x)
                \/ p \in Admins /\ Service!TakeAway(p, x)
           \/ UNCHANGED Service!accessVars
<1> USE ObjectTypes
<1> DEFINE Goal ==
        \/ \E x \in Service!Live :
            \/ p \in Conns /\ Service!Leave(p, x)
            \/ p \in Admins /\ Service!TakeAway(p, x)
        \/ UNCHANGED Service!accessVars
<1>t. DataTypes /\ Owned /\ Nested
  BY DEF SmbInv
<1>k. /\ UNCHANGED <<configVars, suser, tsess, tbind, tacc, h, conn>>
      /\ \A q \in Actors : w'[q].conns = w[q].conns /\ w'[q].scan = w[q].scan
      /\ \A q \in Actors \ {p} : w'[q] = w[q]
  <2>1. UNCHANGED tacc
    BY DEF ClosingStep, CloseSession, DrainSession, UnlockSession, RemoveTree,
           DrainTree, CloseDrained, UnlockTree, connVars
  <2> QED BY <1>t, <2>1, ClosingEffect
<1>a. p \in Conns \/ p \in Admins
  BY DEF Actors
(* What goes is one object, or none.                                       *)
<1>1. ASSUME NEW x \in Sessions \cup Trees, x \in w[p].sids \/ x \in w[p].rm,
             \A y \in Sessions \cup Trees :
                Shown(y)' <=> Shown(y) /\ y # x /\ (y \in Trees => tsess[y] # x),
             \A y \in (Sessions \cup Trees) \ {x} :
                /\ y \in w'[p].sids <=> y \in w[p].sids
                /\ y \in w'[p].rm <=> y \in w[p].rm
      PROVE  Goal
  <2>1. Service!Close({x})
    <3>1. {x} \in SUBSET (Sessions \cup Trees)
      OBVIOUS
    <3>2. \A y \in Sessions \cup Trees :
            Shown(y)' <=> Shown(y) /\ y \notin {x} /\ (y \in Trees => tsess[y] \notin {x})
      BY <1>1
    <3>3. \A q \in Actors : \A y \in (Sessions \cup Trees) \ {x} :
                /\ y \in w'[q].sids <=> y \in w[q].sids
                /\ y \in w'[q].rm <=> y \in w[q].rm
      BY <1>1, <1>k
    <3> QED BY <1>k, <3>1, <3>2, <3>3, Closes
  <2>2. CASE Shown(x)
    <3>1. /\ x \in Service!Live
          /\ p \in Conns => x \in Leaving[p]
          /\ p \in Admins => x \in Due[p]
      BY <1>1, <2>2, GivenUp
    <3>2. p \in Conns => Service!Leave(p, x)
      BY <2>1, <3>1 DEF Service!Leave
    <3>3. p \in Admins => Service!TakeAway(p, x)
      BY <2>1, <3>1 DEF Service!TakeAway
    <3> QED BY <1>a, <3>1, <3>2, <3>3
  <2>3. CASE ~Shown(x)
    BY <2>1, <2>3, ClosesNothing
  <2> QED BY <2>2, <2>3
<1>2. ASSUME \A y \in Sessions \cup Trees : Shown(y)' <=> Shown(y),
             w'[p].sids = w[p].sids /\ w'[p].rm = w[p].rm
      PROVE  Goal
  <2>1. Service!Close({})
    <3>1. {} \in SUBSET (Sessions \cup Trees)
      OBVIOUS
    <3>2. \A y \in Sessions \cup Trees :
            Shown(y)' <=> Shown(y) /\ y \notin {} /\ (y \in Trees => tsess[y] \notin {})
      BY <1>2
    <3>3. \A q \in Actors : \A y \in (Sessions \cup Trees) \ {} :
                /\ y \in w'[q].sids <=> y \in w[q].sids
                /\ y \in w'[q].rm <=> y \in w[q].rm
      BY <1>2, <1>k
    <3> QED BY <1>k, <3>1, <3>2, <3>3, Closes
  <2> QED BY <2>1, ClosesNothing
<1>3. ASSUME NEW s \in Sessions, CloseSession(p, s)
      PROVE  Goal
  <2>1. s \in w[p].sids /\ UNCHANGED tst
        /\ \A y \in Sessions : sst'[y] = "live" <=> sst[y] = "live" /\ y # s
    BY <1>3, <1>t DEF CloseSession, DataTypes
  <2>2. \A y \in (Sessions \cup Trees) \ {s} :
                /\ y \in w'[p].sids <=> y \in w[p].sids
                /\ y \in w'[p].rm <=> y \in w[p].rm
    BY <1>3, <1>t, CloseSessionWork
  <2>3. ASSUME NEW y \in Sessions
        PROVE  Shown(y)' <=> Shown(y) /\ y # s
    BY <1>k, <2>1 DEF Shown, Established
  <2>4. ASSUME NEW y \in Trees
        PROVE  Shown(y)' <=> Shown(y) /\ y # s /\ tsess[y] # s
    <3>1. tst[y] = "live" => tsess[y] \in Sessions
      BY <1>t DEF Owned
    <3> QED BY <1>k, <2>1, <3>1 DEF Shown, Established, EstablishedTree
  <2>5. \A y \in Sessions \cup Trees :
            Shown(y)' <=> Shown(y) /\ y # s /\ (y \in Trees => tsess[y] # s)
    BY <2>3, <2>4
  <2> HIDE DEF Goal
  <2> QED BY <1>1, <2>1, <2>2, <2>5
<1>4. ASSUME NEW t \in Trees, RemoveTree(p, t)
      PROVE  Goal
  <2>1. t \in w[p].rm /\ UNCHANGED sst
        /\ \A y \in Trees : tst'[y] = "live" <=> tst[y] = "live" /\ y # t
    BY <1>4, <1>t DEF RemoveTree, DataTypes
  <2>2. \A y \in (Sessions \cup Trees) \ {t} :
                /\ y \in w'[p].sids <=> y \in w[p].sids
                /\ y \in w'[p].rm <=> y \in w[p].rm
    BY <1>4, <1>t, RemoveTreeWork
  <2>3. ASSUME NEW y \in Sessions
        PROVE  Shown(y)' <=> Shown(y) /\ y # t
    BY <1>k, <2>1 DEF Shown, Established
  <2>4. ASSUME NEW y \in Trees
        PROVE  Shown(y)' <=> Shown(y) /\ y # t /\ tsess[y] # t
    <3>1. tst[y] = "live" => tsess[y] \in Sessions
      BY <1>t DEF Owned
    <3> QED BY <1>k, <2>1, <3>1 DEF Shown, Established, EstablishedTree
  <2>5. \A y \in Sessions \cup Trees :
            Shown(y)' <=> Shown(y) /\ y # t /\ (y \in Trees => tsess[y] # t)
    BY <2>3, <2>4
  <2> HIDE DEF Goal
  <2> QED BY <1>1, <2>1, <2>2, <2>5
<1>5. ASSUME DrainSession(p)
      PROVE  Goal
  <2>1. /\ w[p].removed # None /\ sst[w[p].removed] = "closed" /\ UNCHANGED sst
        /\ \A y \in Trees : tst'[y] = IF tst[y] = "live" /\ tsess[y] = w[p].removed
                                        THEN "closed" ELSE tst[y]
    BY <1>5, <1>t DEF DrainSession, Nested, NestedIn
  <2>2. \A y \in Sessions \cup Trees : Shown(y)' <=> Shown(y)
    BY <1>k, <2>1 DEF Shown, Established, EstablishedTree
  <2>3. w'[p].sids = w[p].sids /\ w'[p].rm = w[p].rm
    BY <1>5, <1>t, DrainSessionWork
  <2> HIDE DEF Goal
  <2> QED BY <1>2, <2>2, <2>3
<1>6. ASSUME \/ \E t \in Trees : DrainTree(p, t)
             \/ \E o \in Opens : CloseDrained(p, o)
             \/ UnlockSession(p) \/ UnlockTree(p)
      PROVE  Goal
  <2>1. UNCHANGED <<sst, tst>>
    BY <1>6 DEF DrainTree, CloseDrained, UnlockSession, UnlockTree, connVars
  <2>2. \A y \in Sessions \cup Trees : Shown(y)' <=> Shown(y)
    BY <1>k, <2>1 DEF Shown, Established, EstablishedTree
  <2>3. w'[p].sids = w[p].sids /\ w'[p].rm = w[p].rm
    BY <1>6, <1>t, DrainTreeWork, CloseDrainedWork, UnlockWork
  <2> HIDE DEF Goal
  <2> QED BY <1>2, <2>2, <2>3
<1> HIDE DEF Goal
<1>7. Goal
  BY <1>3, <1>4, <1>5, <1>6 DEF ClosingStep
<1> QED BY <1>7 DEF Goal

(* A connection that is accepted shows nothing yet; one that is lost takes *)
(* all of it away.                                                         *)
LEMMA ConnectionAccess ==
    ASSUME SmbInv, SmbInv', [Next]_vars, NEW c \in Conns
    PROVE  /\ Connect(c) => UNCHANGED Service!accessVars
           /\ Disconnect(c) => Service!Disconnect(c) \/ UNCHANGED Service!accessVars
<1> USE ObjectTypes
<1>t. DataTypes /\ Owned /\ ConnUsed
  BY DEF SmbInv
<1>m. ShownMeans
  BY <1>t, ShownNow
<1>1. ASSUME Connect(c)
      PROVE  UNCHANGED Service!accessVars
  <2>1. /\ conn[c] = "off" /\ conn' = [conn EXCEPT ![c] = "on"]
        /\ UNCHANGED <<configVars, sst, suser, tst, tsess, tbind, tacc, h, w>>
    BY <1>1 DEF Connect
  <2>2. ASSUME NEW s \in Sessions
        PROVE  Established(s)' <=> Established(s)
    BY <1>t, <2>1 DEF Established, ConnUsed, DataTypes
  <2>3. \A t \in Trees : tst[t] = "live" => tsess[t] \in Sessions
    BY <1>t DEF Owned
  <2>4. \A x \in Sessions \cup Trees : Shown(x)' <=> Shown(x)
    BY <2>1, <2>2, <2>3 DEF Shown, EstablishedTree, Established
  <2>5. Service!Close({})
    BY <2>1, <2>4, Closes
  <2> QED BY <2>5, ClosesNothing
<1>2. ASSUME Disconnect(c)
      PROVE  Service!Disconnect(c) \/ UNCHANGED Service!accessVars
  <2> DEFINE xs == {x \in Service!Live : x[1] = c}
  <2>1. /\ HAt(c, "idle") /\ conn' = [conn EXCEPT ![c] = "gone"]
        /\ UNCHANGED <<configVars, sst, suser, tst, tsess, tbind, tacc, h, w>>
    BY <1>2 DEF Disconnect
  <2>2. xs \in SUBSET (Sessions \cup Trees)
        /\ \A x \in Sessions \cup Trees : x \in xs <=> Shown(x) /\ x[1] = c
    BY <1>m DEF ShownMeans
  <2>3. ASSUME NEW s \in Sessions
        PROVE  Established(s)' <=> Established(s) /\ s[1] # c
    BY <1>t, <2>1 DEF Established, DataTypes
  <2>4. ASSUME NEW t \in Trees
        PROVE  Shown(t)' <=> Shown(t) /\ t[1] # c
    <3>1. tst[t] = "live" => tsess[t] \in Sessions /\ tsess[t][1] = t[1]
      BY <1>t DEF Owned
    <3> QED BY <2>1, <2>3, <3>1 DEF Shown, EstablishedTree, Established
  <2>5. \A t \in Trees : Shown(t) => /\ tsess[t] \in Sessions /\ Shown(tsess[t])
                                     /\ tsess[t][1] = t[1]
    BY <1>m DEF ShownMeans
  <2> HIDE DEF xs
  <2>6. \A x \in Sessions \cup Trees :
            Shown(x)' <=> Shown(x) /\ x \notin xs /\ (x \in Trees => tsess[x] \notin xs)
    BY <2>2, <2>3, <2>4, <2>5 DEF Shown
  <2>7. Service!Close(xs)
    BY <2>1, <2>2, <2>6, Closes
  <2>8. Asking[c] = Service!NoRequest
    BY <2>1 DEF Asking, RequestIn, Askers, Unasked, RequestOf, Kind, HAt, Idle, Service!NoRequest
  <2>9. CASE \E x \in Service!Live : x[1] = c
    BY <2>7, <2>8, <2>9 DEF Service!Disconnect, xs
  <2>10. CASE ~\E x \in Service!Live : x[1] = c
    <3>1. \A x \in xs : ~Shown(x)
      BY <2>10 DEF xs
    <3> QED BY <2>2, <2>7, <3>1, ClosesNothing
  <2> QED BY <2>9, <2>10
<1> QED BY <1>1, <1>2

-----------------------------------------------------------------------------
(* The calls.                                                              *)

(* Clients see the tables of the connections; with those and the work of   *)
(* their handlers as they were, only what is due may change.               *)
LEMMA SameSight ==
    ASSUME SmbInv, SmbInv', [Next]_vars,
           UNCHANGED <<conn, sst, suser, tst, tsess, tbind, tacc>>
    PROVE  /\ UNCHANGED <<LiveSessions, LiveTrees, Service!Live>>
           /\ \A x \in Sessions \cup Trees : Shown(x)' <=> Shown(x)
           /\ \A a \in Admins :
                (\A x \in Sessions \cup Trees : Shown(x) => (OnList(a, x)' <=> OnList(a, x)))
                    => Due'[a] = Due[a]
           /\ (\A c \in Conns : w'[c] = w[c]) => UNCHANGED Leaving
<1> USE ObjectTypes
<1>t. ShownMeans /\ ShownMeans'
  BY ShownNow, ShownThen DEF SmbInv
<1>1. \A x \in Sessions \cup Trees : Shown(x)' <=> Shown(x)
  BY DEF Shown, EstablishedTree, Established
<1>2. UNCHANGED LiveSessions
  BY DEF LiveSessions, Established
<1>3. ASSUME NEW t \in Trees
      PROVE  LiveTrees'[t] = LiveTrees[t]
  <2>1. CASE Shown(t)
    <3>1. bname'[tbind[t]] = bname[tbind[t]]
      BY <2>1, NamesStay
    <3>2. EstablishedTree(t) /\ EstablishedTree(t)'
      BY <2>1, <1>1 DEF Shown
    <3> QED BY <3>1, <3>2 DEF LiveTrees
  <2>2. CASE ~Shown(t)
    <3>1. LiveTrees[t] = NoTree /\ LiveTrees'[t] = NoTree'
      BY <1>t, <1>1, <2>2 DEF ShownMeans
    <3> QED BY <3>1 DEF NoTree
  <2> QED BY <2>1, <2>2
<1>4. UNCHANGED LiveTrees
  <2>1. /\ LiveTrees = [t \in Trees |-> LiveTrees[t]]
        /\ LiveTrees' = [t \in Trees |-> LiveTrees'[t]]
    BY DEF LiveTrees
  <2> QED BY <1>3, <2>1
<1>5. Service!Live' = Service!Live
  BY <1>t, <1>1 DEF ShownMeans
<1>6. ASSUME NEW a \in Admins,
             \A x \in Sessions \cup Trees : Shown(x) => (OnList(a, x)' <=> OnList(a, x))
      PROVE  Due'[a] = Due[a]
  <2>1. /\ Due[a] = {x \in Sessions \cup Trees : Shown(x) /\ OnList(a, x)}
        /\ Due'[a] = {x \in Sessions \cup Trees : Shown(x)' /\ OnList(a, x)'}
    BY <1>t DEF ShownMeans
  <2> QED BY <1>1, <1>6, <2>1
<1>7. ASSUME \A c \in Conns : w'[c] = w[c]
      PROVE  UNCHANGED Leaving
  <2>1. ASSUME NEW c \in Conns
        PROVE  Leaving'[c] = Leaving[c]
    <3>1. /\ Leaving[c] = {x \in Sessions \cup Trees :
                              Shown(x) /\ x \in w[c].sids \cup w[c].rm}
          /\ Leaving'[c] = {x \in Sessions \cup Trees :
                              Shown(x)' /\ x \in w'[c].sids \cup w'[c].rm}
      BY <1>t DEF ShownMeans
    <3> QED BY <1>1, <1>7, <3>1
  <2> QED BY <2>1 DEF Leaving
<1> QED BY <1>1, <1>2, <1>4, <1>5, <1>6, <1>7

(* What is due to a call whose work does not change.                       *)
LEMMA OthersDue ==
    ASSUME SmbInv, [Next]_vars, UNCHANGED <<suser, tsess, tbind>>,
           NEW a \in Admins, pc'[a] = pc[a], job'[a] = job[a], w'[a] = w[a],
           NEW x \in Sessions \cup Trees, Shown(x)
    PROVE  OnList(a, x)' <=> OnList(a, x)
<1> USE ObjectTypes
<1>1. CASE x \in Sessions
  BY <1>1 DEF OnList, SessionDue
<1>2. CASE x \in Trees
  <2>1. bname'[tbind[x]] = bname[tbind[x]]
    BY <1>2, NamesStay
  <2> QED BY <1>2, <2>1 DEF OnList, TreeDue
<1> QED BY <1>1, <1>2

(* A sweep on its way goes from list to list; what it has to close stays   *)
(* the same.                                                               *)
LEMMA VisitAccess ==
    ASSUME SmbInv, SmbInv', [Next]_vars, NEW a \in Admins,
           \/ ListConnections(a) \/ \E c \in Conns : SweepConnection(a, c)
           \/ \E s \in Sessions : ScanSession(a, s)
    PROVE  UNCHANGED Service!accessVars
<1> USE ObjectTypes
<1>t. ConfigInv /\ DataTypes /\ Owned /\ WorkOfSweep /\ ShownMeans
  BY ShownNow DEF SmbInv
<1>1. /\ UNCHANGED <<h, users, shares, acl, bname, job>>
      /\ UNCHANGED <<conn, sst, suser, tst, tsess, tbind, tacc>>
      /\ UNCHANGED Service!tableVars
      /\ \A b \in Admins \ {a} : pc'[b] = pc[b]
  <2>1. CASE ListConnections(a)
    <3>1. ListLive(a) /\ UNCHANGED <<h, connVars>>
      BY <2>1 DEF ListConnections
    <3>2. TypeOK /\ UNCHANGED Service!tableVars
      BY <1>t, <3>1, SilentStep, ServiceTable DEF ConfigInv, TypeInv
    <3> QED BY <3>1, <3>2 DEF ListLive, Goto, connVars, TypeOK
  <2>2. CASE \/ \E c \in Conns : SweepConnection(a, c)
             \/ \E s \in Sessions : ScanSession(a, s)
    <3>1. UNCHANGED <<configVars, connVars, h>>
      BY <2>2 DEF SweepConnection, ScanSession
    <3> QED BY <3>1, ServiceTableKept DEF configVars, connVars
  <2> QED BY <2>1, <2>2
<1>2. Assigned(a)
  BY <1>t, ListWork, SweepWork, ScanWork
<1>3. \A b \in Admins \ {a} : Due'[b] = Due[b]
  <2>1. ASSUME NEW b \in Admins \ {a}, NEW x \in Sessions \cup Trees, Shown(x)
        PROVE  OnList(b, x)' <=> OnList(b, x)
    <3>1. w'[b] = w[b]
      BY <1>2 DEF Assigned
    <3> QED BY <1>1, <2>1, <3>1, OthersDue
  <2> QED BY <1>1, <2>1, SameSight
<1>4. ASSUME NEW s \in Sessions, Shown(s)
      PROVE  conn[s[1]] = "on" /\ sst[s] = "live"
  BY <1>4 DEF Shown, Established
<1>5. ASSUME NEW t \in Trees, Shown(t)
      PROVE  /\ tst[t] = "live" /\ conn[t[1]] = "on" /\ tsess[t] \in Sessions
             /\ tsess[t][1] = t[1] /\ sst[tsess[t]] = "live"
  <2>1. tsess[t] \in Sessions /\ Shown(tsess[t]) /\ tsess[t][1] = t[1]
    BY <1>t, <1>5 DEF ShownMeans
  <2>2. tst[t] = "live"
    BY <1>5 DEF Shown, EstablishedTree
  <2> QED BY <1>4, <2>1, <2>2
<1>6. ASSUME NEW x \in Sessions \cup Trees, Shown(x)
      PROVE  OnList(a, x)' <=> OnList(a, x)
  <2>1. CASE ListConnections(a)
    <3>1. pc[a] = "sweep" /\ pc'[a] = "sweeping"
      BY <2>1, <1>t DEF ListConnections, ListLive, Goto, ConfigInv, TypeInv, TypeOK
    <3>2. w'[a].conns = {c \in Conns : conn[c] = "on"}
      BY <1>t, <2>1, ListWork
    <3> QED BY <1>1, <1>4, <1>5, <1>6, <3>1, <3>2 DEF OnList, SessionDue, TreeDue
  <2>2. ASSUME NEW c \in Conns, SweepConnection(a, c)
        PROVE  OnList(a, x)' <=> OnList(a, x)
    <3>1. /\ w[a].rm = {} /\ w[a].scan = {} /\ w[a].sids = {} /\ pc' = pc
      BY <2>2 DEF SweepConnection, configVars
    <3>2. /\ w'[a].conns = w[a].conns \ {c} /\ w'[a].rm = w[a].rm
          /\ IF job[a].op = "remove_user"
               THEN /\ w'[a].sids = {s \in Sessions : /\ s[1] = c /\ sst[s] = "live"
                                                      /\ suser[s] = job[a].user}
                    /\ w'[a].scan = w[a].scan
               ELSE /\ w'[a].scan = {s \in Sessions : s[1] = c /\ sst[s] = "live"}
                    /\ w'[a].sids = w[a].sids
      BY <1>t, <2>2, SweepWork
    <3>3. c \in w[a].conns
      BY <2>2 DEF SweepConnection
    <3>4. CASE x \in Sessions
      BY <1>1, <1>4, <1>6, <3>1, <3>2, <3>3, <3>4 DEF OnList, SessionDue
    <3>5. CASE x \in Trees
      BY <1>1, <1>5, <1>6, <3>1, <3>2, <3>3, <3>5 DEF OnList, TreeDue
    <3> QED BY <3>4, <3>5
  <2>3. ASSUME NEW s \in Sessions, ScanSession(a, s)
        PROVE  OnList(a, x)' <=> OnList(a, x)
    <3>1. /\ w[a].rm = {} /\ s \in w[a].scan /\ pc' = pc
      BY <2>3 DEF ScanSession, configVars
    <3>2. /\ w'[a].conns = w[a].conns /\ w'[a].sids = w[a].sids
          /\ w'[a].scan = w[a].scan \ {s}
          /\ w'[a].rm = {t \in Trees : /\ tst[t] = "live" /\ tsess[t] = s
                                       /\ Matches(job[a], s, t)}
      BY <1>t, <2>3, ScanWork
    <3>4. CASE x \in Sessions
      BY <1>1, <3>1, <3>2, <3>4 DEF OnList, SessionDue
    <3>5. CASE x \in Trees
      BY <1>1, <1>5, <1>6, <3>1, <3>2, <3>5 DEF OnList, TreeDue, Matches
    <3> QED BY <3>4, <3>5
  <2> QED BY <2>1, <2>2, <2>3
<1>7. UNCHANGED Due
  <2>1. Due'[a] = Due[a]
    BY <1>1, <1>6, SameSight
  <2> QED BY <1>3, <2>1 DEF Due
<1>8. UNCHANGED <<LiveSessions, LiveTrees, Leaving>>
  <2>1. \A c \in Conns : w'[c] = w[c]
    BY <1>2, ObjectAssumption DEF Assigned
  <2> QED BY <1>1, <2>1, SameSight
<1>9. UNCHANGED <<Asking, StaleRequests>>
  BY <1>1 DEF Asking, RequestIn, StaleRequests, Stale, HAt
<1> QED BY <1>1, <1>7, <1>8, <1>9 DEF Service!accessVars, Service!clientVars


(* What a call has still to close, by the stage it is at: nothing before   *)
(* it takes effect and when it has returned; then all that it is about.    *)
DueMeans ==
    \A a \in Admins :
        /\ Stages[a] \in {"idle", "called"} => Due[a] = {}
        /\ \/ job[a].op = "remove_user" /\ pc[a] \in {"snapshot", "clean", "sweep"}
           \/ job[a].op \in TreeOps /\ pc[a] = "sweep"
           => Due[a] = {x \in Service!Live : Service!About(job[a], x)}

LEMMA DueNow == SmbInv => DueMeans
<1> SUFFICES ASSUME SmbInv, NEW a \in Admins
             PROVE  /\ Stages[a] \in {"idle", "called"} => Due[a] = {}
                    /\ \/ /\ job[a].op = "remove_user"
                          /\ pc[a] \in {"snapshot", "clean", "sweep"}
                       \/ job[a].op \in TreeOps /\ pc[a] = "sweep"
                       => Due[a] = {x \in Service!Live : Service!About(job[a], x)}
  BY DEF DueMeans
<1> USE ObjectTypes
<1>t. ShownMeans /\ TypeOK
  BY ShownNow DEF SmbInv, ConfigInv, TypeInv
<1>d. Due[a] = {x \in Sessions \cup Trees : Shown(x) /\ OnList(a, x)}
  BY <1>t DEF ShownMeans
<1>1. ASSUME Stages[a] \in {"idle", "called"}
      PROVE  Due[a] = {}
  <2>1. pc[a] \notin {"snapshot", "clean", "sweep", "sweeping"}
    BY <1>1, <1>t, StageValues
  <2> QED BY <1>d, <2>1 DEF OnList, SessionDue, TreeDue
<1>2. ASSUME \/ job[a].op = "remove_user" /\ pc[a] \in {"snapshot", "clean", "sweep"}
             \/ job[a].op \in TreeOps /\ pc[a] = "sweep"
      PROVE  Due[a] = {x \in Service!Live : Service!About(job[a], x)}
  <2>1. ASSUME NEW s \in Sessions, Shown(s)
        PROVE  OnList(a, s) <=> Service!About(job[a], s)
    <3>1. LiveSessions[s] = suser[s]
      BY <1>t, <2>1 DEF ShownMeans
    <3> QED BY <1>2, <3>1 DEF OnList, SessionDue, Service!About, TreeOps, SweepOps
  <2>2. ASSUME NEW t \in Trees, Shown(t)
        PROVE  OnList(a, t) <=> Service!About(job[a], t)
    <3>1. tsess[t] \in Sessions /\ Shown(tsess[t])
      BY <1>t, <2>2 DEF ShownMeans
    <3>2. LiveSessions[tsess[t]] = suser[tsess[t]]
      BY <1>t, <3>1 DEF ShownMeans
    <3>3. LiveTrees[t].sess = tsess[t] /\ LiveTrees[t].share = bname[tbind[t]]
      <4>1. LiveTrees[t] = [sess |-> tsess[t], share |-> bname[tbind[t]],
                            access |-> tacc[t]]
        BY <1>t, <2>2 DEF ShownMeans
      <4> QED BY <4>1
    <3>4. Service!About(job[a], t) <=>
            /\ job[a].op \in {"remove_share", "revoke_share_user", "set_share_mode"}
            /\ bname[tbind[t]] = job[a].share
            /\ job[a].op = "revoke_share_user" => suser[tsess[t]] = job[a].user
      BY <3>2, <3>3 DEF Service!About
    <3>5. OnList(a, t) <=> TreeDue(a, t)
      BY DEF OnList
    <3> QED BY <1>2, <3>4, <3>5 DEF TreeDue, TreeOps, SweepOps
  <2>3. \A x \in Sessions \cup Trees : Shown(x) => (OnList(a, x) <=> Service!About(job[a], x))
    BY <2>1, <2>2
  <2> QED BY <1>t, <1>d, <2>3 DEF ShownMeans
<1> QED BY <1>1, <1>2

(* The same after a step.                                                  *)
LEMMA DueThen == SmbInv' => DueMeans'
BY DueNow, PTL

(* A sweep with nothing left to do has closed all that was due.            *)
LEMMA SweptAll ==
    ASSUME SmbInv, NEW a \in Admins, w[a] = NoWork, pc[a] = "sweeping"
    PROVE  Due[a] = {}
<1>1. Due[a] = {x \in Sessions \cup Trees : Shown(x) /\ OnList(a, x)}
  BY ShownNow DEF SmbInv, ShownMeans
<1> QED BY <1>1, ObjectTypes DEF OnList, SessionDue, TreeDue, NoWork

(* A step of a on the tables of the control plane: what clients see and    *)
(* what other calls have to close stays; a request becomes stale when the  *)
(* share it has found is removed.                                          *)
LEMMA ControlFrame ==
    ASSUME SmbInv, SmbInv', [Next]_vars, NEW a \in Admins,
           UNCHANGED <<connVars, h, w>>,
           \A b \in Admins \ {a} : pc'[b] = pc[b] /\ job'[b] = job[b],
           \A n \in Names : shares'[n] # shares[n] =>
                shares'[n] = None \/ (shares[n] = None /\ ~InUse(shares'[n]))
    PROVE  /\ UNCHANGED <<LiveSessions, LiveTrees, Service!Live, Asking, Leaving>>
           /\ \A b \in Admins \ {a} : Due'[b] = Due[b]
           /\ \A c \in Conns : StaleRequests'[c] # StaleRequests[c] =>
                /\ StaleRequests'[c] /\ Asking[c].kind = "ask"
                /\ ShareTable[Asking[c].share] # None
                /\ ShareTable'[Asking[c].share] = None
<1>t. TypeOK /\ TypeOK' /\ DataTypes /\ Carried
  BY DEF SmbInv, ConfigInv, TypeInv
<1>1. UNCHANGED <<conn, sst, suser, tst, tsess, tbind, tacc>>
  BY DEF connVars
<1>2. UNCHANGED <<LiveSessions, LiveTrees, Service!Live, Leaving>>
  BY <1>1, SameSight
<1>3. UNCHANGED Asking
  BY DEF Asking, RequestIn
<1>4. ASSUME NEW b \in Admins \ {a}
      PROVE  Due'[b] = Due[b]
  <2>1. \A x \in Sessions \cup Trees : Shown(x) => (OnList(b, x)' <=> OnList(b, x))
    BY <1>1, OthersDue
  <2> QED BY <1>1, <2>1, SameSight
<1>5. ASSUME NEW c \in Conns, StaleRequests'[c] # StaleRequests[c]
      PROVE  /\ StaleRequests'[c] /\ Asking[c].kind = "ask"
             /\ ShareTable[Asking[c].share] # None
             /\ ShareTable'[Asking[c].share] = None
  <2> DEFINE n == h[c].share
  <2>1. StaleRequests[c] = Stale(c) /\ StaleRequests'[c] = Stale(c)'
    BY DEF StaleRequests
  <2>2. h[c].pc = "tree_auth" /\ n \in Names /\ h[c].bind \in Bindings
    BY <1>5, <1>t, <2>1 DEF Stale, HAt, Carried, CarriedBy, TreePCs
  <2>3. shares'[n] # shares[n]
    BY <1>5, <2>1, <2>2 DEF Stale, HAt
  <2>4. ~(shares[n] = None /\ ~InUse(shares'[n]))
    <3>1. SUFFICES ASSUME shares[n] = None, ~InUse(shares'[n]) PROVE FALSE
      OBVIOUS
    <3>2. shares'[n] # h[c].bind
      BY <3>1 DEF InUse
    <3>3. Stale(c) /\ Stale(c)'
      BY <2>2, <3>1, <3>2, NoneAssumption DEF Stale, HAt
    <3> QED BY <1>5, <2>1, <3>3
  <2>5. shares'[n] = None /\ shares[n] # None
    BY <2>2, <2>3, <2>4
  <2>6. ShareTable[n] # None /\ ShareTable'[n] = None
    BY <1>t, <2>2, <2>5, Entry DEF ShareTable
  <2>7. Stale(c)'
    BY <2>2, <2>5, NoneAssumption DEF Stale, HAt
  <2>8. Asking[c].kind = "ask" /\ Asking[c].share = n
    BY <2>2 DEF Asking, RequestIn, Askers, Unasked, RequestOf, Kind
  <2> QED BY <2>1, <2>6, <2>7, <2>8
<1> QED BY <1>2, <1>3, <1>4, <1>5


(* A call in progress either is refused, or ends, or takes effect and goes *)
(* on to close what it is about, or comes one step nearer to that, or only *)
(* moves from one lock to the next.                                        *)
LEMMA ConfigMoves ==
    ASSUME ConfigInv, NEW a \in Admins, ConfigStep(a)
    PROVE  /\ \/ Stages[a] = "called" /\ pc'[a] = "idle"
              \/ /\ Stages[a] = "called" /\ job'[a] = job[a]
                 /\ \/ job[a].op = "remove_user" /\ pc'[a] = "snapshot"
                    \/ job[a].op \in TreeOps /\ pc'[a] = "sweep"
              \/ /\ Stages[a] = "removing" /\ job[a].op = "remove_user"
                 /\ job'[a] = job[a]
                 /\ pc[a] \in {"snapshot", "clean"} /\ pc'[a] \in {"snapshot", "clean", "sweep"}
              \/ /\ Stages[a] = "called" /\ Stages'[a] = "called"
                 /\ UNCHANGED Table!tableVars
           /\ \A n \in Names : shares'[n] # shares[n] =>
                shares'[n] = None \/ (shares[n] = None /\ ~InUse(shares'[n]))
<1>t. TypeInv /\ TypeOK
  BY DEF ConfigInv, TypeInv
<1> DEFINE Effect ==
              \/ Stages[a] = "called" /\ pc'[a] = "idle"
              \/ /\ Stages[a] = "called" /\ job'[a] = job[a]
                 /\ \/ job[a].op = "remove_user" /\ pc'[a] = "snapshot"
                    \/ job[a].op \in TreeOps /\ pc'[a] = "sweep"
              \/ /\ Stages[a] = "removing" /\ job[a].op = "remove_user"
                 /\ job'[a] = job[a]
                 /\ pc[a] \in {"snapshot", "clean"} /\ pc'[a] \in {"snapshot", "clean", "sweep"}
              \/ /\ Stages[a] = "called" /\ Stages'[a] = "called"
                 /\ UNCHANGED Table!tableVars
           Frame == \A n \in Names : shares'[n] # shares[n] =>
                        shares'[n] = None \/ (shares[n] = None /\ ~InUse(shares'[n]))
<1>1. ASSUME AddShareCheck(a) \/ GrantCheck(a) \/ FindShare(a)
      PROVE  Effect /\ Frame
  <2>1. UNCHANGED Table!tableVars
    BY <1>1, SilentStep
  <2>2. pc[a] \in {"start", "find"} /\ UNCHANGED shares
    BY <1>1 DEF AddShareCheck, GrantCheck, FindShare, AtFind, At
  <2> QED BY <1>t, <2>1, <2>2, StageValues DEF Table!tableVars
<1>2. ASSUME \/ AddUser(a) \/ RemoveUserUnknown(a) \/ AddShareRejected(a)
             \/ AddShareDuplicate(a) \/ RemoveShareUnknown(a) \/ GrantUnknown(a)
             \/ FindShareUnknown(a) \/ GrantInsert(a) \/ GrantPublic(a)
             \/ SetModeNoChange(a)
      PROVE  Effect /\ Frame
  <2>1. /\ pc[a] \in {"start", "find", "insert", "acl"} /\ Return(a) /\ UNCHANGED shares
    BY <1>2 DEF AddUser, RemoveUserUnknown, AddShareRejected, AddShareDuplicate,
                RemoveShareUnknown, GrantUnknown, FindShareUnknown, GrantInsert,
                GrantPublic, SetModeNoChange, AtFind, At
  <2> QED BY <1>t, <2>1, StageValues DEF Return, TypeOK
<1>3. ASSUME NEW b \in Bindings, ~InUse(b), AddShareInsert(a, b)
      PROVE  Effect /\ Frame
  <2>1. pc[a] = "insert" /\ Return(a)
    BY <1>3 DEF AddShareInsert, At
  <2>2. Frame
    BY <1>3, <1>t DEF AddShareInsert, TypeOK
  <2> QED BY <1>t, <2>1, <2>2, StageValues DEF Return, TypeOK
<1>4. ASSUME RemoveUser(a) \/ RemoveShare(a) \/ RevokeRemove(a) \/ SetMode(a)
      PROVE  Effect /\ Frame
  <2>1. /\ pc[a] \in {"start", "acl"}
        /\ \/ job[a].op = "remove_user" /\ Goto(a, "snapshot")
           \/ job[a].op \in TreeOps /\ Goto(a, "sweep")
        /\ UNCHANGED shares \/ RemoveShare(a)
    BY <1>4 DEF RemoveUser, RemoveShare, RevokeRemove, SetMode, At, TreeOps, SweepOps
  <2>2. Frame
    BY <2>1, <1>t DEF RemoveShare, TypeOK
  <2> QED BY <1>t, <2>1, <2>2, StageValues DEF Goto, TypeOK
<1>5. ASSUME \/ RemoveUserSnapshot(a) \/ RemoveUserCleaned(a)
             \/ \E b \in Bindings : RemoveUserAcl(a, b)
      PROVE  Effect /\ Frame
  <2>1. /\ job[a].op = "remove_user" /\ pc[a] \in {"snapshot", "clean"}
        /\ job'[a] = job[a] /\ pc'[a] \in {"snapshot", "clean", "sweep"}
        /\ UNCHANGED shares
    BY <1>5, <1>t DEF RemoveUserSnapshot, RemoveUserCleaned, RemoveUserAcl, At, Goto,
                      TypeOK
  <2> QED BY <1>t, <2>1, StageValues
<1> HIDE DEF Effect, Frame
<1>6. Effect /\ Frame
  BY <1>1, <1>2, <1>3, <1>4, <1>5 DEF ConfigStep, UserSteps, AclSteps
<1> QED BY <1>6 DEF Effect, Frame

(* A call is made, moves on or returns as AccessControl has it.            *)
LEMMA ControlAccess ==
    ASSUME SmbInv, SmbInv', [Next]_vars, NEW a \in Admins,
           CallStep(a) \/ ConfigStep(a) \/ ReturnSwept(a)
    PROVE  Service!Control(a) \/ UNCHANGED Service!accessVars
<1>t. /\ ConfigInv /\ TypeOK /\ NamesKept /\ TypeOK'
      /\ DueMeans /\ DueMeans'
  BY DueNow, DueThen DEF SmbInv, ConfigInv, TypeInv
<1>1. /\ UNCHANGED <<connVars, h, w>>
      /\ \A b \in Admins \ {a} : pc'[b] = pc[b] /\ job'[b] = job[b]
      /\ \A n \in Names : shares'[n] # shares[n] =>
            shares'[n] = None \/ (shares[n] = None /\ ~InUse(shares'[n]))
      /\ Call(a) \/ AdminStep(a)
  <2>1. CASE CallStep(a)
    BY <1>t, <2>1 DEF CallStep, Call, dataVars, TypeOK
  <2>2. CASE ReturnSwept(a)
    BY <1>t, <2>2 DEF ReturnSwept, SweepDone, Return, AdminStep, TypeOK
  <2>3. CASE ConfigStep(a)
    <3>1. AdminStep(a)
      BY <2>3 DEF ConfigStep, AdminStep, ShareSteps
    <3> QED BY <1>t, <2>3, <3>1, ConfigStepFrame, ConfigMoves DEF dataVars
  <2> QED BY <2>1, <2>2, <2>3
<1>2. /\ UNCHANGED <<LiveSessions, LiveTrees, Service!Live, Asking, Leaving>>
      /\ \A b \in Admins \ {a} : Due'[b] = Due[b]
      /\ \A c \in Conns : StaleRequests'[c] # StaleRequests[c] =>
            /\ StaleRequests'[c] /\ Asking[c].kind = "ask"
            /\ ShareTable[Asking[c].share] # None
            /\ ShareTable'[Asking[c].share] = None
  BY <1>1, ControlFrame
<1>3. Table!TableStep(a) \/ UNCHANGED Table!tableVars
  BY <1>1, <1>t, AdminTableStep
<1> DEFINE Owing == IF Stages[a] = "called" /\ Stages'[a] # "idle"
                      THEN {x \in Service!Live : Service!About(job[a], x)} ELSE Due[a]
<1>4. ASSUME Table!TableStep(a), Stages[a] = "closing" => Due[a] = {}, Due'[a] = Owing
      PROVE  Service!Control(a)
  <2>1. Service!TableStep(a)
    BY <1>4, ServiceTable
  <2>2. Due' = [Due EXCEPT ![a] = Owing]
    <3>1. \A b \in Admins : Due'[b] = IF b = a THEN Owing ELSE Due[b]
      BY <1>2, <1>4
    <3> HIDE DEF Owing
    <3>2. Due' = [b \in Admins |-> Due'[b]] /\ Due = [b \in Admins |-> Due[b]]
      BY DEF Due
    <3> QED BY <3>1, <3>2
  <2> QED BY <1>2, <1>4, <2>1, <2>2 DEF Service!Control
<1>5. ASSUME UNCHANGED Table!tableVars, Due'[a] = Due[a]
      PROVE  UNCHANGED Service!accessVars
  <2>1. UNCHANGED Service!tableVars
    BY <1>5, ServiceTable
  <2>2. UNCHANGED Due
    BY <1>2, <1>5 DEF Due
  <2>3. UNCHANGED StaleRequests
    <3>1. UNCHANGED ShareTable
      BY <1>5 DEF Table!tableVars
    <3>2. \A c \in Conns : StaleRequests'[c] = StaleRequests[c]
      BY <1>2, <3>1
    <3> QED BY <3>2 DEF StaleRequests
  <2> QED BY <1>2, <2>1, <2>2, <2>3 DEF Service!accessVars, Service!clientVars
<1>6. ASSUME CallStep(a)
      PROVE  Service!Control(a)
  <2>1. pc[a] = "idle" /\ pc'[a] = "start"
    BY <1>6, <1>t DEF CallStep, Call, TypeOK
  <2>2. Stages[a] = "idle" /\ Stages'[a] = "called"
    BY <1>t, <2>1 DEF Stages, Stage
  <2>3. Due[a] = {} /\ Due'[a] = {}
    BY <1>t, <2>2 DEF DueMeans
  <2>4. Table!TableStep(a)
    BY <1>3, <2>2 DEF Table!tableVars
  <2> QED BY <1>4, <2>2, <2>3, <2>4
<1>7. ASSUME ReturnSwept(a)
      PROVE  Service!Control(a)
  <2>1. pc[a] = "sweeping" /\ pc'[a] = "idle" /\ w[a] = NoWork
    BY <1>7, <1>t DEF ReturnSwept, SweepDone, Return, TypeOK
  <2>2. Stages[a] = "closing" /\ Stages'[a] = "idle"
    BY <1>t, <2>1 DEF Stages, Stage
  <2>3. Due[a] = {} /\ Due'[a] = {}
    BY <1>t, <2>1, <2>2, SweptAll DEF DueMeans
  <2>4. Table!TableStep(a)
    BY <1>3, <2>2 DEF Table!tableVars
  <2> QED BY <1>4, <2>2, <2>3, <2>4
<1>8. ASSUME ConfigStep(a)
      PROVE  Service!Control(a) \/ UNCHANGED Service!accessVars
  <2>0. /\ Stages'[a] = "idle" <=> pc'[a] = "idle"
        /\ pc'[a] \in {"snapshot", "clean"} => Stages'[a] = "removing"
        /\ pc'[a] = "sweep" => Stages'[a] = "closing"
    BY DEF Stages, Stage
  <2>1. ASSUME Stages[a] = "called", pc'[a] = "idle"
        PROVE  Service!Control(a)
    <3>1. Due[a] = {} /\ Due'[a] = {} /\ Stages'[a] = "idle"
      BY <1>t, <2>0, <2>1 DEF DueMeans
    <3>2. Table!TableStep(a)
      BY <1>3, <2>1, <3>1 DEF Table!tableVars
    <3> QED BY <1>4, <2>1, <3>1, <3>2
  <2>2. ASSUME Stages[a] = "called", job'[a] = job[a],
               \/ job[a].op = "remove_user" /\ pc'[a] = "snapshot"
               \/ job[a].op \in TreeOps /\ pc'[a] = "sweep"
        PROVE  Service!Control(a)
    <3>1. Stages'[a] \in {"removing", "closing"}
      BY <2>0, <2>2
    <3>2. Due'[a] = {x \in Service!Live' : Service!About(job[a], x)'}
      BY <1>t, <2>2 DEF DueMeans
    <3>3. Service!Live' = Service!Live
      BY <1>2
    <3>4. \A x : Service!About(job[a], x)' <=> Service!About(job[a], x)
      BY <1>2, <2>2 DEF Service!About
    <3>5. Due'[a] = {x \in Service!Live : Service!About(job[a], x)}
      BY <3>2, <3>3, <3>4
    <3>6. Table!TableStep(a)
      BY <1>3, <2>2, <3>1 DEF Table!tableVars
    <3> QED BY <1>4, <2>2, <3>1, <3>5, <3>6
  <2>3. ASSUME Stages[a] = "removing", job[a].op = "remove_user", job'[a] = job[a],
               pc[a] \in {"snapshot", "clean"}, pc'[a] \in {"snapshot", "clean", "sweep"}
        PROVE  Service!Control(a) \/ UNCHANGED Service!accessVars
    <3>1. Due[a] = {x \in Service!Live : Service!About(job[a], x)}
      BY <1>t, <2>3 DEF DueMeans
    <3>2. Due'[a] = {x \in Service!Live' : Service!About(job[a], x)'}
      BY <1>t, <2>3 DEF DueMeans
    <3>3. Service!Live' = Service!Live
      BY <1>2
    <3>4. \A x : Service!About(job[a], x)' <=> Service!About(job[a], x)
      BY <1>2, <2>3 DEF Service!About
    <3>5. Due'[a] = Due[a]
      BY <3>1, <3>2, <3>3, <3>4
    <3> QED BY <1>3, <1>4, <1>5, <2>3, <3>5
  <2>4. ASSUME Stages[a] = "called", Stages'[a] = "called", UNCHANGED Table!tableVars
        PROVE  UNCHANGED Service!accessVars
    <3>1. Due[a] = {} /\ Due'[a] = {}
      BY <1>t, <2>4 DEF DueMeans
    <3> QED BY <1>5, <2>4, <3>1
  <2> QED BY <1>8, <1>t, <2>1, <2>2, <2>3, <2>4, ConfigMoves
<1> QED BY <1>6, <1>7, <1>8


-----------------------------------------------------------------------------
(* The requests.                                                           *)

(* A step of a handler that changes nothing but its own request.           *)
LEMMA AskFrame ==
    ASSUME SmbInv, SmbInv', [Next]_vars, NEW c \in Conns, Handles(c),
           UNCHANGED <<configVars, conn, sst, suser, tst, tsess, tbind, tacc, w>>
    PROVE  /\ UNCHANGED <<Service!tableVars, LiveSessions, LiveTrees, Leaving, Due>>
           /\ Asking' = [Asking EXCEPT ![c] = RequestIn(c)']
           /\ StaleRequests' = [StaleRequests EXCEPT ![c] = Stale(c)']
<1>1. UNCHANGED <<LiveSessions, LiveTrees, Leaving>>
  BY SameSight
<1>2. ASSUME NEW a \in Admins
      PROVE  Due'[a] = Due[a]
  <2>1. pc' = pc /\ job' = job
    BY DEF configVars
  <2>2. \A x \in Sessions \cup Trees : Shown(x) => (OnList(a, x)' <=> OnList(a, x))
    BY <2>1, OthersDue
  <2> QED BY <2>2, SameSight
<1>3. UNCHANGED Due
  BY <1>2 DEF Due
<1>4. ASSUME NEW d \in Conns \ {c}
      PROVE  Asking'[d] = Asking[d] /\ StaleRequests'[d] = StaleRequests[d]
  <2>1. h'[d] = h[d] /\ shares' = shares
    BY DEF Handles, configVars
  <2> QED BY <2>1 DEF Asking, RequestIn, StaleRequests, Stale, HAt
<1>5. Asking'[c] = RequestIn(c)' /\ StaleRequests'[c] = Stale(c)'
  BY DEF Asking, StaleRequests
<1>6. Asking' = [Asking EXCEPT ![c] = RequestIn(c)']
  <2>1. Asking = [d \in Conns |-> Asking[d]] /\ Asking' = [d \in Conns |-> Asking'[d]]
    BY DEF Asking
  <2> QED BY <1>4, <1>5, <2>1
<1>7. StaleRequests' = [StaleRequests EXCEPT ![c] = Stale(c)']
  <2>1. /\ StaleRequests = [d \in Conns |-> StaleRequests[d]]
        /\ StaleRequests' = [d \in Conns |-> StaleRequests'[d]]
    BY DEF StaleRequests
  <2> QED BY <1>4, <1>5, <2>1
<1> QED BY <1>1, <1>3, <1>6, <1>7, ServiceTableKept

(* What a request shows: nothing outside its check and its entry, and a    *)
(* share of its own between the two moments it looks at.                   *)
LEMMA RequestShows ==
    ASSUME NEW c \in Conns
    PROVE  /\ Kind(h[c].pc) = "none" => Asking[c] = Service!NoRequest /\ ~StaleRequests[c]
           /\ Kind(h[c].pc) # "none" => Asking[c] = RequestOf(h[c])
           /\ h[c].pc # "tree_auth" => ~StaleRequests[c]
BY DEF Asking, RequestIn, Askers, Unasked, RequestOf, Kind, HAt, Idle, Service!NoRequest,
       StaleRequests, Stale

(* The same after a step.                                                  *)
LEMMA RequestThen ==
    ASSUME NEW c \in Conns
    PROVE  /\ Kind(h'[c].pc) = "none" => RequestIn(c)' = Service!NoRequest /\ ~Stale(c)'
           /\ Kind(h'[c].pc) # "none" => RequestIn(c)' = RequestOf(h'[c])
           /\ h'[c].pc # "tree_auth" => ~Stale(c)'
BY DEF RequestIn, Askers, Unasked, RequestOf, Kind, HAt, Idle, Service!NoRequest, Stale

(* A request that shows nothing, before and after a step, goes unseen.     *)
LEMMA AskNothing ==
    ASSUME SmbInv, SmbInv', [Next]_vars, NEW c \in Conns, Handles(c),
           UNCHANGED <<configVars, conn, sst, suser, tst, tsess, tbind, tacc, w>>,
           Kind(h[c].pc) = "none", Kind(h'[c].pc) = "none"
    PROVE  UNCHANGED Service!accessVars
<1>1. /\ UNCHANGED <<Service!tableVars, LiveSessions, LiveTrees, Leaving, Due>>
      /\ Asking' = [Asking EXCEPT ![c] = RequestIn(c)']
      /\ StaleRequests' = [StaleRequests EXCEPT ![c] = Stale(c)']
  BY AskFrame
<1>2. Asking[c] = Service!NoRequest /\ ~StaleRequests[c]
  BY RequestShows
<1>3. RequestIn(c)' = Service!NoRequest /\ ~Stale(c)'
  BY RequestThen
<1>4. StaleRequests[c] = FALSE /\ Stale(c)' = FALSE
  BY <1>2, <1>3 DEF StaleRequests, Stale
<1>5. UNCHANGED <<Asking, StaleRequests>>
  <2>1. Asking = [d \in Conns |-> Asking[d]]
        /\ StaleRequests = [d \in Conns |-> StaleRequests[d]]
    BY DEF Asking, StaleRequests
  <2> QED BY <1>1, <1>2, <1>3, <1>4, <2>1
<1> QED BY <1>1, <1>5 DEF Service!accessVars, Service!clientVars

(* Requests of AccessControl, field by field.                              *)
Fields == [kind : {"none", "login", "ask", "enter"}, user : Identities \cup {None},
           sess : Sessions \cup {None}, share : Names \cup {None},
           access : Access \cup {None}]

LEMMA FieldsEqual ==
    ASSUME NEW q \in Fields
    PROVE  q = [kind |-> q.kind, user |-> q.user, sess |-> q.sess, share |-> q.share,
                access |-> q.access]
BY DEF Fields

LEMMA NoRequestFields ==
    /\ Service!NoRequest \in Fields
    /\ Service!NoRequest.sess = None /\ Service!NoRequest.share = None
    /\ Service!NoRequest.access = None
BY DEF Service!NoRequest, Fields

LEMMA LoginFields ==
    ASSUME NEW r \in Fields, NEW u \in Identities
    PROVE  [r EXCEPT !.kind = "login", !.user = u]
             = [kind |-> "login", user |-> u, sess |-> r.sess, share |-> r.share,
                access |-> r.access]
<1> DEFINE q == [r EXCEPT !.kind = "login", !.user = u]
<1>1. q \in Fields /\ q.kind = "login" /\ q.user = u
      /\ q.sess = r.sess /\ q.share = r.share /\ q.access = r.access
  BY DEF Fields, Access
<1> HIDE DEF q
<1>2. q = [kind |-> "login", user |-> u, sess |-> r.sess, share |-> r.share,
                access |-> r.access]
  BY <1>1, FieldsEqual
<1> QED BY <1>2 DEF q

LEMMA AskFields ==
    ASSUME NEW r \in Fields, NEW u \in Identities, NEW s \in Sessions, NEW n \in Names
    PROVE  [r EXCEPT !.kind = "ask", !.user = u, !.sess = s, !.share = n]
             = [kind |-> "ask", user |-> u, sess |-> s, share |-> n, access |-> r.access]
<1> DEFINE q == [r EXCEPT !.kind = "ask", !.user = u, !.sess = s, !.share = n]
<1>1. q \in Fields /\ q.kind = "ask" /\ q.user = u
      /\ q.sess = s /\ q.share = n /\ q.access = r.access
  BY DEF Fields, Access
<1> HIDE DEF q
<1>2. q = [kind |-> "ask", user |-> u, sess |-> s, share |-> n, access |-> r.access]
  BY <1>1, FieldsEqual
<1> QED BY <1>2 DEF q

LEMMA EnterFields ==
    ASSUME NEW r \in Fields, NEW x \in Access
    PROVE  [r EXCEPT !.kind = "enter", !.access = x]
             = [kind |-> "enter", user |-> r.user, sess |-> r.sess, share |-> r.share,
                access |-> x]
<1> DEFINE q == [r EXCEPT !.kind = "enter", !.access = x]
<1>1. q \in Fields /\ q.kind = "enter" /\ q.user = r.user
      /\ q.sess = r.sess /\ q.share = r.share /\ q.access = x
  BY DEF Fields, Access
<1> HIDE DEF q
<1>2. q = [kind |-> "enter", user |-> r.user, sess |-> r.sess, share |-> r.share,
                access |-> x]
  BY <1>1, FieldsEqual
<1> QED BY <1>2 DEF q

(* A login that passes its check, against the users there are then.        *)
LEMMA LoginAccess ==
    ASSUME SmbInv, SmbInv', [Next]_vars, NEW c \in Conns, NEW u \in users \cup {Anonymous},
           Kind(h[c].pc) = "none",
           SetH(c, [Idle EXCEPT !.pc = "setup_insert", !.user = u]),
           UNCHANGED <<configVars, conn, sst, suser, tst, tsess, tbind, tacc, w>>
    PROVE  Service!CheckLogin(c, u)
<1> DEFINE r == [Idle EXCEPT !.pc = "setup_insert", !.user = u]
<1>1. u \in Identities /\ DataTypes
  BY DEF SmbInv, ConfigInv, TypeInv, TypeOK, Identities
<1>2. r \in Handler /\ r.pc = "setup_insert" /\ r.user = u
        /\ r.sess = None /\ r.share = None /\ r.access = None
  BY <1>1, IdleType DEF Handler, HandlerPCs, Idle
<1> HIDE DEF r
<1>3. Handles(c) /\ h'[c] = r
  BY <1>1, <1>2, SetHandles DEF r
<1>4. /\ UNCHANGED <<Service!tableVars, LiveSessions, LiveTrees, Leaving, Due>>
      /\ Asking' = [Asking EXCEPT ![c] = RequestIn(c)']
      /\ StaleRequests' = [StaleRequests EXCEPT ![c] = Stale(c)']
  BY <1>3, AskFrame
<1>5. Kind(h'[c].pc) = "login"
  BY <1>2, <1>3 DEF Kind
<1>6. RequestIn(c)' = RequestOf(h'[c]) /\ ~Stale(c)'
  BY <1>2, <1>3, <1>5, RequestThen
<1>7. RequestOf(h'[c]) = [Service!NoRequest EXCEPT !.kind = "login", !.user = u]
  <2>1. RequestOf(h'[c]) = [kind |-> "login", user |-> u, sess |-> None, share |-> None,
                            access |-> None]
    BY <1>2, <1>3, <1>5 DEF RequestOf
  <2>2. [Service!NoRequest EXCEPT !.kind = "login", !.user = u]
          = [kind |-> "login", user |-> u, sess |-> None, share |-> None,
             access |-> None]
    BY <1>1, NoRequestFields, LoginFields
  <2> QED BY <2>1, <2>2
<1>8. Asking[c] = Service!NoRequest /\ ~StaleRequests[c]
  BY RequestShows
<1>9. UNCHANGED StaleRequests
  <2>1. StaleRequests[c] = FALSE /\ Stale(c)' = FALSE
    BY <1>6, <1>8 DEF StaleRequests, Stale
  <2>2. StaleRequests = [d \in Conns |-> StaleRequests[d]]
    BY DEF StaleRequests
  <2> QED BY <1>4, <2>1, <2>2
<1> QED BY <1>4, <1>6, <1>7, <1>8, <1>9 DEF Service!CheckLogin, Service!Ask

(* A request for a share, in a session that is established.                *)
LEMMA AskTreeAccess ==
    ASSUME SmbInv, SmbInv', [Next]_vars, NEW c \in Conns, NEW s \in Sessions,
           NEW n \in Names, TreeConnect(c, s, n)
    PROVE  Service!AskTree(c, s, n)
<1> DEFINE r == [Idle EXCEPT !.pc = "tree_find", !.sess = s, !.share = n,
                             !.user = suser[s]]
<1>1. /\ DataTypes /\ HAt(c, "idle") /\ s[1] = c /\ Established(s) /\ SetH(c, r)
      /\ UNCHANGED <<configVars, conn, sst, suser, tst, tsess, tbind, tacc, w>>
  BY DEF SmbInv, TreeConnect, Request, connVars
<1>2. r \in Handler /\ r.pc = "tree_find" /\ r.user = suser[s]
        /\ r.sess = s /\ r.share = n /\ r.access = None
  BY <1>1, IdleType DEF Handler, HandlerPCs, Idle, DataTypes
<1> HIDE DEF r
<1>3. Handles(c) /\ h'[c] = r
  BY <1>1, <1>2, SetHandles
<1>4. /\ UNCHANGED <<Service!tableVars, LiveSessions, LiveTrees, Leaving, Due>>
      /\ Asking' = [Asking EXCEPT ![c] = RequestIn(c)']
      /\ StaleRequests' = [StaleRequests EXCEPT ![c] = Stale(c)']
  BY <1>1, <1>3, AskFrame
<1>5. Kind(h'[c].pc) = "ask" /\ Kind(h[c].pc) = "none"
  BY <1>1, <1>2, <1>3 DEF Kind, HAt
<1>6. RequestIn(c)' = RequestOf(h'[c]) /\ ~Stale(c)'
  BY <1>2, <1>3, <1>5, RequestThen
<1>7. LiveSessions[s] = suser[s] /\ LiveSessions[s] # None
  BY <1>1, ShownNow DEF SmbInv, ShownMeans, Shown
<1>8. RequestOf(h'[c]) = [Service!NoRequest EXCEPT !.kind = "ask", !.user = suser[s],
                                                   !.sess = s, !.share = n]
  <2>1. RequestOf(h'[c]) = [kind |-> "ask", user |-> suser[s], sess |-> s, share |-> n,
                            access |-> None]
    BY <1>2, <1>3, <1>5 DEF RequestOf
  <2>2. suser[s] \in Identities
    BY <1>1 DEF SmbInv, Owned, Established
  <2>3. ASSUME NEW u \in Identities
        PROVE  [Service!NoRequest EXCEPT !.kind = "ask", !.user = u, !.sess = s,
                                         !.share = n]
                 = [kind |-> "ask", user |-> u, sess |-> s, share |-> n,
                    access |-> None]
    <3> DEFINE e == Service!NoRequest
    <3>1. e \in Fields /\ e.access = None
      BY NoRequestFields
    <3> HIDE DEF e
    <3>2. [e EXCEPT !.kind = "ask", !.user = u, !.sess = s, !.share = n]
            = [kind |-> "ask", user |-> u, sess |-> s, share |-> n,
               access |-> e.access]
      BY <3>1, AskFields
    <3> QED BY <3>1, <3>2 DEF e
  <2> QED BY <2>1, <2>2, <2>3
<1>9. Asking[c] = Service!NoRequest /\ ~StaleRequests[c]
  BY <1>5, RequestShows
<1>10. UNCHANGED StaleRequests
  <2>1. StaleRequests[c] = FALSE /\ Stale(c)' = FALSE
    BY <1>6, <1>9 DEF StaleRequests, Stale
  <2>2. StaleRequests = [d \in Conns |-> StaleRequests[d]]
    BY DEF StaleRequests
  <2> QED BY <1>4, <2>1, <2>2
<1> QED BY <1>1, <1>4, <1>6, <1>7, <1>8, <1>9, <1>10 DEF Service!AskTree, Service!Ask


(* A request whose share is not there is refused; one that finds it is     *)
(* still the request it was, and not stale yet.                            *)
LEMMA FindAccess ==
    ASSUME SmbInv, SmbInv', [Next]_vars, NEW c \in Conns, TreeFind(c)
    PROVE  Service!RefuseTree(c) \/ UNCHANGED Service!accessVars
<1>t. TypeOK /\ DataTypes /\ Owned /\ Carried
  BY DEF SmbInv, ConfigInv, TypeInv
<1>1. /\ h[c].pc = "tree_find" /\ h[c].share \in Names
      /\ Handles(c) /\ WentOn(c)
      /\ UNCHANGED <<configVars, conn, sst, suser, tst, tsess, tbind, tacc, w>>
  BY <1>t, QuietEffect DEF QuietStep, TreeFind, HAt, connVars, Carried, CarriedBy, TreePCs
<1>2. /\ UNCHANGED <<Service!tableVars, LiveSessions, LiveTrees, Leaving, Due>>
      /\ Asking' = [Asking EXCEPT ![c] = RequestIn(c)']
      /\ StaleRequests' = [StaleRequests EXCEPT ![c] = Stale(c)']
  BY <1>1, AskFrame
<1>3. Asking[c] = RequestOf(h[c]) /\ StaleRequests[c] = FALSE
  BY <1>1, RequestShows DEF Kind, StaleRequests, Stale
<1>4. Asking[c].kind = "ask" /\ Asking[c].share = h[c].share
  BY <1>1, <1>3 DEF RequestOf, Kind
<1>5. ASSUME shares[h[c].share] = None
      PROVE  Service!RefuseTree(c)
  <2>1. h'[c].pc = "idle"
    BY <1>t, <1>5, EndHandles DEF TreeFind
  <2>2. RequestIn(c)' = Service!NoRequest /\ Stale(c)' = FALSE
    BY <2>1, RequestThen DEF Kind, Stale
  <2>3. ShareTable[Asking[c].share] = None
    BY <1>t, <1>1, <1>4, <1>5, Entry
  <2>4. Service!Right(Asking[c].share, Asking[c].user) = None
    BY <2>3 DEF Service!Right
  <2> QED BY <1>2, <1>4, <2>2, <2>4 DEF Service!RefuseTree, Service!Ask
<1>6. ASSUME shares[h[c].share] # None
      PROVE  UNCHANGED Service!accessVars
  <2> DEFINE b == shares[h[c].share]
             r == [h[c] EXCEPT !.pc = "tree_auth", !.bind = b]
  <2>0. b \in Bindings /\ h[c] \in Handler
    BY <1>t, <1>1, <1>6 DEF TypeOK, DataTypes
  <2> HIDE DEF b
  <2>1. /\ r \in Handler /\ r.pc = "tree_auth" /\ r.bind = b
        /\ r.sess = h[c].sess /\ r.user = h[c].user
        /\ r.share = h[c].share /\ r.access = h[c].access
    BY <2>0 DEF Handler, HandlerPCs
  <2>2. SetH(c, r)
    BY <1>6 DEF TreeFind, b
  <2> HIDE DEF r
  <2>3. h'[c] = r
    BY <1>t, <2>1, <2>2, SetHandles
  <2>4. RequestOf(h'[c]) = RequestOf(h[c]) /\ Kind(h'[c].pc) = "ask"
    BY <1>1, <2>1, <2>3 DEF RequestOf, Kind
  <2>5. RequestIn(c)' = Asking[c]
    BY <1>3, <2>4, RequestThen
  <2>6. shares' = shares
    BY <1>1 DEF configVars
  <2>7. Stale(c)' = FALSE
    BY <2>1, <2>3, <2>6 DEF Stale, b
  <2>8. UNCHANGED <<Asking, StaleRequests>>
    <3>1. Asking = [d \in Conns |-> Asking[d]]
          /\ StaleRequests = [d \in Conns |-> StaleRequests[d]]
      BY DEF Asking, StaleRequests
    <3> QED BY <1>2, <1>3, <2>5, <2>7, <3>1
  <2> QED BY <1>2, <2>8 DEF Service!accessVars, Service!clientVars
<1> QED BY <1>5, <1>6

(* The right AccessControl sees on a listed share is the one its ACL gives. *)
LEMMA RightGiven ==
    ASSUME TypeOK, NEW n \in Names, shares[n] # None, NEW u
    PROVE  Service!Right(n, u) = Authorize(shares[n], u)
<1>1. ShareTable[n] # None /\ ShareTable[n] = acl[shares[n]]
  BY Entry
<1> QED BY <1>1 DEF Service!Right, Authorize

(* A request is granted, or refused, on the share it has found: the one    *)
(* that is listed, or one that has been removed since.                     *)
LEMMA AuthorizeAccess ==
    ASSUME SmbInv, SmbInv', [Next]_vars, NEW c \in Conns, TreeAuthorize(c)
    PROVE  Service!RefuseTree(c) \/ \E x \in {"Read", "ReadWrite"} : Service!CheckTree(c, x)
<1>t. TypeOK /\ DataTypes /\ Owned /\ Carried
  BY DEF SmbInv, ConfigInv, TypeInv
<1>1. /\ h[c].pc = "tree_auth" /\ h[c].share \in Names /\ h[c].bind \in Bindings
      /\ h[c].sess \in Sessions /\ h[c].user \in Identities
      /\ Handles(c) /\ WentOn(c)
      /\ UNCHANGED <<configVars, conn, sst, suser, tst, tsess, tbind, tacc, w>>
  BY <1>t, QuietEffect
     DEF QuietStep, TreeAuthorize, HAt, connVars, Carried, CarriedBy, TreePCs, Owned
<1>2. /\ UNCHANGED <<Service!tableVars, LiveSessions, LiveTrees, Leaving, Due>>
      /\ Asking' = [Asking EXCEPT ![c] = RequestIn(c)']
      /\ StaleRequests' = [StaleRequests EXCEPT ![c] = Stale(c)']
  BY <1>1, AskFrame
<1>3. Asking[c] = RequestOf(h[c])
  BY <1>1, RequestShows DEF Kind
<1>4. /\ Asking[c].kind = "ask" /\ Asking[c].share = h[c].share
      /\ Asking[c].user = h[c].user /\ Asking[c].sess = h[c].sess
  BY <1>1, <1>3 DEF RequestOf, Kind
<1> DEFINE granted == Authorize(h[c].bind, h[c].user)
<1>5. StaleRequests[c] \/ Service!Right(Asking[c].share, Asking[c].user) = granted
  <2>1. CASE shares[h[c].share] = h[c].bind
    <3>1. shares[h[c].share] # None
      BY <1>1, <2>1, NoneAssumption
    <3> QED BY <1>t, <1>1, <1>4, <2>1, <3>1, RightGiven
  <2>2. CASE shares[h[c].share] # h[c].bind
    BY <1>1, <2>2 DEF StaleRequests, Stale, HAt
  <2> QED BY <2>1, <2>2
<1>6. granted \in Access \cup {None}
  BY <1>t, <1>1, AuthorizeType
<1>7. ASSUME granted = None
      PROVE  Service!RefuseTree(c)
  <2>1. h'[c].pc = "idle"
    BY <1>t, <1>7, EndHandles DEF TreeAuthorize
  <2>2. RequestIn(c)' = Service!NoRequest /\ Stale(c)' = FALSE
    BY <2>1, RequestThen DEF Kind, Stale
  <2> QED BY <1>2, <1>4, <1>5, <1>7, <2>2 DEF Service!RefuseTree, Service!Ask
<1>8. ASSUME granted # None
      PROVE  \E x \in {"Read", "ReadWrite"} : Service!CheckTree(c, x)
  <2> DEFINE x == IF h[c].bind \in ReadOnlyBackends THEN "Read" ELSE granted
             r == [h[c] EXCEPT !.pc = "tree_insert", !.access = x]
  <2>0. SetH(c, r)
    BY <1>8 DEF TreeAuthorize
  <2> HIDE DEF granted
  <2>1. x \in Access /\ x \in {"Read", "ReadWrite"} /\ x \in {granted, "Read"}
    BY <1>6, <1>8 DEF Access
  <2> HIDE DEF x
  <2>2. /\ r \in Handler /\ r.pc = "tree_insert" /\ r.access = x
        /\ r.sess = h[c].sess /\ r.user = h[c].user /\ r.share = h[c].share
    <3>1. h[c] \in Handler
      BY <1>t DEF DataTypes
    <3> QED BY <2>1, <3>1 DEF Handler, HandlerPCs
  <2> HIDE DEF r
  <2>3. h'[c] = r
    BY <1>t, <2>0, <2>2, SetHandles
  <2>4. RequestIn(c)' = RequestOf(h'[c]) /\ Stale(c)' = FALSE
    BY <2>2, <2>3, RequestThen DEF Kind, Stale
  <2>5. RequestOf(h'[c]) = [kind |-> "enter", user |-> h[c].user, sess |-> h[c].sess,
                            share |-> h[c].share, access |-> x]
    BY <2>2, <2>3 DEF RequestOf, Kind
  <2>6. Asking[c] \in Fields
    <3>1. h[c] \in Handler
      BY <1>t DEF DataTypes
    <3> QED BY <1>1, <1>3, <3>1 DEF RequestOf, Kind, Fields, Handler
  <2>7. RequestIn(c)' = [Asking[c] EXCEPT !.kind = "enter", !.access = x]
    <3> DEFINE e == Asking[c]
    <3> HIDE DEF e
    <3>1. [e EXCEPT !.kind = "enter", !.access = x]
            = [kind |-> "enter", user |-> e.user, sess |-> e.sess, share |-> e.share,
               access |-> x]
      BY <2>1, <2>6, EnterFields DEF e
    <3> QED BY <1>4, <2>4, <2>5, <3>1 DEF e
  <2>8. StaleRequests[c] \/ /\ Service!Right(Asking[c].share, Asking[c].user) # None
                            /\ x \in {Service!Right(Asking[c].share, Asking[c].user), "Read"}
    BY <1>5, <1>8, <2>1
  <2>9. Service!CheckTree(c, x)
    BY <1>2, <1>4, <2>4, <2>7, <2>8 DEF Service!CheckTree, Service!Ask
  <2> QED BY <2>1, <2>9
<1> QED BY <1>7, <1>8


(* What is on the list of a call is what that call is about.               *)
ListedMeans ==
    \A a \in Admins : \A x \in Sessions \cup Trees : Shown(x) /\ OnList(a, x) =>
        Stages[a] \in {"removing", "closing"} /\ Service!About(job[a], x)

LEMMA ListedNow == SmbInv => ListedMeans
<1> SUFFICES ASSUME SmbInv, NEW a \in Admins, NEW x \in Sessions \cup Trees,
                    Shown(x), OnList(a, x)
             PROVE  Stages[a] \in {"removing", "closing"} /\ Service!About(job[a], x)
  BY DEF ListedMeans
<1> USE ObjectTypes
<1>t. ShownMeans /\ TypeOK
  BY ShownNow DEF SmbInv, ConfigInv, TypeInv
<1>1. pc[a] \in {"snapshot", "clean", "sweep", "sweeping"}
  BY DEF OnList, SessionDue, TreeDue
<1>2. Stages[a] \in {"removing", "closing"}
  BY <1>t, <1>1, StageValues
<1>3. CASE x \in Sessions
  <2>1. LiveSessions[x] = suser[x]
    BY <1>t, <1>3 DEF ShownMeans
  <2> QED BY <1>2, <1>3, <2>1 DEF OnList, SessionDue, Service!About
<1>4. CASE x \in Trees
  <2>1. tsess[x] \in Sessions /\ Shown(tsess[x]) /\ x \notin Sessions
    BY <1>t, <1>4 DEF ShownMeans
  <2>2. LiveSessions[tsess[x]] = suser[tsess[x]]
    BY <1>t, <2>1 DEF ShownMeans
  <2>3. LiveTrees[x] = [sess |-> tsess[x], share |-> bname[tbind[x]],
                        access |-> tacc[x]]
    BY <1>t, <1>4 DEF ShownMeans
  <2>4. LiveTrees[x].sess = tsess[x] /\ LiveTrees[x].share = bname[tbind[x]]
    BY <2>3
  <2>5. Service!About(job[a], x) <=>
            /\ job[a].op \in {"remove_share", "revoke_share_user", "set_share_mode"}
            /\ bname[tbind[x]] = job[a].share
            /\ job[a].op = "revoke_share_user" => suser[tsess[x]] = job[a].user
    BY <2>1, <2>2, <2>4 DEF Service!About
  <2> QED BY <1>2, <2>1, <2>5 DEF OnList, TreeDue
<1> QED BY <1>3, <1>4

LEMMA ListedThen == SmbInv' => ListedMeans'
BY ListedNow, PTL

(* What enters is due only to the calls that are about it.                 *)
LEMMA EntryJoins ==
    ASSUME SmbInv, SmbInv', UNCHANGED <<configVars, w>>,
           NEW x \in Sessions \cup Trees, ~Shown(x), Shown(x)',
           \A y \in Sessions \cup Trees : y # x => (Shown(y)' <=> Shown(y)),
           \A a \in Admins : \A y \in Sessions \cup Trees :
                y # x /\ Shown(y) => (OnList(a, y)' <=> OnList(a, y)),
           \A c \in Conns : x \notin w[c].sids \cup w[c].rm
    PROVE  Service!Joins(x)
<1>t. ShownMeans /\ ShownMeans' /\ ListedMeans'
  BY ShownNow, ShownThen, ListedThen DEF SmbInv
<1>1. UNCHANGED Leaving
  <2>1. ASSUME NEW c \in Conns
        PROVE  Leaving'[c] = Leaving[c]
    <3>1. /\ Leaving[c] = {y \in Sessions \cup Trees :
                              Shown(y) /\ y \in w[c].sids \cup w[c].rm}
          /\ Leaving'[c] = {y \in Sessions \cup Trees :
                              Shown(y)' /\ y \in w'[c].sids \cup w'[c].rm}
      BY <1>t DEF ShownMeans
    <3> QED BY <3>1
  <2> QED BY <2>1 DEF Leaving
<1>2. Stages' = Stages
  BY DEF configVars, Stages
<1>3. ASSUME NEW a \in Admins, Due'[a] # Due[a]
      PROVE  /\ Stages[a] \in {"removing", "closing"}
             /\ Due'[a] = Due[a] \cup {x} /\ Service!About(job[a], x)'
  <2>1. /\ Due[a] = {y \in Sessions \cup Trees : Shown(y) /\ OnList(a, y)}
        /\ Due'[a] = {y \in Sessions \cup Trees : Shown(y)' /\ OnList(a, y)'}
    BY <1>t DEF ShownMeans
  <2>2. OnList(a, x)'
    BY <1>3, <2>1
  <2>3. Stages'[a] \in {"removing", "closing"} /\ Service!About(job[a], x)'
    BY <1>t, <2>2 DEF ListedMeans
  <2>4. Due'[a] = Due[a] \cup {x}
    BY <2>1, <2>2
  <2> QED BY <1>2, <2>3, <2>4
<1> QED BY <1>1, <1>3 DEF Service!Joins

(* A request that ends shows nothing any more.                             *)
LEMMA EntryEnds ==
    ASSUME SmbInv, NEW c \in Conns, EndRequest(c), h[c].pc # "tree_auth",
           UNCHANGED configVars
    PROVE  /\ UNCHANGED <<Service!tableVars, StaleRequests>>
           /\ Asking' = [Asking EXCEPT ![c] = Service!NoRequest]
<1>1. Handles(c) /\ h'[c].pc = "idle"
  BY EndHandles DEF SmbInv
<1>2. UNCHANGED shares
  BY DEF configVars
<1>3. ASSUME NEW d \in Conns \ {c}
      PROVE  Asking'[d] = Asking[d] /\ StaleRequests'[d] = StaleRequests[d]
  <2>1. h'[d] = h[d]
    BY <1>1 DEF Handles
  <2> QED BY <1>2, <2>1 DEF Asking, RequestIn, StaleRequests, Stale, HAt
<1>4. Asking'[c] = Service!NoRequest /\ StaleRequests'[c] = StaleRequests[c]
  <2>1. RequestIn(c)' = Service!NoRequest
    BY <1>1, RequestThen DEF Kind
  <2> QED BY <1>1, <2>1 DEF Asking, StaleRequests, Stale, HAt
<1>5. Asking' = [Asking EXCEPT ![c] = Service!NoRequest]
  <2>1. Asking = [d \in Conns |-> Asking[d]] /\ Asking' = [d \in Conns |-> Asking'[d]]
    BY DEF Asking
  <2> QED BY <1>3, <1>4, <2>1
<1>6. UNCHANGED StaleRequests
  BY <1>3, <1>4 DEF StaleRequests
<1> QED BY <1>5, <1>6, ServiceTableKept

(* A session that is inserted is that of the user who was checked.         *)
LEMMA SetupAccess ==
    ASSUME SmbInv, SmbInv', [Next]_vars, NEW c \in Conns, SetupInsert(c)
    PROVE  \E s \in Sessions : Service!Login(c, s)
<1> USE ObjectTypes
<1>t. DataTypes /\ ConnUsed /\ Owned /\ Carried /\ Nested /\ ShownMeans /\ ShownMeans'
  BY ShownNow, ShownThen DEF SmbInv
<1>1. PICK s \in Fresh(c, sst) : /\ sst' = [sst EXCEPT ![s] = "live"]
                                 /\ suser' = [suser EXCEPT ![s] = h[c].user]
  BY DEF SetupInsert
<1>2. /\ h[c].pc = "setup_insert" /\ EndRequest(c)
      /\ UNCHANGED <<configVars, conn, tst, tsess, tbind, tacc, w>>
  BY DEF SetupInsert, HAt
<1>3. /\ s \in Sessions /\ s[1] = c /\ sst[s] = "free" /\ conn[c] = "on"
      /\ sst'[s] = "live" /\ suser'[s] = h[c].user
      /\ \A y \in Sessions \ {s} : sst'[y] = sst[y] /\ suser'[y] = suser[y]
  BY <1>t, <1>1, <1>2 DEF Fresh, DataTypes, ConnUsed, HAt
<1>4. ~Shown(s) /\ Shown(s)'
  BY <1>2, <1>3 DEF Shown, Established
<1>5. \A t \in Trees : tst[t] = "live" => tsess[t] \in Sessions \ {s}
  BY <1>t, <1>3 DEF Owned
<1>6. \A y \in Sessions \cup Trees : y # s => (Shown(y)' <=> Shown(y))
  BY <1>2, <1>3, <1>5 DEF Shown, EstablishedTree, Established
<1>7. ASSUME NEW a \in Admins, NEW y \in Sessions \cup Trees, y # s, Shown(y)
      PROVE  OnList(a, y)' <=> OnList(a, y)
  <2>1. UNCHANGED <<pc, job, bname>>
    BY <1>2 DEF configVars
  <2>2. CASE y \in Sessions
    BY <1>2, <1>3, <1>7, <2>1, <2>2 DEF OnList, SessionDue
  <2>3. CASE y \in Trees
    <3>1. tst[y] = "live"
      BY <1>7, <2>3 DEF Shown, EstablishedTree
    <3>2. suser'[tsess[y]] = suser[tsess[y]]
      BY <1>3, <1>5, <2>3, <3>1
    <3> QED BY <1>2, <2>1, <2>3, <3>2 DEF OnList, TreeDue
  <2> QED BY <2>2, <2>3
<1>8. \A d \in Conns : s \notin w[d].sids \cup w[d].rm
  <2>1. ASSUME NEW d \in Conns
        PROVE  s \notin w[d].sids \cup w[d].rm
    <3>1. w[d] \in Work /\ NestedIn(d)
      BY <1>t DEF DataTypes, Nested
    <3> QED BY <1>3, <3>1 DEF NestedIn, Work
  <2> QED BY <2>1
<1>9. Service!Joins(s)
  BY <1>2, <1>3, <1>4, <1>6, <1>7, <1>8, EntryJoins
<1>10. /\ UNCHANGED <<Service!tableVars, StaleRequests>>
       /\ Asking' = [Asking EXCEPT ![c] = Service!NoRequest]
  BY <1>2, EntryEnds
<1>11. Asking[c].kind = "login" /\ Asking[c].user = h[c].user
  <2>1. Asking[c] = RequestOf(h[c])
    BY <1>2, RequestShows DEF Kind
  <2> QED BY <1>2, <2>1 DEF RequestOf, Kind
<1>12. LiveSessions[s] = None
  BY <1>t, <1>3, <1>4 DEF ShownMeans
<1>13. LiveSessions' = [LiveSessions EXCEPT ![s] = Asking[c].user]
  <2>1. ASSUME NEW y \in Sessions
        PROVE  LiveSessions'[y] = IF y = s THEN Asking[c].user ELSE LiveSessions[y]
    <3>1. LiveSessions[y] = IF Shown(y) THEN suser[y] ELSE None
      BY <1>t DEF ShownMeans
    <3>2. LiveSessions'[y] = IF Shown(y)' THEN suser'[y] ELSE None
      BY <1>t DEF ShownMeans
    <3> QED BY <1>3, <1>4, <1>6, <1>11, <3>1, <3>2
  <2>2. /\ LiveSessions = [y \in Sessions |-> LiveSessions[y]]
        /\ LiveSessions' = [y \in Sessions |-> LiveSessions'[y]]
    BY DEF LiveSessions
  <2> QED BY <2>1, <2>2
<1>14. UNCHANGED LiveTrees
  <2>1. ASSUME NEW t \in Trees
        PROVE  LiveTrees'[t] = LiveTrees[t]
    <3>1. EstablishedTree(t)' <=> EstablishedTree(t)
      BY <1>3, <1>6 DEF Shown
    <3>2. UNCHANGED bname
      BY <1>2 DEF configVars
    <3> QED BY <1>2, <3>1, <3>2 DEF LiveTrees, NoTree
  <2> QED BY <2>1 DEF LiveTrees
<1> QED BY <1>3, <1>9, <1>10, <1>11, <1>12, <1>13, <1>14 DEF Service!Login


(* A tree that is inserted is what was granted; in a session that is gone  *)
(* it never comes to be.                                                   *)
LEMMA InsertAccess ==
    ASSUME SmbInv, SmbInv', [Next]_vars, FoundNamed, NEW c \in Conns, TreeInsert(c)
    PROVE  Service!EnterNowhere(c) \/ \E t \in Trees : Service!EnterTree(c, t)
<1> USE ObjectTypes
<1>t. DataTypes /\ ConnUsed /\ Owned /\ Carried /\ Nested /\ ShownMeans /\ ShownMeans'
  BY ShownNow, ShownThen DEF SmbInv
<1>1. PICK t \in Fresh(c, tst) : /\ tst' = [tst EXCEPT ![t] = "live"]
                                 /\ tsess' = [tsess EXCEPT ![t] = h[c].sess]
                                 /\ tbind' = [tbind EXCEPT ![t] = h[c].bind]
                                 /\ tacc' = [tacc EXCEPT ![t] = h[c].access]
  BY DEF TreeInsert
<1>2. /\ h[c].pc = "tree_insert" /\ EndRequest(c)
      /\ UNCHANGED <<configVars, conn, sst, suser, w>>
  BY DEF TreeInsert, HAt
<1>3. /\ t \in Trees /\ t[1] = c /\ tst[t] = "free" /\ tst'[t] = "live"
      /\ tsess'[t] = h[c].sess /\ tbind'[t] = h[c].bind /\ tacc'[t] = h[c].access
      /\ \A y \in Trees \ {t} : /\ tst'[y] = tst[y] /\ tsess'[y] = tsess[y]
                                /\ tbind'[y] = tbind[y] /\ tacc'[y] = tacc[y]
  BY <1>t, <1>1 DEF Fresh, DataTypes
<1>4. /\ h[c].sess \in Sessions /\ h[c].sess[1] = c
      /\ bname[h[c].bind] = h[c].share
  BY <1>t, <1>2 DEF Carried, CarriedBy, TreePCs, FoundNamed
<1>5. ~Shown(t) /\ (Shown(t)' <=> Shown(h[c].sess))
  BY <1>2, <1>3, <1>4 DEF Shown, EstablishedTree, Established
<1>6. \A y \in Sessions \cup Trees : y # t => (Shown(y)' <=> Shown(y))
  BY <1>2, <1>3 DEF Shown, EstablishedTree, Established
<1>7. ASSUME NEW a \in Admins, NEW y \in Sessions \cup Trees, y # t, Shown(y)
      PROVE  OnList(a, y)' <=> OnList(a, y)
  <2>1. UNCHANGED <<pc, job, bname>>
    BY <1>2 DEF configVars
  <2>2. CASE y \in Sessions
    BY <1>2, <2>1, <2>2 DEF OnList, SessionDue
  <2>3. CASE y \in Trees
    BY <1>2, <1>3, <1>7, <2>1, <2>3 DEF OnList, TreeDue
  <2> QED BY <2>2, <2>3
<1>8. ASSUME NEW p \in Actors
      PROVE  t \notin w[p].sids \cup w[p].rm
  <2>1. w[p] \in Work /\ NestedIn(p)
    BY <1>t DEF DataTypes, Nested
  <2> QED BY <1>3, <2>1 DEF NestedIn, Work
<1>9. /\ UNCHANGED <<Service!tableVars, StaleRequests>>
      /\ Asking' = [Asking EXCEPT ![c] = Service!NoRequest]
  BY <1>2, EntryEnds
<1>10. /\ Asking[c].kind = "enter" /\ Asking[c].sess = h[c].sess
       /\ Asking[c].share = h[c].share /\ Asking[c].access = h[c].access
  <2>1. Asking[c] = RequestOf(h[c])
    BY <1>2, RequestShows DEF Kind
  <2> QED BY <1>2, <2>1 DEF RequestOf, Kind
<1>11. UNCHANGED LiveSessions
  BY <1>2 DEF LiveSessions, Established
<1>12. Service!NoTree = NoTree /\ NoTree' = NoTree
  BY DEF Service!NoTree, NoTree
<1>13. LiveTrees[t] = NoTree
  BY <1>t, <1>3, <1>5 DEF ShownMeans
<1>14. ASSUME NEW y \in Trees, y # t
       PROVE  LiveTrees'[y] = LiveTrees[y]
  <2>1. EstablishedTree(y)' <=> EstablishedTree(y)
    BY <1>6, <1>14 DEF Shown
  <2>2. UNCHANGED bname
    BY <1>2 DEF configVars
  <2> QED BY <1>3, <1>12, <1>14, <2>1, <2>2 DEF LiveTrees
<1>15. ASSUME Shown(h[c].sess)
       PROVE  Service!EnterTree(c, t)
  <2>1. Service!Joins(t)
    BY <1>2, <1>3, <1>5, <1>6, <1>7, <1>8, <1>15, EntryJoins
  <2>2. LiveTrees'[t] = [sess |-> h[c].sess, share |-> h[c].share,
                         access |-> h[c].access]
    <3>1. EstablishedTree(t)'
      BY <1>3, <1>5, <1>15 DEF Shown
    <3>2. UNCHANGED bname
      BY <1>2 DEF configVars
    <3> QED BY <1>3, <1>4, <3>1, <3>2 DEF LiveTrees
  <2>3. LiveTrees' = [LiveTrees EXCEPT ![t] =
                        [sess |-> Asking[c].sess, share |-> Asking[c].share,
                         access |-> Asking[c].access]]
    <3>1. /\ LiveTrees = [y \in Trees |-> LiveTrees[y]]
          /\ LiveTrees' = [y \in Trees |-> LiveTrees'[y]]
      BY DEF LiveTrees
    <3> QED BY <1>3, <1>10, <1>14, <2>2, <3>1
  <2>4. LiveSessions[Asking[c].sess] # None
    BY <1>t, <1>4, <1>10, <1>15 DEF ShownMeans
  <2> QED BY <1>3, <1>9, <1>10, <1>11, <1>12, <1>13, <2>1, <2>3, <2>4
          DEF Service!EnterTree
<1>16. ASSUME ~Shown(h[c].sess)
       PROVE  Service!EnterNowhere(c)
  <2>1. LiveSessions[Asking[c].sess] = None
    BY <1>t, <1>4, <1>10, <1>16 DEF ShownMeans
  <2>2. LiveTrees'[t] = LiveTrees[t]
    BY <1>t, <1>3, <1>5, <1>12, <1>13, <1>16 DEF ShownMeans
  <2>3. UNCHANGED LiveTrees
    BY <1>14, <2>2 DEF LiveTrees
  <2>4. \A y \in Sessions \cup Trees : Shown(y)' <=> Shown(y)
    BY <1>5, <1>6, <1>16
  <2>5. ASSUME NEW a \in Admins
        PROVE  Due'[a] = Due[a]
    <3>1. /\ Due[a] = {y \in Sessions \cup Trees : Shown(y) /\ OnList(a, y)}
          /\ Due'[a] = {y \in Sessions \cup Trees : Shown(y)' /\ OnList(a, y)'}
      BY <1>t DEF ShownMeans
    <3>2. \A y \in Sessions \cup Trees : Shown(y) => y # t
      BY <1>5
    <3>3. \A y \in Sessions \cup Trees : Shown(y) => (OnList(a, y)' <=> OnList(a, y))
      BY <1>7, <3>2
    <3> QED BY <2>4, <3>1, <3>3
  <2>6. ASSUME NEW d \in Conns
        PROVE  Leaving'[d] = Leaving[d]
    <3>1. /\ Leaving[d] = {y \in Sessions \cup Trees :
                              Shown(y) /\ y \in w[d].sids \cup w[d].rm}
          /\ Leaving'[d] = {y \in Sessions \cup Trees :
                              Shown(y)' /\ y \in w'[d].sids \cup w'[d].rm}
      BY <1>t DEF ShownMeans
    <3> QED BY <1>2, <2>4, <3>1
  <2>7. UNCHANGED <<Leaving, Due>>
    BY <2>5, <2>6 DEF Leaving, Due
  <2> QED BY <1>9, <1>10, <1>11, <2>1, <2>3, <2>7
          DEF Service!EnterNowhere, Service!Ask
<1> QED BY <1>3, <1>15, <1>16

(* LOGOFF and TREE_DISCONNECT begin to close one thing of their client's.  *)
LEMMA LeaveAccess ==
    ASSUME SmbInv, SmbInv', [Next]_vars, NEW c \in Conns, NEW x \in Sessions \cup Trees,
           \/ x \in Sessions /\ Logoff(c, x)
           \/ x \in Trees /\ TreeDisconnect(c, x)
    PROVE  x \in Service!Live /\ Service!AskLeave(c, x)
<1> USE ObjectTypes
<1>t. DataTypes /\ WorkOfClient /\ ShownMeans /\ ShownMeans'
  BY ShownNow, ShownThen DEF SmbInv
<1>1. /\ HAt(c, "idle") /\ x[1] = c /\ Shown(x)
      /\ SetH(c, [Idle EXCEPT !.pc = "closing"])
      /\ UNCHANGED <<configVars, conn, sst, suser, tst, tsess, tbind, tacc>>
  BY DEF Logoff, TreeDisconnect, Request, Shown, connVars
<1>2. Handles(c) /\ h'[c].pc = "closing"
  <2> DEFINE r == [Idle EXCEPT !.pc = "closing"]
  <2>1. r \in Handler /\ r.pc = "closing"
    BY IdleType DEF Handler, HandlerPCs
  <2> HIDE DEF r
  <2> QED BY <1>t, <1>1, <2>1, SetHandles DEF r
<1>3. w[c].sids = {} /\ w[c].rm = {}
  BY <1>t, <1>1 DEF WorkOfClient, NoWork, HAt
<1>4. /\ \A q \in Actors \ {c} : w'[q] = w[q]
      /\ w'[c].sids \cup w'[c].rm = {x}
  BY <1>t, <1>3, RequestWork DEF Assigned
<1>5. /\ UNCHANGED <<LiveSessions, LiveTrees>>
      /\ \A y \in Sessions \cup Trees : Shown(y)' <=> Shown(y)
  BY <1>1, SameSight
<1>6. UNCHANGED Due
  <2>1. ASSUME NEW a \in Admins
        PROVE  Due'[a] = Due[a]
    <3>1. w'[a] = w[a] /\ pc' = pc /\ job' = job
      BY <1>1, <1>4, ObjectAssumption DEF configVars
    <3>2. \A y \in Sessions \cup Trees : Shown(y) => (OnList(a, y)' <=> OnList(a, y))
      BY <1>1, <3>1, OthersDue
    <3> QED BY <1>1, <3>2, SameSight
  <2> QED BY <2>1 DEF Due
<1>7. Leaving' = [Leaving EXCEPT ![c] = {x}]
  <2>1. ASSUME NEW d \in Conns
        PROVE  Leaving'[d] = IF d = c THEN {x} ELSE Leaving[d]
    <3>1. /\ Leaving[d] = {y \in Sessions \cup Trees :
                              Shown(y) /\ y \in w[d].sids \cup w[d].rm}
          /\ Leaving'[d] = {y \in Sessions \cup Trees :
                              Shown(y)' /\ y \in w'[d].sids \cup w'[d].rm}
      BY <1>t DEF ShownMeans
    <3>2. CASE d = c
      BY <1>1, <1>4, <1>5, <3>1, <3>2
    <3>3. CASE d # c
      BY <1>4, <1>5, <3>1, <3>3
    <3> QED BY <3>2, <3>3
  <2>2. /\ Leaving = [d \in Conns |-> Leaving[d]]
        /\ Leaving' = [d \in Conns |-> Leaving'[d]]
    BY DEF Leaving
  <2> QED BY <2>1, <2>2
<1>8. Asking[c] = Service!NoRequest
  BY <1>1, RequestShows DEF Kind, HAt
<1>9. UNCHANGED <<Asking, StaleRequests>>
  <2>1. ASSUME NEW d \in Conns
        PROVE  Asking'[d] = Asking[d] /\ StaleRequests'[d] = StaleRequests[d]
    <3>1. CASE d = c
      BY <1>1, <1>2, <1>8, <3>1, RequestThen
         DEF Asking, Kind, StaleRequests, Stale, HAt
    <3>2. CASE d # c
      <4>1. h'[d] = h[d] /\ shares' = shares
        BY <1>1, <1>2, <3>2 DEF Handles, configVars
      <4> QED BY <4>1 DEF Asking, RequestIn, StaleRequests, Stale, HAt
    <3> QED BY <3>1, <3>2
  <2> QED BY <2>1 DEF Asking, StaleRequests
<1>10. x \in Service!Live
  BY <1>t, <1>1 DEF ShownMeans
<1> QED BY <1>1, <1>5, <1>6, <1>7, <1>8, <1>9, <1>10, ServiceTableKept
        DEF Service!AskLeave


(* The requests and steps of handlers that clients see nothing of.         *)
LEMMA UnseenAccess ==
    ASSUME SmbInv, SmbInv', [Next]_vars, NEW c \in Conns,
           \/ SetupAnonymous(c) \/ \E t \in Trees : Create(c, t)
           \/ \E t \in Trees : \E o \in Opens : Close(c, t, o) \/ FileIo(c, t, o)
           \/ AnonList(c) \/ AnonRefused(c) \/ ClosingDone(c)
           \/ CreateOpen(c) \/ CreateFailed(c) \/ CreateInsert(c)
           \/ CloseRemove(c) \/ CloseTake(c) \/ CloseHandle(c)
           \/ IoLookup(c) \/ IoBegin(c) \/ IoEnd(c)
    PROVE  UNCHANGED Service!accessVars
<1>t. /\ TypeOK /\ DataTypes /\ Owned /\ Carried
      /\ h \in [Conns -> Handler] /\ h[c] \in Handler
  BY DEF SmbInv, ConfigInv, TypeInv, DataTypes
<1> DEFINE Silent == /\ Handles(c)
                     /\ UNCHANGED <<configVars, conn, sst, suser, tst, tsess, tbind, tacc, w>>
                     /\ Kind(h[c].pc) = "none" /\ Kind(h'[c].pc) = "none"
<1>1. ASSUME SetupAnonymous(c)
      PROVE  Silent
  <2>1. Handles(c) /\ HAt(c, "idle")
    BY <1>t, <1>1, RequestEffect DEF NewRequest
  <2>2. h'[c].pc = "anon_list"
    BY <1>t, <1>1 DEF SetupAnonymous, SetH, Idle
  <2> QED BY <1>1, <2>1, <2>2 DEF SetupAnonymous, connVars, Kind, HAt
<1>2. ASSUME NEW t \in Trees, Create(c, t)
      PROVE  Silent
  <2>1. Handles(c) /\ HAt(c, "idle")
    BY <1>t, <1>2, RequestEffect DEF NewRequest
  <2>2. h'[c].pc = "create_open"
    BY <1>t, <1>2 DEF Create, SetH, Idle
  <2> QED BY <1>2, <2>1, <2>2 DEF Create, connVars, Kind, HAt
<1>3. ASSUME NEW t \in Trees, NEW o \in Opens, Close(c, t, o) \/ FileIo(c, t, o)
      PROVE  Silent
  <2>1. Handles(c) /\ HAt(c, "idle")
    BY <1>t, <1>3, RequestEffect DEF NewRequest
  <2>2. h'[c].pc \in {"close_remove", "io_lookup"}
    BY <1>t, <1>3 DEF Close, FileIo, FileRequest, SetH, Idle
  <2> QED BY <1>3, <2>1, <2>2 DEF Close, FileIo, FileRequest, connVars, Kind, HAt
<1>4. ASSUME AnonList(c)
      PROVE  Silent
  <2>1. Handles(c)
    BY <1>t, <1>4, QuietEffect DEF QuietStep
  <2>2. h[c].pc = "anon_list" /\ h'[c].pc = "anon_check"
    <3>1. h'[c] = [h[c] EXCEPT !.pc = "anon_check", !.todo = {b \in Bindings : Listed(b)}]
      BY <1>t, <1>4 DEF AnonList, SetH
    <3> QED BY <1>t, <1>4, <3>1 DEF AnonList, HAt, Handler
  <2> QED BY <1>4, <2>1, <2>2 DEF AnonList, connVars, Kind
<1>5. ASSUME AnonRefused(c) \/ ClosingDone(c) \/ CreateFailed(c) \/ IoEnd(c)
      PROVE  Silent
  <2>1. Handles(c) /\ h'[c].pc = "idle"
    BY <1>t, <1>5, EndHandles DEF AnonRefused, ClosingDone, CreateFailed, IoEnd
  <2>2. h[c].pc \in {"anon_check", "closing", "create_open", "io"}
    BY <1>5 DEF AnonRefused, ClosingDone, CreateFailed, IoEnd, HAt
  <2> QED BY <1>5, <2>1, <2>2
          DEF AnonRefused, ClosingDone, CreateFailed, IoEnd, connVars, Kind
<1>6. ASSUME IoLookup(c) \/ IoBegin(c)
      PROVE  Silent
  <2>1. Handles(c) /\ WentOn(c) /\ UNCHANGED <<configVars, connVars, w>>
    BY <1>t, <1>6, QuietEffect DEF QuietStep
  <2>2. h[c].pc \in {"io_lookup", "io_lock"}
    BY <1>6 DEF IoLookup, IoBegin, HAt
  <2>3. h'[c].pc \in {"idle", "io_lock", "io"}
    BY <1>t, <1>6, EndHandles, MoveHandles DEF IoLookup, IoBegin, HandlerPCs
  <2> QED BY <2>1, <2>2, <2>3 DEF connVars, Kind
<1>7. ASSUME \/ CreateOpen(c) \/ CreateInsert(c) \/ CloseRemove(c) \/ CloseTake(c)
             \/ CloseHandle(c)
      PROVE  Silent
  <2>1. Handles(c) /\ h'[c].pc \in {"idle", "create_insert", "close_take", "close_handle"}
    BY <1>t, <1>7, LoudEffect DEF LoudStep
  <2>2. /\ h[c].pc \in {"create_open", "create_insert", "close_remove", "close_take",
                        "close_handle"}
        /\ UNCHANGED <<configVars, conn, sst, suser, tst, tsess, tbind, tacc, w>>
    BY <1>7 DEF CreateOpen, CreateInsert, CloseRemove, CloseTake, CloseHandle, HAt
  <2> QED BY <2>1, <2>2 DEF Kind
<1> HIDE DEF Silent
<1>8. Silent
  BY <1>1, <1>2, <1>3, <1>4, <1>5, <1>6, <1>7
<1> QED BY <1>8, AskNothing DEF Silent

(* Every step of a client is a step of the client in AccessControl.        *)
LEMMA ClientAccess ==
    ASSUME SmbInv, SmbInv', [Next]_vars, FoundNamed, NEW c \in Conns,
           Connect(c) \/ Disconnect(c) \/ NewRequest(c) \/ HandlerStep(c)
    PROVE  Service!ClientStep(c) \/ UNCHANGED Service!accessVars
<1>t. TypeOK /\ DataTypes /\ h \in [Conns -> Handler] /\ h[c] \in Handler
  BY DEF SmbInv, ConfigInv, TypeInv, DataTypes
<1> DEFINE Goal == Service!ClientStep(c) \/ UNCHANGED Service!accessVars
<1>1. ASSUME Connect(c) \/ Disconnect(c)
      PROVE  Goal
  BY <1>1, ConnectionAccess DEF Service!ClientStep
<1>2. ASSUME NEW u \in users \cup {Anonymous}, Service!CheckLogin(c, u)
      PROVE  Goal
  <2>1. u \in Users \cup {Anonymous}
    BY <1>t DEF TypeOK
  <2> QED BY <1>2, <2>1 DEF Service!ClientStep
<1>3. ASSUME NEW u \in Users, SetupAuthenticate(c, u)
      PROVE  Goal
  <2>1. /\ u \in users \cup {Anonymous} /\ Kind(h[c].pc) = "none"
        /\ SetH(c, [Idle EXCEPT !.pc = "setup_insert", !.user = u])
        /\ UNCHANGED <<configVars, conn, sst, suser, tst, tsess, tbind, tacc, w>>
    BY <1>3 DEF SetupAuthenticate, Request, HAt, Kind, connVars
  <2>2. Service!CheckLogin(c, u)
    BY <2>1, LoginAccess
  <2> HIDE DEF Goal
  <2> QED BY <1>2, <2>1, <2>2
<1>4. ASSUME NEW b \in Bindings, AnonCheck(c, b)
      PROVE  Goal
  <2>1. /\ h[c].pc = "anon_check" /\ Kind(h[c].pc) = "none"
        /\ UNCHANGED <<configVars, conn, sst, suser, tst, tsess, tbind, tacc, w>>
    BY <1>4 DEF AnonCheck, HAt, Kind, connVars
  <2>2. CASE acl[b].mode \in PublicModes
    <3>1. SetH(c, [Idle EXCEPT !.pc = "setup_insert", !.user = Anonymous])
      BY <1>4, <2>2 DEF AnonCheck
    <3>2. Anonymous \in users \cup {Anonymous}
      OBVIOUS
    <3>3. Service!CheckLogin(c, Anonymous)
      BY <2>1, <3>1, <3>2, LoginAccess
    <3> HIDE DEF Goal
    <3> QED BY <1>2, <3>2, <3>3
  <2>3. CASE acl[b].mode \notin PublicModes
    <3>1. h'[c] = [h[c] EXCEPT !.todo = @ \ {b}]
      BY <1>t, <1>4, <2>3 DEF AnonCheck, SetH
    <3>2. h'[c].pc = h[c].pc
      BY <1>t, <3>1 DEF Handler
    <3>3. Handles(c)
      BY <1>4, QuietEffect DEF QuietStep, SmbInv, ConfigInv, TypeInv
    <3> QED BY <2>1, <3>2, <3>3, AskNothing
  <2> QED BY <2>2, <2>3
<1>5. ASSUME SetupInsert(c)
      PROVE  Goal
  BY <1>5, SetupAccess DEF Service!ClientStep
<1>6. ASSUME NEW s \in Sessions, NEW n \in Names, TreeConnect(c, s, n)
      PROVE  Goal
  BY <1>6, AskTreeAccess DEF Service!ClientStep
<1>7. ASSUME TreeFind(c) \/ TreeAuthorize(c)
      PROVE  Goal
  BY <1>7, FindAccess, AuthorizeAccess DEF Service!ClientStep
<1>8. ASSUME TreeInsert(c)
      PROVE  Goal
  BY <1>8, InsertAccess DEF Service!ClientStep
<1>9. ASSUME \/ \E s \in Sessions : Logoff(c, s)
             \/ \E t \in Trees : TreeDisconnect(c, t)
      PROVE  Goal
  <2>1. PICK x \in Sessions \cup Trees : \/ x \in Sessions /\ Logoff(c, x)
                                         \/ x \in Trees /\ TreeDisconnect(c, x)
    BY <1>9
  <2>2. x \in Service!Live /\ Service!AskLeave(c, x)
    BY <2>1, LeaveAccess
  <2> QED BY <2>2 DEF Service!ClientStep
<1> HIDE DEF Goal
<1>10. CASE NewRequest(c)
  BY <1>3, <1>6, <1>9, <1>10, UnseenAccess DEF NewRequest, Goal
<1>11. CASE HandlerStep(c)
  BY <1>4, <1>5, <1>7, <1>8, <1>11, UnseenAccess DEF HandlerStep, Goal
<1> QED BY <1>1, <1>10, <1>11 DEF Goal

(* Every step of the server is a step of AccessControl, or unseen.         *)
LEMMA StepAccess ==
    ASSUME SmbInv, SmbInv', FoundNamed, [Next]_vars
    PROVE  [Service!AccessNext]_(Service!accessVars)
<1>1. ASSUME NEW c \in Conns,
             \/ Connect(c) \/ Disconnect(c) \/ NewRequest(c) \/ HandlerStep(c)
      PROVE  Service!AccessNext \/ UNCHANGED Service!accessVars
  BY <1>1, ClientAccess DEF Service!AccessNext
<1>2. ASSUME NEW p \in Actors, ClosingStep(p)
      PROVE  Service!AccessNext \/ UNCHANGED Service!accessVars
  BY <1>2, ClosingAccess DEF Service!AccessNext, Service!ClientStep
<1>3. ASSUME NEW a \in Admins, CallStep(a) \/ ConfigStep(a) \/ ReturnSwept(a)
      PROVE  Service!AccessNext \/ UNCHANGED Service!accessVars
  BY <1>3, ControlAccess DEF Service!AccessNext
<1>4. ASSUME NEW a \in Admins,
             \/ ListConnections(a) \/ \E c \in Conns : SweepConnection(a, c)
             \/ \E s \in Sessions : ScanSession(a, s)
      PROVE  UNCHANGED Service!accessVars
  BY <1>4, VisitAccess
<1>5. ASSUME UNCHANGED vars
      PROVE  UNCHANGED Service!accessVars
  <2>1. UNCHANGED configVars
    BY <1>5 DEF vars
  <2>2. UNCHANGED Service!tableVars
    BY <2>1, ServiceTableKept
  <2>3. UNCHANGED <<LiveSessions, LiveTrees, Leaving, Due>>
    BY <1>5 DEF vars, configVars, dataVars, connVars, LiveSessions, LiveTrees, NoTree,
                Leaving, Due, Established, EstablishedTree, SessionDue, TreeDue
  <2>4. UNCHANGED <<Asking, StaleRequests>>
    BY <1>5 DEF vars, configVars, dataVars, Asking, RequestIn, StaleRequests, Stale, HAt
  <2> QED BY <2>2, <2>3, <2>4 DEF Service!accessVars, Service!clientVars
<1> QED BY <1>1, <1>2, <1>3, <1>4, <1>5 DEF Next, SweepStep

(* It starts as AccessControl does, with no clients and no calls.          *)
LEMMA InitAccess == Init => Service!AccessInit /\ FoundNamed
<1> SUFFICES ASSUME Init PROVE Service!AccessInit /\ FoundNamed
  OBVIOUS
<1> USE ObjectTypes
<1>1. Service!TableInit
  BY InitTable, ServiceTable DEF Init
<1>2. SmbInv
  BY InitSmbInv
<1>3. /\ \A c \in Conns : h[c].pc = "idle"
      /\ \A s \in Sessions : sst[s] = "free"
      /\ \A t \in Trees : tst[t] = "free"
      /\ \A a \in Admins : pc[a] = "idle"
  BY IdleType DEF Init, DataInit, ConfigInit
<1>4. ShownMeans /\ \A x \in Sessions \cup Trees : ~Shown(x)
  BY <1>2, <1>3, ShownNow DEF SmbInv, Shown, Established, EstablishedTree
<1>5. /\ \A s \in Sessions : LiveSessions[s] = None
      /\ \A t \in Trees : LiveTrees[t] = NoTree
      /\ \A a \in Admins : Due[a] = {}
      /\ \A c \in Conns : Leaving[c] = {}
  BY <1>4 DEF ShownMeans
<1>6. \A c \in Conns : Asking[c] = Service!NoRequest /\ StaleRequests[c] = FALSE
  BY <1>3, RequestShows DEF Kind, StaleRequests, Stale
<1>7. Service!NoTree = NoTree
  BY DEF Service!NoTree, NoTree
<1>8. /\ LiveSessions = [s \in Sessions |-> None]
      /\ LiveTrees = [t \in Trees |-> Service!NoTree]
      /\ Due = [a \in Admins |-> {}] /\ Leaving = [c \in Conns |-> {}]
  <2>1. /\ LiveSessions = [s \in Sessions |-> LiveSessions[s]]
        /\ LiveTrees = [t \in Trees |-> LiveTrees[t]]
        /\ Due = [a \in Admins |-> Due[a]] /\ Leaving = [c \in Conns |-> Leaving[c]]
    BY DEF LiveSessions, LiveTrees, Due, Leaving
  <2> QED BY <1>5, <1>7, <2>1
<1>9. /\ Asking = [c \in Conns |-> Service!NoRequest]
      /\ StaleRequests = [c \in Conns |-> FALSE]
  <2>1. /\ Asking = [c \in Conns |-> Asking[c]]
        /\ StaleRequests = [c \in Conns |-> StaleRequests[c]]
    BY DEF Asking, StaleRequests
  <2> QED BY <1>6, <2>1
<1>10. FoundNamed
  BY <1>3 DEF FoundNamed
<1> QED BY <1>1, <1>8, <1>9, <1>10 DEF Service!AccessInit

(* Whatever locks, snapshots and sweeps the handlers and ConfigHandle go   *)
(* through, clients and administrators see the server of AccessControl: a  *)
(* session or tree enters on a check of the table as it was then, a call   *)
(* that takes rights away returns when all that was on them is gone, and   *)
(* nothing else is closed (session_setup.rs, tree_connect.rs, logoff.rs,   *)
(* tree_disconnect.rs, state.rs, server.rs).                               *)
THEOREM AccessRefinement == Spec => ImplementsAccess
<1>1. Init => SmbInv /\ FoundNamed /\ Service!AccessInit
  BY InitSmbInv, InitAccess
<1>2. SmbInv /\ FoundNamed /\ [Next]_vars =>
        /\ SmbInv' /\ FoundNamed'
        /\ [Service!AccessNext]_(Service!accessVars)
  BY StepSmbInv, StepFoundNamed, StepAccess
<1> QED BY <1>1, <1>2, PTL DEF Spec, ImplementsAccess, Service!AccessSpec
=============================================================================
