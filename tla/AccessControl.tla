---------------------------- MODULE AccessControl ----------------------------
(***************************************************************************)
(* What the server promises about its clients: AccessTable, and the        *)
(* sessions and trees they have on the strength of that table.  There are  *)
(* no locks, no handlers and no sweeps here.  A client logs in or connects *)
(* a tree in two moments, the check and the entry.  The check is made on   *)
(* the table as it is; the access of a tree is the one the check gave.     *)
(*                                                                         *)
(* A call that takes something away is about the sessions of its user, or  *)
(* the trees of its share.  When it takes effect all of them are due, and  *)
(* it returns when none of those is left.  What enters in between may      *)
(* become due too, or may stay: its check was made before.  Nothing is     *)
(* closed but by its own client, with its session, or because it is due.   *)
(*                                                                         *)
(* A share may be removed between the moment a request finds it and the    *)
(* check; the check is then made on rights nobody can see (stale).         *)
(***************************************************************************)
EXTENDS AccessTable

CONSTANTS
    Conns,       \* client connections
    Sessions,    \* session ids; the first part is the connection
    Trees,       \* tree ids, likewise
    Anonymous    \* who has not given a name

VARIABLES
    session,    \* the user of every session, None if there is none
    tree,       \* session, share and access of every tree
    request,    \* what each client has asked for
    stale,      \* its share was removed before the check
    leaving,    \* what each client is closing
    due         \* what each call has still to close

clientVars == <<session, tree, request, stale, leaving, due>>
accessVars == <<tableVars, clientVars>>

NoTree == [sess |-> None, share |-> None, access |-> None]
NoRequest == [kind |-> "none", user |-> None, sess |-> None, share |-> None,
              access |-> None]

IsLive(x) == IF x \in Sessions THEN session[x] # None ELSE tree[x].sess # None
Live == {x \in Sessions \cup Trees : IsLive(x)}

(* What a call is about.                                                   *)
About(c, x) ==
    IF x \in Sessions THEN c.op = "remove_user" /\ session[x] = c.user
    ELSE /\ c.op \in {"remove_share", "revoke_share_user", "set_share_mode"}
         /\ tree[x].share = c.share
         /\ c.op = "revoke_share_user" => session[tree[x].sess] = c.user

(* The right of u on share n, if any.                                      *)
Right(n, u) ==
    IF table[n] = None THEN None
    ELSE CASE table[n].mode = "Public" -> "ReadWrite"
           [] table[n].mode = "PublicReadOnly" -> "Read"
           [] OTHER -> IF u = Anonymous THEN None ELSE table[n].users[u]

AccessInit ==
    /\ TableInit
    /\ session = [s \in Sessions |-> None]
    /\ tree = [t \in Trees |-> NoTree]
    /\ request = [c \in Conns |-> NoRequest]
    /\ stale = [c \in Conns |-> FALSE]
    /\ leaving = [c \in Conns |-> {}]
    /\ due = [a \in Admins |-> {}]

-----------------------------------------------------------------------------
(* The calls.                                                              *)

(* A call that has taken something away returns when nothing is due.       *)
Control(a) ==
    /\ UNCHANGED <<session, tree, request, leaving>>
    /\ TableStep(a)
    /\ stage[a] = "closing" => due[a] = {}
    /\ due' = [due EXCEPT ![a] =
                 IF stage[a] = "called" /\ stage'[a] # "idle"
                   THEN {x \in Live : About(call[a], x)} ELSE @]
    /\ \A c \in Conns : stale'[c] # stale[c] =>
            /\ stale'[c] /\ request[c].kind = "ask"
            /\ table[request[c].share] # None /\ table'[request[c].share] = None

-----------------------------------------------------------------------------
(* The clients.                                                            *)

Ask(c, r) ==
    /\ request' = [request EXCEPT ![c] = r]
    /\ UNCHANGED <<tableVars, session, tree>>

(* What has entered, x, may become due to the calls that are about it.     *)
Joins(x) ==
    /\ UNCHANGED leaving
    /\ \A a \in Admins :
        due'[a] # due[a] => /\ stage[a] \in {"removing", "closing"}
                            /\ due'[a] = due[a] \cup {x} /\ About(call[a], x)'

CheckLogin(c, u) ==
    /\ request[c] = NoRequest
    /\ u \in known \cup {Anonymous}
    /\ Ask(c, [NoRequest EXCEPT !.kind = "login", !.user = u])
    /\ UNCHANGED <<stale, leaving, due>>

Login(c, s) ==
    /\ request[c].kind = "login"
    /\ s[1] = c /\ session[s] = None
    /\ session' = [session EXCEPT ![s] = request[c].user]
    /\ request' = [request EXCEPT ![c] = NoRequest]
    /\ Joins(s)
    /\ UNCHANGED <<tableVars, tree, stale>>

AskTree(c, s, n) ==
    /\ request[c] = NoRequest
    /\ s[1] = c /\ session[s] # None
    /\ Ask(c, [NoRequest EXCEPT !.kind = "ask", !.user = session[s],
                                !.sess = s, !.share = n])
    /\ UNCHANGED <<stale, leaving, due>>

(* A read-only backend leaves no more than Read of any right.              *)
CheckTree(c, x) ==
    LET right == Right(request[c].share, request[c].user) IN
    /\ request[c].kind = "ask"
    /\ stale[c] \/ (right # None /\ x \in {right, "Read"})
    /\ Ask(c, [request[c] EXCEPT !.kind = "enter", !.access = x])
    /\ stale' = [stale EXCEPT ![c] = FALSE]
    /\ UNCHANGED <<leaving, due>>

RefuseTree(c) ==
    /\ request[c].kind = "ask"
    /\ stale[c] \/ Right(request[c].share, request[c].user) = None
    /\ Ask(c, NoRequest)
    /\ stale' = [stale EXCEPT ![c] = FALSE]
    /\ UNCHANGED <<leaving, due>>

EnterTree(c, t) ==
    LET r == request[c] IN
    /\ r.kind = "enter"
    /\ session[r.sess] # None
    /\ t[1] = c /\ tree[t] = NoTree
    /\ tree' = [tree EXCEPT ![t] =
                  [sess |-> r.sess, share |-> r.share, access |-> r.access]]
    /\ request' = [request EXCEPT ![c] = NoRequest]
    /\ Joins(t)
    /\ UNCHANGED <<tableVars, session, stale>>

(* The session is gone: the tree never comes to be.                        *)
EnterNowhere(c) ==
    /\ request[c].kind = "enter"
    /\ session[request[c].sess] = None
    /\ Ask(c, NoRequest)
    /\ UNCHANGED <<stale, leaving, due>>

AskLeave(c, x) ==
    /\ request[c] = NoRequest
    /\ x[1] = c
    /\ leaving' = [leaving EXCEPT ![c] = {x}]
    /\ UNCHANGED <<tableVars, session, tree, request, stale, due>>

-----------------------------------------------------------------------------
(* The end of sessions and trees.                                          *)

(* The sessions and trees xs go, with the trees of those sessions.         *)
Close(xs) ==
    /\ session' = [s \in Sessions |-> IF s \in xs THEN None ELSE session[s]]
    /\ tree' = [t \in Trees |->
                  IF t \in xs \/ tree[t].sess \in xs THEN NoTree ELSE tree[t]]
    /\ leaving' = [c \in Conns |-> leaving[c] \cap Live']
    /\ due' = [a \in Admins |-> due[a] \cap Live']
    /\ UNCHANGED <<tableVars, request, stale>>

Leave(c, x) == x \in leaving[c] /\ Close({x})
TakeAway(a, x) == x \in due[a] /\ Close({x})
Disconnect(c) ==
    /\ request[c] = NoRequest
    /\ \E x \in Live : x[1] = c
    /\ Close({x \in Live : x[1] = c})

ClientStep(c) ==
    \/ \E u \in Users \cup {Anonymous} : CheckLogin(c, u)
    \/ \E s \in Sessions : Login(c, s) \/ \E n \in Names : AskTree(c, s, n)
    \/ \E x \in {"Read", "ReadWrite"} : CheckTree(c, x)
    \/ RefuseTree(c) \/ EnterNowhere(c)
    \/ \E t \in Trees : EnterTree(c, t)
    \/ \E x \in Live : AskLeave(c, x) \/ Leave(c, x)
    \/ Disconnect(c)

AccessNext ==
    \/ \E a \in Admins : Control(a) \/ \E x \in Live : TakeAway(a, x)
    \/ \E c \in Conns : ClientStep(c)

AccessSpec == AccessInit /\ [][AccessNext]_accessVars
=============================================================================
