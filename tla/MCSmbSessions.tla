---------------------------- MODULE MCSmbSessions ----------------------------
(* TLC instances of SmbSessions.  The .cfg files choose the actors and the *)
(* bounds; the calls an administrator makes are one of the sets defined    *)
(* here and in MCSessionTeams.                                             *)
EXTENDS SmbSessions, TLC

CONSTANTS u1, n1, b1

Share == [NoJob EXCEPT !.share = n1]
RemoveUserCall == [NoJob EXCEPT !.op = "remove_user", !.user = u1]
AddUserCall == [NoJob EXCEPT !.op = "add_user", !.user = u1]
RemoveShareCall == [Share EXCEPT !.op = "remove_share"]
AddShareCall ==
    [Share EXCEPT !.op = "add_share", !.grants = [NoGrants EXCEPT ![u1] = "Read"]]
RevokeCall == [Share EXCEPT !.op = "revoke_share_user", !.user = u1]
PublicCall == [Share EXCEPT !.op = "set_share_mode", !.mode = "PublicReadOnly"]

(* Calls that take rights away from sessions and trees with open handles.  *)
RevokingCalls == {RemoveUserCall, RevokeCall}

(* One user, who may read the one share the server starts with.            *)
MCInit ==
    /\ DataInit
    /\ users = {u1}
    /\ shares = [n \in Names |-> IF n = n1 THEN b1 ELSE None]
    /\ acl = [b \in Bindings |->
                [mode |-> "AuthenticatedOnly",
                 users |-> IF b = b1 THEN [NoGrants EXCEPT ![u1] = "Read"] ELSE NoGrants]]
    /\ bname = [b \in Bindings |-> n1]
    /\ pc = [a \in Admins |-> "idle"]
    /\ job = [a \in Admins |-> NoJob]
    /\ bind = [a \in Admins |-> None]
    /\ todo = [a \in Admins |-> {}]

MCSpec == MCInit /\ [][Next]_vars

(* One task removes users and revokes rights, the others only revoke.      *)
Remover == CHOOSE a \in Admins : TRUE
OneRemoverNext ==
    \/ \E a \in Admins :
        \/ CallStep(a) /\ (job'[a].op = "remove_user" => a = Remover)
        \/ ConfigStep(a)
        \/ SweepStep(a)
    \/ \E p \in Actors : ClosingStep(p)
    \/ \E c \in Conns :
        Connect(c) \/ Disconnect(c) \/ NewRequest(c) \/ HandlerStep(c)

MCFairSpec == MCInit /\ [][OneRemoverNext]_vars /\ Fairness
=============================================================================
