---------------------------- MODULE MCSessionTeams ----------------------------
(* TLC instances of SmbSessions whose actors are chosen at the start.      *)
EXTENDS MCSmbSessions

(* A user removed and added again.                                         *)
UserCalls == {RemoveUserCall, AddUserCall}
(* The share, once nobody is on its ACL, opened to anonymous clients.      *)
PublicCalls == {RemoveUserCall, AddUserCall, PublicCall}
(* A share removed and another added under its name, while being revoked.  *)
ShareCalls == {RemoveShareCall, AddShareCall, RevokeCall}
(* A right raised and lowered, on a share whose backend can write.         *)
GrantCalls ==
    {RemoveShareCall, AddShareCall}
    \cup {[Share EXCEPT !.op = "grant_share_user", !.user = u1, !.access = x] :
             x \in Access}

(* Tasks and clients are alike, and so are the bindings not in use yet.    *)
MCSymmetry ==
    Permutations(Admins) \cup Permutations(Conns) \cup Permutations(Bindings \ {b1})

(* Four instances in one: an administrator changes users while two clients *)
(* connect, or opens the share to anonymous clients, or changes a right,   *)
(* while one does, or two administrators change shares.  team says who     *)
(* takes part; the others never act.                                       *)
VARIABLE team

TeamCalls == PublicCalls \cup ShareCalls \cup GrantCalls
Teams ==
    [admins : {{a} : a \in Admins}, conns : {Conns}, calls : {UserCalls}]
    \cup [admins : {{a} : a \in Admins}, conns : {{c} : c \in Conns},
          calls : {PublicCalls, GrantCalls}]
    \cup [admins : {Admins}, conns : {{c} : c \in Conns}, calls : {ShareCalls}]

TeamInit == MCInit /\ team \in Teams

TeamNext ==
    /\ UNCHANGED team
    /\ \/ \E a \in team.admins :
            \/ CallStep(a) /\ job'[a] \in team.calls
            \/ ConfigStep(a)
            \/ SweepStep(a)
       \/ \E p \in Actors : ClosingStep(p)
       \/ \E c \in team.conns :
            Connect(c) \/ Disconnect(c) \/ NewRequest(c) \/ HandlerStep(c)

TeamSpec == TeamInit /\ [][TeamNext]_<<vars, team>>
=============================================================================
