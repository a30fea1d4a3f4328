---------------------------- MODULE MCShareConfig ----------------------------
(* TLC instance of ShareConfig: two concurrent tasks, one user, one share  *)
(* name, a listed binding and one that a task still holds.                 *)
EXTENDS ShareConfig

CONSTANT u1

(* Shares are added with at most one explicit user, u1.                    *)
MCCalls ==
    {j \in Requests :
        /\ Granted(j.grants) \subseteq {u1}
        /\ j.access = "Read"
        /\ \A u \in Users : j.grants[u] # "ReadWrite"}

(* The server starts with one user, who is on the ACL of the share if      *)
(* there is one.                                                           *)
MCInit ==
    /\ ConfigInit
    /\ users = {u1}
    /\ \A b \in Bindings :
        /\ \A u \in Users : acl[b].users[u] \in (IF u = u1 THEN {None, "Read"} ELSE {None})
        /\ Unreferenced(b) =>
            acl[b] = [mode |-> "AuthenticatedOnly", users |-> NoGrants]

MCFairSpec == MCInit /\ [][ConfigNext]_configVars /\ ConfigFairness
=============================================================================
