-------------------------- MODULE ShareConfigProofs --------------------------
(***************************************************************************)
(* Proofs about ShareConfig for any users, share names, bindings, admin    *)
(* tasks and calls.                                                        *)
(*                                                                         *)
(* AclUsersKnown is not inductive: it rests on what add_share and          *)
(* grant_share_user have checked while they hold the read guard on the     *)
(* user table (GuardHolders), on a task that has reached an ACL having a   *)
(* binding (BindFound), and on nobody but remove_user in its cleaning loop *)
(* having a snapshot (TodoOwned).                                          *)
(*                                                                         *)
(* The refinement of AccessTable needs NamesKept besides: a running call   *)
(* is refined to one that acts by name, and this one goes by the binding   *)
(* it has found. The table is a function of the share table and the ACLs   *)
(* behind it, so that the proof says first which steps leave it alone      *)
(* (TableKept) and takes the rest one call at a time.                      *)
(***************************************************************************)
EXTENDS ShareConfig, TLAPS

(* The call in progress is one of those made.                              *)
JobsMade == \A a \in Admins : job[a] \in Requests \cup {NoJob}

(* A task that is about to lock an ACL has found its binding.              *)
BindFound == \A a \in Admins : pc[a] = "acl" => bind[a] \in Bindings

(* Only remove_user has a snapshot, and only while it works through it.    *)
TodoOwned ==
    \A a \in Admins : todo[a] # {} => At(a, "remove_user", "clean")

(* What was checked under the read guard on the user table still holds     *)
(* while the guard is held.                                                *)
GuardHolders ==
    \A a \in Admins :
        /\ At(a, "add_share", "insert") =>
            /\ Granted(job[a].grants) \subseteq users
            /\ job[a].mode \in PublicModes => Granted(job[a].grants) = {}
        /\ At(a, "grant_share_user", "find") => job[a].user \in users
        /\ At(a, "grant_share_user", "acl") => job[a].user \in users

(* A share is listed under its own name, and the binding a call has found  *)
(* bears the name it asked for.                                            *)
NamesKept ==
    /\ \A n \in Names : shares[n] # None => bname[shares[n]] = n
    /\ \A a \in Admins : pc[a] = "acl" => bname[bind[a]] = job[a].share

TypeInv == TypeOK /\ JobsMade
ConfigInv ==
    /\ TypeInv
    /\ BindFound
    /\ TodoOwned
    /\ GuardHolders
    /\ AclUsersKnown
    /\ PublicHasNoUsers

-----------------------------------------------------------------------------

LEMMA NoJobType == NoJob \in Jobs
BY NoneAssumption DEF NoJob, Jobs, Ops, Access, Modes, Grants, NoGrants

(* The records that UserJobs and ShareJobs build.                          *)
LEMMA UserJobsTypes ==
    ASSUME NEW op \in Ops, NEW j \in UserJobs(op)
    PROVE  j \in Jobs /\ j.op = op /\ j.user \in Users
<1>1. PICK u \in Users : j = [NoJob EXCEPT !.op = op, !.user = u]
  BY DEF UserJobs
<1> QED BY <1>1, NoJobType DEF Jobs

LEMMA ShareJobsTypes ==
    ASSUME NEW op \in Ops, NEW j \in ShareJobs(op)
    PROVE  j \in Jobs /\ j.op = op /\ j.share \in Names
<1>1. PICK n \in Names : j = [NoJob EXCEPT !.op = op, !.share = n]
  BY DEF ShareJobs
<1> QED BY <1>1, NoJobType DEF Jobs

LEMMA ModeJobsTypes ==
    ASSUME NEW op \in Ops, NEW j \in ModeJobs(op)
    PROVE  j \in Jobs /\ j.op = op /\ j.share \in Names
<1>1. PICK i \in ShareJobs(op), m \in Modes : j = [i EXCEPT !.mode = m]
  BY DEF ModeJobs
<1> QED BY <1>1, ShareJobsTypes DEF Jobs

LEMMA UserShareJobsTypes ==
    ASSUME NEW op \in Ops, NEW j \in UserShareJobs(op)
    PROVE  j \in Jobs /\ j.op = op /\ j.share \in Names /\ j.user \in Users
<1>1. PICK i \in ShareJobs(op), u \in Users : j = [i EXCEPT !.user = u]
  BY DEF UserShareJobs
<1> QED BY <1>1, ShareJobsTypes DEF Jobs

(* A call carries the arguments its operation takes: a user where one is   *)
(* named, a share where one is named.                                      *)
LEMMA RequestTypes ==
    ASSUME NEW j \in Requests \cup {NoJob}
    PROVE  /\ j \in Jobs
           /\ j.op \in {"add_user", "remove_user", "grant_share_user",
                        "revoke_share_user"} => j.user \in Users
           /\ j.op \in {"add_share", "remove_share", "grant_share_user",
                        "revoke_share_user", "set_share_mode"} => j.share \in Names
<1>1. CASE j = NoJob
  BY <1>1, NoJobType DEF NoJob
<1>2. CASE j \in UserJobs("add_user") \cup UserJobs("remove_user")
  BY <1>2, UserJobsTypes DEF Ops
<1>3. CASE j \in AddShareJobs
  <2>1. PICK i \in ModeJobs("add_share"), g \in Grants : j = [i EXCEPT !.grants = g]
    BY <1>3 DEF AddShareJobs
  <2>2. i \in Jobs /\ i.op = "add_share" /\ i.share \in Names
    BY ModeJobsTypes DEF Ops
  <2> QED BY <2>1, <2>2 DEF Jobs
<1>4. CASE j \in ShareJobs("remove_share")
  BY <1>4, ShareJobsTypes DEF Ops
<1>5. CASE j \in GrantJobs
  <2>1. PICK i \in UserShareJobs("grant_share_user"), x \in Access :
            j = [i EXCEPT !.access = x]
    BY <1>5 DEF GrantJobs
  <2>2. /\ i \in Jobs /\ i.op = "grant_share_user"
        /\ i.share \in Names /\ i.user \in Users
    BY UserShareJobsTypes DEF Ops
  <2> QED BY <2>1, <2>2 DEF Jobs
<1>6. CASE j \in UserShareJobs("revoke_share_user")
  BY <1>6, UserShareJobsTypes DEF Ops
<1>7. CASE j \in ModeJobs("set_share_mode")
  BY <1>7, ModeJobsTypes DEF Ops
<1> QED BY <1>1, <1>2, <1>3, <1>4, <1>5, <1>6, <1>7 DEF Requests

-----------------------------------------------------------------------------
(* Types.                                                                  *)

LEMMA InitTypeInv == ConfigInit => TypeInv
BY NoJobType DEF ConfigInit, TypeInv, TypeOK, JobsMade, PCs

(* A task that moves on, or returns, leaves the tables typed.              *)
LEMMA GotoTypes ==
    ASSUME TypeInv, NEW a \in Admins, NEW where \in PCs, Goto(a, where)
    PROVE  pc' \in [Admins -> PCs] /\ job' \in [Admins -> Jobs] /\ JobsMade'
BY DEF TypeInv, TypeOK, JobsMade, Goto

LEMMA ReturnTypes ==
    ASSUME TypeInv, NEW a \in Admins, Return(a)
    PROVE  /\ pc' \in [Admins -> PCs] /\ job' \in [Admins -> Jobs] /\ JobsMade'
           /\ bind' \in [Admins -> Bindings \cup {None}]
           /\ todo' \in [Admins -> SUBSET Bindings]
BY NoJobType DEF TypeInv, TypeOK, JobsMade, Return, PCs

LEMMA StepTypeInv == TypeInv /\ [ConfigNext]_configVars => TypeInv'
<1> SUFFICES ASSUME TypeInv, [ConfigNext]_configVars
             PROVE  TypeInv'
  OBVIOUS
<1>0. CASE UNCHANGED configVars
  BY <1>0 DEF configVars, TypeInv, TypeOK, JobsMade
<1> SUFFICES ASSUME NEW a \in Admins, Call(a) \/ AdminStep(a)
             PROVE  TypeInv'
  BY <1>0 DEF ConfigNext
<1> USE GotoTypes, ReturnTypes DEF TypeInv
<1>j. /\ job[a] \in Jobs
      /\ job[a].op \in {"add_user", "remove_user", "grant_share_user",
                        "revoke_share_user"} => job[a].user \in Users
      /\ job[a].op \in {"add_share", "remove_share", "grant_share_user",
                        "revoke_share_user", "set_share_mode"}
            => job[a].share \in Names
  BY RequestTypes DEF JobsMade
<1>1. CASE Call(a)
  <2>1. PICK j \in Calls : job' = [job EXCEPT ![a] = j]
    BY <1>1 DEF Call
  <2>2. j \in Jobs /\ j \in Requests
    BY CallsAssumption, RequestTypes
  <2> QED BY <1>1, <2>1, <2>2 DEF Call, TypeOK, JobsMade, PCs
<1>2. CASE UserSteps(a)
  <2>1. CASE AddUser(a)
    BY <2>1, <1>j DEF AddUser, At, TypeOK
  <2>2. CASE RemoveUser(a)
    BY <2>2 DEF RemoveUser, TypeOK, PCs
  <2>3. CASE RemoveUserUnknown(a)
    BY <2>3 DEF RemoveUserUnknown, TypeOK
  <2>4. CASE RemoveUserSnapshot(a)
    BY <2>4 DEF RemoveUserSnapshot, TypeOK, PCs
  <2>5. ASSUME NEW b \in Bindings, RemoveUserAcl(a, b)
        PROVE  TypeInv'
    <3>1. acl' \in [Bindings -> ShareAcl]
      BY <2>5 DEF RemoveUserAcl, TypeOK, ShareAcl, Grants
    <3> QED BY <2>5, <3>1 DEF RemoveUserAcl, TypeOK, JobsMade
  <2>6. CASE RemoveUserCleaned(a)
    BY <2>6 DEF RemoveUserCleaned, TypeOK, PCs
  <2> QED BY <1>2, <2>1, <2>2, <2>3, <2>4, <2>5, <2>6 DEF UserSteps
<1>3. CASE ShareSteps(a)
  <2>1. CASE AddShareRejected(a)
    BY <2>1 DEF AddShareRejected, TypeOK
  <2>2. CASE AddShareCheck(a)
    BY <2>2 DEF AddShareCheck, TypeOK, PCs
  <2>3. CASE AddShareDuplicate(a)
    BY <2>3 DEF AddShareDuplicate, TypeOK
  <2>4. ASSUME NEW b \in Bindings, AddShareInsert(a, b)
        PROVE  TypeInv'
    <3>1. job[a].share \in Names /\ job[a].mode \in Modes /\ job[a].grants \in Grants
      BY <2>4, <1>j DEF AddShareInsert, At, Jobs
    <3>2. [mode |-> job[a].mode, users |-> job[a].grants] \in ShareAcl
      BY <3>1 DEF ShareAcl
    <3> QED BY <2>4, <3>1, <3>2 DEF AddShareInsert, TypeOK
  <2>5. CASE RemoveShare(a)
    BY <2>5 DEF RemoveShare, TypeOK, PCs
  <2>6. CASE RemoveShareUnknown(a)
    BY <2>6 DEF RemoveShareUnknown, TypeOK
  <2> QED BY <1>3, <2>1, <2>2, <2>3, <2>4, <2>5, <2>6 DEF ShareSteps
<1>4. CASE AclSteps(a)
  <2>1. CASE GrantCheck(a)
    BY <2>1 DEF GrantCheck, TypeOK, PCs
  <2>2. CASE GrantUnknown(a)
    BY <2>2 DEF GrantUnknown, TypeOK
  <2>3. CASE FindShare(a)
    BY <2>3, <1>j DEF FindShare, AtFind, At, TypeOK, PCs
  <2>4. CASE FindShareUnknown(a)
    BY <2>4 DEF FindShareUnknown, TypeOK
  <2>5. CASE GrantInsert(a)
    <3>0. job[a].access \in Access
      BY <1>j DEF Jobs
    <3>1. acl' \in [Bindings -> ShareAcl]
      BY <2>5, <3>0 DEF GrantInsert, TypeOK, ShareAcl, Grants
    <3> QED BY <2>5, <3>1 DEF GrantInsert, TypeOK
  <2>6. CASE GrantPublic(a)
    BY <2>6 DEF GrantPublic, TypeOK
  <2>7. CASE RevokeRemove(a)
    <3>1. acl' \in [Bindings -> ShareAcl]
      BY <2>7 DEF RevokeRemove, TypeOK, ShareAcl, Grants
    <3> QED BY <2>7, <3>1 DEF RevokeRemove, TypeOK, PCs
  <2>8. CASE SetMode(a)
    <3>1. acl' \in [Bindings -> ShareAcl]
      BY <2>8, <1>j DEF SetMode, TypeOK, ShareAcl, Jobs
    <3> QED BY <2>8, <3>1 DEF SetMode, TypeOK, PCs
  <2>9. CASE SetModeNoChange(a)
    BY <2>9 DEF SetModeNoChange, TypeOK
  <2> QED BY <1>4, <2>1, <2>2, <2>3, <2>4, <2>5, <2>6, <2>7, <2>8, <2>9
          DEF AclSteps
<1>5. CASE ListLive(a)
  BY <1>5 DEF ListLive, TypeOK, PCs
<1>6. CASE SweepDone(a)
  BY <1>6 DEF SweepDone, TypeOK
<1> QED BY <1>1, <1>2, <1>3, <1>4, <1>5, <1>6 DEF AdminStep

(* The tables and the state of every call in progress keep their types     *)
(* through every step of every call of ConfigHandle (server.rs).           *)
THEOREM TypeCorrect == ConfigSpec => []TypeOK
<1>1. ConfigInit => TypeInv
  BY InitTypeInv
<1>2. TypeInv /\ [ConfigNext]_configVars => TypeInv'
  BY StepTypeInv
<1>3. TypeInv => TypeOK
  BY DEF TypeInv
<1> QED BY <1>1, <1>2, <1>3, PTL DEF ConfigSpec

-----------------------------------------------------------------------------
(* Safety.                                                                 *)

LEMMA InitConfigInv == ConfigInit => ConfigInv
BY InitTypeInv DEF ConfigInit, ConfigInv, BindFound, TodoOwned, GuardHolders,
   At, NoJob, AclUsersKnown, PublicHasNoUsers

(* A binding is found before an ACL is reached, and snapshots are worked   *)
(* through by the task that took them.                                     *)
LEMMA StepBindTodo ==
    ConfigInv /\ [ConfigNext]_configVars => BindFound' /\ TodoOwned'
<1> SUFFICES ASSUME ConfigInv, [ConfigNext]_configVars
             PROVE  BindFound' /\ TodoOwned'
  OBVIOUS
<1>t. TypeInv /\ TypeOK /\ BindFound /\ TodoOwned
  BY DEF ConfigInv, TypeInv
<1>0. CASE UNCHANGED configVars
  BY <1>0, <1>t DEF configVars, BindFound, TodoOwned, At
<1> SUFFICES ASSUME NEW a \in Admins, Call(a) \/ AdminStep(a)
             PROVE  BindFound' /\ TodoOwned'
  BY <1>0 DEF ConfigNext
<1> USE <1>t DEF TypeOK, BindFound, TodoOwned, At, Goto, Return
<1>1. CASE Call(a)
  BY <1>1 DEF Call
<1>2. CASE UserSteps(a)
  BY <1>2 DEF UserSteps, AddUser, RemoveUser, RemoveUserUnknown,
              RemoveUserSnapshot, RemoveUserAcl, RemoveUserCleaned
<1>3. CASE ShareSteps(a)
  BY <1>3 DEF ShareSteps, AddShareRejected, AddShareCheck, AddShareDuplicate,
              AddShareInsert, RemoveShare, RemoveShareUnknown
<1>4. CASE FindShare(a)
  <2>1. job[a].share \in Names
    BY <1>4, RequestTypes DEF TypeInv, JobsMade, FindShare, AtFind
  <2>2. shares[job[a].share] \in Bindings
    BY <1>4, <2>1 DEF FindShare
  <2> QED BY <1>4, <2>2 DEF FindShare, AtFind
<1>5. CASE GrantCheck(a) \/ GrantUnknown(a) \/ FindShareUnknown(a)
  BY <1>5 DEF GrantCheck, GrantUnknown, FindShareUnknown
<1>6. CASE \/ GrantInsert(a) \/ GrantPublic(a) \/ RevokeRemove(a)
           \/ SetMode(a) \/ SetModeNoChange(a)
  BY <1>6 DEF GrantInsert, GrantPublic, RevokeRemove, SetMode, SetModeNoChange
<1>7. CASE ListLive(a) \/ SweepDone(a)
  BY <1>7 DEF ListLive, SweepDone
<1> QED BY <1>1, <1>2, <1>3, <1>4, <1>5, <1>6, <1>7 DEF AdminStep, AclSteps

(* While a task holds the read guard no step takes a user out of the       *)
(* table.                                                                  *)
LEMMA StepGuardHolders ==
    ConfigInv /\ [ConfigNext]_configVars => GuardHolders'
<1> SUFFICES ASSUME ConfigInv, [ConfigNext]_configVars
             PROVE  GuardHolders'
  OBVIOUS
<1>t. TypeInv /\ TypeOK /\ GuardHolders
  BY DEF ConfigInv, TypeInv
<1>0. CASE UNCHANGED configVars
  BY <1>0, <1>t DEF configVars, GuardHolders, At, Granted
<1> SUFFICES ASSUME NEW a \in Admins, Call(a) \/ AdminStep(a)
             PROVE  GuardHolders'
  BY <1>0 DEF ConfigNext
<1> USE <1>t DEF TypeOK, GuardHolders, At, Goto, Return
<1>1. CASE Call(a)
  BY <1>1 DEF Call
<1>2. CASE AddUser(a)
  BY <1>2 DEF AddUser
<1>3. CASE RemoveUser(a)
  BY <1>3 DEF RemoveUser, UsersReadHeld, HoldsUsersRead
<1>4. CASE \/ RemoveUserUnknown(a) \/ RemoveUserSnapshot(a)
           \/ RemoveUserCleaned(a) \/ \E b \in Bindings : RemoveUserAcl(a, b)
  BY <1>4 DEF RemoveUserUnknown, RemoveUserSnapshot, RemoveUserCleaned,
              RemoveUserAcl
<1>5. CASE AddShareCheck(a)
  BY <1>5 DEF AddShareCheck
<1>6. CASE \/ AddShareRejected(a) \/ AddShareDuplicate(a)
           \/ RemoveShare(a) \/ RemoveShareUnknown(a)
           \/ \E b \in Bindings : AddShareInsert(a, b)
  BY <1>6 DEF AddShareRejected, AddShareDuplicate, RemoveShare,
              RemoveShareUnknown, AddShareInsert
<1>7. CASE GrantCheck(a) \/ GrantUnknown(a) \/ FindShare(a) \/ FindShareUnknown(a)
  BY <1>7 DEF GrantCheck, GrantUnknown, FindShare, FindShareUnknown, AtFind
<1>8. CASE \/ GrantInsert(a) \/ GrantPublic(a) \/ RevokeRemove(a)
           \/ SetMode(a) \/ SetModeNoChange(a)
  BY <1>8 DEF GrantInsert, GrantPublic, RevokeRemove, SetMode, SetModeNoChange
<1>9. CASE ListLive(a) \/ SweepDone(a)
  BY <1>9 DEF ListLive, SweepDone
<1> QED BY <1>1, <1>2, <1>3, <1>4, <1>5, <1>6, <1>7, <1>8, <1>9
        DEF AdminStep, UserSteps, ShareSteps, AclSteps

(* An ACL with a user that becomes listed, or gains a user, does so while  *)
(* the user is known; a user who becomes unknown is being cleaned away.    *)
LEMMA StepAclUsersKnown ==
    ConfigInv /\ [ConfigNext]_configVars => AclUsersKnown'
<1> SUFFICES ASSUME ConfigInv, [ConfigNext]_configVars
             PROVE  AclUsersKnown'
  OBVIOUS
<1>t. TypeInv /\ TypeOK /\ BindFound /\ TodoOwned /\ GuardHolders /\ AclUsersKnown
  BY DEF ConfigInv, TypeInv
<1>0. CASE UNCHANGED configVars
  BY <1>0, <1>t DEF configVars, AclUsersKnown, Cleaning, Granted
<1> SUFFICES ASSUME NEW a \in Admins, Call(a) \/ AdminStep(a)
             PROVE  AclUsersKnown'
  BY <1>0 DEF ConfigNext
<1> SUFFICES ASSUME NEW n \in Names, NEW b0, shares'[n] = b0, b0 # None,
                    NEW u \in Users, acl'[b0].users[u] # None
             PROVE  u \in users' \/ Cleaning(u, b0)'
  BY DEF AclUsersKnown, Granted, Cleaning
<1>k. ASSUME shares[n] = b0, acl[b0].users[u] # None
      PROVE  u \in users \/ Cleaning(u, b0)
  BY <1>k, <1>t DEF AclUsersKnown, Granted
<1>c. ASSUME Cleaning(u, b0), UNCHANGED todo,
             \/ Goto(a, "sweep") /\ (pc[a] # "snapshot" \/ job[a].op # "remove_user")
             \/ \E where \in PCs : Goto(a, where) /\ job[a].op # "remove_user"
      PROVE  Cleaning(u, b0)'
  BY <1>c, <1>t DEF Cleaning, Goto, TypeOK
<1>r. ASSUME Cleaning(u, b0), Return(a), ~At(a, "remove_user", "clean"),
             ~At(a, "remove_user", "snapshot")
      PROVE  Cleaning(u, b0)'
  BY <1>r, <1>t DEF Cleaning, Return, TypeOK, TodoOwned, At
<1>1. CASE Call(a)
  <2>1. shares[n] = b0 /\ acl[b0].users[u] # None /\ users' = users
    BY <1>1 DEF Call
  <2>2. ASSUME Cleaning(u, b0) PROVE Cleaning(u, b0)'
    <3>1. PICK q \in Admins : /\ job[q].op = "remove_user" /\ job[q].user = u
                              /\ pc[q] = "snapshot" \/ b0 \in todo[q]
      BY <2>2 DEF Cleaning
    <3>2. q # a
      BY <3>1, <1>1, <1>t DEF Call, TodoOwned, At
    <3> QED BY <3>1, <3>2, <1>1, <1>t DEF Call, Cleaning, TypeOK
  <2> QED BY <2>1, <2>2, <1>k
<1>2. CASE AddUser(a)
  BY <1>2, <1>k, <1>r DEF AddUser, At
<1>3. CASE RemoveUser(a)
  <2>1. u = job[a].user => Cleaning(u, b0)'
    BY <1>3, <1>t DEF RemoveUser, Cleaning, Goto, TypeOK, At
  <2>2. ASSUME Cleaning(u, b0) PROVE Cleaning(u, b0)'
    BY <1>3, <2>2, <1>t DEF RemoveUser, Cleaning, Goto, TypeOK, At
  <2> QED BY <1>3, <2>1, <2>2, <1>k DEF RemoveUser
<1>4. CASE RemoveUserUnknown(a)
  BY <1>4, <1>k, <1>r DEF RemoveUserUnknown, At
<1>5. CASE RemoveUserSnapshot(a)
  <2>1. b0 \in {b \in Bindings : Listed(b)}
    BY <1>5, <1>t DEF RemoveUserSnapshot, TypeOK, Listed
  <2>2. ASSUME Cleaning(u, b0) PROVE Cleaning(u, b0)'
    BY <1>5, <2>1, <2>2, <1>t DEF RemoveUserSnapshot, Cleaning, Goto, TypeOK
  <2> QED BY <1>5, <2>2, <1>k DEF RemoveUserSnapshot
<1>6. ASSUME NEW b \in Bindings, RemoveUserAcl(a, b)
      PROVE  u \in users' \/ Cleaning(u, b0)'
  <2>1. shares[n] = b0 /\ b0 \in Bindings /\ users' = users
    BY <1>6, <1>t DEF RemoveUserAcl, TypeOK
  <2>2. acl[b0].users[u] # None /\ (b0 = b => u # job[a].user)
    BY <1>6, <2>1, <1>t DEF RemoveUserAcl, TypeOK, ShareAcl, Grants
  <2>3. ASSUME Cleaning(u, b0) PROVE Cleaning(u, b0)'
    BY <1>6, <2>2, <2>3, <1>t DEF RemoveUserAcl, Cleaning, TypeOK
  <2> QED BY <2>1, <2>2, <2>3, <1>k
<1>7. CASE RemoveUserCleaned(a)
  BY <1>7, <1>k, <1>c DEF RemoveUserCleaned, At
<1>8. CASE AddShareRejected(a) \/ AddShareDuplicate(a) \/ RemoveShareUnknown(a)
  BY <1>8, <1>k, <1>r DEF AddShareRejected, AddShareDuplicate,
                          RemoveShareUnknown, At
<1>9. CASE AddShareCheck(a)
  BY <1>9, <1>k, <1>c DEF AddShareCheck, At, PCs
<1>10. ASSUME NEW b \in Bindings, AddShareInsert(a, b)
       PROVE  u \in users' \/ Cleaning(u, b0)'
  <2>1. CASE n = job[a].share
    <3>1. b0 = b /\ acl'[b0].users = job[a].grants /\ users' = users
      BY <1>10, <2>1, <1>t DEF AddShareInsert, TypeOK
    <3> QED BY <1>10, <3>1, <1>t DEF AddShareInsert, GuardHolders, Granted
  <2>2. CASE n # job[a].share
    <3>1. shares[n] = b0 /\ b0 \in Bindings /\ b0 # b
      BY <1>10, <2>2, <1>t DEF AddShareInsert, TypeOK, Unreferenced, Listed
    <3>2. acl[b0].users[u] # None /\ users' = users
      BY <1>10, <3>1, <1>t DEF AddShareInsert, TypeOK
    <3> QED BY <1>10, <3>1, <3>2, <1>k, <1>r DEF AddShareInsert, At
  <2> QED BY <2>1, <2>2
<1>11. CASE RemoveShare(a)
  <2>1. shares[n] = b0 /\ acl[b0].users[u] # None /\ users' = users
    BY <1>11, <1>t DEF RemoveShare, TypeOK
  <2> QED BY <1>11, <2>1, <1>k, <1>c DEF RemoveShare, At
<1>12. CASE GrantCheck(a)
  BY <1>12, <1>k, <1>c DEF GrantCheck, At, PCs
<1>13. CASE GrantUnknown(a) \/ GrantPublic(a) \/ FindShareUnknown(a)
            \/ SetModeNoChange(a)
  BY <1>13, <1>k, <1>r DEF GrantUnknown, GrantPublic, FindShareUnknown,
                           SetModeNoChange, AtFind, At
<1>14. CASE FindShare(a)
  BY <1>14, <1>k, <1>c DEF FindShare, AtFind, At, PCs
<1>15. CASE GrantInsert(a)
  <2>1. shares[n] = b0 /\ b0 \in Bindings /\ users' = users
    BY <1>15, <1>t DEF GrantInsert, TypeOK
  <2>2. CASE u = job[a].user
    BY <1>15, <2>1, <2>2, <1>t DEF GrantInsert, GuardHolders
  <2>3. CASE u # job[a].user
    <3>1. acl[b0].users[u] # None
      BY <1>15, <2>1, <2>3, <1>t DEF GrantInsert, TypeOK, ShareAcl, Grants
    <3> QED BY <1>15, <2>1, <3>1, <1>k, <1>r DEF GrantInsert, At
  <2> QED BY <2>2, <2>3
<1>16. CASE RevokeRemove(a)
  <2>1. shares[n] = b0 /\ b0 \in Bindings /\ users' = users
    BY <1>16, <1>t DEF RevokeRemove, TypeOK
  <2>2. acl[b0].users[u] # None
    BY <1>16, <2>1, <1>t DEF RevokeRemove, TypeOK, ShareAcl, Grants
  <2> QED BY <1>16, <2>1, <2>2, <1>k, <1>c DEF RevokeRemove, At
<1>17. CASE SetMode(a)
  <2>1. shares[n] = b0 /\ b0 \in Bindings /\ users' = users
    BY <1>17, <1>t DEF SetMode, TypeOK
  <2>2. acl[b0].users[u] # None
    BY <1>17, <2>1, <1>t DEF SetMode, TypeOK, ShareAcl, Grants
  <2> QED BY <1>17, <2>1, <2>2, <1>k, <1>c DEF SetMode, At
<1>18. CASE ListLive(a)
  BY <1>18, <1>k, <1>t DEF ListLive, Goto, Cleaning, TypeOK
<1>19. CASE SweepDone(a)
  BY <1>19, <1>k, <1>r DEF SweepDone, At
<1> QED BY <1>1, <1>2, <1>3, <1>4, <1>5, <1>6, <1>7, <1>8, <1>9, <1>10, <1>11,
           <1>12, <1>13, <1>14, <1>15, <1>16, <1>17, <1>18, <1>19
        DEF AdminStep, UserSteps, ShareSteps, AclSteps

(* Whichever of add_share, grant_share_user and set_share_mode locks the   *)
(* ACL last sees what the others did.                                      *)
LEMMA StepPublicHasNoUsers ==
    ConfigInv /\ [ConfigNext]_configVars => PublicHasNoUsers'
<1> SUFFICES ASSUME ConfigInv, [ConfigNext]_configVars
             PROVE  PublicHasNoUsers'
  OBVIOUS
<1>t. TypeInv /\ TypeOK /\ BindFound /\ GuardHolders /\ PublicHasNoUsers
  BY DEF ConfigInv, TypeInv
<1>0. CASE UNCHANGED <<shares, acl>>
  BY <1>0, <1>t DEF PublicHasNoUsers, Granted
<1> SUFFICES ASSUME NEW a \in Admins, Call(a) \/ AdminStep(a)
             PROVE  PublicHasNoUsers'
  BY <1>0 DEF ConfigNext, configVars
<1> SUFFICES ASSUME NEW n \in Names, shares'[n] # None,
                    acl'[shares'[n]].mode \in PublicModes,
                    NEW u \in Users
             PROVE  acl'[shares'[n]].users[u] = None
  BY DEF PublicHasNoUsers, Granted
<1>k. ASSUME shares[n] # None, acl[shares[n]].mode \in PublicModes
      PROVE  acl[shares[n]].users[u] = None
  BY <1>k, <1>t DEF PublicHasNoUsers, Granted
<1>b. shares[n] # None => shares[n] \in Bindings
  BY <1>t DEF TypeOK
<1> USE <1>t, <1>k, <1>b DEF TypeOK, ShareAcl, Grants
<1>1. ASSUME NEW b \in Bindings, RemoveUserAcl(a, b)
      PROVE  acl'[shares'[n]].users[u] = None
  BY <1>1 DEF RemoveUserAcl
<1>2. ASSUME NEW b \in Bindings, AddShareInsert(a, b)
      PROVE  acl'[shares'[n]].users[u] = None
  <2>1. CASE n = job[a].share
    BY <1>2, <2>1 DEF AddShareInsert, GuardHolders, Granted
  <2>2. CASE n # job[a].share
    BY <1>2, <2>2 DEF AddShareInsert, Unreferenced, Listed
  <2> QED BY <2>1, <2>2
<1>3. CASE RemoveShare(a)
  BY <1>3 DEF RemoveShare
<1>4. CASE GrantInsert(a)
  BY <1>4 DEF GrantInsert
<1>5. CASE RevokeRemove(a)
  BY <1>5 DEF RevokeRemove
<1>6. CASE SetMode(a)
  BY <1>6 DEF SetMode, ModeRejected, Granted, At, BindFound
<1>7. CASE UNCHANGED <<shares, acl>>
  BY <1>7
<1> QED
  BY <1>1, <1>2, <1>3, <1>4, <1>5, <1>6, <1>7
  DEF Call, AdminStep, UserSteps, ShareSteps, AclSteps, AddUser, RemoveUser,
      RemoveUserUnknown, RemoveUserSnapshot, RemoveUserCleaned,
      AddShareRejected, AddShareCheck, AddShareDuplicate, RemoveShareUnknown,
      GrantCheck, GrantUnknown, FindShare, FindShareUnknown, GrantPublic,
      SetModeNoChange, ListLive, SweepDone

LEMMA StepConfigInv == ConfigInv /\ [ConfigNext]_configVars => ConfigInv'
BY StepTypeInv, StepBindTodo, StepGuardHolders, StepAclUsersKnown,
   StepPublicHasNoUsers DEF ConfigInv

LEMMA ConfigInvariant == ConfigSpec => []ConfigInv
BY InitConfigInv, StepConfigInv, PTL DEF ConfigSpec

(* Every user in the ACL of a listed share is in the user table, or a      *)
(* remove_user is on its way to that ACL, however the calls of add_share,  *)
(* grant_share_user and remove_user interleave (server.rs).                *)
THEOREM AclUsersAreKnown == ConfigSpec => []AclUsersKnown
<1>1. ConfigInv => AclUsersKnown
  BY DEF ConfigInv
<1> QED BY <1>1, ConfigInvariant, PTL

(* No share is public and has explicit users, although set_share_mode and  *)
(* grant_share_user find the share and lock its ACL in separate steps.     *)
THEOREM PublicSharesHaveNoUsers == ConfigSpec => []PublicHasNoUsers
<1>1. ConfigInv => PublicHasNoUsers
  BY DEF ConfigInv
<1> QED BY <1>1, ConfigInvariant, PTL

-----------------------------------------------------------------------------
(* The refinement of AccessTable.                                          *)

(* Every step keeps the names and bindings of the running calls.           *)
LEMMA StepNamesKept ==
    ASSUME ConfigInv, NamesKept, [ConfigNext]_configVars
    PROVE  NamesKept'
<1>t. TypeOK /\ BindFound
  BY DEF ConfigInv, TypeInv
<1>0. CASE UNCHANGED configVars
  BY <1>0 DEF configVars, NamesKept
<1> SUFFICES ASSUME NEW a \in Admins, Call(a) \/ AdminStep(a)
             PROVE  NamesKept'
  BY <1>0 DEF ConfigNext
<1> USE <1>t DEF TypeOK, At, Goto, Return
<1>1. CASE Call(a) \/ UserSteps(a) \/ ListLive(a) \/ SweepDone(a)
  BY <1>1 DEF NamesKept, Call, UserSteps, AddUser, RemoveUser, RemoveUserUnknown,
              RemoveUserSnapshot, RemoveUserAcl, RemoveUserCleaned, ListLive, SweepDone
<1>2. CASE FindShare(a)
  <2>1. bname[shares[job[a].share]] = job[a].share
    <3>1. job[a].share \in Names
      BY <1>2, RequestTypes DEF FindShare, AtFind, ConfigInv, TypeInv, JobsMade
    <3> QED BY <1>2, <3>1 DEF FindShare, NamesKept
  <2> QED BY <1>2, <2>1 DEF NamesKept, FindShare
<1>3. CASE AclSteps(a) /\ ~FindShare(a)
  BY <1>3 DEF NamesKept, AclSteps, GrantCheck, GrantUnknown, FindShareUnknown,
              GrantInsert, GrantPublic, RevokeRemove, SetMode, SetModeNoChange
<1>4. ASSUME NEW b \in Bindings, AddShareInsert(a, b)
      PROVE  NamesKept'
  <2>1. /\ job[a].share \in Names
        /\ shares' = [shares EXCEPT ![job[a].share] = b]
        /\ bname' = [bname EXCEPT ![b] = job[a].share]
    BY <1>4, RequestTypes DEF AddShareInsert, ConfigInv, TypeInv, JobsMade
  <2>2. \A n \in Names : shares[n] # b
    BY <1>4 DEF AddShareInsert, Unreferenced, Listed
  <2>3. \A n \in Names : shares'[n] # None => bname'[shares'[n]] = n
    BY <2>1, <2>2 DEF NamesKept
  <2>4. \A x \in Admins : pc'[x] = "acl" =>
            pc[x] = "acl" /\ bind'[x] = bind[x] /\ job'[x] = job[x] /\ bind[x] # b
    BY <1>4 DEF AddShareInsert, Unreferenced
  <2>5. \A x \in Admins : pc'[x] = "acl" => bname'[bind'[x]] = job'[x].share
    BY <2>1, <2>4 DEF NamesKept, BindFound
  <2> QED BY <2>3, <2>5 DEF NamesKept
<1>5. CASE ShareSteps(a) /\ ~\E b \in Bindings : AddShareInsert(a, b)
  BY <1>5 DEF NamesKept, ShareSteps, AddShareRejected, AddShareCheck,
              AddShareDuplicate, RemoveShare, RemoveShareUnknown
<1> QED BY <1>1, <1>2, <1>3, <1>4, <1>5 DEF AdminStep

(* A task that moves on moves its stage, and nobody else's.                *)
LEMMA GotoStage ==
    ASSUME TypeOK, NEW a \in Admins, NEW where \in PCs,
           pc' = [pc EXCEPT ![a] = where]
    PROVE  Stages' = [Stages EXCEPT ![a] = Stage(where)]
BY DEF Stages, TypeOK

LEMMA StageValues ==
    ASSUME TypeOK, NEW a \in Admins
    PROVE  /\ Stages[a] = "idle" <=> pc[a] = "idle"
           /\ Stages[a] = "called" <=> pc[a] \in {"start", "find", "insert", "acl"}
           /\ Stages[a] = "removing" <=> pc[a] \in {"snapshot", "clean"}
           /\ Stages[a] = "closing" <=> pc[a] \in {"sweep", "sweeping"}
BY DEF Stages, Stage, TypeOK, PCs

(* The entry of a listed share is the ACL behind it.                       *)
LEMMA Entry ==
    ASSUME TypeOK, NEW n \in Names
    PROVE  /\ ShareTable[n] = None <=> shares[n] = None
           /\ shares[n] # None => /\ ShareTable[n] = acl[shares[n]]
                                  /\ shares[n] \in Bindings
                                  /\ acl[shares[n]] \in ShareAcl
BY NoneAssumption DEF ShareTable, TypeOK

(* What a step of a may do to the bindings and to the calls of others.     *)
LEMMA StepFrame ==
    ASSUME ConfigInv, NEW a \in Admins, Call(a) \/ AdminStep(a)
    PROVE  /\ \A b \in Admins \ {a} :
                /\ pc'[b] = pc[b] /\ job'[b] = job[b]
                /\ bind'[b] = bind[b] /\ todo'[b] = todo[b]
           /\ \A n \in Names : shares'[n] # shares[n] =>
                \/ /\ shares[n] = None
                   /\ \A b \in Admins : shares'[n] # bind[b]
                \/ shares'[n] = None
           /\ pc'[a] = "acl" => FindShare(a)
           /\ pc[a] = "acl" => pc'[a] \in {"idle", "sweep"}
           /\ pc'[a] \in {"snapshot", "clean"} =>
                /\ job[a].user \in Users /\ job'[a] = job[a]
                /\ UNCHANGED shares
                /\ RemoveUser(a) \/ RemoveUserSnapshot(a)
                    \/ \E b \in Bindings : RemoveUserAcl(a, b)
<1>t. TypeInv /\ TypeOK
  BY DEF ConfigInv, TypeInv
<1>j. /\ job[a].op = "remove_user" => job[a].user \in Users
      /\ job[a].op \in {"add_share", "remove_share"} => job[a].share \in Names
  BY <1>t, RequestTypes DEF TypeInv, JobsMade
<1> USE <1>t DEF TypeOK, At, Goto, Return
<1>1. CASE Call(a)
  BY <1>1 DEF Call
<1>2. CASE UserSteps(a)
  <2>1. CASE AddUser(a) \/ RemoveUserUnknown(a) \/ RemoveUserCleaned(a)
    BY <2>1 DEF AddUser, RemoveUserUnknown, RemoveUserCleaned
  <2>2. CASE \/ RemoveUser(a) \/ RemoveUserSnapshot(a)
             \/ \E b \in Bindings : RemoveUserAcl(a, b)
    BY <2>2, <1>j DEF RemoveUser, RemoveUserSnapshot, RemoveUserAcl
  <2> QED BY <1>2, <2>1, <2>2 DEF UserSteps
<1>3. CASE ShareSteps(a)
  <2>1. ASSUME NEW b \in Bindings, AddShareInsert(a, b)
        PROVE  /\ pc'[a] = "idle" /\ pc[a] = "insert"
               /\ \A n \in Names : shares'[n] # shares[n] =>
                    shares[n] = None /\ \A c \in Admins : shares'[n] # bind[c]
               /\ \A c \in Admins \ {a} :
                    /\ pc'[c] = pc[c] /\ job'[c] = job[c]
                    /\ bind'[c] = bind[c] /\ todo'[c] = todo[c]
    BY <2>1, <1>j DEF AddShareInsert, Unreferenced
  <2>2. CASE RemoveShare(a)
    BY <2>2, <1>j DEF RemoveShare
  <2>3. CASE \/ AddShareRejected(a) \/ AddShareCheck(a) \/ AddShareDuplicate(a)
             \/ RemoveShareUnknown(a)
    BY <2>3 DEF AddShareRejected, AddShareCheck, AddShareDuplicate,
                RemoveShareUnknown
  <2> QED BY <1>3, <2>1, <2>2, <2>3 DEF ShareSteps
<1>4. CASE FindShare(a)
  BY <1>4 DEF FindShare, AtFind
<1>5. CASE AclSteps(a) /\ ~FindShare(a)
  BY <1>5 DEF AclSteps, GrantCheck, GrantUnknown, FindShareUnknown, AtFind,
              GrantInsert, GrantPublic, RevokeRemove, SetMode, SetModeNoChange
<1>6. CASE ListLive(a) \/ SweepDone(a)
  BY <1>6 DEF ListLive, SweepDone
<1> QED BY <1>1, <1>2, <1>3, <1>4, <1>5, <1>6 DEF AdminStep

(* A call is lost only on a share that is removed while it runs: a binding *)
(* a task holds is not listed again.                                       *)
LEMMA StepLosses ==
    ASSUME ConfigInv, NamesKept, NEW a \in Admins, Call(a) \/ AdminStep(a)
    PROVE  Table!Losses
<1>t. TypeInv /\ TypeOK /\ TypeOK' /\ BindFound
  BY StepTypeInv DEF ConfigInv, TypeInv, ConfigNext
<1> SUFFICES ASSUME NEW b \in Admins
             PROVE  /\ Lost(b)' => Stages'[b] = "called"
                    /\ Lost(b) /\ Stages'[b] = "called" => Lost(b)'
                    /\ Lost(b)' /\ ~Lost(b) =>
                        /\ ShareTable[job[b].share] # None
                        /\ ShareTable'[job[b].share] = None
  BY DEF Table!Losses, LostCalls
<1>1. Stages'[b] = "called" <=> pc'[b] \in {"start", "find", "insert", "acl"}
  BY <1>t, StageValues DEF Stages, Stage, TypeOK, PCs
<1>2. CASE b = a
  <2>1. Lost(a)' => FindShare(a)
    BY StepFrame DEF Lost
  <2>2. FindShare(a) => ~Lost(a)'
    BY <1>t DEF Lost, FindShare, Goto, TypeOK
  <2>3. Lost(a) => pc'[a] \in {"idle", "sweep"}
    BY StepFrame DEF Lost
  <2> QED BY <1>1, <1>2, <2>1, <2>2, <2>3
<1>3. CASE b # a
  <2>1. pc'[b] = pc[b] /\ job'[b] = job[b] /\ bind'[b] = bind[b]
    BY <1>3, StepFrame
  <2>2. SUFFICES ASSUME pc[b] = "acl"
                 PROVE  /\ Lost(b) => Lost(b)'
                        /\ Lost(b)' /\ ~Lost(b) =>
                            /\ ShareTable[job[b].share] # None
                            /\ ShareTable'[job[b].share] = None
    BY <1>1, <2>1 DEF Lost
  <2>3. job[b].share \in Names /\ bind[b] \in Bindings
    BY <1>t, <2>2 DEF BindFound, NamesKept, TypeOK
  <2>4. \/ shares'[job[b].share] = shares[job[b].share]
        \/ shares[job[b].share] = None /\ shares'[job[b].share] # bind[b]
        \/ shares'[job[b].share] = None
    BY <2>3, StepFrame
  <2>5. ShareTable'[job[b].share] = None <=> shares'[job[b].share] = None
    BY <1>t, <2>3, NoneAssumption DEF ShareTable, TypeOK
  <2> QED BY <1>t, <2>1, <2>2, <2>3, <2>4, <2>5, Entry, NoneAssumption DEF Lost
<1> QED BY <1>2, <1>3

(* remove_user owes what it owed, less what is gone, and perhaps what has  *)
(* been given meanwhile.                                                   *)
LEMMA StepDebts ==
    ASSUME ConfigInv, NEW a \in Admins, Call(a) \/ AdminStep(a)
    PROVE  Table!Debts
<1>t. TypeInv /\ TypeOK /\ TypeOK' /\ TodoOwned
  BY StepTypeInv DEF ConfigInv, TypeInv, ConfigNext
<1> SUFFICES ASSUME NEW b \in Admins
             PROVE  IF Stages'[b] # "removing" THEN Uncleaned(b)' = {}
                    ELSE LET held == IF Stages[b] = "removing" THEN Uncleaned(b)
                                     ELSE Table!Holding(job[b].user)
                             new == Table!Holding(job[b].user)'
                                        \ Table!Holding(job[b].user)
                         IN  /\ held \cap Table!Holding(job[b].user)'
                                    \subseteq Uncleaned(b)'
                             /\ Uncleaned(b)' \subseteq
                                    (held \cap Table!Holding(job[b].user)') \cup new
  BY DEF Table!Debts, OwedShares
<1>1. Stages'[b] = "removing" <=> pc'[b] \in {"snapshot", "clean"}
  BY <1>t, StageValues DEF Stages, Stage, TypeOK, PCs
<1>2. CASE Stages'[b] # "removing"
  BY <1>1, <1>2 DEF Uncleaned
<1>3. CASE Stages'[b] = "removing"
  <2> DEFINE u == job[b].user
             Held(n) == shares[n] # None /\ acl[shares[n]].users[u] # None
             HeldThen(n) == shares'[n] # None /\ acl'[shares'[n]].users[u] # None
  <2>1. pc'[b] \in {"snapshot", "clean"} /\ job'[b] = job[b]
    BY <1>1, <1>3, StepFrame
  <2>2. ASSUME NEW n \in Names
        PROVE  n \in Table!Holding(u) <=> Held(n)
    BY <1>t, Entry DEF Table!Holding
  <2>3. ASSUME NEW n \in Names
        PROVE  n \in Table!Holding(u)' <=> HeldThen(n)
    <3>1. /\ ShareTable'[n] = None <=> shares'[n] = None
          /\ shares'[n] # None => ShareTable'[n] = acl'[shares'[n]]
      BY <1>t, NoneAssumption DEF ShareTable, TypeOK
    <3> QED BY <3>1, <2>1 DEF Table!Holding
  <2>4. ASSUME NEW n \in Names, Held(n), HeldThen(n)
        PROVE  shares'[n] = shares[n]
    BY <2>4, StepFrame
  <2>5. ASSUME NEW n \in Names
        PROVE  n \in Uncleaned(b)' <=> /\ HeldThen(n)
                                       /\ pc'[b] = "snapshot" \/ shares'[n] \in todo'[b]
    BY <2>1 DEF Uncleaned
  <2>6. CASE Stages[b] = "removing" /\ b # a
    <3>1. pc'[b] = pc[b] /\ todo'[b] = todo[b]
      BY <2>6, StepFrame
    <3>2. ASSUME NEW n \in Names
          PROVE  n \in Uncleaned(b) <=> /\ Held(n)
                                        /\ pc[b] = "snapshot" \/ shares[n] \in todo[b]
      BY <3>1, <2>1 DEF Uncleaned
    <3>3. \A n \in Names : n \in Uncleaned(b) /\ HeldThen(n) => n \in Uncleaned(b)'
      BY <3>1, <3>2, <2>4, <2>5
    <3>4. \A n \in Names : n \in Uncleaned(b)' =>
                HeldThen(n) /\ (n \in Uncleaned(b) \/ ~Held(n))
      BY <3>1, <3>2, <2>4, <2>5
    <3>5. Uncleaned(b) \subseteq Names /\ Uncleaned(b)' \subseteq Names
      BY DEF Uncleaned
    <3> QED BY <1>3, <2>6, <3>3, <3>4, <3>5, <2>2, <2>3
  <2>7. CASE Stages[b] # "removing" /\ b # a
    BY <2>7, <2>1, <1>t, StepFrame, StageValues
  <2>8. CASE b = a
    <3>1. UNCHANGED shares
      BY <2>1, <2>8, StepFrame
    <3>2. CASE RemoveUser(a)
      <4>1. pc'[a] = "snapshot" /\ UNCHANGED acl /\ pc[a] = "start"
        BY <3>2, <1>t DEF RemoveUser, Goto, TypeOK, At
      <4>2. Stages[b] # "removing"
        BY <4>1, <2>8, <1>t, StageValues
      <4>3. \A n \in Names : (n \in Uncleaned(b)' <=> HeldThen(n)) /\ (Held(n) <=> HeldThen(n))
        BY <4>1, <3>1, <2>5, <2>8
      <4>4. Uncleaned(b)' \subseteq Names /\ Table!Holding(u) \subseteq Names
        BY DEF Uncleaned, Table!Holding
      <4> QED BY <1>3, <4>2, <4>3, <4>4, <2>2, <2>3
    <3>3. CASE RemoveUserSnapshot(a) \/ \E x \in Bindings : RemoveUserAcl(a, x)
      <4>1. pc[a] \in {"snapshot", "clean"} /\ Stages[b] = "removing"
        BY <3>3, <2>8, <1>t, StageValues DEF RemoveUserSnapshot, RemoveUserAcl, At
      <4>2. ASSUME NEW n \in Names
            PROVE  n \in Uncleaned(b) <=> /\ Held(n)
                                          /\ pc[b] = "snapshot" \/ shares[n] \in todo[b]
        BY <4>1, <2>8 DEF Uncleaned
      <4>3. ASSUME NEW n \in Names
            PROVE  /\ HeldThen(n) => Held(n)
                   /\ HeldThen(n) /\ n \in Uncleaned(b) => n \in Uncleaned(b)'
                   /\ n \in Uncleaned(b)' => HeldThen(n) /\ n \in Uncleaned(b)
        <5>1. CASE RemoveUserSnapshot(a)
          <6>1. /\ UNCHANGED acl
                /\ pc[a] = "snapshot" /\ pc'[a] = "clean"
                /\ shares[n] # None => shares[n] \in todo'[a]
            BY <5>1, <1>t DEF RemoveUserSnapshot, Goto, TypeOK, At, Listed
          <6> QED BY <6>1, <3>1, <4>2, <2>5, <2>8
        <5>2. ASSUME NEW x \in Bindings, RemoveUserAcl(a, x)
              PROVE  /\ HeldThen(n) => Held(n)
                     /\ HeldThen(n) /\ n \in Uncleaned(b) => n \in Uncleaned(b)'
                     /\ n \in Uncleaned(b)' => HeldThen(n) /\ n \in Uncleaned(b)
          <6>1. /\ pc[a] = "clean" /\ pc'[a] = "clean"
                /\ todo'[a] = todo[a] \ {x}
                /\ u \in Users
            BY <5>2, <1>t, <2>1, <2>8, StepFrame DEF RemoveUserAcl, TypeOK, At
          <6>2. HeldThen(n) => shares[n] # x /\ Held(n)
            BY <5>2, <6>1, <3>1, <2>8, <1>t
               DEF RemoveUserAcl, TypeOK, ShareAcl, Grants
          <6> QED BY <6>1, <6>2, <3>1, <4>2, <2>5, <2>8
        <5> QED BY <3>3, <5>1, <5>2
      <4>4. Uncleaned(b) \subseteq Names /\ Uncleaned(b)' \subseteq Names
        BY DEF Uncleaned
      <4> QED BY <1>3, <4>1, <4>3, <4>4, <2>2, <2>3
    <3> QED BY <2>1, <2>8, <3>2, <3>3, StepFrame
  <2> QED BY <2>6, <2>7, <2>8
<1> QED BY <1>2, <1>3

(* The steps inside a call that change nothing anybody can see: the checks *)
(* that pass, and the moves from one lock to the next.                     *)
LEMMA SilentStep ==
    ASSUME ConfigInv, NEW a \in Admins,
           \/ RemoveUserSnapshot(a) \/ AddShareCheck(a) \/ GrantCheck(a)
           \/ FindShare(a) \/ ListLive(a)
    PROVE  UNCHANGED Table!tableVars
<1>t. TypeInv /\ TypeOK
  BY DEF ConfigInv, TypeInv
<1>1. UNCHANGED <<users, shares, acl, job>> /\ ShareTable' = ShareTable
  BY DEF RemoveUserSnapshot, AddShareCheck, GrantCheck, FindShare, ListLive, Goto,
         ShareTable
<1>2. PICK where \in PCs : /\ pc' = [pc EXCEPT ![a] = where]
                           /\ Stage(where) = Stage(pc[a])
  BY <1>t DEF RemoveUserSnapshot, AddShareCheck, GrantCheck, FindShare, ListLive, Goto,
         AtFind, At, Stage, PCs, TypeOK
<1>3. Stages' = Stages
  BY <1>t, <1>2 DEF Stages, TypeOK
<1>4. ASSUME NEW b \in Admins PROVE Lost(b)' = Lost(b)
  BY <1>1, <1>t DEF Lost, RemoveUserSnapshot, AddShareCheck, GrantCheck, FindShare,
     ListLive, Goto, AtFind, At, TypeOK
<1>5. ASSUME NEW b \in Admins PROVE Uncleaned(b)' = Uncleaned(b)
  <2>1. CASE RemoveUserSnapshot(a)
    <3>1. \A n \in Names : shares[n] # None => shares[n] \in todo'[a]
      BY <2>1, <1>t DEF RemoveUserSnapshot, TypeOK, Listed
    <3>2. \/ pc'[b] = pc[b] /\ todo'[b] = todo[b]
          \/ b = a /\ pc[b] = "snapshot" /\ pc'[b] = "clean"
      BY <2>1, <1>t DEF RemoveUserSnapshot, TypeOK, Goto, At
    <3> QED BY <1>1, <3>1, <3>2 DEF Uncleaned
  <2>2. CASE AddShareCheck(a) \/ GrantCheck(a) \/ FindShare(a) \/ ListLive(a)
    <3>1. /\ pc'[b] = pc[b] \/ {pc[b], pc'[b]} \cap {"snapshot", "clean"} = {}
          /\ todo' = todo
      BY <2>2, <1>t DEF AddShareCheck, GrantCheck, FindShare, ListLive, Goto,
         AtFind, At, TypeOK
    <3> QED BY <1>1, <3>1 DEF Uncleaned
  <2> QED BY <2>1, <2>2
<1>6. LostCalls' = LostCalls /\ OwedShares' = OwedShares
  BY <1>4, <1>5 DEF LostCalls, OwedShares
<1> QED BY <1>1, <1>3, <1>6 DEF Table!tableVars

(* A step that moves a task's call on, or ends it.                         *)
LEMMA ToStage ==
    ASSUME ConfigInv, NEW a \in Admins
    PROVE  /\ Return(a) => Table!To(a, "idle")
           /\ \A where \in PCs : Goto(a, where) /\ Stage(where) # "idle"
                => Table!To(a, Stage(where))
<1>t. TypeInv /\ TypeOK
  BY DEF ConfigInv, TypeInv
<1>1. ASSUME Return(a)
      PROVE  Table!To(a, "idle")
  <2>1. pc' = [pc EXCEPT ![a] = "idle"] /\ job' = [job EXCEPT ![a] = NoJob]
    BY <1>1 DEF Return
  <2>2. Stages' = [Stages EXCEPT ![a] = Stage("idle")]
    BY <1>t, <2>1, GotoStage DEF PCs
  <2>3. Stage("idle") = "idle"
    BY DEF Stage
  <2> QED BY <2>1, <2>2, <2>3 DEF Table!To
<1>2. ASSUME NEW where \in PCs, Goto(a, where), Stage(where) # "idle"
      PROVE  Table!To(a, Stage(where))
  <2>1. Stages' = [Stages EXCEPT ![a] = Stage(where)]
    BY <1>t, <1>2, GotoStage DEF Goto
  <2>2. job' = [job EXCEPT ![a] = job[a]]
    BY <1>t, <1>2 DEF Goto, TypeOK
  <2> QED BY <1>2, <2>1, <2>2 DEF Table!To
<1> QED BY <1>1, <1>2

(* A binding is listed under one name at most, so a step that changes its  *)
(* ACL changes one entry of the table, or none.                            *)
LEMMA AclChange ==
    ASSUME TypeOK, NamesKept, NEW b \in Bindings, NEW x, UNCHANGED shares,
           acl' = [acl EXCEPT ![b] = x]
    PROVE  /\ \A n \in Names :
                shares[n] = b => ShareTable' = [ShareTable EXCEPT ![n] = x]
           /\ (\A n \in Names : shares[n] # b) => UNCHANGED ShareTable
<1>1. ASSUME NEW n \in Names, shares[n] = b
      PROVE  ShareTable' = [ShareTable EXCEPT ![n] = x]
  <2>1. shares[n] # None /\ \A m \in Names : shares[m] = b => m = n
    BY <1>1, NoneAssumption DEF NamesKept
  <2>2. ASSUME NEW m \in Names
        PROVE  ShareTable'[m] = IF m = n THEN x ELSE ShareTable[m]
    BY <1>1, <2>1 DEF ShareTable, TypeOK
  <2> QED BY <2>2 DEF ShareTable
<1>2. ASSUME \A n \in Names : shares[n] # b
      PROVE  UNCHANGED ShareTable
  <2>1. ASSUME NEW m \in Names
        PROVE  ShareTable'[m] = ShareTable[m]
    BY <1>2 DEF ShareTable, TypeOK
  <2> QED BY <2>1 DEF ShareTable
<1> QED BY <1>1, <1>2

(* The steps of a table step that the frame conditions do not mention.     *)
TableAction(a) ==
    \/ Table!Begin(a) \/ Table!TakeEffect(a) \/ Table!Refuse(a) \/ Table!Miss(a)
    \/ \E n \in Names : Table!TakeRight(a, n)
    \/ Table!RightsTaken(a) \/ Table!Finish(a)

(* Where a task is when it can still be refused.                           *)
LEMMA CalledAt ==
    ASSUME ConfigInv, NEW a \in Admins
    PROVE  /\ pc[a] \in {"start", "find", "insert"} =>
                Stages[a] = "called" /\ ~LostCalls[a]
           /\ pc[a] = "acl" => /\ Stages[a] = "called"
                               /\ LostCalls[a] <=> shares[job[a].share] # bind[a]
BY StageValues DEF LostCalls, Lost, ConfigInv, TypeInv

LEMMA CallTableStep ==
    ASSUME ConfigInv, NEW a \in Admins, Call(a)
    PROVE  Table!Begin(a)
<1>1. TypeOK /\ pc[a] = "idle" /\ Stages[a] = "idle"
  BY StageValues DEF ConfigInv, TypeInv, Call
<1>2. Stages' = [Stages EXCEPT ![a] = Stage("start")]
  BY <1>1, GotoStage DEF Call, PCs
<1>3. Stage("start") = "called" /\ ShareTable' = ShareTable
  BY DEF Stage, Call, ShareTable
<1> QED BY <1>1, <1>2, <1>3 DEF Call, Table!Begin

(* add_user and remove_user: one step takes effect, or is refused, under   *)
(* the write guard on the user table.                                      *)
LEMMA UserTableStep ==
    ASSUME ConfigInv, NamesKept, NEW a \in Admins, UserSteps(a), ~RemoveUserSnapshot(a)
    PROVE  TableAction(a) \/ UNCHANGED Table!tableVars
<1>t. TypeInv /\ TypeOK /\ TodoOwned
  BY DEF ConfigInv, TypeInv
<1>1. CASE AddUser(a)
  <2>1. Stages[a] = "called" /\ ~LostCalls[a] /\ Table!To(a, "idle")
    BY <1>1, CalledAt, ToStage DEF AddUser, At
  <2>2. job[a].op = "add_user" /\ ShareTable' = ShareTable
    BY <1>1 DEF AddUser, At, ShareTable
  <2>3. Table!TakeEffect(a)
    BY <1>1, <2>1, <2>2 DEF AddUser, Table!TakeEffect, Table!Permitted,
       Table!Effect, Table!Then, Table!Giving
  <2> QED BY <2>3 DEF TableAction
<1>2. CASE RemoveUser(a)
  <2>1. Stage("snapshot") = "removing" /\ "snapshot" \in PCs
    BY DEF Stage, PCs
  <2>2. Stages[a] = "called" /\ ~LostCalls[a] /\ Table!To(a, "removing")
    BY <1>2, <2>1, CalledAt, ToStage DEF RemoveUser, At
  <2>3. job[a].op = "remove_user" /\ ShareTable' = ShareTable
    BY <1>2 DEF RemoveUser, At, ShareTable
  <2>4. Table!TakeEffect(a)
    BY <1>2, <2>2, <2>3 DEF RemoveUser, Table!TakeEffect, Table!Permitted,
       Table!Effect, Table!Then, Table!Giving
  <2> QED BY <2>4 DEF TableAction
<1>3. CASE RemoveUserUnknown(a)
  <2>1. Stages[a] = "called" /\ ~LostCalls[a] /\ Table!To(a, "idle")
    BY <1>3, CalledAt, ToStage DEF RemoveUserUnknown, At
  <2>2. job[a].op = "remove_user" /\ ShareTable' = ShareTable
    BY <1>3 DEF RemoveUserUnknown, At, ShareTable
  <2>3. Table!Refuse(a)
    BY <1>3, <2>1, <2>2 DEF RemoveUserUnknown, Table!Refuse, Table!Permitted
  <2> QED BY <2>3 DEF TableAction
<1>4. ASSUME NEW b \in Bindings, RemoveUserAcl(a, b)
      PROVE  TableAction(a) \/ UNCHANGED Table!tableVars
  <2> DEFINE u == job[a].user
             x == [acl[b] EXCEPT !.users[u] = None]
  <2>1. /\ acl' = [acl EXCEPT ![b] = x]
        /\ pc[a] = "clean" /\ b \in todo[a]
        /\ UNCHANGED <<users, shares, pc, job>>
        /\ u \in Users
    <3>1. pc'[a] \in {"snapshot", "clean"}
      BY <1>4 DEF RemoveUserAcl, At
    <3> QED BY <1>4, <3>1, StepFrame DEF RemoveUserAcl, At, AdminStep, UserSteps
  <2>2. Stages[a] = "removing" /\ Stages' = Stages
    BY <1>t, <2>1, StageValues DEF Stages
  <2>3. CASE \E n \in Names : shares[n] = b /\ acl[b].users[u] # None
    <3>1. PICK n \in Names : shares[n] = b /\ acl[b].users[u] # None
      BY <2>3
    <3>2. shares[n] # None /\ ShareTable[n] = acl[b]
      BY <1>t, <3>1, Entry, NoneAssumption
    <3>3. ShareTable' = [ShareTable EXCEPT ![n] = x]
      <4> HIDE DEF x
      <4> QED BY <1>t, <2>1, <3>1, AclChange
    <3>4. ShareTable' = [ShareTable EXCEPT ![n].users[u] = None]
      BY <3>2, <3>3
    <3>5. n \in OwedShares[a]
      BY <2>1, <3>1, <3>2 DEF OwedShares, Uncleaned
    <3>6. Table!TakeRight(a, n)
      BY <2>1, <2>2, <3>4, <3>5 DEF Table!TakeRight
    <3> QED BY <3>6 DEF TableAction
  <2>4. CASE ~\E n \in Names : shares[n] = b /\ acl[b].users[u] # None
    <3>1. ASSUME NEW n \in Names, shares[n] # None
          PROVE  acl'[shares[n]] = acl[shares[n]]
      <4>1. shares[n] = b => acl[b] = x
        <5>1. acl[b] \in ShareAcl
          BY <1>t DEF TypeOK
        <5> QED BY <5>1, <2>1, <2>4 DEF ShareAcl, Grants
      <4> QED BY <1>t, <2>1, <4>1 DEF TypeOK
    <3>2. ShareTable' = ShareTable
      BY <2>1, <3>1 DEF ShareTable
    <3>3. LostCalls' = LostCalls
      BY <1>4 DEF LostCalls, Lost, RemoveUserAcl
    <3>4. ASSUME NEW c \in Admins PROVE Uncleaned(c)' = Uncleaned(c)
      <4>1. ASSUME NEW n \in Names
            PROVE  n \in Uncleaned(c)' <=> n \in Uncleaned(c)
        <5>1. \/ todo'[c] = todo[c]
              \/ c = a /\ todo'[c] = todo[c] \ {b} /\ pc[c] = "clean"
          BY <1>t, <1>4, <2>1 DEF RemoveUserAcl, TypeOK
        <5> QED BY <5>1, <2>1, <2>4, <3>1 DEF Uncleaned
      <4> QED BY <4>1 DEF Uncleaned
    <3>5. OwedShares' = OwedShares
      BY <3>4 DEF OwedShares
    <3> QED BY <2>1, <2>2, <3>2, <3>3, <3>5 DEF Table!tableVars
  <2> QED BY <2>3, <2>4
<1>5. CASE RemoveUserCleaned(a)
  <2>1. Stage("sweep") = "closing" /\ "sweep" \in PCs
    BY DEF Stage, PCs
  <2>2. Stages[a] = "removing" /\ Table!To(a, "closing")
    BY <1>5, <1>t, <2>1, StageValues, ToStage DEF RemoveUserCleaned, At
  <2>3. OwedShares[a] = {} /\ ShareTable' = ShareTable /\ UNCHANGED users
    BY <1>5 DEF RemoveUserCleaned, At, OwedShares, Uncleaned, ShareTable
  <2>4. Table!RightsTaken(a)
    BY <2>2, <2>3 DEF Table!RightsTaken
  <2> QED BY <2>4 DEF TableAction
<1> QED BY <1>1, <1>2, <1>3, <1>4, <1>5 DEF UserSteps

(* add_share and remove_share: one step under the lock of the share table. *)
(* The users add_share has checked are still known when it inserts.        *)
LEMMA ShareTableStep ==
    ASSUME ConfigInv, NamesKept, NEW a \in Admins, ShareSteps(a), ~AddShareCheck(a)
    PROVE  TableAction(a)
<1>t. TypeInv /\ TypeOK /\ GuardHolders
  BY DEF ConfigInv, TypeInv
<1>j. /\ job[a] \in Jobs
      /\ job[a].op \in {"add_share", "remove_share"} => job[a].share \in Names
  BY <1>t, RequestTypes DEF TypeInv, JobsMade
<1>e. job[a].share \in Names =>
        (ShareTable[job[a].share] = None <=> shares[job[a].share] = None)
  BY <1>t, Entry
<1>g. Table!Named(job[a].grants) = Granted(job[a].grants)
  BY DEF Table!Named, Granted
<1>s. Table!Sound(Table!Added(job[a])) <=>
        (job[a].mode \in PublicModes => Granted(job[a].grants) = {})
  BY <1>g DEF Table!Sound, Table!Added, Table!Open, PublicModes
<1>1. CASE AddShareRejected(a) \/ AddShareDuplicate(a) \/ RemoveShareUnknown(a)
  <2>1. Stages[a] = "called" /\ ~LostCalls[a] /\ Table!To(a, "idle")
    BY <1>1, CalledAt, ToStage
       DEF AddShareRejected, AddShareDuplicate, RemoveShareUnknown, At
  <2>2. ShareTable' = ShareTable /\ users' = users
    BY <1>1 DEF AddShareRejected, AddShareDuplicate, RemoveShareUnknown, ShareTable
  <2>3. ~Table!Permitted(job[a])
    <3>1. CASE AddShareRejected(a)
      BY <3>1, <1>g, <1>s DEF AddShareRejected, Table!Permitted, At
    <3>2. CASE AddShareDuplicate(a) \/ RemoveShareUnknown(a)
      BY <3>2, <1>j, <1>e
         DEF AddShareDuplicate, RemoveShareUnknown, Table!Permitted, At
    <3> QED BY <1>1, <3>1, <3>2
  <2>4. Table!Refuse(a)
    BY <2>1, <2>2, <2>3 DEF Table!Refuse
  <2> QED BY <2>4 DEF TableAction
<1>2. ASSUME NEW b \in Bindings, AddShareInsert(a, b)
      PROVE  TableAction(a)
  <2> DEFINE n == job[a].share
             x == [mode |-> job[a].mode, users |-> job[a].grants]
  <2>1. /\ At(a, "add_share", "insert")
        /\ shares[n] = None /\ n \in Names
        /\ \A m \in Names : shares[m] # b
        /\ shares' = [shares EXCEPT ![n] = b]
        /\ acl' = [acl EXCEPT ![b] = x]
        /\ Return(a) /\ users' = users
    BY <1>2, <1>j DEF AddShareInsert, At, Unreferenced, Listed
  <2>2. Stages[a] = "called" /\ ~LostCalls[a] /\ Table!To(a, "idle")
    BY <2>1, CalledAt, ToStage DEF At
  <2>3. ShareTable' = [ShareTable EXCEPT ![n] = x]
    <3> HIDE DEF n, x
    <3>1. ASSUME NEW m \in Names
          PROVE  ShareTable'[m] = IF m = n THEN x ELSE ShareTable[m]
      BY <2>1, <1>t, NoneAssumption DEF ShareTable, TypeOK
    <3>2. /\ ShareTable = [m \in Names |-> ShareTable[m]]
          /\ ShareTable' = [m \in Names |-> ShareTable'[m]]
      BY DEF ShareTable
    <3> QED BY <3>1, <3>2
  <2>4. Table!Permitted(job[a])
    BY <2>1, <1>t, <1>e, <1>g, <1>s DEF Table!Permitted, GuardHolders, At
  <2>5. Table!Effect(job[a]) /\ Table!Then(job[a].op) = "idle"
    BY <2>1, <2>3 DEF Table!Effect, Table!Added, Table!Then, Table!Giving, At
  <2>6. Table!TakeEffect(a)
    BY <2>2, <2>4, <2>5 DEF Table!TakeEffect
  <2> QED BY <2>6 DEF TableAction
<1>3. CASE RemoveShare(a)
  <2> DEFINE n == job[a].share
  <2>1. /\ At(a, "remove_share", "start")
        /\ shares[n] # None /\ n \in Names
        /\ shares' = [shares EXCEPT ![n] = None]
        /\ UNCHANGED <<users, acl>> /\ Goto(a, "sweep")
    BY <1>3, <1>j DEF RemoveShare, At
  <2>2. Stage("sweep") = "closing" /\ "sweep" \in PCs
    BY DEF Stage, PCs
  <2>3. Stages[a] = "called" /\ ~LostCalls[a] /\ Table!To(a, "closing")
    BY <2>1, <2>2, CalledAt, ToStage DEF At
  <2>4. ShareTable' = [ShareTable EXCEPT ![n] = None]
    <3> HIDE DEF n
    <3>1. ASSUME NEW m \in Names
          PROVE  ShareTable'[m] = IF m = n THEN None ELSE ShareTable[m]
      BY <2>1, <1>t DEF ShareTable, TypeOK
    <3> QED BY <3>1, <2>1 DEF ShareTable
  <2>5. Table!Permitted(job[a])
    BY <2>1, <1>e DEF Table!Permitted, At
  <2>6. Table!Effect(job[a]) /\ Table!Then(job[a].op) = "closing"
    BY <2>1, <2>4 DEF Table!Effect, Table!Then, Table!Giving, At
  <2>7. Table!TakeEffect(a)
    BY <2>3, <2>5, <2>6 DEF Table!TakeEffect
  <2> QED BY <2>7 DEF TableAction
<1> QED BY <1>1, <1>2, <1>3 DEF ShareSteps

(* grant_share_user, revoke_share_user and set_share_mode: the step under  *)
(* the lock of the ACL takes effect if the ACL is still that of the share, *)
(* and otherwise changes an ACL nobody can see.                            *)
LEMMA AclTableStep ==
    ASSUME ConfigInv, NamesKept, NEW a \in Admins, AclSteps(a),
           ~GrantCheck(a), ~FindShare(a)
    PROVE  TableAction(a)
<1> DEFINE n == job[a].share
           b == bind[a]
<1>t. TypeInv /\ TypeOK /\ GuardHolders /\ BindFound
  BY DEF ConfigInv, TypeInv
<1>j. /\ job[a] \in Jobs
      /\ job[a].op \in {"grant_share_user", "revoke_share_user"} => job[a].user \in Users
      /\ job[a].op \in {"grant_share_user", "revoke_share_user", "set_share_mode"} =>
            n \in Names
  BY <1>t, RequestTypes DEF TypeInv, JobsMade
<1>o. Table!Open = PublicModes
  BY DEF Table!Open, PublicModes
<1>1. CASE GrantUnknown(a) \/ FindShareUnknown(a)
  <2>1. Stages[a] = "called" /\ ~LostCalls[a] /\ Table!To(a, "idle")
    BY <1>1, CalledAt, ToStage DEF GrantUnknown, FindShareUnknown, AtFind, At
  <2>2. ShareTable' = ShareTable /\ users' = users
    BY <1>1 DEF GrantUnknown, FindShareUnknown, ShareTable
  <2>3. ~Table!Permitted(job[a])
    <3>1. CASE GrantUnknown(a)
      BY <3>1 DEF GrantUnknown, Table!Permitted, At
    <3>2. CASE FindShareUnknown(a)
      BY <3>2, <1>t, <1>j, Entry DEF FindShareUnknown, Table!Permitted, AtFind, At
    <3> QED BY <1>1, <3>1, <3>2
  <2>4. Table!Refuse(a)
    BY <2>1, <2>2, <2>3 DEF Table!Refuse
  <2> QED BY <2>4 DEF TableAction
(* What is known once the ACL is locked.                                   *)
<1>2. ASSUME pc[a] = "acl", n \in Names
      PROVE  /\ Stages[a] = "called" /\ (LostCalls[a] <=> shares[n] # b)
             /\ b \in Bindings /\ acl[b] \in ShareAcl
             /\ shares[n] = b => ShareTable[n] = acl[b] /\ ShareTable[n] # None
             /\ shares[n] # b => \A m \in Names : shares[m] # b
  <2>1. Stages[a] = "called" /\ (LostCalls[a] <=> shares[n] # b)
    BY <1>2, CalledAt
  <2>2. b \in Bindings /\ acl[b] \in ShareAcl /\ b # None
    BY <1>2, <1>t, NoneAssumption DEF BindFound, TypeOK
  <2>3. shares[n] = b => ShareTable[n] = acl[b] /\ ShareTable[n] # None
    BY <1>2, <1>t, <2>2, Entry
  <2>4. \A m \in Names : shares[m] = b => m = n
    BY <1>2, <2>2 DEF NamesKept
  <2> QED BY <2>1, <2>2, <2>3, <2>4
(* What follows from a change of it.                                       *)
<1>3. ASSUME pc[a] = "acl", n \in Names, NEW x,
             UNCHANGED shares, acl' = [acl EXCEPT ![b] = x]
      PROVE  /\ shares[n] = b => ShareTable' = [ShareTable EXCEPT ![n] = x]
             /\ shares[n] # b => UNCHANGED ShareTable
  BY <1>2, <1>3, <1>t, AclChange
<1>4. CASE GrantInsert(a)
  <2> DEFINE x == [acl[b] EXCEPT !.users[job[a].user] = job[a].access]
  <2>1. /\ At(a, "grant_share_user", "acl") /\ n \in Names
        /\ acl[b].mode \notin PublicModes
        /\ acl' = [acl EXCEPT ![b] = x]
        /\ UNCHANGED <<users, shares>> /\ Return(a)
    BY <1>4, <1>j DEF GrantInsert, At
  <2>2. Table!To(a, "idle") /\ pc[a] = "acl"
    BY <2>1, ToStage DEF At
  <2>3. /\ shares[n] = b => ShareTable' = [ShareTable EXCEPT ![n] = x]
        /\ shares[n] # b => UNCHANGED ShareTable
    <3> HIDE DEF x
    <3> QED BY <2>1, <2>2, <1>3
  <2>4. CASE shares[n] = b
    <3>1. Table!Permitted(job[a])
      BY <2>1, <2>2, <2>4, <1>2, <1>t, <1>o DEF Table!Permitted, GuardHolders, At
    <3>2. ShareTable' = [ShareTable EXCEPT ![n].users[job[a].user] = job[a].access]
      BY <2>1, <2>2, <2>3, <2>4, <1>2
    <3>3. Table!Effect(job[a]) /\ Table!Then(job[a].op) = "idle"
      BY <2>1, <3>2 DEF Table!Effect, Table!Then, Table!Giving, At
    <3>4. Table!TakeEffect(a)
      BY <2>1, <2>2, <2>4, <3>1, <3>3, <1>2 DEF Table!TakeEffect
    <3> QED BY <3>4 DEF TableAction
  <2>5. CASE shares[n] # b
    <3>1. Table!Miss(a)
      BY <2>1, <2>2, <2>3, <2>5, <1>2 DEF Table!Miss
    <3> QED BY <3>1 DEF TableAction
  <2> QED BY <2>4, <2>5
<1>5. CASE GrantPublic(a)
  <2>1. /\ At(a, "grant_share_user", "acl") /\ n \in Names
        /\ acl[b].mode \in PublicModes
        /\ UNCHANGED <<users, shares, acl>> /\ Return(a)
    BY <1>5, <1>j DEF GrantPublic, At
  <2>2. Table!To(a, "idle") /\ pc[a] = "acl" /\ UNCHANGED ShareTable
    BY <2>1, ToStage DEF At, ShareTable
  <2>3. shares[n] = b => ~Table!Permitted(job[a])
    BY <2>1, <2>2, <1>2, <1>o DEF Table!Permitted, At
  <2>4. Table!Refuse(a) \/ Table!Miss(a)
    BY <2>1, <2>2, <2>3, <1>2 DEF Table!Refuse, Table!Miss
  <2> QED BY <2>4 DEF TableAction
<1>6. CASE RevokeRemove(a)
  <2> DEFINE x == [acl[b] EXCEPT !.users[job[a].user] = None]
  <2>1. /\ At(a, "revoke_share_user", "acl") /\ n \in Names
        /\ acl' = [acl EXCEPT ![b] = x]
        /\ UNCHANGED <<users, shares>> /\ Goto(a, "sweep")
    BY <1>6, <1>j DEF RevokeRemove, At
  <2>2. Stage("sweep") = "closing" /\ "sweep" \in PCs
    BY DEF Stage, PCs
  <2>3. Table!To(a, "closing") /\ pc[a] = "acl"
    BY <2>1, <2>2, ToStage DEF At
  <2>4. /\ shares[n] = b => ShareTable' = [ShareTable EXCEPT ![n] = x]
        /\ shares[n] # b => UNCHANGED ShareTable
    <3> HIDE DEF x
    <3> QED BY <2>1, <2>3, <1>3
  <2>5. CASE shares[n] = b
    <3>1. Table!Permitted(job[a])
      BY <2>1, <2>3, <2>5, <1>2 DEF Table!Permitted, At
    <3>2. ShareTable' = [ShareTable EXCEPT ![n].users[job[a].user] = None]
      BY <2>1, <2>3, <2>4, <2>5, <1>2
    <3>3. Table!Effect(job[a]) /\ Table!Then(job[a].op) = "closing"
      BY <2>1, <3>2 DEF Table!Effect, Table!Then, Table!Giving, At
    <3>4. Table!TakeEffect(a)
      BY <2>1, <2>3, <2>5, <3>1, <3>3, <1>2 DEF Table!TakeEffect
    <3> QED BY <3>4 DEF TableAction
  <2>6. CASE shares[n] # b
    <3>1. Table!Miss(a)
      BY <2>1, <2>3, <2>4, <2>6, <1>2 DEF Table!Miss, Table!Giving, At
    <3> QED BY <3>1 DEF TableAction
  <2> QED BY <2>5, <2>6
<1>7. CASE SetMode(a)
  <2> DEFINE x == [acl[b] EXCEPT !.mode = job[a].mode]
  <2>1. /\ At(a, "set_share_mode", "acl") /\ n \in Names
        /\ ~ModeRejected(a) /\ acl[b].mode # job[a].mode
        /\ acl' = [acl EXCEPT ![b] = x]
        /\ UNCHANGED <<users, shares>> /\ Goto(a, "sweep")
    BY <1>7, <1>j DEF SetMode, At
  <2>2. Stage("sweep") = "closing" /\ "sweep" \in PCs
    BY DEF Stage, PCs
  <2>3. Table!To(a, "closing") /\ pc[a] = "acl"
    BY <2>1, <2>2, ToStage DEF At
  <2>4. /\ shares[n] = b => ShareTable' = [ShareTable EXCEPT ![n] = x]
        /\ shares[n] # b => UNCHANGED ShareTable
    <3> HIDE DEF x
    <3> QED BY <2>1, <2>3, <1>3
  <2>5. CASE shares[n] = b
    <3>1. Table!Sound([acl[b] EXCEPT !.mode = job[a].mode])
      <4>1. acl[b] \in ShareAcl
        BY <2>1, <2>3, <1>2
      <4> QED BY <4>1, <2>1, <1>o
              DEF Table!Sound, Table!Named, ModeRejected, Granted, ShareAcl
    <3>2. Table!Permitted(job[a])
      BY <2>1, <2>3, <2>5, <3>1, <1>2 DEF Table!Permitted, At
    <3>3. ShareTable' = [ShareTable EXCEPT ![n].mode = job[a].mode]
      BY <2>1, <2>3, <2>4, <2>5, <1>2
    <3>4. Table!Effect(job[a]) /\ Table!Then(job[a].op) = "closing"
      BY <2>1, <3>3 DEF Table!Effect, Table!Then, Table!Giving, At
    <3>5. Table!TakeEffect(a)
      BY <2>1, <2>3, <2>5, <3>2, <3>4, <1>2 DEF Table!TakeEffect
    <3> QED BY <3>5 DEF TableAction
  <2>6. CASE shares[n] # b
    <3>1. Table!Miss(a)
      BY <2>1, <2>3, <2>4, <2>6, <1>2 DEF Table!Miss, Table!Giving, At
    <3> QED BY <3>1 DEF TableAction
  <2> QED BY <2>5, <2>6
<1>8. CASE SetModeNoChange(a)
  <2>1. /\ At(a, "set_share_mode", "acl") /\ n \in Names
        /\ ModeRejected(a) \/ acl[b].mode = job[a].mode
        /\ UNCHANGED <<users, shares, acl>> /\ Return(a)
    BY <1>8, <1>j DEF SetModeNoChange, At
  <2>2. Table!To(a, "idle") /\ pc[a] = "acl" /\ UNCHANGED ShareTable
    BY <2>1, ToStage DEF At, ShareTable
  <2>3. shares[n] = b => ~Table!Permitted(job[a])
    <3>1. ModeRejected(a) => ~Table!Sound([acl[b] EXCEPT !.mode = job[a].mode])
      <4>1. acl[b] \in ShareAcl
        BY <2>1, <2>2, <1>2
      <4> QED BY <4>1, <1>o
              DEF Table!Sound, Table!Named, ModeRejected, Granted, ShareAcl
    <3> QED BY <2>1, <2>2, <3>1, <1>2 DEF Table!Permitted, At
  <2>4. Table!Refuse(a) \/ Table!Miss(a)
    BY <2>1, <2>2, <2>3, <1>2 DEF Table!Refuse, Table!Miss
  <2> QED BY <2>4 DEF TableAction
<1> QED BY <1>1, <1>4, <1>5, <1>6, <1>7, <1>8 DEF AclSteps

(* A step of a either moves its call on in the table, or is silent.        *)
LEMMA AdminTableStep ==
    ASSUME ConfigInv, NamesKept, NEW a \in Admins, Call(a) \/ AdminStep(a)
    PROVE  Table!TableStep(a) \/ UNCHANGED Table!tableVars
<1>1. Table!Losses /\ Table!Debts
  BY StepLosses, StepDebts
<1>2. TableAction(a) => Table!TableStep(a)
  BY <1>1 DEF TableAction, Table!TableStep
<1>3. CASE Call(a)
  BY <1>2, <1>3, CallTableStep DEF TableAction
<1>4. CASE SweepDone(a)
  <2>1. Stages[a] = "closing" /\ Table!To(a, "idle")
    BY <1>4, StageValues, ToStage DEF SweepDone, ConfigInv, TypeInv
  <2>2. Table!Finish(a)
    BY <1>4, <2>1 DEF SweepDone, ShareTable, Table!Finish
  <2> QED BY <1>2, <2>2 DEF TableAction
<1>5. CASE UserSteps(a) \/ ShareSteps(a) \/ AclSteps(a) \/ ListLive(a)
  BY <1>2, <1>5, SilentStep, UserTableStep, ShareTableStep, AclTableStep
<1> QED BY <1>3, <1>4, <1>5 DEF AdminStep

(* What the table shows rests on the variables of the control plane only.  *)
LEMMA TableKept ==
    ASSUME UNCHANGED configVars
    PROVE  UNCHANGED Table!tableVars
<1>1. ShareTable' = ShareTable /\ Stages' = Stages
  BY DEF configVars, ShareTable, Stages
<1>2. LostCalls' = LostCalls /\ OwedShares' = OwedShares
  BY DEF configVars, LostCalls, Lost, OwedShares, Uncleaned
<1> QED BY <1>1, <1>2 DEF configVars, Table!tableVars

LEMMA StepTable ==
    ASSUME ConfigInv, NamesKept, [ConfigNext]_configVars
    PROVE  [Table!TableNext]_(Table!tableVars)
BY AdminTableStep, TableKept DEF ConfigNext, Table!TableNext

LEMMA InitTable == ConfigInit => Table!TableInit
<1> SUFFICES ASSUME ConfigInit PROVE Table!TableInit
  OBVIOUS
<1>t. TypeOK
  BY InitTypeInv DEF TypeInv
<1>1. ShareTable \in [Names -> ShareAcl \cup {None}]
  BY <1>t DEF ShareTable, TypeOK
<1>2. Table!Shares = ShareAcl
  BY DEF Table!Shares, Table!Open, ShareAcl, Modes, Grants, Access
<1>3. ASSUME NEW n \in Names, ShareTable[n] # None
      PROVE  /\ Table!Sound(ShareTable[n])
             /\ Table!Named(ShareTable[n].users) \subseteq users
  <2>1. shares[n] # None /\ ShareTable[n] = acl[shares[n]]
    BY <1>3, <1>t, Entry
  <2> QED BY <2>1 DEF ConfigInit, Table!Sound, Table!Named, Table!Open, PublicModes,
                      Granted
<1>4. /\ Stages = [a \in Admins |-> "idle"]
      /\ LostCalls = [a \in Admins |-> FALSE]
      /\ OwedShares = [a \in Admins |-> {}]
  BY DEF ConfigInit, Stages, Stage, LostCalls, Lost, OwedShares, Uncleaned
<1> QED BY <1>1, <1>2, <1>3, <1>4 DEF ConfigInit, Table!TableInit

(* Whatever the interleaving of the calls of ConfigHandle, and although    *)
(* each takes several locks one after the other (server.rs), every call    *)
(* takes effect in one step on one table, or is refused by the table as it *)
(* is then, or is lost on a share that has been removed; remove_user takes *)
(* every right its user had when it was forgotten.                         *)
THEOREM TableRefinement == ConfigSpec => ImplementsTable
<1>1. ConfigInit => ConfigInv /\ NamesKept /\ Table!TableInit
  BY InitConfigInv, InitTable DEF ConfigInit, NamesKept
<1>2. ConfigInv /\ NamesKept /\ [ConfigNext]_configVars
        => ConfigInv' /\ NamesKept' /\ [Table!TableNext]_(Table!tableVars)
  BY StepConfigInv, StepNamesKept, StepTable
<1> QED BY <1>1, <1>2, PTL DEF ConfigSpec, ImplementsTable, Table!TableSpec
=============================================================================
