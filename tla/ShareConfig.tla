----------------------------- MODULE ShareConfig -----------------------------
(***************************************************************************)
(* The control plane of the server: the user table, the share table and    *)
(* the access-control list of every share, as changed at run time through  *)
(* ConfigHandle (server.rs).  Any number of tasks (Admins) may call it at  *)
(* the same time.  A call is split at every lock acquisition: what runs    *)
(* under one tokio RwLock guard is one step.                               *)
(*                                                                         *)
(* The only guard that outlives a step is the read guard on the user       *)
(* table: add_share and grant_share_user keep it until they return, so     *)
(* add_user and remove_user wait for them (UsersReadHeld).                 *)
(*                                                                         *)
(* A share table entry is an Arc: Bindings are those objects.  One that is *)
(* in no table and held by no task has been freed and may be allocated     *)
(* again.  User names exclude the reserved ones, share names are taken     *)
(* modulo ASCII case and exclude IPC$ (validate_user_name and              *)
(* validate_share_name reject the rest before anything else happens).      *)
(* Credentials are reduced to their presence in the table.                 *)
(*                                                                         *)
(* The calls that revoke something end by closing sessions or trees on the *)
(* live connections.  Those connections belong to SmbSessions.tla; here    *)
(* that part is the two steps ListLive and SweepDone.                      *)
(***************************************************************************)
EXTENDS Naturals, FiniteSets

CONSTANTS
    Users,       \* user names
    Names,       \* share names, lower-cased
    Bindings,    \* ShareBindings objects
    Admins,      \* tasks that use a ConfigHandle
    Calls,       \* the calls they make, a subset of Requests
    None         \* no user, no name, no binding

VARIABLES
    users,    \* ServerUsers.table: the set of known users
    shares,   \* ServerShares.by_name
    acl,      \* ShareBindings.acl of every binding
    bname,    \* ShareBindings.name of every binding
    pc,       \* where each admin task is in its call
    job,      \* the call and its arguments
    bind,     \* the binding a task got from find_share
    todo      \* the rest of remove_user's snapshot of the share table

configVars == <<users, shares, acl, bname, pc, job, bind, todo>>

Modes == {"Public", "PublicReadOnly", "AuthenticatedOnly"}
PublicModes == {"Public", "PublicReadOnly"}
Access == {"Read", "ReadWrite"}
Grants == [Users -> Access \cup {None}]
NoGrants == [u \in Users |-> None]
Granted(g) == {u \in Users : g[u] # None}
ShareAcl == [mode : Modes, users : Grants]

Ops == {"none", "add_user", "remove_user", "add_share", "remove_share",
        "grant_share_user", "revoke_share_user", "set_share_mode"}

(* A call is one record; the fields an operation does not take keep the    *)
(* value they have in NoJob.                                               *)
Jobs == [op : Ops, user : Users \cup {None}, share : Names \cup {None},
         access : Access, mode : Modes, grants : Grants]
NoJob == [op |-> "none", user |-> None, share |-> None, access |-> "Read",
          mode |-> "AuthenticatedOnly", grants |-> NoGrants]

UserJobs(op) == {[NoJob EXCEPT !.op = op, !.user = u] : u \in Users}
ShareJobs(op) == {[NoJob EXCEPT !.op = op, !.share = n] : n \in Names}
ModeJobs(op) == {[j EXCEPT !.mode = m] : j \in ShareJobs(op), m \in Modes}
AddShareJobs ==
    {[j EXCEPT !.grants = g] : j \in ModeJobs("add_share"), g \in Grants}
UserShareJobs(op) ==
    {[j EXCEPT !.user = u] : j \in ShareJobs(op), u \in Users}
GrantJobs ==
    {[j EXCEPT !.access = x] :
        j \in UserShareJobs("grant_share_user"), x \in Access}
Requests ==
    UserJobs("add_user") \cup UserJobs("remove_user") \cup AddShareJobs
        \cup ShareJobs("remove_share") \cup GrantJobs
        \cup UserShareJobs("revoke_share_user") \cup ModeJobs("set_share_mode")

ASSUME NoneAssumption ==
    /\ None \notin Users \cup Names \cup Bindings
    /\ None \notin Access
    /\ None \notin ShareAcl
ASSUME CallsAssumption == Calls \subseteq Requests

PCs == {"idle", "start", "find", "acl", "insert", "snapshot", "clean",
        "sweep", "sweeping"}

TypeOK ==
    /\ users \in SUBSET Users
    /\ shares \in [Names -> Bindings \cup {None}]
    /\ acl \in [Bindings -> ShareAcl]
    /\ bname \in [Bindings -> Names]
    /\ pc \in [Admins -> PCs]
    /\ job \in [Admins -> Jobs]
    /\ bind \in [Admins -> Bindings \cup {None}]
    /\ todo \in [Admins -> SUBSET Bindings]

-----------------------------------------------------------------------------

At(a, op, where) == job[a].op = op /\ pc[a] = where

(* Mutant: grant_share_user drops its read guard after the check.          *)
HoldsUsersRead_DroppedByGrant(a) == At(a, "add_share", "insert")

(* The read guard on the user table that add_share and grant_share_user    *)
(* hold from their check of the table until they return.                   *)
HoldsUsersRead(a) ==
    \/ At(a, "add_share", "insert")
    \/ At(a, "grant_share_user", "find")
    \/ At(a, "grant_share_user", "acl")
UsersReadHeld == \E a \in Admins : HoldsUsersRead(a)

Listed(b) == \E n \in Names : shares[n] = b

(* Bindings with no Arc to them in the table or in a task.                 *)
Unreferenced(b) ==
    /\ ~Listed(b)
    /\ \A a \in Admins : bind[a] # b /\ b \notin todo[a]

Goto(a, where) ==
    /\ pc' = [pc EXCEPT ![a] = where]
    /\ UNCHANGED job

Return(a) ==
    /\ pc' = [pc EXCEPT ![a] = "idle"]
    /\ job' = [job EXCEPT ![a] = NoJob]
    /\ bind' = [bind EXCEPT ![a] = None]
    /\ todo' = [todo EXCEPT ![a] = {}]

Call(a) ==
    /\ pc[a] = "idle"
    /\ \E j \in Calls : job' = [job EXCEPT ![a] = j]
    /\ pc' = [pc EXCEPT ![a] = "start"]
    /\ UNCHANGED <<users, shares, acl, bname, bind, todo>>

AddUser(a) ==
    /\ At(a, "add_user", "start")
    /\ ~UsersReadHeld
    /\ users' = users \cup {job[a].user}
    /\ Return(a)
    /\ UNCHANGED <<shares, acl, bname>>

-----------------------------------------------------------------------------
(* remove_user: the table entry, then every ACL of a snapshot of the share *)
(* table, then the sessions.                                               *)

RemoveUser(a) ==
    /\ At(a, "remove_user", "start")
    /\ ~UsersReadHeld
    /\ job[a].user \in users
    /\ users' = users \ {job[a].user}
    /\ Goto(a, "snapshot")
    /\ UNCHANGED <<shares, acl, bname, bind, todo>>

RemoveUserUnknown(a) ==
    /\ At(a, "remove_user", "start")
    /\ ~UsersReadHeld
    /\ job[a].user \notin users
    /\ Return(a)
    /\ UNCHANGED <<users, shares, acl, bname>>

RemoveUserSnapshot(a) ==
    /\ At(a, "remove_user", "snapshot")
    /\ todo' = [todo EXCEPT ![a] = {b \in Bindings : Listed(b)}]
    /\ Goto(a, "clean")
    /\ UNCHANGED <<users, shares, acl, bname, bind>>

RemoveUserAcl(a, b) ==
    /\ At(a, "remove_user", "clean")
    /\ b \in todo[a]
    /\ acl' = [acl EXCEPT ![b].users[job[a].user] = None]
    /\ todo' = [todo EXCEPT ![a] = @ \ {b}]
    /\ UNCHANGED <<users, shares, bname, pc, job, bind>>

(* Mutant: the loop over the ACLs ends before it has come to all of them.  *)
RemoveUserCleaned_Early(a) ==
    /\ At(a, "remove_user", "clean")
    /\ Goto(a, "sweep")
    /\ UNCHANGED <<users, shares, acl, bname, bind, todo>>

RemoveUserCleaned(a) ==
    /\ At(a, "remove_user", "clean")
    /\ todo[a] = {}
    /\ Goto(a, "sweep")
    /\ UNCHANGED <<users, shares, acl, bname, bind, todo>>

-----------------------------------------------------------------------------
(* add_share: two early returns, then the check of the users and the       *)
(* insertion under one read guard on the user table.                       *)

AddShareRejected(a) ==
    LET j == job[a] IN
    /\ At(a, "add_share", "start")
    /\ \/ j.mode \in PublicModes /\ Granted(j.grants) # {}
       \/ ~(Granted(j.grants) \subseteq users)
    /\ Return(a)
    /\ UNCHANGED <<users, shares, acl, bname>>

AddShareCheck(a) ==
    LET j == job[a] IN
    /\ At(a, "add_share", "start")
    /\ ~(j.mode \in PublicModes /\ Granted(j.grants) # {})
    /\ Granted(j.grants) \subseteq users
    /\ Goto(a, "insert")
    /\ UNCHANGED <<users, shares, acl, bname, bind, todo>>

AddShareInsert(a, b) ==
    LET j == job[a] IN
    /\ At(a, "add_share", "insert")
    /\ shares[j.share] = None
    /\ Unreferenced(b)
    /\ shares' = [shares EXCEPT ![j.share] = b]
    /\ bname' = [bname EXCEPT ![b] = j.share]
    /\ acl' = [acl EXCEPT ![b] = [mode |-> j.mode, users |-> j.grants]]
    /\ Return(a)
    /\ UNCHANGED users

AddShareDuplicate(a) ==
    /\ At(a, "add_share", "insert")
    /\ shares[job[a].share] # None
    /\ Return(a)
    /\ UNCHANGED <<users, shares, acl, bname>>

RemoveShare(a) ==
    /\ At(a, "remove_share", "start")
    /\ shares[job[a].share] # None
    /\ shares' = [shares EXCEPT ![job[a].share] = None]
    /\ Goto(a, "sweep")
    /\ UNCHANGED <<users, acl, bname, bind, todo>>

RemoveShareUnknown(a) ==
    /\ At(a, "remove_share", "start")
    /\ shares[job[a].share] = None
    /\ Return(a)
    /\ UNCHANGED <<users, shares, acl, bname>>

-----------------------------------------------------------------------------
(* grant_share_user, revoke_share_user and set_share_mode all find the     *)
(* binding first and lock its ACL afterwards; only grant_share_user does   *)
(* so under the read guard on the user table.                              *)

GrantCheck(a) ==
    /\ At(a, "grant_share_user", "start")
    /\ job[a].user \in users
    /\ Goto(a, "find")
    /\ UNCHANGED <<users, shares, acl, bname, bind, todo>>

GrantUnknown(a) ==
    /\ At(a, "grant_share_user", "start")
    /\ job[a].user \notin users
    /\ Return(a)
    /\ UNCHANGED <<users, shares, acl, bname>>

AtFind(a) ==
    \/ At(a, "grant_share_user", "find")
    \/ At(a, "revoke_share_user", "start")
    \/ At(a, "set_share_mode", "start")

FindShare(a) ==
    /\ AtFind(a)
    /\ shares[job[a].share] # None
    /\ bind' = [bind EXCEPT ![a] = shares[job[a].share]]
    /\ Goto(a, "acl")
    /\ UNCHANGED <<users, shares, acl, bname, todo>>

(* Mutant: wait for the share to appear instead of returning an error.     *)
FindShareUnknown_Waits(a) ==
    /\ AtFind(a)
    /\ shares[job[a].share] = None
    /\ UNCHANGED configVars

FindShareUnknown(a) ==
    /\ AtFind(a)
    /\ shares[job[a].share] = None
    /\ Return(a)
    /\ UNCHANGED <<users, shares, acl, bname>>

GrantInsert(a) ==
    LET j == job[a] IN
    /\ At(a, "grant_share_user", "acl")
    /\ acl[bind[a]].mode \notin PublicModes
    /\ acl' = [acl EXCEPT ![bind[a]].users[j.user] = j.access]
    /\ Return(a)
    /\ UNCHANGED <<users, shares, bname>>

GrantPublic(a) ==
    /\ At(a, "grant_share_user", "acl")
    /\ acl[bind[a]].mode \in PublicModes
    /\ Return(a)
    /\ UNCHANGED <<users, shares, acl, bname>>

RevokeRemove(a) ==
    /\ At(a, "revoke_share_user", "acl")
    /\ acl' = [acl EXCEPT ![bind[a]].users[job[a].user] = None]
    /\ Goto(a, "sweep")
    /\ UNCHANGED <<users, shares, bname, bind, todo>>

(* Mutant: set_share_mode does not look at the users.                      *)
ModeRejected_Never(a) == job[a].mode \notin Modes

ModeRejected(a) ==
    /\ job[a].mode \in PublicModes
    /\ Granted(acl[bind[a]].users) # {}

SetMode(a) ==
    /\ At(a, "set_share_mode", "acl")
    /\ ~ModeRejected(a)
    /\ acl[bind[a]].mode # job[a].mode
    /\ acl' = [acl EXCEPT ![bind[a]].mode = job[a].mode]
    /\ Goto(a, "sweep")
    /\ UNCHANGED <<users, shares, bname, bind, todo>>

SetModeNoChange(a) ==
    /\ At(a, "set_share_mode", "acl")
    /\ ModeRejected(a) \/ acl[bind[a]].mode = job[a].mode
    /\ Return(a)
    /\ UNCHANGED <<users, shares, acl, bname>>

-----------------------------------------------------------------------------
(* The end of the revoking calls: list the live connections, close what    *)
(* matches on each, return.                                                *)

ListLive(a) ==
    /\ pc[a] = "sweep"
    /\ Goto(a, "sweeping")
    /\ UNCHANGED <<users, shares, acl, bname, bind, todo>>

SweepDone(a) ==
    /\ pc[a] = "sweeping"
    /\ Return(a)
    /\ UNCHANGED <<users, shares, acl, bname>>

-----------------------------------------------------------------------------

(* SmbServerBuilder.build checks what add_share checks, so the server      *)
(* starts with any tables that pass those checks, and no call in progress. *)
ConfigInit ==
    /\ users \in SUBSET Users
    /\ shares \in [Names -> Bindings \cup {None}]
    /\ \A m, n \in Names : shares[m] = shares[n] /\ m # n => shares[m] = None
    /\ acl \in [Bindings -> ShareAcl]
    /\ bname \in [Bindings -> Names]
    /\ \A n \in Names : shares[n] # None =>
        LET x == acl[shares[n]] IN
        /\ bname[shares[n]] = n
        /\ Granted(x.users) \subseteq users
        /\ x.mode \in PublicModes => Granted(x.users) = {}
    /\ pc = [a \in Admins |-> "idle"]
    /\ job = [a \in Admins |-> NoJob]
    /\ bind = [a \in Admins |-> None]
    /\ todo = [a \in Admins |-> {}]

UserSteps(a) ==
    \/ AddUser(a)
    \/ RemoveUser(a) \/ RemoveUserUnknown(a) \/ RemoveUserSnapshot(a)
    \/ \E b \in Bindings : RemoveUserAcl(a, b)
    \/ RemoveUserCleaned(a)

ShareSteps(a) ==
    \/ AddShareRejected(a) \/ AddShareCheck(a) \/ AddShareDuplicate(a)
    \/ \E b \in Bindings : AddShareInsert(a, b)
    \/ RemoveShare(a) \/ RemoveShareUnknown(a)

AclSteps(a) ==
    \/ GrantCheck(a) \/ GrantUnknown(a)
    \/ FindShare(a) \/ FindShareUnknown(a)
    \/ GrantInsert(a) \/ GrantPublic(a)
    \/ RevokeRemove(a) \/ SetMode(a) \/ SetModeNoChange(a)

AdminStep(a) ==
    UserSteps(a) \/ ShareSteps(a) \/ AclSteps(a) \/ ListLive(a) \/ SweepDone(a)

ConfigNext == \E a \in Admins : Call(a) \/ AdminStep(a)

ConfigSpec == ConfigInit /\ [][ConfigNext]_configVars

(* A call, once made, runs.  Tokio's RwLock queues its waiters first come  *)
(* first served, so a writer of the user table is not overtaken for ever   *)
(* by new readers: strong fairness.                                        *)
ConfigFairness == \A a \in Admins : SF_configVars(AdminStep(a))

FairConfigSpec == ConfigSpec /\ ConfigFairness

-----------------------------------------------------------------------------

(* remove_user for u has not yet cleaned the ACL of b.                     *)
Cleaning(u, b) ==
    \E a \in Admins :
        /\ job[a].op = "remove_user"
        /\ job[a].user = u
        /\ pc[a] = "snapshot" \/ b \in todo[a]

(* Every user in the ACL of a listed share is in the user table, unless a  *)
(* remove_user that took it out of the table is still on its way to that   *)
(* ACL (server.rs: add_share and grant_share_user check the table,         *)
(* remove_user cleans the ACLs).                                           *)
AclUsersKnown ==
    \A n \in Names : shares[n] # None =>
        \A u \in Granted(acl[shares[n]].users) :
            u \in users \/ Cleaning(u, shares[n])

(* A public share has no explicit users, whichever of add_share,           *)
(* grant_share_user and set_share_mode came last (PublicMixedWithUsers).   *)
PublicHasNoUsers ==
    \A n \in Names : shares[n] # None =>
        (acl[shares[n]].mode \in PublicModes
            => Granted(acl[shares[n]].users) = {})

-----------------------------------------------------------------------------
(* What the calls promise (AccessTable.tla), in terms of the tables and    *)
(* the calls above: the share table and the ACLs behind it are one table,  *)
(* a call has taken effect when it has changed it, a task is lost on a     *)
(* binding that is no longer listed, and remove_user owes the ACLs it has  *)
(* still to clean.                                                         *)

ShareTable == [n \in Names |-> IF shares[n] = None THEN None ELSE acl[shares[n]]]

Stage(where) ==
    IF where = "idle" THEN "idle"
    ELSE IF where \in {"start", "find", "insert", "acl"} THEN "called"
    ELSE IF where \in {"snapshot", "clean"} THEN "removing"
    ELSE "closing"
Stages == [a \in Admins |-> Stage(pc[a])]

Lost(a) == pc[a] = "acl" /\ shares[job[a].share] # bind[a]
LostCalls == [a \in Admins |-> Lost(a)]

(* The shares remove_user has not come to whose ACL names the user.        *)
Uncleaned(a) ==
    {n \in Names :
        /\ pc[a] \in {"snapshot", "clean"}
        /\ shares[n] # None
        /\ acl[shares[n]].users[job[a].user] # None
        /\ pc[a] = "snapshot" \/ shares[n] \in todo[a]}
OwedShares == [a \in Admins |-> Uncleaned(a)]

Table == INSTANCE AccessTable WITH
            NoCall <- NoJob, known <- users, table <- ShareTable, call <- job,
            stage <- Stages, lost <- LostCalls, owed <- OwedShares

(* Every call of ConfigHandle that changes a table does so in one step on  *)
(* the tables as they are then, and is refused by what they are then,      *)
(* whatever the other tasks do between its lock acquisitions; the calls    *)
(* that find a share first and lock its ACL afterwards never write into    *)
(* another share, and remove_user takes every right its user had.          *)
ImplementsTable == Table!TableSpec

(* Every call of ConfigHandle returns.                                     *)
CallsReturn == \A a \in Admins : pc[a] # "idle" ~> pc[a] = "idle"

=============================================================================
