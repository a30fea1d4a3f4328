----------------------------- MODULE AccessTable -----------------------------
(***************************************************************************)
(* What the control plane promises: one table of who may use which share,  *)
(* and calls that change it.  There are no locks here, no objects behind   *)
(* the entries and no steps inside a call: a call is made, takes effect    *)
(* once, on the table as it is at that moment, and returns.  Whether it is *)
(* refused is decided at that moment too.                                  *)
(*                                                                         *)
(* Two things are weaker than one would like, and are all the promise      *)
(* gives up:                                                               *)
(*   - a call on the ACL of a share that somebody removes meanwhile may be *)
(*     lost on it: it then changes nothing, even if the name is taken      *)
(*     again by a new share (lost);                                        *)
(*   - remove_user forgets the user at once and takes its rights from one  *)
(*     share at a time (owed); a right that others give meanwhile to a     *)
(*     user of the same name may be taken as well.                         *)
(* Every step of any call keeps to that for all the calls in progress      *)
(* (Losses and Debts).                                                     *)
(***************************************************************************)

CONSTANTS
    Users,     \* user names
    Names,     \* share names
    Admins,    \* the callers
    Calls,     \* the calls they make
    NoCall,    \* no call
    None       \* no user, no share, no right

VARIABLES
    known,    \* the users
    table,    \* the mode of every share and the rights of every user on it
    call,     \* the call each caller makes
    stage,    \* how far it is
    lost,     \* it was lost on a share that has been removed
    owed      \* the shares remove_user has still to take from its user

tableVars == <<known, table, call, stage, lost, owed>>

Open == {"Public", "PublicReadOnly"}
Shares == [mode : Open \cup {"AuthenticatedOnly"},
           users : [Users -> {"Read", "ReadWrite", None}]]
Named(rights) == {u \in Users : rights[u] # None}

Holding(u) == {n \in Names : table[n] # None /\ table[n].users[u] # None}

(* A share that is open to everybody names nobody.                         *)
Sound(share) == share.mode \in Open => Named(share.users) = {}

TableInit ==
    /\ known \in SUBSET Users
    /\ table \in [Names -> Shares \cup {None}]
    /\ \A n \in Names : table[n] # None =>
        Sound(table[n]) /\ Named(table[n].users) \subseteq known
    /\ call = [a \in Admins |-> NoCall]
    /\ stage = [a \in Admins |-> "idle"]
    /\ lost = [a \in Admins |-> FALSE]
    /\ owed = [a \in Admins |-> {}]

-----------------------------------------------------------------------------

Added(c) == [mode |-> c.mode, users |-> c.grants]

(* The calls that have something to do, and may.                           *)
Permitted(c) ==
    \/ c.op = "add_user"
    \/ c.op = "remove_user" /\ c.user \in known
    \/ /\ c.op = "add_share"
       /\ table[c.share] = None
       /\ Sound(Added(c)) /\ Named(c.grants) \subseteq known
    \/ c.op \in {"remove_share", "revoke_share_user"} /\ table[c.share] # None
    \/ /\ c.op = "grant_share_user"
       /\ c.user \in known
       /\ table[c.share] # None /\ table[c.share].mode \notin Open
    \/ /\ c.op = "set_share_mode"
       /\ table[c.share] # None /\ table[c.share].mode # c.mode
       /\ Sound([table[c.share] EXCEPT !.mode = c.mode])

Effect(c) ==
    \/ c.op = "add_user" /\ known' = known \cup {c.user} /\ UNCHANGED table
    \/ c.op = "remove_user" /\ known' = known \ {c.user} /\ UNCHANGED table
    \/ /\ UNCHANGED known
       /\ \/ /\ c.op = "add_share"
             /\ table' = [table EXCEPT ![c.share] = Added(c)]
          \/ /\ c.op = "remove_share"
             /\ table' = [table EXCEPT ![c.share] = None]
          \/ /\ c.op = "grant_share_user"
             /\ table' = [table EXCEPT ![c.share].users[c.user] = c.access]
          \/ /\ c.op = "revoke_share_user"
             /\ table' = [table EXCEPT ![c.share].users[c.user] = None]
          \/ /\ c.op = "set_share_mode"
             /\ table' = [table EXCEPT ![c.share].mode = c.mode]

Giving == {"add_user", "add_share", "grant_share_user"}

(* What is left of a call that has taken effect: nothing, the rights of    *)
(* the removed user, or the connections that lose theirs.                  *)
Then(op) == IF op \in Giving THEN "idle"
            ELSE IF op = "remove_user" THEN "removing" ELSE "closing"

To(a, where) ==
    /\ stage' = [stage EXCEPT ![a] = where]
    /\ call' = [call EXCEPT ![a] = IF where = "idle" THEN NoCall ELSE @]

Begin(a) ==
    /\ stage[a] = "idle"
    /\ \E c \in Calls : call' = [call EXCEPT ![a] = c]
    /\ stage' = [stage EXCEPT ![a] = "called"]
    /\ UNCHANGED <<known, table>>

TakeEffect(a) ==
    /\ stage[a] = "called" /\ ~lost[a]
    /\ Permitted(call[a])
    /\ Effect(call[a])
    /\ To(a, Then(call[a].op))

Refuse(a) ==
    /\ stage[a] = "called" /\ ~lost[a]
    /\ ~Permitted(call[a])
    /\ To(a, "idle")
    /\ UNCHANGED <<known, table>>

Miss(a) ==
    /\ stage[a] = "called" /\ lost[a]
    /\ To(a, "idle") \/ (call[a].op \notin Giving /\ To(a, "closing"))
    /\ UNCHANGED <<known, table>>

TakeRight(a, n) ==
    /\ stage[a] = "removing"
    /\ n \in owed[a]
    /\ table' = [table EXCEPT ![n].users[call[a].user] = None]
    /\ UNCHANGED <<known, call, stage>>

RightsTaken(a) ==
    /\ stage[a] = "removing"
    /\ owed[a] = {}
    /\ To(a, "closing")
    /\ UNCHANGED <<known, table>>

Finish(a) ==
    /\ stage[a] = "closing"
    /\ To(a, "idle")
    /\ UNCHANGED <<known, table>>

-----------------------------------------------------------------------------

(* A call is lost only on a share that is removed while it runs.           *)
Losses ==
    \A a \in Admins :
        /\ lost'[a] => stage'[a] = "called"
        /\ lost[a] /\ stage'[a] = "called" => lost'[a]
        /\ lost'[a] /\ ~lost[a] =>
            table[call[a].share] # None /\ table'[call[a].share] = None

(* remove_user owes every right its user had when it was forgotten, until  *)
(* the right is gone; it may add the rights that are given afterwards.     *)
Debts ==
    \A a \in Admins :
        IF stage'[a] # "removing" THEN owed'[a] = {}
        ELSE LET held == IF stage[a] = "removing" THEN owed[a]
                         ELSE Holding(call[a].user)
                 new == Holding(call[a].user)' \ Holding(call[a].user)
             IN  /\ held \cap Holding(call[a].user)' \subseteq owed'[a]
                 /\ owed'[a] \subseteq (held \cap Holding(call[a].user)') \cup new

TableStep(a) ==
    /\ \/ Begin(a) \/ TakeEffect(a) \/ Refuse(a) \/ Miss(a)
       \/ \E n \in Names : TakeRight(a, n)
       \/ RightsTaken(a) \/ Finish(a)
    /\ Losses
    /\ Debts

TableNext == \E a \in Admins : TableStep(a)

TableSpec == TableInit /\ [][TableNext]_tableVars
=============================================================================
