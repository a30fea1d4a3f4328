---------------------------- MODULE DirectoryScan ----------------------------
(***************************************************************************)
(* What QUERY_DIRECTORY promises a client that lists a directory: a scan   *)
(* is a list made once, every answer hands out the next entries of it, at  *)
(* least one, and "no more files" is the answer at its end and nowhere     *)
(* else.  Buffers, encodings and the changing directory are not seen here. *)
(***************************************************************************)
EXTENDS Naturals, Sequences

CONSTANTS
    Names,
    NoScan      \* the list before the first request

VARIABLES
    list,       \* the entries of the current scan
    pos,        \* how many of them have been handed out
    reply       \* the answer to the last request, or "pending"

scanVars == <<list, pos, reply>>

Reply(s, ns) == [status |-> s, names |-> ns]

Lists ==
    {l \in Seq(Names) : \A i, j \in DOMAIN l : l[i] = l[j] => i = j}

Init ==
    /\ list = NoScan
    /\ pos = 0
    /\ reply = Reply("none", <<>>)

Waiting == reply.status = "pending"

(* A request starts a new scan or goes on with the one there is.           *)
Ask ==
    /\ ~Waiting
    /\ reply' = Reply("pending", <<>>)
    /\ \/ list' \in Lists /\ pos' = 0
       \/ list # NoScan /\ UNCHANGED <<list, pos>>

(* A new scan cannot be made; the old one stays.                           *)
Refuse ==
    /\ ~Waiting
    /\ reply' = Reply("error", <<>>)
    /\ UNCHANGED <<list, pos>>

HandOut ==
    /\ Waiting
    /\ \E p \in pos + 1 .. Len(list) :
        /\ pos' = p
        /\ reply' = Reply("ok", [i \in 1 .. p - pos |-> list[pos + i]])
    /\ UNCHANGED list

NoMore ==
    /\ Waiting
    /\ pos = Len(list)
    /\ reply' = Reply("no_more", <<>>)
    /\ UNCHANGED <<list, pos>>

Next == Ask \/ Refuse \/ HandOut \/ NoMore

Safety == Init /\ [][Next]_scanVars

(* Every request is answered.                                              *)
Spec == Safety /\ WF_scanVars(HandOut \/ NoMore)
=============================================================================
