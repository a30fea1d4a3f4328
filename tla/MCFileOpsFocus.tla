---------------------------- MODULE MCFileOpsFocus ----------------------------
(* TLC instances of FileOps whose clients and requests are chosen at the   *)
(* start.                                                                  *)
EXTENDS MCFileOps

(* Two instances in one: "shared", both clients without streams, and       *)
(* "streams", every request of the writer alone.                           *)
VARIABLE focus

ActiveClients == IF focus = "shared" THEN Clients ELSE {writer}
ActiveRequests == IF focus = "shared" THEN NoStreams ELSE AllRequests
NoStreamTargets == {<<o.path, o.stream>> : o \in NoStreams}
ActiveTargets == IF focus = "shared" THEN NoStreamTargets ELSE Targets

(* Inodes are alike: a share starts with the first ones.                   *)
FirstInodes ==
    LET used == {entries[n] : n \in Names} \ {0} IN
    /\ 12 \in used => 11 \in used
    /\ 13 \notin used /\ 14 \notin used

FocusInit == Init /\ FirstInodes /\ focus \in {"shared", "streams"}

FocusNext ==
    /\ UNCHANGED <<read_only, focus>>
    /\ \E c \in ActiveClients :
        \/ \E o \in ActiveRequests : CreateStart(c, o)
        \/ CreateFailed(c) \/ CreateRegister(c) \/ CreateLost(c)
        \/ Write(c) \/ Truncate(c) \/ SetTimes(c)
        \/ \E d \in BOOLEAN : Disposition(c, d)
        \/ \E p \in ActiveTargets, r \in BOOLEAN : RenameStart(c, p[1], p[2], r)
        \/ RenameDone(c)
        \/ CloseStart(c) \/ CloseDone(c) \/ CloseTree(c)
        \/ BackendStep(c) /\ UNCHANGED <<open, pc>>

FocusSpec == FocusInit /\ [][FocusNext]_<<vars, focus>>
=============================================================================
