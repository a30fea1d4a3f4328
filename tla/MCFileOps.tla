------------------------------ MODULE MCFileOps ------------------------------
(* Clients of one share: reader may read, writer may write.                *)
EXTENDS FileOps, TLC

CONSTANTS reader, writer, a, b

(* Names are alike.                                                        *)
Symmetry == Permutations(Names)

MCGranted == [c \in Clients |-> IF c = reader THEN "Read" ELSE "ReadWrite"]

(* Requests to open or create files and directories, without streams.  For *)
(* an intent other than Open the desired access makes no difference, and   *)
(* delete_on_close can be set by SET_INFO as well.                         *)
NoStreams ==
    {o \in OpenOptions : /\ ~o.stream /\ ~o.delete_on_close /\ ~o.non_directory
                         /\ o.write => o.intent = "Open"}

(* Every request.                                                          *)
AllRequests == OpenOptions
=============================================================================
