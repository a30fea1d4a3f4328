---------------------------- MODULE CompoundProofs ----------------------------
(***************************************************************************)
(* Proofs about Compound for any trees, file ids and lengths of frames.    *)
(*                                                                         *)
(* PlaceholderOwn speaks of one request after it has run.  What makes it   *)
(* true is what the loop carries from round to round: while a frame stays  *)
(* with one tree, prev_fid is the file id of the file its last CREATE has  *)
(* made, in the session and tree of prev_sid and prev_tid (CarriesMade).   *)
(***************************************************************************)
EXTENDS Compound, TLAPS

(* The locals of dispatch_frame, with their history.                       *)
FrameTypes ==
    [n : 0 .. MaxReqs, prev_sid : Id(Sids \cup {None}),
     prev_tid : Id(Tids \cup {None}), prev_fid : Fids \cup {None},
     made : Files \cup {<<>>}, one_tree : BOOLEAN,
     touched : Files \cup {<<>>}, wanted : Files \cup {<<>>}]

(* What a placeholder for a file id would be replaced by.                  *)
CarriesMade ==
    /\ fr.n = 0 => fr.prev_fid = None
    /\ fr.one_tree /\ fr.prev_fid # None =>
          fr.made = <<fr.prev_sid[2], fr.prev_tid[2], fr.prev_fid>>

(* The inductive invariant.                                                *)
FrameInv ==
    /\ fr \in FrameTypes
    /\ CarriesMade
    /\ PlaceholderOwn

-----------------------------------------------------------------------------
(* Requests and ids.                                                       *)

(* An id on the wire is a placeholder or one of S.                         *)
LEMMA IdCases ==
    ASSUME NEW S, NEW y \in Id(S)
    PROVE  \/ IsAny(y) /\ y = <<Any, 0>>
           \/ ~IsAny(y) /\ y[2] \in S /\ y = <<"id", y[2]>>
BY DEF Id, IsAny, Any

(* A request after inherit_related_context.                                *)
Inherited ==
    [cmd : Cmds, related : BOOLEAN, sid : Id(Sids \cup {None}),
     tid : Id(Tids \cup {None}), fid : Id(Fids), signed : BOOLEAN,
     succeeds : BOOLEAN]

(* What a related request inherits.                                        *)
LEMMA InheritEffect ==
    ASSUME fr \in FrameTypes, NEW r \in Requests
    PROVE  /\ Inherit(r) \in Inherited
           /\ Inherit(r).cmd = r.cmd
           /\ TakesFileId(r) /\ IsAny(r.fid) =>
                \/ IsAny(Inherit(r).fid)
                \/ fr.prev_fid # None /\ Inherit(r).fid = <<"id", fr.prev_fid>>
<1>1. /\ r \in [cmd : Cmds, related : BOOLEAN, sid : Id(Sids), tid : Id(Tids),
                fid : Id(Fids), signed : BOOLEAN, succeeds : BOOLEAN]
  BY DEF Requests
<1>2. /\ Id(Sids) \subseteq Id(Sids \cup {None})
      /\ Id(Tids) \subseteq Id(Tids \cup {None})
  BY DEF Id
<1>3. r \in Inherited
  BY <1>1, <1>2 DEF Inherited
<1>4. CASE ~r.related
  BY <1>3, <1>4 DEF Inherit
<1>5. CASE r.related
  <2> DEFINE s == IF IsAny(r.sid) THEN fr.prev_sid ELSE r.sid
             t == IF IsAny(r.tid) THEN fr.prev_tid ELSE r.tid
             f == IF IsAny(r.fid) /\ TakesFileId(r) /\ fr.prev_fid # None
                    THEN <<"id", fr.prev_fid>> ELSE r.fid
  <2>1. Inherit(r) = [r EXCEPT !.sid = s, !.tid = t, !.fid = f]
    BY <1>5, <1>3 DEF Inherit, Inherited
  <2>2. s \in Id(Sids \cup {None}) /\ t \in Id(Tids \cup {None})
    BY <1>3 DEF FrameTypes, Inherited
  <2>3. f \in Id(Fids)
    BY <1>3 DEF FrameTypes, Inherited, Id
  <2>4. TakesFileId(r) /\ IsAny(r.fid) =>
          f = r.fid \/ (fr.prev_fid # None /\ f = <<"id", fr.prev_fid>>)
    OBVIOUS
  <2> HIDE DEF s, t, f
  <2>5. Inherit(r) \in Inherited /\ Inherit(r).cmd = r.cmd /\ Inherit(r).fid = f
    BY <1>3, <2>1, <2>2, <2>3 DEF Inherited
  <2> QED BY <2>4, <2>5
<1> QED BY <1>4, <1>5

(* A request that reaches a tree, or an open, names it.                    *)
LEMMA ReachedFile ==
    ASSUME TypeOK, NEW q \in Inherited
    PROVE  /\ HasTree(q) => /\ TreeOf(q) \in Trees
                            /\ q.sid[2] \in Sids /\ q.tid[2] \in Tids
           /\ HasOpen(q) => OpenOf(q) \in Files
BY DEF TypeOK, HasTree, HasOpen, TreeOf, Sids, Tids

(* The id a CREATE gets is a file id, and the next one is in its bound.    *)
LEMMA CreatedFile ==
    ASSUME TypeOK, NEW q \in Inherited, Creates(q)
    PROVE  /\ TreeOf(q) \in Trees /\ next_fid[TreeOf(q)] \in Nat \ {0}
           /\ next_fid[TreeOf(q)] \in Fids
           /\ <<q.sid[2], q.tid[2], next_fid[TreeOf(q)]>> \in Files
           /\ next_fid[TreeOf(q)] + 1 \in 1 .. MaxFid[TreeOf(q)] + 1
<1> DEFINE x == TreeOf(q)
<1>1. x \in Trees /\ q.sid[2] \in Sids /\ q.tid[2] \in Tids /\ next_fid[x] <= MaxFid[x]
  BY ReachedFile DEF Creates
<1>2. MaxFid[x] \in Nat /\ next_fid[x] \in 1 .. MaxFid[x] + 1
  BY <1>1, TreesAssumption DEF TypeOK
<1> HIDE DEF x
<1>3. next_fid[x] \in Nat \ {0} /\ next_fid[x] \in 1 .. MaxFid[x]
      /\ next_fid[x] + 1 \in 1 .. MaxFid[x] + 1
  BY <1>1, <1>2
<1>4. next_fid[x] \in Fids
  BY <1>1, <1>3 DEF Fids
<1> QED BY <1>1, <1>3, <1>4 DEF x, Files

-----------------------------------------------------------------------------
(* The steps.                                                              *)

(* What one round of the loop carries to the next.                         *)
LEMMA StepAdvance ==
    ASSUME TypeOK, FrameInv, NEW r \in Requests, Request(r)
    PROVE  /\ fr' \in FrameTypes
           /\ CarriesMade'
           /\ fr'.one_tree /\ fr'.touched # <<>> => fr'.touched = fr'.wanted
<1> DEFINE q == Inherit(r)
           ok == Verified(r, q) /\ Succeeds(q)
<1>1. fr \in FrameTypes /\ q \in Inherited /\ q.cmd = r.cmd
  BY InheritEffect DEF FrameInv
<1>2. Advance(r, q, ok) /\ fr.n < MaxReqs
  BY DEF Request
<1>3. ok /\ q.cmd = "CREATE" => Creates(q)
  BY DEF Succeeds, FileCmds
<1>4. ok /\ TakesFileId(q) => HasOpen(q)
  BY DEF Succeeds, TakesFileId, FileCmds
<1>5. TakesFileId(q) /\ IsAny(r.fid) =>
         IsAny(q.fid) \/ (fr.prev_fid # None /\ q.fid = <<"id", fr.prev_fid>>)
  BY <1>1, InheritEffect DEF FrameInv, TakesFileId
<1>b. ok \in BOOLEAN
  OBVIOUS
<1> DEFINE fid == CaptureFileId(q, ok)
           new == <<q.sid[2], q.tid[2], next_fid[TreeOf(q)]>>
           made == IF q.cmd # "CREATE" THEN fr.made ELSE IF ok THEN new ELSE <<>>
           one == fr.one_tree /\ (fr.n = 0
                                  \/ (q.sid = fr.prev_sid /\ q.tid = fr.prev_tid))
           touched == IF ok /\ TakesFileId(q) /\ IsAny(r.fid) THEN OpenOf(q) ELSE <<>>
<1>6. fr' = [fr EXCEPT !.n = fr.n + 1, !.prev_sid = q.sid, !.prev_tid = q.tid,
                       !.prev_fid = fid, !.made = made, !.one_tree = one,
                       !.touched = touched, !.wanted = fr.made]
  BY <1>1, <1>2 DEF Advance, FrameTypes
<1> HIDE DEF q, ok
<1>7. /\ fid \in Fids \cup {None}
      /\ made \in Files \cup {<<>>} /\ touched \in Files \cup {<<>>}
  BY <1>1, <1>3, <1>4, CreatedFile, ReachedFile DEF FrameTypes, CaptureFileId
<1>8. /\ fr.n + 1 \in 0 .. MaxReqs /\ fr.n \in Nat
      /\ q.sid \in Id(Sids \cup {None}) /\ q.tid \in Id(Tids \cup {None})
      /\ fr.made \in Files \cup {<<>>} /\ one \in BOOLEAN
  BY <1>1, <1>2, TreesAssumption DEF FrameTypes, Inherited
<1>9. one /\ fid # None => made = <<q.sid[2], q.tid[2], fid>>
  <2>1. CASE q.cmd = "CREATE"
    BY <2>1 DEF CaptureFileId
  <2>2. CASE q.cmd # "CREATE"
    BY <2>2 DEF CaptureFileId, FrameInv, CarriesMade
  <2> QED BY <2>1, <2>2
<1>10. one /\ touched # <<>> => touched = fr.made
  <2> SUFFICES ASSUME one, ok, TakesFileId(q), IsAny(r.fid)
               PROVE  OpenOf(q) = fr.made
    OBVIOUS
  <2>1. fr.prev_fid # None /\ q.fid = <<"id", fr.prev_fid>>
    BY <1>4, <1>5 DEF HasOpen
  <2>2. q.sid = fr.prev_sid /\ q.tid = fr.prev_tid
        /\ fr.made = <<fr.prev_sid[2], fr.prev_tid[2], fr.prev_fid>>
    BY <2>1 DEF FrameInv, CarriesMade
  <2> QED BY <2>1, <2>2 DEF OpenOf
<1> HIDE DEF fid, made, one, touched
<1>11. /\ fr' \in FrameTypes
       /\ fr'.n = fr.n + 1 /\ fr'.prev_sid = q.sid /\ fr'.prev_tid = q.tid
       /\ fr'.prev_fid = fid /\ fr'.made = made /\ fr'.one_tree = one
       /\ fr'.touched = touched /\ fr'.wanted = fr.made
  BY <1>1, <1>6, <1>7, <1>8 DEF FrameTypes
<1> QED BY <1>8, <1>9, <1>10, <1>11 DEF CarriesMade

(* What is dropped from the tables leaves them with their types.           *)
LEMMA DropType ==
    ASSUME TypeOK, NEW S, NEW T, NEW O, Drop(S, T, O)
    PROVE  /\ live' \in SUBSET Sids /\ live' \subseteq live
           /\ trees' \in SUBSET Trees /\ opens' \in SUBSET Files
BY DEF TypeOK, Drop

(* The handler of a request keeps the types of the tables.                 *)
LEMMA StepTables ==
    ASSUME TypeOK, fr \in FrameTypes, NEW r \in Requests, Request(r)
    PROVE  /\ live' \in SUBSET Sids /\ trees' \in SUBSET Trees
           /\ opens' \in SUBSET Files /\ next_fid' \in [Trees -> Nat]
           /\ \A x \in Trees : next_fid'[x] \in 1 .. MaxFid[x] + 1
<1> DEFINE q == Inherit(r)
<1>1. q \in Inherited
  BY InheritEffect
<1> HIDE DEF q
<1>2. CASE UNCHANGED Tables
  BY <1>2 DEF Tables, TypeOK
<1>3. CASE Creates(q) /\ Create(q)
  <2>1. /\ TreeOf(q) \in Trees /\ next_fid[TreeOf(q)] \in Nat \ {0}
        /\ <<q.sid[2], q.tid[2], next_fid[TreeOf(q)]>> \in Files
        /\ next_fid[TreeOf(q)] + 1 \in 1 .. MaxFid[TreeOf(q)] + 1
    BY <1>1, <1>3, CreatedFile
  <2>2. next_fid' = [next_fid EXCEPT ![TreeOf(q)] = next_fid[TreeOf(q)] + 1]
        /\ next_fid \in [Trees -> Nat]
    BY <1>3 DEF Create, TypeOK
  <2>3. /\ next_fid' \in [Trees -> Nat]
        /\ \A x \in Trees : next_fid'[x] \in 1 .. MaxFid[x] + 1
    BY <2>1, <2>2 DEF TypeOK
  <2> QED BY <1>3, <2>1, <2>3 DEF Create, TypeOK
<1>4. CASE Execute(q)
  BY <1>4, DropType DEF Execute, TypeOK
<1> QED BY <1>2, <1>3, <1>4 DEF Request, q

(* A frame starts with nothing to inherit.                                 *)
LEMMA NewFrameType ==
    /\ NewFrame \in FrameTypes
    /\ NewFrame.n = 0 /\ NewFrame.prev_fid = None /\ NewFrame.touched = <<>>
BY TreesAssumption DEF NewFrame, FrameTypes, Id, None

(* The locals of a frame have the types TypeOK gives them.                 *)
LEMMA FrameTypeOK ==
    ASSUME fr \in FrameTypes
    PROVE  /\ fr.n \in 0 .. MaxReqs
           /\ fr.prev_sid \in Id(Sids \cup {None})
           /\ fr.prev_tid \in Id(Tids \cup {None})
           /\ fr.prev_fid \in Fids \cup {None}
BY DEF FrameTypes

(* The inductive invariant holds at the start.                             *)
LEMMA InitFrameInv == Init => FrameInv
<1> SUFFICES ASSUME Init PROVE FrameInv
  OBVIOUS
<1>1. fr \in FrameTypes /\ CarriesMade /\ fr.touched = <<>>
  BY NewFrameType DEF Init, CarriesMade
<1>2. \A x \in Trees : MaxFid[x] \in Nat
  BY TreesAssumption
<1>3. TypeOK
  BY <1>1, <1>2, FrameTypeOK DEF Init, TypeOK
<1> QED BY <1>1, <1>3 DEF Init, FrameInv, PlaceholderOwn

(* Every step keeps the inductive invariant.                               *)
LEMMA StepFrameInv == FrameInv /\ [Next]_vars => FrameInv'
<1> SUFFICES ASSUME FrameInv, [Next]_vars PROVE FrameInv'
  OBVIOUS
<1>t. TypeOK /\ fr \in FrameTypes
  BY DEF FrameInv, PlaceholderOwn
<1>1. ASSUME NEW r \in Requests, Request(r)
      PROVE  FrameInv'
  <2>1. /\ fr' \in FrameTypes /\ CarriesMade'
        /\ fr'.one_tree /\ fr'.touched # <<>> => fr'.touched = fr'.wanted
    BY <1>1, <1>t, StepAdvance
  <2>2. TypeOK'
    <3>1. /\ fr'.n \in 0 .. MaxReqs
          /\ fr'.prev_sid \in Id(Sids \cup {None})
          /\ fr'.prev_tid \in Id(Tids \cup {None})
          /\ fr'.prev_fid \in Fids \cup {None}
      BY <2>1 DEF FrameTypes
    <3> QED BY <1>1, <1>t, <3>1, StepTables DEF TypeOK
  <2> QED BY <2>1, <2>2 DEF FrameInv, PlaceholderOwn
<1>2. CASE EndFrame
  <2>1. fr' = NewFrame /\ UNCHANGED <<live, trees, opens, next_fid>>
    BY <1>2 DEF EndFrame, Tables
  <2>2. /\ fr' \in FrameTypes /\ CarriesMade' /\ fr'.touched = <<>>
    BY <2>1, NewFrameType DEF CarriesMade
  <2>3. TypeOK'
    <3>1. /\ fr'.n \in 0 .. MaxReqs
          /\ fr'.prev_sid \in Id(Sids \cup {None})
          /\ fr'.prev_tid \in Id(Tids \cup {None})
          /\ fr'.prev_fid \in Fids \cup {None}
      BY <2>2 DEF FrameTypes
    <3> QED BY <1>t, <2>1, <3>1 DEF TypeOK
  <2> QED BY <2>2, <2>3 DEF FrameInv, PlaceholderOwn
<1>3. ASSUME NEW s \in Sids, Sweep(s)
      PROVE  FrameInv'
  <2>1. /\ live' \in SUBSET Sids /\ live' \subseteq live
        /\ trees' \in SUBSET Trees /\ opens' \in SUBSET Files
    BY <1>3, <1>t, DropType DEF Sweep
  <2>2. UNCHANGED <<next_fid, fr>>
    BY <1>3 DEF Sweep
  <2>3. TypeOK'
    BY <1>t, <2>1, <2>2 DEF TypeOK
  <2> QED BY <2>1, <2>2, <2>3 DEF FrameInv, CarriesMade, PlaceholderOwn
<1>4. CASE UNCHANGED vars
  BY <1>4 DEF vars, FrameInv, CarriesMade, PlaceholderOwn, TypeOK
<1> QED BY <1>1, <1>2, <1>3, <1>4 DEF Next

(* The inductive invariant holds always.                                   *)
LEMMA FrameInvariant == Spec => []FrameInv
BY InitFrameInv, StepFrameInv, PTL DEF Spec

(* A placeholder for a file id reaches the file the last CREATE of its own *)
(* frame has made, or nothing, in frames that stay with one tree           *)
(* (inherit_related_context, capture_create_file_id).                      *)
THEOREM PlaceholdersReachOwn == Spec => []PlaceholderOwn
<1>1. FrameInv => PlaceholderOwn
  BY DEF FrameInv
<1> QED BY <1>1, FrameInvariant, PTL
=============================================================================
