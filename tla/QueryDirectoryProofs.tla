------------------------- MODULE QueryDirectoryProofs -------------------------
(***************************************************************************)
(* Proofs about QueryDirectory for any finite set of names of any lengths, *)
(* any patterns, classes and buffer sizes.                                 *)
(*                                                                         *)
(* The inductive invariant ties the buffer to the cursor: what is in the   *)
(* buffer are the entries just before the cursor (FromCursor), and what    *)
(* the client has seen are the entries before those (Handed).              *)
(***************************************************************************)
EXTENDS QueryDirectory, SequenceTheorems, FiniteSetTheorems, TLAPS

Slots == [name : Names, off : Nat, len : Nat, next : Nat]
Cursors == [entries : Seq(Names), next : Nat]

TypeInv ==
    /\ dir \in SUBSET Names
    /\ req \in Requests
    /\ pc \in {"idle", "encode"}
    /\ status \in {"none", "ok", "no_more", "error"}
    /\ buf \in Seq(Slots)
    /\ seen \in Seq(Names)
    /\ cursor \in Cursors \cup {NoCursor}
    /\ cursor # NoCursor => /\ cursor.next <= Len(cursor.entries)
                            /\ Len(cursor.entries) <= Cardinality(Names)

FromCursor ==
    /\ cursor = NoCursor => pc = "idle" /\ buf = <<>>
    /\ cursor # NoCursor =>
        /\ Len(buf) <= cursor.next
        /\ \A i \in 1 .. Len(buf) :
              buf[i].name = cursor.entries[cursor.next - Len(buf) + i]

Answered ==
    /\ pc = "encode" => status = "none"
    /\ pc = "idle" /\ status # "ok" => buf = <<>>
    /\ status = "ok" => buf # <<>>
    /\ status \in {"ok", "no_more"} => cursor # NoCursor
    /\ status = "no_more" => cursor.next = Len(cursor.entries)

Handed ==
    cursor # NoCursor => /\ Len(seen) = Position
                         /\ \A i \in 1 .. Position : seen[i] = cursor.entries[i]

Matching ==
    req.restart /\ status # "error" /\ cursor # NoCursor =>
        \A i \in 1 .. Len(cursor.entries) : cursor.entries[i] \in req.pattern

ScanInv == TypeInv /\ FromCursor /\ Answered /\ Handed /\ Matching

-----------------------------------------------------------------------------
(* Facts about the buffer.                                                 *)

LEMMA AlignType == \A n \in Nat : align8(n) \in Nat /\ align8(n) >= n /\ align8(n) % 8 = 0
  BY SMT DEF align8

LEMMA MultipleSum ==
    \A m, n \in Nat : m % 8 = 0 /\ n % 8 = 0 => (m + n) % 8 = 0
  BY SMT

LEMMA EntryLenType ==
    ASSUME req \in Requests, NEW n \in Names
    PROVE  EntryLen(n) \in Nat
<1>1. req.class \in DOMAIN FixedLen
  BY QueryAssumption DEF Requests
<1>2. FixedLen[req.class] \in Nat
  BY <1>1 DEF FixedLen
<1>3. NameLen[n] \in Nat
  BY QueryAssumption
<1> QED BY <1>2, <1>3 DEF EntryLen

LEMMA BufLenType ==
    ASSUME buf \in Seq(Slots)
    PROVE  /\ BufLen(buf) \in Nat
           /\ buf # <<>> => /\ buf[Len(buf)] \in Slots
                            /\ Len(buf) \in 1 .. Len(buf)
                            /\ BufLen(buf) - buf[Len(buf)].off = align8(buf[Len(buf)].len)
<1>1. CASE buf = <<>>
  BY <1>1 DEF BufLen
<1>2. CASE buf # <<>>
  <2>1. Len(buf) \in 1 .. Len(buf) /\ buf[Len(buf)] \in Slots
    BY <1>2, EmptySeq
  <2>2. align8(buf[Len(buf)].len) \in Nat
    BY <2>1, AlignType DEF Slots
  <2> QED BY <1>2, <2>1, <2>2 DEF BufLen, Slots
<1> QED BY <1>1, <1>2

LEMMA FunctionIsSeq ==
    ASSUME NEW S, NEW n \in Nat, NEW f \in [1 .. n -> S]
    PROVE  f \in Seq(S) /\ Len(f) = n
  OBVIOUS

(* The buffer with the NextEntryOffset of its last entry set.              *)
LEMMA PatchFacts ==
    ASSUME buf \in Seq(Slots)
    PROVE  /\ Patch \in Seq(Slots)
           /\ Len(Patch) = Len(buf)
           /\ \A i \in 1 .. Len(buf) :
                 /\ Patch[i].name = buf[i].name
                 /\ Patch[i].off = buf[i].off
                 /\ Patch[i].len = buf[i].len
                 /\ Patch[i].next = IF i = Len(buf) THEN BufLen(buf) - buf[i].off
                                    ELSE buf[i].next
<1>1. DOMAIN buf = 1 .. Len(buf) /\ Len(buf) \in Nat
  BY LenProperties
<1>2. ASSUME NEW i \in 1 .. Len(buf)
      PROVE  buf[i] \in Slots /\ (i = Len(buf) => BufLen(buf) - buf[i].off \in Nat)
  <2>1. buf[i] \in Slots
    BY ElementOfSeq
  <2>2. buf # <<>>
    BY <1>2
  <2>3. i = Len(buf) => BufLen(buf) - buf[i].off = align8(buf[i].len)
    BY <2>2, BufLenType
  <2> QED BY <2>1, <2>3, AlignType DEF Slots
<1>3. \A i \in 1 .. Len(buf) : Patch[i] \in Slots
  BY <1>1, <1>2 DEF Patch, Slots
<1>4. Patch = [i \in 1 .. Len(buf) |->
                 IF i = Len(buf) THEN [buf[i] EXCEPT !.next = BufLen(buf) - buf[i].off]
                 ELSE buf[i]]
  BY <1>1 DEF Patch
<1>5. Patch \in [1 .. Len(buf) -> Slots]
  BY <1>3, <1>4
<1>6. Patch \in Seq(Slots) /\ Len(Patch) = Len(buf)
  BY <1>1, <1>5
<1> QED BY <1>2, <1>4, <1>6 DEF Slots

-----------------------------------------------------------------------------
(* The inductive invariant.                                                *)

LEMMA InitScanInv == Init => ScanInv
<1> SUFFICES ASSUME Init PROVE ScanInv
  OBVIOUS
<1>1. TypeInv
  BY EmptySeq DEF Init, TypeInv
<1> QED BY <1>1 DEF Init, ScanInv, FromCursor, Answered, Handed, Matching

(* The listing a scan starts with is no longer than the set of names.      *)
LEMMA ListingFacts ==
    ASSUME NEW S \in SUBSET Names, NEW l \in ListingsOf(S)
    PROVE  /\ l \in Seq(Names)
           /\ Len(l) \in 0 .. Cardinality(Names)
           /\ \A i \in 1 .. Len(l) : l[i] \in S
           /\ \A i, j \in DOMAIN l : l[i] = l[j] => i = j
<1>1. IsFiniteSet(S) /\ Cardinality(S) <= Cardinality(Names)
  BY QueryAssumption, FS_Subset
<1>2. Cardinality(S) \in Nat /\ Cardinality(Names) \in Nat
  BY <1>1, QueryAssumption, FS_CardinalityType
<1>3. l \in [1 .. Cardinality(S) -> S]
  BY DEF ListingsOf
<1>4. l \in Seq(Names) /\ Len(l) = Cardinality(S)
  BY <1>2, <1>3
<1> QED BY <1>1, <1>2, <1>3, <1>4 DEF ListingsOf

LEMMA BeginScanInv ==
    ASSUME ScanInv, NEW q \in Requests, Begin(q)
    PROVE  ScanInv'
<1> USE DEF ScanInv, Begin
<1>1. CASE NeedsListing(q)
  <2>1. PICK l \in ListingsOf(dir \cap q.pattern) :
           cursor' = [entries |-> l, next |-> 0] /\ seen' = <<>>
    BY <1>1
  <2>2. dir \cap q.pattern \in SUBSET Names
    BY DEF TypeInv
  <2>3. /\ l \in Seq(Names) /\ Len(l) \in 0 .. Cardinality(Names)
        /\ \A i \in 1 .. Len(l) : l[i] \in q.pattern
    BY <2>1, <2>2, ListingFacts
  <2>4. cursor' \in Cursors /\ cursor' # NoCursor
    BY <2>1, <2>3, QueryAssumption DEF Cursors
  <2>5. TypeInv'
    BY <2>1, <2>3, <2>4, EmptySeq DEF TypeInv
  <2> QED
    BY <2>1, <2>3, <2>4, <2>5
    DEF FromCursor, Answered, Handed, Matching, Position
<1>2. CASE ~NeedsListing(q)
  <2>1. cursor # NoCursor /\ ~q.restart /\ UNCHANGED <<cursor, seen>>
    BY <1>2 DEF NeedsListing
  <2>2. TypeInv'
    BY <2>1, EmptySeq DEF TypeInv
  <2>3. Position' = cursor.next /\ Position = cursor.next
    BY <2>1 DEF TypeInv, Position, Cursors
  <2> QED
    BY <2>1, <2>2, <2>3
    DEF FromCursor, Answered, Handed, Matching, TypeInv, Cursors
<1> QED BY <1>1, <1>2

LEMMA EncodeScanInv ==
    ASSUME ScanInv, Encode
    PROVE  ScanInv'
<1> USE DEF ScanInv, Encode
<1> DEFINE slot == [name |-> Entry, off |-> BufLen(buf),
                    len |-> EntryLen(Entry), next |-> 0]
<1>1. /\ cursor \in Cursors /\ cursor # NoCursor
      /\ cursor.next < Len(cursor.entries)
      /\ cursor.next \in Nat /\ Len(cursor.entries) \in Nat
      /\ buf \in Seq(Slots) /\ Len(buf) \in Nat /\ Len(buf) <= cursor.next
  BY DEF TypeInv, FromCursor, Full, AtEnd, Cursors
<1>2. Entry \in Names
  BY <1>1, ElementOfSeq DEF Entry, Cursors
<1>3. slot \in Slots
  BY <1>1, <1>2, EntryLenType, BufLenType DEF Slots, TypeInv
<1>4. /\ cursor' = [entries |-> cursor.entries, next |-> cursor.next + 1]
      /\ cursor' \in Cursors /\ cursor' # NoCursor
  BY <1>1, QueryAssumption DEF Cursors
<1>5. /\ buf' = Append(Patch, slot)
      /\ Patch \in Seq(Slots) /\ Len(Patch) = Len(buf)
      /\ \A i \in 1 .. Len(buf) : Patch[i].name = buf[i].name
  BY <1>1, PatchFacts
<1>6. /\ buf' \in Seq(Slots) /\ Len(buf') = Len(buf) + 1
      /\ \A i \in 1 .. Len(buf) : buf'[i].name = buf[i].name
      /\ buf'[Len(buf) + 1].name = Entry
  <2> HIDE DEF slot
  <2>1. buf' \in Seq(Slots) /\ Len(buf') = Len(buf) + 1
    BY <1>1, <1>3, <1>5
  <2>2. \A i \in 1 .. Len(buf) : buf'[i] = Patch[i]
    BY <1>1, <1>3, <1>5
  <2>3. buf'[Len(buf) + 1] = slot
    BY <1>1, <1>3, <1>5
  <2> QED BY <1>5, <2>1, <2>2, <2>3 DEF slot
<1>7. TypeInv'
  BY <1>1, <1>4, <1>6 DEF TypeInv
<1>8. FromCursor'
  <2>1. cursor'.next - Len(buf') = cursor.next - Len(buf)
    BY <1>1, <1>4, <1>6
  <2>2. ASSUME NEW i \in 1 .. Len(buf')
        PROVE  buf'[i].name = cursor'.entries[cursor'.next - Len(buf') + i]
    <3>1. CASE i \in 1 .. Len(buf)
      BY <1>1, <1>4, <1>6, <2>1, <3>1 DEF FromCursor
    <3>2. CASE i = Len(buf) + 1
      BY <1>1, <1>4, <1>6, <2>1, <3>2 DEF Entry
    <3> QED BY <1>1, <1>6, <3>1, <3>2
  <2> QED BY <1>1, <1>4, <1>6, <2>2 DEF FromCursor
<1>9. Position' = Position
  BY <1>1, <1>4, <1>6 DEF Position
<1>10. Handed'
  BY <1>1, <1>4, <1>9 DEF Handed
<1> QED
  BY <1>1, <1>4, <1>7, <1>8, <1>10 DEF Answered, Matching

LEMMA RespondScanInv ==
    ASSUME ScanInv, Respond
    PROVE  ScanInv'
<1> USE DEF ScanInv, Respond, CursorAfter
<1> DEFINE ns == [i \in DOMAIN buf |-> buf[i].name]
<1>1. /\ cursor \in Cursors /\ cursor # NoCursor
      /\ cursor.next \in Nat /\ Len(cursor.entries) \in Nat
      /\ cursor.next <= Len(cursor.entries)
      /\ buf \in Seq(Slots) /\ Len(buf) \in Nat /\ Len(buf) <= cursor.next
      /\ DOMAIN buf = 1 .. Len(buf)
  BY LenProperties DEF TypeInv, FromCursor, Cursors
<1>2. \A i \in 1 .. Len(buf) : ns[i] \in Names /\ ns[i] = cursor.entries[cursor.next - Len(buf) + i]
  <2> SUFFICES ASSUME NEW i \in 1 .. Len(buf)
               PROVE  /\ ns[i] \in Names
                      /\ ns[i] = cursor.entries[cursor.next - Len(buf) + i]
    OBVIOUS
  <2>1. ns[i] = buf[i].name
    BY <1>1
  <2>2. buf[i].name \in Names
    <3> HIDE DEF ns
    <3>1. buf[i] \in Slots
      BY <1>1, ElementOfSeq
    <3> QED BY <3>1 DEF Slots
  <2>3. buf[i].name = cursor.entries[cursor.next - Len(buf) + i]
    <3> HIDE DEF ns
    <3> QED BY <1>1 DEF FromCursor
  <2> HIDE DEF ns
  <2> QED BY <2>1, <2>2, <2>3
<1>3. ns \in Seq(Names) /\ Len(ns) = Len(buf)
  <2>1. ns \in [1 .. Len(buf) -> Names]
    BY <1>1, <1>2
  <2> HIDE DEF ns
  <2> QED BY <1>1, <2>1, FunctionIsSeq
<1>4. seen \in Seq(Names) /\ Len(seen) = cursor.next - Len(buf)
  BY <1>1 DEF TypeInv, Handed, Position
<1>5. /\ seen' \in Seq(Names) /\ Len(seen') = cursor.next
      /\ \A i \in 1 .. cursor.next :
            seen'[i] = IF i <= Len(seen) THEN seen[i] ELSE ns[i - Len(seen)]
  <2>1. seen' = seen \o ns
    OBVIOUS
  <2>2. /\ seen \o ns \in Seq(Names)
        /\ Len(seen \o ns) = Len(seen) + Len(ns)
        /\ \A i \in 1 .. Len(seen) + Len(ns) : (seen \o ns)[i] =
                 IF i <= Len(seen) THEN seen[i] ELSE ns[i - Len(seen)]
    <3> HIDE DEF ns
    <3> QED BY <1>3, <1>4, ConcatProperties
  <2>3. Len(seen) + Len(ns) = cursor.next
    BY <1>1, <1>3, <1>4
  <2> HIDE DEF ns
  <2> QED BY <2>1, <2>2, <2>3
<1>6. Handed'
  <2>1. Position' = cursor.next /\ Position = cursor.next - Len(buf)
    BY <1>1 DEF Position
  <2>2. ASSUME NEW i \in 1 .. cursor.next
        PROVE  seen'[i] = cursor.entries[i]
    <3>1. CASE i <= Len(seen)
      BY <1>1, <1>4, <1>5, <2>1, <3>1 DEF Handed
    <3>2. CASE i > Len(seen)
      <4>1. i - Len(seen) \in 1 .. Len(buf)
        BY <1>1, <1>4, <3>2
      <4>2. ns[i - Len(seen)] = cursor.entries[cursor.next - Len(buf) + (i - Len(seen))]
        BY <1>2, <4>1
      <4>3. cursor.next - Len(buf) + (i - Len(seen)) = i
        BY <1>1, <1>4
      <4>4. seen'[i] = ns[i - Len(seen)]
        <5> HIDE DEF ns
        <5> QED BY <1>4, <1>5, <3>2
      <4> HIDE DEF ns
      <4> QED BY <4>2, <4>3, <4>4
    <3> QED BY <1>1, <1>4, <3>1, <3>2
  <2> QED BY <1>1, <1>5, <2>1, <2>2 DEF Handed
<1>7. TypeInv'
  BY <1>1, <1>5 DEF TypeInv
<1>8. buf = <<>> => cursor.next = Len(cursor.entries)
  BY <1>1 DEF Full, NoRoom, AtEnd
<1>9. FromCursor' /\ Matching'
  BY <1>1 DEF FromCursor, Matching, Answered
<1>10. Answered'
  BY <1>1, <1>8 DEF Answered
<1> QED BY <1>6, <1>7, <1>9, <1>10

LEMMA StepScanInv == ScanInv /\ [Next]_vars => ScanInv'
<1> SUFFICES ASSUME ScanInv, [Next]_vars
             PROVE  ScanInv'
  OBVIOUS
<1>1. CASE UNCHANGED vars
  BY <1>1
  DEF vars, ScanInv, TypeInv, FromCursor, Answered, Handed, Matching, Position
<1>2. ASSUME NEW q \in Requests, Begin(q)
      PROVE  ScanInv'
  BY <1>2, BeginScanInv
<1>3. ASSUME NEW q \in Requests, ListFailed(q)
      PROVE  ScanInv'
  <2>1. TypeInv'
    BY <1>3, EmptySeq DEF ListFailed, ScanInv, TypeInv
  <2>2. Position' = Position
    BY <1>3 DEF ListFailed, Position
  <2> QED
    BY <1>3, <2>1, <2>2
    DEF ListFailed, ScanInv, TypeInv, FromCursor, Answered, Handed, Matching, Cursors
<1>4. CASE Encode
  BY <1>4, EncodeScanInv
<1>5. CASE Respond
  BY <1>5, RespondScanInv
<1>6. CASE ChangeDir
  <2>1. TypeInv'
    BY <1>6 DEF ChangeDir, ScanInv, TypeInv
  <2> QED
    BY <1>6, <2>1
    DEF ChangeDir, ScanInv, FromCursor, Answered, Handed, Matching, Position
<1> QED BY <1>1, <1>2, <1>3, <1>4, <1>5, <1>6 DEF Next

(* The buffer holds the entries before the cursor and the client has seen  *)
(* the ones before those, however the buffers cut the listing.             *)
THEOREM ScanInvariant == Spec => []ScanInv
<1>1. Init => ScanInv
  BY InitScanInv
<1>2. ScanInv /\ [Next]_vars => ScanInv'
  BY StepScanInv
<1> QED BY <1>1, <1>2, PTL DEF Spec

(* TypeOK, for any parameters: the variables keep their types, the cursor  *)
(* stays within its listing, and a listing no longer than there are names. *)
THEOREM TypeCorrect == Spec => []TypeOK
<1>1. ScanInv => TypeOK
  <2> SUFFICES ASSUME ScanInv PROVE TypeOK
    OBVIOUS
  <2>1. Cardinality(Names) \in Nat
    BY QueryAssumption, FS_CardinalityType
  <2>2. ASSUME cursor # NoCursor
        PROVE  cursor.entries \in Listings /\ cursor.next \in 0 .. Len(cursor.entries)
    <3>1. /\ cursor.entries \in Seq(Names) /\ cursor.next \in Nat
          /\ cursor.next <= Len(cursor.entries)
          /\ Len(cursor.entries) <= Cardinality(Names)
      BY <2>2 DEF ScanInv, TypeInv, Cursors
    <3>2. /\ cursor.entries \in [1 .. Len(cursor.entries) -> Names]
          /\ Len(cursor.entries) \in 0 .. Cardinality(Names)
      BY <2>1, <3>1, LenProperties
    <3> QED BY <3>1, <3>2 DEF Listings
  <2>3. \A i \in DOMAIN buf : buf[i] \in Slots
    BY LenProperties, ElementOfSeq DEF ScanInv, TypeInv
  <2> QED
    BY <2>2, <2>3 DEF ScanInv, TypeInv, FromCursor, TypeOK, Slots
<1> QED BY <1>1, ScanInvariant, PTL

-----------------------------------------------------------------------------
(* What the responses contain.                                             *)

(* EachOnce, for any directory: the responses since a listing was made     *)
(* return its entries in order, none twice and none left out.              *)
THEOREM EachOnceHolds == Spec => []EachOnce
<1>1. ScanInv => EachOnce
  <2> SUFFICES ASSUME ScanInv, pc = "idle", cursor # NoCursor
               PROVE  seen = SubSeq(cursor.entries, 1, cursor.next)
    BY DEF EachOnce
  <2>1. /\ cursor.entries \in Seq(Names) /\ cursor.next \in Nat
        /\ cursor.next <= Len(cursor.entries) /\ seen \in Seq(Names)
    BY DEF ScanInv, TypeInv, Cursors
  <2>2. Position = cursor.next
    BY DEF Position
  <2>3. Len(seen) = cursor.next /\ \A i \in 1 .. cursor.next : seen[i] = cursor.entries[i]
    BY <2>2 DEF ScanInv, Handed
  <2>4. \A i \in 1 .. cursor.next : cursor.entries[i] \in Names
    BY <2>1, ElementOfSeq
  <2> DEFINE s == SubSeq(cursor.entries, 1, cursor.next)
  <2>5. /\ s \in Seq(Names) /\ Len(s) = cursor.next
        /\ \A i \in 1 .. cursor.next : s[i] = cursor.entries[i]
    BY <2>1, <2>4, SubSeqProperties
  <2> HIDE DEF s
  <2>6. seen = s
    BY <2>1, <2>3, <2>5, SeqEqual
  <2> QED BY <2>6 DEF s
<1> QED BY <1>1, ScanInvariant, PTL

(* NoMoreIsEnd, for any directory: STATUS_NO_MORE_FILES is the answer at   *)
(* the end of the listing only.                                            *)
THEOREM NoMoreIsEndHolds == Spec => []NoMoreIsEnd
<1>1. ScanInv => NoMoreIsEnd
  BY DEF ScanInv, TypeInv, Cursors, Answered, NoMoreIsEnd, AtEnd
<1> QED BY <1>1, ScanInvariant, PTL

(* RestartMatches, for any patterns: a request that restarts the scan gets *)
(* names that match its own pattern.                                       *)
THEOREM RestartMatchesHolds == Spec => []RestartMatches
<1>1. ScanInv => RestartMatches
  <2> SUFFICES ASSUME ScanInv, req.restart, status # "error", NEW i \in DOMAIN buf
               PROVE  buf[i].name \in req.pattern
    BY DEF RestartMatches
  <2>1. buf \in Seq(Slots) /\ DOMAIN buf = 1 .. Len(buf) /\ Len(buf) \in Nat
    BY LenProperties DEF ScanInv, TypeInv
  <2>2. cursor # NoCursor
    BY <2>1 DEF ScanInv, FromCursor
  <2>3. /\ cursor.next \in Nat /\ Len(buf) <= cursor.next
        /\ cursor.next <= Len(cursor.entries) /\ Len(cursor.entries) \in Nat
    BY <2>2 DEF ScanInv, TypeInv, FromCursor, Cursors
  <2>4. cursor.next - Len(buf) + i \in 1 .. Len(cursor.entries)
    BY <2>1, <2>3
  <2>5. buf[i].name = cursor.entries[cursor.next - Len(buf) + i]
    BY <2>1, <2>2 DEF ScanInv, FromCursor
  <2> QED BY <2>2, <2>4, <2>5 DEF ScanInv, Matching
<1> QED BY <1>1, ScanInvariant, PTL

(* ScanComplete, for any directory and any patterns: a client that reads   *)
(* until STATUS_NO_MORE_FILES gets all of the listing it asked for.        *)
THEOREM ScanIsComplete == Spec => []ScanComplete
BY TypeCorrect, EachOnceHolds, NoMoreIsEndHolds, RestartMatchesHolds, PTL
   DEF ScanComplete

-----------------------------------------------------------------------------
(* The layout of the buffer.                                               *)

LEMMA EncodeBuffer ==
    ASSUME ScanInv, FitsUnlessOne, ChainIntact, Encode
    PROVE  FitsUnlessOne' /\ ChainIntact'
<1> USE DEF Encode
<1> DEFINE slot == [name |-> Entry, off |-> BufLen(buf),
                    len |-> EntryLen(Entry), next |-> 0]
<1>1. /\ buf \in Seq(Slots) /\ Len(buf) \in Nat /\ DOMAIN buf = 1 .. Len(buf)
      /\ BufLen(buf) \in Nat
  BY LenProperties, BufLenType DEF ScanInv, TypeInv
<1>2. Entry \in Names
  BY ElementOfSeq DEF ScanInv, TypeInv, FromCursor, Full, AtEnd, Cursors, Entry
<1>3. EntryLen(Entry) \in Nat
  BY <1>2, EntryLenType DEF ScanInv, TypeInv
<1>4. slot \in Slots
  BY <1>1, <1>2, <1>3 DEF Slots
<1>5. /\ Patch \in Seq(Slots) /\ Len(Patch) = Len(buf)
      /\ \A i \in 1 .. Len(buf) :
            /\ Patch[i].off = buf[i].off
            /\ Patch[i].len = buf[i].len
            /\ Patch[i].next = IF i = Len(buf) THEN BufLen(buf) - buf[i].off
                               ELSE buf[i].next
  BY <1>1, PatchFacts
<1>6. /\ buf' \in Seq(Slots) /\ Len(buf') = Len(buf) + 1
      /\ DOMAIN buf' = 1 .. Len(buf) + 1
      /\ \A i \in 1 .. Len(buf) : buf'[i] = Patch[i]
      /\ buf'[Len(buf) + 1] = slot
  <2>1. buf' = Append(Patch, slot)
    OBVIOUS
  <2> HIDE DEF slot, Encode
  <2>2. /\ Append(Patch, slot) \in Seq(Slots)
        /\ Len(Append(Patch, slot)) = Len(Patch) + 1
        /\ \A i \in 1 .. Len(Patch) : Append(Patch, slot)[i] = Patch[i]
        /\ Append(Patch, slot)[Len(Patch) + 1] = slot
    BY <1>4, <1>5, AppendProperties
  <2>3. DOMAIN Append(Patch, slot) = 1 .. Len(Patch) + 1
    BY <2>2, LenProperties
  <2> QED BY <1>5, <2>1, <2>2, <2>3
<1>7. /\ buf'[Len(buf) + 1].off = BufLen(buf)
      /\ buf'[Len(buf) + 1].len = EntryLen(Entry)
      /\ buf'[Len(buf) + 1].next = 0
  BY <1>6
<1>8. /\ align8(EntryLen(Entry)) \in Nat
      /\ buf # <<>> => /\ align8(buf[Len(buf)].len) \in Nat
                       /\ align8(buf[Len(buf)].len) >= buf[Len(buf)].len
                       /\ align8(buf[Len(buf)].len) % 8 = 0
                       /\ BufLen(buf) = buf[Len(buf)].off + align8(buf[Len(buf)].len)
                       /\ buf[Len(buf)].off \in Nat /\ buf[Len(buf)].len \in Nat
                       /\ Len(buf) \in 1 .. Len(buf)
  BY <1>1, <1>3, AlignType, BufLenType DEF Slots, BufLen
<1> HIDE DEF slot
<1>9. FitsUnlessOne'
  <2> SUFFICES ASSUME Len(buf') > 1
               PROVE  BufLen(buf') <= req'.cap
    BY DEF FitsUnlessOne, BufLen
  <2>1. buf # <<>>
    BY <1>1, <1>6
  <2>2. BufLen(buf) + align8(EntryLen(Entry)) <= req.cap
    <3>1. req.cap \in Nat
      BY QueryAssumption DEF ScanInv, TypeInv, Requests
    <3> QED BY <1>1, <1>8, <2>1, <3>1 DEF Full, NoRoom
  <2>3. BufLen(buf') = BufLen(buf) + align8(EntryLen(Entry))
    BY <1>1, <1>6, <1>7 DEF BufLen
  <2> QED BY <2>2, <2>3
<1>10. BufLen(buf) % 8 = 0
  <2>1. CASE buf = <<>>
    BY <2>1 DEF BufLen
  <2>2. CASE buf # <<>>
    <3>1. buf[Len(buf)].off % 8 = 0
      BY <1>1, <1>8, <2>2 DEF ChainIntact
    <3> QED BY <1>8, <2>2, <3>1, MultipleSum
  <2> QED BY <2>1, <2>2
<1>11. ChainIntact'
  <2> SUFFICES ASSUME NEW i \in 1 .. Len(buf) + 1
               PROVE  /\ buf'[i].off % 8 = 0
                      /\ IF i = Len(buf) + 1 THEN buf'[i].next = 0
                         ELSE /\ buf'[i].off + buf'[i].next = buf'[i + 1].off
                              /\ buf'[i].next >= buf'[i].len
    BY <1>6 DEF ChainIntact
  <2>1. CASE i = Len(buf) + 1
    BY <1>7, <1>10, <2>1
  <2>2. CASE i = Len(buf)
    <3>1. buf # <<>> /\ i \in 1 .. Len(buf)
      BY <1>1, <2>2
    <3>2. buf[i].off % 8 = 0
      BY <1>1, <3>1 DEF ChainIntact
    <3>3. /\ buf'[i].off = buf[i].off /\ buf'[i].len = buf[i].len
          /\ buf'[i].next = BufLen(buf) - buf[i].off
      BY <1>5, <1>6, <2>2, <3>1
    <3>4. buf'[i + 1].off = BufLen(buf)
      BY <1>7, <2>2
    <3> HIDE DEF Encode
    <3>5. /\ BufLen(buf) \in Nat /\ buf[i].off \in Nat /\ buf[i].len \in Nat
          /\ BufLen(buf) - buf[i].off >= buf[i].len
      BY <1>1, <1>8, <2>2, <3>1
    <3>6. buf'[i].off + buf'[i].next = buf'[i + 1].off
      BY <3>3, <3>4, <3>5
    <3>7. buf'[i].next >= buf'[i].len
      BY <3>3, <3>5
    <3>8. i # Len(buf) + 1
      <4>1. Len(buf) \in Nat
        BY <1>1
      <4> QED BY <2>2, <4>1
    <3> QED BY <3>2, <3>3, <3>6, <3>7, <3>8
  <2>3. CASE i \in 1 .. Len(buf) - 1
    <3>1. i \in 1 .. Len(buf) /\ i + 1 \in 1 .. Len(buf) /\ i # Len(buf)
      BY <1>1, <2>3
    <3>2. /\ buf[i].off % 8 = 0
          /\ buf[i].off + buf[i].next = buf[i + 1].off
          /\ buf[i].next >= buf[i].len
      BY <1>1, <3>1 DEF ChainIntact
    <3>3. /\ buf'[i].off = buf[i].off /\ buf'[i].len = buf[i].len
          /\ buf'[i].next = buf[i].next /\ buf'[i + 1].off = buf[i + 1].off
      <4> HIDE DEF Encode
      <4>1. buf'[i] = Patch[i] /\ buf'[i + 1] = Patch[i + 1]
        BY <1>6, <3>1
      <4> QED BY <1>5, <3>1, <4>1
    <3>4. i # Len(buf) + 1
      BY <1>1, <2>3
    <3> HIDE DEF Encode
    <3> QED BY <3>2, <3>3, <3>4
  <2>4. i = Len(buf) + 1 \/ i = Len(buf) \/ i \in 1 .. Len(buf) - 1
    BY <1>1
  <2> QED BY <2>1, <2>2, <2>3, <2>4
<1> QED BY <1>9, <1>11

(* BufferRight, for any names, classes and capacities: a buffer of several *)
(* entries is within the client's length and its NextEntryOffsets lead     *)
(* from entry to entry.                                                    *)
THEOREM BufferLayout == Spec => []BufferRight
<1> DEFINE BInv == FitsUnlessOne /\ ChainIntact
<1>1. Init => BInv
  BY DEF Init, FitsUnlessOne, ChainIntact
<1>2. ScanInv /\ BInv /\ [Next]_vars => BInv'
  <2> SUFFICES ASSUME ScanInv, BInv, [Next]_vars
               PROVE  BInv'
    OBVIOUS
  <2>1. CASE Encode
    BY <2>1, EncodeBuffer
  <2>2. CASE buf' = <<>>
    BY <2>2 DEF FitsUnlessOne, ChainIntact
  <2>3. CASE UNCHANGED <<buf, req>>
    BY <2>3 DEF FitsUnlessOne, ChainIntact, BufLen
  <2> QED
    BY <2>1, <2>2, <2>3
    DEF Next, Begin, ListFailed, Respond, ChangeDir, vars
<1> QED BY <1>1, <1>2, ScanInvariant, PTL DEF Spec, BufferRight

-----------------------------------------------------------------------------
(* The handler implements the abstract scan: every response hands out the  *)
(* next entries of one list, or says at its end that there are no more     *)
(* (query_directory.rs).  A round of the encoding loop, or a change to the *)
(* directory, is a stuttering step of DirectoryScan.                       *)
THEOREM ScanRefinement == Spec => Scan!Safety
<1>1. Init => Scan!Init
  BY DEF Init, Scan!Init, Scan!Reply, Position, Answer
<1>2. ScanInv /\ ScanInv' /\ [Next]_vars => [Scan!Next]_(Scan!scanVars)
  <2> SUFFICES ASSUME ScanInv, ScanInv', [Next]_vars
               PROVE  Scan!Next \/ UNCHANGED Scan!scanVars
    OBVIOUS
  <2> USE DEF Scan!scanVars, Scan!Reply, Scan!Waiting
  <2>1. CASE UNCHANGED vars
    BY <2>1 DEF vars, Position, Answer
  <2>2. ASSUME NEW q \in Requests, Begin(q)
        PROVE  Scan!Ask
    <3>1. /\ pc = "idle" /\ pc' = "encode" /\ buf' = <<>>
          /\ Answer.status # "pending"
      BY <2>2 DEF Begin, Answer, ScanInv, TypeInv
    <3>2. Answer' = [status |-> "pending", names |-> <<>>]
      BY <3>1 DEF Answer
    <3>3. CASE NeedsListing(q)
      <4>1. PICK l \in ListingsOf(dir \cap q.pattern) :
               cursor' = [entries |-> l, next |-> 0]
        BY <2>2, <3>3 DEF Begin
      <4>2. l \in Scan!Lists
        <5>1. dir \cap q.pattern \in SUBSET Names
          BY DEF ScanInv, TypeInv
        <5> QED BY <4>1, <5>1, ListingFacts DEF Scan!Lists
      <4>3. cursor' # NoCursor
        BY <3>1 DEF ScanInv, FromCursor
      <4>4. Position' = 0
        BY <3>1, <4>1, <4>3 DEF Position
      <4> QED BY <3>1, <3>2, <4>1, <4>2, <4>3, <4>4 DEF Scan!Ask
    <3>4. CASE ~NeedsListing(q)
      <4>1. cursor # NoCursor /\ cursor' = cursor
        BY <2>2, <3>4 DEF Begin, NeedsListing
      <4>2. cursor.entries \in Seq(Names) /\ cursor.next \in Nat
        BY <4>1 DEF ScanInv, TypeInv, Cursors
      <4>3. Position' = Position
        BY <3>1, <4>1, <4>2 DEF Position
      <4>4. cursor.entries # NoCursor
        BY <4>2, QueryAssumption
      <4> QED BY <3>1, <3>2, <4>1, <4>3, <4>4 DEF Scan!Ask
    <3> QED BY <3>3, <3>4
  <2>3. ASSUME NEW q \in Requests, ListFailed(q)
        PROVE  Scan!Refuse
    <3>1. /\ pc = "idle" /\ pc' = "idle" /\ cursor' = cursor /\ status' = "error"
          /\ Answer.status # "pending"
      BY <2>3 DEF ListFailed, Answer, ScanInv, TypeInv
    <3>2. Answer' = [status |-> "error", names |-> <<>>]
      BY <3>1 DEF Answer
    <3>3. Position' = Position
      BY <3>1 DEF Position
    <3> QED BY <3>1, <3>2, <3>3 DEF Scan!Refuse
  <2>4. CASE Encode
    <3>1. /\ pc = "encode" /\ pc' = "encode"
          /\ cursor # NoCursor /\ cursor \in Cursors /\ cursor' # NoCursor
          /\ cursor'.entries = cursor.entries /\ cursor'.next = cursor.next + 1
      BY <2>4 DEF Encode, ScanInv, TypeInv, FromCursor, Cursors
    <3>2. Answer' = Answer
      BY <3>1 DEF Answer
    <3>3. Len(buf') = Len(buf) + 1 /\ Len(buf) \in Nat
      <4>1. Patch \in Seq(Slots) /\ Len(Patch) = Len(buf) /\ Len(buf) \in Nat
        BY PatchFacts DEF ScanInv, TypeInv
      <4> QED BY <2>4, <4>1 DEF Encode
    <3>4. Position' = Position
      <4>1. cursor.next \in Nat
        BY <3>1 DEF Cursors
      <4> QED BY <3>1, <3>3, <4>1 DEF Position
    <3> QED BY <3>1, <3>2, <3>4
  <2>5. CASE Respond
    <3>1. /\ pc = "encode" /\ pc' = "idle" /\ cursor' = cursor /\ buf' = buf
          /\ status' = IF buf = <<>> THEN "no_more" ELSE "ok"
          /\ cursor # NoCursor /\ cursor \in Cursors /\ buf \in Seq(Slots)
          /\ cursor.next \in Nat /\ Len(cursor.entries) \in Nat
          /\ cursor.next <= Len(cursor.entries)
          /\ Len(buf) \in Nat /\ Len(buf) <= cursor.next
      BY <2>5 DEF Respond, CursorAfter, ScanInv, TypeInv, FromCursor, Cursors
    <3>2. Answer.status = "pending" /\ Position = cursor.next - Len(buf)
          /\ Position' = cursor.next
      BY <3>1 DEF Answer, Position
    <3>3. CASE buf = <<>>
      <4>1. cursor.next = Len(cursor.entries)
        BY <2>5, <3>1, <3>3 DEF Respond, Full, NoRoom, AtEnd
      <4>2. Answer' = [status |-> "no_more", names |-> <<>>]
        BY <3>1, <3>3 DEF Answer
      <4>3. Scan!NoMore
        BY <3>1, <3>2, <3>3, <4>1, <4>2 DEF Scan!NoMore
      <4> QED BY <4>3 DEF Scan!Next
    <3>4. CASE buf # <<>>
      <4> DEFINE p == cursor.next
                 ns == [i \in 1 .. p - Position |-> cursor.entries[Position + i]]
      <4>1. Len(buf) >= 1 /\ DOMAIN buf = 1 .. Len(buf)
        BY <3>1, <3>4, EmptySeq, LenProperties
      <4>2. p \in Position + 1 .. Len(cursor.entries) /\ p - Position = Len(buf)
        BY <3>1, <3>2, <4>1
      <4>3. \A i \in 1 .. Len(buf) :
               buf[i].name = cursor.entries[cursor.next - Len(buf) + i]
        BY <3>1 DEF ScanInv, FromCursor
      <4>4. [i \in DOMAIN buf |-> buf[i].name] = ns
        BY <3>2, <4>1, <4>2, <4>3
      <4>5. Answer' = [status |-> "ok", names |-> ns]
        <5>1. Answer' = [status |-> "ok", names |-> [i \in DOMAIN buf |-> buf[i].name]]
          BY <3>1, <3>4 DEF Answer
        <5> HIDE DEF ns
        <5> QED BY <4>4, <5>1
      <4>6. Scan!HandOut
        BY <3>1, <3>2, <4>2, <4>5 DEF Scan!HandOut
      <4> QED BY <4>6 DEF Scan!Next
    <3> QED BY <3>3, <3>4
  <2>6. CASE ChangeDir
    BY <2>6 DEF ChangeDir, Position, Answer
  <2> QED BY <2>1, <2>2, <2>3, <2>4, <2>5, <2>6 DEF Next, Scan!Next
<1> QED BY <1>1, <1>2, ScanInvariant, PTL DEF Spec, Scan!Safety
=============================================================================
