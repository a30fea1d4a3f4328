---------------------------- MODULE QueryDirectory ----------------------------
(***************************************************************************)
(* QUERY_DIRECTORY on one open directory (handlers/query_directory.rs,     *)
(* DirCursor in conn/state.rs, encode_dir_entry in info_class.rs).         *)
(*                                                                         *)
(* A listing is a snapshot; requests take it from the cursor until the     *)
(* client's buffer is full.  The encoding loop is one action per round, so *)
(* that the buffer can be looked at after each.  An entry is its name and  *)
(* its length; a buffer is the sequence of entries with their offsets and  *)
(* NextEntryOffset fields.  Other clients change the directory at any      *)
(* time.  Every information class that is accepted has an encoding, so the *)
(* loop's branch for an empty one is never taken and left out.             *)
(***************************************************************************)
EXTENDS Naturals, Sequences, FiniteSets

CONSTANTS
    Names,
    NameLen,    \* UTF-16 units of every name
    Classes,    \* bound: the information classes asked for
    Patterns,   \* bound: the patterns asked for, each the names it matches
    Caps,       \* bound: the output_buffer_lengths
    NoCursor

(* Bytes before the name, by class.                                        *)
FixedLen == [Directory |-> 64, FullDirectory |-> 68, BothDirectory |-> 94,
             IdBothDirectory |-> 104, IdFullDirectory |-> 80, Names |-> 12]

ASSUME QueryAssumption ==
    /\ IsFiniteSet(Names)
    /\ NoCursor \notin Seq(Names)
    /\ NoCursor \notin [entries : Seq(Names), next : Nat]
    /\ NameLen \in [Names -> Nat]
    /\ Classes \subseteq DOMAIN FixedLen
    /\ Patterns \subseteq SUBSET Names
    /\ Caps \subseteq Nat

VARIABLES
    dir,     \* the names in the directory
    cursor,  \* Open.search_state
    req,     \* the request being handled, or the last one
    pc,
    buf,     \* the output buffer
    status,  \* of the last response
    seen     \* history: names returned since the listing was made

vars == <<dir, cursor, req, pc, buf, status, seen>>

Requests == [class : Classes, pattern : Patterns, cap : Caps,
             restart : BOOLEAN, single_entry : BOOLEAN]

Listings == UNION {[1 .. n -> Names] : n \in 0 .. Cardinality(Names)}

(* The directory's names that match, in the order the file system has them. *)
ListingsOf(S) ==
    {l \in [1 .. Cardinality(S) -> S] : \A i, j \in DOMAIN l : l[i] = l[j] => i = j}

TypeOK ==
    /\ dir \in SUBSET Names
    /\ cursor = NoCursor \/ (/\ cursor.entries \in Listings
                             /\ cursor.next \in 0 .. Len(cursor.entries))
    /\ req \in Requests
    /\ pc \in {"idle", "encode"}
    /\ pc = "encode" => cursor # NoCursor
    /\ \A i \in DOMAIN buf :
          buf[i] \in [name : Names, off : Nat, len : Nat, next : Nat]
    /\ status \in {"none", "ok", "no_more", "error"}
    /\ seen \in Seq(Names)

Init ==
    /\ dir \in SUBSET Names
    /\ cursor = NoCursor
    /\ req \in Requests
    /\ pc = "idle" /\ buf = <<>> /\ status = "none" /\ seen = <<>>

-----------------------------------------------------------------------------
align8(n) == ((n + 7) \div 8) * 8

EntryLen(n) == FixedLen[req.class] + 2 * NameLen[n]

BufLen(b) == IF b = <<>> THEN 0 ELSE b[Len(b)].off + align8(b[Len(b)].len)

(* Mutant: a restart only goes back to the first entry.                    *)
NeedsListing_FirstOnly(q) == cursor = NoCursor

NeedsListing(q) == cursor = NoCursor \/ q.restart

(* The first half of the handler: list_dir and the filter, or the cursor   *)
(* there is.                                                               *)
Begin(q) ==
    /\ pc = "idle"
    /\ req' = q
    /\ pc' = "encode"
    /\ buf' = <<>>
    /\ status' = "none"
    /\ \/ /\ NeedsListing(q)
          /\ \E l \in ListingsOf(dir \cap q.pattern) :
                cursor' = [entries |-> l, next |-> 0]
          /\ seen' = <<>>
       \/ /\ ~NeedsListing(q)
          /\ UNCHANGED <<cursor, seen>>
    /\ UNCHANGED dir

(* list_dir fails, for instance because an entry vanished while it was     *)
(* being read.  The old cursor stays.                                      *)
ListFailed(q) ==
    /\ pc = "idle"
    /\ NeedsListing(q)
    /\ req' = q
    /\ buf' = <<>>
    /\ status' = "error"
    /\ UNCHANGED <<dir, cursor, pc, seen>>

AtEnd == cursor.next >= Len(cursor.entries)
Entry == cursor.entries[cursor.next + 1]

(* Mutant: an entry that does not fit is left for the next request also if *)
(* the buffer is empty.                                                    *)
NoRoom_EvenFirst == BufLen(buf) + align8(EntryLen(Entry)) > req.cap

(* Mutant: the padding of the entry is not counted.                        *)
NoRoom_Unpadded == BufLen(buf) + EntryLen(Entry) > req.cap /\ buf # <<>>

NoRoom == BufLen(buf) + align8(EntryLen(Entry)) > req.cap /\ buf # <<>>

Full == \/ AtEnd
        \/ ~AtEnd /\ NoRoom
        \/ req.single_entry /\ buf # <<>>

(* Mutant: NextEntryOffset is the length of the entry without padding.     *)
Patch_Unpadded ==
    [i \in DOMAIN buf |->
        IF i = Len(buf) THEN [buf[i] EXCEPT !.next = buf[i].len] ELSE buf[i]]

(* The NextEntryOffset of the entry before.                                *)
Patch ==
    [i \in DOMAIN buf |->
        IF i = Len(buf) THEN [buf[i] EXCEPT !.next = BufLen(buf) - buf[i].off]
        ELSE buf[i]]

Encode ==
    /\ pc = "encode"
    /\ ~Full
    /\ buf' = Append(Patch, [name |-> Entry, off |-> BufLen(buf),
                             len |-> EntryLen(Entry), next |-> 0])
    /\ cursor' = [cursor EXCEPT !.next = @ + 1]
    /\ UNCHANGED <<dir, req, pc, status, seen>>

(* Mutant: the cursor is moved on at the end of the listing as well.        *)
CursorAfter_PastEnd == [cursor EXCEPT !.next = @ + 1]

(* Mutant: the entry that does not fit is dropped.                         *)
CursorAfter_Skip == [cursor EXCEPT !.next = IF AtEnd THEN @ ELSE @ + 1]

CursorAfter == cursor

Respond ==
    /\ pc = "encode"
    /\ Full
    /\ pc' = "idle"
    /\ status' = IF buf = <<>> THEN "no_more" ELSE "ok"
    /\ seen' = seen \o [i \in DOMAIN buf |-> buf[i].name]
    /\ cursor' = CursorAfter
    /\ UNCHANGED <<dir, req, buf>>

(* Other clients.                                                          *)
ChangeDir ==
    /\ \E n \in Names : dir' \in {dir \cup {n}, dir \ {n}} /\ dir' # dir
    /\ UNCHANGED <<cursor, req, pc, buf, status, seen>>

Next ==
    \/ \E q \in Requests : Begin(q) \/ ListFailed(q)
    \/ Encode
    \/ Respond
    \/ ChangeDir

Spec == Init /\ [][Next]_vars

(* The handler's loop has no await in it and no way to wait.               *)
FairSpec == Spec /\ WF_vars(Encode \/ Respond)

-----------------------------------------------------------------------------
(* The responses to the requests since a listing was made return its       *)
(* entries in order, none twice and none left out, however the buffers cut *)
(* them and whatever happens to the directory.                             *)
EachOnce ==
    pc = "idle" /\ cursor # NoCursor
        => seen = SubSeq(cursor.entries, 1, cursor.next)

(* STATUS_NO_MORE_FILES is answered only at the end of the listing: a      *)
(* client that stops there has all of it.                                  *)
NoMoreIsEnd == pc = "idle" /\ status = "no_more" => AtEnd

(* A buffer with more than one entry is within the length the client gave, *)
(* padding included.  (One entry is sent whatever its length.)             *)
FitsUnlessOne == Len(buf) > 1 => BufLen(buf) <= req.cap

(* NextEntryOffset leads from each entry to the next, at a multiple of 8,  *)
(* and is 0 in the last.                                                   *)
ChainIntact ==
    \A i \in DOMAIN buf :
        /\ buf[i].off % 8 = 0
        /\ IF i = Len(buf) THEN buf[i].next = 0
           ELSE /\ buf[i].off + buf[i].next = buf[i + 1].off
                /\ buf[i].next >= buf[i].len

(* A request that restarts the scan gets names that match its own pattern, *)
(* not that of the scan before.                                            *)
RestartMatches ==
    req.restart /\ status # "error" => \A i \in DOMAIN buf : buf[i].name \in req.pattern

(* A client that reads until STATUS_NO_MORE_FILES gets the listing it      *)
(* asked for: all of it, each name once, by its own pattern.  The cursor   *)
(* never leaves the listing (TypeOK).                                      *)
ScanComplete == TypeOK /\ EachOnce /\ NoMoreIsEnd /\ RestartMatches

(* A client can walk the buffer of a response and stays inside it.         *)
BufferRight == FitsUnlessOne /\ ChainIntact

-----------------------------------------------------------------------------
(* The handler implements the abstract scan.  Rounds of the loop stutter:  *)
(* what they have put into the buffer is handed out by the response.       *)
Position == IF cursor = NoCursor THEN 0
            ELSE IF pc = "encode" THEN cursor.next - Len(buf) ELSE cursor.next

Answer == [status |-> IF pc = "encode" THEN "pending" ELSE status,
           names |-> IF pc = "idle" /\ status = "ok"
                       THEN [i \in DOMAIN buf |-> buf[i].name] ELSE <<>>]

Scan == INSTANCE DirectoryScan WITH
            NoScan <- NoCursor,
            list <- IF cursor = NoCursor THEN NoCursor ELSE cursor.entries,
            pos <- Position,
            reply <- Answer

(* Every response hands out the next entries of one list, or says that     *)
(* there are no more at its end, and every request is answered, however    *)
(* the buffers cut the list and the directory changes (query_directory.rs, *)
(* the whole handler).                                                     *)
ImplementsScan == Scan!Spec
=============================================================================
