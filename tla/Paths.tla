-------------------------------- MODULE Paths --------------------------------
(***************************************************************************)
(* SmbPath (path.rs) and the wildcard matcher of QUERY_DIRECTORY           *)
(* (utils.rs) on the texts clients send.  A text is a sequence of          *)
(* characters, a character a string; "^@" and "^_" stand for the control   *)
(* characters, LoneSurrogate for a UTF-16 unit without its partner.        *)
(***************************************************************************)
EXTENDS Naturals, SequencesExt

LOCAL ToSetOf(s) == {s[i] : i \in DOMAIN s}

LowerCase == <<"a", "b", "c", "d", "e", "f", "g", "h", "i", "j", "k", "l", "m",
               "n", "o", "p", "q", "r", "s", "t", "u", "v", "w", "x", "y", "z">>
UpperCase == <<"A", "B", "C", "D", "E", "F", "G", "H", "I", "J", "K", "L", "M",
               "N", "O", "P", "Q", "R", "S", "T", "U", "V", "W", "X", "Y", "Z">>

UpperChar == [c \in ToSetOf(LowerCase) |-> UpperCase[CHOOSE i \in DOMAIN LowerCase : LowerCase[i] = c]]
to_ascii_uppercase(s) == [i \in DOMAIN s |-> IF s[i] \in DOMAIN UpperChar THEN UpperChar[s[i]] ELSE s[i]]
eq_ignore_ascii_case(s, t) == to_ascii_uppercase(s) = to_ascii_uppercase(t)

Separators == {"\\", "/"}
Forbidden == {"<", ">", "\"", "|", "?", "*", "^@", "^_"}
LoneSurrogate == "D800"

NameInvalid == [ok |-> FALSE]
NoStream == <<>>

(* A path: its components and the name of the stream on the last of them.  *)
SmbPath(components, stream) == [ok |-> TRUE, components |-> components, stream |-> stream]
Root == SmbPath(<<>>, NoStream)

-----------------------------------------------------------------------------
(* Parsing.                                                                *)

(* s cut at the characters in Cuts, first to last.                         *)
Split(s, Cuts) ==
    LET at == SetToSortSeq({i \in DOMAIN s : s[i] \in Cuts}, <)
        From(k) == IF k = 1 THEN 1 ELSE at[k - 1] + 1
        To(k) == IF k > Len(at) THEN Len(s) ELSE at[k] - 1
    IN  [k \in 1 .. Len(at) + 1 |-> SubSeq(s, From(k), To(k))]

Devices == {<<"C", "O", "N">>, <<"P", "R", "N">>, <<"A", "U", "X">>, <<"N", "U", "L">>}
Digits1to9 == {"1", "2", "3", "4", "5", "6", "7", "8", "9"}

matches_com_or_lpt(s) ==
    /\ Len(s) = 4
    /\ s[4] \in Digits1to9
    /\ SubSeq(s, 1, 3) \in {<<"C", "O", "M">>, <<"L", "P", "T">>}

(* The stem is what precedes the last dot.                                 *)
is_reserved_dos_name(s) ==
    LET dots == {i \in DOMAIN s : s[i] = "."}
        stem == to_ascii_uppercase(IF dots = {} THEN s ELSE SubSeq(s, 1, Max(dots) - 1))
    IN  stem \in Devices \/ matches_com_or_lpt(stem)

(* name[:stream[:$DATA]]; the type is all that follows the second colon.   *)
Selector(parts) ==
    LET ofData == Len(parts) = 3 /\ eq_ignore_ascii_case(parts[3], <<"$", "D", "A", "T", "A">>)
    IN  IF Len(parts) > 2 /\ ~ofData THEN NameInvalid
        ELSE [ok |-> TRUE, name |-> parts[1],
              stream |-> IF Len(parts) = 1 THEN NoStream ELSE parts[2]]

split_stream_selector(last) == Selector(Split(last, {":"}))

Dot == <<".">>

(* Mutant: parent directories are let through.                             *)
Named_DotDot(c) == c # <<>> /\ ~is_reserved_dos_name(c)

(* A component that names a file or directory below the one before it.     *)
Named(c) == c # <<>> /\ c # <<".", ".">> /\ ~is_reserved_dos_name(c)

(* The path of the components before the last and of the last.             *)
Assemble(parts, last) ==
    IF \E i \in DOMAIN parts : ":" \in ToSetOf(parts[i]) THEN NameInvalid
    ELSE IF ~last.ok THEN NameInvalid
    ELSE IF \E i \in DOMAIN parts : parts[i] # Dot /\ ~Named(parts[i]) THEN NameInvalid
    ELSE IF last.name = Dot /\ last.stream # NoStream THEN NameInvalid
    ELSE IF last.name # Dot /\ ~Named(last.name) THEN NameInvalid
    ELSE SmbPath(SelectSeq(Append(parts, last.name), LAMBDA c : c # Dot), last.stream)

Components(raw) == Assemble(Front(raw), split_stream_selector(Last(raw)))

parse_components(s) ==
    LET trimmed == IF s # <<>> /\ s[1] \in Separators THEN Tail(s) ELSE s
    IN  IF trimmed = <<>> THEN Root
        ELSE IF ToSetOf(trimmed) \cap Forbidden # {} THEN NameInvalid
        ELSE Components(Split(trimmed, Separators))

from_utf16(units) ==
    IF LoneSurrogate \in ToSetOf(units) THEN NameInvalid ELSE parse_components(units)

-----------------------------------------------------------------------------
(* Operations on paths.                                                    *)

is_root(p) == p.components = <<>>
parent(p) == SmbPath(Front(p.components), NoStream)
file_name(p) == Last(p.components)

(* Mutant: the stream of the path is kept.                                 *)
Extended_KeepStream(p, extra) ==
    IF extra.ok THEN SmbPath(p.components \o extra.components, p.stream) ELSE NameInvalid

Extended(p, extra) ==
    IF extra.ok THEN SmbPath(p.components \o extra.components, extra.stream) ELSE NameInvalid

join(p, last) == Extended(p, parse_components(last))

(* Mutant: a separator after every component.                              *)
display_backslash_Trailing(p) ==
    FlattenSeq([i \in DOMAIN p.components |-> Append(p.components[i], "\\")])

display_backslash(p) ==
    FoldLeft(LAMBDA text, c : IF text = <<>> THEN c ELSE text \o <<"\\">> \o c,
             <<>>, p.components)

(* Where LocalFsBackend keeps the stream of a path, from the root of the   *)
(* share down.                                                             *)
STREAMS_DIR == <<".", "s", "m", "b", "-", "s", "t", "r", "e", "a", "m", "s">>

(* Mutant: without the path of the file.                                   *)
stream_rel_path_Flat(p) == <<STREAMS_DIR, p.stream>>

stream_rel_path(p) == <<STREAMS_DIR>> \o p.components \o <<p.stream>>

(* What a file system makes of a list of names.                            *)
Resolved(names) ==
    FoldLeft(LAMBDA at, c : IF c = Dot THEN at
                            ELSE IF c = Dot \o Dot THEN SubSeq(at, 1, Len(at) - 1)
                            ELSE Append(at, c), <<>>, names)

-----------------------------------------------------------------------------
(* Wildcards.                                                              *)

Star == "*"
One == "?"

(* The last star met in the pattern and where it takes its text, after it  *)
(* has taken one character more.                                           *)
(* Mutant: a star is tried again once.                                     *)
TakeMore_Once(star) == <<>>

TakeMore(star) == <<star[1], star[2] + 1>>

(* One pass over the name; where the pattern does not go on, the last star *)
(* takes one character more.                                               *)
dos_pattern_matches_inner(pattern, name) ==
    LET walk[p \in 0 .. Len(pattern), n \in 0 .. Len(name),
             star \in {<<>>} \cup ((0 .. Len(pattern)) \X (0 .. Len(name)))] ==
            IF n = Len(name) THEN \A i \in p + 1 .. Len(pattern) : pattern[i] = Star
            ELSE IF p < Len(pattern) /\
                    (pattern[p + 1] = One \/ eq_ignore_ascii_case(<<pattern[p + 1]>>, <<name[n + 1]>>))
                 THEN walk[p + 1, n + 1, star]
            ELSE IF p < Len(pattern) /\ pattern[p + 1] = Star
                 THEN walk[p + 1, n, <<p + 1, n>>]
            ELSE IF star # <<>> THEN walk[star[1], star[2] + 1, TakeMore(star)]
            ELSE FALSE
    IN  walk[0, 0, <<>>]

dos_pattern_matches(pattern, name) ==
    \/ pattern \in {<<>>, <<Star>>, <<Star, ".", Star>>}
    \/ dos_pattern_matches_inner(pattern, name)

-----------------------------------------------------------------------------
(* Properties of a text a client has sent as a path, or as a pattern.      *)

Safe(c, Not) == c # <<>> /\ ToSetOf(c) \cap Not = {}

(* Whatever a client sends, a path that is accepted leads from the root of *)
(* the share downwards: no component is empty, a dot name or a device, and *)
(* none holds a separator, a colon or a forbidden character, so a backend  *)
(* may append them to its root.  A stream is on a file that has a name,    *)
(* and its own holds none of these characters either; it may be a dot name *)
(* (parse_components, split_stream_selector).                              *)
PathTrusted(text) ==
    \A p \in {from_utf16(text)} : p.ok =>
        /\ \A c \in ToSetOf(p.components) :
              /\ Safe(c, Separators \cup Forbidden \cup {":", LoneSurrogate})
              /\ c \notin {<<".">>, <<".", ".">>}
              /\ ~is_reserved_dos_name(c)
        /\ p.stream # NoStream =>
              Safe(p.stream, Separators \cup Forbidden \cup {":"}) /\ ~is_root(p)

(* The path LocalFsBackend opens for a stream is one name below the        *)
(* directory of the streams of that very file; only the streams "." and    *)
(* "..", which SmbPath lets pass, are that directory itself and the one    *)
(* above it (split_stream_selector, stream_rel_path).                      *)
StreamsBelowHost(text) ==
    \A p \in {from_utf16(text)} : p.ok /\ p.stream # NoStream =>
        LET host == <<STREAMS_DIR>> \o p.components
        IN  Resolved(stream_rel_path(p)) =
                IF p.stream = Dot THEN host
                ELSE IF p.stream = Dot \o Dot THEN Front(host)
                ELSE Append(host, p.stream)

(* The name a path is shown under (display_backslash) is parsed as the     *)
(* same file: components are not merged, split or dropped on the way.      *)
DisplayParses(text) ==
    \A p \in {from_utf16(text)} : p.ok =>
        parse_components(display_backslash(p)) = SmbPath(p.components, NoStream)

(* A path is its parent joined with its last name; and joining the text of *)
(* a path to a directory gives the path and the stream that parsing the    *)
(* two texts as one gives, whatever stream the directory was opened with.  *)
JoinAgrees(text, dir, dirStream) ==
    \A p \in {from_utf16(text)} : p.ok /\ ~is_root(p) =>
        /\ join(parent(p), file_name(p)) = SmbPath(p.components, NoStream)
        /\ text[1] \notin Separators =>
              join(SmbPath(<<dir>>, dirStream), text) = parse_components(dir \o <<"\\">> \o text)

(* What "?" and "*" mean.  m[i, j]: the first i characters of the pattern   *)
(* match the first j of the name.                                          *)
Matches(pattern, name) ==
    LET m[i \in 0 .. Len(pattern), j \in 0 .. Len(name)] ==
            IF i = 0 THEN j = 0
            ELSE IF pattern[i] = Star THEN \E k \in 0 .. j : m[i - 1, k]
            ELSE /\ j > 0
                 /\ pattern[i] = One \/ eq_ignore_ascii_case(<<pattern[i]>>, <<name[j]>>)
                 /\ m[i - 1, j - 1]
    IN  m[Len(pattern), Len(name)]

(* The one-pass matcher decides exactly what the wildcards mean, and "*.*" *)
(* is for every name, one without a dot too.  (Names do not hold a star.)  *)
MatcherAgrees(pattern, Names) ==
    \A name \in Names :
        dos_pattern_matches(pattern, name)
            <=> (Matches(pattern, name) \/ pattern \in {<<>>, <<Star, ".", Star>>})
=============================================================================
