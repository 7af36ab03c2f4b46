------------------------------ MODULE LabelText -----------------------------
(***************************************************************************)
(* The text of a version's label.  A handler prints its call and its path  *)
(* into 24 bytes; the collector splits that text at the blanks, takes the  *)
(* second word, and splits it at the slashes to look it up.  Here a text   *)
(* is the sequence of its characters.                                      *)
(***************************************************************************)
EXTENDS Integers, Sequences
LOCAL INSTANCE SequencesExt

CONSTANTS
    Spell,   \* the characters of each name
    Other    \* a name that stands for every word that spells none of them

\* The first of the places where text has delim from k on, or its end.
Until(text, delim, k) ==
    LET at == {j \in k .. Len(text) : text[j] = delim}
    IN  IF at = {} THEN Len(text) + 1 ELSE CHOOSE j \in at : \A l \in at : j <= l

(* The parts between the delimiters; one at the very end makes no part.    *)
s_split(text, delim) ==
    LET from[k \in 1 .. Len(text) + 1] ==
            LET end == Until(text, delim, k)
            IN  IF k > Len(text) THEN <<>>
                ELSE <<SubSeq(text, k, end - 1)>> \o
                     (IF end > Len(text) THEN <<>> ELSE from[end + 1])
    IN  from[1]

Text(path) ==
    IF path = <<>> THEN <<"/">>
    ELSE FlattenSeq([k \in DOMAIN path |-> <<"/">> \o Spell[path[k]]])

\* What a handler prints before the path: "mknod ", "set time ", ...
Prefix(call) ==
    CASE call \in {"mknod", "write", "chmod"} -> 6
      [] call \in {"truncate", "set"}         -> 9
      [] call = "unlink"                      -> 7
      [] call = "link"                        -> 5

\* Characters of the path that fit behind it, before the final zero.
LabelRoom_Short(call) == 24 - 2 - Prefix(call)
LabelRoom(call)       == 24 - 1 - Prefix(call)

\* (utimens and chmod print without a limit: a path that does not fit
\* overruns the buffer.)
Printed(call, path) ==
    IF call \in {"chmod", "set"} \/ Len(Text(path)) <= LabelRoom(call)
    THEN Text(path)
    ELSE SubSeq(Text(path), 1, LabelRoom(call))

\* The name that a part of a path spells.
NameOf(part) ==
    IF \E n \in DOMAIN Spell : Spell[n] = part
    THEN CHOOSE n \in DOMAIN Spell : Spell[n] = part
    ELSE Other

(* What the collector makes of the label: its second word (path5), and the *)
(* names that tree_lookup_hlp finds between its slashes.                   *)
LabelPath(call, path) ==
    LET word  == s_split(Printed(call, path), " ")[1]
        parts == s_split(Tail(word), "/")
    IN  [k \in DOMAIN parts |-> NameOf(parts[k])]
=============================================================================
