---------------------------- MODULE GoogleStream ----------------------------
(***************************************************************************)
(* What Google and the client library give while a reply is streamed: each *)
(* chunk holds the text so far and what is new in it.  Google may swap the *)
(* reply for another one midway.                                           *)
(***************************************************************************)
EXTENDS OutputFilter

CONSTANTS
  Replies,    \* whole replies Google may give
  Images,     \* images that may come with a reply
  Nothing

\* Links are text, on lines of their own.
ASSUME StreamAssumption ==
  Replies \subseteq Texts /\ Images \cup {"\n"} \subseteq Pieces /\ Nothing \notin Texts

\* Prefixes of a reply: what Google may have shown of it.
Shown(r) == {Upto(r, n) : n \in 1 .. Len(r)}

Showing(replies) == UNION {Shown(r) : r \in replies}

GoesOn(had, text) == Len(had) <= Len(text) /\ Upto(text, Len(had)) = had

\* The library's delta: what is new, perhaps not yet all of it, if the text goes
\* on; nothing if the text only got shorter; else the tail after some overlap.
Deltas(had, text) ==
  CASE GoesOn(had, text) -> {SubSeq(text, Len(had) + 1, n) : n \in Len(had) + 1 .. Len(text)}
    [] Len(text) < Len(had) /\ Upto(had, Len(text)) = text -> {<<>>}
    [] OTHER -> {From(text, n) : n \in DOMAIN text}
=============================================================================
