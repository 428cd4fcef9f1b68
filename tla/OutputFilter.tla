---------------------------- MODULE OutputFilter ----------------------------
(***************************************************************************)
(* What a reply looks like to the caller.  StreamingOutputFilter removes   *)
(* protocol blocks, role tags, FollowUp tags and widgets from a stream     *)
(* while the markers arrive in pieces; process_llm_output removes them     *)
(* from a whole reply.                                                     *)
(*                                                                         *)
(* A text is a sequence of pieces: words, punctuation, blanks, and the     *)
(* parts of a marker between which a chunk may end.  Left out: backslash   *)
(* escapes, artifact URLs (withheld the way FollowUp tags are) and the     *)
(* echoed system hints (removed the way protocol blocks are).              *)
(***************************************************************************)
EXTENDS Sequences, Integers, FiniteSets

CONSTANT Pieces

Texts == Seq(Pieces)

CallStart == <<"[", "Call", "]">>
CallEnd   == <<"[", "/Call", "]">>
ToolStart == <<"[", "ToolCalls", "]">>
ToolEnd   == <<"[", "/ToolCalls", "]">>
TagStart  == <<"<", "|im_start|>">>
TagEnd    == <<"<", "|im_end|>">>
Starts == {CallStart, ToolStart, TagStart}
Exits  == {CallEnd, ToolEnd, TagEnd}

WidgetOpen  == <<"<", "Generate", "Widget">>
WidgetClose == <<"<", "/Generate", "Widget>">>
FollowUp    == <<"<", "Follow", "Up">>
Placeholder == <<"placeholder">>

ASSUME PiecesAssumption == Placeholder \in Texts

Blanks == {" ", "\n"}
Punctuation == {"[", "]", "<", ">", "/>"}
Angles == {">", "/>", "Widget>", "|im_start|>", "|im_end|>"}
Delimiters == Blanks \cup {">"}

-----------------------------------------------------------------------------
(* Texts. *)

Upto(s, i) == SubSeq(s, 1, i)
From(s, i) == SubSeq(s, i, Len(s))

\* The places in s where m occurs, or where a piece of the set P stands.
Places(m, s) == {i \in 1 .. Len(s) - Len(m) + 1 : SubSeq(s, i, i + Len(m) - 1) = m}
Where(P, s)  == {i \in DOMAIN s : s[i] \in P}

First(S) == CHOOSE i \in S : \A j \in S : i <= j
Latest(S) == CHOOSE i \in S : \A j \in S : j <= i

\* The end of s that may be growing into m.
PartialSuffix(s, m) ==
  LET cuts == {i \in 1 .. Len(s) : /\ Len(s) - i + 1 < Len(m)
                                   /\ From(s, i) = Upto(m, Len(s) - i + 1)}
  IN IF cuts = {} THEN Len(s) + 1 ELSE First(cuts)

LStrip(s) == LET text == DOMAIN s \ Where(Blanks, s)
             IN IF text = {} THEN <<>> ELSE From(s, First(text))

-----------------------------------------------------------------------------
(* The whole reply: process_llm_output. *)

\* A hit of a pattern: what stands before it, with what takes its place, and what follows.
Hit(before, rest) == [found |-> TRUE, before |-> before, rest |-> rest]
NoHit(t) == [found |-> FALSE, before |-> t, rest |-> <<>>]

\* re.sub: search gives each text its first hit, and what follows is searched again.
Sub(search, s) ==
  LET Rest[t \in Texts] ==
        LET hit == search[t] IN IF hit.found THEN hit.before \o Rest[hit.rest] ELSE hit.before
  IN Rest[s]

\* "one of these, anything, close", the shortest.
BlockHit(opens, close, t) ==
  LET hits == {h \in (1 .. Len(t)) \X Places(close, t) :
                 \E m \in opens : h[1] \in Places(m, t) /\ h[2] >= h[1] + Len(m)}
      i == First({h[1] : h \in hits})
      j == First({h[2] : h \in {g \in hits : g[1] = i}})
  IN IF hits = {} THEN NoHit(t) ELSE Hit(Upto(t, i - 1), From(t, j + Len(close)))

Cut(opens, close, s) == Sub([t \in Texts |-> BlockHit(opens, close, t)], s)

\* FOLLOWUP_TAG_RE: nothing but "/>" may bring the first ">".
FollowUpHit(t) ==
  LET Ends(i) == Where(Angles, t) \cap (i .. Len(t))
      hits == {i \in Places(FollowUp, t) :
                 /\ Ends(i) # {} /\ t[First(Ends(i))] = "/>"
                 /\ t[i + 3] \in Blanks \cup Punctuation}
  IN IF hits = {} THEN NoHit(t)
     ELSE Hit(Upto(t, First(hits) - 1), From(t, First(Ends(First(hits))) + 1))

DropFollowUps(s) == Sub([t \in Texts |-> FollowUpHit(t)], s)

\* WIDGET_BLOCK_RE: the name must end where the marker does.
WidgetHit(t) ==
  LET Closes(i) == {j \in Places(WidgetClose, t) : j >= i + Len(WidgetOpen)}
      hits == {i \in Places(WidgetOpen, t) :
                 Closes(i) # {} /\ t[i + 3] \in Blanks \cup Punctuation}
      i == First(hits)
  IN IF hits = {} THEN NoHit(t)
     ELSE Hit(Upto(t, i - 1) \o Placeholder, From(t, First(Closes(i)) + Len(WidgetClose)))

DropWidgets(s) == Sub([t \in Texts |-> WidgetHit(t)], s)

\* strip_tagged_blocks: a role, a line end, and content that goes with a tool's; a
\* block that does not end goes on to the end of the text.
TagHit(t) ==
  LET starts == {i \in Places(TagStart, t) : i + 2 <= Len(t) /\ t[i + 2] \notin Blanks \cup Punctuation}
      i    == First(starts)
      body == From(t, i + 3)
      text == IF body # <<>> /\ body[1] = "\n" THEN Tail(body) ELSE body
      ends == Places(TagEnd, text)
      Kept(u) == Upto(t, i - 1) \o (IF t[i + 2] = "tool" THEN <<>> ELSE u)
  IN CASE starts = {} -> NoHit(t)
       [] starts # {} /\ ends = {} -> NoHit(Kept(text))
       [] OTHER -> Hit(Kept(Upto(text, First(ends) - 1)), From(text, First(ends) + 2))

DropTags(s) == Sub([t \in Texts |-> TagHit(t)], s)

DropControls(s) == Cut({TagStart, TagEnd}, <<>>, s)

StripSystemHints(s) ==
  Cut({CallStart}, CallEnd, Cut({ToolStart}, ToolEnd, DropControls(DropTags(s))))

HasToolCall(s) == \E i \in Places(CallStart, s), j \in Places(CallEnd, s) : i < j

Visible(s) == StripSystemHints(DropWidgets(DropFollowUps(s)))

PieceHit(P, t) ==
  LET hits == Where(P, t)
  IN IF hits = {} THEN NoHit(t) ELSE Hit(Upto(t, First(hits) - 1), From(t, First(hits) + 1))

\* What is left without the pieces of P.
DropPieces(P, s) == Sub([t \in Texts |-> PieceHit(P, t)], s)

\* The hash of a message that the fuzzy index compares: no blanks, no punctuation.
Fuzzy(s) == DropPieces(Blanks \cup Punctuation, StripSystemHints(s))

-----------------------------------------------------------------------------
(* The stream, first stage: protocol blocks and role tags. *)

\* A loop: one step after the other until none changes anything.
Drained(step, x) ==
  LET Drain[y \in DOMAIN step] ==
        LET next == step[y] IN IF next = y THEN y ELSE Drain[next]
  IN Drain[x]

\* The stack is never empty.
Stacks == Seq({"normal", "block", "header", "tag", "post"}) \ {<<>>}

Filters == [buffer : Texts, stack : Stacks,
            role : Pieces \cup {""}, out : Texts,
            widget : Texts, inWidget : BOOLEAN, followUp : Texts]

NewFilter == [buffer |-> <<>>, stack |-> <<"normal">>, role |-> "", out |-> <<>>,
              widget |-> <<>>, inWidget |-> FALSE, followUp |-> <<>>]

State(f) == f.stack[Len(f.stack)]
Goto(f, state) == [f.stack EXCEPT ![Len(f.stack)] = state]

Outputting(f) == \/ State(f) = "normal"
                 \/ State(f) = "tag" /\ f.role # "tool"

Emit(f, s) == IF Outputting(f) THEN f.out \o s ELSE f.out

\* What may still grow into a marker: an open bracket, or "<" at the end, which
\* the pattern also takes for one with nothing in it.
TailAt(s) ==
  LET open == {i \in Where({"["}, s) : \A j \in Where({"]"}, s) : j < i}
      last == IF s # <<>> /\ s[Len(s)] = "<" THEN {Len(s)} ELSE {}
      none == {i \in Places(<<"<", ">">>, s) : i = Len(s) - 1}
  IN IF open \cup last \cup none = {} THEN Len(s) + 1 ELSE First(open \cup last \cup none)

Header(f) ==
  LET ends == Where({"\n"}, f.buffer)
  IN IF ends = {} THEN f
     ELSE [f EXCEPT !.role = IF First(ends) = 1 THEN "" ELSE f.buffer[1], !.buffer = From(@, First(ends) + 1),
                    !.stack = Goto(f, "tag")]

AfterBlock(f) ==
  IF LStrip(f.buffer) = <<>> THEN f
  ELSE [f EXCEPT !.buffer = LStrip(@), !.stack = Goto(f, "normal")]

\* A start marker goes one level down, any exit marker one level up.
Enter(f, m) == Append(f.stack, IF m = TagStart THEN "header" ELSE "block")

Leave(f, m) ==
  LET stack == IF Len(f.stack) > 1 THEN Upto(f.stack, Len(f.stack) - 1) ELSE <<"normal">>
  IN IF stack[Len(stack)] = "normal" /\ m # TagEnd
       THEN [stack EXCEPT ![Len(stack)] = "post"] ELSE stack

Marker(f, i, m) ==
  LET stack == IF m \in Starts THEN Enter(f, m) ELSE Leave(f, m)
  IN [f EXCEPT !.out = Emit(f, Upto(f.buffer, i - 1)),
               !.buffer = From(@, i + Len(m)),
               !.stack = stack,
               !.role = IF m \in Exits /\ stack[Len(stack)] \in {"normal", "post"} THEN "" ELSE @]

Text(f) ==
  LET keep == TailAt(f.buffer)
  IN [f EXCEPT !.out = Emit(f, Upto(f.buffer, keep - 1)), !.buffer = From(@, keep)]

Advance(f) ==
  LET found == UNION {Places(m, f.buffer) \X {m} : m \in Starts \cup Exits}
      next  == CHOOSE h \in found : \A g \in found : h[1] <= g[1]
  IN CASE State(f) = "header" -> Header(f)
       [] State(f) = "post" -> AfterBlock(f)
       [] State(f) \notin {"header", "post"} /\ found # {} -> Marker(f, next[1], next[2])
       [] OTHER -> Text(f)

\* The loop of process, until it waits for the next chunk.
Suppress(f) == Drained([g \in Filters |-> Advance(g)], f)

-----------------------------------------------------------------------------
(* Second stage, widgets: a text and whether it starts inside one. *)

\* Slip: a marker cut in two by a chunk is not waited for.
WidgetStepUnheld(w) ==
  LET opens == Places(WidgetOpen \o <<" ">>, w.text)
      closes == Places(WidgetClose, w.text)
  IN IF w.inside
       THEN IF closes = {} THEN [w EXCEPT !.text = <<>>]
            ELSE [text |-> From(w.text, First(closes) + Len(WidgetClose)),
                  inside |-> FALSE, out |-> w.out \o Placeholder]
       ELSE IF opens = {} THEN [w EXCEPT !.out = @ \o w.text, !.text = <<>>]
            ELSE [text |-> From(w.text, First(opens) + Len(WidgetOpen)),
                  inside |-> TRUE, out |-> w.out \o Upto(w.text, First(opens) - 1)]

InWidget(w) ==
  LET closes == Places(WidgetClose, w.text)
  IN IF closes = {} THEN [w EXCEPT !.text = From(@, PartialSuffix(@, WidgetClose))]
     ELSE [text |-> From(w.text, First(closes) + Len(WidgetClose)),
           inside |-> FALSE, out |-> w.out \o Placeholder]

\* A longer name is no widget; a marker whose name may go on is withheld.
OutOfWidget(w) ==
  LET opens == Places(WidgetOpen, w.text)
      i     == First(opens)
      after == i + Len(WidgetOpen)
      cut   == PartialSuffix(w.text, WidgetOpen)
  IN CASE opens = {} ->
            [w EXCEPT !.out = @ \o Upto(w.text, cut - 1), !.text = From(@, cut)]
       [] opens # {} /\ after > Len(w.text) ->
            [w EXCEPT !.out = @ \o Upto(w.text, i - 1), !.text = From(@, i)]
       [] opens # {} /\ after <= Len(w.text) /\ w.text[after] \notin Delimiters ->
            [w EXCEPT !.out = @ \o Upto(w.text, after - 1), !.text = From(@, after)]
       [] OTHER ->
            [text |-> From(w.text, after), inside |-> TRUE, out |-> w.out \o Upto(w.text, i - 1)]

WidgetStep(w) == IF w.inside THEN InWidget(w) ELSE OutOfWidget(w)

WidgetTexts == [text : Texts, inside : BOOLEAN, out : Texts]

FilterWidget(w) == Drained([v \in WidgetTexts |-> WidgetStep(v)], w)

-----------------------------------------------------------------------------
(* Third stage, FollowUp tags: what may be one is withheld from its last "<". *)

Begins(tail) ==
  LET n == IF Len(tail) < Len(FollowUp) THEN Len(tail) ELSE Len(FollowUp)
  IN Upto(tail, n) = Upto(FollowUp, n)

HoldAt(s) ==
  LET angles == Where({"<"}, s)
  IN IF angles # {} /\ Begins(From(s, Latest(angles))) THEN Latest(angles) ELSE Len(s) + 1

-----------------------------------------------------------------------------
(* One chunk through all stages, and the end of the stream.  The record's   *)
(* field out is what is sent for the chunk.                                 *)

Process(f, chunk) ==
  LET g == Suppress([f EXCEPT !.buffer = @ \o chunk, !.out = <<>>])
      w == FilterWidget([text |-> f.widget \o g.out, inside |-> f.inWidget, out |-> <<>>])
      s == DropFollowUps(f.followUp \o w.out)
  IN [g EXCEPT !.widget = w.text, !.inWidget = w.inside,
               !.followUp = From(s, HoldAt(s)), !.out = Upto(s, HoldAt(s) - 1)]

Flush(f) ==
  LET rest == IF Outputting(f) THEN Upto(f.buffer, TailAt(f.buffer) - 1) ELSE <<>>
      text == IF f.inWidget THEN Placeholder ELSE f.widget \o rest
  IN StripSystemHints(DropFollowUps(f.followUp \o text))

-----------------------------------------------------------------------------
(* Replies that may be cut anywhere, and texts without markers.             *)

NoMarker(s) == \A m \in Starts \cup Exits : Places(m, s) = {}

\* In what may be a FollowUp tag no other begins, and one that has its name ends
\* in "/>".
TagsClose(t) ==
  /\ \A i, j \in Where({"<"}, t) :
       i < j /\ Begins(SubSeq(t, i, j - 1)) => \E e \in Where(Angles, t) : i < e /\ e < j
  /\ \A i \in Places(FollowUp, t), e \in Where(Angles, t) :
       i <= e /\ (\A d \in Where(Angles, t) : i <= d => e <= d) =>
         t[e] = "/>" /\ t[i + 3] \in Blanks \cup Punctuation

\* What the first two stages give out of the start of a reply.
Unwrapped(s) ==
  LET g == Suppress([NewFilter EXCEPT !.buffer = s])
  IN FilterWidget([text |-> g.out, inside |-> FALSE, out |-> <<>>]).out

Divisible(s) == TagsClose(Unwrapped(s))

\* What is streamed of a reply that comes in one chunk.
Streamed(s) == LET f == Process(NewFilter, s) IN f.out \o Flush(f)
=============================================================================
