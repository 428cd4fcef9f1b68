----------------------------- MODULE MCServing -----------------------------
(***************************************************************************)
(* The replies of MCChatStream, one that is a bare call and one that ends  *)
(* in what might begin a widget; what a caller may ask and be answered in  *)
(* a dialogue of up to three requests; bodies of up to twice the ceiling.  *)
(***************************************************************************)
EXTENDS MCChatStream, Serving

ShortCall  == CallStart \o <<"p">> \o CallEnd
HalfWidget == <<"v", " ", "<", "Generate">>
MCAll      == MCReplies \cup {ShortCall, HalfWidget}
MCSpoken   == {Refusal, ShortCall}
MCNative   == {HalfWidget, ShortCall}
MCDrawn    == {"image1"}

Free == [structured |-> FALSE, strict |-> FALSE, forced |-> FALSE]
Json == [Free EXCEPT !.structured = TRUE, !.strict = TRUE]
Choice(forced, imageTool) == [forced |-> forced, imageTool |-> imageTool]
MCOrders ==
  {<<Free, Choice("no", TRUE)>>, <<Free, Choice("required", TRUE)>>,
   <<Free, Choice("required", FALSE)>>, <<Json, Choice("function", FALSE)>>,
   <<Json, Choice("image", TRUE)>>}

Answer(thought, text, calls, image) ==
  [thought |-> thought, text |-> text, calls |-> calls, image |-> image]
Made(fun, args) == [fun |-> fun, args |-> args]
MCAsks    == {<<"a">>, <<"b">>}
MCOutputs == {<<"r">>}
MCAnswers ==
  {Answer(TRUE, <<"v", "w">>, <<>>, FALSE),
   Answer(FALSE, <<>>, <<Made("f", "x"), Made("f", "y")>>, FALSE),
   Answer(TRUE, <<"v">>, <<Made("g", "x")>>, FALSE),
   Answer(FALSE, <<"v">>, <<>>, TRUE)}
Setup(api, plays, tools, system) ==
  [api |-> api, plays |-> plays, tools |-> tools, system |-> system]
MCSetups ==
  {Setup("chat", "whole", TRUE, TRUE), Setup("responses", "whole", TRUE, FALSE),
   Setup("responses", "plain", FALSE, TRUE), Setup("native", "whole", TRUE, TRUE),
   Setup("native", "streamed", FALSE, FALSE)}

MCConfigured == {-1, 0, 3}
MCDeclared   == {-1, 2, 3, 4}
MCSizes      == 0 .. 4

\* What the theorems about streams assume of the replies.
ASSUME MCRepliesApart == RepliesApart
ASSUME MCRepliesReadAlike == LinksApart /\ RepliesReadAlike /\ RepliesOpen
ASSUME MCRepliesHide == RepliesHide
=============================================================================
