---------------------------- MODULE MCChatStream ----------------------------
(***************************************************************************)
(* Replies with every kind of marker, one with names that only start like  *)
(* a marker, and the refusal Google swaps in.                              *)
(***************************************************************************)
EXTENDS ChatStream

Plain   == <<"w", " ", "[", "v", "]", "<", "Generate", "Widget", "x", "\n", "w">>
Refusal == <<"sorry", "w">>
Calls   == <<"v", "\n">> \o ToolStart \o CallStart \o <<"p">> \o CallEnd \o ToolEnd \o <<"\n", "w">>
Widgets == <<"v", "<", "Generate", "Widget", " ", "p">> \o WidgetClose \o <<"w">>
Follows == <<"v", " ", "<", "Follow", "Up", " ", "q", "/>", "w">>
Tags    == TagStart \o <<"user", "\n", "v">> \o TagEnd
             \o TagStart \o <<"tool", "\n", "p">> \o TagEnd \o <<"w">>
Bracket == <<"v", "[", "w", " ", "w">>

MCReplies  == {Plain, Refusal, Calls, Widgets, Follows, Tags}
MCBrackets == {Bracket}
MCImages == {"image1", "image2"}
MCHidden == {"p"}
MCNone == {}
MCPieces == UNION {{r[i] : i \in DOMAIN r} : r \in MCReplies \cup MCBrackets}
              \cup MCImages \cup {"placeholder"}
=============================================================================
