------------------------- MODULE MCConversationFlow -------------------------
(***************************************************************************)
(* One client, a conversation of two turns and an unrelated one.           *)
(***************************************************************************)
EXTENDS ConversationFlow

CONSTANTS c1, r1, r2, x, y, z

MCOrder == <<c1>>
MCThreads == {<<"a">>, <<"a", "b">>, <<"d">>}
MCFuzzyOf == [t \in MCThreads |-> t]
MCNone == {}
MCChats == {x, y}
MCOwner == [ch \in MCChats |-> c1]
MCScopes == {"temporary", "guest"} \X {c1} \X (1 .. MaxSessions)
MCModes == {"temporary", "auto_delete"}
MCThreeChats == {x, y, z}
MCThreeOwner == [ch \in MCThreeChats |-> c1]
MCSymmetry == Permutations({r1, r2}) \cup Permutations(MCThreeChats)
MCTemporary == {"temporary"}
=============================================================================
