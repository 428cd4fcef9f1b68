------------------------- MODULE MCConversationStore -------------------------
(***************************************************************************)
(* Two clients, two threads that read alike, one legacy record, two chats. *)
(***************************************************************************)
EXTENDS ConversationStore

CONSTANTS c1, c2, t1, t2, old, x, y

MCTwoClients == <<c1, c2>>
MCThreads == {t1, t2}
MCFuzzyOf == [t \in {t1, t2} |-> "alike"]
MCLegacyKeys == {old}
MCChats == {x, y}
MCTwoOwners == x :> c1 @@ y :> c2
MCScopes == {"window"}
MCAuto == {<<Nothing, TRUE>>}

\* Without is the filter of _remove_from_index, on every row of up to four keys.
ASSUME WithoutFilters ==
  \A row \in UNION {[1 .. n -> {old, t1, t2}] : n \in 0 .. 4}, gone \in SUBSET {old, t1, t2} :
    Without(row, gone) = SelectSeq(row, LAMBDA k : k \notin gone)
=============================================================================
