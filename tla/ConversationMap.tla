--------------------------- MODULE ConversationMap ---------------------------
(***************************************************************************)
(* What the conversation store promises: a set of conversations, and a     *)
(* lookup that answers with the conversation itself whenever some client   *)
(* holds it, else with one that reads the same but for letter case, white  *)
(* space and punctuation, else with nothing.  Clients are asked in the     *)
(* order of the configuration.                                             *)
(***************************************************************************)
EXTENDS Integers, Sequences

CONSTANTS
  Order,     \* the configured clients, in order
  Threads,   \* message lists with their model
  FuzzyOf,   \* the fuzzy hash of each thread
  Nothing    \* no conversation

VARIABLES kept, found

mapVars == <<kept, found>>

Holders == {Order[i] : i \in 1 .. Len(Order)}

\* The conversations of client c that may answer for thread t.
Same(c, t)  == {k \in kept : k = <<c, t>>}
Alike(c, t) == {k \in kept : k[1] = c /\ FuzzyOf[k[2]] = FuzzyOf[t]}

\* What the first client that has anything in Hits may answer.
FirstOf(Hits(_)) ==
  UNION {Hits(Order[i]) :
           i \in {j \in 1 .. Len(Order) : \A h \in 1 .. j - 1 : Hits(Order[h]) = {}}}

Answers(t) ==
  LET same == FirstOf(LAMBDA c : Same(c, t))
      alike == FirstOf(LAMBDA c : Alike(c, t))
  IN IF same # {} THEN same ELSE IF alike # {} THEN alike ELSE {Nothing}

Init == kept \subseteq Holders \X Threads /\ found = Nothing

Keep(k) == kept' = kept \cup {k} /\ UNCHANGED found
Drop(S) == kept' = kept \ S /\ UNCHANGED found
Ask(t)  == found' \in Answers(t) /\ UNCHANGED kept

Next ==
  \/ \E k \in Holders \X Threads : Keep(k)
  \/ \E S \in SUBSET kept : Drop(S)
  \/ \E t \in Threads : Ask(t)

Spec == Init /\ [][Next]_mapVars
=============================================================================
