------------------------ MODULE ResponsesStreamProofs ------------------------
(***************************************************************************)
(* A streamed response, for any replies, any images and any tool_choice:   *)
(* no download outlives it, a completed turn made what it was forced to    *)
(* make, every output item that was announced is finished once and listed  *)
(* at the end, and the items are told what is sent, neither more nor less. *)
(* What is sent finds the stored turn, and shows nothing hidden.           *)
(***************************************************************************)
EXTENDS ResponsesStream, ChatStreamProofs

LEMMA ResponseEnds ==
  ASSUME ResponseOver
  PROVE  pc = "streaming" /\ (pc' = "publishing" \/ Fail)
<1>1. PICK more, rest, valid : ResponseCloses(full \o rest, Filtered(rest), more, valid)
  BY DEF ResponseOver
<1>2. PICK text, opened, tail, closed : ResponseChecked(text, opened, tail, closed, valid)
  BY <1>1 DEF ResponseCloses
<1>3. pc' = "publishing" \/ Fail
  BY <1>2 DEF ResponseChecked
<1> QED BY <1>3 DEF ResponseOver

-----------------------------------------------------------------------------
(* Downloads.                                                              *)

LEMMA ResponseKeepsNoneLeft ==
  ASSUME NoneLeft, [ResponsesNext]_responsesVars
  PROVE  NoneLeft'
<1>1. CASE ThoughtChunk \/ UNCHANGED responsesVars
  <2>1. UNCHANGED vars
    BY <1>1 DEF ThoughtChunk, responsesVars
  <2> QED BY <2>1, StepKeepsNoneLeft
<1>2. CASE ResponseText
  BY <1>2 DEF ResponseText, NoneLeft, Ended
<1>3. CASE ResponseOver
  <2>1. CASE Fail
    <3>1. Running' = {}
      BY <2>1, CancelledAreReaped DEF Fail
    <3> QED BY <3>1 DEF NoneLeft
  <2>2. CASE pc' = "publishing"
    BY <2>2 DEF NoneLeft, Ended
  <2> QED BY <1>3, <2>1, <2>2, ResponseEnds
<1>4. CASE ResponseRefused
  <2>1. Running' = {}
    BY <1>4 DEF ResponseRefused, Running
  <2> QED BY <2>1 DEF NoneLeft
<1>5. CASE ResponseStore
  <2>1. Next
    BY <1>5 DEF ResponseStore, Next
  <2> QED BY <2>1, StepKeepsNoneLeft
<1>6. CASE Breaks \/ Done \/ CallerLeaves
           \/ \E i \in Drawn : ImageChunk(i) \/ DownloadEnds(i) \/ ResponsePublish(i)
  <2>1. Drawn \subseteq Images
    BY ResponsesAssumption
  <2>2. Next
    BY <1>6, <2>1 DEF Next, ResponsePublish
  <2> QED BY <2>2, StepKeepsNoneLeft
<1> QED BY <1>1, <1>2, <1>3, <1>4, <1>5, <1>6 DEF ResponsesNext

\* However a streamed response ends (completed, refused by a check, timed out, left by
\* its caller), the downloads it started are over.
THEOREM ResponseDownloadsReaped == ResponsesSpec => []Reaped
<1>1. ResponsesInit => NoneLeft
  BY DEF ResponsesInit, NoneLeft, Ended
<1>2. NoneLeft /\ [ResponsesNext]_responsesVars => NoneLeft'
  BY ResponseKeepsNoneLeft
<1>3. NoneLeft => Reaped
  BY DEF NoneLeft, Reaped
<1> QED BY <1>1, <1>2, <1>3, PTL DEF ResponsesSpec

-----------------------------------------------------------------------------
(* A reply that is swapped midway.                                         *)

LEMMA SpokenIsShown ==
  Arriving(Spoken) \subseteq Arriving(Replies) /\ Showing(Spoken) \subseteq Showing(Replies)
<1>1. Showing(Spoken) \subseteq Showing(Replies)
  BY ResponsesAssumption DEF Showing
<1> QED BY <1>1 DEF Arriving

LEMMA ResponseKeepsOfOne ==
  ASSUME RepliesApart, OfOne(full), [ResponsesNext]_responsesVars
  PROVE  OfOne(full)'
<1>1. CASE ResponseText
  <2>1. PICK delta \in Arriving(Spoken) : full' = full \o delta
    BY <1>1 DEF ResponseText, Takes
  <2> QED BY <2>1, SpokenIsShown, DeltaJoins DEF OfOne
<1>2. CASE ResponseOver
  <2>1. PICK final \in Showing(Spoken), more \in 0 .. MaxThoughts - thoughts, valid \in BOOLEAN :
          ResponseCloses(full \o Drift(final), Filtered(Drift(final)), more, valid)
    BY <1>2 DEF ResponseOver
  <2>2. full' = full \o Drift(final)
    BY <2>1 DEF ResponseCloses
  <2> QED BY <2>2, SpokenIsShown, DriftJoins DEF OfOne
<1>3. CASE UNCHANGED full
  BY <1>3 DEF OfOne
<1>4. ResponseText \/ ResponseOver \/ UNCHANGED full
  BY DEF ResponsesNext, ThoughtChunk, ResponseRefused, ResponseStore, Store, ResponsePublish, Publish,
         Breaks, Done, CallerLeaves, ImageChunk, DownloadEnds, responsesVars, vars
<1> QED BY <1>1, <1>2, <1>3, <1>4

\* Nor does the Responses surface splice a replacement onto what it streamed: it takes
\* the deltas the same way, and the same four fifths keep the other text out.
THEOREM ResponseSwapsAreNotSpliced == RepliesApart => (ResponsesSpec => []NoSplice)
<1> SUFFICES ASSUME RepliesApart PROVE ResponsesSpec => []NoSplice
  OBVIOUS
<1>1. ResponsesInit => OfOne(full)
  BY EmptySeq DEF ResponsesInit, OfOne, Texts
<1>2. OfOne(full) /\ [ResponsesNext]_responsesVars => OfOne(full)'
  BY ResponseKeepsOfOne
<1> QED BY <1>1, <1>2, OfOneIsUnspliced, PTL DEF ResponsesSpec

-----------------------------------------------------------------------------
(* Forced tools.                                                           *)

\* Once a turn is stored its choice was met, and what met it (the text, the images
\* that were published) does not change any more: nothing is running.
Met == pc \in {"stored", "done"} => ~ForcedUnmet /\ Running = {}

LEMMA MetStays ==
  ASSUME UNCHANGED <<full, media, choice>>
  PROVE  (ForcedUnmet)' = ForcedUnmet /\ Running' = Running
BY DEF ForcedUnmet, ChoiceFailure, TurnCalls, Published, Running

LEMMA StepKeepsMet ==
  ASSUME Met, [ResponsesNext]_responsesVars
  PROVE  Met'
<1>1. CASE ThoughtChunk
  BY <1>1 DEF ThoughtChunk, Met, vars
<1>2. CASE ResponseText
  BY <1>2 DEF ResponseText, Met
<1>3. CASE ResponseOver
  BY <1>3, ResponseEnds DEF Fail, Met
<1>4. CASE ResponseRefused
  BY <1>4 DEF ResponseRefused, Met
<1>5. CASE ResponseStore
  <2>1. ~ForcedUnmet /\ UNCHANGED <<full, media, choice>> /\ Running = {}
    BY <1>5 DEF ResponseStore, Store, Running
  <2> QED BY <2>1, MetStays DEF Met
<1>6. ASSUME NEW i \in Drawn, ResponsePublish(i)
      PROVE  Met'
  BY <1>6 DEF ResponsePublish, Publish, Met
<1>7. CASE Breaks
  BY <1>7 DEF Breaks, Fail, Met
<1>8. CASE Done /\ UNCHANGED choice
  <2>1. pc = "stored" /\ UNCHANGED <<full, media, choice>>
    BY <1>8 DEF Done
  <2> QED BY <2>1, MetStays DEF Met
<1>9. CASE CallerLeaves
  BY <1>9 DEF CallerLeaves, Met
<1>10. ASSUME NEW i \in Drawn, ImageChunk(i)
       PROVE  Met'
  BY <1>10 DEF ImageChunk, Met
<1>11. ASSUME NEW i \in Drawn, DownloadEnds(i)
       PROVE  Met'
  <2>1. i \in Running /\ pc' = pc
    BY <1>11, ResponsesAssumption DEF DownloadEnds, Running
  <2> QED BY <2>1 DEF Met
<1>12. CASE UNCHANGED responsesVars
  <2>1. UNCHANGED <<pc, full, media, choice>>
    BY <1>12 DEF responsesVars, vars
  <2> QED BY <2>1, MetStays DEF Met
<1> QED BY <1>1, <1>2, <1>3, <1>4, <1>5, <1>6, <1>7, <1>8, <1>9, <1>10, <1>11, <1>12
        DEF ResponsesNext

LEMMA MetIsHonoured == Met => ChoiceHonoured
BY DEF Met, ChoiceHonoured, ForcedUnmet, ChoiceFailure

\* tool_choice is honoured in every response that is completed: a forced function
\* was called, a forced image published, and an image stands in for a required
\* call only where an image tool was declared (the code checks once the images are
\* published, on the whole text).
THEOREM ForcedChoiceIsMet == ResponsesSpec => []ChoiceHonoured
<1>1. ResponsesInit => Met
  BY DEF ResponsesInit, Met
<1>2. Met /\ [ResponsesNext]_responsesVars => Met'
  BY StepKeepsMet
<1> QED BY <1>1, <1>2, MetIsHonoured, PTL DEF ResponsesSpec

-----------------------------------------------------------------------------
(* Output items.                                                           *)

Itemised(s) ==
  /\ \E X : s \in Seq(X)
  /\ \A i \in DOMAIN s :
       s[i] = [kind |-> s[i].kind, open |-> s[i].open, told |-> s[i].told]

\* i is the last item of its kind.
Lasts(s, i) == \A j \in DOMAIN s : s[j].kind = s[i].kind => j <= i

\* What is open is the last reasoning, if reasoning is (a flag), and the last message,
\* if message is.
Opens(s, reasoning, message) ==
  /\ \A i \in DOMAIN s :
       s[i].open => /\ Lasts(s, i)
                    /\ \/ s[i].kind = "reasoning" /\ reasoning
                       \/ s[i].kind = "message" /\ message
  /\ reasoning => \E i \in DOMAIN s : s[i].kind = "reasoning" /\ s[i].open
  /\ message => \E i \in DOMAIN s : s[i].kind = "message" /\ s[i].open

\* No item is lost, none changes its kind, and what is done stays as it is.
Keeps(s, t) ==
  \A i \in DOMAIN s :
    /\ i \in DOMAIN t /\ t[i].kind = s[i].kind
    /\ ~s[i].open => t[i] = s[i]

LEMMA KeepsSelf == ASSUME NEW s PROVE Keeps(s, s)
BY DEF Keeps

LEMMA KeepsOn ==
  ASSUME NEW s, NEW t, NEW u, Keeps(s, t), Keeps(t, u)
  PROVE  Keeps(s, u)
BY DEF Keeps

LEMMA AtLast ==
  ASSUME NEW s, Itemised(s), NEW i \in DOMAIN s, Lasts(s, i)
  PROVE  At(s, s[i].kind) = i
<1> DEFINE S == {j \in DOMAIN s : s[j].kind = s[i].kind}
<1>1. PICK X : s \in Seq(X)
  BY DEF Itemised
<1>2. S \subseteq Int /\ i \in S /\ \A j \in S : j <= i
  BY <1>1 DEF Lasts
<1>3. \A k \in S : (\A j \in S : j <= k) => k = i
  BY <1>2
<1>4. Latest(S) = i
  BY <1>2, <1>3 DEF Latest
<1> QED BY <1>4 DEF At

\* t is s and an open item of this kind.
OneMore(s, t, kind) ==
  \E n \in Nat : /\ Itemised(t) /\ DOMAIN s = 1 .. n /\ DOMAIN t = 1 .. n + 1
                 /\ \A i \in 1 .. n : t[i] = s[i]
                 /\ t[n + 1] = [kind |-> kind, open |-> TRUE, told |-> 0]

LEMMA ItemAdded ==
  ASSUME NEW s, Itemised(s), NEW kind, NEW t, t = Added(s, kind)
  PROVE  OneMore(s, t, kind)
<1>1. PICK X : s \in Seq(X)
  BY DEF Itemised
<1>2. PICK e : e = [kind |-> kind, open |-> TRUE, told |-> 0]
  OBVIOUS
<1>3. t = Append(s, e)
  BY <1>2 DEF Added
<1>4. s \in Seq(X \cup {e})
  BY <1>1
<1>5. PICK n \in Nat : /\ t \in Seq(X \cup {e}) /\ DOMAIN s = 1 .. n /\ DOMAIN t = 1 .. n + 1
                       /\ \A i \in 1 .. n : t[i] = s[i]
                       /\ t[n + 1] = e
  <2>1. Len(s) \in Nat /\ DOMAIN s = 1 .. Len(s)
    BY <1>4
  <2> QED BY <1>3, <1>4, <2>1
<1>6. \A i \in DOMAIN t : t[i] = [kind |-> t[i].kind, open |-> t[i].open, told |-> t[i].told]
  BY <1>2, <1>5 DEF Itemised
<1>7. Itemised(t)
  BY <1>5, <1>6 DEF Itemised
<1> QED BY <1>2, <1>5, <1>7 DEF OneMore

LEMMA ItemReplaced ==
  ASSUME NEW s, Itemised(s), NEW i \in DOMAIN s, NEW open, NEW told,
         NEW t, t = [s EXCEPT ![i] = [kind |-> s[i].kind, open |-> open, told |-> told]]
  PROVE  /\ Itemised(t) /\ DOMAIN t = DOMAIN s
         /\ t[i].kind = s[i].kind /\ t[i].open = open
         /\ \A j \in DOMAIN s : j # i => t[j] = s[j]
<1> DEFINE e == [kind |-> s[i].kind, open |-> open, told |-> told]
<1>1. PICK X : s \in Seq(X)
  BY DEF Itemised
<1>2. s \in Seq(X \cup {e}) /\ i \in 1 .. Len(s)
  BY <1>1
<1>3. t \in Seq(X \cup {e})
  BY <1>2, ExceptSeq
<1>4. DOMAIN t = DOMAIN s /\ t[i] = e /\ \A j \in DOMAIN s : j # i => t[j] = s[j]
  OBVIOUS
<1> QED BY <1>3, <1>4 DEF Itemised

LEMMA OpenSet ==
  ASSUME NEW e, e = [kind |-> e.kind, open |-> e.open, told |-> e.told], NEW v
  PROVE  [e EXCEPT !.open = v] = [kind |-> e.kind, open |-> v, told |-> e.told]
OBVIOUS

LEMMA Telling ==
  ASSUME NEW s, Itemised(s), NEW r \in BOOLEAN, NEW m \in BOOLEAN, Opens(s, r, m), NEW n,
         NEW kind, \E i \in DOMAIN s : s[i].kind = kind /\ s[i].open
  PROVE  /\ Itemised(Told(s, kind, n)) /\ Opens(Told(s, kind, n), r, m)
         /\ Keeps(s, Told(s, kind, n))
<1>1. PICK i \in DOMAIN s : s[i].kind = kind /\ s[i].open
  OBVIOUS
<1>2. At(s, kind) = i
  BY <1>1, AtLast DEF Opens
<1>3. PICK t : t = Told(s, kind, n)
  OBVIOUS
<1>4. [s[i] EXCEPT !.told = @ + n]
        = [kind |-> s[i].kind, open |-> s[i].open, told |-> s[i].told + n]
  BY DEF Itemised
<1>5. t = [s EXCEPT ![i] = [kind |-> s[i].kind, open |-> s[i].open, told |-> s[i].told + n]]
  BY <1>2, <1>3, <1>4 DEF Told
<1>6. /\ Itemised(t) /\ DOMAIN t = DOMAIN s
      /\ t[i].kind = s[i].kind /\ t[i].open = s[i].open
      /\ \A j \in DOMAIN s : j # i => t[j] = s[j]
  BY <1>5, ItemReplaced
<1>7. \A j \in DOMAIN s : t[j].kind = s[j].kind /\ t[j].open = s[j].open
  BY <1>6
<1>8. Opens(t, r, m)
  BY <1>6, <1>7 DEF Opens, Lasts
<1>9. Keeps(s, t)
  BY <1>1, <1>6 DEF Keeps
<1> QED BY <1>3, <1>6, <1>8, <1>9

LEMMA Closing ==
  ASSUME NEW s, Itemised(s), NEW r \in BOOLEAN, NEW m \in BOOLEAN, Opens(s, r, m)
  PROVE  /\ r => /\ Itemised(Finished(s, "reasoning")) /\ Keeps(s, Finished(s, "reasoning"))
                 /\ Opens(Finished(s, "reasoning"), FALSE, m)
         /\ m => /\ Itemised(Finished(s, "message")) /\ Keeps(s, Finished(s, "message"))
                 /\ Opens(Finished(s, "message"), r, FALSE)
<1>1. ASSUME NEW i \in DOMAIN s, s[i].open, Lasts(s, i), NEW t, t = Finished(s, s[i].kind)
      PROVE  /\ Itemised(t) /\ Keeps(s, t) /\ DOMAIN t = DOMAIN s
             /\ t[i].kind = s[i].kind /\ ~t[i].open
             /\ \A j \in DOMAIN s : j # i => t[j] = s[j]
  <2>1. At(s, s[i].kind) = i
    BY <1>1, AtLast
  <2>2. [s[i] EXCEPT !.open = FALSE] = [kind |-> s[i].kind, open |-> FALSE, told |-> s[i].told]
    <3>1. s[i] = [kind |-> s[i].kind, open |-> s[i].open, told |-> s[i].told]
      BY <1>1 DEF Itemised
    <3> QED BY <3>1, OpenSet, Zenon
  <2>3. t = [s EXCEPT ![i] = [kind |-> s[i].kind, open |-> FALSE, told |-> s[i].told]]
    BY <1>1, <2>1, <2>2 DEF Finished
  <2>4. /\ Itemised(t) /\ DOMAIN t = DOMAIN s /\ t[i].kind = s[i].kind /\ t[i].open = FALSE
        /\ \A j \in DOMAIN s : j # i => t[j] = s[j]
    BY <2>3, ItemReplaced
  <2> QED BY <1>1, <2>4 DEF Keeps
<1>2. ASSUME NEW i \in DOMAIN s, s[i].open, Lasts(s, i), NEW t,
             DOMAIN t = DOMAIN s, t[i].kind = s[i].kind, ~t[i].open,
             \A j \in DOMAIN s : j # i => t[j] = s[j]
      PROVE  /\ s[i].kind = "reasoning" => Opens(t, FALSE, m)
             /\ s[i].kind = "message" => Opens(t, r, FALSE)
  <2>1. \A j \in DOMAIN s : s[j].open /\ s[j].kind = s[i].kind => j = i
    <3>1. \E X : s \in Seq(X)
      BY DEF Itemised
    <3>2. DOMAIN s \subseteq Int
      BY <3>1
    <3> QED BY <1>2, <3>2 DEF Opens, Lasts
  <2>2. \A j \in DOMAIN s : t[j].kind = s[j].kind
    BY <1>2
  <2> QED BY <1>2, <2>1, <2>2 DEF Opens, Lasts
<1>3. ASSUME r
      PROVE  /\ Itemised(Finished(s, "reasoning")) /\ Keeps(s, Finished(s, "reasoning"))
             /\ Opens(Finished(s, "reasoning"), FALSE, m)
  <2>1. PICK i \in DOMAIN s : s[i].kind = "reasoning" /\ s[i].open
    BY <1>3 DEF Opens
  <2>2. Lasts(s, i)
    BY <2>1 DEF Opens
  <2>3. PICK t : t = Finished(s, "reasoning")
    OBVIOUS
  <2>4. t = Finished(s, s[i].kind)
    BY <2>1, <2>3
  <2>5. /\ Itemised(t) /\ Keeps(s, t) /\ DOMAIN t = DOMAIN s
        /\ t[i].kind = s[i].kind /\ ~t[i].open
        /\ \A j \in DOMAIN s : j # i => t[j] = s[j]
    BY <2>1, <2>2, <2>4, <1>1
  <2>6. Opens(t, FALSE, m)
    BY <2>1, <2>2, <2>5, <1>2
  <2> QED BY <2>3, <2>5, <2>6
<1>4. ASSUME m
      PROVE  /\ Itemised(Finished(s, "message")) /\ Keeps(s, Finished(s, "message"))
             /\ Opens(Finished(s, "message"), r, FALSE)
  <2>1. PICK i \in DOMAIN s : s[i].kind = "message" /\ s[i].open
    BY <1>4 DEF Opens
  <2>2. Lasts(s, i)
    BY <2>1 DEF Opens
  <2>3. PICK t : t = Finished(s, "message")
    OBVIOUS
  <2>4. t = Finished(s, s[i].kind)
    BY <2>1, <2>3
  <2>5. /\ Itemised(t) /\ Keeps(s, t) /\ DOMAIN t = DOMAIN s
        /\ t[i].kind = s[i].kind /\ ~t[i].open
        /\ \A j \in DOMAIN s : j # i => t[j] = s[j]
    BY <2>1, <2>2, <2>4, <1>1
  <2>6. Opens(t, r, FALSE)
    BY <2>1, <2>2, <2>5, <1>2
  <2> QED BY <2>3, <2>5, <2>6
<1> QED BY <1>3, <1>4

LEMMA Opening ==
  ASSUME NEW s, Itemised(s), NEW r \in BOOLEAN, NEW m \in BOOLEAN, Opens(s, r, m)
  PROVE  /\ ~r => /\ Itemised(Added(s, "reasoning")) /\ Keeps(s, Added(s, "reasoning"))
                  /\ Opens(Added(s, "reasoning"), TRUE, m)
         /\ ~m => /\ Itemised(Added(s, "message")) /\ Keeps(s, Added(s, "message"))
                  /\ Opens(Added(s, "message"), r, TRUE)
<1>1. ASSUME NEW kind, NEW t, t = Added(s, kind),
             \A i \in DOMAIN s : s[i].open => s[i].kind # kind
      PROVE  /\ Itemised(t) /\ Keeps(s, t)
             /\ kind = "reasoning" => Opens(t, TRUE, m)
             /\ kind = "message" => Opens(t, r, TRUE)
  <2> OneMore(s, t, kind)
    BY <1>1, ItemAdded
  <2>1. PICK n \in Nat : /\ Itemised(t) /\ DOMAIN s = 1 .. n /\ DOMAIN t = 1 .. n + 1
                         /\ \A i \in 1 .. n : t[i] = s[i]
                         /\ t[n + 1] = [kind |-> kind, open |-> TRUE, told |-> 0]
    BY DEF OneMore
  <2>2. t[n + 1].kind = kind /\ t[n + 1].open
    BY <2>1
  <2>3. Keeps(s, t)
    BY <2>1 DEF Keeps
  <2>4. \A i \in 1 .. n : s[i].open => s[i].kind # kind
    BY <1>1, <2>1 DEF Opens
  <2>5. \A i \in 1 .. n : s[i].open => Lasts(t, i)
    BY <2>1, <2>2, <2>4 DEF Opens, Lasts
  <2>6. Lasts(t, n + 1)
    BY <2>1 DEF Lasts
  <2>7. \A i \in DOMAIN t : i \in 1 .. n \/ i = n + 1
    BY <2>1
  <2>8. n + 1 \in DOMAIN t /\ \A i \in DOMAIN s : i \in DOMAIN t /\ t[i] = s[i]
    BY <2>1
  <2>9. kind = "reasoning" => Opens(t, TRUE, m)
    BY <2>1, <2>2, <2>5, <2>6, <2>7, <2>8 DEF Opens
  <2>10. kind = "message" => Opens(t, r, TRUE)
    BY <2>1, <2>2, <2>5, <2>6, <2>7, <2>8 DEF Opens
  <2> QED BY <2>1, <2>3, <2>9, <2>10
<1>2. ASSUME ~r
      PROVE  /\ Itemised(Added(s, "reasoning")) /\ Keeps(s, Added(s, "reasoning"))
             /\ Opens(Added(s, "reasoning"), TRUE, m)
  <2>1. PICK t : t = Added(s, "reasoning")
    OBVIOUS
  <2>2. \A i \in DOMAIN s : s[i].open => s[i].kind # "reasoning"
    BY <1>2 DEF Opens
  <2>3. Itemised(t) /\ Keeps(s, t) /\ Opens(t, TRUE, m)
    BY <1>1, <2>1, <2>2
  <2> QED BY <2>1, <2>3
<1>3. ASSUME ~m
      PROVE  /\ Itemised(Added(s, "message")) /\ Keeps(s, Added(s, "message"))
             /\ Opens(Added(s, "message"), r, TRUE)
  <2>1. PICK t : t = Added(s, "message")
    OBVIOUS
  <2>2. \A i \in DOMAIN s : s[i].open => s[i].kind # "message"
    BY <1>3 DEF Opens
  <2>3. Itemised(t) /\ Keeps(s, t) /\ Opens(t, r, TRUE)
    BY <1>1, <2>1, <2>2
  <2> QED BY <2>1, <2>3
<1> QED BY <1>2, <1>3

LEMMA AtOnce ==
  ASSUME NEW s, Itemised(s), NEW r \in BOOLEAN, NEW m \in BOOLEAN, Opens(s, r, m),
         NEW kind \in {"image", "call"}
  PROVE  Itemised(Whole(s, kind)) /\ Keeps(s, Whole(s, kind)) /\ Opens(Whole(s, kind), r, m)
<1>1. PICK t : t = Added(s, kind)
  OBVIOUS
<1> OneMore(s, t, kind)
  BY <1>1, ItemAdded
<1>2. PICK n \in Nat : /\ Itemised(t) /\ DOMAIN s = 1 .. n /\ DOMAIN t = 1 .. n + 1
                       /\ \A i \in 1 .. n : t[i] = s[i]
                       /\ t[n + 1] = [kind |-> kind, open |-> TRUE, told |-> 0]
  BY DEF OneMore
<1>3. n + 1 \in DOMAIN t /\ Lasts(t, n + 1) /\ t[n + 1].kind = kind
  BY <1>2 DEF Lasts
<1>4. At(t, kind) = n + 1
  BY <1>2, <1>3, AtLast
<1>5. PICK u : u = Whole(s, kind)
  OBVIOUS
<1>6. u = [t EXCEPT ![n + 1] = [kind |-> t[n + 1].kind, open |-> FALSE, told |-> t[n + 1].told]]
  <2>1. t[n + 1] = [kind |-> t[n + 1].kind, open |-> t[n + 1].open, told |-> t[n + 1].told]
    BY <1>2, <1>3 DEF Itemised
  <2>2. [t[n + 1] EXCEPT !.open = FALSE]
          = [kind |-> t[n + 1].kind, open |-> FALSE, told |-> t[n + 1].told]
    BY <2>1, OpenSet, Zenon
  <2> QED BY <1>1, <1>4, <1>5, <2>2 DEF Whole, Finished
<1>7. /\ Itemised(u) /\ DOMAIN u = 1 .. n + 1
      /\ u[n + 1].kind = kind /\ ~u[n + 1].open
      /\ \A i \in 1 .. n : u[i] = s[i]
  <2>1. PICK i \in DOMAIN t : i = n + 1
    BY <1>3
  <2>2. u = [t EXCEPT ![i] = [kind |-> t[i].kind, open |-> FALSE, told |-> t[i].told]]
    BY <1>6, <2>1
  <2>0. PICK told : told = t[i].told
    OBVIOUS
  <2>3. PICK open : open = FALSE
    OBVIOUS
  <2>4. u = [t EXCEPT ![i] = [kind |-> t[i].kind, open |-> open, told |-> told]]
    BY <2>0, <2>2, <2>3
  <2>5. Itemised(t)
    BY <1>2
  <2>6. /\ Itemised(u) /\ DOMAIN u = DOMAIN t
        /\ u[i].kind = t[i].kind /\ u[i].open = open
        /\ \A j \in DOMAIN t : j # i => u[j] = t[j]
    BY <2>4, <2>5, ItemReplaced
  <2> QED BY <1>2, <1>3, <2>1, <2>3, <2>6
<1>8. Keeps(s, u)
  BY <1>2, <1>7 DEF Keeps
<1>9. \A i \in DOMAIN s : s[i].open => s[i].kind # kind
  BY DEF Opens
<1>10. \A i \in DOMAIN s : s[i].open => Lasts(u, i)
  BY <1>2, <1>7, <1>9 DEF Opens, Lasts
<1>11. \A i \in DOMAIN u : (i \in DOMAIN s /\ u[i] = s[i]) \/ i = n + 1
  BY <1>2, <1>7
<1>12. Opens(u, r, m)
  BY <1>2, <1>7, <1>10, <1>11 DEF Opens
<1> QED BY <1>5, <1>7, <1>8, <1>12

-----------------------------------------------------------------------------
(* The steps.                                                              *)

LEMMA WithThoughtOpen ==
  ASSUME thoughtOpen \in BOOLEAN, NEW m \in BOOLEAN,
         Itemised(items), Opens(items, thoughtOpen, m),
         NEW t, t = WithThought(items)
  PROVE  Itemised(t) /\ Opens(t, TRUE, m) /\ Keeps(items, t)
<1>1. CASE thoughtOpen
  <2>1. t = items /\ thoughtOpen = TRUE
    BY <1>1 DEF WithThought
  <2> QED BY <2>1, KeepsSelf
<1>2. CASE ~thoughtOpen
  <2>1. t = Added(items, "reasoning")
    BY <1>2 DEF WithThought
  <2> QED BY <1>2, <2>1, Opening
<1> QED BY <1>1, <1>2

LEMMA WithMessageOpen ==
  ASSUME messageOpen \in BOOLEAN, NEW r \in BOOLEAN,
         NEW s, Itemised(s), Opens(s, r, messageOpen),
         NEW t, t = WithMessage(s)
  PROVE  Itemised(t) /\ Opens(t, r, TRUE) /\ Keeps(s, t)
<1>1. CASE messageOpen
  <2>1. t = s /\ messageOpen = TRUE
    BY <1>1 DEF WithMessage
  <2> QED BY <2>1, KeepsSelf
<1>2. CASE ~messageOpen
  <2>1. t = Added(s, "message")
    BY <1>2 DEF WithMessage
  <2> QED BY <1>2, <2>1, Opening
<1> QED BY <1>1, <1>2

LEMMA ThoughtIsDone ==
  ASSUME thoughtOpen \in BOOLEAN, NEW m \in BOOLEAN,
         Itemised(items), Opens(items, thoughtOpen, m),
         NEW t, t = ThoughtDone(items)
  PROVE  Itemised(t) /\ Opens(t, FALSE, m) /\ Keeps(items, t)
<1>1. CASE thoughtOpen
  <2>1. t = Finished(items, "reasoning")
    BY <1>1 DEF ThoughtDone
  <2> QED BY <1>1, <2>1, Closing
<1>2. CASE ~thoughtOpen
  <2>1. t = items /\ thoughtOpen = FALSE
    BY <1>2 DEF ThoughtDone
  <2> QED BY <2>1, KeepsSelf
<1> QED BY <1>1, <1>2

\* A message is there, and is told something.
LEMMA MessageTold ==
  ASSUME messageOpen \in BOOLEAN, NEW r \in BOOLEAN,
         NEW s, Itemised(s), Opens(s, r, messageOpen),
         NEW n, NEW t, t = Told(WithMessage(s), "message", n)
  PROVE  Itemised(t) /\ Opens(t, r, TRUE) /\ Keeps(s, t)
<1>1. PICK w : w = WithMessage(s)
  OBVIOUS
<1>2. Itemised(w) /\ Opens(w, r, TRUE) /\ Keeps(s, w)
  BY <1>1, WithMessageOpen
<1>3. t = Told(w, "message", n)
  BY <1>1
<1>4. Itemised(t) /\ Opens(t, r, TRUE) /\ Keeps(w, t)
  <2>1. \E i \in DOMAIN w : w[i].kind = "message" /\ w[i].open
    BY <1>2 DEF Opens
  <2> QED BY <1>2, <1>3, <2>1, Telling
<1>5. Keeps(s, t)
  BY <1>2, <1>4, KeepsOn
<1> QED BY <1>4, <1>5

LEMMA ThoughtTold ==
  ASSUME thoughtOpen \in BOOLEAN, NEW m \in BOOLEAN,
         Itemised(items), Opens(items, thoughtOpen, m),
         NEW n, NEW t, t = Told(WithThought(items), "reasoning", n)
  PROVE  Itemised(t) /\ Opens(t, TRUE, m) /\ Keeps(items, t)
<1>1. PICK w : w = WithThought(items)
  OBVIOUS
<1>2. Itemised(w) /\ Opens(w, TRUE, m) /\ Keeps(items, w)
  BY <1>1, WithThoughtOpen
<1>3. t = Told(w, "reasoning", n)
  BY <1>1
<1>4. Itemised(t) /\ Opens(t, TRUE, m) /\ Keeps(w, t)
  <2>1. \E i \in DOMAIN w : w[i].kind = "reasoning" /\ w[i].open
    BY <1>2 DEF Opens
  <2> QED BY <1>2, <1>3, <2>1, Telling
<1>5. Keeps(items, t)
  BY <1>2, <1>4, KeepsOn
<1> QED BY <1>4, <1>5

\* The last of the reasoning and of the text.
LEMMA AtEnd ==
  ASSUME thoughtOpen \in BOOLEAN, messageOpen \in BOOLEAN,
         Itemised(items), Opens(items, thoughtOpen, messageOpen),
         NEW more \in Nat, NEW opened \in BOOLEAN, messageOpen => opened,
         NEW tail, NEW t, t = ItemsAtEnd(more, opened, tail)
  PROVE  Itemised(t) /\ Opens(t, FALSE, opened) /\ Keeps(items, t)
<1>1. PICK q \in BOOLEAN : q = (thoughtOpen \/ more > 0)
  OBVIOUS
<1>2. PICK a : a = LastThoughts(more)
  OBVIOUS
<1>3. Itemised(a) /\ Opens(a, q, messageOpen) /\ Keeps(items, a)
  <2>1. CASE more = 0
    <3>1. a = items /\ q = thoughtOpen
      BY <1>1, <1>2, <2>1 DEF LastThoughts
    <3> QED BY <3>1, KeepsSelf
  <2>2. CASE more # 0
    <3>1. a = Told(WithThought(items), "reasoning", more)
      BY <1>2, <2>2 DEF LastThoughts
    <3>2. more > 0
      BY <2>2
    <3>3. q = TRUE
      BY <1>1, <3>2, Zenon
    <3>4. Itemised(a) /\ Opens(a, TRUE, messageOpen) /\ Keeps(items, a)
      BY <3>1, ThoughtTold
    <3> QED BY <3>3, <3>4
  <2> QED BY <2>1, <2>2
<1>4. PICK b : b = IF opened THEN Told(WithMessage(a), "message", Len(tail)) ELSE a
  OBVIOUS
<1>5. Itemised(b) /\ Opens(b, q, opened) /\ Keeps(a, b)
  <2>1. CASE opened
    <3>1. b = Told(WithMessage(a), "message", Len(tail)) /\ opened = TRUE
      BY <1>4, <2>1
    <3>2. Itemised(b) /\ Opens(b, q, TRUE) /\ Keeps(a, b)
      BY <1>3, <3>1, MessageTold
    <3> QED BY <3>1, <3>2
  <2>2. CASE ~opened
    <3>1. b = a /\ opened = messageOpen
      BY <1>4, <2>2
    <3> QED BY <1>3, <3>1, KeepsSelf
  <2> QED BY <2>1, <2>2
<1>6. t = IF q THEN Finished(b, "reasoning") ELSE b
  BY <1>1, <1>2, <1>4 DEF ItemsAtEnd
<1>7. Itemised(t) /\ Opens(t, FALSE, opened) /\ Keeps(b, t)
  <2>1. CASE q
    <3>1. t = Finished(b, "reasoning")
      BY <1>6, <2>1
    <3> QED BY <1>5, <2>1, <3>1, Closing
  <2>2. CASE ~q
    <3>1. t = b /\ q = FALSE
      BY <1>6, <2>2
    <3> QED BY <1>5, <3>1, KeepsSelf
  <2> QED BY <2>1, <2>2
<1>8. Keeps(items, t)
  BY <1>3, <1>5, <1>7, KeepsOn
<1> QED BY <1>7, <1>8

\* Items are open only as long as their flag says so, and none once the turn is stored.
ItemsInvariant ==
  /\ thoughts \in Nat /\ thoughtOpen \in BOOLEAN /\ messageOpen \in BOOLEAN
  /\ pc \in {"streaming", "publishing", "stored", "done"} => Itemised(items)
  /\ pc = "streaming" => Opens(items, thoughtOpen, messageOpen)
  /\ pc = "publishing" => Opens(items, FALSE, messageOpen)
  /\ pc \in {"stored", "done"} => Opens(items, FALSE, FALSE)

\* The flags after text: reasoning is over, and there is a message unless it is withheld.
LEMMA TextStep ==
  ASSUME ItemsInvariant, pc = "streaming", TextItems, UNCHANGED <<pc, thoughts>>
  PROVE  ItemsInvariant' /\ Keeps(items, items')
<1>1. PICK a : a = ThoughtDone(items)
  OBVIOUS
<1>2. Itemised(a) /\ Opens(a, FALSE, messageOpen) /\ Keeps(items, a)
  BY <1>1, ThoughtIsDone DEF ItemsInvariant
<1>3. CASE request.structured
  <2>1. items' = a /\ messageOpen' = messageOpen /\ thoughtOpen' = FALSE
    BY <1>1, <1>3 DEF TextItems, ItemsInvariant
  <2> QED BY <1>2, <2>1 DEF ItemsInvariant
<1>4. CASE ~request.structured
  <2>1. PICK n : items' = Told(WithMessage(a), "message", n)
    BY <1>1, <1>4 DEF TextItems
  <2>2. messageOpen' = TRUE /\ thoughtOpen' = FALSE
    BY <1>4 DEF TextItems
  <2>3. Itemised(items') /\ Opens(items', FALSE, TRUE) /\ Keeps(a, items')
    BY <1>2, <2>1, MessageTold DEF ItemsInvariant
  <2>4. Keeps(items, items')
    BY <1>2, <2>3, KeepsOn
  <2> QED BY <2>2, <2>3, <2>4 DEF ItemsInvariant
<1> QED BY <1>3, <1>4

\* The end of the reply: nothing but a message stays open.
LEMMA OverStep ==
  ASSUME ItemsInvariant, ResponseOver
  PROVE  ItemsInvariant' /\ Keeps(items, items')
<1>1. PICK more \in 0 .. MaxThoughts - thoughts, valid \in BOOLEAN,
           rest \in {Drift(final) : final \in Showing(Spoken)} :
        ResponseCloses(full \o rest, Filtered(rest), more, valid)
  BY DEF ResponseOver
<1>2. pc = "streaming" /\ more \in Nat
  BY <1>1, ResponsesAssumption DEF ResponseOver, ItemsInvariant
<1>3. PICK opened \in BOOLEAN :
        opened = (messageOpen \/ (IF request.structured THEN <<>> ELSE Filtered(rest).out) # <<>>)
  OBVIOUS
<1>4. PICK tail :
        /\ ResponseChecked(full \o rest, opened, tail, ItemsAtEnd(more, opened, tail), valid)
        /\ thoughts' = thoughts + more
        /\ thoughtOpen' = (thoughtOpen \/ more > 0)
  BY <1>1, <1>3 DEF ResponseCloses
<1>5. (messageOpen => opened) /\ (request.structured => opened = messageOpen)
  BY <1>3 DEF ItemsInvariant
<1>6. PICK a : a = ItemsAtEnd(more, opened, tail)
  OBVIOUS
<1>7. Itemised(a) /\ Opens(a, FALSE, opened) /\ Keeps(items, a)
  BY <1>2, <1>5, <1>6, AtEnd DEF ItemsInvariant
<1>8. thoughts' \in Nat /\ thoughtOpen' \in BOOLEAN
  BY <1>2, <1>4 DEF ItemsInvariant
<1>9. PICK document :
        /\ document # <<>> => request.structured
        /\ \/ pc' = "failed" /\ items' = a /\ messageOpen' = opened
           \/ /\ pc' = "publishing" /\ messageOpen' = (opened \/ document # <<>>)
              /\ items' = IF document # <<>>
                            THEN Told(WithMessage(a), "message", Len(document)) ELSE a
  BY <1>4, <1>6 DEF ResponseChecked, Fail
<1>10. CASE pc' = "failed" /\ items' = a /\ messageOpen' = opened
  BY <1>7, <1>8, <1>10 DEF ItemsInvariant
<1>11. CASE pc' = "publishing" /\ items' = a /\ messageOpen' = opened
  BY <1>7, <1>8, <1>11 DEF ItemsInvariant
<1>12. CASE pc' = "publishing" /\ document # <<>> /\ messageOpen' = TRUE
            /\ items' = Told(WithMessage(a), "message", Len(document))
  <2>1. opened = messageOpen
    BY <1>5, <1>9, <1>12
  <2>2. Itemised(items') /\ Opens(items', FALSE, TRUE) /\ Keeps(a, items')
    BY <1>7, <1>12, <2>1, MessageTold DEF ItemsInvariant
  <2>3. Keeps(items, items')
    BY <1>7, <2>2, KeepsOn
  <2> QED BY <1>8, <1>12, <2>2, <2>3 DEF ItemsInvariant
<1> QED BY <1>9, <1>10, <1>11, <1>12

LEMMA PublishStep ==
  ASSUME ItemsInvariant, NEW i, ResponsePublish(i)
  PROVE  ItemsInvariant' /\ Keeps(items, items')
<1>1. pc = "publishing" /\ pc' = pc
  BY DEF ResponsePublish, Publish
<1>2. PICK a : a = Whole(items, "image")
  OBVIOUS
<1>3. Itemised(a) /\ Opens(a, FALSE, messageOpen) /\ Keeps(items, a)
  BY <1>1, <1>2, AtOnce DEF ItemsInvariant
<1>4. items' = Told(WithMessage(a), "message", Len(Link(i)))
  BY <1>2 DEF ResponsePublish
<1>5. Itemised(items') /\ Opens(items', FALSE, TRUE) /\ Keeps(a, items')
  BY <1>3, <1>4, MessageTold DEF ItemsInvariant
<1>6. Keeps(items, items')
  BY <1>3, <1>5, KeepsOn
<1> QED BY <1>1, <1>5, <1>6 DEF ResponsePublish, ItemsInvariant

LEMMA StoreStep ==
  ASSUME ItemsInvariant, ResponseStore
  PROVE  ItemsInvariant' /\ Keeps(items, items')
<1>1. pc = "publishing" /\ pc' = "stored" /\ UNCHANGED <<thoughts, thoughtOpen, messageOpen>>
  BY DEF ResponseStore, Store
<1>2. PICK a : a = IF messageOpen THEN Finished(items, "message") ELSE items
  OBVIOUS
<1>3. Itemised(a) /\ Opens(a, FALSE, FALSE) /\ Keeps(items, a)
  <2>1. CASE messageOpen
    <3>1. a = Finished(items, "message")
      BY <1>2, <2>1
    <3> QED BY <1>1, <2>1, <3>1, Closing DEF ItemsInvariant
  <2>2. CASE ~messageOpen
    <3>1. a = items /\ messageOpen = FALSE
      BY <1>2, <2>2 DEF ItemsInvariant
    <3> QED BY <1>1, <3>1, KeepsSelf DEF ItemsInvariant
  <2> QED BY <2>1, <2>2
<1>4. items' = IF TurnCalls THEN Whole(a, "call") ELSE a
  BY <1>2 DEF ResponseStore, EndItems
<1>5. Itemised(items') /\ Opens(items', FALSE, FALSE) /\ Keeps(a, items')
  <2>1. CASE TurnCalls
    <3>1. items' = Whole(a, "call")
      BY <1>4, <2>1
    <3> QED BY <1>3, <3>1, AtOnce
  <2>2. CASE ~TurnCalls
    BY <1>3, <1>4, <2>2, KeepsSelf
  <2> QED BY <2>1, <2>2
<1>6. Keeps(items, items')
  BY <1>3, <1>5, KeepsOn
<1> QED BY <1>1, <1>5, <1>6 DEF ItemsInvariant

LEMMA ItemsStep ==
  ASSUME ItemsInvariant, [ResponsesNext]_responsesVars
  PROVE  ItemsInvariant' /\ Keeps(items, items')
<1>1. CASE ThoughtChunk
  <2>1. pc = "streaming" /\ UNCHANGED <<pc, messageOpen>>
    BY <1>1 DEF ThoughtChunk, vars
  <2>2. Itemised(items') /\ Opens(items', TRUE, messageOpen) /\ Keeps(items, items')
    <3>1. items' = Told(WithThought(items), "reasoning", 1)
      BY <1>1 DEF ThoughtChunk
    <3> QED BY <2>1, <3>1, ThoughtTold DEF ItemsInvariant
  <2>3. /\ thoughts' \in Nat /\ thoughtOpen' = TRUE /\ messageOpen' \in BOOLEAN
        /\ pc' = "streaming"
    BY <1>1, <2>1 DEF ThoughtChunk, ItemsInvariant
  <2> QED BY <2>2, <2>1, <2>3 DEF ItemsInvariant
<1>2. CASE ResponseText
  <2>1. pc = "streaming" /\ TextItems /\ UNCHANGED <<pc, thoughts>>
    BY <1>2 DEF ResponseText
  <2> QED BY <2>1, TextStep
<1>3. CASE ResponseOver
  BY <1>3, OverStep
<1>4. CASE ResponseRefused
  BY <1>4, KeepsSelf DEF ResponseRefused, ItemsInvariant, itemVars
<1>5. CASE ResponseStore
  BY <1>5, StoreStep
<1>6. ASSUME NEW i \in Drawn, ResponsePublish(i)
      PROVE  ItemsInvariant' /\ Keeps(items, items')
  BY <1>6, PublishStep
<1>7. ASSUME \/ Breaks \/ Done \/ CallerLeaves
             \/ \E i \in Drawn : ImageChunk(i) \/ DownloadEnds(i),
             UNCHANGED itemVars
      PROVE  ItemsInvariant' /\ Keeps(items, items')
  <2>1. pc' \in {pc, "failed", "left"} \/ (pc = "stored" /\ pc' = "done")
    <3>1. (\E i \in Drawn : ImageChunk(i) \/ DownloadEnds(i)) => pc' = pc
      BY DEF ImageChunk, DownloadEnds
    <3>2. (Breaks => pc' = "failed") /\ (CallerLeaves => pc' = "left")
      BY DEF Breaks, Fail, CallerLeaves
    <3>3. Done => pc = "stored" /\ pc' = "done"
      BY DEF Done
    <3> QED BY <1>7, <3>1, <3>2, <3>3
  <2>2. UNCHANGED <<items, thoughts, thoughtOpen, messageOpen>>
    BY <1>7 DEF itemVars
  <2> QED BY <2>1, <2>2, KeepsSelf DEF ItemsInvariant
<1>8. CASE UNCHANGED responsesVars
  <2>1. UNCHANGED <<pc, items, thoughts, thoughtOpen, messageOpen>>
    BY <1>8 DEF responsesVars, vars, itemVars
  <2> QED BY <2>1, KeepsSelf DEF ItemsInvariant
<1> QED BY <1>1, <1>2, <1>3, <1>4, <1>5, <1>6, <1>7, <1>8 DEF ResponsesNext

LEMMA ItemsInit == ResponsesInit => ItemsInvariant
<1> SUFFICES ASSUME ResponsesInit PROVE ItemsInvariant
  OBVIOUS
<1>1. items = <<>> /\ DOMAIN items = {} /\ items \in Seq({})
  BY DEF ResponsesInit
<1> QED BY <1>1 DEF ResponsesInit, ItemsInvariant, Itemised, Opens

LEMMA DoneItemsAreClosed == ItemsInvariant => ItemsClosed
BY DEF ItemsInvariant, ItemsClosed, Opens

\* Whatever the order of reasoning, text, images and calls, and however the reply is
\* cut, every output item that was announced is done when the response is completed.
THEOREM ItemsAreClosed == ResponsesSpec => []ItemsClosed
<1>1. ItemsInvariant /\ [ResponsesNext]_responsesVars => ItemsInvariant'
  BY ItemsStep
<1> QED BY <1>1, ItemsInit, DoneItemsAreClosed, PTL DEF ResponsesSpec

\* An item that is done gets no event any more and an output_index is never given
\* away twice, also on the paths that end in an error.
THEOREM DoneItemsStay == ResponsesSpec => DoneIsFinal
<1>1. ItemsInvariant /\ [ResponsesNext]_responsesVars => ItemsInvariant'
  BY ItemsStep
<1>2. ItemsInvariant /\ [ResponsesNext]_responsesVars =>
        [\A i \in DOMAIN items :
           /\ i \in DOMAIN items' /\ items'[i].kind = items[i].kind
           /\ ~items[i].open => items'[i] = items[i]]_responsesVars
  BY ItemsStep DEF Keeps
<1> QED BY <1>1, <1>2, ItemsInit, PTL DEF ResponsesSpec, DoneIsFinal

-----------------------------------------------------------------------------
(* What the completed response lists.                                      *)

KindsOf(s) == {s[i].kind : i \in DOMAIN s}

\* Telling an item something or finishing it makes no new item.
LEMMA KindsStay ==
  ASSUME NEW s, Itemised(s), NEW kind, NEW n
  PROVE  /\ Itemised(Told(s, kind, n)) /\ KindsOf(Told(s, kind, n)) = KindsOf(s)
         /\ Itemised(Finished(s, kind)) /\ KindsOf(Finished(s, kind)) = KindsOf(s)
<1>1. PICK a : a = At(s, kind)
  OBVIOUS
<1>2. PICK t, f : t = Told(s, kind, n) /\ f = Finished(s, kind)
  OBVIOUS
<1>3. CASE a \notin DOMAIN s
  <2>1. \A e : [s EXCEPT ![a] = e] = s
    <3>1. PICK X : s \in Seq(X)
      BY DEF Itemised
    <3>2. s = [i \in DOMAIN s |-> s[i]]
      BY <3>1
    <3> QED BY <1>3, <3>2
  <2>2. t = s /\ f = s
    BY <1>1, <1>2, <2>1 DEF Told, Finished
  <2> QED BY <1>2, <2>2
<1>4. CASE a \in DOMAIN s
  <2>1. s[a] = [kind |-> s[a].kind, open |-> s[a].open, told |-> s[a].told]
    BY <1>4 DEF Itemised
  <2>2. [s[a] EXCEPT !.told = @ + n]
          = [kind |-> s[a].kind, open |-> s[a].open, told |-> s[a].told + n]
    BY <2>1
  <2>3. [s[a] EXCEPT !.open = FALSE] = [kind |-> s[a].kind, open |-> FALSE, told |-> s[a].told]
    BY <2>1, OpenSet, Zenon
  <2>4. /\ t = [s EXCEPT ![a] = [kind |-> s[a].kind, open |-> s[a].open, told |-> s[a].told + n]]
        /\ f = [s EXCEPT ![a] = [kind |-> s[a].kind, open |-> FALSE, told |-> s[a].told]]
    BY <1>1, <1>2, <2>2, <2>3 DEF Told, Finished
  <2>5. /\ Itemised(t) /\ DOMAIN t = DOMAIN s /\ \A i \in DOMAIN s : t[i].kind = s[i].kind
        /\ Itemised(f) /\ DOMAIN f = DOMAIN s /\ \A i \in DOMAIN s : f[i].kind = s[i].kind
    BY <1>4, <2>4, ItemReplaced
  <2>6. KindsOf(t) = KindsOf(s) /\ KindsOf(f) = KindsOf(s)
    BY <2>5 DEF KindsOf
  <2> QED BY <1>2, <2>5, <2>6
<1> QED BY <1>3, <1>4

LEMMA KindsGrow ==
  ASSUME NEW s, Itemised(s), NEW kind
  PROVE  Itemised(Added(s, kind)) /\ KindsOf(Added(s, kind)) = KindsOf(s) \cup {kind}
<1>1. PICK t : t = Added(s, kind)
  OBVIOUS
<1> OneMore(s, t, kind)
  BY <1>1, ItemAdded
<1>2. PICK n \in Nat : /\ Itemised(t) /\ DOMAIN s = 1 .. n /\ DOMAIN t = 1 .. n + 1
                       /\ \A i \in 1 .. n : t[i] = s[i]
                       /\ t[n + 1] = [kind |-> kind, open |-> TRUE, told |-> 0]
  BY DEF OneMore
<1>3. \A i \in DOMAIN t : (i \in DOMAIN s /\ t[i] = s[i]) \/ i = n + 1
  BY <1>2
<1>4. n + 1 \in DOMAIN t /\ t[n + 1].kind = kind /\ \A i \in DOMAIN s : i \in DOMAIN t /\ t[i] = s[i]
  BY <1>2
<1>5. KindsOf(t) = KindsOf(s) \cup {kind}
  BY <1>3, <1>4 DEF KindsOf
<1> QED BY <1>1, <1>2, <1>5

LEMMA KindsAtOnce ==
  ASSUME NEW s, Itemised(s), NEW kind
  PROVE  Itemised(Whole(s, kind)) /\ KindsOf(Whole(s, kind)) = KindsOf(s) \cup {kind}
BY KindsGrow, KindsStay DEF Whole

LEMMA KindsWithMessage ==
  ASSUME NEW s, Itemised(s), messageOpen => "message" \in KindsOf(s), NEW n,
         NEW t, t = Told(WithMessage(s), "message", n)
  PROVE  Itemised(t) /\ KindsOf(t) = KindsOf(s) \cup {"message"}
<1>1. Itemised(WithMessage(s)) /\ KindsOf(WithMessage(s)) = KindsOf(s) \cup {"message"}
  BY KindsGrow DEF WithMessage
<1> QED BY <1>1, KindsStay

LEMMA KindsWithThought ==
  ASSUME Itemised(items), thoughtOpen => "reasoning" \in KindsOf(items), NEW n,
         NEW t, t = Told(WithThought(items), "reasoning", n)
  PROVE  Itemised(t) /\ KindsOf(t) = KindsOf(items) \cup {"reasoning"}
<1>1. /\ Itemised(WithThought(items))
      /\ KindsOf(WithThought(items)) = KindsOf(items) \cup {"reasoning"}
  BY KindsGrow DEF WithThought
<1> QED BY <1>1, KindsStay

\* The kinds of output the parts of the turn have called for so far.
Due(calls) ==
  (IF thoughts > 0 THEN {"reasoning"} ELSE {}) \cup (IF messageOpen THEN {"message"} ELSE {})
    \cup (IF Published # {} THEN {"image"} ELSE {}) \cup (IF calls THEN {"call"} ELSE {})

\* Each of them has its item, no other kind has, and text is sent in a message only.
OutputInvariant ==
  /\ DOMAIN media = Images
  /\ pc \in {"streaming", "publishing", "stored", "done"} =>
       /\ Itemised(items) /\ (messageOpen \/ sent = <<>>)
       /\ KindsOf(items) = Due(pc \in {"stored", "done"} /\ TurnCalls)

LEMMA NothingAfter == <<>> \o <<>> = <<>>
  OBVIOUS

LEMMA OutputText ==
  ASSUME ItemsInvariant, OutputInvariant, ResponseText
  PROVE  OutputInvariant'
<1>1. /\ pc = "streaming" /\ TextItems /\ UNCHANGED <<request, pc, media, thoughts>>
      /\ request.structured => sent' = sent
  BY DEF ResponseText, Takes
<1>2. PICK a : a = ThoughtDone(items)
  OBVIOUS
<1>3. Itemised(a) /\ KindsOf(a) = KindsOf(items)
  BY <1>1, <1>2, KindsStay DEF ThoughtDone, OutputInvariant
<1>4. messageOpen => "message" \in KindsOf(a)
  BY <1>1, <1>3 DEF OutputInvariant, Due
<1>5. CASE request.structured
  <2>1. items' = a /\ messageOpen' = messageOpen /\ sent' = sent
    BY <1>1, <1>2, <1>5 DEF TextItems, ItemsInvariant
  <2> QED BY <1>1, <1>3, <2>1 DEF OutputInvariant, Due, Published
<1>6. CASE ~request.structured
  <2>1. PICK n : items' = Told(WithMessage(a), "message", n)
    BY <1>2, <1>6, <1>1 DEF TextItems
  <2>2. messageOpen' = TRUE
    BY <1>1, <1>6 DEF TextItems
  <2>3. Itemised(items') /\ KindsOf(items') = KindsOf(a) \cup {"message"}
    BY <1>3, <1>4, <2>1, KindsWithMessage
  <2> QED BY <1>1, <1>3, <2>2, <2>3 DEF OutputInvariant, Due, Published
<1> QED BY <1>5, <1>6

LEMMA EndKinds ==
  ASSUME Itemised(items), thoughtOpen => "reasoning" \in KindsOf(items),
         messageOpen => "message" \in KindsOf(items),
         NEW more \in Nat, NEW opened \in BOOLEAN, NEW tail,
         NEW t, t = ItemsAtEnd(more, opened, tail)
  PROVE  /\ Itemised(t)
         /\ KindsOf(t) = KindsOf(items) \cup (IF more > 0 THEN {"reasoning"} ELSE {})
                           \cup (IF opened THEN {"message"} ELSE {})
<1>1. PICK a : a = LastThoughts(more)
  OBVIOUS
<1>2. /\ Itemised(a)
      /\ KindsOf(a) = KindsOf(items) \cup (IF more > 0 THEN {"reasoning"} ELSE {})
  BY <1>1, KindsWithThought DEF LastThoughts
<1>3. PICK b : b = IF opened THEN Told(WithMessage(a), "message", Len(tail)) ELSE a
  OBVIOUS
<1>4. Itemised(b) /\ KindsOf(b) = KindsOf(a) \cup (IF opened THEN {"message"} ELSE {})
  BY <1>2, <1>3, KindsWithMessage
<1>5. t = b \/ t = Finished(b, "reasoning")
  BY <1>1, <1>3 DEF ItemsAtEnd
<1> QED BY <1>2, <1>4, <1>5, KindsStay

LEMMA OutputOver ==
  ASSUME ItemsInvariant, OutputInvariant, ResponseOver
  PROVE  OutputInvariant'
<1>1. PICK more \in 0 .. MaxThoughts - thoughts, valid \in BOOLEAN,
           rest \in {Drift(final) : final \in Showing(Spoken)} :
        ResponseCloses(full \o rest, Filtered(rest), more, valid)
  BY DEF ResponseOver
<1>2. pc = "streaming" /\ more \in Nat /\ thoughts \in Nat
  BY <1>1, ResponsesAssumption DEF ResponseOver, ItemsInvariant
<1>3. PICK visible : visible = IF request.structured THEN <<>> ELSE Filtered(rest).out
  OBVIOUS
<1>4. PICK opened \in BOOLEAN : opened = (messageOpen \/ visible # <<>>)
  OBVIOUS
<1>5. PICK tail :
        /\ tail = visible \o (IF opened THEN Flush(Filtered(rest)) ELSE <<>>)
        /\ ResponseChecked(full \o rest, opened, tail, ItemsAtEnd(more, opened, tail), valid)
        /\ thoughts' = thoughts + more
  BY <1>1, <1>3, <1>4 DEF ResponseCloses
<1>6. PICK a : a = ItemsAtEnd(more, opened, tail)
  OBVIOUS
<1>7. /\ thoughtOpen => "reasoning" \in KindsOf(items)
      /\ messageOpen => "message" \in KindsOf(items)
  BY <1>2 DEF ItemsInvariant, Opens, OutputInvariant, KindsOf
<1>8. /\ Itemised(a)
      /\ KindsOf(a) = KindsOf(items) \cup (IF more > 0 THEN {"reasoning"} ELSE {})
                        \cup (IF opened THEN {"message"} ELSE {})
  BY <1>2, <1>6, <1>7, EndKinds DEF OutputInvariant
<1>9. ~opened => sent \o tail = <<>>
  <2>1. ASSUME ~opened PROVE sent \o tail = <<>>
    <3>1. visible = <<>> /\ sent = <<>> /\ tail = <<>>
      BY <1>2, <1>4, <1>5, <2>1, NothingAfter DEF OutputInvariant
    <3> QED BY <3>1, NothingAfter
  <2> QED BY <2>1
<1>10. PICK document :
        \/ pc' = "failed" /\ media' = [i \in Images |-> IF media[i] = "running" THEN "cancelled" ELSE media[i]]
        \/ /\ pc' = "publishing" /\ messageOpen' = (opened \/ document # <<>>)
           /\ media' = media /\ sent' = sent \o tail \o document
           /\ items' = IF document # <<>>
                         THEN Told(WithMessage(a), "message", Len(document)) ELSE a
  BY <1>5, <1>6 DEF ResponseChecked, Fail
<1>11. CASE pc' = "failed" /\ DOMAIN media' = Images
  BY <1>11 DEF OutputInvariant
<1>12. CASE /\ pc' = "publishing" /\ messageOpen' = (opened \/ document # <<>>)
            /\ media' = media /\ sent' = sent \o tail \o document
            /\ items' = IF document # <<>>
                          THEN Told(WithMessage(a), "message", Len(document)) ELSE a
  <2>1. messageOpen => "message" \in KindsOf(a)
    BY <1>7, <1>8
  <2>2. /\ Itemised(items')
        /\ KindsOf(items') = KindsOf(a) \cup (IF document # <<>> THEN {"message"} ELSE {})
    BY <1>8, <1>12, <2>1, KindsWithMessage
  <2>3. messageOpen' \/ sent' = <<>>
    <3>1. CASE opened \/ document # <<>>
      BY <1>12, <3>1
    <3>2. CASE ~opened /\ document = <<>>
      BY <1>9, <1>12, <3>2, NothingAfter
    <3> QED BY <3>1, <3>2
  <2>4. (thoughts' > 0) <=> (thoughts > 0 \/ more > 0)
    BY <1>2, <1>5
  <2>5. messageOpen' <=> (messageOpen \/ opened \/ document # <<>>)
    BY <1>4, <1>12, Zenon
  <2>6. Published' = Published
    BY <1>12 DEF Published
  <2>7. KindsOf(items) = Due(FALSE)
    BY <1>2 DEF OutputInvariant
  <2>8. KindsOf(items') = Due(FALSE)'
    BY <1>8, <2>2, <2>4, <2>5, <2>6, <2>7 DEF Due
  <2>9. DOMAIN media' = Images
    BY <1>12 DEF OutputInvariant
  <2> QED BY <1>12, <2>2, <2>3, <2>8, <2>9 DEF OutputInvariant, Due
<1> QED BY <1>10, <1>11, <1>12

LEMMA OutputPublish ==
  ASSUME OutputInvariant, NEW i \in Drawn, ResponsePublish(i)
  PROVE  OutputInvariant'
<1>1. /\ pc = "publishing" /\ pc' = pc /\ UNCHANGED thoughts /\ messageOpen' = TRUE
      /\ media' = [media EXCEPT ![i] = "published"]
  BY DEF ResponsePublish, Publish
<1>2. PICK a : a = Whole(items, "image")
  OBVIOUS
<1>3. Itemised(a) /\ KindsOf(a) = KindsOf(items) \cup {"image"}
  BY <1>1, <1>2, KindsAtOnce DEF OutputInvariant
<1>4. items' = Told(WithMessage(a), "message", Len(Link(i)))
  BY <1>2 DEF ResponsePublish
<1>5. messageOpen => "message" \in KindsOf(a)
  BY <1>1, <1>3 DEF OutputInvariant, Due
<1>6. Itemised(items') /\ KindsOf(items') = KindsOf(a) \cup {"message"}
  BY <1>3, <1>4, <1>5, KindsWithMessage
<1>7. DOMAIN media' = Images /\ Published' # {}
  BY <1>1, ResponsesAssumption DEF OutputInvariant, Published
<1> QED BY <1>1, <1>3, <1>6, <1>7 DEF OutputInvariant, Due

LEMMA OutputStore ==
  ASSUME OutputInvariant, ResponseStore
  PROVE  OutputInvariant'
<1>1. /\ pc = "publishing" /\ pc' = "stored"
      /\ UNCHANGED <<thoughts, messageOpen, media, sent, full>>
  BY DEF ResponseStore, Store
<1>2. PICK a : a = IF messageOpen THEN Finished(items, "message") ELSE items
  OBVIOUS
<1>3. Itemised(a) /\ KindsOf(a) = KindsOf(items)
  BY <1>1, <1>2, KindsStay DEF OutputInvariant
<1>4. items' = IF TurnCalls THEN Whole(a, "call") ELSE a
  BY <1>2 DEF ResponseStore, EndItems
<1>5. Itemised(items') /\ KindsOf(items') = KindsOf(a) \cup (IF TurnCalls THEN {"call"} ELSE {})
  BY <1>3, <1>4, KindsAtOnce
<1>6. TurnCalls' = TurnCalls /\ Published' = Published
  BY <1>1 DEF TurnCalls, Published
<1> QED BY <1>1, <1>3, <1>5, <1>6 DEF OutputInvariant, Due

LEMMA OutputThought ==
  ASSUME ItemsInvariant, OutputInvariant, ThoughtChunk
  PROVE  OutputInvariant'
<1>1. /\ pc = "streaming" /\ UNCHANGED <<pc, media, sent, full, messageOpen>>
      /\ items' = Told(WithThought(items), "reasoning", 1)
      /\ thoughts' = thoughts + 1
  BY DEF ThoughtChunk, vars
<1>2. thoughtOpen => "reasoning" \in KindsOf(items)
  BY <1>1 DEF ItemsInvariant, Opens, KindsOf
<1>3. Itemised(items') /\ KindsOf(items') = KindsOf(items) \cup {"reasoning"}
  BY <1>1, <1>2, KindsWithThought DEF OutputInvariant
<1>4. thoughts' > 0
  BY <1>1 DEF ItemsInvariant
<1> QED BY <1>1, <1>3, <1>4 DEF OutputInvariant, Due, Published

LEMMA OutputStep ==
  ASSUME ItemsInvariant, OutputInvariant, [ResponsesNext]_responsesVars
  PROVE  OutputInvariant'
<1>1. CASE \/ UNCHANGED responsesVars
           \/ Done /\ UNCHANGED itemVars
  <2>1. UNCHANGED <<items, thoughts, messageOpen, full, media, sent>>
        /\ (pc' = pc \/ (pc = "stored" /\ pc' = "done"))
    BY <1>1 DEF Done, responsesVars, vars, itemVars
  <2>2. TurnCalls' = TurnCalls /\ Published' = Published
    BY <2>1 DEF TurnCalls, Published
  <2> QED BY <2>1, <2>2 DEF OutputInvariant, Due
<1>2. CASE Breaks \/ CallerLeaves
  <2>1. pc' \in {"failed", "left"} /\ DOMAIN media' = Images
    BY <1>2 DEF Breaks, Fail, CallerLeaves
  <2> QED BY <2>1 DEF OutputInvariant
<1>3. ASSUME NEW i \in Drawn, ImageChunk(i) \/ DownloadEnds(i), UNCHANGED itemVars
      PROVE  OutputInvariant'
  <2>1. /\ UNCHANGED <<pc, items, thoughts, messageOpen, full, sent>>
        /\ media[i] # "published"
        /\ \E v : v # "published" /\ media' = [media EXCEPT ![i] = v]
    BY <1>3 DEF ImageChunk, DownloadEnds, itemVars
  <2>2. DOMAIN media' = Images /\ Published' = Published /\ TurnCalls' = TurnCalls
    BY <2>1 DEF OutputInvariant, Published, TurnCalls
  <2> QED BY <2>1, <2>2 DEF OutputInvariant, Due
<1>4. CASE ResponseRefused
  BY <1>4 DEF ResponseRefused, OutputInvariant
<1> QED BY <1>1, <1>2, <1>3, <1>4, OutputThought, OutputText, OutputOver, OutputPublish, OutputStore
        DEF ResponsesNext

LEMMA OutputInit == ResponsesInit => OutputInvariant
<1> SUFFICES ASSUME ResponsesInit PROVE OutputInvariant
  OBVIOUS
<1>1. /\ items = <<>> /\ DOMAIN items = {} /\ items \in Seq({}) /\ sent = <<>> /\ pc = "streaming"
      /\ media = [i \in Images |-> "unseen"] /\ thoughts = 0 /\ messageOpen = FALSE
  BY DEF ResponsesInit
<1>2. Itemised(items) /\ KindsOf(items) = {} /\ Published = {}
  BY <1>1 DEF Itemised, KindsOf, Published
<1> QED BY <1>1, <1>2 DEF OutputInvariant, Due

LEMMA OutputListed == OutputInvariant => OutputAsStreamed
<1> SUFFICES ASSUME OutputInvariant, pc = "done" PROVE OutputAsStreamed
  BY DEF OutputAsStreamed
<1>1. KindsOf(items) = Due(TurnCalls) /\ (messageOpen \/ sent = <<>>)
  BY DEF OutputInvariant, Due
<1>2. Output = KindsOf(items) \/ (Output = KindsOf(items) \cup {"message"} /\ ~messageOpen)
  BY <1>1 DEF Output, Due
<1> QED BY <1>1, <1>2 DEF OutputAsStreamed, KindsOf

\* response.completed lists the kinds of output whose items were streamed, and no
\* other: reasoning, message, images and calls are counted once while streaming and
\* once more from the parts of the turn, and the two agree however the reply came.
THEOREM OutputIsAsStreamed == ResponsesSpec => []OutputAsStreamed
<1>1. ItemsInvariant /\ OutputInvariant /\ [ResponsesNext]_responsesVars
        => ItemsInvariant' /\ OutputInvariant'
  BY ItemsStep, OutputStep
<1> QED BY <1>1, ItemsInit, OutputInit, OutputListed, PTL DEF ResponsesSpec

-----------------------------------------------------------------------------
(* What the items are told.                                                *)

Counted(s) == Itemised(s) /\ \A i \in DOMAIN s : s[i].told \in Int

Weight(s, kind, n) == IF s[n].kind = kind THEN s[n].told ELSE 0

\* F counts what the first n items are told.
Sums(F, s, kind) ==
  /\ F \in [0 .. Len(s) -> Int] /\ F[0] = 0
  /\ \A n \in 1 .. Len(s) : F[n] = F[n - 1] + Weight(s, kind, n)

LEMMA Weighed ==
  ASSUME NEW s, Counted(s), NEW kind
  PROVE  /\ Len(s) \in Nat /\ DOMAIN s = 1 .. Len(s)
         /\ \A n \in 1 .. Len(s) : Weight(s, kind, n) \in Int
<1>1. PICK X : s \in Seq(X)
  BY DEF Counted, Itemised
<1>2. Len(s) \in Nat /\ DOMAIN s = 1 .. Len(s)
  BY <1>1
<1> QED BY <1>2 DEF Counted, Weight

\* The sum of the model is such a count.
LEMMA ToldIsSum ==
  ASSUME NEW s, Counted(s), NEW kind
  PROVE  \E F : Sums(F, s, kind) /\ ToldOf(s, kind) = F[Len(s)]
<1> DEFINE S == 0 .. Len(s)
           stop == [n \in S |-> n = 0]
           base == [n \in S |-> 0]
           next == [n \in S |-> n - 1]
           size == [n \in S |-> n]
           with(V) == [pair \in S \X V |-> IF pair[1] = 0 THEN 0
                                           ELSE pair[2] + Weight(s, kind, pair[1])]
           Adds(F) == F = [n \in S |-> IF n = 0 THEN 0
                                       ELSE F[n - 1] + (IF s[n].kind = kind THEN s[n].told ELSE 0)]
           Sum == CHOOSE F : Adds(F)
<1>0. Len(s) \in Nat /\ DOMAIN s = 1 .. Len(s) /\ \A n \in 1 .. Len(s) : Weight(s, kind, n) \in Int
  BY Weighed
<1>1. ASSUME NEW V, Int \subseteq V PROVE Terms(S, Int, stop, base, next, with(V), size)
  <2>1. \A n \in S, v \in V : with(V)[<<n, v>>] = IF n = 0 THEN 0 ELSE v + Weight(s, kind, n)
    OBVIOUS
  <2>2. \A n \in S, v \in Int : n # 0 => v + Weight(s, kind, n) \in Int
    BY <1>0
  <2>3. ASSUME NEW n \in S, NEW v \in Int PROVE with(V)[<<n, v>>] \in Int
    <3>1. with(V)[<<n, v>>] = IF n = 0 THEN 0 ELSE v + Weight(s, kind, n)
      BY <1>1, <2>1
    <3> HIDE DEF with
    <3>2. CASE n = 0
      BY <3>1, <3>2
    <3>3. CASE n # 0
      BY <2>2, <3>1, <3>3
    <3> QED BY <3>2, <3>3
  <2>4. /\ \A n \in S : size[n] \in Nat
        /\ \A n \in S : ~stop[n] => next[n] \in S /\ size[next[n]] < size[n]
        /\ \A n \in S : base[n] \in Int
    BY <1>0
  <2> HIDE DEF with, stop, base, next, size, S
  <2> QED BY <2>3, <2>4 DEF Terms
<1>2. ASSUME NEW V, NEW F, \A n \in S : F[n] \in V
      PROVE  \A n \in S : Term(F, n, stop, base, next, with(V))
                            = IF n = 0 THEN 0 ELSE F[n - 1] + Weight(s, kind, n)
  <2> SUFFICES ASSUME NEW n \in S
               PROVE  Term(F, n, stop, base, next, with(V))
                        = IF n = 0 THEN 0 ELSE F[n - 1] + Weight(s, kind, n)
    OBVIOUS
  <2>1. CASE n = 0
    BY <2>1 DEF Term
  <2>2. CASE n # 0
    <3>1. n - 1 \in S /\ next[n] = n - 1
      BY <1>0, <2>2
    <3>2. ~stop[n]
      BY <2>2, Zenon
    <3>3. with(V)[<<n, F[n - 1]>>] = F[n - 1] + Weight(s, kind, n)
      BY <1>2, <2>2, <3>1
    <3> QED BY <2>2, <3>1, <3>2, <3>3 DEF Term
  <2> QED BY <2>1, <2>2
<1> HIDE DEF with, stop, base, next, size
<1>3. \E F : Adds(F)
  <2>1. Terms(S, Int, stop, base, next, with(Int), size)
    BY <1>1
  <2>2. \E F : /\ F = [n \in S |-> Term(F, n, stop, base, next, with(Int))]
               /\ F \in [S -> Int]
    <3> HIDE DEF S
    <3> QED BY <2>1, RecursionEnds, RecursionTyped
  <2>3. PICK F : /\ F = [n \in S |-> Term(F, n, stop, base, next, with(Int))]
                 /\ F \in [S -> Int]
    BY <2>2
  <2>4. \A n \in S : F[n] = IF n = 0 THEN 0 ELSE F[n - 1] + Weight(s, kind, n)
    BY <1>2, <2>3
  <2>5. Adds(F)
    BY <2>3, <2>4 DEF Weight
  <2> QED BY <2>5
<1>4. Adds(Sum)
  BY <1>3
<1> HIDE DEF Sum
<1>5. Sum \in [S -> Int]
  <2> DEFINE V == Int \cup {Sum[n] : n \in S}
  <2>1. \A n \in S : Term(Sum, n, stop, base, next, with(V))
                       = IF n = 0 THEN 0 ELSE Sum[n - 1] + Weight(s, kind, n)
    BY <1>2
  <2>2. Sum = [n \in S |-> Term(Sum, n, stop, base, next, with(V))]
    BY <1>4, <2>1 DEF Weight
  <2>3. Terms(S, Int, stop, base, next, with(V), size)
    BY <1>1
  <2> HIDE DEF V, S
  <2> QED BY <2>2, <2>3, RecursionTyped
<1>6. ToldOf(s, kind) = Sum[Len(s)]
  BY Zenon DEF ToldOf, Sum
<1>7. Sums(Sum, s, kind)
  BY <1>0, <1>4, <1>5 DEF Sums, Weight
<1> QED BY <1>6, <1>7

\* Two counts that differ by c at some place and go on alike differ by c.
LEMMA SumsDiffer ==
  ASSUME NEW s, Counted(s), NEW t, Counted(t), NEW kind,
         NEW F, Sums(F, s, kind), NEW G, Sums(G, t, kind),
         NEW a \in Nat, NEW k \in Nat, a <= k, k <= Len(s), k <= Len(t),
         NEW c \in Int, G[a] = F[a] + c,
         \A i \in a + 1 .. k : Weight(t, kind, i) = Weight(s, kind, i)
  PROVE  G[k] = F[k] + c
<1> DEFINE bad == {i \in a .. k : G[i] # F[i] + c}
<1>0. Len(s) \in Nat /\ Len(t) \in Nat
  BY Weighed
<1>1. bad = {}
  <2> SUFFICES ASSUME bad # {} PROVE FALSE
    OBVIOUS
  <2>1. bad \in SUBSET Nat
    OBVIOUS
  <2>2. PICK i \in bad : \A j \in bad : i <= j
    BY <2>1, Least
  <2>3. i \in a + 1 .. k /\ i - 1 \in a .. k
    BY <2>2
  <2>4. i - 1 \notin bad
    BY <2>1, <2>2
  <2>5. G[i - 1] = F[i - 1] + c
    BY <2>3, <2>4
  <2>6. i \in 1 .. Len(s) /\ i \in 1 .. Len(t) /\ i - 1 \in 0 .. Len(s)
    BY <1>0, <2>3
  <2>7. F[i] = F[i - 1] + Weight(s, kind, i) /\ G[i] = G[i - 1] + Weight(s, kind, i)
    BY <2>3, <2>6 DEF Sums
  <2>8. F[i - 1] \in Int /\ Weight(s, kind, i) \in Int
    BY <2>6, Weighed DEF Sums
  <2>9. G[i] = F[i] + c
    BY <2>5, <2>7, <2>8
  <2> QED BY <2>2, <2>9
<1> QED BY <1>1

\* t is s but for the item at p.
ApartFrom(s, t, p) ==
  p \in DOMAIN s /\ DOMAIN t = DOMAIN s /\ \A i \in DOMAIN s : i # p => t[i] = s[i]

\* When one item is told c more of this kind, so are all of them together.
LEMMA OneToldMore ==
  ASSUME NEW s, Counted(s), NEW t, Counted(t), NEW kind, NEW p, ApartFrom(s, t, p),
         NEW c \in Int, Weight(t, kind, p) = Weight(s, kind, p) + c
  PROVE  ToldOf(t, kind) = ToldOf(s, kind) + c
<1>1. /\ Len(s) \in Nat /\ DOMAIN s = 1 .. Len(s) /\ Len(t) \in Nat /\ DOMAIN t = 1 .. Len(t)
      /\ \A n \in 1 .. Len(s) : Weight(s, kind, n) \in Int
  BY Weighed
<1>2. Len(t) = Len(s) /\ p \in 1 .. Len(s)
  BY <1>1 DEF ApartFrom
<1>3. PICK F : Sums(F, s, kind) /\ ToldOf(s, kind) = F[Len(s)]
  BY ToldIsSum
<1>4. PICK G : Sums(G, t, kind) /\ ToldOf(t, kind) = G[Len(t)]
  BY ToldIsSum
<1>5. \A i \in 1 .. Len(s) : i # p => Weight(t, kind, i) = Weight(s, kind, i)
  BY <1>1 DEF Weight, ApartFrom
<1>6. F[0] = 0 /\ G[0] = 0 /\ p - 1 \in Nat /\ p - 1 <= Len(s) /\ p - 1 <= Len(t)
  BY <1>1, <1>2, <1>3, <1>4 DEF Sums
<1>7. \A i \in 0 + 1 .. p - 1 : Weight(t, kind, i) = Weight(s, kind, i)
  BY <1>1, <1>2, <1>5
<1>8. G[p - 1] = F[p - 1] + 0
  <2>1. G[0] = F[0] + 0
    BY <1>6
  <2> QED BY <1>3, <1>4, <1>6, <1>7, <2>1, SumsDiffer
<1>9. F[p] = F[p - 1] + Weight(s, kind, p) /\ G[p] = G[p - 1] + Weight(t, kind, p)
  BY <1>2, <1>3, <1>4 DEF Sums
<1>10. F[p - 1] \in Int /\ Weight(s, kind, p) \in Int
  BY <1>1, <1>2, <1>3 DEF Sums
<1>11. G[p] = F[p] + c
  BY <1>8, <1>9, <1>10
<1>12. \A i \in p + 1 .. Len(s) : Weight(t, kind, i) = Weight(s, kind, i)
  BY <1>1, <1>2, <1>5
<1>13. p \in Nat /\ p <= Len(s) /\ Len(s) <= Len(t)
  BY <1>1, <1>2
<1>14. G[Len(s)] = F[Len(s)] + c
  BY <1>1, <1>3, <1>4, <1>11, <1>12, <1>13, SumsDiffer
<1> QED BY <1>2, <1>3, <1>4, <1>14

LEMMA ToldIsInt == ASSUME NEW s, Counted(s), NEW kind PROVE ToldOf(s, kind) \in Int
<1>1. PICK F : Sums(F, s, kind) /\ ToldOf(s, kind) = F[Len(s)]
  BY ToldIsSum
<1>2. Len(s) \in 0 .. Len(s)
  BY Weighed
<1> QED BY <1>1, <1>2 DEF Sums

\* An item that was only announced was told nothing.
LEMMA AddedTellsNothing ==
  ASSUME NEW s, Counted(s), NEW kind, NEW t, t = Added(s, kind)
  PROVE  Counted(t) /\ \A other : ToldOf(t, other) = ToldOf(s, other)
<1>1. OneMore(s, t, kind)
  BY ItemAdded DEF Counted
<1>2. PICK n \in Nat : /\ Itemised(t) /\ DOMAIN s = 1 .. n /\ DOMAIN t = 1 .. n + 1
                       /\ \A i \in 1 .. n : t[i] = s[i]
                       /\ t[n + 1] = [kind |-> kind, open |-> TRUE, told |-> 0]
  BY <1>1 DEF OneMore
<1>3. Counted(t)
  <2>1. \A i \in DOMAIN t : i \in 1 .. n \/ i = n + 1
    BY <1>2
  <2>2. t[n + 1].told = 0
    BY <1>2
  <2>3. \A i \in 1 .. n : t[i].told \in Int
    BY <1>2 DEF Counted
  <2> QED BY <1>2, <2>1, <2>2, <2>3 DEF Counted
<1>4. Len(s) = n /\ Len(t) = n + 1
  <2>1. Len(s) \in Nat /\ DOMAIN s = 1 .. Len(s) /\ Len(t) \in Nat /\ DOMAIN t = 1 .. Len(t)
    BY <1>3, Weighed
  <2> QED BY <1>2, <2>1
<1>5. ASSUME NEW other PROVE ToldOf(t, other) = ToldOf(s, other)
  <2>1. PICK F : Sums(F, s, other) /\ ToldOf(s, other) = F[n]
    BY <1>4, ToldIsSum
  <2>2. PICK G : Sums(G, t, other) /\ ToldOf(t, other) = G[n + 1]
    BY <1>3, <1>4, ToldIsSum
  <2>3. \A i \in 0 + 1 .. n : Weight(t, other, i) = Weight(s, other, i)
    BY <1>2 DEF Weight
  <2>4. F[0] = 0 /\ G[0] = 0 /\ F[n] \in Int
    BY <1>4, <2>1, <2>2 DEF Sums
  <2>5. G[n] = F[n] + 0
    BY <1>3, <1>4, <2>1, <2>2, <2>3, <2>4, SumsDiffer
  <2>6. G[n + 1] = G[n] + Weight(t, other, n + 1)
    <3>1. n + 1 \in 1 .. Len(t) /\ (n + 1) - 1 = n
      BY <1>4
    <3>2. G[n + 1] = G[(n + 1) - 1] + Weight(t, other, n + 1)
      BY <2>2, <3>1 DEF Sums
    <3> QED BY <3>1, <3>2
  <2>7. Weight(t, other, n + 1) = 0
    BY <1>2 DEF Weight
  <2> QED BY <2>1, <2>2, <2>4, <2>5, <2>6, <2>7
<1> QED BY <1>3, <1>5

\* The items of this kind are told c more, the others nothing.
More(s, t, kind, c) ==
  /\ Counted(t) /\ ToldOf(t, kind) = ToldOf(s, kind) + c
  /\ \A other : other # kind => ToldOf(t, other) = ToldOf(s, other)

\* One item of a sequence is rewritten, and keeps its kind.
LEMMA OneRewritten ==
  ASSUME NEW s, Counted(s), NEW p \in DOMAIN s, NEW kind, kind = s[p].kind, NEW open, NEW c \in Int,
         NEW t, t = [s EXCEPT ![p] = [kind |-> s[p].kind, open |-> open, told |-> s[p].told + c]]
  PROVE  More(s, t, kind, c)
<1>1. PICK e : e = [kind |-> s[p].kind, open |-> open, told |-> s[p].told + c]
  OBVIOUS
<1>2. Itemised(s) /\ s[p].told \in Int
  BY DEF Counted
<1>3. /\ Itemised(t) /\ DOMAIN t = DOMAIN s /\ t[p].kind = s[p].kind
      /\ \A i \in DOMAIN s : i # p => t[i] = s[i]
  BY <1>2, ItemReplaced
<1>4. t[p] = e
  BY <1>1
<1>5. t[p].told = s[p].told + c
  BY <1>1, <1>4
<1>6. Counted(t)
  <2>1. \A i \in DOMAIN s : t[i].told \in Int
    BY <1>2, <1>3, <1>5 DEF Counted
  <2> QED BY <1>3, <2>1 DEF Counted
<1>7. ApartFrom(s, t, p)
  BY <1>3 DEF ApartFrom
<1>8. Weight(t, kind, p) = Weight(s, kind, p) + c
  BY <1>3, <1>5 DEF Weight
<1>9. ToldOf(t, kind) = ToldOf(s, kind) + c
  BY <1>6, <1>7, <1>8, OneToldMore
<1>10. ASSUME NEW other, other # kind PROVE ToldOf(t, other) = ToldOf(s, other)
  <2>1. Weight(t, other, p) = Weight(s, other, p) + 0
    BY <1>3, <1>10 DEF Weight
  <2>2. ToldOf(t, other) = ToldOf(s, other) + 0
    BY <1>6, <1>7, <2>1, OneToldMore
  <2> QED BY <2>2, ToldIsInt
<1> QED BY <1>6, <1>9, <1>10 DEF More

LEMMA FinishedTellsNothing ==
  ASSUME NEW s, Counted(s), NEW kind, NEW t, t = Finished(s, kind)
  PROVE  Counted(t) /\ \A other : ToldOf(t, other) = ToldOf(s, other)
<1>1. PICK p : p = At(s, kind)
  OBVIOUS
<1>2. t = [s EXCEPT ![p] = [s[p] EXCEPT !.open = FALSE]]
  BY <1>1 DEF Finished
<1>3. CASE p \notin DOMAIN s
  <2>1. PICK X : s \in Seq(X)
    BY DEF Counted, Itemised
  <2>2. s = [i \in DOMAIN s |-> s[i]]
    BY <2>1
  <2>3. t = s
    BY <1>2, <1>3, <2>2
  <2> QED BY <2>3
<1>4. CASE p \in DOMAIN s
  <2>1. s[p] = [kind |-> s[p].kind, open |-> s[p].open, told |-> s[p].told] /\ s[p].told \in Int
    BY <1>4 DEF Counted, Itemised
  <2>2. [s[p] EXCEPT !.open = FALSE] = [kind |-> s[p].kind, open |-> FALSE, told |-> s[p].told]
    BY <2>1, OpenSet, Zenon
  <2>3. PICK c \in Int : c = 0
    OBVIOUS
  <2>5. PICK open : open = FALSE
    OBVIOUS
  <2>4. t = [s EXCEPT ![p] = [kind |-> s[p].kind, open |-> open, told |-> s[p].told + c]]
    <3>1. s[p].told = s[p].told + c
      BY <2>1, <2>3
    <3>2. t = [s EXCEPT ![p] = [kind |-> s[p].kind, open |-> open, told |-> s[p].told]]
      BY <1>2, <2>2, <2>5, Zenon
    <3> QED BY <3>1, <3>2, Zenon
  <2>6. PICK k : k = s[p].kind
    OBVIOUS
  <2>7. More(s, t, k, c)
    BY <1>4, <2>4, <2>6, OneRewritten
  <2>8. ToldOf(t, k) = ToldOf(s, k)
    BY <2>3, <2>7, ToldIsInt DEF More
  <2> QED BY <2>7, <2>8 DEF More
<1> QED BY <1>3, <1>4

LEMMA ToldMore ==
  ASSUME NEW s, Counted(s), NEW kind, kind \in KindsOf(s), NEW n \in Int,
         NEW t, t = Told(s, kind, n)
  PROVE  More(s, t, kind, n)
<1> DEFINE S == {i \in DOMAIN s : s[i].kind = kind}
<1>1. Len(s) \in Nat /\ DOMAIN s = 1 .. Len(s)
  BY Weighed
<1>2. S \in SUBSET (0 .. Len(s)) /\ S # {}
  BY <1>1 DEF KindsOf
<1>3. PICK p : p = At(s, kind)
  OBVIOUS
<1>4. p \in S
  <2>1. p = Latest(S)
    BY <1>3 DEF At
  <2> HIDE DEF S
  <2> QED BY <1>1, <1>2, <2>1, LatestIs
<1>5. p \in DOMAIN s /\ s[p].kind = kind
  BY <1>4
<1>6. s[p] = [kind |-> s[p].kind, open |-> s[p].open, told |-> s[p].told]
  BY <1>5 DEF Counted, Itemised
<1>7. [s[p] EXCEPT !.told = @ + n] = [kind |-> s[p].kind, open |-> s[p].open, told |-> s[p].told + n]
  BY <1>6
<1>8. t = [s EXCEPT ![p] = [kind |-> s[p].kind, open |-> s[p].open, told |-> s[p].told + n]]
  BY <1>3, <1>7 DEF Told
<1> QED BY <1>5, <1>8, OneRewritten

LEMMA WholeTellsNothing ==
  ASSUME NEW s, Counted(s), NEW kind, NEW t, t = Whole(s, kind)
  PROVE  Counted(t) /\ \A other : ToldOf(t, other) = ToldOf(s, other)
BY AddedTellsNothing, FinishedTellsNothing DEF Whole

LEMMA ToldMessage ==
  ASSUME NEW s, Counted(s), messageOpen => "message" \in KindsOf(s), NEW n \in Int,
         NEW t, t = Told(WithMessage(s), "message", n)
  PROVE  /\ Counted(t) /\ ToldOf(t, "message") = ToldOf(s, "message") + n
         /\ ToldOf(t, "reasoning") = ToldOf(s, "reasoning")
<1>1. PICK w : w = WithMessage(s)
  OBVIOUS
<1>2. /\ Counted(w) /\ "message" \in KindsOf(w)
      /\ \A other : ToldOf(w, other) = ToldOf(s, other)
  BY <1>1, AddedTellsNothing, KindsGrow DEF WithMessage, Counted
<1>3. t = Told(w, "message", n)
  BY <1>1
<1> QED BY <1>2, <1>3, ToldMore DEF More

LEMMA ToldThought ==
  ASSUME NEW s, Counted(s), s = items, thoughtOpen => "reasoning" \in KindsOf(s), NEW n \in Int,
         NEW t, t = Told(WithThought(s), "reasoning", n)
  PROVE  /\ Counted(t) /\ ToldOf(t, "reasoning") = ToldOf(s, "reasoning") + n
         /\ ToldOf(t, "message") = ToldOf(s, "message")
<1>1. PICK w : w = WithThought(s)
  OBVIOUS
<1>2. /\ Counted(w) /\ "reasoning" \in KindsOf(w)
      /\ \A other : ToldOf(w, other) = ToldOf(s, other)
  BY <1>1, AddedTellsNothing, KindsGrow DEF WithThought, Counted
<1>3. t = Told(w, "reasoning", n)
  BY <1>1
<1> QED BY <1>2, <1>3, ToldMore DEF More

\* The stream is typed, and the items were told all that was sent.
ToldInvariant == StreamTypes /\ Counted(items) /\ AllTold

\* The message holds what is sent, as soon as there is any of it.
LEMMA MessageIsThere ==
  ASSUME ItemsInvariant, OutputInvariant, pc \in {"streaming", "publishing"}
  PROVE  /\ messageOpen => "message" \in KindsOf(items)
         /\ pc = "streaming" /\ thoughtOpen => "reasoning" \in KindsOf(items)
         /\ thoughts \in Nat /\ thoughtOpen \in BOOLEAN /\ messageOpen \in BOOLEAN
         /\ messageOpen \/ sent = <<>>
BY DEF ItemsInvariant, Opens, OutputInvariant, KindsOf, Due

LEMMA ToldOnThought ==
  ASSUME ItemsInvariant, OutputInvariant, ToldInvariant, ThoughtChunk
  PROVE  ToldInvariant'
<1>1. /\ pc = "streaming" /\ UNCHANGED vars
      /\ items' = Told(WithThought(items), "reasoning", 1)
      /\ thoughts' = thoughts + 1
  BY DEF ThoughtChunk
<1>2. StreamTypes'
  BY <1>1 DEF ToldInvariant, StreamTypes, vars
<1>3. 1 \in Int /\ Counted(items) /\ (thoughtOpen => "reasoning" \in KindsOf(items))
  BY <1>1, MessageIsThere DEF ToldInvariant
<1>4. /\ Counted(items') /\ ToldOf(items', "reasoning") = ToldOf(items, "reasoning") + 1
      /\ ToldOf(items', "message") = ToldOf(items, "message")
  BY <1>1, <1>3, ToldThought
<1>5. sent' = sent
  BY <1>1 DEF vars
<1> QED BY <1>1, <1>2, <1>4, <1>5 DEF ToldInvariant, AllTold

LEMMA ToldOnText ==
  ASSUME ItemsInvariant, OutputInvariant, ToldInvariant, ResponseText
  PROVE  ToldInvariant'
<1>1. /\ pc = "streaming" /\ TextItems /\ UNCHANGED thoughts
  BY DEF ResponseText
<1>2. PICK delta \in Arriving(Spoken) : Takes(delta)
  BY DEF ResponseText
<1>3. delta \in Texts
  BY ArrivingIsText, ResponsesAssumption DEF ToldInvariant, StreamTypes
<1>4. /\ StreamTypes'
      /\ Len(sent') - Len(sent) \in Int /\ Len(sent) \in Nat /\ Len(sent') \in Nat
  BY <1>2, <1>3, TakesTyped DEF ToldInvariant
<1>5. PICK closed : closed = ThoughtDone(items)
  OBVIOUS
<1>6. /\ Counted(closed) /\ \A kind : ToldOf(closed, kind) = ToldOf(items, kind)
      /\ messageOpen => "message" \in KindsOf(closed)
  <2>1. Counted(items) /\ Itemised(items)
    BY DEF ToldInvariant, Counted
  <2>2. /\ Counted(Finished(items, "reasoning"))
        /\ \A kind : ToldOf(Finished(items, "reasoning"), kind) = ToldOf(items, kind)
        /\ KindsOf(Finished(items, "reasoning")) = KindsOf(items)
    BY <2>1, FinishedTellsNothing, KindsStay
  <2> QED BY <1>1, <1>5, <2>1, <2>2, MessageIsThere DEF ThoughtDone
<1>7. CASE request.structured
  <2>1. items' = closed /\ sent' = sent
    BY <1>2, <1>5, <1>7, <1>1 DEF Takes, TextItems
  <2> QED BY <1>1, <1>4, <1>6, <2>1 DEF ToldInvariant, AllTold
<1>8. CASE ~request.structured
  <2>1. PICK n \in Int : n = Len(sent') - Len(sent)
    BY <1>4
  <2>2. items' = Told(WithMessage(closed), "message", n)
    BY <1>1, <1>5, <1>8, <2>1 DEF TextItems
  <2>3. /\ Counted(items') /\ ToldOf(items', "message") = ToldOf(closed, "message") + n
        /\ ToldOf(items', "reasoning") = ToldOf(closed, "reasoning")
    BY <1>6, <2>2, ToldMessage
  <2>4. ToldOf(items', "message") = Len(sent') /\ ToldOf(items', "reasoning") = thoughts'
    BY <1>1, <1>4, <1>6, <2>1, <2>3 DEF ToldInvariant, AllTold
  <2> QED BY <1>4, <2>3, <2>4 DEF ToldInvariant, AllTold
<1> QED BY <1>7, <1>8

LEMMA ToldAtEnd ==
  ASSUME Counted(items), thoughtOpen => "reasoning" \in KindsOf(items),
         messageOpen => "message" \in KindsOf(items),
         NEW more \in Nat, NEW opened \in BOOLEAN, NEW tail \in Texts, ~opened => tail = <<>>,
         NEW t, t = ItemsAtEnd(more, opened, tail)
  PROVE  /\ Counted(t) /\ ToldOf(t, "reasoning") = ToldOf(items, "reasoning") + more
         /\ ToldOf(t, "message") = ToldOf(items, "message") + Len(tail)
<1>1. PICK a : a = LastThoughts(more)
  OBVIOUS
<1>2. /\ Counted(a) /\ ToldOf(a, "reasoning") = ToldOf(items, "reasoning") + more
      /\ ToldOf(a, "message") = ToldOf(items, "message")
      /\ messageOpen => "message" \in KindsOf(a)
  <2>1. CASE more = 0
    BY <1>1, <2>1, ToldIsInt DEF LastThoughts
  <2>2. CASE more # 0
    <3>1. a = Told(WithThought(items), "reasoning", more)
      BY <1>1, <2>2 DEF LastThoughts
    <3>2. KindsOf(a) = KindsOf(items) \cup {"reasoning"}
      BY <3>1, KindsWithThought DEF Counted
    <3> QED BY <3>1, <3>2, ToldThought
  <2> QED BY <2>1, <2>2
<1>3. PICK b : b = IF opened THEN Told(WithMessage(a), "message", Len(tail)) ELSE a
  OBVIOUS
<1>4. Len(tail) \in Int /\ (~opened => Len(tail) = 0)
  BY Empty DEF Texts
<1>5. /\ Counted(b) /\ ToldOf(b, "message") = ToldOf(a, "message") + Len(tail)
      /\ ToldOf(b, "reasoning") = ToldOf(a, "reasoning")
  <2>1. CASE opened
    BY <1>2, <1>3, <1>4, <2>1, ToldMessage
  <2>2. CASE ~opened
    BY <1>2, <1>3, <1>4, <2>2, ToldIsInt
  <2> QED BY <2>1, <2>2
<1>6. t = b \/ t = Finished(b, "reasoning")
  BY <1>1, <1>3 DEF ItemsAtEnd
<1>7. /\ Counted(t) /\ ToldOf(t, "message") = ToldOf(b, "message")
      /\ ToldOf(t, "reasoning") = ToldOf(b, "reasoning")
  BY <1>5, <1>6, FinishedTellsNothing
<1> QED BY <1>2, <1>5, <1>7

LEMMA ToldOnOver ==
  ASSUME ItemsInvariant, OutputInvariant, ToldInvariant, ResponseOver
  PROVE  ToldInvariant'
<1>1. PICK final \in Showing(Spoken), more \in 0 .. MaxThoughts - thoughts, valid \in BOOLEAN :
        ResponseCloses(full \o Drift(final), Filtered(Drift(final)), more, valid)
  BY DEF ResponseOver
<1>2. PICK rest \in Texts : rest = Drift(final)
  BY <1>1, ArrivingIsText, ResponsesAssumption DEF ToldInvariant, StreamTypes
<1>3. PICK text \in Texts : text = full \o rest
  BY TwoTexts DEF ToldInvariant, StreamTypes
<1>4. pc = "streaming" /\ more \in Nat /\ thoughts \in Nat /\ messageOpen \in BOOLEAN
  BY <1>1, ResponsesAssumption DEF ResponseOver, ItemsInvariant
<1>5. PICK last \in Filters : last = Filtered(rest)
  BY FilteredTyped DEF ToldInvariant, StreamTypes
<1>6. PICK visible \in Texts : visible = IF request.structured THEN <<>> ELSE last.out
  <2>1. last.out \in Texts
    BY FilterParts
  <2> QED BY <2>1, Empty
<1>7. PICK opened \in BOOLEAN : opened = (messageOpen \/ visible # <<>>)
  OBVIOUS
<1>8. PICK held \in Texts : held = IF opened THEN Flush(last) ELSE <<>>
  BY Flushed, Empty
<1>9. PICK tail \in Texts : tail = visible \o held
  BY TwoTexts
<1>10. PICK a : a = ItemsAtEnd(more, opened, tail)
  OBVIOUS
<1>11. /\ full' = text /\ filter' = NewFilter /\ thoughts' = thoughts + more
       /\ ResponseChecked(text, opened, tail, a, valid)
  BY <1>1, <1>2, <1>3, <1>5, <1>6, <1>7, <1>8, <1>9, <1>10 DEF ResponseCloses
<1>12. ~opened => tail = <<>>
  <2>1. ASSUME ~opened PROVE tail = <<>>
    <3>1. visible = <<>> /\ held = <<>>
      BY <1>7, <1>8, <2>1
    <3> QED BY <1>9, <3>1, NothingAfter
  <2> QED BY <2>1
<1>13. /\ Counted(items) /\ (messageOpen => "message" \in KindsOf(items))
       /\ (thoughtOpen => "reasoning" \in KindsOf(items))
  BY <1>4, MessageIsThere DEF ToldInvariant
<1>14. /\ Counted(a) /\ ToldOf(a, "reasoning") = thoughts'
       /\ ToldOf(a, "message") = Len(sent) + Len(tail)
  <2>1. /\ Counted(a) /\ ToldOf(a, "reasoning") = ToldOf(items, "reasoning") + more
        /\ ToldOf(a, "message") = ToldOf(items, "message") + Len(tail)
    BY <1>4, <1>10, <1>12, <1>13, ToldAtEnd
  <2> QED BY <1>11, <2>1 DEF ToldInvariant, AllTold
<1>15. /\ sent \o tail \in Seq(SentPieces)
       /\ Len(sent \o tail) = Len(sent) + Len(tail)
  <2>1. sent \in Seq(SentPieces) /\ tail \in Seq(SentPieces)
    BY SentTyped DEF ToldInvariant, StreamTypes
  <2> QED BY <2>1, SentMore
<1>16. PICK document : document = IF request.structured THEN LStrip(Visible(text)) ELSE <<>>
  OBVIOUS
<1>17. document \in Texts
  BY <1>16, DocumentIsText
<1>18. \/ sent' = sent \o tail /\ items' = a
       \/ /\ sent' = sent \o tail \o document
          /\ items' = IF document # <<>>
                        THEN Told(WithMessage(a), "message", Len(document)) ELSE a
  BY <1>11, <1>16 DEF ResponseChecked
<1>19. CASE sent' = sent \o tail /\ items' = a
  BY <1>11, <1>14, <1>15, <1>19, NewIsFilter DEF ToldInvariant, StreamTypes, AllTold
<1>20. CASE /\ sent' = sent \o tail \o document
            /\ items' = IF document # <<>>
                          THEN Told(WithMessage(a), "message", Len(document)) ELSE a
  <2>1. PICK s : s = sent \o tail
    OBVIOUS
  <2>2. /\ s \o document \in Seq(SentPieces)
        /\ Len(s \o document) = Len(s) + Len(document)
        /\ Len(s) \in Nat /\ Len(document) \in Nat
    <3>1. s \in Seq(SentPieces) /\ document \in Seq(SentPieces)
      BY <1>15, <1>17, <2>1, SentTyped
    <3> QED BY <3>1, SentMore
  <2>3. sent' = s \o document
    BY <1>20, <2>1
  <2>4. Len(document) \in Int /\ (document = <<>> => Len(document) = 0)
    BY <2>2, Empty
  <2>5. messageOpen => "message" \in KindsOf(a)
    BY <1>4, <1>10, <1>13, EndKinds DEF Counted
  <2>6. /\ Counted(items') /\ ToldOf(items', "message") = ToldOf(a, "message") + Len(document)
        /\ ToldOf(items', "reasoning") = ToldOf(a, "reasoning")
    <3>1. CASE document # <<>>
      BY <1>14, <1>20, <2>4, <2>5, <3>1, ToldMessage
    <3>2. CASE document = <<>>
      <4>1. items' = a
        BY <1>20, <3>2
      <4> QED BY <1>14, <2>4, <3>2, <4>1, ToldIsInt
    <3> QED BY <3>1, <3>2
  <2>7. ToldOf(items', "message") = Len(sent') /\ ToldOf(items', "reasoning") = thoughts'
    BY <1>14, <1>15, <2>1, <2>2, <2>3, <2>6
  <2>8. StreamTypes'
    BY <1>11, <2>2, <2>3, NewIsFilter DEF StreamTypes
  <2> QED BY <2>6, <2>7, <2>8 DEF ToldInvariant, AllTold
<1> QED BY <1>18, <1>19, <1>20

LEMMA ToldOnPublish ==
  ASSUME ItemsInvariant, OutputInvariant, ToldInvariant, NEW i \in Drawn, ResponsePublish(i)
  PROVE  ToldInvariant'
<1>1. /\ pc = "publishing" /\ sent' = sent \o Link(i) /\ UNCHANGED <<full, filter, thoughts>>
  BY DEF ResponsePublish, Publish
<1>2. PICK a : a = Whole(items, "image")
  OBVIOUS
<1>3. /\ Counted(a) /\ \A kind : ToldOf(a, kind) = ToldOf(items, kind)
      /\ messageOpen => "message" \in KindsOf(a)
  <2>1. Counted(items) /\ Itemised(items)
    BY DEF ToldInvariant, Counted
  <2>2. KindsOf(a) = KindsOf(items) \cup {"image"}
    BY <1>2, <2>1, KindsAtOnce
  <2> QED BY <1>1, <1>2, <2>1, <2>2, WholeTellsNothing, MessageIsThere
<1>4. PICK link : link = Link(i)
  OBVIOUS
<1>5. link \in Seq(SentPieces)
  BY <1>4, SentTyped, ResponsesAssumption
<1>6. /\ sent' \in Seq(SentPieces)
      /\ Len(sent') = Len(sent) + Len(link) /\ Len(sent) \in Nat /\ Len(link) \in Nat
  <2>1. sent \in Seq(SentPieces)
    BY DEF ToldInvariant, StreamTypes
  <2> QED BY <1>1, <1>4, <1>5, <2>1, SentMore
<1>7. items' = Told(WithMessage(a), "message", Len(link))
  BY <1>2, <1>4 DEF ResponsePublish
<1>8. Len(link) \in Int
  BY <1>6
<1>9. /\ Counted(items') /\ ToldOf(items', "message") = ToldOf(a, "message") + Len(link)
      /\ ToldOf(items', "reasoning") = ToldOf(a, "reasoning")
  BY <1>3, <1>7, <1>8, ToldMessage
<1>10. ToldOf(items', "message") = Len(sent') /\ ToldOf(items', "reasoning") = thoughts'
  BY <1>1, <1>3, <1>6, <1>9 DEF ToldInvariant, AllTold
<1> QED BY <1>1, <1>6, <1>9, <1>10 DEF ToldInvariant, StreamTypes, AllTold

LEMMA ToldOnStore ==
  ASSUME ToldInvariant, ResponseStore
  PROVE  ToldInvariant'
<1>1. UNCHANGED <<full, filter, sent, thoughts>> /\ items' = EndItems
  BY DEF ResponseStore, Store
<1>2. PICK a : a = IF messageOpen THEN Finished(items, "message") ELSE items
  OBVIOUS
<1>3. Counted(a) /\ \A kind : ToldOf(a, kind) = ToldOf(items, kind)
  BY <1>2, FinishedTellsNothing DEF ToldInvariant
<1>4. items' = a \/ items' = Whole(a, "call")
  BY <1>1, <1>2 DEF EndItems
<1>5. Counted(items') /\ \A kind : ToldOf(items', kind) = ToldOf(a, kind)
  BY <1>3, <1>4, WholeTellsNothing
<1> QED BY <1>1, <1>3, <1>5 DEF ToldInvariant, StreamTypes, AllTold

LEMMA ToldStep ==
  ASSUME ItemsInvariant, OutputInvariant, ToldInvariant, [ResponsesNext]_responsesVars
  PROVE  ToldInvariant'
<1>1. CASE UNCHANGED <<full, filter, sent, items, thoughts>>
  BY <1>1 DEF ToldInvariant, StreamTypes, AllTold
<1>2. \/ ThoughtChunk \/ ResponseText \/ ResponseOver \/ ResponseStore
      \/ \E i \in Drawn : ResponsePublish(i)
      \/ UNCHANGED <<full, filter, sent, items, thoughts>>
  BY DEF ResponsesNext, ResponseRefused, Breaks, Fail, Done, CallerLeaves, ImageChunk, DownloadEnds,
         responsesVars, vars, itemVars
<1> QED BY <1>1, <1>2, ToldOnThought, ToldOnText, ToldOnOver, ToldOnPublish, ToldOnStore

LEMMA ToldInit == ResponsesInit => ToldInvariant
<1> SUFFICES ASSUME ResponsesInit PROVE ToldInvariant
  OBVIOUS
<1>1. full = <<>> /\ filter = NewFilter /\ sent = <<>> /\ items = <<>> /\ thoughts = 0
  BY DEF ResponsesInit
<1>2. /\ items \in Seq({}) /\ DOMAIN items = {} /\ Len(items) = 0 /\ Len(sent) = 0
  BY <1>1
<1>3. Counted(items)
  BY <1>2 DEF Counted, Itemised
<1>4. ASSUME NEW kind PROVE ToldOf(items, kind) = 0
  <2>1. PICK F : Sums(F, items, kind) /\ ToldOf(items, kind) = F[Len(items)]
    BY <1>3, ToldIsSum
  <2> QED BY <1>2, <2>1 DEF Sums
<1>5. StreamTypes
  BY <1>1, Empty, NewIsFilter, SentTyped DEF StreamTypes
<1> QED BY <1>1, <1>2, <1>3, <1>4, <1>5 DEF ToldInvariant, AllTold

\* Whatever the reply, its thoughts, its images and the places where it is cut or
\* swapped, the reasoning items are told every piece of reasoning and the message
\* items every piece of text that is sent, no more and no less: what the filter
\* withheld is told when it is flushed, and so are links and validated documents.
THEOREM EverythingIsTold == ResponsesSpec => [](StreamTypes /\ AllTold)
<1> DEFINE Inv == ItemsInvariant /\ OutputInvariant /\ ToldInvariant
<1>1. ResponsesInit => Inv
  BY ItemsInit, OutputInit, ToldInit
<1>2. Inv /\ [ResponsesNext]_responsesVars => Inv'
  BY ItemsStep, OutputStep, ToldStep
<1>3. Inv => StreamTypes /\ AllTold
  BY DEF ToldInvariant
<1> QED BY <1>1, <1>2, <1>3, PTL DEF ResponsesSpec

-----------------------------------------------------------------------------
(* A response is streamed as in one chunk, and found again.                *)

\* A document that is withheld has no message yet.
Withheld == pc = "streaming" /\ request.structured => ~messageOpen

LEMMA WithheldStep ==
  ASSUME Withheld, ItemsInvariant, [ResponsesNext]_responsesVars
  PROVE  Withheld'
<1>1. CASE ResponseText
  <2>1. pc = "streaming" /\ request' = request /\ messageOpen' = (messageOpen \/ ~request.structured)
    BY <1>1 DEF ResponseText, TextItems
  <2> QED BY <2>1 DEF Withheld
<1>2. CASE ResponseOver
  <2>1. pc' # "streaming"
    BY <1>2, ResponseEnds DEF Fail
  <2> QED BY <2>1 DEF Withheld
<1>3. CASE pc' # "streaming" \/ UNCHANGED <<request, pc, messageOpen>>
  BY <1>3 DEF Withheld
<1>4. \/ ResponseText \/ ResponseOver
      \/ pc' # "streaming" \/ UNCHANGED <<request, pc, messageOpen>>
  BY DEF ResponsesNext, ThoughtChunk, ResponseRefused, ResponseStore, Store, ResponsePublish, Publish,
         Breaks, Fail, Done, CallerLeaves, ImageChunk, DownloadEnds, responsesVars, vars, itemVars
<1> QED BY <1>1, <1>2, <1>3, <1>4

\* A step that is neither of these is one of a chat stream, as far as text goes.
LEMMA OtherSteps ==
  ASSUME [ResponsesNext]_responsesVars
  PROVE  \/ ResponseText \/ ResponseOver \/ ResponseRefused \/ [Next]_vars
<1>1. ASSUME NEW i \in Drawn, ResponsePublish(i) \/ ImageChunk(i) \/ DownloadEnds(i) PROVE Next
  BY <1>1, ResponsesAssumption DEF ResponsePublish, Next
<1>2. CASE ResponseStore \/ Breaks \/ Done \/ CallerLeaves
  BY <1>2 DEF ResponseStore, Next
<1>3. CASE ThoughtChunk \/ UNCHANGED responsesVars
  BY <1>3 DEF ThoughtChunk, responsesVars
<1> QED BY <1>1, <1>2, <1>3 DEF ResponsesNext

LEMMA ResponseFollows ==
  ASSUME StreamTypes, Follows, [ResponsesNext]_responsesVars
  PROVE  Follows'
<1>1. CASE ResponseText
  <2>1. PICK delta \in Arriving(Spoken) : Takes(delta)
    BY <1>1 DEF ResponseText
  <2>2. delta \in Texts
    BY <2>1, ArrivingIsText, ResponsesAssumption DEF StreamTypes
  <2> QED BY <1>1, <2>1, <2>2, TakesFollow DEF ResponseText
<1>2. CASE ResponseOver \/ ResponseRefused
  <2>1. pc' # "streaming"
    BY <1>2, ResponseEnds DEF ResponseRefused, Fail
  <2> QED BY <2>1 DEF Follows
<1> QED BY <1>1, <1>2, OtherSteps, StepFollows

\* What has been sent once the reply is over, before any link: all of it, or nothing
\* when nothing had opened a message.
LEMMA ResponseSends ==
  ASSUME StreamTypes, Follows, Withheld, messageOpen \/ sent = <<>>, messageOpen \in BOOLEAN,
         ResponseOver, Divisible(full')
  PROVE  /\ full' \in Texts /\ request' = request
         /\ ~request.structured =>
              sent' = Streamed(full') \/ (sent' = <<>> /\ Given(full') = <<>>)
         /\ request.structured /\ pc' = "publishing" => sent' = LStrip(Visible(full'))
<1>1. PICK final \in Showing(Spoken), more \in 0 .. MaxThoughts - thoughts, valid \in BOOLEAN :
        ResponseCloses(full \o Drift(final), Filtered(Drift(final)), more, valid)
  BY DEF ResponseOver
<1>2. PICK rest \in Texts : rest = Drift(final)
  BY <1>1, ArrivingIsText, ResponsesAssumption DEF StreamTypes
<1>3. PICK z \in Texts : z = full \o rest
  BY TwoTexts DEF StreamTypes
<1>4. PICK last \in Filters : last = Filtered(rest)
  BY FilteredTyped DEF StreamTypes
<1>5. PICK visible : visible = IF request.structured THEN <<>> ELSE last.out
  OBVIOUS
<1>6. PICK opened \in BOOLEAN : opened = (messageOpen \/ visible # <<>>)
  OBVIOUS
<1>7. PICK tail : tail = visible \o (IF opened THEN Flush(last) ELSE <<>>)
  OBVIOUS
<1>8. PICK document : document = IF request.structured THEN LStrip(Visible(z)) ELSE <<>>
  OBVIOUS
<1>9. full' = z /\ \E closed : ResponseChecked(z, opened, tail, closed, valid)
  BY <1>1, <1>2, <1>3, <1>4, <1>5, <1>6, <1>7 DEF ResponseCloses
<1>10. /\ pc = "streaming" /\ request' = request
       /\ \/ sent' = sent \o tail /\ pc' = "failed"
          \/ sent' = sent \o tail \o document
  BY <1>8, <1>9 DEF ResponseChecked, Fail, ResponseOver
<1>11. PICK e \in Texts : e = <<>>
  BY Empty
<1>12. CASE ~request.structured
  <2>1. PICK o \in Texts, h \in Texts, s \in Texts :
          /\ o = last.out /\ h = Flush(last) /\ s = sent
          /\ s \o o = Given(z) /\ (s \o o) \o h = Streamed(z)
    <3>1. sent \in Texts
      BY SentIsText DEF StreamTypes
    <3>2. Divisible(z)
      BY <1>9
    <3>3. /\ Filtered(rest).out \in Texts /\ Flush(Filtered(rest)) \in Texts
          /\ sent \o Filtered(rest).out = Given(z)
          /\ (sent \o Filtered(rest).out) \o Flush(Filtered(rest)) = Streamed(z)
      BY <1>3, <1>10, <1>12, <3>2, RestFollows
    <3> QED BY <1>4, <3>1, <3>3
  <2>2. /\ s \o (o \o h) = (s \o o) \o h /\ (s \o (o \o h)) \o e = s \o (o \o h)
        /\ (e \o e) = e
    <3>1. s \o (o \o h) = (s \o o) \o h
      BY JoinedTwice
    <3>2. PICK y \in Texts : y = s \o (o \o h)
      BY <2>1, <3>1, StreamedIs
    <3>3. y \o e = y /\ e \o e = e
      BY <1>11, ThreeTexts
    <3> QED BY <3>1, <3>2, <3>3
  <2>3. CASE opened
    <3>1. tail = o \o h /\ document = e
      BY <1>5, <1>7, <1>8, <1>11, <1>12, <2>1, <2>3
    <3>2. sent' = Streamed(z)
      BY <1>10, <2>1, <2>2, <3>1
    <3> QED BY <1>9, <1>10, <1>12, <3>2
  <2>4. CASE ~opened
    <3>1. s = e /\ o = e
      BY <1>5, <1>6, <1>11, <1>12, <2>1, <2>4
    <3>2. tail = e \o e /\ document = e
      BY <1>5, <1>7, <1>8, <1>11, <1>12, <2>1, <2>4, <3>1
    <3>3. sent' = e /\ Given(z) = e
      BY <1>10, <2>1, <2>2, <3>1, <3>2
    <3> QED BY <1>9, <1>10, <1>11, <1>12, <3>3
  <2> QED BY <2>3, <2>4
<1>13. CASE request.structured
  <2>1. sent = e /\ tail = e \o e /\ ~opened
    BY <1>5, <1>6, <1>7, <1>10, <1>11, <1>13 DEF Withheld, Follows
  <2>2. PICK d \in Texts : d = document /\ d = LStrip(Visible(z))
    BY <1>8, <1>13, WholeReplyEnds, FirstBlanks
  <2>3. e \o e = e /\ e \o d = d
    BY <1>11, ThreeTexts
  <2>4. pc' = "publishing" => sent' = d
    BY <1>10, <2>1, <2>2, <2>3
  <2> QED BY <1>9, <1>10, <1>13, <2>2, <2>4
<1> QED BY <1>12, <1>13

\* Nothing at all matches a reply that says nothing.
LEMMA NothingMatches ==
  ASSUME RepliesReadAlike, RepliesOpen, NEW r \in Replies, Given(r) = <<>>
  PROVE  HashAlike(<<>>, r)
<1>1. PICK e \in Texts : e = <<>> /\ Len(e) = 0
  BY Empty
<1>2. PICK v \in Texts, n \in Nat : v = Visible(r) /\ n = Len(v) + 1 /\ n \in 1 .. Len(v) + 1
  <2>1. PICK v \in Texts : v = Visible(r)
    BY StreamAssumption, WholeReplyEnds
  <2>2. Len(v) \in Nat
    BY TextIs
  <2> QED BY <2>1, <2>2
<1>3. NoMarker(v)
  BY <1>2 DEF RepliesReadAlike, ReadsAlike
<1>4. From(v, n) = e
  <2>1. From(v, n) \in Texts /\ Len(From(v, n)) = Len(v) - n + 1
    BY <1>2, FromIs
  <2>2. Len(v) \in Nat
    BY TextIs
  <2>3. Len(From(v, n)) = 0
    BY <1>2, <2>1, <2>2
  <2> QED BY <1>1, <2>1, <2>3, SameText
<1>5. NoMarker(e)
  BY <1>2, <1>3, <1>4, NoMarkerFrom
<1>6. ASSUME NEW P, NEW i \in 1 .. Len(e) PROVE FALSE
  BY <1>1, <1>6
<1>7. Where(Images, e) = {}
  BY <1>1, <1>6, WhereIs
<1>8. Fuzzy(e) = e
  <2>1. Fuzzy(e) = DropPieces(Blanks \cup Punctuation, e)
    BY <1>5, FuzzyPlain
  <2>2. DropPieces(Blanks \cup Punctuation, e) = e
    BY <1>1, <1>6, AllDropped
  <2> QED BY <2>1, <2>2
<1>9. Fuzzy(v) = e
  BY <1>1, <1>2 DEF RepliesOpen, Given
<1> QED BY <1>1, <1>2, <1>3, <1>5, <1>7, <1>8, <1>9, MatchesFirst, StreamAssumption

LEMMA StrippedMatches ==
  ASSUME RepliesReadAlike, NEW r \in Replies
  PROVE  HashAlike(LStrip(Visible(r)), r)
<1>1. PICK v \in Texts : v = Visible(r)
  BY StreamAssumption, WholeReplyEnds
<1>2. NoMarker(v) /\ Where(Images, v) = {}
  BY <1>1 DEF RepliesReadAlike, ReadsAlike
<1>3. /\ LStrip(v) \in Texts /\ NoMarker(LStrip(v)) /\ Where(Images, LStrip(v)) = {}
      /\ Fuzzy(LStrip(v)) = Fuzzy(v)
  BY <1>2, FuzzyStripped
<1> QED BY <1>1, <1>2, <1>3, MatchesFirst, StreamAssumption

LEMMA ResponseFinds ==
  ASSUME LinksApart, RepliesReadAlike, RepliesOpen, StreamTypes, Follows, Withheld,
         pc = "streaming" => messageOpen \in BOOLEAN /\ (messageOpen \/ sent = <<>>),
         FoundInv, [ResponsesNext]_responsesVars
  PROVE  FoundInv'
<1>1. CASE ResponseText \/ ResponseRefused
  BY <1>1, OthersFind DEF ResponseText, ResponseRefused
<1>2. CASE ResponseOver
  <2>1. pc = "streaming" /\ stored' = stored
    <3>1. PICK more, rest, valid : ResponseCloses(full \o rest, Filtered(rest), more, valid)
      BY <1>2 DEF ResponseOver
    <3>2. PICK text, opened, tail, closed : ResponseChecked(text, opened, tail, closed, valid)
      BY <3>1 DEF ResponseCloses
    <3> QED BY <1>2, <3>2 DEF ResponseOver, ResponseChecked, Fail
  <2>2. CASE pc' # "publishing"
    BY <2>1, <2>2, OthersFind
  <2>3. CASE pc' = "publishing"
    <3>1. ASSUME full' \in Replies PROVE HashAlike(sent', full')
      <4>1. Divisible(full')
        BY <3>1 DEF RepliesReadAlike, ReadsAlike
      <4>2. \/ sent' = Streamed(full') \/ sent' = LStrip(Visible(full'))
            \/ sent' = <<>> /\ Given(full') = <<>>
        BY <1>2, <2>1, <2>3, <4>1, ResponseSends
      <4> QED BY <3>1, <4>2, OverMatches, StrippedMatches, NothingMatches
    <3>2. stored = Nothing
      BY <2>1 DEF FoundInv
    <3> QED BY <2>1, <2>3, <3>1, <3>2 DEF FoundInv, FoundAgain
  <2> QED BY <2>2, <2>3
<1> QED BY <1>1, <1>2, OtherSteps, StepFinds

\* The state of a response: the items, the filter and what is sent.
ResponseInvariant ==
  ItemsInvariant /\ OutputInvariant /\ ToldInvariant /\ Follows /\ Withheld

LEMMA ResponseStep ==
  ASSUME ResponseInvariant, [ResponsesNext]_responsesVars
  PROVE  ResponseInvariant'
BY ItemsStep, OutputStep, ToldStep, ResponseFollows, WithheldStep DEF ResponseInvariant, ToldInvariant

LEMMA ResponseBegins == ResponsesInit => ResponseInvariant /\ FoundInv /\ OfOne(full) /\ HidesInv
<1> SUFFICES ASSUME ResponsesInit
             PROVE  ResponseInvariant /\ FoundInv /\ OfOne(full) /\ HidesInv
  OBVIOUS
<1>1. /\ full = <<>> /\ sent = <<>> /\ filter = NewFilter /\ stored = Nothing
      /\ pc = "streaming" /\ messageOpen = FALSE
  BY DEF ResponsesInit
<1>2. Follows /\ Withheld
  BY <1>1, NothingTaken DEF Follows, Withheld
<1>3. FoundInv
  BY <1>1 DEF FoundInv, FoundAgain
<1> QED BY <1>1, <1>2, <1>3, ItemsInit, OutputInit, ToldInit, NothingSentYet DEF ResponseInvariant

\* A message is open as soon as there is text in it.
LEMMA MessageHolds ==
  ASSUME ResponseInvariant
  PROVE  /\ StreamTypes /\ Follows /\ Withheld
         /\ pc = "streaming" => messageOpen \in BOOLEAN /\ (messageOpen \/ sent = <<>>)
BY MessageIsThere DEF ResponseInvariant, ToldInvariant

\* A response is found again too, with its message opened by the first text, flushed
\* only if it is open, and a document that is sent stripped and stored as it is: what
\* it takes beyond the chat surface is that a reply the filter holds back whole says
\* nothing.
THEOREM ResponseIsFoundAgain ==
  LinksApart /\ RepliesReadAlike /\ RepliesOpen => (ResponsesSpec => []FoundAgain)
<1> SUFFICES ASSUME LinksApart, RepliesReadAlike, RepliesOpen
             PROVE  ResponsesSpec => []FoundAgain
  OBVIOUS
<1>1. ResponseInvariant /\ FoundInv /\ [ResponsesNext]_responsesVars
        => (ResponseInvariant /\ FoundInv)'
  BY ResponseStep, ResponseFinds, MessageHolds
<1>2. FoundInv => FoundAgain
  BY DEF FoundInv
<1> QED BY <1>1, <1>2, ResponseBegins, PTL DEF ResponsesSpec

-----------------------------------------------------------------------------
(* Nothing hidden is sent in a response.                                   *)

LEMMA ResponseHides ==
  ASSUME RepliesApart, RepliesHide, StreamTypes, OfOne(full), Follows, Withheld, HidesInv,
         pc = "streaming" => messageOpen \in BOOLEAN /\ (messageOpen \/ sent = <<>>),
         [ResponsesNext]_responsesVars
  PROVE  HidesInv'
<1>1. OfOne(full)' /\ Follows'
  BY ResponseKeepsOfOne, ResponseFollows
<1>2. CASE ResponseText
  <2>1. Arriving(Spoken) # {} /\ Spoken \subseteq Replies
    BY <1>2, ResponsesAssumption DEF ResponseText
  <2>2. Replies # {} /\ pc' = "streaming" /\ request' = request
    BY <1>2, <2>1, ArrivingFromReplies DEF ResponseText
  <2>3. PICK t : t = full' /\ OfOne(t)
    BY <1>1 DEF OfOne
  <2>4. t \in Texts /\ Divisible(t) /\ Where(Hidden, Given(t)) = {} /\ Given(t) \in Texts
    BY <2>2, <2>3, PartHides, StreamedIs
  <2>5. ~request'.structured => sent' = Given(t)
    BY <1>1, <2>2, <2>3, <2>4 DEF Follows
  <2> QED BY <2>4, <2>5 DEF HidesInv
<1>3. CASE ResponseOver
  <2>1. Showing(Spoken) # {} /\ Spoken \subseteq Replies /\ pc = "streaming"
    BY <1>3, ResponsesAssumption DEF ResponseOver
  <2>2. Replies # {}
    BY <2>1, ArrivingFromReplies
  <2>3. PICK t : t = full' /\ OfOne(t)
    BY <1>1 DEF OfOne
  <2>4. /\ t \in Texts /\ Divisible(t) /\ Where(Hidden, Streamed(t)) = {} /\ Streamed(t) \in Texts
        /\ Where(Hidden, Given(t)) = {} /\ Given(t) \in Texts
    BY <2>2, <2>3, PartHides, StreamedIs
  <2>5. /\ request' = request
        /\ ~request.structured => sent' = Streamed(t) \/ sent' = Given(t)
    BY <1>3, <2>1, <2>3, <2>4, ResponseSends
  <2> QED BY <2>4, <2>5 DEF HidesInv
<1>4. CASE ResponseRefused
  BY <1>4 DEF ResponseRefused, HidesInv
<1> QED BY <1>2, <1>3, <1>4, OtherSteps, StepHides

\* Nor does a response send such a word, with fewer replies and the same filter.
THEOREM ResponseHiddenIsKept ==
  RepliesApart /\ RepliesHide => (ResponsesSpec => []NothingHiddenSent)
<1> SUFFICES ASSUME RepliesApart, RepliesHide PROVE ResponsesSpec => []NothingHiddenSent
  OBVIOUS
<1> DEFINE Inv == ResponseInvariant /\ OfOne(full) /\ HidesInv
<1>1. Inv /\ [ResponsesNext]_responsesVars => Inv'
  BY ResponseStep, ResponseKeepsOfOne, ResponseHides, MessageHolds
<1>2. ResponsesInit => Inv
  BY ResponseBegins
<1>3. Inv => NothingHiddenSent
  BY HidesIsHidden
<1> HIDE DEF Inv
<1> QED BY <1>1, <1>2, <1>3, PTL DEF ResponsesSpec
=============================================================================
