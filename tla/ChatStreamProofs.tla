-------------------------- MODULE ChatStreamProofs --------------------------
(***************************************************************************)
(* For any replies, any number of images and any way the stream ends: no   *)
(* download outlives its stream, replies that begin differently are not    *)
(* spliced when one is swapped for another, and what is sent is a text.    *)
(* Chunks add up to what one would give, so that the turn is found again   *)
(* by what was sent of it, and what is hidden in one chunk stays hidden.   *)
(***************************************************************************)
EXTENDS ChatStream, OutputCutProofs

\* A turn is stored only after every download has ended, and between the storing
\* and the terminator none begins.
NoneLeft == pc \in Ended \cup {"stored"} => Running = {}

\* Both ways a stream is cut short, an error and a caller that leaves, cancel and
\* reap the downloads in one stroke.
LEMMA CancelledAreReaped ==
  ASSUME media' = [i \in Images |-> IF media[i] = "running" THEN "cancelled" ELSE media[i]]
  PROVE  Running' = {}
BY DEF Running

\* The program points at which downloads may run.
LEMMA OpenPoints ==
  ASSUME pc \in {"streaming", "publishing"}
  PROVE  pc \notin Ended \cup {"stored"}
BY DEF Ended

LEMMA StepKeepsNoneLeft ==
  ASSUME NoneLeft, [Next]_vars
  PROVE  NoneLeft'
<1>1. CASE TextChunk
  BY <1>1 DEF TextChunk, NoneLeft, Ended
<1>2. CASE Breaks
  <2>1. Running' = {}
    BY <1>2, CancelledAreReaped DEF Breaks, Fail
  <2> QED BY <2>1 DEF NoneLeft
<1>3. CASE StreamOver
  <2>1. PICK rest, valid : Closes(rest, valid)
    BY <1>3 DEF StreamOver
  <2>2. pc' = "publishing" \/ Fail
    BY <2>1 DEF Closes
  <2>3. CASE pc' = "publishing"
    BY <2>3 DEF NoneLeft, Ended
  <2>4. CASE Fail
    <3>1. Running' = {}
      BY <2>4, CancelledAreReaped DEF Fail
    <3> QED BY <3>1 DEF NoneLeft
  <2> QED BY <2>2, <2>3, <2>4
<1>4. CASE Store
  <2>1. Running' = {}
    BY <1>4 DEF Store, Running
  <2> QED BY <2>1 DEF NoneLeft
<1>5. CASE Done
  <2>1. Running' = {}
    BY <1>5 DEF Done, NoneLeft, Running, Ended
  <2> QED BY <2>1 DEF NoneLeft
<1>6. CASE CallerLeaves
  <2>1. Running' = {}
    BY <1>6, CancelledAreReaped DEF CallerLeaves
  <2> QED BY <2>1 DEF NoneLeft
<1>7. ASSUME NEW i \in Images, ImageChunk(i)
      PROVE  NoneLeft'
  BY <1>7, OpenPoints DEF ImageChunk, NoneLeft, Ended
<1>8. ASSUME NEW i \in Images, DownloadEnds(i)
      PROVE  NoneLeft'
  <2>1. Running # {}
    BY <1>8 DEF DownloadEnds, Running
  <2>2. pc \notin Ended \cup {"stored"} /\ pc' = pc
    BY <1>8, <2>1 DEF NoneLeft, DownloadEnds
  <2> QED BY <2>2 DEF NoneLeft, Ended
<1>9. ASSUME NEW i \in Images, Publish(i)
      PROVE  NoneLeft'
  BY <1>9 DEF Publish, NoneLeft, Ended
<1>10. CASE UNCHANGED vars
  BY <1>10 DEF vars, NoneLeft, Running, Ended
<1> QED BY <1>1, <1>2, <1>3, <1>4, <1>5, <1>6, <1>7, <1>8, <1>9, <1>10 DEF Next

\* However a stream ends (terminated, failed a check, timed out, left by its
\* caller), the downloads it started are over: done and published, or cancelled.
THEOREM DownloadsReaped == Spec => []Reaped
<1>1. Init => NoneLeft
  BY DEF Init, NoneLeft, Ended
<1>2. NoneLeft /\ [Next]_vars => NoneLeft'
  BY StepKeepsNoneLeft
<1>3. NoneLeft => Reaped
  BY DEF NoneLeft, Reaped
<1> QED BY <1>1, <1>2, <1>3, PTL DEF Spec

-----------------------------------------------------------------------------
(* A reply that is swapped midway.                                         *)

\* t is what a reply shows up to some place, perhaps nothing yet.
Part(t, r) == t \in Texts /\ Len(t) <= Len(r) /\ \A i \in 1 .. Len(t) : t[i] = r[i]

LEMMA ShownIsPart ==
  ASSUME NEW r \in Texts, NEW t
  PROVE  t \in Shown(r) <=> Part(t, r) /\ t # <<>>
<1>1. ASSUME t \in Shown(r) PROVE Part(t, r) /\ t # <<>>
  <2>1. PICK n \in 1 .. Len(r) : t = Upto(r, n)
    BY <1>1 DEF Shown
  <2>2. n \in 0 .. Len(r) /\ Len(r) \in Nat
    BY DEF Texts
  <2>3. t \in Texts /\ Len(t) = n /\ \A i \in 1 .. n : t[i] = r[i]
    BY <2>1, <2>2, UptoIs
  <2> QED BY <2>2, <2>3 DEF Part
<1>2. ASSUME Part(t, r), t # <<>> PROVE t \in Shown(r)
  <2>1. t \in Texts /\ Len(t) \in 1 .. Len(r) /\ Len(t) \in 0 .. Len(r) /\ Len(r) \in Nat
    BY <1>2 DEF Part, Texts
  <2>2. t = Upto(r, Len(t))
    BY <1>2, <2>1, UptoIs, SameText DEF Part
  <2> QED BY <2>1, <2>2 DEF Shown
<1> QED BY <1>1, <1>2

\* What was accumulated goes on in the text whose delta is taken, or already holds it.
LEMMA TakenGoesOn ==
  ASSUME RepliesApart, NEW r \in Replies, NEW t \in Replies, Part(full, r),
         NEW text, Part(text, t), Continues(text)
  PROVE  \/ Part(full, text)
         \/ Len(text) < Len(full) /\ \A i \in 1 .. Len(text) : full[i] = text[i]
<1>0. /\ r \in Texts /\ t \in Texts /\ full \in Texts /\ text \in Texts
      /\ Len(r) \in Nat /\ Len(t) \in Nat /\ Len(full) \in Nat /\ Len(text) \in Nat
  BY StreamAssumption DEF Part, Texts
<1>1. CASE r = t
  BY <1>0, <1>1 DEF Part
<1>2. CASE r # t
  <2> DEFINE shared == {n \in 0 .. Len(full) : n <= Len(text) /\ Upto(text, n) = Upto(full, n)}
  <2>1. shared \in SUBSET (0 .. Len(full)) /\ 0 \in shared
    <3>1. 0 \in 0 .. Len(full) /\ 0 <= Len(text)
      BY <1>0
    <3>2. Upto(text, 0) = <<>> /\ Upto(full, 0) = <<>>
      BY <1>0, SubSeqEmpty DEF Upto
    <3> QED BY <3>1, <3>2
  <2>2. PICK m : m = Latest(shared)
    OBVIOUS
  <2>3. m \in shared
    BY <1>0, <2>1, <2>2, LatestIs
  <2>4. 5 * m >= 4 * Len(full)
    BY <2>2 DEF Continues
  <2>5. m \in 0 .. Len(full) /\ m <= Len(text) /\ Upto(text, m) = Upto(full, m)
    BY <2>3
  <2>6. m \in Nat /\ m <= Len(r) /\ m <= Len(t)
    BY <1>0, <2>5 DEF Part
  <2>7. \A i \in 1 .. m : text[i] = full[i]
    BY <1>0, <2>5, UptoIs
  <2>8. Upto(r, m) = Upto(t, m)
    <3>1. \A i \in 1 .. m : r[i] = t[i]
      BY <1>0, <2>5, <2>6, <2>7 DEF Part
    <3> QED BY <1>0, <2>6, <3>1, UptoIs, SameText
  <2>9. m < 4
    BY <1>0, <1>2, <2>6, <2>8 DEF RepliesApart
  <2>10. m = Len(full)
    BY <1>0, <2>4, <2>5, <2>6, <2>9
  <2> QED BY <1>0, <2>5, <2>7, <2>10 DEF Part
<1> QED BY <1>1, <1>2

\* full and the rest of a text it is part of.
LEMMA RestJoins ==
  ASSUME NEW text \in Texts, Part(full, text), NEW n \in Len(full) .. Len(text)
  PROVE  Part(full \o SubSeq(text, Len(full) + 1, n), text)
<1>0. full \in Texts /\ Len(full) \in Nat /\ Len(text) \in Nat
  BY DEF Part, Texts
<1>1. PICK m : m = Len(full) + 1
  OBVIOUS
<1>2. m \in Int /\ n \in Int /\ \A i \in m .. n : text[i] \in Pieces
  BY <1>0, <1>1 DEF Texts
<1>3. PICK rest : rest = SubSeq(text, m, n)
  OBVIOUS
<1>4. /\ rest \in Texts /\ Len(rest) = n - Len(full)
      /\ \A i \in 1 .. n - Len(full) : rest[i] = text[Len(full) + i]
  <2>1. /\ SubSeq(text, m, n) \in Seq(Pieces)
        /\ Len(SubSeq(text, m, n)) = IF m <= n THEN n - m + 1 ELSE 0
        /\ \A i \in 1 .. n - m + 1 : SubSeq(text, m, n)[i] = text[m + i - 1]
    BY <1>2, SubSeqProperties
  <2>2. (IF m <= n THEN n - m + 1 ELSE 0) = n - Len(full) /\ n - m + 1 = n - Len(full)
    BY <1>0, <1>1
  <2>3. \A i \in 1 .. n - Len(full) : m + i - 1 = Len(full) + i
    BY <1>0, <1>1
  <2> QED BY <1>3, <2>1, <2>2, <2>3 DEF Texts
<1>5. PICK s : s = full \o rest
  OBVIOUS
<1>6. /\ s \in Texts /\ Len(s) = n
      /\ \A i \in 1 .. Len(full) : s[i] = full[i]
      /\ \A i \in Len(full) + 1 .. n : s[i] = text[i]
  <2>1. /\ s \in Texts /\ Len(s) = Len(full) + Len(rest)
        /\ \A i \in 1 .. Len(full) : s[i] = full[i]
        /\ \A i \in Len(full) + 1 .. Len(full) + Len(rest) : s[i] = rest[i - Len(full)]
    BY <1>0, <1>4, <1>5, TwoTexts
  <2>2. Len(full) + Len(rest) = n
    BY <1>0, <1>4
  <2>3. \A i \in Len(full) + 1 .. n :
          i - Len(full) \in 1 .. n - Len(full) /\ Len(full) + (i - Len(full)) = i
    BY <1>0
  <2> QED BY <1>4, <2>1, <2>2, <2>3
<1>7. Part(s, text)
  BY <1>0, <1>6 DEF Part
<1> QED BY <1>1, <1>3, <1>5, <1>7

\* s is part of one reply.
OfOne(s) == s \in Texts /\ (s = <<>> \/ \E r \in Replies : Part(s, r))

LEMMA PartOf ==
  ASSUME NEW s, NEW text, NEW r, Part(s, text), Part(text, r), r \in Texts
  PROVE  Part(s, r)
BY DEF Part, Texts

LEMMA EmptyIsPart == ASSUME NEW r \in Texts PROVE Part(<<>>, r)
BY DEF Part, Texts

LEMMA GoesOnIsPart ==
  ASSUME NEW had \in Texts, NEW text \in Texts
  PROVE  GoesOn(had, text) <=> Part(had, text)
<1>0. Len(had) \in Nat /\ Len(text) \in Nat
  BY DEF Texts
<1>1. ASSUME Len(had) <= Len(text)
      PROVE  (Upto(text, Len(had)) = had) <=> \A i \in 1 .. Len(had) : had[i] = text[i]
  <2>1. Len(had) \in 0 .. Len(text)
    BY <1>0, <1>1
  <2>2. /\ Upto(text, Len(had)) \in Texts /\ Len(Upto(text, Len(had))) = Len(had)
        /\ \A i \in 1 .. Len(had) : Upto(text, Len(had))[i] = text[i]
    BY <2>1, UptoIs
  <2> QED BY <2>2, SameText
<1> QED BY <1>0, <1>1 DEF GoesOn, Part

\* A delta that is taken leaves the accumulated text part of one reply.
LEMMA DeltaJoins ==
  ASSUME RepliesApart, OfOne(full), NEW delta \in Arriving(Replies)
  PROVE  OfOne(full \o delta)
<1>1. PICK text \in Showing(Replies) : Continues(text) /\ delta \in Deltas(full, text)
  BY DEF Arriving
<1>2. PICK t \in Replies : Part(text, t) /\ t \in Texts
  BY <1>1, ShownIsPart, StreamAssumption DEF Showing
<1>3. full \in Texts /\ text \in Texts /\ Len(full) \in Nat /\ Len(text) \in Nat
  BY <1>2 DEF OfOne, Part, Texts
<1>4. PICK r \in Replies : Part(full, r)
  BY <1>2, EmptyIsPart DEF OfOne
<1>5. \/ Part(full, text)
      \/ Len(text) < Len(full) /\ \A i \in 1 .. Len(text) : full[i] = text[i]
  BY <1>1, <1>2, <1>4, TakenGoesOn
<1>6. CASE Part(full, text)
  <2>1. GoesOn(full, text)
    BY <1>3, <1>6, GoesOnIsPart
  <2>2. PICK n \in Len(full) + 1 .. Len(text) : delta = SubSeq(text, Len(full) + 1, n)
    <3>1. ~(Len(text) < Len(full))
      BY <1>3, <2>1 DEF GoesOn
    <3>2. Deltas(full, text) = {SubSeq(text, Len(full) + 1, n) : n \in Len(full) + 1 .. Len(text)}
      BY <2>1, <3>1 DEF Deltas
    <3> QED BY <1>1, <3>2
  <2>3. n \in Len(full) .. Len(text)
    BY <1>3
  <2>4. Part(full \o delta, text)
    BY <1>3, <1>6, <2>2, <2>3, RestJoins
  <2>5. Part(full \o delta, t)
    BY <1>2, <2>4, PartOf
  <2> QED BY <2>5 DEF OfOne, Part
<1>7. CASE Len(text) < Len(full) /\ \A i \in 1 .. Len(text) : full[i] = text[i]
  <2>1. ~GoesOn(full, text)
    BY <1>3, <1>7 DEF GoesOn
  <2>2. Len(text) \in 0 .. Len(full)
    BY <1>3, <1>7
  <2>3. Upto(full, Len(text)) = text
    BY <1>3, <1>7, <2>2, UptoIs, SameText
  <2>4. delta = <<>>
    BY <1>1, <1>7, <2>1, <2>3 DEF Deltas
  <2>5. full \o delta = full
    BY <1>3, <2>4, ConcatEmptySeq DEF Texts
  <2> QED BY <2>5
<1> QED BY <1>5, <1>6, <1>7

\* And so does the rest of the last text.
LEMMA DriftJoins ==
  ASSUME OfOne(full), NEW final \in Showing(Replies)
  PROVE  OfOne(full \o Drift(final))
<1>1. PICK t \in Replies : Part(final, t) /\ t \in Texts
  BY ShownIsPart, StreamAssumption DEF Showing
<1>2. full \in Texts /\ final \in Texts /\ Len(full) \in Nat /\ Len(final) \in Nat
  BY <1>1 DEF OfOne, Part, Texts
<1>3. CASE GoesOn(full, final)
  <2>1. Part(full, final) /\ Len(final) \in Len(full) .. Len(final)
    BY <1>2, <1>3, GoesOnIsPart DEF GoesOn
  <2>2. Drift(final) = SubSeq(final, Len(full) + 1, Len(final))
    BY <1>3 DEF Drift, From
  <2>3. Part(full \o Drift(final), final)
    BY <1>2, <2>1, <2>2, RestJoins
  <2>4. Part(full \o Drift(final), t)
    BY <1>1, <2>3, PartOf
  <2> QED BY <2>4 DEF OfOne, Part
<1>4. CASE ~GoesOn(full, final)
  <2>1. Drift(final) = <<>>
    BY <1>4 DEF Drift
  <2>2. full \o Drift(final) = full
    BY <1>2, <2>1, ConcatEmptySeq DEF Texts
  <2> QED BY <2>2
<1> QED BY <1>3, <1>4

LEMMA OfOneIsUnspliced == OfOne(full) => NoSplice
BY ShownIsPart, StreamAssumption DEF OfOne, NoSplice

LEMMA StepKeepsOfOne ==
  ASSUME RepliesApart, OfOne(full), [Next]_vars
  PROVE  OfOne(full)'
<1>1. CASE TextChunk
  <2>1. PICK delta \in Arriving(Replies) : full' = full \o delta
    BY <1>1 DEF TextChunk, Takes
  <2> QED BY <2>1, DeltaJoins DEF OfOne
<1>2. CASE StreamOver
  <2>1. PICK final \in Showing(Replies), valid \in BOOLEAN : Closes(Drift(final), valid)
    BY <1>2 DEF StreamOver
  <2>2. full' = full \o Drift(final)
    BY <2>1 DEF Closes
  <2> QED BY <2>2, DriftJoins DEF OfOne
<1>3. ASSUME full' = full PROVE OfOne(full)'
  BY <1>3 DEF OfOne
<1> QED BY <1>1, <1>2, <1>3 DEF Next, Breaks, Store, Done, CallerLeaves, ImageChunk, DownloadEnds,
                              Publish, vars

\* A reply Google swaps midway is never spliced onto the one that was streamed, at
\* any cut and for any replies that differ before their fifth piece: the four
\* fifths that _delta_continues asks for are out of a replacement's reach.
THEOREM SwapsAreNotSpliced == RepliesApart => (Spec => []NoSplice)
<1> SUFFICES ASSUME RepliesApart PROVE Spec => []NoSplice
  OBVIOUS
<1>1. Init => OfOne(full)
  BY EmptySeq DEF Init, OfOne, Texts
<1>2. OfOne(full) /\ [Next]_vars => OfOne(full)'
  BY StepKeepsOfOne
<1> QED BY <1>1, <1>2, OfOneIsUnspliced, PTL DEF Spec

-----------------------------------------------------------------------------
(* Types.                                                                  *)

\* What is sent: text, and links, each two line ends and an image.
SentPieces == Pieces \cup Images \cup {"\n"}

StreamTypes == full \in Texts /\ filter \in Filters /\ sent \in Seq(SentPieces)

LEMMA SentTyped ==
  /\ \A s \in Texts : s \in Seq(SentPieces)
  /\ \A i \in Images : Link(i) \in Seq(SentPieces) /\ Len(Link(i)) = 3
  /\ <<>> \in Seq(SentPieces)
<1>1. \A s \in Texts : s \in Seq(SentPieces)
  BY DEF Texts, SentPieces
<1>2. ASSUME NEW i \in Images PROVE Link(i) \in Seq(SentPieces) /\ Len(Link(i)) = 3
  <2>1. "\n" \in SentPieces /\ i \in SentPieces
    BY DEF SentPieces
  <2> QED BY <2>1 DEF Link
<1> QED BY <1>1, <1>2

\* What is sent next counts as long as it is.
LEMMA SentMore ==
  ASSUME NEW s \in Seq(SentPieces), NEW t \in Seq(SentPieces)
  PROVE  /\ s \o t \in Seq(SentPieces)
         /\ Len(s \o t) = Len(s) + Len(t) /\ Len(s) \in Nat /\ Len(t) \in Nat
OBVIOUS

\* What arrives is text, however the reply was swapped.
LEMMA ShowingIsText ==
  ASSUME NEW replies \in SUBSET Replies, NEW final \in Showing(replies)
  PROVE  final \in Texts
<1>1. PICK r \in Texts : final \in Shown(r)
  BY StreamAssumption DEF Showing
<1>2. PICK n \in 1 .. Len(r) : final = Upto(r, n)
  BY <1>1 DEF Shown
<1>3. n \in 0 .. Len(r)
  OBVIOUS
<1> QED BY <1>2, <1>3, UptoIs

LEMMA DeltaIsText ==
  ASSUME NEW had \in Texts, NEW text \in Texts, NEW delta \in Deltas(had, text)
  PROVE  delta \in Texts
<1>1. Len(had) \in Nat /\ Len(text) \in Nat /\ DOMAIN text = 1 .. Len(text)
  BY DEF Texts
<1>2. CASE GoesOn(had, text)
  <2>0. ~(Len(text) < Len(had))
    BY <1>1, <1>2 DEF GoesOn
  <2>1. PICK n \in Len(had) + 1 .. Len(text) : delta = SubSeq(text, Len(had) + 1, n)
    BY <1>2, <2>0 DEF Deltas
  <2>2. \A i \in Len(had) + 1 .. n : text[i] \in Pieces
    BY <1>1 DEF Texts
  <2>3. SubSeq(text, Len(had) + 1, n) \in Seq(Pieces)
    BY <1>1, <2>2, SubSeqProperties
  <2> QED BY <2>1, <2>3 DEF Texts
<1>3. CASE ~GoesOn(had, text)
  <2>1. delta = <<>> \/ \E n \in DOMAIN text : delta = From(text, n)
    BY <1>3 DEF Deltas
  <2>2. \A n \in DOMAIN text : n \in 1 .. Len(text) + 1
    BY <1>1
  <2> QED BY <2>1, <2>2, FromIs, Empty
<1> QED BY <1>2, <1>3

LEMMA ArrivingIsText ==
  ASSUME full \in Texts, NEW replies \in SUBSET Replies
  PROVE  /\ \A delta \in Arriving(replies) : delta \in Texts
         /\ \A final \in Showing(replies) : final \in Texts /\ Drift(final) \in Texts
<1>1. ASSUME NEW final \in Showing(replies) PROVE final \in Texts
  BY ShowingIsText
<1>2. ASSUME NEW final \in Showing(replies) PROVE Drift(final) \in Texts
  <2>1. final \in Texts /\ Len(final) \in Nat /\ Len(full) \in Nat
    BY <1>1 DEF Texts
  <2>2. CASE GoesOn(full, final)
    <3>1. Len(full) + 1 \in 1 .. Len(final) + 1
      BY <2>1, <2>2 DEF GoesOn
    <3> QED BY <2>1, <2>2, <3>1, FromIs DEF Drift
  <2>3. CASE ~GoesOn(full, final)
    BY <2>3, Empty DEF Drift
  <2> QED BY <2>2, <2>3
<1>3. ASSUME NEW delta \in Arriving(replies) PROVE delta \in Texts
  <2>1. PICK text \in Showing(replies) : delta \in Deltas(full, text)
    BY DEF Arriving
  <2> QED BY <1>1, <2>1, DeltaIsText
<1> QED BY <1>1, <1>2, <1>3

LEMMA Emptied == ASSUME NEW f \in Filters PROVE [f EXCEPT !.out = <<>>] \in Filters
<1>1. PICK e \in Texts : e = <<>>
  BY Empty
<1>2. PICK g : g = [f EXCEPT !.out = e]
  OBVIOUS
<1>3. g \in Filters
  BY <1>2 DEF Filters
<1> QED BY <1>1, <1>2, <1>3

LEMMA FilteredTyped ==
  ASSUME filter \in Filters, NEW rest \in Texts
  PROVE  Filtered(rest) \in Filters
BY Emptied, Processed DEF Filtered

LEMMA TakesTyped ==
  ASSUME StreamTypes, NEW delta \in Texts, Takes(delta)
  PROVE  /\ StreamTypes'
         /\ Len(sent') - Len(sent) \in Int /\ Len(sent) \in Nat /\ Len(sent') \in Nat
<1>1. full' \in Texts
  BY TwoTexts DEF Takes, StreamTypes
<1>2. CASE request.structured
  <2>1. sent' = sent /\ filter' = filter
    BY <1>2 DEF Takes
  <2> QED BY <1>1, <2>1 DEF StreamTypes
<1>3. CASE ~request.structured
  <2>1. PICK next : /\ next = Process(filter, delta)
                    /\ filter' = [next EXCEPT !.out = <<>>] /\ sent' = sent \o next.out
    BY <1>3 DEF Takes
  <2>2. next \in Filters /\ next.out \in Texts
    BY <2>1, Processed DEF StreamTypes
  <2>3. filter' \in Filters
    BY <2>1, <2>2, Emptied
  <2>4. sent \in Seq(SentPieces) /\ next.out \in Seq(SentPieces)
    BY <2>2, SentTyped DEF StreamTypes
  <2>5. /\ sent' \in Seq(SentPieces)
        /\ Len(sent') = Len(sent) + Len(next.out) /\ Len(sent) \in Nat /\ Len(next.out) \in Nat
    BY <2>1, <2>4, SentMore
  <2> QED BY <1>1, <2>3, <2>5 DEF StreamTypes
<1> QED BY <1>2, <1>3

\* The document of a structured reply, or nothing.
LEMMA DocumentIsText ==
  ASSUME NEW text \in Texts, NEW document,
         document = IF request.structured THEN LStrip(Visible(text)) ELSE <<>>
  PROVE  document \in Texts
<1>1. Visible(text) \in Texts
  BY WholeReplyEnds
<1>2. LStrip(Visible(text)) \in Texts
  BY <1>1, FirstBlanks
<1> QED BY <1>2, Empty

ChatTypeOK ==
  /\ request \in Requests
  /\ pc \in {"streaming", "publishing", "stored"} \cup Ended
  /\ StreamTypes
  /\ media \in [Images -> {"unseen", "running", "ready", "lost", "published", "cancelled"}]
  /\ stored # Nothing => stored.text \in Texts

LEMMA ClosesTyped ==
  ASSUME StreamTypes, NEW rest \in Texts, NEW valid \in BOOLEAN, Closes(rest, valid)
  PROVE  StreamTypes'
<1>1. PICK text \in Texts : text = full \o rest
  BY TwoTexts DEF StreamTypes
<1>2. PICK last \in Filters : last = Filtered(rest)
  BY FilteredTyped DEF StreamTypes
<1>3. PICK shown : shown = IF request.structured THEN sent ELSE sent \o last.out \o Flush(last)
  OBVIOUS
<1>4. shown \in Seq(SentPieces)
  <2>1. last.out \in Seq(SentPieces) /\ Flush(last) \in Seq(SentPieces)
    BY FilterParts, Flushed, SentTyped
  <2>2. sent \in Seq(SentPieces)
    BY DEF StreamTypes
  <2> QED BY <1>3, <2>1, <2>2, SentMore
<1>5. Visible(text) \in Seq(SentPieces)
  BY WholeReplyEnds, SentTyped
<1>6. sent' = shown \/ sent' = shown \o Visible(text)
  BY <1>1, <1>2, <1>3 DEF Closes
<1>7. sent' \in Seq(SentPieces)
  BY <1>4, <1>5, <1>6, SentMore
<1>8. full' \in Texts /\ filter' = NewFilter
  BY <1>1 DEF Closes
<1> QED BY <1>7, <1>8, NewIsFilter DEF StreamTypes

LEMMA MediaTyped ==
  ASSUME ChatTypeOK
  PROVE  /\ \A i \in Images, v \in {"running", "ready", "lost", "published"} :
              [media EXCEPT ![i] = v]
                \in [Images -> {"unseen", "running", "ready", "lost", "published", "cancelled"}]
         /\ [i \in Images |-> IF media[i] = "running" THEN "cancelled" ELSE media[i]]
              \in [Images -> {"unseen", "running", "ready", "lost", "published", "cancelled"}]
BY DEF ChatTypeOK

LEMMA StepKeepsTypes ==
  ASSUME ChatTypeOK, [Next]_vars
  PROVE  ChatTypeOK'
<1>0. ASSUME UNCHANGED <<full, filter, sent>> PROVE StreamTypes'
  BY <1>0 DEF ChatTypeOK, StreamTypes
<1>1. CASE TextChunk
  <2>1. PICK delta \in Arriving(Replies) : Takes(delta)
    BY <1>1 DEF TextChunk
  <2>2. delta \in Texts
    BY ArrivingIsText DEF ChatTypeOK, StreamTypes
  <2>3. StreamTypes'
    BY <2>1, <2>2, TakesTyped DEF ChatTypeOK
  <2> QED BY <1>1, <2>3 DEF TextChunk, ChatTypeOK
<1>2. CASE Breaks
  BY <1>0, <1>2, MediaTyped DEF Breaks, Fail, ChatTypeOK, Ended
<1>3. CASE StreamOver
  <2>1. PICK final \in Showing(Replies), valid \in BOOLEAN : Closes(Drift(final), valid)
    BY <1>3 DEF StreamOver
  <2>2. Drift(final) \in Texts
    BY ArrivingIsText DEF ChatTypeOK, StreamTypes
  <2>3. StreamTypes'
    BY <2>1, <2>2, ClosesTyped DEF ChatTypeOK
  <2>4. (pc' = "publishing" /\ UNCHANGED <<request, media, stored>>) \/ Fail
    BY <2>1 DEF Closes
  <2>5. CASE pc' = "publishing" /\ UNCHANGED <<request, media, stored>>
    BY <2>3, <2>5 DEF ChatTypeOK
  <2>6. CASE Fail
    BY <2>3, <2>6, MediaTyped DEF Fail, ChatTypeOK, Ended
  <2> QED BY <2>4, <2>5, <2>6
<1>4. CASE Store
  <2>1. stored'.text \in Texts
    BY <1>4 DEF Store, ChatTypeOK, StreamTypes
  <2> QED BY <1>0, <1>4, <2>1 DEF Store, ChatTypeOK
<1>5. CASE Done
  BY <1>0, <1>5 DEF Done, ChatTypeOK, Ended
<1>6. CASE CallerLeaves
  BY <1>0, <1>6, MediaTyped DEF CallerLeaves, ChatTypeOK, Ended
<1>7. ASSUME NEW i \in Images, ImageChunk(i) \/ DownloadEnds(i)
      PROVE  ChatTypeOK'
  BY <1>0, <1>7, MediaTyped DEF ImageChunk, DownloadEnds, ChatTypeOK
<1>8. ASSUME NEW i \in Images, Publish(i)
      PROVE  ChatTypeOK'
  <2>1. sent' \in Seq(SentPieces)
    BY <1>8, SentTyped, SentMore DEF Publish, ChatTypeOK, StreamTypes
  <2>2. StreamTypes'
    BY <1>8, <2>1 DEF Publish, ChatTypeOK, StreamTypes
  <2> QED BY <1>8, <2>2, MediaTyped DEF Publish, ChatTypeOK
<1>9. CASE UNCHANGED vars
  BY <1>0, <1>9 DEF vars, ChatTypeOK
<1> QED BY <1>1, <1>2, <1>3, <1>4, <1>5, <1>6, <1>7, <1>8, <1>9 DEF Next

\* A stream stays well formed: the filter is in one of its states whatever came in
\* whatever pieces, and nothing is sent but text and links.
THEOREM ChatIsTyped == Spec => []ChatTypeOK
<1>1. Init => ChatTypeOK
  BY NewIsFilter, Empty, SentTyped DEF Init, ChatTypeOK, StreamTypes
<1>2. ChatTypeOK /\ [Next]_vars => ChatTypeOK'
  BY StepKeepsTypes
<1> QED BY <1>1, <1>2, PTL DEF Spec

-----------------------------------------------------------------------------
(* A reply that is cut into chunks is streamed as in one.                  *)

LEMMA SentIsText ==
  /\ Seq(SentPieces) = Texts
  /\ \A i \in Images : Link(i) \in Texts
<1>1. SentPieces = Pieces
  BY StreamAssumption DEF SentPieces
<1>2. Seq(SentPieces) = Texts
  BY <1>1, Zenon DEF Texts
<1> QED BY <1>2, SentTyped

\* While the reply comes, the filter is where it would be had it come in one chunk,
\* and what is sent is what it would have given out.  Structured output is withheld.
Follows ==
  pc = "streaming" =>
    /\ request.structured => sent = <<>> /\ filter = NewFilter
    /\ ~request.structured /\ Divisible(full) => sent = Given(full) /\ filter = Taken(full)

LEMMA TakesFollow ==
  ASSUME StreamTypes, Follows, pc = "streaming", request' = request,
         NEW delta \in Texts, Takes(delta)
  PROVE  Follows'
<1>1. full \in Texts /\ full' = full \o delta
  BY DEF StreamTypes, Takes
<1>2. CASE request.structured
  <2>1. sent' = sent /\ filter' = filter
    BY <1>2 DEF Takes
  <2> QED BY <1>2, <2>1 DEF Follows
<1>3. CASE ~request.structured /\ Divisible(full \o delta)
  <2>1. PICK next : /\ next = Process(filter, delta)
                    /\ filter' = [next EXCEPT !.out = <<>>] /\ sent' = sent \o next.out
    BY <1>3 DEF Takes
  <2>2. /\ Divisible(full)
        /\ [Process(Taken(full), delta) EXCEPT !.out = <<>>] = Taken(full \o delta)
        /\ Given(full \o delta) = Given(full) \o Process(Taken(full), delta).out
    BY <1>1, <1>3, NextChunk
  <2>3. sent = Given(full) /\ filter = Taken(full)
    BY <1>3, <2>2 DEF Follows
  <2>4. sent' = Given(full \o delta) /\ filter' = Taken(full \o delta)
    BY <2>1, <2>2, <2>3, Zenon
  <2> QED BY <1>1, <1>3, <2>4 DEF Follows
<1>4. CASE ~request.structured /\ ~Divisible(full \o delta)
  BY <1>1, <1>4 DEF Follows
<1> QED BY <1>2, <1>3, <1>4

\* Nor does it matter that the rest of the reply goes through the filter at its end.
LEMMA RestFollows ==
  ASSUME StreamTypes, Follows, pc = "streaming", ~request.structured,
         NEW rest \in Texts, NEW z, z = full \o rest, Divisible(z)
  PROVE  /\ z \in Texts /\ Filtered(rest).out \in Texts /\ Flush(Filtered(rest)) \in Texts
         /\ sent \o Filtered(rest).out = Given(z)
         /\ (sent \o Filtered(rest).out) \o Flush(Filtered(rest)) = Streamed(z)
<1>1. full \in Texts /\ filter \in Filters /\ z \in Texts
  BY TwoTexts DEF StreamTypes
<1>2. /\ Divisible(full)
      /\ [Process(Taken(full), rest) EXCEPT !.out = <<>>] = Taken(z)
      /\ Given(z) = Given(full) \o Process(Taken(full), rest).out
  BY <1>1, NextChunk
<1>3. sent = Given(full) /\ filter = Taken(full) /\ Given(full) \in Texts
  BY <1>1, <1>2, StreamedIs DEF Follows
<1>4. PICK last \in Filters : last = Filtered(rest)
  BY <1>1, FilteredTyped
<1>5. last.out \in Texts /\ Flush(last) \in Texts
  BY FilterTexts, Flushed
<1>6. sent \o last.out = Given(z) /\ Flush(last) = Flush(Taken(z))
  <2>1. CASE rest = <<>>
    <3>1. PICK e \in Texts : e = <<>>
      BY Empty
    <3>2. last = Quiet(filter) /\ last.out = e
      <4>1. last = Quiet(filter)
        BY <1>4, <2>1 DEF Filtered, Quiet
      <4>2. Quiet(filter).out = <<>>
        BY <1>1 DEF Filters, Quiet
      <4> QED BY <3>1, <4>1, <4>2
    <3>3. z = full
      BY <1>1, <2>1, <3>1, ThreeTexts
    <3>4. sent \o e = sent
      BY <1>3, <3>1, ThreeTexts
    <3>5. Flush(last) = Flush(filter)
      BY <1>1, <3>2, FlushForgets
    <3> QED BY <1>3, <3>2, <3>3, <3>4, <3>5
  <2>2. CASE rest # <<>>
    <3>1. last = Process(filter, rest)
      BY <1>4, <2>2 DEF Filtered
    <3>2. Quiet(last) = Taken(z)
      BY <1>2, <1>3, <3>1 DEF Quiet
    <3>3. Flush(last) = Flush(Taken(z))
      BY <3>2, FlushForgets
    <3> QED BY <1>2, <1>3, <3>1, <3>3
  <2> QED BY <2>1, <2>2
<1>7. Streamed(z) = Given(z) \o Flush(Taken(z))
  BY <1>1, StreamedIs
<1> QED BY <1>1, <1>4, <1>5, <1>6, <1>7

\* What has been sent once the reply is over, before any link.
LEMMA OverSends ==
  ASSUME StreamTypes, Follows, pc = "streaming", NEW rest \in Texts, NEW valid \in BOOLEAN,
         Closes(rest, valid), Divisible(full')
  PROVE  /\ ~request.structured => sent' = Streamed(full')
         /\ request.structured /\ pc' = "publishing" => sent' = Visible(full')
<1>1. full' = full \o rest /\ full \in Texts
  BY DEF Closes, StreamTypes
<1>2. CASE ~request.structured
  <2>1. PICK z : z = full \o rest
    OBVIOUS
  <2>2. sent' = sent \o Filtered(rest).out \o Flush(Filtered(rest))
    BY <1>2 DEF Closes
  <2>3. (sent \o Filtered(rest).out) \o Flush(Filtered(rest)) = Streamed(z)
    BY <1>1, <1>2, <2>1, RestFollows
  <2> QED BY <1>1, <1>2, <2>1, <2>2, <2>3
<1>3. CASE request.structured /\ pc' = "publishing"
  <2>1. PICK e \in Texts : e = <<>>
    BY Empty
  <2>2. sent = e
    BY <1>3, <2>1 DEF Follows
  <2>3. PICK z \in Texts, y \in Texts : z = full \o rest /\ y = Visible(z)
    BY <1>1, TwoTexts, WholeReplyEnds
  <2>4. sent' = e \o y
    BY <1>3, <2>2, <2>3 DEF Closes, Fail
  <2>5. e \o y = y
    BY <2>1, ThreeTexts
  <2> QED BY <1>1, <1>3, <2>3, <2>4, <2>5
<1> QED BY <1>2, <1>3

LEMMA StepFollows ==
  ASSUME StreamTypes, Follows, [Next]_vars
  PROVE  Follows'
<1>1. CASE TextChunk
  <2>1. PICK delta \in Arriving(Replies) : Takes(delta)
    BY <1>1 DEF TextChunk
  <2>2. delta \in Texts
    BY ArrivingIsText DEF StreamTypes
  <2> QED BY <1>1, <2>1, <2>2, TakesFollow DEF TextChunk
<1>2. CASE StreamOver
  <2>1. PICK rest, valid : Closes(rest, valid)
    BY <1>2 DEF StreamOver
  <2>2. pc' # "streaming"
    BY <2>1 DEF Closes, Fail
  <2> QED BY <2>2 DEF Follows
<1>3. CASE Breaks \/ Store \/ Done \/ CallerLeaves
  <2>1. pc' # "streaming"
    BY <1>3 DEF Breaks, Fail, Store, Done, CallerLeaves
  <2> QED BY <2>1 DEF Follows
<1>4. ASSUME NEW i \in Images, Publish(i) PROVE Follows'
  <2>1. pc' # "streaming"
    BY <1>4 DEF Publish
  <2> QED BY <2>1 DEF Follows
<1>5. CASE UNCHANGED <<request, pc, full, filter, sent>>
  BY <1>5 DEF Follows
<1>6. ASSUME NEW i \in Images, ImageChunk(i) \/ DownloadEnds(i)
      PROVE  UNCHANGED <<request, pc, full, filter, sent>>
  BY <1>6 DEF ImageChunk, DownloadEnds
<1>7. UNCHANGED vars => UNCHANGED <<request, pc, full, filter, sent>>
  BY DEF vars
<1> QED BY <1>1, <1>2, <1>3, <1>4, <1>5, <1>6, <1>7 DEF Next

LEMMA InitFollows == Init => Follows
<1> SUFFICES ASSUME Init PROVE Follows
  OBVIOUS
<1>1. full = <<>> /\ sent = <<>> /\ filter = NewFilter
  BY DEF Init
<1> QED BY <1>1, NothingTaken DEF Follows

\* However Google and the library cut a reply into chunks, while it is streamed the
\* filter and what it has given out are what one chunk would have left.
THEOREM ChunksAddUp == Spec => []Follows
<1>1. ChatTypeOK /\ Follows /\ [Next]_vars => (ChatTypeOK /\ Follows)'
  BY StepKeepsTypes, StepFollows DEF ChatTypeOK
<1>2. Init => ChatTypeOK
  BY NewIsFilter, Empty, SentTyped DEF Init, ChatTypeOK, StreamTypes
<1> QED BY <1>1, <1>2, InitFollows, PTL DEF Spec

-----------------------------------------------------------------------------
(* The turn is found again.                                                *)

LinksOf(s) == DropPieces(Pieces \ Images, s)
Volatile == Blanks \cup Punctuation

\* What is sent hashes like what is to be stored of the reply, and no marker keeps
\* the links that may still be published from being hashed as they are.
HashAlike(s, r) ==
  /\ s \in Texts
  /\ NoMarker(s) /\ NoMarker(Visible(r) \o LinksOf(s))
  /\ Fuzzy(s) = Fuzzy(Visible(r) \o LinksOf(s))

LEMMA MatchesFirst ==
  ASSUME NEW s \in Texts, NEW r \in Texts, NoMarker(s), NoMarker(Visible(r)),
         Where(Images, s) = {}, Fuzzy(s) = Fuzzy(Visible(r))
  PROVE  HashAlike(s, r)
<1>1. \A i \in 1 .. Len(s) : s[i] \in Pieces \ Images
  <2>1. ASSUME NEW i \in 1 .. Len(s) PROVE s[i] \in Pieces \ Images
    <3>1. i \notin Where(Images, s) /\ s[i] \in Pieces
      BY TextIs
    <3> QED BY <3>1, WhereIs
  <2> QED BY <2>1
<1>2. PICK e \in Texts, v \in Texts : e = <<>> /\ v = Visible(r)
  BY Empty, WholeReplyEnds
<1>3. LinksOf(s) = e
  BY <1>1, <1>2, AllDropped DEF LinksOf
<1>4. v \o e = v
  BY <1>2, ThreeTexts
<1> QED BY <1>2, <1>3, <1>4 DEF HashAlike

\* A link is line ends, which no hash keeps, and the image.
LEMMA LinkIs ==
  ASSUME LinksApart, NEW i \in Images, NEW one, one = <<i>>
  PROVE  /\ one \in Texts /\ Len(one) = 1 /\ one[1] = i /\ Link(i) \in Texts
         /\ \A k \in 1 .. Len(one) : one[k] \in Images \cup {"\n"}
         /\ \A k \in 1 .. Len(Link(i)) : Link(i)[k] \in Images \cup {"\n"}
         /\ LinksOf(Link(i)) = one
         /\ DropPieces(Volatile, Link(i)) = DropPieces(Volatile, one)
<1>1. PICK nl : nl = <<"\n", "\n">>
  OBVIOUS
<1>2. "\n" \in Pieces /\ i \in Pieces /\ "\n" \notin Images /\ "\n" \in Volatile
  BY StreamAssumption DEF LinksApart, Volatile, Blanks
<1>3. nl \in Texts /\ Len(nl) = 2 /\ \A k \in 1 .. 2 : nl[k] = "\n"
  BY <1>1, <1>2 DEF Texts
<1>4. one \in Texts /\ Len(one) = 1 /\ one[1] = i
  BY <1>2 DEF Texts
<1>5. PICK l \in Texts : l = Link(i)
  BY SentIsText
<1>6. Len(l) = 3 /\ l[1] = "\n" /\ l[2] = "\n" /\ l[3] = i
  BY <1>5 DEF Link
<1>7. l = nl \o one
  <2>1. PICK y \in Texts : y = nl \o one
    BY <1>3, <1>4, TwoTexts
  <2>2. Len(y) = 3 /\ y[1] = "\n" /\ y[2] = "\n" /\ y[3] = i
    BY <1>1, <2>1
  <2>3. \A k \in 1 .. Len(l) : l[k] = y[k]
    BY <1>6, <2>2
  <2> QED BY <1>6, <2>1, <2>2, <2>3, SameText
<1>8. \A k \in 1 .. Len(l) : l[k] \in Images \cup {"\n"}
  BY <1>6
<1>9. PICK e \in Texts : e = <<>>
  BY Empty
<1>10. DropPieces(Pieces \ Images, nl) = e /\ DropPieces(Volatile, nl) = e
  BY <1>2, <1>3, <1>9, AllDropped
<1>11. DropPieces(Pieces \ Images, one) = one
  <2>1. ASSUME NEW k \in Where(Pieces \ Images, one) PROVE FALSE
    BY <1>4, WhereIs
  <2> QED BY <1>4, <2>1, PiecesDropped
<1>12. PICK d \in Texts : d = DropPieces(Volatile, one)
  BY <1>4, PiecesDropped
<1>13. e \o one = one /\ e \o d = d
  BY <1>4, <1>9, ThreeTexts
<1>14. LinksOf(l) = one
  <2>1. DropPieces(Pieces \ Images, nl \o one)
          = DropPieces(Pieces \ Images, nl) \o DropPieces(Pieces \ Images, one)
    BY <1>3, <1>4, DropJoined
  <2> QED BY <1>7, <1>10, <1>11, <1>13, <2>1 DEF LinksOf
<1>15. DropPieces(Volatile, l) = d
  <2>1. DropPieces(Volatile, nl \o one) = DropPieces(Volatile, nl) \o DropPieces(Volatile, one)
    BY <1>3, <1>4, DropJoined
  <2> QED BY <1>7, <1>10, <1>12, <1>13, <2>1
<1> QED BY <1>4, <1>5, <1>8, <1>12, <1>14, <1>15

LEMMA JoinedTwice ==
  ASSUME NEW s \in Texts, NEW t \in Texts, NEW u \in Texts
  PROVE  (s \o t) \o u = s \o (t \o u)
BY ThreeTexts

\* A link that is sent and stored leaves the two alike.
LEMMA MatchesNext ==
  ASSUME LinksApart, NEW i \in Images, NEW s, NEW r \in Texts, HashAlike(s, r)
  PROVE  HashAlike(s \o Link(i), r)
<1>1. PICK one \in Texts, l \in Texts :
        /\ one = <<i>> /\ l = Link(i)
        /\ \A k \in 1 .. Len(one) : one[k] \in Images \cup {"\n"}
        /\ \A k \in 1 .. Len(l) : l[k] \in Images \cup {"\n"}
        /\ LinksOf(l) = one
        /\ DropPieces(Volatile, l) = DropPieces(Volatile, one)
  <2>1. PICK one : one = <<i>>
    OBVIOUS
  <2>2. PICK l : l = Link(i)
    OBVIOUS
  <2>3. /\ one \in Texts /\ l \in Texts
        /\ \A k \in 1 .. Len(one) : one[k] \in Images \cup {"\n"}
        /\ \A k \in 1 .. Len(l) : l[k] \in Images \cup {"\n"}
        /\ LinksOf(l) = one /\ DropPieces(Volatile, l) = DropPieces(Volatile, one)
    BY <2>1, <2>2, LinkIs
  <2> QED BY <2>1, <2>2, <2>3
<1>2. \A m \in Starts \cup Exits : Where(Images \cup {"\n"}, m) = {}
  BY DEF LinksApart
<1>3. PICK v \in Texts, h \in Texts : v = Visible(r) /\ h = LinksOf(s)
  BY WholeReplyEnds, PiecesDropped DEF LinksOf, HashAlike
<1>3a. (v \o h) \o one = v \o (h \o one)
  BY JoinedTwice
<1>4. PICK w \in Texts : w = v \o h
  BY TwoTexts
<1>5. s \in Texts /\ NoMarker(s) /\ NoMarker(w) /\ Fuzzy(s) = Fuzzy(w)
  BY <1>3, <1>4 DEF HashAlike
<1>6. PICK z \in Texts, y \in Texts : z = s \o l /\ y = w \o one
  BY <1>5, TwoTexts
<1>7. NoMarker(z) /\ NoMarker(y)
  BY <1>1, <1>2, <1>5, <1>6, NoMarkerJoined
<1>8. LinksOf(z) = h \o one
  <2>1. DropPieces(Pieces \ Images, s \o l)
          = DropPieces(Pieces \ Images, s) \o DropPieces(Pieces \ Images, l)
    BY <1>5, DropJoined
  <2> QED BY <1>1, <1>3, <1>6, <2>1, Zenon DEF LinksOf
<1>9. v \o (h \o one) = y
  BY <1>4, <1>6, <1>3a, Zenon
<1>10. Fuzzy(z) = Fuzzy(y)
  <2>1. Fuzzy(z) = DropPieces(Volatile, z) /\ Fuzzy(y) = DropPieces(Volatile, y)
    BY <1>7, FuzzyPlain DEF Volatile
  <2>2. DropPieces(Volatile, s) = DropPieces(Volatile, w)
    BY <1>5, FuzzyPlain DEF Volatile
  <2>3. DropPieces(Volatile, z) = DropPieces(Volatile, s) \o DropPieces(Volatile, l)
    BY <1>5, <1>6, DropJoined
  <2>4. DropPieces(Volatile, y) = DropPieces(Volatile, w) \o DropPieces(Volatile, one)
    BY <1>6, DropJoined
  <2> QED BY <1>1, <2>1, <2>2, <2>3, <2>4
<1> QED BY <1>1, <1>3, <1>6, <1>7, <1>8, <1>9, <1>10 DEF HashAlike

\* Until the links are out, sent and stored output match; then nothing more is sent.
FoundInv ==
  /\ pc \in {"streaming", "publishing"} => stored = Nothing
  /\ pc = "publishing" /\ full \in Replies => HashAlike(sent, full)
  /\ FoundAgain

\* The end of a reply that is whole, on either surface.
LEMMA OverMatches ==
  ASSUME RepliesReadAlike, NEW r \in Replies, NEW s, s = Streamed(r) \/ s = Visible(r)
  PROVE  HashAlike(s, r)
<1>1. r \in Texts /\ Streamed(r) \in Texts /\ Visible(r) \in Texts
  BY StreamAssumption, StreamedIs, WholeReplyEnds
<1>2. /\ NoMarker(Streamed(r)) /\ Where(Images, Streamed(r)) = {}
      /\ NoMarker(Visible(r)) /\ Where(Images, Visible(r)) = {}
      /\ Fuzzy(Streamed(r)) = Fuzzy(Visible(r))
  BY DEF RepliesReadAlike, ReadsAlike
<1> QED BY <1>1, <1>2, MatchesFirst

LEMMA StoreFinds ==
  ASSUME FoundInv, Store
  PROVE  FoundInv'
<1>1. /\ stored'.text = full /\ stored'.output = Visible(full) \o LinksOf(sent)
      /\ sent' = sent /\ pc' = "stored"
  BY DEF Store, Links, LinksOf
<1>2. full \in Replies => HashAlike(sent, full)
  BY DEF Store, FoundInv
<1>3. FoundAgain'
  BY <1>1, <1>2 DEF FoundAgain, HashAlike
<1> QED BY <1>1, <1>3 DEF FoundInv

LEMMA PublishFinds ==
  ASSUME LinksApart, FoundInv, NEW i \in Images, Publish(i)
  PROVE  FoundInv'
<1>1. pc = "publishing" /\ pc' = pc /\ full' = full /\ stored' = stored /\ sent' = sent \o Link(i)
  BY DEF Publish
<1>2. stored = Nothing
  BY <1>1 DEF FoundInv
<1>3. full \in Replies => HashAlike(sent', full)
  BY <1>1, MatchesNext, StreamAssumption DEF FoundInv
<1> QED BY <1>1, <1>2, <1>3 DEF FoundInv, FoundAgain

\* The other steps send nothing once the turn is stored.
LEMMA OthersFind ==
  ASSUME FoundInv, stored' = stored,
         \/ pc = "streaming" /\ pc' # "publishing"
         \/ sent' = sent /\ pc' # "publishing" /\ pc' # "streaming"
         \/ UNCHANGED <<pc, full, sent>>
  PROVE  FoundInv'
BY DEF FoundInv, FoundAgain

LEMMA StepFinds ==
  ASSUME LinksApart, RepliesReadAlike, StreamTypes, Follows, FoundInv, [Next]_vars
  PROVE  FoundInv'
<1>1. CASE StreamOver
  <2>1. PICK final \in Showing(Replies), valid \in BOOLEAN : Closes(Drift(final), valid)
    BY <1>1 DEF StreamOver
  <2>2. pc = "streaming" /\ stored' = stored /\ Drift(final) \in Texts
    BY <1>1, <2>1, ArrivingIsText DEF StreamOver, Closes, Fail, StreamTypes
  <2>3. CASE pc' # "publishing"
    BY <2>2, <2>3, OthersFind
  <2>4. CASE pc' = "publishing"
    <3>1. ASSUME full' \in Replies PROVE HashAlike(sent', full')
      <4>1. Divisible(full')
        BY <3>1 DEF RepliesReadAlike, ReadsAlike
      <4>2. sent' = Streamed(full') \/ sent' = Visible(full')
        BY <2>1, <2>2, <2>4, <4>1, OverSends
      <4> QED BY <3>1, <4>2, OverMatches
    <3>2. stored = Nothing
      BY <2>2 DEF FoundInv
    <3> QED BY <2>2, <2>4, <3>1, <3>2 DEF FoundInv, FoundAgain
  <2> QED BY <2>3, <2>4
<1>2. CASE Store
  BY <1>2, StoreFinds
<1>3. ASSUME NEW i \in Images, Publish(i) PROVE FoundInv'
  BY <1>3, PublishFinds
<1>4. CASE TextChunk \/ Breaks \/ Done \/ CallerLeaves
  BY <1>4, OthersFind DEF TextChunk, Breaks, Fail, Done, CallerLeaves
<1>5. ASSUME NEW i \in Images, ImageChunk(i) \/ DownloadEnds(i) PROVE FoundInv'
  BY <1>5, OthersFind DEF ImageChunk, DownloadEnds
<1>6. CASE UNCHANGED vars
  BY <1>6, OthersFind DEF vars
<1> QED BY <1>1, <1>2, <1>3, <1>4, <1>5, <1>6 DEF Next

\* If every reply hashes, streamed in one chunk, like what is stored of it, then so
\* does every turn, however its reply was cut, with any images and any way of
\* publishing them: the caller's next request finds the conversation.
THEOREM TurnIsFoundAgain == LinksApart /\ RepliesReadAlike => (Spec => []FoundAgain)
<1> SUFFICES ASSUME LinksApart, RepliesReadAlike PROVE Spec => []FoundAgain
  OBVIOUS
<1>1. ChatTypeOK /\ Follows /\ FoundInv /\ [Next]_vars => (ChatTypeOK /\ Follows /\ FoundInv)'
  BY StepKeepsTypes, StepFollows, StepFinds DEF ChatTypeOK
<1>2. Init => ChatTypeOK /\ FoundInv
  BY NewIsFilter, Empty, SentTyped DEF Init, ChatTypeOK, StreamTypes, FoundInv, FoundAgain
<1>3. FoundInv => FoundAgain
  BY DEF FoundInv
<1> QED BY <1>1, <1>2, <1>3, InitFollows, PTL DEF Spec

-----------------------------------------------------------------------------
(* Nothing hidden is sent.                                                 *)

\* The start of a reply, shown as in one chunk, shows no hidden word; no more does
\* what is given out of it before the filter is flushed.
LEMMA StartHides ==
  ASSUME RepliesHide, NEW r \in Replies, NEW t, Part(t, r)
  PROVE  /\ t \in Texts /\ Divisible(t) /\ Where(Hidden, Streamed(t)) = {}
         /\ Where(Hidden, Given(t)) = {}
<1>1. r \in Texts /\ t \in Texts
  BY StreamAssumption DEF Part
<1>2. PICK n \in Nat, l \in Nat : n = Len(t) /\ l = Len(r) /\ n <= l
  BY <1>1, TextIs DEF Part
<1>3. PICK k : k = n + 1 /\ k \in 1 .. Len(r) + 1 /\ k - 1 = n /\ n \in 0 .. Len(r)
  BY <1>2
<1>4. t = Upto(r, n)
  <2>1. PICK u \in Texts : u = Upto(r, n) /\ Len(u) = n /\ \A i \in 1 .. n : u[i] = r[i]
    BY <1>1, <1>3, UptoIs
  <2>2. \A i \in 1 .. Len(t) : t[i] = u[i]
    BY <1>2, <2>1 DEF Part
  <2> QED BY <1>1, <1>2, <2>1, <2>2, SameText
<1>5. PICK c \in Texts : c = From(r, k) /\ r = t \o c
  <2>1. From(r, k) \in Texts /\ r = Upto(r, k - 1) \o From(r, k)
    BY <1>1, <1>3, CutInTwo
  <2> QED BY <1>3, <1>4, <2>1
<1>6. Divisible(t)
  <2>1. Divisible(r)
    BY DEF RepliesHide
  <2>2. Divisible(t \o c)
    BY <1>5, <2>1
  <2> QED BY <1>1, <2>2, NextChunk
<1>7. Where(Hidden, Streamed(t)) = {}
  BY <1>3, <1>4 DEF RepliesHide
<1>8. PICK g \in Texts, h \in Texts : g = Given(t) /\ h = Flush(Taken(t)) /\ Streamed(t) = g \o h
  BY <1>1, StreamedIs
<1>9. Where(Hidden, g) = {}
  BY <1>7, <1>8, WhereJoined
<1> QED BY <1>1, <1>6, <1>7, <1>8, <1>9

HidesInv == ~request.structured => sent \in Texts /\ Where(Hidden, sent) = {}

LEMMA LinksHide ==
  ASSUME RepliesHide, NEW i \in Images
  PROVE  Where(Hidden, Link(i)) = {}
<1>1. PICK l \in Texts : l = Link(i) /\ Len(l) = 3 /\ l[1] = "\n" /\ l[2] = "\n" /\ l[3] = i
  BY SentIsText DEF Link
<1>2. \A k \in 1 .. Len(l) : l[k] \in Images \cup {"\n"}
  BY <1>1
<1>3. ASSUME NEW k \in Where(Hidden, l) PROVE FALSE
  <2>1. k \in 1 .. Len(l) /\ l[k] \in Hidden
    BY WhereIs
  <2> QED BY <1>2, <2>1 DEF RepliesHide
<1> QED BY <1>1, <1>3

LEMMA PublishHides ==
  ASSUME RepliesHide, HidesInv, NEW i \in Images, Publish(i)
  PROVE  HidesInv'
<1>1. request' = request /\ sent' = sent \o Link(i)
  BY DEF Publish
<1>2. CASE ~request.structured
  <2>1. PICK s \in Texts, l \in Texts : /\ s = sent /\ l = Link(i)
                                        /\ Where(Hidden, s) = {} /\ Where(Hidden, l) = {}
    BY <1>2, SentIsText, LinksHide DEF HidesInv
  <2>2. s \o l \in Texts /\ Where(Hidden, s \o l) = {}
    BY <2>1, TwoTexts, WhereJoined
  <2> QED BY <1>1, <2>1, <2>2 DEF HidesInv
<1> QED BY <1>1, <1>2 DEF HidesInv

\* A text that is part of a reply, on the way and when it is over.
LEMMA PartHides ==
  ASSUME RepliesHide, NEW t, OfOne(t), Replies # {}
  PROVE  /\ t \in Texts /\ Divisible(t) /\ Where(Hidden, Streamed(t)) = {}
         /\ Where(Hidden, Given(t)) = {}
<1>1. PICK r \in Replies : Part(t, r)
  <2>1. CASE t = <<>>
    BY <2>1, EmptyIsPart, StreamAssumption
  <2>2. CASE t # <<>>
    BY <2>2 DEF OfOne
  <2> QED BY <2>1, <2>2
<1> QED BY <1>1, StartHides

LEMMA ArrivingFromReplies ==
  ASSUME NEW replies, replies \subseteq Replies
  PROVE  /\ Arriving(replies) # {} => Replies # {}
         /\ Showing(replies) # {} => Replies # {}
<1>1. Showing(replies) # {} => Replies # {}
  BY DEF Showing
<1>2. Arriving(replies) # {} => Showing(replies) # {}
  BY DEF Arriving
<1> QED BY <1>1, <1>2

LEMMA StepHides ==
  ASSUME RepliesApart, RepliesHide, StreamTypes, OfOne(full), Follows, HidesInv, [Next]_vars
  PROVE  HidesInv'
<1>1. OfOne(full)'
  BY StepKeepsOfOne
<1>2. Follows'
  BY StepFollows
<1>3. CASE TextChunk
  <2>1. Replies # {} /\ pc' = "streaming" /\ request' = request
    BY <1>3, ArrivingFromReplies DEF TextChunk
  <2>2. PICK t : t = full' /\ OfOne(t)
    BY <1>1 DEF OfOne
  <2>3. t \in Texts /\ Divisible(t) /\ Where(Hidden, Given(t)) = {} /\ Given(t) \in Texts
    BY <2>1, <2>2, PartHides, StreamedIs
  <2>4. ~request'.structured => sent' = Given(t)
    BY <1>2, <2>1, <2>2, <2>3 DEF Follows
  <2> QED BY <2>3, <2>4 DEF HidesInv
<1>4. CASE StreamOver
  <2>1. PICK final \in Showing(Replies), valid \in BOOLEAN : Closes(Drift(final), valid)
    BY <1>4 DEF StreamOver
  <2>2. /\ Replies # {} /\ pc = "streaming" /\ Drift(final) \in Texts
        /\ request' = request
    BY <1>4, <2>1, ArrivingFromReplies, ArrivingIsText DEF StreamOver, Closes, Fail, StreamTypes
  <2>3. PICK t : t = full' /\ OfOne(t)
    BY <1>1 DEF OfOne
  <2>4. t \in Texts /\ Divisible(t) /\ Where(Hidden, Streamed(t)) = {} /\ Streamed(t) \in Texts
    BY <2>2, <2>3, PartHides, StreamedIs
  <2>5. ~request.structured => sent' = Streamed(t)
    BY <2>1, <2>2, <2>3, <2>4, OverSends
  <2> QED BY <2>2, <2>4, <2>5 DEF HidesInv
<1>5. ASSUME NEW i \in Images, Publish(i) PROVE HidesInv'
  BY <1>5, PublishHides
<1>6. CASE UNCHANGED <<request, sent>>
  BY <1>6 DEF HidesInv
<1>7. CASE Breaks \/ Store \/ Done \/ CallerLeaves
  BY <1>6, <1>7 DEF Breaks, Fail, Store, Done, CallerLeaves
<1>8. ASSUME NEW i \in Images, ImageChunk(i) \/ DownloadEnds(i) PROVE HidesInv'
  BY <1>6, <1>8 DEF ImageChunk, DownloadEnds
<1>9. CASE UNCHANGED vars
  BY <1>6, <1>9 DEF vars
<1> QED BY <1>3, <1>4, <1>5, <1>7, <1>8, <1>9 DEF Next

LEMMA HidesIsHidden == HidesInv => NothingHiddenSent
<1> SUFFICES ASSUME HidesInv, ~request.structured, NEW i \in DOMAIN sent, sent[i] \in Hidden
             PROVE  FALSE
  BY DEF NothingHiddenSent
<1>1. i \in Where(Hidden, sent)
  BY DEF Where
<1> QED BY <1>1 DEF HidesInv

LEMMA NothingSentYet == full = <<>> /\ sent = <<>> => OfOne(full) /\ HidesInv
<1> SUFFICES ASSUME full = <<>>, sent = <<>> PROVE OfOne(full) /\ HidesInv
  OBVIOUS
<1>1. PICK e \in Texts : e = <<>> /\ Len(e) = 0
  BY Empty
<1>2. ASSUME NEW i \in Where(Hidden, e) PROVE FALSE
  <2>1. i \in 1 .. Len(e)
    BY WhereIs
  <2> QED BY <1>1, <2>1
<1> QED BY <1>1, <1>2 DEF OfOne, HidesInv

\* If no start of a reply, streamed in one chunk, shows a word from inside a tool call,
\* a tool's tag or a widget, then no such word is ever sent: at no cut, at no place
\* where the reply breaks off, and with another reply swapped in midway.
THEOREM HiddenIsKept == RepliesApart /\ RepliesHide => (Spec => []NothingHiddenSent)
<1> SUFFICES ASSUME RepliesApart, RepliesHide PROVE Spec => []NothingHiddenSent
  OBVIOUS
<1> DEFINE Inv == ChatTypeOK /\ OfOne(full) /\ Follows /\ HidesInv
<1>1. Inv /\ [Next]_vars => Inv'
  BY StepKeepsTypes, StepKeepsOfOne, StepFollows, StepHides DEF ChatTypeOK
<1>2. Init => Inv
  BY NewIsFilter, Empty, SentTyped, InitFollows, NothingSentYet DEF Init, ChatTypeOK, StreamTypes
<1>3. Inv => NothingHiddenSent
  BY HidesIsHidden
<1> HIDE DEF Inv
<1> QED BY <1>1, <1>2, <1>3, PTL DEF Spec
=============================================================================
