---------------------------- MODULE ServingProofs ----------------------------
(***************************************************************************)
(* The body limit, for every ceiling, every declared length and every way  *)
(* to cut a body into messages.  Then what holds of the streams and of the *)
(* body limit next to each other: the invariants of each part, kept by its *)
(* own steps, by the others' steps, and by the way a part rests.  Then the *)
(* native stream, which sends what it stores, and the dialogues, whose     *)
(* results go to Google under the names of their calls.                    *)
(***************************************************************************)
EXTENDS Serving, ResponsesStreamProofs

-----------------------------------------------------------------------------
(* The body limit.                                                         *)

Answers1 == {<<>>, <<"app">>, <<"tooLarge">>}

\* What the counters and the answer are at each point.  Before its end a request has
\* no answer; delivered follows received until a message takes the sum over.
BodyInv ==
  /\ BodyTypeOK
  /\ answers \in Answers1
  /\ bodyPc # "over" => answers = <<>>
  /\ bodyPc = "arrived" => received = 0
  /\ ~overflowed => delivered = received /\ (limit > 0 => received <= limit)
  /\ overflowed => limit > 0 /\ received > limit /\ delivered <= limit
  /\ overflowed => bodyPc \in {"raised", "returned", "over"}
  /\ bodyPc \in {"raised", "returned"} => overflowed
  /\ bodyPc = "over" /\ overflowed => answers = <<"tooLarge">>
  /\ answers = <<"tooLarge">> => limit > 0 /\ (received > limit \/ declared > limit)

\* Answering an unanswered request leaves one answer.
LEMMA FirstAnswer ==
  ASSUME answers = <<>>
  PROVE  /\ Append(answers, "app") = <<"app">>
         /\ Append(answers, "tooLarge") = <<"tooLarge">>
         /\ <<"app">> # <<"tooLarge">>
<1>1. <<"app">>[1] = "app" /\ <<"tooLarge">>[1] = "tooLarge" /\ "app" # "tooLarge"
  OBVIOUS
<1> QED
  BY <1>1

LEMMA AnswersTyped == Answers1 \subseteq Seq({"app", "tooLarge", "error"})
  BY DEF Answers1

LEMMA InitHolds == BodyInit => BodyInv
<1> SUFFICES ASSUME BodyInit PROVE BodyInv
  OBVIOUS
<1>1. limit \in Nat /\ declared \in Int
  BY BodyAssumption DEF BodyInit, Ceiling
<1>2. BodyTypeOK /\ answers \in Answers1
  BY <1>1, AnswersTyped DEF BodyInit, BodyTypeOK, Answers1
<1>3. answers # <<"tooLarge">>
  BY DEF BodyInit
<1> QED
  BY <1>1, <1>2, <1>3 DEF BodyInit, BodyInv

LEMMA StepHolds == BodyInv /\ [BodyNext]_bodyVars => BodyInv'
<1> SUFFICES ASSUME BodyInv, [BodyNext]_bodyVars PROVE BodyInv'
  OBVIOUS
<1> USE DEF BodyInv, BodyTypeOK
<1>1. CASE Refuses
  BY <1>1, FirstAnswer, AnswersTyped DEF Refuses, Answers1
<1>2. CASE Passes
  BY <1>2 DEF Passes
<1>3. CASE AppAnswers
  BY <1>3, FirstAnswer, AnswersTyped DEF AppAnswers, Answers1
<1>4. CASE AppFails
  BY <1>4 DEF AppFails, Envelope
<1>5. CASE TooLarge
  BY <1>5, FirstAnswer, AnswersTyped DEF TooLarge, Answers1
<1>6. CASE Disconnects
  BY <1>6 DEF Disconnects
<1>7. ASSUME NEW n \in Sizes, NEW last \in BOOLEAN, Receive(n, last)
      PROVE  BodyInv'
  <2>1. n \in Nat /\ limit \in Nat /\ received \in Nat
    BY BodyAssumption
  <2>2. /\ bodyPc = "reading" /\ received' = received + n
        /\ UNCHANGED <<limit, declared, answers>>
    BY <1>7 DEF Receive
  <2>3. ~overflowed /\ delivered = received /\ answers = <<>>
    BY <2>2
  <2>4. CASE Over(n)
    <3>1. overflowed' = TRUE /\ bodyPc' = "raised" /\ delivered' = delivered
      BY <1>7, <2>4 DEF Receive
    <3>2. limit > 0 /\ received + n > limit /\ received <= limit
      BY <2>3, <2>4 DEF Over
    <3> QED
      BY <2>1, <2>2, <2>3, <3>1, <3>2
  <2>5. CASE ~Over(n)
    <3>1. /\ delivered' = delivered + n /\ overflowed' = overflowed
          /\ bodyPc' \in {"read", "reading"}
      BY <1>7, <2>5 DEF Receive
    <3>2. limit > 0 => received + n <= limit
      BY ONLY <2>1, <2>5 DEF Over
    <3> QED
      BY <2>1, <2>2, <2>3, <3>1, <3>2
  <2> QED
    BY <2>4, <2>5
<1>8. CASE UNCHANGED bodyVars
  BY <1>8 DEF bodyVars
<1> QED
  BY <1>1, <1>2, <1>3, <1>4, <1>5, <1>6, <1>7, <1>8 DEF BodyNext

THEOREM BodyInvariant == BodySpec => []BodyInv
  BY InitHolds, StepHolds, PTL DEF BodySpec

LEMMA BodyInvBounds == BodyInv => BodyBounded /\ OneAnswer
<1> SUFFICES ASSUME BodyInv PROVE BodyBounded /\ OneAnswer
  OBVIOUS
<1>1. BodyBounded
  BY DEF BodyInv, BodyBounded, BodyTypeOK
<1>2. Len(answers) <= 1
  <2>1. CASE answers = <<>>
    BY <2>1
  <2>2. CASE answers = <<"app">>
    BY <2>2
  <2>3. CASE answers = <<"tooLarge">>
    BY <2>3
  <2> QED
    BY <2>1, <2>2, <2>3 DEF BodyInv, Answers1
<1> QED
  BY <1>1, <1>2 DEF BodyInv, OneAnswer

\* The application is never given more than the ceiling: delivered is what was
\* received until the sum crosses the limit, and stays there.
THEOREM NeverTooMuch == BodySpec => []BodyBounded
  BY BodyInvBounds, BodyInvariant, PTL

\* A request gets one answer at most, and the middleware's 413 exactly when a body
\* over the ceiling was read or declared.
THEOREM AnsweredOnce == BodySpec => []OneAnswer
  BY BodyInvBounds, BodyInvariant, PTL

-----------------------------------------------------------------------------
(* The parts next to each other.                                           *)

\* On the surfaces that have no output items there are none.
ServingInvariant ==
  /\ NoneLeft /\ BodyInv
  /\ surface = "responses" => Met /\ ItemsInvariant /\ OutputInvariant /\ ToldInvariant
  /\ surface # "responses" => ItemsRest

\* A step is one of the surface's part, and the other parts rest.
PartSteps ==
  /\ UNCHANGED surface
  /\ [BodyNext]_bodyVars
  /\ \/ surface = "responses" /\ [ResponsesNext]_responsesVars
     \/ surface # "responses" /\ [Next]_vars /\ UNCHANGED <<choice, itemVars>>

LEMMA StepsOfParts == [ServingNext]_servingVars => PartSteps
<1> SUFFICES ASSUME [ServingNext]_servingVars PROVE PartSteps
  OBVIOUS
<1>1. CASE OnChat /\ Next
  BY <1>1 DEF OnChat, PartSteps
<1>2. CASE OnResponses /\ ResponsesNext
  BY <1>2 DEF OnResponses, PartSteps
<1>3. CASE \/ OnNative /\ NativeNext
           \/ InDialogue /\ DialogueNext
           \/ OnBody /\ BodyNext
           \/ UNCHANGED servingVars
  <2>1. UNCHANGED surface /\ UNCHANGED responsesVars /\ [BodyNext]_bodyVars
    BY <1>3 DEF OnNative, InDialogue, OnBody, servingVars
  <2>2. UNCHANGED vars /\ UNCHANGED <<choice, itemVars>>
    BY <2>1 DEF responsesVars
  <2> QED BY <2>1, <2>2 DEF PartSteps
<1> QED BY <1>1, <1>2, <1>3 DEF ServingNext

LEMMA ItemsStayAtRest == ItemsRest /\ UNCHANGED <<choice, itemVars>> => ItemsRest'
BY DEF ItemsRest, itemVars

LEMMA ServingStep ==
  ASSUME ServingInvariant, [ServingNext]_servingVars
  PROVE  ServingInvariant' /\ Keeps(items, items')
<1>1. PartSteps
  BY StepsOfParts
<1>2. BodyInv'
  BY <1>1, StepHolds DEF PartSteps, ServingInvariant
<1>3. CASE surface = "responses" /\ [ResponsesNext]_responsesVars
  <2>1. surface' = "responses"
    BY <1>1, <1>3 DEF PartSteps
  <2>2. /\ NoneLeft' /\ Met' /\ ItemsInvariant' /\ OutputInvariant' /\ ToldInvariant'
        /\ Keeps(items, items')
    BY <1>3, ResponseKeepsNoneLeft, StepKeepsMet, ItemsStep, OutputStep, ToldStep DEF ServingInvariant
  <2> QED BY <1>2, <2>1, <2>2 DEF ServingInvariant
<1>4. CASE surface # "responses" /\ [Next]_vars /\ UNCHANGED <<choice, itemVars>>
  <2>1. surface' # "responses"
    BY <1>1, <1>4 DEF PartSteps
  <2>2. NoneLeft' /\ ItemsRest'
    BY <1>4, StepKeepsNoneLeft, ItemsStayAtRest DEF ServingInvariant
  <2>3. Keeps(items, items')
    BY <1>4, KeepsSelf DEF itemVars
  <2> QED BY <1>2, <2>1, <2>2, <2>3 DEF ServingInvariant
<1> QED BY <1>1, <1>3, <1>4 DEF PartSteps

LEMMA BodyAtRest == BodyRests => BodyInv
<1> SUFFICES ASSUME BodyRests PROVE BodyInv
  OBVIOUS
<1>1. answers = <<>> /\ answers # <<"tooLarge">>
  BY DEF BodyRests
<1>2. answers \in Answers1
  BY <1>1 DEF Answers1
<1>3. BodyTypeOK
  <2>1. limit \in Nat /\ declared \in Int /\ received \in Nat /\ delivered \in Nat
    BY DEF BodyRests
  <2>2. answers \in Seq({"app", "tooLarge", "error"})
    BY <1>2, AnswersTyped
  <2> QED BY <2>1, <2>2 DEF BodyRests, BodyTypeOK
<1> QED BY <1>1, <1>2, <1>3 DEF BodyRests, BodyInv

LEMMA ServingBegins == ServingInit => ServingInvariant
<1> SUFFICES ASSUME ServingInit PROVE ServingInvariant
  OBVIOUS
<1>1. BodyInv
  BY BodyAtRest, InitHolds DEF ServingInit
<1>2. CASE surface = "responses" /\ ResponsesInit
  <2>1. NoneLeft /\ Met
    BY <1>2 DEF ResponsesInit, NoneLeft, Ended, Met
  <2>2. ItemsInvariant /\ OutputInvariant /\ ToldInvariant
    BY <1>2, ItemsInit, OutputInit, ToldInit
  <2> QED BY <1>1, <1>2, <2>1, <2>2 DEF ServingInvariant
<1>3. CASE surface = "chat" /\ Init /\ ItemsRest
  <2>1. NoneLeft
    BY <1>3 DEF Init, NoneLeft, Ended
  <2> QED BY <1>1, <1>3, <2>1 DEF ServingInvariant
<1>4. CASE surface \in {"native", "dialogue", "body"} /\ StreamRests /\ ItemsRest
  <2>1. NoneLeft
    BY <1>4 DEF StreamRests, NoneLeft, Running
  <2> QED BY <1>1, <1>4, <2>1 DEF ServingInvariant
<1> QED BY <1>2, <1>3, <1>4 DEF ServingInit

-----------------------------------------------------------------------------
(* The theorems of the parts, for what serves a request.                   *)

LEMMA Restful ==
  ASSUME ItemsRest
  PROVE  ItemsClosed /\ ChoiceHonoured
BY DEF ItemsRest, ItemsClosed, ChoiceHonoured

LEMMA ServingHolds ==
  ServingInvariant => Reaped /\ ItemsClosed /\ ChoiceHonoured /\ ResponsesOutput
                        /\ BodyBounded /\ OneAnswer
<1> SUFFICES ASSUME ServingInvariant
             PROVE  Reaped /\ ItemsClosed /\ ChoiceHonoured /\ ResponsesOutput
                      /\ BodyBounded /\ OneAnswer
  OBVIOUS
<1>1. Reaped
  BY DEF ServingInvariant, NoneLeft, Reaped
<1>2. BodyBounded /\ OneAnswer
  BY BodyInvBounds DEF ServingInvariant
<1>3. ItemsClosed /\ ChoiceHonoured
  <2>1. CASE surface = "responses"
    BY <2>1, MetIsHonoured, DoneItemsAreClosed DEF ServingInvariant
  <2>2. CASE surface # "responses"
    BY <2>2, Restful DEF ServingInvariant
  <2> QED BY <2>1, <2>2
<1>4. ResponsesOutput
  BY OutputListed DEF ServingInvariant, ResponsesOutput
<1> QED BY <1>1, <1>2, <1>3, <1>4

\* Next to each other as alone: no download outlives its stream, items are closed and
\* forced choices met on the surface that has them, bodies stay within the ceiling.
THEOREM ServedAsPromised ==
  ServingSpec => [](Reaped /\ ItemsClosed /\ ChoiceHonoured /\ BodyBounded /\ OneAnswer)
<1>1. ServingInvariant /\ [ServingNext]_servingVars => ServingInvariant'
  BY ServingStep
<1> QED BY <1>1, ServingBegins, ServingHolds, PTL DEF ServingSpec

\* response.completed lists what was streamed, whatever else is served.
THEOREM CompletedListsStreamed == ServingSpec => []ResponsesOutput
<1>1. ServingInvariant /\ [ServingNext]_servingVars => ServingInvariant'
  BY ServingStep
<1> QED BY <1>1, ServingBegins, ServingHolds, PTL DEF ServingSpec

\* The items of a response are told all the reasoning and all the text that is sent,
\* and nothing else, whatever else is served.
THEOREM ServedIsTold == ServingSpec => []ResponsesTold
<1>1. ServingInvariant /\ [ServingNext]_servingVars => ServingInvariant'
  BY ServingStep
<1>2. ServingInvariant => ResponsesTold
  BY DEF ServingInvariant, ToldInvariant, ResponsesTold
<1> QED BY <1>1, <1>2, ServingBegins, PTL DEF ServingSpec

\* Items that are done stay, whatever else is served.
THEOREM ServedItemsStay == ServingSpec => DoneIsFinal
<1>1. ServingInvariant /\ [ServingNext]_servingVars => ServingInvariant'
  BY ServingStep
<1>2. ServingInvariant /\ [ServingNext]_servingVars =>
        [\A i \in DOMAIN items :
           /\ i \in DOMAIN items' /\ items'[i].kind = items[i].kind
           /\ ~items[i].open => items'[i] = items[i]]_responsesVars
  BY ServingStep DEF Keeps
<1> QED BY <1>1, <1>2, ServingBegins, PTL DEF ServingSpec, DoneIsFinal

-----------------------------------------------------------------------------
(* A reply that is swapped midway.                                         *)

\* Neither surface that streams deltas splices a replacement onto what it has shown.
THEOREM ServedUnspliced == RepliesApart => (ServingSpec => []NoSplice)
<1> SUFFICES ASSUME RepliesApart PROVE ServingSpec => []NoSplice
  OBVIOUS
<1>1. ServingInit => OfOne(full)
  BY EmptySeq DEF ServingInit, Init, ResponsesInit, StreamRests, OfOne, Texts
<1>2. OfOne(full) /\ [ServingNext]_servingVars => OfOne(full)'
  BY StepsOfParts, StepKeepsOfOne, ResponseKeepsOfOne DEF PartSteps
<1> QED BY <1>1, <1>2, OfOneIsUnspliced, PTL DEF ServingSpec

-----------------------------------------------------------------------------
(* The text of a stream.                                                   *)

\* A stream is one of a response or one of a chat, which may have ended.
StreamInvariant ==
  /\ surface = "responses" => ResponseInvariant
  /\ surface # "responses" => ChatTypeOK /\ Follows

LEMMA StreamStep ==
  ASSUME StreamInvariant, [ServingNext]_servingVars
  PROVE  /\ StreamInvariant'
         /\ StreamTypes /\ Follows
         /\ \/ surface = "responses" /\ ResponseInvariant /\ [ResponsesNext]_responsesVars
            \/ [Next]_vars
<1>1. PartSteps
  BY StepsOfParts
<1>2. CASE surface = "responses" /\ [ResponsesNext]_responsesVars
  <2>1. ResponseInvariant' /\ surface' = "responses"
    BY <1>1, <1>2, ResponseStep DEF StreamInvariant, PartSteps
  <2> QED BY <1>2, <2>1, MessageHolds DEF StreamInvariant
<1>3. CASE surface # "responses" /\ [Next]_vars
  <2>1. ChatTypeOK' /\ Follows' /\ surface' # "responses"
    BY <1>1, <1>3, StepKeepsTypes, StepFollows DEF StreamInvariant, PartSteps, ChatTypeOK
  <2> QED BY <1>3, <2>1 DEF StreamInvariant, ChatTypeOK
<1> QED BY <1>1, <1>2, <1>3 DEF PartSteps

LEMMA StreamBegins == ServingInit => StreamInvariant /\ FoundInv /\ OfOne(full) /\ HidesInv
<1> SUFFICES ASSUME ServingInit
             PROVE  StreamInvariant /\ FoundInv /\ OfOne(full) /\ HidesInv
  OBVIOUS
<1>1. CASE surface = "responses" /\ ResponsesInit
  BY <1>1, ResponseBegins DEF StreamInvariant
<1>2. CASE surface # "responses" /\ (Init \/ StreamRests)
  <2>1. /\ full = <<>> /\ sent = <<>> /\ filter = NewFilter /\ stored = Nothing
        /\ request \in Requests /\ pc \in {"streaming", "left"}
        /\ media = [i \in Images |-> "unseen"]
    <3>1. [structured |-> FALSE, strict |-> FALSE, forced |-> FALSE] \in Requests
      BY DEF Requests
    <3>2. CASE Init
      BY <3>2 DEF Init
    <3>3. CASE StreamRests
      BY <3>1, <3>3 DEF StreamRests
    <3> QED BY <1>2, <3>2, <3>3
  <2>2. ChatTypeOK
    BY <2>1, NewIsFilter, Empty, SentTyped DEF ChatTypeOK, StreamTypes, Ended
  <2>3. Follows
    BY <2>1, NothingTaken DEF Follows
  <2>4. FoundInv
    BY <2>1 DEF FoundInv, FoundAgain
  <2> QED BY <1>2, <2>1, <2>2, <2>3, <2>4, NothingSentYet DEF StreamInvariant
<1> QED BY <1>1, <1>2 DEF ServingInit

\* On both surfaces that stream deltas the turn that is stored is found by what was
\* sent, whatever else is served.
THEOREM ServedIsFoundAgain ==
  LinksApart /\ RepliesReadAlike /\ RepliesOpen => (ServingSpec => []FoundAgain)
<1> SUFFICES ASSUME LinksApart, RepliesReadAlike, RepliesOpen
             PROVE  ServingSpec => []FoundAgain
  OBVIOUS
<1>1. StreamInvariant /\ FoundInv /\ [ServingNext]_servingVars => (StreamInvariant /\ FoundInv)'
  BY StreamStep, StepFinds, ResponseFinds, MessageHolds
<1>2. FoundInv => FoundAgain
  BY DEF FoundInv
<1> QED BY <1>1, <1>2, StreamBegins, PTL DEF ServingSpec

\* And no hidden word is sent on either, at any cut and with any swap.
THEOREM ServedHidden == RepliesApart /\ RepliesHide => (ServingSpec => []NothingHiddenSent)
<1> SUFFICES ASSUME RepliesApart, RepliesHide PROVE ServingSpec => []NothingHiddenSent
  OBVIOUS
<1> DEFINE Inv == StreamInvariant /\ OfOne(full) /\ HidesInv
<1>1. Inv /\ [ServingNext]_servingVars => Inv'
  <2>1. ASSUME Inv, [ServingNext]_servingVars PROVE Inv'
    <3>1. /\ StreamInvariant' /\ StreamTypes /\ Follows
          /\ \/ surface = "responses" /\ ResponseInvariant /\ [ResponsesNext]_responsesVars
             \/ [Next]_vars
      BY <2>1, StreamStep
    <3>2. CASE ResponseInvariant /\ [ResponsesNext]_responsesVars
      <4>1. OfOne(full)' /\ HidesInv'
        BY <2>1, <3>2, ResponseKeepsOfOne, ResponseHides, MessageHolds
      <4> QED BY <3>1, <4>1
    <3>3. CASE [Next]_vars
      <4>1. OfOne(full)' /\ HidesInv'
        BY <2>1, <3>1, <3>3, StepKeepsOfOne, StepHides
      <4> QED BY <3>1, <4>1
    <3> QED BY <3>1, <3>2, <3>3
  <2> QED BY <2>1
<1>2. ServingInit => Inv
  BY StreamBegins
<1>3. Inv => NothingHiddenSent
  BY HidesIsHidden
<1> HIDE DEF Inv
<1> QED BY <1>1, <1>2, <1>3, PTL DEF ServingSpec

-----------------------------------------------------------------------------
(* Native endpoints.                                                       *)

\* The stages before the text is whole, in which nothing is stored.
NativeFollows ==
  /\ native.pc # "done" => native.stored = Nothing
  /\ native.pc = "streaming" =>
       /\ native.structured => native.sent = <<>>
       /\ ~native.structured /\ Divisible(native.full) =>
            native.sent = Given(native.full) /\ native.filter = Taken(native.full)
  /\ native.pc \notin {"streaming", "failed", "left"} /\ native.agrees /\ native.full \in Native =>
       Fuzzy(native.sent) = Fuzzy(Visible(native.full))

LEMMA NativeParts ==
  ASSUME native \in Generators
  PROVE  /\ native.structured \in BOOLEAN /\ native.forced \in BOOLEAN
         /\ native.full \in Texts /\ native.filter \in Filters /\ native.sent \in Texts
         /\ native.images \in Seq(Images) /\ native.links \in Seq(Images)
         /\ native.text \in Texts /\ native.had \in Texts /\ native.swaps \in Nat
BY DEF Generators

LEMMA NativeText ==
  ASSUME native \in Generators, NativeChunk
  PROVE  \E delta \in Texts, text \in Texts : NativeTakes(text, delta)
<1>1. PICK text \in Showing(Native) : \E delta \in Deltas(native.had, text) : NativeTakes(text, delta)
  BY DEF NativeChunk
<1>2. PICK delta \in Deltas(native.had, text) : NativeTakes(text, delta)
  BY <1>1
<1>3. text \in Texts /\ native.had \in Texts
  BY ShowingIsText, NativeAssumption, NativeParts
<1> QED BY <1>2, <1>3, DeltaIsText

\* What a delta does to the filter and what the caller is sent of it.
LEMMA NativeTaken ==
  ASSUME native \in Generators, NativeFollows, native.pc = "streaming",
         NEW text \in Texts, NEW delta \in Texts, NativeTakes(text, delta)
  PROVE  native' \in Generators /\ NativeFollows'
<1>1. PICK f \in Filters, s \in Texts, w \in Texts :
        f = native.filter /\ s = native.sent /\ w = native.full
  BY NativeParts
<1>2. PICK next \in Filters :
        next = IF native.structured \/ delta = <<>> THEN Quiet(f) ELSE Process(f, delta)
  BY QuietIs, Processed
<1>3. PICK held \in Filters : held = Quiet(next)
  BY QuietIs
<1>4. PICK o \in Texts, full2 \in Texts, sent2 \in Texts :
        o = next.out /\ full2 = w \o delta /\ sent2 = s \o o
  BY FilterTexts, TwoTexts
<1>5. PICK had2 \in Texts : had2 = IF GoesOn(native.had, text) THEN native.had \o delta ELSE text
  BY NativeParts, TwoTexts
<1>6. PICK swaps2 \in Nat :
        swaps2 = IF GoesOn(native.had, text) THEN native.swaps ELSE native.swaps + 1
  BY NativeParts
<1>7. native' = [native EXCEPT !.text = text, !.full = full2, !.had = had2, !.swaps = swaps2,
                               !.filter = held, !.sent = sent2]
  BY <1>1, <1>2, <1>3, <1>4, <1>5, <1>6, Zenon DEF NativeTakes, Quiet
<1>8. native' \in Generators
  BY <1>7 DEF Generators
<1>9. /\ native'.pc = "streaming" /\ native'.structured = native.structured
      /\ native'.stored = native.stored /\ native'.full = full2
      /\ native'.filter = held /\ native'.sent = sent2
  BY <1>7 DEF Generators
<1>10. PICK e \in Texts : e = <<>>
  BY Empty
<1>11. native.structured \/ delta = <<>> => sent2 = s
  <2>1. ASSUME native.structured \/ delta = <<>> PROVE sent2 = s
    <3>1. o = e
      BY <1>2, <1>4, <1>10, <2>1 DEF Quiet, Filters
    <3> QED BY <1>4, <1>10, <3>1, ThreeTexts
  <2> QED BY <2>1
<1>12. CASE native.structured
  <2>1. sent2 = <<>>
    BY <1>1, <1>11, <1>12 DEF NativeFollows
  <2> QED BY <1>8, <1>9, <1>12, <2>1 DEF NativeFollows
<1>13. CASE ~native.structured /\ Divisible(full2)
  <2>1. /\ Divisible(w) /\ Quiet(Process(Taken(w), delta)) = Taken(full2)
        /\ Given(full2) = Given(w) \o Process(Taken(w), delta).out
    BY <1>4, <1>13, NextChunk DEF Quiet
  <2>2. s = Given(w) /\ f = Taken(w)
    BY <1>1, <1>13, <2>1 DEF NativeFollows
  <2>3. held = Taken(full2) /\ sent2 = Given(full2)
    <3>1. CASE delta = <<>>
      <4>1. full2 = w /\ sent2 = s
        BY <1>4, <1>10, <1>11, <3>1, ThreeTexts
      <4>2. Quiet(Quiet(f)) = f
        <5>1. PICK g \in Filters : g = Process(NewFilter, w)
          BY NewIsFilter, Processed
        <5>2. f = Quiet(g)
          BY <2>2, <5>1 DEF Taken, Quiet
        <5>3. Quiet(Quiet(Quiet(g))) = Quiet(g)
          <6>1. PICK h \in Filters : h = Quiet(g)
            BY QuietIs
          <6>2. Quiet(h) = h
            <7>1. h.out = e
              BY <1>10, <6>1 DEF Quiet, Filters
            <7>2. [h EXCEPT !.out = e] = h
              BY <7>1 DEF Filters
            <7> QED BY <1>10, <7>2, Zenon DEF Quiet
          <6> QED BY <6>1, <6>2
        <5> QED BY <5>2, <5>3
      <4>3. held = f
        BY <1>2, <1>3, <3>1, <4>2
      <4> QED BY <2>2, <4>1, <4>3
    <3>2. CASE delta # <<>>
      <4>1. next = Process(f, delta)
        BY <1>2, <1>13, <3>2
      <4> QED BY <1>3, <1>4, <2>1, <2>2, <4>1
    <3> QED BY <3>1, <3>2
  <2> QED BY <1>8, <1>9, <1>13, <2>3 DEF NativeFollows
<1>14. CASE ~native.structured /\ ~Divisible(full2)
  BY <1>8, <1>9, <1>14 DEF NativeFollows
<1> QED BY <1>12, <1>13, <1>14

\* The end of the reply: if the last text is what was put together, what the caller has
\* then been sent is the reply streamed in one chunk, or as it is to be stored.
LEMMA NativeEnding ==
  ASSUME RepliesReadAlike, native \in Generators, NativeFollows, NativeOver
  PROVE  native' \in Generators /\ NativeFollows'
<1>1. PICK f \in Filters, s \in Texts, w \in Texts :
        f = native.filter /\ s = native.sent /\ w = native.full
  BY NativeParts
<1>2. PICK whole \in Texts : whole = IF native.text # <<>> THEN native.text ELSE w
  BY <1>1, NativeParts
<1>3. PICK part \in Texts :
        part = IF native.structured /\ ~Unmet(whole) THEN Visible(whole) ELSE LastPart
  BY <1>1, WholeReplyEnds, Flushed, Empty DEF LastPart
<1>4. PICK sent2 \in Texts : sent2 = s \o part
  BY TwoTexts
<1>5. PICK agrees2 \in BOOLEAN, pc2 \in {"publishing", "failed"} :
        /\ agrees2 = (w = whole) /\ pc2 = IF Unmet(whole) THEN "failed" ELSE "publishing"
  OBVIOUS
<1>6. /\ native' = [native EXCEPT !.full = whole, !.agrees = agrees2, !.filter = NewFilter,
                                  !.sent = sent2, !.pc = pc2]
      /\ native.pc = "streaming"
  BY <1>1, <1>2, <1>3, <1>4, <1>5, Zenon DEF NativeOver
<1>7. PICK new \in Filters : new = NewFilter
  BY NewIsFilter
<1>8. native' = [native EXCEPT !.full = whole, !.agrees = agrees2, !.filter = new,
                               !.sent = sent2, !.pc = pc2]
  BY <1>6, <1>7
<1>9. native' \in Generators
  BY <1>8 DEF Generators
<1>10. /\ native'.pc = pc2 /\ native'.full = whole /\ native'.agrees = agrees2
       /\ native'.sent = sent2 /\ native'.stored = native.stored
  BY <1>8 DEF Generators
<1>11. ASSUME pc2 = "publishing", agrees2, whole \in Native
       PROVE  Fuzzy(sent2) = Fuzzy(Visible(whole))
  <2>1. w = whole /\ ~Unmet(whole) /\ whole \in Replies
    BY <1>5, <1>11, NativeAssumption
  <2>2. Divisible(whole) /\ Fuzzy(Streamed(whole)) = Fuzzy(Visible(whole))
    BY <2>1 DEF RepliesReadAlike, ReadsAlike
  <2>3. CASE native.structured
    <3>1. PICK e \in Texts : e = <<>>
      BY Empty
    <3>2. s = e /\ part = Visible(whole)
      BY <1>1, <1>3, <1>6, <2>1, <2>3, <3>1 DEF NativeFollows
    <3>3. sent2 = part
      BY <1>4, <3>1, <3>2, ThreeTexts
    <3> QED BY <3>2, <3>3
  <2>4. CASE ~native.structured
    <3>1. s = Given(whole) /\ f = Taken(whole)
      BY <1>1, <1>6, <2>1, <2>2, <2>4 DEF NativeFollows
    <3>2. part = Flush(f)
      BY <1>1, <1>3, <2>4 DEF LastPart
    <3>3. sent2 = Streamed(whole)
      BY <1>4, <3>1, <3>2, StreamedIs
    <3> QED BY <2>2, <3>3
  <2> QED BY <2>3, <2>4
<1> QED BY <1>5, <1>6, <1>9, <1>10, <1>11 DEF NativeFollows

\* Images and frames change nothing that was sent.
LEMMA NativeQuiet ==
  ASSUME native \in Generators, NativeFollows,
         \/ Heartbeat \/ NativeBreaks \/ NativePublish \/ FinalFrame \/ NativeLeaves
         \/ \E i \in NativeImages : NativeImage(i)
  PROVE  native' \in Generators /\ NativeFollows'
<1>1. CASE Heartbeat \/ NativeBreaks \/ NativeLeaves
  <2>1. /\ native' \in Generators /\ native'.pc \in {"failed", "left"}
        /\ native'.stored = native.stored /\ native.pc # "done"
    <3>1. CASE NativeBreaks
      BY <3>1 DEF NativeBreaks, Generators
    <3>2. CASE Heartbeat \/ NativeLeaves
      <4>1. PICK pc2 \in {"failed", "left"} :
              native' = [native EXCEPT !.pc = pc2] /\ native.pc # "done"
        BY <3>2 DEF Heartbeat, NativeLeaves, NativeEnded
      <4> QED BY <4>1 DEF Generators
    <3> QED BY <1>1, <3>1, <3>2
  <2> QED BY <2>1 DEF NativeFollows
<1>2. CASE FinalFrame
  <2>1. /\ native' \in Generators /\ native'.pc = "framed" /\ native.pc = "publishing"
        /\ native'.stored = native.stored /\ native'.full = native.full
        /\ native'.agrees = native.agrees /\ native'.sent = native.sent
    BY <1>2 DEF FinalFrame, Generators
  <2> QED BY <2>1 DEF NativeFollows
<1>3. CASE NativePublish
  <2>1. native.images \in Seq(Images) /\ native.images # <<>> /\ native.links \in Seq(Images)
    BY <1>3, NativeParts DEF NativePublish
  <2>2. /\ Tail(native.images) \in Seq(Images) /\ Head(native.images) \in Images
        /\ Append(native.links, Head(native.images)) \in Seq(Images)
    BY <2>1
  <2>3. PICK images2 \in Seq(Images), links2 \in Seq(Images) :
          native' = [native EXCEPT !.images = images2, !.links = links2]
    BY <1>3, <2>1, <2>2 DEF NativePublish
  <2>4. /\ native' \in Generators /\ native'.pc = native.pc /\ native'.structured = native.structured
        /\ native'.stored = native.stored /\ native'.full = native.full
        /\ native'.agrees = native.agrees /\ native'.sent = native.sent
        /\ native'.filter = native.filter
    BY <2>3 DEF Generators
  <2> QED BY <2>4 DEF NativeFollows
<1>4. ASSUME NEW i \in NativeImages, NativeImage(i)
      PROVE  native' \in Generators /\ NativeFollows'
  <2>1. PICK images2 \in Seq(Images) : native' = [native EXCEPT !.images = images2]
    <3>1. Append(native.images, i) \in Seq(Images)
      BY NativeParts, NativeAssumption
    <3> QED BY <1>4, <3>1 DEF NativeImage
  <2>2. /\ native' \in Generators /\ native'.pc = native.pc /\ native'.structured = native.structured
        /\ native'.stored = native.stored /\ native'.full = native.full
        /\ native'.agrees = native.agrees /\ native'.sent = native.sent
        /\ native'.filter = native.filter
    BY <2>1 DEF Generators
  <2> QED BY <2>2 DEF NativeFollows
<1> QED BY <1>1, <1>2, <1>3, <1>4

LEMMA NativeStoring ==
  ASSUME native \in Generators, NativeFollows, NativeStore
  PROVE  native' \in Generators /\ NativeFollows'
<1>1. PICK v \in Texts : v = Visible(native.full)
  BY NativeParts, WholeReplyEnds
<1>2. native.links \in Texts
  BY NativeParts, StreamAssumption DEF Texts
<1>3. PICK stored2 \in Texts : stored2 = v \o native.links
  BY <1>2, TwoTexts
<1>4. native' = [native EXCEPT !.pc = "done", !.stored = stored2] /\ native.pc = "framed"
  BY <1>1, <1>3 DEF NativeStore
<1>5. /\ native' \in Generators /\ native'.pc = "done"
      /\ native'.full = native.full /\ native'.agrees = native.agrees /\ native'.sent = native.sent
  BY <1>4 DEF Generators
<1> QED BY <1>4, <1>5 DEF NativeFollows

LEMMA NativeStep ==
  ASSUME RepliesReadAlike, native \in Generators, NativeFollows, [NativeNext]_native
  PROVE  native' \in Generators /\ NativeFollows'
<1>1. CASE NativeChunk
  BY <1>1, NativeText, NativeTaken DEF NativeChunk
<1>2. CASE UNCHANGED native
  BY <1>2 DEF NativeFollows
<1> QED BY <1>1, <1>2, NativeEnding, NativeQuiet, NativeStoring DEF NativeNext

LEMMA NativeBegins ==
  ASSUME NEW structured \in BOOLEAN, NEW forced \in BOOLEAN,
         \/ native = NativeStart(structured, forced)
         \/ native = [NativeStart(structured, forced) EXCEPT !.pc = "left"]
  PROVE  native \in Generators /\ NativeFollows
<1>1. PICK e \in Texts, new \in Filters : e = <<>> /\ new = NewFilter
  BY Empty, NewIsFilter
<1>2. PICK none \in Seq(Images) : none = <<>>
  BY EmptySeq
<1>3. PICK at \in {"streaming", "left"} :
        native = [structured |-> structured, forced |-> forced, pc |-> at,
                  full |-> e, filter |-> new, sent |-> e, images |-> none, links |-> none,
                  text |-> e, had |-> e, swaps |-> 0, stored |-> Nothing,
                  agrees |-> FALSE, broken |-> FALSE]
  BY <1>1, <1>2 DEF NativeStart
<1>4. native \in Generators
  BY <1>3 DEF Generators
<1>5. /\ native.stored = Nothing /\ native.pc = at /\ native.agrees = FALSE
      /\ native.full = e /\ native.sent = e /\ native.filter = new
  BY <1>3
<1> QED BY <1>1, <1>4, <1>5, NothingTaken DEF NativeFollows

LEMMA NativeFollowed == NativeFollows => NativeShown
<1> SUFFICES ASSUME NativeFollows, native.stored # Nothing, native.agrees, native.full \in Native
             PROVE  Fuzzy(native.sent) = Fuzzy(Visible(native.full))
  BY DEF NativeShown
<1>1. native.pc = "done"
  BY DEF NativeFollows
<1> QED BY <1>1 DEF NativeFollows

\* On the native surface the caller is sent what is stored of a reply, however it was
\* cut: with empty deltas, and with structured output withheld until the end.
THEOREM NativeIsShown ==
  RepliesReadAlike => (NativeSpec => [](native \in Generators /\ NativeShown))
<1> SUFFICES ASSUME RepliesReadAlike
             PROVE  NativeSpec => [](native \in Generators /\ NativeShown)
  OBVIOUS
<1> DEFINE Inv == native \in Generators /\ NativeFollows
<1>1. NativeInit => Inv
  BY NativeBegins DEF NativeInit
<1>2. Inv /\ [NativeNext]_native => Inv'
  BY NativeStep
<1>3. Inv => native \in Generators /\ NativeShown
  BY NativeFollowed
<1> HIDE DEF Inv
<1> QED BY <1>1, <1>2, <1>3, PTL DEF NativeSpec

\* Next to the other surfaces as alone.
THEOREM ServedIsShown == RepliesReadAlike => (ServingSpec => []NativeShown)
<1> SUFFICES ASSUME RepliesReadAlike PROVE ServingSpec => []NativeShown
  OBVIOUS
<1> DEFINE Inv == native \in Generators /\ NativeFollows
<1>1. ServingInit => Inv
  <2>1. NativeInit => Inv
    BY NativeBegins DEF NativeInit
  <2>2. NativeRests => Inv
    BY NativeBegins DEF NativeRests
  <2> QED BY <2>1, <2>2 DEF ServingInit
<1>2. [ServingNext]_servingVars => [NativeNext]_native
  BY DEF ServingNext, OnChat, OnResponses, OnNative, InDialogue, OnBody, servingVars
<1>3. Inv /\ [ServingNext]_servingVars => Inv'
  BY <1>2, NativeStep
<1>4. Inv => NativeShown
  BY NativeFollowed
<1> HIDE DEF Inv
<1> QED BY <1>1, <1>3, <1>4, PTL DEF ServingSpec

-----------------------------------------------------------------------------
(* Dialogues: a result goes to Google under the name of its call.           *)

\* A sequence, of its own elements.
IsSequence(s) == s \in Seq(Range(s))

LEMMA SequenceIs ==
  ASSUME NEW s, IsSequence(s)
  PROVE  /\ Len(s) \in Nat /\ DOMAIN s = 1 .. Len(s)
         /\ Range(s) = {s[i] : i \in 1 .. Len(s)}
BY DEF IsSequence, Range

LEMMA SequenceOf ==
  ASSUME NEW X, NEW s \in Seq(X)
  PROVE  IsSequence(s) /\ Range(s) \subseteq X
<1>1. Len(s) \in Nat /\ s \in [1 .. Len(s) -> X]
  OBVIOUS
<1>2. Range(s) \subseteq X /\ \A i \in 1 .. Len(s) : s[i] \in Range(s)
  BY <1>1 DEF Range
<1>3. s \in [1 .. Len(s) -> Range(s)]
  BY <1>1, <1>2
<1> QED BY <1>1, <1>2, <1>3 DEF IsSequence

LEMMA SequenceMade ==
  ASSUME NEW n \in Nat, NEW s, DOMAIN s = 1 .. n, s = [i \in 1 .. n |-> s[i]]
  PROVE  IsSequence(s) /\ Len(s) = n
<1>1. s \in [1 .. n -> Range(s)]
  BY DEF Range
<1>2. s \in Seq(Range(s))
  BY <1>1
<1> QED BY <1>1, <1>2 DEF IsSequence

LEMMA EmptySequence == IsSequence(<<>>) /\ Range(<<>>) = {} /\ Len(<<>>) = 0
BY DEF IsSequence, Range

LEMMA OneSequence ==
  ASSUME NEW x, NEW s, s = <<x>>
  PROVE  IsSequence(s) /\ Range(s) = {x} /\ Len(s) = 1 /\ s[1] = x
<1>1. s \in Seq({x}) /\ Len(s) = 1 /\ s[1] = x
  OBVIOUS
<1>2. Range(s) = {x}
  BY <1>1 DEF Range
<1> QED BY <1>1, <1>2 DEF IsSequence

LEMMA JoinedSequences ==
  ASSUME NEW s, IsSequence(s), NEW t, IsSequence(t), NEW u, u = s \o t
  PROVE  /\ IsSequence(u) /\ Range(u) = Range(s) \cup Range(t)
         /\ Len(u) = Len(s) + Len(t) /\ Len(s) \in Nat /\ Len(t) \in Nat
<1> DEFINE X == Range(s) \cup Range(t)
<1>1. s \in Seq(X) /\ t \in Seq(X)
  <2>1. s \in Seq(Range(s)) /\ t \in Seq(Range(t))
    BY DEF IsSequence
  <2> QED BY <2>1
<1>2. u \in Seq(X) /\ Len(u) = Len(s) + Len(t) /\ Len(s) \in Nat /\ Len(t) \in Nat
  BY <1>1
<1>3. \A i \in 1 .. Len(s) : u[i] = s[i]
  BY <1>1
<1>4. \A i \in 1 .. Len(t) : Len(s) + i \in 1 .. Len(u) /\ u[Len(s) + i] = t[i]
  BY <1>1, <1>2
<1>5. IsSequence(u) /\ Range(u) \subseteq X
  BY <1>2, SequenceOf
<1>6. ASSUME NEW x \in X PROVE x \in Range(u)
  <2>1. CASE x \in Range(s)
    <3>1. PICK i \in 1 .. Len(s) : x = s[i]
      BY <2>1, SequenceIs
    <3>2. i \in 1 .. Len(u) /\ u[i] = x
      BY <1>2, <1>3, <3>1
    <3> QED BY <1>5, <3>2, SequenceIs
  <2>2. CASE x \in Range(t)
    <3>1. PICK i \in 1 .. Len(t) : x = t[i]
      BY <2>2, SequenceIs
    <3>2. PICK j \in 1 .. Len(u) : u[j] = x
      BY <1>4, <3>1
    <3> QED BY <1>5, <3>2, SequenceIs
  <2> QED BY <2>1, <2>2
<1> QED BY <1>2, <1>5, <1>6

LEMMA LastOfSequence ==
  ASSUME NEW s, IsSequence(s), s # <<>>
  PROVE  /\ IsSequence(Front(s)) /\ Last(s) \in Range(s)
         /\ Range(s) = Range(Front(s)) \cup {Last(s)}
         /\ s = Append(Front(s), Last(s))
         /\ Len(Front(s)) = Len(s) - 1 /\ \A i \in 1 .. Len(s) - 1 : Front(s)[i] = s[i]
<1>1. Len(s) \in Nat /\ s \in Seq(Range(s)) /\ Len(s) # 0
  BY DEF IsSequence
<1>2. /\ Front(s) \in Seq(Range(s)) /\ Len(Front(s)) = Len(s) - 1
      /\ \A i \in 1 .. Len(s) - 1 : Front(s)[i] = s[i]
  <2>1. PICK n \in Nat : n = Len(s) - 1
    BY <1>1
  <2>2. /\ SubSeq(s, 1, n) \in Seq(Range(s)) /\ Len(SubSeq(s, 1, n)) = n
        /\ \A i \in 1 .. n : SubSeq(s, 1, n)[i] = s[i]
    BY <1>1, <2>1, SMTT(20)
  <2> QED BY <2>1, <2>2 DEF Front
<1>3. Last(s) \in Range(s)
  BY <1>1 DEF Last
<1>4. s = Append(Front(s), Last(s))
  BY <1>1, <1>2 DEF Last
<1>5. IsSequence(Front(s)) /\ Range(Front(s)) \subseteq Range(s)
  BY <1>2, SequenceOf
<1>6. ASSUME NEW x \in Range(s), x # Last(s) PROVE x \in Range(Front(s))
  <2>1. PICK i \in 1 .. Len(s) : x = s[i]
    BY SequenceIs
  <2>2. i \in 1 .. Len(s) - 1
    BY <1>1, <1>6, <2>1 DEF Last
  <2>3. i \in 1 .. Len(Front(s)) /\ Front(s)[i] = x
    BY <1>2, <2>1, <2>2
  <2> QED BY <1>5, <2>3, SequenceIs
<1> QED BY <1>2, <1>3, <1>4, <1>5, <1>6

\* u is s and x.
Grown(s, x, u) ==
  /\ IsSequence(u) /\ Range(u) = Range(s) \cup {x}
  /\ Len(u) = Len(s) + 1 /\ u[Len(s) + 1] = x
  /\ \A i \in 1 .. Len(s) : u[i] = s[i]

LEMMA AppendedSequence ==
  ASSUME NEW s, IsSequence(s), NEW x, NEW u, u = Append(s, x)
  PROVE  Grown(s, x, u)
<1>1. PICK o : o = <<x>>
  OBVIOUS
<1>2. IsSequence(o) /\ Range(o) = {x} /\ Len(o) = 1
  BY <1>1, OneSequence
<1>3. s \in Seq(Range(s) \cup {x})
  <2>1. s \in Seq(Range(s))
    BY DEF IsSequence
  <2> QED BY <2>1
<1>4. u = s \o o
  BY <1>1, <1>3
<1>5. IsSequence(u) /\ Range(u) = Range(s) \cup {x}
  <2>1. IsSequence(u) /\ Range(u) = Range(s) \cup Range(o)
    BY <1>2, <1>4, JoinedSequences
  <2> QED BY <1>2, <2>1
<1>6. Len(u) = Len(s) + 1 /\ u[Len(s) + 1] = x /\ \A i \in 1 .. Len(s) : u[i] = s[i]
  BY <1>3
<1> QED BY <1>5, <1>6 DEF Grown

\* What holds at 0 and is passed on holds up to n.
LEMMA UpTo ==
  ASSUME NEW n \in Nat, NEW A, 0 \in A, \A i \in 0 .. n : i \in A /\ i < n => i + 1 \in A
  PROVE  \A i \in 0 .. n : i \in A
<1> DEFINE bad == {i \in 0 .. n : i \notin A}
<1>1. bad = {}
  <2> SUFFICES ASSUME bad # {} PROVE FALSE
    OBVIOUS
  <2>1. bad \in SUBSET Nat
    OBVIOUS
  <2>2. PICK i \in bad : \A j \in bad : i <= j
    <3> HIDE DEF bad
    <3> QED BY <2>1, Least
  <2>3. i \in 0 .. n /\ i \notin A /\ i # 0
    OBVIOUS
  <2>4. i - 1 \in 0 .. n /\ i - 1 < n /\ (i - 1) + 1 = i /\ i - 1 \notin bad
    BY <2>2, <2>3
  <2> QED BY <2>3, <2>4
<1> QED BY <1>1

\* FlattenSeq puts the sequences one behind the other.
LEMMA FlattenSeqIs ==
  ASSUME NEW ss, NEW n \in Nat, n = Len(ss), n # 0
  PROVE  \E f : /\ FlattenSeq(ss) = f[n]
                /\ \A i \in 1 .. n : f[i] = IF i = 1 THEN ss[i] ELSE f[i - 1] \o ss[i]
<1> DEFINE Is(f, k) == f = [i \in 1 .. k |-> IF i = 1 THEN ss[i] ELSE f[i - 1] \o ss[i]]
           A == {k \in 0 .. n : \E f : Is(f, k)}
<1> HIDE DEF Is
<1>1. 0 \in A
  <2>1. PICK f : f = [i \in 1 .. 0 |-> ss[i]]
    OBVIOUS
  <2>2. Is(f, 0)
    BY <2>1 DEF Is
  <2> QED BY <2>2
<1>2. ASSUME NEW k \in 0 .. n, k \in A, k < n PROVE k + 1 \in A
  <2>1. PICK f : Is(f, k)
    BY <1>2
  <2>2. PICK last : last = IF k = 0 THEN ss[1] ELSE f[k] \o ss[k + 1]
    OBVIOUS
  <2>3. PICK g : g = [i \in 1 .. k + 1 |-> IF i = k + 1 THEN last ELSE f[i]]
    OBVIOUS
  <2>4. ASSUME NEW i \in 1 .. k + 1
        PROVE  g[i] = IF i = 1 THEN ss[i] ELSE g[i - 1] \o ss[i]
    <3>1. CASE i = k + 1
      BY <2>2, <2>3, <3>1
    <3>2. CASE i # k + 1
      <4>1. i \in 1 .. k /\ g[i] = f[i] /\ (i # 1 => i - 1 \in 1 .. k /\ g[i - 1] = f[i - 1])
        BY <2>3, <3>2
      <4> QED BY <2>1, <4>1 DEF Is
    <3> QED BY <3>1, <3>2
  <2>5. Is(g, k + 1)
    BY <2>3, <2>4 DEF Is
  <2> QED BY <1>2, <2>5
<1>3. \E f : Is(f, n)
  <2>1. n \in A
    <3> HIDE DEF A
    <3>1. \A k \in 0 .. n : k \in A /\ k < n => k + 1 \in A
      BY <1>2
    <3>2. \A k \in 0 .. n : k \in A
      BY <1>1, <3>1, UpTo
    <3>3. n \in 0 .. n
      OBVIOUS
    <3> QED BY <3>2, <3>3
  <2> QED BY <2>1
<1> DEFINE G == CHOOSE f : Is(f, n)
<1>4. Is(G, n)
  BY <1>3
<1>5. FlattenSeq(ss) = G[n]
  BY DEF FlattenSeq, Is
<1> HIDE DEF G
<1>6. \A i \in 1 .. n : G[i] = IF i = 1 THEN ss[i] ELSE G[i - 1] \o ss[i]
  BY <1>4 DEF Is
<1> QED BY <1>5, <1>6

LEMMA Flattened ==
  ASSUME NEW ss, IsSequence(ss), \A s \in Range(ss) : IsSequence(s),
         NEW u, u = FlattenSeq(ss)
  PROVE  IsSequence(u) /\ Range(u) = UNION {Range(s) : s \in Range(ss)}
<1>1. PICK n \in Nat : n = Len(ss)
  BY SequenceIs
<1>2. CASE n = 0
  <2>1. ss = <<>>
    <3>1. ss \in Seq(Range(ss))
      BY DEF IsSequence
    <3> QED BY <1>1, <1>2, <3>1, EmptySeq
  <2>2. u = <<>>
    BY <1>1, <1>2, <2>1 DEF FlattenSeq
  <2> QED BY <2>1, <2>2, EmptySequence
<1>3. CASE n # 0
  <2>1. PICK f : /\ u = f[n]
                 /\ \A i \in 1 .. n : f[i] = IF i = 1 THEN ss[i] ELSE f[i - 1] \o ss[i]
    BY <1>1, <1>3, FlattenSeqIs
  <2>2. /\ \A i \in 1 .. n : ss[i] \in Range(ss) /\ IsSequence(ss[i])
        /\ Range(ss) = {ss[i] : i \in 1 .. n}
    BY <1>1, SequenceIs
  <2> DEFINE Some(i) == UNION {Range(ss[j]) : j \in 1 .. i}
             A == {i \in 0 .. n : i # 0 => IsSequence(f[i]) /\ Range(f[i]) = Some(i)}
  <2>3. ASSUME NEW i \in 0 .. n, i \in A, i < n PROVE i + 1 \in A
    <3>1. PICK k \in 1 .. n : k = i + 1
      BY <2>3
    <3>2. Some(k) = Some(i) \cup Range(ss[k])
      <4>1. 1 .. k = (1 .. i) \cup {k}
        BY <3>1
      <4> QED BY <4>1
    <3>3. CASE i = 0
      <4>1. f[k] = ss[k] /\ Some(i) = {}
        BY <2>1, <3>1, <3>3
      <4> HIDE DEF Some
      <4>2. IsSequence(f[k]) /\ Range(f[k]) = Some(k)
        BY <2>2, <3>2, <4>1
      <4> QED BY <3>1, <4>2
    <3>4. CASE i # 0
      <4> HIDE DEF Some
      <4>1. IsSequence(f[i]) /\ Range(f[i]) = Some(i)
        BY <2>3, <3>4
      <4>2. k # 1 /\ k - 1 = i
        BY <3>1, <3>4
      <4>3. f[k] = f[i] \o ss[k]
        BY <2>1, <4>2
      <4>4. IsSequence(f[k]) /\ Range(f[k]) = Range(f[i]) \cup Range(ss[k])
        BY <2>2, <4>1, <4>3, JoinedSequences
      <4>5. IsSequence(f[k]) /\ Range(f[k]) = Some(k)
        BY <3>2, <4>1, <4>4
      <4> QED BY <3>1, <4>5
    <3> QED BY <3>3, <3>4
  <2>4. n \in A
    <3>1. 0 \in A
      OBVIOUS
    <3> HIDE DEF A
    <3> QED BY <2>3, <3>1, UpTo
  <2>5. IsSequence(f[n]) /\ Range(f[n]) = Some(n)
    BY <1>3, <2>4
  <2>6. Some(n) = UNION {Range(s) : s \in Range(ss)}
    BY <2>2
  <2> QED BY <2>1, <2>5, <2>6
<1> QED BY <1>2, <1>3

\* A message as the server holds it, and what is said in a history of them.
IsMessage(m) ==
  /\ m = [role |-> m.role, content |-> m.content, thoughts |-> m.thoughts, calls |-> m.calls,
          callId |-> m.callId, name |-> m.name]
  /\ IsSequence(m.calls)

IsHistory(ms) == IsSequence(ms) /\ \A m \in Range(ms) : IsMessage(m)

CallsIn(ms) == UNION {Range(m.calls) : m \in Range(ms)}
ToolsIn(ms) == {m \in Range(ms) : m.role = "tool"}

\* A message is named after one of the calls C; on the native surface the ids are not
\* the caller's.
Named(m, C, loose) == \E c \in C : m.name = c.fun /\ (loose \/ m.callId = c.id)

Backed(ms, C, loose) == \A d \in CallsIn(ms) : \E c \in C : d.fun = c.fun /\ (loose \/ d.id = c.id)

\* Every result is named, or can be.
Traceable(ms, C, loose) ==
  /\ IsHistory(ms) /\ Backed(ms, C, loose)
  /\ \A m \in ToolsIn(ms) :
       Named(m, C, loose) \/ (m.name = Unset /\ \E d \in CallsIn(ms) : d.id = m.callId)

Resolved(ms, C, loose) ==
  /\ IsHistory(ms) /\ Backed(ms, C, loose)
  /\ \A m \in ToolsIn(ms) : Named(m, C, loose)

\* Two histories that say the same but for the texts.
SameSaid(ns, ms) ==
  /\ Len(ns) = Len(ms) /\ DOMAIN ns = 1 .. Len(ms)
  /\ ns = [i \in 1 .. Len(ms) |-> ns[i]]
  /\ \A i \in 1 .. Len(ms) : /\ IsMessage(ns[i])
                             /\ ns[i].role = ms[i].role /\ ns[i].calls = ms[i].calls
                             /\ ns[i].callId = ms[i].callId

LEMMA SameSays ==
  ASSUME NEW ms, IsHistory(ms), NEW ns, SameSaid(ns, ms)
  PROVE  /\ IsHistory(ns) /\ CallsIn(ns) = CallsIn(ms)
         /\ Range(ms) = {ms[i] : i \in 1 .. Len(ms)} /\ Range(ns) = {ns[i] : i \in 1 .. Len(ms)}
<1>1. PICK n \in Nat : n = Len(ms)
  BY SequenceIs DEF IsHistory
<1>2. Range(ms) = {ms[i] : i \in 1 .. n}
  BY <1>1, SequenceIs DEF IsHistory
<1>3. IsSequence(ns) /\ Len(ns) = n
  BY <1>1, SequenceMade DEF SameSaid
<1>4. Range(ns) = {ns[i] : i \in 1 .. n}
  BY <1>3, SequenceIs
<1>5. \A i \in 1 .. n : IsMessage(ns[i]) /\ ns[i].calls = ms[i].calls
  BY <1>1 DEF SameSaid
<1>6. CallsIn(ns) = CallsIn(ms)
  BY <1>2, <1>4, <1>5 DEF CallsIn
<1>7. IsHistory(ns)
  BY <1>3, <1>4, <1>5 DEF IsHistory
<1> QED BY <1>1, <1>2, <1>4, <1>6, <1>7

\* A text that is changed leaves the rest of its message.
Reworded(ns, ms, k, x) == ns = [ms EXCEPT ![k].content = x]

LEMMA ContentChanged ==
  ASSUME NEW ms, IsHistory(ms), NEW k \in 1 .. Len(ms), NEW x, NEW ns, Reworded(ns, ms, k, x)
  PROVE  SameSaid(ns, ms) /\ \A i \in 1 .. Len(ms) : ns[i].name = ms[i].name
<1>1. PICK n \in Nat : n = Len(ms) /\ DOMAIN ms = 1 .. n
  BY SequenceIs DEF IsHistory
<1>2. \A i \in 1 .. n : IsMessage(ms[i])
  BY <1>1, SequenceIs DEF IsHistory
<1>3. PICK m : m = [ms[k] EXCEPT !.content = x]
  OBVIOUS
<1>4. /\ IsMessage(m) /\ m.role = ms[k].role /\ m.calls = ms[k].calls /\ m.callId = ms[k].callId
      /\ m.name = ms[k].name
  <2>1. PICK o : o = ms[k] /\ IsMessage(o)
    BY <1>1, <1>2
  <2> QED BY <1>3, <2>1 DEF IsMessage
<1>5. ns = [ms EXCEPT ![k] = m]
  BY <1>3 DEF Reworded
<1>6. /\ DOMAIN ns = 1 .. n /\ ns = [i \in 1 .. n |-> ns[i]]
      /\ \A i \in 1 .. n : ns[i] = IF i = k THEN m ELSE ms[i]
  BY <1>1, <1>5
<1>7. Len(ns) = n
  BY <1>6
<1> QED BY <1>1, <1>2, <1>4, <1>6, <1>7 DEF SameSaid

LEMMA SameResolves ==
  ASSUME NEW C, NEW loose, NEW ms, Resolved(ms, C, loose), NEW ns, SameSaid(ns, ms),
         \A i \in 1 .. Len(ms) : ns[i].name = ms[i].name
  PROVE  Resolved(ns, C, loose)
<1>1. IsHistory(ns) /\ CallsIn(ns) = CallsIn(ms)
  BY SameSays DEF Resolved
<1>2. ASSUME NEW t \in ToolsIn(ns) PROVE Named(t, C, loose)
  <2>1. PICK i \in 1 .. Len(ms) : t = ns[i] /\ t.role = "tool" /\ ms[i] \in Range(ms)
    BY SameSays DEF ToolsIn, Resolved
  <2>2. PICK m : m = ms[i]
    OBVIOUS
  <2>3. m.role = "tool" /\ m.name = t.name /\ m.callId = t.callId
    BY <2>1, <2>2 DEF SameSaid
  <2>4. Named(m, C, loose)
    BY <2>1, <2>2, <2>3 DEF Resolved, ToolsIn
  <2> QED BY <2>3, <2>4 DEF Named
<1> QED BY <1>1, <1>2 DEF Resolved, Backed

\* A result is named after the call it answers, if that is in the history.
LEMMA ResultsResolved ==
  ASSUME NEW C, NEW loose, NEW ms, Traceable(ms, C, loose), NEW ns, ns = NamedResults(ms)
  PROVE  Resolved(ns, C, loose)
<1> DEFINE Asked(id) ==
             {c \in UNION {{ms[i].calls[j] : j \in DOMAIN ms[i].calls} : i \in DOMAIN ms} :
                c.id = id}
           Name(m) == IF m.role = "tool" /\ m.name = Unset /\ Asked(m.callId) # {}
                        THEN (CHOOSE c \in Asked(m.callId) : TRUE).fun ELSE m.name
<1>1. PICK n \in Nat : n = Len(ms) /\ DOMAIN ms = 1 .. n /\ Range(ms) = {ms[i] : i \in 1 .. n}
  BY SequenceIs DEF Traceable, IsHistory
<1>2. ns = [i \in 1 .. n |-> [ms[i] EXCEPT !.name = Name(ms[i])]]
  BY <1>1 DEF NamedResults
<1>3. \A id : Asked(id) = {c \in CallsIn(ms) : c.id = id}
  BY <1>1 DEF CallsIn, Range
<1> HIDE DEF Asked
<1>4. ASSUME NEW i \in 1 .. n
      PROVE  /\ IsMessage(ns[i]) /\ ns[i].role = ms[i].role /\ ns[i].calls = ms[i].calls
             /\ ns[i].callId = ms[i].callId /\ ns[i].name = Name(ms[i])
  <2>1. PICK m : m = ms[i] /\ IsMessage(m)
    BY <1>1 DEF Traceable, IsHistory
  <2>2. PICK name : name = Name(ms[i])
    OBVIOUS
  <2>3. ns[i] = [m EXCEPT !.name = name]
    BY <1>2, <2>1, <2>2
  <2> HIDE DEF Name
  <2> QED BY <2>1, <2>2, <2>3 DEF IsMessage
<1>5. SameSaid(ns, ms)
  <2>1. ns = [i \in 1 .. n |-> ns[i]] /\ DOMAIN ns = 1 .. n /\ Len(ns) = n
    BY <1>2
  <2> QED BY <1>1, <1>4, <2>1 DEF SameSaid
<1>6. IsHistory(ns) /\ CallsIn(ns) = CallsIn(ms)
  BY <1>5, SameSays DEF Traceable
<1>7. ASSUME NEW t \in ToolsIn(ns) PROVE Named(t, C, loose)
  <2>1. PICK i \in 1 .. n : t = ns[i] /\ t.role = "tool"
    BY <1>1, <1>5, SameSays DEF ToolsIn, Traceable
  <2>2. PICK m : m = ms[i]
    OBVIOUS
  <2>3. m \in ToolsIn(ms) /\ t.callId = m.callId /\ t.name = Name(m) /\ m.role = "tool"
    BY <1>1, <1>4, <2>1, <2>2 DEF ToolsIn
  <2>4. CASE m.name = Unset /\ Asked(m.callId) # {}
    <3>1. PICK d : d = CHOOSE c \in Asked(m.callId) : TRUE
      OBVIOUS
    <3>2. d \in Asked(m.callId)
      BY <2>4, <3>1
    <3>3. d \in CallsIn(ms) /\ d.id = m.callId
      BY <1>3, <3>2
    <3>4. t.name = d.fun
      BY <2>3, <2>4, <3>1
    <3>5. PICK c \in C : d.fun = c.fun /\ (loose \/ d.id = c.id)
      BY <3>3 DEF Traceable, Backed
    <3> QED BY <2>3, <3>3, <3>4, <3>5 DEF Named
  <2>5. CASE ~(m.name = Unset /\ Asked(m.callId) # {})
    <3>1. t.name = m.name
      BY <2>3, <2>5
    <3>2. Named(m, C, loose)
      BY <1>3, <2>3, <2>5 DEF Traceable
    <3> QED BY <2>3, <3>1, <3>2 DEF Named
  <2> QED BY <2>4, <2>5
<1> QED BY <1>6, <1>7 DEF Resolved, Traceable, Backed

LEMMA ResolvedTraces ==
  ASSUME NEW C, NEW loose, NEW ms, Resolved(ms, C, loose)
  PROVE  Traceable(ms, C, loose)
BY DEF Resolved, Traceable

ToolIn(m) == IF m.role = "tool" THEN {m} ELSE {}

LEMMA OneMessage ==
  ASSUME NEW m, IsMessage(m), NEW ns, ns = <<m>>
  PROVE  IsHistory(ns) /\ CallsIn(ns) = Range(m.calls) /\ ToolsIn(ns) = ToolIn(m)
<1>1. IsSequence(ns) /\ Range(ns) = {m}
  BY OneSequence
<1>2. IsHistory(ns)
  BY <1>1 DEF IsHistory
<1>3. CallsIn(ns) = Range(m.calls)
  BY <1>1 DEF CallsIn
<1>4. ToolsIn(ns) = ToolIn(m)
  BY <1>1 DEF ToolsIn, ToolIn
<1> QED BY <1>2, <1>3, <1>4

LEMMA JoinedHistories ==
  ASSUME NEW ms, IsHistory(ms), NEW ns, IsHistory(ns), NEW os, os = ms \o ns
  PROVE  /\ IsHistory(os) /\ CallsIn(os) = CallsIn(ms) \cup CallsIn(ns)
         /\ ToolsIn(os) = ToolsIn(ms) \cup ToolsIn(ns)
<1>1. IsSequence(ms) /\ IsSequence(ns)
  BY DEF IsHistory
<1>2. IsSequence(os) /\ Range(os) = Range(ms) \cup Range(ns)
  BY <1>1, JoinedSequences
<1>3. IsHistory(os)
  BY <1>2 DEF IsHistory
<1>4. CallsIn(os) = CallsIn(ms) \cup CallsIn(ns)
  BY <1>2 DEF CallsIn
<1>5. ToolsIn(os) = ToolsIn(ms) \cup ToolsIn(ns)
  BY <1>2 DEF ToolsIn
<1> QED BY <1>3, <1>4, <1>5

LEMMA NoHistory == IsHistory(<<>>) /\ CallsIn(<<>>) = {} /\ ToolsIn(<<>>) = {}
BY EmptySequence DEF IsHistory, CallsIn, ToolsIn

\* A system message says nothing of calls.
LEMMA SystemFirst ==
  ASSUME NEW ms, IsHistory(ms), NEW x, NEW ns, ns = <<Msg("system", x)>> \o ms
  PROVE  IsHistory(ns) /\ CallsIn(ns) = CallsIn(ms) /\ ToolsIn(ns) = ToolsIn(ms)
<1>1. PICK m : m = Msg("system", x)
  OBVIOUS
<1>2. IsMessage(m) /\ m.role = "system" /\ m.calls = <<>>
  <2>1. PICK calls : calls = <<>> /\ IsSequence(calls)
    BY EmptySequence
  <2>2. m = [role |-> "system", content |-> x, thoughts |-> FALSE, calls |-> calls,
             callId |-> Unset, name |-> Unset]
    BY <1>1, <2>1 DEF Msg
  <2> QED BY <2>1, <2>2 DEF IsMessage
<1>3. PICK o : o = <<m>>
  OBVIOUS
<1>4. IsHistory(o) /\ CallsIn(o) = {} /\ ToolsIn(o) = {}
  BY <1>2, <1>3, OneMessage, EmptySequence DEF ToolIn
<1>5. ns = o \o ms
  BY <1>1, <1>3, Zenon
<1>6. /\ IsHistory(ns) /\ CallsIn(ns) = CallsIn(o) \cup CallsIn(ms)
      /\ ToolsIn(ns) = ToolsIn(o) \cup ToolsIn(ms)
  BY <1>4, <1>5, JoinedHistories, Zenon
<1> QED BY <1>4, <1>6

LEMMA InstructedResolves ==
  ASSUME NEW C, NEW loose, NEW ms, Resolved(ms, C, loose)
  PROVE  Resolved(Instructed(ms), C, loose)
<1>1. IsHistory(ms)
  BY DEF Resolved
<1>2. CASE ms # <<>> /\ ms[1].role = "system" /\ ms[1].content.form = "string"
  <2>1. PICK x : x = Str(ms[1].content.parts[1] \o <<LineEnd, "tools">>)
    OBVIOUS
  <2>2. PICK k \in 1 .. Len(ms) : k = 1
    <3>1. ms \in Seq(Range(ms))
      BY <1>1 DEF IsHistory, IsSequence
    <3> QED BY <1>2, <3>1, EmptySeq
  <2>3. PICK ns : ns = [ms EXCEPT ![k].content = x]
    OBVIOUS
  <2>4. Instructed(ms) = ns
    <3>1. Instructed(ms) = [ms EXCEPT ![1].content = x]
      BY <1>2, <2>1 DEF Instructed
    <3> QED BY <2>2, <2>3, <3>1
  <2>5. SameSaid(ns, ms) /\ \A i \in 1 .. Len(ms) : ns[i].name = ms[i].name
    <3>1. Reworded(ns, ms, k, x)
      BY <2>3 DEF Reworded
    <3> QED BY <1>1, <3>1, ContentChanged
  <2> QED BY <2>4, <2>5, SameResolves
<1>3. CASE ~(ms # <<>> /\ ms[1].role = "system" /\ ms[1].content.form = "string")
  <2>1. PICK ns, x : ns = <<Msg("system", x)>> \o ms /\ Instructed(ms) = ns
    BY <1>3 DEF Instructed
  <2>2. IsHistory(ns) /\ CallsIn(ns) = CallsIn(ms) /\ ToolsIn(ns) = ToolsIn(ms)
    BY <1>1, <2>1, SystemFirst, Zenon
  <2>3. Resolved(ns, C, loose)
    BY <2>2, Zenon DEF Resolved, Backed
  <2> QED BY <2>1, <2>3, Zenon
<1> QED BY <1>2, <1>3

LEMMA HintedResolves ==
  ASSUME NEW C, NEW loose, NEW ms, Resolved(ms, C, loose)
  PROVE  Resolved(Hinted(ms), C, loose)
<1> DEFINE told == {i \in DOMAIN ms : ms[i].role = "user" /\ ms[i].content # NoContent}
           last == CHOOSE i \in told : \A j \in told : j <= i
<1>0. IsHistory(ms)
  BY DEF Resolved
<1>1. CASE told = {}
  BY <1>1 DEF Hinted
<1>2. CASE told # {}
  <2>1. PICK k \in 1 .. Len(ms) : k = last
    <3>1. DOMAIN ms = 1 .. Len(ms) /\ Len(ms) \in Nat
      BY SequenceIs DEF Resolved, IsHistory
    <3>2. told \in SUBSET (1 .. Len(ms))
      BY <3>1
    <3>3. last = Latest(told)
      BY DEF Latest
    <3>4. told \in SUBSET (0 .. Len(ms))
      BY <3>1, <3>2
    <3> HIDE DEF told, last
    <3>5. last \in told
      BY <1>2, <3>1, <3>3, <3>4, LatestIs
    <3> QED BY <3>2, <3>5
  <2>2. PICK x, ns : Hinted(ms) = ns /\ ns = [ms EXCEPT ![k].content = x]
    <3>1. PICK x : x = [ms[k].content EXCEPT !.parts[Len(ms[k].content.parts)]
                          = @ \o <<LineEnd, "hint">>]
      OBVIOUS
    <3>2. Hinted(ms) = [ms EXCEPT ![k].content = x]
      BY <1>2, <2>1, <3>1 DEF Hinted
    <3> QED BY <3>2
  <2> HIDE DEF told, last
  <2>3. SameSaid(ns, ms) /\ \A i \in 1 .. Len(ms) : ns[i].name = ms[i].name
    <3>1. Reworded(ns, ms, k, x)
      BY <2>2 DEF Reworded
    <3> QED BY <1>0, <3>1, ContentChanged
  <2> QED BY <2>2, <2>3, SameResolves
<1> QED BY <1>1, <1>2

\* What is prepared names its results.
LEMMA PreparedResolves ==
  ASSUME NEW C, NEW loose, NEW ms, Traceable(ms, C, loose), NEW tools, NEW inject
  PROVE  Resolved(Prepare(ms, tools, inject), C, loose)
<1>1. PICK ns : ns = NamedResults(ms) /\ Resolved(ns, C, loose)
  BY ResultsResolved
<1>2. Prepare(ms, tools, inject) \in {ns, Instructed(ns), Hinted(ns)}
  <2>1. CASE tools /\ inject
    BY <1>1, <2>1 DEF Prepare
  <2>2. CASE tools /\ ~inject
    BY <1>1, <2>2 DEF Prepare
  <2>3. CASE ~tools
    BY <1>1, <2>3 DEF Prepare
  <2> QED BY <2>1, <2>2, <2>3
<1> QED BY <1>1, <1>2, InstructedResolves, HintedResolves

\* So does what is left of it.
LEMMA RestResolves ==
  ASSUME NEW C, NEW loose, NEW ms, Resolved(ms, C, loose), NEW n, n \in 0 .. Len(ms)
  PROVE  Resolved(Remaining(ms, n), C, loose)
<1>1. PICK l \in Nat : l = Len(ms) /\ ms \in Seq(Range(ms))
  BY SequenceIs DEF Resolved, IsHistory, IsSequence
<1>2. PICK k \in 1 .. l + 1 : k = n + 1
  BY <1>1
<1>3. PICK ns : ns = SubSeq(ms, k, l)
  OBVIOUS
<1>4. Remaining(ms, n) = ns
  BY <1>1, <1>2, <1>3 DEF Remaining
<1>5. ns \in Seq(Range(ms))
  <2>1. \A i \in k .. l : ms[i] \in Range(ms)
    BY <1>1, <1>2
  <2> QED BY <1>2, <1>3, <2>1, SubSeqProperties
<1>6. IsSequence(ns) /\ Range(ns) \subseteq Range(ms)
  BY <1>5, SequenceOf
<1>7. IsHistory(ns)
  BY <1>6 DEF IsHistory, Resolved
<1>8. CallsIn(ns) \subseteq CallsIn(ms) /\ ToolsIn(ns) \subseteq ToolsIn(ms)
  BY <1>6 DEF CallsIn, ToolsIn
<1> QED BY <1>4, <1>7, <1>8 DEF Resolved, Backed

\* A history that is converted message by message.
LEMMA ConvertedHistory ==
  ASSUME NEW n \in Nat, NEW ns, DOMAIN ns = 1 .. n, ns = [i \in 1 .. n |-> ns[i]],
         \A i \in 1 .. n : IsMessage(ns[i])
  PROVE  /\ IsHistory(ns) /\ Len(ns) = n /\ Range(ns) = {ns[i] : i \in 1 .. n}
         /\ CallsIn(ns) = UNION {Range(ns[i].calls) : i \in 1 .. n}
         /\ ToolsIn(ns) = {ns[i] : i \in {j \in 1 .. n : ns[j].role = "tool"}}
<1>1. IsSequence(ns) /\ Len(ns) = n
  BY SequenceMade
<1>2. Range(ns) = {ns[i] : i \in 1 .. n}
  BY <1>1, SequenceIs
<1>3. IsHistory(ns)
  BY <1>1, <1>2 DEF IsHistory
<1>4. CallsIn(ns) = UNION {Range(ns[i].calls) : i \in 1 .. n}
  BY <1>2 DEF CallsIn
<1>5. ToolsIn(ns) = {ns[i] : i \in {j \in 1 .. n : ns[j].role = "tool"}}
  BY <1>2 DEF ToolsIn
<1> QED BY <1>1, <1>2, <1>3, <1>4, <1>5

-----------------------------------------------------------------------------
(* Turns of the assistant in a row are one, and have the calls of both.     *)

LEMMA TurnAdded ==
  ASSUME NEW done, IsHistory(done), NEW m, IsMessage(m), NEW u, u = TurnsWith(done, m)
  PROVE  /\ IsHistory(u) /\ CallsIn(u) = CallsIn(done) \cup Range(m.calls)
         /\ ToolsIn(u) = ToolsIn(done) \cup ToolIn(m)
<1>1. CASE done # <<>> /\ Last(done).role = "assistant" /\ m.role = "assistant"
  <2>1. PICK f, l : f = Front(done) /\ l = Last(done)
    OBVIOUS
  <2>2. /\ IsSequence(f) /\ l \in Range(done) /\ Range(done) = Range(f) \cup {l}
    BY <1>1, <2>1, LastOfSequence DEF IsHistory
  <2>3. IsHistory(f) /\ IsMessage(l) /\ l.role = "assistant"
    BY <1>1, <2>1, <2>2 DEF IsHistory
  <2>4. PICK calls : calls = l.calls \o m.calls
    OBVIOUS
  <2>5. IsSequence(calls) /\ Range(calls) = Range(l.calls) \cup Range(m.calls)
    BY <2>3, <2>4, JoinedSequences DEF IsMessage
  <2>6. PICK k : k = Merge(l, m)
    OBVIOUS
  <2>7. IsMessage(k) /\ k.role = l.role /\ k.calls = calls
    <3>1. PICK content, thought :
            k = [l EXCEPT !.content = content, !.calls = calls, !.thoughts = thought]
      BY <2>4, <2>6 DEF Merge
    <3> QED BY <2>3, <2>5, <3>1 DEF IsMessage
  <2>8. PICK o : o = <<k>>
    OBVIOUS
  <2>9. IsHistory(o) /\ CallsIn(o) = Range(calls) /\ ToolsIn(o) = {}
    BY <2>3, <2>7, <2>8, OneMessage DEF ToolIn
  <2>10. u = f \o o
    BY <1>1, <2>1, <2>6, <2>8 DEF TurnsWith
  <2>11. /\ IsHistory(u) /\ CallsIn(u) = CallsIn(f) \cup CallsIn(o)
         /\ ToolsIn(u) = ToolsIn(f) \cup ToolsIn(o)
    BY <2>3, <2>9, <2>10, JoinedHistories, Zenon
  <2>12. CallsIn(done) = CallsIn(f) \cup Range(l.calls)
    BY <2>2 DEF CallsIn
  <2>13. ToolsIn(done) = ToolsIn(f)
    BY <2>2, <2>3 DEF ToolsIn
  <2> QED BY <1>1, <2>5, <2>9, <2>11, <2>12, <2>13 DEF ToolIn
<1>2. CASE ~(done # <<>> /\ Last(done).role = "assistant" /\ m.role = "assistant")
  <2>1. u = Append(done, m)
    BY <1>2 DEF TurnsWith
  <2>2. IsSequence(u) /\ Range(u) = Range(done) \cup {m}
    BY <2>1, AppendedSequence DEF IsHistory, Grown
  <2>3. IsHistory(u)
    BY <2>2 DEF IsHistory
  <2>4. CallsIn(u) = CallsIn(done) \cup Range(m.calls)
    BY <2>2 DEF CallsIn
  <2>5. ToolsIn(u) = ToolsIn(done) \cup ToolIn(m)
    BY <2>2 DEF ToolsIn, ToolIn
  <2> QED BY <2>3, <2>4, <2>5
<1> QED BY <1>1, <1>2

\* Compact takes a message after another.
LEMMA CompactIs ==
  ASSUME NEW ms, NEW n \in Nat, n = Len(ms)
  PROVE  \E f : /\ Compact(ms) = f[n]
                /\ \A i \in 0 .. n : f[i] = IF i = 0 THEN <<>> ELSE TurnsWith(f[i - 1], ms[i])
<1> DEFINE Is(f, k) == f = [i \in 0 .. k |-> IF i = 0 THEN <<>> ELSE TurnsWith(f[i - 1], ms[i])]
           A == {k \in 0 .. n : \E f : Is(f, k)}
<1> HIDE DEF Is
<1>1. 0 \in A
  <2>1. PICK f : f = [i \in 0 .. 0 |-> <<>>]
    OBVIOUS
  <2>2. Is(f, 0)
    BY <2>1 DEF Is
  <2> QED BY <2>2
<1>2. ASSUME NEW k \in 0 .. n, k \in A, k < n PROVE k + 1 \in A
  <2>1. PICK f : Is(f, k)
    BY <1>2
  <2>2. PICK last : last = TurnsWith(f[k], ms[k + 1])
    OBVIOUS
  <2>3. PICK g : g = [i \in 0 .. k + 1 |-> IF i = k + 1 THEN last ELSE f[i]]
    OBVIOUS
  <2>4. ASSUME NEW i \in 0 .. k + 1
        PROVE  g[i] = IF i = 0 THEN <<>> ELSE TurnsWith(g[i - 1], ms[i])
    <3>1. CASE i = k + 1
      BY <2>2, <2>3, <3>1
    <3>2. CASE i # k + 1
      <4>1. i \in 0 .. k /\ g[i] = f[i] /\ (i # 0 => i - 1 \in 0 .. k /\ g[i - 1] = f[i - 1])
        BY <2>3, <3>2
      <4> QED BY <2>1, <4>1 DEF Is
    <3> QED BY <3>1, <3>2
  <2>5. Is(g, k + 1)
    BY <2>3, <2>4 DEF Is
  <2> QED BY <1>2, <2>5
<1>3. \E f : Is(f, n)
  <2>1. n \in A
    <3> HIDE DEF A
    <3>1. \A k \in 0 .. n : k \in A /\ k < n => k + 1 \in A
      BY <1>2
    <3>2. \A k \in 0 .. n : k \in A
      BY <1>1, <3>1, UpTo
    <3>3. n \in 0 .. n
      OBVIOUS
    <3> QED BY <3>2, <3>3
  <2> QED BY <2>1
<1> DEFINE G == CHOOSE f : Is(f, n)
<1>4. Is(G, n)
  BY <1>3
<1>5. Compact(ms) = G[n]
  BY DEF Compact, Is
<1> HIDE DEF G
<1>6. \A i \in 0 .. n : G[i] = IF i = 0 THEN <<>> ELSE TurnsWith(G[i - 1], ms[i])
  BY <1>4 DEF Is
<1> QED BY <1>5, <1>6

\* What is made of the first i messages has their calls and results.
LEMMA CompactSays ==
  ASSUME NEW ms, IsHistory(ms), NEW ns, ns = Compact(ms)
  PROVE  IsHistory(ns) /\ CallsIn(ns) = CallsIn(ms) /\ ToolsIn(ns) = ToolsIn(ms)
<1>1. PICK n \in Nat : n = Len(ms)
  BY SequenceIs DEF IsHistory
<1>2. PICK f : /\ ns = f[n]
               /\ \A i \in 0 .. n : f[i] = IF i = 0 THEN <<>> ELSE TurnsWith(f[i - 1], ms[i])
  BY <1>1, CompactIs
<1>3. Range(ms) = {ms[i] : i \in 1 .. n} /\ \A i \in 1 .. n : IsMessage(ms[i])
  BY <1>1, SequenceIs DEF IsHistory
<1> DEFINE Calls(i) == UNION {Range(ms[j].calls) : j \in 1 .. i}
           Tools(i) == UNION {ToolIn(ms[j]) : j \in 1 .. i}
           A == {i \in 0 .. n : /\ IsHistory(f[i]) /\ CallsIn(f[i]) = Calls(i)
                                /\ ToolsIn(f[i]) = Tools(i)}
<1>4. 0 \in A
  <2>1. Calls(0) = {} /\ Tools(0) = {}
    OBVIOUS
  <2>2. f[0] = <<>>
    BY <1>2
  <2> QED BY <2>1, <2>2, NoHistory
<1>5. ASSUME NEW i \in 0 .. n, i \in A, i < n PROVE i + 1 \in A
  <2>1. PICK k \in 1 .. n : k = i + 1 /\ k - 1 = i
    BY <1>5
  <2>2. Calls(k) = Calls(i) \cup Range(ms[k].calls) /\ Tools(k) = Tools(i) \cup ToolIn(ms[k])
    <3>1. 1 .. k = (1 .. i) \cup {k}
      BY <2>1
    <3> QED BY <3>1
  <2>3. IsHistory(f[i]) /\ CallsIn(f[i]) = Calls(i) /\ ToolsIn(f[i]) = Tools(i)
    BY <1>5
  <2> HIDE DEF Calls, Tools
  <2>4. f[k] = TurnsWith(f[i], ms[k])
    BY <1>2, <2>1
  <2>5. PICK m, u : m = ms[k] /\ u = f[k]
    OBVIOUS
  <2>6. /\ IsHistory(u) /\ CallsIn(u) = CallsIn(f[i]) \cup Range(m.calls)
        /\ ToolsIn(u) = ToolsIn(f[i]) \cup ToolIn(m)
    BY <1>3, <2>3, <2>4, <2>5, TurnAdded
  <2>7. IsHistory(f[k]) /\ CallsIn(f[k]) = Calls(k) /\ ToolsIn(f[k]) = Tools(k)
    BY <2>2, <2>3, <2>5, <2>6
  <2> QED BY <2>1, <2>7
<1>6. n \in A
  <2> HIDE DEF A
  <2>1. \A i \in 0 .. n : i \in A /\ i < n => i + 1 \in A
    BY <1>5
  <2>2. \A i \in 0 .. n : i \in A
    BY <1>4, <2>1, UpTo
  <2>3. n \in 0 .. n
    OBVIOUS
  <2> QED BY <2>2, <2>3
<1>7. IsHistory(ns) /\ CallsIn(ns) = Calls(n) /\ ToolsIn(ns) = Tools(n)
  BY <1>2, <1>6
<1>8. Calls(n) = CallsIn(ms)
  BY <1>3 DEF CallsIn
<1>9. Tools(n) = ToolsIn(ms)
  BY <1>3 DEF ToolsIn, ToolIn
<1> QED BY <1>7, <1>8, <1>9

-----------------------------------------------------------------------------
(* What callers write: the calls it gives and the calls it answers.  On the *)
(* native surface calls have no ids, and results name the function.         *)

Fun(parts, kind) == {p.fun : p \in {q \in Range(parts) : q.kind = kind}}

\* A chat message, an item, a content.
IsWire(api, x) ==
  CASE api = "chat" -> x.role \in {"developer", "user", "assistant", "tool"} /\ IsSequence(x.calls)
    [] api = "responses" ->
         /\ x.type \in {"message", "function_call", "function_call_output", "reasoning", "image"}
         /\ x.type = "message" => x.role \in {"user", "assistant"}
    [] api = "native" -> x.role \in {"user", "model"} /\ IsSequence(x.parts)

Gives(api, x) ==
  CASE api = "chat" -> Range(x.calls)
    [] api = "responses" -> IF x.type = "function_call" THEN {x.call} ELSE {}
    [] api = "native" -> Fun(x.parts, "call")

Answered(api, x) ==
  CASE api = "chat" -> IF x.role = "tool" THEN {x.callId} ELSE {}
    [] api = "responses" -> IF x.type = "function_call_output" THEN {x.callId} ELSE {}
    [] api = "native" -> Fun(x.parts, "result")

IsWritten(api, w) == IsSequence(w) /\ \A x \in Range(w) : IsWire(api, x)
GivenIn(api, w) == UNION {Gives(api, x) : x \in Range(w)}
AnsweredIn(api, w) == UNION {Answered(api, x) : x \in Range(w)}

\* u gives and answers what v and w do.
Together(api, v, w, u) ==
  /\ IsWritten(api, u) /\ GivenIn(api, u) = GivenIn(api, v) \cup GivenIn(api, w)
  /\ AnsweredIn(api, u) = AnsweredIn(api, v) \cup AnsweredIn(api, w)

LEMMA WrittenJoined ==
  ASSUME NEW api, NEW v, IsWritten(api, v), NEW w, IsWritten(api, w), NEW u, u = v \o w
  PROVE  Together(api, v, w, u)
<1>1. IsSequence(u) /\ Range(u) = Range(v) \cup Range(w)
  BY JoinedSequences DEF IsWritten
<1>2. IsWritten(api, u)
  BY <1>1 DEF IsWritten
<1>3. GivenIn(api, u) = GivenIn(api, v) \cup GivenIn(api, w)
  BY <1>1 DEF GivenIn
<1>4. AnsweredIn(api, u) = AnsweredIn(api, v) \cup AnsweredIn(api, w)
  BY <1>1 DEF AnsweredIn
<1> QED BY <1>2, <1>3, <1>4 DEF Together

LEMMA NoneWritten ==
  ASSUME NEW api
  PROVE  IsWritten(api, <<>>) /\ GivenIn(api, <<>>) = {} /\ AnsweredIn(api, <<>>) = {}
BY EmptySequence DEF IsWritten, GivenIn, AnsweredIn

LEMMA OneWritten ==
  ASSUME NEW api, NEW x, IsWire(api, x), NEW w, w = <<x>>
  PROVE  /\ IsWritten(api, w) /\ GivenIn(api, w) = Gives(api, x)
         /\ AnsweredIn(api, w) = Answered(api, x)
<1>1. IsSequence(w) /\ Range(w) = {x}
  BY OneSequence
<1>2. IsWritten(api, w)
  BY <1>1 DEF IsWritten
<1> QED BY <1>1, <1>2 DEF GivenIn, AnsweredIn

\* Each chat message becomes a message with its calls.
LEMMA ChatTraces ==
  ASSUME NEW w, IsWritten("chat", w), NEW C, GivenIn("chat", w) = C,
         \A id \in AnsweredIn("chat", w) : \E c \in C : c.id = id,
         NEW loose
  PROVE  Traceable(FromChat(w), C, loose)
<1>1. PICK n \in Nat : n = Len(w) /\ DOMAIN w = 1 .. n /\ Range(w) = {w[i] : i \in 1 .. n}
  BY SequenceIs DEF IsWritten
<1>2. PICK ns : ns = FromChat(w)
  OBVIOUS
<1>3. ASSUME NEW i \in 1 .. n
      PROVE  /\ IsMessage(ns[i]) /\ ns[i].calls = w[i].calls /\ ns[i].name = Unset
             /\ ns[i].callId = w[i].callId /\ ns[i].role = NormalizeRole(w[i].role)
  <2>1. PICK x : x = w[i] /\ IsWire("chat", x)
    BY <1>1 DEF IsWritten
  <2>2. ns[i] = [Msg(NormalizeRole(x.role), x.content) EXCEPT
                   !.thoughts = x.thoughts, !.calls = x.calls, !.callId = x.callId]
    BY <1>1, <1>2, <2>1 DEF FromChat
  <2>3. PICK role : role = NormalizeRole(x.role)
    OBVIOUS
  <2>4. ns[i] = [role |-> role, content |-> x.content, thoughts |-> x.thoughts, calls |-> x.calls,
                 callId |-> x.callId, name |-> Unset]
    BY <2>2, <2>3 DEF Msg
  <2>5. IsSequence(x.calls)
    BY <2>1 DEF IsWire
  <2> QED BY <2>1, <2>3, <2>4, <2>5 DEF IsMessage
<1>4. DOMAIN ns = 1 .. n /\ ns = [i \in 1 .. n |-> ns[i]]
  BY <1>1, <1>2 DEF FromChat
<1>5. /\ IsHistory(ns) /\ CallsIn(ns) = UNION {Range(ns[i].calls) : i \in 1 .. n}
      /\ ToolsIn(ns) = {ns[i] : i \in {j \in 1 .. n : ns[j].role = "tool"}}
  BY <1>3, <1>4, ConvertedHistory
<1>6. CallsIn(ns) = C
  <2>1. C = UNION {Range(w[i].calls) : i \in 1 .. n}
    BY <1>1 DEF GivenIn, Gives
  <2> QED BY <1>3, <1>5, <2>1
<1>7. ASSUME NEW m \in ToolsIn(ns)
      PROVE  m.name = Unset /\ \E d \in C : d.id = m.callId
  <2>1. PICK i \in 1 .. n : m = ns[i] /\ ns[i].role = "tool"
    BY <1>5
  <2>2. PICK x : x = w[i] /\ x \in Range(w) /\ IsWire("chat", x)
    BY <1>1 DEF IsWritten
  <2>3. x.role = "tool"
    BY <1>3, <2>1, <2>2 DEF IsWire, NormalizeRole
  <2>4. x.callId \in AnsweredIn("chat", w)
    BY <2>2, <2>3 DEF AnsweredIn, Answered
  <2> QED BY <1>3, <2>1, <2>2, <2>4
<1> QED BY <1>2, <1>5, <1>6, <1>7 DEF Traceable, Backed

\* Each item becomes a message, and those of a turn are one.
LEMMA ItemIs ==
  ASSUME NEW x, IsWire("responses", x), NEW m, m = FromItem(x)
  PROVE  /\ IsMessage(m) /\ Range(m.calls) = Gives("responses", x)
         /\ m.role = "tool" => m.name = Unset /\ Answered("responses", x) = {m.callId}
<1>1. CASE x.type = "message"
  <2>1. PICK role, content : m = Msg(role, content) /\ role = NormalizeRole(x.role)
    BY <1>1 DEF FromItem
  <2>2. role # "tool"
    BY <1>1, <2>1 DEF IsWire, NormalizeRole
  <2>3. PICK calls : calls = <<>> /\ IsSequence(calls) /\ Range(calls) = {}
    BY EmptySequence
  <2>4. IsMessage(m) /\ m.calls = calls /\ m.role = role
    BY <2>1, <2>3 DEF Msg, IsMessage
  <2>5. Gives("responses", x) = {}
    BY <1>1 DEF Gives
  <2> QED BY <2>2, <2>3, <2>4, <2>5
<1>2. CASE x.type = "function_call"
  <2>1. PICK calls, c : calls = <<c>> /\ c = x.call /\ IsSequence(calls) /\ Range(calls) = {c}
    <3>1. PICK c, calls : c = x.call /\ calls = <<c>>
      OBVIOUS
    <3>2. IsSequence(calls) /\ Range(calls) = {c}
      BY <3>1, OneSequence
    <3> QED BY <3>1, <3>2
  <2>2. m = [Msg("assistant", NoContent) EXCEPT !.calls = calls]
    BY <1>2, <2>1 DEF FromItem
  <2>3. IsMessage(m) /\ m.calls = calls /\ m.role = "assistant"
    BY <2>1, <2>2 DEF Msg, IsMessage
  <2>4. Gives("responses", x) = {c}
    BY <1>2, <2>1 DEF Gives
  <2> QED BY <2>1, <2>3, <2>4
<1>3. CASE x.type = "function_call_output"
  <2>1. PICK content : content = Str(x.output)
    OBVIOUS
  <2>2. m = [Msg("tool", content) EXCEPT !.callId = x.callId]
    BY <1>3, <2>1 DEF FromItem
  <2>3. PICK calls : calls = <<>> /\ IsSequence(calls) /\ Range(calls) = {}
    BY EmptySequence
  <2>4. IsMessage(m) /\ m.calls = calls /\ m.callId = x.callId /\ m.name = Unset
    BY <2>2, <2>3 DEF Msg, IsMessage
  <2>5. Gives("responses", x) = {} /\ Answered("responses", x) = {x.callId}
    BY <1>3 DEF Gives, Answered
  <2> QED BY <2>3, <2>4, <2>5
<1>4. CASE x.type = "reasoning" \/ x.type = "image"
  <2>1. PICK content : m = Msg("assistant", content)
    BY <1>4 DEF FromItem
  <2>2. PICK calls : calls = <<>> /\ IsSequence(calls) /\ Range(calls) = {}
    BY EmptySequence
  <2>3. IsMessage(m) /\ m.calls = calls /\ m.role = "assistant"
    BY <2>1, <2>2 DEF Msg, IsMessage
  <2>4. Gives("responses", x) = {}
    BY <1>4 DEF Gives
  <2> QED BY <2>2, <2>3, <2>4
<1> QED BY <1>1, <1>2, <1>3, <1>4 DEF IsWire

LEMMA ResponsesTraces ==
  ASSUME NEW w, IsWritten("responses", w), NEW C, GivenIn("responses", w) = C,
         \A id \in AnsweredIn("responses", w) : \E c \in C : c.id = id,
         NEW loose
  PROVE  Traceable(FromResponses(w), C, loose)
<1>1. PICK n \in Nat : n = Len(w) /\ DOMAIN w = 1 .. n /\ Range(w) = {w[i] : i \in 1 .. n}
  BY SequenceIs DEF IsWritten
<1>2. PICK ns : ns = [i \in DOMAIN w |-> FromItem(w[i])]
  OBVIOUS
<1>3. ASSUME NEW i \in 1 .. n
      PROVE  /\ IsMessage(ns[i]) /\ Range(ns[i].calls) = Gives("responses", w[i])
             /\ ns[i].role = "tool" => /\ ns[i].name = Unset
                                       /\ Answered("responses", w[i]) = {ns[i].callId}
  <2>1. PICK x, m : x = w[i] /\ m = ns[i]
    OBVIOUS
  <2>2. IsWire("responses", x) /\ m = FromItem(x)
    BY <1>1, <1>2, <2>1 DEF IsWritten
  <2> QED BY <2>1, <2>2, ItemIs
<1>4. DOMAIN ns = 1 .. n /\ ns = [i \in 1 .. n |-> ns[i]]
  BY <1>1, <1>2
<1>5. /\ IsHistory(ns) /\ CallsIn(ns) = UNION {Range(ns[i].calls) : i \in 1 .. n}
      /\ ToolsIn(ns) = {ns[i] : i \in {j \in 1 .. n : ns[j].role = "tool"}}
  BY <1>3, <1>4, ConvertedHistory
<1>6. CallsIn(ns) = C
  <2>1. C = UNION {Gives("responses", w[i]) : i \in 1 .. n}
    BY <1>1 DEF GivenIn
  <2> QED BY <1>3, <1>5, <2>1
<1>7. ASSUME NEW m \in ToolsIn(ns)
      PROVE  m.name = Unset /\ \E d \in C : d.id = m.callId
  <2>1. PICK i \in 1 .. n : m = ns[i] /\ ns[i].role = "tool"
    BY <1>5
  <2>2. PICK x : x = w[i] /\ x \in Range(w)
    BY <1>1
  <2>3. m.name = Unset /\ Answered("responses", x) = {m.callId}
    BY <1>3, <2>1, <2>2
  <2>4. m.callId \in AnsweredIn("responses", w)
    BY <2>2, <2>3 DEF AnsweredIn
  <2> QED BY <2>3, <2>4
<1>8. PICK ms : ms = Compact(ns)
  OBVIOUS
<1>9. IsHistory(ms) /\ CallsIn(ms) = C /\ ToolsIn(ms) = ToolsIn(ns)
  BY <1>5, <1>6, <1>8, CompactSays
<1>10. FromResponses(w) = ms
  BY <1>2, <1>8 DEF FromResponses
<1> QED BY <1>7, <1>9, <1>10 DEF Traceable, Backed

-----------------------------------------------------------------------------
(* The native surface.                                                      *)

LEMMA OfKindIs ==
  ASSUME NEW parts, IsSequence(parts), NEW kinds, NEW u, u = OfKind(parts, kinds)
  PROVE  IsSequence(u) /\ \A p \in Range(u) : p \in Range(parts) /\ p.kind \in kinds
<1>1. PICK n \in Nat : /\ n = Len(parts) /\ DOMAIN parts = 1 .. n
                       /\ Range(parts) = {parts[i] : i \in 1 .. n}
  BY SequenceIs
<1>2. PICK ss : ss = [i \in DOMAIN parts |-> IF parts[i].kind \in kinds THEN <<parts[i]>> ELSE <<>>]
  OBVIOUS
<1>3. DOMAIN ss = 1 .. n /\ ss = [i \in 1 .. n |-> ss[i]]
  BY <1>1, <1>2
<1>4. IsSequence(ss) /\ Len(ss) = n
  BY <1>3, SequenceMade
<1>5. Range(ss) = {ss[i] : i \in 1 .. n}
  BY <1>4, SequenceIs
<1>6. ASSUME NEW i \in 1 .. n
      PROVE  /\ IsSequence(ss[i])
             /\ \A p \in Range(ss[i]) : p \in Range(parts) /\ p.kind \in kinds
  <2>1. PICK p : p = parts[i] /\ p \in Range(parts)
    BY <1>1
  <2>2. PICK s : s = ss[i]
    OBVIOUS
  <2>3. CASE p.kind \in kinds
    <3>1. s = <<p>>
      BY <1>1, <1>2, <2>1, <2>2, <2>3
    <3>2. IsSequence(s) /\ Range(s) = {p}
      BY <3>1, OneSequence
    <3> QED BY <2>1, <2>2, <2>3, <3>2
  <2>4. CASE p.kind \notin kinds
    <3>1. s = <<>>
      BY <1>1, <1>2, <2>1, <2>2, <2>4
    <3>2. IsSequence(s) /\ Range(s) = {}
      BY <3>1, EmptySequence
    <3> QED BY <2>2, <3>2
  <2> QED BY <2>3, <2>4
<1>7. u = FlattenSeq(ss)
  BY <1>2 DEF OfKind
<1>8. IsSequence(u) /\ Range(u) = UNION {Range(s) : s \in Range(ss)}
  BY <1>4, <1>5, <1>6, <1>7, Flattened
<1> QED BY <1>5, <1>6, <1>8

LEMMA FunOf ==
  ASSUME NEW parts, IsSequence(parts), NEW kind, NEW u, u = OfKind(parts, {kind})
  PROVE  IsSequence(u) /\ \A p \in Range(u) : p.fun \in Fun(parts, kind)
<1>1. IsSequence(u) /\ \A p \in Range(u) : p \in Range(parts) /\ p.kind \in {kind}
  BY OfKindIs
<1> QED BY <1>1 DEF Fun

\* Results and calls, of those that a content gives and answers.
Speaks(ms, given, answered) ==
  /\ IsHistory(ms)
  /\ \A d \in CallsIn(ms) : d.fun \in given
  /\ \A m \in ToolsIn(ms) : m.name \in answered

LEMMA SpeaksJoined ==
  ASSUME NEW given, NEW answered, NEW ms, Speaks(ms, given, answered),
         NEW ns, Speaks(ns, given, answered), NEW os, os = ms \o ns
  PROVE  Speaks(os, given, answered)
<1>1. IsHistory(ms) /\ IsHistory(ns)
  BY DEF Speaks
<1>2. /\ IsHistory(os) /\ CallsIn(os) = CallsIn(ms) \cup CallsIn(ns)
      /\ ToolsIn(os) = ToolsIn(ms) \cup ToolsIn(ns)
  BY <1>1, JoinedHistories
<1>3. /\ \A d \in CallsIn(ms) \cup CallsIn(ns) : d.fun \in given
      /\ \A m \in ToolsIn(ms) \cup ToolsIn(ns) : m.name \in answered
  BY DEF Speaks
<1> QED BY <1>2, <1>3 DEF Speaks

LEMMA PlainSpeaks ==
  ASSUME NEW role, role # "tool", NEW content, NEW given, NEW answered,
         NEW ms, ms = <<Msg(role, content)>>
  PROVE  Speaks(ms, given, answered)
<1>1. PICK m : m = Msg(role, content) /\ ms = <<m>>
  OBVIOUS
<1>2. PICK calls : calls = <<>> /\ IsSequence(calls) /\ Range(calls) = {}
  BY EmptySequence
<1>3. IsMessage(m) /\ m.calls = calls /\ m.role = role
  BY <1>1, <1>2 DEF Msg, IsMessage
<1>4. IsHistory(ms) /\ CallsIn(ms) = {} /\ ToolsIn(ms) = {}
  BY <1>1, <1>2, <1>3, OneMessage DEF ToolIn
<1> QED BY <1>4 DEF Speaks

LEMMA NothingSpeaks ==
  ASSUME NEW given, NEW answered
  PROVE  Speaks(<<>>, given, answered)
BY NoHistory DEF Speaks

\* What a content is converted to has its calls, and the results it answers by name.
LEMMA ContentSpeaks ==
  ASSUME NEW x, IsWire("native", x), NEW ids, NEW id, NEW ms, ms = FromContent(ids, x, id)
  PROVE  Speaks(ms, Gives("native", x), Answered("native", x))
<1> DEFINE parts   == x.parts
           role    == InternalRole(x.role)
           texts   == TextsOf(parts)
           shown   == OfKind(parts, {"text", "inline"})
           made    == OfKind(parts, {"call"})
           results == OfKind(parts, {"result"})
           Result(i) == LET fun == results[i].fun IN
             [Msg("tool", Str(results[i].text)) EXCEPT
                !.name = fun, !.callId = IF fun \in DOMAIN ids THEN ids[fun] ELSE <<id, i>>]
           named == [i \in DOMAIN results |-> Result(i)]
           said  == IF texts # <<>> /\ role # "tool" THEN <<Msg(role, Str(Joined(texts)))>>
                    ELSE <<>>
<1>1. ms = CASE results # <<>> -> named \o said
             [] results = <<>> /\ made # <<>> ->
                  <<[Msg("assistant", IF texts = <<>> THEN NoContent ELSE Str(Joined(texts))) EXCEPT
                       !.calls = [i \in DOMAIN made |-> Call(<<id, i>>, made[i])]]>>
             [] results = <<>> /\ made = <<>> /\ Len(shown) > Len(texts) ->
                  <<Msg(role, List([i \in DOMAIN shown |-> shown[i].text]))>>
             [] OTHER -> <<Msg(role, Str(Joined(texts)))>>
  BY DEF FromContent
<1>2. role # "tool"
  BY DEF IsWire, InternalRole
<1>3. PICK given, answered : /\ given = Gives("native", x) /\ answered = Answered("native", x)
                             /\ given = Fun(parts, "call") /\ answered = Fun(parts, "result")
  BY DEF Gives, Answered
<1>4. IsSequence(parts)
  BY DEF IsWire
<1>5. PICK rs : rs = results /\ IsSequence(rs) /\ \A p \in Range(rs) : p.fun \in answered
  BY <1>3, <1>4, FunOf
<1>6. PICK cs : cs = made /\ IsSequence(cs) /\ \A p \in Range(cs) : p.fun \in given
  BY <1>3, <1>4, FunOf
<1> HIDE DEF texts, shown, made, results, parts, role
<1>7. Speaks(said, given, answered)
  <2>1. CASE texts # <<>> /\ role # "tool"
    <3>1. PICK content : said = <<Msg(role, content)>>
      BY <2>1
    <3> HIDE DEF said
    <3> QED BY <1>2, <3>1, PlainSpeaks
  <2>2. CASE ~(texts # <<>> /\ role # "tool")
    BY <2>2, NothingSpeaks
  <2> QED BY <2>1, <2>2
<1>8. Speaks(named, given, answered)
  <2>1. PICK n \in Nat : n = Len(rs) /\ DOMAIN rs = 1 .. n /\ Range(rs) = {rs[i] : i \in 1 .. n}
    BY <1>5, SequenceIs
  <2>2. DOMAIN named = 1 .. n /\ named = [i \in 1 .. n |-> named[i]]
    BY <1>5, <2>1
  <2>3. ASSUME NEW i \in 1 .. n
        PROVE  /\ IsMessage(named[i]) /\ Range(named[i].calls) = {}
               /\ named[i].name \in answered
    <3>1. PICK fun, content, callId :
             /\ named[i] = [Msg("tool", content) EXCEPT !.name = fun, !.callId = callId]
             /\ fun = rs[i].fun
      BY <1>5, <2>1
    <3> HIDE DEF named
    <3>2. fun \in answered
      BY <1>5, <2>1, <3>1
    <3>3. PICK calls : calls = <<>> /\ IsSequence(calls) /\ Range(calls) = {}
      BY EmptySequence
    <3>4. named[i] = [role |-> "tool", content |-> content, thoughts |-> FALSE, calls |-> calls,
                      callId |-> callId, name |-> fun]
      BY <3>1, <3>3 DEF Msg
    <3> QED BY <3>2, <3>3, <3>4 DEF IsMessage
  <2> HIDE DEF named
  <2>4. /\ IsHistory(named) /\ CallsIn(named) = UNION {Range(named[i].calls) : i \in 1 .. n}
        /\ ToolsIn(named) = {named[i] : i \in {j \in 1 .. n : named[j].role = "tool"}}
    BY <2>2, <2>3, ConvertedHistory
  <2> QED BY <2>3, <2>4 DEF Speaks
<1>9. CASE results # <<>>
  <2>1. PICK a, b : a = named /\ b = said
    OBVIOUS
  <2>2. ms = a \o b
    BY <1>1, <1>9, <2>1
  <2> HIDE DEF named, said
  <2>3. Speaks(a, given, answered) /\ Speaks(b, given, answered)
    BY <1>7, <1>8, <2>1
  <2>4. Speaks(ms, given, answered)
    BY <2>2, <2>3, SpeaksJoined
  <2> QED BY <1>3, <2>4
<1>10. CASE results = <<>> /\ made # <<>>
  <2>1. PICK content : content = IF texts = <<>> THEN NoContent ELSE Str(Joined(texts))
    OBVIOUS
  <2>2. PICK calls : calls = [i \in DOMAIN cs |-> Call(<<id, i>>, cs[i])]
    OBVIOUS
  <2>3. PICK m : m = [Msg("assistant", content) EXCEPT !.calls = calls]
    OBVIOUS
  <2>4. ms = <<m>>
    BY <1>1, <1>6, <1>10, <2>1, <2>2, <2>3
  <2>5. PICK n \in Nat : n = Len(cs) /\ DOMAIN cs = 1 .. n /\ Range(cs) = {cs[i] : i \in 1 .. n}
    BY <1>6, SequenceIs
  <2>6. IsSequence(calls) /\ Len(calls) = n
    BY <2>2, <2>5, SequenceMade
  <2>7. \A c \in Range(calls) : c.fun \in given
    <3>1. Range(calls) = {calls[i] : i \in 1 .. n}
      BY <2>6, SequenceIs
    <3>2. \A i \in 1 .. n : calls[i].fun = cs[i].fun
      BY <2>2, <2>5 DEF Call
    <3> QED BY <1>6, <2>5, <3>1, <3>2
  <2>8. IsMessage(m) /\ m.calls = calls /\ m.role = "assistant"
    BY <2>3, <2>6 DEF Msg, IsMessage
  <2>9. IsHistory(ms) /\ CallsIn(ms) = Range(calls) /\ ToolsIn(ms) = {}
    BY <2>4, <2>8, OneMessage DEF ToolIn
  <2>10. Speaks(ms, given, answered)
    BY <2>7, <2>9 DEF Speaks
  <2> QED BY <1>3, <2>10
<1>11. CASE results = <<>> /\ made = <<>>
  <2>1. PICK content : ms = <<Msg(role, content)>>
    BY <1>1, <1>11
  <2>2. Speaks(ms, given, answered)
    BY <1>2, <2>1, PlainSpeaks
  <2> QED BY <1>3, <2>2
<1> QED BY <1>9, <1>10, <1>11

\* FromNative takes a content after another.
LEMMA FromNativeIs ==
  ASSUME NEW w, NEW id, NEW n \in Nat, n = Len(w)
  PROVE  \E f : /\ FromNative(w, id) = f[n].out
                /\ \A i \in 0 .. n : f[i] = IF i = 0 THEN [ids |-> <<>>, out |-> <<>>]
                                            ELSE ContentsWith(f[i - 1], w[i], id)
<1> DEFINE Start == [ids |-> <<>>, out |-> <<>>]
           Is(f, k) ==
             f = [i \in 0 .. k |-> IF i = 0 THEN Start ELSE ContentsWith(f[i - 1], w[i], id)]
           A == {k \in 0 .. n : \E f : Is(f, k)}
<1> HIDE DEF Is, Start
<1>1. 0 \in A
  <2>1. PICK f : f = [i \in 0 .. 0 |-> Start]
    OBVIOUS
  <2>2. Is(f, 0)
    BY <2>1 DEF Is
  <2> QED BY <2>2
<1>2. ASSUME NEW k \in 0 .. n, k \in A, k < n PROVE k + 1 \in A
  <2>1. PICK f : Is(f, k)
    BY <1>2
  <2>2. PICK last : last = ContentsWith(f[k], w[k + 1], id)
    OBVIOUS
  <2>3. PICK g : g = [i \in 0 .. k + 1 |-> IF i = k + 1 THEN last ELSE f[i]]
    OBVIOUS
  <2>4. ASSUME NEW i \in 0 .. k + 1
        PROVE  g[i] = IF i = 0 THEN Start ELSE ContentsWith(g[i - 1], w[i], id)
    <3>1. CASE i = k + 1
      BY <2>2, <2>3, <3>1
    <3>2. CASE i # k + 1
      <4>1. i \in 0 .. k /\ g[i] = f[i] /\ (i # 0 => i - 1 \in 0 .. k /\ g[i - 1] = f[i - 1])
        BY <2>3, <3>2
      <4> QED BY <2>1, <4>1 DEF Is
    <3> QED BY <3>1, <3>2
  <2>5. Is(g, k + 1)
    BY <2>3, <2>4 DEF Is
  <2> QED BY <1>2, <2>5
<1>3. \E f : Is(f, n)
  <2>1. n \in A
    <3> HIDE DEF A
    <3>1. \A k \in 0 .. n : k \in A /\ k < n => k + 1 \in A
      BY <1>2
    <3>2. \A k \in 0 .. n : k \in A
      BY <1>1, <3>1, UpTo
    <3>3. n \in 0 .. n
      OBVIOUS
    <3> QED BY <3>2, <3>3
  <2> QED BY <2>1
<1> DEFINE G == CHOOSE f : Is(f, n)
<1>4. Is(G, n)
  BY <1>3
<1>5. FromNative(w, id) = G[n].out
  BY DEF FromNative, Is, Start
<1> HIDE DEF G
<1>6. \A i \in 0 .. n : G[i] = IF i = 0 THEN Start ELSE ContentsWith(G[i - 1], w[i], id)
  BY <1>4 DEF Is
<1> QED BY <1>5, <1>6 DEF Start

\* What the contents of a history are converted to.
LEMMA NativeSpeaks ==
  ASSUME NEW w, IsWritten("native", w), NEW id, NEW ms, ms = FromNative(w, id)
  PROVE  Speaks(ms, GivenIn("native", w), AnsweredIn("native", w))
<1>1. PICK n \in Nat : n = Len(w) /\ DOMAIN w = 1 .. n /\ Range(w) = {w[i] : i \in 1 .. n}
  BY SequenceIs DEF IsWritten
<1>2. PICK f : /\ ms = f[n].out
               /\ \A i \in 0 .. n : f[i] = IF i = 0 THEN [ids |-> <<>>, out |-> <<>>]
                                           ELSE ContentsWith(f[i - 1], w[i], id)
  BY <1>1, FromNativeIs
<1>3. PICK given, answered : given = GivenIn("native", w) /\ answered = AnsweredIn("native", w)
  OBVIOUS
<1> DEFINE A == {i \in 0 .. n : Speaks(f[i].out, given, answered)}
<1>4. 0 \in A
  <2>1. f[0].out = <<>>
    BY <1>2
  <2> QED BY <2>1, NothingSpeaks
<1>5. ASSUME NEW i \in 0 .. n, i \in A, i < n PROVE i + 1 \in A
  <2>1. PICK k \in 1 .. n : k = i + 1 /\ k - 1 = i
    BY <1>5
  <2>2. f[k] = ContentsWith(f[i], w[k], id)
    BY <1>2, <2>1
  <2>3. PICK x : x = w[k] /\ x \in Range(w) /\ IsWire("native", x)
    BY <1>1 DEF IsWritten
  <2>4. PICK done, ids, next, new : /\ done = f[i].out /\ new = FromContent(ids, x, next)
                                    /\ f[k].out = done \o new
    <3>1. PICK fresh : fresh = <<id, Len(f[i].out) + 1>>
      OBVIOUS
    <3>2. PICK last : last = LastCalls(f[i].ids, OfKind(x.parts, {"call"}), fresh)
      OBVIOUS
    <3>3. f[k] = [ids |-> last, out |-> f[i].out \o FromContent(last, x, fresh)]
      BY <2>2, <2>3, <3>1, <3>2 DEF ContentsWith
    <3>4. f[k].out = f[i].out \o FromContent(last, x, fresh)
      BY <3>3
    <3> QED BY <3>4
  <2>5. Speaks(new, Gives("native", x), Answered("native", x))
    BY <2>3, <2>4, ContentSpeaks
  <2>6. Gives("native", x) \subseteq given /\ Answered("native", x) \subseteq answered
    BY <1>3, <2>3 DEF GivenIn, AnsweredIn
  <2>7. Speaks(new, given, answered)
    BY <2>5, <2>6 DEF Speaks
  <2>8. Speaks(done, given, answered)
    BY <1>5, <2>4
  <2>9. Speaks(f[k].out, given, answered)
    BY <2>4, <2>7, <2>8, SpeaksJoined
  <2> QED BY <2>1, <2>9
<1>6. n \in A
  <2> HIDE DEF A
  <2>1. \A i \in 0 .. n : i \in A /\ i < n => i + 1 \in A
    BY <1>5
  <2>2. \A i \in 0 .. n : i \in A
    BY <1>4, <2>1, UpTo
  <2>3. n \in 0 .. n
    OBVIOUS
  <2> QED BY <2>2, <2>3
<1> QED BY <1>2, <1>3, <1>6

LEMMA NativeTraces ==
  ASSUME NEW w, IsWritten("native", w), NEW id, NEW C,
         \A f \in GivenIn("native", w) : \E c \in C : f = c.fun,
         \A f \in AnsweredIn("native", w) : \E c \in C : f = c.fun
  PROVE  Traceable(FromNative(w, id), C, TRUE)
<1>1. PICK ms : ms = FromNative(w, id)
  OBVIOUS
<1>2. Speaks(ms, GivenIn("native", w), AnsweredIn("native", w))
  BY <1>1, NativeSpeaks
<1>3. Traceable(ms, C, TRUE)
  BY <1>2 DEF Speaks, Traceable, Backed, Named
<1> QED BY <1>1, <1>3

\* A leading system message changes nothing of that.
LEMMA SystemTraces ==
  ASSUME NEW C, NEW loose, NEW ms, Traceable(ms, C, loose), NEW ns, ns = SystemMsg \o ms
  PROVE  Traceable(ns, C, loose)
<1>1. CASE setup.system
  <2>1. PICK x : x = Str(<<"system">>)
    OBVIOUS
  <2>2. ns = <<Msg("system", x)>> \o ms
    BY <1>1, <2>1 DEF SystemMsg
  <2>3. IsHistory(ms)
    BY DEF Traceable
  <2>4. IsHistory(ns) /\ CallsIn(ns) = CallsIn(ms) /\ ToolsIn(ns) = ToolsIn(ms)
    BY <2>2, <2>3, SystemFirst
  <2> QED BY <2>4 DEF Traceable, Backed
<1>2. CASE ~setup.system
  <2>1. ns = <<>> \o ms
    BY <1>2 DEF SystemMsg
  <2>2. ms \in Seq(Range(ms))
    BY DEF Traceable, IsHistory, IsSequence
  <2>3. ns = ms
    BY <2>1, <2>2, ConcatEmptySeq
  <2> QED BY <2>3
<1> QED BY <1>1, <1>2

-----------------------------------------------------------------------------
(* What a dialogue holds: each exchange writes the results of the calls of  *)
(* the one before, and plays back the calls of its reply.                   *)

\* By what a call is played back, and by what its result refers to it.
Key(api, c)  == IF api = "native" THEN c.fun ELSE c
Ref(api, c) == IF api = "native" THEN c.fun ELSE c.id
Keys(api, C)  == {Key(api, c) : c \in C}
Refs(api, C) == {Ref(api, c) : c \in C}

Writing(api, w, owed) ==
  IsWritten(api, w) /\ GivenIn(api, w) = {} /\ AnsweredIn(api, w) \subseteq Refs(api, owed)

Playing(api, w, calls) ==
  IsWritten(api, w) /\ GivenIn(api, w) = Keys(api, Range(calls)) /\ AnsweredIn(api, w) = {}

\* The calls whose results exchange e brings.
Owed(t, e) == IF e = 1 THEN {} ELSE Range(t[e - 1].calls)

IsTalk(api, t) ==
  /\ IsSequence(t)
  /\ \A e \in 1 .. Len(t) : /\ IsSequence(t[e].calls) /\ Writing(api, t[e].wrote, Owed(t, e))
                            /\ Playing(api, t[e].plays, t[e].calls)

\* The calls of a dialogue.
Made(t) == UNION {Range(t[e].calls) : e \in 1 .. Len(t)}

\* The results of a request in flight answer calls of the exchanges the caller holds,
\* and what is sent to Google names them so.
NamingInv ==
  /\ IsTalk(setup.api, talk)
  /\ IF asked = <<>> THEN outgoing = <<>> ELSE Writing(setup.api, asked, Owed(talk, Len(talk) + 1))
  /\ Resolved(outgoing, Made(talk), setup.api = "native")

\* The invariant says that results are named.
LEMMA NamingNames ==
  ASSUME NamingInv
  PROVE  ResultsNamed
<1>1. PICK ms : ms = outgoing /\ Resolved(ms, Made(talk), setup.api = "native")
  BY DEF NamingInv
<1>2. DOMAIN ms = 1 .. Len(ms) /\ Range(ms) = {ms[i] : i \in 1 .. Len(ms)}
  BY <1>1, SequenceIs DEF Resolved, IsHistory
<1>3. \A e \in 1 .. Len(talk) :
        Range(talk[e].calls) = {talk[e].calls[c] : c \in DOMAIN talk[e].calls}
  BY DEF Range
<1>4. DOMAIN talk = 1 .. Len(talk)
  BY SequenceIs DEF NamingInv, IsTalk
<1>5. ASSUME NEW i \in DOMAIN ms, ms[i].role = "tool"
      PROVE  \E e \in DOMAIN talk : \E c \in DOMAIN talk[e].calls :
               /\ ms[i].name = talk[e].calls[c].fun
               /\ setup.api = "native" \/ ms[i].callId = talk[e].calls[c].id
  <2>1. PICK m : m = ms[i] /\ m \in ToolsIn(ms)
    BY <1>2, <1>5 DEF ToolsIn
  <2>2. PICK d \in Made(talk) : m.name = d.fun /\ (setup.api = "native" \/ m.callId = d.id)
    BY <1>1, <2>1 DEF Resolved, Named
  <2>3. PICK e \in 1 .. Len(talk) : d \in Range(talk[e].calls)
    BY <2>2 DEF Made
  <2>4. PICK c \in DOMAIN talk[e].calls : d = talk[e].calls[c]
    BY <1>3, <2>3
  <2> QED BY <1>4, <2>1, <2>2, <2>4
<1> QED BY <1>1, <1>5 DEF ResultsNamed

LEMMA NothingResolves ==
  ASSUME NEW C, NEW loose
  PROVE  Resolved(<<>>, C, loose)
BY NoHistory DEF Resolved, Backed

\* A history is the exchanges, one after another.
LEMMA HistoryIs ==
  ASSUME NEW api, NEW t, IsTalk(api, t), NEW w, w = History(t)
  PROVE  /\ IsWritten(api, w) /\ GivenIn(api, w) = Keys(api, Made(t))
         /\ AnsweredIn(api, w) \subseteq Refs(api, Made(t))
<1>1. PICK n \in Nat : n = Len(t) /\ DOMAIN t = 1 .. n
  BY SequenceIs DEF IsTalk
<1>2. PICK ss : ss = [e \in DOMAIN t |-> t[e].wrote \o t[e].plays]
  OBVIOUS
<1>3. DOMAIN ss = 1 .. n /\ ss = [e \in 1 .. n |-> ss[e]]
  BY <1>1, <1>2
<1>4. IsSequence(ss) /\ Len(ss) = n
  BY <1>3, SequenceMade
<1>5. Range(ss) = {ss[e] : e \in 1 .. n}
  BY <1>4, SequenceIs
<1>6. ASSUME NEW e \in 1 .. n
      PROVE  /\ IsWritten(api, ss[e]) /\ GivenIn(api, ss[e]) = Keys(api, Range(t[e].calls))
             /\ AnsweredIn(api, ss[e]) \subseteq Refs(api, Made(t))
  <2>1. PICK a, b, s : a = t[e].wrote /\ b = t[e].plays /\ s = ss[e]
    OBVIOUS
  <2>2. s = a \o b
    BY <1>1, <1>2, <2>1
  <2>3. Writing(api, a, Owed(t, e)) /\ Playing(api, b, t[e].calls)
    BY <1>1, <2>1 DEF IsTalk
  <2>4. /\ IsWritten(api, s) /\ GivenIn(api, s) = GivenIn(api, a) \cup GivenIn(api, b)
        /\ AnsweredIn(api, s) = AnsweredIn(api, a) \cup AnsweredIn(api, b)
    <3>1. IsWritten(api, a) /\ IsWritten(api, b)
      BY <2>3 DEF Writing, Playing
    <3>2. Together(api, a, b, s)
      BY <2>2, <3>1, WrittenJoined
    <3> QED BY <3>2 DEF Together
  <2>5. Owed(t, e) \subseteq Made(t)
    <3>1. CASE e = 1
      BY <3>1 DEF Owed
    <3>2. CASE e # 1
      <4>1. PICK k \in 1 .. n : k = e - 1
        BY <3>2
      <4>2. Owed(t, e) = Range(t[k].calls)
        BY <3>2, <4>1 DEF Owed
      <4> QED BY <1>1, <4>2 DEF Made
    <3> QED BY <3>1, <3>2
  <2>6. Refs(api, Owed(t, e)) \subseteq Refs(api, Made(t))
    BY <2>5 DEF Refs
  <2> QED BY <2>1, <2>3, <2>4, <2>6 DEF Writing, Playing
<1>7. w = FlattenSeq(ss)
  BY <1>2 DEF History
<1>8. IsSequence(w) /\ Range(w) = UNION {Range(s) : s \in Range(ss)}
  BY <1>4, <1>5, <1>6, <1>7, Flattened DEF IsWritten
<1>9. Range(w) = UNION {Range(ss[e]) : e \in 1 .. n}
  BY <1>5, <1>8
<1>10. IsWritten(api, w)
  BY <1>6, <1>8, <1>9 DEF IsWritten
<1>11. GivenIn(api, w) = UNION {GivenIn(api, ss[e]) : e \in 1 .. n}
  BY <1>9 DEF GivenIn
<1>12. AnsweredIn(api, w) = UNION {AnsweredIn(api, ss[e]) : e \in 1 .. n}
  BY <1>9 DEF AnsweredIn
<1>13. Keys(api, Made(t)) = UNION {Keys(api, Range(t[e].calls)) : e \in 1 .. n}
  BY <1>1 DEF Keys, Made
<1> QED BY <1>6, <1>10, <1>11, <1>12, <1>13

\* What is owed next is asked for already.
LEMMA OwedMade ==
  ASSUME NEW api, NEW t, IsTalk(api, t)
  PROVE  Owed(t, Len(t) + 1) \subseteq Made(t)
<1>1. PICK n \in Nat : n = Len(t)
  BY SequenceIs DEF IsTalk
<1>2. CASE n = 0
  BY <1>1, <1>2 DEF Owed
<1>3. CASE n # 0
  <2>1. Owed(t, n + 1) = Range(t[n].calls) /\ n \in 1 .. n
    BY <1>1, <1>3 DEF Owed
  <2> QED BY <1>1, <2>1 DEF Made
<1> QED BY <1>2, <1>3

\* The whole history of a request.
LEMMA RequestIs ==
  ASSUME NEW api, NEW t, IsTalk(api, t), NEW wrote, Writing(api, wrote, Owed(t, Len(t) + 1)),
         NEW w, w = History(t) \o wrote
  PROVE  /\ IsWritten(api, w) /\ GivenIn(api, w) = Keys(api, Made(t))
         /\ AnsweredIn(api, w) \subseteq Refs(api, Made(t))
<1>1. PICK h : h = History(t)
  OBVIOUS
<1>2. /\ IsWritten(api, h) /\ GivenIn(api, h) = Keys(api, Made(t))
      /\ AnsweredIn(api, h) \subseteq Refs(api, Made(t))
  BY <1>1, HistoryIs
<1>3. w = h \o wrote
  BY <1>1
<1>4. IsWritten(api, wrote) /\ GivenIn(api, wrote) = {}
  BY DEF Writing
<1>5. /\ IsWritten(api, w) /\ GivenIn(api, w) = GivenIn(api, h) \cup GivenIn(api, wrote)
      /\ AnsweredIn(api, w) = AnsweredIn(api, h) \cup AnsweredIn(api, wrote)
  <2>1. Together(api, h, wrote, w)
    BY <1>2, <1>3, <1>4, WrittenJoined
  <2> QED BY <2>1 DEF Together
<1>6. AnsweredIn(api, wrote) \subseteq Refs(api, Made(t))
  BY OwedMade DEF Writing, Refs
<1> QED BY <1>2, <1>4, <1>5, <1>6

\* Wire that is made entry by entry.
Filled(api, w, n) ==
  /\ IsWritten(api, w) /\ Len(w) = n
  /\ GivenIn(api, w) = UNION {Gives(api, w[i]) : i \in 1 .. n}
  /\ AnsweredIn(api, w) = UNION {Answered(api, w[i]) : i \in 1 .. n}

LEMMA MadeWritten ==
  ASSUME NEW api, NEW n \in Nat, NEW w, DOMAIN w = 1 .. n, w = [i \in 1 .. n |-> w[i]],
         \A i \in 1 .. n : IsWire(api, w[i])
  PROVE  Filled(api, w, n)
<1>1. IsSequence(w) /\ Len(w) = n
  BY SequenceMade
<1>2. Range(w) = {w[i] : i \in 1 .. n}
  BY <1>1, SequenceIs
<1> QED BY <1>1, <1>2 DEF Filled, IsWritten, GivenIn, AnsweredIn

\* u has the calls and the results that the parts s and t have.
Fused(s, t, u) == IsSequence(u) /\ \A kind : Fun(u, kind) = Fun(s, kind) \cup Fun(t, kind)

LEMMA PartsJoined ==
  ASSUME NEW s, IsSequence(s), NEW t, IsSequence(t), NEW u, u = s \o t
  PROVE  Fused(s, t, u)
<1>1. IsSequence(u) /\ Range(u) = Range(s) \cup Range(t)
  BY JoinedSequences
<1>2. \A kind : Fun(u, kind) = Fun(s, kind) \cup Fun(t, kind)
  BY <1>1 DEF Fun
<1> QED BY <1>1, <1>2 DEF Fused

LEMMA PendingIs ==
  ASSUME NEW api, IsTalk(api, talk)
  PROVE  IsSequence(Pending) /\ Range(Pending) = Owed(talk, Len(talk) + 1)
<1>1. PICK n \in Nat : n = Len(talk) /\ talk \in Seq(Range(talk))
  BY SequenceIs DEF IsTalk, IsSequence
<1>2. CASE talk = <<>>
  BY <1>2, EmptySequence DEF Pending, Owed
<1>3. CASE talk # <<>>
  <2>1. n # 0 /\ n \in 1 .. n
    BY <1>1, <1>3, EmptySeq
  <2>2. Pending = talk[n].calls
    BY <1>1, <1>3 DEF Pending, Last
  <2>3. Owed(talk, n + 1) = Range(talk[n].calls)
    BY <1>1, <2>1 DEF Owed
  <2> QED BY <1>1, <2>1, <2>2, <2>3 DEF IsTalk
<1> QED BY <1>2, <1>3

\* What a caller writes answers what it owes.
LEMMA ChatWrites ==
  ASSUME IsTalk(setup.api, talk), setup.api = "chat", NEW text, NEW output,
         NEW wrote, wrote = Writes(text, output)
  PROVE  /\ Writing("chat", wrote, Owed(talk, Len(talk) + 1))
         /\ text # <<>> \/ Pending # <<>> => wrote # <<>>
<1>1. PICK p : p = Pending /\ IsSequence(p) /\ Range(p) = Owed(talk, Len(talk) + 1)
  BY PendingIs
<1>2. PICK n \in Nat : n = Len(p) /\ DOMAIN p = 1 .. n /\ Range(p) = {p[i] : i \in 1 .. n}
  BY <1>1, SequenceIs
<1>3. PICK a : a = [i \in DOMAIN p |-> [ChatMsg("tool", Str(output)) EXCEPT !.callId = p[i].id]]
  OBVIOUS
<1>4. PICK b : b = IF text = <<>> THEN <<>> ELSE <<ChatMsg("user", Str(text))>>
  OBVIOUS
<1>5. wrote = a \o b
  BY <1>1, <1>3, <1>4 DEF Writes
<1>6. ASSUME NEW i \in 1 .. n
      PROVE  /\ IsWire("chat", a[i]) /\ Gives("chat", a[i]) = {}
             /\ Answered("chat", a[i]) = {p[i].id}
  <2>1. PICK x, calls : x = a[i] /\ calls = <<>> /\ IsSequence(calls) /\ Range(calls) = {}
    BY EmptySequence
  <2>2. x.role = "tool" /\ x.calls = calls /\ x.callId = p[i].id
    BY <1>2, <1>3, <2>1 DEF ChatMsg
  <2> QED BY <2>1, <2>2 DEF IsWire, Gives, Answered
<1>7. DOMAIN a = 1 .. n /\ a = [i \in 1 .. n |-> a[i]]
  BY <1>2, <1>3
<1>8. /\ IsWritten("chat", a) /\ Len(a) = n
      /\ GivenIn("chat", a) = UNION {Gives("chat", a[i]) : i \in 1 .. n}
      /\ AnsweredIn("chat", a) = UNION {Answered("chat", a[i]) : i \in 1 .. n}
  <2>1. \A i \in 1 .. n : IsWire("chat", a[i])
    BY <1>6
  <2>2. Filled("chat", a, n)
    BY <1>2, <1>7, <2>1, MadeWritten
  <2> QED BY <2>2 DEF Filled
<1>9. GivenIn("chat", a) = {} /\ AnsweredIn("chat", a) = Refs("chat", Owed(talk, Len(talk) + 1))
  <2>1. GivenIn("chat", a) = {}
    BY <1>6, <1>8
  <2>2. AnsweredIn("chat", a) = {p[i].id : i \in 1 .. n}
    BY <1>6, <1>8
  <2>3. Refs("chat", Range(p)) = {p[i].id : i \in 1 .. n}
    BY <1>2 DEF Refs, Ref
  <2> QED BY <1>1, <2>1, <2>2, <2>3
<1>10. /\ IsWritten("chat", b) /\ GivenIn("chat", b) = {} /\ AnsweredIn("chat", b) = {}
       /\ text # <<>> => Len(b) = 1
  <2>1. CASE text = <<>>
    BY <1>4, <2>1, NoneWritten
  <2>2. CASE text # <<>>
    <3>1. PICK x : x = ChatMsg("user", Str(text)) /\ b = <<x>>
      BY <1>4, <2>2
    <3>2. PICK calls : calls = <<>> /\ IsSequence(calls) /\ Range(calls) = {}
      BY EmptySequence
    <3>3. x.role = "user" /\ x.calls = calls
      BY <3>1, <3>2 DEF ChatMsg
    <3>4. IsWire("chat", x) /\ Gives("chat", x) = {} /\ Answered("chat", x) = {}
      BY <3>2, <3>3 DEF IsWire, Gives, Answered
    <3>5. Len(b) = 1
      BY <3>1, OneSequence
    <3> QED BY <3>1, <3>4, <3>5, OneWritten
  <2> QED BY <2>1, <2>2
<1>11. Together("chat", a, b, wrote)
  BY <1>5, <1>8, <1>10, WrittenJoined
<1>12. Writing("chat", wrote, Owed(talk, Len(talk) + 1))
  BY <1>9, <1>10, <1>11 DEF Writing, Together
<1>13. Len(wrote) = n + Len(b) /\ Len(b) \in Nat
  <2>1. IsSequence(a) /\ IsSequence(b)
    BY <1>8, <1>10 DEF IsWritten
  <2> QED BY <1>5, <1>8, <2>1, JoinedSequences
<1>14. Pending # <<>> => n # 0
  <2>1. p \in Seq(Range(p))
    BY <1>1 DEF IsSequence
  <2> QED BY <1>1, <1>2, <2>1, EmptySeq
<1>15. ASSUME text # <<>> \/ Pending # <<>> PROVE Len(wrote) # 0
  BY <1>2, <1>10, <1>13, <1>14, <1>15
<1> QED BY <1>12, <1>15, EmptySequence

LEMMA ResponsesWrites ==
  ASSUME IsTalk(setup.api, talk), setup.api = "responses", NEW text, NEW output,
         NEW wrote, wrote = Writes(text, output)
  PROVE  /\ Writing("responses", wrote, Owed(talk, Len(talk) + 1))
         /\ text # <<>> \/ Pending # <<>> => wrote # <<>>
<1>1. PICK p : p = Pending /\ IsSequence(p) /\ Range(p) = Owed(talk, Len(talk) + 1)
  BY PendingIs
<1>2. PICK n \in Nat : n = Len(p) /\ DOMAIN p = 1 .. n /\ Range(p) = {p[i] : i \in 1 .. n}
  BY <1>1, SequenceIs
<1>3. PICK a : a = [i \in DOMAIN p |->
                     [type |-> "function_call_output", callId |-> p[i].id, output |-> output]]
  OBVIOUS
<1>4. PICK b : b = IF text = <<>> THEN <<>>
                   ELSE <<[type |-> "message", role |-> "user", content |-> Str(text)]>>
  OBVIOUS
<1>5. wrote = a \o b
  BY <1>1, <1>3, <1>4 DEF Writes
<1>6. ASSUME NEW i \in 1 .. n
      PROVE  /\ IsWire("responses", a[i]) /\ Gives("responses", a[i]) = {}
             /\ Answered("responses", a[i]) = {p[i].id}
  <2>1. PICK x : x = a[i]
    OBVIOUS
  <2>2. x.type = "function_call_output" /\ x.callId = p[i].id
    BY <1>2, <1>3, <2>1
  <2> QED BY <2>1, <2>2 DEF IsWire, Gives, Answered
<1>7. DOMAIN a = 1 .. n /\ a = [i \in 1 .. n |-> a[i]]
  BY <1>2, <1>3
<1>8. /\ IsWritten("responses", a) /\ Len(a) = n
      /\ GivenIn("responses", a) = UNION {Gives("responses", a[i]) : i \in 1 .. n}
      /\ AnsweredIn("responses", a) = UNION {Answered("responses", a[i]) : i \in 1 .. n}
  <2>1. \A i \in 1 .. n : IsWire("responses", a[i])
    BY <1>6
  <2>2. Filled("responses", a, n)
    BY <1>2, <1>7, <2>1, MadeWritten
  <2> QED BY <2>2 DEF Filled
<1>9. /\ GivenIn("responses", a) = {}
      /\ AnsweredIn("responses", a) = Refs("responses", Owed(talk, Len(talk) + 1))
  <2>1. GivenIn("responses", a) = {}
    BY <1>6, <1>8
  <2>2. AnsweredIn("responses", a) = {p[i].id : i \in 1 .. n}
    BY <1>6, <1>8
  <2>3. Refs("responses", Range(p)) = {p[i].id : i \in 1 .. n}
    BY <1>2 DEF Refs, Ref
  <2> QED BY <1>1, <2>1, <2>2, <2>3
<1>10. /\ IsWritten("responses", b)
       /\ GivenIn("responses", b) = {} /\ AnsweredIn("responses", b) = {}
       /\ text # <<>> => Len(b) = 1
  <2>1. CASE text = <<>>
    BY <1>4, <2>1, NoneWritten
  <2>2. CASE text # <<>>
    <3>1. PICK x : x = [type |-> "message", role |-> "user", content |-> Str(text)] /\ b = <<x>>
      BY <1>4, <2>2
    <3>2. x.type = "message" /\ x.role = "user"
      BY <3>1
    <3>3. /\ IsWire("responses", x) /\ Gives("responses", x) = {}
          /\ Answered("responses", x) = {}
      BY <3>2 DEF IsWire, Gives, Answered
    <3>4. Len(b) = 1
      BY <3>1, OneSequence
    <3> QED BY <3>1, <3>3, <3>4, OneWritten
  <2> QED BY <2>1, <2>2
<1>11. Together("responses", a, b, wrote)
  BY <1>5, <1>8, <1>10, WrittenJoined
<1>12. Writing("responses", wrote, Owed(talk, Len(talk) + 1))
  BY <1>9, <1>10, <1>11 DEF Writing, Together
<1>13. Len(wrote) = n + Len(b) /\ Len(b) \in Nat
  <2>1. IsSequence(a) /\ IsSequence(b)
    BY <1>8, <1>10 DEF IsWritten
  <2> QED BY <1>5, <1>8, <2>1, JoinedSequences
<1>14. Pending # <<>> => n # 0
  <2>1. p \in Seq(Range(p))
    BY <1>1 DEF IsSequence
  <2> QED BY <1>1, <1>2, <2>1, EmptySeq
<1>15. ASSUME text # <<>> \/ Pending # <<>> PROVE Len(wrote) # 0
  BY <1>2, <1>10, <1>13, <1>14, <1>15
<1> QED BY <1>12, <1>15, EmptySequence

LEMMA NativeWrites ==
  ASSUME IsTalk(setup.api, talk), setup.api = "native", NEW text, NEW output,
         NEW wrote, wrote = Writes(text, output)
  PROVE  Writing("native", wrote, Owed(talk, Len(talk) + 1)) /\ wrote # <<>>
<1>1. PICK p : p = Pending /\ IsSequence(p) /\ Range(p) = Owed(talk, Len(talk) + 1)
  BY PendingIs
<1>2. PICK n \in Nat : n = Len(p) /\ DOMAIN p = 1 .. n /\ Range(p) = {p[i] : i \in 1 .. n}
  BY <1>1, SequenceIs
<1>3. PICK a : a = [i \in DOMAIN p |-> [kind |-> "result", fun |-> p[i].fun, text |-> output]]
  OBVIOUS
<1>4. PICK b : b = IF text = <<>> THEN <<>> ELSE <<[kind |-> "text", text |-> text]>>
  OBVIOUS
<1>5. PICK x, parts : parts = a \o b /\ x = [role |-> "user", parts |-> parts] /\ wrote = <<x>>
  BY <1>1, <1>3, <1>4 DEF Writes
<1>6. /\ IsSequence(a) /\ Fun(a, "call") = {}
      /\ Fun(a, "result") = Refs("native", Owed(talk, Len(talk) + 1))
  <2>1. DOMAIN a = 1 .. n /\ a = [i \in 1 .. n |-> a[i]]
    BY <1>2, <1>3
  <2>2. IsSequence(a) /\ Len(a) = n
    BY <2>1, SequenceMade
  <2>3. Range(a) = {a[i] : i \in 1 .. n}
    BY <2>2, SequenceIs
  <2>4. \A i \in 1 .. n : a[i].kind = "result" /\ a[i].fun = p[i].fun
    BY <1>2, <1>3
  <2>5. Fun(a, "call") = {}
    BY <2>3, <2>4 DEF Fun
  <2>6. Fun(a, "result") = {p[i].fun : i \in 1 .. n}
    BY <2>3, <2>4 DEF Fun
  <2> QED BY <1>1, <1>2, <2>2, <2>5, <2>6 DEF Refs, Ref
<1>7. IsSequence(b) /\ Fun(b, "call") = {} /\ Fun(b, "result") = {}
  <2>1. CASE text = <<>>
    BY <1>4, <2>1, EmptySequence DEF Fun
  <2>2. CASE text # <<>>
    <3>1. PICK y : y = [kind |-> "text", text |-> text] /\ b = <<y>>
      BY <1>4, <2>2
    <3>2. IsSequence(b) /\ Range(b) = {y} /\ y.kind = "text"
      BY <3>1, OneSequence
    <3> QED BY <3>2 DEF Fun
  <2> QED BY <2>1, <2>2
<1>8. /\ IsSequence(parts) /\ Fun(parts, "call") = {}
      /\ Fun(parts, "result") = Refs("native", Owed(talk, Len(talk) + 1))
  <2>1. Fused(a, b, parts)
    BY <1>5, <1>6, <1>7, PartsJoined
  <2> QED BY <1>6, <1>7, <2>1 DEF Fused
<1>9. x.role = "user" /\ x.parts = parts
  BY <1>5
<1>10. /\ IsWire("native", x) /\ Gives("native", x) = {}
       /\ Answered("native", x) = Refs("native", Owed(talk, Len(talk) + 1))
  BY <1>8, <1>9 DEF IsWire, Gives, Answered
<1>11. /\ IsWritten("native", wrote) /\ GivenIn("native", wrote) = Gives("native", x)
       /\ AnsweredIn("native", wrote) = Answered("native", x)
  BY <1>5, <1>10, OneWritten
<1>12. wrote # <<>>
  BY <1>5
<1> QED BY <1>10, <1>11, <1>12 DEF Writing

-----------------------------------------------------------------------------
(* A request names its results.                                             *)

LEMMA LongestIs ==
  ASSUME NEW ms, Len(ms) \in Nat
  PROVE  Longest(ms) \in 0 .. Len(ms)
<1> DEFINE found == {n \in 2 .. Len(ms) : /\ ms[n].role \in {"assistant", "system", "tool"}
                                          /\ Matches(turns, SubSeq(ms, 1, n)) # {}}
<1>1. CASE found = {}
  BY <1>1 DEF Longest
<1>2. CASE found # {}
  <2>1. Longest(ms) = Latest(found)
    BY <1>2 DEF Longest, Latest
  <2>2. found \in SUBSET (0 .. Len(ms))
    OBVIOUS
  <2> HIDE DEF found
  <2>3. Latest(found) \in found
    BY <1>2, <2>2, LatestIs
  <2> QED BY <2>1, <2>2, <2>3
<1> QED BY <1>1, <1>2

LEMMA SubmitsNames ==
  ASSUME NamingInv, NEW ms, Traceable(ms, Made(talk), setup.api = "native"),
         NEW wrote, wrote # <<>>, Writing(setup.api, wrote, Owed(talk, Len(talk) + 1)),
         Submits(ms, wrote)
  PROVE  NamingInv'
<1>1. PICK ps : ps = Prepare(ms, setup.tools, TRUE)
  OBVIOUS
<1>2. PICK n : n = Longest(ps)
  OBVIOUS
<1>3. /\ asked' = wrote /\ setup' = setup /\ talk' = talk
      /\ outgoing' = IF n = 0 THEN ps ELSE Prepare(Remaining(ps, n), setup.tools, FALSE)
  BY <1>1, <1>2 DEF Submits
<1>4. Resolved(ps, Made(talk), setup.api = "native")
  BY <1>1, PreparedResolves
<1>5. Resolved(outgoing', Made(talk), setup.api = "native")
  <2>1. CASE n = 0
    BY <1>3, <1>4, <2>1
  <2>2. CASE n # 0
    <3>1. Len(ps) \in Nat
      BY <1>4, SequenceIs DEF Resolved, IsHistory
    <3>2. n \in 0 .. Len(ps)
      BY <1>2, <3>1, LongestIs
    <3>3. PICK rs : rs = Remaining(ps, n) /\ Resolved(rs, Made(talk), setup.api = "native")
      BY <1>4, <3>2, RestResolves
    <3>4. Traceable(rs, Made(talk), setup.api = "native")
      BY <3>3, ResolvedTraces
    <3>5. outgoing' = Prepare(rs, setup.tools, FALSE)
      BY <1>3, <2>2, <3>3
    <3> QED BY <3>4, <3>5, PreparedResolves
  <2> QED BY <2>1, <2>2
<1>6. IsTalk(setup'.api, talk')
  BY <1>3 DEF NamingInv
<1>7. Writing(setup'.api, asked', Owed(talk', Len(talk') + 1))
  BY <1>3
<1>8. Resolved(outgoing', Made(talk'), setup'.api = "native")
  BY <1>3, <1>5
<1> QED BY <1>3, <1>6, <1>7, <1>8 DEF NamingInv

LEMMA AskChatNames ==
  ASSUME NamingInv, NEW text, NEW output, AskChat(text, output)
  PROVE  NamingInv'
<1>1. setup.api = "chat" /\ MayAsk(text) /\ IsTalk("chat", talk)
  BY DEF AskChat, NamingInv
<1>2. PICK wrote : wrote = Writes(text, output)
  OBVIOUS
<1>3. PICK s : s = IF setup.system THEN <<ChatMsg("developer", Str(<<"system">>))>> ELSE <<>>
  OBVIOUS
<1>4. Submits(FromChat(s \o History(talk) \o wrote), wrote)
  BY <1>2, <1>3 DEF AskChat
<1>5. Writing("chat", wrote, Owed(talk, Len(talk) + 1)) /\ wrote # <<>>
  <2>1. text # <<>> \/ Pending # <<>>
    BY <1>1 DEF MayAsk
  <2> QED BY <1>1, <1>2, <2>1, ChatWrites
<1>6. IsWritten("chat", s) /\ GivenIn("chat", s) = {} /\ AnsweredIn("chat", s) = {}
  <2>1. CASE setup.system
    <3>1. PICK x, calls : /\ x = ChatMsg("developer", Str(<<"system">>)) /\ calls = <<>>
                          /\ IsSequence(calls) /\ Range(calls) = {}
      BY EmptySequence
    <3>2. x.role = "developer" /\ x.calls = calls
      BY <3>1 DEF ChatMsg
    <3>3. IsWire("chat", x) /\ Gives("chat", x) = {} /\ Answered("chat", x) = {}
      BY <3>1, <3>2 DEF IsWire, Gives, Answered
    <3>4. s = <<x>>
      BY <1>3, <2>1, <3>1
    <3> QED BY <3>3, <3>4, OneWritten
  <2>2. CASE ~setup.system
    BY <1>3, <2>2, NoneWritten
  <2> QED BY <2>1, <2>2
<1>7. PICK h : h = History(talk)
  OBVIOUS
<1>8. /\ IsWritten("chat", h) /\ GivenIn("chat", h) = Keys("chat", Made(talk))
      /\ AnsweredIn("chat", h) \subseteq Refs("chat", Made(talk))
  BY <1>1, <1>7, HistoryIs
<1>9. PICK sh, w : sh = s \o h /\ w = sh \o wrote
  OBVIOUS
<1>10. Together("chat", s, h, sh)
  BY <1>6, <1>8, <1>9, WrittenJoined
<1>11. Together("chat", sh, wrote, w)
  <2>1. IsWritten("chat", sh)
    BY <1>10 DEF Together
  <2>2. IsWritten("chat", wrote)
    BY <1>5 DEF Writing
  <2> QED BY <1>9, <2>1, <2>2, WrittenJoined
<1>12. Refs("chat", Owed(talk, Len(talk) + 1)) \subseteq Refs("chat", Made(talk))
  BY <1>1, OwedMade DEF Refs
<1>13. /\ IsWritten("chat", w) /\ GivenIn("chat", w) = Keys("chat", Made(talk))
       /\ AnsweredIn("chat", w) \subseteq Refs("chat", Made(talk))
  BY <1>5, <1>6, <1>8, <1>10, <1>11, <1>12 DEF Together, Writing
<1>14. GivenIn("chat", w) = Made(talk)
  BY <1>13 DEF Keys, Key
<1>15. \A id \in AnsweredIn("chat", w) : \E c \in Made(talk) : c.id = id
  BY <1>13 DEF Refs, Ref
<1>16. PICK ms : ms = FromChat(w)
  OBVIOUS
<1>17. Traceable(ms, Made(talk), setup.api = "native")
  BY <1>13, <1>14, <1>15, <1>16, ChatTraces
<1>18. Submits(ms, wrote)
  BY <1>4, <1>7, <1>9, <1>16, Zenon
<1> QED BY <1>1, <1>5, <1>17, <1>18, SubmitsNames

LEMMA AskResponsesNames ==
  ASSUME NamingInv, NEW text, NEW output, AskResponses(text, output)
  PROVE  NamingInv'
<1>1. setup.api = "responses" /\ MayAsk(text) /\ IsTalk("responses", talk)
  BY DEF AskResponses, NamingInv
<1>2. PICK wrote : wrote = Writes(text, output)
  OBVIOUS
<1>3. Submits(SystemMsg \o FromResponses(History(talk) \o wrote), wrote)
  BY <1>2 DEF AskResponses
<1>4. Writing("responses", wrote, Owed(talk, Len(talk) + 1)) /\ wrote # <<>>
  <2>1. text # <<>> \/ Pending # <<>>
    BY <1>1 DEF MayAsk
  <2> QED BY <1>1, <1>2, <2>1, ResponsesWrites
<1>5. PICK w : w = History(talk) \o wrote
  OBVIOUS
<1>6. /\ IsWritten("responses", w) /\ GivenIn("responses", w) = Keys("responses", Made(talk))
      /\ AnsweredIn("responses", w) \subseteq Refs("responses", Made(talk))
  BY <1>1, <1>4, <1>5, RequestIs
<1>7. GivenIn("responses", w) = Made(talk)
  BY <1>6 DEF Keys, Key
<1>8. \A id \in AnsweredIn("responses", w) : \E c \in Made(talk) : c.id = id
  BY <1>6 DEF Refs, Ref
<1>9. PICK rs : rs = FromResponses(w)
  OBVIOUS
<1>10. Traceable(rs, Made(talk), setup.api = "native")
  BY <1>6, <1>7, <1>8, <1>9, ResponsesTraces
<1>11. PICK ms : ms = SystemMsg \o rs
  OBVIOUS
<1>12. Traceable(ms, Made(talk), setup.api = "native")
  BY <1>10, <1>11, SystemTraces
<1>13. Submits(ms, wrote)
  BY <1>3, <1>5, <1>9, <1>11, Zenon
<1> QED BY <1>1, <1>4, <1>12, <1>13, SubmitsNames

LEMMA AskGeminiNames ==
  ASSUME NamingInv, setup.api = "native", NEW text, NEW output, AskGemini(text, output)
  PROVE  NamingInv'
<1>1. IsTalk("native", talk)
  BY DEF NamingInv
<1>2. PICK wrote : wrote = Writes(text, output)
  OBVIOUS
<1>3. Submits(SystemMsg \o FromNative(History(talk) \o wrote, asks), wrote)
  BY <1>2 DEF AskGemini
<1>4. Writing("native", wrote, Owed(talk, Len(talk) + 1)) /\ wrote # <<>>
  BY <1>1, <1>2, NativeWrites
<1>5. PICK w : w = History(talk) \o wrote
  OBVIOUS
<1>6. /\ IsWritten("native", w) /\ GivenIn("native", w) = Keys("native", Made(talk))
      /\ AnsweredIn("native", w) \subseteq Refs("native", Made(talk))
  BY <1>1, <1>4, <1>5, RequestIs
<1>7. \A f \in GivenIn("native", w) : \E c \in Made(talk) : f = c.fun
  BY <1>6 DEF Keys, Key
<1>8. \A f \in AnsweredIn("native", w) : \E c \in Made(talk) : f = c.fun
  BY <1>6 DEF Refs, Ref
<1>9. PICK rs : rs = FromNative(w, asks)
  OBVIOUS
<1>10. Traceable(rs, Made(talk), TRUE)
  BY <1>6, <1>7, <1>8, <1>9, NativeTraces
<1>11. PICK ms : ms = SystemMsg \o rs
  OBVIOUS
<1>12. Traceable(ms, Made(talk), TRUE)
  BY <1>10, <1>11, SystemTraces
<1>13. Submits(ms, wrote)
  BY <1>3, <1>5, <1>9, <1>11, Zenon
<1>14. Traceable(ms, Made(talk), setup.api = "native")
  <2>1. (setup.api = "native") = TRUE
    OBVIOUS
  <2> QED BY <1>12, <2>1
<1> QED BY <1>4, <1>13, <1>14, SubmitsNames

-----------------------------------------------------------------------------
(* A reply is played back with its calls.                                   *)

LEMMA IdsAre ==
  ASSUME NEW answer \in Answers, NEW calls, calls = IdsOf(answer)
  PROVE  IsSequence(calls) /\ IsSequence(answer.text)
<1>1. PICK cs : cs = answer.calls /\ cs \in Seq([fun : STRING, args : STRING])
  BY DialogueAssumption
<1>2. PICK n \in Nat : n = Len(cs) /\ DOMAIN cs = 1 .. n
  BY <1>1
<1>3. DOMAIN calls = 1 .. n /\ calls = [i \in 1 .. n |-> calls[i]]
  BY <1>1, <1>2 DEF IdsOf
<1>4. IsSequence(calls)
  BY <1>3, SequenceMade
<1>5. IsSequence(answer.text)
  BY DialogueAssumption, SequenceOf
<1> QED BY <1>4, <1>5

LEMMA ChatPlayed ==
  ASSUME NEW answer, NEW calls, IsSequence(calls), NEW w, w = ChatPlays(answer, calls)
  PROVE  Playing("chat", w, calls)
<1>1. PICK x, content : /\ x = [ChatMsg("assistant", content) EXCEPT
                                  !.thoughts = answer.thought, !.calls = calls]
                        /\ w = <<x>>
  BY DEF ChatPlays
<1>2. x.role = "assistant" /\ x.calls = calls
  BY <1>1 DEF ChatMsg
<1>3. IsWire("chat", x) /\ Gives("chat", x) = Range(calls) /\ Answered("chat", x) = {}
  BY <1>2 DEF IsWire, Gives, Answered
<1>4. /\ IsWritten("chat", w) /\ GivenIn("chat", w) = Gives("chat", x)
      /\ AnsweredIn("chat", w) = Answered("chat", x)
  BY <1>1, <1>3, OneWritten
<1>5. Keys("chat", Range(calls)) = Range(calls)
  BY DEF Keys, Key
<1> QED BY <1>3, <1>4, <1>5 DEF Playing

\* What neither gives nor answers a call.
Silent(w) ==
  IsWritten("responses", w) /\ GivenIn("responses", w) = {} /\ AnsweredIn("responses", w) = {}

LEMMA SilentItem ==
  ASSUME NEW x, (x.type = "message" /\ x.role = "assistant") \/ x.type \in {"reasoning", "image"},
         NEW w, w = <<x>>
  PROVE  Silent(w)
<1>1. /\ IsWire("responses", x) /\ Gives("responses", x) = {} /\ Answered("responses", x) = {}
  BY DEF IsWire, Gives, Answered
<1> QED BY <1>1, OneWritten DEF Silent

LEMMA CallItemsAre ==
  ASSUME NEW calls, IsSequence(calls), NEW w, w = CallItems(calls)
  PROVE  Playing("responses", w, calls)
<1>1. PICK n \in Nat : /\ n = Len(calls) /\ DOMAIN calls = 1 .. n
                       /\ Range(calls) = {calls[i] : i \in 1 .. n}
  BY SequenceIs
<1>2. ASSUME NEW i \in 1 .. n
      PROVE  /\ IsWire("responses", w[i]) /\ Gives("responses", w[i]) = {calls[i]}
             /\ Answered("responses", w[i]) = {}
  <2>1. PICK x, c : x = w[i] /\ c = calls[i]
    OBVIOUS
  <2>2. x.type = "function_call" /\ x.call = c
    BY <1>1, <2>1 DEF CallItems
  <2> QED BY <2>1, <2>2 DEF IsWire, Gives, Answered
<1>3. DOMAIN w = 1 .. n /\ w = [i \in 1 .. n |-> w[i]]
  BY <1>1 DEF CallItems
<1>4. Filled("responses", w, n)
  BY <1>2, <1>3, MadeWritten
<1>5. GivenIn("responses", w) = Range(calls)
  <2>1. GivenIn("responses", w) = UNION {Gives("responses", w[i]) : i \in 1 .. n}
    BY <1>4 DEF Filled
  <2>2. GivenIn("responses", w) = UNION {{calls[i]} : i \in 1 .. n}
    BY <1>2, <2>1
  <2> QED BY <1>1, <2>2
<1>6. IsWritten("responses", w) /\ AnsweredIn("responses", w) = {}
  BY <1>2, <1>4 DEF Filled
<1>7. Keys("responses", Range(calls)) = Range(calls)
  BY DEF Keys, Key
<1> QED BY <1>5, <1>6, <1>7 DEF Playing

LEMMA SilentPlays ==
  ASSUME NEW v, Silent(v), NEW w, NEW calls, Playing("responses", w, calls), NEW u, u = v \o w
  PROVE  Playing("responses", u, calls)
<1>1. Together("responses", v, w, u)
  BY WrittenJoined DEF Silent, Playing
<1> QED BY <1>1 DEF Silent, Playing, Together

LEMMA PlaysSilent ==
  ASSUME NEW v, Silent(v), NEW w, NEW calls, Playing("responses", w, calls), NEW u, u = w \o v
  PROVE  Playing("responses", u, calls)
<1>1. Together("responses", w, v, u)
  BY WrittenJoined DEF Silent, Playing
<1> QED BY <1>1 DEF Silent, Playing, Together

LEMMA NoneSilent == Silent(<<>>)
BY NoneWritten DEF Silent

LEMMA BothSilent ==
  ASSUME NEW v, Silent(v), NEW w, Silent(w), NEW u, u = v \o w
  PROVE  Silent(u)
<1>1. Together("responses", v, w, u)
  BY WrittenJoined DEF Silent
<1> QED BY <1>1 DEF Silent, Together

LEMMA ResponsesPlayed ==
  ASSUME NEW answer, NEW calls, IsSequence(calls), NEW w, w = ResponsesPlays(answer, calls)
  PROVE  Playing("responses", w, calls)
<1>1. PICK parts : parts = NonEmpty(<<answer.text>>)
                             \o (IF answer.image THEN <<<<LineEnd, "link">>>> ELSE <<>>)
  OBVIOUS
<1>2. PICK content : content = List(IF parts = <<>> THEN <<<<>>>> ELSE parts)
  OBVIOUS
<1>3. PICK a : a = IF answer.thought THEN <<[type |-> "reasoning"]>> ELSE <<>>
  OBVIOUS
<1>4. PICK b : b = <<[type |-> "message", role |-> "assistant", content |-> content]>>
  OBVIOUS
<1>5. PICK c : c = CallItems(calls)
  OBVIOUS
<1>6. PICK d : d = IF answer.image THEN <<[type |-> "image", result |-> <<"bytes">>]>> ELSE <<>>
  OBVIOUS
<1>7. w = a \o b \o c \o d
  BY <1>1, <1>2, <1>3, <1>4, <1>5, <1>6, Zenon DEF ResponsesPlays
<1>8. Silent(a)
  <2>1. CASE answer.thought
    <3>1. PICK x : x = [type |-> "reasoning"] /\ a = <<x>>
      BY <1>3, <2>1
    <3>2. x.type = "reasoning"
      BY <3>1
    <3> QED BY <3>1, <3>2, SilentItem
  <2>2. CASE ~answer.thought
    BY <1>3, <2>2, NoneSilent
  <2> QED BY <2>1, <2>2
<1>9. Silent(b)
  <2>1. PICK x : x = [type |-> "message", role |-> "assistant", content |-> content] /\ b = <<x>>
    BY <1>4
  <2>2. x.type = "message" /\ x.role = "assistant"
    BY <2>1
  <2> QED BY <2>1, <2>2, SilentItem
<1>10. Silent(d)
  <2>1. CASE answer.image
    <3>1. PICK x : x = [type |-> "image", result |-> <<"bytes">>] /\ d = <<x>>
      BY <1>6, <2>1
    <3>2. x.type = "image"
      BY <3>1
    <3> QED BY <3>1, <3>2, SilentItem
  <2>2. CASE ~answer.image
    BY <1>6, <2>2, NoneSilent
  <2> QED BY <2>1, <2>2
<1>11. PICK ab : ab = a \o b /\ Silent(ab)
  BY <1>8, <1>9, BothSilent
<1>12. Playing("responses", c, calls)
  BY <1>5, CallItemsAre
<1>13. PICK abc : abc = ab \o c /\ Playing("responses", abc, calls)
  BY <1>11, <1>12, SilentPlays
<1>14. w = abc \o d
  BY <1>7, <1>11, <1>13
<1> QED BY <1>10, <1>13, <1>14, PlaysSilent

LEMMA PlainPlayed ==
  ASSUME NEW answer, NEW calls, IsSequence(calls), NEW w, w = PlainPlays(answer, calls)
  PROVE  Playing("responses", w, calls)
<1>0. PICK m : m = [type |-> "message", role |-> "assistant", content |-> Str(Linked(answer))]
  OBVIOUS
<1>1. PICK a : a = IF Linked(answer) = <<>> THEN <<>> ELSE <<m>>
  OBVIOUS
<1>2. PICK c : c = CallItems(calls)
  OBVIOUS
<1>3. w = a \o c
  BY <1>0, <1>1, <1>2, Zenon DEF PlainPlays
<1>4. Silent(a)
  <2>1. CASE Linked(answer) = <<>>
    BY <1>1, <2>1, NoneSilent
  <2>2. CASE Linked(answer) # <<>>
    <3>1. a = <<m>> /\ m.type = "message" /\ m.role = "assistant"
      BY <1>0, <1>1, <2>2
    <3> QED BY <3>1, SilentItem
  <2> QED BY <2>1, <2>2
<1>5. Playing("responses", c, calls)
  BY <1>2, CallItemsAre
<1> QED BY <1>3, <1>4, <1>5, SilentPlays

\* Parts with neither a call nor a result.
Calm(ps) == IsSequence(ps) /\ Fun(ps, "call") = {} /\ Fun(ps, "result") = {}

LEMMA NoneCalm == Calm(<<>>)
BY EmptySequence DEF Calm, Fun

LEMMA CalmPart ==
  ASSUME NEW p, p.kind \in {"text", "inline"}, NEW ps, ps = <<p>>
  PROVE  Calm(ps)
<1>1. IsSequence(ps) /\ Range(ps) = {p}
  BY OneSequence
<1> QED BY <1>1 DEF Calm, Fun

LEMMA BothCalm ==
  ASSUME NEW s, Calm(s), NEW t, Calm(t), NEW u, u = s \o t
  PROVE  Calm(u)
<1>1. Fused(s, t, u)
  BY PartsJoined DEF Calm
<1> QED BY <1>1 DEF Calm, Fused

LEMMA NativePlayed ==
  ASSUME NEW answer, IsSequence(answer.text), NEW calls, IsSequence(calls),
         NEW w, w = NativePlays(answer, calls)
  PROVE  Playing("native", w, calls)
<1> DEFINE TextPart(text) == [kind |-> "text", text |-> text]
<1>1. PICK a : a = IF answer.thought THEN <<TextPart(<<"thought">>)>> ELSE <<>>
  OBVIOUS
<1>2. PICK b : b = IF setup.plays = "streamed"
                     THEN [i \in DOMAIN answer.text |-> TextPart(<<answer.text[i]>>)]
                     ELSE IF answer.text = <<>> THEN <<>> ELSE <<TextPart(answer.text)>>
  OBVIOUS
<1>3. PICK c : c = IF answer.image THEN <<[kind |-> "inline", text |-> <<"bytes">>]>> ELSE <<>>
  OBVIOUS
<1>4. PICK d : d = [i \in DOMAIN calls |->
                      [kind |-> "call", fun |-> calls[i].fun, args |-> calls[i].args]]
  OBVIOUS
<1>5. PICK parts, x : /\ parts = a \o b \o c \o d /\ x = [role |-> "model", parts |-> parts]
                      /\ w = <<x>>
  BY <1>1, <1>2, <1>3, <1>4, Zenon DEF NativePlays
<1>6. Calm(a)
  <2>1. CASE answer.thought
    <3>1. PICK p : p = TextPart(<<"thought">>) /\ a = <<p>>
      BY <1>1, <2>1
    <3>2. p.kind = "text"
      BY <3>1
    <3> QED BY <3>1, <3>2, CalmPart
  <2>2. CASE ~answer.thought
    BY <1>1, <2>2, NoneCalm
  <2> QED BY <2>1, <2>2
<1>7. Calm(b)
  <2>1. CASE setup.plays = "streamed"
    <3>1. PICK n \in Nat : n = Len(answer.text) /\ DOMAIN answer.text = 1 .. n
      BY SequenceIs
    <3>2. DOMAIN b = 1 .. n /\ b = [i \in 1 .. n |-> b[i]] /\ \A i \in 1 .. n : b[i].kind = "text"
      BY <1>2, <2>1, <3>1
    <3>3. IsSequence(b) /\ Len(b) = n
      BY <3>2, SequenceMade
    <3>4. Range(b) = {b[i] : i \in 1 .. n}
      BY <3>3, SequenceIs
    <3> QED BY <3>2, <3>3, <3>4 DEF Calm, Fun
  <2>2. CASE setup.plays # "streamed" /\ answer.text = <<>>
    BY <1>2, <2>2, NoneCalm
  <2>3. CASE setup.plays # "streamed" /\ answer.text # <<>>
    <3>1. PICK p : p = TextPart(answer.text) /\ b = <<p>>
      BY <1>2, <2>3
    <3>2. p.kind = "text"
      BY <3>1
    <3> QED BY <3>1, <3>2, CalmPart
  <2> QED BY <2>1, <2>2, <2>3
<1>8. Calm(c)
  <2>1. CASE answer.image
    <3>1. PICK p : p = [kind |-> "inline", text |-> <<"bytes">>] /\ c = <<p>>
      BY <1>3, <2>1
    <3>2. p.kind = "inline"
      BY <3>1
    <3> QED BY <3>1, <3>2, CalmPart
  <2>2. CASE ~answer.image
    BY <1>3, <2>2, NoneCalm
  <2> QED BY <2>1, <2>2
<1>9. IsSequence(d) /\ Fun(d, "call") = Keys("native", Range(calls)) /\ Fun(d, "result") = {}
  <2>1. PICK n \in Nat : /\ n = Len(calls) /\ DOMAIN calls = 1 .. n
                         /\ Range(calls) = {calls[i] : i \in 1 .. n}
    BY SequenceIs
  <2>2. /\ DOMAIN d = 1 .. n /\ d = [i \in 1 .. n |-> d[i]]
        /\ \A i \in 1 .. n : d[i].kind = "call" /\ d[i].fun = calls[i].fun
    BY <1>4, <2>1
  <2>3. IsSequence(d) /\ Len(d) = n
    BY <2>2, SequenceMade
  <2>4. Range(d) = {d[i] : i \in 1 .. n}
    BY <2>3, SequenceIs
  <2>5. Fun(d, "result") = {}
    BY <2>2, <2>4 DEF Fun
  <2>6. Fun(d, "call") = {calls[i].fun : i \in 1 .. n}
    <3>1. {q \in Range(d) : q.kind = "call"} = {d[i] : i \in 1 .. n}
      BY <2>2, <2>4
    <3>2. Fun(d, "call") = {p.fun : p \in {d[i] : i \in 1 .. n}}
      BY <3>1 DEF Fun
    <3> QED BY <2>2, <3>2
  <2>7. Keys("native", Range(calls)) = {calls[i].fun : i \in 1 .. n}
    BY <2>1 DEF Keys, Key
  <2> QED BY <2>3, <2>5, <2>6, <2>7
<1>10. PICK ab : ab = a \o b /\ Calm(ab)
  BY <1>6, <1>7, BothCalm
<1>11. PICK abc : abc = ab \o c /\ Calm(abc)
  BY <1>8, <1>10, BothCalm
<1>12. Fused(abc, d, parts)
  <2>1. parts = abc \o d
    BY <1>5, <1>10, <1>11
  <2> QED BY <1>9, <1>11, <2>1, PartsJoined DEF Calm
<1>13. /\ IsSequence(parts) /\ Fun(parts, "call") = Keys("native", Range(calls))
       /\ Fun(parts, "result") = {}
  BY <1>9, <1>11, <1>12 DEF Calm, Fused
<1>14. x.role = "model" /\ x.parts = parts
  BY <1>5
<1>15. /\ IsWire("native", x) /\ Gives("native", x) = Keys("native", Range(calls))
       /\ Answered("native", x) = {}
  BY <1>13, <1>14 DEF IsWire, Gives, Answered
<1>16. /\ IsWritten("native", w) /\ GivenIn("native", w) = Gives("native", x)
       /\ AnsweredIn("native", w) = Answered("native", x)
  BY <1>5, <1>15, OneWritten
<1> QED BY <1>15, <1>16 DEF Playing

-----------------------------------------------------------------------------
(* A dialogue names its results.                                            *)

\* An exchange is added.
LEMMA TalkGrows ==
  ASSUME NEW api, NEW t, IsTalk(api, t), NEW x, IsSequence(x.calls),
         Writing(api, x.wrote, Owed(t, Len(t) + 1)), Playing(api, x.plays, x.calls),
         NEW u, u = Append(t, x)
  PROVE  IsTalk(api, u)
<1>1. PICK n \in Nat : n = Len(t)
  BY SequenceIs DEF IsTalk
<1>2. IsSequence(u) /\ Len(u) = n + 1 /\ u[n + 1] = x /\ \A i \in 1 .. n : u[i] = t[i]
  <2>1. IsSequence(t)
    BY DEF IsTalk
  <2>2. Grown(t, x, u)
    BY <2>1, AppendedSequence
  <2> QED BY <1>1, <2>2 DEF Grown
<1>3. ASSUME NEW e \in 1 .. n + 1
      PROVE  /\ IsSequence(u[e].calls) /\ Writing(api, u[e].wrote, Owed(u, e))
             /\ Playing(api, u[e].plays, u[e].calls)
  <2>1. Owed(u, e) = Owed(t, e)
    <3>1. CASE e = 1
      BY <3>1 DEF Owed
    <3>2. CASE e # 1
      <4>1. u[e - 1] = t[e - 1]
        BY <1>2, <3>2
      <4> QED BY <3>2, <4>1 DEF Owed
    <3> QED BY <3>1, <3>2
  <2>2. CASE e = n + 1
    BY <1>1, <1>2, <2>1, <2>2
  <2>3. CASE e # n + 1
    <3>1. e \in 1 .. n /\ u[e] = t[e]
      BY <1>2, <2>3
    <3> QED BY <1>1, <2>1, <3>1 DEF IsTalk
  <2> QED BY <2>2, <2>3
<1> QED BY <1>2, <1>3 DEF IsTalk

\* The last one is taken back.
LEMMA TalkShrinks ==
  ASSUME NEW api, NEW t, IsTalk(api, t), t # <<>>, NEW u, u = Front(t)
  PROVE  IsTalk(api, u)
<1>1. PICK n \in Nat : n = Len(t)
  BY SequenceIs DEF IsTalk
<1>2. IsSequence(u) /\ Len(u) = n - 1 /\ \A i \in 1 .. n - 1 : u[i] = t[i]
  BY <1>1, LastOfSequence DEF IsTalk
<1>3. ASSUME NEW e \in 1 .. n - 1
      PROVE  /\ IsSequence(u[e].calls) /\ Writing(api, u[e].wrote, Owed(u, e))
             /\ Playing(api, u[e].plays, u[e].calls)
  <2>1. Owed(u, e) = Owed(t, e)
    <3>1. CASE e = 1
      BY <3>1 DEF Owed
    <3>2. CASE e # 1
      <4>1. u[e - 1] = t[e - 1]
        BY <1>2, <3>2
      <4> QED BY <3>2, <4>1 DEF Owed
    <3> QED BY <3>1, <3>2
  <2>2. e \in 1 .. n /\ u[e] = t[e]
    BY <1>2
  <2> QED BY <1>1, <2>1, <2>2 DEF IsTalk
<1> QED BY <1>2, <1>3 DEF IsTalk

\* Nothing is on its way.
LEMMA RestingNames ==
  ASSUME IsTalk(setup.api, talk)', asked' = <<>>, outgoing' = <<>>
  PROVE  NamingInv'
BY NothingResolves DEF NamingInv

LEMMA ReceivesNames ==
  ASSUME NamingInv, NEW answer \in Answers, asked # <<>>, NEW plays, NEW calls,
         calls = IdsOf(answer), Playing(setup.api, plays, calls), Receives(answer, plays)
  PROVE  NamingInv'
<1>1. PICK x : x = [wrote |-> asked, plays |-> plays, calls |-> calls, answer |-> answer]
  OBVIOUS
<1>2. talk' = Append(talk, x) /\ setup' = setup /\ asked' = <<>> /\ outgoing' = <<>>
  BY <1>1 DEF Receives, Rests
<1>3. IsSequence(x.calls)
  BY <1>1, IdsAre
<1>4. Writing(setup.api, x.wrote, Owed(talk, Len(talk) + 1)) /\ Playing(setup.api, x.plays, x.calls)
  BY <1>1 DEF NamingInv
<1>5. IsTalk(setup.api, talk)
  BY DEF NamingInv
<1>6. IsTalk(setup.api, talk')
  BY <1>2, <1>3, <1>4, <1>5, TalkGrows
<1> QED BY <1>2, <1>6, RestingNames

LEMMA ReplyNames ==
  ASSUME NamingInv, NEW answer \in Answers,
         ReplyChat(answer) \/ ReplyResponses(answer) \/ ReplyNative(answer)
  PROVE  NamingInv'
<1>1. PICK calls : calls = IdsOf(answer) /\ IsSequence(calls) /\ IsSequence(answer.text)
  BY IdsAre
<1>2. asked # <<>>
  BY DEF ReplyChat, ReplyResponses, ReplyNative
<1>3. CASE ReplyChat(answer)
  <2>1. PICK plays : plays = ChatPlays(answer, calls)
    OBVIOUS
  <2>2. setup.api = "chat" /\ Receives(answer, plays)
    BY <1>1, <1>3, <2>1 DEF ReplyChat
  <2>3. Playing("chat", plays, calls)
    BY <1>1, <2>1, ChatPlayed
  <2> QED BY <1>1, <1>2, <2>2, <2>3, ReceivesNames
<1>4. CASE ReplyResponses(answer)
  <2>1. PICK plays : plays = IF setup.plays = "plain" THEN PlainPlays(answer, calls)
                                                       ELSE ResponsesPlays(answer, calls)
    OBVIOUS
  <2>2. setup.api = "responses" /\ Receives(answer, plays)
    BY <1>1, <1>4, <2>1 DEF ReplyResponses
  <2>3. Playing("responses", plays, calls)
    BY <1>1, <2>1, PlainPlayed, ResponsesPlayed
  <2> QED BY <1>1, <1>2, <2>2, <2>3, ReceivesNames
<1>5. CASE ReplyNative(answer)
  <2>1. PICK plays : plays = NativePlays(answer, calls)
    OBVIOUS
  <2>2. setup.api = "native" /\ Receives(answer, plays)
    BY <1>1, <1>5, <2>1 DEF ReplyNative
  <2>3. Playing("native", plays, calls)
    BY <1>1, <2>1, NativePlayed
  <2> QED BY <1>1, <1>2, <2>2, <2>3, ReceivesNames
<1> QED BY <1>3, <1>4, <1>5

LEMMA EmptyTalk ==
  ASSUME NEW api
  PROVE  IsTalk(api, <<>>)
BY EmptySequence DEF IsTalk

LEMMA NamingStarts ==
  ASSUME DialogueInit
  PROVE  NamingInv
BY EmptyTalk, NothingResolves DEF DialogueInit, NamingInv

LEMMA NamingStutters ==
  ASSUME NamingInv, UNCHANGED dialogueVars
  PROVE  NamingInv'
<1>1. setup' = setup /\ talk' = talk /\ asked' = asked /\ outgoing' = outgoing
  BY DEF dialogueVars
<1> QED BY <1>1 DEF NamingInv

LEMMA NamingSteps ==
  ASSUME NamingInv, DialogueNext
  PROVE  NamingInv'
<1>1. ASSUME NEW text, NEW output,
             \/ AskChat(text, output) \/ AskResponses(text, output)
             \/ AskNative(text, output) \/ AskNativeStream(text, output)
      PROVE  NamingInv'
  BY <1>1, AskChatNames, AskResponsesNames, AskGeminiNames DEF AskNative, AskNativeStream
<1>2. ASSUME NEW answer \in Answers,
             ReplyChat(answer) \/ ReplyResponses(answer) \/ ReplyNative(answer)
      PROVE  NamingInv'
  BY <1>2, ReplyNames
<1>3. ASSUME NEW answer \in Answers, ReplyUnseen(answer)
      PROVE  NamingInv'
  <2>1. talk' = talk /\ setup' = setup /\ asked' = <<>> /\ outgoing' = <<>>
    BY <1>3 DEF ReplyUnseen, Rests
  <2> QED BY <2>1, RestingNames DEF NamingInv
<1>4. CASE Unanswered
  <2>1. talk' = talk /\ setup' = setup /\ asked' = <<>> /\ outgoing' = <<>>
    BY <1>4 DEF Unanswered, Rests
  <2> QED BY <2>1, RestingNames DEF NamingInv
<1>5. CASE TakesBack
  <2>1. /\ talk # <<>> /\ talk' = Front(talk) /\ setup' = setup /\ asked' = <<>>
        /\ outgoing' = <<>>
    BY <1>5 DEF TakesBack, NamingInv
  <2>2. IsTalk(setup.api, talk)
    BY DEF NamingInv
  <2> QED BY <2>1, <2>2, TalkShrinks, RestingNames
<1>6. CASE NewDialogue
  <2>1. talk' = <<>> /\ asked' = <<>> /\ outgoing' = <<>>
    BY <1>6 DEF NewDialogue, NamingInv
  <2> QED BY <2>1, EmptyTalk, RestingNames
<1> QED BY <1>1, <1>2, <1>3, <1>4, <1>5, <1>6 DEF DialogueNext

\* Whatever the surface, Google is told which function a result comes from, and on the
\* surfaces where the caller names the call, which call: through a history that is
\* converted, joined into turns, prepared and cut after its longest stored prefix, and
\* however exchanges are lost, taken back or followed by other dialogues.
THEOREM DialogueNamesResults == DialogueSpec => []ResultsNamed
<1>1. DialogueInit => NamingInv
  BY NamingStarts
<1>2. NamingInv /\ [DialogueNext]_dialogueVars => NamingInv'
  BY NamingSteps, NamingStutters
<1>3. NamingInv => ResultsNamed
  BY NamingNames
<1> QED BY <1>1, <1>2, <1>3, PTL DEF DialogueSpec

\* Next to the other surfaces as alone.
THEOREM ServedNamesResults == ServingSpec => []ResultsNamed
<1>1. ServingInit => NamingInv
  <2>1. ASSUME DialogueRests PROVE NamingInv
    BY <2>1, EmptyTalk, NothingResolves DEF DialogueRests, NamingInv
  <2> QED BY <2>1, NamingStarts DEF ServingInit
<1>2. [ServingNext]_servingVars => [DialogueNext]_dialogueVars
  BY DEF ServingNext, OnChat, OnResponses, OnNative, InDialogue, OnBody, servingVars
<1>3. NamingInv /\ [ServingNext]_servingVars => NamingInv'
  BY <1>2, NamingSteps, NamingStutters
<1>4. NamingInv => ResultsNamed
  BY NamingNames
<1> QED BY <1>1, <1>3, <1>4, PTL DEF ServingSpec
=============================================================================
