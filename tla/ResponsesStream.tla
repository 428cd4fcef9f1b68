--------------------------- MODULE ResponsesStream ---------------------------
(***************************************************************************)
(* A streamed reply on the Responses surface.  The text takes the way of   *)
(* ChatStream: chunks, the filter, drift, flush, downloads, the store.     *)
(* Around it the caller is shown output items, each added, filled and      *)
(* done: reasoning, one message, images and tool calls.  A response.       *)
(* completed event lists the output once more.                             *)
(*                                                                         *)
(* An item's place in the sequence is its output_index.  Its events are    *)
(* counted in pieces of text; the text of the message is in sent.          *)
(***************************************************************************)
EXTENDS ChatStream

CONSTANTS
  Spoken,       \* replies Google may give on this surface
  Drawn,        \* images that may come with them
  Orders,       \* what callers ask for: a request and its tool_choice
  MaxThoughts   \* pieces of reasoning that may come

VARIABLES
  choice,       \* tool_choice, and whether an image tool is declared
  items,        \* the output items, by output_index
  thoughts,     \* full_thoughts
  thoughtOpen,  \* thought_open
  messageOpen   \* message_open

itemVars == <<items, thoughts, thoughtOpen, messageOpen>>
responsesVars == <<vars, choice, itemVars>>

Kinds == {"reasoning", "message", "image", "call"}
Item  == [kind : Kinds, open : BOOLEAN, told : Nat]

-----------------------------------------------------------------------------
(* Forced tools. *)

ToolChoices == [forced : {"no", "required", "function", "image"}, imageTool : BOOLEAN]

\* A forced choice names something that was declared.
DeclarationError(c, functions) ==
  \/ c.forced = "required" /\ ~functions /\ ~c.imageTool
  \/ c.forced = "function" /\ ~functions
  \/ c.forced = "image" /\ ~c.imageTool

Admitted == {c \in ToolChoices : \E functions \in BOOLEAN : ~DeclarationError(c, functions)}

ASSUME ResponsesAssumption ==
  /\ Spoken \subseteq Replies /\ Drawn \subseteq Images /\ MaxThoughts \in Nat
  /\ Orders \subseteq {r \in Requests : ~r.forced} \X Admitted

\* An image stands in for a required call only where an image tool is declared.
ChoiceFailure(calls, images) ==
  \/ choice.forced = "required" /\ ~calls /\ ~(images /\ choice.imageTool)
  \/ choice.forced = "function" /\ ~calls
  \/ choice.forced = "image" /\ ~images

-----------------------------------------------------------------------------
(* Output items. *)

\* The item events of this kind go to, the last one added.
At(s, kind) == Latest({i \in DOMAIN s : s[i].kind = kind})

Added(s, kind) == Append(s, [kind |-> kind, open |-> TRUE, told |-> 0])
Told(s, kind, n) == [s EXCEPT ![At(s, kind)].told = @ + n]
Finished(s, kind) == [s EXCEPT ![At(s, kind)].open = FALSE]

\* Items that are announced and done at once.
Whole(s, kind) == Finished(Added(s, kind), kind)

WithThought(s) == IF thoughtOpen THEN s ELSE Added(s, "reasoning")
WithMessage(s) == IF messageOpen THEN s ELSE Added(s, "message")
ThoughtDone(s) == IF thoughtOpen THEN Finished(s, "reasoning") ELSE s

-----------------------------------------------------------------------------
(* Chunks.  One with thoughts and text is two steps, in this order. *)

ThoughtChunk ==
  /\ pc = "streaming"
  /\ thoughts < MaxThoughts
  /\ items' = Told(WithThought(items), "reasoning", 1)
  /\ thoughts' = thoughts + 1
  /\ thoughtOpen' = TRUE
  /\ UNCHANGED <<vars, choice, messageOpen>>

\* Slip: the reasoning is closed and still taken to be open.
TextItemsUnreset ==
  LET closed == ThoughtDone(items) IN
  /\ items' = IF request.structured THEN closed
              ELSE Told(WithMessage(closed), "message", Len(sent') - Len(sent))
  /\ messageOpen' = (messageOpen \/ ~request.structured)
  /\ UNCHANGED thoughtOpen

\* Text ends the reasoning and, unless it is withheld for validation, opens the message.
TextItems ==
  LET closed == ThoughtDone(items) IN
  /\ items' = IF request.structured THEN closed
              ELSE Told(WithMessage(closed), "message", Len(sent') - Len(sent))
  /\ messageOpen' = (messageOpen \/ ~request.structured)
  /\ thoughtOpen' = FALSE

ResponseText ==
  /\ pc = "streaming"
  /\ \E delta \in Arriving(Spoken) \ {<<>>} : Takes(delta) /\ TextItems
  /\ UNCHANGED <<request, pc, media, stored, choice, thoughts>>

-----------------------------------------------------------------------------
(* The end of the reply. *)

\* Slip: all the reasoning is told again.
LastThoughtsWhole(more) ==
  IF more = 0 THEN items ELSE Told(WithThought(items), "reasoning", thoughts + more)

\* The rest of the reasoning, in a new item if the last one is closed.
LastThoughts(more) ==
  IF more = 0 THEN items ELSE Told(WithThought(items), "reasoning", more)

\* Then what the filter still held, if there is a message; the reasoning is closed.
ItemsAtEnd(more, opened, tail) ==
  LET thought == LastThoughts(more)
      spoken  == IF opened THEN Told(WithMessage(thought), "message", Len(tail)) ELSE thought
  IN IF thoughtOpen \/ more > 0 THEN Finished(spoken, "reasoning") ELSE spoken

\* The whole text is checked.  A validated document is sent at once.
ResponseChecked(text, opened, tail, closed, valid) ==
  LET document == IF request.structured THEN LStrip(Visible(text)) ELSE <<>>
  IN IF StructuredFailure(text, valid, HasToolCall(DropWidgets(DropFollowUps(text))))
       THEN Fail /\ sent' = sent \o tail /\ items' = closed /\ messageOpen' = opened
       ELSE /\ pc' = "publishing"
            /\ sent' = sent \o tail \o document
            /\ items' = IF document # <<>>
                          THEN Told(WithMessage(closed), "message", Len(document))
                          ELSE closed
            /\ messageOpen' = (opened \/ document # <<>>)
            /\ UNCHANGED <<request, media, stored>>

\* The last chunk's thoughts and text may go on from what was sent; last is the
\* filter when they have gone through it.
ResponseCloses(text, last, more, valid) ==
  LET visible == IF request.structured THEN <<>> ELSE last.out
      opened  == messageOpen \/ visible # <<>>
      tail    == visible \o (IF opened THEN Flush(last) ELSE <<>>)
  IN /\ full' = text
     /\ filter' = NewFilter
     /\ thoughts' = thoughts + more
     /\ thoughtOpen' = (thoughtOpen \/ more > 0)
     /\ ResponseChecked(text, opened, tail, ItemsAtEnd(more, opened, tail), valid)

ResponseOver ==
  /\ pc = "streaming"
  /\ \E more \in 0 .. MaxThoughts - thoughts, valid \in BOOLEAN,
        rest \in {Drift(final) : final \in Showing(Spoken)} :
       ResponseCloses(full \o rest, Filtered(rest), more, valid)
  /\ UNCHANGED choice

-----------------------------------------------------------------------------
(* Images, the checks of the whole turn, the store and the terminator. *)

\* An item of its own, and a link in the message, which may open only now.
ResponsePublish(i) ==
  /\ Publish(i)
  /\ items' = Told(WithMessage(Whole(items, "image")), "message", Len(Link(i)))
  /\ messageOpen' = TRUE
  /\ UNCHANGED <<choice, thoughts, thoughtOpen>>

TurnCalls  == HasToolCall(DropWidgets(DropFollowUps(full)))
Published == {i \in Images : media[i] = "published"}

\* Slip: an image is taken for the call that was required.
ForcedUnmetLax == ChoiceFailure(TurnCalls \/ Published # {}, Published # {})

ForcedUnmet == ChoiceFailure(TurnCalls, Published # {})

\* The error leaves the message item open and is not followed by [DONE].
ResponseRefused ==
  /\ pc = "publishing"
  /\ \A i \in Images : media[i] \notin {"running", "ready"}
  /\ ForcedUnmet
  /\ pc' = "failed"
  /\ UNCHANGED <<request, full, filter, sent, media, stored, choice, itemVars>>

\* Slip: a message that only holds images is not closed.
EndItemsByText ==
  LET closed == IF messageOpen /\ LStrip(Visible(full)) # <<>> THEN Finished(items, "message") ELSE items
  IN IF TurnCalls THEN Whole(closed, "call") ELSE closed

\* The message is done, the tool calls are announced.
EndItems ==
  LET closed == IF messageOpen THEN Finished(items, "message") ELSE items
  IN IF TurnCalls THEN Whole(closed, "call") ELSE closed

ResponseStore ==
  /\ ~ForcedUnmet
  /\ Store
  /\ items' = EndItems
  /\ UNCHANGED <<choice, thoughts, thoughtOpen, messageOpen>>

\* Slip: the message is listed only if the model gave text.
OutputByText ==
  (IF thoughts > 0 THEN {"reasoning"} ELSE {})
    \cup (IF LStrip(Visible(full)) # <<>> THEN {"message"} ELSE {})
    \cup (IF TurnCalls THEN {"call"} ELSE {}) \cup (IF Published # {} THEN {"image"} ELSE {})

\* What response.completed lists, built anew from the parts of the turn.
Output ==
  (IF thoughts > 0 THEN {"reasoning"} ELSE {})
    \cup (IF messageOpen \/ (~TurnCalls /\ Published = {}) THEN {"message"} ELSE {})
    \cup (IF TurnCalls THEN {"call"} ELSE {}) \cup (IF Published # {} THEN {"image"} ELSE {})

-----------------------------------------------------------------------------
ResponsesInit ==
  /\ \E order \in Orders : request = order[1] /\ choice = order[2]
  /\ pc = "streaming"
  /\ full = <<>> /\ filter = NewFilter /\ sent = <<>>
  /\ media = [i \in Images |-> "unseen"]
  /\ stored = Nothing
  /\ items = <<>> /\ thoughts = 0
  /\ thoughtOpen = FALSE /\ messageOpen = FALSE

ResponsesNext ==
  \/ ThoughtChunk \/ ResponseText \/ ResponseOver \/ ResponseRefused \/ ResponseStore
  \/ \E i \in Drawn : ResponsePublish(i)
  \/ /\ Breaks \/ Done \/ CallerLeaves \/ \E i \in Drawn : ImageChunk(i) \/ DownloadEnds(i)
     /\ UNCHANGED <<choice, itemVars>>

ResponsesSpec == ResponsesInit /\ [][ResponsesNext]_responsesVars

-----------------------------------------------------------------------------
(* Properties. *)

\* A reply of which a first chunk shows nothing says nothing: a message is opened by
\* the first text and only then flushed.
RepliesOpen == \A r \in Replies : Process(NewFilter, r).out = <<>> => Fuzzy(Visible(r)) = <<>>

\* When the response is completed, every item that was added is done, through
\* interleaved reasoning and text, late images and withheld documents.
ItemsClosed == pc \in {"stored", "done"} => \A i \in DOMAIN items : ~items[i].open

\* No event reaches an item after it is done, and no output_index is given twice.
DoneIsFinal ==
  [][\A i \in DOMAIN items :
       /\ i \in DOMAIN items' /\ items'[i].kind = items[i].kind
       /\ ~items[i].open => items'[i] = items[i]]_responsesVars

\* What the items of a kind are told, all together.
ToldOf(s, kind) ==
  LET Sum[n \in 0 .. Len(s)] ==
        IF n = 0 THEN 0 ELSE Sum[n - 1] + (IF s[n].kind = kind THEN s[n].told ELSE 0)
  IN Sum[Len(s)]

\* Every piece of reasoning and of text is told in an item of its kind, once.
AllTold == ToldOf(items, "reasoning") = thoughts /\ ToldOf(items, "message") = Len(sent)

\* What response.completed lists was streamed and what was streamed is listed, but
\* for the empty message a reply without any output is given.
OutputAsStreamed ==
  pc = "done" =>
    LET streamed == {items[i].kind : i \in DOMAIN items}
    IN Output = streamed \/ (Output = streamed \cup {"message"} /\ sent = <<>>)

\* A turn that is completed made the call, or the image, it was forced to make.
ChoiceHonoured ==
  pc = "done" =>
    /\ choice.forced = "function" => TurnCalls
    /\ choice.forced = "image" => Published # {}
    /\ choice.forced = "required" => TurnCalls \/ (Published # {} /\ choice.imageTool)
=============================================================================
