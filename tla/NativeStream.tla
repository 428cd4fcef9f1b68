---------------------------- MODULE NativeStream ----------------------------
(***************************************************************************)
(* A streamed reply on the native Gemini surface.  The text goes through   *)
(* the same filter as on the other surfaces, but the consumer is another:  *)
(* every item of the stream is taken for a chunk, no delta is refused, the *)
(* last chunk's text is what is stored, images come after the text, one by *)
(* one, and the final frame is sent before the turn is stored.             *)
(***************************************************************************)
EXTENDS GoogleStream

CONSTANTS
  Native,       \* replies Google may give on this surface
  NativeImages, \* images that may come with them
  MaxSwaps      \* bound: times a reply is swapped midway

ASSUME NativeAssumption ==
  Native \subseteq Replies /\ NativeImages \subseteq Images /\ MaxSwaps \in Nat

VARIABLE
  native        \* the state of the generator, below

Generators ==
  [structured : BOOLEAN, forced : BOOLEAN,
   pc : {"streaming", "publishing", "framed", "done", "failed", "left"},
   full : Texts,           \* full_text
   filter : Filters,       \* suppressor
   sent : Texts,           \* the text parts, in order
   images : Seq(Images),   \* all_images, those not yet sent
   links : Seq(Images),    \* what storage_output gained
   text : Texts,           \* the text of the last chunk
   had : Texts,            \* how much of it the library has given
   swaps : Nat,
   stored : Texts \cup {Nothing},
   agrees : BOOLEAN,       \* the last chunk's text is what was put together
   broken : BOOLEAN]       \* Google failed or stalled

NativeEnded == {"done", "failed", "left"}

-----------------------------------------------------------------------------
(* Items of the stream. *)

\* full_text grows by the delta, whatever it follows.  Structured output is withheld.
NativeTakes(text, delta) ==
  LET goes == GoesOn(native.had, text)
      next == IF native.structured \/ delta = <<>> THEN [native.filter EXCEPT !.out = <<>>]
                                                    ELSE Process(native.filter, delta)
  IN native' = [native EXCEPT !.text = text, !.full = @ \o delta,
                              !.had = IF goes THEN @ \o delta ELSE text,
                              !.swaps = IF goes THEN @ ELSE @ + 1,
                              !.filter = [next EXCEPT !.out = <<>>], !.sent = @ \o next.out]

NativeChunk ==
  /\ native.pc = "streaming"
  /\ \E text \in Showing(Native) :
       /\ native.swaps < MaxSwaps \/ GoesOn(native.had, text)
       /\ \E delta \in Deltas(native.had, text) : NativeTakes(text, delta)

NativeImage(i) ==
  /\ native.pc = "streaming"
  /\ i \notin {native.images[n] : n \in DOMAIN native.images}
  /\ native' = [native EXCEPT !.images = Append(@, i)]

\* No data yet.  The fields of a chunk are read all the same, which raises, and the
\* error frame ends the stream.
Heartbeat ==
  /\ native.pc = "streaming"
  /\ native' = [native EXCEPT !.pc = "failed"]

\* Slip: only the first chunk is waited for with a timeout.
NativeBreaksAtFirst ==
  /\ native.pc = "streaming" /\ native.text = <<>>
  /\ native' = [native EXCEPT !.pc = "failed", !.broken = TRUE]

\* An error from Google, or no chunk within the idle timeout.
NativeBreaks ==
  /\ native.pc = "streaming"
  /\ native' = [native EXCEPT !.pc = "failed", !.broken = TRUE]

-----------------------------------------------------------------------------
(* The end of the reply. *)

\* Slip: what the filter still holds is not sent.
LastPartUnflushed == <<>>

LastPart == IF native.structured THEN <<>> ELSE Flush(native.filter)

Unmet(text) == native.forced /\ ~HasToolCall(DropWidgets(DropFollowUps(text)))

\* The last chunk's text replaces what was put together, but not what was sent.
\* Structured output is sent now: it is never refused on this surface.
NativeOver ==
  /\ native.pc = "streaming"
  /\ LET whole == IF native.text # <<>> THEN native.text ELSE native.full
         part  == IF native.structured /\ ~Unmet(whole) THEN Visible(whole) ELSE LastPart
     IN native' = [native EXCEPT !.full = whole, !.agrees = native.full = whole,
                                 !.filter = NewFilter, !.sent = @ \o part,
                                 !.pc = IF Unmet(whole) THEN "failed" ELSE "publishing"]

\* Each image is downloaded in turn; one that cannot be had is passed over.
NativePublish ==
  /\ native.pc = "publishing" /\ native.images # <<>>
  /\ \E got \in BOOLEAN :
       native' = [native EXCEPT !.images = Tail(@),
                                !.links = IF got THEN Append(@, Head(native.images)) ELSE @]

FinalFrame ==
  /\ native.pc = "publishing" /\ native.images = <<>>
  /\ native' = [native EXCEPT !.pc = "framed"]

NativeStore ==
  /\ native.pc = "framed"
  /\ native' = [native EXCEPT !.pc = "done", !.stored = Visible(native.full) \o native.links]

\* At any frame, the final one too: the turn is then not stored.
NativeLeaves ==
  /\ native.pc \notin NativeEnded
  /\ native' = [native EXCEPT !.pc = "left"]

-----------------------------------------------------------------------------
NativeStart(structured, forced) ==
  [structured |-> structured, forced |-> forced, pc |-> "streaming",
   full |-> <<>>, filter |-> NewFilter, sent |-> <<>>, images |-> <<>>, links |-> <<>>,
   text |-> <<>>, had |-> <<>>, swaps |-> 0, stored |-> Nothing, agrees |-> FALSE, broken |-> FALSE]

NativeInit == \E structured, forced \in BOOLEAN : native = NativeStart(structured, forced)

NativeNext ==
  \/ NativeChunk \/ Heartbeat \/ NativeBreaks \/ NativeOver
  \/ NativePublish \/ FinalFrame \/ NativeStore \/ NativeLeaves
  \/ \E i \in NativeImages : NativeImage(i)

NativeSpec == NativeInit /\ [][NativeNext]_native

-----------------------------------------------------------------------------
(* Properties. *)

\* When Google goes on from what it showed and its last text is what was put
\* together, the caller has been sent what is stored of the text, however the reply
\* was cut into chunks.
NativeShown ==
  native.stored # Nothing /\ native.agrees /\ native.full \in Native =>
    Fuzzy(native.sent) = Fuzzy(Visible(native.full))

\* Every stream ends: in a final frame and a stored turn, in an error frame, or
\* because the caller left.
NativeEnds == <>(native.pc \in NativeEnded)

\* "None is yielded as a keepalive tick; every consumer must treat it as no data
\* yet": a stream fails only when Google does, or when the reply does not make the
\* call it was forced to make.
HeartbeatIsNoData ==
  native.pc = "failed" => native.broken \/ Unmet(native.full)
=============================================================================
