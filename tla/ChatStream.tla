----------------------------- MODULE ChatStream -----------------------------
(***************************************************************************)
(* One streamed chat completion: chunks of a reply from Google become      *)
(* deltas for the caller (through OutputFilter), images are downloaded     *)
(* beside, the whole reply is checked at the end, its images are           *)
(* published, the turn is stored and the stream terminated.  Google may    *)
(* stall, fail or swap the reply for another; the caller may leave at any  *)
(* delta.                                                                  *)
(***************************************************************************)
EXTENDS GoogleStream

CONSTANT
  Hidden      \* words the replies hold inside protocol blocks only

VARIABLES
  request,    \* what the caller asked for: structured output, a forced tool
  pc,
  full,       \* full_text
  filter,     \* the suppressor
  sent,       \* the content deltas, in order
  media,      \* the state of each image's download task
  stored      \* the assistant turn in the store, and the full text it came from

vars == <<request, pc, full, filter, sent, media, stored>>

Requests == [structured : BOOLEAN, strict : BOOLEAN, forced : BOOLEAN]

Running == {i \in Images : media[i] = "running"}
Ended   == {"done", "failed", "left"}

Link(i) == <<"\n", "\n", i>>

-----------------------------------------------------------------------------
(* Chunks. *)

\* Slip: the lengths are compared, not the texts.
ContinuesByLength(text) == Len(text) >= Len(full)

\* _delta_continues: the text starts with four fifths of what was sent.
Continues(text) ==
  LET shared == {n \in 0 .. Len(full) : n <= Len(text) /\ Upto(text, n) = Upto(full, n)}
  IN 5 * Latest(shared) >= 4 * Len(full)

\* The deltas that are taken.  That of a text spliced onto another is dropped.
Arriving(replies) ==
  UNION {Deltas(full, text) : text \in {t \in Showing(replies) : Continues(t)}}

\* full_text grows by the delta, and so does what is sent unless the output is to
\* be validated first.
Takes(delta) ==
  /\ full' = full \o delta
  /\ IF request.structured THEN UNCHANGED <<filter, sent>>
     ELSE LET next == Process(filter, delta)
          IN filter' = [next EXCEPT !.out = <<>>] /\ sent' = sent \o next.out

TextChunk ==
  /\ pc = "streaming"
  /\ \E delta \in Arriving(Replies) : Takes(delta)
  /\ UNCHANGED <<request, pc, media, stored>>

\* The download of a new image starts at once.
ImageChunk(i) ==
  /\ pc = "streaming"
  /\ media[i] = "unseen"
  /\ media' = [media EXCEPT ![i] = "running"]
  /\ UNCHANGED <<request, pc, full, filter, sent, stored>>

\* Slip: the tasks are left behind.
FailAbandons ==
  /\ pc' = "failed"
  /\ UNCHANGED <<request, media, stored>>

\* An error frame and the terminator, after the downloads are cancelled and reaped.
Fail ==
  /\ pc' = "failed"
  /\ media' = [i \in Images |-> IF media[i] = "running" THEN "cancelled" ELSE media[i]]
  /\ UNCHANGED <<request, stored>>

\* Slip: only the first chunk is waited for with a timeout.
BreaksAtFirst == pc = "streaming" /\ full = <<>> /\ Fail /\ UNCHANGED <<full, filter, sent>>

\* An error from Google, or no chunk within the idle timeout.
Breaks == pc = "streaming" /\ Fail /\ UNCHANGED <<full, filter, sent>>

-----------------------------------------------------------------------------
(* The end of the reply. *)

\* The rest of the final text, if it goes on from what was accumulated.
Drift(final) ==
  IF GoesOn(full, final) THEN From(final, Len(full) + 1) ELSE <<>>

\* Strict output must fit its schema, unless it is empty or the turn asks for a tool.
\* (The canonical form that replaces a valid one is sent and stored alike.)
StructuredFailure(text, valid, calls) ==
  /\ request.structured /\ request.strict
  /\ LStrip(Visible(text)) # <<>> /\ ~valid /\ ~calls

ToolChoiceFailure(calls) == request.forced /\ ~calls

\* The filter when the rest has gone through it.
Filtered(rest) == IF rest = <<>> THEN [filter EXCEPT !.out = <<>>] ELSE Process(filter, rest)

\* Drift and flush, then the checks, which may end the stream in an error.
Closes(rest, valid) ==
  LET text == full \o rest
      last == Filtered(rest)
      shown == IF request.structured THEN sent ELSE sent \o last.out \o Flush(last)
      calls == HasToolCall(DropWidgets(DropFollowUps(text)))
      ok    == ~StructuredFailure(text, valid, calls) /\ ~ToolChoiceFailure(calls)
  IN /\ full' = text
     /\ filter' = NewFilter
     /\ IF ok
          THEN /\ pc' = "publishing"
               /\ sent' = IF request.structured THEN shown \o Visible(text) ELSE shown
               /\ UNCHANGED <<request, media, stored>>
          ELSE Fail /\ sent' = shown

\* Google's last text is whole, or breaks off.
StreamOver ==
  /\ pc = "streaming"
  /\ \E rest \in {Drift(final) : final \in Showing(Replies)}, valid \in BOOLEAN :
       Closes(rest, valid)

-----------------------------------------------------------------------------
(* Images, the store and the terminator. *)

DownloadEnds(i) ==
  /\ media[i] = "running"
  /\ media' = [media EXCEPT ![i] = "ready"] \/ media' = [media EXCEPT ![i] = "lost"]
  /\ UNCHANGED <<request, pc, full, filter, sent, stored>>

Publish(i) ==
  /\ pc = "publishing"
  /\ media[i] = "ready"
  /\ media' = [media EXCEPT ![i] = "published"]
  /\ sent' = sent \o Link(i)
  /\ UNCHANGED <<request, pc, full, filter, stored>>

\* Slip: the links are sent and not kept.
LinksForgotten == <<>>

\* The links are appended to the output in the order they were published.
Links == DropPieces(Pieces \ Images, sent)

Store ==
  /\ pc = "publishing"
  /\ \A i \in Images : media[i] \notin {"running", "ready"}
  /\ stored' = [text |-> full, output |-> Visible(full) \o Links]
  /\ pc' = "stored"
  /\ UNCHANGED <<request, full, filter, sent, media>>

Done ==
  /\ pc = "stored"
  /\ pc' = "done"
  /\ UNCHANGED <<request, full, filter, sent, media, stored>>

\* The caller goes; the generator is closed and its tasks reaped.
CallerLeaves ==
  /\ pc \notin Ended
  /\ pc' = "left"
  /\ media' = [i \in Images |-> IF media[i] = "running" THEN "cancelled" ELSE media[i]]
  /\ UNCHANGED <<request, full, filter, sent, stored>>

-----------------------------------------------------------------------------
Init ==
  /\ request \in Requests
  /\ pc = "streaming"
  /\ full = <<>> /\ filter = NewFilter /\ sent = <<>>
  /\ media = [i \in Images |-> "unseen"]
  /\ stored = Nothing

Next ==
  \/ TextChunk \/ Breaks \/ StreamOver \/ Store \/ Done \/ CallerLeaves
  \/ \E i \in Images : ImageChunk(i) \/ DownloadEnds(i) \/ Publish(i)

Spec == Init /\ [][Next]_vars

\* The idle timeout fires, downloads end (their HTTP requests time out), and the
\* generator runs on; Google owes nothing.
FairSpec ==
  /\ Spec
  /\ WF_vars(Breaks) /\ WF_vars(Store) /\ WF_vars(Done)
  /\ \A i \in Images : WF_vars(DownloadEnds(i)) /\ WF_vars(Publish(i))

-----------------------------------------------------------------------------
(* Properties. *)

\* The caller sends the turn back as it received it: what was stored of a whole
\* reply hashes to the same fuzzy row, however the reply was cut into chunks, so
\* the next request finds the conversation.
FoundAgain ==
  stored # Nothing /\ stored.text \in Replies => Fuzzy(sent) = Fuzzy(stored.output)

\* Links are neither blank lines nor words of a marker.
LinksApart ==
  "\n" \notin Images /\ \A m \in Starts \cup Exits : Where(Images \cup {"\n"}, m) = {}

\* A reply that may be cut anywhere and that hashes, streamed in one chunk, like what
\* is stored of it.  Neither holds a marker or a link.
ReadsAlike(r) ==
  /\ Divisible(r)
  /\ \A s \in {Streamed(r), Visible(r)} : NoMarker(s) /\ Where(Images, s) = {}
  /\ Fuzzy(Streamed(r)) = Fuzzy(Visible(r))

RepliesReadAlike == \A r \in Replies : ReadsAlike(r)

\* No word from inside a tool call, a tool's tag or a widget is ever streamed, at
\* any cut, nor when the reply breaks off inside one.  (A FollowUp tag that never
\* closes is handed over by intent; structured output is not streamed.)
NothingHiddenSent ==
  ~request.structured => \A i \in DOMAIN sent : sent[i] \notin Hidden

\* In one chunk, no reply shows such a word, wherever it breaks off.
RepliesHide ==
  /\ Hidden \cap (Images \cup {"\n"}) = {}
  /\ \A r \in Replies :
       Divisible(r) /\ \A n \in 0 .. Len(r) : Where(Hidden, Streamed(Upto(r, n))) = {}

\* No two replies begin with the same four pieces, let alone the first: the comment at
\* _delta_continues says that a replacement "differs from the first character".
RepliesApart ==
  \A r, t \in Replies : r # t =>
    \A n \in 0 .. Len(r) : n <= Len(t) /\ Upto(r, n) = Upto(t, n) => n < 4

\* A reply that Google swaps midway is not spliced onto the first one.
NoSplice == full = <<>> \/ \E r \in Replies : full \in Shown(r)

\* No download outlives its stream, however the stream ends.
Reaped == pc \in Ended => Running = {}

\* Every stream ends: in a terminator, or because the caller left.
Ends == <>(pc \in Ended)
=============================================================================
