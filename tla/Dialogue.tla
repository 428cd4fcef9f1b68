------------------------------ MODULE Dialogue ------------------------------
(***************************************************************************)
(* A caller that carries on dialogues, on any of the three surfaces.  The  *)
(* server keeps no session for it: each request brings the whole history,  *)
(* which is converted, prepared and looked up among the stored turns, and  *)
(* only what follows the longest stored prefix is sent to Google.  Whether *)
(* that works rests on a turn hashing alike as it was stored and as its    *)
(* caller plays it back.                                                   *)
(*                                                                         *)
(* turns is the store, which finds what it was given (ConversationMap).    *)
(* Clients, windows and replays are ConversationFlow's.                    *)
(***************************************************************************)
EXTENDS Messages

CONSTANTS
  Asks,      \* what a caller may say
  Outputs,   \* what a tool may return
  Answers,   \* what the model may give: thought, text, calls, image
  Setups,    \* of a dialogue: the surface, how replies are played back, whether
             \* tools are declared and a system prompt is given
  MaxAsks    \* bound: requests

ASSUME DialogueAssumption ==
  /\ MaxAsks \in Nat /\ <<>> \notin Asks
  /\ \A answer \in Answers :
       answer.text \in Seq(STRING) /\ answer.calls \in Seq([fun : STRING, args : STRING])

VARIABLES
  setup,
  talk,      \* the exchanges the caller holds: requests, replies, calls
  asked,     \* the request in flight, or nothing
  prompt,    \* its messages, prepared
  reused,    \* how many of them the chat that is continued holds
  outgoing,  \* what is sent to Google
  turns,     \* the stored conversations
  asks       \* requests made so far

dialogueVars == <<setup, talk, asked, prompt, reused, outgoing, turns, asks>>

-----------------------------------------------------------------------------
(* What the caller writes. *)

ChatMsg(role, content) ==
  [role |-> role, content |-> content, thoughts |-> FALSE, calls |-> <<>>, callId |-> Unset]

Pending == IF talk = <<>> THEN <<>> ELSE Last(talk).calls

\* Results of the calls of the last reply, and a text.
Writes(text, output) ==
  CASE setup.api = "chat" ->
         [i \in DOMAIN Pending |-> [ChatMsg("tool", Str(output)) EXCEPT !.callId = Pending[i].id]]
           \o (IF text = <<>> THEN <<>> ELSE <<ChatMsg("user", Str(text))>>)
    [] setup.api = "responses" ->
         [i \in DOMAIN Pending |->
            [type |-> "function_call_output", callId |-> Pending[i].id, output |-> output]]
           \o (IF text = <<>> THEN <<>>
               ELSE <<[type |-> "message", role |-> "user", content |-> Str(text)]>>)
    [] setup.api = "native" ->
         <<[role |-> "user",
            parts |-> [i \in DOMAIN Pending |->
                         [kind |-> "result", fun |-> Pending[i].fun, text |-> output]]
                        \o (IF text = <<>> THEN <<>> ELSE <<[kind |-> "text", text |-> text]>>)]>>

History(exchanges) ==
  FlattenSeq([i \in DOMAIN exchanges |-> exchanges[i].wrote \o exchanges[i].plays])

-----------------------------------------------------------------------------
(* A request. *)

\* _find_reusable_session: the longest prefix that is stored, or 0.
Longest(ms) ==
  LET found == {n \in 2 .. Len(ms) : /\ ms[n].role \in {"assistant", "system", "tool"}
                                     /\ Matches(turns, SubSeq(ms, 1, n)) # {}}
  IN IF found = {} THEN 0 ELSE CHOOSE n \in found : \A k \in found : k <= n

\* Slip: the last message of the prefix is sent again.
RemainingFrom(ms, n) == SubSeq(ms, n, Len(ms))

Remaining(ms, n) == SubSeq(ms, n + 1, Len(ms))

\* What is common to the surfaces: prepare, look up, prepare what is left.
Submits(ms, wrote) ==
  LET prepared == Prepare(ms, setup.tools, TRUE)
      n == Longest(prepared)
  IN /\ asked' = wrote
     /\ prompt' = prepared
     /\ reused' = n
     /\ outgoing' = IF n = 0 THEN prepared
                    ELSE Prepare(Remaining(prepared, n), setup.tools, FALSE)
     /\ asks' = asks + 1
     /\ UNCHANGED <<setup, talk, turns>>

\* The caller gives every result, and a text if it owes none or cares to.
MayAsk(text) ==
  /\ asked = <<>> /\ asks < MaxAsks
  /\ text # <<>> \/ Pending # <<>>

SystemMsg == IF setup.system THEN <<Msg("system", Str(<<"system">>))>> ELSE <<>>

AskChat(text, output) ==
  /\ setup.api = "chat" /\ MayAsk(text)
  /\ LET system == IF setup.system THEN <<ChatMsg("developer", Str(<<"system">>))>> ELSE <<>>
         wrote  == Writes(text, output)
     IN Submits(FromChat(system \o History(talk) \o wrote), wrote)

AskResponses(text, output) ==
  /\ setup.api = "responses" /\ MayAsk(text)
  /\ LET wrote == Writes(text, output)
     IN Submits(SystemMsg \o FromResponses(History(talk) \o wrote), wrote)

\* The conversion is told apart by the number of requests.
AskGemini(text, output) ==
  LET wrote == Writes(text, output)
  IN Submits(SystemMsg \o FromNative(History(talk) \o wrote, asks), wrote)

AskNative(text, output) ==
  setup.api = "native" /\ setup.plays = "whole" /\ MayAsk(text) /\ AskGemini(text, output)

AskNativeStream(text, output) ==
  setup.api = "native" /\ setup.plays = "streamed" /\ MayAsk(text) /\ AskGemini(text, output)

-----------------------------------------------------------------------------
(* The reply, as it is published and the caller plays it back. *)

Linked(answer) == answer.text \o (IF answer.image THEN <<LineEnd, "link">> ELSE <<>>)

StrOrNone(text) == IF text = <<>> THEN NoContent ELSE Str(text)

ChatPlays(answer, calls) ==
  <<[ChatMsg("assistant", StrOrNone(Linked(answer))) EXCEPT
       !.thoughts = answer.thought, !.calls = calls]>>

CallItems(calls) == [i \in DOMAIN calls |-> [type |-> "function_call", call |-> calls[i]]]

\* The output as it came: a text and an image's link are parts of the message,
\* which has an empty part if there is neither.
ResponsesPlays(answer, calls) ==
  LET parts == NonEmpty(<<answer.text>>) \o (IF answer.image THEN <<<<LineEnd, "link">>>> ELSE <<>>)
  IN (IF answer.thought THEN <<[type |-> "reasoning"]>> ELSE <<>>)
       \o <<[type |-> "message", role |-> "assistant",
             content |-> List(IF parts = <<>> THEN <<<<>>>> ELSE parts)]>>
       \o CallItems(calls)
       \o (IF answer.image THEN <<[type |-> "image", result |-> <<"bytes">>]>> ELSE <<>>)

\* The caller keeps the text, as a string, and the calls.
PlainPlays(answer, calls) ==
  (IF Linked(answer) = <<>> THEN <<>>
   ELSE <<[type |-> "message", role |-> "assistant", content |-> Str(Linked(answer))]>>)
    \o CallItems(calls)

\* Streamed, each piece of text is a part.
NativePlays(answer, calls) ==
  LET Part(text) == [kind |-> "text", text |-> text]
  IN <<[role |-> "model",
        parts |-> (IF answer.thought THEN <<Part(<<"thought">>)>> ELSE <<>>)
                    \o (IF setup.plays = "streamed"
                          THEN [i \in DOMAIN answer.text |-> Part(<<answer.text[i]>>)]
                          ELSE IF answer.text = <<>> THEN <<>> ELSE <<Part(answer.text)>>)
                    \o (IF answer.image THEN <<[kind |-> "inline", text |-> <<"bytes">>]>> ELSE <<>>)
                    \o [i \in DOMAIN calls |->
                          [kind |-> "call", fun |-> calls[i].fun, args |-> calls[i].args]]]>>

-----------------------------------------------------------------------------
(* The turn is stored, and the caller gets it. *)

IdsOf(answer) == [i \in DOMAIN answer.calls |-> Call(<<"model", asks, i>>, answer.calls[i])]

\* _persist_conversation: the prepared messages and the turn, its reasoning left out.
Persists(answer) ==
  turns' = turns \cup
    {Append(prompt, [Msg("assistant", StrOrNone(Linked(answer))) EXCEPT !.calls = IdsOf(answer)])}

Rests ==
  /\ asked' = <<>> /\ prompt' = <<>> /\ reused' = 0 /\ outgoing' = <<>>
  /\ UNCHANGED <<setup, asks>>

Receives(answer, plays) ==
  /\ Persists(answer)
  /\ talk' = Append(talk, [wrote |-> asked, plays |-> plays, calls |-> IdsOf(answer),
                           answer |-> answer])
  /\ Rests

ReplyChat(answer) ==
  setup.api = "chat" /\ asked # <<>> /\ Receives(answer, ChatPlays(answer, IdsOf(answer)))

ReplyResponses(answer) ==
  /\ setup.api = "responses" /\ asked # <<>>
  /\ Receives(answer, IF setup.plays = "plain" THEN PlainPlays(answer, IdsOf(answer))
                                               ELSE ResponsesPlays(answer, IdsOf(answer)))

ReplyNative(answer) ==
  setup.api = "native" /\ asked # <<>> /\ Receives(answer, NativePlays(answer, IdsOf(answer)))

\* The turn is stored, but the connection is lost.
ReplyUnseen(answer) ==
  asked # <<>> /\ Persists(answer) /\ Rests /\ UNCHANGED talk

\* No client, no answer from Google, or one that fails a check.
Unanswered == asked # <<>> /\ Rests /\ UNCHANGED <<talk, turns>>

\* The caller takes the last exchange back, to ask otherwise.
TakesBack ==
  /\ asked = <<>> /\ talk # <<>> /\ asks < MaxAsks
  /\ talk' = Front(talk)
  /\ UNCHANGED <<setup, asked, prompt, reused, outgoing, turns, asks>>

NewDialogue ==
  /\ asked = <<>> /\ talk # <<>> /\ asks < MaxAsks
  /\ talk' = <<>> /\ setup' \in Setups
  /\ UNCHANGED <<asked, prompt, reused, outgoing, turns, asks>>

-----------------------------------------------------------------------------
DialogueInit ==
  /\ setup \in Setups
  /\ talk = <<>> /\ asked = <<>> /\ prompt = <<>> /\ reused = 0 /\ outgoing = <<>>
  /\ turns = {} /\ asks = 0

DialogueNext ==
  \/ \E text \in Asks \cup {<<>>}, output \in Outputs :
       \/ AskChat(text, output) \/ AskResponses(text, output)
       \/ AskNative(text, output) \/ AskNativeStream(text, output)
  \/ \E answer \in Answers :
       \/ ReplyChat(answer) \/ ReplyResponses(answer) \/ ReplyNative(answer) \/ ReplyUnseen(answer)
  \/ Unanswered \/ TakesBack \/ NewDialogue

DialogueSpec == DialogueInit /\ [][DialogueNext]_dialogueVars

-----------------------------------------------------------------------------
(* Properties. *)

\* What is said in messages, in order: words and calls.
Said(ms) ==
  LET Of(m) == [w \in DOMAIN Words(FlattenSeq(m.content.parts)) |->
                  <<Words(FlattenSeq(m.content.parts))[w]>>]
                 \o [c \in DOMAIN m.calls |-> <<m.calls[c].fun, m.calls[c].args>>]
  IN FlattenSeq([i \in DOMAIN ms |->
       IF ms[i].role = "system" THEN <<>> ELSE SelectSeq(Of(ms[i]), LAMBDA w : w # <<"hint">>)])

\* The same of what callers write, by surface.
Written(wire) ==
  LET Each(ws) == [i \in DOMAIN Words(ws) |-> <<Words(ws)[i]>>]
      Called(calls) == [i \in DOMAIN calls |-> <<calls[i].fun, calls[i].args>>]
      OfItem(item) ==
        CASE item.type = "message" -> Each(FlattenSeq(item.content.parts))
          [] item.type = "function_call" -> Called(<<item.call>>)
          [] item.type = "function_call_output" -> Each(item.output)
          [] item.type = "image" -> Each(item.result)
          [] item.type = "reasoning" -> <<>>
      OfContent(content) ==
        LET calls == OfKind(content.parts, {"call"})
            other == OfKind(content.parts, {"text", "result"} \cup (IF calls = <<>> THEN {"inline"} ELSE {}))
        IN Each(FlattenSeq([i \in DOMAIN other |-> other[i].text])) \o Called(calls)
  IN FlattenSeq([i \in DOMAIN wire |->
       CASE setup.api = "chat" -> Each(FlattenSeq(wire[i].content.parts)) \o Called(wire[i].calls)
         [] setup.api = "responses" -> OfItem(wire[i])
         [] setup.api = "native" -> OfContent(wire[i])])

\* Nothing a caller wrote or plays back is lost, said twice or moved on the way to
\* the prompt, whatever the surface merges or splits.  (An image beside a call is
\* dropped on the native surface; reasoning counts there, where it comes back as text.)
NothingDropped == asked # <<>> => Said(prompt) = Written(History(talk) \o asked)

\* What the continued chat has been told and what it is sent now make up the prompt:
\* nothing is left out or told again, whichever stored turn is taken for a match.
ContextWhole ==
  asked # <<>> /\ reused > 0 =>
    \A r \in Matches(turns, SubSeq(prompt, 1, reused)) : Said(r) \o Said(outgoing) = Said(prompt)

\* The replies the surfaces bring back as they were stored: on Responses not a text
\* whose message comes back as parts, nor one beside calls; on the native surface no
\* reasoning or image, and nothing after a tool's result, as calls get new ids.
Carried ==
  LET answer == Last(talk).answer
      plain  == answer.text = <<>> /\ ~answer.image
  IN CASE setup.api = "chat" -> TRUE
       [] setup.api = "responses" -> plain \/ (setup.plays = "plain" /\ answer.calls = <<>>)
       [] setup.api = "native" -> /\ ~answer.thought /\ ~answer.image
                                  /\ \A i \in 1 .. Len(talk) - 1 : talk[i].calls = <<>>

\* A dialogue that goes on finds its last turn, so only what is new is sent: through
\* thoughts, tool calls, retries, turns taken back and other dialogues in between.
EchoFound ==
  asked # <<>> /\ talk # <<>> /\ Carried =>
    Said(Remaining(prompt, reused)) = Written(asked)

\* Google is told which function a result comes from, also when the call itself is
\* in the part of the history that is not sent again.
ResultsNamed ==
  \A i \in DOMAIN outgoing : outgoing[i].role = "tool" =>
    \E e \in DOMAIN talk : \E c \in DOMAIN talk[e].calls :
      /\ outgoing[i].name = talk[e].calls[c].fun
      /\ setup.api = "native" \/ outgoing[i].callId = talk[e].calls[c].id
=============================================================================
