------------------------------ MODULE Messages ------------------------------
(***************************************************************************)
(* Conversations as the server holds them, the three formats callers write *)
(* them in, and the hashes by which a stored conversation is found again.  *)
(*                                                                         *)
(* A text is a sequence of words and line ends.  What a message is cleared *)
(* of before it is hashed (protocol blocks, entities) is OutputFilter's.   *)
(***************************************************************************)
EXTENDS Integers, Sequences, FiniteSets, SequencesExt

CONSTANT Unset

LineEnd == "\n"
Words(t) == SelectSeq(t, LAMBDA w : w # LineEnd)

Joined(ts) == FoldLeft(LAMBDA t, u : IF t = <<>> THEN u ELSE t \o <<LineEnd>> \o u, <<>>, ts)

-----------------------------------------------------------------------------
(* AppMessage: content is nothing, a string or a list of parts.             *)

NoContent == [form |-> "none", parts |-> <<>>]
Str(t)    == [form |-> "string", parts |-> <<t>>]
List(ts)  == IF ts = <<>> THEN NoContent ELSE [form |-> "list", parts |-> ts]

Msg(role, content) ==
  [role |-> role, content |-> content, thoughts |-> FALSE, calls |-> <<>>,
   callId |-> Unset, name |-> Unset]

\* A prepared assistant turn keeps the calls, the ids the model's calls were given.
Call(id, c) == [id |-> id, fun |-> c.fun, args |-> c.args]

-----------------------------------------------------------------------------
(* _hash_message. *)

Strip(t) ==
  LET kept == {i \in DOMAIN t : t[i] # LineEnd}
  IN IF kept = {} THEN <<>>
     ELSE SubSeq(t, CHOOSE i \in kept : \A j \in kept : i <= j,
                    CHOOSE i \in kept : \A j \in kept : j <= i)

NormalizeText(t, fuzzy) == IF fuzzy THEN Words(t) ELSE Strip(t)

HashContent(c, fuzzy) ==
  CASE c.form = "none" -> NoContent
    [] c.form = "string" -> LET text == NormalizeText(c.parts[1], fuzzy)
                            IN IF text = <<>> /\ ~fuzzy THEN NoContent ELSE Str(text)
    [] c.form = "list" -> [c EXCEPT !.parts = [i \in DOMAIN @ |-> NormalizeText(@[i], fuzzy)]]

\* The calls, sorted: their ids do not count.
HashCalls(calls) ==
  [c \in {<<calls[i].fun, calls[i].args>> : i \in DOMAIN calls} |->
     Cardinality({i \in DOMAIN calls : <<calls[i].fun, calls[i].args>> = c})]

\* Slip: the reasoning counts.
HashWithThoughts(m, fuzzy) ==
  <<m.role, m.name, m.callId, HashContent(m.content, fuzzy), HashCalls(m.calls), m.thoughts>>

Hash(m, fuzzy) ==
  <<m.role, m.name, m.callId, HashContent(m.content, fuzzy), HashCalls(m.calls)>>

Alike(r, s, fuzzy) ==
  Len(r) = Len(s) /\ \A i \in DOMAIN r : Hash(r[i], fuzzy) = Hash(s[i], fuzzy)

\* What find may return: an exact match, else a fuzzy one.
Matches(store, history) ==
  LET exact == {r \in store : Alike(r, history, FALSE)}
  IN IF exact # {} THEN exact ELSE {r \in store : Alike(r, history, TRUE)}

-----------------------------------------------------------------------------
(* Chat Completions: convert_to_app_messages. *)

NormalizeRole(role) ==
  CASE role = "developer" -> "system"
    [] role = "function" -> "tool"
    [] role \in {"user", "assistant", "tool", "system"} -> role
    [] OTHER -> "system"

FromChat(wire) ==
  [i \in DOMAIN wire |->
     [Msg(NormalizeRole(wire[i].role), wire[i].content) EXCEPT
        !.thoughts = wire[i].thoughts, !.calls = wire[i].calls, !.callId = wire[i].callId]]

-----------------------------------------------------------------------------
(* Responses: _convert_responses_to_app_messages. *)

NonEmpty(ts) == SelectSeq(ts, LAMBDA t : t # <<>>)

\* An image is the text of its bytes; a summary of reasoning is not content.
FromItem(item) ==
  CASE item.type = "message" ->
         Msg(NormalizeRole(item.role),
             IF item.content.form = "list" THEN List(NonEmpty(item.content.parts)) ELSE item.content)
    [] item.type = "function_call" -> [Msg("assistant", NoContent) EXCEPT !.calls = <<item.call>>]
    [] item.type = "function_call_output" ->
         [Msg("tool", Str(item.output)) EXCEPT !.callId = item.callId]
    [] item.type = "reasoning" -> Msg("assistant", NoContent)
    [] item.type = "image" -> Msg("assistant", Str(item.result))

Merge(m, n) ==
  [m EXCEPT !.content = List(m.content.parts \o n.content.parts),
            !.calls = @ \o n.calls, !.thoughts = @ \/ n.thoughts]

\* Slip: of two turns of the assistant in a row the later one stands.
CompactReplaces(ms) ==
  FoldLeft(LAMBDA done, m :
             IF done # <<>> /\ Last(done).role = "assistant" /\ m.role = "assistant"
               THEN Front(done) \o <<m>> ELSE Append(done, m),
           <<>>, ms)

\* Items of the assistant in a row are one turn.
TurnsWith(done, m) ==
  IF done # <<>> /\ Last(done).role = "assistant" /\ m.role = "assistant"
    THEN Front(done) \o <<Merge(Last(done), m)>> ELSE Append(done, m)

Compact(ms) ==
  LET Done[i \in 0 .. Len(ms)] == IF i = 0 THEN <<>> ELSE TurnsWith(Done[i - 1], ms[i])
  IN Done[Len(ms)]

FromResponses(items) == Compact([i \in DOMAIN items |-> FromItem(items[i])])

-----------------------------------------------------------------------------
(* Native: _gemini_contents_to_messages. *)

OfKind(parts, kinds) ==
  FlattenSeq([i \in DOMAIN parts |-> IF parts[i].kind \in kinds THEN <<parts[i]>> ELSE <<>>])
TextsOf(parts) == LET ps == OfKind(parts, {"text"}) IN [i \in DOMAIN ps |-> ps[i].text]

InternalRole(role) ==
  CASE role = "model" -> "assistant" [] role = "function" -> "tool" [] OTHER -> role

\* One content: ids are those of the last call of each function so far, id is fresh.
FromContent(ids, content, id) ==
  LET parts   == content.parts
      role    == InternalRole(content.role)
      texts   == TextsOf(parts)
      items   == OfKind(parts, {"text", "inline"})
      made    == OfKind(parts, {"call"})
      results == OfKind(parts, {"result"})
      Result(i) == LET fun == results[i].fun IN
        [Msg("tool", Str(results[i].text)) EXCEPT
           !.name = fun, !.callId = IF fun \in DOMAIN ids THEN ids[fun] ELSE <<id, i>>]
  IN CASE results # <<>> ->
            [i \in DOMAIN results |-> Result(i)]
              \o (IF texts # <<>> /\ role # "tool" THEN <<Msg(role, Str(Joined(texts)))>> ELSE <<>>)
       [] results = <<>> /\ made # <<>> ->
            <<[Msg("assistant", IF texts = <<>> THEN NoContent ELSE Str(Joined(texts))) EXCEPT
                 !.calls = [i \in DOMAIN made |-> Call(<<id, i>>, made[i])]]>>
       [] results = <<>> /\ made = <<>> /\ Len(items) > Len(texts) ->
            <<Msg(role, List([i \in DOMAIN items |-> items[i].text]))>>
       [] OTHER -> <<Msg(role, Str(Joined(texts)))>>

\* The last call of each function, so far and in the content that is told apart by id.
LastCalls(ids, made, id) ==
  [f \in DOMAIN ids \cup {made[i].fun : i \in DOMAIN made} |->
     LET new == {i \in DOMAIN made : made[i].fun = f}
     IN IF new = {} THEN ids[f] ELSE <<id, CHOOSE i \in new : \A j \in new : j <= i>>]

ContentsWith(done, content, k) ==
  LET id  == <<k, Len(done.out) + 1>>
      ids == LastCalls(done.ids, OfKind(content.parts, {"call"}), id)
  IN [ids |-> ids, out |-> done.out \o FromContent(ids, content, id)]

\* The calls get new ids each time a history is converted; k tells the conversions
\* apart.
FromNative(contents, k) ==
  LET Done[i \in 0 .. Len(contents)] ==
        IF i = 0 THEN [ids |-> <<>>, out |-> <<>>] ELSE ContentsWith(Done[i - 1], contents[i], k)
  IN Done[Len(contents)].out

-----------------------------------------------------------------------------
(* _prepare_messages_for_model. *)

\* Slip: the names are looked up in what is left to send only.
UnnamedResults(ms) == ms

\* A tool's result is named after the call it answers.
NamedResults(ms) ==
  LET Asked(id) == {c \in UNION {{ms[i].calls[j] : j \in DOMAIN ms[i].calls} : i \in DOMAIN ms} :
                      c.id = id}
      Name(m) == IF m.role = "tool" /\ m.name = Unset /\ Asked(m.callId) # {}
                   THEN (CHOOSE c \in Asked(m.callId) : TRUE).fun ELSE m.name
  IN [i \in DOMAIN ms |-> [ms[i] EXCEPT !.name = Name(ms[i])]]

\* The tools' prompt goes into a leading system message, or is one.
Instructed(ms) ==
  IF ms # <<>> /\ ms[1].role = "system" /\ ms[1].content.form = "string"
    THEN [ms EXCEPT ![1].content = Str(ms[1].content.parts[1] \o <<LineEnd, "tools">>)]
    ELSE <<Msg("system", Str(<<"tools">>))>> \o ms

\* Where the prompt was given before, the user's last message gets a hint.
Hinted(ms) ==
  LET asks == {i \in DOMAIN ms : ms[i].role = "user" /\ ms[i].content # NoContent}
      last == CHOOSE i \in asks : \A j \in asks : j <= i
      content == ms[last].content
  IN IF asks = {} THEN ms
     ELSE [ms EXCEPT ![last].content =
             [content EXCEPT !.parts[Len(content.parts)] = @ \o <<LineEnd, "hint">>]]

Prepare(ms, tools, inject) ==
  CASE tools /\ inject -> Instructed(NamedResults(ms))
    [] tools /\ ~inject -> Hinted(NamedResults(ms))
    [] OTHER -> NamedResults(ms)
=============================================================================
