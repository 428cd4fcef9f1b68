------------------------------- MODULE Serving -------------------------------
(***************************************************************************)
(* The parts that serve a request, next to each other: the body limit, a   *)
(* streamed chat completion, a streamed response, a native stream, and the *)
(* dialogues that are carried on by such requests.  They share no state    *)
(* while one request is served (what requests do to each other is          *)
(* ClientPool's and ConversationFlow's), so a behaviour is one of one      *)
(* part, and the others rest.                                              *)
(***************************************************************************)
EXTENDS ResponsesStream, NativeStream, Dialogue, BodyLimit

VARIABLE surface

servingVars == <<surface, responsesVars, native, dialogueVars, bodyVars>>

-----------------------------------------------------------------------------
(* Parts at rest: a stream its caller has left, no request, no body.        *)

StreamRests ==
  /\ request = [structured |-> FALSE, strict |-> FALSE, forced |-> FALSE]
  /\ pc = "left"
  /\ full = <<>> /\ filter = NewFilter /\ sent = <<>>
  /\ media = [i \in Images |-> "unseen"]
  /\ stored = Nothing

ItemsRest ==
  /\ choice = [forced |-> "no", imageTool |-> FALSE]
  /\ items = <<>> /\ thoughts = 0
  /\ thoughtOpen = FALSE /\ messageOpen = FALSE

NativeRests == native = [NativeStart(FALSE, FALSE) EXCEPT !.pc = "left"]

DialogueRests ==
  /\ setup = CHOOSE s \in Setups : TRUE
  /\ talk = <<>> /\ asked = <<>> /\ prompt = <<>> /\ reused = 0 /\ outgoing = <<>>
  /\ turns = {} /\ asks = MaxAsks

BodyRests ==
  /\ limit = 0 /\ declared = 0
  /\ bodyPc = "over"
  /\ received = 0 /\ delivered = 0
  /\ overflowed = FALSE
  /\ answers = <<>>

ServingInit ==
  \/ /\ surface = "chat" /\ Init
     /\ ItemsRest /\ NativeRests /\ DialogueRests /\ BodyRests
  \/ /\ surface = "responses" /\ ResponsesInit
     /\ NativeRests /\ DialogueRests /\ BodyRests
  \/ /\ surface = "native" /\ NativeInit
     /\ StreamRests /\ ItemsRest /\ DialogueRests /\ BodyRests
  \/ /\ surface = "dialogue" /\ DialogueInit
     /\ StreamRests /\ ItemsRest /\ NativeRests /\ BodyRests
  \/ /\ surface = "body" /\ BodyInit
     /\ StreamRests /\ ItemsRest /\ NativeRests /\ DialogueRests

-----------------------------------------------------------------------------
OnChat ==
  surface = "chat" /\ UNCHANGED <<surface, choice, itemVars, native, dialogueVars, bodyVars>>
OnResponses ==
  surface = "responses" /\ UNCHANGED <<surface, native, dialogueVars, bodyVars>>
OnNative ==
  surface = "native" /\ UNCHANGED <<surface, responsesVars, dialogueVars, bodyVars>>
InDialogue ==
  surface = "dialogue" /\ UNCHANGED <<surface, responsesVars, native, bodyVars>>
OnBody ==
  surface = "body" /\ UNCHANGED <<surface, responsesVars, native, dialogueVars>>

ServingNext ==
  \/ OnChat /\ Next
  \/ OnResponses /\ ResponsesNext
  \/ OnNative /\ NativeNext
  \/ InDialogue /\ DialogueNext
  \/ OnBody /\ BodyNext

-----------------------------------------------------------------------------
(* Fairness. *)

\* The generator of the surface runs on when it is not waiting for Google, and when
\* it is, the idle timeout fires.  Google owes nothing, the caller need not leave.
GeneratorRuns ==
  \/ OnChat /\ (Breaks \/ Store \/ Done \/ \E i \in Images : Publish(i))
  \/ /\ OnResponses
     /\ \/ ResponseStore \/ ResponseRefused \/ \E i \in Drawn : ResponsePublish(i)
        \/ (Breaks \/ Done) /\ UNCHANGED <<choice, itemVars>>
  \/ OnNative /\ (NativeBreaks \/ NativePublish \/ FinalFrame \/ NativeStore)

\* A download ends, in success or in failure.
MediaEnds(i) ==
  /\ DownloadEnds(i)
  /\ UNCHANGED <<choice, itemVars>>
  /\ OnChat \/ OnResponses

ServingSpec ==
  /\ ServingInit /\ [][ServingNext]_servingVars
  /\ WF_servingVars(GeneratorRuns)
  /\ \A i \in Images : WF_servingVars(MediaEnds(i))

-----------------------------------------------------------------------------
(* Properties that only speak of the Responses surface, where there are items. *)

\* AllTold: every piece of reasoning and of text that is sent on the Responses
\* surface is told in an item of its kind, once.
ResponsesTold == surface = "responses" => AllTold

\* OutputAsStreamed: response.completed lists what the caller was shown.
ResponsesOutput == surface = "responses" => OutputAsStreamed
=============================================================================
