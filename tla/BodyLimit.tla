------------------------------ MODULE BodyLimit ------------------------------
(***************************************************************************)
(* RequestBodyLimitMiddleware and one HTTP request.  The body comes in     *)
(* messages of any size; its declared length may be missing, unreadable or *)
(* wrong.  The application reads all of it before it acts (FastAPI parses  *)
(* the body first) or acts without reading.                                *)
(***************************************************************************)
EXTENDS Integers, Sequences

CONSTANTS
  Configured,  \* values of max_body_bytes
  Declared,    \* values of content-length
  Sizes,       \* sizes of a body message
  MaxBody      \* bound: the longest body that is sent

ASSUME BodyAssumption ==
  Configured \subseteq Int /\ Declared \subseteq Int /\ Sizes \subseteq Nat /\ MaxBody \in Nat

VARIABLES
  limit,       \* max_body_bytes
  declared,    \* content-length
  bodyPc,      \* where the request is
  received,    \* bytes the middleware has counted
  delivered,   \* bytes the application has been given
  overflowed,
  answers      \* responses begun, in order

bodyVars == <<limit, declared, bodyPc, received, delivered, overflowed, answers>>

BodyTypeOK ==
  /\ limit \in Nat /\ declared \in Int
  /\ bodyPc \in {"arrived", "reading", "read", "raised", "returned", "over"}
  /\ received \in Nat /\ delivered \in Nat
  /\ overflowed \in BOOLEAN
  /\ answers \in Seq({"app", "tooLarge", "error"})

-----------------------------------------------------------------------------
Ceiling(n) == IF n < 0 THEN 0 ELSE n

\* A declared length over the limit is refused before anything is read.
Refuses ==
  /\ bodyPc = "arrived"
  /\ limit > 0 /\ declared > limit
  /\ answers' = Append(answers, "tooLarge")
  /\ bodyPc' = "over"
  /\ UNCHANGED <<limit, declared, received, delivered, overflowed>>

\* Without a limit the application gets the request as it is.
Passes ==
  /\ bodyPc = "arrived"
  /\ limit = 0 \/ declared <= limit
  /\ bodyPc' = "reading"
  /\ UNCHANGED <<limit, declared, received, delivered, overflowed, answers>>

\* Slip: each message is measured, not their sum.
OverBySize(n) == limit > 0 /\ n > limit

Over(n) == limit > 0 /\ received + n > limit

\* limited_receive: a message is counted, and given to the application only if the
\* sum is within the limit; otherwise the application's receive raises.
Receive(n, last) ==
  /\ bodyPc = "reading"
  /\ received + n <= MaxBody
  /\ received' = received + n
  /\ IF Over(n)
       THEN overflowed' = TRUE /\ bodyPc' = "raised" /\ UNCHANGED delivered
       ELSE /\ delivered' = delivered + n
            /\ bodyPc' = IF last THEN "read" ELSE "reading"
            /\ UNCHANGED overflowed
  /\ UNCHANGED <<limit, declared, answers>>

\* The application answers, having read the whole body or none of it.
AppAnswers ==
  /\ bodyPc = "read" \/ (bodyPc = "reading" /\ received = 0)
  /\ answers' = Append(answers, "app")
  /\ bodyPc' = "over"
  /\ UNCHANGED <<limit, declared, received, delivered, overflowed>>

\* Slip: what FastAPI makes of the error is sent.
EnvelopeSent == Append(answers, "error")

\* limited_send: it is dropped.
Envelope == IF overflowed THEN answers ELSE Append(answers, "error")

\* FastAPI turns the error of receive into an answer of its own, or lets it through.
AppFails ==
  /\ bodyPc = "raised"
  /\ answers' = Envelope \/ answers' = answers
  /\ bodyPc' = "returned"
  /\ UNCHANGED <<limit, declared, received, delivered, overflowed>>

TooLarge ==
  /\ bodyPc = "returned"
  /\ overflowed
  /\ answers' = Append(answers, "tooLarge")
  /\ bodyPc' = "over"
  /\ UNCHANGED <<limit, declared, received, delivered, overflowed>>

\* http.disconnect: nobody is left to answer.
Disconnects ==
  /\ bodyPc = "reading"
  /\ bodyPc' = "over"
  /\ UNCHANGED <<limit, declared, received, delivered, overflowed, answers>>

-----------------------------------------------------------------------------
BodyInit ==
  /\ limit \in {Ceiling(n) : n \in Configured}
  /\ declared \in Declared \cup {0}
  /\ bodyPc = "arrived"
  /\ received = 0 /\ delivered = 0
  /\ overflowed = FALSE
  /\ answers = <<>>

BodyNext ==
  \/ Refuses \/ Passes \/ AppAnswers \/ AppFails \/ TooLarge \/ Disconnects
  \/ \E n \in Sizes, last \in BOOLEAN : Receive(n, last)

BodySpec == BodyInit /\ [][BodyNext]_bodyVars

-----------------------------------------------------------------------------
(* Properties. *)

\* The application is never given more than the ceiling, whatever length was
\* declared and however the body is cut into messages.
BodyBounded == limit > 0 => delivered <= limit

\* There is one answer at most; a body over the ceiling that was read gets the 413
\* of the middleware and no other, and no other request gets one.
OneAnswer ==
  /\ Len(answers) <= 1
  /\ bodyPc = "over" /\ overflowed => answers = <<"tooLarge">>
  /\ answers = <<"tooLarge">> => limit > 0 /\ (received > limit \/ declared > limit)
=============================================================================
