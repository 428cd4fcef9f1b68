-------------------------- MODULE ConversationFlow --------------------------
(***************************************************************************)
(* Requests that continue stored conversations: finding a reusable chat,   *)
(* sending to it, evicting it when Google rejects it, replaying in a fresh *)
(* one, and persisting the turn; beside them the retention task, which     *)
(* deletes expired chats at Google, clients whose sessions come and go     *)
(* (see ClientPool) and restarts of the process.                           *)
(*                                                                         *)
(* The store is ConversationStore.  Google is modelled by what the code    *)
(* says of it: a chat of the account's history lives until it is deleted,  *)
(* and is then rejected; an ephemeral chat, in temporary mode or a guest's,*)
(* can be continued only while it is the last chat its session opened, and *)
(* is answered without its context after that.  No step spans an await.    *)
(***************************************************************************)
EXTENDS ConversationStore

CONSTANTS
  Requests,
  Modes,        \* values of chat_mode the configuration may be restarted with
  Orderly,      \* modes in which a client's requests never overlap and a reply is
                \* always stored
  Settled,      \* no session comes or goes between a reply and its storing
  MaxSessions   \* sessions of one client

ASSUME FlowAssumption ==
  /\ Modes \subseteq {"normal", "temporary", "auto_delete"} /\ Orderly \subseteq Modes
  /\ Settled \in BOOLEAN
  /\ MaxSessions \in Nat \ {0}
  /\ Scopes = {"temporary", "guest"} \X ClientIds \X (1 .. MaxSessions)

VARIABLES
  mode,       \* chat_mode
  session,    \* the session id of each client
  guest,      \* clients whose account status is UNAUTHENTICATED
  latest,     \* latest_chat_cid of each client
  requests,
  deleting,   \* the chat the retention task awaits the deletion of
  toDelete,   \* what is left of its to_delete list
  google,     \* what became of each chat at Google
  window      \* the ephemeral chat of each client that is still open

clientVars == <<session, guest, latest>>
taskVars   == <<deleting, toDelete>>
googleVars == <<google, window>>
flowVars   == <<mode, clientVars, requests, taskVars, googleVars>>
allVars    == <<storeVars, flowVars>>

Idle == [pc |-> "idle"]

\* Requests between their lookup and the end of their reply.
InFlight(c) == {r \in Requests : requests[r] # Idle /\ requests[r].client = c}

-----------------------------------------------------------------------------
(* Choosing a chat. *)

\* acquire() hands out no guest; other ways to be out of rotation act alike.
Ready(c) == c \notin guest

ChatScope(c) ==
  IF c \in guest THEN <<"guest", c, session[c]>>
  ELSE IF mode = "temporary" THEN <<"temporary", c, session[c]>> ELSE Nothing

\* Slip: any chat of the current session is reused.
IsReusableInScope(k, c) == records[k].scope = ChatScope(c)

IsReusable(k, c) ==
  /\ records[k].scope = ChatScope(c)
  /\ records[k].scope # Nothing => records[k].chat = latest[c]

\* The stored prefixes of a history, and the longest of them.
StoredPrefixes(t) == {p \in Threads : IsStrictPrefix(p, t) /\ Lookup(p) # Nothing}
Longest(t)  == CHOOSE p \in StoredPrefixes(t) : \A q \in StoredPrefixes(t) : Len(q) <= Len(p)

\* _find_reusable_session settles on the longest match: if that cannot be reused
\* the request opens a fresh chat, on whichever client is next.
Reuses(r, t) ==
  /\ StoredPrefixes(t) # {}
  /\ \E k \in Current :
       /\ k = Lookup(Longest(t))
       /\ Ready(k[1]) /\ IsReusable(k, k[1])
       /\ requests' = [requests EXCEPT ![r] =
            [pc |-> "found", thread |-> t, client |-> k[1], key |-> k,
             chat |-> records[k].chat, scope |-> ChatScope(k[1]), lost |-> FALSE]]

OpensFresh(r, t, c) ==
  /\ Ready(c)
  /\ StoredPrefixes(t) # {} =>
       LET k == Lookup(Longest(t)) IN ~ (Ready(k[1]) /\ IsReusable(k, k[1]))
  /\ requests' = [requests EXCEPT ![r] =
       [pc |-> "found", thread |-> t, client |-> c, key |-> Nothing,
        chat |-> Nothing, scope |-> ChatScope(c), lost |-> FALSE]]

Prepare(r) ==
  /\ requests[r] = Idle
  /\ \E t \in Threads : Reuses(r, t) \/ \E c \in ClientIds : OpensFresh(r, t, c)
  /\ mode \in Orderly => InFlight(requests'[r].client) = {}
  /\ UNCHANGED <<storeVars, mode, clientVars, taskVars, googleVars>>

-----------------------------------------------------------------------------
(* Sending. *)

Fresh == {ch \in Chats : google[ch] = "unopened"}

\* What a chat the client opens now is to Google.
ChatKind(c) ==
  IF c \in guest THEN "guest" ELSE IF mode = "temporary" THEN "temporary" ELSE "history"

\* Opening a chat closes the client's ephemeral window; an ephemeral chat is the
\* next one.
Opens(c, ch) ==
  /\ ch \in Fresh /\ Owner[ch] = c
  /\ google' = [google EXCEPT ![ch] = ChatKind(c)]
  /\ window' = [window EXCEPT ![c] = IF ChatKind(c) = "history" THEN Nothing ELSE ch]

Continues(c, ch) ==
  /\ (google[ch] = "guest") <=> (c \in guest)
  /\ google[ch] # "deleted"
  /\ google[ch] # "history" => window[c] = ch

Rejects(c, ch) == google[ch] = "deleted" /\ c \notin guest

\* A reply without its context counts as lost unless the session it was looked
\* up for is gone.
Replied(r, chat, lost) ==
  requests' = [requests EXCEPT ![r] =
    [pc |-> "replied", thread |-> @.thread, client |-> @.client, key |-> Nothing,
     chat |-> chat, scope |-> Nothing,
     lost |-> lost /\ @.scope = ChatScope(@.client)]]

\* The first message of a fresh chat carries the whole history.
SendFresh(r) ==
  /\ requests[r].pc \in {"found", "replay"} /\ requests[r].chat = Nothing
  /\ \E ch \in Chats : Opens(requests[r].client, ch) /\ Replied(r, ch, FALSE)
  /\ UNCHANGED <<storeVars, mode, clientVars, taskVars>>

SendReused(r) ==
  /\ requests[r].pc = "found" /\ requests[r].chat # Nothing
  /\ Continues(requests[r].client, requests[r].chat)
  /\ Replied(r, requests[r].chat, FALSE)
  /\ UNCHANGED <<storeVars, mode, clientVars, taskVars, googleVars>>

\* The chat is gone and Google does not say so: it answers in a fresh one.
SendLost(r) ==
  LET c == requests[r].client IN
  /\ requests[r].pc = "found" /\ requests[r].chat # Nothing
  /\ ~ Continues(c, requests[r].chat) /\ ~ Rejects(c, requests[r].chat)
  /\ \E ch \in Chats : Opens(c, ch) /\ Replied(r, ch, TRUE)
  /\ UNCHANGED <<storeVars, mode, clientVars, taskVars>>

\* ModelInvalidError: the record goes, the history is processed again.
SendRejected(r) ==
  /\ requests[r].pc = "found" /\ requests[r].chat # Nothing
  /\ Rejects(requests[r].client, requests[r].chat)
  /\ requests' = [requests EXCEPT ![r].pc = "rejected", ![r].chat = Nothing,
                                  ![r].key = Nothing]
  /\ \/ Evict(requests[r].key)
     \/ requests[r].key \notin Stored /\ UNCHANGED storeVars
  /\ UNCHANGED <<mode, clientVars, taskVars, googleVars>>

\* The replay takes whichever client is ready when the history is processed.
Replays(r) ==
  /\ requests[r].pc = "rejected"
  /\ \E c \in ClientIds :
       /\ Ready(c)
       /\ requests' = [requests EXCEPT ![r].pc = "replay", ![r].client = c]
  /\ UNCHANGED <<storeVars, mode, clientVars, taskVars, googleVars>>

\* An error, a reply that fails its checks or a caller that is gone; nothing is
\* stored and a chat that was opened stays behind.
Abandon(r) ==
  /\ requests[r] # Idle
  /\ mode \in Orderly => requests[r].pc # "replied"
  /\ requests' = [requests EXCEPT ![r] = Idle]
  /\ UNCHANGED <<storeVars, mode, clientVars, taskVars, googleVars>>

\* Slip: every chat is stored as one of the account's.
TagAsAccount(c) == <<Nothing, mode = "auto_delete">>

\* The scope and mode a turn is stored with, read when it is stored.
Tag(c) == <<ChatScope(c), mode = "auto_delete">>

\* _persist_conversation: a failure to store leaves latest_chat_cid set.
Persist(r) ==
  LET q == requests[r] IN
  /\ q.pc = "replied"
  /\ latest' = [latest EXCEPT ![q.client] = q.chat]
  /\ \/ Store(<<q.client, q.thread>>, q.chat, Tag(q.client))
     \/ UNCHANGED storeVars
  /\ requests' = [requests EXCEPT ![r] = Idle]
  /\ UNCHANGED <<mode, session, guest, taskVars, googleVars>>

RequestNext(r) ==
  \/ Prepare(r) \/ SendFresh(r) \/ SendReused(r) \/ SendLost(r)
  \/ SendRejected(r) \/ Replays(r) \/ Abandon(r) \/ Persist(r)

-----------------------------------------------------------------------------
(* The retention task. *)

\* One pass: expired records go, then the list is every pending deletion.  A
\* pass that finds neither changes nothing.
CleanupPass ==
  /\ toDelete = {} /\ deleting = Nothing
  /\ IF Expired(Ttl, Retention) # {}
       THEN CleanupExpired
       ELSE pending # {} /\ UNCHANGED storeVars
  /\ toDelete' = pending'
  /\ UNCHANGED <<mode, clientVars, requests, deleting, googleVars>>

Takes(ch) == deleting = Nothing /\ ch \in toDelete /\ toDelete' = toDelete \ {ch}

\* pool.delete_chat returns False for a guest, or a client out of rotation.
DeleteRefused(ch) ==
  /\ Takes(ch)
  /\ ~ Ready(Owner[ch])
  /\ RecordFailure(ch)
  /\ UNCHANGED <<mode, clientVars, requests, deleting, googleVars>>

DeleteBegins(ch) ==
  /\ Takes(ch)
  /\ Ready(Owner[ch])
  /\ deleting' = ch
  /\ UNCHANGED <<storeVars, mode, clientVars, requests, googleVars>>

\* Deleting a chat that is gone succeeds too.
DeleteSucceeds ==
  /\ deleting # Nothing
  /\ google' = [google EXCEPT ![deleting] = IF @ = "history" THEN "deleted" ELSE @]
  /\ latest' = [latest EXCEPT ![Owner[deleting]] = IF @ = deleting THEN Nothing ELSE @]
  /\ RemovePending(deleting)
  /\ deleting' = Nothing
  /\ UNCHANGED <<mode, session, guest, requests, toDelete, window>>

\* Slip: a deletion that failed is not recorded, the next pass tries it again.
DeleteFailsSilently ==
  /\ deleting # Nothing
  /\ deleting' = Nothing
  /\ UNCHANGED <<storeVars, mode, clientVars, requests, toDelete, googleVars>>

DeleteFails ==
  /\ deleting # Nothing
  /\ RecordFailure(deleting)
  /\ deleting' = Nothing
  /\ UNCHANGED <<mode, clientVars, requests, toDelete, googleVars>>

TaskNext ==
  \/ CleanupPass \/ DeleteSucceeds \/ DeleteFails
  \/ \E ch \in Chats : DeleteRefused(ch) \/ DeleteBegins(ch)

-----------------------------------------------------------------------------
(* Sessions, the account's owner and the process. *)

MayChange(c) == Settled => \A r \in InFlight(c) : requests[r].pc # "replied"

\* GeminiClientWrapper.init: a new session id, nothing vouches for a window.
Reinit(c) ==
  /\ MayChange(c)
  /\ session[c] < MaxSessions
  /\ session' = [session EXCEPT ![c] = @ + 1]
  /\ latest' = [latest EXCEPT ![c] = Nothing]
  /\ guest' \in {guest \cup {c}, guest \ {c}}
  /\ window' = [window EXCEPT ![c] = Nothing]
  /\ UNCHANGED <<storeVars, mode, requests, taskVars, google>>

\* Cookies expire, or are accepted again; the session id stays.
StatusChanges(c) ==
  /\ MayChange(c)
  /\ guest' = IF c \in guest THEN guest \ {c} ELSE guest \cup {c}
  /\ UNCHANGED <<storeVars, mode, session, latest, requests, taskVars, googleVars>>

\* The owner deletes a chat in the web interface.
OwnerDeletes(ch) ==
  /\ google[ch] = "history"
  /\ google' = [google EXCEPT ![ch] = "deleted"]
  /\ UNCHANGED <<storeVars, mode, clientVars, requests, taskVars, window>>

\* The process ends anywhere and comes up again, perhaps in another mode; only the
\* database survives.
Restart ==
  /\ \A c \in ClientIds : session[c] < MaxSessions
  /\ mode' \in Modes
  /\ session' = [c \in ClientIds |-> session[c] + 1]
  /\ guest' = {} /\ latest' = [c \in ClientIds |-> Nothing]
  /\ requests' = [r \in Requests |-> Idle]
  /\ deleting' = Nothing /\ toDelete' = {}
  /\ window' = [c \in ClientIds |-> Nothing]
  /\ UNCHANGED <<storeVars, google>>

-----------------------------------------------------------------------------
FlowInit ==
  /\ Init
  /\ mode \in Modes
  /\ session = [c \in ClientIds |-> 1]
  /\ guest = {} /\ latest = [c \in ClientIds |-> Nothing]
  /\ requests = [r \in Requests |-> Idle]
  /\ deleting = Nothing /\ toDelete = {}
  /\ google = [ch \in Chats |-> "unopened"]
  /\ window = [c \in ClientIds |-> Nothing]

FlowNext ==
  \/ \E r \in Requests : RequestNext(r)
  \/ TaskNext
  \/ \E c \in ClientIds : Reinit(c) \/ StatusChanges(c)
  \/ \E ch \in Chats : OwnerDeletes(ch)
  \/ Restart
  \/ Tick /\ UNCHANGED flowVars

FlowSpec == FlowInit /\ [][FlowNext]_allVars

\* The loop of the retention task goes on, and a deletion it awaits ends.
FairFlowSpec ==
  /\ FlowSpec
  /\ WF_allVars(CleanupPass)
  /\ WF_allVars(DeleteSucceeds \/ DeleteFails)
  /\ \A ch \in Chats : WF_allVars(DeleteRefused(ch) \/ DeleteBegins(ch))

-----------------------------------------------------------------------------
(* Properties. *)

\* A reply comes without the context of its conversation only if the session the
\* chat was looked up for died before the message was sent: neither deletions,
\* nor replays, nor older sessions, nor a change of mode cost a caller the history.
\* _is_reusable_chat promises it of every chat: "its cid must be the last one this
\* client opened, since a newer conversation has closed anything older".
ContextKept == \A r \in Requests : requests[r] # Idle => ~ requests[r].lost

\* Only chats of the account's history are queued for deletion, never the
\* window of a guest or of temporary mode.
StagedAreOfHistory == \A ch \in pending : google[ch] \in {"history", "deleted"}

\* Every queued deletion is settled: carried out, or given up after its attempts,
\* through restarts and requests that bring the chat back meanwhile.
Settles == \A ch \in Chats : ch \in pending ~> ch \notin pending
=============================================================================
