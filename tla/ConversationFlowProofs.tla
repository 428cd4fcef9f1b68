----------------------- MODULE ConversationFlowProofs -----------------------
(***************************************************************************)
(* What the retention task may take down at Google, for any clients,       *)
(* conversations, requests and chats: no chat that a stored turn still     *)
(* needs, and no ephemeral one.  A caller never loses the history of a     *)
(* conversation, for any threads, sessions and modes; and the store keeps  *)
(* its types and its indexes when it is driven by requests, the retention  *)
(* task and restarts.                                                      *)
(***************************************************************************)
EXTENDS ConversationFlow, ConversationStoreProofs

-----------------------------------------------------------------------------
(* Chats that are still needed.                                            *)

Placed == DOMAIN records = Keys \cup LegacyKeys

Unreferenced(ch) == \A k \in Stored : records[k].chat # ch

LEMMA CleanupUnreferenced ==
  ASSUME Placed, CleanupExpired, NEW ch \in pending' \ pending
  PROVE  Unreferenced(ch)'
<1>1. PICK expired : /\ expired = Expired(Ttl, Retention)
                     /\ Purge(expired, ToDelete(expired))
  BY DEF CleanupExpired
<1>2. ch \in ToDelete(expired)
  BY <1>1 DEF Purge
<1>3. \A k \in Stored \ expired : records[k].chat # ch
  BY <1>2 DEF ToDelete
<1>4. records' = [k \in DOMAIN records |-> IF k \in expired THEN Nothing ELSE records[k]]
  BY <1>1 DEF Purge, RemoveRecords
<1>5. \A k \in Stored' : k \in Stored \ expired /\ records'[k] = records[k]
  BY <1>4 DEF Placed, Stored
<1> QED BY <1>3, <1>5 DEF Unreferenced

\* Nothing else puts a chat on the queue.
LEMMA OthersStageNothing ==
  ASSUME NEW k, NEW chat, NEW tag, NEW ch
  PROVE  /\ Store(k, chat, tag) => pending' = pending
         /\ Evict(k) => pending' = pending
         /\ RemovePending(ch) => pending' \subseteq pending
         /\ RecordFailure(ch) => pending' \subseteq pending
         /\ Tick => pending' = pending
BY DEF Store, Evict, RemovePending, RecordFailure, Unmark, Tick

LEMMA StillPlaced ==
  ASSUME Placed, NEW k, NEW chat, NEW tag, NEW ch
  PROVE  /\ Store(k, chat, tag) => Placed'
         /\ Evict(k) => Placed'
         /\ CleanupExpired => Placed'
         /\ RemovePending(ch) => Placed'
         /\ RecordFailure(ch) => Placed'
         /\ Tick => Placed'
BY DEF Placed, Store, Evict, CleanupExpired, Purge, RemoveRecords, RemovePending,
       RecordFailure, Unmark, Tick

\* A step of the requests, the task, the sessions or the process is one of these to
\* the store.
LEMMA StoreSteps ==
  ASSUME [FlowNext]_allVars
  PROVE  \/ UNCHANGED storeVars
         \/ CleanupExpired
         \/ Tick
         \/ \E k, chat, tag : Store(k, chat, tag)
         \/ \E k : Evict(k)
         \/ \E ch : RemovePending(ch) \/ RecordFailure(ch)
<1>1. CASE \E r \in Requests : RequestNext(r)
  <2>1. PICK r \in Requests : RequestNext(r)
    BY <1>1
  <2>2. CASE Prepare(r) \/ SendFresh(r) \/ SendReused(r) \/ SendLost(r) \/ Replays(r) \/ Abandon(r)
    BY <2>2 DEF Prepare, SendFresh, SendReused, SendLost, Replays, Abandon
  <2>3. CASE SendRejected(r)
    BY <2>3 DEF SendRejected
  <2>4. CASE Persist(r)
    BY <2>4 DEF Persist
  <2> QED BY <2>1, <2>2, <2>3, <2>4 DEF RequestNext
<1>2. CASE TaskNext
  <2>1. CASE CleanupPass
    BY <2>1 DEF CleanupPass
  <2>2. CASE DeleteSucceeds
    BY <2>2 DEF DeleteSucceeds
  <2>3. CASE DeleteFails
    BY <2>3 DEF DeleteFails
  <2>4. CASE \E ch \in Chats : DeleteRefused(ch) \/ DeleteBegins(ch)
    BY <2>4 DEF DeleteRefused, DeleteBegins
  <2> QED BY <1>2, <2>1, <2>2, <2>3, <2>4 DEF TaskNext
<1>3. CASE (\E c \in ClientIds : Reinit(c) \/ StatusChanges(c)) \/ (\E ch \in Chats : OwnerDeletes(ch))
            \/ Restart
  BY <1>3 DEF Reinit, StatusChanges, OwnerDeletes, Restart
<1>4. CASE UNCHANGED allVars \/ (Tick /\ UNCHANGED flowVars)
  BY <1>4 DEF allVars
<1> QED BY <1>1, <1>2, <1>3, <1>4 DEF FlowNext

\* A chat is queued for deletion only when no stored turn refers to it, whatever
\* requests store, store again, replay and evict meanwhile, and across restarts.
THEOREM NeededChatsAreKept == FlowSpec => StagedIsUnreferenced
<1>1. FlowInit => Placed
  BY DEF FlowInit, Init, Placed
<1>2. ASSUME Placed, [FlowNext]_allVars
      PROVE  Placed' /\ \A ch \in pending' \ pending : Unreferenced(ch)'
  <2>1. CASE UNCHANGED storeVars
    BY <1>2, <2>1 DEF storeVars, Placed
  <2>2. CASE CleanupExpired
    BY <1>2, <2>2, CleanupUnreferenced, StillPlaced
  <2>3. CASE \/ Tick \/ (\E k, chat, tag : Store(k, chat, tag)) \/ (\E k : Evict(k))
             \/ (\E ch : RemovePending(ch) \/ RecordFailure(ch))
    BY <1>2, <2>3, OthersStageNothing, StillPlaced
  <2> QED BY <1>2, <2>1, <2>2, <2>3, StoreSteps
<1>3. Placed /\ [FlowNext]_allVars =>
        [\A ch \in pending' \ pending : \A k \in Stored' : records'[k].chat # ch]_storeVars
  BY <1>2 DEF Unreferenced
<1> QED BY <1>1, <1>2, <1>3, PTL DEF FlowSpec, StagedIsUnreferenced

-----------------------------------------------------------------------------
(* Ephemeral chats are never deleted.                                      *)

\* A chat of the account's history, there or gone.
History(ch) == google[ch] \in {"history", "deleted"}

\* Client c opens chats in the account's history.
OnAccount(c) == c \notin guest /\ mode # "temporary"

InStore ==
  /\ Placed
  /\ \A k \in Stored :
       /\ records[k] = [chat |-> records[k].chat, scope |-> records[k].scope,
                        auto |-> records[k].auto, age |-> records[k].age]
       /\ records[k].chat \in Chats

AtClients ==
  /\ session \in [ClientIds -> 1 .. MaxSessions]
  /\ DOMAIN google = Chats /\ DOMAIN window = ClientIds

InRequests ==
  /\ DOMAIN requests = Requests
  /\ \A r \in Requests :
       \/ requests[r] = Idle
       \/ /\ requests[r] = [pc |-> requests[r].pc, thread |-> requests[r].thread,
                            client |-> requests[r].client, key |-> requests[r].key,
                            chat |-> requests[r].chat, scope |-> requests[r].scope,
                            lost |-> requests[r].lost]
          /\ requests[r].pc \in {"found", "rejected", "replay", "replied"}
          /\ requests[r].client \in ClientIds
          /\ requests[r].chat # Nothing => requests[r].chat \in Chats

\* The turns cleanup would delete the chats of, and the chats it already queued.
StoredOfHistory ==
  \A k \in Stored : records[k].auto /\ records[k].scope = Nothing => History(records[k].chat)

QueuedOfHistory == pending \subseteq Chats /\ \A ch \in pending : History(ch)

\* A reply that will be stored as one of the account's came from such a chat.
RepliedOfHistory ==
  \A r \in Requests :
    requests[r].pc = "replied" =>
      /\ requests[r].chat \in Chats
      /\ OnAccount(requests[r].client) => History(requests[r].chat)

\* An open window is ephemeral, and temporary only under temporary mode.
WindowsEphemeral ==
  \A c \in ClientIds :
    window[c] # Nothing =>
      /\ window[c] \in Chats
      /\ \/ google[window[c]] = "guest"
         \/ google[window[c]] = "temporary" /\ mode = "temporary"

HistoryInvariant ==
  /\ InStore /\ AtClients /\ InRequests
  /\ StoredOfHistory /\ QueuedOfHistory /\ RepliedOfHistory /\ WindowsEphemeral

LEMMA HistoryInit == FlowInit => HistoryInvariant
<1> SUFFICES ASSUME FlowInit PROVE HistoryInvariant
  OBVIOUS
<1>1. InStore /\ StoredOfHistory
  <2>1. PICK old \in {{}, LegacyKeys}, ch \in Chats :
          records = [k \in Keys \cup LegacyKeys |->
            IF k \in old THEN [chat |-> ch, scope |-> Nothing, auto |-> FALSE, age |-> 0] ELSE Nothing]
    BY DEF FlowInit, Init
  <2>2. \A k \in Stored : records[k] = [chat |-> ch, scope |-> Nothing, auto |-> FALSE, age |-> 0]
    BY <2>1 DEF Stored
  <2>3. Placed
    BY <2>1 DEF Placed
  <2> QED BY <2>2, <2>3 DEF InStore, StoredOfHistory
<1>2. AtClients
  BY FlowAssumption DEF FlowInit, AtClients
<1>3. InRequests /\ RepliedOfHistory
  BY DEF FlowInit, InRequests, RepliedOfHistory, Idle
<1>4. QueuedOfHistory /\ WindowsEphemeral
  BY DEF FlowInit, Init, QueuedOfHistory, WindowsEphemeral
<1> QED BY <1>1, <1>2, <1>3, <1>4 DEF HistoryInvariant

-----------------------------------------------------------------------------
(* What a step leaves of it.                                               *)

\* History only grows.
LEMMA HistoryStays ==
  ASSUME AtClients, NEW c, NEW ch \in Chats, History(ch), NEW x
  PROVE  /\ google' = google => History(ch)'
         /\ Opens(c, x) => History(ch)'
         /\ DeleteSucceeds => History(ch)'
         /\ OwnerDeletes(x) => History(ch)'
BY DEF AtClients, History, Opens, Fresh, DeleteSucceeds, OwnerDeletes

\* The store's part of a step.
LEMMA StoredStays ==
  ASSUME InStore, StoredOfHistory, QueuedOfHistory,
         \A ch \in Chats : History(ch) => History(ch)',
         NEW ch, NEW k,
         \/ UNCHANGED storeVars \/ CleanupExpired \/ Tick \/ Evict(k)
         \/ RemovePending(ch) \/ RecordFailure(ch)
  PROVE  InStore' /\ StoredOfHistory' /\ QueuedOfHistory'
<1>1. CASE UNCHANGED storeVars
  <2>1. UNCHANGED <<records, pending>>
    BY <1>1 DEF storeVars
  <2>2. InStore' /\ Stored' = Stored
    BY <2>1 DEF InStore, Placed, Stored
  <2> QED BY <2>1, <2>2 DEF StoredOfHistory, QueuedOfHistory, InStore
<1>2. CASE RemovePending(ch) \/ RecordFailure(ch)
  <2>1. records' = records /\ pending' \subseteq pending
    BY <1>2 DEF RemovePending, RecordFailure, Unmark
  <2>2. InStore' /\ Stored' = Stored
    BY <2>1 DEF InStore, Placed, Stored
  <2> QED BY <2>1, <2>2 DEF StoredOfHistory, QueuedOfHistory, InStore
<1>3. CASE CleanupExpired \/ Evict(k)
  <2>1. PICK gone : RemoveRecords(gone)
    BY <1>3 DEF CleanupExpired, Purge, Evict
  <2>2. Stored' \subseteq Stored /\ Placed' /\ \A x \in Stored' : records'[x] = records[x]
    BY <2>1 DEF RemoveRecords, InStore, Placed, Stored
  <2>3. InStore' /\ StoredOfHistory'
    BY <2>2 DEF InStore, StoredOfHistory
  <2>4. \A x \in pending' \ pending : x \in Chats /\ History(x)
    <3>1. CASE Evict(k)
      BY <3>1 DEF Evict
    <3>2. CASE CleanupExpired
      <4>1. PICK expired : expired = Expired(Ttl, Retention) /\ Purge(expired, ToDelete(expired))
        BY <3>2 DEF CleanupExpired
      <4>2. expired \subseteq Stored /\ pending' = pending \cup ToDelete(expired)
        BY <4>1 DEF Expired, Purge
      <4> QED BY <4>2 DEF ToDelete, StoredOfHistory, InStore
    <3> QED BY <1>3, <3>1, <3>2
  <2>5. QueuedOfHistory'
    BY <2>4 DEF QueuedOfHistory
  <2> QED BY <2>3, <2>5
<1>4. CASE Tick
  <2>1. /\ pending' = pending /\ DOMAIN records' = DOMAIN records
        /\ \A x \in DOMAIN records :
             records'[x] = IF records[x] # Nothing /\ records[x].age < MaxAge
                             THEN [records[x] EXCEPT !.age = @ + 1] ELSE records[x]
    BY <1>4 DEF Tick
  <2>2. \A x \in Stored' : x \in Stored
    BY <2>1 DEF Stored, InStore, Placed
  <2>3. \A x \in Stored :
          /\ records'[x] = [chat |-> records'[x].chat, scope |-> records'[x].scope,
                            auto |-> records'[x].auto, age |-> records'[x].age]
          /\ records'[x].chat = records[x].chat /\ records'[x].scope = records[x].scope
          /\ records'[x].auto = records[x].auto
    <3> TAKE x \in Stored
    <3>1. PICK a, b, d, e : records[x] = [chat |-> a, scope |-> b, auto |-> d, age |-> e]
      BY DEF InStore
    <3>2. records'[x] = records[x] \/ records'[x] = [chat |-> a, scope |-> b, auto |-> d, age |-> e + 1]
      BY <2>1, <3>1 DEF InStore, Placed, Stored
    <3> QED BY <3>1, <3>2
  <2>4. InStore' /\ StoredOfHistory'
    BY <2>1, <2>2, <2>3 DEF InStore, Placed, StoredOfHistory
  <2> QED BY <2>1, <2>4 DEF QueuedOfHistory
<1> QED BY <1>1, <1>2, <1>3, <1>4

\* A step that only touches one request and does not end in a reply.
LEMMA RequestStays ==
  ASSUME HistoryInvariant, NEW r \in Requests, NEW q, requests' = [requests EXCEPT ![r] = q],
         UNCHANGED <<mode, guest, google>>,
         \/ q = Idle
         \/ /\ q = [pc |-> q.pc, thread |-> q.thread, client |-> q.client, key |-> q.key,
                    chat |-> q.chat, scope |-> q.scope, lost |-> q.lost]
            /\ q.pc \in {"found", "rejected", "replay"}
            /\ q.client \in ClientIds
            /\ q.chat # Nothing => q.chat \in Chats
  PROVE  InRequests' /\ RepliedOfHistory'
<1>1. /\ DOMAIN requests' = Requests /\ requests'[r] = q
      /\ \A x \in Requests : x # r => requests'[x] = requests[x]
  BY DEF HistoryInvariant, InRequests
<1>2. InRequests'
  BY <1>1 DEF HistoryInvariant, InRequests
<1>3. q.pc # "replied"
  BY DEF Idle
<1>4. RepliedOfHistory'
  BY <1>1, <1>3 DEF HistoryInvariant, RepliedOfHistory, OnAccount, History
<1> QED BY <1>2, <1>4

\* The rest of the state, when Google and the clients are left alone.
LEMMA ClientsStay ==
  ASSUME HistoryInvariant, UNCHANGED <<mode, session, guest, google, window>>
  PROVE  AtClients' /\ WindowsEphemeral' /\ \A ch \in Chats : History(ch) => History(ch)'
BY DEF HistoryInvariant, AtClients, WindowsEphemeral, History

LEMMA PrepareKeeps ==
  ASSUME HistoryInvariant, NEW r \in Requests, Prepare(r)
  PROVE  HistoryInvariant'
<1>1. UNCHANGED <<mode, session, guest, google, window>> /\ UNCHANGED storeVars
  BY DEF Prepare, clientVars, googleVars
<1>2. PICK t \in Threads : Reuses(r, t) \/ \E c \in ClientIds : OpensFresh(r, t, c)
  BY DEF Prepare
<1>3. InRequests' /\ RepliedOfHistory'
  <2>1. CASE Reuses(r, t)
    <3>1. PICK k \in Current :
            requests' = [requests EXCEPT ![r] =
              [pc |-> "found", thread |-> t, client |-> k[1], key |-> k,
               chat |-> records[k].chat, scope |-> ChatScope(k[1]), lost |-> FALSE]]
      BY <2>1 DEF Reuses
    <3>2. k[1] \in ClientIds /\ records[k].chat \in Chats
      BY DEF Current, Keys, Stored, HistoryInvariant, InStore
    <3> QED BY <1>1, <3>1, <3>2, RequestStays
  <2>2. ASSUME NEW c \in ClientIds, OpensFresh(r, t, c)
        PROVE  InRequests' /\ RepliedOfHistory'
    <3>1. requests' = [requests EXCEPT ![r] =
            [pc |-> "found", thread |-> t, client |-> c, key |-> Nothing,
             chat |-> Nothing, scope |-> ChatScope(c), lost |-> FALSE]]
      BY <2>2 DEF OpensFresh
    <3> QED BY <1>1, <3>1, RequestStays
  <2> QED BY <1>2, <2>1, <2>2
<1> QED BY <1>1, <1>3, ClientsStay, StoredStays DEF HistoryInvariant

LEMMA ReplySets ==
  ASSUME InRequests, NEW r \in Requests, requests[r].pc \in {"found", "replay"},
         NEW chat \in Chats, NEW lost, Replied(r, chat, lost)
  PROVE  /\ InRequests'
         /\ requests'[r].chat = chat /\ requests'[r].client = requests[r].client
         /\ \A x \in Requests : x # r => requests'[x] = requests[x]
<1>1. requests[r] # Idle /\ requests[r].client \in ClientIds
  BY DEF Idle, InRequests
<1>2. PICK q, t, b :
        /\ requests' = [requests EXCEPT ![r] = q]
        /\ q = [pc |-> "replied", thread |-> t, client |-> requests[r].client, key |-> Nothing,
                chat |-> chat, scope |-> Nothing, lost |-> b]
  BY DEF Replied
<1>3. /\ DOMAIN requests' = Requests /\ requests'[r] = q
      /\ \A x \in Requests : x # r => requests'[x] = requests[x]
  BY <1>2 DEF InRequests
<1>4. /\ q = [pc |-> q.pc, thread |-> q.thread, client |-> q.client, key |-> q.key,
              chat |-> q.chat, scope |-> q.scope, lost |-> q.lost]
      /\ q.pc = "replied" /\ q.client = requests[r].client /\ q.chat = chat
  BY <1>2
<1>5. InRequests'
  BY <1>1, <1>3, <1>4 DEF InRequests
<1> QED BY <1>3, <1>4, <1>5

\* A chat is opened and answered from.
LEMMA OpenedKeeps ==
  ASSUME HistoryInvariant, NEW r \in Requests, requests[r].pc \in {"found", "replay"},
         NEW ch, NEW lost, Opens(requests[r].client, ch), Replied(r, ch, lost),
         UNCHANGED <<mode, session, guest>>, UNCHANGED storeVars
  PROVE  HistoryInvariant'
<1>1. PICK c : c = requests[r].client
  OBVIOUS
<1>2. /\ ch \in Chats /\ google[ch] = "unopened"
      /\ google' = [google EXCEPT ![ch] = ChatKind(c)]
      /\ window' = [window EXCEPT ![c] = IF ChatKind(c) = "history" THEN Nothing ELSE ch]
  BY <1>1 DEF Opens, Fresh
<1>3. c \in ClientIds
  BY <1>1 DEF HistoryInvariant, InRequests, Idle
<1>4. /\ InRequests' /\ requests'[r].chat = ch /\ requests'[r].client = c
      /\ \A x \in Requests : x # r => requests'[x] = requests[x]
  BY <1>1, <1>2, ReplySets DEF HistoryInvariant
<1>5. \A x \in Chats : History(x) => History(x)'
  BY <1>1, HistoryStays DEF HistoryInvariant
<1>6. InStore' /\ StoredOfHistory' /\ QueuedOfHistory'
  BY <1>5, StoredStays DEF HistoryInvariant
<1>7. AtClients'
  BY <1>2 DEF HistoryInvariant, AtClients
<1>8. google'[ch] = ChatKind(c) /\ \A x \in Chats : x # ch => google'[x] = google[x]
  BY <1>2 DEF HistoryInvariant, AtClients
<1>9. RepliedOfHistory'
  <2>1. ASSUME NEW x \in Requests, (requests[x].pc = "replied")'
        PROVE  (requests[x].chat \in Chats /\ (OnAccount(requests[x].client) => History(requests[x].chat)))'
    <3>1. CASE x = r
      BY <1>2, <1>4, <1>8, <3>1 DEF OnAccount, ChatKind, History
    <3>2. CASE x # r
      <4>1. requests'[x] = requests[x] /\ requests[x].pc = "replied"
        BY <1>4, <2>1, <3>2
      <4>2. requests[x].chat \in Chats /\ (OnAccount(requests[x].client) => History(requests[x].chat))
        BY <4>1 DEF HistoryInvariant, RepliedOfHistory
      <4> QED BY <1>5, <4>1, <4>2 DEF OnAccount, History
    <3> QED BY <3>1, <3>2
  <2> QED BY <2>1 DEF RepliedOfHistory
<1>10. WindowsEphemeral'
  <2>1. window'[c] = (IF ChatKind(c) = "history" THEN Nothing ELSE ch)
        /\ \A d \in ClientIds : d # c => window'[d] = window[d]
    BY <1>2, <1>3 DEF HistoryInvariant, AtClients
  <2>2. ASSUME NEW d \in ClientIds, window'[d] # Nothing
        PROVE  /\ window'[d] \in Chats
               /\ \/ google'[window'[d]] = "guest"
                  \/ google'[window'[d]] = "temporary" /\ mode = "temporary"
    <3>1. CASE d = c
      BY <1>2, <1>8, <2>1, <2>2, <3>1 DEF ChatKind
    <3>2. CASE d # c
      BY <1>2, <1>8, <2>1, <2>2, <3>2 DEF HistoryInvariant, WindowsEphemeral
    <3> QED BY <3>1, <3>2
  <2> QED BY <2>2 DEF WindowsEphemeral
<1> QED BY <1>4, <1>6, <1>7, <1>9, <1>10 DEF HistoryInvariant

LEMMA SendFreshKeeps ==
  ASSUME HistoryInvariant, NEW r \in Requests, SendFresh(r) \/ SendLost(r)
  PROVE  HistoryInvariant'
<1>1. PICK ch, lost : Opens(requests[r].client, ch) /\ Replied(r, ch, lost)
  BY DEF SendFresh, SendLost
<1>2. /\ requests[r].pc \in {"found", "replay"}
      /\ UNCHANGED <<mode, session, guest>> /\ UNCHANGED storeVars
  BY DEF SendFresh, SendLost, clientVars
<1> QED BY <1>1, <1>2, OpenedKeeps

LEMMA SendReusedKeeps ==
  ASSUME HistoryInvariant, NEW r \in Requests, SendReused(r)
  PROVE  HistoryInvariant'
<1>1. PICK c, ch : c = requests[r].client /\ ch = requests[r].chat
  OBVIOUS
<1>2. /\ requests[r].pc = "found" /\ ch # Nothing /\ Continues(c, ch) /\ Replied(r, ch, FALSE)
      /\ UNCHANGED <<mode, session, guest, google, window>> /\ UNCHANGED storeVars
  BY <1>1 DEF SendReused, clientVars, googleVars
<1>3. c \in ClientIds /\ ch \in Chats
  BY <1>1, <1>2 DEF HistoryInvariant, InRequests, Idle
<1>4. /\ InRequests' /\ requests'[r].chat = ch /\ requests'[r].client = c
      /\ \A x \in Requests : x # r => requests'[x] = requests[x]
  BY <1>1, <1>2, <1>3, ReplySets DEF HistoryInvariant
<1>5. OnAccount(c) => History(ch)
  <2>1. window[c] # Nothing => /\ google[window[c]] \in {"guest", "temporary"}
                              /\ (google[window[c]] = "temporary" => mode = "temporary")
    BY <1>3 DEF HistoryInvariant, WindowsEphemeral
  <2>2. /\ (google[ch] = "guest") <=> (c \in guest)
        /\ google[ch] # "history" => window[c] = ch
    BY <1>2 DEF Continues
  <2>3. CASE google[ch] = "history"
    BY <2>3 DEF History
  <2>4. CASE google[ch] # "history"
    <3>1. window[c] = ch /\ google[ch] \in {"guest", "temporary"}
          /\ (google[ch] = "temporary" => mode = "temporary")
      BY <1>2, <2>1, <2>2, <2>4
    <3> QED BY <2>2, <3>1 DEF OnAccount
  <2> QED BY <2>3, <2>4
<1>6. RepliedOfHistory'
  BY <1>2, <1>3, <1>4, <1>5 DEF HistoryInvariant, RepliedOfHistory, OnAccount, History
<1> QED BY <1>2, <1>4, <1>6, ClientsStay, StoredStays DEF HistoryInvariant

LEMMA PcSet ==
  ASSUME NEW p, NEW t, NEW c, NEW k, NEW h, NEW s, NEW l, NEW e,
         e = [pc |-> p, thread |-> t, client |-> c, key |-> k, chat |-> h, scope |-> s, lost |-> l]
  PROVE  [e EXCEPT !.pc = "replay"]
           = [pc |-> "replay", thread |-> t, client |-> c, key |-> k, chat |-> h, scope |-> s, lost |-> l]
OBVIOUS

LEMMA ClientSet ==
  ASSUME NEW p, NEW t, NEW c, NEW k, NEW h, NEW s, NEW l, NEW e,
         e = [pc |-> p, thread |-> t, client |-> c, key |-> k, chat |-> h, scope |-> s, lost |-> l],
         NEW d
  PROVE  [e EXCEPT !.client = d]
           = [pc |-> p, thread |-> t, client |-> d, key |-> k, chat |-> h, scope |-> s, lost |-> l]
OBVIOUS

LEMMA RejectedKeeps ==
  ASSUME HistoryInvariant, NEW r \in Requests, SendRejected(r) \/ Replays(r) \/ Abandon(r)
  PROVE  HistoryInvariant'
<1>1. UNCHANGED <<mode, session, guest, google, window>>
  BY DEF SendRejected, Replays, Abandon, clientVars, googleVars
<1>2. InStore' /\ StoredOfHistory' /\ QueuedOfHistory'
  <2>1. UNCHANGED storeVars \/ \E k : Evict(k)
    BY DEF SendRejected, Replays, Abandon
  <2> QED BY <1>1, <2>1, ClientsStay, StoredStays DEF HistoryInvariant
<1>3. InRequests' /\ RepliedOfHistory'
  <2>1. CASE Abandon(r)
    BY <1>1, <2>1, RequestStays DEF Abandon
  <2>2. CASE SendRejected(r) \/ Replays(r)
    <3>1. requests[r] # Idle
      BY <2>2 DEF SendRejected, Replays, Idle
    <3>2. PICK p, t, c, k, h, s, l : requests[r] = [pc |-> p, thread |-> t, client |-> c, key |-> k,
                                                   chat |-> h, scope |-> s, lost |-> l]
      BY <3>1 DEF HistoryInvariant, InRequests
    <3>3. c \in ClientIds /\ (h # Nothing => h \in Chats)
      BY <3>1, <3>2 DEF HistoryInvariant, InRequests
    <3>4. CASE SendRejected(r)
      <4>1. requests' = [requests EXCEPT ![r] = [pc |-> "rejected", thread |-> t, client |-> c,
                           key |-> Nothing, chat |-> Nothing, scope |-> s, lost |-> l]]
        BY <3>2, <3>4 DEF SendRejected, HistoryInvariant, InRequests
      <4> QED BY <1>1, <3>3, <4>1, RequestStays
    <3>5. CASE Replays(r)
      <4>1. PICK d \in ClientIds :
              requests' = [requests EXCEPT ![r].pc = "replay", ![r].client = d]
        BY <3>5 DEF Replays
      <4>2. requests' = [requests EXCEPT ![r] = [pc |-> "replay", thread |-> t, client |-> d,
                           key |-> k, chat |-> h, scope |-> s, lost |-> l]]
        <5>1. PICK f : f = [requests EXCEPT ![r].pc = "replay"]
          OBVIOUS
        <5>2. requests' = [f EXCEPT ![r].client = d]
          BY <4>1, <5>1
        <5>3. r \in DOMAIN requests
          BY DEF HistoryInvariant, InRequests
        <5>4. PICK e : e = [pc |-> "replay", thread |-> t, client |-> c,
                            key |-> k, chat |-> h, scope |-> s, lost |-> l]
          OBVIOUS
        <5>5. [requests[r] EXCEPT !.pc = "replay"] = e
          BY <3>2, <5>4, PcSet
        <5>6. f = [requests EXCEPT ![r] = e] /\ f[r] = e
          BY <5>1, <5>3, <5>5
        <5>7. [f[r] EXCEPT !.client = d] = [pc |-> "replay", thread |-> t, client |-> d,
                                           key |-> k, chat |-> h, scope |-> s, lost |-> l]
          BY <5>4, <5>6, ClientSet
        <5>8. requests' = [f EXCEPT ![r] = [pc |-> "replay", thread |-> t, client |-> d,
                                           key |-> k, chat |-> h, scope |-> s, lost |-> l]]
          BY <5>2, <5>7
        <5> QED BY <5>3, <5>6, <5>8
      <4> QED BY <1>1, <3>3, <4>2, RequestStays
    <3> QED BY <2>2, <3>4, <3>5
  <2> QED BY <2>1, <2>2
<1> QED BY <1>1, <1>2, <1>3, ClientsStay DEF HistoryInvariant

\* The turn is stored with the scope of the moment, which is that of the reply.
LEMMA PersistKeeps ==
  ASSUME HistoryInvariant, NEW r \in Requests, Persist(r)
  PROVE  HistoryInvariant'
<1>1. PICK q : q = requests[r]
  OBVIOUS
<1>2. /\ q.pc = "replied" /\ requests' = [requests EXCEPT ![r] = Idle]
      /\ Store(<<q.client, q.thread>>, q.chat, Tag(q.client)) \/ UNCHANGED storeVars
      /\ UNCHANGED <<mode, session, guest, google, window>>
  BY <1>1 DEF Persist, googleVars
<1>3. InRequests' /\ RepliedOfHistory'
  BY <1>2, RequestStays
<1>4. q.client \in ClientIds /\ q.chat \in Chats /\ (OnAccount(q.client) => History(q.chat))
  BY <1>1, <1>2 DEF HistoryInvariant, InRequests, RepliedOfHistory, Idle
<1>5. ChatScope(q.client) = Nothing => OnAccount(q.client)
  <2>1. session[q.client] \in 1 .. MaxSessions
    BY <1>4 DEF HistoryInvariant, AtClients
  <2>2. <<"guest", q.client, session[q.client]>> \in Scopes
        /\ <<"temporary", q.client, session[q.client]>> \in Scopes
    BY <1>4, <2>1, FlowAssumption
  <2> QED BY <2>2, StoreAssumption DEF ChatScope, OnAccount
<1>6. InStore' /\ StoredOfHistory' /\ QueuedOfHistory'
  <2>1. CASE UNCHANGED storeVars
    BY <1>2, <2>1, ClientsStay, StoredStays DEF HistoryInvariant
  <2>2. CASE Store(<<q.client, q.thread>>, q.chat, Tag(q.client))
    <3>1. PICK key, e :
            /\ e = [chat |-> q.chat, scope |-> Tag(q.client)[1], auto |-> Tag(q.client)[2], age |-> 0]
            /\ records' = [records EXCEPT ![key] = e] /\ pending' = pending
      BY <2>2 DEF Store
    <3>2. /\ e = [chat |-> e.chat, scope |-> e.scope, auto |-> e.auto, age |-> e.age]
          /\ e.chat = q.chat /\ e.scope = ChatScope(q.client)
      BY <3>1 DEF Tag
    <3>3. Placed' /\ \A k \in Stored' : records'[k] = e \/ (k \in Stored /\ records'[k] = records[k])
      BY <3>1 DEF HistoryInvariant, InStore, Placed, Stored
    <3>4. InStore' /\ StoredOfHistory'
      BY <1>2, <1>4, <1>5, <3>2, <3>3 DEF HistoryInvariant, InStore, StoredOfHistory, History
    <3> QED BY <1>2, <3>1, <3>4 DEF HistoryInvariant, QueuedOfHistory, History
  <2> QED BY <1>2, <2>1, <2>2
<1> QED BY <1>2, <1>3, <1>6, ClientsStay DEF HistoryInvariant

LEMMA TaskKeeps ==
  ASSUME HistoryInvariant, TaskNext
  PROVE  HistoryInvariant'
<1>1. UNCHANGED <<mode, session, guest, requests, window>>
  BY DEF TaskNext, CleanupPass, DeleteSucceeds, DeleteFails, DeleteRefused, DeleteBegins,
         clientVars, googleVars
<1>2. google' = google \/ DeleteSucceeds
  BY DEF TaskNext, CleanupPass, DeleteFails, DeleteRefused, DeleteBegins, googleVars
<1>3. \A ch \in Chats : History(ch) => History(ch)'
  BY <1>2, HistoryStays DEF HistoryInvariant
<1>4. InStore' /\ StoredOfHistory' /\ QueuedOfHistory'
  <2>1. \/ UNCHANGED storeVars \/ CleanupExpired
        \/ \E ch : RemovePending(ch) \/ RecordFailure(ch)
    BY DEF TaskNext, CleanupPass, DeleteSucceeds, DeleteFails, DeleteRefused, DeleteBegins
  <2> QED BY <1>3, <2>1, StoredStays DEF HistoryInvariant
<1>5. DOMAIN google' = Chats
      /\ \A ch \in Chats : google[ch] \in {"guest", "temporary"} => google'[ch] = google[ch]
  BY <1>2 DEF HistoryInvariant, AtClients, DeleteSucceeds
<1>6. AtClients' /\ WindowsEphemeral'
  BY <1>1, <1>5 DEF HistoryInvariant, AtClients, WindowsEphemeral
<1>7. InRequests' /\ RepliedOfHistory'
  BY <1>1, <1>3 DEF HistoryInvariant, InRequests, RepliedOfHistory, OnAccount
<1> QED BY <1>4, <1>6, <1>7 DEF HistoryInvariant

\* A session or a status changes only between requests that were answered.
LEMMA SessionKeeps ==
  ASSUME Settled, HistoryInvariant, NEW c \in ClientIds, Reinit(c) \/ StatusChanges(c)
  PROVE  HistoryInvariant'
<1>1. /\ MayChange(c) /\ UNCHANGED <<mode, requests, google>> /\ UNCHANGED storeVars
      /\ guest' \in {guest \cup {c}, guest \ {c}}
      /\ session' = session \/ (session[c] < MaxSessions /\ session' = [session EXCEPT ![c] = @ + 1])
      /\ window' = window \/ window' = [window EXCEPT ![c] = Nothing]
  BY DEF Reinit, StatusChanges, clientVars, taskVars, googleVars
<1>2. \A ch \in Chats : History(ch) => History(ch)'
  BY <1>1 DEF History
<1>3. InStore' /\ StoredOfHistory' /\ QueuedOfHistory'
  BY <1>1, <1>2, StoredStays DEF HistoryInvariant
<1>4. \A r \in Requests : requests[r].pc = "replied" => requests[r].client # c
  BY <1>1 DEF MayChange, InFlight, Idle
<1>5. \A d \in ClientIds : d # c => OnAccount(d)' = OnAccount(d)
  BY <1>1 DEF OnAccount
<1>6. InRequests' /\ RepliedOfHistory'
  <2>1. InRequests'
    BY <1>1 DEF HistoryInvariant, InRequests
  <2>2. \A r \in Requests : requests[r].pc = "replied" => requests[r].client \in ClientIds
    BY DEF HistoryInvariant, InRequests, Idle
  <2> QED BY <1>1, <1>2, <1>4, <1>5, <2>1, <2>2 DEF HistoryInvariant, RepliedOfHistory
<1>7. session' \in [ClientIds -> 1 .. MaxSessions]
  <2>1. CASE session' = session
    BY <2>1 DEF HistoryInvariant, AtClients
  <2>2. CASE session[c] < MaxSessions /\ session' = [session EXCEPT ![c] = @ + 1]
    <3>1. session[c] + 1 \in 1 .. MaxSessions
      BY <2>2, FlowAssumption DEF HistoryInvariant, AtClients
    <3> QED BY <2>2, <3>1 DEF HistoryInvariant, AtClients
  <2> QED BY <1>1, <2>1, <2>2
<1>8. AtClients' /\ WindowsEphemeral'
  BY <1>1, <1>7 DEF HistoryInvariant, AtClients, WindowsEphemeral
<1> QED BY <1>3, <1>6, <1>8 DEF HistoryInvariant

LEMMA OwnerKeeps ==
  ASSUME HistoryInvariant, NEW x \in Chats, OwnerDeletes(x)
  PROVE  HistoryInvariant'
<1>1. UNCHANGED <<mode, session, guest, requests, window>> /\ UNCHANGED storeVars
  BY DEF OwnerDeletes, clientVars
<1>2. \A ch \in Chats : History(ch) => History(ch)'
  BY HistoryStays DEF HistoryInvariant
<1>3. InStore' /\ StoredOfHistory' /\ QueuedOfHistory'
  BY <1>1, <1>2, StoredStays DEF HistoryInvariant
<1>4. DOMAIN google' = Chats
      /\ \A ch \in Chats : google[ch] \in {"guest", "temporary"} => google'[ch] = google[ch]
  BY DEF HistoryInvariant, AtClients, OwnerDeletes
<1>5. AtClients' /\ WindowsEphemeral'
  BY <1>1, <1>4 DEF HistoryInvariant, AtClients, WindowsEphemeral
<1>6. InRequests' /\ RepliedOfHistory'
  BY <1>1, <1>2 DEF HistoryInvariant, InRequests, RepliedOfHistory, OnAccount
<1> QED BY <1>3, <1>5, <1>6 DEF HistoryInvariant

LEMMA RestartKeeps ==
  ASSUME HistoryInvariant, Restart
  PROVE  HistoryInvariant'
<1>1. google' = google /\ UNCHANGED storeVars
  BY DEF Restart
<1>2. InStore' /\ StoredOfHistory' /\ QueuedOfHistory'
  BY <1>1, StoredStays DEF HistoryInvariant, History
<1>3. session' \in [ClientIds -> 1 .. MaxSessions]
  <2>1. \A c \in ClientIds : session[c] + 1 \in 1 .. MaxSessions
    BY FlowAssumption DEF Restart, HistoryInvariant, AtClients
  <2> QED BY <2>1 DEF Restart
<1>4. AtClients' /\ WindowsEphemeral'
  BY <1>1, <1>3 DEF Restart, HistoryInvariant, AtClients, WindowsEphemeral
<1>5. InRequests' /\ RepliedOfHistory'
  BY DEF Restart, InRequests, RepliedOfHistory, Idle
<1> QED BY <1>2, <1>4, <1>5 DEF HistoryInvariant

LEMMA HistoryKeeps == ASSUME Settled, HistoryInvariant, [FlowNext]_allVars PROVE HistoryInvariant'
<1>1. ASSUME NEW r \in Requests, RequestNext(r)
      PROVE  HistoryInvariant'
  BY <1>1, PrepareKeeps, SendFreshKeeps, SendReusedKeeps, RejectedKeeps, PersistKeeps
     DEF RequestNext
<1>2. CASE TaskNext
  BY <1>2, TaskKeeps
<1>3. CASE (\E c \in ClientIds : Reinit(c) \/ StatusChanges(c)) \/ (\E ch \in Chats : OwnerDeletes(ch))
            \/ Restart
  BY <1>3, SessionKeeps, OwnerKeeps, RestartKeeps
<1>4. CASE UNCHANGED allVars \/ (Tick /\ UNCHANGED flowVars)
  <2>1. UNCHANGED <<mode, session, guest, requests, google, window>>
        /\ (UNCHANGED storeVars \/ Tick)
    BY <1>4 DEF allVars, flowVars, clientVars, googleVars
  <2>2. InStore' /\ StoredOfHistory' /\ QueuedOfHistory' /\ AtClients' /\ WindowsEphemeral'
    BY <2>1, ClientsStay, StoredStays DEF HistoryInvariant
  <2>3. InRequests' /\ RepliedOfHistory'
    BY <2>1 DEF HistoryInvariant, InRequests, RepliedOfHistory, OnAccount, History
  <2> QED BY <2>2, <2>3 DEF HistoryInvariant
<1> QED BY <1>1, <1>2, <1>3, <1>4 DEF FlowNext

\* While no session comes or goes between a reply and its storing, the chats queued
\* for deletion are chats of the account's history, never the open window of a guest
\* or of temporary mode: the scope a turn is stored with is that of its chat.
THEOREM StagedChatsAreOfHistory == Settled => (FlowSpec => []StagedAreOfHistory)
<1> SUFFICES ASSUME Settled PROVE FlowSpec => []StagedAreOfHistory
  OBVIOUS
<1>1. HistoryInvariant /\ [FlowNext]_allVars => HistoryInvariant'
  BY HistoryKeeps
<1>2. HistoryInvariant => StagedAreOfHistory
  BY DEF HistoryInvariant, QueuedOfHistory, StagedAreOfHistory, History
<1> QED BY <1>1, <1>2, HistoryInit, PTL DEF FlowSpec

-----------------------------------------------------------------------------
(* Types of the flow.                                                      *)

Request ==
  [pc : {"found", "rejected", "replay", "replied"}, thread : Threads, client : ClientIds,
   key : Keys \cup {Nothing}, chat : Chats \cup {Nothing}, scope : Scopes \cup {Nothing},
   lost : BOOLEAN]

Fates == {"unopened", "history", "deleted", "temporary", "guest"}

RequestsTyped ==
  /\ requests \in [Requests -> Request \cup {Idle}]
  /\ \A r \in Requests : requests[r].pc = "replied" => requests[r].chat \in Chats

ClientsTyped ==
  /\ mode \in Modes /\ guest \subseteq ClientIds
  /\ session \in [ClientIds -> 1 .. MaxSessions]
  /\ latest \in [ClientIds -> Chats \cup {Nothing}]
  /\ window \in [ClientIds -> Chats \cup {Nothing}]

TaskTyped ==
  /\ deleting \in Chats \cup {Nothing} /\ toDelete \subseteq Chats
  /\ google \in [Chats -> Fates]

FlowTypes == StoreInv /\ RequestsTyped /\ ClientsTyped /\ TaskTyped

LEMMA FlowInitTyped == FlowInit => FlowTypes
<1> SUFFICES ASSUME FlowInit PROVE FlowTypes
  OBVIOUS
<1>1. StoreInv
  BY StoreInit DEF FlowInit
<1>2. RequestsTyped
  BY DEF FlowInit, RequestsTyped, Idle
<1>3. ClientsTyped /\ TaskTyped
  BY FlowAssumption DEF FlowInit, ClientsTyped, TaskTyped, Fates
<1> QED
  BY <1>1, <1>2, <1>3 DEF FlowTypes

LEMMA ScopeTyped ==
  ASSUME ClientsTyped, NEW c \in ClientIds
  PROVE  ChatScope(c) \in Scopes \cup {Nothing}
<1>1. session[c] \in 1 .. MaxSessions
  BY DEF ClientsTyped
<1>2. <<"guest", c, session[c]>> \in Scopes /\ <<"temporary", c, session[c]>> \in Scopes
  BY <1>1, FlowAssumption
<1> QED
  BY <1>2 DEF ChatScope

LEMMA TagTyped ==
  ASSUME ClientsTyped, NEW c \in ClientIds
  PROVE  Tag(c) \in (Scopes \cup {Nothing}) \X BOOLEAN
<1>1. (mode = "auto_delete") \in BOOLEAN
  OBVIOUS
<1> QED
  BY <1>1, ScopeTyped DEF Tag

LEMMA RequestOf ==
  ASSUME NEW p \in {"found", "rejected", "replay", "replied"}, NEW t \in Threads,
         NEW c \in ClientIds, NEW k \in Keys \cup {Nothing}, NEW h \in Chats \cup {Nothing},
         NEW s \in Scopes \cup {Nothing}, NEW l \in BOOLEAN
  PROVE  [pc |-> p, thread |-> t, client |-> c, key |-> k, chat |-> h, scope |-> s, lost |-> l]
           \in Request
  BY DEF Request

LEMMA Parts ==
  ASSUME NEW q \in Request
  PROVE  /\ q = [pc |-> q.pc, thread |-> q.thread, client |-> q.client, key |-> q.key,
                 chat |-> q.chat, scope |-> q.scope, lost |-> q.lost]
         /\ q.pc \in {"found", "rejected", "replay", "replied"} /\ q.thread \in Threads
         /\ q.client \in ClientIds /\ q.key \in Keys \cup {Nothing}
         /\ q.chat \in Chats \cup {Nothing} /\ q.scope \in Scopes \cup {Nothing}
         /\ q.lost \in BOOLEAN
  BY DEF Request

\* A request that is at some point is not idle.
LEMMA Awake ==
  ASSUME RequestsTyped, NEW r \in Requests
  PROVE  /\ requests[r] # Idle => requests[r] \in Request
         /\ requests[r].pc \in {"found", "rejected", "replay", "replied"} => requests[r] # Idle
  BY DEF RequestsTyped, Idle

-----------------------------------------------------------------------------
(* What each step of a request puts in its record. *)

\* r's record becomes q, the others stay.
Becomes(r, q) == requests' = [requests EXCEPT ![r] = q]

LEMMA BecomesTyped ==
  ASSUME RequestsTyped, NEW r \in Requests, NEW q \in Request \cup {Idle}, Becomes(r, q),
         q.pc = "replied" => q.chat \in Chats
  PROVE  /\ RequestsTyped'
         /\ requests'[r] = q /\ \A p \in Requests : p # r => requests'[p] = requests[p]
<1> USE DEF RequestsTyped, Becomes
<1>1. /\ requests' \in [Requests -> Request \cup {Idle}] /\ requests'[r] = q
      /\ \A p \in Requests : p # r => requests'[p] = requests[p]
  OBVIOUS
<1> QED
  BY <1>1

FoundAs(r, q) ==
  /\ Becomes(r, q) /\ q \in Request
  /\ q.pc = "found" /\ Ready(q.client) /\ q.scope = ChatScope(q.client) /\ q.lost = FALSE
  /\ q.chat # Nothing =>
       \E k \in Current :
         /\ k[1] = q.client /\ IsReusable(k, q.client) /\ q.chat = records[k].chat

LEMMA Found ==
  ASSUME FlowTypes, NEW r \in Requests, Prepare(r)
  PROVE  \E q : FoundAs(r, q)
<1>1. PICK t \in Threads : Reuses(r, t) \/ \E c \in ClientIds : OpensFresh(r, t, c)
  BY DEF Prepare
<1>2. CASE Reuses(r, t)
  <2>0. PICK k \in Current :
          /\ Ready(k[1]) /\ IsReusable(k, k[1])
          /\ requests' = [requests EXCEPT ![r] =
               [pc |-> "found", thread |-> t, client |-> k[1], key |-> k,
                chat |-> records[k].chat, scope |-> ChatScope(k[1]), lost |-> FALSE]]
    BY <1>2 DEF Reuses
  <2>1. PICK q :
          /\ requests' = [requests EXCEPT ![r] = q]
          /\ q = [pc |-> "found", thread |-> t, client |-> k[1], key |-> k,
                  chat |-> records[k].chat, scope |-> ChatScope(k[1]), lost |-> FALSE]
    BY <2>0
  <2>2. k \in Keys /\ k[1] \in ClientIds /\ records[k] \in Record
    BY DEF Current, Keys, FlowTypes, StoreInv, TypeOK
  <2>3. records[k].chat \in Chats /\ ChatScope(k[1]) \in Scopes \cup {Nothing}
    BY <2>2, ScopeTyped DEF Record, FlowTypes
  <2>4. q \in Request
    BY <2>1, <2>2, <2>3, RequestOf
  <2>5. /\ q.pc = "found" /\ q.client = k[1] /\ q.scope = ChatScope(k[1]) /\ q.lost = FALSE
        /\ q.chat = records[k].chat
    BY <2>1
  <2> QED
    BY <2>0, <2>1, <2>4, <2>5 DEF FoundAs, Becomes
<1>3. ASSUME NEW c \in ClientIds, OpensFresh(r, t, c)
      PROVE  \E q : FoundAs(r, q)
  <2>1. PICK q :
          /\ Ready(c) /\ requests' = [requests EXCEPT ![r] = q]
          /\ q = [pc |-> "found", thread |-> t, client |-> c, key |-> Nothing,
                  chat |-> Nothing, scope |-> ChatScope(c), lost |-> FALSE]
    BY <1>3 DEF OpensFresh
  <2>2. q \in Request
    BY <2>1, ScopeTyped, RequestOf DEF FlowTypes
  <2>3. q.pc = "found" /\ q.client = c /\ q.scope = ChatScope(c) /\ q.lost = FALSE /\ q.chat = Nothing
    BY <2>1
  <2> QED
    BY <2>1, <2>2, <2>3 DEF FoundAs, Becomes
<1> QED
  BY <1>1, <1>2, <1>3

RepliedAs(r, q, chat) ==
  /\ Becomes(r, q) /\ q \in Request
  /\ q.pc = "replied" /\ q.client = requests[r].client /\ q.chat = chat

LEMMA Answered ==
  ASSUME FlowTypes, NEW r \in Requests, requests[r].pc \in {"found", "replay"},
         NEW chat \in Chats, NEW lost \in BOOLEAN, Replied(r, chat, lost)
  PROVE  \E q : /\ RepliedAs(r, q, chat)
                /\ q.lost <=> lost /\ requests[r].scope = ChatScope(requests[r].client)
<1> DEFINE old == requests[r]
<1>1. old \in Request
  BY Awake DEF FlowTypes
<1>2. PICK l : l = (lost /\ old.scope = ChatScope(old.client))
  OBVIOUS
<1>3. l \in BOOLEAN
  BY <1>2, Zenon
<1>4. PICK q : q = [pc |-> "replied", thread |-> old.thread, client |-> old.client,
                    key |-> Nothing, chat |-> chat, scope |-> Nothing, lost |-> l]
  OBVIOUS
<1>5. Becomes(r, q)
  BY <1>2, <1>4 DEF Replied, Becomes, FlowTypes, RequestsTyped
<1>6. q \in Request
  BY <1>1, <1>3, <1>4, Parts, RequestOf
<1>7. q.pc = "replied" /\ q.client = old.client /\ q.chat = chat /\ q.lost = l
  BY <1>4
<1>8. q.lost <=> lost /\ old.scope = ChatScope(old.client)
  BY <1>2, <1>7, Zenon
<1> QED
  BY <1>5, <1>6, <1>7, <1>8 DEF RepliedAs

SetRejected(f, r, x) == [f EXCEPT ![r].pc = "rejected", ![r].chat = x, ![r].key = x]
SetReplay(f, r, d)   == [f EXCEPT ![r].pc = "replay", ![r].client = d]

LEMMA RejectedSet ==
  ASSUME NEW f, NEW r \in DOMAIN f, NEW p, NEW t, NEW c, NEW k, NEW h, NEW s, NEW l,
         f[r] = [pc |-> p, thread |-> t, client |-> c, key |-> k, chat |-> h, scope |-> s, lost |-> l],
         NEW x, NEW q,
         q = [pc |-> "rejected", thread |-> t, client |-> c, key |-> x, chat |-> x, scope |-> s,
              lost |-> l]
  PROVE  SetRejected(f, r, x) = [f EXCEPT ![r] = q]
<1>1. PICK e1 : e1 = [pc |-> "rejected", thread |-> t, client |-> c, key |-> k, chat |-> h,
                      scope |-> s, lost |-> l]
  OBVIOUS
<1>2. PICK e2 : e2 = [pc |-> "rejected", thread |-> t, client |-> c, key |-> k, chat |-> x,
                      scope |-> s, lost |-> l]
  OBVIOUS
<1>4. PICK g1 : g1 = [f EXCEPT ![r].pc = "rejected"]
  OBVIOUS
<1>5. PICK g2 : g2 = [g1 EXCEPT ![r].chat = x]
  OBVIOUS
<1>6. PICK g3 : g3 = [g2 EXCEPT ![r].key = x]
  OBVIOUS
<1>7. [f[r] EXCEPT !.pc = "rejected"] = e1
  BY <1>1
<1>8. g1 = [f EXCEPT ![r] = e1] /\ g1[r] = e1
  BY <1>4, <1>7
<1>9. [e1 EXCEPT !.chat = x] = e2
  BY <1>1, <1>2
<1>10. g2 = [f EXCEPT ![r] = e2] /\ g2[r] = e2
  BY <1>5, <1>8, <1>9
<1>11. [e2 EXCEPT !.key = x] = q
  BY <1>2
<1>12. g3 = [f EXCEPT ![r] = q]
  BY <1>6, <1>10, <1>11
<1> QED
  BY <1>4, <1>5, <1>6, <1>12 DEF SetRejected

LEMMA ReplaySet ==
  ASSUME NEW f, NEW r \in DOMAIN f, NEW p, NEW t, NEW c, NEW k, NEW h, NEW s, NEW l,
         f[r] = [pc |-> p, thread |-> t, client |-> c, key |-> k, chat |-> h, scope |-> s, lost |-> l],
         NEW d, NEW q,
         q = [pc |-> "replay", thread |-> t, client |-> d, key |-> k, chat |-> h, scope |-> s,
              lost |-> l]
  PROVE  SetReplay(f, r, d) = [f EXCEPT ![r] = q]
<1>1. PICK g : g = [f EXCEPT ![r].pc = "replay"]
  OBVIOUS
<1>2. PICK e : e = [pc |-> "replay", thread |-> t, client |-> c, key |-> k, chat |-> h,
                    scope |-> s, lost |-> l]
  OBVIOUS
<1>3. [f[r] EXCEPT !.pc = "replay"] = e
  BY <1>2, PcSet
<1>4. g = [f EXCEPT ![r] = e] /\ g[r] = e
  BY <1>1, <1>3
<1>5. [g[r] EXCEPT !.client = d] = q
  BY <1>2, <1>4, ClientSet
<1>6. [g EXCEPT ![r].client = d] = [g EXCEPT ![r] = q]
  BY <1>5
<1> QED
  BY <1>1, <1>4, <1>6 DEF SetReplay

RejectedAs(r, q) ==
  /\ Becomes(r, q) /\ q \in Request
  /\ q.pc = "rejected" /\ q.lost = requests[r].lost

LEMMA FoundIs ==
  ASSUME FlowTypes, NEW r \in Requests, Prepare(r)
  PROVE  requests'[r].pc = "found" /\ requests'[r].client \in ClientIds
<1>1. PICK q : FoundAs(r, q)
  BY Found
<1>2. RequestsTyped /\ q \in Request /\ q.pc = "found" /\ Becomes(r, q)
  BY <1>1 DEF FoundAs, FlowTypes
<1>3. requests'[r] = q
  BY <1>2, BecomesTyped
<1>4. q.client \in ClientIds
  BY <1>2, Parts
<1> QED
  BY <1>2, <1>3, <1>4

LEMMA RejectedParts ==
  ASSUME FlowTypes, NEW r \in Requests, SendRejected(r)
  PROVE  \E q : RejectedAs(r, q)
<1>1. requests[r] \in Request /\ r \in DOMAIN requests
  BY Awake DEF FlowTypes, SendRejected, RequestsTyped
<1>2. PICK p, t, c, k, h, s, l :
        /\ requests[r] = [pc |-> p, thread |-> t, client |-> c, key |-> k, chat |-> h,
                          scope |-> s, lost |-> l]
        /\ t \in Threads /\ c \in ClientIds /\ s \in Scopes \cup {Nothing} /\ l \in BOOLEAN
  BY <1>1, Parts
<1>3. PICK q : q = [pc |-> "rejected", thread |-> t, client |-> c, key |-> Nothing,
                    chat |-> Nothing, scope |-> s, lost |-> l]
  OBVIOUS
<1>4. requests' = [requests EXCEPT ![r] = q]
  <2>1. SetRejected(requests, r, Nothing) = [requests EXCEPT ![r] = q]
    BY <1>1, <1>2, <1>3, RejectedSet
  <2> QED
    BY <2>1 DEF SendRejected, SetRejected
<1>5. q \in Request
  BY <1>2, <1>3, RequestOf
<1>6. q.pc = "rejected" /\ q.lost = requests[r].lost
  BY <1>2, <1>3
<1> QED
  BY <1>4, <1>5, <1>6 DEF RejectedAs, Becomes

ReplayedAs(r, q) ==
  /\ Becomes(r, q) /\ q \in Request
  /\ q.pc = "replay" /\ q.lost = requests[r].lost

LEMMA ReplayedParts ==
  ASSUME FlowTypes, NEW r \in Requests, Replays(r)
  PROVE  \E q : ReplayedAs(r, q)
<1>1. requests[r] \in Request /\ r \in DOMAIN requests
  BY Awake DEF FlowTypes, Replays, RequestsTyped
<1>2. PICK p, t, c, k, h, s, l :
        /\ requests[r] = [pc |-> p, thread |-> t, client |-> c, key |-> k, chat |-> h,
                          scope |-> s, lost |-> l]
        /\ t \in Threads /\ k \in Keys \cup {Nothing} /\ h \in Chats \cup {Nothing}
        /\ s \in Scopes \cup {Nothing} /\ l \in BOOLEAN
  BY <1>1, Parts
<1>3. PICK d \in ClientIds : requests' = [requests EXCEPT ![r].pc = "replay", ![r].client = d]
  BY DEF Replays
<1>4. PICK q : q = [pc |-> "replay", thread |-> t, client |-> d, key |-> k, chat |-> h,
                    scope |-> s, lost |-> l]
  OBVIOUS
<1>5. requests' = [requests EXCEPT ![r] = q]
  <2>1. SetReplay(requests, r, d) = [requests EXCEPT ![r] = q]
    BY <1>1, <1>2, <1>4, ReplaySet
  <2> QED
    BY <1>3, <2>1 DEF SetReplay
<1>6. q \in Request
  BY <1>2, <1>4, RequestOf
<1>7. q.pc = "replay" /\ q.lost = requests[r].lost
  BY <1>2, <1>4
<1> QED
  BY <1>5, <1>6, <1>7 DEF ReplayedAs, Becomes

LEMMA RequestKeepsTypes ==
  ASSUME FlowTypes, NEW r \in Requests, RequestNext(r)
  PROVE  RequestsTyped'
<1>0. RequestsTyped
  BY DEF FlowTypes
<1>1. CASE Prepare(r)
  <2>1. PICK q : FoundAs(r, q)
    BY <1>1, Found
  <2> QED
    BY <1>0, <2>1, BecomesTyped DEF FoundAs
<1>2. CASE SendFresh(r) \/ SendReused(r) \/ SendLost(r)
  <2>1. requests[r].pc \in {"found", "replay"}
    BY <1>2 DEF SendFresh, SendReused, SendLost
  <2>2. requests[r].chat \in Chats \cup {Nothing}
    BY <1>0, <2>1, Awake, Parts
  <2>3. PICK chat \in Chats, lost \in BOOLEAN : Replied(r, chat, lost)
    <3>1. CASE SendFresh(r)
      BY <3>1 DEF SendFresh
    <3>2. CASE SendReused(r)
      BY <2>2, <3>2 DEF SendReused
    <3>3. CASE SendLost(r)
      BY <3>3 DEF SendLost
    <3> QED
      BY <1>2, <3>1, <3>2, <3>3
  <2>4. PICK q : RepliedAs(r, q, chat)
    BY <2>1, <2>3, Answered
  <2> QED
    BY <1>0, <2>4, BecomesTyped DEF RepliedAs
<1>3. CASE SendRejected(r)
  <2>1. PICK q : RejectedAs(r, q)
    BY <1>3, RejectedParts
  <2> QED
    BY <1>0, <2>1, BecomesTyped DEF RejectedAs
<1>4. CASE Replays(r)
  <2>1. PICK q : ReplayedAs(r, q)
    BY <1>4, ReplayedParts
  <2> QED
    BY <1>0, <2>1, BecomesTyped DEF ReplayedAs
<1>5. CASE Abandon(r) \/ Persist(r)
  <2>1. Becomes(r, Idle) /\ Idle.pc # "replied"
    BY <1>5 DEF Abandon, Persist, Becomes, Idle
  <2> QED
    BY <1>0, <2>1, BecomesTyped
<1> QED
  BY <1>1, <1>2, <1>3, <1>4, <1>5 DEF RequestNext

\* A step of a request is one to its own record.
LEMMA RequestBecomes ==
  ASSUME FlowTypes, NEW r \in Requests, RequestNext(r)
  PROVE  \E q : Becomes(r, q)
<1>1. CASE Prepare(r)
  BY <1>1, Found DEF FoundAs
<1>2. CASE SendFresh(r) \/ SendReused(r) \/ SendLost(r)
  BY <1>2 DEF SendFresh, SendReused, SendLost, Replied, Becomes
<1>3. CASE SendRejected(r)
  BY <1>3, RejectedParts DEF RejectedAs
<1>4. CASE Replays(r)
  BY <1>4, ReplayedParts DEF ReplayedAs
<1>5. CASE Abandon(r) \/ Persist(r)
  BY <1>5 DEF Abandon, Persist, Becomes
<1> QED
  BY <1>1, <1>2, <1>3, <1>4, <1>5 DEF RequestNext

\* A reply: how the chat is answered.
LEMMA SendReplies ==
  ASSUME FlowTypes, NEW r \in Requests, SendFresh(r) \/ SendReused(r) \/ SendLost(r)
  PROVE  \E chat \in Chats, lost \in BOOLEAN :
           /\ Replied(r, chat, lost) /\ requests[r].pc \in {"found", "replay"}
           /\ SendReused(r) => chat = requests[r].chat
           /\ ~ SendReused(r) => Opens(requests[r].client, chat)
           /\ lost => SendLost(r)
<1>1. requests[r].pc \in {"found", "replay"}
  BY DEF SendFresh, SendReused, SendLost
<1>2. requests[r].chat \in Chats \cup {Nothing}
  BY <1>1, Awake, Parts DEF FlowTypes
<1>3. CASE SendReused(r)
  BY <1>1, <1>2, <1>3 DEF SendReused
<1>4. CASE SendFresh(r) /\ ~ SendReused(r)
  BY <1>1, <1>4 DEF SendFresh
<1>5. CASE SendLost(r) /\ ~ SendReused(r)
  BY <1>1, <1>5 DEF SendLost
<1> QED
  BY <1>3, <1>4, <1>5

\* Only Prepare makes a request wait with a chat.
LEMMA RequestLeaves ==
  ASSUME FlowTypes, NEW r \in Requests, RequestNext(r), ~ Prepare(r)
  PROVE  \E q : /\ Becomes(r, q) /\ q \in Request \cup {Idle} /\ q.pc # "found"
                /\ q.pc = "replied" => q.chat \in Chats
<1>1. CASE SendFresh(r) \/ SendReused(r) \/ SendLost(r)
  <2>1. PICK chat \in Chats, lost \in BOOLEAN :
          Replied(r, chat, lost) /\ requests[r].pc \in {"found", "replay"}
    BY <1>1, SendReplies
  <2>2. PICK q : RepliedAs(r, q, chat)
    BY <2>1, Answered
  <2> QED
    BY <2>2 DEF RepliedAs
<1>2. CASE SendRejected(r)
  BY <1>2, RejectedParts DEF RejectedAs
<1>3. CASE Replays(r)
  BY <1>3, ReplayedParts DEF ReplayedAs
<1>4. CASE Abandon(r) \/ Persist(r)
  BY <1>4 DEF Abandon, Persist, Becomes, Idle
<1> QED
  BY <1>1, <1>2, <1>3, <1>4 DEF RequestNext

-----------------------------------------------------------------------------
(* What each step does to the store. *)

LEMMA PersistStores ==
  ASSUME FlowTypes, NEW r \in Requests, Persist(r)
  PROVE  /\ requests[r].client \in ClientIds /\ requests[r].chat \in Chats
         /\ \/ UNCHANGED storeVars
            \/ \E k \in Keys : Store(k, requests[r].chat, Tag(requests[r].client))
<1>1. requests[r].pc = "replied" /\ requests[r] \in Request /\ requests[r].chat \in Chats
  BY Awake DEF FlowTypes, RequestsTyped, Persist
<1>2. <<requests[r].client, requests[r].thread>> \in Keys /\ requests[r].client \in ClientIds
  BY <1>1, Parts DEF Keys
<1> QED
  BY <1>1, <1>2 DEF Persist

\* Every step of the flow is one of these to the store.
LEMMA FlowStores ==
  ASSUME FlowTypes, [FlowNext]_allVars
  PROVE  \/ \E r \in Requests : Persist(r)
         \/ Aside \/ Tick
         \/ \E gone : Removes(gone)
<1>1. ASSUME NEW r \in Requests, SendRejected(r)
      PROVE  UNCHANGED storeVars \/ \E gone : Removes(gone)
  <2>1. CASE UNCHANGED storeVars
    BY <2>1
  <2>2. CASE Evict(requests[r].key)
    BY <2>2 DEF Removes
  <2> QED
    BY <1>1, <2>1, <2>2 DEF SendRejected
<1>2. ASSUME NEW r \in Requests, RequestNext(r)
      PROVE  Persist(r) \/ UNCHANGED storeVars \/ \E gone : Removes(gone)
  BY <1>1, <1>2 DEF RequestNext, Prepare, SendFresh, SendReused, SendLost, Replays, Abandon
<1>3. CASE TaskNext
  <2>1. deleting # Nothing => deleting \in Chats
    BY DEF FlowTypes, TaskTyped
  <2> QED
    BY <1>3, <2>1 DEF TaskNext, CleanupPass, DeleteSucceeds, DeleteFails, DeleteRefused,
                      DeleteBegins, Aside, Removes
<1>4. CASE \/ \E c \in ClientIds : Reinit(c) \/ StatusChanges(c)
           \/ \E ch \in Chats : OwnerDeletes(ch)
           \/ Restart
  BY <1>4 DEF Reinit, StatusChanges, OwnerDeletes, Restart, Aside
<1>5. CASE UNCHANGED allVars \/ (Tick /\ UNCHANGED flowVars)
  BY <1>5 DEF allVars, Aside
<1> QED
  BY <1>2, <1>3, <1>4, <1>5 DEF FlowNext, Aside

LEMMA FlowKeepsStore == ASSUME FlowTypes, [FlowNext]_allVars PROVE StoreInv'
<1>1. ASSUME NEW r \in Requests, Persist(r)
      PROVE  StoreInv'
  <2>1. CASE UNCHANGED storeVars
    BY <2>1, AsideStays DEF FlowTypes, Aside
  <2>2. ASSUME NEW k \in Keys, Store(k, requests[r].chat, Tag(requests[r].client))
        PROVE  StoreInv'
    BY <1>1, <2>2, PersistStores, TagTyped, StoreKeeps DEF FlowTypes
  <2> QED
    BY <1>1, <2>1, <2>2, PersistStores
<1> QED
  BY <1>1, FlowStores, AsideStays, TickKeeps, RemovesKeeps DEF FlowTypes

-----------------------------------------------------------------------------
(* What each step does to the clients, to Google and to the requests. *)

LEMMA KindTyped == \A c : ChatKind(c) \in Fates \ {"unopened", "deleted"}
  BY DEF ChatKind, Fates

\* A request opens a chat: Google has it and the client's window is it or closed.
OpensWindow(r) ==
  \E ch \in Chats, lost \in BOOLEAN :
    /\ Opens(requests[r].client, ch) /\ Replied(r, ch, lost)
    /\ requests[r].pc \in {"found", "replay"} /\ requests[r].client \in ClientIds

LEMMA SendsOpen ==
  ASSUME FlowTypes, NEW r \in Requests, SendFresh(r) \/ SendLost(r)
  PROVE  OpensWindow(r)
<1>1. requests[r].pc \in {"found", "replay"}
  BY DEF SendFresh, SendLost
<1>2. requests[r].client \in ClientIds
  BY <1>1, Awake, Parts DEF FlowTypes
<1>3. PICK ch \in Chats, lost \in BOOLEAN : Opens(requests[r].client, ch) /\ Replied(r, ch, lost)
  BY DEF SendFresh, SendLost
<1> QED
  BY <1>1, <1>2, <1>3 DEF OpensWindow

\* Google's side and the clients', step by step.
LEMMA FlowMoves ==
  ASSUME FlowTypes, [FlowNext]_allVars
  PROVE  \/ /\ UNCHANGED <<mode, session, guest, latest, window, google>>
         \/ /\ \E r \in Requests : OpensWindow(r)
            /\ UNCHANGED <<mode, session, guest, latest>>
         \/ \E r \in Requests :
              /\ Persist(r) /\ UNCHANGED <<mode, session, guest, google, window>>
         \/ DeleteSucceeds /\ UNCHANGED <<mode, session, guest, requests, window>>
         \/ \E c \in ClientIds : Reinit(c) \/ StatusChanges(c)
         \/ \E ch \in Chats : OwnerDeletes(ch)
         \/ Restart
<1>1. ASSUME NEW r \in Requests, SendFresh(r) \/ SendLost(r)
      PROVE  OpensWindow(r) /\ UNCHANGED <<mode, session, guest, latest>>
  BY <1>1, SendsOpen DEF SendFresh, SendLost, clientVars
<1>2. ASSUME NEW r \in Requests, Prepare(r) \/ SendReused(r) \/ SendRejected(r) \/ Replays(r) \/ Abandon(r)
      PROVE  UNCHANGED <<mode, session, guest, latest, window, google>>
  BY <1>2 DEF Prepare, SendReused, SendRejected, Replays, Abandon, clientVars, googleVars
<1>3. ASSUME NEW r \in Requests, Persist(r)
      PROVE  UNCHANGED <<mode, session, guest, google, window>>
  BY <1>3 DEF Persist, googleVars
<1>4. CASE TaskNext
  BY <1>4 DEF TaskNext, CleanupPass, DeleteSucceeds, DeleteFails, DeleteRefused, DeleteBegins,
              clientVars, googleVars
<1>5. CASE UNCHANGED allVars \/ (Tick /\ UNCHANGED flowVars)
  BY <1>5 DEF allVars, flowVars, clientVars, googleVars
<1> QED
  BY <1>1, <1>2, <1>3, <1>4, <1>5 DEF FlowNext, RequestNext

LEMMA FlowKeepsRequests == ASSUME FlowTypes, [FlowNext]_allVars PROVE RequestsTyped'
<1>1. ASSUME NEW r \in Requests, RequestNext(r)
      PROVE  RequestsTyped'
  BY <1>1, RequestKeepsTypes
<1>2. ASSUME requests' = requests
      PROVE  RequestsTyped'
  BY <1>2 DEF FlowTypes, RequestsTyped
<1>3. CASE Restart
  BY <1>3 DEF Restart, RequestsTyped, Idle
<1>4. CASE TaskNext
  BY <1>2, <1>4 DEF TaskNext, CleanupPass, DeleteSucceeds, DeleteFails, DeleteRefused, DeleteBegins
<1>5. CASE (\E c \in ClientIds : Reinit(c) \/ StatusChanges(c)) \/ (\E ch \in Chats : OwnerDeletes(ch))
  BY <1>2, <1>5 DEF Reinit, StatusChanges, OwnerDeletes
<1>6. CASE UNCHANGED allVars \/ (Tick /\ UNCHANGED flowVars)
  BY <1>2, <1>6 DEF allVars, flowVars
<1> QED
  BY <1>1, <1>3, <1>4, <1>5, <1>6 DEF FlowNext

LEMMA FlowKeepsClients ==
  ASSUME FlowTypes, [FlowNext]_allVars
  PROVE  ClientsTyped' /\ google' \in [Chats -> Fates]
<1> USE DEF ClientsTyped, TaskTyped
<1>0. ClientsTyped /\ TaskTyped
  BY DEF FlowTypes
<1>1. CASE UNCHANGED <<mode, session, guest, latest, window, google>>
  BY <1>0, <1>1
<1>2. ASSUME NEW r \in Requests, OpensWindow(r), UNCHANGED <<mode, session, guest, latest>>
      PROVE  ClientsTyped' /\ google' \in [Chats -> Fates]
  <2>1. PICK ch \in Chats, c \in ClientIds : Opens(c, ch)
    BY <1>2 DEF OpensWindow
  <2>2. google' \in [Chats -> Fates] /\ window' \in [ClientIds -> Chats \cup {Nothing}]
    BY <1>0, <2>1, KindTyped DEF Opens
  <2> QED
    BY <1>0, <1>2, <2>2
<1>3. ASSUME NEW r \in Requests, Persist(r), UNCHANGED <<mode, session, guest, google, window>>
      PROVE  ClientsTyped' /\ google' \in [Chats -> Fates]
  <2>1. latest' = [latest EXCEPT ![requests[r].client] = requests[r].chat]
    BY <1>3 DEF Persist
  <2>2. latest' \in [ClientIds -> Chats \cup {Nothing}]
    BY <1>0, <1>3, <2>1, PersistStores
  <2> QED
    BY <1>0, <1>3, <2>2
<1>4. CASE DeleteSucceeds /\ UNCHANGED <<mode, session, guest, requests, window>>
  <2>1. google' \in [Chats -> Fates] /\ latest' \in [ClientIds -> Chats \cup {Nothing}]
    BY <1>0, <1>4 DEF DeleteSucceeds, Fates
  <2> QED
    BY <1>0, <1>4, <2>1
<1>5. ASSUME NEW c \in ClientIds, Reinit(c)
      PROVE  ClientsTyped' /\ google' \in [Chats -> Fates]
  <2>1. session[c] + 1 \in 1 .. MaxSessions
    BY <1>0, <1>5, FlowAssumption DEF Reinit
  <2>2. session' \in [ClientIds -> 1 .. MaxSessions]
    BY <1>0, <1>5, <2>1 DEF Reinit
  <2> QED
    BY <1>0, <1>5, <2>2 DEF Reinit
<1>6. ASSUME NEW c \in ClientIds, StatusChanges(c)
      PROVE  ClientsTyped' /\ google' \in [Chats -> Fates]
  BY <1>0, <1>6 DEF StatusChanges, googleVars
<1>7. ASSUME NEW ch \in Chats, OwnerDeletes(ch)
      PROVE  ClientsTyped' /\ google' \in [Chats -> Fates]
  BY <1>0, <1>7 DEF OwnerDeletes, clientVars, Fates
<1>8. CASE Restart
  <2>1. \A c \in ClientIds : session[c] + 1 \in 1 .. MaxSessions
    BY <1>0, <1>8, FlowAssumption DEF Restart
  <2>2. session' \in [ClientIds -> 1 .. MaxSessions]
    BY <1>8, <2>1 DEF Restart
  <2> QED
    BY <1>0, <1>8, <2>2 DEF Restart
<1> QED
  BY <1>1, <1>2, <1>3, <1>4, <1>5, <1>6, <1>7, <1>8, FlowMoves

LEMMA FlowKeepsTask ==
  ASSUME FlowTypes, [FlowNext]_allVars, StoreInv'
  PROVE  deleting' \in Chats \cup {Nothing} /\ toDelete' \subseteq Chats
<1>0. deleting \in Chats \cup {Nothing} /\ toDelete \subseteq Chats /\ pending' \subseteq Chats
  BY DEF FlowTypes, TaskTyped, StoreInv, TypeOK
<1>1. CASE UNCHANGED taskVars
  BY <1>0, <1>1 DEF taskVars
<1>2. CASE TaskNext
  BY <1>0, <1>2 DEF TaskNext, CleanupPass, DeleteSucceeds, DeleteFails, DeleteRefused,
                    DeleteBegins, Takes
<1>3. CASE Restart
  BY <1>3 DEF Restart
<1>4. CASE \/ \E r \in Requests : RequestNext(r)
           \/ \E c \in ClientIds : Reinit(c) \/ StatusChanges(c)
           \/ \E ch \in Chats : OwnerDeletes(ch)
           \/ UNCHANGED allVars \/ (Tick /\ UNCHANGED flowVars)
  BY <1>1, <1>4 DEF RequestNext, Prepare, SendFresh, SendReused, SendLost, SendRejected, Replays,
                    Abandon, Persist, Reinit, StatusChanges, OwnerDeletes, allVars, flowVars
<1> QED
  BY <1>2, <1>3, <1>4 DEF FlowNext

LEMMA FlowKeepsTypes == FlowTypes /\ [FlowNext]_allVars => FlowTypes'
  BY FlowKeepsStore, FlowKeepsRequests, FlowKeepsClients, FlowKeepsTask DEF FlowTypes, TaskTyped

LEMMA FlowTyped == FlowSpec => []FlowTypes
  BY FlowInitTyped, FlowKeepsTypes, PTL DEF FlowSpec

\* Driven by requests, the retention task, changing sessions and restarts, every
\* variable of the store keeps its type and no deletion is attempted more than
\* max_retries times.
THEOREM FlowKeepsStoreTypes == FlowSpec => []TypeOK
<1>1. FlowTypes => TypeOK
  BY DEF FlowTypes, StoreInv
<1> QED
  BY <1>1, FlowTyped, PTL

-----------------------------------------------------------------------------
(* Where the chats of the stored turns and of the requests are. *)

\* A turn stored as one of the account's has a chat of its history; one stored in
\* temporary mode, a temporary chat.
CurrentPlaced ==
  \A k \in Current :
    /\ records[k].scope = Nothing => History(records[k].chat)
    /\ \A c \in ClientIds, s \in 1 .. MaxSessions :
         records[k].scope = <<"temporary", c, s>> => google[records[k].chat] = "temporary"

\* The chat of request q is the open window of session s, while that lasts.
InWindow(q, s) ==
  /\ mode = "temporary" /\ google[q.chat] = "temporary"
  /\ q.scope = <<"temporary", q.client, s>>
  /\ s = session[q.client] => window[q.client] = q.chat

\* The chat a request found is of the account's history or its session's window.
FoundReachable ==
  \A r \in Requests :
    requests[r].pc = "found" /\ requests[r].chat # Nothing =>
      \/ mode # "temporary" /\ requests[r].scope = Nothing /\ History(requests[r].chat)
      \/ \E s \in 1 .. session[requests[r].client] : InWindow(requests[r], s)

\* A reply of client c waits to be stored.
Busy(c) == \E r \in Requests : requests[r].pc = "replied" /\ requests[r].client = c

\* In temporary mode, where requests of a client do not overlap, its window is the
\* chat of the reply that waits, or else the latest one on record.
OneWindow ==
  mode = "temporary" =>
    /\ \A r \in Requests : requests[r].pc \in {"idle", "found", "replied"}
    /\ \A r, p \in Requests :
         requests[r] # Idle /\ requests[p] # Idle /\ requests[r].client = requests[p].client => r = p
    /\ \A r \in Requests :
         requests[r].pc = "replied" =>
           /\ window[requests[r].client] = requests[r].chat
           /\ requests[r].client \notin guest => google[requests[r].chat] = "temporary"
    /\ \A c \in ClientIds : latest[c] # Nothing /\ ~ Busy(c) => window[c] = latest[c]

ContextInv == CurrentPlaced /\ FoundReachable /\ OneWindow /\ ContextKept

\* If temporary mode can be configured at all, its clients are used one request at a
\* time and store what they answer.
OrderlyTemporary == "temporary" \in Modes => "temporary" \in Orderly

LEMMA ContextInit == FlowInit => ContextInv
<1> SUFFICES ASSUME FlowInit PROVE ContextInv
  OBVIOUS
<1>1. Current = {}
  BY StoreInit DEF FlowInit, StoreInv, Init
<1>2. /\ requests = [r \in Requests |-> Idle] /\ Idle.pc = "idle"
      /\ latest = [c \in ClientIds |-> Nothing]
  BY DEF FlowInit, Idle
<1> QED
  BY <1>1, <1>2 DEF ContextInv, CurrentPlaced, FoundReachable, OneWindow, ContextKept

-----------------------------------------------------------------------------
(* What a step leaves of it. *)

LEMMA ScopesDiffer ==
  ASSUME NEW c, NEW d, NEW s, NEW x
  PROVE  /\ <<"guest", c, x>> # <<"temporary", d, s>>
         /\ <<"temporary", c, x>> = <<"temporary", d, s>> => c = d /\ x = s
<1>1. <<"guest", c, x>>[1] = "guest" /\ <<"temporary", d, s>>[1] = "temporary"
  OBVIOUS
<1> QED
  BY <1>1

\* A session's scope tells its kind, and only the account's own is Nothing.
LEMMA ScopeTells ==
  ASSUME ClientsTyped, NEW c \in ClientIds
  PROVE  /\ ChatScope(c) = Nothing <=> OnAccount(c)
         /\ \A d \in ClientIds, s \in 1 .. MaxSessions :
              ChatScope(c) = <<"temporary", d, s>> =>
                c \notin guest /\ mode = "temporary" /\ s = session[c]
         /\ Ready(c) /\ mode = "temporary" => ChatScope(c) = <<"temporary", c, session[c]>>
<1>1. session[c] \in 1 .. MaxSessions
  BY DEF ClientsTyped
<1>2. PICK g, t : g = <<"guest", c, session[c]>> /\ t = <<"temporary", c, session[c]>>
  OBVIOUS
<1>3. g \in Scopes /\ t \in Scopes
  BY <1>1, <1>2, FlowAssumption
<1>4. g # Nothing /\ t # Nothing
  BY <1>3, StoreAssumption
<1>5. \A d, s : g # <<"temporary", d, s>> /\ (t = <<"temporary", d, s>> => s = session[c])
  BY <1>2, ScopesDiffer
<1>6. ChatScope(c) = IF c \in guest THEN g ELSE IF mode = "temporary" THEN t ELSE Nothing
  BY <1>2 DEF ChatScope
<1>7. ChatScope(c) = Nothing <=> OnAccount(c)
  BY <1>4, <1>6 DEF OnAccount
<1>8. ASSUME NEW d \in ClientIds, NEW s \in 1 .. MaxSessions, ChatScope(c) = <<"temporary", d, s>>
      PROVE  c \notin guest /\ mode = "temporary" /\ s = session[c]
  <2>1. <<"temporary", d, s>> # Nothing
    BY FlowAssumption, StoreAssumption
  <2> QED
    BY <1>5, <1>6, <1>8, <2>1
<1>9. Ready(c) /\ mode = "temporary" => ChatScope(c) = t
  BY <1>6 DEF Ready
<1> QED
  BY <1>2, <1>7, <1>8, <1>9

\* The account's history only grows, and a temporary chat stays one.
LEMMA Grows ==
  ASSUME FlowTypes, [FlowNext]_allVars, NEW ch \in Chats
  PROVE  /\ History(ch) => History(ch)'
         /\ google[ch] = "temporary" => google'[ch] = "temporary"
<1>0. google \in [Chats -> Fates]
  BY DEF FlowTypes, TaskTyped
<1>1. ASSUME google' = google
      PROVE  /\ History(ch) => History(ch)'
             /\ google[ch] = "temporary" => google'[ch] = "temporary"
  BY <1>1 DEF History
<1>2. ASSUME NEW r \in Requests, OpensWindow(r)
      PROVE  /\ History(ch) => History(ch)'
             /\ google[ch] = "temporary" => google'[ch] = "temporary"
  BY <1>0, <1>2 DEF OpensWindow, Opens, Fresh, History
<1>3. CASE DeleteSucceeds \/ \E x \in Chats : OwnerDeletes(x)
  BY <1>0, <1>3 DEF DeleteSucceeds, OwnerDeletes, History
<1> QED
  BY <1>1, <1>2, <1>3, FlowMoves DEF Reinit, StatusChanges, Restart, googleVars

\* Where the records of the next state come from.
LEMMA RecordsFrom ==
  ASSUME FlowTypes, [FlowNext]_allVars, NEW k \in Current'
  PROVE  \/ /\ k \in Current
            /\ records'[k].chat = records[k].chat /\ records'[k].scope = records[k].scope
         \/ \E r \in Requests :
              /\ Persist(r)
              /\ records'[k].chat = requests[r].chat
              /\ records'[k].scope = ChatScope(requests[r].client)
<1>0. /\ StoreInv /\ ClientsTyped /\ DOMAIN records = Keys \cup LegacyKeys
      /\ records \in [Keys \cup LegacyKeys -> Record \cup {Nothing}]
  BY DEF FlowTypes, StoreInv, TypeOK
<1>1. ASSUME UNCHANGED records
      PROVE  k \in Current /\ records'[k] = records[k]
  BY <1>1 DEF Current
<1>2. ASSUME NEW r \in Requests, Persist(r), ~ UNCHANGED records
      PROVE  \/ k \in Current /\ records'[k] = records[k]
             \/ /\ records'[k].chat = requests[r].chat
                /\ records'[k].scope = ChatScope(requests[r].client)
  <2>1. PICK key \in Keys : Store(key, requests[r].chat, Tag(requests[r].client))
    BY <1>2, PersistStores DEF storeVars
  <2>2. PICK e : /\ e = [chat |-> requests[r].chat, scope |-> Tag(requests[r].client)[1],
                         auto |-> Tag(requests[r].client)[2], age |-> 0]
                 /\ records' = [records EXCEPT ![key] = e]
    BY <2>1 DEF Store
  <2>3. e.chat = requests[r].chat /\ e.scope = ChatScope(requests[r].client)
    BY <2>2 DEF Tag
  <2>4. CASE k = key
    BY <1>0, <2>2, <2>3, <2>4
  <2>5. CASE k # key
    BY <1>0, <2>2, <2>5 DEF Current
  <2> QED
    BY <2>4, <2>5
<1>3. ASSUME NEW gone, Removes(gone)
      PROVE  k \in Current /\ records'[k] = records[k]
  <2>1. RemoveRecords(gone)
    BY <1>3 DEF Removes, Evict, CleanupExpired, RotationWrites, Purge, Clear
  <2> QED
    BY <1>0, <2>1 DEF RemoveRecords, Current
<1>4. CASE Tick
  <2>1. k \in Keys /\ k \in Current
    BY <1>0, <1>4, TickKeeps DEF Current
  <2>2. records'[k] = records[k] \/ records'[k] = [records[k] EXCEPT !.age = @ + 1]
    BY <1>0, <1>4, <2>1 DEF Tick
  <2>3. records[k] \in Record
    BY <1>0, <2>1 DEF Current
  <2> QED
    BY <2>1, <2>2, <2>3 DEF Record
<1>5. CASE Aside
  BY <1>1, <1>5 DEF Aside, RemovePending, RecordFailure, Unmark, PruneStaleIndexes, RotationReads,
                    storeVars
<1> QED
  BY <1>1, <1>2, <1>3, <1>4, <1>5, FlowStores
\* Where a request of the next state comes from.
LEMMA RequestsFrom ==
  ASSUME FlowTypes, [FlowNext]_allVars, NEW r \in Requests
  PROVE  \/ requests'[r] = requests[r]
         \/ RequestNext(r)
         \/ Restart /\ requests'[r] = Idle
<1>1. ASSUME NEW p \in Requests, RequestNext(p), p # r
      PROVE  requests'[r] = requests[r]
  <2>1. \E q : Becomes(p, q)
    BY <1>1, RequestBecomes
  <2> QED
    BY <1>1, <2>1 DEF Becomes, FlowTypes, RequestsTyped
<1>2. CASE Restart
  BY <1>2 DEF Restart
<1>3. CASE TaskNext
  BY <1>3 DEF TaskNext, CleanupPass, DeleteSucceeds, DeleteFails, DeleteRefused, DeleteBegins
<1>4. CASE (\E c \in ClientIds : Reinit(c) \/ StatusChanges(c)) \/ (\E ch \in Chats : OwnerDeletes(ch))
  BY <1>4 DEF Reinit, StatusChanges, OwnerDeletes
<1>5. CASE UNCHANGED allVars \/ (Tick /\ UNCHANGED flowVars)
  BY <1>5 DEF allVars, flowVars
<1> QED
  BY <1>1, <1>2, <1>3, <1>4, <1>5 DEF FlowNext

\* Where a client's session and window come from, outside a restart.
LEMMA ClientsFrom ==
  ASSUME FlowTypes, [FlowNext]_allVars, ~ Restart, NEW c \in ClientIds
  PROVE  /\ mode' = mode
         /\ \/ Reinit(c) \/ StatusChanges(c)
            \/ /\ session'[c] = session[c] /\ (c \in guest' <=> c \in guest)
               /\ \/ window'[c] = window[c]
                  \/ \E p \in Requests : OpensWindow(p) /\ requests[p].client = c
<1> USE DEF FlowTypes, ClientsTyped
<1>1. ASSUME NEW p \in Requests, OpensWindow(p), requests[p].client # c
      PROVE  window'[c] = window[c]
  BY <1>1 DEF OpensWindow, Opens
<1>2. ASSUME NEW d \in ClientIds, Reinit(d) \/ StatusChanges(d), d # c
      PROVE  /\ mode' = mode /\ session'[c] = session[c] /\ (c \in guest' <=> c \in guest)
             /\ window'[c] = window[c]
  BY <1>2 DEF Reinit, StatusChanges, googleVars
<1>3. ASSUME Reinit(c) \/ StatusChanges(c)
      PROVE  mode' = mode
  BY <1>3 DEF Reinit, StatusChanges
<1>4. CASE \E ch \in Chats : OwnerDeletes(ch)
  BY <1>4 DEF OwnerDeletes, clientVars
<1> QED
  BY <1>1, <1>2, <1>3, <1>4, FlowMoves

\* A client's latest chat is one just stored, or nothing new.
LEMMA LatestFrom ==
  ASSUME FlowTypes, [FlowNext]_allVars, NEW c \in ClientIds, latest'[c] # Nothing
  PROVE  \/ latest'[c] = latest[c]
         \/ \E r \in Requests :
              Persist(r) /\ requests[r].client = c /\ latest'[c] = requests[r].chat
<1> USE DEF FlowTypes, ClientsTyped
<1>1. ASSUME NEW r \in Requests, Persist(r)
      PROVE  \/ latest'[c] = latest[c]
             \/ requests[r].client = c /\ latest'[c] = requests[r].chat
  BY <1>1, PersistStores DEF Persist
<1>2. CASE \E d \in ClientIds : Reinit(d) \/ StatusChanges(d)
  BY <1>2 DEF Reinit, StatusChanges
<1>3. CASE DeleteSucceeds
  BY <1>3 DEF DeleteSucceeds
<1>4. CASE (\E ch \in Chats : OwnerDeletes(ch)) \/ Restart
  BY <1>4 DEF OwnerDeletes, Restart, clientVars
<1> QED
  BY <1>1, <1>2, <1>3, <1>4, FlowMoves

-----------------------------------------------------------------------------
(* Every step keeps it. *)

\* What a step starts from.
Before ==
  /\ Settled /\ OrderlyTemporary
  /\ HistoryInvariant /\ FlowTypes /\ ContextInv
  /\ [FlowNext]_allVars

LEMMA PlaceKept ==
  ASSUME Before, NEW k \in Current', NEW c \in ClientIds, NEW s \in 1 .. MaxSessions
  PROVE  /\ records'[k].scope = Nothing => History(records[k].chat)'
         /\ records'[k].scope = <<"temporary", c, s>> => google'[records'[k].chat] = "temporary"
<1> USE DEF Before
<1>1. CASE /\ k \in Current
           /\ records'[k].chat = records[k].chat /\ records'[k].scope = records[k].scope
  <2>1. records[k].chat \in Chats
    BY <1>1 DEF FlowTypes, StoreInv, TypeOK, Current, Record
  <2>2. /\ records[k].scope = Nothing => History(records[k].chat)
        /\ records[k].scope = <<"temporary", c, s>> => google[records[k].chat] = "temporary"
    BY <1>1 DEF ContextInv, CurrentPlaced
  <2>3. History(records[k].chat)' <=> google'[records[k].chat] \in {"history", "deleted"}
    BY <1>1 DEF History
  <2>4. PICK ch \in Chats : ch = records[k].chat
    BY <2>1
  <2>5. History(ch)' <=> google'[ch] \in {"history", "deleted"}
    BY DEF History
  <2> QED
    BY <1>1, <2>2, <2>3, <2>4, <2>5, Grows
<1>2. ASSUME NEW r \in Requests, Persist(r), records'[k].chat = requests[r].chat,
             records'[k].scope = ChatScope(requests[r].client)
      PROVE  /\ records'[k].scope = Nothing => History(records[k].chat)'
             /\ records'[k].scope = <<"temporary", c, s>> =>
                  google'[records'[k].chat] = "temporary"
  <2>1. PICK d, ch : /\ d = requests[r].client /\ ch = requests[r].chat
                     /\ d \in ClientIds /\ ch \in Chats
    BY <1>2, PersistStores
  <2>2. /\ requests[r].pc = "replied" /\ google' = google
    BY <1>2 DEF Persist, googleVars
  <2>3. ChatScope(d) = Nothing => History(ch)
    BY <2>1, <2>2, ScopeTells DEF HistoryInvariant, RepliedOfHistory, FlowTypes
  <2>4. ChatScope(d) = <<"temporary", c, s>> => google[ch] = "temporary"
    BY <2>1, <2>2, ScopeTells DEF ContextInv, OneWindow, FlowTypes
  <2>5. records'[k].chat = ch /\ records'[k].scope = ChatScope(d)
    BY <1>2, <2>1
  <2> QED
    BY <2>2, <2>3, <2>4, <2>5 DEF History
<1> QED
  BY <1>1, <1>2, RecordsFrom

LEMMA CurrentPlacedKept == Before => CurrentPlaced'
<1> SUFFICES ASSUME Before PROVE CurrentPlaced'
  OBVIOUS
<1>1. 1 \in 1 .. MaxSessions /\ \A k \in Current' : k[1] \in ClientIds
  BY FlowAssumption DEF Current, Keys
<1>2. \A k \in Current' : records'[k].scope = Nothing => History(records[k].chat)'
  BY <1>1, PlaceKept
<1>3. \A k \in Current' : \A c \in ClientIds, s \in 1 .. MaxSessions :
        records'[k].scope = <<"temporary", c, s>> => google'[records'[k].chat] = "temporary"
  BY PlaceKept
<1> QED
  BY <1>2, <1>3 DEF CurrentPlaced

\* The chat a request finds: of the account's history, or its session's window.
LEMMA FoundInReach ==
  ASSUME Before, NEW r \in Requests, Prepare(r), requests'[r].chat # Nothing
  PROVE  \/ mode # "temporary" /\ requests'[r].scope = Nothing /\ History(requests'[r].chat)
         \/ InWindow(requests'[r], session[requests'[r].client])
<1> USE DEF Before
<1>1. PICK q : FoundAs(r, q)
  BY Found
<1>2. requests'[r] = q /\ q \in Request
  BY <1>1, BecomesTyped DEF FoundAs, FlowTypes
<1>3. PICK c : c = q.client /\ c \in ClientIds
  BY <1>2, Parts
<1>4. /\ Ready(c) /\ q.scope = ChatScope(c)
      /\ \E k \in Current : IsReusable(k, c) /\ q.chat = records[k].chat
  BY <1>1, <1>2, <1>3 DEF FoundAs
<1>5. PICK k \in Current : /\ records[k].scope = ChatScope(c)
                           /\ records[k].scope # Nothing => records[k].chat = latest[c]
                           /\ q.chat = records[k].chat
  BY <1>4 DEF IsReusable
<1>6. session[c] \in 1 .. MaxSessions
  BY <1>3 DEF FlowTypes, ClientsTyped
<1>7. CASE mode # "temporary"
  <2>1. ChatScope(c) = Nothing
    BY <1>3, <1>4, <1>7, ScopeTells DEF FlowTypes, OnAccount, Ready
  <2>2. History(q.chat)
    BY <1>5, <2>1 DEF ContextInv, CurrentPlaced
  <2> QED
    BY <1>2, <1>4, <1>7, <2>1, <2>2
<1>8. CASE mode = "temporary"
  <2>1. PICK t : t = <<"temporary", c, session[c]>> /\ ChatScope(c) = t
    BY <1>3, <1>4, <1>8, ScopeTells DEF FlowTypes
  <2>2. t # Nothing
    BY <1>3, <1>6, <2>1, FlowAssumption, StoreAssumption
  <2>3. google[q.chat] = "temporary"
    BY <1>3, <1>5, <1>6, <2>1 DEF ContextInv, CurrentPlaced
  <2>4. latest[c] = q.chat /\ latest[c] # Nothing
    BY <1>2, <1>5, <2>1, <2>2
  <2>5. InFlight(c) = {}
    BY <1>2, <1>3, <1>8 DEF Prepare, OrderlyTemporary, FlowTypes, ClientsTyped
  <2>6. ~ Busy(c)
    BY <2>5, Awake DEF Busy, InFlight, FlowTypes
  <2>7. window[c] = q.chat
    BY <1>3, <1>8, <2>4, <2>6 DEF ContextInv, OneWindow
  <2>8. InWindow(q, session[c])
    BY <1>3, <1>4, <1>8, <2>1, <2>3, <2>7 DEF InWindow
  <2> QED
    BY <1>2, <1>3, <2>8
<1> QED
  BY <1>7, <1>8

\* In temporary mode no two requests of a client are under way.
LEMMA Alone ==
  ASSUME RequestsTyped, OneWindow, mode = "temporary", NEW r \in Requests, NEW p \in Requests,
         requests[r].pc # "idle", requests[p].pc # "idle", requests[r].client = requests[p].client
  PROVE  r = p
<1>1. requests[r] # Idle /\ requests[p] # Idle
  BY DEF Idle
<1> QED
  BY <1>1 DEF OneWindow

FoundKept(r) ==
  requests'[r].pc = "found" /\ requests'[r].chat # Nothing =>
    \/ mode' # "temporary" /\ requests'[r].scope = Nothing /\ History(requests[r].chat)'
    \/ \E s \in 1 .. session'[requests'[r].client] : InWindow(requests[r], s)'

LEMMA FoundKeepsReach == ASSUME Before, NEW r \in Requests PROVE FoundKept(r)
<1> USE DEF Before
<1> SUFFICES ASSUME requests'[r].pc = "found", requests'[r].chat # Nothing PROVE FoundKept(r)
  BY DEF FoundKept
<1>0. PICK q : q = requests'[r]
  OBVIOUS
<1>1. CASE Prepare(r)
  <2>1. UNCHANGED <<mode, session, google, window>>
    BY <1>1 DEF Prepare, clientVars, googleVars
  <2>2. q.client \in ClientIds
    BY <1>0, <1>1, FoundIs
  <2>3. session[q.client] \in 1 .. session[q.client]
    BY <2>2 DEF FlowTypes, ClientsTyped
  <2> QED
    BY <1>0, <1>1, <2>1, <2>3, FoundInReach DEF FoundKept, InWindow, History
<1>2. CASE requests'[r] = requests[r]
  <2>1. q \in Request /\ q = requests[r] /\ q.pc = "found"
    BY <1>0, <1>2, Awake DEF FlowTypes
  <2>2. PICK c, ch : c = q.client /\ ch = q.chat /\ c \in ClientIds /\ ch \in Chats
    BY <1>0, <2>1, Parts
  <2>3. ASSUME Restart PROVE FALSE
    <3>1. requests'[r] = Idle
      BY <2>3 DEF Restart
    <3>2. Idle.pc # "found"
      BY DEF Idle
    <3> QED
      BY <3>1, <3>2
  <2>4. mode' = mode
    BY <2>2, <2>3, ClientsFrom
  <2>5. CASE mode # "temporary" /\ q.scope = Nothing /\ History(ch)
    BY <1>0, <2>2, <2>4, <2>5, Grows DEF FoundKept, History
  <2>6. ASSUME NEW s \in 1 .. session[c], InWindow(q, s)
        PROVE  FoundKept(r)
    <3>1. mode = "temporary" /\ google[ch] = "temporary" /\ q.scope = <<"temporary", c, s>>
          /\ (s = session[c] => window[c] = ch)
      BY <2>2, <2>6 DEF InWindow
    <3>2. google'[ch] = "temporary"
      BY <2>2, <3>1, Grows
    <3>3. session[c] \in 1 .. MaxSessions /\ session'[c] \in 1 .. MaxSessions
      BY <2>2, FlowKeepsClients DEF FlowTypes, ClientsTyped
    <3>4. s \in 1 .. session'[c] /\ (s = session'[c] => window'[c] = ch)
      <4>1. CASE Reinit(c)
        <5>1. session'[c] = session[c] + 1
          BY <2>2, <4>1 DEF Reinit, FlowTypes, ClientsTyped
        <5> QED
          BY <2>6, <3>3, <5>1
      <4>2. CASE session'[c] = session[c] /\ window'[c] = window[c]
        BY <2>6, <3>1, <4>2
      <4>3. CASE StatusChanges(c)
        BY <4>2, <4>3 DEF StatusChanges, googleVars
      <4>4. ASSUME NEW p \in Requests, OpensWindow(p), requests[p].client = c
            PROVE  FALSE
        <5>1. requests[p].pc # "idle" /\ requests[r].pc # "idle" /\ requests[r].client = c
          BY <2>1, <2>2, <4>4 DEF OpensWindow
        <5>2. p = r
          BY <3>1, <4>4, <5>1, Alone DEF FlowTypes, ContextInv
        <5>3. PICK x \in Chats, l \in BOOLEAN : Replied(r, x, l) /\ requests[r].pc \in {"found", "replay"}
          BY <4>4, <5>2 DEF OpensWindow
        <5>4. requests'[r].pc = "replied"
          BY <5>3, Answered, BecomesTyped DEF RepliedAs, FlowTypes
        <5> QED
          BY <5>4
      <4> QED
        BY <2>2, <2>3, <4>1, <4>2, <4>3, <4>4, ClientsFrom
    <3> QED
      BY <1>0, <2>2, <2>4, <3>1, <3>2, <3>4 DEF FoundKept, InWindow
  <2> QED
    BY <1>0, <2>1, <2>2, <2>5, <2>6 DEF ContextInv, FoundReachable
<1>3. CASE Restart /\ requests'[r] = Idle
  BY <1>3 DEF Idle
<1>4. CASE RequestNext(r) /\ ~ Prepare(r)
  <2>1. \E x : Becomes(r, x) /\ x \in Request \cup {Idle} /\ x.pc # "found"
               /\ (x.pc = "replied" => x.chat \in Chats)
    BY <1>4, RequestLeaves
  <2> QED
    BY <2>1, BecomesTyped DEF FlowTypes
<1> QED
  BY <1>1, <1>2, <1>3, <1>4, RequestsFrom

\* r's reply names the open window of its client.
Reply(r) ==
  requests[r].pc = "replied" =>
    /\ window[requests[r].client] = requests[r].chat
    /\ requests[r].client \notin guest => google[requests[r].chat] = "temporary"

\* In temporary mode nothing is rejected.
LEMMA NothingRejected ==
  ASSUME Before, mode = "temporary", NEW r \in Requests
  PROVE  ~ SendRejected(r) /\ ~ Replays(r)
<1> USE DEF Before
<1>1. requests[r].pc # "rejected"
  BY DEF ContextInv, OneWindow
<1>2. ASSUME SendRejected(r) PROVE FALSE
  <2>1. requests[r].pc = "found" /\ requests[r].chat # Nothing /\ google[requests[r].chat] = "deleted"
    BY <1>2 DEF SendRejected, Rejects
  <2>2. google[requests[r].chat] = "temporary"
    BY <2>1 DEF ContextInv, FoundReachable, InWindow
  <2> QED
    BY <2>1, <2>2
<1> QED
  BY <1>1, <1>2 DEF Replays

\* A reply is from the window that is open after it.
LEMMA ReplyMade ==
  ASSUME Before, mode = "temporary", NEW r \in Requests,
         SendFresh(r) \/ SendReused(r) \/ SendLost(r)
  PROVE  Reply(r)' /\ requests'[r].client = requests[r].client /\ requests'[r].pc = "replied"
<1> USE DEF Before
<1>1. PICK chat \in Chats, lost \in BOOLEAN :
        /\ Replied(r, chat, lost) /\ requests[r].pc \in {"found", "replay"}
        /\ SendReused(r) => chat = requests[r].chat
        /\ ~ SendReused(r) => Opens(requests[r].client, chat)
  BY SendReplies
<1>2. PICK c : c = requests[r].client /\ c \in ClientIds
  BY <1>1, Awake, Parts DEF FlowTypes
<1>3. requests'[r].pc = "replied" /\ requests'[r].client = c /\ requests'[r].chat = chat
  BY <1>1, <1>2, Answered, BecomesTyped DEF RepliedAs, FlowTypes
<1>4. guest' = guest
  BY DEF SendFresh, SendReused, SendLost, clientVars
<1>5. window'[c] = chat /\ (c \notin guest => google'[chat] = "temporary")
  <2>1. CASE SendReused(r)
    <3>1. /\ requests[r].pc = "found" /\ requests[r].chat = chat /\ chat # Nothing
          /\ Continues(c, chat) /\ google' = google /\ window' = window
      BY <1>1, <1>2, <2>1 DEF SendReused, googleVars
    <3>2. google[chat] = "temporary"
      BY <3>1 DEF ContextInv, FoundReachable, InWindow
    <3> QED
      BY <3>1, <3>2 DEF Continues
  <2>2. CASE ~ SendReused(r)
    <3>1. Opens(c, chat)
      BY <1>1, <1>2, <2>2
    <3>2. ChatKind(c) # "history" /\ (c \notin guest => ChatKind(c) = "temporary")
      BY DEF ChatKind
    <3> QED
      BY <1>2, <3>1, <3>2 DEF Opens, FlowTypes, ClientsTyped, TaskTyped
  <2> QED
    BY <2>1, <2>2
<1> QED
  BY <1>2, <1>3, <1>4, <1>5 DEF Reply

LEMMA RepliesKept ==
  ASSUME Before, mode' = "temporary", NEW r \in Requests
  PROVE  requests'[r].pc \in {"idle", "found", "replied"} /\ Reply(r)'
<1> USE DEF Before
<1>0. Idle.pc = "idle"
  BY DEF Idle
<1>1. CASE requests'[r] = Idle
  BY <1>0, <1>1 DEF Reply
<1>2. CASE ~ Restart /\ requests'[r] = requests[r] /\ requests[r].pc = "replied"
  <2>1. requests[r] # Idle
    BY <1>0, <1>2
  <2>2. PICK c, ch : /\ c = requests[r].client /\ ch = requests[r].chat
                     /\ c \in ClientIds /\ ch \in Chats
    BY <1>2, <2>1, Awake, Parts DEF FlowTypes, RequestsTyped
  <2>3. mode = "temporary"
    BY <1>2, <2>2, ClientsFrom
  <2>4. window[c] = ch /\ (c \notin guest => google[ch] = "temporary")
    BY <1>2, <2>2, <2>3 DEF ContextInv, OneWindow
  <2>5. ~ (Reinit(c) \/ StatusChanges(c))
    BY <1>2, <2>1, <2>2 DEF Reinit, StatusChanges, MayChange, InFlight
  <2>6. ASSUME NEW p \in Requests, OpensWindow(p), requests[p].client = c
        PROVE  FALSE
    <3>1. requests[p].pc \in {"found", "replay"}
      BY <2>6 DEF OpensWindow
    <3>2. p = r
      BY <1>2, <2>2, <2>3, <2>6, <3>1, Alone DEF FlowTypes, ContextInv
    <3> QED
      BY <1>2, <3>1, <3>2
  <2>7. window'[c] = window[c] /\ (c \in guest' <=> c \in guest)
    BY <1>2, <2>2, <2>5, <2>6, ClientsFrom
  <2> QED
    BY <1>2, <2>2, <2>4, <2>7, Grows DEF Reply
<1>3. CASE ~ Restart /\ requests'[r] = requests[r] /\ requests[r].pc # "replied"
  <2>1. requests[r].pc \in {"idle", "found"}
    <3>1. CASE requests[r] = Idle
      BY <1>0, <3>1
    <3>2. CASE requests[r] # Idle
      <4>1. requests[r].client \in ClientIds
        BY <3>2, Awake, Parts DEF FlowTypes
      <4>2. mode = "temporary"
        BY <1>3, <4>1, ClientsFrom
      <4> QED
        BY <1>3, <4>2 DEF ContextInv, OneWindow
    <3> QED
      BY <3>1, <3>2
  <2> QED
    BY <1>3, <2>1 DEF Reply
<1>4. CASE RequestNext(r)
  <2>1. mode = "temporary"
    BY <1>4 DEF RequestNext, Prepare, SendFresh, SendReused, SendLost, SendRejected, Replays,
                Abandon, Persist
  <2>2. CASE SendFresh(r) \/ SendReused(r) \/ SendLost(r)
    BY <2>1, <2>2, ReplyMade
  <2>3. CASE Prepare(r)
    <3>1. requests'[r].pc = "found"
      BY <2>3, FoundIs
    <3> QED
      BY <3>1 DEF Reply
  <2>4. CASE Abandon(r) \/ Persist(r)
    BY <1>1, <2>4 DEF Abandon, Persist, FlowTypes, RequestsTyped
  <2> QED
    BY <1>4, <2>1, <2>2, <2>3, <2>4, NothingRejected DEF RequestNext
<1>5. CASE Restart
  BY <1>1, <1>5 DEF Restart
<1> QED
  BY <1>2, <1>3, <1>4, <1>5, RequestsFrom

\* A request that is under way was so at the same client, or just found its chat.
LEMMA Joins ==
  ASSUME Before, mode' = "temporary", NEW r \in Requests, requests'[r] # Idle
  PROVE  \/ Prepare(r)
         \/ requests[r] # Idle /\ requests'[r].client = requests[r].client /\ mode = "temporary"
<1> USE DEF Before
<1>1. CASE Restart
  BY <1>1 DEF Restart
<1>2. CASE requests'[r] = requests[r] /\ ~ Restart
  <2>1. requests[r].client \in ClientIds
    BY <1>2, Awake, Parts DEF FlowTypes
  <2> QED
    BY <1>2, <2>1, ClientsFrom
<1>3. CASE RequestNext(r)
  <2>1. mode = "temporary"
    BY <1>3 DEF RequestNext, Prepare, SendFresh, SendReused, SendLost, SendRejected, Replays,
                Abandon, Persist
  <2>2. CASE SendFresh(r) \/ SendReused(r) \/ SendLost(r)
    <3>1. requests[r].pc \in {"found", "replay"}
      BY <2>2 DEF SendFresh, SendReused, SendLost
    <3> QED
      BY <2>1, <2>2, <3>1, Awake, ReplyMade DEF FlowTypes
  <2>3. CASE Abandon(r) \/ Persist(r)
    BY <2>3 DEF Abandon, Persist, FlowTypes, RequestsTyped
  <2> QED
    BY <1>3, <2>1, <2>2, <2>3, NothingRejected DEF RequestNext
<1> QED
  BY <1>1, <1>2, <1>3, RequestsFrom

LEMMA PreparedAlone ==
  ASSUME Before, mode' = "temporary", NEW r \in Requests, NEW p \in Requests, p # r,
         Prepare(r), requests'[p] # Idle
  PROVE  requests'[p].client # requests'[r].client
<1> USE DEF Before
<1>1. InFlight(requests'[r].client) = {}
  BY DEF Prepare, OrderlyTemporary, FlowTypes, ClientsTyped
<1>2. requests'[p] = requests[p]
  BY Found, BecomesTyped DEF FoundAs, FlowTypes
<1> QED
  BY <1>1, <1>2 DEF InFlight

LEMMA AloneKept ==
  ASSUME Before, mode' = "temporary", NEW r \in Requests, NEW p \in Requests,
         requests'[r] # Idle, requests'[p] # Idle, requests'[r].client = requests'[p].client
  PROVE  r = p
<1>1. CASE Prepare(r) \/ Prepare(p)
  BY <1>1, PreparedAlone
<1>2. CASE ~ Prepare(r) /\ ~ Prepare(p)
  BY <1>2, Joins DEF Before, ContextInv, OneWindow
<1> QED
  BY <1>1, <1>2

LEMMA LatestKept ==
  ASSUME Before, mode' = "temporary", NEW c \in ClientIds, latest'[c] # Nothing, ~ Busy(c)'
  PROVE  window'[c] = latest'[c]
<1> USE DEF Before
<1>1. ASSUME Restart PROVE FALSE
  BY <1>1 DEF Restart
<1>2. mode = "temporary"
  BY <1>1, ClientsFrom
<1>3. ASSUME NEW r \in Requests, Persist(r), requests[r].client = c
      PROVE  window'[c] = latest'[c]
  <2>1. window[c] = requests[r].chat
    BY <1>2, <1>3 DEF Persist, ContextInv, OneWindow
  <2>2. window' = window /\ latest'[c] = requests[r].chat
    BY <1>3 DEF Persist, googleVars, FlowTypes, ClientsTyped
  <2> QED
    BY <2>1, <2>2
<1>4. CASE ~ \E r \in Requests : Persist(r) /\ requests[r].client = c
  <2>1. latest'[c] = latest[c]
    BY <1>4, LatestFrom
  <2>2. ASSUME NEW r \in Requests, requests[r].pc = "replied", requests[r].client = c
        PROVE  FALSE
    <3>1. ~ RequestNext(r)
      <4>1. ~ Abandon(r)
        BY <1>2, <2>2 DEF Abandon, OrderlyTemporary, FlowTypes, ClientsTyped
      <4> QED
        BY <1>4, <2>2, <4>1 DEF RequestNext, Prepare, SendFresh, SendReused, SendLost,
                               SendRejected, Replays, Idle
    <3>2. requests'[r] = requests[r]
      BY <1>1, <3>1, RequestsFrom
    <3> QED
      BY <2>2, <3>2 DEF Busy
  <2>3. window[c] = latest[c]
    BY <1>2, <2>1, <2>2 DEF Busy, ContextInv, OneWindow
  <2>4. ~ Reinit(c)
    BY DEF Reinit, FlowTypes, ClientsTyped
  <2>5. ASSUME NEW p \in Requests, OpensWindow(p), requests[p].client = c
        PROVE  FALSE
    <3>1. PICK x \in Chats, l \in BOOLEAN : Replied(p, x, l) /\ requests[p].pc \in {"found", "replay"}
      BY <2>5 DEF OpensWindow
    <3>2. requests'[p].pc = "replied" /\ requests'[p].client = c
      BY <2>5, <3>1, Answered, BecomesTyped DEF RepliedAs, FlowTypes
    <3> QED
      BY <3>2 DEF Busy
  <2>6. StatusChanges(c) => window' = window
    BY DEF StatusChanges, googleVars
  <2> QED
    BY <1>1, <2>1, <2>3, <2>4, <2>5, <2>6, ClientsFrom
<1> QED
  BY <1>3, <1>4

\* A reply without its context would need a chat out of reach.
LEMMA SendKeepsContext ==
  ASSUME Before, NEW r \in Requests, SendFresh(r) \/ SendReused(r) \/ SendLost(r)
  PROVE  ~ requests'[r].lost
<1> USE DEF Before
<1>1. PICK chat \in Chats, lost \in BOOLEAN :
        /\ Replied(r, chat, lost) /\ requests[r].pc \in {"found", "replay"}
        /\ lost => SendLost(r)
  BY SendReplies
<1>2. PICK c, ch, s : /\ c = requests[r].client /\ c \in ClientIds
                      /\ ch = requests[r].chat /\ s = requests[r].scope
  BY <1>1, Awake, Parts DEF FlowTypes
<1>3. PICK q : RepliedAs(r, q, chat) /\ (q.lost <=> lost /\ s = ChatScope(c))
  BY <1>1, <1>2, Answered
<1>4. requests'[r] = q
  BY <1>3, BecomesTyped DEF RepliedAs, FlowTypes
<1>5. ASSUME lost, s = ChatScope(c) PROVE FALSE
  <2>1. /\ requests[r].pc = "found" /\ ch # Nothing
        /\ ~ Continues(c, ch) /\ ~ Rejects(c, ch)
    BY <1>1, <1>2, <1>5 DEF SendLost
  <2>2. CASE s = Nothing /\ History(ch)
    <3>1. c \notin guest
      BY <1>2, <1>5, <2>2, ScopeTells DEF FlowTypes, OnAccount
    <3> QED
      BY <2>1, <2>2, <3>1 DEF History, Continues, Rejects
  <2>3. ASSUME NEW n \in 1 .. session[c], InWindow(requests[r], n)
        PROVE  FALSE
    <3>1. n \in 1 .. MaxSessions
      BY <1>2, FlowAssumption DEF FlowTypes, ClientsTyped
    <3>2. /\ google[ch] = "temporary" /\ s = <<"temporary", c, n>>
          /\ (n = session[c] => window[c] = ch)
      BY <1>2, <2>3 DEF InWindow
    <3>3. c \notin guest /\ n = session[c]
      <4>1. ClientsTyped /\ c \in ClientIds /\ ChatScope(c) = <<"temporary", c, n>>
        BY <1>2, <1>5, <3>2 DEF FlowTypes
      <4>2. \A d \in ClientIds, m \in 1 .. MaxSessions :
              ChatScope(c) = <<"temporary", d, m>> => c \notin guest /\ m = session[c]
        BY <4>1, ScopeTells
      <4> QED
        BY <1>2, <3>1, <4>1, <4>2, Zenon
    <3> QED
      BY <2>1, <3>2, <3>3 DEF Continues
  <2> QED
    BY <1>2, <2>1, <2>2, <2>3 DEF ContextInv, FoundReachable
<1> QED
  BY <1>3, <1>4, <1>5

LEMMA ContextStep == Before => ContextInv'
<1> SUFFICES ASSUME Before PROVE ContextInv'
  OBVIOUS
<1> USE DEF Before
<1>1. CurrentPlaced'
  BY CurrentPlacedKept
<1>2. FoundReachable'
  <2>1. \A r \in Requests : FoundKept(r)
    BY FoundKeepsReach
  <2> QED
    BY <2>1 DEF FoundKept, FoundReachable
<1>3. OneWindow'
  BY RepliesKept, AloneKept, LatestKept DEF OneWindow, Reply
<1>4. ASSUME NEW r \in Requests, requests'[r] # Idle
      PROVE  ~ requests'[r].lost
  <2>0. requests[r] # Idle => ~ requests[r].lost
    BY DEF ContextInv, ContextKept
  <2>1. CASE requests'[r] = requests[r]
    BY <1>4, <2>0, <2>1
  <2>2. CASE SendFresh(r) \/ SendReused(r) \/ SendLost(r)
    BY <2>2, SendKeepsContext
  <2>3. CASE Prepare(r)
    BY <2>3, Found, BecomesTyped DEF FoundAs, FlowTypes
  <2>4. CASE SendRejected(r) \/ Replays(r)
    <3>1. requests[r] # Idle
      BY <2>4, Awake DEF SendRejected, Replays, FlowTypes
    <3>2. requests'[r].lost = requests[r].lost
      <4>1. CASE SendRejected(r)
        BY <4>1, RejectedParts, BecomesTyped DEF RejectedAs, FlowTypes
      <4>2. CASE Replays(r)
        BY <4>2, ReplayedParts, BecomesTyped DEF ReplayedAs, FlowTypes
      <4> QED
        BY <2>4, <4>1, <4>2
    <3> QED
      BY <2>0, <3>1, <3>2, Zenon
  <2>5. CASE Abandon(r) \/ Persist(r)
    BY <1>4, <2>5 DEF Abandon, Persist, FlowTypes, RequestsTyped
  <2> QED
    BY <1>4, <2>1, <2>2, <2>3, <2>4, <2>5, RequestsFrom DEF RequestNext
<1>5. ContextKept'
  BY <1>4 DEF ContextKept
<1> QED
  BY <1>1, <1>2, <1>3, <1>5 DEF ContextInv

\* A reply comes without the context of its conversation only if its session died
\* first: while no session comes or goes between a reply and its storing, and the
\* clients of temporary mode serve one request at a time and store its reply, no
\* deletion, replay, older session or change of mode costs a caller the history.
THEOREM ContextIsKept == Settled /\ OrderlyTemporary => (FlowSpec => []ContextKept)
<1> SUFFICES ASSUME Settled, OrderlyTemporary PROVE FlowSpec => []ContextKept
  OBVIOUS
<1>1. FlowInit => HistoryInvariant /\ FlowTypes /\ ContextInv
  BY HistoryInit, FlowInitTyped, ContextInit
<1>2. HistoryInvariant /\ FlowTypes /\ ContextInv /\ [FlowNext]_allVars
        => (HistoryInvariant /\ FlowTypes /\ ContextInv)'
  BY HistoryKeeps, FlowKeepsTypes, ContextStep DEF Before
<1>3. ContextInv => ContextKept
  BY DEF ContextInv
<1> QED
  BY <1>1, <1>2, <1>3, PTL DEF FlowSpec
=============================================================================
