-------------------------- MODULE ClientPoolProofs --------------------------
(***************************************************************************)
(* Proofs about ClientPool, for every number of clients and requests and   *)
(* for either setting of auto_close.                                       *)
(***************************************************************************)
EXTENDS ClientPool, FiniteSetTheorems, TLAPS

\* What the control points of the tasks say of their indices and counters.
Control ==
  /\ sPc \in {"next", "stagger"} => sTry = 0
  /\ sPc = "stagger" => sIdx < N
  /\ sPc = "retry" => sTry < InitAttempts
  /\ rPc \in {"queued", "closing", "initing"} => rIdx \in Clients
  /\ \A r \in Requests : pc[r] = "picked" => tries[r] < MaxAttempts
  /\ \A r \in Requests : pc[r] # "idle" => cl[r] \in Clients /\ orig[r] \in Clients

TypeInv == TypeOK /\ Control

\* A client whose restart lock is held is down: nobody else brings it up meanwhile.
RestartedAreDown ==
  \A c \in Clients : StartupHolds(c) \/ RecoveryHolds(c) => ~running[c]

\* What each stage of the shutdown has already settled.
Drained ==
  /\ phase # "up" => sPc = "done" /\ \A r \in Requests : pc[r] = "idle"
  /\ phase \notin {"up", "startupStopped"} => rPc = "done"
  /\ phase \in {"cleanupStopped", "closing", "closed"} => deleting = 0
  /\ phase \in {"closing", "closed"} => \A c \in Clients : ~running[c]

\* The inductive invariant: why the lock, the count and the shutdown are right.
IInv ==
  /\ TypeInv
  /\ ActiveCountsScopes
  /\ NoConcurrentRestart
  /\ RetiredLeftAlone
  /\ RestartedAreDown
  /\ Drained

\* Without auto_close nothing closes a session but a restart and the shutdown, and
\* neither leaves a client running that has none.
NoTimers ==
  /\ \A c \in Clients : closeTask[c] = "none"
  /\ phase \notin {"closing", "closed"} => closing = {}
  /\ RunningHasSession

USE PoolAssumption DEF PoolAssumption, Restarting, Holding, CloseStates, RequestStates,
  Phases, clientVars, poolVars, startupVars, recoverVars, requestVars, vars

-----------------------------------------------------------------------------
LEMMA ClientsIndexed == \A c : c \in Clients <=> c \in Nat /\ 1 <= c /\ c <= N
BY DEF Clients

\* The pieces of state change keep the types of what they change.
LEMMA EnterTypes ==
  ASSUME ClientTypes, NEW c \in Clients, Enter(c) PROVE ClientTypes'
BY DEF ClientTypes, Enter

LEMMA LeaveTypes ==
  ASSUME ClientTypes, NEW c \in Clients, LeaveOnly(c) PROVE ClientTypes'
BY DEF ClientTypes, LeaveOnly, Leave

LEMMA MarkTypes ==
  ASSUME ClientTypes, NEW c \in Clients, NEW d \in Clients, Mark(c),
         Leave(d) \/ UNCHANGED active,
         UNCHANGED <<running, initialized, status, session, closeTask, closing>>
  PROVE  ClientTypes'
BY DEF ClientTypes, Leave, Mark

LEMMA RetireTypes ==
  ASSUME PoolTypes, NEW c \in Clients, Retire(c), UNCHANGED <<rr, deferred>>
  PROVE  PoolTypes'
BY DEF PoolTypes, Retire

LEMMA ForgetTypes ==
  ASSUME PoolTypes, NEW c \in Clients, ForgetFailures(c), UNCHANGED <<rr, retired>>
  PROVE  PoolTypes'
BY DEF PoolTypes, ForgetFailures

LEMMA RoundRobinTypes ==
  ASSUME PoolTypes, NEW c \in Clients, RoundRobin(c) PROVE rr' \in Clients
BY DEF PoolTypes, RoundRobin, Clients

LEMMA InitType == Init => TypeInv
<1> SUFFICES ASSUME Init PROVE TypeInv OBVIOUS
<1> USE DEF Init
<1>1. ClientTypes BY DEF ClientTypes
<1>2. PoolTypes BY DEF PoolTypes, Clients
<1>3. TaskTypes BY DEF TaskTypes, Clients
<1>4. RequestTypes BY DEF RequestTypes
<1>5. wanted \in BOOLEAN OBVIOUS
<1>6. Control BY DEF Control
<1> QED BY <1>1, <1>2, <1>3, <1>4, <1>5, <1>6 DEF TypeInv, TypeOK

LEMMA ClientNextTypes == ASSUME TypeInv, ClientNext PROVE TypeInv'
<1> USE DEF TypeInv, TypeOK
<1> PICK c \in Clients :
      \/ StatusChanges(c) \/ SendArmsAutoClose(c) \/ AutoCloseWaits(c)
      \/ AutoCloseBegins(c) \/ CloseEnds(c)
  BY DEF ClientNext
<1>1. ClientTypes'
  <2> USE DEF ClientTypes
  <2>1. CASE StatusChanges(c) BY <2>1 DEF StatusChanges
  <2>2. CASE SendArmsAutoClose(c) BY <2>2 DEF SendArmsAutoClose
  <2>3. CASE AutoCloseWaits(c) BY <2>3 DEF AutoCloseWaits
  <2>4. CASE AutoCloseBegins(c) BY <2>4 DEF AutoCloseBegins, BeginClose
  <2>5. CASE CloseEnds(c) BY <2>5 DEF CloseEnds, EndClose
  <2> QED BY <2>1, <2>2, <2>3, <2>4, <2>5
<1>2. UNCHANGED <<poolVars, startupVars, recoverVars, requestVars, deleting, phase>>
  BY DEF StatusChanges, SendArmsAutoClose, AutoCloseWaits, AutoCloseBegins, CloseEnds
<1>3. PoolTypes' BY <1>2 DEF PoolTypes
<1>4. TaskTypes' BY <1>2 DEF TaskTypes
<1>5. RequestTypes' BY <1>2 DEF RequestTypes
<1>6. wanted' \in BOOLEAN BY <1>2
<1>7. Control' BY <1>2 DEF Control
<1> QED BY <1>1, <1>3, <1>4, <1>5, <1>6, <1>7

LEMMA StartupNextTypes == ASSUME TypeInv, StartupNext PROVE TypeInv'
<1> USE DEF TypeInv, TypeOK
<1>1. ClientTypes'
  <2> USE DEF ClientTypes, TaskTypes
  <2>1. CASE StartupTakes BY <2>1 DEF StartupTakes, BeginRestart, BeginClose
  <2>2. CASE StartupWakes BY <2>2 DEF StartupWakes
  <2>3. CASE StartupRetries BY <2>3 DEF StartupRetries, BeginRestart, BeginClose
  <2>4. CASE StartupCloseEnds BY <2>4 DEF StartupCloseEnds, EndClose
  <2>5. CASE StartupInitReturns BY <2>5 DEF StartupInitReturns, InitReturns
  <2>6. CASE StartupInitFails
    BY <2>6 DEF StartupInitFails, InitRaises, InitTimesOut, EndClose
  <2> QED BY <2>1, <2>2, <2>3, <2>4, <2>5, <2>6 DEF StartupNext
<1>2. UNCHANGED <<recoverVars, requestVars, deleting, phase, rr, deferred, wanted>>
  BY DEF StartupNext, StartupTakes, StartupWakes, StartupRetries, StartupCloseEnds,
         StartupInitReturns, StartupInitFails, StartupUnchanged
<1>3. PoolTypes'
  <2> USE DEF PoolTypes, TaskTypes
  <2>1. CASE StartupInitFails BY <2>1 DEF StartupInitFails, Retire
  <2>2. CASE ~StartupInitFails
    BY <2>2 DEF StartupNext, StartupTakes, StartupWakes, StartupRetries,
                StartupCloseEnds, StartupInitReturns
  <2> QED BY <2>1, <2>2
<1>4. TaskTypes' /\ Control'
  <2> USE <1>2 DEF TaskTypes, Control, StartupAdvances, Clients
  <2>1. CASE StartupTakes BY <2>1 DEF StartupTakes, RestartPc
  <2>2. CASE StartupWakes BY <2>2 DEF StartupWakes
  <2>3. CASE StartupRetries BY <2>3 DEF StartupRetries, RestartPc
  <2>4. CASE StartupCloseEnds BY <2>4 DEF StartupCloseEnds
  <2>5. CASE StartupInitReturns BY <2>5 DEF StartupInitReturns
  <2>6. CASE StartupInitFails BY <2>6 DEF StartupInitFails
  <2> QED BY <2>1, <2>2, <2>3, <2>4, <2>5, <2>6 DEF StartupNext
<1>5. RequestTypes' BY <1>2 DEF RequestTypes
<1>6. wanted' \in BOOLEAN
  <2>1. wanted \in BOOLEAN OBVIOUS
  <2>2. wanted' = wanted BY <1>2
  <2> QED BY ONLY <2>1, <2>2
<1> QED BY <1>1, <1>3, <1>4, <1>5, <1>6

LEMMA RecoveryNextTypes == ASSUME TypeInv, RecoveryNext PROVE TypeInv'
<1> USE DEF TypeInv, TypeOK
<1>1. ClientTypes'
  <2> USE DEF ClientTypes, TaskTypes, Control
  <2>1. CASE RecoveryLocks
    BY <2>1 DEF RecoveryLocks, BeginRestart, BeginClose, RecoveryWants
  <2>2. CASE RecoveryCloseEnds BY <2>2 DEF RecoveryCloseEnds, EndClose
  <2>3. CASE RecoveryInitReturns BY <2>3 DEF RecoveryInitReturns, InitReturns
  <2>4. CASE RecoveryInitFails
    BY <2>4 DEF RecoveryInitFails, InitRaises, InitTimesOut, EndClose
  <2>5. CASE \/ RecoveryWakes \/ RecoverySkips \/ RecoverySeesReady
             \/ RecoveryQueues \/ RecoveryPassEnds
    BY <2>5 DEF RecoveryWakes, PassBegins, RecoverySkips, RecoverySeesReady,
                RecoveryQueues, RecoveryPassEnds
  <2> QED BY <2>1, <2>2, <2>3, <2>4, <2>5 DEF RecoveryNext
<1>2. UNCHANGED <<startupVars, requestVars, deleting, phase, rr>>
  BY DEF RecoveryNext, RecoveryWakes, PassBegins, RecoverySkips, RecoverySeesReady,
         RecoveryQueues, RecoveryLocks, RecoveryCloseEnds, RecoveryInitReturns,
         RecoveryInitFails, RecoveryPassEnds, RecoveryUnchanged
<1>3. PoolTypes'
  <2> USE <1>2 DEF PoolTypes, TaskTypes, Control
  <2>1. CASE RecoverySeesReady BY <2>1, ForgetTypes DEF RecoverySeesReady
  <2>2. CASE RecoveryInitReturns BY <2>2 DEF RecoveryInitReturns, ForgetFailures
  <2>3. CASE RecoveryInitFails BY <2>3 DEF RecoveryInitFails, AtLimit, Retire
  <2>4. CASE \/ RecoveryWakes \/ RecoverySkips \/ RecoveryLocks \/ RecoveryQueues
             \/ RecoveryCloseEnds \/ RecoveryPassEnds
    BY <2>4 DEF RecoveryWakes, PassBegins, RecoverySkips, RecoveryLocks,
                RecoveryQueues, RecoveryCloseEnds, RecoveryPassEnds
  <2> QED BY <2>1, <2>2, <2>3, <2>4 DEF RecoveryNext
<1>4. TaskTypes' /\ Control'
  <2> USE <1>2 DEF TaskTypes, Control, RecoveryMovesOn, Clients
  <2>1. CASE RecoveryWakes BY <2>1 DEF RecoveryWakes, PassBegins, PoolTypes
  <2>2. CASE RecoverySkips BY <2>2 DEF RecoverySkips
  <2>3. CASE RecoverySeesReady BY <2>3 DEF RecoverySeesReady
  <2>4. CASE RecoveryQueues BY <2>4 DEF RecoveryQueues, RecoveryWants
  <2>5. CASE RecoveryLocks
    <3>1. rIdx \in Clients BY <2>5 DEF RecoveryLocks, RecoveryWants
    <3>2. CASE rPc' = "scan" /\ rIdx' = rIdx + 1 /\ due' = due
      BY <2>5, <3>1, <3>2 DEF RecoveryLocks
    <3>3. CASE rPc' \in Restarting /\ UNCHANGED <<rIdx, due>>
      BY <2>5, <3>1, <3>3 DEF RecoveryLocks
    <3> QED BY <2>5, <3>2, <3>3 DEF RecoveryLocks, RestartPc
  <2>6. CASE RecoveryCloseEnds BY <2>6 DEF RecoveryCloseEnds
  <2>7. CASE RecoveryInitReturns BY <2>7 DEF RecoveryInitReturns
  <2>8. CASE RecoveryInitFails BY <2>8 DEF RecoveryInitFails
  <2>9. CASE RecoveryPassEnds BY <2>9 DEF RecoveryPassEnds
  <2> QED BY <2>1, <2>2, <2>3, <2>4, <2>5, <2>6, <2>7, <2>8, <2>9 DEF RecoveryNext
<1>5. RequestTypes' BY <1>2 DEF RequestTypes
<1>6. wanted' \in BOOLEAN
  <2>1. wanted \in BOOLEAN OBVIOUS
  <2>2. wanted' = FALSE \/ wanted' = wanted
    BY DEF RecoveryNext, RecoveryWakes, PassBegins, RecoverySkips, RecoverySeesReady,
           RecoveryQueues, RecoveryLocks, RecoveryCloseEnds, RecoveryInitReturns,
           RecoveryInitFails, RecoveryPassEnds
  <2> QED BY ONLY <2>1, <2>2
<1> QED BY <1>1, <1>3, <1>4, <1>5, <1>6

LEMMA BackoffTypes ==
  ASSUME TypeInv, NEW c \in Clients, BackoffElapses(c) PROVE TypeInv'
<1> USE DEF TypeInv, TypeOK
<1>1. UNCHANGED <<clientVars, startupVars, recoverVars, requestVars, deleting, phase,
                  rr, retired, failures, wanted>> /\ deferred' \subseteq deferred
  BY DEF BackoffElapses, RecoveryUnchanged
<1>2. ClientTypes' BY <1>1 DEF ClientTypes
<1>3. PoolTypes' BY <1>1 DEF PoolTypes
<1>4. TaskTypes' /\ Control' BY <1>1 DEF TaskTypes, Control
<1>5. RequestTypes' BY <1>1 DEF RequestTypes
<1>6. wanted' \in BOOLEAN
  <2>1. wanted \in BOOLEAN OBVIOUS
  <2>2. wanted' = wanted BY <1>1
  <2> QED BY ONLY <2>1, <2>2
<1> QED BY <1>2, <1>3, <1>4, <1>5, <1>6

LEMMA RequestNextTypes == ASSUME TypeInv, RequestNext PROVE TypeInv'
<1> USE DEF TypeInv, TypeOK
<1> PICK r \in Requests : Acquire(r) \/ RequestStep(r) BY DEF RequestNext
<1>1. UNCHANGED <<running, initialized, status, session, closing, retired, failures,
                  deferred, startupVars, recoverVars, deleting, phase>>
  BY DEF RequestStep, Acquire, Abandon, Send, SendEnds, SendFails, SendAgain,
         ReplayNeeded, Replay, ReplayFails, FirstChunk, StreamBegins, StreamEnds,
         RequestUnchanged, LeaveOnly, Leave, Holds, Enter
<1>2. ClientTypes'
  <2> USE <1>1 DEF ClientTypes, RequestTypes, Control, LeaveOnly, Leave, Holds, Enter
  <2>1. CASE Send(r) \/ StreamBegins(r) BY <2>1 DEF Send, StreamBegins
  <2>2. CASE Replay(r) BY <2>2 DEF Replay
  <2>3. CASE SendEnds(r) \/ SendAgain(r) \/ ReplayNeeded(r) \/ FirstChunk(r)
    BY <2>3 DEF SendEnds, SendAgain, ReplayNeeded, FirstChunk
  <2>4. CASE SendFails(r) \/ ReplayFails(r)
    BY <2>4, MarkTypes DEF SendFails, ReplayFails
  <2>5. CASE StreamEnds(r) BY <2>5 DEF StreamEnds
  <2>6. CASE Acquire(r) \/ Abandon(r) BY <2>6 DEF Acquire, Abandon
  <2> QED BY <2>1, <2>2, <2>3, <2>4, <2>5, <2>6 DEF RequestStep
<1>3. PoolTypes'
  <2> USE <1>1 DEF PoolTypes
  <2>1. CASE Acquire(r) BY <2>1, RoundRobinTypes DEF Acquire
  <2>2. CASE Replay(r) BY <2>2, RoundRobinTypes DEF Replay
  <2>3. CASE ~Acquire(r) /\ ~Replay(r)
    BY <2>3 DEF RequestStep, Abandon, Send, SendEnds, SendFails, SendAgain,
                ReplayNeeded, ReplayFails, FirstChunk, StreamBegins, StreamEnds
  <2> QED BY <2>1, <2>2, <2>3
<1>4. TaskTypes' BY <1>1 DEF TaskTypes
<1>5. RequestTypes' /\ Control'
  <2> USE <1>1, ClientsIndexed DEF RequestTypes, Control, Finish, Holds
  <2>1. CASE Acquire(r) BY <2>1 DEF Acquire
  <2>2. CASE Abandon(r) BY <2>2 DEF Abandon
  <2>3. CASE Send(r) BY <2>3 DEF Send
  <2>4. CASE SendEnds(r) BY <2>4 DEF SendEnds
  <2>5. CASE SendFails(r) BY <2>5 DEF SendFails
  <2>6. CASE SendAgain(r) BY <2>6 DEF SendAgain
  <2>7. CASE ReplayNeeded(r) BY <2>7 DEF ReplayNeeded
  <2>8. CASE Replay(r) BY <2>8 DEF Replay
  <2>9. CASE ReplayFails(r) BY <2>9 DEF ReplayFails
  <2>10. CASE FirstChunk(r) BY <2>10 DEF FirstChunk
  <2>11. CASE StreamBegins(r) BY <2>11 DEF StreamBegins
  <2>12. CASE StreamEnds(r) BY <2>12 DEF StreamEnds
  <2> QED
    BY <2>1, <2>2, <2>3, <2>4, <2>5, <2>6, <2>7, <2>8, <2>9, <2>10, <2>11, <2>12
       DEF RequestStep
<1>6. wanted' \in BOOLEAN
  <2>1. wanted \in BOOLEAN OBVIOUS
  <2>2. wanted' = TRUE \/ wanted' = wanted
    BY DEF RequestStep, Acquire, Abandon, Send, SendEnds, SendFails, SendAgain,
           ReplayNeeded, Replay, ReplayFails, FirstChunk, StreamBegins, StreamEnds,
           Mark
  <2> QED BY ONLY <2>1, <2>2
<1> QED BY <1>2, <1>3, <1>4, <1>5, <1>6

LEMMA DeleteTypes == ASSUME TypeInv, DeleteBegins \/ DeleteEnds PROVE TypeInv'
<1> USE DEF TypeInv, TypeOK
<1>1. UNCHANGED <<poolVars, startupVars, recoverVars, requestVars, phase>>
  BY DEF DeleteBegins, DeleteEnds, DeleteUnchanged
<1>2. ClientTypes' /\ TaskTypes'
  <2> USE <1>1, ClientsIndexed DEF TaskTypes
  <2>1. CASE DeleteBegins BY <2>1, EnterTypes DEF DeleteBegins
  <2>2. CASE DeleteEnds BY <2>2, LeaveTypes DEF DeleteEnds
  <2> QED BY <2>1, <2>2
<1>3. PoolTypes' BY <1>1 DEF PoolTypes
<1>4. RequestTypes' /\ Control' BY <1>1 DEF RequestTypes, Control
<1>5. wanted' \in BOOLEAN
  <2>1. wanted \in BOOLEAN OBVIOUS
  <2>2. wanted' = wanted BY <1>1
  <2> QED BY ONLY <2>1, <2>2
<1> QED BY <1>2, <1>3, <1>4, <1>5

LEMMA LifespanTypes == ASSUME TypeInv, LifespanNext PROVE TypeInv'
<1> USE DEF TypeInv, TypeOK, LifespanNext
<1>1. UNCHANGED <<poolVars, requestVars>>
  BY DEF StopStartup, StopRecovery, StopCleanup, PoolCloses, PoolClosed
<1>2. ClientTypes'
  <2> USE DEF ClientTypes
  <2>1. CASE StopCleanup BY <2>1 DEF StopCleanup, LeaveOnly, Leave
  <2>2. CASE PoolCloses BY <2>2 DEF PoolCloses
  <2>3. CASE StopStartup \/ StopRecovery \/ PoolClosed
    BY <2>3 DEF StopStartup, StopRecovery, PoolClosed
  <2> QED BY <2>1, <2>2, <2>3
<1>3. PoolTypes' BY <1>1 DEF PoolTypes
<1>4. TaskTypes' /\ Control'
  BY <1>1 DEF TaskTypes, Control, StopStartup, StopRecovery, StopCleanup, PoolCloses,
              PoolClosed
<1>5. RequestTypes' BY <1>1 DEF RequestTypes
<1>6. wanted' \in BOOLEAN
  <2>1. wanted \in BOOLEAN OBVIOUS
  <2>2. wanted' = wanted BY <1>1
  <2> QED BY ONLY <2>1, <2>2
<1> QED BY <1>2, <1>3, <1>4, <1>5, <1>6

LEMMA StutterTypes == ASSUME TypeInv, UNCHANGED vars PROVE TypeInv'
<1> USE DEF TypeInv, TypeOK
<1>1. ClientTypes' BY DEF ClientTypes
<1>2. PoolTypes' BY DEF PoolTypes
<1>3. TaskTypes' /\ Control' BY DEF TaskTypes, Control
<1>4. RequestTypes' BY DEF RequestTypes
<1>5. wanted' \in BOOLEAN
  <2>1. wanted \in BOOLEAN OBVIOUS
  <2>2. wanted' = wanted OBVIOUS
  <2> QED BY ONLY <2>1, <2>2
<1> QED BY <1>1, <1>2, <1>3, <1>4, <1>5

LEMMA NextTypes == ASSUME TypeInv, [Next]_vars PROVE TypeInv'
BY ONLY TypeInv, [Next]_vars, ClientNextTypes, StartupNextTypes, RecoveryNextTypes,
   BackoffTypes, RequestNextTypes, DeleteTypes, LifespanTypes, StutterTypes DEF Next

\* Every variable keeps its type and the counters their configured bounds,
\* whatever the tasks, the requests and the clients do.
THEOREM TypeCorrect == Spec => []TypeOK
<1>1. TypeInv /\ [Next]_vars => TypeInv' BY NextTypes
<1>2. TypeInv => TypeOK BY DEF TypeInv
<1> QED BY InitType, <1>1, <1>2, PTL DEF Spec

-----------------------------------------------------------------------------
(* active_requests counts the open scopes. *)

LEMMA HoldersFinite == \A c : IsFiniteSet(Holders(c))
<1>1. \A c : Holders(c) \subseteq Requests BY DEF Holders
<1> QED BY <1>1, FS_Subset

\* Nobody opens or closes a scope.
LEMMA ScopesKept ==
  ASSUME ActiveCountsScopes, UNCHANGED <<active, deleting>>,
         \A c \in Clients : Holders(c)' = Holders(c)
  PROVE  ActiveCountsScopes'
BY DEF ActiveCountsScopes

\* A request opens a scope.
LEMMA ScopeEntered ==
  ASSUME TypeInv, ActiveCountsScopes, NEW r \in Requests, NEW c \in Clients,
         pc[r] \notin Holding, Enter(c), NEW h \in Holding,
         pc' = [pc EXCEPT ![r] = h], cl' = [cl EXCEPT ![r] = c], deleting' = deleting
  PROVE  ActiveCountsScopes'
<1> USE DEF TypeInv, TypeOK, RequestTypes, ClientTypes
<1>1. \A d : Holders(d)' = IF d = c THEN Holders(d) \cup {r} ELSE Holders(d)
  BY DEF Holders
<1>2. \A d : r \notin Holders(d) BY DEF Holders
<1>3. Cardinality(Holders(c)') = Cardinality(Holders(c)) + 1
  BY <1>1, <1>2, HoldersFinite, FS_AddElement
<1>4. Cardinality(Holders(c)) \in Nat BY HoldersFinite, FS_CardinalityType
<1>5. active' = [active EXCEPT ![c] = @ + 1] BY DEF Enter
<1> QED BY <1>1, <1>3, <1>4, <1>5 DEF ActiveCountsScopes

\* A request closes its scope: the count is not yet 0, so it goes down by one.
LEMMA ScopeLeft ==
  ASSUME TypeInv, ActiveCountsScopes, NEW r \in Requests,
         pc[r] \in Holding, Leave(cl[r]), pc'[r] \notin Holding,
         \A q \in Requests \ {r} : pc'[q] = pc[q] /\ cl'[q] = cl[q],
         deleting' = deleting
  PROVE  ActiveCountsScopes'
<1> USE DEF TypeInv, TypeOK, RequestTypes, ClientTypes
<1>0. PICK c \in Clients : c = cl[r] BY DEF Control
<1>1. \A d : Holders(d)' = IF d = c THEN Holders(d) \ {r} ELSE Holders(d)
  BY <1>0 DEF Holders
<1>2. r \in Holders(c) BY <1>0 DEF Holders
<1>3. Holders(c)' = Holders(c) \ {r} BY <1>1
<1>4. IsFiniteSet(Holders(c)) BY HoldersFinite
<1>5. Cardinality(Holders(c)') = Cardinality(Holders(c)) - 1
  BY ONLY <1>2, <1>3, <1>4, FS_RemoveElement
<1>6. Cardinality(Holders(c)) \in Nat /\ Cardinality(Holders(c)) # 0
  BY ONLY <1>2, <1>4, FS_CardinalityType, FS_EmptySet
<1>7. active[c] > 0 BY <1>0, <1>6 DEF ActiveCountsScopes
<1>8. active' = [active EXCEPT ![c] = active[c] - 1] BY <1>0, <1>7 DEF Leave
<1> QED BY <1>0, <1>1, <1>5, <1>6, <1>8 DEF ActiveCountsScopes

LEMMA CountInductive == ASSUME IInv, [Next]_vars PROVE ActiveCountsScopes'
<1> USE DEF IInv, Holders
<1>1. CASE RequestNext
  <2>1. PICK r \in Requests : Acquire(r) \/ RequestStep(r) BY <1>1 DEF RequestNext
  <2>2. deleting' = deleting
    BY <2>1 DEF RequestStep, Acquire, Abandon, Send, SendEnds, SendFails, SendAgain,
         ReplayNeeded, Replay, ReplayFails, FirstChunk, StreamBegins, StreamEnds,
         RequestUnchanged
  <2> USE <2>2 DEF TypeInv, TypeOK, RequestTypes
  <2>3. CASE Send(r) \/ StreamBegins(r)
    <3>1. PICK h \in Holding : pc' = [pc EXCEPT ![r] = h]
      BY <2>3 DEF Send, StreamBegins, Holds
    <3>2. Enter(cl[r]) /\ cl' = [cl EXCEPT ![r] = cl[r]] /\ pc[r] \notin Holding
          /\ cl[r] \in Clients
      BY <2>3 DEF Send, StreamBegins, Holds, Control
    <3> QED BY <3>1, <3>2, ScopeEntered
  <2>4. CASE Replay(r)
    <3>1. PICK c \in Clients : Holds(r, c, "replaying") /\ cl' = [cl EXCEPT ![r] = c]
      BY <2>4 DEF Replay
    <3> QED BY <2>4, <3>1, ScopeEntered DEF Replay, Holds
  <2>5. CASE SendEnds(r) \/ SendFails(r)
    BY <2>5, ScopeLeft DEF SendEnds, SendFails, LeaveOnly, Finish
  <2>6. CASE SendAgain(r) \/ ReplayNeeded(r) \/ FirstChunk(r)
    BY <2>6, ScopeLeft DEF SendAgain, ReplayNeeded, FirstChunk, LeaveOnly
  <2>7. CASE StreamEnds(r) /\ pc[r] = "streaming"
    BY <2>7, ScopeLeft DEF StreamEnds, LeaveOnly, Finish
  <2>8. CASE \/ Acquire(r) \/ Abandon(r) \/ ReplayFails(r)
             \/ (StreamEnds(r) /\ pc[r] # "streaming")
    BY <2>8, ScopesKept DEF Acquire, Abandon, ReplayFails, StreamEnds, Finish
  <2> QED BY <2>1, <2>3, <2>4, <2>5, <2>6, <2>7, <2>8 DEF RequestStep
<1>2. CASE DeleteBegins \/ DeleteEnds \/ StopCleanup
  <2>1. \A c : Holders(c)' = Holders(c)
    BY <1>2 DEF DeleteBegins, DeleteEnds, StopCleanup, DeleteUnchanged
  <2>2. \A c : Cardinality(Holders(c)) \in Nat BY HoldersFinite, FS_CardinalityType
  <2> HIDE DEF Holders
  <2>3. active \in [Clients -> Nat] /\ deleting \in 0 .. N
    BY DEF TypeInv, TypeOK, ClientTypes, TaskTypes
  <2>4. CASE DeleteBegins
    BY <2>1, <2>2, <2>3, <2>4, ClientsIndexed DEF ActiveCountsScopes, DeleteBegins, Enter
  <2>5. CASE DeleteEnds \/ StopCleanup
    <3>1. deleting' = 0 /\ (deleting = 0 => UNCHANGED active)
      BY <2>5 DEF DeleteEnds, StopCleanup
    <3>2. deleting # 0 => deleting \in Clients /\ Leave(deleting)
      BY <2>5, <2>3, ClientsIndexed DEF DeleteEnds, StopCleanup, LeaveOnly
    <3>3. CASE deleting = 0
      BY <3>1, <3>3, <2>1, ClientsIndexed DEF ActiveCountsScopes
    <3>4. CASE deleting # 0
      <4>1. active[deleting] = Cardinality(Holders(deleting)) + 1
        BY <3>2, <3>4 DEF ActiveCountsScopes
      <4>2. active' = [active EXCEPT ![deleting] = active[deleting] - 1]
        BY <3>2, <3>4, <4>1, <2>2, <2>3 DEF Leave
      <4> QED
        BY <3>1, <3>2, <3>4, <4>1, <4>2, <2>1, <2>2, <2>3, ClientsIndexed
           DEF ActiveCountsScopes
    <3> QED BY <3>3, <3>4
  <2> QED BY <1>2, <2>4, <2>5
<1>3. CASE ClientNext \/ StartupNext \/ \E c \in Clients : BackoffElapses(c)
  <2>1. UNCHANGED <<active, deleting, requestVars>>
    BY <1>3 DEF ClientNext, StatusChanges, SendArmsAutoClose, AutoCloseWaits,
      AutoCloseBegins, CloseEnds, StartupNext, StartupTakes, StartupWakes,
      StartupRetries, StartupCloseEnds, StartupInitReturns, StartupInitFails,
      StartupUnchanged, BeginRestart, InitReturns, InitRaises, InitTimesOut,
      BackoffElapses, RecoveryUnchanged
  <2> QED BY <2>1, ScopesKept
<1>4. CASE \/ RecoveryNext \/ StopStartup \/ StopRecovery \/ PoolCloses \/ PoolClosed
           \/ UNCHANGED vars
  <2>1. UNCHANGED <<active, deleting, requestVars>>
    BY <1>4 DEF RecoveryNext, RecoveryWakes, PassBegins, RecoverySkips,
      RecoverySeesReady, RecoveryQueues, RecoveryLocks, RecoveryCloseEnds,
      RecoveryInitReturns, RecoveryInitFails, RecoveryPassEnds, RecoveryUnchanged,
      BeginRestart, InitReturns, InitRaises, InitTimesOut, StopStartup, StopRecovery,
      PoolCloses, PoolClosed
  <2> QED BY <2>1, ScopesKept
<1> QED BY <1>1, <1>2, <1>3, <1>4 DEF Next, LifespanNext

-----------------------------------------------------------------------------
(* The restart lock. *)

\* What nobody but the two tasks and the shutdown touches.
LEMMA TasksUntouched ==
  ASSUME TypeInv,
         \/ ClientNext \/ RequestNext \/ DeleteBegins \/ DeleteEnds
         \/ (\E c \in Clients : BackoffElapses(c)) \/ StopCleanup \/ PoolClosed
         \/ UNCHANGED vars
  PROVE  /\ UNCHANGED <<sPc, sIdx, rPc, rIdx, retired>>
         /\ \A c \in Clients : running'[c] = running[c] \/ running'[c] = FALSE
<1>0. running \in [Clients -> BOOLEAN] BY DEF TypeInv, TypeOK, ClientTypes
<1>1. CASE ClientNext
  BY <1>0, <1>1 DEF ClientNext, StatusChanges, SendArmsAutoClose, AutoCloseWaits,
              AutoCloseBegins, CloseEnds, BeginClose
<1>2. CASE RequestNext
  BY <1>2 DEF RequestNext, RequestStep, Acquire, Abandon, Send, SendEnds, SendFails,
              SendAgain, ReplayNeeded, Replay, ReplayFails, FirstChunk, StreamBegins,
              StreamEnds, RequestUnchanged, LeaveOnly, Holds, Enter
<1>3. CASE \/ DeleteBegins \/ DeleteEnds \/ (\E c \in Clients : BackoffElapses(c))
           \/ StopCleanup \/ PoolClosed \/ UNCHANGED vars
  BY <1>3 DEF DeleteBegins, DeleteEnds, BackoffElapses, StopCleanup, PoolClosed,
              DeleteUnchanged, RecoveryUnchanged, LeaveOnly, Enter
<1> QED BY <1>1, <1>2, <1>3

LEMMA LockInductive ==
  ASSUME IInv, [Next]_vars
  PROVE  NoConcurrentRestart' /\ RetiredLeftAlone' /\ RestartedAreDown'
<1> USE DEF IInv, TypeInv, TypeOK, TaskTypes, Control
<1>0. /\ running \in [Clients -> BOOLEAN] /\ sIdx \in Clients
      /\ retired \subseteq Clients
  BY DEF ClientTypes, PoolTypes
<1>1. CASE \/ ClientNext \/ RequestNext \/ DeleteBegins \/ DeleteEnds
           \/ (\E c \in Clients : BackoffElapses(c)) \/ StopCleanup \/ PoolClosed
           \/ UNCHANGED vars
  <2>1. /\ UNCHANGED <<sPc, sIdx, rPc, rIdx, retired>>
        /\ \A c \in Clients : running'[c] = running[c] \/ running'[c] = FALSE
    BY <1>1, TasksUntouched
  <2> QED
    BY <2>1 DEF NoConcurrentRestart, RetiredLeftAlone, RestartedAreDown, StartupHolds,
                RecoveryHolds
<1>2. CASE StopStartup \/ StopRecovery \/ PoolCloses
  BY <1>0, <1>2
     DEF NoConcurrentRestart, RetiredLeftAlone, RestartedAreDown, StartupHolds,
         RecoveryHolds, StopStartup, StopRecovery, PoolCloses
<1>3. CASE StartupNext
  <2> USE <1>0 DEF NoConcurrentRestart, RetiredLeftAlone, RestartedAreDown,
        StartupHolds, RecoveryHolds, StartupUnchanged, StartupAdvances
  <2>1. CASE StartupTakes BY <2>1 DEF StartupTakes, BeginRestart, BeginClose, RestartPc
  <2>2. CASE StartupWakes BY <2>2 DEF StartupWakes
  <2>3. CASE StartupRetries
    BY <2>3 DEF StartupRetries, BeginRestart, BeginClose, RestartPc
  <2>4. CASE StartupCloseEnds BY <2>4 DEF StartupCloseEnds
  <2>5. CASE StartupInitReturns BY <2>5 DEF StartupInitReturns, InitReturns
  <2>6. CASE StartupInitFails
    BY <2>6 DEF StartupInitFails, InitRaises, InitTimesOut, Retire
  <2> QED BY <1>3, <2>1, <2>2, <2>3, <2>4, <2>5, <2>6 DEF StartupNext
<1>4. CASE RecoveryNext
  <2> USE <1>0 DEF NoConcurrentRestart, RetiredLeftAlone, RestartedAreDown,
        StartupHolds, RecoveryHolds, RecoveryUnchanged, RecoveryMovesOn
  <2>1. CASE RecoveryWakes BY <2>1 DEF RecoveryWakes, PassBegins
  <2>2. CASE RecoverySkips \/ RecoverySeesReady
    BY <2>2 DEF RecoverySkips, RecoverySeesReady
  <2>3. CASE RecoveryQueues BY <2>3 DEF RecoveryQueues
  <2>4. CASE RecoveryLocks
    BY <2>4 DEF RecoveryLocks, RecoveryWants, LockFree, StillDown, BeginRestart,
                BeginClose, RestartPc
  <2>5. CASE RecoveryCloseEnds BY <2>5 DEF RecoveryCloseEnds
  <2>6. CASE RecoveryInitReturns BY <2>6 DEF RecoveryInitReturns, InitReturns
  <2>7. CASE RecoveryInitFails
    BY <2>7 DEF RecoveryInitFails, InitRaises, InitTimesOut, Retire
  <2>8. CASE RecoveryPassEnds BY <2>8 DEF RecoveryPassEnds
  <2> QED
    BY <1>4, <2>1, <2>2, <2>3, <2>4, <2>5, <2>6, <2>7, <2>8 DEF RecoveryNext
<1> QED BY <1>1, <1>2, <1>3, <1>4 DEF Next, LifespanNext

-----------------------------------------------------------------------------
(* The shutdown. *)

LEMMA DrainedInductive == ASSUME IInv, [Next]_vars PROVE Drained'
<1> USE DEF IInv, TypeInv, Drained
<1>1. CASE ClientNext \/ RequestNext \/ DeleteBegins \/ DeleteEnds \/ PoolClosed
           \/ StopCleanup \/ \E c \in Clients : BackoffElapses(c)
  <2>1. /\ UNCHANGED <<sPc, rPc>>
        /\ \A c \in Clients : running'[c] = running[c] \/ running'[c] = FALSE
    BY <1>1, TasksUntouched
  <2>2. CASE RequestNext
    <3>1. UNCHANGED <<phase, deleting>>
      BY <2>2 DEF RequestNext, RequestStep, Acquire, Abandon, Send, SendEnds, SendFails,
              SendAgain, ReplayNeeded, Replay, ReplayFails, FirstChunk, StreamBegins,
              StreamEnds, RequestUnchanged
    <3>2. phase = "up"
      BY <2>2 DEF RequestNext, RequestStep, Acquire, Abandon, Send, SendEnds, SendFails,
              SendAgain, ReplayNeeded, Replay, ReplayFails, FirstChunk, StreamBegins,
              StreamEnds
    <3> QED BY <3>1, <3>2
  <2>3. CASE \/ ClientNext \/ DeleteBegins \/ DeleteEnds \/ PoolClosed \/ StopCleanup
             \/ \E c \in Clients : BackoffElapses(c)
    BY <2>1, <2>3 DEF ClientNext, StatusChanges, SendArmsAutoClose, AutoCloseWaits,
      AutoCloseBegins, CloseEnds, DeleteBegins, DeleteEnds, PoolClosed, StopCleanup,
      BackoffElapses, DeleteUnchanged, RecoveryUnchanged
  <2> QED BY <1>1, <2>2, <2>3
<1>2. CASE StartupNext
  <2>1. sPc # "done"
    BY <1>2 DEF StartupNext, StartupTakes, StartupWakes, StartupRetries,
                StartupCloseEnds, StartupInitReturns, StartupInitFails
  <2>2. UNCHANGED <<phase, deleting, rPc, pc>>
    BY <1>2 DEF StartupNext, StartupTakes, StartupWakes, StartupRetries,
                StartupCloseEnds, StartupInitReturns, StartupInitFails, StartupUnchanged
  <2> QED BY <2>1, <2>2
<1>3. CASE RecoveryNext
  <2>1. rPc # "done"
    BY <1>3 DEF RecoveryNext, RecoveryWakes, PassBegins, RecoverySkips,
      RecoverySeesReady, RecoveryQueues, RecoveryLocks, RecoveryCloseEnds,
      RecoveryInitReturns, RecoveryInitFails, RecoveryPassEnds
  <2>2. UNCHANGED <<phase, deleting, sPc, pc>>
    BY <1>3 DEF RecoveryNext, RecoveryWakes, PassBegins, RecoverySkips,
      RecoverySeesReady, RecoveryQueues, RecoveryLocks, RecoveryCloseEnds,
      RecoveryInitReturns, RecoveryInitFails, RecoveryPassEnds, RecoveryUnchanged
  <2>3. phase \in {"up", "startupStopped"} BY <2>1, <2>2 DEF TypeOK, TaskTypes
  <2> QED BY <2>2, <2>3
<1>4. CASE StopStartup \/ StopRecovery \/ PoolCloses \/ UNCHANGED vars
  BY <1>4 DEF StopStartup, StopRecovery, PoolCloses
<1> QED BY <1>1, <1>2, <1>3, <1>4 DEF Next, LifespanNext

-----------------------------------------------------------------------------
(* The inductive invariant, and what follows from it. *)

LEMMA InitIInv == Init => IInv
<1> SUFFICES ASSUME Init PROVE IInv OBVIOUS
<1>1. \A c : Holders(c) = {} BY DEF Init, Holders
<1>2. ActiveCountsScopes
  <2>1. \A c : Cardinality(Holders(c)) = 0
    BY <1>1, FS_EmptySet
  <2> QED BY <2>1, ClientsIndexed DEF ActiveCountsScopes, Init
<1>3. NoConcurrentRestart /\ RetiredLeftAlone /\ RestartedAreDown /\ Drained
  BY DEF Init, NoConcurrentRestart, RetiredLeftAlone, RestartedAreDown, Drained,
         StartupHolds, RecoveryHolds
<1> QED BY <1>2, <1>3, InitType DEF IInv

LEMMA IInvInductive == IInv /\ [Next]_vars => IInv'
BY NextTypes, CountInductive, LockInductive, DrainedInductive DEF IInv

THEOREM Invariance == Spec => []IInv
BY InitIInv, IInvInductive, PTL DEF Spec

\* active_requests is the number of open scopes, for any number of requests over
\* any retries, replays and streams.
THEOREM ScopesCounted == Spec => []ActiveCountsScopes
<1>1. IInv => ActiveCountsScopes BY DEF IInv
<1> QED BY <1>1, Invariance, PTL

\* The start-up task and the recovery task never restart one client together.
THEOREM OneRestarter == Spec => []NoConcurrentRestart
<1>1. IInv => NoConcurrentRestart BY DEF IInv
<1> QED BY <1>1, Invariance, PTL

\* Recovery spends no restart on a retired client.
THEOREM RetiredStayDown == Spec => []RetiredLeftAlone
<1>1. IInv => RetiredLeftAlone BY DEF IInv
<1> QED BY <1>1, Invariance, PTL

\* After the shutdown no client runs and no revival is in flight.
THEOREM ShutdownComplete == Spec => []ShutdownSettled
<1>1. IInv => ShutdownSettled
  BY DEF IInv, Drained, ShutdownSettled, BeingRestarted
<1> QED BY <1>1, Invariance, PTL

-----------------------------------------------------------------------------
(* What a step never does. *)

\* A client that counts no request is in nobody's scope.
LEMMA CountZero ==
  ASSUME IInv, NEW c \in Clients, active[c] = 0
  PROVE  Holders(c) = {} /\ deleting # c
<1>1. IsFiniteSet(Holders(c)) BY HoldersFinite
<1>2. Cardinality(Holders(c)) \in Nat BY ONLY <1>1, FS_CardinalityType
<1>3. Cardinality(Holders(c)) = 0 /\ deleting # c
  BY <1>2 DEF IInv, ActiveCountsScopes
<1> QED BY <1>1, <1>3, FS_EmptySet

LEMMA StepCloses ==
  ASSUME IInv, [Next]_vars, NEW c \in Clients, running[c], ~running'[c]
  PROVE  Holders(c) = {} /\ deleting # c
<1> USE DEF IInv, TypeInv, TypeOK
<1>0. running \in [Clients -> BOOLEAN] /\ sIdx \in Clients
  BY DEF ClientTypes, TaskTypes
<1>1. CASE ClientNext
  <2>1. active[c] = 0
    BY <1>0, <1>1 DEF ClientNext, StatusChanges, SendArmsAutoClose, AutoCloseWaits,
                AutoCloseBegins, CloseEnds, BeginClose
  <2> QED BY <2>1, CountZero
<1>2. CASE StartupNext
  <2>1. active[c] = 0
    BY <1>0, <1>2 DEF StartupNext, StartupTakes, StartupWakes, StartupRetries,
      StartupCloseEnds, StartupInitReturns, StartupInitFails, BeginRestart, BeginClose,
      InitReturns, InitRaises, InitTimesOut, RestartedAreDown, StartupHolds
  <2> QED BY <2>1, CountZero
<1>3. CASE RecoveryNext
  <2>1. active[c] = 0
    BY <1>0, <1>3 DEF RecoveryNext, RecoveryWakes, PassBegins, RecoverySkips,
      RecoverySeesReady, RecoveryQueues, RecoveryLocks, RecoveryCloseEnds,
      RecoveryInitReturns, RecoveryInitFails, RecoveryPassEnds, BeginRestart, BeginClose,
      InitReturns, InitRaises, InitTimesOut, RestartedAreDown, RecoveryHolds
  <2> QED BY <2>1, CountZero
<1>4. CASE PoolCloses
  <2>1. Holders(c) = {} BY <1>4 DEF Holders, Drained, PoolCloses
  <2>2. deleting # c BY <1>4, ClientsIndexed DEF Drained, PoolCloses
  <2> QED BY <2>1, <2>2
<1>5. CASE \/ RequestNext \/ DeleteBegins \/ DeleteEnds \/ StopCleanup \/ PoolClosed
           \/ (\E d \in Clients : BackoffElapses(d)) \/ UNCHANGED vars
           \/ StopStartup \/ StopRecovery
  <2>1. running' = running
    BY <1>5 DEF RequestNext, RequestStep, Acquire, Abandon, Send, SendEnds, SendFails,
      SendAgain, ReplayNeeded, Replay, ReplayFails, FirstChunk, StreamBegins, StreamEnds,
      RequestUnchanged, LeaveOnly, Holds, Enter, DeleteBegins, DeleteEnds, BackoffElapses,
      StopCleanup, PoolClosed, DeleteUnchanged, RecoveryUnchanged, StopStartup,
      StopRecovery
  <2> QED BY <2>1
<1> QED BY <1>1, <1>2, <1>3, <1>4, <1>5 DEF Next, LifespanNext

\* No restart, auto-close or shutdown closes a client that a request, a stream or a
\* remote deletion holds.
THEOREM ScopeProtects == Spec => NoCloseUnderScope
<1>1. IInv /\ [Next]_vars =>
        [\A c \in Clients :
           running[c] /\ ~running'[c] => Holders(c) = {} /\ deleting # c]_vars
  BY StepCloses
<1> QED BY <1>1, Invariance, PTL DEF Spec, NoCloseUnderScope

\* Neither task restarts a client that acquire() could be handing out.
THEOREM RestartsOnlyTheDown == Spec => RestartOnlyDown
<1>1. ASSUME IInv, [Next]_vars, NEW c \in Clients, ~BeingRestarted(c), BeingRestarted(c)'
      PROVE  ~Ready(c)
  <2> USE <1>1 DEF BeingRestarted
  <2>0. sIdx \in Clients BY DEF IInv, TypeInv, TypeOK, TaskTypes
  <2>1. CASE StartupNext
    BY <2>0, <2>1 DEF StartupNext, StartupTakes, StartupWakes, StartupRetries,
      StartupCloseEnds, StartupInitReturns, StartupInitFails, StartupAdvances,
      StartupUnchanged, StillToInit, IInv, RestartedAreDown, StartupHolds, Ready
  <2>2. CASE RecoveryNext
    BY <2>2 DEF RecoveryNext, RecoveryWakes, PassBegins, RecoverySkips,
      RecoverySeesReady, RecoveryQueues, RecoveryLocks, RecoveryCloseEnds,
      RecoveryInitReturns, RecoveryInitFails, RecoveryPassEnds, RecoveryMovesOn,
      RecoveryUnchanged, StillDown
  <2>3. CASE ~StartupNext /\ ~RecoveryNext /\ ~StopStartup /\ ~StopRecovery /\ ~PoolCloses
    BY <2>3, TasksUntouched DEF Next, LifespanNext, IInv
  <2>4. CASE StopStartup \/ StopRecovery \/ PoolCloses
    BY <2>4 DEF StopStartup, StopRecovery, PoolCloses
  <2> QED BY <2>1, <2>2, <2>3, <2>4
<1>2. IInv /\ [Next]_vars =>
        [\A c \in Clients : ~BeingRestarted(c) /\ BeingRestarted(c)' => ~Ready(c)]_vars
  BY <1>1
<1> QED BY <1>2, Invariance, PTL DEF Spec, RestartOnlyDown

-----------------------------------------------------------------------------
(* Sessions without auto_close. *)

LEMMA InitNoTimers == Init => NoTimers
BY DEF Init, NoTimers, RunningHasSession

\* Nothing sleeps towards a close.
LEMMA TimersInductive ==
  ASSUME AutoClose = FALSE, IInv, NoTimers, [Next]_vars
  PROVE  \A c \in Clients : closeTask'[c] = "none"
<1> USE DEF IInv, TypeInv, TypeOK, NoTimers
<1>0. closeTask \in [Clients -> CloseStates] BY DEF ClientTypes
<1>1. CASE ClientNext
  BY <1>0, <1>1 DEF ClientNext, StatusChanges, SendArmsAutoClose, AutoCloseWaits,
                    AutoCloseBegins, CloseEnds
<1>2. CASE StartupNext
  BY <1>0, <1>2 DEF StartupNext, StartupTakes, StartupWakes, StartupRetries,
    StartupCloseEnds, StartupInitReturns, StartupInitFails, BeginRestart, BeginClose,
    InitReturns, InitRaises, InitTimesOut
<1>3. CASE RecoveryNext
  BY <1>0, <1>3 DEF RecoveryNext, RecoveryWakes, PassBegins, RecoverySkips,
    RecoverySeesReady, RecoveryQueues, RecoveryLocks, RecoveryCloseEnds,
    RecoveryInitReturns, RecoveryInitFails, RecoveryPassEnds, BeginRestart, BeginClose,
    InitReturns, InitRaises, InitTimesOut
<1>4. CASE RequestNext
  BY <1>0, <1>4 DEF RequestNext, RequestStep, Acquire, Abandon, Send, SendEnds,
    SendFails, SendAgain, ReplayNeeded, Replay, ReplayFails, FirstChunk, StreamBegins,
    StreamEnds, LeaveOnly, Holds, Enter
<1>5. CASE ~ClientNext /\ ~StartupNext /\ ~RecoveryNext /\ ~RequestNext
  BY <1>0, <1>5 DEF Next, LifespanNext, DeleteBegins, DeleteEnds, BackoffElapses,
    StopStartup, StopRecovery, StopCleanup, PoolCloses, PoolClosed, LeaveOnly, Enter
<1> QED BY <1>1, <1>2, <1>3, <1>4, <1>5

\* No close is under way before the shutdown's own.
LEMMA ClosingInductive ==
  ASSUME AutoClose = FALSE, IInv, NoTimers, [Next]_vars
  PROVE  phase' \notin {"closing", "closed"} => closing' = {}
<1> USE DEF IInv, TypeInv, TypeOK, NoTimers
<1>1. CASE ClientNext
  BY <1>1 DEF ClientNext, StatusChanges, SendArmsAutoClose, AutoCloseWaits,
              AutoCloseBegins, CloseEnds
<1>2. CASE StartupNext
  BY <1>2 DEF StartupNext, StartupTakes, StartupWakes, StartupRetries, StartupUnchanged,
    StartupCloseEnds, StartupInitReturns, StartupInitFails, BeginRestart, InitReturns,
    InitRaises, InitTimesOut
<1>3. CASE RecoveryNext
  BY <1>3 DEF RecoveryNext, RecoveryWakes, PassBegins, RecoverySkips, RecoverySeesReady,
    RecoveryQueues, RecoveryLocks, RecoveryCloseEnds, RecoveryInitReturns,
    RecoveryInitFails, RecoveryPassEnds, RecoveryUnchanged, BeginRestart, InitReturns,
    InitRaises, InitTimesOut
<1>4. CASE RequestNext
  BY <1>4 DEF RequestNext, RequestStep, Acquire, Abandon, Send, SendEnds, SendFails,
    SendAgain, ReplayNeeded, Replay, ReplayFails, FirstChunk, StreamBegins, StreamEnds,
    RequestUnchanged, LeaveOnly, Holds, Enter
<1>5. CASE ~ClientNext /\ ~StartupNext /\ ~RecoveryNext /\ ~RequestNext
  BY <1>5 DEF Next, LifespanNext, DeleteBegins, DeleteEnds, DeleteUnchanged,
    BackoffElapses, RecoveryUnchanged, StopStartup, StopRecovery, StopCleanup,
    PoolCloses, PoolClosed, LeaveOnly, Enter
<1> QED BY <1>1, <1>2, <1>3, <1>4, <1>5

\* A client loses its session only when it is down: while restarted, or when closed.
LEMMA SessionInductive ==
  ASSUME AutoClose = FALSE, IInv, NoTimers, [Next]_vars
  PROVE  RunningHasSession'
<1> USE DEF IInv, TypeInv, TypeOK, NoTimers, RunningHasSession
<1>0. /\ running \in [Clients -> BOOLEAN] /\ session \in [Clients -> BOOLEAN]
      /\ sIdx \in Clients
  BY DEF ClientTypes, TaskTypes
<1>1. CASE ClientNext
  <2>1. \A c \in closing : ~running[c]
    BY DEF Drained, ClientTypes
  <2> QED
    BY <1>0, <1>1, <2>1 DEF ClientNext, StatusChanges, SendArmsAutoClose,
      AutoCloseWaits, AutoCloseBegins, CloseEnds, EndClose
<1>2. CASE StartupNext
  BY <1>0, <1>2 DEF StartupNext, StartupTakes, StartupWakes, StartupRetries,
    StartupCloseEnds, StartupInitReturns, StartupInitFails, BeginRestart, BeginClose,
    EndClose, InitReturns, InitRaises, InitTimesOut, RestartedAreDown, StartupHolds
<1>3. CASE RecoveryNext
  BY <1>0, <1>3 DEF RecoveryNext, RecoveryWakes, PassBegins, RecoverySkips,
    RecoverySeesReady, RecoveryQueues, RecoveryLocks, RecoveryCloseEnds,
    RecoveryInitReturns, RecoveryInitFails, RecoveryPassEnds, BeginRestart, BeginClose,
    EndClose, InitReturns, InitRaises, InitTimesOut, RestartedAreDown, RecoveryHolds
<1>4. CASE RequestNext
  BY <1>4 DEF RequestNext, RequestStep, Acquire, Abandon, Send, SendEnds, SendFails,
    SendAgain, ReplayNeeded, Replay, ReplayFails, FirstChunk, StreamBegins, StreamEnds,
    LeaveOnly, Holds, Enter
<1>5. CASE ~ClientNext /\ ~StartupNext /\ ~RecoveryNext /\ ~RequestNext
  BY <1>5 DEF Next, LifespanNext, DeleteBegins, DeleteEnds, DeleteUnchanged,
    BackoffElapses, RecoveryUnchanged, StopStartup, StopRecovery, StopCleanup,
    PoolCloses, PoolClosed, LeaveOnly, Enter
<1> QED BY <1>1, <1>2, <1>3, <1>4, <1>5

LEMMA TimerlessInvariance == ASSUME AutoClose = FALSE PROVE Spec => [](IInv /\ NoTimers)
<1>1. IInv /\ NoTimers /\ [Next]_vars => NoTimers'
  BY TimersInductive, ClosingInductive, SessionInductive DEF NoTimers
<1> QED BY <1>1, InitIInv, InitNoTimers, IInvInductive, PTL DEF Spec

\* With auto_close off a running client has a session to send on.
THEOREM SessionWhileRunning ==
  ASSUME AutoClose = FALSE PROVE Spec => []RunningHasSession
<1>1. NoTimers => RunningHasSession BY DEF NoTimers
<1> QED BY <1>1, TimerlessInvariance, PTL

\* With auto_close off the session a scope is using is never torn down: what the
\* default setting does not give.
THEOREM SessionKept == ASSUME AutoClose = FALSE PROVE Spec => SessionSurvivesScope
<1>1. ASSUME IInv, NoTimers', [Next]_vars, NEW c \in Clients, SessionUp(c), ~SessionUp(c)'
      PROVE  Holders(c) = {} /\ deleting # c
  <2>1. running[c] /\ ~running'[c] BY <1>1 DEF SessionUp, NoTimers, RunningHasSession
  <2> QED BY <1>1, <2>1, StepCloses
<1>2. IInv /\ NoTimers' /\ [Next]_vars =>
        [\A c \in Clients :
           SessionUp(c) /\ ~SessionUp(c)' => Holders(c) = {} /\ deleting # c]_vars
  BY <1>1
<1> QED BY <1>2, TimerlessInvariance, PTL DEF Spec, SessionSurvivesScope

=============================================================================
