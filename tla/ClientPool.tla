----------------------------- MODULE ClientPool -----------------------------
(***************************************************************************)
(* The pool of Gemini clients and everything that runs against it: the     *)
(* background start-up task, the recovery task, the retention task's       *)
(* remote deletions, the requests, the auto-close timers of the clients    *)
(* and the shutdown sequence of the application.                           *)
(*                                                                         *)
(* asyncio runs one task at a time and switches only at an await, so one   *)
(* action is what a task does from one await to the next.  The restart     *)
(* lock of a client is not a variable: the start-up task holds it exactly  *)
(* while sPc is in Restarting \cup {"retry"}, the recovery task while rPc  *)
(* is in Restarting, both for the client their index points at.            *)
(***************************************************************************)
EXTENDS Integers, FiniteSets

CONSTANTS
  N,             \* number of configured clients
  Requests,      \* requests that may be in flight at the same time
  AutoClose,     \* the configuration's auto_close
  InitAttempts,  \* startup_init_attempts
  MaxFailures,   \* restart_max_failures
  MaxAttempts    \* sends one request may make on one chat

ASSUME PoolAssumption ==
  /\ N \in Nat \ {0}
  /\ IsFiniteSet(Requests)
  /\ AutoClose \in BOOLEAN
  /\ InitAttempts \in Nat \ {0}
  /\ MaxFailures \in Nat \ {0}
  /\ MaxAttempts \in Nat \ {0}

Clients == 1 .. N

VARIABLES
  \* One client (GeminiClientWrapper and the library object under it).
  running,       \* _running
  initialized,   \* _initialized
  needsRestart,  \* _needs_restart
  status,        \* account_status
  session,       \* self.client, the HTTP session, is not None
  active,        \* _active_requests
  closeTask,     \* the pending auto-close: none, sleeping, or waiting for requests
  closing,       \* clients inside `await self.client.close()` outside a restart
  \* The pool.
  rr,            \* head of the round-robin deque
  retired,       \* _retired
  failures,      \* _restart_failures
  deferred,      \* clients whose _restart_not_before lies in the future
  wanted,        \* _recovery_wanted
  \* The start-up task and the recovery task.
  sPc, sIdx, sTry,
  rPc, rIdx, due,
  \* The requests, the deletion in progress and the life of the application.
  pc, cl, orig, tries,
  deleting,
  phase

clientVars  == <<running, initialized, needsRestart, status, session, active,
                 closeTask, closing>>
poolVars    == <<rr, retired, failures, deferred, wanted>>
startupVars == <<sPc, sIdx, sTry>>
recoverVars == <<rPc, rIdx, due>>
requestVars == <<pc, cl, orig, tries>>
vars == <<clientVars, poolVars, startupVars, recoverVars, requestVars,
          deleting, phase>>

-----------------------------------------------------------------------------
(* What the code asks of a client. *)

Healthy(c) ==
  /\ running[c] \/ (AutoClose /\ initialized[c])
  /\ ~needsRestart[c]
  /\ status[c] = "available"

Ready(c) == running[c] /\ Healthy(c)

SessionUp(c) == running[c] /\ session[c]

Restarting == {"closing", "initing"}
StartupHolds(c)  == sIdx = c /\ sPc \in Restarting \cup {"retry"}
RecoveryHolds(c) == rIdx = c /\ rPc \in Restarting

\* A restart of c is under way, by either task.
BeingRestarted(c) == \/ sIdx = c /\ sPc \in Restarting
                     \/ rIdx = c /\ rPc \in Restarting

\* The states in which a request holds its client through request_scope().
Holding == {"sending", "replaying", "streaming"}
Holders(c) == {r \in Requests : pc[r] \in Holding /\ cl[r] = c}

-----------------------------------------------------------------------------
(* The pieces of state change that several handlers share. *)

\* request_scope() entered: the pending auto-close is cancelled.
Enter(c) ==
  /\ active' = [active EXCEPT ![c] = @ + 1]
  /\ closeTask' = [closeTask EXCEPT ![c] = "none"]
  /\ UNCHANGED <<running, initialized, needsRestart, status, session, closing>>

\* Slip: the scope's exit does not count down when the auto-close waits for it.
LeaveUnlessAwaited(c) ==
  active' = [active EXCEPT ![c] = IF closeTask[c] = "waiting" THEN @ ELSE @ - 1]

\* The same scope left.
Leave(c) == active' = [active EXCEPT ![c] = IF @ > 0 THEN @ - 1 ELSE 0]

LeaveOnly(c) ==
  /\ Leave(c)
  /\ UNCHANGED <<running, initialized, needsRestart, status, session,
                 closeTask, closing>>

\* pool.mark_unavailable(c).
Mark(c) ==
  /\ needsRestart' = [needsRestart EXCEPT ![c] = TRUE]
  /\ wanted' = TRUE

\* close() up to its first await.
BeginClose(c) ==
  /\ running' = [running EXCEPT ![c] = FALSE]
  /\ closeTask' = [closeTask EXCEPT ![c] = "none"]

\* close() after its await: `self.client = None`, whatever self.client is by now.
EndClose(c) == session' = [session EXCEPT ![c] = FALSE]

\* Slip: _restart_client without its busy check.
BeginRestartBusy(c) ==
  /\ IF running[c]
       THEN BeginClose(c)
       ELSE UNCHANGED <<running, closeTask>>
  /\ UNCHANGED <<initialized, needsRestart, status, session, active, closing>>

\* _restart_client up to its first await; ClientBusyError is the guard's negation.
BeginRestart(c) ==
  /\ active[c] = 0
  /\ IF running[c]
       THEN BeginClose(c)
       ELSE UNCHANGED <<running, closeTask>>
  /\ UNCHANGED <<initialized, needsRestart, status, session, active, closing>>

\* Where BeginRestart leaves the task: a client without a session closes at once.
RestartPc(c) == IF SessionUp(c) THEN "closing" ELSE "initing"

\* init() returns: an account, or the guest session it falls back to.
InitReturns(c, st) ==
  /\ running' = [running EXCEPT ![c] = TRUE]
  /\ initialized' = [initialized EXCEPT ![c] = TRUE]
  /\ needsRestart' = [needsRestart EXCEPT ![c] = FALSE]
  /\ status' = [status EXCEPT ![c] = st]
  /\ session' = [session EXCEPT ![c] = TRUE]
  /\ closeTask' = [closeTask EXCEPT ![c] = IF AutoClose THEN "timer" ELSE "none"]
  /\ UNCHANGED <<active, closing>>

\* init() raises: the library has called close() on the half-open client.
InitRaises(c) ==
  /\ running' = [running EXCEPT ![c] = FALSE]
  /\ closeTask' = [closeTask EXCEPT ![c] = "none"]
  /\ EndClose(c)
  /\ initialized' = [initialized EXCEPT ![c] = FALSE]
  /\ needsRestart' = [needsRestart EXCEPT ![c] = TRUE]
  /\ UNCHANGED <<status, active, closing>>

\* wait_for() gives up on init(): a cancellation, which `except Exception` in
\* init() does not see, so neither flag moves.
InitTimesOut(c) == UNCHANGED clientVars

\* _retire, which also forgets the client's failure count.
Retire(c) ==
  /\ retired' = retired \cup {c}
  /\ failures' = [failures EXCEPT ![c] = 0]

-----------------------------------------------------------------------------
(* The clients by themselves. *)

\* auto_refresh, the watchdog or a rejected request change the account status.
StatusChanges(c) ==
  /\ running[c]
  /\ \E st \in {"available", "unauthenticated"} \ {status[c]} :
       status' = [status EXCEPT ![c] = st]
  /\ UNCHANGED <<running, initialized, needsRestart, session, active, closeTask,
                 closing, poolVars, startupVars, recoverVars, requestVars,
                 deleting, phase>>

\* A send re-arms the inactivity timer while its request holds the client.
SendArmsAutoClose(c) ==
  /\ AutoClose
  /\ running[c] /\ active[c] > 0 /\ closeTask[c] = "none"
  /\ closeTask' = [closeTask EXCEPT ![c] = "timer"]
  /\ UNCHANGED <<running, initialized, needsRestart, status, session, active,
                 closing, poolVars, startupVars, recoverVars, requestVars,
                 deleting, phase>>

\* close(delay) wakes from its sleep while requests hold the client.
AutoCloseWaits(c) ==
  /\ closeTask[c] = "timer"
  /\ active[c] > 0
  /\ closeTask' = [closeTask EXCEPT ![c] = "waiting"]
  /\ UNCHANGED <<running, initialized, needsRestart, status, session, active,
                 closing, poolVars, startupVars, recoverVars, requestVars,
                 deleting, phase>>

\* close(delay) finds no request in flight, at once or after waiting for it.
AutoCloseBegins(c) ==
  /\ closeTask[c] \in {"timer", "waiting"}
  /\ active[c] = 0
  /\ BeginClose(c)
  /\ closing' = IF session[c] THEN closing \cup {c} ELSE closing
  /\ UNCHANGED <<initialized, needsRestart, status, session, active, poolVars,
                 startupVars, recoverVars, requestVars, deleting, phase>>

\* The close of an auto-close or of the shutdown returns from its await.
CloseEnds(c) ==
  /\ c \in closing
  /\ closing' = closing \ {c}
  /\ EndClose(c)
  /\ UNCHANGED <<running, initialized, needsRestart, status, active, closeTask,
                 poolVars, startupVars, recoverVars, requestVars, deleting,
                 phase>>

ClientNext ==
  \E c \in Clients :
    \/ StatusChanges(c) \/ SendArmsAutoClose(c) \/ AutoCloseWaits(c)
    \/ AutoCloseBegins(c) \/ CloseEnds(c)

-----------------------------------------------------------------------------
(* pool.init, run by the start-up task. *)

StartupUnchanged == UNCHANGED <<recoverVars, requestVars, deleting, phase>>

\* The loop moves on: to the staggered next client or to the end.
StartupAdvances ==
  /\ sPc' = IF sIdx < N THEN "stagger" ELSE "done"
  /\ sTry' = 0

\* Slip: the list made before the loop is trusted, the client not looked at again.
StillToInitListed(c) == TRUE

\* Looked at again under the lock: recovery may have brought the client up.
StillToInit(c) == ~Ready(c)

\* The lock is free: look at the client again, then restart it.
StartupTakes ==
  /\ sPc = "next"
  /\ ~RecoveryHolds(sIdx)
  /\ \/ /\ ~StillToInit(sIdx)
        /\ sPc' = IF sIdx < N THEN "next" ELSE "done"
        /\ sIdx' = IF sIdx < N THEN sIdx + 1 ELSE sIdx
        /\ UNCHANGED <<sTry, clientVars>>
     \/ /\ StillToInit(sIdx) /\ active[sIdx] > 0  \* ClientBusyError
        /\ StartupAdvances
        /\ UNCHANGED <<sIdx, clientVars>>
     \/ /\ StillToInit(sIdx)
        /\ BeginRestart(sIdx)
        /\ sPc' = RestartPc(sIdx)
        /\ sTry' = 1
        /\ sIdx' = sIdx
  /\ UNCHANGED poolVars
  /\ StartupUnchanged

\* The stagger delay is over.
StartupWakes ==
  /\ sPc = "stagger"
  /\ sPc' = "next"
  /\ sIdx' = sIdx + 1
  /\ UNCHANGED <<sTry, clientVars, poolVars>>
  /\ StartupUnchanged

\* The delay between two attempts is over; the lock was held throughout.
StartupRetries ==
  /\ sPc = "retry"
  /\ \/ /\ active[sIdx] > 0                     \* ClientBusyError
        /\ StartupAdvances
        /\ UNCHANGED clientVars
     \/ /\ BeginRestart(sIdx)
        /\ sPc' = RestartPc(sIdx)
        /\ sTry' = sTry + 1
  /\ UNCHANGED <<sIdx, poolVars>>
  /\ StartupUnchanged

StartupCloseEnds ==
  /\ sPc = "closing"
  /\ EndClose(sIdx)
  /\ sPc' = "initing"
  /\ UNCHANGED <<running, initialized, needsRestart, status, active, closeTask,
                 closing, sIdx, sTry, poolVars>>
  /\ StartupUnchanged

StartupInitReturns ==
  /\ sPc = "initing"
  /\ \E st \in {"available", "unauthenticated"} : InitReturns(sIdx, st)
  /\ StartupAdvances
  /\ UNCHANGED <<sIdx, poolVars>>
  /\ StartupUnchanged

\* One attempt failed: wait and retry, or retire the client.
StartupInitFails ==
  /\ sPc = "initing"
  /\ InitRaises(sIdx) \/ InitTimesOut(sIdx)
  /\ IF sTry < InitAttempts
       THEN sPc' = "retry" /\ UNCHANGED <<sTry, retired, failures>>
       ELSE StartupAdvances /\ Retire(sIdx)
  /\ UNCHANGED <<sIdx, rr, deferred, wanted>>
  /\ StartupUnchanged

StartupNext ==
  \/ StartupTakes \/ StartupWakes \/ StartupRetries
  \/ StartupCloseEnds \/ StartupInitReturns \/ StartupInitFails

-----------------------------------------------------------------------------
(* recover_unavailable_clients, run by the recovery task. *)

RecoveryUnchanged == UNCHANGED <<startupVars, requestVars, deleting, phase>>

\* _clear_restart_state
ForgetFailures(c) ==
  /\ failures' = [failures EXCEPT ![c] = 0]
  /\ deferred' = deferred \ {c}

\* A pass reads the clock once and clears the signal up front.
PassBegins ==
  /\ rPc = "wait" /\ phase = "up"
  /\ rPc' = "scan"
  /\ rIdx' = 1
  /\ due' = Clients \ deferred
  /\ wanted' = FALSE
  /\ UNCHANGED <<clientVars, rr, retired, failures, deferred>>
  /\ RecoveryUnchanged

\* Slip: no backstop interval, the signal alone wakes the task.
RecoveryWakesOnSignal == wanted /\ PassBegins

\* The signal, or the poll interval without it, starts a pass.
RecoveryWakes == PassBegins

\* The pass is done with its client.
RecoveryMovesOn ==
  /\ rPc' = "scan"
  /\ rIdx' = rIdx + 1
  /\ due' = due

\* A retired client, or one still backing off.
RecoverySkips ==
  /\ rPc = "scan" /\ rIdx \in Clients
  /\ rIdx \in retired \/ (~Ready(rIdx) /\ rIdx \notin due)
  /\ RecoveryMovesOn
  /\ UNCHANGED <<clientVars, poolVars>>
  /\ RecoveryUnchanged

\* A client back in rotation, by whatever hand.
RecoverySeesReady ==
  /\ rPc = "scan" /\ rIdx \in Clients
  /\ rIdx \notin retired /\ Ready(rIdx)
  /\ ForgetFailures(rIdx)
  /\ RecoveryMovesOn
  /\ UNCHANGED <<clientVars, rr, retired, wanted>>
  /\ RecoveryUnchanged

RecoveryWants == rIdx \in Clients /\ rIdx \in due \ retired /\ ~Ready(rIdx)

\* The start-up task holds the client's lock.
RecoveryQueues ==
  /\ rPc = "scan" /\ RecoveryWants
  /\ StartupHolds(rIdx)
  /\ rPc' = "queued"
  /\ UNCHANGED <<rIdx, due, clientVars, poolVars>>
  /\ RecoveryUnchanged

\* Slip: the lock is not awaited.
LockIgnored(c) == TRUE

\* The client's restart lock is free for the recovery task.
LockFree(c) == ~StartupHolds(c)

\* Slip: only readiness is looked at again under the lock.
StillDownOnly(c) == ~Ready(c)

\* Looked at again under the lock: start-up may have retired or revived the client.
StillDown(c) == c \notin retired /\ ~Ready(c)

\* The lock is taken: retirement and readiness are looked at again under it.
RecoveryLocks ==
  /\ (rPc = "scan" /\ RecoveryWants) \/ rPc = "queued"
  /\ LockFree(rIdx)
  /\ \/ /\ ~StillDown(rIdx) \/ active[rIdx] > 0
        /\ RecoveryMovesOn
        /\ UNCHANGED clientVars
     \/ /\ StillDown(rIdx)
        /\ BeginRestart(rIdx)
        /\ rPc' = RestartPc(rIdx)
        /\ UNCHANGED <<rIdx, due>>
  /\ UNCHANGED poolVars
  /\ RecoveryUnchanged

RecoveryCloseEnds ==
  /\ rPc = "closing"
  /\ EndClose(rIdx)
  /\ rPc' = "initing"
  /\ UNCHANGED <<running, initialized, needsRestart, status, active, closeTask,
                 closing, rIdx, due, poolVars>>
  /\ RecoveryUnchanged

\* The restart returned with the client usable, or it was futile and backs off.
RecoveryInitReturns ==
  /\ rPc = "initing"
  /\ \/ /\ InitReturns(rIdx, "available")
        /\ ForgetFailures(rIdx)
     \/ /\ InitReturns(rIdx, "unauthenticated")
        /\ deferred' = deferred \cup {rIdx}
        /\ UNCHANGED failures
  /\ RecoveryMovesOn
  /\ UNCHANGED <<rr, retired, wanted>>
  /\ RecoveryUnchanged

\* Slip: the limit itself is still allowed.
PastLimit(c) == failures[c] + 1 > MaxFailures

\* One more failure is the last this client may have.
AtLimit(c) == failures[c] + 1 >= MaxFailures

\* The restart raised: count it, and retire the client at the limit.
RecoveryInitFails ==
  /\ rPc = "initing"
  /\ InitRaises(rIdx) \/ InitTimesOut(rIdx)
  /\ IF AtLimit(rIdx)
       THEN Retire(rIdx)
       ELSE /\ failures' = [failures EXCEPT ![rIdx] = @ + 1]
            /\ UNCHANGED retired
  /\ RecoveryMovesOn
  /\ UNCHANGED <<rr, deferred, wanted>>
  /\ RecoveryUnchanged

RecoveryPassEnds ==
  /\ rPc = "scan" /\ rIdx = N + 1
  /\ rPc' = "wait" /\ rIdx' = 1 /\ due' = {}
  /\ UNCHANGED <<clientVars, poolVars>>
  /\ RecoveryUnchanged

\* The clock passes a client's _restart_not_before.
BackoffElapses(c) ==
  /\ c \in deferred
  /\ deferred' = deferred \ {c}
  /\ UNCHANGED <<clientVars, rr, retired, failures, wanted, recoverVars>>
  /\ RecoveryUnchanged

RecoveryNext ==
  \/ RecoveryWakes \/ RecoverySkips \/ RecoverySeesReady \/ RecoveryQueues
  \/ RecoveryLocks \/ RecoveryCloseEnds \/ RecoveryInitReturns
  \/ RecoveryInitFails \/ RecoveryPassEnds

-----------------------------------------------------------------------------
(* Requests. *)

RequestUnchanged ==
  UNCHANGED <<retired, failures, deferred, startupVars, recoverVars, deleting,
              phase>>

\* acquire() without an id: the first ready client from the head of the deque,
\* each client looked at going to the tail.
Distance(c) == (c - rr + N) % N
RoundRobin(c) ==
  /\ Ready(c)
  /\ \A d \in Clients : Ready(d) => Distance(c) <= Distance(d)
  /\ rr' = IF c = N THEN 1 ELSE c + 1

\* A request takes a client, then converts its input, which awaits.
Acquire(r) ==
  /\ phase = "up" /\ pc[r] = "idle"
  /\ \E c \in Clients :
       /\ \/ RoundRobin(c)
          \/ Ready(c) /\ UNCHANGED rr           \* acquire(client_id)
       /\ pc' = [pc EXCEPT ![r] = "picked"]
       /\ cl' = [cl EXCEPT ![r] = c]
       /\ orig' = [orig EXCEPT ![r] = c]
       /\ tries' = [tries EXCEPT ![r] = 0]
  /\ UNCHANGED <<clientVars, wanted>>
  /\ RequestUnchanged

\* The request is over for the pool.
Finish(r) ==
  /\ pc' = [pc EXCEPT ![r] = "idle"]
  /\ cl' = [cl EXCEPT ![r] = 0]
  /\ orig' = [orig EXCEPT ![r] = 0]
  /\ tries' = [tries EXCEPT ![r] = 0]

\* The input is malformed, the stored chat turned out not to be reusable, or a
\* replay failed before its send in gemini.py, which marks nothing.
Abandon(r) ==
  /\ (pc[r] = "picked" /\ tries[r] = 0) \/ pc[r] = "replay"
  /\ Finish(r)
  /\ UNCHANGED <<clientVars, rr, wanted>>
  /\ RequestUnchanged

\* request_scope() around one send, or around the consumption of a stream.
Holds(r, c, held) ==
  /\ Enter(c)
  /\ pc' = [pc EXCEPT ![r] = held]

Send(r) ==
  /\ pc[r] = "picked"
  /\ Holds(r, cl[r], "sending")
  /\ tries' = [tries EXCEPT ![r] = @ + 1]
  /\ UNCHANGED <<cl, orig, rr, wanted>>
  /\ RequestUnchanged

\* A complete output, or a failure on a path that marks nothing (gemini.py, gems.py).
SendEnds(r) ==
  /\ pc[r] \in {"sending", "replaying"}
  /\ LeaveOnly(cl[r])
  /\ Finish(r)
  /\ UNCHANGED <<rr, wanted>>
  /\ RequestUnchanged

\* The send fails in chat.py: scope left, and the endpoint's client marked.
SendFails(r) ==
  /\ pc[r] \in {"sending", "replaying"}
  /\ Leave(cl[r])
  /\ Mark(orig[r])
  /\ Finish(r)
  /\ UNCHANGED <<running, initialized, status, session, closeTask, closing, rr>>
  /\ RequestUnchanged

\* A transient error or a stock refusal: sleep outside the scope, send again.
SendAgain(r) ==
  /\ pc[r] = "sending" /\ tries[r] < MaxAttempts
  /\ LeaveOnly(cl[r])
  /\ pc' = [pc EXCEPT ![r] = "picked"]
  /\ UNCHANGED <<cl, orig, tries, rr, wanted>>
  /\ RequestUnchanged

\* ModelInvalidError on a reused chat: convert the whole history, which awaits.
ReplayNeeded(r) ==
  /\ pc[r] = "sending"
  /\ LeaveOnly(cl[r])
  /\ pc' = [pc EXCEPT ![r] = "replay"]
  /\ UNCHANGED <<cl, orig, tries, rr, wanted>>
  /\ RequestUnchanged

\* Any ready client takes the replay, with no await between acquire and scope.
Replay(r) ==
  /\ pc[r] = "replay"
  /\ \E c \in Clients :
       /\ RoundRobin(c)
       /\ Holds(r, c, "replaying")
       /\ cl' = [cl EXCEPT ![r] = c]
  /\ UNCHANGED <<orig, tries, wanted>>
  /\ RequestUnchanged

\* No client is ready for it, or the conversion failed: chat.py marks its client.
ReplayFails(r) ==
  /\ pc[r] = "replay"
  /\ Mark(orig[r])
  /\ Finish(r)
  /\ UNCHANGED <<running, initialized, status, session, active, closeTask,
                 closing, rr>>
  /\ RequestUnchanged

\* A stream's first chunk is pulled inside the send's scope, which ends with it.
\* chat.py opens a new scope once the response is iterated, gemini.py does not.
FirstChunk(r) ==
  /\ pc[r] \in {"sending", "replaying"}
  /\ LeaveOnly(cl[r])
  /\ \E next \in {"gap", "unscoped"} : pc' = [pc EXCEPT ![r] = next]
  /\ UNCHANGED <<cl, orig, tries, rr, wanted>>
  /\ RequestUnchanged

\* _hold_request_scope starts to iterate.
StreamBegins(r) ==
  /\ pc[r] = "gap"
  /\ Holds(r, cl[r], "streaming")
  /\ UNCHANGED <<cl, orig, tries, rr, wanted>>
  /\ RequestUnchanged

\* The stream is over, failed or was never iterated; nothing is marked.
StreamEnds(r) ==
  /\ pc[r] \in {"gap", "streaming", "unscoped"}
  /\ IF pc[r] = "streaming" THEN LeaveOnly(cl[r]) ELSE UNCHANGED clientVars
  /\ Finish(r)
  /\ UNCHANGED <<rr, wanted>>
  /\ RequestUnchanged

RequestStep(r) ==
  \/ Abandon(r) \/ Send(r) \/ SendEnds(r) \/ SendFails(r) \/ SendAgain(r)
  \/ ReplayNeeded(r) \/ Replay(r) \/ ReplayFails(r) \/ FirstChunk(r)
  \/ StreamBegins(r) \/ StreamEnds(r)

RequestNext == \E r \in Requests : Acquire(r) \/ RequestStep(r)

-----------------------------------------------------------------------------
(* pool.delete_chat, called by the retention task. *)

DeleteUnchanged ==
  UNCHANGED <<poolVars, startupVars, recoverVars, requestVars, phase>>

DeleteBegins ==
  /\ deleting = 0 /\ phase = "up"
  /\ \E c \in Clients \ retired :
       /\ Ready(c)
       /\ Enter(c)
       /\ deleting' = c
  /\ DeleteUnchanged

DeleteEnds ==
  /\ deleting # 0
  /\ LeaveOnly(deleting)
  /\ deleting' = 0
  /\ DeleteUnchanged

-----------------------------------------------------------------------------
(* The end of lifespan, after the server has finished its requests. *)

\* Both stop events are set and the start-up task is cancelled, in mid-await.
StopStartup ==
  /\ phase = "up"
  /\ \A r \in Requests : pc[r] = "idle"
  /\ phase' = "startupStopped"
  /\ sPc' = "done" /\ sTry' = 0
  /\ UNCHANGED <<clientVars, poolVars, sIdx, recoverVars, requestVars,
                 deleting>>

\* Slip: the stop event is set, but the recovery task is not cancelled and awaited.
StopRecoverySignalled ==
  /\ phase = "startupStopped"
  /\ phase' = "recoveryStopped"
  /\ UNCHANGED <<clientVars, poolVars, startupVars, recoverVars, requestVars,
                 deleting>>

\* The recovery task is cancelled: settled before pool.close().
StopRecovery ==
  /\ phase = "startupStopped"
  /\ phase' = "recoveryStopped"
  /\ rPc' = "done" /\ rIdx' = 1 /\ due' = {}
  /\ UNCHANGED <<clientVars, poolVars, startupVars, requestVars, deleting>>

\* The retention task is cancelled; a deletion in progress leaves its scope.
StopCleanup ==
  /\ phase = "recoveryStopped"
  /\ phase' = "cleanupStopped"
  /\ IF deleting = 0 THEN UNCHANGED clientVars ELSE LeaveOnly(deleting)
  /\ deleting' = 0
  /\ UNCHANGED <<poolVars, startupVars, recoverVars, requestVars>>

\* pool.close() closes the running clients side by side.
PoolCloses ==
  /\ phase = "cleanupStopped"
  /\ phase' = "closing"
  /\ closing' = closing \cup {c \in Clients : SessionUp(c)}
  /\ running' = [c \in Clients |-> FALSE]
  /\ closeTask' = [c \in Clients |-> IF running[c] THEN "none" ELSE closeTask[c]]
  /\ UNCHANGED <<initialized, needsRestart, status, session, active, poolVars,
                 startupVars, recoverVars, requestVars, deleting>>

PoolClosed ==
  /\ phase = "closing" /\ closing = {}
  /\ phase' = "closed"
  /\ UNCHANGED <<clientVars, poolVars, startupVars, recoverVars, requestVars,
                 deleting>>

LifespanNext ==
  StopStartup \/ StopRecovery \/ StopCleanup \/ PoolCloses \/ PoolClosed

-----------------------------------------------------------------------------
Init ==
  /\ running = [c \in Clients |-> FALSE]
  /\ initialized = [c \in Clients |-> FALSE]
  /\ needsRestart = [c \in Clients |-> FALSE]
  /\ status = [c \in Clients |-> "available"]
  /\ session = [c \in Clients |-> FALSE]
  /\ active = [c \in Clients |-> 0]
  /\ closeTask = [c \in Clients |-> "none"]
  /\ closing = {}
  /\ rr = 1 /\ retired = {} /\ deferred = {} /\ wanted = FALSE
  /\ failures = [c \in Clients |-> 0]
  /\ sPc = "next" /\ sIdx = 1 /\ sTry = 0
  /\ rPc = "wait" /\ rIdx = 1 /\ due = {}
  /\ pc = [r \in Requests |-> "idle"]
  /\ cl = [r \in Requests |-> 0]
  /\ orig = [r \in Requests |-> 0]
  /\ tries = [r \in Requests |-> 0]
  /\ deleting = 0
  /\ phase = "up"

Next ==
  \/ ClientNext \/ StartupNext \/ RecoveryNext \/ RequestNext
  \/ \E c \in Clients : BackoffElapses(c)
  \/ DeleteBegins \/ DeleteEnds \/ LifespanNext

Spec == Init /\ [][Next]_vars


\* The event loop runs every task that can run and every await ends: the library's
\* calls return or time out, sleeps and polls elapse, requests come to an end.
\* Nothing makes a request arrive, a status change or an auto-close elapse.
Fairness ==
  /\ WF_vars(StartupNext)
  /\ WF_vars(RecoveryNext)
  /\ WF_vars(DeleteEnds)
  /\ \A r \in Requests : WF_vars(RequestStep(r))
  /\ \A c \in Clients : WF_vars(CloseEnds(c)) /\ WF_vars(BackoffElapses(c))

FairSpec == Spec /\ Fairness

-----------------------------------------------------------------------------
(* Properties. *)

CloseStates   == {"none", "timer", "waiting"}
RequestStates == {"idle", "picked", "sending", "replay", "replaying", "gap",
                  "streaming", "unscoped"}
Phases == {"up", "startupStopped", "recoveryStopped", "cleanupStopped", "closing",
           "closed"}

ClientTypes ==
  /\ running \in [Clients -> BOOLEAN]
  /\ initialized \in [Clients -> BOOLEAN]
  /\ needsRestart \in [Clients -> BOOLEAN]
  /\ status \in [Clients -> {"available", "unauthenticated"}]
  /\ session \in [Clients -> BOOLEAN]
  /\ active \in [Clients -> Nat]
  /\ closeTask \in [Clients -> CloseStates]
  /\ closing \subseteq Clients

PoolTypes ==
  /\ rr \in Clients
  /\ retired \subseteq Clients
  /\ failures \in [Clients -> 0 .. MaxFailures - 1]
  /\ deferred \subseteq Clients

TaskTypes ==
  /\ sPc \in {"next", "closing", "initing", "retry", "stagger", "done"}
  /\ sIdx \in Clients
  /\ sTry \in 0 .. InitAttempts
  /\ rPc \in {"wait", "scan", "queued", "closing", "initing", "done"}
  /\ rIdx \in 1 .. N + 1
  /\ due \subseteq Clients
  /\ deleting \in 0 .. N
  /\ phase \in Phases

RequestTypes ==
  /\ pc \in [Requests -> RequestStates]
  /\ cl \in [Requests -> 0 .. N]
  /\ orig \in [Requests -> 0 .. N]
  /\ tries \in [Requests -> 0 .. MaxAttempts]

\* Every variable keeps its type, and the counters their configured bounds.
TypeOK ==
  ClientTypes /\ PoolTypes /\ TaskTypes /\ RequestTypes /\ wanted \in BOOLEAN

\* active_requests, the number the busy check and the auto-close go by, is the
\* number of scopes that are really open, over every retry, replay and stream.
ActiveCountsScopes ==
  \A c \in Clients :
    active[c] = Cardinality(Holders(c)) + IF deleting = c THEN 1 ELSE 0

\* The start-up task and the recovery task never restart one client together.
NoConcurrentRestart ==
  \A c \in Clients : ~(StartupHolds(c) /\ RecoveryHolds(c))

\* Recovery spends no restart on a retired client, even one that was retired
\* while the pass was queued for its lock.
RetiredLeftAlone ==
  \A c \in Clients : RecoveryHolds(c) => c \notin retired

\* A client is restarted only while it is out of service: neither task tears
\* down a client that acquire() could be handing out.
RestartOnlyDown ==
  [][\A c \in Clients : ~BeingRestarted(c) /\ BeingRestarted(c)' => ~Ready(c)]_vars

\* No restart, auto-close or shutdown begins to close a client that a request, a
\* stream or a remote deletion holds through request_scope().
NoCloseUnderScope ==
  [][\A c \in Clients :
       running[c] /\ ~running'[c] => Holders(c) = {} /\ deleting # c]_vars

\* The session a scope is using stays: "a background restart or auto-close cannot
\* tear the session down mid-delete".
SessionSurvivesScope ==
  [][\A c \in Clients :
       SessionUp(c) /\ ~SessionUp(c)' => Holders(c) = {} /\ deleting # c]_vars

\* A client that runs has a session to send on.
RunningHasSession == \A c \in Clients : running[c] => session[c]

\* A stream keeps its session from its first chunk on: "the scope has to outlive
\* the send".
StreamKeepsSession ==
  [][\A c \in Clients : SessionUp(c) /\ ~SessionUp(c)' =>
       ~\E r \in Requests : pc[r] \in {"gap", "streaming"} /\ cl[r] = c]_vars

\* A retired client reads as unhealthy until the process restarts.
RetiredReadsFalse == \A c \in retired : ~Healthy(c)

\* After the shutdown no client is left running and no revival is in flight.
ShutdownSettled ==
  phase = "closed" => \A c \in Clients : ~running[c] /\ ~BeingRestarted(c)

\* Recovery never forgets a client: it is again and again in service or being
\* restarted, unless it was retired or the application stopped.
Revived ==
  \A c \in Clients :
    []<>(Ready(c) \/ BeingRestarted(c) \/ c \in retired \/ phase # "up")

=============================================================================
