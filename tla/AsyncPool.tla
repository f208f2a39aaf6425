------------------------------- MODULE AsyncPool -------------------------------
(* The pool of the async library, src/runtime/coro_runtime.c: the thread pool's   *)
(* sister with a way to cancel a job, workers that skip a cancelled job, and a    *)
(* runtime that can be shut down and started again.                               *)
(*                                                                                *)
(* The queue is the sequence of its jobs; ThreadPool has the arithmetic of the    *)
(* ring both use.  A critical section is one step unless something it reads is    *)
(* written outside its mutex (the shutdown flag, done): then it is split and the  *)
(* mutex is a variable.  Callers are threads of the program, and no job is one: a *)
(* job that calls the pool itself is left out.  A job is named by its future.     *)
EXTENDS Naturals, FiniteSets, Sequences

CONSTANTS AsyncWorkers,   \* the workers __async_runtime_init starts
          AsyncCallers,   \* threads of the program
          AsyncFutures,   \* the futures they create
          AsyncCap,       \* STS_ASYNC_QUEUE_CAP
          Nobody

AsyncThreads == AsyncWorkers \cup AsyncCallers

\* __async_runtime_init starts at least one worker.
ASSUME AsyncAssumption ==
  /\ IsFiniteSet(AsyncWorkers) /\ IsFiniteSet(AsyncCallers) /\ AsyncWorkers # {}
  /\ AsyncWorkers \cap AsyncCallers = {} /\ Nobody \notin AsyncThreads \cup AsyncFutures
  /\ AsyncCap \in Nat \ {0}

VARIABLES
  asyncQueue,                     \* the jobs that wait for a worker
  asyncDown, asyncUp,             \* __async_q_shutdown; __async_nworkers > 0
  asyncQMutex, asyncAnyMutex, asyncInitMutex,
  asyncPc,                        \* where each thread is
  asyncArg,                       \* the futures a caller's call is about, a worker's job
  asyncCall,                      \* the call a caller is in
  asyncAlloc, asyncDone, asyncCancelled, asyncFMutex,   \* each future
  asyncRuns,                      \* history: how often its function has been started
  asyncInTime                     \* history: futures cancelled while they were queued

asyncShared == <<asyncQueue, asyncDown, asyncUp, asyncQMutex, asyncAnyMutex, asyncInitMutex>>
asyncFutureVars == <<asyncAlloc, asyncDone, asyncCancelled, asyncFMutex, asyncRuns, asyncInTime>>
asyncVars == <<asyncShared, asyncPc, asyncArg, asyncCall, asyncFutureVars>>

AsyncInit ==
  /\ asyncQueue = <<>> /\ asyncDown = FALSE /\ asyncUp = TRUE
  /\ asyncQMutex = Nobody /\ asyncAnyMutex = Nobody /\ asyncInitMutex = Nobody
  /\ asyncPc = [t \in AsyncThreads |-> IF t \in AsyncWorkers THEN "lock" ELSE "app"]
  /\ asyncArg = [t \in AsyncThreads |-> {}]
  /\ asyncCall = [t \in AsyncCallers |-> "none"]
  /\ asyncAlloc = [f \in AsyncFutures |-> "none"]
  /\ asyncDone = [f \in AsyncFutures |-> FALSE]
  /\ asyncCancelled = [f \in AsyncFutures |-> FALSE]
  /\ asyncFMutex = [f \in AsyncFutures |-> Nobody]
  /\ asyncRuns = [f \in AsyncFutures |-> 0]
  /\ asyncInTime = {}

--------------------------------------------------------------------------------
(* Threads and wait sets. *)

\* Where a wait on a condition variable goes on.
AsyncResume == [asleep |-> "lock", d_asleep |-> "d_lock", g_asleep |-> "g_lock", a_asleep |-> "a_wake"]
AsyncAsleep(p) == {t \in AsyncThreads : asyncPc[t] = p}
AsyncGo(t, p) == asyncPc' = [asyncPc EXCEPT ![t] = p]
AsyncGoWaking(t, p, W) ==
  asyncPc' = [u \in AsyncThreads |->
                IF u = t THEN p ELSE IF u \in W THEN AsyncResume[asyncPc[u]] ELSE asyncPc[u]]
\* What one signal may wake.
AsyncSignalled(p) == IF AsyncAsleep(p) = {} THEN {{}} ELSE {{t} : t \in AsyncAsleep(p)}
AsyncReturn(t) ==
  asyncCall' = [asyncCall EXCEPT ![t] = "none"] /\ asyncArg' = [asyncArg EXCEPT ![t] = {}]
AsyncEnter(t, c, F) ==
  asyncCall' = [asyncCall EXCEPT ![t] = c] /\ asyncArg' = [asyncArg EXCEPT ![t] = F]
AsyncStays == UNCHANGED <<asyncCall, asyncArg>>

\* The callers' part: a handle is used between the dispatch that returned it and its
\* drop, and nobody drops what another call still uses.
AsyncUsers(f) == {t \in AsyncCallers : f \in asyncArg[t] /\ asyncCall[t] # "shutdown"}
AsyncMayUse(f) ==
  asyncAlloc[f] = "live" /\ \A t \in AsyncUsers(f) : asyncCall[t] \notin {"dispatch", "drop"}

--------------------------------------------------------------------------------
(* __async_dispatch. *)

AsyncDispatch(t, f) ==
  /\ asyncPc[t] = "app" /\ asyncAlloc[f] = "none"
  /\ asyncAlloc' = [asyncAlloc EXCEPT ![f] = "live"]
  /\ AsyncEnter(t, "dispatch", {f}) /\ AsyncGo(t, "d_lock")
  /\ UNCHANGED <<asyncShared, asyncDone, asyncCancelled, asyncFMutex, asyncRuns, asyncInTime>>

AsyncDispatchWait(t) ==
  /\ asyncPc[t] = "d_lock" /\ asyncQMutex = Nobody /\ Len(asyncQueue) = AsyncCap
  /\ AsyncGo(t, "d_asleep")
  /\ AsyncStays /\ UNCHANGED <<asyncShared, asyncFutureVars>>

AsyncEnqueue(t) ==
  /\ asyncPc[t] = "d_lock" /\ asyncQMutex = Nobody /\ Len(asyncQueue) < AsyncCap
  /\ \E f \in asyncArg[t] : asyncQueue' = Append(asyncQueue, f)
  /\ \E W \in AsyncSignalled("asleep") : AsyncGoWaking(t, "app", W)
  /\ AsyncReturn(t)
  /\ UNCHANGED <<asyncDown, asyncUp, asyncQMutex, asyncAnyMutex, asyncInitMutex, asyncFutureVars>>

(* __async_get and __async_drop, whose first half is a get. *)

AsyncGet(t, f, c) ==
  /\ asyncPc[t] = "app" /\ AsyncMayUse(f)
  /\ c = "drop" => AsyncUsers(f) = {}
  /\ AsyncEnter(t, c, {f})
  /\ AsyncGo(t, IF asyncDone[f] THEN "got" ELSE "g_lock")
  /\ UNCHANGED <<asyncShared, asyncFutureVars>>

AsyncGetLock(t) ==
  /\ asyncPc[t] = "g_lock"
  /\ \E f \in asyncArg[t] :
       /\ asyncFMutex[f] = Nobody
       /\ \/ asyncDone[f] /\ AsyncGo(t, "got") /\ UNCHANGED asyncFMutex
          \/ ~asyncDone[f] /\ AsyncGo(t, "g_park") /\ asyncFMutex' = [asyncFMutex EXCEPT ![f] = t]
  /\ AsyncStays
  /\ UNCHANGED <<asyncShared, asyncAlloc, asyncDone, asyncCancelled, asyncRuns, asyncInTime>>

AsyncGetWait(t) ==
  /\ asyncPc[t] = "g_park" /\ AsyncGo(t, "g_asleep")
  /\ asyncFMutex' = [f \in AsyncFutures |-> IF f \in asyncArg[t] THEN Nobody ELSE asyncFMutex[f]]
  /\ AsyncStays
  /\ UNCHANGED <<asyncShared, asyncAlloc, asyncDone, asyncCancelled, asyncRuns, asyncInTime>>

AsyncGetReturn(t) ==
  /\ asyncPc[t] = "got" /\ AsyncGo(t, "app") /\ AsyncReturn(t)
  /\ asyncAlloc' = [f \in AsyncFutures |->
       IF asyncCall[t] = "drop" /\ f \in asyncArg[t] THEN "freed" ELSE asyncAlloc[f]]
  /\ UNCHANGED <<asyncShared, asyncDone, asyncCancelled, asyncFMutex, asyncRuns, asyncInTime>>

(* __async_wait_any; a call that finds a future done at once changes nothing. *)

AsyncSomeDone(t) == \E f \in asyncArg[t] : asyncDone[f]

AsyncWaitAny(t, F) ==
  /\ asyncPc[t] = "app" /\ F # {} /\ \A f \in F : AsyncMayUse(f) /\ ~asyncDone[f]
  /\ AsyncEnter(t, "any", F) /\ AsyncGo(t, "a_lock")
  /\ UNCHANGED <<asyncShared, asyncFutureVars>>

AsyncAnyLock(t) ==
  /\ asyncPc[t] = "a_lock" /\ asyncAnyMutex = Nobody
  /\ \/ AsyncSomeDone(t) /\ AsyncGo(t, "app") /\ AsyncReturn(t) /\ UNCHANGED asyncAnyMutex
     \/ ~AsyncSomeDone(t) /\ AsyncGo(t, "a_park") /\ asyncAnyMutex' = t /\ AsyncStays
  /\ UNCHANGED <<asyncQueue, asyncDown, asyncUp, asyncQMutex, asyncInitMutex, asyncFutureVars>>

AsyncAnyWait(t) ==
  /\ asyncPc[t] = "a_park" /\ AsyncGo(t, "a_asleep") /\ asyncAnyMutex' = Nobody /\ AsyncStays
  /\ UNCHANGED <<asyncQueue, asyncDown, asyncUp, asyncQMutex, asyncInitMutex, asyncFutureVars>>

AsyncAnyWake(t) ==
  /\ asyncPc[t] = "a_wake" /\ asyncAnyMutex = Nobody
  /\ \/ AsyncSomeDone(t) /\ AsyncGo(t, "app") /\ AsyncReturn(t)
     \/ ~AsyncSomeDone(t) /\ AsyncGo(t, "a_lock") /\ AsyncStays
  /\ UNCHANGED <<asyncShared, asyncFutureVars>>

\* __async_cancel only stores the flag, whatever has become of the job.
AsyncCancel(t, f) ==
  /\ asyncPc[t] = "app" /\ AsyncMayUse(f) /\ ~asyncCancelled[f]
  /\ asyncCancelled' = [asyncCancelled EXCEPT ![f] = TRUE]
  /\ asyncInTime' = asyncInTime \cup ({f} \cap {asyncQueue[i] : i \in DOMAIN asyncQueue})
  /\ AsyncStays
  /\ UNCHANGED <<asyncShared, asyncPc, asyncAlloc, asyncDone, asyncFMutex, asyncRuns>>

--------------------------------------------------------------------------------
(* __async_worker_thread_fn. *)

AsyncSeesEmpty(w) ==
  /\ asyncPc[w] = "lock" /\ asyncQMutex = Nobody
  /\ asyncQueue = <<>> /\ ~asyncDown
  /\ asyncQMutex' = w /\ AsyncGo(w, "park") /\ AsyncStays
  /\ UNCHANGED <<asyncQueue, asyncDown, asyncUp, asyncAnyMutex, asyncInitMutex, asyncFutureVars>>

AsyncPark(w) ==
  /\ asyncPc[w] = "park" /\ asyncQMutex' = Nobody /\ AsyncGo(w, "asleep") /\ AsyncStays
  /\ UNCHANGED <<asyncQueue, asyncDown, asyncUp, asyncAnyMutex, asyncInitMutex, asyncFutureVars>>

\* (Fault: a shutdown is obeyed although jobs are waiting.)
AsyncExit_Eager(w) ==
  /\ asyncPc[w] = "lock" /\ asyncQMutex = Nobody /\ asyncDown
  /\ AsyncGo(w, "down") /\ AsyncStays
  /\ UNCHANGED <<asyncShared, asyncFutureVars>>

AsyncExit(w) ==
  /\ asyncPc[w] = "lock" /\ asyncQMutex = Nobody
  /\ asyncQueue = <<>> /\ asyncDown
  /\ AsyncGo(w, "down") /\ AsyncStays
  /\ UNCHANGED <<asyncShared, asyncFutureVars>>

AsyncTake(w) ==
  /\ asyncPc[w] = "lock" /\ asyncQMutex = Nobody /\ asyncQueue # <<>>
  /\ asyncQueue' = Tail(asyncQueue)
  /\ asyncArg' = [asyncArg EXCEPT ![w] = {Head(asyncQueue)}]
  /\ \E W \in AsyncSignalled("d_asleep") : AsyncGoWaking(w, "check", W)
  /\ UNCHANGED <<asyncDown, asyncUp, asyncQMutex, asyncAnyMutex, asyncInitMutex, asyncCall, asyncFutureVars>>

\* (Fault: the cancelled flag is not looked at.)
AsyncStart_Always(w) ==
  /\ asyncPc[w] = "check" /\ AsyncGo(w, "run")
  /\ asyncRuns' = [f \in AsyncFutures |-> asyncRuns[f] + IF f \in asyncArg[w] THEN 1 ELSE 0]
  /\ AsyncStays
  /\ UNCHANGED <<asyncShared, asyncAlloc, asyncDone, asyncCancelled, asyncFMutex, asyncInTime>>

\* The flag decides once; a job that has begun is not stopped.
AsyncStart(w) ==
  /\ asyncPc[w] = "check"
  /\ \E f \in asyncArg[w] :
       /\ AsyncGo(w, IF asyncCancelled[f] THEN "complete" ELSE "run")
       /\ asyncRuns' = [asyncRuns EXCEPT ![f] = @ + IF asyncCancelled[f] THEN 0 ELSE 1]
  /\ AsyncStays
  /\ UNCHANGED <<asyncShared, asyncAlloc, asyncDone, asyncCancelled, asyncFMutex, asyncInTime>>

AsyncFinish(w) ==
  /\ asyncPc[w] = "run" /\ AsyncGo(w, "complete") /\ AsyncStays
  /\ UNCHANGED <<asyncShared, asyncFutureVars>>

\* done is stored under the future's mutex; the getter's fast path reads it without.
AsyncComplete(w) ==
  /\ asyncPc[w] = "complete"
  /\ \E f \in asyncArg[w] :
       /\ asyncFMutex[f] = Nobody
       /\ asyncFMutex' = [asyncFMutex EXCEPT ![f] = w]
       /\ asyncDone' = [asyncDone EXCEPT ![f] = TRUE]
  /\ AsyncGo(w, "notify") /\ AsyncStays
  /\ UNCHANGED <<asyncShared, asyncAlloc, asyncCancelled, asyncRuns, asyncInTime>>

AsyncNotify(w) ==
  /\ asyncPc[w] = "notify"
  /\ \E f \in asyncArg[w] :
       /\ asyncFMutex' = [asyncFMutex EXCEPT ![f] = Nobody]
       /\ AsyncGoWaking(w, "anycast", {t \in AsyncAsleep("g_asleep") : f \in asyncArg[t]})
  /\ AsyncStays
  /\ UNCHANGED <<asyncShared, asyncAlloc, asyncDone, asyncCancelled, asyncRuns, asyncInTime>>

AsyncAnyCast(w) ==
  /\ asyncPc[w] = "anycast" /\ asyncAnyMutex = Nobody
  /\ asyncArg' = [asyncArg EXCEPT ![w] = {}]
  /\ AsyncGoWaking(w, "lock", AsyncAsleep("a_asleep"))
  /\ UNCHANGED <<asyncShared, asyncCall, asyncFutureVars>>

--------------------------------------------------------------------------------
(* __async_runtime_shutdown and __async_runtime_init: both hold the init mutex, and  *)
(* do nothing where the runtime is down, or up, already.                             *)

\* arg notes, as history, the jobs that were in the queue or further.
AsyncShutdown(t) ==
  /\ asyncPc[t] = "app" /\ asyncInitMutex = Nobody /\ asyncUp
  /\ asyncInitMutex' = t /\ asyncDown' = TRUE
  /\ AsyncEnter(t, "shutdown", {f \in AsyncFutures :
       asyncAlloc[f] = "live" /\ \A u \in AsyncUsers(f) : asyncCall[u] # "dispatch"})
  /\ AsyncGo(t, "s_cast")
  /\ UNCHANGED <<asyncQueue, asyncUp, asyncQMutex, asyncAnyMutex, asyncFutureVars>>

\* (Fault: the broadcast does not take the queue's mutex.)
AsyncShutdownCast_Unlocked(t) ==
  /\ asyncPc[t] = "s_cast"
  /\ AsyncGoWaking(t, "s_join", AsyncAsleep("asleep")) /\ AsyncStays
  /\ UNCHANGED <<asyncShared, asyncFutureVars>>

AsyncShutdownCast(t) ==
  /\ asyncPc[t] = "s_cast" /\ asyncQMutex = Nobody
  /\ AsyncGoWaking(t, "s_join", AsyncAsleep("asleep")) /\ AsyncStays
  /\ UNCHANGED <<asyncShared, asyncFutureVars>>

AsyncShutdownJoin(t) ==
  /\ asyncPc[t] = "s_join" /\ \A w \in AsyncWorkers : asyncPc[w] = "down"
  /\ asyncUp' = FALSE /\ asyncDown' = FALSE /\ asyncInitMutex' = Nobody
  /\ AsyncGo(t, "app") /\ AsyncReturn(t)
  /\ UNCHANGED <<asyncQueue, asyncQMutex, asyncAnyMutex, asyncFutureVars>>

AsyncRuntimeInit(t) ==
  /\ asyncPc[t] = "app" /\ asyncInitMutex = Nobody /\ ~asyncUp
  /\ asyncUp' = TRUE
  /\ asyncPc' = [u \in AsyncThreads |-> IF u \in AsyncWorkers THEN "lock" ELSE asyncPc[u]]
  /\ AsyncStays
  /\ UNCHANGED <<asyncQueue, asyncDown, asyncQMutex, asyncAnyMutex, asyncInitMutex, asyncFutureVars>>

\* POSIX lets a wait return without a signal.
AsyncSpurious(t) ==
  /\ asyncPc[t] \in DOMAIN AsyncResume
  /\ AsyncGo(t, AsyncResume[asyncPc[t]])
  /\ AsyncStays /\ UNCHANGED <<asyncShared, asyncFutureVars>>

AsyncCallStep(t) ==
  \/ \E f \in AsyncFutures : AsyncDispatch(t, f) \/ AsyncGet(t, f, "get") \/ AsyncGet(t, f, "drop")
                             \/ AsyncCancel(t, f)
  \/ \E F \in SUBSET AsyncFutures : AsyncWaitAny(t, F)
  \/ AsyncDispatchWait(t) \/ AsyncEnqueue(t) \/ AsyncGetLock(t) \/ AsyncGetWait(t) \/ AsyncGetReturn(t)
  \/ AsyncAnyLock(t) \/ AsyncAnyWait(t) \/ AsyncAnyWake(t)
  \/ AsyncShutdown(t) \/ AsyncShutdownCast(t) \/ AsyncShutdownJoin(t) \/ AsyncRuntimeInit(t)

AsyncWorkerStep(w) ==
  \/ AsyncSeesEmpty(w) \/ AsyncPark(w) \/ AsyncExit(w) \/ AsyncTake(w) \/ AsyncStart(w)
  \/ AsyncFinish(w) \/ AsyncComplete(w) \/ AsyncNotify(w) \/ AsyncAnyCast(w)

AsyncNext ==
  \/ \E t \in AsyncCallers : AsyncCallStep(t)
  \/ \E w \in AsyncWorkers : AsyncWorkerStep(w)
  \/ \E t \in AsyncThreads : AsyncSpurious(t)

AsyncSpec == AsyncInit /\ [][AsyncNext]_asyncVars

--------------------------------------------------------------------------------
(* Properties. *)

\* coro_runtime.h:12, "request cancellation (checked before job starts)": a job that
\* is cancelled while it waits in the queue never starts, and one that nobody has
\* cancelled runs exactly once before it is done.
CancellationHonoured ==
  \A f \in AsyncFutures :
    /\ f \in asyncInTime => asyncRuns[f] = 0
    /\ asyncRuns[f] <= 1
    /\ asyncDone[f] /\ ~asyncCancelled[f] => asyncRuns[f] = 1

\* No thread sleeps through what it waits for: a getter and a wait_any whose future is
\* done have a worker that will still wake them, a worker is awake while there is a
\* job or a shutdown, and a dispatcher is awake while there is room.
AsyncAllWoken ==
  /\ \A t \in AsyncCallers, f \in AsyncFutures :
       f \in asyncArg[t] /\ asyncDone[f] =>
         /\ asyncPc[t] = "g_asleep" =>
              \E w \in AsyncWorkers : asyncPc[w] = "notify" /\ f \in asyncArg[w]
         /\ asyncPc[t] \in {"a_park", "a_asleep"} =>
              \E w \in AsyncWorkers : asyncPc[w] \in {"notify", "anycast"} /\ f \in asyncArg[w]
  /\ asyncQueue # <<>> => \E w \in AsyncWorkers : asyncPc[w] # "asleep"
  /\ AsyncAsleep("d_asleep") # {} => Len(asyncQueue) + Cardinality(AsyncAsleep("d_lock")) >= AsyncCap
  /\ (\E t \in AsyncCallers : asyncPc[t] = "s_join") => \A w \in AsyncWorkers : asyncPc[w] # "asleep"

\* A shutdown drains the queue: when every worker has been joined, the jobs that were
\* dispatched before it are done, cancelled ones included.
AsyncShutdownDrains ==
  \A t \in AsyncCallers :
    asyncPc[t] = "s_join" /\ (\A w \in AsyncWorkers : asyncPc[w] = "down") =>
      \A f \in asyncArg[t] : asyncDone[f]

\* What the pool owes to its callers: jobs run as they were asked for, and nobody waits
\* for something that has come.
AsyncAllServed == CancellationHonoured /\ AsyncAllWoken /\ AsyncShutdownDrains

================================================================================
