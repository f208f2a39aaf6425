------------------------------ MODULE ThreadPool ------------------------------
(***************************************************************************)
(* The thread pool and the futures behind thread.(fn)(args):               *)
(* src/src/runtime/thread_runtime.c.                                       *)
(*                                                                         *)
(* Workers take jobs from a ring buffer guarded by __q_mutex; application  *)
(* threads, and the jobs themselves, dispatch jobs and get, wait for or    *)
(* drop futures.  A job is named by its future.                            *)
(*                                                                         *)
(* A critical section is one step, guarded by its mutex being free, unless *)
(* something it reads is written outside that mutex; then the section is   *)
(* split and the mutex is a variable: __q_shutdown is stored without       *)
(* __q_mutex, done is read without the future's mutex, and done is stored  *)
(* without __any_mutex.                                                    *)
(***************************************************************************)
EXTENDS Naturals, FiniteSets

CONSTANTS Workers,        \* worker slots: __workers[0 .. num_threads-1]
          Clients,        \* application threads that use the pool
          Futures,        \* the futures the program can create
          Cap,            \* QUEUE_CAP
          MinWorkers,     \* fewest workers pthread_create may leave us with
          MaxBlockedJobs, \* how many jobs may be inside a pool call at once
          None

Threads == Workers \cup Clients

ASSUME PoolAssumption ==
  /\ IsFiniteSet(Workers) /\ IsFiniteSet(Clients) /\ IsFiniteSet(Futures)
  /\ Workers \cap Clients = {}
  /\ Futures \cap Clients = {}
  /\ Cap \in Nat \ {0}
  /\ MinWorkers \in Nat /\ MinWorkers <= Cardinality(Workers)
  /\ MaxBlockedJobs \in Nat
  /\ None \notin Threads \cup Futures

VARIABLES
  slots, head, tail, count,   \* the ring; head and tail are kept modulo Cap
  shutdown, nworkers,         \* __q_shutdown, __nworkers
  qMutex, anyMutex, initMutex,\* who holds each of the global mutexes
  pc,                         \* where each thread is
  call, arg,                  \* the call a thread is in, and its futures
  job,                        \* the job a worker holds
  alloc, done, fMutex,        \* each future: memory, done flag, its mutex
  owner,                      \* who dispatched it: a client, or a job
  finished                    \* how often its function has returned (history)

queue == <<slots, head, tail, count>>
pool  == <<shutdown, nworkers, initMutex>>
fut   == <<alloc, owner>>
calls == <<call, arg>>
vars  == <<queue, pool, fut, calls, qMutex, anyMutex, pc, job, done, fMutex, finished>>

-------------------------------------------------------------------------------
(* Threads, wait sets and the ring *)

WorkerPCs == {"down", "lock", "park", "asleep", "run", "complete", "notify", "anycast"}
CallPCs   == {"d_lock", "d_asleep", "g_lock", "g_park", "g_asleep", "got",
              "a_lock", "a_park", "a_asleep", "a_wake", "s_cast", "s_join"}
PCs       == WorkerPCs \cup CallPCs \cup {"app"}

\* Where a thread goes on when it is woken from a condition variable: back to
\* the head of its `while` loop.  (Fault: `if` in place of the getter's while.)
Resume_GetIf == [asleep |-> "lock", d_asleep |-> "d_lock", g_asleep |-> "got", a_asleep |-> "a_wake"]
Resume == [asleep |-> "lock", d_asleep |-> "d_lock", g_asleep |-> "g_lock", a_asleep |-> "a_wake"]

InCall(t)   == pc[t] \in CallPCs
Home(t)     == IF t \in Workers THEN "run" ELSE "app"
Context(t)  == IF t \in Workers THEN job[t] ELSE t
Uses(t, f)  == call[t] # "shutdown" /\ f \in arg[t]
Sleepers(p) == {t \in Threads : pc[t] = p}
Up          == {w \in Workers : pc[w] # "down"}

\* The next index of the ring.  (Fault: a mask one bit short.)
NextSlot_Short(i) == IF i + 2 >= Cap THEN 0 ELSE i + 1
NextSlot(i) == IF i = Cap - 1 THEN 0 ELSE i + 1

\* The test of the dispatcher's wait loop.  (Fault: off by one.)
Full_Late == count > Cap
Full == count = Cap

\* When a worker leaves its loop.  (Fault: the queue is not looked at again.)
MustExit_Eager == shutdown
MustExit == count = 0 /\ shutdown

\* Whether a mutex can be taken.  (Faults: the lock call is missing.)
QFree_Unlocked == TRUE
QFree == qMutex = None
AnyFree_Unlocked == TRUE
AnyFree == anyMutex = None
FutureFree_Unlocked(f) == TRUE
FutureFree(f) == fMutex[f] = None

\* Thread t goes to p; pthread_cond_signal or _broadcast woke the threads W.
GoWaking(t, p, W) ==
  pc' = [u \in Threads |-> IF u = t THEN p ELSE IF u \in W THEN Resume[pc[u]] ELSE pc[u]]

Go(t, p) == pc' = [pc EXCEPT ![t] = p]

\* The sets of sleepers one pthread_cond_signal may wake.  (Fault: no signal.)
OneOf_None(S) == {{}}
OneOf(S) == IF S = {} THEN {{}} ELSE {{t} : t \in S}

Return(t) == call' = [call EXCEPT ![t] = "none"] /\ arg' = [arg EXCEPT ![t] = {}]
Enter(t, c, F) == call' = [call EXCEPT ![t] = c] /\ arg' = [arg EXCEPT ![t] = F]

\* A client may always start a call; a job only while few others are in one.
MayCall(t) ==
  /\ pc[t] = Home(t)
  /\ t \in Workers => Cardinality({w \in Workers : InCall(w)}) < MaxBlockedJobs

\* The caller's side of the contract: a handle is used before it is dropped,
\* by a client or by the job that dispatched it.
MayUse(t, f) ==
  /\ alloc[f] = "live"
  /\ t \in Clients \/ owner[f] = Context(t)
  /\ \A u \in Threads : ~ (Uses(u, f) /\ call[u] \in {"dispatch", "drop"})

-------------------------------------------------------------------------------
(* __thread_dispatch *)

DispatchCall(t, f) ==
  /\ MayCall(t)
  /\ alloc[f] = "none"
  /\ alloc' = [alloc EXCEPT ![f] = "live"]
  /\ owner' = [owner EXCEPT ![f] = Context(t)]
  /\ Enter(t, "dispatch", {f})
  /\ Go(t, "d_lock")
  /\ UNCHANGED <<queue, pool, qMutex, anyMutex, job, done, fMutex, finished>>

DispatchWait(t) ==
  /\ pc[t] = "d_lock"
  /\ QFree
  /\ Full
  /\ Go(t, "d_asleep")
  /\ UNCHANGED <<queue, pool, fut, calls, qMutex, anyMutex, job, done, fMutex, finished>>

\* Whom the dispatcher of a job wakes.  (Fault: nobody unless the queue was empty.)
Signalled_First == IF count = 0 THEN OneOf(Sleepers("asleep")) ELSE {{}}
Signalled == OneOf(Sleepers("asleep"))

DispatchEnqueue(t) ==
  /\ pc[t] = "d_lock"
  /\ QFree
  /\ ~ Full
  /\ \E f \in arg[t] : slots' = [slots EXCEPT ![tail] = f]
  /\ tail' = NextSlot(tail)
  /\ count' = count + 1
  /\ \E W \in Signalled : GoWaking(t, Home(t), W)
  /\ Return(t)
  /\ UNCHANGED <<head, pool, fut, qMutex, anyMutex, job, done, fMutex, finished>>

(* __future_get, __future_wait, and the wait that __future_drop begins with *)

GetCall(t, f, c) ==
  /\ MayCall(t)
  /\ MayUse(t, f)
  /\ c = "drop" => \A u \in Threads : ~ Uses(u, f)
  /\ Enter(t, c, {f})
  /\ Go(t, IF done[f] THEN "got" ELSE "g_lock")
  /\ UNCHANGED <<queue, pool, fut, qMutex, anyMutex, job, done, fMutex, finished>>

GetLock(t) ==
  /\ pc[t] = "g_lock"
  /\ \E f \in arg[t] :
       /\ FutureFree(f)
       /\ IF done[f]
            THEN Go(t, "got") /\ UNCHANGED fMutex
            ELSE Go(t, "g_park") /\ fMutex' = [fMutex EXCEPT ![f] = t]
  /\ UNCHANGED <<queue, pool, fut, calls, qMutex, anyMutex, job, done, finished>>

GetWait(t) ==
  /\ pc[t] = "g_park"
  /\ Go(t, "g_asleep")
  /\ \E f \in arg[t] : fMutex' = [fMutex EXCEPT ![f] = None]
  /\ UNCHANGED <<queue, pool, fut, calls, qMutex, anyMutex, job, done, finished>>

GetReturn(t) ==
  /\ pc[t] = "got"
  /\ call[t] = "get"
  /\ Go(t, Home(t))
  /\ Return(t)
  /\ UNCHANGED <<queue, pool, fut, qMutex, anyMutex, job, done, fMutex, finished>>

DropFree(t) ==
  /\ pc[t] = "got"
  /\ call[t] = "drop"
  /\ \E f \in arg[t] : alloc' = [alloc EXCEPT ![f] = "freed"]
  /\ Go(t, Home(t))
  /\ Return(t)
  /\ UNCHANGED <<queue, pool, owner, qMutex, anyMutex, job, done, fMutex, finished>>

(* __future_wait_any: a call whose first scan succeeds changes nothing *)

AnyDone(t) == \E f \in arg[t] : done[f]

WaitAnyCall(t, F) ==
  /\ MayCall(t)
  /\ F # {}
  /\ \A f \in F : MayUse(t, f) /\ ~ done[f]
  /\ Enter(t, "any", F)
  /\ Go(t, "a_lock")
  /\ UNCHANGED <<queue, pool, fut, qMutex, anyMutex, job, done, fMutex, finished>>

\* Re-check under __any_mutex, and keep the mutex if nothing is done yet.
WaitAnyLock(t) ==
  /\ pc[t] = "a_lock"
  /\ AnyFree
  /\ IF AnyDone(t)
       THEN Go(t, Home(t)) /\ Return(t) /\ UNCHANGED anyMutex
       ELSE Go(t, "a_park") /\ anyMutex' = t /\ UNCHANGED calls
  /\ UNCHANGED <<queue, pool, fut, qMutex, job, done, fMutex, finished>>

WaitAnyWait(t) ==
  /\ pc[t] = "a_park"
  /\ Go(t, "a_asleep")
  /\ anyMutex' = None
  /\ UNCHANGED <<queue, pool, fut, calls, qMutex, job, done, fMutex, finished>>

\* The wait returns with the mutex, which is released before the next scan.
WaitAnyWake(t) ==
  /\ pc[t] = "a_wake"
  /\ AnyFree
  /\ IF AnyDone(t)
       THEN Go(t, Home(t)) /\ Return(t)
       ELSE Go(t, "a_lock") /\ UNCHANGED calls
  /\ UNCHANGED <<queue, pool, fut, qMutex, anyMutex, job, done, fMutex, finished>>

-------------------------------------------------------------------------------
(* worker_thread_fn *)

WorkerSeesEmpty(w) ==
  /\ pc[w] = "lock"
  /\ QFree
  /\ count = 0 /\ ~ shutdown
  /\ qMutex' = w
  /\ Go(w, "park")
  /\ UNCHANGED <<queue, pool, fut, calls, anyMutex, job, done, fMutex, finished>>

WorkerWait(w) ==
  /\ pc[w] = "park"
  /\ qMutex' = None
  /\ Go(w, "asleep")
  /\ UNCHANGED <<queue, pool, fut, calls, anyMutex, job, done, fMutex, finished>>

WorkerExit(w) ==
  /\ pc[w] = "lock"
  /\ QFree
  /\ MustExit
  /\ Go(w, "down")
  /\ UNCHANGED <<queue, pool, fut, calls, qMutex, anyMutex, job, done, fMutex, finished>>

\* Take the job at the head.  (Fault: the head index stays.)
Pop_Peek(w) == job' = [job EXCEPT ![w] = slots[head]] /\ head' = head /\ count' = count - 1
Pop(w) ==
  /\ job' = [job EXCEPT ![w] = slots[head]]
  /\ head' = NextSlot(head)
  /\ count' = count - 1

WorkerTake(w) ==
  /\ pc[w] = "lock"
  /\ QFree
  /\ count > 0
  /\ Pop(w)
  /\ \E W \in OneOf(Sleepers("d_asleep")) : GoWaking(w, "run", W)
  /\ UNCHANGED <<slots, tail, pool, fut, calls, qMutex, anyMutex, done, fMutex, finished>>

\* The job's function returns.
JobFinish(w) ==
  /\ pc[w] = "run"
  /\ finished' = [finished EXCEPT ![job[w]] = @ + 1]
  /\ Go(w, "complete")
  /\ UNCHANGED <<queue, pool, fut, calls, qMutex, anyMutex, job, done, fMutex>>

\* Lock the future's mutex and store done; a fast-path reader sees it now.
WorkerComplete(w) ==
  /\ pc[w] = "complete"
  /\ FutureFree(job[w])
  /\ fMutex' = [fMutex EXCEPT ![job[w]] = w]
  /\ done' = [done EXCEPT ![job[w]] = TRUE]
  /\ Go(w, "notify")
  /\ UNCHANGED <<queue, pool, fut, calls, qMutex, anyMutex, job, finished>>

\* Broadcast the future's condition variable and unlock its mutex.
WorkerNotify(w) ==
  /\ pc[w] = "notify"
  /\ fMutex' = [fMutex EXCEPT ![job[w]] = None]
  /\ GoWaking(w, "anycast", {t \in Sleepers("g_asleep") : job[w] \in arg[t]})
  /\ UNCHANGED <<queue, pool, fut, calls, qMutex, anyMutex, job, done, finished>>

WorkerAnyCast(w) ==
  /\ pc[w] = "anycast"
  /\ AnyFree
  /\ job' = [job EXCEPT ![w] = None]
  /\ GoWaking(w, "lock", Sleepers("a_asleep"))
  /\ UNCHANGED <<queue, pool, fut, calls, qMutex, anyMutex, done, fMutex, finished>>

-------------------------------------------------------------------------------
(* __thread_runtime_init and __thread_runtime_shutdown.  A call that finds  *)
(* the pool already up, or already down, changes nothing.                   *)

RuntimeInit(t, W) ==
  /\ pc[t] = "app"
  /\ initMutex = None
  /\ nworkers = 0
  /\ Cardinality(W) >= MinWorkers
  /\ nworkers' = Cardinality(W)
  /\ pc' = [u \in Threads |-> IF u \in W THEN "lock" ELSE pc[u]]
  /\ UNCHANGED <<queue, shutdown, initMutex, fut, calls, qMutex, anyMutex, job, done, fMutex, finished>>

\* arg remembers, as history, the jobs that were dispatched before the call.
ShutdownCall(t) ==
  /\ pc[t] = "app"
  /\ initMutex = None
  /\ nworkers > 0
  /\ initMutex' = t
  /\ shutdown' = TRUE
  /\ Enter(t, "shutdown", {f \in Futures : /\ alloc[f] = "live"
                                           /\ \A u \in Threads : ~ (call[u] = "dispatch" /\ Uses(u, f))})
  /\ Go(t, "s_cast")
  /\ UNCHANGED <<queue, nworkers, fut, qMutex, anyMutex, job, done, fMutex, finished>>

ShutdownBroadcast(t) ==
  /\ pc[t] = "s_cast"
  /\ QFree
  /\ GoWaking(t, "s_join", Sleepers("asleep"))
  /\ UNCHANGED <<queue, pool, fut, calls, qMutex, anyMutex, job, done, fMutex, finished>>

ShutdownJoined(t) ==
  /\ pc[t] = "s_join"
  /\ Up = {}
  /\ nworkers' = 0
  /\ shutdown' = FALSE
  /\ initMutex' = None
  /\ Go(t, "app")
  /\ Return(t)
  /\ UNCHANGED <<queue, fut, qMutex, anyMutex, job, done, fMutex, finished>>

-------------------------------------------------------------------------------

\* POSIX lets any wait on a condition variable return without a signal.
SpuriousWake(t) ==
  /\ pc[t] \in DOMAIN Resume
  /\ Go(t, Resume[pc[t]])
  /\ UNCHANGED <<queue, pool, fut, calls, qMutex, anyMutex, job, done, fMutex, finished>>

\* The state after the constructor has started the workers.
Init ==
  /\ slots = [i \in 0 .. Cap - 1 |-> None]
  /\ head = 0 /\ tail = 0 /\ count = 0
  /\ shutdown = FALSE
  /\ qMutex = None /\ anyMutex = None /\ initMutex = None
  /\ \E W \in SUBSET Workers :
       /\ Cardinality(W) >= MinWorkers
       /\ nworkers = Cardinality(W)
       /\ pc = [t \in Threads |-> IF t \in W THEN "lock" ELSE IF t \in Workers THEN "down" ELSE "app"]
  /\ call = [t \in Threads |-> "none"]
  /\ arg = [t \in Threads |-> {}]
  /\ job = [w \in Workers |-> None]
  /\ alloc = [f \in Futures |-> "none"]
  /\ done = [f \in Futures |-> FALSE]
  /\ fMutex = [f \in Futures |-> None]
  /\ owner = [f \in Futures |-> None]
  /\ finished = [f \in Futures |-> 0]

\* A thread begins a call of the public interface.
BeginCall(t) ==
  \/ \E f \in Futures : DispatchCall(t, f) \/ GetCall(t, f, "get") \/ GetCall(t, f, "drop")
  \/ \E F \in SUBSET Futures : WaitAnyCall(t, F)

\* A thread goes on with the call it is in.
Continue(t) ==
  \/ DispatchWait(t) \/ DispatchEnqueue(t)
  \/ GetLock(t) \/ GetWait(t) \/ GetReturn(t) \/ DropFree(t)
  \/ WaitAnyLock(t) \/ WaitAnyWait(t) \/ WaitAnyWake(t)
  \/ ShutdownBroadcast(t) \/ ShutdownJoined(t)

WorkerStep(w) ==
  \/ WorkerSeesEmpty(w) \/ WorkerWait(w) \/ WorkerExit(w) \/ WorkerTake(w)
  \/ JobFinish(w) \/ WorkerComplete(w) \/ WorkerNotify(w) \/ WorkerAnyCast(w)

Next ==
  \/ \E t \in Threads : BeginCall(t) \/ Continue(t) \/ SpuriousWake(t)
  \/ \E w \in Workers : WorkerStep(w)
  \/ \E t \in Clients : ShutdownCall(t) \/ (\E W \in SUBSET Workers : RuntimeInit(t, W))

Spec == Init /\ [][Next]_vars

\* Threads run: a thread inside a call or inside the worker loop is scheduled
\* again and again and no mutex starves it (strong fairness, as a wait for a
\* mutex is only intermittently enabled), and a job's function returns.
\* Nothing makes a program begin a call.
FairSpec ==
  /\ Spec
  /\ \A t \in Threads : SF_vars(Continue(t))
  /\ \A w \in Workers : SF_vars(WorkerStep(w))
-------------------------------------------------------------------------------
(* Properties *)

Slot == 0 .. Cap - 1

\* Every variable stays within its type (all of thread_runtime.c's state).
TypeOK ==
  /\ slots \in [Slot -> Futures \cup {None}]
  /\ head \in Slot /\ tail \in Slot /\ count \in 0 .. Cap
  /\ shutdown \in BOOLEAN
  /\ nworkers \in 0 .. Cardinality(Workers)
  /\ qMutex \in Workers \cup {None}
  /\ anyMutex \in Threads \cup {None}
  /\ initMutex \in Clients \cup {None}
  /\ pc \in [Threads -> PCs]
  /\ call \in [Threads -> {"none", "dispatch", "get", "drop", "any", "shutdown"}]
  /\ arg \in [Threads -> SUBSET Futures]
  /\ job \in [Workers -> Futures \cup {None}]
  /\ alloc \in [Futures -> {"none", "live", "freed"}]
  /\ done \in [Futures -> BOOLEAN]
  /\ fMutex \in [Futures -> Threads \cup {None}]
  /\ owner \in [Futures -> Clients \cup Futures \cup {None}]
  /\ finished \in [Futures -> Nat]

\* The c slots of the ring from h on, and the slot that follows them.
Window(h, c) == {i \in Slot : IF h + c <= Cap THEN h <= i /\ i < h + c
                                             ELSE h <= i \/ i < h + c - Cap}
After(h, c)  == IF h + c < Cap THEN h + c ELSE h + c - Cap

\* The slots that hold a job not yet taken.
Occupied == Window(head, count)

\* A future is queued, held by a worker, or still in its dispatcher's hands.
Queued(f)      == \E i \in Occupied : slots[i] = f
Held(f)        == \E w \in Workers : job[w] = f
Dispatching(f) == \E t \in Threads : call[t] = "dispatch" /\ f \in arg[t]

\* The counter, the two indices and the slots of the ring never disagree, and
\* no two slots hold the same job.
RingConsistent ==
  /\ tail = After(head, count)
  /\ \A i \in Occupied : slots[i] \in Futures
  /\ \A i, j \in Occupied : slots[i] = slots[j] => i = j

\* No interleaving of dispatchers and workers makes a job run twice: a queued
\* job has not run, no two workers hold the same job, and a future says done
\* only when its function has returned exactly once.
ExactlyOnce ==
  \A f \in Futures :
    /\ Queued(f) => ~ Held(f) /\ ~ Dispatching(f) /\ finished[f] = 0
    /\ \A w, v \in Workers : job[w] = f /\ job[v] = f => w = v
    /\ finished[f] <= 1
    /\ done[f] => finished[f] = 1

\* No job is lost, in particular not overwritten in a full ring: a dispatched
\* job that has not run is queued, held by a worker, or not yet enqueued.
NoJobLost ==
  \A f \in Futures :
    alloc[f] = "live" /\ finished[f] = 0 => Queued(f) \/ Held(f) \/ Dispatching(f)

\* What a thread's place in the code says about the futures it deals with: the
\* strengthening that makes the invariants above and below inductive.
Phase(p) ==
  CASE p \in {"down", "lock", "park", "asleep"} -> "idle"
    [] p \in {"d_lock", "d_asleep"}             -> "dispatching"
    [] p \in {"g_lock", "g_park", "g_asleep"}   -> "getting"
    [] p = "got"                                -> "got"
    [] p = "complete"                           -> "ran"
    [] p \in {"notify", "anycast"}              -> "told"
    [] OTHER                                    -> "busy"

CallsConsistent ==
  \A t \in Threads :
    /\ call[t] = "dispatch" <=> Phase(pc[t]) = "dispatching"
    /\ Phase(pc[t]) \in {"dispatching", "getting", "got"} => \E f \in Futures : arg[t] = {f}
    /\ Phase(pc[t]) = "got" => \A f \in arg[t] : done[f]

JobsConsistent ==
  \A w \in Workers :
    /\ job[w] = None <=> Phase(pc[w]) = "idle"
    /\ job[w] # None =>
         /\ finished[job[w]] = IF Phase(pc[w]) \in {"ran", "told"} THEN 1 ELSE 0
         /\ done[job[w]] <=> Phase(pc[w]) = "told"

PlacesConsistent ==
  /\ \A f \in Futures : Dispatching(f) => ~ Held(f) /\ finished[f] = 0
  /\ \A t, u \in Threads : call[t] = "dispatch" /\ call[u] = "dispatch" /\ arg[t] \cap arg[u] # {} => t = u
  /\ \A f \in Futures : alloc[f] = "none" =>
       ~ Queued(f) /\ ~ Held(f) /\ ~ Dispatching(f) /\ finished[f] = 0

\* Every thread's place agrees with the state of the futures in its hands: a
\* worker's job has run exactly when the worker is past it, is done exactly
\* when the worker is past the store of done, and no future is in the hands
\* of two dispatchers, or of a dispatcher and a worker.
HandsConsistent == CallsConsistent /\ JobsConsistent /\ PlacesConsistent

\* A caller that leaves __future_get or frees in __future_drop does so only
\* after the job's function has written the whole result.
ResultComplete ==
  \A t \in Threads : pc[t] = "got" => \A f \in arg[t] : done[f] /\ finished[f] = 1

\* The inductive invariant that ThreadPoolProofs proves; PoolDown says that no
\* worker outlives the count that __thread_runtime_init tests.
PoolDown  == nworkers = 0 => Up = {}
Inductive == TypeOK /\ RingConsistent /\ ExactlyOnce /\ NoJobLost /\ HandsConsistent

\* No worker sleeps beside a job: while one is asleep, there are at least as
\* many workers awake on their way to the queue as jobs in it; and none sleeps
\* through a shutdown whose broadcast is over.
WorkersAwake ==
  /\ Sleepers("asleep") # {} => count <= Cardinality(Sleepers("lock"))
  /\ shutdown /\ (\E w \in Workers : pc[w] = "asleep") => \E t \in Clients : pc[t] = "s_cast"

\* A thread asleep in __future_get is woken: when its future is done, the
\* worker that completed it has still to broadcast.
GettersWoken ==
  \A t \in Threads : pc[t] = "g_asleep" =>
    \A f \in arg[t] : done[f] => \E w \in Workers : pc[w] = "notify" /\ job[w] = f

\* A thread asleep in __future_wait_any is woken: when one of its futures is
\* done, the worker that completed it has still to broadcast __any_cv.
AnyWaitersWoken ==
  \A t \in Threads : pc[t] \in {"a_park", "a_asleep"} =>
    \A f \in arg[t] : done[f] => \E w \in Workers : pc[w] \in {"notify", "anycast"} /\ job[w] = f

\* A dispatcher asleep on a full queue is woken: for every free slot, one
\* dispatcher is already awake and will use it.
DispatchersWoken ==
  Sleepers("d_asleep") # {} => count + Cardinality(Sleepers("d_lock")) >= Cap

\* No wakeup is ever lost, whatever the order of tests, waits, stores and signals
\* (thread_runtime.c:112-302): as many workers are awake as jobs are queued, as
\* many dispatchers as slots are free, or none of them sleeps; and whoever sleeps
\* for a future that is done is about to be woken by the worker that completed it.
SleepersWoken == WorkersAwake /\ GettersWoken /\ AnyWaitersWoken /\ DispatchersWoken

\* Shutdown drains the queue: when all workers have been joined, every job
\* dispatched before the shutdown is done (or its future freed since).
ShutdownDrains ==
  \A t \in Clients : pc[t] = "s_join" /\ Up = {} => \A f \in arg[t] : done[f]

\* The pool as its callers see it (FuturePool).
Stage ==
  [f \in Futures |->
     IF alloc[f] = "freed" THEN "freed"
     ELSE IF done[f] THEN "done"
     ELSE IF Held(f) THEN "running"
     ELSE IF alloc[f] = "live" THEN "pending" ELSE "none"]

Abstract == INSTANCE FuturePool WITH stage <- Stage, Slots <- Cardinality(Workers)

\* The pool implements the abstract pool, the completion of started jobs
\* included.
ImplementsFuturePool == Abstract!Spec

\* While there are workers, a dispatched job completes and every call returns, a
\* shutdown included.
WorkConcludes ==
  /\ \A f \in Futures : (alloc[f] = "live") ~> (done[f] \/ nworkers = 0)
  /\ \A t \in Threads : InCall(t) ~> (~ InCall(t) \/ nworkers = 0)

\* thread_runtime.h:57, "Wait for completion, then free the future": a worker
\* that still has to broadcast and unlock has its future's memory.
WorkerFutureLive ==
  \A w \in Workers : pc[w] \in {"run", "complete", "notify"} => alloc[job[w]] = "live"

\* wiki/Concurrency.md:188, "Auto-shutdown on program exit": the shutdown that
\* the destructor runs comes back.
ShutdownReturns ==
  \A t \in Clients : (call[t] = "shutdown") ~> (call[t] = "none")
===============================================================================
