---------------------------- MODULE AsyncPoolProofs ----------------------------
(* Theorems about AsyncPool, for every number of workers, callers and futures and *)
(* every capacity of the queue: cancellation is honoured, no wakeup is lost and a *)
(* shutdown drains the queue, whatever restarts, cancellations and spurious       *)
(* wakeups come between.                                                          *)
(*                                                                                *)
(* The invariant has two halves.  Settled says of every place in the code what    *)
(* the futures there are like and that each is in one place; Wakeups, on top of   *)
(* it, which tests still hold for who is about to sleep, what a shutdown has made *)
(* sure of, and that each sleeper has somebody to wake it.  The lemmas on who     *)
(* moves where and who writes what (CallerSteps to Writers) spare the proofs of   *)
(* its parts a case for each of the actions.                                      *)
EXTENDS AsyncPool, SequenceTheorems, FiniteSetTheorems, TLAPS

IdlePlaces   == {"lock", "park", "asleep", "down"}
WorkerPlaces == IdlePlaces \cup {"check", "run", "complete", "notify", "anycast"}
CallerPlaces == {"app", "d_lock", "d_asleep", "g_lock", "g_park", "g_asleep", "got",
                 "a_lock", "a_park", "a_asleep", "a_wake", "s_cast", "s_join"}

AsyncTypeOK ==
  /\ asyncQueue \in Seq(AsyncFutures)
  /\ asyncDown \in BOOLEAN /\ asyncUp \in BOOLEAN
  /\ asyncPc \in [AsyncThreads -> WorkerPlaces \cup CallerPlaces]
  /\ \A w \in AsyncWorkers : asyncPc[w] \in WorkerPlaces
  /\ \A t \in AsyncCallers : asyncPc[t] \in CallerPlaces
  /\ asyncArg \in [AsyncThreads -> SUBSET AsyncFutures]
  /\ asyncCall \in [AsyncCallers -> {"none", "dispatch", "get", "drop", "any", "shutdown"}]
  /\ asyncAlloc \in [AsyncFutures -> {"none", "live", "freed"}]
  /\ asyncDone \in [AsyncFutures -> BOOLEAN] /\ asyncCancelled \in [AsyncFutures -> BOOLEAN]
  /\ asyncFMutex \in [AsyncFutures -> AsyncThreads \cup {Nobody}]
  /\ asyncRuns \in [AsyncFutures -> Nat]
  /\ asyncInTime \in SUBSET AsyncFutures

-------------------------------------------------------------------------------
(* Threads and the queue *)

LEMMA Disjoint ==
  /\ AsyncThreads = AsyncWorkers \cup AsyncCallers /\ AsyncWorkers \cap AsyncCallers = {}
  /\ \A t \in AsyncThreads : t # Nobody
BY AsyncAssumption DEF AsyncThreads

(* One signal wakes sleepers only. *)
LEMMA SignalledSleep ==
  ASSUME NEW p, NEW W \in AsyncSignalled(p)
  PROVE  W \in SUBSET AsyncAsleep(p)
BY DEF AsyncSignalled

Jobs(q)     == {q[i] : i \in DOMAIN q}
Distinct(q) == \A i, j \in DOMAIN q : q[i] = q[j] => i = j

LEMMA QueuePut ==
  ASSUME NEW q \in Seq(AsyncFutures), NEW f \in AsyncFutures
  PROVE  /\ Append(q, f) \in Seq(AsyncFutures)
         /\ Jobs(Append(q, f)) = Jobs(q) \cup {f}
         /\ Distinct(q) /\ f \notin Jobs(q) => Distinct(Append(q, f))
         /\ Len(Append(q, f)) = Len(q) + 1
<1> DEFINE r == Append(q, f)
<1>1. /\ r \in Seq(AsyncFutures) /\ Len(r) = Len(q) + 1 /\ Len(q) \in Nat
      /\ DOMAIN q = 1 .. Len(q) /\ DOMAIN r = 1 .. Len(q) + 1
      /\ \A i \in 1 .. Len(q) : r[i] = q[i]
      /\ r[Len(q) + 1] = f
  BY AppendProperties, LenProperties
<1>2. Jobs(r) = Jobs(q) \cup {f}
  BY <1>1 DEF Jobs
<1>3. ASSUME Distinct(q), f \notin Jobs(q) PROVE Distinct(r)
  BY <1>1, <1>3 DEF Distinct, Jobs
<1> QED
  BY <1>1, <1>2, <1>3

LEMMA QueueTake ==
  ASSUME NEW q \in Seq(AsyncFutures), q # <<>>, Distinct(q)
  PROVE  /\ Tail(q) \in Seq(AsyncFutures)
         /\ Head(q) \in Jobs(q) /\ Head(q) \in AsyncFutures
         /\ Jobs(Tail(q)) = Jobs(q) \ {Head(q)}
         /\ Distinct(Tail(q))
         /\ Len(Tail(q)) = Len(q) - 1
<1> DEFINE r == Tail(q)
<1>1. /\ r \in Seq(AsyncFutures) /\ Len(r) = Len(q) - 1 /\ Len(q) \in Nat \ {0}
      /\ DOMAIN q = 1 .. Len(q) /\ DOMAIN r = 1 .. Len(q) - 1
      /\ \A i \in 1 .. Len(q) - 1 : r[i] = q[i + 1]
      /\ Head(q) = q[1] /\ q[1] \in AsyncFutures
  BY HeadTailProperties, LenProperties, EmptySeq, ElementOfSeq
<1>2. Jobs(r) = Jobs(q) \ {q[1]}
  <2>1. ASSUME NEW f \in Jobs(q), f # q[1] PROVE f \in Jobs(r)
    <3>1. PICK i \in 1 .. Len(q) : q[i] = f
      BY <1>1 DEF Jobs
    <3>2. i - 1 \in 1 .. Len(q) - 1 /\ r[i - 1] = f
      BY <1>1, <2>1, <3>1
    <3> QED
      BY <1>1, <3>2 DEF Jobs
  <2>2. ASSUME NEW f \in Jobs(r) PROVE f \in Jobs(q) /\ f # q[1]
    <3>1. PICK i \in 1 .. Len(q) - 1 : r[i] = f
      BY <1>1, <2>2 DEF Jobs
    <3>2. i + 1 \in 1 .. Len(q) /\ q[i + 1] = f /\ i + 1 # 1 /\ 1 \in 1 .. Len(q)
      BY <1>1, <3>1
    <3> QED
      BY <1>1, <3>2 DEF Jobs, Distinct
  <2> QED
    BY <2>1, <2>2
<1>3. Distinct(r)
  <2>1. \A i \in 1 .. Len(q) - 1 : i + 1 \in 1 .. Len(q)
    BY <1>1
  <2>2. ASSUME NEW i \in 1 .. Len(q) - 1, NEW j \in 1 .. Len(q) - 1, r[i] = r[j] PROVE i = j
    <3>1. i + 1 = j + 1
      BY <1>1, <2>1, <2>2 DEF Distinct
    <3> QED
      BY <3>1
  <2> QED
    BY <1>1, <2>2 DEF Distinct
<1>4. 1 \in DOMAIN q
  BY <1>1
<1> QED
  BY <1>1, <1>2, <1>3, <1>4 DEF Jobs

-------------------------------------------------------------------------------
(* Types: one step per action. *)

LEMMA WakingPlaces ==
  ASSUME AsyncTypeOK, NEW t \in AsyncThreads, NEW p, NEW q \in {"asleep", "d_asleep", "g_asleep", "a_asleep"},
         NEW W \in SUBSET AsyncAsleep(q), AsyncGoWaking(t, p, W),
         t \in AsyncWorkers => p \in WorkerPlaces, t \in AsyncCallers => p \in CallerPlaces
  PROVE  /\ asyncPc' \in [AsyncThreads -> WorkerPlaces \cup CallerPlaces]
         /\ \A w \in AsyncWorkers : asyncPc'[w] \in WorkerPlaces
         /\ \A c \in AsyncCallers : asyncPc'[c] \in CallerPlaces
<1>1. \A u \in AsyncThreads : asyncPc'[u] = IF u = t THEN p ELSE IF u \in W THEN AsyncResume[q] ELSE asyncPc[u]
  BY DEF AsyncGoWaking, AsyncAsleep
<1>2. \A u \in W : asyncPc[u] = q
  BY DEF AsyncAsleep
<1>3. asyncPc' \in [AsyncThreads -> WorkerPlaces \cup CallerPlaces]
  <2>1. \A u \in AsyncThreads :
          (IF u = t THEN p ELSE IF u \in W THEN AsyncResume[asyncPc[u]] ELSE asyncPc[u]) \in WorkerPlaces \cup CallerPlaces
    BY <1>2, Disjoint DEF AsyncTypeOK, WorkerPlaces, IdlePlaces, CallerPlaces, AsyncResume
  <2> QED
    BY <2>1 DEF AsyncGoWaking
<1>4. ASSUME NEW w \in AsyncWorkers PROVE asyncPc'[w] \in WorkerPlaces
  <2>1. w \in AsyncThreads /\ asyncPc[w] \in WorkerPlaces
    BY Disjoint DEF AsyncTypeOK
  <2>2. w \in W => q = "asleep"
    BY <1>2, <2>1 DEF WorkerPlaces, IdlePlaces
  <2> QED
    BY <1>1, <2>1, <2>2 DEF WorkerPlaces, IdlePlaces, AsyncResume
<1>5. ASSUME NEW c \in AsyncCallers PROVE asyncPc'[c] \in CallerPlaces
  <2>1. c \in AsyncThreads /\ asyncPc[c] \in CallerPlaces
    BY Disjoint DEF AsyncTypeOK
  <2>2. c \in W => q # "asleep"
    BY <1>2, <2>1 DEF CallerPlaces
  <2> QED
    BY <1>1, <2>1, <2>2 DEF CallerPlaces, AsyncResume
<1> QED
  BY <1>3, <1>4, <1>5

LEMMA TypeInit == AsyncInit => AsyncTypeOK
<1> SUFFICES ASSUME AsyncInit PROVE AsyncTypeOK
  OBVIOUS
<1>1. <<>> \in Seq(AsyncFutures)
  BY EmptySeq
<1> QED
  BY <1>1, Disjoint DEF AsyncInit, AsyncTypeOK, WorkerPlaces, IdlePlaces, CallerPlaces

LEMMA TypeStep == AsyncTypeOK /\ Distinct(asyncQueue) /\ [AsyncNext]_asyncVars => AsyncTypeOK'
<1> SUFFICES ASSUME AsyncTypeOK, Distinct(asyncQueue), [AsyncNext]_asyncVars PROVE AsyncTypeOK'
  OBVIOUS
<1> USE DEF AsyncTypeOK
<1>0. AsyncThreads = AsyncWorkers \cup AsyncCallers /\ AsyncWorkers \cap AsyncCallers = {}
  BY Disjoint
<1>1. ASSUME NEW t \in AsyncCallers, NEW p \in CallerPlaces, AsyncGo(t, p)
      PROVE  /\ asyncPc' \in [AsyncThreads -> WorkerPlaces \cup CallerPlaces]
             /\ \A w \in AsyncWorkers : asyncPc'[w] \in WorkerPlaces
             /\ \A c \in AsyncCallers : asyncPc'[c] \in CallerPlaces
  BY <1>0, <1>1 DEF AsyncGo
<1>2. ASSUME NEW t \in AsyncWorkers, NEW p \in WorkerPlaces, AsyncGo(t, p)
      PROVE  /\ asyncPc' \in [AsyncThreads -> WorkerPlaces \cup CallerPlaces]
             /\ \A w \in AsyncWorkers : asyncPc'[w] \in WorkerPlaces
             /\ \A c \in AsyncCallers : asyncPc'[c] \in CallerPlaces
  BY <1>0, <1>2 DEF AsyncGo
<1>3. ASSUME NEW t \in AsyncCallers, NEW f \in AsyncFutures,
             AsyncDispatch(t, f) \/ AsyncGet(t, f, "get") \/ AsyncGet(t, f, "drop")
      PROVE  AsyncTypeOK'
  <2>1. PICK p \in {"d_lock", "got", "g_lock"} : AsyncGo(t, p)
    BY <1>3 DEF AsyncDispatch, AsyncGet
  <2>2. p \in CallerPlaces
    BY DEF CallerPlaces
  <2>3. PICK c \in {"dispatch", "get", "drop"} : AsyncEnter(t, c, {f})
    BY <1>3 DEF AsyncDispatch, AsyncGet
  <2>4. /\ asyncAlloc' \in [AsyncFutures -> {"none", "live", "freed"}]
        /\ UNCHANGED <<asyncQueue, asyncDown, asyncUp, asyncDone, asyncCancelled, asyncFMutex, asyncRuns, asyncInTime>>
    BY <1>3 DEF AsyncDispatch, AsyncGet, asyncShared, asyncFutureVars
  <2> QED
    BY <1>0, <1>1, <2>1, <2>2, <2>3, <2>4 DEF AsyncEnter
<1>4. ASSUME NEW t \in AsyncCallers, NEW f \in AsyncFutures, AsyncCancel(t, f) PROVE AsyncTypeOK'
  BY <1>4 DEF AsyncCancel, AsyncStays, asyncShared
<1>5. ASSUME NEW t \in AsyncCallers, NEW F \in SUBSET AsyncFutures, AsyncWaitAny(t, F) PROVE AsyncTypeOK'
  <2>1. "a_lock" \in CallerPlaces
    BY DEF CallerPlaces
  <2> QED
    BY <1>0, <1>1, <1>5, <2>1 DEF AsyncWaitAny, AsyncEnter, asyncShared, asyncFutureVars
<1>6. ASSUME NEW t \in AsyncCallers, AsyncDispatchWait(t) \/ AsyncGetWait(t) \/ AsyncAnyWait(t) PROVE AsyncTypeOK'
  <2>1. PICK p \in {"d_asleep", "g_asleep", "a_asleep"} : AsyncGo(t, p)
    BY <1>6 DEF AsyncDispatchWait, AsyncGetWait, AsyncAnyWait
  <2>2. p \in CallerPlaces
    BY DEF CallerPlaces
  <2> QED
    BY <1>1, <1>6, <2>1, <2>2 DEF AsyncDispatchWait, AsyncGetWait, AsyncAnyWait, AsyncStays, asyncShared, asyncFutureVars
<1>7. ASSUME NEW t \in AsyncCallers, AsyncEnqueue(t) PROVE AsyncTypeOK'
  <2>1. asyncQueue' \in Seq(AsyncFutures)
    BY <1>0, <1>7, QueuePut DEF AsyncEnqueue
  <2>2. "app" \in CallerPlaces
    BY DEF CallerPlaces
  <2> QED
    BY <1>0, <1>7, <2>1, <2>2, WakingPlaces, SignalledSleep DEF AsyncEnqueue, AsyncReturn, asyncFutureVars
<1>8. ASSUME NEW t \in AsyncCallers, AsyncGetLock(t) PROVE AsyncTypeOK'
  <2>1. PICK p \in {"got", "g_park"} : AsyncGo(t, p)
    BY <1>8 DEF AsyncGetLock
  <2>2. p \in CallerPlaces
    BY DEF CallerPlaces
  <2>3. asyncFMutex' \in [AsyncFutures -> AsyncThreads \cup {Nobody}]
    BY <1>0, <1>8 DEF AsyncGetLock
  <2> QED
    BY <1>1, <1>8, <2>1, <2>2, <2>3 DEF AsyncGetLock, AsyncStays, asyncShared
<1>9. ASSUME NEW t \in AsyncCallers, AsyncGetReturn(t) PROVE AsyncTypeOK'
  <2>1. "app" \in CallerPlaces
    BY DEF CallerPlaces
  <2> QED
    BY <1>0, <1>1, <1>9, <2>1 DEF AsyncGetReturn, AsyncReturn, asyncShared
<1>10. ASSUME NEW t \in AsyncCallers, AsyncAnyLock(t) \/ AsyncAnyWake(t) PROVE AsyncTypeOK'
  <2>1. PICK p \in {"app", "a_park", "a_lock"} : AsyncGo(t, p)
    BY <1>10 DEF AsyncAnyLock, AsyncAnyWake
  <2>2. p \in CallerPlaces
    BY DEF CallerPlaces
  <2>3. (AsyncStays \/ AsyncReturn(t)) /\ UNCHANGED <<asyncQueue, asyncDown, asyncUp, asyncFutureVars>>
    BY <1>10 DEF AsyncAnyLock, AsyncAnyWake, asyncShared
  <2> QED
    BY <1>0, <1>1, <2>1, <2>2, <2>3 DEF AsyncReturn, AsyncStays, asyncFutureVars
<1>11. ASSUME NEW t \in AsyncCallers, AsyncShutdown(t) \/ AsyncShutdownJoin(t) PROVE AsyncTypeOK'
  <2>1. PICK p \in {"s_cast", "app"} : AsyncGo(t, p)
    BY <1>11 DEF AsyncShutdown, AsyncShutdownJoin
  <2>2. p \in CallerPlaces
    BY DEF CallerPlaces
  <2>3. \/ \E F \in SUBSET AsyncFutures : AsyncEnter(t, "shutdown", F)
        \/ AsyncReturn(t)
    BY <1>11 DEF AsyncShutdown, AsyncShutdownJoin
  <2>4. asyncCall' \in [AsyncCallers -> {"none", "dispatch", "get", "drop", "any", "shutdown"}]
        /\ asyncArg' \in [AsyncThreads -> SUBSET AsyncFutures]
    BY <1>0, <2>3 DEF AsyncEnter, AsyncReturn
  <2> QED
    BY <1>1, <1>11, <2>1, <2>2, <2>4 DEF AsyncShutdown, AsyncShutdownJoin, asyncFutureVars
<1>12. ASSUME NEW t \in AsyncCallers, AsyncShutdownCast(t) PROVE AsyncTypeOK'
  <2>1. "s_join" \in CallerPlaces
    BY DEF CallerPlaces
  <2> QED
    BY <1>0, <1>12, <2>1, WakingPlaces DEF AsyncShutdownCast, AsyncStays, asyncShared, asyncFutureVars
<1>13. ASSUME NEW t \in AsyncCallers, AsyncRuntimeInit(t) PROVE AsyncTypeOK'
  BY <1>0, <1>13 DEF AsyncRuntimeInit, AsyncStays, asyncFutureVars, WorkerPlaces, IdlePlaces
<1>14. ASSUME NEW w \in AsyncWorkers, AsyncSeesEmpty(w) \/ AsyncPark(w) \/ AsyncExit(w) \/ AsyncFinish(w) PROVE AsyncTypeOK'
  <2>1. PICK p \in {"park", "asleep", "down", "complete"} : AsyncGo(w, p)
    BY <1>14 DEF AsyncSeesEmpty, AsyncPark, AsyncExit, AsyncFinish
  <2>2. p \in WorkerPlaces
    BY DEF WorkerPlaces, IdlePlaces
  <2>3. UNCHANGED <<asyncQueue, asyncDown, asyncUp, asyncCall, asyncArg, asyncFutureVars>>
    BY <1>14 DEF AsyncSeesEmpty, AsyncPark, AsyncExit, AsyncFinish, AsyncStays, asyncShared
  <2> QED
    BY <1>2, <2>1, <2>2, <2>3 DEF asyncFutureVars
<1>15. ASSUME NEW w \in AsyncWorkers, AsyncTake(w) PROVE AsyncTypeOK'
  <2>1. asyncQueue' \in Seq(AsyncFutures) /\ Head(asyncQueue) \in AsyncFutures
    BY <1>15, QueueTake DEF AsyncTake
  <2>2. "check" \in WorkerPlaces
    BY DEF WorkerPlaces
  <2>3. asyncArg' \in [AsyncThreads -> SUBSET AsyncFutures]
    BY <1>0, <1>15, <2>1 DEF AsyncTake
  <2> QED
    BY <1>0, <1>15, <2>1, <2>2, <2>3, WakingPlaces, SignalledSleep DEF AsyncTake, asyncFutureVars
<1>16. ASSUME NEW w \in AsyncWorkers, AsyncStart(w) PROVE AsyncTypeOK'
  <2>1. PICK p \in {"complete", "run"} : AsyncGo(w, p)
    BY <1>16 DEF AsyncStart
  <2>2. p \in WorkerPlaces
    BY DEF WorkerPlaces
  <2>3. asyncRuns' \in [AsyncFutures -> Nat]
    <3>1. PICK f \in asyncArg[w] : asyncRuns' = [asyncRuns EXCEPT ![f] = @ + IF asyncCancelled[f] THEN 0 ELSE 1]
      BY <1>16 DEF AsyncStart
    <3>2. f \in AsyncFutures
      BY <1>0
    <3>3. (IF asyncCancelled[f] THEN 0 ELSE 1) \in Nat /\ asyncRuns[f] \in Nat
      BY <3>2
    <3> QED
      BY <3>1, <3>2, <3>3
  <2> QED
    BY <1>2, <1>16, <2>1, <2>2, <2>3 DEF AsyncStart, AsyncStays, asyncShared
<1>17. ASSUME NEW w \in AsyncWorkers, AsyncComplete(w) PROVE AsyncTypeOK'
  <2>1. "notify" \in WorkerPlaces
    BY DEF WorkerPlaces
  <2> QED
    BY <1>0, <1>2, <1>17, <2>1 DEF AsyncComplete, AsyncStays, asyncShared
<1>18. ASSUME NEW w \in AsyncWorkers, AsyncNotify(w) PROVE AsyncTypeOK'
  <2>1. "anycast" \in WorkerPlaces
    BY DEF WorkerPlaces
  <2>2. PICK f \in asyncArg[w] : /\ asyncFMutex' = [asyncFMutex EXCEPT ![f] = Nobody]
                                 /\ AsyncGoWaking(w, "anycast", {t \in AsyncAsleep("g_asleep") : f \in asyncArg[t]})
    BY <1>18 DEF AsyncNotify
  <2>3. {t \in AsyncAsleep("g_asleep") : f \in asyncArg[t]} \in SUBSET AsyncAsleep("g_asleep")
    OBVIOUS
  <2> QED
    BY <1>0, <1>18, <2>1, <2>2, <2>3, WakingPlaces DEF AsyncNotify, AsyncStays, asyncShared
<1>19. ASSUME NEW w \in AsyncWorkers, AsyncAnyCast(w) PROVE AsyncTypeOK'
  <2>1. "lock" \in WorkerPlaces
    BY DEF WorkerPlaces, IdlePlaces
  <2> QED
    BY <1>0, <1>19, <2>1, WakingPlaces DEF AsyncAnyCast, asyncShared, asyncFutureVars
<1>20. ASSUME NEW t \in AsyncThreads, AsyncSpurious(t) PROVE AsyncTypeOK'
  <2>1. AsyncGo(t, AsyncResume[asyncPc[t]]) /\ asyncPc[t] \in {"asleep", "d_asleep", "g_asleep", "a_asleep"}
    BY <1>20 DEF AsyncSpurious, AsyncResume
  <2>2. UNCHANGED <<asyncQueue, asyncDown, asyncUp, asyncCall, asyncArg, asyncFutureVars>>
    BY <1>20 DEF AsyncSpurious, AsyncStays, asyncShared
  <2>3. CASE t \in AsyncWorkers
    <3>1. asyncPc[t] = "asleep" /\ "lock" \in WorkerPlaces
      BY <2>1, <2>3 DEF WorkerPlaces, IdlePlaces
    <3> QED
      BY <1>2, <2>1, <2>2, <2>3, <3>1 DEF AsyncResume, asyncFutureVars
  <2>4. CASE t \in AsyncCallers
    <3>0. asyncPc[t] \in {"d_asleep", "g_asleep", "a_asleep"}
      BY <2>1, <2>4 DEF CallerPlaces
    <3>1. AsyncResume[asyncPc[t]] \in CallerPlaces
      BY <3>0 DEF CallerPlaces, AsyncResume
    <3> QED
      BY <1>1, <2>1, <2>2, <2>4, <3>1 DEF asyncFutureVars
  <2> QED
    BY <1>0, <2>3, <2>4
<1>21. CASE UNCHANGED asyncVars
  BY <1>21 DEF asyncVars, asyncShared, asyncFutureVars
<1> QED
  BY <1>3, <1>4, <1>5, <1>6, <1>7, <1>8, <1>9, <1>10, <1>11, <1>12, <1>13, <1>14, <1>15, <1>16, <1>17, <1>18,
     <1>19, <1>20, <1>21 DEF AsyncNext, AsyncCallStep, AsyncWorkerStep

-------------------------------------------------------------------------------
(* Who moves, and where to: the facts about the whole next-state relation that   *)
(* the proofs below share.                                                       *)

(* A runtime that has been shut down has no worker left. *)
AsyncStopped == ~asyncUp => \A w \in AsyncWorkers : asyncPc[w] = "down"

Woken(u) == /\ asyncPc[u] \in DOMAIN AsyncResume /\ asyncPc'[u] = AsyncResume[asyncPc[u]]
            /\ u \in AsyncCallers => asyncCall'[u] = asyncCall[u]
            /\ asyncArg'[u] = asyncArg[u]
Unmoved(u) == /\ asyncPc'[u] = asyncPc[u] /\ asyncArg'[u] = asyncArg[u]
              /\ u \in AsyncCallers => asyncCall'[u] = asyncCall[u]

(* What a caller's step does to the others. *)
LEMMA CallOthers ==
  ASSUME AsyncTypeOK, NEW t \in AsyncCallers, AsyncCallStep(t), ~ AsyncRuntimeInit(t), NEW u \in AsyncThreads, u # t
  PROVE  Unmoved(u) \/ Woken(u)
<1> USE DEF AsyncTypeOK
<1>0. t \in AsyncThreads /\ AsyncThreads = AsyncWorkers \cup AsyncCallers
  BY Disjoint
<1>1. ASSUME NEW p, AsyncGo(t, p) PROVE asyncPc'[u] = asyncPc[u]
  BY <1>1 DEF AsyncGo
<1>2. ASSUME AsyncStays \/ AsyncReturn(t) \/ (\E c : \E F : AsyncEnter(t, c, F))
      PROVE  asyncArg'[u] = asyncArg[u] /\ (u \in AsyncCallers => asyncCall'[u] = asyncCall[u])
  BY <1>2 DEF AsyncStays, AsyncReturn, AsyncEnter
<1>3. ASSUME NEW f \in AsyncFutures, AsyncDispatch(t, f) \/ AsyncGet(t, f, "get") \/ AsyncGet(t, f, "drop")
                                     \/ AsyncCancel(t, f)
      PROVE  Unmoved(u)
  <2>1. CASE AsyncDispatch(t, f)
    BY <1>1, <1>2, <2>1 DEF AsyncDispatch, Unmoved
  <2>2. CASE AsyncCancel(t, f)
    BY <1>2, <2>2 DEF AsyncCancel, Unmoved
  <2>3. ASSUME NEW c, AsyncGet(t, f, c) PROVE Unmoved(u)
    BY <1>1, <1>2, <2>3 DEF AsyncGet, Unmoved
  <2> QED
    BY <1>3, <2>1, <2>2, <2>3
<1>4. ASSUME NEW F \in SUBSET AsyncFutures, AsyncWaitAny(t, F) PROVE Unmoved(u)
  BY <1>1, <1>2, <1>4 DEF AsyncWaitAny, Unmoved
<1>5. ASSUME AsyncDispatchWait(t) \/ AsyncGetWait(t) \/ AsyncGetReturn(t) \/ AsyncAnyWait(t)
             \/ AsyncShutdown(t) \/ AsyncShutdownJoin(t)
      PROVE  Unmoved(u)
  BY <1>1, <1>2, <1>5 DEF AsyncDispatchWait, AsyncGetWait, AsyncGetReturn, AsyncAnyWait, AsyncShutdown, AsyncShutdownJoin, Unmoved
<1>6. ASSUME AsyncGetLock(t) \/ AsyncAnyLock(t) \/ AsyncAnyWake(t) PROVE Unmoved(u)
  BY <1>1, <1>2, <1>6 DEF AsyncGetLock, AsyncAnyLock, AsyncAnyWake, Unmoved
<1>7. ASSUME AsyncEnqueue(t) \/ AsyncShutdownCast(t) PROVE Unmoved(u) \/ Woken(u)
  <2>1. PICK W \in SUBSET AsyncAsleep("asleep") : AsyncGoWaking(t, "app", W) \/ AsyncGoWaking(t, "s_join", W)
    BY <1>7, SignalledSleep DEF AsyncEnqueue, AsyncShutdownCast
  <2>2. asyncPc'[u] = asyncPc[u] \/ (asyncPc[u] = "asleep" /\ asyncPc'[u] = AsyncResume[asyncPc[u]])
    BY <1>0, <2>1 DEF AsyncGoWaking, AsyncAsleep
  <2>3. AsyncStays \/ AsyncReturn(t)
    BY <1>7 DEF AsyncEnqueue, AsyncShutdownCast
  <2> QED
    BY <1>2, <2>2, <2>3 DEF Unmoved, Woken, AsyncResume
<1> QED
  BY <1>3, <1>4, <1>5, <1>6, <1>7 DEF AsyncCallStep

(* What a worker's step does to the others. *)
LEMMA WorkOthers ==
  ASSUME AsyncTypeOK, NEW w \in AsyncWorkers, AsyncWorkerStep(w), NEW u \in AsyncThreads, u # w
  PROVE  Unmoved(u) \/ Woken(u)
<1> USE DEF AsyncTypeOK
<1>0. w \in AsyncThreads
  BY Disjoint
<1>1. ASSUME AsyncSeesEmpty(w) \/ AsyncPark(w) \/ AsyncExit(w) \/ AsyncStart(w) \/ AsyncFinish(w) \/ AsyncComplete(w)
      PROVE  Unmoved(u)
  BY <1>1 DEF AsyncSeesEmpty, AsyncPark, AsyncExit, AsyncStart, AsyncFinish, AsyncComplete, AsyncGo, AsyncStays, Unmoved
<1>2. ASSUME NEW q \in {"asleep", "d_asleep", "g_asleep", "a_asleep"}, NEW W \in SUBSET AsyncAsleep(q), NEW p,
             AsyncGoWaking(w, p, W), asyncCall' = asyncCall, asyncArg'[u] = asyncArg[u]
      PROVE  Unmoved(u) \/ Woken(u)
  BY <1>0, <1>2 DEF AsyncGoWaking, AsyncAsleep, Unmoved, Woken, AsyncResume
<1>3. CASE AsyncTake(w)
  BY <1>2, <1>3, SignalledSleep DEF AsyncTake
<1>4. CASE AsyncNotify(w)
  <2>1. PICK f \in asyncArg[w] : AsyncGoWaking(w, "anycast", {t \in AsyncAsleep("g_asleep") : f \in asyncArg[t]})
    BY <1>4 DEF AsyncNotify
  <2>2. {t \in AsyncAsleep("g_asleep") : f \in asyncArg[t]} \in SUBSET AsyncAsleep("g_asleep")
    OBVIOUS
  <2> QED
    BY <1>2, <1>4, <2>1, <2>2 DEF AsyncNotify, AsyncStays
<1>5. CASE AsyncAnyCast(w)
  BY <1>2, <1>5 DEF AsyncAnyCast
<1> QED
  BY <1>1, <1>3, <1>4, <1>5 DEF AsyncWorkerStep

(* A caller moves by a step of its own or by being woken. *)
LEMMA CallerMoves ==
  ASSUME AsyncTypeOK, [AsyncNext]_asyncVars, NEW u \in AsyncCallers
  PROVE  Unmoved(u) \/ Woken(u) \/ AsyncCallStep(u)
<1>0. u \in AsyncThreads /\ u \notin AsyncWorkers
  BY Disjoint
<1>1. ASSUME NEW t \in AsyncCallers, AsyncRuntimeInit(t) PROVE Unmoved(u)
  BY <1>0, <1>1 DEF AsyncRuntimeInit, AsyncStays, Unmoved, AsyncTypeOK
<1>2. ASSUME NEW t \in AsyncThreads, AsyncSpurious(t) PROVE Unmoved(u) \/ Woken(u)
  BY <1>0, <1>2 DEF AsyncSpurious, AsyncGo, AsyncStays, Unmoved, Woken, AsyncTypeOK
<1>3. CASE UNCHANGED asyncVars
  BY <1>3 DEF asyncVars, Unmoved
<1> QED
  BY <1>0, <1>1, <1>2, <1>3, CallOthers, WorkOthers DEF AsyncNext

(* A worker that was down is started with the runtime. *)
LEMMA WorkerMoves ==
  ASSUME AsyncTypeOK, AsyncStopped, [AsyncNext]_asyncVars, NEW w \in AsyncWorkers
  PROVE  \/ Unmoved(w) \/ Woken(w) \/ AsyncWorkerStep(w)
         \/ (asyncPc[w] = "down" /\ asyncPc'[w] = "lock" /\ asyncArg'[w] = asyncArg[w] /\ asyncUp')
<1>0. w \in AsyncThreads /\ w \notin AsyncCallers
  BY Disjoint
<1>1. ASSUME NEW t \in AsyncCallers, AsyncRuntimeInit(t)
      PROVE  asyncPc[w] = "down" /\ asyncPc'[w] = "lock" /\ asyncArg'[w] = asyncArg[w] /\ asyncUp'
  BY <1>0, <1>1 DEF AsyncRuntimeInit, AsyncStays, AsyncTypeOK, AsyncStopped
<1>2. ASSUME NEW t \in AsyncThreads, AsyncSpurious(t) PROVE Unmoved(w) \/ Woken(w)
  BY <1>0, <1>2 DEF AsyncSpurious, AsyncGo, AsyncStays, Unmoved, Woken, AsyncTypeOK
<1>3. CASE UNCHANGED asyncVars
  BY <1>3 DEF asyncVars, Unmoved
<1> QED
  BY <1>0, <1>1, <1>2, <1>3, CallOthers, WorkOthers DEF AsyncNext

(* Where a caller's own steps begin and end, and what becomes of its call. *)
Keeps(u)   == asyncCall'[u] = asyncCall[u] /\ asyncArg'[u] = asyncArg[u]
Returns(u) == asyncPc'[u] = "app" /\ asyncCall'[u] = "none" /\ asyncArg'[u] = {}
Enters(u, c, F) == asyncPc[u] = "app" /\ asyncCall'[u] = c /\ asyncArg'[u] = F

LEMMA CallerSteps ==
  ASSUME AsyncTypeOK, NEW u \in AsyncCallers
  PROVE  /\ \A f : AsyncDispatch(u, f) => Enters(u, "dispatch", {f}) /\ asyncPc'[u] = "d_lock"
         /\ \A f, c : AsyncGet(u, f, c) => Enters(u, c, {f}) /\ asyncPc'[u] = (IF asyncDone[f] THEN "got" ELSE "g_lock")
         /\ \A F : AsyncWaitAny(u, F) => Enters(u, "any", F) /\ asyncPc'[u] = "a_lock"
         /\ \A f : AsyncCancel(u, f) => asyncPc[u] = "app" /\ Unmoved(u)
         /\ AsyncDispatchWait(u) => asyncPc[u] = "d_lock" /\ asyncPc'[u] = "d_asleep" /\ Keeps(u)
         /\ AsyncEnqueue(u) => asyncPc[u] = "d_lock" /\ Returns(u)
         /\ AsyncGetLock(u) => asyncPc[u] = "g_lock" /\ asyncPc'[u] \in {"got", "g_park"} /\ Keeps(u)
         /\ AsyncGetWait(u) => asyncPc[u] = "g_park" /\ asyncPc'[u] = "g_asleep" /\ Keeps(u)
         /\ AsyncGetReturn(u) => asyncPc[u] = "got" /\ Returns(u)
         /\ AsyncAnyLock(u) => asyncPc[u] = "a_lock" /\ (Returns(u) \/ (asyncPc'[u] = "a_park" /\ Keeps(u)))
         /\ AsyncAnyWait(u) => asyncPc[u] = "a_park" /\ asyncPc'[u] = "a_asleep" /\ Keeps(u)
         /\ AsyncAnyWake(u) => asyncPc[u] = "a_wake" /\ (Returns(u) \/ (asyncPc'[u] = "a_lock" /\ Keeps(u)))
         /\ AsyncShutdown(u) => asyncPc[u] = "app" /\ asyncPc'[u] = "s_cast" /\ asyncCall'[u] = "shutdown"
         /\ AsyncShutdownCast(u) => asyncPc[u] = "s_cast" /\ asyncPc'[u] = "s_join" /\ Keeps(u)
         /\ AsyncShutdownJoin(u) => asyncPc[u] = "s_join" /\ Returns(u)
         /\ AsyncRuntimeInit(u) => asyncPc[u] = "app" /\ Unmoved(u)
<1> USE DEF AsyncTypeOK
<1>0. u \in AsyncThreads /\ u \notin AsyncWorkers
  BY Disjoint
<1>1. \A c, F : AsyncEnter(u, c, F) => asyncCall'[u] = c /\ asyncArg'[u] = F
  BY <1>0 DEF AsyncEnter
<1>2. AsyncReturn(u) => asyncCall'[u] = "none" /\ asyncArg'[u] = {}
  BY <1>0 DEF AsyncReturn
<1>3. AsyncStays => Keeps(u)
  BY DEF AsyncStays, Keeps
<1>4. \A p : AsyncGo(u, p) => asyncPc'[u] = p
  BY <1>0 DEF AsyncGo
<1>5. \A p, W : AsyncGoWaking(u, p, W) => asyncPc'[u] = p
  BY <1>0 DEF AsyncGoWaking
<1>6. /\ \A f : AsyncDispatch(u, f) => Enters(u, "dispatch", {f}) /\ asyncPc'[u] = "d_lock"
      /\ \A f, c : AsyncGet(u, f, c) => Enters(u, c, {f}) /\ asyncPc'[u] = (IF asyncDone[f] THEN "got" ELSE "g_lock")
      /\ \A F : AsyncWaitAny(u, F) => Enters(u, "any", F) /\ asyncPc'[u] = "a_lock"
      /\ \A f : AsyncCancel(u, f) => asyncPc[u] = "app" /\ Unmoved(u)
  BY <1>1, <1>4 DEF AsyncDispatch, AsyncGet, AsyncWaitAny, AsyncCancel, AsyncStays, Enters, Unmoved
<1>7. /\ AsyncDispatchWait(u) => asyncPc[u] = "d_lock" /\ asyncPc'[u] = "d_asleep" /\ Keeps(u)
      /\ AsyncEnqueue(u) => asyncPc[u] = "d_lock" /\ Returns(u)
      /\ AsyncGetLock(u) => asyncPc[u] = "g_lock" /\ asyncPc'[u] \in {"got", "g_park"} /\ Keeps(u)
      /\ AsyncGetWait(u) => asyncPc[u] = "g_park" /\ asyncPc'[u] = "g_asleep" /\ Keeps(u)
      /\ AsyncGetReturn(u) => asyncPc[u] = "got" /\ Returns(u)
  BY <1>2, <1>3, <1>4, <1>5 DEF AsyncDispatchWait, AsyncEnqueue, AsyncGetLock, AsyncGetWait, AsyncGetReturn, Returns
<1>8. /\ AsyncAnyLock(u) => asyncPc[u] = "a_lock" /\ (Returns(u) \/ (asyncPc'[u] = "a_park" /\ Keeps(u)))
      /\ AsyncAnyWait(u) => asyncPc[u] = "a_park" /\ asyncPc'[u] = "a_asleep" /\ Keeps(u)
      /\ AsyncAnyWake(u) => asyncPc[u] = "a_wake" /\ (Returns(u) \/ (asyncPc'[u] = "a_lock" /\ Keeps(u)))
  BY <1>2, <1>3, <1>4 DEF AsyncAnyLock, AsyncAnyWait, AsyncAnyWake, Returns
<1>9. /\ AsyncShutdown(u) => asyncPc[u] = "app" /\ asyncPc'[u] = "s_cast" /\ asyncCall'[u] = "shutdown"
      /\ AsyncShutdownCast(u) => asyncPc[u] = "s_cast" /\ asyncPc'[u] = "s_join" /\ Keeps(u)
      /\ AsyncShutdownJoin(u) => asyncPc[u] = "s_join" /\ Returns(u)
  BY <1>1, <1>2, <1>3, <1>4, <1>5 DEF AsyncShutdown, AsyncShutdownCast, AsyncShutdownJoin, Returns
<1>10. AsyncRuntimeInit(u) => asyncPc[u] = "app" /\ Unmoved(u)
  BY <1>0 DEF AsyncRuntimeInit, AsyncStays, Unmoved
<1> QED
  BY <1>6, <1>7, <1>8, <1>9, <1>10

(* The same of a worker's steps, and what becomes of its job. *)
LEMMA WorkerSteps ==
  ASSUME AsyncTypeOK, NEW w \in AsyncWorkers
  PROVE  /\ AsyncSeesEmpty(w) => asyncPc[w] = "lock" /\ asyncPc'[w] = "park" /\ asyncArg'[w] = asyncArg[w]
         /\ AsyncPark(w)      => asyncPc[w] = "park" /\ asyncPc'[w] = "asleep" /\ asyncArg'[w] = asyncArg[w]
         /\ AsyncExit(w)      => asyncPc[w] = "lock" /\ asyncPc'[w] = "down" /\ asyncArg'[w] = asyncArg[w]
         /\ AsyncTake(w)      => asyncPc[w] = "lock" /\ asyncPc'[w] = "check" /\ asyncArg'[w] = {Head(asyncQueue)}
         /\ AsyncStart(w)     => asyncPc[w] = "check" /\ asyncPc'[w] \in {"complete", "run"} /\ asyncArg'[w] = asyncArg[w]
         /\ AsyncFinish(w)    => asyncPc[w] = "run" /\ asyncPc'[w] = "complete" /\ asyncArg'[w] = asyncArg[w]
         /\ AsyncComplete(w)  => asyncPc[w] = "complete" /\ asyncPc'[w] = "notify" /\ asyncArg'[w] = asyncArg[w]
         /\ AsyncNotify(w)    => asyncPc[w] = "notify" /\ asyncPc'[w] = "anycast" /\ asyncArg'[w] = asyncArg[w]
         /\ AsyncAnyCast(w)   => asyncPc[w] = "anycast" /\ asyncPc'[w] = "lock" /\ asyncArg'[w] = {}
<1> USE DEF AsyncTypeOK
<1>0. w \in AsyncThreads
  BY Disjoint
<1>1. \A p : AsyncGo(w, p) => asyncPc'[w] = p
  BY <1>0 DEF AsyncGo
<1>2. \A p, W : AsyncGoWaking(w, p, W) => asyncPc'[w] = p
  BY <1>0 DEF AsyncGoWaking
<1>3. /\ AsyncSeesEmpty(w) => asyncPc[w] = "lock" /\ asyncPc'[w] = "park" /\ asyncArg'[w] = asyncArg[w]
      /\ AsyncPark(w)      => asyncPc[w] = "park" /\ asyncPc'[w] = "asleep" /\ asyncArg'[w] = asyncArg[w]
      /\ AsyncExit(w)      => asyncPc[w] = "lock" /\ asyncPc'[w] = "down" /\ asyncArg'[w] = asyncArg[w]
      /\ AsyncStart(w)     => asyncPc[w] = "check" /\ asyncPc'[w] \in {"complete", "run"} /\ asyncArg'[w] = asyncArg[w]
      /\ AsyncFinish(w)    => asyncPc[w] = "run" /\ asyncPc'[w] = "complete" /\ asyncArg'[w] = asyncArg[w]
      /\ AsyncComplete(w)  => asyncPc[w] = "complete" /\ asyncPc'[w] = "notify" /\ asyncArg'[w] = asyncArg[w]
  BY <1>1 DEF AsyncSeesEmpty, AsyncPark, AsyncExit, AsyncStart, AsyncFinish, AsyncComplete, AsyncStays
<1>4. AsyncTake(w) => asyncPc[w] = "lock" /\ asyncPc'[w] = "check" /\ asyncArg'[w] = {Head(asyncQueue)}
  BY <1>0, <1>2 DEF AsyncTake
<1>5. AsyncNotify(w) => asyncPc[w] = "notify" /\ asyncPc'[w] = "anycast" /\ asyncArg'[w] = asyncArg[w]
  BY <1>2 DEF AsyncNotify, AsyncStays
<1>6. AsyncAnyCast(w) => asyncPc[w] = "anycast" /\ asyncPc'[w] = "lock" /\ asyncArg'[w] = {}
  BY <1>0, <1>2 DEF AsyncAnyCast
<1> QED
  BY <1>3, <1>4, <1>5, <1>6

(* By which step a thread comes to a place where it sleeps, is about to, has work  *)
(* left or is shutting down.                                                      *)
LEMMA CallerArrivals ==
  ASSUME AsyncTypeOK, [AsyncNext]_asyncVars, NEW u \in AsyncCallers, asyncPc'[u] # asyncPc[u]
  PROVE  /\ asyncPc'[u] = "d_asleep" => AsyncDispatchWait(u)
         /\ asyncPc'[u] = "g_park"   => AsyncGetLock(u)
         /\ asyncPc'[u] = "g_asleep" => AsyncGetWait(u)
         /\ asyncPc'[u] = "a_park"   => AsyncAnyLock(u)
         /\ asyncPc'[u] = "a_asleep" => AsyncAnyWait(u)
         /\ asyncPc'[u] = "s_cast"   => AsyncShutdown(u)
         /\ asyncPc'[u] = "s_join"   => AsyncShutdownCast(u)
         /\ asyncPc[u] = "d_lock"    => AsyncDispatchWait(u) \/ AsyncEnqueue(u)
         /\ asyncPc[u] = "s_cast"    => AsyncShutdownCast(u)
         /\ asyncPc[u] = "s_join"    => AsyncShutdownJoin(u)
<1>1. ~ Unmoved(u)
  BY DEF Unmoved
<1>2. CASE Woken(u)
  <2>1. /\ asyncPc[u] \in {"asleep", "d_asleep", "g_asleep", "a_asleep"}
        /\ asyncPc'[u] \in {"lock", "d_lock", "g_lock", "a_wake"}
    BY <1>2 DEF Woken, AsyncResume
  <2> QED
    BY <2>1
<1>3. CASE AsyncCallStep(u)
  <2>1. CASE \E f \in AsyncFutures : AsyncDispatch(u, f) \/ AsyncGet(u, f, "get") \/ AsyncGet(u, f, "drop") \/ AsyncCancel(u, f)
    <3>1. asyncPc[u] = "app" /\ asyncPc'[u] \in {"d_lock", "got", "g_lock"}
      BY <1>1, <2>1, CallerSteps DEF Enters
    <3> QED
      BY <3>1
  <2>2. CASE \E F \in SUBSET AsyncFutures : AsyncWaitAny(u, F)
    <3>1. asyncPc[u] = "app" /\ asyncPc'[u] = "a_lock"
      BY <2>2, CallerSteps DEF Enters
    <3> QED
      BY <3>1
  <2> QED
    BY <1>1, <1>3, <2>1, <2>2, CallerSteps DEF AsyncCallStep, Returns
<1> QED
  BY <1>1, <1>2, <1>3, CallerMoves

LEMMA WorkerArrivals ==
  ASSUME AsyncTypeOK, AsyncStopped, [AsyncNext]_asyncVars, NEW w \in AsyncWorkers, asyncPc'[w] # asyncPc[w]
  PROVE  /\ asyncPc'[w] = "park"   => AsyncSeesEmpty(w)
         /\ asyncPc'[w] = "asleep" => AsyncPark(w)
         /\ asyncPc'[w] = "down"   => AsyncExit(w)
         /\ asyncPc'[w] = "notify" => AsyncComplete(w)
         /\ asyncPc[w] = "notify"  => AsyncNotify(w)
         /\ asyncPc[w] = "anycast" => AsyncAnyCast(w)
         /\ asyncPc[w] = "down"    => asyncPc'[w] = "lock"
<1>1. ~ Unmoved(w)
  BY DEF Unmoved
<1>2. CASE Woken(w)
  <2>1. /\ asyncPc[w] \in {"asleep", "d_asleep", "g_asleep", "a_asleep"}
        /\ asyncPc'[w] \in {"lock", "d_lock", "g_lock", "a_wake"}
    BY <1>2 DEF Woken, AsyncResume
  <2> QED
    BY <2>1
<1>3. CASE AsyncWorkerStep(w)
  BY <1>3, WorkerSteps DEF AsyncWorkerStep
<1> QED
  BY <1>1, <1>2, <1>3, WorkerMoves

(* Which steps write what. *)
LEMMA Writers ==
  ASSUME [AsyncNext]_asyncVars
  PROVE  /\ UNCHANGED asyncQueue \/ (\E t \in AsyncCallers : AsyncEnqueue(t)) \/ (\E w \in AsyncWorkers : AsyncTake(w))
         /\ UNCHANGED asyncQMutex \/ (\E w \in AsyncWorkers : AsyncSeesEmpty(w) \/ AsyncPark(w))
         /\ UNCHANGED asyncAnyMutex \/ (\E t \in AsyncCallers : AsyncAnyLock(t) \/ AsyncAnyWait(t))
         /\ UNCHANGED <<asyncDown, asyncInitMutex>>
              \/ (\E t \in AsyncCallers : AsyncShutdown(t) \/ AsyncShutdownJoin(t))
         /\ UNCHANGED asyncUp \/ (\E t \in AsyncCallers : AsyncShutdownJoin(t) \/ AsyncRuntimeInit(t))
         /\ UNCHANGED asyncAlloc \/ (\E t \in AsyncCallers : AsyncGetReturn(t))
              \/ (\E t \in AsyncCallers : \E f \in AsyncFutures : AsyncDispatch(t, f))
         /\ UNCHANGED asyncDone \/ (\E w \in AsyncWorkers : AsyncComplete(w))
         /\ UNCHANGED asyncRuns \/ (\E w \in AsyncWorkers : AsyncStart(w))
         /\ UNCHANGED <<asyncCancelled, asyncInTime>>
              \/ (\E t \in AsyncCallers : \E f \in AsyncFutures : AsyncCancel(t, f))
         /\ UNCHANGED asyncFMutex \/ (\E t \in AsyncCallers : AsyncGetLock(t) \/ AsyncGetWait(t))
              \/ (\E w \in AsyncWorkers : AsyncComplete(w) \/ AsyncNotify(w))
<1> USE DEF asyncShared, asyncFutureVars
<1>1. ASSUME NEW t \in AsyncCallers, NEW f \in AsyncFutures, AsyncDispatch(t, f)
      PROVE  UNCHANGED <<asyncShared, asyncDone, asyncCancelled, asyncFMutex, asyncRuns, asyncInTime>>
  BY <1>1 DEF AsyncDispatch
<1>2. ASSUME NEW t \in AsyncCallers, NEW f \in AsyncFutures, AsyncGet(t, f, "get") \/ AsyncGet(t, f, "drop")
      PROVE  UNCHANGED <<asyncShared, asyncFutureVars>>
  BY <1>2 DEF AsyncGet
<1>3. ASSUME NEW t \in AsyncCallers, NEW f \in AsyncFutures, AsyncCancel(t, f)
      PROVE  UNCHANGED <<asyncShared, asyncAlloc, asyncDone, asyncFMutex, asyncRuns>>
  BY <1>3 DEF AsyncCancel
<1>4. ASSUME NEW t \in AsyncCallers, NEW F \in SUBSET AsyncFutures, AsyncWaitAny(t, F)
      PROVE  UNCHANGED <<asyncShared, asyncFutureVars>>
  BY <1>4 DEF AsyncWaitAny
<1>5. ASSUME NEW t \in AsyncCallers,
             AsyncDispatchWait(t) \/ AsyncEnqueue(t) \/ AsyncGetLock(t) \/ AsyncGetWait(t) \/ AsyncGetReturn(t)
             \/ AsyncAnyLock(t) \/ AsyncAnyWait(t) \/ AsyncAnyWake(t)
      PROVE  /\ UNCHANGED asyncQueue \/ AsyncEnqueue(t)
             /\ UNCHANGED asyncAnyMutex \/ AsyncAnyLock(t) \/ AsyncAnyWait(t)
             /\ UNCHANGED asyncAlloc \/ AsyncGetReturn(t)
             /\ UNCHANGED asyncFMutex \/ AsyncGetLock(t) \/ AsyncGetWait(t)
             /\ UNCHANGED <<asyncQMutex, asyncDown, asyncInitMutex, asyncUp, asyncDone, asyncRuns, asyncCancelled, asyncInTime>>
  BY <1>5 DEF AsyncDispatchWait, AsyncEnqueue, AsyncGetLock, AsyncGetWait, AsyncGetReturn, AsyncAnyLock, AsyncAnyWait,
              AsyncAnyWake
<1>6. ASSUME NEW t \in AsyncCallers, AsyncShutdown(t) \/ AsyncShutdownCast(t) \/ AsyncShutdownJoin(t) \/ AsyncRuntimeInit(t)
      PROVE  /\ UNCHANGED <<asyncDown, asyncInitMutex>> \/ AsyncShutdown(t) \/ AsyncShutdownJoin(t)
             /\ UNCHANGED asyncUp \/ AsyncShutdownJoin(t) \/ AsyncRuntimeInit(t)
             /\ UNCHANGED <<asyncQueue, asyncQMutex, asyncAnyMutex, asyncFutureVars>>
  BY <1>6 DEF AsyncShutdown, AsyncShutdownCast, AsyncShutdownJoin, AsyncRuntimeInit
<1>7. ASSUME NEW w \in AsyncWorkers, AsyncWorkerStep(w)
      PROVE  /\ UNCHANGED asyncQueue \/ AsyncTake(w)
             /\ UNCHANGED asyncQMutex \/ AsyncSeesEmpty(w) \/ AsyncPark(w)
             /\ UNCHANGED asyncDone \/ AsyncComplete(w)
             /\ UNCHANGED asyncRuns \/ AsyncStart(w)
             /\ UNCHANGED asyncFMutex \/ AsyncComplete(w) \/ AsyncNotify(w)
             /\ UNCHANGED <<asyncDown, asyncUp, asyncAnyMutex, asyncInitMutex, asyncAlloc, asyncCancelled, asyncInTime>>
  BY <1>7 DEF AsyncWorkerStep, AsyncSeesEmpty, AsyncPark, AsyncExit, AsyncTake, AsyncStart, AsyncFinish, AsyncComplete,
              AsyncNotify, AsyncAnyCast
<1>8. ASSUME NEW t \in AsyncThreads, AsyncSpurious(t) PROVE UNCHANGED <<asyncShared, asyncFutureVars>>
  BY <1>8 DEF AsyncSpurious
<1>9. CASE UNCHANGED asyncVars
  BY <1>9 DEF asyncVars
<1> QED
  BY <1>1, <1>2, <1>3, <1>4, <1>5, <1>6, <1>7, <1>8, <1>9 DEF AsyncNext, AsyncCallStep

-------------------------------------------------------------------------------
(* What each place in the code says of the futures there. *)

Queued(f)      == f \in Jobs(asyncQueue)
Held(f)        == \E w \in AsyncWorkers : f \in asyncArg[w]
Dispatching(f) == \E t \in AsyncCallers : asyncCall[t] = "dispatch" /\ f \in asyncArg[t]

(* A dispatch or a get is about one future, which is done once a get has come      *)
(* through.                                                                        *)
CallsMatch ==
  \A t \in AsyncCallers :
    /\ asyncPc[t] \in {"d_lock", "d_asleep"} <=> asyncCall[t] = "dispatch"
    /\ asyncPc[t] \in {"d_lock", "d_asleep", "g_lock", "g_park", "g_asleep", "got"} =>
         \E f \in AsyncFutures : asyncArg[t] = {f}
    /\ asyncPc[t] = "got" => \A f \in asyncArg[t] : asyncDone[f]

(* A worker in the middle of a job has that job, which has run as far as the       *)
(* worker has come.                                                                *)
RunsMatch(w, f) ==
  /\ asyncDone[f] <=> asyncPc[w] \in {"notify", "anycast"}
  /\ asyncPc[w] = "check" => asyncRuns[f] = 0
  /\ asyncPc[w] = "run" => asyncRuns[f] = 1
  /\ asyncPc[w] = "complete" => asyncRuns[f] = 1 \/ asyncCancelled[f]
JobsMatch ==
  \A w \in AsyncWorkers :
    /\ asyncPc[w] \in IdlePlaces => asyncArg[w] = {}
    /\ asyncPc[w] \notin IdlePlaces => \E f \in AsyncFutures : asyncArg[w] = {f}
    /\ \A f \in asyncArg[w] : RunsMatch(w, f)

(* A future is in one place at a time, once. *)
OnePlace ==
  /\ Distinct(asyncQueue)
  /\ \A f \in AsyncFutures : /\ Queued(f) => ~ Held(f) /\ ~ Dispatching(f)
                             /\ Dispatching(f) => ~ Held(f)
                             /\ asyncAlloc[f] = "none" => ~ Queued(f) /\ ~ Held(f) /\ ~ Dispatching(f)
  /\ \A v, w \in AsyncWorkers : \A f \in asyncArg[v] \cap asyncArg[w] : v = w
  /\ \A t, u \in AsyncCallers : asyncCall[t] = "dispatch" /\ asyncCall[u] = "dispatch" =>
       \A f \in asyncArg[t] \cap asyncArg[u] : t = u

(* What no worker has taken has not run. *)
Unstarted == \A f \in AsyncFutures :
  asyncAlloc[f] = "none" \/ Queued(f) \/ Dispatching(f) => asyncRuns[f] = 0 /\ ~ asyncDone[f]

Cancelled == \A f \in asyncInTime : asyncCancelled[f]

Hands == CallsMatch /\ JobsMatch /\ OnePlace /\ Unstarted /\ Cancelled /\ CancellationHonoured

Settled == AsyncTypeOK /\ AsyncStopped /\ Hands

-------------------------------------------------------------------------------
(* Who changes what of a future. *)

LEMMA DoneWriter ==
  ASSUME AsyncTypeOK, [AsyncNext]_asyncVars, NEW f \in AsyncFutures, asyncDone'[f] # asyncDone[f]
  PROVE  asyncDone'[f] /\ \E w \in AsyncWorkers : AsyncComplete(w) /\ f \in asyncArg[w]
<1>1. PICK w \in AsyncWorkers : AsyncComplete(w)
  BY Writers
<1>2. PICK g \in asyncArg[w] : asyncDone' = [asyncDone EXCEPT ![g] = TRUE]
  BY <1>1 DEF AsyncComplete
<1>3. g = f /\ asyncDone'[f] = TRUE
  BY <1>2 DEF AsyncTypeOK
<1> QED
  BY <1>1, <1>3

LEMMA RunsWriter ==
  ASSUME AsyncTypeOK, [AsyncNext]_asyncVars, NEW f \in AsyncFutures, asyncRuns'[f] # asyncRuns[f]
  PROVE  /\ asyncRuns'[f] = asyncRuns[f] + 1 /\ ~ asyncCancelled[f]
         /\ \E w \in AsyncWorkers : AsyncStart(w) /\ f \in asyncArg[w]
<1>1. PICK w \in AsyncWorkers : AsyncStart(w)
  BY Writers
<1>2. PICK g \in asyncArg[w] : asyncRuns' = [asyncRuns EXCEPT ![g] = @ + IF asyncCancelled[g] THEN 0 ELSE 1]
  BY <1>1 DEF AsyncStart
<1>3. g = f
  BY <1>2 DEF AsyncTypeOK
<1>4. asyncRuns[f] \in Nat /\ asyncRuns'[f] = asyncRuns[f] + IF asyncCancelled[f] THEN 0 ELSE 1
  BY <1>2, <1>3 DEF AsyncTypeOK
<1> QED
  BY <1>1, <1>3, <1>4

LEMMA CancelWriter ==
  ASSUME AsyncTypeOK, [AsyncNext]_asyncVars, NEW f \in AsyncFutures
  PROVE  /\ asyncCancelled[f] => asyncCancelled'[f]
         /\ f \in asyncInTime' => f \in asyncInTime \/ (Queued(f) /\ asyncCancelled'[f])
<1>1. ASSUME NEW t \in AsyncCallers, NEW g \in AsyncFutures, AsyncCancel(t, g)
      PROVE  /\ asyncCancelled[f] => asyncCancelled'[f]
             /\ f \in asyncInTime' => f \in asyncInTime \/ (Queued(f) /\ asyncCancelled'[f])
  BY <1>1 DEF AsyncCancel, AsyncTypeOK, Queued, Jobs
<1> QED
  BY <1>1, Writers

(* What comes into the queue, into a worker's and into a dispatcher's hands. *)
LEMMA QueueWriter ==
  ASSUME AsyncTypeOK, CallsMatch, Distinct(asyncQueue), [AsyncNext]_asyncVars
  PROVE  \/ \E t \in AsyncCallers : \E g \in AsyncFutures :
              /\ AsyncEnqueue(t) /\ asyncArg[t] = {g} /\ asyncCall[t] = "dispatch"
              /\ g \notin Jobs(asyncQueue) => Distinct(asyncQueue)'
              /\ \A f : Queued(f)' <=> Queued(f) \/ f = g
         \/ \E w \in AsyncWorkers : \E g \in AsyncFutures :
              /\ AsyncTake(w) /\ g = Head(asyncQueue) /\ Queued(g)
              /\ Distinct(asyncQueue)'
              /\ \A f : Queued(f)' <=> Queued(f) /\ f # g
         \/ /\ asyncQueue' = asyncQueue /\ Distinct(asyncQueue)'
            /\ \A f : Queued(f)' <=> Queued(f)
<1>0. /\ \A f : Queued(f)' <=> f \in Jobs(asyncQueue')
      /\ Distinct(asyncQueue)' <=> Distinct(asyncQueue')
  BY DEF Queued, Jobs, Distinct
<1>1. ASSUME NEW t \in AsyncCallers, AsyncEnqueue(t)
      PROVE  \E g \in AsyncFutures :
               /\ AsyncEnqueue(t) /\ asyncArg[t] = {g} /\ asyncCall[t] = "dispatch"
               /\ g \notin Jobs(asyncQueue) => Distinct(asyncQueue)'
               /\ \A f : Queued(f)' <=> Queued(f) \/ f = g
  <2>1. asyncPc[t] = "d_lock"
    BY <1>1 DEF AsyncEnqueue
  <2>2. PICK g \in AsyncFutures : asyncArg[t] = {g}
    BY <2>1 DEF CallsMatch
  <2>3. asyncQueue' = Append(asyncQueue, g) /\ asyncQueue \in Seq(AsyncFutures)
    BY <1>1, <2>2 DEF AsyncEnqueue, AsyncTypeOK
  <2>4. Jobs(asyncQueue') = Jobs(asyncQueue) \cup {g} /\ (g \notin Jobs(asyncQueue) => Distinct(asyncQueue'))
    BY <2>3, QueuePut
  <2>5. \A f : Queued(f)' <=> Queued(f) \/ f = g
    BY <1>0, <2>4 DEF Queued
  <2> QED
    BY <1>0, <1>1, <2>1, <2>2, <2>4, <2>5 DEF CallsMatch
<1>2. ASSUME NEW w \in AsyncWorkers, AsyncTake(w)
      PROVE  \E g \in AsyncFutures :
               /\ AsyncTake(w) /\ g = Head(asyncQueue) /\ Queued(g)
               /\ Distinct(asyncQueue)'
               /\ \A f : Queued(f)' <=> Queued(f) /\ f # g
  <2>1. asyncQueue' = Tail(asyncQueue) /\ asyncQueue # <<>> /\ asyncQueue \in Seq(AsyncFutures)
    BY <1>2 DEF AsyncTake, AsyncTypeOK
  <2>2. /\ Head(asyncQueue) \in Jobs(asyncQueue) /\ Head(asyncQueue) \in AsyncFutures
        /\ Jobs(asyncQueue') = Jobs(asyncQueue) \ {Head(asyncQueue)} /\ Distinct(asyncQueue')
    BY <2>1, QueueTake
  <2> QED
    BY <1>0, <1>2, <2>2 DEF Queued
<1>3. CASE UNCHANGED asyncQueue
  BY <1>0, <1>3 DEF Queued
<1> QED
  BY <1>1, <1>2, <1>3, Writers

LEMMA WorkerArg ==
  ASSUME AsyncTypeOK, AsyncStopped, [AsyncNext]_asyncVars, NEW w \in AsyncWorkers, NEW f \in asyncArg'[w]
  PROVE  f \in asyncArg[w] \/ (AsyncTake(w) /\ f = Head(asyncQueue))
BY WorkerMoves, WorkerSteps DEF Unmoved, Woken, AsyncWorkerStep

LEMMA DispatchArg ==
  ASSUME AsyncTypeOK, [AsyncNext]_asyncVars, NEW t \in AsyncCallers, NEW f \in asyncArg'[t], asyncCall'[t] = "dispatch"
  PROVE  (asyncCall[t] = "dispatch" /\ f \in asyncArg[t] /\ ~ AsyncEnqueue(t)) \/ AsyncDispatch(t, f)
<1>1. ASSUME AsyncEnqueue(t) PROVE FALSE
  BY <1>1, CallerSteps DEF Returns
<1>2. CASE Unmoved(t) \/ Woken(t)
  BY <1>1, <1>2 DEF Unmoved, Woken
<1>3. CASE AsyncCallStep(t)
  <2>1. ASSUME NEW g \in AsyncFutures, AsyncDispatch(t, g) PROVE AsyncDispatch(t, f)
    <3>1. asyncArg'[t] = {g}
      BY <2>1, CallerSteps DEF Enters
    <3> QED
      BY <2>1, <3>1
  <2>2. ASSUME NEW g \in AsyncFutures, AsyncGet(t, g, "get") \/ AsyncGet(t, g, "drop") PROVE FALSE
    BY <2>2, CallerSteps DEF Enters
  <2>3. ASSUME NEW F \in SUBSET AsyncFutures, AsyncWaitAny(t, F) PROVE FALSE
    BY <2>3, CallerSteps DEF Enters
  <2>4. ASSUME NEW g \in AsyncFutures, AsyncCancel(t, g) PROVE Unmoved(t)
    BY <2>4, CallerSteps
  <2>5. ASSUME ~ Unmoved(t), ~ Keeps(t)
        PROVE  AsyncDispatch(t, f)
    BY <1>1, <1>3, <2>1, <2>2, <2>3, <2>4, <2>5, CallerSteps DEF AsyncCallStep, Returns
  <2> QED
    BY <1>1, <1>2, <2>5 DEF Keeps
<1> QED
  BY <1>2, <1>3, CallerMoves

-------------------------------------------------------------------------------
(* The parts of the invariant so far, one by one. *)

LEMMA StoppedStep == AsyncTypeOK /\ AsyncStopped /\ [AsyncNext]_asyncVars => AsyncStopped'
<1> SUFFICES ASSUME AsyncTypeOK, AsyncStopped, [AsyncNext]_asyncVars, ~ asyncUp', NEW w \in AsyncWorkers
             PROVE  asyncPc'[w] = "down"
  BY DEF AsyncStopped
<1>1. ASSUME asyncPc[w] = "down" PROVE asyncPc'[w] = "down"
  BY <1>1, WorkerMoves, WorkerSteps DEF Unmoved, Woken, AsyncResume, AsyncWorkerStep
<1>2. ASSUME NEW t \in AsyncCallers, AsyncShutdownJoin(t) PROVE asyncPc[w] = "down"
  BY <1>2 DEF AsyncShutdownJoin
<1>3. ASSUME NEW t \in AsyncCallers, AsyncRuntimeInit(t) PROVE FALSE
  BY <1>3 DEF AsyncRuntimeInit
<1> QED
  BY <1>1, <1>2, <1>3, Writers DEF AsyncStopped

LEMMA DoneStays ==
  ASSUME AsyncTypeOK, [AsyncNext]_asyncVars, NEW f \in AsyncFutures, asyncDone[f]
  PROVE  asyncDone'[f]
BY DoneWriter DEF AsyncTypeOK

LEMMA CallsStep == AsyncTypeOK /\ CallsMatch /\ [AsyncNext]_asyncVars => CallsMatch'
<1> DEFINE Match(t) ==
      /\ asyncPc[t] \in {"d_lock", "d_asleep"} <=> asyncCall[t] = "dispatch"
      /\ asyncPc[t] \in {"d_lock", "d_asleep", "g_lock", "g_park", "g_asleep", "got"} =>
           \E f \in AsyncFutures : asyncArg[t] = {f}
      /\ asyncPc[t] = "got" => \A f \in asyncArg[t] : asyncDone[f]
<1> SUFFICES ASSUME AsyncTypeOK, CallsMatch, [AsyncNext]_asyncVars, NEW t \in AsyncCallers PROVE Match(t)'
  BY DEF CallsMatch
<1>0. Match(t) /\ asyncArg[t] \in SUBSET AsyncFutures
  BY Disjoint DEF CallsMatch, AsyncTypeOK
<1>1. CASE Unmoved(t)
  BY <1>0, <1>1, DoneStays DEF Unmoved
<1>2. CASE Woken(t)
  <2>1. \/ asyncPc[t] \in {"asleep", "a_asleep"} /\ asyncPc'[t] \in {"lock", "a_wake"}
        \/ asyncPc[t] = "d_asleep" /\ asyncPc'[t] = "d_lock"
        \/ asyncPc[t] = "g_asleep" /\ asyncPc'[t] = "g_lock"
    BY <1>2 DEF Woken, AsyncResume
  <2> QED
    BY <1>0, <1>2, <2>1 DEF Woken
<1>3. ASSUME NEW f \in AsyncFutures, AsyncDispatch(t, f) PROVE Match(t)'
  BY <1>3, CallerSteps DEF Enters
<1>4. ASSUME NEW f \in AsyncFutures, NEW c \in {"get", "drop"}, AsyncGet(t, f, c) PROVE Match(t)'
  <2>1. asyncPc'[t] = (IF asyncDone[f] THEN "got" ELSE "g_lock") /\ asyncCall'[t] = c /\ asyncArg'[t] = {f}
    BY <1>4, CallerSteps DEF Enters
  <2> QED
    BY <2>1, DoneStays
<1>5. ASSUME NEW F \in SUBSET AsyncFutures, AsyncWaitAny(t, F) PROVE Match(t)'
  BY <1>5, CallerSteps DEF Enters
<1>6. ASSUME NEW f \in AsyncFutures, AsyncCancel(t, f) PROVE Match(t)'
  BY <1>1, <1>6, CallerSteps
<1>7. ASSUME AsyncGetLock(t) PROVE Match(t)'
  <2>1. asyncPc[t] = "g_lock" /\ asyncPc'[t] \in {"got", "g_park"} /\ Keeps(t)
    BY <1>7, CallerSteps
  <2>2. PICK f \in AsyncFutures : asyncArg[t] = {f}
    BY <1>0, <2>1
  <2>3. asyncDone[f] \/ AsyncGo(t, "g_park")
    BY <1>7, <2>2 DEF AsyncGetLock
  <2>4. asyncPc'[t] = "got" => asyncDone'[f]
    BY <2>3, DoneStays, Disjoint DEF AsyncGo, AsyncTypeOK
  <2> QED
    BY <1>0, <2>1, <2>2, <2>4 DEF Keeps
<1>8. ASSUME Returns(t) PROVE Match(t)'
  BY <1>8 DEF Returns
<1>9. ASSUME AsyncDispatchWait(t) \/ AsyncGetWait(t) \/ AsyncAnyWait(t) \/ AsyncShutdownCast(t) PROVE Match(t)'
  BY <1>0, <1>9, CallerSteps DEF Keeps
<1>10. ASSUME AsyncAnyLock(t) \/ AsyncAnyWake(t) PROVE Match(t)'
  BY <1>0, <1>8, <1>10, CallerSteps DEF Keeps
<1>11. ASSUME AsyncShutdown(t) PROVE Match(t)'
  BY <1>11, CallerSteps
<1>12. ASSUME AsyncRuntimeInit(t) PROVE Match(t)'
  BY <1>1, <1>12, CallerSteps
<1>13. ASSUME AsyncEnqueue(t) \/ AsyncGetReturn(t) \/ AsyncShutdownJoin(t) PROVE Match(t)'
  BY <1>8, <1>13, CallerSteps
<1> QED
  BY <1>1, <1>2, <1>3, <1>4, <1>5, <1>6, <1>7, <1>9, <1>10, <1>11, <1>12, <1>13, CallerMoves DEF AsyncCallStep

(* Nobody else changes what a worker's job has come to. *)
LEMMA JobKept ==
  ASSUME Settled, [AsyncNext]_asyncVars, NEW w \in AsyncWorkers, NEW f \in asyncArg[w]
  PROVE  /\ f \in AsyncFutures
         /\ ~ AsyncComplete(w) => asyncDone'[f] = asyncDone[f]
         /\ ~ AsyncStart(w) => asyncRuns'[f] = asyncRuns[f]
         /\ asyncCancelled[f] => asyncCancelled'[f]
<1>0. AsyncTypeOK /\ OnePlace /\ f \in AsyncFutures
  BY Disjoint DEF Settled, Hands, AsyncTypeOK
<1>1. \A v \in AsyncWorkers : f \in asyncArg[v] => v = w
  BY <1>0 DEF OnePlace
<1> QED
  BY <1>0, <1>1, DoneWriter, RunsWriter, CancelWriter

(* Nobody changes what a job that no worker has taken has come to. *)
LEMMA FreshKept ==
  ASSUME Settled, [AsyncNext]_asyncVars, NEW f \in AsyncFutures, ~ Held(f)
  PROVE  asyncDone'[f] = asyncDone[f] /\ asyncRuns'[f] = asyncRuns[f]
BY DoneWriter, RunsWriter DEF Settled, Held

LEMMA JobsStep == Settled /\ [AsyncNext]_asyncVars => JobsMatch'
<1> DEFINE Match(w) ==
      /\ asyncPc[w] \in IdlePlaces => asyncArg[w] = {}
      /\ asyncPc[w] \notin IdlePlaces => \E f \in AsyncFutures : asyncArg[w] = {f}
      /\ \A f \in asyncArg[w] : RunsMatch(w, f)
<1> SUFFICES ASSUME Settled, [AsyncNext]_asyncVars, NEW w \in AsyncWorkers PROVE Match(w)'
  BY DEF JobsMatch
<1> USE DEF IdlePlaces
<1>0. /\ AsyncTypeOK /\ AsyncStopped /\ OnePlace /\ Unstarted /\ Match(w)
      /\ asyncPc[w] \in WorkerPlaces
  BY DEF Settled, Hands, JobsMatch, AsyncTypeOK
<1>1. CASE Unmoved(w)
  <2>1. asyncPc'[w] = asyncPc[w] /\ asyncArg'[w] = asyncArg[w]
    BY <1>1 DEF Unmoved
  <2>2. ~ AsyncComplete(w) /\ ~ AsyncStart(w)
    BY <1>0, <2>1, WorkerSteps
  <2>3. ASSUME NEW f \in asyncArg[w] PROVE RunsMatch(w, f)'
    BY <1>0, <2>1, <2>2, <2>3, JobKept DEF RunsMatch
  <2> QED
    BY <1>0, <2>1, <2>3
<1>2. ASSUME asyncPc[w] \in IdlePlaces, asyncPc'[w] \in IdlePlaces, asyncArg'[w] = asyncArg[w] PROVE Match(w)'
  BY <1>0, <1>2
<1>3. CASE Woken(w)
  <2>1. asyncPc[w] = "asleep"
    BY <1>0, <1>3 DEF Woken, AsyncResume, WorkerPlaces
  <2> QED
    BY <1>2, <1>3, <2>1 DEF Woken, AsyncResume
<1>4. CASE asyncPc[w] = "down" /\ asyncPc'[w] = "lock" /\ asyncArg'[w] = asyncArg[w]
  BY <1>2, <1>4
<1>5. CASE AsyncSeesEmpty(w) \/ AsyncPark(w) \/ AsyncExit(w)
  BY <1>0, <1>2, <1>5, WorkerSteps
<1>6. CASE AsyncTake(w)
  <2>1. asyncPc'[w] = "check" /\ asyncArg'[w] = {Head(asyncQueue)}
    BY <1>0, <1>6, WorkerSteps
  <2>2. Head(asyncQueue) \in AsyncFutures /\ Queued(Head(asyncQueue))
    BY <1>0, <1>6, QueueTake DEF AsyncTake, AsyncTypeOK, OnePlace, Queued
  <2>3. PICK g \in AsyncFutures : g = Head(asyncQueue)
    BY <2>2
  <2>4. asyncRuns'[g] = 0 /\ ~ asyncDone'[g]
    BY <1>0, <2>2, <2>3, FreshKept DEF OnePlace, Unstarted
  <2>5. RunsMatch(w, g)'
    BY <2>1, <2>4 DEF RunsMatch
  <2> QED
    BY <2>1, <2>3, <2>5
<1>7. ASSUME asyncPc[w] \notin IdlePlaces, asyncPc'[w] \notin IdlePlaces, asyncArg'[w] = asyncArg[w],
             \A f \in asyncArg[w] : RunsMatch(w, f)'
      PROVE  Match(w)'
  BY <1>0, <1>7
<1>8. CASE AsyncStart(w)
  <2>1. asyncPc[w] = "check" /\ asyncPc'[w] \in {"complete", "run"} /\ asyncArg'[w] = asyncArg[w]
    BY <1>0, <1>8, WorkerSteps
  <2>2. ASSUME NEW f \in asyncArg[w] PROVE RunsMatch(w, f)'
    <3>1. asyncRuns[f] = 0 /\ ~ asyncDone[f] /\ asyncArg[w] = {f} /\ f \in AsyncFutures
      BY <1>0, <2>1, <2>2, JobKept DEF RunsMatch
    <3>2. /\ asyncPc'[w] = IF asyncCancelled[f] THEN "complete" ELSE "run"
          /\ asyncRuns' = [asyncRuns EXCEPT ![f] = @ + IF asyncCancelled[f] THEN 0 ELSE 1]
      BY <1>0, <1>8, <3>1, Disjoint DEF AsyncStart, AsyncGo, AsyncTypeOK
    <3>3. ~ asyncDone'[f] /\ (asyncCancelled[f] => asyncCancelled'[f])
      BY <1>0, <2>1, <2>2, <3>1, JobKept, WorkerSteps
    <3>4. asyncRuns'[f] = IF asyncCancelled[f] THEN 0 ELSE 1
      BY <1>0, <3>1, <3>2 DEF AsyncTypeOK
    <3> QED
      BY <3>2, <3>3, <3>4 DEF RunsMatch
  <2> QED
    BY <1>7, <2>1, <2>2
<1>9. CASE AsyncFinish(w)
  <2>1. asyncPc[w] = "run" /\ asyncPc'[w] = "complete" /\ asyncArg'[w] = asyncArg[w] /\ ~ AsyncComplete(w) /\ ~ AsyncStart(w)
    BY <1>0, <1>9, WorkerSteps
  <2>2. ASSUME NEW f \in asyncArg[w] PROVE RunsMatch(w, f)'
    BY <1>0, <2>1, <2>2, JobKept DEF RunsMatch
  <2> QED
    BY <1>7, <2>1, <2>2
<1>10. CASE AsyncComplete(w)
  <2>1. asyncPc[w] = "complete" /\ asyncPc'[w] = "notify" /\ asyncArg'[w] = asyncArg[w]
    BY <1>0, <1>10, WorkerSteps
  <2>2. ASSUME NEW f \in asyncArg[w] PROVE RunsMatch(w, f)'
    <3>1. asyncArg[w] = {f} /\ f \in AsyncFutures
      BY <1>0, <2>1, <2>2, JobKept
    <3>2. asyncDone' = [asyncDone EXCEPT ![f] = TRUE]
      BY <1>10, <3>1 DEF AsyncComplete
    <3>3. asyncDone'[f]
      BY <1>0, <3>1, <3>2 DEF AsyncTypeOK
    <3> QED
      BY <2>1, <3>3 DEF RunsMatch
  <2> QED
    BY <1>7, <2>1, <2>2
<1>11. CASE AsyncNotify(w)
  <2>1. asyncPc[w] = "notify" /\ asyncPc'[w] = "anycast" /\ asyncArg'[w] = asyncArg[w] /\ ~ AsyncComplete(w) /\ ~ AsyncStart(w)
    BY <1>0, <1>11, WorkerSteps
  <2>2. ASSUME NEW f \in asyncArg[w] PROVE RunsMatch(w, f)'
    BY <1>0, <2>1, <2>2, JobKept DEF RunsMatch
  <2> QED
    BY <1>7, <2>1, <2>2
<1>12. CASE AsyncAnyCast(w)
  <2>1. asyncPc'[w] = "lock" /\ asyncArg'[w] = {}
    BY <1>0, <1>12, WorkerSteps
  <2> QED
    BY <2>1
<1> QED
  BY <1>0, <1>1, <1>3, <1>4, <1>5, <1>6, <1>8, <1>9, <1>10, <1>11, <1>12, WorkerMoves DEF AsyncWorkerStep

LEMMA PlaceStep == Settled /\ [AsyncNext]_asyncVars => OnePlace'
<1> SUFFICES ASSUME Settled, [AsyncNext]_asyncVars PROVE OnePlace'
  OBVIOUS
<1>0. /\ AsyncTypeOK /\ AsyncStopped /\ CallsMatch /\ OnePlace /\ Distinct(asyncQueue)
      /\ asyncQueue \in Seq(AsyncFutures)
  BY DEF Settled, Hands, OnePlace, AsyncTypeOK
<1>1. ASSUME NEW t \in AsyncCallers, AsyncEnqueue(t), NEW w \in AsyncWorkers, AsyncTake(w) PROVE FALSE
  <2>1. PICK f \in AsyncFutures : asyncQueue' = Append(asyncQueue, f)
    BY <1>0, <1>1, Disjoint DEF AsyncEnqueue, AsyncTypeOK
  <2>2. Len(asyncQueue') = Len(asyncQueue) + 1 /\ Len(asyncQueue') = Len(asyncQueue) - 1 /\ Len(asyncQueue) \in Nat
    BY <1>0, <1>1, <2>1, QueuePut, QueueTake, LenProperties DEF AsyncTake
  <2> QED
    BY <2>2
(* What a future that is new, queued or in a dispatcher's hands can become. *)
<1>2. ASSUME NEW f \in AsyncFutures, Queued(f)'
      PROVE  /\ ~ \E w \in AsyncWorkers : AsyncTake(w) /\ f = Head(asyncQueue)
             /\ Queued(f) \/ \E t \in AsyncCallers : AsyncEnqueue(t) /\ asyncArg[t] = {f} /\ asyncCall[t] = "dispatch"
  <2>1. ASSUME NEW w \in AsyncWorkers, AsyncTake(w) PROVE asyncQueue' # asyncQueue
    <3>1. Len(asyncQueue') = Len(asyncQueue) - 1 /\ Len(asyncQueue) \in Nat
      BY <1>0, <2>1, QueueTake, LenProperties DEF AsyncTake
    <3> QED
      BY <3>1
  <2> QED
    BY <1>0, <1>1, <1>2, <2>1, QueueWriter
<1>3. ASSUME NEW f \in AsyncFutures, Held(f)'
      PROVE  Held(f) \/ (Queued(f) /\ \E w \in AsyncWorkers : AsyncTake(w) /\ f = Head(asyncQueue))
  <2>1. PICK w \in AsyncWorkers : f \in asyncArg'[w]
    BY <1>3 DEF Held
  <2>2. CASE f \in asyncArg[w]
    BY <2>2 DEF Held
  <2>3. CASE AsyncTake(w) /\ f = Head(asyncQueue)
    <3>1. Queued(f)
      BY <1>0, <2>3, QueueTake DEF AsyncTake, Queued
    <3> QED
      BY <2>3, <3>1
  <2> QED
    BY <1>0, <2>1, <2>2, <2>3, WorkerArg
<1>4. ASSUME NEW f \in AsyncFutures, NEW t \in AsyncCallers, f \in asyncArg'[t], asyncCall'[t] = "dispatch"
      PROVE  \/ asyncCall[t] = "dispatch" /\ f \in asyncArg[t] /\ ~ AsyncEnqueue(t)
             \/ AsyncDispatch(t, f) /\ asyncAlloc[f] = "none"
  BY <1>0, <1>4, DispatchArg DEF AsyncDispatch
<1>5. Distinct(asyncQueue)'
  BY <1>0, QueueWriter DEF OnePlace, Dispatching, Queued
<1>6. ASSUME NEW f \in AsyncFutures, Queued(f)' PROVE ~ Held(f)' /\ ~ Dispatching(f)'
  <2>1. ~ Held(f)'
    BY <1>0, <1>2, <1>3, <1>6 DEF OnePlace, Dispatching
  <2>2. ASSUME NEW t \in AsyncCallers, f \in asyncArg'[t], asyncCall'[t] = "dispatch" PROVE FALSE
    BY <1>0, <1>2, <1>4, <1>6, <2>2 DEF OnePlace, Dispatching
  <2> QED
    BY <2>1, <2>2 DEF Dispatching
<1>7. ASSUME NEW f \in AsyncFutures, Dispatching(f)' PROVE ~ Held(f)'
  <2>1. PICK t \in AsyncCallers : f \in asyncArg'[t] /\ asyncCall'[t] = "dispatch"
    BY <1>7 DEF Dispatching
  <2> QED
    BY <1>0, <1>3, <1>4, <2>1 DEF OnePlace, Dispatching
<1>8. ASSUME NEW f \in AsyncFutures, asyncAlloc'[f] = "none" PROVE ~ Queued(f)' /\ ~ Held(f)' /\ ~ Dispatching(f)'
  <2>1. asyncAlloc[f] = "none" /\ ~ \E t \in AsyncCallers : AsyncDispatch(t, f)
    <3>1. ASSUME NEW t \in AsyncCallers, NEW g \in AsyncFutures, AsyncDispatch(t, g)
          PROVE  asyncAlloc[f] = "none" /\ f # g
      BY <1>0, <1>8, <3>1 DEF AsyncDispatch, AsyncTypeOK
    <3>2. ASSUME NEW t \in AsyncCallers, AsyncGetReturn(t) PROVE asyncAlloc[f] = "none"
      BY <1>0, <1>8, <3>2 DEF AsyncGetReturn, AsyncTypeOK
    <3>3. asyncAlloc[f] = "none"
      BY <1>8, <3>1, <3>2, Writers
    <3>4. ASSUME NEW t \in AsyncCallers, AsyncDispatch(t, f) PROVE FALSE
      BY <3>1, <3>4
    <3> QED
      BY <3>3, <3>4
  <2>2. ~ Queued(f) /\ ~ Held(f) /\ ~ Dispatching(f)
    BY <1>0, <2>1 DEF OnePlace
  <2>3. ~ Dispatching(f)'
    BY <1>4, <2>1, <2>2 DEF Dispatching
  <2> QED
    BY <1>2, <1>3, <2>2, <2>3 DEF Dispatching
<1>9. ASSUME NEW v \in AsyncWorkers, NEW w \in AsyncWorkers, NEW f \in asyncArg'[v] \cap asyncArg'[w] PROVE v = w
  <2>1. /\ f \in asyncArg[v] \/ (AsyncTake(v) /\ f = Head(asyncQueue))
        /\ f \in asyncArg[w] \/ (AsyncTake(w) /\ f = Head(asyncQueue))
    BY <1>0, WorkerArg
  <2>2. AsyncTake(v) \/ AsyncTake(w) => Head(asyncQueue) \in AsyncFutures /\ Queued(Head(asyncQueue))
    BY <1>0, QueueTake DEF AsyncTake, Queued
  <2>3. f \in asyncArg[v] \/ f \in asyncArg[w] => Held(f)
    BY DEF Held
  <2>4. ASSUME AsyncTake(v), AsyncTake(w) PROVE v = w
    <3>1. asyncPc'[v] = "check" /\ asyncPc[w] = "lock" /\ asyncArg'[w] = {Head(asyncQueue)} /\ asyncPc'[w] = "check"
      BY <1>0, <2>4, WorkerSteps
    <3>2. w # v => Unmoved(w) \/ Woken(w)
      BY <1>0, <2>4, WorkOthers, Disjoint DEF AsyncWorkerStep
    <3> QED
      BY <3>1, <3>2 DEF Unmoved, Woken, AsyncResume
  <2> QED
    BY <1>0, <2>1, <2>2, <2>3, <2>4 DEF OnePlace
<1>10. ASSUME NEW t \in AsyncCallers, NEW u \in AsyncCallers, asyncCall'[t] = "dispatch", asyncCall'[u] = "dispatch",
              NEW f \in asyncArg'[t] \cap asyncArg'[u]
       PROVE  t = u
  <2>0. f \in AsyncFutures
    <3>1. AsyncTypeOK'
      BY <1>0, TypeStep
    <3> QED
      BY <3>1, Disjoint DEF AsyncTypeOK
  <2>1. /\ (asyncCall[t] = "dispatch" /\ f \in asyncArg[t]) \/ (AsyncDispatch(t, f) /\ asyncAlloc[f] = "none")
        /\ (asyncCall[u] = "dispatch" /\ f \in asyncArg[u]) \/ (AsyncDispatch(u, f) /\ asyncAlloc[f] = "none")
    BY <1>4, <1>10, <2>0
  <2>2. ASSUME AsyncDispatch(t, f), AsyncDispatch(u, f) PROVE t = u
    <3>1. asyncPc[u] = "app" /\ asyncPc'[u] = "d_lock"
      BY <1>0, <2>2, CallerSteps DEF Enters
    <3>2. u # t => asyncPc'[u] = asyncPc[u]
      BY <1>0, <2>2, Disjoint DEF AsyncDispatch, AsyncGo, AsyncTypeOK
    <3> QED
      BY <3>1, <3>2
  <2> QED
    BY <1>0, <2>0, <2>1, <2>2 DEF OnePlace, Dispatching
<1> QED
  BY <1>5, <1>6, <1>7, <1>8, <1>9, <1>10 DEF OnePlace

LEMMA UnstartedStep == Settled /\ [AsyncNext]_asyncVars => Unstarted'
<1> SUFFICES ASSUME Settled, [AsyncNext]_asyncVars, NEW f \in AsyncFutures,
                    asyncAlloc'[f] = "none" \/ Queued(f)' \/ Dispatching(f)'
             PROVE  asyncRuns'[f] = 0 /\ ~ asyncDone'[f]
  BY DEF Unstarted
<1>0. AsyncTypeOK /\ AsyncStopped /\ CallsMatch /\ OnePlace /\ Distinct(asyncQueue) /\ Unstarted
  BY DEF Settled, Hands, OnePlace
<1>1. asyncAlloc[f] = "none" \/ Queued(f) \/ Dispatching(f)
  <2>1. CASE asyncAlloc'[f] = "none"
    <3>1. ASSUME NEW t \in AsyncCallers, NEW g \in AsyncFutures, AsyncDispatch(t, g) PROVE asyncAlloc[f] = "none"
      BY <1>0, <2>1, <3>1 DEF AsyncDispatch, AsyncTypeOK
    <3>2. ASSUME NEW t \in AsyncCallers, AsyncGetReturn(t) PROVE asyncAlloc[f] = "none"
      BY <1>0, <2>1, <3>2 DEF AsyncGetReturn, AsyncTypeOK
    <3> QED
      BY <2>1, <3>1, <3>2, Writers
  <2>2. CASE Queued(f)'
    BY <1>0, <2>2, QueueWriter DEF Dispatching
  <2>3. ASSUME NEW t \in AsyncCallers, f \in asyncArg'[t], asyncCall'[t] = "dispatch"
        PROVE  asyncAlloc[f] = "none" \/ Dispatching(f)
    BY <1>0, <2>3, DispatchArg DEF AsyncDispatch, Dispatching
  <2> QED
    BY <2>1, <2>2, <2>3 DEF Dispatching
<1>2. ~ Held(f)
  BY <1>0, <1>1 DEF OnePlace
<1> QED
  BY <1>0, <1>1, <1>2, FreshKept DEF Unstarted

LEMMA CancelStep == Settled /\ [AsyncNext]_asyncVars => Cancelled' /\ CancellationHonoured'
<1> SUFFICES ASSUME Settled, [AsyncNext]_asyncVars PROVE Cancelled' /\ CancellationHonoured'
  OBVIOUS
<1>0. /\ AsyncTypeOK /\ AsyncStopped /\ JobsMatch /\ OnePlace /\ Unstarted /\ Cancelled /\ CancellationHonoured
      /\ AsyncTypeOK'
  BY TypeStep DEF Settled, Hands, OnePlace
<1>1. ASSUME NEW f \in asyncInTime' PROVE f \in AsyncFutures /\ asyncCancelled'[f] /\ asyncRuns'[f] = 0
  <2>1. f \in AsyncFutures
    BY <1>0 DEF AsyncTypeOK
  <2>2. asyncCancelled'[f] /\ asyncRuns[f] = 0 /\ (f \in asyncInTime => asyncCancelled[f]) /\ (f \notin asyncInTime => Queued(f))
    BY <1>0, <2>1, CancelWriter DEF Cancelled, CancellationHonoured, Unstarted
  <2>3. asyncRuns'[f] = asyncRuns[f]
    BY <1>0, <2>1, <2>2, RunsWriter, FreshKept DEF OnePlace
  <2> QED
    BY <2>1, <2>2, <2>3
<1>2. ASSUME NEW f \in AsyncFutures PROVE asyncRuns'[f] <= 1
  <2>1. asyncRuns[f] <= 1 /\ asyncRuns[f] \in Nat
    BY <1>0 DEF CancellationHonoured, AsyncTypeOK
  <2>2. ASSUME NEW w \in AsyncWorkers, AsyncStart(w), f \in asyncArg[w] PROVE asyncRuns[f] = 0
    BY <1>0, <2>2, WorkerSteps DEF JobsMatch, RunsMatch
  <2> QED
    BY <1>0, <2>1, <2>2, RunsWriter
<1>3. ASSUME NEW f \in AsyncFutures, asyncDone'[f], ~ asyncCancelled'[f] PROVE asyncRuns'[f] = 1
  <2>1. ~ asyncCancelled[f] /\ asyncRuns'[f] <= 1 /\ asyncRuns'[f] \in Nat /\ asyncRuns[f] \in Nat
    BY <1>0, <1>2, <1>3, CancelWriter DEF AsyncTypeOK
  <2>2. asyncRuns[f] = 1
    <3>1. CASE asyncDone[f]
      BY <1>0, <2>1, <3>1 DEF CancellationHonoured
    <3>2. CASE ~ asyncDone[f]
      <4>1. PICK w \in AsyncWorkers : AsyncComplete(w) /\ f \in asyncArg[w]
        BY <1>0, <1>3, <3>2, DoneWriter
      <4> QED
        BY <1>0, <2>1, <4>1, WorkerSteps DEF JobsMatch, RunsMatch
    <3> QED
      BY <3>1, <3>2
  <2> QED
    BY <1>0, <2>1, <2>2, RunsWriter
<1> QED
  BY <1>1, <1>2, <1>3 DEF Cancelled, CancellationHonoured

LEMMA SettledInit == AsyncInit => Settled
<1> SUFFICES ASSUME AsyncInit PROVE Settled
  OBVIOUS
<1>1. AsyncTypeOK
  BY TypeInit
<1>2. /\ \A t \in AsyncCallers : asyncPc[t] = "app" /\ asyncCall[t] = "none" /\ asyncArg[t] = {}
      /\ \A w \in AsyncWorkers : asyncPc[w] = "lock" /\ asyncArg[w] = {}
      /\ \A f \in AsyncFutures : asyncRuns[f] = 0 /\ ~ asyncDone[f]
      /\ asyncUp /\ asyncInTime = {}
  BY Disjoint DEF AsyncInit
<1>3. Distinct(asyncQueue) /\ \A f \in AsyncFutures : ~ Queued(f) /\ ~ Held(f) /\ ~ Dispatching(f)
  <2>1. asyncQueue = <<>> /\ DOMAIN asyncQueue = {}
    BY EmptySeq, LenProperties DEF AsyncInit
  <2> QED
    BY <1>2, <2>1 DEF Distinct, Queued, Jobs, Held, Dispatching
<1> QED
  BY <1>1, <1>2, <1>3 DEF Settled, AsyncStopped, Hands, CallsMatch, JobsMatch, OnePlace, Unstarted, Cancelled,
                          CancellationHonoured, IdlePlaces

LEMMA SettledStep == Settled /\ [AsyncNext]_asyncVars => Settled'
<1> SUFFICES ASSUME Settled, [AsyncNext]_asyncVars PROVE Settled'
  OBVIOUS
<1>1. AsyncTypeOK /\ AsyncStopped /\ CallsMatch /\ OnePlace /\ Distinct(asyncQueue)
  BY DEF Settled, Hands, OnePlace
<1>2. AsyncTypeOK' /\ AsyncStopped' /\ CallsMatch'
  BY <1>1, TypeStep, StoppedStep, CallsStep
<1>3. JobsMatch' /\ OnePlace' /\ Unstarted' /\ Cancelled' /\ CancellationHonoured'
  BY JobsStep, PlaceStep, UnstartedStep, CancelStep
<1> QED
  BY <1>2, <1>3 DEF Settled, Hands

-------------------------------------------------------------------------------
(* Who sleeps, who wakes, and a shutdown. *)

(* Who stands between a test and the wait it decides on has the mutex under which *)
(* what was tested is changed, so the test still holds; and a worker that         *)
(* broadcasts has its future's mutex.                                             *)
WorkersParked == \A w \in AsyncWorkers : asyncPc[w] = "park" => asyncQMutex = w /\ asyncQueue = <<>>
WaitersParked == \A t \in AsyncCallers : asyncPc[t] = "a_park" => asyncAnyMutex = t
GettersParked == \A t \in AsyncCallers : asyncPc[t] = "g_park" =>
                   \A f \in asyncArg[t] : asyncFMutex[f] = t /\ ~ asyncDone[f]
NotifiersOwn  == \A w \in AsyncWorkers : asyncPc[w] = "notify" => \A f \in asyncArg[w] : asyncFMutex[f] = w
TestsHold     == WorkersParked /\ WaitersParked /\ GettersParked /\ NotifiersOwn

(* While the flag is set one caller is in the shutdown; a worker that tested the  *)
(* flag before is asleep or about to be, and the broadcast is still to come; and  *)
(* a runtime that is not shutting down keeps its workers.                         *)
ShutdownOwned == /\ \A t \in AsyncCallers : asyncPc[t] \in {"s_cast", "s_join"} => asyncInitMutex = t /\ asyncDown
                 /\ asyncDown => asyncInitMutex # Nobody
CastToCome    == asyncDown /\ (\E w \in AsyncWorkers : asyncPc[w] \in {"park", "asleep"}) =>
                   \E t \in AsyncCallers : asyncPc[t] = "s_cast"
WorkersUp     == asyncUp /\ ~ asyncDown => \A w \in AsyncWorkers : asyncPc[w] # "down"
ShutdownHeld  == ShutdownOwned /\ CastToCome /\ WorkersUp

GettersWoken    == \A t \in AsyncCallers : asyncPc[t] = "g_asleep" =>
                     \A f \in asyncArg[t] : asyncDone[f] =>
                       \E w \in AsyncWorkers : asyncPc[w] = "notify" /\ f \in asyncArg[w]
AnyWaitersWoken == \A t \in AsyncCallers : asyncPc[t] \in {"a_park", "a_asleep"} =>
                     \A f \in asyncArg[t] : asyncDone[f] =>
                       \E w \in AsyncWorkers : asyncPc[w] \in {"notify", "anycast"} /\ f \in asyncArg[w]
WorkersAwake    == asyncQueue # <<>> => \E w \in AsyncWorkers : asyncPc[w] # "asleep"
DispatchersWoken == AsyncAsleep("d_asleep") # {} =>
                      Len(asyncQueue) + Cardinality(AsyncAsleep("d_lock")) >= AsyncCap
Sleepers == GettersWoken /\ AnyWaitersWoken /\ WorkersAwake /\ DispatchersWoken

(* A future that is not done is queued, held or in its dispatcher's hands, and     *)
(* those a shutdown waits for have workers as long as they are queued.             *)
Undone == \A f \in AsyncFutures : asyncAlloc[f] # "none" /\ ~ asyncDone[f] => Queued(f) \/ Held(f) \/ Dispatching(f)
Drained ==
  \A t \in AsyncCallers : asyncPc[t] \in {"s_cast", "s_join"} =>
    \A f \in asyncArg[t] :
      /\ asyncAlloc[f] # "none" /\ ~ Dispatching(f)
      /\ asyncDone[f] \/ Held(f) \/ (Queued(f) /\ \E w \in AsyncWorkers : asyncPc[w] # "down")

Wakeups == TestsHold /\ ShutdownHeld /\ Sleepers /\ Undone /\ Drained

(* What a thread sleeps on, or is about to, it does not change. *)
LEMMA SleepersArg ==
  ASSUME AsyncTypeOK, [AsyncNext]_asyncVars, NEW t \in AsyncCallers,
         asyncPc'[t] \in {"g_park", "g_asleep", "a_park", "a_asleep", "s_join"}
  PROVE  asyncArg'[t] = asyncArg[t]
<1>1. CASE asyncPc'[t] = asyncPc[t]
  <2>1. Unmoved(t) \/ Woken(t) \/ AsyncCallStep(t)
    BY CallerMoves
  <2>2. ASSUME AsyncCallStep(t) PROVE Unmoved(t)
    BY <1>1, <2>2, CallerSteps DEF AsyncCallStep, Enters, Returns
  <2> QED
    BY <2>1, <2>2 DEF Unmoved, Woken
<1>2. CASE asyncPc'[t] # asyncPc[t]
  <2>1. AsyncGetLock(t) \/ AsyncGetWait(t) \/ AsyncAnyLock(t) \/ AsyncAnyWait(t) \/ AsyncShutdownCast(t)
    BY <1>2, CallerArrivals
  <2> QED
    BY <1>2, <2>1, CallerSteps DEF Keeps, Returns
<1> QED
  BY <1>1, <1>2

LEMMA WorkersParkedStep == Settled /\ WorkersParked /\ [AsyncNext]_asyncVars => WorkersParked'
<1> SUFFICES ASSUME Settled, WorkersParked, [AsyncNext]_asyncVars, NEW w \in AsyncWorkers, asyncPc'[w] = "park"
             PROVE  asyncQMutex' = w /\ asyncQueue' = <<>>
  BY DEF WorkersParked
<1>0. AsyncTypeOK /\ AsyncStopped /\ w # Nobody
  BY Disjoint DEF Settled
<1>1. CASE asyncPc[w] # "park"
  <2>1. AsyncSeesEmpty(w)
    BY <1>0, <1>1, WorkerArrivals
  <2> QED
    BY <2>1 DEF AsyncSeesEmpty
<1>2. CASE asyncPc[w] = "park"
  <2>1. asyncQMutex = w /\ asyncQueue = <<>>
    BY <1>2 DEF WorkersParked
  <2>2. UNCHANGED asyncQueue
    BY <1>0, <2>1, Writers DEF AsyncEnqueue, AsyncTake
  <2>3. ASSUME NEW v \in AsyncWorkers, AsyncPark(v) PROVE FALSE
    <3>1. v = w
      BY <2>1, <2>3 DEF AsyncPark, WorkersParked
    <3> QED
      BY <1>0, <2>3, <3>1, WorkerSteps
  <2> QED
    BY <1>0, <2>1, <2>2, <2>3, Writers DEF AsyncSeesEmpty
<1> QED
  BY <1>1, <1>2

LEMMA WaitersParkedStep == Settled /\ WaitersParked /\ [AsyncNext]_asyncVars => WaitersParked'
<1> SUFFICES ASSUME Settled, WaitersParked, [AsyncNext]_asyncVars, NEW t \in AsyncCallers, asyncPc'[t] = "a_park"
             PROVE  asyncAnyMutex' = t
  BY DEF WaitersParked
<1>0. AsyncTypeOK /\ t # Nobody /\ t \in AsyncThreads
  BY Disjoint DEF Settled
<1>1. CASE asyncPc[t] # "a_park"
  <2>1. AsyncAnyLock(t)
    BY <1>0, <1>1, CallerArrivals
  <2> QED
    BY <1>0, <2>1 DEF AsyncAnyLock, AsyncGo, AsyncTypeOK
<1>2. CASE asyncPc[t] = "a_park"
  <2>1. asyncAnyMutex = t
    BY <1>2 DEF WaitersParked
  <2>2. ASSUME NEW u \in AsyncCallers, AsyncAnyWait(u) PROVE FALSE
    <3>1. u = t
      BY <2>1, <2>2 DEF AsyncAnyWait, WaitersParked
    <3> QED
      BY <1>0, <2>2, <3>1, CallerSteps
  <2> QED
    BY <1>0, <2>1, <2>2, Writers DEF AsyncAnyLock
<1> QED
  BY <1>1, <1>2

LEMMA GettersParkedStep == Settled /\ TestsHold /\ [AsyncNext]_asyncVars => GettersParked'
<1> SUFFICES ASSUME Settled, TestsHold, [AsyncNext]_asyncVars, NEW t \in AsyncCallers, asyncPc'[t] = "g_park",
                    NEW f \in asyncArg'[t]
             PROVE  asyncFMutex'[f] = t /\ ~ asyncDone'[f]
  BY DEF GettersParked
<1>0. /\ AsyncTypeOK /\ CallsMatch /\ JobsMatch /\ t # Nobody /\ t \in AsyncThreads
      /\ asyncArg'[t] = asyncArg[t] /\ f \in AsyncFutures
  BY SleepersArg, Disjoint DEF Settled, Hands, AsyncTypeOK
<1>1. CASE asyncPc[t] # "g_park"
  <2>1. AsyncGetLock(t)
    BY <1>0, <1>1, CallerArrivals
  <2>2. asyncArg[t] = {f}
    <3>1. asyncPc[t] = "g_lock"
      BY <2>1 DEF AsyncGetLock
    <3> QED
      BY <1>0, <3>1 DEF CallsMatch
  <2>3. ~ asyncDone[f] /\ asyncFMutex' = [asyncFMutex EXCEPT ![f] = t] /\ asyncDone' = asyncDone
    BY <1>0, <2>1, <2>2 DEF AsyncGetLock, AsyncGo, AsyncTypeOK
  <2> QED
    BY <1>0, <2>3 DEF AsyncTypeOK
<1>2. CASE asyncPc[t] = "g_park"
  <2>1. asyncFMutex[f] = t /\ ~ asyncDone[f]
    BY <1>0, <1>2 DEF TestsHold, GettersParked
  <2>2. ASSUME NEW w \in AsyncWorkers, AsyncComplete(w) PROVE asyncFMutex'[f] = t /\ ~ asyncDone'[f]
    <3>1. PICK g \in asyncArg[w] : /\ asyncFMutex[g] = Nobody
                                   /\ asyncFMutex' = [asyncFMutex EXCEPT ![g] = w]
                                   /\ asyncDone' = [asyncDone EXCEPT ![g] = TRUE]
      BY <2>2 DEF AsyncComplete
    <3> QED
      BY <1>0, <2>1, <3>1 DEF AsyncTypeOK
  <2>3. ASSUME NEW w \in AsyncWorkers, AsyncNotify(w) PROVE asyncFMutex'[f] = t
    <3>1. PICK g \in asyncArg[w] : asyncFMutex' = [asyncFMutex EXCEPT ![g] = Nobody]
      BY <2>3 DEF AsyncNotify
    <3>2. asyncFMutex[g] = w /\ w # t
      BY <2>3, Disjoint DEF AsyncNotify, TestsHold, NotifiersOwn
    <3> QED
      BY <1>0, <2>1, <3>1, <3>2 DEF AsyncTypeOK
  <2>4. ASSUME NEW u \in AsyncCallers, AsyncGetLock(u) PROVE asyncFMutex'[f] = t
    BY <1>0, <2>1, <2>4 DEF AsyncGetLock, AsyncTypeOK
  <2>5. ASSUME NEW u \in AsyncCallers, AsyncGetWait(u) PROVE asyncFMutex'[f] = t
    <3>1. u # t
      BY <1>0, <2>5, CallerSteps
    <3>2. f \notin asyncArg[u]
      BY <2>1, <2>5, <3>1 DEF AsyncGetWait, TestsHold, GettersParked
    <3> QED
      BY <1>0, <2>1, <2>5, <3>2 DEF AsyncGetWait
  <2>6. ~ asyncDone'[f]
    BY <1>0, <2>1, <2>2, DoneWriter
  <2> QED
    BY <2>1, <2>2, <2>3, <2>4, <2>5, <2>6, Writers
<1> QED
  BY <1>1, <1>2

LEMMA NotifiersStep == Settled /\ TestsHold /\ [AsyncNext]_asyncVars => NotifiersOwn'
<1> SUFFICES ASSUME Settled, TestsHold, [AsyncNext]_asyncVars, NEW w \in AsyncWorkers, asyncPc'[w] = "notify",
                    NEW f \in asyncArg'[w]
             PROVE  asyncFMutex'[f] = w
  BY DEF NotifiersOwn
<1>0. /\ AsyncTypeOK /\ AsyncStopped /\ JobsMatch /\ OnePlace /\ w # Nobody /\ w \in AsyncThreads
      /\ AsyncTypeOK'
  BY TypeStep, Disjoint DEF Settled, Hands, OnePlace
<1>00. f \in AsyncFutures
  BY <1>0 DEF AsyncTypeOK
<1>1. CASE asyncPc[w] # "notify"
  <2>1. AsyncComplete(w)
    BY <1>0, <1>1, WorkerArrivals
  <2>2. f \in asyncArg[w] /\ asyncPc[w] = "complete"
    BY <1>0, <2>1, WorkerSteps
  <2>3. asyncArg[w] = {f}
    BY <1>0, <2>2 DEF JobsMatch, IdlePlaces
  <2>4. asyncFMutex' = [asyncFMutex EXCEPT ![f] = w]
    BY <2>1, <2>3 DEF AsyncComplete
  <2> QED
    BY <1>0, <1>00, <2>4 DEF AsyncTypeOK
<1>2. CASE asyncPc[w] = "notify"
  <2>1. f \in asyncArg[w]
    BY <1>0, <1>2, WorkerArg, WorkerSteps
  <2>2. asyncFMutex[f] = w
    BY <1>2, <2>1 DEF TestsHold, NotifiersOwn
  <2>3. ASSUME NEW v \in AsyncWorkers, AsyncComplete(v) PROVE asyncFMutex'[f] = w
    BY <1>0, <1>00, <2>2, <2>3 DEF AsyncComplete, AsyncTypeOK
  <2>4. ASSUME NEW v \in AsyncWorkers, AsyncNotify(v) PROVE asyncFMutex'[f] = w
    <3>1. v # w
      BY <1>0, <2>4, WorkerSteps
    <3>2. f \notin asyncArg[v]
      BY <1>0, <2>1, <3>1 DEF OnePlace
    <3> QED
      BY <1>0, <1>00, <2>2, <2>4, <3>2 DEF AsyncNotify, AsyncTypeOK
  <2>5. ASSUME NEW u \in AsyncCallers, AsyncGetLock(u) PROVE asyncFMutex'[f] = w
    BY <1>0, <1>00, <2>2, <2>5 DEF AsyncGetLock, AsyncTypeOK
  <2>6. ASSUME NEW u \in AsyncCallers, AsyncGetWait(u) PROVE asyncFMutex'[f] = w
    <3>1. f \notin asyncArg[u]
      BY <2>2, <2>6, Disjoint DEF AsyncGetWait, TestsHold, GettersParked
    <3> QED
      BY <1>0, <1>00, <2>2, <2>6, <3>1 DEF AsyncGetWait
  <2> QED
    BY <2>2, <2>3, <2>4, <2>5, <2>6, Writers
<1> QED
  BY <1>1, <1>2

LEMMA OwnedStep == Settled /\ ShutdownOwned /\ [AsyncNext]_asyncVars => ShutdownOwned'
<1> SUFFICES ASSUME Settled, ShutdownOwned, [AsyncNext]_asyncVars PROVE ShutdownOwned'
  OBVIOUS
<1>0. AsyncTypeOK
  BY DEF Settled
<1>1. ASSUME NEW t \in AsyncCallers, asyncPc'[t] \in {"s_cast", "s_join"} PROVE asyncInitMutex' = t /\ asyncDown'
  <2>1. CASE AsyncShutdown(t)
    BY <2>1 DEF AsyncShutdown
  <2>2. CASE ~ AsyncShutdown(t)
    <3>1. asyncPc[t] \in {"s_cast", "s_join"}
      BY <1>0, <1>1, <2>2, CallerArrivals, CallerSteps
    <3>2. asyncInitMutex = t /\ asyncDown /\ t # Nobody
      BY <3>1, Disjoint DEF ShutdownOwned
    <3>3. ASSUME NEW u \in AsyncCallers, AsyncShutdownJoin(u) PROVE FALSE
      <4>1. u = t
        BY <3>2, <3>3 DEF AsyncShutdownJoin, ShutdownOwned
      <4> QED
        BY <1>0, <1>1, <3>3, <4>1, CallerSteps DEF Returns
    <3>4. ASSUME NEW u \in AsyncCallers, AsyncShutdown(u) PROVE FALSE
      BY <3>2, <3>4 DEF AsyncShutdown
    <3> QED
      BY <3>2, <3>3, <3>4, Writers
  <2> QED
    BY <2>1, <2>2
<1>2. asyncDown' => asyncInitMutex' # Nobody
  <2>1. ASSUME NEW t \in AsyncCallers, AsyncShutdownJoin(t) PROVE ~ asyncDown'
    BY <2>1 DEF AsyncShutdownJoin
  <2>2. ASSUME NEW t \in AsyncCallers, AsyncShutdown(t) PROVE asyncInitMutex' # Nobody
    BY <2>2, Disjoint DEF AsyncShutdown
  <2> QED
    BY <2>1, <2>2, Writers DEF ShutdownOwned
<1> QED
  BY <1>1, <1>2 DEF ShutdownOwned

LEMMA CastStep == Settled /\ WorkersParked /\ ShutdownHeld /\ [AsyncNext]_asyncVars => CastToCome'
<1> SUFFICES ASSUME Settled, WorkersParked, ShutdownHeld, [AsyncNext]_asyncVars,
                    asyncDown', NEW w \in AsyncWorkers, asyncPc'[w] \in {"park", "asleep"}
             PROVE  \E t \in AsyncCallers : asyncPc'[t] = "s_cast"
  BY DEF CastToCome
<1>0. AsyncTypeOK /\ AsyncStopped /\ w # Nobody /\ w \in AsyncThreads /\ w \notin AsyncCallers
  BY Disjoint DEF Settled
<1>1. CASE \E t \in AsyncCallers : AsyncShutdown(t)
  BY <1>0, <1>1, CallerSteps
<1>2. CASE ~ \E t \in AsyncCallers : AsyncShutdown(t)
  <2>1. asyncDown
    BY <1>2, Writers DEF AsyncShutdownJoin
  <2>2. asyncPc[w] \in {"park", "asleep"}
    BY <1>0, <2>1, WorkerArrivals, WorkerSteps DEF AsyncSeesEmpty
  <2>3. PICK t \in AsyncCallers : asyncPc[t] = "s_cast"
    BY <2>1, <2>2 DEF ShutdownHeld, CastToCome
  <2>4. ASSUME AsyncShutdownCast(t) PROVE FALSE
    <3>1. asyncPc[w] = "asleep"
      BY <1>0, <2>2, <2>4 DEF AsyncShutdownCast, WorkersParked
    <3>2. asyncPc'[w] = "lock"
      BY <1>0, <2>3, <2>4, <3>1 DEF AsyncShutdownCast, AsyncGoWaking, AsyncAsleep, AsyncResume
    <3> QED
      BY <3>2
  <2> QED
    BY <1>0, <2>3, <2>4, CallerArrivals
<1> QED
  BY <1>1, <1>2

LEMMA UpStep == Settled /\ ShutdownHeld /\ [AsyncNext]_asyncVars => WorkersUp'
<1> SUFFICES ASSUME Settled, ShutdownHeld, [AsyncNext]_asyncVars, asyncUp', ~ asyncDown', NEW w \in AsyncWorkers
             PROVE  asyncPc'[w] # "down"
  BY DEF WorkersUp
<1>0. AsyncTypeOK /\ AsyncStopped /\ w \in AsyncThreads
  BY Disjoint DEF Settled
<1>1. ASSUME NEW t \in AsyncCallers, AsyncRuntimeInit(t) PROVE asyncPc'[w] = "lock"
  BY <1>0, <1>1 DEF AsyncRuntimeInit
<1>2. CASE ~ \E t \in AsyncCallers : AsyncRuntimeInit(t)
  <2>1. ~ \E t \in AsyncCallers : AsyncShutdownJoin(t) \/ AsyncShutdown(t)
    BY DEF AsyncShutdownJoin, AsyncShutdown
  <2>2. asyncUp /\ ~ asyncDown
    BY <1>0, <1>2, <2>1, Writers DEF AsyncTypeOK
  <2>3. asyncPc[w] # "down"
    BY <2>2 DEF ShutdownHeld, WorkersUp
  <2> QED
    BY <1>0, <2>2, <2>3, WorkerArrivals DEF AsyncExit
<1> QED
  BY <1>1, <1>2

-------------------------------------------------------------------------------
(* No sleeper is forgotten. *)

LEMMA GettersStep == Settled /\ TestsHold /\ GettersWoken /\ [AsyncNext]_asyncVars => GettersWoken'
<1> SUFFICES ASSUME Settled, TestsHold, GettersWoken, [AsyncNext]_asyncVars,
                    NEW t \in AsyncCallers, asyncPc'[t] = "g_asleep", NEW f \in asyncArg'[t], asyncDone'[f]
             PROVE  \E w \in AsyncWorkers : asyncPc'[w] = "notify" /\ f \in asyncArg'[w]
  BY DEF GettersWoken
<1>0. /\ AsyncTypeOK /\ AsyncStopped /\ JobsMatch /\ asyncArg'[t] = asyncArg[t] /\ f \in AsyncFutures
      /\ t \in AsyncThreads /\ t \notin AsyncWorkers
  BY SleepersArg, Disjoint DEF Settled, Hands, AsyncTypeOK
<1>1. CASE asyncDone[f]
  <2>1. asyncPc[t] = "g_asleep"
    <3>1. ASSUME AsyncGetWait(t) PROVE FALSE
      BY <1>0, <1>1, <3>1 DEF AsyncGetWait, TestsHold, GettersParked
    <3> QED
      BY <1>0, <3>1, CallerArrivals
  <2>2. PICK w \in AsyncWorkers : asyncPc[w] = "notify" /\ f \in asyncArg[w]
    BY <1>0, <1>1, <2>1 DEF GettersWoken
  <2>3. ASSUME AsyncNotify(w) PROVE FALSE
    <3>1. PICK g \in asyncArg[w] : AsyncGoWaking(w, "anycast", {u \in AsyncAsleep("g_asleep") : g \in asyncArg[u]})
      BY <2>3 DEF AsyncNotify
    <3>2. g = f
      BY <1>0, <2>2 DEF JobsMatch, IdlePlaces
    <3>3. asyncPc'[t] = "g_lock"
      BY <1>0, <2>1, <3>1, <3>2 DEF AsyncGoWaking, AsyncAsleep, AsyncResume
    <3> QED
      BY <3>3
  <2>4. asyncPc'[w] = "notify"
    BY <1>0, <2>2, <2>3, WorkerArrivals
  <2>5. asyncArg'[w] = asyncArg[w]
    BY <1>0, <2>2, <2>4, WorkerMoves, WorkerSteps DEF Unmoved, Woken, AsyncWorkerStep
  <2> QED
    BY <2>2, <2>4, <2>5
<1>2. CASE ~ asyncDone[f]
  <2>1. PICK w \in AsyncWorkers : AsyncComplete(w) /\ f \in asyncArg[w]
    BY <1>0, <1>2, DoneWriter
  <2> QED
    BY <1>0, <2>1, WorkerSteps
<1> QED
  BY <1>1, <1>2

LEMMA AnyWaitersStep == Settled /\ TestsHold /\ AnyWaitersWoken /\ [AsyncNext]_asyncVars => AnyWaitersWoken'
<1> SUFFICES ASSUME Settled, TestsHold, AnyWaitersWoken, [AsyncNext]_asyncVars,
                    NEW t \in AsyncCallers, asyncPc'[t] \in {"a_park", "a_asleep"}, NEW f \in asyncArg'[t], asyncDone'[f]
             PROVE  \E w \in AsyncWorkers : asyncPc'[w] \in {"notify", "anycast"} /\ f \in asyncArg'[w]
  BY DEF AnyWaitersWoken
<1>0. /\ AsyncTypeOK /\ AsyncStopped /\ JobsMatch /\ asyncArg'[t] = asyncArg[t] /\ f \in AsyncFutures
      /\ t \in AsyncThreads /\ t \notin AsyncWorkers /\ t # Nobody
  BY SleepersArg, Disjoint DEF Settled, Hands, AsyncTypeOK
<1>1. CASE asyncPc[t] \notin {"a_park", "a_asleep"} /\ asyncDone[f]
  <2>1. AsyncAnyLock(t) /\ asyncPc'[t] = "a_park"
    BY <1>0, <1>1, CallerArrivals, CallerSteps
  <2>2. ~ AsyncSomeDone(t)
    BY <1>0, <2>1 DEF AsyncAnyLock, AsyncGo, AsyncTypeOK
  <2> QED
    BY <1>0, <1>1, <2>2 DEF AsyncSomeDone
<1>2. CASE asyncPc[t] \in {"a_park", "a_asleep"} /\ asyncDone[f]
  <2>1. PICK w \in AsyncWorkers : asyncPc[w] \in {"notify", "anycast"} /\ f \in asyncArg[w]
    BY <1>0, <1>2 DEF AnyWaitersWoken
  <2>2. ASSUME AsyncAnyCast(w) PROVE FALSE
    <3>1. asyncPc[t] = "a_asleep"
      BY <1>0, <1>2, <2>2 DEF AsyncAnyCast, TestsHold, WaitersParked
    <3>2. asyncPc'[t] = "a_wake"
      BY <1>0, <2>1, <2>2, <3>1 DEF AsyncAnyCast, AsyncGoWaking, AsyncAsleep, AsyncResume
    <3> QED
      BY <3>2
  <2>3. asyncPc'[w] \in {"notify", "anycast"}
    BY <1>0, <2>1, <2>2, WorkerArrivals, WorkerSteps
  <2>4. asyncArg'[w] = asyncArg[w]
    BY <1>0, <2>1, <2>2, WorkerMoves, WorkerSteps DEF Unmoved, Woken, AsyncWorkerStep
  <2> QED
    BY <2>1, <2>3, <2>4
<1>3. CASE ~ asyncDone[f]
  <2>1. PICK w \in AsyncWorkers : AsyncComplete(w) /\ f \in asyncArg[w]
    BY <1>0, <1>3, DoneWriter
  <2> QED
    BY <1>0, <2>1, WorkerSteps
<1> QED
  BY <1>1, <1>2, <1>3

LEMMA AwakeStep == Settled /\ TestsHold /\ WorkersAwake /\ [AsyncNext]_asyncVars => WorkersAwake'
<1> SUFFICES ASSUME Settled, TestsHold, WorkersAwake, [AsyncNext]_asyncVars, asyncQueue' # <<>>
             PROVE  \E w \in AsyncWorkers : asyncPc'[w] # "asleep"
  BY DEF WorkersAwake
<1>0. /\ AsyncTypeOK /\ AsyncStopped /\ AsyncThreads = AsyncWorkers \cup AsyncCallers
      /\ \A t \in AsyncCallers : asyncPc[t] # "asleep"
  BY Disjoint DEF Settled, AsyncTypeOK, CallerPlaces
<1>1. ASSUME NEW t \in AsyncCallers, AsyncEnqueue(t) PROVE \E w \in AsyncWorkers : asyncPc'[w] # "asleep"
  <2>1. PICK W \in AsyncSignalled("asleep") : AsyncGoWaking(t, "app", W)
    BY <1>1 DEF AsyncEnqueue
  <2>2. CASE AsyncAsleep("asleep") = {}
    <3>1. PICK w \in AsyncWorkers : TRUE
      BY AsyncAssumption
    <3>2. asyncPc'[w] # "asleep"
      BY <1>0, <2>1, <2>2 DEF AsyncGoWaking, AsyncSignalled, AsyncAsleep
    <3> QED
      BY <3>2
  <2>3. CASE AsyncAsleep("asleep") # {}
    <3>1. PICK w \in AsyncAsleep("asleep") : W = {w}
      BY <2>1, <2>3 DEF AsyncSignalled
    <3>2. w \in AsyncWorkers /\ asyncPc'[w] = "lock"
      <4>1. w \in AsyncThreads /\ asyncPc[w] = "asleep" /\ w # t
        BY <1>0, <3>1 DEF AsyncAsleep
      <4> QED
        BY <1>0, <2>1, <3>1, <4>1 DEF AsyncGoWaking, AsyncResume
    <3> QED
      BY <3>2
  <2> QED
    BY <2>2, <2>3
<1>2. CASE ~ \E t \in AsyncCallers : AsyncEnqueue(t)
  <2>1. asyncQueue # <<>>
    BY <1>2, Writers DEF AsyncTake
  <2>2. PICK w \in AsyncWorkers : asyncPc[w] # "asleep"
    BY <2>1 DEF WorkersAwake
  <2>3. ~ AsyncPark(w)
    BY <2>1 DEF AsyncPark, TestsHold, WorkersParked
  <2> QED
    BY <1>0, <2>2, <2>3, WorkerArrivals
<1> QED
  BY <1>1, <1>2

(* The count of the dispatchers awake, as one joins or leaves them. *)
LEMMA AwakeCount ==
  /\ \A S \in SUBSET AsyncThreads : Cardinality(S) \in Nat
  /\ \A S \in SUBSET AsyncThreads : \A t \in AsyncThreads \ S : Cardinality(S \cup {t}) = Cardinality(S) + 1
  /\ \A S \in SUBSET AsyncThreads : \A t \in S : Cardinality(S \ {t}) = Cardinality(S) - 1
  /\ \A S, T \in SUBSET AsyncThreads : S \subseteq T => Cardinality(S) <= Cardinality(T)
<1>1. IsFiniteSet(AsyncThreads)
  BY AsyncAssumption, FS_Union DEF AsyncThreads
<1>2. \A S \in SUBSET AsyncThreads : IsFiniteSet(S)
  BY <1>1, FS_Subset
<1> QED
  BY <1>1, <1>2, FS_CardinalityType, FS_AddElement, FS_RemoveElement, FS_Subset

LEMMA DispatchersStep == Settled /\ DispatchersWoken /\ [AsyncNext]_asyncVars => DispatchersWoken'
<1> SUFFICES ASSUME Settled, DispatchersWoken, [AsyncNext]_asyncVars PROVE DispatchersWoken'
  OBVIOUS
<1> DEFINE D == AsyncAsleep("d_lock")
           S == AsyncAsleep("d_asleep")
<1>0. /\ AsyncTypeOK /\ AsyncStopped /\ AsyncThreads = AsyncWorkers \cup AsyncCallers
      /\ asyncQueue \in Seq(AsyncFutures) /\ Distinct(asyncQueue)
      /\ \A w \in AsyncWorkers : asyncPc[w] \notin {"d_lock", "d_asleep"} /\ asyncPc'[w] \notin {"d_lock", "d_asleep"}
  <2>1. AsyncTypeOK'
    BY TypeStep DEF Settled, Hands, OnePlace
  <2> QED
    BY <2>1, Disjoint DEF Settled, Hands, OnePlace, AsyncTypeOK, WorkerPlaces, IdlePlaces
<1>1. /\ D \in SUBSET AsyncThreads /\ S \in SUBSET AsyncThreads /\ D' \in SUBSET AsyncThreads
      /\ Len(asyncQueue) \in Nat /\ AsyncCap \in Nat
      /\ Cardinality(D) \in Nat /\ Cardinality(D') \in Nat
      /\ S # {} => Len(asyncQueue) + Cardinality(D) >= AsyncCap
  BY <1>0, AsyncAssumption, AwakeCount, LenProperties DEF AsyncAsleep, DispatchersWoken
<1>2. SUFFICES ASSUME S' # {} PROVE Len(asyncQueue') + Cardinality(D') >= AsyncCap
  BY DEF DispatchersWoken
<1>3. CASE \E t \in AsyncCallers : AsyncDispatchWait(t)
  <2>1. Len(asyncQueue') = AsyncCap
    BY <1>3 DEF AsyncDispatchWait, asyncShared
  <2> QED
    BY <1>1, <2>1
<1>4. ASSUME NEW t \in AsyncCallers, AsyncEnqueue(t) PROVE Len(asyncQueue') + Cardinality(D') >= AsyncCap
  <2>1. PICK W \in SUBSET AsyncAsleep("asleep") : AsyncGoWaking(t, "app", W)
    BY <1>4, SignalledSleep DEF AsyncEnqueue
  <2>2. /\ asyncPc[t] = "d_lock" /\ t \in AsyncThreads /\ asyncPc'[t] = "app"
        /\ \A u \in AsyncThreads \ {t} : asyncPc'[u] = IF u \in W THEN "lock" ELSE asyncPc[u]
        /\ \A u \in W : asyncPc[u] = "asleep"
    BY <1>0, <1>4, <2>1 DEF AsyncEnqueue, AsyncGoWaking, AsyncAsleep, AsyncResume
  <2>3. t \in D /\ D' = D \ {t} /\ S' = S
    BY <2>2 DEF AsyncAsleep
  <2>4. Cardinality(D') = Cardinality(D) - 1
    BY <1>1, <2>3, AwakeCount
  <2>5. Len(asyncQueue') = Len(asyncQueue) + 1
    <3>1. PICK f \in asyncArg[t] : asyncQueue' = Append(asyncQueue, f)
      BY <1>4 DEF AsyncEnqueue
    <3> QED
      BY <1>0, <3>1, QueuePut, Disjoint DEF AsyncTypeOK
  <2> QED
    BY <1>1, <1>2, <2>3, <2>4, <2>5
<1>5. ASSUME NEW w \in AsyncWorkers, AsyncTake(w) PROVE Len(asyncQueue') + Cardinality(D') >= AsyncCap
  <2>1. PICK W \in AsyncSignalled("d_asleep") : AsyncGoWaking(w, "check", W)
    BY <1>5 DEF AsyncTake
  <2>2. w \in AsyncThreads /\ asyncPc[w] = "lock" /\ Len(asyncQueue') = Len(asyncQueue) - 1
    BY <1>0, <1>5, QueueTake DEF AsyncTake
  <2>3. \A u \in AsyncThreads : asyncPc'[u] = IF u = w THEN "check" ELSE IF u \in W THEN "d_lock" ELSE asyncPc[u]
    BY <2>1 DEF AsyncGoWaking, AsyncSignalled, AsyncAsleep, AsyncResume
  <2>4. S # {}
    BY <1>2, <2>3 DEF AsyncAsleep
  <2>5. PICK v \in S : W = {v}
    BY <2>1, <2>4 DEF AsyncSignalled
  <2>6. v \in AsyncThreads \ D /\ D' = D \cup {v}
    BY <2>2, <2>3, <2>5 DEF AsyncAsleep
  <2>7. Cardinality(D') = Cardinality(D) + 1
    BY <1>1, <2>6, AwakeCount
  <2> QED
    BY <1>1, <2>2, <2>4, <2>7
<1>6. CASE ~ ((\E t \in AsyncCallers : AsyncDispatchWait(t) \/ AsyncEnqueue(t)) \/ \E w \in AsyncWorkers : AsyncTake(w))
  <2>1. asyncQueue' = asyncQueue
    BY <1>6, Writers
  <2>2. D \subseteq D'
    BY <1>0, <1>6, CallerArrivals DEF AsyncAsleep
  <2>3. S # {}
    BY <1>0, <1>2, <1>6, CallerArrivals DEF AsyncAsleep
  <2>4. Cardinality(D) <= Cardinality(D')
    BY <1>1, <2>2, AwakeCount
  <2> QED
    BY <1>1, <2>1, <2>3, <2>4
<1> QED
  BY <1>3, <1>4, <1>5, <1>6

-------------------------------------------------------------------------------
(* A shutdown drains the queue. *)

(* A future that somebody has to see to stays so until it is done. *)
LEMMA PlaceMoves ==
  ASSUME Settled, [AsyncNext]_asyncVars, NEW f \in AsyncFutures
  PROVE  /\ Queued(f) => Queued(f)' \/ Held(f)'
         /\ Held(f) => Held(f)' \/ asyncDone[f]
         /\ Dispatching(f) => Dispatching(f)' \/ Queued(f)'
         /\ Dispatching(f)' => Dispatching(f) \/ asyncAlloc[f] = "none"
<1>0. /\ AsyncTypeOK /\ AsyncStopped /\ CallsMatch /\ JobsMatch /\ OnePlace /\ Distinct(asyncQueue)
  BY DEF Settled, Hands, OnePlace
<1>1. Queued(f) => Queued(f)' \/ Held(f)'
  <2>1. ASSUME NEW w \in AsyncWorkers, AsyncTake(w), f = Head(asyncQueue) PROVE Held(f)'
    BY <1>0, <2>1, WorkerSteps DEF Held
  <2> QED
    BY <1>0, <2>1, QueueWriter
<1>2. Held(f) => Held(f)' \/ asyncDone[f]
  <2> SUFFICES ASSUME NEW w \in AsyncWorkers, f \in asyncArg[w], ~ asyncDone[f] PROVE f \in asyncArg'[w]
    BY DEF Held
  <2>1. asyncPc[w] \notin IdlePlaces /\ RunsMatch(w, f)
    BY <1>0 DEF JobsMatch
  <2>2. asyncPc[w] \notin {"lock", "asleep", "anycast"}
    BY <2>1 DEF IdlePlaces, RunsMatch
  <2> QED
    BY <1>0, <2>2, WorkerMoves, WorkerSteps DEF Unmoved, Woken, AsyncWorkerStep
<1>3. Dispatching(f) => Dispatching(f)' \/ Queued(f)'
  <2> SUFFICES ASSUME NEW t \in AsyncCallers, asyncCall[t] = "dispatch", f \in asyncArg[t]
               PROVE  (asyncCall'[t] = "dispatch" /\ f \in asyncArg'[t]) \/ Queued(f)'
    BY DEF Dispatching
  <2>1. asyncPc[t] \in {"d_lock", "d_asleep"} /\ asyncArg[t] = {f}
    BY <1>0 DEF CallsMatch
  <2>2. ASSUME AsyncEnqueue(t) PROVE Queued(f)'
    <3>1. asyncQueue' = Append(asyncQueue, f) /\ asyncQueue \in Seq(AsyncFutures)
      BY <1>0, <2>1, <2>2 DEF AsyncEnqueue, AsyncTypeOK
    <3>2. f \in Jobs(asyncQueue')
      BY <3>1, QueuePut
    <3> QED
      BY <3>2 DEF Queued, Jobs
  <2>3. ASSUME AsyncCallStep(t), ~ AsyncEnqueue(t) PROVE Unmoved(t) \/ Keeps(t)
    BY <1>0, <2>1, <2>3, CallerSteps DEF AsyncCallStep, Enters
  <2> QED
    BY <1>0, <2>1, <2>2, <2>3, CallerMoves DEF Unmoved, Woken, Keeps
<1>4. Dispatching(f)' => Dispatching(f) \/ asyncAlloc[f] = "none"
  <2> SUFFICES ASSUME NEW t \in AsyncCallers, asyncCall'[t] = "dispatch", f \in asyncArg'[t]
               PROVE  Dispatching(f) \/ asyncAlloc[f] = "none"
    BY DEF Dispatching
  <2> QED
    BY <1>0, DispatchArg DEF AsyncDispatch, Dispatching
<1> QED
  BY <1>1, <1>2, <1>3, <1>4

LEMMA AllocWriter ==
  ASSUME Settled, [AsyncNext]_asyncVars, NEW f \in AsyncFutures
  PROVE  /\ asyncAlloc[f] # "none" => asyncAlloc'[f] # "none"
         /\ asyncAlloc'[f] # "none" => asyncAlloc[f] # "none" \/ asyncDone[f] \/ Dispatching(f)'
<1>0. AsyncTypeOK /\ CallsMatch
  BY DEF Settled, Hands
<1>1. ASSUME NEW t \in AsyncCallers, NEW g \in AsyncFutures, AsyncDispatch(t, g)
      PROVE  /\ asyncAlloc[f] # "none" => asyncAlloc'[f] # "none"
             /\ asyncAlloc'[f] # "none" => asyncAlloc[f] # "none" \/ Dispatching(f)'
  <2>1. asyncCall'[t] = "dispatch" /\ asyncArg'[t] = {g}
    BY <1>0, <1>1, CallerSteps DEF Enters
  <2> QED
    BY <1>0, <1>1, <2>1 DEF AsyncDispatch, AsyncTypeOK, Dispatching
<1>2. ASSUME NEW t \in AsyncCallers, AsyncGetReturn(t)
      PROVE  /\ asyncAlloc[f] # "none" => asyncAlloc'[f] # "none"
             /\ asyncAlloc'[f] # "none" => asyncAlloc[f] # "none" \/ asyncDone[f]
  BY <1>0, <1>2 DEF AsyncGetReturn, AsyncTypeOK, CallsMatch
<1> QED
  BY <1>1, <1>2, Writers

LEMMA UndoneStep == Settled /\ Undone /\ [AsyncNext]_asyncVars => Undone'
<1> SUFFICES ASSUME Settled, Undone, [AsyncNext]_asyncVars, NEW f \in AsyncFutures, asyncAlloc'[f] # "none",
                    ~ asyncDone'[f]
             PROVE  Queued(f)' \/ Held(f)' \/ Dispatching(f)'
  BY DEF Undone
<1>1. ~ asyncDone[f]
  BY DoneStays DEF Settled
<1> QED
  BY <1>1, AllocWriter, PlaceMoves DEF Undone

LEMMA DrainedStep == Settled /\ ShutdownHeld /\ Undone /\ Drained /\ [AsyncNext]_asyncVars => Drained'
<1> SUFFICES ASSUME Settled, ShutdownHeld, Undone, Drained, [AsyncNext]_asyncVars,
                    NEW t \in AsyncCallers, asyncPc'[t] \in {"s_cast", "s_join"}, NEW f \in asyncArg'[t]
             PROVE  /\ asyncAlloc'[f] # "none" /\ ~ Dispatching(f)'
                    /\ asyncDone'[f] \/ Held(f)' \/ (Queued(f)' /\ \E w \in AsyncWorkers : asyncPc'[w] # "down")
  BY DEF Drained
<1>0. /\ AsyncTypeOK /\ AsyncStopped /\ t \in AsyncThreads /\ asyncQueue \in Seq(AsyncFutures)
      /\ \A u \in AsyncCallers : asyncArg[u] \in SUBSET AsyncFutures
  BY Disjoint DEF Settled, AsyncTypeOK
<1>1. f \in AsyncFutures /\ asyncAlloc[f] # "none" /\ ~ Dispatching(f)
      /\ (asyncDone[f] \/ Held(f) \/ (Queued(f) /\ \E w \in AsyncWorkers : asyncPc[w] # "down"))
  <2>1. CASE AsyncShutdown(t)
    <3>1. /\ f \in AsyncFutures /\ asyncAlloc[f] = "live"
          /\ \A u \in AsyncUsers(f) : asyncCall[u] # "dispatch"
      BY <1>0, <2>1 DEF AsyncShutdown, AsyncEnter, AsyncTypeOK
    <3>2. ~ Dispatching(f)
      BY <3>1 DEF Dispatching, AsyncUsers
    <3>3. asyncUp /\ ~ asyncDown
      BY <2>1 DEF AsyncShutdown, ShutdownHeld, ShutdownOwned
    <3>4. \E w \in AsyncWorkers : asyncPc[w] # "down"
      BY <3>3, AsyncAssumption DEF ShutdownHeld, WorkersUp
    <3> QED
      BY <3>1, <3>2, <3>4 DEF Undone
  <2>2. CASE ~ AsyncShutdown(t)
    <3>1. asyncPc[t] \in {"s_cast", "s_join"}
      BY <1>0, <2>2, CallerArrivals, CallerSteps
    <3>2. asyncArg'[t] = asyncArg[t]
      <4>1. ASSUME AsyncCallStep(t) PROVE Keeps(t)
        BY <1>0, <3>1, <4>1, CallerSteps DEF AsyncCallStep, Enters, Returns
      <4> QED
        BY <1>0, <4>1, CallerMoves DEF Keeps, Unmoved, Woken
    <3> QED
      BY <1>0, <3>1, <3>2 DEF Drained
  <2> QED
    BY <2>1, <2>2
(* A worker leaves only an empty queue. *)
<1>2. ASSUME Queued(f), NEW w \in AsyncWorkers, asyncPc[w] # "down" PROVE asyncPc'[w] # "down"
  <2>1. asyncQueue # <<>>
    BY <1>2, EmptySeq, LenProperties DEF Queued, Jobs
  <2> QED
    BY <1>0, <1>2, <2>1, WorkerArrivals DEF AsyncExit
<1>3. asyncDone[f] => asyncDone'[f]
  BY <1>0, <1>1, DoneStays
<1> QED
  BY <1>1, <1>2, <1>3, AllocWriter, PlaceMoves

-------------------------------------------------------------------------------
(* At the start nobody is in a call, and no future exists. *)
LEMMA WakeupsInit == AsyncInit => Wakeups
<1> SUFFICES ASSUME AsyncInit PROVE Wakeups
  OBVIOUS
<1>1. /\ \A t \in AsyncCallers : asyncPc[t] = "app"
      /\ \A w \in AsyncWorkers : asyncPc[w] = "lock"
      /\ \A t \in AsyncThreads : asyncPc[t] \in {"app", "lock"}
  BY Disjoint DEF AsyncInit
<1>2. TestsHold /\ ShutdownHeld
  BY <1>1 DEF AsyncInit, TestsHold, WorkersParked, WaitersParked, GettersParked, NotifiersOwn, ShutdownHeld,
              ShutdownOwned, CastToCome, WorkersUp
<1>3. Sleepers
  BY <1>1 DEF AsyncInit, Sleepers, GettersWoken, AnyWaitersWoken, WorkersAwake, DispatchersWoken, AsyncAsleep
<1>4. Undone /\ Drained
  BY <1>1 DEF AsyncInit, Undone, Drained
<1> QED
  BY <1>2, <1>3, <1>4 DEF Wakeups

LEMMA WakeupsStep == Settled /\ Wakeups /\ [AsyncNext]_asyncVars => Wakeups'
<1> SUFFICES ASSUME Settled, Wakeups, [AsyncNext]_asyncVars PROVE Wakeups'
  OBVIOUS
<1>1. /\ TestsHold /\ ShutdownHeld /\ Sleepers /\ Undone /\ Drained
      /\ WorkersParked /\ WaitersParked /\ ShutdownOwned
      /\ GettersWoken /\ AnyWaitersWoken /\ WorkersAwake /\ DispatchersWoken
  BY DEF Wakeups, TestsHold, ShutdownHeld, Sleepers
<1>2. TestsHold'
  BY <1>1, WorkersParkedStep, WaitersParkedStep, GettersParkedStep, NotifiersStep DEF TestsHold
<1>3. ShutdownHeld'
  BY <1>1, OwnedStep, CastStep, UpStep DEF ShutdownHeld
<1>4. Sleepers'
  BY <1>1, GettersStep, AnyWaitersStep, AwakeStep, DispatchersStep DEF Sleepers
<1>5. Undone' /\ Drained'
  BY <1>1, UndoneStep, DrainedStep
<1> QED
  BY <1>2, <1>3, <1>4, <1>5 DEF Wakeups

LEMMA InvariantHolds == AsyncSpec => [](Settled /\ Wakeups)
BY SettledInit, SettledStep, WakeupsInit, WakeupsStep, PTL DEF AsyncSpec

(* Every variable of the async pool keeps its type: workers stay in the worker    *)
(* loop, callers in their calls, and no future's mutex is held by anybody else.   *)
THEOREM AsyncTypeCorrect == AsyncSpec => []AsyncTypeOK
<1>1. Settled => AsyncTypeOK
  BY DEF Settled
<1> QED
  BY <1>1, InvariantHolds, PTL

(* __async_get, __async_wait_any, __async_cancel and __async_runtime_shutdown do  *)
(* what they owe their callers: a job that was cancelled in the queue never runs, *)
(* every other one exactly once before it is done; nobody sleeps through what he  *)
(* waits for; and a shutdown leaves no job of before it undone.                   *)
THEOREM AllServedAlways == AsyncSpec => []AsyncAllServed
<1>1. Settled /\ Wakeups => CancellationHonoured
  BY DEF Settled, Hands
<1>2. Settled /\ Wakeups => AsyncAllWoken
  <2> SUFFICES ASSUME Settled, Wakeups PROVE AsyncAllWoken
    OBVIOUS
  <2>1. GettersWoken /\ AnyWaitersWoken /\ WorkersAwake /\ DispatchersWoken /\ ShutdownOwned /\ CastToCome
    BY DEF Wakeups, Sleepers, ShutdownHeld
  <2>2. ASSUME NEW t \in AsyncCallers, asyncPc[t] = "s_join", NEW w \in AsyncWorkers, asyncPc[w] = "asleep" PROVE FALSE
    <3>1. asyncDown /\ asyncInitMutex = t
      BY <2>1, <2>2 DEF ShutdownOwned
    <3>2. PICK u \in AsyncCallers : asyncPc[u] = "s_cast"
      BY <2>1, <2>2, <3>1 DEF CastToCome
    <3>3. asyncInitMutex = u
      BY <2>1, <3>2 DEF ShutdownOwned
    <3> QED
      BY <2>2, <3>1, <3>2, <3>3
  <2> QED
    BY <2>1, <2>2 DEF AsyncAllWoken, GettersWoken, AnyWaitersWoken, WorkersAwake, DispatchersWoken
<1>3. Settled /\ Wakeups => AsyncShutdownDrains
  <2> SUFFICES ASSUME Settled, Wakeups, NEW t \in AsyncCallers, asyncPc[t] = "s_join",
                      \A w \in AsyncWorkers : asyncPc[w] = "down", NEW f \in asyncArg[t]
               PROVE  asyncDone[f]
    BY DEF AsyncShutdownDrains
  <2>1. asyncDone[f] \/ Held(f)
    BY DEF Wakeups, Drained
  <2>2. \A w \in AsyncWorkers : asyncArg[w] = {}
    BY DEF Settled, Hands, JobsMatch, IdlePlaces
  <2> QED
    BY <2>1, <2>2 DEF Held
<1> QED
  BY <1>1, <1>2, <1>3, InvariantHolds, PTL DEF AsyncAllServed
================================================================================
