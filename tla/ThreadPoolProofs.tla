--------------------------- MODULE ThreadPoolProofs ---------------------------
(* Theorems about ThreadPool, for every number of workers, clients and futures and *)
(* every queue capacity: every job runs once and none is lost, no wakeup is lost, a *)
(* shutdown drains the queue, and every step of the pool is a step of the abstract  *)
(* FuturePool or none.                                                              *)
EXTENDS ThreadPool, FiniteSetTheorems, FunctionTheorems, TLAPS

(* The number of workers a set of them amounts to. *)
LEMMA WorkerCount ==
  ASSUME NEW W \in SUBSET Workers
  PROVE  Cardinality(W) \in 0 .. Cardinality(Workers)
<1>1. IsFiniteSet(Workers)
  BY PoolAssumption
<1>2. IsFiniteSet(W) /\ Cardinality(W) <= Cardinality(Workers)
  BY <1>1, FS_Subset
<1>3. Cardinality(W) \in Nat /\ Cardinality(Workers) \in Nat
  BY <1>1, <1>2, FS_CardinalityType
<1> QED
  BY <1>2, <1>3

(* Waking sleepers keeps every program counter within PCs. *)
LEMMA WakingType ==
  ASSUME pc \in [Threads -> PCs], NEW t, NEW p \in PCs,
         NEW W, \A u \in W : pc[u] \in DOMAIN Resume,
         GoWaking(t, p, W)
  PROVE  pc' \in [Threads -> PCs]
BY DEF GoWaking, Resume, PCs, WorkerPCs, CallPCs

(* A sleeper can be resumed. *)
LEMMA SleepersResume ==
  ASSUME NEW p \in {"asleep", "d_asleep", "g_asleep", "a_asleep"}, NEW W \in SUBSET Sleepers(p)
  PROVE  \A u \in W : pc[u] \in DOMAIN Resume
BY DEF Sleepers, Resume

(* A signal wakes sleepers only. *)
LEMMA OneOfSubset ==
  ASSUME NEW S, NEW W \in OneOf(S)
  PROVE  W \in SUBSET S
BY DEF OneOf

(* A thread outside a call is at a place of its code. *)
LEMMA HomeType == \A t \in Threads : Home(t) \in PCs
BY DEF Home, PCs, WorkerPCs

(* The initial state has the types. *)
LEMMA TypeInit == Init => TypeOK
<1> SUFFICES ASSUME Init PROVE TypeOK
  OBVIOUS
<1>1. nworkers \in 0 .. Cardinality(Workers) /\ pc \in [Threads -> PCs]
  <2>1. PICK W \in SUBSET Workers :
           /\ nworkers = Cardinality(W)
           /\ pc = [t \in Threads |-> IF t \in W THEN "lock" ELSE IF t \in Workers THEN "down" ELSE "app"]
    BY DEF Init
  <2> QED
    BY <2>1, WorkerCount DEF PCs, WorkerPCs
<1>2. head \in Slot /\ tail \in Slot /\ count \in 0 .. Cap /\ slots \in [Slot -> Futures \cup {None}]
  BY PoolAssumption DEF Init, Slot
<1> QED
  BY <1>1, <1>2 DEF Init, TypeOK

(* Each step preserves the types: one step per action. *)
LEMMA TypeStep == TypeOK /\ [Next]_vars => TypeOK'
<1> SUFFICES ASSUME TypeOK, [Next]_vars PROVE TypeOK'
  OBVIOUS
<1> USE DEF TypeOK
<1>1. ASSUME NEW t \in Threads, NEW f \in Futures, DispatchCall(t, f) PROVE TypeOK'
  <2>1. Context(t) \in Clients \cup Futures \cup {None}
    BY DEF Context, Threads
  <2> QED
    BY <1>1, <2>1 DEF DispatchCall, Enter, Go, PCs, CallPCs, queue, pool
<1>2. ASSUME NEW t \in Threads, DispatchWait(t) PROVE TypeOK'
  BY <1>2 DEF DispatchWait, Go, PCs, CallPCs, queue, pool, fut, calls
<1>3. ASSUME NEW t \in Threads, DispatchEnqueue(t) PROVE TypeOK'
  <2>1. slots' \in [Slot -> Futures \cup {None}]
    BY <1>3 DEF DispatchEnqueue
  <2>2. tail' \in Slot /\ count' \in 0 .. Cap
    BY <1>3, PoolAssumption DEF DispatchEnqueue, Full, NextSlot, Slot
  <2>3. pc' \in [Threads -> PCs]
    BY <1>3, WakingType, SleepersResume, OneOfSubset, HomeType DEF DispatchEnqueue, Signalled
  <2> QED
    BY <1>3, <2>1, <2>2, <2>3 DEF DispatchEnqueue, Return, pool, fut
<1>4. ASSUME NEW t \in Threads, NEW f \in Futures, NEW c \in {"get", "drop"}, GetCall(t, f, c) PROVE TypeOK'
  BY <1>4 DEF GetCall, Enter, Go, PCs, CallPCs, queue, pool, fut
<1>5. ASSUME NEW t \in Threads, GetLock(t) PROVE TypeOK'
  BY <1>5 DEF GetLock, Go, PCs, CallPCs, queue, pool, fut, calls
<1>6. ASSUME NEW t \in Threads, GetWait(t) PROVE TypeOK'
  BY <1>6 DEF GetWait, Go, PCs, CallPCs, queue, pool, fut, calls
<1>7. ASSUME NEW t \in Threads, GetReturn(t) PROVE TypeOK'
  BY <1>7, HomeType DEF GetReturn, Return, Go, queue, pool, fut
<1>8. ASSUME NEW t \in Threads, DropFree(t) PROVE TypeOK'
  BY <1>8, HomeType DEF DropFree, Return, Go, queue, pool
<1>9. ASSUME NEW t \in Threads, NEW F \in SUBSET Futures, WaitAnyCall(t, F) PROVE TypeOK'
  BY <1>9 DEF WaitAnyCall, Enter, Go, PCs, CallPCs, queue, pool, fut
<1>10. ASSUME NEW t \in Threads, WaitAnyLock(t) PROVE TypeOK'
  BY <1>10, HomeType DEF WaitAnyLock, Return, Go, PCs, CallPCs, queue, pool, fut, calls
<1>11. ASSUME NEW t \in Threads, WaitAnyWait(t) PROVE TypeOK'
  BY <1>11 DEF WaitAnyWait, Go, PCs, CallPCs, queue, pool, fut, calls
<1>12. ASSUME NEW t \in Threads, WaitAnyWake(t) PROVE TypeOK'
  BY <1>12, HomeType DEF WaitAnyWake, Return, Go, PCs, CallPCs, queue, pool, fut, calls
<1>13. ASSUME NEW w \in Workers, WorkerSeesEmpty(w) PROVE TypeOK'
  BY <1>13 DEF WorkerSeesEmpty, Go, PCs, WorkerPCs, queue, pool, fut, calls
<1>14. ASSUME NEW w \in Workers, WorkerWait(w) PROVE TypeOK'
  BY <1>14 DEF WorkerWait, Go, PCs, WorkerPCs, queue, pool, fut, calls
<1>15. ASSUME NEW w \in Workers, WorkerExit(w) PROVE TypeOK'
  BY <1>15 DEF WorkerExit, Go, PCs, WorkerPCs, queue, pool, fut, calls
<1>16. ASSUME NEW w \in Workers, WorkerTake(w) PROVE TypeOK'
  <2>1. head' \in Slot /\ count' \in 0 .. Cap
    BY <1>16, PoolAssumption DEF WorkerTake, Pop, NextSlot, Slot
  <2>2. pc' \in [Threads -> PCs]
    <3>1. "run" \in PCs
      BY DEF PCs, WorkerPCs
    <3> QED
      BY <1>16, <3>1, WakingType, SleepersResume, OneOfSubset DEF WorkerTake
  <2>3. job' \in [Workers -> Futures \cup {None}]
    BY <1>16 DEF WorkerTake, Pop
  <2> QED
    BY <1>16, <2>1, <2>2, <2>3 DEF WorkerTake, pool, fut, calls
<1>17. ASSUME NEW w \in Workers, JobFinish(w) PROVE TypeOK'
  <2>1. finished' \in [Futures -> Nat]
    <3>1. \A f \in Futures : finished'[f] \in Nat
      BY <1>17 DEF JobFinish
    <3> QED
      BY <1>17, <3>1 DEF JobFinish
  <2> QED
    BY <1>17, <2>1 DEF JobFinish, Go, PCs, WorkerPCs, queue, pool, fut, calls
<1>18. ASSUME NEW w \in Workers, WorkerComplete(w) PROVE TypeOK'
  BY <1>18 DEF WorkerComplete, Go, PCs, WorkerPCs, Threads, queue, pool, fut, calls
<1>19. ASSUME NEW w \in Workers, WorkerNotify(w) PROVE TypeOK'
  <2>1. "anycast" \in PCs
    BY DEF PCs, WorkerPCs
  <2>2. pc' \in [Threads -> PCs]
    BY <1>19, <2>1, WakingType, SleepersResume DEF WorkerNotify
  <2> QED
    BY <1>19, <2>2 DEF WorkerNotify, queue, pool, fut, calls
<1>20. ASSUME NEW w \in Workers, WorkerAnyCast(w) PROVE TypeOK'
  <2>1. "lock" \in PCs
    BY DEF PCs, WorkerPCs
  <2>2. pc' \in [Threads -> PCs]
    BY <1>20, <2>1, WakingType, SleepersResume DEF WorkerAnyCast
  <2> QED
    BY <1>20, <2>2 DEF WorkerAnyCast, queue, pool, fut, calls
<1>21. ASSUME NEW t \in Clients, NEW W \in SUBSET Workers, RuntimeInit(t, W) PROVE TypeOK'
  <2>1. nworkers' \in 0 .. Cardinality(Workers)
    BY <1>21, WorkerCount DEF RuntimeInit
  <2>2. pc' \in [Threads -> PCs]
    BY <1>21 DEF RuntimeInit, PCs, WorkerPCs
  <2> QED
    BY <1>21, <2>1, <2>2 DEF RuntimeInit, queue, fut, calls
<1>22. ASSUME NEW t \in Clients, ShutdownCall(t) PROVE TypeOK'
  BY <1>22 DEF ShutdownCall, Enter, Go, PCs, CallPCs, queue, fut
<1>23. ASSUME NEW t \in Threads, ShutdownBroadcast(t) PROVE TypeOK'
  <2>1. "s_join" \in PCs
    BY DEF PCs, CallPCs
  <2>2. pc' \in [Threads -> PCs]
    BY <1>23, <2>1, WakingType, SleepersResume DEF ShutdownBroadcast
  <2> QED
    BY <1>23, <2>2 DEF ShutdownBroadcast, queue, pool, fut, calls
<1>24. ASSUME NEW t \in Threads, ShutdownJoined(t) PROVE TypeOK'
  <2>1. nworkers' \in 0 .. Cardinality(Workers)
    BY <1>24, WorkerCount DEF ShutdownJoined
  <2> QED
    BY <1>24, <2>1 DEF ShutdownJoined, Return, Go, PCs, queue, fut
<1>25. ASSUME NEW t \in Threads, SpuriousWake(t) PROVE TypeOK'
  BY <1>25 DEF SpuriousWake, Go, Resume, PCs, WorkerPCs, CallPCs, queue, pool, fut, calls
<1>26. CASE UNCHANGED vars
  BY <1>26 DEF vars, queue, pool, fut, calls
<1> QED
  BY <1>1, <1>2, <1>3, <1>4, <1>5, <1>6, <1>7, <1>8, <1>9, <1>10, <1>11, <1>12, <1>13, <1>14,
     <1>15, <1>16, <1>17, <1>18, <1>19, <1>20, <1>21, <1>22, <1>23, <1>24, <1>25, <1>26
  DEF Next, BeginCall, Continue, WorkerStep

(* Every variable of the pool stays within its type. *)
THEOREM TypeCorrect == Spec => []TypeOK
BY TypeInit, TypeStep, PTL DEF Spec

-------------------------------------------------------------------------------
(* The ring: putting one job in and taking one out. *)

(* The slot after the jobs is free, and holds the last job once it is filled. *)
LEMMA RingPut ==
  ASSUME NEW h \in Slot, NEW c \in 0 .. Cap - 1
  PROVE  /\ After(h, c) \in Slot
         /\ After(h, c) \notin Window(h, c)
         /\ Window(h, c + 1) = Window(h, c) \cup {After(h, c)}
         /\ After(h, c + 1) = NextSlot(After(h, c))
BY PoolAssumption DEF Slot, After, Window, NextSlot

(* Taking the first job shortens the window by its first slot. *)
LEMMA RingTake ==
  ASSUME NEW h \in Slot, NEW c \in 1 .. Cap
  PROVE  /\ h \in Window(h, c)
         /\ NextSlot(h) \in Slot
         /\ Window(NextSlot(h), c - 1) = Window(h, c) \ {h}
         /\ After(NextSlot(h), c - 1) = After(h, c)
BY PoolAssumption DEF Slot, After, Window, NextSlot

(* A wakeup does not change a thread's phase. *)
LEMMA WakingPhase ==
  ASSUME pc \in [Threads -> PCs], NEW t \in Threads, NEW p,
         NEW q \in {"asleep", "d_asleep", "g_asleep", "a_asleep"}, NEW W \in SUBSET Sleepers(q),
         GoWaking(t, p, W)
  PROVE  /\ pc'[t] = p
         /\ \A u \in Threads \ {t} : Phase(pc'[u]) = Phase(pc[u])
BY DEF GoWaking, Sleepers, Resume, Phase

(* A step of thread t that moves no job from hand to hand keeps the          *)
(* invariant, whatever it does to t's own call.                              *)
LEMMA Frame ==
  ASSUME Inductive, TypeOK', NEW t \in Threads,
         UNCHANGED <<queue, job, done, finished>>,
         \A f \in Futures : alloc'[f] = alloc[f] \/ alloc'[f] = "freed",
         \A u \in Threads : \/ /\ Phase(pc'[u]) = Phase(pc[u])
                              /\ call'[u] = call[u] /\ arg'[u] = arg[u]
                           \/ /\ u = t
                              /\ call[u] # "dispatch" /\ call'[u] # "dispatch"
                              /\ Phase(pc[u]) \in {"busy", "getting", "got"}
                              /\ Phase(pc'[u]) \in {"busy", "getting", "got"}
                              /\ Phase(pc'[u]) \in {"getting", "got"} => \E f \in Futures : arg'[u] = {f}
                              /\ Phase(pc'[u]) = "got" => \A f \in arg'[u] : done[f]
  PROVE  Inductive'
<1> USE DEF Inductive, HandsConsistent
<1>1. /\ Occupied' = Occupied
      /\ \A f \in Futures : Queued(f)' = Queued(f) /\ Held(f)' = Held(f)
      /\ RingConsistent'
  BY DEF Occupied, Queued, Held, RingConsistent, queue
<1>2. \A u \in Threads : call'[u] = "dispatch" <=> call[u] = "dispatch"
  OBVIOUS
<1>3. \A u \in Threads : call[u] = "dispatch" => arg'[u] = arg[u]
  OBVIOUS
<1>4. \A f \in Futures : Dispatching(f)' <=> Dispatching(f)
  BY <1>2, <1>3 DEF Dispatching
<1>5. ExactlyOnce'
  BY <1>1, <1>4 DEF ExactlyOnce
<1>6. NoJobLost'
  BY <1>1, <1>4 DEF NoJobLost
<1>7. CallsConsistent'
  BY <1>2 DEF CallsConsistent, Phase
<1>8. JobsConsistent'
  BY DEF JobsConsistent, Threads
<1>9. PlacesConsistent'
  <2>1. \A f \in Futures : alloc'[f] = "none" => alloc[f] = "none"
    OBVIOUS
  <2> QED
    BY <1>1, <1>2, <1>3, <1>4, <2>1 DEF PlacesConsistent
<1> QED
  BY <1>1, <1>5, <1>6, <1>7, <1>8, <1>9

-------------------------------------------------------------------------------
(* The six kinds of step that do move a job. *)

(* A new future is in no other hands than its dispatcher's. *)
LEMMA DispatchCallKeeps ==
  ASSUME Inductive, TypeOK', NEW t \in Threads, NEW f \in Futures, DispatchCall(t, f)
  PROVE  Inductive'
<1> USE DEF Inductive, TypeOK, HandsConsistent
<1>1. /\ alloc[f] = "none" /\ ~ Queued(f) /\ ~ Held(f) /\ ~ Dispatching(f) /\ finished[f] = 0
      /\ UNCHANGED <<queue, job, done, finished>>
      /\ call'[t] = "dispatch" /\ arg'[t] = {f} /\ pc'[t] = "d_lock"
      /\ alloc'[f] # "none" /\ \A g \in Futures \ {f} : alloc'[g] = alloc[g]
      /\ \A u \in Threads \ {t} : call'[u] = call[u] /\ arg'[u] = arg[u] /\ pc'[u] = pc[u]
  BY DEF DispatchCall, Enter, Go, PlacesConsistent
<1>2. call[t] # "dispatch"
  BY DEF DispatchCall, MayCall, Home, CallsConsistent, Phase
<1>3. /\ Occupied' = Occupied
      /\ \A g \in Futures : Queued(g)' = Queued(g) /\ Held(g)' = Held(g)
      /\ RingConsistent'
  BY <1>1 DEF Occupied, Queued, Held, RingConsistent, queue
<1>4. Dispatching(f)' /\ \A g \in Futures \ {f} : Dispatching(g)' <=> Dispatching(g)
  BY <1>1, <1>2 DEF Dispatching
<1>5. ExactlyOnce'
  BY <1>1, <1>3, <1>4 DEF ExactlyOnce
<1>6. NoJobLost'
  BY <1>1, <1>3, <1>4 DEF NoJobLost
<1>7. CallsConsistent'
  BY <1>1 DEF CallsConsistent, Phase
<1>8. JobsConsistent'
  <2>1. \A w \in Workers : Phase(pc'[w]) \in {"idle", "ran", "told"} <=> Phase(pc[w]) \in {"idle", "ran", "told"}
    BY <1>1 DEF DispatchCall, MayCall, Home, Phase, Threads
  <2>2. \A w \in Workers : w # t => pc'[w] = pc[w]
    BY <1>1 DEF Threads
  <2> QED
    BY <1>1, <2>1, <2>2 DEF JobsConsistent, Phase, Threads
<1>9. PlacesConsistent'
  <2>1. \A u \in Threads : call[u] = "dispatch" => f \notin arg[u]
    BY <1>1 DEF Dispatching
  <2> QED
    BY <1>1, <1>2, <1>3, <1>4, <2>1 DEF PlacesConsistent
<1> QED
  BY <1>3, <1>5, <1>6, <1>7, <1>8, <1>9

(* Enqueueing moves a job from its dispatcher to the slot after the others. *)
LEMMA DispatchEnqueueKeeps ==
  ASSUME Inductive, TypeOK', NEW t \in Threads, DispatchEnqueue(t)
  PROVE  Inductive'
<1> USE DEF Inductive, TypeOK, HandsConsistent
<1>1. call[t] = "dispatch"
  BY DEF DispatchEnqueue, CallsConsistent, Phase
<1>2. PICK f \in Futures : arg[t] = {f}
  BY DEF DispatchEnqueue, CallsConsistent, Phase
<1>3. /\ UNCHANGED <<head, alloc, job, done, finished>>
      /\ slots' = [slots EXCEPT ![tail] = f] /\ tail' = NextSlot(tail) /\ count' = count + 1
      /\ count \in 0 .. Cap - 1
      /\ call'[t] = "none" /\ arg'[t] = {}
      /\ \A u \in Threads \ {t} : call'[u] = call[u] /\ arg'[u] = arg[u]
  BY <1>2, PoolAssumption DEF DispatchEnqueue, Full, Return, fut
<1>4. pc'[t] = Home(t) /\ \A u \in Threads \ {t} : Phase(pc'[u]) = Phase(pc[u])
  BY WakingPhase, OneOfSubset DEF DispatchEnqueue, Signalled
<1>5. /\ tail \notin Occupied /\ tail \in Slot
      /\ Occupied' = Occupied \cup {tail}
      /\ tail' = After(head', count')
  BY <1>3, RingPut DEF RingConsistent, Occupied
<1>6. /\ slots'[tail] = f
      /\ \A i \in Occupied : slots'[i] = slots[i]
  BY <1>3, <1>5 DEF Occupied, Window
<1>7. Dispatching(f) /\ ~ Queued(f) /\ ~ Held(f) /\ finished[f] = 0 /\ alloc[f] # "none"
  BY <1>1, <1>2 DEF Dispatching, ExactlyOnce, PlacesConsistent
<1>8. Queued(f)' /\ \A g \in Futures \ {f} : Queued(g)' <=> Queued(g)
  BY <1>5, <1>6 DEF Queued
<1>9. \A g \in Futures : Held(g)' = Held(g)
  BY <1>3 DEF Held
<1>10. ~ Dispatching(f)' /\ \A g \in Futures \ {f} : Dispatching(g)' <=> Dispatching(g)
  <2>1. \A u \in Threads \ {t} : call[u] = "dispatch" => f \notin arg[u]
    BY <1>1, <1>2 DEF PlacesConsistent
  <2> QED
    BY <1>1, <1>2, <1>3, <2>1 DEF Dispatching
<1>11. RingConsistent'
  <2>1. \A i \in Occupied : slots[i] # f
    BY <1>7 DEF Queued
  <2> QED
    BY <1>5, <1>6, <2>1 DEF RingConsistent
<1>12. ExactlyOnce'
  BY <1>3, <1>7, <1>8, <1>9, <1>10 DEF ExactlyOnce
<1>13. NoJobLost'
  BY <1>3, <1>8, <1>9, <1>10 DEF NoJobLost
<1>14. CallsConsistent'
  <2>1. Phase(pc'[t]) = "busy"
    BY <1>4 DEF Home, Phase
  <2> QED
    BY <1>3, <1>4, <2>1 DEF CallsConsistent
<1>15. JobsConsistent'
  <2>1. Phase(pc'[t]) = "busy" /\ Phase(pc[t]) = "dispatching"
    BY <1>4 DEF Home, Phase, DispatchEnqueue
  <2> QED
    BY <1>3, <1>4, <2>1 DEF JobsConsistent, Threads
<1>16. PlacesConsistent'
  BY <1>3, <1>7, <1>8, <1>9, <1>10 DEF PlacesConsistent
<1> QED
  BY <1>11, <1>12, <1>13, <1>14, <1>15, <1>16

(* Taking moves a job from the head of the queue to the worker. *)
LEMMA WorkerTakeKeeps ==
  ASSUME Inductive, TypeOK', NEW w \in Workers, WorkerTake(w)
  PROVE  Inductive'
<1> USE DEF Inductive, TypeOK, HandsConsistent
<1>0. PICK f : f = slots[head]
  OBVIOUS
<1>1. /\ UNCHANGED <<slots, tail, alloc, call, arg, done, finished>>
      /\ job' = [job EXCEPT ![w] = f] /\ head' = NextSlot(head) /\ count' = count - 1
      /\ count \in 1 .. Cap
  BY <1>0, PoolAssumption DEF WorkerTake, Pop, fut, calls
<1>2. pc'[w] = "run" /\ \A u \in Threads \ {w} : Phase(pc'[u]) = Phase(pc[u])
  BY WakingPhase, OneOfSubset DEF WorkerTake, Threads
<1>3. job[w] = None /\ Phase(pc[w]) = "idle"
  BY DEF WorkerTake, JobsConsistent, Phase
<1>4. /\ head \in Occupied
      /\ Occupied' = Occupied \ {head}
      /\ tail' = After(head', count')
  BY <1>1, RingTake DEF RingConsistent, Occupied
<1>5. f \in Futures /\ f # None
  BY <1>0, <1>4, PoolAssumption DEF RingConsistent
<1>6. Queued(f) /\ ~ Held(f) /\ ~ Dispatching(f) /\ finished[f] = 0 /\ ~ done[f] /\ alloc[f] # "none"
  BY <1>0, <1>4, <1>5 DEF Queued, ExactlyOnce, PlacesConsistent
<1>7. ~ Queued(f)' /\ \A g \in Futures \ {f} : Queued(g)' <=> Queued(g)
  BY <1>0, <1>1, <1>4, <1>5 DEF Queued, RingConsistent
<1>8. Held(f)' /\ \A g \in Futures \ {f} : Held(g)' <=> Held(g)
  BY <1>1, <1>3, <1>5, PoolAssumption DEF Held
<1>9. \A g \in Futures : Dispatching(g)' = Dispatching(g)
  BY <1>1 DEF Dispatching
<1>10. RingConsistent'
  BY <1>1, <1>4 DEF RingConsistent
<1>11. ExactlyOnce'
  <2>1. \A g \in Futures : \A u, v \in Workers : job'[u] = g /\ job'[v] = g => u = v
    <3>1. \A u \in Workers \ {w} : job'[u] = job[u] /\ job'[u] # f
      BY <1>1, <1>6 DEF Held
    <3> QED
      BY <1>1, <3>1 DEF ExactlyOnce
  <2> QED
    BY <1>1, <1>7, <1>8, <1>9, <2>1 DEF ExactlyOnce
<1>12. NoJobLost'
  BY <1>1, <1>7, <1>8, <1>9 DEF NoJobLost
<1>13. CallsConsistent'
  BY <1>1, <1>2, <1>3 DEF CallsConsistent, Phase
<1>14. JobsConsistent'
  <2>1. \A u \in Workers \ {w} : job'[u] = job[u] /\ Phase(pc'[u]) = Phase(pc[u])
    BY <1>1, <1>2 DEF Threads
  <2>2. job'[w] = f /\ Phase(pc'[w]) = "busy"
    BY <1>1, <1>2 DEF Phase
  <2> QED
    BY <1>1, <1>5, <1>6, <2>1, <2>2 DEF JobsConsistent
<1>15. PlacesConsistent'
  BY <1>1, <1>6, <1>7, <1>8, <1>9 DEF PlacesConsistent
<1> QED
  BY <1>10, <1>11, <1>12, <1>13, <1>14, <1>15

(* The function of a job in a worker's hands returns: it had not run before. *)
LEMMA JobFinishKeeps ==
  ASSUME Inductive, TypeOK', NEW w \in Workers, JobFinish(w)
  PROVE  Inductive'
<1> USE DEF Inductive, TypeOK, HandsConsistent
<1>1. PICK f \in Futures : job[w] = f /\ f # None
  BY PoolAssumption DEF JobFinish, JobsConsistent, Phase
<1>2. /\ UNCHANGED <<queue, call, arg, alloc, job, done>>
      /\ finished[f] = 0 /\ finished' = [finished EXCEPT ![f] = 1]
      /\ ~ done[f]
      /\ pc[w] = "run" /\ pc'[w] = "complete" /\ \A u \in Threads \ {w} : pc'[u] = pc[u]
  <2>1. finished[f] = 0 /\ ~ done[f]
    BY <1>1 DEF JobFinish, JobsConsistent, Phase
  <2>2. finished' = [finished EXCEPT ![f] = 1]
    BY <1>1, <2>1 DEF JobFinish
  <2> QED
    BY <1>1, <2>1, <2>2 DEF JobFinish, Go, fut, calls, Threads
<1>3. Held(f) /\ ~ Queued(f) /\ ~ Dispatching(f) /\ alloc[f] # "none"
  BY <1>1 DEF Held, ExactlyOnce, PlacesConsistent
<1>4. /\ RingConsistent'
      /\ \A g \in Futures : /\ Queued(g)' = Queued(g)
                            /\ Held(g)' = Held(g)
                            /\ Dispatching(g)' = Dispatching(g)
  BY <1>2 DEF RingConsistent, Occupied, Queued, Held, Dispatching, queue
<1>5. finished'[f] = 1 /\ \A g \in Futures \ {f} : finished'[g] = finished[g]
  BY <1>2
<1>6. ExactlyOnce'
  BY <1>2, <1>3, <1>4, <1>5 DEF ExactlyOnce
<1>7. NoJobLost'
  BY <1>2, <1>4, <1>5 DEF NoJobLost
<1>8. CallsConsistent'
  <2>1. Phase(pc'[w]) = "ran" /\ Phase(pc[w]) = "busy"
    BY <1>2 DEF Phase
  <2> QED
    BY <1>2, <2>1 DEF CallsConsistent
<1>9. JobsConsistent'
  <2>1. \A v \in Workers \ {w} : job[v] # f /\ pc'[v] = pc[v]
    BY <1>1, <1>2 DEF ExactlyOnce, Threads
  <2>2. Phase(pc'[w]) = "ran"
    BY <1>2 DEF Phase
  <2> QED
    BY <1>1, <1>2, <1>5, <2>1, <2>2 DEF JobsConsistent
<1>10. PlacesConsistent'
  BY <1>2, <1>3, <1>4, <1>5 DEF PlacesConsistent
<1> QED
  BY <1>4, <1>6, <1>7, <1>8, <1>9, <1>10

(* The store of done follows the return of the job's function. *)
LEMMA WorkerCompleteKeeps ==
  ASSUME Inductive, TypeOK', NEW w \in Workers, WorkerComplete(w)
  PROVE  Inductive'
<1> USE DEF Inductive, TypeOK, HandsConsistent
<1>1. PICK f \in Futures : job[w] = f /\ f # None
  BY PoolAssumption DEF WorkerComplete, JobsConsistent, Phase
<1>2. /\ UNCHANGED <<queue, call, arg, alloc, job, finished>>
      /\ finished[f] = 1
      /\ done'[f] /\ \A g \in Futures \ {f} : done'[g] = done[g]
      /\ pc[w] = "complete" /\ pc'[w] = "notify" /\ \A u \in Threads \ {w} : pc'[u] = pc[u]
  BY <1>1 DEF WorkerComplete, Go, JobsConsistent, Phase, fut, calls, Threads
<1>3. /\ RingConsistent'
      /\ \A g \in Futures : /\ Queued(g)' = Queued(g)
                            /\ Held(g)' = Held(g)
                            /\ Dispatching(g)' = Dispatching(g)
  BY <1>2 DEF RingConsistent, Occupied, Queued, Held, Dispatching, queue
<1>4. ExactlyOnce'
  BY <1>2, <1>3 DEF ExactlyOnce
<1>5. NoJobLost'
  BY <1>2, <1>3 DEF NoJobLost
<1>6. CallsConsistent'
  <2>1. Phase(pc'[w]) = "told" /\ Phase(pc[w]) = "ran"
    BY <1>2 DEF Phase
  <2>2. \A g \in Futures : done[g] => done'[g]
    BY <1>2
  <2> QED
    BY <1>2, <2>1, <2>2 DEF CallsConsistent
<1>7. JobsConsistent'
  <2>1. \A v \in Workers \ {w} : job[v] # f /\ pc'[v] = pc[v]
    BY <1>1, <1>2 DEF ExactlyOnce, Threads
  <2>2. Phase(pc'[w]) = "told"
    BY <1>2 DEF Phase
  <2> QED
    BY <1>1, <1>2, <2>1, <2>2 DEF JobsConsistent
<1>8. PlacesConsistent'
  BY <1>2, <1>3 DEF PlacesConsistent
<1> QED
  BY <1>3, <1>4, <1>5, <1>6, <1>7, <1>8

(* A worker lets go of its job once every waiter has been told. *)
LEMMA WorkerAnyCastKeeps ==
  ASSUME Inductive, TypeOK', NEW w \in Workers, WorkerAnyCast(w)
  PROVE  Inductive'
<1> USE DEF Inductive, TypeOK, HandsConsistent
<1>1. PICK f \in Futures : job[w] = f /\ f # None
  BY PoolAssumption DEF WorkerAnyCast, JobsConsistent, Phase
<1>2. /\ UNCHANGED <<queue, call, arg, alloc, done, finished>>
      /\ finished[f] = 1
      /\ job'[w] = None /\ \A u \in Workers \ {w} : job'[u] = job[u]
      /\ Phase(pc[w]) = "told"
  BY <1>1 DEF WorkerAnyCast, JobsConsistent, Phase, fut, calls
<1>3. /\ pc'[w] = "lock" /\ Phase(pc'[w]) = "idle"
      /\ \A u \in Threads \ {w} : Phase(pc'[u]) = Phase(pc[u])
  <2>1. w \in Threads /\ "a_asleep" \in {"asleep", "d_asleep", "g_asleep", "a_asleep"}
    BY DEF Threads
  <2>2. GoWaking(w, "lock", Sleepers("a_asleep"))
    BY DEF WorkerAnyCast
  <2>3. pc'[w] = "lock" /\ \A u \in Threads \ {w} : Phase(pc'[u]) = Phase(pc[u])
    BY <2>1, <2>2, WakingPhase
  <2> QED
    BY <2>3 DEF Phase
<1>4. /\ RingConsistent'
      /\ \A g \in Futures : Queued(g)' = Queued(g) /\ Dispatching(g)' = Dispatching(g)
  BY <1>2 DEF RingConsistent, Occupied, Queued, Dispatching, queue
<1>5. ~ Held(f)' /\ \A g \in Futures \ {f} : Held(g)' <=> Held(g)
  <2>1. \A u \in Workers \ {w} : job[u] # f
    BY <1>1 DEF ExactlyOnce
  <2>2. \A g \in Futures : g # None
    BY PoolAssumption
  <2> QED
    BY <1>1, <1>2, <2>1, <2>2 DEF Held
<1>6. ExactlyOnce'
  <2>1. \A g \in Futures : \A u, v \in Workers : job'[u] = g /\ job'[v] = g => u = v
    <3>1. \A g \in Futures : g # None
      BY PoolAssumption
    <3> QED
      BY <1>2, <3>1 DEF ExactlyOnce
  <2>2. \A g \in Futures : Held(g)' => Held(g)
    BY <1>5
  <2> QED
    BY <1>2, <1>4, <2>1, <2>2 DEF ExactlyOnce
<1>7. NoJobLost'
  BY <1>2, <1>4, <1>5 DEF NoJobLost
<1>8. CallsConsistent'
  BY <1>2, <1>3 DEF CallsConsistent
<1>9. JobsConsistent'
  BY <1>2, <1>3, PoolAssumption DEF JobsConsistent, Threads
<1>10. PlacesConsistent'
  BY <1>2, <1>4, <1>5 DEF PlacesConsistent
<1> QED
  BY <1>4, <1>6, <1>7, <1>8, <1>9, <1>10

-------------------------------------------------------------------------------
(* The invariant *)

(* Nothing is queued, held or being dispatched when the pool starts. *)
LEMMA InductiveInit == Init => Inductive
<1> SUFFICES ASSUME Init PROVE Inductive
  OBVIOUS
<1>1. TypeOK
  BY TypeInit
<1>2. Occupied = {}
  BY PoolAssumption DEF Init, Occupied, Window, Slot
<1>3. /\ \A f \in Futures : f # None /\ ~ Queued(f) /\ ~ Held(f) /\ ~ Dispatching(f)
      /\ \A f \in Futures : finished[f] = 0 /\ ~ done[f] /\ alloc[f] = "none"
  BY <1>2, PoolAssumption DEF Init, Queued, Held, Dispatching
<1>4. RingConsistent
  BY <1>2, PoolAssumption DEF Init, RingConsistent, After
<1>5. ExactlyOnce /\ NoJobLost /\ PlacesConsistent
  BY <1>3 DEF Init, ExactlyOnce, NoJobLost, PlacesConsistent
<1>6. CallsConsistent /\ JobsConsistent
  <2>1. PICK W \in SUBSET Workers :
          pc = [t \in Threads |-> IF t \in W THEN "lock" ELSE IF t \in Workers THEN "down" ELSE "app"]
    BY DEF Init
  <2>2. \A t \in Threads : Phase(pc[t]) = IF t \in Workers THEN "idle" ELSE "busy"
    BY <2>1 DEF Phase
  <2> QED
    BY <2>2 DEF Init, CallsConsistent, JobsConsistent, Threads
<1> QED
  BY <1>1, <1>4, <1>5, <1>6 DEF Inductive, HandsConsistent

(* Each step preserves the invariant: one step per action. *)
LEMMA InductiveStep == Inductive /\ PoolDown /\ [Next]_vars => Inductive'
<1> SUFFICES ASSUME Inductive, PoolDown, [Next]_vars PROVE Inductive'
  OBVIOUS
<1>1. TypeOK' /\ TypeOK /\ CallsConsistent /\ JobsConsistent
  BY TypeStep DEF Inductive, HandsConsistent
<1> USE DEF TypeOK
<1>2. ASSUME NEW t \in Threads, NEW f \in Futures, DispatchCall(t, f) PROVE Inductive'
  BY <1>1, <1>2, DispatchCallKeeps
<1>3. ASSUME NEW t \in Threads, DispatchWait(t) PROVE Inductive'
  <2>1. \A u \in Threads : Phase(pc'[u]) = Phase(pc[u])
    BY <1>1, <1>3 DEF DispatchWait, Go, Phase
  <2> QED
    BY <1>1, <1>3, <2>1, Frame DEF DispatchWait, fut, calls
<1>4. ASSUME NEW t \in Threads, DispatchEnqueue(t) PROVE Inductive'
  BY <1>1, <1>4, DispatchEnqueueKeeps
<1>5. ASSUME NEW t \in Threads, NEW f \in Futures, NEW c \in {"get", "drop"}, GetCall(t, f, c) PROVE Inductive'
  <2>1. call[t] # "dispatch" /\ Phase(pc[t]) = "busy"
    BY <1>1, <1>5 DEF GetCall, MayCall, Home, Phase, CallsConsistent
  <2>2. pc'[t] = (IF done[f] THEN "got" ELSE "g_lock") /\ \A u \in Threads \ {t} : pc'[u] = pc[u]
    BY <1>1, <1>5 DEF GetCall, Go
  <2>3. Phase(pc'[t]) \in {"getting", "got"} /\ (Phase(pc'[t]) = "got" => done[f])
    BY <2>2 DEF Phase
  <2>4. call'[t] = c /\ arg'[t] = {f} /\ \A u \in Threads \ {t} : call'[u] = call[u] /\ arg'[u] = arg[u]
    BY <1>1, <1>5 DEF GetCall, Enter
  <2> QED
    <3>1. UNCHANGED <<queue, job, done, finished, alloc>>
      BY <1>5 DEF GetCall, fut
    <3>2. call'[t] # "dispatch"
      BY <2>4
    <3>3. Phase(pc'[t]) \in {"getting", "got"} => arg'[t] = {f}
      BY <2>4
    <3>4. Phase(pc'[t]) = "got" => \A g \in arg'[t] : done[g]
      BY <2>3, <2>4
    <3> QED
      BY <1>1, <2>1, <2>2, <2>3, <2>4, <3>1, <3>2, <3>3, <3>4, Frame
<1>6. ASSUME NEW t \in Threads, GetLock(t) PROVE Inductive'
  <2>1. PICK f \in Futures : arg[t] = {f}
    BY <1>1, <1>6 DEF GetLock, CallsConsistent, Phase
  <2>2. call[t] # "dispatch" /\ Phase(pc[t]) = "getting"
    BY <1>1, <1>6 DEF GetLock, CallsConsistent, Phase
  <2>3. pc'[t] = (IF done[f] THEN "got" ELSE "g_park") /\ \A u \in Threads \ {t} : pc'[u] = pc[u]
    BY <1>1, <1>6, <2>1 DEF GetLock, Go
  <2>4. Phase(pc'[t]) \in {"getting", "got"} /\ (Phase(pc'[t]) = "got" => done[f])
    BY <2>3 DEF Phase
  <2> QED
    BY <1>1, <1>6, <2>1, <2>2, <2>3, <2>4, Frame DEF GetLock, fut, calls
<1>7. ASSUME NEW t \in Threads, GetWait(t) PROVE Inductive'
  <2>1. \A u \in Threads : Phase(pc'[u]) = Phase(pc[u])
    BY <1>1, <1>7 DEF GetWait, Go, Phase
  <2> QED
    BY <1>1, <1>7, <2>1, Frame DEF GetWait, fut, calls
<1>8. ASSUME NEW t \in Threads, GetReturn(t) \/ DropFree(t) PROVE Inductive'
  <2>1. call[t] # "dispatch" /\ Phase(pc[t]) = "got"
    BY <1>1, <1>8 DEF GetReturn, DropFree, CallsConsistent, Phase
  <2>2. Phase(pc'[t]) = "busy" /\ \A u \in Threads \ {t} : pc'[u] = pc[u]
    BY <1>1, <1>8 DEF GetReturn, DropFree, Go, Home, Phase
  <2>3. call'[t] = "none" /\ \A u \in Threads \ {t} : call'[u] = call[u] /\ arg'[u] = arg[u]
    BY <1>1, <1>8 DEF GetReturn, DropFree, Return
  <2>4. \A f \in Futures : alloc'[f] = alloc[f] \/ alloc'[f] = "freed"
    BY <1>1, <1>8 DEF GetReturn, DropFree, fut
  <2>5. UNCHANGED <<queue, job, done, finished>>
    BY <1>8 DEF GetReturn, DropFree
  <2> QED
    BY <1>1, <2>1, <2>2, <2>3, <2>4, <2>5, Frame
<1>9. ASSUME NEW t \in Threads,
             \/ \E F \in SUBSET Futures : WaitAnyCall(t, F)
             \/ WaitAnyLock(t) \/ WaitAnyWait(t) \/ WaitAnyWake(t)
      PROVE  Inductive'
  <2>1. call[t] # "dispatch" /\ Phase(pc[t]) = "busy"
    BY <1>1, <1>9 DEF WaitAnyCall, MayCall, WaitAnyLock, WaitAnyWait, WaitAnyWake, Home, CallsConsistent, Phase
  <2>2. Phase(pc'[t]) = "busy" /\ \A u \in Threads \ {t} : pc'[u] = pc[u]
    BY <1>1, <1>9 DEF WaitAnyCall, WaitAnyLock, WaitAnyWait, WaitAnyWake, Go, Home, Phase
  <2>3. call'[t] # "dispatch" /\ \A u \in Threads \ {t} : call'[u] = call[u] /\ arg'[u] = arg[u]
    BY <1>1, <1>9, <2>1 DEF WaitAnyCall, WaitAnyLock, WaitAnyWait, WaitAnyWake, Enter, Return, calls
  <2>4. UNCHANGED <<queue, job, done, finished, alloc>>
    BY <1>9 DEF WaitAnyCall, WaitAnyLock, WaitAnyWait, WaitAnyWake, fut
  <2> QED
    BY <1>1, <2>1, <2>2, <2>3, <2>4, Frame
<1>10. ASSUME NEW w \in Workers, WorkerSeesEmpty(w) \/ WorkerWait(w) \/ WorkerExit(w) PROVE Inductive'
  <2>1. \A u \in Threads : Phase(pc'[u]) = Phase(pc[u])
    BY <1>1, <1>10 DEF WorkerSeesEmpty, WorkerWait, WorkerExit, Go, Phase
  <2>2. UNCHANGED <<queue, job, done, finished, alloc, call, arg>>
    BY <1>10 DEF WorkerSeesEmpty, WorkerWait, WorkerExit, fut, calls
  <2> QED
    BY <1>1, <2>1, <2>2, Frame DEF Threads
<1>11. ASSUME NEW w \in Workers, WorkerTake(w) PROVE Inductive'
  BY <1>1, <1>11, WorkerTakeKeeps
<1>12. ASSUME NEW w \in Workers, JobFinish(w) PROVE Inductive'
  BY <1>1, <1>12, JobFinishKeeps
<1>13. ASSUME NEW w \in Workers, WorkerComplete(w) PROVE Inductive'
  BY <1>1, <1>13, WorkerCompleteKeeps
<1>14. ASSUME NEW w \in Workers, WorkerNotify(w) PROVE Inductive'
  <2>1. PICK W \in SUBSET Sleepers("g_asleep") : GoWaking(w, "anycast", W)
    BY <1>14 DEF WorkerNotify
  <2>2. pc'[w] = "anycast" /\ \A u \in Threads \ {w} : Phase(pc'[u]) = Phase(pc[u])
    BY <1>1, <2>1, WakingPhase DEF Threads
  <2>3. Phase(pc'[w]) = Phase(pc[w])
    BY <1>14, <2>2 DEF WorkerNotify, Phase
  <2> QED
    BY <1>1, <1>14, <2>2, <2>3, Frame DEF WorkerNotify, fut, calls, Threads
<1>15. ASSUME NEW w \in Workers, WorkerAnyCast(w) PROVE Inductive'
  BY <1>1, <1>15, WorkerAnyCastKeeps
<1>16. ASSUME NEW t \in Clients, NEW W \in SUBSET Workers, RuntimeInit(t, W) PROVE Inductive'
  <2>1. UNCHANGED <<queue, fut, calls, job, done, finished>>
    BY <1>16 DEF RuntimeInit
  <2>2. \A u \in Threads : Phase(pc'[u]) = Phase(pc[u])
    BY <1>1, <1>16 DEF RuntimeInit, PoolDown, Up, Phase, Threads
  <2> QED
    BY <1>1, <2>1, <2>2, Frame DEF fut, calls, Threads
<1>17. ASSUME NEW t \in Clients, ShutdownCall(t) PROVE Inductive'
  <2>1. call[t] # "dispatch" /\ Phase(pc[t]) = "busy"
    BY <1>1, <1>17 DEF ShutdownCall, CallsConsistent, Phase, Threads
  <2>2. Phase(pc'[t]) = "busy" /\ \A u \in Threads \ {t} : pc'[u] = pc[u]
    BY <1>1, <1>17 DEF ShutdownCall, Go, Phase, Threads
  <2>3. call'[t] # "dispatch" /\ \A u \in Threads \ {t} : call'[u] = call[u] /\ arg'[u] = arg[u]
    BY <1>1, <1>17 DEF ShutdownCall, Enter, Threads
  <2> QED
    BY <1>1, <1>17, <2>1, <2>2, <2>3, Frame DEF ShutdownCall, fut, Threads
<1>18. ASSUME NEW t \in Threads, ShutdownBroadcast(t) PROVE Inductive'
  <2>1. pc'[t] = "s_join" /\ \A u \in Threads \ {t} : Phase(pc'[u]) = Phase(pc[u])
    BY <1>1, <1>18, WakingPhase DEF ShutdownBroadcast
  <2>2. Phase(pc'[t]) = Phase(pc[t])
    BY <1>18, <2>1 DEF ShutdownBroadcast, Phase
  <2> QED
    BY <1>1, <1>18, <2>1, <2>2, Frame DEF ShutdownBroadcast, fut, calls
<1>19. ASSUME NEW t \in Threads, ShutdownJoined(t) PROVE Inductive'
  <2>1. call[t] # "dispatch" /\ Phase(pc[t]) = "busy"
    BY <1>1, <1>19 DEF ShutdownJoined, CallsConsistent, Phase
  <2>2. Phase(pc'[t]) = "busy" /\ \A u \in Threads \ {t} : pc'[u] = pc[u]
    BY <1>1, <1>19 DEF ShutdownJoined, Go, Phase
  <2>3. call'[t] # "dispatch" /\ \A u \in Threads \ {t} : call'[u] = call[u] /\ arg'[u] = arg[u]
    BY <1>1, <1>19 DEF ShutdownJoined, Return
  <2> QED
    BY <1>1, <1>19, <2>1, <2>2, <2>3, Frame DEF ShutdownJoined, fut
<1>20. ASSUME NEW t \in Threads, SpuriousWake(t) PROVE Inductive'
  <2>1. \A u \in Threads : Phase(pc'[u]) = Phase(pc[u])
    BY <1>1, <1>20 DEF SpuriousWake, Go, Resume, Phase
  <2> QED
    BY <1>1, <1>20, <2>1, Frame DEF SpuriousWake, fut, calls
<1>21. CASE UNCHANGED vars
  BY <1>1, <1>21
  DEF vars, queue, pool, fut, calls, Inductive, HandsConsistent, CallsConsistent, JobsConsistent, PlacesConsistent,
      RingConsistent, ExactlyOnce, NoJobLost, Occupied, Queued, Held, Dispatching
<1> QED
  BY <1>2, <1>3, <1>4, <1>5, <1>6, <1>7, <1>8, <1>9, <1>10, <1>11, <1>12, <1>13, <1>14,
     <1>15, <1>16, <1>17, <1>18, <1>19, <1>20, <1>21
  DEF Next, BeginCall, Continue, WorkerStep

(* Workers are started by __thread_runtime_init alone, which counts them. *)
LEMMA DownStep == TypeOK /\ PoolDown /\ [Next]_vars => PoolDown'
<1> SUFFICES ASSUME TypeOK, PoolDown, [Next]_vars PROVE PoolDown'
  OBVIOUS
<1> USE DEF TypeOK
<1>1. ASSUME UNCHANGED nworkers, \A w \in Workers : pc[w] = "down" => pc'[w] = "down" PROVE PoolDown'
  BY <1>1 DEF PoolDown, Up
<1>2. ASSUME NEW t \in Threads, NEW p, NEW W, \A u \in W : pc[u] # "down", GoWaking(t, p, W), pc[t] # "down"
      PROVE  \A w \in Workers : pc[w] = "down" => pc'[w] = "down"
  BY <1>2 DEF GoWaking, Threads
<1>3. ASSUME NEW t \in Threads, NEW p, Go(t, p), pc[t] # "down"
      PROVE  \A w \in Workers : pc[w] = "down" => pc'[w] = "down"
  BY <1>3 DEF Go, Threads
<1>4. ASSUME NEW t \in Threads, BeginCall(t) PROVE PoolDown'
  <2>1. UNCHANGED nworkers /\ pc[t] # "down" /\ \E p : Go(t, p)
    BY <1>4 DEF BeginCall, DispatchCall, GetCall, WaitAnyCall, MayCall, Home, pool
  <2> QED
    BY <1>1, <1>3, <2>1
<1>5. ASSUME NEW t \in Threads,
             \/ DispatchWait(t) \/ GetLock(t) \/ GetWait(t) \/ GetReturn(t) \/ DropFree(t)
             \/ WaitAnyLock(t) \/ WaitAnyWait(t) \/ WaitAnyWake(t) \/ SpuriousWake(t)
      PROVE  PoolDown'
  <2>1. UNCHANGED nworkers /\ pc[t] # "down" /\ \E p : Go(t, p)
    BY <1>5 DEF DispatchWait, GetLock, GetWait, GetReturn, DropFree, WaitAnyLock, WaitAnyWait, WaitAnyWake,
                SpuriousWake, Resume, pool
  <2> QED
    BY <1>1, <1>3, <2>1
<1>6. ASSUME NEW t \in Threads, DispatchEnqueue(t) \/ ShutdownBroadcast(t) PROVE PoolDown'
  <2>1. UNCHANGED nworkers /\ pc[t] # "down"
    BY <1>6 DEF DispatchEnqueue, ShutdownBroadcast, pool
  <2>2. \E p : \E W \in SUBSET Sleepers("asleep") : GoWaking(t, p, W)
    BY <1>6, OneOfSubset DEF DispatchEnqueue, Signalled, ShutdownBroadcast
  <2>3. \A u \in Sleepers("asleep") : pc[u] # "down"
    BY DEF Sleepers
  <2> QED
    BY <1>1, <1>2, <2>1, <2>2, <2>3
<1>7. ASSUME NEW t \in Threads, ShutdownJoined(t) PROVE PoolDown'
  <2>1. \A w \in Workers : pc[w] = "down"
    BY <1>7 DEF ShutdownJoined, Up
  <2>2. \A w \in Workers : pc'[w] = "down"
    <3>1. t \notin Workers
      BY <1>7, <2>1 DEF ShutdownJoined
    <3> QED
      BY <1>7, <2>1, <3>1 DEF ShutdownJoined, Go, Threads
  <2> QED
    BY <2>2 DEF PoolDown, Up
<1>8. ASSUME NEW w \in Workers, WorkerSeesEmpty(w) \/ WorkerWait(w) \/ WorkerExit(w) \/ JobFinish(w) \/ WorkerComplete(w)
      PROVE  PoolDown'
  <2>1. UNCHANGED nworkers /\ pc[w] # "down" /\ \E p : Go(w, p)
    BY <1>8 DEF WorkerSeesEmpty, WorkerWait, WorkerExit, JobFinish, WorkerComplete, pool
  <2> QED
    BY <1>1, <1>3, <2>1 DEF Threads
<1>9. ASSUME NEW w \in Workers, WorkerTake(w) \/ WorkerNotify(w) \/ WorkerAnyCast(w) PROVE PoolDown'
  <2>1. UNCHANGED nworkers /\ pc[w] # "down" /\ w \in Threads
    BY <1>9 DEF WorkerTake, WorkerNotify, WorkerAnyCast, pool, Threads
  <2>2. \E p : \E q \in {"d_asleep", "g_asleep", "a_asleep"} : \E W \in SUBSET Sleepers(q) : GoWaking(w, p, W)
    <3>1. CASE WorkerTake(w)
      BY <3>1, OneOfSubset DEF WorkerTake
    <3>2. CASE WorkerNotify(w)
      BY <3>2 DEF WorkerNotify
    <3>3. CASE WorkerAnyCast(w)
      BY <3>3 DEF WorkerAnyCast
    <3> QED
      BY <1>9, <3>1, <3>2, <3>3
  <2>3. \A q \in {"d_asleep", "g_asleep", "a_asleep"} : \A u \in Sleepers(q) : pc[u] # "down"
    BY DEF Sleepers
  <2> QED
    BY <1>1, <1>2, <2>1, <2>2, <2>3
<1>10. ASSUME NEW t \in Clients, NEW W \in SUBSET Workers, RuntimeInit(t, W) PROVE PoolDown'
  <2>1. nworkers' = 0 => W = {}
    <3>1. IsFiniteSet(W) /\ nworkers' = Cardinality(W)
      BY <1>10, PoolAssumption, FS_Subset DEF RuntimeInit
    <3> QED
      BY <3>1, FS_EmptySet
  <2> QED
    BY <1>10, <2>1 DEF RuntimeInit, PoolDown, Up, Threads
<1>11. ASSUME NEW t \in Clients, ShutdownCall(t) PROVE PoolDown'
  BY <1>1, <1>3, <1>11 DEF ShutdownCall, Threads
<1>12. CASE UNCHANGED vars
  BY <1>12 DEF vars, pool, PoolDown, Up
<1> QED
  BY <1>4, <1>5, <1>6, <1>7, <1>8, <1>9, <1>10, <1>11, <1>12 DEF Next, Continue, WorkerStep

(* The pool starts with the workers it counts. *)
LEMMA DownInit == Init => PoolDown
<1> SUFFICES ASSUME Init, nworkers = 0 PROVE Up = {}
  BY DEF PoolDown
<1>1. PICK W \in SUBSET Workers :
        /\ nworkers = Cardinality(W)
        /\ pc = [t \in Threads |-> IF t \in W THEN "lock" ELSE IF t \in Workers THEN "down" ELSE "app"]
  BY DEF Init
<1>2. W = {}
  <2>1. IsFiniteSet(W)
    BY PoolAssumption, FS_Subset
  <2> QED
    BY <1>1, <2>1, FS_EmptySet
<1> QED
  BY <1>1, <1>2 DEF Up, Threads

(* The conjunction of the two is the invariant the theorems rest on. *)
LEMMA InvariantHolds == Spec => [](Inductive /\ PoolDown)
<1>1. Inductive => TypeOK
  BY DEF Inductive
<1> QED
  BY <1>1, InductiveInit, DownInit, InductiveStep, DownStep, PTL DEF Spec

(* No job is run twice: for any number of workers, dispatchers and jobs and  *)
(* any queue capacity, whatever the interleaving and the spurious wakeups.   *)
THEOREM RunsExactlyOnce == Spec => []ExactlyOnce
<1>1. Inductive => ExactlyOnce
  BY DEF Inductive
<1> QED
  BY <1>1, InvariantHolds, PTL

(* No job is lost between its dispatch and the return of its function. *)
THEOREM LosesNoJob == Spec => []NoJobLost
<1>1. Inductive => NoJobLost
  BY DEF Inductive
<1> QED
  BY <1>1, InvariantHolds, PTL

(* The ring's counter, indices and slots always agree. *)
THEOREM RingStaysConsistent == Spec => []RingConsistent
<1>1. Inductive => RingConsistent
  BY DEF Inductive
<1> QED
  BY <1>1, InvariantHolds, PTL

(* Who leaves __future_get or frees a future sees a completely run job. *)
THEOREM ReadsCompleteResults == Spec => []ResultComplete
<1>1. Inductive => ResultComplete
  BY DEF Inductive, TypeOK, HandsConsistent, CallsConsistent, ExactlyOnce, ResultComplete, Phase
<1> QED
  BY <1>1, InvariantHolds, PTL

--------------------------------------------------------------------------------
(* Wakeups, shutdown and what callers are promised. *)

(* Only workers are in the worker loop, only clients start and stop the pool. *)
PlacesOwn ==
  /\ \A t \in Clients : pc[t] \in CallPCs \cup {"app"}
  /\ \A w \in Workers : pc[w] \notin {"app", "s_cast", "s_join"}

(* Who stands between a test and the wait it decides on has the mutex under      *)
(* which what was tested is changed, so the test still holds; and a worker that  *)
(* broadcasts has its future's mutex.                                            *)
WorkersParked  == \A w \in Workers : pc[w] = "park" => qMutex = w /\ count = 0
WaitersParked  == \A t \in Threads : pc[t] = "a_park" => anyMutex = t
GettersParked  == \A t \in Threads : pc[t] = "g_park" => \A f \in arg[t] : fMutex[f] = t /\ ~ done[f]
NotifiersOwn   == \A w \in Workers : pc[w] = "notify" => fMutex[job[w]] = w
TestsHold      == WorkersParked /\ WaitersParked /\ GettersParked /\ NotifiersOwn

(* While the flag is set one client is in the shutdown; a worker that tested the *)
(* flag before is asleep or about to be, and the broadcast is still to come; and *)
(* a pool that is not shutting down keeps its workers.                           *)
ShutdownOwned == /\ \A t \in Clients : pc[t] \in {"s_cast", "s_join"} => initMutex = t /\ shutdown
                 /\ shutdown => initMutex # None
CastToCome    == shutdown /\ (\E w \in Workers : pc[w] \in {"park", "asleep"}) => \E t \in Clients : pc[t] = "s_cast"
PoolUp        == ~ shutdown /\ nworkers > 0 => Up # {}
ShutdownHeld  == ShutdownOwned /\ CastToCome /\ PoolUp

(* A future that is not done is queued, held or in its dispatcher's hands, and   *)
(* those a shutdown waits for have workers as long as they are queued.           *)
Undone == \A f \in Futures : alloc[f] # "none" /\ ~ done[f] => Queued(f) \/ Held(f) \/ Dispatching(f)
Drained ==
  \A t \in Clients : pc[t] \in {"s_cast", "s_join"} =>
    \A f \in arg[t] : /\ alloc[f] # "none" /\ ~ Dispatching(f)
                      /\ done[f] \/ Held(f) \/ (Queued(f) /\ Up # {})

Wakeups == PlacesOwn /\ TestsHold /\ ShutdownHeld /\ SleepersWoken /\ Undone /\ Drained

-------------------------------------------------------------------------------
(* Who moves, and where to: the facts about the whole next-state relation that   *)
(* the proofs below share.                                                       *)

LEMMA Disjoint == /\ Threads = Workers \cup Clients /\ Workers \cap Clients = {} /\ Futures \cap Clients = {}
                  /\ \A t \in Threads : t # None
                  /\ \A f \in Futures : f # None
BY PoolAssumption DEF Threads

(* A thread changes its place by a step of its own, by being woken, or, a worker *)
(* that was down, by being started.                                              *)
LEMMA Movers ==
  ASSUME TypeOK, PoolDown, [Next]_vars, NEW u \in Threads, pc'[u] # pc[u]
  PROVE  \/ pc[u] \in DOMAIN Resume /\ pc'[u] = Resume[pc[u]]
         \/ BeginCall(u) \/ Continue(u)
         \/ u \in Workers /\ WorkerStep(u)
         \/ u \in Workers /\ pc[u] = "down" /\ pc'[u] = "lock"
         \/ u \in Clients /\ ShutdownCall(u)
<1> USE DEF TypeOK
<1>1. ASSUME NEW t \in Threads, \E p : Go(t, p) PROVE u = t
  BY <1>1 DEF Go
<1>2. ASSUME NEW t \in Threads, NEW p, NEW q \in {"asleep", "d_asleep", "g_asleep", "a_asleep"},
             NEW W \in SUBSET Sleepers(q), GoWaking(t, p, W)
      PROVE  u = t \/ (pc[u] \in DOMAIN Resume /\ pc'[u] = Resume[pc[u]])
  BY <1>2, SleepersResume DEF GoWaking
<1>3. ASSUME NEW t \in Threads, BeginCall(t) PROVE u = t
  BY <1>1, <1>3 DEF BeginCall, DispatchCall, GetCall, WaitAnyCall
<1>4. ASSUME NEW t \in Threads, Continue(t) PROVE u = t \/ (pc[u] \in DOMAIN Resume /\ pc'[u] = Resume[pc[u]])
  <2>1. CASE DispatchEnqueue(t) \/ ShutdownBroadcast(t)
    BY <1>2, <2>1, OneOfSubset DEF DispatchEnqueue, Signalled, ShutdownBroadcast
  <2>2. CASE ~ (DispatchEnqueue(t) \/ ShutdownBroadcast(t))
    <3>1. \E p : Go(t, p)
      BY <1>4, <2>2 DEF Continue, DispatchWait, GetLock, GetWait, GetReturn, DropFree, WaitAnyLock, WaitAnyWait,
                        WaitAnyWake, ShutdownJoined
    <3> QED
      BY <1>1, <3>1
  <2> QED
    BY <2>1, <2>2
<1>5. ASSUME NEW t \in Threads, SpuriousWake(t) PROVE pc[u] \in DOMAIN Resume /\ pc'[u] = Resume[pc[u]]
  BY <1>5 DEF SpuriousWake, Go
<1>6. ASSUME NEW w \in Workers, WorkerStep(w) PROVE u = w \/ (pc[u] \in DOMAIN Resume /\ pc'[u] = Resume[pc[u]])
  <2>0. w \in Threads
    BY DEF Threads
  <2>1. CASE WorkerTake(w)
    BY <1>2, <2>0, <2>1, OneOfSubset DEF WorkerTake
  <2>2. CASE WorkerNotify(w)
    <3>1. {t \in Sleepers("g_asleep") : job[w] \in arg[t]} \in SUBSET Sleepers("g_asleep")
      OBVIOUS
    <3> QED
      BY <1>2, <2>0, <2>2, <3>1 DEF WorkerNotify
  <2>3. CASE WorkerAnyCast(w)
    BY <1>2, <2>0, <2>3 DEF WorkerAnyCast
  <2>4. CASE ~ (WorkerTake(w) \/ WorkerNotify(w) \/ WorkerAnyCast(w))
    <3>1. \E p : Go(w, p)
      BY <1>6, <2>4 DEF WorkerStep, WorkerSeesEmpty, WorkerWait, WorkerExit, JobFinish, WorkerComplete
    <3> QED
      BY <1>1, <2>0, <3>1
  <2> QED
    BY <2>1, <2>2, <2>3, <2>4
<1>7. ASSUME NEW t \in Clients, NEW W \in SUBSET Workers, RuntimeInit(t, W)
      PROVE  u \in Workers /\ pc[u] = "down" /\ pc'[u] = "lock"
  BY <1>7 DEF RuntimeInit, PoolDown, Up
<1>8. ASSUME NEW t \in Clients, ShutdownCall(t) PROVE u = t
  BY <1>1, <1>8 DEF ShutdownCall, Threads
<1>9. CASE UNCHANGED vars
  BY <1>9 DEF vars
<1> QED
  BY <1>3, <1>4, <1>5, <1>6, <1>7, <1>8, <1>9 DEF Next

(* Where a thread's own steps begin and end. *)
LEMMA OwnPlaces ==
  ASSUME TypeOK, NEW u \in Threads
  PROVE  /\ BeginCall(u)         => pc[u] = Home(u) /\ pc'[u] \in {"d_lock", "got", "g_lock", "a_lock"}
         /\ DispatchWait(u)      => pc[u] = "d_lock" /\ pc'[u] = "d_asleep"
         /\ DispatchEnqueue(u)   => pc[u] = "d_lock" /\ pc'[u] = Home(u)
         /\ GetLock(u)           => pc[u] = "g_lock" /\ pc'[u] \in {"got", "g_park"}
         /\ GetWait(u)           => pc[u] = "g_park" /\ pc'[u] = "g_asleep"
         /\ GetReturn(u) \/ DropFree(u) => pc[u] = "got" /\ pc'[u] = Home(u)
         /\ WaitAnyLock(u)       => pc[u] = "a_lock" /\ pc'[u] \in {Home(u), "a_park"}
         /\ WaitAnyWait(u)       => pc[u] = "a_park" /\ pc'[u] = "a_asleep"
         /\ WaitAnyWake(u)       => pc[u] = "a_wake" /\ pc'[u] \in {Home(u), "a_lock"}
         /\ ShutdownBroadcast(u) => pc[u] = "s_cast" /\ pc'[u] = "s_join"
         /\ ShutdownJoined(u)    => pc[u] = "s_join" /\ pc'[u] = "app"
         /\ u \in Clients => (ShutdownCall(u) => pc[u] = "app" /\ pc'[u] = "s_cast")
<1> USE DEF TypeOK
<1>1. BeginCall(u) => pc[u] = Home(u) /\ pc'[u] \in {"d_lock", "got", "g_lock", "a_lock"}
  BY DEF BeginCall, DispatchCall, GetCall, WaitAnyCall, MayCall, Go
<1>2. DispatchWait(u) => pc[u] = "d_lock" /\ pc'[u] = "d_asleep"
  BY DEF DispatchWait, Go
<1>3. DispatchEnqueue(u) => pc[u] = "d_lock" /\ pc'[u] = Home(u)
  BY DEF DispatchEnqueue, GoWaking
<1>4. GetLock(u) => pc[u] = "g_lock" /\ pc'[u] \in {"got", "g_park"}
  BY DEF GetLock, Go
<1>5. GetWait(u) => pc[u] = "g_park" /\ pc'[u] = "g_asleep"
  BY DEF GetWait, Go
<1>6. GetReturn(u) \/ DropFree(u) => pc[u] = "got" /\ pc'[u] = Home(u)
  BY DEF GetReturn, DropFree, Go
<1>7. WaitAnyLock(u) => pc[u] = "a_lock" /\ pc'[u] \in {Home(u), "a_park"}
  BY DEF WaitAnyLock, Go
<1>8. WaitAnyWait(u) => pc[u] = "a_park" /\ pc'[u] = "a_asleep"
  BY DEF WaitAnyWait, Go
<1>9. WaitAnyWake(u) => pc[u] = "a_wake" /\ pc'[u] \in {Home(u), "a_lock"}
  BY DEF WaitAnyWake, Go
<1>10. ShutdownBroadcast(u) => pc[u] = "s_cast" /\ pc'[u] = "s_join"
  BY DEF ShutdownBroadcast, GoWaking
<1>11. ShutdownJoined(u) => pc[u] = "s_join" /\ pc'[u] = "app"
  BY DEF ShutdownJoined, Go
<1>12. u \in Clients => (ShutdownCall(u) => pc[u] = "app" /\ pc'[u] = "s_cast")
  BY DEF ShutdownCall, Go
<1> QED
  BY <1>1, <1>2, <1>3, <1>4, <1>5, <1>6, <1>7, <1>8, <1>9, <1>10, <1>11, <1>12

LEMMA WorkerPlaces ==
  ASSUME TypeOK, NEW w \in Workers
  PROVE  /\ WorkerSeesEmpty(w) => pc[w] = "lock" /\ pc'[w] = "park"
         /\ WorkerWait(w)      => pc[w] = "park" /\ pc'[w] = "asleep"
         /\ WorkerExit(w)      => pc[w] = "lock" /\ pc'[w] = "down"
         /\ WorkerTake(w)      => pc[w] = "lock" /\ pc'[w] = "run"
         /\ JobFinish(w)       => pc[w] = "run" /\ pc'[w] = "complete"
         /\ WorkerComplete(w)  => pc[w] = "complete" /\ pc'[w] = "notify"
         /\ WorkerNotify(w)    => pc[w] = "notify" /\ pc'[w] = "anycast"
         /\ WorkerAnyCast(w)   => pc[w] = "anycast" /\ pc'[w] = "lock"
<1>0. w \in Threads /\ pc \in [Threads -> PCs]
  BY DEF Threads, TypeOK
<1>1. WorkerSeesEmpty(w) => pc[w] = "lock" /\ pc'[w] = "park"
  BY <1>0 DEF WorkerSeesEmpty, Go
<1>2. WorkerWait(w) => pc[w] = "park" /\ pc'[w] = "asleep"
  BY <1>0 DEF WorkerWait, Go
<1>3. WorkerExit(w) => pc[w] = "lock" /\ pc'[w] = "down"
  BY <1>0 DEF WorkerExit, Go
<1>4. WorkerTake(w) => pc[w] = "lock" /\ pc'[w] = "run"
  BY <1>0 DEF WorkerTake, GoWaking
<1>5. JobFinish(w) => pc[w] = "run" /\ pc'[w] = "complete"
  BY <1>0 DEF JobFinish, Go
<1>6. WorkerComplete(w) => pc[w] = "complete" /\ pc'[w] = "notify"
  BY <1>0 DEF WorkerComplete, Go
<1>7. WorkerNotify(w) => pc[w] = "notify" /\ pc'[w] = "anycast"
  BY <1>0 DEF WorkerNotify, GoWaking
<1>8. WorkerAnyCast(w) => pc[w] = "anycast" /\ pc'[w] = "lock"
  BY <1>0 DEF WorkerAnyCast, GoWaking
<1> QED
  BY <1>1, <1>2, <1>3, <1>4, <1>5, <1>6, <1>7, <1>8

(* By which step a thread comes to a place where it sleeps, is about to, has     *)
(* shut down or is shutting down.                                                *)
LEMMA Arrivals ==
  ASSUME TypeOK, PoolDown, [Next]_vars, NEW u \in Threads, pc'[u] # pc[u]
  PROVE  /\ pc'[u] = "park"     => u \in Workers /\ WorkerSeesEmpty(u)
         /\ pc'[u] = "asleep"   => u \in Workers /\ WorkerWait(u)
         /\ pc'[u] = "notify"   => u \in Workers /\ WorkerComplete(u)
         /\ pc'[u] = "down"     => u \in Workers /\ WorkerExit(u)
         /\ pc'[u] = "d_asleep" => DispatchWait(u)
         /\ pc'[u] = "g_park"   => GetLock(u)
         /\ pc'[u] = "g_asleep" => GetWait(u)
         /\ pc'[u] = "a_park"   => WaitAnyLock(u)
         /\ pc'[u] = "a_asleep" => WaitAnyWait(u)
         /\ pc'[u] = "s_cast"   => u \in Clients /\ ShutdownCall(u)
         /\ pc'[u] = "s_join"   => ShutdownBroadcast(u)
BY Movers, OwnPlaces, WorkerPlaces DEF Continue, WorkerStep, Resume, Home

(* By which step a thread leaves a place from which it has others to wake. *)
LEMMA Departures ==
  ASSUME TypeOK, PoolDown, [Next]_vars, NEW u \in Threads, pc'[u] # pc[u]
  PROVE  /\ pc[u] = "notify"  => u \in Workers /\ WorkerNotify(u)
         /\ pc[u] = "anycast" => u \in Workers /\ WorkerAnyCast(u)
         /\ pc[u] = "lock"    => u \in Workers /\ (WorkerSeesEmpty(u) \/ WorkerExit(u) \/ WorkerTake(u))
         /\ pc[u] = "d_lock"  => DispatchWait(u) \/ DispatchEnqueue(u)
         /\ pc[u] = "s_cast"  => ShutdownBroadcast(u)
         /\ pc[u] = "s_join"  => ShutdownJoined(u)
BY Movers, OwnPlaces, WorkerPlaces DEF Continue, WorkerStep, Resume, Home

(* Which steps write what. *)
LEMMA Writers ==
  ASSUME [Next]_vars
  PROVE  /\ UNCHANGED queue \/ (\E t \in Threads : DispatchEnqueue(t)) \/ (\E w \in Workers : WorkerTake(w))
         /\ UNCHANGED qMutex \/ (\E w \in Workers : WorkerSeesEmpty(w) \/ WorkerWait(w))
         /\ UNCHANGED anyMutex \/ (\E t \in Threads : WaitAnyLock(t) \/ WaitAnyWait(t))
         /\ UNCHANGED done \/ (\E w \in Workers : WorkerComplete(w))
         /\ UNCHANGED fMutex \/ (\E t \in Threads : GetLock(t) \/ GetWait(t))
                             \/ (\E w \in Workers : WorkerComplete(w) \/ WorkerNotify(w))
         /\ UNCHANGED job \/ (\E w \in Workers : WorkerTake(w) \/ WorkerAnyCast(w))
         /\ UNCHANGED <<shutdown, initMutex>> \/ (\E t \in Clients : ShutdownCall(t))
                                              \/ (\E t \in Threads : ShutdownJoined(t))
         /\ UNCHANGED nworkers \/ (\E t \in Threads : ShutdownJoined(t))
                               \/ (\E t \in Clients : \E W \in SUBSET Workers : RuntimeInit(t, W))
         /\ UNCHANGED alloc \/ (\E t \in Threads : DropFree(t))
                            \/ (\E t \in Threads : \E f \in Futures : DispatchCall(t, f))
<1>1. ASSUME NEW t \in Threads, BeginCall(t)
      PROVE  /\ UNCHANGED <<queue, pool, qMutex, anyMutex, job, done, fMutex>>
             /\ UNCHANGED alloc \/ \E f \in Futures : DispatchCall(t, f)
  BY <1>1 DEF BeginCall, DispatchCall, GetCall, WaitAnyCall, fut
<1>2. ASSUME NEW t \in Threads, Continue(t)
      PROVE  /\ UNCHANGED queue \/ DispatchEnqueue(t)
             /\ UNCHANGED anyMutex \/ WaitAnyLock(t) \/ WaitAnyWait(t)
             /\ UNCHANGED fMutex \/ GetLock(t) \/ GetWait(t)
             /\ UNCHANGED pool \/ ShutdownJoined(t)
             /\ UNCHANGED alloc \/ DropFree(t)
             /\ UNCHANGED <<qMutex, done, job>>
  BY <1>2 DEF Continue, DispatchWait, DispatchEnqueue, GetLock, GetWait, GetReturn, DropFree, WaitAnyLock, WaitAnyWait,
              WaitAnyWake, ShutdownBroadcast, ShutdownJoined, fut
<1>3. ASSUME NEW t \in Threads, SpuriousWake(t)
      PROVE  UNCHANGED <<queue, pool, qMutex, anyMutex, job, done, fMutex, alloc>>
  BY <1>3 DEF SpuriousWake, fut
<1>4. ASSUME NEW w \in Workers, WorkerStep(w)
      PROVE  /\ UNCHANGED queue \/ WorkerTake(w)
             /\ UNCHANGED qMutex \/ WorkerSeesEmpty(w) \/ WorkerWait(w)
             /\ UNCHANGED done \/ WorkerComplete(w)
             /\ UNCHANGED fMutex \/ WorkerComplete(w) \/ WorkerNotify(w)
             /\ UNCHANGED job \/ WorkerTake(w) \/ WorkerAnyCast(w)
             /\ UNCHANGED <<pool, anyMutex, alloc>>
  BY <1>4 DEF WorkerStep, WorkerSeesEmpty, WorkerWait, WorkerExit, WorkerTake, JobFinish, WorkerComplete, WorkerNotify,
              WorkerAnyCast, fut
<1>5. ASSUME NEW t \in Clients, NEW W \in SUBSET Workers, RuntimeInit(t, W)
      PROVE  UNCHANGED <<queue, shutdown, initMutex, qMutex, anyMutex, job, done, fMutex, alloc>>
  BY <1>5 DEF RuntimeInit, fut
<1>6. ASSUME NEW t \in Clients, ShutdownCall(t)
      PROVE  UNCHANGED <<queue, nworkers, qMutex, anyMutex, job, done, fMutex, alloc>>
  BY <1>6 DEF ShutdownCall, fut
<1>7. CASE UNCHANGED vars
  BY <1>7 DEF vars, pool, fut
<1> QED
  BY <1>1, <1>2, <1>3, <1>4, <1>5, <1>6, <1>7 DEF Next, pool

(* Only a thread itself changes its call, as it enters or leaves one. *)
LEMMA OwnCall ==
  ASSUME TypeOK, [Next]_vars, NEW u \in Threads
  PROVE  \/ call'[u] = call[u] /\ arg'[u] = arg[u]
         \/ BeginCall(u)
         \/ DispatchEnqueue(u) \/ GetReturn(u) \/ DropFree(u) \/ WaitAnyLock(u) \/ WaitAnyWake(u) \/ ShutdownJoined(u)
         \/ u \in Clients /\ ShutdownCall(u)
<1> DEFINE Kept == call'[u] = call[u] /\ arg'[u] = arg[u]
<1> USE DEF TypeOK
<1>1. ASSUME NEW t \in Threads, BeginCall(t) PROVE Kept \/ t = u
  BY <1>1 DEF BeginCall, DispatchCall, GetCall, WaitAnyCall, Enter
<1>2. ASSUME NEW t \in Threads, Continue(t)
      PROVE  \/ Kept
             \/ t = u /\ (\/ DispatchEnqueue(u) \/ GetReturn(u) \/ DropFree(u) \/ WaitAnyLock(u) \/ WaitAnyWake(u)
                          \/ ShutdownJoined(u))
  <2>1. UNCHANGED calls \/ Return(t)
    BY <1>2 DEF Continue, DispatchWait, DispatchEnqueue, GetLock, GetWait, GetReturn, DropFree, WaitAnyLock, WaitAnyWait,
                WaitAnyWake, ShutdownBroadcast, ShutdownJoined
  <2>2. UNCHANGED calls \/ DispatchEnqueue(t) \/ GetReturn(t) \/ DropFree(t) \/ WaitAnyLock(t) \/ WaitAnyWake(t)
                        \/ ShutdownJoined(t)
    BY <1>2 DEF Continue, DispatchWait, GetLock, GetWait, WaitAnyWait, ShutdownBroadcast
  <2> QED
    BY <2>1, <2>2 DEF Return, calls
<1>3. ASSUME NEW t \in Threads, SpuriousWake(t) PROVE Kept
  BY <1>3 DEF SpuriousWake, calls
<1>4. ASSUME NEW w \in Workers, WorkerStep(w) PROVE Kept
  BY <1>4 DEF WorkerStep, WorkerSeesEmpty, WorkerWait, WorkerExit, WorkerTake, JobFinish, WorkerComplete, WorkerNotify,
              WorkerAnyCast, calls
<1>5. ASSUME NEW t \in Clients, NEW W \in SUBSET Workers, RuntimeInit(t, W) PROVE Kept
  BY <1>5 DEF RuntimeInit, calls
<1>6. ASSUME NEW t \in Clients, ShutdownCall(t) PROVE Kept \/ t = u
  BY <1>6 DEF ShutdownCall, Enter, Threads
<1>7. CASE UNCHANGED vars
  BY <1>7 DEF vars, calls
<1> QED
  BY <1>1, <1>2, <1>3, <1>4, <1>5, <1>6, <1>7 DEF Next

(* What a thread sleeps on, or is about to, it does not change. *)
LEMMA SleepersArg ==
  ASSUME TypeOK, [Next]_vars, NEW u \in Threads, pc'[u] \in {"g_park", "g_asleep", "a_park", "a_asleep", "s_join"}
  PROVE  arg'[u] = arg[u]
BY OwnCall, OwnPlaces DEF Home, WaitAnyLock, Go, calls, TypeOK

-------------------------------------------------------------------------------
(* The parts of the invariant, one by one. *)

LEMMA PlacesStep == TypeOK /\ PoolDown /\ PlacesOwn /\ [Next]_vars => PlacesOwn'
<1> SUFFICES ASSUME TypeOK, PoolDown, PlacesOwn, [Next]_vars PROVE PlacesOwn'
  OBVIOUS
<1>1. ASSUME NEW t \in Clients PROVE pc'[t] \in CallPCs \cup {"app"}
  BY <1>1, Movers, OwnPlaces, Disjoint DEF PlacesOwn, CallPCs, Home, Resume, Continue
<1>2. ASSUME NEW w \in Workers PROVE pc'[w] \notin {"app", "s_cast", "s_join"}
  BY <1>2, Movers, OwnPlaces, WorkerPlaces, Disjoint DEF PlacesOwn, Home, Resume, Continue, WorkerStep
<1> QED
  BY <1>1, <1>2 DEF PlacesOwn

LEMMA ParkedStep == TypeOK /\ PoolDown /\ WorkersParked /\ [Next]_vars => WorkersParked'
<1> SUFFICES ASSUME TypeOK, PoolDown, WorkersParked, [Next]_vars, NEW w \in Workers, pc'[w] = "park"
             PROVE  qMutex' = w /\ count' = 0
  BY DEF WorkersParked
<1>0. w \in Threads /\ w # None
  BY Disjoint
<1>1. CASE pc[w] # "park"
  <2>1. WorkerSeesEmpty(w)
    BY <1>0, <1>1, Arrivals
  <2> QED
    BY <2>1 DEF WorkerSeesEmpty, queue
<1>2. CASE pc[w] = "park"
  <2>1. qMutex = w /\ count = 0 /\ ~ QFree
    BY <1>0, <1>2 DEF WorkersParked, QFree
  <2>2. UNCHANGED queue
    BY <2>1, Writers DEF DispatchEnqueue, WorkerTake
  <2>3. ASSUME NEW v \in Workers, WorkerWait(v) PROVE FALSE
    <3>1. v = w
      BY <2>1, <2>3 DEF WorkerWait, WorkersParked
    <3> QED
      BY <2>3, <3>1, WorkerPlaces
  <2>4. UNCHANGED qMutex
    BY <2>1, <2>3, Writers DEF WorkerSeesEmpty
  <2> QED
    BY <2>1, <2>2, <2>4 DEF queue
<1> QED
  BY <1>1, <1>2

LEMMA WaitersStep == TypeOK /\ PoolDown /\ WaitersParked /\ [Next]_vars => WaitersParked'
<1> SUFFICES ASSUME TypeOK, PoolDown, WaitersParked, [Next]_vars, NEW t \in Threads, pc'[t] = "a_park"
             PROVE  anyMutex' = t
  BY DEF WaitersParked
<1>1. CASE pc[t] # "a_park"
  <2>1. WaitAnyLock(t)
    BY <1>1, Arrivals
  <2> QED
    BY <2>1 DEF WaitAnyLock, Go, Home, TypeOK
<1>2. CASE pc[t] = "a_park"
  <2>1. anyMutex = t /\ ~ AnyFree
    BY <1>2, Disjoint DEF WaitersParked, AnyFree
  <2>2. ASSUME NEW u \in Threads, WaitAnyWait(u) PROVE FALSE
    <3>1. u = t
      BY <2>1, <2>2 DEF WaitAnyWait, WaitersParked
    <3> QED
      BY <2>2, <3>1, OwnPlaces
  <2> QED
    BY <2>1, <2>2, Writers DEF WaitAnyLock
<1> QED
  BY <1>1, <1>2

LEMMA GettersParkedStep == Inductive /\ PoolDown /\ TestsHold /\ [Next]_vars => GettersParked'
<1> SUFFICES ASSUME Inductive, PoolDown, TestsHold, [Next]_vars, NEW t \in Threads, pc'[t] = "g_park",
                    NEW f \in arg'[t]
             PROVE  fMutex'[f] = t /\ ~ done'[f]
  BY DEF GettersParked
<1>0. TypeOK /\ CallsConsistent /\ JobsConsistent /\ arg'[t] = arg[t] /\ f \in Futures
  BY SleepersArg DEF Inductive, HandsConsistent, TypeOK
<1>1. CASE pc[t] # "g_park"
  <2>1. GetLock(t)
    BY <1>0, <1>1, Arrivals
  <2>2. arg[t] = {f}
    BY <1>0, <2>1 DEF GetLock, CallsConsistent, Phase
  <2> QED
    BY <1>0, <2>1, <2>2 DEF GetLock, Go, TypeOK
<1>2. CASE pc[t] = "g_park"
  <2>1. fMutex[f] = t /\ ~ done[f] /\ ~ FutureFree(f)
    BY <1>0, <1>2, Disjoint DEF TestsHold, GettersParked, FutureFree
  <2>2. ASSUME NEW w \in Workers, WorkerComplete(w) PROVE job[w] # f /\ fMutex'[f] = t /\ ~ done'[f]
    BY <1>0, <2>1, <2>2 DEF WorkerComplete, TypeOK
  <2>3. ASSUME NEW w \in Workers, WorkerNotify(w) PROVE fMutex'[f] = t
    <3>1. job[w] # f
      BY <1>2, <2>1, <2>3 DEF WorkerNotify, TestsHold, NotifiersOwn
    <3> QED
      BY <1>0, <2>1, <2>3, <3>1 DEF WorkerNotify, TypeOK
  <2>4. ASSUME NEW u \in Threads, GetLock(u) PROVE fMutex'[f] = t
    BY <1>0, <2>1, <2>4 DEF GetLock, TypeOK
  <2>5. ASSUME NEW u \in Threads, GetWait(u) PROVE fMutex'[f] = t
    <3>1. u # t
      BY <1>0, <2>5, OwnPlaces
    <3>2. f \notin arg[u]
      BY <2>1, <2>5, <3>1 DEF GetWait, TestsHold, GettersParked
    <3> QED
      BY <1>0, <2>1, <2>5, <3>2 DEF GetWait, TypeOK
  <2> QED
    BY <2>1, <2>2, <2>3, <2>4, <2>5, Writers
<1> QED
  BY <1>1, <1>2

LEMMA NotifiersStep == Inductive /\ PoolDown /\ TestsHold /\ [Next]_vars => NotifiersOwn'
<1> SUFFICES ASSUME Inductive, PoolDown, TestsHold, [Next]_vars, NEW w \in Workers, pc'[w] = "notify"
             PROVE  fMutex'[job'[w]] = w
  BY DEF NotifiersOwn
<1>0. TypeOK /\ CallsConsistent /\ JobsConsistent /\ ExactlyOnce /\ w \in Threads /\ w # None
  BY Disjoint DEF Inductive, HandsConsistent
<1>1. CASE pc[w] # "notify"
  <2>1. WorkerComplete(w)
    BY <1>0, <1>1, Arrivals
  <2>2. job[w] \in Futures
    BY <1>0, <2>1 DEF WorkerComplete, JobsConsistent, Phase, TypeOK
  <2> QED
    BY <1>0, <2>1, <2>2 DEF WorkerComplete, TypeOK
<1>2. CASE pc[w] = "notify"
  <2>0. job[w] \in Futures
    BY <1>0, <1>2 DEF JobsConsistent, Phase, TypeOK
  <2>1. fMutex[job[w]] = w /\ ~ FutureFree(job[w])
    BY <1>0, <1>2 DEF TestsHold, NotifiersOwn, FutureFree
  <2>2. ASSUME NEW v \in Workers, WorkerTake(v) \/ WorkerAnyCast(v) PROVE job'[w] = job[w]
    <3>1. v # w
      BY <1>0, <1>2, <2>2, WorkerPlaces
    <3> QED
      BY <1>0, <2>2, <3>1 DEF WorkerTake, Pop, WorkerAnyCast, TypeOK
  <2>3. job'[w] = job[w]
    BY <2>2, Writers
  <2>4. ASSUME NEW v \in Workers, WorkerComplete(v) PROVE fMutex'[job[w]] = w
    BY <1>0, <2>0, <2>1, <2>4 DEF WorkerComplete, TypeOK
  <2>5. ASSUME NEW v \in Workers, WorkerNotify(v) PROVE fMutex'[job[w]] = w
    <3>1. v # w
      BY <1>0, <2>5, WorkerPlaces
    <3>2. job[v] # job[w]
      BY <1>0, <2>0, <3>1 DEF ExactlyOnce
    <3> QED
      BY <1>0, <2>0, <2>1, <2>5, <3>2 DEF WorkerNotify, TypeOK
  <2>6. ASSUME NEW u \in Threads, GetLock(u) PROVE fMutex'[job[w]] = w
    BY <1>0, <2>0, <2>1, <2>6 DEF GetLock, TypeOK
  <2>7. ASSUME NEW u \in Threads, GetWait(u) PROVE fMutex'[job[w]] = w
    <3>1. u # w
      BY <1>0, <1>2, <2>7, OwnPlaces
    <3>2. job[w] \notin arg[u]
      BY <2>1, <2>7, <3>1 DEF GetWait, TestsHold, GettersParked
    <3> QED
      BY <1>0, <2>0, <2>1, <2>7, <3>2 DEF GetWait, TypeOK
  <2> QED
    BY <2>1, <2>3, <2>4, <2>5, <2>6, <2>7, Writers
<1> QED
  BY <1>1, <1>2

LEMMA OwnedStep == TypeOK /\ PoolDown /\ PlacesOwn /\ ShutdownOwned /\ [Next]_vars => ShutdownOwned'
<1> SUFFICES ASSUME TypeOK, PoolDown, PlacesOwn, ShutdownOwned, [Next]_vars PROVE ShutdownOwned'
  OBVIOUS
<1>1. ASSUME NEW t \in Threads, ShutdownJoined(t) PROVE t \in Clients /\ initMutex = t /\ shutdown
  BY <1>1, Disjoint DEF ShutdownJoined, PlacesOwn, ShutdownOwned
<1>2. ASSUME NEW t \in Clients, pc'[t] \in {"s_cast", "s_join"} PROVE initMutex' = t /\ shutdown'
  <2>0. t \in Threads /\ t # None
    BY Disjoint
  <2>1. CASE ShutdownCall(t)
    BY <2>1 DEF ShutdownCall
  <2>2. CASE ~ ShutdownCall(t)
    <3>1. pc[t] \in {"s_cast", "s_join"}
      BY <1>2, <2>0, <2>2, Arrivals, OwnPlaces
    <3>2. initMutex = t /\ shutdown
      BY <3>1 DEF ShutdownOwned
    <3>3. ASSUME NEW u \in Threads, ShutdownJoined(u) PROVE FALSE
      BY <1>1, <1>2, <3>2, <3>3, OwnPlaces
    <3>4. ASSUME NEW u \in Clients, ShutdownCall(u) PROVE FALSE
      BY <2>0, <3>2, <3>4 DEF ShutdownCall
    <3> QED
      BY <3>2, <3>3, <3>4, Writers
  <2> QED
    BY <2>1, <2>2
<1>3. shutdown' => initMutex' # None
  <2>1. ASSUME NEW t \in Threads, ShutdownJoined(t) PROVE ~ shutdown'
    BY <2>1 DEF ShutdownJoined
  <2>2. ASSUME NEW t \in Clients, ShutdownCall(t) PROVE initMutex' # None
    BY <2>2, Disjoint DEF ShutdownCall
  <2> QED
    BY <2>1, <2>2, Writers DEF ShutdownOwned
<1> QED
  BY <1>2, <1>3 DEF ShutdownOwned

LEMMA CastStep == TypeOK /\ PoolDown /\ PlacesOwn /\ WorkersParked /\ ShutdownHeld /\ [Next]_vars => CastToCome'
<1> SUFFICES ASSUME TypeOK, PoolDown, PlacesOwn, WorkersParked, ShutdownHeld, [Next]_vars,
                    shutdown', NEW w \in Workers, pc'[w] \in {"park", "asleep"}
             PROVE  \E t \in Clients : pc'[t] = "s_cast"
  BY DEF CastToCome
<1>0. w \in Threads /\ w # None
  BY Disjoint
<1>1. CASE \E t \in Clients : ShutdownCall(t)
  BY <1>1, OwnPlaces, Disjoint
<1>2. CASE ~ \E t \in Clients : ShutdownCall(t)
  <2>1. shutdown
    BY <1>2, Writers DEF ShutdownJoined
  <2>2. pc[w] \in {"park", "asleep"}
    BY <1>0, <2>1, Arrivals, WorkerPlaces DEF WorkerSeesEmpty
  <2>3. PICK t \in Clients : pc[t] = "s_cast"
    BY <2>1, <2>2 DEF ShutdownHeld, CastToCome
  <2>4. ASSUME ShutdownBroadcast(t) PROVE FALSE
    <3>1. pc[w] = "asleep"
      BY <1>0, <2>2, <2>4 DEF ShutdownBroadcast, QFree, WorkersParked
    <3>2. pc'[w] = "lock"
      BY <1>0, <2>3, <2>4, <3>1 DEF ShutdownBroadcast, GoWaking, Sleepers, Resume, TypeOK
    <3> QED
      BY <1>0, <3>2
  <2> QED
    BY <2>3, <2>4, Departures, Disjoint
<1> QED
  BY <1>1, <1>2

(* Workers leave only a pool that shuts down and has no job queued. *)
LEMMA UpStays ==
  ASSUME TypeOK, PoolDown, [Next]_vars, Up # {}
  PROVE  Up' # {} \/ (count = 0 /\ shutdown /\ shutdown')
<1>1. PICK w \in Workers : pc[w] # "down"
  BY DEF Up
<1>2. ASSUME WorkerExit(w) PROVE count = 0 /\ shutdown /\ shutdown'
  BY <1>2 DEF WorkerExit, MustExit, pool
<1>3. pc'[w] # "down" \/ WorkerExit(w)
  BY <1>1, Arrivals, Disjoint
<1> QED
  BY <1>2, <1>3 DEF Up

LEMMA PoolUpStep == TypeOK /\ PoolDown /\ ShutdownHeld /\ [Next]_vars => PoolUp'
<1> SUFFICES ASSUME TypeOK, PoolDown, ShutdownHeld, [Next]_vars, ~ shutdown', nworkers' > 0 PROVE Up' # {}
  BY DEF PoolUp
<1>1. CASE \E t \in Clients : \E W \in SUBSET Workers : RuntimeInit(t, W)
  <2>1. PICK t \in Clients, W \in SUBSET Workers : RuntimeInit(t, W)
    BY <1>1
  <2>2. W # {}
    BY <2>1, FS_EmptySet DEF RuntimeInit
  <2> QED
    BY <2>1, <2>2, Disjoint DEF RuntimeInit, Up
<1>2. CASE ~ \E t \in Clients : \E W \in SUBSET Workers : RuntimeInit(t, W)
  <2>1. ~ \E t \in Threads : ShutdownJoined(t)
    BY DEF ShutdownJoined
  <2>2. UNCHANGED nworkers
    BY <1>2, <2>1, Writers
  <2>3. ~ shutdown
    BY <2>1, Writers DEF ShutdownCall
  <2> QED
    BY <2>2, <2>3, UpStays DEF ShutdownHeld, PoolUp
<1> QED
  BY <1>1, <1>2

-------------------------------------------------------------------------------
(* No sleeper is forgotten. *)

LEMMA GettersStep == Inductive /\ PoolDown /\ TestsHold /\ GettersWoken /\ [Next]_vars => GettersWoken'
<1> SUFFICES ASSUME Inductive, PoolDown, TestsHold, GettersWoken, [Next]_vars,
                    NEW t \in Threads, pc'[t] = "g_asleep", NEW f \in arg'[t], done'[f]
             PROVE  \E w \in Workers : pc'[w] = "notify" /\ job'[w] = f
  BY DEF GettersWoken
<1>0. TypeOK /\ arg'[t] = arg[t] /\ f \in Futures
  BY SleepersArg DEF Inductive, TypeOK
<1>1. pc[t] = "g_asleep"
  <2>1. ASSUME GetWait(t) PROVE FALSE
    BY <1>0, <2>1 DEF GetWait, TestsHold, GettersParked
  <2> QED
    BY <1>0, <2>1, Arrivals
<1>2. CASE done[f]
  <2>1. PICK w \in Workers : pc[w] = "notify" /\ job[w] = f
    BY <1>0, <1>1, <1>2 DEF GettersWoken
  <2>2. ASSUME WorkerNotify(w) PROVE FALSE
    <3>1. t \in Sleepers("g_asleep") /\ job[w] \in arg[t] /\ w # t
      BY <1>0, <1>1, <2>1 DEF Sleepers
    <3>2. pc'[t] = "g_lock"
      BY <1>0, <1>1, <2>2, <3>1 DEF WorkerNotify, GoWaking, Resume
    <3> QED
      BY <3>2
  <2>3. pc'[w] = "notify"
    BY <1>0, <2>1, <2>2, Departures, Disjoint
  <2>4. ASSUME NEW v \in Workers, WorkerTake(v) \/ WorkerAnyCast(v) PROVE job'[w] = job[w]
    <3>1. v # w
      BY <1>0, <2>1, <2>4, WorkerPlaces
    <3> QED
      BY <1>0, <2>4, <3>1 DEF WorkerTake, Pop, WorkerAnyCast, TypeOK
  <2> QED
    BY <2>1, <2>3, <2>4, Writers
<1>3. CASE ~ done[f]
  <2>1. PICK w \in Workers : WorkerComplete(w)
    BY <1>3, Writers
  <2>2. job[w] = f
    BY <1>0, <1>3, <2>1 DEF WorkerComplete, TypeOK
  <2> QED
    BY <1>0, <2>1, <2>2, WorkerPlaces DEF WorkerComplete
<1> QED
  BY <1>2, <1>3

LEMMA AnyWaitersStep == Inductive /\ PoolDown /\ TestsHold /\ AnyWaitersWoken /\ [Next]_vars => AnyWaitersWoken'
<1> SUFFICES ASSUME Inductive, PoolDown, TestsHold, AnyWaitersWoken, [Next]_vars,
                    NEW t \in Threads, pc'[t] \in {"a_park", "a_asleep"}, NEW f \in arg'[t], done'[f]
             PROVE  \E w \in Workers : pc'[w] \in {"notify", "anycast"} /\ job'[w] = f
  BY DEF AnyWaitersWoken
<1>0. TypeOK /\ arg'[t] = arg[t] /\ f \in Futures
  BY SleepersArg DEF Inductive, TypeOK
<1>1. CASE pc[t] \notin {"a_park", "a_asleep"}
  <2>1. WaitAnyLock(t) /\ pc'[t] = "a_park"
    BY <1>0, <1>1, Arrivals, OwnPlaces
  <2>2. ~ AnyDone(t) /\ done' = done
    BY <1>0, <2>1 DEF WaitAnyLock, Go, Home, TypeOK
  <2> QED
    BY <1>0, <2>2 DEF AnyDone
<1>2. CASE pc[t] \in {"a_park", "a_asleep"} /\ done[f]
  <2>1. PICK w \in Workers : pc[w] \in {"notify", "anycast"} /\ job[w] = f
    BY <1>0, <1>2 DEF AnyWaitersWoken
  <2>2. ASSUME WorkerAnyCast(w) PROVE FALSE
    <3>1. pc[t] = "a_asleep"
      BY <1>2, <2>2, Disjoint DEF WorkerAnyCast, AnyFree, TestsHold, WaitersParked
    <3>2. pc'[t] = "a_wake"
      BY <1>0, <2>1, <2>2, <3>1 DEF WorkerAnyCast, GoWaking, Sleepers, Resume
    <3> QED
      BY <3>2
  <2>3. pc'[w] \in {"notify", "anycast"}
    BY <1>0, <2>1, <2>2, Departures, WorkerPlaces, Disjoint
  <2>4. ASSUME NEW v \in Workers, WorkerTake(v) \/ WorkerAnyCast(v) PROVE job'[w] = job[w]
    <3>1. v # w
      BY <1>0, <2>1, <2>2, <2>4, WorkerPlaces
    <3> QED
      BY <1>0, <2>4, <3>1 DEF WorkerTake, Pop, WorkerAnyCast, TypeOK
  <2> QED
    BY <2>1, <2>3, <2>4, Writers
<1>3. CASE ~ done[f]
  <2>1. PICK w \in Workers : WorkerComplete(w)
    BY <1>3, Writers
  <2>2. job[w] = f
    BY <1>0, <1>3, <2>1 DEF WorkerComplete, TypeOK
  <2> QED
    BY <1>0, <2>1, <2>2, WorkerPlaces DEF WorkerComplete
<1> QED
  BY <1>1, <1>2, <1>3

(* The count of the threads that are awake, as one joins or leaves them. *)
LEMMA AwakeCount ==
  /\ IsFiniteSet(Threads)
  /\ \A S \in SUBSET Threads : Cardinality(S) \in Nat
  /\ \A S \in SUBSET Threads : \A t \in Threads \ S : Cardinality(S \cup {t}) = Cardinality(S) + 1
  /\ \A S \in SUBSET Threads : \A t \in S : Cardinality(S \ {t}) = Cardinality(S) - 1
  /\ \A S, T \in SUBSET Threads : S \subseteq T => Cardinality(S) <= Cardinality(T)
<1>1. IsFiniteSet(Threads)
  BY PoolAssumption, FS_Union DEF Threads
<1>2. \A S \in SUBSET Threads : IsFiniteSet(S)
  BY <1>1, FS_Subset
<1> QED
  BY <1>1, <1>2, FS_CardinalityType, FS_AddElement, FS_RemoveElement, FS_Subset

LEMMA DispatchersStep == TypeOK /\ PoolDown /\ DispatchersWoken /\ [Next]_vars => DispatchersWoken'
<1> SUFFICES ASSUME TypeOK, PoolDown, DispatchersWoken, [Next]_vars PROVE DispatchersWoken'
  OBVIOUS
<1> DEFINE D == Sleepers("d_lock")
           S == Sleepers("d_asleep")
<1>0. /\ D \in SUBSET Threads /\ S \in SUBSET Threads /\ D' \in SUBSET Threads
      /\ count \in Nat /\ Cap \in Nat
      /\ Cardinality(D) \in Nat /\ Cardinality(D') \in Nat
      /\ S # {} => count + Cardinality(D) >= Cap
  BY PoolAssumption, AwakeCount DEF Sleepers, DispatchersWoken, TypeOK
<1>1. SUFFICES ASSUME S' # {} PROVE count' + Cardinality(D') >= Cap
  BY DEF DispatchersWoken
<1>2. CASE \E t \in Threads : DispatchWait(t)
  <2>1. count' = Cap
    BY <1>2 DEF DispatchWait, Full, queue
  <2> QED
    BY <1>0, <2>1
<1>3. ASSUME NEW t \in Threads, DispatchEnqueue(t) PROVE count' + Cardinality(D') >= Cap
  <2>1. PICK W \in SUBSET Sleepers("asleep") : GoWaking(t, Home(t), W)
    BY <1>3, OneOfSubset DEF DispatchEnqueue, Signalled
  <2>2. pc'[t] = Home(t) /\ \A u \in Threads \ {t} : pc'[u] = IF u \in W THEN "lock" ELSE pc[u]
    BY <2>1 DEF GoWaking, Sleepers, Resume
  <2>3. t \in D /\ D' = D \ {t} /\ S' = S
    BY <1>3, <2>2 DEF DispatchEnqueue, Sleepers, Home
  <2>4. Cardinality(D') = Cardinality(D) - 1 /\ count' = count + 1
    BY <1>0, <1>3, <2>3, AwakeCount DEF DispatchEnqueue
  <2> QED
    BY <1>0, <1>1, <2>3, <2>4
<1>4. ASSUME NEW w \in Workers, WorkerTake(w) PROVE count' + Cardinality(D') >= Cap
  <2>1. PICK W \in OneOf(S) : GoWaking(w, "run", W)
    BY <1>4 DEF WorkerTake
  <2>2. w \in Threads /\ pc[w] = "lock" /\ count' = count - 1
    BY <1>4, Disjoint DEF WorkerTake, Pop
  <2>3. \A u \in Threads : pc'[u] = IF u = w THEN "run" ELSE IF u \in W THEN "d_lock" ELSE pc[u]
    BY <2>1 DEF GoWaking, OneOf, Sleepers, Resume
  <2>4. S # {}
    BY <1>1, <2>3 DEF Sleepers
  <2>5. PICK v \in S : W = {v}
    BY <2>1, <2>4 DEF OneOf
  <2>6. v \in Threads \ D /\ D' = D \cup {v}
    BY <2>2, <2>3, <2>5 DEF Sleepers
  <2>7. Cardinality(D') = Cardinality(D) + 1
    BY <1>0, <2>6, AwakeCount
  <2> QED
    BY <1>0, <2>2, <2>4, <2>7
<1>5. CASE ~ \E t \in Threads : DispatchWait(t) \/ DispatchEnqueue(t)
  <2>1. CASE \E w \in Workers : WorkerTake(w)
    BY <1>4, <2>1
  <2>2. CASE ~ \E w \in Workers : WorkerTake(w)
    <3>1. count' = count
      BY <1>5, <2>2, Writers DEF queue
    <3>2. D \subseteq D'
      BY <1>5, Departures DEF Sleepers
    <3>3. S # {}
      BY <1>1, <1>5, Arrivals DEF Sleepers
    <3> QED
      BY <1>0, <3>1, <3>2, <3>3, AwakeCount
  <2> QED
    BY <2>1, <2>2
<1> QED
  BY <1>2, <1>3, <1>5

(* For every job that is queued while a worker sleeps, a worker is awake: the      *)
(* dispatcher wakes one for each job, and who is awake leaves only with a job or    *)
(* when there is none.                                                              *)
LEMMA WorkersStep == TypeOK /\ PoolDown /\ PlacesOwn /\ TestsHold /\ ShutdownHeld /\ WorkersAwake /\ [Next]_vars => WorkersAwake'
<1> SUFFICES ASSUME TypeOK, PoolDown, PlacesOwn, TestsHold, ShutdownHeld, WorkersAwake, [Next]_vars PROVE WorkersAwake'
  OBVIOUS
<1> DEFINE L == Sleepers("lock")
           S == Sleepers("asleep")
<1>0. /\ L \in SUBSET Threads /\ S \in SUBSET Threads /\ L' \in SUBSET Threads
      /\ count \in Nat
      /\ Cardinality(L) \in Nat /\ Cardinality(L') \in Nat
      /\ S # {} => count <= Cardinality(L)
  BY AwakeCount DEF Sleepers, WorkersAwake, TypeOK
<1>1. S' # {} => count' <= Cardinality(L')
  <2> SUFFICES ASSUME S' # {} PROVE count' <= Cardinality(L')
    OBVIOUS
  <2>1. CASE count = 0 /\ UNCHANGED queue
    BY <1>0, <2>1 DEF queue
  <2>2. ASSUME NEW t \in Threads, DispatchEnqueue(t) PROVE count' <= Cardinality(L')
    <3>1. PICK W \in OneOf(S) : GoWaking(t, Home(t), W)
      BY <2>2 DEF DispatchEnqueue, Signalled
    <3>2. pc[t] = "d_lock" /\ count' = count + 1
      BY <2>2 DEF DispatchEnqueue
    <3>3. \A u \in Threads : pc'[u] = IF u = t THEN Home(t) ELSE IF u \in W THEN "lock" ELSE pc[u]
      BY <3>1 DEF GoWaking, OneOf, Sleepers, Resume
    <3>4. S # {}
      BY <3>3 DEF Sleepers, Home
    <3>5. PICK v \in S : W = {v}
      BY <3>1, <3>4 DEF OneOf
    <3>6. v \in Threads \ L /\ L' = L \cup {v}
      BY <3>2, <3>3, <3>5 DEF Sleepers, Home
    <3>7. Cardinality(L') = Cardinality(L) + 1
      BY <1>0, <3>6, AwakeCount
    <3> QED
      BY <1>0, <3>2, <3>4, <3>7
  <2>3. ASSUME NEW w \in Workers, WorkerTake(w) PROVE count' <= Cardinality(L')
    <3>1. PICK W \in SUBSET Sleepers("d_asleep") : GoWaking(w, "run", W)
      BY <2>3, OneOfSubset DEF WorkerTake
    <3>2. w \in Threads /\ pc[w] = "lock" /\ count' = count - 1
      BY <2>3, Disjoint DEF WorkerTake, Pop
    <3>3. \A u \in Threads : pc'[u] = IF u = w THEN "run" ELSE IF u \in W THEN "d_lock" ELSE pc[u]
      BY <3>1 DEF GoWaking, Sleepers, Resume
    <3>4. w \in L /\ L' = L \ {w} /\ S' = S
      BY <3>2, <3>3 DEF Sleepers
    <3>5. Cardinality(L') = Cardinality(L) - 1
      BY <1>0, <3>4, AwakeCount
    <3> QED
      BY <1>0, <3>2, <3>4, <3>5
  <2>4. CASE /\ ~ (count = 0 /\ UNCHANGED queue)
             /\ ~ (\E t \in Threads : DispatchEnqueue(t)) /\ ~ (\E w \in Workers : WorkerTake(w))
    <3>1. UNCHANGED queue /\ count # 0
      BY <2>4, Writers
    <3>2. \A w \in Workers : ~ WorkerSeesEmpty(w) /\ ~ WorkerExit(w) /\ ~ WorkerWait(w)
      BY <3>1 DEF WorkerSeesEmpty, WorkerExit, MustExit, WorkerWait, TestsHold, WorkersParked
    <3>3. L \subseteq L'
      BY <2>4, <3>2, Departures DEF Sleepers
    <3>4. S # {}
      BY <3>2, Arrivals DEF Sleepers
    <3> QED
      BY <1>0, <3>1, <3>3, <3>4, AwakeCount DEF queue
  <2> QED
    BY <2>1, <2>2, <2>3, <2>4
<1>2. CastToCome'
  BY CastStep DEF TestsHold
<1> QED
  BY <1>1, <1>2 DEF WorkersAwake, CastToCome

-------------------------------------------------------------------------------
(* A shutdown drains the queue. *)

(* A queued job stays queued until a worker takes it. *)
LEMMA QueuedMoves ==
  ASSUME Inductive, [Next]_vars, NEW f \in Futures, Queued(f)
  PROVE  Queued(f)' \/ Held(f)'
<1> USE DEF Inductive, TypeOK
<1>1. PICK i \in Occupied : slots[i] = f
  BY DEF Queued
<1>2. CASE UNCHANGED queue
  BY <1>2 DEF queue, Queued, Occupied
<1>3. ASSUME NEW t \in Threads, DispatchEnqueue(t) PROVE Queued(f)'
  <2>0. PICK g \in arg[t] : slots' = [slots EXCEPT ![tail] = g]
    BY <1>3 DEF DispatchEnqueue
  <2>1. head' = head /\ count' = count + 1 /\ count \in 0 .. Cap - 1
    BY <1>3, PoolAssumption DEF DispatchEnqueue, Full
  <2>2. tail \notin Occupied /\ Occupied' = Occupied \cup {tail}
    BY <2>1, RingPut DEF RingConsistent, Occupied
  <2>3. i \in Slot
    BY <1>1 DEF Occupied, Window
  <2> QED
    BY <1>1, <2>0, <2>2, <2>3 DEF Queued
<1>4. ASSUME NEW w \in Workers, WorkerTake(w) PROVE Queued(f)' \/ Held(f)'
  <2>1. /\ slots' = slots /\ head' = NextSlot(head) /\ count' = count - 1 /\ count \in 1 .. Cap
        /\ job'[w] = slots[head]
    BY <1>4 DEF WorkerTake, Pop
  <2>2. Occupied' = Occupied \ {head}
    BY <2>1, RingTake DEF Occupied
  <2> QED
    BY <1>1, <2>1, <2>2 DEF Queued, Held
<1> QED
  BY <1>2, <1>3, <1>4, Writers

(* A held job stays held until it is done. *)
LEMMA HeldMoves ==
  ASSUME Inductive, [Next]_vars, NEW f \in Futures, Held(f)
  PROVE  Held(f)' \/ done[f]
<1> USE DEF Inductive, TypeOK
<1>1. PICK w \in Workers : job[w] = f
  BY DEF Held
<1>2. w \in Threads /\ f # None /\ JobsConsistent
  BY Disjoint DEF HandsConsistent
<1>3. ASSUME NEW v \in Workers, WorkerTake(v) PROVE job'[w] = f
  <2>1. v # w
    BY <1>1, <1>2, <1>3 DEF WorkerTake, JobsConsistent, Phase
  <2> QED
    BY <1>1, <1>3, <2>1 DEF WorkerTake, Pop
<1>4. ASSUME NEW v \in Workers, WorkerAnyCast(v) PROVE job'[w] = f \/ done[f]
  BY <1>1, <1>2, <1>4 DEF WorkerAnyCast, JobsConsistent, Phase
<1> QED
  BY <1>1, <1>3, <1>4, Writers DEF Held

(* A dispatcher keeps its job until it has put it in the queue. *)
LEMMA DispatchingMoves ==
  ASSUME Inductive, [Next]_vars, NEW f \in Futures, Dispatching(f)
  PROVE  Dispatching(f)' \/ Queued(f)'
<1> USE DEF Inductive, TypeOK
<1>1. PICK t \in Threads : call[t] = "dispatch" /\ f \in arg[t]
  BY DEF Dispatching
<1>2. CallsConsistent /\ Phase(pc[t]) = "dispatching"
  BY <1>1 DEF HandsConsistent, CallsConsistent
<1>3. pc[t] \in {"d_lock", "d_asleep"} /\ arg[t] = {f}
  <2>1. pc[t] \in {"d_lock", "d_asleep"}
    BY <1>2 DEF Phase
  <2> QED
    BY <1>1, <1>2, <2>1 DEF CallsConsistent
<1>4. CASE call'[t] = call[t] /\ arg'[t] = arg[t]
  BY <1>1, <1>4 DEF Dispatching
<1>5. ASSUME DispatchEnqueue(t) PROVE Queued(f)'
  <2>1. /\ head' = head /\ count' = count + 1 /\ count \in 0 .. Cap - 1
        /\ slots' = [slots EXCEPT ![tail] = f]
    BY <1>3, <1>5, PoolAssumption DEF DispatchEnqueue, Full
  <2>2. tail \in Slot /\ Occupied' = Occupied \cup {tail}
    BY <2>1, RingPut DEF RingConsistent, Occupied
  <2> QED
    BY <2>1, <2>2 DEF Queued
<1> QED
  BY <1>3, <1>4, <1>5, OwnCall, OwnPlaces DEF Home

(* No future comes into a dispatcher's hands but a new one. *)
LEMMA DispatchingNew ==
  ASSUME Inductive, [Next]_vars, NEW f \in Futures, alloc[f] # "none", Dispatching(f)'
  PROVE  Dispatching(f)
<1> USE DEF Inductive, TypeOK
<1>1. PICK t \in Threads : call'[t] = "dispatch" /\ f \in arg'[t]
  BY DEF Dispatching
<1>2. ASSUME BeginCall(t) PROVE FALSE
  BY <1>1, <1>2 DEF BeginCall, DispatchCall, GetCall, WaitAnyCall, Enter
<1>3. ASSUME DispatchEnqueue(t) \/ GetReturn(t) \/ DropFree(t) \/ ShutdownJoined(t) PROVE FALSE
  BY <1>1, <1>3 DEF DispatchEnqueue, GetReturn, DropFree, ShutdownJoined, Return
<1>4. ASSUME WaitAnyLock(t) \/ WaitAnyWake(t) PROVE Dispatching(f)
  BY <1>1, <1>4 DEF WaitAnyLock, WaitAnyWake, Return, calls, Dispatching
<1>5. ASSUME ShutdownCall(t) PROVE FALSE
  BY <1>1, <1>5 DEF ShutdownCall, Enter
<1> QED
  BY <1>1, <1>2, <1>3, <1>4, <1>5, OwnCall DEF Dispatching

(* Done stays done, memory once allocated is not made new again, and what is new *)
(* was dispatched just now.                                                      *)
LEMMA Monotone ==
  ASSUME Inductive, [Next]_vars, NEW f \in Futures
  PROVE  /\ done[f] => done'[f]
         /\ alloc[f] # "none" => alloc'[f] # "none"
         /\ alloc'[f] # "none" => alloc[f] # "none" \/ done[f] \/ \E t \in Threads : DispatchCall(t, f)
<1> USE DEF Inductive, TypeOK
<1>1. done[f] => done'[f]
  BY Writers DEF WorkerComplete
<1>2. alloc[f] # "none" => alloc'[f] # "none"
  BY Writers DEF DropFree, DispatchCall
<1>3. ASSUME NEW t \in Threads, DropFree(t), alloc'[f] # alloc[f] PROVE done[f]
  BY <1>3 DEF DropFree, HandsConsistent, CallsConsistent, Phase
<1>4. ASSUME NEW t \in Threads, NEW g \in Futures, DispatchCall(t, g), alloc'[f] # alloc[f] PROVE f = g
  BY <1>4 DEF DispatchCall
<1> QED
  BY <1>1, <1>2, <1>3, <1>4, Writers

LEMMA UndoneStep == Inductive /\ PoolDown /\ Undone /\ [Next]_vars => Undone'
<1> SUFFICES ASSUME Inductive, PoolDown, Undone, [Next]_vars, NEW f \in Futures, alloc'[f] # "none", ~ done'[f]
             PROVE  Queued(f)' \/ Held(f)' \/ Dispatching(f)'
  BY DEF Undone
<1>0. TypeOK /\ ~ done[f]
  BY Monotone DEF Inductive
<1>1. ASSUME NEW t \in Threads, DispatchCall(t, f) PROVE Dispatching(f)'
  BY <1>0, <1>1 DEF DispatchCall, Enter, Dispatching, TypeOK
<1>2. CASE alloc[f] # "none"
  <2>1. Queued(f) \/ Held(f) \/ Dispatching(f)
    BY <1>0, <1>2 DEF Undone
  <2> QED
    BY <1>0, <2>1, QueuedMoves, HeldMoves, DispatchingMoves
<1> QED
  BY <1>0, <1>1, <1>2, Monotone

LEMMA DrainedStep == Inductive /\ PoolDown /\ ShutdownHeld /\ Undone /\ Drained /\ [Next]_vars => Drained'
<1> SUFFICES ASSUME Inductive, PoolDown, ShutdownHeld, Undone, Drained, [Next]_vars,
                    NEW t \in Clients, pc'[t] \in {"s_cast", "s_join"}, NEW f \in arg'[t]
             PROVE  /\ alloc'[f] # "none" /\ ~ Dispatching(f)'
                    /\ done'[f] \/ Held(f)' \/ (Queued(f)' /\ Up' # {})
  BY DEF Drained
<1>0. TypeOK /\ t \in Threads
  BY Disjoint DEF Inductive
<1>1. CASE ShutdownCall(t)
  <2>1. f \in Futures /\ alloc[f] = "live" /\ ~ Dispatching(f)
    BY <1>0, <1>1 DEF ShutdownCall, Enter, Uses, Dispatching, TypeOK
  <2>2. done[f] \/ Queued(f) \/ Held(f)
    BY <2>1 DEF Undone
  <2>3. Up # {} /\ ~ shutdown
    BY <1>1 DEF ShutdownCall, ShutdownHeld, ShutdownOwned, PoolUp, TypeOK
  <2>4. Up' # {}
    BY <1>0, <2>3, UpStays
  <2> QED
    BY <1>0, <2>1, <2>2, <2>4, Monotone, DispatchingNew, QueuedMoves, HeldMoves
<1>2. CASE ~ ShutdownCall(t)
  <2>1. pc[t] \in {"s_cast", "s_join"}
    BY <1>0, <1>2, Arrivals, OwnPlaces
  <2>2. arg'[t] = arg[t]
    BY <1>0, <1>2, <2>1, OwnCall, OwnPlaces DEF Home
  <2>3. /\ f \in Futures /\ alloc[f] # "none" /\ ~ Dispatching(f)
        /\ done[f] \/ Held(f) \/ (Queued(f) /\ Up # {})
    BY <1>0, <2>1, <2>2 DEF Drained, TypeOK
  <2>4. Queued(f) /\ Up # {} => Up' # {}
    <3>1. Queued(f) => count # 0
      BY PoolAssumption DEF Queued, Occupied, Window, Slot, Inductive, TypeOK
    <3> QED
      BY <1>0, <3>1, UpStays
  <2> QED
    BY <1>0, <2>3, <2>4, Monotone, DispatchingNew, QueuedMoves, HeldMoves
<1> QED
  BY <1>1, <1>2

-------------------------------------------------------------------------------
(* At the start nobody is in a call, and no future exists. *)
LEMMA WakeupsInit == Init => Wakeups
<1> SUFFICES ASSUME Init PROVE Wakeups
  OBVIOUS
<1>1. PICK W \in SUBSET Workers :
        /\ nworkers = Cardinality(W)
        /\ pc = [t \in Threads |-> IF t \in W THEN "lock" ELSE IF t \in Workers THEN "down" ELSE "app"]
  BY DEF Init
<1>2. /\ \A t \in Clients : pc[t] = "app"
      /\ \A w \in Workers : pc[w] \in {"lock", "down"}
      /\ \A t \in Threads : pc[t] \in {"lock", "down", "app"}
  BY <1>1, Disjoint
<1>3. PlacesOwn /\ TestsHold
  BY <1>2 DEF PlacesOwn, TestsHold, WorkersParked, WaitersParked, GettersParked, NotifiersOwn
<1>4. ShutdownHeld
  <2>1. nworkers > 0 => Up # {}
    <3>1. nworkers > 0 => W # {}
      BY <1>1, FS_EmptySet
    <3> QED
      BY <1>1, <3>1, Disjoint DEF Up
  <2> QED
    BY <1>2, <2>1 DEF Init, ShutdownHeld, ShutdownOwned, CastToCome, PoolUp
<1>5. SleepersWoken
  BY <1>2 DEF Init, SleepersWoken, WorkersAwake, GettersWoken, AnyWaitersWoken, DispatchersWoken, Sleepers
<1>6. Undone /\ Drained
  BY <1>2 DEF Init, Undone, Drained
<1> QED
  BY <1>3, <1>4, <1>5, <1>6 DEF Wakeups

LEMMA WakeupsStep == Inductive /\ PoolDown /\ Wakeups /\ [Next]_vars => Wakeups'
<1> SUFFICES ASSUME Inductive, PoolDown, Wakeups, [Next]_vars PROVE Wakeups'
  OBVIOUS
<1>0. /\ TypeOK /\ PlacesOwn /\ TestsHold /\ ShutdownHeld /\ SleepersWoken /\ Undone /\ Drained
      /\ WorkersParked /\ WaitersParked /\ GettersParked /\ NotifiersOwn /\ ShutdownOwned
      /\ WorkersAwake /\ GettersWoken /\ AnyWaitersWoken /\ DispatchersWoken
  BY DEF Inductive, Wakeups, TestsHold, ShutdownHeld, SleepersWoken
<1>1. PlacesOwn'
  BY <1>0, PlacesStep
<1>2. TestsHold'
  BY <1>0, ParkedStep, WaitersStep, GettersParkedStep, NotifiersStep DEF TestsHold
<1>3. ShutdownHeld'
  BY <1>0, OwnedStep, CastStep, PoolUpStep DEF ShutdownHeld
<1>4. SleepersWoken'
  BY <1>0, WorkersStep, GettersStep, AnyWaitersStep, DispatchersStep DEF SleepersWoken
<1>5. Undone' /\ Drained'
  BY <1>0, UndoneStep, DrainedStep
<1> QED
  BY <1>1, <1>2, <1>3, <1>4, <1>5 DEF Wakeups

LEMMA WakeupsHold == Spec => [](Inductive /\ PoolDown /\ Wakeups)
BY InvariantHolds, WakeupsInit, WakeupsStep, PTL DEF Spec

(* No wakeup is lost: for any number of threads and jobs and any capacity, a worker *)
(* is awake for every queued job, or none sleeps; and so with dispatchers and slots; *)
(* who sleeps for a future that is done has a worker that will still wake him.      *)
THEOREM NoWakeupLost == Spec => []SleepersWoken
<1>1. Wakeups => SleepersWoken
  BY DEF Wakeups
<1> QED
  BY <1>1, WakeupsHold, PTL

(* When a shutdown has joined the last worker, every job that was dispatched before *)
(* it is done.                                                                      *)
THEOREM ShutdownDrainsQueue == Spec => []ShutdownDrains
<1>1. Inductive /\ Wakeups => ShutdownDrains
  <2> SUFFICES ASSUME Inductive, Wakeups, NEW t \in Clients, pc[t] = "s_join", Up = {}, NEW f \in arg[t]
               PROVE  done[f]
    BY DEF ShutdownDrains
  <2>1. done[f] \/ Held(f)
    BY DEF Wakeups, Drained
  <2>2. f \in Futures /\ f # None
    BY Disjoint DEF Inductive, TypeOK
  <2>3. \A w \in Workers : job[w] = None
    BY DEF Inductive, HandsConsistent, JobsConsistent, Up, Phase
  <2> QED
    BY <2>1, <2>2, <2>3 DEF Held
<1> QED
  BY <1>1, WakeupsHold, PTL

-------------------------------------------------------------------------------
(* Every step of the pool is one of FuturePool's, or changes nothing its callers *)
(* see.                                                                          *)

(* Only the future of a job that is done is freed. *)
FreedDone == \A f \in Futures : alloc[f] = "freed" => done[f]

LEMMA FreedStep == Inductive /\ FreedDone /\ [Next]_vars => FreedDone'
<1> SUFFICES ASSUME Inductive, FreedDone, [Next]_vars, NEW f \in Futures, alloc'[f] = "freed" PROVE done'[f]
  BY DEF FreedDone
<1> USE DEF Inductive, TypeOK
<1>1. ASSUME alloc'[f] # alloc[f] PROVE done[f]
  <2>1. PICK t \in Threads : DropFree(t)
    BY <1>1, Writers DEF DispatchCall
  <2> QED
    BY <1>1, <2>1 DEF DropFree, HandsConsistent, CallsConsistent, Phase
<1> QED
  BY <1>1, Monotone DEF FreedDone

LEMMA FreedHolds == Spec => [](Inductive /\ PoolDown /\ FreedDone)
<1>1. Init => FreedDone
  BY DEF Init, FreedDone
<1> QED
  BY <1>1, InvariantHolds, FreedStep, PTL DEF Spec

(* What the stage of a future says about it, and the other way round. *)
LEMMA StageMeaning ==
  ASSUME Inductive, FreedDone, NEW f \in Futures
  PROVE  /\ Stage[f] = "freed"   <=> alloc[f] = "freed"
         /\ Stage[f] = "done"    <=> alloc[f] = "live" /\ done[f]
         /\ Stage[f] = "running" <=> Held(f) /\ ~ done[f]
         /\ Stage[f] = "pending" <=> alloc[f] = "live" /\ ~ Held(f) /\ ~ done[f]
         /\ alloc[f] = "none"    => ~ done[f] /\ ~ Held(f)
<1>1. alloc[f] \in {"none", "live", "freed"} /\ done[f] \in BOOLEAN
  BY DEF Inductive, TypeOK
<1>2. alloc[f] = "none" => ~ done[f] /\ ~ Held(f)
  BY DEF Inductive, HandsConsistent, PlacesConsistent, ExactlyOnce
<1>3. alloc[f] = "freed" => done[f]
  BY DEF FreedDone
<1> QED
  BY <1>1, <1>2, <1>3 DEF Stage

(* A step that changes one future's stage advances that future. *)
LEMMA StageAdvances ==
  ASSUME NEW f \in Futures, NEW from, NEW to, Stage[f] = from, Stage'[f] = to,
         \A g \in Futures \ {f} : Stage'[g] = Stage[g]
  PROVE  Abstract!Advance(f, from, to)
<1>1. Stage' = [Stage EXCEPT ![f] = to]
  BY DEF Stage
<1> QED
  BY <1>1 DEF Abstract!Advance

(* A new job is pending. *)
LEMMA DispatchView ==
  ASSUME Inductive, FreedDone, FreedDone', Inductive', NEW t \in Threads, NEW f \in Futures, DispatchCall(t, f)
  PROVE  Abstract!Dispatch(f)
<1> USE DEF Inductive, TypeOK
<1>1. /\ alloc[f] = "none" /\ alloc'[f] = "live" /\ \A g \in Futures \ {f} : alloc'[g] = alloc[g]
      /\ UNCHANGED <<job, done>>
  BY DEF DispatchCall
<1>2. \A g \in Futures : Held(g)' = Held(g)
  BY <1>1 DEF Held
<1>3. ~ done[f] /\ ~ Held(f)
  BY <1>1, StageMeaning
<1>4. Stage[f] = "none" /\ Stage'[f] = "pending" /\ \A g \in Futures \ {f} : Stage'[g] = Stage[g]
  BY <1>1, <1>2, <1>3 DEF Stage
<1> QED
  BY <1>4, StageAdvances DEF Abstract!Dispatch

(* The jobs that run are in the hands of different workers. *)
LEMMA RunningBound ==
  ASSUME Inductive, FreedDone, NEW w \in Workers, job[w] = None
  PROVE  Cardinality(Abstract!Running) < Cardinality(Workers)
<1> USE DEF Inductive, TypeOK
<1> DEFINE R == Abstract!Running
           Others == Workers \ {w}
           holder == [f \in R |-> CHOOSE v \in Others : job[v] = f]
<1>1. IsFiniteSet(Others) /\ Cardinality(Others) = Cardinality(Workers) - 1 /\ Cardinality(Workers) \in Nat
  BY PoolAssumption, FS_RemoveElement, FS_CardinalityType
<1>2. \A f \in R : f \in Futures /\ \E v \in Others : job[v] = f
  <2> SUFFICES ASSUME NEW f \in R PROVE f \in Futures /\ \E v \in Others : job[v] = f
    OBVIOUS
  <2>1. f \in Futures /\ Held(f)
    BY StageMeaning DEF Abstract!Running
  <2> QED
    BY <2>1, Disjoint DEF Held
<1>3. \A f \in R : holder[f] \in Others /\ job[holder[f]] = f
  BY <1>2
<1>4. holder \in Injection(R, Others)
  BY <1>3, Fun_IsInj
<1>5. Cardinality(R) <= Cardinality(Others)
  BY <1>1, <1>4, FS_Injection
<1>6. Cardinality(R) \in Nat
  <2>1. IsFiniteSet(R)
    BY <1>1, <1>4, FS_Injection
  <2> QED
    BY <2>1, FS_CardinalityType
<1> QED
  BY <1>1, <1>5, <1>6

(* Taking a job starts it. *)
LEMMA TakeView ==
  ASSUME Inductive, FreedDone, Inductive', FreedDone', NEW w \in Workers, WorkerTake(w)
  PROVE  \E f \in Futures : Abstract!Start(f)
<1> USE DEF Inductive, TypeOK
<1>0. head \in Occupied /\ slots[head] \in Futures
  <2>1. count \in 1 .. Cap
    BY DEF WorkerTake
  <2> QED
    BY <2>1, RingTake DEF Occupied, RingConsistent
<1>1. PICK f \in Futures : /\ slots[head] = f /\ job' = [job EXCEPT ![w] = f]
                           /\ UNCHANGED <<alloc, done>>
  BY <1>0 DEF WorkerTake, Pop, fut
<1>2. Queued(f) /\ ~ Held(f) /\ ~ done[f] /\ alloc[f] = "live"
  <2>1. Queued(f)
    BY <1>0, <1>1 DEF Queued
  <2> QED
    BY <1>1, <2>1 DEF ExactlyOnce, HandsConsistent, PlacesConsistent, FreedDone
<1>3. job[w] = None
  BY DEF WorkerTake, HandsConsistent, JobsConsistent, Phase
<1>4. Held(f)' /\ \A g \in Futures \ {f} : Held(g)' <=> Held(g)
  BY <1>1, <1>3, Disjoint DEF Held
<1>5. Stage[f] = "pending" /\ Stage'[f] = "running" /\ \A g \in Futures \ {f} : Stage'[g] = Stage[g]
  BY <1>1, <1>2, <1>4 DEF Stage
<1>6. Abstract!Advance(f, "pending", "running")
  BY <1>5, StageAdvances
<1>7. Abstract!Cardinality(Abstract!Running) < Cardinality(Workers)
  <2>1. \A S : Abstract!Cardinality(S) = Cardinality(S)
    BY DEF Cardinality, Abstract!Cardinality
  <2> QED
    BY <1>3, <2>1, RunningBound
<1> QED
  BY <1>6, <1>7 DEF Abstract!Start

(* Storing done completes it. *)
LEMMA CompleteView ==
  ASSUME Inductive, FreedDone, NEW w \in Workers, WorkerComplete(w)
  PROVE  \E f \in Futures : Abstract!Complete(f)
<1> USE DEF Inductive, TypeOK
<1> DEFINE f == job[w]
<1>1. f \in Futures /\ ~ done[f] /\ Held(f)
  BY Disjoint DEF WorkerComplete, HandsConsistent, JobsConsistent, Phase, Held
<1>2. done' = [done EXCEPT ![f] = TRUE] /\ UNCHANGED <<alloc, job>>
  BY DEF WorkerComplete, fut
<1>3. \A g \in Futures : Held(g)' = Held(g)
  BY <1>2 DEF Held
<1>4. alloc[f] # "freed"
  BY <1>1 DEF FreedDone
<1>5. Stage[f] = "running" /\ Stage'[f] = "done" /\ \A g \in Futures \ {f} : Stage'[g] = Stage[g]
  BY <1>1, <1>2, <1>3, <1>4 DEF Stage
<1> QED
  BY <1>1, <1>5, StageAdvances DEF Abstract!Complete

(* A drop frees the future of a job that is done; what is freed stays so. *)
LEMMA DropView ==
  ASSUME Inductive, FreedDone, NEW t \in Threads, DropFree(t)
  PROVE  (\E f \in Futures : Abstract!Free(f)) \/ UNCHANGED Stage
<1> USE DEF Inductive, TypeOK
<1>1. PICK f \in Futures : arg[t] = {f} /\ done[f]
  BY DEF DropFree, HandsConsistent, CallsConsistent, Phase
<1>2. alloc' = [alloc EXCEPT ![f] = "freed"] /\ UNCHANGED <<done, job>>
  BY <1>1 DEF DropFree
<1>3. \A g \in Futures : Held(g)' = Held(g)
  BY <1>2 DEF Held
<1>4. \A g \in Futures \ {f} : Stage'[g] = Stage[g]
  BY <1>2, <1>3 DEF Stage
<1>5. Stage'[f] = "freed"
  BY <1>2 DEF Stage
<1>6. CASE alloc[f] = "freed"
  <2>1. alloc' = alloc
    BY <1>2, <1>6
  <2> QED
    BY <1>2, <1>3, <2>1 DEF Stage
<1>7. CASE alloc[f] # "freed"
  <2>1. Stage[f] = "done"
    BY <1>1, <1>7 DEF Stage
  <2> QED
    BY <1>4, <1>5, <2>1, StageAdvances DEF Abstract!Free
<1> QED
  BY <1>6, <1>7

(* Giving up a job that is done changes nothing for the callers. *)
LEMMA AnyCastView ==
  ASSUME Inductive, NEW w \in Workers, WorkerAnyCast(w)
  PROVE  UNCHANGED Stage
<1> USE DEF Inductive, TypeOK
<1>1. job[w] \in Futures /\ done[job[w]]
  BY Disjoint DEF WorkerAnyCast, HandsConsistent, JobsConsistent, Phase
<1>2. job' = [job EXCEPT ![w] = None] /\ UNCHANGED <<alloc, done>>
  BY DEF WorkerAnyCast, fut
<1>3. \A g \in Futures : Held(g)' <=> Held(g) /\ (g = job[w] => \E v \in Workers \ {w} : job[v] = g)
  BY <1>2, Disjoint DEF Held
<1> QED
  BY <1>1, <1>2, <1>3 DEF Stage

(* Each step of the pool maps to a step of the abstract pool, or to none. *)
LEMMA AbstractStep == Inductive /\ PoolDown /\ FreedDone /\ [Next]_vars => [Abstract!Next]_Stage
<1> SUFFICES ASSUME Inductive, PoolDown, FreedDone, [Next]_vars PROVE Abstract!Next \/ UNCHANGED Stage
  OBVIOUS
<1>1. Inductive' /\ FreedDone'
  BY InductiveStep, FreedStep
<1>2. CASE UNCHANGED <<alloc, done, job>>
  BY <1>2 DEF Stage, Held
<1>3. ASSUME NEW t \in Threads, NEW f \in Futures, DispatchCall(t, f) PROVE Abstract!Next
  BY <1>1, <1>3, DispatchView DEF Abstract!Next
<1>4. ASSUME NEW w \in Workers, WorkerTake(w) PROVE Abstract!Next
  BY <1>1, <1>4, TakeView DEF Abstract!Next
<1>5. ASSUME NEW w \in Workers, WorkerComplete(w) PROVE Abstract!Next
  BY <1>5, CompleteView DEF Abstract!Next
<1>6. ASSUME NEW t \in Threads, DropFree(t) PROVE Abstract!Next \/ UNCHANGED Stage
  BY <1>6, DropView DEF Abstract!Next
<1>7. ASSUME NEW w \in Workers, WorkerAnyCast(w) PROVE UNCHANGED Stage
  BY <1>7, AnyCastView
<1> QED
  BY <1>2, <1>3, <1>4, <1>5, <1>6, <1>7, Writers

(* The pool implements FuturePool but for its fairness: whatever the interleaving, a *)
(* job is started once, by no more workers than there are, completes once, and only  *)
(* then is its future freed.                                                         *)
THEOREM StepsImplementFuturePool == Spec => Abstract!Init /\ [][Abstract!Next]_Stage
<1>1. Init => Abstract!Init
  <2> SUFFICES ASSUME Init PROVE Stage = [f \in Futures |-> "none"]
    BY DEF Abstract!Init
  <2>1. \A f \in Futures : ~ Held(f) /\ ~ done[f] /\ alloc[f] = "none"
    BY Disjoint DEF Init, Held
  <2> QED
    BY <2>1 DEF Stage
<1> QED
  BY <1>1, FreedHolds, AbstractStep, PTL DEF Spec
===============================================================================
