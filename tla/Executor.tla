------------------------------- MODULE Executor -------------------------------
(***************************************************************************)
(* The thread-local executor behind `yield;`: src/src/runtime/executor.c.  *)
(*                                                                         *)
(* A ring of coroutine handles.  These are its operations as steps on the  *)
(* ring; who performs them, and the loop of run_pending, whose turns a     *)
(* resumed coroutine may interleave with any operation, is Coroutines.     *)
(***************************************************************************)
EXTENDS Sequences, Naturals

CONSTANTS Handles,   \* coroutine handles
          Cap,       \* STS_EXECUTOR_QUEUE_CAP
          None       \* no handle: a slot never written

ASSUME ExecutorAssumption == Cap \in Nat \ {0} /\ None \notin Handles

VARIABLES slots, head, tail, count  \* __sts_exec_queue, _head, _tail, _count

ring == <<slots, head, tail, count>>

\* The index after i.
After(i) == (i + 1) % Cap

\* The handles in the ring, oldest first.
Queued == [i \in 1 .. count |-> slots[(head + i - 1) % Cap]]

\* What remove's loop keeps of q: kept[n] is what it has copied after n turns.
\* (Fault: the loop stops after its first turn.)
Without_Few(q, h) == IF q = << >> \/ Head(q) = h THEN << >> ELSE <<Head(q)>>
Without(q, h) ==
  LET kept[n \in 0 .. Len(q)] ==
        IF n = 0 THEN << >> ELSE IF q[n] = h THEN kept[n - 1] ELSE Append(kept[n - 1], q[n])
  IN  kept[Len(q)]
Kept(h) == Without(Queued, h)

Pending == count # 0

\* The assertion of enqueue: there is a free slot.
HasRoom == count < Cap

Enqueue(h) ==
  /\ slots' = [slots EXCEPT ![tail] = h]
  /\ tail' = After(tail)
  /\ count' = count + 1
  /\ UNCHANGED head

\* The handles that are kept are copied to the front of the ring.
\* (Fault: nothing is removed.)
Remove_Nothing(h) == UNCHANGED ring
Remove(h) ==
  /\ slots' = [i \in DOMAIN slots |-> IF i < Len(Kept(h)) THEN Kept(h)[i + 1] ELSE slots[i]]
  /\ head' = 0
  /\ tail' = Len(Kept(h)) % Cap
  /\ count' = Len(Kept(h))

\* What a turn of run_pending takes out, to resume it.
Oldest == slots[head]
TakeNext ==
  /\ head' = After(head)
  /\ count' = count - 1
  /\ UNCHANGED <<slots, tail>>

RingInit ==
  /\ slots = [i \in 0 .. Cap - 1 |-> None]
  /\ head = 0 /\ tail = 0 /\ count = 0

-------------------------------------------------------------------------------
RingTypeOK ==
  /\ slots \in [0 .. Cap - 1 -> Handles \cup {None}]
  /\ head \in 0 .. Cap - 1 /\ tail \in 0 .. Cap - 1 /\ count \in 0 .. Cap

\* The ring holds count handles between head and tail, all of them written,
\* also after remove has compacted it under a run_pending that goes on.
RingConsistent ==
  /\ tail = (head + count) % Cap
  /\ \A i \in 1 .. count : Queued[i] # None

\* Whatever nests and whatever is withdrawn meanwhile, run_pending resumes
\* handles in the order they were enqueued, none twice and none that was
\* withdrawn: the ring implements HandleQueue.
Abstract == INSTANCE HandleQueue WITH queue <- Queued
ImplementsQueue == Abstract!Spec
===============================================================================
