----------------------------- MODULE HandleQueue -----------------------------
(***************************************************************************)
(* What the executor of the coroutine runtime promises to the code the     *)
(* compiler generates: a first-in first-out queue of coroutine handles     *)
(* from which any handle can be withdrawn (src/src/runtime/executor.h).    *)
(***************************************************************************)
EXTENDS Sequences, Naturals

CONSTANTS Handles,  \* coroutine handles
          Cap       \* STS_EXECUTOR_QUEUE_CAP

VARIABLE queue

\* q without h, the rest in its order.
Without(q, h) ==
  LET kept[n \in 0 .. Len(q)] ==
        IF n = 0 THEN << >> ELSE IF q[n] = h THEN kept[n - 1] ELSE Append(kept[n - 1], q[n])
  IN  kept[Len(q)]

Enqueue(h) == Len(queue) < Cap /\ queue' = Append(queue, h)
Remove(h)  == queue' = Without(queue, h)
Resume(h)  == queue # << >> /\ h = Head(queue) /\ queue' = Tail(queue)

Init == queue = << >>
Next == \E h \in Handles : Enqueue(h) \/ Remove(h) \/ Resume(h)
Spec == Init /\ [][Next]_queue
==============================================================================
