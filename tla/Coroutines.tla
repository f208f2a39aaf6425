------------------------------ MODULE Coroutines ------------------------------
(***************************************************************************)
(* The protocol of the coroutines that `async fn` is lowered to, as the    *)
(* code that src/src/codegen/cg_coro.c and the await combinators of        *)
(* cg_expr.c emit performs it on one thread.                               *)
(*                                                                         *)
(* Nothing runs by itself: a coroutine runs when somebody calls            *)
(* llvm.coro.resume, on the caller's native stack, and goes on until it    *)
(* suspends.  The stack of nested calls is therefore part of the state;    *)
(* its head is what runs now, and every action is a step of that.  Only    *)
(* `yield expr;`, `yield;` and the final suspend give control back: an     *)
(* await inside a coroutine does not suspend it, it drives the awaited     *)
(* handle in a loop on top of the awaiter.                                 *)
(*                                                                         *)
(* Bodies are arbitrary: the code of main and of every coroutine may do    *)
(* any operation of MainOps or BodyOps on the handles it owns.             *)
(* `yield;` puts the coroutine into the ring of Executor.                  *)
(***************************************************************************)
EXTENDS Executor

CONSTANTS Streams,        \* the handles from `async fn g(): stream.[T]`
          Forever,        \* coroutines that never return
          MainOps,        \* what main may do with handles
          BodyOps,        \* what a coroutine may do
          MaxYields,      \* how often each coroutine outside Forever suspends
          Main

Coros == Handles
Tasks == Handles \ Streams  \* the handles from `async fn f(): T`

ASSUME CoroutineAssumption ==
  /\ Streams \subseteq Handles /\ Forever \subseteq Handles
  /\ Main \notin Handles \cup {None}
  /\ MaxYields \in [Handles -> Nat]

VARIABLES
  stack,                \* the native stack, innermost call first
  status,               \* each frame: not created, running, suspended, final or freed
  edge,                 \* the suspend point a frame is at: "item", "now" or none
  complete, eos, item_ready, cancelled, continuation, child,  \* the promise
  owner,                \* who holds the handle
  yields,               \* how often it has suspended in its body
  produced, consumed,   \* items a stream has yielded, and await.next has returned
  fault                 \* the undefined behaviour reached, if any

promise == <<complete, eos, item_ready, cancelled, continuation, child>>
items   == <<produced, consumed>>
vars    == <<ring, stack, status, edge, promise, owner, yields, items, fault>>

-------------------------------------------------------------------------------
(* The native stack *)

\* A call: who executes it, what it is doing, to which handles, and a counter.
Frame(c, what, hs, n) == [who |-> c, call |-> what, hs |-> hs, n |-> n]

Top   == Head(stack)
Self  == Top.who
Below == Tail(stack)
In(what) == Top.call = what
Target   == Top.hs[1]

Goto(what)    == <<[Top EXCEPT !.call = what]>> \o Below
Replace(f)    == stack' = <<f>> \o Below
Back(under)   == stack' = under
InBody(c)     == Frame(c, "body", << >>, 0)
Return        == Replace(InBody(Self))

\* llvm.coro.resume(h), called by the head of the stack s.  Resuming a
\* coroutine that is not suspended is undefined.
ResumeFrom(s, h) ==
  \/ /\ status[h] = "suspended"
     /\ stack' = <<Frame(h, "resumed", << >>, 0)>> \o s
     /\ status' = [status EXCEPT ![h] = "running"]
     /\ UNCHANGED fault
  \/ /\ status[h] # "suspended"
     /\ fault' = "resume"
     /\ UNCHANGED <<stack, status>>

\* llvm.coro.destroy(h): defined for a suspended coroutine only.
Destroy(h) ==
  \/ /\ status[h] \in {"suspended", "final"}
     /\ status' = [status EXCEPT ![h] = "freed"]
     /\ UNCHANGED fault
  \/ /\ status[h] \notin {"suspended", "final"}
     /\ fault' = "destroy"
     /\ UNCHANGED status

\* (Fault: complete is not set.)
Finish_NoComplete(c) ==
  /\ eos'        = [eos EXCEPT ![c] = TRUE]
  /\ item_ready' = [item_ready EXCEPT ![c] = FALSE]
  /\ stack'      = Goto("final")
  /\ UNCHANGED complete

\* What the promise says of a coroutine that has reached its final suspend,
\* before it wakes its awaiter.
Finish(c) ==
  /\ complete'   = [complete EXCEPT ![c] = TRUE]
  /\ eos'        = [eos EXCEPT ![c] = TRUE]
  /\ item_ready' = [item_ready EXCEPT ![c] = FALSE]
  /\ stack'      = Goto("final")

May(op)  == In("body") /\ op \in (IF Self = Main THEN MainOps ELSE BodyOps)
Holds(h) == owner[h] = Self /\ status[h] # "freed"

\* Whether the code that runs is a coroutine's.
InCoroutine == Self # Main

\* sts_set_current_child_handle: a coroutine notes what it is driving.
\* (Fault: the note is not taken back.)
Driving_Sticky(h) == IF ~ InCoroutine \/ h = None THEN child ELSE [child EXCEPT ![Self] = h]
Driving(h) == IF ~ InCoroutine THEN child ELSE [child EXCEPT ![Self] = h]

-------------------------------------------------------------------------------
(* What a body does *)

\* Calling an async fn: the frame is made and the body runs at once.
Spawn(h) ==
  /\ May("spawn")
  /\ status[h] = "none"
  /\ status' = [status EXCEPT ![h] = "running"]
  /\ owner' = [owner EXCEPT ![h] = Self]
  /\ stack' = <<InBody(h)>> \o stack
  /\ UNCHANGED <<ring, edge, promise, yields, items, fault>>

\* `yield expr;`
YieldValue ==
  /\ May("item") /\ Self \in Streams
  /\ yields[Self] < MaxYields[Self]
  /\ item_ready' = [item_ready EXCEPT ![Self] = TRUE]
  /\ produced' = [produced EXCEPT ![Self] = @ + 1]
  /\ yields' = [yields EXCEPT ![Self] = @ + 1]
  /\ stack' = Goto("item")
  /\ UNCHANGED <<ring, status, edge, complete, eos, cancelled, continuation, child, owner, consumed, fault>>

\* `yield;`: the assertion of the executor's enqueue guards its capacity.
YieldNow ==
  /\ May("now") /\ InCoroutine
  /\ Self \in Forever \/ yields[Self] < MaxYields[Self]
  /\ yields' = IF Self \in Forever THEN yields ELSE [yields EXCEPT ![Self] = @ + 1]
  /\ \/ /\ HasRoom
        /\ Enqueue(Self)
        /\ status' = [status EXCEPT ![Self] = "suspended"]
        /\ edge' = [edge EXCEPT ![Self] = "now"]
        /\ Back(Below)
        /\ UNCHANGED fault
     \/ /\ ~ HasRoom
        /\ fault' = "assert"
        /\ UNCHANGED <<ring, status, edge, stack>>
  /\ UNCHANGED <<promise, owner, items>>

\* `ret;`, `ret expr;` or the end of the body.
Ret ==
  /\ In("body") /\ Self \in Coros \ Forever
  /\ Finish(Self)
  /\ UNCHANGED <<ring, status, edge, cancelled, continuation, child, owner, yields, items, fault>>

\* await(h), await.next(h), future.wait/get(h), future.drop(h): a drive loop
\* starts.  await makes its caller the continuation of the task.
Drive(what, h) ==
  /\ May(what) /\ Holds(h)
  /\ h \in (IF what = "next" THEN Streams ELSE Tasks)
  /\ Replace(Frame(Self, what, <<h>>, 0))
  /\ child' = IF what \in {"await", "next"} THEN Driving(h) ELSE child
  /\ continuation' = IF what = "await" /\ InCoroutine THEN [continuation EXCEPT ![h] = Self]
                                                       ELSE continuation
  /\ UNCHANGED <<ring, status, edge, complete, eos, item_ready, cancelled, owner, yields, items, fault>>

\* await.all(hs), await.any(hs).
Combine(what, hs) ==
  /\ May(what)
  /\ \A i \in DOMAIN hs : Holds(hs[i])
  /\ Replace(Frame(Self, what, hs, 1))
  /\ continuation' = IF ~ InCoroutine THEN continuation
                     ELSE [h \in Coros |-> IF \E i \in DOMAIN hs : hs[i] = h THEN Self ELSE continuation[h]]
  /\ UNCHANGED <<ring, status, edge, complete, eos, item_ready, cancelled, child, owner, yields, items, fault>>

\* stream.drop(h)
StreamDrop(h) ==
  /\ May("drop") /\ Holds(h) /\ h \in Streams
  /\ Remove(h)
  /\ Destroy(h)
  /\ UNCHANGED <<stack, edge, promise, owner, yields, items>>

\* stream.cancel(h), task.cancel(h)
Cancel(h) ==
  /\ May("cancel") /\ Holds(h)
  /\ cancelled' = [cancelled EXCEPT ![h] = TRUE]
  /\ UNCHANGED <<ring, stack, status, edge, complete, eos, item_ready, continuation, child, owner, yields, items, fault>>

-------------------------------------------------------------------------------
(* Suspending and being resumed *)

\* At a `yield expr;` or the final suspend: wake the awaiter, if there is one.
WakeAwaiter ==
  /\ In("item") \/ In("final")
  /\ Top.n = 0 /\ continuation[Self] # None
  /\ Remove(continuation[Self])
  /\ ResumeFrom(<<[Top EXCEPT !.n = 1]>> \o Below, continuation[Self])
  /\ UNCHANGED <<edge, promise, owner, yields, items>>

Suspend ==
  /\ In("item") \/ In("final")
  /\ Top.n = 1 \/ continuation[Self] = None
  /\ status' = [status EXCEPT ![Self] = IF In("final") THEN "final" ELSE "suspended"]
  /\ edge' = [edge EXCEPT ![Self] = IF In("final") THEN "none" ELSE "item"]
  /\ continuation' = IF In("final") THEN [continuation EXCEPT ![Self] = None] ELSE continuation
  /\ Back(Below)
  /\ UNCHANGED <<ring, complete, eos, item_ready, cancelled, child, owner, yields, items, fault>>

\* The resume edge of a `yield expr;` clears item_ready; that of any yield
\* ends a cancelled coroutine, and cancels what it was driving.
\* (Fault: the flag is not looked at.)
IsCancelled_Never(c) == FALSE
IsCancelled(c) == cancelled[c]

ResumeEdgeLive ==
  /\ In("resumed") /\ ~ IsCancelled(Self)
  /\ item_ready' = IF edge[Self] = "item" THEN [item_ready EXCEPT ![Self] = FALSE] ELSE item_ready
  /\ edge' = [edge EXCEPT ![Self] = "none"]
  /\ Return
  /\ UNCHANGED <<ring, status, complete, eos, cancelled, continuation, child, owner, yields, items, fault>>

ResumeEdgeCancelled ==
  /\ In("resumed") /\ IsCancelled(Self)
  /\ Finish(Self)
  /\ cancelled' = IF child[Self] = None THEN cancelled ELSE [cancelled EXCEPT ![child[Self]] = TRUE]
  /\ child' = [child EXCEPT ![Self] = None]
  /\ edge' = [edge EXCEPT ![Self] = "none"]
  /\ UNCHANGED <<ring, status, continuation, owner, yields, items, fault>>

-------------------------------------------------------------------------------
(* The drive loops *)

\* What a drive loop waits for.  (Fault: await.next does not look at the
\* item first.)
Arrived_EosOnly(h) == IF In("next") THEN eos[h] ELSE complete[h]
Arrived(h) == IF In("next") THEN item_ready[h] \/ eos[h] ELSE complete[h]

\* Whether a loop lets queued coroutines run before it resumes its target.
Pumps == In("await") \/ In("next") \/ In("all") \/ In("any")

\* One turn on behalf of handle h: run what is queued, or resume h itself.
\* The stack s is what the turn returns to.
Pump(s) ==
  /\ Pumps /\ Pending
  /\ stack' = <<Frame(None, "pump", << >>, count)>> \o s
  /\ UNCHANGED <<ring, status, fault>>

ResumeTarget(s, h) ==
  /\ Pumps => ~ Pending
  /\ Remove(h)
  /\ ResumeFrom(s, h)

DriveOn ==
  /\ In("await") \/ In("next") \/ In("wait") \/ In("drop")
  /\ ~ Arrived(Target)
  /\ Pump(stack) \/ ResumeTarget(stack, Target)
  /\ UNCHANGED <<edge, promise, owner, yields, items>>

\* __sts_executor_run_pending: resume what is queued, within the budget.
PumpResume ==
  /\ In("pump") /\ Top.n # 0 /\ Pending
  /\ TakeNext
  /\ ResumeFrom(<<[Top EXCEPT !.n = @ - 1]>> \o Below, Oldest)
  /\ UNCHANGED <<edge, promise, owner, yields, items>>

PumpReturn ==
  /\ In("pump")
  /\ Top.n = 0 \/ ~ Pending
  /\ Back(Below)
  /\ UNCHANGED <<ring, status, edge, promise, owner, yields, items, fault>>

\* (Fault: the task is not destroyed.)
TaskDone_NoDestroy ==
  /\ In("await") \/ In("drop")
  /\ Arrived(Target)
  /\ child' = IF In("await") THEN Driving(None) ELSE child
  /\ Return
  /\ UNCHANGED <<ring, status, edge, complete, eos, item_ready, cancelled, continuation, owner, yields, items, fault>>

\* await takes the result and destroys the task; future.drop destroys it.
TaskDone ==
  /\ In("await") \/ In("drop")
  /\ Arrived(Target)
  /\ child' = IF In("await") THEN Driving(None) ELSE child
  /\ Remove(Target)
  /\ Destroy(Target)
  /\ Return
  /\ UNCHANGED <<edge, complete, eos, item_ready, cancelled, continuation, owner, yields, items>>

WaitDone ==
  /\ In("wait") /\ Arrived(Target)
  /\ Return
  /\ UNCHANGED <<ring, status, edge, promise, owner, yields, items, fault>>

\* await.next returns the item, or a zero at the end of the stream.
NextDone ==
  /\ In("next") /\ Arrived(Target)
  /\ consumed' = IF item_ready[Target] THEN [consumed EXCEPT ![Target] = @ + 1] ELSE consumed
  /\ item_ready' = [item_ready EXCEPT ![Target] = FALSE]
  /\ child' = Driving(None)
  /\ Return
  /\ UNCHANGED <<ring, status, edge, complete, eos, cancelled, continuation, owner, yields, produced, fault>>

-------------------------------------------------------------------------------
(* await.all and await.any: Top.n is the slot the round is at *)

Slot      == Top.hs[Top.n]
NextSlot  == IF Top.n = Len(Top.hs) THEN 1 ELSE Top.n + 1
AllNull   == \A i \in DOMAIN Top.hs : Top.hs[i] = None
\* (Fault: the slot keeps the handle.)
Cleared_Not == Top
Cleared   == [Top EXCEPT !.hs[Top.n] = None]

SkipSlot ==
  /\ In("all") /\ ~ AllNull /\ Slot = None
  /\ Replace([Top EXCEPT !.n = NextSlot])
  /\ UNCHANGED <<ring, status, edge, promise, owner, yields, items, fault>>

\* The slot's task is not complete: one cooperative step for it.  await.any
\* looks at it again after the step ("post"), await.all goes to the next slot.
StepSlot ==
  /\ In("all") \/ In("any")
  /\ ~ AllNull /\ Slot # None /\ ~ complete[Slot]
  /\ LET after == <<[Top EXCEPT !.n    = IF In("all") THEN NextSlot ELSE @,
                               !.call = IF In("all") THEN "all" ELSE "post"]>> \o Below
     IN  Pump(after) \/ ResumeTarget(after, Slot)
  /\ child' = Driving(Slot)
  /\ UNCHANGED <<edge, complete, eos, item_ready, cancelled, continuation, owner, yields, items>>

PostSlot ==
  /\ In("post") /\ ~ complete[Slot]
  /\ Replace([Top EXCEPT !.call = "any", !.n = NextSlot])
  /\ UNCHANGED <<ring, status, edge, promise, owner, yields, items, fault>>

\* A complete task: its result is taken and its frame destroyed.  For
\* await.any it is the winner, and the others are the losers.
TakeSlot ==
  /\ In("all") \/ In("any") \/ In("post")
  /\ ~ AllNull /\ Slot # None /\ complete[Slot]
  /\ Remove(Slot)
  /\ Destroy(Slot)
  /\ Replace(IF In("all") THEN [Cleared EXCEPT !.n = NextSlot] ELSE [Cleared EXCEPT !.call = "lose"])
  /\ UNCHANGED <<edge, promise, owner, yields, items>>

\* A loser is cancelled and dropped: future.drop waits for it first, without
\* running what is queued.
Losers    == {i \in DOMAIN Top.hs : Top.hs[i] # None}
FirstLoser == Top.hs[CHOOSE i \in Losers : \A j \in Losers : i <= j]

CancelLoser ==
  /\ In("lose") /\ Losers # {} /\ ~ complete[FirstLoser]
  /\ cancelled' = [cancelled EXCEPT ![FirstLoser] = TRUE]
  /\ ResumeTarget(stack, FirstLoser)
  /\ UNCHANGED <<edge, complete, eos, item_ready, continuation, child, owner, yields, items>>

DropLoser ==
  /\ In("lose") /\ Losers # {} /\ complete[FirstLoser]
  /\ cancelled' = [cancelled EXCEPT ![FirstLoser] = TRUE]
  /\ Remove(FirstLoser)
  /\ Destroy(FirstLoser)
  /\ Replace([Top EXCEPT !.hs = [i \in DOMAIN @ |-> IF @[i] = FirstLoser THEN None ELSE @[i]]])
  /\ UNCHANGED <<edge, complete, eos, item_ready, continuation, child, owner, yields, items>>

CombineDone ==
  /\ \/ In("all") /\ AllNull
     \/ In("lose") /\ Losers = {}
  /\ child' = Driving(None)
  /\ Return
  /\ UNCHANGED <<ring, status, edge, complete, eos, item_ready, cancelled, continuation, owner, yields, items, fault>>

-------------------------------------------------------------------------------
Init ==
  /\ RingInit
  /\ stack = <<InBody(Main)>>
  /\ status = [c \in Coros |-> "none"]
  /\ edge = [c \in Coros |-> "none"]
  /\ complete = [c \in Coros |-> FALSE]
  /\ eos = [c \in Coros |-> FALSE]
  /\ item_ready = [c \in Coros |-> FALSE]
  /\ cancelled = [c \in Coros |-> FALSE]
  /\ continuation = [c \in Coros |-> None]
  /\ child = [c \in Coros |-> None]
  /\ owner = [c \in Coros |-> None]
  /\ yields = [c \in Coros |-> 0]
  /\ produced = [c \in Coros |-> 0]
  /\ consumed = [c \in Coros |-> 0]
  /\ fault = "none"

Pairs == {<<t, u>> : t, u \in Tasks} \ {<<t, t>> : t \in Tasks}

Body ==
  \/ \E h \in Coros :
       \/ Spawn(h) \/ StreamDrop(h) \/ Cancel(h)
       \/ \E what \in {"await", "next", "wait", "drop"} : Drive(what, h)
  \/ \E hs \in Pairs, what \in {"all", "any"} : Combine(what, hs)

LeaveBody == YieldValue \/ YieldNow \/ Ret

Machinery ==
  \/ WakeAwaiter \/ Suspend \/ ResumeEdgeLive \/ ResumeEdgeCancelled
  \/ DriveOn \/ PumpResume \/ PumpReturn \/ TaskDone \/ WaitDone \/ NextDone
  \/ SkipSlot \/ StepSlot \/ PostSlot \/ TakeSlot \/ CancelLoser \/ DropLoser \/ CombineDone

Next == fault = "none" /\ (Body \/ LeaveBody \/ Machinery)

Spec == Init /\ [][Next]_vars

\* The thread keeps running, and a body does not do operations that change
\* nothing for ever without coming to its next yield or its end.
FairSpec == Spec /\ WF_vars(Next) /\ SF_vars(LeaveBody)

-------------------------------------------------------------------------------
(* Properties *)

Calls == {"body", "item", "final", "resumed", "await", "next", "wait", "drop",
          "all", "any", "post", "lose", "pump"}

\* Every variable stays within its type.
TypeOK ==
  /\ RingTypeOK
  /\ \A i \in DOMAIN stack : stack[i].call \in Calls /\ stack[i].who \in Coros \cup {Main, None}
  /\ status \in [Coros -> {"none", "running", "suspended", "final", "freed"}]
  /\ edge \in [Coros -> {"none", "item", "now"}]
  /\ {complete, eos, item_ready, cancelled} \subseteq [Coros -> BOOLEAN]
  /\ continuation \in [Coros -> Coros \cup {None}]
  /\ child \in [Coros -> Coros \cup {None}]
  /\ owner \in [Coros -> Coros \cup {Main, None}]
  /\ \A c \in Coros : {yields[c], produced[c], consumed[c]} \subseteq 0 .. MaxYields[c]
  /\ fault \in {"none", "resume", "destroy", "assert"}

\* No coroutine is resumed unless it is suspended, destroyed while it runs,
\* or queued beyond the executor's capacity.
DefinedBehaviour == fault = "none"

\* A frame is in the executor's queue exactly when it is suspended at a
\* `yield;`, and once: whoever resumes or destroys it by another way
\* withdraws it first, so run_pending never meets a stale handle.
QueueExact ==
  \A c \in Coros :
    LET places == {i \in 1 .. count : Queued[i] = c}
    IN  /\ (places # {}) <=> (status[c] = "suspended" /\ edge[c] = "now")
        /\ \A i, j \in places : i = j

\* await.next returns every item of a stream, once: what was yielded is what
\* was returned, but for the item that lies ready.
ItemsDelivered ==
  \A s \in Streams :
    (status[s] \notin {"freed"}) => produced[s] = consumed[s] + (IF item_ready[s] THEN 1 ELSE 0)

\* Once a cancelled coroutine is suspended it never gets back into its body, and
\* yields nothing more: whoever resumes it, its resume edge ends it.  One that is
\* cancelled while it runs may still yield the item it is at.
Ending(c) == cancelled[c] /\ (status[c] = "running" => \E i \in DOMAIN stack :
                                stack[i].who = c /\ stack[i].call \in {"resumed", "final"})
CancelStops == [][\A c \in Coros : Ending(c) => Ending(c)' /\ produced'[c] = produced[c]]_vars

\* No call in progress holds the handle of a frame that has been freed: the
\* combinators clear a slot before they go on, and a target is destroyed only
\* by the loop that ends with it.
NoStaleHandle ==
  \A i \in DOMAIN stack : \A k \in DOMAIN stack[i].hs :
    stack[i].hs[k] # None => status[stack[i].hs[k]] # "freed"

\* Nothing the generated code does with a handle is undefined, now or at the next use.
HandlesDefined == DefinedBehaviour /\ NoStaleHandle

\* A continuation, as long as it is set in a frame that exists, is a coroutine
\* that runs, beneath the call that awaits the frame: it is never suspended.
ContinuationRuns ==
  \A c \in Coros : (continuation[c] # None /\ status[c] # "freed") =>
    \E i \in DOMAIN stack :
      stack[i].who = continuation[c] /\ \E k \in DOMAIN stack[i].hs : stack[i].hs[k] = c

\* A coroutine has a child only while it drives it, so never where it is
\* suspended: a cancelled coroutine has no child to pass the cancel on to.
ChildOnlyDriven == \A c \in Coros : child[c] # None => status[c] = "running"

\* Neither the queue nor the two links between an awaiter and what it awaits ever
\* hold a stale handle.
HandlesTracked == QueueExact /\ ContinuationRuns /\ ChildOnlyDriven

\* Whatever main calls returns to it.
AtMain == stack = <<InBody(Main)>>
ControlReturns == ~ AtMain ~> AtMain

\* An awaiter that a coroutine wakes is suspended, waiting for it.
AwaiterSuspended ==
  ((In("item") \/ In("final")) /\ Top.n = 0 /\ continuation[Self] # None)
     => status[continuation[Self]] = "suspended"
===============================================================================
