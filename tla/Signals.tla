-------------------------------- MODULE Signals --------------------------------
(***************************************************************************)
(* The code the compiler generates for watch, send, break in a receiver    *)
(* and quit: src/src/codegen/cg_signals.c.                                 *)
(*                                                                         *)
(* One payload type (the registries of two types share nothing): two       *)
(* parallel arrays of handlers and of their captures, a length, a capacity *)
(* and a spinlock.  The lock is taken by an action of its own, which waits *)
(* for it; what is done under it is one action that ends with its release. *)
(* A receiver is named by the number of its registration, which stands for *)
(* the handler in one array and for its captures in the other.             *)
(*                                                                         *)
(* A thread's stack holds sends and the bodies that run: the thread's own  *)
(* code at the bottom, receivers, functions, the exit blocks.  Payloads    *)
(* and captured values are left out, and realloc does not fail.            *)
(***************************************************************************)
EXTENDS Integers, Sequences, FiniteSets

CONSTANTS Threads,
          MainThread,     \* the one whose return from main ends the program
          None,           \* no thread
          FirstCapacity,  \* the capacity of the first array
          MaxRegistered,  \* bound: registrations
          MaxSends,       \* bound: sends
          MaxDepth,       \* bound: frames on a stack
          CallDepth       \* bound: frames below a function

ASSUME SignalsAssumption ==
  /\ MainThread \in Threads /\ None \notin Threads
  /\ FirstCapacity \in Nat \ {0}
  /\ {MaxRegistered, MaxSends, MaxDepth, CallDepth} \subseteq Nat

VARIABLES
  data, udata, len, cap,  \* the registry
  lock,       \* its spinlock: is it taken
  inside,     \* the threads that are between taking and releasing it
  stack,      \* of each thread
  at,         \* what each thread's code wants of the registry, "run" for nothing
  quitting,   \* __stasha_quitting
  exiting,    \* the thread that called exit
  over,       \* how the process ended: "no", "exit", "_Exit", or "undefined"
  framed,     \* receivers whose function has not returned
  sent        \* how many sends there have been

registry == <<data, udata, len, cap>>
process  == <<quitting, exiting, over>>
locking  == <<lock, inside>>
vars     == <<registry, locking, stack, at, process, framed, sent>>

Null == 0   \* no handler
Junk == -1  \* what realloc leaves in the cells it adds

\* A frame of a body: the receiver it is, if it is one, with its captures and
\* its cell; and the receivers it has registered.
Body(r, env, index) ==
  [kind |-> "body", receiver |-> r, env |-> env, index |-> index, own |-> {}]
Code == Body(Null, Null, 0)

\* A frame of __stasha_watch_dispatch: the next cell, and the length it saw.
Send(i, snap) == [kind |-> "send", i |-> i, snap |-> snap]

Top(t) == stack[t][Len(stack[t])]
Pop(s) == SubSeq(s, 1, Len(s) - 1)

\* Thread t executes a body, or the loop of a send, and does not need the
\* registry.
Runs(t)  == over = "no" /\ at[t] = "run" /\ stack[t] # << >> /\ Top(t).kind = "body"
Sends(t) == over = "no" /\ at[t] = "run" /\ stack[t] # << >> /\ Top(t).kind = "send"

-------------------------------------------------------------------------------
(* The lock *)

\* (Fault: new receivers take part in the send that is under way.)
Ahead_Len(f) == f.i < len
\* The send has cells to go to.
Ahead(f) == f.i < f.snap

Waits(t) == over = "no" /\ t \notin inside /\ (at[t] # "run" \/ (Sends(t) /\ Ahead(Top(t))))

\* emit_spin_acquire
Acquire(t) ==
  /\ Waits(t) /\ ~ lock
  /\ lock' = TRUE /\ inside' = inside \cup {t}
  /\ UNCHANGED <<registry, stack, at, process, framed, sent>>

Locked(t, what) == over = "no" /\ t \in inside /\ at[t] = what

\* (Fault: the loop of a send keeps the lock while it calls a handler.)
Released_Kept(t) == (lock' = Sends(t)) /\ inside' = inside \ {t}
\* emit_spin_release
Released(t) == lock' = FALSE /\ inside' = inside \ {t}

-------------------------------------------------------------------------------
(* watch *)

NewCapacity == IF cap = 0 THEN FirstCapacity ELSE 2 * cap

\* realloc, when the array is full.  (Fault: the new array is not a copy.)
Grown_Fresh(cells) == IF len < cap THEN cells ELSE [i \in 0 .. NewCapacity - 1 |-> Junk]
Grown(cells) ==
  IF len < cap THEN cells
  ELSE [i \in 0 .. NewCapacity - 1 |-> IF i < cap THEN cells[i] ELSE Junk]

Watch(t) ==
  /\ Runs(t) /\ len + Cardinality({u \in Threads : at[u] = "register"}) < MaxRegistered
  /\ at' = [at EXCEPT ![t] = "register"]
  /\ UNCHANGED <<registry, locking, stack, process, framed, sent>>

\* __stasha_watch_register
Register(t) ==
  /\ Locked(t, "register")
  /\ data'  = [Grown(data)  EXCEPT ![len] = len + 1]
  /\ udata' = [Grown(udata) EXCEPT ![len] = len + 1]
  /\ cap' = IF len = cap THEN NewCapacity ELSE cap
  /\ len' = len + 1
  /\ framed' = framed \cup {len + 1}
  /\ stack' = [stack EXCEPT ![t] = Append(Pop(@), [Top(t) EXCEPT !.own = @ \cup {len + 1}])]
  /\ at' = [at EXCEPT ![t] = "run"]
  /\ Released(t)
  /\ UNCHANGED <<process, sent>>

-------------------------------------------------------------------------------
(* send *)

SendValue(t) ==
  /\ Runs(t) /\ Len(stack[t]) + 2 <= MaxDepth /\ sent < MaxSends
  /\ at' = [at EXCEPT ![t] = "snapshot"] /\ sent' = sent + 1
  /\ UNCHANGED <<registry, locking, stack, process, framed>>

\* __stasha_watch_dispatch takes the length once ...
Snapshot(t) ==
  /\ Locked(t, "snapshot")
  /\ stack' = [stack EXCEPT ![t] = Append(@, Send(0, len))]
  /\ at' = [at EXCEPT ![t] = "run"]
  /\ Released(t)
  /\ UNCHANGED <<registry, process, framed, sent>>

\* ... and goes through the cells below it, calling the handlers it finds
\* without the lock.
Read(t) ==
  /\ Locked(t, "run") /\ Sends(t) /\ Ahead(Top(t))
  /\ LET i    == Top(t).i
         send == Append(Pop(stack[t]), Send(i + 1, Top(t).snap))
     IN  stack' = [stack EXCEPT ![t] =
                     IF data[i] = Null THEN send ELSE Append(send, Body(data[i], udata[i], i))]
  /\ Released(t)
  /\ UNCHANGED <<registry, at, process, framed, sent>>

SendDone(t) ==
  /\ Sends(t) /\ ~ Ahead(Top(t))
  /\ stack' = [stack EXCEPT ![t] = Pop(@)]
  /\ UNCHANGED <<registry, locking, at, process, framed, sent>>

-------------------------------------------------------------------------------
(* Bodies *)

\* A function is called.
Call(t) ==
  /\ Runs(t) /\ Len(stack[t]) <= CallDepth
  /\ stack' = [stack EXCEPT ![t] = Append(@, Code)]
  /\ UNCHANGED <<registry, locking, at, process, framed, sent>>

\* A receiver or a function returns.  Its frame, in which the receivers it has
\* registered keep their captures, is gone; they stay registered.
Return(t) ==
  /\ Runs(t) /\ Len(stack[t]) > 1
  /\ stack' = [stack EXCEPT ![t] = Pop(@)]
  /\ framed' = framed \ Top(t).own
  /\ UNCHANGED <<registry, locking, at, process, sent>>

\* `break` in a receiver
Break(t) ==
  /\ Runs(t) /\ Top(t).receiver # Null
  /\ at' = [at EXCEPT ![t] = "dereg"]
  /\ UNCHANGED <<registry, locking, stack, process, framed, sent>>

\* __stasha_watch_dereg, and the receiver returns.
Dereg(t) ==
  /\ Locked(t, "dereg")
  /\ data' = [data EXCEPT ![Top(t).index] = Null]
  /\ stack' = [stack EXCEPT ![t] = Pop(@)]
  /\ framed' = framed \ Top(t).own
  /\ at' = [at EXCEPT ![t] = "run"]
  /\ Released(t)
  /\ UNCHANGED <<udata, len, cap, process, sent>>

-------------------------------------------------------------------------------
(* The end of the program *)

\* exit runs the exit blocks on the stack of the thread that called it.  A
\* second call while they run is undefined.
ExitCall(t) ==
  IF exiting = None
  THEN /\ exiting' = t
       /\ stack' = [stack EXCEPT ![t] = <<Code>>]
       /\ UNCHANGED over
  ELSE over' = "undefined" /\ UNCHANGED <<exiting, stack>>

\* __stasha_quit: exit for the first, _Exit for the others.
Quit(t) ==
  /\ Runs(t)
  /\ quitting' = TRUE
  /\ IF quitting THEN over' = "_Exit" /\ UNCHANGED <<exiting, stack>> ELSE ExitCall(t)
  /\ UNCHANGED <<registry, locking, at, framed, sent>>

\* The body at the bottom of a stack ends: main, the exit blocks, a thread's.
BottomReturns(t) ==
  /\ Runs(t) /\ Len(stack[t]) = 1
  /\ IF t = exiting THEN over' = "exit" /\ UNCHANGED <<exiting, stack>>
     ELSE IF t = MainThread THEN ExitCall(t)
     ELSE stack' = [stack EXCEPT ![t] = << >>] /\ UNCHANGED <<exiting, over>>
  /\ UNCHANGED <<registry, locking, at, quitting, framed, sent>>

Init ==
  /\ data = [i \in {} |-> Null] /\ udata = [i \in {} |-> Null] /\ len = 0 /\ cap = 0
  /\ lock = FALSE /\ inside = {}
  /\ stack = [t \in Threads |-> <<Code>>]
  /\ at = [t \in Threads |-> "run"]
  /\ quitting = FALSE /\ exiting = None /\ over = "no"
  /\ framed = {} /\ sent = 0

\* What a thread does by itself, its bodies' decisions apart.
Step(t) ==
  \/ Acquire(t) \/ Register(t) \/ Snapshot(t) \/ Read(t) \/ SendDone(t)
  \/ Return(t) \/ Dereg(t)

Next ==
  \E t \in Threads :
    \/ Step(t) \/ Watch(t) \/ SendValue(t) \/ Call(t) \/ Break(t) \/ Quit(t) \/ BottomReturns(t)

Spec == Init /\ [][Next]_vars

\* Threads are scheduled.  With bounds on sends and registrations that is
\* enough for receivers to return, and for the lock, which the code takes by
\* spinning, to be free in the end for whoever waits.
Fairness == \A t \in Threads : WF_vars(Step(t))
FairSpec == Spec /\ Fairness

-------------------------------------------------------------------------------
(* Properties *)

BodyType == [kind : {"body"}, receiver : Nat, env : Nat, index : Nat, own : SUBSET Nat]
SendType == [kind : {"send"}, i : Nat, snap : Nat]

\* Every variable stays within its type; the arrays have the capacity that is
\* noted and the length fits.
TypeOK ==
  /\ len \in Nat /\ cap \in Nat /\ len <= cap
  /\ data \in [0 .. cap - 1 -> Nat \cup {Junk}]
  /\ udata \in [0 .. cap - 1 -> Nat \cup {Junk}]
  /\ lock \in BOOLEAN /\ inside \subseteq Threads
  /\ stack \in [Threads -> Seq(BodyType \cup SendType)]
  /\ at \in [Threads -> {"run", "register", "snapshot", "dereg"}]
  /\ quitting \in BOOLEAN /\ exiting \in Threads \cup {None}
  /\ over \in {"no", "exit", "_Exit", "undefined"}
  /\ framed \subseteq Nat /\ sent \in Nat

\* A receiver runs with the captures that were stored when it was registered,
\* and the cell it will empty is its own, however the arrays have grown since.
OwnCaptures ==
  \A t \in Threads : \A j \in DOMAIN stack[t] :
    LET f == stack[t][j]
    IN  f.kind = "body" => f.env = f.receiver /\ (f.receiver # Null => f.receiver = f.index + 1)

\* What a frame is to SignalBus: a send is the receivers in the cells it has
\* yet to go to.
Receivers(from, below) == {data[i] : i \in from .. below - 1} \ {Null}
Abstract(f) ==
  IF f.kind = "send"
  THEN [kind |-> "send", pending |-> Receivers(f.i, f.snap)]
  ELSE [kind |-> "body", receiver |-> f.receiver]
AbstractStack(s) == [j \in 1 .. Len(s) |-> Abstract(s[j])]

Bus == INSTANCE SignalBus WITH
         registered <- len,
         active <- Receivers(0, len),
         stack <- [t \in Threads |-> AbstractStack(stack[t])]

\* With any threads and any nesting, and the lock free between two cells, a
\* send runs the receivers that were active when it began, in order, each
\* once, but for those that are retired before their turn, and none that is
\* registered meanwhile: the arrays implement SignalBus.
ImplementsBus == Bus!Spec

\* Whoever needs the registry gets it, unless the program ends: receivers are
\* called without the lock, which they may need to send, register or break.
RegistryIsReached == \A t \in Threads : Waits(t) ~> ~ Waits(t)

\* A receiver runs only while the function that registered it has not returned
\* (src/wiki/Signals.md).
RunsInScope ==
  [][\A t \in Threads : Read(t) /\ Len(stack'[t]) > Len(stack[t]) =>
       stack'[t][Len(stack'[t])].receiver \in framed]_vars
===============================================================================
