------------------------------- MODULE SignalBus -------------------------------
(***************************************************************************)
(* What watch and send promise for one payload type (the ordering and the  *)
(* restrictions sections of src/wiki/Signals.md, as far as the code of     *)
(* src/src/codegen/cg_signals.c keeps to them): receivers are numbered in  *)
(* the order they are registered; a send runs those that were active when  *)
(* it began, in that order and each to its end, but for the ones that are  *)
(* retired before their turn; a receiver may send, and that send is over   *)
(* before the outer one goes on.                                           *)
(***************************************************************************)
EXTENDS Integers, Sequences

CONSTANT Threads

VARIABLES registered,  \* how many receivers there have been
          active,      \* those that are not retired
          stack        \* of each thread: its sends and the receivers they run

vars == <<registered, active, stack>>

Receivers == 1 .. registered

\* A send with the receivers it has yet to run; a body that runs, 0 for code
\* that is not a receiver's.
Sending(pending)  == [kind |-> "send", pending |-> pending]
Running(receiver) == [kind |-> "body", receiver |-> receiver]

Top(t)     == stack[t][Len(stack[t])]
Pop(s)     == SubSeq(s, 1, Len(s) - 1)

Runs(t)  == stack[t] # << >> /\ Top(t).kind = "body"
Sends(t) == stack[t] # << >> /\ Top(t).kind = "send"

Register(t) ==
  /\ Runs(t)
  /\ registered' = registered + 1
  /\ active' = active \cup {registered + 1}
  /\ UNCHANGED stack

Begin(t) ==
  /\ Runs(t)
  /\ stack' = [stack EXCEPT ![t] = Append(@, Sending(active))]
  /\ UNCHANGED <<registered, active>>

\* The next receiver is the one that was registered first.
Deliver(t) ==
  /\ Sends(t)
  /\ \E r \in Top(t).pending :
       /\ \A q \in Top(t).pending : r <= q
       /\ stack' = [stack EXCEPT ![t] = Append(Append(Pop(@), Sending(Top(t).pending \ {r})), Running(r))]
  /\ UNCHANGED <<registered, active>>

Without(s, r) ==
  [j \in 1 .. Len(s) |->
     IF s[j].kind = "send" THEN Sending(s[j].pending \ {r}) ELSE s[j]]

\* A function is called, which is no receiver.
Call(t) ==
  /\ Runs(t)
  /\ stack' = [stack EXCEPT ![t] = Append(@, Running(0))]
  /\ UNCHANGED <<registered, active>>

\* A body ends, or a receiver ends and retires itself: no send runs it again.
Return(t) ==
  /\ Runs(t)
  /\ stack' = [stack EXCEPT ![t] = Pop(@)]
  /\ UNCHANGED <<registered, active>>

Retire(t) ==
  /\ Runs(t)
  /\ active' = active \ {Top(t).receiver}
  /\ stack' = [u \in Threads |->
                 Without(IF u = t THEN Pop(stack[u]) ELSE stack[u], Top(t).receiver)]
  /\ UNCHANGED registered

End(t) ==
  /\ Sends(t) /\ Top(t).pending = {}
  /\ stack' = [stack EXCEPT ![t] = Pop(@)]
  /\ UNCHANGED <<registered, active>>

\* Leaving the program abandons what the thread was doing.
Leave(t) ==
  /\ Runs(t)
  /\ stack' = [stack EXCEPT ![t] = <<Running(0)>>]
  /\ UNCHANGED <<registered, active>>

Init ==
  /\ registered = 0 /\ active = {}
  /\ stack = [t \in Threads |-> <<Running(0)>>]

Next ==
  \E t \in Threads :
    \/ Register(t) \/ Begin(t) \/ Deliver(t) \/ Call(t) \/ Return(t) \/ Retire(t) \/ End(t) \/ Leave(t)

Spec == Init /\ [][Next]_vars
================================================================================
