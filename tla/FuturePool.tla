------------------------------ MODULE FuturePool ------------------------------
(***************************************************************************)
(* What a pool of futures promises its callers, without queues, mutexes or *)
(* condition variables: a dispatched job is started at most once, by at    *)
(* most Slots workers at a time, completes once, and only the future of a  *)
(* completed job is freed.  ThreadPool is shown to implement this module.  *)
(***************************************************************************)
EXTENDS Naturals, FiniteSets

CONSTANTS Futures,   \* the futures a program can create
          Slots      \* how many jobs may be executing at once

VARIABLE stage       \* the stage of life of each future

Stages == {"none", "pending", "running", "done", "freed"}

StageOK == stage \in [Futures -> Stages]

Running == {f \in Futures : stage[f] = "running"}

Advance(f, from, to) ==
  /\ stage[f] = from
  /\ stage' = [stage EXCEPT ![f] = to]

Dispatch(f) == Advance(f, "none", "pending")

Start(f) ==
  /\ Cardinality(Running) < Slots
  /\ Advance(f, "pending", "running")

Complete(f) == Advance(f, "running", "done")

Free(f) == Advance(f, "done", "freed")

Init == stage = [f \in Futures |-> "none"]

Next == \E f \in Futures : Dispatch(f) \/ Start(f) \/ Complete(f) \/ Free(f)

\* A started job finishes: nothing is promised about when, or whether, the
\* program dispatches or frees.
Spec ==
  /\ Init
  /\ [][Next]_stage
  /\ \A f \in Futures : WF_stage(Complete(f))

===============================================================================
