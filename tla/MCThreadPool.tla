----------------------------- MODULE MCThreadPool -----------------------------
(* Instances of ThreadPool for TLC. *)
EXTENDS ThreadPool, TLC

\* Workers and futures are interchangeable; the liveness runs do not use it.
Symmetry == Permutations(Workers) \cup Permutations(Futures)
===============================================================================
