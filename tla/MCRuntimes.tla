------------------------------ MODULE MCRuntimes -------------------------------
(* The runtime archives a program is linked with, one at a time: the initial state *)
(* chooses one, and only that one takes steps.  The ledger is run by itself, under *)
(* an image that makes any call, and under the driver.                             *)
EXTENDS ObservationDriver, AsyncPool, Zone, CrashRuntime, TLC

VARIABLE runtime
runtimesVars == <<allVars, asyncVars, zoneVars, crVars, runtime>>

TwoTests == [tests |-> 2, lines |-> 1, sites |-> 3, coverage |-> TRUE, admitted |-> TRUE]
\* An image that was compiled for something else.
OtherImage == [TwoTests EXCEPT !.tests = 0, !.coverage = FALSE]
Refused == [TwoTests EXCEPT !.admitted = FALSE]

\* The ledger's own run has one site: what it does with more differs only in what
\* it records.
OneSite == [TwoTests EXCEPT !.sites = 1]

TestConfigs == {TwoTests, OneSite, OtherImage, Refused}

\* A resize anywhere, a slice that the second test makes, and a release.
TestSites ==
  0 :> [kind |-> "mov", owner |-> NoTest, stride |-> 1, items |-> 0]
  @@ 1 :> [kind |-> "make", owner |-> 1, stride |-> 2, items |-> 0]
  @@ 2 :> [kind |-> "rem", owner |-> NoTest, stride |-> 1, items |-> 0]

RuntimesInit ==
  /\ runtime \in {"ledger", "observation", "async", "zone", "crash"}
  /\ DriverInit /\ AsyncInit /\ ZoneInit /\ CrashInit
  /\ runtime \notin {"ledger", "observation"} => file = "none"
  /\ runtime # "observation" => ~ generated

RuntimesNext ==
  /\ UNCHANGED runtime
  /\ \/ /\ runtime = "ledger" /\ Next /\ config'.sites < 2
        /\ UNCHANGED <<driver, asyncVars, zoneVars, crVars>>
     \/ /\ runtime = "observation" /\ DriverNext
        /\ config' # OneSite /\ (generated \/ generation' < 2)
        /\ UNCHANGED <<asyncVars, zoneVars, crVars>>
     \/ runtime = "async" /\ AsyncNext /\ UNCHANGED <<allVars, zoneVars, crVars>>
     \/ runtime = "zone" /\ ZoneNext /\ UNCHANGED <<allVars, asyncVars, crVars>>
     \/ runtime = "crash" /\ CrashNext /\ UNCHANGED <<allVars, asyncVars, zoneVars>>

RuntimesSpec == RuntimesInit /\ [][RuntimesNext]_runtimesVars

Symmetry == Permutations(Keys)
================================================================================
