--------------------------- MODULE ObservationDriver ---------------------------
(***************************************************************************)
(* `stasha test` with an observation flag: the compiler runs the image it  *)
(* has just linked as a child process, reads the report the image          *)
(* publishes and gives a verdict (src/src/common/observation_driver.h).    *)
(* The child's steps are those of ObservationLedger.                       *)
(*                                                                         *)
(* The child tells the driver that it could not execute the image through  *)
(* a pipe that a successful exec closes.  Hashing, the file's mode and     *)
(* size, the JSON evidence and the texts are left out; a report that is    *)
(* not of this run, or does not lie whole in the file, is malformed.       *)
(***************************************************************************)
EXTENDS ObservationLedger

CONSTANTS Expected,     \* the configuration the image was compiled with
          Sites,        \* the manifest's allocation sites
          MaxCount,     \* INT32_MAX, the most elements of a slice
          MaxLeaked,    \* --max-leaked-bytes
          MinCoverage   \* --min-test-coverage, in percent

\* What a site is, the test it lies in if it lies in one, and of a slice the
\* size of an element and the number of initial items.
SiteType ==
  [kind : {"new", "mov", "rem", "make", "positional", "slice_rem"},
   owner : Nat \cup {NoTest}, stride : Nat \ {0}, items : Nat]

ASSUME DriverAssumption ==
  /\ Expected \in Configs /\ Expected.admitted /\ MaxLeaked \in Nat /\ MinCoverage \in 0 .. 100
  /\ Sites \in [0 .. Expected.sites - 1 -> SiteType] /\ MaxCount \in Nat

VARIABLES
  drv,         \* where the driver is
  child,       \* the child: none yet, forked, executing the image, or gone
  launch,      \* what the driver knows of the launch: "ok", or that it failed
  pipe,        \* what the child has written into the pipe: nothing, or its errno
  verdict,     \* "none", "pass" or "fail"
  generated    \* does the image make only the calls this compiler generates

driver == <<drv, child, launch, pipe, verdict, generated>>
allVars == <<vars, driver>>

-------------------------------------------------------------------------------
(* Launching and waiting *)

\* A collision on the report's path, or a failing call before the fork: no
\* child is made.
LaunchFails ==
  /\ drv = "launch"
  /\ launch' = "failed" /\ drv' = "read"
  /\ UNCHANGED <<vars, child, pipe, verdict, generated>>

Launch ==
  /\ drv = "launch" /\ file = "none"
  /\ child' = "forked" /\ drv' = "pipe"
  /\ UNCHANGED <<vars, launch, pipe, verdict, generated>>

\* fexecve, which closes the pipe; if it fails the child reports it and ends.
Exec ==
  /\ child = "forked"
  /\ child' = "image"
  /\ UNCHANGED <<vars, drv, launch, pipe, verdict, generated>>

ExecFails ==
  /\ child = "forked"
  /\ child' = "gone" /\ exit' = "nonzero" /\ pipe' = "errno"
  /\ UNCHANGED <<settings, reason, ending, progress, ledger, heap, pc, mode, written, ret,
                 output, drv, launch, verdict, generated>>

KilledBeforeExec ==
  /\ child = "forked"
  /\ child' = "gone" /\ exit' = "signal"
  /\ UNCHANGED <<settings, reason, ending, progress, ledger, heap, pc, mode, written, ret,
                 output, drv, launch, pipe, verdict, generated>>

\* The allocations of an operation: `new` asks for any size; `make` for as many
\* elements as it is given, or as it lists, and for none makes no call.
Requests(site) ==
  {q \in Sizes \X Domains :
     IF q[2] = "heap"
     THEN site.kind = "new"
     ELSE \E n \in 1 .. MaxCount :
            /\ site.kind \in {"make", "positional"} /\ (site.kind = "positional" => n = site.items)
            /\ q[1] = n * site.stride}

Releases(site) == {d \in Domains : site.kind = IF d = "heap" THEN "rem" ELSE "slice_rem"}

\* Generated code calls with the number of the operation's own site, and comes
\* to one that lies in a test only in that test.
GeneratedAllocation ==
  \E s \in SiteArgs \cap DOMAIN Sites :
    /\ Sites[s].owner \in {NoTest, current}
    /\ AllocationAt(s, Requests(Sites[s]), Sites[s].kind = "mov", Releases(Sites[s]))

GeneratedNext ==
  \/ Lifecycle \/ GeneratedAllocation \/ Publication
  \/ \E code \in {"zero", "nonzero"} : Exit(code)
  \/ Killed

\* A step of the image; the process is gone when the runtime has ended it.
Image ==
  /\ child = "image"
  /\ IF generated THEN GeneratedNext ELSE Next
  /\ child' = IF pc' = "ended" THEN "gone" ELSE "image"
  /\ UNCHANGED <<drv, launch, pipe, verdict, generated>>

\* The end of the pipe is reached when the child has closed its side; a failing
\* read or close is a failed launch as well.
PipeRead(bad) ==
  /\ drv = "pipe" /\ child # "forked"
  /\ launch' = IF pipe = "errno" \/ bad THEN "failed" ELSE "ok"
  /\ drv' = "wait"
  /\ UNCHANGED <<vars, child, pipe, verdict, generated>>

\* waitpid returns when the child is gone.
Wait(bad) ==
  /\ drv = "wait" /\ child = "gone"
  /\ launch' = IF bad THEN "failed" ELSE launch
  /\ drv' = "read"
  /\ UNCHANGED <<vars, child, pipe, verdict, generated>>

-------------------------------------------------------------------------------
(* Reading the report and judging it *)

\* A slice's bytes are a whole number of elements, and those that were listed.
SliceBytes(site, bytes) ==
  /\ bytes > 0
  /\ \/ site.kind = "make" /\ bytes % site.stride = 0 /\ bytes \div site.stride <= MaxCount
     \/ site.kind = "positional" /\ site.items > 0 /\ bytes = site.items * site.stride

\* (Fault: a block that `mov` allocated is not one of the heap's.)
SiteAllows_NewOnly(r) ==
  LET site == Sites[r.alloc_site]
  IN  /\ site.owner \in {NoTest, r.origin_test}
      /\ r.domain = "heap" => site.kind = "new"
      /\ r.domain = "slice" => r.resize_site = NoSite /\ SliceBytes(site, r.bytes)

\* What the manifest knows of the record's sites allows the record.
SiteAllows(r) ==
  LET site == Sites[r.alloc_site]
  IN  /\ site.owner \in {NoTest, r.origin_test}
      /\ r.domain = "heap" =>
           /\ site.kind \in {"new", "mov"}
           /\ r.resize_site \in {NoSite} \cup {s \in DOMAIN Sites : Sites[s].kind = "mov"}
      /\ r.domain = "slice" => r.resize_site = NoSite /\ SliceBytes(site, r.bytes)

\* What the parser calls impossible: it recomputes what it can and compares.
Plausible(r) ==
  /\ r.config.lines = Expected.lines => \A l \in r.hits : l < Expected.lines
  /\ r.completed <= r.started /\ r.started <= r.completed + 1 /\ r.started <= Expected.tests
  /\ r.started = 0 => ~ r.failed /\ r.hits = {}
  /\ \A t \in 0 .. Expected.tests - 1 :
       r.tests[t] = (IF t < r.completed THEN 2 ELSE IF t < r.started THEN 1 ELSE 0)
  /\ r.endpoint => r.started = Expected.tests /\ r.completed = Expected.tests
  /\ r.complete => r.endpoint /\ r.reason = "ok"
  /\ ~ r.complete => r.reason # "ok"
  /\ r.hits # {} => Expected.coverage
  /\ \A i \in DOMAIN r.records :
       /\ r.records[i].generation > (IF i = 1 THEN 0 ELSE r.records[i - 1].generation)
       /\ r.records[i].alloc_site < Expected.sites
       /\ r.records[i].origin_test < r.started
       /\ SiteAllows(r.records[i])
  /\ r.total = MapThenSumSet(LAMBDA i : r.records[i].bytes, DOMAIN r.records)

\* The report is whole, of this run and of this image.
WellFormed == file = "ours" /\ left = 0 /\ report.config = Expected

Parsed == WellFormed /\ Plausible(report)

\* (Fault: the minimum itself does not pass.)
CoveragePass_Strict(covered) == Expected.lines > 0 /\ covered * 100 > MinCoverage * Expected.lines
\* The minimum is inclusive, and nothing passes without eligible lines.
CoveragePass(covered) == Expected.lines > 0 /\ covered * 100 >= MinCoverage * Expected.lines

\* (Fault: how the child ended is not asked.)
Status_NoExit ==
  /\ launch = "ok"
  /\ report.complete /\ report.reason = "ok" /\ report.endpoint
  /\ Expected.tests > 0 /\ report.started = Expected.tests /\ report.completed = Expected.tests
  /\ ~ report.failed
  /\ report.total <= MaxLeaked
  /\ Expected.coverage => CoveragePass(Cardinality(report.hits))

\* sts_observation_status: everything that has to hold to pass.
Status ==
  /\ launch = "ok" /\ exit = "zero"
  /\ report.complete /\ report.reason = "ok" /\ report.endpoint
  /\ Expected.tests > 0 /\ report.started = Expected.tests /\ report.completed = Expected.tests
  /\ ~ report.failed
  /\ report.total <= MaxLeaked
  /\ Expected.coverage => CoveragePass(Cardinality(report.hits))

\* A report that cannot be read is as none.
Judge(bad) ==
  /\ drv = "read"
  /\ verdict' = IF ~ bad /\ Parsed /\ Status THEN "pass" ELSE "fail"
  /\ drv' = "done"
  /\ UNCHANGED <<vars, child, launch, pipe, generated>>

DriverInit ==
  /\ Init
  /\ drv = "launch" /\ child = "none" /\ launch = "ok" /\ pipe = "empty" /\ verdict = "none"
  /\ generated \in BOOLEAN

Driver ==
  \/ LaunchFails \/ Launch
  \/ \E bad \in BOOLEAN : PipeRead(bad) \/ Wait(bad) \/ Judge(bad)

DriverNext == Driver \/ Exec \/ ExecFails \/ KilledBeforeExec \/ Image

DriverSpec == DriverInit /\ [][DriverNext]_allVars

-------------------------------------------------------------------------------
(* Properties *)

\* What is live in the child's heap and the lines it has hit are within the
\* limits the user gave.
WithinLimits ==
  /\ total <= MaxLeaked
  /\ Expected.coverage =>
       Expected.lines > 0 /\ Cardinality(hits) * 100 >= MinCoverage * Expected.lines

\* The verdict is right whatever the image did: it passes only when the child
\* came to its end by itself after all its tests had returned, and what is
\* live in its heap and the lines it has hit are within the limits; and of no
\* live block does the ledger say what the manifest makes impossible.
VerdictSound ==
  verdict = "pass" =>
    /\ exit = "zero" /\ config = Expected /\ ~ failed
    /\ \A t \in TestIds : tests[t] = 2
    /\ WithinLimits
    /\ \A i \in Entries : SiteAllows(records[i])

\* Every report of an image that makes the calls the compiler generates is,
\* when it lies whole in the file, complete or not, one the parser accepts:
\* generator, runtime and parser agree on what is possible.
ReportsPlausible == generated /\ WellFormed => Plausible(report)

\* The driver believes no report that is wrong and rejects none that is right.
VerdictWellFounded == VerdictSound /\ ReportsPlausible

\* A suite of generated calls that succeeded within the limits passes, unless a
\* call of the driver's own fails.
PassesWhenDeserved ==
  [][/\ Judge(FALSE) /\ launch = "ok" /\ generated
     /\ exit = "zero" /\ ret = 0 /\ config = Expected /\ ~ failed /\ WithinLimits
     => verdict' = "pass"]_allVars
===============================================================================
