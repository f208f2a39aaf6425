--------------------------- MODULE ObservationLedger ---------------------------
(***************************************************************************)
(* The runtime that a test image observed for leaks and coverage is linked *)
(* with (src/src/runtime/observation_runtime.c): a ledger of the live heap *)
(* blocks, the progress of the tests and the lines hit, and one report of  *)
(* them, published at the end of the suite or when a call is refused.      *)
(*                                                                         *)
(* The program is sequential and the runtime's calls are atomic, but the   *)
(* publication, which is one action per system call: each of them can fail *)
(* and the process can be killed between any two.  The runtime does not    *)
(* trust the image that calls it, so the model lets the image make any     *)
(* call in any order; a refused one publishes what there is and ends the   *)
(* process.                                                                *)
(*                                                                         *)
(* Abstracted: identities, the report's text and the masks are one field   *)
(* `admitted` of a configuration; the counts of assertions are the flag    *)
(* `failed`, so their overflow is left out; UINT64_MAX is MaxU.            *)
(***************************************************************************)
EXTENDS Integers, Sequences, FiniteSets, FiniteSetsExt

CONSTANTS Keys,        \* the addresses malloc may return
          Null,
          Sizes,       \* the byte counts the image requests
          MaxU,        \* UINT64_MAX
          MaxRecords,  \* STASHA_OBSERVATION_MAX_RECORDS
          Configs,     \* the configurations an image may pass
          ReportLen    \* the length of a report

Domains == {"heap", "slice"}
NoTest  == -1
NoSite  == -1
Free    == -1

ConfigType == [tests : Nat, lines : Nat, sites : Nat, coverage : BOOLEAN, admitted : BOOLEAN]

ASSUME LedgerAssumption ==
  /\ Null \notin Keys
  /\ MaxU \in Nat /\ Sizes \subseteq 0 .. MaxU
  /\ MaxRecords \in Nat
  /\ Configs \subseteq ConfigType
  /\ ReportLen \in Nat \ {0}

VARIABLES
  config, initialized, path,           \* what init was given; is there a report path
  reason, finalized, endpoint, failed, \* how the suite ended; reason is the first failure
  tests, started, completed, current, hits,
  records, total, generation,          \* the ledger
  heap,                                \* the allocator: the size of each block, or Free
  pc, mode, written, ret,              \* where the process is, and what finish returned
  file, left, report,                  \* the file at the report path
  exit                                 \* how the process ended

settings == <<config, initialized, path>>
ending   == <<finalized, endpoint, failed>>
progress == <<tests, started, completed, current, hits>>
ledger   == <<records, total, generation>>
output   == <<file, left, report>>
process  == <<pc, mode, written, ret, exit>>
vars     == <<settings, reason, ending, progress, ledger, heap, process, output>>

TestIds == 0 .. config.tests - 1

-------------------------------------------------------------------------------
(* Failing *)

\* (Fault: the last failure is the one that is reported.)
Sticky_Last(why) == why
\* The first failure is the one that is reported.
Sticky(why) == IF reason = "ok" THEN why ELSE reason

\* The process goes on to publish what there is, and ends.
Abort(why) ==
  /\ reason' = Sticky(why)
  /\ pc' = "open" /\ mode' = "abort"

\* A call that is refused changes nothing else.
Refuse(why) ==
  /\ pc = "suite" /\ why # "ok"
  /\ Abort(why)
  /\ UNCHANGED <<settings, ending, progress, ledger, heap, written, ret, exit, output>>

Admit(why) == pc = "suite" /\ why = "ok"

-------------------------------------------------------------------------------
(* Lifecycle *)

InitCheck(c) ==
  IF initialized \/ finalized \/ reason # "ok" THEN "lifecycle"
  ELSE IF ~ c.admitted THEN "configuration" ELSE "ok"

\* A configuration without a report path is an accepted one that fails.  (One
\* that is refused also clears the current test, which nobody reads any more.)
ObsInit(c, p) ==
  /\ Admit(InitCheck(c))
  /\ config' = c /\ initialized' = TRUE /\ path' = p
  /\ tests' = [t \in 0 .. c.tests - 1 |-> 0]
  /\ current' = NoTest
  /\ IF p THEN UNCHANGED <<reason, pc, mode>> ELSE Abort("configuration")
  /\ UNCHANGED <<ending, started, completed, hits, ledger, heap, written, ret, exit, output>>

BeginCheck(t) ==
  IF reason # "ok" THEN reason
  ELSE IF /\ initialized /\ ~ finalized /\ t \in TestIds
          /\ current = NoTest /\ t = completed /\ started = completed /\ tests[t] = 0
       THEN "ok" ELSE "lifecycle"

TestBegin(t) ==
  /\ Admit(BeginCheck(t))
  /\ tests' = [tests EXCEPT ![t] = 1]
  /\ current' = t
  /\ started' = started + 1
  /\ UNCHANGED <<settings, reason, ending, completed, hits, ledger, heap, process, output>>

EndCheck(t) ==
  IF reason # "ok" THEN reason
  ELSE IF /\ initialized /\ ~ finalized /\ t \in TestIds
          /\ current = t /\ tests[t] = 1 /\ t = completed
       THEN "ok" ELSE "lifecycle"

TestEnd(t) ==
  /\ Admit(EndCheck(t))
  /\ tests' = [tests EXCEPT ![t] = 2]
  /\ current' = NoTest
  /\ completed' = completed + 1
  /\ UNCHANGED <<settings, reason, ending, started, hits, ledger, heap, process, output>>

InTest == initialized /\ ~ finalized /\ current \in TestIds /\ tests[current] = 1

HitCheck(line) ==
  IF reason # "ok" THEN reason
  ELSE IF ~ InTest THEN "lifecycle"
  ELSE IF ~ config.coverage \/ line >= config.lines THEN "line" ELSE "ok"

Hit(line) ==
  /\ Admit(HitCheck(line))
  /\ hits' = hits \cup {line}
  /\ UNCHANGED <<settings, reason, ending, tests, started, completed, current, ledger, heap, process, output>>

-------------------------------------------------------------------------------
(* The ledger *)

Entries     == DOMAIN records
Indexes(k)  == {i \in Entries : records[i].key = k}
Recorded(k) == Indexes(k) # {}
IndexOf(k)  == CHOOSE i \in Indexes(k) : \A j \in Indexes(k) : i <= j
RecordOf(k) == records[IndexOf(k)]

OperationCheck(site) ==
  IF reason # "ok" THEN reason
  ELSE IF ~ InTest THEN "lifecycle"
  ELSE IF site >= config.sites THEN "site"
  ELSE IF Len(records) > MaxRecords \/ \E i \in Entries : records[i].domain \notin Domains
       THEN "corrupted" ELSE "ok"

\* (Fault: the total is not bounded.)
CapacityCheck_NoTotal(bytes) ==
  IF Len(records) = MaxRecords THEN "capacity"
  ELSE IF generation = MaxU THEN "generation" ELSE "ok"

\* Whether another block of this size fits the ledger.
CapacityCheck(bytes) ==
  IF Len(records) = MaxRecords THEN "capacity"
  ELSE IF generation = MaxU THEN "generation"
  ELSE IF bytes > MaxU - total THEN "total" ELSE "ok"

\* (Fault: a block is entered without a new generation.)
Entry_OldGeneration(k, bytes, site, domain) ==
  [key |-> k, generation |-> generation, bytes |-> bytes, domain |-> domain,
   alloc_site |-> site, resize_site |-> NoSite, origin_test |-> current]

\* What is recorded of a new block.
Entry(k, bytes, site, domain) ==
  [key |-> k, generation |-> generation + 1, bytes |-> bytes, domain |-> domain,
   alloc_site |-> site, resize_site |-> NoSite, origin_test |-> current]

Add(k, bytes, site, domain) ==
  IF Recorded(k)
  THEN Abort("duplicate") /\ UNCHANGED ledger
  ELSE /\ records' = Append(records, Entry(k, bytes, site, domain))
       /\ generation' = generation + 1
       /\ total' = total + bytes
       /\ UNCHANGED <<reason, pc, mode>>

FreeKeys == {k \in Keys : heap[k] = Free}

\* malloc(bytes) or realloc(NULL, bytes), which may fail, and its entry.
Allocate(bytes, site, domain) ==
  /\ \/ UNCHANGED <<heap, ledger, reason, pc, mode>>
     \/ \E k \in FreeKeys :
          /\ heap' = [heap EXCEPT ![k] = bytes]
          /\ Add(k, bytes, site, domain)
  /\ UNCHANGED <<settings, ending, progress, written, ret, exit, output>>

NewCheck(bytes, site, domain) ==
  IF OperationCheck(site) # "ok" THEN OperationCheck(site)
  ELSE IF domain = "slice" /\ bytes = 0 THEN "slice_size"
  ELSE CapacityCheck(bytes)

\* __stasha_obs_new and __stasha_obs_slice_new_v4
New(bytes, site, domain) ==
  /\ Admit(NewCheck(bytes, site, domain))
  /\ Allocate(bytes, site, domain)

MovCheck(k, bytes, site) ==
  IF OperationCheck(site) # "ok" THEN OperationCheck(site)
  ELSE IF Recorded(k) /\ RecordOf(k).domain # "heap" THEN "wrong_domain"
  ELSE IF bytes = 0 THEN "zero_resize"
  ELSE IF k = Null THEN CapacityCheck(bytes)
  ELSE IF ~ Recorded(k) THEN "unknown_base"
  ELSE IF RecordOf(k).bytes > total THEN "corrupted"
  ELSE IF bytes > MaxU - (total - RecordOf(k).bytes) THEN "total" ELSE "ok"

\* (Fault: the old size stays in the total.)
Resized_KeepsOld(k, bytes) == total + bytes
Resized(k, bytes) == total - RecordOf(k).bytes + bytes

\* __stasha_obs_mov: realloc may fail and leave the block, resize it in place
\* or move it.
MovOld(k, bytes, site) ==
  /\ Admit(MovCheck(k, bytes, site)) /\ k # Null
  /\ \/ UNCHANGED <<heap, ledger, reason, pc, mode>>
     \/ \E to \in FreeKeys \cup {k} :
          /\ heap' = [[heap EXCEPT ![k] = Free] EXCEPT ![to] = bytes]
          /\ IF Indexes(to) \subseteq {IndexOf(k)}
             THEN /\ records' = [records EXCEPT ![IndexOf(k)] =
                                   [@ EXCEPT !.key = to, !.bytes = bytes, !.resize_site = site]]
                  /\ total' = Resized(k, bytes)
                  /\ UNCHANGED <<generation, reason, pc, mode>>
             ELSE Abort("duplicate") /\ UNCHANGED ledger
  /\ UNCHANGED <<settings, ending, progress, written, ret, exit, output>>

MovNew(bytes, site) ==
  /\ Admit(MovCheck(Null, bytes, site))
  /\ Allocate(bytes, site, "heap")

RemCheck(k, site, domain) ==
  IF OperationCheck(site) # "ok" THEN OperationCheck(site)
  ELSE IF k = Null THEN "ok"
  ELSE IF ~ Recorded(k) THEN "unknown_base"
  ELSE IF RecordOf(k).domain # domain THEN "wrong_domain"
  ELSE IF RecordOf(k).bytes > total THEN "corrupted" ELSE "ok"

\* (Fault: the last record is dropped instead.)
Compact_Last(i) == [j \in 1 .. Len(records) - 1 |-> records[j]]
\* The records without the i-th, in their order.
Compact(i) == [j \in 1 .. Len(records) - 1 |-> IF j < i THEN records[j] ELSE records[j + 1]]

\* __stasha_obs_rem and __stasha_obs_slice_rem_v4; of a null pointer nothing
\* is to be released.
Rem(k, site, domain) ==
  /\ Admit(RemCheck(k, site, domain)) /\ k # Null
  /\ heap' = [heap EXCEPT ![k] = Free]
  /\ total' = total - RecordOf(k).bytes
  /\ records' = Compact(IndexOf(k))
  /\ UNCHANGED <<settings, reason, ending, progress, generation, process, output>>

-------------------------------------------------------------------------------
(* The audit and the end of the suite *)

AuditTests ==
  /\ \A t \in TestIds :
       /\ tests[t] \in 0 .. 2
       /\ t > 0 => tests[t] <= tests[t - 1]
       /\ tests[t] = 1 => /\ current = t
                          /\ \A u \in TestIds : u < t => tests[u] # 1
  /\ started = Cardinality({t \in TestIds : tests[t] # 0})
  /\ completed = Cardinality({t \in TestIds : tests[t] = 2})
  /\ started = completed => current = NoTest
  /\ started # completed => started = completed + 1 /\ current = completed
  /\ \A l \in hits : l < config.lines

AuditRecord(i) ==
  LET r == records[i]
  IN  /\ r.domain \in Domains
      /\ r.domain = "slice" => r.bytes # 0 /\ r.resize_site = NoSite
      /\ r.key # Null
      /\ r.generation > (IF i = 1 THEN 0 ELSE records[i - 1].generation)
      /\ r.generation <= generation
      /\ r.alloc_site < config.sites
      /\ r.origin_test \in TestIds /\ tests[r.origin_test] # 0
      /\ r.resize_site # NoSite => r.resize_site < config.sites
      /\ \A j \in 1 .. i - 1 : records[j].key # r.key

AuditRecords == \A i \in Entries : AuditRecord(i)

SumOfRecords == MapThenSumSet(LAMBDA i : records[i].bytes, Entries)

Audit ==
  /\ Len(records) <= MaxRecords
  /\ AuditTests /\ AuditRecords
  /\ SumOfRecords = total /\ total <= MaxU

\* (Fault: a suite may end before its last test.)
SuiteDone_AnyPoint == started = completed /\ current = NoTest
SuiteDone ==
  config.tests > 0 /\ started = config.tests /\ completed = config.tests /\ current = NoTest

\* (Fault: an unfinished suite is no failure.)
FinishCheck_AnyPoint ==
  IF ~ initialized THEN "lifecycle" ELSE IF ~ Audit THEN "corrupted" ELSE reason

\* Why finish fails, or "ok".
FinishCheck ==
  IF ~ initialized THEN "lifecycle"
  ELSE IF ~ Audit THEN "corrupted"
  ELSE IF ~ SuiteDone THEN "lifecycle" ELSE reason

\* __stasha_obs_finish
Finish(f) ==
  /\ pc = "suite" /\ ~ finalized
  /\ finalized' = initialized
  /\ failed' = (initialized /\ f)
  /\ endpoint' = (initialized /\ Audit /\ SuiteDone)
  /\ reason' = Sticky(FinishCheck)
  /\ pc' = "open" /\ mode' = "finish"
  /\ UNCHANGED <<settings, progress, ledger, heap, written, ret, exit, output>>

FinishAgain ==
  /\ pc = "suite" /\ finalized
  /\ reason' = Sticky("lifecycle")
  /\ ret' = 1
  /\ UNCHANGED <<settings, ending, progress, ledger, heap, pc, mode, written, exit, output>>

-------------------------------------------------------------------------------
(* Publication: open, write and close *)

\* What the report says.
Snapshot ==
  [config |-> config, complete |-> finalized /\ endpoint /\ reason = "ok", reason |-> reason,
   endpoint |-> endpoint, failed |-> failed, tests |-> tests, started |-> started,
   completed |-> completed, hits |-> hits, records |-> records, total |-> total]

\* (Fault: a failed publication is not noted.)
Published_Ignore(good) ==
  /\ reason' = reason
  /\ IF mode = "abort" THEN pc' = "ended" /\ exit' = "nonzero" /\ UNCHANGED ret
                       ELSE pc' = "suite" /\ ret' = (IF reason' = "ok" THEN 0 ELSE 1) /\ UNCHANGED exit

\* The end of a publication.  An abort ends the process; finish returns 0 only
\* if neither the suite nor its publication failed, which is when no reason
\* has been noted.
Published(good) ==
  /\ reason' = IF good THEN reason ELSE Sticky("io")
  /\ IF mode = "abort" THEN pc' = "ended" /\ exit' = "nonzero" /\ UNCHANGED ret
                       ELSE pc' = "suite" /\ ret' = (IF reason' = "ok" THEN 0 ELSE 1) /\ UNCHANGED exit

OpenFails ==
  /\ pc = "open"
  /\ Published(FALSE)
  /\ UNCHANGED <<settings, ending, progress, ledger, heap, mode, written, output>>

\* O_CREAT with O_EXCL: there is no file yet.
Open ==
  /\ pc = "open" /\ initialized /\ path /\ file = "none"
  /\ file' = "ours" /\ left' = ReportLen /\ report' = Snapshot
  /\ written' = Audit
  /\ pc' = IF Audit THEN "write" ELSE "close"
  /\ UNCHANGED <<settings, reason, ending, progress, ledger, heap, mode, ret, exit>>

\* A write takes some of the bytes; an interrupted one is made again.
Write(n) ==
  /\ pc = "write" /\ n < left
  /\ left' = n
  /\ pc' = IF n = 0 THEN "close" ELSE "write"
  /\ UNCHANGED <<settings, reason, ending, progress, ledger, heap, mode, written, ret, exit, file, report>>

\* An error, or a report that is too long.
WriteFails ==
  /\ pc = "write"
  /\ pc' = "close" /\ written' = FALSE
  /\ UNCHANGED <<settings, reason, ending, progress, ledger, heap, mode, ret, exit, output>>

Close(closed) ==
  /\ pc = "close"
  /\ Published(written /\ closed)
  /\ UNCHANGED <<settings, ending, progress, ledger, heap, mode, written, output>>

-------------------------------------------------------------------------------
(* The process *)

Exit(code) ==
  /\ pc = "suite"
  /\ pc' = "ended" /\ exit' = code
  /\ UNCHANGED <<settings, reason, ending, progress, ledger, heap, mode, written, ret, output>>

Killed ==
  /\ pc # "ended"
  /\ pc' = "ended" /\ exit' = "signal"
  /\ UNCHANGED <<settings, reason, ending, progress, ledger, heap, mode, written, ret, output>>

Init ==
  /\ config = [tests |-> 0, lines |-> 0, sites |-> 0, coverage |-> FALSE, admitted |-> FALSE]
  /\ initialized = FALSE /\ path = FALSE
  /\ reason = "ok" /\ finalized = FALSE /\ endpoint = FALSE /\ failed = FALSE
  /\ tests = [t \in {} |-> 0] /\ started = 0 /\ completed = 0 /\ current = 0 /\ hits = {}
  /\ records = << >> /\ total = 0 /\ generation = 0
  /\ heap = [k \in Keys |-> Free]
  /\ pc = "suite" /\ mode = "abort" /\ written = FALSE /\ ret = 1 /\ exit = "none"
  /\ file \in {"none", "foreign"} /\ left = 0 /\ report = Snapshot

\* The numbers an image may pass, the first that is out of range included.
TestArgs == 0 .. config.tests
SiteArgs == 0 .. config.sites
LineArgs == 0 .. config.lines
\* Assertions are made by tests.
FailedArgs == IF started = 0 THEN {FALSE} ELSE BOOLEAN

Lifecycle ==
  \/ \E c \in Configs : (\E p \in BOOLEAN : ObsInit(c, p)) \/ Refuse(InitCheck(c))
  \/ \E t \in TestArgs : \/ TestBegin(t) \/ Refuse(BeginCheck(t))
                         \/ TestEnd(t) \/ Refuse(EndCheck(t))
  \/ \E l \in LineArgs : Hit(l) \/ Refuse(HitCheck(l))
  \/ \E f \in FailedArgs : Finish(f)
  \/ FinishAgain

\* The calls an operation at a site makes: allocations of a size in a domain,
\* resizes, and releases in a domain.
AllocationAt(s, requests, resizes, releases) ==
  \/ \E q \in requests : New(q[1], s, q[2]) \/ Refuse(NewCheck(q[1], s, q[2]))
  \/ /\ resizes
     /\ \/ \E b \in Sizes : MovNew(b, s) \/ Refuse(MovCheck(Null, b, s))
        \/ \E k \in Keys, b \in Sizes : MovOld(k, b, s) \/ Refuse(MovCheck(k, b, s))
  \/ \E k \in Keys \cup {Null}, d \in releases : Rem(k, s, d) \/ Refuse(RemCheck(k, s, d))

Allocation == \E s \in SiteArgs : AllocationAt(s, Sizes \X Domains, TRUE, Domains)

Publication ==
  \/ OpenFails \/ Open \/ WriteFails
  \/ \E n \in 0 .. ReportLen : Write(n)
  \/ \E closed \in BOOLEAN : Close(closed)

Next ==
  \/ Lifecycle \/ Allocation \/ Publication
  \/ \E code \in {"zero", "nonzero"} : Exit(code)
  \/ Killed

Spec == Init /\ [][Next]_vars

-------------------------------------------------------------------------------
(* Properties *)

Reasons == {"ok", "configuration", "lifecycle", "site", "line", "unknown_base",
            "zero_resize", "capacity", "total", "duplicate", "generation", "corrupted",
            "io", "wrong_domain", "slice_size"}

RecordType ==
  [key : Keys, generation : 1 .. MaxU, bytes : 0 .. MaxU, domain : Domains,
   alloc_site : Nat, resize_site : Nat \cup {NoSite}, origin_test : Nat]

\* Every variable stays within its type.
TypeOK ==
  /\ config \in ConfigType
  /\ {initialized, path, finalized, endpoint, failed, written} \subseteq BOOLEAN
  /\ reason \in Reasons
  /\ tests \in [TestIds -> 0 .. 2]
  /\ started \in Nat /\ completed \in Nat
  /\ current \in Nat \cup {NoTest}
  /\ hits \subseteq Nat
  /\ records \in Seq(RecordType)
  /\ total \in 0 .. MaxU /\ generation \in 0 .. MaxU
  /\ heap \in [Keys -> (0 .. MaxU) \cup {Free}]
  /\ pc \in {"suite", "open", "write", "close", "ended"}
  /\ mode \in {"abort", "finish"} /\ ret \in {0, 1}
  /\ file \in {"none", "foreign", "ours"} /\ left \in 0 .. ReportLen
  /\ exit \in {"none", "zero", "nonzero", "signal"}

\* At every point at which the ledger may be reported, the audit that precedes
\* the report passes.
AuditPasses == initialized => Audit

\* The ledger is the heap: the live blocks are recorded, each once and with
\* its size, and nothing else is.
LedgerIsHeap ==
  /\ \A k \in Keys : heap[k] = Free <=> ~ Recorded(k)
  /\ \A i \in Entries : records[i].bytes = heap[records[i].key]
  /\ \A i, j \in Entries : records[i].key = records[j].key => i = j

\* The total that is reported is the sum of the live blocks' sizes.
TotalIsHeap ==
  total = MapThenSumSet(LAMBDA k : heap[k], {k \in Keys : heap[k] # Free})

\* The bookkeeping never finds itself wrong: no call is refused for it.
NeverCorrupted == reason \notin {"corrupted", "duplicate"}

\* The ledger says what is in the heap, to the byte, and never accuses itself.
LedgerSound == AuditPasses /\ LedgerIsHeap /\ TotalIsHeap /\ NeverCorrupted

\* A report that lies whole in the file and claims to be complete is the
\* truth, then and ever after: all tests have returned and the blocks it
\* lists are those that are live.
CompleteReportTrue ==
  (file = "ours" /\ report.complete) =>
    /\ \A t \in TestIds : tests[t] = 2
    /\ report.records = records /\ report.total = total
    /\ report.hits = hits /\ report.failed = failed

\* finish returns 0 only when such a report is whole in the file.
SuccessMeansPublished ==
  ret = 0 => file = "ours" /\ left = 0 /\ report.complete

\* What the file and the return value say of an observation is so.
ReportTrue == CompleteReportTrue /\ SuccessMeansPublished

\* After the first failure nothing changes what is measured, whatever the image
\* still calls, and the failure that is reported stays the first.
FrozenByFailure ==
  [][reason # "ok" => UNCHANGED <<reason, endpoint, progress, ledger, heap>>]_vars
===============================================================================
