----------------------------- MODULE CrashRuntime ------------------------------
(* The life of a program with init, exit and crash blocks: the constructor and the  *)
(* dispatchers that src/codegen/cg_fileheaders.c generates and the signal handler   *)
(* of src/runtime/crash_runtime.c (the POSIX variant).                              *)
(*                                                                                  *)
(* Any thread may fault whenever it executes code of the program, also within a     *)
(* crash block or an exit block.  A signal is blocked while its handler runs on     *)
(* the same thread; a fault that raises a blocked signal kills the process.  The    *)
(* handler's flag is read and stored in two steps.  The blocks of a kind are        *)
(* numbered in the order of their dispatcher (LifecycleOrder).                      *)
EXTENDS Naturals, FiniteSets

CONSTANTS CrashThreads, MainThread,
          FatalSignals,             \* SIGSEGV, SIGABRT, ...
          InitBlocks, ExitBlocks, CrashBlocks   \* how many there are

ASSUME CrashAssumption ==
  MainThread \in CrashThreads /\ {InitBlocks, ExitBlocks, CrashBlocks} \subseteq Nat

VARIABLES
  crInstalled,   \* the handlers are there, with the dispatcher of the crash blocks
  crActive,      \* __crash_active
  crAt,          \* what each thread executes
  crNext,        \* how many blocks of its dispatcher a thread has begun
  crBlocked,     \* the signals blocked on each thread, that is being handled there
  crExiting,     \* calls of exit
  crEnd,         \* how the process has ended, "no" while it runs
  crBegun,       \* history: how often each block has begun, by kind
  crFaulted      \* history: the threads that have faulted

crVars == <<crInstalled, crActive, crAt, crNext, crBlocked, crExiting, crEnd, crBegun, crFaulted>>

Kinds == {"init", "exit", "crash"}
BlocksOf(kind) == CASE kind = "init" -> InitBlocks [] kind = "exit" -> ExitBlocks [] kind = "crash" -> CrashBlocks

CrashInit ==
  /\ crInstalled = FALSE /\ crActive = FALSE
  /\ crAt = [t \in CrashThreads |-> IF t = MainThread THEN "start" ELSE "none"]
  /\ crNext = [t \in CrashThreads |-> 0]
  /\ crBlocked = [t \in CrashThreads |-> {}]
  /\ crExiting = 0 /\ crEnd = "no"
  /\ crBegun = [kind \in Kinds |-> [i \in 1 .. BlocksOf(kind) |-> 0]]
  /\ crFaulted = {}

CrGoto(t, place) == crAt' = [crAt EXCEPT ![t] = place]
CrHandler == <<crInstalled, crActive, crBlocked, crFaulted>>

--------------------------------------------------------------------------------

\* __stasha_crash_init, the first that the constructors' dispatcher calls.
InstallFirst ==
  /\ crAt[MainThread] = "start" /\ CrGoto(MainThread, "init")
  /\ crInstalled' = TRUE
  /\ UNCHANGED <<crActive, crNext, crBlocked, crExiting, crEnd, crBegun, crFaulted>>

\* A dispatcher calls its next block.
NextBlock(t, kind) ==
  /\ crAt[t] = kind /\ crNext[t] < BlocksOf(kind)
  /\ crNext' = [crNext EXCEPT ![t] = @ + 1]
  /\ crBegun' = [crBegun EXCEPT ![kind][crNext[t] + 1] = @ + 1]
  /\ UNCHANGED <<CrHandler, crAt, crExiting, crEnd>>

Finished(t, kind) == crAt[t] = kind /\ crNext[t] = BlocksOf(kind)

EnterMain ==
  /\ Finished(MainThread, "init") /\ CrGoto(MainThread, "code")
  /\ UNCHANGED <<CrHandler, crNext, crExiting, crEnd, crBegun>>

StartThread(t) ==
  /\ crAt[MainThread] = "code" /\ crAt[t] = "none" /\ CrGoto(t, "code")
  /\ UNCHANGED <<CrHandler, crNext, crExiting, crEnd, crBegun>>

\* exit runs the exit blocks on the thread that calls it, once; C leaves a second call
\* undefined.
CallExit(t) ==
  /\ crExiting' = crExiting + 1
  /\ crEnd' = IF crExiting > 0 THEN "undefined" ELSE crEnd
  /\ CrGoto(t, "exit") /\ crNext' = [crNext EXCEPT ![t] = 0]

\* main returns, or the code calls exit.
LeaveMain(t) ==
  /\ crAt[t] = "code" /\ CallExit(t)
  /\ UNCHANGED <<CrHandler, crBegun>>

ExitDone(t) ==
  /\ Finished(t, "exit")
  /\ crEnd' = IF crBlocked[t] = {} THEN "exit" ELSE "exit after crash"
  /\ UNCHANGED <<CrHandler, crAt, crNext, crExiting, crBegun>>

--------------------------------------------------------------------------------

\* A fatal signal reaches a thread that executes the program's code.
Fault(t, sig) ==
  /\ \/ crAt[t] = "code"
     \/ crAt[t] \in {"init", "exit", "crash"} /\ crNext[t] > 0
  /\ crFaulted' = crFaulted \cup {t}
  /\ \/ /\ crInstalled /\ sig \notin crBlocked[t]
        /\ CrGoto(t, "handler") /\ crBlocked' = [crBlocked EXCEPT ![t] = @ \cup {sig}]
        /\ UNCHANGED crEnd
     \/ /\ ~crInstalled \/ sig \in crBlocked[t]
        /\ crEnd' = "killed" /\ UNCHANGED <<crAt, crBlocked>>
  /\ UNCHANGED <<crInstalled, crActive, crNext, crExiting, crBegun>>

\* The handler is entered a second time.  (Fault: the flag is not looked at.)
HandlerEnters_Always(t) ==
  /\ crAt[t] = "handler" /\ CrGoto(t, "set") /\ UNCHANGED crEnd
  /\ UNCHANGED <<CrHandler, crNext, crExiting, crBegun>>

HandlerEnters(t) ==
  /\ crAt[t] = "handler"
  /\ \/ crActive /\ crEnd' = "_Exit" /\ UNCHANGED crAt
     \/ ~crActive /\ CrGoto(t, "set") /\ UNCHANGED crEnd
  /\ UNCHANGED <<CrHandler, crNext, crExiting, crBegun>>

\* The flag is stored, the report is written, and the crash blocks begin.
HandlerReports(t) ==
  /\ crAt[t] = "set" /\ CrGoto(t, "crash")
  /\ crActive' = TRUE
  /\ crNext' = [crNext EXCEPT ![t] = 0]
  /\ UNCHANGED <<crInstalled, crBlocked, crFaulted, crExiting, crEnd, crBegun>>

\* (Fault: the handler exits as soon as it has begun with the crash blocks.)
HandlerExits_Early(t) ==
  /\ crAt[t] = "crash" /\ CallExit(t)
  /\ UNCHANGED <<CrHandler, crBegun>>

HandlerExits(t) ==
  /\ Finished(t, "crash") /\ CallExit(t)
  /\ UNCHANGED <<CrHandler, crBegun>>

CrashThreadStep(t) ==
  \/ StartThread(t) \/ LeaveMain(t) \/ ExitDone(t)
  \/ \E kind \in Kinds : NextBlock(t, kind)
  \/ \E sig \in FatalSignals : Fault(t, sig)
  \/ HandlerEnters(t) \/ HandlerReports(t) \/ HandlerExits(t)

CrashNext ==
  /\ crEnd = "no"
  /\ InstallFirst \/ EnterMain \/ \E t \in CrashThreads : CrashThreadStep(t)

CrashSpec == CrashInit /\ [][CrashNext]_crVars

--------------------------------------------------------------------------------
(* Properties. *)

\* wiki/File-Headers.md:276, the runtime "invokes every registered crash block before
\* exiting. @[[exit]] blocks run after crash blocks": a program of which one thread
\* faults once ends with every crash block begun once and, unless it was already on its
\* way out, every exit block after them; init blocks are protected too.
OneFaultIsHandled ==
  /\ crEnd = "exit after crash" /\ Cardinality(crFaulted) = 1 =>
       \A kind \in {"exit", "crash"} : \A i \in 1 .. BlocksOf(kind) : crBegun[kind][i] = 1
  /\ crEnd = "killed" => \E t \in CrashThreads : crBlocked[t] # {}

\* A second fault ends the process without another round of crash blocks: no block of a
\* single-threaded program ever begins twice, and with several threads a crash block
\* begins again only if another thread faults before the first has stored the flag.
NoBlockTwice ==
  \A kind \in Kinds : \A i \in 1 .. BlocksOf(kind) :
    crBegun[kind][i] <= IF kind = "crash" THEN Cardinality(crFaulted) ELSE 1

\* The blocks a program has asked for run when it faults, and not again.
CrashBlocksRun == OneFaultIsHandled /\ NoBlockTwice

================================================================================
