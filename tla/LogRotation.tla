------------------------------ MODULE LogRotation ------------------------------
(* How compilers that run at the same time in one directory share its logs:        *)
(* open_logger of src/common/logger.c (the POSIX variant).  The log of the last    *)
(* compiler is index 0; each compiler first moves every log one index on, from     *)
(* the oldest, then opens a log of its own.  All of it happens under a lock on a   *)
(* file, which the kernel takes back from a process that is killed.                *)
(*                                                                                 *)
(* Each call another process can see is a step.  A log is named by the compiler    *)
(* that wrote it; the timestamp in its name tells logs of one index apart.         *)
EXTENDS Naturals, FiniteSets

CONSTANTS LogRuns,      \* compilers
          LogMaxIndex,  \* the last index that is kept
          NoRun

ASSUME LogAssumption == LogMaxIndex \in Nat /\ NoRun \notin LogRuns

VARIABLES
  logFiles,    \* the logs there are at each index
  logLock,     \* who holds the lock
  logAt,       \* where each compiler is
  logIndex,    \* the index it is moving
  logFound,    \* the file it has found for that index
  logSince,    \* history: rotations begun since each log was opened
  logOrder     \* history: how many logs had been opened when this one was

logVars == <<logFiles, logLock, logAt, logIndex, logFound, logSince, logOrder>>

LogPlaces == {"idle", "wait", "find", "move", "fresh", "open", "running", "failed", "killed"}
LogIndices == 0 .. LogMaxIndex
Opened(r) == logOrder[r] # 0

LogInit ==
  /\ logFiles = [i \in LogIndices |-> {}]
  /\ logLock = NoRun
  /\ logAt = [r \in LogRuns |-> "idle"]
  /\ logIndex = [r \in LogRuns |-> 0]
  /\ logFound = [r \in LogRuns |-> NoRun]
  /\ logSince = [r \in LogRuns |-> 0]
  /\ logOrder = [r \in LogRuns |-> 0]

LogGoto(r, p) == logAt' = [logAt EXCEPT ![r] = p]
LogHistory == <<logSince, logOrder>>

--------------------------------------------------------------------------------

\* open_logger begins: the directory is there, or another compiler has just made it.
OpenLogger(r) ==
  /\ logAt[r] = "idle" /\ LogGoto(r, "wait")
  /\ UNCHANGED <<logFiles, logLock, logIndex, logFound, LogHistory>>

\* flock; a failure of the lock file itself ends the compiler.
\* (Fault: the lock is not taken.)
TakeLock_Not(r) ==
  /\ logAt[r] = "wait" /\ LogGoto(r, "find")
  /\ logIndex' = [logIndex EXCEPT ![r] = LogMaxIndex]
  /\ logSince' = [s \in LogRuns |-> IF Opened(s) THEN logSince[s] + 1 ELSE 0]
  /\ UNCHANGED <<logFiles, logLock, logFound, logOrder>>

TakeLock(r) ==
  /\ logAt[r] = "wait" /\ logLock = NoRun
  /\ logLock' = r /\ LogGoto(r, "find")
  /\ logIndex' = [logIndex EXCEPT ![r] = LogMaxIndex]
  /\ logSince' = [s \in LogRuns |-> IF Opened(s) THEN logSince[s] + 1 ELSE 0]
  /\ UNCHANGED <<logFiles, logFound, logOrder>>

\* The next round of rotate_logs, or what follows it.
NextRound(r) ==
  IF logIndex[r] = 0 THEN LogGoto(r, "fresh") /\ UNCHANGED logIndex
  ELSE LogGoto(r, "find") /\ logIndex' = [logIndex EXCEPT ![r] = @ - 1]

\* find_log_file_for_index takes the first match the directory gives it.
FindLog(r) ==
  /\ logAt[r] = "find"
  /\ \/ /\ logFiles[logIndex[r]] = {}
        /\ NextRound(r) /\ UNCHANGED logFound
     \/ /\ \E f \in logFiles[logIndex[r]] : logFound' = [logFound EXCEPT ![r] = f]
        /\ LogGoto(r, "move") /\ UNCHANGED logIndex
  /\ UNCHANGED <<logFiles, logLock, LogHistory>>

Release(r) == logLock' = IF logLock = r THEN NoRun ELSE logLock

\* (Fault: the oldest log is kept with its index.)
MoveLog_KeepsOldest(r) ==
  LET i == logIndex[r]  f == logFound[r] IN
    /\ logAt[r] = "move"
    /\ logFiles' = IF i = LogMaxIndex THEN logFiles
                   ELSE [logFiles EXCEPT ![i] = @ \ {f}, ![i + 1] = @ \cup {f}]
    /\ NextRound(r) /\ UNCHANGED <<logLock, logFound, LogHistory>>

\* The oldest log is removed, any other moved to the next index.  A file that is no
\* longer there is as good as removed, but cannot be moved.
MoveLog(r) ==
  LET i == logIndex[r]  f == logFound[r] IN
    /\ logAt[r] = "move"
    /\ \/ /\ i = LogMaxIndex
          /\ logFiles' = [logFiles EXCEPT ![i] = @ \ {f}]
          /\ NextRound(r) /\ UNCHANGED logLock
       \/ /\ i < LogMaxIndex /\ f \in logFiles[i]
          /\ logFiles' = [logFiles EXCEPT ![i] = @ \ {f}, ![i + 1] = @ \cup {f}]
          /\ NextRound(r) /\ UNCHANGED logLock
       \/ /\ i < LogMaxIndex /\ f \notin logFiles[i]
          /\ LogGoto(r, "failed") /\ Release(r)
          /\ UNCHANGED <<logFiles, logIndex>>
    /\ UNCHANGED <<logFound, LogHistory>>

\* What still has the name of the current log is removed.
RemoveCurrent(r) ==
  /\ logAt[r] = "fresh" /\ LogGoto(r, "open")
  /\ logFiles' = [logFiles EXCEPT ![0] = {}]
  /\ UNCHANGED <<logLock, logIndex, logFound, LogHistory>>

\* fopen with "a": where the name is taken, the log is not a new one.
OpenLog(r) ==
  /\ logAt[r] = "open" /\ LogGoto(r, "running") /\ Release(r)
  /\ logFiles' = [logFiles EXCEPT ![0] = IF @ = {} THEN {r} ELSE @]
  /\ logOrder' = [logOrder EXCEPT ![r] = 1 + Cardinality({s \in LogRuns : Opened(s)})]
  /\ UNCHANGED <<logIndex, logFound, logSince>>

KillLogger(r) ==
  /\ logAt[r] \in {"wait", "find", "move", "fresh", "open"}
  /\ LogGoto(r, "killed") /\ Release(r)
  /\ UNCHANGED <<logFiles, logIndex, logFound, LogHistory>>

LogNext ==
  \E r \in LogRuns :
    \/ OpenLogger(r) \/ TakeLock(r) \/ FindLog(r) \/ MoveLog(r) \/ RemoveCurrent(r)
    \/ OpenLog(r) \/ KillLogger(r)

LogSpec == LogInit /\ [][LogNext]_logVars

--------------------------------------------------------------------------------
(* Properties. *)

\* logger.c:283, "Rotation plus opening the new inode is one transaction. Otherwise
\* parallel compiler invocations can rename each other's selected source and fail
\* compilation": no compiler fails over another's rotation, and every compiler that
\* runs has a log of its own, in the directory until it is too old.
ParallelCompilersKeepTheirLogs ==
  \A r \in LogRuns :
    /\ logAt[r] # "failed"
    /\ Opened(r) =>
         \/ \E i \in LogIndices : r \in logFiles[i]
         \/ logSince[r] > LogMaxIndex

\* Through rotations cut short by a kill at any step, no index has two logs, and a
\* smaller index is a younger log.
LogsInOrder ==
  \A i, j \in LogIndices : \A f \in logFiles[i], g \in logFiles[j] :
    /\ i = j => f = g
    /\ i < j => logOrder[f] > logOrder[g]

\* Rotation neither loses a log nor mixes them up.
LogsSurvive == ParallelCompilersKeepTheirLogs /\ LogsInOrder

================================================================================
