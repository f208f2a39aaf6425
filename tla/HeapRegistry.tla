----------------------------- MODULE HeapRegistry ------------------------------
(* The compiler's registry of its own allocations, src/common/heap.c: a list with  *)
(* a sentinel in which each node points back to the pointer that points to it, so  *)
(* that it can take itself out.  quit looks through the list and turns a leak into *)
(* a failure of the compiler.                                                      *)
(*                                                                                 *)
(* A node's address may be given again once it has been freed.  prev_next, the     *)
(* address of a `next` field, is the node whose field it is.                       *)
EXTENDS Integers, Sequences, SequencesExt

CONSTANTS HeapNodes,   \* addresses of nodes
          Sentinel,    \* heap_list_head
          Nil

ASSUME HeapAssumption ==
  Sentinel \notin HeapNodes /\ Nil \notin HeapNodes \cup {Sentinel} /\ "off" \notin HeapNodes \cup {Nil}

VARIABLES
  heapNext, heapPrevNext, heapLast,   \* the list
  heapSize,     \* bytes of each live node, NoPointer where malloc gave none, or NotLive
  heapScan,     \* "off", or the node scan_and_deallocate looks at next
  heapLeaked,   \* reclaimed_bytes > 0
  heapExit,     \* what the process ends with: "running", "ok", "err"
  heapAsked,    \* the result quit was called with
  heapOwed,     \* history: there were bytes to free when quit was called
  heapOrder     \* history: the live nodes in the order they were allocated

heapList == <<heapNext, heapPrevNext, heapLast, heapSize, heapOrder>>
heapVars == <<heapList, heapScan, heapLeaked, heapExit, heapAsked, heapOwed>>

NotLive == -1
NoPointer == -2
Live(n) == heapSize[n] # NotLive
ByteCounts == {0, 1}

HeapInit ==
  /\ heapNext = [n \in HeapNodes \cup {Sentinel} |-> Nil]
  /\ heapPrevNext = [n \in HeapNodes |-> Nil]
  /\ heapLast = Sentinel
  /\ heapSize = [n \in HeapNodes |-> NotLive]
  /\ heapScan = "off" /\ heapLeaked = FALSE /\ heapExit = "running" /\ heapAsked = "ok" /\ heapOwed = FALSE
  /\ heapOrder = <<>>

--------------------------------------------------------------------------------

\* get_new_node with what allocate stores in the node.
NewNode(n, bytes) ==
  /\ ~Live(n)
  /\ heapNext' = [heapNext EXCEPT ![heapLast] = n, ![n] = Nil]
  /\ heapPrevNext' = [heapPrevNext EXCEPT ![n] = heapLast]
  /\ heapLast' = n
  /\ heapSize' = [heapSize EXCEPT ![n] = bytes]
  /\ heapOrder' = Append(heapOrder, n)

Busy == heapExit = "running" /\ heapScan = "off"

\* quit begins: the list is looked through from its first node.
BeginQuit(asked, first) ==
  /\ heapAsked' = asked
  /\ heapScan' = first
  /\ heapOwed' = \E n \in HeapNodes : heapSize'[n] > 0
  /\ UNCHANGED <<heapLeaked, heapExit>>

Allocate(n, bytes) ==
  /\ Busy /\ NewNode(n, bytes)
  /\ UNCHANGED <<heapScan, heapLeaked, heapExit, heapAsked, heapOwed>>

\* No memory for the bytes: the node stays in the list, without a pointer, and quit
\* passes it by.
AllocateFails(n) ==
  /\ Busy /\ NewNode(n, NoPointer)
  /\ BeginQuit("err", heapNext'[Sentinel])

\* realloc moves the bytes and leaves the node; a failure quits.  Every caller makes
\* a list longer, so none asks for no bytes, which glibc answers by freeing the block.
Reallocate(n, bytes) ==
  /\ Busy /\ Live(n) /\ bytes > 0
  /\ \/ heapSize' = [heapSize EXCEPT ![n] = bytes]
        /\ UNCHANGED <<heapScan, heapLeaked, heapExit, heapAsked, heapOwed>>
     \/ UNCHANGED heapSize /\ BeginQuit("err", heapNext[Sentinel])
  /\ UNCHANGED <<heapNext, heapPrevNext, heapLast, heapOrder>>

\* History: the nodes that are left keep their order.
ForgetNode(n) ==
  heapOrder' = RemoveAt(heapOrder, CHOOSE i \in DOMAIN heapOrder : heapOrder[i] = n)

\* (Fault: the node after the removed one keeps its back pointer.)
Unlink_NoBackPointer(n) ==
  LET before == heapPrevNext[n]  after == heapNext[n] IN
    /\ heapNext' = [heapNext EXCEPT ![before] = after]
    /\ heapPrevNext' = heapPrevNext
    /\ heapLast' = IF after # Nil THEN heapLast ELSE before
    /\ heapSize' = [heapSize EXCEPT ![n] = NotLive]
    /\ ForgetNode(n)

\* (Fault: last is not moved when the last node goes.)
Unlink_LastKept(n) ==
  LET before == heapPrevNext[n]  after == heapNext[n] IN
    /\ heapNext' = [heapNext EXCEPT ![before] = after]
    /\ heapPrevNext' = IF after = Nil THEN heapPrevNext ELSE [heapPrevNext EXCEPT ![after] = before]
    /\ heapLast' = heapLast
    /\ heapSize' = [heapSize EXCEPT ![n] = NotLive]
    /\ ForgetNode(n)

\* The node takes itself out of the list.
Unlink(n) ==
  LET before == heapPrevNext[n]  after == heapNext[n] IN
    /\ heapNext' = [heapNext EXCEPT ![before] = after]
    /\ heapPrevNext' = IF after = Nil THEN heapPrevNext ELSE [heapPrevNext EXCEPT ![after] = before]
    /\ heapLast' = IF after # Nil THEN heapLast ELSE before
    /\ heapSize' = [heapSize EXCEPT ![n] = NotLive]
    /\ ForgetNode(n)

\* Whether deallocate believes the list: what the node points back to points to it.
Believed(n) == heapNext[heapPrevNext[n]] = n

\* Callers hold a heap_t until they give it back, once.
Deallocate(n) ==
  /\ Busy /\ Live(n) /\ Believed(n)
  /\ Unlink(n)
  /\ UNCHANGED <<heapScan, heapLeaked, heapExit, heapAsked, heapOwed>>

Quit(asked) ==
  /\ Busy
  /\ UNCHANGED heapList
  /\ BeginQuit(asked, heapNext[Sentinel])

\* (Fault: the successor is read from the node that is gone.)
ScanNode_LateNext ==
  /\ heapScan \in HeapNodes
  /\ heapLeaked' = (heapLeaked \/ heapSize[heapScan] > 0)
  /\ \/ heapSize[heapScan] = NoPointer /\ UNCHANGED heapList /\ heapScan' = heapNext[heapScan]
     \/ heapSize[heapScan] # NoPointer /\ Believed(heapScan) /\ Unlink(heapScan) /\ heapScan' = Nil
  /\ UNCHANGED <<heapExit, heapAsked, heapOwed>>

\* One round of scan_and_deallocate; the successor is read before the node is freed.
ScanNode ==
  /\ heapScan \in HeapNodes
  /\ heapScan' = heapNext[heapScan]
  /\ heapLeaked' = (heapLeaked \/ heapSize[heapScan] > 0)
  /\ \/ heapSize[heapScan] = NoPointer /\ UNCHANGED heapList
     \/ heapSize[heapScan] # NoPointer /\ Believed(heapScan) /\ Unlink(heapScan)
  /\ UNCHANGED <<heapExit, heapAsked, heapOwed>>

Exit ==
  /\ heapScan = Nil /\ heapExit = "running"
  /\ heapExit' = IF heapLeaked THEN "err" ELSE heapAsked
  /\ UNCHANGED <<heapList, heapScan, heapLeaked, heapAsked, heapOwed>>

HeapNext ==
  \/ \E n \in HeapNodes, bytes \in ByteCounts : Allocate(n, bytes) \/ Reallocate(n, bytes)
  \/ \E n \in HeapNodes : AllocateFails(n) \/ Deallocate(n)
  \/ \E asked \in {"ok", "err"} : Quit(asked)
  \/ ScanNode \/ Exit

HeapSpec == HeapInit /\ [][HeapNext]_heapVars

--------------------------------------------------------------------------------
(* Properties. *)

\* In whatever order nodes come and go, the list is the live nodes in the order of
\* their allocation, the back pointers run against it and last is its end.
ListIsLiveNodes ==
  LET chain == <<Sentinel>> \o heapOrder IN
    /\ ToSet(heapOrder) = {n \in HeapNodes : Live(n)}
    /\ \A i \in 1 .. Len(chain) :
         heapNext[chain[i]] = IF i < Len(chain) THEN chain[i + 1] ELSE Nil
    /\ \A i \in 2 .. Len(chain) : heapPrevNext[chain[i]] = chain[i - 1]
    /\ heapLast = chain[Len(chain)]

\* The check for corruption in deallocate, which would quit in the middle of quit,
\* never fires.
HeapNeverCorrupted ==
  \A n \in HeapNodes : Live(n) \/ heapScan = n => Believed(n)

\* common.h, "returns Err if any leaked bytes are reclaimed, otherwise Ok": quit leaves
\* no memory behind and succeeds exactly if it was asked to while nobody held any bytes;
\* a leaked allocation without bytes goes unnoticed.
LeakFailsTheBuild ==
  heapExit # "running" =>
    /\ \A n \in HeapNodes : heapSize[n] \in {NotLive, NoPointer}
    /\ heapExit = "ok" <=> heapAsked = "ok" /\ ~heapOwed

\* Every allocation is accounted for to the end of the process.
HeapAccounted == ListIsLiveNodes /\ HeapNeverCorrupted /\ LeakFailsTheBuild

================================================================================
