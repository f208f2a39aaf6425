----------------------------- MODULE LanguageProofs ----------------------------
(* Theorems about two parts of the language, for every value of the constants. *)
(* Signals: the registry, its lock and the main thread, for every set of       *)
(* threads and every bound.  Generics: the instances a well written program    *)
(* gets, whoever asks for them first and in the middle of what.                *)
EXTENDS Signals, Generics, FiniteSetTheorems, SequenceTheorems, WellFoundedInduction, TLAPS

--------------------------------------------------------------------------------
(* Signals *)

Frame == BodyType \cup SendType

(* The stack without its top. *)
LEMMA PopFacts ==
  ASSUME NEW S, NEW s \in Seq(S), s # << >>
  PROVE  /\ Len(s) \in Nat \ {0}
         /\ Pop(s) \in Seq(S)
         /\ Len(Pop(s)) = Len(s) - 1
         /\ \A j \in 1 .. Len(s) - 1 : Pop(s)[j] = s[j]
<1>1. Len(s) \in Nat \ {0}
  BY EmptySeq
<1>2. PICK n \in Nat : n = Len(s) - 1
  BY <1>1
<1> QED
  BY <1>1, <1>2, SubSeqProperties, ElementOfSeq DEF Pop

(* The stack with another frame on top. *)
LEMMA AppendFacts ==
  ASSUME NEW S, NEW s \in Seq(S), NEW f \in S
  PROVE  /\ Len(s) \in Nat
         /\ Append(s, f) \in Seq(S)
         /\ Len(Append(s, f)) = Len(s) + 1
         /\ \A j \in 1 .. Len(s) : Append(s, f)[j] = s[j]
         /\ Append(s, f)[Len(s) + 1] = f
  OBVIOUS

-------------------------------------------------------------------------------
(* The invariant *)

\* The cells below the length hold the receivers in the order in which they
\* were registered, or nothing where one has been retired.
CellsOrdered ==
  \A i \in 0 .. len - 1 : data[i] \in {Null, i + 1} /\ udata[i] = i + 1

\* A send keeps within the length it saw, and a receiver knows its cell.
FrameOK(f) ==
  /\ f.kind = "send" => f.i <= f.snap /\ f.snap <= len
  /\ f.kind = "body" => /\ f.env = f.receiver
                        /\ f.receiver # Null => f.receiver = f.index + 1 /\ f.index < len
FramesOK == \A t \in Threads : \A j \in 1 .. Len(stack[t]) : FrameOK(stack[t][j])

\* Only a body wants something of the registry, and only a receiver to be
\* retired.
BodiesWant ==
  \A t \in Threads :
    at[t] # "run" => /\ stack[t] # << >> /\ Top(t).kind = "body"
                     /\ at[t] = "dereg" => Top(t).receiver # Null

Inductive == TypeOK /\ CellsOrdered /\ FramesOK /\ BodiesWant

(* The top of a stack is one of its frames. *)
LEMMA TopFacts ==
  ASSUME Inductive, NEW t \in Threads, stack[t] # << >>
  PROVE  /\ stack[t] \in Seq(Frame) /\ Len(stack[t]) \in Nat \ {0}
         /\ Top(t) \in Frame /\ FrameOK(Top(t))
<1> QED
  BY ElementOfSeq, EmptySeq DEF Top, Inductive, FramesOK, TypeOK, Frame

(* A frame of a kind has the fields of that kind. *)
LEMMA FrameFields ==
  ASSUME NEW f \in Frame
  PROVE  /\ f.kind = "send" => f \in SendType
         /\ f.kind = "body" => f \in BodyType
         /\ f.kind \in {"send", "body"}
BY DEF Frame, BodyType, SendType

(* A frame that is right stays so while the registry grows. *)
LEMMA FrameStays ==
  ASSUME NEW f \in Frame, FrameOK(f), len \in Nat, len' \in Nat, len <= len'
  PROVE  FrameOK(f)'
BY FrameFields DEF FrameOK, SendType, BodyType

(* One stack is replaced by another one of right frames. *)
LEMMA NewStack ==
  ASSUME Inductive, NEW t \in Threads, NEW s \in Seq(Frame),
         stack' = [stack EXCEPT ![t] = s], len' \in Nat, len <= len',
         \A j \in 1 .. Len(s) : FrameOK(s[j])'
  PROVE  stack' \in [Threads -> Seq(Frame)] /\ FramesOK'
<1>1. stack \in [Threads -> Seq(Frame)] /\ len \in Nat
  BY DEF Inductive, TypeOK, Frame
<1>3. ASSUME NEW u \in Threads, NEW j \in 1 .. Len(stack'[u]) PROVE FrameOK(stack[u][j])'
  <2>1. CASE u = t
    BY <2>1, <1>1, <1>3
  <2>2. CASE u # t
    <3>1. stack'[u] = stack[u]
      BY <1>1, <2>2
    <3>4. PICK f \in Frame : f = stack[u][j] /\ FrameOK(f)
      BY <3>1, <1>1, <1>3, ElementOfSeq DEF Inductive, FramesOK
    <3> QED
      BY <3>4, <1>1, FrameStays, <3>1 DEF FrameOK
  <2> QED
    BY <2>1, <2>2
<1> QED
  BY <1>3, <1>1 DEF FramesOK

(* A full array is copied into a larger one; the cells it adds are junk. *)
LEMMA GrownFacts ==
  ASSUME Inductive, NEW cells \in [0 .. cap - 1 -> Nat \cup {Junk}], NEW new \in Nat,
         new = IF len = cap THEN NewCapacity ELSE cap
  PROVE  /\ Grown(cells) \in [0 .. new - 1 -> Nat \cup {Junk}]
         /\ len + 1 <= new
         /\ \A i \in 0 .. len - 1 : Grown(cells)[i] = cells[i]
<1>1. len \in Nat /\ cap \in Nat /\ len <= cap /\ FirstCapacity \in Nat \ {0}
  BY SignalsAssumption DEF Inductive, TypeOK
<1>2. CASE len < cap
  BY <1>1, <1>2 DEF Grown
<1>3. CASE len = cap
  BY <1>1, <1>3 DEF Grown, NewCapacity
<1> QED
  BY <1>1, <1>2, <1>3

(* The frame of a body that has registered another receiver is still right. *)
LEMMA OwnFrame ==
  ASSUME NEW f \in BodyType, FrameOK(f), len \in Nat, NEW r \in Nat
  PROVE  /\ [f EXCEPT !.own = @ \cup {r}] \in BodyType
         /\ FrameOK([f EXCEPT !.own = @ \cup {r}])
BY DEF BodyType, FrameOK

(* What remains when the top is taken away is right. *)
LEMMA PoppedStack ==
  ASSUME Inductive, NEW t \in Threads, stack[t] # << >>
  PROVE  /\ Pop(stack[t]) \in Seq(Frame)
         /\ Len(Pop(stack[t])) = Len(stack[t]) - 1
         /\ \A j \in 1 .. Len(stack[t]) - 1 : Pop(stack[t])[j] = stack[t][j]
         /\ \A j \in 1 .. Len(Pop(stack[t])) : FrameOK(Pop(stack[t])[j])
<1> QED
  BY PopFacts, TopFacts DEF Inductive, FramesOK

(* What remains when the top is taken away is right in the next state too. *)
LEMMA PoppedStackStays ==
  ASSUME Inductive, NEW t \in Threads, stack[t] # << >>, len' \in Nat, len <= len',
         NEW s \in Seq(Frame), s = Pop(stack[t])
  PROVE  \A j \in 1 .. Len(s) : FrameOK(s[j])'
<1> QED
  BY FrameStays, PoppedStack, ElementOfSeq DEF Inductive, TypeOK

(* A stack of right frames with another one on top. *)
LEMMA PushedStack ==
  ASSUME NEW s \in Seq(Frame), NEW f \in Frame, \A j \in 1 .. Len(s) : FrameOK(s[j])', FrameOK(f)'
  PROVE  Append(s, f) \in Seq(Frame) /\ \A j \in 1 .. Len(Append(s, f)) : FrameOK(Append(s, f)[j])'
<1>1. /\ Len(s) \in Nat
      /\ Append(s, f) \in Seq(Frame)
      /\ Len(Append(s, f)) = Len(s) + 1
      /\ \A j \in 1 .. Len(s) : Append(s, f)[j] = s[j]
      /\ Append(s, f)[Len(s) + 1] = f
  BY AppendFacts
<1>2. ASSUME NEW j \in 1 .. Len(s) + 1 PROVE FrameOK(Append(s, f)[j])'
  <2>1. CASE j = Len(s) + 1
    BY <1>1, <2>1
  <2>2. CASE j # Len(s) + 1
    BY <1>1, <2>2
  <2> QED
    BY <2>1, <2>2
<1> QED
  BY <1>1, <1>2

(* The program begins with empty arrays, and every thread with its own code. *)
LEMMA InvariantInit == Init => Inductive
<1> SUFFICES ASSUME Init PROVE Inductive
  OBVIOUS
<1>1. Code \in BodyType /\ FrameOK(Code) /\ Code.kind = "body"
  BY DEF Code, Body, BodyType, FrameOK, Null
<1>2. <<Code>> \in Seq(BodyType \cup SendType) /\ Len(<<Code>>) = 1 /\ <<Code>>[1] = Code
  BY <1>1
<1>3. TypeOK
  <2>4. /\ lock \in BOOLEAN /\ inside \subseteq Threads
        /\ at \in [Threads -> {"run", "register", "snapshot", "dereg"}]
        /\ quitting \in BOOLEAN /\ exiting \in Threads \cup {None}
        /\ over \in {"no", "exit", "_Exit", "undefined"}
        /\ framed \subseteq Nat /\ sent \in Nat
    BY DEF Init
  <2> QED
    BY <2>4, <1>2 DEF TypeOK, Init
<1> QED
  BY <1>3, <1>1, <1>2 DEF Inductive, Init, FramesOK, CellsOrdered, BodiesWant

(* Where no cell changes, the cells stay ordered. *)
LEMMA CellsStay ==
  ASSUME Inductive, UNCHANGED <<data, udata, len>>
  PROVE  CellsOrdered'
BY DEF Inductive, CellsOrdered

(* A thread that wants nothing afterwards may have any stack. *)
LEMMA WantsNothing ==
  ASSUME Inductive, NEW t \in Threads, NEW s, stack' = [stack EXCEPT ![t] = s],
         at' \in [Threads -> {"run", "register", "snapshot", "dereg"}],
         at'[t] = "run", \A u \in Threads : u # t => at'[u] = at[u]
  PROVE  BodiesWant'
<1> QED
  BY DEF BodiesWant, Top, Inductive, TypeOK

(* The steps that change no stack keep the frames as they are. *)
LEMMA SameFrames ==
  ASSUME Inductive, UNCHANGED <<stack, len>>
  PROVE  FramesOK'
BY DEF Inductive, FramesOK, FrameOK

(* A body asks for the registry. *)
LEMMA WantStep ==
  ASSUME Inductive, NEW t \in Threads, NEW w \in {"register", "snapshot", "dereg"}, Runs(t),
         w = "dereg" => Top(t).receiver # Null,
         at' = [at EXCEPT ![t] = w], UNCHANGED <<registry, locking, stack, process, framed>>,
         sent' \in Nat
  PROVE  Inductive'
<1>3. BodiesWant'
  <2>1. ASSUME NEW u \in Threads, at'[u] # "run"
        PROVE  /\ stack[u] # << >> /\ Top(u).kind = "body"
               /\ at'[u] = "dereg" => Top(u).receiver # Null
    <3>1. CASE u = t
      BY <3>1 DEF Runs, Inductive, TypeOK
    <3>2. CASE u # t
      BY <2>1, <3>2 DEF Inductive, TypeOK, BodiesWant
    <3> QED
      BY <3>1, <3>2
  <2> QED
    BY <2>1 DEF BodiesWant, Top
<1> QED
  BY <1>3, CellsStay, SameFrames DEF Inductive, registry, TypeOK, locking, process

(* A stack is replaced, and the registry stays as it is. *)
LEMMA StackStep ==
  ASSUME Inductive, NEW t \in Threads, NEW s \in Seq(Frame),
         stack' = [stack EXCEPT ![t] = s], UNCHANGED registry,
         \A j \in 1 .. Len(s) : FrameOK(s[j])',
         at' \in [Threads -> {"run", "register", "snapshot", "dereg"}],
         at'[t] = "run", \A u \in Threads : u # t => at'[u] = at[u],
         lock' \in BOOLEAN, inside' \subseteq Threads,
         quitting' \in BOOLEAN, exiting' \in Threads \cup {None},
         over' \in {"no", "exit", "_Exit", "undefined"}, framed' \subseteq Nat, sent' \in Nat
  PROVE  Inductive'
<1>1. len \in Nat /\ len' = len /\ len <= len'
  BY DEF Inductive, TypeOK, registry
<1> QED
  BY <1>1, NewStack, CellsStay, WantsNothing DEF Inductive, TypeOK, registry, Frame

(* The lock is taken, or a send or a registration begins to want it. *)
LEMMA AcquireStep ==
  ASSUME Inductive, NEW t \in Threads, Acquire(t)
  PROVE  Inductive'
<1> QED
  BY CellsStay, SameFrames DEF Inductive, Acquire, registry, TypeOK, process, BodiesWant, Top

(* A receiver is registered. *)
LEMMA RegisterStep ==
  ASSUME Inductive, NEW t \in Threads, Register(t)
  PROVE  Inductive'
<1>1. /\ len \in Nat /\ cap \in Nat /\ len <= cap /\ len' = len + 1 /\ len' \in Nat
      /\ FirstCapacity \in Nat \ {0}
      /\ data \in [0 .. cap - 1 -> Nat \cup {Junk}] /\ udata \in [0 .. cap - 1 -> Nat \cup {Junk}]
  BY SignalsAssumption DEF Inductive, TypeOK, Register
<1>2. cap' \in Nat /\ cap' = IF len = cap THEN NewCapacity ELSE cap
  BY <1>1 DEF Register, NewCapacity
<1>3. PICK new \in Nat : new = cap'
  BY <1>2
<1>4. /\ Grown(data) \in [0 .. new - 1 -> Nat \cup {Junk}]
      /\ Grown(udata) \in [0 .. new - 1 -> Nat \cup {Junk}]
      /\ len + 1 <= new
      /\ \A i \in 0 .. len - 1 : Grown(data)[i] = data[i] /\ Grown(udata)[i] = udata[i]
  BY <1>1, <1>2, <1>3, GrownFacts
<1>5. /\ data' \in [0 .. cap' - 1 -> Nat \cup {Junk}] /\ udata' \in [0 .. cap' - 1 -> Nat \cup {Junk}]
      /\ data'[len] = len + 1 /\ udata'[len] = len + 1
      /\ \A i \in 0 .. len - 1 : data'[i] = data[i] /\ udata'[i] = udata[i]
  BY <1>1, <1>3, <1>4 DEF Register
<1>6. CellsOrdered'
  <2>1. ASSUME NEW i \in 0 .. len' - 1 PROVE data'[i] \in {Null, i + 1} /\ udata'[i] = i + 1
    <3>1. CASE i = len
      BY <3>1, <1>5
    <3>2. CASE i # len
      BY <1>5, <1>1, <3>2 DEF Inductive, CellsOrdered
    <3> QED
      BY <3>1, <3>2
  <2> QED
    BY <2>1 DEF CellsOrdered
<1>7. stack[t] # << >> /\ Top(t).kind = "body"
  BY DEF Inductive, BodiesWant, Register, Locked
<1>8. PICK f \in BodyType : f = Top(t) /\ FrameOK(f)
  BY <1>7, TopFacts, FrameFields
<1>9. PICK g \in BodyType : g = [f EXCEPT !.own = @ \cup {len + 1}] /\ FrameOK(g)
  BY <1>1, <1>8, OwnFrame
<1>10. g \in Frame /\ FrameOK(g)'
  BY <1>1, <1>9, FrameStays DEF Frame
<1>11. PICK p \in Seq(Frame) : p = Pop(stack[t])
  BY <1>7, PoppedStack
<1>12. \A j \in 1 .. Len(p) : FrameOK(p[j])'
  BY <1>1, <1>7, <1>11, PoppedStackStays
<1>13. PICK s \in Seq(Frame) : s = Append(p, g) /\ \A j \in 1 .. Len(s) : FrameOK(s[j])'
  BY <1>10, <1>12, PushedStack
<1>14. stack' = [stack EXCEPT ![t] = s]
  BY <1>8, <1>9, <1>11, <1>13 DEF Register, Inductive, TypeOK
<1>15. stack' \in [Threads -> Seq(Frame)] /\ FramesOK'
  <2>1. len <= len'
    BY <1>1
  <2> QED
    BY <1>1, <1>13, <1>14, <2>1, NewStack
<1>16. at' \in [Threads -> {"run", "register", "snapshot", "dereg"}] /\ at'[t] = "run"
       /\ \A u \in Threads : u # t => at'[u] = at[u]
  BY DEF Inductive, TypeOK, Register
<1>18. TypeOK'
  <2>1. lock' \in BOOLEAN /\ inside' \subseteq Threads /\ framed' \subseteq Nat
    BY <1>1 DEF Inductive, TypeOK, Register, Released
  <2> QED
    BY <1>1, <1>2, <1>5, <1>15, <1>16, <2>1, <1>3, <1>4 DEF TypeOK, Frame, Inductive, Register, process
<1> QED
  BY <1>6, <1>15, <1>18, <1>14, <1>16, WantsNothing DEF Inductive

(* A receiver breaks: its own cell is emptied, and it returns. *)
LEMMA DeregStep ==
  ASSUME Inductive, NEW t \in Threads, Dereg(t)
  PROVE  Inductive'
<1>1. len \in Nat /\ cap \in Nat /\ len <= cap /\ len' = len /\ cap' = cap /\ udata' = udata
      /\ data \in [0 .. cap - 1 -> Nat \cup {Junk}]
  BY DEF Inductive, TypeOK, Dereg
<1>2. stack[t] # << >>
  BY DEF Inductive, BodiesWant, Dereg, Locked
<1>3. PICK c : c = Top(t).index
  OBVIOUS
<1>4. data' = [data EXCEPT ![c] = Null]
  BY <1>3 DEF Dereg
<1>5. CellsOrdered' /\ data' \in [0 .. cap' - 1 -> Nat \cup {Junk}]
  <2>3. \A i \in 0 .. len - 1 : data'[i] \in {Null, i + 1} /\ udata'[i] = i + 1
    BY <1>1, <1>4 DEF Inductive, CellsOrdered
  <2> QED
    BY <1>1, <2>3, <1>4 DEF CellsOrdered, Null
<1>6. PICK p \in Seq(Frame) : p = Pop(stack[t])
  BY <1>2, PoppedStack
<1>8. stack' = [stack EXCEPT ![t] = p]
  BY <1>6 DEF Dereg, Inductive, TypeOK
<1>9. stack' \in [Threads -> Seq(Frame)] /\ FramesOK'
  <2>1. len <= len' /\ len' \in Nat
    BY <1>1
  <2> QED
    BY <1>8, <2>1, NewStack, <1>1, <1>2, <1>6, PoppedStackStays
<1>10. at' \in [Threads -> {"run", "register", "snapshot", "dereg"}] /\ at'[t] = "run"
       /\ \A u \in Threads : u # t => at'[u] = at[u]
  BY DEF Inductive, TypeOK, Dereg
<1>12. TypeOK'
  BY <1>1, <1>5, <1>9, <1>10 DEF TypeOK, Frame, Inductive, Dereg, process, Released
<1> QED
  BY <1>5, <1>9, <1>12, <1>8, <1>10, WantsNothing DEF Inductive

(* The frame of a send is right while it keeps within the registry. *)
LEMMA SendFrame ==
  ASSUME NEW i \in Nat, NEW snap \in Nat, i <= snap, snap <= len'
  PROVE  Send(i, snap) \in Frame /\ FrameOK(Send(i, snap))'
<1>1. PICK f \in SendType : f = Send(i, snap)
  BY DEF Send, SendType
<1> QED
  BY <1>1 DEF Frame, FrameOK, Send

(* The frame of a receiver is right when it has the captures of its cell. *)
LEMMA BodyFrame ==
  ASSUME NEW i \in Nat, i < len'
  PROVE  Body(i + 1, i + 1, i) \in Frame /\ FrameOK(Body(i + 1, i + 1, i))'
<1>1. PICK f \in BodyType : f = Body(i + 1, i + 1, i)
  <2>1. i + 1 \in Nat /\ {} \in SUBSET Nat
    OBVIOUS
  <2> QED
    BY <2>1 DEF Body, BodyType
<1> QED
  BY <1>1 DEF Frame, FrameOK, Body

(* A send takes the length. *)
LEMMA SnapshotStep ==
  ASSUME Inductive, NEW t \in Threads, Snapshot(t)
  PROVE  Inductive'
<1>1. len \in Nat /\ len' = len /\ len <= len'
  BY DEF Inductive, TypeOK, Snapshot, registry
<1>2. PICK f \in Frame : f = Send(0, len) /\ FrameOK(f)'
  <2>1. PICK n \in Nat : n = len
    BY <1>1
  <2>3. PICK g \in Frame : g = Send(0, n) /\ FrameOK(g)'
    BY <1>1, <2>1, SendFrame
  <2> QED
    BY <2>1, <2>3
<1>5. PICK q \in Seq(Frame) : q = stack[t]
  BY DEF Inductive, TypeOK, Frame
<1>7. PICK s \in Seq(Frame) : s = Append(q, f) /\ \A j \in 1 .. Len(s) : FrameOK(s[j])'
  BY <1>2, PushedStack, <1>1, <1>5, FrameStays, ElementOfSeq DEF Inductive, FramesOK
<1> QED
  BY <1>7, StackStep, <1>2, <1>5 DEF Inductive, TypeOK, Snapshot, Released, process

(* A send goes to its next cell, and runs the receiver it finds there. *)
LEMMA ReadStep ==
  ASSUME Inductive, NEW t \in Threads, Read(t)
  PROVE  Inductive'
<1>1. len \in Nat /\ cap \in Nat /\ len <= cap /\ len' = len /\ len <= len'
  BY DEF Inductive, TypeOK, Read, registry
<1>2. stack[t] # << >> /\ at[t] = "run"
  BY DEF Read, Sends
<1>3. PICK f \in SendType : f = Top(t) /\ FrameOK(f) /\ f.i < f.snap /\ f.kind = "send"
  BY <1>2, TopFacts, FrameFields DEF Read, Sends, Ahead
<1>4. PICK i \in 0 .. len - 1 : i = f.i
  BY <1>1, <1>3 DEF SendType, FrameOK
<1>6. PICK g \in Frame : g = Send(i + 1, f.snap) /\ FrameOK(g)'
  BY SendFrame, <1>1, <1>3, <1>4 DEF SendType, FrameOK
<1>7. PICK p \in Seq(Frame) : p = Pop(stack[t]) /\ \A j \in 1 .. Len(p) : FrameOK(p[j])'
  BY <1>1, <1>2, PoppedStack, PoppedStackStays
<1>8. PICK q \in Seq(Frame) : q = Append(p, g) /\ \A j \in 1 .. Len(q) : FrameOK(q[j])'
  BY <1>6, <1>7, PushedStack
<1>9. /\ UNCHANGED registry
      /\ at' \in [Threads -> {"run", "register", "snapshot", "dereg"}]
      /\ at'[t] = "run" /\ \A u \in Threads : u # t => at'[u] = at[u]
      /\ lock' \in BOOLEAN /\ inside' \subseteq Threads
      /\ quitting' \in BOOLEAN /\ exiting' \in Threads \cup {None}
      /\ over' \in {"no", "exit", "_Exit", "undefined"} /\ framed' \subseteq Nat /\ sent' \in Nat
  BY <1>2 DEF Inductive, TypeOK, Read, Released, process
<1>10. stack' = [stack EXCEPT ![t] = IF data[i] = Null THEN q ELSE Append(q, Body(data[i], udata[i], i))]
  BY <1>3, <1>4, <1>6, <1>7, <1>8 DEF Read, Inductive, TypeOK
<1>11. CASE data[i] = Null
  BY <1>8, <1>9, StackStep, <1>10, <1>11
<1>12. CASE data[i] # Null
  <2>1. PICK b \in Frame : b = Body(data[i], udata[i], i) /\ FrameOK(b)'
    BY BodyFrame, <1>1, <1>4, <1>12 DEF Inductive, CellsOrdered
  <2>2. PICK s \in Seq(Frame) : s = Append(q, b) /\ \A j \in 1 .. Len(s) : FrameOK(s[j])'
    BY <1>8, <2>1, PushedStack
  <2> QED
    BY <1>9, <2>2, StackStep, <1>10, <1>12, <2>1
<1> QED
  BY <1>11, <1>12

(* A send or a body ends, and the frame below it goes on. *)
LEMMA PopStep ==
  ASSUME Inductive, NEW t \in Threads, SendDone(t) \/ Return(t)
  PROVE  Inductive'
<1>1. len \in Nat /\ len' = len /\ len <= len'
  BY DEF Inductive, TypeOK, SendDone, Return, registry
<1>2. stack[t] # << >> /\ at[t] = "run"
  BY DEF SendDone, Return, Sends, Runs
<1>3. PICK p \in Seq(Frame) : p = Pop(stack[t]) /\ \A j \in 1 .. Len(p) : FrameOK(p[j])'
  BY <1>1, <1>2, PoppedStack, PoppedStackStays
<1> QED
  BY <1>3, StackStep, <1>2 DEF Inductive, TypeOK, SendDone, Return, process, locking

(* The frame of code that is not a receiver's is right. *)
LEMMA CodeIsRight == Code \in Frame /\ FrameOK(Code) /\ FrameOK(Code)'
BY DEF Code, Body, BodyType, FrameOK, Frame, Null

(* A function is called. *)
LEMMA CallStep ==
  ASSUME Inductive, NEW t \in Threads, Call(t)
  PROVE  Inductive'
<1>4. PICK q \in Seq(Frame) : q = stack[t]
  BY DEF Inductive, TypeOK, Frame
<1>6. \A j \in 1 .. Len(q) : FrameOK(q[j])'
  BY FrameStays, ElementOfSeq, <1>4 DEF Inductive, TypeOK, Call, registry, FramesOK
<1>7. PICK s \in Seq(Frame) : s = Append(q, Code) /\ \A j \in 1 .. Len(s) : FrameOK(s[j])'
  BY <1>6, CodeIsRight, PushedStack
<1> QED
  BY <1>7, StackStep, <1>4 DEF Inductive, TypeOK, Call, process, locking, Runs

(* The program ends, or begins to, or a thread does. *)
LEMMA EndStep ==
  ASSUME Inductive, NEW t \in Threads, Quit(t) \/ BottomReturns(t)
  PROVE  Inductive'
<1>2. /\ UNCHANGED registry
      /\ at' \in [Threads -> {"run", "register", "snapshot", "dereg"}]
      /\ at'[t] = "run" /\ \A u \in Threads : u # t => at'[u] = at[u]
      /\ lock' \in BOOLEAN /\ inside' \subseteq Threads
      /\ quitting' \in BOOLEAN /\ framed' \subseteq Nat /\ sent' \in Nat
  BY DEF Inductive, TypeOK, Quit, BottomReturns, locking, Runs
<1>3. exiting' \in Threads \cup {None} /\ over' \in {"no", "exit", "_Exit", "undefined"}
  BY DEF Inductive, TypeOK, Quit, BottomReturns, ExitCall
<1>6. CASE UNCHANGED stack
  BY <1>2, <1>6, CellsStay, SameFrames, <1>3 DEF Inductive, registry, TypeOK, BodiesWant, Top, Quit,
     BottomReturns
<1>7. CASE stack' = [stack EXCEPT ![t] = <<Code>>]
  <2>1. PICK s \in Seq(Frame) : s = <<Code>>
    <3>1. <<Code>> \in Seq(Frame)
      BY CodeIsRight
    <3> QED
      BY <3>1
  <2>2. ASSUME NEW j \in 1 .. Len(s) PROVE FrameOK(s[j])'
    BY CodeIsRight, <2>1 DEF FrameOK
  <2> QED
    BY <1>2, <1>3, <1>7, <2>1, <2>2, StackStep
<1>8. CASE stack' = [stack EXCEPT ![t] = << >>]
  <2>1. PICK s \in Seq(Frame) : s = << >>
    <3>1. << >> \in Seq(Frame)
      OBVIOUS
    <3> QED
      BY <3>1
  <2>2. \A j \in 1 .. Len(s) : FrameOK(s[j])'
    BY <2>1
  <2> QED
    BY <1>2, <1>3, <1>8, <2>1, <2>2, StackStep
<1> QED
  BY <1>6, <1>7, <1>8 DEF Quit, BottomReturns, ExitCall

(* Every step keeps the invariant. *)
LEMMA InvariantStep == Inductive /\ [Next]_vars => Inductive'
<1> SUFFICES ASSUME Inductive, [Next]_vars PROVE Inductive'
  OBVIOUS
<1>1. CASE UNCHANGED vars
  BY <1>1, CellsStay, SameFrames DEF Inductive, TypeOK, BodiesWant, Top, vars, registry, locking, process
<1>2. ASSUME NEW t \in Threads,
             \/ Step(t) \/ Watch(t) \/ SendValue(t) \/ Call(t) \/ Break(t) \/ Quit(t) \/ BottomReturns(t)
      PROVE  Inductive'
  <2>1. CASE Acquire(t)
    BY <2>1, AcquireStep
  <2>2. CASE Register(t)
    BY <2>2, RegisterStep
  <2>3. CASE Snapshot(t)
    BY <2>3, SnapshotStep
  <2>4. CASE Read(t)
    BY <2>4, ReadStep
  <2>5. CASE SendDone(t) \/ Return(t)
    BY <2>5, PopStep
  <2>6. CASE Dereg(t)
    BY <2>6, DeregStep
  <2>7. CASE Watch(t)
    BY WantStep, <2>7 DEF Watch, Inductive, TypeOK
  <2>8. CASE SendValue(t)
    <3>2. sent' \in Nat
      BY <2>8 DEF SendValue, Inductive, TypeOK
    <3> QED
      BY <3>2, WantStep, <2>8 DEF SendValue
  <2>9. CASE Break(t)
    BY WantStep, <2>9 DEF Break, Inductive, TypeOK
  <2>10. CASE Call(t)
    BY <2>10, CallStep
  <2>11. CASE Quit(t) \/ BottomReturns(t)
    BY <2>11, EndStep
  <2> QED
    BY <1>2, <2>1, <2>2, <2>3, <2>4, <2>5, <2>6, <2>7, <2>8, <2>9, <2>10, <2>11 DEF Step
<1> QED
  BY <1>1, <1>2 DEF Next

(* Whatever threads, bounds and schedule, the invariant holds throughout. *)
THEOREM InvariantHolds == Spec => []Inductive
BY InvariantInit, InvariantStep, PTL DEF Spec

(* Every variable keeps its type: the arrays always have the capacity that is *)
(* noted, and the length fits.                                                *)
THEOREM TypeCorrect == Spec => []TypeOK
<1>1. Inductive => TypeOK
  BY DEF Inductive
<1> QED
  BY <1>1, InvariantHolds, PTL

(* A receiver runs with its own captures and knows its own cell, however the *)
(* arrays grow while it runs.                                                *)
THEOREM CapturesAreOwn == Spec => []OwnCaptures
<1>1. ASSUME Inductive PROVE OwnCaptures
  <2>2. \A t \in Threads : DOMAIN stack[t] = 1 .. Len(stack[t])
    BY <1>1 DEF Inductive, TypeOK, Frame
  <2> QED
    BY <1>1, <2>2 DEF Inductive, FramesOK, FrameOK, OwnCaptures
<1> QED
  BY <1>1, InvariantHolds, PTL

-------------------------------------------------------------------------------
(* The arrays implement SignalBus *)

\* What a stack is to SignalBus, for given cells.
Cells(d, from, below) == {d[i] : i \in from .. below - 1} \ {Null}
FrameIn(d, f) ==
  IF f.kind = "send"
  THEN [kind |-> "send", pending |-> Cells(d, f.i, f.snap)]
  ELSE [kind |-> "body", receiver |-> f.receiver]
StackIn(d, s) == [j \in 1 .. Len(s) |-> FrameIn(d, s[j])]
FramesIn(d) == {FrameIn(d, f) : f \in Frame}

(* The refinement mapping in these terms, now and in the next state. *)
LEMMA MappingIs ==
  /\ [t \in Threads |-> AbstractStack(stack[t])] = [t \in Threads |-> StackIn(data, stack[t])]
  /\ [t \in Threads |-> AbstractStack(stack[t])]' = [t \in Threads |-> StackIn(data', stack'[t])]
  /\ Receivers(0, len) = Cells(data, 0, len)
  /\ Receivers(0, len)' = Cells(data', 0, len')
BY DEF AbstractStack, StackIn, Abstract, FrameIn, Receivers, Cells

(* The view of a stack has a frame for each frame of it. *)
LEMMA ViewFacts ==
  ASSUME NEW d, NEW s \in Seq(Frame)
  PROVE  /\ Len(s) \in Nat
         /\ StackIn(d, s) \in Seq(FramesIn(d))
         /\ Len(StackIn(d, s)) = Len(s)
         /\ \A j \in 1 .. Len(s) : StackIn(d, s)[j] = FrameIn(d, s[j])
<1>1. PICK n \in Nat : n = Len(s)
  OBVIOUS
<1>3. PICK v \in [1 .. n -> FramesIn(d)] : v = [j \in 1 .. n |-> FrameIn(d, s[j])]
  BY <1>1, ElementOfSeq DEF FramesIn
<1> QED
  BY <1>1, <1>3 DEF StackIn

(* The view of a stack with another frame on top. *)
LEMMA ViewOfPush ==
  ASSUME NEW d, NEW s \in Seq(Frame), NEW f \in Frame
  PROVE  StackIn(d, Append(s, f)) = Append(StackIn(d, s), FrameIn(d, f))
<1>1. PICK q \in Seq(Frame) : q = Append(s, f) /\ Len(q) = Len(s) + 1
        /\ (\A j \in 1 .. Len(s) : q[j] = s[j]) /\ q[Len(s) + 1] = f
  BY AppendFacts
<1>2. PICK v \in Seq(FramesIn(d)) : /\ v = StackIn(d, s) /\ Len(v) = Len(s)
                                    /\ \A j \in 1 .. Len(s) : v[j] = FrameIn(d, s[j])
  BY ViewFacts
<1>3. PICK w \in Seq(FramesIn(d)) : /\ w = StackIn(d, q) /\ Len(w) = Len(q)
                                    /\ \A j \in 1 .. Len(q) : w[j] = FrameIn(d, q[j])
  BY ViewFacts
<1>4. FrameIn(d, f) \in FramesIn(d)
  BY DEF FramesIn
<1>5. PICK x \in Seq(FramesIn(d)) : /\ x = Append(v, FrameIn(d, f)) /\ Len(x) = Len(v) + 1
                                    /\ \A j \in 1 .. Len(v) : x[j] = v[j]
                                    /\ x[Len(v) + 1] = FrameIn(d, f)
  BY <1>4, AppendFacts
<1>6. Len(s) \in Nat
  OBVIOUS
<1> QED
  BY <1>1, <1>2, <1>3, <1>5, SeqEqual, <1>6

(* The view of a stack without its top. *)
LEMMA ViewOfPop ==
  ASSUME NEW d, NEW s \in Seq(Frame), s # << >>
  PROVE  /\ StackIn(d, Pop(s)) = Pop(StackIn(d, s))
         /\ StackIn(d, s) # << >>
         /\ StackIn(d, s)[Len(StackIn(d, s))] = FrameIn(d, s[Len(s)])
<1>1. PICK q \in Seq(Frame) : /\ q = Pop(s) /\ Len(q) = Len(s) - 1
                              /\ \A j \in 1 .. Len(s) - 1 : q[j] = s[j]
  BY PopFacts
<1>2. PICK v \in Seq(FramesIn(d)) : /\ v = StackIn(d, s) /\ Len(v) = Len(s)
                                    /\ \A j \in 1 .. Len(s) : v[j] = FrameIn(d, s[j])
  BY ViewFacts
<1>3. PICK w \in Seq(FramesIn(d)) : /\ w = StackIn(d, q) /\ Len(w) = Len(q)
                                    /\ \A j \in 1 .. Len(q) : w[j] = FrameIn(d, q[j])
  BY ViewFacts
<1>4. Len(s) \in Nat \ {0}
  BY EmptySeq
<1>5. v # << >>
  BY <1>2, <1>4
<1>6. PICK x \in Seq(FramesIn(d)) : /\ x = Pop(v) /\ Len(x) = Len(v) - 1
                                    /\ \A j \in 1 .. Len(v) - 1 : x[j] = v[j]
  BY <1>5, PopFacts
<1>7. \A j \in 1 .. Len(w) : w[j] = x[j]
  BY <1>1, <1>2, <1>3, <1>4, <1>6
<1>8. Len(w) = Len(x)
  BY <1>1, <1>2, <1>3, <1>6
<1>9. w = x
  BY <1>7, <1>8, SeqEqual
<1> QED
  BY <1>1, <1>2, <1>3, <1>5, <1>6, <1>9, <1>4

(* The view of the top of a stack is what SignalBus sees on top. *)
LEMMA TopOfView ==
  ASSUME Inductive, NEW t \in Threads, stack[t] # << >>
  PROVE  /\ [u \in Threads |-> AbstractStack(stack[u])][t] = StackIn(data, stack[t])
         /\ StackIn(data, stack[t]) # << >>
         /\ Bus!Top(t) = FrameIn(data, Top(t))
         /\ Bus!Pop(StackIn(data, stack[t])) = StackIn(data, Pop(stack[t]))
<1> QED
  BY ViewOfPop, MappingIs DEF Bus!Pop, Pop, Bus!Top, Top, Inductive, TypeOK, Frame

(* One stack is replaced and the cells stay as they are. *)
LEMMA ReplacedView ==
  ASSUME Inductive, NEW t \in Threads, NEW s, stack' = [stack EXCEPT ![t] = s], UNCHANGED data
  PROVE  [u \in Threads |-> AbstractStack(stack[u])]'
           = [[u \in Threads |-> AbstractStack(stack[u])] EXCEPT ![t] = StackIn(data, s)]
<1>3. [u \in Threads |-> StackIn(data', stack'[u])]
        = [u \in Threads |-> IF u = t THEN StackIn(data, s) ELSE StackIn(data, stack[u])]
  BY DEF Inductive, TypeOK, Frame
<1> QED
  BY <1>3, MappingIs

(* The fields of a frame's view. *)
LEMMA ViewOfFrame ==
  ASSUME NEW d, NEW f \in Frame
  PROVE  /\ FrameIn(d, f).kind = f.kind
         /\ f.kind = "send" => /\ FrameIn(d, f) = Bus!Sending(Cells(d, f.i, f.snap))
                               /\ FrameIn(d, f).pending = Cells(d, f.i, f.snap)
         /\ f.kind = "body" => /\ FrameIn(d, f) = Bus!Running(f.receiver)
                               /\ FrameIn(d, f).receiver = f.receiver
BY FrameFields DEF FrameIn, Bus!Sending, Bus!Running

(* A body runs in SignalBus where one runs here. *)
LEMMA BodyRuns ==
  ASSUME Inductive, NEW t \in Threads, stack[t] # << >>, Top(t).kind = "body"
  PROVE  /\ Bus!Runs(t) /\ Bus!Top(t).receiver = Top(t).receiver
<1> QED
  BY TopOfView, ViewOfFrame, TopFacts DEF Bus!Runs

(* A send is under way in SignalBus where one is here. *)
LEMMA SendSends ==
  ASSUME Inductive, NEW t \in Threads, Sends(t)
  PROVE  /\ Bus!Sends(t) /\ Bus!Top(t).pending = Cells(data, Top(t).i, Top(t).snap)
<1> QED
  BY TopOfView, ViewOfFrame, TopFacts DEF Bus!Sends, Sends

(* Where registry and stacks stay as they are, SignalBus stutters. *)
LEMMA Stutters ==
  ASSUME UNCHANGED <<data, len, stack>>
  PROVE  UNCHANGED Bus!vars
<1> QED
  BY MappingIs DEF Bus!vars, Receivers

(* A stack without its top, in SignalBus as here. *)
LEMMA PoppedView ==
  ASSUME Inductive, NEW t \in Threads, stack[t] # << >>,
         stack' = [stack EXCEPT ![t] = Pop(@)], UNCHANGED data
  PROVE  [u \in Threads |-> AbstractStack(stack[u])]'
           = [[u \in Threads |-> AbstractStack(stack[u])] EXCEPT ![t] = Bus!Pop(@)]
<1>2. [u \in Threads |-> AbstractStack(stack[u])]'
        = [[u \in Threads |-> AbstractStack(stack[u])] EXCEPT ![t] = StackIn(data, Pop(stack[t]))]
  BY ReplacedView DEF Inductive, TypeOK
<1> QED
  BY <1>2, TopOfView

(* A call, a return and the end of a send are those of SignalBus. *)
LEMMA CallView ==
  ASSUME Inductive, NEW t \in Threads, Call(t)
  PROVE  Bus!Call(t)
<1>1. Bus!Runs(t) /\ UNCHANGED <<data, len>>
  BY BodyRuns DEF Call, Runs, registry
<1>2. stack[t] \in Seq(Frame) /\ stack' = [stack EXCEPT ![t] = Append(stack[t], Code)]
  BY DEF Inductive, TypeOK, Frame, Call
<1>4. StackIn(data, Append(stack[t], Code)) = Append(StackIn(data, stack[t]), Bus!Running(0))
  BY <1>2, CodeIsRight, ViewOfPush DEF FrameIn, Code, Body, Bus!Running, Null
<1>5. [u \in Threads |-> AbstractStack(stack[u])]'
        = [[u \in Threads |-> AbstractStack(stack[u])] EXCEPT ![t] = Append(@, Bus!Running(0))]
  <2>1. [u \in Threads |-> AbstractStack(stack[u])]'
          = [[u \in Threads |-> AbstractStack(stack[u])] EXCEPT ![t] = StackIn(data, Append(stack[t], Code))]
    BY <1>1, <1>2, ReplacedView
  <2> QED
    BY <1>4, <2>1, MappingIs
<1> QED
  BY <1>1, <1>5 DEF Bus!Call, Receivers

(* A body that returns. *)
LEMMA ReturnView ==
  ASSUME Inductive, NEW t \in Threads, Return(t)
  PROVE  Bus!Return(t)
<1> QED
  BY PoppedView, BodyRuns DEF Bus!Return, Return, Receivers, Runs, registry

(* A send that is through its cells. *)
LEMMA SendDoneView ==
  ASSUME Inductive, NEW t \in Threads, SendDone(t)
  PROVE  Bus!End(t)
<1>2. PICK f \in SendType : f = Top(t) /\ f.snap <= f.i
  <2>1. PICK f \in SendType : f = Top(t)
    BY TopFacts, FrameFields DEF SendDone, Sends
  <2> QED
    BY <2>1 DEF SendDone, Ahead, SendType
<1>4. Bus!Top(t).pending = {}
  BY <1>2, SendSends DEF SendDone, Cells, SendType
<1> QED
  BY <1>4, PoppedView, SendSends DEF Bus!End, SendDone, Receivers, Sends, registry

(* A send begins with the receivers that are active. *)
LEMMA SnapshotView ==
  ASSUME Inductive, NEW t \in Threads, Snapshot(t)
  PROVE  Bus!Begin(t)
<1>1. /\ UNCHANGED <<data, len>> /\ len \in Nat
      /\ stack[t] \in Seq(Frame) /\ stack' = [stack EXCEPT ![t] = Append(stack[t], Send(0, len))]
  BY DEF Inductive, TypeOK, Frame, Snapshot, registry
<1>5. StackIn(data, Append(stack[t], Send(0, len)))
        = Append(StackIn(data, stack[t]), Bus!Sending(Receivers(0, len)))
  BY <1>1, ViewOfPush, ViewOfFrame, MappingIs DEF Send, Frame, SendType
<1>6. [u \in Threads |-> AbstractStack(stack[u])]'
        = [[u \in Threads |-> AbstractStack(stack[u])] EXCEPT ![t] = Append(@, Bus!Sending(Receivers(0, len)))]
  <2>1. [u \in Threads |-> AbstractStack(stack[u])]'
          = [[u \in Threads |-> AbstractStack(stack[u])] EXCEPT ![t] = StackIn(data, Append(stack[t], Send(0, len)))]
    BY <1>1, ReplacedView
  <2> QED
    BY <1>5, <2>1, MappingIs
<1> QED
  BY <1>6, BodyRuns, <1>1 DEF Bus!Begin, Inductive, BodiesWant, Snapshot, Locked, Receivers

(* The cells of a registry whose receivers are in the order of their numbers. *)
LEMMA CellFacts ==
  ASSUME NEW d, NEW n \in Nat, \A i \in 0 .. n - 1 : d[i] \in {Null, i + 1},
         NEW from \in Nat, NEW below \in Nat, below <= n
  PROVE  \A r : r \in Cells(d, from, below) <=> r \in from + 1 .. below /\ d[r - 1] # Null
<1>1. ASSUME NEW r \in Cells(d, from, below) PROVE r \in from + 1 .. below /\ d[r - 1] # Null
  <2>1. PICK i \in from .. below - 1 : r = d[i] /\ r # Null
    BY <1>1 DEF Cells
  <2>4. r - 1 = i /\ r \in from + 1 .. below
    BY <2>1
  <2> QED
    BY <2>1, <2>4
<1>2. ASSUME NEW r \in from + 1 .. below, d[r - 1] # Null PROVE r \in Cells(d, from, below)
  <2>1. PICK i \in from .. below - 1 : i = r - 1
    OBVIOUS
  <2> QED
    BY <1>2, <2>1 DEF Cells, Null
<1> QED
  BY <1>1, <1>2

(* Of the cells that remain, the next is the lowest: it is empty, or it has the *)
(* receiver that was registered first.                                          *)
LEMMA NextCell ==
  ASSUME NEW d, NEW n \in Nat, \A i \in 0 .. n - 1 : d[i] \in {Null, i + 1},
         NEW from \in Nat, NEW below \in Nat, from < below, below <= n
  PROVE  /\ d[from] = Null => Cells(d, from + 1, below) = Cells(d, from, below)
         /\ d[from] # Null => /\ from + 1 \in Cells(d, from, below)
                              /\ \A q \in Cells(d, from, below) : from + 1 <= q
                              /\ Cells(d, from + 1, below) = Cells(d, from, below) \ {from + 1}
<1>1. PICK next \in Nat : next = from + 1
  OBVIOUS
<1>2. /\ \A r : r \in Cells(d, from, below) <=> r \in from + 1 .. below /\ d[r - 1] # Null
      /\ \A r : r \in Cells(d, next, below) <=> r \in next + 1 .. below /\ d[r - 1] # Null
  BY CellFacts
<1>3. \A r \in from + 1 .. below : r \in next + 1 .. below <=> r # next
  BY <1>1
<1>4. next + 1 .. below \subseteq from + 1 .. below /\ next \in from + 1 .. below /\ next - 1 = from
  BY <1>1
<1>5. CASE d[from] = Null
  BY <1>1, <1>5, <1>2, <1>3, <1>4
<1>6. CASE d[from] # Null
  BY <1>1, <1>6, <1>2, <1>3, <1>4
<1> QED
  BY <1>5, <1>6

(* Emptying a cell takes its receiver out of every send. *)
LEMMA EmptiedCell ==
  ASSUME NEW d, NEW e, NEW n \in Nat, \A i \in 0 .. n - 1 : d[i] \in {Null, i + 1},
         NEW c \in 0 .. n - 1, \A i \in 0 .. n - 1 : e[i] = IF i = c THEN Null ELSE d[i],
         NEW from \in Nat, NEW below \in Nat, below <= n
  PROVE  Cells(e, from, below) = Cells(d, from, below) \ {c + 1}
<1>2. /\ \A r : r \in Cells(d, from, below) <=> r \in from + 1 .. below /\ d[r - 1] # Null
      /\ \A r : r \in Cells(e, from, below) <=> r \in from + 1 .. below /\ e[r - 1] # Null
  BY CellFacts
<1> QED
  BY <1>2

(* Cells that do not change are seen as they were. *)
LEMMA SameCells ==
  ASSUME NEW d, NEW e, NEW n \in Nat, \A i \in 0 .. n - 1 : e[i] = d[i],
         NEW from \in Nat, NEW below \in Nat, below <= n
  PROVE  Cells(e, from, below) = Cells(d, from, below)
<1> QED
  BY DEF Cells

(* A send goes on to its next cell: it delivers to the receiver in it. *)
LEMMA ReadView ==
  ASSUME Inductive, NEW t \in Threads, Read(t)
  PROVE  Bus!Deliver(t) \/ UNCHANGED Bus!vars
<1>1. /\ UNCHANGED <<data, len>> /\ len \in Nat /\ stack[t] # << >> /\ Sends(t)
      /\ \A i \in 0 .. len - 1 : data[i] \in {Null, i + 1} /\ udata[i] = i + 1
  BY DEF Inductive, TypeOK, CellsOrdered, Read, Sends, registry
<1>2. PICK f \in SendType : f = Top(t) /\ FrameOK(f) /\ f.kind = "send" /\ f.i < f.snap
  BY <1>1, TopFacts, FrameFields DEF Read, Sends, Ahead
<1>3. PICK i \in Nat, n \in Nat : i = f.i /\ n = f.snap /\ i < n /\ n <= len
  BY <1>2 DEF SendType, FrameOK
<1>4. /\ data[i] = Null => Cells(data, i + 1, n) = Cells(data, i, n)
      /\ data[i] # Null => /\ i + 1 \in Cells(data, i, n)
                           /\ \A q \in Cells(data, i, n) : i + 1 <= q
                           /\ Cells(data, i + 1, n) = Cells(data, i, n) \ {i + 1}
  <2>1. PICK m \in Nat : m = len /\ n <= m /\ \A k \in 0 .. m - 1 : data[k] \in {Null, k + 1}
    BY <1>1, <1>3
  <2> QED
    BY <1>3, <2>1, NextCell, SMTT(40)
<1>5. Bus!Sends(t) /\ Bus!Top(t).pending = Cells(data, i, n)
  BY <1>1, <1>2, <1>3, SendSends
<1>6. PICK g \in Frame : g = Send(i + 1, n) /\ FrameIn(data, g) = Bus!Sending(Cells(data, i + 1, n))
  <2>1. Send(i + 1, n) \in Frame /\ Send(i + 1, n).kind = "send"
        /\ Send(i + 1, n).i = i + 1 /\ Send(i + 1, n).snap = n
    BY <1>3 DEF Send, Frame, SendType
  <2> QED
    BY <2>1, ViewOfFrame
<1>7. PICK p \in Seq(Frame) : p = Pop(stack[t])
  BY <1>1, PoppedStack
<1>8. PICK q \in Seq(Frame) : /\ q = Append(p, g)
                              /\ StackIn(data, q) = Append(StackIn(data, p), FrameIn(data, g))
  BY AppendFacts, ViewOfPush
<1>9. stack' = [stack EXCEPT ![t] = IF data[i] = Null THEN q ELSE Append(q, Body(data[i], udata[i], i))]
  BY <1>2, <1>3, <1>6, <1>7, <1>8 DEF Read, Inductive, TypeOK
<1>10. [u \in Threads |-> AbstractStack(stack[u])][t] = StackIn(data, stack[t])
  BY MappingIs
<1>12. UNCHANGED <<len, Receivers(0, len)>>
  BY <1>1 DEF Receivers
<1>13. CASE data[i] = Null
  <2>1. [u \in Threads |-> AbstractStack(stack[u])]'
          = [[u \in Threads |-> AbstractStack(stack[u])] EXCEPT ![t] = StackIn(data, q)]
    BY <1>1, <1>9, <1>13, ReplacedView
  <2>2. StackIn(data, q) = StackIn(data, stack[t])
    <3>1. PICK s \in Seq(Frame) : s = stack[t]
      BY DEF Inductive, TypeOK, Frame
    <3>2. Len(s) \in Nat \ {0} /\ Len(p) = Len(s) - 1 /\ \A j \in 1 .. Len(s) - 1 : p[j] = s[j]
      BY <1>1, <1>7, <3>1, PopFacts
    <3>4. FrameIn(data, g) = FrameIn(data, s[Len(s)])
      BY <1>4, <1>6, <1>13, <1>2, <1>3, ViewOfFrame, <3>1 DEF Top, Frame
    <3> QED
      BY <3>1, <3>2, <3>4, <1>8, AppendFacts DEF StackIn
  <2> QED
    BY <1>12, <1>10, <2>1, <2>2 DEF Bus!vars
<1>14. CASE data[i] # Null
  <2>1. data[i] = i + 1 /\ udata[i] = i + 1
    BY <1>1, <1>3, <1>14
  <2>2. PICK b \in Frame : b = Body(i + 1, i + 1, i) /\ FrameIn(data, b) = Bus!Running(i + 1)
    <3>1. Body(i + 1, i + 1, i) \in Frame
      BY <1>1, <1>3, BodyFrame
    <3> QED
      BY <3>1, ViewOfFrame DEF Body
  <2>4. [u \in Threads |-> AbstractStack(stack[u])]'
          = [[u \in Threads |-> AbstractStack(stack[u])] EXCEPT ![t] = StackIn(data, Append(q, b))]
    BY <1>1, ReplacedView, <1>9, <1>14, <2>1, <2>2
  <2>5. StackIn(data, Append(q, b)) = Append(Append(StackIn(data, p), FrameIn(data, g)), FrameIn(data, b))
    BY <1>8, ViewOfPush
  <2>6. FrameIn(data, g) = Bus!Sending(Bus!Top(t).pending \ {i + 1})
    BY <1>4, <1>5, <1>6, <1>14
  <2>7. [u \in Threads |-> AbstractStack(stack[u])]'
          = [[u \in Threads |-> AbstractStack(stack[u])] EXCEPT ![t] =
               Append(Append(Bus!Pop(@), Bus!Sending(Bus!Top(t).pending \ {i + 1})), Bus!Running(i + 1))]
    BY <1>10, <2>2, <2>4, <2>5, <2>6, <1>1, <1>7, TopOfView
  <2> QED
    BY <1>5, <1>12, <2>7, <1>4, <1>14 DEF Bus!Deliver
<1> QED
  BY <1>13, <1>14

(* Leaving the program is leaving what the thread was doing; where the process *)
(* ends at once nothing changes that SignalBus sees.                           *)
LEMMA EndView ==
  ASSUME Inductive, NEW t \in Threads, Quit(t) \/ BottomReturns(t)
  PROVE  Bus!Leave(t) \/ Bus!Return(t) \/ UNCHANGED Bus!vars
<1>1. UNCHANGED <<data, len>> /\ stack[t] # << >> /\ Bus!Runs(t)
  BY BodyRuns DEF Quit, BottomReturns, Runs, registry
<1>2. UNCHANGED <<len, Receivers(0, len)>>
  BY <1>1 DEF Receivers
<1>4. CASE UNCHANGED stack
  BY <1>1, <1>4, Stutters
<1>5. CASE stack' = [stack EXCEPT ![t] = <<Code>>]
  <2>2. StackIn(data, <<Code>>) = <<Bus!Running(0)>>
    BY DEF StackIn, FrameIn, Code, Body, Bus!Running, Null
  <2> QED
    BY <1>1, <1>2, <1>5, <2>2, ReplacedView DEF Bus!Leave
<1>6. CASE stack' = [stack EXCEPT ![t] = << >>] /\ Len(stack[t]) = 1
  <2>1. PICK p \in Seq(Frame) : p = Pop(stack[t]) /\ Len(p) = 0
    <3>1. Pop(stack[t]) \in Seq(Frame) /\ Len(Pop(stack[t])) = Len(stack[t]) - 1
      BY <1>1, PoppedStack
    <3> QED
      BY <3>1, <1>6
  <2>3. stack' = [stack EXCEPT ![t] = Pop(@)]
    BY <1>6, <2>1 DEF Inductive, TypeOK
  <2> QED
    BY <1>1, <1>2, <2>3, PoppedView DEF Bus!Return
<1> QED
  BY <1>4, <1>5, <1>6 DEF Quit, BottomReturns, ExitCall

(* A registration is seen by the sends that begin after it only. *)
LEMMA RegisterView ==
  ASSUME Inductive, NEW t \in Threads, Register(t)
  PROVE  Bus!Register(t)
<1>1. /\ len \in Nat /\ cap \in Nat /\ len <= cap /\ len' = len + 1
      /\ data \in [0 .. cap - 1 -> Nat \cup {Junk}]
      /\ stack \in [Threads -> Seq(Frame)] /\ stack[t] # << >> /\ Top(t).kind = "body"
  BY DEF Inductive, TypeOK, BodiesWant, Register, Locked, Frame
<1>2. PICK n \in Nat : n = len
  BY <1>1
<1>3. data'[n] = n + 1 /\ \A i \in 0 .. n - 1 : data'[i] = data[i]
  <2>1. PICK new \in Nat : new = IF len = cap THEN NewCapacity ELSE cap
    BY <1>1, SignalsAssumption DEF NewCapacity
  <2>2. /\ Grown(data) \in [0 .. new - 1 -> Nat \cup {Junk}] /\ len + 1 <= new
        /\ \A i \in 0 .. len - 1 : Grown(data)[i] = data[i]
    BY <1>1, <2>1, GrownFacts
  <2> QED
    BY <1>1, <1>2, <2>2 DEF Register
<1>cells. \A from, below \in Nat : below <= n => Cells(data', from, below) = Cells(data, from, below)
  <2>1. PICK d, e : d = data /\ e = data' /\ \A i \in 0 .. n - 1 : e[i] = d[i]
    BY <1>3
  <2>2. ASSUME NEW from \in Nat, NEW below \in Nat, below <= n
        PROVE  Cells(e, from, below) = Cells(d, from, below)
    BY <2>1, <2>2, SameCells
  <2> QED
    BY <2>1, <2>2
<1>4. Bus!Runs(t)
  BY <1>1, BodyRuns
<1>5. Receivers(0, len)' = Receivers(0, len) \cup {len + 1}
  <2>1. Cells(data', 0, n) = Cells(data, 0, n)
    BY <1>cells
  <2>2. n + 1 # Null
    BY DEF Null
  <2>3. Cells(data', 0, n + 1) = Cells(data', 0, n) \cup {n + 1}
    <3>1. \A i : i \in 0 .. (n + 1) - 1 <=> i \in 0 .. n - 1 \/ i = n
      OBVIOUS
    <3> QED
      BY <1>3, <2>2, <3>1 DEF Cells
  <2> QED
    BY <1>1, <1>2, <2>1, <2>3, MappingIs
<1>6. PICK g : g = [Top(t) EXCEPT !.own = @ \cup {len + 1}]
  OBVIOUS
<1>7. PICK f \in BodyType : f = Top(t)
  BY <1>1, TopFacts, FrameFields
<1>8. g \in Frame /\ g.kind = "body" /\ f.kind = "body" /\ g.receiver = f.receiver
  <2>1. g = [f EXCEPT !.own = @ \cup {n + 1}]
    BY <1>2, <1>6, <1>7
  <2>2. g \in BodyType /\ g.receiver = f.receiver
    BY <2>1 DEF BodyType
  <2> QED
    BY <2>2, <1>7 DEF BodyType, Frame
<1>9. PICK s \in Seq(Frame) : s = stack[t]
  BY <1>1
<1>10. PICK p \in Seq(Frame) : p = Pop(s) /\ Len(p) = Len(s) - 1 /\ Len(s) \in Nat \ {0}
         /\ \A j \in 1 .. Len(s) - 1 : p[j] = s[j]
  BY <1>1, <1>9, PopFacts
<1>11. PICK q \in Seq(Frame) : q = Append(p, g) /\ Len(q) = Len(p) + 1
         /\ (\A j \in 1 .. Len(p) : q[j] = p[j]) /\ q[Len(p) + 1] = g
  BY <1>8, AppendFacts, ZenonT(40)
<1>12. Len(q) = Len(s) /\ q[Len(s)] = g /\ s[Len(s)] = f /\ \A j \in 1 .. Len(s) - 1 : q[j] = s[j]
  BY <1>7, <1>9, <1>10, <1>11 DEF Top
<1>13. stack' = [stack EXCEPT ![t] = q]
  BY <1>1, <1>6, <1>9, <1>10, <1>11 DEF Register
<1>14. ASSUME NEW u \in Threads, NEW j \in 1 .. Len(stack[u])
       PROVE  FrameIn(data', stack[u][j]) = FrameIn(data, stack[u][j])
  <2>1. PICK h \in Frame : h = stack[u][j] /\ FrameOK(h)
    BY <1>1, <1>14, ElementOfSeq DEF Inductive, FramesOK
  <2>2. CASE h.kind = "send"
    <3>1. h.i \in Nat /\ h.snap \in Nat /\ h.snap <= n
      BY <1>2, <2>1, <2>2, FrameFields DEF SendType, FrameOK
    <3>2. Cells(data', h.i, h.snap) = Cells(data, h.i, h.snap)
      BY <1>cells, <3>1
    <3> QED
      BY <2>1, <2>2, <3>2 DEF FrameIn
  <2>3. CASE h.kind # "send"
    BY <2>1, <2>3 DEF FrameIn
  <2> QED
    BY <2>2, <2>3
<1>15. ASSUME NEW u \in Threads PROVE StackIn(data', stack'[u]) = StackIn(data, stack[u])
  <2>1. CASE u # t
    <3>1. stack'[u] = stack[u]
      BY <1>1, <1>13, <2>1
    <3> QED
      BY <1>14, <3>1 DEF StackIn
  <2>2. CASE u = t
    <3>1. stack'[u] = q /\ stack[u] = s
      BY <1>1, <1>9, <1>13, <2>2
    <3>2. FrameIn(data', g) = FrameIn(data, f)
      BY <1>8 DEF FrameIn
    <3>3. \A j \in 1 .. Len(s) : FrameIn(data', q[j]) = FrameIn(data, s[j])
      BY <1>10, <1>12, <1>14, <2>2, <3>1, <3>2
    <3> QED
      BY <1>12, <3>1, <3>3 DEF StackIn
  <2> QED
    BY <2>1, <2>2
<1>16. UNCHANGED [u \in Threads |-> AbstractStack(stack[u])]
  BY <1>15, MappingIs
<1> QED
  BY <1>1, <1>4, <1>5, <1>16 DEF Bus!Register

(* A receiver that breaks is taken out of every send that has not come to it. *)
LEMMA DeregView ==
  ASSUME Inductive, NEW t \in Threads, Dereg(t)
  PROVE  Bus!Retire(t)
<1>1. /\ len \in Nat /\ cap \in Nat /\ len <= cap /\ len' = len
      /\ data \in [0 .. cap - 1 -> Nat \cup {Junk}]
      /\ stack \in [Threads -> Seq(Frame)] /\ stack[t] # << >> /\ Top(t).kind = "body"
      /\ Top(t).receiver # Null
  BY DEF Inductive, TypeOK, BodiesWant, Dereg, Locked, Frame
<1>2. PICK n \in Nat : n = len /\ \A i \in 0 .. n - 1 : data[i] \in {Null, i + 1}
  BY <1>1 DEF Inductive, CellsOrdered
<1>3. PICK c \in 0 .. n - 1 : c = Top(t).index /\ Top(t).receiver = c + 1
  <2>1. PICK f \in BodyType : f = Top(t) /\ FrameOK(f) /\ f.kind = "body"
    BY <1>1, TopFacts, FrameFields
  <2> QED
    BY <2>1, <1>1, <1>2 DEF FrameOK, BodyType
<1>4. \A i \in 0 .. n - 1 : data'[i] = IF i = c THEN Null ELSE data[i]
  BY <1>1, <1>2, <1>3 DEF Dereg
<1>cells. \A from, below \in Nat :
         below <= n => Cells(data', from, below) = Cells(data, from, below) \ {c + 1}
  <2>1. PICK d, e : /\ d = data /\ e = data'
                    /\ \A i \in 0 .. n - 1 : d[i] \in {Null, i + 1}
                    /\ \A i \in 0 .. n - 1 : e[i] = IF i = c THEN Null ELSE d[i]
    BY <1>2, <1>4
  <2>2. ASSUME NEW from \in Nat, NEW below \in Nat, below <= n
        PROVE  Cells(e, from, below) = Cells(d, from, below) \ {c + 1}
    BY <2>1, <2>2, EmptiedCell
  <2> QED
    BY <2>1, <2>2
<1>7. ASSUME NEW s \in Seq(Frame), \A j \in 1 .. Len(s) : FrameOK(s[j])
      PROVE  StackIn(data', s) = Bus!Without(StackIn(data, s), c + 1)
  <2>1. /\ Len(StackIn(data, s)) = Len(s)
        /\ \A j \in 1 .. Len(s) : StackIn(data, s)[j] = FrameIn(data, s[j])
    BY ViewFacts
  <2>2. ASSUME NEW j \in 1 .. Len(s)
        PROVE  FrameIn(data', s[j]) = IF StackIn(data, s)[j].kind = "send"
                                      THEN Bus!Sending(StackIn(data, s)[j].pending \ {c + 1})
                                      ELSE StackIn(data, s)[j]
    <3>1. PICK h \in Frame : h = s[j] /\ FrameOK(h)
      BY <1>7, ElementOfSeq
    <3>2. StackIn(data, s)[j] = FrameIn(data, h) /\ FrameIn(data, h).kind = h.kind
      BY <2>1, <3>1, ViewOfFrame
    <3>3. CASE h.kind = "send"
      <4>2. Cells(data', h.i, h.snap) = Cells(data, h.i, h.snap) \ {c + 1}
        BY <1>cells, <1>2, <3>1, <3>3, FrameFields DEF SendType, FrameOK
      <4>3. /\ FrameIn(data, h).pending = Cells(data, h.i, h.snap)
            /\ FrameIn(data', h) = Bus!Sending(Cells(data', h.i, h.snap))
        BY <3>3, ViewOfFrame
      <4> QED
        BY <3>1, <3>2, <3>3, <4>2, <4>3
    <3>4. CASE h.kind # "send"
      BY <3>1, <3>2, <3>4 DEF FrameIn
    <3> QED
      BY <3>3, <3>4
  <2> QED
    BY <2>1, <2>2 DEF StackIn, Bus!Without
<1>8. PICK p \in Seq(Frame) : p = Pop(stack[t]) /\ \A j \in 1 .. Len(p) : FrameOK(p[j])
  BY <1>1, PoppedStack
<1>10. ASSUME NEW u \in Threads
       PROVE  StackIn(data', stack'[u])
                = Bus!Without(IF u = t THEN Bus!Pop(StackIn(data, stack[u])) ELSE StackIn(data, stack[u]), c + 1)
  <2>1. CASE u = t
    BY <1>7, <1>8, <2>1, <1>1, TopOfView DEF Dereg
  <2>2. CASE u # t
    <3>2. PICK s \in Seq(Frame) : s = stack[u] /\ \A j \in 1 .. Len(s) : FrameOK(s[j])
      BY <1>1 DEF Inductive, FramesOK
    <3> QED
      BY <1>7, <2>2, <3>2, <1>1 DEF Dereg
  <2> QED
    BY <2>1, <2>2
<1> QED
  BY <1>1, <1>3, BodyRuns, <1>10, MappingIs, <1>2, <1>cells DEF Bus!Retire

(* The program begins as SignalBus does. *)
LEMMA ViewInit == Init => Bus!Init
<1> SUFFICES ASSUME Init PROVE Bus!Init
  OBVIOUS
<1>3. StackIn(data, <<Code>>) = <<Bus!Running(0)>>
  BY DEF StackIn, FrameIn, Code, Body, Bus!Running, Null
<1> QED
  BY <1>3, MappingIs DEF Init, Bus!Init, Receivers

(* Every step is one of SignalBus, or nothing to it. *)
LEMMA ViewStep == Inductive /\ [Next]_vars => [Bus!Next]_(Bus!vars)
<1> SUFFICES ASSUME Inductive, [Next]_vars PROVE [Bus!Next]_(Bus!vars)
  OBVIOUS
<1>1. CASE UNCHANGED vars
  BY <1>1, Stutters DEF vars, registry
<1>2. ASSUME NEW t \in Threads,
             \/ Step(t) \/ Watch(t) \/ SendValue(t) \/ Call(t) \/ Break(t) \/ Quit(t) \/ BottomReturns(t)
      PROVE  Bus!Next \/ UNCHANGED Bus!vars
  <2>1. CASE Acquire(t) \/ Watch(t) \/ SendValue(t) \/ Break(t)
    BY <2>1, Stutters DEF Acquire, Watch, SendValue, Break, registry
  <2>2. CASE Register(t)
    BY <2>2, RegisterView DEF Bus!Next
  <2>3. CASE Snapshot(t)
    BY <2>3, SnapshotView DEF Bus!Next
  <2>4. CASE Read(t)
    BY <2>4, ReadView DEF Bus!Next
  <2>5. CASE SendDone(t)
    BY <2>5, SendDoneView DEF Bus!Next
  <2>6. CASE Return(t)
    BY <2>6, ReturnView DEF Bus!Next
  <2>7. CASE Dereg(t)
    BY <2>7, DeregView DEF Bus!Next
  <2>8. CASE Call(t)
    BY <2>8, CallView DEF Bus!Next
  <2>9. CASE Quit(t) \/ BottomReturns(t)
    BY <2>9, EndView DEF Bus!Next
  <2> QED
    BY <1>2, <2>1, <2>2, <2>3, <2>4, <2>5, <2>6, <2>7, <2>8, <2>9 DEF Step
<1> QED
  BY <1>1, <1>2 DEF Next

(* The arrays implement SignalBus: with any number of threads, sends within    *)
(* sends and the lock free between two cells, a send runs the receivers that    *)
(* were active when it began, in the order of their registration, each once,    *)
(* but for those that are retired before their turn.                            *)
THEOREM ArraysImplementBus == Spec => ImplementsBus
<1>1. Spec => Bus!Spec
  BY ViewInit, ViewStep, InvariantHolds, PTL DEF Spec, Bus!Spec
<1> QED
  BY <1>1 DEF ImplementsBus

--------------------------------------------------------------------------------
(* Generics.  The stack of tasks stands for the calls of the generator that are *)
(* under way, and what each of them saved is only used when it is back on top:  *)
(* the invariant says, for every task of the stack, what context it will find,  *)
(* and what of the state is not finished before it is done.                     *)

\* The context of a body that is generated in as many unsafe blocks.
Around(c, f, u) == [c EXCEPT !.block = f, !.unsafe = @ + u]

\* A context has its parts and nothing else.
IsContext(c) ==
  c = [fn |-> c.fn, block |-> c.block, gives |-> c.gives, struct |-> c.struct, inline |-> c.inline,
       main |-> c.main, coro |-> c.coro, loop |-> c.loop, deferring |-> c.deferring, unsafe |-> c.unsafe,
       locals |-> c.locals, cleanups |-> c.cleanups, module |-> c.module, meaning |-> c.meaning]

\* The functions of the program: its own, those of its templates, and the methods.
Declared(p, f) ==
  /\ f = Symbol(f.of, f.method) /\ f.of \in Names /\ f.method # "type"
  /\ IF f.method # ""
     THEN /\ Instantiable(p, "struct", f.of)
          /\ \E i \in DOMAIN Methods(p, f.of) : Methods(p, f.of)[i].name = f.method
     ELSE IF Len(f.of) > 1 THEN Instantiable(p, "function", f.of)
     ELSE Len(f.of) = 1 /\ Plain(p, f.of) # {}

\* What is on the stack.
Tasks(s) == {s[k] : k \in DOMAIN s}

\* A task that is in the middle of a body.
IsBody(t) == t.do \in {"method", "function", "plain"}

\* A task that restores the context of whoever asked for its instance.
Saves(t) == t.do \in {"methods", "instance", "function"}

\* A task that takes the context it finds as its own, rather than one alike.
Exact(t) == t.do \in {"method", "function", "plain", "instance"}

\* What a task leaves to the next.
Alike(c, d) ==
  /\ c.meaning = d.meaning /\ c.module = d.module /\ c.loop = d.loop /\ (c.deferring <=> d.deferring)
  /\ c.coro = d.coro /\ (c.main <=> d.main) /\ c.unsafe = d.unsafe

\* The context between two declarations of the program.
AtRest(c) == IsContext(c) /\ c.meaning = << >> /\ c.loop = 0 /\ ~c.deferring /\ c.unsafe = 0

\* The context of an instance that is outside its bodies.
Outside(c, meaning) ==
  /\ IsContext(c) /\ c.unsafe \in Nat /\ c.meaning = meaning
  /\ c.loop = 0 /\ ~c.deferring /\ ~c.main /\ c.coro = NoSymbol

\* The context that is restored at the end: the saved one.
Returns(c, saved, d) == c.module = saved.module /\ c.unsafe = saved.unsafe /\ d = saved

\* The context in which the next statement of a body under way is generated.
FrameOf(p, t) == Around(ContextOf(p, t.of, t.at - 1), t.of, t.before.unsafe)

\* The type parameters of every template.
AllParameters(p) == UNION {Parameters(t) : t \in p.templates}

\* The context c in which a task finds the generator, and d the one it leaves.
Follows(p, t, c, d) ==
  /\ IsContext(c) /\ IsContext(d) /\ c.unsafe \in Nat /\ d.unsafe \in Nat
  /\ t.do = "layout" =>
       /\ Alike(c, d) /\ DOMAIN c.meaning \subseteq AllParameters(p)
       /\ Len(t.name) # 1 => c.meaning = MeaningOf(p, TypeNode(t.name))
  /\ t.do = "methods" => Outside(c, MeaningOf(p, TypeNode(t.name))) /\ Returns(c, t.saved, d)
  /\ t.do = "instance" =>
       Outside(c, MeaningOf(p, Function(t.name))) /\ c.locals = << >> /\ Returns(c, t.saved, d)
  /\ IsBody(t) => c = FrameOf(p, t)
  /\ t.do = "method" => Outside(t.before, MeaningOf(p, t.of)) /\ Alike(t.before, d)
  /\ t.do = "function" => Outside(t.before, MeaningOf(p, t.of)) /\ Returns(t.before, t.saved, d)
  /\ t.do = "plain" => AtRest(t.before) /\ AtRest(d)
  /\ t.do \in {"declare", "generate"} => AtRest(c) /\ AtRest(d)

\* A body under way whose next statement is in an unsafe block.
IsUnsafe(p, t) == IsBody(t) /\ ContextOf(p, t.of, t.at - 1).unsafe + t.before.unsafe # 0

\* What may stand right behind a task on the stack.
Link(t, u) ==
  /\ Exact(u) => Saves(t)
  /\ t.do = "layout" /\ Len(t.name) # 1 => u.do = "methods" /\ u.name = t.name /\ u.at = 1
  /\ t.do \in {"declare", "generate", "plain"} => u.do = "generate"

\* A context for every task on the stack, the present one first: each task turns its
\* context into that of the next, the last one leaves the generator outside of everything,
\* and wherever code is unsafe, a body that waits below is in an unsafe block.
Plans(p, C, s, c) ==
  /\ C[1] = c /\ AtRest(C[Len(s) + 1])
  /\ \A k \in DOMAIN s :
       /\ Follows(p, s[k], C[k], C[k + 1])
       /\ k + 1 \in DOMAIN s => Link(s[k], s[k + 1])
       /\ s[k].do = "layout" /\ Len(s[k].name) # 1 => k + 1 \in DOMAIN s
       /\ C[k].unsafe # 0 => \E j \in DOMAIN s : j >= k /\ IsUnsafe(p, s[j])

\* There is such a context for every task.
Planned(p, s, c) == \E C : Plans(p, C, s, c)

\* A task is about nothing but the set N of types and functions.
InsideOf(N, t) ==
  /\ t.do \in {"layout", "methods"} => TypeNode(t.name) \in N
  /\ t.do \in {"instance", "generate"} => Function(t.name) \in N
  /\ IsBody(t) => t.of \in N

\* Two tasks do not make the same thing, and what an instance needs in its signature is
\* not made below it.
Apart(p, t, u) ==
  /\ IsBody(t) /\ IsBody(u) => t.of # u.of
  /\ t.do = "methods" /\ u.do = "methods" => t.name # u.name
  /\ t.do = "generate" /\ u.do = "generate" => t.name # u.name
  /\ u.do = "instance" => InsideOf(Reached(p, SignatureNodes(p, Function(u.name))), t)

\* No two tasks of the stack make the same thing.
AllApart(p, s) == \A j, k \in DOMAIN s : j < k => Apart(p, s[j], s[k])

\* A type that is written has been made: it is built in, a pointer, or declared.
Made(S, type, meaning) ==
  LET n == Closed(meaning, type.name) IN type.ptr \/ n \in BuiltIn \/ n \in S

\* The type of a field has been made.
FieldMade(p, S, n, i) == Made(S, FieldsOf(p, n)[i], MeaningOf(p, TypeNode(n)))

\* What a statement names has been made.
StatementMade(p, S, sy, f, s) ==
  /\ s.s = "local" => Made(S, s.type, MeaningOf(p, f))
  /\ s.s = "call" => Function(s.name) \in sy

\* The statements of a body before n have found what they name.
DoneTo(p, S, sy, f, n) == \A i \in DOMAIN BodyOf(p, f) : i < n => StatementMade(p, S, sy, f, BodyOf(p, f)[i])

\* The code of a body before its statement n, generated alone in u unsafe blocks.
CodeUpTo(p, f, n, u) == [i \in 1..n |-> ItemAlone(p, f, i, u)]

\* A task on the stack agrees with what has been declared and generated.
SoundTask(p, S, sy, cd, t) ==
  /\ t.do \in {"layout", "methods", "instance", "method", "function", "plain", "declare", "generate"}
  /\ t.do = "layout" =>
       /\ t = [do |-> "layout", name |-> t.name, at |-> t.at]
       /\ t.name \in S /\ t.at \in 0..Len(FieldsOf(p, t.name)) + 1
       /\ \A i \in DOMAIN FieldsOf(p, t.name) : i < t.at => FieldMade(p, S, t.name, i)
  /\ t.do = "methods" =>
       /\ t = [do |-> "methods", name |-> t.name, at |-> t.at, saved |-> t.saved]
       /\ t.name \in S /\ Instantiable(p, "struct", t.name) /\ t.at \in 1..Len(Methods(p, t.name)) + 1
       /\ \A i \in DOMAIN Methods(p, t.name) :
            (i < t.at) <=> (Symbol(t.name, Methods(p, t.name)[i].name) \in sy)
  /\ t.do = "instance" =>
       /\ t = [do |-> "instance", name |-> t.name, saved |-> t.saved]
       /\ Instantiable(p, "function", t.name) /\ Function(t.name) \notin sy
  /\ IsBody(t) =>
       /\ t.of \in DOMAIN cd /\ t.at \in 1..Len(BodyOf(p, t.of)) + 1
       /\ cd[t.of] = CodeUpTo(p, t.of, t.at, t.before.unsafe) /\ DoneTo(p, S, sy, t.of, t.at)
  /\ t.do = "method" => t = [do |-> "method", of |-> t.of, at |-> t.at, before |-> t.before] /\ t.of.method # ""
  /\ t.do = "function" =>
       /\ t = [do |-> "function", of |-> t.of, at |-> t.at, before |-> t.before, saved |-> t.saved]
       /\ t.of.method = "" /\ Len(t.of.of) # 1
  /\ t.do = "plain" =>
       t = [do |-> "plain", of |-> t.of, at |-> t.at, before |-> t.before] /\ t.of.method = "" /\ Len(t.of.of) = 1
  /\ t.do = "generate" => Plain(p, t.name) # {} /\ Function(t.name) \notin DOMAIN cd

\* The destructor of an instance is one of its inline methods.
HasRem(p, n) ==
  /\ Instantiable(p, "struct", n)
  /\ \E i \in DOMAIN Methods(p, n) : Methods(p, n)[i].name = "rem" /\ Methods(p, n)[i].inline

\* The task that lays out a struct.
IsLayout(t, n) == t.do = "layout" /\ t.name = n

\* The task that generates the methods of an instance.
IsMethods(t, n) == t.do = "methods" /\ t.name = n

\* A struct is declared as written, it is needed, and what is missing of it - its layout,
\* its destructor, its methods - is a task of the stack.
SoundStruct(p, st, D, T, h, n) ==
  /\ st[n] = [layout |-> st[n].layout, fields |-> FieldsOf(p, n), bad |-> FALSE,
                   destructor |-> st[n].destructor]
  /\ TypeNode(n) \in Needed(p)
  /\ IF Len(n) = 1 THEN StructNamed(p, n) # {} ELSE Instantiable(p, "struct", n)
  /\ st[n].layout \in {"pending", "visiting", "done"}
  /\ st[n].layout = "pending" => Layout(n) \in T /\ (Len(n) # 1 => h = Layout(n))
  /\ st[n].layout = "visiting" => \E t \in T : IsLayout(t, n) /\ t.at # 0
  /\ st[n].layout = "done" => \A i \in DOMAIN FieldsOf(p, n) : FieldMade(p, DOMAIN st, n, i)
  /\ st[n].destructor => HasRem(p, n)
  /\ HasRem(p, n) /\ st[n].layout = "done" => st[n].destructor \/ (IsMethods(h, n) /\ h.at = 1)
  /\ Len(n) # 1 => (\E t \in T : IsMethods(t, n)) \/ MethodNodes(p, n) \subseteq D

\* The code of a function is all there, as it would be alone in some unsafe blocks.
Complete(p, S, sy, cd, f) ==
  \E u \in Nat : cd[f] = CodeUpTo(p, f, Len(BodyOf(p, f)) + 1, u) /\ DoneTo(p, S, sy, f, Len(BodyOf(p, f)) + 1)

\* Some code of a function was generated in an unsafe block.
Unchecked(cd, g) == \E i \in DOMAIN cd[g] : ~cd[g][i].checked

\* A function that has code is needed, and its code is complete or a task is in the
\* middle of it; it is unchecked only where some other function is.
SoundCode(p, S, sy, cd, T, f) ==
  /\ f \in FunctionsOf(Needed(p)) /\ (f.method # "" => f.of \in S)
  /\ \A x \in SignatureNodes(p, f) : x.of \in S
  /\ Complete(p, S, sy, cd, f) \/ \E t \in T : IsBody(t) /\ t.of = f
  /\ ~cd[f][1].checked => \/ \E g \in DOMAIN cd \ {f} : Unchecked(cd, g)
                          \/ \E t \in T : IsUnsafe(p, t) /\ t.of # f

\* A function of the program whose body is still to be generated.
Awaited(T, f) == \E t \in T : t.do = "generate" /\ f = Function(t.name)

\* A symbol that is declared has code or waits for it.
SoundSymbols(p, sy, D, T) ==
  /\ \A f \in sy \cup D : f.method # "" \/ Len(f.of) # 1 => (f \in sy <=> f \in D)
  /\ \A f \in sy : f.method = "" => f \in D \/ Awaited(T, f)
  /\ \A f \in Functions(p) : f \in D \/ Awaited(T, f)

\* What is declared and generated agrees with the tasks T that are left, the next one h.
SoundState(p, st, sy, cd, T, h) ==
  /\ \A n \in DOMAIN st : SoundStruct(p, st, DOMAIN cd, T, h, n)
  /\ \A x \in Structs(p) : x.of \in DOMAIN st
  /\ \A f \in DOMAIN cd : SoundCode(p, DOMAIN st, sy, cd, T, f)
  /\ SoundSymbols(p, sy, DOMAIN cd, T)
  /\ \A t \in T : SoundTask(p, DOMAIN st, sy, cd, t) /\ InsideOf(Needed(p), t)

--------------------------------------------------------------------------------
(* What a program declares. *)

\* A template that is found is one of the program's, of the kind that is asked for.
LEMMA TemplateFound ==
  ASSUME NEW p, NEW kind, NEW n, Instantiable(p, kind, n)
  PROVE  /\ Template(p, kind, n) \in p.templates /\ Template(p, kind, n).kind = kind
         /\ Template(p, kind, n).name = n[1] /\ Len(n) > 1
<1> QED
  BY DEF TemplatesOf, Template, Instantiable

\* The template of a struct that can be instantiated is a template of a struct.
LEMMA StructTemplate ==
  ASSUME NEW p \in SourceForms, NEW n, Instantiable(p, "struct", n)
  PROVE  Template(p, "struct", n) \in StructTemplates
<1> QED
  BY TemplateFound DEF SourceForms, FunctionTemplates

\* The template of a function that can be instantiated is a template of a function.
LEMMA FunctionTemplate ==
  ASSUME NEW p \in SourceForms, NEW n, Instantiable(p, "function", n)
  PROVE  Template(p, "function", n) \in FunctionTemplates
<1> QED
  BY TemplateFound DEF SourceForms, StructTemplates

\* The parts of a sequence.
LEMMA Indices ==
  ASSUME NEW S, NEW s \in Seq(S)
  PROVE  /\ Len(s) \in Nat /\ DOMAIN s = 1 .. Len(s)
         /\ \A i \in DOMAIN s : s[i] \in S
<1> QED
  BY ElementOfSeq, LenProperties

\* A name with arguments is no plain one.
LEMMA Longer ==
  ASSUME NEW n \in Names
  PROVE  Len(n) > 1 => Len(n) # 1
<1>1. PICK k \in Nat : k = Len(n)
  BY LenProperties DEF Names
<1> QED
  BY <1>1

\* The methods of an instance are a sequence of functions.
LEMMA MethodFacts ==
  ASSUME NEW p \in SourceForms, NEW n, Instantiable(p, "struct", n)
  PROVE  /\ Methods(p, n) \in Seq(Units(STRING))
         /\ DOMAIN Methods(p, n) = 1 .. Len(Methods(p, n)) /\ Len(Methods(p, n)) \in Nat
         /\ \A i \in DOMAIN Methods(p, n) : Methods(p, n)[i] \in Units(STRING)
<1> QED
  BY Indices, StructTemplate DEF StructTemplates, Methods

\* The parts of a symbol.
LEMMA SymbolParts ==
  ASSUME NEW n, NEW m
  PROVE  Symbol(n, m).of = n /\ Symbol(n, m).method = m /\ Function(n).of = n /\ Function(n).method = ""
  BY DEF Symbol, Function

\* A symbol tells what it is of and its method.
LEMMA SameSymbol ==
  ASSUME NEW n, NEW m, NEW n2, NEW m2, Symbol(n, m) = Symbol(n2, m2)
  PROVE  n = n2 /\ m = m2
  BY DEF Symbol

\* A function of the program that is found is one of its functions, of that name.
LEMMA PlainFound ==
  ASSUME NEW p \in SourceForms, NEW n, Plain(p, n) # {}
  PROVE  /\ (CHOOSE f \in Plain(p, n) : TRUE) \in Units(Names)
         /\ \E i \in DOMAIN p.functions :
              p.functions[i] = (CHOOSE f \in Plain(p, n) : TRUE) /\ p.functions[i].name = n
<1> DEFINE f == CHOOSE g \in Plain(p, n) : TRUE
<1>1. f \in Plain(p, n)
  OBVIOUS
<1> HIDE DEF f
<1>2. PICK i \in DOMAIN p.functions : p.functions[i] = f /\ f.name = n
  BY <1>1 DEF Plain
<1>4. f \in Units(Names)
  BY <1>2, Indices DEF SourceForms
<1> QED
  BY <1>2, <1>4 DEF f

\* What is declared under the symbol of a method is the method.
LEMMA MethodDeclared ==
  ASSUME NEW p \in SourceForms, WellDeclared(p), NEW n \in Names, Instantiable(p, "struct", n),
         NEW i \in DOMAIN Methods(p, n)
  PROVE  /\ Declaration(p, Symbol(n, Methods(p, n)[i].name)) = Methods(p, n)[i]
         /\ Declared(p, Symbol(n, Methods(p, n)[i].name))
         /\ Methods(p, n)[i].name \notin {"", "type"} /\ ~Methods(p, n)[i].coroutine
<1>1. Template(p, "struct", n) \in p.templates /\ Template(p, "struct", n).kind = "struct"
  BY TemplateFound
<1> DEFINE ms == Methods(p, n)
<1>2. \A k, j \in DOMAIN ms : /\ ms[k].name \notin {"", "type"} /\ ~ms[k].coroutine
                              /\ ms[k].name = ms[j].name => k = j
  BY <1>1 DEF WellDeclared, Methods
<1> DEFINE k == CHOOSE j \in DOMAIN ms : ms[j].name = ms[i].name
<1>4. k = i
  <2>1. k \in DOMAIN ms /\ ms[k].name = ms[i].name
    OBVIOUS
  <2> HIDE DEF k
  <2> QED
    BY <1>2, <2>1
<1> DEFINE f == Symbol(n, ms[i].name)
<1> QED
  BY <1>4, <1>2 DEF Declaration, Methods, Declared, Symbol

\* The parts of the declaration of a function.
LEMMA DeclarationFacts ==
  ASSUME NEW p \in SourceForms, WellDeclared(p), NEW f, Declared(p, f)
  PROVE  /\ Declaration(p, f).body \in Seq(Statements) /\ Declaration(p, f).types \in Seq(Types)
         /\ Declaration(p, f).inline \in BOOLEAN /\ Declaration(p, f).coroutine \in BOOLEAN
         /\ Declaration(p, f).gives \in STRING /\ Declaration(p, f).module \in STRING
         /\ f.method = "" => ~Declaration(p, f).inline
         /\ f.method # "" => ~Declaration(p, f).coroutine
         /\ Len(f.of) > 1 /\ f.method = "" => Declaration(p, f).module # ""
         /\ Len(f.of) = 1 => f.method = "" /\ Declaration(p, f).types = << >>
<1>1. CASE f.method # ""
  <2>1. Instantiable(p, "struct", f.of)
    BY <1>1 DEF Declared
  <2>2. PICK i \in DOMAIN Methods(p, f.of) : Methods(p, f.of)[i].name = f.method
    BY <1>1 DEF Declared
  <2>3. f = Symbol(f.of, Methods(p, f.of)[i].name)
    BY <2>2 DEF Declared
  <2>4. Declaration(p, f) = Methods(p, f.of)[i] /\ ~Methods(p, f.of)[i].coroutine
    BY <2>1, <2>3, MethodDeclared DEF Declared
  <2>6. Len(f.of) > 1 /\ Len(f.of) # 1
    BY Longer, <2>1, TemplateFound DEF Declared
  <2> QED
    BY <1>1, <2>6, <2>1, <2>4, MethodFacts DEF Units
<1>2. CASE f.method = "" /\ Len(f.of) > 1
  <2>1. Instantiable(p, "function", f.of)
    BY <1>2 DEF Declared
  <2>2. Declaration(p, f) = Template(p, "function", f.of)
    BY <1>2 DEF Declaration
  <2>4. Declaration(p, f) \in p.templates /\ Declaration(p, f).kind = "function"
    BY <2>1, <2>2, TemplateFound
  <2> QED
    BY <1>2, <2>4, <2>1, <2>2, FunctionTemplate, Longer DEF FunctionTemplates, WellDeclared, Declared
<1>3. CASE f.method = "" /\ ~(Len(f.of) > 1)
  <2>1. Plain(p, f.of) # {} /\ Len(f.of) = 1
    BY <1>3 DEF Declared
  <2>2. Declaration(p, f) = CHOOSE g \in Plain(p, f.of) : TRUE
    BY <1>3 DEF Declaration
  <2>3. Declaration(p, f) \in Units(Names)
    BY <2>1, <2>2, PlainFound
  <2>4. PICK i \in DOMAIN p.functions : p.functions[i] = Declaration(p, f)
    BY <2>1, <2>2, PlainFound
  <2> QED
    BY <1>3, <2>1, <2>3, <2>4 DEF Units, WellDeclared
<1> QED
  BY <1>1, <1>2, <1>3

\* A body is a sequence of statements.
LEMMA BodyFacts ==
  ASSUME NEW p \in SourceForms, WellDeclared(p), NEW f, Declared(p, f)
  PROVE  /\ Len(BodyOf(p, f)) \in Nat /\ DOMAIN BodyOf(p, f) = 1 .. Len(BodyOf(p, f))
         /\ \A i \in DOMAIN BodyOf(p, f) : BodyOf(p, f)[i] \in Statements
<1> QED
  BY Indices, DeclarationFacts DEF BodyOf

\* A set of numbers that is not empty has a least one.
LEMMA LeastNumber ==
  ASSUME NEW T \in SUBSET Nat, T # {}
  PROVE  \E x \in T : \A y \in T : x <= y
<1>2. PICK x \in T : \A y \in T : ~(<<y, x>> \in OpToRel(<, Nat))
  BY WFMin, NatLessThanWellFounded
<1>3. \A y \in T : ~(y < x)
  BY <1>2 DEF OpToRel
<1> QED
  BY <1>3

\* What holds of 0 and passes from each number to the next holds up to n.
LEMMA UpTo ==
  ASSUME NEW n \in Nat, NEW G, 0 \in G, \A m \in 1 .. n : m - 1 \in G => m \in G
  PROVE  \A m \in 0 .. n : m \in G
<1> DEFINE Bad == {m \in 0 .. n : m \notin G}
<1> SUFFICES ASSUME Bad # {} PROVE FALSE
  OBVIOUS
<1>1. Bad \in SUBSET Nat
  OBVIOUS
<1>2. PICK m \in Bad : \A k \in Bad : m <= k
  <2> HIDE DEF Bad
  <2> QED
    BY <1>1, LeastNumber
<1> QED
  BY <1>2

--------------------------------------------------------------------------------
(* The contexts of a body. *)

\* The contexts of a body after its first statements, as a chain.
ContextChain(p, f, n, F) ==
  F = [i \in 0 .. n |-> IF i = 0 THEN OwnContext(p, f) ELSE Following(p, BodyOf(p, f)[i], F[i - 1])]

\* There is such a chain: the recursion of ContextOf defines a function.
LEMMA ContextsExist ==
  ASSUME NEW p, NEW f, NEW n \in Nat
  PROVE  \E F : ContextChain(p, f, n, F)
<1> DEFINE G == {k \in 0 .. n : \E F : ContextChain(p, f, k, F)}
<1>1. 0 \in G
  <2> DEFINE F == [i \in 0 .. 0 |-> OwnContext(p, f)]
  <2>1. ContextChain(p, f, 0, F)
    BY DEF ContextChain
  <2> HIDE DEF F
  <2> QED
    BY <2>1
<1>2. ASSUME NEW k \in 1 .. n, k - 1 \in G PROVE k \in G
  <2>1. PICK F : ContextChain(p, f, k - 1, F)
    BY <1>2
  <2>2. \A i \in 0 .. k - 1 :
          F[i] = IF i = 0 THEN OwnContext(p, f) ELSE Following(p, BodyOf(p, f)[i], F[i - 1])
    BY <2>1 DEF ContextChain
  <2> DEFINE H == [i \in 0 .. k |-> IF i = k THEN Following(p, BodyOf(p, f)[k], F[k - 1]) ELSE F[i]]
  <2>3. ASSUME NEW i \in 0 .. k
        PROVE  H[i] = IF i = 0 THEN OwnContext(p, f) ELSE Following(p, BodyOf(p, f)[i], H[i - 1])
    <3>1. CASE i = k
      <4>1. k # 0 /\ k - 1 \in 0 .. k /\ k - 1 # k /\ i \in 0 .. k
        OBVIOUS
      <4>2. H[k - 1] = F[k - 1] /\ H[i] = Following(p, BodyOf(p, f)[k], F[k - 1])
        BY <3>1, <4>1
      <4> HIDE DEF H
      <4> QED
        BY <3>1, <4>1, <4>2
    <3>2. CASE i = 0
      BY <2>2, <3>2
    <3>3. CASE i # 0 /\ i # k
      <4>1. i \in 0 .. k - 1 /\ i - 1 \in 0 .. k /\ i - 1 # k
        BY <3>3
      <4>2. H[i] = F[i] /\ H[i - 1] = F[i - 1]
        BY <3>3, <4>1
      <4> HIDE DEF H
      <4> QED
        BY <2>2, <3>3, <4>1, <4>2
    <3> QED
      BY <3>1, <3>2, <3>3
  <2>4. H = [i \in 0 .. k |-> H[i]]
    OBVIOUS
  <2> HIDE DEF H
  <2>5. ContextChain(p, f, k, H)
    BY <2>3, <2>4 DEF ContextChain
  <2> QED
    BY <2>5
<1>3. \A k \in 0 .. n : k \in G
  <2> HIDE DEF G
  <2> QED
    BY <1>1, <1>2, UpTo
<1> QED
  BY <1>3

\* The context of a body goes from one statement to the next.
LEMMA ContextSteps ==
  ASSUME NEW p, NEW f, Len(BodyOf(p, f)) \in Nat
  PROVE  /\ ContextOf(p, f, 0) = OwnContext(p, f)
         /\ \A i \in 1 .. Len(BodyOf(p, f)) :
              ContextOf(p, f, i) = Following(p, BodyOf(p, f)[i], ContextOf(p, f, i - 1))
<1>1. PICK n \in Nat : n = Len(BodyOf(p, f))
  OBVIOUS
<1>2. Contexts(p, f) = CHOOSE F : ContextChain(p, f, n, F)
  BY <1>1 DEF Contexts, ContextChain
<1>3. PICK F : F = Contexts(p, f) /\ ContextChain(p, f, n, F)
  BY <1>1, <1>2, ContextsExist
<1>4. \A i \in 0 .. n :
        F[i] = IF i = 0 THEN OwnContext(p, f) ELSE Following(p, BodyOf(p, f)[i], F[i - 1])
  BY <1>3 DEF ContextChain
<1> QED
  BY <1>1, <1>4, <1>3 DEF ContextOf

\* What a body never changes.
Kept(c, d) ==
  /\ c.fn = d.fn /\ c.block = d.block /\ c.struct = d.struct /\ c.main = d.main
  /\ c.coro = d.coro /\ c.module = d.module /\ c.meaning = d.meaning

\* A statement leaves what belongs to the function as it was.
LEMMA AfterKeeps ==
  ASSUME NEW c, IsContext(c), NEW s \in Statements
  PROVE  IsContext(After(s, c)) /\ Kept(After(s, c), c)
<1> QED
  BY DEF After, IsContext, Kept, Blocks, Statements

\* The same of a statement with the local it declares.
LEMMA FollowingKeeps ==
  ASSUME NEW p, NEW c, IsContext(c), NEW s \in Statements
  PROVE  IsContext(Following(p, s, c)) /\ Kept(Following(p, s, c), c)
<1>1. CASE s.s = "local"
  BY <1>1 DEF Following, WithLocal, IsContext, Kept
<1>2. CASE s.s # "local"
  BY <1>2, AfterKeeps DEF Following
<1> QED
  BY <1>1, <1>2

\* The context at the start of a body, part by part.
LEMMA OwnContextFacts ==
  ASSUME NEW p, NEW f
  PROVE  /\ IsContext(OwnContext(p, f))
         /\ OwnContext(p, f).fn = f /\ OwnContext(p, f).block = NoSymbol
         /\ OwnContext(p, f).struct = (IF f.method = "" THEN << >> ELSE f.of)
         /\ OwnContext(p, f).meaning = MeaningOf(p, f) /\ OwnContext(p, f).module = Declaration(p, f).module
         /\ OwnContext(p, f).loop = 0 /\ OwnContext(p, f).unsafe = 0
         /\ OwnContext(p, f).coro = (IF Declaration(p, f).coroutine THEN f ELSE NoSymbol)
         /\ OwnContext(p, f).cleanups = << << >> >>
         /\ OwnContext(p, f).locals = (IF Declaration(p, f).inline THEN <<"this">> ELSE << >>)
         /\ OwnContext(p, f).gives = Declaration(p, f).gives
<1> DEFINE d == Declaration(p, f)
           struct == IF f.method = "" THEN << >> ELSE f.of
           coro == IF d.coroutine THEN f ELSE NoSymbol
           locals == IF d.inline THEN <<"this">> ELSE << >>
           main == f.of = <<"main">>
           c == [fn |-> f, block |-> NoSymbol, gives |-> d.gives, struct |-> struct, inline |-> d.inline,
                 main |-> main, coro |-> coro, loop |-> 0, deferring |-> FALSE, unsafe |-> 0,
                 locals |-> locals, cleanups |-> << << >> >>, module |-> d.module,
                 meaning |-> MeaningOf(p, f)]
<1>1. OwnContext(p, f) = c
  <2> HIDE DEF struct, coro, locals, main
  <2>1. OwnContext(p, f) =
          [Resting EXCEPT !.fn = f, !.gives = d.gives, !.inline = d.inline, !.module = d.module,
                   !.struct = struct, !.main = main, !.cleanups = << << >> >>,
                   !.coro = coro, !.locals = locals, !.meaning = MeaningOf(p, f)]
    BY DEF OwnContext, struct, coro, locals, main
  <2> HIDE DEF d
  <2> QED
    BY <2>1 DEF Resting
<1> HIDE DEF struct, coro, locals, main, d
<1>2. IsContext(c)
  BY DEF IsContext
<1>3. /\ c.fn = f /\ c.block = NoSymbol /\ c.struct = struct /\ c.meaning = MeaningOf(p, f)
      /\ c.module = d.module /\ c.loop = 0 /\ c.unsafe = 0 /\ c.coro = coro
      /\ c.cleanups = << << >> >> /\ c.locals = locals /\ c.gives = d.gives
  OBVIOUS
<1> HIDE DEF c
<1> QED
  BY <1>1, <1>2, <1>3 DEF struct, coro, locals, d

\* Its flags.
LEMMA OwnContextFlags ==
  ASSUME NEW p, NEW f
  PROVE  /\ ~OwnContext(p, f).deferring /\ (OwnContext(p, f).main <=> f.of = <<"main">>)
         /\ OwnContext(p, f).inline = Declaration(p, f).inline
  BY DEF OwnContext, Resting

\* What belongs to the function is the same all along its body.
LEMMA ContextsKeep ==
  ASSUME NEW p \in SourceForms, WellDeclared(p), NEW f, Declared(p, f),
         NEW i \in 0 .. Len(BodyOf(p, f))
  PROVE  IsContext(ContextOf(p, f, i)) /\ Kept(ContextOf(p, f, i), OwnContext(p, f))
<1>1. PICK n \in Nat : n = Len(BodyOf(p, f))
  BY BodyFacts
<1>3. /\ ContextOf(p, f, 0) = OwnContext(p, f)
      /\ \A k \in 1 .. n : ContextOf(p, f, k) = Following(p, BodyOf(p, f)[k], ContextOf(p, f, k - 1))
  BY <1>1, ContextSteps
<1> DEFINE G == {k \in 0 .. n : IsContext(ContextOf(p, f, k)) /\ Kept(ContextOf(p, f, k), OwnContext(p, f))}
<1>4. 0 \in G
  <2>1. IsContext(OwnContext(p, f)) /\ Kept(OwnContext(p, f), OwnContext(p, f))
    BY OwnContextFacts DEF Kept
  <2> QED
    BY <1>3, <2>1
<1>5. ASSUME NEW k \in 1 .. n, k - 1 \in G PROVE k \in G
  <2>1. IsContext(ContextOf(p, f, k - 1)) /\ Kept(ContextOf(p, f, k - 1), OwnContext(p, f))
    BY <1>5
  <2> QED
    BY <2>1, FollowingKeeps, <1>3, <1>1, BodyFacts DEF Kept
<1>6. \A k \in 0 .. n : k \in G
  <2> HIDE DEF G
  <2> QED
    BY <1>4, <1>5, UpTo
<1> QED
  BY <1>1, <1>6

\* A statement does the same in unsafe blocks.
LEMMA AfterAround ==
  ASSUME NEW c, IsContext(c), c.unsafe \in Int, NEW f, NEW u \in Int, NEW s \in Statements
  PROVE  After(s, Around(c, f, u)) = Around(After(s, c), f, u)
<1>3. PICK n \in Int : n = c.unsafe
  BY c.unsafe \in Int
<1>4. n + 1 + u = n + u + 1 /\ n - 1 + u = n + u - 1
  OBVIOUS
<1>5. CASE s.s = "end" /\ s.of = "loop"
  <2>1. After(s, Around(c, f, u)) = [Around(c, f, u) EXCEPT !.loop = @ - 1]
    BY <1>5 DEF After
  <2>3. After(s, c) = [c EXCEPT !.loop = @ - 1]
    BY <1>5 DEF After
  <2>2. [Around(c, f, u) EXCEPT !.loop = @ - 1] = Around([c EXCEPT !.loop = @ - 1], f, u)
    <3>1. PICK k : k = c.loop - 1
      OBVIOUS
    <3>2. PICK w : w = c.unsafe + u
      OBVIOUS
    <3> QED
      BY <3>1, <3>2 DEF IsContext, Around
  <2> QED
    BY ONLY <2>1, <2>2, <2>3
<1>6. CASE s.s = "end" /\ s.of = "unsafe"
  <2>3. PICK w : w = n + u
    OBVIOUS
  <2>4. PICK v : v = n - 1
    OBVIOUS
  <2>5. PICK x : x = n + u - 1
    OBVIOUS
  <2>8. w - 1 = x /\ v + u = x
    BY <1>4, <2>3, <2>4, <2>5
  <2>9. After(s, Around(c, f, u)) = [[c EXCEPT !.block = f, !.unsafe = w] EXCEPT !.unsafe = x]
    BY <2>8, <1>6, <1>3, <2>3 DEF After, IsContext, Around
  <2> QED
    BY <2>9, <2>8, <1>3, <2>4, <1>6 DEF IsContext, Around, After
<1>7. CASE s.s = "end" /\ s.of = "defer"
  BY <1>3, <1>7 DEF After, Around, IsContext
<1>8. CASE s.s = "loop"
  BY <1>3, <1>8 DEF After, Around, IsContext
<1>9. CASE s.s = "unsafe"
  <2>3. PICK w : w = n + u
    OBVIOUS
  <2>4. PICK v : v = n + 1
    OBVIOUS
  <2>5. PICK x : x = n + u + 1
    OBVIOUS
  <2>8. w + 1 = x /\ v + u = x
    BY <1>4, <2>3, <2>4, <2>5
  <2> QED
    BY <2>8, <1>9, <1>3, <2>4, <2>3 DEF IsContext, After, Around
<1>10. CASE s.s = "defer"
  BY <1>3, <1>10 DEF After, Around, IsContext
<1>11. CASE s.s \notin {"end", "loop", "unsafe", "defer"}
  BY <1>11 DEF After
<1>12. CASE s.s = "end" /\ s.of = "init"
  BY <1>12 DEF After
<1> QED
  BY <1>5, <1>6, <1>7, <1>8, <1>9, <1>10, <1>11, <1>12 DEF Blocks, Statements

\* A local is declared the same in unsafe blocks.
LEMMA WithLocalAround ==
  ASSUME NEW c, IsContext(c), c.unsafe \in Int, NEW f, NEW u \in Int, NEW l, NEW d
  PROVE  WithLocal(Around(c, f, u), l, d) = Around(WithLocal(c, l, d), f, u)
  BY DEF WithLocal, Around, IsContext

\* The parts of a context that is put into unsafe blocks.
LEMMA AroundFacts ==
  ASSUME NEW c, IsContext(c), NEW f, NEW u
  PROVE  /\ IsContext(Around(c, f, u)) /\ Around(c, f, u).block = f /\ Around(c, f, u).unsafe = c.unsafe + u
         /\ Around(c, f, u).struct = c.struct /\ Around(c, f, u).meaning = c.meaning
         /\ Around(c, f, u).module = c.module /\ Around(c, f, u).coro = c.coro
         /\ Around(c, f, u).loop = c.loop /\ Around(c, f, u).main = c.main
         /\ (Around(c, f, u).deferring <=> c.deferring) /\ Around(c, f, u).fn = c.fn
         /\ Around(c, f, u).gives = c.gives /\ Around(c, f, u).inline = c.inline
         /\ Around(c, f, u).locals = c.locals /\ Around(c, f, u).cleanups = c.cleanups
<1>1. PICK w : w = c.unsafe + u
  OBVIOUS
<1>2. PICK d : d = Around(c, f, u)
  OBVIOUS
<1>3. d = [c EXCEPT !.block = f, !.unsafe = w]
  BY <1>1, <1>2 DEF Around
<1>4. IsContext(d)
  BY <1>3 DEF IsContext
<1> QED
  BY <1>1, <1>2, <1>4, <1>3 DEF IsContext

\* Code depends on the number of the unsafe blocks alone.
LEMMA ItemAround ==
  ASSUME NEW c, IsContext(c), NEW f, NEW u, NEW what, NEW to
  PROVE  Item(what, to, Around(c, f, u)) = Item(what, to, [c EXCEPT !.unsafe = @ + u])
<1> QED
  BY DEF Item, Seen, Around, IsContext

\* The code at the start of a body.
LEMMA EntryAlone ==
  ASSUME NEW p, NEW f, IsContext(ContextOf(p, f, 0)), NEW u
  PROVE  CodeUpTo(p, f, 1, u) = <<Entry(Around(ContextOf(p, f, 0), f, u))>>
<1> QED
  BY ItemAround DEF ItemAlone, Entry, CodeUpTo

\* One statement more of a body that is generated as if alone.
LEMMA NextItem ==
  ASSUME NEW p, NEW f, NEW n \in Nat \ {0}, NEW u, IsContext(ContextOf(p, f, n - 1))
  PROVE  Append(CodeUpTo(p, f, n, u),
                Item(BodyOf(p, f)[n].s, Goal(BodyOf(p, f)[n], ContextOf(p, f, n - 1)),
                     Around(ContextOf(p, f, n - 1), f, u)))
           = CodeUpTo(p, f, n + 1, u)
<1> DEFINE item == Item(BodyOf(p, f)[n].s, Goal(BodyOf(p, f)[n], ContextOf(p, f, n - 1)),
                        Around(ContextOf(p, f, n - 1), f, u))
           code1 == CodeUpTo(p, f, n, u)
           It == [i \in 1 .. n + 1 |-> ItemAlone(p, f, i, u)]
<1>2. It[n + 1] = item /\ \A i \in 1 .. n : It[i] = ItemAlone(p, f, i, u)
  BY ItemAround DEF ItemAlone
<1>3. code1 = [i \in 1 .. n |-> It[i]]
  BY <1>2 DEF CodeUpTo
<1>4. CodeUpTo(p, f, n + 1, u) = It /\ It = [i \in 1 .. n + 1 |-> It[i]]
  BY DEF CodeUpTo
<1> HIDE DEF It, item
<1> DEFINE S == {It[i] : i \in 1 .. n + 1}
<1>5. n \in Nat /\ code1 \in [1 .. n -> S] /\ item \in S
  BY <1>2, <1>3
<1> HIDE DEF S
<1>6. PICK s : s = code1
  OBVIOUS
<1>7. s \in Seq(S) /\ Len(s) = n
  <2>1. s \in [1 .. n -> S]
    BY <1>5, <1>6
  <2>2. s \in Seq(S)
    BY <1>5, <2>1
  <2>3. PICK k \in Nat : k = Len(s) /\ DOMAIN s = 1 .. k
    BY <2>2, LenProperties
  <2> QED
    BY <2>2, <2>3, <1>5, <2>1
<1>8. PICK r : r = Append(s, item)
  OBVIOUS
<1>9. r \in Seq(S) /\ Len(r) = n + 1 /\ r[n + 1] = item /\ \A i \in 1 .. n : r[i] = s[i]
  BY <1>5, <1>7, <1>8, AppendProperties
<1>10. r = It
  <2>2. \A i \in 1 .. n + 1 : r[i] = It[i]
    BY <1>2, <1>3, <1>6, <1>9
  <2> QED
    BY <1>4, <2>2, <1>9, LenProperties
<1> QED
  BY <1>4, <1>6, <1>8, <1>10 DEF item

\* The code of a body, place by place.
LEMMA CodeLength ==
  ASSUME NEW p, NEW f, NEW n \in Nat, NEW u
  PROVE  DOMAIN CodeUpTo(p, f, n, u) = 1 .. n /\ \A i \in 1 .. n : CodeUpTo(p, f, n, u)[i] = ItemAlone(p, f, i, u)
  BY DEF CodeUpTo

\* An item is unchecked when it stands in an unsafe block.
StandsAt(i) == IF i = 1 THEN 0 ELSE i - 2

\* Code is checked where no unsafe block is around it.
LEMMA CheckedAlone ==
  ASSUME NEW p, NEW f, NEW i \in Nat, NEW u, IsContext(ContextOf(p, f, StandsAt(i)))
  PROVE  ItemAlone(p, f, i, u).checked <=> ContextOf(p, f, StandsAt(i)).unsafe + u = 0
<1>1. CASE i = 1
  BY <1>1 DEF ItemAlone, Entry, Item, StandsAt, IsContext
<1>2. CASE i # 1
  BY <1>2 DEF ItemAlone, Item, StandsAt, IsContext
<1> QED
  BY <1>1, <1>2

\* How many unsafe blocks there are around a body shows in its checks alone.
LEMMA OnceAround ==
  ASSUME NEW p, NEW f, NEW i \in Nat, NEW u \in Nat, u # 0, IsContext(ContextOf(p, f, StandsAt(i))),
         ContextOf(p, f, StandsAt(i)).unsafe \in Nat
  PROVE  ItemAlone(p, f, i, u) = ItemAlone(p, f, i, 1)
<1> DEFINE c == ContextOf(p, f, StandsAt(i))
           c1 == [c EXCEPT !.unsafe = @ + u]
           c2 == [c EXCEPT !.unsafe = @ + 1]
<1>1. c1.unsafe = c.unsafe + u /\ c2.unsafe = c.unsafe + 1 /\ Seen(c1) = Seen(c2)
  BY DEF IsContext, Seen
<1> HIDE DEF c1, c2
<1>3. \A what, to : Item(what, to, c1) = Item(what, to, c2)
  BY <1>1 DEF Item
<1>4. CASE i = 1
  BY <1>3, <1>4 DEF ItemAlone, Entry, StandsAt, c1, c2
<1>5. CASE i # 1
  BY <1>3, <1>5 DEF ItemAlone, StandsAt, c1, c2
<1> QED
  BY <1>4, <1>5

--------------------------------------------------------------------------------
(* What a set of types and functions reaches. *)

\* The sets that grow along the needs of their members.
ReachChain(p, nodes, n, F) ==
  F = [k \in 0 .. n |-> IF k = 0 THEN nodes ELSE F[k - 1] \cup UNION {Needs(p, x) : x \in F[k - 1]}]

\* There is such a chain of every length.
LEMMA ReachesExist ==
  ASSUME NEW p, NEW nodes, NEW n \in Nat
  PROVE  \E F : ReachChain(p, nodes, n, F)
<1> DEFINE G == {k \in 0 .. n : \E F : ReachChain(p, nodes, k, F)}
           More(N) == N \cup UNION {Needs(p, x) : x \in N}
<1>1. 0 \in G
  <2> DEFINE F == [i \in 0 .. 0 |-> nodes]
  <2>1. ReachChain(p, nodes, 0, F)
    BY DEF ReachChain
  <2> HIDE DEF F
  <2> QED
    BY <2>1
<1>2. ASSUME NEW k \in 1 .. n, k - 1 \in G PROVE k \in G
  <2>1. PICK F : ReachChain(p, nodes, k - 1, F)
    BY <1>2
  <2>2. \A i \in 0 .. k - 1 : F[i] = IF i = 0 THEN nodes ELSE More(F[i - 1])
    BY <2>1 DEF ReachChain
  <2> DEFINE H == [i \in 0 .. k |-> IF i = k THEN More(F[k - 1]) ELSE F[i]]
  <2> HIDE DEF More
  <2>3. ASSUME NEW i \in 0 .. k
        PROVE  H[i] = IF i = 0 THEN nodes ELSE More(H[i - 1])
    <3>1. CASE i = k
      <4>1. k # 0 /\ k - 1 \in 0 .. k /\ k - 1 # k /\ i \in 0 .. k
        OBVIOUS
      <4>2. H[k - 1] = F[k - 1] /\ H[i] = More(F[k - 1])
        BY <3>1, <4>1
      <4> HIDE DEF H
      <4> QED
        BY <3>1, <4>1, <4>2
    <3>2. CASE i = 0
      BY <2>2, <3>2
    <3>3. CASE i # 0 /\ i # k
      <4>1. i \in 0 .. k - 1 /\ i - 1 \in 0 .. k /\ i - 1 # k
        BY <3>3
      <4>2. H[i] = F[i] /\ H[i - 1] = F[i - 1]
        BY <3>3, <4>1
      <4> HIDE DEF H
      <4> QED
        BY <2>2, <3>3, <4>1, <4>2
    <3> QED
      BY <3>1, <3>2, <3>3
  <2>4. H = [i \in 0 .. k |-> H[i]]
    OBVIOUS
  <2> HIDE DEF H
  <2>5. ReachChain(p, nodes, k, H)
    BY <2>3, <2>4 DEF ReachChain, More
  <2> QED
    BY <2>5
<1>3. \A k \in 0 .. n : k \in G
  <2> HIDE DEF G
  <2> QED
    BY <1>1, <1>2, UpTo
<1> QED
  BY <1>3

\* How the sets of `Reaches' grow.
LEMMA ReachesGrow ==
  ASSUME NEW p, NEW nodes
  PROVE  /\ Reaches(p, nodes)[0] = nodes
         /\ \A k \in 1 .. MaxChain + 1 :
              Reaches(p, nodes)[k] = Reaches(p, nodes)[k - 1]
                                       \cup UNION {Needs(p, x) : x \in Reaches(p, nodes)[k - 1]}
<1>1. PICK n \in Nat : n = MaxChain + 1
  BY GenericAssumption
<1>2. Reaches(p, nodes) = CHOOSE F : ReachChain(p, nodes, n, F)
  BY <1>1 DEF Reaches, ReachChain
<1>3. PICK F : F = Reaches(p, nodes) /\ ReachChain(p, nodes, n, F)
  BY <1>2, ReachesExist
<1> QED
  BY <1>1, <1>3 DEF ReachChain

\* A set that holds whatever its members need.
ClosedUnder(p, N) == \A x \in N : Needs(p, x) \subseteq N

\* A set that ends reaches its own members and all that they need.
LEMMA ReachedFacts ==
  ASSUME NEW p, NEW nodes, Ends(p, nodes)
  PROVE  nodes \subseteq Reached(p, nodes) /\ ClosedUnder(p, Reached(p, nodes))
<1>1. PICK m \in Nat : m = MaxChain
  BY GenericAssumption
<1> DEFINE R(k) == Reaches(p, nodes)[k]
           k0 == CHOOSE k \in 0 .. MaxChain : Reaches(p, nodes)[k + 1] = Reaches(p, nodes)[k]
<1>2. k0 \in 0 .. m /\ R(k0 + 1) = R(k0)
  BY <1>1 DEF Ends
<1>3. Reached(p, nodes) = R(k0)
  BY DEF Reached
<1>4. R(0) = nodes /\ \A k \in 1 .. m + 1 : R(k) = R(k - 1) \cup UNION {Needs(p, x) : x \in R(k - 1)}
  BY <1>1, ReachesGrow
<1> HIDE DEF k0, R
<1> DEFINE G == {k \in 0 .. m : nodes \subseteq R(k)}
<1>5. 0 \in G
  BY <1>4
<1>6. ASSUME NEW k \in 1 .. m, k - 1 \in G PROVE k \in G
  BY <1>6, <1>4
<1>7. \A k \in 0 .. m : k \in G
  <2> HIDE DEF G
  <2> QED
    BY <1>5, <1>6, UpTo
<1>9. PICK k \in 1 .. m + 1 : k = k0 + 1 /\ k - 1 = k0
  BY <1>2
<1>10. R(k0 + 1) = R(k0) \cup UNION {Needs(p, x) : x \in R(k0)}
  <2>1. R(k) = R(k - 1) \cup UNION {Needs(p, x) : x \in R(k - 1)}
    BY <1>4
  <2> QED
    BY ONLY <1>9, <2>1
<1> QED
  BY <1>3, <1>2, <1>10, <1>7 DEF ClosedUnder

\* Nothing else is reached.
LEMMA ReachedLeast ==
  ASSUME NEW p, NEW nodes, Ends(p, nodes), NEW T, nodes \subseteq T, ClosedUnder(p, T)
  PROVE  Reached(p, nodes) \subseteq T
<1>1. PICK m \in Nat : m = MaxChain
  BY GenericAssumption
<1> DEFINE R(k) == Reaches(p, nodes)[k]
           k0 == CHOOSE k \in 0 .. MaxChain : Reaches(p, nodes)[k + 1] = Reaches(p, nodes)[k]
<1>2. k0 \in 0 .. m
  BY <1>1 DEF Ends
<1>3. Reached(p, nodes) = R(k0)
  BY DEF Reached
<1>4. R(0) = nodes /\ \A k \in 1 .. m + 1 : R(k) = R(k - 1) \cup UNION {Needs(p, x) : x \in R(k - 1)}
  BY <1>1, ReachesGrow
<1> HIDE DEF k0, R
<1> DEFINE G == {k \in 0 .. m : R(k) \subseteq T}
<1>5. 0 \in G
  BY <1>4
<1>6. ASSUME NEW k \in 1 .. m, k - 1 \in G PROVE k \in G
  BY <1>4, <1>6 DEF ClosedUnder
<1>7. \A k \in 0 .. m : k \in G
  <2> HIDE DEF G
  <2> QED
    BY <1>5, <1>6, UpTo
<1> QED
  BY <1>2, <1>3, <1>7

--------------------------------------------------------------------------------
(* Names and what the parameters stand for. *)

\* A meaning gives names to type parameters.
Means(meaning) == \A q \in DOMAIN meaning : meaning[q] \in STRING

\* There are as many arguments as parameters, and each is a part of the name.
LEMMA MeaningFacts ==
  ASSUME NEW t, NEW n \in Names, NEW S, t.params \in Seq(S), Len(n) > 1, Len(t.params) = Len(Arguments(n))
  PROVE  DOMAIN Meaning(t, n) = Parameters(t) /\ Means(Meaning(t, n))
<1>2. PICK k \in Nat : k = Len(n) /\ DOMAIN n = 1 .. k /\ \A i \in 1 .. k : n[i] \in STRING
  BY LenProperties, ElementOfSeq DEF Names
<1>3. PICK m \in Nat : m = MaxArguments
  BY GenericAssumption
<1>4. PICK l \in Nat : l = Len(t.params) /\ DOMAIN t.params = 1 .. l
  BY LenProperties
<1>5. PICK e \in Nat : e = (IF k > m + 1 THEN m + 1 ELSE k)
  BY <1>2, <1>3
<1>6. e <= k /\ e >= 1 /\ e - 1 \in Nat
  BY <1>2, <1>3, <1>5
<1>7. Arguments(n) = SubSeq(n, 2, e)
  BY <1>2, <1>3, <1>5 DEF Arguments
<1>8. l = e - 1
  <2>1. CASE 2 <= e
    BY <1>4, <1>7, <2>1, <1>2, <1>6, SubSeqProperties DEF Names
  <2>2. CASE e = 1
    BY <1>4, <1>7, <2>2
  <2> QED
    BY <1>5, <1>6, <2>1, <2>2
<1>9. ASSUME NEW q \in Parameters(t) PROVE Meaning(t, n)[q] \in STRING
  <2> DEFINE i == CHOOSE j \in DOMAIN t.params : t.params[j] = q
  <2>1. i \in DOMAIN t.params
    BY <1>9 DEF Parameters
  <2>2. Meaning(t, n)[q] = n[1 + i]
    BY <1>9 DEF Meaning, Parameters
  <2> HIDE DEF i
  <2> QED
    BY <1>2, <2>2, <1>4, <1>6, <1>8, <2>1
<1> QED
  BY <1>9 DEF Means, Meaning, Parameters

\* The meaning of the parameters of an instance is one of its template.
LEMMA TemplateMeaning ==
  ASSUME NEW p \in SourceForms, NEW kind \in {"struct", "function"}, NEW n \in Names, Instantiable(p, kind, n)
  PROVE  /\ DOMAIN Meaning(Template(p, kind, n), n) = Parameters(Template(p, kind, n))
         /\ Means(Meaning(Template(p, kind, n), n))
<1> DEFINE t == Template(p, kind, n)
<1>2. Len(t.params) = Len(Arguments(n)) /\ Len(n) > 1
  BY DEF TemplatesOf, Template, Instantiable
<1> HIDE DEF t
<1> QED
  BY <1>2, MeaningFacts, StructTemplate, FunctionTemplate DEF t, StructTemplates, FunctionTemplates

\* Names stay names, and keep their number of parts.
LEMMA ClosedNames ==
  ASSUME NEW meaning, Means(meaning), NEW n \in Names
  PROVE  Closed(meaning, n) \in Names /\ Len(Closed(meaning, n)) = Len(n)
<1>1. PICK k \in Nat : k = Len(n) /\ DOMAIN n = 1 .. k /\ \A i \in 1 .. k : n[i] \in STRING
  BY LenProperties, ElementOfSeq DEF Names
<1>2. PICK c : c = Closed(meaning, n)
  OBVIOUS
<1>4. c \in [1 .. k -> STRING]
  BY <1>1, <1>2 DEF Means, Closed
<1>5. c \in Seq(STRING)
  BY <1>4
<1>6. PICK l \in Nat : l = Len(c) /\ DOMAIN c = 1 .. l
  BY <1>5, LenProperties
<1> QED
  BY <1>1, <1>2, <1>5, <1>6, <1>4 DEF Names

\* Nothing is replaced where no part is a parameter.
LEMMA ClosedSame ==
  ASSUME NEW meaning, NEW n \in Names, \A i \in DOMAIN n : n[i] \notin DOMAIN meaning
  PROVE  Closed(meaning, n) = n
<1>1. PICK k \in Nat : DOMAIN n = 1 .. k /\ n = [i \in 1 .. k |-> n[i]]
  BY LenProperties DEF Names
<1> QED
  BY <1>1 DEF Closed

\* Where the first part of a longer name is not a parameter, cg_subst_name puts
\* the types as a closed name has them.
LEMMA ResolvedClosed ==
  ASSUME NEW meaning, NEW n \in Names, Len(n) > 1 => n[1] \notin DOMAIN meaning
  PROVE  Resolved(meaning, n) = Closed(meaning, n)
<1>1. PICK k \in Nat : k = Len(n) /\ DOMAIN n = 1 .. k /\ n = [i \in 1 .. k |-> n[i]]
  BY LenProperties DEF Names
<1>2. CASE k = 1
  <2>1. CASE n[1] \in DOMAIN meaning
    BY <1>1, <1>2, <2>1 DEF Closed, Resolved
  <2>2. CASE n[1] \notin DOMAIN meaning
    BY ClosedSame, <1>1, <1>2, <2>2 DEF Resolved
  <2> QED
    BY <2>1, <2>2
<1>3. CASE k # 1
  <2>3. ASSUME NEW i \in 1 .. k
        PROVE  (i > 1 /\ n[i] \in DOMAIN meaning) <=> n[i] \in DOMAIN meaning
    <3>1. CASE i = 1
      <4>1. k > 1
        BY <1>3, <3>1
      <4> QED
        BY <1>1, <3>1, <4>1
    <3>2. CASE i # 1
      BY <3>2
    <3> QED
      BY <3>1, <3>2
  <2> QED
    BY <2>3, <1>1, <1>3 DEF Resolved, Closed
<1> QED
  BY <1>2, <1>3

\* The empty meaning.
LEMMA NoMeaning == DOMAIN << >> = {} /\ Means(<< >>)
  BY DEF Means

\* The template a function is written in.
Written(p, f, t) == t \in p.templates /\ DOMAIN MeaningOf(p, f) = Parameters(t) /\ Declaration(p, f) \in UnitsOf(t)

\* A function that is declared is written in a template, or has no parameters to resolve.
LEMMA UnitTemplate ==
  ASSUME NEW p \in SourceForms, WellDeclared(p), NEW f, Declared(p, f)
  PROVE  /\ Means(MeaningOf(p, f))
         /\ IF Len(f.of) = 1 THEN MeaningOf(p, f) = << >> ELSE \E t : Written(p, f, t)
<1>1. CASE Len(f.of) = 1
  BY <1>1, NoMeaning DEF MeaningOf
<1>2. CASE f.method # "" /\ Len(f.of) # 1
  <2> DEFINE t == Template(p, "struct", f.of)
  <2>1. Instantiable(p, "struct", f.of) /\ f.of \in Names
    BY <1>2 DEF Declared
  <2>2. PICK i \in DOMAIN Methods(p, f.of) : Methods(p, f.of)[i].name = f.method
    BY <1>2 DEF Declared
  <2>3. f = Symbol(f.of, Methods(p, f.of)[i].name)
    BY <2>2 DEF Declared
  <2>4. Declaration(p, f) = Methods(p, f.of)[i]
    BY <2>1, <2>3, MethodDeclared
  <2>5. t \in p.templates /\ t.kind = "struct"
    BY <2>1, TemplateFound
  <2>6. Declaration(p, f) \in UnitsOf(t)
    BY <2>4, <2>5 DEF UnitsOf, Methods
  <2>7. MeaningOf(p, f) = Meaning(t, f.of)
    BY <1>2 DEF MeaningOf
  <2>8. DOMAIN Meaning(t, f.of) = Parameters(t) /\ Means(Meaning(t, f.of))
    BY <2>1, TemplateMeaning
  <2> HIDE DEF t
  <2> QED
    BY <1>2, <2>5, <2>6, <2>7, <2>8 DEF Written
<1>3. CASE f.method = "" /\ Len(f.of) # 1
  <2> DEFINE t == Template(p, "function", f.of)
  <2>1. Instantiable(p, "function", f.of) /\ f.of \in Names /\ Len(f.of) > 1
    BY <1>3 DEF Declared
  <2>5. t \in p.templates /\ t.kind = "function"
    BY <2>1, TemplateFound
  <2>6. Declaration(p, f) \in UnitsOf(t)
    BY <2>5, <1>3, <2>1 DEF UnitsOf, Declaration
  <2>7. MeaningOf(p, f) = Meaning(t, f.of)
    BY <1>3 DEF MeaningOf
  <2>8. DOMAIN Meaning(t, f.of) = Parameters(t) /\ Means(Meaning(t, f.of))
    BY <2>1, TemplateMeaning
  <2> HIDE DEF t
  <2> QED
    BY <1>3, <2>5, <2>6, <2>7, <2>8 DEF Written
<1> QED
  BY <1>1, <1>2, <1>3

\* The types that a function writes, in its signature and for its locals.
LEMMA WrittenNames ==
  ASSUME NEW p \in SourceForms, WellWritten(p), NEW f, Declared(p, f),
         NEW type \in WrittenTypes(Declaration(p, f))
  PROVE  /\ type \in Types
         /\ Resolved(MeaningOf(p, f), type.name) = Closed(MeaningOf(p, f), type.name)
         /\ Closed(MeaningOf(p, f), type.name) \in Names
         /\ Len(Closed(MeaningOf(p, f), type.name)) = Len(type.name)
<1> DEFINE d == Declaration(p, f)
           m == MeaningOf(p, f)
<1>0. WellDeclared(p) /\ \A t \in p.templates : Substitutes(t)
  BY DEF WellWritten
<1>1. d.body \in Seq(Statements) /\ d.types \in Seq(Types)
  BY <1>0, DeclarationFacts
<1>3. type \in Types
  <2>1. CASE type \in {d.types[i] : i \in DOMAIN d.types}
    BY <1>1, <2>1, Indices
  <2>2. CASE type \in {d.body[i].type : i \in {j \in DOMAIN d.body : d.body[j].s = "local"}}
    <3>1. PICK i \in DOMAIN d.body : d.body[i].s = "local" /\ type = d.body[i].type
      BY <2>2
    <3> QED
      BY <3>1, <1>1, Indices DEF Statements, Blocks
  <2> QED
    BY <2>1, <2>2 DEF WrittenTypes
<1>6. Len(type.name) > 1 => type.name[1] \notin DOMAIN m
  <2>1. CASE Len(f.of) = 1
    BY NoMeaning, <1>0, <2>1, UnitTemplate
  <2>2. CASE Len(f.of) # 1
    <3>1. PICK t : Written(p, f, t)
      BY <1>0, <2>2, UnitTemplate
    <3>2. t \in p.templates /\ DOMAIN m = Parameters(t) /\ d \in UnitsOf(t)
      BY <3>1 DEF Written
    <3> HIDE DEF d, m
    <3> QED
      BY <3>2, <1>0 DEF Substitutes, d
  <2> QED
    BY <2>1, <2>2
<1> HIDE DEF m
<1> QED
  BY <1>3, ClosedNames, <1>6, ResolvedClosed, <1>0, UnitTemplate DEF m, Types

\* The functions that a function calls.
LEMMA WrittenCallNames ==
  ASSUME NEW p \in SourceForms, WellWritten(p), NEW f, Declared(p, f),
         NEW name \in WrittenCalls(Declaration(p, f))
  PROVE  name \in Names /\ Closed(MeaningOf(p, f), name) = name
<1> DEFINE d == Declaration(p, f)
           m == MeaningOf(p, f)
<1>0. WellDeclared(p) /\ \A t \in p.templates : Substitutes(t)
  BY DEF WellWritten
<1>3. PICK i \in DOMAIN d.body : d.body[i].s = "call" /\ name = d.body[i].name
  BY DEF WrittenCalls
<1>4. name \in Names
  <2>1. d.body[i] \in Statements
    BY Indices, <1>0, DeclarationFacts
  <2> QED
    BY <1>3, <2>1 DEF Statements, Blocks
<1>5. \A k \in DOMAIN name : name[k] \notin DOMAIN m
  <2>1. CASE Len(f.of) = 1
    BY NoMeaning, <1>0, <2>1, UnitTemplate
  <2>2. CASE Len(f.of) # 1
    <3>1. PICK t : Written(p, f, t)
      BY <1>0, <2>2, UnitTemplate
    <3>2. t \in p.templates /\ DOMAIN m = Parameters(t) /\ d \in UnitsOf(t)
      BY <3>1 DEF Written
    <3>4. name \in WrittenCalls(d)
      OBVIOUS
    <3> HIDE DEF d, m
    <3> QED
      BY <3>2, <3>4, <1>0 DEF Substitutes
  <2> QED
    BY <2>1, <2>2
<1> HIDE DEF m
<1> QED
  BY <1>4, <1>5, ClosedSame DEF m

\* The structs of the program: its own and the instances of its templates.
DeclaredStruct(p, n) ==
  n \in Names /\ IF Len(n) = 1 THEN StructNamed(p, n) # {} ELSE Instantiable(p, "struct", n)

\* A struct of the program has a plain name and the fields it was declared with.
LEMMA PlainStructs ==
  ASSUME NEW p \in SourceForms, WellDeclared(p), NEW n, StructNamed(p, n) # {}
  PROVE  Len(n) = 1 /\ n \in Names /\ \E i \in DOMAIN p.structs : FieldsOf(p, n) = p.structs[i].fields
<1> DEFINE i == CHOOSE j \in StructNamed(p, n) : TRUE
<1>2. i \in DOMAIN p.structs /\ p.structs[i].name = n
  BY DEF StructNamed
<1>3. FieldsOf(p, n) = p.structs[i].fields
  BY DEF FieldsOf
<1> HIDE DEF i
<1>5. p.structs[i] \in [name : Names, fields : Seq(Types)]
  BY <1>2, Indices DEF SourceForms
<1> QED
  BY <1>2, <1>3, <1>5 DEF WellDeclared

\* The fields of a struct, and the meaning of what is written there.
LEMMA FieldFacts ==
  ASSUME NEW p \in SourceForms, WellWritten(p), NEW n, DeclaredStruct(p, n)
  PROVE  /\ FieldsOf(p, n) \in Seq(Types) /\ Means(MeaningOf(p, TypeNode(n)))
         /\ Len(n) = 1 => MeaningOf(p, TypeNode(n)) = << >>
         /\ Len(n) # 1 => /\ FieldsOf(p, n) = Template(p, "struct", n).fields
                          /\ StructNamed(p, n) = {}
                          /\ MeaningOf(p, TypeNode(n)) = Meaning(Template(p, "struct", n), n)
<1>0. WellDeclared(p)
  BY DEF WellWritten
<1>1. TypeNode(n).of = n /\ TypeNode(n).method = "type"
  BY DEF TypeNode, Symbol
<1>2. CASE Len(n) = 1
  <2>2. PICK i \in DOMAIN p.structs : FieldsOf(p, n) = p.structs[i].fields
    BY <1>0, PlainStructs, <1>2 DEF DeclaredStruct
  <2>4. p.structs[i] \in [name : Names, fields : Seq(Types)]
    BY Indices DEF SourceForms
  <2> QED
    BY <1>2, NoMeaning, <1>1, <2>2, <2>4 DEF MeaningOf
<1>3. CASE Len(n) # 1
  <2>2. StructNamed(p, n) = {}
    BY <1>0, <1>3, PlainStructs
  <2> QED
    BY <1>3, <2>2, TemplateMeaning, <1>1, StructTemplate DEF MeaningOf, StructTemplates, DeclaredStruct,
       FieldsOf
<1> QED
  BY <1>2, <1>3

\* A meaning that is there while the fields of a struct are laid out.
FieldMeaning(p, n, m) ==
  DOMAIN m \subseteq AllParameters(p) /\ (Len(n) # 1 => m = MeaningOf(p, TypeNode(n)))

\* What the type of a field is resolved to.
LEMMA FieldNames ==
  ASSUME NEW p \in SourceForms, WellWritten(p), NEW n, DeclaredStruct(p, n),
         NEW m, FieldMeaning(p, n, m), NEW i \in DOMAIN FieldsOf(p, n)
  PROVE  /\ FieldsOf(p, n)[i] \in Types
         /\ Resolved(m, FieldsOf(p, n)[i].name) = Closed(MeaningOf(p, TypeNode(n)), FieldsOf(p, n)[i].name)
         /\ Closed(MeaningOf(p, TypeNode(n)), FieldsOf(p, n)[i].name) \in Names
         /\ Len(Closed(MeaningOf(p, TypeNode(n)), FieldsOf(p, n)[i].name)) = Len(FieldsOf(p, n)[i].name)
<1> DEFINE type == FieldsOf(p, n)[i]
           own == MeaningOf(p, TypeNode(n))
<1>0. WellDeclared(p) /\ NoParameter(p) /\ \A t \in p.templates : Substitutes(t)
  BY DEF WellWritten
<1>1. FieldsOf(p, n) \in Seq(Types) /\ Means(own)
  BY FieldFacts
<1>2. type \in Types
  BY <1>1, Indices
<1>3. type.name \in Names
  BY <1>2 DEF Types
<1>4. Resolved(m, type.name) = Closed(own, type.name)
  <2>1. CASE Len(n) = 1
    <3>2. PICK j \in DOMAIN p.structs : FieldsOf(p, n) = p.structs[j].fields
      BY <1>0, <2>1, PlainStructs DEF DeclaredStruct
    <3>4. \A k \in DOMAIN type.name : type.name[k] \notin DOMAIN m
      BY <1>0, <3>2 DEF FieldMeaning, AllParameters, NoParameter
    <3>7. Len(type.name) > 1 => type.name[1] \notin DOMAIN m
      <4>1. PICK l \in Nat : l = Len(type.name) /\ DOMAIN type.name = 1 .. l
        BY <1>3, LenProperties DEF Names
      <4> QED
        BY <3>4, <4>1
    <3> QED
      BY <1>3, <3>7, ResolvedClosed, ClosedSame, NoMeaning, <3>4, <2>1, FieldFacts
  <2>2. CASE Len(n) # 1
    <3> DEFINE t == Template(p, "struct", n)
    <3>1. m = own
      BY <2>2 DEF FieldMeaning
    <3>2. FieldsOf(p, n) = t.fields /\ own = Meaning(t, n)
      BY <2>2, FieldFacts
    <3>7. Len(type.name) > 1 => type.name[1] \notin DOMAIN own
      BY <3>2, <1>0, TemplateFound, TemplateMeaning, <2>2 DEF Substitutes, DeclaredStruct
    <3> HIDE DEF t, own, type
    <3> QED
      BY <1>3, <3>1, <3>7, ResolvedClosed
  <2> QED
    BY <2>1, <2>2
<1> QED
  BY <1>2, <1>4, <1>1, <1>3, ClosedNames

\* The symbols a program can need.
GoodNode(p, x) ==
  x = Symbol(x.of, x.method) /\ x.of \in Names /\ (x.method # "type" => Declared(p, x))

\* The types a sequence of them names.
LEMMA TypeNodesGood ==
  ASSUME NEW p, NEW types \in Seq(Types), NEW m, Means(m), NEW x \in TypeNodes(types, m)
  PROVE  GoodNode(p, x) /\ x.method = "type"
<1>1. PICK i \in DOMAIN types : x = TypeNode(Closed(m, types[i].name))
  BY DEF TypeNodes
<1>2. types[i] \in Types
  BY Indices
<1>4. PICK n \in Names : x = Symbol(n, "type")
  BY <1>1, <1>2, ClosedNames DEF TypeNode, Types
<1> QED
  BY <1>4 DEF GoodNode, Symbol

\* A struct that is named or instantiable is declared.
LEMMA InstanceDeclared ==
  ASSUME NEW p \in SourceForms, WellDeclared(p), NEW n \in Names,
         StructNamed(p, n) # {} \/ Instantiable(p, "struct", n)
  PROVE  DeclaredStruct(p, n)
<1>1. CASE StructNamed(p, n) # {}
  BY <1>1, PlainStructs DEF DeclaredStruct
<1>2. CASE Instantiable(p, "struct", n)
  BY <1>2, Longer, TemplateFound DEF DeclaredStruct
<1> QED
  BY <1>1, <1>2

\* The types that the fields name.
LEMMA FieldNodesGood ==
  ASSUME NEW p \in SourceForms, WellWritten(p), NEW n \in Names, NEW x \in FieldNodes(p, n)
  PROVE  GoodNode(p, x) /\ x.method = "type"
<1> QED
  BY TypeNodesGood, FieldFacts, InstanceDeclared DEF FieldNodes, WellWritten

\* The methods of an instance are declared.
LEMMA MethodNodesGood ==
  ASSUME NEW p \in SourceForms, WellDeclared(p), NEW n \in Names, NEW x \in MethodNodes(p, n)
  PROVE  GoodNode(p, x) /\ x.method \notin {"", "type"} /\ x.of = n
<1>1. Instantiable(p, "struct", n)
  BY DEF MethodNodes
<1>2. PICK i \in DOMAIN Methods(p, n) : x = Symbol(n, Methods(p, n)[i].name)
  BY <1>1 DEF MethodNodes
<1> QED
  BY <1>2, <1>1, MethodDeclared DEF GoodNode, Symbol

\* The types that a signature names.
LEMMA SignatureNodesGood ==
  ASSUME NEW p \in SourceForms, WellDeclared(p), NEW f, Declared(p, f), NEW x \in SignatureNodes(p, f)
  PROVE  GoodNode(p, x) /\ x.method = "type"
<1> QED
  BY TypeNodesGood, DeclarationFacts, UnitTemplate DEF SignatureNodes

\* The type of a local is needed unless it is built in.
LEMMA LocalNode ==
  ASSUME NEW p \in SourceForms, WellDeclared(p), NEW f, Declared(p, f), NEW x
  PROVE  x \in LocalNodes(p, f)
           <=> \E i \in DOMAIN BodyOf(p, f) :
                 /\ BodyOf(p, f)[i].s = "local" /\ ~BodyOf(p, f)[i].type.ptr
                 /\ Closed(MeaningOf(p, f), BodyOf(p, f)[i].type.name) \notin BuiltIn
                 /\ x = TypeNode(Closed(MeaningOf(p, f), BodyOf(p, f)[i].type.name))
<1> DEFINE m == MeaningOf(p, f)
           b == BodyOf(p, f)
<1>1. \A type, y : y \in TypeNodes(<<type>>, m)
        <=> /\ ~type.ptr /\ Closed(m, type.name) \notin BuiltIn /\ y = TypeNode(Closed(m, type.name))
  <2> SUFFICES ASSUME NEW type, NEW y
               PROVE  y \in TypeNodes(<<type>>, m)
                        <=> /\ ~type.ptr /\ Closed(m, type.name) \notin BuiltIn
                            /\ y = TypeNode(Closed(m, type.name))
    OBVIOUS
  <2> DEFINE types == <<type>>
  <2> HIDE DEF types, m
  <2> QED
    BY DEF types, TypeNode, Symbol, TypeNodes
<1> HIDE DEF m, b
<1> QED
  BY <1>1 DEF m, b, LocalNodes

\* The types and the calls of a body are among those written in it.
LEMMA LocalTypes ==
  ASSUME NEW p \in SourceForms, WellDeclared(p), NEW f, Declared(p, f), NEW i \in DOMAIN BodyOf(p, f)
  PROVE  /\ BodyOf(p, f)[i].s = "local" =>
              BodyOf(p, f)[i].type \in WrittenTypes(Declaration(p, f)) /\ BodyOf(p, f)[i].type \in Types
         /\ BodyOf(p, f)[i].s = "call" =>
              BodyOf(p, f)[i].name \in WrittenCalls(Declaration(p, f)) /\ BodyOf(p, f)[i].name \in Names
<1> QED
  BY BodyFacts DEF WrittenTypes, WrittenCalls, BodyOf, Statements, Blocks

\* The types that the locals of a body name.
LEMMA LocalNodesGood ==
  ASSUME NEW p \in SourceForms, WellWritten(p), NEW f, Declared(p, f), NEW x \in LocalNodes(p, f)
  PROVE  GoodNode(p, x) /\ x.method = "type"
<1>0. WellDeclared(p)
  BY DEF WellWritten
<1>1. PICK i \in DOMAIN BodyOf(p, f) :
        /\ BodyOf(p, f)[i].s = "local"
        /\ x = TypeNode(Closed(MeaningOf(p, f), BodyOf(p, f)[i].type.name))
  BY <1>0, LocalNode
<1>4. PICK n \in Names : x = Symbol(n, "type")
  BY <1>1, WrittenNames, <1>0, LocalTypes DEF TypeNode
<1> QED
  BY <1>4 DEF GoodNode, Symbol

\* The functions that a body calls are declared.
LEMMA CalleesGood ==
  ASSUME NEW p \in SourceForms, WellWritten(p), NEW f, Declared(p, f), NEW x \in Callees(p, f), Defined(p, x)
  PROVE  GoodNode(p, x) /\ x.method = ""
<1>0. WellDeclared(p)
  BY DEF WellWritten
<1>1. PICK i \in DOMAIN BodyOf(p, f) :
        BodyOf(p, f)[i].s = "call" /\ x = Function(Closed(MeaningOf(p, f), BodyOf(p, f)[i].name))
  BY DEF Callees
<1>3. Closed(MeaningOf(p, f), BodyOf(p, f)[i].name) \in Names
  BY WrittenCallNames, <1>0, <1>1, LocalTypes
<1>4. PICK n \in Names : x = Symbol(n, "")
  BY <1>1, <1>3 DEF Function
<1>5. x = Symbol(x.of, x.method) /\ x.of = n /\ x.method = ""
  BY <1>4 DEF Symbol
<1>6. CASE Plain(p, n) # {}
  <2>1. PICK j \in DOMAIN p.functions : p.functions[j].name = n
    BY <1>6, PlainFound
  <2>2. Len(n) = 1
    BY <1>0, <2>1 DEF WellDeclared
  <2>3. ~(Len(n) > 1)
    BY <2>2
  <2> QED
    BY <1>5, <1>6, <2>2, <2>3 DEF GoodNode, Declared
<1>7. CASE Instantiable(p, "function", n)
  BY <1>5, <1>7, TemplateFound DEF GoodNode, Declared
<1> QED
  BY <1>5, <1>6, <1>7 DEF Defined

\* What something declared needs is declared.
LEMMA NeedsGood ==
  ASSUME NEW p \in SourceForms, WellWritten(p), NEW x, GoodNode(p, x), NEW y \in Needs(p, x)
  PROVE  GoodNode(p, y)
<1>0. WellDeclared(p)
  BY DEF WellWritten
<1>1. CASE x.method = "type"
  <2>1. x.of \in Names /\ y \in FieldNodes(p, x.of) \cup MethodNodes(p, x.of)
    BY <1>1 DEF Needs, GoodNode
  <2> QED
    BY <1>0, <2>1, FieldNodesGood, MethodNodesGood
<1>2. CASE x.method # "type"
  BY <1>0, SignatureNodesGood, LocalNodesGood, CalleesGood, <1>2 DEF Needs, GoodNode
<1> QED
  BY <1>1, <1>2

\* All that is needed are names of types and declared functions.
LEMMA NeededFacts ==
  ASSUME NEW p \in SourceForms, WellWritten(p)
  PROVE  /\ Structs(p) \subseteq Needed(p) /\ Functions(p) \subseteq Needed(p)
         /\ ClosedUnder(p, Needed(p))
         /\ \A x \in Needed(p) : GoodNode(p, x)
<1> DEFINE nodes == Structs(p) \cup Functions(p)
           N == Reached(p, nodes)
           T == {x \in N : GoodNode(p, x)}
<1>0. WellDeclared(p) /\ Ends(p, nodes)
  BY DEF WellWritten
<1>1. nodes \subseteq N /\ ClosedUnder(p, N)
  BY <1>0, ReachedFacts
<1>2. ASSUME NEW x \in nodes PROVE GoodNode(p, x)
  <2>1. CASE x \in Structs(p)
    <3>1. PICK i \in DOMAIN p.structs : x = TypeNode(p.structs[i].name)
      BY <2>1 DEF Structs
    <3>3. p.structs[i] \in [name : Names, fields : Seq(Types)]
      BY Indices DEF SourceForms
    <3>4. PICK n \in Names : x = Symbol(n, "type")
      BY <3>1, <3>3 DEF TypeNode
    <3> QED
      BY <3>4 DEF GoodNode, Symbol
  <2>2. CASE x \in Functions(p)
    <3>1. PICK i \in DOMAIN p.functions : x = Function(p.functions[i].name)
      BY <2>2 DEF Functions
    <3>3. p.functions[i] \in Units(Names) /\ Len(p.functions[i].name) = 1
      BY <1>0, Indices DEF WellDeclared, SourceForms
    <3>8. PICK n : n = p.functions[i].name
      OBVIOUS
    <3>4. n \in Names /\ x = Symbol(n, "") /\ Len(n) = 1 /\ n = p.functions[i].name
      BY <3>3, <3>8, <3>1 DEF Units, Function
    <3>5. Plain(p, n) # {} /\ ~(Len(n) > 1)
      <4>2. Len(n) = 1
        BY <3>4
      <4>3. ~(Len(n) > 1)
        BY ONLY <4>2
      <4> QED
        BY <4>3, <3>4 DEF Plain
    <3> QED
      BY <3>4, <3>5 DEF GoodNode, Declared, Symbol
  <2> QED
    BY <2>1, <2>2
<1>3. nodes \subseteq T
  BY <1>1, <1>2
<1>4. ClosedUnder(p, T)
  <2> SUFFICES ASSUME NEW x \in T, NEW y \in Needs(p, x) PROVE y \in T
    BY DEF ClosedUnder
  <2> QED
    BY <1>1, NeedsGood DEF ClosedUnder
<1>5. N \subseteq T
  <2> HIDE DEF T, N
  <2> QED
    BY <1>0, <1>3, <1>4, ReachedLeast DEF N
<1> QED
  BY <1>1, <1>5 DEF Needed

--------------------------------------------------------------------------------
(* The tasks that are left. *)

\* A sequence, of whatever it holds.
IsSeq(s) == s \in Seq(Tasks(s))

\* A sequence over some set is one.
LEMMA SequenceIsSeq ==
  ASSUME NEW S, NEW s \in Seq(S)
  PROVE  IsSeq(s)
<1>1. PICK n \in Nat : n = Len(s) /\ DOMAIN s = 1 .. n /\ s = [i \in 1 .. n |-> s[i]]
  BY LenProperties
<1> QED
  BY <1>1 DEF IsSeq, Tasks

\* A task before the others.
LEMMA Pushed ==
  ASSUME NEW t, NEW r, IsSeq(r)
  PROVE  /\ DOMAIN r = 1 .. Len(r) /\ Len(r) \in Nat
         /\ Len(<<t>> \o r) = Len(r) + 1 /\ DOMAIN (<<t>> \o r) = 1 .. Len(r) + 1
         /\ (<<t>> \o r)[1] = t /\ \A i \in DOMAIN r : (<<t>> \o r)[i + 1] = r[i]
         /\ Head(<<t>> \o r) = t /\ Tail(<<t>> \o r) = r /\ <<t>> \o r # << >>
         /\ IsSeq(<<t>> \o r)
<1> DEFINE S == {t} \cup Tasks(r)
<1>1. r \in Seq(S) /\ <<t>> \in Seq(S)
  <2> HIDE DEF S
  <2> QED
    BY DEF S, IsSeq
<1> HIDE DEF S
<1>2. PICK n \in Nat : n = Len(r) /\ DOMAIN r = 1 .. n /\ r = [i \in 1 .. n |-> r[i]]
  BY <1>1, LenProperties
<1>4. PICK u : u = <<t>>
  OBVIOUS
<1>5. Len(u) = 1 /\ u[1] = t /\ u \in Seq(S)
  BY <1>1, <1>4
<1>6. PICK q : q = u \o r
  OBVIOUS
<1>15. r \in Seq(S) /\ u \in Seq(S)
  BY <1>1, <1>5
<1>7. q \in Seq(S)
  BY ONLY <1>6, <1>15, ConcatProperties
<1>16. Len(u \o r) = Len(u) + Len(r)
  BY ONLY <1>15, ConcatProperties
<1>17. \A i \in 1 .. Len(u) + Len(r) : (u \o r)[i] = IF i <= Len(u) THEN u[i] ELSE r[i - Len(u)]
  BY ONLY <1>15, ConcatProperties
<1>8. Len(q) = n + 1 /\ \A i \in 1 .. n + 1 : q[i] = IF i <= 1 THEN u[i] ELSE r[i - 1]
  BY <1>6, <1>16, <1>5, <1>17, <1>2
<1>9. DOMAIN q = 1 .. n + 1 /\ q # << >>
  BY <1>7, <1>8, LenProperties
<1>10. q[1] = t
  BY <1>5, <1>8
<1>11. \A i \in 1 .. n : q[i + 1] = r[i]
  <2> SUFFICES ASSUME NEW i \in 1 .. n PROVE q[i + 1] = r[i]
    OBVIOUS
  <2> QED
    BY <1>8
<1>12. Head(q) = t
  BY <1>7, <1>9, <1>10, HeadTailProperties
<1>13. Tail(q) = r
  <2>2. PICK v : v = Tail(q)
    OBVIOUS
  <2>3. Len(v) = n /\ v \in Seq(S) /\ \A i \in 1 .. n : v[i] = q[i + 1]
    BY <1>8, <2>2, <1>7, <1>9, HeadTailProperties
  <2> QED
    BY <1>2, <2>2, <2>3, LenProperties, <1>11
<1>14. IsSeq(q)
  BY <1>7, SequenceIsSeq
<1> QED
  BY <1>2, <1>4, <1>6, <1>8, <1>9, <1>10, <1>11, <1>12, <1>13, <1>14

\* A task more.
LEMMA PushedTasks ==
  ASSUME NEW t, NEW r, IsSeq(r)
  PROVE  Tasks(<<t>> \o r) = {t} \cup Tasks(r)
<1>1. PICK q : q = <<t>> \o r
  OBVIOUS
<1>2. PICK n \in Nat : n = Len(r) /\ DOMAIN r = 1 .. n
  BY Pushed
<1>3. DOMAIN q = 1 .. n + 1 /\ q[1] = t /\ \A i \in 1 .. n : q[i + 1] = r[i]
  BY <1>1, <1>2, Pushed
<1>4. ASSUME NEW k \in 1 .. n + 1 PROVE q[k] \in {t} \cup Tasks(r)
  <2>1. CASE k = 1
    BY <1>3, <2>1
  <2>2. CASE k # 1
    <3>1. k - 1 \in 1 .. n /\ k - 1 + 1 = k
      BY <2>2
    <3> QED
      BY <1>2, <3>1, <1>3 DEF Tasks
  <2> QED
    BY <2>1, <2>2
<1>5. ASSUME NEW u \in {t} \cup Tasks(r) PROVE u \in Tasks(q)
  <2>1. CASE u = t
    BY <1>3, <2>1 DEF Tasks
  <2>2. CASE u \in Tasks(r)
    <3>1. PICK k \in 1 .. n : u = r[k]
      BY <1>2, <2>2 DEF Tasks
    <3>2. k + 1 \in 1 .. n + 1
      OBVIOUS
    <3> QED
      BY <1>3, <3>1, <3>2 DEF Tasks
  <2> QED
    BY <2>1, <2>2
<1> QED
  BY <1>1, <1>3, <1>4, <1>5 DEF Tasks

\* A stack is its top and the rest.
LEMMA Popped ==
  ASSUME NEW s, IsSeq(s), s # << >>
  PROVE  /\ s = <<Head(s)>> \o Tail(s) /\ IsSeq(Tail(s))
         /\ Tasks(s) = {Head(s)} \cup Tasks(Tail(s))
<1>1. s \in Seq(Tasks(s))
  BY DEF IsSeq
<1>2. PICK t, r : t = Head(s) /\ r = Tail(s)
  OBVIOUS
<1>3. /\ r \in Seq(Tasks(s)) /\ t = s[1] /\ Len(r) = Len(s) - 1
      /\ \A i \in 1 .. Len(r) : r[i] = s[i + 1]
  BY <1>1, <1>2, HeadTailProperties
<1>4. IsSeq(r)
  BY <1>3, SequenceIsSeq
<1>5. PICK q : q = <<t>> \o r
  OBVIOUS
<1>6. PICK n \in Nat : n = Len(r) /\ DOMAIN r = 1 .. n /\ DOMAIN q = 1 .. n + 1
  BY <1>4, <1>5, Pushed
<1>7. q[1] = t /\ \A i \in 1 .. n : q[i + 1] = r[i]
  BY <1>4, <1>5, <1>6, Pushed
<1>8. PICK m \in Nat : m = Len(s) /\ DOMAIN s = 1 .. m /\ s = [i \in 1 .. m |-> s[i]]
  BY <1>1, LenProperties
<1>9. m = n + 1
  BY <1>3, <1>6, <1>8
<1>10. \A k \in 1 .. n + 1 : q[k] = s[k]
  <2> SUFFICES ASSUME NEW k \in 1 .. n + 1 PROVE q[k] = s[k]
    OBVIOUS
  <2>1. CASE k = 1
    BY <1>3, <1>7, <2>1
  <2>2. CASE k # 1
    <3>1. k - 1 \in 1 .. n /\ k - 1 + 1 = k
      BY <2>2
    <3> QED
      BY <1>3, <1>6, <1>7, <3>1
  <2> QED
    BY <2>1, <2>2
<1>12. s = q
  BY <1>8, <1>9, <1>10, <1>6, LenProperties, <1>4, <1>5, Pushed DEF IsSeq
<1> QED
  BY <1>2, <1>4, <1>5, <1>12, PushedTasks

\* Tasks that are apart stay apart when one goes, and when one comes that is
\* apart from the others.
LEMMA ApartPopped ==
  ASSUME NEW p, NEW t, NEW r, IsSeq(r), AllApart(p, <<t>> \o r)
  PROVE  AllApart(p, r) /\ \A u \in Tasks(r) : Apart(p, t, u)
<1>1. PICK q : q = <<t>> \o r
  OBVIOUS
<1>2. PICK n \in Nat : n = Len(r) /\ DOMAIN r = 1 .. n
  BY Pushed
<1>3. DOMAIN q = 1 .. n + 1 /\ q[1] = t /\ \A i \in 1 .. n : q[i + 1] = r[i]
  BY <1>1, <1>2, Pushed
<1>4. \A j, k \in 1 .. n + 1 : j < k => Apart(p, q[j], q[k])
  BY <1>1, <1>3 DEF AllApart
<1>5. ASSUME NEW j \in 1 .. n, NEW k \in 1 .. n, j < k PROVE Apart(p, r[j], r[k])
  BY <1>3, <1>4, <1>5
<1>6. ASSUME NEW k \in 1 .. n PROVE Apart(p, t, r[k])
  BY <1>3, <1>4
<1> QED
  BY <1>2, <1>5, <1>6 DEF AllApart, Tasks

\* A task that is apart from the others may be pushed.
LEMMA ApartPushed ==
  ASSUME NEW p, NEW t, NEW r, IsSeq(r), AllApart(p, r), \A u \in Tasks(r) : Apart(p, t, u)
  PROVE  AllApart(p, <<t>> \o r)
<1>1. PICK q : q = <<t>> \o r
  OBVIOUS
<1>2. PICK n \in Nat : n = Len(r) /\ DOMAIN r = 1 .. n
  BY Pushed
<1>3. DOMAIN q = 1 .. n + 1 /\ q[1] = t /\ \A i \in 1 .. n : q[i + 1] = r[i]
  BY <1>1, <1>2, Pushed
<1>4. ASSUME NEW j \in 1 .. n + 1, NEW k \in 1 .. n + 1, j < k PROVE Apart(p, q[j], q[k])
  <2>1. k - 1 \in 1 .. n /\ k - 1 + 1 = k
    BY <1>4
  <2>2. q[k] = r[k - 1] /\ r[k - 1] \in Tasks(r)
    BY <1>2, <1>3, <2>1 DEF Tasks
  <2>3. CASE j = 1
    BY <1>3, <2>2, <2>3
  <2>4. CASE j # 1
    <3>1. j - 1 \in 1 .. n /\ j - 1 + 1 = j /\ j - 1 < k - 1
      BY <1>4, <2>4
    <3> QED
      BY <2>2, <1>2, <2>1, <3>1, <1>3 DEF AllApart
  <2> QED
    BY <2>3, <2>4
<1> QED
  BY <1>1, <1>3, <1>4 DEF AllApart

--------------------------------------------------------------------------------
(* The contexts that are given back. *)

\* Some task is a body in an unsafe block.
UnsafeTask(p, T) == \E t \in T : IsUnsafe(p, t)

\* A task may stand on the stack r.
Joined(t, r) == /\ r # << >> => Link(t, Head(r))
                /\ t.do = "layout" /\ Len(t.name) # 1 => r # << >>

\* A task from context c to d, on a stack that goes on from d.
TaskStep(p, t, r, c, d) ==
  /\ Follows(p, t, c, d) /\ Planned(p, r, d) /\ Joined(t, r)
  /\ c.unsafe # 0 => UnsafeTask(p, {t} \cup Tasks(r))

\* The top of a stack.
LEMMA HeadIsFirst ==
  ASSUME NEW r, IsSeq(r)
  PROVE  /\ r # << >> <=> 1 \in DOMAIN r
         /\ r # << >> => Head(r) = r[1] /\ Head(r) \in Tasks(r)
<1>1. PICK n \in Nat : n = Len(r) /\ DOMAIN r = 1 .. n
  BY LenProperties DEF IsSeq
<1> QED
  BY <1>1, EmptySeq, HeadTailProperties DEF Tasks, IsSeq

\* Done with a task, the next one finds the context it was to leave.
LEMMA PlanPopped ==
  ASSUME NEW p, NEW t, NEW r, IsSeq(r), NEW c, Planned(p, <<t>> \o r, c)
  PROVE  \E d : TaskStep(p, t, r, c, d)
<1>1. PICK q : q = <<t>> \o r
  OBVIOUS
<1>2. PICK n \in Nat : n = Len(r) /\ DOMAIN r = 1 .. n
  BY Pushed
<1>3. DOMAIN q = 1 .. n + 1 /\ Len(q) = n + 1 /\ q[1] = t /\ \A i \in 1 .. n : q[i + 1] = r[i]
  BY <1>1, <1>2, Pushed
<1>4. PICK C : Plans(p, C, q, c)
  BY <1>1 DEF Planned
<1>5. /\ C[1] = c /\ AtRest(C[n + 1 + 1])
      /\ \A k \in 1 .. n + 1 :
           /\ Follows(p, q[k], C[k], C[k + 1])
           /\ k + 1 \in 1 .. n + 1 => Link(q[k], q[k + 1])
           /\ q[k].do = "layout" /\ Len(q[k].name) # 1 => k + 1 \in 1 .. n + 1
           /\ C[k].unsafe # 0 => \E j \in 1 .. n + 1 : j >= k /\ IsUnsafe(p, q[j])
  BY <1>3, <1>4 DEF Plans
<1> DEFINE D == [k \in 1 .. n + 1 |-> C[k + 1]]
<1>6. D[1] = C[2] /\ D[n + 1] = C[n + 1 + 1]
  OBVIOUS
<1>7. \A k \in 1 .. n : D[k] = C[k + 1] /\ D[k + 1] = C[k + 1 + 1]
  OBVIOUS
<1> HIDE DEF D
<1>8. ASSUME NEW k \in 1 .. n
      PROVE  /\ Follows(p, r[k], D[k], D[k + 1])
             /\ k + 1 \in 1 .. n => Link(r[k], r[k + 1])
             /\ r[k].do = "layout" /\ Len(r[k].name) # 1 => k + 1 \in 1 .. n
             /\ D[k].unsafe # 0 => \E j \in 1 .. n : j >= k /\ IsUnsafe(p, r[j])
  <2>1. PICK l \in 1 .. n + 1 : l = k + 1
    OBVIOUS
  <2>3. q[l] = r[k] /\ D[k] = C[l] /\ D[k + 1] = C[l + 1]
    BY <1>3, <1>7, <2>1
  <2>6. ASSUME NEW j \in 1 .. n + 1, j >= l, IsUnsafe(p, q[j])
        PROVE  \E i \in 1 .. n : i >= k /\ IsUnsafe(p, r[i])
    <3>1. j - 1 \in 1 .. n /\ j - 1 + 1 = j /\ j - 1 >= k
      BY <2>1, <2>6
    <3> QED
      BY <2>6, <3>1, <1>3
  <2> QED
    BY <2>3, <2>6, <2>1, <1>3, <1>5
<1>10. 1 \in 1 .. n + 1
  OBVIOUS
<1>11. Follows(p, t, c, C[2])
  BY <1>3, <1>5, <1>10
<1>12. Joined(t, r)
  BY <1>3, <1>5, <1>10, <1>2, HeadIsFirst DEF Joined
<1>13. c.unsafe # 0 => UnsafeTask(p, {t} \cup Tasks(r))
  BY <1>5, <1>10, <1>3, <1>1, PushedTasks DEF UnsafeTask, Tasks
<1> QED
  BY <1>11, <1>12, <1>13, <1>2, <1>5, <1>6, <1>8 DEF TaskStep, Planned, Plans

\* A task goes before others that find what it is to leave.
LEMMA PlanPushed ==
  ASSUME NEW p, NEW t, NEW r, IsSeq(r), NEW c, NEW d, TaskStep(p, t, r, c, d)
  PROVE  Planned(p, <<t>> \o r, c)
<1>1. PICK q : q = <<t>> \o r
  OBVIOUS
<1>2. PICK n \in Nat : n = Len(r) /\ DOMAIN r = 1 .. n
  BY Pushed
<1>3. DOMAIN q = 1 .. n + 1 /\ Len(q) = n + 1 /\ q[1] = t /\ \A i \in 1 .. n : q[i + 1] = r[i]
  BY <1>1, <1>2, Pushed
<1>4. PICK C : Plans(p, C, r, d)
  BY DEF Planned, TaskStep
<1>5. /\ C[1] = d /\ AtRest(C[n + 1])
      /\ \A k \in 1 .. n :
           /\ Follows(p, r[k], C[k], C[k + 1])
           /\ k + 1 \in 1 .. n => Link(r[k], r[k + 1])
           /\ r[k].do = "layout" /\ Len(r[k].name) # 1 => k + 1 \in 1 .. n
           /\ C[k].unsafe # 0 => \E j \in 1 .. n : j >= k /\ IsUnsafe(p, r[j])
  BY <1>2, <1>4 DEF Plans
<1> DEFINE D == [k \in 1 .. n + 1 + 1 |-> IF k = 1 THEN c ELSE C[k - 1]]
<1>6. D[1] = c /\ D[1 + 1] = C[1]
  OBVIOUS
<1>7. \A k \in 1 .. n + 1 : D[k + 1] = C[k]
  <2> SUFFICES ASSUME NEW k \in 1 .. n + 1 PROVE D[k + 1] = C[k]
    OBVIOUS
  <2> QED
    OBVIOUS
<1> HIDE DEF D
<1>8. ASSUME NEW l \in 1 .. n + 1
      PROVE  /\ Follows(p, q[l], D[l], D[l + 1])
             /\ l + 1 \in 1 .. n + 1 => Link(q[l], q[l + 1])
             /\ q[l].do = "layout" /\ Len(q[l].name) # 1 => l + 1 \in 1 .. n + 1
             /\ D[l].unsafe # 0 => \E j \in 1 .. n + 1 : j >= l /\ IsUnsafe(p, q[j])
  <2>1. CASE l = 1
    <3>1. q[l] = t /\ D[l] = c /\ D[l + 1] = d
      BY <1>3, <1>5, <1>6, <2>1
    <3>6. D[l].unsafe # 0 => \E j \in 1 .. n + 1 : j >= l /\ IsUnsafe(p, q[j])
      <4>2. Tasks(q) = {t} \cup Tasks(r)
        BY <1>1, PushedTasks
      <4> QED
        BY <3>1, <1>3, <4>2, <2>1 DEF UnsafeTask, Tasks, TaskStep
    <3> QED
      BY <3>6, <3>1, <2>1, <1>2, HeadIsFirst, <1>3 DEF Joined, TaskStep
  <2>2. CASE l # 1
    <3>1. PICK k \in 1 .. n : k = l - 1 /\ k + 1 = l
      BY <2>2
    <3>2. /\ Follows(p, r[k], C[k], C[k + 1])
          /\ k + 1 \in 1 .. n => Link(r[k], r[k + 1])
          /\ r[k].do = "layout" /\ Len(r[k].name) # 1 => k + 1 \in 1 .. n
          /\ C[k].unsafe # 0 => \E j \in 1 .. n : j >= k /\ IsUnsafe(p, r[j])
      BY <1>5
    <3>3. q[l] = r[k]
      BY <1>3, <3>1
    <3>4. D[l] = C[k]
      BY <1>7, <3>1
    <3>5. D[l + 1] = C[k + 1]
      BY <3>1, <1>7
    <3>7. k + 1 \in 1 .. n => l + 1 \in 1 .. n + 1
      BY <3>1
    <3> QED
      BY <3>2, <3>3, <3>7, <3>4, <3>5, <1>3, <3>1
  <2> QED
    BY <2>1, <2>2
<1>9. AtRest(D[n + 1 + 1])
  BY <1>5, <1>7
<1> QED
  BY <1>1, <1>3, <1>6, <1>8, <1>9 DEF Planned, Plans

\* A task that is not exact can start from a context that is alike.
LEMMA FollowsAlike ==
  ASSUME NEW p, NEW t, ~Exact(t), NEW c, NEW d, NEW e, IsContext(c), c.unsafe \in Nat, Alike(c, d),
         Follows(p, t, d, e)
  PROVE  Follows(p, t, c, e)
<1> QED
  BY DEF Follows, Alike, Outside, Returns, Exact, IsBody, AtRest

\* What is left of a context that is alike is enough for tasks that are not in a
\* function.
LEMMA PlanAlike ==
  ASSUME NEW p, NEW r, IsSeq(r), NEW c, NEW d, IsContext(c), c.unsafe \in Nat, Alike(c, d),
         Planned(p, r, d), r # << >> => ~Exact(Head(r))
  PROVE  Planned(p, r, c)
<1>1. CASE r = << >>
  <2>2. PICK C : Plans(p, C, r, d)
    BY DEF Planned
  <2> DEFINE D == [k \in 1 .. 1 |-> c]
  <2>5. D[1] = c /\ D[0 + 1] = c
    OBVIOUS
  <2> HIDE DEF D
  <2> QED
    BY <2>5, <2>2, <1>1 DEF Planned, Plans, AtRest, Alike
<1>2. CASE r # << >>
  <2>1. PICK t, u : t = Head(r) /\ u = Tail(r)
    OBVIOUS
  <2>2. r = <<t>> \o u /\ IsSeq(u)
    BY <1>2, <2>1, Popped
  <2>3. PICK e : TaskStep(p, t, u, d, e)
    BY <2>2, PlanPopped
  <2> QED
    BY <2>2, PlanPushed, <2>3, <1>2, <2>1, FollowsAlike DEF TaskStep, Alike
<1> QED
  BY <1>1, <1>2

--------------------------------------------------------------------------------
(* What stays true of a struct, a function or a task while others are made. *)

\* What the statements of a body have found stays made.
LEMMA DoneKept ==
  ASSUME NEW p, NEW S, NEW S2, S \subseteq S2, NEW sy, NEW sy2, sy \subseteq sy2, NEW f, NEW n,
         DoneTo(p, S, sy, f, n)
  PROVE  DoneTo(p, S2, sy2, f, n)
  BY DEF DoneTo, StatementMade, Made

\* The type of a field stays made.
LEMMA FieldKept ==
  ASSUME NEW p, NEW S, NEW S2, S \subseteq S2, NEW n, NEW i, FieldMade(p, S, n, i)
  PROVE  FieldMade(p, S2, n, i)
  BY DEF FieldMade, Made

\* A task stays sound when more is declared that it does not make itself.
LEMMA TaskKept ==
  ASSUME NEW p, NEW S, NEW S2, S \subseteq S2, NEW sy, NEW sy2, sy \subseteq sy2, NEW cd, NEW cd2, NEW t,
         SoundTask(p, S, sy, cd, t),
         IsBody(t) => t.of \in DOMAIN cd2 /\ cd2[t.of] = cd[t.of],
         t.do = "methods" =>
           \A i \in DOMAIN Methods(p, t.name) :
             Symbol(t.name, Methods(p, t.name)[i].name) \in sy2 => Symbol(t.name, Methods(p, t.name)[i].name) \in sy,
         t.do = "instance" => Function(t.name) \notin sy2,
         t.do = "generate" => Function(t.name) \notin DOMAIN cd2
  PROVE  SoundTask(p, S2, sy2, cd2, t)
<1>1. t.do \in {"layout", "methods", "instance", "method", "function", "plain", "declare", "generate"}
  BY DEF SoundTask
<1>7. t.do = "generate" => Plain(p, t.name) # {} /\ Function(t.name) \notin DOMAIN cd2
  BY DEF SoundTask
<1> QED
  BY <1>1, <1>7, FieldKept, DoneKept DEF SoundTask

\* A struct stays sound under the task that was its own.
LEMMA StructKept ==
  ASSUME NEW p, NEW st, NEW st2, NEW D, NEW D2, NEW T, NEW T2, NEW h, NEW h2, NEW n,
         SoundStruct(p, st, D, T, h, n), st2[n] = st[n], DOMAIN st \subseteq DOMAIN st2, D \subseteq D2,
         T \subseteq T2 \cup {h}, st[n].layout = "pending" => h # Layout(n),
         st[n].layout = "visiting" /\ IsLayout(h, n) /\ h.at # 0 => \E t \in T2 : IsLayout(t, n) /\ t.at # 0,
         IsMethods(h, n) /\ h.at = 1 /\ HasRem(p, n) => st[n].destructor \/ (IsMethods(h2, n) /\ h2.at = 1),
         IsMethods(h, n) => (\E t \in T2 : IsMethods(t, n)) \/ MethodNodes(p, n) \subseteq D2
  PROVE  SoundStruct(p, st2, D2, T2, h2, n)
<1>2. st2[n].layout = "visiting" => \E t \in T2 : IsLayout(t, n) /\ t.at # 0
  BY DEF SoundStruct
<1>5. Len(n) # 1 => (\E t \in T2 : IsMethods(t, n)) \/ MethodNodes(p, n) \subseteq D2
  BY DEF SoundStruct
<1> QED
  BY <1>2, <1>5, FieldKept DEF SoundStruct

\* A struct is not touched by what is not about it.
LEMMA StructAway ==
  ASSUME NEW p, NEW st, NEW st2, NEW D, NEW D2, NEW T, NEW T2, NEW h, NEW h2, NEW n,
         SoundStruct(p, st, D, T, h, n), st2[n] = st[n], DOMAIN st \subseteq DOMAIN st2, D \subseteq D2,
         T \subseteq T2 \cup {h}, h.do \notin {"layout", "methods"} \/ h.name # n
  PROVE  SoundStruct(p, st2, D2, T2, h2, n)
<1> QED
  BY StructKept DEF IsLayout, IsMethods, Layout

\* Where the code of a function comes from.
CodeOrigin(p, S, cd, T, f) ==
  /\ f \in FunctionsOf(Needed(p)) /\ (f.method # "" => f.of \in S)
  /\ \A x \in SignatureNodes(p, f) : x.of \in S
  /\ ~cd[f][1].checked => \/ \E g \in DOMAIN cd \ {f} : Unchecked(cd, g)
                          \/ \E t \in T : IsUnsafe(p, t) /\ t.of # f

\* The code of a function is complete or under way.
CodeDone(p, S, sy, cd, T, f) == Complete(p, S, sy, cd, f) \/ \E t \in T : IsBody(t) /\ t.of = f

\* Why a function has code, and why it is unchecked, stays true.
LEMMA OriginKept ==
  ASSUME NEW p, NEW S, NEW S2, S \subseteq S2, NEW cd, NEW cd2, NEW T, NEW T2, NEW h, NEW f,
         CodeOrigin(p, S, cd, T, f), cd2[f][1].checked <=> cd[f][1].checked, DOMAIN cd \subseteq DOMAIN cd2,
         \A g \in DOMAIN cd : Unchecked(cd, g) => Unchecked(cd2, g),
         T \subseteq T2 \cup {h},
         IsUnsafe(p, h) => h \in T2 \/ (h.of \in DOMAIN cd2 /\ Unchecked(cd2, h.of))
  PROVE  CodeOrigin(p, S2, cd2, T2, f)
<1> QED
  BY DEF CodeOrigin

\* Code that is complete or under way stays so.
LEMMA CodeDoneKept ==
  ASSUME NEW p, NEW S, NEW S2, S \subseteq S2, NEW sy, NEW sy2, sy \subseteq sy2, NEW cd, NEW cd2,
         NEW T, NEW T2, NEW h, NEW f, CodeDone(p, S, sy, cd, T, f), T \subseteq T2 \cup {h},
         cd2[f] = cd[f], IsBody(h) => h.of # f \/ \E t \in T2 : IsBody(t) /\ t.of = f
  PROVE  CodeDone(p, S2, sy2, cd2, T2, f)
<1>1. CASE Complete(p, S, sy, cd, f)
  BY <1>1, DoneKept DEF CodeDone, Complete
<1>2. CASE \E t \in T : IsBody(t) /\ t.of = f
  <2>1. PICK t \in T : IsBody(t) /\ t.of = f
    BY <1>2
  <2> QED
    BY <2>1 DEF CodeDone
<1> QED
  BY <1>1, <1>2 DEF CodeDone

\* The two parts of SoundCode.
LEMMA CodeParts ==
  ASSUME NEW p, NEW S, NEW sy, NEW cd, NEW T, NEW f
  PROVE  SoundCode(p, S, sy, cd, T, f) <=> CodeOrigin(p, S, cd, T, f) /\ CodeDone(p, S, sy, cd, T, f)
  BY DEF SoundCode, CodeOrigin, CodeDone

\* Code that is not touched, while other code may come.
LEMMA CodeKept ==
  ASSUME NEW p, NEW S, NEW S2, S \subseteq S2, NEW sy, NEW sy2, sy \subseteq sy2, NEW cd, NEW cd2,
         NEW T, NEW T2, NEW h, NEW f \in DOMAIN cd, SoundCode(p, S, sy, cd, T, f), T \subseteq T2 \cup {h},
         DOMAIN cd \subseteq DOMAIN cd2, \A g \in DOMAIN cd : cd2[g] = cd[g],
         IsBody(h) => h \in T2
  PROVE  SoundCode(p, S2, sy2, cd2, T2, f)
<1>2. \A g \in DOMAIN cd : Unchecked(cd, g) => Unchecked(cd2, g)
  BY DEF Unchecked
<1>3. IsUnsafe(p, h) => h \in T2
  BY DEF IsUnsafe
<1>4. cd2[f] = cd[f]
  OBVIOUS
<1>6. IsBody(h) => h.of # f \/ \E t \in T2 : IsBody(t) /\ t.of = f
  OBVIOUS
<1> QED
  BY CodeParts, <1>2, <1>3, <1>4, OriginKept, <1>6, CodeDoneKept

\* The symbols stay right when functions get code.
LEMMA SymbolsKept ==
  ASSUME NEW p, NEW sy, NEW D, NEW D2, NEW T, NEW T2, NEW h, NEW N, SoundSymbols(p, sy, D, T),
         D2 = D \cup N, T \subseteq T2 \cup {h}, h.do = "generate" => Function(h.name) \in D2
  PROVE  /\ SoundSymbols(p, sy \cup N, D2, T2)
         /\ (\A f \in N : f.method = "" /\ Len(f.of) = 1) => SoundSymbols(p, sy, D2, T2)
<1>1. ASSUME NEW f, Awaited(T, f) PROVE f \in D2 \/ Awaited(T2, f)
  <2>1. PICK t \in T : t.do = "generate" /\ f = Function(t.name)
    BY <1>1 DEF Awaited
  <2> QED
    BY <2>1 DEF Awaited
<1> QED
  BY <1>1 DEF SoundSymbols

\* A task about the same thing is inside of the same set.
LEMMA InsideTask ==
  ASSUME NEW N, NEW t, NEW u, InsideOf(N, t), u.do = t.do \/ (IsBody(t) /\ IsBody(u)),
         IsBody(t) => u.of = t.of, t.do \in {"layout", "methods", "instance", "generate"} => u.name = t.name
  PROVE  InsideOf(N, u)
  BY DEF InsideOf, IsBody

--------------------------------------------------------------------------------
(* The invariant. *)

\* The inductive invariant of a program without refusals: the tasks are apart, there is a
\* plan of contexts, and what is declared and generated agrees with the tasks.
IState(p, st, sy, cd, s, c) ==
  /\ IsSeq(s) /\ AllApart(p, s) /\ Planned(p, s, c)
  /\ SoundState(p, st, sy, cd, Tasks(s), Head(s))

\* What is known of the task that is next.
HeadState(p, st, sy, cd, t, r, c, d) ==
  /\ IsSeq(r) /\ AllApart(p, r) /\ TaskStep(p, t, r, c, d)
  /\ SoundState(p, st, sy, cd, {t} \cup Tasks(r), t)
  /\ SoundTask(p, DOMAIN st, sy, cd, t) /\ InsideOf(Needed(p), t)
  /\ \A u \in Tasks(r) : Apart(p, t, u)

\* The invariant, seen from the task on top.
LEMMA HeadFacts ==
  ASSUME NEW p, NEW st, NEW sy, NEW cd, NEW s, NEW c, IState(p, st, sy, cd, s, c), s # << >>
  PROVE  \E d : HeadState(p, st, sy, cd, Head(s), Tail(s), c, d)
<1>1. PICK t, r : t = Head(s) /\ r = Tail(s)
  OBVIOUS
<1>2. s = <<t>> \o r /\ IsSeq(r) /\ Tasks(s) = {t} \cup Tasks(r)
  BY <1>1, Popped DEF IState
<1>4. PICK d : TaskStep(p, t, r, c, d)
  BY <1>2, PlanPopped DEF IState
<1> QED
  BY <1>1, <1>2, <1>4, ApartPopped DEF HeadState, IState, SoundState

\* The invariant of what is left, and of what is left with a task before it.
LEMMA StateOfRest ==
  ASSUME NEW p, NEW st, NEW sy, NEW cd, NEW r, NEW c, IsSeq(r), AllApart(p, r), Planned(p, r, c),
         NEW h, h = Head(r), SoundState(p, st, sy, cd, Tasks(r), h)
  PROVE  IState(p, st, sy, cd, r, c)
  BY DEF IState

\* The invariant holds with a task on top that fits the others.
LEMMA StateOfPushed ==
  ASSUME NEW p, NEW st, NEW sy, NEW cd, NEW t, NEW r, NEW c, NEW d, IsSeq(r), AllApart(p, r),
         TaskStep(p, t, r, c, d), \A u \in Tasks(r) : Apart(p, t, u),
         SoundState(p, st, sy, cd, {t} \cup Tasks(r), t)
  PROVE  IState(p, st, sy, cd, <<t>> \o r, c)
<1>1. PICK q : q = <<t>> \o r
  OBVIOUS
<1> QED
  BY <1>1, PushedTasks, Pushed, PlanPushed, ApartPushed DEF IState

\* The structs and the functions that are made are declared.
LEMMA KnownDeclared ==
  ASSUME NEW p \in SourceForms, WellWritten(p), NEW st, NEW sy, NEW cd, NEW T, NEW h,
         SoundState(p, st, sy, cd, T, h)
  PROVE  /\ \A n \in DOMAIN st : DeclaredStruct(p, n)
         /\ \A f \in DOMAIN cd : Declared(p, f) /\ f \in Needed(p)
<1>1. \A x \in Needed(p) : GoodNode(p, x)
  BY NeededFacts
<1>2. ASSUME NEW n \in DOMAIN st PROVE DeclaredStruct(p, n)
  BY <1>1 DEF SoundStruct, DeclaredStruct, TypeNode, Symbol, GoodNode, SoundState
<1> QED
  BY <1>2, <1>1 DEF GoodNode, SoundState, SoundCode, FunctionsOf, TypesOf

\* A step that makes no function and no symbol.
LEMMA StateKept ==
  ASSUME NEW p, NEW st, NEW st2, NEW sy, NEW cd, NEW T, NEW T2, NEW h, NEW h2,
         SoundState(p, st, sy, cd, T, h), DOMAIN st \subseteq DOMAIN st2, T \subseteq T2 \cup {h},
         IsBody(h) => h \in T2, h.do = "generate" => h \in T2,
         \A n \in DOMAIN st2 : SoundStruct(p, st2, DOMAIN cd, T2, h2, n),
         \A t \in T2 : SoundTask(p, DOMAIN st2, sy, cd, t) /\ InsideOf(Needed(p), t)
  PROVE  SoundState(p, st2, sy, cd, T2, h2)
<1>3. SoundSymbols(p, sy, DOMAIN cd, T2)
  <2>3. ASSUME NEW f, Awaited(T, f) PROVE Awaited(T2, f)
    <3>1. PICK t \in T : t.do = "generate" /\ f = Function(t.name)
      BY <2>3 DEF Awaited
    <3> QED
      BY <3>1 DEF Awaited
  <2> QED
    BY <2>3 DEF SoundSymbols, SoundState
<1> QED
  BY <1>3, CodeKept DEF SoundState

\* The tasks that are left while types and their layouts are made.
LEMMA TasksAway ==
  ASSUME NEW p, NEW st, NEW st2, NEW sy, NEW cd, NEW T, NEW h, SoundState(p, st, sy, cd, T, h),
         DOMAIN st \subseteq DOMAIN st2, NEW t \in T
  PROVE  SoundTask(p, DOMAIN st2, sy, cd, t) /\ InsideOf(Needed(p), t)
<1>1. SoundTask(p, DOMAIN st, sy, cd, t) /\ InsideOf(Needed(p), t)
  BY DEF SoundState
<1>2. IsBody(t) => t.of \in DOMAIN cd /\ cd[t.of] = cd[t.of]
  BY <1>1 DEF SoundTask
<1>3. t.do = "instance" => Function(t.name) \notin sy
  BY <1>1 DEF SoundTask
<1>4. t.do = "generate" => Function(t.name) \notin DOMAIN cd
  BY <1>1 DEF SoundTask
<1> QED
  BY <1>1, <1>2, <1>3, <1>4, TaskKept

\* A task about the same thing is apart from the same tasks.
LEMMA ApartSame ==
  ASSUME NEW p, NEW t, NEW t2, NEW u, Apart(p, t, u), t2.do = t.do,
         IsBody(t) => t2.of = t.of, t.do \in {"layout", "methods", "instance", "generate"} => t2.name = t.name
  PROVE  Apart(p, t2, u)
<1> QED
  BY InsideTask DEF Apart, IsBody

--------------------------------------------------------------------------------
(* Layout. *)

\* A state of a well written program that has been refused nothing.
Ready ==
  /\ source \in SourceForms /\ WellWritten(source) /\ refusals = {}
  /\ IState(source, structs, symbols, code, todo, cx)

\* The invariant in the next state.
StillReady == IState(source, structs', symbols', code', todo', cx')

\* The parts of the task that is next, under short names.
LEMMA ReadyHead ==
  ASSUME Ready, todo # << >>
  PROVE  \E t, r, d : t = Task /\ r = Later /\ HeadState(source, structs, symbols, code, t, r, cx, d)
<1>1. PICK d : HeadState(source, structs, symbols, code, Task, Later, cx, d)
  BY HeadFacts DEF Ready, Task, Later
<1> QED
  BY <1>1

\* What is known when a layout is on top.
LEMMA LayoutFacts ==
  ASSUME Ready, NEW t, NEW r, NEW d, HeadState(source, structs, symbols, code, t, r, cx, d), t.do = "layout"
  PROVE  /\ t = [do |-> "layout", name |-> t.name, at |-> t.at]
         /\ t.name \in DOMAIN structs /\ DeclaredStruct(source, t.name)
         /\ structs[t.name].fields = FieldsOf(source, t.name)
         /\ SoundStruct(source, structs, DOMAIN code, {t} \cup Tasks(r), t, t.name)
         /\ \E k \in Nat : k = Len(FieldsOf(source, t.name)) /\ DOMAIN FieldsOf(source, t.name) = 1 .. k /\ t.at \in 0 .. k + 1
         /\ FieldMeaning(source, t.name, cx.meaning)
         /\ ~IsBody(t) /\ ~IsUnsafe(source, t)
         /\ r # << >> => ~Exact(Head(r))
         /\ Alike(cx, d) /\ IsContext(cx) /\ cx.unsafe \in Nat
<1>1. t = [do |-> "layout", name |-> t.name, at |-> t.at] /\ t.name \in DOMAIN structs
      /\ t.at \in 0 .. Len(FieldsOf(source, t.name)) + 1
  BY DEF HeadState, SoundTask
<1>2. DeclaredStruct(source, t.name)
  BY <1>1, KnownDeclared DEF HeadState, Ready
<1>6. PICK k \in Nat : k = Len(FieldsOf(source, t.name)) /\ DOMAIN FieldsOf(source, t.name) = 1 .. k
  BY LenProperties, <1>2, FieldFacts DEF Ready
<1>7. ~IsBody(t) /\ ~IsUnsafe(source, t) /\ ~Saves(t)
  BY DEF IsBody, IsUnsafe, Saves
<1>8. Follows(source, t, cx, d) /\ Joined(t, r)
  BY DEF HeadState, TaskStep
<1> QED
  BY <1>1, <1>2, <1>7, <1>6, <1>8 DEF FieldMeaning, Follows, SoundStruct, HeadState, SoundState, Joined,
     Link

\* A layout that is done with.
LEMMA LayoutPopped ==
  ASSUME Ready, NEW t, NEW r, NEW d, HeadState(source, structs, symbols, code, t, r, cx, d), t.do = "layout",
         NEW st2, DOMAIN st2 = DOMAIN structs,
         \A n \in DOMAIN structs : n # t.name => st2[n] = structs[n],
         SoundStruct(source, st2, DOMAIN code, Tasks(r), Head(r), t.name)
  PROVE  IState(source, st2, symbols, code, r, cx)
<1> DEFINE T == {t} \cup Tasks(r)
<1>1. ~IsBody(t) /\ t.name \in DOMAIN structs /\ (r # << >> => ~Exact(Head(r)))
      /\ Alike(cx, d) /\ IsContext(cx) /\ cx.unsafe \in Nat
  BY LayoutFacts
<1>2. IsSeq(r) /\ AllApart(source, r) /\ Planned(source, r, d) /\ SoundState(source, structs, symbols, code, T, t)
  BY DEF HeadState, TaskStep
<1>4. PICK h : h = Head(r)
  OBVIOUS
<1>5. ASSUME NEW n \in DOMAIN st2 PROVE SoundStruct(source, st2, DOMAIN code, Tasks(r), h, n)
  <2>1. CASE n = t.name
    BY <1>4, <2>1
  <2>2. CASE n # t.name
    <3>2. st2[n] = structs[n] /\ T \subseteq Tasks(r) \cup {t}
      BY <2>2
    <3> HIDE DEF T
    <3> QED
      BY <2>2, <3>2, StructAway, <1>2 DEF SoundState
  <2> QED
    BY <2>1, <2>2
<1>6. \A u \in Tasks(r) : SoundTask(source, DOMAIN st2, symbols, code, u) /\ InsideOf(Needed(source), u)
  BY <1>2, TasksAway
<1>7. SoundState(source, st2, symbols, code, Tasks(r), h)
  <2>1. T \subseteq Tasks(r) \cup {t} /\ t.do # "generate"
    OBVIOUS
  <2> HIDE DEF T
  <2> QED
    BY <1>1, <1>2, <1>5, <1>6, <2>1, StateKept
<1> QED
  BY <1>2, <1>4, <1>7, StateOfRest, <1>1, PlanAlike

\* A struct whose layout goes on.
LEMMA EntryChanged ==
  ASSUME NEW e, NEW x, NEW f, NEW g, e = [layout |-> x, fields |-> f, bad |-> FALSE, destructor |-> g], NEW y
  PROVE  [e EXCEPT !.layout = y] = [layout |-> y, fields |-> f, bad |-> FALSE, destructor |-> g]
<1> DEFINE no == FALSE
<1>1. e = [layout |-> x, fields |-> f, bad |-> no, destructor |-> g]
  OBVIOUS
<1> HIDE DEF no
<1>2. [e EXCEPT !.layout = y] = [layout |-> y, fields |-> f, bad |-> no, destructor |-> g]
  BY ONLY <1>1
<1> QED
  BY <1>2 DEF no

\* A layout that is done or under way already.
LEMMA LayoutKnownKeeps ==
  ASSUME Ready, refusals' = {}, LayoutKnown
  PROVE  StillReady
<1>1. todo # << >> /\ Task.do = "layout" /\ Task.at = 0 /\ structs[Task.name].layout # "pending"
      /\ Recurs(Task.name) = {} /\ todo' = Later /\ UNCHANGED <<source, cx, structs, symbols, code>>
  BY DEF LayoutKnown, Doing, Refuse
<1>2. PICK t, r, d : t = Task /\ r = Later /\ HeadState(source, structs, symbols, code, t, r, cx, d)
  BY <1>1, ReadyHead
<1>5. SoundStruct(source, structs, DOMAIN code, Tasks(r), Head(r), t.name)
  <2>1. t.do = "layout" /\ ~IsMethods(t, t.name)
    BY <1>1, <1>2 DEF IsMethods
  <2>2. {t} \cup Tasks(r) \subseteq Tasks(r) \cup {t}
    OBVIOUS
  <2> QED
    BY <2>1, <2>2, StructKept, <1>1, <1>2, LayoutFacts DEF Recurs, Known, SoundStruct
<1> QED
  BY <1>1, <1>2, <1>5, LayoutPopped DEF StillReady

\* A layout whose fields are all checked.
LEMMA FinishLayoutKeeps ==
  ASSUME Ready, refusals' = {}, FinishLayout
  PROVE  StillReady
<1>1. todo # << >> /\ Task.do = "layout" /\ Task.at > Len(Fields) /\ todo' = Later
      /\ structs' = [structs EXCEPT ![Task.name].layout = IF structs[Task.name].bad THEN "invalid" ELSE "done"]
      /\ UNCHANGED <<source, cx, symbols, code>>
  BY DEF FinishLayout, Doing
<1>2. PICK t, r, d : t = Task /\ r = Later /\ HeadState(source, structs, symbols, code, t, r, cx, d)
  BY <1>1, ReadyHead
<1>3. PICK n : n = t.name
  OBVIOUS
<1>4. /\ t = [do |-> "layout", name |-> n, at |-> t.at] /\ n \in DOMAIN structs
      /\ structs[n].fields = FieldsOf(source, n)
      /\ SoundStruct(source, structs, DOMAIN code, {t} \cup Tasks(r), t, n)
      /\ \E k \in Nat : k = Len(FieldsOf(source, n)) /\ DOMAIN FieldsOf(source, n) = 1 .. k /\ t.at \in 0 .. k + 1
  BY <1>1, <1>2, <1>3, LayoutFacts
<1>5. PICK k \in Nat : k = Len(FieldsOf(source, n)) /\ DOMAIN FieldsOf(source, n) = 1 .. k /\ t.at \in 0 .. k + 1
  BY <1>4
<1>7. structs[n] = [layout |-> structs[n].layout, fields |-> FieldsOf(source, n), bad |-> FALSE,
                    destructor |-> structs[n].destructor]
  BY <1>4 DEF SoundStruct
<1>8. structs' = [structs EXCEPT ![n] = [structs[n] EXCEPT !.layout = "done"]]
  <2>1. ~structs[n].bad
    BY <1>7
  <2> QED
    BY <1>1, <1>2, <1>3, <2>1
<1>9. DOMAIN structs' = DOMAIN structs /\ \A m \in DOMAIN structs : m # n => structs'[m] = structs[m]
  BY <1>8
<1>10. structs'[n] = [layout |-> "done", fields |-> FieldsOf(source, n), bad |-> FALSE,
                      destructor |-> structs[n].destructor]
  <2>1. structs'[n] = [structs[n] EXCEPT !.layout = "done"]
    BY <1>4, <1>8
  <2> QED
    BY ONLY <1>7, <2>1, EntryChanged
<1>11. SoundStruct(source, structs', DOMAIN code, Tasks(r), Head(r), n)
  <2>4. \A i \in DOMAIN FieldsOf(source, n) : FieldMade(source, DOMAIN structs', n, i)
    <3>1. \A i \in DOMAIN FieldsOf(source, n) : i < t.at
      BY <1>5, <1>1, <1>2, <1>3, <1>4 DEF Fields
    <3> QED
      BY <1>9, <1>1, <1>2, <1>3, <3>1 DEF HeadState, SoundTask
  <2>5. HasRem(source, n) => IsMethods(Head(r), n) /\ Head(r).at = 1
    BY <1>1, <1>2, <1>3, Longer, LayoutFacts, TemplateFound DEF Link, IsMethods, HeadState, TaskStep,
       Joined, DeclaredStruct, HasRem
  <2> QED
    BY <2>4, <2>5, <1>4, <1>10, <1>1, <1>2 DEF SoundStruct, IsMethods
<1> QED
  BY <1>1, <1>2, <1>3, <1>9, <1>11, LayoutPopped DEF StillReady

\* A layout that goes on.
LEMMA LayoutAgain ==
  ASSUME Ready, NEW t, NEW r, NEW d, HeadState(source, structs, symbols, code, t, r, cx, d), t.do = "layout",
         NEW st2, DOMAIN st2 = DOMAIN structs, NEW t2, t2 = [do |-> "layout", name |-> t.name, at |-> t.at + 1],
         \A n \in DOMAIN structs : n # t.name => st2[n] = structs[n],
         SoundStruct(source, st2, DOMAIN code, {t2} \cup Tasks(r), t2, t.name),
         SoundTask(source, DOMAIN st2, symbols, code, t2)
  PROVE  IState(source, st2, symbols, code, <<t2>> \o r, cx)
<1> DEFINE T == {t} \cup Tasks(r)
           T2 == {t2} \cup Tasks(r)
<1>1. ~IsBody(t) /\ t.name \in DOMAIN structs /\ ~IsUnsafe(source, t)
  BY LayoutFacts
<1>2. /\ IsSeq(r) /\ AllApart(source, r) /\ SoundState(source, structs, symbols, code, T, t)
      /\ \A u \in Tasks(r) : Apart(source, t, u)
      /\ InsideOf(Needed(source), t) /\ TaskStep(source, t, r, cx, d)
  BY DEF HeadState
<1>3. t2.do = "layout" /\ t2.name = t.name /\ ~IsBody(t2)
  BY DEF IsBody
<1>7. ASSUME NEW n \in DOMAIN st2 PROVE SoundStruct(source, st2, DOMAIN code, T2, t2, n)
  <2>1. CASE n = t.name
    BY <2>1
  <2>2. CASE n # t.name
    <3>2. st2[n] = structs[n] /\ T \subseteq T2 \cup {t}
      BY <2>2
    <3> HIDE DEF T, T2
    <3> QED
      BY <2>2, <3>2, StructAway, <1>2 DEF SoundState
  <2> QED
    BY <2>1, <2>2
<1>8. \A u \in T2 : SoundTask(source, DOMAIN st2, symbols, code, u) /\ InsideOf(Needed(source), u)
  BY <1>2, TasksAway, <1>1, <1>3, InsideTask
<1>9. SoundState(source, st2, symbols, code, T2, t2)
  <2>1. T \subseteq T2 \cup {t} /\ t.do # "generate"
    OBVIOUS
  <2> HIDE DEF T, T2
  <2> QED
    BY <1>1, <1>2, <1>7, <1>8, <2>1, StateKept
<1> QED
  BY <1>2, <1>9, StateOfPushed, <1>1, <1>3, ApartSame DEF TaskStep, UnsafeTask, Follows, Joined, Link, Saves

\* A layout that starts.
LEMMA LayoutStructKeeps ==
  ASSUME Ready, refusals' = {}, LayoutStruct
  PROVE  StillReady
<1>1. todo # << >> /\ Task.do = "layout" /\ Task.at = 0 /\ todo' = <<Again>> \o Later
      /\ structs' = [structs EXCEPT ![Task.name].layout = "visiting"]
      /\ UNCHANGED <<source, cx, symbols, code>>
  BY DEF LayoutStruct, Doing
<1>2. PICK t, r, d : t = Task /\ r = Later /\ HeadState(source, structs, symbols, code, t, r, cx, d)
  BY <1>1, ReadyHead
<1>3. PICK n : n = t.name
  OBVIOUS
<1>4. /\ t = [do |-> "layout", name |-> n, at |-> t.at] /\ n \in DOMAIN structs
      /\ SoundStruct(source, structs, DOMAIN code, {t} \cup Tasks(r), t, n)
      /\ \E k \in Nat : k = Len(FieldsOf(source, n)) /\ DOMAIN FieldsOf(source, n) = 1 .. k
  BY <1>1, <1>2, <1>3, LayoutFacts
<1>5. PICK k \in Nat : k = Len(FieldsOf(source, n)) /\ DOMAIN FieldsOf(source, n) = 1 .. k
  BY <1>4
<1>6. PICK t2 : t2 = [do |-> "layout", name |-> n, at |-> t.at + 1]
  OBVIOUS
<1>7. Again = t2 /\ t2.at = 1 /\ t2.do = "layout" /\ t2.name = n
  BY <1>1, <1>2, <1>4, <1>6 DEF Again
<1>8. structs[n] = [layout |-> structs[n].layout, fields |-> FieldsOf(source, n), bad |-> FALSE,
                    destructor |-> structs[n].destructor]
  BY <1>4 DEF SoundStruct
<1>9. structs' = [structs EXCEPT ![n] = [structs[n] EXCEPT !.layout = "visiting"]]
  BY <1>1, <1>2, <1>3
<1>10. DOMAIN structs' = DOMAIN structs /\ \A m \in DOMAIN structs : m # n => structs'[m] = structs[m]
  BY <1>9
<1>11. structs'[n] = [layout |-> "visiting", fields |-> FieldsOf(source, n), bad |-> FALSE,
                      destructor |-> structs[n].destructor]
  <2>1. structs'[n] = [structs[n] EXCEPT !.layout = "visiting"]
    BY <1>4, <1>9
  <2> QED
    BY ONLY <1>8, <2>1, EntryChanged
<1>12. SoundStruct(source, structs', DOMAIN code, {t2} \cup Tasks(r), t2, n)
  BY <1>4, <1>11, <1>1, <1>2, <1>7 DEF SoundStruct, IsMethods, IsLayout
<1>13. SoundTask(source, DOMAIN structs', symbols, code, t2)
  BY <1>4, <1>7, <1>10, <1>5, <1>6 DEF SoundTask, IsBody
<1>14. IState(source, structs', symbols, code, <<t2>> \o r, cx)
  BY <1>1, <1>2, <1>3, <1>6, <1>10, <1>12, <1>13, LayoutAgain
<1> QED
  BY <1>1, <1>2, <1>7, <1>14 DEF StillReady

\* The field that is next, and its type.
LEMMA FieldTypeFacts ==
  ASSUME Ready, todo # << >>, NEW t, NEW r, NEW d, t = Task, r = Later,
         HeadState(source, structs, symbols, code, t, r, cx, d), t.do = "layout", t.at \in DOMAIN Fields
  PROVE  /\ t.at \in DOMAIN FieldsOf(source, t.name) /\ Field = FieldsOf(source, t.name)[t.at]
         /\ FieldType = Closed(MeaningOf(source, TypeNode(t.name)), Field.name)
         /\ FieldType \in Names /\ Field \in Types
<1>1. t.name \in DOMAIN structs /\ structs[t.name].fields = FieldsOf(source, t.name)
      /\ DeclaredStruct(source, t.name) /\ FieldMeaning(source, t.name, cx.meaning)
  BY LayoutFacts
<1> QED
  BY <1>1, FieldNames DEF FieldType, Field, Fields, Ready

\* The type of a field is needed when the struct is.
LEMMA FieldNode ==
  ASSUME NEW p, NEW n, StructNamed(p, n) # {} \/ Instantiable(p, "struct", n), NEW i \in DOMAIN FieldsOf(p, n),
         ~FieldsOf(p, n)[i].ptr, NEW m, m = Closed(MeaningOf(p, TypeNode(n)), FieldsOf(p, n)[i].name), m \notin BuiltIn
  PROVE  TypeNode(m) \in FieldNodes(p, n)
<1> QED
  BY DEF FieldNodes, TypeNodes, TypeNode, Symbol

\* A declared struct is named or instantiable.
LEMMA StructKnown ==
  ASSUME NEW p, NEW n, DeclaredStruct(p, n)
  PROVE  StructNamed(p, n) # {} \/ Instantiable(p, "struct", n)
  BY DEF DeclaredStruct

\* A field whose type is known.
LEMMA CheckFieldKeeps ==
  ASSUME Ready, refusals' = {}, CheckField
  PROVE  StillReady
<1> DEFINE value == HeldByValue(Field, FieldType)
<1>1. todo # << >> /\ Task.do = "layout" /\ Task.at \in DOMAIN Fields /\ todo' = <<Again>> \o Later
      /\ UNCHANGED <<source, cx, symbols, code>>
  BY DEF CheckField, Doing
<1>2. /\ value /\ Known(FieldType) => structs[FieldType].layout # "pending"
      /\ value => Known(FieldType)
      /\ value => Recurs(FieldType) = {}
      /\ structs' = IF value => Sized(FieldType) THEN structs
                    ELSE [structs EXCEPT ![Task.name].bad = TRUE]
  BY DEF CheckField, Refuse
<1> HIDE DEF value
<1>3. PICK t, r, d : t = Task /\ r = Later /\ HeadState(source, structs, symbols, code, t, r, cx, d)
  BY <1>1, ReadyHead
<1>4. PICK n : n = t.name
  OBVIOUS
<1>5. /\ t = [do |-> "layout", name |-> n, at |-> t.at] /\ n \in DOMAIN structs
      /\ SoundStruct(source, structs, DOMAIN code, {t} \cup Tasks(r), t, n)
      /\ \E k \in Nat : k = Len(FieldsOf(source, n)) /\ DOMAIN FieldsOf(source, n) = 1 .. k
  BY <1>1, <1>3, <1>4, LayoutFacts
<1>6. PICK k \in Nat : k = Len(FieldsOf(source, n)) /\ DOMAIN FieldsOf(source, n) = 1 .. k
  BY <1>5
<1>7. /\ t.at \in DOMAIN FieldsOf(source, n) /\ Field = FieldsOf(source, n)[t.at]
      /\ FieldType = Closed(MeaningOf(source, TypeNode(n)), Field.name)
  BY <1>1, <1>3, <1>4, FieldTypeFacts
<1>8. PICK i \in 1 .. k : i = t.at
  BY <1>6, <1>7
<1>9. value => Sized(FieldType)
  <2> SUFFICES ASSUME value PROVE Sized(FieldType)
    OBVIOUS
  <2> QED
    BY <1>3, <1>2 DEF SoundStruct, Sized, Known, HeadState, SoundState, Recurs
<1>11. PICK t2 : t2 = [do |-> "layout", name |-> n, at |-> t.at + 1]
  OBVIOUS
<1>12. Again = t2 /\ t2.at = i + 1 /\ t2.do = "layout" /\ t2.name = n
  BY <1>3, <1>5, <1>8, <1>11 DEF Again
<1>13. FieldMade(source, DOMAIN structs, n, i)
  BY <1>7, <1>8, <1>9 DEF FieldMade, Made, value, HeldByValue, Sized, Known
<1>14. SoundTask(source, DOMAIN structs, symbols, code, t2)
  <2>3. ASSUME NEW j \in DOMAIN FieldsOf(source, n), j < t2.at PROVE FieldMade(source, DOMAIN structs, n, j)
    <3>1. j = i \/ j < t.at
      BY <1>6, <1>8, <1>12, <2>3
    <3> QED
      BY <1>13, <3>1, <1>1, <1>3, <1>4 DEF HeadState, SoundTask
  <2> QED
    BY <1>5, <1>12, <2>3, <1>11, <1>6 DEF SoundTask, IsBody
<1>15. SoundStruct(source, structs, DOMAIN code, {t2} \cup Tasks(r), t2, n)
  BY <1>5, StructKept, <1>8, <1>12 DEF IsLayout, IsMethods, Layout
<1>16. IState(source, structs, symbols, code, <<t2>> \o r, cx)
  BY <1>1, <1>3, <1>4, <1>11, <1>14, <1>15, LayoutAgain
<1> QED
  BY <1>1, <1>3, <1>12, <1>16, <1>2, <1>9 DEF StillReady

\* A task goes before those that there are.
LEMMA ReadyPushed ==
  ASSUME Ready, todo # << >>, NEW t, NEW r, NEW d, t = Task, r = Later,
         HeadState(source, structs, symbols, code, t, r, cx, d)
  PROVE  /\ IsSeq(todo) /\ AllApart(source, todo) /\ Planned(source, todo, cx)
         /\ Tasks(todo) = {t} \cup Tasks(r) /\ Head(todo) = t
         /\ SoundState(source, structs, symbols, code, Tasks(todo), t)
         /\ cx.unsafe # 0 => UnsafeTask(source, Tasks(todo))
<1> QED
  BY Popped DEF Task, Later, Ready, IState, HeadState, TaskStep

\* A field held by value whose struct is not laid out yet.
LEMMA LayoutFieldKeeps ==
  ASSUME Ready, refusals' = {}, LayoutField
  PROVE  StillReady
<1>1. todo # << >> /\ Task.do = "layout" /\ Task.at \in DOMAIN Fields /\ todo' = <<Layout(FieldType)>> \o todo
      /\ HeldByValue(Field, FieldType) /\ Known(FieldType) /\ structs[FieldType].layout = "pending"
      /\ UNCHANGED <<source, cx, structs, symbols, code>>
  BY DEF LayoutField, Doing
<1>2. PICK t, r, d : t = Task /\ r = Later /\ HeadState(source, structs, symbols, code, t, r, cx, d)
  BY <1>1, ReadyHead
<1>3. PICK n, m : n = t.name /\ m = FieldType
  OBVIOUS
<1>4. PICK t2 : t2 = Layout(m)
  OBVIOUS
<1>5. t2 = [do |-> "layout", name |-> m, at |-> 0] /\ t2.do = "layout" /\ t2.name = m /\ t2.at = 0
  BY <1>4 DEF Layout
<1>6. /\ n \in DOMAIN structs /\ DeclaredStruct(source, n)
      /\ FieldMeaning(source, n, cx.meaning) /\ ~IsBody(t) /\ ~IsUnsafe(source, t)
      /\ IsContext(cx) /\ cx.unsafe \in Nat
      /\ \E k \in Nat : DOMAIN FieldsOf(source, n) = 1 .. k
  BY <1>1, <1>2, <1>3, LayoutFacts
<1>7. /\ t.at \in DOMAIN FieldsOf(source, n) /\ Field = FieldsOf(source, n)[t.at]
      /\ m = Closed(MeaningOf(source, TypeNode(n)), Field.name)
  BY <1>1, <1>2, <1>3, FieldTypeFacts
<1>8. t.at # 0
  BY <1>6, <1>7
<1>9. m \in DOMAIN structs /\ structs[m].layout = "pending" /\ ~Field.ptr /\ m \notin BuiltIn
  BY <1>1, <1>3 DEF Known, HeldByValue
<1>10. SoundState(source, structs, symbols, code, Tasks(todo), t)
       /\ Tasks(todo) = {t} \cup Tasks(r) /\ Head(todo) = t /\ IsSeq(todo) /\ AllApart(source, todo)
       /\ Planned(source, todo, cx) /\ (cx.unsafe # 0 => UnsafeTask(source, Tasks(todo)))
  BY <1>1, <1>2, ReadyPushed
<1>12. Len(m) = 1
  BY <1>9, <1>10, <1>4, <1>5, <1>8 DEF SoundStruct, SoundState
<1>14. ASSUME NEW N, ClosedUnder(source, N), InsideOf(N, t) PROVE InsideOf(N, t2)
  <2>3. TypeNode(m) \in Needs(source, TypeNode(n))
    BY <1>6, <1>7, <1>9, StructKnown, FieldNode DEF Needs, TypeNode, Symbol
  <2> QED
    BY <1>5, <1>14, <2>3, <1>1, <1>2, <1>3 DEF InsideOf, IsBody, ClosedUnder
<1>15. ASSUME NEW u \in Tasks(todo) PROVE Apart(source, t2, u)
  <2>2. ASSUME u.do = "instance"
        PROVE  InsideOf(Reached(source, SignatureNodes(source, Function(u.name))), t2)
    <3>3. Function(u.name) \in FunctionsOf(Needed(source))
      BY <2>2, <1>10 DEF InsideOf, FunctionsOf, TypesOf, Function, Symbol, SoundState
    <3> QED
      BY <1>14, <1>2, <2>2, ReachedFacts, <3>3, <1>1, <1>10 DEF HeadState, Apart, Ready, WellWritten,
         SignatureFirst
  <2> QED
    BY <2>2, <1>5 DEF Apart, IsBody
<1>16. TaskStep(source, t2, todo, cx, cx)
  <2>2. Joined(t2, todo)
    BY <1>5, <1>10, <1>12, <1>1, <1>2 DEF Joined, Link, Exact
  <2> QED
    BY <1>10, <2>2, <1>5, <1>6, <1>12 DEF TaskStep, UnsafeTask, Follows, IsBody, Alike, FieldMeaning
<1> DEFINE T2 == {t2} \cup Tasks(todo)
<1>17. ASSUME NEW x \in DOMAIN structs PROVE SoundStruct(source, structs, DOMAIN code, T2, t2, x)
  <2>3. t \in T2 /\ Tasks(todo) \subseteq T2 \cup {t}
    BY <1>10
  <2> HIDE DEF T2
  <2> QED
    BY <2>3, StructKept, <1>10, <1>1, <1>2, <1>8 DEF SoundState, IsMethods, Layout
<1>18. SoundTask(source, DOMAIN structs, symbols, code, t2)
  <2>4. PICK l \in Nat : l = Len(FieldsOf(source, m)) /\ DOMAIN FieldsOf(source, m) = 1 .. l
    BY LenProperties, FieldFacts, <1>9, <1>10, KnownDeclared DEF Ready
  <2> QED
    BY <1>5, <1>9, <2>4 DEF SoundTask, IsBody
<1>20. SoundState(source, structs, symbols, code, T2, t2)
  <2>1. \A u \in T2 : SoundTask(source, DOMAIN structs, symbols, code, u) /\ InsideOf(Needed(source), u)
    BY <1>10, <1>18, <1>2, <1>14, NeededFacts DEF SoundState, Ready, HeadState
  <2>2. Tasks(todo) \subseteq T2 \cup {t} /\ t \in T2
    BY <1>10
  <2> HIDE DEF T2
  <2> QED
    BY <1>10, <1>17, <2>1, <2>2, StateKept
<1> QED
  BY <1>1, <1>3, <1>4, <1>10, <1>15, <1>16, <1>20, StateOfPushed DEF StillReady

--------------------------------------------------------------------------------
(* Statements of a body. *)

\* What is known when a body is on top.
LEMMA BodyHead ==
  ASSUME Ready, NEW t, NEW r, NEW d, HeadState(source, structs, symbols, code, t, r, cx, d), IsBody(t)
  PROVE  /\ Declared(source, t.of) /\ t.of \in FunctionsOf(Needed(source)) /\ t.of \in DOMAIN code
         /\ \E k \in Nat : k = Len(BodyOf(source, t.of)) /\ DOMAIN BodyOf(source, t.of) = 1 .. k /\ t.at \in 1 .. k + 1
         /\ cx = FrameOf(source, t) /\ t.before.unsafe \in Nat
         /\ code[t.of] = CodeUpTo(source, t.of, t.at, t.before.unsafe)
         /\ DoneTo(source, DOMAIN structs, symbols, t.of, t.at)
         /\ Balanced(source, t.of)
<1>1. t.of \in DOMAIN code /\ t.at \in 1 .. Len(BodyOf(source, t.of)) + 1
      /\ code[t.of] = CodeUpTo(source, t.of, t.at, t.before.unsafe)
      /\ DoneTo(source, DOMAIN structs, symbols, t.of, t.at)
  BY DEF HeadState, SoundTask
<1>2. source \in SourceForms /\ WellWritten(source) /\ WellDeclared(source)
  BY DEF Ready, WellWritten
<1>3. Declared(source, t.of)
  BY <1>1, <1>2, KnownDeclared DEF HeadState
<1>6. PICK k \in Nat : k = Len(BodyOf(source, t.of)) /\ DOMAIN BodyOf(source, t.of) = 1 .. k
  BY <1>2, <1>3, BodyFacts
<1>8. Follows(source, t, cx, d)
  BY DEF HeadState, TaskStep
<1> QED
  BY <1>1, <1>3, <1>6, <1>8, <1>2 DEF Follows, IsBody, Outside, AtRest, WellWritten, HeadState, SoundState,
     SoundCode

\* The contexts of a body, with what is around it.
LEMMA FrameFacts ==
  ASSUME Ready, NEW f, Declared(source, f), Balanced(source, f), NEW i \in 0 .. Len(BodyOf(source, f)),
         NEW u \in Nat, NEW c, c = ContextOf(source, f, i)
  PROVE  /\ IsContext(c) /\ c.unsafe \in Nat /\ Kept(c, OwnContext(source, f))
         /\ IsContext(Around(c, f, u)) /\ Around(c, f, u).unsafe = c.unsafe + u
         /\ Around(c, f, u).unsafe \in Nat /\ Around(c, f, u).block = f
<1> QED
  BY AroundFacts, ContextsKeep DEF Ready, WellWritten, Balanced

\* The meaning and the struct in a body are those of its function.
LEMMA FrameMeaning ==
  ASSUME NEW p, NEW f, NEW c, IsContext(c), Kept(c, OwnContext(p, f)), NEW u
  PROVE  /\ Around(c, f, u).meaning = MeaningOf(p, f) /\ c.meaning = MeaningOf(p, f)
         /\ Around(c, f, u).struct = (IF f.method = "" THEN << >> ELSE f.of)
         /\ c.struct = (IF f.method = "" THEN << >> ELSE f.of)
<1>1. Around(c, f, u).meaning = c.meaning /\ Around(c, f, u).struct = c.struct
  BY AroundFacts
<1>2. c.meaning = OwnContext(p, f).meaning /\ c.struct = OwnContext(p, f).struct
  BY DEF Kept
<1>3. OwnContext(p, f).meaning = MeaningOf(p, f)
  BY DEF OwnContext, Resting
<1>4. OwnContext(p, f).struct = (IF f.method = "" THEN << >> ELSE f.of)
  BY DEF OwnContext, Resting
<1> QED
  BY ONLY <1>1, <1>2, <1>3, <1>4

\* The task of a body that goes on.
LEMMA BodyAgain ==
  ASSUME NEW p, NEW S, NEW sy, NEW cd, NEW t, SoundTask(p, S, sy, cd, t), IsBody(t),
         NEW t2, t2 = [t EXCEPT !.at = @ + 1]
  PROVE  /\ t2.do = t.do /\ t2.of = t.of /\ t2.at = t.at + 1 /\ t2.before = t.before
         /\ t.do = "function" => t2.saved = t.saved
         /\ t.do = "method" => t2 = [do |-> "method", of |-> t2.of, at |-> t2.at, before |-> t2.before]
         /\ t.do = "function" =>
              t2 = [do |-> "function", of |-> t2.of, at |-> t2.at, before |-> t2.before, saved |-> t2.saved]
         /\ t.do = "plain" => t2 = [do |-> "plain", of |-> t2.of, at |-> t2.at, before |-> t2.before]
<1>1. PICK o, a, b : o = t.of /\ a = t.at /\ b = t.before
  OBVIOUS
<1>2. CASE t.do = "method"
  BY <1>1, <1>2 DEF SoundTask
<1>3. CASE t.do = "function"
  <2>0. PICK e : e = t.saved
    OBVIOUS
  <2> QED
    BY <1>1, <1>3, <2>0 DEF SoundTask
<1>4. CASE t.do = "plain"
  BY <1>1, <1>4 DEF SoundTask
<1> QED
  BY <1>2, <1>3, <1>4 DEF IsBody

\* The code of a body with one more statement.
LEMMA CodeLonger ==
  ASSUME NEW p, NEW f, NEW n \in Nat \ {0}, NEW u, NEW cd, f \in DOMAIN cd, cd[f] = CodeUpTo(p, f, n, u),
         NEW cd2, DOMAIN cd2 = DOMAIN cd, \A g \in DOMAIN cd : g # f => cd2[g] = cd[g],
         cd2[f] = CodeUpTo(p, f, n + 1, u)
  PROVE  /\ \A g \in DOMAIN cd : cd2[g][1].checked <=> cd[g][1].checked
         /\ \A g \in DOMAIN cd : Unchecked(cd, g) => Unchecked(cd2, g)
         /\ ~ItemAlone(p, f, n + 1, u).checked => Unchecked(cd2, f)
<1>1. DOMAIN cd[f] = 1 .. n /\ \A i \in 1 .. n : cd[f][i] = ItemAlone(p, f, i, u)
  BY CodeLength
<1>2. DOMAIN cd2[f] = 1 .. n + 1 /\ \A i \in 1 .. n + 1 : cd2[f][i] = ItemAlone(p, f, i, u)
  BY CodeLength
<1>8. ASSUME NEW g \in DOMAIN cd
      PROVE  (cd2[g][1].checked <=> cd[g][1].checked) /\ (Unchecked(cd, g) => Unchecked(cd2, g))
  <2>1. CASE g = f
    BY <2>1, <1>1, <1>2 DEF Unchecked
  <2>2. CASE g # f
    BY <2>2 DEF Unchecked
  <2> QED
    BY <2>1, <2>2
<1> QED
  BY <1>8, <1>2 DEF Unchecked

\* A statement that is generated: what is done next, and after it.
LEMMA StatementKeeps ==
  ASSUME Ready, NEW t, NEW r, NEW d, HeadState(source, structs, symbols, code, t, r, cx, d), IsBody(t),
         t.at \in DOMAIN BodyOf(source, t.of),
         NEW s, s = BodyOf(source, t.of)[t.at], NEW c0, c0 = ContextOf(source, t.of, t.at - 1),
         StatementMade(source, DOMAIN structs, symbols, t.of, s),
         NEW cd2, cd2 = [code EXCEPT ![t.of] = Append(code[t.of], Item(s.s, Goal(s, c0), cx))],
         NEW c2, c2 = Around(Following(source, s, c0), t.of, t.before.unsafe),
         NEW t2, t2 = [t EXCEPT !.at = @ + 1]
  PROVE  IState(source, structs, symbols, cd2, <<t2>> \o r, c2)
<1> DEFINE T == {t} \cup Tasks(r)
           T2 == {t2} \cup Tasks(r)
<1>1. PICK f, n, u : f = t.of /\ n = t.at /\ u = t.before.unsafe
  OBVIOUS
<1>2. /\ Declared(source, f) /\ f \in FunctionsOf(Needed(source)) /\ f \in DOMAIN code /\ u \in Nat
      /\ cx = Around(ContextOf(source, f, n - 1), f, u) /\ code[f] = CodeUpTo(source, f, n, u)
      /\ DoneTo(source, DOMAIN structs, symbols, f, n) /\ Balanced(source, f)
      /\ \E k \in Nat : k = Len(BodyOf(source, f)) /\ DOMAIN BodyOf(source, f) = 1 .. k
  BY <1>1, BodyHead DEF FrameOf
<1>3. PICK k \in Nat : k = Len(BodyOf(source, f)) /\ DOMAIN BodyOf(source, f) = 1 .. k
  BY <1>2
<1>4. n \in 1 .. k /\ n \in Nat \ {0} /\ n - 1 \in 0 .. k /\ n \in 0 .. k /\ n + 1 \in 1 .. k + 1
  BY <1>1, <1>3
<1>5. /\ IsSeq(r) /\ AllApart(source, r) /\ SoundState(source, structs, symbols, code, T, t)
      /\ \A x \in Tasks(r) : Apart(source, t, x)
      /\ InsideOf(Needed(source), t) /\ TaskStep(source, t, r, cx, d)
      /\ SoundTask(source, DOMAIN structs, symbols, code, t)
  BY DEF HeadState
<1>6. IsContext(c0) /\ c0.unsafe \in Nat /\ cx.unsafe = c0.unsafe + u /\ IsContext(cx)
  <2>1. PICK i \in 0 .. Len(BodyOf(source, f)) : i = n - 1
    BY <1>3, <1>4
  <2> QED
    BY <1>1, <1>2, FrameFacts, <2>1
<1>8. IsContext(c2) /\ c2.unsafe \in Nat /\ c2.unsafe = ContextOf(source, f, n).unsafe + u
      /\ c2 = Around(ContextOf(source, f, n), f, u)
  <2>2. PICK c : c = ContextOf(source, f, n)
    OBVIOUS
  <2> QED
    BY <2>2, <1>2, FrameFacts, <1>1, <1>3, <1>4, ContextSteps
<1>9. /\ t2.do = t.do /\ t2.of = f /\ t2.at = n + 1 /\ t2.before = t.before /\ t2.before.unsafe = u
      /\ t.do = "function" => t2.saved = t.saved
      /\ t.do = "method" => t2 = [do |-> "method", of |-> t2.of, at |-> t2.at, before |-> t2.before]
      /\ t.do = "function" =>
           t2 = [do |-> "function", of |-> t2.of, at |-> t2.at, before |-> t2.before, saved |-> t2.saved]
      /\ t.do = "plain" => t2 = [do |-> "plain", of |-> t2.of, at |-> t2.at, before |-> t2.before]
  BY <1>1, <1>5, BodyAgain
<1>10. IsBody(t2) /\ t.do \in {"method", "function", "plain"}
  BY <1>9 DEF IsBody
<1>11. t2.at - 1 = n
  BY <1>4, <1>9
<1>15. Follows(source, t2, c2, d)
  BY <1>8, <1>1, <1>9, <1>10, <1>11, <1>5 DEF Follows, FrameOf, TaskStep
<1>16. TaskStep(source, t2, r, c2, d)
  BY <1>5, <1>15, <1>9, <1>10, <1>8, <1>11 DEF TaskStep, Joined, Link, Saves, UnsafeTask, IsUnsafe
<1>17. \A x \in Tasks(r) : Apart(source, t2, x)
  <2>2. t.do \in {"layout", "methods", "instance", "generate"} => t2.name = t.name
    BY <1>10
  <2>3. t2.do = t.do /\ t2.of = t.of
    BY <1>1, <1>9
  <2>4. ASSUME NEW x \in Tasks(r) PROVE Apart(source, t2, x)
    <3>1. Apart(source, t, x)
      BY <1>5
    <3> QED
      BY ONLY <2>2, <2>3, <3>1, ApartSame
  <2> QED
    BY <2>4
<1>18. /\ DOMAIN cd2 = DOMAIN code /\ \A g \in DOMAIN code : g # f => cd2[g] = code[g]
       /\ cd2[f] = CodeUpTo(source, f, n + 1, u)
  <2>1. cd2[f] = Append(CodeUpTo(source, f, n, u), Item(s.s, Goal(s, c0), Around(c0, f, u)))
    BY <1>1, <1>2
  <2>2. Append(CodeUpTo(source, f, n, u),
               Item(BodyOf(source, f)[n].s, Goal(BodyOf(source, f)[n], ContextOf(source, f, n - 1)),
                    Around(ContextOf(source, f, n - 1), f, u)))
          = CodeUpTo(source, f, n + 1, u)
    <3>1. IsContext(ContextOf(source, f, n - 1))
      BY <1>1, <1>6
    <3> QED
      BY ONLY <1>4, <3>1, NextItem
  <2>3. s = BodyOf(source, f)[n] /\ c0 = ContextOf(source, f, n - 1)
    BY <1>1
  <2>4. cd2[f] = CodeUpTo(source, f, n + 1, u)
    BY ONLY <2>1, <2>2, <2>3
  <2> QED
    BY <1>1, <2>4
<1>19. /\ \A g \in DOMAIN code : cd2[g][1].checked <=> code[g][1].checked
       /\ \A g \in DOMAIN code : Unchecked(code, g) => Unchecked(cd2, g)
       /\ ~ItemAlone(source, f, n + 1, u).checked => Unchecked(cd2, f)
  <2>1. f \in DOMAIN code /\ code[f] = CodeUpTo(source, f, n, u) /\ n \in Nat \ {0}
    BY <1>2, <1>4
  <2> QED
    BY ONLY <1>18, <2>1, CodeLonger
<1>20. IsUnsafe(source, t) => Unchecked(cd2, f)
  BY <1>6, <1>19, <1>1, CheckedAlone, <1>4 DEF IsUnsafe, StandsAt
<1>21. T \subseteq T2 \cup {t} /\ t2 \in T2 /\ t.do # "generate" /\ DOMAIN structs \subseteq DOMAIN structs
  BY <1>10
<1>22. ASSUME NEW m \in DOMAIN structs PROVE SoundStruct(source, structs, DOMAIN cd2, T2, t2, m)
  <2> HIDE DEF T, T2
  <2> QED
    BY <1>18, <1>21, StructAway, <1>5, <1>10 DEF SoundState
<1>23. ASSUME NEW g \in DOMAIN cd2 PROVE SoundCode(source, DOMAIN structs, symbols, cd2, T2, g)
  <2>1. g \in DOMAIN code
    BY <1>18
  <2>2. CodeOrigin(source, DOMAIN structs, code, T, g) /\ CodeDone(source, DOMAIN structs, symbols, code, T, g)
    BY <1>5, <2>1, CodeParts DEF SoundState
  <2>3. IsUnsafe(source, t) => t \in T2 \/ (t.of \in DOMAIN cd2 /\ Unchecked(cd2, t.of))
    BY <1>1, <1>2, <1>18, <1>20
  <2>4. CodeOrigin(source, DOMAIN structs, cd2, T2, g)
    <3>1. cd2[g][1].checked <=> code[g][1].checked
      BY <1>19, <2>1
    <3>2. DOMAIN code \subseteq DOMAIN cd2
      BY <1>18
    <3> HIDE DEF T, T2
    <3> QED
      BY ONLY <1>19, <1>21, <2>2, <2>3, <3>1, <3>2, OriginKept
  <2>5. CodeDone(source, DOMAIN structs, symbols, cd2, T2, g)
    <3>1. CASE g = f
      BY <1>9, <1>10, <3>1 DEF CodeDone
    <3>2. CASE g # f
      <4>1. cd2[g] = code[g] /\ t.of # g
        BY <1>1, <1>18, <2>1, <3>2
      <4>2. symbols \subseteq symbols
        OBVIOUS
      <4> HIDE DEF T, T2
      <4> QED
        BY ONLY <1>21, <2>2, <4>1, <4>2, CodeDoneKept
    <3> QED
      BY <3>1, <3>2
  <2> QED
    BY <2>4, <2>5, CodeParts
<1>24. SoundSymbols(source, symbols, DOMAIN cd2, T2)
  <2>2. ASSUME NEW g, Awaited(T, g) PROVE Awaited(T2, g)
    <3>1. PICK x \in T : x.do = "generate" /\ g = Function(x.name)
      BY <2>2 DEF Awaited
    <3> QED
      BY <3>1, <1>21 DEF Awaited
  <2> HIDE DEF T, T2
  <2> QED
    BY <1>18, <2>2, <1>5 DEF SoundSymbols, SoundState
<1>25. ASSUME NEW x \in Tasks(r)
       PROVE  SoundTask(source, DOMAIN structs, symbols, cd2, x) /\ InsideOf(Needed(source), x)
  <2>1. SoundTask(source, DOMAIN structs, symbols, code, x) /\ InsideOf(Needed(source), x)
    BY <1>5 DEF SoundState
  <2>2. IsBody(x) => x.of \in DOMAIN cd2 /\ cd2[x.of] = code[x.of]
    BY <1>18, <1>1, <1>5, <2>1 DEF Apart, SoundTask
  <2>3. x.do = "instance" => Function(x.name) \notin symbols
    BY <2>1 DEF SoundTask
  <2>4. x.do = "generate" => Function(x.name) \notin DOMAIN cd2
    BY <1>18, <2>1 DEF SoundTask
  <2>5. symbols \subseteq symbols
    OBVIOUS
  <2> QED
    BY ONLY <1>21, <2>1, <2>2, <2>3, <2>4, <2>5, TaskKept
<1>26. SoundTask(source, DOMAIN structs, symbols, cd2, t2)
  <2>2. t2.at \in 1 .. Len(BodyOf(source, t2.of)) + 1
    BY <1>3, <1>4, <1>9
  <2>3. DoneTo(source, DOMAIN structs, symbols, f, n + 1)
    <3>1. ASSUME NEW i \in DOMAIN BodyOf(source, f), i < n + 1
          PROVE  StatementMade(source, DOMAIN structs, symbols, f, BodyOf(source, f)[i])
      <4>1. CASE i < n
        BY <1>2, <4>1 DEF DoneTo
      <4>2. CASE i = n
        BY <1>1, <4>2
      <4> QED
        BY <4>1, <4>2, <1>3, <1>4, <3>1
    <3> QED
      BY <3>1 DEF DoneTo
  <2> QED
    BY <1>9, <2>2, <1>1, <1>5, <1>10, <1>2, <1>18, <2>3 DEF SoundTask
<1>27. InsideOf(Needed(source), t2)
  BY <1>1, <1>5, <1>9, InsideTask, <1>10
<1>28. SoundState(source, structs, symbols, cd2, T2, t2)
  <2>1. \A x \in T2 : SoundTask(source, DOMAIN structs, symbols, cd2, x) /\ InsideOf(Needed(source), x)
    BY <1>25, <1>26, <1>27
  <2> HIDE DEF T, T2
  <2> QED
    BY <1>22, <1>23, <1>24, <2>1, <1>5 DEF SoundState
<1> QED
  BY <1>5, <1>16, <1>17, <1>28, StateOfPushed

\* A statement that generates its item keeps the invariant.
LEMMA GenerateKeeps ==
  ASSUME Ready, todo # << >>, IsBody(Task), Task.at \in DOMAIN BodyOf(source, Task.of),
         NEW s, s = BodyOf(source, Task.of)[Task.at], NEW c0, c0 = ContextOf(source, Task.of, Task.at - 1),
         StatementMade(source, DOMAIN structs, symbols, Task.of, s), Generate(s.s, Goal(s, c0)),
         cx' = Around(Following(source, s, c0), Task.of, Task.before.unsafe), UNCHANGED <<source, structs, symbols>>
  PROVE  StillReady
<1>1. PICK t, r, d : t = Task /\ r = Later /\ HeadState(source, structs, symbols, code, t, r, cx, d)
  BY ReadyHead
<1>2. PICK f, u : f = t.of /\ u = t.before.unsafe
  OBVIOUS
<1>3. cx.block = f
  <2>1. /\ Declared(source, f) /\ Balanced(source, f) /\ cx = FrameOf(source, t) /\ u \in Nat
        /\ \E k \in Nat : k = Len(BodyOf(source, f)) /\ DOMAIN BodyOf(source, f) = 1 .. k /\ t.at \in 1 .. k + 1
    BY <1>1, <1>2, BodyHead
  <2>2. PICK i \in 0 .. Len(BodyOf(source, f)) : i = t.at - 1
    BY <1>1, <1>2, <2>1
  <2>3. PICK c : c = ContextOf(source, f, i)
    OBVIOUS
  <2> QED
    BY <1>2, <2>1, <2>2, <2>3, FrameFacts DEF FrameOf
<1>4. PICK t2 : t2 = [t EXCEPT !.at = @ + 1]
  OBVIOUS
<1>5. PICK cd2 : cd2 = [code EXCEPT ![t.of] = Append(code[t.of], Item(s.s, Goal(s, c0), cx))]
  OBVIOUS
<1>7. PICK c2 : c2 = Around(Following(source, s, c0), t.of, t.before.unsafe)
  OBVIOUS
<1> QED
  BY <1>1, <1>4, <1>5, <1>7, StatementKeeps, <1>2, <1>3 DEF StillReady, Generate, Again

\* The statement that is next, and the context it stands in.
LEMMA StandingFacts ==
  ASSUME Ready, NEW kinds, Standing(kinds)
  PROVE  /\ todo # << >> /\ IsBody(Task) /\ Task.at \in DOMAIN BodyOf(source, Task.of)
         /\ Stmt = BodyOf(source, Task.of)[Task.at] /\ Stmt.s \in kinds /\ Stmt \in Statements
         /\ Declared(source, Task.of)
         /\ \E c0, u : /\ c0 = ContextOf(source, Task.of, Task.at - 1) /\ u = Task.before.unsafe
                       /\ IsContext(c0) /\ c0.unsafe \in Nat /\ u \in Nat /\ cx = Around(c0, Task.of, u)
                       /\ c0.meaning = MeaningOf(source, Task.of) /\ cx.meaning = MeaningOf(source, Task.of)
                       /\ c0.struct = cx.struct
<1>1. todo # << >> /\ IsBody(Task) /\ Task.at \in DOMAIN BodyOf(source, Task.of) /\ Stmt.s \in kinds
  BY DEF Standing, InBody, IsBody
<1>2. PICK t, r, d : t = Task /\ r = Later /\ HeadState(source, structs, symbols, code, t, r, cx, d)
  BY <1>1, ReadyHead
<1>3. PICK f, u : f = t.of /\ u = t.before.unsafe
  OBVIOUS
<1>4. /\ Declared(source, f) /\ Balanced(source, f) /\ cx = FrameOf(source, t) /\ u \in Nat
      /\ \E k \in Nat : k = Len(BodyOf(source, f)) /\ DOMAIN BodyOf(source, f) = 1 .. k /\ t.at \in 1 .. k + 1
  BY <1>1, <1>2, <1>3, BodyHead
<1>5. PICK i \in 0 .. Len(BodyOf(source, f)) : i = t.at - 1
  BY <1>4
<1>6. PICK c : c = ContextOf(source, f, i)
  OBVIOUS
<1>7. IsContext(c) /\ c.unsafe \in Nat /\ Kept(c, OwnContext(source, f))
  BY <1>3, <1>4, <1>6, FrameFacts
<1>8. cx = Around(c, f, u)
  BY <1>3, <1>4, <1>5, <1>6 DEF FrameOf
<1>9. Around(c, f, u).meaning = MeaningOf(source, f) /\ c.meaning = MeaningOf(source, f)
  BY ONLY <1>7, FrameMeaning
<1>10. Around(c, f, u).struct = c.struct
  BY <1>7, AroundFacts
<1>12. c = ContextOf(source, Task.of, Task.at - 1) /\ u = Task.before.unsafe /\ f = Task.of
  BY <1>2, <1>3, <1>5, <1>6
<1>13. \E c0, v : /\ c0 = ContextOf(source, Task.of, Task.at - 1) /\ v = Task.before.unsafe
                  /\ IsContext(c0) /\ c0.unsafe \in Nat /\ v \in Nat /\ cx = Around(c0, Task.of, v)
                  /\ c0.meaning = MeaningOf(source, Task.of) /\ cx.meaning = MeaningOf(source, Task.of)
                  /\ c0.struct = cx.struct
  BY ONLY <1>4, <1>7, <1>8, <1>9, <1>10, <1>12
<1> QED
  BY <1>1, <1>4, <1>12, <1>13, <1>2, <1>3, BodyFacts DEF Stmt, Ready, WellWritten

\* A statement that names nothing.
LEMMA SimpleKeeps ==
  ASSUME Ready, refusals' = {}, Simple
  PROVE  StillReady
<1>1. Standing(Blocks \cup {"end", "break", "yield", "ret"}) /\ Generate(Stmt.s, NoSymbol)
      /\ cx' = After(Stmt, cx) /\ UNCHANGED <<source, structs, symbols>>
  BY DEF Simple
<1>2. /\ todo # << >> /\ IsBody(Task) /\ Task.at \in DOMAIN BodyOf(source, Task.of)
      /\ Stmt = BodyOf(source, Task.of)[Task.at] /\ Stmt \in Statements
      /\ Stmt.s \in {"loop", "unsafe", "defer", "init", "end", "break", "yield", "ret"}
  BY <1>1, StandingFacts DEF Blocks
<1>3. PICK c0, u : /\ c0 = ContextOf(source, Task.of, Task.at - 1) /\ u = Task.before.unsafe
                   /\ IsContext(c0) /\ c0.unsafe \in Nat /\ u \in Nat /\ cx = Around(c0, Task.of, u)
  BY <1>1, StandingFacts
<1>4. PICK s : s = Stmt
  OBVIOUS
<1> QED
  BY <1>1, <1>2, <1>3, <1>4, GenerateKeeps, AfterAround DEF StatementMade, Following, Goal

\* A call of a method of the same struct.
LEMMA OwnMethodKeeps ==
  ASSUME Ready, refusals' = {}, OwnMethod
  PROVE  StillReady
<1>1. Standing({"own"}) /\ Generate("own", Symbol(cx.struct, Stmt.method))
      /\ UNCHANGED <<source, cx, structs, symbols>>
  BY DEF OwnMethod
<1>2. /\ todo # << >> /\ IsBody(Task) /\ Task.at \in DOMAIN BodyOf(source, Task.of)
      /\ Stmt = BodyOf(source, Task.of)[Task.at] /\ Stmt.s \in {"own"}
  BY <1>1, StandingFacts
<1>3. PICK c0, u : /\ c0 = ContextOf(source, Task.of, Task.at - 1) /\ u = Task.before.unsafe
                   /\ cx = Around(c0, Task.of, u) /\ c0.struct = cx.struct
  BY <1>1, StandingFacts
<1>4. PICK s : s = Stmt
  OBVIOUS
<1> QED
  BY <1>1, <1>2, <1>3, <1>4, GenerateKeeps DEF StatementMade, Following, After, Goal

\* A call of a function that has been declared.
LEMMA CallFunctionKeeps ==
  ASSUME Ready, refusals' = {}, CallFunction
  PROVE  StillReady
<1>1. Standing({"call"}) /\ Generate("call", Function(Stmt.name)) /\ Function(Stmt.name) \in symbols
      /\ UNCHANGED <<source, cx, structs, symbols>>
  BY DEF CallFunction, Callee, Refuse
<1>2. /\ todo # << >> /\ IsBody(Task) /\ Task.at \in DOMAIN BodyOf(source, Task.of)
      /\ Stmt = BodyOf(source, Task.of)[Task.at] /\ Stmt.s \in {"call"} /\ Declared(source, Task.of)
  BY <1>1, StandingFacts
<1>3. PICK c0, u : /\ c0 = ContextOf(source, Task.of, Task.at - 1) /\ u = Task.before.unsafe
                   /\ cx = Around(c0, Task.of, u) /\ c0.meaning = MeaningOf(source, Task.of)
  BY <1>1, StandingFacts
<1>4. PICK s : s = Stmt
  OBVIOUS
<1>5. s.s = "call"
  BY <1>2, <1>4
<1>6. Following(source, s, c0) = c0 /\ Goal(s, c0) = Function(Closed(c0.meaning, s.name))
  BY <1>5 DEF Following, After, Goal
<1>10. Generate(s.s, Goal(s, c0))
  BY <1>1, <1>4, <1>5, <1>6, <1>2, <1>3, WrittenCallNames, LocalTypes DEF Ready, WellWritten
<1> QED
  BY <1>1, <1>2, <1>3, <1>4, <1>10, GenerateKeeps, <1>5, <1>6 DEF StatementMade

\* Equivalent flags declare the same local.
LEMMA SameLocal ==
  ASSUME NEW c, NEW l, NEW a, NEW b, a <=> b
  PROVE  WithLocal(c, l, a) = WithLocal(c, l, b)
<1>1. CASE a
  BY <1>1 DEF WithLocal
<1>2. CASE ~a
  BY <1>2 DEF WithLocal
<1> QED
  BY <1>1, <1>2

\* A local whose type is known.
LEMMA LocalKeeps ==
  ASSUME Ready, refusals' = {}, Local
  PROVE  StillReady
<1> DEFINE n == Resolved(cx.meaning, Stmt.type.name)
           value == HeldByValue(Stmt.type, n)
           destroyed == value /\ Known(n) /\ structs[n].destructor
<1>1. /\ Standing({"local"}) /\ Generate("local", Function(n)) /\ cx' = WithLocal(cx, Stmt.local, destroyed)
      /\ value => Known(n) /\ ~Open(n)
      /\ UNCHANGED <<source, structs, symbols>>
  BY DEF Local, Refuse
<1> HIDE DEF destroyed, value, n
<1>2. /\ todo # << >> /\ IsBody(Task) /\ Task.at \in DOMAIN BodyOf(source, Task.of)
      /\ Stmt = BodyOf(source, Task.of)[Task.at] /\ Stmt.s \in {"local"} /\ Declared(source, Task.of)
  BY <1>1, StandingFacts
<1>3. PICK c0, u : /\ c0 = ContextOf(source, Task.of, Task.at - 1) /\ u = Task.before.unsafe
                   /\ IsContext(c0) /\ c0.unsafe \in Nat /\ u \in Nat
                   /\ cx = Around(c0, Task.of, u) /\ c0.meaning = MeaningOf(source, Task.of)
                   /\ cx.meaning = MeaningOf(source, Task.of)
  BY <1>1, StandingFacts
<1>4. PICK s, m : s = Stmt /\ m = n
  OBVIOUS
<1>5. s.s = "local"
  BY <1>2, <1>4
<1>6. m = Closed(MeaningOf(source, Task.of), s.type.name)
  BY <1>3, <1>4, <1>2, WrittenNames, <1>5, LocalTypes DEF n, Ready, WellWritten
<1>7. /\ Following(source, s, c0) = WithLocal(c0, s.local, Destroyed(source, s.type, m))
      /\ Goal(s, c0) = Function(m)
  BY <1>3, <1>5, <1>6 DEF Following, Goal
<1>8. value => m \in DOMAIN structs /\ structs[m].layout = "done" /\ (structs[m].destructor <=> HasRem(source, m))
  <2> SUFFICES ASSUME value PROVE m \in DOMAIN structs /\ structs[m].layout = "done" /\ (structs[m].destructor <=> HasRem(source, m))
    OBVIOUS
  <2> QED
    BY <1>1, <1>4, <1>2 DEF SoundStruct, Ready, IState, SoundState, Task, Known, Open, IsBody, IsMethods
<1>9. destroyed <=> Destroyed(source, s.type, m)
  <2>1. Destroyed(source, s.type, m) <=> HeldByValue(s.type, m) /\ HasRem(source, m)
    BY DEF Destroyed, HasRem
  <2>2. value <=> HeldByValue(s.type, m)
    BY <1>4 DEF value
  <2>3. destroyed <=> value /\ m \in DOMAIN structs /\ structs[m].destructor
    BY <1>4 DEF destroyed, Known
  <2> QED
    BY ONLY <1>8, <2>1, <2>2, <2>3
<1>10. StatementMade(source, DOMAIN structs, symbols, Task.of, s)
  BY <1>5, <1>6, <1>4, <1>8 DEF StatementMade, Made, value, HeldByValue
<1>11. cx' = Around(Following(source, s, c0), Task.of, Task.before.unsafe)
  <2>1. WithLocal(cx, s.local, destroyed) = WithLocal(cx, s.local, Destroyed(source, s.type, m))
    BY ONLY <1>9, SameLocal
  <2> QED
    BY <1>1, <1>3, <1>4, <1>7, <2>1, WithLocalAround
<1>12. Generate(s.s, Goal(s, c0))
  BY <1>1, <1>4, <1>5, <1>7
<1> QED
  BY <1>1, <1>2, <1>3, <1>4, <1>10, <1>11, <1>12, GenerateKeeps

--------------------------------------------------------------------------------
(* The end of a body. *)

\* The context of a body that has come to its end.
LEMMA EndContext ==
  ASSUME Ready, NEW t, NEW r, NEW d, HeadState(source, structs, symbols, code, t, r, cx, d), IsBody(t),
         t.at > Len(BodyOf(source, t.of))
  PROVE  /\ IsContext(cx) /\ cx.unsafe = t.before.unsafe /\ cx.unsafe \in Nat
         /\ cx.meaning = MeaningOf(source, t.of) /\ cx.loop = 0 /\ ~cx.deferring
         /\ cx.coro = OwnContext(source, t.of).coro /\ cx.main = OwnContext(source, t.of).main
         /\ t.at = Len(BodyOf(source, t.of)) + 1 /\ Len(BodyOf(source, t.of)) \in Nat
         /\ ContextOf(source, t.of, t.at - 1).unsafe = 0
<1>1. PICK f, u : f = t.of /\ u = t.before.unsafe
  OBVIOUS
<1>2. /\ Declared(source, f) /\ Balanced(source, f) /\ cx = FrameOf(source, t) /\ u \in Nat
      /\ \E k \in Nat : k = Len(BodyOf(source, f)) /\ DOMAIN BodyOf(source, f) = 1 .. k /\ t.at \in 1 .. k + 1
  BY <1>1, BodyHead
<1>3. PICK k \in Nat : k = Len(BodyOf(source, f)) /\ t.at \in 1 .. k + 1
  BY <1>2
<1>4. t.at = k + 1 /\ t.at - 1 = k
  BY <1>1, <1>3
<1>5. PICK c : c = ContextOf(source, f, k)
  OBVIOUS
<1>6. cx = Around(c, f, u)
  BY <1>1, <1>2, <1>4, <1>5 DEF FrameOf
<1>7. IsContext(c) /\ Kept(c, OwnContext(source, f)) /\ IsContext(Around(c, f, u))
  <2>1. k \in 0 .. Len(BodyOf(source, f))
    BY <1>3
  <2> QED
    BY <1>2, <1>5, <2>1, FrameFacts
<1>8. c.loop = 0 /\ c.unsafe = 0 /\ ~c.deferring
  BY <1>2, <1>3, <1>5 DEF Balanced
<1>9. /\ Around(c, f, u).unsafe = c.unsafe + u /\ Around(c, f, u).loop = c.loop
      /\ (Around(c, f, u).deferring <=> c.deferring)
      /\ Around(c, f, u).coro = c.coro /\ Around(c, f, u).main = c.main
  BY <1>7, AroundFacts
<1>10. Around(c, f, u).meaning = MeaningOf(source, f)
  BY <1>7, FrameMeaning
<1>11. c.coro = OwnContext(source, f).coro /\ c.main = OwnContext(source, f).main
  BY <1>7 DEF Kept
<1>12. cx.unsafe = u
  BY <1>2, <1>6, <1>8, <1>9
<1> QED
  BY <1>1, <1>2, <1>3, <1>4, <1>5, <1>6, <1>7, <1>8, <1>9, <1>10, <1>11, <1>12

\* What a body leaves in the symbols and the code.
LEMMA BodyEnds ==
  ASSUME Ready, NEW t, NEW r, NEW d, HeadState(source, structs, symbols, code, t, r, cx, d), IsBody(t),
         t.at > Len(BodyOf(source, t.of)), NEW h, h = Head(r)
  PROVE  SoundState(source, structs, symbols, code, Tasks(r), h)
<1> DEFINE T == {t} \cup Tasks(r)
           T2 == Tasks(r)
<1>1. PICK f, u : f = t.of /\ u = t.before.unsafe
  OBVIOUS
<1>2. /\ Declared(source, f) /\ Balanced(source, f) /\ u \in Nat /\ f \in DOMAIN code
      /\ code[f] = CodeUpTo(source, f, t.at, u) /\ DoneTo(source, DOMAIN structs, symbols, f, t.at)
  BY <1>1, BodyHead
<1>3. PICK k \in Nat : k = Len(BodyOf(source, f)) /\ t.at = k + 1 /\ ContextOf(source, f, t.at - 1).unsafe = 0
  BY <1>1, EndContext
<1>4. SoundState(source, structs, symbols, code, T, t)
  BY DEF HeadState
<1>6. IsUnsafe(source, t) => Unchecked(code, f)
  <2>1. SUFFICES ASSUME IsUnsafe(source, t) PROVE Unchecked(code, f)
    OBVIOUS
  <2>3. PICK c : c = ContextOf(source, f, 0)
    OBVIOUS
  <2>4. IsContext(c) /\ c.unsafe \in Nat
    BY <1>2, <2>3, FrameFacts, <1>3
  <2>5. u # 0
    BY <1>1, <1>3, <2>1 DEF IsUnsafe
  <2>6. ~ItemAlone(source, f, 1, u).checked
    <3>1. StandsAt(1) = 0
      BY DEF StandsAt
    <3>2. ItemAlone(source, f, 1, u).checked <=> c.unsafe + u = 0
      BY <2>3, <2>4, <3>1, CheckedAlone
    <3> QED
      BY <1>2, <2>4, <2>5, <3>2
  <2>7. 1 \in DOMAIN code[f] /\ code[f][1] = ItemAlone(source, f, 1, u)
    BY <1>2, <1>3, CodeLength
  <2> QED
    BY <2>6, <2>7 DEF Unchecked
<1>7. t.do \in {"method", "function", "plain"} /\ T \subseteq T2 \cup {t} /\ DOMAIN structs \subseteq DOMAIN structs
      /\ DOMAIN code \subseteq DOMAIN code /\ symbols \subseteq symbols
  BY DEF IsBody
<1>8. ASSUME NEW m \in DOMAIN structs PROVE SoundStruct(source, structs, DOMAIN code, T2, h, m)
  <2> HIDE DEF T, T2
  <2> QED
    BY <1>7, StructAway, <1>4 DEF SoundState
<1>9. ASSUME NEW g \in DOMAIN code PROVE SoundCode(source, DOMAIN structs, symbols, code, T2, g)
  <2>1. CodeOrigin(source, DOMAIN structs, code, T, g) /\ CodeDone(source, DOMAIN structs, symbols, code, T, g)
    BY <1>4, CodeParts DEF SoundState
  <2>2. IsUnsafe(source, t) => t \in T2 \/ (t.of \in DOMAIN code /\ Unchecked(code, t.of))
    BY <1>1, <1>2, <1>6
  <2>3. CodeOrigin(source, DOMAIN structs, code, T2, g)
    <3>1. (code[g][1].checked <=> code[g][1].checked) /\ \A x \in DOMAIN code : Unchecked(code, x) => Unchecked(code, x)
      OBVIOUS
    <3> HIDE DEF T, T2
    <3> QED
      BY ONLY <1>7, <2>1, <2>2, <3>1, OriginKept
  <2>4. CodeDone(source, DOMAIN structs, symbols, code, T2, g)
    <3>1. CASE g = f
      BY <3>1, <1>2, <1>3 DEF CodeDone, Complete
    <3>2. CASE g # f
      <4>1. code[g] = code[g] /\ t.of # g
        BY <1>1, <3>2
      <4> HIDE DEF T, T2
      <4> QED
        BY ONLY <1>7, <2>1, <4>1, CodeDoneKept
    <3> QED
      BY <3>1, <3>2
  <2> QED
    BY <2>3, <2>4, CodeParts
<1>10. SoundSymbols(source, symbols, DOMAIN code, T2)
  <2>2. ASSUME NEW g, Awaited(T, g) PROVE Awaited(T2, g)
    <3>1. PICK x \in T : x.do = "generate" /\ g = Function(x.name)
      BY <2>2 DEF Awaited
    <3> QED
      BY <3>1, <1>7 DEF Awaited
  <2> HIDE DEF T, T2
  <2> QED
    BY <2>2, <1>4 DEF SoundSymbols, SoundState
<1>11. \A x \in T2 : SoundTask(source, DOMAIN structs, symbols, code, x) /\ InsideOf(Needed(source), x)
  BY <1>4 DEF SoundState
<1> HIDE DEF T, T2
<1> QED
  BY <1>8, <1>9, <1>10, <1>11, <1>4 DEF T2, SoundState

\* A record that is given its own fields again.
LEMMA Restores ==
  ASSUME NEW c, IsContext(c), NEW e, NEW m, NEW u, c.module = m, c.unsafe = u, e.module = m, e.unsafe = u
  PROVE  Restored(c, e) = c
  BY DEF Restored, IsContext

\* The end of an instance of a function, which restores the asker.
LEMMA EndFunctionKeeps ==
  ASSUME Ready, refusals' = {}, EndFunction
  PROVE  StillReady
<1>1. todo # << >> /\ Task.do = "function" /\ Task.at > Len(BodyOf(source, Task.of)) /\ todo' = Later
      /\ cx' = Restored(Task.saved, [cx EXCEPT !.module = Task.before.module, !.coro = Task.before.coro])
      /\ UNCHANGED <<source, structs, symbols, code>>
  BY DEF EndFunction, AtEnd, Doing
<1>2. PICK t, r, d : t = Task /\ r = Later /\ HeadState(source, structs, symbols, code, t, r, cx, d)
  BY <1>1, ReadyHead
<1>3. IsBody(t)
  BY <1>1, <1>2 DEF IsBody
<1>4. IsContext(cx) /\ cx.unsafe = t.before.unsafe
  BY <1>1, <1>2, <1>3, EndContext
<1>5. PICK h : h = Head(r)
  OBVIOUS
<1>7. Follows(source, t, cx, d) /\ Planned(source, r, d) /\ IsSeq(r) /\ AllApart(source, r)
  BY <1>2 DEF HeadState, TaskStep
<1>8. IsContext(d) /\ Returns(t.before, t.saved, d)
  BY <1>1, <1>2, <1>7 DEF Follows
<1>9. PICK m, o : m = t.before.module /\ o = t.before.coro
  OBVIOUS
<1>10. PICK e : e = [cx EXCEPT !.module = m, !.coro = o]
  OBVIOUS
<1>11. e.module = m /\ e.unsafe = cx.unsafe
  BY <1>4, <1>10 DEF IsContext
<1>12. Restored(d, e) = d
  BY <1>4, <1>8, <1>9, <1>11, Restores DEF Returns
<1>13. cx' = d
  BY <1>1, <1>2, <1>8, <1>9, <1>10, <1>12 DEF Returns
<1> QED
  BY <1>1, <1>2, <1>13, <1>5, <1>7, StateOfRest, <1>3, BodyEnds DEF StillReady

\* The end of a method.
LEMMA EndMethodKeeps ==
  ASSUME Ready, refusals' = {}, EndMethod
  PROVE  StillReady
<1>1. todo # << >> /\ Task.do = "method" /\ Task.at > Len(BodyOf(source, Task.of)) /\ todo' = Later
      /\ cx' = [cx EXCEPT !.gives = Task.before.gives, !.module = Task.before.module,
                          !.fn = NoSymbol, !.struct = << >>, !.cleanups = << >>]
      /\ UNCHANGED <<source, structs, symbols, code>>
  BY DEF EndMethod, AtEnd, Doing
<1>2. PICK t, r, d : t = Task /\ r = Later /\ HeadState(source, structs, symbols, code, t, r, cx, d)
  BY <1>1, ReadyHead
<1>3. IsBody(t) /\ ~Saves(t)
  BY <1>1, <1>2 DEF IsBody, Saves
<1>4. /\ IsContext(cx) /\ cx.unsafe = t.before.unsafe /\ cx.unsafe \in Nat
      /\ cx.meaning = MeaningOf(source, t.of) /\ cx.loop = 0 /\ ~cx.deferring
      /\ cx.coro = OwnContext(source, t.of).coro /\ cx.main = OwnContext(source, t.of).main
  BY <1>1, <1>2, <1>3, EndContext
<1>5. PICK h : h = Head(r)
  OBVIOUS
<1>7. Follows(source, t, cx, d) /\ Planned(source, r, d) /\ IsSeq(r) /\ AllApart(source, r) /\ Joined(t, r)
  BY <1>2 DEF HeadState, TaskStep
<1>9. Declared(source, t.of) /\ t.of.method # ""
  BY <1>1, <1>2, <1>3, BodyHead DEF HeadState, SoundTask
<1>10. cx.coro = NoSymbol /\ ~cx.main
  <2>2. OwnContext(source, t.of).coro = NoSymbol
    BY <1>9, DeclarationFacts DEF OwnContext, Resting, Ready, WellWritten
  <2>3. t.of.of # <<"main">>
    <3>2. Len(t.of.of) # 1
      BY Longer, <1>9, TemplateFound DEF Declared
    <3>3. PICK x : x = t.of.of
      OBVIOUS
    <3>4. x = <<"main">> => Len(x) = 1
      OBVIOUS
    <3> QED
      BY ONLY <3>2, <3>3, <3>4
  <2> QED
    BY <1>4, <2>2, <2>3, OwnContextFlags
<1>11. PICK g, m, n : g = t.before.gives /\ m = t.before.module /\ n = NoSymbol
  OBVIOUS
<1>12. cx' = [cx EXCEPT !.gives = g, !.module = m, !.fn = n, !.struct = << >>, !.cleanups = << >>]
  BY <1>1, <1>2, <1>11
<1>13. /\ IsContext(cx') /\ cx'.meaning = cx.meaning /\ cx'.module = m /\ cx'.loop = cx.loop
       /\ (cx'.deferring <=> cx.deferring) /\ cx'.coro = cx.coro /\ (cx'.main <=> cx.main)
       /\ cx'.unsafe = cx.unsafe
  BY ONLY <1>4, <1>12 DEF IsContext
<1>14. Alike(cx', d)
  BY <1>4, <1>10, <1>11, <1>13, <1>1, <1>2, <1>7 DEF Alike, Outside, Follows
<1>17. Planned(source, r, cx')
  BY <1>7, <1>13, <1>14, PlanAlike, <1>3, <1>4 DEF Joined, Link
<1> QED
  BY <1>1, <1>2, <1>5, <1>7, <1>17, StateOfRest, <1>3, BodyEnds DEF StillReady

\* Between the passes nothing is left but the names.
LEMMA PlanTop ==
  ASSUME NEW p, NEW r, IsSeq(r), NEW c, NEW d, AtRest(c), Planned(p, r, d), r # << >> => Head(r).do = "generate"
  PROVE  Planned(p, r, c)
<1>0. IsContext(c) /\ c.unsafe = 0
  BY DEF AtRest
<1>1. CASE r = << >>
  <2> DEFINE D == [k \in 1 .. 1 |-> c]
  <2>2. D[1] = c /\ D[0 + 1] = c
    OBVIOUS
  <2> HIDE DEF D
  <2> QED
    BY <2>2, <1>1 DEF Planned, Plans
<1>2. CASE r # << >>
  <2>1. PICK t, u : t = Head(r) /\ u = Tail(r)
    OBVIOUS
  <2>2. r = <<t>> \o u /\ IsSeq(u)
    BY <1>2, <2>1, Popped
  <2>3. PICK e : TaskStep(p, t, u, d, e)
    BY <2>2, PlanPopped
  <2>6. Follows(p, t, c, e)
    BY <1>0, <2>3, <1>2, <2>1 DEF Follows, IsBody, TaskStep
  <2> QED
    BY <2>2, PlanPushed, <1>0, <2>3, <2>6 DEF TaskStep
<1> QED
  BY <1>1, <1>2

\* The end of a function of the program.
LEMMA EndPlainKeeps ==
  ASSUME Ready, refusals' = {}, EndPlain
  PROVE  StillReady
<1>1. todo # << >> /\ Task.do = "plain" /\ Task.at > Len(BodyOf(source, Task.of)) /\ todo' = Later
      /\ cx' = [cx EXCEPT !.coro = Task.before.coro, !.cleanups = << >>]
      /\ UNCHANGED <<source, structs, symbols, code>>
  BY DEF EndPlain, AtEnd, Doing
<1>2. PICK t, r, d : t = Task /\ r = Later /\ HeadState(source, structs, symbols, code, t, r, cx, d)
  BY <1>1, ReadyHead
<1>3. IsBody(t)
  BY <1>1, <1>2 DEF IsBody
<1>4. /\ IsContext(cx) /\ cx.unsafe = t.before.unsafe
      /\ cx.meaning = MeaningOf(source, t.of) /\ cx.loop = 0 /\ ~cx.deferring
  BY <1>1, <1>2, <1>3, EndContext
<1>5. PICK h : h = Head(r)
  OBVIOUS
<1>7. Follows(source, t, cx, d) /\ Planned(source, r, d) /\ IsSeq(r) /\ AllApart(source, r) /\ Joined(t, r)
  BY <1>2 DEF HeadState, TaskStep
<1>10. PICK o : o = t.before.coro
  OBVIOUS
<1>11. cx' = [cx EXCEPT !.coro = o, !.cleanups = << >>]
  BY <1>1, <1>2, <1>10
<1>12. IsContext(cx') /\ cx'.meaning = cx.meaning /\ cx'.loop = cx.loop
       /\ (cx'.deferring <=> cx.deferring) /\ cx'.unsafe = cx.unsafe
  BY ONLY <1>4, <1>11 DEF IsContext
<1>15. Planned(source, r, cx')
  BY <1>7, PlanTop, <1>1, <1>2, <1>4, <1>12 DEF Joined, Link, AtRest, MeaningOf, HeadState, SoundTask,
     Follows
<1> QED
  BY <1>1, <1>2, <1>5, <1>7, <1>15, StateOfRest, <1>3, BodyEnds DEF StillReady

--------------------------------------------------------------------------------
(* The start of a body. *)

\* Two contexts that are not in a deferred statement agree in that.
LEMMA BothFalse ==
  ASSUME NEW a, NEW b, ~a.deferring, ~b.deferring
  PROVE  a.deferring = b.deferring
<1>1. a.deferring = FALSE
  BY SMT
<1>2. b.deferring = FALSE
  BY SMT
<1> QED
  BY ONLY <1>1, <1>2, Zenon

\* Two contexts that are not in main agree in that.
LEMMA BothMain ==
  ASSUME NEW a, NEW b, ~a.main, ~b.main
  PROVE  a.main = b.main
<1>1. a.main = FALSE
  BY SMT
<1>2. b.main = FALSE
  BY SMT
<1> QED
  BY ONLY <1>1, <1>2, Zenon

\* A context whose block and unsafe blocks are set, part by part.
LEMMA ContextPut ==
  ASSUME NEW o, IsContext(o), NEW f, NEW w
  PROVE  [o EXCEPT !.block = f, !.unsafe = w] =
            [fn |-> o.fn, block |-> f, gives |-> o.gives, struct |-> o.struct, inline |-> o.inline,
             main |-> o.main, coro |-> o.coro, loop |-> o.loop, deferring |-> o.deferring, unsafe |-> w,
             locals |-> o.locals, cleanups |-> o.cleanups, module |-> o.module, meaning |-> o.meaning]
<1>1. PICK a, b, g, s, i, m, k, l, d, u, x, y, z, n :
        /\ o = [fn |-> a, block |-> b, gives |-> g, struct |-> s, inline |-> i, main |-> m, coro |-> k, loop |-> l,
               deferring |-> d, unsafe |-> u, locals |-> x, cleanups |-> y, module |-> z, meaning |-> n]
  BY DEF IsContext
<1>2. PICK e : e = [o EXCEPT !.block = f, !.unsafe = w]
  OBVIOUS
<1>3. e = [fn |-> a, block |-> f, gives |-> g, struct |-> s, inline |-> i, main |-> m, coro |-> k, loop |-> l,
           deferring |-> d, unsafe |-> w, locals |-> x, cleanups |-> y, module |-> z, meaning |-> n]
  BY ONLY <1>1, <1>2
<1>4. /\ o.fn = a /\ o.gives = g /\ o.struct = s /\ o.inline = i /\ o.main = m /\ o.coro = k /\ o.loop = l
      /\ o.deferring = d /\ o.locals = x /\ o.cleanups = y /\ o.module = z /\ o.meaning = n
  BY ONLY <1>1
<1> QED
  BY ONLY <1>2, <1>3, <1>4

\* A context that is set up for a function is the function's own, with the unsafe
\* blocks of whoever asked around it.
LEMMA ContextStart ==
  ASSUME NEW c, IsContext(c), c.unsafe \in Nat, NEW o, IsContext(o), NEW f, o.fn = f,
         o.loop = c.loop, o.deferring = c.deferring, o.meaning = c.meaning, o.unsafe = 0,
         NEW e, e = [c EXCEPT !.fn = f, !.block = f, !.gives = o.gives, !.struct = o.struct, !.inline = o.inline,
                              !.main = o.main, !.module = o.module, !.coro = o.coro, !.cleanups = o.cleanups,
                              !.locals = o.locals]
  PROVE  e = Around(o, f, c.unsafe)
<1>1. PICK u \in Nat : u = c.unsafe
  OBVIOUS
<1>2. e = [fn |-> f, block |-> f, gives |-> o.gives, struct |-> o.struct, inline |-> o.inline,
           main |-> o.main, coro |-> o.coro, loop |-> c.loop, deferring |-> c.deferring, unsafe |-> c.unsafe,
           locals |-> o.locals, cleanups |-> o.cleanups, module |-> o.module, meaning |-> c.meaning]
  BY DEF IsContext
<1>3. Around(o, f, u) =
          [fn |-> o.fn, block |-> f, gives |-> o.gives, struct |-> o.struct, inline |-> o.inline,
           main |-> o.main, coro |-> o.coro, loop |-> o.loop, deferring |-> o.deferring, unsafe |-> o.unsafe + u,
           locals |-> o.locals, cleanups |-> o.cleanups, module |-> o.module, meaning |-> o.meaning]
  <2>1. PICK w : w = o.unsafe + u
    OBVIOUS
  <2>2. Around(o, f, u) = [o EXCEPT !.block = f, !.unsafe = w]
    BY <2>1 DEF Around
  <2>3. [o EXCEPT !.block = f, !.unsafe = w] =
          [fn |-> o.fn, block |-> f, gives |-> o.gives, struct |-> o.struct, inline |-> o.inline,
           main |-> o.main, coro |-> o.coro, loop |-> o.loop, deferring |-> o.deferring, unsafe |-> w,
           locals |-> o.locals, cleanups |-> o.cleanups, module |-> o.module, meaning |-> o.meaning]
    BY ContextPut
  <2> QED
    BY ONLY <2>1, <2>2, <2>3
<1>4. o.unsafe + u = c.unsafe
  BY <1>1
<1> QED
  BY <1>1, <1>2, <1>3, <1>4

\* What a body starts with, by its declaration.
LEMMA OwnParts ==
  ASSUME NEW p, NEW f, NEW d, d = Declaration(p, f)
  PROVE  /\ IsContext(OwnContext(p, f)) /\ OwnContext(p, f).fn = f /\ OwnContext(p, f).gives = d.gives
         /\ OwnContext(p, f).module = d.module /\ OwnContext(p, f).inline = d.inline
         /\ OwnContext(p, f).loop = 0 /\ ~OwnContext(p, f).deferring /\ OwnContext(p, f).unsafe = 0
         /\ OwnContext(p, f).meaning = MeaningOf(p, f) /\ OwnContext(p, f).cleanups = << << >> >>
<1> QED
  BY OwnContextFacts DEF OwnContext, Resting

\* The coroutine of a body.
LEMMA OwnCoroutine ==
  ASSUME NEW p, NEW f
  PROVE  OwnContext(p, f).coro = (IF Declaration(p, f).coroutine THEN f ELSE NoSymbol)
  BY DEF OwnContext, Resting

\* The struct of a body.
LEMMA OwnStruct ==
  ASSUME NEW p, NEW f
  PROVE  OwnContext(p, f).struct = (IF f.method = "" THEN << >> ELSE f.of)
  BY DEF OwnContext, Resting

\* The locals at the start of a body.
LEMMA OwnLocals ==
  ASSUME NEW p, NEW f
  PROVE  OwnContext(p, f).locals = (IF Declaration(p, f).inline THEN <<"this">> ELSE << >>)
  BY DEF OwnContext, Resting

\* Whether a body is that of main.
LEMMA OwnMain ==
  ASSUME NEW p, NEW f
  PROVE  OwnContext(p, f).main = (f.of = <<"main">>)
  BY DEF OwnContext, Resting

\* A method belongs to a struct that is there.
Homed(S, f) == f.method # "" => f.of \in S

\* The code that a body starts with.
Started(p, cd, cd2, sym, u) ==
  /\ sym \notin DOMAIN cd /\ DOMAIN cd2 = DOMAIN cd \cup {sym}
  /\ \A g \in DOMAIN cd : cd2[g] = cd[g]
  /\ cd2[sym] = CodeUpTo(p, sym, 1, u)

\* The functions that have code stay sound when the code of one more starts.
LEMMA StartCode ==
  ASSUME NEW p \in SourceForms, WellWritten(p), NEW st, NEW st2, NEW sy, NEW sy2, NEW cd, NEW cd2, NEW T, NEW T2,
         NEW h, NEW t2 \in T2, NEW sym, NEW u \in Nat,
         SoundState(p, st, sy, cd, T, h), ~IsBody(h), T \subseteq T2 \cup {h}, DOMAIN st \subseteq DOMAIN st2,
         sy \subseteq sy2, Declared(p, sym), sym \in FunctionsOf(Needed(p)), Started(p, cd, cd2, sym, u),
         \A x \in SignatureNodes(p, sym) : x.of \in DOMAIN st2,
         IsBody(t2), t2.of = sym, u # 0 => UnsafeTask(p, T), Homed(DOMAIN st2, sym)
  PROVE  \A f \in DOMAIN cd2 : SoundCode(p, DOMAIN st2, sy2, cd2, T2, f)
<1>1. sym \notin DOMAIN cd /\ DOMAIN cd2 = DOMAIN cd \cup {sym} /\ \A g \in DOMAIN cd : cd2[g] = cd[g]
  BY DEF Started
<1>3. SoundCode(p, DOMAIN st2, sy2, cd2, T2, sym)
  <2>1. cd2[sym][1] = ItemAlone(p, sym, 1, u)
    BY CodeLength DEF Started
  <2>2. ItemAlone(p, sym, 1, u).checked <=> u = 0
    <3>2. PICK c : c = ContextOf(p, sym, StandsAt(1))
      OBVIOUS
    <3> QED
      BY <3>2, CheckedAlone, OwnParts, ContextSteps, BodyFacts DEF WellWritten, StandsAt
  <2>3. ASSUME u # 0 PROVE \E t \in T2 : IsUnsafe(p, t) /\ t.of # sym
    <3>1. PICK t \in T : IsUnsafe(p, t)
      BY <2>3 DEF UnsafeTask
    <3> QED
      BY <1>1, <3>1 DEF SoundState, SoundTask, IsUnsafe
  <2> QED
    BY <2>1, <2>2, <2>3 DEF SoundCode, Homed
<1> QED
  BY <1>1, <1>3, CodeKept DEF SoundState

\* The task of a body that starts.
LEMMA StartTask ==
  ASSUME NEW p \in SourceForms, WellWritten(p), NEW S, NEW sy, NEW cd, NEW cd2, NEW t2, NEW sym, NEW u,
         Declared(p, sym), Started(p, cd, cd2, sym, u), IsBody(t2), t2.of = sym, t2.at = 1, t2.before.unsafe = u,
         t2.do = "method" => t2 = [do |-> "method", of |-> t2.of, at |-> t2.at, before |-> t2.before] /\ sym.method # "",
         t2.do = "function" =>
           /\ t2 = [do |-> "function", of |-> t2.of, at |-> t2.at, before |-> t2.before, saved |-> t2.saved]
           /\ sym.method = "" /\ Len(sym.of) # 1,
         t2.do = "plain" =>
           /\ t2 = [do |-> "plain", of |-> t2.of, at |-> t2.at, before |-> t2.before]
           /\ sym.method = "" /\ Len(sym.of) = 1
  PROVE  SoundTask(p, S, sy, cd2, t2)
<1>2. PICK k \in Nat : k = Len(BodyOf(p, sym)) /\ DOMAIN BodyOf(p, sym) = 1 .. k
  BY BodyFacts DEF WellWritten
<1>3. t2.at \in 1 .. Len(BodyOf(p, t2.of)) + 1
  <2>1. 1 \in 1 .. k + 1
    BY ONLY <1>2
  <2>2. BodyOf(p, t2.of) = BodyOf(p, sym) /\ Len(BodyOf(p, sym)) = k /\ t2.at = 1
    BY <1>2
  <2> QED
    BY ONLY <2>1, <2>2
<1>4. DoneTo(p, S, sy, sym, 1)
  <2>1. \A i \in 1 .. k : ~(i < 1)
    <3>1. ASSUME NEW i \in 1 .. k PROVE ~(i < 1)
      BY ONLY <1>2, i \in 1 .. k, SMT
    <3> QED
      BY ONLY <3>1
  <2>2. \A i \in DOMAIN BodyOf(p, sym) : ~(i < 1)
    BY ONLY <1>2, <2>1
  <2> QED
    BY ONLY <2>2 DEF DoneTo
<1> QED
  BY <1>3, <1>4 DEF SoundTask, IsBody, Started

\* The context of a body that starts, and its first item.
LEMMA StartFrame ==
  ASSUME NEW p \in SourceForms, WellWritten(p), NEW sym, Declared(p, sym), NEW u \in Nat, NEW c,
         c = Around(OwnContext(p, sym), sym, u), NEW t2, t2.of = sym, t2.at = 1, t2.before.unsafe = u
  PROVE  /\ c = FrameOf(p, t2) /\ CodeUpTo(p, sym, 1, u) = <<Entry(c)>>
         /\ IsContext(c) /\ c.unsafe = u
<1>2. ContextOf(p, sym, 0) = OwnContext(p, sym)
  BY ContextSteps, BodyFacts DEF WellWritten
<1>5. PICK o : o = OwnContext(p, sym)
  OBVIOUS
<1>6. IsContext(o) /\ o.unsafe = 0
  BY <1>5, OwnParts
<1>7. CodeUpTo(p, sym, 1, u) = <<Entry(c)>>
  BY <1>2, <1>5, <1>6, EntryAlone
<1>8. IsContext(c) /\ c.unsafe = 0 + u
  BY <1>5, <1>6, AroundFacts
<1>9. 0 + u = u
  BY ONLY u \in Nat
<1> QED
  BY <1>7, <1>8, <1>9, <1>2 DEF FrameOf

\* A context that is filled in for a function.
Filled(c, f, g, s, i, ma, mo, co, cl, lo) ==
  [c EXCEPT !.fn = f, !.block = f, !.gives = g, !.struct = s, !.inline = i, !.main = ma, !.module = mo,
            !.coro = co, !.cleanups = cl, !.locals = lo]

\* The same, part by part.
FilledRecord(c, f, g, s, i, ma, mo, co, cl, lo) ==
  [fn |-> f, block |-> f, gives |-> g, struct |-> s, inline |-> i, main |-> ma, coro |-> co, loop |-> c.loop,
   deferring |-> c.deferring, unsafe |-> c.unsafe, locals |-> lo, cleanups |-> cl, module |-> mo,
   meaning |-> c.meaning]

\* The two agree.
LEMMA FilledIs ==
  ASSUME NEW c, IsContext(c), NEW f, NEW g, NEW s, NEW i, NEW ma, NEW mo, NEW co, NEW cl, NEW lo
  PROVE  Filled(c, f, g, s, i, ma, mo, co, cl, lo) = FilledRecord(c, f, g, s, i, ma, mo, co, cl, lo)
<1>1. PICK e : e = [c EXCEPT !.fn = f, !.block = f, !.gives = g, !.struct = s, !.inline = i, !.main = ma,
                             !.module = mo, !.coro = co, !.cleanups = cl, !.locals = lo]
  OBVIOUS
<1>2. e = FilledRecord(c, f, g, s, i, ma, mo, co, cl, lo)
  BY <1>1, Zenon DEF FilledRecord, IsContext
<1> QED
  BY <1>1, <1>2, Zenon DEF Filled

\* What an instance of a function sets in the context it finds.
LEMMA FunctionPut ==
  ASSUME NEW c, IsContext(c), NEW f, NEW g, NEW s, NEW i, NEW mo, NEW co, NEW cl,
         NEW e, e = [c EXCEPT !.fn = f, !.block = f, !.gives = g, !.struct = s, !.inline = i, !.module = mo,
                              !.coro = co, !.cleanups = cl]
  PROVE  e = Filled(c, f, g, s, i, c.main, mo, co, cl, c.locals)
<1>1. e = FilledRecord(c, f, g, s, i, c.main, mo, co, cl, c.locals)
  BY Zenon DEF FilledRecord, IsContext
<1> QED
  BY <1>1, FilledIs

\* What a function of the program sets: first as any function, then its own.
PlainFilled(c, f, g, s, i, mo2, co, cl, ma, mo, lo) ==
  [[c EXCEPT !.fn = f, !.block = f, !.gives = g, !.struct = s, !.inline = i, !.module = mo2,
             !.coro = co, !.cleanups = cl] EXCEPT !.main = ma, !.module = mo, !.locals = lo]

\* This, too, fills in a context.
LEMMA PlainPut ==
  ASSUME NEW c, IsContext(c), NEW f, NEW g, NEW s, NEW i, NEW mo, NEW mo2, NEW co, NEW cl, NEW ma, NEW lo,
         NEW e, e = PlainFilled(c, f, g, s, i, mo2, co, cl, ma, mo, lo)
  PROVE  e = Filled(c, f, g, s, i, ma, mo, co, cl, lo)
<1>1. e = FilledRecord(c, f, g, s, i, ma, mo, co, cl, lo)
  BY Zenon DEF FilledRecord, IsContext, PlainFilled
<1> QED
  BY <1>1, FilledIs

\* What a method sets in the context of its instance.
MethodFilled(c, f, g, s, i, mo, cl, lo) ==
  [c EXCEPT !.fn = f, !.block = f, !.gives = g, !.struct = s, !.inline = i, !.module = mo, !.cleanups = cl,
            !.locals = lo]

\* This, too, fills in a context.
LEMMA MethodPut ==
  ASSUME NEW c, IsContext(c), NEW f, NEW g, NEW s, NEW i, NEW mo, NEW cl, NEW lo,
         NEW e, e = MethodFilled(c, f, g, s, i, mo, cl, lo)
  PROVE  e = Filled(c, f, g, s, i, c.main, mo, c.coro, cl, lo)
<1>1. e = FilledRecord(c, f, g, s, i, c.main, mo, c.coro, cl, lo)
  BY Zenon DEF FilledRecord, IsContext, MethodFilled
<1> QED
  BY <1>1, FilledIs

\* A function's own context, put where one stands.
LEMMA OwnPut ==
  ASSUME NEW p, NEW f, NEW o, o = OwnContext(p, f), NEW c, IsContext(c), c.unsafe \in Nat, c.loop = 0,
         ~c.deferring, c.meaning = MeaningOf(p, f), NEW g, NEW s, NEW i, NEW ma, NEW mo, NEW co, NEW cl, NEW lo,
         g = o.gives, s = o.struct, i = o.inline, ma = o.main, mo = o.module, co = o.coro, cl = o.cleanups,
         lo = o.locals
  PROVE  Filled(c, f, g, s, i, ma, mo, co, cl, lo) = Around(o, f, c.unsafe)
<1>1. /\ IsContext(o) /\ o.fn = f /\ o.loop = 0 /\ ~o.deferring /\ o.unsafe = 0
      /\ o.meaning = MeaningOf(p, f)
  BY OwnParts
<1>2. o.deferring = c.deferring
  BY <1>1, BothFalse
<1>3. o.loop = c.loop /\ o.meaning = c.meaning
  BY <1>1
<1>4. PICK e : e = Filled(c, f, g, s, i, ma, mo, co, cl, lo)
  OBVIOUS
<1>5. e = [c EXCEPT !.fn = f, !.block = f, !.gives = o.gives, !.struct = o.struct, !.inline = o.inline,
                    !.main = o.main, !.module = o.module, !.coro = o.coro, !.cleanups = o.cleanups,
                    !.locals = o.locals]
  BY <1>4 DEF Filled
<1>6. e = Around(o, f, c.unsafe)
  BY ONLY <1>1, <1>2, <1>3, <1>5, IsContext(c), c.unsafe \in Nat, ContextStart
<1> QED
  BY <1>4, <1>6

\* How the task of a body that starts is written.
Starts(t2, sym, u) ==
  /\ IsBody(t2) /\ t2.of = sym /\ t2.at = 1 /\ t2.before.unsafe = u
  /\ t2.do = "method" =>
       t2 = [do |-> "method", of |-> t2.of, at |-> t2.at, before |-> t2.before] /\ sym.method # ""
  /\ t2.do = "function" =>
       /\ t2 = [do |-> "function", of |-> t2.of, at |-> t2.at, before |-> t2.before, saved |-> t2.saved]
       /\ sym.method = "" /\ Len(sym.of) # 1
  /\ t2.do = "plain" =>
       /\ t2 = [do |-> "plain", of |-> t2.of, at |-> t2.at, before |-> t2.before]
       /\ sym.method = "" /\ Len(sym.of) = 1

\* The state is sound when a body starts.
LEMMA StateStarted ==
  ASSUME NEW p \in SourceForms, WellWritten(p), NEW st, NEW st2, NEW sy, NEW sy2, NEW cd, NEW cd2, NEW T, NEW T2,
         NEW h, NEW t2 \in T2, NEW sym, NEW u \in Nat,
         SoundState(p, st, sy, cd, T, h), ~IsBody(h), T \subseteq T2 \cup {h}, DOMAIN st \subseteq DOMAIN st2,
         sy \subseteq sy2, Declared(p, sym), sym \in FunctionsOf(Needed(p)), Started(p, cd, cd2, sym, u),
         \A x \in SignatureNodes(p, sym) : x.of \in DOMAIN st2,
         Starts(t2, sym, u), u # 0 => UnsafeTask(p, T), Homed(DOMAIN st2, sym),
         \A n \in DOMAIN st2 : SoundStruct(p, st2, DOMAIN cd2, T2, t2, n),
         SoundSymbols(p, sy2, DOMAIN cd2, T2),
         \A x \in T2 : x = t2 \/ (SoundTask(p, DOMAIN st2, sy2, cd2, x) /\ InsideOf(Needed(p), x))
  PROVE  SoundState(p, st2, sy2, cd2, T2, t2)
<1>2. SoundTask(p, DOMAIN st2, sy2, cd2, t2)
  <2>1. PICK S : S = DOMAIN st2
    OBVIOUS
  <2> QED
    BY <2>1, StartTask DEF Starts
<1> QED
  BY <1>2, StartCode DEF SoundState, InsideOf, IsBody, FunctionsOf, Starts

\* A task that waits goes on while another body starts.
LEMMA TaskWaits ==
  ASSUME NEW p \in SourceForms, WellWritten(p), NEW st, NEW st2, NEW sy, NEW sy2, NEW cd, NEW cd2, NEW T, NEW h,
         NEW sym, NEW u, SoundState(p, st, sy, cd, T, h), DOMAIN st \subseteq DOMAIN st2, Started(p, cd, cd2, sym, u),
         sy \subseteq sy2, sy2 \subseteq sy \cup {sym}, NEW x \in T,
         x.do = "methods" => sym.method = "" \/ sym.of # x.name,
         x.do = "instance" => Function(x.name) \notin sy2,
         x.do = "generate" => sym # Function(x.name)
  PROVE  SoundTask(p, DOMAIN st2, sy2, cd2, x) /\ InsideOf(Needed(p), x)
<1>1. SoundTask(p, DOMAIN st, sy, cd, x) /\ InsideOf(Needed(p), x)
  BY DEF SoundState
<1>2. DOMAIN cd2 = DOMAIN cd \cup {sym} /\ \A g \in DOMAIN cd : cd2[g] = cd[g]
  BY DEF Started
<1>3. IsBody(x) => x.of \in DOMAIN cd2 /\ cd2[x.of] = cd[x.of]
  BY <1>1, <1>2 DEF SoundTask
<1>4. x.do = "methods" =>
        \A i \in DOMAIN Methods(p, x.name) :
          Symbol(x.name, Methods(p, x.name)[i].name) \in sy2 => Symbol(x.name, Methods(p, x.name)[i].name) \in sy
  <2> SUFFICES ASSUME x.do = "methods", NEW i \in DOMAIN Methods(p, x.name)
               PROVE  Symbol(x.name, Methods(p, x.name)[i].name) # sym
    OBVIOUS
  <2>3. Methods(p, x.name)[i].name # ""
    BY MethodDeclared, KnownDeclared, <1>1 DEF WellWritten, DeclaredStruct, SoundTask
  <2>4. PICK m : m = Methods(p, x.name)[i].name
    OBVIOUS
  <2>5. Symbol(x.name, m).of = x.name /\ Symbol(x.name, m).method = m
    BY SymbolParts
  <2>6. sym.method = "" \/ sym.of # x.name
    OBVIOUS
  <2> QED
    BY ONLY <2>3, <2>4, <2>5, <2>6
<1>5. x.do = "instance" => Function(x.name) \notin sy2
  BY <1>1 DEF SoundTask
<1>6. x.do = "generate" => Function(x.name) \notin DOMAIN cd2
  BY <1>1, <1>2 DEF SoundTask
<1>7. PICK S, S2 : S = DOMAIN st /\ S2 = DOMAIN st2
  OBVIOUS
<1>8. SoundTask(p, S, sy, cd, x) /\ S \subseteq S2
  BY <1>1, <1>7
<1>9. SoundTask(p, S2, sy2, cd2, x)
  BY ONLY <1>8, <1>3, <1>4, <1>5, <1>6, sy \subseteq sy2, TaskKept
<1> QED
  BY <1>1, <1>7, <1>9

\* A function whose name was known gets its code.
LEMMA SymbolsPlain ==
  ASSUME NEW p, NEW sy, NEW D, NEW D2, NEW T, NEW T2, NEW h, NEW f, SoundSymbols(p, sy, D, T),
         D2 = D \cup {f}, T \subseteq T2 \cup {h}, h.do = "generate" => Function(h.name) \in D2,
         f.method = "", Len(f.of) = 1
  PROVE  SoundSymbols(p, sy, D2, T2)
<1>1. PICK N : N = {f}
  OBVIOUS
<1>2. D2 = D \cup N /\ \A g \in N : g.method = "" /\ Len(g.of) = 1
  BY <1>1
<1> QED
  BY <1>2, SymbolsKept

\* A function of the program is declared.
LEMMA DeclaredPlain ==
  ASSUME NEW p \in SourceForms, WellDeclared(p), NEW n, Plain(p, n) # {}
  PROVE  /\ Declared(p, Function(n)) /\ Len(n) = 1 /\ n \in Names /\ Declaration(p, Function(n)).name = n
         /\ Declaration(p, Function(n)).types = << >> /\ ~Declaration(p, Function(n)).inline
         /\ Declaration(p, Function(n)).inline = FALSE
<1>1. PICK f : f = CHOOSE g \in Plain(p, n) : TRUE
  OBVIOUS
<1>2. PICK i \in DOMAIN p.functions : p.functions[i] = f /\ p.functions[i].name = n
  BY <1>1, PlainFound
<1>4. Len(n) = 1 /\ f.types = << >> /\ ~f.inline /\ f.name = n
  BY <1>2 DEF WellDeclared
<1>5. n \in Names /\ f.inline \in BOOLEAN
  BY <1>4, <1>1, PlainFound DEF Units
<1>6. ~(Len(n) > 1)
  BY ONLY <1>4
<1>7. Declaration(p, Function(n)) = f
  BY <1>1, <1>6, SymbolParts DEF Declaration
<1>9. f.inline = FALSE
  BY <1>4, SMT
<1> QED
  BY <1>4, <1>5, <1>7, <1>9, <1>6, SymbolParts DEF Declared, Function

\* The context in which a function of the program starts is its own.
LEMMA PlainStart ==
  ASSUME NEW p \in SourceForms, WellDeclared(p), NEW n, Plain(p, n) # {}, NEW c, AtRest(c),
         NEW sym, sym = Function(n), NEW e, e = PlainContext(sym, Declaration(p, sym), c)
  PROVE  e = Around(OwnContext(p, sym), sym, c.unsafe)
<1>1. PICK f : f = Declaration(p, sym)
  OBVIOUS
<1>2. Len(n) = 1 /\ f.name = n /\ ~f.inline /\ f.inline = FALSE
  BY <1>1, DeclaredPlain
<1>3. PICK o : o = OwnContext(p, sym)
  OBVIOUS
<1>4. o.gives = f.gives /\ o.module = f.module /\ o.inline = f.inline /\ o.cleanups = << << >> >>
  BY <1>1, <1>3, OwnParts
<1>5. o.coro = (IF f.coroutine THEN sym ELSE NoSymbol)
  BY <1>1, <1>3, OwnCoroutine
<1>6. sym.of = n /\ sym.method = ""
  BY SymbolParts
<1>7. o.struct = << >>
  BY <1>3, <1>6, OwnStruct
<1>8. o.locals = << >>
  BY <1>2, <1>1, <1>3, OwnLocals
<1>9. o.main = (n = <<"main">>)
  BY <1>3, <1>6, OwnMain
<1>10. PICK mo2, co, ma :
         /\ mo2 = (IF f.module = "" THEN c.module ELSE f.module)
         /\ co = (IF f.coroutine THEN sym ELSE NoSymbol) /\ ma = (f.name = <<"main">>)
  OBVIOUS
<1>11. e = [[c EXCEPT !.fn = sym, !.block = sym, !.gives = f.gives, !.struct = << >>, !.inline = FALSE,
                      !.module = mo2, !.coro = co, !.cleanups = << << >> >>]
            EXCEPT !.main = ma, !.module = f.module, !.locals = << >>]
  BY ONLY <1>1, <1>10, e = PlainContext(sym, Declaration(p, sym), c), Zenon DEF PlainContext, FunctionContext
<1>12. PICK g, mo, s, i, cl, lo : g = f.gives /\ mo = f.module /\ s = << >> /\ i = f.inline /\ cl = << << >> >>
                                   /\ lo = << >>
  OBVIOUS
<1>13. e = PlainFilled(c, sym, g, s, i, mo2, co, cl, ma, mo, lo)
  BY ONLY <1>2, <1>11, <1>12, Zenon DEF PlainFilled
<1>14. IsContext(c) /\ c.unsafe = 0 /\ c.loop = 0 /\ ~c.deferring /\ c.meaning = << >>
  BY DEF AtRest
<1>15. e = Filled(c, sym, g, s, i, ma, mo, co, cl, lo)
  <2>1. IsContext(c)
    BY <1>14
  <2> QED
    BY ONLY <1>13, <2>1, PlainPut
<1>16. ma = o.main
  BY ONLY <1>2, <1>9, <1>10, Zenon
<1>17. MeaningOf(p, sym) = << >>
  BY <1>2, <1>6 DEF MeaningOf
<1>18. g = o.gives /\ s = o.struct /\ i = o.inline /\ mo = o.module /\ co = o.coro /\ cl = o.cleanups /\ lo = o.locals
  BY ONLY <1>4, <1>5, <1>7, <1>8, <1>10, <1>12, Zenon
<1>19. c.unsafe \in Nat /\ c.meaning = MeaningOf(p, sym)
  BY ONLY <1>14, <1>17
<1>20. Filled(c, sym, g, s, i, ma, mo, co, cl, lo) = Around(o, sym, c.unsafe)
  BY ONLY <1>3, <1>14, <1>16, <1>18, <1>19, OwnPut
<1> QED
  BY ONLY <1>3, <1>15, <1>20

\* The body of a function of the program starts.
LEMMA GenerateFunctionKeeps ==
  ASSUME Ready, refusals' = {}, GenerateFunction
  PROVE  StillReady
<1>1. PICK sym, c, t2 :
        /\ sym = Function(Task.name) /\ c = PlainContext(sym, Declaration(source, sym), cx)
        /\ t2 = [do |-> "plain", of |-> sym, at |-> 1, before |-> cx]
        /\ cx' = c
        /\ code' = Extended(code, sym, IF sym \in DOMAIN code THEN Append(code[sym], Entry(c)) ELSE <<Entry(c)>>)
        /\ todo' = <<t2>> \o Later /\ todo # << >> /\ Task.do = "generate"
        /\ UNCHANGED <<source, structs, symbols>>
  BY DEF GenerateFunction, Doing, Start
<1>2. PICK t, r, d : t = Task /\ r = Later /\ HeadState(source, structs, symbols, code, t, r, cx, d)
  BY <1>1, ReadyHead
<1>3. t.do = "generate" /\ sym = Function(t.name)
  BY <1>1, <1>2
<1>4. Plain(source, t.name) # {} /\ sym \notin DOMAIN code /\ sym \in Needed(source)
  BY <1>2, <1>3 DEF HeadState, SoundTask, InsideOf
<1>5. Ready /\ WellDeclared(source)
  BY DEF Ready, WellWritten
<1>6. /\ Declared(source, sym) /\ Len(t.name) = 1 /\ Declaration(source, sym).types = << >>
      /\ sym.of = t.name /\ sym.method = ""
  <2>1. PICK n : n = t.name
    OBVIOUS
  <2>2. Plain(source, n) # {} /\ sym = Function(n) /\ source \in SourceForms /\ WellDeclared(source)
    BY <1>3, <1>4, <1>5, <2>1 DEF Ready
  <2>3. Declared(source, Function(n)) /\ Len(n) = 1 /\ Declaration(source, Function(n)).types = << >>
    BY ONLY <2>2, DeclaredPlain
  <2>4. Function(n).of = n /\ Function(n).method = ""
    BY SymbolParts
  <2> QED
    BY ONLY <2>1, <2>2, <2>3, <2>4
<1>7. sym \in FunctionsOf(Needed(source))
  BY <1>4, <1>6 DEF FunctionsOf, TypesOf
<1>8. SignatureNodes(source, sym) = {}
  <2>1. PICK m : m = MeaningOf(source, sym)
    OBVIOUS
  <2>2. TypeNodes(<< >>, m) = {}
    BY DEF TypeNodes
  <2> QED
    BY <1>6, <2>1, <2>2 DEF SignatureNodes
<1>9. IsSeq(r) /\ AllApart(source, r) /\ TaskStep(source, t, r, cx, d) /\ \A x \in Tasks(r) : Apart(source, t, x)
  BY <1>2 DEF HeadState
<1>10. AtRest(cx) /\ AtRest(d) /\ IsContext(d) /\ d.unsafe \in Nat
  BY <1>3, <1>9 DEF TaskStep, Follows
<1>12. cx.unsafe = 0
  BY <1>10 DEF AtRest
<1>13. /\ t2.do = "plain" /\ t2.of = sym /\ t2.at = 1 /\ t2.before = cx
       /\ t2 = [do |-> "plain", of |-> t2.of, at |-> t2.at, before |-> t2.before]
  BY <1>1
<1>14. Starts(t2, sym, 0)
  BY <1>6, <1>12, <1>13 DEF Starts, IsBody
<1>15. c = FrameOf(source, t2) /\ CodeUpTo(source, sym, 1, 0) = <<Entry(c)>> /\ IsContext(c) /\ c.unsafe = 0
  <2>1. source \in SourceForms /\ WellWritten(source) /\ 0 \in Nat
    BY DEF Ready
  <2>2. c = Around(OwnContext(source, sym), sym, 0) /\ t2.before.unsafe = 0
    BY <1>12, <1>13, <1>1, <1>3, <1>4, <1>5, <1>10, PlainStart DEF Ready
  <2>3. Declared(source, sym) /\ t2.of = sym /\ t2.at = 1
    BY <1>6, <1>13
  <2> QED
    BY ONLY <2>1, <2>2, <2>3, StartFrame
<1>16. Started(source, code, code', sym, 0)
  BY <1>1, <1>4, <1>15 DEF Started, Extended
<1> DEFINE T == {t} \cup Tasks(r)
           T2 == {t2} \cup Tasks(r)
<1>17. SoundState(source, structs, symbols, code, T, t)
  BY <1>2 DEF HeadState
<1>18. ~IsBody(t) /\ T \subseteq T2 \cup {t}
  BY <1>3 DEF IsBody
<1>19. DOMAIN code' = DOMAIN code \cup {sym}
  BY <1>16 DEF Started
<1>20. \A n \in DOMAIN structs : SoundStruct(source, structs, DOMAIN code', T2, t2, n)
  <2> SUFFICES ASSUME NEW n \in DOMAIN structs PROVE SoundStruct(source, structs, DOMAIN code', T2, t2, n)
    OBVIOUS
  <2>1. SoundStruct(source, structs, DOMAIN code, T, t, n)
    BY <1>17 DEF SoundState
  <2>2. t.do \notin {"layout", "methods"}
    BY <1>3
  <2>3. DOMAIN code \subseteq DOMAIN code' /\ structs[n] = structs[n] /\ DOMAIN structs \subseteq DOMAIN structs
    BY <1>19
  <2> HIDE DEF T, T2
  <2> QED
    BY ONLY <1>18, <2>1, <2>2, <2>3, StructAway
<1>21. SoundSymbols(source, symbols, DOMAIN code', T2)
  <2>4. PICK D, D2, N : D = DOMAIN code /\ D2 = DOMAIN code' /\ N = sym
    OBVIOUS
  <2>5. D2 = D \cup {N} /\ N.method = "" /\ Len(N.of) = 1 /\ SoundSymbols(source, symbols, D, T) /\ (t.do = "generate" => Function(t.name) \in D2)
    BY <1>19, <2>4, <1>17, <1>3, <1>6 DEF SoundState
  <2> HIDE DEF T, T2
  <2>6. SoundSymbols(source, symbols, D2, T2)
    BY ONLY <1>18, <2>5, SymbolsPlain
  <2> QED
    BY ONLY <2>4, <2>6
<1>22. ASSUME NEW x \in Tasks(r) PROVE SoundTask(source, DOMAIN structs, symbols, code', x) /\ InsideOf(Needed(source), x)
  <2>2. x.do = "generate" => sym # Function(x.name)
    <3>1. PICK n, m : n = t.name /\ m = x.name
      OBVIOUS
    <3>2. x.do = "generate" => n # m
      BY <1>3, <3>1, <1>9 DEF Apart
    <3>3. Function(n).of = n /\ Function(m).of = m
      BY SymbolParts
    <3> QED
      BY ONLY <1>3, <3>1, <3>2, <3>3
  <2>3. x \in T /\ DOMAIN structs \subseteq DOMAIN structs /\ symbols \subseteq symbols /\ symbols \subseteq symbols \cup {sym}
    OBVIOUS
  <2>4. x.do = "methods" => sym.method = "" \/ sym.of # x.name
    BY <1>6
  <2>6. source \in SourceForms /\ WellWritten(source)
    BY DEF Ready
  <2>7. PICK y, k, k2 : y = symbols /\ k = code /\ k2 = code'
    OBVIOUS
  <2>8. /\ Started(source, k, k2, sym, 0) /\ SoundState(source, structs, y, k, T, t)
        /\ y \subseteq y /\ y \subseteq y \cup {sym}
    BY <1>16, <1>17, <2>7
  <2>9. x.do = "instance" => Function(x.name) \notin y
    BY <1>17, <2>7 DEF SoundState, SoundTask
  <2> HIDE DEF T, T2
  <2>10. SoundTask(source, DOMAIN structs, y, k2, x) /\ InsideOf(Needed(source), x)
    BY ONLY <2>2, <2>3, <2>4, <2>6, <2>8, <2>9, TaskWaits
  <2> QED
    BY ONLY <2>7, <2>10
<1>23. SoundState(source, structs, symbols, code', T2, t2)
  <2>1. source \in SourceForms /\ WellWritten(source) /\ t2 \in T2
    BY DEF Ready
  <2>2. \A x \in SignatureNodes(source, sym) : x.of \in DOMAIN structs
    BY <1>8
  <2>3. \A x \in T2 : x = t2 \/ (SoundTask(source, DOMAIN structs, symbols, code', x) /\ InsideOf(Needed(source), x))
    BY <1>22
  <2>4. DOMAIN structs \subseteq DOMAIN structs /\ symbols \subseteq symbols /\ 0 \in Nat
    OBVIOUS
  <2>5. (0 # 0 => UnsafeTask(source, T)) /\ Homed(DOMAIN structs, sym)
    BY <1>6 DEF Homed
  <2> HIDE DEF T, T2
  <2> QED
    BY ONLY <1>6, <1>7, <1>14, <1>16, <1>17, <1>18, <1>20, <1>21, <2>1, <2>2, <2>3, <2>4, <2>5, StateStarted
<1>24. \A x \in Tasks(r) : Apart(source, t2, x)
  <2> SUFFICES ASSUME NEW x \in Tasks(r) PROVE Apart(source, t2, x)
    OBVIOUS
  <2> QED
    BY <1>13, <1>3, <1>4, <1>17, <1>9 DEF Apart, InsideOf, SoundState, SoundTask
<1>25. TaskStep(source, t2, r, c, d)
  BY <1>9, <1>15, <1>10, <1>13, <1>3 DEF TaskStep, Follows, IsBody, Joined, Link, Exact
<1>26. IState(source, structs, symbols, code', <<t2>> \o r, c)
  <2> HIDE DEF T
  <2> QED
    BY <1>9, <1>23, <1>24, <1>25, StateOfPushed
<1> QED
  BY <1>1, <1>2, <1>26 DEF StillReady

\* The context in which an instance starts.
FreshWith(c, m) == [Fresh(c) EXCEPT !.meaning = m]

\* An instance starts with what the asker left, but outside of everything.
LEMMA FreshFacts ==
  ASSUME NEW c, IsContext(c), NEW m, NEW e, e = FreshWith(c, m)
  PROVE  /\ IsContext(e) /\ e.unsafe = c.unsafe /\ e.module = c.module /\ e.meaning = m /\ e.loop = 0
         /\ ~e.deferring /\ ~e.main /\ e.coro = NoSymbol /\ e.locals = << >>
<1>1. PICK n : n = NoSymbol
  OBVIOUS
<1>2. e = [[c EXCEPT !.loop = 0, !.deferring = FALSE, !.coro = n, !.main = FALSE, !.locals = << >>,
                     !.cleanups = << >>] EXCEPT !.meaning = m]
  BY <1>1, Zenon DEF Fresh, FreshWith
<1>3. e = [fn |-> c.fn, block |-> c.block, gives |-> c.gives, struct |-> c.struct, inline |-> c.inline,
           main |-> FALSE, coro |-> n, loop |-> 0, deferring |-> FALSE, unsafe |-> c.unsafe,
           locals |-> << >>, cleanups |-> << >>, module |-> c.module, meaning |-> m]
  BY ONLY <1>2, IsContext(c), Zenon DEF IsContext
<1>4. /\ e.unsafe = c.unsafe /\ e.module = c.module /\ e.meaning = m /\ e.loop = 0
      /\ ~e.deferring /\ ~e.main /\ e.coro = n /\ e.locals = << >>
  BY ONLY <1>3
<1>5. IsContext(e)
  BY ONLY <1>3 DEF IsContext
<1> QED
  BY <1>1, <1>4, <1>5

\* The instance that a call names is needed where the caller is.
LEMMA CalleeNeeded ==
  ASSUME NEW p \in SourceForms, WellWritten(p), NEW f, Declared(p, f), NEW i \in DOMAIN BodyOf(p, f),
         BodyOf(p, f)[i].s = "call", NEW n, n = BodyOf(p, f)[i].name, Instantiable(p, "function", n),
         NEW N, ClosedUnder(p, N), f \in N
  PROVE  Function(n) \in N /\ n \in Names
<1>4. Defined(p, Function(n))
  BY SymbolParts DEF Defined
<1>5. f.method # "type"
  BY DEF Declared
<1> QED
  BY <1>4, <1>5, WrittenCallNames, LocalTypes DEF ClosedUnder, Needs, Callees, WellWritten

\* The nodes that an instance's signature leads to.
LEMMA SignatureClosed ==
  ASSUME NEW p, WellWritten(p), NEW f, f \in FunctionsOf(Needed(p)),
         NEW N, N = Reached(p, SignatureNodes(p, f))
  PROVE  ClosedUnder(p, N) /\ SignatureNodes(p, f) \subseteq N /\ f \notin N
<1>2. PICK S : S = SignatureNodes(p, f)
  OBVIOUS
<1> QED
  BY <1>2, ReachedFacts DEF SignatureFirst, WellWritten

\* A function of a set is among the functions of the set.
LEMMA FunctionNode ==
  ASSUME NEW N, NEW n, Function(n) \in N
  PROVE  Function(n) \in FunctionsOf(N)
  BY SymbolParts DEF FunctionsOf, TypesOf

\* A task is inside of what an instance that waits below it needs for its signature.
LEMMA InstanceAround ==
  ASSUME NEW p \in SourceForms, WellWritten(p), NEW st, NEW sy, NEW cd, NEW T, NEW h,
         SoundState(p, st, sy, cd, T, h), NEW x \in T, x.do = "instance"
  PROVE  \E N : /\ N = Reached(p, SignatureNodes(p, Function(x.name)))
                /\ ClosedUnder(p, N) /\ SignatureNodes(p, Function(x.name)) \subseteq N /\ Function(x.name) \notin N
<1>3. PICK N : N = Reached(p, SignatureNodes(p, Function(x.name)))
  OBVIOUS
<1>4. PICK f : f = Function(x.name)
  OBVIOUS
<1> QED
  BY <1>3, <1>4, SignatureClosed, FunctionNode DEF InsideOf, SoundState

\* A call asks for an instance of a function.
LEMMA InstantiateFunctionKeeps ==
  ASSUME Ready, refusals' = {}, InstantiateFunction
  PROVE  StillReady
<1>1. PICK n, tt, t2 :
        /\ n = Stmt.name /\ tt = Template(source, "function", n)
        /\ t2 = [do |-> "instance", name |-> n, saved |-> cx]
        /\ Function(n) \notin symbols /\ Instantiable(source, "function", n)
        /\ cx' = [Fresh(cx) EXCEPT !.meaning = Meaning(tt, n)]
        /\ todo' = <<t2>> \o todo /\ Standing({"call"})
        /\ UNCHANGED <<source, structs, symbols, code>>
  BY DEF InstantiateFunction, Callee
<1>2. /\ todo # << >> /\ IsBody(Task) /\ Task.at \in DOMAIN BodyOf(source, Task.of)
      /\ Stmt = BodyOf(source, Task.of)[Task.at] /\ Stmt.s = "call" /\ Declared(source, Task.of)
  BY <1>1, StandingFacts
<1>3. PICK t, r, d : t = Task /\ r = Later /\ HeadState(source, structs, symbols, code, t, r, cx, d)
  BY <1>2, ReadyHead
<1>4. /\ IsSeq(todo) /\ AllApart(source, todo) /\ Planned(source, todo, cx)
      /\ Tasks(todo) = {t} \cup Tasks(r) /\ Head(todo) = t
      /\ SoundState(source, structs, symbols, code, Tasks(todo), t)
      /\ cx.unsafe # 0 => UnsafeTask(source, Tasks(todo))
  BY <1>2, <1>3, ReadyPushed
<1>5. Follows(source, t, cx, d) /\ \A x \in Tasks(r) : Apart(source, t, x)
  BY <1>3 DEF HeadState, TaskStep
<1>6. IsContext(cx) /\ cx.unsafe \in Nat
  BY <1>5 DEF Follows
<1>7. PICK m : m = Meaning(tt, n)
  OBVIOUS
<1>8. PICK e : e = cx'
  OBVIOUS
<1>9. e = FreshWith(cx, m)
  BY <1>1, <1>7, <1>8, Zenon DEF FreshWith
<1>10. /\ IsContext(e) /\ e.unsafe = cx.unsafe /\ e.module = cx.module /\ e.meaning = m /\ e.loop = 0
       /\ ~e.deferring /\ ~e.main /\ e.coro = NoSymbol /\ e.locals = << >>
  BY ONLY <1>6, <1>9, FreshFacts
<1>11. m = MeaningOf(source, Function(n))
  <2>3. Len(n) # 1
    BY Longer, <1>1, <1>2, LocalTypes, TemplateFound DEF Ready, WellWritten
  <2> QED
    BY <1>1, <1>7, <2>3, SymbolParts DEF MeaningOf
<1>12. t2.do = "instance" /\ t2.name = n /\ t2.saved = cx
  BY <1>1
<1>13. Follows(source, t2, e, cx)
  BY <1>6, <1>10, <1>12, <1>11 DEF Follows, IsBody, Outside, Returns
<1>15. TaskStep(source, t2, todo, e, cx)
  BY <1>4, <1>13, <1>10, <1>12 DEF TaskStep, UnsafeTask, Joined, Link, Saves
<1>16. ASSUME NEW N, ClosedUnder(source, N), t.of \in N PROVE Function(n) \in N
  <2>1. source \in SourceForms /\ WellWritten(source)
    BY DEF Ready
  <2>2. PICK f, i : f = Task.of /\ i = Task.at
    OBVIOUS
  <2>3. /\ Declared(source, f) /\ i \in DOMAIN BodyOf(source, f) /\ BodyOf(source, f)[i].s = "call"
        /\ n = BodyOf(source, f)[i].name /\ f \in N
    BY <1>1, <1>2, <1>3, <1>16, <2>2
  <2>4. Instantiable(source, "function", n)
    BY <1>1
  <2> QED
    BY ONLY <1>16, <2>1, <2>3, <2>4, CalleeNeeded
<1>17. ~IsBody(t2) /\ IsBody(t)
  BY <1>2, <1>3, <1>12 DEF IsBody
<1>19. \A x \in Tasks(todo) : Apart(source, t2, x)
  <2> SUFFICES ASSUME NEW x \in Tasks(todo) PROVE Apart(source, t2, x)
    OBVIOUS
  <2>1. ASSUME x.do = "instance" PROVE InsideOf(Reached(source, SignatureNodes(source, Function(x.name))), t2)
    <3>2. PICK N : N = Reached(source, SignatureNodes(source, Function(x.name))) /\ ClosedUnder(source, N)
      BY <1>4, <2>1, InstanceAround DEF Ready
    <3> QED
      BY <3>2, <1>12, <1>17, <1>16, <1>5, <2>1, <1>4 DEF InsideOf, Apart, IsBody
  <2> QED
    BY <1>12, <1>17, <2>1 DEF Apart
<1> DEFINE T == Tasks(todo)
           T2 == {t2} \cup Tasks(todo)
<1>21. SoundState(source, structs, symbols, code, T, t) /\ T \subseteq T2 \cup {t} /\ t \in T2
  BY <1>4
<1>22. \A k \in DOMAIN structs : SoundStruct(source, structs, DOMAIN code, T2, t2, k)
  <2> SUFFICES ASSUME NEW k \in DOMAIN structs PROVE SoundStruct(source, structs, DOMAIN code, T2, t2, k)
    OBVIOUS
  <2>1. SoundStruct(source, structs, DOMAIN code, T, t, k)
    BY <1>21 DEF SoundState
  <2>2. t.do \notin {"layout", "methods"}
    BY <1>17 DEF IsBody
  <2>3. DOMAIN code \subseteq DOMAIN code /\ structs[k] = structs[k] /\ DOMAIN structs \subseteq DOMAIN structs
    OBVIOUS
  <2> HIDE DEF T, T2
  <2> QED
    BY ONLY <1>21, <2>1, <2>2, <2>3, StructAway
<1>23. \A x \in T2 : SoundTask(source, DOMAIN structs, symbols, code, x) /\ InsideOf(Needed(source), x)
  BY <1>21, <1>1, <1>12, <1>17, <1>16, <1>3, NeededFacts DEF SoundState, SoundTask, InsideOf, HeadState,
     Ready
<1>24. SoundState(source, structs, symbols, code, T2, t2)
  <2>1. DOMAIN structs \subseteq DOMAIN structs /\ (IsBody(t) => t \in T2) /\ (t.do = "generate" => t \in T2)
    BY <1>21
  <2> HIDE DEF T, T2
  <2> QED
    BY ONLY <1>21, <1>22, <1>23, <2>1, StateKept
<1>25. IState(source, structs, symbols, code, <<t2>> \o todo, e)
  <2>1. SoundState(source, structs, symbols, code, {t2} \cup Tasks(todo), t2)
    BY <1>24
  <2> QED
    BY ONLY <1>4, <1>15, <1>19, <2>1, StateOfPushed
<1> QED
  BY <1>1, <1>8, <1>25 DEF StillReady

\* A function whose name is new gets its code.
LEMMA SymbolsNew ==
  ASSUME NEW p, NEW sy, NEW D, NEW D2, NEW T, NEW T2, NEW h, NEW f, SoundSymbols(p, sy, D, T),
         D2 = D \cup {f}, T \subseteq T2 \cup {h}, h.do # "generate"
  PROVE  SoundSymbols(p, sy \cup {f}, D2, T2)
<1>1. PICK N : N = {f}
  OBVIOUS
<1> QED
  BY <1>1, SymbolsKept

\* When nothing is missing, the types of the signature that was asked for are there.
LEMMA SignatureKnown ==
  ASSUME Ready, NEW f, Declared(source, f), f \in FunctionsOf(Needed(source)), cx.meaning = MeaningOf(source, f),
         Asked = Declaration(source, f).types, Missing = {}, NEW T, NEW h,
         SoundState(source, structs, symbols, code, T, h), NEW x \in SignatureNodes(source, f)
  PROVE  x.of \in DOMAIN structs
<1>2. PICK types, m : types = Declaration(source, f).types /\ m = MeaningOf(source, f)
  OBVIOUS
<1>4. PICK j \in DOMAIN types : ~types[j].ptr /\ x = TypeNode(Closed(m, types[j].name))
  BY <1>2 DEF TypeNodes, SignatureNodes
<1>5. PICK ty, n : ty = types[j] /\ n = Closed(m, ty.name)
  OBVIOUS
<1>6. x.of = n /\ x = TypeNode(n)
  BY <1>4, <1>5, SymbolParts DEF TypeNode
<1>12. ASSUME StructNamed(source, n) # {} PROVE n \in DOMAIN structs
  <2>1. PICK i \in DOMAIN source.structs : source.structs[i].name = n
    BY <1>12 DEF StructNamed
  <2> QED
    BY <1>6, <2>1 DEF SoundState, Structs
<1> QED
  BY <1>6, <1>12, <1>2, <1>4, <1>5, WrittenNames DEF WellWritten, SignatureFirst, Unmade, Known, Missing,
     WrittenTypes, Ready

\* A function that is not inline.
LEMMA NotInline ==
  ASSUME NEW a, ~a.inline
  PROVE  a.inline = FALSE
  BY SMT

\* The context in which an instance of a function starts is its own.
LEMMA FunctionStart ==
  ASSUME NEW p \in SourceForms, WellDeclared(p), NEW n, NEW sym, sym = Function(n), Declared(p, sym), Len(n) > 1,
         NEW c, Outside(c, MeaningOf(p, sym)), c.locals = << >>,
         NEW e, e = FunctionContext(sym, Declaration(p, sym), c)
  PROVE  e = Around(OwnContext(p, sym), sym, c.unsafe)
<1>1. PICK f : f = Declaration(p, sym)
  OBVIOUS
<1>2. sym.of = n /\ sym.method = ""
  BY SymbolParts
<1>3. ~f.inline /\ f.inline \in BOOLEAN /\ f.module # ""
  BY <1>1, <1>2, DeclarationFacts
<1>4. f.inline = FALSE
  BY <1>3, NotInline
<1>5. PICK o : o = OwnContext(p, sym)
  OBVIOUS
<1>6. o.gives = f.gives /\ o.module = f.module /\ o.inline = f.inline /\ o.cleanups = << << >> >>
  BY <1>1, <1>5, OwnParts
<1>7. o.coro = (IF f.coroutine THEN sym ELSE NoSymbol)
  BY <1>1, <1>5, OwnCoroutine
<1>8. o.struct = << >>
  BY <1>2, <1>5, OwnStruct
<1>9. o.locals = << >>
  BY <1>3, <1>1, <1>5, OwnLocals
<1>10. ~o.main
  <2>2. Len(n) # 1
    BY Longer, <1>2 DEF Declared
  <2>3. n = <<"main">> => Len(n) = 1
    OBVIOUS
  <2>4. n # <<"main">>
    BY ONLY <2>2, <2>3
  <2> QED
    BY <2>4, <1>2, <1>5, OwnContextFlags
<1>11. IsContext(c) /\ c.unsafe \in Nat /\ c.loop = 0 /\ ~c.deferring /\ ~c.main /\ c.meaning = MeaningOf(p, sym)
  BY DEF Outside
<1>12. o.main = c.main
  BY <1>10, <1>11, BothMain
<1>13. PICK co : co = (IF f.coroutine THEN sym ELSE NoSymbol)
  OBVIOUS
<1>14. PICK g, mo, s, i, cl : g = f.gives /\ mo = f.module /\ s = << >> /\ i = f.inline /\ cl = << << >> >>
  OBVIOUS
<1>15. (IF f.module = "" THEN c.module ELSE f.module) = mo
  BY <1>3, <1>14
<1>16. e = [c EXCEPT !.fn = sym, !.block = sym, !.gives = f.gives, !.struct = << >>, !.inline = FALSE,
                     !.module = IF f.module = "" THEN c.module ELSE f.module, !.coro = co, !.cleanups = << << >> >>]
  BY ONLY <1>1, <1>13, e = FunctionContext(sym, Declaration(p, sym), c), Zenon DEF FunctionContext
<1>17. e = [c EXCEPT !.fn = sym, !.block = sym, !.gives = g, !.struct = s, !.inline = i, !.module = mo,
                     !.coro = co, !.cleanups = cl]
  BY ONLY <1>4, <1>14, <1>15, <1>16, Zenon
<1>18. e = Filled(c, sym, g, s, i, c.main, mo, co, cl, c.locals)
  BY ONLY <1>11, <1>17, FunctionPut
<1>19. PICK ma, lo : ma = c.main /\ lo = c.locals
  OBVIOUS
<1>20. g = o.gives /\ s = o.struct /\ i = o.inline /\ mo = o.module /\ co = o.coro /\ cl = o.cleanups
  BY ONLY <1>6, <1>7, <1>8, <1>13, <1>14, Zenon
<1>21. ma = o.main /\ lo = o.locals
  BY ONLY <1>9, <1>12, <1>19, c.locals = << >>, Zenon
<1>22. Filled(c, sym, g, s, i, ma, mo, co, cl, lo) = Around(o, sym, c.unsafe)
  BY ONLY <1>5, <1>11, <1>20, <1>21, OwnPut
<1> QED
  BY ONLY <1>5, <1>18, <1>19, <1>22

\* An instance of a function is declared and its body starts.
LEMMA DeclareFunctionKeeps ==
  ASSUME Ready, refusals' = {}, DeclareFunction
  PROVE  StillReady
<1>1. PICK sym, c, t2 :
        /\ sym = Function(Task.name) /\ c = FunctionContext(sym, Declaration(source, sym), cx)
        /\ t2 = [do |-> "function", of |-> sym, at |-> 1, before |-> cx, saved |-> Task.saved]
        /\ cx' = c /\ symbols' = symbols \cup {sym}
        /\ code' = Extended(code, sym, IF sym \in DOMAIN code THEN Append(code[sym], Entry(c)) ELSE <<Entry(c)>>)
        /\ todo' = <<t2>> \o Later /\ todo # << >> /\ Task.do = "instance" /\ Missing = {}
        /\ UNCHANGED <<source, structs>>
  BY DEF DeclareFunction, Doing, Start
<1>2. PICK t, r, d : t = Task /\ r = Later /\ HeadState(source, structs, symbols, code, t, r, cx, d)
  BY <1>1, ReadyHead
<1>3. t.do = "instance" /\ sym = Function(t.name)
  BY <1>1, <1>2
<1>4. source \in SourceForms /\ WellWritten(source) /\ WellDeclared(source)
  BY DEF Ready, WellWritten
<1>5. Instantiable(source, "function", t.name) /\ sym \notin symbols /\ sym \in Needed(source)
  BY <1>2, <1>3 DEF HeadState, SoundTask, InsideOf
<1>6. sym.of = t.name /\ sym.method = ""
  BY <1>3, SymbolParts
<1>7. sym \in FunctionsOf(Needed(source)) /\ Declared(source, sym) /\ t.name \in Names
  BY <1>5, <1>6, <1>4, NeededFacts DEF FunctionsOf, TypesOf, GoodNode
<1>8. Len(t.name) > 1 /\ Len(t.name) # 1
  BY <1>5, <1>7, TemplateFound, Longer
<1>9. IsSeq(r) /\ AllApart(source, r) /\ TaskStep(source, t, r, cx, d) /\ \A x \in Tasks(r) : Apart(source, t, x)
  BY <1>2 DEF HeadState
<1>10. /\ IsContext(cx) /\ cx.unsafe \in Nat /\ IsContext(d) /\ d.unsafe \in Nat
       /\ Outside(cx, MeaningOf(source, sym)) /\ cx.locals = << >> /\ Returns(cx, t.saved, d)
  BY <1>3, <1>9 DEF TaskStep, Follows
<1>11. PICK u \in Nat : u = cx.unsafe
  BY <1>10
<1>12. c = Around(OwnContext(source, sym), sym, u)
  <2>1. PICK n : n = t.name
    OBVIOUS
  <2>2. sym = Function(n) /\ Len(n) > 1
    BY <1>3, <1>8, <2>1
  <2>3. c = FunctionContext(sym, Declaration(source, sym), cx)
    BY <1>1
  <2>4. c = Around(OwnContext(source, sym), sym, cx.unsafe)
    BY ONLY <1>4, <1>7, <1>10, <2>2, <2>3, FunctionStart
  <2> QED
    BY ONLY <1>11, <2>4
<1>13. /\ t2.do = "function" /\ t2.of = sym /\ t2.at = 1 /\ t2.before = cx /\ t2.saved = t.saved
       /\ t2 = [do |-> "function", of |-> t2.of, at |-> t2.at, before |-> t2.before, saved |-> t2.saved]
  BY <1>1, <1>2
<1>14. Starts(t2, sym, u)
  BY <1>6, <1>8, <1>11, <1>13 DEF Starts, IsBody
<1>15. c = FrameOf(source, t2) /\ CodeUpTo(source, sym, 1, u) = <<Entry(c)>> /\ IsContext(c) /\ c.unsafe = u
  <2>1. t2.of = sym /\ t2.at = 1 /\ t2.before.unsafe = u
    BY <1>11, <1>13
  <2> QED
    BY ONLY <1>4, <1>7, <1>12, <2>1, u \in Nat, StartFrame
<1> DEFINE T == {t} \cup Tasks(r)
           T2 == {t2} \cup Tasks(r)
<1>16. SoundState(source, structs, symbols, code, T, t)
  BY <1>2 DEF HeadState
<1>17. sym \notin DOMAIN code
  BY <1>5, <1>6, <1>8, <1>16 DEF SoundState, SoundSymbols
<1>18. Started(source, code, code', sym, u)
  BY <1>1, <1>15, <1>17 DEF Started, Extended
<1>19. ~IsBody(t) /\ T \subseteq T2 \cup {t}
  BY <1>3 DEF IsBody
<1>20. DOMAIN code' = DOMAIN code \cup {sym}
  BY <1>18 DEF Started
<1>21. \A n \in DOMAIN structs : SoundStruct(source, structs, DOMAIN code', T2, t2, n)
  <2> SUFFICES ASSUME NEW n \in DOMAIN structs PROVE SoundStruct(source, structs, DOMAIN code', T2, t2, n)
    OBVIOUS
  <2>1. SoundStruct(source, structs, DOMAIN code, T, t, n)
    BY <1>16 DEF SoundState
  <2>2. t.do \notin {"layout", "methods"}
    BY <1>3
  <2>3. DOMAIN code \subseteq DOMAIN code' /\ structs[n] = structs[n] /\ DOMAIN structs \subseteq DOMAIN structs
    BY <1>20
  <2> HIDE DEF T, T2
  <2> QED
    BY ONLY <1>19, <2>1, <2>2, <2>3, StructAway
<1>22. SoundSymbols(source, symbols', DOMAIN code', T2)
  <2>2. t.do # "generate"
    BY <1>3
  <2>3. PICK D, D2 : D = DOMAIN code /\ D2 = DOMAIN code'
    OBVIOUS
  <2>4. D2 = D \cup {sym} /\ SoundSymbols(source, symbols, D, T)
    BY <1>20, <2>3, <1>16 DEF SoundState
  <2> HIDE DEF T, T2
  <2>5. SoundSymbols(source, symbols \cup {sym}, D2, T2)
    BY ONLY <1>19, <2>2, <2>4, SymbolsNew
  <2> QED
    BY <1>1, <2>3, <2>5
<1>23. ASSUME NEW x \in Tasks(r), x.do = "instance"
       PROVE  InsideOf(Reached(source, SignatureNodes(source, Function(x.name))), t2) /\ sym # Function(x.name)
  <2>1. PICK N : /\ N = Reached(source, SignatureNodes(source, Function(x.name)))
                 /\ ClosedUnder(source, N) /\ Function(x.name) \notin N
    BY <1>4, <1>16, <1>23, InstanceAround
  <2> QED
    BY <2>1, <1>13, <1>3, <1>9, <1>23 DEF InsideOf, Apart
<1>24. ASSUME NEW x \in Tasks(r) PROVE SoundTask(source, DOMAIN structs, symbols', code', x) /\ InsideOf(Needed(source), x)
  <2>1. x.do = "generate" => sym # Function(x.name)
    <3>3. PICK n : n = x.name
      OBVIOUS
    <3>4. x.do = "generate" => Len(n) = 1
      BY <1>4, <3>3, DeclaredPlain, <1>16 DEF SoundTask, SoundState
    <3>5. Function(n).of = n
      BY SymbolParts
    <3>6. Len(sym.of) # 1
      BY <1>6, <1>8
    <3> QED
      BY ONLY <3>3, <3>4, <3>5, <3>6
  <2>2. x \in T /\ DOMAIN structs \subseteq DOMAIN structs
    OBVIOUS
  <2>3. x.do = "methods" => sym.method = "" \/ sym.of # x.name
    BY <1>6
  <2>4. PICK w, y, y2, k, k2 : w = u /\ y = symbols /\ y2 = symbols' /\ k = code /\ k2 = code'
    OBVIOUS
  <2>5. x.do = "instance" => Function(x.name) \notin y2
    BY <2>4, <1>1, <1>23, <1>16 DEF SoundTask, SoundState
  <2>6. /\ Started(source, k, k2, sym, w) /\ SoundState(source, structs, y, k, T, t)
        /\ y \subseteq y2 /\ y2 \subseteq y \cup {sym}
    BY <1>1, <1>16, <1>18, <2>4
  <2> HIDE DEF T, T2
  <2>7. SoundTask(source, DOMAIN structs, y2, k2, x) /\ InsideOf(Needed(source), x)
    BY ONLY <1>4, <2>1, <2>2, <2>3, <2>5, <2>6, TaskWaits
  <2> QED
    BY ONLY <2>4, <2>7
<1>25. \A x \in SignatureNodes(source, sym) : x.of \in DOMAIN structs
  <2>1. Asked = Declaration(source, sym).types
    <3>2. Doing("instance") /\ ~Doing("layout") /\ ~Doing("methods") /\ ~Standing({"local"})
      BY <1>1 DEF Doing, Standing, InBody
    <3>3. Asked = Template(source, "function", Task.name).types
      BY ONLY <3>2, SMT DEF Asked
    <3> QED
      BY <1>2, <3>3, <1>6, <1>8 DEF Declaration
  <2> HIDE DEF T, T2
  <2> QED
    BY <1>1, <1>7, <1>16, <2>1, SignatureKnown, <1>10 DEF Outside
<1>26. u # 0 => UnsafeTask(source, T)
  BY <1>9, <1>11 DEF TaskStep
<1>27. SoundState(source, structs, symbols', code', T2, t2)
  <2>1. t2 \in T2
    OBVIOUS
  <2>2. \A x \in T2 : x = t2 \/ (SoundTask(source, DOMAIN structs, symbols', code', x) /\ InsideOf(Needed(source), x))
    BY <1>24
  <2>3. DOMAIN structs \subseteq DOMAIN structs /\ symbols \subseteq symbols' /\ Homed(DOMAIN structs, sym)
    BY <1>1, <1>6 DEF Homed
  <2> HIDE DEF T, T2
  <2> QED
    BY ONLY <1>4, <1>7, <1>14, <1>16, <1>18, <1>19, <1>21, <1>22, <1>25, <1>26, <2>1, <2>2, <2>3, u \in Nat, StateStarted
<1>28. \A x \in Tasks(r) : Apart(source, t2, x)
  <2> SUFFICES ASSUME NEW x \in Tasks(r) PROVE Apart(source, t2, x)
    OBVIOUS
  <2> QED
    BY <1>13, <1>23, <1>17, <1>16 DEF Apart, SoundState, SoundTask
<1>29. TaskStep(source, t2, r, c, d)
  <2>1. Joined(t2, r)
    BY <1>13 DEF Joined, Link, Saves
  <2> QED
    BY <1>9, <2>1, <1>15, <1>19, <1>26, <1>10, <1>13 DEF TaskStep, UnsafeTask, IsUnsafe, Follows, IsBody
<1>30. IState(source, structs, symbols', code', <<t2>> \o r, c)
  <2> HIDE DEF T
  <2> QED
    BY <1>9, <1>27, <1>28, <1>29, StateOfPushed
<1> QED
  BY <1>1, <1>2, <1>30 DEF StillReady

\* main has no arguments.
LEMMA MainShort ==
  ASSUME NEW x
  PROVE  x = <<"main">> => Len(x) = 1
  OBVIOUS

\* The meaning in a method is that of its instance.
LEMMA StructMeaning ==
  ASSUME NEW n \in Names, Len(n) > 1, NEW p, NEW m, m # ""
  PROVE  MeaningOf(p, Symbol(n, m)) = Meaning(Template(p, "struct", n), n)
<1>1. Len(n) # 1
  BY Longer
<1>2. PICK f : f = Symbol(n, m)
  OBVIOUS
<1>4. f.of = n /\ Len(f.of) # 1 /\ f.method # ""
  BY <1>1, <1>2, SymbolParts
<1>5. MeaningOf(p, f) = Meaning(Template(p, "struct", n), n)
  BY ONLY <1>4 DEF MeaningOf
<1> QED
  BY <1>2, <1>5

\* A method starts in context e, that of its instance being c.
StartsMethod(p, n, m, sym, c, e) ==
  /\ n \in Names /\ Len(n) > 1 /\ sym = Symbol(n, m.name) /\ Declaration(p, sym) = m /\ ~m.coroutine
  /\ m.name # "" /\ Outside(c, MeaningOf(p, sym)) /\ e = MethodContext(n, m, c)

\* The context in which a method starts is its own.
LEMMA MethodStart ==
  ASSUME NEW p, NEW n, NEW m, NEW sym, NEW c, NEW e, StartsMethod(p, n, m, sym, c, e)
  PROVE  e = Around(OwnContext(p, sym), sym, c.unsafe)
<1>0. /\ n \in Names /\ Len(n) > 1 /\ sym = Symbol(n, m.name) /\ Declaration(p, sym) = m /\ ~m.coroutine
      /\ m.name # "" /\ Outside(c, MeaningOf(p, sym)) /\ e = MethodContext(n, m, c)
  BY DEF StartsMethod
<1>2. sym.of = n /\ sym.method = m.name
  <2>1. PICK k : k = m.name
    OBVIOUS
  <2>2. Symbol(n, k).of = n /\ Symbol(n, k).method = k
    BY ONLY SymbolParts
  <2> QED
    BY ONLY <2>1, <2>2, <1>0
<1>5. PICK o : o = OwnContext(p, sym)
  OBVIOUS
<1>6. o.gives = m.gives /\ o.module = m.module /\ o.inline = m.inline /\ o.cleanups = << << >> >>
  <2>1. Declaration(p, sym) = m
    BY <1>0
  <2> QED
    BY ONLY <1>5, <2>1, OwnParts
<1>7. o.coro = NoSymbol
  BY <1>0, <1>5, OwnCoroutine
<1>8. o.struct = n
  BY <1>0, <1>2, <1>5, OwnStruct
<1>9. o.locals = (IF m.inline THEN <<"this">> ELSE << >>)
  BY <1>0, <1>5, OwnLocals
<1>10. ~o.main
  <2>2. Len(n) # 1
    BY ONLY <1>0, Longer
  <2>3. n = <<"main">> => Len(n) = 1
    BY ONLY MainShort
  <2>4. n # <<"main">>
    BY ONLY <2>2, <2>3
  <2> QED
    BY <2>4, <1>2, <1>5, OwnContextFlags
<1>11. /\ IsContext(c) /\ c.unsafe \in Nat /\ c.loop = 0 /\ ~c.deferring /\ ~c.main /\ c.meaning = MeaningOf(p, sym)
       /\ c.coro = NoSymbol
  BY <1>0 DEF Outside
<1>12. o.main = c.main
  BY <1>10, <1>11, BothMain
<1>14. PICK g, mo, i, cl, lo : g = m.gives /\ mo = m.module /\ i = m.inline /\ cl = << << >> >>
                                /\ lo = (IF m.inline THEN <<"this">> ELSE << >>)
  OBVIOUS
<1>16. e = [c EXCEPT !.fn = sym, !.block = sym, !.gives = m.gives, !.struct = n, !.inline = m.inline,
                     !.module = m.module, !.cleanups = << << >> >>,
                     !.locals = IF m.inline THEN <<"this">> ELSE << >>]
  BY ONLY <1>0, Zenon DEF MethodContext
<1>17. e = MethodFilled(c, sym, g, n, i, mo, cl, lo)
  BY ONLY <1>14, <1>16, Zenon DEF MethodFilled
<1>18. e = Filled(c, sym, g, n, i, c.main, mo, c.coro, cl, lo)
  <2>1. IsContext(c)
    BY <1>11
  <2> QED
    BY ONLY <1>17, <2>1, MethodPut
<1>19. PICK ma, co : ma = c.main /\ co = c.coro
  OBVIOUS
<1>20. g = o.gives /\ n = o.struct /\ i = o.inline /\ mo = o.module /\ cl = o.cleanups /\ lo = o.locals
  BY ONLY <1>6, <1>8, <1>9, <1>14, Zenon
<1>21. ma = o.main /\ co = o.coro
  BY ONLY <1>7, <1>11, <1>12, <1>19, Zenon
<1>22. Filled(c, sym, g, n, i, ma, mo, co, cl, lo) = Around(o, sym, c.unsafe)
  BY ONLY <1>5, <1>11, <1>20, <1>21, OwnPut
<1> QED
  BY ONLY <1>5, <1>18, <1>19, <1>22

\* What the task of a struct's methods says.
LEMMA MethodsHead ==
  ASSUME Ready, NEW t, NEW r, NEW d, HeadState(source, structs, symbols, code, t, r, cx, d), t.do = "methods"
  PROVE  /\ t = [do |-> "methods", name |-> t.name, at |-> t.at, saved |-> t.saved]
         /\ t.name \in DOMAIN structs /\ t.name \in Names /\ Len(t.name) > 1 /\ Instantiable(source, "struct", t.name)
         /\ \E k \in Nat : /\ k = Len(Methods(source, t.name)) /\ DOMAIN Methods(source, t.name) = 1 .. k
                           /\ t.at \in 1 .. k + 1
         /\ \A i \in DOMAIN Methods(source, t.name) :
              (i < t.at) <=> (Symbol(t.name, Methods(source, t.name)[i].name) \in symbols)
         /\ IsContext(cx) /\ cx.unsafe \in Nat /\ IsContext(d) /\ d.unsafe \in Nat
         /\ Outside(cx, MeaningOf(source, TypeNode(t.name))) /\ Returns(cx, t.saved, d)
         /\ SoundStruct(source, structs, DOMAIN code, {t} \cup Tasks(r), t, t.name)
         /\ TypeNode(t.name) \in Needed(source)
<1>1. SoundTask(source, DOMAIN structs, symbols, code, t) /\ InsideOf(Needed(source), t)
      /\ SoundState(source, structs, symbols, code, {t} \cup Tasks(r), t)
      /\ Follows(source, t, cx, d)
  BY DEF HeadState, TaskStep
<1>2. /\ t = [do |-> "methods", name |-> t.name, at |-> t.at, saved |-> t.saved]
      /\ t.name \in DOMAIN structs /\ Instantiable(source, "struct", t.name)
      /\ t.at \in 1 .. Len(Methods(source, t.name)) + 1
      /\ \A i \in DOMAIN Methods(source, t.name) :
           (i < t.at) <=> (Symbol(t.name, Methods(source, t.name)[i].name) \in symbols)
  BY <1>1 DEF SoundTask
<1>6. PICK k \in Nat : k = Len(Methods(source, t.name)) /\ DOMAIN Methods(source, t.name) = 1 .. k /\ t.at \in 1 .. k + 1
  BY <1>2, MethodFacts DEF Ready
<1> QED
  BY <1>2, <1>6, <1>1, KnownDeclared, TemplateFound DEF Follows, SoundState, InsideOf, Ready, DeclaredStruct

\* The method i of an instance is the next one.
IsNext(t, i, m, sym) ==
  /\ i = t.at /\ i \in DOMAIN Methods(source, t.name) /\ m = Methods(source, t.name)[i]
  /\ sym = Symbol(t.name, m.name)

\* Whatever needs x needs f.
Brings(x, f) == \A N : ClosedUnder(source, N) /\ x \in N => f \in N

\* The method that is next.
LEMMA NextFacts ==
  ASSUME Ready, NEW t, NEW r, NEW d, HeadState(source, structs, symbols, code, t, r, cx, d), t.do = "methods",
         NEW i, NEW m, NEW sym, IsNext(t, i, m, sym)
  PROVE  /\ Declared(source, sym) /\ sym \in FunctionsOf(Needed(source)) /\ Declaration(source, sym) = m
         /\ sym.of = t.name /\ sym.method = m.name /\ m.name # "" /\ m.name # "type" /\ ~m.coroutine
         /\ sym \notin symbols /\ sym \notin DOMAIN code
         /\ MeaningOf(source, sym) = MeaningOf(source, TypeNode(t.name))
         /\ Brings(TypeNode(t.name), sym)
<1>0. /\ i = t.at /\ i \in DOMAIN Methods(source, t.name) /\ m = Methods(source, t.name)[i]
      /\ sym = Symbol(t.name, m.name)
  BY DEF IsNext
<1>1. source \in SourceForms /\ WellWritten(source) /\ WellDeclared(source)
  BY DEF Ready, WellWritten
<1>2. /\ t.name \in Names /\ Len(t.name) > 1 /\ Instantiable(source, "struct", t.name)
      /\ TypeNode(t.name) \in Needed(source)
  BY MethodsHead
<1>4. sym \notin symbols
  <2>1. \E k \in Nat : t.at \in 1 .. k + 1
    BY MethodsHead
  <2>2. ~(i < i)
    BY <1>0, <2>1
  <2> QED
    BY <1>0, <2>2, MethodsHead
<1>5. /\ Declaration(source, sym) = m /\ Declared(source, sym) /\ m.name \notin {"", "type"} /\ ~m.coroutine
  BY <1>0, <1>1, <1>2, MethodDeclared
<1>6. sym.of = t.name /\ sym.method = m.name
  <2>1. PICK n, k : n = t.name /\ k = m.name
    OBVIOUS
  <2>2. Symbol(n, k).of = n /\ Symbol(n, k).method = k
    BY ONLY SymbolParts
  <2> QED
    BY ONLY <2>1, <2>2, <1>0
<1>7. ASSUME NEW N, ClosedUnder(source, N), TypeNode(t.name) \in N PROVE sym \in N
  <2>2. TypeNode(t.name).of = t.name /\ TypeNode(t.name).method = "type"
    BY ONLY SymbolParts, ZenonT(40) DEF TypeNode
  <2> QED
    BY <1>7, <2>2, <1>0, <1>2 DEF ClosedUnder, Needs, MethodNodes
<1>8. sym \in FunctionsOf(Needed(source))
  BY <1>5, <1>6, <1>1, <1>2, <1>7, NeededFacts DEF FunctionsOf, TypesOf
<1> QED
  BY <1>4, <1>5, <1>6, <1>7, <1>8, <1>0, <1>2, StructMeaning DEF Brings, HeadState, SoundState,
     SoundSymbols, TypeNode

\* A struct gets a destructor.
LEMMA DestructorPut ==
  ASSUME NEW e, NEW x, NEW f, NEW g, e = [layout |-> x, fields |-> f, bad |-> FALSE, destructor |-> g], NEW b
  PROVE  [e EXCEPT !.destructor = b] = [layout |-> x, fields |-> f, bad |-> FALSE, destructor |-> b]
<1> DEFINE F == FALSE
<1>1. e = [layout |-> x, fields |-> f, bad |-> F, destructor |-> g]
  OBVIOUS
<1> HIDE DEF F
<1>2. [e EXCEPT !.destructor = b] = [layout |-> x, fields |-> f, bad |-> F, destructor |-> b]
  BY ONLY <1>1
<1> QED
  BY <1>2 DEF F

\* The struct whose method is declared: from rem on it has a destructor.
LEMMA MethodStruct ==
  ASSUME NEW p \in SourceForms, WellWritten(p), NEW st, NEW st2, NEW D, NEW D2, NEW T, NEW T2, NEW h, NEW h2, NEW n,
         SoundStruct(p, st, D, T, h, n), Instantiable(p, "struct", n), st[n].layout = "done",
         DOMAIN st \subseteq DOMAIN st2, D \subseteq D2,
         NEW i, NEW m, i \in DOMAIN Methods(p, n), m = Methods(p, n)[i], IsMethods(h, n) => h.at = i,
         NEW b, b <=> st[n].destructor \/ (m.inline /\ m.name = "rem"), st2[n] = [st[n] EXCEPT !.destructor = b],
         \E t \in T2 : IsMethods(t, n)
  PROVE  SoundStruct(p, st2, D2, T2, h2, n)
<1>1. /\ st[n] = [layout |-> st[n].layout, fields |-> FieldsOf(p, n), bad |-> FALSE,
                  destructor |-> st[n].destructor]
      /\ TypeNode(n) \in Needed(p)
      /\ IF Len(n) = 1 THEN StructNamed(p, n) # {} ELSE Instantiable(p, "struct", n)
      /\ st[n].destructor => HasRem(p, n)
      /\ \A j \in DOMAIN FieldsOf(p, n) : FieldMade(p, DOMAIN st, n, j)
      /\ HasRem(p, n) => st[n].destructor \/ (IsMethods(h, n) /\ h.at = 1)
  BY DEF SoundStruct
<1>2. PICK e, x, f, g : e = st[n] /\ x = st[n].layout /\ f = FieldsOf(p, n) /\ g = st[n].destructor
  OBVIOUS
<1>3. [e EXCEPT !.destructor = b] = [layout |-> x, fields |-> f, bad |-> FALSE, destructor |-> b]
  BY <1>1, <1>2, DestructorPut
<1>4. st2[n] = [layout |-> x, fields |-> f, bad |-> FALSE, destructor |-> b]
  BY ONLY <1>2, <1>3, st2[n] = [st[n] EXCEPT !.destructor = b]
<1>5. st2[n].layout = "done" /\ (st2[n].destructor <=> b)
      /\ st2[n] = [layout |-> st2[n].layout, fields |-> f, bad |-> FALSE, destructor |-> st2[n].destructor]
  <2>1. x = "done"
    BY <1>2
  <2>2. PICK q : q = st2[n]
    OBVIOUS
  <2>3. q = [layout |-> x, fields |-> f, bad |-> FALSE, destructor |-> b]
    BY ONLY <1>4, <2>2
  <2>4. q.layout = x /\ q.destructor = b
    BY ONLY <2>3
  <2>5. q = [layout |-> q.layout, fields |-> f, bad |-> FALSE, destructor |-> q.destructor]
    BY ONLY <2>3, <2>4, Zenon
  <2> QED
    BY ONLY <2>1, <2>2, <2>4, <2>5
<1>7. HasRem(p, n) => b
  <2> SUFFICES ASSUME HasRem(p, n), ~st[n].destructor PROVE m.inline /\ m.name = "rem"
    OBVIOUS
  <2>1. PICK j \in DOMAIN Methods(p, n) : Methods(p, n)[j].name = "rem" /\ Methods(p, n)[j].inline
    BY DEF HasRem
  <2> QED
    BY <2>1, <1>1, TemplateFound DEF DestroysFirst, Methods, WellWritten
<1>8. \A j \in DOMAIN FieldsOf(p, n) : FieldMade(p, DOMAIN st2, n, j)
  <2>1. PICK S, S2 : S = DOMAIN st /\ S2 = DOMAIN st2
    OBVIOUS
  <2> QED
    BY <1>1, <2>1, FieldKept
<1> QED
  BY <1>1, <1>2, <1>5, <1>7, <1>8 DEF SoundStruct, HasRem

\* The task of the methods goes on.
LEMMA MethodsAgain ==
  ASSUME NEW t, NEW n, NEW a, NEW c, t = [do |-> "methods", name |-> n, at |-> a, saved |-> c], NEW b
  PROVE  [t EXCEPT !.at = b] = [do |-> "methods", name |-> n, at |-> b, saved |-> c]
  OBVIOUS

\* The task goes on with the next method.
LEMMA NextMethodTask ==
  ASSUME NEW p \in SourceForms, WellDeclared(p), NEW S, NEW sy, NEW sy2, NEW cd, NEW cd2, NEW t,
         SoundTask(p, S, sy, cd, t), t.do = "methods", t.name \in Names, NEW i, i = t.at, i \in DOMAIN Methods(p, t.name),
         NEW sym, sym = Symbol(t.name, Methods(p, t.name)[i].name), sy2 = sy \cup {sym},
         NEW S2, S \subseteq S2,
         NEW t2, t2 = [do |-> "methods", name |-> t.name, at |-> i + 1, saved |-> t.saved]
  PROVE  SoundTask(p, S2, sy2, cd2, t2)
<1>1. /\ t.name \in S /\ Instantiable(p, "struct", t.name)
      /\ \A j \in DOMAIN Methods(p, t.name) : (j < i) <=> (Symbol(t.name, Methods(p, t.name)[j].name) \in sy)
  BY DEF SoundTask
<1>2. PICK k \in Nat : k = Len(Methods(p, t.name)) /\ DOMAIN Methods(p, t.name) = 1 .. k
  BY <1>1, MethodFacts
<1>3. i \in 1 .. k
  BY <1>2
<1>4. ASSUME NEW j \in 1 .. k PROVE (j < i + 1) <=> (Symbol(t.name, Methods(p, t.name)[j].name) \in sy2)
  <2>3. Symbol(t.name, Methods(p, t.name)[j].name) = sym <=> j = i
    <3>1. PICK a, b, n : a = Methods(p, t.name)[j].name /\ b = Methods(p, t.name)[i].name /\ n = t.name
      OBVIOUS
    <3>3. a = b <=> j = i
      <4>1. Template(p, "struct", t.name) \in p.templates /\ Template(p, "struct", t.name).kind = "struct"
        BY <1>1, TemplateFound
      <4> QED
        BY <1>2, <3>1, <4>1 DEF WellDeclared, Methods
    <3> QED
      BY <3>1, <3>3, SameSymbol
  <2> QED
    BY <2>3, <1>1, <1>2, <1>3
<1> QED
  BY <1>1, <1>2, <1>4, <1>3 DEF SoundTask, IsBody

\* Two tasks are pushed one after the other.
LEMMA PushTwo ==
  ASSUME NEW a, NEW b, NEW r, IsSeq(r)
  PROVE  <<a, b>> \o r = <<a>> \o (<<b>> \o r)
<1>1. PICK S : S = Tasks(r) \cup {a, b}
  OBVIOUS
<1>2. r \in Seq(S) /\ <<a>> \in Seq(S) /\ <<b>> \in Seq(S) /\ <<a, b>> = <<a>> \o <<b>>
  <2>1. Tasks(r) \subseteq S /\ a \in S /\ b \in S
    BY <1>1
  <2>2. r \in Seq(Tasks(r))
    BY DEF IsSeq
  <2>3. r \in Seq(S)
    BY ONLY <2>1, <2>2
  <2>4. <<a>> \in Seq(S) /\ <<b>> \in Seq(S)
    BY ONLY <2>1
  <2>5. <<a, b>> = <<a>> \o <<b>>
    <3>1. Append(<<a>>, b) \in Seq(S) /\ Len(Append(<<a>>, b)) = Len(<<a>>) + 1
          /\ (\A i \in 1 .. Len(<<a>>) : Append(<<a>>, b)[i] = <<a>>[i]) /\ Append(<<a>>, b)[Len(<<a>>) + 1] = b
      BY ONLY <2>1, <2>4, AppendProperties
    <3>2. Len(<<a>>) = 1 /\ <<a>>[1] = a
      OBVIOUS
    <3>3. PICK s : s = Append(<<a>>, b)
      OBVIOUS
    <3>4. PICK v : v = <<a, b>>
      OBVIOUS
    <3>5. s \in Seq(S) /\ Len(s) = 2 /\ s[1] = a /\ s[2] = b
      BY ONLY <3>1, <3>2, <3>3
    <3>6. v \in Seq(S) /\ Len(v) = 2 /\ v[1] = a /\ v[2] = b
      BY ONLY <2>1, <3>4
    <3>7. \A i \in 1 .. Len(s) : s[i] = v[i]
      BY ONLY <3>5, <3>6
    <3>8. s = v
      BY <3>5, <3>6, <3>7, SeqEqual
    <3>9. s = <<a>> \o <<b>>
      BY ONLY <2>1, <2>4, <3>3, AppendIsConcat
    <3> QED
      BY ONLY <3>4, <3>8, <3>9
  <2> QED
    BY <2>3, <2>4, <2>5
<1>3. (<<a>> \o <<b>>) \o r = <<a>> \o (<<b>> \o r)
  BY <1>2, ConcatAssociative
<1> QED
  BY ONLY <1>2, <1>3

\* What is generated for a method that is next in its struct.
MethodParts(t, r, i, m, sym, c, t2, u2) ==
  /\ t = Task /\ r = Later /\ i = t.at /\ m = Methods(source, t.name)[i] /\ i \in DOMAIN Methods(source, t.name)
  /\ sym = Symbol(t.name, m.name) /\ c = MethodContext(t.name, m, cx)
  /\ t2 = [do |-> "method", of |-> sym, at |-> 1, before |-> cx] /\ u2 = [t EXCEPT !.at = @ + 1]

\* What the step of a method changes.
MethodStep(t, r, i, m, sym, c, t2, u2) ==
  /\ symbols' = symbols \cup {sym} /\ cx' = c
  /\ structs' = [structs EXCEPT ![t.name].destructor = @ \/ (m.inline /\ m.name = "rem")]
  /\ code' = Extended(code, sym, IF sym \in DOMAIN code THEN Append(code[sym], Entry(c)) ELSE <<Entry(c)>>)
  /\ todo' = <<t2, u2>> \o r

\* InstantiateMethod is such a step.
LEMMA MethodSteps ==
  ASSUME Ready, InstantiateMethod
  PROVE  \E t, r, i, m, sym, c, t2, u2, d :
           /\ MethodParts(t, r, i, m, sym, c, t2, u2) /\ MethodStep(t, r, i, m, sym, c, t2, u2)
           /\ HeadState(source, structs, symbols, code, t, r, cx, d) /\ t.do = "methods"
           /\ Sized(t.name) /\ Asked = Declaration(source, sym).types /\ Missing = {} /\ source' = source
<1>1. /\ Doing("methods") /\ MethodDue /\ Missing = {} /\ source' = source
      /\ IF MethodSymbol \in symbols
         THEN /\ todo' = <<Again>> \o Later
              /\ UNCHANGED <<cx, structs, symbols, code>>
         ELSE /\ symbols' = symbols \cup {MethodSymbol}
              /\ structs' = [structs EXCEPT ![Task.name].destructor =
                                              @ \/ (NextMethod.inline /\ NextMethod.name = "rem")]
              /\ Start(MethodSymbol, MethodContext(Task.name, NextMethod, cx))
              /\ todo' = <<[do |-> "method", of |-> MethodSymbol, at |-> 1, before |-> cx], Again>> \o Later
  BY DEF InstantiateMethod
<1>2. todo # << >> /\ Task.do = "methods"
  BY <1>1 DEF Doing
<1>3. PICK t, r, d : t = Task /\ r = Later /\ HeadState(source, structs, symbols, code, t, r, cx, d)
  BY <1>2, ReadyHead
<1>4. PICK i, m : i = t.at /\ m = Methods(source, t.name)[i]
  OBVIOUS
<1>5. PICK sym : sym = Symbol(t.name, m.name)
  OBVIOUS
<1>6. Sized(t.name) /\ i \in DOMAIN Methods(source, t.name) /\ m = NextMethod /\ sym = MethodSymbol
  BY <1>1, <1>3, <1>4, <1>5 DEF MethodDue, NextMethod, MethodSymbol
<1>7. t.do = "methods"
  BY <1>2, <1>3
<1>8. sym \notin symbols /\ Declaration(source, sym) = m
  <2>0. HeadState(source, structs, symbols, code, t, r, cx, d)
    BY <1>3
  <2>1. IsNext(t, i, m, sym)
    BY <1>4, <1>5, <1>6 DEF IsNext
  <2> QED
    <3>1. sym \notin symbols
      BY ONLY Ready, <1>7, <2>0, <2>1, NextFacts
    <3>2. Declaration(source, sym) = m
      <4>1. PICK n, k : n = t.name /\ k = m.name
        OBVIOUS
      <4>2. source \in SourceForms /\ WellDeclared(source) /\ t.name \in Names /\ Instantiable(source, "struct", t.name)
        BY <1>7, <2>0, MethodsHead DEF Ready, WellWritten
      <4> QED
        BY <1>4, <1>5, <1>6, <4>2, MethodDeclared
    <3> QED
      BY <3>1, <3>2
<1>9. PICK c, t2, u2 : /\ c = MethodContext(t.name, m, cx) /\ u2 = [t EXCEPT !.at = @ + 1]
                       /\ t2 = [do |-> "method", of |-> sym, at |-> 1, before |-> cx]
  OBVIOUS
<1>10. MethodParts(t, r, i, m, sym, c, t2, u2)
  BY <1>3, <1>4, <1>5, <1>6, <1>9 DEF MethodParts
<1>11. MethodSymbol \notin symbols
  BY <1>6, <1>8
<1>12. MethodStep(t, r, i, m, sym, c, t2, u2)
  BY <1>1, <1>3, <1>6, <1>9, <1>11 DEF MethodStep, Start, Again
<1>13. Asked = Declaration(source, sym).types
  <2>1. Doing("methods") /\ MethodDue /\ MethodSymbol \notin symbols
    BY <1>1, <1>11
  <2>2. ~Doing("layout") /\ ~Doing("instance") /\ ~Standing({"local"})
    BY <1>2 DEF Doing, Standing, InBody
  <2>3. Asked = NextMethod.types
    BY ONLY <2>1, <2>2 DEF Asked
  <2> QED
    BY <1>6, <1>8, <2>3
<1> QED
  BY <1>1, <1>3, <1>6, <1>7, <1>10, <1>12, <1>13

\* A method of an instance is declared and its body starts.
LEMMA InstantiateMethodKeeps ==
  ASSUME Ready, refusals' = {}, InstantiateMethod
  PROVE  StillReady
<1>1. PICK t, r, i, m, sym, c, t2, u2, d :
         /\ MethodParts(t, r, i, m, sym, c, t2, u2) /\ MethodStep(t, r, i, m, sym, c, t2, u2)
         /\ HeadState(source, structs, symbols, code, t, r, cx, d) /\ t.do = "methods"
         /\ Sized(t.name) /\ Asked = Declaration(source, sym).types /\ Missing = {} /\ source' = source
  BY MethodSteps
<1>2. /\ i = t.at /\ m = Methods(source, t.name)[i] /\ i \in DOMAIN Methods(source, t.name)
      /\ sym = Symbol(t.name, m.name) /\ c = MethodContext(t.name, m, cx)
      /\ t2 = [do |-> "method", of |-> sym, at |-> 1, before |-> cx]
  BY <1>1 DEF MethodParts
<1>3. /\ symbols' = symbols \cup {sym} /\ cx' = c
      /\ structs' = [structs EXCEPT ![t.name].destructor = @ \/ (m.inline /\ m.name = "rem")]
      /\ todo' = <<t2, u2>> \o r
  BY <1>1 DEF MethodStep
<1>4. source \in SourceForms /\ WellWritten(source) /\ WellDeclared(source)
  BY DEF Ready, WellWritten
<1>5. /\ t = [do |-> "methods", name |-> t.name, at |-> t.at, saved |-> t.saved]
      /\ t.name \in DOMAIN structs /\ t.name \in Names /\ Len(t.name) > 1 /\ Instantiable(source, "struct", t.name)
      /\ IsContext(cx) /\ cx.unsafe \in Nat /\ IsContext(d) /\ d.unsafe \in Nat
      /\ Outside(cx, MeaningOf(source, TypeNode(t.name))) /\ Returns(cx, t.saved, d)
      /\ SoundStruct(source, structs, DOMAIN code, {t} \cup Tasks(r), t, t.name)
      /\ TypeNode(t.name) \in Needed(source)
  BY <1>1, MethodsHead
<1>6. /\ Declared(source, sym) /\ sym \in FunctionsOf(Needed(source)) /\ Declaration(source, sym) = m
      /\ sym.of = t.name /\ sym.method = m.name /\ m.name # "" /\ m.name # "type" /\ ~m.coroutine
      /\ sym \notin symbols /\ sym \notin DOMAIN code
      /\ MeaningOf(source, sym) = MeaningOf(source, TypeNode(t.name))
      /\ Brings(TypeNode(t.name), sym)
  <2>1. IsNext(t, i, m, sym)
    BY <1>2 DEF IsNext
  <2> QED
    BY ONLY Ready, <1>1, <2>1, NextFacts
<1>7. IsSeq(r) /\ AllApart(source, r) /\ TaskStep(source, t, r, cx, d) /\ \A x \in Tasks(r) : Apart(source, t, x)
  BY <1>1 DEF HeadState
<1>8. PICK u \in Nat : u = cx.unsafe
  BY <1>5
<1>9. c = Around(OwnContext(source, sym), sym, u)
  <2>1. PICK n : n = t.name
    OBVIOUS
  <2>2. StartsMethod(source, n, m, sym, cx, c)
    BY <1>2, <1>5, <1>6, <2>1 DEF StartsMethod
  <2>3. c = Around(OwnContext(source, sym), sym, cx.unsafe)
    BY ONLY <2>2, MethodStart
  <2> QED
    BY ONLY <1>8, <2>3
<1>10. /\ t2.do = "method" /\ t2.of = sym /\ t2.at = 1 /\ t2.before = cx
       /\ t2 = [do |-> "method", of |-> t2.of, at |-> t2.at, before |-> t2.before]
  BY <1>2
<1>11. Starts(t2, sym, u)
  BY <1>6, <1>8, <1>10 DEF Starts, IsBody
<1>12. c = FrameOf(source, t2) /\ CodeUpTo(source, sym, 1, u) = <<Entry(c)>> /\ IsContext(c) /\ c.unsafe = u
  <2>1. t2.of = sym /\ t2.at = 1 /\ t2.before.unsafe = u /\ Declared(source, sym)
    BY <1>6, <1>8, <1>10
  <2> QED
    BY ONLY <1>4, <1>9, <2>1, u \in Nat, StartFrame
<1>13. Started(source, code, code', sym, u)
  BY <1>6, <1>12, <1>1 DEF Started, Extended, MethodStep
<1>14. u2 = [do |-> "methods", name |-> t.name, at |-> i + 1, saved |-> t.saved]
  <2>2. PICK n, a, s, b : n = t.name /\ a = t.at /\ s = t.saved /\ b = a + 1
    OBVIOUS
  <2>3. u2 = [t EXCEPT !.at = b]
    BY <2>2, <1>1 DEF MethodParts
  <2>4. t = [do |-> "methods", name |-> n, at |-> a, saved |-> s]
    BY <1>5, <2>2
  <2>5. u2 = [do |-> "methods", name |-> n, at |-> b, saved |-> s]
    BY ONLY <2>3, <2>4, MethodsAgain
  <2> QED
    BY ONLY <1>2, <2>2, <2>5
<1>15. u2.do = "methods" /\ u2.name = t.name /\ u2.saved = t.saved
  BY <1>14
<1> DEFINE r2 == <<u2>> \o r
           T == {t} \cup Tasks(r)
           T2 == {t2} \cup ({u2} \cup Tasks(r))
<1>16. IsSeq(r2) /\ Tasks(r2) = {u2} \cup Tasks(r) /\ r2 # << >> /\ Head(r2) = u2 /\ todo' = <<t2>> \o r2
  <2>1. IsSeq(r2) /\ r2 # << >> /\ Head(r2) = u2
    BY <1>7, Pushed
  <2> QED
    BY <1>3, <2>1, <1>7, PushTwo, PushedTasks
<1>17. SoundState(source, structs, symbols, code, T, t)
  BY <1>1 DEF HeadState
<1>18. ~IsBody(t) /\ T \subseteq T2 \cup {t}
  BY <1>1 DEF IsBody
<1>19. DOMAIN code' = DOMAIN code \cup {sym} /\ DOMAIN structs' = DOMAIN structs
  BY <1>3, <1>13 DEF Started
<1>20. \A n \in DOMAIN structs' : SoundStruct(source, structs', DOMAIN code', T2, t2, n)
  <2> SUFFICES ASSUME NEW n \in DOMAIN structs PROVE SoundStruct(source, structs', DOMAIN code', T2, t2, n)
    BY <1>19
  <2>2. PICK D, D2, st, st2 : D = DOMAIN code /\ D2 = DOMAIN code' /\ st = structs /\ st2 = structs'
    OBVIOUS
  <2>3. D \subseteq D2 /\ DOMAIN st \subseteq DOMAIN st2 /\ SoundStruct(source, st, D, T, t, n)
    BY <1>19, <2>2, <1>17 DEF SoundState
  <2>4. CASE n # t.name
    <3>1. st2[n] = st[n] /\ (t.do \notin {"layout", "methods"} \/ t.name # n)
      BY <1>3, <2>2, <2>4
    <3> HIDE DEF T, T2, r2
    <3>2. SoundStruct(source, st2, D2, T2, t2, n)
      BY ONLY <1>18, <2>3, <3>1, StructAway
    <3> QED
      BY ONLY <2>2, <3>2
  <2>5. CASE n = t.name
    <3>1. PICK b : b = (st[n].destructor \/ (m.inline /\ m.name = "rem"))
      OBVIOUS
    <3>2. st2[n] = [st[n] EXCEPT !.destructor = b]
      BY <1>3, <1>5, <2>2, <2>5, <3>1
    <3>3. b <=> st[n].destructor \/ (m.inline /\ m.name = "rem")
      BY <3>1
    <3>4. st[n].layout = "done"
      BY <1>1, <2>2, <2>5 DEF Sized
    <3>5. \E x \in T2 : IsMethods(x, n)
      BY <1>15, <2>5 DEF IsMethods
    <3>6. /\ Instantiable(source, "struct", n) /\ i \in DOMAIN Methods(source, n) /\ m = Methods(source, n)[i]
          /\ (IsMethods(t, n) => t.at = i)
      BY <1>2, <1>5, <2>5
    <3> HIDE DEF T, T2, r2
    <3>7. SoundStruct(source, st2, D2, T2, t2, n)
      BY ONLY <1>4, <2>3, <3>2, <3>3, <3>4, <3>5, <3>6, MethodStruct
    <3> QED
      BY ONLY <2>2, <3>7
  <2> QED
    BY <2>4, <2>5
<1>21. SoundSymbols(source, symbols', DOMAIN code', T2)
  <2>2. t.do # "generate"
    BY <1>1
  <2>3. PICK D, D2 : D = DOMAIN code /\ D2 = DOMAIN code'
    OBVIOUS
  <2>4. D2 = D \cup {sym} /\ SoundSymbols(source, symbols, D, T)
    BY <1>19, <2>3, <1>17 DEF SoundState
  <2> HIDE DEF T, T2, r2
  <2>5. SoundSymbols(source, symbols \cup {sym}, D2, T2)
    BY ONLY <1>18, <2>2, <2>4, SymbolsNew
  <2> QED
    BY <1>3, <2>3, <2>5
<1>22. ASSUME NEW x \in Tasks(r) PROVE SoundTask(source, DOMAIN structs', symbols', code', x) /\ InsideOf(Needed(source), x)
  <2>1. x.do = "generate" => sym # Function(x.name)
    <3>1. PICK n : n = x.name
      OBVIOUS
    <3>2. Function(n).method = ""
      BY ONLY SymbolParts
    <3> QED
      BY <1>6, <3>1, <3>2
  <2>2. x.do = "methods" => sym.method = "" \/ sym.of # x.name
    BY <1>1, <1>6, <1>7 DEF Apart
  <2>3. x.do = "instance" => Function(x.name) \notin symbols'
    <3>3. PICK n : n = x.name
      OBVIOUS
    <3>4. Function(n).method = ""
      BY ONLY SymbolParts
    <3> QED
      BY <1>3, <1>6, <3>3, <3>4, <1>17 DEF SoundTask, SoundState
  <2>4. PICK w, y, y2, k, k2, st, st2 :
          w = u /\ y = symbols /\ y2 = symbols' /\ k = code /\ k2 = code' /\ st = structs /\ st2 = structs'
    OBVIOUS
  <2>5. x.do = "instance" => Function(x.name) \notin y2
    BY <2>3, <2>4
  <2>6. /\ Started(source, k, k2, sym, w) /\ SoundState(source, st, y, k, T, t) /\ x \in T
        /\ y \subseteq y2 /\ y2 \subseteq y \cup {sym} /\ DOMAIN st \subseteq DOMAIN st2
    BY <1>3, <1>13, <1>17, <1>19, <2>4
  <2> HIDE DEF T, T2, r2
  <2>7. SoundTask(source, DOMAIN st2, y2, k2, x) /\ InsideOf(Needed(source), x)
    BY ONLY <1>4, <2>1, <2>2, <2>5, <2>6, TaskWaits
  <2> QED
    BY ONLY <2>4, <2>7
<1>23. SoundTask(source, DOMAIN structs', symbols', code', u2) /\ InsideOf(Needed(source), u2)
  <2>2. PICK S, S2, y2, k2 : S = DOMAIN structs /\ S2 = DOMAIN structs' /\ y2 = symbols' /\ k2 = code'
    OBVIOUS
  <2>3. /\ SoundTask(source, S, symbols, code, t) /\ S \subseteq S2 /\ y2 = symbols \cup {sym}
        /\ sym = Symbol(t.name, Methods(source, t.name)[i].name)
    BY <1>2, <1>3, <1>19, <2>2, <1>1 DEF HeadState
  <2>4. t.do = "methods" /\ t.name \in Names /\ i = t.at /\ i \in DOMAIN Methods(source, t.name)
    BY <1>1, <1>2, <1>5
  <2> HIDE DEF T, T2, r2
  <2>5. SoundTask(source, S2, y2, k2, u2)
    BY ONLY <1>4, <1>14, <2>3, <2>4, NextMethodTask
  <2> QED
    BY <2>2, <2>5, <1>5, <1>15 DEF InsideOf, IsBody
<1>24. \A x \in SignatureNodes(source, sym) : x.of \in DOMAIN structs'
  <2> HIDE DEF T, T2, r2
  <2> QED
    BY <1>19, <1>1, <1>6, <1>17, SignatureKnown, <1>5 DEF Outside
<1>25. u # 0 => UnsafeTask(source, T)
  BY <1>7, <1>8 DEF TaskStep
<1>26. SoundState(source, structs', symbols', code', T2, t2)
  <2>1. t2 \in T2
    OBVIOUS
  <2>2. \A x \in T2 : x = t2 \/ (SoundTask(source, DOMAIN structs', symbols', code', x) /\ InsideOf(Needed(source), x))
    BY <1>22, <1>23
  <2>3. DOMAIN structs \subseteq DOMAIN structs' /\ symbols \subseteq symbols' /\ Homed(DOMAIN structs', sym)
    BY <1>3, <1>5, <1>6, <1>19 DEF Homed
  <2> HIDE DEF T, T2, r2
  <2> QED
    BY ONLY <1>4, <1>6, <1>11, <1>13, <1>17, <1>18, <1>20, <1>21, <1>24, <1>25, <2>1, <2>2, <2>3, u \in Nat, StateStarted
<1>27. AllApart(source, r2) /\ \A x \in Tasks(r2) : Apart(source, t2, x)
  <2>2. AllApart(source, r2)
    BY <1>7, ApartPushed, <1>1, <1>15, <1>18, ApartSame
  <2>4. ASSUME NEW x \in Tasks(r) PROVE Apart(source, t2, x)
    <3>3. ASSUME x.do = "instance" PROVE InsideOf(Reached(source, SignatureNodes(source, Function(x.name))), t2)
      <4>1. PICK N : N = Reached(source, SignatureNodes(source, Function(x.name))) /\ ClosedUnder(source, N)
        BY <1>4, <1>17, <3>3, InstanceAround
      <4> QED
        BY <4>1, <1>10, <1>1, <1>6, <1>7, <3>3 DEF InsideOf, Brings, Apart
    <3> QED
      BY <1>10, <3>3, <1>6, <1>17 DEF Apart, SoundState, SoundTask
  <2> QED
    BY <1>16, <2>2, <2>4, <1>10, <1>15 DEF Apart, IsBody
<1>28. Planned(source, r2, cx)
  <2>1. Joined(u2, r)
    BY <1>15 DEF Joined, Link, Saves
  <2> QED
    BY <1>7, PlanPushed, <2>1, <1>8, <1>18, <1>25, <1>5, <1>15 DEF TaskStep, UnsafeTask, IsUnsafe, Follows,
       IsBody
<1>29. TaskStep(source, t2, r2, c, cx)
  <2>3. Follows(source, t2, c, cx)
    BY <1>5, <1>6, <1>10, <1>12 DEF Follows, IsBody, Alike
  <2>4. c.unsafe # 0 => UnsafeTask(source, {t2} \cup Tasks(r2))
    BY <1>12, <1>16, <1>18, <1>25 DEF UnsafeTask, IsUnsafe
  <2> HIDE DEF r2, T, T2
  <2> QED
    BY <1>28, <2>3, <2>4, <1>10, <1>15, <1>16 DEF TaskStep, Joined, Link, Exact
<1>30. IState(source, structs', symbols', code', <<t2>> \o r2, c)
  <2>1. SoundState(source, structs', symbols', code', {t2} \cup Tasks(r2), t2)
    BY <1>16, <1>26
  <2> HIDE DEF T, T2, r2
  <2> QED
    BY <1>16, <1>27, <1>29, <2>1, StateOfPushed
<1> QED
  BY <1>1, <1>3, <1>16, <1>30 DEF StillReady

\* The parts of a type.
LEMMA NodeParts ==
  ASSUME NEW n
  PROVE  TypeNode(n).of = n /\ TypeNode(n).method = "type"
  BY ONLY SymbolParts, ZenonT(40) DEF TypeNode

\* What is asked for, in each of the steps that ask.
AsksField(type) == Task.do = "layout" /\ Task.at \in DOMAIN Fields /\ type = Field

\* The signature of the next method asks for a type.
AsksMethod(type, i) ==
  /\ Task.do = "methods" /\ MethodDue /\ MethodSymbol \notin symbols
  /\ i \in DOMAIN NextMethod.types /\ type = NextMethod.types[i]

\* The signature of an instance of a function asks for a type.
AsksInstance(type, i) ==
  LET types == Template(source, "function", Task.name).types
  IN Task.do = "instance" /\ i \in DOMAIN types /\ type = types[i]

\* A local asks for its type.
AsksLocal(type) == Standing({"local"}) /\ type = Stmt.type

\* Nothing else asks for a type.
LEMMA AskedIs ==
  ASSUME NEW i \in DOMAIN Asked
  PROVE  AsksField(Asked[i]) \/ AsksMethod(Asked[i], i) \/ AsksInstance(Asked[i], i) \/ AsksLocal(Asked[i])
<1>1. CASE Doing("layout") /\ Task.at \in DOMAIN Fields
  <2>1. Asked = <<Field>>
    BY ONLY <1>1 DEF Asked, Doing, Standing, InBody
  <2> QED
    BY <1>1, <2>1 DEF AsksField, Doing
<1>2. CASE Doing("methods") /\ MethodDue /\ MethodSymbol \notin symbols
  <2>0. ~Doing("layout") /\ ~Doing("instance") /\ ~Standing({"local"})
    BY <1>2 DEF Doing, Standing, InBody
  <2>1. Asked = NextMethod.types
    BY ONLY <1>2, <2>0 DEF Asked
  <2> QED
    BY <1>2, <2>1 DEF AsksMethod, Doing
<1>3. CASE Doing("instance")
  <2>0. ~Doing("layout") /\ ~Doing("methods") /\ ~Standing({"local"})
    BY <1>3 DEF Doing, Standing, InBody
  <2>1. Asked = Template(source, "function", Task.name).types
    BY ONLY <1>3, <2>0 DEF Asked
  <2> QED
    BY <1>3, <2>1 DEF AsksInstance, Doing
<1>4. CASE Standing({"local"})
  <2>0. ~Doing("layout") /\ ~Doing("methods") /\ ~Doing("instance")
    BY <1>4 DEF Doing, Standing, InBody
  <2>1. Asked = <<Stmt.type>>
    BY ONLY <1>4, <2>0 DEF Asked
  <2> QED
    BY <1>4, <2>1 DEF AsksLocal
<1>5. CASE /\ ~(Doing("layout") /\ Task.at \in DOMAIN Fields) /\ ~(Doing("methods") /\ MethodDue /\ MethodSymbol \notin symbols)
           /\ ~Doing("instance") /\ ~Standing({"local"})
  <2>1. Asked = << >>
    BY ONLY <1>5 DEF Asked
  <2> QED
    BY <2>1
<1> QED
  BY <1>1, <1>2, <1>3, <1>4, <1>5

\* A struct that is missing is needed by whatever needs the task that asks.
Wants(t, n) == n \in Names /\ \A N : ClosedUnder(source, N) /\ InsideOf(N, t) => TypeNode(n) \in N

\* A type is written that names an instance nobody has made.
Lacks(type, n) ==
  n = Resolved(cx.meaning, type.name) /\ ~type.ptr /\ ~Known(n) /\ Instantiable(source, "struct", n)

\* A task is on top of the stack.
AtHead(t, r, d) ==
  t = Task /\ r = Later /\ todo # << >> /\ HeadState(source, structs, symbols, code, t, r, cx, d)

\* An instance is not built in.
LEMMA NotBuiltIn ==
  ASSUME NEW n, Len(n) > 1
  PROVE  n \notin BuiltIn
<1> SUFFICES ASSUME n \in BuiltIn PROVE FALSE
  OBVIOUS
<1>1. Len(n) = 1
  BY GenericAssumption
<1>2. ~(Len(n) > 1)
  BY ONLY <1>1
<1> QED
  BY <1>2

\* A field asks for what its struct needs.
LEMMA WantsField ==
  ASSUME Ready, NEW t, NEW r, NEW d, AtHead(t, r, d), NEW type, NEW n, AsksField(type), Lacks(type, n)
  PROVE  Wants(t, n)
<1>1. t = Task /\ r = Later /\ todo # << >> /\ HeadState(source, structs, symbols, code, t, r, cx, d)
      /\ t.do = "layout" /\ t.at \in DOMAIN Fields /\ type = Field
  BY DEF AtHead, AsksField
<1>2. n = Resolved(cx.meaning, type.name) /\ ~type.ptr /\ ~Known(n) /\ Instantiable(source, "struct", n)
  BY DEF Lacks
<1>3. /\ t.at \in DOMAIN FieldsOf(source, t.name) /\ Field = FieldsOf(source, t.name)[t.at]
      /\ FieldType = Closed(MeaningOf(source, TypeNode(t.name)), Field.name)
      /\ FieldType \in Names
  BY <1>1, FieldTypeFacts
<1>4. n = FieldType
  BY <1>1, <1>2 DEF FieldType
<1>6. n \notin BuiltIn
  BY <1>2, TemplateFound, NotBuiltIn
<1>7. TypeNode(n) \in FieldNodes(source, t.name)
  BY <1>1, <1>2, <1>3, <1>4, <1>6, StructKnown, FieldNode, LayoutFacts
<1> QED
  BY <1>3, <1>4, <1>7, NodeParts, <1>1 DEF Wants, ClosedUnder, Needs, InsideOf

\* A type of a signature.
LEMMA WantsSignature ==
  ASSUME Ready, NEW f, Declared(source, f), cx.meaning = MeaningOf(source, f),
         NEW types, types = Declaration(source, f).types, NEW i \in DOMAIN types,
         NEW type, type = types[i], NEW n, Lacks(type, n)
  PROVE  n \in Names /\ TypeNode(n) \in SignatureNodes(source, f)
<1>1. n = Resolved(cx.meaning, type.name) /\ ~type.ptr /\ ~Known(n) /\ Instantiable(source, "struct", n)
  BY DEF Lacks
<1>7. \A k : TypeNode(n) = TypeNode(k) => n = k
  BY DEF TypeNode, Symbol
<1> QED
  BY <1>7, <1>1, WrittenNames, TemplateFound, NotBuiltIn DEF SignatureNodes, TypeNodes, WrittenTypes, Ready

\* A function needs the types of its signature.
LEMMA SignatureNeeds ==
  ASSUME NEW p, NEW f, f.method # "type", NEW N, ClosedUnder(p, N), f \in N, NEW x \in SignatureNodes(p, f)
  PROVE  x \in N
  BY DEF ClosedUnder, Needs

\* A method asks for what its instance needs.
LEMMA WantsMethod ==
  ASSUME Ready, NEW t, NEW r, NEW d, AtHead(t, r, d), NEW type, NEW n, NEW i, AsksMethod(type, i), Lacks(type, n)
  PROVE  Wants(t, n)
<1>1. t = Task /\ HeadState(source, structs, symbols, code, t, r, cx, d) /\ t.do = "methods"
      /\ MethodDue /\ i \in DOMAIN NextMethod.types /\ type = NextMethod.types[i]
  BY DEF AtHead, AsksMethod
<1>2. PICK k, m, sym : k = t.at /\ m = Methods(source, t.name)[k] /\ sym = Symbol(t.name, m.name)
  OBVIOUS
<1>3. IsNext(t, k, m, sym) /\ m = NextMethod
  BY <1>1, <1>2 DEF IsNext, MethodDue, NextMethod
<1>4. /\ Declared(source, sym) /\ Declaration(source, sym) = m /\ sym.method # "type"
      /\ MeaningOf(source, sym) = MeaningOf(source, TypeNode(t.name)) /\ Brings(TypeNode(t.name), sym)
  <2>1. /\ Declared(source, sym) /\ sym \in FunctionsOf(Needed(source)) /\ Declaration(source, sym) = m
        /\ sym.of = t.name /\ sym.method = m.name /\ m.name # "" /\ m.name # "type" /\ ~m.coroutine
        /\ sym \notin symbols /\ sym \notin DOMAIN code
        /\ MeaningOf(source, sym) = MeaningOf(source, TypeNode(t.name))
        /\ Brings(TypeNode(t.name), sym)
    <3>1. HeadState(source, structs, symbols, code, t, r, cx, d) /\ t.do = "methods"
      BY <1>1
    <3>2. IsNext(t, k, m, sym)
      BY <1>3
    <3> QED
      BY ONLY Ready, <3>1, <3>2, NextFacts
  <2> QED
    BY <2>1
<1>6. n \in Names /\ TypeNode(n) \in SignatureNodes(source, sym)
  <2>1. PICK types : types = Declaration(source, sym).types
    OBVIOUS
  <2> QED
    BY <1>4, <2>1, WantsSignature, <1>1, <1>3, MethodsHead DEF Outside
<1> QED
  BY <1>6, <1>4, SignatureNeeds, <1>1 DEF Wants, InsideOf, Brings

\* An instance of a function asks for the types of its signature.
LEMMA WantsInstance ==
  ASSUME Ready, NEW t, NEW r, NEW d, AtHead(t, r, d), NEW type, NEW n, NEW i, AsksInstance(type, i), Lacks(type, n)
  PROVE  Wants(t, n) /\ TypeNode(n) \in SignatureNodes(source, Function(t.name))
<1>1. t = Task /\ HeadState(source, structs, symbols, code, t, r, cx, d) /\ t.do = "instance"
  BY DEF AtHead, AsksInstance
<1>2. PICK name, f : name = t.name /\ f = Function(name)
  OBVIOUS
<1>3. f.of = name /\ f.method = ""
  BY <1>2, SymbolParts
<1>4. /\ Instantiable(source, "function", name) /\ f \in Needed(source) /\ cx.meaning = MeaningOf(source, f)
  BY <1>1, <1>2 DEF HeadState, SoundTask, InsideOf, TaskStep, Follows, Outside
<1>9. n \in Names /\ TypeNode(n) \in SignatureNodes(source, f)
  <2>1. PICK types : types = Declaration(source, f).types
    OBVIOUS
  <2> QED
    BY <1>4, <2>1, WantsSignature, <1>1, <1>2, <1>3, TemplateFound, NeededFacts DEF AsksInstance,
       Declaration, GoodNode, Ready
<1> QED
  BY <1>2, <1>9, <1>3, SignatureNeeds, <1>1 DEF Wants, InsideOf

\* A local asks for what its function needs.
LEMMA WantsLocal ==
  ASSUME Ready, NEW t, NEW r, NEW d, AtHead(t, r, d), NEW type, NEW n, AsksLocal(type), Lacks(type, n)
  PROVE  Wants(t, n)
<1>2. n = Resolved(cx.meaning, type.name) /\ ~type.ptr /\ ~Known(n) /\ Instantiable(source, "struct", n)
  BY DEF Lacks
<1>4. PICK f, k : f = t.of /\ k = t.at
  OBVIOUS
<1>5. /\ IsBody(t) /\ k \in DOMAIN BodyOf(source, f) /\ type = BodyOf(source, f)[k].type
      /\ BodyOf(source, f)[k].s = "local" /\ Declared(source, f) /\ cx.meaning = MeaningOf(source, f)
  BY <1>4, StandingFacts DEF AtHead, AsksLocal
<1>6. source \in SourceForms /\ WellWritten(source) /\ WellDeclared(source)
  BY DEF Ready, WellWritten
<1>8. n = Closed(MeaningOf(source, f), type.name) /\ n \in Names
  BY <1>2, <1>5, <1>6, WrittenNames, LocalTypes
<1>10. TypeNode(n) \in LocalNodes(source, f)
  BY <1>2, <1>5, <1>6, <1>8, LocalNode, TemplateFound, NotBuiltIn
<1> QED
  BY <1>8, <1>10, <1>4, <1>5 DEF Wants, ClosedUnder, Needs, InsideOf, Declared

\* Whatever is missing is needed by the task on top.
LEMMA AskedNeeded ==
  ASSUME Ready, NEW t, NEW r, NEW d, AtHead(t, r, d), NEW i \in Missing, NEW n, n = Resolved(cx.meaning, Asked[i].name)
  PROVE  /\ Wants(t, n) /\ Lacks(Asked[i], n)
         /\ t.do = "instance" => TypeNode(n) \in SignatureNodes(source, Function(t.name))
         /\ t.do = "layout" => t.at \in DOMAIN Fields
         /\ t.do = "methods" => MethodDue /\ DOMAIN NextMethod.types # {}
         /\ t.do \notin {"declare", "generate"}
<1>1. i \in DOMAIN Asked /\ Unmade(Asked[i])
  BY DEF Missing
<1>2. PICK type : type = Asked[i]
  OBVIOUS
<1>3. Lacks(type, n)
  BY <1>1, <1>2 DEF Unmade, Lacks
<1>4. AsksField(type) \/ AsksMethod(type, i) \/ AsksInstance(type, i) \/ AsksLocal(type)
  BY <1>1, <1>2, AskedIs
<1>5. Wants(t, n) /\ (AsksInstance(type, i) => TypeNode(n) \in SignatureNodes(source, Function(t.name)))
  BY <1>3, <1>4, WantsField, WantsMethod, WantsInstance, WantsLocal
<1> QED
  BY <1>2, <1>3, <1>5, <1>4 DEF AsksField, AsksMethod, AsksLocal, Standing, InBody, AsksInstance, AtHead

\* What the request for an instance of a struct puts before the rest.
StructParts(n, e, tm, h2) ==
  /\ e = FreshWith(cx, Meaning(Template(source, "struct", n), n)) /\ h2 = Layout(n)
  /\ tm = [do |-> "methods", name |-> n, at |-> 1, saved |-> cx]

\* What the step of an instance of a struct changes.
StructStep(n, e, tm, h2) ==
  /\ structs' = Extended(structs, n, [layout |-> "pending", fields |-> Template(source, "struct", n).fields,
                                      bad |-> FALSE, destructor |-> FALSE])
  /\ cx' = e /\ todo' = <<h2, tm>> \o todo
  /\ UNCHANGED <<source, symbols, code>>
\* What there is to say of the task that asks.
Asking(t, n) ==
  /\ Wants(t, n) /\ ~Known(n) /\ Instantiable(source, "struct", n)
  /\ t.do = "instance" => TypeNode(n) \in SignatureNodes(source, Function(t.name))
  /\ t.do = "layout" => t.at \in DOMAIN Fields
  /\ t.do = "methods" => MethodDue /\ DOMAIN NextMethod.types # {}
  /\ t.do \notin {"declare", "generate"}

\* InstantiateStruct is such a step.
LEMMA StructSteps ==
  ASSUME Ready, InstantiateStruct
  PROVE  \E t, r, d, n, e, tm, h2 :
           AtHead(t, r, d) /\ Asking(t, n) /\ StructParts(n, e, tm, h2) /\ StructStep(n, e, tm, h2)
<1>1. PICK i \in Missing :
        LET n == Resolved(cx.meaning, Asked[i].name)
            t == Template(source, "struct", n)
        IN /\ \A j \in Missing : i <= j
           /\ structs' = Extended(structs, n, [layout |-> "pending", fields |-> t.fields,
                                               bad |-> FALSE, destructor |-> FALSE])
           /\ cx' = [Fresh(cx) EXCEPT !.meaning = Meaning(t, n)]
           /\ todo' = <<Layout(n), [do |-> "methods", name |-> n, at |-> 1, saved |-> cx]>> \o todo
  BY DEF InstantiateStruct
<1>3. PICK n : n = Resolved(cx.meaning, Asked[i].name)
  OBVIOUS
<1>4. PICK e, tm, h2 : StructParts(n, e, tm, h2)
  BY DEF StructParts
<1>6. todo # << >>
  BY DEF Asked, Doing, Standing, InBody, Missing
<1>7. PICK t, r, d : t = Task /\ r = Later /\ HeadState(source, structs, symbols, code, t, r, cx, d)
  BY <1>6, ReadyHead
<1>8. AtHead(t, r, d)
  BY <1>6, <1>7 DEF AtHead
<1>9. Asking(t, n)
  <2>1. /\ Wants(t, n) /\ Lacks(Asked[i], n)
        /\ t.do = "instance" => TypeNode(n) \in SignatureNodes(source, Function(t.name))
        /\ t.do = "layout" => t.at \in DOMAIN Fields
        /\ t.do = "methods" => MethodDue /\ DOMAIN NextMethod.types # {}
        /\ t.do \notin {"declare", "generate"}
    BY ONLY Ready, <1>3, <1>8, AskedNeeded
  <2> QED
    BY <2>1 DEF Asking, Lacks
<1> QED
  BY <1>4, <1>8, <1>9, <1>1, <1>3 DEF StructStep, StructParts, FreshWith, InstantiateStruct

\* No method of a struct that is not there has been generated.
LEMMA NoMethodYet ==
  ASSUME NEW p \in SourceForms, WellDeclared(p), NEW st, NEW sy, NEW cd, NEW T, NEW h,
         SoundState(p, st, sy, cd, T, h), NEW n, n \notin DOMAIN st, Instantiable(p, "struct", n),
         n \in Names, NEW i \in DOMAIN Methods(p, n)
  PROVE  Symbol(n, Methods(p, n)[i].name) \notin sy
<1>1. PICK k, f : k = Methods(p, n)[i].name /\ f = Symbol(n, k)
  OBVIOUS
<1>2. k # ""
  BY <1>1, MethodDeclared
<1>3. f.of = n /\ f.method = k
  <2>1. Symbol(n, k).of = n /\ Symbol(n, k).method = k
    BY ONLY SymbolParts
  <2> QED
    BY ONLY <1>1, <2>1
<1>4. f \notin DOMAIN cd
  BY <1>2, <1>3 DEF SoundState, SoundCode
<1> QED
  BY <1>1, <1>2, <1>3, <1>4 DEF SoundState, SoundSymbols

\* The destructor is declared before a struct's methods ask for anything.
LEMMA AsksLater ==
  ASSUME Ready, NEW t, NEW r, NEW d, AtHead(t, r, d), t.do = "methods", MethodDue, DOMAIN NextMethod.types # {}, t.at = 1
  PROVE  ~HasRem(source, t.name)
<1> SUFFICES ASSUME HasRem(source, t.name) PROVE FALSE
  OBVIOUS
<1>3. PICK i \in DOMAIN Methods(source, t.name) :
        Methods(source, t.name)[i].name = "rem" /\ Methods(source, t.name)[i].inline
  BY DEF HasRem
<1> QED
  BY <1>3, TemplateFound DEF NextMethod, Ready, WellWritten, DestroysFirst, Methods, HasRem, AtHead

\* The struct that is asked for.
LEMMA StructNew ==
  ASSUME NEW p \in SourceForms, WellWritten(p), NEW n \in Names, Instantiable(p, "struct", n),
         TypeNode(n) \in Needed(p), NEW st2, NEW D, NEW T2, NEW h2 \in T2, h2 = Layout(n),
         st2[n] = [layout |-> "pending", fields |-> Template(p, "struct", n).fields, bad |-> FALSE, destructor |-> FALSE],
         \E t \in T2 : IsMethods(t, n)
  PROVE  SoundStruct(p, st2, D, T2, h2, n)
<1>5. st2[n].layout = "pending" /\ st2[n].destructor = FALSE
  OBVIOUS
<1> QED
  BY <1>5, FieldFacts, Longer, TemplateFound DEF SoundStruct, DeclaredStruct

\* The parts of a task that lays out a struct.
LEMMA LayoutParts ==
  ASSUME NEW n, NEW h, h = Layout(n)
  PROVE  h.do = "layout" /\ h.name = n /\ h.at = 0 /\ h = [do |-> "layout", name |-> h.name, at |-> h.at]
  BY DEF Layout

\* The task that lays out a new struct is sound.
LEMMA LayoutTask ==
  ASSUME NEW p \in SourceForms, WellWritten(p), NEW n, DeclaredStruct(p, n), NEW S, n \in S, NEW sy, NEW cd,
         NEW h, h = Layout(n)
  PROVE  SoundTask(p, S, sy, cd, h)
<1>1. h.do = "layout" /\ h.name = n /\ h.at = 0 /\ h = [do |-> "layout", name |-> h.name, at |-> h.at]
  BY LayoutParts
<1>3. PICK l \in Nat : l = Len(FieldsOf(p, n)) /\ DOMAIN FieldsOf(p, n) = 1 .. l
  BY LenProperties, FieldFacts
<1> QED
  BY <1>1, <1>3 DEF SoundTask, IsBody

\* The task of the methods of a new instance is sound.
LEMMA MethodsTask ==
  ASSUME NEW p \in SourceForms, WellDeclared(p), NEW st, NEW sy, NEW cd, NEW T, NEW h,
         SoundState(p, st, sy, cd, T, h), NEW n, n \notin DOMAIN st, Instantiable(p, "struct", n), n \in Names,
         NEW S, n \in S, NEW c, NEW tm, tm = [do |-> "methods", name |-> n, at |-> 1, saved |-> c]
  PROVE  SoundTask(p, S, sy, cd, tm)
<1> QED
  BY NoMethodYet, MethodFacts DEF SoundTask, IsBody

\* Whatever asks for it, an instance of a struct is declared in the middle of it.
LEMMA InstantiateStructKeeps ==
  ASSUME Ready, refusals' = {}, InstantiateStruct
  PROVE  StillReady
<1>1. PICK t, r, d, n, e, tm, h2 :
         AtHead(t, r, d) /\ Asking(t, n) /\ StructParts(n, e, tm, h2) /\ StructStep(n, e, tm, h2)
  BY StructSteps
<1>2. t = Task /\ r = Later /\ todo # << >> /\ HeadState(source, structs, symbols, code, t, r, cx, d)
  BY <1>1 DEF AtHead
<1>3. source \in SourceForms /\ WellWritten(source) /\ WellDeclared(source)
  BY DEF Ready, WellWritten
<1>4. /\ n \in Names /\ n \notin DOMAIN structs /\ Instantiable(source, "struct", n)
      /\ (\A N : ClosedUnder(source, N) /\ InsideOf(N, t) => TypeNode(n) \in N)
      /\ (t.do = "instance" => TypeNode(n) \in SignatureNodes(source, Function(t.name)))
      /\ t.do \notin {"declare", "generate"}
  BY <1>1 DEF Asking, Wants, Known
<1>5. Len(n) > 1 /\ Len(n) # 1
  BY <1>4, Longer, TemplateFound
<1>7. /\ IsSeq(todo) /\ AllApart(source, todo) /\ Planned(source, todo, cx)
      /\ Tasks(todo) = {t} \cup Tasks(r) /\ Head(todo) = t
      /\ SoundState(source, structs, symbols, code, Tasks(todo), t)
      /\ (cx.unsafe # 0 => UnsafeTask(source, Tasks(todo)))
  BY <1>2, ReadyPushed
<1>8. Follows(source, t, cx, d) /\ \A x \in Tasks(r) : Apart(source, t, x)
  BY <1>2 DEF HeadState, TaskStep
<1>9. IsContext(cx) /\ cx.unsafe \in Nat
  BY <1>8 DEF Follows
<1>10. PICK m : m = Meaning(Template(source, "struct", n), n)
  OBVIOUS
<1>11. e = FreshWith(cx, m)
  BY <1>1, <1>10 DEF StructParts
<1>12. /\ IsContext(e) /\ e.unsafe = cx.unsafe /\ e.module = cx.module /\ e.meaning = m /\ e.loop = 0
       /\ ~e.deferring /\ ~e.main /\ e.coro = NoSymbol /\ e.locals = << >>
  BY ONLY <1>9, <1>11, FreshFacts
<1>13. m = MeaningOf(source, TypeNode(n))
  <2>1. "type" # ""
    OBVIOUS
  <2>2. MeaningOf(source, Symbol(n, "type")) = Meaning(Template(source, "struct", n), n)
    BY ONLY <1>4, <1>5, <2>1, StructMeaning
  <2> QED
    BY <1>10, <2>2 DEF TypeNode
<1>14. DOMAIN m \subseteq AllParameters(source)
  BY <1>3, <1>4, <1>10, TemplateMeaning, TemplateFound DEF AllParameters
<1>15. h2 = Layout(n) /\ tm = [do |-> "methods", name |-> n, at |-> 1, saved |-> cx]
  BY <1>1 DEF StructParts
<1>16. h2.do = "layout" /\ h2.name = n /\ h2.at = 0
  BY <1>15, LayoutParts
<1>17. tm.do = "methods" /\ tm.name = n /\ tm.at = 1 /\ tm.saved = cx
  BY <1>15
<1>18. ~IsBody(h2) /\ ~IsBody(tm) /\ ~Exact(tm)
  BY <1>16, <1>17 DEF IsBody, Exact
<1> DEFINE r2 == <<tm>> \o todo
           T == Tasks(todo)
           T2 == {h2} \cup ({tm} \cup Tasks(todo))
<1>19. IsSeq(r2) /\ Tasks(r2) = {tm} \cup Tasks(todo) /\ r2 # << >> /\ Head(r2) = tm /\ todo' = <<h2>> \o r2
  <2>1. IsSeq(r2) /\ r2 # << >> /\ Head(r2) = tm
    BY <1>7, Pushed
  <2> QED
    BY <1>1, <2>1, <1>7, PushTwo, PushedTasks DEF StructStep
<1>20. /\ DOMAIN structs' = DOMAIN structs \cup {n} /\ \A x \in DOMAIN structs : structs'[x] = structs[x]
       /\ structs'[n] = [layout |-> "pending", fields |-> Template(source, "struct", n).fields,
                         bad |-> FALSE, destructor |-> FALSE]
  <2>1. structs' = Extended(structs, n, [layout |-> "pending", fields |-> Template(source, "struct", n).fields,
                                         bad |-> FALSE, destructor |-> FALSE])
    BY <1>1 DEF StructStep
  <2>2. PICK v : v = [layout |-> "pending", fields |-> Template(source, "struct", n).fields, bad |-> FALSE, destructor |-> FALSE]
    OBVIOUS
  <2>3. structs' = Extended(structs, n, v)
    BY ONLY <2>1, <2>2
  <2>4. DOMAIN structs' = DOMAIN structs \cup {n} /\ (\A x \in DOMAIN structs : structs'[x] = structs[x]) /\ structs'[n] = v
    BY ONLY <1>4, <2>3 DEF Extended
  <2> QED
    BY ONLY <2>2, <2>4
<1>21. TypeNode(n) \in Needed(source)
  BY <1>2, <1>3, <1>4, NeededFacts DEF HeadState
<1>23. ASSUME NEW x \in T PROVE Apart(source, h2, x) /\ Apart(source, tm, x)
  <2>1. x.do = "methods" => x.name # n
    BY <1>4, <1>7 DEF SoundState, SoundTask
  <2>2. ASSUME x.do = "instance"
        PROVE  /\ InsideOf(Reached(source, SignatureNodes(source, Function(x.name))), h2)
               /\ InsideOf(Reached(source, SignatureNodes(source, Function(x.name))), tm)
    <3>1. PICK N : /\ N = Reached(source, SignatureNodes(source, Function(x.name)))
                   /\ ClosedUnder(source, N) /\ SignatureNodes(source, Function(x.name)) \subseteq N
      BY <1>3, <1>7, <2>2, InstanceAround
    <3>2. CASE x = t
      BY <1>4, <1>16, <1>17, <1>18, <2>2, <3>1, <3>2 DEF InsideOf
    <3>3. CASE x \in Tasks(r)
      BY <1>16, <1>17, <1>18, <3>1, <1>4, <1>8, <2>2, <3>3 DEF InsideOf, Apart
    <3> QED
      BY <1>7, <3>2, <3>3
  <2> QED
    BY <1>16, <1>17, <1>18, <2>1, <2>2 DEF Apart
<1>24. AllApart(source, r2) /\ \A x \in Tasks(r2) : Apart(source, h2, x)
  BY <1>19, <1>23, <1>16, <1>17, <1>18, <1>7, ApartPushed DEF Apart
<1>25. TaskStep(source, tm, todo, e, cx)
  <2>4. Joined(tm, todo)
    BY <1>17 DEF Joined, Link, Saves
  <2> QED
    BY <1>7, <2>4, <1>12, <1>9, <1>17, <1>18, <1>13 DEF TaskStep, UnsafeTask, Follows, Outside, Returns
<1>26. Planned(source, r2, e)
  BY <1>7, <1>25, PlanPushed
<1>27. TaskStep(source, h2, r2, e, e)
  <2>2. Follows(source, h2, e, e)
    BY <1>9, <1>12, <1>13, <1>14, <1>16, <1>18 DEF Follows, Alike
  <2> HIDE DEF r2, T, T2
  <2> QED
    BY <1>26, <2>2, <1>7, <1>12, <1>19, <1>16, <1>17, <1>18 DEF TaskStep, UnsafeTask, Joined, Link
<1>28. T \subseteq T2 \cup {t} /\ t \in T2
  BY <1>7
<1>29. \A x \in DOMAIN structs' : SoundStruct(source, structs', DOMAIN code, T2, h2, x)
  <2> SUFFICES ASSUME NEW x \in DOMAIN structs' PROVE SoundStruct(source, structs', DOMAIN code, T2, h2, x)
    OBVIOUS
  <2>1. PICK st2 : st2 = structs'
    OBVIOUS
  <2>2. CASE x \in DOMAIN structs
    <3>1. SoundStruct(source, structs, DOMAIN code, T, t, x) /\ st2[x] = structs[x] /\ DOMAIN structs \subseteq DOMAIN st2
          /\ DOMAIN code \subseteq DOMAIN code
      BY <1>7, <1>20, <2>1, <2>2 DEF SoundState
    <3>2. t # Layout(x)
      <4> SUFFICES ASSUME t = Layout(x) PROVE FALSE
        OBVIOUS
      <4>1. t.do = "layout" /\ t.at = 0
        BY LayoutParts
      <4> QED
        BY <4>1, <1>2, LayoutFacts, FieldTypeFacts, <1>1 DEF Asking
    <3>3. IsMethods(t, x) /\ t.at = 1 => ~HasRem(source, x)
      BY <1>1, AsksLater DEF IsMethods, Asking
    <3>4. structs[x].layout = "visiting" /\ IsLayout(t, x) /\ t.at # 0 => \E u \in T2 : IsLayout(u, x) /\ u.at # 0
      BY <1>28
    <3>5. IsMethods(t, x) => (\E u \in T2 : IsMethods(u, x)) \/ MethodNodes(source, x) \subseteq DOMAIN code
      BY <1>28
    <3> HIDE DEF T, T2, r2
    <3>6. SoundStruct(source, st2, DOMAIN code, T2, h2, x)
      BY ONLY <1>28, <3>1, <3>2, <3>3, <3>4, <3>5, StructKept
    <3> QED
      BY ONLY <2>1, <3>6
  <2>3. CASE x = n
    <3>1. h2 \in T2 /\ \E u \in T2 : IsMethods(u, n)
      BY <1>17 DEF IsMethods
    <3>2. st2[n] = [layout |-> "pending", fields |-> Template(source, "struct", n).fields, bad |-> FALSE, destructor |-> FALSE]
      BY <1>20, <2>1
    <3>3. PICK D : D = DOMAIN code
      OBVIOUS
    <3> HIDE DEF T, T2, r2
    <3>4. SoundStruct(source, st2, D, T2, h2, n)
      BY ONLY <1>3, <1>4, <1>15, <1>21, <3>1, <3>2, StructNew
    <3> QED
      BY ONLY <2>1, <2>3, <3>3, <3>4
  <2> QED
    BY <1>20, <2>2, <2>3
<1>30. \A x \in T2 : SoundTask(source, DOMAIN structs', symbols, code, x) /\ InsideOf(Needed(source), x)
  <2>0. PICK S2 : S2 = DOMAIN structs'
    OBVIOUS
  <2>1. n \in S2
    BY <1>20, <2>0
  <2>2. SoundTask(source, S2, symbols, code, h2)
    BY <1>3, <1>15, <2>1, LayoutTask, <1>4, <1>5 DEF DeclaredStruct
  <2>3. SoundTask(source, S2, symbols, code, tm)
    BY <1>3, <1>4, <1>7, <1>15, <2>1, MethodsTask
  <2>4. ASSUME NEW x \in T PROVE SoundTask(source, S2, symbols, code, x) /\ InsideOf(Needed(source), x)
    BY <1>7, <2>0, TasksAway, <1>20
  <2> QED
    BY <2>0, <2>2, <2>3, <2>4, <1>16, <1>17, <1>18, <1>21 DEF InsideOf
<1>31. SoundState(source, structs', symbols, code, T2, h2)
  <2>1. PICK st2 : st2 = structs'
    OBVIOUS
  <2>2. DOMAIN structs \subseteq DOMAIN st2 /\ (IsBody(t) => t \in T2) /\ (t.do = "generate" => t \in T2)
    BY <1>20, <1>28, <2>1
  <2>3. SoundState(source, structs, symbols, code, T, t)
    BY <1>7
  <2>4. /\ \A x \in DOMAIN st2 : SoundStruct(source, st2, DOMAIN code, T2, h2, x)
        /\ \A x \in T2 : SoundTask(source, DOMAIN st2, symbols, code, x) /\ InsideOf(Needed(source), x)
    BY <1>29, <1>30, <2>1
  <2> HIDE DEF T, T2, r2
  <2>5. SoundState(source, st2, symbols, code, T2, h2)
    BY ONLY <1>28, <2>2, <2>3, <2>4, StateKept
  <2> QED
    BY ONLY <2>1, <2>5
<1>32. IState(source, structs', symbols, code, <<h2>> \o r2, e)
  <2>1. SoundState(source, structs', symbols, code, {h2} \cup Tasks(r2), h2)
    BY <1>19, <1>31
  <2> HIDE DEF T, T2, r2
  <2> QED
    BY <1>19, <1>24, <1>27, <2>1, StateOfPushed
<1> QED
  BY <1>1, <1>19, <1>32 DEF StillReady, StructStep

\* The methods of an instance follow its layout.
LEMMA LayoutFollowed ==
  ASSUME NEW p, NEW r, IsSeq(r), NEW c, Planned(p, r, c), NEW x \in Tasks(r), x.do = "layout", Len(x.name) # 1
  PROVE  \E y \in Tasks(r) : y.do = "methods" /\ y.name = x.name
<1>1. PICK C : Plans(p, C, r, c)
  BY DEF Planned
<1>2. PICK k \in DOMAIN r : x = r[k]
  BY DEF Tasks
<1> QED
  BY <1>2, <1>1 DEF Tasks, Link, Plans

\* A struct whose methods are next has a layout.
LEMMA MethodsSized ==
  ASSUME Ready, NEW t, NEW r, NEW d, AtHead(t, r, d), t.do = "methods"
  PROVE  Sized(t.name)
<1>1. HeadState(source, structs, symbols, code, t, r, cx, d)
  BY DEF AtHead
<1>2. PICK n : n = t.name
  OBVIOUS
<1>3. /\ n \in DOMAIN structs /\ n \in Names /\ Len(n) > 1
      /\ SoundStruct(source, structs, DOMAIN code, {t} \cup Tasks(r), t, n)
  BY <1>1, <1>2, MethodsHead
<1>4. Len(n) # 1
  BY <1>3, Longer
<1>6. structs[n].layout # "visiting"
  <2> SUFFICES ASSUME structs[n].layout = "visiting" PROVE FALSE
    OBVIOUS
  <2>1. PICK x \in {t} \cup Tasks(r) : IsLayout(x, n) /\ x.at # 0
    BY <1>3 DEF SoundStruct
  <2>3. IsSeq(r) /\ Planned(source, r, d) /\ \A y \in Tasks(r) : Apart(source, t, y)
    BY <1>1 DEF HeadState, TaskStep
  <2>4. PICK y \in Tasks(r) : y.do = "methods" /\ y.name = n
    BY <1>4, <2>3, LayoutFollowed, <2>1 DEF IsLayout
  <2> QED
    BY <1>2, <2>3, <2>4 DEF Apart
<1> QED
  BY <1>2, <1>3, <1>6, <1>4, LayoutParts DEF SoundStruct, Sized, Known

\* The methods of an instance are all there, and the asker is restored.
LEMMA FinishStructKeeps ==
  ASSUME Ready, refusals' = {}, FinishStruct
  PROVE  StillReady
<1>1. /\ Task.do = "methods" /\ todo # << >> /\ ~MethodDue /\ cx' = Restored(Task.saved, cx) /\ todo' = Later
      /\ UNCHANGED <<source, structs, symbols, code>>
  BY DEF FinishStruct, Doing
<1>2. PICK t, r, d : t = Task /\ r = Later /\ HeadState(source, structs, symbols, code, t, r, cx, d)
  BY <1>1, ReadyHead
<1>3. AtHead(t, r, d) /\ t.do = "methods"
  BY <1>1, <1>2 DEF AtHead
<1>5. PICK n : n = t.name
  OBVIOUS
<1>6. /\ n \in DOMAIN structs /\ n \in Names /\ Instantiable(source, "struct", n)
      /\ \E k \in Nat : /\ k = Len(Methods(source, n)) /\ DOMAIN Methods(source, n) = 1 .. k
                        /\ t.at \in 1 .. k + 1
      /\ \A i \in DOMAIN Methods(source, n) :
           (i < t.at) <=> (Symbol(n, Methods(source, n)[i].name) \in symbols)
      /\ Returns(cx, t.saved, d) /\ IsContext(d)
  BY <1>2, <1>3, <1>5, MethodsHead
<1>7. PICK k \in Nat : DOMAIN Methods(source, n) = 1 .. k /\ t.at \in 1 .. k + 1
  BY <1>6
<1>8. t.at = k + 1
  BY <1>7, <1>1, <1>2, <1>5, <1>3, MethodsSized DEF MethodDue
<1>9. MethodNodes(source, n) \subseteq DOMAIN code
  <2> SUFFICES ASSUME NEW i \in DOMAIN Methods(source, n)
               PROVE  Symbol(n, Methods(source, n)[i].name) \in DOMAIN code
    BY <1>6 DEF MethodNodes
  <2>1. PICK m, f : m = Methods(source, n)[i].name /\ f = Symbol(n, m)
    OBVIOUS
  <2>3. f \in symbols
    BY <1>6, <2>1, <1>7, <1>8
  <2>5. f.method = m
    <3>1. Symbol(n, m).method = m
      BY ONLY SymbolParts
    <3> QED
      BY ONLY <2>1, <3>1
  <2> QED
    BY <2>1, <2>3, <2>5, <1>2, <1>6, MethodDeclared DEF SoundSymbols, HeadState, SoundState, Ready,
       WellWritten
<1>10. cx' = d
  <2>1. PICK s, m, u : s = t.saved /\ m = s.module /\ u = s.unsafe
    OBVIOUS
  <2> QED
    BY <1>1, <1>2, <2>1, Restores, <1>6 DEF Returns
<1>11. /\ IsSeq(r) /\ AllApart(source, r) /\ Planned(source, r, d)
       /\ SoundState(source, structs, symbols, code, {t} \cup Tasks(r), t)
  BY <1>2 DEF HeadState, TaskStep
<1>12. PICK h2, T2, T : h2 = Head(r) /\ T2 = Tasks(r) /\ T = {t} \cup Tasks(r)
  OBVIOUS
<1>13. ASSUME NEW x \in DOMAIN structs PROVE SoundStruct(source, structs, DOMAIN code, T2, h2, x)
  <2>1. /\ SoundStruct(source, structs, DOMAIN code, T, t, x) /\ T \subseteq T2 \cup {t}
        /\ structs[x] = structs[x] /\ DOMAIN structs \subseteq DOMAIN structs /\ DOMAIN code \subseteq DOMAIN code
    BY <1>11, <1>12 DEF SoundState
  <2>2. CASE x # n
    <3>1. t.do \notin {"layout", "methods"} \/ t.name # x
      BY <1>5, <2>2
    <3> QED
      BY ONLY <2>1, <3>1, StructAway
  <2>3. CASE x = n
    <3>1. t # Layout(x)
      BY <1>3, LayoutParts
    <3>2. ~IsLayout(t, x)
      BY <1>3 DEF IsLayout
    <3>3. HasRem(source, x) => t.at # 1
      BY <1>7, <1>8, <2>3 DEF HasRem
    <3>4. MethodNodes(source, x) \subseteq DOMAIN code
      BY <1>9, <2>3
    <3> QED
      BY ONLY <2>1, <3>1, <3>2, <3>3, <3>4, StructKept
  <2> QED
    BY <2>2, <2>3
<1>14. SoundState(source, structs, symbols, code, T2, h2)
  <2>1. ~IsBody(t) /\ t.do # "generate" /\ T \subseteq T2 \cup {t} /\ DOMAIN structs \subseteq DOMAIN structs
    BY <1>3, <1>12 DEF IsBody
  <2>2. SoundState(source, structs, symbols, code, T, t)
    BY <1>11, <1>12
  <2>3. \A x \in T2 : SoundTask(source, DOMAIN structs, symbols, code, x) /\ InsideOf(Needed(source), x)
    BY <1>11, <1>12 DEF SoundState
  <2> QED
    BY ONLY <1>13, <2>1, <2>2, <2>3, StateKept
<1> QED
  BY <1>1, <1>2, <1>10, <1>11, <1>12, <1>14, StateOfRest DEF StillReady

\* The functions of the program have plain names.
LEMMA PlainSymbols ==
  ASSUME NEW p, WellDeclared(p), NEW f \in Functions(p)
  PROVE  f.method = "" /\ Len(f.of) = 1
<1>1. PICK i \in DOMAIN p.functions : f = Function(p.functions[i].name)
  BY DEF Functions
<1>2. PICK n : n = p.functions[i].name
  OBVIOUS
<1>4. Function(n).method = "" /\ Function(n).of = n
  BY ONLY SymbolParts
<1> QED
  BY <1>1, <1>2, <1>4 DEF WellDeclared

\* A method is no function of the program.
LEMMA NoMethodPlain ==
  ASSUME NEW p, WellDeclared(p), NEW n, Instantiable(p, "struct", n), NEW i \in DOMAIN Methods(p, n)
  PROVE  Symbol(n, Methods(p, n)[i].name) \notin Functions(p)
<1>1. PICK m, f : m = Methods(p, n)[i].name /\ f = Symbol(n, m)
  OBVIOUS
<1>2. m # ""
  <2>1. Template(p, "struct", n) \in p.templates /\ Template(p, "struct", n).kind = "struct"
    BY TemplateFound
  <2> QED
    BY <1>1, <2>1 DEF WellDeclared, Methods
<1>3. f.method = m
  <2>1. Symbol(n, m).method = m
    BY ONLY SymbolParts
  <2> QED
    BY ONLY <1>1, <2>1
<1> QED
  BY <1>1, <1>2, <1>3, PlainSymbols

\* An instance of a function is no function of the program.
LEMMA NoInstancePlain ==
  ASSUME NEW p, WellDeclared(p), NEW n, Instantiable(p, "function", n)
  PROVE  Function(n) \notin Functions(p)
<1> SUFFICES ASSUME Function(n) \in Functions(p) PROVE FALSE
  OBVIOUS
<1>1. PICK f : f = Function(n)
  OBVIOUS
<1>2. Len(f.of) = 1
  BY <1>1, PlainSymbols
<1>3. f.of = n
  <2>1. Function(n).of = n
    BY ONLY SymbolParts
  <2> QED
    BY ONLY <1>1, <2>1
<1>4. Len(n) > 1
  BY TemplateFound
<1>5. Len(n) = 1
  BY ONLY <1>2, <1>3
<1> QED
  BY ONLY <1>4, <1>5

\* The program's own functions are declared together.
LEMMA SymbolsDeclared ==
  ASSUME NEW p, WellDeclared(p), NEW sy, NEW D, NEW T, NEW T2, NEW h, SoundSymbols(p, sy, D, T),
         T \subseteq T2 \cup {h}, h.do # "generate", NEW sy2, sy2 = Functions(p) \cup sy
  PROVE  SoundSymbols(p, sy2, D, T2)
<1> QED
  BY PlainSymbols DEF SoundSymbols, Awaited

\* All functions of the program are declared.
LEMMA DeclareAllKeeps ==
  ASSUME Ready, refusals' = {}, DeclareAll
  PROVE  StillReady
<1>1. /\ Task.do = "declare" /\ todo # << >> /\ symbols' = Functions(source) \cup symbols /\ todo' = Later
      /\ UNCHANGED <<source, cx, structs, code>>
  BY DEF DeclareAll, Doing, Functions, Ready
<1>2. PICK t, r, d : t = Task /\ r = Later /\ HeadState(source, structs, symbols, code, t, r, cx, d)
  BY <1>1, ReadyHead
<1>3. t.do = "declare"
  BY <1>1, <1>2
<1>4. /\ IsSeq(r) /\ AllApart(source, r) /\ Planned(source, r, d) /\ Joined(t, r) /\ Follows(source, t, cx, d)
      /\ SoundState(source, structs, symbols, code, {t} \cup Tasks(r), t)
  BY <1>2 DEF HeadState, TaskStep
<1>6. source \in SourceForms /\ WellWritten(source) /\ WellDeclared(source)
  BY DEF Ready, WellWritten
<1>7. PICK h2, T2, T, y2, S, D : /\ h2 = Head(r) /\ T2 = Tasks(r) /\ T = {t} \cup Tasks(r) /\ y2 = symbols'
                                 /\ S = DOMAIN structs /\ D = DOMAIN code
  OBVIOUS
<1>8. /\ SoundState(source, structs, symbols, code, T, t) /\ T \subseteq T2 \cup {t} /\ symbols \subseteq y2
      /\ y2 = Functions(source) \cup symbols /\ T2 \subseteq T
  BY <1>1, <1>4, <1>7
<1>9. \A n \in DOMAIN structs : SoundStruct(source, structs, D, T2, h2, n)
  <2> SUFFICES ASSUME NEW n \in DOMAIN structs PROVE SoundStruct(source, structs, D, T2, h2, n)
    OBVIOUS
  <2>1. /\ SoundStruct(source, structs, D, T, t, n) /\ structs[n] = structs[n]
        /\ DOMAIN structs \subseteq DOMAIN structs /\ D \subseteq D
    BY <1>7, <1>8 DEF SoundState
  <2>2. t.do \notin {"layout", "methods"} \/ t.name # n
    BY <1>3
  <2> QED
    BY ONLY <1>8, <2>1, <2>2, StructAway
<1>10. \A f \in DOMAIN code : SoundCode(source, S, y2, code, T2, f)
  <2> SUFFICES ASSUME NEW f \in DOMAIN code PROVE SoundCode(source, S, y2, code, T2, f)
    OBVIOUS
  <2>1. /\ SoundCode(source, S, symbols, code, T, f) /\ S \subseteq S /\ DOMAIN code \subseteq DOMAIN code
        /\ \A g \in DOMAIN code : code[g] = code[g]
    BY <1>7, <1>8 DEF SoundState
  <2>2. IsBody(t) => t \in T2
    BY <1>3 DEF IsBody
  <2> QED
    BY ONLY f \in DOMAIN code, <1>8, <2>1, <2>2, CodeKept
<1>11. SoundSymbols(source, y2, D, T2)
  <2>1. SoundSymbols(source, symbols, D, T) /\ t.do # "generate"
    BY <1>3, <1>7, <1>8 DEF SoundState
  <2> QED
    BY ONLY <1>6, <1>8, <2>1, SymbolsDeclared
<1>12. ASSUME NEW x \in T2 PROVE SoundTask(source, S, y2, code, x) /\ InsideOf(Needed(source), x)
  <2>1. SoundTask(source, S, symbols, code, x) /\ InsideOf(Needed(source), x) /\ S \subseteq S
    BY <1>7, <1>8 DEF SoundState
  <2>2. IsBody(x) => x.of \in DOMAIN code /\ code[x.of] = code[x.of]
    BY <2>1 DEF SoundTask
  <2>3. x.do = "methods" =>
          \A i \in DOMAIN Methods(source, x.name) :
            Symbol(x.name, Methods(source, x.name)[i].name) \in y2
              => Symbol(x.name, Methods(source, x.name)[i].name) \in symbols
    <3> SUFFICES ASSUME x.do = "methods", NEW i \in DOMAIN Methods(source, x.name)
                 PROVE  Symbol(x.name, Methods(source, x.name)[i].name) \notin Functions(source)
      BY <1>8
    <3>1. PICK n : n = x.name
      OBVIOUS
    <3> QED
      BY <1>6, <3>1, NoMethodPlain, <2>1 DEF SoundTask
  <2>4. x.do = "instance" => Function(x.name) \notin y2
    <3> SUFFICES ASSUME x.do = "instance" PROVE Function(x.name) \notin y2
      OBVIOUS
    <3>1. PICK n : n = x.name
      OBVIOUS
    <3> QED
      BY <1>8, <3>1, <1>6, NoInstancePlain, <2>1 DEF SoundTask
  <2>5. x.do = "generate" => Function(x.name) \notin DOMAIN code
    BY <2>1 DEF SoundTask
  <2>6. SoundTask(source, S, y2, code, x)
    BY ONLY <1>8, <2>1, <2>2, <2>3, <2>4, <2>5, TaskKept
  <2> QED
    BY <2>1, <2>6
<1>13. SoundState(source, structs, y2, code, T2, h2)
  BY <1>7, <1>9, <1>10, <1>11, <1>12, <1>8 DEF SoundState
<1> QED
  BY <1>1, <1>2, <1>7, <1>4, <1>13, StateOfRest, PlanTop, <1>3 DEF StillReady, Joined, Link, Follows

\* The passes, in their order.
LayoutsFirst(p) == [i \in DOMAIN p.structs |-> Layout(p.structs[i].name)]

\* They end with its functions.
GeneratesLast(p) == [i \in DOMAIN p.functions |-> [do |-> "generate", name |-> p.functions[i].name]]

\* The first m tasks lay out structs.
AreLayouts(p, s, m) == \A i \in 1 .. m : i \in DOMAIN p.structs /\ s[i] = Layout(p.structs[i].name)

\* The last n tasks generate functions.
AreGenerates(p, s, m, n) ==
  \A i \in 1 .. n : i \in DOMAIN p.functions /\ s[m + 1 + i] = [do |-> "generate", name |-> p.functions[i].name]

\* The tasks of the passes, place by place.
ArePasses(p, s, m, n) ==
  /\ IsSeq(s) /\ DOMAIN s = 1 .. m + 1 + n /\ Len(s) = m + 1 + n
  /\ AreLayouts(p, s, m) /\ s[m + 1] = [do |-> "declare"] /\ AreGenerates(p, s, m, n)
  /\ DOMAIN p.structs = 1 .. m /\ DOMAIN p.functions = 1 .. n

\* Where the elements of a sequence of three parts are.
LEMMA ThreeParts ==
  ASSUME NEW S, NEW a \in Seq(S), NEW x \in S, NEW b \in Seq(S), NEW s, s = a \o <<x>> \o b
  PROVE  /\ s \in Seq(S) /\ Len(s) = Len(a) + 1 + Len(b)
         /\ \A i \in 1 .. Len(a) : s[i] = a[i]
         /\ s[Len(a) + 1] = x
         /\ \A i \in 1 .. Len(b) : s[Len(a) + 1 + i] = b[i]
<1>1. PICK c : c = a \o <<x>>
  OBVIOUS
<1>2. <<x>> \in Seq(S) /\ Len(<<x>>) = 1 /\ <<x>>[1] = x
  OBVIOUS
<1>3. Len(a) \in Nat /\ Len(b) \in Nat
  BY LenProperties
<1>4. /\ c \in Seq(S) /\ Len(c) = Len(a) + 1
      /\ \A i \in 1 .. Len(a) + 1 : c[i] = IF i <= Len(a) THEN a[i] ELSE <<x>>[i - Len(a)]
  BY <1>1, <1>2, ConcatProperties
<1> QED
  BY <1>3, <1>4, <1>2, <1>1, ConcatProperties

\* A range of numbers tells its end.
LEMMA SameRange ==
  ASSUME NEW x \in Nat, NEW y \in Nat, 1 .. x = 1 .. y
  PROVE  x = y
<1>1. x = 0 \/ x \in 1 .. x
  OBVIOUS
<1> QED
  BY <1>1

\* The passes over a program are these tasks.
LEMMA PassesAre ==
  ASSUME NEW p \in SourceForms
  PROVE  \E m, n \in Nat : ArePasses(p, Passes(p), m, n)
<1>1. PICK m, n \in Nat : DOMAIN p.structs = 1 .. m /\ DOMAIN p.functions = 1 .. n
  BY LenProperties DEF SourceForms
<1>2. PICK a, b, x : a = LayoutsFirst(p) /\ b = GeneratesLast(p) /\ x = [do |-> "declare"]
  OBVIOUS
<1>3. PICK S : S = {a[i] : i \in 1 .. m} \cup {b[i] : i \in 1 .. n} \cup {x}
  OBVIOUS
<1>4. a \in [1 .. m -> S] /\ b \in [1 .. n -> S] /\ x \in S
  BY <1>1, <1>2, <1>3 DEF LayoutsFirst, GeneratesLast
<1>5. a \in Seq(S) /\ b \in Seq(S)
  BY <1>4, SeqDef
<1>6. Len(a) = m /\ Len(b) = n
  <2>1. DOMAIN a = 1 .. Len(a) /\ Len(a) \in Nat /\ DOMAIN b = 1 .. Len(b) /\ Len(b) \in Nat
    BY <1>5, LenProperties
  <2>2. DOMAIN a = 1 .. m /\ DOMAIN b = 1 .. n
    BY <1>4
  <2>3. 1 .. Len(a) = 1 .. m /\ 1 .. Len(b) = 1 .. n
    BY ONLY <2>1, <2>2
  <2> QED
    BY <2>1, <2>3, SameRange
<1>7. PICK s : s = Passes(p)
  OBVIOUS
<1>8. s = a \o <<x>> \o b
  BY <1>2, <1>7 DEF Passes, LayoutsFirst, GeneratesLast
<1>9. /\ s \in Seq(S) /\ Len(s) = Len(a) + 1 + Len(b)
      /\ \A i \in 1 .. Len(a) : s[i] = a[i]
      /\ s[Len(a) + 1] = x
      /\ \A i \in 1 .. Len(b) : s[Len(a) + 1 + i] = b[i]
  BY ONLY <1>4, <1>5, <1>8, ThreeParts
<1> QED
  BY <1>1, <1>7, <1>2, <1>6, <1>9, SequenceIsSeq, LenProperties DEF ArePasses, AreGenerates, GeneratesLast,
     AreLayouts, LayoutsFirst

\* The tasks of the passes.
IsPass(p, m, n, k, x) ==
  \/ k \in 1 .. m /\ k \in DOMAIN p.structs /\ x = Layout(p.structs[k].name)
  \/ k = m + 1 /\ x = [do |-> "declare"]
  \/ /\ k - (m + 1) \in 1 .. n /\ k - (m + 1) \in DOMAIN p.functions
     /\ x = [do |-> "generate", name |-> p.functions[k - (m + 1)].name]

\* A task of the passes, by its place.
LEMMA PassIs ==
  ASSUME NEW p, NEW s, NEW m \in Nat, NEW n \in Nat, ArePasses(p, s, m, n), NEW k \in DOMAIN s
  PROVE  k \in Nat /\ IsPass(p, m, n, k, s[k])
<1>1. k \in 1 .. m + 1 + n
  BY DEF ArePasses
<1>2. CASE k \in 1 .. m
  BY <1>2 DEF ArePasses, AreLayouts, IsPass
<1>3. CASE k = m + 1
  BY <1>3 DEF ArePasses, IsPass
<1>4. CASE k > m + 1
  <2>1. PICK i \in 1 .. n : i = k - (m + 1)
    BY <1>1, <1>4
  <2>3. i \in DOMAIN p.functions /\ s[m + 1 + i] = [do |-> "generate", name |-> p.functions[i].name]
    BY DEF ArePasses, AreGenerates
  <2> QED
    BY <1>1, <2>1, <2>3 DEF IsPass
<1> QED
  BY <1>1, <1>2, <1>3, <1>4

\* The generator starts outside of everything.
LEMMA RestingTop == AtRest(Resting) /\ Alike(Resting, Resting) /\ Resting.unsafe = 0 /\ DOMAIN Resting.meaning = {}
<1> QED
  BY NoMeaning DEF AtRest, Alike, Resting, IsContext

\* What a task of the passes is.
Waiting(p, x) ==
  \/ \E i \in DOMAIN p.structs : x = Layout(p.structs[i].name)
  \/ x = [do |-> "declare"]
  \/ \E i \in DOMAIN p.functions : x = [do |-> "generate", name |-> p.functions[i].name]

\* The tasks of the passes are those that wait at the start.
LEMMA PassesWait ==
  ASSUME NEW p, NEW s, NEW m \in Nat, NEW n \in Nat, ArePasses(p, s, m, n), NEW x \in Tasks(s)
  PROVE  Waiting(p, x)
<1>1. PICK k \in DOMAIN s : x = s[k]
  BY DEF Tasks
<1>2. IsPass(p, m, n, k, x)
  BY <1>1, PassIs
<1> QED
  BY <1>2 DEF IsPass, Waiting

\* What the tasks that wait at the start are.
LEMMA WaitingFacts ==
  ASSUME NEW p, WellDeclared(p), NEW x, Waiting(p, x)
  PROVE  /\ ~IsBody(x) /\ ~Exact(x) /\ ~Saves(x) /\ x.do \in {"layout", "declare", "generate"}
         /\ x.do = "layout" => Len(x.name) = 1 /\ x = Layout(x.name) /\ \E i \in DOMAIN p.structs : x.name = p.structs[i].name
         /\ x.do = "generate" => \E i \in DOMAIN p.functions : x.name = p.functions[i].name
<1>1. ASSUME NEW i \in DOMAIN p.structs, x = Layout(p.structs[i].name)
      PROVE  x.do = "layout" /\ Len(x.name) = 1 /\ x = Layout(x.name) /\ x.name = p.structs[i].name
  <2>1. PICK n : n = p.structs[i].name
    OBVIOUS
  <2>2. x.do = "layout" /\ x.name = n
    BY <1>1, <2>1, LayoutParts
  <2> QED
    BY <1>1, <2>1, <2>2 DEF WellDeclared
<1> QED
  BY <1>1 DEF IsBody, Exact, Saves, Waiting

\* The context at the start is right for all passes.
LEMMA PassesPlanned ==
  ASSUME NEW p, WellDeclared(p), NEW s, NEW m \in Nat, NEW n \in Nat, ArePasses(p, s, m, n)
  PROVE  Planned(p, s, Resting)
<1>1. PICK C : C = [k \in 1 .. Len(s) + 1 |-> Resting]
  OBVIOUS
<1>2. DOMAIN s = 1 .. Len(s) /\ Len(s) = m + 1 + n
  BY DEF ArePasses
<1>4. ASSUME NEW k \in DOMAIN s
      PROVE  /\ Follows(p, s[k], C[k], C[k + 1])
             /\ k + 1 \in DOMAIN s => Link(s[k], s[k + 1])
             /\ s[k].do = "layout" /\ Len(s[k].name) # 1 => k + 1 \in DOMAIN s
             /\ C[k].unsafe # 0 => \E j \in DOMAIN s : j >= k /\ IsUnsafe(p, s[j])
  <2>2. PICK x : x = s[k]
    OBVIOUS
  <2>4. /\ ~IsBody(x) /\ ~Exact(x) /\ ~Saves(x) /\ x.do \in {"layout", "declare", "generate"}
        /\ x.do = "layout" => Len(x.name) = 1
    BY WaitingFacts, <2>2, PassesWait DEF Tasks
  <2>6. ASSUME k + 1 \in DOMAIN s PROVE Link(s[k], s[k + 1])
    <3>1. PICK y : y = s[k + 1]
      OBVIOUS
    <3>4. ASSUME x.do \in {"declare", "generate"} PROVE y.do = "generate"
      <4>1. k \in Nat /\ IsPass(p, m, n, k, x)
        BY <2>2, PassIs
      <4>4. IsPass(p, m, n, k + 1, y)
        BY <2>6, <3>1, PassIs
      <4> QED
        BY <4>1, <4>4, <1>2, <3>4, LayoutParts DEF IsPass
    <3> QED
      BY <2>2, <2>4, <3>1, <3>4, WaitingFacts, <2>6, PassesWait DEF Link, IsBody, Tasks
  <2> QED
    BY <2>2, <2>4, <2>6, RestingTop, <1>1, <1>2 DEF Follows, Saves, AtRest
<1> QED
  BY <1>4, RestingTop, <1>1, <1>2 DEF Plans, Planned

\* The passes make different things.
LEMMA PassesApart ==
  ASSUME NEW p, WellDeclared(p), NEW s, NEW m \in Nat, NEW n \in Nat, ArePasses(p, s, m, n)
  PROVE  AllApart(p, s)
<1> SUFFICES ASSUME NEW j \in DOMAIN s, NEW k \in DOMAIN s, j < k PROVE Apart(p, s[j], s[k])
  BY DEF AllApart
<1>1. PICK x, y : x = s[j] /\ y = s[k]
  OBVIOUS
<1>4. ASSUME x.do = "generate", y.do = "generate" PROVE x.name # y.name
  <2>1. j \in Nat /\ k \in Nat /\ IsPass(p, m, n, j, x) /\ IsPass(p, m, n, k, y)
    BY <1>1, PassIs
  <2>2. j - (m + 1) \in DOMAIN p.functions /\ x.name = p.functions[j - (m + 1)].name
    BY <1>4, <2>1, LayoutParts DEF IsPass
  <2>3. k - (m + 1) \in DOMAIN p.functions /\ y.name = p.functions[k - (m + 1)].name
    BY <1>4, <2>1, LayoutParts DEF IsPass
  <2>4. j - (m + 1) # k - (m + 1)
    BY <2>1
  <2> QED
    BY <2>2, <2>3, <2>4 DEF WellDeclared
<1> QED
  BY <1>1, <1>4, WaitingFacts, PassesWait DEF Apart, Tasks

\* The passes cover all structs and functions.
LEMMA PassesHold ==
  ASSUME NEW p, NEW s, NEW m \in Nat, NEW n \in Nat, ArePasses(p, s, m, n)
  PROVE  /\ \A i \in DOMAIN p.structs : Layout(p.structs[i].name) \in Tasks(s)
         /\ \A i \in DOMAIN p.functions : [do |-> "generate", name |-> p.functions[i].name] \in Tasks(s)
<1>2. ASSUME NEW i \in DOMAIN p.functions
      PROVE  [do |-> "generate", name |-> p.functions[i].name] \in Tasks(s)
  BY DEF Tasks, ArePasses, AreGenerates
<1> QED
  BY <1>2 DEF Tasks, ArePasses, AreLayouts

\* The structs there are when nothing is done.
PlainNames(p) == {p.structs[i].name : i \in DOMAIN p.structs}

\* The structs that are declared at the start.
FirstStructs(p) ==
  [k \in PlainNames(p) |-> [layout |-> "pending", fields |-> FieldsOf(p, k), bad |-> FALSE, destructor |-> FALSE]]

\* Each of them is sound.
LEMMA FirstStruct ==
  ASSUME NEW p \in SourceForms, WellWritten(p), NEW T, \A i \in DOMAIN p.structs : Layout(p.structs[i].name) \in T,
         NEW D, NEW h, NEW k \in PlainNames(p), NEW st, st = FirstStructs(p)
  PROVE  SoundStruct(p, st, D, T, h, k)
<1>1. PICK i \in DOMAIN p.structs : k = p.structs[i].name
  BY DEF PlainNames
<1>5. st[k] = [layout |-> "pending", fields |-> FieldsOf(p, k), bad |-> FALSE, destructor |-> FALSE]
  BY DEF FirstStructs
<1>6. st[k].layout = "pending" /\ st[k].destructor = FALSE
  BY <1>5
<1> QED
  BY <1>6, <1>5, <1>1, NeededFacts DEF SoundStruct, WellDeclared, StructNamed, WellWritten, Structs

\* The tasks that wait at the start are sound.
LEMMA WaitingSound ==
  ASSUME NEW p \in SourceForms, WellWritten(p), NEW x, Waiting(p, x)
  PROVE  SoundTask(p, PlainNames(p), {}, << >>, x) /\ InsideOf(Needed(p), x)
<1>1. WellDeclared(p)
  BY DEF WellWritten
<1>2. /\ ~IsBody(x) /\ x.do \in {"layout", "declare", "generate"}
      /\ x.do = "layout" => Len(x.name) = 1 /\ x = Layout(x.name) /\ \E i \in DOMAIN p.structs : x.name = p.structs[i].name
      /\ x.do = "generate" => \E i \in DOMAIN p.functions : x.name = p.functions[i].name
  BY <1>1, WaitingFacts
<1>3. CASE x.do = "layout"
  <2>1. PICK k : k = x.name
    OBVIOUS
  <2>2. PICK i \in DOMAIN p.structs : k = p.structs[i].name
    BY <1>2, <1>3, <2>1
  <2> QED
    BY <1>2, <1>3, <2>1, LayoutTask, <1>1, PlainStructs, <2>2, NeededFacts DEF InsideOf, DeclaredStruct,
       PlainNames, StructNamed, Structs
<1>4. CASE x.do = "generate"
  <2>1. PICK k : k = x.name
    OBVIOUS
  <2>2. PICK i \in DOMAIN p.functions : k = p.functions[i].name
    BY <1>2, <1>4, <2>1
  <2> QED
    BY <1>2, <1>4, <2>1, NoMeaning, NeededFacts, <2>2 DEF InsideOf, SoundTask, Functions, Plain
<1>5. CASE x.do = "declare"
  BY <1>2, <1>5 DEF SoundTask, InsideOf
<1> QED
  BY <1>2, <1>3, <1>4, <1>5

\* The invariant holds at the start.
LEMMA FirstState ==
  ASSUME NEW p \in SourceForms, WellWritten(p)
  PROVE  IState(p, FirstStructs(p), {}, << >>, Passes(p), Resting)
<1>0. PICK s : s = Passes(p)
  OBVIOUS
<1>1. PICK m \in Nat, n \in Nat : ArePasses(p, s, m, n)
  BY <1>0, PassesAre
<1>4. PICK T, h, st : T = Tasks(s) /\ h = Head(s) /\ st = FirstStructs(p)
  OBVIOUS
<1>5. /\ \A i \in DOMAIN p.structs : Layout(p.structs[i].name) \in T
      /\ \A i \in DOMAIN p.functions : [do |-> "generate", name |-> p.functions[i].name] \in T
  BY <1>1, <1>4, PassesHold
<1>6. DOMAIN st = PlainNames(p) /\ DOMAIN << >> = {}
  BY <1>4, NoMeaning DEF FirstStructs
<1>8. \A x \in Structs(p) : x.of \in DOMAIN st
  <2> SUFFICES ASSUME NEW i \in DOMAIN p.structs PROVE TypeNode(p.structs[i].name).of \in DOMAIN st
    BY DEF Structs
  <2> QED
    BY <1>6, NodeParts DEF PlainNames
<1>9. SoundSymbols(p, {}, DOMAIN << >>, T)
  <2>1. ASSUME NEW f \in Functions(p) PROVE Awaited(T, f)
    <3>1. PICK i \in DOMAIN p.functions : f = Function(p.functions[i].name)
      BY DEF Functions
    <3>2. PICK x : x = [do |-> "generate", name |-> p.functions[i].name]
      OBVIOUS
    <3> QED
      BY <1>5, <3>1, <3>2 DEF Awaited
  <2> QED
    BY <1>6, <2>1 DEF SoundSymbols
<1>10. \A x \in T : SoundTask(p, DOMAIN st, {}, << >>, x) /\ InsideOf(Needed(p), x)
  <2> SUFFICES ASSUME NEW x \in T PROVE SoundTask(p, DOMAIN st, {}, << >>, x) /\ InsideOf(Needed(p), x)
    OBVIOUS
  <2> QED
    BY <1>6, WaitingSound, <1>1, <1>4, PassesWait
<1>12. SoundState(p, st, {}, << >>, T, h)
  BY <1>8, <1>9, <1>10, <1>4, <1>5, <1>6, FirstStruct DEF SoundState
<1> QED
  BY <1>0, <1>4, <1>12, <1>1, PassesPlanned, PassesApart DEF IState, ArePasses, WellWritten

\* What holds of every state: in a program for which the order of the requests
\* decides nothing, as long as nothing is refused.
InstancesInv ==
  /\ source \in SourceForms
  /\ WellWritten(source) /\ refusals = {} => IState(source, structs, symbols, code, todo, cx)

\* The inductive invariant holds in the initial states.
LEMMA InstancesInvInit ==
  ASSUME GenericsInit
  PROVE  InstancesInv
<1> QED
  BY FirstState, GenericAssumption DEF InstancesInv, GenericsInit, FirstStructs, PlainNames

\* The program stays what it is, and what is refused stays refused.
LEMMA RefusalsStay ==
  ASSUME GenericsNext
  PROVE  source' = source /\ refusals \subseteq refusals'
<1>1. CASE LayoutKnown \/ CheckField \/ Local \/ OwnMethod \/ CallFunction
  BY <1>1 DEF LayoutKnown, CheckField, Local, OwnMethod, CallFunction, Refuse
<1>2. CASE LayoutStruct \/ LayoutField \/ FinishLayout \/ InstantiateStruct \/ InstantiateMethod \/ EndMethod \/ FinishStruct
  BY <1>2 DEF LayoutStruct, LayoutField, FinishLayout, InstantiateStruct, InstantiateMethod, EndMethod, FinishStruct
<1>3. CASE Simple \/ InstantiateFunction \/ DeclareFunction \/ EndFunction \/ DeclareAll \/ GenerateFunction \/ EndPlain
  BY <1>3 DEF Simple, InstantiateFunction, DeclareFunction, EndFunction, DeclareAll, GenerateFunction, EndPlain
<1> QED
  BY <1>1, <1>2, <1>3 DEF GenericsNext

\* Every action that refuses nothing keeps the invariant.
LEMMA StepKeeps ==
  ASSUME Ready, refusals' = {}, GenericsNext
  PROVE  StillReady
<1>1. LayoutKnown => StillReady
  BY LayoutKnownKeeps
<1>2. LayoutStruct => StillReady
  BY LayoutStructKeeps
<1>3. LayoutField => StillReady
  BY LayoutFieldKeeps
<1>4. CheckField => StillReady
  BY CheckFieldKeeps
<1>5. FinishLayout => StillReady
  BY FinishLayoutKeeps
<1>6. InstantiateStruct => StillReady
  BY InstantiateStructKeeps
<1>7. InstantiateMethod => StillReady
  BY InstantiateMethodKeeps
<1>8. EndMethod => StillReady
  BY EndMethodKeeps
<1>9. FinishStruct => StillReady
  BY FinishStructKeeps
<1>10. Simple => StillReady
  BY SimpleKeeps
<1>11. Local => StillReady
  BY LocalKeeps
<1>12. OwnMethod => StillReady
  BY OwnMethodKeeps
<1>13. CallFunction => StillReady
  BY CallFunctionKeeps
<1>14. InstantiateFunction => StillReady
  BY InstantiateFunctionKeeps
<1>15. DeclareFunction => StillReady
  BY DeclareFunctionKeeps
<1>16. EndFunction => StillReady
  BY EndFunctionKeeps
<1>17. DeclareAll => StillReady
  BY DeclareAllKeeps
<1>18. GenerateFunction => StillReady
  BY GenerateFunctionKeeps
<1>19. EndPlain => StillReady
  BY EndPlainKeeps
<1> QED
  BY <1>1, <1>2, <1>3, <1>4, <1>5, <1>6, <1>7, <1>8, <1>9, <1>10, <1>11, <1>12, <1>13, <1>14, <1>15, <1>16,
     <1>17, <1>18, <1>19 DEF GenericsNext

\* Every step keeps the inductive invariant.
LEMMA InstancesInvNext ==
  ASSUME InstancesInv, [GenericsNext]_gnVars
  PROVE  InstancesInv'
<1>1. CASE UNCHANGED gnVars
  BY <1>1 DEF InstancesInv, gnVars
<1>2. CASE GenericsNext
  BY <1>2, StepKeeps, RefusalsStay DEF InstancesInv, StillReady, Ready
<1> QED
  BY <1>1, <1>2

\* What is there when nothing is left to do.
Finished(p, st, sy, cd) ==
  /\ \A n \in DOMAIN st :
       /\ st[n].layout = "done" /\ DeclaredStruct(p, n) /\ TypeNode(n) \in Needed(p)
       /\ \A i \in DOMAIN FieldsOf(p, n) : FieldMade(p, DOMAIN st, n, i)
       /\ MethodNodes(p, n) \subseteq DOMAIN cd
  /\ \A x \in Structs(p) : x.of \in DOMAIN st
  /\ Functions(p) \subseteq DOMAIN cd
  /\ \A f \in sy : f.method = "" => f \in DOMAIN cd
  /\ \A f \in DOMAIN cd :
       /\ Declared(p, f) /\ f \in FunctionsOf(Needed(p)) /\ Complete(p, DOMAIN st, sy, cd, f)
       /\ \A x \in SignatureNodes(p, f) : x.of \in DOMAIN st
       /\ ~cd[f][1].checked => \E g \in DOMAIN cd \ {f} : Unchecked(cd, g)

\* When no task is left, everything is finished.
LEMMA AtTheEnd ==
  ASSUME NEW p \in SourceForms, WellWritten(p), NEW st, NEW sy, NEW cd, NEW c, IState(p, st, sy, cd, << >>, c)
  PROVE  Finished(p, st, sy, cd)
<1>2. PICK h : SoundState(p, st, sy, cd, {}, h)
  BY NoMeaning DEF IState, Tasks
<1>3. (\A n \in DOMAIN st : DeclaredStruct(p, n)) /\ \A f \in DOMAIN cd : Declared(p, f)
  BY <1>2, KnownDeclared
<1>4. ASSUME NEW n \in DOMAIN st
      PROVE  /\ st[n].layout = "done" /\ TypeNode(n) \in Needed(p)
             /\ \A i \in DOMAIN FieldsOf(p, n) : FieldMade(p, DOMAIN st, n, i)
             /\ MethodNodes(p, n) \subseteq DOMAIN cd
  <2>3. Len(n) = 1 => MethodNodes(p, n) = {}
    <3> SUFFICES ASSUME Len(n) = 1, Instantiable(p, "struct", n) PROVE FALSE
      BY DEF MethodNodes
    <3>2. ~(Len(n) > 1)
      BY ONLY Len(n) = 1
    <3> QED
      BY <3>2, TemplateFound
  <2> QED
    BY <2>3, <1>2 DEF SoundStruct, SoundState
<1> QED
  BY <1>2, <1>3, <1>4 DEF SoundState, Finished, SoundCode, SoundSymbols, Awaited

\* All that there is needs nothing else.
Everything(st, cd) == {TypeNode(n) : n \in DOMAIN st} \cup DOMAIN cd

\* The types of the fields of a finished struct are there.
LEMMA FieldsHere ==
  ASSUME NEW p, NEW st, NEW n, \A i \in DOMAIN FieldsOf(p, n) : FieldMade(p, DOMAIN st, n, i),
         NEW x \in FieldNodes(p, n)
  PROVE  x \in {TypeNode(k) : k \in DOMAIN st}
<1>1. x \in TypeNodes(FieldsOf(p, n), MeaningOf(p, TypeNode(n)))
  BY DEF FieldNodes
<1>2. PICK i \in DOMAIN FieldsOf(p, n) :
        /\ ~FieldsOf(p, n)[i].ptr
        /\ x = TypeNode(Closed(MeaningOf(p, TypeNode(n)), FieldsOf(p, n)[i].name))
  BY <1>1 DEF TypeNodes
<1>3. PICK k : k = Closed(MeaningOf(p, TypeNode(n)), FieldsOf(p, n)[i].name)
  OBVIOUS
<1> QED
  BY <1>2, <1>3, <1>1 DEF FieldMade, Made, TypeNodes

\* The types of the locals of a complete body are there.
LEMMA LocalsHere ==
  ASSUME NEW p \in SourceForms, WellWritten(p), NEW S, NEW sy, NEW f, Declared(p, f),
         DoneTo(p, S, sy, f, Len(BodyOf(p, f)) + 1), NEW x \in LocalNodes(p, f)
  PROVE  x \in {TypeNode(k) : k \in S}
<1>1. WellDeclared(p)
  BY DEF WellWritten
<1>2. PICK i \in DOMAIN BodyOf(p, f) :
        /\ BodyOf(p, f)[i].s = "local" /\ ~BodyOf(p, f)[i].type.ptr
        /\ Closed(MeaningOf(p, f), BodyOf(p, f)[i].type.name) \notin BuiltIn
        /\ x = TypeNode(Closed(MeaningOf(p, f), BodyOf(p, f)[i].type.name))
  BY <1>1, LocalNode
<1> QED
  BY <1>2, <1>1, BodyFacts DEF StatementMade, Made, DoneTo

\* The functions that a complete body calls are declared.
LEMMA CalleesHere ==
  ASSUME NEW p \in SourceForms, WellWritten(p), NEW S, NEW sy, NEW f, Declared(p, f),
         DoneTo(p, S, sy, f, Len(BodyOf(p, f)) + 1), NEW x \in Callees(p, f)
  PROVE  x \in sy /\ x.method = ""
<1>1. WellDeclared(p)
  BY DEF WellWritten
<1>2. PICK i \in DOMAIN BodyOf(p, f) :
        BodyOf(p, f)[i].s = "call" /\ x = Function(Closed(MeaningOf(p, f), BodyOf(p, f)[i].name))
  BY DEF Callees
<1>5. PICK n : n = BodyOf(p, f)[i].name
  OBVIOUS
<1>8. x = Function(n)
  BY <1>2, <1>5, WrittenCallNames, <1>1, LocalTypes
<1>9. Function(n) \in sy
  BY <1>2, <1>5, <1>1, BodyFacts DEF StatementMade, DoneTo
<1>10. Function(n).method = ""
  BY ONLY SymbolParts
<1> QED
  BY ONLY <1>8, <1>9, <1>10

\* What is there needs nothing else.
LEMMA NothingElse ==
  ASSUME NEW p \in SourceForms, WellWritten(p), NEW st, NEW sy, NEW cd, Finished(p, st, sy, cd)
  PROVE  ClosedUnder(p, Everything(st, cd))
<1>1. PICK N : N = Everything(st, cd)
  OBVIOUS
<1>2. ASSUME NEW n \in DOMAIN st PROVE Needs(p, TypeNode(n)) \subseteq N
  BY NodeParts, <1>1, FieldsHere DEF Needs, Finished, Everything
<1>3. ASSUME NEW f \in DOMAIN cd PROVE Needs(p, f) \subseteq N
  <2>1. /\ Declared(p, f) /\ \A x \in SignatureNodes(p, f) : x.of \in DOMAIN st
        /\ DoneTo(p, DOMAIN st, sy, f, Len(BodyOf(p, f)) + 1)
    BY DEF Finished, Complete
  <2>3. ASSUME NEW y \in SignatureNodes(p, f) PROVE y \in N
    BY <1>1, <2>1, SignatureNodesGood DEF Everything, GoodNode, TypeNode, WellWritten
  <2>5. \A y \in Callees(p, f) : y \in N
    <3> SUFFICES ASSUME NEW y \in Callees(p, f) PROVE y \in N
      OBVIOUS
    <3>1. y \in sy /\ y.method = ""
      BY <2>1, CalleesHere
    <3> QED
      BY <1>1, <3>1 DEF Finished, Everything
  <2> QED
    BY <2>3, <2>5, <1>1, <2>1, LocalsHere DEF Needs, Everything, Declared
<1> QED
  BY <1>1, <1>2, <1>3 DEF ClosedUnder, Everything

\* What is there is what the program needs, nothing missing and nothing more.
LEMMA AllThatIsNeeded ==
  ASSUME NEW p \in SourceForms, WellWritten(p), NEW st, NEW sy, NEW cd, Finished(p, st, sy, cd)
  PROVE  /\ DOMAIN cd = FunctionsOf(Needed(p))
         /\ {TypeNode(n) : n \in DOMAIN st} = TypesOf(Needed(p))
<1>1. PICK N : N = Everything(st, cd)
  OBVIOUS
<1>3. Structs(p) \cup Functions(p) \subseteq N
  <2>1. ASSUME NEW x \in Structs(p) PROVE x \in N
    <3>1. PICK n : x = TypeNode(n)
      BY DEF Structs
    <3>2. n \in DOMAIN st
      BY <3>1, NodeParts DEF Finished
    <3> QED
      BY <1>1, <3>1, <3>2 DEF Everything
  <2> QED
    BY <1>1, <2>1 DEF Finished, Everything
<1>4. Needed(p) \subseteq N
  <2>1. PICK nodes : nodes = Structs(p) \cup Functions(p)
    OBVIOUS
  <2> QED
    BY <2>1, <1>3, ReachedLeast, <1>1, NothingElse DEF Needed, WellWritten
<1>6. \A f \in DOMAIN cd : f.method # "type"
  BY DEF Finished, Declared
<1>7. \A n : TypeNode(n).method = "type"
  BY NodeParts
<1> QED
  BY <1>1, <1>4, <1>6, <1>7 DEF Everything, FunctionsOf, TypesOf, Finished

\* A body that is all there is as it would be alone.
LEMMA BodyAlone ==
  ASSUME NEW p \in SourceForms, WellWritten(p), NEW f, Declared(p, f), f \in FunctionsOf(Needed(p)),
         NEW S, NEW sy, NEW cd, Complete(p, S, sy, cd, f)
  PROVE  cd[f] = CodeAlone(p, f, cd[f][1].checked)
<1>0. WellDeclared(p) /\ Balanced(p, f)
  BY DEF WellWritten
<1>1. PICK u \in Nat : cd[f] = CodeUpTo(p, f, Len(BodyOf(p, f)) + 1, u)
  BY DEF Complete
<1>2. PICK n \in Nat : n = Len(BodyOf(p, f))
  BY <1>0, BodyFacts
<1>3. \A i \in 0 .. n : IsContext(ContextOf(p, f, i)) /\ ContextOf(p, f, i).unsafe \in Nat
  BY <1>0, <1>2, ContextsKeep DEF Balanced
<1>4. \A i \in 1 .. n + 1 : i \in Nat /\ StandsAt(i) \in 0 .. n
  BY DEF StandsAt
<1>5. cd[f][1].checked <=> u = 0
  <2>4. ContextOf(p, f, 0).unsafe = 0
    <3>2. ContextOf(p, f, 0) = OwnContext(p, f)
      BY ContextSteps, <1>2
    <3>3. OwnContext(p, f).unsafe = 0
      <4>1. PICK d : d = Declaration(p, f)
        OBVIOUS
      <4> QED
        BY ONLY <4>1, OwnParts
    <3> QED
      BY ONLY <3>2, <3>3
  <2> QED
    BY <2>4, <1>3, <1>4, CheckedAlone, <1>1, <1>2, CodeLength DEF StandsAt
<1>6. PICK w : w = (IF cd[f][1].checked THEN 0 ELSE 1)
  OBVIOUS
<1>7. \A i \in 1 .. n + 1 : ItemAlone(p, f, i, u) = ItemAlone(p, f, i, w)
  <2>1. CASE u = 0
    BY <1>5, <1>6, <2>1
  <2>2. CASE u # 0
    BY <1>3, <1>4, <2>2, OnceAround, <1>5, <1>6
  <2> QED
    BY <2>1, <2>2
<1> QED
  BY <1>7, <1>2, <1>6, <1>1 DEF CodeAlone, CodeUpTo

\* The inductive invariant makes the instances sound.
LEMMA InstancesInvSound ==
  ASSUME InstancesInv
  PROVE  WellWritten(source) /\ refusals = {} => InstancesAlone
<1> SUFFICES ASSUME WellWritten(source), refusals = {}, todo = << >>
             PROVE  /\ DOMAIN code = FunctionsOf(Needed(source))
                    /\ {TypeNode(n) : n \in DOMAIN structs} = TypesOf(Needed(source))
                    /\ \A n \in DOMAIN structs : Sized(n)
                    /\ \A f \in DOMAIN code :
                         /\ code[f] = CodeAlone(source, f, code[f][1].checked)
                         /\ code[f][1].checked \/ \E g \in DOMAIN code \ {f} :
                                                    \E i \in DOMAIN code[g] : ~code[g][i].checked
  BY DEF InstancesAlone
<1>1. source \in SourceForms /\ IState(source, structs, symbols, code, << >>, cx)
  BY DEF InstancesInv
<1>2. Finished(source, structs, symbols, code)
  BY <1>1, AtTheEnd
<1>5. ASSUME NEW f \in DOMAIN code
      PROVE  /\ code[f] = CodeAlone(source, f, code[f][1].checked)
             /\ code[f][1].checked \/ \E g \in DOMAIN code \ {f} :
                                        \E i \in DOMAIN code[g] : ~code[g][i].checked
  <2>1. /\ Declared(source, f) /\ f \in FunctionsOf(Needed(source))
        /\ Complete(source, DOMAIN structs, symbols, code, f)
        /\ ~code[f][1].checked => \E g \in DOMAIN code \ {f} : Unchecked(code, g)
    BY <1>2 DEF Finished
  <2> QED
    BY <2>1, <1>1, BodyAlone DEF Unchecked
<1> QED
  BY <1>5, <1>1, <1>2, AllThatIsNeeded DEF Finished, Sized, Known

\* At the end there is one copy of every function that a well-written program needs,
\* each as if it had been generated alone.
THEOREM InstancesAreAlone ==
  GenericsSpec => [](WellWritten(source) /\ refusals = {} => InstancesAlone)
<1>1. GenericsInit => InstancesInv
  BY InstancesInvInit
<1>2. InstancesInv /\ [GenericsNext]_gnVars => InstancesInv'
  BY InstancesInvNext
<1>3. InstancesInv => (WellWritten(source) /\ refusals = {} => InstancesAlone)
  BY InstancesInvSound
<1> QED
  BY <1>1, <1>2, <1>3, PTL DEF GenericsSpec

================================================================================
