----------------------------- MODULE CompilerProofs -----------------------------
(* What a compiler promises of the files it shares with others and of its own      *)
(* memory: the destination of a build, the logs of a directory, and the registry   *)
(* of the heap, for any number of compilers and of allocations, whatever fails and *)
(* whoever is killed; and what it promises of the modules a program imports.       *)
EXTENDS BuildOutput, LogRotation, HeapRegistry, Imports, FiniteSetTheorems, SequenceTheorems,
        WellFoundedInduction, TLAPS

--------------------------------------------------------------------------------
(* What compile_file promises of its destination, for any number of compilers that *)
(* build to the same one, whatever fails and whoever is killed.                    *)
(*                                                                                 *)
(* The argument: what is in a build's private directory is known at every step, so *)
(* that what it renames is whole and nothing is left behind it; a build that has   *)
(* published never publishes again, so that what an older build left cannot come   *)
(* back once it is removed; and a build is undisturbed only while no other runs.   *)

Past == {"rmdir", "metadata", "write metadata", "publish metadata", "drop archive", "drop metadata", "done"}
Working == {"front end", "emit", "audit", "companions", "link", "retain", "publish"}

\* The files of the private directory, by the step the build is at.
PrivateOf(c) ==
  /\ at[c] \in {"idle", "prepare", "mkdtemp", "refused"} => private[c] = None
  /\ at[c] \in {"invalidate", "front end", "rmdir"} => private[c] = NoFiles
  /\ at[c] \in Working => private[c] \in Files
  /\ at[c] \in {"emit", "audit", "companions"} => private[c].companions = "absent"
  /\ at[c] \in {"emit", "audit"} /\ mode[c] = "obj" => private[c].object = "absent"
  /\ at[c] \in {"emit", "audit"} /\ mode[c] # "obj" => private[c].staged = "absent"
  /\ at[c] = "audit" /\ mode[c] = "obj" => private[c].staged = "whole"
  /\ at[c] \in {"retain", "publish"} => private[c].object = "absent" /\ private[c].companions = "absent"
  /\ at[c] = "retain" \/ (at[c] = "publish" /\ ok[c]) => private[c].staged = "whole"
  /\ at[c] \in Past => private[c] \in {None, NoFiles}

\* Only archives have a second transaction, and only after the first has succeeded;
\* a test runs when its build is done.
StageOf(c) ==
  /\ at[c] \in {"metadata", "write metadata", "publish metadata"} => ok[c]
  /\ at[c] \in {"drop archive", "drop metadata"} => ~ok[c]
  /\ at[c] \in {"metadata", "write metadata", "publish metadata", "drop archive", "drop metadata"}
       => mode[c] = "lib"
  /\ verdict[c].said # "nothing" => at[c] = "done"
  /\ at[c] \notin {"drop metadata", "done", "killed"} => stuck[c] = {}
  /\ "metadata" \in stuck[c] => at[c] = "done"

\* A build whose metadata are there is done and has succeeded.
ContractsDone == \A c \in Builds : contract = c => at[c] = "done" /\ ok[c]

\* Only a build that is past its rename can be the maker of the destination, or be
\* found as one.
MakersPast ==
  /\ \A c \in Builds : c \in By(out) => at[c] \in Past \cup {"killed"}
  /\ \A b, c \in Builds : c \in older[b] => at[c] \in Past \cup {"killed"}

\* What was there before a build has not come back since it removed it.
OlderGone ==
  \A c \in Builds : at[c] \in Working \cup Past => By(out) \cap (older[c] \cup {Yesterday}) = {}

\* A failed build has no destination of its own, except while it withdraws it, and what
\* it could not withdraw.
FailedGoneOf(c) ==
  at[c] \in Past \ {"drop archive"} /\ ~ok[c] /\ ~MayLeaveItsOwn(c) => c \notin By(out)

\* An undisturbed build has no other beside it.
Alone == \A b, c \in Builds : at[b] # "idle" /\ ~disturbed[b] /\ c # b => ~Running(c)

\* What an undisturbed build has made of the two files.
OwnFilesOf(c) ==
  ~disturbed[c] =>
    /\ at[c] \in Working => out = None
    /\ at[c] \in {"rmdir", "metadata", "write metadata", "publish metadata", "done"} /\ ok[c]
         => out = [by |-> c, whole |-> TRUE]
    /\ at[c] = "drop archive" => out = [by |-> c, whole |-> TRUE]
    /\ at[c] \in {"rmdir", "drop metadata", "done"} /\ ~ok[c] /\ mode[c] = "lib" =>
         out = IF "archive" \in stuck[c] THEN [by |-> c, whole |-> TRUE] ELSE None
    /\ at[c] = "done" /\ mode[c] = "lib" /\ ok[c] => contract = c
    /\ at[c] = "done" /\ mode[c] = "lib" /\ ~ok[c] =>
         IF "metadata" \in stuck[c] THEN contract # None ELSE contract = None

\* A test that has passed ran an image that was built since it began, and its own
\* unless it was disturbed.
RanOwn ==
  \A c \in Builds :
    verdict[c].said = "PASS" => ok[c] /\ verdict[c].ran.by \in {c} \cup IF disturbed[c] THEN Builds ELSE {}

BuildOf(c) == PrivateOf(c) /\ StageOf(c) /\ FailedGoneOf(c) /\ OwnFilesOf(c)

BuildInv ==
  /\ BuildTypeOK /\ VisibleIsWhole
  /\ \A c \in Builds : BuildOf(c)
  /\ MakersPast /\ OlderGone /\ Alone /\ RanOwn /\ ContractsDone

--------------------------------------------------------------------------------
(* What a step of one build leaves of the others. *)

\* The steps of a running build: what it was asked for and what was recorded stay.
StepOf(b) ==
  /\ Running(b) /\ at'[b] # "idle"
  /\ UNCHANGED <<mode, older, disturbed, verdict>>
  /\ \A c \in Builds \ {b} : at'[c] = at[c] /\ private'[c] = private[c] /\ ok'[c] = ok[c] /\ stuck'[c] = stuck[c]
  /\ at[b] \notin {"drop archive", "drop metadata"} => stuck' = stuck
  /\ contract' \in {contract, None} \/ (contract' = b /\ at'[b] = "done" /\ ok'[b])

\* How it gets on: it removes what was there as it enters its work, and what is past the
\* rename stays past it.
MovesOn(b) ==
  /\ at'[b] \in Working \cup Past => at[b] \in Working \cup Past \/ out' = None
  /\ at[b] \in Past => at'[b] \in Past \cup {"killed"}

\* Nobody but a build at its rename becomes the maker of the destination.
NoNewMaker(b) ==
  \/ out' \in {out, None}
  \/ at[b] = "publish" /\ at'[b] = "rmdir" /\ By(out)' = {b}

LEMMA StepKeeps ==
  ASSUME BuildInv, NEW b \in Builds, StepOf(b), MovesOn(b), NoNewMaker(b),
         BuildTypeOK', VisibleIsWhole', BuildOf(b)'
  PROVE  BuildInv'
<1> USE DEF BuildInv
<1>1. /\ UNCHANGED <<mode, older, disturbed, verdict>> /\ Running(b)
      /\ \A c \in Builds \ {b} : at'[c] = at[c] /\ private'[c] = private[c] /\ ok'[c] = ok[c] /\ stuck'[c] = stuck[c]
  BY DEF StepOf
<1>2. By(out)' \subseteq By(out) \cup {b} /\ (b \in By(out)' => b \in By(out) \/ at'[b] = "rmdir")
  BY DEF NoNewMaker, By
<1>3. ASSUME NEW c \in Builds \ {b} PROVE BuildOf(c)'
  <2>1. PrivateOf(c)' BY <1>1 DEF BuildOf, PrivateOf
  <2>2. StageOf(c)' BY <1>1 DEF BuildOf, StageOf
  <2>3. FailedGoneOf(c)' BY <1>1, <1>2 DEF BuildOf, FailedGoneOf, MayLeaveItsOwn
  <2>4. OwnFilesOf(c)'
    <3>1. disturbed[c] \/ at[c] = "idle" BY <1>1 DEF Alone
    <3>2. QED BY <1>1, <3>1 DEF OwnFilesOf, Working
  <2>5. QED BY <2>1, <2>2, <2>3, <2>4 DEF BuildOf
<1>4. MakersPast'
  <2>1. ASSUME NEW c \in Builds, c \in By(out)' PROVE at'[c] \in Past \cup {"killed"}
    <3>1. CASE c = b BY <1>2, <2>1, <3>1 DEF MakersPast, MovesOn, Past, Running, StepOf
    <3>2. CASE c # b BY <1>1, <1>2, <2>1, <3>2 DEF MakersPast
    <3>3. QED BY <3>1, <3>2
  <2>2. ASSUME NEW d \in Builds, NEW c \in Builds, c \in older[d] PROVE at'[c] \in Past \cup {"killed"}
    <3>1. CASE c = b BY <1>1, <2>2, <3>1 DEF MakersPast, MovesOn, Running
    <3>2. CASE c # b BY <1>1, <2>2, <3>2 DEF MakersPast
    <3>3. QED BY <3>1, <3>2
  <2>3. QED BY <1>1, <2>1, <2>2 DEF MakersPast
<1>5. OlderGone'
  <2> SUFFICES ASSUME NEW c \in Builds, at'[c] \in Working \cup Past
               PROVE  By(out)' \cap (older[c] \cup {Yesterday}) = {}
    BY <1>1 DEF OlderGone
  <2>1. CASE out' = None BY <2>1 DEF By
  <2>2. CASE out' # None
    <3>1. at[c] \in Working \cup Past BY <1>1, <2>2 DEF MovesOn
    <3>2. By(out) \cap (older[c] \cup {Yesterday}) = {} BY <3>1 DEF OlderGone
    <3>3. CASE out' = out BY <3>2, <3>3 DEF By
    <3>4. CASE at[b] = "publish" /\ By(out)' = {b}
      <4>1. b \notin older[c] BY <3>4 DEF MakersPast, Past
      <4>2. b # Yesterday BY BuildAssumption
      <4>3. QED BY <3>4, <4>1, <4>2
    <3>5. QED BY <2>2, <3>3, <3>4 DEF NoNewMaker
  <2>3. QED BY <2>1, <2>2
<1>6. Alone'
  <2> SUFFICES ASSUME NEW d \in Builds, NEW c \in Builds, at'[d] # "idle", ~disturbed[d], c # d
               PROVE  ~Running(c)'
    BY <1>1 DEF Alone
  <2>1. at[d] # "idle" BY <1>1 DEF Running
  <2>2. ~Running(c) BY <2>1 DEF Alone
  <2>3. c # b BY <1>1, <2>2
  <2>4. QED BY <1>1, <2>2, <2>3 DEF Running
<1>7. RanOwn'
  <2>1. \A c \in Builds : verdict[c].said = "PASS" => c # b
    BY <1>1 DEF BuildOf, StageOf, Running
  <2>2. QED BY <1>1, <2>1 DEF RanOwn
<1>8. ContractsDone'
  <2>1. contract' \in {contract, None} \/ (contract' = b /\ at'[b] = "done" /\ ok'[b]) BY DEF StepOf
  <2>2. None \notin Builds BY BuildAssumption
  <2>3. QED BY <1>1, <2>1, <2>2 DEF ContractsDone, Running
<1>9. QED BY <1>3, <1>4, <1>5, <1>6, <1>7, <1>8

\* One file of the private directory changes.
LEMMA HoldsOne ==
  ASSUME BuildTypeOK, NEW b \in Builds, private[b] \in Files, NEW x \in Contents,
         NEW f \in {"object", "companions", "staged"}, Holds(b, f, x)
  PROVE  /\ private' \in [Builds -> {None} \cup Files] /\ private'[b] \in Files
         /\ \A c \in Builds \ {b} : private'[c] = private[c]
         /\ private'[b].object = IF f = "object" THEN x ELSE private[b].object
         /\ private'[b].companions = IF f = "companions" THEN x ELSE private[b].companions
         /\ private'[b].staged = IF f = "staged" THEN x ELSE private[b].staged
<1>1. CASE f = "object" BY <1>1 DEF Holds, BuildTypeOK, Files
<1>2. CASE f = "companions" BY <1>2 DEF Holds, BuildTypeOK, Files
<1>3. CASE f = "staged" BY <1>3 DEF Holds, BuildTypeOK, Files
<1>4. QED BY <1>1, <1>2, <1>3

LEMMA EmptyDirectory ==
  /\ NoFiles \in Files
  /\ NoFiles.object = "absent" /\ NoFiles.companions = "absent" /\ NoFiles.staged = "absent"
BY DEF NoFiles, Files, Contents

--------------------------------------------------------------------------------
(* Every step keeps the invariant. *)

LEMMA RefuseKeeps == ASSUME NEW b \in Builds PROVE BuildInv /\ Refuse(b) => BuildInv'
<1> SUFFICES ASSUME BuildInv, Refuse(b) PROVE BuildInv' OBVIOUS
<1> USE DEF BuildInv, BuildOf
<1>1. StepOf(b) BY DEF StepOf, Refuse, Goto, Fail, Holds, Shared, Asked, Running, BuildTypeOK
<1>2. /\ at[b] = "prepare" /\ at'[b] = "refused" /\ ~ok'[b] /\ private'[b] = private[b]
      /\ UNCHANGED <<out, contract>>
  BY EmptyDirectory DEF Refuse, Goto, Fail, Shared, BuildTypeOK, PrivateOf, Past
<1>3. BuildTypeOK' BY EmptyDirectory DEF Refuse, BuildTypeOK, Goto, Fail, Shared, Asked, Steps
<1>4. MovesOn(b) /\ NoNewMaker(b) /\ VisibleIsWhole'
  BY <1>1, <1>2 DEF MovesOn, NoNewMaker, VisibleIsWhole, By, Working, Past, Running
<1>5. PrivateOf(b)' BY <1>1, <1>2, EmptyDirectory DEF StepOf, PrivateOf, Working, Past, Running
<1>6. StageOf(b)' BY <1>1, <1>2 DEF StepOf, StageOf, Running
<1>7. FailedGoneOf(b)' BY <1>1, <1>2 DEF StepOf, FailedGoneOf, MayLeaveItsOwn, MakersPast, By, Past, Running, StageOf
<1>8. OwnFilesOf(b)' BY <1>1, <1>2 DEF StepOf, OwnFilesOf, Working, Running, StageOf
<1>9. QED BY <1>1, <1>3, <1>4, <1>5, <1>6, <1>7, <1>8, StepKeeps

LEMMA AcceptKeeps == ASSUME NEW b \in Builds PROVE BuildInv /\ Accept(b) => BuildInv'
<1> SUFFICES ASSUME BuildInv, Accept(b) PROVE BuildInv' OBVIOUS
<1> USE DEF BuildInv, BuildOf
<1>1. StepOf(b) BY DEF StepOf, Accept, Goto, Fail, Holds, Shared, Asked, Running, BuildTypeOK
<1>2. /\ at[b] = "prepare" /\ at'[b] = "mkdtemp" /\ ok'[b] = ok[b] /\ private'[b] = private[b]
      /\ UNCHANGED <<out, contract>>
  BY EmptyDirectory DEF Accept, Goto, Fail, Shared, BuildTypeOK, PrivateOf, Past
<1>3. BuildTypeOK' BY EmptyDirectory DEF Accept, BuildTypeOK, Goto, Fail, Shared, Asked, Steps
<1>4. MovesOn(b) /\ NoNewMaker(b) /\ VisibleIsWhole'
  BY <1>1, <1>2 DEF MovesOn, NoNewMaker, VisibleIsWhole, By, Working, Past, Running
<1>5. PrivateOf(b)' BY <1>1, <1>2, EmptyDirectory DEF StepOf, PrivateOf, Working, Past, Running
<1>6. StageOf(b)' BY <1>1, <1>2 DEF StepOf, StageOf, Running
<1>7. FailedGoneOf(b)' BY <1>1, <1>2 DEF StepOf, FailedGoneOf, MayLeaveItsOwn, MakersPast, By, Past, Running, StageOf
<1>8. OwnFilesOf(b)' BY <1>1, <1>2 DEF StepOf, OwnFilesOf, Working, Running, StageOf
<1>9. QED BY <1>1, <1>3, <1>4, <1>5, <1>6, <1>7, <1>8, StepKeeps

LEMMA MakeDirectoryKeeps == ASSUME NEW b \in Builds PROVE BuildInv /\ MakeDirectory(b) => BuildInv'
<1> SUFFICES ASSUME BuildInv, MakeDirectory(b) PROVE BuildInv' OBVIOUS
<1> USE DEF BuildInv, BuildOf
<1>1. StepOf(b) BY DEF StepOf, MakeDirectory, Goto, Fail, Holds, Shared, Asked, Running, BuildTypeOK
<1>2. /\ at[b] = "mkdtemp"
      /\ UNCHANGED <<out, contract>>
      /\ \/ at'[b] = "invalidate" /\ private'[b] = NoFiles /\ ok'[b] = ok[b]
         \/ at'[b] = "refused" /\ private'[b] = private[b] /\ ~ok'[b]
  BY DEF MakeDirectory, Goto, Fail, Shared, BuildTypeOK
<1>3. BuildTypeOK'
  <2>1. private' \in [Builds -> {None} \cup Files] BY EmptyDirectory DEF MakeDirectory, BuildTypeOK
  <2>2. at' \in [Builds -> Steps] BY DEF MakeDirectory, BuildTypeOK, Goto, Steps
  <2>3. ok' \in [Builds -> BOOLEAN] BY DEF MakeDirectory, BuildTypeOK, Fail
  <2>4. QED BY <2>1, <2>2, <2>3 DEF MakeDirectory, BuildTypeOK, Shared, Asked
<1>4. MovesOn(b) /\ NoNewMaker(b) /\ VisibleIsWhole'
  BY <1>1, <1>2 DEF MovesOn, NoNewMaker, VisibleIsWhole, By, Working, Past, Running
<1>5. PrivateOf(b)' BY <1>1, <1>2, EmptyDirectory DEF StepOf, PrivateOf, Working, Past, Running
<1>6. StageOf(b)' BY <1>1, <1>2 DEF StepOf, StageOf, Running
<1>7. FailedGoneOf(b)' BY <1>1, <1>2 DEF StepOf, FailedGoneOf, MayLeaveItsOwn, MakersPast, By, Past, Running, StageOf
<1>8. OwnFilesOf(b)' BY <1>1, <1>2 DEF StepOf, OwnFilesOf, Working, Running, StageOf
<1>9. QED BY <1>1, <1>3, <1>4, <1>5, <1>6, <1>7, <1>8, StepKeeps

LEMMA InvalidateKeeps == ASSUME NEW b \in Builds PROVE BuildInv /\ Invalidate(b) => BuildInv'
<1> SUFFICES ASSUME BuildInv, Invalidate(b) PROVE BuildInv' OBVIOUS
<1> USE DEF BuildInv, BuildOf
<1>1. StepOf(b) BY DEF StepOf, Invalidate, Goto, Fail, Holds, Shared, Asked, Running, BuildTypeOK
<1>2. /\ at[b] = "invalidate"
      /\ contract' = contract
      /\ \/ at'[b] = "front end" /\ out' = None /\ private'[b] = private[b] /\ ok'[b] = ok[b]
         \/ at'[b] = "refused" /\ out' = out /\ private'[b] = None /\ ~ok'[b]
  BY EmptyDirectory DEF Invalidate, Goto, Fail, Shared, BuildTypeOK, PrivateOf, Past
<1>3. BuildTypeOK' BY EmptyDirectory DEF Invalidate, BuildTypeOK, Goto, Fail, Shared, Asked, Steps
<1>4. MovesOn(b) /\ NoNewMaker(b) /\ VisibleIsWhole'
  BY <1>1, <1>2 DEF MovesOn, NoNewMaker, VisibleIsWhole, By, Working, Past, Running
<1>5. PrivateOf(b)' BY <1>1, <1>2, EmptyDirectory DEF StepOf, PrivateOf, Working, Past, Running
<1>6. StageOf(b)' BY <1>1, <1>2 DEF StepOf, StageOf, Running
<1>7. FailedGoneOf(b)' BY <1>1, <1>2 DEF StepOf, FailedGoneOf, MayLeaveItsOwn, MakersPast, By, Past, Running, StageOf
<1>8. OwnFilesOf(b)' BY <1>1, <1>2 DEF StepOf, OwnFilesOf, Working, Running, StageOf
<1>9. QED BY <1>1, <1>3, <1>4, <1>5, <1>6, <1>7, <1>8, StepKeeps

LEMMA FrontEndKeeps == ASSUME NEW b \in Builds PROVE BuildInv /\ FrontEnd(b) => BuildInv'
<1> SUFFICES ASSUME BuildInv, FrontEnd(b) PROVE BuildInv' OBVIOUS
<1> USE DEF BuildInv, BuildOf
<1>1. StepOf(b) BY DEF StepOf, FrontEnd, Goto, Fail, Holds, Shared, Asked, Running, BuildTypeOK
<1>2. /\ at[b] = "front end"
      /\ UNCHANGED <<out, contract>>
      /\ private'[b] = private[b]
      /\ \/ at'[b] = "emit" /\ ok'[b] = ok[b]
         \/ at'[b] = "publish" /\ ~ok'[b]
  BY EmptyDirectory DEF FrontEnd, Goto, Fail, Shared, BuildTypeOK, PrivateOf, Past
<1>3. BuildTypeOK' BY EmptyDirectory DEF FrontEnd, BuildTypeOK, Goto, Fail, Shared, Asked, Steps
<1>4. MovesOn(b) /\ NoNewMaker(b) /\ VisibleIsWhole'
  BY <1>1, <1>2 DEF MovesOn, NoNewMaker, VisibleIsWhole, By, Working, Past, Running
<1>5. PrivateOf(b)' BY <1>1, <1>2, EmptyDirectory DEF StepOf, PrivateOf, Working, Past, Running
<1>6. StageOf(b)' BY <1>1, <1>2 DEF StepOf, StageOf, Running
<1>7. FailedGoneOf(b)' BY <1>1, <1>2 DEF StepOf, FailedGoneOf, MayLeaveItsOwn, MakersPast, By, Past, Running, StageOf
<1>8. OwnFilesOf(b)' BY <1>1, <1>2 DEF StepOf, OwnFilesOf, Working, Running, StageOf
<1>9. QED BY <1>1, <1>3, <1>4, <1>5, <1>6, <1>7, <1>8, StepKeeps

LEMMA EmitBeginKeeps == ASSUME NEW b \in Builds PROVE BuildInv /\ EmitBegin(b) => BuildInv'
<1> SUFFICES ASSUME BuildInv, EmitBegin(b) PROVE BuildInv' OBVIOUS
<1> USE DEF BuildInv, BuildOf
<1>1. StepOf(b) BY DEF StepOf, EmitBegin, Goto, Fail, Holds, Shared, Asked, Running, BuildTypeOK
<1>2. /\ at[b] = "emit" /\ at'[b] = "emit" /\ ok'[b] = ok[b]
      /\ UNCHANGED <<out, contract>>
      /\ private'[b] \in Files
      /\ private'[b].companions = private[b].companions
      /\ mode[b] = "obj" => private'[b].object = private[b].object
      /\ mode[b] # "obj" => private'[b].staged = private[b].staged
      /\ private' \in [Builds -> {None} \cup Files]
  <2>1. /\ at[b] = "emit" /\ private[b] \in Files /\ "absent" \in Contents /\ "partial" \in Contents /\ "whole" \in Contents
        /\ EmittedFile(b) \in {"object", "companions", "staged"}
    BY DEF EmitBegin, PrivateOf, Working, Contents, EmittedFile
  <2>2. Holds(b, EmittedFile(b), "partial") /\ UNCHANGED <<out, contract, at, ok>> BY DEF EmitBegin, Shared
  <2>3. QED BY <2>1, <2>2, HoldsOne DEF EmittedFile
<1>3. BuildTypeOK'
  <2>1. at' \in [Builds -> Steps] BY DEF EmitBegin, Goto, Steps, BuildTypeOK
  <2>2. ok' \in [Builds -> BOOLEAN] BY DEF EmitBegin, Fail, BuildTypeOK
  <2>3. out' \in {None} \cup Artifact
    <3>1. [by |-> b, whole |-> TRUE] \in Artifact BY DEF Artifact
    <3>2. QED BY <1>2, <3>1 DEF BuildTypeOK
  <2>4. QED BY <1>1, <1>2, <2>1, <2>2, <2>3 DEF StepOf, BuildTypeOK
<1>4. MovesOn(b) /\ NoNewMaker(b) /\ VisibleIsWhole'
  BY <1>1, <1>2 DEF MovesOn, NoNewMaker, VisibleIsWhole, By, Working, Past, Running
<1>5. PrivateOf(b)' BY <1>1, <1>2, EmptyDirectory DEF StepOf, PrivateOf, Working, Past, Running
<1>6. StageOf(b)' BY <1>1, <1>2 DEF StepOf, StageOf, Running
<1>7. FailedGoneOf(b)' BY <1>1, <1>2 DEF StepOf, FailedGoneOf, MayLeaveItsOwn, MakersPast, By, Past, Running, StageOf
<1>8. OwnFilesOf(b)' BY <1>1, <1>2 DEF StepOf, OwnFilesOf, Working, Running, StageOf
<1>9. QED BY <1>1, <1>3, <1>4, <1>5, <1>6, <1>7, <1>8, StepKeeps

LEMMA EmitEndKeeps == ASSUME NEW b \in Builds PROVE BuildInv /\ EmitEnd(b) => BuildInv'
<1> SUFFICES ASSUME BuildInv, EmitEnd(b) PROVE BuildInv' OBVIOUS
<1> USE DEF BuildInv, BuildOf
<1>1. StepOf(b) BY DEF StepOf, EmitEnd, Goto, Fail, Holds, Shared, Asked, Running, BuildTypeOK
<1>2. /\ at[b] = "emit"
      /\ UNCHANGED <<out, contract>>
      /\ private'[b] \in Files
      /\ private'[b].companions = private[b].companions
      /\ mode[b] = "obj" => private'[b].object = private[b].object
      /\ mode[b] # "obj" => private'[b].staged = private[b].staged
      /\ \/ /\ at'[b] = "audit" /\ ok'[b] = ok[b]
            /\ mode[b] = "obj" => private'[b].staged = "whole"
         \/ /\ at'[b] = "publish" /\ ~ok'[b]
            /\ mode[b] # "obj" => private'[b].object = "absent"
      /\ private' \in [Builds -> {None} \cup Files]
  <2>1. /\ at[b] = "emit" /\ private[b] \in Files /\ "absent" \in Contents /\ "partial" \in Contents /\ "whole" \in Contents
        /\ EmittedFile(b) \in {"object", "companions", "staged"}
    BY DEF EmitEnd, PrivateOf, Working, Contents, EmittedFile
  <2>2. UNCHANGED <<out, contract>> BY DEF EmitEnd, Shared
  <2>3. CASE /\ Holds(b, EmittedFile(b), "whole") /\ Goto(b, "audit") /\ UNCHANGED ok
    BY <2>1, <2>2, <2>3, HoldsOne DEF EmittedFile, Goto, BuildTypeOK
  <2>4. CASE Holds(b, EmittedFile(b), "absent") /\ Fail(b) /\ Goto(b, "publish")
    BY <2>1, <2>2, <2>4, HoldsOne DEF EmittedFile, Goto, Fail, BuildTypeOK
  <2>5. QED BY <2>3, <2>4 DEF EmitEnd
<1>3. BuildTypeOK'
  <2>1. at' \in [Builds -> Steps] BY DEF EmitEnd, Goto, Steps, BuildTypeOK
  <2>2. ok' \in [Builds -> BOOLEAN] BY DEF EmitEnd, Fail, BuildTypeOK
  <2>3. out' \in {None} \cup Artifact
    <3>1. [by |-> b, whole |-> TRUE] \in Artifact BY DEF Artifact
    <3>2. QED BY <1>2, <3>1 DEF BuildTypeOK
  <2>4. QED BY <1>1, <1>2, <2>1, <2>2, <2>3 DEF StepOf, BuildTypeOK
<1>4. MovesOn(b) /\ NoNewMaker(b) /\ VisibleIsWhole'
  BY <1>1, <1>2 DEF MovesOn, NoNewMaker, VisibleIsWhole, By, Working, Past, Running
<1>5. PrivateOf(b)' BY <1>1, <1>2, EmptyDirectory DEF StepOf, PrivateOf, Working, Past, Running
<1>6. StageOf(b)' BY <1>1, <1>2 DEF StepOf, StageOf, Running
<1>7. FailedGoneOf(b)' BY <1>1, <1>2 DEF StepOf, FailedGoneOf, MayLeaveItsOwn, MakersPast, By, Past, Running, StageOf
<1>8. OwnFilesOf(b)' BY <1>1, <1>2 DEF StepOf, OwnFilesOf, Working, Running, StageOf
<1>9. QED BY <1>1, <1>3, <1>4, <1>5, <1>6, <1>7, <1>8, StepKeeps

LEMMA AuditKeeps == ASSUME NEW b \in Builds PROVE BuildInv /\ Audit(b) => BuildInv'
<1> SUFFICES ASSUME BuildInv, Audit(b) PROVE BuildInv' OBVIOUS
<1> USE DEF BuildInv, BuildOf
<1>1. StepOf(b) BY DEF StepOf, Audit, Goto, Fail, Holds, Shared, Asked, Running, BuildTypeOK
<1>2. /\ at[b] = "audit"
      /\ UNCHANGED <<out, contract>>
      /\ private'[b] \in Files
      /\ \/ /\ private'[b] = private[b] /\ ok'[b] = ok[b]
            /\ at'[b] = IF mode[b] = "obj" THEN "publish" ELSE IF mode[b] = "lib" THEN "link" ELSE "companions"
         \/ /\ at'[b] = "publish" /\ ~ok'[b] /\ private'[b].companions = private[b].companions
            /\ mode[b] = "obj" => private'[b].object = private[b].object
            /\ mode[b] # "obj" => private'[b].object = "absent"
      /\ private' \in [Builds -> {None} \cup Files]
  <2>1. /\ at[b] = "audit" /\ private[b] \in Files /\ "absent" \in Contents /\ "partial" \in Contents /\ "whole" \in Contents
        /\ EmittedFile(b) \in {"object", "companions", "staged"}
    BY DEF Audit, PrivateOf, Working, Contents, EmittedFile
  <2>2. UNCHANGED <<out, contract>> BY DEF Audit, Shared
  <2>3. CASE /\ Goto(b, CASE mode[b] = "obj" -> "publish" [] mode[b] = "lib" -> "link" [] OTHER -> "companions")
             /\ UNCHANGED <<private, ok>>
    BY <2>1, <2>2, <2>3 DEF Goto, BuildTypeOK
  <2>4. CASE Holds(b, EmittedFile(b), "absent") /\ Fail(b) /\ Goto(b, "publish")
    BY <2>1, <2>2, <2>4, HoldsOne DEF EmittedFile, Goto, Fail, BuildTypeOK
  <2>5. QED BY <2>3, <2>4 DEF Audit
<1>3. BuildTypeOK'
  <2>1. at' \in [Builds -> Steps] BY DEF Audit, Goto, Steps, BuildTypeOK
  <2>2. ok' \in [Builds -> BOOLEAN] BY DEF Audit, Fail, BuildTypeOK
  <2>3. out' \in {None} \cup Artifact
    <3>1. [by |-> b, whole |-> TRUE] \in Artifact BY DEF Artifact
    <3>2. QED BY <1>2, <3>1 DEF BuildTypeOK
  <2>4. QED BY <1>1, <1>2, <2>1, <2>2, <2>3 DEF StepOf, BuildTypeOK
<1>4. MovesOn(b) /\ NoNewMaker(b) /\ VisibleIsWhole'
  BY <1>1, <1>2 DEF MovesOn, NoNewMaker, VisibleIsWhole, By, Working, Past, Running
<1>5. PrivateOf(b)' BY <1>1, <1>2, EmptyDirectory DEF StepOf, PrivateOf, Working, Past, Running
<1>6. StageOf(b)' BY <1>1, <1>2 DEF StepOf, StageOf, Running
<1>7. FailedGoneOf(b)' BY <1>1, <1>2 DEF StepOf, FailedGoneOf, MayLeaveItsOwn, MakersPast, By, Past, Running, StageOf
<1>8. OwnFilesOf(b)' BY <1>1, <1>2 DEF StepOf, OwnFilesOf, Working, Running, StageOf
<1>9. QED BY <1>1, <1>3, <1>4, <1>5, <1>6, <1>7, <1>8, StepKeeps

LEMMA CompanionsKeeps == ASSUME NEW b \in Builds PROVE BuildInv /\ Companions(b) => BuildInv'
<1> SUFFICES ASSUME BuildInv, Companions(b) PROVE BuildInv' OBVIOUS
<1> USE DEF BuildInv, BuildOf
<1>1. StepOf(b) BY DEF StepOf, Companions, Goto, Fail, Holds, Shared, Asked, Running, BuildTypeOK
<1>2. /\ at[b] = "companions"
      /\ UNCHANGED <<out, contract>>
      /\ private'[b] \in Files
      /\ \/ at'[b] = "link" /\ ok'[b] = ok[b]
         \/ /\ at'[b] = "publish" /\ ~ok'[b]
            /\ private'[b].object = "absent" /\ private'[b].companions = "absent"
      /\ private' \in [Builds -> {None} \cup Files]
  <2>1. at[b] = "companions" /\ private[b] \in Files /\ "absent" \in Contents /\ "partial" \in Contents /\ "whole" \in Contents /\ UNCHANGED <<out, contract>>
    BY DEF Companions, PrivateOf, Working, Contents, Shared
  <2>2. CASE \E made \in {"absent", "whole"} : Holds(b, "companions", made) /\ Goto(b, "link") /\ UNCHANGED ok
    <3>1. PICK made \in {"absent", "whole"} : Holds(b, "companions", made) BY <2>2
    <3>2. made \in Contents BY DEF Contents
    <3>3. QED BY <2>1, <2>2, <3>1, <3>2, HoldsOne DEF Goto, BuildTypeOK
  <2>3. CASE /\ private' = [private EXCEPT ![b].object = "absent", ![b].companions = "absent"]
             /\ Fail(b) /\ Goto(b, "publish")
    BY <2>1, <2>3 DEF Goto, Fail, BuildTypeOK, Files
  <2>4. QED BY <2>2, <2>3 DEF Companions
<1>3. BuildTypeOK'
  <2>1. at' \in [Builds -> Steps] BY DEF Companions, Goto, Steps, BuildTypeOK
  <2>2. ok' \in [Builds -> BOOLEAN] BY DEF Companions, Fail, BuildTypeOK
  <2>3. out' \in {None} \cup Artifact
    <3>1. [by |-> b, whole |-> TRUE] \in Artifact BY DEF Artifact
    <3>2. QED BY <1>2, <3>1 DEF BuildTypeOK
  <2>4. QED BY <1>1, <1>2, <2>1, <2>2, <2>3 DEF StepOf, BuildTypeOK
<1>4. MovesOn(b) /\ NoNewMaker(b) /\ VisibleIsWhole'
  BY <1>1, <1>2 DEF MovesOn, NoNewMaker, VisibleIsWhole, By, Working, Past, Running
<1>5. PrivateOf(b)' BY <1>1, <1>2, EmptyDirectory DEF StepOf, PrivateOf, Working, Past, Running
<1>6. StageOf(b)' BY <1>1, <1>2 DEF StepOf, StageOf, Running
<1>7. FailedGoneOf(b)' BY <1>1, <1>2 DEF StepOf, FailedGoneOf, MayLeaveItsOwn, MakersPast, By, Past, Running, StageOf
<1>8. OwnFilesOf(b)' BY <1>1, <1>2 DEF StepOf, OwnFilesOf, Working, Running, StageOf
<1>9. QED BY <1>1, <1>3, <1>4, <1>5, <1>6, <1>7, <1>8, StepKeeps

LEMMA LinkBeginKeeps == ASSUME NEW b \in Builds PROVE BuildInv /\ LinkBegin(b) => BuildInv'
<1> SUFFICES ASSUME BuildInv, LinkBegin(b) PROVE BuildInv' OBVIOUS
<1> USE DEF BuildInv, BuildOf
<1>1. StepOf(b) BY DEF StepOf, LinkBegin, Goto, Fail, Holds, Shared, Asked, Running, BuildTypeOK
<1>2. /\ at[b] = "link" /\ at'[b] = "link" /\ ok'[b] = ok[b]
      /\ UNCHANGED <<out, contract>>
      /\ private'[b] \in Files
      /\ private' \in [Builds -> {None} \cup Files]
  <2>1. at[b] = "link" /\ private[b] \in Files /\ "absent" \in Contents /\ "partial" \in Contents /\ "whole" \in Contents
    BY DEF LinkBegin, PrivateOf, Working, Contents
  <2>2. Holds(b, "staged", "partial") /\ UNCHANGED <<out, contract, at, ok>> BY DEF LinkBegin, Shared
  <2>3. QED BY <2>1, <2>2, HoldsOne
<1>3. BuildTypeOK'
  <2>1. at' \in [Builds -> Steps] BY DEF LinkBegin, Goto, Steps, BuildTypeOK
  <2>2. ok' \in [Builds -> BOOLEAN] BY DEF LinkBegin, Fail, BuildTypeOK
  <2>3. out' \in {None} \cup Artifact
    <3>1. [by |-> b, whole |-> TRUE] \in Artifact BY DEF Artifact
    <3>2. QED BY <1>2, <3>1 DEF BuildTypeOK
  <2>4. QED BY <1>1, <1>2, <2>1, <2>2, <2>3 DEF StepOf, BuildTypeOK
<1>4. MovesOn(b) /\ NoNewMaker(b) /\ VisibleIsWhole'
  BY <1>1, <1>2 DEF MovesOn, NoNewMaker, VisibleIsWhole, By, Working, Past, Running
<1>5. PrivateOf(b)' BY <1>1, <1>2, EmptyDirectory DEF StepOf, PrivateOf, Working, Past, Running
<1>6. StageOf(b)' BY <1>1, <1>2 DEF StepOf, StageOf, Running
<1>7. FailedGoneOf(b)' BY <1>1, <1>2 DEF StepOf, FailedGoneOf, MayLeaveItsOwn, MakersPast, By, Past, Running, StageOf
<1>8. OwnFilesOf(b)' BY <1>1, <1>2 DEF StepOf, OwnFilesOf, Working, Running, StageOf
<1>9. QED BY <1>1, <1>3, <1>4, <1>5, <1>6, <1>7, <1>8, StepKeeps

LEMMA LinkEndKeeps == ASSUME NEW b \in Builds PROVE BuildInv /\ LinkEnd(b) => BuildInv'
<1> SUFFICES ASSUME BuildInv, LinkEnd(b) PROVE BuildInv' OBVIOUS
<1> USE DEF BuildInv, BuildOf
<1>1. StepOf(b) BY DEF StepOf, LinkEnd, Goto, Fail, Holds, Shared, Asked, Running, BuildTypeOK
<1>2. /\ at[b] = "link"
      /\ UNCHANGED <<out, contract>>
      /\ private'[b] \in Files
      /\ private'[b].object = "absent" /\ private'[b].companions = "absent"
      /\ \/ at'[b] \in {"retain", "publish"} /\ ok'[b] = ok[b] /\ private'[b].staged = "whole"
         \/ at'[b] = "publish" /\ ~ok'[b]
      /\ private' \in [Builds -> {None} \cup Files]
  <2>1. at[b] = "link" /\ private[b] \in Files /\ UNCHANGED <<out, contract>>
    BY DEF LinkEnd, PrivateOf, Working, Shared
  <2>2. CASE /\ private' = [private EXCEPT ![b] = [NoFiles EXCEPT !.staged = "whole"]]
             /\ Goto(b, IF mode[b] = "observed" THEN "retain" ELSE "publish")
             /\ UNCHANGED ok
    <3>1. private'[b] = [NoFiles EXCEPT !.staged = "whole"] BY <2>2 DEF BuildTypeOK
    <3>2. private'[b] \in Files /\ private'[b].object = "absent" /\ private'[b].companions = "absent" /\ private'[b].staged = "whole"
      BY <3>1, EmptyDirectory DEF Files, Contents
    <3>3. private' \in [Builds -> {None} \cup Files] BY <2>2, <3>1, <3>2 DEF BuildTypeOK
    <3>4. at'[b] \in {"retain", "publish"} /\ ok'[b] = ok[b] BY <2>2 DEF Goto, BuildTypeOK
    <3>5. QED BY <2>1, <3>2, <3>3, <3>4
  <2>3. CASE /\ private' = [private EXCEPT ![b] = [NoFiles EXCEPT !.staged = private[b].staged]]
             /\ Fail(b) /\ Goto(b, "publish")
    <3>1. private'[b] = [NoFiles EXCEPT !.staged = private[b].staged] BY <2>3 DEF BuildTypeOK
    <3>2. private'[b] \in Files /\ private'[b].object = "absent" /\ private'[b].companions = "absent"
      BY <2>1, <3>1, EmptyDirectory DEF Files
    <3>3. private' \in [Builds -> {None} \cup Files] BY <2>3, <3>1, <3>2 DEF BuildTypeOK
    <3>4. at'[b] = "publish" /\ ~ok'[b] BY <2>3 DEF Goto, Fail, BuildTypeOK
    <3>5. QED BY <2>1, <3>2, <3>3, <3>4
  <2>4. QED BY <2>2, <2>3 DEF LinkEnd
<1>3. BuildTypeOK'
  <2>1. at' \in [Builds -> Steps] BY DEF LinkEnd, Goto, Steps, BuildTypeOK
  <2>2. ok' \in [Builds -> BOOLEAN] BY DEF LinkEnd, Fail, BuildTypeOK
  <2>3. out' \in {None} \cup Artifact
    <3>1. [by |-> b, whole |-> TRUE] \in Artifact BY DEF Artifact
    <3>2. QED BY <1>2, <3>1 DEF BuildTypeOK
  <2>4. QED BY <1>1, <1>2, <2>1, <2>2, <2>3 DEF StepOf, BuildTypeOK
<1>4. MovesOn(b) /\ NoNewMaker(b) /\ VisibleIsWhole'
  BY <1>1, <1>2 DEF MovesOn, NoNewMaker, VisibleIsWhole, By, Working, Past, Running
<1>5. PrivateOf(b)' BY <1>1, <1>2, EmptyDirectory DEF StepOf, PrivateOf, Working, Past, Running
<1>6. StageOf(b)' BY <1>1, <1>2 DEF StepOf, StageOf, Running
<1>7. FailedGoneOf(b)' BY <1>1, <1>2 DEF StepOf, FailedGoneOf, MayLeaveItsOwn, MakersPast, By, Past, Running, StageOf
<1>8. OwnFilesOf(b)' BY <1>1, <1>2 DEF StepOf, OwnFilesOf, Working, Running, StageOf
<1>9. QED BY <1>1, <1>3, <1>4, <1>5, <1>6, <1>7, <1>8, StepKeeps

LEMMA RetainKeeps == ASSUME NEW b \in Builds PROVE BuildInv /\ Retain(b) => BuildInv'
<1> SUFFICES ASSUME BuildInv, Retain(b) PROVE BuildInv' OBVIOUS
<1> USE DEF BuildInv, BuildOf
<1>1. StepOf(b) BY DEF StepOf, Retain, Goto, Fail, Holds, Shared, Asked, Running, BuildTypeOK
<1>2. /\ at[b] = "retain" /\ at'[b] = "publish"
      /\ UNCHANGED <<out, contract>>
      /\ private'[b] = private[b]
  BY EmptyDirectory DEF Retain, Goto, Fail, Shared, BuildTypeOK, PrivateOf, Past
<1>3. BuildTypeOK' BY EmptyDirectory DEF Retain, BuildTypeOK, Goto, Fail, Shared, Asked, Steps
<1>4. MovesOn(b) /\ NoNewMaker(b) /\ VisibleIsWhole'
  BY <1>1, <1>2 DEF MovesOn, NoNewMaker, VisibleIsWhole, By, Working, Past, Running
<1>5. PrivateOf(b)' BY <1>1, <1>2, EmptyDirectory DEF StepOf, PrivateOf, Working, Past, Running
<1>6. StageOf(b)' BY <1>1, <1>2 DEF StepOf, StageOf, Running
<1>7. FailedGoneOf(b)' BY <1>1, <1>2 DEF StepOf, FailedGoneOf, MayLeaveItsOwn, MakersPast, By, Past, Running, StageOf
<1>8. OwnFilesOf(b)' BY <1>1, <1>2 DEF StepOf, OwnFilesOf, Working, Running, StageOf
<1>9. QED BY <1>1, <1>3, <1>4, <1>5, <1>6, <1>7, <1>8, StepKeeps

LEMMA PublishKeeps == ASSUME NEW b \in Builds PROVE BuildInv /\ Publish(b) => BuildInv'
<1> SUFFICES ASSUME BuildInv, Publish(b) PROVE BuildInv' OBVIOUS
<1> USE DEF BuildInv, BuildOf
<1>1. StepOf(b) BY DEF StepOf, Publish, Goto, Fail, Holds, Shared, Asked, Running, BuildTypeOK
<1>2. /\ at[b] = "publish" /\ at'[b] = "rmdir"
      /\ contract' = contract
      /\ private'[b] = NoFiles
      /\ \/ ok[b] /\ ok'[b] /\ out' = [by |-> b, whole |-> TRUE]
         \/ ~ok'[b] /\ out' = out
      /\ private' \in [Builds -> {None} \cup Files]
  <2>1. /\ at[b] = "publish" /\ private[b] \in Files /\ "absent" \in Contents /\ "partial" \in Contents /\ "whole" \in Contents /\ contract' = contract
        /\ private[b].object = "absent" /\ private[b].companions = "absent"
        /\ ok[b] => private[b].staged = "whole"
    BY DEF Publish, PrivateOf, Working, Contents
  <2>2. Holds(b, "staged", "absent") /\ Goto(b, "rmdir") BY DEF Publish
  <2>3. private' \in [Builds -> {None} \cup Files] /\ private'[b] = NoFiles BY <2>1, <2>2, HoldsOne DEF Files, NoFiles
  <2>4. QED BY <2>1, <2>2, <2>3 DEF Publish, Goto, Fail, BuildTypeOK
<1>3. BuildTypeOK'
  <2>1. at' \in [Builds -> Steps] BY DEF Publish, Goto, Steps, BuildTypeOK
  <2>2. ok' \in [Builds -> BOOLEAN] BY DEF Publish, Fail, BuildTypeOK
  <2>3. out' \in {None} \cup Artifact
    <3>1. [by |-> b, whole |-> TRUE] \in Artifact BY DEF Artifact
    <3>2. QED BY <1>2, <3>1 DEF BuildTypeOK
  <2>4. QED BY <1>1, <1>2, <2>1, <2>2, <2>3 DEF StepOf, BuildTypeOK
<1>4. MovesOn(b) /\ NoNewMaker(b) /\ VisibleIsWhole'
  BY <1>1, <1>2 DEF MovesOn, NoNewMaker, VisibleIsWhole, By, Working, Past, Running
<1>5. PrivateOf(b)' BY <1>1, <1>2, EmptyDirectory DEF StepOf, PrivateOf, Working, Past, Running
<1>6. StageOf(b)' BY <1>1, <1>2 DEF StepOf, StageOf, Running
<1>7. FailedGoneOf(b)' BY <1>1, <1>2 DEF StepOf, FailedGoneOf, MayLeaveItsOwn, MakersPast, By, Past, Running, StageOf
<1>8. OwnFilesOf(b)' BY <1>1, <1>2 DEF StepOf, OwnFilesOf, Working, Running, StageOf
<1>9. QED BY <1>1, <1>3, <1>4, <1>5, <1>6, <1>7, <1>8, StepKeeps

LEMMA RemoveDirectoryKeeps == ASSUME NEW b \in Builds PROVE BuildInv /\ RemoveDirectory(b) => BuildInv'
<1> SUFFICES ASSUME BuildInv, RemoveDirectory(b) PROVE BuildInv' OBVIOUS
<1> USE DEF BuildInv, BuildOf
<1>1. StepOf(b) BY DEF StepOf, RemoveDirectory, Goto, Fail, Holds, Shared, Asked, Running, BuildTypeOK, AfterTransaction
<1>2. /\ at[b] = "rmdir"
      /\ UNCHANGED <<out, contract>>
      /\ private'[b] \in {None, NoFiles}
      /\ at'[b] = IF mode[b] # "lib" THEN "done" ELSE IF ok[b] THEN "metadata" ELSE "drop metadata"
      /\ ok'[b] \/ mode[b] # "observed" => ok'[b] = ok[b]
  <2>1. private[b] \in {None, NoFiles} /\ at[b] = "rmdir" BY DEF RemoveDirectory, PrivateOf
  <2>2. UNCHANGED <<out, contract>> BY DEF RemoveDirectory, Shared
  <2>3. private'[b] \in {None, NoFiles} BY <2>1 DEF RemoveDirectory, BuildTypeOK
  <2>4. ok'[b] \/ mode[b] # "observed" => ok'[b] = ok[b] BY DEF RemoveDirectory, BuildTypeOK
  <2>5. at'[b] = IF mode[b] # "lib" THEN "done" ELSE IF ok[b] THEN "metadata" ELSE "drop metadata"
    BY DEF RemoveDirectory, BuildTypeOK, Goto, AfterTransaction
  <2>6. QED BY <2>1, <2>2, <2>3, <2>4, <2>5
<1>3. BuildTypeOK' BY EmptyDirectory DEF RemoveDirectory, BuildTypeOK, Goto, Fail, Shared, Asked, Steps, AfterTransaction
<1>4. MovesOn(b) /\ NoNewMaker(b) /\ VisibleIsWhole'
  BY <1>1, <1>2 DEF MovesOn, NoNewMaker, VisibleIsWhole, By, Working, Past, Running
<1>5. PrivateOf(b)' BY <1>1, <1>2, EmptyDirectory DEF StepOf, PrivateOf, Working, Past, Running
<1>6. StageOf(b)' BY <1>1, <1>2 DEF StepOf, StageOf, Running
<1>7. FailedGoneOf(b)' BY <1>1, <1>2 DEF StepOf, FailedGoneOf, MayLeaveItsOwn, MakersPast, By, Past, Running, StageOf
<1>8. OwnFilesOf(b)' BY <1>1, <1>2 DEF StepOf, OwnFilesOf, Working, Running, StageOf
<1>9. QED BY <1>1, <1>3, <1>4, <1>5, <1>6, <1>7, <1>8, StepKeeps

LEMMA MetadataBeginKeeps == ASSUME NEW b \in Builds PROVE BuildInv /\ MetadataBegin(b) => BuildInv'
<1> SUFFICES ASSUME BuildInv, MetadataBegin(b) PROVE BuildInv' OBVIOUS
<1> USE DEF BuildInv, BuildOf
<1>1. StepOf(b) BY DEF StepOf, MetadataBegin, Goto, Fail, Holds, Shared, Asked, Running, BuildTypeOK
<1>2. /\ at[b] = "metadata"
      /\ out' = out
      /\ private'[b] = private[b]
      /\ \/ at'[b] = "write metadata" /\ ok'[b] = ok[b]
         \/ at'[b] = "drop archive" /\ ~ok'[b]
  BY EmptyDirectory DEF MetadataBegin, Goto, Fail, Shared, BuildTypeOK, PrivateOf, Past
<1>3. BuildTypeOK' BY EmptyDirectory DEF MetadataBegin, BuildTypeOK, Goto, Fail, Shared, Asked, Steps
<1>4. MovesOn(b) /\ NoNewMaker(b) /\ VisibleIsWhole'
  BY <1>1, <1>2 DEF MovesOn, NoNewMaker, VisibleIsWhole, By, Working, Past, Running
<1>5. PrivateOf(b)' BY <1>1, <1>2, EmptyDirectory DEF StepOf, PrivateOf, Working, Past, Running
<1>6. StageOf(b)' BY <1>1, <1>2 DEF StepOf, StageOf, Running
<1>7. FailedGoneOf(b)' BY <1>1, <1>2 DEF StepOf, FailedGoneOf, MayLeaveItsOwn, MakersPast, By, Past, Running, StageOf
<1>8. OwnFilesOf(b)' BY <1>1, <1>2 DEF StepOf, OwnFilesOf, Working, Running, StageOf
<1>9. QED BY <1>1, <1>3, <1>4, <1>5, <1>6, <1>7, <1>8, StepKeeps

LEMMA MetadataWriteKeeps == ASSUME NEW b \in Builds PROVE BuildInv /\ MetadataWrite(b) => BuildInv'
<1> SUFFICES ASSUME BuildInv, MetadataWrite(b) PROVE BuildInv' OBVIOUS
<1> USE DEF BuildInv, BuildOf
<1>1. StepOf(b) BY DEF StepOf, MetadataWrite, Goto, Fail, Holds, Shared, Asked, Running, BuildTypeOK
<1>2. /\ at[b] = "write metadata"
      /\ UNCHANGED <<out, contract>>
      /\ private'[b] = private[b]
      /\ \/ at'[b] = "publish metadata" /\ ok'[b] = ok[b]
         \/ at'[b] = "drop archive" /\ ~ok'[b]
  BY EmptyDirectory DEF MetadataWrite, Goto, Fail, Shared, BuildTypeOK, PrivateOf, Past
<1>3. BuildTypeOK' BY EmptyDirectory DEF MetadataWrite, BuildTypeOK, Goto, Fail, Shared, Asked, Steps
<1>4. MovesOn(b) /\ NoNewMaker(b) /\ VisibleIsWhole'
  BY <1>1, <1>2 DEF MovesOn, NoNewMaker, VisibleIsWhole, By, Working, Past, Running
<1>5. PrivateOf(b)' BY <1>1, <1>2, EmptyDirectory DEF StepOf, PrivateOf, Working, Past, Running
<1>6. StageOf(b)' BY <1>1, <1>2 DEF StepOf, StageOf, Running
<1>7. FailedGoneOf(b)' BY <1>1, <1>2 DEF StepOf, FailedGoneOf, MayLeaveItsOwn, MakersPast, By, Past, Running, StageOf
<1>8. OwnFilesOf(b)' BY <1>1, <1>2 DEF StepOf, OwnFilesOf, Working, Running, StageOf
<1>9. QED BY <1>1, <1>3, <1>4, <1>5, <1>6, <1>7, <1>8, StepKeeps

LEMMA MetadataPublishKeeps == ASSUME NEW b \in Builds PROVE BuildInv /\ MetadataPublish(b) => BuildInv'
<1> SUFFICES ASSUME BuildInv, MetadataPublish(b) PROVE BuildInv' OBVIOUS
<1> USE DEF BuildInv, BuildOf
<1>1. StepOf(b)
  <2>1. /\ Running(b) /\ UNCHANGED <<mode, older, disturbed, verdict, stuck, private>>
        /\ at[b] = "publish metadata"
    BY DEF MetadataPublish, Running, Asked
  <2>2. /\ at'[b] # "idle"
        /\ \A c \in Builds \ {b} : at'[c] = at[c] /\ ok'[c] = ok[c]
    BY DEF MetadataPublish, Goto, Fail, BuildTypeOK
  <2>3. contract' = contract \/ (contract' = b /\ at'[b] = "done" /\ ok'[b])
    BY <2>1 DEF MetadataPublish, Goto, BuildTypeOK, StageOf
  <2>4. QED BY <2>1, <2>2, <2>3 DEF StepOf
<1>2. /\ at[b] = "publish metadata"
      /\ out' = out
      /\ private'[b] = private[b]
      /\ \/ at'[b] = "done" /\ ok'[b] = ok[b] /\ contract' = b
         \/ at'[b] = "drop archive" /\ ~ok'[b]
  BY EmptyDirectory DEF MetadataPublish, Goto, Fail, Shared, BuildTypeOK, PrivateOf, Past
<1>3. BuildTypeOK' BY EmptyDirectory DEF MetadataPublish, BuildTypeOK, Goto, Fail, Shared, Asked, Steps
<1>4. MovesOn(b) /\ NoNewMaker(b) /\ VisibleIsWhole'
  BY <1>1, <1>2 DEF MovesOn, NoNewMaker, VisibleIsWhole, By, Working, Past, Running
<1>5. PrivateOf(b)' BY <1>1, <1>2, EmptyDirectory DEF StepOf, PrivateOf, Working, Past, Running
<1>6. StageOf(b)' BY <1>1, <1>2 DEF StepOf, StageOf, Running
<1>7. FailedGoneOf(b)' BY <1>1, <1>2 DEF StepOf, FailedGoneOf, MayLeaveItsOwn, MakersPast, By, Past, Running, StageOf
<1>8. OwnFilesOf(b)' BY <1>1, <1>2 DEF StepOf, OwnFilesOf, Working, Running, StageOf
<1>9. QED BY <1>1, <1>3, <1>4, <1>5, <1>6, <1>7, <1>8, StepKeeps

LEMMA DropArchiveKeeps == ASSUME NEW b \in Builds PROVE BuildInv /\ DropArchive(b) => BuildInv'
<1> SUFFICES ASSUME BuildInv, DropArchive(b) PROVE BuildInv' OBVIOUS
<1> USE DEF BuildInv, BuildOf
<1>1. StepOf(b) BY DEF StepOf, DropArchive, Goto, Stuck, Running, BuildTypeOK
<1>2. /\ at[b] = "drop archive" /\ at'[b] = "drop metadata"
      /\ contract' = contract
      /\ \/ out' = None /\ stuck'[b] = stuck[b]
         \/ out' = out /\ stuck'[b] = stuck[b] \cup {"archive"}
      /\ private'[b] = private[b] /\ ok'[b] = ok[b]
  BY DEF DropArchive, Goto, Stuck, BuildTypeOK
<1>3. BuildTypeOK'
  <2>1. stuck' \in [Builds -> SUBSET {"archive", "metadata"}]
    <3>1. stuck \in [Builds -> SUBSET {"archive", "metadata"}] BY DEF BuildTypeOK
    <3>2. CASE UNCHANGED stuck BY <3>1, <3>2
    <3>3. CASE Stuck(b, "archive") BY <3>1, <3>3 DEF Stuck
    <3>4. QED BY <3>2, <3>3 DEF DropArchive
  <2>2. at' \in [Builds -> Steps] BY DEF DropArchive, BuildTypeOK, Goto, Steps
  <2>3. out' \in {None} \cup Artifact BY DEF DropArchive, BuildTypeOK
  <2>4. QED BY <2>1, <2>2, <2>3 DEF DropArchive, BuildTypeOK
<1>4. MovesOn(b) /\ NoNewMaker(b) /\ VisibleIsWhole'
  BY <1>1, <1>2 DEF MovesOn, NoNewMaker, VisibleIsWhole, By, Working, Past, Running
<1>5. PrivateOf(b)' BY <1>1, <1>2, EmptyDirectory DEF StepOf, PrivateOf, Working, Past, Running
<1>6. StageOf(b)' BY <1>1, <1>2 DEF StepOf, StageOf, Running
<1>7. FailedGoneOf(b)' BY <1>1, <1>2 DEF StepOf, FailedGoneOf, MayLeaveItsOwn, MakersPast, By, Past, Running, StageOf
<1>8. OwnFilesOf(b)' BY <1>1, <1>2 DEF StepOf, OwnFilesOf, Working, Running, StageOf
<1>9. QED BY <1>1, <1>3, <1>4, <1>5, <1>6, <1>7, <1>8, StepKeeps

LEMMA DropMetadataKeeps == ASSUME NEW b \in Builds PROVE BuildInv /\ DropMetadata(b) => BuildInv'
<1> SUFFICES ASSUME BuildInv, DropMetadata(b) PROVE BuildInv' OBVIOUS
<1> USE DEF BuildInv, BuildOf
<1>1. StepOf(b) BY DEF StepOf, DropMetadata, Goto, Stuck, Running, BuildTypeOK
<1>2. /\ at[b] = "drop metadata" /\ at'[b] = "done"
      /\ out' = out
      /\ \/ contract' = None /\ stuck'[b] = stuck[b]
         \/ contract' # None /\ stuck'[b] = stuck[b] \cup {"metadata"}
      /\ private'[b] = private[b] /\ ok'[b] = ok[b]
  BY DEF DropMetadata, Goto, Stuck, BuildTypeOK
<1>3. BuildTypeOK'
  <2>1. stuck' \in [Builds -> SUBSET {"archive", "metadata"}]
    <3>1. stuck \in [Builds -> SUBSET {"archive", "metadata"}] BY DEF BuildTypeOK
    <3>2. CASE UNCHANGED stuck BY <3>1, <3>2
    <3>3. CASE Stuck(b, "metadata") BY <3>1, <3>3 DEF Stuck
    <3>4. QED BY <3>2, <3>3 DEF DropMetadata
  <2>2. at' \in [Builds -> Steps] BY DEF DropMetadata, BuildTypeOK, Goto, Steps
  <2>3. contract' \in {None} \cup Builds \cup {Yesterday} BY DEF DropMetadata, BuildTypeOK
  <2>4. QED BY <2>1, <2>2, <2>3 DEF DropMetadata, BuildTypeOK
<1>4. MovesOn(b) /\ NoNewMaker(b) /\ VisibleIsWhole'
  BY <1>1, <1>2 DEF MovesOn, NoNewMaker, VisibleIsWhole, By, Working, Past, Running
<1>5. PrivateOf(b)' BY <1>1, <1>2, EmptyDirectory DEF StepOf, PrivateOf, Working, Past, Running
<1>6. StageOf(b)' BY <1>1, <1>2 DEF StepOf, StageOf, Running
<1>7. FailedGoneOf(b)' BY <1>1, <1>2 DEF StepOf, FailedGoneOf, MayLeaveItsOwn, MakersPast, By, Past, Running, StageOf
<1>8. OwnFilesOf(b)' BY <1>1, <1>2 DEF StepOf, OwnFilesOf, Working, Running, StageOf
<1>9. QED BY <1>1, <1>3, <1>4, <1>5, <1>6, <1>7, <1>8, StepKeeps

LEMMA KillKeeps == ASSUME NEW b \in Builds PROVE BuildInv /\ Kill(b) => BuildInv'
<1> SUFFICES ASSUME BuildInv, Kill(b) PROVE BuildInv' OBVIOUS
<1> USE DEF BuildInv, BuildOf
<1>1. StepOf(b) BY DEF StepOf, Kill, Goto, Fail, Holds, Shared, Asked, Running, BuildTypeOK
<1>2. /\ Running(b) /\ at'[b] = "killed"
      /\ UNCHANGED <<out, contract, stuck>>
      /\ private'[b] = private[b] /\ ok'[b] = ok[b]
  BY DEF Kill, Goto, Shared, Asked, BuildTypeOK
<1>3. BuildTypeOK' BY EmptyDirectory DEF Kill, BuildTypeOK, Goto, Fail, Shared, Asked, Steps
<1>4. MovesOn(b) /\ NoNewMaker(b) /\ VisibleIsWhole'
  BY <1>1, <1>2 DEF MovesOn, NoNewMaker, VisibleIsWhole, By, Working, Past, Running
<1>5. PrivateOf(b)' BY <1>1, <1>2, EmptyDirectory DEF StepOf, PrivateOf, Working, Past, Running
<1>6. StageOf(b)' BY <1>1, <1>2 DEF StepOf, StageOf, Running
<1>7. FailedGoneOf(b)' BY <1>1, <1>2 DEF StepOf, FailedGoneOf, MayLeaveItsOwn, MakersPast, By, Past, Running, StageOf
<1>8. OwnFilesOf(b)' BY <1>1, <1>2 DEF StepOf, OwnFilesOf, Working, Running, StageOf
<1>9. QED BY <1>1, <1>3, <1>4, <1>5, <1>6, <1>7, <1>8, StepKeeps

\* A build that starts disturbs those that are under way, and is disturbed by them.
LEMMA StartKeeps == ASSUME NEW b \in Builds PROVE BuildInv /\ Start(b) => BuildInv'
<1> SUFFICES ASSUME BuildInv, Start(b) PROVE BuildInv' OBVIOUS
<1> USE DEF BuildInv, BuildOf
<1>1. /\ at[b] = "idle" /\ at' = [at EXCEPT ![b] = "prepare"]
      /\ mode' \in [Builds -> Modes] /\ \A c \in Builds \ {b} : mode'[c] = mode[c]
      /\ older' = [older EXCEPT ![b] = By(out)]
      /\ disturbed' = [d \in Builds |-> \/ disturbed[d]
                                        \/ d = b /\ \E e \in Builds : Running(e)
                                        \/ d # b /\ at[d] # "idle"]
      /\ UNCHANGED <<out, contract, private, ok, stuck, verdict>>
  BY DEF Start, Goto, BuildTypeOK
<1>2. /\ at'[b] = "prepare" /\ \A c \in Builds \ {b} : at'[c] = at[c]
      /\ older'[b] = By(out) /\ \A c \in Builds \ {b} : older'[c] = older[c]
  BY <1>1 DEF BuildTypeOK
<1>3. BuildTypeOK'
  <2>1. By(out) \subseteq Builds \cup {Yesterday} BY DEF BuildTypeOK, By, Artifact
  <2>2. older' \in [Builds -> SUBSET (Builds \cup {Yesterday})] BY <1>1, <2>1 DEF BuildTypeOK
  <2>3. at' \in [Builds -> Steps] BY <1>1 DEF BuildTypeOK, Steps
  <2>4. QED BY <1>1, <2>2, <2>3 DEF BuildTypeOK
<1>4. VisibleIsWhole' BY <1>1 DEF VisibleIsWhole
<1>5. ASSUME NEW c \in Builds PROVE BuildOf(c)'
  <2>1. CASE c = b
    <3>1. PrivateOf(b)' BY <1>1, <1>2 DEF PrivateOf, Working, Past
    <3>2. StageOf(b)' BY <1>1, <1>2 DEF StageOf
    <3>3. FailedGoneOf(b)' /\ OwnFilesOf(b)' BY <1>2 DEF FailedGoneOf, OwnFilesOf, Working, Past, MayLeaveItsOwn
    <3>4. QED BY <2>1, <3>1, <3>2, <3>3
  <2>2. CASE c # b
    <3>1. at'[c] = at[c] /\ mode'[c] = mode[c] BY <1>1, <1>2, <2>2
    <3>2. PrivateOf(c)' BY <1>1, <3>1 DEF PrivateOf
    <3>3. StageOf(c)' BY <1>1, <3>1 DEF StageOf
    <3>4. FailedGoneOf(c)' BY <1>1, <3>1 DEF FailedGoneOf, By, MayLeaveItsOwn
    <3>5. OwnFilesOf(c)' BY <1>1, <3>1 DEF OwnFilesOf
    <3>6. QED BY <3>2, <3>3, <3>4, <3>5
  <2>3. QED BY <2>1, <2>2
<1>6. MakersPast'
  <2>1. \A c \in Builds : at[c] \in Past \cup {"killed"} => at'[c] = at[c]
    BY <1>1, <1>2 DEF Past
  <2>2. QED BY <1>1, <1>2, <2>1 DEF MakersPast, By
<1>7. OlderGone' BY <1>1, <1>2 DEF OlderGone, By, Working, Past
<1>8. Alone'
  <2> SUFFICES ASSUME NEW d \in Builds, NEW c \in Builds, at'[d] # "idle", ~disturbed'[d], c # d, Running(c)'
               PROVE  FALSE
    BY DEF Alone
  <2>1. CASE d = b BY <1>1, <1>2, <2>1 DEF Running
  <2>2. CASE d # b BY <1>1, <1>2, <2>2
  <2>3. QED BY <2>1, <2>2
<1>9. RanOwn' /\ ContractsDone' BY <1>1, <1>2 DEF RanOwn, ContractsDone
<1>10. QED BY <1>3, <1>4, <1>5, <1>6, <1>7, <1>8, <1>9

\* A test is run, or reported as failed.
LEMMA ExecuteKeeps == ASSUME NEW b \in Builds PROVE BuildInv /\ Execute(b) => BuildInv'
<1> SUFFICES ASSUME BuildInv, Execute(b) PROVE BuildInv' OBVIOUS
<1> USE DEF BuildInv, BuildOf
<1>1. /\ at[b] = "done" /\ UNCHANGED <<out, contract, private, at, ok, mode, older, disturbed, stuck>>
      /\ \A c \in Builds \ {b} : verdict'[c] = verdict[c]
  BY DEF Execute, Shared, BuildTypeOK
<1>2. By(out)' = By(out) BY <1>1 DEF By
<1>3. /\ verdict' \in [Builds -> Verdicts]
      /\ verdict'[b].said = "PASS" => ok[b] /\ out # None /\ verdict'[b].ran = out
  <2>1. CASE \E said \in {"PASS", "FAIL"} :
               /\ ok[b] /\ (said = "PASS" => out # None /\ out.whole)
               /\ verdict' = [verdict EXCEPT ![b] = [said |-> said, ran |-> out]]
    BY <2>1 DEF BuildTypeOK, Verdicts
  <2>2. CASE verdict' = [verdict EXCEPT ![b].said = "FAIL"]
    BY <2>2 DEF BuildTypeOK, Verdicts
  <2>3. QED BY <2>1, <2>2 DEF Execute
<1>4. BuildTypeOK' BY <1>1, <1>3 DEF BuildTypeOK
<1>5. VisibleIsWhole' /\ MakersPast' /\ OlderGone' /\ Alone' /\ ContractsDone'
  BY <1>1, <1>2 DEF VisibleIsWhole, MakersPast, OlderGone, Alone, Running, ContractsDone
<1>6. ASSUME NEW c \in Builds PROVE BuildOf(c)'
  <2>1. PrivateOf(c)' /\ FailedGoneOf(c)' BY <1>1, <1>2 DEF PrivateOf, FailedGoneOf, MayLeaveItsOwn
  <2>2. StageOf(c)' BY <1>1 DEF StageOf
  <2>3. OwnFilesOf(c)' BY <1>1 DEF OwnFilesOf
  <2>4. QED BY <2>1, <2>2, <2>3
<1>7. RanOwn'
  <2>1. ASSUME verdict'[b].said = "PASS"
        PROVE  ok[b] /\ verdict'[b].ran.by \in {b} \cup IF disturbed[b] THEN Builds ELSE {}
    <3>1. ok[b] /\ out # None /\ verdict'[b].ran = out BY <1>3, <2>1
    <3>2. ASSUME ~disturbed[b] PROVE out.by = b
      <4>1. out = [by |-> b, whole |-> TRUE] BY <1>1, <3>1, <3>2 DEF OwnFilesOf
      <4>2. QED BY <4>1
    <3>3. By(out) = {out.by} /\ out \in Artifact BY <3>1 DEF By, BuildTypeOK
    <3>4. out.by \in Builds BY <1>1, <3>3 DEF OlderGone, Past, Artifact
    <3>5. QED BY <3>1, <3>2, <3>4
  <2>2. QED BY <1>1, <2>1 DEF RanOwn
<1>8. QED BY <1>4, <1>5, <1>6, <1>7

LEMMA BuildInvInit == BuildInit => BuildInv
<1> SUFFICES ASSUME BuildInit PROVE BuildInv OBVIOUS
<1> USE BuildAssumption DEF BuildInit
<1>1. BuildTypeOK
  <2>1. out \in Artifact BY DEF Artifact
  <2>2. [said |-> "nothing", ran |-> None] \in Verdicts BY DEF Verdicts
  <2>3. QED BY <2>1, <2>2 DEF BuildTypeOK, Modes, Steps
<1>2. VisibleIsWhole BY DEF VisibleIsWhole
<1>3. \A c \in Builds : PrivateOf(c) /\ StageOf(c) BY DEF PrivateOf, StageOf, Working, Past
<1>4. \A c \in Builds : FailedGoneOf(c) /\ OwnFilesOf(c) BY DEF FailedGoneOf, OwnFilesOf, Working, Past
<1>5. By(out) \subseteq {Yesterday} BY DEF By
<1>6. MakersPast /\ OlderGone BY <1>5 DEF MakersPast, OlderGone, Working, Past
<1>7. Alone /\ RanOwn /\ ContractsDone BY DEF Alone, RanOwn, ContractsDone
<1>8. QED BY <1>1, <1>2, <1>3, <1>4, <1>6, <1>7 DEF BuildInv, BuildOf

LEMMA BuildInvKept == BuildInv /\ [BuildNext]_buildVars => BuildInv'
<1> SUFFICES ASSUME BuildInv, [BuildNext]_buildVars PROVE BuildInv' OBVIOUS
<1>1. ASSUME NEW b \in Builds, BuildStep(b) PROVE BuildInv'
  BY <1>1, StartKeeps, RefuseKeeps, AcceptKeeps, MakeDirectoryKeeps, InvalidateKeeps, FrontEndKeeps, EmitBeginKeeps, EmitEndKeeps, AuditKeeps, CompanionsKeeps, LinkBeginKeeps,
     LinkEndKeeps, RetainKeeps, PublishKeeps, RemoveDirectoryKeeps, MetadataBeginKeeps, MetadataWriteKeeps, MetadataPublishKeeps, DropArchiveKeeps, DropMetadataKeeps, KillKeeps, ExecuteKeeps DEF BuildStep
<1>2. CASE UNCHANGED buildVars
  <2>1. UNCHANGED <<out, contract, mode, at, private, ok, older, disturbed, stuck, verdict>>
    BY <1>2 DEF buildVars
  <2>2. BuildTypeOK' /\ VisibleIsWhole' BY <2>1 DEF BuildInv, BuildTypeOK, VisibleIsWhole
  <2>3. ASSUME NEW c \in Builds PROVE BuildOf(c)'
    <3>1. PrivateOf(c)' /\ StageOf(c)' BY <2>1 DEF BuildInv, BuildOf, PrivateOf, StageOf
    <3>2. FailedGoneOf(c)' BY <2>1 DEF BuildInv, BuildOf, FailedGoneOf, By, MayLeaveItsOwn
    <3>3. OwnFilesOf(c)' BY <2>1 DEF BuildInv, BuildOf, OwnFilesOf
    <3>4. QED BY <3>1, <3>2, <3>3 DEF BuildOf
  <2>4. MakersPast' /\ OlderGone' BY <2>1 DEF BuildInv, MakersPast, OlderGone, By
  <2>5. Alone' /\ RanOwn' /\ ContractsDone' BY <2>1 DEF BuildInv, Alone, RanOwn, Running, ContractsDone
  <2>6. QED BY <2>2, <2>3, <2>4, <2>5 DEF BuildInv
<1>3. QED BY <1>1, <1>2 DEF BuildNext

\* The invariant the theorems below are read from.
THEOREM BuildInvHolds == BuildSpec => []BuildInv
<1>1. QED BY BuildInvInit, BuildInvKept, PTL DEF BuildSpec

--------------------------------------------------------------------------------
(* What it says of the destination. *)

\* However many compilers build to one destination, whatever fails and whoever is
\* killed, no partial file is ever seen there (output_transaction.h:4).
THEOREM AlwaysVisibleIsWhole == BuildSpec => []VisibleIsWhole
<1>1. BuildInv => VisibleIsWhole BY DEF BuildInv
<1>2. QED BY <1>1, BuildInvHolds, PTL

\* A failed build leaves neither what was there before it, nor anything of its own that
\* it could remove again, nor a file in its private directory, whatever other builds do
\* meanwhile.
LEMMA FailureLeavesNothing == BuildInv => FailureInvalidates /\ PrivateFilesRemoved
<1> SUFFICES ASSUME BuildInv, NEW b \in Builds
             PROVE  /\ at[b] = "done" /\ ~ok[b] =>
                         By(out) \cap (older[b] \cup IF MayLeaveItsOwn(b) THEN {} ELSE {b}) = {}
                    /\ at[b] \in {"done", "refused"} => private[b] \in {None, NoFiles}
  BY DEF FailureInvalidates, PrivateFilesRemoved
<1>1. OlderGone /\ FailedGoneOf(b) /\ PrivateOf(b) BY DEF BuildInv, BuildOf
<1>2. QED BY <1>1 DEF OlderGone, FailedGoneOf, PrivateOf, Past

\* A build that had the destination to itself and has succeeded leaves its own whole
\* result there, an archive with its own metadata; an archive build that failed leaves
\* neither file but for what it could not remove; and a test that passes has run an
\* image built for it.
LEMMA SuccessLeavesItsOwn == BuildInv => OkMeansPublished /\ ArchiveWithItsContract
<1> SUFFICES ASSUME BuildInv PROVE OkMeansPublished /\ ArchiveWithItsContract OBVIOUS
<1>1. RanOwn /\ \A b \in Builds : OwnFilesOf(b) BY DEF BuildInv, BuildOf
<1>2. OkMeansPublished BY <1>1 DEF OkMeansPublished, OwnFilesOf, RanOwn
<1>3. ASSUME NEW b \in Builds, at[b] = "done", mode[b] = "lib", ~disturbed[b]
      PROVE  IF ok[b] THEN By(out) = {b} /\ contract = b
             ELSE /\ By(out) = IF "archive" \in stuck[b] THEN {b} ELSE {}
                  /\ IF "metadata" \in stuck[b] THEN contract \notin {None, b} ELSE contract = None
  <2>1. ASSUME out = [by |-> b, whole |-> TRUE] PROVE By(out) = {b}
    <3>1. out \in Artifact BY <2>1 DEF Artifact
    <3>2. out # None BY <3>1, BuildAssumption DEF Artifact
    <3>3. QED BY <2>1, <3>2 DEF By
  <2>2. CASE ok[b]
    <3>1. out = [by |-> b, whole |-> TRUE] /\ contract = b BY <1>1, <1>3, <2>2 DEF OwnFilesOf
    <3>2. QED BY <2>1, <2>2, <3>1
  <2>3. CASE ~ok[b]
    <3>1. /\ out = IF "archive" \in stuck[b] THEN [by |-> b, whole |-> TRUE] ELSE None
          /\ IF "metadata" \in stuck[b] THEN contract # None ELSE contract = None
      BY <1>1, <1>3, <2>3 DEF OwnFilesOf
    <3>2. contract # b BY <2>3 DEF BuildInv, ContractsDone
    <3>3. By(None) = {} BY DEF By
    <3>4. By(out) = IF "archive" \in stuck[b] THEN {b} ELSE {} BY <2>1, <3>1, <3>3
    <3>5. QED BY <2>3, <3>1, <3>2, <3>4
  <2>4. QED BY <2>2, <2>3
<1>4. QED BY <1>2, <1>3 DEF ArchiveWithItsContract

\* However many builds share the destination, nothing from before a failed build comes
\* back and nothing of it stays but what it could not remove; what one that was alone
\* has built is there with its own metadata if it succeeded, and a failed archive build
\* that was alone leaves neither, up to what it could not remove.
THEOREM OutcomeAlwaysTold == BuildSpec => []OutcomeTold
<1>1. BuildInv => OutcomeTold BY FailureLeavesNothing, SuccessLeavesItsOwn DEF OutcomeTold
<1>2. QED BY <1>1, BuildInvHolds, PTL

--------------------------------------------------------------------------------
(* The logs.  The argument: only the holder of the lock is within a rotation, and  *)
(* where it is says which index is free for the next log to be moved to and which  *)
(* logs have not been moved yet.  A log has seen at least as many rotations begin  *)
(* as its index says, one more while it still has to be moved, so that what a      *)
(* rotation removes is too old.  A rotation that is cut short only gives up what   *)
(* it knew.                                                                        *)

\* Within the lock.
Rotating == {"find", "move", "fresh", "open"}
OpenedRuns == {r \in LogRuns : Opened(r)}

\* The type invariant of the logger.
LogTypeOK ==
  /\ logFiles \in [LogIndices -> SUBSET LogRuns]
  /\ logLock \in LogRuns \cup {NoRun}
  /\ logAt \in [LogRuns -> LogPlaces]
  /\ logIndex \in [LogRuns -> LogIndices]
  /\ logFound \in [LogRuns -> LogRuns \cup {NoRun}]
  /\ logSince \in [LogRuns -> Nat]
  /\ logOrder \in [LogRuns -> Nat]

LockIsHeld == \A r \in LogRuns : logAt[r] \in Rotating => logLock = r

\* Who has a log, and that each is older than its index.
LogsOpened ==
  /\ \A r \in LogRuns : Opened(r) <=> logAt[r] = "running"
  /\ \A i \in LogIndices : \A f \in logFiles[i] : Opened(f) /\ logSince[f] >= i

\* What the holder of the lock knows of the directory.
PlanOf(r) ==
  /\ logAt[r] \in {"find", "move"} =>
       /\ \A i \in 0 .. logIndex[r] : \A f \in logFiles[i] : logSince[f] > i
       /\ logIndex[r] < LogMaxIndex => logFiles[logIndex[r] + 1] = {}
  /\ logAt[r] = "move" => logFound[r] \in logFiles[logIndex[r]]
  /\ logAt[r] \in {"fresh", "open"} => logFiles[0] = {}
RotationPlan == \A r \in LogRuns : PlanOf(r)

\* The numbers in logOrder are those of the logs opened so far.
OrdersCounted ==
  IsFiniteSet(OpenedRuns) /\ \A r \in LogRuns : logOrder[r] <= Cardinality(OpenedRuns)

LogInv ==
  LogTypeOK /\ LockIsHeld /\ LogsOpened /\ RotationPlan /\ OrdersCounted /\ LogsSurvive

--------------------------------------------------------------------------------

LEMMA LogInvInit == LogInit => LogInv
  <1> SUFFICES ASSUME LogInit PROVE LogInv
    OBVIOUS
  <1> USE LogAssumption
  <1>1. LogTypeOK /\ LockIsHeld /\ LogsOpened /\ RotationPlan
    BY DEF LogInit, LogTypeOK, LockIsHeld, LogsOpened, RotationPlan, LogIndices, LogPlaces, Opened, Rotating, PlanOf
  <1>2. OpenedRuns = {}
    BY DEF LogInit, OpenedRuns, Opened
  <1>3. OrdersCounted
    BY <1>2, FS_EmptySet DEF LogInit, OrdersCounted
  <1>4. LogsSurvive
    BY DEF LogInit, LogsSurvive, ParallelCompilersKeepTheirLogs, LogsInOrder, LogIndices, Opened
  <1> QED
    BY <1>1, <1>3, <1>4 DEF LogInv

\* A step that opens no log leaves the count of them alone.
LEMMA CountKept ==
  ASSUME OrdersCounted, UNCHANGED logOrder
  PROVE  OrdersCounted'
  <1>1. OpenedRuns' = OpenedRuns
    BY DEF OpenedRuns, Opened
  <1> QED
    BY <1>1 DEF OrdersCounted

LEMMA OpenLoggerKeeps == ASSUME NEW r \in LogRuns PROVE LogInv /\ OpenLogger(r) => LogInv'
  <1> SUFFICES ASSUME LogInv, OpenLogger(r) PROVE LogInv'
    OBVIOUS
  <1> USE DEF LogInv, OpenLogger, LogGoto, LogHistory, LogTypeOK
  <1>1. LogTypeOK'
    BY DEF LogPlaces
  <1>2. LockIsHeld' /\ LogsOpened' /\ RotationPlan'
    BY DEF LockIsHeld, LogsOpened, RotationPlan, PlanOf, Rotating, Opened
  <1>3. OrdersCounted'
    BY CountKept
  <1>4. LogsSurvive'
    BY DEF LogsSurvive, ParallelCompilersKeepTheirLogs, LogsInOrder, Opened
  <1> QED
    BY <1>1, <1>2, <1>3, <1>4

LEMMA TakeLockKeeps == ASSUME NEW r \in LogRuns PROVE LogInv /\ TakeLock(r) => LogInv'
  <1> SUFFICES ASSUME LogInv, TakeLock(r) PROVE LogInv'
    OBVIOUS
  <1> USE LogAssumption DEF LogInv, TakeLock, LogGoto, LogTypeOK
  <1>1. LogTypeOK'
    BY DEF LogPlaces, LogIndices
  <1>2. LockIsHeld'
    BY DEF LockIsHeld, Rotating
  <1>3. \A s \in LogRuns : logSince'[s] = IF Opened(s) THEN logSince[s] + 1 ELSE 0
    OBVIOUS
  <1>4. LogsOpened'
    <2>1. \A s \in LogRuns : Opened(s)' <=> logAt'[s] = "running"
      BY DEF LogsOpened, Opened
    <2>2. \A i \in LogIndices : \A f \in logFiles'[i] : Opened(f)' /\ logSince'[f] >= i
      BY <1>3 DEF LogsOpened, Opened, LogIndices
    <2> QED
      BY <2>1, <2>2 DEF LogsOpened
  <1>5. RotationPlan'
    <2> SUFFICES ASSUME NEW s \in LogRuns, logAt'[s] \in Rotating PROVE PlanOf(s)'
      BY DEF RotationPlan, PlanOf, Rotating
    <2>1. s = r /\ logAt'[r] = "find" /\ logIndex'[r] = LogMaxIndex
      BY DEF LockIsHeld, Rotating
    <2>2. \A i \in 0 .. LogMaxIndex : \A f \in logFiles[i] : logSince'[f] > i
      BY <1>3 DEF LogsOpened, LogIndices
    <2> QED
      BY <2>1, <2>2 DEF PlanOf
  <1>6. OrdersCounted'
    BY CountKept
  <1>7. LogsInOrder'
    BY DEF LogsSurvive, LogsInOrder
  <1>8. ParallelCompilersKeepTheirLogs'
    <2> SUFFICES ASSUME NEW s \in LogRuns
                 PROVE  /\ logAt'[s] # "failed"
                        /\ Opened(s) => \/ \E i \in LogIndices : s \in logFiles[i]
                                        \/ logSince'[s] > LogMaxIndex
      BY DEF ParallelCompilersKeepTheirLogs, Opened
    <2> QED
      BY <1>3 DEF LogsSurvive, ParallelCompilersKeepTheirLogs
  <1> QED
    BY <1>1, <1>2, <1>4, <1>5, <1>6, <1>7, <1>8 DEF LogsSurvive

\* To the next round, or on to the compiler's own log.
LEMMA NextRoundMoves ==
  ASSUME NEW r \in LogRuns, LogTypeOK, NextRound(r)
  PROVE  /\ logAt' \in [LogRuns -> LogPlaces]
         /\ logIndex' \in [LogRuns -> LogIndices]
         /\ \A s \in LogRuns \ {r} : logAt'[s] = logAt[s] /\ logIndex'[s] = logIndex[s]
         /\ \/ logIndex[r] = 0 /\ logAt'[r] = "fresh"
            \/ logIndex[r] > 0 /\ logAt'[r] = "find" /\ logIndex'[r] = logIndex[r] - 1
  <1> USE LogAssumption DEF LogTypeOK, LogPlaces
  <1>1. CASE logIndex[r] = 0
    BY <1>1 DEF NextRound, LogGoto
  <1>2. CASE logIndex[r] # 0
    <2>1. logIndex[r] \in 0 .. LogMaxIndex /\ logIndex[r] - 1 \in 0 .. LogMaxIndex
      BY <1>2 DEF LogIndices
    <2>2. /\ logAt' = [logAt EXCEPT ![r] = "find"]
          /\ logIndex' = [logIndex EXCEPT ![r] = logIndex[r] - 1]
      BY <1>2 DEF NextRound, LogGoto
    <2> QED
      BY <2>1, <2>2 DEF LogIndices
  <1> QED
    BY <1>1, <1>2

LEMMA FindLogKeeps == ASSUME NEW r \in LogRuns PROVE LogInv /\ FindLog(r) => LogInv'
  <1> SUFFICES ASSUME LogInv, FindLog(r) PROVE LogInv'
    OBVIOUS
  <1> USE LogAssumption DEF LogInv
  <1>1. UNCHANGED <<logFiles, logLock, logSince, logOrder>>
    BY DEF FindLog, LogHistory
  <1>2. CASE logFiles[logIndex[r]] = {} /\ NextRound(r) /\ UNCHANGED logFound
    <2>1. /\ LogTypeOK'
          /\ \A s \in LogRuns \ {r} : logAt'[s] = logAt[s] /\ logIndex'[s] = logIndex[s]
          /\ \/ logIndex[r] = 0 /\ logAt'[r] = "fresh"
             \/ logIndex[r] > 0 /\ logAt'[r] = "find" /\ logIndex'[r] = logIndex[r] - 1
      BY <1>1, <1>2, NextRoundMoves DEF LogTypeOK
    <2>2. logAt[r] = "find"
      BY DEF FindLog
    <2>3. LockIsHeld' /\ LogsOpened'
      BY <1>1, <2>1, <2>2 DEF LockIsHeld, LogsOpened, Rotating, Opened
    <2>4. RotationPlan'
      <3>1. ASSUME NEW s \in LogRuns \ {r} PROVE PlanOf(s)'
        BY <1>1, <1>2, <2>1 DEF RotationPlan, PlanOf
      <3>2. PlanOf(r)'
        <4>1. /\ \A i \in 0 .. logIndex[r] : \A f \in logFiles[i] : logSince[f] > i
              /\ logIndex[r] \in 0 .. LogMaxIndex
          BY <2>2 DEF RotationPlan, PlanOf, LogTypeOK, LogIndices
        <4>2. CASE logIndex[r] = 0 /\ logAt'[r] = "fresh"
          BY <1>1, <1>2, <4>2 DEF PlanOf
        <4>3. CASE logIndex[r] > 0 /\ logAt'[r] = "find" /\ logIndex'[r] = logIndex[r] - 1
          <5>1. \A i \in 0 .. logIndex'[r] : i \in 0 .. logIndex[r]
            BY <4>1, <4>3
          <5>2. logIndex'[r] + 1 = logIndex[r]
            BY <4>1, <4>3
          <5> QED
            BY <1>1, <1>2, <4>1, <4>3, <5>1, <5>2 DEF PlanOf
        <4> QED
          BY <2>1, <4>2, <4>3
      <3> QED
        BY <3>1, <3>2 DEF RotationPlan
    <2>5. LogsSurvive'
      BY <1>1, <2>1 DEF LogsSurvive, ParallelCompilersKeepTheirLogs, LogsInOrder, Opened
    <2> QED
      BY <1>1, <2>1, <2>3, <2>4, <2>5, CountKept
  <1>3. CASE /\ \E f \in logFiles[logIndex[r]] : logFound' = [logFound EXCEPT ![r] = f]
             /\ LogGoto(r, "move") /\ UNCHANGED logIndex
    <2>1. PICK f \in logFiles[logIndex[r]] : logFound' = [logFound EXCEPT ![r] = f]
      BY <1>3
    <2>2. LogTypeOK' /\ logAt[r] = "find" /\ logFound'[r] = f
      BY <1>1, <1>3, <2>1 DEF LogTypeOK, LogGoto, LogPlaces, FindLog
    <2>3. logAt' = [logAt EXCEPT ![r] = "move"]
      BY <1>3 DEF LogGoto
    <2>4. LockIsHeld' /\ LogsOpened'
      BY <1>1, <2>2, <2>3 DEF LockIsHeld, LogsOpened, Rotating, Opened, LogTypeOK
    <2>5. RotationPlan'
      BY <1>1, <1>3, <2>1, <2>2, <2>3 DEF RotationPlan, PlanOf, LogTypeOK
    <2>6. LogsSurvive'
      BY <1>1, <2>3 DEF LogsSurvive, ParallelCompilersKeepTheirLogs, LogsInOrder, Opened, LogTypeOK
    <2> QED
      BY <1>1, <2>2, <2>4, <2>5, <2>6, CountKept
  <1> QED
    BY <1>2, <1>3 DEF FindLog

\* What a move makes of the directory: the log it has found was alone at its index,
\* and nothing was at the next one.
LEMMA MoveLogMoves ==
  ASSUME NEW r \in LogRuns, LogInv, MoveLog(r)
  PROVE  /\ NextRound(r) /\ UNCHANGED <<logLock, logFound, logSince, logOrder>>
         /\ logFiles[logIndex[r]] = {logFound[r]}
         /\ logFiles' \in [LogIndices -> SUBSET LogRuns]
         /\ logFiles'[logIndex[r]] = {}
         /\ logIndex[r] < LogMaxIndex =>
              logFiles[logIndex[r] + 1] = {} /\ logFiles'[logIndex[r] + 1] = {logFound[r]}
         /\ \A j \in LogIndices \ {logIndex[r], logIndex[r] + 1} : logFiles'[j] = logFiles[j]
  <1> DEFINE i == logIndex[r]  f == logFound[r]
  <1> USE LogAssumption
  <1>1. logAt[r] = "move" /\ UNCHANGED <<logFound, logSince, logOrder>>
    BY DEF MoveLog, LogHistory
  <1>2. /\ i \in LogIndices /\ i \in 0 .. LogMaxIndex
        /\ f \in logFiles[i]
        /\ logFiles \in [LogIndices -> SUBSET LogRuns]
        /\ i < LogMaxIndex => logFiles[i + 1] = {}
    BY <1>1 DEF LogInv, LogTypeOK, RotationPlan, PlanOf, LogIndices
  <1>3. logFiles[i] = {f}
    BY <1>2 DEF LogInv, LogsSurvive, LogsInOrder
  <1>4. CASE i = LogMaxIndex
    BY <1>1, <1>2, <1>3, <1>4 DEF MoveLog
  <1>5. CASE i < LogMaxIndex
    <2>1. i + 1 \in LogIndices /\ i + 1 # i
      BY <1>2, <1>5 DEF LogIndices
    <2>2. /\ logFiles' = [logFiles EXCEPT ![i] = @ \ {f}, ![i + 1] = @ \cup {f}]
          /\ NextRound(r) /\ UNCHANGED logLock
      BY <1>2, <1>5 DEF MoveLog
    <2> HIDE DEF i, f
    <2>3. /\ logFiles' \in [LogIndices -> SUBSET LogRuns]
          /\ logFiles'[i] = logFiles[i] \ {f}
          /\ logFiles'[i + 1] = logFiles[i + 1] \cup {f}
          /\ \A j \in LogIndices \ {i, i + 1} : logFiles'[j] = logFiles[j]
      BY <1>2, <2>1, <2>2
    <2> QED
      BY <1>1, <1>2, <1>3, <1>5, <2>2, <2>3 DEF i, f
  <1> QED
    BY <1>2, <1>4, <1>5

LEMMA MoveLogKeeps == ASSUME NEW r \in LogRuns PROVE LogInv /\ MoveLog(r) => LogInv'
  <1> SUFFICES ASSUME LogInv, MoveLog(r) PROVE LogInv'
    OBVIOUS
  <1> USE LogAssumption
  <1>1. PICK i \in 0 .. LogMaxIndex, f \in LogRuns \cup {NoRun} : i = logIndex[r] /\ f = logFound[r]
    BY DEF LogInv, LogTypeOK, LogIndices
  <1>2. /\ UNCHANGED <<logLock, logFound, logSince, logOrder>>
        /\ logFiles[i] = {f}
        /\ logFiles' \in [LogIndices -> SUBSET LogRuns]
        /\ logFiles'[i] = {}
        /\ i < LogMaxIndex => logFiles[i + 1] = {} /\ logFiles'[i + 1] = {f}
        /\ \A j \in LogIndices \ {i, i + 1} : logFiles'[j] = logFiles[j]
    BY <1>1, MoveLogMoves
  <1>3. /\ logAt' \in [LogRuns -> LogPlaces]
        /\ logIndex' \in [LogRuns -> LogIndices]
        /\ \A s \in LogRuns \ {r} : logAt'[s] = logAt[s] /\ logIndex'[s] = logIndex[s]
        /\ \/ i = 0 /\ logAt'[r] = "fresh"
           \/ i > 0 /\ logAt'[r] = "find" /\ logIndex'[r] = i - 1
    BY <1>1, MoveLogMoves, NextRoundMoves DEF LogInv
  <1>4. /\ logAt[r] = "move" /\ i \in LogIndices
        /\ \A j \in 0 .. i : \A g \in logFiles[j] : logSince[g] > j
    BY <1>1 DEF MoveLog, LogInv, RotationPlan, PlanOf, LogIndices
  <1>5. \A j \in LogIndices : \A g \in logFiles'[j] :
          g \in logFiles[j] \/ (g = f /\ j = i + 1 /\ i < LogMaxIndex)
    BY <1>2 DEF LogIndices
  <1>6. LogTypeOK'
    BY <1>2, <1>3 DEF LogInv, LogTypeOK
  <1>7. LockIsHeld'
    BY <1>2, <1>3, <1>4 DEF LogInv, LockIsHeld, Rotating
  <1>8. LogsOpened'
    <2>1. \A s \in LogRuns : Opened(s)' <=> logAt'[s] = "running"
      BY <1>2, <1>3, <1>4 DEF LogInv, LogsOpened, Opened
    <2>2. f \in logFiles[i] /\ Opened(f) /\ logSince[f] > i /\ logSince[f] \in Nat
      BY <1>2, <1>4 DEF LogInv, LogsOpened, LogTypeOK
    <2>3. \A j \in LogIndices : \A g \in logFiles'[j] : Opened(g)' /\ logSince'[g] >= j
      BY <1>2, <1>5, <2>2 DEF LogInv, LogsOpened, Opened, LogIndices
    <2> QED
      BY <2>1, <2>3 DEF LogsOpened
  <1>9. RotationPlan'
    <2>1. ASSUME NEW s \in LogRuns \ {r} PROVE PlanOf(s)'
      BY <1>3, <1>4 DEF LogInv, LockIsHeld, Rotating, PlanOf
    <2>2. CASE i = 0 /\ logAt'[r] = "fresh"
      BY <1>2, <2>1, <2>2 DEF RotationPlan, PlanOf
    <2>3. CASE i > 0 /\ logAt'[r] = "find" /\ logIndex'[r] = i - 1
      <3>1. \A j \in 0 .. i - 1 : logFiles'[j] = logFiles[j] /\ j \in 0 .. i
        BY <1>2, <2>3 DEF LogIndices
      <3>2. \A j \in 0 .. logIndex'[r] : \A g \in logFiles'[j] : logSince'[g] > j
        BY <1>2, <1>4, <2>3, <3>1
      <3>3. logIndex'[r] + 1 = i
        BY <2>3
      <3>4. PlanOf(r)'
        BY <1>2, <2>3, <3>2, <3>3 DEF PlanOf
      <3> QED
        BY <2>1, <3>4 DEF RotationPlan
    <2> QED
      BY <1>3, <2>2, <2>3
  <1>10. OrdersCounted'
    BY <1>2, CountKept DEF LogInv
  <1>11. LogsInOrder'
    <2> SUFFICES ASSUME NEW j \in LogIndices, NEW k \in LogIndices,
                        NEW g \in logFiles'[j], NEW h \in logFiles'[k]
                 PROVE  (j = k => g = h) /\ (j < k => logOrder[g] > logOrder[h])
      BY <1>2 DEF LogsInOrder
    <2>1. \A a, b \in LogIndices : \A x \in logFiles[a], y \in logFiles[b] :
            (a = b => x = y) /\ (a < b => logOrder[x] > logOrder[y])
      BY DEF LogInv, LogsSurvive, LogsInOrder
    <2>2. f \in logFiles[i]
      BY <1>2
    <2>3. CASE g \in logFiles[j] /\ h \in logFiles[k]
      BY <2>1, <2>3
    <2>4. CASE g = f /\ j = i + 1 /\ i < LogMaxIndex
      <3>1. k = j => h = g
        BY <1>2, <2>4
      <3>2. j < k => k # i + 1 /\ i < k
        BY <2>4 DEF LogIndices
      <3> QED
        BY <1>4, <1>5, <2>1, <2>2, <2>4, <3>1, <3>2
    <2>5. CASE h = f /\ k = i + 1 /\ i < LogMaxIndex
      <3>1. k = j => h = g
        BY <1>2, <2>5
      <3>2. j < k => j < i
        BY <1>2, <2>5 DEF LogIndices
      <3>3. j < i => g \in logFiles[j]
        BY <1>2 DEF LogIndices
      <3> QED
        BY <1>4, <2>1, <2>2, <2>5, <3>1, <3>2, <3>3
    <2> QED
      BY <1>5, <2>3, <2>4, <2>5
  <1>12. ParallelCompilersKeepTheirLogs'
    <2> SUFFICES ASSUME NEW s \in LogRuns
                 PROVE  /\ logAt'[s] # "failed"
                        /\ Opened(s) => \/ \E j \in LogIndices : s \in logFiles'[j]
                                        \/ logSince[s] > LogMaxIndex
      BY <1>2 DEF ParallelCompilersKeepTheirLogs, Opened
    <2>1. logAt'[s] # "failed"
      BY <1>3 DEF LogInv, LogsSurvive, ParallelCompilersKeepTheirLogs
    <2>2. ASSUME NEW j \in LogIndices, s \in logFiles[j]
          PROVE  (\E k \in LogIndices : s \in logFiles'[k]) \/ logSince[s] > LogMaxIndex
      <3>1. CASE j = i /\ i < LogMaxIndex
        <4>1. i + 1 \in LogIndices
          BY <3>1 DEF LogIndices
        <4> QED
          BY <1>2, <2>2, <3>1, <4>1
      <3>2. CASE j = i /\ i = LogMaxIndex
        BY <1>4, <2>2, <3>2
      <3>3. CASE j # i
        <4>1. j # i + 1
          BY <1>2, <2>2 DEF LogIndices
        <4> QED
          BY <1>2, <2>2, <3>3, <4>1
      <3> QED
        BY <3>1, <3>2, <3>3
    <2> QED
      BY <2>1, <2>2 DEF LogInv, LogsSurvive, ParallelCompilersKeepTheirLogs
  <1> QED
    BY <1>6, <1>7, <1>8, <1>9, <1>10, <1>11, <1>12 DEF LogInv, LogsSurvive

LEMMA RemoveCurrentKeeps == ASSUME NEW r \in LogRuns PROVE LogInv /\ RemoveCurrent(r) => LogInv'
  <1> SUFFICES ASSUME LogInv, RemoveCurrent(r) PROVE LogInv'
    OBVIOUS
  <1> USE LogAssumption
  <1>1. /\ logAt[r] = "fresh" /\ logAt' = [logAt EXCEPT ![r] = "open"]
        /\ UNCHANGED <<logLock, logIndex, logFound, logSince, logOrder>>
    BY DEF RemoveCurrent, LogGoto, LogHistory
  <1>2. 0 \in LogIndices /\ logFiles[0] = {}
    BY <1>1 DEF LogInv, RotationPlan, PlanOf, LogIndices
  <1>3. logFiles' = logFiles
    BY <1>2 DEF RemoveCurrent, LogInv, LogTypeOK
  <1>4. LogTypeOK'
    BY <1>1, <1>3 DEF LogInv, LogTypeOK, LogPlaces
  <1>5. LockIsHeld' /\ LogsOpened' /\ RotationPlan'
    BY <1>1, <1>2, <1>3 DEF LogInv, LogTypeOK, LockIsHeld, LogsOpened, RotationPlan, PlanOf, Rotating, Opened
  <1>6. OrdersCounted'
    BY <1>1, CountKept DEF LogInv
  <1>7. LogsSurvive'
    BY <1>1, <1>3 DEF LogInv, LogTypeOK, LogsSurvive, ParallelCompilersKeepTheirLogs, LogsInOrder, Opened
  <1> QED
    BY <1>4, <1>5, <1>6, <1>7 DEF LogInv

LEMMA OpenLogKeeps == ASSUME NEW r \in LogRuns PROVE LogInv /\ OpenLog(r) => LogInv'
  <1> SUFFICES ASSUME LogInv, OpenLog(r) PROVE LogInv'
    OBVIOUS
  <1> USE LogAssumption
  <1> DEFINE count == Cardinality(OpenedRuns)
  <1>1. /\ logAt[r] = "open" /\ logAt' = [logAt EXCEPT ![r] = "running"]
        /\ logLock' \in {logLock, NoRun}
        /\ logLock = r => logLock' = NoRun
        /\ UNCHANGED <<logIndex, logFound, logSince>>
    BY DEF OpenLog, LogGoto, Release
  <1>2. logLock = r /\ 0 \in LogIndices /\ logFiles[0] = {} /\ ~Opened(r)
    BY <1>1 DEF LogInv, LockIsHeld, Rotating, RotationPlan, PlanOf, LogIndices, LogsOpened
  <1>3. logFiles' = [logFiles EXCEPT ![0] = {r}]
    BY <1>2 DEF OpenLog, LogInv, LogTypeOK
  <1>4. /\ count \in Nat
        /\ logOrder' = [logOrder EXCEPT ![r] = 1 + count]
        /\ logOrder'[r] = 1 + count
        /\ \A s \in LogRuns \ {r} : logOrder'[s] = logOrder[s]
    <2>1. count \in Nat
      BY FS_CardinalityType DEF LogInv, OrdersCounted
    <2>2. logOrder' = [logOrder EXCEPT ![r] = 1 + count]
      BY DEF OpenLog, OpenedRuns
    <2> QED
      BY <2>1, <2>2 DEF LogInv, LogTypeOK
  <1> HIDE DEF count
  <1>5. LogTypeOK'
    <2>1. logFiles' \in [LogIndices -> SUBSET LogRuns] /\ logLock' \in LogRuns \cup {NoRun}
      BY <1>1, <1>3 DEF LogInv, LogTypeOK
    <2>2. logOrder' \in [LogRuns -> Nat]
      BY <1>4 DEF LogInv, LogTypeOK
    <2>3. logAt' \in [LogRuns -> LogPlaces]
      BY <1>1 DEF LogInv, LogTypeOK, LogPlaces
    <2> QED
      BY <1>1, <2>1, <2>2, <2>3 DEF LogInv, LogTypeOK
  <1>6. LockIsHeld'
    BY <1>1, <1>2 DEF LogInv, LogTypeOK, LockIsHeld, Rotating
  <1>7. \A s \in LogRuns : Opened(s)' <=> s = r \/ Opened(s)
    BY <1>4 DEF Opened
  <1>8. LogsOpened'
    <2>1. \A s \in LogRuns : Opened(s)' <=> logAt'[s] = "running"
      BY <1>1, <1>7 DEF LogInv, LogTypeOK, LogsOpened
    <2>2. \A i \in LogIndices : \A f \in logFiles'[i] : Opened(f)' /\ logSince'[f] >= i
      BY <1>1, <1>2, <1>3, <1>7 DEF LogInv, LogTypeOK, LogsOpened
    <2> QED
      BY <2>1, <2>2 DEF LogsOpened
  <1>9. RotationPlan'
    BY <1>1, <1>2 DEF LogInv, LogTypeOK, LockIsHeld, RotationPlan, PlanOf, Rotating
  <1>10. OrdersCounted'
    <2>1. OpenedRuns' = OpenedRuns \cup {r} /\ r \notin OpenedRuns
      BY <1>2, <1>7 DEF OpenedRuns
    <2>2. IsFiniteSet(OpenedRuns')  /\ Cardinality(OpenedRuns') = count + 1
      BY <2>1, FS_AddElement DEF LogInv, OrdersCounted, count
    <2>3. \A s \in LogRuns : logOrder'[s] <= count + 1
      BY <1>4 DEF LogInv, LogTypeOK, OrdersCounted, count
    <2> QED
      BY <2>2, <2>3 DEF OrdersCounted
  <1>11. LogsInOrder'
    <2> SUFFICES ASSUME NEW i \in LogIndices, NEW j \in LogIndices,
                        NEW f \in logFiles'[i], NEW g \in logFiles'[j]
                 PROVE  (i = j => f = g) /\ (i < j => logOrder'[f] > logOrder'[g])
      BY DEF LogsInOrder
    <2>1. \A k \in LogIndices : logFiles'[k] = IF k = 0 THEN {r} ELSE logFiles[k]
      BY <1>2, <1>3 DEF LogInv, LogTypeOK
    <2>2. \A k \in LogIndices : \A h \in logFiles[k] : h \in LogRuns \ {r} /\ logOrder[h] <= count /\ logOrder[h] \in Nat
      BY <1>2 DEF LogInv, LogTypeOK, LogsOpened, OrdersCounted, count
    <2>3. CASE i = 0 /\ j = 0
      BY <2>1, <2>3
    <2>4. CASE i = 0 /\ j # 0
      <3>1. f = r /\ g \in logFiles[j]
        BY <2>1, <2>4
      <3>2. g \in LogRuns \ {r} /\ logOrder[g] <= count /\ logOrder[g] \in Nat
        BY <2>2, <3>1
      <3> QED
        BY <1>4, <2>4, <3>1, <3>2
    <2>5. CASE i # 0
      BY <1>4, <2>1, <2>2, <2>5 DEF LogInv, LogsSurvive, LogsInOrder, LogIndices
    <2> QED
      BY <2>3, <2>4, <2>5
  <1>12. ParallelCompilersKeepTheirLogs'
    <2> SUFFICES ASSUME NEW s \in LogRuns
                 PROVE  /\ logAt'[s] # "failed"
                        /\ Opened(s)' => \/ \E i \in LogIndices : s \in logFiles'[i]
                                         \/ logSince'[s] > LogMaxIndex
      BY DEF ParallelCompilersKeepTheirLogs
    <2>1. \A i \in LogIndices : logFiles[i] \subseteq logFiles'[i]
      BY <1>2, <1>3 DEF LogInv, LogTypeOK
    <2>2. r \in logFiles'[0]
      BY <1>2, <1>3 DEF LogInv, LogTypeOK
    <2> QED
      BY <1>1, <1>2, <1>7, <2>1, <2>2 DEF LogInv, LogTypeOK, LogsSurvive, ParallelCompilersKeepTheirLogs
  <1> QED
    BY <1>5, <1>6, <1>8, <1>9, <1>10, <1>11, <1>12 DEF LogInv, LogsSurvive

LEMMA KillLoggerKeeps == ASSUME NEW r \in LogRuns PROVE LogInv /\ KillLogger(r) => LogInv'
  <1> SUFFICES ASSUME LogInv, KillLogger(r) PROVE LogInv'
    OBVIOUS
  <1>1. /\ logAt[r] \in Rotating \cup {"wait"} /\ logAt' = [logAt EXCEPT ![r] = "killed"]
        /\ logLock' = IF logLock = r THEN NoRun ELSE logLock
        /\ UNCHANGED <<logFiles, logIndex, logFound, logSince, logOrder>>
    BY DEF KillLogger, LogGoto, Release, LogHistory, Rotating
  <1>2. LogTypeOK'
    BY <1>1 DEF LogInv, LogTypeOK, LogPlaces
  <1>3. LockIsHeld' /\ LogsOpened' /\ RotationPlan'
    BY <1>1 DEF LogInv, LogTypeOK, LockIsHeld, LogsOpened, RotationPlan, PlanOf, Rotating, Opened
  <1>4. OrdersCounted'
    BY <1>1, CountKept DEF LogInv
  <1>5. LogsSurvive'
    BY <1>1 DEF LogInv, LogTypeOK, LogsSurvive, ParallelCompilersKeepTheirLogs, LogsInOrder, Opened
  <1> QED
    BY <1>2, <1>3, <1>4, <1>5 DEF LogInv

\* The invariant of the logs is inductive.
LEMMA LogInvKept == LogInv /\ [LogNext]_logVars => LogInv'
  <1> SUFFICES ASSUME LogInv, [LogNext]_logVars PROVE LogInv'
    OBVIOUS
  <1>1. ASSUME NEW r \in LogRuns,
               \/ OpenLogger(r) \/ TakeLock(r) \/ FindLog(r) \/ MoveLog(r) \/ RemoveCurrent(r)
               \/ OpenLog(r) \/ KillLogger(r)
        PROVE  LogInv'
    BY <1>1, OpenLoggerKeeps, TakeLockKeeps, FindLogKeeps, MoveLogKeeps, RemoveCurrentKeeps,
       OpenLogKeeps, KillLoggerKeeps
  <1>2. CASE UNCHANGED logVars
    <2>1. OrdersCounted'
      BY <1>2, CountKept DEF LogInv, logVars
    <2> QED
      BY <1>2, <2>1 DEF logVars, LogInv, LogTypeOK, LockIsHeld, LogsOpened, RotationPlan, PlanOf, Opened,
                        LogsSurvive, ParallelCompilersKeepTheirLogs, LogsInOrder
  <1> QED
    BY <1>1, <1>2 DEF LogNext

\* However many compilers begin in one directory, and whoever of them is killed within a
\* rotation: no rotation fails, no log is lost before it is too old, no two have one
\* name, and a smaller index is a younger log (open_logger, rotate_logs).
THEOREM LogsAlwaysSurvive == LogSpec => []LogsSurvive
  <1>1. LogInv => LogsSurvive
    BY DEF LogInv
  <1> QED
    BY <1>1, LogInvInit, LogInvKept, PTL DEF LogSpec

--------------------------------------------------------------------------------
(* The registry of the heap.  The argument: the nodes are linked both ways in the  *)
(* order of their allocation, which appending a node and taking one out keep; and  *)
(* whatever the scan has passed holds no bytes, so that at its end what is left is *)
(* without a pointer and what it has taken out is what quit was called with.       *)

\* The type invariant of the registry: of the list, and of quit.
ListTypeOK ==
  /\ heapNext \in [HeapNodes \cup {Sentinel} -> HeapNodes \cup {Nil}]
  /\ heapPrevNext \in [HeapNodes -> HeapNodes \cup {Sentinel, Nil}]
  /\ heapLast \in HeapNodes \cup {Sentinel}
  /\ heapSize \in [HeapNodes -> {NotLive, NoPointer} \cup ByteCounts]
  /\ heapOrder \in Seq(HeapNodes)
QuitTypeOK ==
  /\ heapScan \in HeapNodes \cup {Nil, "off"}
  /\ heapLeaked \in BOOLEAN /\ heapOwed \in BOOLEAN
  /\ heapExit \in {"running", "ok", "err"} /\ heapAsked \in {"ok", "err"}

\* The order of allocation has every live node once.
HeapOrdered ==
  /\ \A i, j \in 1 .. Len(heapOrder) : heapOrder[i] = heapOrder[j] => i = j
  /\ \A n \in HeapNodes : Live(n) <=> \E i \in 1 .. Len(heapOrder) : heapOrder[i] = n

\* The links go along that order and back.
HeapLinked ==
  /\ \A i \in 1 .. Len(heapOrder) :
       /\ heapPrevNext[heapOrder[i]] = IF i = 1 THEN Sentinel ELSE heapOrder[i - 1]
       /\ heapNext[heapOrder[i]] = IF i < Len(heapOrder) THEN heapOrder[i + 1] ELSE Nil
  /\ heapNext[Sentinel] = IF 0 < Len(heapOrder) THEN heapOrder[1] ELSE Nil
  /\ heapLast = IF 0 < Len(heapOrder) THEN heapOrder[Len(heapOrder)] ELSE Sentinel

\* What the scan has passed has no pointer.
ScanPassed ==
  /\ heapScan \in HeapNodes =>
       \E k \in 1 .. Len(heapOrder) :
         heapOrder[k] = heapScan /\ \A i \in 1 .. k - 1 : heapSize[heapOrder[i]] = NoPointer
  /\ heapScan = Nil => \A i \in 1 .. Len(heapOrder) : heapSize[heapOrder[i]] = NoPointer

\* Bytes are owed as long as they are not reclaimed.
BytesTold ==
  /\ heapScan = "off" => heapExit = "running" /\ ~heapLeaked
  /\ heapScan # "off" => (heapOwed <=> heapLeaked \/ \E n \in HeapNodes : heapSize[n] > 0)
  /\ heapExit # "running" =>
       heapScan = Nil /\ (heapExit = "ok" <=> heapAsked = "ok" /\ ~heapLeaked)

HeapList == ListTypeOK /\ HeapOrdered /\ HeapLinked
HeapInv == HeapList /\ QuitTypeOK /\ ScanPassed /\ BytesTold

--------------------------------------------------------------------------------

\* What RemoveAt does to a sequence.
LEMMA RemoveAtProperties ==
  ASSUME NEW S, NEW s \in Seq(S), NEW k \in 1 .. Len(s)
  PROVE  /\ RemoveAt(s, k) \in Seq(S)
         /\ Len(RemoveAt(s, k)) = Len(s) - 1
         /\ \A i \in 1 .. Len(s) - 1 : RemoveAt(s, k)[i] = IF i < k THEN s[i] ELSE s[i + 1]
  <1> DEFINE before == SubSeq(s, 1, k - 1)  after == SubSeq(s, k + 1, Len(s))
  <1>1. Len(s) \in Nat /\ \A i \in 1 .. Len(s) : s[i] \in S
    BY LenProperties, ElementOfSeq
  <1>2. /\ before \in Seq(S) /\ Len(before) = k - 1
        /\ \A i \in 1 .. k - 1 : before[i] = s[i]
    BY <1>1, SubSeqProperties
  <1>3. /\ after \in Seq(S) /\ Len(after) = Len(s) - k
        /\ \A i \in 1 .. Len(s) - k : after[i] = s[k + i]
    <2>1. \A i \in k + 1 .. Len(s) : s[i] \in S
      BY <1>1
    <2>2. after \in Seq(S) /\ Len(after) = Len(s) - k
      BY <1>1, <2>1, SubSeqProperties
    <2>3. ASSUME NEW i \in 1 .. Len(s) - k PROVE after[i] = s[k + i]
      BY <1>1, <2>1, <2>2, SubSeqProperties
    <2> QED
      BY <2>2, <2>3
  <1>4. RemoveAt(s, k) = before \o after
    BY DEF RemoveAt
  <1> HIDE DEF before, after
  <1>5. /\ before \o after \in Seq(S)
        /\ Len(before \o after) = Len(before) + Len(after)
        /\ \A i \in 1 .. Len(before) + Len(after) :
             (before \o after)[i] = IF i <= Len(before) THEN before[i] ELSE after[i - Len(before)]
    BY <1>2, <1>3, ConcatProperties
  <1>6. ASSUME NEW i \in 1 .. Len(s) - 1
        PROVE  (before \o after)[i] = IF i < k THEN s[i] ELSE s[i + 1]
    <2>1. i \in Nat /\ k \in Nat /\ i \in 1 .. Len(before) + Len(after)
      BY <1>1, <1>2, <1>3
    <2>2. CASE i < k
      <3>1. i \in 1 .. k - 1 /\ i <= Len(before)
        BY <1>2, <2>1, <2>2
      <3> QED
        BY <1>2, <1>5, <2>1, <2>2, <3>1
    <2>3. CASE ~(i < k)
      <3>1. /\ i - Len(before) \in 1 .. Len(s) - k /\ ~(i <= Len(before))
            /\ k + (i - Len(before)) = i + 1
        BY <1>1, <1>2, <2>1, <2>3
      <3>2. after[i - Len(before)] = s[i + 1]
        BY <1>3, <3>1
      <3> QED
        BY <1>5, <2>1, <2>3, <3>1, <3>2
    <2> QED
      BY <2>2, <2>3
  <1> QED
    BY <1>1, <1>2, <1>3, <1>4, <1>5, <1>6

\* A new node goes to the end of the list.
LEMMA NewNodeKeepsList ==
  ASSUME HeapList, NEW n \in HeapNodes, NEW bytes \in ByteCounts \cup {NoPointer}, NewNode(n, bytes)
  PROVE  HeapList' /\ heapOrder' = Append(heapOrder, n)
  <1> USE HeapAssumption
  <1>1. PICK len \in Nat : len = Len(heapOrder)
    BY LenProperties DEF HeapList, ListTypeOK
  <1>2. /\ heapOrder \in Seq(HeapNodes) /\ heapOrder' = Append(heapOrder, n)
        /\ \A i \in 1 .. len : heapOrder[i] \in HeapNodes
        /\ \A i, j \in 1 .. len : heapOrder[i] = heapOrder[j] => i = j
        /\ \A m \in HeapNodes : Live(m) <=> \E i \in 1 .. len : heapOrder[i] = m
    BY <1>1, ElementOfSeq DEF HeapList, ListTypeOK, HeapOrdered, NewNode
  <1>3. /\ heapOrder' \in Seq(HeapNodes) /\ Len(heapOrder') = len + 1
        /\ \A i \in 1 .. len : heapOrder'[i] = heapOrder[i]
        /\ heapOrder'[len + 1] = n
    BY <1>1, <1>2, AppendProperties
  <1>4. ~Live(n) /\ \A i \in 1 .. len : heapOrder[i] # n
    BY <1>2 DEF NewNode
  <1>5. heapLast = IF 0 < len THEN heapOrder[len] ELSE Sentinel
    BY <1>1 DEF HeapList, HeapLinked
  <1>6. heapLast # n
    BY <1>4, <1>5
  <1>7. ListTypeOK'
    BY <1>3 DEF HeapList, ListTypeOK, NewNode, ByteCounts
  <1>8. HeapOrdered'
    <2>1. \A m \in HeapNodes : Live(m)' <=> m = n \/ Live(m)
      BY DEF NewNode, Live, HeapList, ListTypeOK, ByteCounts, NoPointer, NotLive
    <2>2. \A m \in HeapNodes : Live(m)' <=> \E i \in 1 .. len + 1 : heapOrder'[i] = m
      <3>1. \A i \in 1 .. len + 1 : i \in 1 .. len \/ i = len + 1
        OBVIOUS
      <3>2. \A i \in 1 .. len : i \in 1 .. len + 1
        OBVIOUS
      <3> QED
        BY <1>2, <1>3, <2>1, <3>1, <3>2
    <2>3. \A i, j \in 1 .. len + 1 : heapOrder'[i] = heapOrder'[j] => i = j
      <3>1. \A i \in 1 .. len + 1 : i \in 1 .. len \/ i = len + 1
        OBVIOUS
      <3> QED
        BY <1>2, <1>3, <1>4, <3>1
    <2> QED
      BY <1>3, <2>2, <2>3 DEF HeapOrdered
  <1>9. HeapLinked'
    <2>1. /\ heapNext' = [heapNext EXCEPT ![heapLast] = n, ![n] = Nil]
          /\ heapPrevNext' = [heapPrevNext EXCEPT ![n] = heapLast]
          /\ heapLast' = n
      BY DEF NewNode
    <2>2. /\ heapNext'[n] = Nil /\ heapNext'[heapLast] = n
          /\ \A m \in HeapNodes \cup {Sentinel} : m # n /\ m # heapLast => heapNext'[m] = heapNext[m]
          /\ heapPrevNext'[n] = heapLast
          /\ \A m \in HeapNodes \ {n} : heapPrevNext'[m] = heapPrevNext[m]
      BY <1>6, <2>1 DEF HeapList, ListTypeOK
    <2>3. ASSUME NEW i \in 1 .. len + 1
          PROVE  /\ heapPrevNext'[heapOrder'[i]] = IF i = 1 THEN Sentinel ELSE heapOrder'[i - 1]
                 /\ heapNext'[heapOrder'[i]] = IF i < len + 1 THEN heapOrder'[i + 1] ELSE Nil
      <3>1. CASE i = len + 1
        BY <1>3, <1>5, <2>2, <3>1
      <3>2. CASE i = len
        <4>1. i \in 1 .. len /\ (i # 1 => i - 1 \in 1 .. len) /\ heapOrder[i] = heapLast
          BY <1>5, <3>2
        <4>2. heapPrevNext[heapOrder[i]] = IF i = 1 THEN Sentinel ELSE heapOrder[i - 1]
          BY <1>1, <4>1 DEF HeapList, HeapLinked
        <4> QED
          BY <1>2, <1>3, <1>4, <2>2, <3>2, <4>1, <4>2
      <3>3. CASE i < len
        <4>1. i \in 1 .. len /\ (i # 1 => i - 1 \in 1 .. len) /\ i + 1 \in 1 .. len
          BY <3>3
        <4>2. /\ heapPrevNext[heapOrder[i]] = IF i = 1 THEN Sentinel ELSE heapOrder[i - 1]
              /\ heapNext[heapOrder[i]] = heapOrder[i + 1]
          BY <1>1, <3>3, <4>1 DEF HeapList, HeapLinked
        <4>3. heapOrder[i] # heapLast
          BY <1>2, <1>5, <3>3, <4>1
        <4> QED
          BY <1>2, <1>3, <1>4, <2>2, <3>3, <4>1, <4>2, <4>3
      <3> QED
        BY <3>1, <3>2, <3>3
    <2>4. heapNext'[Sentinel] = heapOrder'[1]
      <3>1. CASE len = 0
        BY <1>3, <1>5, <2>2, <3>1
      <3>2. CASE len > 0
        <4>1. 1 \in 1 .. len /\ len \in 1 .. len
          BY <3>2
        <4>2. heapLast # Sentinel
          BY <1>2, <1>5, <3>2, <4>1
        <4>3. heapNext[Sentinel] = heapOrder[1]
          BY <1>1, <3>2 DEF HeapList, HeapLinked
        <4> QED
          BY <1>3, <2>2, <4>1, <4>2, <4>3
      <3> QED
        BY <3>1, <3>2
    <2>5. Len(heapOrder') = len + 1 /\ 0 < len + 1 /\ heapLast' = heapOrder'[len + 1]
      BY <1>3, <2>1
    <2> QED
      BY <2>3, <2>4, <2>5 DEF HeapLinked
  <1> QED
    BY <1>2, <1>7, <1>8, <1>9 DEF HeapList

\* Where a live node is in the list, and what it is linked to.
LEMMA LiveInList ==
  ASSUME HeapList, NEW n \in HeapNodes, Live(n)
  PROVE  \E k \in 1 .. Len(heapOrder) :
           /\ heapOrder[k] = n
           /\ heapPrevNext[n] = IF k = 1 THEN Sentinel ELSE heapOrder[k - 1]
           /\ heapNext[n] = IF k < Len(heapOrder) THEN heapOrder[k + 1] ELSE Nil
  BY DEF HeapList, HeapOrdered, HeapLinked

\* deallocate and the scan believe the list.
LEMMA LiveIsBelieved ==
  ASSUME HeapList, NEW n \in HeapNodes, Live(n)
  PROVE  Believed(n)
  <1>1. PICK k \in 1 .. Len(heapOrder) :
          /\ heapOrder[k] = n
          /\ heapPrevNext[n] = IF k = 1 THEN Sentinel ELSE heapOrder[k - 1]
    BY LiveInList
  <1>2. PICK len \in Nat : len = Len(heapOrder)
    BY LenProperties DEF HeapList, ListTypeOK
  <1>3. CASE k = 1
    BY <1>1, <1>2, <1>3 DEF HeapList, HeapLinked, Believed
  <1>4. CASE k # 1
    <2>1. k - 1 \in 1 .. len /\ k - 1 < len /\ (k - 1) + 1 = k
      BY <1>2, <1>4
    <2>2. heapNext[heapOrder[k - 1]] = heapOrder[k]
      BY <1>2, <2>1 DEF HeapList, HeapLinked
    <2> QED
      BY <1>1, <1>4, <2>2 DEF Believed
  <1> QED
    BY <1>3, <1>4

\* A node that takes itself out leaves the others linked.
LEMMA UnlinkKeepsList ==
  ASSUME HeapList, NEW n \in HeapNodes, Live(n), Unlink(n)
  PROVE  /\ HeapList'
         /\ \E k \in 1 .. Len(heapOrder) :
              /\ heapOrder[k] = n /\ heapOrder' = RemoveAt(heapOrder, k)
  <1> USE HeapAssumption
  <1>1. PICK len \in Nat : len = Len(heapOrder)
    BY LenProperties DEF HeapList, ListTypeOK
  <1>2. PICK k \in 1 .. len :
          /\ heapOrder[k] = n
          /\ heapPrevNext[n] = IF k = 1 THEN Sentinel ELSE heapOrder[k - 1]
          /\ heapNext[n] = IF k < len THEN heapOrder[k + 1] ELSE Nil
    BY <1>1, LiveInList
  <1>3. /\ heapOrder \in Seq(HeapNodes) /\ DOMAIN heapOrder = 1 .. len
        /\ \A i \in 1 .. len : heapOrder[i] \in HeapNodes
        /\ \A i, j \in 1 .. len : heapOrder[i] = heapOrder[j] => i = j
        /\ \A m \in HeapNodes : Live(m) <=> \E i \in 1 .. len : heapOrder[i] = m
    BY <1>1, ElementOfSeq, LenProperties DEF HeapList, ListTypeOK, HeapOrdered
  <1>4. heapOrder' = RemoveAt(heapOrder, k)
    <2>1. k = CHOOSE i \in DOMAIN heapOrder : heapOrder[i] = n
      BY <1>2, <1>3
    <2> QED
      BY <2>1 DEF Unlink, ForgetNode
  <1>5. /\ heapOrder' \in Seq(HeapNodes) /\ Len(heapOrder') = len - 1
        /\ \A i \in 1 .. len - 1 : heapOrder'[i] = IF i < k THEN heapOrder[i] ELSE heapOrder[i + 1]
    <2>1. k \in 1 .. Len(heapOrder) /\ heapOrder \in Seq(HeapNodes)
      BY <1>1, <1>3
    <2>2. /\ RemoveAt(heapOrder, k) \in Seq(HeapNodes)
          /\ Len(RemoveAt(heapOrder, k)) = Len(heapOrder) - 1
          /\ \A i \in 1 .. Len(heapOrder) - 1 :
               RemoveAt(heapOrder, k)[i] = IF i < k THEN heapOrder[i] ELSE heapOrder[i + 1]
      BY <2>1, RemoveAtProperties
    <2> QED
      BY <1>1, <1>4, <2>2
  <1>6. PICK before, after :
          /\ before = IF k = 1 THEN Sentinel ELSE heapOrder[k - 1]
          /\ after = IF k < len THEN heapOrder[k + 1] ELSE Nil
          /\ heapNext' = [heapNext EXCEPT ![before] = after]
          /\ heapPrevNext' = IF after = Nil THEN heapPrevNext ELSE [heapPrevNext EXCEPT ![after] = before]
          /\ heapLast' = IF after # Nil THEN heapLast ELSE before
          /\ heapSize' = [heapSize EXCEPT ![n] = NotLive]
    BY <1>2 DEF Unlink
  <1>7. /\ before \in HeapNodes \cup {Sentinel} /\ after \in HeapNodes \cup {Nil}
        /\ k < len <=> after # Nil
    <2>1. k - 1 \in 1 .. len \/ k = 1
      OBVIOUS
    <2>2. k < len => k + 1 \in 1 .. len
      OBVIOUS
    <2> QED
      BY <1>3, <1>6, <2>1, <2>2
  <1>8. ListTypeOK'
    BY <1>5, <1>6, <1>7 DEF HeapList, ListTypeOK
  <1>9. HeapOrdered'
    <2>1. \A m \in HeapNodes : Live(m)' <=> Live(m) /\ m # n
      BY <1>6 DEF Live, HeapList, ListTypeOK
    <2>2. ASSUME NEW i \in 1 .. len - 1, NEW j \in 1 .. len - 1, heapOrder'[i] = heapOrder'[j] PROVE i = j
      <3>1. i \in 1 .. len /\ i + 1 \in 1 .. len /\ j \in 1 .. len /\ j + 1 \in 1 .. len
        OBVIOUS
      <3> QED
        BY <1>3, <1>5, <2>2, <3>1
    <2>3. ASSUME NEW m \in HeapNodes
          PROVE  Live(m)' <=> \E i \in 1 .. len - 1 : heapOrder'[i] = m
      <3>1. ASSUME NEW i \in 1 .. len - 1, heapOrder'[i] = m PROVE Live(m)'
        <4>1. i \in 1 .. len /\ i + 1 \in 1 .. len /\ (i + 1 # k \/ i < k)
          OBVIOUS
        <4>2. PICK j \in 1 .. len : j # k /\ heapOrder[j] = m
          <5>1. CASE i < k
            <6>1. i \in 1 .. len /\ i # k
              BY <5>1
            <6> QED
              BY <1>5, <3>1, <5>1, <6>1
          <5>2. CASE ~(i < k)
            <6>1. i + 1 \in 1 .. len /\ i + 1 # k
              BY <5>2
            <6> QED
              BY <1>5, <3>1, <5>2, <6>1
          <5> QED
            BY <5>1, <5>2
        <4> QED
          BY <1>2, <1>3, <2>1, <4>2
      <3>2. ASSUME Live(m)' PROVE \E i \in 1 .. len - 1 : heapOrder'[i] = m
        <4>1. PICK j \in 1 .. len : j # k /\ heapOrder[j] = m
          BY <1>2, <1>3, <2>1, <3>2
        <4>2. CASE j < k
          <5>1. j \in 1 .. len - 1
            BY <4>2
          <5> QED
            BY <1>5, <4>1, <4>2, <5>1
        <4>3. CASE ~(j < k)
          <5>1. j - 1 \in 1 .. len - 1 /\ ~(j - 1 < k) /\ (j - 1) + 1 = j
            BY <4>1, <4>3
          <5> QED
            BY <1>5, <4>1, <5>1
        <4> QED
          BY <4>2, <4>3
      <3> QED
        BY <3>1, <3>2
    <2> QED
      BY <1>5, <2>2, <2>3 DEF HeapOrdered
  <1>10. HeapLinked'
    <2>1. /\ heapNext'[before] = after
          /\ \A m \in HeapNodes \cup {Sentinel} : m # before => heapNext'[m] = heapNext[m]
          /\ after # Nil => heapPrevNext'[after] = before
          /\ \A m \in HeapNodes : m # after => heapPrevNext'[m] = heapPrevNext[m]
      BY <1>6, <1>7 DEF HeapList, ListTypeOK
    <2>2. \A i \in 1 .. len :
            /\ heapPrevNext[heapOrder[i]] = IF i = 1 THEN Sentinel ELSE heapOrder[i - 1]
            /\ heapNext[heapOrder[i]] = IF i < len THEN heapOrder[i + 1] ELSE Nil
      BY <1>1 DEF HeapList, HeapLinked
    <2>3. /\ k # 1 => k - 1 \in 1 .. len
          /\ k < len => k + 1 \in 1 .. len
      OBVIOUS
    <2>4. ASSUME NEW i \in 1 .. len - 1
          PROVE  /\ heapPrevNext'[heapOrder'[i]] = IF i = 1 THEN Sentinel ELSE heapOrder'[i - 1]
                 /\ heapNext'[heapOrder'[i]] = IF i < len - 1 THEN heapOrder'[i + 1] ELSE Nil
      <3>1. /\ i \in 1 .. len /\ i + 1 \in 1 .. len
            /\ i # 1 => i - 1 \in 1 .. len - 1 /\ i - 1 \in 1 .. len
            /\ i < len - 1 => i + 1 \in 1 .. len - 1 /\ i + 2 \in 1 .. len /\ i + 2 = (i + 1) + 1
        OBVIOUS
      <3>2. CASE i < k - 1
        <4>1. /\ i < k /\ i + 1 < k /\ i # k + 1 /\ i # k - 1 /\ i < len - 1 /\ i - 1 < k /\ k # 1
          BY <3>2
        <4>2. heapOrder[i] # after /\ heapOrder[i] # before
          BY <1>3, <1>6, <1>7, <2>3, <3>1, <4>1
        <4>3. heapOrder'[i] = heapOrder[i] /\ heapOrder'[i + 1] = heapOrder[i + 1]
          BY <1>5, <3>1, <4>1
        <4>4. i # 1 => heapOrder'[i - 1] = heapOrder[i - 1]
          BY <1>5, <3>1, <4>1
        <4> QED
          BY <1>3, <2>1, <2>2, <3>1, <4>1, <4>2, <4>3, <4>4
      <3>3. CASE i = k - 1
        <4>1. i < k /\ i # k + 1 /\ i - 1 < k /\ i + 1 = k /\ k # 1 /\ (k < len <=> i < len - 1)
          BY <3>3
        <4>2. heapOrder[i] = before /\ heapOrder[i] # after /\ heapOrder'[i] = heapOrder[i]
          BY <1>3, <1>5, <1>6, <1>7, <2>3, <3>1, <3>3, <4>1
        <4>3. i # 1 => heapOrder'[i - 1] = heapOrder[i - 1]
          BY <1>5, <3>1, <4>1
        <4>4. i < len - 1 => heapOrder'[i + 1] = after
          BY <1>5, <1>6, <3>1, <4>1
        <4> QED
          BY <1>3, <1>7, <2>1, <2>2, <3>1, <4>1, <4>2, <4>3, <4>4
      <3>4. CASE i = k
        <4>1. ~(i < k) /\ k < len /\ i - 1 < k /\ i + 1 # k - 1 /\ ~(i + 1 < k)
          BY <3>4
        <4>2. heapOrder'[i] = heapOrder[i + 1] /\ heapOrder[i + 1] = after
          BY <1>5, <1>6, <3>4, <4>1
        <4>3. heapOrder[i + 1] # before
          BY <1>3, <1>6, <2>3, <3>1, <3>4, <4>1
        <4>4. before = IF i = 1 THEN Sentinel ELSE heapOrder'[i - 1]
          BY <1>5, <1>6, <3>1, <3>4, <4>1
        <4>5. heapNext[heapOrder[i + 1]] = IF i + 1 < len THEN heapOrder[i + 2] ELSE Nil
          BY <2>2, <3>1
        <4>6. i < len - 1 => heapOrder'[i + 1] = heapOrder[i + 2]
          BY <1>5, <3>1, <4>1
        <4> QED
          BY <1>3, <1>7, <2>1, <3>1, <4>1, <4>2, <4>3, <4>4, <4>5, <4>6
      <3>5. CASE i > k
        <4>1. ~(i < k) /\ ~(i + 1 < k) /\ ~(i - 1 < k) /\ i + 1 # k + 1 /\ i + 1 # k - 1 /\ i # 1 /\ (i - 1) + 1 = i
          BY <3>5
        <4>2. heapOrder'[i] = heapOrder[i + 1] /\ heapOrder'[i - 1] = heapOrder[i]
          BY <1>5, <3>1, <4>1
        <4>3. heapOrder[i + 1] # before /\ heapOrder[i + 1] # after
          BY <1>3, <1>6, <1>7, <2>3, <3>1, <4>1
        <4>4. /\ heapPrevNext[heapOrder[i + 1]] = heapOrder[i]
              /\ heapNext[heapOrder[i + 1]] = IF i + 1 < len THEN heapOrder[i + 2] ELSE Nil
          BY <2>2, <3>1
        <4>5. i < len - 1 => heapOrder'[i + 1] = heapOrder[i + 2]
          BY <1>5, <3>1, <4>1
        <4> QED
          BY <1>3, <2>1, <3>1, <4>1, <4>2, <4>3, <4>4, <4>5
      <3> QED
        BY <3>2, <3>3, <3>4, <3>5
    <2>5. heapNext'[Sentinel] = IF 0 < len - 1 THEN heapOrder'[1] ELSE Nil
      <3>1. heapNext[Sentinel] = heapOrder[1]
        BY <1>1, <1>2 DEF HeapList, HeapLinked
      <3>2. CASE k = 1
        BY <1>5, <1>6, <2>1, <3>2
      <3>3. CASE k # 1
        <4>1. 1 \in 1 .. len - 1 /\ 1 < k /\ k - 1 \in 1 .. len
          BY <3>3
        <4>2. Sentinel # before
          BY <1>3, <1>6, <3>3, <4>1
        <4> QED
          BY <1>5, <2>1, <3>1, <4>1, <4>2
      <3> QED
        BY <3>2, <3>3
    <2>6. heapLast' = IF 0 < len - 1 THEN heapOrder'[len - 1] ELSE Sentinel
      <3>1. heapLast = heapOrder[len]
        BY <1>1, <1>2 DEF HeapList, HeapLinked
      <3>2. CASE k < len
        <4>1. len - 1 \in 1 .. len - 1 /\ ~(len - 1 < k) /\ (len - 1) + 1 = len /\ 0 < len - 1
          BY <3>2
        <4> QED
          BY <1>5, <1>6, <1>7, <3>1, <3>2, <4>1
      <3>3. CASE k = len
        <4>1. k # 1 <=> 0 < len - 1
          BY <3>3
        <4>2. k # 1 => len - 1 \in 1 .. len - 1 /\ len - 1 < k /\ len - 1 = k - 1
          BY <3>3
        <4> QED
          BY <1>5, <1>6, <1>7, <3>3, <4>1, <4>2
      <3> QED
        BY <3>2, <3>3
    <2> QED
      BY <1>5, <2>4, <2>5, <2>6 DEF HeapLinked
  <1> QED
    BY <1>1, <1>2, <1>4, <1>8, <1>9, <1>10 DEF HeapList

LEMMA HeapInvInit == HeapInit => HeapInv
  <1> SUFFICES ASSUME HeapInit PROVE HeapInv
    OBVIOUS
  <1> USE HeapAssumption
  <1>1. heapOrder = <<>> /\ heapOrder \in Seq(HeapNodes) /\ Len(heapOrder) = 0
    BY EmptySeq DEF HeapInit
  <1>2. ListTypeOK /\ QuitTypeOK
    BY <1>1 DEF HeapInit, ListTypeOK, QuitTypeOK, ByteCounts, NotLive, NoPointer
  <1>3. HeapOrdered /\ HeapLinked
    BY <1>1 DEF HeapInit, HeapOrdered, HeapLinked, Live
  <1>4. ScanPassed /\ BytesTold
    BY DEF HeapInit, ScanPassed, BytesTold
  <1> QED
    BY <1>2, <1>3, <1>4 DEF HeapInv, HeapList

\* The scan begins before the first node, with whatever is owed by then.
LEMMA QuitBegins ==
  ASSUME HeapInv, HeapList', Busy, NEW asked \in {"ok", "err"}, BeginQuit(asked, heapNext'[Sentinel])
  PROVE  HeapInv'
  <1> USE HeapAssumption
  <1>1. /\ heapAsked' = asked /\ heapScan' = heapNext'[Sentinel]
        /\ heapOwed' = \E n \in HeapNodes : heapSize'[n] > 0
        /\ UNCHANGED <<heapLeaked, heapExit>>
    BY DEF BeginQuit
  <1>2. heapScan = "off" /\ heapExit = "running" /\ ~heapLeaked
    BY DEF Busy, HeapInv, BytesTold
  <1>3. Len(heapOrder') \in Nat /\ \A i \in 1 .. Len(heapOrder') : heapOrder'[i] \in HeapNodes
    BY LenProperties, ElementOfSeq DEF HeapList, ListTypeOK
  <1>4. heapScan' = IF 0 < Len(heapOrder') THEN heapOrder'[1] ELSE Nil
    BY <1>1 DEF HeapList, HeapLinked
  <1>5. heapScan' \in HeapNodes \cup {Nil}
    BY <1>3, <1>4
  <1>6. QuitTypeOK'
    BY <1>1, <1>2, <1>5 DEF HeapInv, QuitTypeOK
  <1>7. ScanPassed'
    <2>1. CASE 0 < Len(heapOrder')
      <3>1. 1 \in 1 .. Len(heapOrder') /\ heapOrder'[1] = heapScan' /\ heapScan' # Nil
        BY <1>3, <1>4, <2>1
      <3>2. \A i \in 1 .. 1 - 1 : FALSE
        OBVIOUS
      <3> QED
        BY <3>1, <3>2 DEF ScanPassed
    <2>2. CASE ~(0 < Len(heapOrder'))
      BY <1>3, <1>4, <2>2 DEF ScanPassed
    <2> QED
      BY <2>1, <2>2
  <1>8. BytesTold'
    BY <1>1, <1>2, <1>5 DEF BytesTold
  <1> QED
    BY <1>6, <1>7, <1>8 DEF HeapInv

\* Before quit, only the list has to be right.
LEMMA BusyKeeps ==
  ASSUME HeapInv, HeapList', Busy,
         UNCHANGED <<heapScan, heapLeaked, heapExit, heapAsked, heapOwed>>
  PROVE  HeapInv'
  BY HeapAssumption DEF Busy, HeapInv, QuitTypeOK, ScanPassed, BytesTold

LEMMA AllocateKeeps ==
  ASSUME NEW n \in HeapNodes, NEW bytes \in ByteCounts
  PROVE  HeapInv /\ Allocate(n, bytes) => HeapInv'
  BY NewNodeKeepsList, BusyKeeps DEF Allocate, HeapInv

LEMMA AllocateFailsKeeps ==
  ASSUME NEW n \in HeapNodes
  PROVE  HeapInv /\ AllocateFails(n) => HeapInv'
  BY NewNodeKeepsList, QuitBegins DEF AllocateFails, HeapInv

LEMMA ReallocateKeeps ==
  ASSUME NEW n \in HeapNodes, NEW bytes \in ByteCounts
  PROVE  HeapInv /\ Reallocate(n, bytes) => HeapInv'
  <1> SUFFICES ASSUME HeapInv, Reallocate(n, bytes) PROVE HeapInv'
    OBVIOUS
  <1>1. /\ Busy /\ Live(n) /\ UNCHANGED <<heapNext, heapPrevNext, heapLast, heapOrder>>
        /\ heapSize' = heapSize \/ heapSize' = [heapSize EXCEPT ![n] = bytes]
    BY DEF Reallocate
  <1>2. HeapList'
    <2>1. ListTypeOK' /\ HeapLinked'
      BY <1>1 DEF HeapInv, HeapList, ListTypeOK, HeapLinked
    <2>2. \A m \in HeapNodes : Live(m)' <=> Live(m)
      BY <1>1 DEF HeapInv, HeapList, ListTypeOK, Live, ByteCounts, NotLive
    <2>3. HeapOrdered'
      BY <1>1, <2>2 DEF HeapInv, HeapList, HeapOrdered
    <2> QED
      BY <2>1, <2>3 DEF HeapList
  <1>3. CASE UNCHANGED <<heapScan, heapLeaked, heapExit, heapAsked, heapOwed>>
    BY <1>1, <1>2, <1>3, BusyKeeps
  <1>4. CASE BeginQuit("err", heapNext[Sentinel])
    BY <1>1, <1>2, <1>4, QuitBegins
  <1> QED
    BY <1>3, <1>4 DEF Reallocate

LEMMA DeallocateKeeps ==
  ASSUME NEW n \in HeapNodes
  PROVE  HeapInv /\ Deallocate(n) => HeapInv'
  BY UnlinkKeepsList, BusyKeeps DEF Deallocate, HeapInv

LEMMA QuitKeeps ==
  ASSUME NEW asked \in {"ok", "err"}
  PROVE  HeapInv /\ Quit(asked) => HeapInv'
  <1> SUFFICES ASSUME HeapInv, Quit(asked) PROVE HeapInv'
    OBVIOUS
  <1>1. Busy /\ UNCHANGED heapList /\ BeginQuit(asked, heapNext'[Sentinel])
    BY DEF Quit, heapList
  <1>2. HeapList'
    BY <1>1 DEF heapList, HeapInv, HeapList, ListTypeOK, HeapOrdered, HeapLinked, Live
  <1> QED
    BY <1>1, <1>2, QuitBegins

LEMMA ExitKeeps == HeapInv /\ Exit => HeapInv'
  BY HeapAssumption DEF Exit, heapList, HeapInv, HeapList, ListTypeOK, HeapOrdered, HeapLinked, Live,
                        QuitTypeOK, ScanPassed, BytesTold

\* A round of the scan: the node before which everything is without a pointer becomes
\* one of those, or is gone.
LEMMA ScanNodeKeeps == HeapInv /\ ScanNode => HeapInv'
  <1> SUFFICES ASSUME HeapInv, ScanNode PROVE HeapInv'
    OBVIOUS
  <1> USE HeapAssumption
  <1>1. PICK n \in HeapNodes : n = heapScan
    BY DEF ScanNode
  <1>2. PICK len \in Nat : len = Len(heapOrder)
    BY LenProperties DEF HeapInv, HeapList, ListTypeOK
  <1>3. PICK k \in 1 .. len :
          heapOrder[k] = n /\ \A i \in 1 .. k - 1 : heapSize[heapOrder[i]] = NoPointer
    BY <1>1, <1>2 DEF HeapInv, ScanPassed
  <1>4. /\ heapOrder \in Seq(HeapNodes) /\ \A i \in 1 .. len : heapOrder[i] \in HeapNodes
        /\ \A i, j \in 1 .. len : heapOrder[i] = heapOrder[j] => i = j
        /\ \A m \in HeapNodes : Live(m) <=> \E i \in 1 .. len : heapOrder[i] = m
    BY <1>2, ElementOfSeq DEF HeapInv, HeapList, ListTypeOK, HeapOrdered
  <1>5. Live(n)
    BY <1>3, <1>4
  <1>6. /\ heapScan' = IF k < len THEN heapOrder[k + 1] ELSE Nil
        /\ k < len => k + 1 \in 1 .. len
    <2>1. heapNext[heapOrder[k]] = IF k < len THEN heapOrder[k + 1] ELSE Nil
      BY <1>2 DEF HeapInv, HeapList, HeapLinked
    <2> QED
      BY <1>1, <1>3, <2>1 DEF ScanNode
  <1>7. heapScan' \in HeapNodes \cup {Nil}
    BY <1>4, <1>6
  <1>8. /\ heapLeaked' = (heapLeaked \/ heapSize[n] > 0)
        /\ UNCHANGED <<heapExit, heapAsked, heapOwed>>
        /\ \/ heapSize[n] = NoPointer /\ UNCHANGED heapList
           \/ heapSize[n] # NoPointer /\ Unlink(n)
    BY <1>1 DEF ScanNode
  <1>9. QuitTypeOK'
    BY <1>7, <1>8 DEF HeapInv, QuitTypeOK
  <1>10. /\ heapExit = "running" /\ heapScan # "off"
         /\ heapOwed <=> heapLeaked \/ \E m \in HeapNodes : heapSize[m] > 0
    BY <1>1 DEF HeapInv, BytesTold
  <1>11. CASE heapSize[n] = NoPointer /\ UNCHANGED heapList
    <2>1. HeapList' /\ UNCHANGED <<heapSize, heapOrder>>
      BY <1>11 DEF heapList, HeapInv, HeapList, ListTypeOK, HeapOrdered, HeapLinked, Live
    <2>2. \A i \in 1 .. k : heapSize[heapOrder[i]] = NoPointer
      BY <1>3, <1>11
    <2>3. ScanPassed'
      <3>1. CASE k < len
        <4>1. heapOrder'[k + 1] = heapScan' /\ (k + 1) - 1 = k /\ k + 1 \in 1 .. Len(heapOrder')
          BY <1>2, <1>6, <2>1, <3>1
        <4>2. heapScan' # Nil
          BY <1>4, <1>6, <3>1
        <4> QED
          BY <2>1, <2>2, <4>1, <4>2 DEF ScanPassed
      <3>2. CASE k = len
        <4>1. heapScan' = Nil
          BY <1>6, <3>2
        <4> QED
          BY <1>2, <2>1, <2>2, <3>2, <4>1 DEF ScanPassed
      <3> QED
        BY <3>1, <3>2
    <2>4. BytesTold'
      <3>1. ~(heapSize[n] > 0)
        BY <1>11 DEF NoPointer
      <3> QED
        BY <1>7, <1>8, <1>10, <2>1, <3>1 DEF BytesTold
    <2> QED
      BY <1>9, <2>1, <2>3, <2>4 DEF HeapInv
  <1>12. CASE heapSize[n] # NoPointer /\ Unlink(n)
    <2>1. HeapList' /\ heapOrder' = RemoveAt(heapOrder, k)
      <3>1. PICK j \in 1 .. len : heapOrder[j] = n /\ HeapList' /\ heapOrder' = RemoveAt(heapOrder, j)
        BY <1>2, <1>5, <1>12, UnlinkKeepsList DEF HeapInv
      <3> QED
        BY <1>3, <1>4, <3>1
    <2>2. /\ Len(heapOrder') = len - 1
          /\ \A i \in 1 .. len - 1 : heapOrder'[i] = IF i < k THEN heapOrder[i] ELSE heapOrder[i + 1]
      <3>1. k \in 1 .. Len(heapOrder) /\ heapOrder \in Seq(HeapNodes)
        BY <1>2, <1>4
      <3>2. /\ Len(RemoveAt(heapOrder, k)) = Len(heapOrder) - 1
            /\ \A i \in 1 .. Len(heapOrder) - 1 :
                 RemoveAt(heapOrder, k)[i] = IF i < k THEN heapOrder[i] ELSE heapOrder[i + 1]
        BY <3>1, RemoveAtProperties
      <3> QED
        BY <1>2, <2>1, <3>2
    <2>3. /\ heapSize'[n] = NotLive
          /\ \A m \in HeapNodes : m # n => heapSize'[m] = heapSize[m]
      BY <1>12 DEF Unlink, HeapInv, HeapList, ListTypeOK
    <2>4. \A i \in 1 .. k - 1 : i \in 1 .. len - 1 /\ heapSize'[heapOrder'[i]] = NoPointer
      <3> SUFFICES ASSUME NEW i \in 1 .. k - 1
                   PROVE  i \in 1 .. len - 1 /\ heapSize'[heapOrder'[i]] = NoPointer
        OBVIOUS
      <3>1. i \in 1 .. len - 1 /\ i \in 1 .. len /\ i < k /\ i # k
        OBVIOUS
      <3>2. heapOrder'[i] = heapOrder[i]
        BY <2>2, <3>1
      <3>3. heapOrder[i] \in HeapNodes /\ heapOrder[i] # n
        BY <1>3, <1>4, <3>1
      <3>4. heapSize[heapOrder[i]] = NoPointer
        BY <1>3
      <3> QED
        BY <2>3, <3>1, <3>2, <3>3, <3>4
    <2>5. ScanPassed'
      <3>1. CASE k < len
        <4>1. k \in 1 .. len - 1 /\ ~(k < k)
          BY <3>1
        <4>2. heapOrder'[k] = heapScan' /\ heapScan' # Nil
          BY <1>4, <1>6, <2>2, <3>1, <4>1
        <4> QED
          BY <2>2, <2>4, <4>1, <4>2 DEF ScanPassed
      <3>2. CASE k = len
        <4>1. heapScan' = Nil
          BY <1>6, <3>2
        <4> QED
          BY <2>2, <2>4, <3>2, <4>1 DEF ScanPassed
      <3> QED
        BY <3>1, <3>2
    <2>6. BytesTold'
      <3>1. ~(heapSize'[n] > 0)
        BY <2>3 DEF NotLive
      <3>2. (\E m \in HeapNodes : heapSize[m] > 0) <=> heapSize[n] > 0 \/ \E m \in HeapNodes : heapSize'[m] > 0
        BY <2>3, <3>1
      <3> QED
        BY <1>7, <1>8, <1>10, <3>2 DEF BytesTold
    <2> QED
      BY <1>9, <2>1, <2>5, <2>6 DEF HeapInv
  <1> QED
    BY <1>8, <1>11, <1>12

\* The invariant of the registry is inductive.
LEMMA HeapInvKept == HeapInv /\ [HeapNext]_heapVars => HeapInv'
  <1> SUFFICES ASSUME HeapInv, [HeapNext]_heapVars PROVE HeapInv'
    OBVIOUS
  <1>1. CASE \E n \in HeapNodes, bytes \in ByteCounts : Allocate(n, bytes) \/ Reallocate(n, bytes)
    BY <1>1, AllocateKeeps, ReallocateKeeps
  <1>2. CASE \E n \in HeapNodes : AllocateFails(n) \/ Deallocate(n)
    BY <1>2, AllocateFailsKeeps, DeallocateKeeps
  <1>3. CASE \E asked \in {"ok", "err"} : Quit(asked)
    BY <1>3, QuitKeeps
  <1>4. CASE ScanNode \/ Exit
    BY <1>4, ScanNodeKeeps, ExitKeeps
  <1>5. CASE UNCHANGED heapVars
    BY <1>5 DEF heapVars, heapList, HeapInv, HeapList, ListTypeOK, HeapOrdered, HeapLinked, Live,
                QuitTypeOK, ScanPassed, BytesTold
  <1> QED
    BY <1>1, <1>2, <1>3, <1>4, <1>5 DEF HeapNext

\* The links are the chain of the property.
LEMMA ListIsTheOrder == HeapInv => ListIsLiveNodes
  <1> SUFFICES ASSUME HeapInv PROVE ListIsLiveNodes
    OBVIOUS
  <1> DEFINE chain == <<Sentinel>> \o heapOrder
  <1>1. PICK len \in Nat : len = Len(heapOrder)
    BY LenProperties DEF HeapInv, HeapList, ListTypeOK
  <1>2. /\ heapOrder \in Seq(HeapNodes) /\ DOMAIN heapOrder = 1 .. len
        /\ \A i \in 1 .. len : heapOrder[i] \in HeapNodes
        /\ \A n \in HeapNodes : Live(n) <=> \E i \in 1 .. len : heapOrder[i] = n
    BY <1>1, ElementOfSeq, LenProperties DEF HeapInv, HeapList, ListTypeOK, HeapOrdered
  <1>3. ToSet(heapOrder) = {n \in HeapNodes : Live(n)}
    BY <1>2 DEF ToSet
  <1>4. /\ Len(chain) = len + 1 /\ chain[1] = Sentinel
        /\ \A i \in 2 .. len + 1 : chain[i] = heapOrder[i - 1]
    <2>1. heapOrder \in Seq(HeapNodes \cup {Sentinel}) /\ <<Sentinel>> \in Seq(HeapNodes \cup {Sentinel})
      BY <1>2, SeqMonotonic
    <2>2. Len(<<Sentinel>>) = 1 /\ <<Sentinel>>[1] = Sentinel
      OBVIOUS
    <2>3. /\ Len(chain) = Len(<<Sentinel>>) + Len(heapOrder)
          /\ \A i \in 1 .. Len(<<Sentinel>>) + Len(heapOrder) :
               chain[i] = IF i <= Len(<<Sentinel>>) THEN <<Sentinel>>[i] ELSE heapOrder[i - Len(<<Sentinel>>)]
      BY <2>1, ConcatProperties
    <2>4. \A i \in 1 .. 1 + len : chain[i] = IF i <= 1 THEN Sentinel ELSE heapOrder[i - 1]
      BY <1>1, <2>2, <2>3
    <2> QED
      BY <1>1, <2>2, <2>3, <2>4
  <1> HIDE DEF chain
  <1>5. /\ heapNext[Sentinel] = IF 0 < len THEN heapOrder[1] ELSE Nil
        /\ heapLast = IF 0 < len THEN heapOrder[len] ELSE Sentinel
        /\ \A i \in 1 .. len :
             /\ heapPrevNext[heapOrder[i]] = IF i = 1 THEN Sentinel ELSE heapOrder[i - 1]
             /\ heapNext[heapOrder[i]] = IF i < len THEN heapOrder[i + 1] ELSE Nil
    BY <1>1 DEF HeapInv, HeapList, HeapLinked
  <1>6. \A i \in 1 .. Len(chain) : heapNext[chain[i]] = IF i < Len(chain) THEN chain[i + 1] ELSE Nil
    <2> SUFFICES ASSUME NEW i \in 1 .. len + 1
                 PROVE  heapNext[chain[i]] = IF i < len + 1 THEN chain[i + 1] ELSE Nil
      BY <1>4
    <2>1. CASE i = 1
      BY <1>4, <1>5, <2>1
    <2>2. CASE i # 1
      <3>1. i - 1 \in 1 .. len /\ (i - 1) + 1 = i /\ (i + 1) - 1 = i /\ (i < len + 1 <=> i - 1 < len)
        BY <2>2
      <3>2. i < len + 1 => i + 1 \in 2 .. len + 1
        OBVIOUS
      <3> QED
        BY <1>4, <1>5, <2>2, <3>1, <3>2
    <2> QED
      BY <2>1, <2>2
  <1>7. \A i \in 2 .. Len(chain) : heapPrevNext[chain[i]] = chain[i - 1]
    <2> SUFFICES ASSUME NEW i \in 2 .. len + 1 PROVE heapPrevNext[chain[i]] = chain[i - 1]
      BY <1>4
    <2>1. i - 1 \in 1 .. len /\ (i = 2 <=> i - 1 = 1) /\ (i # 2 => i - 1 \in 2 .. len + 1)
      OBVIOUS
    <2> QED
      BY <1>4, <1>5, <2>1
  <1>8. heapLast = chain[Len(chain)]
    BY <1>4, <1>5
  <1> QED
    BY <1>3, <1>6, <1>7, <1>8 DEF ListIsLiveNodes, chain

\* However nodes come and go and whenever the compiler quits: the list is the live nodes
\* in the order of their allocation, the test for corruption never fails, and quit
\* succeeds exactly if it was asked to and nobody held any bytes (heap.c).
THEOREM HeapAlwaysAccounted == HeapSpec => []HeapAccounted
  <1>1. HeapInv => HeapNeverCorrupted
    <2> SUFFICES ASSUME HeapInv, NEW n \in HeapNodes, Live(n) \/ heapScan = n PROVE Believed(n)
      BY DEF HeapNeverCorrupted
    <2>1. heapScan = n => Live(n)
      BY DEF HeapInv, HeapList, HeapOrdered, ScanPassed
    <2> QED
      BY <2>1, LiveIsBelieved DEF HeapInv
  <1>2. HeapInv => LeakFailsTheBuild
    <2> SUFFICES ASSUME HeapInv, heapExit # "running"
                 PROVE  /\ \A n \in HeapNodes : heapSize[n] \in {NotLive, NoPointer}
                        /\ heapExit = "ok" <=> heapAsked = "ok" /\ ~heapOwed
      BY DEF LeakFailsTheBuild
    <2>1. heapScan = Nil /\ heapScan # "off"
      BY HeapAssumption DEF HeapInv, BytesTold
    <2>2. \A n \in HeapNodes : heapSize[n] \in {NotLive, NoPointer}
      BY <2>1 DEF HeapInv, HeapList, HeapOrdered, ScanPassed, Live
    <2>3. \A n \in HeapNodes : ~(heapSize[n] > 0)
      BY <2>2 DEF NotLive, NoPointer
    <2> QED
      BY <2>1, <2>2, <2>3 DEF HeapInv, BytesTold
  <1>3. HeapInv => HeapAccounted
    BY <1>1, <1>2, ListIsTheOrder DEF HeapAccounted
  <1> QED
    BY <1>3, HeapInvInit, HeapInvKept, PTL DEF HeapSpec

--------------------------------------------------------------------------------
(* What resolve_imports promises, whatever the files hold.                          *)
(*                                                                                  *)
(* The argument: what is spliced is put behind all there is, for the import that is *)
(* passed then, so that whatever an import has is one block which later ones leave  *)
(* alone, and what was there before it is what earlier ones have brought.           *)

\* A set of naturals has a least element.
LEMMA LeastNumber ==
  ASSUME NEW T \in SUBSET Nat, T # {}
  PROVE  \E x \in T : \A y \in T : x <= y
  <1>1. IsWellFoundedOn(OpToRel(<, Nat), Nat)
    BY NatLessThanWellFounded
  <1>2. PICK x \in T : \A y \in T : ~(<<y, x>> \in OpToRel(<, Nat))
    BY <1>1, WFMin
  <1>3. \A y \in T : ~(y < x)
    BY <1>2 DEF OpToRel
  <1> QED
    BY <1>3

\* F is what the loop over a file's declarations has kept after each of the first n.
KeptOf(F, file, n) ==
  F = [m \in 0 .. n |-> IF m = 0 THEN << >>
                        ELSE IF file[m].kind \in {"imp", "internal"} THEN F[m - 1]
                        ELSE Append(F[m - 1], file[m])]

\* Every turn of the loop keeps something.
LEMMA KeptExists ==
  ASSUME NEW file, NEW n \in Nat
  PROVE  \E F : KeptOf(F, file, n)
  <1> DEFINE Bad == {m \in Nat : ~ \E F : KeptOf(F, file, m)}
  <1> SUFFICES ASSUME Bad # {} PROVE FALSE
    OBVIOUS
  <1>1. PICK m \in Bad : \A k \in Bad : m <= k
    BY LeastNumber
  <1>2. m # 0
    <2> SUFFICES \E F : KeptOf(F, file, 0)
      OBVIOUS
    <2>1. 0 .. 0 = {0}
      OBVIOUS
    <2>2. KeptOf([k \in 0 .. 0 |-> << >>], file, 0)
      BY <2>1 DEF KeptOf
    <2> QED
      BY <2>2
  <1>3. m \in Nat /\ m - 1 \in Nat /\ m - 1 \notin Bad
    <2>1. m \in Nat
      OBVIOUS
    <2> HIDE DEF Bad
    <2> QED
      BY <1>1, <1>2, <2>1
  <1>4. PICK F : KeptOf(F, file, m - 1)
    BY <1>3
  <1> DEFINE G == [k \in 0 .. m |-> IF k < m THEN F[k]
                                    ELSE IF file[m].kind \in {"imp", "internal"} THEN F[m - 1]
                                    ELSE Append(F[m - 1], file[m])]
  <1>5. KeptOf(G, file, m)
    <2>1. ASSUME NEW k \in 0 .. m
          PROVE  G[k] = IF k = 0 THEN << >>
                        ELSE IF file[k].kind \in {"imp", "internal"} THEN G[k - 1]
                        ELSE Append(G[k - 1], file[k])
      <3>1. CASE k = m
        <4>1. k # 0 /\ k - 1 \in 0 .. m /\ k - 1 < m
          BY <1>2, <1>3, <3>1
        <4>2. G[k - 1] = F[m - 1]
          BY <3>1, <4>1
        <4> QED
          BY <3>1, <4>1, <4>2
      <3>2. CASE k # m
        <4>1. k \in 0 .. m - 1 /\ k < m
          BY <1>3, <3>2
        <4>2. G[k] = F[k]
          BY <4>1
        <4>3. k # 0 => k - 1 \in 0 .. m /\ k - 1 < m
          BY <1>3, <4>1
        <4>4. k # 0 => G[k - 1] = F[k - 1]
          BY <4>3
        <4>5. F[k] = IF k = 0 THEN << >>
                     ELSE IF file[k].kind \in {"imp", "internal"} THEN F[k - 1]
                     ELSE Append(F[k - 1], file[k])
          BY <1>4, <4>1 DEF KeptOf
        <4> HIDE DEF G
        <4> QED
          BY <4>2, <4>4, <4>5
      <3> QED
        BY <3>1, <3>2
    <2>2. G = [k \in 0 .. m |-> G[k]]
      OBVIOUS
    <2> HIDE DEF G
    <2> QED
      BY <2>1, <2>2 DEF KeptOf
  <1> QED
    BY <1>1, <1>5

\* What is visible of a file is a sequence of its declarations.
LEMMA VisibleIsSeq ==
  ASSUME NEW S, NEW file \in Seq(S)
  PROVE  Visible(file) \in Seq(S)
  <1>1. Len(file) \in Nat
    BY LenProperties
  <1>2. PICK F : F = (CHOOSE f : KeptOf(f, file, Len(file))) /\ KeptOf(F, file, Len(file))
    BY <1>1, KeptExists
  <1>3. Visible(file) = F[Len(file)]
    <2>1. Visible(file) = (CHOOSE f : KeptOf(f, file, Len(file)))[Len(file)]
      BY DEF Visible, KeptOf
    <2> QED
      BY <1>2, <2>1
  <1> DEFINE Bad == {n \in 0 .. Len(file) : F[n] \notin Seq(S)}
  <1>4. Bad = {}
    <2> SUFFICES ASSUME Bad # {} PROVE FALSE
      OBVIOUS
    <2>1. PICK n \in Bad : \A k \in Bad : n <= k
      <3>1. Bad \in SUBSET Nat
        BY <1>1
      <3> HIDE DEF Bad
      <3> QED
        BY <3>1, LeastNumber
    <2>2. F[n] = IF n = 0 THEN << >>
                 ELSE IF file[n].kind \in {"imp", "internal"} THEN F[n - 1]
                 ELSE Append(F[n - 1], file[n])
      BY <1>2 DEF KeptOf
    <2>3. n # 0
      BY <2>2, EmptySeq
    <2>4. n \in 1 .. Len(file) /\ n - 1 \in 0 .. Len(file) /\ n - 1 \notin Bad
      <3>1. n \in 0 .. Len(file)
        OBVIOUS
      <3> HIDE DEF Bad
      <3> QED
        BY <1>1, <2>1, <2>3, <3>1
    <2>5. F[n - 1] \in Seq(S) /\ file[n] \in S
      BY <2>4, ElementOfSeq
    <2>6. Append(F[n - 1], file[n]) \in Seq(S)
      <3>1. PICK s, v : s = F[n - 1] /\ v = file[n] /\ s \in Seq(S) /\ v \in S
        BY <2>5
      <3>2. Append(s, v) \in Seq(S)
        BY <3>1, AppendProperties
      <3> QED
        BY <3>1, <3>2
    <2>7. F[n] \in Seq(S)
      BY <2>2, <2>3, <2>5, <2>6
    <2> QED
      BY <2>7
  <1> QED
    BY <1>1, <1>3, <1>4

Declarations == About \cup Own
SplicedDecls == [decl : Declarations, from : ImpModules \cup {Primary}, lib : BOOLEAN, by : Nat]
IsImport(d) == d.kind \in {"imp", "libimp", "std"}

ImpTypeOK ==
  /\ impFiles \in [ImpModules -> Contents1 \cup {Unread}]
  /\ impDecls \in Seq(SplicedDecls)
  /\ impAt \in Nat \ {0}
  /\ impErrors \subseteq Nat
  /\ impPhase \in {"parse", "resolve", "done"}

\* What is there was spliced by an import that was passed, and only passed ones failed.
ByPassed ==
  /\ \A j \in DOMAIN impDecls : impDecls[j].by < impAt
  /\ \A i \in impErrors : i < impAt

\* What the loop has made of a declaration that it has passed.
PassedAs(i) ==
  IF IsImport(impDecls[i].decl) /\ i \notin impErrors
  THEN \E place \in 0 .. Len(impDecls) : BlockFor(i, place)
  ELSE SplicedFor(i) = {}

ImportsInv ==
  /\ ImpTypeOK
  /\ impPhase = "parse" => impDecls = << >> /\ impAt = 1 /\ impErrors = {}
  /\ ByPassed
  /\ LinkedWhereNamed
  /\ OncePerImport
  /\ ImportsInOrder

\* A file is a sequence of declarations, and not one that is unread.
LEMMA FileIsSeq ==
  ASSUME NEW file \in Contents1
  PROVE  file \in Seq(Declarations) /\ file # Unread
  <1>1. PICK n \in 0 .. MaxPerFile : file \in [1 .. n -> Declarations]
    BY DEF Contents1, Declarations
  <1>2. n \in Nat
    OBVIOUS
  <1>3. file \in Seq(Declarations)
    BY <1>1, <1>2, IsASeq
  <1>4. ASSUME file = Unread PROVE FALSE
    <2>1. n = 1
      BY <1>1, <1>2, <1>4 DEF Unread
    <2>2. file[1] \in Declarations
      BY <1>1, <2>1
    <2>3. file[1].kind = "unread"
      BY <1>4 DEF Unread
    <2> QED
      BY <2>2, <2>3 DEF Declarations, About, Own
  <1> QED
    BY <1>3, <1>4

\* Only a declaration about a module of the system imports, or says where code is.
LEMMA AboutModules ==
  ASSUME NEW d \in Declarations, d.kind \in {"imp", "lib", "libimp", "std"}
  PROVE  d.of \in ImpModules
  BY DEF Declarations, About, Own

\* A spliced declaration is what it is made of.
LEMMA SplicedFacts ==
  ASSUME NEW d \in Declarations, NEW m \in ImpModules \cup {Primary}, NEW lib \in BOOLEAN, NEW i \in Nat
  PROVE  /\ Spliced(d, m, lib, i) \in SplicedDecls
         /\ Spliced(d, m, lib, i).decl = d /\ Spliced(d, m, lib, i).from = m
         /\ Spliced(d, m, lib, i).lib = lib /\ Spliced(d, m, lib, i).by = i
  BY DEF Spliced, SplicedDecls

\* What is said of passed imports, in a word.
LEMMA OnceIsPassedAs == OncePerImport <=> \A i \in DOMAIN impDecls : i < impAt => PassedAs(i)
  BY DEF OncePerImport, PassedAs, IsImport

LEMMA ImportsStart == ImportsInit => ImportsInv
  <1> SUFFICES ASSUME ImportsInit PROVE ImportsInv
    OBVIOUS
  <1>1. impDecls \in Seq(SplicedDecls) /\ DOMAIN impDecls = {}
    BY EmptySeq DEF ImportsInit
  <1>2. ImpTypeOK
    BY <1>1 DEF ImportsInit, ImpTypeOK
  <1>3. LinkedWhereNamed /\ OncePerImport /\ ImportsInOrder
    BY <1>1 DEF LinkedWhereNamed, OncePerImport, ImportsInOrder
  <1>4. ByPassed
    BY <1>1 DEF ImportsInit, ByPassed
  <1> QED
    BY <1>2, <1>3, <1>4 DEF ImportsInit, ImportsInv

\* What the primary file itself holds.
LEMMA ParsePrimaryKeeps ==
  ASSUME ImportsInv, ParsePrimary
  PROVE  ImportsInv'
  <1>1. PICK file \in Contents1 : impDecls' = [i \in DOMAIN file |-> Spliced(file[i], Primary, FALSE, 0)]
    BY DEF ParsePrimary
  <1>2. file \in Seq(Declarations)
    BY FileIsSeq
  <1>3. Len(file) \in Nat /\ DOMAIN file = 1 .. Len(file)
    BY <1>2, LenProperties
  <1>4. \A i \in DOMAIN file : file[i] \in Declarations
    BY <1>2, <1>3, ElementOfSeq
  <1>5. /\ DOMAIN impDecls' = DOMAIN file
        /\ \A i \in DOMAIN file : impDecls'[i] = Spliced(file[i], Primary, FALSE, 0)
    BY <1>1
  <1>6. \A i \in DOMAIN file :
          impDecls'[i] \in SplicedDecls /\ impDecls'[i].decl = file[i] /\ impDecls'[i].from = Primary
          /\ impDecls'[i].by = 0
    <2> TAKE i \in DOMAIN file
    <2>1. PICK d \in Declarations : d = file[i]
      BY <1>4
    <2>2. impDecls'[i] = Spliced(d, Primary, FALSE, 0)
      BY <1>5, <2>1
    <2>3. PICK lib \in BOOLEAN : lib = FALSE
      OBVIOUS
    <2>4. Spliced(d, Primary, lib, 0) \in SplicedDecls /\ Spliced(d, Primary, lib, 0).decl = d
          /\ Spliced(d, Primary, lib, 0).from = Primary /\ Spliced(d, Primary, lib, 0).by = 0
      BY SplicedFacts
    <2> QED
      BY <2>1, <2>2, <2>3, <2>4
  <1>7. impDecls' \in Seq(SplicedDecls)
    <2>1. impDecls' \in [1 .. Len(file) -> SplicedDecls]
      BY <1>1, <1>3, <1>6
    <2> QED
      BY <1>3, <2>1, IsASeq
  <1>8. ImpTypeOK'
    BY <1>7 DEF ImportsInv, ImpTypeOK, ParsePrimary
  <1>9. /\ \A j \in DOMAIN impDecls' : impDecls'[j].from = Primary /\ impDecls'[j].by = 0
        /\ impAt' = 1 /\ impErrors' = {}
    BY <1>5, <1>6 DEF ImportsInv, ParsePrimary
  <1>10. LinkedWhereNamed'
    BY <1>9 DEF LinkedWhereNamed
  <1>11. OncePerImport'
    BY <1>3, <1>5, <1>9 DEF OncePerImport
  <1>12. ImportsInOrder' /\ ByPassed'
    BY <1>9 DEF ImportsInOrder, ByPassed
  <1> QED
    BY <1>8, <1>10, <1>11, <1>12 DEF ImportsInv, ParsePrimary

\* A step that splices nothing: the current declaration is passed, and is no import or
\* among the errors.
LEMMA PassKeeps ==
  ASSUME ImportsInv, impAt \in 1 .. Len(impDecls), impAt' = impAt + 1,
         UNCHANGED <<impFiles, impDecls, impPhase>>, impPhase = "resolve",
         \/ impErrors' = impErrors /\ ~IsImport(impDecls[impAt].decl)
         \/ impErrors' = impErrors \cup {impAt}
  PROVE  ImportsInv'
  <1>1. /\ impAt \in Nat /\ \A j \in DOMAIN impDecls : j \in Nat /\ impDecls[j].by \in Nat
    <2>1. \A j \in DOMAIN impDecls : j \in Nat /\ impDecls[j] \in SplicedDecls
      BY LenProperties, ElementOfSeq DEF ImportsInv, ImpTypeOK
    <2> QED
      BY <2>1 DEF SplicedDecls, ImportsInv, ImpTypeOK
  <1>2. ImpTypeOK'
    <2>1. impErrors' \subseteq Nat
      BY <1>1 DEF ImportsInv, ImpTypeOK
    <2>2. impAt' \in Nat \ {0}
      BY <1>1
    <2>3. impFiles' = impFiles /\ impDecls' = impDecls /\ impPhase' = impPhase
      OBVIOUS
    <2> QED
      BY <2>1, <2>2, <2>3 DEF ImportsInv, ImpTypeOK
  <1>3. ByPassed'
    <2>1. \A i \in impErrors : i \in Nat
      BY DEF ImportsInv, ImpTypeOK
    <2> QED
      BY <1>1, <2>1 DEF ImportsInv, ByPassed
  <1>4. LinkedWhereNamed' /\ ImportsInOrder'
    BY DEF ImportsInv, LinkedWhereNamed, SaysBacked, ImportsInOrder
  <1>5. ASSUME NEW i \in DOMAIN impDecls, i < impAt + 1 PROVE PassedAs(i)'
    <2>1. CASE i = impAt
      <3>1. SplicedFor(impAt) = {}
        BY <1>1 DEF SplicedFor, ImportsInv, ByPassed
      <3>2. ~IsImport(impDecls[i].decl) \/ i \in impErrors'
        BY <2>1
      <3> QED
        BY <2>1, <3>1, <3>2 DEF PassedAs, SplicedFor
    <2>2. CASE i # impAt
      <3>1. i < impAt
        BY <1>1, <1>5, <2>2
      <3>2. PassedAs(i)
        BY <3>1, OnceIsPassedAs DEF ImportsInv
      <3>3. i \in impErrors' <=> i \in impErrors
        BY <2>2
      <3> QED
        BY <3>2, <3>3 DEF PassedAs, SplicedFor, BlockFor
    <2> QED
      BY <2>1, <2>2
  <1>6. OncePerImport'
    BY <1>5 DEF OncePerImport, PassedAs, IsImport
  <1> QED
    BY <1>2, <1>3, <1>4, <1>6 DEF ImportsInv

\* Nothing changes but the index, which passes the current declaration.
LEMMA SkipKeeps ==
  ASSUME ImportsInv, SkipDeclaration
  PROVE  ImportsInv'
  <1>1. /\ impAt \in 1 .. Len(impDecls) /\ impAt' = impAt + 1 /\ Len(impDecls) \in Nat
        /\ UNCHANGED <<impFiles, impDecls, impErrors, impPhase>> /\ impPhase = "resolve"
        /\ ~IsImport(impDecls[impAt].decl)
    BY LenProperties DEF SkipDeclaration, Resolving, Current, ImportsInv, ImpTypeOK, IsImport
  <1> QED
    BY <1>1, PassKeeps

\* The import that fails is among the errors from now on.
LEMMA FailKeeps ==
  ASSUME ImportsInv, ImportFails
  PROVE  ImportsInv'
  <1>1. /\ impAt \in 1 .. Len(impDecls) /\ impAt' = impAt + 1 /\ Len(impDecls) \in Nat
        /\ UNCHANGED <<impFiles, impDecls, impPhase>> /\ impPhase = "resolve"
        /\ impErrors' = impErrors \cup {impAt}
    BY LenProperties DEF ImportFails, Import, Resolving, Current, ImportsInv, ImpTypeOK
  <1> QED
    BY <1>1, PassKeeps

\* The declarations of a file, spliced as those of its module.
LEMMA SplicedSeq ==
  ASSUME NEW file \in Contents1, NEW m \in ImpModules, NEW lib \in BOOLEAN, NEW b \in Nat, NEW t,
         t = [i \in DOMAIN Visible(file) |-> Spliced(Visible(file)[i], m, lib, b)]
  PROVE  /\ t \in Seq(SplicedDecls) /\ DOMAIN t = DOMAIN Visible(file)
         /\ Len(Visible(file)) \in Nat /\ DOMAIN t = 1 .. Len(Visible(file))
         /\ \A i \in DOMAIN t :
              t[i].decl = Visible(file)[i] /\ t[i].from = m /\ t[i].lib = lib /\ t[i].by = b
  <1>1. PICK v : v = Visible(file) /\ v \in Seq(Declarations)
    BY FileIsSeq, VisibleIsSeq
  <1>2. Len(v) \in Nat /\ DOMAIN v = 1 .. Len(v) /\ \A i \in DOMAIN v : v[i] \in Declarations
    BY <1>1, LenProperties, ElementOfSeq
  <1>3. t = [i \in 1 .. Len(v) |-> Spliced(v[i], m, lib, b)]
    BY <1>1, <1>2
  <1>4. ASSUME NEW i \in 1 .. Len(v)
        PROVE  t[i] \in SplicedDecls /\ t[i].decl = v[i] /\ t[i].from = m /\ t[i].lib = lib /\ t[i].by = b
    <2>1. PICK d \in Declarations : d = v[i]
      BY <1>2
    <2>2. t[i] = Spliced(d, m, lib, b) /\ m \in ImpModules \cup {Primary}
      BY <1>3, <2>1
    <2> QED
      BY <2>1, <2>2, SplicedFacts
  <1>5. t \in [1 .. Len(v) -> SplicedDecls]
    BY <1>3, <1>4
  <1> QED
    BY <1>1, <1>2, <1>3, <1>4, <1>5, IsASeq

\* The import that succeeds is spliced behind all there is.
LEMMA SucceedKeeps ==
  ASSUME ImportsInv, ImportSucceeds
  PROVE  ImportsInv'
  <1>1. PICK m : m = Current.of
    OBVIOUS
  <1>2. PICK file \in (IF impFiles[m] = Unread THEN Contents1 ELSE {impFiles[m]}) :
          /\ impFiles' = [impFiles EXCEPT ![m] = file]
          /\ impDecls' = impDecls \o
               [i \in DOMAIN Visible(file) |-> Spliced(Visible(file)[i], m, LibBacked(m), impAt)]
    BY <1>1 DEF ImportSucceeds
  <1>3. /\ impAt \in 1 .. Len(impDecls) /\ impAt' = impAt + 1 /\ Len(impDecls) \in Nat
        /\ UNCHANGED <<impErrors, impPhase>> /\ impPhase = "resolve"
        /\ impDecls[impAt].decl.kind \in {"imp", "libimp", "std"} /\ m = impDecls[impAt].decl.of
    BY <1>1, LenProperties DEF ImportSucceeds, Import, Resolving, Current, ImportsInv, ImpTypeOK
  <1>4. \A i \in DOMAIN impDecls : impDecls[i] \in SplicedDecls /\ impDecls[i].decl \in Declarations
    <2> TAKE i \in DOMAIN impDecls
    <2>1. impDecls[i] \in SplicedDecls
      BY LenProperties, ElementOfSeq DEF ImportsInv, ImpTypeOK
    <2> QED
      BY <2>1 DEF SplicedDecls
  <1>5. m \in ImpModules
    <2>1. impAt \in DOMAIN impDecls
      BY <1>3, LenProperties DEF ImportsInv, ImpTypeOK
    <2> QED
      BY <1>3, <1>4, <2>1, AboutModules
  <1>6. file \in Contents1 /\ file # Unread /\ (impFiles[m] # Unread => file = impFiles[m])
    <2>1. impFiles[m] # Unread => impFiles[m] \in Contents1
      BY <1>5 DEF ImportsInv, ImpTypeOK
    <2>2. file \in Contents1
      BY <2>1
    <2> QED
      BY <2>2, FileIsSeq
  <1>7. PICK lib : lib = LibBacked(m) /\ lib \in BOOLEAN
    BY DEF LibBacked
  <1>8. PICK t : /\ t = [i \in DOMAIN Visible(file) |-> Spliced(Visible(file)[i], m, lib, impAt)]
                 /\ impDecls' = impDecls \o t
    BY <1>2, <1>7
  <1>9. /\ t \in Seq(SplicedDecls) /\ DOMAIN t = DOMAIN Visible(file)
        /\ Len(Visible(file)) \in Nat /\ DOMAIN t = 1 .. Len(Visible(file))
        /\ \A i \in DOMAIN t :
             t[i].decl = Visible(file)[i] /\ t[i].from = m /\ t[i].lib = lib /\ t[i].by = impAt
    <2>1. impAt \in Nat
      BY <1>3
    <2> QED
      BY <1>5, <1>6, <1>7, <1>8, <2>1, SplicedSeq
  <1>10. Len(t) \in Nat /\ DOMAIN t = 1 .. Len(t) /\ DOMAIN impDecls = 1 .. Len(impDecls)
    BY <1>9, LenProperties DEF ImportsInv, ImpTypeOK
  <1>11. /\ impDecls' \in Seq(SplicedDecls) /\ Len(impDecls') = Len(impDecls) + Len(t)
         /\ DOMAIN impDecls' = 1 .. Len(impDecls) + Len(t)
         /\ \A i \in 1 .. Len(impDecls) + Len(t) :
              impDecls'[i] = IF i <= Len(impDecls) THEN impDecls[i] ELSE t[i - Len(impDecls)]
    <2>1. PICK a : a = impDecls /\ a \in Seq(SplicedDecls)
      BY DEF ImportsInv, ImpTypeOK
    <2>2. a \o t \in Seq(SplicedDecls) /\ Len(a \o t) = Len(a) + Len(t)
      BY <1>9, <2>1, ConcatProperties
    <2>3. \A i \in 1 .. Len(a) + Len(t) : (a \o t)[i] = IF i <= Len(a) THEN a[i] ELSE t[i - Len(a)]
      BY <1>9, <2>1, ConcatProperties
    <2>4. DOMAIN (a \o t) = 1 .. Len(a) + Len(t)
      BY <2>2, LenProperties
    <2> QED
      BY <1>8, <2>1, <2>2, <2>3, <2>4
  <1>12. /\ \A i \in DOMAIN impDecls : i \in DOMAIN impDecls' /\ impDecls'[i] = impDecls[i]
         /\ \A k \in DOMAIN t : k + Len(impDecls) \in DOMAIN impDecls' /\ impDecls'[k + Len(impDecls)] = t[k]
         /\ \A i \in DOMAIN impDecls' : i \in DOMAIN impDecls \/ i - Len(impDecls) \in DOMAIN t
         /\ \A i \in DOMAIN impDecls' :
              i \notin DOMAIN impDecls =>
                 i - Len(impDecls) \in DOMAIN t /\ impDecls'[i] = t[i - Len(impDecls)]
    BY <1>3, <1>10, <1>11
  <1>13. ImpTypeOK'
    <2>1. impFiles' \in [ImpModules -> Contents1 \cup {Unread}]
      BY <1>2, <1>5, <1>6 DEF ImportsInv, ImpTypeOK
    <2> QED
      BY <1>3, <1>11, <2>1 DEF ImportsInv, ImpTypeOK
  <1>14. /\ \A j \in DOMAIN impDecls : j \in Nat /\ impDecls[j].by \in Nat /\ impDecls[j].by < impAt
         /\ \A i \in impErrors : i \in Nat /\ i < impAt
    BY <1>3, <1>4, <1>10 DEF SplicedDecls, ImportsInv, ImpTypeOK, ByPassed
  <1>15. ByPassed'
    <2>1. \A j \in DOMAIN impDecls' : impDecls'[j].by < impAt + 1
      BY <1>3, <1>9, <1>12, <1>14
    <2> QED
      BY <1>3, <1>14, <2>1 DEF ByPassed
  <1>16. LinkedWhereNamed'
    <2> SUFFICES ASSUME NEW j \in DOMAIN impDecls', impDecls'[j].from # Primary
                 PROVE  impDecls'[j].lib <=>
                          \E i \in DOMAIN impDecls' : /\ impDecls'[i].decl.kind \in {"lib", "libimp", "std"}
                                                     /\ impDecls'[i].decl.of = impDecls'[j].from
                                                     /\ impDecls'[i].by < impDecls'[j].by
      BY DEF LinkedWhereNamed, SaysBacked
    <2>1. impDecls'[j].by \in Nat /\ impDecls'[j].by <= impAt
      BY <1>3, <1>9, <1>12, <1>14
    <2>2. ASSUME NEW i \in DOMAIN impDecls'
          PROVE  impDecls'[i].by < impDecls'[j].by => i \in DOMAIN impDecls /\ impDecls'[i] = impDecls[i]
      <3> SUFFICES ASSUME i \notin DOMAIN impDecls PROVE impDecls'[i].by = impAt
        BY <1>3, <1>12, <2>1
      <3> QED
        BY <1>9, <1>12
    <2>3. CASE j \in DOMAIN impDecls
      <3>1. impDecls'[j] = impDecls[j]
        BY <1>12, <2>3
      <3>2. impDecls[j].lib <=>
              \E i \in DOMAIN impDecls : /\ impDecls[i].decl.kind \in {"lib", "libimp", "std"}
                                        /\ impDecls[i].decl.of = impDecls[j].from
                                        /\ impDecls[i].by < impDecls[j].by
        BY <2>3, <3>1 DEF ImportsInv, LinkedWhereNamed, SaysBacked
      <3> QED
        BY <1>12, <2>2, <3>1, <3>2
    <2>4. CASE j \notin DOMAIN impDecls
      <3>1. impDecls'[j].from = m /\ impDecls'[j].lib = lib /\ impDecls'[j].by = impAt
        BY <1>9, <1>12, <2>4
      <3>2. lib <=> \E i \in DOMAIN impDecls : /\ impDecls[i].decl.kind \in {"lib", "libimp", "std"}
                                              /\ impDecls[i].decl.of = m
        BY <1>7 DEF LibBacked, BackedBy, Backing
      <3> QED
        BY <1>12, <1>14, <2>2, <3>1, <3>2
    <2> QED
      BY <2>3, <2>4
  <1>17. ASSUME NEW i \in DOMAIN impDecls', i < impAt + 1 PROVE PassedAs(i)'
    <2>1. i \in DOMAIN impDecls /\ impDecls'[i] = impDecls[i] /\ i \in Nat
      BY <1>3, <1>10, <1>11, <1>12, <1>17
    <2>2. CASE i = impAt
      <3>1. i \notin impErrors
        BY <1>14, <2>2
      <3>2. SplicedFor(i)' = Len(impDecls) + 1 .. Len(impDecls) + Len(Visible(file))
        <4>1. ASSUME NEW j \in DOMAIN impDecls' PROVE impDecls'[j].by = i <=> j \notin DOMAIN impDecls
          BY <1>9, <1>12, <1>14, <2>2
        <4>2. Len(t) = Len(Visible(file))
          BY <1>9, <1>10
        <4>3. SplicedFor(i)' = {j \in DOMAIN impDecls' : j \notin DOMAIN impDecls}
          BY <4>1 DEF SplicedFor
        <4> QED
          BY <1>3, <1>10, <1>11, <4>2, <4>3
      <3>3. impFiles'[m] = file /\ impDecls'[i].decl.of = m
        BY <1>2, <1>3, <1>5, <2>1, <2>2 DEF ImportsInv, ImpTypeOK
      <3>4. \A k \in 1 .. Len(Visible(file)) :
              /\ impDecls'[Len(impDecls) + k].decl = Visible(file)[k]
              /\ impDecls'[Len(impDecls) + k].from = m
        <4> TAKE k \in 1 .. Len(Visible(file))
        <4>1. k \in DOMAIN t /\ k + Len(impDecls) = Len(impDecls) + k
          BY <1>3, <1>9
        <4> QED
          BY <1>9, <1>12, <4>1
      <3>5. PICK len : len = Len(impDecls) /\ len \in 0 .. Len(impDecls')
        BY <1>3, <1>10, <1>11
      <3>6. BlockFor(i, len)'
        <4>1. impFiles'[impDecls'[i].decl.of] = file /\ impFiles'[impDecls'[i].decl.of] # Unread
          BY <1>6, <3>3
        <4>2. \A k \in 1 .. Len(Visible(file)) : impDecls'[Len(impDecls) + k].from = impDecls'[i].decl.of
          BY <3>3, <3>4
        <4> QED
          BY <3>2, <3>4, <3>5, <4>1, <4>2 DEF BlockFor
      <3>7. IsImport(impDecls'[i].decl) /\ i \notin impErrors'
        BY <1>3, <2>1, <2>2, <3>1 DEF IsImport
      <3> QED
        BY <3>5, <3>6, <3>7 DEF PassedAs
    <2>3. CASE i # impAt
      <3>1. PassedAs(i)
        BY <1>3, <1>17, <2>1, <2>3, OnceIsPassedAs DEF ImportsInv
      <3>2. SplicedFor(i)' = SplicedFor(i)
        BY <1>9, <1>12, <2>3 DEF SplicedFor
      <3>3. CASE ~(IsImport(impDecls[i].decl) /\ i \notin impErrors)
        BY <1>3, <2>1, <3>1, <3>2, <3>3 DEF PassedAs
      <3>4. CASE IsImport(impDecls[i].decl) /\ i \notin impErrors
        <4>1. PICK place \in 0 .. Len(impDecls) : BlockFor(i, place)
          BY <3>1, <3>4 DEF PassedAs
        <4>2. PICK n : n = impDecls[i].decl.of /\ n \in ImpModules
          BY <1>4, <2>1, <3>4, AboutModules DEF IsImport
        <4>3. impFiles[n] # Unread /\ impFiles'[n] = impFiles[n]
          BY <1>2, <1>5, <1>6, <4>1, <4>2 DEF BlockFor, ImportsInv, ImpTypeOK
        <4>4. \A k \in 1 .. Len(Visible(impFiles[n])) :
                place + k \in DOMAIN impDecls /\ impDecls'[place + k] = impDecls[place + k]
          <5> TAKE k \in 1 .. Len(Visible(impFiles[n]))
          <5>1. SplicedFor(i) = place + 1 .. place + Len(Visible(impFiles[n]))
            BY <4>1, <4>2 DEF BlockFor
          <5>2. impFiles[n] \in Contents1
            BY <4>2, <4>3 DEF ImportsInv, ImpTypeOK
          <5>3. PICK v : v = Visible(impFiles[n]) /\ v \in Seq(Declarations)
            BY <5>2, FileIsSeq, VisibleIsSeq
          <5>4. Len(v) \in Nat
            BY <5>3, LenProperties
          <5>5. place + k \in place + 1 .. place + Len(v)
            BY <1>3, <5>3, <5>4
          <5>6. place + k \in SplicedFor(i)
            BY <5>1, <5>3, <5>5
          <5> QED
            BY <1>12, <5>6 DEF SplicedFor
        <4>5. BlockFor(i, place)'
          BY <2>1, <3>2, <4>1, <4>2, <4>3, <4>4 DEF BlockFor
        <4>6. place \in 0 .. Len(impDecls')
          BY <1>3, <1>10, <1>11
        <4> QED
          BY <1>3, <2>1, <3>4, <4>5, <4>6 DEF PassedAs
      <3> QED
        BY <3>3, <3>4
    <2> QED
      BY <2>2, <2>3
  <1>18. OncePerImport'
    BY <1>3, <1>17 DEF OncePerImport, PassedAs, IsImport
  <1>19. ImportsInOrder'
    <2> SUFFICES ASSUME NEW j \in DOMAIN impDecls', NEW k \in DOMAIN impDecls', j < k
                 PROVE  impDecls'[j].by <= impDecls'[k].by
      BY DEF ImportsInOrder
    <2>1. CASE k \in DOMAIN impDecls
      <3>1. j \in DOMAIN impDecls
        BY <1>3, <1>10, <1>11, <2>1
      <3> QED
        BY <1>12, <2>1, <3>1 DEF ImportsInv, ImportsInOrder
    <2>2. CASE k \notin DOMAIN impDecls
      <3>1. impDecls'[k].by = impAt
        BY <1>9, <1>12, <2>2
      <3>2. impDecls'[j].by <= impAt
        BY <1>3, <1>9, <1>12, <1>14
      <3> QED
        BY <3>1, <3>2
    <2> QED
      BY <2>1, <2>2
  <1> QED
    BY <1>3, <1>13, <1>15, <1>16, <1>18, <1>19 DEF ImportsInv

\* The loop ends when it has passed everything.
LEMMA ResolvedKeeps ==
  ASSUME ImportsInv, Resolved \/ UNCHANGED impVars
  PROVE  ImportsInv'
  <1>1. /\ UNCHANGED <<impFiles, impDecls, impAt, impErrors>>
        /\ impPhase' \in {"parse", "resolve", "done"}
        /\ impPhase' = "parse" => impPhase = "parse"
    BY DEF Resolved, impVars, ImportsInv, ImpTypeOK
  <1>2. ImpTypeOK' /\ ByPassed'
    BY <1>1 DEF ImportsInv, ImpTypeOK, ByPassed
  <1>3. LinkedWhereNamed' /\ ImportsInOrder'
    BY <1>1 DEF ImportsInv, LinkedWhereNamed, SaysBacked, ImportsInOrder
  <1>4. OncePerImport'
    BY <1>1 DEF ImportsInv, OncePerImport, SplicedFor, BlockFor
  <1> QED
    BY <1>1, <1>2, <1>3, <1>4 DEF ImportsInv

\* Whatever the files hold and whichever imports fail: of every import that was passed
\* without an error all that is visible is in the AST, once, as a block, in the order of
\* the imports, and is linked just if the primary file or a module spliced before names
\* an archive for it (main.c, resolve_imports).
THEOREM ImportsAlwaysResolved == ImportsSpec => []ImportsResolved
  <1>1. ImportsInv /\ [ImportsNext]_impVars => ImportsInv'
    BY ParsePrimaryKeeps, SkipKeeps, FailKeeps, SucceedKeeps, ResolvedKeeps DEF ImportsNext
  <1>2. ImportsInv => ImportsResolved
    BY DEF ImportsInv, ImportsResolved
  <1> QED
    BY <1>1, <1>2, ImportsStart, PTL DEF ImportsSpec

================================================================================
