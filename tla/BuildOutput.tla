------------------------------ MODULE BuildOutput ------------------------------
(* How a build comes to its destination: compile_file of src/main.c with the      *)
(* transaction of src/common/output_transaction.h (the Linux variant).  Several   *)
(* compilers may build to the same destination at the same time.                  *)
(*                                                                                *)
(* A build works in a private directory beside the destination, removes the old   *)
(* destination before it reads its source, and renames its own result to the      *)
(* destination when everything has succeeded.  An archive gets a second file, its *)
(* ABI metadata, in a second transaction.                                         *)
(*                                                                                *)
(* Each system call another process can see is a step; every one whose result the *)
(* code looks at may fail, and a build may be killed between any two steps.       *)
(* Removing a file the build has itself made in its private directory succeeds.   *)
EXTENDS Naturals, FiniteSets

CONSTANTS Builds,    \* the calls of compile_file, one per compiler process
          None,      \* no file, no directory
          Yesterday  \* the build whose results are there at the beginning

ASSUME BuildAssumption ==
  /\ None \notin Builds \cup {Yesterday} /\ Yesterday \notin Builds
  /\ None \notin [by : Builds \cup {Yesterday}, whole : BOOLEAN]

VARIABLES
  out,       \* the destination: None or [by, whole]
  contract,  \* destination.stasha-abi: None or the build whose archive it describes
  mode,      \* what each build is asked for
  at,        \* the next step of each build
  private,   \* its private directory: None or the files in it
  ok,        \* result, as far as known
  older,     \* history: who had made the destination when the build began
  disturbed, \* history: another build ran while this one did, or after it
  stuck,     \* history: what a failed archive build could not remove at its end
  verdict    \* what is reported of each test build, and what was executed for it

buildVars == <<out, contract, mode, at, private, ok, older, disturbed, stuck, verdict>>

Modes == {"obj", "exe", "test", "observed", "lib"}
Contents == {"absent", "partial", "whole"}
Files == [object : Contents, companions : Contents, staged : Contents]
NoFiles == [object |-> "absent", companions |-> "absent", staged |-> "absent"]
Steps == {"idle", "prepare", "mkdtemp", "invalidate", "front end", "emit", "audit", "companions",
          "link", "retain", "publish", "rmdir", "metadata", "write metadata",
          "publish metadata", "drop archive", "drop metadata", "done", "refused", "killed"}
Running(b) == at[b] \notin {"idle", "done", "refused", "killed"}
Artifact == [by : Builds \cup {Yesterday}, whole : BOOLEAN]
Verdicts == [said : {"nothing", "PASS", "FAIL"}, ran : {None} \cup Artifact]
By(file) == IF file = None THEN {} ELSE {file.by}

\* One type invariant for the module.
BuildTypeOK ==
  /\ out \in {None} \cup Artifact
  /\ contract \in {None} \cup Builds \cup {Yesterday}
  /\ mode \in [Builds -> Modes]
  /\ at \in [Builds -> Steps]
  /\ private \in [Builds -> {None} \cup Files]
  /\ ok \in [Builds -> BOOLEAN]
  /\ older \in [Builds -> SUBSET (Builds \cup {Yesterday})]
  /\ disturbed \in [Builds -> BOOLEAN]
  /\ stuck \in [Builds -> SUBSET {"archive", "metadata"}]
  /\ verdict \in [Builds -> Verdicts]

BuildInit ==
  /\ out = [by |-> Yesterday, whole |-> TRUE]
  /\ contract = Yesterday
  /\ mode = [b \in Builds |-> "exe"]
  /\ at = [b \in Builds |-> "idle"]
  /\ private = [b \in Builds |-> None]
  /\ ok = [b \in Builds |-> TRUE]
  /\ older = [b \in Builds |-> {}]
  /\ disturbed = [b \in Builds |-> FALSE]
  /\ stuck = [b \in Builds |-> {}]
  /\ verdict = [b \in Builds |-> [said |-> "nothing", ran |-> None]]

--------------------------------------------------------------------------------
(* Steps of one build. *)

Goto(b, step) == at' = [at EXCEPT ![b] = step]
Fail(b) == ok' = [ok EXCEPT ![b] = FALSE]
Holds(b, file, content) == private' = [private EXCEPT ![b][file] = content]
Stuck(b, what) == stuck' = [stuck EXCEPT ![b] = @ \cup {what}]
Shared == <<out, contract>>
Asked == <<mode, older, disturbed, stuck, verdict>>

\* What follows the transaction's end, or a begin that failed at the destination itself:
\* an archive goes on to its metadata, everything else is finished.
AfterTransaction(b, success) ==
  IF mode[b] # "lib" THEN "done" ELSE IF success THEN "metadata" ELSE "drop metadata"

\* compile_file is called.
Start(b) ==
  /\ at[b] = "idle"
  /\ \E m \in Modes : mode' = [mode EXCEPT ![b] = m]
  /\ Goto(b, "prepare")
  /\ older' = [older EXCEPT ![b] = By(out)]
  /\ disturbed' = [d \in Builds |-> \/ disturbed[d]
                                    \/ d = b /\ \E e \in Builds : Running(e)
                                    \/ d # b /\ at[d] # "idle"]
  /\ UNCHANGED <<out, contract, private, ok, stuck, verdict>>

\* sts_output_begin refuses a destination that is the source or no regular file, or
\* whose name is too long; compile_file returns at once.
Refuse(b) ==
  /\ at[b] = "prepare"
  /\ Fail(b) /\ Goto(b, "refused")
  /\ UNCHANGED <<Shared, private, Asked>>

Accept(b) ==
  /\ at[b] = "prepare"
  /\ Goto(b, "mkdtemp")
  /\ UNCHANGED <<Shared, private, ok, Asked>>

\* mkdtemp; where it fails the destination has not been touched.
MakeDirectory(b) ==
  /\ at[b] = "mkdtemp"
  /\ \/ /\ private' = [private EXCEPT ![b] = NoFiles]
        /\ Goto(b, "invalidate") /\ UNCHANGED ok
     \/ Fail(b) /\ Goto(b, "refused") /\ UNCHANGED private
  /\ UNCHANGED <<Shared, Asked>>

\* (Fault: the old destination stays until there is something to put in its place.)
InvalidateForgotten(b) ==
  /\ at[b] = "invalidate"
  /\ Goto(b, "front end")
  /\ UNCHANGED <<Shared, private, ok, Asked>>

\* remove(destination): no file is as good as a removed one.
Invalidate(b) ==
  /\ at[b] = "invalidate"
  /\ \/ out' = None /\ Goto(b, "front end") /\ UNCHANGED <<private, ok>>
     \/ /\ out # None /\ Fail(b) /\ Goto(b, "refused")
        /\ private' = [private EXCEPT ![b] = None]
        /\ UNCHANGED out
  /\ UNCHANGED <<contract, Asked>>

\* Target, source, preprocessor, parser, imports and analyses: every early return of
\* compile_file_staged before code generation.
FrontEnd(b) ==
  /\ at[b] = "front end"
  /\ \/ Goto(b, "emit") /\ UNCHANGED ok
     \/ Fail(b) /\ Goto(b, "publish")
  /\ UNCHANGED <<Shared, private, Asked>>

\* Code generation writes the object; with obj and ir that is the result itself.
EmittedFile(b) == IF mode[b] = "obj" THEN "staged" ELSE "object"

EmitBegin(b) ==
  /\ at[b] = "emit" /\ private[b][EmittedFile(b)] = "absent"
  /\ Holds(b, EmittedFile(b), "partial")
  /\ UNCHANGED <<Shared, at, ok, Asked>>

\* A failure is an error before emission, verification included, or emission's own;
\* codegen and its caller both remove what there is.
EmitEnd(b) ==
  /\ at[b] = "emit"
  /\ \/ /\ private[b][EmittedFile(b)] = "partial"
        /\ Holds(b, EmittedFile(b), "whole") /\ Goto(b, "audit") /\ UNCHANGED ok
     \/ Holds(b, EmittedFile(b), "absent") /\ Fail(b) /\ Goto(b, "publish")
  /\ UNCHANGED <<Shared, Asked>>

\* The audit of a kernel object may refuse it; obj and ir end here.
Audit(b) ==
  /\ at[b] = "audit"
  /\ \/ /\ Goto(b, CASE mode[b] = "obj" -> "publish"
                     [] mode[b] = "lib" -> "link"
                     [] OTHER -> "companions")
        /\ UNCHANGED <<private, ok>>
     \/ /\ mode[b] \in {"obj", "lib"}
        /\ Holds(b, EmittedFile(b), "absent") /\ Fail(b) /\ Goto(b, "publish")
  /\ UNCHANGED <<Shared, Asked>>

\* C companions of imported headers become objects; with one that fails the object and
\* all that were made are removed.
Companions(b) ==
  /\ at[b] = "companions"
  /\ \/ /\ \E made \in {"absent", "whole"} : Holds(b, "companions", made)
        /\ Goto(b, "link") /\ UNCHANGED ok
     \/ /\ private' = [private EXCEPT ![b].object = "absent", ![b].companions = "absent"]
        /\ Fail(b) /\ Goto(b, "publish")
  /\ UNCHANGED <<Shared, Asked>>

LinkBegin(b) ==
  /\ at[b] = "link" /\ private[b].staged = "absent"
  /\ Holds(b, "staged", "partial")
  /\ UNCHANGED <<Shared, at, ok, Asked>>

\* (Fault: only a successful link removes the object and the companions.)
LinkEndKeepsObject(b) ==
  /\ at[b] = "link"
  /\ \/ /\ private[b].staged = "partial"
        /\ private' = [private EXCEPT ![b] = [NoFiles EXCEPT !.staged = "whole"]]
        /\ Goto(b, IF mode[b] = "observed" THEN "retain" ELSE "publish")
        /\ UNCHANGED ok
     \/ Fail(b) /\ Goto(b, "publish") /\ UNCHANGED private
  /\ UNCHANGED <<Shared, Asked>>

\* The linker or archiver ends; object and companions are removed in both cases.
LinkEnd(b) ==
  /\ at[b] = "link"
  /\ \/ /\ private[b].staged = "partial"
        /\ private' = [private EXCEPT ![b] = [NoFiles EXCEPT !.staged = "whole"]]
        /\ Goto(b, IF mode[b] = "observed" THEN "retain" ELSE "publish")
        /\ UNCHANGED ok
     \/ /\ private' = [private EXCEPT ![b] = [NoFiles EXCEPT !.staged = private[b].staged]]
        /\ Fail(b) /\ Goto(b, "publish")
  /\ UNCHANGED <<Shared, Asked>>

\* The image an observation will run is opened before it gets its public name.
Retain(b) ==
  /\ at[b] = "retain"
  /\ Goto(b, "publish")
  /\ \/ UNCHANGED ok
     \/ Fail(b)
  /\ UNCHANGED <<Shared, private, Asked>>

\* (Fault: the linker writes to the destination itself.)
PublishWithoutStaging(b) ==
  /\ at[b] \in {"link", "publish"}
  /\ IF at[b] = "publish" THEN Goto(b, "rmdir") ELSE UNCHANGED at
  /\ out' = [by |-> b, whole |-> private[b].staged = "whole"]
  /\ Holds(b, "staged", "absent")
  /\ UNCHANGED <<contract, ok, Asked>>

\* sts_output_finish: a successful result is renamed to the destination, anything else
\* removed; a rename that fails makes the build fail.
Publish(b) ==
  /\ at[b] = "publish"
  /\ Goto(b, "rmdir")
  /\ \/ /\ ok[b] /\ private[b].staged # "absent"
        /\ out' = [by |-> b, whole |-> private[b].staged = "whole"]
        /\ Holds(b, "staged", "absent")
        /\ UNCHANGED ok
     \/ /\ Fail(b)
        /\ Holds(b, "staged", "absent")
        /\ UNCHANGED out
  /\ UNCHANGED <<contract, Asked>>

\* rmdir can fail, always where a file is left.  That is a warning, except that an
\* observed build takes it for a failure.
RemoveDirectory(b) ==
  /\ at[b] = "rmdir"
  /\ \/ /\ private[b] = NoFiles
        /\ private' = [private EXCEPT ![b] = None]
        /\ Goto(b, AfterTransaction(b, ok[b])) /\ UNCHANGED ok
     \/ /\ UNCHANGED private
        /\ ok' = [ok EXCEPT ![b] = ok[b] /\ mode[b] # "observed"]
        /\ Goto(b, AfterTransaction(b, ok[b]))
  /\ UNCHANGED <<Shared, Asked>>

\* The transaction of the metadata begins like the first: it may fail before it has
\* removed the old metadata or at removing it.
MetadataBegin(b) ==
  /\ at[b] = "metadata"
  /\ \/ contract' = None /\ Goto(b, "write metadata") /\ UNCHANGED ok
     \/ UNCHANGED contract /\ Fail(b) /\ Goto(b, "drop archive")
  /\ UNCHANGED <<out, private, Asked>>

MetadataWrite(b) ==
  /\ at[b] = "write metadata"
  /\ \/ Goto(b, "publish metadata") /\ UNCHANGED ok
     \/ Fail(b) /\ Goto(b, "drop archive")
  /\ UNCHANGED <<Shared, private, Asked>>

MetadataPublish(b) ==
  /\ at[b] = "publish metadata"
  /\ \/ contract' = b /\ Goto(b, "done") /\ UNCHANGED ok
     \/ UNCHANGED contract /\ Fail(b) /\ Goto(b, "drop archive")
  /\ UNCHANGED <<out, private, Asked>>

\* (Fault: the archive stays when its metadata cannot be published.)
DropArchiveForgotten(b) ==
  /\ at[b] = "drop archive"
  /\ Goto(b, "drop metadata")
  /\ UNCHANGED <<out, contract, private, ok, Asked>>

\* An archive without metadata is withdrawn, whoever has published it; that it cannot be
\* removed is not looked at.
DropArchive(b) ==
  /\ at[b] = "drop archive"
  /\ \/ out' = None /\ UNCHANGED stuck
     \/ out # None /\ Stuck(b, "archive") /\ UNCHANGED out
  /\ Goto(b, "drop metadata")
  /\ UNCHANGED <<contract, private, ok, mode, older, disturbed, verdict>>

\* Nor that the metadata of a failed archive build cannot.
DropMetadata(b) ==
  /\ at[b] = "drop metadata"
  /\ \/ contract' = None /\ UNCHANGED stuck
     \/ contract # None /\ Stuck(b, "metadata") /\ UNCHANGED contract
  /\ Goto(b, "done")
  /\ UNCHANGED <<out, private, ok, mode, older, disturbed, verdict>>

\* (Fault: what is there is executed even if the build has failed.)
ExecuteRegardless(b) ==
  /\ at[b] = "done" /\ mode[b] = "test" /\ verdict[b].said = "nothing"
  /\ \E said \in {"PASS", "FAIL"} :
       /\ said = "PASS" => out # None /\ out.whole
       /\ verdict' = [verdict EXCEPT ![b] = [said |-> said, ran |-> out]]
  /\ UNCHANGED <<Shared, private, at, ok, mode, older, disturbed, stuck>>

\* run_project_tests executes the file that has the destination's name by then, if the
\* build has succeeded; only a whole program can exit with 0.
Execute(b) ==
  /\ at[b] = "done" /\ mode[b] = "test" /\ verdict[b].said = "nothing"
  /\ \/ /\ ok[b]
        /\ \E said \in {"PASS", "FAIL"} :
             /\ said = "PASS" => out # None /\ out.whole
             /\ verdict' = [verdict EXCEPT ![b] = [said |-> said, ran |-> out]]
     \/ ~ok[b] /\ verdict' = [verdict EXCEPT ![b].said = "FAIL"]
  /\ UNCHANGED <<Shared, private, at, ok, mode, older, disturbed, stuck>>

\* The compiler is killed, or crashes.
Kill(b) ==
  /\ Running(b)
  /\ Goto(b, "killed")
  /\ UNCHANGED <<Shared, private, ok, Asked>>

BuildStep(b) ==
  \/ Start(b) \/ Refuse(b) \/ Accept(b) \/ MakeDirectory(b) \/ Invalidate(b)
  \/ FrontEnd(b) \/ EmitBegin(b) \/ EmitEnd(b) \/ Audit(b) \/ Companions(b)
  \/ LinkBegin(b) \/ LinkEnd(b) \/ Retain(b) \/ Publish(b) \/ RemoveDirectory(b)
  \/ MetadataBegin(b) \/ MetadataWrite(b) \/ MetadataPublish(b)
  \/ DropArchive(b) \/ DropMetadata(b) \/ Execute(b) \/ Kill(b)

BuildNext == \E b \in Builds : BuildStep(b)
BuildSpec == BuildInit /\ [][BuildNext]_buildVars

--------------------------------------------------------------------------------
(* Properties. *)

\* The destination never shows a partial file, whatever fails, whoever is killed, and
\* with any number of compilers at work (the comment of output_transaction.h:4: "The
\* final name only becomes visible after success").
VisibleIsWhole == out # None => out.whole

\* What a build found at the destination when it began is gone when it fails, provided
\* it came as far as removing it, and stays gone even if other compilers publish at
\* the same time; a file of its own is left only by an observed build that fails, or
\* an archive build that cannot remove its archive.
MayLeaveItsOwn(b) == mode[b] = "observed" \/ "archive" \in stuck[b]
FailureInvalidates ==
  \A b \in Builds :
    at[b] = "done" /\ ~ok[b] =>
      By(out) \cap (older[b] \cup IF MayLeaveItsOwn(b) THEN {} ELSE {b}) = {}

\* A build that succeeds with the destination to itself has left its own result there,
\* and a test that passes has run the image that was built for it.
OkMeansPublished ==
  \A b \in Builds :
    /\ at[b] = "done" /\ ok[b] /\ ~disturbed[b] => out = [by |-> b, whole |-> TRUE]
    /\ verdict[b].said = "PASS" =>
         ok[b] /\ verdict[b].ran.by \in {b} \cup IF disturbed[b] THEN Builds ELSE {}

\* An archive build that ends undisturbed has succeeded and leaves its archive with the
\* metadata written for it, or has failed and leaves neither, but for what it could not
\* remove: its own archive, or metadata that are older than it.  If it could remove
\* neither, the new archive is beside the old metadata.
ArchiveWithItsContract ==
  \A b \in Builds :
    at[b] = "done" /\ mode[b] = "lib" /\ ~disturbed[b] =>
      IF ok[b] THEN By(out) = {b} /\ contract = b
      ELSE /\ By(out) = IF "archive" \in stuck[b] THEN {b} ELSE {}
           /\ IF "metadata" \in stuck[b] THEN contract \notin {None, b} ELSE contract = None

\* Whatever fails, a build that ends leaves no object, companion or partial result in
\* its private directory; the empty directory may stay.
PrivateFilesRemoved ==
  \A b \in Builds : at[b] \in {"done", "refused"} => private[b] \in {None, NoFiles}

\* What a failed build leaves: no old result, nothing half made, and of its own only
\* what it could not remove again; and a successful one: its own result, and a
\* contract that belongs to it.
OutcomeTold ==
  FailureInvalidates /\ PrivateFilesRemoved /\ OkMeansPublished /\ ArchiveWithItsContract

================================================================================
