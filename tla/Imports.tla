-------------------------------- MODULE Imports --------------------------------
(* resolve_imports of src/main.c: the declarations of imported modules are spliced  *)
(* into the AST of the primary file, which the loop walks while it grows.           *)
(*                                                                                  *)
(* A module whose code is in an archive (lib "m" from ..., libimp) is spliced for   *)
(* its types and signatures only: the nodes are marked from_lib, and no code is     *)
(* generated for them.  What a file holds is chosen as it is read; whether an       *)
(* archive has fitting metadata and whether a file is there is up to the system.    *)
EXTENDS Naturals, Sequences, FiniteSets

CONSTANTS ImpModules,
          Primary,         \* the module name of the primary file's own declarations
          MaxPerFile,      \* bound: declarations of a file
          MaxSpliced,      \* bound: declarations of the AST when a module is spliced
          StdPaths         \* stdlib_arc_path_buf

\* No module imports the primary file itself.
ASSUME ImportsAssumption == Primary \notin ImpModules

VARIABLES
  impFiles,      \* what each file holds, once it has been read
  impDecls,      \* the AST's declarations
  impAt,         \* the loop's index
  impStdPaths,   \* stdlib_arc_path_cnt
  impErrors,     \* history: the imports, by their place, an error has been reported for
  impPhase       \* "parse", "resolve", "done"

impVars == <<impFiles, impDecls, impAt, impStdPaths, impErrors, impPhase>>

Unread == <<[kind |-> "unread", of |-> Primary]>>
About == [kind : {"imp", "lib", "libimp", "std"}, of : ImpModules]
Own == [kind : {"decl", "submodule", "internal"}, of : {Primary}]
Contents1 == UNION {[1 .. n -> About \cup Own] : n \in 0 .. MaxPerFile}

\* A declaration in the AST: where it comes from, whether its code is in an archive, and
\* (history) the place of the import it was spliced for, 0 in the primary file.
Spliced(d, m, lib, i) == [decl |-> d, from |-> m, lib |-> lib, by |-> i]

ImportsInit ==
  /\ impFiles = [m \in ImpModules |-> Unread]
  /\ impDecls = <<>> /\ impAt = 1 /\ impStdPaths = 0
  /\ impErrors = {} /\ impPhase = "parse"

\* The primary file is parsed.
ParsePrimary ==
  /\ impPhase = "parse" /\ impPhase' = "resolve"
  /\ \E file \in Contents1 :
       impDecls' = [i \in DOMAIN file |-> Spliced(file[i], Primary, FALSE, 0)]
  /\ UNCHANGED <<impFiles, impAt, impStdPaths, impErrors>>

--------------------------------------------------------------------------------

Current == impDecls[impAt].decl
Resolving == impPhase = "resolve" /\ impAt <= Len(impDecls)
Import == Resolving /\ Current.kind \in {"imp", "libimp", "std"}

\* is_lib_backed asks the whole AST as it is at the moment.  (Fault: only what the loop
\* has passed.)
Backing_Passed == {i \in 1 .. impAt : impDecls[i].decl.kind \in {"lib", "libimp", "std"}}
Backing == {i \in DOMAIN impDecls : impDecls[i].decl.kind \in {"lib", "libimp", "std"}}
BackedBy(m) == {i \in Backing : impDecls[i].decl.of = m}
LibBacked(m) == BackedBy(m) # {}

\* find_lib_archive_path: the first such declaration decides; a standard library takes a
\* buffer for its path at every call, while there is one.
FromStd(m) ==
  \E i \in BackedBy(m) : (\A j \in BackedBy(m) : i <= j) /\ impDecls[i].decl.kind = "std"
NoPath(m, calls) == FromStd(m) /\ impStdPaths + calls > StdPaths
UsePaths(m, calls) ==
  impStdPaths' = IF ~LibBacked(m) \/ ~FromStd(m) THEN impStdPaths
                 ELSE IF impStdPaths + calls > StdPaths THEN StdPaths ELSE impStdPaths + calls

SkipDeclaration ==
  /\ Resolving /\ Current.kind \notin {"imp", "libimp", "std"}
  /\ impAt' = impAt + 1
  /\ UNCHANGED <<impFiles, impDecls, impStdPaths, impErrors, impPhase>>

\* (Fault: the next declaration without an error.)
ImportFails_Silent ==
  /\ Import
  /\ \E calls \in 1 .. 2 : UsePaths(Current.of, calls)
  /\ impAt' = impAt + 1
  /\ UNCHANGED <<impFiles, impDecls, impErrors, impPhase>>

\* No archive path; metadata that is missing or does not fit; no source in any of the
\* places; a source that does not parse: an error, and the next declaration.
ImportFails ==
  /\ Import
  /\ impErrors' = impErrors \cup {impAt}
  /\ \E calls \in 1 .. 2 : UsePaths(Current.of, calls)
  /\ impAt' = impAt + 1
  /\ UNCHANGED <<impFiles, impDecls, impPhase>>

\* What is spliced: neither its imports nor internal submodules; an exported submodule by
\* its children, which keep their own module name.
Visible(file) ==
  LET kept[n \in 0 .. Len(file)] ==
        IF n = 0 THEN <<>>
        ELSE IF file[n].kind \in {"imp", "internal"} THEN kept[n - 1]
        ELSE Append(kept[n - 1], file[n])
  IN kept[Len(file)]

ImportSucceeds ==
  LET m == Current.of IN
    /\ Import
    /\ ~(LibBacked(m) /\ NoPath(m, 1))
    /\ \E calls \in 1 .. 2 : UsePaths(m, calls)
    /\ \E file \in (IF impFiles[m] = Unread THEN Contents1 ELSE {impFiles[m]}) :
         /\ Len(impDecls) + Len(file) <= MaxSpliced
         /\ impFiles' = [impFiles EXCEPT ![m] = file]
         /\ impDecls' = impDecls \o
              [i \in DOMAIN Visible(file) |-> Spliced(Visible(file)[i], m, LibBacked(m), impAt)]
    /\ impAt' = impAt + 1
    /\ UNCHANGED <<impErrors, impPhase>>

Resolved ==
  /\ impPhase = "resolve" /\ impAt > Len(impDecls)
  /\ impPhase' = "done"
  /\ UNCHANGED <<impFiles, impDecls, impAt, impStdPaths, impErrors>>

ImportsNext ==
  ParsePrimary \/ SkipDeclaration \/ ImportFails \/ ImportSucceeds \/ Resolved

ImportsSpec == ImportsInit /\ [][ImportsNext]_impVars

--------------------------------------------------------------------------------
(* Properties. *)

SaysBacked(i, m) == impDecls[i].decl.kind \in {"lib", "libimp", "std"} /\ impDecls[i].decl.of = m

\* What is spliced for an import is linked, not compiled, just if the primary file or a
\* module spliced before says where the archive is: what the primary file says counts
\* wherever it stands there (main.c:367-371), what comes with another module from then
\* on only, so that a module may be compiled first and linked as well.
LinkedWhereNamed ==
  \A j \in DOMAIN impDecls : impDecls[j].from # Primary =>
    (impDecls[j].lib <=> \E i \in DOMAIN impDecls : /\ SaysBacked(i, impDecls[j].from)
                                                   /\ impDecls[i].by < impDecls[j].by)

\* For every import that was passed without an error all that is visible of its module
\* is there, once and in the order of its file; for anything else, nothing.  Imports of
\* the same module bring it once each.
SplicedFor(i) == {j \in DOMAIN impDecls : impDecls[j].by = i}
BlockFor(i, at) ==
  LET m == impDecls[i].decl.of
      n == Len(Visible(impFiles[m]))
  IN /\ impFiles[m] # Unread /\ SplicedFor(i) = at + 1 .. at + n
     /\ \A k \in 1 .. n :
          impDecls[at + k].decl = Visible(impFiles[m])[k] /\ impDecls[at + k].from = m
OncePerImport ==
  \A i \in DOMAIN impDecls : i < impAt =>
    IF impDecls[i].decl.kind \in {"imp", "libimp", "std"} /\ i \notin impErrors
    THEN \E at \in 0 .. Len(impDecls) : BlockFor(i, at)
    ELSE SplicedFor(i) = {}

\* The primary file's declarations come first, then those of the imports in the order of
\* the imports.
ImportsInOrder == \A j, k \in DOMAIN impDecls : j < k => impDecls[j].by <= impDecls[k].by

\* What the AST consists of, at every turn of the loop.  The imports of an imported module
\* are not among what is visible of it, though main.c:399 has them resolved as well.
ImportsResolved == LinkedWhereNamed /\ OncePerImport /\ ImportsInOrder

================================================================================
