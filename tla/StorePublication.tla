-------------------------- MODULE StorePublication --------------------------
(***************************************************************************)
(* How the two writers of persistent stores publish them: the output       *)
(* writer of a paged run (storage/output.py, _NvmeOutputWriter) and the    *)
(* Q/K/V store builder (storage/qkv_writer.py, NvmeQKVWriter).             *)
(*                                                                         *)
(* An attempt writes its data files under temporary names, synchronises    *)
(* them, renames them, synchronises the directory, and does the same for   *)
(* the manifest, whose presence makes the store exist: readers start from  *)
(* it and later attempts are refused.  A step may raise, the process may   *)
(* be killed or the machine may crash anywhere; attempts follow each other *)
(* in the same directory, on what earlier ones left there.                 *)
(*                                                                         *)
(* One attempt runs at a time; its pages are parts of a data file.         *)
(***************************************************************************)
EXTENDS Naturals, Sequences

CONSTANTS
  Writers,        \* "output", "qkv"
  SealingRaises,  \* the writers whose last step is allowed to raise
  NumPages,       \* the pages of each data file
  MaxAttempts     \* bound: how many attempts a behaviour makes

ASSUME PublicationAssumption ==
  /\ Writers \subseteq {"output", "qkv"} /\ Writers # {}
  /\ SealingRaises \subseteq Writers
  /\ NumPages \in Nat \ {0}
  /\ MaxAttempts \in Nat

VARIABLES
  dir, disk, updates, content, durable,  \* the directory, module FileSystem
  writer,        \* the writer the directory belongs to
  attempt,       \* the number of the last attempt
  phase,         \* where it is
  at,            \* the steps of its publication it has begun; 0 while writing
  doomed,        \* the names its cleanup has still to unlink
  acknowledged   \* the attempt that returned to its caller, or 0

-----------------------------------------------------------------------------
Pages == 1 .. NumPages
Attempts == 1 .. MaxAttempts

DataFiles == IF writer = "output" THEN {"out"} ELSE {"q", "kv"}
AllFiles == {"out", "q", "kv", "manifest"}

\* A file is named by what it is for and the attempt that wrote it.
Files == AllFiles \X Attempts
Names == AllFiles \X {"tmp", "final"}
Absent == <<"no file", 0>>

Tmp(name) == <<name, "tmp">>
Final(name) == <<name, "final">>

INSTANCE FileSystem

directoryVars == <<dir, disk, updates, content, durable>>
publicationVars == <<attempt, phase, at, doomed, acknowledged>>
vars == <<directoryVars, writer, publicationVars>>

Mine(name) == <<name, attempt>>

\* _atomic_write_json
ManifestSteps ==
  << <<"create", "manifest">>, <<"write", "manifest">>, <<"fsync", "manifest">>,
     <<"replace", "manifest">>, <<"fsync", "directory">> >>

\* Mutants: the directory is not synchronised before the manifest is written,
\* or after it was renamed.
ProgramUnorderedManifest ==
  IF writer = "output"
  THEN << <<"fsync", "out">>, <<"replace", "out">> >> \o ManifestSteps
  ELSE << <<"fsync", "q">>, <<"fsync", "kv">>, <<"replace", "q">>, <<"replace", "kv">>,
          <<"fsync", "directory">> >> \o ManifestSteps

ManifestStepsUnsealed ==
  << <<"create", "manifest">>, <<"write", "manifest">>, <<"fsync", "manifest">>,
     <<"replace", "manifest">> >>

ProgramUnsealed ==
  IF writer = "output"
  THEN << <<"fsync", "out">>, <<"replace", "out">>, <<"fsync", "directory">> >>
         \o ManifestStepsUnsealed
  ELSE << <<"fsync", "q">>, <<"fsync", "kv">>, <<"replace", "q">>, <<"replace", "kv">>,
          <<"fsync", "directory">> >> \o ManifestSteps

\* What follows the last page: close() of the output writer, the tail of
\* write_pages.
Program ==
  IF writer = "output"
  THEN << <<"fsync", "out">>, <<"replace", "out">>, <<"fsync", "directory">> >>
         \o ManifestSteps
  ELSE << <<"fsync", "q">>, <<"fsync", "kv">>, <<"replace", "q">>, <<"replace", "kv">>,
          <<"fsync", "directory">> >> \o ManifestSteps

Init ==
  /\ FsInit
  /\ writer \in Writers
  /\ attempt = 0
  /\ phase = "none"
  /\ at = 0
  /\ doomed = <<>>
  /\ acknowledged = 0

-----------------------------------------------------------------------------
(* An attempt. *)

\* A store that exists is never written again.
Open ==
  /\ phase \in {"none", "returned", "raised", "leaked"}
  /\ dir[Final("manifest")] = Absent
  /\ attempt < MaxAttempts
  /\ attempt' = attempt + 1
  /\ phase' = "running"
  /\ at' = 0
  /\ Create([n \in {Tmp(f) : f \in DataFiles} |-> <<n[1], attempt + 1>>])
  /\ UNCHANGED <<writer, doomed, acknowledged>>

Running == phase = "running"

\* The output writer's pages arrive in any order, from the threads of the pool;
\* the builder writes the Q pages, then the K/V pages.
WritePage(f, p) ==
  /\ Running /\ at = 0
  /\ f \in DataFiles
  /\ p \notin content[Mine(f)]
  /\ writer = "qkv" => \A r \in 1 .. p - 1 : r \in content[Mine(f)]
  /\ f = "kv" => content[Mine("q")] = Pages
  /\ Write(Mine(f), p)
  /\ UNCHANGED <<writer, publicationVars>>

AllWritten ==
  /\ Running /\ at = 0
  /\ \A f \in DataFiles : content[Mine(f)] = Pages
  /\ at' = 1
  /\ UNCHANGED <<directoryVars, writer, attempt, phase, doomed, acknowledged>>

\* The next step, or the return to the caller.
Advance ==
  /\ IF at < Len(Program)
     THEN at' = at + 1 /\ UNCHANGED <<phase, acknowledged>>
     ELSE at' = at /\ phase' = "returned" /\ acknowledged' = attempt
  /\ UNCHANGED <<writer, attempt, doomed>>

Do(op, name) == Running /\ at > 0 /\ Program[at] = <<op, name>> /\ Advance

FsyncFile(f) == Do("fsync", f) /\ Fsync({Mine(f)})
Replace(f) == Do("replace", f) /\ Rename(Tmp(f), Final(f))
FsyncDir == Do("fsync", "directory") /\ FsyncDirectory
CreateManifest == Do("create", "manifest") /\ Create([n \in {Tmp("manifest")} |-> Mine("manifest")])
WriteManifest == Do("write", "manifest") /\ Write(Mine("manifest"), 1)

-----------------------------------------------------------------------------
(* Failure: an error of a step, or an exception from outside. *)

\* Data files the handler has to close first: all of them for the output
\* writer's abort(), those not closed yet for the builder.
StillOpen ==
  IF at = 0 THEN DataFiles
  ELSE IF Program[at] = <<"fsync", "q">> THEN {"kv"} ELSE {}

Raise ==
  /\ Running
  /\ at = Len(Program) => writer \in SealingRaises
  /\ phase' = "closing"
  /\ UNCHANGED <<directoryVars, writer, attempt, at, doomed, acknowledged>>

\* Mutant: the manifest's temporary file is forgotten.
LeftoversButManifest ==
  IF writer = "output"
  THEN <<Tmp("out")>> \o (IF at = 0 THEN <<>> ELSE <<Final("out")>>)
  ELSE <<Tmp("q"), Tmp("kv")>>
         \o (IF dir[Final("manifest")] = Absent THEN <<Final("q"), Final("kv")>> ELSE <<>>)

\* What the handler unlinks: abort() or the except clause of close() of the
\* output writer; abort() of the builder, which keeps a published store.
Leftovers ==
  IF writer = "output"
  THEN IF at = 0 THEN <<Tmp("out"), Tmp("manifest")>>
                 ELSE <<Tmp("out"), Final("out"), Tmp("manifest")>>
  ELSE <<Tmp("q"), Tmp("kv"), Tmp("manifest")>>
         \o (IF dir[Final("manifest")] = Absent THEN <<Final("q"), Final("kv")>> ELSE <<>>)

\* Closing a file of the builder synchronises it.
CloseFiles ==
  /\ phase = "closing"
  /\ Fsync(IF writer = "qkv" THEN {Mine(f) : f \in StillOpen} ELSE {})
  /\ phase' = "cleaning"
  /\ doomed' = Leftovers
  /\ UNCHANGED <<writer, attempt, at, acknowledged>>

\* Closing a file raises in turn: the cleanup behind it is not reached.
CloseRaises ==
  /\ phase = "closing" /\ StillOpen # {}
  /\ phase' = "leaked"
  /\ UNCHANGED <<directoryVars, writer, attempt, at, doomed, acknowledged>>

UnlinkNext ==
  /\ phase = "cleaning" /\ doomed # <<>>
  /\ Unlink(Head(doomed))
  /\ doomed' = Tail(doomed)
  /\ UNCHANGED <<writer, attempt, phase, at, acknowledged>>

Reraise ==
  /\ phase = "cleaning" /\ doomed = <<>>
  /\ phase' = "raised"
  /\ UNCHANGED <<directoryVars, writer, attempt, at, doomed, acknowledged>>

\* The machine goes down and comes up again; a new process may try again.
Crash ==
  /\ FsCrash
  /\ phase' = "none"
  /\ at' = 0
  /\ doomed' = <<>>
  /\ UNCHANGED <<writer, attempt, acknowledged>>

-----------------------------------------------------------------------------
Step ==
  \/ AllWritten \/ FsyncDir \/ CreateManifest \/ WriteManifest
  \/ \E f \in DataFiles, p \in Pages : WritePage(f, p)
  \/ \E f \in DataFiles \cup {"manifest"} : FsyncFile(f) \/ Replace(f)

Handler == CloseFiles \/ CloseRaises \/ UnlinkNext \/ Reraise

Next == Open \/ Step \/ Raise \/ Handler \/ Crash

Spec == Init /\ [][Next]_vars

-----------------------------------------------------------------------------
\* Every variable has its type.
TypeOK ==
  /\ {dir, disk} \subseteq [Names -> Files \cup {Absent}]
  /\ \A i \in DOMAIN updates : DOMAIN updates[i] \subseteq Names
  /\ {content, durable} \subseteq [Files -> SUBSET Pages]
  /\ writer \in Writers
  /\ attempt \in 0 .. MaxAttempts
  /\ phase \in {"none", "running", "closing", "cleaning", "returned", "raised", "leaked"}
  /\ at \in 0 .. Len(Program)
  /\ doomed \in Seq(Names)
  /\ acknowledged \in 0 .. attempt

\* The store of attempt a is all there: the manifest and the data it describes.
Complete(a) ==
  /\ dir[Final("manifest")] = <<"manifest", a>>
  /\ content[<<"manifest", a>>] # {}
  /\ \A f \in DataFiles : dir[Final(f)] = <<f, a>> /\ content[<<f, a>>] = Pages

\* Wherever an attempt stops or the machine crashes, a manifest that is there
\* is complete and describes the data files beside it, which are all of the
\* attempt that wrote it.
ManifestImpliesData ==
  dir[Final("manifest")] # Absent => Complete(dir[Final("manifest")][2])

\* A store whose writer returned is there for ever, through any crash.
AcknowledgedSurvives == acknowledged # 0 => Complete(acknowledged)

\* When a writer has raised, no temporary file is left, neither its own nor one
\* of an attempt that crashed before it.
FailuresLeaveNoTemporaries ==
  phase = "raised" => \A name \in AllFiles : dir[Tmp(name)] = Absent
=============================================================================
