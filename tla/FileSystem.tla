----------------------------- MODULE FileSystem -----------------------------
(***************************************************************************)
(* One directory of a POSIX file system, as the store writers use it.      *)
(* External: this is the contract of open, write, fsync, rename and        *)
(* unlink, not code of the repository.                                     *)
(*                                                                         *)
(* A name change is atomic and visible at once, but until the directory is *)
(* synchronised a crash may keep any of the changes and lose the others.   *)
(* Likewise a crash may lose what was written to a file since its last     *)
(* fsync.  Crash consequences are drawn when the crash happens.            *)
(***************************************************************************)
EXTENDS Naturals, Sequences

CONSTANTS
  Names,   \* the names of the directory
  Files,   \* the identities of files, whatever their names
  Absent   \* what a name without a file maps to

VARIABLES
  dir,      \* the file each name maps to
  disk,     \* the name changes that survive a crash for sure
  updates,  \* the changes since then, in order
  content,  \* the parts written of each file
  durable   \* the parts that survive a crash for sure

-----------------------------------------------------------------------------
EmptyDirectory == [n \in Names |-> Absent]

FsInit ==
  /\ dir = EmptyDirectory /\ disk = EmptyDirectory
  /\ updates = <<>>
  /\ content = [f \in Files |-> {}]
  /\ durable = [f \in Files |-> {}]

\* A change maps some names to other files.
Apply(d, change) ==
  [n \in Names |-> IF n \in DOMAIN change THEN change[n] ELSE d[n]]

Change(change) ==
  /\ dir' = Apply(dir, change)
  /\ updates' = Append(updates, change)
  /\ UNCHANGED disk

\* open(O_CREAT | O_TRUNC): the names map to new, empty files.
Create(files) == Change(files) /\ UNCHANGED <<content, durable>>

Rename(from, to) ==
  /\ Change([n \in {from, to} |-> IF n = to THEN dir[from] ELSE Absent])
  /\ UNCHANGED <<content, durable>>

Unlink(name) ==
  /\ IF dir[name] = Absent
     THEN UNCHANGED <<dir, disk, updates>>
     ELSE Change([n \in {name} |-> Absent])
  /\ UNCHANGED <<content, durable>>

Write(f, part) ==
  /\ content' = [content EXCEPT ![f] = @ \cup {part}]
  /\ UNCHANGED <<dir, disk, updates, durable>>

Fsync(files) ==
  /\ durable' = [f \in Files |-> IF f \in files THEN content[f] ELSE durable[f]]
  /\ UNCHANGED <<dir, disk, updates, content>>

FsyncDirectory ==
  /\ disk' = dir
  /\ updates' = <<>>
  /\ UNCHANGED <<dir, content, durable>>

\* The last of some positions in `updates`.
LastOf(positions) == CHOOSE i \in positions : \A j \in positions : j <= i

\* The directory when only the changes `kept` reached the disk: a name is what
\* the last of them made of it.
Survivor(kept) ==
  [n \in Names |->
     LET changes == {i \in kept : n \in DOMAIN updates[i]}
     IN  IF changes = {} THEN disk[n] ELSE updates[LastOf(changes)][n]]

FsCrash ==
  \E kept \in SUBSET (DOMAIN updates),
     torn \in SUBSET {f \in Files : content[f] # durable[f]} :
    /\ dir' = Survivor(kept)
    /\ disk' = dir'
    /\ updates' = <<>>
    /\ content' = [f \in Files |-> IF f \in torn THEN durable[f] ELSE content[f]]
    /\ durable' = content'
=============================================================================
