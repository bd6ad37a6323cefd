----------------------- MODULE StorePublicationProofs -----------------------
(* Safety of StorePublication for any number of pages and attempts, with    *)
(* failures and crashes at every step.                                      *)
EXTENDS StorePublication, Integers, WellFoundedInduction, TLAPS

-----------------------------------------------------------------------------
(* The inductive invariant. *)

Changes == UNION {[S -> Files \cup {Absent}] : S \in SUBSET Names}
Directories == [Names -> Files \cup {Absent}]
Contents == [Files -> SUBSET Pages]

DirectoryTyped ==
  /\ dir \in Directories /\ disk \in Directories
  /\ updates \in Seq(Changes)
  /\ content \in Contents /\ durable \in Contents
  /\ \A f \in Files : durable[f] \subseteq content[f]

Phases == {"none", "running", "closing", "cleaning", "returned", "raised", "leaked"}

PublicationTyped ==
  /\ writer \in Writers
  /\ attempt \in 0 .. MaxAttempts
  /\ phase \in Phases
  /\ at \in 0 .. Len(Program)
  /\ doomed \in Seq(Names)
  /\ acknowledged \in 0 .. attempt
  /\ phase \in {"running", "closing", "cleaning"} => attempt > 0

Manifest == Final("manifest")
Published == dir[Manifest] # Absent

\* No change of the name is waiting for the directory to be synchronised.
Settled(name) == \A i \in DOMAIN updates : name \notin DOMAIN updates[i]

\* No step but a crash takes a manifest away.
ManifestStays ==
  /\ disk[Manifest] # Absent => disk[Manifest] = dir[Manifest]
  /\ \A i \in DOMAIN updates :
       Manifest \in DOMAIN updates[i] => updates[i][Manifest] = dir[Manifest]
  /\ ~Published => Settled(Manifest)

\* The data of the attempt is there under its final names for good.
DataSealed ==
  \A f \in DataFiles :
    /\ dir[Final(f)] = Mine(f) /\ disk[Final(f)] = Mine(f) /\ Settled(Final(f))
    /\ durable[Mine(f)] = Pages

\* A manifest was written after its data was sealed.
PublishedIsSealed ==
  Published =>
    /\ attempt > 0
    /\ dir[Manifest] = Mine("manifest")
    /\ durable[Mine("manifest")] # {}
    /\ DataSealed

\* Where a published store may be met.
PublishedPhases ==
  Published =>
    /\ phase = "running" => at = Len(Program)
    /\ phase \in {"closing", "cleaning"} => writer = "qkv" /\ at = Len(Program)

CleanupSpares ==
  phase = "cleaning" => \A i \in DOMAIN doomed :
    /\ doomed[i] # Manifest
    /\ Published => \A f \in DataFiles : doomed[i] # Final(f)

\* The positions of the steps in Program.
SyncAt(f) == IF f = "kv" THEN 2 ELSE 1
ReplaceAt(f) == CASE f = "out" -> 2 [] f = "q" -> 3 [] f = "kv" -> 4
SealAt == IF writer = "output" THEN 3 ELSE 5

\* What the steps done so far have achieved.
DataProgress(f) ==
  /\ at > 0 => content[Mine(f)] = Pages
  /\ at > SyncAt(f) => durable[Mine(f)] = Pages
  /\ at <= ReplaceAt(f) => dir[Tmp(f)] = Mine(f)
  /\ at > ReplaceAt(f) => dir[Final(f)] = Mine(f)

ManifestProgress ==
  /\ at > SealAt => DataSealed
  /\ at \in SealAt + 2 .. SealAt + 4 => dir[Tmp("manifest")] = Mine("manifest")
  /\ at > SealAt + 2 => content[Mine("manifest")] # {}
  /\ at > SealAt + 3 => durable[Mine("manifest")] # {}
  /\ at > SealAt + 4 => Published

Progress == phase = "running" => ManifestProgress /\ \A f \in DataFiles : DataProgress(f)

\* A store that was acknowledged was the last attempt's and is on the disk.
AcknowledgedStays ==
  acknowledged # 0 =>
    /\ acknowledged = attempt
    /\ phase \in {"returned", "none"}
    /\ Published /\ disk[Manifest] = dir[Manifest] /\ Settled(Manifest)

\* Only the files of its writer have temporary names.
TemporariesOwn ==
  \A f \in AllFiles \ (DataFiles \cup {"manifest"}) :
    dir[Tmp(f)] = Absent /\ disk[Tmp(f)] = Absent /\ Settled(Tmp(f))

TemporariesDoomed ==
  phase = "cleaning" => \A f \in AllFiles :
    dir[Tmp(f)] # Absent => \E i \in DOMAIN doomed : doomed[i] = Tmp(f)

StoreInv ==
  /\ DirectoryTyped /\ PublicationTyped
  /\ ManifestStays /\ PublishedIsSealed /\ PublishedPhases /\ CleanupSpares
  /\ Progress /\ AcknowledgedStays
  /\ TemporariesOwn /\ TemporariesDoomed /\ FailuresLeaveNoTemporaries

-----------------------------------------------------------------------------
(* Names, files and the program. *)

LEMMA NamesAndFiles ==
  ASSUME PublicationTyped
  PROVE  /\ DataFiles \subseteq AllFiles /\ "manifest" \in AllFiles /\ "manifest" \notin DataFiles
         /\ \A f \in AllFiles : Tmp(f) \in Names /\ Final(f) \in Names
         /\ \A f, g \in AllFiles : /\ Tmp(f) # Final(g)
                                   /\ Tmp(f) = Tmp(g) => f = g
                                   /\ Final(f) = Final(g) => f = g
         /\ Absent \notin Files
         /\ attempt > 0 => \A f \in AllFiles : Mine(f) \in Files /\ Mine(f) # Absent
         /\ \A f, g \in AllFiles : Mine(f) = Mine(g) => f = g
<1> USE PublicationAssumption DEF AllFiles, Names, Tmp, Final
<1>1. DataFiles \subseteq AllFiles /\ "manifest" \in AllFiles /\ "manifest" \notin DataFiles
  BY DEF DataFiles
<1>2. \A f \in AllFiles : Tmp(f) \in Names /\ Final(f) \in Names
  OBVIOUS
<1>3. \A f, g \in AllFiles : /\ Tmp(f) # Final(g)
                             /\ Tmp(f) = Tmp(g) => f = g
                             /\ Final(f) = Final(g) => f = g
  OBVIOUS
<1>4. Absent \notin Files
  BY DEF Absent, Files, Attempts
<1>5. attempt > 0 => \A f \in AllFiles : Mine(f) \in Files /\ Mine(f) # Absent
  BY <1>4 DEF PublicationTyped, Mine, Files, Attempts
<1>6. \A f, g \in AllFiles : Mine(f) = Mine(g) => f = g
  BY DEF Mine
<1> QED BY <1>1, <1>2, <1>3, <1>4, <1>5, <1>6

LEMMA OutputProgram ==
  ASSUME writer = "output"
  PROVE  /\ Len(Program) = 8
         /\ Program[1] = <<"fsync", "out">> /\ Program[2] = <<"replace", "out">>
         /\ Program[3] = <<"fsync", "directory">>
         /\ Program[4] = <<"create", "manifest">> /\ Program[5] = <<"write", "manifest">>
         /\ Program[6] = <<"fsync", "manifest">> /\ Program[7] = <<"replace", "manifest">>
         /\ Program[8] = <<"fsync", "directory">>
BY DEF Program, ManifestSteps

LEMMA BuilderProgram ==
  ASSUME writer = "qkv"
  PROVE  /\ Len(Program) = 10
         /\ Program[1] = <<"fsync", "q">> /\ Program[2] = <<"fsync", "kv">>
         /\ Program[3] = <<"replace", "q">> /\ Program[4] = <<"replace", "kv">>
         /\ Program[5] = <<"fsync", "directory">>
         /\ Program[6] = <<"create", "manifest">> /\ Program[7] = <<"write", "manifest">>
         /\ Program[8] = <<"fsync", "manifest">> /\ Program[9] = <<"replace", "manifest">>
         /\ Program[10] = <<"fsync", "directory">>
BY DEF Program, ManifestSteps

LEMMA Positions ==
  ASSUME PublicationTyped
  PROVE  /\ Len(Program) = SealAt + 5 /\ SealAt \in {3, 5}
         /\ \A f \in DataFiles : SyncAt(f) \in {1, 2} /\ ReplaceAt(f) \in {2, 3, 4}
         /\ \A f, g \in DataFiles : /\ SyncAt(f) < ReplaceAt(g) /\ ReplaceAt(g) < SealAt
                                    /\ SyncAt(f) = SyncAt(g) => f = g
                                    /\ ReplaceAt(f) = ReplaceAt(g) => f = g
<1>1. writer \in {"output", "qkv"}
  BY PublicationAssumption DEF PublicationTyped
<1>2. CASE writer = "output"
  BY <1>2, OutputProgram DEF DataFiles, SyncAt, ReplaceAt, SealAt
<1>3. CASE writer = "qkv"
  <2>1. Len(Program) = SealAt + 5 /\ SealAt = 5 /\ DataFiles = {"q", "kv"}
    BY <1>3, BuilderProgram DEF DataFiles, SealAt
  <2>2. SyncAt("q") = 1 /\ SyncAt("kv") = 2 /\ ReplaceAt("q") = 3 /\ ReplaceAt("kv") = 4
    BY DEF SyncAt, ReplaceAt
  <2> QED BY <2>1, <2>2
<1> QED BY <1>1, <1>2, <1>3

LEMMA AtIsNatural ==
  ASSUME PublicationTyped
  PROVE  at \in Nat /\ Len(Program) \in Nat /\ at <= Len(Program) /\ SealAt \in Nat
<1>1. Len(Program) \in Nat /\ SealAt \in Nat
  BY Positions
<1>2. at \in 0 .. Len(Program)
  BY DEF PublicationTyped
<1> HIDE DEF PublicationTyped
<1> QED BY <1>1, <1>2

\* A step is at one place of the program, but for the two directory syncs.
LEMMA StepPositions ==
  ASSUME PublicationTyped, at > 0
  PROVE  /\ \A f \in DataFiles : /\ Program[at] = <<"fsync", f>> => at = SyncAt(f)
                                 /\ Program[at] = <<"replace", f>> => at = ReplaceAt(f)
         /\ Program[at] = <<"fsync", "directory">> => at \in {SealAt, SealAt + 5}
         /\ Program[at] = <<"create", "manifest">> => at = SealAt + 1
         /\ Program[at] = <<"write", "manifest">> => at = SealAt + 2
         /\ Program[at] = <<"fsync", "manifest">> => at = SealAt + 3
         /\ Program[at] = <<"replace", "manifest">> => at = SealAt + 4
<1>1. writer \in {"output", "qkv"}
  BY PublicationAssumption DEF PublicationTyped
<1>2. CASE writer = "output"
  <2>1. at \in {1, 2, 3, 4, 5, 6, 7, 8}
    <3>1. at \in 0 .. Len(Program) /\ Len(Program) = 8
      BY <1>2, OutputProgram DEF PublicationTyped
    <3> QED BY <3>1
  <2> QED BY <1>2, <2>1, OutputProgram DEF DataFiles, SyncAt, ReplaceAt, SealAt
<1>3. CASE writer = "qkv"
  <2>1. at \in {1, 2, 3, 4, 5, 6, 7, 8, 9, 10}
    <3>1. at \in 0 .. Len(Program) /\ Len(Program) = 10
      BY <1>3, BuilderProgram DEF PublicationTyped
    <3> QED BY <3>1
  <2> QED BY <1>3, <2>1, BuilderProgram DEF DataFiles, SyncAt, ReplaceAt, SealAt
<1> QED BY <1>1, <1>2, <1>3

-----------------------------------------------------------------------------
(* The operations of the file system. *)

LEMMA AppendShape ==
  ASSUME NEW S, NEW s \in Seq(S), NEW x \in S, NEW i \in DOMAIN Append(s, x)
  PROVE  \/ i \in DOMAIN s /\ Append(s, x)[i] = s[i]
         \/ i = Len(s) + 1 /\ Append(s, x)[i] = x
<1>1. i \in 1 .. Len(s) \/ i = Len(s) + 1
  OBVIOUS
<1>2. CASE i \in 1 .. Len(s)
  BY <1>2
<1>3. CASE i = Len(s) + 1
  BY <1>3
<1> QED BY <1>1, <1>2, <1>3

\* A step leaves a name alone, or only synchronises it.
Untouched(n) ==
  /\ dir'[n] = dir[n]
  /\ disk'[n] \in {disk[n], dir[n]}
  /\ \A i \in DOMAIN updates' :
       n \in DOMAIN updates'[i] => i \in DOMAIN updates /\ updates'[i] = updates[i]

LEMMA UntouchedSettled == ASSUME NEW n, Untouched(n), Settled(n) PROVE Settled(n)'
BY DEF Untouched, Settled

\* A change concerns its own names only.
LEMMA ChangeShape ==
  ASSUME DirectoryTyped, NEW S \in SUBSET Names, NEW change \in [S -> Files \cup {Absent}],
         Change(change)
  PROVE  /\ dir' \in Directories /\ disk' \in Directories /\ updates' \in Seq(Changes)
         /\ disk' = disk
         /\ \A n \in Names \ S : Untouched(n)
         /\ \A n \in S : dir'[n] = change[n]
         /\ \A i \in DOMAIN updates' : \/ i \in DOMAIN updates /\ updates'[i] = updates[i]
                                       \/ updates'[i] = change
<1>1. change \in Changes /\ DOMAIN change = S
  BY DEF Changes
<1>2. updates \in Seq(Changes) /\ updates' = Append(updates, change)
  BY DEF DirectoryTyped, Change
<1>3. ASSUME NEW i \in DOMAIN updates'
      PROVE  \/ i \in DOMAIN updates /\ updates'[i] = updates[i]
             \/ updates'[i] = change
  BY <1>1, <1>2, <1>3, AppendShape
<1>4. dir' = [n \in Names |-> IF n \in S THEN change[n] ELSE dir[n]]
  BY <1>1 DEF Change, Apply
<1>5. dir' \in Directories /\ disk' \in Directories /\ disk' = disk
  BY <1>4 DEF Change, DirectoryTyped, Directories
<1>6. updates' \in Seq(Changes)
  BY <1>1, <1>2
<1>7. \A n \in Names \ S : dir'[n] = dir[n]
  BY <1>4
<1>8. ASSUME NEW n \in Names \ S PROVE Untouched(n)
  BY <1>1, <1>3, <1>5, <1>7, <1>8 DEF Untouched
<1>9. \A n \in S : dir'[n] = change[n]
  BY <1>4
<1> QED BY <1>3, <1>5, <1>6, <1>7, <1>8, <1>9

LEMMA WriteShape ==
  ASSUME DirectoryTyped, NEW f \in Files, NEW part \in Pages, Write(f, part)
  PROVE  /\ DirectoryTyped'
         /\ \A g \in Files : content[g] \subseteq content'[g]
         /\ part \in content'[f]
         /\ UNCHANGED <<dir, disk, updates, durable>>
         /\ \A n : Untouched(n)
<1>1. content' = [content EXCEPT ![f] = @ \cup {part}]
  BY DEF Write
<1>2. content' \in Contents /\ part \in content'[f] /\ \A g \in Files : content[g] \subseteq content'[g]
  BY <1>1 DEF DirectoryTyped, Contents
<1>3. \A n : Untouched(n)
  BY DEF Write, Untouched
<1> QED BY <1>2, <1>3 DEF Write, DirectoryTyped

LEMMA FsyncShape ==
  ASSUME DirectoryTyped, NEW files \in SUBSET Files, Fsync(files)
  PROVE  /\ DirectoryTyped'
         /\ \A g \in Files : durable[g] \subseteq durable'[g]
         /\ \A g \in files : durable'[g] = content[g]
         /\ UNCHANGED <<dir, disk, updates, content>>
         /\ \A n : Untouched(n)
<1>1. \A n : Untouched(n)
  BY DEF Fsync, Untouched
<1> QED BY <1>1 DEF Fsync, DirectoryTyped, Contents

LEMMA FsyncDirectoryShape ==
  ASSUME DirectoryTyped, FsyncDirectory
  PROVE  /\ DirectoryTyped'
         /\ disk' = dir /\ \A n : Settled(n)'
         /\ UNCHANGED <<dir, content, durable>>
         /\ \A n : Untouched(n)
<1>1. \A n : Untouched(n) /\ Settled(n)'
  BY DEF FsyncDirectory, Untouched, Settled
<1> QED BY <1>1 DEF FsyncDirectory, DirectoryTyped

\* Positions of a sequence that are not none have a last one.
LEMMA LastOfPositions ==
  ASSUME NEW n \in Nat, NEW positions \in SUBSET (1 .. n), positions # {}
  PROVE  LastOf(positions) \in positions
<1> DEFINE R == OpToRel(<, Nat)
           T == {n - i : i \in positions}
<1>1. T \subseteq Nat /\ T # {}
  <2>1. PICK i \in positions : TRUE
    OBVIOUS
  <2>2. n - i \in T
    BY <2>1
  <2>3. \A k \in positions : k \in Int /\ k <= n /\ n - k \in Nat
    OBVIOUS
  <2> QED BY <2>2, <2>3
<1>2. PICK t \in T : \A u \in T : ~(<<u, t>> \in R)
  <2> HIDE DEF R, T
  <2>1. IsWellFoundedOn(R, Nat)
    BY NatLessThanWellFounded DEF R
  <2> QED BY <1>1, <2>1, WFMin
<1>3. \A u \in T : ~(u < t)
  BY <1>1, <1>2 DEF OpToRel
<1>4. PICK last \in positions : t = n - last
  OBVIOUS
<1>5. ASSUME NEW i \in positions PROVE i <= last
  <2>1. n - i \in T
    OBVIOUS
  <2>2. ~(n - i < n - last)
    BY <1>3, <1>4, <2>1
  <2>3. i \in Int /\ last \in Int
    OBVIOUS
  <2> QED BY <2>2, <2>3
<1> QED BY <1>5 DEF LastOf

\* After a crash a name is what the disk or one of the changes says.
LEMMA CrashShape ==
  ASSUME DirectoryTyped, FsCrash
  PROVE  /\ DirectoryTyped'
         /\ \A n \in Names : \/ dir'[n] = disk[n]
                             \/ \E i \in DOMAIN updates :
                                  n \in DOMAIN updates[i] /\ dir'[n] = updates[i][n]
         /\ disk' = dir' /\ updates' = <<>>
         /\ \A f \in Files : durable[f] \subseteq durable'[f]
<1>1. PICK kept \in SUBSET (DOMAIN updates),
           torn \in SUBSET {f \in Files : content[f] # durable[f]} :
        /\ dir' = Survivor(kept) /\ disk' = dir' /\ updates' = <<>>
        /\ content' = [f \in Files |-> IF f \in torn THEN durable[f] ELSE content[f]]
        /\ durable' = content'
  BY DEF FsCrash
<1>2. updates \in Seq(Changes)
  BY DEF DirectoryTyped
<1>3. ASSUME NEW n \in Names
      PROVE  \/ dir'[n] = disk[n]
             \/ \E i \in DOMAIN updates : n \in DOMAIN updates[i] /\ dir'[n] = updates[i][n]
  <2> DEFINE changes == {i \in kept : n \in DOMAIN updates[i]}
  <2>1. dir'[n] = IF changes = {} THEN disk[n] ELSE updates[LastOf(changes)][n]
    BY <1>1 DEF Survivor
  <2>2. changes # {} => LastOf(changes) \in changes
    <3>1. Len(updates) \in Nat /\ changes \in SUBSET (1 .. Len(updates))
      BY <1>2
    <3> HIDE DEF changes
    <3> QED BY <3>1, LastOfPositions
  <2> QED BY <2>1, <2>2
<1>4. \A i \in DOMAIN updates : \A n \in DOMAIN updates[i] : updates[i][n] \in Files \cup {Absent}
  BY <1>2 DEF Changes
<1>5. dir' \in Directories
  <2>1. \A n \in Names : dir'[n] \in Files \cup {Absent}
    BY <1>3, <1>4 DEF DirectoryTyped, Directories
  <2>2. DOMAIN dir' = Names /\ dir' = [n \in Names |-> dir'[n]]
    BY <1>1 DEF Survivor
  <2> QED BY <2>1, <2>2 DEF Directories
<1>6. content' \in Contents /\ \A f \in Files : durable[f] \subseteq durable'[f]
  BY <1>1 DEF DirectoryTyped, Contents
<1>7. updates' \in Seq(Changes)
  BY <1>1
<1> QED BY <1>1, <1>3, <1>5, <1>6, <1>7 DEF DirectoryTyped

-----------------------------------------------------------------------------
(* What steps that do not touch the manifest's name keep. *)

LEMMA SameAttempt ==
  ASSUME UNCHANGED <<writer, attempt>>
  PROVE  /\ DataFiles' = DataFiles /\ Program' = Program /\ SealAt' = SealAt
         /\ \A f : Mine(f)' = Mine(f)
BY DEF DataFiles, Program, ManifestSteps, SealAt, Mine

LEMMA SealedStays ==
  ASSUME DirectoryTyped, DirectoryTyped', PublicationTyped, attempt > 0,
         UNCHANGED <<writer, attempt>>, DataSealed,
         \A f \in DataFiles : Untouched(Final(f)),
         \A g \in Files : durable[g] \subseteq durable'[g]
  PROVE  DataSealed'
<1> SUFFICES ASSUME NEW f \in DataFiles
             PROVE  /\ dir'[Final(f)] = Mine(f) /\ disk'[Final(f)] = Mine(f)
                    /\ Settled(Final(f))' /\ durable'[Mine(f)] = Pages
  BY SameAttempt DEF DataSealed
<1>1. Mine(f) \in Files
  BY NamesAndFiles
<1>2. Settled(Final(f))'
  BY UntouchedSettled DEF DataSealed
<1>3. dir'[Final(f)] = Mine(f) /\ disk'[Final(f)] = Mine(f)
  BY DEF Untouched, DataSealed
<1>4. durable'[Mine(f)] = Pages
  <2>1. durable[Mine(f)] = Pages /\ durable[Mine(f)] \subseteq durable'[Mine(f)]
    BY <1>1 DEF DataSealed
  <2>2. durable'[Mine(f)] \subseteq Pages
    BY <1>1 DEF DirectoryTyped, Contents
  <2> QED BY <2>1, <2>2
<1> QED BY <1>2, <1>3, <1>4

LEMMA QuietStep ==
  ASSUME StoreInv, DirectoryTyped', UNCHANGED <<writer, attempt>>,
         Untouched(Manifest),
         Published => \A f \in DataFiles : Untouched(Final(f)),
         \A f \in AllFiles \ (DataFiles \cup {"manifest"}) : Untouched(Tmp(f)),
         \A g \in Files : durable[g] \subseteq durable'[g]
  PROVE  /\ Published' = Published
         /\ ManifestStays' /\ PublishedIsSealed' /\ TemporariesOwn'
<1> USE DEF StoreInv
<1>1. Published' = Published
  BY DEF Published, Untouched
<1>2. ManifestStays'
  <2>1. ~Published => Settled(Manifest)'
    BY UntouchedSettled DEF ManifestStays
  <2> QED BY <1>1, <2>1 DEF ManifestStays, Untouched
<1>3. PublishedIsSealed'
  <2> SUFFICES ASSUME Published
               PROVE  /\ attempt > 0 /\ dir'[Manifest] = Mine("manifest")
                      /\ durable'[Mine("manifest")] # {} /\ DataSealed'
    BY <1>1, SameAttempt DEF PublishedIsSealed
  <2>1. attempt > 0 /\ dir[Manifest] = Mine("manifest") /\ durable[Mine("manifest")] # {} /\ DataSealed
    BY DEF PublishedIsSealed
  <2>2. DataSealed'
    BY <2>1, SealedStays
  <2>3. dir'[Manifest] = Mine("manifest")
    BY <2>1 DEF Untouched
  <2>4. durable'[Mine("manifest")] # {}
    BY <2>1, NamesAndFiles
  <2> QED BY <2>1, <2>2, <2>3, <2>4
<1>4. TemporariesOwn'
  <2> SUFFICES ASSUME NEW f \in AllFiles \ (DataFiles \cup {"manifest"})
               PROVE  dir'[Tmp(f)] = Absent /\ disk'[Tmp(f)] = Absent /\ Settled(Tmp(f))'
    BY SameAttempt DEF TemporariesOwn
  <2>1. dir[Tmp(f)] = Absent /\ disk[Tmp(f)] = Absent /\ Settled(Tmp(f)) /\ Untouched(Tmp(f))
    BY DEF TemporariesOwn
  <2> QED BY <2>1, UntouchedSettled DEF Untouched
<1> QED BY <1>1, <1>2, <1>3, <1>4

-----------------------------------------------------------------------------
(* The steps of a publication. *)

LEMMA RunningIsUnacknowledged ==
  ASSUME StoreInv, phase \in {"running", "closing", "cleaning"} PROVE acknowledged = 0 /\ attempt > 0
BY DEF StoreInv, AcknowledgedStays, PublicationTyped

\* A step that is not the last leaves the attempt running.
LEMMA ProgramGoesOn ==
  ASSUME StoreInv, Running, at > 0, at < Len(Program), Advance,
         Published' => at + 1 = Len(Program)
  PROVE  /\ at' = at + 1 /\ phase' = "running" /\ UNCHANGED <<writer, attempt, acknowledged>>
         /\ attempt > 0
         /\ PublicationTyped' /\ PublishedPhases' /\ CleanupSpares' /\ AcknowledgedStays'
         /\ TemporariesDoomed' /\ FailuresLeaveNoTemporaries'
<1>1. at' = at + 1 /\ phase' = "running" /\ UNCHANGED <<writer, attempt, doomed, acknowledged>>
  BY DEF Advance, Running
<1>2. acknowledged = 0 /\ attempt > 0
  BY RunningIsUnacknowledged DEF Running
<1>3. PublicationTyped /\ Program' = Program /\ Len(Program) = SealAt + 5 /\ SealAt \in Nat
  BY <1>1, SameAttempt, Positions DEF StoreInv
<1>4. PublicationTyped'
  <2>1. at' \in 0 .. Len(Program')
    BY <1>1, <1>3, AtIsNatural
  <2> QED BY <1>1, <1>2, <2>1 DEF PublicationTyped, Phases, StoreInv
<1>5. PublishedPhases'
  BY <1>1, <1>3 DEF PublishedPhases
<1>6. CleanupSpares' /\ TemporariesDoomed' /\ FailuresLeaveNoTemporaries'
  BY <1>1 DEF CleanupSpares, TemporariesDoomed, FailuresLeaveNoTemporaries
<1>7. AcknowledgedStays'
  BY <1>1, <1>2 DEF AcknowledgedStays
<1> QED BY <1>1, <1>2, <1>4, <1>5, <1>6, <1>7

LEMMA DataGoesOn ==
  ASSUME StoreInv, Running, at > 0, at' = at + 1, UNCHANGED <<writer, attempt>>,
         NEW f \in DataFiles, DirectoryTyped',
         \A g \in Files : content[g] \subseteq content'[g] /\ durable[g] \subseteq durable'[g],
         at = SyncAt(f) => durable'[Mine(f)] = Pages,
         at = ReplaceAt(f) => dir'[Final(f)] = Mine(f),
         at < ReplaceAt(f) => dir'[Tmp(f)] = dir[Tmp(f)],
         at > ReplaceAt(f) => dir'[Final(f)] = dir[Final(f)]
  PROVE  DataProgress(f)'
<1>1. DataProgress(f) /\ PublicationTyped /\ attempt > 0
  BY RunningIsUnacknowledged DEF StoreInv, Progress, Running
<1>2. Mine(f) \in Files /\ Mine(f)' = Mine(f)
  BY <1>1, NamesAndFiles, SameAttempt
<1>3. at \in Nat /\ SyncAt(f) \in Nat /\ ReplaceAt(f) \in Nat
  BY <1>1, Positions, AtIsNatural
<1>4. content'[Mine(f)] \subseteq Pages /\ durable'[Mine(f)] \subseteq Pages
  BY <1>2 DEF DirectoryTyped, Contents, Pages
<1>5. content'[Mine(f)] = Pages
  BY <1>1, <1>2, <1>4 DEF DataProgress
<1>6. at + 1 > SyncAt(f) => durable'[Mine(f)] = Pages
  <2>1. CASE at > SyncAt(f)
    BY <1>1, <1>2, <1>4, <2>1 DEF DataProgress
  <2>2. at + 1 > SyncAt(f) => at > SyncAt(f) \/ at = SyncAt(f)
    BY <1>3
  <2> QED BY <2>1, <2>2
<1>7. at + 1 <= ReplaceAt(f) => dir'[Tmp(f)] = Mine(f)
  BY <1>1, <1>3 DEF DataProgress
<1>8. at + 1 > ReplaceAt(f) => dir'[Final(f)] = Mine(f)
  BY <1>1, <1>3 DEF DataProgress
<1>9. SyncAt(f)' = SyncAt(f) /\ ReplaceAt(f)' = ReplaceAt(f)
  BY DEF SyncAt, ReplaceAt
<1> QED BY <1>2, <1>5, <1>6, <1>7, <1>8, <1>9 DEF DataProgress, Final, Tmp

\* The steps that write no name: their parts of the invariant.
LEMMA FsyncDataKeeps ==
  ASSUME StoreInv, NEW f \in DataFiles, FsyncFile(f) PROVE StoreInv'
<1>1. Running /\ at > 0 /\ Program[at] = <<"fsync", f>> /\ Advance /\ Fsync({Mine(f)})
  BY DEF FsyncFile, Do
<1>2. PublicationTyped /\ attempt > 0 /\ DirectoryTyped
  BY <1>1, RunningIsUnacknowledged DEF Running, StoreInv
<1>3. at = SyncAt(f) /\ at \in Nat /\ Len(Program) = SealAt + 5 /\ SealAt \in {3, 5}
  <2>1. at = SyncAt(f)
    BY <1>1, <1>2, StepPositions
  <2> QED BY <1>2, <2>1, Positions, AtIsNatural
<1>4. ASSUME NEW g \in DataFiles
      PROVE  /\ at < ReplaceAt(g) /\ ReplaceAt(g) < SealAt /\ ReplaceAt(g) \in Nat
             /\ at = SyncAt(g) => g = f
  BY <1>2, <1>3, Positions
<1>5. at + 1 < SealAt /\ at < Len(Program)
  <2>1. at < ReplaceAt(f) /\ ReplaceAt(f) < SealAt /\ ReplaceAt(f) \in Nat
    BY <1>4
  <2> QED BY <1>3, <2>1
<1>6. Mine(f) \in Files
  BY <1>2, NamesAndFiles
<1>7. /\ DirectoryTyped' /\ UNCHANGED <<dir, disk, updates, content>>
      /\ \A g \in Files : durable[g] \subseteq durable'[g]
      /\ durable'[Mine(f)] = content[Mine(f)]
      /\ \A n : Untouched(n)
  BY <1>1, <1>2, <1>6, FsyncShape
<1>8. UNCHANGED <<writer, attempt>> /\ at' \in Nat
  BY <1>1, <1>3 DEF Advance
<1>9. Published' = Published /\ ManifestStays' /\ PublishedIsSealed' /\ TemporariesOwn'
  BY <1>7, <1>8, QuietStep
<1>10. ~Published
  BY <1>1, <1>3, <1>5 DEF StoreInv, PublishedPhases, Running
<1>11. /\ at' = at + 1 /\ phase' = "running"
       /\ PublicationTyped' /\ PublishedPhases' /\ CleanupSpares' /\ AcknowledgedStays'
       /\ TemporariesDoomed' /\ FailuresLeaveNoTemporaries'
  BY <1>1, <1>5, <1>9, <1>10, ProgramGoesOn
<1>12. ASSUME NEW g \in DataFiles PROVE DataProgress(g)'
  <2>1. durable'[Mine(f)] = Pages
    BY <1>1, <1>7 DEF StoreInv, Progress, DataProgress, Running
  <2>2. /\ at < ReplaceAt(g) /\ ReplaceAt(g) \in Nat
        /\ at = SyncAt(g) => durable'[Mine(g)] = Pages
    BY <1>4, <2>1
  <2> QED BY <1>1, <1>3, <1>7, <1>8, <1>11, <2>2, DataGoesOn
<1>13. ManifestProgress'
  BY <1>3, <1>5, <1>8, <1>11, SameAttempt DEF ManifestProgress
<1> QED BY <1>7, <1>8, <1>9, <1>11, <1>12, <1>13, SameAttempt DEF StoreInv, Progress

\* Renaming one data file touches its two names only, before any manifest.
LEMMA ReplaceDataKeeps ==
  ASSUME StoreInv, NEW f \in DataFiles, Replace(f) PROVE StoreInv'
<1> DEFINE S == {Tmp(f), Final(f)}
           change == [n \in S |-> IF n = Final(f) THEN dir[Tmp(f)] ELSE Absent]
<1>1. /\ Running /\ at > 0 /\ Program[at] = <<"replace", f>> /\ Advance
      /\ Change(change) /\ UNCHANGED <<content, durable>>
  BY DEF Replace, Do, Rename
<1>2. PublicationTyped /\ attempt > 0 /\ DirectoryTyped
  BY <1>1, RunningIsUnacknowledged DEF Running, StoreInv
<1>3. at = ReplaceAt(f) /\ at \in Nat /\ Len(Program) = SealAt + 5 /\ SealAt \in {3, 5}
  <2>1. at = ReplaceAt(f)
    BY <1>1, <1>2, StepPositions
  <2> QED BY <1>2, <2>1, Positions, AtIsNatural
<1>4. ASSUME NEW g \in DataFiles
      PROVE  /\ SyncAt(g) < at /\ SyncAt(g) \in Nat /\ ReplaceAt(g) \in Nat
             /\ at = ReplaceAt(g) => g = f
  BY <1>2, <1>3, Positions
<1>5. at + 1 <= SealAt /\ at < Len(Program)
  <2>1. ReplaceAt(f) < SealAt
    BY <1>2, Positions
  <2> QED BY <1>3, <2>1
<1>6. /\ S \in SUBSET Names /\ f \in AllFiles
      /\ \A g \in AllFiles : /\ g # f => Tmp(g) \notin S /\ Final(g) \notin S
                             /\ Tmp(g) \in Names /\ Final(g) \in Names
      /\ Manifest \in Names \ S
      /\ DataFiles \subseteq AllFiles
      /\ Tmp(f) # Final(f)
  BY <1>2, NamesAndFiles DEF Manifest
<1>7. change \in [S -> Files \cup {Absent}]
  BY <1>2, <1>6 DEF DirectoryTyped, Directories
<1>8. /\ dir' \in Directories /\ disk' \in Directories /\ updates' \in Seq(Changes)
      /\ disk' = disk
      /\ \A n \in Names \ S : Untouched(n)
      /\ \A n \in S : dir'[n] = change[n]
  <2> HIDE DEF change, S
  <2> QED BY <1>1, <1>2, <1>6, <1>7, ChangeShape
<1>9. DirectoryTyped' /\ \A g \in Files : content[g] \subseteq content'[g] /\ durable[g] \subseteq durable'[g]
  BY <1>1, <1>2, <1>8 DEF DirectoryTyped
<1>10. UNCHANGED <<writer, attempt>> /\ at' \in Nat
  BY <1>1, <1>3 DEF Advance
<1>11. ~Published
  BY <1>1, <1>3, <1>5 DEF StoreInv, PublishedPhases, Running
<1>12. Published' = Published /\ ManifestStays' /\ PublishedIsSealed' /\ TemporariesOwn'
  <2>1. Untouched(Manifest)
    BY <1>6, <1>8
  <2>2. \A g \in AllFiles \ (DataFiles \cup {"manifest"}) : Untouched(Tmp(g))
    BY <1>6, <1>8
  <2> QED BY <1>9, <1>10, <1>11, <2>1, <2>2, QuietStep
<1>13. /\ at' = at + 1 /\ phase' = "running"
       /\ PublicationTyped' /\ PublishedPhases' /\ CleanupSpares' /\ AcknowledgedStays'
       /\ TemporariesDoomed' /\ FailuresLeaveNoTemporaries'
  BY <1>1, <1>5, <1>11, <1>12, ProgramGoesOn
<1>14. dir'[Final(f)] = Mine(f)
  <2>1. dir'[Final(f)] = dir[Tmp(f)]
    BY <1>6, <1>8
  <2>2. DataProgress(f) /\ at <= ReplaceAt(f)
    BY <1>1, <1>3 DEF StoreInv, Progress, Running
  <2> QED BY <2>1, <2>2 DEF DataProgress
<1>15. ASSUME NEW g \in DataFiles PROVE DataProgress(g)'
  <2>1. at = ReplaceAt(g) => dir'[Final(g)] = Mine(g)
    BY <1>4, <1>14
  <2>2. g # f => dir'[Tmp(g)] = dir[Tmp(g)] /\ dir'[Final(g)] = dir[Final(g)]
    BY <1>6, <1>8 DEF Untouched
  <2>3. at < ReplaceAt(g) \/ at > ReplaceAt(g) => g # f
    BY <1>3
  <2>4. at # SyncAt(g)
    BY <1>3, <1>4
  <2> QED BY <1>1, <1>9, <1>10, <1>13, <2>1, <2>2, <2>3, <2>4, DataGoesOn
<1>16. ManifestProgress'
  BY <1>3, <1>5, <1>10, <1>13, SameAttempt DEF ManifestProgress
<1> QED BY <1>9, <1>10, <1>12, <1>13, <1>15, <1>16, SameAttempt DEF StoreInv, Progress

\* From the first directory sync on, every data file is at its final name.
LEMMA AfterData ==
  ASSUME StoreInv, Running, at >= SealAt, NEW f \in DataFiles
  PROVE  content[Mine(f)] = Pages /\ durable[Mine(f)] = Pages /\ dir[Final(f)] = Mine(f)
<1>1. PublicationTyped /\ DataProgress(f)
  BY DEF StoreInv, Progress, Running
<1>2. SealAt > ReplaceAt(f) /\ SealAt > SyncAt(f) /\ SealAt > 0
      /\ SealAt \in Nat /\ ReplaceAt(f) \in Nat /\ SyncAt(f) \in Nat /\ at \in Nat
  BY <1>1, Positions, AtIsNatural
<1>3. at > ReplaceAt(f) /\ at > SyncAt(f) /\ at > 0
  BY <1>2
<1> QED BY <1>1, <1>3 DEF DataProgress

\* From then on no step disturbs it.
LEMMA DataStays ==
  ASSUME StoreInv, Running, at >= SealAt, at' = at + 1, UNCHANGED <<writer, attempt>>,
         DirectoryTyped',
         \A g \in Files : content[g] \subseteq content'[g] /\ durable[g] \subseteq durable'[g],
         \A f \in DataFiles : Untouched(Final(f))
  PROVE  \A f \in DataFiles' : DataProgress(f)'
<1> SUFFICES ASSUME NEW f \in DataFiles PROVE DataProgress(f)'
  BY SameAttempt
<1>1. PublicationTyped
  BY DEF StoreInv
<1>2. SealAt > ReplaceAt(f) /\ SealAt > SyncAt(f) /\ SealAt > 0
      /\ SealAt \in Nat /\ ReplaceAt(f) \in Nat /\ SyncAt(f) \in Nat /\ at \in Nat
  BY <1>1, Positions, AtIsNatural
<1>3. at > ReplaceAt(f) /\ at # SyncAt(f) /\ at > 0
  BY <1>2
<1>4. ~(at < ReplaceAt(f)) /\ ~(at = ReplaceAt(f))
  BY <1>2, <1>3
<1> QED BY <1>3, <1>4, DataGoesOn DEF Untouched

\* The steps that prepare the manifest under its temporary name.
LEMMA ManifestGoesOn ==
  ASSUME StoreInv, Running, Advance, at \in SealAt + 1 .. SealAt + 3, DirectoryTyped',
         Untouched(Manifest), \A f \in DataFiles : Untouched(Final(f)),
         \A f \in AllFiles \ (DataFiles \cup {"manifest"}) : Untouched(Tmp(f)),
         \A g \in Files : content[g] \subseteq content'[g] /\ durable[g] \subseteq durable'[g],
         dir'[Tmp("manifest")] = Mine("manifest"),
         at > SealAt + 1 => content'[Mine("manifest")] # {},
         at > SealAt + 2 => durable'[Mine("manifest")] # {}
  PROVE  StoreInv'
<1>1. PublicationTyped /\ attempt > 0 /\ DirectoryTyped
  BY RunningIsUnacknowledged DEF Running, StoreInv
<1>2. SealAt \in Nat /\ Len(Program) = SealAt + 5 /\ at \in Nat /\ SealAt > 0
  BY <1>1, Positions, AtIsNatural
<1>3. at > 0 /\ at < Len(Program) /\ at >= SealAt /\ at > SealAt
  BY <1>2
<1>4. UNCHANGED <<writer, attempt>>
  BY DEF Advance
<1>5. Published' = Published /\ ManifestStays' /\ PublishedIsSealed' /\ TemporariesOwn'
  BY <1>4, QuietStep
<1>6. ~Published
  BY <1>2, <1>3 DEF StoreInv, PublishedPhases, Running
<1>7. /\ at' = at + 1 /\ phase' = "running"
      /\ PublicationTyped' /\ PublishedPhases' /\ CleanupSpares' /\ AcknowledgedStays'
      /\ TemporariesDoomed' /\ FailuresLeaveNoTemporaries'
  BY <1>3, <1>5, <1>6, ProgramGoesOn
<1>8. \A f \in DataFiles' : DataProgress(f)'
  BY <1>3, <1>4, <1>7, DataStays
<1>9. DataSealed'
  <2>1. DataSealed
    BY <1>3 DEF StoreInv, Progress, ManifestProgress, Running
  <2> QED BY <1>1, <1>4, <2>1, SealedStays
<1>10. ManifestProgress'
  <2>1. SealAt' = SealAt /\ Mine("manifest")' = Mine("manifest")
    BY <1>4, SameAttempt
  <2>2. /\ at + 1 > SealAt + 2 => at > SealAt + 1
        /\ at + 1 > SealAt + 3 => at > SealAt + 2
        /\ ~(at + 1 > SealAt + 4)
    BY <1>2
  <2>3. Tmp("manifest")' = Tmp("manifest")
    BY DEF Tmp
  <2> QED BY <1>7, <1>9, <2>1, <2>2, <2>3 DEF ManifestProgress
<1> QED BY <1>5, <1>7, <1>8, <1>10 DEF StoreInv, Progress

LEMMA CreateManifestKeeps == ASSUME StoreInv, CreateManifest PROVE StoreInv'
<1> DEFINE S == {Tmp("manifest")}
           change == [n \in S |-> Mine("manifest")]
<1>1. /\ Running /\ at > 0 /\ Program[at] = <<"create", "manifest">> /\ Advance
      /\ Change(change) /\ UNCHANGED <<content, durable>>
  BY DEF CreateManifest, Do, Create
<1>2. PublicationTyped /\ attempt > 0 /\ DirectoryTyped
  BY <1>1, RunningIsUnacknowledged DEF Running, StoreInv
<1>3. at = SealAt + 1 /\ SealAt \in Nat
  BY <1>1, <1>2, StepPositions, AtIsNatural
<1>4. /\ S \in SUBSET Names /\ change \in [S -> Files \cup {Absent}]
      /\ Manifest \in Names \ S
      /\ \A f \in DataFiles : Final(f) \in Names \ S
      /\ \A f \in AllFiles \ (DataFiles \cup {"manifest"}) : Tmp(f) \in Names \ S
  BY <1>2, NamesAndFiles DEF Manifest
<1>5. /\ dir' \in Directories /\ disk' \in Directories /\ updates' \in Seq(Changes)
      /\ \A n \in Names \ S : Untouched(n)
      /\ \A n \in S : dir'[n] = change[n]
  <2> HIDE DEF change, S
  <2> QED BY <1>1, <1>2, <1>4, ChangeShape
<1>6. DirectoryTyped' /\ \A g \in Files : content[g] \subseteq content'[g] /\ durable[g] \subseteq durable'[g]
  BY <1>1, <1>2, <1>5 DEF DirectoryTyped
<1>7. dir'[Tmp("manifest")] = Mine("manifest")
  BY <1>5
<1>8. at \in SealAt + 1 .. SealAt + 3 /\ ~(at > SealAt + 1) /\ ~(at > SealAt + 2)
  BY <1>3
<1> QED BY <1>1, <1>4, <1>5, <1>6, <1>7, <1>8, ManifestGoesOn

LEMMA WriteManifestKeeps == ASSUME StoreInv, WriteManifest PROVE StoreInv'
<1>1. /\ Running /\ at > 0 /\ Program[at] = <<"write", "manifest">> /\ Advance
      /\ Write(Mine("manifest"), 1)
  BY DEF WriteManifest, Do
<1>2. PublicationTyped /\ attempt > 0 /\ DirectoryTyped
  BY <1>1, RunningIsUnacknowledged DEF Running, StoreInv
<1>3. at = SealAt + 2 /\ SealAt \in Nat
  BY <1>1, <1>2, StepPositions, AtIsNatural
<1>4. Mine("manifest") \in Files /\ 1 \in Pages
  BY <1>2, NamesAndFiles, PublicationAssumption DEF Pages
<1>5. /\ DirectoryTyped' /\ \A g \in Files : content[g] \subseteq content'[g]
      /\ 1 \in content'[Mine("manifest")]
      /\ UNCHANGED <<dir, disk, updates, durable>> /\ \A n : Untouched(n)
  BY <1>1, <1>2, <1>4, WriteShape
<1>6. at \in SealAt + 1 .. SealAt + 3 /\ at \in SealAt + 2 .. SealAt + 4 /\ ~(at > SealAt + 2)
  BY <1>3
<1>7. dir'[Tmp("manifest")] = Mine("manifest")
  BY <1>1, <1>5, <1>6 DEF StoreInv, Progress, ManifestProgress, Running
<1> QED BY <1>1, <1>5, <1>6, <1>7, ManifestGoesOn

LEMMA FsyncManifestKeeps == ASSUME StoreInv, FsyncFile("manifest") PROVE StoreInv'
<1>1. /\ Running /\ at > 0 /\ Program[at] = <<"fsync", "manifest">> /\ Advance
      /\ Fsync({Mine("manifest")})
  BY DEF FsyncFile, Do
<1>2. PublicationTyped /\ attempt > 0 /\ DirectoryTyped
  BY <1>1, RunningIsUnacknowledged DEF Running, StoreInv
<1>3. at = SealAt + 3 /\ SealAt \in Nat
  BY <1>1, <1>2, StepPositions, AtIsNatural
<1>4. Mine("manifest") \in Files
  BY <1>2, NamesAndFiles
<1>5. /\ DirectoryTyped' /\ UNCHANGED <<dir, disk, updates, content>>
      /\ \A g \in Files : durable[g] \subseteq durable'[g]
      /\ durable'[Mine("manifest")] = content[Mine("manifest")]
      /\ \A n : Untouched(n)
  BY <1>1, <1>2, <1>4, FsyncShape
<1>6. at \in SealAt + 1 .. SealAt + 3 /\ at \in SealAt + 2 .. SealAt + 4 /\ at > SealAt + 2
  BY <1>3
<1>7. dir'[Tmp("manifest")] = Mine("manifest") /\ content[Mine("manifest")] # {}
  BY <1>1, <1>5, <1>6 DEF StoreInv, Progress, ManifestProgress, Running
<1> QED BY <1>1, <1>5, <1>6, <1>7, ManifestGoesOn

\* The rename that publishes: the data is sealed, the manifest is durable.
LEMMA ReplaceManifestKeeps == ASSUME StoreInv, Replace("manifest") PROVE StoreInv'
<1> DEFINE S == {Tmp("manifest"), Manifest}
           change == [n \in S |-> IF n = Manifest THEN dir[Tmp("manifest")] ELSE Absent]
<1>1. /\ Running /\ at > 0 /\ Program[at] = <<"replace", "manifest">> /\ Advance
      /\ Change(change) /\ UNCHANGED <<content, durable>>
  BY DEF Replace, Do, Rename, Manifest
<1>2. PublicationTyped /\ attempt > 0 /\ DirectoryTyped
  BY <1>1, RunningIsUnacknowledged DEF Running, StoreInv
<1>3. at = SealAt + 4 /\ SealAt \in Nat /\ Len(Program) = SealAt + 5
  BY <1>1, <1>2, StepPositions, AtIsNatural, Positions
<1>4. /\ S \in SUBSET Names /\ Manifest \in Names /\ Tmp("manifest") \in Names
      /\ \A f \in DataFiles : Final(f) \in Names \ S
      /\ \A f \in AllFiles \ (DataFiles \cup {"manifest"}) : Tmp(f) \in Names \ S
      /\ Mine("manifest") # Absent
  BY <1>2, NamesAndFiles DEF Manifest
<1>5. change \in [S -> Files \cup {Absent}]
  BY <1>2, <1>4 DEF DirectoryTyped, Directories
<1>6. /\ dir' \in Directories /\ disk' \in Directories /\ updates' \in Seq(Changes)
      /\ disk' = disk
      /\ \A n \in Names \ S : Untouched(n)
      /\ \A n \in S : dir'[n] = change[n]
      /\ \A i \in DOMAIN updates' : \/ i \in DOMAIN updates /\ updates'[i] = updates[i]
                                    \/ updates'[i] = change
  <2> HIDE DEF change, S
  <2> QED BY <1>1, <1>2, <1>4, <1>5, ChangeShape
<1>7. DirectoryTyped' /\ \A g \in Files : content[g] \subseteq content'[g] /\ durable[g] \subseteq durable'[g]
  BY <1>1, <1>2, <1>6 DEF DirectoryTyped
<1>8. UNCHANGED <<writer, attempt>>
  BY <1>1 DEF Advance
<1>9. /\ DataSealed /\ dir[Tmp("manifest")] = Mine("manifest")
      /\ content[Mine("manifest")] # {} /\ durable[Mine("manifest")] # {}
  <2>1. at > SealAt /\ at \in SealAt + 2 .. SealAt + 4 /\ at > SealAt + 2 /\ at > SealAt + 3
    BY <1>3
  <2> QED BY <1>1, <2>1 DEF StoreInv, Progress, ManifestProgress, Running
<1>10. dir'[Manifest] = Mine("manifest") /\ Published'
  <2>1. dir'[Manifest] = change[Manifest] /\ Manifest' = Manifest
    BY <1>6 DEF Manifest, Final
  <2> QED BY <1>4, <1>9, <2>1 DEF Published
<1>11. ~Published
  BY <1>1, <1>3 DEF StoreInv, PublishedPhases, Running
<1>12. DataSealed'
  BY <1>2, <1>4, <1>6, <1>7, <1>8, <1>9, SealedStays
<1>13. ManifestStays'
  <2>1. disk[Manifest] = Absent /\ Settled(Manifest)
    BY <1>11 DEF StoreInv, ManifestStays, Published
  <2>2. change[Manifest] = dir'[Manifest]
    BY <1>6
  <2>3. ASSUME NEW i \in DOMAIN updates', Manifest \in DOMAIN updates'[i]
        PROVE  updates'[i][Manifest] = dir'[Manifest]
    <3> HIDE DEF change, S
    <3>1. CASE i \in DOMAIN updates /\ updates'[i] = updates[i]
      BY <2>1, <2>3, <3>1 DEF Settled
    <3>2. CASE updates'[i] = change
      BY <2>2, <3>2
    <3> QED BY <1>6, <3>1, <3>2
  <2>4. disk'[Manifest] = Absent
    BY <1>6, <2>1
  <2> QED BY <1>10, <2>3, <2>4 DEF ManifestStays, Manifest, Final
<1>14. PublishedIsSealed'
  BY <1>1, <1>2, <1>8, <1>9, <1>10, <1>12, SameAttempt DEF PublishedIsSealed, Manifest, Final
<1>15. TemporariesOwn'
  <2> SUFFICES ASSUME NEW f \in AllFiles \ (DataFiles \cup {"manifest"})
               PROVE  dir'[Tmp(f)] = Absent /\ disk'[Tmp(f)] = Absent /\ Settled(Tmp(f))'
    BY <1>8, SameAttempt DEF TemporariesOwn
  <2>1. dir[Tmp(f)] = Absent /\ disk[Tmp(f)] = Absent /\ Settled(Tmp(f)) /\ Untouched(Tmp(f))
    BY <1>4, <1>6 DEF StoreInv, TemporariesOwn
  <2> QED BY <2>1, UntouchedSettled DEF Untouched
<1>16. /\ at' = at + 1 /\ phase' = "running"
       /\ PublicationTyped' /\ PublishedPhases' /\ CleanupSpares' /\ AcknowledgedStays'
       /\ TemporariesDoomed' /\ FailuresLeaveNoTemporaries'
  BY <1>1, <1>3, ProgramGoesOn
<1>17. \A f \in DataFiles' : DataProgress(f)'
  <2>1. at >= SealAt /\ \A f \in DataFiles : Untouched(Final(f))
    BY <1>3, <1>4, <1>6
  <2> QED BY <1>1, <1>7, <1>8, <1>16, <2>1, DataStays
<1>18. ManifestProgress'
  <2>1. SealAt' = SealAt /\ Mine("manifest")' = Mine("manifest")
    BY <1>8, SameAttempt
  <2>2. at' \notin SealAt + 2 .. SealAt + 4
    BY <1>3, <1>16
  <2> QED BY <1>1, <1>9, <1>10, <1>12, <2>1, <2>2 DEF ManifestProgress
<1> QED BY <1>7, <1>13, <1>14, <1>15, <1>16, <1>17, <1>18 DEF StoreInv, Progress

\* The directory is synchronised once the data is there: it is sealed.
LEMMA FsyncDirKeeps == ASSUME StoreInv, FsyncDir PROVE StoreInv'
<1>1. /\ Running /\ at > 0 /\ Program[at] = <<"fsync", "directory">> /\ Advance
      /\ FsyncDirectory
  BY DEF FsyncDir, Do
<1>2. PublicationTyped /\ attempt > 0 /\ DirectoryTyped /\ acknowledged = 0
  BY <1>1, RunningIsUnacknowledged DEF Running, StoreInv
<1>3. at \in {SealAt, SealAt + 5} /\ SealAt \in Nat /\ Len(Program) = SealAt + 5 /\ SealAt > 0
  BY <1>1, <1>2, StepPositions, AtIsNatural, Positions
<1>4. /\ DirectoryTyped' /\ disk' = dir /\ \A n : Settled(n)'
      /\ UNCHANGED <<dir, content, durable>> /\ \A n : Untouched(n)
  BY <1>1, <1>2, FsyncDirectoryShape
<1>5. UNCHANGED <<writer, attempt>>
  BY <1>1 DEF Advance
<1>6. Published' = Published /\ ManifestStays' /\ PublishedIsSealed' /\ TemporariesOwn'
  BY <1>4, <1>5, QuietStep
<1>7. CASE at = SealAt
  <2>1. ~Published
    BY <1>1, <1>3, <1>7 DEF StoreInv, PublishedPhases, Running
  <2>2. at < Len(Program) /\ at >= SealAt
    BY <1>3, <1>7
  <2>3. /\ at' = at + 1 /\ phase' = "running"
        /\ PublicationTyped' /\ PublishedPhases' /\ CleanupSpares' /\ AcknowledgedStays'
        /\ TemporariesDoomed' /\ FailuresLeaveNoTemporaries'
    BY <1>1, <1>6, <2>1, <2>2, ProgramGoesOn
  <2>4. \A f \in DataFiles' : DataProgress(f)'
    BY <1>1, <1>4, <1>5, <2>2, <2>3, DataStays
  <2>5. DataSealed'
    <3> SUFFICES ASSUME NEW f \in DataFiles
                 PROVE  /\ dir'[Final(f)] = Mine(f) /\ disk'[Final(f)] = Mine(f)
                        /\ Settled(Final(f))' /\ durable'[Mine(f)] = Pages
      BY <1>5, SameAttempt DEF DataSealed
    <3> QED BY <1>1, <1>4, <2>2, AfterData
  <2>6. ManifestProgress'
    <3>1. SealAt' = SealAt
      BY <1>5, SameAttempt
    <3>2. /\ at' \notin SealAt + 2 .. SealAt + 4
          /\ ~(at' > SealAt + 2) /\ ~(at' > SealAt + 3) /\ ~(at' > SealAt + 4)
      BY <1>3, <1>7, <2>3
    <3> QED BY <2>5, <3>1, <3>2 DEF ManifestProgress
  <2> QED BY <1>4, <1>6, <2>3, <2>4, <2>6 DEF StoreInv, Progress
<1>8. CASE at = SealAt + 5
  <2>1. at' = at /\ phase' = "returned" /\ acknowledged' = attempt /\ UNCHANGED doomed
    <3>1. ~(at < Len(Program))
      BY <1>3, <1>8
    <3> QED BY <1>1, <3>1 DEF Advance
  <2>2. PublicationTyped'
    <3>1. Program' = Program /\ attempt \in 0 .. attempt
      BY <1>2, <1>5, SameAttempt DEF PublicationTyped
    <3> QED BY <1>2, <1>5, <2>1, <3>1 DEF PublicationTyped, Phases
  <2>3. Published
    <3>1. at > SealAt + 4
      BY <1>3, <1>8
    <3> QED BY <1>1, <3>1 DEF StoreInv, Progress, ManifestProgress, Running
  <2>4. AcknowledgedStays'
    BY <1>4, <1>5, <1>6, <2>1, <2>3 DEF AcknowledgedStays, Manifest, Final
  <2>5. /\ PublishedPhases' /\ CleanupSpares' /\ Progress'
        /\ TemporariesDoomed' /\ FailuresLeaveNoTemporaries'
    BY <2>1 DEF PublishedPhases, CleanupSpares, Progress, TemporariesDoomed, FailuresLeaveNoTemporaries
  <2> QED BY <1>4, <1>6, <2>2, <2>4, <2>5 DEF StoreInv
<1> QED BY <1>3, <1>7, <1>8

LEMMA WritePageKeeps ==
  ASSUME StoreInv, NEW f \in DataFiles, NEW p \in Pages, WritePage(f, p) PROVE StoreInv'
<1>1. Running /\ at = 0 /\ Write(Mine(f), p) /\ UNCHANGED <<writer, attempt, phase, at, doomed, acknowledged>>
  BY DEF WritePage, publicationVars
<1>2. PublicationTyped /\ attempt > 0 /\ DirectoryTyped
  BY <1>1, RunningIsUnacknowledged DEF Running, StoreInv
<1>3. Mine(f) \in Files
  BY <1>2, NamesAndFiles
<1>4. /\ DirectoryTyped' /\ UNCHANGED <<dir, disk, updates, durable>>
      /\ \A n : Untouched(n)
  BY <1>1, <1>2, <1>3, WriteShape
<1>5. Published' = Published /\ ManifestStays' /\ PublishedIsSealed' /\ TemporariesOwn'
  BY <1>1, <1>4, QuietStep
<1>6. DataFiles' = DataFiles /\ Program' = Program /\ SealAt' = SealAt /\ \A g : Mine(g)' = Mine(g)
  BY <1>1, SameAttempt
<1>7. PublicationTyped' /\ AcknowledgedStays'
  BY <1>1, <1>2, <1>4, <1>5, <1>6 DEF PublicationTyped, AcknowledgedStays, StoreInv, Settled, Manifest, Final
<1>8. PublishedPhases'
  BY <1>1, <1>5, <1>6 DEF StoreInv, PublishedPhases
<1>9. CleanupSpares' /\ TemporariesDoomed' /\ FailuresLeaveNoTemporaries'
  BY <1>1 DEF CleanupSpares, TemporariesDoomed, FailuresLeaveNoTemporaries, Running
<1>10. Progress'
  <2>1. SealAt \in Nat
    BY <1>2, AtIsNatural
  <2>2. ManifestProgress'
    BY <1>1, <1>6, <2>1 DEF ManifestProgress
  <2>3. ASSUME NEW g \in DataFiles PROVE DataProgress(g)'
    <3>1. SyncAt(g) \in Nat /\ ReplaceAt(g) \in Nat /\ DataProgress(g)
      BY <1>1, <1>2, Positions DEF StoreInv, Progress, Running
    <3>2. SyncAt(g)' = SyncAt(g) /\ ReplaceAt(g)' = ReplaceAt(g) /\ Tmp(g)' = Tmp(g)
      BY DEF SyncAt, ReplaceAt, Tmp
    <3>3. 0 <= ReplaceAt(g) /\ ~(0 > ReplaceAt(g)) /\ ~(0 > SyncAt(g))
      BY <3>1
    <3>4. dir[Tmp(g)] = Mine(g)
      BY <1>1, <3>1, <3>3 DEF DataProgress
    <3> QED BY <1>1, <1>4, <1>6, <3>2, <3>3, <3>4 DEF DataProgress
  <2> QED BY <1>6, <2>2, <2>3 DEF Progress
<1> QED BY <1>4, <1>5, <1>7, <1>8, <1>9, <1>10 DEF StoreInv

\* A step that leaves the directory and the files alone.
LEMMA NothingWritten ==
  ASSUME StoreInv, UNCHANGED <<directoryVars, writer, attempt>>
  PROVE  /\ DirectoryTyped' /\ Published' = Published
         /\ ManifestStays' /\ PublishedIsSealed' /\ TemporariesOwn'
<1>1. UNCHANGED <<dir, disk, updates, content, durable, writer, attempt>>
  BY DEF directoryVars
<1>2. DirectoryTyped' /\ \A n : Untouched(n)
  BY <1>1 DEF DirectoryTyped, Untouched, StoreInv
<1> QED BY <1>1, <1>2, QuietStep

LEMMA AllWrittenKeeps == ASSUME StoreInv, AllWritten PROVE StoreInv'
<1>1. /\ Running /\ at = 0 /\ at' = 1 /\ UNCHANGED <<directoryVars, writer, attempt, phase, doomed, acknowledged>>
      /\ \A f \in DataFiles : content[Mine(f)] = Pages
  BY DEF AllWritten
<1>2. PublicationTyped /\ attempt > 0 /\ acknowledged = 0
  BY <1>1, RunningIsUnacknowledged DEF Running, StoreInv
<1>3. DirectoryTyped' /\ Published' = Published /\ ManifestStays' /\ PublishedIsSealed' /\ TemporariesOwn'
  BY <1>1, NothingWritten
<1>4. DataFiles' = DataFiles /\ Program' = Program /\ SealAt' = SealAt /\ \A g : Mine(g)' = Mine(g)
  BY <1>1, SameAttempt
<1>5. Len(Program) = SealAt + 5 /\ SealAt \in {3, 5}
  BY <1>2, Positions
<1>6. PublicationTyped'
  <2>1. at' \in 0 .. Len(Program)
    BY <1>1, <1>5
  <2> QED BY <1>1, <1>2, <1>4, <2>1 DEF PublicationTyped
<1>7. ~Published
  BY <1>1, <1>5 DEF StoreInv, PublishedPhases, Running
<1>8. PublishedPhases' /\ AcknowledgedStays'
  BY <1>1, <1>2, <1>3, <1>7 DEF PublishedPhases, AcknowledgedStays
<1>9. CleanupSpares' /\ TemporariesDoomed' /\ FailuresLeaveNoTemporaries'
  BY <1>1 DEF CleanupSpares, TemporariesDoomed, FailuresLeaveNoTemporaries, Running
<1>10. Progress'
  <2>1. ManifestProgress'
    BY <1>1, <1>4, <1>5 DEF ManifestProgress
  <2>2. ASSUME NEW g \in DataFiles PROVE DataProgress(g)'
    <3>1. SyncAt(g) \in {1, 2} /\ ReplaceAt(g) \in {2, 3, 4} /\ DataProgress(g)
      BY <1>1, <1>2, Positions DEF StoreInv, Progress, Running
    <3>2. dir[Tmp(g)] = Mine(g)
      BY <1>1, <3>1 DEF DataProgress
    <3>3. ~(1 > SyncAt(g)) /\ ~(1 > ReplaceAt(g))
      BY <3>1
    <3>4. SyncAt(g)' = SyncAt(g) /\ ReplaceAt(g)' = ReplaceAt(g) /\ Tmp(g)' = Tmp(g)
      BY DEF SyncAt, ReplaceAt, Tmp
    <3> QED BY <1>1, <1>4, <3>2, <3>3, <3>4 DEF DataProgress, directoryVars
  <2> QED BY <1>4, <2>1, <2>2 DEF Progress
<1> QED BY <1>3, <1>6, <1>8, <1>9, <1>10 DEF StoreInv

-----------------------------------------------------------------------------
(* Failures. *)

LEMMA HandlerStep ==
  ASSUME StoreInv, UNCHANGED <<writer, attempt, at, acknowledged>>, doomed' \in Seq(Names),
         phase \in {"running", "closing", "cleaning"},
         phase' \in {"closing", "cleaning", "raised", "leaked"}
  PROVE  PublicationTyped' /\ Progress' /\ AcknowledgedStays' /\ DataFiles' = DataFiles /\ Program' = Program
<1>1. acknowledged = 0 /\ attempt > 0
  BY RunningIsUnacknowledged
<1>2. DataFiles' = DataFiles /\ Program' = Program
  BY SameAttempt
<1>3. PublicationTyped'
  BY <1>1, <1>2 DEF StoreInv, PublicationTyped, Phases
<1> QED BY <1>1, <1>2, <1>3 DEF Progress, AcknowledgedStays

\* Only the builder may fail after the rename that publishes.
LEMMA RaiseKeeps == ASSUME "output" \notin SealingRaises, StoreInv, Raise PROVE StoreInv'
<1>1. /\ Running /\ phase' = "closing" /\ (at = Len(Program) => writer \in SealingRaises)
      /\ UNCHANGED <<directoryVars, writer, attempt, at, doomed, acknowledged>>
  BY DEF Raise
<1>2. doomed' \in Seq(Names)
  BY <1>1 DEF StoreInv, PublicationTyped
<1>3. DirectoryTyped' /\ Published' = Published /\ ManifestStays' /\ PublishedIsSealed' /\ TemporariesOwn'
  BY <1>1, NothingWritten
<1>4. PublicationTyped' /\ Progress' /\ AcknowledgedStays' /\ Program' = Program
  BY <1>1, <1>2, HandlerStep DEF Running
<1>5. Published => at = Len(Program) /\ writer = "qkv"
  BY <1>1, PublicationAssumption DEF StoreInv, PublishedPhases, PublicationTyped, Running
<1>6. PublishedPhases'
  BY <1>1, <1>3, <1>4, <1>5 DEF PublishedPhases
<1>7. CleanupSpares' /\ TemporariesDoomed' /\ FailuresLeaveNoTemporaries'
  BY <1>1 DEF CleanupSpares, TemporariesDoomed, FailuresLeaveNoTemporaries
<1> QED BY <1>3, <1>4, <1>6, <1>7 DEF StoreInv

\* What is unlinked: every temporary name, never the manifest, and no data of a
\* store that the builder published.
LEMMA LeftoversShape ==
  ASSUME StoreInv, Published => writer = "qkv"
  PROVE  /\ Leftovers \in Seq(Names)
         /\ \A i \in DOMAIN Leftovers :
              /\ Leftovers[i] # Manifest
              /\ Published => \A f \in DataFiles : Leftovers[i] # Final(f)
         /\ \A f \in DataFiles \cup {"manifest"} : \E i \in DOMAIN Leftovers : Leftovers[i] = Tmp(f)
<1>1. PublicationTyped
  BY DEF StoreInv
<1>2. \A f \in AllFiles : Tmp(f) \in Names /\ Final(f) \in Names
  BY <1>1, NamesAndFiles
<1>3. \A f, g \in AllFiles : Tmp(f) # Final(g) /\ (Final(f) = Final(g) => f = g)
  BY <1>1, NamesAndFiles
<1>4. CASE writer = "output" /\ at = 0
  <2>1. Leftovers = <<Tmp("out"), Tmp("manifest")>> /\ DataFiles = {"out"} /\ ~Published
    BY <1>4 DEF Leftovers, DataFiles
  <2> QED BY <1>2, <1>3, <2>1 DEF AllFiles, Manifest
<1>5. CASE writer = "output" /\ at # 0
  <2>1. Leftovers = <<Tmp("out"), Final("out"), Tmp("manifest")>> /\ DataFiles = {"out"} /\ ~Published
    BY <1>5 DEF Leftovers, DataFiles
  <2> QED BY <1>2, <1>3, <2>1 DEF AllFiles, Manifest
<1>6. CASE writer = "qkv" /\ ~Published
  <2>1. /\ Leftovers \in Seq(Names) /\ Len(Leftovers) = 5
        /\ Leftovers[1] = Tmp("q") /\ Leftovers[2] = Tmp("kv") /\ Leftovers[3] = Tmp("manifest")
        /\ Leftovers[4] = Final("q") /\ Leftovers[5] = Final("kv")
    <3>1. Leftovers = <<Tmp("q"), Tmp("kv"), Tmp("manifest")>> \o <<Final("q"), Final("kv")>>
      BY <1>6 DEF Leftovers, Published, Manifest
    <3> HIDE DEF Tmp, Final
    <3> QED BY <1>2, <3>1 DEF AllFiles
  <2>2. DataFiles = {"q", "kv"}
    BY <1>6 DEF DataFiles
  <2> QED BY <1>2, <1>3, <1>6, <2>1, <2>2 DEF AllFiles, Manifest
<1>7. CASE writer = "qkv" /\ Published
  <2>1. Leftovers = <<Tmp("q"), Tmp("kv"), Tmp("manifest")>>
    BY <1>7 DEF Leftovers, Published, Manifest
  <2>2. DataFiles = {"q", "kv"}
    BY <1>7 DEF DataFiles
  <2> QED BY <1>2, <1>3, <2>1, <2>2 DEF AllFiles, Manifest
<1> QED BY <1>1, <1>4, <1>5, <1>6, <1>7, PublicationAssumption DEF PublicationTyped

LEMMA CloseFilesKeeps == ASSUME StoreInv, CloseFiles PROVE StoreInv'
<1> DEFINE closed == IF writer = "qkv" THEN {Mine(f) : f \in StillOpen} ELSE {}
<1>1. /\ phase = "closing" /\ Fsync(closed) /\ phase' = "cleaning" /\ doomed' = Leftovers
      /\ UNCHANGED <<writer, attempt, at, acknowledged>>
  BY DEF CloseFiles
<1>2. PublicationTyped /\ attempt > 0 /\ DirectoryTyped
  BY <1>1, RunningIsUnacknowledged DEF StoreInv
<1>3. closed \in SUBSET Files
  <2>1. \A f \in AllFiles : Mine(f) \in Files
    BY <1>2, NamesAndFiles
  <2>2. StillOpen \subseteq AllFiles
    BY DEF StillOpen, DataFiles, AllFiles
  <2> QED BY <2>1, <2>2
<1>4. /\ DirectoryTyped' /\ UNCHANGED <<dir, disk, updates, content>>
      /\ \A g \in Files : durable[g] \subseteq durable'[g]
      /\ \A n : Untouched(n)
  <2> HIDE DEF closed
  <2> QED BY <1>1, <1>2, <1>3, FsyncShape
<1>5. Published' = Published /\ ManifestStays' /\ PublishedIsSealed' /\ TemporariesOwn'
  BY <1>1, <1>4, QuietStep
<1>6. Published => writer = "qkv" /\ at = Len(Program)
  BY <1>1 DEF StoreInv, PublishedPhases
<1>7. /\ Leftovers \in Seq(Names)
      /\ \A i \in DOMAIN Leftovers :
           /\ Leftovers[i] # Manifest
           /\ Published => \A f \in DataFiles : Leftovers[i] # Final(f)
      /\ \A f \in DataFiles \cup {"manifest"} : \E i \in DOMAIN Leftovers : Leftovers[i] = Tmp(f)
  BY <1>6, LeftoversShape
<1>8. PublicationTyped' /\ Progress' /\ AcknowledgedStays' /\ DataFiles' = DataFiles /\ Program' = Program
  BY <1>1, <1>7, HandlerStep
<1>9. PublishedPhases'
  BY <1>1, <1>5, <1>6, <1>8 DEF PublishedPhases
<1>10. CleanupSpares' /\ FailuresLeaveNoTemporaries'
  BY <1>1, <1>5, <1>7, <1>8 DEF CleanupSpares, FailuresLeaveNoTemporaries, Manifest, Final
<1>11. TemporariesDoomed'
  <2> SUFFICES ASSUME NEW f \in AllFiles, dir[Tmp(f)] # Absent
               PROVE  \E i \in DOMAIN Leftovers : Leftovers[i] = Tmp(f)
    BY <1>1, <1>4 DEF TemporariesDoomed, Tmp
  <2>1. f \in DataFiles \cup {"manifest"}
    BY DEF StoreInv, TemporariesOwn
  <2> QED BY <1>7, <2>1
<1> QED BY <1>4, <1>5, <1>8, <1>9, <1>10, <1>11 DEF StoreInv

LEMMA CloseRaisesKeeps == ASSUME StoreInv, CloseRaises PROVE StoreInv'
<1>1. /\ phase = "closing" /\ phase' = "leaked"
      /\ UNCHANGED <<directoryVars, writer, attempt, at, doomed, acknowledged>>
  BY DEF CloseRaises
<1>2. doomed' \in Seq(Names)
  BY <1>1 DEF StoreInv, PublicationTyped
<1>3. DirectoryTyped' /\ Published' = Published /\ ManifestStays' /\ PublishedIsSealed' /\ TemporariesOwn'
  BY <1>1, NothingWritten
<1>4. PublicationTyped' /\ Progress' /\ AcknowledgedStays'
  BY <1>1, <1>2, HandlerStep
<1>5. PublishedPhases' /\ CleanupSpares' /\ TemporariesDoomed' /\ FailuresLeaveNoTemporaries'
  BY <1>1 DEF PublishedPhases, CleanupSpares, TemporariesDoomed, FailuresLeaveNoTemporaries
<1> QED BY <1>3, <1>4, <1>5 DEF StoreInv

LEMMA UnlinkNextKeeps == ASSUME StoreInv, UnlinkNext PROVE StoreInv'
<1> DEFINE name == Head(doomed)
<1>1. /\ phase = "cleaning" /\ doomed # <<>> /\ Unlink(name) /\ doomed' = Tail(doomed)
      /\ UNCHANGED <<writer, attempt, phase, at, acknowledged>>
  BY DEF UnlinkNext
<1>2. PublicationTyped /\ attempt > 0 /\ DirectoryTyped /\ doomed \in Seq(Names)
  BY <1>1, RunningIsUnacknowledged DEF StoreInv, PublicationTyped
<1>3. /\ name \in Names /\ name = doomed[1] /\ 1 \in DOMAIN doomed
      /\ doomed' \in Seq(Names)
      /\ \A i \in DOMAIN doomed' : i + 1 \in DOMAIN doomed /\ doomed'[i] = doomed[i + 1]
      /\ \A i \in DOMAIN doomed : i # 1 => i - 1 \in DOMAIN doomed' /\ doomed'[i - 1] = doomed[i]
  BY <1>1, <1>2
<1>4. name # Manifest /\ (Published => \A f \in DataFiles : name # Final(f))
  BY <1>1, <1>3 DEF StoreInv, CleanupSpares
<1> HIDE DEF name
<1>5. /\ DirectoryTyped' /\ UNCHANGED <<content, durable>>
      /\ dir'[name] = Absent
      /\ \A n \in Names : n # name \/ dir[name] = Absent => Untouched(n)
  <2>1. CASE dir[name] = Absent
    <3>1. UNCHANGED <<dir, disk, updates, content, durable>>
      BY <1>1, <2>1 DEF Unlink
    <3> QED BY <1>2, <2>1, <3>1 DEF DirectoryTyped, Untouched
  <2>2. CASE dir[name] # Absent
    <3> DEFINE S == {name}
               change == [n \in S |-> Absent]
    <3>1. Change(change) /\ UNCHANGED <<content, durable>>
      BY <1>1, <2>2 DEF Unlink
    <3>2. S \in SUBSET Names /\ change \in [S -> Files \cup {Absent}]
      BY <1>3
    <3>3. /\ dir' \in Directories /\ disk' \in Directories /\ updates' \in Seq(Changes)
          /\ \A n \in Names \ S : Untouched(n)
          /\ \A n \in S : dir'[n] = change[n]
      <4> HIDE DEF change, S
      <4> QED BY <1>2, <3>1, <3>2, ChangeShape
    <3>4. DirectoryTyped'
      BY <1>2, <3>1, <3>3 DEF DirectoryTyped
    <3> QED BY <2>2, <3>1, <3>3, <3>4
  <2> QED BY <2>1, <2>2
<1>6. Published' = Published /\ ManifestStays' /\ PublishedIsSealed' /\ TemporariesOwn'
  <2>1. Manifest \in Names /\ \A f \in AllFiles : Tmp(f) \in Names /\ Final(f) \in Names
    BY <1>2, NamesAndFiles DEF Manifest
  <2>2. DataFiles \subseteq AllFiles
    BY <1>2, NamesAndFiles
  <2>3. Untouched(Manifest) /\ (Published => \A f \in DataFiles : Untouched(Final(f)))
    BY <1>4, <1>5, <2>1, <2>2
  <2>4. ASSUME NEW f \in AllFiles \ (DataFiles \cup {"manifest"}) PROVE Untouched(Tmp(f))
    <3>1. dir[Tmp(f)] = Absent
      BY DEF StoreInv, TemporariesOwn
    <3> QED BY <1>5, <2>1, <3>1
  <2>5. \A g \in Files : durable[g] \subseteq durable'[g]
    BY <1>5
  <2> QED BY <1>1, <1>5, <2>3, <2>4, <2>5, QuietStep
<1>7. PublicationTyped' /\ Progress' /\ AcknowledgedStays' /\ DataFiles' = DataFiles /\ Program' = Program
  BY <1>1, <1>3, HandlerStep
<1>8. PublishedPhases'
  BY <1>1, <1>6, <1>7 DEF StoreInv, PublishedPhases
<1>9. CleanupSpares' /\ FailuresLeaveNoTemporaries'
  <2>1. ASSUME NEW i \in DOMAIN doomed'
        PROVE  /\ doomed'[i] # Manifest
               /\ Published => \A f \in DataFiles : doomed'[i] # Final(f)
    <3>1. i + 1 \in DOMAIN doomed /\ doomed'[i] = doomed[i + 1]
      BY <1>3
    <3> QED BY <1>1, <3>1 DEF StoreInv, CleanupSpares
  <2>2. Manifest' = Manifest /\ \A f : Final(f)' = Final(f)
    BY DEF Manifest, Final
  <2>3. CleanupSpares'
    BY <1>6, <1>7, <2>1, <2>2 DEF CleanupSpares
  <2> QED BY <1>1, <2>3 DEF FailuresLeaveNoTemporaries
<1>10. TemporariesDoomed'
  <2> SUFFICES ASSUME NEW f \in AllFiles, dir'[Tmp(f)] # Absent
               PROVE  \E i \in DOMAIN doomed' : doomed'[i] = Tmp(f)
    BY DEF TemporariesDoomed, Tmp
  <2>1. Tmp(f) \in Names /\ Tmp(f) # name
    BY <1>2, <1>5, NamesAndFiles
  <2>2. dir[Tmp(f)] # Absent
    BY <1>5, <2>1 DEF Untouched
  <2>3. PICK i \in DOMAIN doomed : doomed[i] = Tmp(f)
    BY <1>1, <2>2 DEF StoreInv, TemporariesDoomed
  <2>4. i # 1
    BY <1>3, <2>1, <2>3
  <2> QED BY <1>3, <2>3, <2>4
<1> QED BY <1>5, <1>6, <1>7, <1>8, <1>9, <1>10 DEF StoreInv

LEMMA ReraiseKeeps == ASSUME StoreInv, Reraise PROVE StoreInv'
<1>1. /\ phase = "cleaning" /\ doomed = <<>> /\ phase' = "raised"
      /\ UNCHANGED <<directoryVars, writer, attempt, at, doomed, acknowledged>>
  BY DEF Reraise
<1>2. doomed' \in Seq(Names)
  BY <1>1 DEF StoreInv, PublicationTyped
<1>3. DirectoryTyped' /\ Published' = Published /\ ManifestStays' /\ PublishedIsSealed' /\ TemporariesOwn'
  BY <1>1, NothingWritten
<1>4. PublicationTyped' /\ Progress' /\ AcknowledgedStays'
  BY <1>1, <1>2, HandlerStep
<1>5. PublishedPhases' /\ CleanupSpares' /\ TemporariesDoomed'
  BY <1>1 DEF PublishedPhases, CleanupSpares, TemporariesDoomed
<1>6. FailuresLeaveNoTemporaries'
  <2>1. \A f \in AllFiles : dir[Tmp(f)] = Absent
    BY <1>1 DEF StoreInv, TemporariesDoomed
  <2> QED BY <1>1, <2>1 DEF FailuresLeaveNoTemporaries, directoryVars, Tmp
<1> QED BY <1>3, <1>4, <1>5, <1>6 DEF StoreInv

-----------------------------------------------------------------------------
(* A new attempt, and a crash. *)

LEMMA OpenKeeps == ASSUME StoreInv, Open PROVE StoreInv'
<1> DEFINE S == {Tmp(f) : f \in DataFiles}
           change == [n \in S |-> <<n[1], attempt + 1>>]
<1>1. /\ ~Published /\ attempt < MaxAttempts /\ attempt' = attempt + 1 /\ phase' = "running" /\ at' = 0
      /\ Change(change) /\ UNCHANGED <<content, durable>> /\ UNCHANGED <<writer, doomed, acknowledged>>
  BY DEF Open, Create, Published, Manifest
<1>2. PublicationTyped /\ DirectoryTyped /\ acknowledged = 0
  BY <1>1 DEF StoreInv, AcknowledgedStays
<1>3. attempt + 1 \in Attempts /\ attempt \in Nat
  BY <1>1, <1>2, PublicationAssumption DEF PublicationTyped, Attempts
<1>4. /\ DataFiles \subseteq AllFiles
      /\ \A f \in AllFiles : Tmp(f) \in Names /\ Final(f) \in Names
      /\ \A f, g \in AllFiles : Tmp(f) # Final(g) /\ (Tmp(f) = Tmp(g) => f = g)
      /\ "manifest" \in AllFiles
  BY <1>2, NamesAndFiles
<1>5. S \in SUBSET Names /\ change \in [S -> Files \cup {Absent}]
  <2>1. \A n \in S : n[1] \in AllFiles
    BY <1>4 DEF Tmp
  <2> QED BY <1>3, <1>4, <2>1 DEF Files
<1>6. /\ Manifest \in Names \ S
      /\ \A f \in AllFiles \ (DataFiles \cup {"manifest"}) : Tmp(f) \in Names \ S
      /\ \A f \in DataFiles : Tmp(f) \in S /\ change[Tmp(f)] = <<f, attempt + 1>>
  BY <1>4 DEF Manifest, Tmp
<1>7. /\ dir' \in Directories /\ disk' \in Directories /\ updates' \in Seq(Changes)
      /\ \A n \in Names \ S : Untouched(n)
      /\ \A n \in S : dir'[n] = change[n]
  <2> HIDE DEF change, S
  <2> QED BY <1>1, <1>2, <1>5, ChangeShape
<1>8. DirectoryTyped'
  BY <1>1, <1>2, <1>7 DEF DirectoryTyped
<1>9. Untouched(Manifest) /\ ~Published'
  <2>1. Untouched(Manifest)
    BY <1>6, <1>7
  <2> QED BY <1>1, <2>1 DEF Untouched, Published, Manifest, Final
<1>10. DataFiles' = DataFiles /\ SealAt' = SealAt /\ \A f : Mine(f)' = <<f, attempt + 1>>
  BY <1>1 DEF DataFiles, SealAt, Mine
<1>11. PublicationTyped'
  <2>1. Program' = Program /\ Len(Program) \in Nat
    BY <1>1, <1>2, AtIsNatural DEF Program
  <2>2. attempt' \in 0 .. MaxAttempts /\ attempt' > 0 /\ 0 \in 0 .. attempt' /\ 0 \in 0 .. Len(Program)
    BY <1>1, <1>3, <2>1, PublicationAssumption DEF Attempts
  <2> QED BY <1>1, <1>2, <2>1, <2>2 DEF PublicationTyped, Phases
<1>12. ManifestStays'
  <2>1. disk'[Manifest] = Absent /\ Settled(Manifest)'
    <3>1. disk[Manifest] = Absent /\ dir[Manifest] = Absent /\ Settled(Manifest)
      BY <1>1 DEF StoreInv, ManifestStays, Published
    <3> QED BY <1>9, <3>1, UntouchedSettled DEF Untouched
  <2> QED BY <2>1 DEF ManifestStays, Settled, Manifest, Final
<1>13. PublishedIsSealed' /\ PublishedPhases' /\ AcknowledgedStays'
  BY <1>1, <1>2, <1>9 DEF PublishedIsSealed, PublishedPhases, AcknowledgedStays
<1>14. CleanupSpares' /\ TemporariesDoomed' /\ FailuresLeaveNoTemporaries'
  BY <1>1 DEF CleanupSpares, TemporariesDoomed, FailuresLeaveNoTemporaries
<1>15. TemporariesOwn'
  <2> SUFFICES ASSUME NEW f \in AllFiles \ (DataFiles \cup {"manifest"})
               PROVE  dir'[Tmp(f)] = Absent /\ disk'[Tmp(f)] = Absent /\ Settled(Tmp(f))'
    BY <1>10 DEF TemporariesOwn, Tmp
  <2>1. dir[Tmp(f)] = Absent /\ disk[Tmp(f)] = Absent /\ Settled(Tmp(f)) /\ Untouched(Tmp(f))
    BY <1>6, <1>7 DEF StoreInv, TemporariesOwn
  <2> QED BY <2>1, UntouchedSettled DEF Untouched
<1>16. Progress'
  <2>1. SealAt \in Nat
    BY <1>2, AtIsNatural
  <2>2. ManifestProgress'
    BY <1>1, <1>10, <2>1 DEF ManifestProgress
  <2>3. ASSUME NEW f \in DataFiles PROVE DataProgress(f)'
    <3>1. dir'[Tmp(f)] = <<f, attempt + 1>>
      <4> HIDE DEF change, S
      <4> QED BY <1>6, <1>7
    <3>2. SyncAt(f) \in Nat /\ ReplaceAt(f) \in Nat
      BY <1>2, Positions
    <3>3. SyncAt(f)' = SyncAt(f) /\ ReplaceAt(f)' = ReplaceAt(f) /\ Tmp(f)' = Tmp(f)
      BY DEF SyncAt, ReplaceAt, Tmp
    <3>4. ~(0 > ReplaceAt(f)) /\ ~(0 > SyncAt(f)) /\ ~(0 > 0)
      BY <3>2
    <3> QED BY <1>1, <1>10, <3>1, <3>3, <3>4 DEF DataProgress
  <2> QED BY <1>10, <2>2, <2>3 DEF Progress
<1> QED BY <1>8, <1>11, <1>12, <1>13, <1>14, <1>15, <1>16 DEF StoreInv

\* Whatever order the disk keeps the changes in: a manifest that survives is the
\* one that was there, and its data was on the disk before it.
LEMMA CrashKeeps == ASSUME StoreInv, Crash PROVE StoreInv'
<1>1. FsCrash /\ phase' = "none" /\ at' = 0 /\ doomed' = <<>> /\ UNCHANGED <<writer, attempt, acknowledged>>
  BY DEF Crash
<1>2. PublicationTyped /\ DirectoryTyped
  BY DEF StoreInv
<1>3. /\ DirectoryTyped'
      /\ \A n \in Names : \/ dir'[n] = disk[n]
                          \/ \E i \in DOMAIN updates :
                               n \in DOMAIN updates[i] /\ dir'[n] = updates[i][n]
      /\ disk' = dir' /\ updates' = <<>>
      /\ \A f \in Files : durable[f] \subseteq durable'[f]
  BY <1>1, <1>2, CrashShape
<1>4. ASSUME NEW n \in Names, Settled(n) PROVE dir'[n] = disk[n]
  BY <1>3, <1>4 DEF Settled
<1>5. \A n : Settled(n)'
  BY <1>3 DEF Settled
<1>6. /\ DataFiles \subseteq AllFiles /\ Manifest \in Names
      /\ \A f \in AllFiles : Tmp(f) \in Names /\ Final(f) \in Names
  BY <1>2, NamesAndFiles DEF Manifest
<1>7. DataFiles' = DataFiles /\ Program' = Program /\ \A f : Mine(f)' = Mine(f)
  BY <1>1, SameAttempt
<1>8. PublicationTyped'
  <2>1. 0 \in 0 .. Len(Program)
    BY <1>2, AtIsNatural
  <2> QED BY <1>1, <1>2, <1>7, <2>1 DEF PublicationTyped, Phases
<1>9. ManifestStays'
  BY <1>3, <1>5 DEF ManifestStays, Manifest, Final
<1>10. dir'[Manifest] # Absent => Published /\ dir'[Manifest] = dir[Manifest]
  BY <1>3, <1>6 DEF StoreInv, ManifestStays, Published
<1>11. PublishedIsSealed'
  <2> SUFFICES ASSUME dir'[Manifest] # Absent
               PROVE  /\ attempt > 0 /\ dir'[Manifest] = Mine("manifest")
                      /\ durable'[Mine("manifest")] # {} /\ DataSealed'
    BY <1>1, <1>7 DEF PublishedIsSealed, Published, Manifest, Final
  <2>1. /\ attempt > 0 /\ dir[Manifest] = Mine("manifest") /\ durable[Mine("manifest")] # {} /\ DataSealed
        /\ dir'[Manifest] = dir[Manifest]
    BY <1>10 DEF StoreInv, PublishedIsSealed
  <2>2. \A f \in AllFiles : Mine(f) \in Files
    BY <1>2, <2>1, NamesAndFiles
  <2>3. ASSUME NEW f \in DataFiles
        PROVE  /\ dir'[Final(f)] = Mine(f) /\ disk'[Final(f)] = Mine(f)
               /\ Settled(Final(f))' /\ durable'[Mine(f)] = Pages
    <3>1. Final(f) \in Names /\ Settled(Final(f)) /\ disk[Final(f)] = Mine(f) /\ durable[Mine(f)] = Pages
      BY <1>6, <2>1 DEF DataSealed
    <3>2. durable'[Mine(f)] = Pages
      <4>1. Mine(f) \in Files
        BY <1>6, <2>2
      <4>2. durable'[Mine(f)] \subseteq Pages
        BY <1>3, <4>1 DEF DirectoryTyped, Contents
      <4> QED BY <1>3, <3>1, <4>1, <4>2
    <3> QED BY <1>3, <1>4, <1>5, <3>1, <3>2
  <2>4. DataSealed'
    BY <1>7, <2>3 DEF DataSealed, Final
  <2>5. durable'[Mine("manifest")] # {}
    BY <1>3, <2>1, <2>2 DEF AllFiles
  <2> QED BY <2>1, <2>4, <2>5
<1>12. AcknowledgedStays'
  <2> SUFFICES ASSUME acknowledged # 0
               PROVE  acknowledged = attempt /\ dir'[Manifest] # Absent
    BY <1>1, <1>3, <1>5 DEF AcknowledgedStays, Published, Manifest, Final
  <2>1. /\ acknowledged = attempt /\ dir[Manifest] # Absent
        /\ disk[Manifest] = dir[Manifest] /\ Settled(Manifest)
    BY DEF StoreInv, AcknowledgedStays, Published
  <2> QED BY <1>4, <1>6, <2>1
<1>13. TemporariesOwn'
  <2> SUFFICES ASSUME NEW f \in AllFiles \ (DataFiles \cup {"manifest"})
               PROVE  dir'[Tmp(f)] = Absent /\ disk'[Tmp(f)] = Absent /\ Settled(Tmp(f))'
    BY <1>7 DEF TemporariesOwn, Tmp
  <2>1. disk[Tmp(f)] = Absent /\ Settled(Tmp(f)) /\ Tmp(f) \in Names
    BY <1>6 DEF StoreInv, TemporariesOwn
  <2> QED BY <1>3, <1>4, <1>5, <2>1
<1>14. /\ PublishedPhases' /\ CleanupSpares' /\ Progress'
       /\ TemporariesDoomed' /\ FailuresLeaveNoTemporaries'
  BY <1>1 DEF PublishedPhases, CleanupSpares, Progress, TemporariesDoomed, FailuresLeaveNoTemporaries
<1> QED BY <1>3, <1>8, <1>9, <1>11, <1>12, <1>13, <1>14 DEF StoreInv

-----------------------------------------------------------------------------
(* The whole specification. *)

LEMMA InitStoreInv == ASSUME Init PROVE StoreInv
<1> USE PublicationAssumption DEF Init, FsInit
<1>1. dir \in Directories /\ disk \in Directories /\ \A n \in Names : dir[n] = Absent /\ disk[n] = Absent
  BY DEF EmptyDirectory, Directories
<1>2. DirectoryTyped
  BY <1>1 DEF DirectoryTyped, Contents
<1>3. PublicationTyped
  <2>1. writer \in {"output", "qkv"}
    OBVIOUS
  <2>2. Len(Program) \in Nat
    BY <2>1, OutputProgram, BuilderProgram
  <2>3. 0 \in 0 .. Len(Program) /\ 0 \in 0 .. MaxAttempts /\ 0 \in 0 .. 0
    BY <2>2
  <2> QED BY <2>3 DEF PublicationTyped, Phases
<1>4. Manifest \in Names /\ \A f \in AllFiles : Tmp(f) \in Names
  BY <1>3, NamesAndFiles DEF Manifest
<1>5. ~Published /\ \A n : Settled(n)
  BY <1>1, <1>4 DEF Published, Settled
<1>6. ManifestStays /\ PublishedIsSealed /\ PublishedPhases
  BY <1>1, <1>4, <1>5 DEF ManifestStays, PublishedIsSealed, PublishedPhases
<1>7. TemporariesOwn
  BY <1>1, <1>4, <1>5 DEF TemporariesOwn
<1>8. CleanupSpares /\ Progress /\ AcknowledgedStays /\ TemporariesDoomed /\ FailuresLeaveNoTemporaries
  BY DEF CleanupSpares, Progress, AcknowledgedStays, TemporariesDoomed, FailuresLeaveNoTemporaries
<1> QED BY <1>2, <1>3, <1>6, <1>7, <1>8 DEF StoreInv

LEMMA NextKeepsStoreInv ==
  ASSUME "output" \notin SealingRaises, StoreInv, [Next]_vars PROVE StoreInv'
<1>1. CASE Open
  BY <1>1, OpenKeeps
<1>2. CASE Step
  <2>1. CASE AllWritten
    BY <2>1, AllWrittenKeeps
  <2>2. CASE FsyncDir
    BY <2>2, FsyncDirKeeps
  <2>3. CASE CreateManifest
    BY <2>3, CreateManifestKeeps
  <2>4. CASE WriteManifest
    BY <2>4, WriteManifestKeeps
  <2>5. CASE \E f \in DataFiles, p \in Pages : WritePage(f, p)
    BY <2>5, WritePageKeeps
  <2>6. CASE \E f \in DataFiles \cup {"manifest"} : FsyncFile(f)
    BY <2>6, FsyncDataKeeps, FsyncManifestKeeps
  <2>7. CASE \E f \in DataFiles \cup {"manifest"} : Replace(f)
    BY <2>7, ReplaceDataKeeps, ReplaceManifestKeeps
  <2> QED BY <1>2, <2>1, <2>2, <2>3, <2>4, <2>5, <2>6, <2>7 DEF Step
<1>3. CASE Raise
  BY <1>3, RaiseKeeps
<1>4. CASE Handler
  BY <1>4, CloseFilesKeeps, CloseRaisesKeeps, UnlinkNextKeeps, ReraiseKeeps DEF Handler
<1>5. CASE Crash
  BY <1>5, CrashKeeps
<1>6. CASE UNCHANGED vars
  <2>1. UNCHANGED <<directoryVars, writer, attempt>> /\ UNCHANGED <<dir, phase, at, doomed, acknowledged, content, durable, updates, disk>>
    BY <1>6 DEF vars, publicationVars, directoryVars
  <2>2. DirectoryTyped' /\ Published' = Published /\ ManifestStays' /\ PublishedIsSealed' /\ TemporariesOwn'
    BY <2>1, NothingWritten
  <2>3. DataFiles' = DataFiles /\ Program' = Program /\ SealAt' = SealAt /\ \A f : Mine(f)' = Mine(f)
    BY <2>1, SameAttempt
  <2>4. PublicationTyped' /\ PublishedPhases' /\ CleanupSpares'
    BY <2>1, <2>2, <2>3 DEF StoreInv, PublicationTyped, PublishedPhases, CleanupSpares, Manifest, Final
  <2>5. AcknowledgedStays' /\ TemporariesDoomed' /\ FailuresLeaveNoTemporaries'
    BY <2>1, <2>2 DEF StoreInv, AcknowledgedStays, TemporariesDoomed, FailuresLeaveNoTemporaries,
                      Settled, Manifest, Final, Tmp
  <2>6. Progress'
    <3>1. DataSealed => DataSealed'
      BY <2>1, <2>3 DEF DataSealed, Settled, Final
    <3>2. ASSUME NEW f, DataProgress(f) PROVE DataProgress(f)'
      BY <2>1, <2>3, <3>2 DEF DataProgress, SyncAt, ReplaceAt, Tmp, Final
    <3>3. ManifestProgress => ManifestProgress'
      BY <2>1, <2>2, <2>3, <3>1 DEF ManifestProgress, Tmp
    <3> QED BY <2>1, <2>3, <3>2, <3>3 DEF StoreInv, Progress
  <2> QED BY <2>2, <2>4, <2>5, <2>6 DEF StoreInv
<1> QED BY <1>1, <1>2, <1>3, <1>4, <1>5, <1>6 DEF Next

\* Every state of a writer whose store is not removed after it was published
\* satisfies the inductive invariant.
THEOREM StoreInvariant == ASSUME "output" \notin SealingRaises PROVE Spec => []StoreInv
<1>1. Init => StoreInv
  BY InitStoreInv
<1>2. StoreInv /\ [Next]_vars => StoreInv'
  BY NextKeepsStoreInv
<1> QED BY <1>1, <1>2, PTL DEF Spec

\* A published manifest describes the data of its attempt.
LEMMA PublishedIsComplete == ASSUME StoreInv, Published PROVE Complete(attempt)
<1>1. /\ PublicationTyped /\ DirectoryTyped /\ attempt > 0 /\ dir[Manifest] = Mine("manifest")
      /\ durable[Mine("manifest")] # {} /\ DataSealed
  BY DEF StoreInv, PublishedIsSealed
<1>2. \A f \in AllFiles : Mine(f) \in Files /\ Mine(f) = <<f, attempt>>
  BY <1>1, NamesAndFiles DEF Mine
<1>3. DataFiles \subseteq AllFiles /\ "manifest" \in AllFiles
  BY <1>1, NamesAndFiles
<1>4. content[<<"manifest", attempt>>] # {} /\ dir[Final("manifest")] = <<"manifest", attempt>>
  BY <1>1, <1>2, <1>3 DEF DirectoryTyped, Manifest
<1>5. ASSUME NEW f \in DataFiles PROVE dir[Final(f)] = <<f, attempt>> /\ content[<<f, attempt>>] = Pages
  <2>1. dir[Final(f)] = Mine(f) /\ durable[Mine(f)] = Pages
    BY <1>1 DEF DataSealed
  <2>2. Mine(f) \in Files /\ Mine(f) = <<f, attempt>>
    BY <1>2, <1>3
  <2> QED BY <1>1, <2>1, <2>2 DEF DirectoryTyped, Contents
<1> QED BY <1>4, <1>5 DEF Complete

\* Every variable of the publication keeps its type.
THEOREM PublicationTypeCorrect == ASSUME "output" \notin SealingRaises PROVE Spec => []TypeOK
<1>1. StoreInv => TypeOK
  <2> SUFFICES ASSUME StoreInv PROVE TypeOK
    OBVIOUS
  <2>1. \A i \in DOMAIN updates : DOMAIN updates[i] \subseteq Names
    BY DEF StoreInv, DirectoryTyped, Changes
  <2> QED BY <2>1 DEF StoreInv, DirectoryTyped, PublicationTyped, TypeOK, Directories, Contents, Phases
<1> QED BY <1>1, StoreInvariant, PTL

\* Wherever an attempt stops or the machine crashes, a manifest that is there
\* describes complete data files, all of the attempt that wrote it
\* (storage/output.py close, storage/qkv_writer.py write_pages).
THEOREM ManifestDescribesItsData ==
  ASSUME "output" \notin SealingRaises PROVE Spec => []ManifestImpliesData
<1>1. StoreInv => ManifestImpliesData
  <2> SUFFICES ASSUME StoreInv, Published PROVE Complete(dir[Final("manifest")][2])
    BY DEF ManifestImpliesData, Published, Manifest
  <2>1. dir[Final("manifest")][2] = attempt
    BY DEF StoreInv, PublishedIsSealed, Manifest, Mine
  <2> QED BY <2>1, PublishedIsComplete
<1> QED BY <1>1, StoreInvariant, PTL

\* A store whose writer returned is there for ever, through any number of
\* crashes and refused attempts.
THEOREM AcknowledgedStoresSurvive ==
  ASSUME "output" \notin SealingRaises PROVE Spec => []AcknowledgedSurvives
<1>1. StoreInv => AcknowledgedSurvives
  BY PublishedIsComplete DEF StoreInv, AcknowledgedStays, AcknowledgedSurvives
<1> QED BY <1>1, StoreInvariant, PTL

\* A writer that raised has unlinked every temporary file, those of crashed
\* attempts included.
THEOREM FailedWritersCleanUp ==
  ASSUME "output" \notin SealingRaises PROVE Spec => []FailuresLeaveNoTemporaries
<1>1. StoreInv => FailuresLeaveNoTemporaries
  BY DEF StoreInv
<1> QED BY <1>1, StoreInvariant, PTL
=============================================================================
