---------------------------- MODULE ArtifactStore ----------------------------
(***************************************************************************)
(* The content-addressed artifact store of krusty-build (store.rs), as the *)
(* builds that share it use it: look a key up, compile on a miss, put the  *)
(* result.  Builders are processes; any of them may be killed anywhere.    *)
(*                                                                         *)
(* One key is modelled: keys share nothing but the directory they live in, *)
(* and builds that agree on the key agree on the bytes.  A file's contents *)
(* are the right ones ("good"), other ones ("bad"), not there, or cannot   *)
(* be read ("unreadable": a disk fault, a lost permission, and for the     *)
(* MANIFEST, which is read as text, bytes that are not UTF-8); SHA-256     *)
(* tells the first two apart.  Damage stays until the file is replaced or  *)
(* removed.  Directories are moved by rename(2), and a garbage collection  *)
(* in progress keeps deleting in a directory that is renamed under it      *)
(* (remove_dir_all holds it open).  Staging directories of killed builds   *)
(* are never looked at again, so they are dropped here.                    *)
(***************************************************************************)
EXTENDS Naturals

CONSTANTS
  Builders,    \* the builds that share the store
  NFiles,      \* how many artifacts the module has
  MaxDamage,   \* how many times the disk, or somebody, damages the entry
  MaxKills,    \* how many times a build is killed
  MaxCollections  \* how many directories gc_older_than comes to delete

File == 1 .. NFiles

ASSUME StoreAssumption ==
  /\ Builders \cap {"idle", "entry", "moved"} = {}
  /\ NFiles \in Nat \ {0}
  /\ MaxDamage \in Nat
  /\ MaxKills \in Nat
  /\ MaxCollections \in Nat

VARIABLES
  entry,    \* the directory <root>/v3/<key>
  staging,  \* staging[b]: the staging directory of builder b's put
  pc,       \* pc[b]: where builder b is
  goal,     \* goal[b]: why b reads the entry, "lookup" or "verify"
  file,     \* file[b]: the artifact b reads or writes next
  got,      \* got[b]: what b has read of each artifact
  gc,       \* the directory a collection is deleting
  damages,  \* how often the entry was damaged
  kills,    \* how often a build was killed
  collections  \* how many directories were collected, or began to be

vars == <<entry, staging, pc, goal, file, got, gc, damages, kills, collections>>
dirVars == <<entry, staging>>
worldVars == <<gc, damages, kills, collections>>

Nothing == [f \in File |-> "missing"]
NoDir == [exists |-> FALSE, manifest |-> "none", files |-> Nothing]
EmptyDir == [NoDir EXCEPT !.exists = TRUE]

IsEmpty(dir) == dir.manifest = "none" /\ dir.files = Nothing
Complete(dir) == /\ dir.exists
                 /\ dir.manifest = "good"
                 /\ \A f \in File : dir.files[f] = "good"

Init ==
  /\ entry = NoDir
  /\ staging = [b \in Builders |-> NoDir]
  /\ pc = [b \in Builders |-> "idle"]
  /\ goal = [b \in Builders |-> "lookup"]
  /\ file = [b \in Builders |-> 1]
  /\ got = [b \in Builders |-> Nothing]
  /\ gc = "idle"
  /\ damages = 0
  /\ kills = 0
  /\ collections = 0

\* A lookup of this directory comes upon something it cannot read before it
\* comes upon a reason for a miss.
Unreadable(dir) ==
  /\ dir.exists
  /\ \/ dir.manifest = "unreadable"
     \/ /\ dir.manifest = "good"
        /\ \E f \in File : /\ dir.files[f] = "unreadable"
                           /\ \A g \in File : g < f => dir.files[g] = "good"

Goto(b, where) == pc' = [pc EXCEPT ![b] = where]

-----------------------------------------------------------------------------
(* get.                                                                    *)

\* A build begins with a lookup.
Lookup(b) ==
  /\ pc[b] = "idle"
  /\ Goto(b, "open")
  /\ goal' = [goal EXCEPT ![b] = "lookup"]
  /\ got' = [got EXCEPT ![b] = Nothing]
  /\ UNCHANGED <<dirVars, file, worldVars>>

\* What follows a miss: a lookup compiles and puts, a put replaces the entry.
AfterMiss(b) == IF goal[b] = "lookup" THEN "put" ELSE "quarantine"
\* What follows a hit: the lookup is done, and so is the put.
AfterHit(b) == IF goal[b] = "lookup" THEN "hit" ELSE "stored"

\* if !dir.is_dir(): MissReason::Absent.
OpenEntry(b) ==
  /\ pc[b] = "open"
  /\ Goto(b, IF entry.exists THEN "manifest" ELSE AfterMiss(b))
  /\ UNCHANGED <<dirVars, goal, file, got, worldVars>>

\* NoManifest, MalformedManifest, the list of files to read, or the error,
\* which ends the lookup, or the put, and with it the build.
ReadManifest(b) ==
  /\ pc[b] = "manifest"
  /\ Goto(b, CASE entry.manifest = "good" -> "read"
               [] entry.manifest = "unreadable" -> "failed"
               [] OTHER -> AfterMiss(b))
  /\ file' = [file EXCEPT ![b] = 1]
  /\ UNCHANGED <<dirVars, goal, got, worldVars>>

\* Mutant: the bytes are not compared with the manifest.
ReadFileUnverified(b) ==
  /\ pc[b] = "read"
  /\ got' = [got EXCEPT ![b][file[b]] = entry.files[file[b]]]
  /\ Goto(b, CASE entry.files[file[b]] = "missing" -> AfterMiss(b)
               [] entry.files[file[b]] = "unreadable" -> "failed"
               [] OTHER -> IF file[b] = NFiles THEN AfterHit(b) ELSE "read")
  /\ file' = [file EXCEPT ![b] = IF file[b] = NFiles THEN 1 ELSE file[b] + 1]
  /\ UNCHANGED <<dirVars, goal, worldVars>>

\* The next file of the manifest: missing or different means CorruptEntry,
\* and any other error of the read ends the lookup, or the put.
ReadFile(b) ==
  /\ pc[b] = "read"
  /\ got' = [got EXCEPT ![b][file[b]] = entry.files[file[b]]]
  /\ Goto(b, CASE entry.files[file[b]] = "good" ->
                    IF file[b] = NFiles THEN AfterHit(b) ELSE "read"
               [] entry.files[file[b]] = "unreadable" -> "failed"
               [] OTHER -> AfterMiss(b))
  /\ file' = [file EXCEPT ![b] = IF file[b] = NFiles THEN 1 ELSE file[b] + 1]
  /\ UNCHANGED <<dirVars, goal, worldVars>>

-----------------------------------------------------------------------------
(* put.                                                                    *)

\* Mutant: an entry that is already there is left alone, healthy or not.
PutUnlessPresent(b) ==
  /\ pc[b] = "put"
  /\ Goto(b, IF entry.exists THEN "stored" ELSE "mkdir")
  /\ goal' = [goal EXCEPT ![b] = "verify"]
  /\ UNCHANGED <<dirVars, file, got, worldVars>>

\* An entry that is already there is read to see whether it is healthy.
Put(b) ==
  /\ pc[b] = "put"
  /\ Goto(b, IF entry.exists THEN "open" ELSE "mkdir")
  /\ goal' = [goal EXCEPT ![b] = "verify"]
  /\ UNCHANGED <<dirVars, file, got, worldVars>>

\* What a collection is deleting in when the entry, or b's staging
\* directory, is renamed.
GcAfterQuarantine == IF gc \in {"entry", "moved"} THEN "idle" ELSE gc
GcAfterPublish(b) == IF gc = b THEN "moved" ELSE gc

\* rename(final, .damaged-...): whatever entry is there now is set aside.
Quarantine(b) ==
  /\ pc[b] = "quarantine"
  /\ entry' = NoDir
  /\ gc' = GcAfterQuarantine
  /\ Goto(b, IF entry.exists THEN "mkdir" ELSE "quarantineLost")
  /\ UNCHANGED <<staging, goal, file, got, damages, kills, collections>>

\* The rename failed: somebody else dealt with the damaged entry.
QuarantineLost(b) ==
  /\ pc[b] = "quarantineLost"
  /\ Goto(b, IF entry.exists THEN "stored" ELSE "mkdir")
  /\ UNCHANGED <<dirVars, goal, file, got, worldVars>>

MakeStaging(b) ==
  /\ pc[b] = "mkdir"
  /\ staging' = [staging EXCEPT ![b] = EmptyDir]
  /\ file' = [file EXCEPT ![b] = 1]
  /\ Goto(b, "parent")
  /\ UNCHANGED <<entry, goal, got, worldVars>>

\* create_dir_all(parent), which also brings back a staging directory that
\* was deleted meanwhile.
MakeParent(b) ==
  /\ pc[b] = "parent"
  /\ staging' = [staging EXCEPT ![b].exists = TRUE]
  /\ Goto(b, "write")
  /\ UNCHANGED <<entry, goal, file, got, worldVars>>

\* Mutant: the last artifact is written after the entry is published.
WriteFileOneShort(b) ==
  /\ pc[b] = "write"
  /\ staging[b].exists
  /\ staging' = [staging EXCEPT ![b].files[file[b]] = "good"]
  /\ Goto(b, IF file[b] + 1 >= NFiles THEN "seal" ELSE "parent")
  /\ file' = [file EXCEPT ![b] = IF file[b] = NFiles THEN 1 ELSE file[b] + 1]
  /\ UNCHANGED <<entry, goal, got, worldVars>>

WriteFile(b) ==
  /\ pc[b] = "write"
  /\ staging[b].exists
  /\ staging' = [staging EXCEPT ![b].files[file[b]] = "good"]
  /\ Goto(b, IF file[b] = NFiles THEN "seal" ELSE "parent")
  /\ file' = [file EXCEPT ![b] = IF file[b] = NFiles THEN 1 ELSE file[b] + 1]
  /\ UNCHANGED <<entry, goal, got, worldVars>>

\* MANIFEST is created last, then written.
SealOpen(b) ==
  /\ pc[b] = "seal"
  /\ staging[b].exists
  /\ staging' = [staging EXCEPT ![b].manifest = "torn"]
  /\ Goto(b, "sealing")
  /\ UNCHANGED <<entry, goal, file, got, worldVars>>

SealWrite(b) ==
  /\ pc[b] = "sealing"
  /\ staging' = [staging EXCEPT ![b].manifest = IF @ = "torn" THEN "good" ELSE @]
  /\ Goto(b, "publish")
  /\ UNCHANGED <<entry, goal, file, got, worldVars>>

\* A write whose directory is gone: put returns the error.
WriteFails(b) ==
  /\ pc[b] \in {"write", "seal"}
  /\ ~staging[b].exists
  /\ Goto(b, "failed")
  /\ UNCHANGED <<dirVars, goal, file, got, worldVars>>

\* rename(staging, final) succeeds when nothing, or an empty directory, is
\* in the way.
Publish(b) ==
  /\ pc[b] = "publish"
  /\ staging[b].exists
  /\ entry.exists => IsEmpty(entry)
  /\ entry' = staging[b]
  /\ staging' = [staging EXCEPT ![b] = NoDir]
  /\ gc' = GcAfterPublish(b)
  /\ Goto(b, "stored")
  /\ UNCHANGED <<goal, file, got, damages, kills, collections>>

\* It fails when an entry is in the way or the staging directory is gone.
PublishLost(b) ==
  /\ pc[b] = "publish"
  /\ entry.exists \/ ~staging[b].exists
  /\ Goto(b, "publishLost")
  /\ UNCHANGED <<dirVars, goal, file, got, worldVars>>

\* Mutant: losing the race is an error.
PublishResolveStrict(b) ==
  /\ pc[b] = "publishLost"
  /\ staging' = [staging EXCEPT ![b] = NoDir]
  /\ gc' = IF gc = b THEN "idle" ELSE gc
  /\ Goto(b, "failed")
  /\ UNCHANGED <<entry, goal, file, got, damages, kills, collections>>

\* Another build's entry is as good as ours; with none there, put fails.
PublishResolve(b) ==
  /\ pc[b] = "publishLost"
  /\ staging' = [staging EXCEPT ![b] = NoDir]
  /\ gc' = IF gc = b THEN "idle" ELSE gc
  /\ Goto(b, IF entry.exists THEN "stored" ELSE "failed")
  /\ UNCHANGED <<entry, goal, file, got, damages, kills, collections>>

\* The build is over; the next one of this builder begins.
Again(b) ==
  /\ pc[b] \in {"hit", "stored", "failed"}
  /\ Goto(b, "idle")
  /\ UNCHANGED <<dirVars, goal, file, got, worldVars>>

-----------------------------------------------------------------------------
(* The world.                                                              *)

Kill(b) ==
  /\ kills < MaxKills
  /\ pc[b] # "idle"
  /\ kills' = kills + 1
  /\ staging' = [staging EXCEPT ![b] = NoDir]
  /\ gc' = IF gc = b THEN "idle" ELSE gc
  /\ Goto(b, "idle")
  /\ UNCHANGED <<entry, goal, file, got, damages, collections>>

DamageFile(f, how) ==
  /\ damages < MaxDamage
  /\ entry.exists /\ entry.files[f] = "good"
  /\ damages' = damages + 1
  /\ entry' = [entry EXCEPT !.files[f] = how]
  /\ UNCHANGED <<staging, pc, goal, file, got, gc, kills, collections>>

DamageManifest(how) ==
  /\ damages < MaxDamage
  /\ entry.exists /\ entry.manifest = "good"
  /\ damages' = damages + 1
  /\ entry' = [entry EXCEPT !.manifest = how]
  /\ UNCHANGED <<staging, pc, goal, file, got, gc, kills, collections>>

\* gc_older_than comes to a staging directory, leftover or not.
GcStaging(b) ==
  /\ collections < MaxCollections /\ gc = "idle"
  /\ collections' = collections + 1
  /\ staging[b].exists
  /\ gc' = b
  /\ UNCHANGED <<dirVars, pc, goal, file, got, damages, kills>>

\* It comes to the entry, which has no manifest or is too old.
GcEntry ==
  /\ collections < MaxCollections /\ gc = "idle"
  /\ collections' = collections + 1
  /\ entry.exists
  /\ gc' = "entry"
  /\ UNCHANGED <<dirVars, pc, goal, file, got, damages, kills>>

\* remove_dir_all unlinks what is in the directory, in any order.
Unlinked(dir) ==
  {[dir EXCEPT !.manifest = "none"]} \cup {[dir EXCEPT !.files[f] = "missing"] : f \in File}

GcUnlink ==
  /\ \/ /\ gc \in Builders
        /\ \E dir \in Unlinked(staging[gc]) : staging' = [staging EXCEPT ![gc] = dir]
        /\ UNCHANGED entry
     \/ /\ gc \in {"entry", "moved"}
        /\ \E dir \in Unlinked(entry) : entry' = dir
        /\ UNCHANGED staging
  /\ UNCHANGED <<pc, goal, file, got, worldVars>>

\* The emptied directory is removed, if it still has the name it had; a
\* directory that is not empty any more stays.
GcRemove ==
  /\ gc # "idle"
  /\ gc' = "idle"
  /\ staging' = IF gc \in Builders /\ IsEmpty(staging[gc])
                  THEN [staging EXCEPT ![gc] = NoDir] ELSE staging
  /\ entry' = IF gc = "entry" /\ IsEmpty(entry) THEN NoDir ELSE entry
  /\ UNCHANGED <<pc, goal, file, got, damages, kills, collections>>

Builder(b) ==
  \/ Lookup(b) \/ OpenEntry(b) \/ ReadManifest(b) \/ ReadFile(b)
  \/ Put(b) \/ Quarantine(b) \/ QuarantineLost(b)
  \/ MakeStaging(b) \/ MakeParent(b) \/ WriteFile(b) \/ SealOpen(b) \/ SealWrite(b)
  \/ WriteFails(b) \/ Publish(b) \/ PublishLost(b) \/ PublishResolve(b) \/ Again(b)

Collector == (\E b \in Builders : GcStaging(b)) \/ GcEntry \/ GcUnlink \/ GcRemove

Next ==
  \/ \E b \in Builders : Builder(b) \/ Kill(b)
  \/ \E f \in File, how \in {"bad", "missing", "unreadable"} : DamageFile(f, how)
  \/ \E how \in {"torn", "none", "unreadable"} : DamageManifest(how)
  \/ Collector

Spec == Init /\ [][Next]_vars

\* A build that was not killed keeps running.
FairSpec == Spec /\ \A b \in Builders : WF_vars(Builder(b))

-----------------------------------------------------------------------------
(* Properties.                                                             *)

Contents == {"missing", "bad", "unreadable", "good"}

Dir == [exists : BOOLEAN, manifest : {"none", "torn", "unreadable", "good"},
        files : [File -> Contents]]

TypeOK ==
  /\ entry \in Dir
  /\ staging \in [Builders -> Dir]
  /\ pc \in [Builders -> {"idle", "open", "manifest", "read", "put", "quarantine",
                          "quarantineLost", "mkdir", "parent", "write", "seal",
                          "sealing", "publish", "publishLost", "hit", "stored",
                          "failed"}]
  /\ goal \in [Builders -> {"lookup", "verify"}]
  /\ file \in [Builders -> File]
  /\ got \in [Builders -> [File -> Contents]]
  /\ gc \in {"idle", "entry", "moved"} \cup Builders
  /\ damages \in 0 .. MaxDamage
  /\ kills \in 0 .. MaxKills
  /\ collections \in 0 .. MaxCollections

\* A lookup that hits has read every artifact of the module with the right
\* bytes, whatever is damaged, replaced, collected or half deleted under it.
HitIsComplete ==
  \A b \in Builders : pc[b] = "hit" => \A f \in File : got[b][f] = "good"

\* As long as the disk is intact and nothing was collected, an entry is there
\* complete or not at all, wherever builds are killed and however they race.
PublishedComplete ==
  (damages = 0 /\ collections = 0 /\ entry.exists) => Complete(entry)

\* Neither builds that race nor builds that are killed ever make a build fail:
\* only damage or a collection does.
RacesAreHarmless ==
  (damages = 0 /\ collections = 0) => \A b \in Builders : pc[b] # "failed"

\* Once damage, kills and collections stop, the entry is complete for good: an
\* entry with missing, torn or different contents, wherever it was damaged and
\* whoever was reading or replacing it, is replaced and does not cost a
\* compilation on every build.  The one exception is damage that cannot be read:
\* get reports it as an error and not as a miss, put passes the error on, so
\* nothing replaces the entry and every build of the key fails.
Heals == <>[]Complete(entry) \/ <>[]Unreadable(entry)
=============================================================================
