------------------------- MODULE ArtifactStoreProofs -------------------------
(***************************************************************************)
(* Proofs about module ArtifactStore, for any number of builds and         *)
(* artifacts and every way they interleave.                                *)
(***************************************************************************)
EXTENDS ArtifactStore, TLAPS

-----------------------------------------------------------------------------
(* Type correctness.                                                       *)

\* Initially the state is well typed.
LEMMA TypeInit == Init => TypeOK
<1> USE StoreAssumption DEF StoreAssumption
<1>1. 1 \in File
  BY DEF File
<1>2. QED
  BY <1>1 DEF Init, TypeOK, Dir, Contents, NoDir, Nothing

\* Every step keeps the state well typed.
LEMMA TypeStep == TypeOK /\ [Next]_vars => TypeOK'
<1> SUFFICES ASSUME TypeOK, [Next]_vars PROVE TypeOK'
  OBVIOUS
<1>a. 1 \in File /\ NFiles \in File /\ \A i \in File : i # NFiles => i + 1 \in File
  BY StoreAssumption DEF StoreAssumption, File
<1>b. NoDir \in Dir /\ EmptyDir \in Dir /\ Nothing \in [File -> Contents]
  BY DEF NoDir, EmptyDir, Nothing, Dir, Contents
<1> USE StoreAssumption, <1>a, <1>b DEF StoreAssumption, TypeOK, Dir, Contents, dirVars, worldVars, Goto
<1>1. ASSUME NEW b \in Builders, Lookup(b) PROVE TypeOK'
  BY <1>1 DEF Lookup
<1>2. ASSUME NEW b \in Builders, OpenEntry(b) PROVE TypeOK'
  BY <1>2 DEF OpenEntry, AfterMiss
<1>3. ASSUME NEW b \in Builders, ReadManifest(b) PROVE TypeOK'
  BY <1>3 DEF ReadManifest, AfterMiss
<1>4. ASSUME NEW b \in Builders, ReadFile(b) PROVE TypeOK'
  BY <1>4 DEF ReadFile, AfterMiss, AfterHit
<1>5. ASSUME NEW b \in Builders, Put(b) PROVE TypeOK'
  BY <1>5 DEF Put
<1>6. ASSUME NEW b \in Builders, Quarantine(b) PROVE TypeOK'
  BY <1>6 DEF Quarantine, GcAfterQuarantine
<1>7. ASSUME NEW b \in Builders, QuarantineLost(b) PROVE TypeOK'
  BY <1>7 DEF QuarantineLost
<1>8. ASSUME NEW b \in Builders, MakeStaging(b) PROVE TypeOK'
  BY <1>8 DEF MakeStaging
<1>9. ASSUME NEW b \in Builders, MakeParent(b) PROVE TypeOK'
  <2>1. [staging[b] EXCEPT !.exists = TRUE] \in Dir
    BY <1>9 DEF MakeParent
  <2>2. staging' = [staging EXCEPT ![b] = [staging[b] EXCEPT !.exists = TRUE]]
    BY <1>9 DEF MakeParent
  <2>3. staging' \in [Builders -> Dir]
    BY <2>1, <2>2
  <2>4. QED
    BY <1>9, <2>3 DEF MakeParent
<1>10. ASSUME NEW b \in Builders, WriteFile(b) PROVE TypeOK'
  <2>1. [staging[b] EXCEPT !.files[file[b]] = "good"] \in Dir
    BY <1>10 DEF WriteFile
  <2>2. staging' = [staging EXCEPT ![b] = [staging[b] EXCEPT !.files[file[b]] = "good"]]
    BY <1>10 DEF WriteFile
  <2>3. staging' \in [Builders -> Dir]
    BY <2>1, <2>2
  <2>4. QED
    BY <1>10, <2>3 DEF WriteFile
<1>11. ASSUME NEW b \in Builders, SealOpen(b) PROVE TypeOK'
  <2>1. [staging[b] EXCEPT !.manifest = "torn"] \in Dir
    BY <1>11 DEF SealOpen
  <2>2. staging' = [staging EXCEPT ![b] = [staging[b] EXCEPT !.manifest = "torn"]]
    BY <1>11 DEF SealOpen
  <2>3. staging' \in [Builders -> Dir]
    BY <2>1, <2>2
  <2>4. QED
    BY <1>11, <2>3 DEF SealOpen
<1>12. ASSUME NEW b \in Builders, SealWrite(b) PROVE TypeOK'
  <2>1. [staging[b] EXCEPT !.manifest = IF @ = "torn" THEN "good" ELSE @] \in Dir
    BY <1>12 DEF SealWrite
  <2>2. staging' = [staging EXCEPT ![b] = [staging[b] EXCEPT !.manifest = IF @ = "torn" THEN "good" ELSE @]]
    BY <1>12 DEF SealWrite
  <2>3. staging' \in [Builders -> Dir]
    BY <2>1, <2>2
  <2>4. QED
    BY <1>12, <2>3 DEF SealWrite
<1>13. ASSUME NEW b \in Builders, WriteFails(b) PROVE TypeOK'
  BY <1>13 DEF WriteFails
<1>14. ASSUME NEW b \in Builders, Publish(b) PROVE TypeOK'
  BY <1>14 DEF Publish, GcAfterPublish
<1>15. ASSUME NEW b \in Builders, PublishLost(b) PROVE TypeOK'
  BY <1>15 DEF PublishLost
<1>16. ASSUME NEW b \in Builders, PublishResolve(b) PROVE TypeOK'
  BY <1>16 DEF PublishResolve
<1>17. ASSUME NEW b \in Builders, Again(b) PROVE TypeOK'
  BY <1>17 DEF Again
<1>18. ASSUME NEW b \in Builders, Kill(b) PROVE TypeOK'
  BY <1>18 DEF Kill
<1>19. ASSUME NEW f \in File, NEW how \in {"bad", "missing", "unreadable"}, DamageFile(f, how)
       PROVE  TypeOK'
  <2>1. entry' \in Dir
    BY <1>19 DEF DamageFile
  <2>2. damages' \in 0 .. MaxDamage
    BY <1>19 DEF DamageFile
  <2> HIDE DEF Dir
  <2>3. QED
    BY <1>19, <2>1, <2>2 DEF DamageFile
<1>20. ASSUME NEW how \in {"torn", "none", "unreadable"}, DamageManifest(how)
       PROVE  TypeOK'
  <2>1. entry' \in Dir
    BY <1>20 DEF DamageManifest
  <2>2. damages' \in 0 .. MaxDamage
    BY <1>20 DEF DamageManifest
  <2> HIDE DEF Dir
  <2>3. QED
    BY <1>20, <2>1, <2>2 DEF DamageManifest
<1>21. ASSUME NEW b \in Builders, GcStaging(b) PROVE TypeOK'
  BY <1>21 DEF GcStaging
<1>22. CASE GcEntry
  BY <1>22 DEF GcEntry
<1>23. CASE GcUnlink
  <2>1. \A d \in Dir : Unlinked(d) \subseteq Dir
    <3> TAKE d \in Dir
    <3>1. [d EXCEPT !.manifest = "none"] \in Dir
      OBVIOUS
    <3>2. ASSUME NEW f \in File PROVE [d EXCEPT !.files[f] = "missing"] \in Dir
      OBVIOUS
    <3> HIDE DEF Dir
    <3>3. QED
      BY <3>1, <3>2 DEF Unlinked
  <2>2. CASE gc \in Builders
    <3>1. PICK d \in Unlinked(staging[gc]) : staging' = [staging EXCEPT ![gc] = d]
      BY <1>23, <2>2 DEF GcUnlink
    <3>2. d \in Dir
      BY <2>1, <2>2, <3>1
    <3>3. staging' \in [Builders -> Dir]
      BY <3>1, <3>2
    <3>4. QED
      BY <1>23, <2>2, <3>3 DEF GcUnlink
  <2>3. CASE gc \notin Builders
    <3>1. entry' \in Dir
      BY <1>23, <2>1, <2>3 DEF GcUnlink
    <3>2. QED
      BY <1>23, <2>3, <3>1 DEF GcUnlink
  <2>4. QED
    BY <2>2, <2>3
<1>24. CASE GcRemove
  BY <1>24 DEF GcRemove
<1>25. CASE UNCHANGED vars
  BY <1>25 DEF vars
<1>26. QED
  BY <1>1, <1>2, <1>3, <1>4, <1>5, <1>6, <1>7, <1>8, <1>9, <1>10, <1>11,
     <1>12, <1>13, <1>14, <1>15, <1>16, <1>17, <1>18, <1>19, <1>20, <1>21,
     <1>22, <1>23, <1>24, <1>25
  DEF Next, Builder, Collector

\* The store's state stays well typed under damage, kills and collections.
THEOREM ThmTypeOK == Spec => []TypeOK
<1>1. QED
  BY TypeInit, TypeStep, PTL DEF Spec

-----------------------------------------------------------------------------
(* A hit is complete.                                                      *)

\* While a builder reads, what it has read so far is right; a file counts as
\* read only if it matched the manifest at that moment.
ReadSoFar ==
  \A b \in Builders :
    /\ pc[b] = "read" => \A f \in File : f < file[b] => got[b][f] = "good"
    /\ pc[b] = "hit" => \A f \in File : got[b][f] = "good"

\* Every step keeps what was read right.
LEMMA ReadStep == TypeOK /\ ReadSoFar /\ [Next]_vars => ReadSoFar'
<1> SUFFICES ASSUME TypeOK, ReadSoFar, [Next]_vars PROVE ReadSoFar'
  OBVIOUS
<1>a. \A i \in File : /\ ~ i < 1
                      /\ \A f \in File : f < i + 1 => f < i \/ f = i
                      /\ i = NFiles => \A f \in File : f < i \/ f = i
  BY StoreAssumption DEF StoreAssumption, File
<1> USE <1>a DEF ReadSoFar, TypeOK, dirVars, worldVars, Goto
<1>1. ASSUME NEW b \in Builders, Lookup(b) PROVE ReadSoFar'
  BY <1>1 DEF Lookup
<1>2. ASSUME NEW b \in Builders, OpenEntry(b) PROVE ReadSoFar'
  BY <1>2 DEF OpenEntry, AfterMiss
<1>3. ASSUME NEW b \in Builders, ReadManifest(b) PROVE ReadSoFar'
  BY <1>3 DEF ReadManifest, AfterMiss
<1>4. ASSUME NEW b \in Builders, ReadFile(b) PROVE ReadSoFar'
  BY <1>4 DEF ReadFile, AfterMiss, AfterHit
<1>5. ASSUME NEW b \in Builders, Put(b) PROVE ReadSoFar'
  BY <1>5 DEF Put
<1>6. ASSUME NEW b \in Builders, Quarantine(b) PROVE ReadSoFar'
  BY <1>6 DEF Quarantine
<1>7. ASSUME NEW b \in Builders, QuarantineLost(b) PROVE ReadSoFar'
  BY <1>7 DEF QuarantineLost
<1>8. ASSUME NEW b \in Builders, MakeStaging(b) PROVE ReadSoFar'
  BY <1>8 DEF MakeStaging
<1>9. ASSUME NEW b \in Builders, MakeParent(b) PROVE ReadSoFar'
  BY <1>9 DEF MakeParent
<1>10. ASSUME NEW b \in Builders, WriteFile(b) PROVE ReadSoFar'
  BY <1>10 DEF WriteFile
<1>11. ASSUME NEW b \in Builders, SealOpen(b) PROVE ReadSoFar'
  BY <1>11 DEF SealOpen
<1>12. ASSUME NEW b \in Builders, SealWrite(b) PROVE ReadSoFar'
  BY <1>12 DEF SealWrite
<1>13. ASSUME NEW b \in Builders, WriteFails(b) PROVE ReadSoFar'
  BY <1>13 DEF WriteFails
<1>14. ASSUME NEW b \in Builders, Publish(b) PROVE ReadSoFar'
  BY <1>14 DEF Publish
<1>15. ASSUME NEW b \in Builders, PublishLost(b) PROVE ReadSoFar'
  BY <1>15 DEF PublishLost
<1>16. ASSUME NEW b \in Builders, PublishResolve(b) PROVE ReadSoFar'
  BY <1>16 DEF PublishResolve
<1>17. ASSUME NEW b \in Builders, Again(b) PROVE ReadSoFar'
  BY <1>17 DEF Again
<1>18. ASSUME NEW b \in Builders, Kill(b) PROVE ReadSoFar'
  BY <1>18 DEF Kill
<1>19. ASSUME NEW f \in File, NEW how \in {"bad", "missing", "unreadable"}, DamageFile(f, how)
       PROVE  ReadSoFar'
  BY <1>19 DEF DamageFile
<1>20. ASSUME NEW how \in {"torn", "none", "unreadable"}, DamageManifest(how)
       PROVE  ReadSoFar'
  BY <1>20 DEF DamageManifest
<1>21. ASSUME NEW b \in Builders, GcStaging(b) PROVE ReadSoFar'
  BY <1>21 DEF GcStaging
<1>22. CASE GcEntry
  BY <1>22 DEF GcEntry
<1>23. CASE GcUnlink
  BY <1>23 DEF GcUnlink
<1>24. CASE GcRemove
  BY <1>24 DEF GcRemove
<1>25. CASE UNCHANGED vars
  BY <1>25 DEF vars
<1>26. QED
  BY <1>1, <1>2, <1>3, <1>4, <1>5, <1>6, <1>7, <1>8, <1>9, <1>10, <1>11,
     <1>12, <1>13, <1>14, <1>15, <1>16, <1>17, <1>18, <1>19, <1>20, <1>21,
     <1>22, <1>23, <1>24, <1>25
  DEF Next, Builder, Collector

\* A lookup that hits has read every artifact with the right bytes, for any
\* number of builds and artifacts, whatever is damaged or collected under it.
THEOREM ThmHitIsComplete == Spec => []HitIsComplete
<1>1. Init => ReadSoFar
  BY DEF Init, ReadSoFar
<1>2. ReadSoFar => HitIsComplete
  BY DEF ReadSoFar, HitIsComplete
<1>3. QED
  BY <1>1, <1>2, TypeInit, TypeStep, ReadStep, PTL DEF Spec

-----------------------------------------------------------------------------
(* A put publishes all or nothing.                                         *)

\* As long as nothing was damaged or collected, what a build has staged is right
\* up to the file it is at, and the manifest is sealed over all of it before the
\* rename.
StagedSoFar ==
  (damages = 0 /\ collections = 0) =>
  /\ gc = "idle"
  /\ PublishedComplete
  /\ \A b \in Builders :
       /\ pc[b] \in {"parent", "write"} =>
            \A f \in File : f < file[b] => staging[b].files[f] = "good"
       /\ pc[b] \in {"parent", "write", "seal", "sealing", "publish"} =>
            staging[b].exists
       /\ pc[b] \in {"seal", "sealing", "publish"} =>
            \A f \in File : staging[b].files[f] = "good"
       /\ pc[b] = "sealing" => staging[b].manifest = "torn"
       /\ pc[b] = "publish" => staging[b].manifest = "good"

\* Every step of an undamaged, uncollected store keeps the staging right.
LEMMA StagedStep == TypeOK /\ StagedSoFar /\ [Next]_vars => StagedSoFar'
<1> SUFFICES ASSUME TypeOK, StagedSoFar, [Next]_vars PROVE StagedSoFar'
  OBVIOUS
<1>a. \A i \in File : /\ ~ i < 1
                      /\ \A f \in File : f < i + 1 => f < i \/ f = i
                      /\ i = NFiles => \A f \in File : f < i \/ f = i
  BY StoreAssumption DEF StoreAssumption, File
<1>b. "idle" \notin Builders /\ damages + 1 # 0 /\ collections + 1 # 0
  BY StoreAssumption DEF StoreAssumption, TypeOK
<1>c. ~NoDir.exists /\ EmptyDir.exists
  BY DEF NoDir, EmptyDir
<1> USE <1>a, <1>b, <1>c DEF StagedSoFar, PublishedComplete, Complete, TypeOK, Dir,
    dirVars, worldVars, Goto
<1>1. ASSUME NEW b \in Builders, Lookup(b) PROVE StagedSoFar'
  BY <1>1 DEF Lookup
<1>2. ASSUME NEW b \in Builders, OpenEntry(b) PROVE StagedSoFar'
  BY <1>2 DEF OpenEntry, AfterMiss
<1>3. ASSUME NEW b \in Builders, ReadManifest(b) PROVE StagedSoFar'
  BY <1>3 DEF ReadManifest, AfterMiss
<1>4. ASSUME NEW b \in Builders, ReadFile(b) PROVE StagedSoFar'
  BY <1>4 DEF ReadFile, AfterMiss, AfterHit
<1>5. ASSUME NEW b \in Builders, Put(b) PROVE StagedSoFar'
  BY <1>5 DEF Put
<1>6. ASSUME NEW b \in Builders, Quarantine(b) PROVE StagedSoFar'
  BY <1>6 DEF Quarantine, GcAfterQuarantine
<1>7. ASSUME NEW b \in Builders, QuarantineLost(b) PROVE StagedSoFar'
  BY <1>7 DEF QuarantineLost
<1>8. ASSUME NEW b \in Builders, MakeStaging(b) PROVE StagedSoFar'
  BY <1>8 DEF MakeStaging
<1>9. ASSUME NEW b \in Builders, MakeParent(b) PROVE StagedSoFar'
  BY <1>9 DEF MakeParent
<1>10. ASSUME NEW b \in Builders, WriteFile(b) PROVE StagedSoFar'
  BY <1>10 DEF WriteFile
<1>11. ASSUME NEW b \in Builders, SealOpen(b) PROVE StagedSoFar'
  BY <1>11 DEF SealOpen
<1>12. ASSUME NEW b \in Builders, SealWrite(b) PROVE StagedSoFar'
  BY <1>12 DEF SealWrite
<1>13. ASSUME NEW b \in Builders, WriteFails(b) PROVE StagedSoFar'
  BY <1>13 DEF WriteFails
<1>14. ASSUME NEW b \in Builders, Publish(b) PROVE StagedSoFar'
  BY <1>14 DEF Publish, GcAfterPublish
<1>15. ASSUME NEW b \in Builders, PublishLost(b) PROVE StagedSoFar'
  BY <1>15 DEF PublishLost
<1>16. ASSUME NEW b \in Builders, PublishResolve(b) PROVE StagedSoFar'
  BY <1>16 DEF PublishResolve
<1>17. ASSUME NEW b \in Builders, Again(b) PROVE StagedSoFar'
  BY <1>17 DEF Again
<1>18. ASSUME NEW b \in Builders, Kill(b) PROVE StagedSoFar'
  BY <1>18 DEF Kill
<1>19. ASSUME NEW f \in File, NEW how \in {"bad", "missing", "unreadable"}, DamageFile(f, how)
       PROVE  StagedSoFar'
  BY <1>19 DEF DamageFile
<1>20. ASSUME NEW how \in {"torn", "none", "unreadable"}, DamageManifest(how)
       PROVE  StagedSoFar'
  BY <1>20 DEF DamageManifest
<1>21. ASSUME NEW b \in Builders, GcStaging(b) PROVE StagedSoFar'
  BY <1>21 DEF GcStaging
<1>22. CASE GcEntry
  BY <1>22 DEF GcEntry
<1>23. CASE GcUnlink
  BY <1>23 DEF GcUnlink
<1>24. CASE GcRemove
  BY <1>24 DEF GcRemove
<1>25. CASE UNCHANGED vars
  BY <1>25 DEF vars
<1>26. QED
  BY <1>1, <1>2, <1>3, <1>4, <1>5, <1>6, <1>7, <1>8, <1>9, <1>10, <1>11,
     <1>12, <1>13, <1>14, <1>15, <1>16, <1>17, <1>18, <1>19, <1>20, <1>21,
     <1>22, <1>23, <1>24, <1>25
  DEF Next, Builder, Collector

\* As long as the disk is intact and nothing was collected, the entry is complete
\* whenever it exists, for any number of builds, artifacts and kills.
THEOREM ThmPublishedComplete == Spec => []PublishedComplete
<1>1. Init => StagedSoFar
  BY DEF Init, StagedSoFar, PublishedComplete, NoDir
<1>2. StagedSoFar => PublishedComplete
  BY DEF StagedSoFar, PublishedComplete
<1>3. TypeOK /\ StagedSoFar /\ [Next]_vars => StagedSoFar'
  BY StagedStep
<1>4. QED
  BY <1>1, <1>2, <1>3, TypeInit, TypeStep, PTL DEF Spec

-----------------------------------------------------------------------------
(* Builds do not fail each other.                                          *)

\* As long as nothing was damaged or collected, an entry that exists stays: a
\* build that looks at it again, or that lost the race to publish it, still
\* finds it, so none has a reason to set it aside or to fail.
EntryStays ==
  (damages = 0 /\ collections = 0) =>
  \A b \in Builders :
    /\ pc[b] \notin {"quarantine", "quarantineLost", "failed"}
    /\ pc[b] \in {"manifest", "read", "publishLost"} => entry.exists
    /\ pc[b] = "open" /\ goal[b] = "verify" => entry.exists

\* Every step of an undamaged, uncollected store keeps the entry in place.
LEMMA EntryStep == TypeOK /\ StagedSoFar /\ EntryStays /\ [Next]_vars => EntryStays'
<1> SUFFICES ASSUME TypeOK, StagedSoFar, EntryStays, [Next]_vars PROVE EntryStays'
  OBVIOUS
<1>b. "idle" \notin Builders /\ damages + 1 # 0 /\ collections + 1 # 0
  BY StoreAssumption DEF StoreAssumption, TypeOK
<1> USE <1>b DEF EntryStays, StagedSoFar, PublishedComplete, Complete, TypeOK,
    dirVars, worldVars, Goto
<1>1. ASSUME NEW b \in Builders, Lookup(b) PROVE EntryStays'
  BY <1>1 DEF Lookup
<1>2. ASSUME NEW b \in Builders, OpenEntry(b) PROVE EntryStays'
  BY <1>2 DEF OpenEntry, AfterMiss
<1>3. ASSUME NEW b \in Builders, ReadManifest(b) PROVE EntryStays'
  BY <1>3 DEF ReadManifest, AfterMiss
<1>4. ASSUME NEW b \in Builders, ReadFile(b) PROVE EntryStays'
  BY <1>4 DEF ReadFile, AfterMiss, AfterHit
<1>5. ASSUME NEW b \in Builders, Put(b) PROVE EntryStays'
  BY <1>5 DEF Put
<1>6. ASSUME NEW b \in Builders, Quarantine(b) PROVE EntryStays'
  BY <1>6 DEF Quarantine, GcAfterQuarantine
<1>7. ASSUME NEW b \in Builders, QuarantineLost(b) PROVE EntryStays'
  BY <1>7 DEF QuarantineLost
<1>8. ASSUME NEW b \in Builders, MakeStaging(b) PROVE EntryStays'
  BY <1>8 DEF MakeStaging
<1>9. ASSUME NEW b \in Builders, MakeParent(b) PROVE EntryStays'
  BY <1>9 DEF MakeParent
<1>10. ASSUME NEW b \in Builders, WriteFile(b) PROVE EntryStays'
  BY <1>10 DEF WriteFile
<1>11. ASSUME NEW b \in Builders, SealOpen(b) PROVE EntryStays'
  BY <1>11 DEF SealOpen
<1>12. ASSUME NEW b \in Builders, SealWrite(b) PROVE EntryStays'
  BY <1>12 DEF SealWrite
<1>13. ASSUME NEW b \in Builders, WriteFails(b) PROVE EntryStays'
  BY <1>13 DEF WriteFails
<1>14. ASSUME NEW b \in Builders, Publish(b) PROVE EntryStays'
  BY <1>14 DEF Publish, GcAfterPublish
<1>15. ASSUME NEW b \in Builders, PublishLost(b) PROVE EntryStays'
  BY <1>15 DEF PublishLost
<1>16. ASSUME NEW b \in Builders, PublishResolve(b) PROVE EntryStays'
  BY <1>16 DEF PublishResolve
<1>17. ASSUME NEW b \in Builders, Again(b) PROVE EntryStays'
  BY <1>17 DEF Again
<1>18. ASSUME NEW b \in Builders, Kill(b) PROVE EntryStays'
  BY <1>18 DEF Kill
<1>19. ASSUME NEW f \in File, NEW how \in {"bad", "missing", "unreadable"}, DamageFile(f, how)
       PROVE  EntryStays'
  BY <1>19 DEF DamageFile
<1>20. ASSUME NEW how \in {"torn", "none", "unreadable"}, DamageManifest(how)
       PROVE  EntryStays'
  BY <1>20 DEF DamageManifest
<1>21. ASSUME NEW b \in Builders, GcStaging(b) PROVE EntryStays'
  BY <1>21 DEF GcStaging
<1>22. CASE GcEntry
  BY <1>22 DEF GcEntry
<1>23. CASE GcUnlink
  BY <1>23 DEF GcUnlink
<1>24. CASE GcRemove
  BY <1>24 DEF GcRemove
<1>25. CASE UNCHANGED vars
  BY <1>25 DEF vars
<1>26. QED
  BY <1>1, <1>2, <1>3, <1>4, <1>5, <1>6, <1>7, <1>8, <1>9, <1>10, <1>11,
     <1>12, <1>13, <1>14, <1>15, <1>16, <1>17, <1>18, <1>19, <1>20, <1>21,
     <1>22, <1>23, <1>24, <1>25
  DEF Next, Builder, Collector

\* Neither builds that race nor builds that are killed make a build fail, for
\* any number of builds and artifacts: a put that finds the key taken at any
\* point of its work ends with that entry in place.
THEOREM ThmRacesAreHarmless == Spec => []RacesAreHarmless
<1>1. Init => StagedSoFar /\ EntryStays
  BY DEF Init, StagedSoFar, EntryStays, PublishedComplete, NoDir
<1>2. EntryStays => RacesAreHarmless
  BY Zenon DEF EntryStays, RacesAreHarmless
<1>3. QED
  BY <1>1, <1>2, TypeInit, TypeStep, StagedStep, EntryStep, PTL DEF Spec
=============================================================================
