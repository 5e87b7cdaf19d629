---------------------------- MODULE EvidenceProofs --------------------------
(***************************************************************************)
(* The publication of EvidenceInputs, for any number of attempts, paths    *)
(* and runs, with every fault: that bundles have their manifests, that     *)
(* success is durable, that failure leaves nothing staged, that it         *)
(* implements PairPublication; and, of the inputs that runs write          *)
(* meanwhile, that manifests vouch for completed reports and that what is  *)
(* published was in place at one time.                                     *)
(***************************************************************************)
EXTENDS EvidenceInputs, TLAPS

Places == {"check", "stage_bundle", "stage_manifest", "link_manifest", "unlink_manifest",
           "sync_manifest", "link_bundle", "unlink_bundle", "sync_bundle", "verify",
           "cleanup", "done", "failed", "killed"}

Files == {NoFile} \cup {Bundle(a) : a \in Attempt} \cup {ManifestOf(a) : a \in Attempt}

PublishTypeOK ==
    /\ output \in [Attempt -> Output]
    /\ manifest \in [Attempt -> Manifest]
    /\ \A a \in Attempt : output[a] # manifest[a]
    /\ pc \in [Attempt -> Places]
    /\ staged \subseteq Attempt \X {"bundle", "manifest"}
    /\ names \in [Path -> Files]
    /\ disk \in [Path -> Files]
    /\ established \subseteq kept /\ kept \subseteq made /\ made \subseteq Directory

\* What is durable is visible: a name that is taken stays as it is.
DurableIsVisible == \A p \in Path : disk[p] # NoFile => names[p] = disk[p]

\* What an attempt has reported is durable, unless its directory was lost.
Lasts(path, file) ==
    /\ home[path] \in established => disk[path] = file
    /\ names[path] = file => disk[path] = file

ManifestsInPlace ==
    \A a \in Attempt :
        /\ pc[a] \in {"unlink_manifest", "sync_manifest"} => names[manifest[a]] = ManifestOf(a)
        /\ pc[a] \in {"link_bundle", "unlink_bundle", "sync_bundle", "verify"} =>
              disk[manifest[a]] = ManifestOf(a)
        /\ pc[a] = "done" => Lasts(manifest[a], ManifestOf(a))

HasLinkedBundle(a) ==
    pc[a] \in {"unlink_bundle", "sync_bundle", "verify", "cleanup", "done", "failed", "killed"}

\* A bundle is linked only after its manifest is durable.
BundlesFollow ==
    \A p \in Path, a \in Attempt :
        names[p] = Bundle(a) =>
            /\ output[a] = p
            /\ HasLinkedBundle(a)
            /\ StaysWith(a) => disk[manifest[a]] = ManifestOf(a)

ResultsInPlace ==
    \A a \in Attempt :
        /\ pc[a] \in {"unlink_bundle", "sync_bundle"} => names[output[a]] = Bundle(a)
        /\ pc[a] = "verify" => disk[output[a]] = Bundle(a)
        /\ pc[a] = "done" => Lasts(output[a], Bundle(a))

StagesOfSteps ==
    \A a \in Attempt :
        /\ pc[a] \in {"check", "stage_bundle", "sync_bundle", "verify", "done", "failed"} =>
              <<a, "bundle">> \notin staged
        /\ pc[a] \in {"check", "stage_bundle", "stage_manifest", "sync_manifest", "link_bundle",
                      "unlink_bundle", "sync_bundle", "verify", "done", "failed"} =>
              <<a, "manifest">> \notin staged

PublishInv ==
    /\ PublishTypeOK
    /\ DurableIsVisible
    /\ ManifestsInPlace
    /\ BundlesFollow
    /\ ResultsInPlace
    /\ StagesOfSteps

-----------------------------------------------------------------------------
(* What a step of EvidenceInputs is to the publication.                    *)

\* The inputs are not those that were loaded.
GiveUp(a) ==
    /\ pc[a] \in {"check", "stage_bundle"}
    /\ pc' = [pc EXCEPT ![a] = "failed"]
    /\ UNCHANGED <<given, staged, names, disk, directoryVars>>

Publication ==
    \/ \E a \in Attempt : Step(a) \/ CallFails(a) \/ Kill(a) \/ GiveUp(a)
    \/ \E p \in Path : WriteBack(p)
    \/ \E d \in Directory : WriteBackDirectory(d)
    \/ PowerLoss
    \/ UNCHANGED vars

\* A look at the inputs changes nothing of the publication, or ends the attempt
\* before it has staged anything.
LEMMA LooksGiveUp ==
    ASSUME NEW a \in Attempt, AttemptLooks(a)
    PROVE  GiveUp(a) \/ UNCHANGED vars
<1> USE DEF vars, given, directoryVars
<1>1. UNCHANGED <<given, staged, names, disk, directoryVars>> /\ MayLook(a)
  BY DEF AttemptLooks
<1>2. pc[a] \in {"check", "stage_bundle"}
  BY <1>1 DEF MayLook
<1>3. UNCHANGED pc \/ pc' = [pc EXCEPT ![a] = "failed"]
  <2>1. CASE Stat(a)
    BY <2>1 DEF Stat, Reject
  <2>2. CASE Digest(a)
    BY <2>2 DEF Digest, Pass, Reject
  <2>3. CASE Read(a)
    BY <2>3 DEF Read, Pass
  <2>4. CASE Assemble(a)
    BY <2>4 DEF Assemble, Pass, Reject
  <2> QED BY <2>1, <2>2, <2>3, <2>4 DEF AttemptLooks
<1> QED BY <1>1, <1>2, <1>3 DEF GiveUp

\* Every step of EvidenceInputs is one of the publication, or does not touch it.
LEMMA EvidenceStepPublishes ==
    ASSUME [EvidenceNext]_evidenceVars
    PROVE  Publication
<1>1. CASE UNCHANGED evidenceVars
  BY <1>1 DEF evidenceVars, Publication
<1>2. ASSUME NEW a \in Attempt, AttemptLooks(a)
      PROVE  Publication
  BY <1>2, LooksGiveUp DEF Publication
<1>3. ASSUME NEW a \in Attempt, AttemptPublishes(a)
      PROVE  Publication
  BY <1>3 DEF AttemptPublishes, Publication
<1>4. CASE Fault
  BY <1>4 DEF Fault, Publication
<1>5. CASE InputsWritten
  BY <1>5 DEF InputsWritten, Publication
<1>6. CASE NothingLeft
  BY <1>6 DEF NothingLeft, evidenceVars, Publication
<1> QED BY <1>1, <1>2, <1>3, <1>4, <1>5, <1>6 DEF EvidenceNext

-----------------------------------------------------------------------------
(* The inductive invariant.                                                *)

\* What a path names tells bundles, manifests and attempts apart.
LEMMA FileKinds ==
    ASSUME NEW a \in Attempt, NEW b \in Attempt
    PROVE  /\ NoFile # Bundle(a) /\ NoFile # ManifestOf(a) /\ Bundle(a) # ManifestOf(b)
           /\ Bundle(a) = Bundle(b) => a = b
           /\ NoFile.kind # "bundle" /\ ManifestOf(a).kind # "bundle"
           /\ Bundle(a).kind = "bundle" /\ Bundle(a).of = a
           /\ {Bundle(a), ManifestOf(a), NoFile} \subseteq Files
BY DEF NoFile, Bundle, ManifestOf, Files

\* The publication starts with the invariant.
LEMMA PublishInvHolds ==
    ASSUME Init
    PROVE  PublishInv
<1>1. PublishTypeOK
  BY DEF Init, PublishTypeOK, Places, Files
<1>2. DurableIsVisible
  BY DEF Init, DurableIsVisible
<1>3. ManifestsInPlace /\ ResultsInPlace /\ StagesOfSteps
  BY DEF Init, ManifestsInPlace, ResultsInPlace, StagesOfSteps
<1>4. BundlesFollow
  BY FileKinds DEF Init, BundlesFollow
<1> QED BY <1>1, <1>2, <1>3, <1>4 DEF PublishInv

\* The paths of an attempt are two different ones, and name a file or nothing.
LEMMA PathsOfAttempts ==
    ASSUME PublishTypeOK, NEW a \in Attempt
    PROVE  /\ output[a] \in Path /\ manifest[a] \in Path /\ output[a] # manifest[a]
           /\ names[output[a]] \in Files /\ names[manifest[a]] \in Files
           /\ pc[a] \in Places
BY DEF PublishTypeOK, Path

\* A step keeps the types.
LEMMA TypeStep ==
    ASSUME PublishTypeOK, Publication
    PROVE  PublishTypeOK'
<1> USE DEF vars, given, directoryVars, Places
<1>1. ASSUME NEW a \in Attempt, Step(a)
      PROVE  PublishTypeOK'
  <2> USE <1>1, PathsOfAttempts, FileKinds DEF Go, PublishTypeOK
  <2>1. CASE CheckAbsent(a) BY <2>1 DEF CheckAbsent
  <2>2. CASE StageBundle(a) BY <2>2 DEF StageBundle
  <2>3. CASE StageManifest(a) BY <2>3 DEF StageManifest
  <2>4. CASE LinkManifest(a)
    <3>1. names' \in [Path -> Files] /\ pc' \in [Attempt -> Places]
      BY <2>4 DEF LinkManifest
    <3> QED BY <2>4, <3>1 DEF LinkManifest
  <2>5. CASE UnlinkManifest(a) BY <2>5 DEF UnlinkManifest
  <2>6. CASE SyncManifest(a) BY <2>6 DEF SyncManifest
  <2>7. CASE LinkBundle(a) BY <2>7 DEF LinkBundle
  <2>8. CASE UnlinkBundle(a) BY <2>8 DEF UnlinkBundle
  <2>9. CASE SyncBundle(a) BY <2>9 DEF SyncBundle
  <2>10. CASE VerifyPublished(a) BY <2>10 DEF VerifyPublished
  <2>11. CASE Cleanup(a) BY <2>11 DEF Cleanup
  <2>12. CASE MakeDirectory(a)
    <3>1. \A path \in Destination(a) : home[path] \in Directory
      BY HomeAssumption DEF Destination
    <3> QED BY <2>12, <3>1 DEF MakeDirectory
  <2> QED BY <2>1, <2>2, <2>3, <2>4, <2>5, <2>6, <2>7, <2>8, <2>9, <2>10, <2>11, <2>12 DEF Step
<1>2. ASSUME NEW a \in Attempt, CallFails(a) \/ Kill(a) \/ GiveUp(a)
      PROVE  PublishTypeOK'
  BY <1>2 DEF CallFails, Kill, GiveUp, PublishTypeOK
<1>3. ASSUME NEW p \in Path, WriteBack(p)
      PROVE  PublishTypeOK'
  BY <1>3 DEF WriteBack, PublishTypeOK
<1>4. CASE PowerLoss
  <2>1. Surviving \in [Path -> Files]
    BY FileKinds DEF Surviving, PublishTypeOK, Files
  <2> QED BY <1>4, <2>1 DEF PowerLoss, PublishTypeOK, Final
<1>5. CASE UNCHANGED vars
  BY <1>5 DEF PublishTypeOK
<1>6. ASSUME NEW d \in Directory, WriteBackDirectory(d)
      PROVE  PublishTypeOK'
  BY <1>6 DEF WriteBackDirectory, PublishTypeOK
<1> QED BY <1>1, <1>2, <1>3, <1>4, <1>5, <1>6 DEF Publication

\* No staging file of an attempt is new.
KeepsStages(a) ==
    \A kind \in {"bundle", "manifest"} : <<a, kind>> \in staged' => <<a, kind>> \in staged

\* Where attempts are after a power loss.
AtRest == {"check", "done", "failed", "killed"}

\* A step adds a name, makes names durable, or loses what was not, and only a power
\* loss takes away what was durable, with its directory.
LEMMA NamesAndDisk ==
    ASSUME PublishTypeOK, DurableIsVisible, Publication, NEW p \in Path
    PROVE  /\ \/ ~ PowerLoss /\ names'[p] = names[p] /\ disk'[p] \in {disk[p], names[p]}
              \/ ~ PowerLoss /\ names[p] = NoFile /\ disk'[p] = disk[p]
              \/ /\ PowerLoss
                 /\ names'[p] = disk'[p]
                 /\ disk'[p] = IF home[p] \in kept THEN disk[p] ELSE NoFile
           /\ disk[p] # NoFile /\ (PowerLoss => home[p] \in kept) =>
                 names'[p] = disk[p] /\ disk'[p] = disk[p]
           /\ disk'[p] # NoFile => names'[p] = disk'[p]
<1> USE DEF vars, given
<1>1. ASSUME NEW a \in Attempt, Step(a)
      PROVE  \/ names' = names /\ disk' = disk
             \/ /\ names' = names
                /\ \E q \in Path : disk' = [disk EXCEPT ![q] = names[q]]
             \/ /\ disk' = disk
                /\ \E q \in Path, f \in Files :
                      names[q] = NoFile /\ names' = [names EXCEPT ![q] = f]
  <2> USE <1>1, PathsOfAttempts, FileKinds
  <2>1. CASE LinkManifest(a) BY <2>1 DEF LinkManifest
  <2>2. CASE SyncManifest(a) BY <2>2 DEF SyncManifest
  <2>3. CASE LinkBundle(a) BY <2>3 DEF LinkBundle
  <2>4. CASE SyncBundle(a) BY <2>4 DEF SyncBundle
  <2> QED BY <2>1, <2>2, <2>3, <2>4
          DEF Step, CheckAbsent, MakeDirectory, StageBundle, StageManifest, UnlinkManifest,
              UnlinkBundle, VerifyPublished, Cleanup
<1> USE DEF PublishTypeOK, DurableIsVisible
<1>2. CASE (\E a \in Attempt : Step(a)) /\ ~ PowerLoss
  BY <1>1, <1>2
<1>3. CASE (\E a \in Attempt : CallFails(a) \/ Kill(a) \/ GiveUp(a)) /\ ~ PowerLoss
  BY <1>3 DEF CallFails, Kill, GiveUp
<1>4. CASE (\E q \in Path : WriteBack(q)) /\ ~ PowerLoss
  BY <1>4 DEF WriteBack
<1>5. CASE PowerLoss
  <2>1. names'[p] = Surviving[p] /\ disk'[p] = Surviving[p]
    BY <1>5 DEF PowerLoss
  <2> QED BY <1>5, <2>1 DEF Surviving
<1>6. CASE UNCHANGED vars /\ ~ PowerLoss
  BY <1>6
<1>7. CASE (\E d \in Directory : WriteBackDirectory(d)) /\ ~ PowerLoss
  BY <1>7 DEF WriteBackDirectory
<1> QED BY <1>2, <1>3, <1>4, <1>5, <1>6, <1>7 DEF Publication

\* A power loss ends what is under way.
LEMMA PowerLossEnds ==
    ASSUME PublishTypeOK, PowerLoss, NEW a \in Attempt
    PROVE  pc'[a] \in AtRest
BY DEF PublishTypeOK, PowerLoss, Final, AtRest

\* No step makes durable what is not visible, or hides what is durable.
LEMMA VisibleStep ==
    ASSUME PublishTypeOK, DurableIsVisible, Publication
    PROVE  DurableIsVisible'
<1>1. Path' = Path /\ NoFile' = NoFile
  BY DEF Path, NoFile
<1> QED BY <1>1, NamesAndDisk DEF DurableIsVisible

\* What an attempt was given stays the same, and directories stay once they are
\* written back, which no attempt does.
LEMMA GivenStays ==
    ASSUME Publication
    PROVE  /\ output' = output /\ manifest' = manifest /\ established' = established
           /\ kept \subseteq kept'
           /\ (~ \E d \in Directory : WriteBackDirectory(d)) => kept' = kept
BY DEF Publication, vars, given, directoryVars, Step, CheckAbsent, MakeDirectory, StageBundle,
       StageManifest, LinkManifest, UnlinkManifest, SyncManifest, LinkBundle, UnlinkBundle,
       SyncBundle, VerifyPublished, Cleanup, CallFails, Kill, GiveUp, WriteBack,
       WriteBackDirectory, PowerLoss

\* Where an attempt is changes by its own step or by its end.
LEMMA Moves ==
    ASSUME PublishTypeOK, Publication, NEW a \in Attempt
    PROVE  \/ Step(a)
           \/ /\ pc'[a] = pc[a]
              /\ KeepsStages(a)
           \/ pc'[a] \in {"cleanup", "killed"}
           \/ /\ pc'[a] = "failed"
              /\ pc[a] \in {"check", "stage_bundle"}
              /\ staged' = staged
<1> USE DEF vars, given, PublishTypeOK, KeepsStages
<1>1. ASSUME NEW b \in Attempt, Step(b), b # a
      PROVE  /\ pc'[a] = pc[a]
             /\ KeepsStages(a)
  <2>1. pc' = pc \/ \E place \in Places : pc' = [pc EXCEPT ![b] = place]
    BY <1>1
       DEF MakeDirectory, Step, Go, CheckAbsent, StageBundle, StageManifest, LinkManifest, UnlinkManifest,
           SyncManifest, LinkBundle, UnlinkBundle, SyncBundle, VerifyPublished, Cleanup,
           Places
  <2>2. \/ staged' \subseteq staged
        \/ \E kind \in {"bundle", "manifest"} : staged' = staged \cup {<<b, kind>>}
    BY <1>1
       DEF Step, CheckAbsent, MakeDirectory, StageBundle, StageManifest, LinkManifest,
           UnlinkManifest, SyncManifest, LinkBundle, UnlinkBundle, SyncBundle, VerifyPublished, Cleanup
  <2> QED BY <1>1, <2>1, <2>2
<1>2. CASE \E b \in Attempt : CallFails(b) \/ Kill(b) \/ GiveUp(b)
  BY <1>2 DEF CallFails, Kill, GiveUp
<1>3. CASE \E q \in Path : WriteBack(q)
  BY <1>3 DEF WriteBack
<1>4. CASE PowerLoss
  BY <1>4 DEF PowerLoss, Final
<1>5. CASE UNCHANGED vars
  BY <1>5
<1>6. CASE \E d \in Directory : WriteBackDirectory(d)
  BY <1>6 DEF WriteBackDirectory
<1> QED BY <1>1, <1>2, <1>3, <1>4, <1>5, <1>6 DEF Publication

\* What an attempt's own step has done when it arrives.
LEMMA Arrives ==
    ASSUME PublishTypeOK, NEW a \in Attempt, Step(a)
    PROVE  /\ pc'[a] = "unlink_manifest" => names'[manifest[a]] = ManifestOf(a)
           /\ pc'[a] = "sync_manifest" => pc[a] = "unlink_manifest" /\ names' = names
           /\ pc'[a] = "link_bundle" =>
                 pc[a] = "sync_manifest" /\ disk'[manifest[a]] = names[manifest[a]]
           /\ pc'[a] = "unlink_bundle" =>
                 pc[a] = "link_bundle" /\ disk' = disk /\ names'[output[a]] = Bundle(a)
           /\ pc'[a] = "sync_bundle" =>
                 pc[a] = "unlink_bundle" /\ names' = names /\ disk' = disk
           /\ pc'[a] = "verify" =>
                 pc[a] = "sync_bundle" /\ disk'[output[a]] = names[output[a]]
           /\ pc'[a] = "done" => pc[a] = "verify" /\ disk' = disk /\ names' = names
           /\ HasLinkedBundle(a) => HasLinkedBundle(a)'
<1> USE PathsOfAttempts DEF Go, PublishTypeOK, HasLinkedBundle
<1>1. CASE CheckAbsent(a) BY <1>1 DEF CheckAbsent
<1>2. CASE StageBundle(a) BY <1>2 DEF StageBundle
<1>3. CASE StageManifest(a) BY <1>3 DEF StageManifest
<1>4. CASE LinkManifest(a) BY <1>4 DEF LinkManifest
<1>5. CASE UnlinkManifest(a) BY <1>5 DEF UnlinkManifest
<1>6. CASE SyncManifest(a) BY <1>6 DEF SyncManifest
<1>7. CASE LinkBundle(a) BY <1>7 DEF LinkBundle
<1>8. CASE UnlinkBundle(a) BY <1>8 DEF UnlinkBundle
<1>9. CASE SyncBundle(a) BY <1>9 DEF SyncBundle
<1>10. CASE VerifyPublished(a) BY <1>10 DEF VerifyPublished
<1>11. CASE Cleanup(a) BY <1>11 DEF Cleanup
<1>12. CASE MakeDirectory(a) BY <1>12 DEF MakeDirectory, Destination
<1> QED BY <1>1, <1>2, <1>3, <1>4, <1>5, <1>6, <1>7, <1>8, <1>9, <1>10, <1>11, <1>12 DEF Step

\* Where an attempt has its staging files.
LEMMA Unstages ==
    ASSUME PublishTypeOK, StagesOfSteps, NEW a \in Attempt, Step(a)
    PROVE  /\ pc'[a] \in {"check", "stage_bundle", "sync_bundle", "verify", "done", "failed"} =>
                 <<a, "bundle">> \notin staged'
           /\ pc'[a] \in {"check", "stage_bundle", "stage_manifest", "sync_manifest",
                         "link_bundle", "unlink_bundle", "sync_bundle", "verify", "done",
                         "failed"} =>
                 <<a, "manifest">> \notin staged'
<1> USE PathsOfAttempts DEF Go, PublishTypeOK, StagesOfSteps
<1>1. CASE CheckAbsent(a) BY <1>1 DEF CheckAbsent
<1>2. CASE StageBundle(a) BY <1>2 DEF StageBundle
<1>3. CASE StageManifest(a) BY <1>3 DEF StageManifest
<1>4. CASE LinkManifest(a) BY <1>4 DEF LinkManifest
<1>5. CASE UnlinkManifest(a) BY <1>5 DEF UnlinkManifest
<1>6. CASE SyncManifest(a) BY <1>6 DEF SyncManifest
<1>7. CASE LinkBundle(a) BY <1>7 DEF LinkBundle
<1>8. CASE UnlinkBundle(a) BY <1>8 DEF UnlinkBundle
<1>9. CASE SyncBundle(a) BY <1>9 DEF SyncBundle
<1>10. CASE VerifyPublished(a) BY <1>10 DEF VerifyPublished
<1>11. CASE Cleanup(a) BY <1>11 DEF Cleanup
<1>12. CASE MakeDirectory(a) BY <1>12 DEF MakeDirectory, Destination
<1> QED BY <1>1, <1>2, <1>3, <1>4, <1>5, <1>6, <1>7, <1>8, <1>9, <1>10, <1>11, <1>12 DEF Step

\* A name that appears is the one that an attempt was about to link.
LEMMA Linked ==
    ASSUME PublishTypeOK, DurableIsVisible, Publication,
           NEW p \in Path, names[p] = NoFile, names'[p] # NoFile
    PROVE  \E b \in Attempt :
              \/ /\ p = manifest[b] /\ names'[p] = ManifestOf(b)
                 /\ pc[b] = "link_manifest"
              \/ /\ p = output[b] /\ names'[p] = Bundle(b)
                 /\ pc[b] = "link_bundle" /\ pc'[b] = "unlink_bundle"
<1> USE PathsOfAttempts DEF PublishTypeOK, vars, given
<1>1. disk[p] = NoFile
  BY DEF DurableIsVisible
<1>2. ASSUME NEW b \in Attempt, Step(b)
      PROVE  \/ /\ p = manifest[b] /\ names'[p] = ManifestOf(b)
                /\ pc[b] = "link_manifest"
             \/ /\ p = output[b] /\ names'[p] = Bundle(b)
                /\ pc[b] = "link_bundle" /\ pc'[b] = "unlink_bundle"
  <2>1. CASE LinkManifest(b) BY <2>1 DEF LinkManifest, Go
  <2>2. CASE LinkBundle(b) BY <2>2 DEF LinkBundle, Go
  <2> QED BY <1>2, <2>1, <2>2
          DEF Step, CheckAbsent, MakeDirectory, StageBundle, StageManifest, UnlinkManifest,
              SyncManifest, UnlinkBundle, SyncBundle, VerifyPublished, Cleanup
<1>3. ~ \E a \in Attempt : CallFails(a) \/ Kill(a) \/ GiveUp(a)
  BY DEF CallFails, Kill, GiveUp
<1>4. (~ \E q \in Path : WriteBack(q)) /\ ~ \E d \in Directory : WriteBackDirectory(d)
  BY DEF WriteBack, WriteBackDirectory
<1>5. ~ PowerLoss
  BY <1>1 DEF PowerLoss, Surviving
<1> QED BY <1>2, <1>3, <1>4, <1>5 DEF Publication

-----------------------------------------------------------------------------
(* A step of the publication preserves each part of the invariant.         *)

\* What is durable of an attempt under way stays.
LEMMA DurableStays ==
    ASSUME PublishInv, Publication, NEW a \in Attempt, pc'[a] \notin AtRest,
           NEW p \in Path, disk[p] # NoFile
    PROVE  disk'[p] = disk[p]
BY PowerLossEnds, NamesAndDisk DEF PublishInv

\* What is visible to an attempt under way stays so: os.link never replaces a name.
LEMMA VisibleStays ==
    ASSUME PublishInv, Publication, NEW a \in Attempt, pc'[a] \notin AtRest,
           NEW p \in Path, names[p] # NoFile
    PROVE  names'[p] = names[p]
BY PowerLossEnds, NamesAndDisk DEF PublishInv

\* What was reported stays durable, unless it goes with its directory: then it
\* never comes back, since only its attempt could link it again.
LEMMA ReportedLasts ==
    ASSUME PublishInv, Publication, NEW a \in Attempt, pc[a] = "done",
           NEW p \in Path, NEW f \in {Bundle(a), ManifestOf(a)}, Lasts(p, f)
    PROVE  Lasts(p, f)'
<1> USE FileKinds DEF PublishInv, Lasts
<1>1. f # NoFile /\ f' = f /\ p' = p /\ home' = home
  BY DEF Bundle, ManifestOf
<1>2. home[p] \in established' => disk'[p] = f
  BY <1>1, GivenStays, NamesAndDisk DEF PublishTypeOK
<1>3. ASSUME names'[p] = f
      PROVE  disk'[p] = f
  <2>1. CASE names[p] = NoFile
    <3>1. PICK b \in Attempt :
              \/ names'[p] = ManifestOf(b) /\ pc[b] = "link_manifest"
              \/ names'[p] = Bundle(b) /\ pc[b] = "link_bundle"
      BY <1>1, <1>3, <2>1, Linked
    <3>2. \/ f = ManifestOf(b) /\ pc[b] = "link_manifest"
          \/ f = Bundle(b) /\ pc[b] = "link_bundle"
      BY <1>3, <3>1
    <3>3. b = a
      BY <3>2 DEF Bundle, ManifestOf
    <3> QED BY <3>2, <3>3
  <2>2. CASE names[p] # NoFile
    BY <1>1, <1>3, <2>2, NamesAndDisk
  <2> QED BY <2>1, <2>2
<1> QED BY <1>1, <1>2, <1>3

\* An attempt that is past its manifest keeps finding it in place, durable from
\* the sync on.
LEMMA ManifestsStep ==
    ASSUME PublishInv, Publication
    PROVE  ManifestsInPlace'
<1> USE GivenStays, FileKinds DEF PublishInv
<1> SUFFICES ASSUME NEW a \in Attempt
             PROVE  /\ pc'[a] \in {"unlink_manifest", "sync_manifest"} =>
                          names'[manifest[a]] = ManifestOf(a)
                    /\ pc'[a] \in {"link_bundle", "unlink_bundle", "sync_bundle", "verify"} =>
                          disk'[manifest[a]] = ManifestOf(a)
                    /\ pc'[a] = "done" => Lasts(manifest[a], ManifestOf(a))'
  BY DEF ManifestsInPlace, ManifestOf
<1> USE PathsOfAttempts
<1>1. ManifestsInPlace /\ manifest[a] \in Path
  OBVIOUS
<1>2. disk[manifest[a]] = ManifestOf(a) /\ pc'[a] \notin AtRest =>
          disk'[manifest[a]] = ManifestOf(a)
  BY <1>1, DurableStays
<1>3. CASE Step(a)
  <2>1. pc'[a] = "done" => Lasts(manifest[a], ManifestOf(a))'
    <3>1. pc'[a] = "done" => disk'[manifest[a]] = ManifestOf(a)
      BY <1>1, <1>3, Arrives DEF ManifestsInPlace
    <3> QED BY <3>1 DEF Lasts, ManifestOf
  <2> QED BY <1>1, <1>2, <1>3, <2>1, Arrives DEF ManifestsInPlace, AtRest
<1>4. CASE pc'[a] = pc[a]
  <2>1. names[manifest[a]] = ManifestOf(a) /\ pc'[a] \notin AtRest =>
            names'[manifest[a]] = ManifestOf(a)
    BY <1>1, VisibleStays
  <2>2. pc[a] = "done" => Lasts(manifest[a], ManifestOf(a))'
    <3>1. pc[a] = "done" => Lasts(manifest[a], ManifestOf(a))
      BY <1>1 DEF ManifestsInPlace
    <3>2. PICK p \in Path : p = manifest[a] /\ manifest'[a] = manifest[a]
      BY <1>1
    <3>3. pc[a] = "done" => Lasts(p, ManifestOf(a))'
      BY <3>1, <3>2, ReportedLasts
    <3> QED BY <3>2, <3>3 DEF Lasts
  <2> QED BY <1>1, <1>2, <1>4, <2>1, <2>2 DEF ManifestsInPlace, AtRest
<1> QED BY <1>3, <1>4, Moves

\* A bundle appears only in the path and behind the durable manifest of the
\* attempt that linked it, and is lost before a manifest that stays with it.
LEMMA BundlesStep ==
    ASSUME PublishInv, Publication
    PROVE  BundlesFollow'
<1> SUFFICES ASSUME NEW p \in Path, NEW a \in Attempt, names'[p] = Bundle(a)
             PROVE  /\ output[a] = p
                    /\ HasLinkedBundle(a)'
                    /\ StaysWith(a) => disk'[manifest[a]] = ManifestOf(a)
  <2>1. Path' = Path /\ output' = output /\ manifest' = manifest /\ established' = established
    BY GivenStays DEF Path
  <2> QED BY <2>1 DEF BundlesFollow, Bundle, ManifestOf, StaysWith
<1> USE FileKinds, PathsOfAttempts DEF PublishInv
<1>1. CASE names[p] = Bundle(a)
  <2>1. /\ output[a] = p /\ HasLinkedBundle(a)
        /\ StaysWith(a) => disk[manifest[a]] = ManifestOf(a)
    BY <1>1 DEF BundlesFollow
  <2>2. HasLinkedBundle(a)'
    BY <2>1, Moves, Arrives DEF HasLinkedBundle
  <2>3. ASSUME StaysWith(a)
        PROVE  disk'[manifest[a]] = ManifestOf(a)
    <3>1. PowerLoss => home[p] \in kept
      BY NamesAndDisk, FileKinds
    <3>2. PowerLoss => home[manifest[a]] \in kept
      BY <2>1, <2>3, <3>1 DEF StaysWith, PublishTypeOK
    <3> QED BY <2>1, <2>3, <3>2, NamesAndDisk
  <2> QED BY <2>1, <2>2, <2>3
<1>2. CASE names[p] # Bundle(a)
  <2>1. names[p] = NoFile
    BY <1>2, NamesAndDisk DEF DurableIsVisible
  <2>2. PICK b \in Attempt :
            \/ names'[p] = ManifestOf(b)
            \/ /\ p = output[b] /\ names'[p] = Bundle(b)
               /\ pc[b] = "link_bundle" /\ pc'[b] = "unlink_bundle"
    BY <2>1, Linked
  <2>3. b = a /\ p = output[b] /\ pc[b] = "link_bundle" /\ pc'[b] = "unlink_bundle"
    BY <2>2
  <2>4. disk[manifest[a]] = ManifestOf(a)
    BY <2>3 DEF ManifestsInPlace
  <2>5. disk'[manifest[a]] = ManifestOf(a)
    BY <2>3, <2>4, DurableStays DEF AtRest
  <2> QED BY <2>3, <2>5 DEF HasLinkedBundle
<1> QED BY <1>1, <1>2

\* An attempt that has linked its bundle keeps finding it there, durable from the
\* sync on.
LEMMA ResultsStep ==
    ASSUME PublishInv, Publication
    PROVE  ResultsInPlace'
<1> USE GivenStays, FileKinds DEF PublishInv
<1> SUFFICES ASSUME NEW a \in Attempt
             PROVE  /\ pc'[a] \in {"unlink_bundle", "sync_bundle"} =>
                          names'[output[a]] = Bundle(a)
                    /\ pc'[a] = "verify" => disk'[output[a]] = Bundle(a)
                    /\ pc'[a] = "done" => Lasts(output[a], Bundle(a))'
  BY DEF ResultsInPlace, Bundle
<1> USE PathsOfAttempts
<1>1. ResultsInPlace /\ output[a] \in Path
  OBVIOUS
<1>2. disk[output[a]] = Bundle(a) /\ pc'[a] \notin AtRest => disk'[output[a]] = Bundle(a)
  BY <1>1, DurableStays
<1>3. CASE Step(a)
  <2>1. pc'[a] = "done" => Lasts(output[a], Bundle(a))'
    <3>1. pc'[a] = "done" => disk'[output[a]] = Bundle(a)
      BY <1>1, <1>3, Arrives DEF ResultsInPlace
    <3> QED BY <3>1 DEF Lasts, Bundle
  <2> QED BY <1>1, <1>2, <1>3, <2>1, Arrives DEF ResultsInPlace, AtRest
<1>4. CASE pc'[a] = pc[a]
  <2>1. names[output[a]] = Bundle(a) /\ pc'[a] \notin AtRest => names'[output[a]] = Bundle(a)
    BY <1>1, VisibleStays
  <2>2. pc[a] = "done" => Lasts(output[a], Bundle(a))'
    <3>1. pc[a] = "done" => Lasts(output[a], Bundle(a))
      BY <1>1 DEF ResultsInPlace
    <3>2. PICK p \in Path : p = output[a] /\ output'[a] = output[a]
      BY <1>1
    <3>3. pc[a] = "done" => Lasts(p, Bundle(a))'
      BY <3>1, <3>2, ReportedLasts
    <3> QED BY <3>2, <3>3 DEF Lasts
  <2> QED BY <1>1, <1>2, <1>4, <2>1, <2>2 DEF ResultsInPlace, AtRest
<1> QED BY <1>3, <1>4, Moves

\* An attempt has no staging file where the code has none to discard.
LEMMA StagesStep ==
    ASSUME PublishInv, Publication
    PROVE  StagesOfSteps'
<1> USE DEF PublishInv
<1> SUFFICES ASSUME NEW a \in Attempt
             PROVE  /\ pc'[a] \in {"check", "stage_bundle", "sync_bundle", "verify", "done",
                                  "failed"} =>
                          <<a, "bundle">> \notin staged'
                    /\ pc'[a] \in {"check", "stage_bundle", "stage_manifest", "sync_manifest",
                                  "link_bundle", "unlink_bundle", "sync_bundle", "verify",
                                  "done", "failed"} =>
                          <<a, "manifest">> \notin staged'
  BY DEF StagesOfSteps
<1>1. CASE Step(a)
  BY <1>1, Unstages
<1>2. CASE /\ pc'[a] = pc[a]
           /\ KeepsStages(a)
  BY <1>2 DEF StagesOfSteps, KeepsStages
<1>3. CASE pc'[a] = "failed" /\ pc[a] \in {"check", "stage_bundle"} /\ staged' = staged
  BY <1>3 DEF StagesOfSteps
<1> QED BY <1>1, <1>2, <1>3, Moves

\* The invariant is inductive.
LEMMA PublishInvStep ==
    ASSUME PublishInv, Publication
    PROVE  PublishInv'
BY TypeStep, VisibleStep, ManifestsStep, BundlesStep, ResultsStep, StagesStep DEF PublishInv

-----------------------------------------------------------------------------
(* What the invariant gives.                                               *)

\* The invariant keeps bundles with their manifests.
LEMMA PairedOfInv ==
    ASSUME PublishInv
    PROVE  BundleHasItsManifest
<1> USE FileKinds, PathsOfAttempts DEF PublishInv
<1>1. ASSUME NEW o \in Output, names[o].kind = "bundle"
      PROVE  \E a \in Attempt :
                /\ output[a] = o
                /\ names[o] = Bundle(a)
                /\ StaysWith(a) => disk[manifest[a]] = ManifestOf(a)
  <2>1. PICK a \in Attempt : names[o] = Bundle(a)
    <3>1. names[o] \in Files
      BY DEF PublishTypeOK, Path
    <3>2. names[o] # NoFile /\ \A b \in Attempt : names[o] # ManifestOf(b)
      BY <1>1 DEF NoFile, ManifestOf
    <3> QED BY <3>1, <3>2 DEF Files
  <2> QED BY <2>1 DEF BundlesFollow, Path
<1>2. Paired(names)
  BY <1>1 DEF Paired, DurableIsVisible
<1>3. ASSUME NEW o \in Output, Surviving[o].kind = "bundle"
      PROVE  \E a \in Attempt :
                /\ output[a] = o
                /\ Surviving[o] = Bundle(a)
                /\ StaysWith(a) => Surviving[manifest[a]] = ManifestOf(a)
  <2>1. home[o] \in kept /\ Surviving[o] = disk[o] /\ disk[o] = names[o]
    BY <1>3 DEF Surviving, DurableIsVisible, Path, NoFile
  <2>2. PICK a \in Attempt :
            /\ output[a] = o
            /\ names[o] = Bundle(a)
            /\ StaysWith(a) => disk[manifest[a]] = ManifestOf(a)
    BY <1>1, <1>3, <2>1
  <2>3. StaysWith(a) => home[manifest[a]] \in kept
    BY <2>1, <2>2 DEF StaysWith, PublishTypeOK
  <2> QED BY <2>1, <2>2, <2>3 DEF Surviving
<1>4. Paired(Surviving)
  BY <1>3 DEF Paired
<1> QED BY <1>2, <1>4 DEF BundleHasItsManifest

\* The invariant keeps what was reported durable.
LEMMA DurableOfInv ==
    ASSUME PublishInv
    PROVE  SuccessIsDurable
BY PathsOfAttempts
   DEF PublishInv, PublishTypeOK, ManifestsInPlace, ResultsInPlace, Lasts, SuccessIsDurable,
       Survives, Surviving

\* The invariant leaves nothing staged behind a failure.
LEMMA StagesOfInv ==
    ASSUME PublishInv
    PROVE  FailureLeavesNoStage
<1> SUFFICES ASSUME NEW a \in Attempt, pc[a] \in {"done", "failed"},
                    NEW file \in staged \cap ({a} \X {"bundle", "manifest"})
             PROVE  FALSE
  BY DEF FailureLeavesNoStage
<1>1. file = <<a, "bundle">> \/ file = <<a, "manifest">>
  OBVIOUS
<1> QED BY <1>1 DEF PublishInv, StagesOfSteps

\* Attempts that look at their inputs, publish, fail, are killed or lose power, in
\* any order, keep the invariant of the publication.
THEOREM PublishInvariant == EvidenceSpec => []PublishInv
<1>1. EvidenceInit => PublishInv
  BY PublishInvHolds DEF EvidenceInit
<1>2. PublishInv /\ [EvidenceNext]_evidenceVars => PublishInv'
  BY PublishInvStep, EvidenceStepPublishes
<1> QED BY <1>1, <1>2, PTL DEF EvidenceSpec

\* finalize() never leaves a bundle, now or after a power loss, without the manifest of
\* the same attempt, whatever competes with it and wherever it ends, unless the
\* manifest is in a directory of its own that was new.
THEOREM BundlesHaveManifests == EvidenceSpec => []BundleHasItsManifest
BY PublishInvariant, PairedOfInv, PTL

\* What finalize() has reported as published survives every later power loss, in
\* directories that were there before.
THEOREM SuccessLasts == EvidenceSpec => []SuccessIsDurable
BY PublishInvariant, DurableOfInv, PTL

\* finalize() that raises has left no staging file, wherever it failed.
THEOREM FailureCleansUp == EvidenceSpec => []FailureLeavesNoStage
BY PublishInvariant, StagesOfInv, PTL

-----------------------------------------------------------------------------
(* The pair of files behaves as one that is published at a stroke.         *)

Reported == {a \in Attempt : pc[a] = "done"}
Lasting == {a \in Attempt : {home[output[a]], home[manifest[a]]} \subseteq kept}

IsThere(o, a) == names[o] = Bundle(a) /\ names[manifest[a]] = ManifestOf(a)

\* A bundle path has the pair of one attempt, or of none.
LEMMA PublishedIs ==
    ASSUME NEW o \in Output
    PROVE  /\ \A a \in Attempt : IsThere(o, a) => Published[o] = a
           /\ (~ \E a \in Attempt : IsThere(o, a)) => Published[o] = Nobody
           /\ \A a \in Attempt : IsThere(o, a)' => Published'[o] = a
           /\ (~ \E a \in Attempt : IsThere(o, a)') => Published'[o] = Nobody
BY FileKinds DEF Published, IsThere, Bundle, ManifestOf

\* Who has published what is a matter of who is there.
LEMMA SamePublished ==
    ASSUME \A o \in Output, a \in Attempt : IsThere(o, a)' <=> IsThere(o, a)
    PROVE  Published' = Published
<1>1. ASSUME NEW o \in Output
      PROVE  Published'[o] = Published[o]
  <2>1. CASE \E a \in Attempt : IsThere(o, a)
    BY <2>1, PublishedIs
  <2>2. CASE ~ \E a \in Attempt : IsThere(o, a)
    BY <2>2, PublishedIs
  <2> QED BY <2>1, <2>2
<1> QED BY <1>1 DEF Published

\* An attempt that moves without ending well reports nothing.
LEMMA ReportedStays ==
    ASSUME PublishTypeOK, NEW a \in Attempt, NEW place \in Places, pc[a] # "done", place # "done",
           pc' = [pc EXCEPT ![a] = place]
    PROVE  Reported' = Reported
BY DEF PublishTypeOK, Reported

\* The manifest comes before the bundle, and completes no pair.
LEMMA ManifestCompletesNone ==
    ASSUME PublishInv, NEW a \in Attempt, LinkManifest(a)
    PROVE  Published' = Published
<1> USE PathsOfAttempts, FileKinds DEF PublishInv
<1>1. manifest' = manifest /\ pc[a] = "link_manifest"
  BY DEF LinkManifest, Go, given
<1>2. CASE names' = names
  BY <1>1, <1>2, SamePublished DEF IsThere, Bundle, ManifestOf
<1>3. CASE /\ names[manifest[a]] = NoFile
           /\ names' = [names EXCEPT ![manifest[a]] = ManifestOf(a)]
  <2>1. ASSUME NEW o \in Output, NEW b \in Attempt
        PROVE  IsThere(o, b)' <=> IsThere(o, b)
    <3>1. o \in Path /\ IsThere(o, b)' <=>
              names'[o] = Bundle(b) /\ names'[manifest[b]] = ManifestOf(b)
      BY <1>1 DEF IsThere, Bundle, ManifestOf, Path
    <3>2. names'[o] = Bundle(b) <=> names[o] = Bundle(b)
      BY <1>3 DEF PublishTypeOK, Path
    <3>3. CASE names[o] = Bundle(b)
      <4>1. b # a
        BY <1>1, <3>3 DEF BundlesFollow, HasLinkedBundle, Path
      <4>2. ManifestOf(a) # ManifestOf(b)
        BY <4>1 DEF ManifestOf
      <4>3. names'[manifest[b]] = ManifestOf(b) <=> names[manifest[b]] = ManifestOf(b)
        BY <1>3, <4>2 DEF PublishTypeOK
      <4> QED BY <3>1, <3>2, <4>3 DEF IsThere, Path
    <3> QED BY <3>1, <3>2, <3>3 DEF IsThere, Path
  <2> QED BY <2>1, SamePublished
<1> QED BY <1>2, <1>3 DEF LinkManifest

\* The bundle completes the pair of its attempt, and no other.
LEMMA BundleCompletesOwn ==
    ASSUME PublishInv, NEW a \in Attempt, LinkBundle(a)
    PROVE  \/ Published' = Published
           \/ /\ Published[output[a]] = Nobody
              /\ Published' = [Published EXCEPT ![output[a]] = a]
<1> USE PathsOfAttempts, FileKinds DEF PublishInv
<1>1. manifest' = manifest /\ names[manifest[a]] = ManifestOf(a) /\ output[a] \in Output
  BY DEF LinkBundle, Go, given, ManifestsInPlace, DurableIsVisible, PublishTypeOK
<1>2. CASE names' = names
  BY <1>1, <1>2, SamePublished DEF IsThere, Bundle, ManifestOf
<1>3. CASE names[output[a]] = NoFile /\ names' = [names EXCEPT ![output[a]] = Bundle(a)]
  <2>1. Published[output[a]] = Nobody
    BY <1>1, <1>3, PublishedIs DEF IsThere
  <2>2. Published'[output[a]] = a
    <3>1. IsThere(output[a], a)'
      BY <1>1, <1>3 DEF IsThere, PublishTypeOK, Bundle, ManifestOf, LinkBundle, given
    <3>2. \A o \in Output : IsThere(o, a)' => Published'[o] = a
      BY PublishedIs
    <3>3. output'[a] = output[a]
      BY DEF LinkBundle, given
    <3>4. \E o \in Output : o = output[a] /\ IsThere(o, a)'
      BY <1>1, <3>1, <3>3 DEF IsThere
    <3> QED BY <3>2, <3>4
  <2>3. ASSUME NEW o \in Output, o # output[a]
        PROVE  Published'[o] = Published[o]
    <3>1. ASSUME NEW b \in Attempt
          PROVE  IsThere(o, b)' <=> IsThere(o, b)
      <4>1. o \in Path /\ names'[o] = names[o]
        BY <1>3, <2>3 DEF PublishTypeOK, Path
      <4>2. names'[manifest[b]] = ManifestOf(b) <=> names[manifest[b]] = ManifestOf(b)
        BY <1>3 DEF PublishTypeOK
      <4> QED BY <1>1, <4>1, <4>2 DEF IsThere, Bundle, ManifestOf
    <3>2. CASE \E b \in Attempt : IsThere(o, b)
      BY <3>1, <3>2, PublishedIs
    <3>3. CASE ~ \E b \in Attempt : IsThere(o, b)
      BY <3>1, <3>3, PublishedIs
    <3> QED BY <3>2, <3>3
  <2>4. Published' = [Published EXCEPT ![output[a]] = a]
    BY <1>1, <2>2, <2>3 DEF Published
  <2> QED BY <2>1, <2>4
<1> QED BY <1>2, <1>3 DEF LinkBundle

\* A step of an attempt publishes its pair, reports it, or does neither.
LEMMA PairOfStep ==
    ASSUME PublishInv, NEW a \in Attempt, Step(a)
    PROVE  \/ /\ Published[output[a]] = Nobody
              /\ Published' = [Published EXCEPT ![output[a]] = a]
              /\ Reported' = Reported
           \/ /\ Published[output[a]] = a
              /\ Reported' = Reported \cup {a}
              /\ Published' = Published
           \/ Published' = Published /\ Reported' = Reported
<1> USE PathsOfAttempts, FileKinds DEF PublishInv
<1>1. ASSUME names' = names, manifest' = manifest
      PROVE  Published' = Published
  BY <1>1, SamePublished DEF IsThere, Bundle, ManifestOf
<1>2. CASE /\ names' = names /\ manifest' = manifest
           /\ \E place \in Places \ {"done"} : pc[a] # "done" /\ pc' = [pc EXCEPT ![a] = place]
  BY <1>1, <1>2, ReportedStays
<1>3. CASE LinkManifest(a)
  <2>1. Reported' = Reported
    BY <1>3, ReportedStays DEF LinkManifest, Go, Places
  <2> QED BY <1>3, <2>1, ManifestCompletesNone
<1>4. CASE LinkBundle(a)
  <2>1. Reported' = Reported
    BY <1>4, ReportedStays DEF LinkBundle, Go, Places
  <2> QED BY <1>4, <2>1, BundleCompletesOwn
<1>5. CASE VerifyPublished(a) /\ pc'[a] = "done"
  <2>1. /\ names[output[a]] = Bundle(a) /\ names' = names /\ manifest' = manifest
        /\ pc[a] = "verify" /\ pc' = [pc EXCEPT ![a] = "done"]
    BY <1>5 DEF VerifyPublished, Go, PublishTypeOK, given
  <2>2. names[manifest[a]] = ManifestOf(a)
    BY <2>1 DEF ManifestsInPlace, DurableIsVisible
  <2>3. Published[output[a]] = a /\ Published' = Published
    BY <1>1, <2>1, <2>2, PublishedIs DEF IsThere, PublishTypeOK
  <2>4. Reported' = Reported \cup {a}
    BY <2>1 DEF Reported, PublishTypeOK
  <2> QED BY <2>3, <2>4
<1>6. CASE VerifyPublished(a) /\ pc'[a] # "done"
  BY <1>2, <1>6 DEF VerifyPublished, Go, PublishTypeOK, Places, given
<1>7. CASE MakeDirectory(a)
  BY <1>1, <1>7 DEF MakeDirectory, given, Reported
<1> QED
  BY <1>2, <1>3, <1>4, <1>5, <1>6, <1>7
     DEF Step, Go, CheckAbsent, StageBundle, StageManifest, UnlinkManifest, SyncManifest,
         UnlinkBundle, SyncBundle, Cleanup, Places, given

\* A power loss takes back only what was not reported, or was in a directory that
\* goes.
LEMMA PairOfPowerLoss ==
    ASSUME PublishInv, PowerLoss
    PROVE  /\ Reported' = Reported
           /\ \A o \in Output :
                 \/ Published'[o] = Published[o]
                 \/ Published'[o] = Nobody /\ Published[o] \notin Reported \cap Lasting
<1> USE PathsOfAttempts, FileKinds DEF PublishInv
<1>1. Reported' = Reported
  BY DEF PowerLoss, Reported, PublishTypeOK, Final
<1>2. manifest' = manifest /\ names' = Surviving
  BY DEF PowerLoss, given
<1>3. ASSUME NEW o \in Output, NEW b \in Attempt, IsThere(o, b)'
      PROVE  IsThere(o, b)
  <2>1. Surviving[o] = Bundle(b) /\ Surviving[manifest[b]] = ManifestOf(b)
    BY <1>2, <1>3 DEF IsThere, Bundle, ManifestOf
  <2> QED BY <2>1 DEF Surviving, DurableIsVisible, IsThere, Path
<1>4. ASSUME NEW o \in Output, NEW b \in Attempt, IsThere(o, b), b \in Reported \cap Lasting
      PROVE  IsThere(o, b)'
  <2>1. output[b] = o /\ o \in Path
    BY <1>4 DEF IsThere, BundlesFollow, Path
  <2>2. disk[o] = Bundle(b) /\ disk[manifest[b]] = ManifestOf(b)
    BY <1>4, <2>1 DEF IsThere, Reported, ResultsInPlace, ManifestsInPlace, Lasts
  <2>3. Surviving[o] = Bundle(b) /\ Surviving[manifest[b]] = ManifestOf(b)
    BY <1>4, <2>1, <2>2 DEF Surviving, Lasting
  <2> QED BY <1>2, <2>3 DEF IsThere, Bundle, ManifestOf
<1>5. ASSUME NEW o \in Output, Published'[o] # Published[o]
      PROVE  Published'[o] = Nobody /\ Published[o] \notin Reported \cap Lasting
  <2>1. ~ \E b \in Attempt : IsThere(o, b)'
    BY <1>3, <1>5, PublishedIs
  <2>2. CASE \E b \in Attempt : IsThere(o, b)
    BY <1>4, <2>1, <2>2, PublishedIs
  <2>3. CASE ~ \E b \in Attempt : IsThere(o, b)
    BY <1>5, <2>1, <2>3, PublishedIs
  <2> QED BY <2>1, <2>2, <2>3, PublishedIs
<1> QED BY <1>1, <1>5

\* A step of the publication is one of the pair, or a stutter.
LEMMA PairOfPublication ==
    ASSUME PublishInv, Publication
    PROVE  [Pair!Next]_(Pair!vars)
<1> DEFINE stutters == /\ output' = output /\ Published' = Published
                       /\ Reported' = Reported /\ Lasting' = Lasting
<1>1. stutters => [Pair!Next]_(Pair!vars)
  BY DEF Pair!vars, Reported, Lasting
<1>2. output' = output /\ manifest' = manifest
  BY GivenStays
<1>3. ASSUME kept' = kept
      PROVE  Lasting' = Lasting
  BY <1>2, <1>3 DEF Lasting
<1>4. ASSUME names' = names
      PROVE  Published' = Published
  BY <1>2, <1>4, SamePublished DEF IsThere, Bundle, ManifestOf
<1>5. ASSUME NEW a \in Attempt, Step(a)
      PROVE  [Pair!Next]_(Pair!vars)
  <2>1. kept' = kept
    BY <1>5
       DEF Step, CheckAbsent, MakeDirectory, StageBundle, StageManifest, LinkManifest,
           UnlinkManifest, SyncManifest, LinkBundle, UnlinkBundle, SyncBundle,
           VerifyPublished, Cleanup, directoryVars
  <2> QED BY <1>1, <1>2, <1>3, <1>5, <2>1, PairOfStep
          DEF Pair!Next, Pair!Publish, Pair!Report, Reported, Lasting
<1>6. ASSUME NEW a \in Attempt, CallFails(a) \/ Kill(a) \/ GiveUp(a)
      PROVE  stutters
  <2>1. names' = names /\ pc[a] # "done" /\ kept' = kept
    BY <1>6 DEF CallFails, Kill, GiveUp, Final, directoryVars
  <2>2. \E place \in Places \ {"done"} : pc' = [pc EXCEPT ![a] = place]
    BY <1>6 DEF CallFails, Kill, GiveUp, Places
  <2> QED BY <1>2, <1>3, <1>4, <2>1, <2>2, ReportedStays DEF PublishInv
<1>7. ASSUME NEW p \in Path, WriteBack(p)
      PROVE  stutters
  BY <1>2, <1>3, <1>4, <1>7 DEF WriteBack, Reported, directoryVars
<1>8. ASSUME NEW d \in Directory, WriteBackDirectory(d)
      PROVE  [Pair!Next]_(Pair!vars)
  <2>1. Published' = Published /\ Reported' = Reported
    BY <1>4, <1>8 DEF WriteBackDirectory, Reported
  <2>2. Lasting \subseteq Lasting' /\ Lasting' \in SUBSET Attempt
    BY <1>2, <1>8 DEF WriteBackDirectory, Lasting
  <2> QED BY <1>2, <2>1, <2>2 DEF Pair!Next, Pair!Settle, Reported, Lasting
<1>9. CASE PowerLoss
  <2> DEFINE lost == {o \in Output : Published'[o] # Published[o]}
  <2>1. /\ lost \in SUBSET Output
        /\ \A o \in lost : Published[o] \notin Reported \cap Lasting
        /\ Published' = [o \in Output |-> IF o \in lost THEN Nobody ELSE Published[o]]
    BY <1>9, PairOfPowerLoss DEF Published
  <2>2. Reported' = Reported /\ Lasting' = Lasting
    BY <1>3, <1>9, PairOfPowerLoss DEF PowerLoss
  <2> QED BY <1>2, <2>1, <2>2 DEF Pair!Next, Pair!Lose, Reported, Lasting
<1>10. ASSUME UNCHANGED vars
       PROVE  stutters
  BY <1>2, <1>3, <1>4, <1>10 DEF vars, directoryVars, Reported
<1> QED BY <1>1, <1>5, <1>6, <1>7, <1>8, <1>9, <1>10 DEF Publication

\* At the start no pair is published.
LEMMA PairOfInit ==
    ASSUME Init
    PROVE  Pair!Init
BY DEF Init, Pair!Init, Published, NoFile, Bundle, Path

\* The two links, two syncs and the verification of finalize(), interleaved with
\* those of others and with every fault, implement the publication of a pair at
\* a stroke that nobody replaces and that, once reported, nothing takes back but
\* the loss of a directory whose own entry was not written back.
THEOREM PublishesAtAStroke == EvidenceSpec => PairSpec
<1>1. EvidenceInit => Pair!Init
  BY PairOfInit DEF EvidenceInit
<1>2. PublishInv /\ [EvidenceNext]_evidenceVars => [Pair!Next]_(Pair!vars)
  BY PairOfPublication, EvidenceStepPublishes
<1> QED BY <1>1, <1>2, PublishInvariant, PTL DEF EvidenceSpec, PairSpec, Pair!Spec
-----------------------------------------------------------------------------
(* The runs, whose files an attempt reads.                                 *)

Active == UnderWay \cup {"first"}

RunnerTypeOK ==
    /\ tools \in Nat
    /\ at \in [Runner -> {"start"} \cup Active \cup Ended]
    /\ measured = [r \in Runner |-> measured[r]]
    /\ cases \in [Runner -> Nat]
    /\ stat_read = [r \in Runner |-> stat_read[r]]
    /\ digest_read = [r \in Runner |-> digest_read[r]]

\* No run will write this report any more.
ReportSpent(version) ==
    /\ version.of \in Runner
    /\ version.status \in {"running", "completed", "failed"}
    /\ version.cases \in Nat
    /\ version.status = "running" =>
          at[version.of] \notin {"start", "first"} /\ version.cases <= cases[version.of]
    /\ version.status = "completed" =>
          at[version.of] \notin {"start", "first", "measure", "complete"}
    /\ version.status = "failed" => at[version.of] \in Ended

\* No run will write this manifest any more.
ManifestSpent(version) ==
    version.of \in Runner /\ at[version.of] \in {"sync", "failing"} \cup Ended

Spent(name, version) ==
    CASE name = "report" -> ReportSpent(version)
      [] name = "manifest" -> ManifestSpent(version)

\* The files in place are among those.
FilesSpent ==
    /\ report = NoReport \/ ReportSpent(report)
    /\ vouching = NoManifest \/ ManifestSpent(vouching)

\* One run at a time: it finds its own completed report where it left it.
RunsAlone ==
    one_by_one =>
        /\ \A r, q \in Runner : r # q /\ at[r] \in Active => at[q] \notin Active
        /\ \A r \in Runner :
              /\ at[r] \in {"stat", "digest", "vouch"} => report = Version(r, "completed")
              /\ at[r] \in {"digest", "vouch"} => stat_read[r] = report
              /\ at[r] = "vouch" => digest_read[r] = report
        /\ \/ vouching = NoManifest
           \/ /\ vouching.report.stat.status = "completed"
              /\ vouching.tools = vouching.report.stat.tools

RunnerInv == RunnerTypeOK /\ FilesSpent /\ RunsAlone

-----------------------------------------------------------------------------
(* What an attempt knows of its inputs after each look.                    *)

LooksTypeOK ==
    /\ looks \in [Attempt -> 0 .. 15]
    /\ seen = [a \in Attempt |-> seen[a]]
    /\ identities = [a \in Attempt |-> [report |-> identities[a].report,
                                        manifest |-> identities[a].manifest]]
    /\ loaded = [a \in Attempt |-> [report |-> loaded[a].report,
                                    manifest |-> loaded[a].manifest]]
    /\ current \in [Attempt -> BOOLEAN]

\* One document, whose looks are those after the first k: while it is being
\* identified and read, what differs has been replaced for good.
DocumentLoaded(a, name, k) ==
    LET identity == identities[a][name]
        document == loaded[a][name]
    IN  /\ looks[a] = k /\ seen[a] # NotRead => Spent(name, seen[a])
        /\ looks[a] > k =>
              /\ Spent(name, identity.stat)
              /\ identity = [stat |-> identity.stat, digest |-> identity.digest]
              /\ identity.digest # identity.stat => File(name) # identity.stat
        /\ looks[a] > k + 1 /\ document # identity.stat => File(name) # identity.stat
        /\ looks[a] = k + 2 /\ seen[a] # NotRead /\ seen[a] = identity.stat =>
              identity = Identity(document)
        /\ looks[a] > k + 2 => identity = Identity(document)

\* The executables that the manifest names were there when they were compared.
ToolsCompared(a) ==
    looks[a] > 8 => loaded[a].manifest.tools \in Nat /\ loaded[a].manifest.tools <= tools

Replaced(a) == report # loaded[a].report
Rebuilt(a) == tools # loaded[a].manifest.tools

\* When the manifest is seen again, everything is in place, or something has
\* changed for good; and then one of the next looks fails.
InputsReverified(a) ==
    /\ looks[a] = 10 /\ seen[a] # NotRead /\ seen[a] = loaded[a].manifest =>
          current[a] \/ Replaced(a) \/ Rebuilt(a)
    /\ looks[a] > 10 => current[a] \/ Replaced(a) \/ Rebuilt(a)
    /\ looks[a] = 11 /\ seen[a] # NotRead /\ seen[a] = loaded[a].report =>
          current[a] \/ Rebuilt(a)
    /\ looks[a] > 11 => current[a] \/ Rebuilt(a)
    /\ looks[a] = 12 /\ seen[a] # NotRead /\ seen[a] = loaded[a].manifest.tools => current[a]
    /\ looks[a] > 12 => current[a]

Publishing == {"stage_manifest", "link_manifest", "unlink_manifest", "sync_manifest",
               "link_bundle", "unlink_bundle", "sync_bundle", "verify", "done"}

\* The looks stand before the steps of the publication.
LooksOfSteps(a) ==
    /\ pc[a] = "stage_bundle" => looks[a] > 8
    /\ pc[a] \in Publishing => looks[a] = 15

Attempted(a) ==
    /\ DocumentLoaded(a, "report", 0)
    /\ DocumentLoaded(a, "manifest", 3)
    /\ looks[a] > 6 => DocumentsAgree(a)
    /\ ToolsCompared(a)
    /\ InputsReverified(a)
    /\ LooksOfSteps(a)

InputsInv ==
    /\ RunnerInv
    /\ LooksTypeOK
    /\ \A a \in Attempt : Attempted(a)
-----------------------------------------------------------------------------
(* A step of a run.                                                        *)

\* A run keeps the types.
LEMMA RunnerTypeStep ==
    ASSUME RunnerTypeOK, NEW r \in Runner, Run(r)
    PROVE  RunnerTypeOK'
<1> USE DEF RunnerTypeOK, Active, UnderWay, Ended
<1>1. CASE Begin(r) BY <1>1 DEF Begin, Goto
<1>2. CASE FirstReport(r) BY <1>2 DEF FirstReport, Goto
<1>3. CASE AddCase(r) BY <1>3 DEF AddCase, Goto
<1>4. CASE VerifyMeasured(r) BY <1>4 DEF VerifyMeasured, Goto
<1>5. CASE Complete(r) BY <1>5 DEF Complete, Goto
<1>6. CASE StatReport(r) BY <1>6 DEF StatReport, Goto
<1>7. CASE DigestReport(r) BY <1>7 DEF DigestReport, Goto
<1>8. CASE WriteManifest(r) BY <1>8 DEF WriteManifest, Goto
<1>9. CASE Finish(r) BY <1>9 DEF Finish, Goto
<1>10. CASE CallRaises(r) BY <1>10 DEF CallRaises
<1>11. CASE ReportFailure(r) BY <1>11 DEF ReportFailure, Goto
<1>12. CASE StopRun(r) BY <1>12 DEF StopRun
<1> QED BY <1>1, <1>2, <1>3, <1>4, <1>5, <1>6, <1>7, <1>8, <1>9, <1>10, <1>11, <1>12 DEF Run

\* No run writes a report or a manifest a second time.
LEMMA SpentStays ==
    ASSUME RunnerTypeOK, NEW r \in Runner, Run(r), NEW version
    PROVE  /\ ReportSpent(version) =>
                 ReportSpent(version)' /\ (report # version => report' # version)
           /\ ManifestSpent(version) =>
                 ManifestSpent(version)' /\ (vouching # version => vouching' # version)
<1> USE DEF RunnerTypeOK, ReportSpent, ManifestSpent, Version, UnderWay, Ended
<1>1. CASE Begin(r) BY <1>1 DEF Begin, Goto
<1>2. CASE FirstReport(r) BY <1>2 DEF FirstReport, Goto
<1>3. CASE AddCase(r) BY <1>3 DEF AddCase, Goto
<1>4. CASE VerifyMeasured(r) BY <1>4 DEF VerifyMeasured, Goto
<1>5. CASE Complete(r) BY <1>5 DEF Complete, Goto
<1>6. CASE StatReport(r) BY <1>6 DEF StatReport, Goto
<1>7. CASE DigestReport(r) BY <1>7 DEF DigestReport, Goto
<1>8. CASE WriteManifest(r) BY <1>8 DEF WriteManifest, Goto
<1>9. CASE Finish(r) BY <1>9 DEF Finish, Goto
<1>10. CASE CallRaises(r) BY <1>10 DEF CallRaises
<1>11. CASE ReportFailure(r) BY <1>11 DEF ReportFailure, Goto
<1>12. CASE StopRun(r) BY <1>12 DEF StopRun
<1> QED BY <1>1, <1>2, <1>3, <1>4, <1>5, <1>6, <1>7, <1>8, <1>9, <1>10, <1>11, <1>12 DEF Run

\* What a run writes it will not write again.
LEMMA FilesStep ==
    ASSUME RunnerTypeOK, FilesSpent, NEW r \in Runner, Run(r)
    PROVE  FilesSpent'
<1> USE SpentStays DEF RunnerTypeOK, FilesSpent, ReportSpent, ManifestSpent, Version, Ended
<1>1. CASE Begin(r) BY <1>1 DEF Begin, Goto
<1>2. CASE FirstReport(r) BY <1>2 DEF FirstReport, Goto
<1>3. CASE AddCase(r) BY <1>3 DEF AddCase, Goto
<1>4. CASE VerifyMeasured(r) BY <1>4 DEF VerifyMeasured, Goto
<1>5. CASE Complete(r) BY <1>5 DEF Complete, Goto
<1>6. CASE StatReport(r) BY <1>6 DEF StatReport, Goto
<1>7. CASE DigestReport(r) BY <1>7 DEF DigestReport, Goto
<1>8. CASE WriteManifest(r) BY <1>8 DEF WriteManifest, Goto
<1>9. CASE Finish(r) BY <1>9 DEF Finish, Goto
<1>10. CASE CallRaises(r) BY <1>10 DEF CallRaises
<1>11. CASE ReportFailure(r) BY <1>11 DEF ReportFailure, Goto
<1>12. CASE StopRun(r) BY <1>12 DEF StopRun
<1> QED BY <1>1, <1>2, <1>3, <1>4, <1>5, <1>6, <1>7, <1>8, <1>9, <1>10, <1>11, <1>12 DEF Run

\* A run that is alone finds its report as it has left it, and vouches for it.
LEMMA AloneStep ==
    ASSUME RunnerTypeOK, RunsAlone, NEW r \in Runner, Run(r)
    PROVE  RunsAlone'
<1> USE DEF RunnerTypeOK, RunsAlone, Version, Active, UnderWay, Ended
<1>1. CASE Begin(r) BY <1>1 DEF Begin, Goto
<1>2. CASE FirstReport(r) BY <1>2 DEF FirstReport, Goto
<1>3. CASE AddCase(r) BY <1>3 DEF AddCase, Goto
<1>4. CASE VerifyMeasured(r) BY <1>4 DEF VerifyMeasured, Goto
<1>5. CASE Complete(r) BY <1>5 DEF Complete, Goto
<1>6. CASE StatReport(r) BY <1>6 DEF StatReport, Goto
<1>7. CASE DigestReport(r) BY <1>7 DEF DigestReport, Goto
<1>8. CASE WriteManifest(r) BY <1>8 DEF WriteManifest, Goto
<1>9. CASE Finish(r) BY <1>9 DEF Finish, Goto
<1>10. CASE CallRaises(r) BY <1>10 DEF CallRaises
<1>11. CASE ReportFailure(r) BY <1>11 DEF ReportFailure, Goto
<1>12. CASE StopRun(r) BY <1>12 DEF StopRun
<1> QED BY <1>1, <1>2, <1>3, <1>4, <1>5, <1>6, <1>7, <1>8, <1>9, <1>10, <1>11, <1>12 DEF Run
\* What the attempts can rely on while runs write and executables are rebuilt: a
\* version that has been replaced does not come back.
NothingReturns ==
    /\ tools' \in Nat /\ tools <= tools'
    /\ \A version : ReportSpent(version) =>
          ReportSpent(version)' /\ (report # version => report' # version)
    /\ \A version : ManifestSpent(version) =>
          ManifestSpent(version)' /\ (vouching # version => vouching' # version)

\* Runs and builds write the inputs; attempts and faults do not.
LEMMA InputsStep ==
    ASSUME RunnerInv, [EvidenceNext]_evidenceVars
    PROVE  RunnerInv' /\ NothingReturns
<1> USE DEF RunnerInv
<1>1. CASE UNCHANGED runnerVars
  BY <1>1
     DEF runnerVars, runVars, NothingReturns, RunnerTypeOK, FilesSpent, RunsAlone, ReportSpent,
         ManifestSpent, Version
<1>2. ASSUME NEW r \in Runner, Run(r)
      PROVE  RunnerInv' /\ NothingReturns
  <2>1. RunnerInv'
    BY <1>2, RunnerTypeStep, FilesStep, AloneStep
  <2>2. tools' = tools
    BY <1>2
       DEF Run, Begin, FirstReport, AddCase, VerifyMeasured, Complete, StatReport, DigestReport,
           WriteManifest, Finish, CallRaises, ReportFailure, StopRun
  <2>3. tools' \in Nat /\ tools <= tools'
    BY <2>2 DEF RunnerTypeOK
  <2> QED BY <1>2, <2>1, <2>3, SpentStays DEF NothingReturns
<1>3. CASE Rebuild
  BY <1>3
     DEF Rebuild, runVars, NothingReturns, RunnerTypeOK, FilesSpent, RunsAlone, ReportSpent,
         ManifestSpent, Version
<1>4. ASSUME NEW a \in Attempt, AttemptLooks(a) \/ AttemptPublishes(a)
      PROVE  UNCHANGED runnerVars
  BY <1>4 DEF AttemptLooks, AttemptPublishes
<1>5. CASE UNCHANGED evidenceVars
  BY <1>1, <1>5 DEF evidenceVars
<1> QED BY <1>1, <1>2, <1>3, <1>4, <1>5 DEF EvidenceNext, Fault, InputsWritten, NothingLeft

-----------------------------------------------------------------------------
(* A step beside an attempt, and a look of its own.                        *)

\* The looks, in their order.
LEMMA LooksInOrder ==
    /\ Len(Load) = 9 /\ Len(Looks) = 15
    /\ Looks[1] = Look("report", "identify") /\ Looks[2] = Look("report", "read")
    /\ Looks[3] = Look("report", "compare")
    /\ Looks[4] = Look("manifest", "identify") /\ Looks[5] = Look("manifest", "read")
    /\ Looks[6] = Look("manifest", "compare")
    /\ Looks[7] = Look("documents", "assemble")
    /\ Looks[8] = Look("report", "compare") /\ Looks[9] = Look("tools", "compare")
    /\ Looks[10] = Look("report", "compare") /\ Looks[11] = Look("manifest", "compare")
    /\ Looks[12] = Look("report", "compare") /\ Looks[13] = Look("tools", "compare")
    /\ Looks[14] = Look("report", "compare") /\ Looks[15] = Look("manifest", "compare")
BY DEF Looks, Load, Reverify

\* What an attempt knows it still knows after a step that is not its own.
LEMMA KnowledgeStays ==
    ASSUME InputsInv, NothingReturns, NEW a \in Attempt,
           looks'[a] = looks[a], seen'[a] = seen[a], identities'[a] = identities[a],
           loaded'[a] = loaded[a], current[a] => current'[a],
           pc'[a] = "stage_bundle" => looks[a] > 8,
           pc'[a] \in Publishing => looks[a] = 15
    PROVE  Attempted(a)'
<1>1. Attempted(a) /\ tools \in Nat /\ looks[a] \in Nat
  <2>1. Attempted(a)
    BY DEF InputsInv
  <2>2. tools \in Nat /\ looks[a] \in 0 .. 15
    BY DEF InputsInv, RunnerInv, RunnerTypeOK, LooksTypeOK
  <2> QED BY <2>1, <2>2
<1>2. DocumentLoaded(a, "report", 0)'
  BY <1>1 DEF Attempted, DocumentLoaded, NothingReturns, Spent, File, Identity
<1>3. DocumentLoaded(a, "manifest", 3)'
  BY <1>1 DEF Attempted, DocumentLoaded, NothingReturns, Spent, File, Identity
<1>4. (looks[a] > 6 => DocumentsAgree(a))'
  BY <1>1 DEF Attempted, DocumentsAgree
<1>5. ToolsCompared(a)' /\ LooksOfSteps(a)'
  BY <1>1 DEF Attempted, ToolsCompared, NothingReturns, LooksOfSteps, Publishing
<1>6. InputsReverified(a)'
  BY <1>1, <1>5
     DEF Attempted, DocumentLoaded, Identity, ToolsCompared, InputsReverified, NothingReturns,
         Replaced, Rebuilt, Spent
<1> QED BY <1>2, <1>3, <1>4, <1>5, <1>6 DEF Attempted
\* What a look sees is a version that does not come back.
LEMMA SeenIsSpent ==
    ASSUME RunnerInv, NEW name \in {"report", "manifest"}, Exists(name)
    PROVE  Spent(name, File(name))
BY DEF RunnerInv, FilesSpent, Exists, Spent, File

\* Which look is next, by how many have passed.
LEMMA NextLooks ==
    ASSUME NEW a \in Attempt, looks[a] \in 0 .. 14
    PROVE  /\ NextLook(a).how = "identify" =>
                 \/ looks[a] = 0 /\ NextLook(a).file = "report"
                 \/ looks[a] = 3 /\ NextLook(a).file = "manifest"
           /\ NextLook(a).how = "read" =>
                 \/ looks[a] = 1 /\ NextLook(a).file = "report"
                 \/ looks[a] = 4 /\ NextLook(a).file = "manifest"
           /\ NextLook(a).how = "assemble" => looks[a] = 6
           /\ NextLook(a).how = "compare" =>
                 \/ looks[a] \in {2, 7, 9, 11, 13} /\ NextLook(a).file = "report"
                 \/ looks[a] \in {5, 10, 14} /\ NextLook(a).file = "manifest"
                 \/ looks[a] \in {8, 12} /\ NextLook(a).file = "tools"
<1>1. \/ looks[a] = 0 \/ looks[a] = 1 \/ looks[a] = 2 \/ looks[a] = 3 \/ looks[a] = 4
      \/ looks[a] = 5 \/ looks[a] = 6 \/ looks[a] = 7 \/ looks[a] = 8 \/ looks[a] = 9
      \/ looks[a] = 10 \/ looks[a] = 11 \/ looks[a] = 12 \/ looks[a] = 13 \/ looks[a] = 14
  OBVIOUS
<1> QED BY <1>1, LooksInOrder DEF NextLook, Look

\* An attempt looks until all are done; the last six come after the absence check.
LEMMA LooksLeft ==
    ASSUME InputsInv, PublishTypeOK, NEW a \in Attempt, MayLook(a)
    PROVE  /\ Attempted(a) /\ looks[a] \in 0 .. 14 /\ looks[a] \in Nat
           /\ pc[a] \in {"check", "stage_bundle"}
           /\ looks[a] > 8 => pc[a] = "stage_bundle"
<1>1. looks[a] \in 0 .. 15 /\ Attempted(a)
  BY DEF InputsInv, LooksTypeOK
<1> QED BY <1>1, LooksInOrder DEF MayLook

\* A look that fails ends the attempt.
LEMMA RejectKnows ==
    ASSUME InputsInv, PublishTypeOK, NothingReturns, NEW a \in Attempt, MayLook(a), Reject(a),
           Observe
    PROVE  Attempted(a)'
<1>1. pc'[a] = "failed"
  BY DEF Reject, PublishTypeOK
<1>2. current[a] => current'[a]
  BY DEF Observe
<1> QED BY <1>1, <1>2, KnowledgeStays DEF Reject, Publishing

\* A look at a file first asks for its status.
LEMMA StatKnows ==
    ASSUME InputsInv, PublishTypeOK, NEW a \in Attempt, MayLook(a), Observe,
           NextLook(a).how \in {"identify", "compare"}, Exists(NextLook(a).file),
           seen' = [seen EXCEPT ![a] = File(NextLook(a).file)],
           UNCHANGED <<pc, looks, identities, loaded>>, UNCHANGED runnerVars
    PROVE  Attempted(a)'
<1> USE LooksLeft, NextLooks
<1>1. seen'[a] = File(NextLook(a).file)
  BY DEF InputsInv, LooksTypeOK
<1>2. /\ tools' = tools /\ report' = report /\ vouching' = vouching
      /\ \A v : \A name \in {"report", "manifest"} : Spent(name, v)' <=> Spent(name, v)
  BY DEF runnerVars, runVars, Spent, ReportSpent, ManifestSpent
<1>3. DocumentLoaded(a, "report", 0)'
  <2>1. DocumentLoaded(a, "report", 0)
    BY DEF Attempted
  <2> QED BY <1>1, <1>2, <2>1, SeenIsSpent DEF InputsInv, DocumentLoaded, File, Identity
<1>4. DocumentLoaded(a, "manifest", 3)'
  <2>1. DocumentLoaded(a, "manifest", 3)
    BY DEF Attempted
  <2> QED BY <1>1, <1>2, <2>1, SeenIsSpent DEF InputsInv, DocumentLoaded, File, Identity
<1>5. (looks[a] > 6 => DocumentsAgree(a))' /\ ToolsCompared(a)' /\ LooksOfSteps(a)'
  BY <1>2 DEF Attempted, DocumentsAgree, ToolsCompared, LooksOfSteps
<1>6. InputsReverified(a)'
  <2>1. current'[a] <=> current[a] \/ (pc[a] = "stage_bundle" /\ InPlace(a))
    BY DEF Observe
  <2> QED BY <1>1, <1>2, <2>1
          DEF Attempted, InputsReverified, Replaced, Rebuilt, InPlace, File
<1> QED BY <1>3, <1>4, <1>5, <1>6 DEF Attempted
\* The digest completes an identity: of a file that was replaced in between, or
\* is still the one whose status was taken.
LEMMA IdentifyKnows ==
    ASSUME InputsInv, PublishTypeOK, NEW a \in Attempt, MayLook(a), Observe,
           NextLook(a).how = "identify", seen[a] # NotRead,
           identities' = [identities EXCEPT ![a][NextLook(a).file] =
                            [stat |-> seen[a], digest |-> File(NextLook(a).file)]],
           Pass(a), UNCHANGED loaded, UNCHANGED runnerVars
    PROVE  Attempted(a)'
<1> USE LooksLeft, NextLooks
<1> PICK name \in {"report", "manifest"} : name = NextLook(a).file
  OBVIOUS
<1>1. /\ looks'[a] = looks[a] + 1 /\ seen'[a] = NotRead
      /\ pc' = pc /\ loaded' = loaded
  BY DEF InputsInv, LooksTypeOK, Pass
<1>2. /\ tools' = tools /\ report' = report /\ vouching' = vouching
      /\ \A v : \A file \in {"report", "manifest"} : Spent(file, v)' <=> Spent(file, v)
  BY DEF runnerVars, runVars, Spent, ReportSpent, ManifestSpent
<1>3. identities'[a] = [identities[a] EXCEPT ![name] = [stat |-> seen[a], digest |-> File(name)]]
  BY DEF InputsInv, LooksTypeOK
<1>4. identities[a] = [report |-> identities[a].report, manifest |-> identities[a].manifest]
  BY DEF InputsInv, LooksTypeOK
<1>5. /\ identities'[a][name] = [stat |-> seen[a], digest |-> File(name)]
      /\ \A file \in {"report", "manifest"} \ {name} : identities'[a][file] = identities[a][file]
  BY <1>3, <1>4
<1>6. DocumentLoaded(a, "report", 0)'
  <2>1. DocumentLoaded(a, "report", 0)
    BY DEF Attempted
  <2> QED BY <1>1, <1>2, <1>5, <2>1 DEF DocumentLoaded, File
<1>7. DocumentLoaded(a, "manifest", 3)'
  <2>1. DocumentLoaded(a, "manifest", 3)
    BY DEF Attempted
  <2> QED BY <1>1, <1>2, <1>5, <2>1 DEF DocumentLoaded, File
<1>8. (looks[a] > 6 => DocumentsAgree(a))' /\ ToolsCompared(a)' /\ LooksOfSteps(a)'
      /\ InputsReverified(a)'
  BY <1>1 DEF Attempted, LooksOfSteps, DocumentsAgree, ToolsCompared, InputsReverified, Publishing
<1> QED BY <1>6, <1>7, <1>8 DEF Attempted

\* A comparison passes when both parts of the identity are the expected ones.
LEMMA CompareKnows ==
    ASSUME InputsInv, PublishTypeOK, NEW a \in Attempt, MayLook(a), Observe,
           NextLook(a).how = "compare", seen[a] # NotRead,
           [stat |-> seen[a], digest |-> File(NextLook(a).file)] =
               Expected(a, NextLook(a).file),
           Pass(a), UNCHANGED <<identities, loaded>>, UNCHANGED runnerVars
    PROVE  Attempted(a)'
<1> USE LooksLeft, NextLooks
<1>1. /\ looks'[a] = looks[a] + 1 /\ seen'[a] = NotRead
      /\ pc' = pc /\ loaded' = loaded /\ identities' = identities
  BY DEF InputsInv, LooksTypeOK, Pass
<1>2. /\ tools' = tools /\ report' = report /\ vouching' = vouching
      /\ \A v : \A file \in {"report", "manifest"} : Spent(file, v)' <=> Spent(file, v)
  BY DEF runnerVars, runVars, Spent, ReportSpent, ManifestSpent
<1>3. /\ NextLook(a).file = "report" => seen[a] = identities[a].report.stat
      /\ NextLook(a).file = "manifest" => seen[a] = identities[a].manifest.stat
      /\ NextLook(a).file = "tools" =>
            seen[a] = loaded[a].manifest.tools /\ tools = loaded[a].manifest.tools
  BY DEF Expected, Identity, File
<1>4. DocumentLoaded(a, "report", 0)'
  <2>1. DocumentLoaded(a, "report", 0)
    BY DEF Attempted
  <2> QED BY <1>1, <1>2, <1>3, <2>1 DEF DocumentLoaded, File, Identity
<1>5. DocumentLoaded(a, "manifest", 3)'
  <2>1. DocumentLoaded(a, "manifest", 3)
    BY DEF Attempted
  <2> QED BY <1>1, <1>2, <1>3, <2>1 DEF DocumentLoaded, File, Identity
<1>6. (looks[a] > 6 => DocumentsAgree(a))' /\ LooksOfSteps(a)'
  BY <1>1 DEF Attempted, LooksOfSteps, DocumentsAgree, Publishing
<1>7. ToolsCompared(a)'
  BY <1>1, <1>2, <1>3
     DEF Attempted, ToolsCompared, InputsInv, RunnerInv, RunnerTypeOK
<1>8. InputsReverified(a)'
  <2>1. current[a] => current'[a]
    BY DEF Observe
  <2>2. /\ looks[a] > 2 => identities[a].report.stat = loaded[a].report
        /\ looks[a] > 5 => identities[a].manifest.stat = loaded[a].manifest
    <3>1. DocumentLoaded(a, "report", 0) /\ DocumentLoaded(a, "manifest", 3)
      BY DEF Attempted
    <3>2. looks[a] > 2 => identities[a].report = Identity(loaded[a].report)
      BY <3>1 DEF DocumentLoaded
    <3>3. looks[a] > 5 => identities[a].manifest = Identity(loaded[a].manifest)
      BY <3>1 DEF DocumentLoaded
    <3> QED BY <3>2, <3>3 DEF Identity
  <2> QED BY <1>1, <1>2, <1>3, <2>1, <2>2
          DEF Attempted, InputsReverified, Replaced, Rebuilt
<1> QED BY <1>4, <1>5, <1>6, <1>7, <1>8 DEF Attempted

\* What is read is what was identified, unless that has been replaced for good.
LEMMA ReadKnows ==
    ASSUME InputsInv, PublishTypeOK, NEW a \in Attempt, MayLook(a), Observe, Read(a),
           UNCHANGED runnerVars
    PROVE  Attempted(a)'
<1> USE LooksLeft, NextLooks
<1> PICK name \in {"report", "manifest"} : name = NextLook(a).file
  BY DEF Read
<1>1. /\ looks'[a] = looks[a] + 1 /\ seen'[a] = NotRead
      /\ pc' = pc /\ identities' = identities
  BY DEF InputsInv, LooksTypeOK, Pass, Read
<1>2. /\ tools' = tools /\ report' = report /\ vouching' = vouching
      /\ \A v : \A file \in {"report", "manifest"} : Spent(file, v)' <=> Spent(file, v)
  BY DEF runnerVars, runVars, Spent, ReportSpent, ManifestSpent
<1>3. loaded'[a] = [loaded[a] EXCEPT ![name] = File(name)]
  BY DEF InputsInv, LooksTypeOK, Read
<1>4. loaded[a] = [report |-> loaded[a].report, manifest |-> loaded[a].manifest]
  BY DEF InputsInv, LooksTypeOK
<1>5. /\ loaded'[a][name] = File(name)
      /\ \A file \in {"report", "manifest"} \ {name} : loaded'[a][file] = loaded[a][file]
  BY <1>3, <1>4
<1>6. \/ looks[a] = 1 /\ name = "report"
      \/ looks[a] = 4 /\ name = "manifest"
  BY DEF Read
<1>7. DocumentLoaded(a, "report", 0)'
  <2>1. DocumentLoaded(a, "report", 0)
    BY DEF Attempted
  <2> QED BY <1>1, <1>2, <1>5, <1>6, <2>1 DEF DocumentLoaded, File
<1>8. DocumentLoaded(a, "manifest", 3)'
  <2>1. DocumentLoaded(a, "manifest", 3)
    BY DEF Attempted
  <2> QED BY <1>1, <1>2, <1>5, <1>6, <2>1 DEF DocumentLoaded, File
<1>9. (looks[a] > 6 => DocumentsAgree(a))' /\ ToolsCompared(a)' /\ LooksOfSteps(a)'
      /\ InputsReverified(a)'
  BY <1>1, <1>6
     DEF Attempted, LooksOfSteps, DocumentsAgree, ToolsCompared, InputsReverified, Publishing
<1> QED BY <1>7, <1>8, <1>9 DEF Attempted

\* What is assembled agrees.
LEMMA AssembleKnows ==
    ASSUME InputsInv, PublishTypeOK, NEW a \in Attempt, MayLook(a), Observe,
           NextLook(a).how = "assemble", DocumentsAgree(a), Pass(a),
           UNCHANGED <<identities, loaded>>, UNCHANGED runnerVars
    PROVE  Attempted(a)'
<1> USE LooksLeft, NextLooks
<1>1. /\ looks[a] = 6 /\ looks'[a] = 7 /\ seen'[a] = NotRead
      /\ pc' = pc /\ identities' = identities /\ loaded' = loaded
  BY DEF InputsInv, LooksTypeOK, Pass
<1>2. /\ tools' = tools /\ report' = report /\ vouching' = vouching
      /\ \A v : \A file \in {"report", "manifest"} : Spent(file, v)' <=> Spent(file, v)
  BY DEF runnerVars, runVars, Spent, ReportSpent, ManifestSpent
<1>3. DocumentLoaded(a, "report", 0)' /\ DocumentLoaded(a, "manifest", 3)'
  BY <1>1, <1>2 DEF Attempted, DocumentLoaded, File, Identity
<1>4. DocumentsAgree(a)' /\ ToolsCompared(a)' /\ LooksOfSteps(a)' /\ InputsReverified(a)'
  BY <1>1
     DEF Attempted, LooksOfSteps, DocumentsAgree, ToolsCompared, InputsReverified, Publishing
<1> QED BY <1>3, <1>4 DEF Attempted
\* A look changes nothing of the other attempts.
LEMMA LookIsOwn ==
    ASSUME InputsInv, PublishTypeOK, NEW a \in Attempt, AttemptLooks(a)
    PROVE  /\ LooksTypeOK'
           /\ \A b \in Attempt \ {a} :
                 /\ looks'[b] = looks[b] /\ seen'[b] = seen[b] /\ pc'[b] = pc[b]
                 /\ identities'[b] = identities[b] /\ loaded'[b] = loaded[b]
<1> USE LooksLeft, NextLooks DEF AttemptLooks
<1>1. /\ looks' = looks \/ looks' = [looks EXCEPT ![a] = @ + 1]
      /\ pc' = pc \/ pc' = [pc EXCEPT ![a] = "failed"]
      /\ seen' = seen \/ \E v : seen' = [seen EXCEPT ![a] = v]
      /\ \/ identities' = identities
         \/ \E v : identities' = [identities EXCEPT ![a] = [@ EXCEPT !.report = v]]
         \/ \E v : identities' = [identities EXCEPT ![a] = [@ EXCEPT !.manifest = v]]
      /\ \/ loaded' = loaded
         \/ \E v : loaded' = [loaded EXCEPT ![a] = [@ EXCEPT !.report = v]]
         \/ \E v : loaded' = [loaded EXCEPT ![a] = [@ EXCEPT !.manifest = v]]
  <2>1. CASE Stat(a) BY <2>1 DEF Stat, Reject
  <2>2. CASE Digest(a) BY <2>2 DEF Digest, Reject, Pass
  <2>3. CASE Read(a) BY <2>3 DEF Read, Pass
  <2>4. CASE Assemble(a) BY <2>4 DEF Assemble, Reject, Pass
  <2> QED BY <2>1, <2>2, <2>3, <2>4
<1>2. looks' \in [Attempt -> 0 .. 15] /\ \A b \in Attempt \ {a} : looks'[b] = looks[b]
  BY <1>1 DEF InputsInv, LooksTypeOK
<1>3. /\ seen' = [b \in Attempt |-> seen'[b]]
      /\ \A b \in Attempt \ {a} : seen'[b] = seen[b] /\ pc'[b] = pc[b]
  BY <1>1 DEF InputsInv, LooksTypeOK, PublishTypeOK
<1>4. /\ identities' = [b \in Attempt |-> [report |-> identities'[b].report,
                                           manifest |-> identities'[b].manifest]]
      /\ \A b \in Attempt \ {a} : identities'[b] = identities[b]
  <2>1. PICK entry : \/ identities' = identities
                     \/ identities' = [identities EXCEPT ![a] =
                                         [report |-> entry.report, manifest |-> entry.manifest]]
    <3>1. identities[a] = [report |-> identities[a].report, manifest |-> identities[a].manifest]
      BY DEF InputsInv, LooksTypeOK
    <3>2. ASSUME NEW v, identities' = [identities EXCEPT ![a] = [@ EXCEPT !.report = v]]
          PROVE  \E entry : identities' = [identities EXCEPT ![a] =
                                      [report |-> entry.report, manifest |-> entry.manifest]]
      <4>1. [identities[a] EXCEPT !.report = v] =
                [report |-> v, manifest |-> identities[a].manifest]
        BY <3>1
      <4>2. WITNESS [report |-> v, manifest |-> identities[a].manifest]
      <4> QED BY <3>2, <4>1
    <3>3. ASSUME NEW v, identities' = [identities EXCEPT ![a] = [@ EXCEPT !.manifest = v]]
          PROVE  \E entry : identities' = [identities EXCEPT ![a] =
                                      [report |-> entry.report, manifest |-> entry.manifest]]
      <4>1. [identities[a] EXCEPT !.manifest = v] =
                [report |-> identities[a].report, manifest |-> v]
        BY <3>1
      <4>2. WITNESS [report |-> identities[a].report, manifest |-> v]
      <4> QED BY <3>3, <4>1
    <3> QED BY <1>1, <3>2, <3>3
  <2> QED BY <2>1 DEF InputsInv, LooksTypeOK
<1>5. /\ loaded' = [b \in Attempt |-> [report |-> loaded'[b].report,
                                       manifest |-> loaded'[b].manifest]]
      /\ \A b \in Attempt \ {a} : loaded'[b] = loaded[b]
  BY <1>1 DEF InputsInv, LooksTypeOK
<1>6. current' \in [Attempt -> BOOLEAN]
  BY DEF InputsInv, LooksTypeOK, Observe
<1> QED BY <1>2, <1>3, <1>4, <1>5, <1>6 DEF LooksTypeOK

\* A look of any kind, passed or not.
LEMMA LookKnows ==
    ASSUME InputsInv, PublishTypeOK, NothingReturns, NEW a \in Attempt, AttemptLooks(a)
    PROVE  Attempted(a)'
<1> USE DEF AttemptLooks
<1>1. CASE Stat(a) BY <1>1, StatKnows, RejectKnows DEF Stat
<1>2. CASE Digest(a) BY <1>2, IdentifyKnows, CompareKnows, RejectKnows DEF Digest
<1>3. CASE Read(a) BY <1>3, ReadKnows
<1>4. CASE Assemble(a) BY <1>4, AssembleKnows, RejectKnows DEF Assemble
<1> QED BY <1>1, <1>2, <1>3, <1>4

\* A step of the publication comes after the looks.
LEMMA StepAfterLooks ==
    ASSUME InputsInv, PublishInv, NEW a \in Attempt, AttemptPublishes(a)
    PROVE  /\ pc'[a] = "stage_bundle" => looks[a] > 8
           /\ pc'[a] \in Publishing => looks[a] = 15
<1> USE DEF AttemptPublishes, Publishing, PublishInv, PublishTypeOK, Go
<1>1. /\ looks[a] \in 0 .. 15 /\ LooksOfSteps(a)
      /\ pc[a] = "check" => looks[a] > 8
      /\ pc[a] = "stage_bundle" => looks[a] = 15
  <2>1. looks[a] \in 0 .. 15 /\ Attempted(a)
    BY DEF InputsInv, LooksTypeOK
  <2> QED BY <2>1, LooksInOrder DEF MayLook, Attempted
<1>2. CASE CheckAbsent(a) BY <1>1, <1>2 DEF CheckAbsent
<1>3. CASE StageBundle(a) BY <1>1, <1>3 DEF StageBundle
<1>4. CASE pc[a] \in Publishing \cup {"cleanup"} /\ pc'[a] \in Publishing \cup {"cleanup", "failed"}
  <2>1. CASE pc[a] \in Publishing
    BY <1>1, <1>4, <2>1 DEF LooksOfSteps
  <2>2. CASE pc[a] = "cleanup"
    <3>1. Cleanup(a)
      BY <2>2
         DEF Step, CheckAbsent, MakeDirectory, Destination, StageBundle, StageManifest,
             LinkManifest, UnlinkManifest, SyncManifest, LinkBundle, UnlinkBundle, SyncBundle, VerifyPublished
    <3> QED BY <3>1 DEF Cleanup
  <2> QED BY <1>4, <2>1, <2>2
<1>5. CASE MakeDirectory(a)
  BY <1>1, <1>5 DEF MakeDirectory, LooksOfSteps
<1>6. Step(a) => CheckAbsent(a) \/ MakeDirectory(a) \/ StageBundle(a)
                 \/ /\ pc[a] \in Publishing \cup {"cleanup"}
                    /\ pc'[a] \in Publishing \cup {"cleanup", "failed"}
  BY DEF Step, StageManifest, LinkManifest, UnlinkManifest, SyncManifest, LinkBundle,
         UnlinkBundle, SyncBundle, VerifyPublished, Cleanup
<1> QED BY <1>2, <1>3, <1>4, <1>5, <1>6

\* Every step keeps what the attempts know of their inputs.
LEMMA InputsInvStep ==
    ASSUME InputsInv, PublishInv, [EvidenceNext]_evidenceVars
    PROVE  InputsInv'
<1>1. RunnerInv' /\ NothingReturns
  BY InputsStep DEF InputsInv
<1>2. ASSUME NEW a \in Attempt, AttemptLooks(a)
      PROVE  InputsInv'
  <2>1. Attempted(a)'
    BY <1>1, <1>2, LookKnows DEF PublishInv
  <2>2. ASSUME NEW b \in Attempt \ {a}
        PROVE  Attempted(b)'
    <3>1. /\ looks'[b] = looks[b] /\ seen'[b] = seen[b] /\ pc'[b] = pc[b]
          /\ identities'[b] = identities[b] /\ loaded'[b] = loaded[b]
      BY <1>2, LookIsOwn DEF PublishInv
    <3>2. (current[b] => current'[b]) /\ LooksOfSteps(b)
      BY <1>2 DEF AttemptLooks, Observe, InputsInv, Attempted
    <3> QED BY <1>1, <3>1, <3>2, KnowledgeStays DEF LooksOfSteps
  <2>3. LooksTypeOK'
    BY <1>2, LookIsOwn DEF PublishInv
  <2> QED BY <1>1, <2>1, <2>2, <2>3 DEF InputsInv
<1>3. ASSUME UNCHANGED <<looks, seen, identities, loaded>>, current' \in [Attempt -> BOOLEAN],
             \A a \in Attempt :
                /\ current[a] => current'[a]
                /\ pc'[a] = "stage_bundle" => looks[a] > 8
                /\ pc'[a] \in Publishing => looks[a] = 15
      PROVE  InputsInv'
  <2>1. LooksTypeOK'
    BY <1>3 DEF InputsInv, LooksTypeOK
  <2>2. ASSUME NEW a \in Attempt
        PROVE  Attempted(a)'
    BY <1>1, <1>3, KnowledgeStays
  <2> QED BY <1>1, <2>1, <2>2 DEF InputsInv
<1>4. Observe => current' \in [Attempt -> BOOLEAN] /\ \A a \in Attempt : current[a] => current'[a]
  BY DEF Observe, InputsInv, LooksTypeOK
<1>5. \A a \in Attempt : LooksOfSteps(a)
  BY DEF InputsInv, Attempted
<1>6. ASSUME NEW a \in Attempt, AttemptPublishes(a)
      PROVE  InputsInv'
  <2>1. ASSUME NEW b \in Attempt \ {a}
        PROVE  pc'[b] = pc[b]
    <3>1. pc' = pc \/ \E place : pc' = [pc EXCEPT ![a] = place]
      BY <1>6
         DEF AttemptPublishes, MakeDirectory, Step, Go, CheckAbsent, StageBundle, StageManifest, LinkManifest,
             UnlinkManifest, SyncManifest, LinkBundle, UnlinkBundle, SyncBundle, VerifyPublished,
             Cleanup
    <3> QED BY <3>1 DEF PublishInv, PublishTypeOK
  <2>2. ASSUME NEW b \in Attempt
        PROVE  /\ pc'[b] = "stage_bundle" => looks[b] > 8
               /\ pc'[b] \in Publishing => looks[b] = 15
    BY <1>5, <1>6, <2>1, StepAfterLooks DEF LooksOfSteps
  <2> QED BY <1>3, <1>4, <1>6, <2>2 DEF AttemptPublishes
<1>7. ASSUME \A a \in Attempt : pc'[a] = pc[a] \/ pc'[a] \in {"cleanup", "killed"},
             UNCHANGED <<looks, seen, identities, loaded>>, Observe \/ UNCHANGED current
      PROVE  InputsInv'
  <2>1. ASSUME NEW a \in Attempt
        PROVE  /\ pc'[a] = "stage_bundle" => looks[a] > 8
               /\ pc'[a] \in Publishing => looks[a] = 15
    BY <1>5, <1>7 DEF LooksOfSteps, Publishing
  <2>2. current' \in [Attempt -> BOOLEAN] /\ \A a \in Attempt : current[a] => current'[a]
    BY <1>4, <1>7 DEF InputsInv, LooksTypeOK
  <2> QED BY <1>3, <1>7, <2>1, <2>2
<1>8. CASE Fault
  <2>1. \A a \in Attempt : pc'[a] = pc[a] \/ pc'[a] \in {"cleanup", "killed"}
    BY <1>8 DEF Fault, CallFails, Kill, WriteBack, WriteBackDirectory, PowerLoss, PublishInv, PublishTypeOK
  <2> QED BY <1>7, <1>8, <2>1 DEF Fault
<1>9. CASE InputsWritten
  BY <1>7, <1>9 DEF InputsWritten, vars
<1>10. CASE UNCHANGED evidenceVars
  BY <1>7, <1>10 DEF evidenceVars, vars, attemptVars
<1> QED BY <1>2, <1>6, <1>8, <1>9, <1>10 DEF EvidenceNext, NothingLeft

\* Nothing has been looked at or written at first.
LEMMA InputsInvInit ==
    ASSUME EvidenceInit
    PROVE  InputsInv
<1> USE DEF EvidenceInit
<1>1. RunnerInv
  BY RunnerAssumption
     DEF Idle, RunnerInv, RunnerTypeOK, FilesSpent, RunsAlone, Active, UnderWay, Ended
<1>2. LooksTypeOK
  BY DEF LooksTypeOK, Nothing
<1>3. ASSUME NEW a \in Attempt
      PROVE  Attempted(a)
  BY DEF Attempted, DocumentLoaded, ToolsCompared, InputsReverified, LooksOfSteps, Publishing, Init
<1> QED BY <1>1, <1>2, <1>3 DEF InputsInv

\* The inductive invariant of the runs and of what the attempts know of them.
THEOREM InputsInvariant == EvidenceSpec => []InputsInv
<1>1. InputsInv /\ PublishInv /\ [EvidenceNext]_evidenceVars => InputsInv'
  BY InputsInvStep
<1> QED BY <1>1, InputsInvInit, PublishInvariant, PTL DEF EvidenceSpec

\* A manifest that identifies the report in place vouches for a completed one and
\* for what it measured, for any number of runs that do not overlap: the last two
\* write_json calls of main() leave no other pair behind, wherever a run ends.
THEOREM ManifestsVouch == EvidenceSpec => []ManifestVouches
<1>1. RunsAlone => ManifestVouches
  BY DEF RunsAlone, ManifestVouches, NoManifest, Identity
<1>2. InputsInv => RunsAlone
  BY DEF InputsInv, RunnerInv
<1> QED BY <1>1, <1>2, InputsInvariant, PTL

\* What finalize() publishes was whole, and in place at one time after it had seen
\* that its outputs were absent, whatever number of runs replaces its inputs while
\* it reads them.
THEOREM EvidenceWasThere == EvidenceSpec => []EvidenceWasInPlace
<1>1. ASSUME InputsInv
      PROVE  EvidenceWasInPlace
  <2> SUFFICES ASSUME NEW a \in Attempt, pc[a] \in Publishing
               PROVE  /\ DocumentsAgree(a)
                      /\ \A name \in {"report", "manifest"} :
                            identities[a][name] = Identity(loaded[a][name])
                      /\ current[a]
    BY DEF EvidenceWasInPlace, Publishing
  <2>1. Attempted(a)
    BY <1>1 DEF InputsInv
  <2>2. looks[a] = 15
    BY <2>1 DEF Attempted, LooksOfSteps
  <2> QED BY <2>1, <2>2 DEF Attempted, DocumentLoaded, InputsReverified
<1> QED BY <1>1, InputsInvariant, PTL
=============================================================================
