------------------------- MODULE NodeReleasesProofs -------------------------
(***************************************************************************)
(* Theorems of NodeReleases: type correctness, that the fleet is only ever *)
(* pointed at a build in the catalog, and that no removal takes a file the *)
(* target, the one before it or a canary needed when it was asked for.     *)
(*                                                                         *)
(* The inductive invariant adds to AimsArePublished the same of a build an *)
(* operator has checked and not written yet and of the one to roll back    *)
(* to; of a deletion under way that its build was not aimed at when it was *)
(* checked; and of a removal that none of its files was needed.            *)
(***************************************************************************)
EXTENDS NodeReleases, TLAPS

InCatalog(b) == b \in Published \cup orphaned

Aims ==
  \A b \in Builds :
    (target = b \/ previous = b \/ (aiming # NoAim /\ aiming.build = b)
       \/ \E w \in Workers : override[w] = b) => InCatalog(b)

Harmless == removal # NoRemoval => removal.needed = {}

Unaimed == deleting.at = "deleting" => ~deleting.aimed

IInv == ReleasesTypeOK /\ Aims /\ Harmless /\ Unaimed

AimType     == {NoAim} \cup [of : Workers \cup {"fleet"}, build : Builds]
RemovalType == {NoRemoval} \cup [on : {TRUE}, files : SUBSET Files, needed : SUBSET Files]

DeletingRow == [at : {"deleting"}, build : Builds, files : SUBSET Files, aimed : BOOLEAN]
FilesRow    == [at : {"files"}, files : SUBSET Files]
DeletionType == {NoDeletion} \cup FilesRow \cup DeletingRow

ToldType    == {NotTold} \cup [build : Builds, file : MaybeFile]

-----------------------------------------------------------------------------
(* Operators.                                                              *)

LEMMA Constants ==
  NoBuild \notin Builds /\ NoFile \notin Files
  /\ PlatformOf \in [Workers -> Platforms]
  /\ FilesOf \in [Builds -> [Platforms -> SUBSET Files]]
BY ReleasesAssumption DEF ReleasesAssumption

(* What a build names is contents of files.                                *)
LEMMA FilesNamedType ==
  ASSUME catalog \in [Builds -> [Platforms -> MaybeFile]], NEW b \in Builds
  PROVE  FilesNamed(b) \subseteq Files
BY DEF FilesNamed, MaybeFile

LEMMA NeededOfType == ASSUME NEW bs PROVE NeededOf(bs) \subseteq Files
BY DEF NeededOf

(* What is needed is kept: a file of the target, the one before it or a    *)
(* canary is not among those to drop.                                      *)
LEMMA NeededIsKept ==
  ASSUME IInv
  PROVE  FilesToDrop \cap NeededOf(Builds) = {}
<1> SUFFICES ASSUME NEW f \in FilesToDrop, f \in NeededOf(Builds) PROVE FALSE
  OBVIOUS
<1>1. PICK b \in Builds : Needs(b) /\ f \in FilesNamed(b)
  BY DEF NeededOf
<1>2. b \in Published
  BY <1>1 DEF Published
<1>3. b \in KeptBuilds
  BY <1>1, <1>2 DEF KeptBuilds, Needs, InUse
<1>4. f \in ContentsOf(KeptBuilds \cap Builds)
  BY <1>1, <1>3 DEF ContentsOf
<1> QED BY <1>4 DEF FilesToDrop

LEMMA ToDropType ==
  ASSUME catalog \in [Builds -> [Platforms -> MaybeFile]]
  PROVE  FilesToDrop \subseteq Files
<1>1. Published \subseteq Builds BY DEF Published
<1>2. ContentsOf(Published \ KeptBuilds) \subseteq Files
  BY <1>1, FilesNamedType DEF ContentsOf
<1> QED BY <1>2 DEF FilesToDrop

(* A removal is of files not needed.                                       *)
LEMMA RemovingHarmless ==
  ASSUME NEW fs \in SUBSET Files, NEW bs, fs \cap NeededOf(bs) = {}, Removing(fs, bs)
  PROVE  removal' \in RemovalType /\ (removal' # NoRemoval => removal'.needed = {})
<1>1. CASE fs = {}
  BY <1>1 DEF Removing, RemovalType
<1>2. CASE fs # {}
  <2>1. removal' = [on |-> TRUE, files |-> fs, needed |-> {}]
    BY <1>2 DEF Removing
  <2> QED BY <2>1 DEF RemovalType
<1> QED BY <1>1, <1>2

-----------------------------------------------------------------------------
(* Each step keeps the invariant.                                          *)

LEMMA RegisterGood ==
  ASSUME IInv, NEW b \in Builds, NEW p \in Platforms, NEW f, Register(b, p, f)
  PROVE  IInv'
<1> USE DEF Register
<1>1. f \in Files
  BY Constants
<1>2. catalog' \in [Builds -> [Platforms -> MaybeFile]] /\ catalog'[b][p] = f
      /\ \A c \in Builds \ {b} : catalog'[c] = catalog[c]
  BY <1>1 DEF IInv, ReleasesTypeOK, MaybeFile
<1>3. Published \cup {b} \subseteq Published'
  <2> HIDE DEF Register
  <2>1. f \in FilesNamed(b)'
    BY <1>1, <1>2, Constants DEF FilesNamed
  <2>2. b \in Published'
    BY <2>1 DEF Published
  <2>3. ASSUME NEW c \in Published, c # b PROVE c \in Published'
    <3>1. c \in Builds /\ FilesNamed(c) # {}
      BY <2>3 DEF Published
    <3>2. FilesNamed(c)' = FilesNamed(c)
      BY <1>2, <2>3, <3>1 DEF FilesNamed
    <3> QED BY <3>1, <3>2 DEF Published
  <2> QED BY <2>2, <2>3
<1>4. added' \in [Builds -> Nat]
  <2>1. PICK now \in 1..MaxRegistrations : added' = [added EXCEPT ![b] = now]
    OBVIOUS
  <2>2. now \in Nat BY ReleasesAssumption DEF ReleasesAssumption
  <2> QED BY <2>1, <2>2 DEF IInv, ReleasesTypeOK
<1>5. ReleasesTypeOK'
  BY <1>2, <1>4 DEF IInv, ReleasesTypeOK, settings, workers, nodes, deciding
<1>6. Aims'
  BY <1>3 DEF IInv, Aims, InCatalog, settings, workers, deciding
<1>7. Harmless' /\ Unaimed'
  BY DEF IInv, Harmless, Unaimed, deciding
<1> QED BY <1>5, <1>6, <1>7 DEF IInv

(* A step that leaves the catalog and removals as they are.                *)
LEMMA CatalogKept ==
  ASSUME IInv, UNCHANGED <<catalog, orphaned>>
  PROVE  \A b \in Builds : InCatalog(b)' <=> InCatalog(b)
BY DEF InCatalog, Published, FilesNamed

(* A step that only adds or removes files.                                 *)
LEMMA FilesGood ==
  ASSUME IInv, held' \in SUBSET Files, removal' \in RemovalType, Harmless',
         UNCHANGED <<catalog, added, settings, workers, aiming, nodes, orphaned>>,
         deleting' \in DeletionType, Unaimed'
  PROVE  IInv'
<1>1. ReleasesTypeOK'
  BY DEF IInv, ReleasesTypeOK, settings, workers, nodes, RemovalType, DeletionType, DeletingRow,
     FilesRow
<1>2. Aims'
  BY CatalogKept DEF IInv, Aims, settings, workers
<1> QED BY <1>1, <1>2 DEF IInv

(* A deletion that is not touched.                                         *)
LEMMA DeletionKept ==
  ASSUME IInv, UNCHANGED deciding
  PROVE  UNCHANGED aiming /\ deleting' \in DeletionType /\ Unaimed'
BY DEF IInv, ReleasesTypeOK, DeletionType, DeletingRow, FilesRow, Unaimed, deciding

LEMMA UploadedGood ==
  ASSUME IInv, NEW b \in Builds, NEW p \in Platforms, Uploaded(b, p)
  PROVE  IInv'
<1>1. catalog[b][p] \in Files
  BY DEF IInv, ReleasesTypeOK, Uploaded, MaybeFile
<1>2. held' \in SUBSET Files
  BY <1>1 DEF IInv, ReleasesTypeOK, Uploaded
<1>3. (FilesToDrop \ {catalog[b][p]}) \cap held \in SUBSET Files
  BY ToDropType DEF IInv, ReleasesTypeOK
<1>4. (FilesToDrop \ {catalog[b][p]}) \cap held \cap NeededOf(Builds) = {}
  BY NeededIsKept
<1>5. Removing((FilesToDrop \ {catalog[b][p]}) \cap held, Builds)
  BY DEF Uploaded
<1>6. removal' \in RemovalType /\ Harmless'
  BY <1>3, <1>4, <1>5, RemovingHarmless DEF Harmless
<1> QED BY <1>2, <1>6, DeletionKept, FilesGood DEF Uploaded

LEMMA SweepFilesGood == ASSUME IInv, SweepFiles PROVE IInv'
<1>1. FilesToDrop \cap held \in SUBSET Files
  BY ToDropType DEF IInv, ReleasesTypeOK
<1>2. (FilesToDrop \cap held) \cap NeededOf(Builds) = {}
  BY NeededIsKept
<1>3. removal' \in RemovalType /\ Harmless'
  BY <1>1, <1>2, RemovingHarmless DEF Harmless, SweepFiles
<1>4. held' \in SUBSET Files
  BY DEF SweepFiles, IInv, ReleasesTypeOK
<1> QED BY <1>3, <1>4, DeletionKept, FilesGood DEF SweepFiles

LEMMA UnlinkGood == ASSUME IInv, Unlink PROVE IInv'
<1>1. held' \in SUBSET Files /\ removal' = NoRemoval
  BY DEF Unlink, IInv, ReleasesTypeOK
<1>2. removal' \in RemovalType /\ Harmless'
  BY <1>1 DEF RemovalType, Harmless
<1> QED BY <1>1, <1>2, DeletionKept, FilesGood DEF Unlink

LEMMA DeletionAt ==
  ASSUME IInv
  PROVE  /\ deleting.at = "deleting" => deleting \in DeletingRow /\ ~deleting.aimed
         /\ deleting.at = "files" => deleting \in FilesRow
<1>1. deleting \in DeletionType
  BY DEF IInv, ReleasesTypeOK, DeletionType, DeletingRow, FilesRow
<1>2. CASE deleting = NoDeletion
  BY <1>2 DEF NoDeletion
<1>3. CASE deleting \in FilesRow
  <2>1. deleting.at = "files" BY <1>3 DEF FilesRow
  <2> QED BY <1>3, <2>1
<1>4. CASE deleting \in DeletingRow
  <2>1. deleting.at = "deleting" BY <1>4 DEF DeletingRow
  <2> QED BY <1>4, <2>1 DEF IInv, Unaimed
<1> QED BY <1>1, <1>2, <1>3, <1>4 DEF DeletionType

LEMMA CheckDeleteGood ==
  ASSUME IInv, NEW b \in Builds, CheckDelete(b)
  PROVE  IInv'
<1>1. FilesNamed(b) \in SUBSET Files
  BY FilesNamedType DEF IInv, ReleasesTypeOK
<1>2. AimedAt(b) = FALSE
  BY DEF CheckDelete, InUse, AimedAt
<1>3. deleting' = [at |-> "deleting", build |-> b, files |-> FilesNamed(b), aimed |-> FALSE]
  <2>1. deleting' = [at |-> "deleting", build |-> b, files |-> FilesNamed(b), aimed |-> AimedAt(b)]
    BY DEF CheckDelete
  <2> QED BY <1>2, <2>1
<1>4. deleting' \in DeletionType /\ Unaimed'
  <2>1. deleting' \in DeletingRow
    BY <1>1, <1>3 DEF DeletingRow
  <2>2. deleting'.aimed = FALSE
    BY <1>3
  <2> QED BY <2>1, <2>2 DEF DeletionType, Unaimed
<1>5. removal' \in RemovalType /\ Harmless' /\ held' \in SUBSET Files
  BY DEF IInv, ReleasesTypeOK, RemovalType, Harmless, CheckDelete
<1> QED BY <1>4, <1>5, FilesGood DEF CheckDelete

LEMMA DeleteReleaseGood ==
  ASSUME IInv, DeleteRelease
  PROVE  IInv'
<1> DEFINE none == [p \in Platforms |-> NoFile]
<1>1. deleting \in DeletingRow /\ ~deleting.aimed
  BY DeletionAt DEF DeleteRelease
<1>2. PICK b \in Builds : b = deleting.build
  BY <1>1 DEF DeletingRow
<1>3. /\ deleting' = [at |-> "files", files |-> deleting.files]
      /\ catalog' = [catalog EXCEPT ![b] = none]
      /\ orphaned' = orphaned \cup {b} \/ orphaned' = orphaned
      /\ UNCHANGED <<added, settings, workers, held, aiming, removal, nodes>>
  BY <1>2 DEF DeleteRelease
<1>4. deleting' \in DeletionType /\ Unaimed'
  <2>1. deleting' \in FilesRow
    BY <1>1, <1>3 DEF DeletingRow, FilesRow
  <2>2. deleting'.at = "files"
    BY <1>3
  <2> QED BY <2>1, <2>2 DEF DeletionType, Unaimed
<1>5. catalog' \in [Builds -> [Platforms -> MaybeFile]]
      /\ \A c \in Builds \ {b} : catalog'[c] = catalog[c]
  <2>1. none \in [Platforms -> MaybeFile]
    BY DEF MaybeFile
  <2>2. catalog \in [Builds -> [Platforms -> MaybeFile]]
    BY DEF IInv, ReleasesTypeOK
  <2> HIDE DEF none
  <2> QED BY <1>2, <1>3, <2>1, <2>2
<1>6. ASSUME NEW c \in Builds, c # b, InCatalog(c) PROVE InCatalog(c)'
  <2>1. FilesNamed(c)' = FilesNamed(c)
    BY <1>5, <1>6 DEF FilesNamed
  <2>2. orphaned \subseteq orphaned'
    BY <1>3
  <2> QED BY <1>6, <2>1, <2>2 DEF InCatalog, Published
<1>7. orphaned' \in SUBSET Builds
  BY <1>2, <1>3 DEF IInv, ReleasesTypeOK
<1>8. ReleasesTypeOK'
  <2> HIDE DEF none
  <2>1. UNCHANGED <<added, target, previous, blocked, override, declared, held, aiming, removal,
                    running, told>>
    BY <1>3 DEF settings, workers, nodes
  <2>2. deleting' \in DeletionType
    BY <1>4
  <2> QED BY <1>5, <1>7, <2>1, <2>2
          DEF IInv, ReleasesTypeOK, DeletionType, FilesRow, DeletingRow
<1>9. ASSUME previous = b \/ (aiming # NoAim /\ aiming.build = b) \/ AimedAt(b)
      PROVE  InCatalog(b)'
  <2>1. orphaned' = orphaned \cup {b}
    BY <1>1, <1>2, <1>9 DEF DeleteRelease
  <2> QED BY <2>1 DEF InCatalog
<1>10. Aims'
  BY <1>2, <1>3, <1>6, <1>9 DEF IInv, Aims, AimedAt, settings, workers
<1>11. Harmless'
  BY <1>3 DEF IInv, Harmless
<1> QED BY <1>4, <1>8, <1>10, <1>11 DEF IInv

LEMMA DeleteFilesGood == ASSUME IInv, DeleteFiles PROVE IInv'
<1> DEFINE fs == deleting.files \ (ContentsOf(Builds) \cup CaseFiles)
<1>1. deleting \in FilesRow
  BY DeletionAt DEF DeleteFiles
<1>2. fs \in SUBSET Files
  BY <1>1 DEF FilesRow
<1>3. fs \cap NeededOf(Builds) = {}
  BY DEF NeededOf, ContentsOf
<1>4. Removing(fs, Builds)
  BY DEF DeleteFiles
<1> HIDE DEF fs
<1>5. removal' \in RemovalType /\ Harmless'
  BY <1>2, <1>3, <1>4, RemovingHarmless DEF Harmless
<1>6. deleting' \in DeletionType /\ Unaimed' /\ held' \in SUBSET Files
  BY DEF DeleteFiles, DeletionType, Unaimed, NoDeletion, IInv, ReleasesTypeOK
<1> QED BY <1>5, <1>6, FilesGood DEF DeleteFiles

(* A step of operators or nodes: the catalog, the files and removals stay, *)
(* and every build aimed at afterwards is in the catalog.                  *)
LEMMA AimGood ==
  ASSUME IInv, UNCHANGED <<catalog, added, held, deleting, removal, orphaned>>,
         target' \in MaybeBuild, previous' \in MaybeBuild, blocked' \in SUBSET Builds,
         override' \in [Workers -> MaybeBuild], declared' \in [Workers -> MaybeBuild],
         aiming' \in AimType, running' \in [Workers -> Builds],
         told' \in [Workers -> ToldType],
         target' \in Builds => InCatalog(target'),
         previous' \in Builds => InCatalog(previous'),
         aiming' # NoAim => InCatalog(aiming'.build),
         \A w \in Workers : override'[w] \in Builds => InCatalog(override'[w])
  PROVE  IInv'
<1>1. ReleasesTypeOK'
  BY DEF IInv, ReleasesTypeOK, AimType, ToldType
<1>2. Aims'
  BY CatalogKept DEF IInv, Aims
<1>3. Harmless' /\ Unaimed'
  BY DEF IInv, Harmless, Unaimed
<1> QED BY <1>1, <1>2, <1>3 DEF IInv

(* What the invariant says of where the fleet is pointed.                  *)
LEMMA Pointed ==
  ASSUME IInv
  PROVE  /\ target \in MaybeBuild /\ previous \in MaybeBuild /\ blocked \in SUBSET Builds
         /\ override \in [Workers -> MaybeBuild] /\ declared \in [Workers -> MaybeBuild]
         /\ aiming \in AimType /\ running \in [Workers -> Builds]
         /\ told \in [Workers -> ToldType]
         /\ target \in Builds => InCatalog(target)
         /\ previous \in Builds => InCatalog(previous)
         /\ aiming # NoAim => aiming.build \in Builds /\ InCatalog(aiming.build)
         /\ \A w \in Workers : override[w] \in Builds => InCatalog(override[w])
<1>1. aiming \in AimType
  BY DEF IInv, ReleasesTypeOK, AimType
<1>2. aiming # NoAim => aiming.build \in Builds
  BY <1>1 DEF AimType
<1> QED BY <1>1, <1>2 DEF IInv, ReleasesTypeOK, Aims, ToldType

(* Moving the target.                                                      *)
LEMMA MoveGood ==
  ASSUME IInv, NEW b \in MaybeBuild, b \in Builds => InCatalog(b), MoveTarget(b)
  PROVE  /\ target' \in MaybeBuild /\ previous' \in MaybeBuild
         /\ target' \in Builds => InCatalog(target')
         /\ previous' \in Builds => InCatalog(previous')
BY Pointed DEF MoveTarget

LEMMA CheckAimGood ==
  ASSUME IInv, NEW of \in Workers \cup {"fleet"}, NEW b \in Builds, NEW force, CheckAim(of, b, force)
  PROVE  IInv'
<1>1. aiming' = [of |-> of, build |-> b] /\ b \in Published
  BY DEF CheckAim
<1>2. aiming' \in AimType /\ InCatalog(aiming'.build)
  BY <1>1 DEF AimType, InCatalog
<1> QED BY <1>2, Pointed, AimGood DEF CheckAim, settings, workers, nodes

LEMMA AimsGood == ASSUME IInv, Aim PROVE IInv'
<1>1. aiming.build \in Builds /\ InCatalog(aiming.build) /\ aiming' = NoAim /\ aiming' \in AimType
  BY Pointed DEF Aim, AimType
<1>2. CASE aiming.of = "fleet"
  <2>1. MoveTarget(aiming.build) /\ override' = override
    BY <1>2 DEF Aim
  <2>2. /\ target' \in MaybeBuild /\ previous' \in MaybeBuild
        /\ target' \in Builds => InCatalog(target')
        /\ previous' \in Builds => InCatalog(previous')
    BY <1>1, <2>1, MoveGood DEF MaybeBuild
  <2> QED BY <1>1, <2>1, <2>2, Pointed, AimGood DEF Aim, nodes
<1>3. CASE aiming.of # "fleet"
  <2>1. override' = [override EXCEPT ![aiming.of] = aiming.build]
        /\ target' = target /\ previous' = previous
    BY <1>3 DEF Aim
  <2>2. override' \in [Workers -> MaybeBuild]
        /\ \A w \in Workers : override'[w] \in Builds => InCatalog(override'[w])
    BY <1>1, <2>1, Pointed DEF MaybeBuild
  <2> QED BY <1>1, <2>1, <2>2, Pointed, AimGood DEF Aim, nodes
<1> QED BY <1>2, <1>3

LEMMA ClearTargetGood == ASSUME IInv, ClearTarget PROVE IInv'
<1>1. MoveTarget(NoBuild) /\ NoBuild \in MaybeBuild /\ NoBuild \notin Builds
  BY Constants DEF ClearTarget, MaybeBuild
<1>2. /\ target' \in MaybeBuild /\ previous' \in MaybeBuild
      /\ target' \in Builds => InCatalog(target')
      /\ previous' \in Builds => InCatalog(previous')
  BY <1>1, MoveGood
<1> QED BY <1>2, Pointed, AimGood DEF ClearTarget, workers, nodes, deciding

LEMMA ClearCanaryGood ==
  ASSUME IInv, NEW w \in Workers, ClearCanary(w)
  PROVE  IInv'
<1>1. override' \in [Workers -> MaybeBuild]
      /\ \A v \in Workers : override'[v] \in Builds => InCatalog(override'[v])
  BY Pointed, Constants DEF ClearCanary, MaybeBuild
<1> QED BY <1>1, Pointed, AimGood DEF ClearCanary, settings, nodes, deciding

LEMMA PromoteCanaryGood ==
  ASSUME IInv, NEW w \in Workers, PromoteCanary(w)
  PROVE  IInv'
<1>1. override' \in [Workers -> MaybeBuild]
      /\ \A v \in Workers : override'[v] \in Builds => InCatalog(override'[v])
  BY Pointed, Constants DEF PromoteCanary, MaybeBuild
<1>2. override[w] \in Builds /\ InCatalog(override[w]) /\ MoveTarget(override[w])
  BY Pointed DEF PromoteCanary, MaybeBuild
<1>3. /\ target' \in MaybeBuild /\ previous' \in MaybeBuild
      /\ target' \in Builds => InCatalog(target')
      /\ previous' \in Builds => InCatalog(previous')
  BY <1>2, MoveGood DEF MaybeBuild
<1> QED BY <1>1, <1>3, Pointed, AimGood DEF PromoteCanary, nodes, deciding

LEMMA RollBackGood ==
  ASSUME IInv, NEW block \in BOOLEAN, RollBack(block)
  PROVE  IInv'
<1>1. previous \in Builds /\ InCatalog(previous) /\ MoveTarget(previous)
  BY Pointed DEF RollBack, MaybeBuild
<1>2. /\ target' \in MaybeBuild /\ previous' \in MaybeBuild
      /\ target' \in Builds => InCatalog(target')
      /\ previous' \in Builds => InCatalog(previous')
  BY <1>1, MoveGood DEF MaybeBuild
<1>3. blocked' \in SUBSET Builds
  BY Pointed DEF RollBack, MaybeBuild
<1> QED BY <1>2, <1>3, Pointed, AimGood DEF RollBack, workers, nodes, deciding

LEMMA PolicyGood ==
  ASSUME IInv, NEW bs \in SUBSET Builds, Policy(bs)
  PROVE  IInv'
BY Pointed, AimGood DEF Policy, workers, nodes, deciding

LEMMA DeclaresGood ==
  ASSUME IInv, NEW w \in Workers, Declares(w) \/ GoesQuiet(w)
  PROVE  IInv'
<1>1. declared' \in [Workers -> MaybeBuild]
  BY Pointed DEF Declares, GoesQuiet, MaybeBuild
<1> QED BY <1>1, Pointed, AimGood DEF Declares, GoesQuiet, settings, nodes, deciding

LEMMA AskGood ==
  ASSUME IInv, NEW w \in Workers, Ask(w)
  PROVE  IInv'
<1>1. Wanted(w) \in MaybeBuild
  BY Pointed DEF Wanted
<1>2. \A b \in Builds : catalog[b][PlatformOf[w]] \in MaybeFile
  BY Constants DEF IInv, ReleasesTypeOK
<1>3. Answer(w) \in ToldType
  <2>1. CASE Wanted(w) \in {NoBuild, running[w]}
    BY <2>1 DEF Answer, ToldType
  <2>2. CASE Wanted(w) \notin {NoBuild, running[w]}
    BY <2>2, <1>1, <1>2 DEF Answer, MaybeBuild, ToldType
  <2> QED BY <2>1, <2>2
<1>4. told' \in [Workers -> ToldType]
  BY <1>3, Pointed DEF Ask
<1> QED BY <1>4, Pointed, AimGood DEF Ask, settings, workers, deciding

LEMMA SwitchGood ==
  ASSUME IInv, NEW w \in Workers, Switch(w)
  PROVE  IInv'
<1>1. told[w] \in ToldType /\ told[w].file \in Files
  BY Pointed DEF Switch, IInv, ReleasesTypeOK
<1>2. told[w].build \in Builds
  BY <1>1, Constants DEF ToldType, NotTold
<1>3. running' \in [Workers -> Builds] /\ told' \in [Workers -> ToldType]
  BY <1>2, Pointed DEF Switch, ToldType
<1> QED BY <1>3, Pointed, AimGood DEF Switch, settings, workers, deciding

-----------------------------------------------------------------------------
(* The theorems.                                                           *)

LEMMA ReleasesInitInv == ReleasesInit => IInv
<1> SUFFICES ASSUME ReleasesInit PROVE IInv
  OBVIOUS
<1>1. ReleasesTypeOK
  BY DEF ReleasesInit, ReleasesTypeOK, MaybeBuild, MaybeFile
<1>2. \A b \in Builds : target # b /\ previous # b /\ \A w \in Workers : override[w] # b
  BY Constants DEF ReleasesInit
<1>3. Aims
  BY <1>2 DEF Aims, ReleasesInit
<1>4. Harmless
  BY DEF ReleasesInit, Harmless
<1>5. Unaimed
  BY DEF ReleasesInit, Unaimed, NoDeletion
<1> QED BY <1>1, <1>3, <1>4, <1>5 DEF IInv

LEMMA ReleasesStepInv == IInv /\ [ReleasesNext]_releaseVars => IInv'
<1> SUFFICES ASSUME IInv, [ReleasesNext]_releaseVars PROVE IInv'
  OBVIOUS
<1>1. ASSUME ByAdmins PROVE IInv'
  BY <1>1, RegisterGood, UploadedGood, CheckDeleteGood, DeleteReleaseGood, DeleteFilesGood,
     SweepFilesGood, UnlinkGood, PolicyGood DEF ByAdmins
<1>2. ASSUME ByOperators PROVE IInv'
  BY <1>2, CheckAimGood, AimsGood, ClearTargetGood, RollBackGood, ClearCanaryGood,
     PromoteCanaryGood DEF ByOperators
<1>3. ASSUME ByNodes PROVE IInv'
  BY <1>3, DeclaresGood, AskGood, SwitchGood DEF ByNodes
<1>4. ASSUME UNCHANGED releaseVars PROVE IInv'
  BY <1>4, Pointed, AimGood DEF releaseVars, settings, workers, nodes, deciding
<1> QED BY <1>1, <1>2, <1>3, <1>4 DEF ReleasesNext

THEOREM ReleasesInvariant == ReleasesSpec => []IInv
BY ReleasesInitInv, ReleasesStepInv, PTL DEF ReleasesSpec

(* Every variable keeps its type.                                          *)
THEOREM ReleasesTypes == ReleasesSpec => []ReleasesTypeOK
<1>1. IInv => ReleasesTypeOK
  BY DEF IInv
<1> QED BY <1>1, ReleasesInvariant, PTL

(* The fleet's target and the canaries' are builds of the catalog, but for *)
(* one whose deletion crossed an aim at it, on either side, or that was    *)
(* only to be rolled back to when it went.                                 *)
THEOREM ReleasesAims == ReleasesSpec => []AimsArePublished
<1>1. IInv => AimsArePublished
  BY DEF IInv, Aims, InCatalog, AimsArePublished, AimedAt
<1> QED BY <1>1, ReleasesInvariant, PTL

(* No removal takes a file that the target, the one before it or a canary  *)
(* needs, unless it came to be needed after the remover had asked.         *)
THEOREM ReleasesFiles == ReleasesSpec => NeededFilesStay
<1> DEFINE Kept == \A f \in held \ held' : f \in NeededFiles => f \notin removal.needed
<1>1. ASSUME IInv, [ReleasesNext]_releaseVars PROVE Kept
  <2> SUFFICES ASSUME NEW f \in held \ held' PROVE f \notin removal.needed
    OBVIOUS
  <2>1. held' # held
    OBVIOUS
  <2>2. Unlink
    BY <1>1, <2>1 DEF ReleasesNext, ByAdmins, ByOperators, ByNodes, releaseVars, Register,
       Uploaded, SweepFiles, CheckDelete, DeleteRelease, DeleteFiles, Policy, CheckAim, Aim, ClearTarget, RollBack,
       ClearCanary, PromoteCanary, Declares, Ask, Switch, GoesQuiet
  <2> QED BY <1>1, <2>2 DEF IInv, Harmless, Unlink
<1>2. IInv /\ [ReleasesNext]_releaseVars => [Kept]_releaseVars
  BY <1>1
<1> HIDE DEF Kept
<1>3. ReleasesSpec => [][Kept]_releaseVars
  BY <1>2, ReleasesInvariant, PTL DEF ReleasesSpec
<1> QED BY <1>3 DEF Kept, NeededFilesStay
=============================================================================
