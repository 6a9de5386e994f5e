---------------------------- MODULE NodeReleases ----------------------------
(***************************************************************************)
(* Moving the fleet between builds (casebroker/db.py, the release routes   *)
(* of casebroker/app.py): the catalog of builds and their files, the       *)
(* fleet's target and the one before it, canaries, blocked builds, and the *)
(* nodes that ask what to run, fetch the file and switch.                  *)
(*                                                                         *)
(* A route that makes several calls of the database or the part store is   *)
(* as many steps.  What the panel only shows (rates, badges, why a node is *)
(* unfit or busy) is left out; so is the apply mode, which tells a node    *)
(* how soon to switch: here it may take any time.                          *)
(***************************************************************************)
EXTENDS Integers, FiniteSets

CONSTANTS
  Builds, NoBuild, Platforms, Workers,
  PlatformOf,         \* PlatformOf[w]: what w runs on
  Files, NoFile,      \* contents of release files, by hash
  FilesOf,            \* FilesOf[b][p]: what may be registered for b on p
  CaseFiles,          \* contents that a case's part is, too
  Keep,               \* CASEBROKER_RELEASE_KEEP_BUILDS
  MaxRegistrations    \* bound: times at which a file is registered

ASSUME ReleasesAssumption ==
  /\ NoBuild \notin Builds /\ NoFile \notin Files
  /\ PlatformOf \in [Workers -> Platforms]
  /\ FilesOf \in [Builds -> [Platforms -> SUBSET Files]]
  /\ CaseFiles \subseteq Files
  /\ Keep \in Nat /\ MaxRegistrations \in Nat

MaybeBuild == Builds \cup {NoBuild}
MaybeFile  == Files \cup {NoFile}

VARIABLES
  catalog,    \* releases: the hash of each build's file for each platform
  added,      \* when a file of the build was last registered
  target, previous, blocked,   \* settings
  override,   \* workers.target_build: the canaries
  declared,   \* workers.build: what it said when it leased, in the last 24 hours
  held,       \* release files in the part store
  aiming,     \* a change of target, checked and not written yet
  deleting,   \* a build's deletion between its calls
  removal,    \* files about to be unlinked, and what was needed when asked
  running,    \* what each node runs
  told,       \* the build and file each node was told to move to
  orphaned    \* (history) builds deleted while an aim at them was on its way

settings == <<target, previous, blocked>>
workers  == <<override, declared>>
nodes    == <<running, told>>
deciding == <<aiming, deleting>>
releaseVars == <<catalog, added, settings, workers, held, deciding, removal, nodes, orphaned>>

NoAim     == [of |-> "nothing"]
NoDeletion == [at |-> "nothing"]
NoRemoval == [on |-> FALSE]
NotTold   == [build |-> NoBuild, file |-> NoFile]

ReleasesInit ==
  /\ catalog = [b \in Builds |-> [p \in Platforms |-> NoFile]]
  /\ added = [b \in Builds |-> 0]
  /\ target = NoBuild /\ previous = NoBuild /\ blocked = {}
  /\ override = [w \in Workers |-> NoBuild] /\ declared = [w \in Workers |-> NoBuild]
  /\ held = {}
  /\ aiming = NoAim /\ deleting = NoDeletion /\ removal = NoRemoval
  /\ running \in [Workers -> Builds] /\ told = [w \in Workers |-> NotTold]
  /\ orphaned = {}

-----------------------------------------------------------------------------
(* What the calls read.                                                    *)

FilesNamed(b) == {catalog[b][p] : p \in Platforms} \ {NoFile}

Published == {b \in Builds : FilesNamed(b) # {}}

Newest == {b \in Published : Cardinality({c \in Published : added[c] > added[b]}) < Keep}

(* Wrong: a canary's target is not counted as used.                        *)
InUseByFleet(b) == target = b \/ \E w \in Workers : declared[w] = b

(* release_in_use: the target, a canary's, or what a live worker declared. *)
InUse(b) ==
  \/ target = b
  \/ \E w \in Workers : override[w] = b
  \/ \E w \in Workers : declared[w] = b

(* Wrong: only what is in use now is kept beside the newest.               *)
KeptInUse == Newest \cup {b \in Published : InUse(b)}

KeptBuilds == Newest \cup ({previous} \cap Builds) \cup {b \in Published : InUse(b)}

ContentsOf(bs) == UNION {FilesNamed(b) : b \in bs}

(* release_files_to_drop.                                                  *)
FilesToDrop ==
  ContentsOf(Published \ KeptBuilds) \ (ContentsOf(KeptBuilds \cap Builds) \cup CaseFiles)

(* What w should be running: its own target as a canary, else the fleet's. *)
Wanted(w) == IF override[w] # NoBuild THEN override[w] ELSE target

(* What a file is needed for: the target, a canary, and the way back.      *)
Needs(b) == b \in {target, previous} \/ \E w \in Workers : override[w] = b

NeededOf(bs) == {f \in Files : \E b \in bs : Needs(b) /\ f \in FilesNamed(b)}
NeededFiles  == NeededOf(Builds)

-----------------------------------------------------------------------------
(* The catalog and its files: administrators.                              *)

Register(b, p, f) ==
  /\ f \in FilesOf[b][p]
  /\ catalog' = [catalog EXCEPT ![b] = [catalog[b] EXCEPT ![p] = f]]
  /\ \E now \in 1..MaxRegistrations :
       /\ \A c \in Builds : added[c] < now
       /\ added' = [added EXCEPT ![b] = now]
  /\ orphaned' = orphaned \ {b}
  /\ UNCHANGED <<settings, workers, held, deciding, removal, nodes>>

Removing(fs, bs) ==
  removal' = IF fs = {} THEN NoRemoval
             ELSE [on |-> TRUE, files |-> fs, needed |-> fs \cap NeededOf(bs)]

(* An upload has landed: its thread also lets go of old builds' files.     *)
Uploaded(b, p) ==
  /\ catalog[b][p] # NoFile /\ removal = NoRemoval
  /\ held' = held \cup {catalog[b][p]}
  /\ Removing((FilesToDrop \ {catalog[b][p]}) \cap held, Builds)
  /\ UNCHANGED <<catalog, added, settings, workers, deciding, nodes, orphaned>>

(* POST /v1/releases/files/sweep.                                          *)
SweepFiles ==
  /\ removal = NoRemoval /\ FilesToDrop \cap held # {}
  /\ Removing(FilesToDrop \cap held, Builds)
  /\ UNCHANGED <<catalog, added, settings, workers, held, deciding, nodes, orphaned>>

Unlink ==
  /\ removal # NoRemoval
  /\ held' = held \ removal.files
  /\ removal' = NoRemoval
  /\ UNCHANGED <<catalog, added, settings, workers, deciding, nodes, orphaned>>

AimedAt(b) == target = b \/ \E w \in Workers : override[w] = b

(* DELETE /v1/releases/{build}: refused while in use; its files are read   *)
(* next, with nothing in between that matters to either ...                *)
CheckDelete(b) ==
  /\ deleting = NoDeletion /\ b \in Published /\ ~InUse(b)
  /\ deleting' = [at |-> "deleting", build |-> b, files |-> FilesNamed(b), aimed |-> AimedAt(b)]
  /\ UNCHANGED <<catalog, added, settings, workers, held, aiming, removal, nodes, orphaned>>

(* ... then the build goes, whoever has come to point at it since.         *)
DeleteRelease ==
  /\ deleting.at = "deleting"
  /\ LET b == deleting.build
     IN /\ catalog' = [catalog EXCEPT ![b] = [p \in Platforms |-> NoFile]]
        /\ orphaned' = IF \/ aiming # NoAim /\ aiming.build = b
                          \/ previous = b
                          \/ AimedAt(b) /\ ~deleting.aimed
                         THEN orphaned \cup {b} ELSE orphaned
  /\ deleting' = [at |-> "files", files |-> deleting.files]
  /\ UNCHANGED <<added, settings, workers, held, aiming, removal, nodes>>

(* ... and its files, but for what another build or a case is, too.        *)
DeleteFiles ==
  /\ deleting.at = "files" /\ removal = NoRemoval
  /\ Removing(deleting.files \ (ContentsOf(Builds) \cup CaseFiles), Builds)
  /\ deleting' = NoDeletion
  /\ UNCHANGED <<catalog, added, settings, workers, held, aiming, nodes, orphaned>>

-----------------------------------------------------------------------------
(* The target, canaries and the kill switch: operators.                    *)

(* PUT target of the fleet or of one worker: checked against the catalog,  *)
(* and against the platforms of the live workers unless forced ...         *)
CheckAim(of, b, force) ==
  /\ aiming = NoAim /\ b \in Published
  /\ LET who == IF of = "fleet" THEN {w \in Workers : declared[w] # NoBuild} ELSE {of}
     IN force \/ \A w \in who : catalog[b][PlatformOf[w]] # NoFile
  /\ aiming' = [of |-> of, build |-> b]
  /\ UNCHANGED <<catalog, added, settings, workers, held, deleting, removal, nodes, orphaned>>

(* _set_target: the fleet's target moves, and where it was is remembered.  *)
MoveTarget(b) ==
  /\ previous' = IF b # target /\ target # NoBuild THEN target ELSE previous
  /\ target' = b

(* ... then written.                                                       *)
Aim ==
  /\ aiming # NoAim
  /\ IF aiming.of = "fleet"
       THEN MoveTarget(aiming.build) /\ UNCHANGED override
       ELSE /\ override' = [override EXCEPT ![aiming.of] = aiming.build]
            /\ UNCHANGED <<target, previous>>
  /\ aiming' = NoAim
  /\ UNCHANGED <<catalog, added, blocked, declared, held, deleting, removal, nodes, orphaned>>

(* build = null needs no check.                                            *)
ClearTarget ==
  /\ target # NoBuild
  /\ MoveTarget(NoBuild)
  /\ UNCHANGED <<catalog, added, blocked, workers, held, deciding, removal, nodes, orphaned>>

ClearCanary(w) ==
  /\ override[w] # NoBuild
  /\ override' = [override EXCEPT ![w] = NoBuild]
  /\ UNCHANGED <<catalog, added, settings, declared, held, deciding, removal, nodes, orphaned>>

(* promote_canary: one call clears the override and sets the target.       *)
PromoteCanary(w) ==
  /\ override[w] # NoBuild
  /\ MoveTarget(override[w])
  /\ override' = [override EXCEPT ![w] = NoBuild]
  /\ UNCHANGED <<catalog, added, blocked, declared, held, deciding, removal, nodes, orphaned>>

(* roll_back, with the kill switch if block.                               *)
RollBack(block) ==
  /\ previous # NoBuild
  /\ blocked' = IF block /\ target # NoBuild THEN blocked \cup {target} ELSE blocked
  /\ MoveTarget(previous)
  /\ UNCHANGED <<catalog, added, workers, held, deciding, removal, nodes, orphaned>>

Policy(bs) ==
  /\ bs # blocked /\ blocked' = bs
  /\ UNCHANGED <<catalog, added, target, previous, workers, held, deciding, removal, nodes, orphaned>>

-----------------------------------------------------------------------------
(* Nodes.                                                                  *)

(* lease_refusal, of a node that declares its build; one that does not is *)
(* refused by the campaign's policy or leases without leaving a trace here.*)
Refused(b) == b \in blocked

Declares(w) ==
  /\ declared[w] # running[w] /\ ~Refused(running[w])
  /\ declared' = [declared EXCEPT ![w] = running[w]]
  /\ UNCHANGED <<catalog, added, settings, override, held, deciding, removal, nodes, orphaned>>

(* Wrong: a node on a blocked build is told nothing.                       *)
AnswerUnlessBlocked(w) ==
  LET b == Wanted(w)
  IN IF b \in {NoBuild, running[w]} \/ running[w] \in blocked THEN NotTold
     ELSE [build |-> b, file |-> catalog[b][PlatformOf[w]]]

(* node_release: the build to move to, and its file if there is one.       *)
Answer(w) ==
  LET b == Wanted(w)
  IN IF b \in {NoBuild, running[w]} THEN NotTold
     ELSE [build |-> b, file |-> catalog[b][PlatformOf[w]]]

Ask(w) ==
  /\ told[w] # Answer(w)
  /\ told' = [told EXCEPT ![w] = Answer(w)]
  /\ UNCHANGED <<catalog, added, settings, workers, held, deciding, removal, running, orphaned>>

(* The node fetches the file, checks its hash, and runs it.                *)
Switch(w) ==
  /\ told[w].file \in held
  /\ running' = [running EXCEPT ![w] = told[w].build]
  /\ told' = [told EXCEPT ![w] = NotTold]
  /\ UNCHANGED <<catalog, added, settings, workers, held, deciding, removal, orphaned>>

(* A node is switched off for a day.                                       *)
GoesQuiet(w) ==
  /\ declared[w] # NoBuild
  /\ declared' = [declared EXCEPT ![w] = NoBuild]
  /\ UNCHANGED <<catalog, added, settings, override, held, deciding, removal, nodes, orphaned>>

-----------------------------------------------------------------------------
ByAdmins ==
  \/ \E b \in Builds, p \in Platforms :
       Uploaded(b, p) \/ \E f \in FilesOf[b][p] : Register(b, p, f)
  \/ \E b \in Builds : CheckDelete(b)
  \/ DeleteRelease \/ DeleteFiles \/ SweepFiles \/ Unlink
  \/ \E bs \in SUBSET Builds : Policy(bs)

ByOperators ==
  \/ \E b \in Builds, force \in BOOLEAN, of \in Workers \cup {"fleet"} : CheckAim(of, b, force)
  \/ Aim \/ ClearTarget
  \/ \E block \in BOOLEAN : RollBack(block)
  \/ \E w \in Workers : ClearCanary(w) \/ PromoteCanary(w)

ByNodes ==
  \E w \in Workers :
    Declares(w) \/ Ask(w) \/ Switch(w) \/ GoesQuiet(w)

ReleasesNext == ByAdmins \/ ByOperators \/ ByNodes

ReleasesSpec == ReleasesInit /\ [][ReleasesNext]_releaseVars

(* A node's loop goes on: it asks before every lease and during a solve,   *)
(* and switches to what it was told once it could fetch it.                *)
Fairness == \A w \in Workers : WF_releaseVars(Ask(w) \/ Switch(w))

FairReleasesSpec == ReleasesSpec /\ Fairness

-----------------------------------------------------------------------------
(* The type of every variable.                                             *)
ReleasesTypeOK ==
  /\ catalog \in [Builds -> [Platforms -> MaybeFile]]
  /\ added \in [Builds -> Nat]
  /\ target \in MaybeBuild /\ previous \in MaybeBuild
  /\ blocked \in SUBSET Builds
  /\ override \in [Workers -> MaybeBuild] /\ declared \in [Workers -> MaybeBuild]
  /\ held \in SUBSET Files
  /\ aiming \in {NoAim} \cup [of : Workers \cup {"fleet"}, build : Builds]
  /\ deleting \in {NoDeletion} \cup [at : {"files"}, files : SUBSET Files]
                  \cup [at : {"deleting"}, build : Builds, files : SUBSET Files, aimed : BOOLEAN]
  /\ removal \in {NoRemoval} \cup [on : {TRUE}, files : SUBSET Files, needed : SUBSET Files]
  /\ running \in [Workers -> Builds]
  /\ told \in [Workers -> {NotTold} \cup [build : Builds, file : MaybeFile]]
  /\ orphaned \in SUBSET Builds

(* No file goes that the target, the one before it or a canary needs,      *)
(* whatever is uploaded, deleted or swept: only one that came to be needed *)
(* between the remover's question and its unlink.                          *)
NeededFilesStay ==
  [][\A f \in held \ held' : f \in NeededFiles => f \notin removal.needed]_releaseVars

(* The fleet and the canaries are pointed at builds in the catalog, but    *)
(* for one that was deleted while an aim at it was between its check and   *)
(* its write, or was aimed at between the check of its deletion and the    *)
(* deletion, or was only the build to roll back to when it went.           *)
AimsArePublished == \A b \in Builds : AimedAt(b) => b \in Published \cup orphaned

(* If from some time on a node is to run one build and its file is held,   *)
(* it runs it for good -- also from a build that is blocked.               *)
Reachable(w, b) == Wanted(w) = b /\ catalog[b][PlatformOf[w]] \in held

NodesArrive ==
  \A w \in Workers, b \in Builds : <>[]Reachable(w, b) => <>[](running[w] = b)
=============================================================================
