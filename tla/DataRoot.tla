------------------------------- MODULE DataRoot -------------------------------
(***************************************************************************)
(* The migration of the application's data root                            *)
(* (app/src/main/data-root-migration.ts).  A locator file outside the data *)
(* names the active directory and at most one pending operation.  The user *)
(* registers operations while the application runs; they are carried out   *)
(* by the next start, before anything writes: the source is mirrored into  *)
(* a staging directory beside the target, its absolute paths are rebound,  *)
(* the stage is renamed to the target and the locator switched.  A process *)
(* may die between any two file operations, and each may fail; the         *)
(* application then runs on the directory the locator still names.         *)
(*                                                                         *)
(* A directory's files are a version number, new with each write of the    *)
(* application, and the root its metadata is bound to.                     *)
(***************************************************************************)
EXTENDS Naturals, Sequences

CONSTANTS
    Dir,            \* directories a user may choose
    Default,        \* the directory the branding defines
    None,
    FaultKind,      \* what may fail: "read", "persist", "copy", "swap", "commit", "foreign"
    MaxWrites, MaxMigrations, MaxFaults, MaxCrashes

VARIABLES
    locator,    \* the locator file
    tree,       \* [Dir -> a directory's content]
    stage,      \* [migration -> content of its staging directory]
    pc,         \* where the start, or the operation the user asked for, is
    where,      \* the directory the application runs on
    writes, migrations,
    faults,     \* the kinds that failed, in their order
    crashes

rootVars == <<locator, tree, stage, pc, where, writes, migrations, faults, crashes>>

-----------------------------------------------------------------------------
Absent == [data |-> 0, bound |-> None, whole |-> TRUE, there |-> FALSE]
Empty  == [Absent EXCEPT !.there = TRUE]
Partial == [Empty EXCEPT !.whole = FALSE]
Files(version, root) == [data |-> version, bound |-> root, whole |-> TRUE, there |-> TRUE]
Tree == [data : 0 .. MaxWrites, bound : Dir \cup {None}, whole : BOOLEAN, there : BOOLEAN]

Phase == {"requested", "copying", "verifying", "committing", "failed"}
Pending == [id : 1 .. MaxMigrations, source : Dir, target : Dir, phase : Phase, manifest : Tree \cup {None}]
Rollbacks == [from : Dir, to : Dir]
Locator ==
    [active : Dir, previous : Dir \cup {None}, migration : Pending \cup {None},
     rollback : Rollbacks \cup {None}]

DataRootAssumption == Default \in Dir /\ None \notin Dir \cup Tree \cup Pending \cup Rollbacks
DataRootBounds ==
    /\ FaultKind \subseteq {"read", "persist", "copy", "swap", "commit", "foreign"}
    /\ {MaxWrites, MaxMigrations, MaxFaults, MaxCrashes} \subseteq Nat
ASSUME DataRootConstants == DataRootAssumption /\ DataRootBounds

\* What a missing or unreadable locator is read as.
Fallback == [active |-> Default, previous |-> None, migration |-> None, rollback |-> None]

\* Boot steps of a start, and the user's operation that takes two file operations.
Boot == {"locate", "rolled back", "begin", "mirror", "rebind", "verify", "seal", "clear", "rename", "commit", "record"}
Step == {"off", "running", "cancel"} \cup Boot

Failed == {faults[i] : i \in DOMAIN faults}
Fault(kind) == kind \in FaultKind /\ Len(faults) < MaxFaults /\ faults' = Append(faults, kind)

\* The locator is read: as it is, or as the fallback when the read fails.
ReadAs(read) ==
    \/ read = locator /\ UNCHANGED faults
    \/ read = Fallback /\ Fault("read")

migration == locator.migration
Stage == IF migration = None THEN Absent ELSE stage[migration.id]
MissingOrEmpty(d) == tree[d] \in {Absent, Empty}

\* The stage was renamed to the target: the migration only lacks its commit.
Committed == migration.phase = "committing" /\ tree[migration.target].there /\ ~Stage.there

Persist(pending) == locator' = [locator EXCEPT !.migration = pending]

-----------------------------------------------------------------------------
(* The start of the application.                                           *)

Start ==
    /\ pc = "off"
    /\ pc' = "locate"
    /\ UNCHANGED <<locator, tree, stage, where, writes, migrations, faults, crashes>>

\* prepareForBootstrap: a pending rollback first.  One that fails, or whose
\* directories changed or vanished, stays pending with its error.
Rollback(read) == read.rollback # None /\ read.active = read.rollback.from /\ tree[read.rollback.to].there

Prepare ==
    /\ pc = "locate"
    /\ \E read \in {locator, Fallback} :
         /\ ReadAs(read)
         /\ \/ Rollback(read)
               /\ locator' = [read EXCEPT !.active = read.rollback.to, !.previous = read.rollback.from,
                                          !.rollback = None]
            \/ ~Rollback(read) /\ UNCHANGED locator
         /\ pc' = IF read.migration = None THEN "rolled back" ELSE "begin"
    /\ UNCHANGED <<tree, stage, where, writes, migrations, crashes>>

\* The locator cannot be written; when the error cannot be noted in it either,
\* the start ends.
RollbackFails ==
    /\ pc = "locate" /\ locator.rollback # None
    /\ Fault("persist")
    /\ pc' = "off" \/ (Rollback(locator) /\ pc' = "rolled back")
    /\ UNCHANGED <<locator, tree, stage, where, writes, migrations, crashes>>

\* executeMigration: only an operation whose target was renamed into place by
\* an earlier start has a manifest, a target and no stage.
Renamed == migration.manifest # None /\ tree[migration.target].there /\ ~Stage.there

Begin ==
    /\ pc = "begin"
    /\ \/ Renamed
          /\ UNCHANGED <<locator, faults>>
          /\ pc' = "commit"
       \/ /\ ~Renamed /\ tree[migration.source].there /\ MissingOrEmpty(migration.target)
          /\ Persist([migration EXCEPT !.phase = "copying"])
          /\ UNCHANGED faults
          /\ pc' = "mirror"
       \/ /\ ~Renamed
          /\ ~tree[migration.source].there \/ ~MissingOrEmpty(migration.target) \/ "persist" \in FaultKind
          /\ IF tree[migration.source].there /\ MissingOrEmpty(migration.target)
               THEN Fault("persist") ELSE UNCHANGED faults
          /\ UNCHANGED locator
          /\ pc' = "record"
    /\ UNCHANGED <<tree, stage, where, writes, migrations, crashes>>

\* mirrorTree, verifyRawCopy: whatever the stage holds is made the source's;
\* cut off or failing, it leaves a part of it.
Mirrored_Staged(pending) == IF Stage.there THEN Stage ELSE tree[pending.source]
Mirrored(pending) == tree[pending.source]

Mirror ==
    /\ pc = "mirror"
    /\ \/ /\ stage' = [stage EXCEPT ![migration.id] = Mirrored(migration)]
          /\ pc' = "rebind"
          /\ UNCHANGED <<faults, crashes>>
       \/ /\ stage' = [stage EXCEPT ![migration.id] = Partial]
          /\ \/ Fault("copy") /\ pc' = "record" /\ UNCHANGED crashes
             \/ crashes < MaxCrashes /\ crashes' = crashes + 1 /\ pc' = "off" /\ UNCHANGED faults
    /\ UNCHANGED <<locator, tree, where, writes, migrations>>

\* rebindDataRootMetadata: absolute paths into the source become the target's.
Rebound(content, pending) ==
    IF content.bound = pending.source THEN [content EXCEPT !.bound = pending.target] ELSE content

Rebind ==
    /\ pc = "rebind"
    /\ \/ stage' = [stage EXCEPT ![migration.id] = Rebound(@, migration)] /\ pc' = "verify" /\ UNCHANGED faults
       \/ stage' = [stage EXCEPT ![migration.id] = Partial] /\ pc' = "record" /\ Fault("copy")
    /\ UNCHANGED <<locator, tree, where, writes, migrations, crashes>>

\* The phases are persisted as they are reached; "committing" with the manifest.
Reach(here, next, pending) ==
    /\ pc = here
    /\ \/ Persist(pending) /\ pc' = next /\ UNCHANGED faults
       \/ Fault("persist") /\ pc' = "record" /\ UNCHANGED locator
    /\ UNCHANGED <<tree, stage, where, writes, migrations, crashes>>

Verify == Reach("verify", "seal", [migration EXCEPT !.phase = "verifying"])
Seal   == Reach("seal", "clear", [migration EXCEPT !.phase = "committing", !.manifest = Stage])

\* The empty target is removed, then the stage renamed.
Clear ==
    /\ pc = "clear"
    /\ \/ tree' = [tree EXCEPT ![migration.target] = Absent] /\ pc' = "rename" /\ UNCHANGED faults
       \/ Fault("swap") /\ pc' = "record" /\ UNCHANGED tree
    /\ UNCHANGED <<locator, stage, where, writes, migrations, crashes>>

Rename ==
    /\ pc = "rename"
    /\ \/ /\ ~tree[migration.target].there
          /\ tree' = [tree EXCEPT ![migration.target] = Stage]
          /\ stage' = [stage EXCEPT ![migration.id] = Absent]
          /\ pc' = "commit"
          /\ UNCHANGED faults
       \/ /\ IF tree[migration.target].there THEN UNCHANGED faults ELSE Fault("swap")
          /\ pc' = "record"
          /\ UNCHANGED <<tree, stage>>
    /\ UNCHANGED <<locator, where, writes, migrations, crashes>>

\* assertExpectedManifest, commitLocator.
AsExpected_Any(pending) == tree[pending.target].there
AsExpected(pending) == tree[pending.target] = pending.manifest

Commit ==
    /\ pc = "commit"
    /\ \/ /\ AsExpected(migration)
          /\ locator' = [locator EXCEPT !.active = migration.target, !.previous = migration.source,
                                        !.migration = None, !.rollback = None]
          /\ pc' = "rolled back"
          /\ UNCHANGED faults
       \/ /\ IF AsExpected(migration) THEN Fault("commit") ELSE UNCHANGED faults
          /\ pc' = "record"
          /\ UNCHANGED locator
    /\ UNCHANGED <<tree, stage, where, writes, migrations, crashes>>

\* recordMigrationFailure.  A start whose failure cannot be recorded ends.
FailedPhase(pending) == IF Committed THEN "committing" ELSE "failed"

Record ==
    /\ pc = "record"
    /\ \/ Persist([migration EXCEPT !.phase = FailedPhase(migration)]) /\ pc' = "rolled back" /\ UNCHANGED faults
       \/ Fault("read") /\ pc' = "rolled back" /\ UNCHANGED locator
       \/ Fault("persist") /\ pc' = "off" /\ UNCHANGED locator
    /\ UNCHANGED <<tree, stage, where, writes, migrations, crashes>>

\* index.ts, bootstrap: the locator names the directory, whose layout is made.
Open ==
    /\ pc = "rolled back"
    /\ \E read \in {locator, Fallback} :
         /\ ReadAs(read)
         /\ where' = read.active
         /\ tree' = IF tree[read.active] \in {Absent, Empty}
                      THEN [tree EXCEPT ![read.active] = Files(0, read.active)] ELSE tree
    /\ pc' = "running"
    /\ UNCHANGED <<locator, stage, writes, migrations, crashes>>

-----------------------------------------------------------------------------
(* The running application.                                                *)

Write ==
    /\ pc \in {"running", "cancel"} /\ writes < MaxWrites
    /\ writes' = writes + 1
    /\ tree' = [tree EXCEPT ![where].data = writes + 1]
    /\ UNCHANGED <<locator, stage, pc, where, migrations, faults, crashes>>

NonePending(read) == read.migration = None /\ read.rollback = None

RequestMigration(target) ==
    /\ pc = "running" /\ migrations < MaxMigrations
    /\ \E read \in {locator, Fallback} :
         /\ ReadAs(read)
         /\ NonePending(read)
         /\ target # read.active /\ MissingOrEmpty(target)
         /\ migrations' = migrations + 1
         /\ locator' = [read EXCEPT !.migration =
              [id |-> migrations + 1, source |-> read.active, target |-> target,
               phase |-> "requested", manifest |-> None]]
    /\ UNCHANGED <<tree, stage, pc, where, writes, crashes>>

RequestRollback ==
    /\ pc = "running"
    /\ NonePending(locator)
    /\ locator.previous # None /\ tree[locator.previous].there
    /\ locator' = [locator EXCEPT !.rollback = [from |-> locator.active, to |-> locator.previous]]
    /\ UNCHANGED <<tree, stage, pc, where, writes, migrations, faults, crashes>>

\* cancelPending: the stage first, then the locator; refused once committing.
Refuses == Committed

Cancel ==
    /\ pc = "running" /\ migration # None /\ ~Refuses
    /\ stage' = [stage EXCEPT ![migration.id] = Absent]
    /\ pc' = "cancel"
    /\ UNCHANGED <<locator, tree, where, writes, migrations, faults, crashes>>

Forget ==
    /\ \/ pc = "cancel"
       \/ pc = "running" /\ migration = None /\ locator.rollback # None
    /\ pc' = "running"
    /\ \/ locator' = [locator EXCEPT !.migration = None, !.rollback = None] /\ UNCHANGED faults
       \/ Fault("persist") /\ UNCHANGED locator
    /\ UNCHANGED <<tree, stage, where, writes, migrations, crashes>>

\* A locator that cannot be read while something is pending: the fallback is
\* written in its place.
ForgetUnread ==
    /\ pc = "running" /\ ~NonePending(locator)
    /\ Fault("read")
    /\ locator' = Fallback
    /\ UNCHANGED <<tree, stage, pc, where, writes, migrations, crashes>>

Quit ==
    /\ pc = "running"
    /\ pc' = "off"
    /\ UNCHANGED <<locator, tree, stage, where, writes, migrations, faults, crashes>>

Crash ==
    /\ pc \notin {"off", "running"} /\ crashes < MaxCrashes
    /\ crashes' = crashes + 1
    /\ pc' = "off"
    /\ UNCHANGED <<locator, tree, stage, where, writes, migrations, faults>>

\* Somebody else puts a file into the target of a pending migration.
Foreign ==
    /\ migration # None
    /\ Fault("foreign")
    /\ tree' = [tree EXCEPT ![migration.target] = [@ EXCEPT !.there = TRUE, !.whole = FALSE]]
    /\ UNCHANGED <<locator, stage, pc, where, writes, migrations, crashes>>

RootInit ==
    /\ locator = Fallback
    /\ tree \in {f \in [Dir -> {Absent, Empty}] : f[Default] = Absent}
    /\ stage = [id \in 1 .. MaxMigrations |-> Absent]
    /\ pc = "off" /\ where = Default
    /\ writes = 0 /\ migrations = 0 /\ faults = << >> /\ crashes = 0

RootNext ==
    \/ Start \/ Prepare \/ RollbackFails \/ Begin \/ Mirror \/ Rebind \/ Verify \/ Seal
    \/ Clear \/ Rename \/ Commit \/ Record \/ Open
    \/ Write \/ RequestRollback \/ Cancel \/ Forget \/ ForgetUnread \/ Quit \/ Crash \/ Foreign
    \/ \E target \in Dir : RequestMigration(target)

RootSpec == RootInit /\ [][RootNext]_rootVars

-----------------------------------------------------------------------------
\* Types, and what the phases say: a manifest is there once committing, and the
\* two operations are never pending together.
DataRootTypeOK ==
    /\ locator \in Locator
    /\ tree \in [Dir -> Tree] /\ stage \in [1 .. MaxMigrations -> Tree]
    /\ pc \in Step /\ where \in Dir
    /\ pc \in (Boot \ {"locate", "rolled back"}) \cup {"cancel"} => migration # None
    /\ migration # None => locator.rollback = None
    /\ migration # None /\ migration.phase = "committing" => migration.manifest # None

\* data-root-migration.ts, executeMigration: the directory the locator names is
\* never a part of another one, nor bound to another root: a stage is published
\* whole and rebound, however many starts it took, and the locator says what is pending.
ActiveIsWhole ==
    /\ DataRootTypeOK
    /\ LET content == tree[locator.active] IN
         content.there => content.whole /\ content.bound \in {locator.active, None}

\* data-root-migration.ts, prepareForBootstrap: a committed migration took over
\* exactly what the application had written.
TakesOver ==
    locator.migration # None /\ locator'.active = locator.migration.target /\ locator.active # locator'.active
      => tree[locator'.active].data = tree[locator.active].data

\* data-root-migration.ts, requestRollback: the previous directory is kept as it
\* was left, so that a rollback finds it.
KeepsPrevious ==
    locator.previous # None /\ locator'.previous = locator.previous
      => tree'[locator.previous] = tree[locator.previous]

\* What the user has written is kept, whoever crashes or fails: the previous
\* directory as long as the locator could be read whenever it was, and what a
\* migration takes over as long as no switch of the locator failed either.
DataIsKept ==
    [][/\ "read" \notin Failed' => KeepsPrevious
       /\ {"read", "commit"} \cap Failed' = {} => TakesOver]_rootVars
=============================================================================
