--------------------------- MODULE Desktop_proofs ----------------------------
(***************************************************************************)
(* Proofs about what the desktop application keeps beside its runs:        *)
(* DataRoot and RunnerLifecycle, for any directories, configurations,      *)
(* requests, kinds of failures and bounds.                                 *)
(*                                                                         *)
(* Of DataRoot: the inductive invariant says what the locator names        *)
(* (Pendings, Directories) and what the stage holds between two steps      *)
(* (Staged); it holds whatever fails.  That no data is lost rests on two   *)
(* more parts: RunsWhere, which a failed read of the locator breaks, and   *)
(* Taken, which a failed switch of the locator breaks too, since the       *)
(* application then goes on writing to the source of a migration that is   *)
(* in place.                                                               *)
(*                                                                         *)
(* Of RunnerLifecycle: LifecycleInv says who is in the queue of builds and *)
(* that whoever has a runner in its hands is its head (QueueOrdered), so   *)
(* that one runner at most is being built and one replaced (OneIsBuilt,    *)
(* ReplacedIsApart), each runner that is up has its place (NoRunnerIsLost) *)
(* and its runs a source (SourcesFollow).  SavesInv adds from which        *)
(* revision the published runner and the one at work were built and, until *)
(* a key is saved, that what a save wrote stays the accepted configuration *)
(* until it is built or remembered as not applied.                         *)
(***************************************************************************)
EXTENDS DataRoot, RunnerLifecycle, FiniteSetTheorems, SequenceTheorems, TLAPS

-----------------------------------------------------------------------------
(* DataRoot                                                                *)

\* What may fail.
Kind == {"read", "persist", "copy", "swap", "commit", "foreign"}

\* A directory that is whole and bound to itself.
Intact(d) == tree[d].there /\ tree[d].whole /\ tree[d].bound = d

\* The range of every variable.
RootTyped ==
    /\ locator \in Locator
    /\ tree \in [Dir -> Tree] /\ stage \in [1 .. MaxMigrations -> Tree]
    /\ pc \in Step /\ where \in Dir
    /\ writes \in 0 .. MaxWrites /\ migrations \in 0 .. MaxMigrations
    /\ faults \in Seq(Kind)

\* What the locator says is pending: a migration starts at the active directory and
\* ends at another one, and its manifest is that of a whole, rebound stage; a
\* rollback goes from the active directory to the previous one.
Pendings ==
    /\ pc \in (Boot \ {"locate", "rolled back"}) \cup {"cancel"} => migration # None
    /\ migration # None => locator.rollback = None
    /\ migration # None /\ migration.phase = "committing" => migration.manifest # None
    /\ migration # None =>
         /\ migration.source = locator.active
         /\ migration.target \notin {locator.active, locator.previous, Default}
    /\ migration # None /\ migration.manifest # None =>
         migration.manifest.there /\ migration.manifest.whole /\ migration.manifest.bound = migration.target
    /\ locator.rollback # None =>
         locator.previous # None /\ locator.rollback = [from |-> locator.active, to |-> locator.previous]

\* The directories the locator names.  Only the default one may not be there yet, and
\* only before the first start has opened it.
Directories ==
    /\ tree[Default] = Absent \/ Intact(Default)
    /\ pc \in {"running", "cancel"} \/ locator # Fallback => Intact(Default)
    /\ locator.active # Default => Intact(locator.active)
    /\ locator.previous # None => Intact(locator.previous) /\ locator.previous # locator.active

\* The stage between two steps of a migration.
Staged ==
    /\ pc = "rebind" => Stage.there /\ Stage.whole /\ Stage.bound = migration.source
    /\ pc \in {"verify", "seal", "clear", "rename"} =>
         Stage.there /\ Stage.whole /\ Stage.bound = migration.target

\* The application runs on the active directory: true until a read of the locator
\* fails.
RunsWhere == pc \in {"running", "cancel"} => where = locator.active

\* The target is what the manifest says, although the locator was not switched.
InPlace ==
    migration # None /\ migration.manifest # None /\ tree[migration.target] = migration.manifest

\* The stage, and later the target, has the data of the source: the application does not
\* run from the copy on until the switch.  True until a read of the locator, or its
\* switch, fails.
Taken ==
    /\ pc \in {"mirror", "rebind", "verify", "seal", "clear", "rename"} =>
         MissingOrEmpty(migration.target) \/ ~tree[migration.target].whole
    /\ pc \in {"rebind", "verify", "seal", "clear", "rename"} => Stage.data = tree[migration.source].data
    /\ pc \in {"clear", "rename"} => migration.manifest = Stage
    /\ InPlace =>
         /\ pc \in {"off", "locate", "begin", "commit"}
         /\ ~Stage.there
         /\ migration.manifest.data = tree[migration.source].data

\* The inductive invariant.
RootInv ==
    /\ RootTyped /\ Pendings /\ Directories /\ Staged
    /\ "read" \notin Failed => RunsWhere
    /\ {"read", "commit"} \cap Failed = {} => Taken

-----------------------------------------------------------------------------
(* Types.                                                                  *)

\* A failure is added to those that happened.
LEMMA FaultTyped ==
    ASSUME faults \in Seq(Kind), NEW kind, Fault(kind)
    PROVE  faults' \in Seq(Kind) /\ Failed' = Failed \cup {kind}
<1>1. kind \in Kind /\ faults' = Append(faults, kind)
  BY DataRootConstants DEF DataRootBounds, Fault, Kind
<1>2. faults' \in Seq(Kind) /\ Len(faults') = Len(faults) + 1 /\ faults'[Len(faults) + 1] = kind
  BY <1>1
<1>3. \A i \in 1 .. Len(faults) : faults'[i] = faults[i]
  BY <1>1
<1>4. DOMAIN faults = 1 .. Len(faults) /\ DOMAIN faults' = 1 .. Len(faults) + 1 /\ Len(faults) \in Nat
  BY <1>2
<1> QED BY <1>2, <1>3, <1>4 DEF Failed

\* A pending migration, its stage and the fallback are what their names say.
LEMMA Typed ==
    ASSUME RootTyped
    PROVE  /\ migration # None => migration \in Pending
           /\ Stage \in Tree
           /\ Fallback \in Locator
           /\ {Absent, Empty, Partial} \subseteq Tree
<1>1. 0 \in 0 .. MaxWrites
  BY DataRootConstants DEF DataRootBounds
<1>2. {Absent, Empty, Partial} \subseteq Tree
  <2>1. Absent \in Tree
    BY <1>1 DEF Tree, Absent
  <2>2. Empty \in Tree
    BY <2>1 DEF Tree, Empty
  <2>3. Partial \in Tree
    BY <2>2 DEF Tree, Partial
  <2> QED BY <2>1, <2>2, <2>3
<1>3. Fallback \in Locator
  BY DataRootConstants DEF DataRootAssumption, Fallback, Locator
<1>4. migration # None => migration \in Pending
  BY DEF RootTyped, Locator, migration
<1>5. migration # None => migration.id \in 1 .. MaxMigrations
  BY <1>4 DEF Pending
<1> QED BY <1>2, <1>3, <1>4, <1>5 DEF Stage, RootTyped

\* A persisted operation leaves the rest of the locator alone.
LEMMA PersistMoves ==
    ASSUME locator \in Locator, NEW p \in Pending \cup {None}, Persist(p)
    PROVE  /\ locator' \in Locator
           /\ locator'.migration = p
           /\ locator'.active = locator.active
           /\ locator'.previous = locator.previous
           /\ locator'.rollback = locator.rollback
BY DEF Persist, Locator

\* A new phase leaves the rest of an operation alone.
LEMMA PhaseMoves ==
    ASSUME NEW p \in Pending, NEW phase \in Phase
    PROVE  /\ [p EXCEPT !.phase = phase] \in Pending
           /\ [p EXCEPT !.phase = phase].id = p.id
           /\ [p EXCEPT !.phase = phase].source = p.source
           /\ [p EXCEPT !.phase = phase].target = p.target
           /\ [p EXCEPT !.phase = phase].phase = phase
           /\ [p EXCEPT !.phase = phase].manifest = p.manifest
BY DEF Pending

\* So does the manifest that comes with the last phase.
LEMMA ManifestMoves ==
    ASSUME NEW p \in Pending, NEW phase \in Phase, NEW content \in Tree,
           NEW q, q = [p EXCEPT !.phase = phase, !.manifest = content]
    PROVE  /\ q \in Pending /\ q.id = p.id /\ q.source = p.source /\ q.target = p.target
           /\ q.phase = phase /\ q.manifest = content
BY DEF Pending

\* Every step keeps the range of the locator.
LEMMA LocatorStep ==
    ASSUME RootTyped, Pendings, RootNext
    PROVE  locator' \in Locator
<1> USE DEF RootTyped
<1>1. CASE Start \/ RollbackFails \/ Mirror \/ Rebind \/ Clear \/ Rename \/ Open \/ Write \/ Cancel \/
          Quit \/ Crash \/ Foreign
  BY <1>1 DEF Start, RollbackFails, Mirror, Rebind, Clear, Rename, Open, Write, Cancel, Quit, Crash,
      Foreign
<1>2. CASE Prepare
  <2>1. PICK read \in {locator, Fallback} :
          \/ /\ Rollback(read)
             /\ locator' = [read EXCEPT !.active = read.rollback.to, !.previous = read.rollback.from,
                                        !.rollback = None]
          \/ UNCHANGED locator
    BY <1>2 DEF Prepare
  <2>2. read \in Locator
    BY <2>1, Typed
  <2>3. Rollback(read) => read.rollback.to \in Dir /\ read.rollback.from \in Dir
    BY <2>2 DEF Rollback, Locator, Rollbacks
  <2> QED BY <2>1, <2>2, <2>3 DEF Locator
<1>3. CASE Begin
  <2>1. migration \in Pending
    BY <1>3, Typed DEF Begin, Pendings, Boot
  <2>2. UNCHANGED locator \/ Persist([migration EXCEPT !.phase = "copying"])
    BY <1>3 DEF Begin
  <2> QED BY <2>1, <2>2, PhaseMoves, PersistMoves DEF Phase
<1>4. CASE Verify
  <2>1. migration \in Pending
    BY <1>4, Typed DEF Verify, Reach, Pendings, Boot
  <2>2. UNCHANGED locator \/ Persist([migration EXCEPT !.phase = "verifying"])
    BY <1>4 DEF Verify, Reach
  <2> QED BY <2>1, <2>2, PhaseMoves, PersistMoves DEF Phase
<1>5. CASE Seal
  <2>1. migration \in Pending
    BY <1>5, Typed DEF Seal, Reach, Pendings, Boot
  <2>2. UNCHANGED locator \/ Persist([migration EXCEPT !.phase = "committing", !.manifest = Stage])
    BY <1>5 DEF Seal, Reach
  <2>3. [migration EXCEPT !.phase = "committing", !.manifest = Stage] \in Pending
    <3>1. Stage \in Tree
      BY Typed
    <3> QED BY <2>1, <3>1 DEF Pending, Phase
  <2> QED BY <2>2, <2>3, PersistMoves
<1>6. CASE Commit
  <2>1. migration \in Pending
    BY <1>6, Typed DEF Commit, Pendings, Boot
  <2>2. migration.target \in Dir /\ migration.source \in Dir
    BY <2>1 DEF Pending
  <2> QED BY <1>6, <2>2 DEF Commit, Locator
<1>7. CASE Record
  <2>1. migration \in Pending
    BY <1>7, Typed DEF Record, Pendings, Boot
  <2>2. FailedPhase(migration) \in Phase
    BY DEF FailedPhase, Phase
  <2>3. UNCHANGED locator \/ Persist([migration EXCEPT !.phase = FailedPhase(migration)])
    BY <1>7 DEF Record
  <2> QED BY <2>1, <2>2, <2>3, PhaseMoves, PersistMoves
<1>8. CASE RequestRollback
  <2>1. locator.previous \in Dir
    BY <1>8 DEF RequestRollback, Locator
  <2>2. [from |-> locator.active, to |-> locator.previous] \in Rollbacks
    BY <2>1 DEF Locator, Rollbacks
  <2> QED BY <1>8, <2>2 DEF RequestRollback, Locator
<1>9. CASE Forget
  BY <1>9 DEF Forget, Locator
<1>10. CASE \E target \in Dir : RequestMigration(target)
  <2> PICK target \in Dir : RequestMigration(target)
    BY <1>10
  <2> DEFINE p(read) ==
        [id |-> migrations + 1, source |-> read.active, target |-> target, phase |-> "requested",
         manifest |-> None]
  <2>1. PICK read \in {locator, Fallback} : locator' = [read EXCEPT !.migration = p(read)]
    BY DEF RequestMigration
  <2>2. read \in Locator
    BY <2>1, Typed
  <2>3. migrations + 1 \in 1 .. MaxMigrations
    BY DataRootConstants DEF RequestMigration, DataRootBounds
  <2>4. p(read) \in Pending
    BY <2>2, <2>3 DEF Locator, Pending, Phase
  <2> HIDE DEF p
  <2> QED BY <2>1, <2>2, <2>4 DEF Locator
<1>11. CASE ForgetUnread
  BY <1>11, Typed DEF ForgetUnread
<1> QED BY <1>1, <1>2, <1>3, <1>4, <1>5, <1>6, <1>7, <1>8, <1>9, <1>10, <1>11 DEF RootNext

\* A failure is never forgotten.
LEMMA FaultsStep ==
    ASSUME RootTyped, RootNext
    PROVE  faults' \in Seq(Kind) /\ Failed \subseteq Failed'
<1> USE FaultTyped DEF RootTyped
<1>1. CASE Start \/ Write \/ RequestRollback \/ Cancel \/ Quit \/ Crash
  BY <1>1 DEF Failed, Start, Write, RequestRollback, Cancel, Quit, Crash
<1>2. CASE Prepare
  BY <1>2 DEF Prepare, ReadAs, Failed
<1>3. CASE RollbackFails
  BY <1>3 DEF RollbackFails, Failed
<1>4. CASE Begin
  BY <1>4 DEF Begin, Failed
<1>5. CASE Mirror
  BY <1>5 DEF Mirror, Failed
<1>6. CASE Rebind
  BY <1>6 DEF Rebind, Failed
<1>7. CASE Verify
  BY <1>7 DEF Reach, Verify, Failed
<1>8. CASE Seal
  BY <1>8 DEF Reach, Seal, Failed
<1>9. CASE Clear
  BY <1>9 DEF Clear, Failed
<1>10. CASE Rename
  BY <1>10 DEF Rename, Failed
<1>11. CASE Commit
  BY <1>11 DEF Commit, Failed
<1>12. CASE Record
  BY <1>12 DEF Record, Failed
<1>13. CASE Open
  BY <1>13 DEF Open, ReadAs, Failed
<1>14. CASE Forget
  BY <1>14 DEF Forget, Failed
<1>15. CASE Foreign
  BY <1>15 DEF Foreign, Failed
<1>16. CASE \E target \in Dir : RequestMigration(target)
  BY <1>16 DEF RequestMigration, ReadAs, Failed
<1>17. CASE ForgetUnread
  BY <1>17 DEF ForgetUnread, Failed
<1> QED BY <1>1, <1>2, <1>3, <1>4, <1>5, <1>6, <1>7, <1>8, <1>9, <1>10, <1>11, <1>12, <1>13,
      <1>14, <1>15, <1>16, <1>17 DEF RootNext

\* Every step keeps the range of the directories.
LEMMA TreeStep ==
    ASSUME RootTyped, Pendings, RootNext
    PROVE  tree' \in [Dir -> Tree]
<1> USE DEF RootTyped
<1>1. CASE Start \/ Prepare \/ RollbackFails \/ Begin \/ Mirror \/ Rebind \/ Verify \/ Seal \/
          Commit \/ Record \/ RequestRollback \/ Cancel \/ Forget \/ ForgetUnread \/ Quit \/ Crash \/
          \E target \in Dir : RequestMigration(target)
  BY <1>1 DEF Reach, Start, Prepare, RollbackFails, Begin, Mirror, Rebind, Verify, Seal, Commit,
      Record, RequestRollback, Cancel, Forget, ForgetUnread, Quit, Crash, RequestMigration
<1>2. CASE Clear
  <2>1. migration.target \in Dir
    BY <1>2, Typed DEF Clear, Pendings, Boot, Pending
  <2> QED BY <1>2, <2>1, Typed DEF Clear
<1>3. CASE Rename
  <2>1. migration.target \in Dir
    BY <1>3, Typed DEF Rename, Pendings, Boot, Pending
  <2> QED BY <1>3, <2>1, Typed DEF Rename
<1>4. CASE Open
  <2>1. PICK read \in {locator, Fallback} :
          \/ tree' = [tree EXCEPT ![read.active] = Files(0, read.active)]
          \/ UNCHANGED tree
    BY <1>4 DEF Open
  <2>2. read.active \in Dir
    BY <2>1, Typed DEF Locator
  <2>3. Files(0, read.active) \in Tree
    BY <2>2, DataRootConstants DEF Files, Tree, DataRootBounds
  <2> QED BY <2>1, <2>2, <2>3
<1>5. CASE Write
  <2>1. writes + 1 \in 0 .. MaxWrites
    BY <1>5, DataRootConstants DEF Write, DataRootBounds
  <2>2. [tree[where] EXCEPT !.data = writes + 1] \in Tree
    BY <2>1 DEF Tree
  <2> QED BY <1>5, <2>2 DEF Write
<1>6. CASE Foreign
  <2>1. migration.target \in Dir
    BY <1>6, Typed DEF Foreign, Pending
  <2>2. [tree[migration.target] EXCEPT !.there = TRUE, !.whole = FALSE] \in Tree
    BY <2>1 DEF Tree
  <2> QED BY <1>6, <2>2 DEF Foreign
<1> QED BY <1>1, <1>2, <1>3, <1>4, <1>5, <1>6 DEF RootNext

\* Every step keeps the range of the stages.
LEMMA StageStep ==
    ASSUME RootTyped, Pendings, RootNext
    PROVE  stage' \in [1 .. MaxMigrations -> Tree]
<1> USE DEF RootTyped
<1>1. CASE Start \/ Prepare \/ RollbackFails \/ Begin \/ Verify \/ Seal \/ Clear \/ Commit \/ Record \/
          Open \/ Write \/ RequestRollback \/ Forget \/ ForgetUnread \/ Quit \/ Crash \/ Foreign \/
          \E target \in Dir : RequestMigration(target)
  BY <1>1 DEF Reach, Start, Prepare, RollbackFails, Begin, Verify, Seal, Clear, Commit, Record, Open,
      Write, RequestRollback, Forget, ForgetUnread, Quit, Crash, Foreign, RequestMigration
<1>2. CASE Mirror
  <2>1. migration \in Pending
    BY <1>2, Typed DEF Mirror, Pendings, Boot
  <2>2. migration.id \in 1 .. MaxMigrations /\ migration.source \in Dir /\ migration.target \in Dir
    BY <2>1 DEF Pending
  <2> QED BY <1>2, <2>2, Typed DEF Mirror, Mirrored
<1>3. CASE Rebind
  <2>1. migration \in Pending
    BY <1>3, Typed DEF Rebind, Pendings, Boot
  <2>2. migration.id \in 1 .. MaxMigrations /\ migration.source \in Dir /\ migration.target \in Dir
    BY <2>1 DEF Pending
  <2>3. Rebound(stage[migration.id], migration) \in Tree
    BY <2>2 DEF Rebound, Tree
  <2> QED BY <1>3, <2>2, <2>3, Typed DEF Rebind
<1>4. CASE Rename
  <2>1. migration \in Pending
    BY <1>4, Typed DEF Rename, Pendings, Boot
  <2>2. migration.id \in 1 .. MaxMigrations /\ migration.source \in Dir /\ migration.target \in Dir
    BY <2>1 DEF Pending
  <2> QED BY <1>4, <2>2, Typed DEF Rename
<1>5. CASE Cancel
  <2>1. migration \in Pending
    BY <1>5, Typed DEF Cancel, Pendings, Boot
  <2>2. migration.id \in 1 .. MaxMigrations /\ migration.source \in Dir /\ migration.target \in Dir
    BY <2>1 DEF Pending
  <2> QED BY <1>5, <2>2, Typed DEF Cancel
<1> QED BY <1>1, <1>2, <1>3, <1>4, <1>5 DEF RootNext

\* Every step keeps the range of the counters and of the place of the start.
LEMMA RestStep ==
    ASSUME RootTyped, RootNext
    PROVE  pc' \in Step /\ writes' \in 0 .. MaxWrites /\ migrations' \in 0 .. MaxMigrations
<1>1. pc' \in Step
  BY DEF RootTyped, RootNext, Step, Boot, Reach, Start, Prepare, RollbackFails, Begin, Mirror,
      Rebind, Verify, Seal, Clear, Rename, Commit, Record, Open, Write, RequestRollback, Cancel,
      Forget, ForgetUnread, Quit, Crash, Foreign, RequestMigration
<1>2. CASE Write
  BY <1>1, <1>2, DataRootConstants DEF Write, RootTyped, DataRootBounds
<1>3. CASE \E target \in Dir : RequestMigration(target)
  BY <1>1, <1>3, DataRootConstants DEF RequestMigration, RootTyped, DataRootBounds
<1>4. CASE ~Write /\ ~(\E target \in Dir : RequestMigration(target))
  <2>1. UNCHANGED <<writes, migrations>>
    BY <1>4 DEF RootNext, Reach, Start, Prepare, RollbackFails, Begin, Mirror, Rebind, Verify, Seal,
      Clear, Rename, Commit, Record, Open, RequestRollback, Cancel, Forget, ForgetUnread, Quit, Crash,
      Foreign
  <2> QED BY <1>1, <2>1 DEF RootTyped
<1> QED BY <1>2, <1>3, <1>4

\* Every step keeps the range of the directory the application runs on.
LEMMA WhereStep ==
    ASSUME RootTyped, RootNext
    PROVE  where' \in Dir
<1>1. CASE Open
  BY <1>1, Typed DEF Open, RootTyped, Locator
<1> QED BY <1>1 DEF RootTyped, RootNext, Reach, Start, Prepare, RollbackFails, Begin, Mirror, Rebind,
      Verify, Seal, Clear, Rename, Commit, Record, Write, RequestRollback, Cancel, Forget,
      ForgetUnread, Quit, Crash, Foreign, RequestMigration

-----------------------------------------------------------------------------
(* What the operations on the locator change.                              *)

\* What a pending migration names exists.
LEMMA PendingDirs ==
    ASSUME RootTyped, migration # None
    PROVE  /\ migration \in Pending /\ migration.id \in 1 .. MaxMigrations
           /\ migration.source \in Dir /\ migration.target \in Dir
           /\ migration.manifest \in Tree \cup {None}
<1>1. migration \in Pending
  BY Typed
<1> QED BY <1>1 DEF Pending

\* Nothing that can be there is None.
LEMMA Distinct ==
    /\ Default # None /\ None \notin Dir /\ Pending \cap {None} = {}
    /\ Tree \cap {None} = {} /\ Rollbacks \cap {None} = {}
BY DataRootConstants DEF DataRootAssumption

\* persistPending with a new phase: the operation is the same otherwise.
LEMMA PhasePersists ==
    ASSUME RootTyped, migration # None, NEW phase \in Phase, Persist([migration EXCEPT !.phase = phase])
    PROVE  /\ migration' # None /\ migration'.id = migration.id /\ migration'.phase = phase
           /\ migration'.source = migration.source /\ migration'.target = migration.target
           /\ migration'.manifest = migration.manifest
           /\ locator'.active = locator.active /\ locator'.previous = locator.previous
           /\ locator'.rollback = locator.rollback
<1> DEFINE q == [migration EXCEPT !.phase = phase]
<1>1. migration \in Pending
  BY Typed
<1>2. /\ q \in Pending /\ q.id = migration.id /\ q.source = migration.source
      /\ q.target = migration.target /\ q.manifest = migration.manifest /\ q.phase = phase
  BY <1>1, PhaseMoves
<1>3. q # None
  BY <1>2, Distinct
<1> HIDE DEF q
<1>4. Persist(q)
  BY DEF q
<1> QED BY <1>2, <1>3, <1>4, PersistMoves DEF migration, RootTyped

\* persistPending with the manifest.
LEMMA ManifestPersists ==
    ASSUME RootTyped, migration # None,
           Persist([migration EXCEPT !.phase = "committing", !.manifest = Stage])
    PROVE  /\ migration' # None /\ migration'.id = migration.id /\ migration'.phase = "committing"
           /\ migration'.source = migration.source /\ migration'.target = migration.target
           /\ migration'.manifest = Stage
           /\ locator'.active = locator.active /\ locator'.previous = locator.previous
           /\ locator'.rollback = locator.rollback
<1> DEFINE q == [migration EXCEPT !.phase = "committing", !.manifest = Stage]
<1>1. migration \in Pending /\ Stage \in Tree
  BY Typed
<1>2. /\ q \in Pending /\ q.id = migration.id /\ q.source = migration.source
      /\ q.target = migration.target /\ q.manifest = Stage /\ q.phase = "committing"
  BY <1>1 DEF Pending, Phase
<1>3. q # None
  BY <1>2, Distinct
<1> HIDE DEF q
<1>4. Persist(q)
  BY DEF q
<1> QED BY <1>2, <1>3, <1>4, PersistMoves DEF migration, RootTyped

\* commitLocator: what the locator says afterwards.
LEMMA CommitMoves ==
    ASSUME RootTyped,
           locator' = [locator EXCEPT !.active = migration.target, !.previous = migration.source,
                                      !.migration = None, !.rollback = None]
    PROVE  /\ locator'.active = migration.target /\ locator'.previous = migration.source
           /\ migration' = None /\ locator'.rollback = None
BY DEF RootTyped, Locator, migration

\* cancelPending: what the locator says afterwards.
LEMMA ForgetMoves ==
    ASSUME RootTyped, locator' = [locator EXCEPT !.migration = None, !.rollback = None]
    PROVE  /\ locator'.active = locator.active /\ locator'.previous = locator.previous
           /\ migration' = None /\ locator'.rollback = None
BY DEF RootTyped, Locator, migration

\* commitRollback: only a locator that was read has a rollback.
LEMMA RollbackMoves ==
    ASSUME RootTyped, NEW read, Rollback(read), read \in {locator, Fallback},
           locator' = [read EXCEPT !.active = read.rollback.to, !.previous = read.rollback.from,
                                   !.rollback = None]
    PROVE  /\ read = locator /\ locator.rollback # None
           /\ locator'.active = locator.rollback.to /\ locator'.previous = locator.rollback.from
           /\ migration' = migration /\ locator'.rollback = None
<1>1. read = locator /\ locator.rollback # None
  BY DEF Rollback, Fallback
<1> QED BY <1>1 DEF RootTyped, Locator, migration

\* requestMigration: the operation starts at the directory the locator was read to name,
\* and its target is none that the locator names.
LEMMA RequestMoves ==
    ASSUME RootTyped, Directories, NEW target \in Dir, RequestMigration(target)
    PROVE  \E read \in {locator, Fallback} :
             /\ ReadAs(read)
             /\ migrations < MaxMigrations
             /\ locator'.active = read.active /\ locator'.previous = read.previous
             /\ locator'.rollback = None
             /\ migration' # None /\ migration'.id = migrations + 1 /\ migration'.phase = "requested"
             /\ migration'.source = read.active /\ migration'.target = target
             /\ migration'.manifest = None
             /\ MissingOrEmpty(target)
             /\ target \notin {read.active, read.previous, Default}
<1> DEFINE p(read) ==
      [id |-> migrations + 1, source |-> read.active, target |-> target, phase |-> "requested",
       manifest |-> None]
<1>1. PICK read \in {locator, Fallback} :
        /\ ReadAs(read)
        /\ locator' = [read EXCEPT !.migration = p(read)] /\ NonePending(read)
        /\ target # read.active /\ MissingOrEmpty(target)
  BY DEF RequestMigration
<1>2. read \in Locator
  BY <1>1, Typed DEF RootTyped
<1>3. migrations + 1 \in 1 .. MaxMigrations /\ migrations < MaxMigrations
  BY DataRootConstants DEF RequestMigration, DataRootBounds, RootTyped
<1>4. p(read) \in Pending
  BY <1>2, <1>3 DEF Locator, Pending, Phase
<1>5. p(read) # None
  BY <1>4, Distinct
<1>6. /\ p(read).id = migrations + 1 /\ p(read).phase = "requested" /\ p(read).source = read.active
      /\ p(read).target = target /\ p(read).manifest = None
  OBVIOUS
<1>7. tree[target].bound = None
  BY <1>1 DEF MissingOrEmpty, Absent, Empty
<1>8. target # Default
  <2>1. Intact(Default)
    BY DEF RequestMigration, Directories
  <2> QED BY <1>7, <2>1, Distinct DEF Intact
<1>9. target # read.previous
  <2>1. locator.previous # None => Intact(locator.previous)
    BY DEF Directories
  <2> QED BY <1>1, <1>7, <2>1, Distinct DEF Intact, Fallback
<1> HIDE DEF p
<1>10. /\ locator'.active = read.active /\ locator'.previous = read.previous
       /\ migration' = p(read) /\ locator'.rollback = None
  BY <1>1, <1>2 DEF Locator, NonePending, migration
<1> QED BY <1>1, <1>3, <1>5, <1>6, <1>8, <1>9, <1>10

-----------------------------------------------------------------------------
(* What is pending.                                                        *)

\* Every step keeps what is pending true.
LEMMA PendingsStep ==
    ASSUME RootTyped, Pendings, Directories, Staged, RootNext
    PROVE  Pendings'
<1>1. CASE Start \/ RollbackFails \/ Mirror \/ Rebind \/ Clear \/ Rename \/ Open \/ Write \/ Cancel \/
          Quit \/ Crash \/ Foreign
  BY <1>1 DEF Pendings, Boot, migration, Start, RollbackFails, Mirror, Rebind, Clear, Rename, Open,
      Write, Cancel, Quit, Crash, Foreign
<1>2. CASE Prepare
  <2>1. PICK read \in {locator, Fallback} :
          /\ \/ /\ Rollback(read)
                /\ locator' = [read EXCEPT !.active = read.rollback.to, !.previous = read.rollback.from,
                                           !.rollback = None]
             \/ UNCHANGED locator
          /\ pc' = "rolled back" \/ (pc' = "begin" /\ read.migration # None)
    BY <1>2 DEF Prepare
  <2>2. pc' \in {"begin", "rolled back"} /\ (pc' = "begin" => migration # None)
    <3>1. Fallback.migration = None
      BY DEF Fallback
    <3> QED BY <2>1, <3>1 DEF migration
  <2>3. CASE UNCHANGED locator
    BY <2>2, <2>3 DEF Pendings, migration, Boot
  <2>4. CASE /\ Rollback(read)
             /\ locator' = [read EXCEPT !.active = read.rollback.to, !.previous = read.rollback.from,
                                        !.rollback = None]
    BY <2>1, <2>2, <2>4, RollbackMoves DEF Pendings, Boot
  <2> QED BY <2>1, <2>3, <2>4
<1>3. CASE Begin
  <2>1. migration # None
    BY <1>3 DEF Begin, Pendings, Boot
  <2>2. CASE UNCHANGED locator
    BY <1>3, <2>2 DEF Begin, Pendings, Boot, migration
  <2>3. CASE Persist([migration EXCEPT !.phase = "copying"])
    <3>1. "copying" \in Phase /\ ("copying" = "committing" => migration.phase = "committing")
      BY DEF Phase, FailedPhase, Committed
    <3> QED BY <2>1, <2>3, <3>1, PhasePersists DEF Pendings
  <2> QED BY <1>3, <2>2, <2>3 DEF Begin
<1>4. CASE Verify
  <2>1. migration # None
    BY <1>4 DEF Verify, Reach, Pendings, Boot
  <2>2. CASE UNCHANGED locator
    BY <1>4, <2>2 DEF Verify, Reach, Pendings, Boot, migration
  <2>3. CASE Persist([migration EXCEPT !.phase = "verifying"])
    <3>1. "verifying" \in Phase /\ ("verifying" = "committing" => migration.phase = "committing")
      BY DEF Phase, FailedPhase, Committed
    <3> QED BY <2>1, <2>3, <3>1, PhasePersists DEF Pendings
  <2> QED BY <1>4, <2>2, <2>3 DEF Verify, Reach
<1>5. CASE Seal
  <2>1. migration # None
    BY <1>5 DEF Seal, Reach, Pendings, Boot
  <2>2. CASE UNCHANGED locator
    BY <1>5, <2>2 DEF Seal, Reach, Pendings, Boot, migration
  <2>3. CASE Persist([migration EXCEPT !.phase = "committing", !.manifest = Stage])
    <3>1. Stage \in Tree /\ Stage # None
      BY Typed, Distinct
    <3>2. Stage.there /\ Stage.whole /\ Stage.bound = migration.target
      BY <1>5 DEF Seal, Reach, Staged
    <3> QED BY <2>1, <2>3, <3>1, <3>2, ManifestPersists DEF Pendings
  <2> QED BY <1>5, <2>2, <2>3 DEF Seal, Reach
<1>6. CASE Commit
  <2>1. migration # None
    BY <1>6 DEF Commit, Pendings, Boot
  <2>2. CASE UNCHANGED locator
    BY <1>6, <2>1, <2>2 DEF Commit, Pendings, migration
  <2>3. CASE locator' = [locator EXCEPT !.active = migration.target, !.previous = migration.source,
                                        !.migration = None, !.rollback = None]
    <3>1. pc' = "rolled back"
      BY <1>6, <2>3, <2>1, CommitMoves DEF Commit, migration
    <3> QED BY <2>3, <3>1, CommitMoves DEF Pendings, Boot
  <2> QED BY <1>6, <2>2, <2>3 DEF Commit
<1>7. CASE Record
  <2>1. migration # None
    BY <1>7 DEF Record, Pendings, Boot
  <2>2. CASE UNCHANGED locator
    BY <1>7, <2>2 DEF Record, Pendings, Boot, migration
  <2>3. CASE Persist([migration EXCEPT !.phase = FailedPhase(migration)])
    <3>1. /\ FailedPhase(migration) \in Phase
          /\ (FailedPhase(migration) = "committing" => migration.phase = "committing")
      BY DEF Phase, FailedPhase, Committed
    <3> QED BY <2>1, <2>3, <3>1, PhasePersists DEF Pendings
  <2> QED BY <1>7, <2>2, <2>3 DEF Record
<1>8. CASE RequestRollback
  BY <1>8 DEF RequestRollback, NonePending, Pendings, Boot, migration, RootTyped, Locator
<1>9. CASE Forget
  <2>1. pc' = "running"
    BY <1>9 DEF Forget
  <2>2. CASE UNCHANGED locator
    BY <2>1, <2>2 DEF Pendings, Boot, migration
  <2>3. CASE locator' = [locator EXCEPT !.migration = None, !.rollback = None]
    BY <2>1, <2>3, ForgetMoves DEF Pendings, Boot
  <2> QED BY <1>9, <2>2, <2>3 DEF Forget
<1>10. CASE \E target \in Dir : RequestMigration(target)
  <2> PICK target \in Dir : RequestMigration(target)
    BY <1>10
  <2>1. pc' = "running"
    BY DEF RequestMigration
  <2> QED BY <2>1, RequestMoves DEF Pendings, Boot
<1>11. CASE ForgetUnread
  BY <1>11 DEF ForgetUnread, Fallback, Pendings, Boot, migration
<1> QED BY <1>1, <1>2, <1>3, <1>4, <1>5, <1>6, <1>7, <1>8, <1>9, <1>10, <1>11 DEF RootNext

-----------------------------------------------------------------------------
(* The directories and the stage.                                          *)

\* A locator that says anything is not the fallback.
LEMMA NotFallback ==
    ASSUME migration # None \/ locator.previous # None \/ locator.active # Default
    PROVE  locator # Fallback
BY DEF Fallback, migration

\* Every step keeps the directories the locator names.
LEMMA DirectoriesStep ==
    ASSUME RootTyped, Pendings, Directories, Staged, RootNext
    PROVE  Directories'
<1>1. CASE Start \/ RollbackFails \/ Mirror \/ Rebind \/ Cancel \/ Quit \/ Crash
  BY <1>1 DEF Reach, Directories, Intact, Start, RollbackFails, Mirror, Rebind, Cancel, Quit, Crash
<1>2. CASE Prepare
  <2>1. UNCHANGED tree /\ pc' \notin {"running", "cancel"}
    BY <1>2 DEF Prepare
  <2>2. CASE UNCHANGED locator
    BY <2>1, <2>2 DEF Directories, Intact
  <2>3. ASSUME NEW read \in {locator, Fallback}, Rollback(read),
               locator' = [read EXCEPT !.active = read.rollback.to, !.previous = read.rollback.from,
                                       !.rollback = None]
        PROVE  Directories'
    <3>1. read = locator /\ locator.rollback # None
      BY <2>3, RollbackMoves
    <3>2. /\ locator.previous # None /\ locator.rollback.from = locator.active
          /\ locator.rollback.to = locator.previous
      <4>1. /\ locator.previous # None
            /\ locator.rollback = [from |-> locator.active, to |-> locator.previous]
        BY <3>1 DEF Pendings
      <4> QED BY <4>1
    <3>3. locator'.active = locator.previous /\ locator'.previous = locator.active
      BY <2>3, <3>2, RollbackMoves
    <3>4. /\ Intact(Default) /\ Intact(locator.previous) /\ Intact(locator.active)
          /\ locator.active # locator.previous
      BY <3>2, NotFallback DEF Directories
    <3> QED BY <2>1, <3>3, <3>4 DEF Directories, Intact
  <2> QED BY <1>2, <2>2, <2>3 DEF Prepare
<1>3. CASE Begin
  <2>1. migration # None /\ Intact(Default)
    BY <1>3, NotFallback DEF Begin, Pendings, Boot, Directories
  <2>2. UNCHANGED tree /\ pc' \notin {"running", "cancel"}
    BY <1>3 DEF Begin
  <2>3. locator'.active = locator.active /\ locator'.previous = locator.previous
    <3>1. UNCHANGED locator \/ Persist([migration EXCEPT !.phase = "copying"])
      BY <1>3 DEF Begin
    <3> QED BY <2>1, <3>1, PhasePersists DEF Phase
  <2> QED BY <2>1, <2>2, <2>3 DEF Directories, Intact
<1>4. CASE Verify
  <2>1. migration # None /\ Intact(Default)
    BY <1>4, NotFallback DEF Verify, Reach, Pendings, Boot, Directories
  <2>2. UNCHANGED tree /\ pc' \notin {"running", "cancel"}
    BY <1>4 DEF Verify, Reach
  <2>3. locator'.active = locator.active /\ locator'.previous = locator.previous
    <3>1. UNCHANGED locator \/ Persist([migration EXCEPT !.phase = "verifying"])
      BY <1>4 DEF Verify, Reach
    <3> QED BY <2>1, <3>1, PhasePersists DEF Phase
  <2> QED BY <2>1, <2>2, <2>3 DEF Directories, Intact
<1>5. CASE Seal
  <2>1. migration # None /\ Intact(Default)
    BY <1>5, NotFallback DEF Seal, Reach, Pendings, Boot, Directories
  <2>2. UNCHANGED tree /\ pc' \notin {"running", "cancel"}
    BY <1>5 DEF Seal, Reach
  <2>3. locator'.active = locator.active /\ locator'.previous = locator.previous
    <3>1. UNCHANGED locator \/ Persist([migration EXCEPT !.phase = "committing", !.manifest = Stage])
      BY <1>5 DEF Seal, Reach
    <3> QED BY <2>1, <3>1, ManifestPersists
  <2> QED BY <2>1, <2>2, <2>3 DEF Directories, Intact
<1>6. CASE Clear
  <2>1. migration # None /\ migration \in Pending
    BY <1>6, Typed DEF Clear, Pendings, Boot
  <2>2. migration.target \in Dir /\ migration.target \notin {Default, locator.active, locator.previous}
    BY <2>1, PendingDirs DEF Pendings
  <2>3. \A d \in Dir \ {migration.target} : tree'[d] = tree[d]
    BY <1>6, <2>2 DEF Clear, RootTyped
  <2>4. /\ UNCHANGED locator /\ Intact(Default) /\ Default \in Dir
        /\ locator.active \in Dir /\ locator.previous \in Dir \cup {None}
    BY <1>6, <2>1, NotFallback, DataRootConstants DEF Clear, Directories, DataRootAssumption,
          RootTyped, Locator
  <2> QED BY <2>2, <2>3, <2>4 DEF Directories, Intact
<1>7. CASE Rename
  <2>1. migration # None /\ migration \in Pending
    BY <1>7, Typed DEF Rename, Pendings, Boot
  <2>2. migration.target \in Dir /\ migration.target \notin {Default, locator.active, locator.previous}
    BY <2>1, PendingDirs DEF Pendings
  <2>3. \A d \in Dir \ {migration.target} : tree'[d] = tree[d]
    BY <1>7, <2>2 DEF Rename, RootTyped
  <2>4. /\ UNCHANGED locator /\ Intact(Default) /\ Default \in Dir
        /\ locator.active \in Dir /\ locator.previous \in Dir \cup {None}
    BY <1>7, <2>1, NotFallback, DataRootConstants DEF Rename, Directories, DataRootAssumption,
          RootTyped, Locator
  <2> QED BY <2>2, <2>3, <2>4 DEF Directories, Intact
<1>8. CASE Commit
  <2>1. migration # None /\ Intact(Default)
    BY <1>8, NotFallback DEF Commit, Pendings, Boot, Directories
  <2>2. UNCHANGED tree /\ pc' \notin {"running", "cancel"}
    BY <1>8 DEF Commit
  <2>3. CASE UNCHANGED locator
    BY <2>1, <2>2, <2>3 DEF Directories, Intact
  <2>4. CASE /\ AsExpected(migration)
             /\ locator' = [locator EXCEPT !.active = migration.target, !.previous = migration.source,
                                           !.migration = None, !.rollback = None]
    <3>1. tree[migration.target] = migration.manifest
      BY <2>4 DEF AsExpected
    <3>2. migration.manifest # None
      <4>1. tree[migration.target] \in Tree
        BY <2>1, PendingDirs DEF RootTyped
      <4> QED BY <3>1, <4>1, Distinct
    <3>3. Intact(migration.target)
      BY <2>1, <3>1, <3>2 DEF Pendings, Intact
    <3>4. Intact(migration.source) /\ migration.source # migration.target
      BY <2>1 DEF Directories, Pendings
    <3> QED BY <2>1, <2>2, <2>4, <3>3, <3>4, CommitMoves DEF Directories, Intact
  <2> QED BY <1>8, <2>3, <2>4 DEF Commit
<1>9. CASE Record
  <2>1. migration # None /\ Intact(Default)
    BY <1>9, NotFallback DEF Record, Pendings, Boot, Directories
  <2>2. UNCHANGED tree /\ pc' \notin {"running", "cancel"}
    BY <1>9 DEF Record
  <2>3. locator'.active = locator.active /\ locator'.previous = locator.previous
    <3>1. UNCHANGED locator \/ Persist([migration EXCEPT !.phase = FailedPhase(migration)])
      BY <1>9 DEF Record
    <3> QED BY <2>1, <3>1, PhasePersists DEF Phase, FailedPhase
  <2> QED BY <2>1, <2>2, <2>3 DEF Directories, Intact
<1>10. CASE Open
  <2>1. PICK read \in {locator, Fallback} :
          tree' = IF tree[read.active] \in {Absent, Empty}
                    THEN [tree EXCEPT ![read.active] = Files(0, read.active)] ELSE tree
    BY <1>10 DEF Open
  <2>2. Default \in Dir /\ read.active \in Dir /\ UNCHANGED locator
    BY <2>1, <1>10, Typed DEF Locator, Open, RootTyped, Fallback
  <2>3. ASSUME NEW d \in Dir, Intact(d) PROVE Intact(d)'
    <3>1. tree[d] \notin {Absent, Empty}
      BY <2>3, Distinct DEF Intact, Absent, Empty
    <3>2. tree'[d] = tree[d]
      BY <2>1, <2>2, <3>1 DEF RootTyped
    <3> QED BY <2>3, <3>2 DEF Intact
  <2>4. Intact(Default)'
    <3>1. CASE Intact(Default)
      BY <2>2, <2>3, <3>1
    <3>2. CASE ~Intact(Default)
      <4>1. locator = Fallback \/ read = Fallback
        BY <2>1, <3>2 DEF Directories
      <4>2. read.active = Default /\ tree[Default] = Absent
        BY <3>2, <4>1 DEF Directories, Fallback
      <4>3. tree'[Default] = Files(0, Default)
        BY <2>1, <2>2, <4>2 DEF RootTyped
      <4> QED BY <4>3 DEF Files, Intact
    <3> QED BY <3>1, <3>2
  <2>5. locator.active # Default => Intact(locator.active)'
    BY <2>2, <2>3 DEF Directories, RootTyped, Locator
  <2>6. locator.previous # None => Intact(locator.previous)'
    BY <2>2, <2>3 DEF Directories, RootTyped, Locator
  <2> QED BY <2>2, <2>4, <2>5, <2>6 DEF Directories
<1>11. CASE Write
  <2>1. Intact(Default) /\ UNCHANGED locator
    BY <1>11 DEF Write, Directories
  <2>2. ASSUME NEW d \in Dir, Intact(d) PROVE Intact(d)'
    BY <1>11, <2>2 DEF Write, Intact, RootTyped, Tree
  <2>3. Default \in Dir /\ locator.active \in Dir /\ locator.previous \in Dir \cup {None}
    BY DataRootConstants DEF DataRootAssumption, RootTyped, Locator
  <2> QED BY <2>1, <2>2, <2>3 DEF Directories
<1>12. CASE RequestRollback
  <2>1. Intact(Default) /\ UNCHANGED tree
    BY <1>12 DEF RequestRollback, Directories
  <2>2. locator'.active = locator.active /\ locator'.previous = locator.previous
    BY <1>12 DEF RequestRollback, RootTyped, Locator
  <2> QED BY <2>1, <2>2 DEF Directories, Intact
<1>13. CASE Forget
  <2>1. Intact(Default) /\ UNCHANGED tree
    BY <1>13 DEF Forget, Directories
  <2>2. locator'.active = locator.active /\ locator'.previous = locator.previous
    BY <1>13, ForgetMoves DEF Forget
  <2> QED BY <2>1, <2>2 DEF Directories, Intact
<1>14. CASE Foreign
  <2>1. migration # None /\ migration \in Pending
    BY <1>14, Typed DEF Foreign, Pendings, Boot
  <2>2. migration.target \in Dir /\ migration.target \notin {Default, locator.active, locator.previous}
    BY <2>1, PendingDirs DEF Pendings
  <2>3. \A d \in Dir \ {migration.target} : tree'[d] = tree[d]
    BY <1>14, <2>2 DEF Foreign, RootTyped
  <2>4. /\ UNCHANGED locator /\ Intact(Default) /\ Default \in Dir
        /\ locator.active \in Dir /\ locator.previous \in Dir \cup {None}
    BY <1>14, <2>1, NotFallback, DataRootConstants DEF Foreign, Directories, DataRootAssumption,
          RootTyped, Locator
  <2> QED BY <2>2, <2>3, <2>4 DEF Directories, Intact
<1>15. CASE \E target \in Dir : RequestMigration(target)
  <2> PICK target \in Dir : RequestMigration(target)
    BY <1>15
  <2>1. Intact(Default) /\ UNCHANGED tree
    BY DEF RequestMigration, Directories
  <2>2. \/ locator'.active = locator.active /\ locator'.previous = locator.previous
        \/ locator'.active = Default /\ locator'.previous = None
    BY RequestMoves DEF Fallback
  <2> QED BY <2>1, <2>2 DEF Directories, Intact
<1>16. CASE ForgetUnread
  BY <1>16 DEF ForgetUnread, Fallback, Directories, Intact
<1> QED BY <1>1, <1>2, <1>3, <1>4, <1>5, <1>6, <1>7, <1>8, <1>9, <1>10, <1>11, <1>12, <1>13,
      <1>14, <1>15, <1>16 DEF RootNext

\* Every step keeps the stage what its place says.
LEMMA StagedStep ==
    ASSUME RootTyped, Pendings, Directories, Staged, RootNext
    PROVE  Staged'
<1>1. CASE Start \/ Prepare \/ RollbackFails \/ Begin \/ Rename \/ Commit \/ Record \/ Open \/ Write \/
          RequestRollback \/ Cancel \/ Forget \/ Quit \/ Crash \/
          \E target \in Dir : RequestMigration(target)
  BY <1>1 DEF Staged, Start, Prepare, RollbackFails, Begin, Rename, Commit, Record, Open, Write,
      RequestRollback, Cancel, Forget, Quit, Crash, RequestMigration
<1>2. CASE Mirror
  <2>1. CASE pc' # "rebind"
    BY <1>2, <2>1 DEF Mirror, Staged
  <2>2. CASE pc' = "rebind"
    <3>1. migration # None /\ UNCHANGED locator
      BY <1>2 DEF Mirror, Pendings, Boot
    <3>2. stage' = [stage EXCEPT ![migration.id] = tree[migration.source]]
      BY <1>2, <2>2 DEF Mirror, Mirrored
    <3>3. Stage' = tree[migration.source]
      BY <3>1, <3>2, PendingDirs DEF Stage, migration, RootTyped
    <3>4. Intact(migration.source)
      BY <3>1, NotFallback DEF Pendings, Directories
    <3> QED BY <2>2, <3>1, <3>3, <3>4 DEF Staged, Intact, migration
  <2> QED BY <2>1, <2>2
<1>3. CASE Rebind
  <2>1. CASE pc' # "verify"
    BY <1>3, <2>1 DEF Rebind, Staged
  <2>2. CASE pc' = "verify"
    <3>1. migration # None /\ UNCHANGED locator
      BY <1>3 DEF Rebind, Pendings, Boot
    <3>2. Stage = stage[migration.id]
      BY <3>1 DEF Stage
    <3>3. stage' = [stage EXCEPT ![migration.id] = Rebound(@, migration)]
      BY <1>3, <2>2 DEF Rebind
    <3>4. Stage' = Rebound(Stage, migration)
      BY <3>1, <3>2, <3>3, PendingDirs DEF Stage, migration, RootTyped
    <3>5. Stage \in Tree /\ Stage.there /\ Stage.whole /\ Stage.bound = migration.source
      BY <1>3, Typed DEF Rebind, Staged
    <3>6. Stage' = [Stage EXCEPT !.bound = migration.target]
      BY <3>4, <3>5 DEF Rebound
    <3>7. Stage'.there /\ Stage'.whole /\ Stage'.bound = migration.target
      BY <3>5, <3>6 DEF Tree
    <3> QED BY <2>2, <3>1, <3>7 DEF Staged, migration
  <2> QED BY <2>1, <2>2
<1>4. CASE Verify
  <2>1. CASE pc' # "seal"
    BY <1>4, <2>1 DEF Verify, Reach, Staged
  <2>2. CASE pc' = "seal"
    <3>1. migration # None /\ UNCHANGED stage /\ Persist([migration EXCEPT !.phase = "verifying"])
      BY <1>4, <2>2 DEF Verify, Reach, Pendings, Boot
    <3>2. migration' # None /\ migration'.id = migration.id /\ migration'.target = migration.target
      BY <3>1, PhasePersists DEF Phase
    <3>3. Stage' = Stage
      BY <3>1, <3>2 DEF Stage
    <3> QED BY <1>4, <2>2, <3>2, <3>3 DEF Verify, Reach, Staged
  <2> QED BY <2>1, <2>2
<1>5. CASE Seal
  <2>1. CASE pc' # "clear"
    BY <1>5, <2>1 DEF Seal, Reach, Staged
  <2>2. CASE pc' = "clear"
    <3>1. /\ migration # None /\ UNCHANGED stage
          /\ Persist([migration EXCEPT !.phase = "committing", !.manifest = Stage])
      BY <1>5, <2>2 DEF Seal, Reach, Pendings, Boot
    <3>2. migration' # None /\ migration'.id = migration.id /\ migration'.target = migration.target
      BY <3>1, ManifestPersists
    <3>3. Stage' = Stage
      BY <3>1, <3>2 DEF Stage
    <3> QED BY <1>5, <2>2, <3>2, <3>3 DEF Seal, Reach, Staged
  <2> QED BY <2>1, <2>2
<1>6. CASE Clear
  BY <1>6 DEF Clear, Staged, Stage, migration
<1>7. CASE Foreign
  BY <1>7 DEF Foreign, Staged, Stage, migration
<1>8. CASE ForgetUnread
  BY <1>8 DEF ForgetUnread, Staged
<1> QED BY <1>1, <1>2, <1>3, <1>4, <1>5, <1>6, <1>7, <1>8 DEF RootNext

-----------------------------------------------------------------------------
(* The data.                                                               *)

\* A step that does not fail to read the locator leaves the application on the active
\* directory.
LEMMA RunsWhereStep ==
    ASSUME RootTyped, Directories, RunsWhere, "read" \notin Failed', RootNext
    PROVE  RunsWhere'
<1>1. CASE Start \/ Prepare \/ RollbackFails \/ Begin \/ Rebind \/ Verify \/ Seal \/ Clear \/ Rename \/
          Commit \/ Record \/ Write \/ Cancel \/ Quit \/ Crash \/ Foreign
  BY <1>1 DEF RunsWhere, Reach, Start, Prepare, RollbackFails, Begin, Rebind, Verify, Seal, Clear,
      Rename, Commit, Record, Write, Cancel, Quit, Crash, Foreign
<1>2. CASE Mirror
  BY <1>2 DEF Mirror, RunsWhere
<1>3. CASE Open
  <2>1. ~Fault("read")
    BY FaultTyped DEF RootTyped
  <2> QED BY <1>3, <2>1 DEF Open, ReadAs, RunsWhere
<1>4. CASE RequestRollback
  BY <1>4 DEF RequestRollback, RunsWhere, RootTyped, Locator
<1>5. CASE Forget
  BY <1>5, ForgetMoves DEF Forget, RunsWhere
<1>6. CASE \E target \in Dir : RequestMigration(target)
  <2> PICK target \in Dir : RequestMigration(target)
    BY <1>6
  <2>1. ~Fault("read")
    BY FaultTyped DEF RootTyped
  <2>2. locator'.active = locator.active
    BY <2>1, RequestMoves DEF ReadAs
  <2> QED BY <2>2 DEF RequestMigration, RunsWhere
<1>7. CASE ForgetUnread
  BY <1>7, FaultTyped DEF ForgetUnread, RootTyped
<1> QED BY <1>1, <1>2, <1>3, <1>4, <1>5, <1>6, <1>7 DEF RootNext

\* Steps that leave directories, stages and the migration alone.
LEMMA TakenRests ==
    ASSUME Taken, UNCHANGED tree, UNCHANGED stage, migration' = migration,
           pc' \in {"off", "locate", "begin", "commit", "record", "rolled back", "running", "cancel"},
           pc' \in {"off", "locate", "begin", "commit"} \/ ~InPlace
    PROVE  Taken'
BY DEF Taken, InPlace, Stage

\* Steps after which nothing is in place and no copy is being made.
LEMMA TakenAtRest ==
    ASSUME Taken, ~InPlace', pc' \notin {"mirror", "rebind", "verify", "seal", "clear", "rename"}
    PROVE  Taken'
BY DEF Taken

\* A step that fails neither to read nor to switch the locator keeps the data of the
\* source.
LEMMA TakenStep ==
    ASSUME RootTyped, Pendings, Directories, Staged, RunsWhere, Taken, {"read",
           "commit"} \cap Failed' = {}, RootNext
    PROVE  Taken'
<1>1. CASE Start
  <2>1. UNCHANGED <<tree, stage>> /\ migration' = migration
    BY <1>1 DEF Start, migration
  <2> QED BY <1>1, <2>1, TakenRests DEF Start, Taken
<1>2. CASE Prepare
  <2>1. UNCHANGED <<tree, stage>> /\ migration' = migration
    <3>1. UNCHANGED <<tree, stage>>
      BY <1>2 DEF Prepare
    <3>2. UNCHANGED locator \/ migration' = migration
      BY <1>2, RollbackMoves DEF Prepare
    <3> QED BY <3>1, <3>2 DEF migration
  <2>2. ~Fault("read")
    BY FaultTyped DEF RootTyped
  <2>3. pc' = "begin" \/ (pc' = "rolled back" /\ migration = None)
    BY <1>2, <2>2 DEF Prepare, ReadAs, migration
  <2> QED BY <2>1, <2>3, TakenRests DEF InPlace
<1>3. CASE RollbackFails
  <2>1. UNCHANGED <<tree, stage>> /\ migration' = migration
    BY <1>3 DEF RollbackFails, migration
  <2>2. ~InPlace
    BY <1>3 DEF RollbackFails, Rollback, Pendings, InPlace
  <2> QED BY <1>3, <2>1, <2>2, TakenRests DEF RollbackFails
<1>4. CASE Begin
  <2>1. migration # None /\ UNCHANGED <<tree, stage>>
    BY <1>4 DEF Begin, Pendings, Boot
  <2>2. CASE UNCHANGED locator
    <3>1. migration' = migration
      BY <2>2 DEF migration
    <3>2. CASE pc' = "commit"
      BY <2>1, <3>1, <3>2, TakenRests
    <3>3. CASE pc' # "commit"
      <4>1. pc' \in {"record", "mirror"} /\ ~Renamed
        BY <1>4, <3>3 DEF Begin
      <4>2. ~InPlace
        BY <4>1 DEF InPlace, Renamed, Taken, Pendings
      <4>3. pc' = "record" \/ MissingOrEmpty(migration.target)
        BY <1>4, <3>3 DEF Begin
      <4> QED BY <2>1, <3>1, <4>1, <4>2, <4>3 DEF Taken, InPlace, MissingOrEmpty
    <3> QED BY <3>2, <3>3
  <2>3. CASE /\ ~Renamed /\ MissingOrEmpty(migration.target)
             /\ Persist([migration EXCEPT !.phase = "copying"]) /\ pc' = "mirror"
    <3>1. /\ migration' # None /\ migration'.target = migration.target
          /\ migration'.manifest = migration.manifest
      BY <2>1, <2>3, PhasePersists DEF Phase
    <3>2. ~InPlace
      BY <2>3 DEF InPlace, Renamed, Taken, Pendings
    <3> QED BY <2>1, <2>3, <3>1, <3>2 DEF Taken, InPlace, MissingOrEmpty
  <2> QED BY <1>4, <2>2, <2>3 DEF Begin
<1>5. CASE Mirror
  <2>1. migration # None /\ ~InPlace /\ UNCHANGED <<locator, tree>>
    BY <1>5 DEF Mirror, Pendings, Boot, Taken
  <2>2. ~InPlace' /\ migration' = migration
    BY <2>1 DEF InPlace, migration
  <2>3. CASE pc' # "rebind"
    BY <1>5, <2>2, <2>3, TakenAtRest DEF Mirror
  <2>4. CASE pc' = "rebind"
    <3>1. stage' = [stage EXCEPT ![migration.id] = tree[migration.source]]
      BY <1>5, <2>4 DEF Mirror, Mirrored
    <3>2. Stage' = tree[migration.source]
      BY <2>1, <2>2, <3>1, PendingDirs DEF Stage, RootTyped
    <3> QED BY <1>5, <2>1, <2>2, <2>4, <3>2 DEF Mirror, Taken, MissingOrEmpty
  <2> QED BY <2>3, <2>4
<1>6. CASE Rebind
  <2>1. migration # None /\ ~InPlace /\ UNCHANGED <<locator, tree>>
    BY <1>6 DEF Rebind, Pendings, Boot, Taken
  <2>2. ~InPlace' /\ migration' = migration
    BY <2>1 DEF InPlace, migration
  <2>3. CASE pc' # "verify"
    BY <1>6, <2>2, <2>3, TakenAtRest DEF Rebind
  <2>4. CASE pc' = "verify"
    <3>1. stage' = [stage EXCEPT ![migration.id] = Rebound(@, migration)]
      BY <1>6, <2>4 DEF Rebind
    <3>2. Stage' = Rebound(Stage, migration)
      BY <2>1, <2>2, <3>1, PendingDirs DEF Stage, RootTyped
    <3>3. Stage \in Tree
      BY Typed
    <3>4. Stage'.data = Stage.data
      BY <3>2, <3>3 DEF Rebound, Tree
    <3> QED BY <1>6, <2>1, <2>2, <2>4, <3>4 DEF Rebind, Taken, MissingOrEmpty
  <2> QED BY <2>3, <2>4
<1>7. CASE Verify
  <2>1. migration # None /\ ~InPlace /\ UNCHANGED <<tree, stage>>
    BY <1>7 DEF Verify, Reach, Pendings, Boot, Taken
  <2>2. CASE UNCHANGED locator /\ pc' = "record"
    BY <2>1, <2>2, TakenRests DEF migration
  <2>3. CASE Persist([migration EXCEPT !.phase = "verifying"]) /\ pc' = "seal"
    <3>1. /\ migration' # None /\ migration'.id = migration.id /\ migration'.source = migration.source
          /\ migration'.target = migration.target /\ migration'.manifest = migration.manifest
      BY <2>1, <2>3, PhasePersists DEF Phase
    <3>2. ~InPlace' /\ Stage' = Stage
      BY <2>1, <3>1 DEF InPlace, Stage
    <3> QED BY <1>7, <2>1, <2>3, <3>1, <3>2 DEF Verify, Reach, Taken, MissingOrEmpty
  <2> QED BY <1>7, <2>2, <2>3 DEF Verify, Reach
<1>8. CASE Seal
  <2>1. migration # None /\ ~InPlace /\ UNCHANGED <<tree, stage>>
    BY <1>8 DEF Seal, Reach, Pendings, Boot, Taken
  <2>2. CASE UNCHANGED locator /\ pc' = "record"
    BY <2>1, <2>2, TakenRests DEF migration
  <2>3. CASE Persist([migration EXCEPT !.phase = "committing", !.manifest = Stage]) /\ pc' = "clear"
    <3>1. /\ migration' # None /\ migration'.id = migration.id /\ migration'.source = migration.source
          /\ migration'.target = migration.target /\ migration'.manifest = Stage
      BY <2>1, <2>3, ManifestPersists
    <3>2. Stage' = Stage /\ Stage.there /\ Stage.whole /\ Stage.bound = migration.target
      BY <1>8, <2>1, <3>1 DEF Stage, Seal, Reach, Staged
    <3>3. MissingOrEmpty(migration.target) \/ ~tree[migration.target].whole
      BY <1>8 DEF Seal, Reach, Taken
    <3>4. migration.target # None
      BY <2>1, PendingDirs, Distinct
    <3>5. ~InPlace'
      BY <2>1, <3>1, <3>2, <3>3, <3>4 DEF InPlace, MissingOrEmpty, Absent, Empty
    <3> QED BY <1>8, <2>1, <2>3, <3>1, <3>2, <3>3, <3>5 DEF Seal, Reach, Taken, MissingOrEmpty
  <2> QED BY <1>8, <2>2, <2>3 DEF Seal, Reach
<1>9. CASE Clear
  <2>1. migration # None /\ ~InPlace /\ UNCHANGED <<locator, stage>>
    BY <1>9 DEF Clear, Pendings, Boot, Taken
  <2>2. migration' = migration /\ Stage' = Stage
    BY <2>1 DEF migration, Stage
  <2>3. CASE pc' # "rename"
    BY <1>9, <2>1, <2>2, <2>3, TakenAtRest DEF Clear, InPlace
  <2>4. CASE pc' = "rename"
    <3>1. /\ tree' = [tree EXCEPT ![migration.target] = Absent]
          /\ migration.target \in Dir /\ migration.source \in Dir /\ migration.source # migration.target
      BY <1>9, <2>1, <2>4, PendingDirs DEF Clear, Pendings
    <3>2. tree'[migration.target] = Absent /\ tree'[migration.source] = tree[migration.source]
      BY <3>1 DEF RootTyped
    <3>3. ~InPlace'
      <4>1. ~tree'[migration.target].there
        BY <3>2 DEF Absent
      <4>2. migration.manifest # None => migration.manifest.there
        BY <2>1 DEF Pendings
      <4> QED BY <2>2, <4>1, <4>2 DEF InPlace
    <3> QED BY <1>9, <2>2, <2>4, <3>2, <3>3 DEF Clear, Taken, MissingOrEmpty
  <2> QED BY <2>3, <2>4
<1>10. CASE Rename
  <2>1. migration # None /\ ~InPlace /\ UNCHANGED locator
    BY <1>10 DEF Rename, Pendings, Boot, Taken
  <2>2. migration' = migration
    BY <2>1 DEF migration
  <2>3. CASE pc' # "commit"
    BY <1>10, <2>1, <2>2, <2>3, TakenAtRest DEF Rename, InPlace
  <2>4. CASE pc' = "commit"
    <3>1. /\ tree' = [tree EXCEPT ![migration.target] = Stage]
          /\ stage' = [stage EXCEPT ![migration.id] = Absent]
      BY <1>10, <2>4 DEF Rename
    <3>2. /\ migration.target \in Dir /\ migration.source \in Dir /\ migration.source # migration.target
          /\ migration.id \in 1 .. MaxMigrations
      BY <2>1, PendingDirs DEF Pendings
    <3>3. tree'[migration.source] = tree[migration.source]
      BY <3>1, <3>2 DEF RootTyped
    <3>4. ~Stage'.there
      BY <2>1, <2>2, <3>1, <3>2 DEF Stage, Absent, RootTyped
    <3>5. Stage.data = tree[migration.source].data /\ migration.manifest = Stage
      BY <1>10 DEF Rename, Taken
    <3> QED BY <2>2, <2>4, <3>3, <3>4, <3>5 DEF Taken
  <2> QED BY <2>3, <2>4
<1>11. CASE Commit
  <2>1. ~Fault("commit")
    BY FaultTyped DEF RootTyped
  <2>2. CASE AsExpected(migration) /\ pc' = "rolled back"
    <3>1. locator' = [locator EXCEPT !.active = migration.target, !.previous = migration.source,
                                     !.migration = None, !.rollback = None]
      BY <1>11, <2>2 DEF Commit
    <3>2. ~InPlace'
      BY <3>1, CommitMoves DEF InPlace
    <3> QED BY <2>2, <3>2, TakenAtRest
  <2>3. CASE ~AsExpected(migration)
    <3>1. ~InPlace /\ UNCHANGED <<locator, tree, stage>> /\ pc' = "record"
      BY <1>11, <2>3 DEF Commit, InPlace, AsExpected
    <3> QED BY <3>1, TakenRests DEF migration
  <2> QED BY <1>11, <2>1, <2>2, <2>3 DEF Commit
<1>12. CASE Record
  <2>1. migration # None /\ ~InPlace /\ UNCHANGED tree
    BY <1>12 DEF Record, Pendings, Boot, Taken
  <2>2. CASE UNCHANGED locator
    BY <1>12, <2>1, <2>2, TakenAtRest DEF Record, migration, InPlace
  <2>3. CASE Persist([migration EXCEPT !.phase = FailedPhase(migration)])
    <3>1. migration'.target = migration.target /\ migration'.manifest = migration.manifest
      BY <2>1, <2>3, PhasePersists DEF Phase, FailedPhase
    <3> QED BY <1>12, <2>1, <3>1, TakenAtRest DEF Record, InPlace
  <2> QED BY <1>12, <2>2, <2>3 DEF Record
<1>13. CASE Open
  <2>1. ~InPlace /\ migration' = migration
    BY <1>13 DEF Open, Taken, migration
  <2>2. PICK read \in {locator, Fallback} :
          tree' = IF tree[read.active] \in {Absent, Empty}
                    THEN [tree EXCEPT ![read.active] = Files(0, read.active)] ELSE tree
    BY <1>13 DEF Open
  <2>3. migration # None => tree'[migration.target] = tree[migration.target]
    <3>1. HAVE migration # None
    <3>2. migration.target \notin {locator.active, Default} /\ migration.target \in Dir
      BY <3>1, PendingDirs DEF Pendings
    <3>3. read.active \in {locator.active, Default}
      BY <2>2 DEF Fallback
    <3> QED BY <2>2, <3>2, <3>3 DEF RootTyped
  <2>4. ~InPlace'
    BY <2>1, <2>3 DEF InPlace
  <2> QED BY <1>13, <2>4, TakenAtRest DEF Open
<1>14. CASE Write
  <2>1. ~InPlace /\ migration' = migration
    BY <1>14 DEF Write, Taken, migration
  <2>2. migration # None => tree'[migration.target] = tree[migration.target]
    <3>1. HAVE migration # None
    <3>2. migration.target # where /\ migration.target \in Dir
      BY <1>14, <3>1, PendingDirs DEF Write, RunsWhere, Pendings
    <3> QED BY <1>14, <3>2 DEF Write, RootTyped
  <2>3. ~InPlace'
    BY <2>1, <2>2 DEF InPlace
  <2> QED BY <1>14, <2>3, TakenAtRest DEF Write
<1>15. CASE RequestRollback
  <2>1. migration' = None
    BY <1>15 DEF RequestRollback, NonePending, RootTyped, Locator, migration
  <2> QED BY <1>15, <2>1, TakenAtRest DEF RequestRollback, InPlace
<1>16. CASE Cancel
  <2>1. ~InPlace /\ UNCHANGED <<locator, tree>>
    BY <1>16 DEF Cancel, Taken
  <2> QED BY <1>16, <2>1, TakenAtRest DEF Cancel, InPlace, migration
<1>17. CASE Forget
  <2>1. ~InPlace /\ UNCHANGED tree
    BY <1>17 DEF Forget, Taken
  <2>2. UNCHANGED locator \/ migration' = None
    BY <1>17, ForgetMoves DEF Forget
  <2> QED BY <1>17, <2>1, <2>2, TakenAtRest DEF Forget, InPlace, migration
<1>18. CASE Quit
  <2>1. UNCHANGED <<tree, stage>> /\ migration' = migration
    BY <1>18 DEF Quit, migration
  <2> QED BY <1>18, <2>1, TakenRests DEF Quit, Taken
<1>19. CASE Crash
  <2>1. UNCHANGED <<tree, stage>> /\ migration' = migration
    BY <1>19 DEF Crash, migration
  <2> QED BY <1>19, <2>1, TakenRests DEF Crash, Taken
<1>20. CASE Foreign
  <2>1. /\ migration # None /\ UNCHANGED <<locator, stage, pc>>
        /\ tree' = [tree EXCEPT ![migration.target] = [@ EXCEPT !.there = TRUE, !.whole = FALSE]]
    BY <1>20 DEF Foreign
  <2>2. /\ migration.target \in Dir /\ migration.source \in Dir /\ migration.source # migration.target
    BY <2>1, PendingDirs DEF Pendings
  <2>3. ~tree'[migration.target].whole /\ tree'[migration.source] = tree[migration.source]
    BY <2>1, <2>2 DEF RootTyped, Tree
  <2>4. migration' = migration /\ Stage' = Stage
    BY <2>1 DEF migration, Stage
  <2>5. ~InPlace'
    BY <2>3, <2>4 DEF InPlace, Pendings
  <2> QED BY <2>1, <2>3, <2>4, <2>5 DEF Taken
<1>21. CASE \E target \in Dir : RequestMigration(target)
  <2> PICK target \in Dir : RequestMigration(target)
    BY <1>21
  <2>1. ~InPlace' /\ pc' = "running"
    BY RequestMoves DEF InPlace, RequestMigration
  <2> QED BY <2>1, TakenAtRest
<1>22. CASE ForgetUnread
  <2>1. ~InPlace' /\ pc' = "running"
    BY <1>22 DEF ForgetUnread, Fallback, InPlace, migration
  <2> QED BY <2>1, TakenAtRest
<1> QED BY <1>1, <1>2, <1>3, <1>4, <1>5, <1>6, <1>7, <1>8, <1>9, <1>10, <1>11, <1>12, <1>13,
      <1>14, <1>15, <1>16, <1>17, <1>18, <1>19, <1>20, <1>21, <1>22 DEF RootNext

-----------------------------------------------------------------------------
(* The invariant and the theorems.                                         *)

\* The invariant holds initially.
LEMMA InitInv ==
    ASSUME RootInit
    PROVE  RootInv
<1>1. locator = Fallback /\ migration = None /\ pc = "off" /\ faults = << >>
  BY DEF RootInit, Fallback, migration
<1>2. RootTyped
  <2>1. Absent \in Tree /\ Empty \in Tree /\ 0 \in 0 .. MaxWrites /\ 0 \in 0 .. MaxMigrations
    <3>1. 0 \in 0 .. MaxWrites /\ 0 \in 0 .. MaxMigrations
      BY DataRootConstants DEF DataRootBounds
    <3>2. Absent \in Tree
      BY <3>1 DEF Absent, Tree
    <3> QED BY <3>1, <3>2 DEF Empty, Tree
  <2>2. Fallback \in Locator
    BY DataRootConstants DEF DataRootAssumption, Fallback, Locator
  <2> QED BY <2>1, <2>2, DataRootConstants DEF RootInit, RootTyped, Step, DataRootAssumption
<1>3. Failed = {}
  BY <1>1 DEF Failed
<1>4. Pendings
  BY <1>1 DEF Pendings, Boot, Fallback
<1>5. Directories
  BY <1>1 DEF Directories, Fallback, RootInit
<1>6. Staged /\ RunsWhere /\ Taken
  BY <1>1 DEF Staged, RunsWhere, Taken, InPlace
<1> QED BY <1>2, <1>4, <1>5, <1>6 DEF RootInv

\* A step of another component keeps the invariant.
LEMMA StutterInv ==
    ASSUME RootInv, UNCHANGED rootVars
    PROVE  RootInv'
<1> USE DEF rootVars, migration
<1>1. RootTyped' /\ Failed' = Failed
  BY DEF RootInv, RootTyped, Failed
<1>2. Pendings'
  BY DEF RootInv, Pendings
<1>3. Directories'
  BY DEF RootInv, Directories, Intact
<1>4. Staged'
  BY DEF RootInv, Staged, Stage
<1>5. RunsWhere => RunsWhere'
  BY DEF RunsWhere
<1>6. Taken => Taken'
  BY DEF Taken, InPlace, Stage, MissingOrEmpty
<1> QED BY <1>1, <1>2, <1>3, <1>4, <1>5, <1>6 DEF RootInv

\* Every step keeps the invariant.
LEMMA StepInv ==
    ASSUME RootInv, RootNext
    PROVE  RootInv'
<1> USE DEF RootInv
<1>1. faults' \in Seq(Kind) /\ Failed \subseteq Failed'
  BY FaultsStep
<1>2. RootTyped'
  BY <1>1, LocatorStep, TreeStep, StageStep, RestStep, WhereStep DEF RootTyped
<1>3. Pendings'
  BY PendingsStep
<1>4. Directories'
  BY DirectoriesStep
<1>5. Staged'
  BY StagedStep
<1>6. "read" \notin Failed' => RunsWhere'
  BY <1>1, RunsWhereStep
<1>7. {"read", "commit"} \cap Failed' = {} => Taken'
  <2>1. SUFFICES ASSUME {"read", "commit"} \cap Failed' = {} PROVE Taken'
    OBVIOUS
  <2>2. RunsWhere /\ Taken
    BY <1>1, <2>1
  <2> QED BY <2>1, <2>2, TakenStep
<1> QED BY <1>2, <1>3, <1>4, <1>5, <1>6, <1>7

\* data-root-migration.ts: the inductive invariant holds in every reachable state,
\* whatever the directories, the kinds of failures and the bounds.
THEOREM RootInvariant == RootSpec => []RootInv
<1>1. RootInit => RootInv
  BY InitInv
<1>2. RootInv /\ [RootNext]_rootVars => RootInv'
  BY StepInv, StutterInv
<1> QED BY <1>1, <1>2, PTL DEF RootSpec

\* data-root-migration.ts, executeMigration: the directory the locator names is never a
\* part of another one, nor bound to another root, whatever fails and wherever the
\* process dies.
THEOREM ActiveWhole == RootSpec => []ActiveIsWhole
<1>1. RootInv => ActiveIsWhole
  <2> SUFFICES ASSUME RootInv PROVE ActiveIsWhole
    OBVIOUS
  <2>1. DataRootTypeOK
    BY DEF RootInv, RootTyped, Pendings, DataRootTypeOK
  <2>2. CASE locator.active # Default
    BY <2>1, <2>2 DEF ActiveIsWhole, RootInv, Directories, Intact
  <2>3. CASE locator.active = Default
    BY <2>1, <2>3 DEF ActiveIsWhole, RootInv, Directories, Intact, Absent
  <2> QED BY <2>2, <2>3
<1> QED BY <1>1, RootInvariant, PTL

\* A step that does not fail to read the locator leaves the previous directory alone: no
\* target is ever the previous directory, and the application does not run there.
LEMMA PreviousStep ==
    ASSUME RootInv, [RootNext]_rootVars, "read" \notin Failed'
    PROVE  KeepsPrevious
<1> SUFFICES ASSUME locator.previous # None PROVE tree'[locator.previous] = tree[locator.previous]
  BY DEF KeepsPrevious
<1> USE DEF RootInv
<1>1. /\ locator.previous \in Dir /\ Intact(locator.previous) /\ locator.previous # locator.active
      /\ tree \in [Dir -> Tree]
  BY DEF Directories, RootTyped, Locator
<1>2. CASE UNCHANGED tree
  BY <1>2
<1>3. CASE Clear \/ Rename \/ Foreign
  <2>1. migration # None
    BY <1>3 DEF Clear, Rename, Foreign, Pendings, Boot
  <2>2. migration.target # locator.previous /\ migration.target \in Dir
    BY <2>1, PendingDirs DEF Pendings
  <2> QED BY <1>1, <1>3, <2>2 DEF Clear, Rename, Foreign
<1>4. CASE Open
  <2>1. PICK read \in {locator, Fallback} :
          tree' = IF tree[read.active] \in {Absent, Empty}
                    THEN [tree EXCEPT ![read.active] = Files(0, read.active)] ELSE tree
    BY <1>4 DEF Open
  <2>2. tree[locator.previous] \notin {Absent, Empty}
    BY <1>1, Distinct DEF Intact, Absent, Empty
  <2> QED BY <1>1, <2>1, <2>2
<1>5. CASE Write
  <2>1. [RootNext]_rootVars /\ RootNext
    BY <1>5 DEF RootNext
  <2>2. "read" \notin Failed
    BY <2>1, FaultsStep
  <2>3. where = locator.active
    BY <1>5, <2>2 DEF Write, RunsWhere
  <2> QED BY <1>1, <1>5, <2>3 DEF Write
<1>6. RootNext => UNCHANGED tree \/ Clear \/ Rename \/ Foreign \/ Open \/ Write
  BY DEF RootNext, Reach, Start, Prepare, RollbackFails, Begin, Mirror, Rebind, Verify, Seal, Commit,
      Record, RequestRollback, Cancel, Forget, ForgetUnread, Quit, Crash, RequestMigration
<1> QED BY <1>2, <1>3, <1>4, <1>5, <1>6 DEF rootVars

\* With a migration pending, only its commit changes the active directory.
LEMMA ActiveMoves ==
    ASSUME RootInv, RootNext, migration # None, "read" \notin Failed'
    PROVE  locator'.active = locator.active \/ Commit
<1> USE DEF RootInv
<1>1. ~Fault("read")
  BY FaultTyped DEF RootTyped
<1>2. CASE Begin
  BY <1>2, PhasePersists DEF Begin, Phase
<1>3. CASE Verify
  BY <1>3, PhasePersists DEF Verify, Reach, Phase
<1>4. CASE Seal
  BY <1>4, ManifestPersists DEF Seal, Reach
<1>5. CASE Record
  <2>1. FailedPhase(migration) \in Phase
    BY DEF FailedPhase, Phase
  <2> QED BY <1>5, <2>1, PhasePersists DEF Record
<1>6. CASE Forget
  BY <1>6, ForgetMoves DEF Forget
<1>7. CASE Prepare
  BY <1>7, RollbackMoves DEF Prepare, Pendings
<1>8. CASE RequestRollback
  BY <1>8 DEF RequestRollback, NonePending, migration
<1>9. CASE \E target \in Dir : RequestMigration(target)
  BY <1>1, <1>9, RequestMoves DEF ReadAs
<1>10. CASE Commit
  BY <1>10
<1>11. RootNext => UNCHANGED locator \/ Begin \/ Verify \/ Seal \/ Record \/ Forget \/ Prepare
                     \/ RequestRollback \/ (\E target \in Dir : RequestMigration(target)) \/ Commit
  BY <1>1 DEF RootNext, ForgetUnread, Reach, Start, RollbackFails, Mirror, Rebind, Clear, Rename, Open, Write, Cancel,
      Quit, Crash, Foreign
<1> QED BY <1>2, <1>3, <1>4, <1>5, <1>6, <1>7, <1>8, <1>9, <1>10, <1>11

\* The commit finds the data of the source at the target.
LEMMA TakesOverStep ==
    ASSUME RootInv, [RootNext]_rootVars, {"read", "commit"} \cap Failed' = {}
    PROVE  TakesOver
<1> SUFFICES ASSUME migration # None, locator'.active = migration.target, locator.active # locator'.active
             PROVE  tree[locator'.active].data = tree[locator.active].data
  BY DEF TakesOver, migration
<1>1. RootNext
  BY DEF rootVars
<1>2. Commit
  BY <1>1, ActiveMoves
<1>3. AsExpected(migration)
  BY <1>2 DEF Commit
<1>4. Taken
  BY <1>1, FaultsStep DEF RootInv
<1>5. migration.manifest # None
  <2>1. tree[migration.target] \in Tree
    BY PendingDirs DEF RootInv, RootTyped
  <2> QED BY <1>3, <2>1, Distinct DEF AsExpected
<1>6. InPlace
  BY <1>3, <1>5 DEF InPlace, AsExpected
<1>7. tree[migration.target].data = tree[migration.source].data
  BY <1>4, <1>6 DEF Taken, InPlace
<1> QED BY <1>7 DEF RootInv, Pendings

\* data-root-migration.ts, requestRollback and commitLocator: the previous directory is
\* kept as it was left until a read of the locator fails, and a committed migration took
\* over exactly what had been written until a read or a switch of it failed.
THEOREM DataKept == RootSpec => DataIsKept
<1>1. RootInv /\ [RootNext]_rootVars =>
        [/\ "read" \notin Failed' => KeepsPrevious
         /\ {"read", "commit"} \cap Failed' = {} => TakesOver]_rootVars
  BY PreviousStep, TakesOverStep
<1> QED BY <1>1, RootInvariant, PTL DEF RootSpec, DataIsKept

-----------------------------------------------------------------------------
(* RunnerLifecycle: the inductive invariants                               *)

\* Where a caller is while its build is in the queue, while it is the head, and
\* while it has a runner in its hands.
InQueue == {"first", "queued", "released", "build", "publish", "attach"}
AtHead == {"first", "released", "build", "publish", "attach"}
Replacing == {"released", "build", "publish", "attach"}

\* The queue holds each caller that waits or builds once, and who builds is its head.
QueueOrdered ==
    /\ builds \in Seq(Caller)
    /\ \A i \in 1..Len(builds) : place[builds[i]] \in InQueue
    /\ \A i, j \in 1..Len(builds) : builds[i] = builds[j] => i = j
    /\ \A c \in Caller : place[c] \in InQueue => \E i \in 1..Len(builds) : builds[i] = c
    /\ \A c \in Caller : place[c] \in AtHead => builds[1] = c

\* Only the boot builds the first runner, only a save writes the configuration.
CallersTyped ==
    /\ \A c \in Caller : place[c] \in {"new", "failed", "first"} => c = "boot"
    /\ \A c \in Caller : place[c] = "persist" => c = "save" /\ asked.content \in Content

\* Before the first runner there is nothing to replace, to retire or to host.
FirstIsFirst ==
    /\ current = Nothing <=> place["boot"] \in {"new", "failed", "first"}
    /\ router = current
    /\ current = Nothing =>
         retired = {} /\ host = Nothing /\ \A c \in Caller : place[c] \notin Replacing

\* One runner is built at a time, from the accepted configuration or an older one.
OneIsBuilt ==
    /\ (\A c \in Caller : place[c] \notin {"first", "build"}) => Building = {}
    /\ \A c \in Caller : place[c] \in {"first", "build"} =>
         \E r \in RunnerId :
            /\ Building = {r}
            /\ runner[r].token # 0 /\ runner[r].token <= slot.token /\ (runner[r].token = slot.token => runner[r].content = slot.content)
            /\ place[c] = "build" => runner[r].token = held.config.token /\ runner[r].content = held.config.content

\* The runner that is replaced, and room for it among the retired ones.
ReplacedIsApart ==
    /\ current \notin retired
    /\ \A c \in Caller :
         /\ place[c] = "build" => held.old = current
         /\ place[c] \in {"publish", "attach"} => held.old \in RunnerId /\ held.old # current /\ held.old \notin retired
         /\ place[c] \in {"build", "publish", "attach"} => Cardinality(retired) < MaxRetired

\* The sources of the monitor follow, but for a replacement in between.
SourcesFollow ==
    /\ retired \subseteq activity
    /\ Replaced = {} => activity = Sources(current, retired)

HostIsPlaced ==
    host # Nothing => (\E c \in Caller : place[c] = "publish") \/ (host = current /\ tools = {current})

\* A request that has begun took a runner.
RequestsHaveRunner == \A s \in Stream : stream[s].at # "idle" => stream[s].on \in RunnerId

LifecycleInv ==
    /\ LifecycleTypeOK /\ QueueOrdered /\ CallersTyped /\ FirstIsFirst /\ OneIsBuilt
    /\ NoRunnerIsLost /\ ReplacedIsApart /\ SourcesFollow /\ HostIsPlaced
    /\ RequestsHaveRunner

\* The revision that the published runner was built from.
BuiltIsKnown ==
    current # Nothing =>
        /\ lastBuilt # Nothing /\ lastBuilt <= slot.token
        /\ lastBuilt = slot.token => runner[current].content = slot.content
HeldIsKnown ==
    \A c \in Caller : place[c] \in {"build", "publish", "attach"} =>
        /\ held.config.token <= slot.token
        /\ held.config.token = slot.token => held.config.content = slot.content
        /\ place[c] \in {"publish", "attach"} =>
              lastBuilt = held.config.token /\ runner[current].content = held.config.content

\* A save that has written its configuration waits for its rebuild.
SaveWaits == "save" \in Caller /\ place["save"] \in InQueue

\* Without keys: what a save wrote is accepted until it is built, or remembered.
NoKeys == "key" \in Caller => place["key"] = "idle"
SaveIsAccepted ==
    "save" \in Caller =>
        /\ place["save"] \in InQueue => slot.content = asked.content
        /\ place["save"] \in Replacing => held.config = slot
        /\ place["save"] = "persist" /\ ~asked.rebuild => asked.content = slot.content /\ asked.content # notApplied
        /\ result["save"] = "ok" => place["save"] = "idle" /\ asked.content = slot.content
        /\ result["save"] = "ok" /\ current # Nothing => runner[current].content = slot.content
BootIsFresh ==
    /\ place["boot"] # "released"
    /\ place["boot"] = "queued" => retired = {} \/ lastBuilt = slot.token
    /\ place["boot"] = "queued" /\ SaveWaits => retired = {}
    /\ place["boot"] = "first" /\ ~SaveWaits => \A r \in Building : runner[r].content = slot.content
    /\ place["boot"] \in {"build", "publish", "attach"} /\ ~SaveWaits => held.config.content = slot.content
Unapplied ==
    current # Nothing /\ ~SaveWaits /\ place["boot"] \notin {"publish", "attach"} =>
        runner[current].content = slot.content \/ notApplied = slot.content

Keyless == NoKeys /\ SaveIsAccepted /\ BootIsFresh /\ Unapplied

SavesInv == BuiltIsKnown /\ HeldIsKnown /\ (key = 0 => Keyless)

-----------------------------------------------------------------------------
(* The queue                                                               *)

LEMMA AnyOfIs == ASSUME NEW rs, rs # {} PROVE AnyOf(rs) \in rs
BY DEF AnyOf

LEMMA HeadIs ==
    ASSUME QueueOrdered, NEW c \in Caller, Heads(c)
    PROVE  /\ Len(builds) \in Nat \ {0} /\ builds[1] = c
           /\ place[c] \in InQueue
           /\ \A d \in Caller \ {c} : place[d] \notin AtHead
<1>1. Len(builds) \in Nat \ {0}
  BY EmptySeq, LenProperties DEF QueueOrdered, Heads
<1>2. builds[1] = c
  BY DEF Heads
<1>3. place[c] \in InQueue
  BY <1>1, <1>2 DEF QueueOrdered
<1> QED BY <1>1, <1>2, <1>3 DEF QueueOrdered

LEMMA EmptyIdle ==
    ASSUME QueueOrdered, builds = << >>
    PROVE  \A c \in Caller : place[c] \notin InQueue
BY EmptySeq DEF QueueOrdered

\* A caller enters the queue: at its end, and as its head only if it is alone.
LEMMA Enters ==
    ASSUME QueueOrdered, place \in [Caller -> Place],
           NEW c \in Caller, place[c] \notin InQueue, NEW p \in InQueue, p \in AtHead => builds = << >>,
           place' = [place EXCEPT ![c] = p], builds' = Append(builds, c)
    PROVE  QueueOrdered'
<1>1. /\ builds' \in Seq(Caller) /\ Len(builds') = Len(builds) + 1 /\ Len(builds) \in Nat
      /\ \A i \in 1..Len(builds) : builds'[i] = builds[i] /\ builds[i] \in Caller
      /\ builds'[Len(builds) + 1] = c
  BY AppendProperties, LenProperties, ElementOfSeq DEF QueueOrdered
<1>2. \A i \in 1..Len(builds) : builds[i] # c
  BY DEF QueueOrdered
<1>3. /\ place'[c] = p /\ \A d \in Caller \ {c} : place'[d] = place[d]
  OBVIOUS
<1>4. \A i \in 1..Len(builds') : place'[builds'[i]] \in InQueue
  BY <1>1, <1>2, <1>3 DEF QueueOrdered
<1>5. \A i, j \in 1..Len(builds') : builds'[i] = builds'[j] => i = j
  BY <1>1, <1>2 DEF QueueOrdered
<1>6. ASSUME NEW d \in Caller, place'[d] \in InQueue PROVE \E i \in 1..Len(builds') : builds'[i] = d
  <2>1. CASE d = c
    BY <1>1, <2>1
  <2>2. CASE d # c
    <3>1. PICK i \in 1..Len(builds) : builds[i] = d
      BY <1>3, <1>6, <2>2 DEF QueueOrdered
    <3>2. i \in 1..Len(builds') /\ builds'[i] = d
      BY <1>1, <3>1
    <3> QED BY <3>2
  <2> QED BY <2>1, <2>2
<1>7. ASSUME NEW d \in Caller, place'[d] \in AtHead PROVE builds'[1] = d
  <2>1. CASE d = c
    <3>1. Len(builds) = 0
      BY <1>3, <1>7, <2>1, EmptySeq
    <3> QED BY <1>1, <2>1, <3>1
  <2>2. CASE d # c
    <3>1. builds[1] = d /\ place[d] \in AtHead
      BY <1>3, <1>7, <2>2 DEF QueueOrdered
    <3>2. PICK i \in 1..Len(builds) : builds[i] = d
      BY <3>1 DEF QueueOrdered, AtHead, InQueue
    <3>3. 1 \in 1..Len(builds)
      BY <1>1, <3>2
    <3> QED BY <1>1, <3>1, <3>3
  <2> QED BY <2>1, <2>2
<1> QED BY <1>1, <1>4, <1>5, <1>6, <1>7 DEF QueueOrdered

\* A caller that is the head moves on.
LEMMA MovesOn ==
    ASSUME QueueOrdered, place \in [Caller -> Place], NEW c \in Caller, Heads(c), NEW p \in InQueue,
           place' = [place EXCEPT ![c] = p], builds' = builds
    PROVE  QueueOrdered'
<1>1. builds[1] = c /\ Len(builds) \in Nat \ {0}
  BY HeadIs
<1>2. \A i \in 1..Len(builds) : builds[i] \in Caller
  BY ElementOfSeq DEF QueueOrdered
<1>3. place'[c] = p /\ \A d \in Caller \ {c} : place'[d] = place[d]
  OBVIOUS
<1> QED BY <1>1, <1>2, <1>3 DEF QueueOrdered

\* The head leaves the queue.
LEMMA Leaves ==
    ASSUME QueueOrdered, place \in [Caller -> Place], NEW c \in Caller, Heads(c),
           NEW p \in Place \ InQueue,
           place' = [place EXCEPT ![c] = p], builds' = Tail(builds)
    PROVE  QueueOrdered'
<1>1. builds[1] = c /\ Len(builds) \in Nat \ {0} /\ \A d \in Caller \ {c} : place[d] \notin AtHead
  BY HeadIs
<1>2. \A i \in 1..Len(builds) : builds[i] \in Caller
  BY ElementOfSeq DEF QueueOrdered
<1>3. /\ builds' \in Seq(Caller) /\ Len(builds') = Len(builds) - 1
      /\ \A i \in 1..Len(builds') : builds'[i] = builds[i + 1]
  BY <1>1, EmptySeq, HeadTailProperties DEF QueueOrdered, Heads
<1>4. place'[c] = p /\ \A d \in Caller \ {c} : place'[d] = place[d]
  OBVIOUS
<1>5. \A i \in 1..Len(builds') : builds'[i] # c /\ builds'[i] \in Caller
  BY <1>1, <1>2, <1>3 DEF QueueOrdered
<1>6. \A i \in 1..Len(builds') : place'[builds'[i]] \in InQueue
  BY <1>1, <1>3, <1>4, <1>5 DEF QueueOrdered
<1>7. \A i, j \in 1..Len(builds') : builds'[i] = builds'[j] => i = j
  BY <1>1, <1>3 DEF QueueOrdered
<1>8. ASSUME NEW d \in Caller, place'[d] \in InQueue PROVE \E i \in 1..Len(builds') : builds'[i] = d
  <2>1. d # c /\ place[d] \in InQueue
    BY <1>4, <1>8
  <2>2. PICK i \in 1..Len(builds) : builds[i] = d
    BY <2>1 DEF QueueOrdered
  <2>3. i # 1
    BY <1>1, <2>1, <2>2
  <2>4. i - 1 \in 1..Len(builds') /\ builds'[i - 1] = d
    BY <1>1, <1>3, <2>2, <2>3
  <2> QED BY <2>4
<1>9. \A d \in Caller : place'[d] \notin AtHead
  BY <1>1, <1>4 DEF AtHead, InQueue
<1> QED BY <1>3, <1>6, <1>7, <1>8, <1>9 DEF QueueOrdered

\* A caller moves outside the queue.
LEMMA StaysOut ==
    ASSUME QueueOrdered, place \in [Caller -> Place],
           NEW c \in Caller, place[c] \notin InQueue, NEW p \in Place \ InQueue,
           place' = [place EXCEPT ![c] = p], builds' = builds
    PROVE  QueueOrdered'
<1>1. \A i \in 1..Len(builds) : builds[i] \in Caller /\ builds[i] # c
  BY ElementOfSeq DEF QueueOrdered
<1>2. place'[c] = p /\ \A d \in Caller \ {c} : place'[d] = place[d]
  OBVIOUS
<1> QED BY <1>1, <1>2 DEF QueueOrdered, AtHead, InQueue

\* The boot, done with the first runner, goes to the end of the queue.
LEMMA ComesAgain ==
    ASSUME QueueOrdered, place \in [Caller -> Place], NEW c \in Caller, Heads(c),
           place' = [place EXCEPT ![c] = "queued"], builds' = Append(Tail(builds), c)
    PROVE  QueueOrdered'
<1>1. builds[1] = c /\ Len(builds) \in Nat \ {0} /\ \A d \in Caller \ {c} : place[d] \notin AtHead
  BY HeadIs
<1>2. \A i \in 1..Len(builds) : builds[i] \in Caller
  BY ElementOfSeq DEF QueueOrdered
<1>3. /\ Tail(builds) \in Seq(Caller) /\ Len(Tail(builds)) = Len(builds) - 1
      /\ \A i \in 1..Len(Tail(builds)) : Tail(builds)[i] = builds[i + 1]
  BY <1>1, EmptySeq, HeadTailProperties DEF QueueOrdered, Heads
<1>4. /\ builds' \in Seq(Caller) /\ Len(builds') = Len(builds)
      /\ \A i \in 1..(Len(builds) - 1) : builds'[i] = builds[i + 1]
      /\ builds'[Len(builds)] = c
  BY <1>1, <1>3, AppendProperties
<1>5. place'[c] = "queued" /\ \A d \in Caller \ {c} : place'[d] = place[d]
  OBVIOUS
<1>6. \A i \in 1..(Len(builds) - 1) : builds'[i] # c /\ builds'[i] \in Caller
  BY <1>1, <1>2, <1>4 DEF QueueOrdered
<1>a. \A i \in 1..Len(builds') : i = Len(builds) \/ i \in 1..(Len(builds) - 1)
  <2>1. Len(builds') = Len(builds) /\ Len(builds) \in Nat
    BY <1>1, <1>4
  <2>2. \A n \in Nat : \A i \in 1..n : i = n \/ i \in 1..(n - 1)
    OBVIOUS
  <2> QED BY ONLY <2>1, <2>2
<1>b. \A i \in 1..(Len(builds) - 1) : i \in 1..Len(builds) /\ i + 1 \in 1..Len(builds)
  BY <1>1
<1>7. ASSUME NEW i \in 1..Len(builds') PROVE place'[builds'[i]] \in InQueue
  <2>1. CASE i = Len(builds)
    BY <1>4, <1>5, <2>1 DEF InQueue
  <2>2. CASE i \in 1..(Len(builds) - 1)
    BY <1>4, <1>5, <1>6, <1>b, <2>2 DEF QueueOrdered
  <2> QED BY <1>a, <2>1, <2>2
<1>8. ASSUME NEW i \in 1..Len(builds'), NEW j \in 1..Len(builds'), builds'[i] = builds'[j] PROVE i = j
  <2>1. CASE i = Len(builds) \/ j = Len(builds)
    BY <1>4, <1>6, <1>8, <1>a, <2>1
  <2>2. CASE i \in 1..(Len(builds) - 1) /\ j \in 1..(Len(builds) - 1)
    <3>1. builds[i + 1] = builds[j + 1]
      BY <1>4, <1>8, <2>2
    <3>2. i + 1 = j + 1
      BY <1>b, <2>2, <3>1 DEF QueueOrdered
    <3> QED BY <1>1, <2>2, <3>2
  <2> QED BY <1>a, <2>1, <2>2
<1>9. ASSUME NEW d \in Caller, place'[d] \in InQueue PROVE \E i \in 1..Len(builds') : builds'[i] = d
  <2>1. CASE d = c
    <3>1. Len(builds) \in 1..Len(builds')
      BY <1>1, <1>4
    <3> QED BY <1>4, <2>1, <3>1
  <2>2. CASE d # c
    <3>1. PICK i \in 1..Len(builds) : builds[i] = d
      BY <1>5, <1>9, <2>2 DEF QueueOrdered
    <3>2. i # 1
      BY <1>1, <2>2, <3>1
    <3>3. i - 1 \in 1..Len(builds') /\ builds'[i - 1] = d
      BY <1>1, <1>4, <3>1, <3>2
    <3> QED BY <3>3
  <2> QED BY <2>1, <2>2
<1>10. \A d \in Caller : place'[d] \notin AtHead
  BY <1>1, <1>5 DEF AtHead, InQueue
<1> QED BY <1>4, <1>7, <1>8, <1>9, <1>10 DEF QueueOrdered
-----------------------------------------------------------------------------
(* The steps that build nothing                                            *)

LEMMA ReplacedIs ==
    /\ (\A c \in Caller : place[c] \notin {"publish", "attach"}) => Replaced = {}
    /\ (\E c \in Caller : place[c] \in {"publish", "attach"}) => Replaced = {held.old}
BY DEF Replaced

\* Who replaces is alone, and nobody builds while the first runner is missing.
LEMMA AloneAtHead ==
    ASSUME QueueOrdered, NEW c \in Caller, NEW d \in Caller, place[c] \in AtHead, place[d] \in AtHead
    PROVE  c = d
BY DEF QueueOrdered

\* A caller moves where it has no runner in its hands.
LEMMA QuietMoves ==
    ASSUME LifecycleInv, LifecycleTypeOK', QueueOrdered',
           UNCHANGED <<runner, current, retired, activity, router, host, tools, held, stream>>,
           NEW c \in Caller, NEW p \in {"idle", "persist", "queued"},
           \/ p # "persist" /\ asked' = asked
           \/ p = "persist" /\ c = "save" /\ asked'.content \in Content,
           place[c] \in {"idle", "persist", "queued", "released"}, place' = [place EXCEPT ![c] = p],
           slot' = slot \/ slot'.token > slot.token
    PROVE  LifecycleInv'
<1>1. place'[c] = p /\ \A d \in Caller \ {c} : place'[d] = place[d]
  BY DEF LifecycleInv, LifecycleTypeOK
<1>2. /\ slot.token \in Nat /\ slot'.token \in Nat
      /\ \A r \in RunnerId : runner[r].token \in Nat
  <2>1. slot \in Revision /\ slot' \in Revision
    BY DEF LifecycleInv, LifecycleTypeOK
  <2>2. \A r \in RunnerId : runner[r] \in Runner
    BY DEF LifecycleInv, LifecycleTypeOK
  <2>3. \A r \in RunnerId : runner[r].token \in Nat
    BY <2>2 DEF Runner, Token
  <2> QED BY <2>1, <2>3 DEF Revision, Token
<1>3. UNCHANGED <<Replaced, Up, Building, Busy>>
  BY <1>1 DEF Replaced, Up, Building, Busy
<1>4. CallersTyped'
  BY <1>1 DEF LifecycleInv, CallersTyped
<1>5. FirstIsFirst'
  BY <1>1, LifecycleConstants DEF LifecycleInv, FirstIsFirst, Replacing, LifecycleAssumption
<1>6. OneIsBuilt'
  <2>1. (\A d \in Caller : place'[d] \notin {"first", "build"}) => Building' = {}
    BY <1>1, <1>3 DEF LifecycleInv, OneIsBuilt
  <2>2. ASSUME NEW d \in Caller, place'[d] \in {"first", "build"}
        PROVE  \E r \in RunnerId :
                 /\ Building' = {r}
                 /\ runner[r].token # 0 /\ runner[r].token <= slot'.token /\ (runner[r].token = slot'.token => runner[r].content = slot'.content)
                 /\ place'[d] = "build" => runner[r].token = held.config.token /\ runner[r].content = held.config.content
    <3>1. place[d] = place'[d]
      BY <1>1, <2>2
    <3>2. PICK r \in RunnerId :
            /\ Building = {r}
            /\ runner[r].token # 0 /\ runner[r].token <= slot.token /\ (runner[r].token = slot.token => runner[r].content = slot.content)
            /\ place[d] = "build" => runner[r].token = held.config.token /\ runner[r].content = held.config.content
      BY <2>2, <3>1 DEF LifecycleInv, OneIsBuilt
    <3> QED BY <1>2, <1>3, <3>1, <3>2
  <2> QED BY <2>1, <2>2 DEF OneIsBuilt
<1>7. NoRunnerIsLost'
  BY <1>3 DEF LifecycleInv, NoRunnerIsLost
<1>8. ReplacedIsApart'
  BY <1>1 DEF LifecycleInv, ReplacedIsApart
<1>9. SourcesFollow' /\ HostIsPlaced' /\ RequestsHaveRunner'
  BY <1>1, <1>3 DEF LifecycleInv, SourcesFollow, Sources, HostIsPlaced, RequestsHaveRunner
<1> QED BY <1>4, <1>5, <1>6, <1>7, <1>8, <1>9 DEF LifecycleInv

\* What an accepted revision is.
LEMMA AcceptIs ==
    ASSUME LifecycleTypeOK, NEW content \in Content
    PROVE  /\ Accept(content) \in Revision /\ Accept(content).token = slot.token + 1
           /\ Accept(content).content = content /\ slot.token \in Nat /\ slot.content \in Content
BY DEF LifecycleTypeOK, Accept, Revision, Token

LEMMA SaveKeeps == ASSUME LifecycleInv, NEW content \in Content, Save(content) PROVE LifecycleInv'
<1> USE DEF Save, GoTo, Ended, runners, plugins
<1>1. LifecycleTypeOK'
  <2>1. asked' \in [content : Content \cup {Nothing}, rebuild : BOOLEAN] /\ asked'.content \in Content
    BY DEF NeedsRebuild
  <2>2. saves' \in 0 .. MaxSaves
    BY LifecycleConstants DEF LifecycleInv, LifecycleTypeOK, LifecycleBounds
  <2> QED BY <2>1, <2>2 DEF LifecycleInv, LifecycleTypeOK, Place
<1>2. QueueOrdered'
  BY StaysOut DEF LifecycleInv, LifecycleTypeOK, Place, InQueue
<1>3. place["save"] = "idle" /\ asked'.content \in Content
  OBVIOUS
<1> QED BY <1>1, <1>2, <1>3, QuietMoves

LEMMA PersistKeeps == ASSUME LifecycleInv, PersistConfig PROVE LifecycleInv'
<1> USE DEF PersistConfig, GoTo, Ended, Rebuild, runners, plugins
<1>1. slot' \in Revision /\ slot'.token > slot.token /\ served' \in Token
  <2>1. asked.content \in Content
    BY DEF LifecycleInv, CallersTyped
  <2>2. slot' \in Revision /\ slot'.token = slot.token + 1 /\ slot.token \in Nat
    BY <2>1, AcceptIs DEF LifecycleInv
  <2> QED BY <2>2 DEF Revision
<1>2. CASE asked.rebuild
  <2>0. builds' \in Seq(Caller)
    BY <1>2, AppendProperties DEF LifecycleInv, LifecycleTypeOK
  <2>1. LifecycleTypeOK'
    BY <1>1, <1>2, <2>0 DEF LifecycleInv, LifecycleTypeOK, Place
  <2>2. QueueOrdered'
    BY <1>2, Enters DEF LifecycleInv, LifecycleTypeOK, InQueue, AtHead
  <2> QED BY <1>1, <1>2, <2>1, <2>2, QuietMoves
<1>3. CASE ~asked.rebuild
  <2>1. LifecycleTypeOK'
    BY <1>1, <1>3 DEF LifecycleInv, LifecycleTypeOK, Place
  <2>2. QueueOrdered'
    BY <1>3, StaysOut DEF LifecycleInv, LifecycleTypeOK, Place, InQueue
  <2> QED BY <1>1, <1>3, <2>1, <2>2, QuietMoves
<1> QED BY <1>2, <1>3

LEMMA SaveKeyKeeps == ASSUME LifecycleInv, SaveKey PROVE LifecycleInv'
<1> USE DEF SaveKey, GoTo, Ended, Rebuild, runners, plugins
<1>1. LifecycleTypeOK'
  BY LifecycleConstants, AppendProperties DEF LifecycleInv, LifecycleTypeOK, Place, LifecycleBounds
<1>2. QueueOrdered'
  BY Enters DEF LifecycleInv, LifecycleTypeOK, InQueue, AtHead
<1> QED BY <1>1, <1>2, QuietMoves

\* A head that has no runner in its hands leaves the queue.
LEMMA QuietlyDone ==
    ASSUME LifecycleInv, NEW c \in Caller, Heads(c), place[c] \in {"queued", "released"},
           NEW outcome \in {"ok", "error"}, Finish(c, outcome),
           UNCHANGED <<config, runners, plugins, stream, buildFaults>>
    PROVE  LifecycleInv'
<1> USE DEF Finish, Return, Advance, GoTo, Ended, config, runners, plugins
<1>0. notApplied' \in Content \cup {Nothing}
  BY DEF LifecycleInv, LifecycleTypeOK, Remembered
<1>1. Tail(builds) \in Seq(Caller)
  BY HeadTailProperties DEF LifecycleInv, LifecycleTypeOK, Heads
<1>2. LifecycleTypeOK'
  BY <1>0, <1>1 DEF LifecycleInv, LifecycleTypeOK, Place
<1>3. QueueOrdered'
  BY Leaves DEF LifecycleInv, LifecycleTypeOK, Place, InQueue
<1> QED BY <1>2, <1>3, QuietMoves

LEMMA SkipKeeps == ASSUME LifecycleInv, NEW c \in Caller, Skip(c) PROVE LifecycleInv'
BY QuietlyDone DEF Skip

LEMMA RefuseKeeps ==
    ASSUME LifecycleInv, NEW c \in Caller, Heads(c), place[c] \in {"queued", "released"}, RefuseBuild(c)
    PROVE  LifecycleInv'
BY QuietlyDone DEF RefuseBuild

\* Nobody moves.
LEMMA NobodyMoves ==
    ASSUME LifecycleInv, LifecycleTypeOK', UNCHANGED <<config, runners, builds, callers>>,
           Busy' \subseteq Up, RequestsHaveRunner', HostIsPlaced', host # Nothing \/ host' = Nothing \/ current # Nothing
    PROVE  LifecycleInv'
<1> USE DEF config, runners, callers
<1>1. UNCHANGED <<Replaced, Up, Building>>
  BY DEF Replaced, Up, Building
<1>2. QueueOrdered' /\ CallersTyped'
  BY DEF LifecycleInv, QueueOrdered, CallersTyped
<1>3. FirstIsFirst'
  BY DEF LifecycleInv, FirstIsFirst
<1>4. OneIsBuilt'
  BY <1>1 DEF LifecycleInv, OneIsBuilt
<1>5. NoRunnerIsLost'
  BY <1>1 DEF LifecycleInv, NoRunnerIsLost
<1>6. ReplacedIsApart' /\ SourcesFollow'
  BY <1>1 DEF LifecycleInv, ReplacedIsApart, SourcesFollow, Sources
<1> QED BY <1>2, <1>3, <1>4, <1>5, <1>6 DEF LifecycleInv

LEMMA LoadHostKeeps == ASSUME LifecycleInv, LoadHost PROVE LifecycleInv'
<1>1. LifecycleTypeOK' /\ UNCHANGED <<config, runners, builds, callers, stream>>
  BY DEF LoadHost, LifecycleInv, LifecycleTypeOK, config, runners, callers
<1>2. Busy' \subseteq Up /\ RequestsHaveRunner'
  BY <1>1 DEF Busy, LifecycleInv, NoRunnerIsLost, RequestsHaveRunner
<1>3. HostIsPlaced' /\ (host # Nothing \/ host' = Nothing \/ current # Nothing)
  BY DEF LoadHost, IsCurrent, HostIsPlaced, LifecycleInv, callers, runners
<1> QED BY <1>1, <1>2, <1>3, NobodyMoves

LEMMA RequestKeeps ==
    ASSUME LifecycleInv, NEW s \in Stream, OpenStream(s) \/ Run(s) \/ End(s)
    PROVE  LifecycleInv'
<1>1. UNCHANGED <<config, runners, builds, callers, plugins, buildFaults>>
  BY DEF OpenStream, Run, End
<1>2. PICK q \in Request :
        /\ stream' = [stream EXCEPT ![s] = q]
        /\ q.at = "run" => q.on \in Up
        /\ q.at # "idle" => q.on \in RunnerId
  <2>1. CASE OpenStream(s)
    <3>1. current \in RunnerId
      BY <2>1 DEF OpenStream, LifecycleInv, FirstIsFirst, LifecycleTypeOK
    <3>2. [at |-> "open", on |-> current] \in Request
      BY <3>1 DEF Request
    <3> QED BY <2>1, <3>1, <3>2 DEF OpenStream
  <2>2. CASE Run(s)
    <3> DEFINE q == [stream[s] EXCEPT !.at = IF runner[stream[s].on].state = "up" THEN "run" ELSE "late"]
    <3>1. stream[s] \in Request /\ stream' = [stream EXCEPT ![s] = q]
      BY <2>2 DEF Run, LifecycleInv, LifecycleTypeOK
    <3>2. q \in Request /\ q.on = stream[s].on
      BY <3>1 DEF Request
    <3>3. q.at = "run" => runner[stream[s].on].state = "up"
      BY <3>1 DEF Request
    <3>4. stream[s].on \in RunnerId
      BY <2>2 DEF Run, LifecycleInv, RequestsHaveRunner
    <3> HIDE DEF q
    <3> QED BY <3>1, <3>2, <3>3, <3>4 DEF Up
  <2>3. CASE End(s)
    <3> DEFINE q == [stream[s] EXCEPT !.at = "done"]
    <3>1. stream[s] \in Request /\ stream' = [stream EXCEPT ![s] = q]
      BY <2>3 DEF End, LifecycleInv, LifecycleTypeOK
    <3>2. q \in Request /\ q.at = "done" /\ q.on = stream[s].on
      BY <3>1 DEF Request
    <3>3. stream[s].on \in RunnerId
      BY <2>3 DEF End, LifecycleInv, RequestsHaveRunner
    <3> HIDE DEF q
    <3> QED BY <3>1, <3>2, <3>3
  <2> QED BY <2>1, <2>2, <2>3
<1>3. LifecycleTypeOK'
  BY <1>1, <1>2 DEF LifecycleInv, LifecycleTypeOK, config, runners, plugins, callers
<1>4. Busy' \subseteq Up
  BY <1>2 DEF Busy, LifecycleInv, NoRunnerIsLost, LifecycleTypeOK
<1>5. HostIsPlaced' /\ RequestsHaveRunner'
  BY <1>1, <1>2 DEF HostIsPlaced, RequestsHaveRunner, LifecycleInv, LifecycleTypeOK, plugins, runners, callers
<1>6. host # Nothing \/ host' = Nothing
  BY <1>1 DEF plugins
<1> QED BY <1>1, <1>3, <1>4, <1>5, <1>6, NobodyMoves
-----------------------------------------------------------------------------
(* The steps that build                                                    *)

\* One runner changes.
LEMMA RunnerChanges ==
    ASSUME runner \in [RunnerId -> Runner], NEW r \in RunnerId, NEW x \in Runner,
           runner' = [runner EXCEPT ![r] = x]
    PROVE  /\ runner' \in [RunnerId -> Runner] /\ runner'[r] = x
           /\ \A q \in RunnerId \ {r} : runner'[q] = runner[q]
           /\ Up' = IF x.state = "up" THEN Up \cup {r} ELSE Up \ {r}
           /\ Building' = IF x.state = "building" THEN Building \cup {r} ELSE Building \ {r}
<1>1. /\ runner' \in [RunnerId -> Runner] /\ runner'[r] = x
      /\ \A q \in RunnerId \ {r} : runner'[q] = runner[q]
  OBVIOUS
<1> QED BY <1>1 DEF Up, Building

\* Its state alone changes.
LEMMA StateChanges ==
    ASSUME runner \in [RunnerId -> Runner], NEW r \in RunnerId, NEW s \in {"up", "failed", "down"},
           runner' = [runner EXCEPT ![r].state = s]
    PROVE  /\ runner' \in [RunnerId -> Runner]
           /\ runner'[r].content = runner[r].content /\ runner'[r].token = runner[r].token
           /\ \A q \in RunnerId \ {r} : runner'[q] = runner[q]
           /\ Up' = IF s = "up" THEN Up \cup {r} ELSE Up \ {r}
           /\ Building' = Building \ {r}
<1> DEFINE x == [runner[r] EXCEPT !.state = s]
<1>1. runner' = [runner EXCEPT ![r] = x] /\ runner[r] \in Runner
  OBVIOUS
<1>2. x \in Runner /\ x.state = s /\ x.content = runner[r].content /\ x.token = runner[r].token
  BY <1>1 DEF Runner
<1> HIDE DEF x
<1> QED BY <1>1, <1>2, RunnerChanges

LEMMA ShutIs ==
    ASSUME runner \in [RunnerId -> Runner], NEW rs \in SUBSET RunnerId, runner' = Shut(rs)
    PROVE  /\ runner' \in [RunnerId -> Runner]
           /\ \A q \in RunnerId \ rs : runner'[q] = runner[q]
           /\ Up' = Up \ rs /\ Building' = Building \ rs
<1>1. ASSUME NEW r \in RunnerId, r \in rs PROVE runner'[r] \in Runner /\ runner'[r].state = "down"
  <2>1. runner[r] \in Runner /\ runner'[r] = [runner[r] EXCEPT !.state = "down"]
    BY <1>1 DEF Shut
  <2> QED BY <2>1 DEF Runner
<1>2. \A q \in RunnerId \ rs : runner'[q] = runner[q] /\ runner[q] \in Runner
  BY DEF Shut
<1>3. runner' \in [RunnerId -> Runner]
  <2>1. runner' = [q \in RunnerId |-> runner'[q]]
    BY DEF Shut
  <2> QED BY <1>1, <1>2, <2>1
<1>4. Up' = Up \ rs /\ Building' = Building \ rs
  BY <1>1, <1>2 DEF Up, Building
<1> QED BY <1>2, <1>3, <1>4

\* The head moves, and nobody else holds anything.
LEMMA HeadMoved ==
    ASSUME QueueOrdered, place \in [Caller -> Place], NEW c \in Caller, Heads(c), NEW p,
           place' = [place EXCEPT ![c] = p]
    PROVE  /\ place'[c] = p
           /\ \A d \in Caller \ {c} : place'[d] = place[d] /\ place[d] \notin AtHead
           /\ p \in {"publish", "attach"} => Replaced' = {held'.old}
           /\ p \notin {"publish", "attach"} => Replaced' = {}
<1>1. \A d \in Caller \ {c} : place[d] \notin AtHead
  BY HeadIs
<1>2. place'[c] = p /\ \A d \in Caller \ {c} : place'[d] = place[d]
  OBVIOUS
<1> QED BY <1>1, <1>2 DEF Replaced, AtHead

\* A head without a runner in its hands is alone with the published one.
LEMMA HeadIsFree ==
    ASSUME LifecycleInv, NEW c \in Caller, Heads(c), place[c] \in {"queued", "released"}
    PROVE  /\ Replaced = {} /\ Building = {}
           /\ activity = Sources(current, retired)
           /\ host # Nothing => host = current /\ tools = {current}
           /\ Up = (retired \cup {current}) \ {Nothing}
           /\ place[c] = "released" => current # Nothing
<1>1. \A d \in Caller : place[d] \notin {"first", "build", "publish", "attach"}
  BY HeadIs DEF LifecycleInv, AtHead
<1>2. Replaced = {}
  BY <1>1, ReplacedIs
<1> QED BY <1>1, <1>2 DEF LifecycleInv, OneIsBuilt, SourcesFollow, HostIsPlaced, NoRunnerIsLost, FirstIsFirst, Replacing

\* Numbers are no stand-in for nothing.
LEMMA RunnersAreSomething ==
    /\ Nothing \notin RunnerId /\ RunnerId \in SUBSET Nat /\ IsFiniteSet(RunnerId)
    /\ \A rs \in SUBSET RunnerId : IsFiniteSet(rs) /\ Cardinality(rs) \in Nat
<1>1. MaxRunners \in Nat /\ Nothing \notin Nat
  BY LifecycleConstants DEF LifecycleAssumption, LifecycleBounds
<1>2. IsFiniteSet(RunnerId)
  BY <1>1, FS_Interval DEF RunnerId
<1>3. RunnerId \in SUBSET Nat
  BY <1>1 DEF RunnerId
<1> QED BY <1>1, <1>2, <1>3, FS_Subset, FS_CardinalityType

\* What is built of an accepted revision.
LEMMA BuiltIs ==
    ASSUME LifecycleTypeOK, NEW revision \in Revision
    PROVE  Built(revision) \in Runner /\ Built(revision).state = "building"
           /\ Built(revision).token = revision.token /\ Built(revision).content = revision.content
BY DEF Built, LifecycleTypeOK, Revision, Runner, Token

\* The boot is among the callers; nothing is built before it.
LEMMA NothingYet ==
    ASSUME LifecycleInv, current = Nothing
    PROVE  /\ retired = {} /\ host = Nothing /\ Replaced = {} /\ Up = {} /\ Busy = {} /\ router = Nothing
           /\ \A c \in Caller : place[c] \notin Replacing
           /\ place["boot"] \in {"new", "failed", "first"} /\ "boot" \in Caller
<1>1. /\ retired = {} /\ host = Nothing /\ router = Nothing
      /\ \A c \in Caller : place[c] \notin Replacing
      /\ place["boot"] \in {"new", "failed", "first"} /\ "boot" \in Caller
  BY LifecycleConstants DEF LifecycleInv, FirstIsFirst, LifecycleAssumption
<1>2. Replaced = {}
  BY <1>1, ReplacedIs DEF Replacing
<1> QED BY <1>1, <1>2 DEF LifecycleInv, NoRunnerIsLost

LEMMA StartBootKeeps == ASSUME LifecycleInv, ~Deciding, StartBoot PROVE LifecycleInv'
<1> DEFINE r == AnyOf(Fresh)
<1>1. r \in RunnerId /\ runner[r].state = "none"
  BY AnyOfIs DEF StartBoot, Fresh
<1>2. current = Nothing /\ "boot" \in Caller
  BY LifecycleConstants DEF LifecycleInv, FirstIsFirst, StartBoot, LifecycleAssumption
<1>3. /\ retired = {} /\ host = Nothing /\ Replaced = {} /\ Up = {} /\ Busy = {}
      /\ \A c \in Caller : place[c] \notin Replacing
  BY <1>2, NothingYet
<1>4. builds = << >>
  <2>1. SUFFICES ASSUME builds # << >> PROVE FALSE
    OBVIOUS
  <2>2. Head(builds) \in Caller
    BY <2>1, HeadTailProperties DEF LifecycleInv, LifecycleTypeOK
  <2>3. place[Head(builds)] \in InQueue
    BY <2>1, <2>2, HeadIs DEF Heads, LifecycleInv
  <2>4. place[Head(builds)] # "first"
    BY <2>2 DEF LifecycleInv, CallersTyped, StartBoot
  <2> QED BY <1>3, <2>1, <2>2, <2>3, <2>4 DEF Deciding, InQueue, Replacing
<1>5. slot' \in Revision /\ slot.token \in Nat
  <2>1. slot \in Revision /\ slot.content \in Content
    BY DEF LifecycleInv, LifecycleTypeOK, Revision
  <2>2. Accept(slot.content) \in Revision /\ slot.token \in Nat
    BY <2>1, AcceptIs DEF LifecycleInv
  <2> QED BY <2>1, <2>2 DEF StartBoot
<1>6. Building = {}
  <2>1. \A c \in Caller : place[c] \notin {"first", "build"}
    BY <1>3 DEF LifecycleInv, CallersTyped, StartBoot, Replacing
  <2> QED BY <2>1 DEF LifecycleInv, OneIsBuilt
<1>7. /\ Built(slot') \in Runner /\ Built(slot').state = "building"
      /\ Built(slot').token = slot'.token /\ Built(slot').content = slot'.content
  BY <1>5, BuiltIs DEF LifecycleInv
<1>8. /\ runner' \in [RunnerId -> Runner] /\ runner'[r] = Built(slot')
      /\ Up' = {} /\ Building' = {r}
  BY <1>1, <1>3, <1>6, <1>7, RunnerChanges DEF StartBoot, LifecycleInv, LifecycleTypeOK
<1>9. place'["boot"] = "first" /\ \A d \in Caller \ {"boot"} : place'[d] = place[d]
  BY <1>2 DEF StartBoot, GoTo, LifecycleInv, LifecycleTypeOK
<1> HIDE DEF r
<1>10. LifecycleTypeOK'
  <2>1. builds' \in Seq(Caller)
    BY <1>2, AppendProperties DEF StartBoot, LifecycleInv, LifecycleTypeOK
  <2> QED BY <1>2, <1>5, <1>8, <2>1 DEF StartBoot, GoTo, LifecycleInv, LifecycleTypeOK, Place, plugins
<1>11. QueueOrdered'
  BY <1>2, <1>4, Enters DEF StartBoot, GoTo, LifecycleInv, LifecycleTypeOK, InQueue, AtHead
<1>12. CallersTyped' /\ FirstIsFirst'
  BY <1>2, <1>3, <1>9 DEF LifecycleInv, CallersTyped, FirstIsFirst, StartBoot, Replacing, plugins
<1>13. OneIsBuilt'
  <2>1. \A c \in Caller : place'[c] \in {"first", "build"} => c = "boot" /\ place'[c] = "first"
    BY <1>3, <1>9 DEF LifecycleInv, CallersTyped, Replacing
  <2>2. runner'[r].token # 0 /\ runner'[r].token <= slot'.token /\ runner'[r].content = slot'.content
    BY <1>5, <1>7, <1>8 DEF Revision, Token
  <2> QED BY <1>1, <1>2, <1>8, <1>9, <2>1, <2>2 DEF OneIsBuilt
<1>14. Replaced' = {}
  BY <1>3, <1>9 DEF Replaced, Replacing
<1>15. NoRunnerIsLost'
  BY <1>2, <1>3, <1>8, <1>14 DEF NoRunnerIsLost, StartBoot, Busy
<1>16. ReplacedIsApart' /\ SourcesFollow'
  BY <1>3, <1>9, <1>14 DEF LifecycleInv, ReplacedIsApart, SourcesFollow, Sources, StartBoot, Replacing
<1>17. HostIsPlaced' /\ RequestsHaveRunner'
  BY <1>3 DEF HostIsPlaced, RequestsHaveRunner, LifecycleInv, StartBoot, plugins
<1> QED BY <1>10, <1>11, <1>12, <1>13, <1>15, <1>16, <1>17 DEF LifecycleInv

\* Whoever builds has one runner being built.
LEMMA TheBuilding ==
    ASSUME LifecycleInv, NEW c \in Caller, place[c] \in {"first", "build"}
    PROVE  /\ AnyOf(Building) \in RunnerId /\ Building = {AnyOf(Building)} /\ AnyOf(Building) \notin Up
           /\ runner[AnyOf(Building)].token \in Token /\ runner[AnyOf(Building)].token <= slot.token
           /\ runner[AnyOf(Building)].token = slot.token => runner[AnyOf(Building)].content = slot.content
           /\ place[c] = "build" =>
                 /\ runner[AnyOf(Building)].token = held.config.token
                 /\ runner[AnyOf(Building)].content = held.config.content
<1>1. PICK r \in RunnerId :
        /\ Building = {r}
        /\ runner[r].token # 0 /\ runner[r].token <= slot.token /\ (runner[r].token = slot.token => runner[r].content = slot.content)
        /\ place[c] = "build" => runner[r].token = held.config.token /\ runner[r].content = held.config.content
  BY DEF LifecycleInv, OneIsBuilt
<1>2. AnyOf(Building) = r
  BY <1>1, AnyOfIs
<1>3. r \notin Up
  BY <1>1 DEF Up, Building
<1>4. runner[r] \in Runner
  BY DEF LifecycleInv, LifecycleTypeOK
<1>5. runner[r].token \in Token
  BY <1>1, <1>4 DEF Runner
<1> QED BY <1>1, <1>2, <1>3, <1>5

LEMMA FirstFailsKeeps == ASSUME LifecycleInv, FirstFails PROVE LifecycleInv'
<1> DEFINE r == AnyOf(Building)
<1>1. "boot" \in Caller /\ place["boot"] = "first" /\ current = Nothing /\ Heads("boot")
  BY LifecycleConstants DEF LifecycleInv, FirstIsFirst, FirstFails, LifecycleAssumption
<1>2. /\ retired = {} /\ host = Nothing /\ Replaced = {} /\ Up = {} /\ Busy = {}
      /\ \A c \in Caller : place[c] \notin Replacing
  BY <1>1, NothingYet
<1>3. r \in RunnerId /\ Building = {r}
  BY <1>1, TheBuilding
<1>4. runner' = [runner EXCEPT ![r].state = "failed"]
  BY DEF FirstFails, Gone
<1> HIDE DEF r
<1>5. runner' \in [RunnerId -> Runner] /\ Up' = {} /\ Building' = {}
  BY <1>2, <1>3, <1>4, StateChanges DEF LifecycleInv, LifecycleTypeOK
<1>6. place' = [place EXCEPT !["boot"] = "failed"] /\ builds' = Tail(builds)
  BY DEF FirstFails, GoTo, Advance
<1>7. /\ place'["boot"] = "failed"
      /\ \A d \in Caller \ {"boot"} : place'[d] = place[d] /\ place[d] \notin AtHead
      /\ Replaced' = {}
  BY <1>1, <1>6, HeadMoved DEF LifecycleInv, LifecycleTypeOK
<1>8. LifecycleTypeOK'
  <2>1. builds' \in Seq(Caller)
    BY <1>1, <1>6, HeadTailProperties DEF Heads, LifecycleInv, LifecycleTypeOK
  <2>2. buildFaults' \in 0 .. MaxBuildFaults
    BY LifecycleConstants DEF FirstFails, LifecycleInv, LifecycleTypeOK, LifecycleBounds
  <2> QED BY <1>1, <1>5, <1>6, <2>1, <2>2 DEF FirstFails, LifecycleInv, LifecycleTypeOK, Place, plugins, config
<1>9. QueueOrdered'
  BY <1>1, <1>6, Leaves DEF LifecycleInv, LifecycleTypeOK, InQueue, Place
<1>10. CallersTyped' /\ FirstIsFirst'
  BY <1>1, <1>2, <1>7 DEF LifecycleInv, CallersTyped, FirstIsFirst, FirstFails, Replacing, plugins
<1>11. OneIsBuilt'
  <2>1. \A d \in Caller : place'[d] \notin {"first", "build"}
    BY <1>7 DEF AtHead
  <2> QED BY <1>5, <2>1 DEF OneIsBuilt
<1>12. NoRunnerIsLost'
  BY <1>1, <1>2, <1>5, <1>7 DEF NoRunnerIsLost, FirstFails, Busy
<1>13. ReplacedIsApart' /\ SourcesFollow'
  BY <1>1, <1>2, <1>7 DEF LifecycleInv, ReplacedIsApart, SourcesFollow, Sources, FirstFails, AtHead
<1>14. HostIsPlaced' /\ RequestsHaveRunner'
  BY <1>2 DEF HostIsPlaced, RequestsHaveRunner, LifecycleInv, FirstFails, plugins
<1> QED BY <1>8, <1>9, <1>10, <1>11, <1>12, <1>13, <1>14 DEF LifecycleInv

LEMMA FirstBuiltKeeps == ASSUME LifecycleInv, FirstBuilt PROVE LifecycleInv'
<1> DEFINE r == AnyOf(Building)
<1>1. "boot" \in Caller /\ place["boot"] = "first" /\ current = Nothing /\ Heads("boot")
  BY LifecycleConstants DEF LifecycleInv, FirstIsFirst, FirstBuilt, LifecycleAssumption
<1>2. /\ retired = {} /\ host = Nothing /\ Replaced = {} /\ Up = {} /\ Busy = {}
      /\ \A c \in Caller : place[c] \notin Replacing
  BY <1>1, NothingYet
<1>3. r \in RunnerId /\ Building = {r} /\ r # Nothing /\ runner[r].token \in Token
  BY <1>1, TheBuilding, RunnersAreSomething
<1>4. /\ runner' = [runner EXCEPT ![r].state = "up"]
      /\ current' = r /\ router' = r /\ loading' = r /\ lastBuilt' = runner[r].token /\ activity' = {r}
      /\ UNCHANGED <<config, retired, host, tools, asked, result, notApplied, held, stream, buildFaults>>
  BY DEF FirstBuilt
<1>5. \/ GoTo("boot", "queued") /\ builds' = Append(Tail(builds), "boot")
      \/ GoTo("boot", "idle") /\ builds' = Tail(builds)
  BY DEF FirstBuilt
<1>6. PICK p \in {"queued", "idle"} :
        /\ place' = [place EXCEPT !["boot"] = p]
        /\ p = "queued" => builds' = Append(Tail(builds), "boot")
        /\ p = "idle" => builds' = Tail(builds)
  BY <1>5 DEF GoTo
<1> HIDE DEF r
<1>7. /\ runner' \in [RunnerId -> Runner] /\ Up' = {r} /\ Building' = {}
  BY <1>2, <1>3, <1>4, StateChanges DEF LifecycleInv, LifecycleTypeOK
<1>8. /\ place'["boot"] = p
      /\ \A d \in Caller \ {"boot"} : place'[d] = place[d] /\ place[d] \notin AtHead
      /\ Replaced' = {}
  BY <1>1, <1>6, HeadMoved DEF LifecycleInv, LifecycleTypeOK
<1>9. LifecycleTypeOK'
  <2>1. Tail(builds) \in Seq(Caller)
    BY <1>1, HeadTailProperties DEF Heads, LifecycleInv, LifecycleTypeOK
  <2>2. builds' \in Seq(Caller)
    BY <1>1, <1>6, <2>1, AppendProperties
  <2>3. place' \in [Caller -> Place]
    BY <1>6 DEF LifecycleInv, LifecycleTypeOK, Place
  <2> QED BY <1>2, <1>3, <1>4, <1>7, <2>2, <2>3 DEF LifecycleInv, LifecycleTypeOK, config
<1>10. QueueOrdered'
  <2>1. CASE p = "queued"
    BY <1>1, <1>6, <2>1, ComesAgain DEF LifecycleInv, LifecycleTypeOK
  <2>2. CASE p = "idle"
    BY <1>1, <1>6, <2>2, Leaves DEF LifecycleInv, LifecycleTypeOK, InQueue, Place
  <2> QED BY <2>1, <2>2
<1>11. CallersTyped' /\ FirstIsFirst'
  BY <1>1, <1>2, <1>3, <1>4, <1>8 DEF LifecycleInv, CallersTyped, FirstIsFirst, Replacing
<1>12. OneIsBuilt'
  <2>1. \A d \in Caller : place'[d] \notin {"first", "build"}
    BY <1>8 DEF AtHead
  <2> QED BY <1>7, <2>1 DEF OneIsBuilt
<1>13. NoRunnerIsLost'
  <2>1. Busy' = {}
    BY <1>2, <1>4 DEF Busy
  <2> QED BY <1>2, <1>3, <1>4, <1>7, <1>8, <2>1 DEF NoRunnerIsLost
<1>14. ReplacedIsApart' /\ SourcesFollow'
  <2>1. \A d \in Caller : place'[d] \notin {"build", "publish", "attach"}
    BY <1>8 DEF AtHead
  <2> QED BY <1>2, <1>3, <1>4, <1>8, <2>1 DEF ReplacedIsApart, SourcesFollow, Sources
<1>15. HostIsPlaced' /\ RequestsHaveRunner'
  BY <1>2, <1>4 DEF HostIsPlaced, RequestsHaveRunner, LifecycleInv
<1> QED BY <1>9, <1>10, <1>11, <1>12, <1>13, <1>14, <1>15 DEF LifecycleInv
LEMMA ReleaseKeeps == ASSUME LifecycleInv, NEW c \in Caller, Release(c) PROVE LifecycleInv'
<1>1. /\ Heads(c) /\ place[c] = "queued" /\ current # Nothing
      /\ retired' = retired \ IdleRetired /\ runner' = Shut(IdleRetired)
      /\ activity' = Sources(current, retired') /\ held' = [config |-> slot, old |-> Nothing]
      /\ place' = [place EXCEPT ![c] = "released"]
      /\ UNCHANGED <<slot, served, key, saves, current, lastBuilt, router, host, tools, loading, builds, asked,
                     result, notApplied, stream, buildFaults>>
  BY DEF Release, Outdated, GoTo, config, plugins
<1>2. /\ Replaced = {} /\ Building = {} /\ activity = Sources(current, retired)
      /\ host # Nothing => host = current /\ tools = {current}
      /\ Up = (retired \cup {current}) \ {Nothing}
  BY <1>1, HeadIsFree
<1>3. IdleRetired \in SUBSET RunnerId /\ IdleRetired \cap Busy = {} /\ current \in RunnerId /\ current \notin retired
  BY <1>1 DEF IdleRetired, LifecycleInv, LifecycleTypeOK, ReplacedIsApart
<1>4. /\ runner' \in [RunnerId -> Runner] /\ Up' = Up \ IdleRetired /\ Building' = {}
  BY <1>1, <1>2, <1>3, ShutIs DEF LifecycleInv, LifecycleTypeOK
<1>5. /\ place'[c] = "released"
      /\ \A d \in Caller \ {c} : place'[d] = place[d] /\ place[d] \notin AtHead
      /\ Replaced' = {}
  BY <1>1, HeadMoved DEF LifecycleInv, LifecycleTypeOK
<1>6. retired' \subseteq retired /\ Cardinality(retired') <= MaxRetired
  <2>1. retired \in SUBSET RunnerId /\ retired' \subseteq retired /\ Cardinality(retired) <= MaxRetired
    BY <1>1 DEF LifecycleInv, LifecycleTypeOK
  <2>2. /\ IsFiniteSet(retired) /\ Cardinality(retired) \in Nat
        /\ Cardinality(retired') \in Nat /\ Cardinality(retired') <= Cardinality(retired)
    BY <2>1, RunnersAreSomething, FS_Subset
  <2>3. MaxRetired \in Nat
    BY LifecycleConstants DEF LifecycleBounds
  <2> QED BY <2>1, <2>2, <2>3
<1>7. LifecycleTypeOK'
  <2>1. retired' \subseteq RunnerId /\ activity' \subseteq RunnerId
    BY <1>1, <1>3, <1>6 DEF LifecycleInv, LifecycleTypeOK, Sources
  <2>2. held' \in [config : Revision, old : RunnerId \cup {Nothing}]
    BY <1>1 DEF LifecycleInv, LifecycleTypeOK
  <2> QED BY <1>1, <1>4, <1>6, <2>1, <2>2 DEF LifecycleInv, LifecycleTypeOK, Place
<1>8. QueueOrdered'
  BY <1>1, MovesOn DEF LifecycleInv, LifecycleTypeOK, InQueue
<1>9. CallersTyped' /\ FirstIsFirst'
  BY <1>1, <1>5 DEF LifecycleInv, CallersTyped, FirstIsFirst
<1>10. OneIsBuilt'
  <2>1. \A d \in Caller : place'[d] \notin {"first", "build"}
    BY <1>5 DEF AtHead
  <2> QED BY <1>4, <2>1 DEF OneIsBuilt
<1>11. NoRunnerIsLost'
  <2>1. Busy' = Busy /\ Busy \subseteq Up
    BY <1>1 DEF Busy, LifecycleInv, NoRunnerIsLost
  <2>2. current \notin IdleRetired /\ Nothing \notin retired /\ current # Nothing
    BY <1>1, <1>3, RunnersAreSomething DEF IdleRetired, LifecycleInv, LifecycleTypeOK
  <2>3. Up' = (retired' \cup Replaced' \cup {current'}) \ {Nothing}
    BY <1>1, <1>2, <1>4, <1>5, <2>2
  <2>4. Busy' \subseteq Up'
    BY <1>3, <1>4, <2>1
  <2> QED BY <2>3, <2>4 DEF NoRunnerIsLost
<1>12. ReplacedIsApart' /\ SourcesFollow'
  <2>1. \A d \in Caller : place'[d] \notin {"build", "publish", "attach"}
    BY <1>5 DEF AtHead
  <2> QED BY <1>1, <1>3, <1>5, <2>1 DEF ReplacedIsApart, SourcesFollow, Sources
<1>13. HostIsPlaced' /\ RequestsHaveRunner'
  BY <1>1, <1>2 DEF HostIsPlaced, RequestsHaveRunner, LifecycleInv
<1> QED BY <1>7, <1>8, <1>9, <1>10, <1>11, <1>12, <1>13 DEF LifecycleInv

LEMMA BeginsKeeps ==
    ASSUME LifecycleInv, NEW c \in Caller, Heads(c), place[c] \in {"queued", "released"}, current # Nothing,
           NEW read \in Revision, Begins(c, read)
    PROVE  LifecycleInv'
<1> DEFINE r == AnyOf(Fresh)
<1>1. /\ Room /\ slot' = Accept(read.content)
      /\ runner' = [runner EXCEPT ![r] = Built(slot')]
      /\ held' = [config |-> slot', old |-> current]
      /\ place' = [place EXCEPT ![c] = "build"]
      /\ UNCHANGED <<served, key, saves, current, lastBuilt, retired, activity, router, host, tools, loading, builds,
                     asked, result, notApplied, stream, buildFaults>>
  BY DEF Begins, GoTo, plugins
<1>2. r \in RunnerId /\ runner[r].state = "none"
  BY AnyOfIs DEF Begins, Fresh
<1> HIDE DEF r
<1>3. /\ Replaced = {} /\ Building = {} /\ activity = Sources(current, retired)
      /\ host # Nothing => host = current /\ tools = {current}
      /\ Up = (retired \cup {current}) \ {Nothing}
  BY HeadIsFree
<1>4. slot' \in Revision /\ slot.token \in Nat /\ slot'.token \in Nat \ {0}
  <2>1. read.content \in Content
    BY DEF Revision
  <2>2. slot' \in Revision /\ slot.token \in Nat /\ slot'.token = slot.token + 1
    BY <1>1, <2>1, AcceptIs DEF LifecycleInv
  <2> QED BY <2>2
<1>5. /\ Built(slot') \in Runner /\ Built(slot').state = "building"
      /\ Built(slot').token = slot'.token /\ Built(slot').content = slot'.content
  BY <1>4, BuiltIs DEF LifecycleInv
<1>6. /\ runner' \in [RunnerId -> Runner] /\ runner'[r] = Built(slot')
      /\ Up' = Up /\ Building' = {r}
  <2>1. r \notin Up
    BY <1>2 DEF Up
  <2>2. /\ runner' \in [RunnerId -> Runner] /\ runner'[r] = Built(slot')
        /\ Up' = Up \ {r} /\ Building' = Building \cup {r}
    BY <1>1, <1>2, <1>5, RunnerChanges DEF LifecycleInv, LifecycleTypeOK
  <2> QED BY <1>3, <2>1, <2>2
<1>7. /\ place'[c] = "build"
      /\ \A d \in Caller \ {c} : place'[d] = place[d] /\ place[d] \notin AtHead
      /\ Replaced' = {}
  BY <1>1, HeadMoved DEF LifecycleInv, LifecycleTypeOK
<1>8. held'.config = slot' /\ held'.old = current /\ current \in RunnerId
  BY <1>1 DEF LifecycleInv, LifecycleTypeOK
<1>9. LifecycleTypeOK'
  <2>1. held' \in [config : Revision, old : RunnerId \cup {Nothing}]
    BY <1>1, <1>4, <1>8
  <2> QED BY <1>1, <1>4, <1>6, <2>1 DEF LifecycleInv, LifecycleTypeOK, Place
<1>10. QueueOrdered'
  BY <1>1, MovesOn DEF LifecycleInv, LifecycleTypeOK, InQueue
<1>11. CallersTyped' /\ FirstIsFirst'
  BY <1>1, <1>7 DEF LifecycleInv, CallersTyped, FirstIsFirst
<1>12. OneIsBuilt'
  <2>1. \A d \in Caller : place'[d] \in {"first", "build"} => d = c /\ place'[d] = "build"
    BY <1>7 DEF AtHead
  <2>2. /\ runner'[r].token # 0 /\ runner'[r].token <= slot'.token
        /\ runner'[r].token = held'.config.token /\ runner'[r].content = held'.config.content
        /\ runner'[r].content = slot'.content
    BY <1>4, <1>5, <1>6, <1>8
  <2> QED BY <1>2, <1>6, <1>7, <2>1, <2>2 DEF OneIsBuilt
<1>13. NoRunnerIsLost'
  <2>1. Busy' = Busy /\ Busy \subseteq Up
    BY <1>1 DEF Busy, LifecycleInv, NoRunnerIsLost
  <2> QED BY <1>1, <1>3, <1>6, <1>7, <2>1 DEF NoRunnerIsLost
<1>14. ReplacedIsApart' /\ SourcesFollow'
  <2>1. \A d \in Caller : place'[d] \in {"build", "publish", "attach"} => d = c /\ place'[d] = "build"
    BY <1>7 DEF AtHead
  <2>2. current \notin retired /\ Cardinality(retired) < MaxRetired
    BY <1>1 DEF LifecycleInv, ReplacedIsApart, Room
  <2> QED BY <1>1, <1>3, <1>7, <1>8, <2>1, <2>2 DEF LifecycleInv, ReplacedIsApart, SourcesFollow, Sources
<1>15. HostIsPlaced' /\ RequestsHaveRunner'
  BY <1>1, <1>3 DEF HostIsPlaced, RequestsHaveRunner, LifecycleInv
<1> QED BY <1>9, <1>10, <1>11, <1>12, <1>13, <1>14, <1>15 DEF LifecycleInv

LEMMA PrepareKeeps == ASSUME LifecycleInv, NEW c \in Caller, PrepareBuild(c) PROVE LifecycleInv'
<1>1. slot \in Revision /\ held.config \in Revision
  BY DEF LifecycleInv, LifecycleTypeOK
<1>2. CASE Outdated(c) /\ IdleRetired = {} /\ (Begins(c, slot) \/ RefuseBuild(c))
  BY <1>1, <1>2, BeginsKeeps, RefuseKeeps DEF Outdated
<1>3. CASE Heads(c) /\ place[c] = "released" /\ (Begins(c, held.config) \/ RefuseBuild(c))
  <2>1. current # Nothing
    BY <1>3, HeadIsFree
  <2> QED BY <1>1, <1>3, <2>1, BeginsKeeps, RefuseKeeps
<1> QED BY <1>2, <1>3 DEF PrepareBuild

LEMMA BuildFailsKeeps == ASSUME LifecycleInv, NEW c \in Caller, BuildFails(c) PROVE LifecycleInv'
<1> DEFINE r == AnyOf(Building)
<1>1. /\ Heads(c) /\ place[c] = "build"
      /\ buildFaults < MaxBuildFaults /\ buildFaults' = buildFaults + 1
      /\ runner' = [runner EXCEPT ![r].state = "failed"]
      /\ place' = [place EXCEPT ![c] = "idle"] /\ builds' = Tail(builds)
      /\ result' = [result EXCEPT ![c] = "error"] /\ notApplied' = Remembered(c, "error")
      /\ UNCHANGED <<slot, served, key, saves, current, lastBuilt, retired, activity, router, host, tools, loading,
                     asked, held, stream>>
  BY DEF BuildFails, Gone, Finish, Return, Advance, GoTo, Ended, config, plugins
<1>2. r \in RunnerId /\ Building = {r} /\ r \notin Up
  BY <1>1, TheBuilding
<1> HIDE DEF r
<1>3. runner' \in [RunnerId -> Runner] /\ Up' = Up /\ Building' = {}
  <2>1. runner' \in [RunnerId -> Runner] /\ Up' = Up \ {r} /\ Building' = Building \ {r}
    BY <1>1, <1>2, StateChanges DEF LifecycleInv, LifecycleTypeOK
  <2> QED BY <1>2, <2>1
<1>4. /\ place'[c] = "idle"
      /\ \A d \in Caller \ {c} : place'[d] = place[d] /\ place[d] \notin AtHead
      /\ Replaced' = {}
  BY <1>1, HeadMoved DEF LifecycleInv, LifecycleTypeOK
<1>5. \A d \in Caller : place[d] \notin {"publish", "attach"}
  BY <1>1, <1>4 DEF AtHead
<1>6. Replaced = {}
  BY <1>5, ReplacedIs
<1>7. LifecycleTypeOK'
  <2>1. builds' \in Seq(Caller)
    BY <1>1, HeadTailProperties DEF Heads, LifecycleInv, LifecycleTypeOK
  <2>2. buildFaults' \in 0 .. MaxBuildFaults
    BY <1>1, LifecycleConstants DEF LifecycleInv, LifecycleTypeOK, LifecycleBounds
  <2>3. notApplied' \in Content \cup {Nothing}
    BY <1>1 DEF LifecycleInv, LifecycleTypeOK, Remembered
  <2> QED BY <1>1, <1>3, <2>1, <2>2, <2>3 DEF LifecycleInv, LifecycleTypeOK, Place
<1>8. QueueOrdered'
  BY <1>1, Leaves DEF LifecycleInv, LifecycleTypeOK, InQueue, Place
<1>9. CallersTyped' /\ FirstIsFirst'
  <2>1. current # Nothing /\ place["boot"] \notin {"new", "failed", "first"}
    BY <1>1 DEF LifecycleInv, FirstIsFirst, Replacing
  <2> QED BY <1>1, <1>4, <2>1 DEF LifecycleInv, CallersTyped, FirstIsFirst
<1>10. OneIsBuilt'
  <2>1. \A d \in Caller : place'[d] \notin {"first", "build"}
    BY <1>4 DEF AtHead
  <2> QED BY <1>3, <2>1 DEF OneIsBuilt
<1>11. NoRunnerIsLost'
  BY <1>1, <1>3, <1>4, <1>6 DEF LifecycleInv, NoRunnerIsLost, Busy
<1>12. ReplacedIsApart' /\ SourcesFollow'
  <2>1. \A d \in Caller : place'[d] \notin {"build", "publish", "attach"}
    BY <1>4 DEF AtHead
  <2> QED BY <1>1, <1>4, <1>6, <2>1 DEF LifecycleInv, ReplacedIsApart, SourcesFollow, Sources
<1>13. HostIsPlaced' /\ RequestsHaveRunner'
  BY <1>1, <1>5 DEF HostIsPlaced, RequestsHaveRunner, LifecycleInv
<1> QED BY <1>7, <1>8, <1>9, <1>10, <1>11, <1>12, <1>13 DEF LifecycleInv

LEMMA PublishKeeps == ASSUME LifecycleInv, NEW c \in Caller, Publish(c) PROVE LifecycleInv'
<1> DEFINE r == AnyOf(Building)
<1>1. /\ Heads(c) /\ place[c] = "build"
      /\ runner' = [runner EXCEPT ![r].state = "up"] /\ current' = r /\ router' = r
      /\ lastBuilt' = held.config.token
      /\ place' = [place EXCEPT ![c] = "publish"]
      /\ UNCHANGED <<slot, served, key, saves, retired, activity, host, tools, loading, builds,
                     asked, result, notApplied, held, stream, buildFaults>>
  BY DEF Publish, GoTo, config, plugins
<1>2. r \in RunnerId /\ Building = {r} /\ r \notin Up /\ r # Nothing
  BY <1>1, TheBuilding, RunnersAreSomething
<1> HIDE DEF r
<1>3. runner' \in [RunnerId -> Runner] /\ Up' = Up \cup {r} /\ Building' = {}
  BY <1>1, <1>2, StateChanges DEF LifecycleInv, LifecycleTypeOK
<1>4. /\ place'[c] = "publish"
      /\ \A d \in Caller \ {c} : place'[d] = place[d] /\ place[d] \notin AtHead
      /\ Replaced' = {held.old}
  BY <1>1, HeadMoved DEF LifecycleInv, LifecycleTypeOK
<1>5. \A d \in Caller : place[d] \notin {"publish", "attach"}
  BY <1>1, <1>4 DEF AtHead
<1>6. Replaced = {} /\ held.old = current /\ current # Nothing /\ current \in RunnerId /\ current \notin retired
  BY <1>1, <1>5, ReplacedIs DEF LifecycleInv, ReplacedIsApart, FirstIsFirst, Replacing, LifecycleTypeOK
<1>7. Up = retired \cup {current} /\ r \notin retired /\ r # current
  BY <1>2, <1>6, RunnersAreSomething DEF LifecycleInv, NoRunnerIsLost, LifecycleTypeOK
<1>8. LifecycleTypeOK'
  <2>1. lastBuilt' \in Token
    BY <1>1 DEF LifecycleInv, LifecycleTypeOK, Revision
  <2> QED BY <1>1, <1>2, <1>3, <2>1 DEF LifecycleInv, LifecycleTypeOK, Place
<1>9. QueueOrdered'
  BY <1>1, MovesOn DEF LifecycleInv, LifecycleTypeOK, InQueue
<1>10. CallersTyped' /\ FirstIsFirst'
  <2>1. place["boot"] \notin {"new", "failed", "first"}
    BY <1>6 DEF LifecycleInv, FirstIsFirst
  <2> QED BY <1>1, <1>2, <1>4, <2>1 DEF LifecycleInv, CallersTyped, FirstIsFirst
<1>11. OneIsBuilt'
  <2>1. \A d \in Caller : place'[d] \notin {"first", "build"}
    BY <1>4 DEF AtHead
  <2> QED BY <1>3, <2>1 DEF OneIsBuilt
<1>12. NoRunnerIsLost'
  <2>1. Busy' = Busy /\ Busy \subseteq Up
    BY <1>1 DEF Busy, LifecycleInv, NoRunnerIsLost
  <2>2. Nothing \notin retired
    BY RunnersAreSomething DEF LifecycleInv, LifecycleTypeOK
  <2> QED BY <1>1, <1>2, <1>3, <1>4, <1>6, <1>7, <2>1, <2>2 DEF NoRunnerIsLost
<1>13. ReplacedIsApart' /\ SourcesFollow'
  <2>1. \A d \in Caller : place'[d] \in {"build", "publish", "attach"} => d = c /\ place'[d] = "publish"
    BY <1>4 DEF AtHead
  <2>2. Cardinality(retired) < MaxRetired
    BY <1>1 DEF LifecycleInv, ReplacedIsApart
  <2> QED BY <1>1, <1>4, <1>6, <1>7, <2>1, <2>2 DEF LifecycleInv, ReplacedIsApart, SourcesFollow
<1>14. HostIsPlaced' /\ RequestsHaveRunner'
  BY <1>1, <1>4 DEF HostIsPlaced, RequestsHaveRunner, LifecycleInv
<1> QED BY <1>8, <1>9, <1>10, <1>11, <1>12, <1>13, <1>14 DEF LifecycleInv

LEMMA AttachKeeps == ASSUME LifecycleInv, NEW c \in Caller, Attach(c) PROVE LifecycleInv'
<1>1. /\ Heads(c) /\ place[c] = "publish"
      /\ served' = held.config.token
      /\ place' = [place EXCEPT ![c] = "attach"]
      /\ \/ host = Nothing /\ host' = host /\ tools' = tools
         \/ host # Nothing /\ host' = current /\ tools' = {current}
      /\ UNCHANGED <<slot, key, saves, runner, current, lastBuilt, retired, activity, router, loading, builds,
                     asked, result, notApplied, held, stream, buildFaults>>
  BY DEF Attach, GoTo, runners
<1>2. /\ place'[c] = "attach"
      /\ \A d \in Caller \ {c} : place'[d] = place[d] /\ place[d] \notin AtHead
      /\ Replaced' = {held.old}
  BY <1>1, HeadMoved DEF LifecycleInv, LifecycleTypeOK
<1>3. Replaced = {held.old}
  BY <1>1, ReplacedIs
<1>4. current # Nothing /\ current \in RunnerId /\ UNCHANGED <<Up, Building, Busy>>
  BY <1>1 DEF LifecycleInv, FirstIsFirst, LifecycleTypeOK, Replacing, Up, Building, Busy
<1>5. LifecycleTypeOK'
  <2>1. served' \in Token
    BY <1>1 DEF LifecycleInv, LifecycleTypeOK, Revision
  <2> QED BY <1>1, <1>4, <2>1 DEF LifecycleInv, LifecycleTypeOK, Place
<1>6. QueueOrdered'
  BY <1>1, MovesOn DEF LifecycleInv, LifecycleTypeOK, InQueue
<1>7. CallersTyped' /\ FirstIsFirst'
  BY <1>1, <1>2, <1>4 DEF LifecycleInv, CallersTyped, FirstIsFirst
<1>8. OneIsBuilt'
  <2>1. \A d \in Caller : place'[d] \notin {"first", "build"} /\ place[d] \notin {"first", "build"}
    BY <1>1, <1>2 DEF AtHead
  <2> QED BY <1>4, <2>1 DEF LifecycleInv, OneIsBuilt
<1>9. NoRunnerIsLost' /\ ReplacedIsApart'
  BY <1>1, <1>2, <1>3, <1>4 DEF LifecycleInv, NoRunnerIsLost, ReplacedIsApart, AtHead
<1>10. SourcesFollow' /\ HostIsPlaced' /\ RequestsHaveRunner'
  BY <1>1, <1>2 DEF LifecycleInv, SourcesFollow, HostIsPlaced, RequestsHaveRunner
<1> QED BY <1>5, <1>6, <1>7, <1>8, <1>9, <1>10 DEF LifecycleInv

LEMMA RetireKeeps == ASSUME LifecycleInv, NEW c \in Caller, Retire(c) PROVE LifecycleInv'
<1>1. /\ Heads(c) /\ place[c] = "attach"
      /\ retired' = retired \cup {held.old} /\ activity' = Sources(current, retired')
      /\ place' = [place EXCEPT ![c] = "idle"] /\ builds' = Tail(builds)
      /\ result' = [result EXCEPT ![c] = "ok"] /\ notApplied' = Remembered(c, "ok")
      /\ UNCHANGED <<slot, served, key, saves, runner, current, lastBuilt, router, host, tools, loading,
                     asked, held, stream, buildFaults>>
  BY DEF Retire, Finish, Return, Advance, GoTo, Ended, config, plugins
<1>2. /\ place'[c] = "idle"
      /\ \A d \in Caller \ {c} : place'[d] = place[d] /\ place[d] \notin AtHead
      /\ Replaced' = {}
  BY <1>1, HeadMoved DEF LifecycleInv, LifecycleTypeOK
<1>3. Replaced = {held.old}
  BY <1>1, ReplacedIs
<1>4. current # Nothing /\ current \in RunnerId /\ UNCHANGED <<Up, Building, Busy>>
  BY <1>1 DEF LifecycleInv, FirstIsFirst, LifecycleTypeOK, Replacing, Up, Building, Busy
<1>5. /\ held.old \in RunnerId /\ held.old # current /\ held.old \notin retired
      /\ current \notin retired /\ Cardinality(retired) < MaxRetired
  BY <1>1 DEF LifecycleInv, ReplacedIsApart
<1>6. Cardinality(retired') <= MaxRetired
  <2>1. retired \in SUBSET RunnerId
    BY DEF LifecycleInv, LifecycleTypeOK
  <2>2. IsFiniteSet(retired) /\ Cardinality(retired) \in Nat /\ Cardinality(retired') = Cardinality(retired) + 1
    BY <1>1, <1>5, <2>1, RunnersAreSomething, FS_AddElement
  <2>3. MaxRetired \in Nat
    BY LifecycleConstants DEF LifecycleBounds
  <2> QED BY <1>5, <2>2, <2>3
<1>7. LifecycleTypeOK'
  <2>1. builds' \in Seq(Caller)
    BY <1>1, HeadTailProperties DEF Heads, LifecycleInv, LifecycleTypeOK
  <2>2. notApplied' \in Content \cup {Nothing}
    BY <1>1 DEF LifecycleInv, LifecycleTypeOK, Remembered
  <2>3. retired' \subseteq RunnerId /\ activity' \subseteq RunnerId
    BY <1>1, <1>4, <1>5 DEF LifecycleInv, LifecycleTypeOK, Sources
  <2> QED BY <1>1, <1>6, <2>1, <2>2, <2>3 DEF LifecycleInv, LifecycleTypeOK, Place
<1>8. QueueOrdered'
  BY <1>1, Leaves DEF LifecycleInv, LifecycleTypeOK, InQueue, Place
<1>9. CallersTyped' /\ FirstIsFirst'
  <2>1. place["boot"] \notin {"new", "failed", "first"}
    BY <1>4 DEF LifecycleInv, FirstIsFirst
  <2> QED BY <1>1, <1>2, <1>4, <2>1 DEF LifecycleInv, CallersTyped, FirstIsFirst
<1>10. OneIsBuilt'
  <2>1. \A d \in Caller : place'[d] \notin {"first", "build"} /\ place[d] \notin {"first", "build"}
    BY <1>1, <1>2 DEF AtHead
  <2> QED BY <1>4, <2>1 DEF LifecycleInv, OneIsBuilt
<1>11. NoRunnerIsLost'
  BY <1>1, <1>2, <1>3, <1>4 DEF LifecycleInv, NoRunnerIsLost
<1>12. ReplacedIsApart' /\ SourcesFollow'
  <2>1. \A d \in Caller : place'[d] \notin {"build", "publish", "attach"}
    BY <1>2 DEF AtHead
  <2> QED BY <1>1, <1>2, <1>5, <2>1 DEF ReplacedIsApart, SourcesFollow, Sources
<1>13. HostIsPlaced' /\ RequestsHaveRunner'
  <2>1. \A d \in Caller : place[d] # "publish"
    BY <1>1, <1>2 DEF AtHead
  <2> QED BY <1>1, <2>1 DEF HostIsPlaced, RequestsHaveRunner, LifecycleInv
<1> QED BY <1>7, <1>8, <1>9, <1>10, <1>11, <1>12, <1>13 DEF LifecycleInv

LEMMA InspectKeeps == ASSUME LifecycleInv, NEW r \in RunnerId, Inspect(r) PROVE LifecycleInv'
<1>1. /\ r \in retired /\ r \notin Busy
      /\ retired' = retired \ {r} /\ runner' = Shut({r}) /\ activity' = Sources(current, retired')
      /\ UNCHANGED <<slot, served, key, saves, current, lastBuilt, router, host, tools, loading, builds, place,
                     asked, result, notApplied, held, stream, buildFaults>>
  BY DEF Inspect, Drained, config, plugins, callers
<1>2. /\ runner' \in [RunnerId -> Runner] /\ Up' = Up \ {r} /\ Building' = Building \ {r}
      /\ \A q \in RunnerId \ {r} : runner'[q] = runner[q]
  <2>1. {r} \in SUBSET RunnerId
    OBVIOUS
  <2> QED BY <1>1, <2>1, ShutIs DEF LifecycleInv, LifecycleTypeOK
<1>3. r \in Up /\ r # current /\ UNCHANGED <<Replaced, Busy>> /\ r # Nothing
  BY <1>1, RunnersAreSomething DEF LifecycleInv, ReplacedIsApart, NoRunnerIsLost, Replaced, Busy
<1>4. r \notin Building /\ Building' = Building
  BY <1>2, <1>3 DEF Up, Building
<1>5. r \notin Replaced
  BY <1>1 DEF LifecycleInv, ReplacedIsApart, Replaced
<1>6. Cardinality(retired') <= Cardinality(retired) /\ Cardinality(retired) \in Nat /\ Cardinality(retired') \in Nat
  <2>1. retired \in SUBSET RunnerId /\ retired' \subseteq retired
    BY <1>1 DEF LifecycleInv, LifecycleTypeOK
  <2> QED BY <2>1, RunnersAreSomething, FS_Subset
<1>7. MaxRetired \in Nat
  BY LifecycleConstants DEF LifecycleBounds
<1>8. LifecycleTypeOK'
  <2>1. retired' \subseteq RunnerId /\ activity' \subseteq RunnerId
    BY <1>1 DEF LifecycleInv, LifecycleTypeOK, Sources
  <2>2. Cardinality(retired') <= MaxRetired
    BY <1>6, <1>7 DEF LifecycleInv, LifecycleTypeOK
  <2> QED BY <1>1, <1>2, <2>1, <2>2 DEF LifecycleInv, LifecycleTypeOK
<1>9. QueueOrdered' /\ CallersTyped' /\ FirstIsFirst'
  BY <1>1 DEF LifecycleInv, QueueOrdered, CallersTyped, FirstIsFirst
<1>10. OneIsBuilt'
  <2>1. (\A d \in Caller : place'[d] \notin {"first", "build"}) => Building' = {}
    BY <1>1, <1>4 DEF LifecycleInv, OneIsBuilt
  <2>2. ASSUME NEW d \in Caller, place'[d] \in {"first", "build"}
        PROVE  \E b \in RunnerId :
                 /\ Building' = {b}
                 /\ runner'[b].token # 0 /\ runner'[b].token <= slot'.token
                 /\ runner'[b].token = slot'.token => runner'[b].content = slot'.content
                 /\ place'[d] = "build" => runner'[b].token = held'.config.token /\ runner'[b].content = held'.config.content
    <3>1. PICK b \in RunnerId :
            /\ Building = {b}
            /\ runner[b].token # 0 /\ runner[b].token <= slot.token
            /\ runner[b].token = slot.token => runner[b].content = slot.content
            /\ place[d] = "build" => runner[b].token = held.config.token /\ runner[b].content = held.config.content
      BY <1>1, <2>2 DEF LifecycleInv, OneIsBuilt
    <3>2. runner'[b] = runner[b]
      BY <1>2, <1>4, <3>1
    <3> QED BY <1>1, <1>4, <3>1, <3>2
  <2> QED BY <2>1, <2>2 DEF OneIsBuilt
<1>11. NoRunnerIsLost'
  BY <1>1, <1>2, <1>3, <1>5 DEF LifecycleInv, NoRunnerIsLost
<1>12. ReplacedIsApart'
  BY <1>1, <1>6, <1>7 DEF LifecycleInv, ReplacedIsApart
<1>13. SourcesFollow' /\ HostIsPlaced' /\ RequestsHaveRunner'
  BY <1>1, <1>3 DEF LifecycleInv, SourcesFollow, Sources, HostIsPlaced, RequestsHaveRunner
<1> QED BY <1>8, <1>9, <1>10, <1>11, <1>12, <1>13 DEF LifecycleInv
-----------------------------------------------------------------------------
LEMMA LifecycleInitially == LifecycleInit => LifecycleInv
<1> SUFFICES ASSUME LifecycleInit PROVE LifecycleInv
  OBVIOUS
<1>1. PICK content \in Content : slot = [token |-> 1, content |-> content]
  BY DEF LifecycleInit
<1>2. slot \in Revision
  BY <1>1 DEF Revision, Token
<1>3. Up = {} /\ Building = {} /\ Busy = {}
  BY DEF LifecycleInit, Up, Building, Busy, NoRunner, Idle
<1>4. "boot" \in Caller /\ \A c \in Caller : place[c] = IF c = "boot" THEN "new" ELSE "idle"
  BY LifecycleConstants DEF LifecycleInit, LifecycleAssumption
<1>5. Replaced = {} /\ \A c \in Caller : place[c] \notin Replacing \cup InQueue \cup AtHead
  BY <1>4 DEF Replaced, Replacing, InQueue, AtHead
<1>6. LifecycleTypeOK
  <2>1. NoRunner \in Runner /\ Idle \in Request
    BY LifecycleConstants DEF NoRunner, Runner, Idle, Request, LifecycleBounds
  <2>2. runner \in [RunnerId -> Runner] /\ stream \in [Stream -> Request]
    BY <2>1 DEF LifecycleInit
  <2>3. /\ asked \in [content : Content \cup {Nothing}, rebuild : BOOLEAN]
        /\ held \in [config : Revision, old : RunnerId \cup {Nothing}]
    BY <1>2 DEF LifecycleInit
  <2>4. Cardinality(retired) <= MaxRetired /\ MaxRetired \in Nat
    BY LifecycleConstants, FS_EmptySet DEF LifecycleInit, LifecycleBounds
  <2>5. builds \in Seq(Caller) /\ served \in Token /\ key \in 0 .. MaxKeys /\ saves \in 0 .. MaxSaves
        /\ buildFaults \in 0 .. MaxBuildFaults
    BY LifecycleConstants DEF LifecycleInit, LifecycleBounds, Token
  <2> QED BY <1>2, <2>2, <2>3, <2>4, <2>5 DEF LifecycleInit, LifecycleTypeOK, Place
<1>7. QueueOrdered
  <2>1. builds = << >> /\ Len(builds) = 0
    BY EmptySeq DEF LifecycleInit
  <2> QED BY <1>5, <1>6, <2>1 DEF QueueOrdered, LifecycleTypeOK
<1>8. CallersTyped /\ FirstIsFirst
  BY <1>4, <1>5 DEF LifecycleInit, CallersTyped, FirstIsFirst
<1>9. OneIsBuilt /\ NoRunnerIsLost
  BY <1>3, <1>4, <1>5 DEF LifecycleInit, OneIsBuilt, NoRunnerIsLost
<1>10. ReplacedIsApart /\ SourcesFollow /\ HostIsPlaced /\ RequestsHaveRunner
  BY <1>4, <1>5 DEF LifecycleInit, ReplacedIsApart, SourcesFollow, Sources, HostIsPlaced, RequestsHaveRunner, Idle
<1> QED BY <1>6, <1>7, <1>8, <1>9, <1>10 DEF LifecycleInv

LEMMA LifecycleSteps == LifecycleInv /\ [LifecycleNext]_lifecycleVars => LifecycleInv'
<1> SUFFICES ASSUME LifecycleInv, [LifecycleNext]_lifecycleVars PROVE LifecycleInv'
  OBVIOUS
<1>1. CASE Deciding /\ \E c \in Caller : Decide(c)
  BY <1>1, SkipKeeps, ReleaseKeeps, PrepareKeeps DEF Decide
<1>2. CASE /\ ~Deciding
           /\ \/ StartBoot \/ FirstBuilt \/ FirstFails
              \/ (\E content \in Content : Save(content)) \/ PersistConfig \/ SaveKey
  BY <1>2, StartBootKeeps, FirstBuiltKeeps, FirstFailsKeeps, SaveKeeps, PersistKeeps, SaveKeyKeeps
<1>3. CASE \E c \in Caller : Build(c)
  BY <1>3, PrepareKeeps, BuildFailsKeeps, PublishKeeps, AttachKeeps, RetireKeeps DEF Build
<1>4. CASE LoadHost \/ (\E r \in RunnerId : Inspect(r)) \/ \E s \in Stream : OpenStream(s) \/ Run(s) \/ End(s)
  BY <1>4, LoadHostKeeps, InspectKeeps, RequestKeeps
<1>5. CASE UNCHANGED lifecycleVars
  <2>1. UNCHANGED <<Up, Building, Busy, Replaced>>
    BY <1>5 DEF lifecycleVars, config, runners, plugins, callers, Up, Building, Busy, Replaced
  <2>2. LifecycleTypeOK' /\ QueueOrdered' /\ CallersTyped' /\ FirstIsFirst'
    BY <1>5 DEF lifecycleVars, config, runners, plugins, callers,
                LifecycleInv, LifecycleTypeOK, QueueOrdered, CallersTyped, FirstIsFirst
  <2>3. OneIsBuilt' /\ NoRunnerIsLost' /\ ReplacedIsApart' /\ SourcesFollow' /\ HostIsPlaced' /\ RequestsHaveRunner'
    BY <1>5, <2>1 DEF lifecycleVars, config, runners, plugins, callers, LifecycleInv, OneIsBuilt, NoRunnerIsLost,
                      ReplacedIsApart, SourcesFollow, Sources, HostIsPlaced, RequestsHaveRunner
  <2> QED BY <2>2, <2>3 DEF LifecycleInv
<1> QED BY <1>1, <1>2, <1>3, <1>4, <1>5 DEF LifecycleNext

LEMMA RunnersAreKeptFollows == LifecycleInv => RunnersAreKept
<1> SUFFICES ASSUME LifecycleInv PROVE RunnersAreKept
  OBVIOUS
<1>1. RunsAreWatched
  BY DEF LifecycleInv, RunsAreWatched, NoRunnerIsLost, SourcesFollow, Sources
<1>2. HostFollows
  <2>1. AtRest => \A c \in Caller : place[c] # "publish"
    BY EmptyIdle DEF AtRest, LifecycleInv, InQueue
  <2> QED BY <2>1 DEF HostFollows, LifecycleInv, HostIsPlaced
<1> QED BY <1>1, <1>2 DEF RunnersAreKept, LifecycleInv

\* runner-lifecycle.ts: however builds, failures, key and configuration saves,
\* requests and the retirement timer interleave, every runner that is up is
\* published, retired or being replaced, runs go on only on those, their runs can
\* be seen and stopped, and the plugin host ends up with the published runner.
THEOREM RunnersKept == LifecycleSpec => []RunnersAreKept
<1>1. LifecycleSpec => []LifecycleInv
  BY LifecycleInitially, LifecycleSteps, PTL DEF LifecycleSpec
<1> QED BY <1>1, RunnersAreKeptFollows, PTL
-----------------------------------------------------------------------------
(* What was saved is in effect                                             *)

LEMMA TokensAre ==
    ASSUME LifecycleTypeOK
    PROVE  /\ slot.token \in Nat /\ slot.content \in Content /\ held.config.token \in Nat
           /\ lastBuilt # Nothing => lastBuilt \in Nat
BY DEF LifecycleTypeOK, Revision, Token

\* Before a key is saved only the boot and the save ask for builds.
LEMMA WhoIsHead ==
    ASSUME LifecycleInv, NoKeys, NEW c \in Caller, Heads(c)
    PROVE  c \in {"boot", "save"}
<1>1. place[c] \in InQueue
  BY HeadIs DEF LifecycleInv
<1> QED BY <1>1, LifecycleConstants DEF NoKeys, InQueue, LifecycleAssumption

LEMMA BootIsCaller == "boot" \in Caller /\ Caller \subseteq {"boot", "save", "key"}
BY LifecycleConstants DEF LifecycleAssumption

\* Nobody moves and the runners keep what they were built from.
LEMMA CalmKeepsSaves ==
    ASSUME LifecycleInv, SavesInv,
           UNCHANGED <<slot, key, current, lastBuilt, place, asked, result, notApplied, held>>,
           \A r \in RunnerId : runner'[r].content = runner[r].content,
           Building' \subseteq Building, retired' \subseteq retired
    PROVE  SavesInv'
<1>1. current # Nothing => current \in RunnerId
  BY DEF LifecycleInv, LifecycleTypeOK
<1>2. BuiltIsKnown' /\ HeldIsKnown'
  <2>1. BuiltIsKnown'
    BY <1>1 DEF SavesInv, BuiltIsKnown
  <2>2. ASSUME NEW c \in Caller, place[c] \in {"publish", "attach"} PROVE current # Nothing
    BY <2>2 DEF LifecycleInv, FirstIsFirst, Replacing
  <2>3. HeldIsKnown'
    BY <1>1, <2>2 DEF SavesInv, HeldIsKnown
  <2> QED BY <2>1, <2>3
<1>3. ASSUME key = 0 PROVE Keyless'
  <2>1. Keyless /\ SaveWaits' = SaveWaits
    BY <1>3 DEF SavesInv, SaveWaits
  <2>2. NoKeys' /\ SaveIsAccepted'
    BY <1>1, <2>1 DEF Keyless, NoKeys, SaveIsAccepted
  <2>3. BootIsFresh'
    <3>1. Building \subseteq RunnerId
      BY DEF Building
    <3>2. place["boot"] = "queued" /\ retired = {} => retired' = {}
      OBVIOUS
    <3> QED BY <2>1, <3>1, <3>2 DEF Keyless, BootIsFresh
  <2>4. Unapplied'
    BY <1>1, <2>1 DEF Keyless, Unapplied
  <2> QED BY <2>2, <2>3, <2>4 DEF Keyless
<1> QED BY <1>2, <1>3 DEF SavesInv

LEMMA ShutKeepsContents ==
    ASSUME LifecycleTypeOK, NEW rs \in SUBSET RunnerId, runner' = Shut(rs)
    PROVE  \A r \in RunnerId : runner'[r].content = runner[r].content
<1>1. ASSUME NEW r \in RunnerId, r \in rs PROVE runner'[r].content = runner[r].content
  <2>1. runner[r] \in Runner /\ runner'[r] = [runner[r] EXCEPT !.state = "down"]
    BY <1>1 DEF Shut, LifecycleTypeOK
  <2> QED BY <2>1 DEF Runner
<1> QED BY <1>1 DEF Shut

LEMMA InspectKeepsSaves == ASSUME LifecycleInv, SavesInv, NEW r \in RunnerId, Inspect(r) PROVE SavesInv'
<1>1. /\ runner' = Shut({r}) /\ retired' = retired \ {r}
      /\ UNCHANGED <<slot, key, current, lastBuilt, place, asked, result, notApplied, held>>
  BY DEF Inspect, config, callers
<1>2. /\ \A q \in RunnerId : runner'[q].content = runner[q].content
      /\ Building' \subseteq Building
  <2>1. {r} \in SUBSET RunnerId
    OBVIOUS
  <2> QED BY <1>1, <2>1, ShutIs, ShutKeepsContents DEF LifecycleInv, LifecycleTypeOK
<1> QED BY <1>1, <1>2, CalmKeepsSaves

LEMMA OthersKeepSaves ==
    ASSUME LifecycleInv, SavesInv, LoadHost \/ \E s \in Stream : OpenStream(s) \/ Run(s) \/ End(s)
    PROVE  SavesInv'
<1>1. UNCHANGED <<config, runners, callers>>
  BY DEF LoadHost, OpenStream, Run, End
<1>2. /\ UNCHANGED <<slot, key, current, lastBuilt, place, asked, result, notApplied, held, retired, runner>>
      /\ Building' = Building
  BY <1>1 DEF config, runners, callers, Building
<1> QED BY <1>2, CalmKeepsSaves

LEMMA SaveKeyKeepsSaves == ASSUME LifecycleInv, SavesInv, SaveKey PROVE SavesInv'
<1>1. /\ place' = [place EXCEPT !["key"] = "queued"] /\ key' = key + 1 /\ key \in Nat
      /\ UNCHANGED <<slot, current, lastBuilt, runner, held>>
  BY LifecycleConstants DEF SaveKey, Rebuild, GoTo, runners, LifecycleInv, LifecycleTypeOK, LifecycleBounds
<1>2. \A c \in Caller : place'[c] \in {"build", "publish", "attach"} => place'[c] = place[c]
  BY <1>1 DEF LifecycleInv, LifecycleTypeOK
<1>3. BuiltIsKnown' /\ HeldIsKnown'
  BY <1>1, <1>2 DEF SavesInv, BuiltIsKnown, HeldIsKnown
<1> QED BY <1>1, <1>3 DEF SavesInv

LEMMA SaveKeepsSaves == ASSUME LifecycleInv, SavesInv, NEW content \in Content, Save(content) PROVE SavesInv'
<1>1. /\ "save" \in Caller /\ place["save"] = "idle" /\ place' = [place EXCEPT !["save"] = "persist"]
      /\ result' = [result EXCEPT !["save"] = "none"]
      /\ asked' = [content |-> content, rebuild |-> NeedsRebuild(content)]
      /\ UNCHANGED <<slot, key, current, lastBuilt, runner, retired, held, notApplied>>
  BY DEF Save, GoTo, Ended, runners
<1>2. /\ place'["save"] = "persist" /\ \A c \in Caller \ {"save"} : place'[c] = place[c]
      /\ result'["save"] = "none" /\ place'["boot"] = place["boot"]
  BY <1>1, BootIsCaller DEF LifecycleInv, LifecycleTypeOK
<1>3. BuiltIsKnown' /\ HeldIsKnown'
  BY <1>1, <1>2 DEF SavesInv, BuiltIsKnown, HeldIsKnown
<1>4. ASSUME key = 0 PROVE Keyless'
  <2>1. Keyless /\ ~SaveWaits /\ ~SaveWaits' /\ Building' = Building
    BY <1>1, <1>2, <1>4 DEF SavesInv, SaveWaits, InQueue, Building
  <2>2. NoKeys' /\ SaveIsAccepted'
    BY <1>1, <1>2, <2>1 DEF Keyless, NoKeys, SaveIsAccepted, InQueue, Replacing, NeedsRebuild
  <2>3. BootIsFresh' /\ Unapplied'
    BY <1>1, <1>2, <2>1 DEF Keyless, BootIsFresh, Unapplied
  <2> QED BY <2>2, <2>3 DEF Keyless
<1> QED BY <1>1, <1>3, <1>4 DEF SavesInv

LEMMA PersistKeepsSaves == ASSUME LifecycleInv, SavesInv, ~Deciding, PersistConfig PROVE SavesInv'
<1>1. /\ "save" \in Caller /\ place["save"] = "persist" /\ asked.content \in Content
      /\ slot' = Accept(asked.content)
      /\ UNCHANGED <<key, current, lastBuilt, runner, retired, held, notApplied, asked>>
      /\ \/ asked.rebuild /\ place' = [place EXCEPT !["save"] = "queued"] /\ result' = result
         \/ ~asked.rebuild /\ place' = [place EXCEPT !["save"] = "idle"] /\ result' = [result EXCEPT !["save"] = "ok"]
  BY DEF PersistConfig, Rebuild, GoTo, Ended, runners, LifecycleInv, CallersTyped
<1>2. /\ place'["save"] = IF asked.rebuild THEN "queued" ELSE "idle"
      /\ \A c \in Caller \ {"save"} : place'[c] = place[c]
      /\ result'["save"] = IF asked.rebuild THEN result["save"] ELSE "ok"
      /\ place'["boot"] = place["boot"] /\ "boot" \in Caller
  BY <1>1, BootIsCaller DEF LifecycleInv, LifecycleTypeOK
<1>3. slot'.token = slot.token + 1 /\ slot'.content = asked.content /\ slot.token \in Nat
  BY <1>1, AcceptIs DEF LifecycleInv
<1>4. /\ held.config.token \in Nat /\ (lastBuilt # Nothing => lastBuilt \in Nat)
  BY TokensAre DEF LifecycleInv
<1>5. BuiltIsKnown' /\ HeldIsKnown'
  <2>1. BuiltIsKnown'
    BY <1>1, <1>3, <1>4 DEF SavesInv, BuiltIsKnown
  <2>2. HeldIsKnown'
    BY <1>1, <1>2, <1>3, <1>4 DEF SavesInv, HeldIsKnown
  <2> QED BY <2>1, <2>2
<1>6. ASSUME key = 0 PROVE Keyless'
  <2>1. Keyless /\ ~SaveWaits /\ Building' = Building /\ (SaveWaits' <=> asked.rebuild)
    BY <1>1, <1>2, <1>6 DEF SavesInv, SaveWaits, InQueue, Building
  <2>2. ~asked.rebuild => slot'.content = slot.content /\ asked.content # notApplied
    BY <1>1, <1>3, <2>1 DEF Keyless, SaveIsAccepted
  <2>3. ~asked.rebuild /\ current # Nothing => runner[current].content = slot.content
    <3>1. CASE place["boot"] \in {"publish", "attach"}
      BY <1>2, <2>1, <3>1 DEF Keyless, BootIsFresh, SavesInv, HeldIsKnown
    <3>2. CASE place["boot"] \notin {"publish", "attach"}
      BY <1>3, <2>1, <2>2, <3>2 DEF Keyless, Unapplied
    <3> QED BY <3>1, <3>2
  <2>4. result["save"] # "ok"
    BY <1>1, <2>1 DEF Keyless, SaveIsAccepted
  <2>5. NoKeys' /\ SaveIsAccepted'
    <3>1. NoKeys'
      BY <1>2, <2>1 DEF Keyless, NoKeys
    <3>2. SaveIsAccepted'
      BY <1>1, <1>2, <1>3, <2>2, <2>3, <2>4 DEF SaveIsAccepted, InQueue, Replacing
    <3> QED BY <3>1, <3>2
  \* a queued boot would be the head, and decide before the file is written
  <2>6. place["boot"] # "queued"
    <3>1. SUFFICES ASSUME place["boot"] = "queued" PROVE FALSE
      OBVIOUS
    <3>2. PICK i \in 1..Len(builds) : builds[i] = "boot"
      BY <1>2, <3>1 DEF LifecycleInv, QueueOrdered, InQueue
    <3>3. builds # << >> /\ builds \in Seq(Caller)
      BY <3>2, EmptySeq DEF LifecycleInv, LifecycleTypeOK
    <3>4. Head(builds) \in Caller /\ Heads(Head(builds))
      BY <3>3, HeadTailProperties DEF Heads
    <3>5. Head(builds) \in {"boot", "save"} /\ place[Head(builds)] \in InQueue
      BY <2>1, <3>4, WhoIsHead, HeadIs DEF Keyless, LifecycleInv
    <3>6. Head(builds) = "boot"
      BY <1>1, <3>5 DEF InQueue
    <3> QED BY <3>1, <3>3, <3>6 DEF Deciding
  <2>7. BootIsFresh'
    BY <1>1, <1>2, <2>1, <2>2, <2>6 DEF Keyless, BootIsFresh
  <2>8. Unapplied'
    BY <1>1, <1>2, <2>1, <2>2, <2>3 DEF Unapplied
  <2> QED BY <2>5, <2>7, <2>8 DEF Keyless
<1> QED BY <1>1, <1>5, <1>6 DEF SavesInv
LEMMA StartBootKeepsSaves == ASSUME LifecycleInv, SavesInv, StartBoot PROVE SavesInv'
<1> DEFINE r == AnyOf(Fresh)
<1>1. /\ current = Nothing /\ "boot" \in Caller /\ place["boot"] \in {"new", "failed"}
      /\ place' = [place EXCEPT !["boot"] = "first"]
      /\ runner' = [runner EXCEPT ![r] = Built(slot')]
      /\ slot' = Accept(slot.content) \/ slot' = slot
      /\ UNCHANGED <<key, current, retired, asked, result, notApplied, held>>
  BY BootIsCaller DEF StartBoot, GoTo, LifecycleInv, FirstIsFirst
<1>2. r \in RunnerId /\ runner[r].state = "none"
  BY AnyOfIs DEF StartBoot, Fresh
<1> HIDE DEF r
<1>3. slot' \in Revision /\ slot'.content = slot.content
  BY <1>1, TokensAre, AcceptIs DEF LifecycleInv, LifecycleTypeOK
<1>4. /\ place'["boot"] = "first" /\ \A c \in Caller \ {"boot"} : place'[c] = place[c]
      /\ \A c \in Caller : place'[c] \notin Replacing
  BY <1>1, NothingYet DEF LifecycleInv, LifecycleTypeOK, Replacing
<1>5. \A q \in Building' : runner'[q].content = slot'.content
  <2>1. Building = {}
    <3>1. \A c \in Caller : place[c] \notin {"first", "build"}
      BY <1>1, <1>4 DEF LifecycleInv, CallersTyped, Replacing
    <3> QED BY <3>1 DEF LifecycleInv, OneIsBuilt
  <2>2. /\ Built(slot') \in Runner /\ Built(slot').state = "building" /\ Built(slot').content = slot'.content
    BY <1>3, BuiltIs DEF LifecycleInv
  <2>3. Building' = {r} /\ runner'[r] = Built(slot')
    BY <1>1, <1>2, <2>1, <2>2, RunnerChanges DEF LifecycleInv, LifecycleTypeOK
  <2> QED BY <2>2, <2>3
<1>6. BuiltIsKnown' /\ HeldIsKnown'
  BY <1>1, <1>4 DEF BuiltIsKnown, HeldIsKnown, Replacing
<1>7. ASSUME key = 0 PROVE Keyless'
  <2>1. Keyless
    BY <1>7 DEF SavesInv
  <2>2. NoKeys'
    BY <1>4, <2>1 DEF Keyless, NoKeys
  <2>3. SaveIsAccepted'
    BY <1>1, <1>3, <1>4, <2>1 DEF Keyless, SaveIsAccepted
  <2>4. BootIsFresh' /\ Unapplied'
    BY <1>1, <1>4, <1>5 DEF BootIsFresh, Unapplied
  <2> QED BY <2>2, <2>3, <2>4 DEF Keyless
<1> QED BY <1>1, <1>6, <1>7 DEF SavesInv

LEMMA FirstFailsKeepsSaves == ASSUME LifecycleInv, SavesInv, FirstFails PROVE SavesInv'
<1>1. /\ current = Nothing /\ "boot" \in Caller /\ place["boot"] = "first"
      /\ place' = [place EXCEPT !["boot"] = "failed"]
      /\ UNCHANGED <<slot, key, current, asked, result, notApplied, held>>
  BY BootIsCaller DEF FirstFails, GoTo, LifecycleInv, FirstIsFirst, config
<1>2. /\ place'["boot"] = "failed" /\ \A c \in Caller \ {"boot"} : place'[c] = place[c]
      /\ \A c \in Caller : place'[c] \notin Replacing
  BY <1>1, NothingYet DEF LifecycleInv, LifecycleTypeOK, Replacing
<1>3. BuiltIsKnown' /\ HeldIsKnown'
  BY <1>1, <1>2 DEF BuiltIsKnown, HeldIsKnown, Replacing
<1>4. ASSUME key = 0 PROVE Keyless'
  <2>1. Keyless
    BY <1>4 DEF SavesInv
  <2>2. NoKeys' /\ SaveIsAccepted'
    BY <1>1, <1>2, <2>1 DEF Keyless, NoKeys, SaveIsAccepted
  <2>3. BootIsFresh' /\ Unapplied'
    BY <1>1, <1>2 DEF BootIsFresh, Unapplied
  <2> QED BY <2>2, <2>3 DEF Keyless
<1> QED BY <1>1, <1>3, <1>4 DEF SavesInv

LEMMA FirstBuiltKeepsSaves == ASSUME LifecycleInv, SavesInv, FirstBuilt PROVE SavesInv'
<1> DEFINE r == AnyOf(Building)
<1>1. /\ current = Nothing /\ "boot" \in Caller /\ place["boot"] = "first"
      /\ \/ place' = [place EXCEPT !["boot"] = "queued"]
         \/ place' = [place EXCEPT !["boot"] = "idle"]
      /\ runner' = [runner EXCEPT ![r].state = "up"] /\ current' = r /\ lastBuilt' = runner[r].token
      /\ UNCHANGED <<slot, key, retired, asked, result, notApplied, held>>
  BY BootIsCaller DEF FirstBuilt, GoTo, LifecycleInv, FirstIsFirst, config
<1>2. /\ r \in RunnerId /\ Building = {r} /\ runner[r].token \in Token /\ runner[r].token <= slot.token
      /\ runner[r].token = slot.token => runner[r].content = slot.content
  BY <1>1, TheBuilding
<1> HIDE DEF r
<1>3. runner'[r].content = runner[r].content
  BY <1>1, <1>2, StateChanges DEF LifecycleInv, LifecycleTypeOK
<1>4. /\ place'["boot"] \in {"queued", "idle"} /\ \A c \in Caller \ {"boot"} : place'[c] = place[c]
      /\ \A c \in Caller : place'[c] \notin Replacing
      /\ retired = {}
  BY <1>1, NothingYet DEF LifecycleInv, LifecycleTypeOK, Replacing
<1>5. lastBuilt' # Nothing
  BY <1>1, <1>2, LifecycleConstants DEF LifecycleAssumption, Token
<1>6. BuiltIsKnown' /\ HeldIsKnown'
  BY <1>1, <1>2, <1>3, <1>4, <1>5 DEF BuiltIsKnown, HeldIsKnown, Replacing
<1>7. ASSUME key = 0 PROVE Keyless'
  <2>1. Keyless /\ SaveWaits' = SaveWaits
    BY <1>4, <1>7 DEF SavesInv, SaveWaits
  <2>2. ~SaveWaits => runner'[r].content = slot.content
    BY <1>1, <1>2, <1>3, <2>1 DEF Keyless, BootIsFresh
  <2>3. result["save"] = "ok" /\ "save" \in Caller => ~SaveWaits
    BY <2>1 DEF Keyless, SaveIsAccepted, SaveWaits, InQueue
  <2>4. NoKeys' /\ SaveIsAccepted'
    BY <1>1, <1>4, <2>1, <2>2, <2>3 DEF Keyless, NoKeys, SaveIsAccepted
  <2>5. BootIsFresh' /\ Unapplied'
    BY <1>1, <1>4, <2>1, <2>2 DEF BootIsFresh, Unapplied
  <2> QED BY <2>4, <2>5 DEF Keyless
<1> QED BY <1>1, <1>6, <1>7 DEF SavesInv

\* The head leaves the queue without a runner of its own.
LEMMA LeavingKeepsSaves ==
    ASSUME LifecycleInv, SavesInv, NEW c \in Caller, Heads(c), NEW outcome \in {"ok", "error"},
           place' = [place EXCEPT ![c] = "idle"], result' = [result EXCEPT ![c] = outcome],
           notApplied' = Remembered(c, outcome),
           UNCHANGED <<slot, key, current, lastBuilt, retired, asked, held>>,
           \A q \in RunnerId : runner'[q].content = runner[q].content,
           place[c] \in {"queued", "released", "build"},
           outcome = "ok" => current # Nothing /\ UpToDate
    PROVE  SavesInv'
<1>1. /\ place'[c] = "idle" /\ \A d \in Caller \ {c} : place'[d] = place[d] /\ place[d] \notin AtHead
      /\ result'[c] = outcome /\ \A d \in Caller \ {c} : result'[d] = result[d]
  BY HeadMoved DEF LifecycleInv, LifecycleTypeOK
<1>2. current # Nothing => current \in RunnerId
  BY DEF LifecycleInv, LifecycleTypeOK
<1>3. \A d \in Caller : place'[d] \notin {"build", "publish", "attach"}
  BY <1>1 DEF AtHead
<1>4. BuiltIsKnown' /\ HeldIsKnown'
  BY <1>2, <1>3 DEF SavesInv, BuiltIsKnown, HeldIsKnown
<1>5. ASSUME key = 0 PROVE Keyless'
  <2>1. Keyless
    BY <1>5 DEF SavesInv
  <2>2. c \in {"boot", "save"} /\ "boot" \in Caller
    BY <2>1, WhoIsHead, BootIsCaller DEF Keyless
  <2>3. UpToDate /\ current # Nothing => runner[current].content = slot.content
    BY DEF SavesInv, BuiltIsKnown, UpToDate
  <2>4. NoKeys'
    BY <1>1, <2>1 DEF Keyless, NoKeys
  <2>5. SaveIsAccepted'
    <3>1. CASE c = "save"
      BY <1>1, <1>2, <2>1, <2>3, <3>1 DEF Keyless, SaveIsAccepted, InQueue, Replacing
    <3>2. CASE c # "save"
      BY <1>1, <1>2, <2>1, <3>2 DEF Keyless, SaveIsAccepted, Remembered
    <3> QED BY <3>1, <3>2
  <2>6. BootIsFresh'
    <3>1. CASE c = "save"
      BY <1>1, <2>1, <2>2, <3>1 DEF Keyless, BootIsFresh, AtHead, SaveWaits, InQueue
    <3>2. CASE c # "save"
      BY <1>1, <2>2, <3>2 DEF BootIsFresh
    <3> QED BY <3>1, <3>2
  <2>7. Unapplied'
    <3>1. CASE c = "save"
      BY <1>1, <1>2, <2>1, <2>3, <3>1 DEF Keyless, SaveIsAccepted, Unapplied, Remembered, InQueue
    <3>2. CASE c = "boot"
      BY <1>1, <1>2, <2>1, <3>2 DEF Keyless, Unapplied, Remembered, SaveWaits
    <3> QED BY <2>2, <3>1, <3>2
  <2> QED BY <2>4, <2>5, <2>6, <2>7 DEF Keyless
<1> QED BY <1>4, <1>5 DEF SavesInv

LEMMA SkipKeepsSaves == ASSUME LifecycleInv, SavesInv, NEW c \in Caller, Skip(c) PROVE SavesInv'
<1>1. /\ Heads(c) /\ place[c] = "queued" /\ place' = [place EXCEPT ![c] = "idle"]
      /\ UNCHANGED <<slot, key, current, lastBuilt, retired, asked, held, runner>>
      /\ \/ result' = [result EXCEPT ![c] = "error"] /\ notApplied' = Remembered(c, "error")
         \/ /\ result' = [result EXCEPT ![c] = "ok"] /\ notApplied' = Remembered(c, "ok")
            /\ current # Nothing /\ UpToDate
  BY DEF Skip, Finish, Return, GoTo, Ended, config, runners
<1>2. /\ \A q \in RunnerId : runner'[q].content = runner[q].content
      /\ "ok" \in {"ok", "error"} /\ "error" \in {"ok", "error"}
  BY <1>1
<1>3. CASE result' = [result EXCEPT ![c] = "error"] /\ notApplied' = Remembered(c, "error")
  BY <1>1, <1>2, <1>3, LeavingKeepsSaves
<1>4. CASE /\ result' = [result EXCEPT ![c] = "ok"] /\ notApplied' = Remembered(c, "ok")
           /\ current # Nothing /\ UpToDate
  BY <1>1, <1>2, <1>4, LeavingKeepsSaves
<1> QED BY <1>1, <1>3, <1>4

LEMMA RefuseKeepsSaves ==
    ASSUME LifecycleInv, SavesInv, NEW c \in Caller, Heads(c), place[c] \in {"queued", "released"}, RefuseBuild(c)
    PROVE  SavesInv'
<1>1. /\ place' = [place EXCEPT ![c] = "idle"]
      /\ UNCHANGED <<slot, key, current, lastBuilt, retired, asked, held, runner>>
      /\ result' = [result EXCEPT ![c] = "error"] /\ notApplied' = Remembered(c, "error")
  BY DEF RefuseBuild, Finish, Return, GoTo, Ended, config, runners
<1>2. \A q \in RunnerId : runner'[q].content = runner[q].content
  BY <1>1
<1> QED BY <1>1, <1>2, LeavingKeepsSaves

LEMMA BuildFailsKeepsSaves == ASSUME LifecycleInv, SavesInv, NEW c \in Caller, BuildFails(c) PROVE SavesInv'
<1> DEFINE r == AnyOf(Building)
<1>1. /\ Heads(c) /\ place[c] = "build" /\ place' = [place EXCEPT ![c] = "idle"]
      /\ runner' = [runner EXCEPT ![r].state = "failed"]
      /\ UNCHANGED <<slot, key, current, lastBuilt, retired, asked, held>>
      /\ result' = [result EXCEPT ![c] = "error"] /\ notApplied' = Remembered(c, "error")
  BY DEF BuildFails, Gone, Finish, Return, GoTo, Ended, config
<1>2. r \in RunnerId
  BY <1>1, TheBuilding
<1> HIDE DEF r
<1>3. \A q \in RunnerId : runner'[q].content = runner[q].content
  BY <1>1, <1>2, StateChanges DEF LifecycleInv, LifecycleTypeOK
<1> QED BY <1>1, <1>3, LeavingKeepsSaves

LEMMA ReleaseKeepsSaves == ASSUME LifecycleInv, SavesInv, NEW c \in Caller, Release(c) PROVE SavesInv'
<1>1. /\ Heads(c) /\ place[c] = "queued" /\ current # Nothing /\ ~UpToDate
      /\ IdleRetired # {} /\ retired' = retired \ IdleRetired /\ runner' = Shut(IdleRetired)
      /\ held' = [config |-> slot, old |-> Nothing] /\ place' = [place EXCEPT ![c] = "released"]
      /\ UNCHANGED <<slot, key, current, lastBuilt, asked, result, notApplied>>
  BY DEF Release, Outdated, GoTo, config
<1>2. \A q \in RunnerId : runner'[q].content = runner[q].content
  <2>1. IdleRetired \in SUBSET RunnerId
    BY DEF IdleRetired, LifecycleInv, LifecycleTypeOK
  <2> QED BY <1>1, <2>1, ShutKeepsContents DEF LifecycleInv
<1>3. /\ place'[c] = "released" /\ \A d \in Caller \ {c} : place'[d] = place[d] /\ place[d] \notin AtHead
      /\ current \in RunnerId /\ held'.config = slot /\ retired # {}
  BY <1>1, HeadMoved DEF LifecycleInv, LifecycleTypeOK, IdleRetired
<1>4. BuiltIsKnown' /\ HeldIsKnown'
  BY <1>1, <1>2, <1>3 DEF SavesInv, BuiltIsKnown, HeldIsKnown, AtHead
<1>5. ASSUME key = 0 PROVE Keyless'
  <2>1. Keyless
    BY <1>5 DEF SavesInv
  <2>2. c = "save" /\ "boot" \in Caller
    BY <1>1, <1>3, <2>1, WhoIsHead, BootIsCaller DEF Keyless, BootIsFresh, UpToDate
  <2>3. SaveWaits /\ SaveWaits'
    BY <1>1, <1>3, <2>2 DEF SaveWaits, InQueue
  <2>4. place["boot"] # "queued" /\ place'["boot"] = place["boot"]
    BY <1>3, <2>1, <2>2, <2>3 DEF Keyless, BootIsFresh
  <2>5. NoKeys' /\ SaveIsAccepted'
    BY <1>1, <1>3, <2>1, <2>2 DEF Keyless, NoKeys, SaveIsAccepted, InQueue
  <2>6. BootIsFresh' /\ Unapplied'
    BY <1>3, <2>2, <2>3, <2>4 DEF BootIsFresh, Unapplied, AtHead
  <2> QED BY <2>5, <2>6 DEF Keyless
<1> QED BY <1>1, <1>4, <1>5 DEF SavesInv

LEMMA BeginsKeepsSaves ==
    ASSUME LifecycleInv, SavesInv, NEW c \in Caller, Heads(c), place[c] \in {"queued", "released"}, current # Nothing,
           NEW read \in Revision, Begins(c, read),
           read = slot \/ (place[c] = "released" /\ read = held.config)
    PROVE  SavesInv'
<1> DEFINE r == AnyOf(Fresh)
<1>1. /\ slot' = Accept(read.content) /\ runner' = [runner EXCEPT ![r] = Built(slot')]
      /\ held' = [config |-> slot', old |-> current] /\ place' = [place EXCEPT ![c] = "build"]
      /\ UNCHANGED <<key, current, lastBuilt, retired, asked, result, notApplied>>
  BY DEF Begins, GoTo
<1>2. r \in RunnerId /\ runner[r].state = "none"
  BY AnyOfIs DEF Begins, Fresh
<1> HIDE DEF r
<1>3. /\ slot'.token = slot.token + 1 /\ slot.token \in Nat /\ slot'.content = read.content
      /\ held'.config = slot' /\ (lastBuilt # Nothing => lastBuilt \in Nat)
  BY <1>1, AcceptIs, TokensAre DEF LifecycleInv, Revision
<1>4. current \in RunnerId /\ runner'[current] = runner[current]
  <2>1. current \in Up /\ r \notin Up
    BY <1>2, HeadIsFree DEF Up
  <2> QED BY <1>1, <1>2, <2>1 DEF LifecycleInv, LifecycleTypeOK, Up
<1>5. place'[c] = "build" /\ \A d \in Caller \ {c} : place'[d] = place[d] /\ place[d] \notin AtHead
  BY <1>1, HeadMoved DEF LifecycleInv, LifecycleTypeOK
<1>6. BuiltIsKnown' /\ HeldIsKnown'
  <2>1. BuiltIsKnown'
    BY <1>1, <1>3 DEF SavesInv, BuiltIsKnown
  <2>2. HeldIsKnown'
    BY <1>3, <1>5 DEF HeldIsKnown, AtHead
  <2> QED BY <2>1, <2>2
<1>7. ASSUME key = 0 PROVE Keyless'
  <2>1. Keyless
    BY <1>7 DEF SavesInv
  <2>2. c \in {"boot", "save"} /\ "boot" \in Caller
    BY <2>1, WhoIsHead, BootIsCaller DEF Keyless
  <2>3. slot'.content = slot.content
    <3>1. CASE read = slot
      BY <1>3, <3>1
    <3>2. CASE place[c] = "released" /\ read = held.config
      BY <1>3, <2>1, <2>2, <3>2 DEF Keyless, BootIsFresh, SaveIsAccepted, Replacing
    <3> QED BY <3>1, <3>2
  <2>4. SaveWaits' = SaveWaits
    BY <1>5, HeadIs DEF SaveWaits, InQueue, LifecycleInv
  <2>5. NoKeys'
    BY <1>5, <2>1, <2>2 DEF Keyless, NoKeys
  <2>6. SaveIsAccepted'
    <3>1. CASE c = "save"
      BY <1>1, <1>3, <1>5, <2>1, <2>3, <3>1, HeadIs DEF Keyless, SaveIsAccepted, InQueue, Replacing, LifecycleInv
    <3>2. CASE c # "save"
      BY <1>1, <1>3, <1>4, <1>5, <2>1, <2>3, <3>2 DEF Keyless, SaveIsAccepted, Replacing, AtHead
    <3> QED BY <3>1, <3>2
  <2>7. BootIsFresh'
    <3>1. CASE c = "boot"
      BY <1>3, <1>5, <3>1 DEF BootIsFresh
    <3>2. CASE c = "save"
      <4>1. SaveWaits /\ place'["boot"] = place["boot"] /\ place["boot"] \notin AtHead
        BY <1>5, <2>2, <3>2, HeadIs DEF SaveWaits, LifecycleInv
      <4> QED BY <1>1, <2>1, <2>4, <4>1 DEF Keyless, BootIsFresh, AtHead
    <3> QED BY <2>2, <3>1, <3>2
  <2>8. Unapplied'
    <3>1. CASE c = "boot"
      BY <1>1, <1>4, <1>5, <2>1, <2>3, <2>4, <3>1 DEF Keyless, Unapplied
    <3>2. CASE c = "save"
      BY <2>4, <3>2, HeadIs DEF Unapplied, SaveWaits, LifecycleInv
    <3> QED BY <2>2, <3>1, <3>2
  <2> QED BY <2>5, <2>6, <2>7, <2>8 DEF Keyless
<1> QED BY <1>1, <1>6, <1>7 DEF SavesInv

LEMMA PrepareKeepsSaves == ASSUME LifecycleInv, SavesInv, NEW c \in Caller, PrepareBuild(c) PROVE SavesInv'
<1>1. slot \in Revision /\ held.config \in Revision
  BY DEF LifecycleInv, LifecycleTypeOK
<1>2. CASE Outdated(c) /\ IdleRetired = {} /\ (Begins(c, slot) \/ RefuseBuild(c))
  BY <1>1, <1>2, BeginsKeepsSaves, RefuseKeepsSaves DEF Outdated
<1>3. CASE Heads(c) /\ place[c] = "released" /\ (Begins(c, held.config) \/ RefuseBuild(c))
  <2>1. current # Nothing
    BY <1>3, HeadIsFree
  <2> QED BY <1>1, <1>3, <2>1, BeginsKeepsSaves, RefuseKeepsSaves
<1> QED BY <1>2, <1>3 DEF PrepareBuild

LEMMA PublishKeepsSaves == ASSUME LifecycleInv, SavesInv, NEW c \in Caller, Publish(c) PROVE SavesInv'
<1> DEFINE r == AnyOf(Building)
<1>1. /\ Heads(c) /\ place[c] = "build" /\ place' = [place EXCEPT ![c] = "publish"]
      /\ runner' = [runner EXCEPT ![r].state = "up"] /\ current' = r /\ lastBuilt' = held.config.token
      /\ UNCHANGED <<slot, key, retired, asked, result, notApplied, held>>
  BY DEF Publish, GoTo, config
<1>2. r \in RunnerId /\ runner[r].content = held.config.content /\ current # Nothing
  BY <1>1, TheBuilding DEF LifecycleInv, FirstIsFirst, Replacing
<1> HIDE DEF r
<1>3. runner'[current'].content = held.config.content
  BY <1>1, <1>2, StateChanges DEF LifecycleInv, LifecycleTypeOK
<1>4. place'[c] = "publish" /\ \A d \in Caller \ {c} : place'[d] = place[d] /\ place[d] \notin AtHead
  BY <1>1, HeadMoved DEF LifecycleInv, LifecycleTypeOK
<1>5. lastBuilt' # Nothing
  BY <1>1, TokensAre, LifecycleConstants DEF LifecycleAssumption, LifecycleInv
<1>6. BuiltIsKnown' /\ HeldIsKnown'
  BY <1>1, <1>3, <1>4, <1>5 DEF SavesInv, BuiltIsKnown, HeldIsKnown, AtHead
<1>7. ASSUME key = 0 PROVE Keyless'
  <2>1. Keyless
    BY <1>7 DEF SavesInv
  <2>2. c \in {"boot", "save"} /\ "boot" \in Caller
    BY <1>1, <2>1, WhoIsHead, BootIsCaller DEF Keyless
  <2>3. SaveWaits' = SaveWaits
    BY <1>1, <1>4 DEF SaveWaits, InQueue
  <2>4. NoKeys'
    BY <1>4, <2>1, <2>2 DEF Keyless, NoKeys
  <2>5. CASE c = "save"
    <3>1. SaveWaits /\ held.config = slot /\ place'["boot"] = place["boot"] /\ place["boot"] \notin AtHead
      BY <1>1, <1>4, <2>1, <2>2, <2>5 DEF Keyless, SaveIsAccepted, Replacing, SaveWaits, InQueue
    <3>2. SaveIsAccepted'
      BY <1>1, <1>4, <2>1, <2>5, <3>1 DEF Keyless, SaveIsAccepted, InQueue, Replacing
    <3>3. BootIsFresh' /\ Unapplied'
      BY <1>1, <2>1, <2>3, <3>1 DEF Keyless, BootIsFresh, Unapplied, AtHead
    <3> QED BY <2>4, <3>2, <3>3 DEF Keyless
  <2>6. CASE c = "boot"
    <3>1. ~SaveWaits => held.config.content = slot.content
      BY <1>1, <2>1, <2>6 DEF Keyless, BootIsFresh
    <3>2. result["save"] = "ok" /\ "save" \in Caller => ~SaveWaits
      BY <2>1 DEF Keyless, SaveIsAccepted, SaveWaits, InQueue
    <3>3. SaveIsAccepted'
      BY <1>1, <1>2, <1>3, <1>4, <2>1, <2>6, <3>1, <3>2 DEF Keyless, SaveIsAccepted
    <3>4. BootIsFresh' /\ Unapplied'
      BY <1>1, <1>4, <2>3, <2>6, <3>1 DEF BootIsFresh, Unapplied
    <3> QED BY <2>4, <3>3, <3>4 DEF Keyless
  <2> QED BY <2>2, <2>5, <2>6
<1> QED BY <1>1, <1>6, <1>7 DEF SavesInv

LEMMA AttachKeepsSaves == ASSUME LifecycleInv, SavesInv, NEW c \in Caller, Attach(c) PROVE SavesInv'
<1>1. /\ Heads(c) /\ place[c] = "publish" /\ place' = [place EXCEPT ![c] = "attach"]
      /\ UNCHANGED <<slot, key, runner, current, lastBuilt, retired, asked, result, notApplied, held>>
  BY DEF Attach, GoTo, runners
<1>2. place'[c] = "attach" /\ \A d \in Caller \ {c} : place'[d] = place[d] /\ place[d] \notin AtHead
  BY <1>1, HeadMoved DEF LifecycleInv, LifecycleTypeOK
<1>3. BuiltIsKnown' /\ HeldIsKnown'
  BY <1>1, <1>2 DEF SavesInv, BuiltIsKnown, HeldIsKnown, AtHead
<1>4. ASSUME key = 0 PROVE Keyless'
  <2>1. Keyless /\ SaveWaits' = SaveWaits /\ Building' = Building
    BY <1>1, <1>2, <1>4 DEF SavesInv, SaveWaits, InQueue, Building
  <2>2. "boot" \in Caller
    BY BootIsCaller
  <2>3. NoKeys' /\ SaveIsAccepted'
    BY <1>1, <1>2, <2>1 DEF Keyless, NoKeys, SaveIsAccepted, InQueue, Replacing
  <2>4. BootIsFresh' /\ Unapplied'
    BY <1>1, <1>2, <2>1, <2>2 DEF Keyless, BootIsFresh, Unapplied
  <2> QED BY <2>3, <2>4 DEF Keyless
<1> QED BY <1>1, <1>3, <1>4 DEF SavesInv

LEMMA RetireKeepsSaves == ASSUME LifecycleInv, SavesInv, NEW c \in Caller, Retire(c) PROVE SavesInv'
<1>1. /\ Heads(c) /\ place[c] = "attach" /\ place' = [place EXCEPT ![c] = "idle"]
      /\ retired' = retired \cup {held.old}
      /\ result' = [result EXCEPT ![c] = "ok"] /\ notApplied' = Remembered(c, "ok")
      /\ UNCHANGED <<slot, key, runner, current, lastBuilt, asked, held>>
  BY DEF Retire, Finish, Return, GoTo, Ended, config
<1>2. /\ place'[c] = "idle" /\ \A d \in Caller \ {c} : place'[d] = place[d] /\ place[d] \notin AtHead
      /\ result'[c] = "ok" /\ \A d \in Caller \ {c} : result'[d] = result[d]
  BY <1>1, HeadMoved DEF LifecycleInv, LifecycleTypeOK
<1>3. BuiltIsKnown' /\ HeldIsKnown'
  BY <1>1, <1>2 DEF SavesInv, BuiltIsKnown, HeldIsKnown, AtHead
<1>4. ASSUME key = 0 PROVE Keyless'
  <2>1. Keyless
    BY <1>4 DEF SavesInv
  <2>2. c \in {"boot", "save"} /\ "boot" \in Caller
    BY <1>1, <2>1, WhoIsHead, BootIsCaller DEF Keyless
  <2>3. lastBuilt = held.config.token /\ runner[current].content = held.config.content
    BY <1>1 DEF SavesInv, HeldIsKnown
  <2>4. NoKeys'
    BY <1>2, <2>1, <2>2 DEF Keyless, NoKeys
  <2>5. CASE c = "save"
    <3>1. held.config = slot /\ slot.content = asked.content
      BY <1>1, <2>1, <2>5 DEF Keyless, SaveIsAccepted, Replacing, InQueue
    <3>2. SaveIsAccepted' /\ Unapplied'
      BY <1>1, <1>2, <2>3, <2>5, <3>1 DEF SaveIsAccepted, Unapplied, InQueue, Replacing
    <3>3. BootIsFresh'
      BY <1>1, <1>2, <2>2, <2>3, <2>5, <3>1 DEF BootIsFresh, AtHead, SaveWaits, InQueue
    <3> QED BY <2>4, <3>2, <3>3 DEF Keyless
  <2>6. CASE c = "boot"
    <3>1. ~SaveWaits => runner[current].content = slot.content
      BY <1>1, <2>1, <2>3, <2>6 DEF Keyless, BootIsFresh
    <3>2. SaveWaits' = SaveWaits
      BY <1>2, <2>6 DEF SaveWaits
    <3>3. SaveIsAccepted' /\ BootIsFresh' /\ Unapplied'
      BY <1>1, <1>2, <2>1, <2>6, <3>1, <3>2 DEF Keyless, SaveIsAccepted, BootIsFresh, Unapplied, Remembered
    <3> QED BY <2>4, <3>3 DEF Keyless
  <2> QED BY <2>2, <2>5, <2>6
<1> QED BY <1>1, <1>3, <1>4 DEF SavesInv

LEMMA SavesInitially == LifecycleInit => SavesInv
<1> SUFFICES ASSUME LifecycleInit PROVE SavesInv
  OBVIOUS
<1>1. current = Nothing /\ \A c \in Caller : place[c] = IF c = "boot" THEN "new" ELSE "idle"
  BY DEF LifecycleInit
<1>2. "boot" \in Caller /\ \A c \in Caller : result[c] = "none"
  BY BootIsCaller DEF LifecycleInit
<1>3. BuiltIsKnown /\ HeldIsKnown /\ NoKeys /\ Unapplied
  BY <1>1 DEF BuiltIsKnown, HeldIsKnown, NoKeys, Unapplied
<1>4. SaveIsAccepted /\ BootIsFresh
  BY <1>1, <1>2 DEF SaveIsAccepted, BootIsFresh, InQueue, Replacing
<1> QED BY <1>3, <1>4 DEF SavesInv, Keyless

LEMMA SavesSteps == LifecycleInv /\ SavesInv /\ [LifecycleNext]_lifecycleVars => SavesInv'
<1> SUFFICES ASSUME LifecycleInv, SavesInv, [LifecycleNext]_lifecycleVars PROVE SavesInv'
  OBVIOUS
<1>1. CASE Deciding /\ \E c \in Caller : Decide(c)
  BY <1>1, SkipKeepsSaves, ReleaseKeepsSaves, PrepareKeepsSaves DEF Decide
<1>2. CASE /\ ~Deciding
           /\ \/ StartBoot \/ FirstBuilt \/ FirstFails
              \/ (\E content \in Content : Save(content)) \/ PersistConfig \/ SaveKey
  BY <1>2, StartBootKeepsSaves, FirstBuiltKeepsSaves, FirstFailsKeepsSaves, SaveKeepsSaves, PersistKeepsSaves,
     SaveKeyKeepsSaves
<1>3. CASE \E c \in Caller : Build(c)
  BY <1>3, PrepareKeepsSaves, BuildFailsKeepsSaves, PublishKeepsSaves, AttachKeepsSaves, RetireKeepsSaves DEF Build
<1>4. CASE LoadHost \/ (\E r \in RunnerId : Inspect(r)) \/ \E s \in Stream : OpenStream(s) \/ Run(s) \/ End(s)
  BY <1>4, OthersKeepSaves, InspectKeepsSaves
<1>5. CASE UNCHANGED lifecycleVars
  <2>1. /\ UNCHANGED <<slot, key, current, lastBuilt, place, asked, result, notApplied, held, retired, runner>>
        /\ Building' = Building
    BY <1>5 DEF lifecycleVars, config, runners, callers, Building
  <2> QED BY <2>1, CalmKeepsSaves
<1> QED BY <1>1, <1>2, <1>3, <1>4, <1>5 DEF LifecycleNext

LEMMA SavedIsInEffectFollows == SavesInv => SavedIsInEffect
BY DEF SavesInv, Keyless, SaveIsAccepted, SavedIsInEffect

\* runtime-config-change.ts: whatever failed before it and whatever was building
\* when it came, a configuration save that was answered as done is what the
\* published runner was built from, until a key is saved.
THEOREM SavedConfigurationInEffect == LifecycleSpec => []SavedIsInEffect
<1>1. LifecycleSpec => [](LifecycleInv /\ SavesInv)
  BY LifecycleInitially, SavesInitially, LifecycleSteps, SavesSteps, PTL DEF LifecycleSpec
<1> QED BY <1>1, SavedIsInEffectFollows, PTL
=============================================================================
