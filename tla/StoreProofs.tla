---------------------------- MODULE StoreProofs ----------------------------
(***************************************************************************)
(* Proofs about Store for every number of handles and processes and every  *)
(* value of its constants.                                                 *)
(***************************************************************************)
EXTENDS Store, FiniteSetTheorems, TLAPS

-----------------------------------------------------------------------------
(* Who holds the lock.                                                     *)

\* A writer's handle stands in the registry from Register to Unregister.
HeldPcs == OwnerPcs \cup {"registered", "unregistering"}

LockTypes ==
  /\ lock \in SUBSET Handles
  /\ registered \in SUBSET Procs
  /\ pc \in [Handles -> Pcs]

\* The byte-range lock keeps other processes out, the registry keeps other
\* handles of the same process out; neither is enough alone.
LockInv ==
  /\ LockTypes
  /\ \A h \in Handles : h \in lock <=> h \in Writers /\ pc[h] \in OwnerPcs
  /\ \A h \in Writers : pc[h] \in HeldPcs => ProcOf[h] \in registered
  /\ \A h, k \in Writers :
       pc[h] \in HeldPcs /\ pc[k] \in HeldPcs /\ ProcOf[h] = ProcOf[k] => h = k
  /\ \A h, k \in lock : ProcOf[h] = ProcOf[k]
  /\ \A h \in Handles \ Writers : pc[h] \in {"closed", "open", "loading"}

LEMMA LockInit == Init => LockInv
  BY ShapeAssumption DEF Init, LockInv, LockTypes, Pcs, OwnerPcs, HeldPcs, Serving, Publishing

LEMMA LockStep == LockInv /\ [Next]_vars => LockInv'
<1> SUFFICES ASSUME LockInv, [Next]_vars PROVE LockInv'
  OBVIOUS
<1> USE ShapeAssumption DEF LockInv, LockTypes, Pcs, OwnerPcs, HeldPcs, Serving, Publishing, Goto, Return, disk, locks
<1>1. ASSUME NEW h \in Handles, Opening(h) PROVE LockInv'
  <2>1. CASE OpenReadOnly(h)  BY <2>1 DEF OpenReadOnly
  <2>2. CASE Register(h)      BY <2>2 DEF Register
  <2>3. CASE LockDirectory(h) BY <2>3 DEF LockDirectory
  <2>4. CASE LockRefused(h)   BY <2>4 DEF LockRefused
  <2>5. CASE ReadOwnership(h) BY <2>5 DEF ReadOwnership
  <2>6. CASE WriteOwnership(h) BY <2>6 DEF WriteOwnership
  <2>7. CASE OpenFails(h)     BY <2>7 DEF OpenFails
  <2> QED BY <1>1, <2>1, <2>2, <2>3, <2>4, <2>5, <2>6, <2>7 DEF Opening
<1>2. ASSUME NEW h \in Handles, Closing(h) PROVE LockInv'
  <2>1. CASE Close(h)      BY <2>1 DEF Close
  <2>2. CASE Unlock(h)     BY <2>2 DEF Unlock
  <2>3. CASE Unregister(h) BY <2>3 DEF Unregister
  <2> QED BY <1>2, <2>1, <2>2, <2>3 DEF Closing
<1>3. ASSUME NEW h \in Handles, Publish(h) PROVE LockInv'
  <2>1. CASE \E d \in Docs, f \in Fences : StartPublish(h, d, f) BY <2>1 DEF StartPublish
  <2>2. CASE Cancel(h)      BY <2>2 DEF Cancel
  <2>3. CASE Abandon(h)     BY <2>3 DEF Abandon
  <2>4. CASE ClearTarget(h) BY <2>4 DEF ClearTarget
  <2>5. CASE InstallFile(h) BY <2>5 DEF InstallFile
  <2>6. CASE Withdraw(h)    BY <2>6 DEF Withdraw
  <2>7. CASE Proceed(h)     BY <2>7 DEF Proceed
  <2>8. CASE Commit(h)      BY <2>8 DEF Commit
  <2>9. CASE WriteFails(h)  BY <2>9 DEF WriteFails
  <2> QED BY <1>3, <2>1, <2>2, <2>3, <2>4, <2>5, <2>6, <2>7, <2>8, <2>9 DEF Publish
<1>4. ASSUME NEW h \in Handles, Prune(h) PROVE LockInv'
  <2>1. CASE \E keep \in 0..MaxGeneration : StartPrune(h, keep) BY <2>1 DEF StartPrune
  <2>2. CASE PruneOldest(h) BY <2>2 DEF PruneOldest
  <2> QED BY <1>4, <2>1, <2>2 DEF Prune
<1>5. ASSUME NEW h \in Handles, LoadLatest(h) PROVE LockInv'
  <2>1. CASE StartLoad(h)     BY <2>1 DEF StartLoad
  <2>2. CASE LoadCandidate(h) BY <2>2 DEF LoadCandidate
  <2>3. CASE SkipCandidate(h) BY <2>3 DEF SkipCandidate
  <2> QED BY <1>5, <2>1, <2>2, <2>3 DEF LoadLatest
<1>6. ASSUME NEW p \in Procs, Crash(p) PROVE LockInv'
  BY <1>6 DEF Crash
<1>7. ASSUME NEW n \in Numbers, Damage(n) PROVE LockInv'
  BY <1>7 DEF Damage
<1>8. CASE UNCHANGED vars
  BY <1>8 DEF vars
<1> QED BY <1>1, <1>2, <1>3, <1>4, <1>5, <1>6, <1>7, <1>8 DEF Next

LEMMA Locking == Spec => []LockInv
  BY LockInit, LockStep, PTL DEF Spec

\* At most one handle is between LockFileEx and UnlockFileEx.
LEMMA SoleOwner ==
  ASSUME LockInv, NEW h \in Writers, NEW k \in Writers,
         pc[h] \in OwnerPcs, pc[k] \in OwnerPcs
  PROVE  h = k
  BY ShapeAssumption DEF LockInv, HeldPcs

-----------------------------------------------------------------------------
(* What a call in progress may rely on.                                    *)

DataTypes ==
  /\ meta \in Metas
  /\ gen \in [Numbers -> Files \cup {NoFile}]
  /\ commits \in [Numbers -> Digests \cup {NoDigest}]
  /\ owned \in [Handles -> [epoch : Epochs, incarnation : Epochs]]
  /\ job \in [Handles -> Jobs]
  /\ view \in [Handles -> Digests \cup {NoDigest}]

CallInv ==
  /\ DataTypes
  /\ WriterOwnsDirectory
  /\ PublishBaseIsCurrent
  /\ \A h \in Handles : pc[h] = "opening" => job[h].base = meta /\ CountersLeft
  /\ \A h \in Handles : pc[h] \in Publishing =>
       meta.generation < MaxGeneration /\ job[h].doc \in Docs
  /\ \A h \in Handles : pc[h] = "loading" => job[h].candidate <= meta.generation

LEMMA NoJobType == NoJob \in Jobs /\ NotOwner \in [epoch : Epochs, incarnation : Epochs]
  BY ShapeAssumption DEF NoJob, NotOwner, Jobs, Metas, Fences, Epochs, FenceOf, RH!ZeroMeta, Publishing

\* The abstract head's two updates, field by field.
LEMMA TakenOverFields ==
  ASSUME NEW m \in Metas, m.epoch < MaxEpoch, m.incarnation < MaxEpoch
  PROVE  /\ RH!TakenOver(m) \in Metas
         /\ RH!TakenOver(m).generation = m.generation
         /\ RH!TakenOver(m).digest = m.digest
         /\ RH!TakenOver(m).epoch = m.epoch + 1
         /\ RH!TakenOver(m).incarnation = m.incarnation + 1
<1> DEFINE U(x, y) == [m EXCEPT !.epoch = x, !.incarnation = y]
<1>1. m.epoch + 1 \in Epochs /\ m.incarnation + 1 \in Epochs
  BY ShapeAssumption DEF Metas, Epochs
<1>2. \A x, y \in Epochs :
        /\ U(x, y) \in Metas /\ U(x, y).generation = m.generation
        /\ U(x, y).digest = m.digest
        /\ U(x, y).epoch = x /\ U(x, y).incarnation = y
  BY DEF Metas
<1>3. RH!TakenOver(m) = U(m.epoch + 1, m.incarnation + 1)
  BY DEF RH!TakenOver, Metas
<1> HIDE DEF U
<1> QED BY <1>1, <1>2, <1>3

LEMMA PublishedFields ==
  ASSUME NEW m \in Metas, NEW d \in Docs, m.generation < MaxGeneration
  PROVE  /\ RH!Published(m, d) \in Metas
         /\ RH!Published(m, d).generation = m.generation + 1
         /\ RH!Published(m, d).digest
              = [number |-> m.generation + 1, epoch |-> m.epoch, doc |-> d]
         /\ RH!Published(m, d).digest \in Digests
         /\ RH!Published(m, d).epoch = m.epoch
         /\ RH!Published(m, d).incarnation = m.incarnation
<1> DEFINE g == [number |-> m.generation + 1, epoch |-> m.epoch, doc |-> d]
           U(x, y, z) == [m EXCEPT !.generation = x, !.digest = y, !.total = z]
<1>1. m.generation + 1 \in 0..MaxGeneration /\ g \in Digests /\ m.total + 1 \in Nat
  BY ShapeAssumption DEF Metas, Epochs, Digests, RH!Digests, RH!Numbers
<1>2. \A x \in 0..MaxGeneration, y \in Digests, z \in Nat :
        /\ U(x, y, z) \in Metas /\ U(x, y, z).generation = x /\ U(x, y, z).digest = y
        /\ U(x, y, z).epoch = m.epoch /\ U(x, y, z).incarnation = m.incarnation
  BY DEF Metas
<1>3. RH!Published(m, d) = U(m.generation + 1, g, m.total + 1)
  BY DEF RH!Published, Metas
<1> HIDE DEF U
<1> QED BY <1>1, <1>2, <1>3

\* Updating one local of a call keeps it a call and leaves the others alone.
LEMMA JobFields ==
  ASSUME NEW j \in Jobs
  PROVE  /\ \A x \in SUBSET Numbers :
              /\ [j EXCEPT !.doomed = x] \in Jobs
              /\ [j EXCEPT !.doomed = x].doomed = x
              /\ [j EXCEPT !.doomed = x].candidate = j.candidate
         /\ \A x \in 0..MaxGeneration :
              /\ [j EXCEPT !.candidate = x] \in Jobs
              /\ [j EXCEPT !.candidate = x].candidate = x
  BY DEF Jobs

\* The file a publication is about to install is a generation file.
LEMMA FileForType ==
  ASSUME NEW h \in Handles, job[h] \in Jobs, job[h].doc \in Docs,
         job[h].base.generation < MaxGeneration
  PROVE  FileFor(h) \in Files /\ NextNumber(h) \in Numbers
  BY ShapeAssumption DEF Jobs, Metas, FileFor, Files, NextNumber, Digests, RH!Digests,
     RH!Numbers, Numbers, Epochs

LEMMA CallInit == Init => CallInv
  BY ShapeAssumption, NoJobType DEF Init, CallInv, DataTypes, WriterOwnsDirectory,
     PublishBaseIsCurrent, Serving, Publishing, Metas, Epochs, RH!ZeroMeta

LEMMA CallStep == LockInv /\ CallInv /\ [Next]_vars => CallInv'
<1> SUFFICES ASSUME LockInv, CallInv, [Next]_vars PROVE CallInv'
  OBVIOUS
<1> USE ShapeAssumption, NoJobType DEF LockInv, LockTypes, CallInv, DataTypes, WriterOwnsDirectory,
     PublishBaseIsCurrent, CountersLeft, Pcs, OwnerPcs, Serving, Publishing, Goto, Return, disk, locks
<1>1. ASSUME NEW h \in Handles, Opening(h) PROVE CallInv'
  <2>1. CASE OpenReadOnly(h)  BY <2>1 DEF OpenReadOnly, Metas
  <2>2. CASE Register(h)      BY <2>2 DEF Register
  <2>3. CASE LockDirectory(h) BY <2>3 DEF LockDirectory
  <2>4. CASE LockRefused(h)   BY <2>4 DEF LockRefused
  <2>5. CASE ReadOwnership(h) BY <2>5 DEF ReadOwnership, CountersLeft, Jobs
  <2>6. CASE WriteOwnership(h)
    <3>1. meta' = RH!TakenOver(meta) /\ meta.epoch < MaxEpoch /\ meta.incarnation < MaxEpoch
      BY <2>6 DEF WriteOwnership, OwnedMeta
    <3>2. h \in Writers /\ \A k \in Writers : pc[k] \in OwnerPcs => k = h
      BY <2>6, SoleOwner DEF WriteOwnership
    <3>3. DataTypes'
      BY <2>6, <3>1, TakenOverFields DEF WriteOwnership, Metas
    <3>4. meta'.generation = meta.generation
      BY <3>1, TakenOverFields
    <3>5. WriterOwnsDirectory'
      BY <2>6, <3>2 DEF WriteOwnership
    <3>6. \A k \in Handles : pc'[k] \notin Publishing \cup {"opening"}
      BY <2>6, <3>2 DEF WriteOwnership
    <3>7. \A k \in Handles : pc'[k] = "loading" => job'[k].candidate <= meta'.generation
      BY <2>6, <3>4 DEF WriteOwnership
    <3> QED BY <3>3, <3>5, <3>6, <3>7
  <2>7. CASE OpenFails(h)     BY <2>7 DEF OpenFails
  <2> QED BY <1>1, <2>1, <2>2, <2>3, <2>4, <2>5, <2>6, <2>7 DEF Opening
<1>2. ASSUME NEW h \in Handles, Closing(h) PROVE CallInv'
  <2>1. CASE Close(h)      BY <2>1 DEF Close
  <2>2. CASE Unlock(h)     BY <2>2 DEF Unlock
  <2>3. CASE Unregister(h) BY <2>3 DEF Unregister
  <2> QED BY <1>2, <2>1, <2>2, <2>3 DEF Closing
<1>3. ASSUME NEW h \in Handles, Publish(h) PROVE CallInv'
  <2>1. CASE \E d \in Docs, f \in Fences : StartPublish(h, d, f)
    BY <2>1 DEF StartPublish, FenceAccepts, FenceOf, Fences, NoJob, Jobs
  <2>2. CASE Cancel(h)      BY <2>2 DEF Cancel, Jobs
  <2>3. CASE Abandon(h)     BY <2>3 DEF Abandon
  <2>4. CASE ClearTarget(h) BY <2>4 DEF ClearTarget, TryRemove
  <2>5. CASE InstallFile(h)
    <3>1. FileFor(h) \in Files /\ NextNumber(h) \in Numbers
      BY <2>5, FileForType DEF InstallFile
    <3> QED BY <2>5, <3>1 DEF InstallFile
  <2>6. CASE Withdraw(h)    BY <2>6 DEF Withdraw, TryRemove
  <2>7. CASE Proceed(h)     BY <2>7 DEF Proceed
  <2>8. CASE Commit(h)
    <3>1. /\ job[h].base = meta /\ job[h].doc \in Docs /\ meta.generation < MaxGeneration
          /\ meta' = RH!Published(meta, job[h].doc)
      BY <2>8 DEF Commit
    <3>2. h \in Writers /\ \A k \in Writers : pc[k] \in OwnerPcs => k = h
      BY <2>8, SoleOwner DEF Commit
    <3>3. /\ meta' \in Metas /\ meta'.generation = meta.generation + 1
          /\ meta'.epoch = meta.epoch /\ meta'.incarnation = meta.incarnation
          /\ meta'.digest \in Digests
      BY <3>1, PublishedFields
    <3>4. /\ commits' = [commits EXCEPT ![NextNumber(h)] = meta'.digest]
          /\ UNCHANGED <<gen, owned, view>> /\ pc[h] = "switching"
          /\ job' = [job EXCEPT ![h] = NoJob] /\ pc' = [pc EXCEPT ![h] = "open"]
      BY <2>8 DEF Commit
    <3>5. DataTypes'
      BY <3>3, <3>4
    <3>6. WriterOwnsDirectory'
      BY <3>2, <3>3, <3>4
    <3>7. \A k \in Handles : pc'[k] \notin Publishing \cup {"opening"}
      BY <3>2, <3>4
    <3>8. \A k \in Handles : pc'[k] = "loading" => job'[k].candidate <= meta'.generation
      <4>1. SUFFICES ASSUME NEW k \in Handles, pc'[k] = "loading"
                     PROVE  job'[k].candidate <= meta'.generation
        OBVIOUS
      <4>2. k # h /\ job'[k].candidate = job[k].candidate /\ pc[k] = "loading"
        BY <3>4, <4>1
      <4>3. job[k].candidate \in Nat /\ meta.generation \in Nat
        BY ShapeAssumption DEF Jobs, Metas
      <4> QED BY <3>3, <4>2, <4>3
    <3> QED BY <3>5, <3>6, <3>7, <3>8
  <2>9. CASE WriteFails(h)  BY <2>9 DEF WriteFails
  <2> QED BY <1>3, <2>1, <2>2, <2>3, <2>4, <2>5, <2>6, <2>7, <2>8, <2>9 DEF Publish
<1>4. ASSUME NEW h \in Handles, Prune(h) PROVE CallInv'
  <2>1. CASE \E keep \in 0..MaxGeneration : StartPrune(h, keep)
    <3>1. PICK keep \in 0..MaxGeneration : StartPrune(h, keep)
      BY <2>1
    <3>2. Expendable(keep) \in SUBSET Numbers
      BY DEF Expendable, Listed
    <3>3. job' = [job EXCEPT ![h] = [job[h] EXCEPT !.doomed = Expendable(keep)]]
      BY <3>1 DEF StartPrune
    <3>4. job' \in [Handles -> Jobs]
      BY <3>2, <3>3, JobFields
    <3> QED BY <3>1, <3>3, <3>4 DEF StartPrune
  <2>2. CASE PruneOldest(h)
    <3>1. PICK n \in job[h].doomed :
            job' = [job EXCEPT ![h] = [job[h] EXCEPT !.doomed = job[h].doomed \ {n}]]
      BY <2>2 DEF PruneOldest
    <3>2. job[h].doomed \in SUBSET Numbers
      BY DEF Jobs
    <3>3. job' \in [Handles -> Jobs]
      BY <3>1, <3>2, JobFields
    <3> QED BY <2>2, <3>1, <3>2, <3>3 DEF PruneOldest, TryRemove
  <2> QED BY <1>4, <2>1, <2>2 DEF Prune
<1>5. ASSUME NEW h \in Handles, LoadLatest(h) PROVE CallInv'
  <2>1. CASE StartLoad(h)
    <3>1. job' = [job EXCEPT ![h] = [job[h] EXCEPT !.candidate = meta.generation]]
      BY <2>1 DEF StartLoad, FirstCandidate
    <3>2. meta.generation \in 0..MaxGeneration
      BY DEF Metas
    <3>3. job' \in [Handles -> Jobs] /\ job'[h].candidate = meta.generation
      BY <3>1, <3>2, JobFields
    <3>4. gen' \in [Numbers -> Files \cup {NoFile}]
      BY <2>1 DEF StartLoad
    <3> QED BY <2>1, <3>1, <3>2, <3>3, <3>4 DEF StartLoad
  <2>2. CASE LoadCandidate(h) BY <2>2 DEF LoadCandidate, Readable, Listed, Files
  <2>3. CASE SkipCandidate(h)
    <3>1. CASE job[h].candidate > 0
      <4>1. job' = [job EXCEPT ![h] = [job[h] EXCEPT !.candidate = job[h].candidate - 1]]
        BY <2>3, <3>1 DEF SkipCandidate
      <4>2. job[h].candidate - 1 \in 0..MaxGeneration /\ job[h].candidate \in Nat
        BY <3>1, ShapeAssumption DEF Jobs
      <4>3. job' \in [Handles -> Jobs] /\ job'[h].candidate = job[h].candidate - 1
        BY <4>1, <4>2, JobFields
      <4> QED BY <2>3, <3>1, <4>1, <4>2, <4>3 DEF SkipCandidate, Metas
    <3>2. CASE ~(job[h].candidate > 0)
      <4>1. /\ view' = [view EXCEPT ![h] = NoDigest]
            /\ job' = [job EXCEPT ![h] = NoJob] /\ pc' = [pc EXCEPT ![h] = "open"]
            /\ UNCHANGED <<meta, gen, commits, owned>> /\ pc[h] = "loading"
        BY <2>3, <3>2 DEF SkipCandidate
      <4> QED BY <4>1
    <3> QED BY <3>1, <3>2
  <2> QED BY <1>5, <2>1, <2>2, <2>3 DEF LoadLatest
<1>6. ASSUME NEW p \in Procs, Crash(p) PROVE CallInv'
  BY <1>6 DEF Crash
<1>7. ASSUME NEW n \in Numbers, Damage(n) PROVE CallInv'
  <2>1. gen[n] \in Files /\ gen' = [gen EXCEPT ![n] = [gen[n] EXCEPT !.ok = FALSE]]
    BY <1>7 DEF Damage, Listed
  <2>2. [gen[n] EXCEPT !.ok = FALSE] \in Files
    BY <2>1 DEF Files
  <2> QED BY <1>7, <2>1, <2>2 DEF Damage
<1>8. CASE UNCHANGED vars
  BY <1>8 DEF vars
<1> QED BY <1>1, <1>2, <1>3, <1>4, <1>5, <1>6, <1>7, <1>8 DEF Next

\* The type invariant of the specification: counters stay within their integer
\* type in every execution (Open, Publish).
THEOREM TypeCorrect == Spec => []TypeOK
<1>1. LockInv /\ CallInv => TypeOK
  BY DEF LockInv, LockTypes, CallInv, DataTypes, TypeOK
<1> QED BY Locking, CallInit, CallStep, <1>1, PTL DEF Spec

LEMMA Calling == Spec => []CallInv
  BY Locking, CallInit, CallStep, PTL DEF Spec

\* Whatever opens, fails, crashes or races, a handle open for writing is the
\* owner the metadata names (Open, ReleaseLock).
THEOREM FencingHolds == Spec => []WriterOwnsDirectory
<1>1. CallInv => WriterOwnsDirectory
  BY DEF CallInv
<1> QED BY Calling, <1>1, PTL

\* A publication commits on exactly the metadata and the fence it checked when
\* it started, although it reads the metadata only once (Publish).
THEOREM BaseHolds == Spec => []PublishBaseIsCurrent
<1>1. CallInv => PublishBaseIsCurrent
  BY DEF CallInv
<1> QED BY Calling, <1>1, PTL

-----------------------------------------------------------------------------
(* What the directory holds.                                               *)

\* The file of a publication that is waiting for its head switch.
InPlace(h) ==
  /\ NextNumber(h) \in Listed
  /\ gen[NextNumber(h)].digest = FileFor(h).digest
  /\ gen[NextNumber(h)].parent = FileFor(h).parent

FilesInv == HeadIsWhole /\ HistoryIsChained /\ OneOrdinalOfDebris

HistoryInv ==
  /\ FilesInv
  /\ LoadedWasCommitted
  /\ meta.generation = 0 => meta.digest = NoDigest
  /\ \A n \in Numbers : n <= meta.generation => commits[n] \in Digests /\ commits[n].number = n
  /\ \A h \in Handles : pc[h] \in {"written", "switching"} => InPlace(h)
  /\ \A h \in Handles : pc[h] = "pruning" => \A n \in job[h].doomed : n # meta.generation

\* Files may disappear below the head, be damaged, or appear one ordinal above
\* it; none of that touches what the head and the history say.
LEMMA FilesPreserved ==
  ASSUME DataTypes, FilesInv, UNCHANGED <<meta, commits>>,
         gen' \in [Numbers -> Files \cup {NoFile}],
         \A n \in Numbers : n <= meta.generation /\ gen'[n] # NoFile =>
            /\ gen[n] # NoFile
            /\ gen'[n].digest = gen[n].digest
            /\ gen'[n].parent = gen[n].parent,
         meta.generation > 0 => gen'[meta.generation] # NoFile,
         \A n \in Numbers : gen'[n] # NoFile => n <= meta.generation + 1
  PROVE  FilesInv'
<1>1. meta.generation \in 0..MaxGeneration
  BY DEF DataTypes, Metas
<1>2. meta.generation > 0 => meta.generation \in Numbers
  BY <1>1, ShapeAssumption DEF Numbers
<1>3. HeadIsWhole'
  BY <1>1, <1>2 DEF FilesInv, HeadIsWhole, Listed
<1>4. HistoryIsChained'
  BY DEF FilesInv, HistoryIsChained, Listed, ParentOf
<1>5. OneOrdinalOfDebris'
  BY DEF FilesInv, OneOrdinalOfDebris, Listed
<1> QED BY <1>3, <1>4, <1>5 DEF FilesInv

LEMMA HistoryInit == Init => HistoryInv
<1> SUFFICES ASSUME Init PROVE HistoryInv
  OBVIOUS
<1>1. meta.generation = 0 /\ meta.digest = NoDigest
  BY DEF Init, RH!ZeroMeta
<1>2. Listed = {} /\ \A n \in Numbers : ~(n <= 0)
  BY ShapeAssumption DEF Init, Listed, Numbers
<1>3. FilesInv
  BY <1>1, <1>2 DEF FilesInv, HeadIsWhole, HistoryIsChained, OneOrdinalOfDebris
<1>4. \A h \in Handles : pc[h] = "closed" /\ view[h] = NoDigest
  BY DEF Init
<1> QED BY <1>1, <1>2, <1>3, <1>4 DEF HistoryInv, LoadedWasCommitted

LEMMA HistoryStep == LockInv /\ CallInv /\ HistoryInv /\ [Next]_vars => HistoryInv'
<1> SUFFICES ASSUME LockInv, CallInv, HistoryInv, [Next]_vars PROVE HistoryInv'
  OBVIOUS
<1> USE ShapeAssumption DEF HistoryInv, LoadedWasCommitted, InPlace, Goto, Return, disk, locks
<1>0. /\ DataTypes /\ pc \in [Handles -> Pcs]
      /\ meta.generation \in 0..MaxGeneration
  BY DEF CallInv, DataTypes, Metas, LockInv, LockTypes
<1>a. \A k \in Handles : pc[k] \in Publishing =>
        /\ job[k].base = meta /\ meta.generation < MaxGeneration /\ job[k].doc \in Docs
        /\ NextNumber(k) = meta.generation + 1
  BY DEF CallInv, PublishBaseIsCurrent, NextNumber
<1>b. ASSUME NEW h \in Writers, NEW k \in Handles,
             pc[h] \in OwnerPcs, pc[k] \in Publishing \cup {"opening", "pruning"}
      PROVE  h = k
  <2>1. k \in Writers /\ pc[k] \in OwnerPcs
    BY <1>b DEF LockInv, OwnerPcs, Serving, Publishing
  <2> QED BY <1>b, <2>1, SoleOwner
\* A step that leaves the directory and the views alone.
<1>c. ASSUME UNCHANGED <<meta, gen, commits>>,
             \A k \in Handles : view'[k] = view[k] \/ view'[k] = NoDigest,
             \A k \in Handles : pc'[k] \in {"written", "switching"} =>
               /\ pc[k] \in {"written", "switching"}
               /\ job'[k].base = job[k].base /\ job'[k].doc = job[k].doc,
             \A k \in Handles : pc'[k] = "pruning" => pc[k] = "pruning" /\ job'[k] = job[k]
      PROVE  HistoryInv'
  <2>1. FilesInv'
    BY <1>c DEF FilesInv, HeadIsWhole, HistoryIsChained, OneOrdinalOfDebris, Listed, ParentOf
  <2>2. \A k \in Handles : pc'[k] \in {"written", "switching"} => InPlace(k)'
    BY <1>c DEF Listed, NextNumber, FileFor
  <2> QED BY <1>c, <2>1, <2>2
<1>1. ASSUME NEW h \in Handles, Opening(h) PROVE HistoryInv'
  <2>1. CASE OpenReadOnly(h)  BY <1>0, <1>c, <2>1 DEF OpenReadOnly
  <2>2. CASE Register(h)      BY <1>0, <1>c, <2>2 DEF Register
  <2>3. CASE LockDirectory(h) BY <1>0, <1>c, <2>3 DEF LockDirectory
  <2>4. CASE LockRefused(h)   BY <1>0, <1>c, <2>4 DEF LockRefused
  <2>5. CASE ReadOwnership(h) BY <1>0, <1>c, <2>5 DEF ReadOwnership
  <2>6. CASE WriteOwnership(h)
    <3>1. /\ meta'.generation = meta.generation /\ meta'.digest = meta.digest
          /\ UNCHANGED <<gen, commits, view>>
      BY <1>0, <2>6, TakenOverFields DEF WriteOwnership, OwnedMeta, CallInv, CountersLeft, DataTypes
    <3>2. \A k \in Handles : pc'[k] \notin {"written", "switching", "pruning"}
      BY <1>0, <1>b, <2>6 DEF WriteOwnership, OwnerPcs, Publishing, LockInv
    <3>3. FilesInv'
      BY <3>1 DEF FilesInv, HeadIsWhole, HistoryIsChained, OneOrdinalOfDebris, Listed, ParentOf
    <3> QED BY <3>1, <3>2, <3>3
  <2>7. CASE OpenFails(h)     BY <1>0, <1>c, <2>7 DEF OpenFails, DataTypes
  <2> QED BY <1>1, <2>1, <2>2, <2>3, <2>4, <2>5, <2>6, <2>7 DEF Opening
<1>2. ASSUME NEW h \in Handles, Closing(h) PROVE HistoryInv'
  <2>1. CASE Close(h)      BY <1>0, <1>c, <2>1 DEF Close, DataTypes
  <2>2. CASE Unlock(h)     BY <1>0, <1>c, <2>2 DEF Unlock
  <2>3. CASE Unregister(h) BY <1>0, <1>c, <2>3 DEF Unregister
  <2> QED BY <1>2, <2>1, <2>2, <2>3 DEF Closing
<1>3. ASSUME NEW h \in Handles, Publish(h) PROVE HistoryInv'
  <2>1. CASE \E d \in Docs, f \in Fences : StartPublish(h, d, f)
    BY <1>0, <1>c, <2>1 DEF StartPublish, DataTypes
  <2>2. CASE Cancel(h)
    <3>1. \A k \in Handles : job'[k].base = job[k].base /\ job'[k].doc = job[k].doc
      BY <1>0, <2>2 DEF Cancel, DataTypes, Jobs
    <3> QED BY <1>0, <1>c, <2>2, <3>1 DEF Cancel, Publishing, DataTypes
  <2>3. CASE Abandon(h)     BY <1>0, <1>c, <2>3 DEF Abandon, DataTypes
  <2>4. CASE ClearTarget(h)
    <3>1. /\ NextNumber(h) = meta.generation + 1
          /\ UNCHANGED <<meta, commits, view, job>>
          /\ \A n \in Numbers : gen'[n] = gen[n] \/ (n = NextNumber(h) /\ gen'[n] = NoFile)
          /\ gen' \in [Numbers -> Files \cup {NoFile}]
      BY <1>0, <1>a, <2>4 DEF ClearTarget, TryRemove, DataTypes, Publishing
    <3>2. FilesInv'
      BY <1>0, <3>1, FilesPreserved DEF FilesInv, HeadIsWhole, OneOrdinalOfDebris, Listed, Numbers
    <3>3. \A k \in Handles : pc'[k] \notin {"written", "switching", "pruning"}
      BY <1>0, <1>b, <2>4 DEF ClearTarget, OwnerPcs, Serving, Publishing, LockInv
    <3> QED BY <3>1, <3>2, <3>3
  <2>5. CASE InstallFile(h)
    <3>1. /\ NextNumber(h) = meta.generation + 1 /\ NextNumber(h) \in Numbers
          /\ FileFor(h) \in Files
          /\ UNCHANGED <<meta, commits, view, job>>
          /\ gen' = [gen EXCEPT ![NextNumber(h)] = FileFor(h)]
      BY <1>0, <1>a, <2>5, FileForType DEF InstallFile, DataTypes, Publishing
    <3>2. gen' \in [Numbers -> Files \cup {NoFile}]
      BY <1>0, <3>1 DEF DataTypes
    <3>3. FilesInv'
      BY <1>0, <3>1, <3>2, FilesPreserved DEF FilesInv, HeadIsWhole, OneOrdinalOfDebris, Listed, Numbers
    <3>4. \A k \in Handles : pc'[k] \in {"written", "switching", "pruning"} => k = h /\ pc'[k] = "written"
      BY <1>0, <1>b, <2>5 DEF InstallFile, OwnerPcs, Serving, Publishing, LockInv
    <3>5. InPlace(h)'
      <4>1. NextNumber(h)' = NextNumber(h) /\ FileFor(h)' = FileFor(h)
        BY <3>1 DEF NextNumber, FileFor
      <4>2. gen'[NextNumber(h)] = FileFor(h) /\ FileFor(h) # NoFile
        BY <1>0, <3>1, NullAssumption DEF DataTypes
      <4> QED BY <3>1, <4>1, <4>2 DEF Listed
    <3> QED BY <3>1, <3>3, <3>4, <3>5
  <2>6. CASE Withdraw(h)
    <3>1. /\ NextNumber(h) = meta.generation + 1
          /\ UNCHANGED <<meta, commits, view>>
          /\ \A n \in Numbers : gen'[n] = gen[n] \/ (n = NextNumber(h) /\ gen'[n] = NoFile)
          /\ gen' \in [Numbers -> Files \cup {NoFile}]
      BY <1>0, <1>a, <2>6 DEF Withdraw, TryRemove, DataTypes, Publishing
    <3>2. FilesInv'
      BY <1>0, <3>1, FilesPreserved DEF FilesInv, HeadIsWhole, OneOrdinalOfDebris, Listed, Numbers
    <3>3. \A k \in Handles : pc'[k] \notin {"written", "switching", "pruning"}
      BY <1>0, <1>b, <2>6 DEF Withdraw, OwnerPcs, Serving, Publishing, LockInv
    <3> QED BY <3>1, <3>2, <3>3
  <2>7. CASE Proceed(h)     BY <1>0, <1>c, <2>7 DEF Proceed
  <2>8. CASE Commit(h)
    <3> DEFINE next == NextNumber(h)
               d == job[h].doc
    <3>1. /\ next = meta.generation + 1 /\ next \in Numbers
          /\ job[h].base = meta /\ d \in Docs /\ meta.generation < MaxGeneration
          /\ meta \in Metas
          /\ InPlace(h)
      BY <1>0, <1>a, <2>8 DEF Commit, DataTypes, Publishing, Numbers
    <3>2. /\ meta' = RH!Published(meta, d)
          /\ commits' = [commits EXCEPT ![next] = meta'.digest]
          /\ UNCHANGED <<gen, view>>
      BY <2>8, <3>1 DEF Commit
    <3>3. /\ meta'.generation = next
          /\ meta'.digest = [number |-> next, epoch |-> meta.epoch, doc |-> d]
          /\ meta'.digest \in Digests
      BY <3>1, <3>2, PublishedFields
    <3>4. /\ gen[next] # NoFile
          /\ gen[next].digest = meta'.digest
          /\ gen[next].parent = meta.digest
      BY <3>1, <3>3 DEF FileFor, Listed
    <3>5. commits'[next] = meta'.digest /\ \A n \in Numbers : n <= meta.generation => commits'[n] = commits[n]
      BY <1>0, <3>1, <3>2 DEF DataTypes
    <3>6. meta.digest = IF next = 1 THEN NoDigest ELSE commits'[next - 1]
      BY <1>0, <3>1, <3>5 DEF FilesInv, HeadIsWhole, Numbers
    <3>7. FilesInv'
      <4>1. HeadIsWhole'
        BY <3>1, <3>2, <3>3, <3>4, <3>5 DEF HeadIsWhole, Listed
      <4>2. ASSUME NEW n \in Listed', n <= meta'.generation
            PROVE  gen'[n].digest = commits'[n] /\ gen'[n].parent = ParentOf(n)'
        <5>1. CASE n = next
          BY <3>2, <3>4, <3>5, <3>6, <5>1 DEF ParentOf
        <5>2. CASE n # next
          <6>1. n \in Listed /\ n \in Numbers /\ n <= meta.generation
            BY <1>0, <3>1, <3>2, <3>3, <4>2, <5>2 DEF Listed, Numbers
          <6>2. commits'[n] = commits[n] /\ (n # 1 => commits'[n - 1] = commits[n - 1])
            BY <1>0, <3>5, <6>1 DEF Numbers
          <6> QED BY <3>2, <6>1, <6>2 DEF FilesInv, HistoryIsChained, ParentOf
        <5> QED BY <5>1, <5>2
      <4>3. HistoryIsChained'
        BY <4>2 DEF HistoryIsChained
      <4>4. OneOrdinalOfDebris'
        BY <1>0, <3>1, <3>2, <3>3 DEF FilesInv, OneOrdinalOfDebris, Listed, Numbers
      <4> QED BY <4>1, <4>3, <4>4 DEF FilesInv
    <3>8. \A k \in Handles : pc'[k] \notin {"written", "switching", "pruning"}
      BY <1>0, <1>b, <2>8 DEF Commit, OwnerPcs, Serving, Publishing, LockInv
    <3>9. LoadedWasCommitted'
      <4>1. SUFFICES ASSUME NEW k \in Handles, view[k] # NoDigest
                     PROVE  view[k].number <= meta'.generation /\ commits'[view[k].number] = view[k]
        BY <3>2
      <4>2. view[k].number \in Numbers
        BY <1>0, <4>1 DEF DataTypes, Digests, RH!Digests, RH!Numbers, Numbers
      <4> QED BY <1>0, <3>1, <3>3, <3>5, <4>1, <4>2 DEF Numbers
    <3>10. \A n \in Numbers : n <= meta'.generation => commits'[n] \in Digests /\ commits'[n].number = n
      BY <1>0, <3>1, <3>3, <3>5 DEF Numbers
    <3> QED BY <1>0, <3>1, <3>3, <3>7, <3>8, <3>9, <3>10
  <2>9. CASE WriteFails(h)  BY <1>0, <1>c, <2>9 DEF WriteFails, DataTypes
  <2> QED BY <1>3, <2>1, <2>2, <2>3, <2>4, <2>5, <2>6, <2>7, <2>8, <2>9 DEF Publish
<1>4. ASSUME NEW h \in Handles, Prune(h) PROVE HistoryInv'
  <2>1. CASE \E keep \in 0..MaxGeneration : StartPrune(h, keep)
    <3>1. PICK keep \in 0..MaxGeneration : StartPrune(h, keep)
      BY <2>1
    <3>2. UNCHANGED <<meta, gen, commits, view>>
      BY <3>1 DEF StartPrune
    <3>3. \A k \in Handles : pc'[k] \notin {"written", "switching"}
      BY <1>0, <1>b, <3>1 DEF StartPrune, OwnerPcs, Serving, Publishing, LockInv
    <3>4. FilesInv'
      BY <3>2 DEF FilesInv, HeadIsWhole, HistoryIsChained, OneOrdinalOfDebris, Listed, ParentOf
    <3>5. \A n \in Expendable(keep) : n # meta.generation
      BY <1>0 DEF Expendable, Listed, FilesInv, HeadIsWhole, Numbers
    <3>6. job'[h].doomed = Expendable(keep)
      <4>1. Expendable(keep) \in SUBSET Numbers
        BY DEF Expendable, Listed
      <4>2. job' = [job EXCEPT ![h] = [job[h] EXCEPT !.doomed = Expendable(keep)]]
        BY <3>1 DEF StartPrune
      <4> QED BY <1>0, <4>1, <4>2, JobFields DEF DataTypes
    <3>7. \A k \in Handles : pc'[k] = "pruning" => k = h
      BY <1>0, <1>b, <3>1 DEF StartPrune, OwnerPcs, Serving, Publishing, LockInv
    <3> QED BY <3>2, <3>3, <3>4, <3>5, <3>6, <3>7
  <2>2. CASE PruneOldest(h)
    <3>1. PICK n \in job[h].doomed :
            /\ gen' = [gen EXCEPT ![n] = NoFile] \/ UNCHANGED gen
            /\ job' = [job EXCEPT ![h] = [job[h] EXCEPT !.doomed = job[h].doomed \ {n}]]
            /\ pc' = [pc EXCEPT ![h] = "open"] \/ UNCHANGED pc
      BY <2>2 DEF PruneOldest, TryRemove
    <3>2. UNCHANGED <<meta, commits, view>> /\ pc[h] = "pruning" /\ n # meta.generation
      BY <2>2, <3>1 DEF PruneOldest
    <3>3. n \in Numbers /\ job[h].doomed \in SUBSET Numbers
      BY <1>0, <3>1 DEF DataTypes, Jobs
    <3>4. gen' \in [Numbers -> Files \cup {NoFile}]
      BY <1>0, <3>1, <3>3 DEF DataTypes
    <3>5. \A m \in Numbers : gen'[m] = gen[m] \/ (m = n /\ gen'[m] = NoFile)
      BY <1>0, <3>1, <3>3 DEF DataTypes
    <3>6. FilesInv'
      BY <1>0, <3>2, <3>3, <3>4, <3>5, FilesPreserved
         DEF FilesInv, HeadIsWhole, OneOrdinalOfDebris, Listed, Numbers
    <3>7. \A k \in Handles : pc'[k] \notin {"written", "switching"} /\ (pc'[k] = "pruning" => k = h)
      BY <1>0, <1>b, <3>1, <3>2 DEF OwnerPcs, Serving, Publishing, LockInv
    <3>8. job'[h].doomed \subseteq job[h].doomed
      BY <1>0, <3>1, <3>3, JobFields DEF DataTypes
    <3> QED BY <3>2, <3>6, <3>7, <3>8
  <2> QED BY <1>4, <2>1, <2>2 DEF Prune
<1>5. ASSUME NEW h \in Handles, LoadLatest(h) PROVE HistoryInv'
  <2>1. CASE StartLoad(h)
    <3>1. PICK removed \in SUBSET {n \in Listed : n > meta.generation} :
            /\ h \notin Writers => removed = {}
            /\ gen' = [n \in Numbers |-> IF n \in removed THEN NoFile ELSE gen[n]]
      BY <2>1 DEF StartLoad
    <3>2. UNCHANGED <<meta, commits, view>> /\ pc[h] = "open" /\ pc' = [pc EXCEPT ![h] = "loading"]
      BY <2>1 DEF StartLoad
    <3>3. gen' \in [Numbers -> Files \cup {NoFile}]
      BY <1>0, <3>1 DEF DataTypes
    <3>4. FilesInv'
      BY <1>0, <3>1, <3>2, <3>3, FilesPreserved
         DEF FilesInv, HeadIsWhole, OneOrdinalOfDebris, Listed, Numbers
    <3>5. \A k \in Handles : k # h => job'[k] = job[k]
      BY <1>0, <2>1 DEF StartLoad, DataTypes
    <3>6. ASSUME NEW k \in Handles, pc'[k] \in {"written", "switching"} PROVE InPlace(k)'
      <4>1. k # h /\ pc[k] \in {"written", "switching"} /\ InPlace(k) /\ job'[k] = job[k]
        BY <1>0, <3>2, <3>5, <3>6
      <4>2. h \notin Writers
        BY <1>b, <3>2, <4>1 DEF OwnerPcs, Serving, Publishing
      <4>3. gen'[NextNumber(k)] = gen[NextNumber(k)]
        BY <3>1, <4>1, <4>2 DEF Listed
      <4> QED BY <4>1, <4>3 DEF Listed, NextNumber, FileFor
    <3>7. \A k \in Handles : pc'[k] = "pruning" => pc[k] = "pruning" /\ job'[k] = job[k]
      BY <1>0, <3>2, <3>5
    <3> QED BY <3>2, <3>4, <3>6, <3>7
  <2>2. CASE LoadCandidate(h)
    <3> DEFINE c == job[h].candidate
    <3>1. /\ c \in Listed /\ c <= meta.generation
          /\ view' = [view EXCEPT ![h] = gen[c].digest]
          /\ UNCHANGED <<meta, gen, commits>>
          /\ pc' = [pc EXCEPT ![h] = "open"] /\ job' = [job EXCEPT ![h] = NoJob]
      BY <2>2 DEF LoadCandidate, Readable, CallInv
    <3>2. gen[c].digest = commits[c] /\ commits[c].number = c
      BY <3>1 DEF FilesInv, HistoryIsChained, Listed
    <3>3. LoadedWasCommitted'
      BY <1>0, <3>1, <3>2 DEF DataTypes
    <3>4. FilesInv'
      BY <3>1 DEF FilesInv, HeadIsWhole, HistoryIsChained, OneOrdinalOfDebris, Listed, ParentOf
    <3>5. \A k \in Handles : pc'[k] \in {"written", "switching", "pruning"} => pc[k] = pc'[k] /\ job'[k] = job[k]
      BY <1>0, <3>1 DEF DataTypes
    <3>6. ASSUME NEW k \in Handles, pc'[k] \in {"written", "switching"} PROVE InPlace(k)'
      <4>1. InPlace(k) /\ job'[k] = job[k]
        BY <3>5, <3>6
      <4> QED BY <3>1, <4>1 DEF Listed, NextNumber, FileFor
    <3> QED BY <3>1, <3>3, <3>4, <3>5, <3>6
  <2>3. CASE SkipCandidate(h)
    <3>1. /\ UNCHANGED <<meta, gen, commits>> /\ pc[h] = "loading"
          /\ \A k \in Handles : view'[k] = view[k] \/ view'[k] = NoDigest
          /\ \A k \in Handles : k # h => pc'[k] = pc[k] /\ job'[k] = job[k]
          /\ pc'[h] \in {"loading", "open"}
      BY <1>0, <2>3 DEF SkipCandidate, DataTypes
    <3> QED BY <1>c, <3>1
  <2> QED BY <1>5, <2>1, <2>2, <2>3 DEF LoadLatest
<1>6. ASSUME NEW p \in Procs, Crash(p) PROVE HistoryInv'
  BY <1>0, <1>6, <1>c DEF Crash
<1>7. ASSUME NEW n \in Numbers, Damage(n) PROVE HistoryInv'
  <2>1. gen[n] \in Files /\ gen' = [gen EXCEPT ![n] = [gen[n] EXCEPT !.ok = FALSE]]
    BY <1>0, <1>7 DEF Damage, Listed, DataTypes
  <2>2. \A f \in Files : /\ [f EXCEPT !.ok = FALSE] \in Files
                         /\ [f EXCEPT !.ok = FALSE].digest = f.digest
                         /\ [f EXCEPT !.ok = FALSE].parent = f.parent
    BY DEF Files
  <2>3. gen' \in [Numbers -> Files \cup {NoFile}]
    BY <1>0, <2>1, <2>2 DEF DataTypes
  <2>4. \A m \in Numbers : /\ gen'[m] # NoFile <=> gen[m] # NoFile
                           /\ gen'[m].digest = gen[m].digest
                           /\ gen'[m].parent = gen[m].parent
    BY <1>0, <2>1, <2>2, NullAssumption DEF DataTypes
  <2>5. UNCHANGED <<meta, commits, view, pc, job>>
    BY <1>7 DEF Damage
  <2>6. FilesInv'
    BY <1>0, <2>3, <2>4, <2>5, FilesPreserved
       DEF FilesInv, HeadIsWhole, OneOrdinalOfDebris, Listed, Numbers
  <2>7. \A k \in Handles : pc'[k] \in {"written", "switching"} => InPlace(k)'
    BY <2>4, <2>5 DEF Listed, NextNumber, FileFor
  <2> QED BY <2>5, <2>6, <2>7
<1>8. CASE UNCHANGED vars
  BY <1>8, <1>c DEF vars
<1> QED BY <1>1, <1>2, <1>3, <1>4, <1>5, <1>6, <1>7, <1>8 DEF Next

LEMMA History == Spec => []HistoryInv
  BY Locking, Calling, HistoryInit, HistoryStep, PTL DEF Spec

\* The head always points at the file of the document it was committed with,
\* across crashes, failed writes, damage and pruning (Publish, Prune).
THEOREM HeadHolds == Spec => []HeadIsWhole
<1>1. HistoryInv => HeadIsWhole
  BY DEF HistoryInv, FilesInv
<1> QED BY History, <1>1, PTL

\* Every file at or below the head is the committed document of its ordinal and
\* names the digest committed before it, whatever debris an interrupted
\* publication left under that ordinal earlier (Publish, LoadLatest).
THEOREM HistoryHolds == Spec => []HistoryIsChained
<1>1. HistoryInv => HistoryIsChained
  BY DEF HistoryInv, FilesInv
<1> QED BY History, <1>1, PTL

\* What a handle has loaded was committed, also when a reader races the writer
\* that installs and withdraws files (LoadLatest).
THEOREM LoadingHolds == Spec => []LoadedWasCommitted
<1>1. HistoryInv => LoadedWasCommitted
  BY DEF HistoryInv
<1> QED BY History, <1>1, PTL

\* Failed and interrupted publications leave files under one ordinal only, the
\* one above the head (Publish).
THEOREM DebrisHolds == Spec => []OneOrdinalOfDebris
<1>1. HistoryInv => OneOrdinalOfDebris
  BY DEF HistoryInv, FilesInv
<1> QED BY History, <1>1, PTL

-----------------------------------------------------------------------------
(* How many files there are, and which of them still verify.                *)

\* Files disappear or are damaged, and none appears or is repaired.
Wears ==
  \A n \in Numbers : gen'[n] # NoFile => gen[n] # NoFile /\ (gen'[n].ok => gen[n].ok)

\* Only the rename of a publication's temporary file adds to the directory.
LEMMA FilesWear ==
  ASSUME LockInv, CallInv, [Next]_vars
  PROVE  Wears \/ \E h \in Handles : InstallFile(h)
<1> USE DEF Wears, Goto, Return, disk, locks
<1>0. gen \in [Numbers -> Files \cup {NoFile}]
  BY DEF CallInv, DataTypes
<1>1. ASSUME NEW h \in Handles, Opening(h) \/ Closing(h) PROVE Wears
  BY <1>1 DEF Opening, OpenReadOnly, Register, LockDirectory, LockRefused, ReadOwnership, WriteOwnership,
              OpenFails, Closing, Close, Unlock, Unregister
<1>2. ASSUME NEW h \in Handles, Publish(h), ~InstallFile(h) PROVE Wears
  <2>1. CASE UNCHANGED gen
    BY <2>1
  <2>2. CASE \E n : TryRemove(n)
    BY <1>0, <2>2 DEF TryRemove
  <2> QED BY <1>2, <2>1, <2>2
          DEF Publish, StartPublish, Cancel, Abandon, ClearTarget, Withdraw, Proceed, Commit, WriteFails
<1>3. ASSUME NEW h \in Handles, Prune(h) PROVE Wears
  BY <1>0, <1>3 DEF Prune, StartPrune, PruneOldest, TryRemove
<1>4. ASSUME NEW h \in Handles, LoadLatest(h) PROVE Wears
  BY <1>0, <1>4 DEF LoadLatest, StartLoad, LoadCandidate, SkipCandidate
<1>5. ASSUME NEW p \in Procs, Crash(p) PROVE Wears
  BY <1>5 DEF Crash
<1>6. ASSUME NEW n \in Numbers, Damage(n) PROVE Wears
  <2>1. gen[n] \in Files /\ gen' = [gen EXCEPT ![n] = [gen[n] EXCEPT !.ok = FALSE]]
    BY <1>0, <1>6 DEF Damage, Listed
  <2>2. [gen[n] EXCEPT !.ok = FALSE].ok = FALSE
    BY <2>1 DEF Files
  <2>3. gen'[n].ok = FALSE /\ gen[n] # NoFile /\ \A m \in Numbers : m # n => gen'[m] = gen[m]
    BY <1>0, <2>1, <2>2, NullAssumption
  <2> QED BY <2>3
<1>7. CASE UNCHANGED vars
  BY <1>7 DEF vars
<1> QED BY <1>1, <1>2, <1>3, <1>4, <1>5, <1>6, <1>7 DEF Next

\* The head moves only in the commit of the handle that holds the lock.
LEMMA HeadMoves ==
  ASSUME LockInv, CallInv, [Next]_vars
  PROVE  meta'.generation = meta.generation \/ \E h \in Handles : Commit(h)
<1> USE DEF disk, locks, Return
<1>1. ASSUME NEW h \in Handles, WriteOwnership(h) PROVE meta'.generation = meta.generation
  BY <1>1, TakenOverFields DEF WriteOwnership, OwnedMeta, CallInv, CountersLeft, DataTypes
<1> QED BY <1>1 DEF Next, Opening, OpenReadOnly, Register, LockDirectory, LockRefused, ReadOwnership,
             OpenFails, Closing, Close, Unlock, Unregister, Publish, StartPublish, Cancel, Abandon,
             ClearTarget, InstallFile, Withdraw, Proceed, WriteFails, Prune, StartPrune, PruneOldest,
             LoadLatest, StartLoad, LoadCandidate, SkipCandidate, Crash, Damage, vars

\* Between the check of max_generations and the rename there is room for the
\* file that is being written: it may be the one an earlier attempt left.
Filling == \E h \in Handles : pc[h] \in {"preparing", "writing"}

RoomInv ==
  MaxRetained # 0 =>
    /\ Cardinality(Listed) <= MaxRetained
    /\ Filling => Cardinality(Listed \cup {meta.generation + 1}) <= MaxRetained

LEMMA FilesAreFinite ==
  /\ IsFiniteSet(Listed) /\ Cardinality(Listed) \in Nat
  /\ IsFiniteSet(Listed') /\ Cardinality(Listed') \in Nat
<1>1. IsFiniteSet(Numbers)
  BY FS_Interval, ShapeAssumption DEF Numbers
<1>2. IsFiniteSet(Listed) /\ IsFiniteSet(Listed')
  BY <1>1, FS_Subset DEF Listed
<1> QED BY <1>2, FS_CardinalityType

LEMMA RoomStep == LockInv /\ CallInv /\ RoomInv /\ [Next]_vars => RoomInv'
<1> SUFFICES ASSUME LockInv, CallInv, RoomInv, [Next]_vars, MaxRetained # 0
             PROVE  /\ Cardinality(Listed') <= MaxRetained
                    /\ Filling' => Cardinality(Listed' \cup {meta'.generation + 1}) <= MaxRetained
  BY DEF RoomInv
<1> DEFINE g == meta.generation
<1>0. /\ MaxRetained \in Nat /\ IsFiniteSet(Listed \cup {g + 1})
      /\ Cardinality(Listed \cup {g + 1}) \in Nat
      /\ Cardinality(Listed \cup {g + 1}) <= Cardinality(Listed) + 1
  <2>1. /\ IsFiniteSet(Listed \cup {g + 1})
        /\ Cardinality(Listed \cup {g + 1})
             = IF g + 1 \in Listed THEN Cardinality(Listed) ELSE Cardinality(Listed) + 1
    BY FilesAreFinite, FS_AddElement
  <2> QED BY <2>1, FilesAreFinite, ShapeAssumption
<1>1. ASSUME Wears PROVE Cardinality(Listed') <= MaxRetained
  <2>1. Listed' \subseteq Listed
    BY <1>1 DEF Wears, Listed
  <2> QED BY <1>0, <2>1, FilesAreFinite, FS_Subset DEF RoomInv
<1>2. ASSUME Wears, Filling, meta'.generation = g
      PROVE  Cardinality(Listed' \cup {meta'.generation + 1}) <= MaxRetained
  <2>1. Listed' \cup {g + 1} \subseteq Listed \cup {g + 1}
    BY <1>2 DEF Wears, Listed
  <2>2. Cardinality(Listed' \cup {g + 1}) <= Cardinality(Listed \cup {g + 1})
    BY <1>0, <2>1, FS_Subset
  <2>3. Cardinality(Listed' \cup {g + 1}) \in Nat
    BY <1>0, <2>1, FS_Subset, FS_CardinalityType
  <2> QED BY <1>0, <1>2, <2>2, <2>3 DEF RoomInv
<1>3. ASSUME NEW h \in Handles, InstallFile(h)
      PROVE  /\ Cardinality(Listed') <= MaxRetained
             /\ Cardinality(Listed' \cup {meta'.generation + 1}) <= MaxRetained
  <2>1. NextNumber(h) = g + 1 /\ meta' = meta /\ Filling
    BY <1>3 DEF InstallFile, NextNumber, CallInv, PublishBaseIsCurrent, Publishing, Filling
  <2>2. Listed' \subseteq Listed \cup {g + 1}
    BY <1>3, <2>1 DEF InstallFile, Listed, CallInv, DataTypes
  <2>3. Listed' \cup {g + 1} \subseteq Listed \cup {g + 1}
    BY <2>2
  <2>4. /\ Cardinality(Listed') <= Cardinality(Listed \cup {g + 1})
        /\ Cardinality(Listed' \cup {g + 1}) <= Cardinality(Listed \cup {g + 1})
        /\ Cardinality(Listed' \cup {g + 1}) \in Nat
    BY <1>0, <2>2, <2>3, FS_Subset, FS_CardinalityType
  <2> QED BY <1>0, <2>1, <2>4, FilesAreFinite DEF RoomInv
\* Who starts to fill has seen that there is room.
<1>4. ASSUME Filling', ~Filling
      PROVE  HasRoom /\ gen' = gen /\ meta' = meta
  <2>1. PICK h \in Handles : pc'[h] \in {"preparing", "writing"} /\ pc[h] \notin {"preparing", "writing"}
    BY <1>4 DEF Filling
  <2>2. \E k \in Handles, d \in Docs, f \in Fences : StartPublish(k, d, f)
    <3> USE <2>1 DEF LockInv, LockTypes, Goto, Return, locks
    <3>1. ASSUME NEW k \in Handles, Opening(k) PROVE FALSE
      BY <3>1 DEF Opening, OpenReadOnly, Register, LockDirectory, LockRefused, ReadOwnership, WriteOwnership,
                  OpenFails
    <3>2. ASSUME NEW k \in Handles, Closing(k) PROVE FALSE
      BY <3>2 DEF Closing, Close, Unlock, Unregister
    <3>3. ASSUME NEW k \in Handles, Prune(k) \/ LoadLatest(k) PROVE FALSE
      BY <3>3 DEF Prune, StartPrune, PruneOldest, LoadLatest, StartLoad, LoadCandidate, SkipCandidate
    <3>4. ASSUME NEW k \in Handles, Publish(k),
                 ~\E d \in Docs, f \in Fences : StartPublish(k, d, f)
          PROVE  FALSE
      BY <3>4 DEF Publish, Cancel, Abandon, ClearTarget, InstallFile, Withdraw, Proceed, Commit, WriteFails
    <3>5. ASSUME (\E p \in Procs : Crash(p)) \/ (\E n \in Numbers : Damage(n)) \/ UNCHANGED vars
          PROVE  FALSE
      BY <3>5 DEF Crash, Damage, vars
    <3> QED BY <3>1, <3>2, <3>3, <3>4, <3>5 DEF Next
  <2> QED BY <2>2 DEF StartPublish, disk
<1>5. ASSUME NEW h \in Handles, Commit(h), Filling' PROVE FALSE
  <2>1. PICK k \in Handles : pc'[k] \in {"preparing", "writing"}
    BY <1>5 DEF Filling
  <2>2. k # h /\ pc[k] \in {"preparing", "writing"}
    BY <1>5, <2>1 DEF Commit, Return, Goto, LockInv, LockTypes
  <2>3. h \in Writers /\ k \in Writers /\ pc[h] \in OwnerPcs /\ pc[k] \in OwnerPcs
    BY <1>5, <2>2 DEF Commit, LockInv, OwnerPcs, Serving, Publishing
  <2> QED BY <2>2, <2>3, SoleOwner
<1>6. Cardinality(Listed') <= MaxRetained
  BY <1>1, <1>3, FilesWear
<1>7. ASSUME Filling' PROVE Cardinality(Listed' \cup {meta'.generation + 1}) <= MaxRetained
  <2>1. meta'.generation = g
    BY <1>5, <1>7, HeadMoves
  <2>2. CASE Filling
    BY <1>2, <1>3, <2>1, <2>2, FilesWear
  <2>3. CASE ~Filling
    <3>1. Listed' = Listed /\ Cardinality(Listed) + 1 <= MaxRetained
      BY <1>0, <1>4, <1>7, <2>3, FilesAreFinite DEF HasRoom, Listed
    <3> QED BY <1>0, <2>1, <3>1, FilesAreFinite
  <2> QED BY <2>2, <2>3
<1> QED BY <1>6, <1>7

\* The directory never holds more files than max_generations allows, what an
\* interrupted publication left behind included: the check made once at the
\* start still covers the rename (Publish).
THEOREM RetentionHolds == Spec => []RetentionIsBounded
<1>1. Init => RoomInv
  <2> SUFFICES ASSUME Init, MaxRetained # 0 PROVE Cardinality(Listed) <= MaxRetained /\ ~Filling
    BY DEF RoomInv
  <2>1. Listed = {} /\ ~Filling
    BY DEF Init, Listed, Filling
  <2> QED BY <2>1, FS_EmptySet, ShapeAssumption
<1>2. RoomInv => RetentionIsBounded
  BY DEF RoomInv, RetentionIsBounded
<1> QED BY Locking, Calling, RoomStep, <1>1, <1>2, PTL DEF Spec

-----------------------------------------------------------------------------
(* Recovery.                                                               *)

\* What a writer's walk down the history has passed over cannot be read.
WalkInv ==
  \A h \in Writers : pc[h] = "loading" =>
    \A n \in Numbers : n <= meta.generation /\ Readable(n) => n <= job[h].candidate

LEMMA WalkStep == LockInv /\ CallInv /\ WalkInv /\ [Next]_vars => WalkInv'
<1> SUFFICES ASSUME LockInv, CallInv, WalkInv, [Next]_vars,
                    NEW h \in Writers, pc'[h] = "loading",
                    NEW n \in Numbers, n <= meta'.generation, Readable(n)'
             PROVE  n <= job'[h].candidate
  BY DEF WalkInv
<1>0. /\ job \in [Handles -> Jobs] /\ gen \in [Numbers -> Files \cup {NoFile}]
      /\ pc \in [Handles -> Pcs] /\ h \in Handles /\ meta.generation \in Nat
  BY ShapeAssumption DEF CallInv, DataTypes, Metas, LockInv, LockTypes
\* While the writer is loading, nobody else may write.
<1>1. ASSUME pc[h] = "loading" PROVE meta'.generation = meta.generation /\ Wears
  <2>1. ASSUME NEW k \in Handles, InstallFile(k) \/ Commit(k) PROVE FALSE
    <3>1. k # h /\ k \in Writers /\ pc[k] \in OwnerPcs
      BY <1>1, <2>1 DEF InstallFile, Commit, LockInv, OwnerPcs, Serving, Publishing
    <3> QED BY <1>1, <3>1, SoleOwner DEF OwnerPcs, Serving
  <2> QED BY <2>1, HeadMoves, FilesWear
<1>2. CASE pc[h] = "loading" /\ job'[h].candidate = job[h].candidate
  <2>1. Readable(n) /\ n <= meta.generation
    BY <1>1, <1>2 DEF Wears, Readable, Listed
  <2> QED BY <1>2, <2>1 DEF WalkInv
<1>3. CASE SkipCandidate(h)
  <2>1. /\ pc[h] = "loading" /\ ~Readable(job[h].candidate) /\ job[h].candidate \in Nat
        /\ job' = [job EXCEPT ![h] = [job[h] EXCEPT !.candidate = job[h].candidate - 1]]
    BY <1>0, <1>3, ShapeAssumption DEF SkipCandidate, Return, Goto, Jobs
  <2>2. job'[h].candidate = job[h].candidate - 1
    BY <1>0, <2>1 DEF Jobs
  <2>3. Readable(n) /\ n <= meta.generation
    BY <1>1, <2>1 DEF Wears, Readable, Listed
  <2>4. n <= job[h].candidate /\ n # job[h].candidate
    BY <2>1, <2>3 DEF WalkInv
  <2> QED BY <2>1, <2>2, <2>4 DEF Numbers
<1>4. CASE StartLoad(h)
  <2>1. job' = [job EXCEPT ![h] = [job[h] EXCEPT !.candidate = meta.generation]] /\ meta' = meta
    BY <1>4 DEF StartLoad, FirstCandidate
  <2>2. job'[h].candidate = meta.generation
    BY <1>0, <2>1 DEF Jobs
  <2> QED BY <2>1, <2>2
<1>5. CASE /\ ~SkipCandidate(h) /\ ~StartLoad(h)
  <2>1. pc[h] = "loading" /\ job'[h].candidate = job[h].candidate
    <3> USE <1>0 DEF Goto, Return, locks
    <3>1. ASSUME NEW k \in Handles, Opening(k) PROVE pc[h] = "loading" /\ job'[h].candidate = job[h].candidate
      BY <3>1 DEF Opening, OpenReadOnly, Register, LockDirectory, LockRefused, ReadOwnership, WriteOwnership,
                  OpenFails
    <3>2. ASSUME NEW k \in Handles, Closing(k) PROVE pc[h] = "loading" /\ job'[h].candidate = job[h].candidate
      BY <3>2 DEF Closing, Close, Unlock, Unregister
    <3>3. ASSUME NEW k \in Handles, Publish(k) PROVE pc[h] = "loading" /\ job'[h].candidate = job[h].candidate
      BY <3>3 DEF Publish, StartPublish, Cancel, Abandon, ClearTarget, InstallFile, Withdraw, Proceed, Commit,
                  WriteFails, Publishing
    <3>4. ASSUME NEW k \in Handles, Prune(k) \/ LoadLatest(k)
          PROVE  pc[h] = "loading" /\ job'[h].candidate = job[h].candidate
      BY <1>5, <3>4 DEF Prune, StartPrune, PruneOldest, LoadLatest, StartLoad, LoadCandidate, SkipCandidate
    <3>5. ASSUME (\E p \in Procs : Crash(p)) \/ (\E m \in Numbers : Damage(m)) \/ UNCHANGED vars
          PROVE  pc[h] = "loading" /\ job'[h].candidate = job[h].candidate
      BY <3>5 DEF Crash, Damage, vars
    <3> QED BY <3>1, <3>2, <3>3, <3>4, <3>5 DEF Next
  <2> QED BY <1>2, <2>1
<1> QED BY <1>3, <1>4, <1>5

\* A load ends in LoadCandidate, or in SkipCandidate where nothing is left to try
\* (LoadLatest).
LEMMA LoadEnds ==
  ASSUME LockInv, CallInv, [Next]_vars, NEW h \in Writers,
         pc[h] = "loading", pc'[h] = "open"
  PROVE  LoadCandidate(h) \/ job[h].candidate = 0
<1> USE DEF Goto, Return, locks, LockInv, LockTypes, CallInv, DataTypes
<1>0. h \in Handles
  BY ShapeAssumption
<1>1. ASSUME NEW k \in Handles, Opening(k) PROVE FALSE
  BY <1>0, <1>1 DEF Opening, OpenReadOnly, Register, LockDirectory, LockRefused, ReadOwnership,
                    WriteOwnership, OpenFails
<1>2. ASSUME NEW k \in Handles, Closing(k) PROVE FALSE
  BY <1>0, <1>2 DEF Closing, Close, Unlock, Unregister
<1>3. ASSUME NEW k \in Handles, Publish(k) PROVE FALSE
  BY <1>0, <1>3 DEF Publish, StartPublish, Cancel, Abandon, ClearTarget, InstallFile, Withdraw, Proceed,
                    Commit, WriteFails, Publishing
<1>4. ASSUME NEW k \in Handles, Prune(k) PROVE FALSE
  BY <1>0, <1>4 DEF Prune, StartPrune, PruneOldest
<1>5. ASSUME NEW k \in Handles, LoadLatest(k) PROVE LoadCandidate(h) \/ job[h].candidate = 0
  <2>1. job[h].candidate \in Nat
    BY <1>0, ShapeAssumption DEF Jobs
  <2> QED BY <1>0, <1>5, <2>1 DEF LoadLatest, StartLoad, LoadCandidate, SkipCandidate
<1>6. ASSUME (\E p \in Procs : Crash(p)) \/ (\E m \in Numbers : Damage(m)) \/ UNCHANGED vars
      PROVE  FALSE
  BY <1>0, <1>6 DEF Crash, Damage, vars
<1> QED BY <1>1, <1>2, <1>3, <1>4, <1>5, <1>6 DEF Next

\* A writer's LoadLatest returns the newest committed generation that still
\* verifies, and nothing only when none does: while it walks down from the head no
\* other handle writes, and what it has passed stays unreadable (Open, LoadLatest).
THEOREM RecoveryHolds == Spec => RecoversNewest
<1>1. Init => WalkInv
  BY ShapeAssumption DEF Init, WalkInv
<1>2. ASSUME LockInv, CallInv, HistoryInv, WalkInv, [Next]_vars, NEW h \in Writers,
             pc[h] = "loading", pc'[h] = "open",
             NEW n \in Numbers, n <= meta.generation, Readable(n)
      PROVE  view'[h] # NoDigest /\ n <= view'[h].number
  <2> DEFINE c == job[h].candidate
  <2>0. n <= c /\ n >= 1 /\ n \in Nat
    BY <1>2 DEF WalkInv, Numbers
  <2>1. LoadCandidate(h) /\ h \in Handles
    BY <1>2, <2>0, LoadEnds, ShapeAssumption
  <2>2. c \in Listed /\ c <= meta.generation /\ view'[h] = gen[c].digest
    BY <1>2, <2>1 DEF LoadCandidate, Readable, CallInv, DataTypes
  <2>3. view'[h].number = c
    BY <1>2, <2>2 DEF HistoryInv, FilesInv, HistoryIsChained, Listed
  <2>4. view'[h] # NoDigest
    BY <1>2, <2>2, NullAssumption DEF CallInv, DataTypes, Listed, Files
  <2> QED BY <2>0, <2>3, <2>4
<1>3. LockInv /\ CallInv /\ HistoryInv /\ WalkInv /\ [Next]_vars =>
        \A h \in Writers : pc[h] = "loading" /\ pc'[h] = "open" =>
          \A n \in Numbers : n <= meta.generation /\ Readable(n) =>
            view'[h] # NoDigest /\ n <= view'[h].number
  BY <1>2
<1> QED BY Locking, Calling, History, WalkStep, <1>1, <1>3, PTL DEF Spec, RecoversNewest

-----------------------------------------------------------------------------
(* Cancellation and the abstract head.                                     *)

\* A token found cancelled at the last check keeps the call from switching.
TokenInv == \A h \in Handles : pc[h] = "switching" => job[h].token \in {"live", "switching"}

LEMMA TokenStep == LockInv /\ CallInv /\ TokenInv /\ [Next]_vars => TokenInv'
<1> SUFFICES ASSUME LockInv, CallInv, TokenInv, [Next]_vars PROVE TokenInv'
  OBVIOUS
<1> USE DEF TokenInv, Goto, Return, disk, locks
<1>0. pc \in [Handles -> Pcs] /\ job \in [Handles -> Jobs]
  BY DEF CallInv, DataTypes, LockInv, LockTypes
\* No other step starts a head switch or touches the locals of one.
<1>a. ASSUME NEW h \in Handles,
             \A k \in Handles : k # h => pc'[k] = pc[k] /\ job'[k] = job[k],
             pc'[h] # "switching" \/ (pc'[h] = pc[h] /\ job'[h] = job[h])
      PROVE  TokenInv'
  BY <1>a
<1>1. ASSUME NEW h \in Handles, Opening(h) PROVE TokenInv'
  BY <1>0, <1>a, <1>1 DEF Opening, OpenReadOnly, Register, LockDirectory, LockRefused,
     ReadOwnership, WriteOwnership, OpenFails
<1>2. ASSUME NEW h \in Handles, Closing(h) PROVE TokenInv'
  BY <1>0, <1>a, <1>2 DEF Closing, Close, Unlock, Unregister
<1>3. ASSUME NEW h \in Handles, Publish(h) PROVE TokenInv'
  <2>1. CASE \E d \in Docs, f \in Fences : StartPublish(h, d, f)
    BY <1>0, <1>a, <2>1 DEF StartPublish
  <2>2. CASE Cancel(h)
    <3>1. /\ job' = [job EXCEPT ![h] = [job[h] EXCEPT !.token = pc[h]]]
          /\ pc[h] \in Publishing /\ UNCHANGED pc
      BY <2>2 DEF Cancel
    <3>2. [job[h] EXCEPT !.token = pc[h]].token = pc[h]
      BY <1>0 DEF Jobs
    <3> QED BY <1>0, <3>1, <3>2
  <2>3. CASE Abandon(h)     BY <1>0, <1>a, <2>3 DEF Abandon
  <2>4. CASE ClearTarget(h) BY <1>0, <1>a, <2>4 DEF ClearTarget
  <2>5. CASE InstallFile(h) BY <1>0, <1>a, <2>5 DEF InstallFile
  <2>6. CASE Withdraw(h)    BY <1>0, <1>a, <2>6 DEF Withdraw
  <2>7. CASE Proceed(h)     BY <1>0, <2>7 DEF Proceed
  <2>8. CASE Commit(h)      BY <1>0, <1>a, <2>8 DEF Commit
  <2>9. CASE WriteFails(h)  BY <1>0, <1>a, <2>9 DEF WriteFails
  <2> QED BY <1>3, <2>1, <2>2, <2>3, <2>4, <2>5, <2>6, <2>7, <2>8, <2>9 DEF Publish
<1>4. ASSUME NEW h \in Handles, Prune(h) PROVE TokenInv'
  BY <1>0, <1>a, <1>4 DEF Prune, StartPrune, PruneOldest
<1>5. ASSUME NEW h \in Handles, LoadLatest(h) PROVE TokenInv'
  BY <1>0, <1>a, <1>5 DEF LoadLatest, StartLoad, LoadCandidate, SkipCandidate
<1>6. ASSUME NEW p \in Procs, Crash(p) PROVE TokenInv'
  BY <1>0, <1>6 DEF Crash
<1>7. ASSUME NEW n \in Numbers, Damage(n) PROVE TokenInv'
  BY <1>7 DEF Damage
<1>8. CASE UNCHANGED vars
  BY <1>8 DEF vars
<1> QED BY <1>1, <1>2, <1>3, <1>4, <1>5, <1>6, <1>7, <1>8 DEF Next

\* Every step of the directory, crashes and failures included, is a step of the
\* abstract head or leaves it alone.
LEMMA HeadStep == LockInv /\ CallInv /\ [Next]_vars => [RH!Next]_(RH!vars)
<1> SUFFICES ASSUME LockInv, CallInv, [Next]_vars
             PROVE  RH!Next \/ UNCHANGED <<meta, commits>>
  BY DEF RH!vars
<1> USE DEF Goto, Return, disk, locks
<1>1. ASSUME NEW h \in Handles, WriteOwnership(h) PROVE RH!Next
  <2>1. job[h].base = meta /\ CountersLeft
    BY <1>1 DEF WriteOwnership, CallInv
  <2> QED BY <1>1, <2>1 DEF WriteOwnership, OwnedMeta, CountersLeft, RH!Next, RH!TakeOver
<1>2. ASSUME NEW h \in Handles, Commit(h) PROVE RH!Next
  <2>1. /\ pc[h] = "switching" /\ job[h].base = meta
        /\ meta.generation < MaxGeneration /\ job[h].doc \in Docs
    BY <1>2 DEF Commit, CallInv, PublishBaseIsCurrent, Publishing
  <2>2. RH!Advance(job[h].doc)
    BY <1>2, <2>1 DEF Commit, NextNumber, RH!Advance
  <2> QED BY <2>1, <2>2 DEF RH!Next
<1>3. ASSUME NEW h \in Handles, Opening(h) PROVE RH!Next \/ UNCHANGED <<meta, commits>>
  BY <1>1, <1>3 DEF Opening, OpenReadOnly, Register, LockDirectory, LockRefused,
     ReadOwnership, OpenFails
<1>4. ASSUME NEW h \in Handles, Closing(h) PROVE UNCHANGED <<meta, commits>>
  BY <1>4 DEF Closing, Close, Unlock, Unregister
<1>5. ASSUME NEW h \in Handles, Publish(h) PROVE RH!Next \/ UNCHANGED <<meta, commits>>
  BY <1>2, <1>5 DEF Publish, StartPublish, Cancel, Abandon, ClearTarget, InstallFile,
     Withdraw, Proceed, WriteFails
<1>6. ASSUME NEW h \in Handles, Prune(h) PROVE UNCHANGED <<meta, commits>>
  BY <1>6 DEF Prune, StartPrune, PruneOldest
<1>7. ASSUME NEW h \in Handles, LoadLatest(h) PROVE UNCHANGED <<meta, commits>>
  BY <1>7 DEF LoadLatest, StartLoad, LoadCandidate, SkipCandidate
<1>8. ASSUME NEW p \in Procs, Crash(p) PROVE UNCHANGED <<meta, commits>>
  BY <1>8 DEF Crash
<1>9. ASSUME NEW n \in Numbers, Damage(n) PROVE UNCHANGED <<meta, commits>>
  BY <1>9 DEF Damage
<1> QED BY <1>3, <1>4, <1>5, <1>6, <1>7, <1>8, <1>9 DEF Next, vars

\* The directory implements the abstract head for every number of handles,
\* processes and generations: the head only moves forward, one ordinal or one
\* owner at a time, whatever is interrupted (Open, Publish).
THEOREM HeadImplemented == Spec => ImplementsHead
<1>1. Init => RH!Init
  BY DEF Init, RH!Init, Numbers, RH!Numbers
<1> QED BY Locking, Calling, HeadStep, <1>1, PTL DEF Spec, ImplementsHead, RH!Spec

\* A publication whose token was cancelled before its last check never moves
\* the head (Publish).
THEOREM CancellationHolds == Spec => CancelledNeverCommits
<1>1. Init => TokenInv
  BY DEF Init, TokenInv
<1>2. TokenInv => \A h \in Handles :
        pc[h] = "switching" /\ meta'.generation # meta.generation
          => job[h].token \in {"live", "switching"}
  BY DEF TokenInv
<1> QED BY Locking, Calling, TokenStep, <1>1, <1>2, PTL DEF Spec, CancelledNeverCommits
=============================================================================
