------------------------------- MODULE Store -------------------------------
(***************************************************************************)
(* RegistryStore (src/src/store.cpp): one data directory, opened by several *)
(* handles in several processes.  The directory holds registry.meta, the    *)
(* gen-NNN.fcr files and the byte-range lock of registry.lock; everything   *)
(* else is local to a handle or to a process and is lost in a crash.        *)
(*                                                                         *)
(* A call is split wherever another handle, a crash, a failed write or a   *)
(* cancellation can be seen between two of its effects on the directory.   *)
(* WriteFileAtomic writes a temporary name that no reader ever opens, then  *)
(* renames it: a step that "installs" a file is the rename.                 *)
(***************************************************************************)
EXTENDS Naturals, FiniteSets

CONSTANTS Handles,        \* RegistryStore objects
          Writers,        \* those opened with OpenMode::ReadWrite
          Procs,          \* operating-system processes
          ProcOf,         \* the process a handle lives in
          Docs,           \* documents a publisher may present
          MaxGeneration,  \* largest GenerationNumber (2^64 - 1 in the code)
          MaxEpoch,       \* largest PublisherEpoch and Incarnation
          MaxRetained,    \* StoreOptions::max_generations, 0 for no limit
          Damageable,     \* ordinals whose file the medium may damage
          NoDigest, NoFile, NoDoc

ASSUME ShapeAssumption ==
  /\ Writers \subseteq Handles
  /\ ProcOf \in [Handles -> Procs]
  /\ MaxGeneration \in Nat \ {0}
  /\ MaxEpoch \in Nat
  /\ MaxRetained \in Nat

VARIABLES meta,        \* registry.meta; all zero while the file is missing
          gen,         \* gen[n]: the file gen-n.fcr, or NoFile
          commits,     \* history: the digest each ordinal was committed with
          lock,        \* the handles holding the byte-range lock
          registered,  \* processes whose WriterRegistry holds the directory
          pc,          \* where each handle is in its current call
          owned,       \* incarnation_ and epoch_ of each handle
          job,         \* the locals of the call a handle is executing
          view         \* what the handle's last LoadLatest returned

disk == <<meta, gen, commits>>
locks == <<lock, registered>>
vars == <<disk, locks, pc, owned, job, view>>

-----------------------------------------------------------------------------
(* Values.                                                                 *)

\* Digests, Published and TakenOver are those of the abstract head.
RH == INSTANCE RegistryHead WITH head <- meta, log <- commits

Numbers == 1..MaxGeneration
Digests == RH!Digests
Epochs == 0..MaxEpoch
Metas == [generation : 0..MaxGeneration, digest : Digests \cup {NoDigest},
          epoch : Epochs, incarnation : Epochs, total : Nat]

\* A generation file: the digest of its document, the parent digest inside
\* the document, and whether its header, CRC and payload hash still verify.
Files == [digest : Digests, parent : Digests \cup {NoDigest}, ok : BOOLEAN]

\* The null values are nobody's data.
ASSUME NullAssumption ==
  /\ NoFile \notin Files
  /\ NoDigest \notin Digests
  /\ NoDoc \notin Docs

Fences == [generation : 0..MaxGeneration, epoch : Epochs, incarnation : Epochs]

\* The locals of a call.  token is "live" or the step at which the caller's
\* CancellationToken was cancelled.
Publishing == {"preparing", "writing", "written", "switching"}
Jobs == [base : Metas, fence : Fences, doc : Docs \cup {NoDoc},
         token : {"live"} \cup Publishing, doomed : SUBSET Numbers,
         candidate : 0..MaxGeneration]

FenceOf(m) == [generation |-> m.generation, epoch |-> m.epoch,
               incarnation |-> m.incarnation]

NoJob == [base |-> RH!ZeroMeta, fence |-> FenceOf(RH!ZeroMeta), doc |-> NoDoc,
          token |-> "live", doomed |-> {}, candidate |-> 0]

NotOwner == [epoch |-> 0, incarnation |-> 0]

\* Calls run while a handle is open; a writer holds the byte-range lock in all
\* the states of OwnerPcs, from LockFileEx to UnlockFileEx.
Serving == {"open", "pruning", "loading"} \cup Publishing
OwnerPcs == Serving \cup {"locked", "opening", "releasing"}
Pcs == OwnerPcs \cup {"closed", "registered", "unregistering"}

\* ListGenerations: every file with a generation name, committed or not.
Listed == {n \in Numbers : gen[n] # NoFile}

\* LoadGeneration succeeds: the file exists and every check of it passes.
Readable(n) == n \in Listed /\ gen[n].ok

\* Variants named after a mistake (RegisterUnchecked, ...) stand before the
\* definition they distort; nothing in the model uses them.

\* NextGeneration of the head the call read.
NextNumber(h) == job[h].base.generation + 1

-----------------------------------------------------------------------------
Init == /\ meta = RH!ZeroMeta
        /\ gen = [n \in Numbers |-> NoFile]
        /\ commits = [n \in Numbers |-> NoDigest]
        /\ lock = {}
        /\ registered = {}
        /\ pc = [h \in Handles |-> "closed"]
        /\ owned = [h \in Handles |-> NotOwner]
        /\ job = [h \in Handles |-> NoJob]
        /\ view = [h \in Handles |-> NoDigest]

Goto(h, to) == pc' = [pc EXCEPT ![h] = to]

\* A call returns to its caller, with or without an error.
Return(h) == /\ Goto(h, "open")
             /\ job' = [job EXCEPT ![h] = NoJob]

-----------------------------------------------------------------------------
(* RegistryStore::Open and ReleaseLock.                                    *)

\* A reader takes no lock and changes nothing; it caches the owner it saw.
OpenReadOnly(h) ==
  /\ h \notin Writers
  /\ pc[h] = "closed"
  /\ Goto(h, "open")
  /\ owned' = [owned EXCEPT ![h] = [epoch |-> meta.epoch,
                                    incarnation |-> meta.incarnation]]
  /\ UNCHANGED <<disk, locks, job, view>>

RegisterUnchecked(h) ==
  /\ h \in Writers
  /\ pc[h] = "closed"
  /\ registered' = registered \cup {ProcOf[h]}
  /\ Goto(h, "registered")
  /\ UNCHANGED <<disk, lock, owned, job, view>>

\* One writer per process and directory.  A refused Open changes nothing: the
\* error is returned before held_directory_key_ is set.
Register(h) ==
  /\ h \in Writers
  /\ pc[h] = "closed"
  /\ ProcOf[h] \notin registered
  /\ registered' = registered \cup {ProcOf[h]}
  /\ Goto(h, "registered")
  /\ UNCHANGED <<disk, lock, owned, job, view>>

\* LockFileEx fails at once when another process holds the range.  Between
\* handles of one process the code does not rely on it (store.hpp:174): the
\* outcome is left open.
LockDirectory(h) ==
  /\ pc[h] = "registered"
  /\ \A k \in lock : ProcOf[k] = ProcOf[h]
  /\ lock' = lock \cup {h}
  /\ Goto(h, "locked")
  /\ UNCHANGED <<disk, registered, owned, job, view>>

\* Another handle holds the range, or the lock file cannot be opened.
LockRefused(h) ==
  /\ pc[h] = "registered"
  /\ Goto(h, "unregistering")
  /\ UNCHANGED <<disk, locks, owned, job, view>>

CountersLeftOffByOne == meta.incarnation <= MaxEpoch /\ meta.epoch <= MaxEpoch

\* NextIncarnation and NextEpoch refuse to wrap.
CountersLeft == meta.incarnation < MaxEpoch /\ meta.epoch < MaxEpoch

ReadOwnership(h) ==
  /\ pc[h] = "locked"
  /\ CountersLeft
  /\ job' = [job EXCEPT ![h].base = meta]
  /\ Goto(h, "opening")
  /\ UNCHANGED <<disk, locks, owned, view>>

OwnedMetaSameEpoch(m) == [m EXCEPT !.incarnation = @ + 1]

OwnedMeta(m) == RH!TakenOver(m)

\* The rename of the new metadata: the previous owner's fences are now stale.
WriteOwnership(h) ==
  /\ pc[h] = "opening"
  /\ meta' = OwnedMeta(job[h].base)
  /\ owned' = [owned EXCEPT ![h] = [epoch |-> meta'.epoch,
                                    incarnation |-> meta'.incarnation]]
  /\ Return(h)
  /\ UNCHANGED <<gen, commits, locks, view>>

\* Unreadable metadata, an exhausted counter or a failed write: the partly
\* opened store is destroyed, which releases what it holds.
OpenFails(h) ==
  /\ pc[h] \in {"locked", "opening"}
  /\ Goto(h, "releasing")
  /\ job' = [job EXCEPT ![h] = NoJob]
  /\ UNCHANGED <<disk, locks, owned, view>>

Close(h) ==
  /\ pc[h] = "open"
  /\ Goto(h, IF h \in Writers THEN "releasing" ELSE "closed")
  /\ owned' = [owned EXCEPT ![h] = NotOwner]
  /\ view' = [view EXCEPT ![h] = NoDigest]
  /\ UNCHANGED <<disk, locks, job>>

\* ReleaseLock gives the byte range up first, the process entry second.
Unlock(h) ==
  /\ pc[h] = "releasing"
  /\ lock' = lock \ {h}
  /\ Goto(h, "unregistering")
  /\ UNCHANGED <<disk, registered, owned, job, view>>

Unregister(h) ==
  /\ pc[h] = "unregistering"
  /\ registered' = registered \ {ProcOf[h]}
  /\ Goto(h, "closed")
  /\ UNCHANGED <<disk, lock, owned, job, view>>

\* The process dies: the system drops its handles and with them the lock, and
\* its memory is gone.  The directory keeps whatever the last rename left.
Crash(p) ==
  LET lost == {h \in Handles : ProcOf[h] = p}
  IN /\ \E h \in lost : pc[h] # "closed"
     /\ pc' = [h \in Handles |-> IF h \in lost THEN "closed" ELSE pc[h]]
     /\ job' = [h \in Handles |-> IF h \in lost THEN NoJob ELSE job[h]]
     /\ view' = [h \in Handles |-> IF h \in lost THEN NoDigest ELSE view[h]]
     /\ lock' = lock \ lost
     /\ registered' = registered \ {p}
     /\ owned' = [h \in Handles |-> IF h \in lost THEN NotOwner ELSE owned[h]]
     /\ UNCHANGED disk

-----------------------------------------------------------------------------
(* RegistryStore::Publish.                                                 *)

FenceIgnoresEpoch(f, m) == f.generation = m.generation /\ f.incarnation = m.incarnation

\* All three fencing values must match the metadata the call has just read.
FenceAccepts(f, m) ==
  /\ f.generation = m.generation
  /\ f.epoch = m.epoch
  /\ f.incarnation = m.incarnation

HasRoomOffByOne == MaxRetained = 0 \/ Cardinality(Listed) <= MaxRetained

HasRoom == MaxRetained = 0 \/ Cardinality(Listed) < MaxRetained

StartPublish(h, d, f) ==
  /\ h \in Writers
  /\ pc[h] = "open"
  /\ FenceAccepts(f, meta)
  /\ meta.generation < MaxGeneration
  /\ HasRoom
  /\ job' = [job EXCEPT ![h] = [base |-> meta, fence |-> f, doc |-> d, token |-> "live",
                               doomed |-> {}, candidate |-> 0]]
  /\ Goto(h, "preparing")
  /\ UNCHANGED <<disk, locks, owned, view>>

\* The caller cancels its token while the call is running.
Cancel(h) ==
  /\ pc[h] \in Publishing
  /\ job[h].token = "live"
  /\ job' = [job EXCEPT ![h].token = pc[h]]
  /\ UNCHANGED <<disk, locks, pc, owned, view>>

\* std::filesystem::remove with its error ignored: the file may stay.
TryRemove(n) == \/ gen' = [gen EXCEPT ![n] = NoFile]
                \/ UNCHANGED gen

\* Cancelled, refused by Compile or too large to encode.
Abandon(h) ==
  /\ pc[h] = "preparing"
  /\ Return(h)
  /\ UNCHANGED <<disk, locks, owned, view>>

\* Any file left under the next ordinal by an earlier attempt is removed, and
\* the temporary file is being written.
ClearTarget(h) ==
  /\ pc[h] = "preparing"
  /\ job[h].token = "live"
  /\ TryRemove(NextNumber(h))
  /\ Goto(h, "writing")
  /\ UNCHANGED <<meta, commits, locks, owned, job, view>>

FileWithoutParent(h) ==
  [digest |-> [number |-> NextNumber(h), epoch |-> job[h].base.epoch, doc |-> job[h].doc],
   parent |-> NoDigest,
   ok |-> TRUE]

FileFor(h) ==
  [digest |-> [number |-> NextNumber(h), epoch |-> job[h].base.epoch, doc |-> job[h].doc],
   parent |-> job[h].base.digest,
   ok |-> TRUE]

InstallFile(h) ==
  /\ pc[h] = "writing"
  /\ gen' = [gen EXCEPT ![NextNumber(h)] = FileFor(h)]
  /\ Goto(h, "written")
  /\ UNCHANGED <<meta, commits, locks, owned, job, view>>

\* Cancelled between the file and the head switch: the file is removed.
Withdraw(h) ==
  /\ pc[h] = "written"
  /\ job[h].token # "live"
  /\ TryRemove(NextNumber(h))
  /\ Return(h)
  /\ UNCHANGED <<meta, commits, locks, owned, view>>

ProceedUnchecked(h) ==
  /\ pc[h] = "written"
  /\ Goto(h, "switching")
  /\ UNCHANGED <<disk, locks, owned, job, view>>

Proceed(h) ==
  /\ pc[h] = "written"
  /\ job[h].token = "live"
  /\ Goto(h, "switching")
  /\ UNCHANGED <<disk, locks, owned, job, view>>

\* The rename of the metadata is the commit point.
Commit(h) ==
  /\ pc[h] = "switching"
  /\ meta' = RH!Published(job[h].base, job[h].doc)
  /\ commits' = [commits EXCEPT ![NextNumber(h)] = meta'.digest]
  /\ Return(h)
  /\ UNCHANGED <<gen, locks, owned, view>>

\* WriteFileAtomic fails: the temporary file is deleted, the target untouched.
\* After a failed head switch the generation file stays behind, uncommitted.
WriteFails(h) ==
  /\ pc[h] \in {"writing", "switching"}
  /\ Return(h)
  /\ UNCHANGED <<disk, locks, owned, view>>

-----------------------------------------------------------------------------
(* RegistryStore::Prune and LoadLatest.                                    *)

ExpendableEvenHead(keep) ==
  {n \in Listed : Cardinality({k \in Listed : k <= n}) + keep <= Cardinality(Listed)}

\* The oldest files beyond keep, stopping at the authoritative generation.
Expendable(keep) ==
  {n \in Listed : /\ Cardinality({k \in Listed : k <= n}) + keep <= Cardinality(Listed)
                  /\ meta.generation \in Listed => n < meta.generation}

StartPrune(h, keep) ==
  /\ h \in Writers
  /\ pc[h] = "open"
  /\ Expendable(keep) # {}
  /\ job' = [job EXCEPT ![h].doomed = Expendable(keep)]
  /\ Goto(h, "pruning")
  /\ UNCHANGED <<disk, locks, owned, view>>

PruneOldest(h) ==
  /\ pc[h] = "pruning"
  /\ \E n \in job[h].doomed :
       /\ \A k \in job[h].doomed : n <= k
       /\ TryRemove(n)
       /\ job' = [job EXCEPT ![h].doomed = @ \ {n}]
       /\ IF job[h].doomed = {n} THEN Goto(h, "open") ELSE UNCHANGED pc
  /\ UNCHANGED <<meta, commits, locks, owned, view>>

NewestFile == CHOOSE n \in Listed : \A k \in Listed : k <= n

\* Recovery starts from the head the metadata names and walks down.
FirstCandidate == meta.generation

\* A writer deletes what is newer than the head; each deletion may fail.
StartLoad(h) ==
  /\ pc[h] = "open"
  /\ meta.generation > 0
  /\ \E removed \in SUBSET {n \in Listed : n > meta.generation} :
       /\ h \notin Writers => removed = {}
       /\ gen' = [n \in Numbers |-> IF n \in removed THEN NoFile ELSE gen[n]]
  /\ job' = [job EXCEPT ![h].candidate = FirstCandidate]
  /\ Goto(h, "loading")
  /\ UNCHANGED <<meta, commits, locks, owned, view>>

LoadCandidate(h) ==
  /\ pc[h] = "loading"
  /\ Readable(job[h].candidate)
  /\ view' = [view EXCEPT ![h] = gen[job[h].candidate].digest]
  /\ Return(h)
  /\ UNCHANGED <<disk, locks, owned>>

GiveUpAtHead(h) ==
  /\ pc[h] = "loading"
  /\ ~Readable(job[h].candidate)
  /\ view' = [view EXCEPT ![h] = NoDigest]
  /\ Return(h)
  /\ UNCHANGED <<disk, locks, owned>>

SkipCandidate(h) ==
  /\ pc[h] = "loading"
  /\ ~Readable(job[h].candidate)
  /\ IF job[h].candidate > 0
     THEN /\ job' = [job EXCEPT ![h].candidate = @ - 1]
          /\ UNCHANGED <<pc, view>>
     ELSE /\ view' = [view EXCEPT ![h] = NoDigest]
          /\ Return(h)
  /\ UNCHANGED <<disk, locks, owned>>

\* The medium damages a file; the frame's CRC and hashes no longer verify.
Damage(n) ==
  /\ n \in Damageable \cap Listed
  /\ gen' = [gen EXCEPT ![n].ok = FALSE]
  /\ UNCHANGED <<meta, commits, locks, pc, owned, job, view>>

-----------------------------------------------------------------------------
Opening(h) == \/ OpenReadOnly(h) \/ Register(h) \/ LockDirectory(h) \/ LockRefused(h)
              \/ ReadOwnership(h) \/ WriteOwnership(h) \/ OpenFails(h)
Closing(h) == Close(h) \/ Unlock(h) \/ Unregister(h)
Publish(h) == \/ \E d \in Docs, f \in Fences : StartPublish(h, d, f)
              \/ Cancel(h) \/ Abandon(h) \/ ClearTarget(h) \/ InstallFile(h)
              \/ Withdraw(h) \/ Proceed(h) \/ Commit(h) \/ WriteFails(h)
Prune(h) == (\E keep \in 0..MaxGeneration : StartPrune(h, keep)) \/ PruneOldest(h)
LoadLatest(h) == StartLoad(h) \/ LoadCandidate(h) \/ SkipCandidate(h)

Next == \/ \E h \in Handles : Opening(h) \/ Closing(h) \/ Publish(h) \/ Prune(h) \/ LoadLatest(h)
        \/ \E p \in Procs : Crash(p)
        \/ \E n \in Numbers : Damage(n)

Spec == Init /\ [][Next]_vars
-----------------------------------------------------------------------------
(* Properties.                                                             *)

\* Every variable stays in its range; in particular the counters never pass
\* the largest value of their integer type.
TypeOK ==
  /\ meta \in Metas
  /\ gen \in [Numbers -> Files \cup {NoFile}]
  /\ commits \in [Numbers -> Digests \cup {NoDigest}]
  /\ lock \in SUBSET Handles
  /\ registered \in SUBSET Procs
  /\ pc \in [Handles -> Pcs]
  /\ owned \in [Handles -> [epoch : Epochs, incarnation : Epochs]]
  /\ job \in [Handles -> Jobs]
  /\ view \in [Handles -> Digests \cup {NoDigest}]

\* The head always points at the file of the very document it was committed
\* with, whatever crashed, failed or was pruned in between (README "The
\* metadata update is the commit point"; Publish, Prune, LoadLatest).
HeadIsWhole ==
  meta.generation > 0 =>
    /\ meta.digest = commits[meta.generation]
    /\ meta.generation \in Listed
    /\ gen[meta.generation].digest = meta.digest

ParentOf(n) == IF n = 1 THEN NoDigest ELSE commits[n - 1]

\* A file at or below the head is the committed document of its ordinal and
\* names the committed digest before it: history is immutable and chained even
\* when an earlier attempt left a file under the same ordinal (Publish).
HistoryIsChained ==
  \A n \in Listed : n <= meta.generation =>
    /\ gen[n].digest = commits[n]
    /\ gen[n].parent = ParentOf(n)

\* A handle open for writing still is the owner the metadata names: no second
\* writer, in this process or another, took the directory over (Open).
WriterOwnsDirectory ==
  \A h \in Writers : pc[h] \in Serving =>
    owned[h] = [epoch |-> meta.epoch, incarnation |-> meta.incarnation]

\* The metadata and the fence a publication checked when it started are still
\* those of the directory at every later step up to the commit (Publish reads
\* the metadata once).
PublishBaseIsCurrent ==
  \A h \in Handles : pc[h] \in Publishing =>
    /\ job[h].base = meta
    /\ job[h].fence = FenceOf(meta)

\* What LoadLatest returns was committed under its ordinal: debris is never
\* adopted, by a writer or by a reader that races one.
LoadedWasCommitted ==
  \A h \in Handles : view[h] # NoDigest =>
    /\ view[h].number <= meta.generation
    /\ commits[view[h].number] = view[h]

\* max_generations bounds the files in the directory, debris included.
RetentionIsBounded == MaxRetained # 0 => Cardinality(Listed) <= MaxRetained

\* At most one file is ahead of the head: failed and crashed publications pile
\* up under one ordinal only.
OneOrdinalOfDebris == \A n \in Listed : n <= meta.generation + 1

\* A token cancelled before the last check of Publish keeps that publication
\* from committing (README "A cancelled publication leaves no committed
\* generation").
CancelledNeverCommits ==
  [][\A h \in Handles :
       pc[h] = "switching" /\ meta'.generation # meta.generation
         => job[h].token \in {"live", "switching"}]_vars

\* A writer's LoadLatest returns the newest committed generation that still
\* verifies, however much of the history is damaged, and an error only when there
\* is none.
RecoversNewest ==
  [][\A h \in Writers : pc[h] = "loading" /\ pc'[h] = "open" =>
       \A n \in Numbers : n <= meta.generation /\ Readable(n) =>
         view'[h] # NoDigest /\ n <= view'[h].number]_vars

\* Every step is a step of the abstract head or leaves it alone.
ImplementsHead == RH!Spec
=============================================================================
