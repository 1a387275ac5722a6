------------------------------ MODULE Authority ------------------------------
(***************************************************************************)
(* RegistryAuthority (src/src/authority.cpp) over one writable data         *)
(* directory: what one service process keeps in memory, what it leaves on   *)
(* disk, and the calls of several clients that interleave in between.       *)
(*                                                                         *)
(* A step is what a call does between two acquisitions of mutex_; the       *)
(* store's own calls run under the exclusive lock of their caller and are   *)
(* one step with several outcomes (Store.tla has their inside).  A crash    *)
(* may come between any two steps and inside a commit.                      *)
(***************************************************************************)
EXTENDS Naturals, FiniteSets

CONSTANTS Clients,        \* callers: sessions of the service, threads of an embedder
          Docs,           \* documents they publish
          Publishable,    \* those that pass static validation
          MaxGeneration,  \* largest GenerationNumber
          MaxEpoch,       \* largest PublisherEpoch and Incarnation
          Damageable,     \* ordinals whose file the medium may damage
          NoDigest, NoFile

ASSUME DocsAssumption == Publishable \subseteq Docs
ASSUME BoundsAssumption == MaxGeneration \in Nat \ {0} /\ MaxEpoch \in Nat

VARIABLES meta,      \* disk: registry.meta
          files,     \* disk: files[n] is gen-n.fcr, or NoFile
          commits,   \* history: the digest each ordinal was committed with
          running,   \* the service process is up
          cancelled, \* the shutdown token of this process, given to every Publish
          cached,    \* memory: meta_
          current,   \* memory: current_, by its id
          history,   \* memory: history_, ordinal by ordinal
          identity,  \* memory: epoch_ and incarnation_
          pc,        \* where each client's call is
          call,      \* the locals of the call
          stamp,     \* the stamp a client last received
          answer     \* what a client was last answered

disk == <<meta, files, commits>>
memory == <<cached, current, history, identity>>
clients == <<pc, call, stamp, answer>>
vars == <<disk, running, cancelled, memory, clients>>

RH == INSTANCE RegistryHead WITH head <- meta, log <- commits

Numbers == 1..MaxGeneration
Files == [digest : RH!Digests, ok : BOOLEAN]

ASSUME NullAssumption == NoDigest \notin RH!Digests /\ NoFile \notin Files

NoFence == [epoch |-> 0, incarnation |-> 0]
NoStamp == [incarnation |-> 0, id |-> NoDigest]
IdentityOf(m) == [epoch |-> m.epoch, incarnation |-> m.incarnation]

\* A call's locals: the expectation and the document of a publication, the stamp
\* a request was checked against.
NoCall == [expected |-> 0, doc |-> NoDigest, stamp |-> NoStamp]

\* An answer: kind is none, refused, published or queried and tells what id is,
\* the generation a publication became, or the one that a query was answered
\* from.
NoAnswer == [kind |-> "none", id |-> NoDigest, call |-> NoCall]

Init == /\ meta = RH!ZeroMeta
        /\ files = [n \in Numbers |-> NoFile]
        /\ commits = [n \in Numbers |-> NoDigest]
        /\ running = FALSE
        /\ cancelled = FALSE
        /\ cached = RH!ZeroMeta
        /\ current = NoDigest
        /\ history = [n \in Numbers |-> NoDigest]
        /\ identity = NoFence
        /\ pc = [c \in Clients |-> "idle"]
        /\ call = [c \in Clients |-> NoCall]
        /\ stamp = [c \in Clients |-> NoStamp]
        /\ answer = [c \in Clients |-> NoAnswer]

\* NextGeneration of the cached head.
HasNext == cached.generation < MaxGeneration

Listed == {n \in Numbers : files[n] # NoFile}
Readable(n) == n \in Listed /\ files[n].ok

Without(map, removed, none) == [n \in Numbers |-> IF n \in removed THEN none ELSE map[n]]

Answer(c, kind, id) ==
  /\ answer' = [answer EXCEPT ![c] = [kind |-> kind, id |-> id, call |-> call[c]]]
  /\ pc' = [pc EXCEPT ![c] = "idle"]
  /\ call' = [call EXCEPT ![c] = NoCall]
  /\ UNCHANGED stamp

Begin(c, at, locals) ==
  /\ running /\ pc[c] = "idle"
  /\ pc' = [pc EXCEPT ![c] = at]
  /\ call' = [call EXCEPT ![c] = locals]
  /\ UNCHANGED <<stamp, answer>>

-----------------------------------------------------------------------------
(* Open, and the end of the process.                                       *)

\* Variants named after a mistake stand before the definition they distort;
\* nothing in the model uses them.
RecoverableEvenDebris == {n \in Numbers : Readable(n)}

\* What LoadLatest may fall back to.
Recoverable == {n \in Numbers : Readable(n) /\ n <= meta.generation}

\* RegistryStore::Open takes the directory over; LoadLatest, which a directory
\* without a head is not asked for, then deletes what is newer than the head,
\* unless the deletion fails.
TakeDirectory ==
  /\ ~running
  /\ meta.epoch < MaxEpoch /\ meta.incarnation < MaxEpoch
  /\ meta' = RH!TakenOver(meta)
  /\ \E removed \in SUBSET {n \in Listed : 0 < meta.generation /\ meta.generation < n} :
       files' = Without(files, removed, NoFile)

OpenRollingBack ==
  /\ ~running
  /\ meta.epoch < MaxEpoch /\ meta.incarnation < MaxEpoch
  /\ \/ /\ meta.generation = 0
        /\ meta' = RH!TakenOver(meta)
        /\ UNCHANGED <<current, history>>
     \/ \E newest \in Recoverable :
          /\ \A k \in Recoverable : k <= newest
          /\ meta' = [RH!TakenOver(meta) EXCEPT !.generation = newest,
                                                !.digest = files[newest].digest]
          /\ current' = files[newest].digest
          /\ history' = [history EXCEPT ![newest] = files[newest].digest]
  /\ cached' = meta'
  /\ identity' = IdentityOf(meta')
  /\ running' = TRUE
  /\ UNCHANGED <<files, commits, cancelled, clients>>

\* The newest verifiable generation becomes the current one; the head keeps
\* its ordinal.
Open ==
  /\ TakeDirectory
  /\ cached' = meta'
  /\ identity' = IdentityOf(meta')
  /\ \/ /\ meta.generation = 0
        /\ UNCHANGED <<current, history>>
     \/ /\ meta.generation > 0
        /\ \E newest \in Recoverable :
             /\ \A k \in Recoverable : k <= newest
             /\ current' = files[newest].digest
             /\ history' = [history EXCEPT ![newest] = files[newest].digest]
  /\ running' = TRUE
  /\ UNCHANGED <<commits, cancelled, clients>>

\* Nothing verifiable is left: Open fails after the store has taken the
\* directory over.
OpenFails ==
  /\ TakeDirectory
  /\ meta.generation > 0 /\ Recoverable = {}
  /\ UNCHANGED <<commits, running, cancelled, memory, clients>>

\* The process ends, killed or stopped; the clients keep their stamps.
Gone == /\ running' = FALSE /\ cancelled' = FALSE
        /\ cached' = RH!ZeroMeta
        /\ current' = NoDigest
        /\ history' = [n \in Numbers |-> NoDigest]
        /\ identity' = NoFence
        /\ pc' = [c \in Clients |-> "idle"]
        /\ call' = [c \in Clients |-> NoCall]
        /\ UNCHANGED <<stamp, answer>>

Stop == running /\ Gone /\ UNCHANGED disk

\* Shutdown begins: the token every Publish was given is cancelled.
CancelAll ==
  /\ running /\ ~cancelled
  /\ cancelled' = TRUE
  /\ UNCHANGED <<disk, running, memory, clients>>

\* The medium damages a file.
Damage(n) ==
  /\ n \in Damageable /\ Readable(n)
  /\ files' = [files EXCEPT ![n].ok = FALSE]
  /\ UNCHANGED <<meta, commits, running, cancelled, memory, clients>>

-----------------------------------------------------------------------------
(* Publish.                                                                *)

\* The expectation is compared with the cached head before the expensive work.
StartPublish(c, d, expected) ==
  /\ ~cancelled
  /\ cached.generation = expected
  /\ HasNext
  /\ Begin(c, "preparing", [NoCall EXCEPT !.expected = expected, !.doc = d])
  /\ UNCHANGED <<disk, running, cancelled, memory>>

\* Validation outside every lock, then the last look at the token.
Prepare(c) ==
  /\ pc[c] = "preparing" /\ ~cancelled
  /\ call[c].doc \in Publishable
  /\ pc' = [pc EXCEPT ![c] = "ready"]
  /\ UNCHANGED <<disk, running, cancelled, memory, call, stamp, answer>>

GiveUp(c) ==
  /\ pc[c] = "preparing"
  /\ cancelled \/ call[c].doc \notin Publishable
  /\ Answer(c, "refused", NoDigest)
  /\ UNCHANGED <<disk, running, cancelled, memory>>

ExpectationUnchecked(c) == TRUE

\* Commit compares the expectation again, with the exclusive lock held.
ExpectationHolds(c) == cached.generation = call[c].expected

\* The store's own fence, presented with the cached head and this identity.
StoreAccepts == cached.generation = meta.generation /\ identity = IdentityOf(meta)

Refuse(c) ==
  /\ pc[c] = "ready"
  /\ ~ExpectationHolds(c) \/ ~StoreAccepts
  /\ Answer(c, "refused", NoDigest)
  /\ UNCHANGED <<disk, running, cancelled, memory>>

Committing(c) == pc[c] = "ready" /\ ExpectationHolds(c) /\ StoreAccepts

\* RegistryStore::Publish up to its commit point: the file, then the head.
NewFile(d) == [digest |-> RH!Published(meta, d).digest, ok |-> TRUE]

Install(d) ==
  /\ meta.generation < MaxGeneration
  /\ meta' = RH!Published(meta, d)
  /\ files' = [files EXCEPT ![meta.generation + 1] = NewFile(d)]
  /\ commits' = [commits EXCEPT ![meta.generation + 1] = meta'.digest]

CommitWithoutHistory(c) ==
  /\ Committing(c)
  /\ Install(call[c].doc)
  /\ cached' = meta'
  /\ history' = [history EXCEPT ![meta'.generation] = meta'.digest]
  /\ Answer(c, "published", meta'.digest)
  /\ UNCHANGED <<running, cancelled, current, identity>>

Commit(c) ==
  /\ Committing(c)
  /\ Install(call[c].doc)
  /\ cached' = meta'
  /\ current' = meta'.digest
  /\ history' = [history EXCEPT ![meta'.generation] = meta'.digest]
  /\ Answer(c, "published", meta'.digest)
  /\ UNCHANGED <<running, cancelled, identity>>

\* The head has moved, but the new file cannot be read back: the error is
\* returned before anything in memory is updated.
CommitUnread(c) ==
  /\ Committing(c)
  /\ Install(call[c].doc)
  /\ Answer(c, "refused", NoDigest)
  /\ UNCHANGED <<running, cancelled, memory>>

\* A write fails: before the file, after the old one was removed, or when the
\* head was to be switched.
CommitFails(c) ==
  /\ Committing(c) /\ meta.generation < MaxGeneration
  /\ \/ UNCHANGED files
     \/ files' = [files EXCEPT ![meta.generation + 1] = NewFile(call[c].doc)]
     \/ files' = [files EXCEPT ![meta.generation + 1] = NoFile]
  /\ Answer(c, "refused", NoDigest)
  /\ UNCHANGED <<meta, commits, running, cancelled, memory>>

\* The process dies inside a commit: before the commit point, when what was left
\* under the ordinal may be gone and the new file in place or not, or after it.
CrashInCommit(c) ==
  /\ Committing(c) /\ meta.generation < MaxGeneration
  /\ Gone
  /\ \/ Install(call[c].doc)
     \/ /\ \E left \in {NewFile(call[c].doc), NoFile} :
             files' = [files EXCEPT ![meta.generation + 1] = left]
        /\ UNCHANGED <<meta, commits>>

-----------------------------------------------------------------------------
(* Reading and pruning.                                                    *)

GetStamp(c) ==
  /\ running /\ pc[c] = "idle"
  /\ stamp' = [stamp EXCEPT ![c] = [incarnation |-> identity.incarnation, id |-> current]]
  /\ UNCHANGED <<disk, running, cancelled, memory, pc, call, answer>>

StampMatchesAnyIncarnation(s) == current # NoDigest => s.id = current

\* CheckStamp.  Before the first generation only the incarnation counts.
StampMatches(s) == /\ s.incarnation = identity.incarnation
                   /\ current # NoDigest => s.id = current

\* ExecuteRequest checks the stamp first and runs the operation afterwards.
StartQuery(c) ==
  /\ StampMatches(stamp[c])
  /\ Begin(c, "checked", [NoCall EXCEPT !.stamp = stamp[c]])
  /\ UNCHANGED <<disk, running, cancelled, memory>>

\* QueryPair and QuerySet: one snapshot, evaluated after the lock is gone.
Query(c) ==
  /\ pc[c] = "checked" /\ current # NoDigest
  /\ Answer(c, "queried", current)
  /\ UNCHANGED <<disk, running, cancelled, memory>>

QueryNothing(c) ==
  /\ pc[c] = "checked" /\ current = NoDigest
  /\ Answer(c, "refused", NoDigest)
  /\ UNCHANGED <<disk, running, cancelled, memory>>

\* SnapshotAt reads and changes nothing: the retained history first, then
\* whatever file has that ordinal.
Found(n) == history[n] # NoDigest \/ Readable(n)
SnapshotAt(n) == IF history[n] # NoDigest THEN history[n] ELSE files[n].digest

\* RegistryStore::Prune: the oldest files, stopping at the head the metadata
\* names.
Expendable(keep) ==
  {n \in Listed : /\ Cardinality({k \in Listed : k <= n}) + keep <= Cardinality(Listed)
                  /\ meta.generation \in Listed => n < meta.generation}

\* Prune drops from memory what it deleted, and nothing else.
Prune(c, keep) ==
  /\ running /\ pc[c] = "idle"
  /\ \E removed \in (SUBSET Expendable(keep)) \ {{}} :
       /\ files' = Without(files, removed, NoFile)
       /\ history' = Without(history, removed, NoDigest)
  /\ UNCHANGED <<meta, commits, running, cancelled, cached, current, identity, clients>>

-----------------------------------------------------------------------------
Publish(c) == \/ \E d \in Docs, e \in 0..MaxGeneration : StartPublish(c, d, e)
              \/ Prepare(c) \/ GiveUp(c) \/ Refuse(c) \/ Commit(c) \/ CommitUnread(c)
              \/ CommitFails(c) \/ CrashInCommit(c)
Read(c) == GetStamp(c) \/ StartQuery(c) \/ Query(c) \/ QueryNothing(c)

Next == \/ Open \/ OpenFails \/ Stop \/ CancelAll
        \/ \E c \in Clients : Publish(c) \/ Read(c) \/ \E keep \in 0..MaxGeneration : Prune(c, keep)
        \/ \E n \in Numbers : Damage(n)

Spec == Init /\ [][Next]_vars
-----------------------------------------------------------------------------
(* Properties.                                                             *)

\* A publication that is reported as a success is the direct successor of the
\* generation its publisher stated, so of several racing publishers with one
\* expectation at most one wins and no update is lost (README "Racing
\* publishers"; Publish, Commit).
WinnerExtendsItsBase ==
  \A c \in Clients : answer[c].kind = "published" =>
    /\ answer[c].id.number = answer[c].call.expected + 1
    /\ answer[c].id.doc = answer[c].call.doc
    /\ commits[answer[c].id.number] = answer[c].id

\* Whatever is served was committed under its ordinal: from memory, where debris
\* left by failed and crashed commits is never adopted, and by a lookup at or
\* below the head, whether memory or a file answers it (Open, Commit,
\* SnapshotAt).
ServedIsCommitted ==
  /\ current # NoDigest => commits[current.number] = current
  /\ \A n \in Numbers : history[n] # NoDigest => history[n] = commits[n]
  /\ \A n \in 1..meta.generation : Found(n) => SnapshotAt(n) = commits[n]

\* Every step is a step of the abstract head or leaves it alone, whatever the
\* clients do and wherever the process dies.
ImplementsHead == RH!Spec

\* The call of c comes back with this kind of answer.
Returns(c, from, kind) ==
  running' /\ pc[c] = from /\ pc'[c] = "idle" /\ answer'[c].kind = kind

\* While the process lives, what queries are answered from only moves forward,
\* and a success is visible to every query that starts after it (Commit,
\* Snapshot).
ReadersMoveForward ==
  [][running /\ running' =>
       /\ current # NoDigest => current' # NoDigest /\ current'.number >= current.number
       /\ \A c \in Clients : Returns(c, "ready", "published") => current' = answer'[c].id]_vars

\* What is answered under a stamp was asked of the incarnation that issued it,
\* and is at least as new as the stamp: a client of an earlier process is refused,
\* and a publication between the check and the query only moves the answer
\* forward (CheckStamp, ExecuteRequest, QueryPair).
StampedAnswersAreFresh ==
  [][\A c \in Clients : Returns(c, "checked", "queried") =>
       LET presented == call[c].stamp
       IN /\ presented.incarnation = meta.incarnation
          /\ presented.id # NoDigest => answer'[c].id.number >= presented.id.number]_vars

\* README: "pruning never removes the authoritative generation", the one that
\* queries are answered from.
ServedStaysOnDisk == running /\ current # NoDigest => current.number \in Listed

=============================================================================
