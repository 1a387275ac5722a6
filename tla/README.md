# A formal model of the Fabric Compatibility Registry

TLA+ modules, TLC configurations and TLAPS proofs for the registry under `src/`:
what a registry data directory, the authority in front of it, the server around
both, the sessions of its clients and the decisions they are given promise, and
why they keep it. Paths below are relative to the repository; `README.md:NNN` is
the repository's own README.

The files here:

| Module | Models | Checked by | Proved in |
| --- | --- | --- | --- |
| `RegistryHead` | what a data directory promises (abstract) | refined by `Store` and `Authority` | `StoreProofs`, `AuthorityProofs` |
| `Store` | `RegistryStore`, `store.cpp` | `store` (`MCStore`) | `StoreProofs` |
| `Authority` | `RegistryAuthority`, its concurrency, `authority.cpp` | `authority_publishers`, `authority_pruned` (`MCAuthority`) | `AuthorityProofs` |
| `Server` | `RegistryServer`, `server.cpp`, and the blocking calls of `transport.cpp` | `server_pool`, `server_stops`, `server_lost_wakeup` (`MCServer`) | `ServerProofs` |
| `Session` | `RegistryClient`, `client.cpp`, the handlers of its connections, and the frames between them | `session` (`MCSession`) | `SessionProofs` |
| `Service` | the operations of `protocol.cpp` and `authority.cpp`, one request at a time | `service_requests`, `service_mirrored`, `service_unreachable` (`MCService`) | `ServiceProofs` |
| `Components` | components, capabilities, the taxonomy, selectors: `component.cpp`, `taxonomy.cpp` | through `Service` | `ServiceProofs` |
| `Rules` | rules, their precedence and matching, documents: `rule.cpp`, `document.cpp` | through `Service` | `ServiceProofs` |
| `Decisions` | the decision engine, `registry.cpp` | through `Service` | `ServiceProofs` |
| `Validation` | static validation, `validation.cpp` | through `Service` | `ServiceProofs` |
| `Replay` | diff, replay and provenance, `decision_io.cpp` | through `Service` | `ServiceProofs` |
| `Intervals` | `SemVersion` and `VersionInterval`, `version.cpp` | through `Versions` and `Service` | `RangeProofs` |
| `Sorting` | `std::sort`, `std::stable_sort` and the order of `std::map`, as the code uses them | through the modules that sort | `InductionProofs`, `RangeProofs`, `ServiceProofs` |
| `Ranges` | `VersionRange`, `version.cpp` | through `Versions` and `Service` | `RangeProofs` |
| `Versions` | the reading of a range, `version.cpp` | `versions_parse`, `versions_inclusion` (`MCVersions`) | `VersionsProofs` |

`InductionProofs` is about no module of its own: it holds the facts about induction,
loops and sorting that `RangeProofs`, `VersionsProofs` and `ServiceProofs` cite.

The `MC` modules hold what a configuration cannot write: the documents, queries,
options and versions of the instances, and the symmetry of workers and clients.
`PROJECT.json` gives the lines of source every definition stands for, the runs,
the hazards with the properties that guard them, and, for every property, a
mutant: a small distortion of one definition under which TLC finds the property
violated. The mutants are the definitions named after a mistake; each stands
before the definition it distorts and nothing else uses it.

## 1. Inventory

The registry answers one question: may these components be used together? The
answer is computed from a *generation*, an immutable document of rules; the
newest published generation is authoritative.

**Store** (`store.cpp`). State on disk: `registry.meta` (ordinal and digest of
the head, epoch, incarnation, number of publications), one `gen-NNN.fcr` per
generation, `registry.lock`. State in memory: the handle's epoch and incarnation,
and, per process, the set of directories that have a writer. Operations: `Open`
for reading or writing, `Publish`, `Prune`, `LoadGeneration`, `LoadLatest`,
`ReadMeta`, `CurrentFence`, `ListGenerations`, close. Hard: two processes on one
directory, a crash or failed write between the rename of the file and the
rename of the metadata, cancellation, damaged files, a reader without any lock.
Correct if: one owner at a time; the head names a whole file; history is
immutable and chained; recovery finds the newest committed content and never
adopts what was not committed.

**Authority** (`authority.cpp`). State: the current generation, the retained
generations, the cached metadata, epoch and incarnation, all under one
`shared_mutex`. Operations: `Open`, `Publish`, `Snapshot`, `SnapshotAt`,
queries, `Stamp`/`CheckStamp`, `Prune`, and the read-only `Validate`,
`SimulatePublish`, `Diff`, `Replay`, `Provenance`, `Generations`. It calls the
store with the exclusive lock held and prepares publications without any lock.
Hard: racing publishers, a commit that succeeds on disk and fails afterwards,
stamps that outlive a process, the serving generation and the head drifting
apart. Correct if: no update is lost, what is served was committed, answers
move forward, a client of an earlier process is refused.

**Server and transport** (`server.cpp`, `transport.cpp`). State: the stop flag, a
cancellation token, the queue of accepted sockets, the registry of admitted
connections, a wakeup socket pair per worker, two mutexes, a condition variable.
Threads: the acceptor, the workers, whoever calls `Shutdown`. Operations: accept
and admit, enqueue, take, serve frames, `BeginShutdown`, `Shutdown`. Hard: every
interleaving of those, blocked system calls, reuse of socket handles. Correct
if: every socket has one owner, the limits hold, queued work is noticed,
shutdown ends everything.

**Client and session** (`client.cpp`, `transport.cpp`, the handler in
`server.cpp`). State: one socket, the negotiated frame size, a correlation
counter, a mutex around each call. Operations: `Connect` with its handshake,
`Call`, `Close`. Hard: a call that fails leaves its answer, or half of it, on the
connection; a request may be executed although its answer is lost; a retry meets
its own first attempt; each end computes the frame size by itself; neither end
has a timeout. Correct if: an answer belongs to its question, a publication that
is tried again is committed once, no end sends what the other refuses, every call
returns.

**Protocol** (`protocol.cpp`). Checks the stamp of a request and dispatches the
operation.

**Decision engine** (`registry.cpp`, `rule.cpp`, `version.cpp`, `component.cpp`,
`taxonomy.cpp`). Pure functions of one generation: version ranges, selectors,
specificity and precedence, constraint evaluation, negotiation, pair and set
decisions. Hard: what a component does not declare, orientations of a pair, the
evidence limit, members without versions. Correct if: no tie-break decides (it does
between set rules that select different members, see section 6), a decision is final as far as it says so, the evidence holds what decided, and
negotiation finds the common ground.

**Static validation** (`validation.cpp`). Refuses documents in which rules of one
tier overlap and disagree; reports unreachable rules. Correct if: a document
that passes never leaves a decision to the tie-break, and a rule reported as
unreachable never decides.

**Decision input and output** (`decision_io.cpp`): diff of two generations, replay
of queries over both, provenance of a rule. Pure. Correct if: the three tell the
same story as the decisions.

**Value types** (`document.cpp`, `identity.cpp`, `json.cpp`, `digest.cpp`,
`error.cpp`): parsing, printing, hashing. **Programs** (`apps/`):
`fcr-registryd` opens an authority, starts a server, waits, and shuts down;
`fcrctl` makes one request per command; `fcr-bench` measures.

How they interact: `fcr-registryd` owns an authority and a server; a worker of
the server executes a request by calling the authority; the authority calls its
store, and the store compiles (and so validates) each document before it writes
it. Nothing calls back, except the server's `on_shutdown_request`. The only
things shared by threads are the authority's state, the server's queue and
registry of connections, and, at the other end, one client.

Everything in this code that is hard to test is listed, at its line, under
`hazards` in `PROJECT.json`.

## 2. The models

How they fit together: `Store` is many processes on one directory; `Authority`
is one process, its clients' threads and what the store promises it; `Server` is
the threads of that process down to the mutexes, and leaves open what a request
does; `Session` is one client and its handlers down to the frames, and knows of
the authority only that a publication is committed when its expectation is the
head; `Service` is what each request answers, one at a time. `Validation` and
`Replay` rest on `Decisions`, that on `Rules`, `Components`, `Ranges` and
`Intervals`.

### RegistryHead

Two variables: `head`, the metadata, and `log`, the digest each ordinal was
committed with. Two actions: `TakeOver` (a writer opens the directory: epoch and
incarnation advance) and `Advance` (one publication: the next ordinal). A digest
is modelled by what it hashes, `[number, epoch, doc]`; the parent is a field of the
file in `Store`.

### Store

One record per handle for the locals of the call it executes (`job`), one `pc`.
A call is cut into steps wherever another handle, a crash, a failing write or a
cancellation can be seen between two effects on the directory:

| Code | Actions |
| --- | --- |
| `Open` | `OpenReadOnly`; `Register`, `LockDirectory` / `LockRefused`, `ReadOwnership`, `WriteOwnership` / `OpenFails` |
| `~RegistryStore`, `ReleaseLock` | `Close`, `Unlock`, `Unregister` |
| `Publish` | `StartPublish` (metadata, fence, limits), `ClearTarget`, `InstallFile`, `Proceed` / `Withdraw`, `Commit`; `Abandon`, `WriteFails`, `Cancel` |
| `Prune` | `StartPrune`, `PruneOldest` |
| `LoadLatest` | `StartLoad` (a writer's clean-up included), `LoadCandidate`, `SkipCandidate` |
| environment | `Crash` of a process, `Damage` of a file |

`WriteFileAtomic` writes a temporary name nobody reads and renames it, so a
file appears whole or not at all; `std::filesystem::remove` with an ignored error
may leave the file. The byte-range lock excludes other processes; within one
process the model lets it be granted or refused, as the code says it does not
rely on it there. `commits` is a history variable: the digest each ordinal was
committed with.

### Authority

One process on one directory, with clients that publish, query, look up and
prune. `Commit` and `Prune` run under the exclusive lock and are one step each,
split only where the process can die (`CrashInCommit`), a write can fail
(`CommitFails`) or the new file cannot be read back (`CommitUnread`). What runs
outside the lock is a step of its own: `StartPublish`, `Prepare` (validation, a
constant verdict `Publishable`), the stamp check of a request (`StartQuery`) and
its execution (`Query`). A lookup by ordinal changes nothing and is the operator
`SnapshotAt`: memory first, then any file with that ordinal. The store below is
reduced to what it promises the one process that owns it; which metadata and files
it can leave behind is the business of `Store`. A stamp lives with the client and
survives the process.

### Server

One `pc` per thread; a step is what a thread does between two operations another
thread can see. Both mutexes are variables. `condition_variable::wait` is cut
where it matters: the predicate is tested with the mutex held (`FindNothing`),
then the mutex is released and the thread blocks in one step (`Block`).

| Code | Actions |
| --- | --- |
| `AcceptorLoop` | `AcceptConnection` / `AcceptFails`, `SeeStopEarly`, `StartAdmission`, `LockAdmission`, `Refuse` / `Admit`, `RecheckStop` |
| `EnqueueConnection` | `LockQueue`, `Overflow` / `PushConnection`, `NotifyOne` |
| `UnregisterConnection`, `Socket::Close` | `LockRegistry`, `Erase`, `Release` |
| `WorkerLoop` | `LockLoop`, `FindNothing`, `Block`, `LeaveLoop`, `TakeConnection`, `CheckStop` |
| `ServeConnection` | `ReadCancelled`, `ReadEnd`, `ReadFrame`, `SendReply` / `SendFails`, `Loop` |
| `BeginShutdown` | `Exchange`, `CancelToken`, `WakeAcceptor`, `WakeWorker`, `NotifyAll`, `Callback` |
| `Shutdown` | `CallShutdown`, `JoinAcceptor`, `JoinWorkers`, `DrainQueue`, `ClearConnections` |

The kernel's backlog, the sockets' handles (reused once closed) and the clients are
the environment; a client connects once, sends frames of six kinds, reads or
not, hangs up. `Reaction` is what the service does with each kind of frame
during and after the handshake.

### Session

The threads of a program share one `RegistryClient`; each asks for the status or
publishes one document. A publication names the generation it was written against
and keeps that name when it is tried again.

| Code | Actions |
| --- | --- |
| `RegistryClient::Connect` | `Connect`, `HandshakeReply` |
| `RegistryClient::Call` | `Asks`, `Send` (the mutex and what fails before a byte is sent), `Receive` |
| `RegistryClient::Close`, destruction | `Close`, `Drop` |
| `ServeConnection` | `Handshake`, `Serve` (the operation included), `SendReply`, `Finish` |
| environment | `Break` of a connection, `Damage` of a frame, `Die` and `Start` of the service |

A frame has a kind, a correlation, a size in units of a small payload, and a body.
The bytes arrive in order or not at all. `Readings` is what `ReadFrame` gets from
them: a frame whose header is damaged, or announces more than the reader takes,
leaves its payload behind, and what is read next are pieces of it, which may take
the beginning of the next frame along (`stream` is `aligned`, `scraps` or `torn`).
A handler ends its connection at the first frame it cannot use; `Call` does not,
and the next call reads on. `Serve` executes one request at a time against `head`,
the list of committed publications; what races inside the authority is the
business of `Authority`.

### Service and the pure modules

Requests are answered one at a time and the answer is delivered before the next
one is made. The registry is what was published (`stored`), which of it is in
memory (`history`), the head and the identity of the process. One action per
operation that `ExecuteRequest` dispatches: `HandleValidate`, `HandlePublish`,
`HandleDryRun`, `HandleQueryPair`, `HandleQuerySet`, `HandleDiff`, `HandleReplay`,
`HandleProvenance`, `HandleGenerations`, `HandleStatus`, `HandlePrune`; besides,
`RefuseStamp`, `Deliver` and `Restart`. The shutdown operation is in `Server`.

What they answer is computed by the pure modules, from what a JSON document says
down to the decision:

| Code | Definitions |
| --- | --- |
| `Taxonomy::Parse`, `ParseComponentSpec`, `ComponentSelector::Matches` | `Components`: `ParseTaxonomy`, `ParseComponentSpec`, `SelectorMatches` and the values of capabilities |
| `ParseRegistryDocument`, `Normalize`, specificity, the order of rules, matching | `Rules`: the reading of rules with their defaults and limits, `ComputeSpecificity`, `Tier`, `PrecedenceHigher`, `Orientations`, `RuleMatches` |
| `EvaluateConstraint`, `ApplyRule`, `MatchPairRules`, `NegotiateOne`, `EvaluatePair`, `EvaluateSet` | `Decisions`: `ConstraintVerdict`, the weighing of matching rules into evidence of limited length, negotiation by policy, `EvaluatePair`, `EvaluateSet` |
| `ValidateRegistryDocument` | `Validation`: each diagnostic as a set, among them conflicts, implication cycles and reachability with its cells and budgets |
| `DiffGenerations`, `ReplayDiff`, `ProvenanceHistory` | `Replay` |

What a JSON document can say when it reaches the registry is written down as sets:
`WrittenComponents` and `WrittenSelectors` in `Components`, `WrittenRules` and
`WrittenDocuments` in `Rules`, each with the combinations the reader of the code
lets through. `Service` takes its documents and components from them
(`RequestsAssumption`), so that what is proved of every document is about every
document the code can be given. That a written range is canonical is what
`ParseIsCanonical` proves of the reader of ranges.

An identifier is a short name or a small number, a list that the code sorts is a
set, a digest is what it covers, a result is a value or an error code
(`Components.Then` is the early return).

### Intervals, Ranges and Versions

`Intervals` holds the pure part: a version is its tuple and the rank of its
prerelease, an interval has two bounds that may be missing, and the operators
are the functions of `VersionInterval` and the bodies of the loops of
`VersionRange::Intersect` (`Meet`, `EndsFirst`) and `FromIntervals`
(`SortsBefore`, `Joins`, `Extend`). It has no state and no recursion, so that it
can be proved about. `Ranges` adds the loops: `FromIntervals`, a fold over the
sorted intervals; `Intersect`, a sweep that takes one `Turn` after the other;
`RangeAdmits`, `RangeSubsumes`, `RangesOverlap`. A loop is a fold or a recursive
function here, never a recursive operator, for the same reason.

`Versions` reads a text as `VersionRange::Parse` does. The input is a sequence of
tokens: comparators over `Written`, hyphen ranges, bars.

| Code | Definitions |
| --- | --- |
| `ComparatorToRange` | `IntervalOf`, with `CaretEnd` and `BandEnd` |
| `ParseGroup` | `ReadComparator`, `ReadHyphen` |
| `Parse` | `ReadBar`, `ReadEmptyGroup`, `ReadTooMuch` (either limit), `Finish` |

Beside the range, the state keeps `meant`, the releases the text means. It is
computed from what each comparator says ("agrees with the first two components
and is not earlier"), never from intervals, and is what the range is compared
with. Components are taken modulo `MaxPart + 1` as the code's `uint32_t` are; the
texts of the runs name no component that wraps.

## 3. The runs

Passing runs:

| Run | Instance | Shows |
| --- | --- | --- |
| `store` | three writers, two of them in one process, and a reader in the other process; 3 ordinals, 2 epochs, at most 2 files, every file damageable | type, `HeadIsWhole`, `HistoryIsChained`, `WriterOwnsDirectory`, `PublishBaseIsCurrent`, `ImplementsHead`, `CancelledNeverCommits`, `LoadedWasCommitted`, `RetentionIsBounded`, `RecoversNewest` |
| `authority_publishers` | two clients, one valid and one invalid document, 2 ordinals, 2 openings, the second file damageable | `WinnerExtendsItsBase`, `ServedIsCommitted`, `ImplementsHead`, `ReadersMoveForward`, `StampedAnswersAreFresh` |
| `server_pool` | two workers, three clients, 2 admissions, queue of 1, 3 handles, no frames | type and limits, `SocketsHaveOneOwner`, `CountsAdmitted`, `QueuedWorkIsNoticed`, `NothingLeftBehind`, `MutexesDoNotDeadlock` |
| `server_stops` | one worker, one client that sends two frames of any of six kinds and reads | `CalledBackOnce`; `WorkersLetGo` and `AcceptorLeaves` under fairness |
| `session` | two threads, 3 calls, 2 connections, 2 starts of the service, 1 fault, three client options | `AnswersBelongToTheirCall`, `FramesFit`, `PublishedOnce`; `CallsReturn` under fairness |
| `service_requests` | 53 publication plans, 31 queries, 2 openings | type, `TiersAgree`, `SubjectsMaySwap`, `DecidedIsFinal`, `DeciderIsInEvidence`, `NegotiationIsCommonGround`, `ShadowedRulesNeverDecide`, `ProvenanceReconstructs`, `ChangesAreInTheDiff` |
| `versions_parse` | two alternatives of up to three tokens over ten versions and partial versions, components 0 to 2, two prereleases | `ParsedAsWritten`, `RangesAreCanonical`, `PrereleasesAreAskedFor` |

Runs that refute what the repository says of itself:

| Run | Statement refuted | What happens |
| --- | --- | --- |
| `server_lost_wakeup` | `README.md:526`, `server.hpp:65`: shutdown joins unconditionally, after every worker has been woken | `BeginShutdown` stores the flag (`server.cpp:102`) and notifies (`:117`) without `queue_mutex_`. A worker between the test of its predicate and its block misses both and sleeps for ever; `Shutdown` waits for it for ever. Only the last worker to sleep can be caught, and only while the queue is empty. |
| `authority_pruned` | `README.md:412`: pruning never removes the authoritative generation | The store stops at the ordinal in the metadata. When the authority serves an older one (recovery skipped a damaged head, or the committed file could not be read back), prune deletes the file of the served generation. |
| `versions_inclusion` | `version.hpp:128`: `Subsumes` is true when every version admitted by other is admitted by this range | `VersionInterval::Subsumes` tests the inclusive flags of equal bounds the wrong way round (`version.cpp:499`, `:508`): a range that ends before a version subsumes one that ends with it. The property looks at releases only, so the prerelease convention plays no part. |
| `service_mirrored` | `rule.hpp:20-23`: left and right are the corresponding sides of a pair rule | `EvaluatePairInternal` binds the sides to the components as the query names them (`registry.cpp:703`), also when the rule matched only with the components exchanged. A constraint on the left is then checked on the component the right selector chose. |
| `service_unreachable` | `README.md:340-341`: the detector never reports a false unreachable rule | `VersionPlaneCovered` (`validation.cpp:184`) looks at the open cells between bounds. A rule for exactly one version covers none, so any higher rule with the same names seems to cover it, also one whose range excludes that version; the document is refused although the rule decides. |

Other places where code and documents part, without a run: a `send()` to a peer
that does not read holds its worker through a shutdown (`transport.cpp:283`
against `README.md:541`), and a commit is given a fresh cancellation token
(`authority.cpp:210` against `README.md:529`). Each follows from one line and is
listed as a hazard with that note.

**Bounds and why they suffice.** *Store*: three ordinals give a head, a
predecessor to chain to and prune, and debris above; two epochs are needed for a
takeover. Three writers in two processes are the fewest that need both locks, and
the reader lives with one of them. `MaxGeneration` and `MaxEpoch` are also the
largest values of the code's 64-bit counters, whose refusal to wrap is thereby
exercised. *Authority*: two ordinals give a head and debris on it, as chains are
not visible; two clients race. *Server*: two workers and three clients are needed
for overtaking, notifications to the wrong worker and handle reuse, and are
checked for safety; one worker and one client suffice for shutdown liveness, as
workers share nothing but the queue while they serve, and two frames, a handshake
and one more, reach every state of the service loop. *Session*: a second thread is
what the mutex is for; three calls are a failed one, one that meets what it left,
and a retry; two connections are the first attempt and the retry; the fault comes
at every point. The options are a frame size below the usable one, one below the
service's, and a client of another protocol version with a wish above the
service's; frames are as small as possible or as large as the service allows.
*Service*: the plans are each kind of constraint and each diagnostic alone, two
rules of one tier in every pair of symmetries, rules over and under each other
with touching ranges and exact versions, a rule below one of the same identity,
three rules against an evidence limit of two, set rules, unreadable documents, and
three generations in which rules change, go and return, a set rule among them. The queries are pairs of five components that differ in every
section, in what they declare and in what they close, sets of up to three, and
what is refused. Every limit of the code is small enough to be met (2 or 3).
*Versions*: `MaxPart` is 2 and texts name 0 and 1: every bound has a version below
it, on it, between it and the next one, and above it. The ten versions cover every
number of components and every pattern of leading zeros "^" distinguishes, and two
prereleases of one tuple. Three tokens are the length of a hyphen range, and
enough for an intersection of an intersection; two groups are enough for a union,
as `FromIntervals` compares neighbours.

**Symmetry.** `server_pool` exchanges workers and clients; it checks safety only.

**Deadlock.** Every model but `Store` is checked with `CHECK_DEADLOCK FALSE`: a
server that has shut down has nothing left to do, an authority, a service or a
session whose bounded counters are used up stops, and so does `Parse` once it has
returned. The wedged server of `server_lost_wakeup` is what liveness is for.
`Store` never stops and is checked for deadlock.

**Fairness.** `FairSpec` of `Server` assumes that the operating system runs every
thread that can take a step (`WF` of the acceptor, the main thread and each
worker), that `accept()` on a closed listener returns, and that clients in
`Readers` keep taking what arrives. No client is assumed to send, hang up or
connect, no accept is assumed to fail, and nobody is assumed to call `Shutdown`.
`FairSpec` of `Session` assumes that each thread of the client and each handler
runs when it can. Nothing is assumed of faults, of connecting, or of what a thread
asks. In both, weak fairness is enough for the mutexes: they are taken again by
threads that have only finitely many calls or connections to make, so nobody is
overtaken for ever. `Store`, `Authority`, `Service` and `Versions` are checked for
safety only: a call into them runs to its end in one thread, or is cut short by
the end of its process.

## 4. What is proved

Eight modules of proofs, each for every value of the constants under the named
assumptions of the module it is about. TLC evaluates those assumptions in the runs
and checks the properties the theorems state on small instances. Of the properties
the passing runs check, all but three are proved; what is left is at the end of this
section.

**`StoreProofs`**, for every number of handles, processes, documents, ordinals
and epochs, and every assignment of handles to processes (`ShapeAssumption`:
writers are handles, every handle lives in one process, the bounds are natural
numbers; `NullAssumption`: the null values are nobody's data):

* `TypeCorrect`: `Spec => []TypeOK`;
* `FencingHolds`: `Spec => []WriterOwnsDirectory`;
* `BaseHolds`: `Spec => []PublishBaseIsCurrent`;
* `HeadHolds`, `HistoryHolds`: `Spec => []HeadIsWhole`, `Spec => []HistoryIsChained`;
* `LoadingHolds`: `Spec => []LoadedWasCommitted`;
* `DebrisHolds`: `Spec => []OneOrdinalOfDebris`;
* `RetentionHolds`: `Spec => []RetentionIsBounded`;
* `RecoveryHolds`: `Spec => RecoversNewest`;
* `HeadImplemented`: `Spec => RH!Spec`, the refinement of `RegistryHead`;
* `CancellationHolds`: `Spec => CancelledNeverCommits`.

The argument has layers, each an inductive invariant that uses the ones before it.

1. `LockInv`: who stands in the process registry and who holds the byte-range
   lock. The lock excludes writers of other processes, the registry excludes
   writers of the same process; `SoleOwner` follows: at most one handle is
   between `LockDirectory` and `Unlock`. Neither fact is inductive without the
   other, nor without saying in which steps each is held.
2. `CallInv`: the types of the data, the ownership of a serving writer, and that
   the metadata a call has read (`job[h].base`) is still the metadata of the
   directory. The only steps that move the metadata belong to the sole owner, so
   what a call read stays true until its own commit: this is what makes reading
   the metadata once sound.
3. `HistoryInv`: the files. `FilesInv` alone is not inductive: one must also know
   that the file between `InstallFile` and `Commit` is in place (`InPlace`), that
   the ordinals a prune or a clean-up still has to remove do not include the
   head, and that what a handle has loaded was committed.
4. `RoomInv`: how many files there are. The limit is checked once, before a file is
   written, so between the check and the rename (`Filling`) the invariant counts
   the file that is about to appear; it may be the one an earlier attempt left
   there. `FilesWear` says that nothing but `InstallFile` adds a file.
5. `WalkInv`: a writer that walks down the history has passed over nothing that
   still verifies, so the file it stops at is the newest that does, and when it stops
   without one there is none. It stands because files only wear while the one owner loads, and
   a damaged file is never repaired.
6. `TokenInv`: a call that switches the head had a live token when it last looked.

The refinement follows step by step: `WriteOwnership` is a `TakeOver`, `Commit`
an `Advance`, and everything else leaves `meta` and `commits` alone.

**`AuthorityProofs`**, for every number of clients, documents, ordinals and
openings, and whatever files may be damaged (`DocsAssumption`,
`BoundsAssumption`, `NullAssumption`):

* `NoUpdateIsLost`: `Spec => []WinnerExtendsItsBase`;
* `OnlyCommittedIsServed`: `Spec => []ServedIsCommitted`;
* `AuthorityIsAHead`: `Spec => ImplementsHead`, the refinement of `RegistryHead`;
* `ReadersNeverGoBack`: `Spec => ReadersMoveForward`;
* `AnswersAreFresh`: `Spec => StampedAnswersAreFresh`.

They rest on `AuthorityInv`. Of the disk it says that a file at or below the head
is what was committed under its ordinal or is gone, while above it a file may be
anything (`DiskInv`). Of memory it says that everything in it was committed,
whether or not its file is still there (`MemoryInv`); that has to be said apart
from the disk because prune, damage and unread commits make the two differ. Of
stamps it says that one of this incarnation that names a generation was given
when there was one, and that a checked one is no newer than what is served
(`StampInv`): without the first half, the second is lost when a process that
serves nothing answers. Action properties follow from the invariant and a case
split over the steps that touch `current` or `answer`.

**`ServerProofs`**, for every number of workers, clients, connections, handles and
frames (`LimitsAssumption`, `NamesAssumption`):

* `TypesHold`: `Spec => []TypeOK`, with it the admission limit;
* `OneOwner`: `Spec => []SocketsHaveOneOwner`;
* `CountIsExact`: `Spec => []CountsAdmitted`;
* `NoMutexCircle`: `Spec => []MutexesDoNotDeadlock`;
* `OneCallback`: `Spec => []CalledBackOnce`;
* `NothingIsLeft`: `Spec => []NothingLeftBehind`;
* `NoWorkIsForgotten`: `Spec => []QueuedWorkIsNoticed`.

`ServerInv` has five parts. `ThreadInv` says where the holder of each mutex can be
and that one caller at most is inside the shutdown sequence. `SocketInv` says that
a thread has a connection exactly in certain places (`HoldInv`), that a connection
enters the backlog once and without a handle (`ArrivalInv`; the one that
`WakeAcceptor` makes needs that the sequence runs once), and that each open
connection is in one place (`OwnerInv`). `JoinInv` says that what was joined stays
away, `HandleInv` that two open connections never have one handle, and `CountInv`
is what is wanted of the counter. Handle reuse is why `CountInv` needs
`HandleInv`, and that needs `OwnerInv`: a handle is taken out of the registry
before it is closed, by its only owner. Most steps disturb none of this;
`StepsAreCalm` separates them from the few that do.

`NoWorkIsForgotten` counts. While a worker sleeps, no more connections wait than
there are workers on their way to the queue and notifications still to be given;
`WaitInv` adds that a worker that is about to block does so with the mutex held and
the queue empty. A push raises the left side and the notification that follows
raises the right one; a worker that takes a connection lowers both. The number of
workers must be finite for that (`WorkersAssumption`), as a thread pool is.

**`SessionProofs`**, for every number of threads, calls, connections, starts and
faults, and every option, limit and frame size (`SessionAssumption`):

* `PublishesOnce`: `Spec => []PublishedOnce`;
* `AnswersMatch`: `Spec => []AnswersBelongToTheirCall`;
* `FramesAreAccepted`: `Spec => []FramesFit`.

`SessionInv` measures every frame under way against the state of both ends: a
request names what its thread keeps naming, an answer is true of the history, and
on the connection the client speaks on now, a correlation that the waiting call
gave belongs to that call and no frame is larger than both agreed (`Asked`,
`Told`). What is left on an old connection keeps its truth but needs no
correlation, as nobody reads it. `PublishedOnce` follows because all attempts of
a thread name one place in the history, and a place is given once.

**`InductionProofs`** holds what the rest needs to say of loops. The induction
theorems of the library take an operator as a parameter, which no prover here can
instantiate, so its lemmas speak of sets: T, the set of numbers a statement holds
for, has no least number outside (`LeastNatural`), hence `EveryNatural` and
`EveryIteration`. `FoldExists`, `LoopExists` and `LoopRuns` show that the recursive
functions behind the folds and loops of the model exist and take the values the
body of the loop gives them; `RanksAreTaken` and `PlacedIsSorted`, that sorting a finite set
by a strict order lists each member once and in order.

**`RangeProofs`**, for every largest component (2^32 - 1 in the code), any number of
prereleases and ranges of any length, from `PartsAssumption` and
`UnboundedAssumption` alone:

* `EmptyContainsNothing`: an interval that is dropped as empty contains no version;
* `MeetIsIntersection`: a piece of `Intersect` contains what both intervals contain;
* `ExtendIsUnion`: two joined intervals contain what either contained;
* `FromIntervalsIsUnion`: `FromIntervals` of a finite set of intervals is a canonical
  range that contains exactly what they contain;
* `IntersectIsIntersection`: the sweep over two canonical ranges ends in a canonical
  range that contains exactly what both contain.

They rest on the precedence of versions being a strict total order
(`BeforeIsTransitive`, `BeforeIsStrict`, `BeforeIsTotal`); after that, no proof
looks inside a version, and each bound is dealt with on its own. The comparator of
`std::sort` orders the intervals strictly, so the merge meets them by their lower
bounds; `Merged` is the invariant of the merge, and an interval that does not join
the last one is `Apart` from it. `Swept` is the invariant of the sweep: what it has
left behind in either range cannot meet what is still ahead in the other, because
both are canonical. The facts are about bounds (`ContainsBound`); the prerelease
convention of `Contains` is not preserved by joining (`version.cpp:584`).

**`VersionsProofs`**, for every text, of any number of comparators, hyphen ranges and
groups (`TextAssumption`):

* `ComparatorsMeanWhatTheySay`: the interval of a comparator contains the releases its
  operator and version mean;
* `ParseIsCanonical`: `Spec => []RangesAreCanonical`;
* `ParseAdmitsNoOtherPrerelease`: `Spec => []PrereleasesAreAskedFor`;
* `ParseMeansWhatItSays`: `Spec => []ParsedAsWritten`, when `NoneWraps`.

`Shaped` is the invariant of the reader: what has been read is canonical, and every
lower bound with a prerelease was written in the text, which cutting and joining
preserve. `Meant` relates the range to the releases the text means so far. It is
inductive only when no component that is written is the greatest `std::uint32_t`:
`ComparatorToRange` adds one to a component without looking (`version.cpp:284`), so
"^4294967295.0.0" ends before it begins. `NoneWraps` is that condition, and the
first two theorems about `Spec` do without it.

**`ServiceProofs`**, for every document, component, query, limit and number of
generations (`RequestsAssumption` with the sets of what can be written, the limits
being natural numbers, and `Absent` being nobody's outcome or name):

* `ServiceTypes`: `Spec => []TypeOK`;
* `DeciderIsAlwaysInEvidence`: `Spec => []DeciderIsInEvidence`;
* `SubjectsMayAlwaysSwap`: `Spec => []SubjectsMaySwap`;
* `TiersAlwaysAgree`: `Spec => []TiersAgree`;
* `NegotiationIsAlwaysCommonGround`: `Spec => []NegotiationIsCommonGround`;
* `ChangesAreAlwaysInTheDiff`: `Spec => []ChangesAreInTheDiff`;
* `ProvenanceAlwaysReconstructs`: `Spec => []ProvenanceReconstructs`;
* `DecidedIsAlwaysFinal`: `Spec => []DecidedIsFinal`;
* `ShadowedRulesAlwaysNeverDecide`: `Spec => []ShadowedRulesNeverDecide`.

All of them follow from one invariant and a fact about one kind of answer.

1. Reading: what `ParseRule`, `ParseComponentSpec` and `ParseRegistryDocument` let
   through has every field, within its range (`Read`, `ReadSpec`, `ReadDocument`).
2. `ServiceInvariant`: the types, `Holds` (what is stored was read and passed
   validation: `Published`) and `Answers` (the answer under way was computed from
   what is stored, and a report of a validation is that of the document it is about). Publishing gives a document its number and epoch, and neither
   its reading nor its validation looks at them; this is what lets the stored
   document inherit the verdict on the submitted one.
3. The evidence. `Weighs` is the invariant of weighing matching rules one by one:
   how many there were, which was the first to reach an outcome, and of which
   application each entry tells (`Shown`), the place of the last one included when
   a later rule decided. `DeciderIsInEvidence` and `FirstDecides` follow: the
   decision is that of the first rule, by precedence, that reaches an outcome. That
   precedence orders the rules of a published document strictly needs that their
   identifiers differ, which validation saw to. A set is weighed by the same loop
   over its set rules, and each of its pairs as a pair, so both hold of sets too.
4. From `FirstDecides`: exchanging the components leaves the matching rules and their
   outcomes as they are when no rule tells the sides apart, and naming the members of
   a set in another order leaves its set rules and its pairs as they are; a rule that
   is in both generations, with the taxonomy unchanged, decides both alike, so a
   changed outcome has a changed rule behind it, and a changed outcome of a set one
   behind a pair or behind the set itself; and what becomes known of a component changes no
   verdict that was not indeterminate. For the last, `Extends` says what can become
   known, and each kind of constraint is looked at on its own.
5. `TiersAgree` needs the ranges: two rules that match the same two components
   overlap as validation sees it, since the intersection of two selectors' ranges
   contains the component's version when both do (`IntersectIsIntersection`), so two
   such rules of one tier that disagree would have been a conflict, and the document
   would not have been published. Set rules are compared by their left selectors, so
   the same holds of two that select one member, and of no others.
6. `NegotiationIsCommonGround` looks at the members one by one, and at the finite sets
   of versions they declare, which have a highest and a lowest one.
7. `Tracks` is the invariant of following a rule through the generations in
   ascending order: the records so far tell its content in every generation so far,
   and the last record tells what is known now.
8. `ShadowedRulesNeverDecide` needs the cells of `VersionPlaneCovered`. Every release
   that is not a bound lies in one open cell between neighbouring bounds, and a range
   covers that cell exactly when it admits the release. So, when a rule was reported
   and matches two such releases, one of the rules that shadow it matches them as
   well. That rule is of a higher tier and skips neither when a constraint fails nor
   when it is indeterminate (`RuleAlwaysApplies`), and `FirstDecides` leaves nothing to
   the reported one. A report names a rule by its identity and revision, which two
   rules of one document may share; such a document is refused, and `NamesOneRule`
   leaves its report out, here and in `service_unreachable`.

**Model-checked only.** `WorkersLetGo`, `AcceptorLeaves` and `CallsReturn` are
liveness under fairness, which is out of the prover's reach. The five runs that
refute a statement are TLC's as well.

## 5. What is not modelled

* Encoding, parsing, hashing, command lines: conversions. A digest is taken to be
  collision free, a damaged file or frame to be recognised by its checksums. JSON
  documents are read from where the reader looks at a field.
* In-memory authorities, which have no disk; the two acquisitions of the lock in
  `Provenance`, which `Service` answers in one step.
* Spurious wakeups of the condition variable, which only help, and a failing
  `RegistryServer::Start`, which has started no thread.
* Torn writes: `WriteFileAtomic` flushes before it renames, and the rename is
  taken to be atomic and durable in order, as the code takes it.
* Of versions: splitting text into tokens and components, printing, build metadata
  and the total order that uses it. "<*" and "<=*", which read a component that is
  not there, and components that wrap are outside the texts of the runs.
* Of documents and components: the syntax of identifiers, descriptions, narratives
  and provenance texts, the truncation and order of a validation report, and the
  depth of 256 at which the search for implication cycles stops (`validation.cpp:838`):
  a cycle that is longer is always found here. No property depends on it.
* `fcrctl` but for its publication, `fcr-bench`, and the console handler of
  `fcr-registryd`.
* Statistics, except `active_connections_`.

## 6. Plan

What would add most, in this order:

1. Set rules of one tier that select different members of one set
   (`validation.cpp:41`, `registry.cpp:814`): validation does not compare them and a
   tie-break decides; `TiersAgree` covers those that select a common member.
2. `Provenance` and `Generations` split where they let go of the lock
   (`authority.cpp:321`), over an authority that prunes.
3. The wrap of a version's components at `version.cpp:284`, and "<*".
4. `DecidedIsFinal` for the set level of `EvaluateSet`, whose rules look at every
   member they select.
5. `Session` over the threads of `Server`, so that shutdown interrupts a request
   that has been executed and not answered.
