--------------------------- MODULE AuthorityProofs ---------------------------
(***************************************************************************)
(* Proofs about Authority for every number of clients, documents, ordinals *)
(* and openings, whatever is damaged and wherever the process dies.        *)
(***************************************************************************)
EXTENDS Authority, TLAPS

Epochs == 0..MaxEpoch
Ids == RH!Digests \cup {NoDigest}
Metas == [generation : 0..MaxGeneration, digest : Ids, epoch : Epochs,
          incarnation : Epochs, total : Nat]
Stamps == [incarnation : Epochs, id : Ids]
Calls == [expected : 0..MaxGeneration, doc : Docs \cup {NoDigest}, stamp : Stamps]

-----------------------------------------------------------------------------
(* The inductive invariant.                                                *)

DiskTypes ==
  /\ meta \in Metas
  /\ files \in [Numbers -> Files \cup {NoFile}]
  /\ commits \in [Numbers -> Ids]

MemoryTypes ==
  /\ running \in BOOLEAN
  /\ cached \in Metas
  /\ current \in Ids
  /\ history \in [Numbers -> Ids]

ClientTypes ==
  /\ pc \in [Clients -> {"idle", "preparing", "ready", "checked"}]
  /\ call \in [Clients -> Calls]
  /\ stamp \in [Clients -> Stamps]
  /\ answer \in [Clients -> [kind : {"none", "refused", "published", "queried"},
                             id : Ids, call : Calls]]

Types == DiskTypes /\ MemoryTypes /\ ClientTypes

\* What was committed, and that no file at or below the head is anything else.
\* Above the head a file may be debris.
DiskInv ==
  \A n \in Numbers :
    IF n <= meta.generation
    THEN /\ commits[n] \in RH!Digests /\ commits[n].number = n
         /\ files[n] # NoFile => files[n].digest = commits[n]
    ELSE commits[n] = NoDigest

\* What is in memory was committed, whether or not its file is still there; a
\* call lives in a process, and a publication on its way has a document.
MemoryInv ==
  /\ current # NoDigest => commits[current.number] = current
  /\ \A n \in Numbers : history[n] # NoDigest => history[n] = commits[n]
  /\ running => identity = IdentityOf(meta)
  /\ \A c \in Clients : pc[c] # "idle" => running
  /\ \A c \in Clients : pc[c] \in {"preparing", "ready"} => call[c].doc \in Docs

\* A stamp of this incarnation that names a generation was issued when there
\* was one, and a process that serves a generation goes on serving one.
Stamped(c) ==
  /\ stamp[c].incarnation <= meta.incarnation
  /\ running /\ stamp[c].incarnation = meta.incarnation /\ stamp[c].id # NoDigest
       => current # NoDigest
  /\ pc[c] = "checked" =>
       /\ call[c].stamp.incarnation = meta.incarnation
       /\ call[c].stamp.id # NoDigest =>
            current # NoDigest /\ current.number >= call[c].stamp.id.number

StampInv == \A c \in Clients : Stamped(c)

\* A success names a committed generation, the successor of what was expected.
AnswerInv ==
  \A c \in Clients : answer[c].kind = "published" =>
    /\ answer[c].id.number \in 1..meta.generation
    /\ answer[c].id.number = answer[c].call.expected + 1
    /\ answer[c].id.doc = answer[c].call.doc
    /\ commits[answer[c].id.number] = answer[c].id

AuthorityInv == Types /\ DiskInv /\ MemoryInv /\ StampInv /\ AnswerInv

-----------------------------------------------------------------------------
LEMMA AuthorityInit == Init => AuthorityInv
<1> SUFFICES ASSUME Init PROVE AuthorityInv
  OBVIOUS
<1>1. RH!ZeroMeta \in Metas /\ NoCall \in Calls /\ NoStamp \in Stamps /\ NoDigest \in Ids
  BY BoundsAssumption DEF RH!ZeroMeta, Metas, Ids, Epochs, NoCall, NoStamp, Calls, Stamps
<1>2. Types
  BY <1>1 DEF Init, Types, DiskTypes, MemoryTypes, ClientTypes, NoAnswer
<1>3. DiskInv
  BY DEF Init, DiskInv, RH!ZeroMeta, Numbers
<1>4. MemoryInv
  BY DEF Init, MemoryInv
<1>5. StampInv
  BY DEF Init, StampInv, Stamped, NoStamp, RH!ZeroMeta
<1>6. AnswerInv
  BY DEF Init, AnswerInv, NoAnswer
<1> QED BY <1>2, <1>3, <1>4, <1>5, <1>6 DEF AuthorityInv

\* What the store makes of its head and of the document for the next publication.
LEMMA NextDigest ==
  ASSUME Types, NEW d \in Docs, meta.generation < MaxGeneration
  PROVE  /\ RH!Published(meta, d) \in Metas
         /\ RH!Published(meta, d).generation = meta.generation + 1
         /\ IdentityOf(RH!Published(meta, d)) = IdentityOf(meta)
         /\ RH!Published(meta, d).incarnation = meta.incarnation
         /\ RH!Published(meta, d).digest \in RH!Digests
         /\ RH!Published(meta, d).digest.number = meta.generation + 1
         /\ RH!Published(meta, d).digest.doc = d
         /\ NewFile(d) \in Files
         /\ NewFile(d).digest = RH!Published(meta, d).digest
         /\ meta.generation + 1 \in Numbers
<1>1. /\ meta \in Metas /\ meta.generation \in Nat /\ meta.generation + 1 \in 1..MaxGeneration
      /\ meta.epoch \in 0..MaxEpoch /\ meta.total + 1 \in Nat
  BY BoundsAssumption DEF Types, DiskTypes, Metas, Epochs
<1> DEFINE digest == [number |-> meta.generation + 1, epoch |-> meta.epoch, doc |-> d]
<1>2. digest \in RH!Digests
  BY <1>1 DEF RH!Digests, RH!Numbers
<1> HIDE DEF digest
<1>3. RH!Published(meta, d) =
        [meta EXCEPT !.generation = meta.generation + 1, !.digest = digest, !.total = meta.total + 1]
  BY <1>1 DEF RH!Published, Metas, digest
<1>4. /\ RH!Published(meta, d) \in Metas /\ RH!Published(meta, d).digest = digest
      /\ RH!Published(meta, d).generation = meta.generation + 1
      /\ IdentityOf(RH!Published(meta, d)) = IdentityOf(meta)
      /\ RH!Published(meta, d).incarnation = meta.incarnation
  <2>1. /\ meta.generation + 1 \in 0..MaxGeneration /\ digest \in Ids
    BY <1>1, <1>2 DEF Ids
  <2>2. RH!Published(meta, d) \in Metas
    BY <1>1, <1>3, <2>1 DEF Metas
  <2> QED BY <1>1, <1>3, <2>2 DEF Metas, IdentityOf
<1>5. digest.number = meta.generation + 1 /\ digest.doc = d
  BY DEF digest
<1> QED BY <1>1, <1>2, <1>4, <1>5 DEF NewFile, Files, Numbers

-----------------------------------------------------------------------------
(* Steps that leave the head and what is served alone.                     *)

\* What a step may do to the calls and to the clients.
CallsFollow ==
  \A c \in Clients :
    /\ pc'[c] # "idle" => running
    /\ pc'[c] \in {"preparing", "ready"} => call'[c].doc \in Docs
    /\ \/ stamp'[c] = stamp[c]
       \/ running /\ stamp'[c] = [incarnation |-> identity.incarnation, id |-> current]
    /\ pc'[c] = "checked" =>
         \/ pc[c] = "checked" /\ call'[c] = call[c]
         \/ running /\ call'[c].stamp = stamp[c] /\ StampMatches(stamp[c])
    /\ answer'[c].kind = "published" => answer'[c] = answer[c]

LEMMA QuietStep ==
  ASSUME AuthorityInv, UNCHANGED <<meta, commits, running, cached, current, identity>>,
         Types', DiskInv', CallsFollow,
         \A n \in Numbers : history'[n] \in {history[n], NoDigest}
  PROVE  AuthorityInv'
<1> USE DEF AuthorityInv, CallsFollow
<1>3. MemoryInv'
  BY DEF MemoryInv, IdentityOf
<1>4. StampInv'
  <2> SUFFICES ASSUME NEW c \in Clients PROVE Stamped(c)'
    BY DEF StampInv
  <2> USE DEF Stamped, StampInv, MemoryInv, IdentityOf
  <2>1. /\ meta.incarnation \in Nat /\ stamp[c] \in Stamps
        /\ current # NoDigest => current.number \in Nat
    BY BoundsAssumption DEF Types, DiskTypes, MemoryTypes, ClientTypes, Metas, Epochs, Ids,
       RH!Digests, RH!Numbers
  <2>2. /\ stamp'[c].incarnation <= meta.incarnation
        /\ running /\ stamp'[c].incarnation = meta.incarnation /\ stamp'[c].id # NoDigest
             => current # NoDigest
    BY <2>1
  <2>3. CASE pc'[c] = "checked" /\ pc[c] = "checked" /\ call'[c] = call[c]
    BY <2>2, <2>3
  <2>4. CASE running /\ call'[c].stamp = stamp[c] /\ StampMatches(stamp[c])
    BY <2>1, <2>2, <2>4 DEF StampMatches
  <2> QED BY <2>2, <2>3, <2>4
<1>5. AnswerInv'
  BY DEF AnswerInv
<1> QED BY <1>3, <1>4, <1>5

LEMMA NullsHaveTypes == NoDigest \in Ids /\ NoCall \in Calls /\ NoStamp \in Stamps
  BY BoundsAssumption DEF Ids, NoCall, Calls, NoStamp, Stamps, Epochs

\* A publication on its way to its commit, and any look at the memory.
LEMMA CallSteps ==
  ASSUME AuthorityInv, NEW c \in Clients,
         \/ \E d \in Docs, e \in 0..MaxGeneration : StartPublish(c, d, e)
         \/ Prepare(c) \/ GiveUp(c) \/ Refuse(c) \/ Read(c)
  PROVE  AuthorityInv'
<1> USE NullsHaveTypes DEF AuthorityInv, Types, DiskTypes, DiskInv, MemoryTypes, ClientTypes,
                           MemoryInv, CallsFollow, disk, memory
<1>2. ASSUME NEW d \in Docs, NEW e \in 0..MaxGeneration, StartPublish(c, d, e) PROVE AuthorityInv'
  <2>1. [NoCall EXCEPT !.expected = e, !.doc = d] \in Calls
    BY DEF Calls
  <2> QED BY <1>2, <2>1, QuietStep DEF StartPublish, Begin, NoCall
<1>3. CASE Prepare(c)
  BY <1>3, QuietStep DEF Prepare
<1>4. CASE GiveUp(c)
  BY <1>4, QuietStep DEF GiveUp, Answer
<1>5. CASE Refuse(c)
  BY <1>5, QuietStep DEF Refuse, Answer
<1>6. CASE GetStamp(c)
  <2>1. [incarnation |-> identity.incarnation, id |-> current] \in Stamps
    BY <1>6 DEF GetStamp, Stamps, Metas, IdentityOf
  <2> QED BY <1>6, <2>1, QuietStep DEF GetStamp
<1>7. CASE StartQuery(c)
  <2>1. [NoCall EXCEPT !.stamp = stamp[c]] \in Calls
    BY DEF Calls
  <2> QED BY <1>7, <2>1, QuietStep DEF StartQuery, Begin, NoCall
<1>8. CASE Query(c)
  BY <1>8, QuietStep DEF Query, Answer
<1>9. CASE QueryNothing(c)
  BY <1>9, QuietStep DEF QueryNothing, Answer
<1> QED BY <1>2, <1>3, <1>4, <1>5, <1>6, <1>7, <1>8, <1>9 DEF Read

\* A failed commit leaves a file above the head, or none; damage leaves the
\* digest; prune takes files and what memory has of them.
LEMMA FileSteps ==
  ASSUME AuthorityInv,
         \/ \E c \in Clients : CommitFails(c) \/ \E keep \in 0..MaxGeneration : Prune(c, keep)
         \/ \E n \in Numbers : Damage(n)
         \/ CancelAll
  PROVE  AuthorityInv'
<1> USE NullsHaveTypes DEF AuthorityInv, Types, DiskTypes, MemoryTypes, ClientTypes
<1>1. ASSUME NEW c \in Clients, CommitFails(c) PROVE AuthorityInv'
  <2>1. meta.generation < MaxGeneration /\ call[c].doc \in Docs
    BY <1>1 DEF CommitFails, Committing, MemoryInv
  <2>2. DiskTypes' /\ DiskInv'
    <3>1. NewFile(call[c].doc) \in Files /\ meta.generation \in Nat
      BY <2>1, NextDigest, BoundsAssumption DEF Metas
    <3>2. ASSUME NEW n \in Numbers, n <= meta.generation PROVE files'[n] = files[n]
      <4>1. n # meta.generation + 1
        BY <3>1, <3>2 DEF Numbers
      <4>2. files \in [Numbers -> Files \cup {NoFile}]
        OBVIOUS
      <4> QED BY ONLY <1>1, <4>1, <4>2 DEF CommitFails
    <3>3. files' \in [Numbers -> Files \cup {NoFile}]
      BY <1>1, <3>1 DEF CommitFails
    <3>4. UNCHANGED <<meta, commits>>
      BY <1>1 DEF CommitFails
    <3> QED BY <3>2, <3>3, <3>4 DEF DiskInv
  <2> QED BY <1>1, <2>1, <2>2, QuietStep DEF CommitFails, Committing, Answer, CallsFollow, memory, MemoryInv
<1>2. ASSUME NEW c \in Clients, NEW keep \in 0..MaxGeneration, Prune(c, keep) PROVE AuthorityInv'
  <2>1. DiskTypes' /\ DiskInv' /\ history' \in [Numbers -> Ids]
        /\ \A n \in Numbers : history'[n] \in {history[n], NoDigest}
    BY <1>2 DEF Prune, Without, DiskInv
  <2> QED BY <1>2, <2>1, QuietStep DEF Prune, clients, CallsFollow, MemoryInv
<1>3. ASSUME NEW n \in Numbers, Damage(n) PROVE AuthorityInv'
  <2>1. files[n] \in Files
    BY <1>3 DEF Damage, Readable, Listed
  <2>2. DiskTypes' /\ DiskInv'
    BY <1>3, <2>1, NullAssumption DEF Damage, DiskInv, Files
  <2> QED BY <1>3, <2>2, QuietStep DEF Damage, clients, memory, CallsFollow, MemoryInv
<1>4. CASE CancelAll
  BY <1>4, QuietStep DEF CancelAll, disk, memory, clients, CallsFollow, MemoryInv, DiskInv
<1> QED BY <1>1, <1>2, <1>3, <1>4

-----------------------------------------------------------------------------
(* Steps that move the head, with or without the memory following.         *)

LEMMA InstallStep ==
  ASSUME AuthorityInv, NEW d \in Docs, Install(d)
  PROVE  /\ DiskTypes' /\ DiskInv'
         /\ meta'.generation = meta.generation + 1 /\ meta.generation \in Nat
         /\ IdentityOf(meta') = IdentityOf(meta)
         /\ meta'.incarnation = meta.incarnation
         /\ meta'.digest \in RH!Digests /\ meta'.digest.doc = d
         /\ meta'.digest.number = meta.generation + 1
         /\ meta.generation + 1 \in Numbers
         /\ commits'[meta.generation + 1] = meta'.digest
         /\ \A n \in Numbers : commits[n] # NoDigest =>
              n \in 1..meta.generation /\ commits'[n] = commits[n]
<1> DEFINE next == meta.generation + 1
<1>1. meta.generation < MaxGeneration /\ meta' = RH!Published(meta, d)
  BY DEF Install
<1>2. /\ files \in [Numbers -> Files \cup {NoFile}] /\ commits \in [Numbers -> Ids]
      /\ meta \in Metas /\ Types /\ DiskInv
  BY DEF AuthorityInv, Types, DiskTypes
<1>3. /\ meta' \in Metas /\ meta'.generation = next /\ meta.generation \in Nat
      /\ IdentityOf(meta') = IdentityOf(meta) /\ meta'.incarnation = meta.incarnation
      /\ meta'.digest \in RH!Digests /\ meta'.digest.number = next /\ meta'.digest.doc = d
      /\ NewFile(d) \in Files /\ NewFile(d).digest = meta'.digest /\ next \in Numbers
  BY <1>1, <1>2, NextDigest, BoundsAssumption DEF Metas
<1>4. /\ files' = [files EXCEPT ![next] = NewFile(d)]
      /\ commits' = [commits EXCEPT ![next] = meta'.digest]
  BY DEF Install
<1> HIDE DEF next
<1>5. DiskTypes'
  BY <1>2, <1>3, <1>4 DEF DiskTypes, Ids
<1>6. \A n \in Numbers : n # next => files'[n] = files[n] /\ commits'[n] = commits[n]
  BY <1>2, <1>4
<1>7. files'[next] = NewFile(d) /\ commits'[next] = meta'.digest
  BY <1>2, <1>3, <1>4
<1>8. DiskInv'
  <2> SUFFICES ASSUME NEW n \in Numbers
               PROVE  IF n <= next
                      THEN /\ commits'[n] \in RH!Digests /\ commits'[n].number = n
                           /\ files'[n] # NoFile => files'[n].digest = commits'[n]
                      ELSE commits'[n] = NoDigest
    BY <1>3 DEF DiskInv
  <2>1. CASE n = next
    BY <1>3, <1>7, <2>1 DEF Numbers
  <2>2. CASE n # next
    BY <1>2, <1>3, <1>6, <2>2 DEF DiskInv, Numbers, next
  <2> QED BY <2>1, <2>2
<1>9. \A n \in Numbers : commits[n] # NoDigest =>
        n \in 1..meta.generation /\ commits'[n] = commits[n]
  BY <1>2, <1>3, <1>6 DEF DiskInv, Numbers, next
<1> QED BY <1>3, <1>5, <1>7, <1>8, <1>9 DEF next

\* What was told stays true while the head moves.
LEMMA AnswersStay ==
  ASSUME AuthorityInv, NEW d \in Docs, Install(d), NEW c \in Clients, answer'[c] = answer[c],
         answer[c].kind = "published"
  PROVE  /\ answer[c].id.number \in 1..meta'.generation
         /\ commits'[answer[c].id.number] = answer[c].id
<1>1. /\ answer[c].id.number \in 1..meta.generation
      /\ commits[answer[c].id.number] = answer[c].id
  BY DEF AuthorityInv, AnswerInv
<1>2. meta.generation \in 0..MaxGeneration /\ meta'.generation = meta.generation + 1
  BY InstallStep DEF AuthorityInv, Types, DiskTypes, Metas
<1>3. answer[c].id.number \in Numbers /\ answer[c].id.number <= meta.generation
  BY <1>1, <1>2, BoundsAssumption DEF Numbers
<1>4. commits[answer[c].id.number] # NoDigest
  BY <1>3, NullAssumption DEF AuthorityInv, DiskInv
<1> QED BY <1>1, <1>2, <1>3, <1>4, InstallStep

\* Everything in memory was committed before, and still is.
LEMMA MemoryStays ==
  ASSUME AuthorityInv, NEW d \in Docs, Install(d)
  PROVE  /\ current # NoDigest => commits'[current.number] = current
         /\ current # NoDigest => current.number \in 1..meta.generation
         /\ \A n \in Numbers : history[n] # NoDigest => history[n] = commits'[n]
<1>1. ASSUME current # NoDigest
      PROVE  current.number \in Numbers /\ commits[current.number] = current
  BY <1>1 DEF AuthorityInv, Types, MemoryTypes, MemoryInv, Ids, RH!Digests, RH!Numbers, Numbers
<1> QED BY <1>1, InstallStep DEF AuthorityInv, MemoryInv

LEMMA CommitStep ==
  ASSUME AuthorityInv, NEW c \in Clients, Commit(c) \/ CommitUnread(c)
  PROVE  AuthorityInv'
<1> DEFINE d == call[c].doc
<1>1. /\ d \in Docs /\ Install(d) /\ running /\ running' = running
      /\ cached.generation = meta.generation /\ cached.generation = call[c].expected
      /\ identity' = identity /\ identity = IdentityOf(meta) /\ stamp' = stamp
      /\ pc' = [pc EXCEPT ![c] = "idle"] /\ call' = [call EXCEPT ![c] = NoCall]
  BY DEF Commit, CommitUnread, Committing, ExpectationHolds, StoreAccepts, Answer,
         AuthorityInv, MemoryInv, memory
<1>2. Types'
  <2>1. DiskTypes' /\ meta'.digest \in Ids /\ meta'.generation \in Numbers
    BY <1>1, InstallStep DEF Ids
  <2>2. MemoryTypes'
    BY <2>1 DEF Commit, CommitUnread, AuthorityInv, Types, MemoryTypes, DiskTypes, memory
  <2>3. ClientTypes'
    <3>1. \E kind \in {"refused", "published"}, id \in Ids :
            answer' = [answer EXCEPT ![c] = [kind |-> kind, id |-> id, call |-> call[c]]]
      BY <2>1, NullsHaveTypes DEF Commit, CommitUnread, Answer
    <3>2. ClientTypes
      BY DEF AuthorityInv, Types
    <3>3. answer' \in [Clients -> [kind : {"none", "refused", "published", "queried"},
                                   id : Ids, call : Calls]]
      BY <3>1, <3>2 DEF ClientTypes
    <3> QED BY <1>1, <3>2, <3>3, NullsHaveTypes DEF ClientTypes
  <2> QED BY <2>1, <2>2, <2>3 DEF Types
<1>3. DiskInv'
  BY <1>1, InstallStep
<1>4. MemoryInv'
  <2>1. identity' = IdentityOf(meta')
    BY <1>1, InstallStep
  <2>2. \A k \in Clients : pc'[k] # "idle" => k # c /\ pc'[k] = pc[k] /\ call'[k] = call[k]
    BY <1>1 DEF AuthorityInv, Types, ClientTypes
  <2>3. /\ current' # NoDigest => commits'[current'.number] = current'
        /\ \A n \in Numbers : history'[n] # NoDigest => history'[n] = commits'[n]
    BY <1>1, InstallStep, MemoryStays
       DEF Commit, CommitUnread, memory, AuthorityInv, Types, MemoryTypes
  <2> QED BY <1>1, <2>1, <2>2, <2>3 DEF AuthorityInv, MemoryInv
<1>5. StampInv'
  <2> SUFFICES ASSUME NEW k \in Clients PROVE Stamped(k)'
    BY DEF StampInv
  <2>1. current' = current \/ current' = meta'.digest
    BY DEF Commit, CommitUnread, memory
  <2>2. current # NoDigest =>
          current' # NoDigest /\ (call[k].stamp.id.number \in Nat =>
            (current.number >= call[k].stamp.id.number => current'.number >= call[k].stamp.id.number))
    BY <1>1, <2>1, InstallStep, MemoryStays, NullAssumption
  <2>3. call[k].stamp.id # NoDigest => call[k].stamp.id.number \in Nat
    BY DEF AuthorityInv, Types, ClientTypes, Calls, Stamps, Ids, RH!Digests, RH!Numbers
  <2>4. pc'[k] = "checked" => pc[k] = "checked" /\ call'[k] = call[k]
    BY <1>1 DEF AuthorityInv, Types, ClientTypes
  <2> QED BY <1>1, <2>2, <2>3, <2>4, InstallStep DEF AuthorityInv, StampInv, Stamped
<1>6. AnswerInv'
  <2> SUFFICES ASSUME NEW k \in Clients, answer'[k].kind = "published"
               PROVE  /\ answer'[k].id.number \in 1..meta'.generation
                      /\ answer'[k].id.number = answer'[k].call.expected + 1
                      /\ answer'[k].id.doc = answer'[k].call.doc
                      /\ commits'[answer'[k].id.number] = answer'[k].id
    BY DEF AnswerInv
  <2>1. CASE answer'[k] = answer[k]
    BY <1>1, <2>1, AnswersStay DEF AuthorityInv, AnswerInv
  <2>2. CASE answer'[k] # answer[k]
    <3>1. /\ answer'[k].id = meta'.digest /\ answer'[k].call = call[c]
      BY <2>2 DEF Commit, CommitUnread, Answer, AuthorityInv, Types, ClientTypes
    <3> QED BY <1>1, <3>1, InstallStep
  <2> QED BY <2>1, <2>2
<1> QED BY <1>2, <1>3, <1>4, <1>5, <1>6 DEF AuthorityInv

-----------------------------------------------------------------------------
(* The life of the process.                                                *)

\* The process ends, and nothing of what it had committed is lost.
LEMMA GoneStep ==
  ASSUME AuthorityInv, Gone, DiskTypes', DiskInv', meta'.incarnation = meta.incarnation,
         \A c \in Clients : answer[c].kind = "published" =>
           /\ answer[c].id.number \in 1..meta'.generation
           /\ commits'[answer[c].id.number] = answer[c].id
  PROVE  AuthorityInv'
<1> USE NullsHaveTypes DEF Gone
<1>1. Types'
  <2>1. RH!ZeroMeta \in Metas
    BY BoundsAssumption DEF RH!ZeroMeta, Metas, Ids, Epochs
  <2> QED BY <2>1 DEF AuthorityInv, Types, MemoryTypes, ClientTypes
<1>2. MemoryInv'
  BY DEF MemoryInv
<1>3. StampInv'
  BY DEF AuthorityInv, StampInv, Stamped
<1>4. AnswerInv'
  BY DEF AuthorityInv, AnswerInv
<1> QED BY <1>1, <1>2, <1>3, <1>4 DEF AuthorityInv

LEMMA EndSteps ==
  ASSUME AuthorityInv, Stop \/ \E c \in Clients : CrashInCommit(c)
  PROVE  AuthorityInv'
<1>1. CASE Stop
  BY <1>1, GoneStep DEF Stop, disk, AuthorityInv, Types, DiskTypes, DiskInv, AnswerInv
<1>2. ASSUME NEW c \in Clients, CrashInCommit(c) PROVE AuthorityInv'
  <2>1. Gone /\ meta.generation < MaxGeneration /\ call[c].doc \in Docs
    BY <1>2 DEF CrashInCommit, Committing, AuthorityInv, MemoryInv
  <2>2. CASE Install(call[c].doc)
    <3>1. \A k \in Clients : answer'[k] = answer[k]
      BY <2>1 DEF Gone
    <3> QED BY <2>1, <2>2, <3>1, GoneStep, InstallStep, AnswersStay
  <2>3. ASSUME NEW left \in {NewFile(call[c].doc), NoFile},
               files' = [files EXCEPT ![meta.generation + 1] = left],
               UNCHANGED <<meta, commits>>
        PROVE  AuthorityInv'
    <3>1. /\ left \in Files \cup {NoFile} /\ meta.generation \in Nat
          /\ files \in [Numbers -> Files \cup {NoFile}]
      BY <2>1, NextDigest, BoundsAssumption DEF Metas, AuthorityInv, Types, DiskTypes
    <3>2. ASSUME NEW n \in Numbers, n <= meta.generation PROVE files'[n] = files[n]
      <4>1. n # meta.generation + 1
        BY <3>1, <3>2 DEF Numbers
      <4> QED BY ONLY <2>3, <3>1, <4>1
    <3>3. files' \in [Numbers -> Files \cup {NoFile}]
      BY <2>3, <3>1
    <3>4. DiskTypes' /\ DiskInv'
      BY <2>3, <3>2, <3>3 DEF AuthorityInv, Types, DiskTypes, DiskInv
    <3> QED BY <2>1, <2>3, <3>4, GoneStep DEF AuthorityInv, AnswerInv
  <2> QED BY <1>2, <2>2, <2>3 DEF CrashInCommit
<1> QED BY <1>1, <1>2

\* A writer opens the directory: a new incarnation, which no client has a stamp
\* of, and at most debris is gone.
LEMMA TakeStep ==
  ASSUME AuthorityInv, TakeDirectory, commits' = commits
  PROVE  /\ DiskTypes' /\ DiskInv'
         /\ meta'.generation = meta.generation
         /\ meta'.incarnation = meta.incarnation + 1 /\ meta.incarnation \in Nat
<1>1. /\ meta' \in Metas /\ meta'.generation = meta.generation
      /\ meta'.incarnation = meta.incarnation + 1 /\ meta.incarnation \in Nat
  <2>1. meta \in Metas /\ meta.epoch + 1 \in Epochs /\ meta.incarnation + 1 \in Epochs
    BY BoundsAssumption DEF AuthorityInv, Types, DiskTypes, TakeDirectory, Metas, Epochs
  <2>2. meta' = [meta EXCEPT !.epoch = meta.epoch + 1, !.incarnation = meta.incarnation + 1]
    BY <2>1 DEF TakeDirectory, RH!TakenOver, Metas
  <2>3. meta' \in Metas
    BY <2>1, <2>2 DEF Metas
  <2>4. meta.incarnation \in Nat
    BY <2>1, BoundsAssumption DEF Metas, Epochs
  <2> QED BY <2>1, <2>2, <2>3, <2>4 DEF Metas
<1>2. /\ files' \in [Numbers -> Files \cup {NoFile}]
      /\ \A n \in Numbers : files'[n] \in {files[n], NoFile}
  BY DEF AuthorityInv, Types, DiskTypes, TakeDirectory, Without
<1> QED BY <1>1, <1>2 DEF AuthorityInv, Types, DiskTypes, DiskInv

LEMMA OpenSteps == AuthorityInv /\ (Open \/ OpenFails) => AuthorityInv'
<1> SUFFICES ASSUME AuthorityInv, Open \/ OpenFails PROVE AuthorityInv'
  OBVIOUS
<1>1. /\ TakeDirectory /\ commits' = commits /\ ~running
      /\ UNCHANGED clients
  BY DEF Open, OpenFails, TakeDirectory
<1>2. \A c \in Clients : pc'[c] = "idle" /\ stamp'[c] = stamp[c] /\ answer'[c] = answer[c]
  BY <1>1 DEF clients, AuthorityInv, MemoryInv
<1>3. StampInv' /\ AnswerInv' /\ ClientTypes'
  <2>1. AnswerInv' /\ ClientTypes'
    BY <1>1, TakeStep DEF AuthorityInv, Types, ClientTypes, AnswerInv, clients
  <2>2. \A c \in Clients : stamp[c].incarnation \in Nat
    BY BoundsAssumption DEF AuthorityInv, Types, ClientTypes, Stamps, Epochs
  <2>3. StampInv'
    BY <1>1, <1>2, <2>2, TakeStep DEF AuthorityInv, StampInv, Stamped
  <2> QED BY <2>1, <2>3
<1>4. MemoryTypes' /\ MemoryInv'
  <2>1. CASE OpenFails
    BY <1>1, <1>2, <2>1 DEF OpenFails, memory, AuthorityInv, Types, MemoryTypes, MemoryInv
  <2>2. CASE Open /\ meta.generation = 0
    BY <1>1, <1>2, <2>2, TakeStep DEF Open, AuthorityInv, Types, MemoryTypes, MemoryInv, DiskTypes
  <2>3. CASE Open /\ meta.generation > 0
    <3>1. PICK newest \in Recoverable :
            /\ current' = files[newest].digest
            /\ history' = [history EXCEPT ![newest] = files[newest].digest]
      BY <2>3 DEF Open, AuthorityInv, Types, DiskTypes, Metas
    <3>2. /\ newest \in Numbers /\ files[newest].digest = commits[newest]
          /\ commits[newest] \in RH!Digests /\ commits[newest].number = newest
      BY <3>1 DEF Recoverable, Readable, Listed, AuthorityInv, DiskInv
    <3> QED BY <1>1, <1>2, <2>3, <3>1, <3>2, TakeStep
            DEF Open, AuthorityInv, Types, MemoryTypes, MemoryInv, DiskTypes, Ids
  <2> QED BY <2>1, <2>2, <2>3 DEF Open
<1> QED BY <1>1, <1>3, <1>4, TakeStep DEF AuthorityInv, Types

-----------------------------------------------------------------------------
LEMMA AuthorityStep == AuthorityInv /\ [Next]_vars => AuthorityInv'
<1> SUFFICES ASSUME AuthorityInv, [Next]_vars PROVE AuthorityInv'
  OBVIOUS
<1>1. ASSUME NEW c \in Clients, Publish(c) PROVE AuthorityInv'
  BY <1>1, CallSteps, CommitStep, FileSteps, EndSteps DEF Publish
<1>2. ASSUME NEW c \in Clients, Read(c) PROVE AuthorityInv'
  BY <1>2, CallSteps
<1>3. CASE UNCHANGED vars
  BY <1>3 DEF vars, disk, memory, clients, AuthorityInv, Types, DiskTypes, MemoryTypes, ClientTypes,
     DiskInv, MemoryInv, StampInv, Stamped, AnswerInv, StampMatches, IdentityOf
<1> QED BY <1>1, <1>2, <1>3, FileSteps, EndSteps, OpenSteps DEF Next

LEMMA AuthorityCorrect == Spec => []AuthorityInv
  BY AuthorityInit, AuthorityStep, PTL DEF Spec

\* However many publishers race, a success is the direct successor of the
\* generation its publisher stated, with its document (Publish, Commit).
THEOREM NoUpdateIsLost == Spec => []WinnerExtendsItsBase
<1>1. AuthorityInv => WinnerExtendsItsBase
  BY DEF AuthorityInv, AnswerInv, WinnerExtendsItsBase
<1> QED BY AuthorityCorrect, <1>1, PTL

\* Whatever is served from memory, and whatever a lookup at or below the head
\* finds, was committed under its ordinal (Open, Commit, SnapshotAt).
THEOREM OnlyCommittedIsServed == Spec => []ServedIsCommitted
<1>1. AuthorityInv => ServedIsCommitted
  <2> SUFFICES ASSUME AuthorityInv, NEW n \in 1..meta.generation, Found(n)
               PROVE  SnapshotAt(n) = commits[n]
    BY DEF ServedIsCommitted, AuthorityInv, MemoryInv
  <2>1. n \in Numbers /\ n <= meta.generation
    BY BoundsAssumption DEF AuthorityInv, Types, DiskTypes, Metas, Numbers
  <2> QED BY <2>1 DEF AuthorityInv, MemoryInv, DiskInv, Found, SnapshotAt, Readable, Listed
<1> QED BY AuthorityCorrect, <1>1, PTL

\* The authority implements the abstract head: whatever the clients do and
\* wherever the process dies, the head moves forward one ordinal or one owner at
\* a time (Open, Publish).
THEOREM AuthorityIsAHead == Spec => ImplementsHead
<1>1. Init => RH!Init
  BY DEF Init, RH!Init, Numbers, RH!Numbers
<1>2. ASSUME AuthorityInv, [Next]_vars PROVE [RH!Next]_(RH!vars)
  <2>1. ASSUME NEW d \in Docs, Install(d) PROVE RH!Next
    BY <2>1 DEF Install, RH!Next, RH!Advance
  <2>2. ASSUME TakeDirectory, UNCHANGED commits PROVE RH!Next
    BY <2>2 DEF TakeDirectory, RH!Next, RH!TakeOver
  <2>3. ASSUME NEW c \in Clients, Publish(c) PROVE [RH!Next]_(RH!vars)
    BY <1>2, <2>1, <2>3 DEF Publish, StartPublish, Prepare, GiveUp, Refuse, Commit, CommitUnread,
       CommitFails, CrashInCommit, Committing, disk, RH!vars, AuthorityInv, MemoryInv
  <2>4. ASSUME NEW c \in Clients, Read(c) \/ \E keep \in 0..MaxGeneration : Prune(c, keep)
        PROVE  UNCHANGED RH!vars
    BY <2>4 DEF Read, GetStamp, StartQuery, Query, QueryNothing, Prune, disk, RH!vars
  <2>5. CASE Open \/ OpenFails
    BY <2>2, <2>5 DEF Open, OpenFails
  <2>6. CASE Stop \/ CancelAll \/ (\E n \in Numbers : Damage(n)) \/ UNCHANGED vars
    BY <2>6 DEF Stop, CancelAll, Damage, vars, disk, RH!vars
  <2> QED BY <1>2, <2>3, <2>4, <2>5, <2>6 DEF Next
<1> QED BY AuthorityCorrect, <1>1, <1>2, PTL DEF Spec, ImplementsHead, RH!Spec

\* The number of what is served and of what a step may serve instead.
LEMMA ServedForward ==
  ASSUME AuthorityInv, [Next]_vars, running, running'
  PROVE  \/ UNCHANGED current
         \/ \E c \in Clients : Commit(c)
<1>1. ASSUME NEW c \in Clients, Publish(c) PROVE UNCHANGED current \/ Commit(c)
  BY <1>1 DEF Publish, StartPublish, Prepare, GiveUp, Refuse, CommitUnread, CommitFails,
     CrashInCommit, Gone, memory
<1>2. ASSUME NEW c \in Clients, Read(c) \/ \E keep \in 0..MaxGeneration : Prune(c, keep)
      PROVE  UNCHANGED current
  BY <1>2 DEF Read, GetStamp, StartQuery, Query, QueryNothing, Prune, memory
<1>3. CASE Open \/ OpenFails \/ Stop
  BY <1>3 DEF Open, OpenFails, TakeDirectory, Stop, Gone
<1>4. CASE CancelAll \/ (\E n \in Numbers : Damage(n)) \/ UNCHANGED vars
  BY <1>4 DEF CancelAll, Damage, vars, memory
<1> QED BY <1>1, <1>2, <1>3, <1>4 DEF Next

\* A call of a living process comes back by a step of its own.
LEMMA OwnReturn ==
  ASSUME AuthorityInv, [Next]_vars, running', NEW c \in Clients, pc'[c] # pc[c]
  PROVE  Publish(c) \/ Read(c)
<1> USE DEF AuthorityInv, Types, ClientTypes
<1>1. ASSUME NEW k \in Clients, k # c, Publish(k) PROVE pc'[c] = pc[c]
  BY <1>1 DEF Publish, StartPublish, Begin, Prepare, GiveUp, Refuse, Commit, CommitUnread, CommitFails,
     CrashInCommit, Gone, Answer
<1>2. ASSUME NEW k \in Clients, k # c, Read(k) PROVE pc'[c] = pc[c]
  BY <1>2 DEF Read, GetStamp, StartQuery, Begin, Query, QueryNothing, Answer
<1>3. ASSUME \/ \E k \in Clients, keep \in 0..MaxGeneration : Prune(k, keep)
             \/ Open \/ OpenFails \/ CancelAll \/ (\E n \in Numbers : Damage(n)) \/ UNCHANGED vars
      PROVE  pc'[c] = pc[c]
  BY <1>3 DEF Prune, Open, OpenFails, CancelAll, Damage, clients, vars
<1>4. CASE Stop
  BY <1>4 DEF Stop, Gone
<1> QED BY <1>1, <1>2, <1>3, <1>4 DEF Next

\* While the process lives, what queries are answered from only moves forward,
\* and a success is what is served then (Commit, Snapshot).
THEOREM ReadersNeverGoBack == Spec => ReadersMoveForward
<1>1. ASSUME AuthorityInv, [Next]_vars, running, running', current # NoDigest
      PROVE  current' # NoDigest /\ current'.number >= current.number
  <2>1. current.number \in Nat
    BY <1>1 DEF AuthorityInv, Types, MemoryTypes, Ids, RH!Digests, RH!Numbers
  <2>2. ASSUME NEW c \in Clients, Commit(c)
        PROVE  current' # NoDigest /\ current'.number >= current.number
    BY <1>1, <2>1, <2>2, InstallStep, MemoryStays, NullAssumption
       DEF Commit, Committing, AuthorityInv, MemoryInv
  <2> QED BY <1>1, <2>1, <2>2, ServedForward
<1>2. ASSUME AuthorityInv, [Next]_vars, NEW c \in Clients, Returns(c, "ready", "published")
      PROVE  current' = answer'[c].id
  <2>1. Publish(c) \/ Read(c)
    BY <1>2, OwnReturn DEF Returns
  <2>2. answer'[c].kind = "published" /\ pc[c] = "ready" /\ DOMAIN answer = Clients
    BY <1>2 DEF Returns, AuthorityInv, Types, ClientTypes
  <2>3. CASE Commit(c)
    BY <2>2, <2>3 DEF Commit, Answer
  <2>4. CASE CrashInCommit(c)
    BY <1>2, <2>4 DEF CrashInCommit, Gone, Returns
  <2> QED BY <2>1, <2>2, <2>3, <2>4 DEF Publish, StartPublish, Begin, Prepare, GiveUp, Refuse,
          CommitUnread, CommitFails, Answer, Read, GetStamp, StartQuery, Query, QueryNothing
<1>3. ASSUME AuthorityInv, [Next]_vars
      PROVE  [running /\ running' =>
                /\ current # NoDigest => current' # NoDigest /\ current'.number >= current.number
                /\ \A c \in Clients : Returns(c, "ready", "published") => current' = answer'[c].id]_vars
  BY <1>1, <1>2, <1>3
<1> QED BY AuthorityCorrect, <1>3, PTL DEF Spec, ReadersMoveForward

\* A client of an earlier process is refused, and what is answered under a stamp
\* is at least as new as the stamp (CheckStamp, ExecuteRequest, QueryPair).
THEOREM AnswersAreFresh == Spec => StampedAnswersAreFresh
<1>1. ASSUME AuthorityInv, [Next]_vars, NEW c \in Clients, Returns(c, "checked", "queried")
      PROVE  /\ call[c].stamp.incarnation = meta.incarnation
             /\ call[c].stamp.id # NoDigest => answer'[c].id.number >= call[c].stamp.id.number
  <2>1. Publish(c) \/ Read(c)
    BY <1>1, OwnReturn DEF Returns
  <2>2. /\ answer'[c].kind = "queried" /\ pc[c] = "checked" /\ pc'[c] = "idle" /\ running'
        /\ DOMAIN answer = Clients
    BY <1>1 DEF Returns, AuthorityInv, Types, ClientTypes
  <2>3. Query(c)
    <3>1. Read(c)
      BY <2>1, <2>2 DEF Publish, StartPublish, Begin, Prepare, GiveUp, Refuse, Commit, Committing,
         CommitUnread, CommitFails, CrashInCommit
    <3>2. ASSUME QueryNothing(c) PROVE FALSE
      <4>1. answer' = [answer EXCEPT ![c] = [kind |-> "refused", id |-> NoDigest, call |-> call[c]]]
        BY <3>2 DEF QueryNothing, Answer
      <4>2. answer'[c].kind = "refused"
        BY <2>2, <4>1
      <4> QED BY <2>2, <4>2
    <3> QED BY <2>2, <3>1, <3>2 DEF Read, GetStamp, StartQuery, Begin
  <2>4. answer'[c].id = current
    BY <2>2, <2>3 DEF Query, Answer
  <2> QED BY <1>1, <2>2, <2>4 DEF AuthorityInv, StampInv, Stamped
<1>2. ASSUME AuthorityInv, [Next]_vars
      PROVE  [\A c \in Clients : Returns(c, "checked", "queried") =>
                LET presented == call[c].stamp
                IN /\ presented.incarnation = meta.incarnation
                   /\ presented.id # NoDigest => answer'[c].id.number >= presented.id.number]_vars
  BY <1>1, <1>2
<1> QED BY AuthorityCorrect, <1>2, PTL DEF Spec, StampedAnswersAreFresh
=============================================================================
