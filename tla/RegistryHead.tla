---------------------------- MODULE RegistryHead ----------------------------
(***************************************************************************)
(* What a registry data directory promises to everyone who ever opens it,  *)
(* whatever the number of writers, readers, crashes and failed writes: one *)
(* head that only moves forward, one ordinal at a time, each ordinal bound *)
(* to one document for ever, and one owner generation (epoch) at a time.   *)
(*                                                                         *)
(* This is the abstract specification that Store.tla implements.           *)
(***************************************************************************)
EXTENDS Naturals

CONSTANTS Docs,           \* documents a publisher may present
          MaxGeneration,  \* largest GenerationNumber (2^64 - 1 in the code)
          MaxEpoch,       \* largest PublisherEpoch and Incarnation
          NoDigest        \* the all-zero ContentDigest

VARIABLES head,  \* the StoreMeta in registry.meta
          log    \* log[n]: the digest generation n was committed with

vars == <<head, log>>

Numbers == 1..MaxGeneration

\* A ContentDigest stands for what the canonical document hashes: the ordinal
\* and the epoch the store stamps into it, and the publisher's own content.
\* The parent digest is hashed too; it is a function of the other three.
Digests == [number : Numbers, epoch : 0..MaxEpoch, doc : Docs]

ZeroMeta == [generation |-> 0, digest |-> NoDigest, epoch |-> 0,
             incarnation |-> 0, total |-> 0]

\* RegistryStore::Open for writing: a new epoch and a new incarnation, and
\* nothing else moves.
TakenOver(m) == [m EXCEPT !.epoch = @ + 1, !.incarnation = @ + 1]

\* RegistryStore::Publish at its commit point.
Published(m, d) ==
  [m EXCEPT !.generation = @ + 1,
            !.digest = [number |-> m.generation + 1, epoch |-> m.epoch, doc |-> d],
            !.total = @ + 1]

-----------------------------------------------------------------------------
Init == /\ head = ZeroMeta
        /\ log = [n \in Numbers |-> NoDigest]

TakeOver == /\ head.epoch < MaxEpoch
            /\ head.incarnation < MaxEpoch
            /\ head' = TakenOver(head)
            /\ UNCHANGED log

Advance(d) == /\ head.generation < MaxGeneration
              /\ head' = Published(head, d)
              /\ log' = [log EXCEPT ![head.generation + 1] = head'.digest]

Next == TakeOver \/ \E d \in Docs : Advance(d)

Spec == Init /\ [][Next]_vars
=============================================================================
