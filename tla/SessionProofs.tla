--------------------------- MODULE SessionProofs ---------------------------
(***************************************************************************)
(* Proofs about Session for every number of threads, connections, calls,   *)
(* starts and faults, and every frame size and option.                     *)
(***************************************************************************)
EXTENDS Session, SequenceTheorems, TLAPS

-----------------------------------------------------------------------------
(* Frames under way.                                                       *)

Calls == [op : {"none", "status", "publish"}, by : Callers \cup {"nobody"},
          no : Nat, expected : Nat]

Results == [kind : {"failed", "status", "published", "conflict"},
            to : Calls, number : Nat]

Frames ==
  [kind : {"hello", "helloack", "request", "response", "error", "bye", "nothing"},
   correlation : Nat, size : Nat,
   body : Calls \cup Results \cup ClientOptions \cup [max : Nat],
   damage : {"none", "header", "payload"}]

\* A call that was made: a publication names what its thread keeps naming.
Voiced(call) ==
  /\ call.op \in {"status", "publish"}
  /\ call.op = "publish" =>
       /\ call.by \in Callers
       /\ callers[call.by].tried
       /\ callers[call.by].expected = call.expected

\* A publication that was reported is where the report says.
Settled(result) ==
  result.kind = "published" =>
    result.number \in DOMAIN head /\ head[result.number] = result.to.by

\* The client is at the other end of connection k.
Speaking(k) == client.pc \in {"greeting", "ready"} /\ client.at = k

\* On the client's connection a frame carries a number already given, and
\* the number of the call under way belongs to that call.
Belongs(k, frame, call) ==
  Speaking(k) =>
    /\ frame.correlation <= client.correlation
    /\ \A c \in Callers :
         callers[c].pc = "awaiting" /\ callers[c].sent = frame.correlation
           => callers[c].call = call

\* The size of a frame on the client's connection.
FrameLimit == IF client.pc = "ready" THEN client.max ELSE Small

Fits(k, frame) == Speaking(k) => frame.size <= FrameLimit

Asked(k) == {f \in Frames :
  /\ Fits(k, f)
  /\ f.kind = "hello" =>
       f.body \in ClientOptions
         /\ (Speaking(k) => f.body.max = client.options)
  /\ f.kind = "request" =>
       /\ f.body \in Calls
       /\ Voiced(f.body)
       /\ Speaking(k) => client.pc = "ready"
       /\ Belongs(k, f, f.body)}

Told(k) == {f \in Frames :
  /\ Fits(k, f)
  /\ f.kind = "helloack" =>
       f.body \in [max : Nat]
         /\ (Speaking(k) => f.body.max = EffectiveLimit(client.options))
  /\ f.kind \in {"response", "error"} =>
       f.body \in Results /\ Settled(f.body) /\ Belongs(k, f, f.body.to)}

-----------------------------------------------------------------------------
(* The invariant.                                                          *)

ClientInv ==
  /\ client \in [pc : {"none", "greeting", "ready", "closed"}, at : Nat,
                 options : Nat, max : Nat, correlation : Nat,
                 stream : {"aligned", "torn", "scraps"}]
  /\ client.pc \in {"greeting", "ready"} => client.at \in Links
  /\ client.pc = "ready" =>
       client.max \in Usable..Smaller(client.options, ServiceLimit)

CallerTypes ==
  [pc : {"idle", "waiting", "awaiting"}, call : Calls, sent : Nat,
   answer : Results, known : Nat, tried : BOOLEAN, expected : Nat]

CallerInv(c) ==
  /\ callers[c] \in CallerTypes
  /\ callers[c].pc # "idle" =>
       callers[c].call.by = c /\ Voiced(callers[c].call)
  /\ callers[c].pc = "awaiting" =>
       /\ client.pc = "ready"
       /\ callers[c].sent = client.correlation
       /\ client.correlation # 0
  /\ callers[c].answer # Failed =>
       /\ callers[c].answer.to = callers[c].call
       /\ callers[c].call.by = c
       /\ Settled(callers[c].answer)

\* The two ends agree on the frame size, and no handler hears from a client
\* that is ahead of it.
Agreed(k) ==
  /\ connections[k].server \in {"greeting", "refusing"} =>
       connections[k].down = <<>>
  /\ Speaking(k) =>
       /\ connections[k].server \in {"serving", "replying"} =>
            connections[k].max = IF client.pc = "ready" THEN client.max
                                 ELSE EffectiveLimit(client.options)
       /\ client.pc = "ready" =>
            connections[k].server \in {"serving", "replying", "closed"}

LinkTypes(k) ==
  [link : {"unused", "up", "cut"}, up : Seq(Asked(k)), down : Seq(Told(k)),
   server : {"greeting", "refusing", "replying", "serving", "closed"},
   max : Nat, reply : Seq(Told(k))]

LinkInv(k) == connections[k] \in LinkTypes(k) /\ Agreed(k)

Committed ==
  /\ head \in Seq(Callers)
  /\ \A i \in DOMAIN head :
       callers[head[i]].tried /\ callers[head[i]].expected = i - 1

SessionInv ==
  /\ made \in Nat
  /\ ClientInv
  /\ DOMAIN callers = Callers /\ \A c \in Callers : CallerInv(c)
  /\ DOMAIN connections = Links /\ \A k \in Links : LinkInv(k)
  /\ Committed

-----------------------------------------------------------------------------
(* Sequences whose elements are in a set.                                  *)

LEMMA Shortened ==
  ASSUME NEW S, NEW s \in Seq(S), s # <<>>
  PROVE  Head(s) \in S /\ Tail(s) \in Seq(S)
  BY HeadTailProperties

LEMMA Extended ==
  ASSUME NEW S, NEW s \in Seq(S), NEW e \in S
  PROVE  Append(s, e) \in Seq(S)
  BY AppendProperties

LEMMA Joined ==
  ASSUME NEW S, NEW s \in Seq(S), NEW t \in Seq(S)
  PROVE  s \o t \in Seq(S)
  BY ConcatProperties

LEMMA Empty == ASSUME NEW S PROVE <<>> \in Seq(S)
  OBVIOUS

LEMMA Single == ASSUME NEW S, NEW e \in S PROVE <<e>> \in Seq(S)
  OBVIOUS

LEMMA Cut ==
  ASSUME NEW S, NEW s \in Seq(S), NEW t \in FirstParts(s)
  PROVE  t \in Seq(S) /\ (s = <<>> => t = <<>>)
<1>1. PICK n \in 0..Len(s) : t = SubSeq(s, 1, n)
  BY DEF FirstParts
<1>2. \A i \in 1..n : s[i] \in S
  BY LenProperties, ElementOfSeq
<1>3. t \in Seq(S)
  BY <1>1, <1>2, SubSeqProperties
<1>4. s = <<>> => t = <<>>
  BY <1>1, SubSeqEmpty
<1> QED
  BY <1>3, <1>4

LEMMA Touched ==
  ASSUME NEW S, NEW s \in Seq(S), NEW i \in DOMAIN s, NEW e \in S
  PROVE  [s EXCEPT ![i] = e] \in Seq(S)
  BY ExceptSeq

-----------------------------------------------------------------------------
(* The invariant holds at first.                                           *)

LEMMA SessionInit == Init => SessionInv
<1> SUFFICES ASSUME Init PROVE SessionInv
  OBVIOUS
<1> USE DEF Init
<1>1. NoCall \in Calls
  BY DEF NoCall, Calls
<1>2. Failed \in Results
  BY <1>1 DEF Failed, Results
<1>3. ClientInv
  BY DEF ClientInv, NoClient
<1>4. \A c \in Callers : CallerInv(c)
  BY <1>1, <1>2 DEF CallerInv, CallerTypes, IdleCaller
<1>5. \A k \in Links : LinkInv(k)
  <2> TAKE k \in Links
  <2>1. connections[k] \in LinkTypes(k)
    BY Empty DEF LinkTypes, Unused
  <2>2. Agreed(k)
    BY DEF Agreed, Unused, Speaking, NoClient
  <2> QED BY <2>1, <2>2 DEF LinkInv
<1>6. Committed
  BY DEF Committed
<1> QED
  BY <1>3, <1>4, <1>5, <1>6 DEF SessionInv

-----------------------------------------------------------------------------
(* Steps that change connections only.                                     *)

\* Nothing that frames are measured against changes.
LEMMA SameFrames ==
  ASSUME UNCHANGED <<client, callers, head>>, NEW k
  PROVE  Asked(k)' = Asked(k) /\ Told(k)' = Told(k)
         /\ (Speaking(k)' <=> Speaking(k))
<1>1. Speaking(k)' <=> Speaking(k)
  BY DEF Speaking
<1>2. \A call : Voiced(call)' <=> Voiced(call)
  BY DEF Voiced
<1>3. \A r : Settled(r)' <=> Settled(r)
  BY DEF Settled
<1>4. \A f, call : Belongs(k, f, call)' <=> Belongs(k, f, call)
  BY <1>1 DEF Belongs
<1>5. \A f : Fits(k, f)' <=> Fits(k, f)
  BY <1>1 DEF Fits, FrameLimit
<1>6. Asked(k)' = Asked(k)
  BY <1>1, <1>2, <1>4, <1>5 DEF Asked
<1>7. Told(k)' = Told(k)
  BY <1>1, <1>3, <1>4, <1>5 DEF Told
<1> QED
  BY <1>1, <1>6, <1>7

\* A step of one connection, or of none.
LEMMA OneLink ==
  ASSUME SessionInv, UNCHANGED <<client, callers, head, made>>,
         NEW k \in Links, NEW value,
         connections' = [connections EXCEPT ![k] = value],
         value \in LinkTypes(k),
         value.server \in {"greeting", "refusing"} => value.down = <<>>,
         Speaking(k) =>
           /\ value.server \in {"serving", "replying"} =>
                value.max = IF client.pc = "ready" THEN client.max
                            ELSE EffectiveLimit(client.options)
           /\ client.pc = "ready" =>
                value.server \in {"serving", "replying", "closed"}
  PROVE  SessionInv'
<1>1. DOMAIN connections' = Links /\ connections'[k] = value
  BY DEF SessionInv
<1>2. ClientInv' /\ Committed'
  BY DEF SessionInv, ClientInv, Committed
<1>3. \A c \in Callers : CallerInv(c)'
  BY DEF SessionInv, CallerInv, CallerTypes, Voiced, Settled
<1>4. ASSUME NEW j \in Links PROVE LinkInv(j)'
  <2>1. LinkTypes(j)' = LinkTypes(j) /\ (Speaking(j)' <=> Speaking(j))
    BY SameFrames DEF LinkTypes
  <2>2. CASE j = k
    BY <1>1, <2>1, <2>2 DEF LinkInv, Agreed
  <2>3. CASE j # k
    <3>1. connections'[j] = connections[j] /\ LinkInv(j)
      BY <2>3 DEF SessionInv
    <3> QED BY <3>1, <2>1 DEF LinkInv, Agreed
  <2> QED BY <2>2, <2>3
<1> QED
  BY <1>1, <1>2, <1>3, <1>4 DEF SessionInv

\* The handler hangs up.
LEMMA HangUpStep ==
  ASSUME SessionInv, NEW k \in Links, HangUp(k),
         UNCHANGED <<client, callers, head, made>>
  PROVE  SessionInv'
<1> DEFINE value == [connections[k] EXCEPT
      !.server = "closed", !.link = "cut", !.up = <<>>, !.reply = <<>>,
      !.max = 0]
<1>1. connections[k] \in LinkTypes(k)
  BY DEF SessionInv, LinkInv
<1>2. connections' = [connections EXCEPT ![k] = value]
  BY <1>1 DEF HangUp, LinkTypes
<1>3. value \in LinkTypes(k) /\ value.server = "closed"
  BY <1>1, Empty DEF LinkTypes
<1> HIDE DEF value
<1> QED
  BY <1>2, <1>3, OneLink

LEMMA FinishStep ==
  ASSUME SessionInv, NEW k \in Links, Finish(k)
  PROVE  SessionInv'
  BY HangUpStep DEF Finish

LEMMA HandshakeStep ==
  ASSUME SessionInv, NEW k \in Links, Handshake(k)
  PROVE  SessionInv'
<1> DEFINE hello == Incoming(k).body
           max == EffectiveLimit(hello.max)
           accepted == [connections[k] EXCEPT
             !.up = Tail(@), !.server = "replying", !.max = max,
             !.reply = <<Frame("helloack", 0, Small, [max |-> max])>>]
           refused == [connections[k] EXCEPT
             !.up = Tail(@), !.server = "refusing",
             !.reply = <<Frame("error", 0, Small, Failed)>>]
<1>1. connections[k] \in LinkTypes(k) /\ Agreed(k) /\ ClientInv
  BY DEF SessionInv, LinkInv
<1>2. /\ connections[k].server = "greeting"
      /\ connections[k].up # <<>> /\ connections[k].up \in Seq(Asked(k))
  BY <1>1 DEF Handshake, Legible, LinkTypes
<1>3. Incoming(k) \in Asked(k) /\ Tail(connections[k].up) \in Seq(Asked(k))
  BY <1>2, Shortened DEF Incoming
<1>4. /\ hello \in ClientOptions
      /\ Speaking(k) => hello.max = client.options
  BY <1>3 DEF Asked, Handshake
<1>5. max \in Nat
  BY <1>4, SessionAssumption DEF EffectiveLimit, Smaller
<1>6. connections[k].down = <<>> /\ ~(client.pc = "ready" /\ Speaking(k))
  BY <1>1, <1>2 DEF Agreed
<1>7. CASE hello.version = ServiceVersion
  <2>1. Frame("helloack", 0, Small, [max |-> max]) \in Told(k)
    BY <1>4, <1>5, <1>6
       DEF Told, Frame, Frames, Small, Fits, FrameLimit, EffectiveLimit, Speaking
  <2>2. connections' = [connections EXCEPT ![k] = accepted]
    BY <1>7 DEF Handshake
  <2>3. accepted \in LinkTypes(k)
    BY <1>1, <1>3, <1>5, <2>1, Single DEF LinkTypes
  <2>4. accepted.server = "replying" /\ accepted.max = max
    BY <1>1 DEF LinkTypes
  <2> HIDE DEF accepted
  <2> QED
    BY <1>4, <1>6, <2>2, <2>3, <2>4, OneLink DEF Handshake
<1>8. CASE hello.version # ServiceVersion
  <2>1. Failed \in Results /\ NoCall \in Calls
    BY DEF Failed, Results, NoCall, Calls
  <2>2. Frame("error", 0, Small, Failed) \in Told(k)
    <3>1. Settled(Failed)
      BY DEF Settled, Failed
    <3>2. \A c \in Callers : ~(Speaking(k) /\ callers[c].pc = "awaiting")
      BY <1>6 DEF SessionInv, CallerInv, CallerTypes
    <3> QED
      BY <1>1, <1>6, <2>1, <3>1, <3>2
         DEF Told, Frame, Frames, Small, Fits, FrameLimit, Belongs, Speaking, ClientInv
  <2>3. connections' = [connections EXCEPT ![k] = refused]
    BY <1>8 DEF Handshake, Handler
  <2>4. refused \in LinkTypes(k)
    BY <1>1, <1>3, <2>2, Single DEF LinkTypes
  <2>5. refused.server = "refusing" /\ refused.down = <<>>
    BY <1>1, <1>6 DEF LinkTypes
  <2> HIDE DEF refused
  <2> QED
    BY <1>6, <2>3, <2>4, <2>5, OneLink DEF Handshake
<1> QED
  BY <1>7, <1>8

LEMMA SendReplyStep ==
  ASSUME SessionInv, NEW k \in Links, SendReply(k)
  PROVE  SessionInv'
<1>1. CASE connections[k].link = "cut"
  BY <1>1, HangUpStep DEF SendReply
<1>2. CASE connections[k].link # "cut"
  <2> DEFINE replying == connections[k].server = "replying"
             value == [connections[k] EXCEPT
               !.down = @ \o connections[k].reply, !.reply = <<>>,
               !.server = IF replying THEN "serving" ELSE "closed",
               !.link = IF replying THEN @ ELSE "cut"]
  <2>1. connections[k] \in LinkTypes(k) /\ Agreed(k)
    BY DEF SessionInv, LinkInv
  <2>2. connections' = [connections EXCEPT ![k] = value]
    BY <1>2, <2>1 DEF SendReply, LinkTypes
  <2>3. connections[k].down \o connections[k].reply \in Seq(Told(k))
    BY <2>1, Joined DEF LinkTypes
  <2>4. value \in LinkTypes(k)
    BY <2>1, <2>3, Empty DEF LinkTypes
  <2>5. /\ value.server = IF replying THEN "serving" ELSE "closed"
        /\ value.max = connections[k].max
    BY <2>1 DEF LinkTypes
  <2> HIDE DEF value
  <2>6. UNCHANGED <<client, callers, head, made>>
    BY DEF SendReply
  <2> QED
    BY <2>1, <2>2, <2>4, <2>5, <2>6, OneLink DEF Agreed
<1> QED
  BY <1>1, <1>2


LEMMA BreakStep ==
  ASSUME SessionInv, NEW k \in Links, Break(k)
  PROVE  SessionInv'
<1>1. PICK u \in FirstParts(connections[k].up),
           d \in FirstParts(connections[k].down) :
        connections' = [connections EXCEPT ![k].link = "cut", ![k].up = u,
                                           ![k].down = d]
  BY DEF Break
<1> DEFINE value == [connections[k] EXCEPT
      !.link = "cut", !.up = u, !.down = d]
<1>2. connections[k] \in LinkTypes(k) /\ Agreed(k)
  BY DEF SessionInv, LinkInv
<1>3. connections' = [connections EXCEPT ![k] = value]
  BY <1>1, <1>2 DEF LinkTypes
<1>4. /\ u \in Seq(Asked(k)) /\ d \in Seq(Told(k))
      /\ connections[k].down = <<>> => d = <<>>
  BY <1>2, Cut DEF LinkTypes
<1>5. /\ value \in LinkTypes(k)
      /\ value.server = connections[k].server
      /\ value.max = connections[k].max
      /\ value.down = d
  BY <1>2, <1>4 DEF LinkTypes
<1>6. UNCHANGED <<client, callers, head, made>>
  BY DEF Break
<1> HIDE DEF value
<1> QED
  BY <1>2, <1>3, <1>4, <1>5, <1>6, OneLink DEF Agreed

\* Damage changes nothing that the invariant says of a frame.
LEMMA DamagedFrame ==
  ASSUME NEW k, NEW part \in {"header", "payload"}
  PROVE  /\ \A f \in Asked(k) : [f EXCEPT !.damage = part] \in Asked(k)
         /\ \A f \in Told(k) : [f EXCEPT !.damage = part] \in Told(k)
<1>1. ASSUME NEW f \in Asked(k) PROVE [f EXCEPT !.damage = part] \in Asked(k)
  BY <1>1 DEF Asked, Frames, Fits, Belongs
<1>2. ASSUME NEW f \in Told(k) PROVE [f EXCEPT !.damage = part] \in Told(k)
  BY <1>2 DEF Told, Frames, Fits, Belongs
<1> QED
  BY <1>1, <1>2

LEMMA DamageStep ==
  ASSUME SessionInv, NEW k \in Links, Damage(k)
  PROVE  SessionInv'
<1>1. connections[k] \in LinkTypes(k) /\ Agreed(k)
  BY DEF SessionInv, LinkInv
<1>2. UNCHANGED <<client, callers, head, made>>
  BY DEF Damage
<1>3. ASSUME NEW part \in {"header", "payload"},
             NEW i \in DOMAIN connections[k].up,
             connections' = [connections EXCEPT ![k].up[i].damage = part]
      PROVE  SessionInv'
  <2> DEFINE frame == [connections[k].up[i] EXCEPT !.damage = part]
             up == [connections[k].up EXCEPT ![i] = frame]
             value == [connections[k] EXCEPT !.up = up]
  <2>1. connections[k].up[i] \in Asked(k)
    BY <1>1, <1>3, ElementOfSeq DEF LinkTypes
  <2>2. up \in Seq(Asked(k))
    BY <1>1, <1>3, <2>1, DamagedFrame, Touched DEF LinkTypes
  <2>3. connections' = [connections EXCEPT ![k] = value]
    BY <1>1, <1>3 DEF LinkTypes
  <2> HIDE DEF up
  <2>4. /\ value \in LinkTypes(k)
        /\ value.server = connections[k].server
        /\ value.max = connections[k].max
        /\ value.down = connections[k].down
    BY <1>1, <2>2 DEF LinkTypes
  <2> HIDE DEF value
  <2> QED
    BY <1>1, <1>2, <2>3, <2>4, OneLink DEF Agreed
<1>4. ASSUME NEW part \in {"header", "payload"},
             NEW i \in DOMAIN connections[k].down,
             connections' = [connections EXCEPT ![k].down[i].damage = part]
      PROVE  SessionInv'
  <2> DEFINE frame == [connections[k].down[i] EXCEPT !.damage = part]
             down == [connections[k].down EXCEPT ![i] = frame]
             value == [connections[k] EXCEPT !.down = down]
  <2>1. connections[k].down[i] \in Told(k) /\ connections[k].down # <<>>
    BY <1>1, <1>4, ElementOfSeq DEF LinkTypes
  <2>2. down \in Seq(Told(k))
    BY <1>1, <1>4, <2>1, DamagedFrame, Touched DEF LinkTypes
  <2>3. connections' = [connections EXCEPT ![k] = value]
    BY <1>1, <1>4 DEF LinkTypes
  <2> HIDE DEF down
  <2>4. /\ value \in LinkTypes(k)
        /\ value.server = connections[k].server
        /\ value.max = connections[k].max
    BY <1>1, <2>2 DEF LinkTypes
  <2> HIDE DEF value
  <2> QED
    BY <1>1, <1>2, <2>1, <2>3, <2>4, OneLink DEF Agreed
<1> QED
  BY <1>3, <1>4 DEF Damage

LEMMA DieStep == SessionInv /\ Die => SessionInv'
<1> SUFFICES ASSUME SessionInv, Die PROVE SessionInv'
  OBVIOUS
<1>1. UNCHANGED <<client, callers, head, made>> /\ DOMAIN connections' = Links
  BY DEF Die
<1>2. ClientInv' /\ Committed'
  BY <1>1 DEF SessionInv, ClientInv, Committed
<1>3. \A c \in Callers : CallerInv(c)'
  BY <1>1 DEF SessionInv, CallerInv, CallerTypes, Voiced, Settled
<1>4. ASSUME NEW k \in Links PROVE LinkInv(k)'
  <2>1. connections[k] \in LinkTypes(k) /\ Agreed(k)
    BY DEF SessionInv, LinkInv
  <2>2. LinkTypes(k)' = LinkTypes(k)
    BY <1>1, SameFrames DEF LinkTypes
  <2>3. connections'[k] \in LinkTypes(k) /\ connections'[k].server = "closed"
    BY <2>1, Empty DEF Die, LinkTypes, Unused
  <2> QED
    BY <2>2, <2>3 DEF LinkInv, Agreed
<1> QED
  BY <1>1, <1>2, <1>3, <1>4 DEF SessionInv

\* A step after which the invariant speaks of what it spoke of before.
LEMMA SameSession ==
  ASSUME SessionInv, UNCHANGED <<client, callers, connections, head, made>>
  PROVE  SessionInv'
<1>1. ClientInv' /\ Committed'
  BY DEF SessionInv, ClientInv, Committed
<1>2. \A c \in Callers : CallerInv(c)'
  BY DEF SessionInv, CallerInv, CallerTypes, Voiced, Settled
<1>3. \A k \in Links : LinkInv(k)'
  BY SameFrames DEF SessionInv, LinkInv, LinkTypes, Agreed
<1> QED
  BY <1>1, <1>2, <1>3 DEF SessionInv

-----------------------------------------------------------------------------
(* Steps of the client and its threads.                                    *)

\* What was measured against the client, the calls and the history still is.
LEMMA Kept ==
  ASSUME SessionInv, NEW k,
         \A call \in Calls : Voiced(call) => Voiced(call)',
         \A r \in Results : Settled(r) => Settled(r)',
         Speaking(k)' =>
           /\ Speaking(k)
           /\ client.pc = "ready" => client'.pc = "ready"
           /\ FrameLimit \in Nat /\ FrameLimit' \in Nat
           /\ FrameLimit <= FrameLimit'
           /\ client'.options = client.options
           /\ client'.correlation \in Nat
           /\ client.correlation <= client'.correlation
           /\ \A c \in Callers :
                callers'[c].pc = "awaiting"
                  /\ callers'[c].sent <= client.correlation
                => /\ callers[c].pc = "awaiting"
                   /\ callers[c].sent = callers'[c].sent
                   /\ callers[c].call = callers'[c].call
  PROVE  Asked(k) \subseteq Asked(k)' /\ Told(k) \subseteq Told(k)'
<1>1. client.correlation \in Nat
  BY DEF SessionInv, ClientInv
<1>2. ASSUME NEW f \in Frames, NEW call, Belongs(k, f, call)
      PROVE  Belongs(k, f, call)'
  <2>1. f.correlation \in Nat
    BY DEF Frames
  <2> QED BY <1>1, <1>2, <2>1 DEF Belongs
<1>3. ASSUME NEW f \in Frames, Fits(k, f) PROVE Fits(k, f)'
  <2>1. f.size \in Nat
    BY DEF Frames
  <2> QED BY <1>3, <2>1 DEF Fits
<1>4. Asked(k) \subseteq Asked(k)'
  BY <1>2, <1>3 DEF Asked
<1>5. Told(k) \subseteq Told(k)'
  BY <1>2, <1>3 DEF Told
<1> QED
  BY <1>4, <1>5

\* A connection nothing happens to.
LEMMA Carried ==
  ASSUME SessionInv, NEW k \in Links,
         Asked(k) \subseteq Asked(k)', Told(k) \subseteq Told(k)',
         connections'[k] = connections[k]
  PROVE  connections'[k] \in LinkTypes(k)'
<1>1. connections[k] \in LinkTypes(k)
  BY DEF SessionInv, LinkInv
<1>2. /\ Seq(Asked(k)) \subseteq Seq(Asked(k)')
      /\ Seq(Told(k)) \subseteq Seq(Told(k)')
  BY SeqMonotonic
<1> QED
  BY <1>1, <1>2 DEF LinkTypes

\* The client leaves its connection, or has none.
LEMMA LeaveStep ==
  ASSUME SessionInv, NEW k \in Links, Leave(k, Bye),
         ClientInv', client'.pc \in {"none", "closed"},
         \A c \in Callers : callers[c].pc # "awaiting",
         UNCHANGED <<callers, head, made>>
  PROVE  SessionInv'
<1>1. Committed' /\ DOMAIN connections' = Links
  BY DEF SessionInv, Committed, Leave
<1>2. \A c \in Callers : CallerInv(c)'
  BY DEF SessionInv, CallerInv, CallerTypes, Voiced, Settled
<1>3. ASSUME NEW j \in Links PROVE LinkInv(j)'
  <2>1. ~Speaking(j)'
    BY DEF Speaking
  <2>2. /\ \A call \in Calls : Voiced(call) => Voiced(call)'
        /\ \A r \in Results : Settled(r) => Settled(r)'
    BY DEF Voiced, Settled
  <2>3. Asked(j) \subseteq Asked(j)' /\ Told(j) \subseteq Told(j)'
    BY <2>1, <2>2, Kept
  <2>4. connections[j] \in LinkTypes(j) /\ Agreed(j)
    BY DEF SessionInv, LinkInv
  <2>5. CASE j # k
    <3>1. connections'[j] = connections[j]
      BY <2>5 DEF Leave, SessionInv
    <3> QED
      BY <2>1, <2>3, <2>4, <3>1, Carried DEF LinkInv, Agreed
  <2>6. CASE j = k
    <3>1. Bye \in Asked(k)'
      BY <2>1, <2>6
         DEF Asked, Bye, Frame, Frames, Fits, NoCall, Calls, Small,
             SessionInv, ClientInv
    <3>2. connections[k].up \in Seq(Asked(k)')
      BY <2>3, <2>4, <2>6, SeqMonotonic DEF LinkTypes
    <3>3. Append(connections[k].up, Bye) \in Seq(Asked(k)')
      BY <3>1, <3>2, Extended
    <3>4. connections[k].reply \in Seq(Told(k)')
      BY <2>3, <2>4, <2>6, SeqMonotonic DEF LinkTypes
    <3> DEFINE up == IF connections[k].link = "up"
                     THEN Append(connections[k].up, Bye)
                     ELSE connections[k].up
    <3>5. up \in Seq(Asked(k)')
      BY <3>2, <3>3
    <3>6. connections'[k] = [connections[k] EXCEPT !.link = "cut",
                                                   !.down = <<>>, !.up = up]
      BY <2>4, <2>6 DEF Leave, SessionInv, LinkTypes
    <3>7. <<>> \in Seq(Told(k)')
      BY Empty
    <3> HIDE DEF up
    <3>8. connections'[k] \in LinkTypes(k)' /\ connections'[k].down = <<>>
      BY <2>4, <2>6, <3>4, <3>5, <3>6, <3>7 DEF LinkTypes
    <3> QED
      BY <2>1, <2>6, <3>8 DEF LinkInv, Agreed
  <2> QED
    BY <2>5, <2>6
<1> QED
  BY <1>1, <1>2, <1>3 DEF SessionInv

LEMMA CloseStep == SessionInv /\ Close => SessionInv'
<1> SUFFICES ASSUME SessionInv, Close PROVE SessionInv'
  OBVIOUS
<1>1. client.at \in Links /\ Leave(client.at, Bye)
  BY DEF SessionInv, ClientInv, Close
<1>2. ClientInv' /\ client'.pc = "closed"
  BY DEF SessionInv, ClientInv, Close
<1>3. \A c \in Callers : callers[c].pc # "awaiting"
  BY DEF Close, MutexIsFree
<1> QED
  BY <1>1, <1>2, <1>3, LeaveStep DEF Close

LEMMA DropStep == SessionInv /\ Drop => SessionInv'
<1> SUFFICES ASSUME SessionInv, Drop PROVE SessionInv'
  OBVIOUS
<1>1. ClientInv' /\ client'.pc = "none"
  BY DEF ClientInv, Drop, NoClient
<1>2. Committed' /\ DOMAIN connections' = Links
  BY DEF SessionInv, Committed, Drop
<1>3. \A c \in Callers : CallerInv(c)'
  BY DEF SessionInv, CallerInv, CallerTypes, Voiced, Settled, Drop
<1>4. ASSUME NEW k \in Links PROVE LinkInv(k)'
  <2>1. ~Speaking(k)'
    BY <1>1 DEF Speaking
  <2>2. /\ \A call \in Calls : Voiced(call) => Voiced(call)'
        /\ \A r \in Results : Settled(r) => Settled(r)'
    BY DEF Voiced, Settled, Drop
  <2>3. Asked(k) \subseteq Asked(k)' /\ Told(k) \subseteq Told(k)'
    BY <2>1, <2>2, Kept
  <2>4. connections'[k] = connections[k]
    BY DEF Drop
  <2> QED
    BY <2>1, <2>3, <2>4, Carried DEF LinkInv, Agreed, SessionInv
<1> QED
  BY <1>1, <1>2, <1>3, <1>4 DEF SessionInv, Drop


LEMMA ConnectStep ==
  ASSUME SessionInv, NEW options \in ClientOptions, Connect(options)
  PROVE  SessionInv'
<1>1. PICK k \in Links :
        /\ connections[k] = Unused
        /\ connections' = [connections EXCEPT ![k] =
             [Unused EXCEPT !.link = "up", !.server = "greeting",
                !.up = <<Frame("hello", 0, Small, options)>>]]
        /\ client' = [NoClient EXCEPT !.pc = "greeting", !.at = k,
                                      !.options = options.max]
  BY DEF Connect
<1>2. ClientInv'
  <2>1. k \in Nat /\ options.max \in Nat
    BY SessionAssumption DEF Links
  <2> QED BY <1>1, <2>1 DEF ClientInv, NoClient
<1>3. Committed' /\ DOMAIN connections' = Links
  BY <1>1 DEF SessionInv, Committed, Connect
<1>4. ASSUME NEW c \in Callers PROVE CallerInv(c)' /\ callers'[c].pc # "awaiting"
  BY DEF SessionInv, CallerInv, CallerTypes, Voiced, Settled, Connect
<1>5. ASSUME NEW j \in Links PROVE LinkInv(j)'
  <2>1. CASE j # k
    <3>1. ~Speaking(j)'
      BY <1>1, <2>1 DEF Speaking, NoClient
    <3>2. /\ \A call \in Calls : Voiced(call) => Voiced(call)'
          /\ \A r \in Results : Settled(r) => Settled(r)'
      BY DEF Voiced, Settled, Connect
    <3>3. Asked(j) \subseteq Asked(j)' /\ Told(j) \subseteq Told(j)'
      BY <3>1, <3>2, Kept
    <3>4. connections'[j] = connections[j]
      BY <1>1, <2>1 DEF SessionInv
    <3> QED
      BY <3>1, <3>3, <3>4, Carried DEF LinkInv, Agreed, SessionInv
  <2>2. CASE j = k
    <3>1. Frame("hello", 0, Small, options) \in Asked(k)'
      BY <1>1 DEF Asked, Frame, Frames, Small, Fits, FrameLimit, NoClient
    <3>2. <<Frame("hello", 0, Small, options)>> \in Seq(Asked(k)')
      BY <3>1, Single
    <3>3. <<>> \in Seq(Told(k)')
      BY Empty
    <3>4. connections'[k] =
            [link |-> "up", up |-> <<Frame("hello", 0, Small, options)>>,
             down |-> <<>>, server |-> "greeting", max |-> 0,
             reply |-> <<>>]
      BY <1>1 DEF SessionInv, Unused
    <3>5. /\ connections'[k] \in LinkTypes(k)'
          /\ connections'[k].server = "greeting"
          /\ connections'[k].down = <<>>
      BY <3>2, <3>3, <3>4 DEF LinkTypes
    <3> QED
      BY <1>1, <2>2, <3>5 DEF LinkInv, Agreed, NoClient
  <2> QED
    BY <2>1, <2>2
<1> QED
  BY <1>2, <1>3, <1>4, <1>5 DEF SessionInv, Connect

\* What a reader gets was sent, or is nothing.
LEMMA Read ==
  ASSUME NEW S, NEW frames \in Seq(S),
         NEW stream \in {"aligned", "torn", "scraps"}, NEW limit, NEW link,
         NEW r \in Readings(frames, stream, limit, link)
  PROVE  /\ r.rest \in Seq(S)
         /\ r.stream \in {"aligned", "torn", "scraps"}
         /\ r.frame = Nothing \/ (frames # <<>> /\ r.frame \in S)
         /\ frames = <<>> => r.rest = <<>>
<1>1. CASE stream = "scraps"
  BY <1>1 DEF Readings
<1>2. CASE stream # "scraps" /\ frames = <<>>
  <2>1. r = [frame |-> Nothing, stream |-> stream, rest |-> <<>>]
    BY <1>2 DEF Readings
  <2> QED BY <1>2, <2>1, Empty
<1>3. CASE stream # "scraps" /\ frames # <<>>
  <2>1. Head(frames) \in S /\ Tail(frames) \in Seq(S)
    BY <1>3, Shortened
  <2> QED
    BY <1>3, <2>1 DEF Readings
<1> QED
  BY <1>1, <1>2, <1>3

LEMMA ClientReads ==
  ASSUME SessionInv, client.at \in Links, NEW r \in ClientReadings
  PROVE  /\ r.rest \in Seq(Told(client.at))
         /\ r.stream \in {"aligned", "torn", "scraps"}
         /\ \/ r.frame = Nothing
            \/ connections[client.at].down # <<>> /\ r.frame \in Told(client.at)
         /\ connections[client.at].down = <<>> => r.rest = <<>>
<1>1. connections[client.at].down \in Seq(Told(client.at))
  BY DEF SessionInv, LinkInv, LinkTypes
<1>2. client.stream \in {"aligned", "torn", "scraps"}
  BY DEF SessionInv, ClientInv
<1> QED
  BY <1>1, <1>2, Read DEF ClientReadings

LEMMA HandshakeReplyStep == SessionInv /\ HandshakeReply => SessionInv'
<1> SUFFICES ASSUME SessionInv, HandshakeReply PROVE SessionInv'
  OBVIOUS
<1>1. PICK k \in Links :
        client.pc = "greeting" /\ k = client.at /\ Speaking(k)
  BY DEF HandshakeReply, SessionInv, ClientInv, Speaking
<1>2. \A c \in Callers : callers[c].pc # "awaiting"
  BY <1>1 DEF SessionInv, CallerInv, CallerTypes
<1>3. UNCHANGED <<callers, head, made>>
  BY DEF HandshakeReply
<1>4. PICK r \in ClientReadings :
        LET max == Negotiated(r.frame)
        IN IF max = 0
           THEN client' = NoClient /\ Leave(client.at, Bye)
           ELSE /\ client' = [client EXCEPT !.pc = "ready", !.max = max]
                /\ connections' = [connections EXCEPT
                                     ![client.at].down = r.rest]
  BY DEF HandshakeReply
<1>5. CASE Negotiated(r.frame) = 0
  <2>1. ClientInv' /\ client'.pc = "none"
    BY <1>4, <1>5 DEF ClientInv, NoClient
  <2> QED
    BY <1>1, <1>2, <1>3, <1>4, <1>5, <2>1, LeaveStep
<1>6. CASE Negotiated(r.frame) # 0
  <2> DEFINE max == Negotiated(r.frame)
  <2>1. /\ client' = [client EXCEPT !.pc = "ready", !.max = max]
        /\ connections' = [connections EXCEPT ![k].down = r.rest]
    BY <1>1, <1>4, <1>6
  <2>2. r.frame.kind = "helloack"
    BY <1>6 DEF Negotiated
  <2>3. /\ connections[k].down # <<>> /\ r.frame \in Told(k)
        /\ r.rest \in Seq(Told(k))
    BY <1>1, <2>2, ClientReads DEF Nothing, Frame
  <2>4. /\ r.frame.body.max = EffectiveLimit(client.options)
        /\ client.options \in Nat
    BY <1>1, <2>2, <2>3 DEF Told, SessionInv, ClientInv
  <2>5. /\ max = EffectiveLimit(client.options)
        /\ max \in Usable..Smaller(client.options, ServiceLimit)
    BY <1>6, <2>2, <2>4, SessionAssumption
       DEF Negotiated, EffectiveLimit, Smaller
  <2>6. Usable \in Nat /\ Usable >= 2 /\ max \in Nat /\ max >= 2
    BY <2>4, <2>5, SessionAssumption DEF Smaller
  <2>7. ClientInv' /\ client'.pc = "ready" /\ client'.at = k /\ client'.max = max
    BY <1>1, <2>1, <2>5, <2>6 DEF SessionInv, ClientInv
  <2>8. ASSUME NEW c \in Callers PROVE CallerInv(c)'
    BY <1>2, <1>3, <2>7 DEF SessionInv, CallerInv, CallerTypes, Voiced, Settled
  <2>9. Committed' /\ DOMAIN connections' = Links
    BY <1>3, <2>1 DEF SessionInv, Committed
  <2>10. ASSUME NEW j \in Links PROVE LinkInv(j)'
    <3>1. /\ \A call \in Calls : Voiced(call) => Voiced(call)'
          /\ \A result \in Results : Settled(result) => Settled(result)'
      BY <1>3 DEF Voiced, Settled
    <3>2. /\ Speaking(j)' => j = k /\ Speaking(j)
          /\ client'.options = client.options
          /\ client'.correlation = client.correlation
          /\ client.correlation \in Nat
      BY <1>1, <2>1, <2>7 DEF Speaking, SessionInv, ClientInv
    <3>3. FrameLimit = 1 /\ FrameLimit' = max
      BY <1>1, <2>7 DEF FrameLimit, Small
    <3>4. Asked(j) \subseteq Asked(j)' /\ Told(j) \subseteq Told(j)'
      BY <1>1, <1>2, <1>3, <2>6, <2>7, <3>1, <3>2, <3>3, Kept
    <3>5. CASE j # k
      <4>1. connections'[j] = connections[j]
        BY <2>1, <3>5 DEF SessionInv
      <4> QED
        BY <3>2, <3>4, <3>5, <4>1, Carried DEF LinkInv, Agreed, SessionInv
    <3>6. CASE j = k
      <4>1. connections[k] \in LinkTypes(k) /\ Agreed(k)
        BY <1>1 DEF SessionInv, LinkInv
      <4>2. /\ connections[k].up \in Seq(Asked(k)')
            /\ connections[k].reply \in Seq(Told(k)')
            /\ r.rest \in Seq(Told(k)')
        BY <2>3, <3>4, <3>6, <4>1, SeqMonotonic DEF LinkTypes
      <4>3. connections'[k] = [connections[k] EXCEPT !.down = r.rest]
        BY <1>1, <2>1 DEF SessionInv
      <4>4. /\ connections'[k] \in LinkTypes(k)'
            /\ connections'[k].server = connections[k].server
            /\ connections'[k].max = connections[k].max
        BY <4>1, <4>2, <4>3 DEF LinkTypes
      <4>5. connections[k].server \in {"serving", "replying", "closed"}
        BY <2>3, <4>1 DEF Agreed, LinkTypes
      <4> QED
        BY <1>1, <2>5, <2>7, <3>6, <4>1, <4>4, <4>5 DEF LinkInv, Agreed
    <3> QED
      BY <3>5, <3>6
  <2> QED
    BY <1>3, <2>7, <2>8, <2>9, <2>10 DEF SessionInv
<1> QED
  BY <1>5, <1>6


\* A publication that was tried keeps its expectation.
LEMMA AsksStep ==
  ASSUME SessionInv, NEW c \in Callers, NEW op \in {"status", "publish"},
         Asks(c, op)
  PROVE  SessionInv'
<1> DEFINE expected == IF callers[c].tried THEN callers[c].expected
                       ELSE callers[c].known
           tried == callers[c].tried \/ op = "publish"
           kept == IF op = "publish" THEN expected ELSE callers[c].expected
<1> PICK call : call = [op |-> op, by |-> c, no |-> made + 1,
                        expected |-> IF op = "publish" THEN expected ELSE 0]
  OBVIOUS
<1>1. CallerInv(c) /\ callers[c].pc = "idle"
  BY DEF SessionInv, Asks
<1>2. UNCHANGED <<client, connections, head>> /\ made' = made + 1
  BY DEF Asks
<1>3. callers' = [callers EXCEPT ![c] =
         [callers[c] EXCEPT !.pc = "waiting", !.answer = Failed, !.call = call,
                            !.tried = tried, !.expected = kept]]
  BY DEF Asks
<1>4. expected \in Nat /\ kept \in Nat /\ tried \in BOOLEAN /\ made' \in Nat
  BY <1>1, <1>2 DEF CallerInv, CallerTypes, SessionInv
<1>5. call \in Calls
  BY <1>4 DEF Calls, SessionInv
<1>6. Failed \in Results
  BY DEF Failed, Results, NoCall, Calls
<1>7. /\ callers'[c].pc = "waiting"
      /\ callers'[c].call = call
      /\ callers'[c].answer = Failed
      /\ callers'[c].tried = tried
      /\ callers'[c].expected = kept
      /\ callers'[c].sent = callers[c].sent
      /\ callers'[c].known = callers[c].known
      /\ callers'[c] \in CallerTypes
      /\ \A b \in Callers : b # c => callers'[b] = callers[b]
  <2> HIDE DEF tried, kept
  <2> QED
    BY <1>1, <1>3, <1>4, <1>5, <1>6 DEF CallerInv, CallerTypes, SessionInv
<1>8. callers[c].tried => callers'[c].tried /\ callers'[c].expected = callers[c].expected
  BY <1>7
<1> HIDE DEF tried, kept
<1>9. ASSUME NEW other, Voiced(other) PROVE Voiced(other)'
  BY <1>7, <1>8, <1>9 DEF Voiced
<1>10. \A r : Settled(r)' <=> Settled(r)
  BY <1>2 DEF Settled
<1>11. Voiced(call)'
  <2>1. op = "publish" => tried /\ kept = call.expected
    BY DEF tried, kept
  <2> QED BY <1>7, <2>1 DEF Voiced
<1>12. ClientInv' /\ DOMAIN callers' = Callers
  BY <1>2, <1>3 DEF SessionInv, ClientInv
<1>13. ASSUME NEW b \in Callers PROVE CallerInv(b)'
  <2>1. CASE b = c
    BY <1>5, <1>7, <1>11, <2>1 DEF CallerInv, CallerTypes, Calls
  <2>2. CASE b # c
    <3>1. CallerInv(b) /\ callers'[b] = callers[b]
      BY <1>7, <2>2 DEF SessionInv
    <3> QED BY <1>2, <1>9, <1>10, <3>1 DEF CallerInv, CallerTypes
  <2> QED BY <2>1, <2>2
<1>14. Committed'
  <2>1. \A i \in DOMAIN head : head[i] \in Callers
    BY ElementOfSeq DEF SessionInv, Committed
  <2> QED BY <1>2, <1>7, <1>8, <2>1 DEF SessionInv, Committed
<1>15. ASSUME NEW k \in Links PROVE LinkInv(k)'
  <2>1. Speaking(k)' <=> Speaking(k)
    BY <1>2 DEF Speaking
  <2>2. \A b \in Callers : callers'[b].pc = "awaiting" => callers'[b] = callers[b]
    BY <1>7
  <2>3. ClientInv /\ FrameLimit' = FrameLimit
    BY <1>2 DEF FrameLimit, SessionInv
  <2>4. FrameLimit \in Nat /\ client.correlation \in Nat
    BY <2>3 DEF FrameLimit, ClientInv, Small
  <2>5. Asked(k) \subseteq Asked(k)' /\ Told(k) \subseteq Told(k)'
    BY <1>2, <1>9, <1>10, <2>1, <2>2, <2>3, <2>4, Kept
  <2> QED
    BY <1>2, <2>1, <2>5, Carried DEF LinkInv, Agreed, SessionInv
<1> QED
  BY <1>2, <1>4, <1>12, <1>13, <1>14, <1>15 DEF SessionInv

LEMMA SendStep ==
  ASSUME SessionInv, NEW c \in Callers, NEW size \in Sizes, Send(c, size)
  PROVE  SessionInv'
<1> DEFINE number == client.correlation + 1
<1>1. callers[c].pc = "waiting" /\ \A b \in Callers : callers[b].pc # "awaiting"
  BY DEF Send, MutexIsFree
<1>2. /\ UNCHANGED <<head, made>>
      /\ client' = IF client.pc = "ready"
                   THEN [client EXCEPT !.correlation = number] ELSE client
      /\ \/ callers' = [callers EXCEPT ![c].pc = "idle"]
            /\ UNCHANGED connections
         \/ /\ client.pc = "ready" /\ size <= client.max
            /\ SendUp(client.at,
                      Frame("request", number, size, callers[c].call))
            /\ callers' = [callers EXCEPT ![c].pc = "awaiting",
                                          ![c].sent = number]
  BY DEF Send
<1>3. /\ client.correlation \in Nat /\ number \in Nat /\ number # 0
      /\ FrameLimit \in Nat
  BY DEF SessionInv, ClientInv, FrameLimit, Small
<1>4. /\ ClientInv' /\ client'.pc = client.pc /\ client'.at = client.at
      /\ client'.max = client.max /\ client'.options = client.options
      /\ client'.correlation \in Nat
      /\ client.correlation <= client'.correlation
      /\ client.pc = "ready" => client'.correlation = number
  BY <1>2, <1>3 DEF SessionInv, ClientInv
<1>5. /\ \A b \in Callers : /\ callers'[b].call = callers[b].call
                            /\ callers'[b].answer = callers[b].answer
                            /\ callers'[b].tried = callers[b].tried
                            /\ callers'[b].expected = callers[b].expected
      /\ DOMAIN callers' = Callers
      /\ \A b \in Callers : b # c => callers'[b] = callers[b]
      /\ callers'[c].pc # "idle" =>
           /\ callers'[c].pc = "awaiting"
           /\ callers'[c].sent = number
           /\ client.pc = "ready"
  <2>1. CallerInv(c) /\ DOMAIN callers = Callers
    BY DEF SessionInv
  <2>2. CASE callers' = [callers EXCEPT ![c].pc = "idle"]
    <3>1. callers'[c] = [callers[c] EXCEPT !.pc = "idle"]
      BY <2>1, <2>2
    <3>2. /\ callers'[c].pc = "idle"
          /\ callers'[c].call = callers[c].call
          /\ callers'[c].answer = callers[c].answer
          /\ callers'[c].tried = callers[c].tried
          /\ callers'[c].expected = callers[c].expected
      BY <2>1, <3>1 DEF CallerInv, CallerTypes
    <3>3. /\ DOMAIN callers' = Callers
          /\ \A b \in Callers : b # c => callers'[b] = callers[b]
      BY <2>1, <2>2
    <3> QED BY <3>2, <3>3
  <2>3. CASE /\ client.pc = "ready"
             /\ callers' = [callers EXCEPT ![c].pc = "awaiting",
                                           ![c].sent = number]
    BY <2>1, <2>3 DEF CallerInv, CallerTypes
  <2> HIDE DEF number
  <2> QED BY <1>2, <2>2, <2>3
<1>6. /\ \A call : Voiced(call) => Voiced(call)'
      /\ \A r : Settled(r) => Settled(r)'
  BY <1>2, <1>5 DEF Voiced, Settled
<1>7. ASSUME NEW b \in Callers PROVE CallerInv(b)'
  <2>1. CallerInv(b)
    BY DEF SessionInv
  <2>2. CASE b = c
    <3>1. callers'[c] \in CallerTypes
      BY <1>2, <1>3, <2>1, <2>2 DEF CallerInv, CallerTypes, SessionInv
    <3> QED
      BY <1>1, <1>3, <1>4, <1>5, <1>6, <2>1, <2>2, <3>1 DEF CallerInv, CallerTypes
  <2>3. CASE b # c
    BY <1>1, <1>5, <1>6, <2>1, <2>3 DEF CallerInv, CallerTypes
  <2> QED BY <2>2, <2>3
<1>8. Committed'
  <2>1. \A i \in DOMAIN head : head[i] \in Callers
    BY ElementOfSeq DEF SessionInv, Committed
  <2> QED BY <1>2, <1>5, <2>1 DEF SessionInv, Committed
<1>9. ASSUME NEW k \in Links
      PROVE  /\ Speaking(k)' <=> Speaking(k)
             /\ Asked(k) \subseteq Asked(k)' /\ Told(k) \subseteq Told(k)'
  <2>1. Speaking(k)' <=> Speaking(k)
    BY <1>4 DEF Speaking
  <2>2. FrameLimit' = FrameLimit
    BY <1>4 DEF FrameLimit
  <2>3. ASSUME NEW b \in Callers, callers'[b].pc = "awaiting"
        PROVE  ~(callers'[b].sent <= client.correlation)
    <3>1. b = c /\ callers'[b].sent = number
      BY <1>1, <1>5, <2>3
    <3> QED BY <1>3, <3>1
  <2>4. Asked(k) \subseteq Asked(k)' /\ Told(k) \subseteq Told(k)'
    BY <1>3, <1>4, <1>6, <2>1, <2>2, <2>3, Kept
  <2> QED BY <2>1, <2>4
<1>10. ASSUME NEW k \in Links PROVE LinkInv(k)'
  <2>1. connections[k] \in LinkTypes(k) /\ Agreed(k)
    BY DEF SessionInv, LinkInv
  <2>2. CASE connections'[k] = connections[k]
    BY <1>4, <1>9, <2>1, <2>2, Carried DEF LinkInv, Agreed
  <2>3. CASE connections'[k] # connections[k]
    <3> PICK frame : frame = Frame("request", number, size, callers[c].call)
      OBVIOUS
    <3> DEFINE up == IF connections[k].link = "up"
                     THEN Append(connections[k].up, frame)
                     ELSE connections[k].up
    <3>1. /\ client.pc = "ready" /\ size <= client.max
          /\ SendUp(client.at, frame)
          /\ callers'[c].pc = "awaiting" /\ callers'[c].sent = number
      BY <1>2, <2>3 DEF SessionInv, CallerInv, CallerTypes
    <3>2. client.at = k /\ Speaking(k)
      BY <2>3, <3>1 DEF SendUp, SessionInv, Speaking
    <3>3. callers[c].call \in Calls /\ Voiced(callers[c].call)
      BY <1>1 DEF SessionInv, CallerInv, CallerTypes
    <3>4. size \in Nat
      BY SessionAssumption
    <3>5. frame \in Frames
      <4> HIDE DEF number
      <4> QED BY <1>3, <3>3, <3>4 DEF Frame, Frames
    <3>6. Belongs(k, frame, frame.body)'
      <4>1. /\ frame.correlation = number /\ client'.correlation = number
            /\ frame.body = callers[c].call
        BY <1>4, <3>1 DEF Frame
      <4>2. ASSUME NEW b \in Callers, callers'[b].pc = "awaiting"
            PROVE  callers'[b].call = callers[c].call
        BY <1>1, <1>5, <4>2
      <4> HIDE DEF number
      <4> QED BY <1>3, <1>5, <4>1, <4>2 DEF Belongs
    <3>7. Fits(k, frame)'
      BY <1>4, <3>1 DEF Fits, FrameLimit, Frame
    <3>8. frame \in Asked(k)'
      <4>1. frame.kind = "request" /\ frame.body = callers[c].call
        BY DEF Frame
      <4>2. Voiced(frame.body)'
        BY <1>6, <3>3, <4>1
      <4> QED
        BY <1>4, <3>1, <3>3, <3>5, <3>6, <3>7, <4>1, <4>2 DEF Asked
    <3>9. /\ connections[k].up \in Seq(Asked(k)')
          /\ connections[k].down \in Seq(Told(k)')
          /\ connections[k].reply \in Seq(Told(k)')
      BY <1>9, <2>1, SeqMonotonic DEF LinkTypes
    <3>10. up \in Seq(Asked(k)')
      BY <3>8, <3>9, Extended
    <3>11. connections'[k] = [connections[k] EXCEPT !.up = up]
      BY <3>1, <3>2 DEF SendUp, SessionInv
    <3> HIDE DEF up
    <3>12. /\ connections'[k] \in LinkTypes(k)'
           /\ connections'[k].server = connections[k].server
           /\ connections'[k].max = connections[k].max
           /\ connections'[k].down = connections[k].down
      BY <2>1, <3>9, <3>10, <3>11 DEF LinkTypes
    <3> QED
      BY <1>4, <1>9, <2>1, <3>12 DEF LinkInv, Agreed
  <2> QED BY <2>2, <2>3
<1>11. DOMAIN connections' = Links
  BY <1>2 DEF SendUp, SessionInv
<1> QED
  BY <1>2, <1>4, <1>5, <1>7, <1>8, <1>10, <1>11 DEF SessionInv


LEMMA ReceiveStep ==
  ASSUME SessionInv, NEW c \in Callers, Receive(c)
  PROVE  SessionInv'
<1>1. PICK r \in ClientReadings :
        LET mine == IsMine(r.frame, callers[c].sent)
            answer == IF mine THEN r.frame.body ELSE Failed
        IN /\ connections' = [connections EXCEPT ![client.at].down = r.rest]
           /\ client' = [client EXCEPT !.stream = r.stream]
           /\ callers' = [callers EXCEPT
                ![c].pc = "idle", ![c].answer = answer, ![c].sent = 0,
                ![c].known = IF answer.kind = "status" THEN answer.number
                             ELSE @]
  BY DEF Receive
<1>2. CallerInv(c) /\ callers[c].pc = "awaiting"
  BY DEF SessionInv, Receive
<1>3. PICK k \in Links : k = client.at /\ client.pc = "ready" /\ Speaking(k)
  BY <1>2 DEF SessionInv, ClientInv, CallerInv, CallerTypes, Speaking
<1>4. /\ r.rest \in Seq(Told(k))
      /\ r.stream \in {"aligned", "torn", "scraps"}
      /\ r.frame = Nothing \/ r.frame \in Told(k)
      /\ connections[k].down = <<>> => r.rest = <<>>
  BY <1>3, ClientReads
<1> PICK answer : answer = IF IsMine(r.frame, callers[c].sent)
                           THEN r.frame.body ELSE Failed
  OBVIOUS
<1>5. /\ answer \in Results
      /\ answer # Failed => answer.to = callers[c].call /\ Settled(answer)
  <2>1. Failed \in Results
    BY DEF Failed, Results, NoCall, Calls
  <2>2. CASE IsMine(r.frame, callers[c].sent)
    <3>1. r.frame \in Told(k) /\ r.frame.kind \in {"response", "error"}
          /\ r.frame.correlation = callers[c].sent
      BY <1>4, <2>2 DEF IsMine, Nothing, Frame
    <3>2. /\ r.frame.body \in Results /\ Settled(r.frame.body)
          /\ Belongs(k, r.frame, r.frame.body.to)
      BY <3>1 DEF Told
    <3> QED
      BY <1>2, <1>3, <2>2, <3>1, <3>2 DEF Belongs
  <2> QED
    BY <2>1, <2>2
<1>6. /\ connections' = [connections EXCEPT ![k].down = r.rest]
      /\ client' = [client EXCEPT !.stream = r.stream]
      /\ callers' = [callers EXCEPT
           ![c].pc = "idle", ![c].answer = answer, ![c].sent = 0,
           ![c].known = IF answer.kind = "status" THEN answer.number ELSE @]
      /\ UNCHANGED <<head, made>>
  BY <1>1, <1>3 DEF Receive
<1>7. /\ ClientInv' /\ client'.pc = client.pc /\ client'.at = client.at
      /\ client'.max = client.max /\ client'.options = client.options
      /\ client'.correlation = client.correlation
      /\ client.correlation \in Nat /\ FrameLimit \in Nat
  BY <1>4, <1>6 DEF SessionInv, ClientInv, FrameLimit, Small
<1>8. /\ DOMAIN callers' = Callers
      /\ \A b \in Callers : b # c => callers'[b] = callers[b]
      /\ callers'[c].pc = "idle"
      /\ callers'[c].call = callers[c].call
      /\ callers'[c].answer = answer
      /\ callers'[c].tried = callers[c].tried
      /\ callers'[c].expected = callers[c].expected
      /\ callers'[c] \in CallerTypes
  <2>1. CallerInv(c) /\ DOMAIN callers = Callers
    BY DEF SessionInv
  <2>2. PICK known : known = IF answer.kind = "status" THEN answer.number
                             ELSE callers[c].known
    OBVIOUS
  <2>3. known \in Nat
    BY <1>5, <2>1, <2>2 DEF CallerInv, CallerTypes, Results
  <2>4. callers'[c] = [callers[c] EXCEPT !.pc = "idle", !.answer = answer,
                                         !.sent = 0, !.known = known]
    BY <1>6, <2>1, <2>2
  <2>5. DOMAIN callers' = Callers /\ \A b \in Callers : b # c => callers'[b] = callers[b]
    BY <1>6, <2>1
  <2>6. callers[c] \in CallerTypes
    BY <2>1 DEF CallerInv, CallerTypes
  <2>7. /\ callers'[c].pc = "idle"
        /\ callers'[c].call = callers[c].call
        /\ callers'[c].answer = answer
        /\ callers'[c].tried = callers[c].tried
        /\ callers'[c].expected = callers[c].expected
    BY <2>4, <2>6 DEF CallerTypes
  <2>8. callers'[c] \in CallerTypes
    <3>1. answer \in Results
      BY <1>5
    <3>2. [callers[c] EXCEPT !.pc = "idle", !.answer = answer, !.sent = 0] \in CallerTypes
      BY <2>6, <3>1 DEF CallerTypes
    <3> QED BY <2>3, <2>4, <2>6, <3>1, <3>2 DEF CallerTypes
  <2> QED
    BY <2>5, <2>7, <2>8
<1>9. /\ \A call : Voiced(call) => Voiced(call)'
      /\ \A result : Settled(result) <=> Settled(result)'
  BY <1>6, <1>8 DEF Voiced, Settled
<1>10. ASSUME NEW b \in Callers PROVE CallerInv(b)'
  <2>1. CASE b = c
    <3>1. answer # Failed => Settled(answer)'
      BY <1>5, <1>9
    <3>2. callers[c].call.by = c
      BY <1>2 DEF CallerInv, CallerTypes
    <3> QED
      BY <1>5, <1>8, <2>1, <3>1, <3>2 DEF CallerInv, CallerTypes
  <2>2. CASE b # c
    BY <1>7, <1>8, <1>9, <2>2 DEF CallerInv, CallerTypes, SessionInv
  <2> QED BY <2>1, <2>2
<1>11. Committed'
  <2>1. \A i \in DOMAIN head : head[i] \in Callers
    BY ElementOfSeq DEF SessionInv, Committed
  <2> QED BY <1>6, <1>8, <2>1 DEF SessionInv, Committed
<1>12. ASSUME NEW j \in Links PROVE LinkInv(j)'
  <2>1. (Speaking(j)' <=> Speaking(j)) /\ FrameLimit' = FrameLimit
    BY <1>7 DEF Speaking, FrameLimit
  <2>2. \A b \in Callers : callers'[b].pc = "awaiting" => callers'[b] = callers[b]
    BY <1>8
  <2>3. Asked(j) \subseteq Asked(j)' /\ Told(j) \subseteq Told(j)'
    BY <1>7, <1>9, <2>1, <2>2, Kept
  <2>4. connections[j] \in LinkTypes(j) /\ Agreed(j)
    BY DEF SessionInv, LinkInv
  <2>5. CASE j # k
    <3>1. connections'[j] = connections[j]
      BY <1>6, <2>5 DEF SessionInv
    <3> QED
      BY <1>7, <2>1, <2>3, <2>4, <3>1, Carried DEF LinkInv, Agreed
  <2>6. CASE j = k
    <3>1. connections'[k] = [connections[k] EXCEPT !.down = r.rest]
      BY <1>6 DEF SessionInv
    <3>2. /\ connections[k].up \in Seq(Asked(k)')
          /\ connections[k].reply \in Seq(Told(k)')
          /\ r.rest \in Seq(Told(k)')
      BY <1>4, <2>3, <2>4, <2>6, SeqMonotonic DEF LinkTypes
    <3>3. /\ connections'[k] \in LinkTypes(k)'
          /\ connections'[k].server = connections[k].server
          /\ connections'[k].max = connections[k].max
          /\ connections'[k].down = r.rest
      BY <2>4, <2>6, <3>1, <3>2 DEF LinkTypes
    <3> QED
      BY <1>4, <1>7, <2>1, <2>4, <2>6, <3>3 DEF LinkInv, Agreed
  <2> QED BY <2>5, <2>6
<1>13. DOMAIN connections' = Links
  BY <1>6 DEF SessionInv
<1> QED
  BY <1>6, <1>7, <1>8, <1>10, <1>11, <1>12, <1>13 DEF SessionInv

-----------------------------------------------------------------------------
(* A request is executed.                                                  *)

LEMMA ServeStep ==
  ASSUME SessionInv, NEW k \in Links, NEW size \in Sizes, Serve(k, size)
  PROVE  SessionInv'
<1>1. /\ connections[k] \in LinkTypes(k) /\ Agreed(k) /\ ClientInv
      /\ connections[k].server = "serving" /\ connections[k].up # <<>>
      /\ UNCHANGED <<client, callers, made>>
  BY DEF SessionInv, LinkInv, Serve, Legible
<1> PICK frame : frame = Incoming(k)
  OBVIOUS
<1> PICK call : call = frame.body
  OBVIOUS
<1>2. /\ frame \in Asked(k) /\ frame.kind = "request"
      /\ Tail(connections[k].up) \in Seq(Asked(k))
  BY <1>1, Shortened DEF LinkTypes, Incoming, Serve
<1>3. /\ call \in Calls /\ Voiced(call) /\ Belongs(k, frame, call)
      /\ Speaking(k) => client.pc = "ready"
      /\ frame.correlation \in Nat
  BY <1>2 DEF Asked, Frames
<1>4. head \in Seq(Callers) /\ Len(head) \in Nat /\ DOMAIN head = 1..Len(head)
  BY LenProperties DEF SessionInv, Committed
<1> DEFINE commits == call.op = "publish" /\ call.expected = Len(head)
<1>5. head' = IF commits THEN Append(head, call.by) ELSE head
  BY DEF Serve, Execute, Expected
<1>6. /\ head' \in Seq(Callers)
      /\ \A i \in DOMAIN head : i \in DOMAIN head' /\ head'[i] = head[i]
      /\ commits => /\ DOMAIN head' = 1..Len(head) + 1
                    /\ head'[Len(head) + 1] = call.by
      /\ ~commits => head' = head
  <2>1. CASE commits
    <3>1. call.by \in Callers /\ head' = Append(head, call.by)
      BY <1>3, <1>5, <2>1 DEF Voiced
    <3> QED BY <1>4, <2>1, <3>1, AppendProperties
  <2>2. CASE ~commits
    BY <1>4, <1>5, <2>2
  <2> QED BY <2>1, <2>2
<1>7. /\ \A other : Voiced(other) <=> Voiced(other)'
      /\ \A r : Settled(r) => Settled(r)'
  BY <1>1, <1>6 DEF Voiced, Settled
<1>8. Committed'
  <2>1. ASSUME NEW i \in DOMAIN head'
        PROVE  callers'[head'[i]].tried /\ callers'[head'[i]].expected = i - 1
    <3>1. CASE i \in DOMAIN head
      BY <1>1, <1>6, <3>1 DEF SessionInv, Committed
    <3>2. CASE i \notin DOMAIN head
      <4>1. commits /\ i = Len(head) + 1 /\ head'[i] = call.by
        BY <1>4, <1>6, <3>2
      <4> QED BY <1>1, <1>3, <1>4, <4>1 DEF Voiced
    <3> QED BY <3>1, <3>2
  <2> QED BY <1>6, <2>1 DEF Committed
<1>9. ClientInv' /\ \A c \in Callers : CallerInv(c)'
  BY <1>1, <1>7 DEF SessionInv, ClientInv, CallerInv, CallerTypes
<1>10. ASSUME NEW j
       PROVE  /\ Speaking(j)' <=> Speaking(j)
              /\ Asked(j) \subseteq Asked(j)' /\ Told(j) \subseteq Told(j)'
  <2>1. Speaking(j)' <=> Speaking(j)
    BY <1>1 DEF Speaking
  <2>2. /\ FrameLimit' = FrameLimit /\ FrameLimit \in Nat
        /\ client.correlation \in Nat
    BY <1>1 DEF FrameLimit, ClientInv, Small
  <2>3. Asked(j) \subseteq Asked(j)' /\ Told(j) \subseteq Told(j)'
    BY <1>1, <1>7, <2>1, <2>2, Kept
  <2> QED BY <2>1, <2>3
<1> PICK reply : reply = Reply(k, frame, size)
  OBVIOUS
<1>11. reply \in Told(k)'
  <2>1. /\ size \in Nat /\ connections[k].max \in Nat /\ Small \in Nat
        /\ Speaking(k) => client.max = connections[k].max /\ Small <= client.max
    <3>1. Usable \in Nat /\ Usable >= 2
      BY SessionAssumption
    <3>2. Speaking(k) => /\ client.max = connections[k].max
                         /\ client.max >= Usable
      BY <1>1, <1>3, <3>1, SessionAssumption DEF Agreed, ClientInv, Smaller
    <3> QED
      BY <1>1, <3>1, <3>2, SessionAssumption DEF LinkTypes, Small
  <2>2. CASE size > connections[k].max
    <3>1. reply = Frame("error", frame.correlation, Small,
                        [Failed EXCEPT !.to = call])
      BY <2>2 DEF Reply
    <3>2. [Failed EXCEPT !.to = call] = [kind |-> "failed", to |-> call, number |-> 0]
      BY DEF Failed
    <3>3. /\ reply.kind = "error" /\ reply.correlation = frame.correlation
          /\ reply.size = Small
          /\ reply.body = [kind |-> "failed", to |-> call, number |-> 0]
      BY <3>1, <3>2 DEF Frame
    <3>4. reply.body \in Results /\ Settled(reply.body)'
      BY <1>3, <3>3 DEF Results, Settled
    <3>5. reply \in Frames
      BY <1>3, <2>1, <3>1, <3>3, <3>4 DEF Frame, Frames
    <3>6. Fits(k, reply)' /\ Belongs(k, reply, reply.body.to)'
      BY <1>1, <1>3, <1>10, <2>1, <3>3 DEF Fits, FrameLimit, Belongs
    <3> QED BY <3>3, <3>4, <3>5, <3>6 DEF Told
  <2>3. CASE ~(size > connections[k].max)
    <3>1. /\ reply = Frame("response", frame.correlation, size, reply.body)
          /\ reply.body = Answer(call)
      BY <2>3 DEF Reply, Frame
    <3>2. /\ reply.kind = "response" /\ reply.correlation = frame.correlation
          /\ reply.size = size
      BY <3>1 DEF Frame
    <3>3. /\ reply.body.kind \in {"status", "published", "conflict"}
          /\ reply.body.to = call
          /\ reply.body \in Results
          /\ reply.body.kind = "published" =>
               commits /\ reply.body.number = Len(head) + 1
      BY <1>3, <1>4, <3>1 DEF Answer, Expected, Results, Voiced
    <3>4. Settled(reply.body)'
      BY <1>4, <1>6, <3>3 DEF Settled
    <3>5. reply \in Frames
      BY <1>3, <2>1, <3>1, <3>3 DEF Frame, Frames
    <3>6. Fits(k, reply)' /\ Belongs(k, reply, reply.body.to)'
      BY <1>1, <1>3, <1>10, <2>1, <2>3, <3>2, <3>3
         DEF Fits, FrameLimit, Belongs
    <3> QED BY <3>2, <3>3, <3>4, <3>5, <3>6 DEF Told
  <2> QED BY <2>2, <2>3
<1>12. connections' = [connections EXCEPT
         ![k].up = Tail(@), ![k].server = "replying", ![k].reply = <<reply>>]
  BY DEF Serve, Handler
<1>13. ASSUME NEW j \in Links PROVE LinkInv(j)'
  <2>1. CASE j # k
    <3>1. connections'[j] = connections[j]
      BY <1>12, <2>1 DEF SessionInv
    <3> QED
      BY <1>1, <1>10, <3>1, Carried DEF LinkInv, Agreed, SessionInv
  <2>2. CASE j = k
    <3>1. connections'[k] = [connections[k] EXCEPT
            !.up = Tail(@), !.server = "replying", !.reply = <<reply>>]
      BY <1>12 DEF SessionInv
    <3>2. /\ Tail(connections[k].up) \in Seq(Asked(k)')
          /\ connections[k].down \in Seq(Told(k)')
          /\ <<reply>> \in Seq(Told(k)')
      BY <1>1, <1>2, <1>10, <1>11, SeqMonotonic, Single DEF LinkTypes
    <3>3. /\ connections'[k] \in LinkTypes(k)'
          /\ connections'[k].server = "replying"
          /\ connections'[k].max = connections[k].max
      BY <1>1, <3>1, <3>2 DEF LinkTypes
    <3> QED
      BY <1>1, <1>10, <2>2, <3>3 DEF LinkInv, Agreed
  <2> QED BY <2>1, <2>2
<1>14. DOMAIN connections' = Links
  BY <1>12 DEF SessionInv
<1> QED
  BY <1>1, <1>8, <1>9, <1>13, <1>14 DEF SessionInv


-----------------------------------------------------------------------------
(* The invariant holds always.                                             *)

LEMMA SessionStep == SessionInv /\ [Next]_vars => SessionInv'
<1> SUFFICES ASSUME SessionInv, [Next]_vars PROVE SessionInv'
  OBVIOUS
<1>1. CASE ClientStep
  <2>1. ASSUME NEW options \in ClientOptions, Connect(options) PROVE SessionInv'
    BY <2>1, ConnectStep
  <2>2. ASSUME NEW c \in Callers, NEW op \in {"status", "publish"}, Asks(c, op)
        PROVE  SessionInv'
    BY <2>2, AsksStep
  <2>3. ASSUME NEW c \in Callers, NEW size \in Sizes, Send(c, size)
        PROVE  SessionInv'
    BY <2>3, SendStep
  <2>4. ASSUME NEW c \in Callers, Receive(c) PROVE SessionInv'
    BY <2>4, ReceiveStep
  <2> QED
    BY <1>1, <2>1, <2>2, <2>3, <2>4, HandshakeReplyStep, CloseStep, DropStep
       DEF ClientStep
<1>2. CASE ServiceStep
  <2>1. PICK k \in Links : \/ Handshake(k)
                           \/ \E size \in Sizes : Serve(k, size)
                           \/ SendReply(k)
                           \/ Finish(k)
    BY <1>2 DEF ServiceStep
  <2>2. ASSUME NEW size \in Sizes, Serve(k, size) PROVE SessionInv'
    BY <2>2, ServeStep
  <2> QED
    BY <2>1, <2>2, HandshakeStep, SendReplyStep, FinishStep
<1>3. CASE Fault
  <2>1. CASE Start
    BY <2>1, SameSession DEF Start
  <2>2. ASSUME NEW k \in Links, Break(k) \/ Damage(k) PROVE SessionInv'
    BY <2>2, BreakStep, DamageStep
  <2> QED
    BY <1>3, <2>1, <2>2, DieStep DEF Fault
<1>4. CASE UNCHANGED vars
  BY <1>4, SameSession DEF vars
<1> QED
  BY <1>1, <1>2, <1>3, <1>4 DEF Next

\* SessionInv is what everything below rests on: it holds in every state of
\* the client, its connections and their handlers (client.cpp, server.cpp).
THEOREM SessionCorrect == Spec => []SessionInv
  BY SessionInit, SessionStep, PTL DEF Spec

-----------------------------------------------------------------------------
(* What the runs check.                                                    *)

\* A publication is committed at most once, however often its thread tries it
\* again and whichever attempts are still under way (RegistryAuthority::Commit,
\* `fcrctl publish`): every attempt names the generation the first one named,
\* and the history has that place only once.
THEOREM PublishesOnce == Spec => []PublishedOnce
<1>1. SessionInv => PublishedOnce
  <2> SUFFICES ASSUME SessionInv, NEW i \in DOMAIN head, NEW j \in DOMAIN head,
                      head[i] = head[j]
               PROVE  i = j
    BY DEF PublishedOnce
  <2>1. i \in Nat /\ j \in Nat
    BY LenProperties DEF SessionInv, Committed
  <2>2. i - 1 = j - 1
    BY DEF SessionInv, Committed
  <2> QED
    BY <2>1, <2>2
<1> QED
  BY <1>1, SessionCorrect, PTL

\* What RegistryClient::Call returns answers the request it sent, whatever
\* earlier calls left unread on the connection, and a publication that was
\* reported is at the generation that was reported.
THEOREM AnswersMatch == Spec => []AnswersBelongToTheirCall
<1>1. SessionInv => AnswersBelongToTheirCall
  <2> SUFFICES ASSUME SessionInv, NEW c \in Callers, callers[c].answer # Failed
               PROVE  /\ callers[c].answer.to = callers[c].call
                      /\ callers[c].answer.kind = "published" =>
                           /\ callers[c].answer.number \in DOMAIN head
                           /\ head[callers[c].answer.number] = c
    BY DEF AnswersBelongToTheirCall
  <2> QED
    BY DEF SessionInv, CallerInv, CallerTypes, Settled
<1> QED
  BY <1>1, SessionCorrect, PTL

\* No end sends a frame that the other end would refuse for its size
\* (RegistryServer::ServeConnection, RegistryClient::Connect): both computed
\* the same limit, and what is under way was measured against it.
THEOREM FramesAreAccepted == Spec => []FramesFit
<1>1. SessionInv => FramesFit
  <2> SUFFICES ASSUME SessionInv, client.pc = "ready" PROVE FramesFit
    BY DEF FramesFit
  <2> PICK k \in Links : k = client.at
    BY DEF SessionInv, ClientInv
  <2>1. Speaking(k) /\ FrameLimit = client.max
    BY DEF Speaking, FrameLimit
  <2>2. connections[k] \in LinkTypes(k) /\ Agreed(k)
    BY DEF SessionInv, LinkInv
  <2>3. ASSUME NEW i \in DOMAIN connections[k].down
        PROVE  connections[k].down[i].size <= client.max
    <3>1. connections[k].down[i] \in Told(k)
      BY <2>2, ElementOfSeq DEF LinkTypes
    <3> QED BY <2>1, <3>1 DEF Told, Fits
  <2>4. ASSUME NEW i \in DOMAIN connections[k].up
        PROVE  connections[k].up[i].size <= client.max
    <3>1. connections[k].up[i] \in Asked(k)
      BY <2>2, ElementOfSeq DEF LinkTypes
    <3> QED BY <2>1, <3>1 DEF Asked, Fits
  <2>5. connections[k].server \in {"serving", "replying"} =>
          connections[k].max = client.max
    BY <2>1, <2>2 DEF Agreed
  <2>6. client.max \in Usable..Smaller(client.options, ServiceLimit)
    BY DEF SessionInv, ClientInv
  <2> QED
    BY <2>3, <2>4, <2>5, <2>6 DEF FramesFit
<1> QED
  BY <1>1, SessionCorrect, PTL

=============================================================================
