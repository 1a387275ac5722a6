------------------------------- MODULE Session -------------------------------
(***************************************************************************)
(* One RegistryClient, shared by the threads of a program, and the handler *)
(* the service runs for each of its connections: the handshake, one call   *)
(* at a time under the client's mutex, the frames under way in either      *)
(* direction, and what may go wrong between the two - a damaged frame, a   *)
(* broken connection, a service that dies after it executed a request and  *)
(* before its answer left, a retry on a new connection while the handler   *)
(* of the old one still has the first attempt before it.                   *)
(*                                                                         *)
(* A frame has a size in units of a small payload, and its bytes arrive in *)
(* order or not at all.  What the threads ask is the status, and to        *)
(* publish one document each: a publication names the generation it was    *)
(* written against and keeps that name when it is tried again, as          *)
(* `fcrctl publish --expected-generation` does.                            *)
(***************************************************************************)
EXTENDS Naturals, Sequences

CONSTANTS Callers,          \* the threads that share the client
          ClientOptions,    \* the ClientOptions a program may connect with:
                            \* protocol_version and max_frame_bytes
          ServiceVersion,   \* ServerOptions.protocol_version
          ServiceLimit,     \* ServerOptions.max_frame_bytes
          Usable,           \* the least usable frame size, 1024 bytes
          Sizes,            \* the sizes of documents and of answers
          MaxCalls,         \* bound: the calls the threads make, taken together
          MaxConnects,      \* bound: the connections ever opened
          MaxStarts,        \* bound: the starts of the service
          MaxFaults         \* bound: frames damaged, connections broken and
                            \* deaths of the service, taken together

VARIABLES client,        \* the RegistryClient: its handshake_, correlation_
          callers,       \* the threads: the call each has under way
          connections,   \* the link, its frames and its handler, by number
          running,       \* the service is up
          made,          \* how many calls the threads have made
          starts,        \* how many times the service has started
          head,          \* the publications committed, in order
          faults         \* how many faults there were

Small == 1   \* a handshake, a status call, an error, a Bye: they fit any
             \* usable limit

ASSUME SessionAssumption ==
  /\ ClientOptions \subseteq [version : Nat, max : Nat \ {0}]
  /\ ServiceVersion \in Nat /\ ServiceLimit \in Nat
  /\ Usable \in 2..ServiceLimit
  /\ Sizes \subseteq Nat \ {0} /\ Small \in Sizes
  /\ {MaxCalls, MaxConnects, MaxStarts, MaxFaults} \subseteq Nat

vars == <<client, callers, connections, running, made, starts, head, faults>>

Links == 1..MaxConnects

Frame(kind, correlation, size, body) ==
  [kind |-> kind, correlation |-> correlation, size |-> size, body |-> body,
   damage |-> "none"]

NoCall == [op |-> "none", by |-> "nobody", no |-> 0, expected |-> 0]

Failed == [kind |-> "failed", to |-> NoCall, number |-> 0]

NoClient == [pc |-> "none", at |-> 0, options |-> 0, max |-> 0,
             correlation |-> 0, stream |-> "aligned"]

Unused == [link |-> "unused", up |-> <<>>, down |-> <<>>, server |-> "closed",
           max |-> 0, reply |-> <<>>]

IdleCaller == [pc |-> "idle", call |-> NoCall, sent |-> 0,
               answer |-> Failed, known |-> 0, tried |-> FALSE, expected |-> 0]

Init ==
  /\ client = NoClient
  /\ callers = [c \in Callers |-> IdleCaller]
  /\ connections = [k \in Links |-> Unused]
  /\ running = TRUE
  /\ made = 0
  /\ starts = 1
  /\ head = <<>>
  /\ faults = 0

-----------------------------------------------------------------------------
(* What a reader gets from the stream of frames: a frame, or an error.  A  *)
(* frame whose header fails its checksum, or announces too much, leaves its*)
(* payload unread.  The next reads take pieces of the length of a header   *)
(* out of those bytes; the last piece ends with them ("aligned") or takes  *)
(* the beginning of the next frame along ("torn").                         *)

Nothing == Frame("nothing", 0, Small, NoCall)

Unaccepted(frame, limit) == frame.damage = "header" \/ frame.size > limit

Readings(frames, stream, limit, link) ==
  IF stream = "scraps"
  THEN {[frame |-> Nothing, stream |-> s, rest |-> frames] :
          s \in {"scraps", "aligned", "torn"}}
  ELSE IF frames = <<>>
  THEN IF link = "cut"
       THEN {[frame |-> Nothing, stream |-> stream, rest |-> <<>>]} ELSE {}
  ELSE LET next == Head(frames)
           lost == stream = "torn" \/ Unaccepted(next, limit)
       IN {[frame |-> IF lost \/ next.damage # "none" THEN Nothing ELSE next,
            stream |-> IF lost THEN "scraps" ELSE "aligned",
            rest |-> Tail(frames)]}

SendUp(k, frame) ==
  connections' = [connections EXCEPT
    ![k].up = IF connections[k].link = "up" THEN Append(@, frame) ELSE @]

\* Shutdown and close at the client's end, after a last frame: what the
\* handler has not read it may still read, and nothing reaches the client.
Leave(k, frame) ==
  connections' = [connections EXCEPT
    ![k].link = "cut", ![k].down = <<>>,
    ![k].up = IF connections[k].link = "up" THEN Append(@, frame) ELSE @]

-----------------------------------------------------------------------------
(* The client.                                                             *)

ClientReadings ==
  LET k == client.at
  IN Readings(connections[k].down, client.stream,
              IF client.pc = "greeting" THEN client.options ELSE client.max,
              connections[k].link)

MutexIsFree == \A c \in Callers : callers[c].pc # "awaiting"

Bye == Frame("bye", client.correlation, Small, NoCall)

Connect(options) ==
  /\ client.pc = "none"
  /\ running
  /\ \E k \in Links :
       /\ connections[k] = Unused
       /\ \A j \in Links : j < k => connections[j] # Unused
       /\ connections' = [connections EXCEPT ![k] =
            [Unused EXCEPT !.link = "up", !.server = "greeting",
               !.up = <<Frame("hello", 0, Small, options)>>]]
       /\ client' = [NoClient EXCEPT !.pc = "greeting", !.at = k,
                                     !.options = options.max]
  /\ UNCHANGED <<callers, running, made, starts, head, faults>>

Smaller(a, b) == IF a < b THEN a ELSE b

\* The frame size both ends keep to, or 0: the handshake failed.
Negotiated(frame) ==
  IF frame.kind # "helloack" THEN 0
  ELSE LET max == Smaller(frame.body.max, client.options)
       IN IF max < Usable THEN 0 ELSE max

HandshakeReply ==
  /\ client.pc = "greeting"
  /\ \E r \in ClientReadings :
       LET max == Negotiated(r.frame)
       IN IF max = 0
          THEN client' = NoClient /\ Leave(client.at, Bye)
          ELSE /\ client' = [client EXCEPT !.pc = "ready", !.max = max]
               /\ connections' = [connections EXCEPT
                                    ![client.at].down = r.rest]
  /\ UNCHANGED <<callers, running, made, starts, head, faults>>

\* A thread makes a call: for the status, or to publish its document, the
\* first time against the generation it knows of and then with that same
\* expectation until it has been told that the document is published.
Asks(c, op) ==
  LET me == callers[c]
      expected == IF me.tried THEN me.expected ELSE me.known
  IN /\ client.pc \in {"ready", "closed"}
     /\ me.pc = "idle"
     /\ made < MaxCalls
     /\ made' = made + 1
     /\ callers' = [callers EXCEPT ![c] =
          [me EXCEPT !.pc = "waiting", !.answer = Failed,
             !.call = [op |-> op, by |-> c, no |-> made + 1,
                       expected |-> IF op = "publish" THEN expected ELSE 0],
             !.tried = @ \/ op = "publish",
             !.expected = IF op = "publish" THEN expected ELSE @]]
     /\ UNCHANGED <<client, connections, running, starts, head, faults>>

\* Call takes the mutex.  A closed client, and a request that is larger than
\* the negotiated frame, fail before a byte is sent; so does a send on a
\* connection that is known to be broken.
Send(c, size) ==
  /\ callers[c].pc = "waiting"
  /\ MutexIsFree
  /\ callers[c].call.op = "status" => size = Small
  /\ LET number == client.correlation + 1
         fits == client.pc = "ready" /\ size <= client.max
         broken == client.pc = "ready" /\ connections[client.at].link = "cut"
     IN /\ client' = IF client.pc = "ready"
                     THEN [client EXCEPT !.correlation = number] ELSE client
        /\ \/ /\ ~fits \/ broken
              /\ callers' = [callers EXCEPT ![c].pc = "idle"]
              /\ UNCHANGED connections
           \/ /\ fits
              /\ SendUp(client.at,
                        Frame("request", number, size, callers[c].call))
              /\ callers' = [callers EXCEPT ![c].pc = "awaiting",
                                            ![c].sent = number]
  /\ UNCHANGED <<running, made, starts, head, faults>>

\* A mistake: the client takes whatever answer comes next.
IsAnAnswer(frame, sent) == frame.kind \in {"response", "error"}

IsMine(frame, sent) ==
  frame.correlation = sent /\ frame.kind \in {"response", "error"}

\* Call reads one frame and returns, whatever that frame was; the socket
\* stays open.  An answer to a status call tells the thread the generation.
Receive(c) ==
  /\ callers[c].pc = "awaiting"
  /\ \E r \in ClientReadings :
       LET mine == IsMine(r.frame, callers[c].sent)
           answer == IF mine THEN r.frame.body ELSE Failed
       IN /\ connections' = [connections EXCEPT ![client.at].down = r.rest]
          /\ client' = [client EXCEPT !.stream = r.stream]
          /\ callers' = [callers EXCEPT
               ![c].pc = "idle", ![c].answer = answer, ![c].sent = 0,
               ![c].known = IF answer.kind = "status" THEN answer.number ELSE @]
  /\ UNCHANGED <<running, made, starts, head, faults>>

Close ==
  /\ client.pc = "ready"
  /\ MutexIsFree
  /\ client' = [client EXCEPT !.pc = "closed"]
  /\ Leave(client.at, Bye)
  /\ UNCHANGED <<callers, running, made, starts, head, faults>>

\* The program drops a closed client, to connect again.
Drop ==
  /\ client.pc = "closed"
  /\ \A c \in Callers : callers[c].pc = "idle"
  /\ client' = NoClient
  /\ UNCHANGED <<callers, connections, running, made, starts, head, faults>>

-----------------------------------------------------------------------------
(* The handler of connection k.                                            *)

Handler(k, pc, frame) ==
  connections' = [connections EXCEPT
    ![k].up = Tail(@), ![k].server = pc, ![k].reply = <<frame>>]

HangUp(k) ==
  connections' = [connections EXCEPT
    ![k].server = "closed", ![k].link = "cut", ![k].up = <<>>,
    ![k].reply = <<>>, ![k].max = 0]

\* The frame the handler reads next.  Its first error ends the connection.
Incoming(k) == Head(connections[k].up)

Legible(k, limit) ==
  /\ connections[k].up # <<>>
  /\ Incoming(k).damage = "none"
  /\ Incoming(k).size <= limit

\* A mistake: the service keeps to its own limit only.
EffectiveLimitOfService(wish) == ServiceLimit

\* The client's wish counts when it is usable and below the service's limit.
EffectiveLimit(wish) ==
  IF wish >= Usable THEN Smaller(wish, ServiceLimit) ELSE ServiceLimit

Handshake(k) ==
  /\ connections[k].server = "greeting"
  /\ Legible(k, Small)
  /\ Incoming(k).kind = "hello"
  /\ LET hello == Incoming(k).body
         max == EffectiveLimit(hello.max)
     IN IF hello.version = ServiceVersion
        THEN connections' = [connections EXCEPT
               ![k].up = Tail(@), ![k].server = "replying", ![k].max = max,
               ![k].reply = <<Frame("helloack", 0, Small, [max |-> max])>>]
        ELSE Handler(k, "refusing", Frame("error", 0, Small, Failed))
  /\ UNCHANGED <<client, callers, running, made, starts, head, faults>>

\* A mistake: a publication always follows the head.
ExpectedAnyway(call) == TRUE

\* A publication is committed when its expectation is the head.
Expected(call) == call.expected = Len(head)

Execute(call) ==
  head' = IF call.op = "publish" /\ Expected(call)
          THEN Append(head, call.by) ELSE head

Answer(call) ==
  [kind |-> IF call.op = "status" THEN "status"
            ELSE IF Expected(call) THEN "published" ELSE "conflict",
   to |-> call,
   number |-> Len(head) + IF call.op = "publish" THEN 1 ELSE 0]

\* An answer that does not fit the connection becomes an error that does.
Reply(k, frame, size) ==
  IF size > connections[k].max
  THEN Frame("error", frame.correlation, Small,
             [Failed EXCEPT !.to = frame.body])
  ELSE Frame("response", frame.correlation, size, Answer(frame.body))

Serve(k, size) ==
  /\ connections[k].server = "serving"
  /\ Legible(k, connections[k].max)
  /\ Incoming(k).kind = "request"
  /\ Execute(Incoming(k).body)
  /\ Handler(k, "replying", Reply(k, Incoming(k), size))
  /\ UNCHANGED <<client, callers, running, made, starts, faults>>

\* SendAll: on a broken connection it fails and the handler leaves; after a
\* refused handshake it leaves in any case.
SendReply(k) ==
  LET connection == connections[k]
  IN /\ connection.server \in {"replying", "refusing"}
     /\ IF connection.link = "cut" THEN HangUp(k)
        ELSE connections' = [connections EXCEPT
               ![k].down = @ \o connection.reply,
               ![k].reply = <<>>,
               ![k].server = IF @ = "replying" THEN "serving" ELSE "closed",
               ![k].link = IF connection.server = "replying" THEN @ ELSE "cut"]
     /\ UNCHANGED <<client, callers, running, made, starts, head, faults>>

\* A mistake: the handler skips what it cannot read.
EndsAtTheEnd(k) ==
  \/ connections[k].up = <<>> /\ connections[k].link = "cut"
  \/ connections[k].up # <<>> /\ Incoming(k).kind = "bye"

\* The handler leaves at a frame it cannot read, one it does not expect - for
\* a first frame, any but a hello - and at the end.
EndsHere(k) ==
  LET connection == connections[k]
      greeting == connection.server = "greeting"
      expected == IF greeting THEN "hello" ELSE "request"
  IN \/ connection.up = <<>> /\ connection.link = "cut"
     \/ /\ connection.up # <<>>
        /\ \/ ~Legible(k, IF greeting THEN Small ELSE connection.max)
           \/ Incoming(k).kind # expected

Finish(k) ==
  /\ connections[k].server \in {"greeting", "serving"}
  /\ EndsHere(k)
  /\ HangUp(k)
  /\ UNCHANGED <<client, callers, running, made, starts, head, faults>>

-----------------------------------------------------------------------------
(* Faults and the service's lifetime.                                      *)

FirstParts(s) == {SubSeq(s, 1, n) : n \in 0..Len(s)}

Fails == faults < MaxFaults /\ faults' = faults + 1

\* The connection breaks: of what was under way, a part arrives.
Break(k) ==
  /\ Fails
  /\ connections[k].link = "up"
  /\ \E u \in FirstParts(connections[k].up),
        d \in FirstParts(connections[k].down) :
       connections' = [connections EXCEPT ![k].link = "cut", ![k].up = u,
                                          ![k].down = d]
  /\ UNCHANGED <<client, callers, running, made, starts, head>>

\* A frame under way is damaged where a checksum covers it.
Damage(k) ==
  /\ Fails
  /\ connections[k].link = "up"
  /\ \E part \in {"header", "payload"} :
       \/ \E i \in DOMAIN connections[k].up :
            connections' = [connections EXCEPT ![k].up[i].damage = part]
       \/ \E i \in DOMAIN connections[k].down :
            connections' = [connections EXCEPT ![k].down[i].damage = part]
  /\ UNCHANGED <<client, callers, running, made, starts, head>>

\* The process dies: its handlers with it, and what they had not sent.
Die ==
  /\ Fails
  /\ running
  /\ running' = FALSE
  /\ connections' = [k \in Links |-> IF connections[k] = Unused THEN Unused
       ELSE [connections[k] EXCEPT !.link = "cut", !.server = "closed",
                                   !.up = <<>>, !.reply = <<>>, !.max = 0]]
  /\ UNCHANGED <<client, callers, made, starts, head>>

Start ==
  /\ ~running
  /\ starts < MaxStarts
  /\ starts' = starts + 1
  /\ running' = TRUE
  /\ UNCHANGED <<client, callers, connections, made, head, faults>>

-----------------------------------------------------------------------------
ClientStep ==
  \/ \E options \in ClientOptions : Connect(options)
  \/ HandshakeReply
  \/ \E c \in Callers, op \in {"status", "publish"} : Asks(c, op)
  \/ \E c \in Callers, size \in Sizes : Send(c, size)
  \/ \E c \in Callers : Receive(c)
  \/ Close
  \/ Drop

ServiceStep ==
  \E k \in Links :
    \/ Handshake(k)
    \/ \E size \in Sizes : Serve(k, size)
    \/ SendReply(k)
    \/ Finish(k)

Fault == Die \/ Start \/ \E k \in Links : Break(k) \/ Damage(k)

Next == ClientStep \/ ServiceStep \/ Fault

Spec == Init /\ [][Next]_vars

\* Neither end has a timeout: a call returns because the service's handlers
\* run, and because a connection that ended is seen to have ended.
Fairness ==
  /\ WF_vars(HandshakeReply)
  /\ \A c \in Callers :
       WF_vars((\E size \in Sizes : Send(c, size)) \/ Receive(c))
  /\ \A k \in Links :
       WF_vars(Handshake(k) \/ (\E size \in Sizes : Serve(k, size))
               \/ SendReply(k) \/ Finish(k))

FairSpec == Spec /\ Fairness

-----------------------------------------------------------------------------
(* What Call returns answers the request it sent, and no earlier one, even *)
(* after a call failed on a connection that stays open with the answer, or *)
(* a part of it, unread (client.cpp:159); and a thread that is told of its *)
(* publication finds it at that generation.                                *)
AnswersBelongToTheirCall ==
  \A c \in Callers :
    LET answer == callers[c].answer
    IN answer # Failed =>
         /\ answer.to = callers[c].call
         /\ answer.kind = "published" =>
              answer.number \in DOMAIN head /\ head[answer.number] = c

(* Neither end sends, on a connection whose handshake both have finished,  *)
(* a frame that the other would refuse for its size: the sizes they keep to*)
(* are usable and within what both asked for (server.cpp:339-352,          *)
(* client.cpp:89-95).  Refusing a frame would put the client's stream out  *)
(* of step.                                                                *)
FramesFit ==
  client.pc = "ready" =>
    LET connection == connections[client.at]
    IN /\ client.max \in Usable..Smaller(client.options, ServiceLimit)
       /\ \A i \in DOMAIN connection.down :
            connection.down[i].size <= client.max
       /\ connection.server \in {"serving", "replying"} =>
            \A i \in DOMAIN connection.up :
              connection.up[i].size <= connection.max

(* A publication is committed at most once, however often it is tried      *)
(* again: also when its answer was lost, and when the handler of an        *)
(* earlier connection still holds the first attempt (authority.cpp:253,    *)
(* fcrctl/main.cpp:368-393).                                               *)
PublishedOnce ==
  \A i, j \in DOMAIN head : head[i] = head[j] => i = j

(* Neither end has a timeout, and yet every call returns: the handler      *)
(* answers whatever it read or ends the connection (server.cpp:374-444).   *)
CallsReturn ==
  \A c \in Callers : callers[c].pc # "idle" ~> callers[c].pc = "idle"

==============================================================================
