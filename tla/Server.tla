------------------------------- MODULE Server -------------------------------
(***************************************************************************)
(* RegistryServer (src/src/server.cpp): one acceptor thread, a pool of      *)
(* workers, the bounded queue between them, the registry of connections    *)
(* and the shutdown sequence.  The two mutexes, the condition variable and  *)
(* the atomic stop flag are explicit, because the sequence relies on them.  *)
(*                                                                         *)
(* A step is what a thread does between two operations another thread can  *)
(* see.  The sockets, the kernel's accept backlog and the clients are the   *)
(* environment; the answer to a request is left to the protocol.            *)
(***************************************************************************)
EXTENDS Naturals, Sequences, FiniteSets

CONSTANTS Workers,             \* worker threads
          Acceptor, Main,      \* the acceptor; the thread that calls Shutdown
          Clients,             \* peers; each connects at most once
          Readers,             \* those that keep reading what they are sent
          Waker,               \* the connection WakeAcceptor makes
          Handles,             \* socket handles; the system reuses closed ones
          MaxConnections,      \* ServerOptions::max_connections
          PendingConnections,  \* ServerOptions::pending_connections
          Kinds,               \* frame kinds the clients send
          MaxFrames,           \* frames a client sends
          SendBuffer,          \* replies a socket takes before send() blocks
          Nobody, NoHandle

ASSUME LimitsAssumption ==
  /\ Readers \subseteq Clients
  /\ MaxConnections \in Nat \ {0}
  /\ PendingConnections \in Nat \ {0}
  /\ MaxFrames \in Nat
  /\ SendBuffer \in Nat \ {0}
  /\ Kinds \subseteq {"hello", "oldhello", "request", "shutdown", "bye", "garbage"}

ASSUME WorkersAssumption == IsFiniteSet(Workers)

ASSUME NamesAssumption ==
  /\ Acceptor \notin Workers /\ Main \notin Workers /\ Acceptor # Main
  /\ Nobody \notin Workers \cup {Acceptor, Main}
  /\ Waker \notin Clients /\ Nobody \notin Clients \cup {Waker}
  /\ NoHandle \notin Handles

Threads == Workers \cup {Acceptor, Main}
Conns == Clients \cup {Waker}

VARIABLES stopping,     \* stopping_
          cancelled,    \* shutdown_token_
          callbacks,    \* calls of on_shutdown_request
          listening,    \* the listening socket is open
          backlog,      \* connections the kernel holds for accept()
          wakeups,      \* workers with a byte in their wakeup pair
          unwoken,      \* workers the BeginShutdown in progress has yet to wake
          queue,        \* queue_
          connections,  \* connections_
          active,       \* active_connections_
          qlock,        \* the thread that holds queue_mutex_
          clock,        \* the thread that holds connections_mutex_
          pc,           \* where each thread is
          after,        \* where a worker goes after the frame it is sending
          sock,         \* the connection a thread owns
          fd,           \* the server's handle of a connection
          peer,         \* what the client has done with its end
          inbox,        \* frames sent and not yet received
          sent,         \* frames a client has sent so far
          unread        \* frames the client has not taken from its socket

flags == <<stopping, cancelled, callbacks, wakeups, unwoken>>
net == <<peer, inbox, sent, unread>>
registry == <<connections, active>>
arrivals == <<listening, backlog>>
pool == <<queue, registry>>
mutexes == <<qlock, clock>>
sockets == <<sock, fd>>
vars == <<flags, arrivals, pool, mutexes, pc, after, sockets, net>>

AcceptorPcs == {"accept", "accepted", "admit", "deciding", "admitted", "enqueue", "pushing",
                "notify", "unregister", "erasing", "closing", "exited"}
BeginPcs == {"exchange", "cancelToken", "wakeAcceptor", "wakeWorkers", "notifyAll", "callback"}
ServingPcs == {"hello", "loop", "reading", "sending"} \cup BeginPcs
WorkerPcs == ServingPcs \cup {"idle", "checking", "blocking", "waiting", "taken",
                              "unregister", "erasing", "closing", "exited"}
MainPcs == BeginPcs \cup {"running", "joinAcceptor", "joinWorkers", "drain", "clear", "stopped"}

Init == /\ stopping = FALSE /\ cancelled = FALSE /\ callbacks = 0
        /\ listening = TRUE /\ backlog = <<>>
        /\ wakeups = {} /\ unwoken = {}
        /\ queue = <<>> /\ connections = {} /\ active = 0
        /\ qlock = Nobody /\ clock = Nobody
        /\ pc = [t \in Threads |-> IF t = Acceptor THEN "accept"
                                   ELSE IF t = Main THEN "running" ELSE "idle"]
        /\ after = [w \in Workers |-> "loop"]
        /\ sock = [t \in Threads |-> Nobody]
        /\ fd = [c \in Conns |-> NoHandle]
        /\ peer = [c \in Conns |-> "new"]
        /\ inbox = [c \in Conns |-> <<>>]
        /\ sent = [c \in Conns |-> 0]
        /\ unread = [c \in Conns |-> 0]

Goto(t, to) == pc' = [pc EXCEPT ![t] = to]

\* Socket::Close of the connection a thread owns; the handle may now be reused.
CloseSocket(t) == /\ fd' = [fd EXCEPT ![sock[t]] = NoHandle]
                  /\ sock' = [sock EXCEPT ![t] = Nobody]

\* A thread goes on and nothing else changes.
Move(t, to) ==
  /\ Goto(t, to)
  /\ UNCHANGED <<flags, arrivals, pool, mutexes, after, sockets, net>>

\* lock_guard on queue_mutex_ and on connections_mutex_.
AcquireQueue(t, to) ==
  /\ qlock = Nobody /\ qlock' = t
  /\ Goto(t, to)
  /\ UNCHANGED <<flags, arrivals, pool, clock, after, sockets, net>>

AcquireRegistry(t, to) ==
  /\ clock = Nobody /\ clock' = t
  /\ Goto(t, to)
  /\ UNCHANGED <<flags, arrivals, pool, qlock, after, sockets, net>>

-----------------------------------------------------------------------------
(* The peers.                                                              *)

Connect(c) ==
  /\ peer[c] = "new" /\ listening
  /\ peer' = [peer EXCEPT ![c] = "open"]
  /\ backlog' = Append(backlog, c)
  /\ UNCHANGED <<flags, listening, pool, mutexes, pc, after, sockets, inbox, sent, unread>>

\* What a peer does after the server has closed its socket reaches nobody.
Linked(c) == peer[c] = "open" /\ (fd[c] # NoHandle \/ \E i \in DOMAIN backlog : backlog[i] = c)

SendFrame(c, kind) ==
  /\ Linked(c) /\ sent[c] < MaxFrames
  /\ sent' = [sent EXCEPT ![c] = @ + 1]
  /\ inbox' = [inbox EXCEPT ![c] = Append(@, kind)]
  /\ UNCHANGED <<flags, arrivals, pool, mutexes, pc, after, sockets, peer, unread>>

ReadReplies(c) ==
  /\ c \in Readers /\ Linked(c) /\ unread[c] > 0
  /\ unread' = [unread EXCEPT ![c] = 0]
  /\ UNCHANGED <<flags, arrivals, pool, mutexes, pc, after, sockets, peer, inbox, sent>>

Hangup(c) ==
  /\ Linked(c)
  /\ peer' = [peer EXCEPT ![c] = "closed"]
  /\ UNCHANGED <<flags, arrivals, pool, mutexes, pc, after, sockets, inbox, sent, unread>>

-----------------------------------------------------------------------------
(* AcceptorLoop and EnqueueConnection.                                     *)

AcceptConnection ==
  /\ pc[Acceptor] = "accept" /\ listening /\ backlog # <<>>
  /\ \E h \in Handles \ {fd[c] : c \in Conns} :
       fd' = [fd EXCEPT ![Head(backlog)] = h]
  /\ backlog' = Tail(backlog)
  /\ sock' = [sock EXCEPT ![Acceptor] = Head(backlog)]
  /\ Goto(Acceptor, "accepted")
  /\ UNCHANGED <<flags, listening, pool, mutexes, after, net>>

\* accept() fails, because WakeAcceptor closed the listener or because the
\* system refuses: the loop is left for good, stopping or not.
AcceptFails == pc[Acceptor] = "accept" /\ Move(Acceptor, "exited")

SeeStopEarly ==
  /\ pc[Acceptor] = "accepted" /\ stopping
  /\ CloseSocket(Acceptor)
  /\ Goto(Acceptor, "exited")
  /\ UNCHANGED <<flags, arrivals, pool, mutexes, after, net>>

StartAdmission ==
  /\ pc[Acceptor] = "accepted" /\ ~stopping
  /\ Move(Acceptor, "admit")

LockAdmission == pc[Acceptor] = "admit" /\ AcquireRegistry(Acceptor, "deciding")

\* Variants named after a mistake stand before the definition they distort;
\* nothing in the model uses them.
HasRoomOffByOne == active <= MaxConnections

HasRoom == active < MaxConnections

\* The refusal frame is the first thing the socket sends: it does not block.
Refuse ==
  /\ pc[Acceptor] = "deciding" /\ ~HasRoom
  /\ CloseSocket(Acceptor)
  /\ clock' = Nobody
  /\ Goto(Acceptor, "accept")
  /\ UNCHANGED <<flags, arrivals, pool, qlock, after, net>>

Admit ==
  /\ pc[Acceptor] = "deciding" /\ HasRoom
  /\ connections' = connections \cup {fd[sock[Acceptor]]}
  /\ active' = active + 1
  /\ clock' = Nobody
  /\ Goto(Acceptor, "admitted")
  /\ UNCHANGED <<flags, arrivals, queue, qlock, after, sockets, net>>

RecheckStopLeaking ==
  /\ pc[Acceptor] = "admitted"
  /\ Move(Acceptor, IF stopping THEN "closing" ELSE "enqueue")

\* The stop flag is read a second time after admission.
RecheckStop ==
  /\ pc[Acceptor] = "admitted"
  /\ Move(Acceptor, IF stopping THEN "unregister" ELSE "enqueue")

LockQueue == pc[Acceptor] = "enqueue" /\ AcquireQueue(Acceptor, "pushing")

\* A full queue: the connection is unregistered with queue_mutex_ still held.
Overflow ==
  /\ pc[Acceptor] = "pushing" /\ Len(queue) >= PendingConnections
  /\ Move(Acceptor, "unregister")

PushConnection ==
  /\ pc[Acceptor] = "pushing" /\ Len(queue) < PendingConnections
  /\ queue' = Append(queue, sock[Acceptor])
  /\ sock' = [sock EXCEPT ![Acceptor] = Nobody]
  /\ qlock' = Nobody
  /\ Goto(Acceptor, "notify")
  /\ UNCHANGED <<flags, arrivals, registry, clock, after, fd, net>>

Waiting == {w \in Workers : pc[w] = "waiting"}

NotifyNobody == pc[Acceptor] = "notify" /\ Move(Acceptor, "accept")

NotifyOne ==
  /\ pc[Acceptor] = "notify"
  /\ IF Waiting = {} THEN Goto(Acceptor, "accept")
     ELSE \E w \in Waiting : pc' = [pc EXCEPT ![Acceptor] = "accept", ![w] = "idle"]
  /\ UNCHANGED <<flags, arrivals, pool, mutexes, after, sockets, net>>

-----------------------------------------------------------------------------
(* UnregisterConnection, then Socket::Close: the acceptor's and the         *)
(* workers' way to let go of an admitted connection.                       *)

LockRegistry(t) == pc[t] = "unregister" /\ AcquireRegistry(t, "erasing")

Erase(t) ==
  /\ pc[t] = "erasing"
  /\ connections' = connections \ {fd[sock[t]]}
  /\ active' = IF fd[sock[t]] \in connections /\ active > 0 THEN active - 1 ELSE active
  /\ clock' = Nobody
  /\ Goto(t, "closing")
  /\ UNCHANGED <<flags, arrivals, queue, qlock, after, sockets, net>>

ReleaseKeepingLock(t) ==
  /\ pc[t] = "closing"
  /\ CloseSocket(t)
  /\ Goto(t, IF t \in Workers THEN "idle" ELSE IF qlock = t THEN "accept" ELSE "exited")
  /\ UNCHANGED <<flags, arrivals, pool, mutexes, after, net>>

\* The acceptor goes on if it came from a full queue, and leaves if it saw the
\* stop flag.
Release(t) ==
  /\ pc[t] = "closing"
  /\ CloseSocket(t)
  /\ Goto(t, IF t \in Workers THEN "idle" ELSE IF qlock = t THEN "accept" ELSE "exited")
  /\ qlock' = IF qlock = t THEN Nobody ELSE qlock
  /\ UNCHANGED <<flags, arrivals, pool, clock, after, net>>

-----------------------------------------------------------------------------
(* WorkerLoop.  wait() tests its predicate with the mutex held, and gives   *)
(* the mutex up and blocks in one step; what notifies without the mutex    *)
(* can run between the two.  Spurious wakeups are left out: a notification  *)
(* meant for a connection another worker took is one.                       *)

LockLoop(w) == pc[w] = "idle" /\ AcquireQueue(w, "checking")

FindNothing(w) ==
  /\ pc[w] = "checking" /\ ~stopping /\ queue = <<>>
  /\ Move(w, "blocking")

Block(w) ==
  /\ pc[w] = "blocking"
  /\ qlock' = Nobody
  /\ Goto(w, "waiting")
  /\ UNCHANGED <<flags, arrivals, pool, clock, after, sockets, net>>

LeaveLoop(w) ==
  /\ pc[w] = "checking" /\ stopping /\ queue = <<>>
  /\ qlock' = Nobody
  /\ Goto(w, "exited")
  /\ UNCHANGED <<flags, arrivals, pool, clock, after, sockets, net>>

TakeWithoutPop(w) ==
  /\ pc[w] = "checking" /\ queue # <<>>
  /\ sock' = [sock EXCEPT ![w] = Head(queue)]
  /\ qlock' = Nobody
  /\ Goto(w, "taken")
  /\ UNCHANGED <<flags, arrivals, pool, clock, after, fd, net>>

TakeConnection(w) ==
  /\ pc[w] = "checking" /\ queue # <<>>
  /\ sock' = [sock EXCEPT ![w] = Head(queue)]
  /\ queue' = Tail(queue)
  /\ qlock' = Nobody
  /\ Goto(w, "taken")
  /\ UNCHANGED <<flags, arrivals, registry, clock, after, fd, net>>

CheckStop(w) == pc[w] = "taken" /\ Move(w, IF stopping THEN "unregister" ELSE "hello")

-----------------------------------------------------------------------------
(* ServeConnection.                                                        *)

CancelledInHandshake(w) == pc[w] = "hello" /\ w \in wakeups

\* ReadFrameCancellable looks at the wakeup pair before the connection.  A
\* frame cut short by the peer's end ends the service like a missing one.
Cancelled(w) == pc[w] \in {"hello", "reading"} /\ w \in wakeups

ReadCancelled(w) ==
  /\ Cancelled(w)
  /\ Move(w, "unregister")

ReadEnd(w) ==
  /\ pc[w] \in {"hello", "reading"} /\ ~Cancelled(w)
  /\ inbox[sock[w]] = <<>> /\ peer[sock[w]] = "closed"
  /\ Move(w, "unregister")

\* What a frame leads to: the end of the service, a frame sent back and then
\* the end, an answer, or the shutdown operation.
Reaction(at, kind) ==
  CASE kind \in {"bye", "garbage"} -> "end"
    [] at = "hello" /\ kind \in {"request", "shutdown"} -> "end"
    [] at = "hello" /\ kind = "oldhello" -> "refusal"
    [] at = "reading" /\ kind \in {"hello", "oldhello"} -> "refusal"
    [] at = "reading" /\ kind = "shutdown" -> "shutdown"
    [] OTHER -> "answer"

ReadFrame(w) ==
  /\ pc[w] \in {"hello", "reading"} /\ ~Cancelled(w)
  /\ inbox[sock[w]] # <<>>
  /\ LET reaction == Reaction(pc[w], Head(inbox[sock[w]]))
     IN /\ Goto(w, CASE reaction = "end" -> "unregister"
                     [] reaction = "shutdown" -> "exchange"
                     [] OTHER -> "sending")
        /\ after' = [after EXCEPT ![w] = IF reaction = "refusal" THEN "unregister" ELSE "loop"]
  /\ inbox' = [inbox EXCEPT ![sock[w]] = Tail(@)]
  /\ UNCHANGED <<flags, arrivals, pool, mutexes, sockets, peer, sent, unread>>

\* SendAll returns once the system has taken the bytes; it does not look at
\* the wakeup pair.  A peer that is gone makes it fail.
SendReply(w) ==
  /\ pc[w] = "sending" /\ unread[sock[w]] < SendBuffer
  /\ unread' = [unread EXCEPT ![sock[w]] = @ + 1]
  /\ Goto(w, after[w])
  /\ after' = [after EXCEPT ![w] = "loop"]
  /\ UNCHANGED <<flags, arrivals, pool, mutexes, sockets, peer, inbox, sent>>

SendFails(w) ==
  /\ pc[w] = "sending" /\ peer[sock[w]] = "closed"
  /\ Goto(w, "unregister")
  /\ after' = [after EXCEPT ![w] = "loop"]
  /\ UNCHANGED <<flags, arrivals, pool, mutexes, sockets, net>>

Loop(w) == pc[w] = "loop" /\ Move(w, IF stopping THEN "unregister" ELSE "reading")

-----------------------------------------------------------------------------
(* BeginShutdown, on the main thread or on a worker that executes the       *)
(* shutdown operation.                                                     *)

\* Where BeginShutdown returns to: the operation's reply, or the joins.
Resume(t) == IF t = Main THEN "joinAcceptor" ELSE "sending"

\* A plain load of the flag where the code exchanges it.
ExchangeTorn(t) ==
  /\ pc[t] = "exchange"
  /\ Goto(t, IF callbacks > 0 THEN Resume(t) ELSE "cancelToken")
  /\ stopping' = TRUE
  /\ unwoken' = Workers
  /\ UNCHANGED <<cancelled, callbacks, wakeups, arrivals, pool, mutexes, after, sockets,
                 net>>

\* Only the first caller runs the sequence; the others return at once.
Exchange(t) ==
  /\ pc[t] = "exchange"
  /\ stopping' = TRUE
  /\ Goto(t, IF stopping THEN Resume(t) ELSE "cancelToken")
  /\ unwoken' = IF stopping THEN unwoken ELSE Workers
  /\ UNCHANGED <<cancelled, callbacks, wakeups, arrivals, pool, mutexes, after, sockets,
                 net>>

CancelToken(t) ==
  /\ pc[t] = "cancelToken"
  /\ cancelled' = TRUE
  /\ Goto(t, "wakeAcceptor")
  /\ UNCHANGED <<stopping, callbacks, wakeups, unwoken, arrivals, pool, mutexes, after,
                 sockets, net>>

NoWake(t) == pc[t] = "wakeAcceptor" /\ Move(t, "wakeWorkers")

\* A connection to the server's own listener, or, when it cannot be made, the
\* end of the listener.
WakeAcceptor(t) ==
  /\ pc[t] = "wakeAcceptor"
  /\ \/ /\ listening
        /\ backlog' = Append(backlog, Waker)
        /\ peer' = [peer EXCEPT ![Waker] = "closed"]
        /\ UNCHANGED listening
     \/ /\ listening' = FALSE
        /\ UNCHANGED <<backlog, peer>>
  /\ Goto(t, "wakeWorkers")
  /\ UNCHANGED <<flags, pool, mutexes, after, sockets, inbox, sent, unread>>

\* One byte to each wakeup pair, pair by pair; it stays readable.
WakeWorker(t, w) ==
  /\ pc[t] = "wakeWorkers" /\ w \in unwoken
  /\ wakeups' = wakeups \cup {w}
  /\ unwoken' = unwoken \ {w}
  /\ Goto(t, IF unwoken = {w} THEN "notifyAll" ELSE "wakeWorkers")
  /\ UNCHANGED <<stopping, cancelled, callbacks, arrivals, pool, mutexes, after, sockets,
                 net>>

\* notify_all without queue_mutex_: it reaches the workers that wait now.
NotifyAll(t) ==
  /\ pc[t] = "notifyAll"
  /\ pc' = [u \in Threads |-> IF u = t THEN "callback"
                              ELSE IF u \in Waiting THEN "idle" ELSE pc[u]]
  /\ UNCHANGED <<flags, arrivals, pool, mutexes, after, sockets, net>>

Callback(t) ==
  /\ pc[t] = "callback"
  /\ callbacks' = callbacks + 1
  /\ Goto(t, Resume(t))
  /\ UNCHANGED <<stopping, cancelled, wakeups, unwoken, arrivals, pool, mutexes, after,
                 sockets, net>>

-----------------------------------------------------------------------------
(* Shutdown.                                                               *)

CallShutdown == pc[Main] = "running" /\ Move(Main, "exchange")

\* The listener goes with its backlog once the acceptor has been joined.
JoinAcceptor ==
  /\ pc[Main] = "joinAcceptor" /\ pc[Acceptor] = "exited"
  /\ listening' = FALSE
  /\ backlog' = <<>>
  /\ Goto(Main, "joinWorkers")
  /\ UNCHANGED <<flags, pool, mutexes, after, sockets, net>>

JoinWorkers ==
  /\ pc[Main] = "joinWorkers" /\ \A w \in Workers : pc[w] = "exited"
  /\ Move(Main, "drain")

NoDrain ==
  /\ pc[Main] = "drain" /\ qlock = Nobody
  /\ Move(Main, "clear")

Queued == {queue[i] : i \in DOMAIN queue}

\* What the acceptor queued after the last worker had left is closed here.
DrainQueue ==
  /\ pc[Main] = "drain" /\ qlock = Nobody
  /\ fd' = [c \in Conns |-> IF c \in Queued THEN NoHandle ELSE fd[c]]
  /\ queue' = <<>>
  /\ Goto(Main, "clear")
  /\ UNCHANGED <<flags, arrivals, registry, mutexes, after, sock, net>>

ClearConnections ==
  /\ pc[Main] = "clear" /\ clock = Nobody
  /\ connections' = {} /\ active' = 0
  /\ Goto(Main, "stopped")
  /\ UNCHANGED <<flags, arrivals, queue, mutexes, after, sockets, net>>

-----------------------------------------------------------------------------
Peers == \E c \in Clients : \/ Connect(c) \/ ReadReplies(c) \/ Hangup(c)
                            \/ \E kind \in Kinds : SendFrame(c, kind)

AcceptorSteps ==
  \/ AcceptConnection \/ SeeStopEarly \/ StartAdmission \/ LockAdmission \/ Refuse \/ Admit
  \/ RecheckStop \/ LockQueue \/ Overflow \/ PushConnection \/ NotifyOne
  \/ LockRegistry(Acceptor) \/ Erase(Acceptor) \/ Release(Acceptor)

BeginShutdown(t) ==
  \/ Exchange(t) \/ CancelToken(t) \/ WakeAcceptor(t)
  \/ (\E w \in Workers : WakeWorker(t, w)) \/ NotifyAll(t) \/ Callback(t)

WorkerSteps(w) ==
  \/ LockLoop(w) \/ FindNothing(w) \/ Block(w) \/ LeaveLoop(w) \/ TakeConnection(w)
  \/ CheckStop(w) \/ ReadCancelled(w) \/ ReadEnd(w) \/ ReadFrame(w) \/ SendReply(w)
  \/ SendFails(w) \/ Loop(w) \/ BeginShutdown(w)
  \/ LockRegistry(w) \/ Erase(w) \/ Release(w)

MainSteps ==
  \/ BeginShutdown(Main) \/ JoinAcceptor \/ JoinWorkers \/ DrainQueue \/ ClearConnections

Next == \/ Peers \/ AcceptorSteps \/ AcceptFails \/ CallShutdown \/ MainSteps
        \/ \E w \in Workers : WorkerSteps(w)

\* The system runs every thread that can run, and accept() on a closed
\* listener returns.  Nothing makes a client act, except that the clients in
\* Readers keep taking what arrives.
Fairness ==
  /\ WF_vars(AcceptorSteps \/ (~listening /\ AcceptFails))
  /\ WF_vars(MainSteps)
  /\ \A w \in Workers : WF_vars(WorkerSteps(w))
  /\ \A c \in Readers : WF_vars(ReadReplies(c))

Spec == Init /\ [][Next]_vars
FairSpec == Spec /\ Fairness
-----------------------------------------------------------------------------
(* Properties.                                                             *)

TypeOK ==
  /\ stopping \in BOOLEAN /\ cancelled \in BOOLEAN /\ callbacks \in Nat
  /\ listening \in BOOLEAN /\ backlog \in Seq(Conns)
  /\ wakeups \in SUBSET Workers /\ unwoken \in SUBSET Workers
  /\ queue \in Seq(Conns)
  /\ connections \in SUBSET Handles /\ active \in 0..MaxConnections
  /\ qlock \in Threads \cup {Nobody} /\ clock \in Threads \cup {Nobody}
  /\ pc \in [Threads -> AcceptorPcs \cup WorkerPcs \cup MainPcs]
  /\ pc[Acceptor] \in AcceptorPcs /\ pc[Main] \in MainPcs
  /\ \A w \in Workers : pc[w] \in WorkerPcs
  /\ after \in [Workers -> {"loop", "unregister"}]
  /\ sock \in [Threads -> Conns \cup {Nobody}]
  /\ fd \in [Conns -> Handles \cup {NoHandle}]
  /\ peer \in [Conns -> {"new", "open", "closed"}]
  /\ inbox \in [Conns -> Seq(Kinds)]
  /\ sent \in [Conns -> 0..MaxFrames]
  /\ unread \in [Conns -> 0..SendBuffer]

\* Every open socket belongs to exactly one thread or one place in the queue,
\* and to nobody once it is closed (README "The worker owns its connection
\* socket exclusively"; TakeConnection, PushConnection, Release).
SocketsHaveOneOwner ==
  \A c \in Conns :
    Cardinality({t \in Threads : sock[t] = c}) + Cardinality({i \in DOMAIN queue : queue[i] = c})
      = (IF fd[c] # NoHandle THEN 1 ELSE 0)

\* The connections that admission has counted and nobody has uncounted yet.
Admitted ==
  Queued \cup {c \in Conns : \E t \in Threads :
                 /\ sock[t] = c
                 /\ pc[t] \notin {"accepted", "admit", "deciding", "closing"}}

\* connections_ and active_connections_ agree with the sockets that are really
\* admitted, although the system hands a closed socket's handle out again
\* (AcceptorLoop, UnregisterConnection).
CountsAdmitted ==
  pc[Main] \notin {"clear", "stopped"} =>
    /\ connections = {fd[c] : c \in Admitted}
    /\ active = Cardinality(Admitted)

\* A worker sleeps on the condition variable only while every queued
\* connection has a worker on its way to it (EnqueueConnection, WorkerLoop).
QueuedWorkIsNoticed ==
  Waiting # {} =>
    Len(queue) <= Cardinality({w \in Workers : pc[w] \in {"idle", "checking"}})
                  + (IF pc[Acceptor] = "notify" THEN 1 ELSE 0)

\* A thread waits for a mutex another one holds, or itself.
Awaits(t, u) ==
  \/ pc[t] \in {"idle", "enqueue"} /\ qlock = u
  \/ pc[t] \in {"admit", "unregister"} /\ clock = u

\* No two threads wait for each other's mutex, and none for its own, although
\* a full queue unregisters its connection with queue_mutex_ held
\* (EnqueueConnection, UnregisterConnection).
MutexesDoNotDeadlock ==
  \A t, u \in Threads : ~(Awaits(t, u) /\ Awaits(u, t))

\* Shutdown returns with nothing open: no socket, no queued connection, no
\* thread (Shutdown).
NothingLeftBehind ==
  pc[Main] = "stopped" =>
    /\ \A c \in Conns : fd[c] = NoHandle
    /\ queue = <<>> /\ connections = {} /\ active = 0 /\ ~listening
    /\ \A t \in Threads \ {Main} : pc[t] = "exited"

\* server.hpp on_shutdown_request: "Invoked once when shutdown begins", however
\* many callers race into BeginShutdown.
CalledBackOnce == callbacks <= 1

\* Once stopping, the acceptor leaves accept() and the loop, wherever the stop
\* flag caught it (WakeAcceptor, AcceptorLoop).
AcceptorLeaves == stopping ~> pc[Acceptor] = "exited"

\* Once stopping, a worker lets go of the connection it serves, even if the
\* client never sends another byte (README "How shutdown actually wakes a
\* blocked worker").
WorkersLetGo == \A w \in Workers : (stopping /\ sock[w] # Nobody) ~> sock[w] = Nobody

\* server.hpp: Shutdown's "join is unconditional"; README: Shutdown "still
\* shuts down cleanly" with idle connections.
ShutdownReturns == pc[Main] = "exchange" ~> pc[Main] = "stopped"
=============================================================================
