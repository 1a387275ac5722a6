---------------------------- MODULE ServerProofs ----------------------------
(***************************************************************************)
(* Proofs about Server for every number of workers, clients, connections,  *)
(* handles and frames.                                                     *)
(***************************************************************************)
EXTENDS Server, SequenceTheorems, FiniteSetTheorems, TLAPS

-----------------------------------------------------------------------------
(* Where threads are, and which mutexes they hold.                         *)

\* What the caller of BeginShutdown that set the flag has yet to do.
SequencePcs == BeginPcs \ {"exchange"}

PcTypes ==
  /\ pc \in [Threads -> AcceptorPcs \cup WorkerPcs \cup MainPcs]
  /\ pc[Acceptor] \in AcceptorPcs /\ pc[Main] \in MainPcs
  /\ \A w \in Workers : pc[w] \in WorkerPcs
  /\ after \in [Workers -> {"loop", "unregister"}]

\* A worker keeps queue_mutex_ while it looks at the queue, the acceptor while
\* it pushes and, when the queue is full, until it has closed the connection.
MutexInv ==
  \A t \in Threads :
    /\ qlock = t => pc[t] \in {"checking", "blocking", "pushing", "unregister", "erasing", "closing"}
    /\ clock = t => pc[t] \in {"deciding", "erasing"}

\* One caller at most is in the sequence, and calls back at its end.
SequenceInv ==
  /\ stopping \in BOOLEAN /\ callbacks \in {0, 1}
  /\ ~stopping => callbacks = 0 /\ \A t \in Threads : pc[t] \notin SequencePcs
  /\ \A t \in Threads : pc[t] \in SequencePcs => callbacks = 0
  /\ \A t, u \in Threads : pc[t] \in SequencePcs /\ pc[u] \in SequencePcs => t = u

ThreadInv == PcTypes /\ MutexInv /\ SequenceInv

LEMMA ThreadInit == Init => ThreadInv
<1> SUFFICES ASSUME Init PROVE ThreadInv
  OBVIOUS
<1>1. PcTypes
  BY NamesAssumption DEF Init, PcTypes, Threads, AcceptorPcs, WorkerPcs, MainPcs
<1>2. MutexInv
  BY NamesAssumption DEF Init, MutexInv, Threads
<1>3. SequenceInv
  BY NamesAssumption DEF Init, SequenceInv, Threads, SequencePcs, BeginPcs
<1> QED BY <1>1, <1>2, <1>3 DEF ThreadInv

LEMMA ThreadStep == ThreadInv /\ [Next]_vars => ThreadInv'
<1> SUFFICES ASSUME ThreadInv, [Next]_vars PROVE ThreadInv'
  OBVIOUS
<1> USE NamesAssumption
        DEF ThreadInv, PcTypes, MutexInv, SequenceInv, Threads, AcceptorPcs, WorkerPcs, MainPcs, ServingPcs,
            BeginPcs, SequencePcs, Goto, Move, AcquireQueue, AcquireRegistry, flags, mutexes
<1>1. ASSUME Peers PROVE ThreadInv'
  BY <1>1 DEF Peers, Connect, ReadReplies, Hangup, SendFrame
<1>2. ASSUME AcceptorSteps \/ AcceptFails PROVE ThreadInv'
  <2>1. CASE AcceptConnection BY <2>1 DEF AcceptConnection
  <2>2. CASE SeeStopEarly     BY <2>2 DEF SeeStopEarly
  <2>3. CASE StartAdmission   BY <2>3 DEF StartAdmission
  <2>4. CASE LockAdmission    BY <2>4 DEF LockAdmission
  <2>5. CASE Refuse           BY <2>5 DEF Refuse
  <2>6. CASE Admit            BY <2>6 DEF Admit
  <2>7. CASE RecheckStop      BY <2>7 DEF RecheckStop
  <2>8. CASE LockQueue        BY <2>8 DEF LockQueue
  <2>9. CASE Overflow         BY <2>9 DEF Overflow
  <2>10. CASE PushConnection  BY <2>10 DEF PushConnection
  <2>11. CASE NotifyOne       BY <2>11 DEF NotifyOne, Waiting
  <2>12. CASE LockRegistry(Acceptor) BY <2>12 DEF LockRegistry
  <2>13. CASE Erase(Acceptor)   BY <2>13 DEF Erase
  <2>14. CASE Release(Acceptor) BY <2>14 DEF Release
  <2>15. CASE AcceptFails     BY <2>15 DEF AcceptFails
  <2> QED BY <1>2, <2>1, <2>2, <2>3, <2>4, <2>5, <2>6, <2>7, <2>8, <2>9, <2>10, <2>11, <2>12, <2>13,
             <2>14, <2>15 DEF AcceptorSteps
<1>3. ASSUME NEW t \in Workers \cup {Main}, BeginShutdown(t) PROVE ThreadInv'
  <2>1. CASE Exchange(t)     BY <2>1 DEF Exchange, Resume
  <2>2. CASE CancelToken(t)  BY <2>2 DEF CancelToken
  <2>3. CASE WakeAcceptor(t) BY <2>3 DEF WakeAcceptor
  <2>4. CASE \E w \in Workers : WakeWorker(t, w) BY <2>4 DEF WakeWorker
  <2>5. CASE NotifyAll(t)    BY <2>5 DEF NotifyAll, Waiting
  <2>6. CASE Callback(t)     BY <2>6 DEF Callback, Resume
  <2> QED BY <1>3, <2>1, <2>2, <2>3, <2>4, <2>5, <2>6 DEF BeginShutdown
<1>4. ASSUME NEW w \in Workers, WorkerSteps(w) PROVE ThreadInv'
  <2>1. CASE LockLoop(w)       BY <2>1 DEF LockLoop
  <2>2. CASE FindNothing(w)    BY <2>2 DEF FindNothing
  <2>3. CASE Block(w)          BY <2>3 DEF Block
  <2>4. CASE LeaveLoop(w)      BY <2>4 DEF LeaveLoop
  <2>5. CASE TakeConnection(w) BY <2>5 DEF TakeConnection
  <2>6. CASE CheckStop(w)      BY <2>6 DEF CheckStop
  <2>7. CASE ReadCancelled(w)  BY <2>7 DEF ReadCancelled, Cancelled
  <2>8. CASE ReadEnd(w)        BY <2>8 DEF ReadEnd
  <2>9. CASE ReadFrame(w)      BY <2>9 DEF ReadFrame, Reaction
  <2>10. CASE SendReply(w)     BY <2>10 DEF SendReply
  <2>11. CASE SendFails(w)     BY <2>11 DEF SendFails
  <2>12. CASE Loop(w)          BY <2>12 DEF Loop
  <2>13. CASE LockRegistry(w)  BY <2>13 DEF LockRegistry
  <2>14. CASE Erase(w)         BY <2>14 DEF Erase
  <2>15. CASE Release(w)       BY <2>15 DEF Release
  <2> QED BY <1>3, <1>4, <2>1, <2>2, <2>3, <2>4, <2>5, <2>6, <2>7, <2>8, <2>9, <2>10, <2>11, <2>12, <2>13,
             <2>14, <2>15 DEF WorkerSteps
<1>5. CASE CallShutdown \/ JoinAcceptor \/ JoinWorkers \/ DrainQueue \/ ClearConnections
  <2>1. CASE CallShutdown     BY <2>1 DEF CallShutdown
  <2>2. CASE JoinAcceptor     BY <2>2 DEF JoinAcceptor
  <2>3. CASE JoinWorkers      BY <2>3 DEF JoinWorkers
  <2>4. CASE DrainQueue       BY <2>4 DEF DrainQueue
  <2>5. CASE ClearConnections BY <2>5 DEF ClearConnections
  <2> QED BY <1>5, <2>1, <2>2, <2>3, <2>4, <2>5
<1>6. CASE UNCHANGED vars
  BY <1>6 DEF vars
<1> QED BY <1>1, <1>2, <1>3, <1>4, <1>5, <1>6 DEF Next, MainSteps

-----------------------------------------------------------------------------
(* What a step does to the sockets.  Most do nothing.                      *)

\* A thread that owns a connection, and one whose connection is registered.
Holds(t) ==
  pc[t] \in IF t = Main THEN {}
            ELSE IF t = Acceptor THEN AcceptorPcs \ {"accept", "notify", "exited"}
            ELSE ServingPcs \cup {"taken", "unregister", "erasing", "closing"}
Counted(t) == pc[t] \notin {"accepted", "admit", "deciding", "closing"}

\* WakeAcceptor is still to come, if it comes at all.
BeforeWake == ~stopping \/ \E t \in Threads : pc[t] \in {"cancelToken", "wakeAcceptor"}

Calm ==
  /\ UNCHANGED <<sock, fd, queue, connections, active, backlog>>
  /\ peer' \in [Conns -> {"new", "open", "closed"}]
  /\ \A c \in Conns : peer'[c] = "new" <=> peer[c] = "new"
  /\ listening' => listening
  /\ \A t \in Threads : /\ Holds(t)' <=> Holds(t)
                        /\ Counted(t)' <=> Counted(t)
                        /\ pc[t] = "exited" => pc'[t] = "exited"
  /\ pc'[Main] \in BeginPcs \cup {"joinAcceptor", pc[Main]}
  /\ pc[Main] \in {"clear", "stopped"} => pc'[Main] = pc[Main]
  /\ BeforeWake' => BeforeWake

SocketSteps ==
  \/ \E c \in Clients : Connect(c)
  \/ \E t \in Threads : WakeAcceptor(t)
  \/ AcceptConnection \/ SeeStopEarly \/ Refuse \/ Admit \/ PushConnection
  \/ \E t \in Workers \cup {Acceptor} : Erase(t) \/ Release(t)
  \/ \E w \in Workers : TakeConnection(w)
  \/ JoinAcceptor \/ JoinWorkers \/ DrainQueue \/ ClearConnections

LEMMA StepsAreCalm ==
  ASSUME ThreadInv, peer \in [Conns -> {"new", "open", "closed"}], [Next]_vars
  PROVE  Calm \/ SocketSteps
<1> USE NamesAssumption
        DEF ThreadInv, PcTypes, Threads, Conns, AcceptorPcs, WorkerPcs, MainPcs, ServingPcs, BeginPcs,
            SequencePcs, Goto, Move, AcquireQueue, AcquireRegistry, flags, net, registry, arrivals, pool,
            sockets, Calm, Holds, Counted, BeforeWake
<1>1. ASSUME Peers PROVE Calm \/ SocketSteps
  BY <1>1 DEF Peers, ReadReplies, Hangup, Linked, SendFrame, SocketSteps
<1>2. ASSUME AcceptorSteps \/ AcceptFails PROVE Calm \/ SocketSteps
  <2>1. CASE StartAdmission   BY <2>1 DEF StartAdmission
  <2>2. CASE LockAdmission    BY <2>2 DEF LockAdmission
  <2>3. CASE RecheckStop      BY <2>3 DEF RecheckStop
  <2>4. CASE LockQueue        BY <2>4 DEF LockQueue
  <2>5. CASE Overflow         BY <2>5 DEF Overflow
  <2>6. CASE NotifyOne        BY <2>6 DEF NotifyOne, Waiting
  <2>7. CASE LockRegistry(Acceptor) BY <2>7 DEF LockRegistry
  <2>8. CASE AcceptFails      BY <2>8 DEF AcceptFails
  <2> QED BY <1>2, <2>1, <2>2, <2>3, <2>4, <2>5, <2>6, <2>7, <2>8 DEF AcceptorSteps, SocketSteps
<1>3. ASSUME NEW t \in Workers \cup {Main}, BeginShutdown(t) PROVE Calm \/ SocketSteps
  <2>1. CASE Exchange(t)     BY <2>1 DEF Exchange, Resume
  <2>2. CASE CancelToken(t)  BY <2>2 DEF CancelToken
  <2>3. CASE WakeAcceptor(t) BY <2>3 DEF SocketSteps
  <2>4. CASE \E w \in Workers : WakeWorker(t, w) BY <2>4 DEF WakeWorker
  <2>5. CASE NotifyAll(t)    BY <2>5 DEF NotifyAll, Waiting
  <2>6. CASE Callback(t)     BY <2>6 DEF Callback, Resume
  <2> QED BY <1>3, <2>1, <2>2, <2>3, <2>4, <2>5, <2>6 DEF BeginShutdown
<1>4. ASSUME NEW w \in Workers, WorkerSteps(w) PROVE Calm \/ SocketSteps
  <2>1. CASE LockLoop(w)       BY <2>1 DEF LockLoop
  <2>2. CASE FindNothing(w)    BY <2>2 DEF FindNothing
  <2>3. CASE Block(w)          BY <2>3 DEF Block
  <2>4. CASE LeaveLoop(w)      BY <2>4 DEF LeaveLoop
  <2>5. CASE CheckStop(w)      BY <2>5 DEF CheckStop
  <2>6. CASE ReadCancelled(w)  BY <2>6 DEF ReadCancelled, Cancelled
  <2>7. CASE ReadEnd(w)        BY <2>7 DEF ReadEnd
  <2>8. CASE ReadFrame(w)      BY <2>8 DEF ReadFrame, Reaction
  <2>9. CASE SendReply(w)      BY <2>9 DEF SendReply
  <2>10. CASE SendFails(w)     BY <2>10 DEF SendFails
  <2>11. CASE Loop(w)          BY <2>11 DEF Loop
  <2>12. CASE LockRegistry(w)  BY <2>12 DEF LockRegistry
  <2> QED BY <1>3, <1>4, <2>1, <2>2, <2>3, <2>4, <2>5, <2>6, <2>7, <2>8, <2>9, <2>10, <2>11, <2>12
          DEF WorkerSteps, SocketSteps
<1>5. CASE CallShutdown
  BY <1>5 DEF CallShutdown
<1>6. CASE UNCHANGED vars
  BY <1>6 DEF vars
<1> QED BY <1>1, <1>2, <1>3, <1>4, <1>5, <1>6 DEF Next, MainSteps, SocketSteps

-----------------------------------------------------------------------------
(* Every open socket has one owner.                                        *)

SocketTypes ==
  /\ sock \in [Threads -> Conns \cup {Nobody}]
  /\ fd \in [Conns -> Handles \cup {NoHandle}]
  /\ queue \in Seq(Conns) /\ backlog \in Seq(Conns)
  /\ peer \in [Conns -> {"new", "open", "closed"}]

HoldInv == \A t \in Threads : sock[t] # Nobody <=> Holds(t)

\* A connection enters the backlog once, and has no handle before it is accepted.
ArrivalInv ==
  /\ \A i \in DOMAIN backlog : fd[backlog[i]] = NoHandle /\ peer[backlog[i]] # "new"
  /\ \A i, j \in DOMAIN backlog : backlog[i] = backlog[j] => i = j
  /\ \A c \in Conns : peer[c] = "new" => fd[c] = NoHandle
  /\ BeforeWake => peer[Waker] = "new"

\* Each connection is at most in one place, and is in one if it has a handle.
OwnerInv ==
  /\ \A t, u \in Threads : sock[t] # Nobody /\ sock[t] = sock[u] => t = u
  /\ \A i, j \in DOMAIN queue : queue[i] = queue[j] => i = j
  /\ \A t \in Threads, i \in DOMAIN queue : sock[t] # queue[i]
  /\ \A t \in Threads : sock[t] # Nobody => fd[sock[t]] # NoHandle
  /\ \A i \in DOMAIN queue : fd[queue[i]] # NoHandle
  /\ \A c \in Conns : fd[c] # NoHandle =>
       (\E t \in Threads : sock[t] = c) \/ (\E i \in DOMAIN queue : queue[i] = c)

SocketInv == SocketTypes /\ HoldInv /\ ArrivalInv /\ OwnerInv

LEMMA SocketInit == Init => SocketInv
<1> SUFFICES ASSUME Init PROVE SocketInv
  OBVIOUS
<1>1. SocketTypes
  BY DEF Init, SocketTypes
<1>2. HoldInv
  BY NamesAssumption DEF Init, HoldInv, Holds, Threads, AcceptorPcs, ServingPcs, BeginPcs
<1>3. ArrivalInv
  BY DEF Init, ArrivalInv, Conns
<1>4. OwnerInv
  BY DEF Init, OwnerInv
<1> QED BY <1>1, <1>2, <1>3, <1>4 DEF SocketInv

LEMMA Behead ==
  ASSUME NEW S, NEW s \in Seq(S), s # <<>>
  PROVE  /\ Head(s) \in S /\ Tail(s) \in Seq(S)
         /\ 1 \in DOMAIN s /\ Head(s) = s[1] /\ DOMAIN s \subseteq Nat
         /\ \A i \in DOMAIN Tail(s) : i + 1 \in DOMAIN s /\ Tail(s)[i] = s[i + 1]
         /\ \A i \in DOMAIN s : i # 1 => i - 1 \in DOMAIN Tail(s) /\ Tail(s)[i - 1] = s[i]
<1>1. Len(s) \in Nat \ {0} /\ DOMAIN s = 1..Len(s)
  BY EmptySeq, LenProperties
<1>2. /\ Head(s) \in S /\ Tail(s) \in Seq(S) /\ Len(Tail(s)) = Len(s) - 1
      /\ \A i \in 1..Len(Tail(s)) : Tail(s)[i] = s[i + 1]
  BY HeadTailProperties
<1>3. DOMAIN Tail(s) = 1..(Len(s) - 1)
  BY <1>2, LenProperties
<1> QED BY <1>1, <1>2, <1>3

LEMMA Lengthen ==
  ASSUME NEW S, NEW s \in Seq(S), NEW e \in S
  PROVE  /\ Append(s, e) \in Seq(S)
         /\ \A i \in DOMAIN s : i \in DOMAIN Append(s, e) /\ Append(s, e)[i] = s[i]
         /\ \E n \in DOMAIN Append(s, e) :
              n \notin DOMAIN s /\ Append(s, e)[n] = e /\ DOMAIN Append(s, e) = DOMAIN s \cup {n}
<1>1. Len(s) \in Nat /\ DOMAIN s = 1..Len(s)
  BY LenProperties
<1>2. /\ Append(s, e) \in Seq(S) /\ Len(Append(s, e)) = Len(s) + 1
      /\ \A i \in 1..Len(s) : Append(s, e)[i] = s[i]
      /\ Append(s, e)[Len(s) + 1] = e
  BY AppendProperties
<1>3. DOMAIN Append(s, e) = 1..(Len(s) + 1)
  BY <1>2, LenProperties
<1> QED BY <1>1, <1>2, <1>3

\* What leaves the sockets and the queue alone, and at most ends the backlog.
Still ==
  /\ UNCHANGED <<sock, fd, queue>>
  /\ backlog' \in {backlog, <<>>}
  /\ peer' \in [Conns -> {"new", "open", "closed"}]
  /\ \A c \in Conns : peer'[c] = "new" <=> peer[c] = "new"
  /\ \A t \in Threads : Holds(t)' <=> Holds(t)
  /\ BeforeWake' => BeforeWake

LEMMA StillStep == ASSUME SocketInv, Still PROVE SocketInv'
<1> USE DEF SocketInv, Still
<1>1. SocketTypes'
  BY EmptySeq DEF SocketTypes
<1>2. HoldInv'
  BY DEF HoldInv
<1>3. ArrivalInv'
  <2>1. \A i \in DOMAIN backlog : backlog[i] \in Conns
    BY ElementOfSeq, LenProperties DEF SocketTypes
  <2> QED BY <2>1 DEF ArrivalInv, Conns
<1>4. OwnerInv'
  BY DEF OwnerInv
<1> QED BY <1>1, <1>2, <1>3, <1>4

\* A connection joins the backlog: a client's, or the one of WakeAcceptor.
LEMMA Arrival ==
  ASSUME SocketInv, NEW c \in Conns, peer[c] = "new", backlog' = Append(backlog, c),
         NEW state \in {"open", "closed"}, peer' = [peer EXCEPT ![c] = state],
         UNCHANGED <<sock, fd, queue>>, \A t \in Threads : Holds(t)' <=> Holds(t),
         BeforeWake' => BeforeWake /\ c # Waker
  PROVE  SocketInv'
<1> USE DEF SocketInv
<1>1. SocketTypes'
  BY Lengthen DEF SocketTypes
<1>2. HoldInv'
  BY DEF HoldInv
<1>3. ArrivalInv'
  <2>1. /\ \A i \in DOMAIN backlog : i \in DOMAIN backlog' /\ backlog'[i] = backlog[i]
        /\ \E n \in DOMAIN backlog' :
             n \notin DOMAIN backlog /\ backlog'[n] = c /\ DOMAIN backlog' = DOMAIN backlog \cup {n}
    <3>1. backlog \in Seq(Conns)
      BY DEF SocketTypes
    <3> HIDE DEF SocketInv
    <3>2. /\ \A i \in DOMAIN backlog : i \in DOMAIN Append(backlog, c) /\ Append(backlog, c)[i] = backlog[i]
          /\ \E n \in DOMAIN Append(backlog, c) :
               /\ n \notin DOMAIN backlog /\ Append(backlog, c)[n] = c
               /\ DOMAIN Append(backlog, c) = DOMAIN backlog \cup {n}
      BY <3>1, Lengthen, Zenon
    <3> QED BY <3>2, Zenon
  <2>2. \A i \in DOMAIN backlog : backlog[i] # c
    BY DEF ArrivalInv
  <2>3. /\ \A k \in Conns : peer'[k] = IF k = c THEN state ELSE peer[k]
        /\ \A i \in DOMAIN backlog : backlog[i] \in Conns
    BY ElementOfSeq, LenProperties DEF SocketTypes
  <2>4. /\ \A i \in DOMAIN backlog' : fd'[backlog'[i]] = NoHandle /\ peer'[backlog'[i]] # "new"
        /\ \A k \in Conns : peer'[k] = "new" => fd'[k] = NoHandle
        /\ BeforeWake' => peer'[Waker] = "new"
    BY <2>1, <2>2, <2>3 DEF ArrivalInv, Conns
  <2>5. \A i, j \in DOMAIN backlog' : backlog'[i] = backlog'[j] => i = j
    BY <2>1, <2>2 DEF ArrivalInv
  <2> QED BY <2>4, <2>5 DEF ArrivalInv
<1>4. OwnerInv'
  BY DEF OwnerInv
<1> QED BY <1>1, <1>2, <1>3, <1>4

\* A thread closes the connection it owns.
Closes(t) ==
  /\ Holds(t) /\ ~Holds(t)'
  /\ \A u \in Threads \ {t} : Holds(u)' <=> Holds(u)
  /\ CloseSocket(t)
  /\ UNCHANGED <<queue, backlog, peer>>
  /\ BeforeWake' => BeforeWake

LEMMA ClosesStep ==
  ASSUME SocketInv, NEW t \in Threads, Closes(t)
  PROVE  SocketInv'
<1> DEFINE c == sock[t]
<1>1. /\ c \in Conns /\ c # Nobody
      /\ \A u \in Threads : sock'[u] = IF u = t THEN Nobody ELSE sock[u]
      /\ \A k \in Conns : fd'[k] = IF k = c THEN NoHandle ELSE fd[k]
  BY NamesAssumption DEF Closes, CloseSocket, SocketInv, SocketTypes, HoldInv, Conns
<1>2. SocketTypes'
  BY DEF Closes, CloseSocket, SocketInv, SocketTypes
<1>3. HoldInv'
  BY <1>1 DEF SocketInv, HoldInv, Closes
<1>4. ArrivalInv'
  <2>1. \A i \in DOMAIN backlog : backlog[i] \in Conns
    BY ElementOfSeq, LenProperties DEF SocketInv, SocketTypes
  <2> QED BY <1>1, <2>1 DEF SocketInv, ArrivalInv, Closes
<1>5. OwnerInv'
  <2>1. \A i \in DOMAIN queue : queue[i] \in Conns /\ queue[i] # Nobody
    BY NamesAssumption, ElementOfSeq, LenProperties DEF SocketInv, SocketTypes, Conns
  <2>2. queue' = queue /\ \A u \in Threads \ {t} : sock[u] # Nobody => sock[u] # c /\ sock[u] \in Conns
    BY <1>1 DEF SocketInv, OwnerInv, Closes, SocketTypes
  <2> QED BY <1>1, <2>1, <2>2 DEF SocketInv, OwnerInv
<1> QED BY <1>2, <1>3, <1>4, <1>5 DEF SocketInv

LEMMA AcceptStep ==
  ASSUME ThreadInv, SocketInv, AcceptConnection
  PROVE  SocketInv'
<1> DEFINE c == Head(backlog)
<1>1. PICK h \in Handles : fd' = [fd EXCEPT ![c] = h]
  BY DEF AcceptConnection
<1>2. /\ c \in Conns /\ c # Nobody /\ h # NoHandle /\ fd[c] = NoHandle /\ peer[c] # "new"
      /\ Acceptor \in Threads /\ sock[Acceptor] = Nobody
      /\ backlog' = Tail(backlog) /\ backlog' \in Seq(Conns)
      /\ \A i \in DOMAIN backlog' : \E k \in DOMAIN backlog : k = i + 1 /\ k # 1 /\ backlog'[i] = backlog[k]
      /\ 1 \in DOMAIN backlog /\ backlog[1] = c
  <2>1. backlog \in Seq(Conns) /\ backlog # <<>> /\ sock[Acceptor] = Nobody
    BY DEF AcceptConnection, SocketInv, SocketTypes, HoldInv, Holds, Threads
  <2>2. /\ c \in Conns /\ Tail(backlog) \in Seq(Conns) /\ 1 \in DOMAIN backlog /\ backlog[1] = c
        /\ \A i \in DOMAIN Tail(backlog) : i + 1 \in DOMAIN backlog /\ Tail(backlog)[i] = backlog[i + 1]
    BY <2>1, Behead
  <2>3. \A i \in DOMAIN Tail(backlog) : i \in Nat /\ i + 1 # 1
    BY <2>2, LenProperties
  <2> QED BY <2>1, <2>2, <2>3, NamesAssumption
          DEF AcceptConnection, SocketInv, ArrivalInv, Threads, Conns
<1>3. /\ \A u \in Threads : sock'[u] = IF u = Acceptor THEN c ELSE sock[u]
      /\ \A k \in Conns : fd'[k] = IF k = c THEN h ELSE fd[k]
      /\ queue' = queue /\ peer' = peer
  BY <1>1, <1>2 DEF AcceptConnection, SocketInv, SocketTypes, pool, net
<1>4. SocketTypes'
  BY <1>1, <1>2, <1>3 DEF AcceptConnection, SocketInv, SocketTypes
<1>5. HoldInv'
  <2>1. \A t \in Threads : IF t = Acceptor THEN Holds(t)' ELSE Holds(t)' <=> Holds(t)
    BY NamesAssumption DEF AcceptConnection, Goto, Holds, AcceptorPcs, ThreadInv, PcTypes, Threads
  <2> QED BY <1>2, <1>3, <2>1 DEF SocketInv, HoldInv
<1>6. ArrivalInv'
  <2>1. \A i \in DOMAIN backlog' : backlog'[i] # c /\ backlog'[i] \in Conns
    BY <1>2, ElementOfSeq, LenProperties DEF SocketInv, ArrivalInv
  <2>2. BeforeWake' => BeforeWake
    BY DEF AcceptConnection, Goto, BeforeWake, ThreadInv, PcTypes, flags
  <2>3. \A i, j \in DOMAIN backlog' : backlog'[i] = backlog'[j] => i = j
    BY <1>2, LenProperties DEF SocketInv, ArrivalInv
  <2> QED BY <1>2, <1>3, <2>1, <2>2, <2>3 DEF SocketInv, ArrivalInv
<1>7. OwnerInv'
  <2>1. /\ \A t \in Threads : sock[t] # c
        /\ \A i \in DOMAIN queue : queue[i] # c /\ queue[i] \in Conns
    BY <1>2, ElementOfSeq, LenProperties DEF SocketInv, OwnerInv, SocketTypes
  <2>2. \A t \in Threads : sock[t] # Nobody => sock[t] \in Conns
    BY DEF SocketInv, SocketTypes
  <2>3. \A t, u \in Threads : sock'[t] # Nobody /\ sock'[t] = sock'[u] => t = u
    BY <1>3, <2>1 DEF SocketInv, OwnerInv
  <2>4. \A t \in Threads : sock'[t] # Nobody => fd'[sock'[t]] # NoHandle
    BY <1>2, <1>3, <2>1, <2>2 DEF SocketInv, OwnerInv
  <2>5. \A k \in Conns : fd'[k] # NoHandle =>
          (\E t \in Threads : sock'[t] = k) \/ (\E i \in DOMAIN queue' : queue'[i] = k)
    <3> SUFFICES ASSUME NEW k \in Conns, fd'[k] # NoHandle, k # c
                 PROVE  (\E t \in Threads : sock'[t] = k) \/ (\E i \in DOMAIN queue' : queue'[i] = k)
      BY <1>2, <1>3
    <3>1. fd[k] # NoHandle /\ k # Nobody
      BY <1>3, NamesAssumption DEF Conns
    <3> QED BY <1>2, <1>3, <3>1 DEF SocketInv, OwnerInv
  <2>6. /\ \A t \in Threads, i \in DOMAIN queue' : sock'[t] # queue'[i]
        /\ \A i \in DOMAIN queue' : fd'[queue'[i]] # NoHandle
    BY <1>3, <2>1 DEF SocketInv, OwnerInv
  <2> QED BY <1>3, <2>3, <2>4, <2>5, <2>6 DEF SocketInv, OwnerInv
<1> QED BY <1>4, <1>5, <1>6, <1>7 DEF SocketInv

LEMMA PushStep ==
  ASSUME ThreadInv, SocketInv, PushConnection
  PROVE  SocketInv'
<1> DEFINE c == sock[Acceptor]
<1>1. /\ Acceptor \in Threads /\ c \in Conns /\ c # Nobody
      /\ queue \in Seq(Conns) /\ queue' = Append(queue, c)
      /\ \A u \in Threads : sock'[u] = IF u = Acceptor THEN Nobody ELSE sock[u]
      /\ UNCHANGED <<fd, backlog, peer>>
  BY NamesAssumption
     DEF PushConnection, SocketInv, SocketTypes, HoldInv, Holds, AcceptorPcs, Threads, arrivals, net
<1>2. /\ queue' \in Seq(Conns)
      /\ \A i \in DOMAIN queue : i \in DOMAIN queue' /\ queue'[i] = queue[i]
      /\ \E n \in DOMAIN queue' :
           n \notin DOMAIN queue /\ queue'[n] = c /\ DOMAIN queue' = DOMAIN queue \cup {n}
  BY <1>1, Lengthen
<1>3. SocketTypes'
  BY <1>1, <1>2 DEF PushConnection, SocketInv, SocketTypes
<1>4. HoldInv'
  <2>1. \A t \in Threads : IF t = Acceptor THEN ~Holds(t)' ELSE Holds(t)' <=> Holds(t)
    BY NamesAssumption DEF PushConnection, Goto, Holds, ThreadInv, PcTypes, Threads
  <2> QED BY <1>1, <2>1 DEF SocketInv, HoldInv
<1>5. ArrivalInv'
  <2>1. BeforeWake' => BeforeWake
    BY DEF PushConnection, Goto, BeforeWake, ThreadInv, PcTypes, flags
  <2> QED BY <1>1, <2>1 DEF SocketInv, ArrivalInv
<1>6. OwnerInv'
  <2>1. /\ \A t \in Threads \ {Acceptor} : sock[t] # c
        /\ \A i \in DOMAIN queue : queue[i] # c
        /\ fd[c] # NoHandle
    BY <1>1 DEF SocketInv, OwnerInv
  <2>2. \A i, j \in DOMAIN queue' : queue'[i] = queue'[j] => i = j
    BY <1>2, <2>1 DEF SocketInv, OwnerInv
  <2>3. \A t \in Threads, i \in DOMAIN queue' : sock'[t] # queue'[i]
    <3>1. \A i \in DOMAIN queue : queue[i] # Nobody
      BY <1>1, ElementOfSeq, LenProperties, NamesAssumption DEF Conns
    <3> QED BY <1>1, <1>2, <2>1, <3>1 DEF SocketInv, OwnerInv
  <2>4. \A k \in Conns : fd'[k] # NoHandle =>
          (\E t \in Threads : sock'[t] = k) \/ (\E i \in DOMAIN queue' : queue'[i] = k)
    BY <1>1, <1>2 DEF SocketInv, OwnerInv
  <2> QED BY <1>1, <1>2, <2>1, <2>2, <2>3, <2>4 DEF SocketInv, OwnerInv
<1> QED BY <1>3, <1>4, <1>5, <1>6 DEF SocketInv

LEMMA TakeStep ==
  ASSUME ThreadInv, SocketInv, NEW w \in Workers, TakeConnection(w)
  PROVE  SocketInv'
<1> DEFINE c == Head(queue)
<1>1. /\ queue \in Seq(Conns) /\ queue # <<>> /\ queue' = Tail(queue)
      /\ w \in Threads /\ sock[w] = Nobody
      /\ \A u \in Threads : sock'[u] = IF u = w THEN c ELSE sock[u]
      /\ UNCHANGED <<fd, backlog, peer>>
  BY NamesAssumption
     DEF TakeConnection, SocketInv, SocketTypes, HoldInv, Holds, ServingPcs, BeginPcs, Threads, arrivals, net
<1>2. /\ c \in Conns /\ c # Nobody /\ queue' \in Seq(Conns)
      /\ 1 \in DOMAIN queue /\ c = queue[1]
      /\ \A i \in DOMAIN queue' : i \in Nat /\ i + 1 \in DOMAIN queue /\ queue'[i] = queue[i + 1] /\ i + 1 # 1
      /\ \A i \in DOMAIN queue : i # 1 => i - 1 \in DOMAIN queue' /\ queue'[i - 1] = queue[i]
  <2>1. /\ c \in Conns /\ Tail(queue) \in Seq(Conns) /\ 1 \in DOMAIN queue /\ c = queue[1]
        /\ \A i \in DOMAIN queue' : i + 1 \in DOMAIN queue /\ queue'[i] = queue[i + 1]
        /\ \A i \in DOMAIN queue : i # 1 => i - 1 \in DOMAIN queue' /\ queue'[i - 1] = queue[i]
    BY <1>1, Behead
  <2>2. \A i \in DOMAIN queue' : i \in Nat /\ i + 1 # 1
    BY <1>1, <2>1, LenProperties
  <2> QED BY <1>1, <2>1, <2>2, NamesAssumption DEF Conns
<1>3. SocketTypes'
  BY <1>1, <1>2 DEF TakeConnection, SocketInv, SocketTypes
<1>4. HoldInv'
  <2>1. \A t \in Threads : IF t = w THEN Holds(t)' ELSE Holds(t)' <=> Holds(t)
    BY NamesAssumption DEF TakeConnection, Goto, Holds, ThreadInv, PcTypes, Threads
  <2> QED BY <1>1, <1>2, <2>1 DEF SocketInv, HoldInv
<1>5. ArrivalInv'
  <2>1. BeforeWake' => BeforeWake
    BY DEF TakeConnection, Goto, BeforeWake, ThreadInv, PcTypes, flags
  <2> QED BY <1>1, <2>1 DEF SocketInv, ArrivalInv
<1>6. OwnerInv'
  <2>1. /\ \A t \in Threads : sock[t] # c
        /\ \A i \in DOMAIN queue' : queue'[i] # c
        /\ fd[c] # NoHandle
    BY <1>2 DEF SocketInv, OwnerInv
  <2>2. \A i, j \in DOMAIN queue' : queue'[i] = queue'[j] => i = j
    BY <1>2 DEF SocketInv, OwnerInv
  <2>3. \A t \in Threads, i \in DOMAIN queue' : sock'[t] # queue'[i]
    BY <1>1, <1>2, <2>1 DEF SocketInv, OwnerInv
  <2>4. ASSUME NEW k \in Conns, fd'[k] # NoHandle
        PROVE  (\E t \in Threads : sock'[t] = k) \/ (\E i \in DOMAIN queue' : queue'[i] = k)
    <3>1. fd[k] # NoHandle /\ k # Nobody
      BY <1>1, <2>4, NamesAssumption DEF Conns
    <3>2. CASE \E t \in Threads : sock[t] = k
      BY <1>1, <3>1, <3>2
    <3>3. CASE \E i \in DOMAIN queue : queue[i] = k
      <4>1. PICK i \in DOMAIN queue : queue[i] = k
        BY <3>3
      <4>2. CASE i = 1
        BY <1>1, <1>2, <4>1, <4>2
      <4>3. CASE i # 1
        <5>1. i - 1 \in DOMAIN queue' /\ queue'[i - 1] = k
          BY <1>2, <4>1, <4>3
        <5> QED BY <5>1
      <4> QED BY <4>2, <4>3
    <3> QED BY <3>1, <3>2, <3>3 DEF SocketInv, OwnerInv
  <2>5. /\ \A t, u \in Threads : sock'[t] # Nobody /\ sock'[t] = sock'[u] => t = u
        /\ \A t \in Threads : sock'[t] # Nobody => fd'[sock'[t]] # NoHandle
        /\ \A i \in DOMAIN queue' : fd'[queue'[i]] # NoHandle
    BY <1>1, <1>2, <2>1 DEF SocketInv, OwnerInv
  <2> QED BY <2>2, <2>3, <2>4, <2>5 DEF OwnerInv
<1> QED BY <1>3, <1>4, <1>5, <1>6 DEF SocketInv

LEMMA DrainStep ==
  ASSUME ThreadInv, SocketInv, DrainQueue
  PROVE  SocketInv'
<1>1. /\ \A k \in Conns : fd'[k] = IF k \in Queued THEN NoHandle ELSE fd[k]
      /\ queue' = <<>> /\ UNCHANGED <<sock, backlog, peer>>
  BY DEF DrainQueue, arrivals, net
<1>2. SocketTypes'
  BY <1>1 DEF DrainQueue, SocketInv, SocketTypes
<1>3. HoldInv'
  BY <1>1 DEF DrainQueue, Goto, SocketInv, HoldInv, Holds, ThreadInv, PcTypes
<1>4. ArrivalInv'
  <2>1. BeforeWake' => BeforeWake
    BY DEF DrainQueue, Goto, BeforeWake, ThreadInv, PcTypes, flags
  <2>2. \A i \in DOMAIN backlog : backlog[i] \in Conns
    BY ElementOfSeq, LenProperties DEF SocketInv, SocketTypes
  <2> QED BY <1>1, <2>1, <2>2 DEF SocketInv, ArrivalInv
<1>5. OwnerInv'
  <2>1. \A t \in Threads : sock[t] # Nobody => sock[t] \in Conns /\ sock[t] \notin Queued
    BY DEF SocketInv, SocketTypes, OwnerInv, Queued
  <2> QED BY <1>1, <2>1 DEF SocketInv, OwnerInv, Queued
<1> QED BY <1>2, <1>3, <1>4, <1>5 DEF SocketInv

LEMMA SocketStep == ThreadInv /\ SocketInv /\ [Next]_vars => SocketInv'
<1> SUFFICES ASSUME ThreadInv, SocketInv, [Next]_vars PROVE SocketInv'
  OBVIOUS
<1>1. CASE Calm
  BY <1>1, StillStep DEF Calm, Still
<1>2. ASSUME NEW c \in Clients, Connect(c) PROVE SocketInv'
  <2>1. c \in Conns /\ c # Waker
    BY NamesAssumption DEF Conns
  <2> QED BY <1>2, <2>1, Arrival DEF Connect, pool, sockets, flags, Holds, BeforeWake
<1>3. ASSUME NEW t \in Threads, WakeAcceptor(t) PROVE SocketInv'
  <2>1. /\ \A u \in Threads : Holds(u)' <=> Holds(u)
        /\ ~BeforeWake' /\ BeforeWake
    BY <1>3, NamesAssumption
       DEF WakeAcceptor, Goto, flags, Holds, BeforeWake, Threads, ThreadInv, PcTypes, SequenceInv,
           SequencePcs, BeginPcs, ServingPcs, AcceptorPcs, MainPcs
  <2>2. UNCHANGED <<sock, fd, queue>>
    BY <1>3 DEF WakeAcceptor, pool, sockets
  <2>3. CASE backlog' = Append(backlog, Waker) /\ peer' = [peer EXCEPT ![Waker] = "closed"]
    BY <2>1, <2>2, <2>3, Arrival DEF SocketInv, ArrivalInv, Conns
  <2>4. CASE UNCHANGED <<backlog, peer>>
    BY <2>1, <2>2, <2>4, StillStep DEF Still, SocketInv, SocketTypes
  <2> QED BY <1>3, <2>3, <2>4 DEF WakeAcceptor
<1>4. CASE SeeStopEarly \/ Refuse
  <2>1. Closes(Acceptor)
    BY <1>4, NamesAssumption
       DEF SeeStopEarly, Refuse, Closes, Goto, Holds, BeforeWake, Threads, ThreadInv, PcTypes, AcceptorPcs,
           flags, arrivals, pool, net
  <2> QED BY <2>1, ClosesStep DEF Threads
<1>5. ASSUME NEW t \in Workers \cup {Acceptor}, Release(t) PROVE SocketInv'
  <2>1. t \in Threads /\ Closes(t)
    BY <1>5, NamesAssumption
       DEF Release, Closes, Goto, Holds, BeforeWake, Threads, ThreadInv, PcTypes, AcceptorPcs, ServingPcs,
           BeginPcs, flags, arrivals, pool, net
  <2> QED BY <2>1, ClosesStep
<1>6. CASE \/ Admit \/ (\E t \in Workers \cup {Acceptor} : Erase(t)) \/ JoinAcceptor \/ JoinWorkers
           \/ ClearConnections
  <2>1. Still
    BY <1>6, NamesAssumption
       DEF Admit, Erase, JoinAcceptor, JoinWorkers, ClearConnections, Move, Goto, Still, Holds, BeforeWake,
           Threads, ThreadInv, PcTypes, AcceptorPcs, ServingPcs, BeginPcs, SocketInv, SocketTypes,
           flags, arrivals, pool, sockets, net
  <2> QED BY <2>1, StillStep
<1> QED BY <1>1, <1>2, <1>3, <1>4, <1>5, <1>6, StepsAreCalm, AcceptStep, PushStep, TakeStep, DrainStep
        DEF SocketSteps, SocketInv, SocketTypes

-----------------------------------------------------------------------------
(* Shutdown: what has been joined stays away.                              *)

JoinInv ==
  /\ pc[Main] \in {"joinWorkers", "drain", "clear", "stopped"} => pc[Acceptor] = "exited" /\ ~listening
  /\ pc[Main] \in {"drain", "clear", "stopped"} => \A w \in Workers : pc[w] = "exited"
  /\ pc[Main] \in {"clear", "stopped"} => queue = <<>>
  /\ pc[Main] = "stopped" => connections = {} /\ active = 0

LEMMA JoinStep == ThreadInv /\ SocketInv /\ JoinInv /\ [Next]_vars => JoinInv'
<1> SUFFICES ASSUME ThreadInv, SocketInv, JoinInv, [Next]_vars PROVE JoinInv'
  OBVIOUS
<1> USE NamesAssumption DEF ThreadInv, PcTypes, JoinInv, Threads, Goto, Move, BeginPcs
<1>1. CASE Calm
  BY <1>1 DEF Calm
<1>2. CASE (\E c \in Clients : Connect(c)) \/ AcceptConnection \/ SeeStopEarly \/ Refuse \/ Admit
  BY <1>2 DEF Connect, AcceptConnection, SeeStopEarly, Refuse, Admit, pool, registry, arrivals
<1>3. ASSUME NEW t \in Threads, WakeAcceptor(t) PROVE JoinInv'
  BY <1>3 DEF WakeAcceptor, pool, registry
<1>4. ASSUME NEW t \in Workers \cup {Acceptor}, Erase(t) \/ Release(t) PROVE JoinInv'
  BY <1>4 DEF Erase, Release, pool, registry, arrivals
<1>5. CASE PushConnection \/ \E w \in Workers : TakeConnection(w)
  BY <1>5 DEF PushConnection, TakeConnection, registry, arrivals
<1>6. CASE JoinAcceptor \/ JoinWorkers \/ DrainQueue \/ ClearConnections
  BY <1>6 DEF JoinAcceptor, JoinWorkers, DrainQueue, ClearConnections, pool, registry, arrivals
<1> QED BY <1>1, <1>2, <1>3, <1>4, <1>5, <1>6, StepsAreCalm DEF SocketSteps, SocketInv, SocketTypes

-----------------------------------------------------------------------------
(* Admission: what is counted is what is registered.                       *)

HandleInv == \A c, d \in Conns : fd[c] # NoHandle /\ fd[c] = fd[d] => c = d

CountInv ==
  pc[Main] \notin {"clear", "stopped"} =>
    /\ IsFiniteSet(Admitted)
    /\ connections = {fd[c] : c \in Admitted}
    /\ active = Cardinality(Admitted)

Registered(c) ==
  \/ \E i \in DOMAIN queue : queue[i] = c
  \/ \E t \in Threads : sock[t] = c /\ Counted(t)

LEMMA AdmittedAreRegistered ==
  /\ SocketTypes => Admitted = {c \in Conns : Registered(c)}
  /\ SocketTypes' => Admitted' = {c \in Conns : Registered(c)'}
<1>1. ASSUME SocketTypes PROVE Admitted = {c \in Conns : Registered(c)}
  <2>1. \A i \in DOMAIN queue : queue[i] \in Conns
    BY <1>1, ElementOfSeq, LenProperties DEF SocketTypes
  <2> QED BY <2>1 DEF Admitted, Queued, Registered, Counted
<1>2. ASSUME SocketTypes' PROVE Admitted' = {c \in Conns : Registered(c)'}
  <2>1. \A i \in DOMAIN queue' : queue'[i] \in Conns
    BY <1>2, ElementOfSeq, LenProperties DEF SocketTypes
  <2> QED BY <2>1 DEF Admitted, Queued, Registered, Counted
<1> QED BY <1>1, <1>2

\* A step that registers nothing, and gives or takes handles elsewhere.
LEMMA SameAdmitted ==
  ASSUME SocketTypes, SocketTypes', CountInv, UNCHANGED registry,
         pc'[Main] \in {"clear", "stopped"} \/ pc[Main] \notin {"clear", "stopped"},
         \A c \in Conns : /\ Registered(c)' <=> Registered(c)
                          /\ Registered(c) => fd'[c] = fd[c]
  PROVE  CountInv'
<1>1. Admitted' = Admitted /\ \A c \in Admitted : c \in Conns /\ fd'[c] = fd[c]
  BY AdmittedAreRegistered
<1> QED BY <1>1 DEF CountInv, registry

LEMMA CountStep ==
  ThreadInv /\ SocketInv /\ HandleInv /\ CountInv /\ [Next]_vars => HandleInv' /\ CountInv'
<1> SUFFICES ASSUME ThreadInv, SocketInv, HandleInv, CountInv, [Next]_vars
             PROVE  HandleInv' /\ CountInv'
  OBVIOUS
<1>0. SocketTypes /\ SocketTypes' /\ OwnerInv
  BY SocketStep DEF SocketInv
<1> DEFINE Early == pc[Main] \notin {"clear", "stopped"}
           EarlyStays == pc'[Main] \in {"clear", "stopped"} \/ Early
<1>1. CASE Calm
  <2>1. EarlyStays
    BY <1>1 DEF Calm, BeginPcs
  <2>2. \A c \in Conns : Registered(c)' <=> Registered(c)
    BY <1>1 DEF Calm, Registered
  <2> QED BY <1>0, <1>1, <2>1, <2>2, SameAdmitted DEF Calm, HandleInv, registry
<1>2. CASE (\E c \in Clients : Connect(c)) \/ (\E t \in Threads : WakeAcceptor(t))
           \/ JoinAcceptor \/ JoinWorkers
  <2>1. /\ UNCHANGED <<sock, fd, queue>> /\ UNCHANGED registry
        /\ \A t \in Threads : Counted(t)' <=> Counted(t)
        /\ EarlyStays
    BY <1>2, NamesAssumption
       DEF Connect, WakeAcceptor, JoinAcceptor, JoinWorkers, Move, Goto, pool, sockets, Counted,
           ThreadInv, PcTypes, Threads
  <2>2. \A c \in Conns : Registered(c)' <=> Registered(c)
    BY <2>1 DEF Registered
  <2> QED BY <1>0, <2>1, <2>2, SameAdmitted DEF HandleInv
<1>3. CASE AcceptConnection
  <2>1. PICK h \in Handles \ {fd[c] : c \in Conns} : fd' = [fd EXCEPT ![Head(backlog)] = h]
    BY <1>3 DEF AcceptConnection
  <2>2. /\ Head(backlog) \in Conns /\ fd[Head(backlog)] = NoHandle
        /\ \A t \in Threads : sock[t] # Head(backlog)
        /\ \A i \in DOMAIN queue : queue[i] # Head(backlog)
        /\ sock[Acceptor] = Nobody
    <3>1. Head(backlog) \in Conns /\ 1 \in DOMAIN backlog /\ Head(backlog) = backlog[1]
      BY <1>0, <1>3, Behead DEF AcceptConnection, SocketTypes
    <3> QED BY <1>3, <3>1, NamesAssumption
            DEF AcceptConnection, SocketInv, ArrivalInv, OwnerInv, HoldInv, Holds, Threads, Conns
  <2>3. /\ \A k \in Conns : fd'[k] = IF k = Head(backlog) THEN h ELSE fd[k]
        /\ \A t \in Threads : sock'[t] = IF t = Acceptor THEN Head(backlog) ELSE sock[t]
        /\ \A t \in Threads : Counted(t)' <=> t # Acceptor /\ Counted(t)
        /\ EarlyStays /\ UNCHANGED registry /\ queue' = queue
    BY <1>0, <1>3, <2>1, <2>2, NamesAssumption
       DEF AcceptConnection, SocketTypes, Goto, Counted, ThreadInv, PcTypes, Threads, pool
  <2>4. HandleInv'
    BY <2>1, <2>2, <2>3 DEF HandleInv
  <2>5. \A c \in Conns : /\ Registered(c)' <=> Registered(c)
                         /\ Registered(c) => fd'[c] = fd[c]
    BY <2>2, <2>3, NamesAssumption DEF Registered, Conns
  <2> QED BY <1>0, <2>3, <2>4, <2>5, SameAdmitted
<1>4. ASSUME NEW t \in Workers \cup {Acceptor},
             Release(t) \/ (t = Acceptor /\ (SeeStopEarly \/ Refuse))
      PROVE  HandleInv' /\ CountInv'
  <2>1. /\ t \in Threads /\ sock[t] \in Conns /\ ~Counted(t)
        /\ \A u \in Threads : sock'[u] = IF u = t THEN Nobody ELSE sock[u]
        /\ \A k \in Conns : fd'[k] = IF k = sock[t] THEN NoHandle ELSE fd[k]
        /\ \A u \in Threads : u # t => (Counted(u)' <=> Counted(u))
        /\ EarlyStays /\ UNCHANGED registry /\ queue' = queue
    BY <1>0, <1>4, NamesAssumption
       DEF Release, SeeStopEarly, Refuse, CloseSocket, SocketTypes, SocketInv, HoldInv, Holds, AcceptorPcs,
           Goto, Counted, ThreadInv, PcTypes, Threads, pool
  <2>2. HandleInv'
    BY <2>1 DEF HandleInv
  <2>3. ASSUME NEW c \in Conns
        PROVE  /\ Registered(c)' <=> Registered(c)
               /\ Registered(c) => fd'[c] = fd[c]
    <3>1. c # Nobody
      BY NamesAssumption DEF Conns
    <3> QED BY <1>0, <2>1, <3>1 DEF Registered, OwnerInv
  <2> QED BY <1>0, <2>1, <2>2, <2>3, SameAdmitted
<1>5. CASE PushConnection
  <2>1. /\ Acceptor \in Threads /\ sock[Acceptor] \in Conns /\ Counted(Acceptor)
        /\ queue \in Seq(Conns) /\ queue' = Append(queue, sock[Acceptor])
        /\ \A u \in Threads : sock'[u] = IF u = Acceptor THEN Nobody ELSE sock[u]
        /\ \A u \in Threads : Counted(u)' <=> Counted(u)
        /\ EarlyStays /\ UNCHANGED registry /\ fd' = fd
    BY <1>0, <1>5, NamesAssumption
       DEF PushConnection, SocketTypes, SocketInv, HoldInv, Holds, AcceptorPcs, Goto, Counted, ThreadInv,
           PcTypes, Threads
  <2>2. /\ \A i \in DOMAIN queue : i \in DOMAIN queue' /\ queue'[i] = queue[i]
        /\ \E n \in DOMAIN queue' : queue'[n] = sock[Acceptor] /\ DOMAIN queue' = DOMAIN queue \cup {n}
    BY <2>1, Lengthen
  <2>3. ASSUME NEW c \in Conns PROVE Registered(c)' <=> Registered(c)
    <3>1. c # Nobody
      BY NamesAssumption DEF Conns
    <3> QED BY <2>1, <2>2, <3>1 DEF Registered
  <2> QED BY <1>0, <2>1, <2>3, SameAdmitted DEF HandleInv
<1>6. ASSUME NEW w \in Workers, TakeConnection(w) PROVE HandleInv' /\ CountInv'
  <2>1. /\ w \in Threads /\ sock[w] = Nobody /\ Counted(w)'
        /\ queue \in Seq(Conns) /\ queue # <<>> /\ queue' = Tail(queue)
        /\ \A u \in Threads : sock'[u] = IF u = w THEN Head(queue) ELSE sock[u]
        /\ \A u \in Threads : Counted(u)' <=> Counted(u)
        /\ EarlyStays /\ UNCHANGED registry /\ fd' = fd
    BY <1>0, <1>6, NamesAssumption
       DEF TakeConnection, SocketTypes, SocketInv, HoldInv, Holds, ServingPcs, BeginPcs, Goto, Counted,
           ThreadInv, PcTypes, Threads
  <2>2. /\ 1 \in DOMAIN queue /\ Head(queue) = queue[1]
        /\ \A i \in DOMAIN queue' : i + 1 \in DOMAIN queue /\ queue'[i] = queue[i + 1]
        /\ \A i \in DOMAIN queue : i # 1 => i - 1 \in DOMAIN queue' /\ queue'[i - 1] = queue[i]
    BY <2>1, Behead
  <2>3. ASSUME NEW c \in Conns PROVE Registered(c)' <=> Registered(c)
    <3>1. c # Nobody
      BY NamesAssumption DEF Conns
    <3>2. (\E i \in DOMAIN queue : queue[i] = c)
            <=> c = Head(queue) \/ (\E i \in DOMAIN queue' : queue'[i] = c)
      BY <2>2
    <3>3. (\E t \in Threads : sock'[t] = c /\ Counted(t)')
            <=> c = Head(queue) \/ (\E t \in Threads : sock[t] = c /\ Counted(t))
      BY <2>1, <3>1
    <3> QED BY <3>2, <3>3 DEF Registered
  <2> QED BY <1>0, <2>1, <2>3, SameAdmitted DEF HandleInv
<1>7. CASE Admit
  <2>1. /\ Acceptor \in Threads /\ sock[Acceptor] \in Conns /\ ~Counted(Acceptor) /\ Counted(Acceptor)'
        /\ \A u \in Threads : u # Acceptor => (Counted(u)' <=> Counted(u))
        /\ UNCHANGED <<sock, fd, queue>> /\ pc'[Main] = pc[Main]
        /\ connections' = connections \cup {fd[sock[Acceptor]]} /\ active' = active + 1
    BY <1>0, <1>7, NamesAssumption
       DEF Admit, SocketTypes, SocketInv, HoldInv, Holds, AcceptorPcs, Goto, Counted, ThreadInv, PcTypes,
           Threads, sockets
  <2>2. \A c \in Conns : /\ Registered(c)' <=> Registered(c) \/ c = sock[Acceptor]
                         /\ c = sock[Acceptor] => ~Registered(c)
    BY <1>0, <2>1, NamesAssumption DEF Registered, OwnerInv, Conns
  <2>3. Admitted' = Admitted \cup {sock[Acceptor]} /\ sock[Acceptor] \notin Admitted
    BY <1>0, <2>1, <2>2, AdmittedAreRegistered
  <2>4. CountInv'
    BY <2>1, <2>3, FS_AddElement DEF CountInv
  <2> QED BY <2>1, <2>4 DEF HandleInv
<1>8. ASSUME NEW t \in Workers \cup {Acceptor}, Erase(t) PROVE HandleInv' /\ CountInv'
  <2>1. /\ t \in Threads /\ sock[t] \in Conns /\ Counted(t) /\ ~Counted(t)'
        /\ \A u \in Threads : u # t => (Counted(u)' <=> Counted(u))
        /\ UNCHANGED <<sock, fd, queue>> /\ pc'[Main] = pc[Main]
    BY <1>0, <1>8, NamesAssumption
       DEF Erase, SocketTypes, SocketInv, HoldInv, Holds, AcceptorPcs, ServingPcs, Goto, Counted, ThreadInv,
           PcTypes, Threads, sockets
  <2>2. \A c \in Conns : /\ Registered(c)' <=> Registered(c) /\ c # sock[t]
                         /\ c = sock[t] => Registered(c)
    BY <1>0, <2>1, NamesAssumption DEF Registered, OwnerInv, Conns
  <2>3. Admitted' = Admitted \ {sock[t]} /\ sock[t] \in Admitted /\ Admitted \subseteq Conns
    BY <1>0, <2>1, <2>2, AdmittedAreRegistered
  <2>4. ASSUME pc'[Main] \notin {"clear", "stopped"}
        PROVE  /\ IsFiniteSet(Admitted') /\ connections' = {fd'[c] : c \in Admitted'}
               /\ active' = Cardinality(Admitted')
    <3>1. /\ IsFiniteSet(Admitted) /\ connections = {fd[c] : c \in Admitted}
          /\ active = Cardinality(Admitted)
      BY <2>1, <2>4 DEF CountInv
    <3>2. IsFiniteSet(Admitted') /\ Cardinality(Admitted') = active - 1
      BY <2>3, <3>1, FS_RemoveElement
    <3>3. active > 0 /\ fd[sock[t]] \in connections
      BY <2>3, <3>1, FS_EmptySet, FS_CardinalityType
    <3>4. connections' = connections \ {fd[sock[t]]} /\ active' = active - 1
      BY <1>8, <3>3 DEF Erase
    <3>5. fd[sock[t]] # NoHandle
      BY <1>0, <2>1, NamesAssumption DEF OwnerInv, Conns
    <3>6. \A c \in Admitted : fd[c] = fd[sock[t]] => c = sock[t]
      BY <2>1, <2>3, <3>5 DEF HandleInv
    <3> QED BY <2>1, <2>3, <3>1, <3>2, <3>4, <3>6
  <2> QED BY <2>1, <2>4 DEF HandleInv, CountInv
<1>9. CASE DrainQueue
  BY <1>9, NamesAssumption DEF DrainQueue, Goto, ThreadInv, PcTypes, Threads, HandleInv, CountInv
<1>10. CASE ClearConnections
  BY <1>10, NamesAssumption DEF ClearConnections, Goto, ThreadInv, PcTypes, Threads, HandleInv, CountInv, sockets
<1> QED BY <1>1, <1>2, <1>3, <1>4, <1>5, <1>6, <1>7, <1>8, <1>9, <1>10, StepsAreCalm
        DEF SocketSteps, SocketInv, SocketTypes
-----------------------------------------------------------------------------
(* The invariant, and what follows from it.                                *)

ServerInv == ThreadInv /\ SocketInv /\ JoinInv /\ HandleInv /\ CountInv

LEMMA ServerInit == Init => ServerInv
<1> SUFFICES ASSUME Init PROVE ServerInv
  OBVIOUS
<1>1. JoinInv /\ HandleInv
  BY NamesAssumption DEF Init, JoinInv, HandleInv, Threads
<1>2. CountInv
  <2>1. Admitted = {}
    BY NamesAssumption DEF Init, Admitted, Queued, Threads, Conns
  <2> QED BY <2>1, FS_EmptySet DEF Init, CountInv
<1> QED BY <1>1, <1>2, ThreadInit, SocketInit DEF ServerInv

LEMMA ServerAlways == Spec => []ServerInv
<1>1. ServerInv /\ [Next]_vars => ServerInv'
  BY ThreadStep, SocketStep, JoinStep, CountStep DEF ServerInv
<1> QED BY <1>1, ServerInit, PTL DEF Spec

\* Every open socket has one owner, a thread or a place in the queue, and a
\* closed one none, however accepting, queueing, taking and closing interleave
\* (TakeConnection, PushConnection, Release, DrainQueue).
THEOREM OneOwner == Spec => []SocketsHaveOneOwner
<1>1. ServerInv => SocketsHaveOneOwner
  <2> SUFFICES ASSUME ServerInv, NEW c \in Conns
               PROVE  Cardinality({t \in Threads : sock[t] = c})
                        + Cardinality({i \in DOMAIN queue : queue[i] = c})
                      = (IF fd[c] # NoHandle THEN 1 ELSE 0)
    BY DEF SocketsHaveOneOwner
  <2> DEFINE T == {t \in Threads : sock[t] = c}
             Q == {i \in DOMAIN queue : queue[i] = c}
  <2>1. OwnerInv /\ c # Nobody
    BY NamesAssumption DEF ServerInv, SocketInv, Conns
  <2>2. CASE fd[c] = NoHandle
    <3>1. T = {} /\ Q = {}
      BY <2>1, <2>2 DEF OwnerInv
    <3> QED BY <2>2, <3>1, FS_EmptySet
  <2>3. CASE fd[c] # NoHandle
    <3>1. CASE \E t \in Threads : sock[t] = c
      <4>1. PICK t \in Threads : sock[t] = c
        BY <3>1
      <4>2. T = {t} /\ Q = {}
        BY <2>1, <4>1 DEF OwnerInv
      <4>3. Cardinality(T) = 1 /\ Cardinality(Q) = 0
        BY <4>2, FS_EmptySet, FS_Singleton
      <4> QED BY <2>3, <4>3
    <3>2. CASE \E i \in DOMAIN queue : queue[i] = c
      <4>1. PICK i \in DOMAIN queue : queue[i] = c
        BY <3>2
      <4>2. T = {} /\ Q = {i}
        BY <2>1, <4>1 DEF OwnerInv
      <4>3. Cardinality(T) = 0 /\ Cardinality(Q) = 1
        BY <4>2, FS_EmptySet, FS_Singleton
      <4> QED BY <2>3, <4>3
    <3> QED BY <2>1, <2>3, <3>1, <3>2 DEF OwnerInv
  <2> QED BY <2>2, <2>3
<1> QED BY <1>1, ServerAlways, PTL

\* The registry of connections and its counter agree with the sockets that are
\* admitted, although closed handles are used again (AcceptorLoop,
\* UnregisterConnection).
THEOREM CountIsExact == Spec => []CountsAdmitted
<1>1. ServerInv => CountsAdmitted
  BY DEF ServerInv, CountInv, CountsAdmitted
<1> QED BY <1>1, ServerAlways, PTL

\* queue_mutex_ and connections_mutex_ are never waited for in a circle, with
\* the nested acquisition of a full queue (EnqueueConnection,
\* UnregisterConnection).
THEOREM NoMutexCircle == Spec => []MutexesDoNotDeadlock
<1>1. ServerInv => MutexesDoNotDeadlock
  BY DEF ServerInv, ThreadInv, MutexInv, MutexesDoNotDeadlock, Awaits
<1> QED BY <1>1, ServerAlways, PTL

\* on_shutdown_request is called once, however many workers and the main
\* thread race into BeginShutdown (Exchange, Callback).
THEOREM OneCallback == Spec => []CalledBackOnce
<1>1. ServerInv => CalledBackOnce
  BY DEF ServerInv, ThreadInv, SequenceInv, CalledBackOnce
<1> QED BY <1>1, ServerAlways, PTL

\* When Shutdown returns no socket is open, nothing is queued or registered and
\* no thread runs (Shutdown, JoinAcceptor, JoinWorkers, DrainQueue).
THEOREM NothingIsLeft == Spec => []NothingLeftBehind
<1>1. ServerInv => NothingLeftBehind
  <2> SUFFICES ASSUME ServerInv, pc[Main] = "stopped"
               PROVE  /\ \A c \in Conns : fd[c] = NoHandle
                      /\ queue = <<>> /\ connections = {} /\ active = 0 /\ ~listening
                      /\ \A t \in Threads \ {Main} : pc[t] = "exited"
    BY DEF NothingLeftBehind
  <2>1. /\ queue = <<>> /\ connections = {} /\ active = 0 /\ ~listening
        /\ \A t \in Threads \ {Main} : pc[t] = "exited"
    BY DEF ServerInv, JoinInv, Threads
  <2>2. \A t \in Threads : sock[t] = Nobody
    BY <2>1, NamesAssumption DEF ServerInv, SocketInv, HoldInv, Holds, ServingPcs, BeginPcs, Threads
  <2>3. DOMAIN queue = {}
    BY <2>1
  <2>4. \A c \in Conns : fd[c] = NoHandle
    BY <2>2, <2>3, NamesAssumption DEF ServerInv, SocketInv, OwnerInv, Conns
  <2> QED BY <2>1, <2>4
<1> QED BY <1>1, ServerAlways, PTL

-----------------------------------------------------------------------------
(* Types: the parts that the invariants above do not give.                  *)

SharedTypes ==
  /\ cancelled \in BOOLEAN /\ listening \in BOOLEAN
  /\ wakeups \in SUBSET Workers /\ unwoken \in SUBSET Workers
  /\ connections \in SUBSET Handles /\ active \in 0..MaxConnections
  /\ qlock \in Threads \cup {Nobody} /\ clock \in Threads \cup {Nobody}

NetTypes ==
  /\ inbox \in [Conns -> Seq(Kinds)]
  /\ sent \in [Conns -> 0..MaxFrames]
  /\ unread \in [Conns -> 0..SendBuffer]

LEMMA TypesInit == Init => SharedTypes /\ NetTypes
<1> SUFFICES ASSUME Init PROVE SharedTypes /\ NetTypes
  OBVIOUS
<1>1. <<>> \in Seq(Kinds)
  BY EmptySeq
<1>2. SharedTypes
  <2>1. 0 \in 0..MaxConnections
    BY LimitsAssumption
  <2> QED BY <2>1, Zenon DEF Init, SharedTypes
<1>3. NetTypes
  BY <1>1, LimitsAssumption DEF Init, NetTypes
<1> QED BY <1>2, <1>3

LEMMA TypesStep == ServerInv /\ SharedTypes /\ NetTypes /\ [Next]_vars => SharedTypes' /\ NetTypes'
<1> SUFFICES ASSUME ServerInv, SharedTypes, NetTypes, [Next]_vars PROVE SharedTypes' /\ NetTypes'
  OBVIOUS
<1>0. ThreadInv /\ SocketTypes /\ HoldInv /\ OwnerInv
  BY DEF ServerInv, SocketInv
<1> USE LimitsAssumption, NamesAssumption
        DEF SharedTypes, NetTypes, Threads, Goto, Move, AcquireQueue, AcquireRegistry, flags, mutexes, net,
            registry, arrivals, pool
<1>1. ASSUME Peers PROVE SharedTypes' /\ NetTypes'
  <2>1. ASSUME NEW c \in Clients, NEW kind \in Kinds, SendFrame(c, kind) PROVE SharedTypes' /\ NetTypes'
    BY <2>1, Lengthen DEF SendFrame, Conns
  <2> QED BY <1>1, <2>1 DEF Peers, Connect, ReadReplies, Hangup
<1>2. ASSUME AcceptorSteps \/ AcceptFails PROVE SharedTypes' /\ NetTypes'
  <2>1. CASE AcceptConnection BY <2>1 DEF AcceptConnection
  <2>2. CASE SeeStopEarly     BY <2>2 DEF SeeStopEarly
  <2>3. CASE StartAdmission   BY <2>3 DEF StartAdmission
  <2>4. CASE LockAdmission    BY <2>4 DEF LockAdmission
  <2>5. CASE Refuse           BY <2>5 DEF Refuse
  <2>6. CASE Admit
    <3>1. sock[Acceptor] \in Conns /\ sock[Acceptor] # Nobody
      BY <1>0, <2>6 DEF Admit, SocketTypes, HoldInv, Holds, AcceptorPcs
    <3>2. fd[sock[Acceptor]] \in Handles
      BY <1>0, <3>1 DEF SocketTypes, OwnerInv
    <3> QED BY <2>6, <3>2 DEF Admit, HasRoom
  <2>7. CASE RecheckStop      BY <2>7 DEF RecheckStop
  <2>8. CASE LockQueue        BY <2>8 DEF LockQueue
  <2>9. CASE Overflow         BY <2>9 DEF Overflow
  <2>10. CASE PushConnection  BY <2>10 DEF PushConnection
  <2>11. CASE NotifyOne       BY <2>11 DEF NotifyOne
  <2>12. CASE LockRegistry(Acceptor) BY <2>12 DEF LockRegistry
  <2>13. CASE Erase(Acceptor)   BY <2>13 DEF Erase
  <2>14. CASE Release(Acceptor) BY <2>14 DEF Release
  <2>15. CASE AcceptFails     BY <2>15 DEF AcceptFails
  <2> QED BY <1>2, <2>1, <2>2, <2>3, <2>4, <2>5, <2>6, <2>7, <2>8, <2>9, <2>10, <2>11, <2>12, <2>13,
             <2>14, <2>15 DEF AcceptorSteps
<1>3. ASSUME NEW t \in Workers \cup {Main}, BeginShutdown(t) PROVE SharedTypes' /\ NetTypes'
  BY <1>3 DEF BeginShutdown, Exchange, CancelToken, WakeAcceptor, WakeWorker, NotifyAll, Callback
<1>4. ASSUME NEW w \in Workers, WorkerSteps(w) PROVE SharedTypes' /\ NetTypes'
  <2>1. CASE LockLoop(w)       BY <2>1 DEF LockLoop
  <2>2. CASE FindNothing(w) \/ Block(w) \/ LeaveLoop(w) BY <2>2 DEF FindNothing, Block, LeaveLoop
  <2>3. CASE TakeConnection(w) BY <2>3 DEF TakeConnection
  <2>4. CASE CheckStop(w) \/ ReadCancelled(w) \/ ReadEnd(w) \/ Loop(w)
    BY <2>4 DEF CheckStop, ReadCancelled, ReadEnd, Loop
  <2>5. CASE ReadFrame(w)
    <3>1. sock[w] \in Conns
      BY <1>0, <2>5 DEF ReadFrame, SocketTypes, HoldInv, Holds, ServingPcs
    <3>2. Tail(inbox[sock[w]]) \in Seq(Kinds)
      BY <2>5, <3>1, Behead DEF ReadFrame
    <3> QED BY <2>5, <3>2 DEF ReadFrame
  <2>6. CASE SendReply(w) \/ SendFails(w) BY <2>6 DEF SendReply, SendFails
  <2>7. CASE LockRegistry(w)  BY <2>7 DEF LockRegistry
  <2>8. CASE Erase(w)         BY <2>8 DEF Erase
  <2>9. CASE Release(w)       BY <2>9 DEF Release
  <2> QED BY <1>3, <1>4, <2>1, <2>2, <2>3, <2>4, <2>5, <2>6, <2>7, <2>8, <2>9 DEF WorkerSteps
<1>5. CASE CallShutdown \/ JoinAcceptor \/ JoinWorkers \/ DrainQueue \/ ClearConnections
  <2>1. CASE CallShutdown     BY <2>1 DEF CallShutdown
  <2>2. CASE JoinAcceptor     BY <2>2 DEF JoinAcceptor
  <2>3. CASE JoinWorkers      BY <2>3 DEF JoinWorkers
  <2>4. CASE DrainQueue       BY <2>4 DEF DrainQueue
  <2>5. CASE ClearConnections BY <2>5 DEF ClearConnections
  <2> QED BY <1>5, <2>1, <2>2, <2>3, <2>4, <2>5
<1>6. CASE UNCHANGED vars
  BY <1>6 DEF vars
<1> QED BY <1>1, <1>2, <1>3, <1>4, <1>5, <1>6 DEF Next, MainSteps

\* The server's state keeps its types; in particular no more connections are
\* counted than max_connections allows (AcceptorLoop).
THEOREM TypesHold == Spec => []TypeOK
<1>1. Init => ServerInv /\ SharedTypes /\ NetTypes
  BY ServerInit, TypesInit
<1>2. ServerInv /\ SharedTypes /\ NetTypes /\ [Next]_vars => (ServerInv /\ SharedTypes /\ NetTypes)'
  BY ThreadStep, SocketStep, JoinStep, CountStep, TypesStep DEF ServerInv
<1>3. ServerInv /\ SharedTypes /\ NetTypes => TypeOK
  BY DEF ServerInv, ThreadInv, PcTypes, SequenceInv, SocketInv, SocketTypes, SharedTypes, NetTypes, TypeOK
<1> QED BY <1>1, <1>2, <1>3, PTL DEF Spec

-----------------------------------------------------------------------------
(* Queued work: no notification is lost.                                    *)

\* Workers on their way to the queue: they look at it before they next sleep.
Coming == {w \in Workers : pc[w] \in {"idle", "checking"}}

\* Who looks at the queue or changes it holds queue_mutex_, so a worker that has
\* found the queue empty still finds it so when it blocks.
WaitInv ==
  /\ \A t \in Threads : pc[t] \in {"checking", "blocking", "pushing"} => qlock = t
  /\ \A w \in Workers : pc[w] = "blocking" => queue = <<>>

\* What neither adds work nor sends a worker to sleep.
Undisturbed ==
  /\ queue' = queue
  /\ Waiting' \subseteq Waiting /\ Coming \subseteq Coming'
  /\ pc[Acceptor] = "notify" => pc'[Acceptor] = "notify"

LEMMA SomeCome ==
  /\ IsFiniteSet(Coming) /\ Cardinality(Coming) \in Nat
  /\ IsFiniteSet(Coming') /\ Cardinality(Coming') \in Nat
<1>1. IsFiniteSet(Coming) /\ IsFiniteSet(Coming')
  BY WorkersAssumption, FS_Subset DEF Coming
<1> QED BY <1>1, FS_CardinalityType

LEMMA UndisturbedStep ==
  ASSUME QueuedWorkIsNoticed, Undisturbed, queue \in Seq(Conns)
  PROVE  QueuedWorkIsNoticed'
<1> SUFFICES ASSUME Waiting' # {}
             PROVE  Len(queue) <= Cardinality(Coming') + (IF pc'[Acceptor] = "notify" THEN 1 ELSE 0)
  BY DEF QueuedWorkIsNoticed, Undisturbed, Coming
<1>1. Len(queue) <= Cardinality(Coming) + (IF pc[Acceptor] = "notify" THEN 1 ELSE 0)
  BY DEF QueuedWorkIsNoticed, Undisturbed, Coming
<1>2. Cardinality(Coming) <= Cardinality(Coming')
  BY SomeCome, FS_Subset DEF Undisturbed
<1>3. Len(queue) \in Nat
  BY LenProperties
<1> QED BY <1>1, <1>2, <1>3, SomeCome DEF Undisturbed

LEMMA EmptiedStep == ASSUME queue' = <<>> PROVE QueuedWorkIsNoticed'
<1>1. Len(queue') = 0
  OBVIOUS
<1> QED BY <1>1, SomeCome DEF QueuedWorkIsNoticed, Coming

\* One worker more or less on its way counts for one connection.
LEMMA OneMoreComes ==
  ASSUME NEW w \in Workers, w \notin Coming, Coming' = Coming \cup {w}
  PROVE  Cardinality(Coming') = Cardinality(Coming) + 1
BY SomeCome, FS_AddElement

LEMMA OneLessComes ==
  ASSUME NEW w \in Workers, w \in Coming, Coming' = Coming \ {w}
  PROVE  Cardinality(Coming') = Cardinality(Coming) - 1
BY SomeCome, FS_RemoveElement

LEMMA NoticedStep ==
  ThreadInv /\ SocketInv /\ WaitInv /\ QueuedWorkIsNoticed /\ [Next]_vars => QueuedWorkIsNoticed'
<1> SUFFICES ASSUME ThreadInv, SocketInv, WaitInv, QueuedWorkIsNoticed, [Next]_vars
             PROVE  QueuedWorkIsNoticed'
  OBVIOUS
<1>0. queue \in Seq(Conns)
  BY DEF SocketInv, SocketTypes
<1>1. ASSUME NEW w \in Workers, TakeConnection(w) PROVE QueuedWorkIsNoticed'
  <2>1. Len(queue) \in Nat /\ Len(queue') = Len(queue) - 1
    BY <1>0, <1>1, HeadTailProperties, LenProperties DEF TakeConnection
  <2>2. /\ w \in Coming /\ Coming' = Coming \ {w} /\ Waiting' = Waiting
        /\ pc'[Acceptor] = pc[Acceptor]
    BY <1>1, NamesAssumption
       DEF TakeConnection, Goto, Coming, Waiting, ThreadInv, PcTypes, Threads
  <2>3. Cardinality(Coming') = Cardinality(Coming) - 1
    BY <2>2, OneLessComes
  <2> QED BY <2>1, <2>2, <2>3, SomeCome DEF QueuedWorkIsNoticed, Coming
<1>2. CASE PushConnection
  <2>1. Len(queue) \in Nat /\ Len(queue') = Len(queue) + 1
    <3>1. sock[Acceptor] \in Conns
      BY <1>2, NamesAssumption
         DEF PushConnection, SocketInv, SocketTypes, HoldInv, Holds, Threads, AcceptorPcs
    <3> QED BY <1>0, <1>2, <3>1, AppendProperties, LenProperties DEF PushConnection
  <2>2. /\ Coming' = Coming /\ Waiting' = Waiting
        /\ pc[Acceptor] # "notify" /\ pc'[Acceptor] = "notify"
    BY <1>2, NamesAssumption
       DEF PushConnection, Goto, Coming, Waiting, ThreadInv, PcTypes, Threads
  <2>3. Waiting # {} => Len(queue) <= Cardinality(Coming)
    BY <2>2, SomeCome DEF QueuedWorkIsNoticed, Coming
  <2>4. Waiting' # {} => Len(queue') <= Cardinality(Coming') + 1
    BY <2>1, <2>2, <2>3, SomeCome
  <2> QED BY <2>2, <2>4 DEF QueuedWorkIsNoticed, Coming
<1>3. CASE NotifyOne
  <2>1. CASE Waiting = {}
    <3>1. Waiting' = {}
      BY <1>3, <2>1, NamesAssumption DEF NotifyOne, Goto, Waiting, ThreadInv, PcTypes, Threads
    <3> QED BY <3>1 DEF QueuedWorkIsNoticed
  <2>2. CASE Waiting # {}
    <3>1. PICK w \in Waiting : pc' = [pc EXCEPT ![Acceptor] = "accept", ![w] = "idle"]
      BY <1>3, <2>2 DEF NotifyOne
    <3>2. /\ w \in Workers /\ w \notin Coming /\ Coming' = Coming \cup {w}
          /\ pc[Acceptor] = "notify" /\ pc'[Acceptor] = "accept"
      BY <1>3, <3>1, NamesAssumption
         DEF NotifyOne, Coming, Waiting, ThreadInv, PcTypes, Threads
    <3>3. Cardinality(Coming') = Cardinality(Coming) + 1
      BY <3>2, OneMoreComes
    <3>4. Len(queue) \in Nat /\ queue' = queue
      BY <1>0, <1>3, LenProperties DEF NotifyOne, pool
    <3> QED BY <2>2, <3>2, <3>3, <3>4, SomeCome DEF QueuedWorkIsNoticed, Coming
  <2> QED BY <2>1, <2>2
<1>4. ASSUME NEW w \in Workers, FindNothing(w) \/ Block(w) \/ LeaveLoop(w) PROVE QueuedWorkIsNoticed'
  <2>1. queue' = <<>>
    BY <1>4 DEF FindNothing, Block, LeaveLoop, Move, pool, WaitInv
  <2> QED BY <2>1, EmptiedStep
<1>5. CASE DrainQueue
  BY <1>5, EmptiedStep DEF DrainQueue
<1> USE NamesAssumption
        DEF ThreadInv, PcTypes, Threads, Undisturbed, Coming, Waiting, Goto, Move, AcquireQueue,
            AcquireRegistry, BeginPcs, MainPcs, pool
<1>6. CASE Peers \/ CallShutdown \/ JoinAcceptor \/ JoinWorkers \/ ClearConnections \/ UNCHANGED vars
  <2>1. Undisturbed
    BY <1>6 DEF Peers, Connect, ReadReplies, Hangup, SendFrame, CallShutdown, JoinAcceptor, JoinWorkers,
                ClearConnections, vars
  <2> QED BY <1>0, <2>1, UndisturbedStep
<1>7. ASSUME AcceptorSteps \/ AcceptFails, ~PushConnection, ~NotifyOne PROVE QueuedWorkIsNoticed'
  <2>1. Undisturbed
    BY <1>7 DEF AcceptorSteps, AcceptConnection, SeeStopEarly, StartAdmission, LockAdmission, Refuse, Admit,
                RecheckStop, LockQueue, Overflow, LockRegistry, Erase, Release, AcceptFails
  <2> QED BY <1>0, <2>1, UndisturbedStep
<1>8. ASSUME NEW t \in Workers \cup {Main}, BeginShutdown(t) PROVE QueuedWorkIsNoticed'
  <2>1. Undisturbed
    BY <1>8 DEF BeginShutdown, Exchange, CancelToken, WakeAcceptor, WakeWorker, NotifyAll, Callback, Resume
  <2> QED BY <1>0, <2>1, UndisturbedStep
<1>9. ASSUME NEW w \in Workers, WorkerSteps(w) PROVE QueuedWorkIsNoticed'
  <2>1. CASE \/ LockLoop(w) \/ CheckStop(w) \/ ReadCancelled(w) \/ ReadEnd(w) \/ ReadFrame(w)
             \/ SendReply(w) \/ SendFails(w) \/ Loop(w) \/ LockRegistry(w) \/ Erase(w) \/ Release(w)
    <3>1. Undisturbed
      BY <2>1 DEF LockLoop, CheckStop, ReadCancelled, Cancelled, ReadEnd, ReadFrame, Reaction, SendReply,
                  SendFails, Loop, LockRegistry, Erase, Release
    <3> QED BY <1>0, <3>1, UndisturbedStep
  <2> QED BY <1>1, <1>4, <1>8, <1>9, <2>1 DEF WorkerSteps
<1> QED BY <1>1, <1>2, <1>3, <1>4, <1>5, <1>6, <1>7, <1>8, <1>9 DEF Next, MainSteps

LEMMA WaitStep == ThreadInv /\ WaitInv /\ [Next]_vars => WaitInv'
<1> SUFFICES ASSUME ThreadInv, WaitInv, [Next]_vars PROVE WaitInv'
  OBVIOUS
<1> USE NamesAssumption
        DEF ThreadInv, PcTypes, MutexInv, WaitInv, Threads, MainPcs, BeginPcs, Goto, Move, AcquireQueue,
            AcquireRegistry, mutexes, pool
<1>1. CASE Peers \/ CallShutdown \/ JoinAcceptor \/ JoinWorkers \/ ClearConnections \/ UNCHANGED vars
  BY <1>1 DEF Peers, Connect, ReadReplies, Hangup, SendFrame, CallShutdown, JoinAcceptor, JoinWorkers,
              ClearConnections, vars
<1>2. ASSUME AcceptorSteps \/ AcceptFails PROVE WaitInv'
  <2>1. CASE AcceptConnection \/ SeeStopEarly \/ StartAdmission \/ LockAdmission \/ Refuse \/ Admit
    BY <2>1 DEF AcceptConnection, SeeStopEarly, StartAdmission, LockAdmission, Refuse, Admit
  <2>2. CASE RecheckStop \/ LockQueue \/ Overflow \/ PushConnection
    BY <2>2 DEF RecheckStop, LockQueue, Overflow, PushConnection
  <2>3. CASE NotifyOne
    BY <2>3 DEF NotifyOne, Waiting
  <2>4. CASE LockRegistry(Acceptor) \/ Erase(Acceptor) \/ Release(Acceptor) \/ AcceptFails
    BY <2>4 DEF LockRegistry, Erase, Release, AcceptFails
  <2> QED BY <1>2, <2>1, <2>2, <2>3, <2>4 DEF AcceptorSteps
<1>3. ASSUME NEW t \in Workers \cup {Main}, BeginShutdown(t) PROVE WaitInv'
  <2>1. CASE NotifyAll(t)
    BY <2>1 DEF NotifyAll, Waiting
  <2> QED BY <1>3, <2>1 DEF BeginShutdown, Exchange, CancelToken, WakeAcceptor, WakeWorker, Callback, Resume
<1>4. ASSUME NEW w \in Workers, WorkerSteps(w) PROVE WaitInv'
  <2>1. CASE LockLoop(w) \/ FindNothing(w) \/ Block(w) \/ LeaveLoop(w) \/ TakeConnection(w)
    BY <2>1 DEF LockLoop, FindNothing, Block, LeaveLoop, TakeConnection
  <2>2. CASE \/ CheckStop(w) \/ ReadCancelled(w) \/ ReadEnd(w) \/ ReadFrame(w)
             \/ SendReply(w) \/ SendFails(w) \/ Loop(w) \/ LockRegistry(w) \/ Erase(w) \/ Release(w)
    BY <2>2 DEF CheckStop, ReadCancelled, ReadEnd, ReadFrame, SendReply, SendFails, Loop, LockRegistry,
                Erase, Release
  <2> QED BY <1>3, <1>4, <2>1, <2>2 DEF WorkerSteps
<1>5. CASE DrainQueue
  BY <1>5 DEF DrainQueue
<1> QED BY <1>1, <1>2, <1>3, <1>4, <1>5 DEF Next, MainSteps

\* No wakeup is lost, however many workers there are: while one sleeps on the
\* condition variable, every queued connection has a worker on its way to it or
\* a notification still to come (EnqueueConnection notifies after it has let
\* go of the mutex; WorkerLoop tests the queue and blocks with it held).
THEOREM NoWorkIsForgotten == Spec => []QueuedWorkIsNoticed
<1>1. Init => WaitInv /\ QueuedWorkIsNoticed
  <2> SUFFICES ASSUME Init PROVE WaitInv /\ QueuedWorkIsNoticed
    OBVIOUS
  <2>1. \A t \in Threads : pc[t] \in {"accept", "running", "idle"}
    BY NamesAssumption DEF Init, Threads
  <2> QED BY <2>1, NamesAssumption DEF WaitInv, QueuedWorkIsNoticed, Waiting, Threads
<1>2. ServerInv /\ WaitInv /\ QueuedWorkIsNoticed /\ [Next]_vars => (WaitInv /\ QueuedWorkIsNoticed)'
  BY NoticedStep, WaitStep DEF ServerInv
<1> QED BY <1>1, <1>2, ServerAlways, PTL DEF Spec
=============================================================================
