-------------------------- MODULE SpellServerProofs --------------------------
(***************************************************************************)
(* Proofs about SpellServer for every number of workers, descriptors,      *)
(* words, requests and queue slots, polite and impolite clients, orderly   *)
(* and abortive ends of connections, failing accepts, spurious wakeups.    *)
(***************************************************************************)
EXTENDS SpellServerProperties, CircularQueueProofs, FiniteSetTheorems

(* The rings stay well formed: what push and pop need besides the types.   *)
RingsOK == RingOK(socket_queue) /\ RingOK(log_queue)

-----------------------------------------------------------------------------
(* Types.                                                                  *)

(* The initial state is well typed.                                        *)
LEMMA InitTypeOK == Init => TypeOK /\ RingsOK
<1> SUFFICES ASSUME Init PROVE TypeOK /\ RingsOK
  OBVIOUS
<1>1. SocketTypeOK
  BY ClientAssumption DEF Init, SocketInit, SocketTypeOK, PeerStates
<1>2. ThreadTypeOK
  BY ThreadAssumption DEF Init, ThreadTypeOK, Threads, Mutexes, Conds, MainPC, WorkerPC, LoggerPC
<1>3. QueueTypeOK /\ RingsOK
  BY NewQueue DEF Init, QueueTypeOK, RingsOK
<1> QED
  BY <1>1, <1>2, <1>3 DEF TypeOK

(* The clients and the system calls keep the connections well typed.       *)
LEMMA SocketTypeStep == SocketTypeOK /\ ThreadTypeOK /\ [Next]_vars => SocketTypeOK'
<1> SUFFICES ASSUME SocketTypeOK, ThreadTypeOK, [Next]_vars
             PROVE  SocketTypeOK'
  OBVIOUS
<1> USE DEF SocketTypeOK
<1>1. ASSUME UNCHANGED socketVars
      PROVE  SocketTypeOK'
  BY <1>1 DEF socketVars
<1>2. ASSUME NEW fd, peer' = peerAfterSend(fd), UNCHANGED <<rx, requests>>,
             prompted' \subseteq Fds
      PROVE  SocketTypeOK'
  BY <1>2 DEF peerAfterSend, PeerStates
<1>3. CASE Accept
  BY <1>1, <1>3 DEF Accept, accept, PeerStates
<1>4. ASSUME NEW w \in Workers, NEW from, NEW to, Ping(w, from, to)
      PROVE  SocketTypeOK'
  <2>1. peer' \in [Fds -> PeerStates]
    BY <1>4 DEF Ping, peerAfterRecv, PeerStates
  <2>2. rx' \in [Fds -> {<<>>} \cup {<<m>> : m \in Message}]
    <3> DEFINE fd == sock[w]
    <3>1. rx' = rxAfterPing(fd)
      BY <1>4 DEF Ping
    <3>2. ASSUME NEW f \in Fds
          PROVE  rxAfterPing(fd)[f] \in {<<>>} \cup {<<m>> : m \in Message}
      <4>1. CASE f # fd \/ rx[f] = <<>>
        BY <4>1 DEF rxAfterPing
      <4>2. CASE ~ (f # fd \/ rx[f] = <<>>)
        <5>1. PICK m \in Message : rx[f] = <<m>>
          BY <4>2
        <5>2. [m EXCEPT !.word = AfterPing[m.word]] \in Message
                \/ AfterPing[m.word] = NoWord
          BY WordAssumption DEF Message
        <5> QED
          BY <4>2, <5>1, <5>2 DEF rxAfterPing
      <4> QED
        BY <4>1, <4>2
    <3>3. rxAfterPing(fd) = [f \in Fds |-> rxAfterPing(fd)[f]]
      BY DEF rxAfterPing
    <3> QED
      BY <3>1, <3>2, <3>3
  <2> QED
    BY <1>4, <2>1, <2>2 DEF Ping
<1>5. ASSUME NEW w \in Workers, Prompt(w)
      PROVE  SocketTypeOK'
  BY <1>2, <1>5 DEF Prompt, Open
<1>6. ASSUME NEW w \in Workers, Receive(w)
      PROVE  SocketTypeOK'
  BY <1>6 DEF Receive, peerAfterRecv, PeerStates
<1>7. ASSUME NEW w \in Workers, Close(w)
      PROVE  SocketTypeOK'
  BY <1>7 DEF Close, close, PeerStates
<1>8. CASE ClientStep
  <2>1. PICK fd \in Fds : Finish(fd) \/ Reset(fd) \/ \E v \in Words : Type(fd, v)
    BY <1>8 DEF ClientStep, Client
  <2>2. CASE Finish(fd) \/ Reset(fd)
    BY <2>2 DEF Finish, Reset, PeerStates
  <2>3. ASSUME NEW v \in Words, Type(fd, v)
        PROVE  SocketTypeOK'
    <3>1. [fd |-> fd, word |-> v] \in Request
      BY DEF Request
    <3>2. requests' \in Seq(Request) /\ Len(requests') <= MaxRequests
      BY <2>3, <3>1, ClientAssumption DEF Type
    <3>3. [id |-> Len(requests) + 1, word |-> v] \in Message
      BY <2>3, ClientAssumption DEF Type, Message
    <3> QED
      BY <2>3, <3>2, <3>3 DEF Type
  <2> QED
    BY <2>1, <2>2, <2>3
<1>9. ASSUME NEW w \in Workers, WorkerStep(w)
      PROVE  SocketTypeOK'
  <2>1. CASE WorkerLock(w) \/ WorkerWait(w) \/ TakeSock(w) \/ WorkerUnlock(w)
             \/ Sigpipe(w) \/ LogLock(w) \/ LogWait(w) \/ PutLog(w) \/ LogUnlock(w)
    BY <1>1, <2>1 DEF WorkerLock, WorkerWait, TakeSock, PopSock, WorkerUnlock, Sigpipe,
       LogLock, LogWait, PutLog, PushLog, LogUnlock, Lock, Unlock, Wait
  <2>2. CASE Greet(w) \/ Answer(w)
    BY <1>2, <2>2 DEF Greet, Answer
  <2> QED
    BY <1>4, <1>5, <1>6, <1>7, <1>9, <2>1, <2>2 DEF WorkerStep, PingQueued, PingServed
<1>10. CASE MainStep \/ LoggerStep \/ Wakeup \/ Dead \/ UNCHANGED vars
  BY <1>1, <1>3, <1>10 DEF MainStep, MainLock, MainWait, PutSock, PushSock, MainUnlock,
     LoggerStep, LoggerLock, LoggerWait, TakeLog, PopLog, LoggerUnlock,
     Lock, Unlock, Wait, Wakeup, Dead, vars
<1> QED
  BY <1>8, <1>9, <1>10 DEF Next

(* Every step leaves threads, mutexes and wait sets well typed.            *)
LEMMA ThreadTypeStep == TypeOK /\ RingsOK /\ [Next]_vars => ThreadTypeOK'
<1> SUFFICES ASSUME TypeOK, RingsOK, [Next]_vars
             PROVE  ThreadTypeOK'
  OBVIOUS
<1> DEFINE PThreadOK == /\ owner' \in [Mutexes -> Threads \cup {NoThread}]
                        /\ waiting' \in [Conds -> SUBSET Threads]
<1>1. ThreadTypeOK
  BY DEF TypeOK
<1>2. ASSUME NEW t \in Threads, NEW from, NEW to, Goto(t, from, to), PThreadOK,
             to \in CASE t = Main -> MainPC [] t = Logger -> LoggerPC [] OTHER -> WorkerPC,
             sock' \in [Workers \cup {Main} -> Fds \cup {NoFd}],
             word' \in [Workers -> Entry \cup {NoEntry}]
      PROVE  ThreadTypeOK'
  BY <1>1, <1>2, ThreadAssumption DEF ThreadTypeOK, Goto, Threads
<1>3. ASSUME UNCHANGED pthreadVars
      PROVE  PThreadOK
  BY <1>1, <1>3 DEF ThreadTypeOK, pthreadVars
<1>4. ASSUME NEW t \in Threads, NEW m \in Mutexes, pthread_mutex_lock(t, m)
      PROVE  PThreadOK
  BY <1>1, <1>4 DEF ThreadTypeOK, pthread_mutex_lock
<1>5. ASSUME NEW m \in Mutexes, pthread_mutex_unlock(m)
      PROVE  PThreadOK
  BY <1>1, <1>5 DEF ThreadTypeOK, pthread_mutex_unlock
<1>6. ASSUME NEW t \in Threads, NEW c \in Conds, NEW m \in Mutexes,
             pthread_cond_wait(t, c, m)
      PROVE  PThreadOK
  BY <1>1, <1>6 DEF ThreadTypeOK, pthread_cond_wait
<1>7. ASSUME NEW c \in Conds, pthread_cond_signal(c)
      PROVE  PThreadOK
  BY <1>1, <1>7 DEF ThreadTypeOK, pthread_cond_signal
<1>8. /\ sock \in [Workers \cup {Main} -> Fds \cup {NoFd}]
      /\ word \in [Workers -> Entry \cup {NoEntry}]
  BY <1>1 DEF ThreadTypeOK
<1> DEFINE ThreadPC(t) ==
      CASE t = Main -> MainPC [] t = Logger -> LoggerPC [] OTHER -> WorkerPC
<1>9. /\ Main \in Threads /\ Logger \in Threads /\ Workers \subseteq Threads
      /\ {"sock_lock", "log_lock"} \subseteq Mutexes
      /\ {"sock_avail", "sock_empty", "log_avail", "log_empty"} \subseteq Conds
      /\ ThreadPC(Main) = MainPC /\ ThreadPC(Logger) = LoggerPC
      /\ \A w \in Workers : ThreadPC(w) = WorkerPC
  BY ThreadAssumption DEF Threads, Mutexes, Conds
<1> HIDE DEF PThreadOK
<1>10. ASSUME NEW t \in Threads, NEW m \in Mutexes, NEW from, NEW to,
              Lock(t, m, from, to) \/ Unlock(t, m, from, to), to \in ThreadPC(t)
       PROVE  ThreadTypeOK'
  BY <1>2, <1>4, <1>5, <1>8, <1>10 DEF Lock, Unlock
<1>11. ASSUME NEW t \in Threads, NEW c \in Conds, NEW m \in Mutexes, NEW from, NEW to,
              Wait(t, c, m, from, to), to \in ThreadPC(t)
       PROVE  ThreadTypeOK'
  BY <1>2, <1>6, <1>8, <1>11 DEF Wait
<1>12. CASE MainStep
  <2>1. CASE Accept
    <3>1. sock' \in [Workers \cup {Main} -> Fds \cup {NoFd}] /\ word' = word
      BY <1>8, <2>1 DEF Accept
    <3> QED
      BY <1>2, <1>3, <1>8, <1>9, <2>1, <3>1 DEF Accept, MainPC
  <2>2. CASE MainLock \/ MainUnlock
    BY <1>9, <1>10, <2>2 DEF MainLock, MainUnlock, MainPC
  <2>3. CASE MainWait
    BY <1>9, <1>11, <2>3 DEF MainWait, MainPC
  <2>4. CASE PutSock
    <3>1. sock' \in [Workers \cup {Main} -> Fds \cup {NoFd}] /\ word' = word
      BY <1>8, <2>4 DEF PutSock, PushSock
    <3> QED
      BY <1>2, <1>7, <1>8, <1>9, <2>4, <3>1 DEF PutSock, PushSock, MainPC
  <2> QED
    BY <1>12, <2>1, <2>2, <2>3, <2>4 DEF MainStep
<1>13. ASSUME NEW w \in Workers, WorkerStep(w)
       PROVE  ThreadTypeOK'
  <2> USE DEF WorkerPC
  <2>1. CASE WorkerLock(w) \/ WorkerUnlock(w) \/ LogLock(w) \/ LogUnlock(w)
    BY <1>9, <1>10, <2>1 DEF WorkerLock, WorkerUnlock, LogLock, LogUnlock
  <2>2. CASE WorkerWait(w) \/ LogWait(w)
    BY <1>9, <1>11, <2>2 DEF WorkerWait, LogWait
  <2>3. CASE TakeSock(w)
    <3>1. front_item(socket_queue) \in Fds \cup {NoFd}
      BY <2>3, PopOK DEF TypeOK, QueueTypeOK, RingsOK, TakeSock, PopSock
    <3>2. sock' \in [Workers \cup {Main} -> Fds \cup {NoFd}] /\ word' = word
      BY <1>8, <2>3, <3>1 DEF TakeSock, PopSock
    <3> QED
      BY <1>2, <1>7, <1>8, <1>9, <2>3, <3>2 DEF TakeSock, PopSock
  <2>4. CASE PutLog(w)
    <3>1. word' \in [Workers -> Entry \cup {NoEntry}] /\ sock' = sock
      BY <1>8, <2>4 DEF PutLog, PushLog
    <3> QED
      BY <1>2, <1>7, <1>8, <1>9, <2>4, <3>1 DEF PutLog, PushLog
  <2>5. CASE Sigpipe(w)
    BY <1>1, <2>5 DEF Sigpipe, ThreadTypeOK, pthreadVars, threadVars
  <2>6. CASE Receive(w)
    <3>1. word' \in [Workers -> Entry \cup {NoEntry}] /\ sock' = sock
      <4>1. CASE UNCHANGED word
        BY <1>8, <2>6, <4>1 DEF Receive, LocalUnchanged
      <4>2. CASE HasData(sock[w]) /\ word' # word
        <5>1. /\ Head(rx[sock[w]]) \in Message
              /\ sock[w] \in Fds
          BY <4>2 DEF HasData, Open, TypeOK, SocketTypeOK
        <5>2. PICK read \in TextRead(Head(rx[sock[w]])) :
                word' = [word EXCEPT ![w] = [id |-> Head(rx[sock[w]]).id,
                           word |-> read, ok |-> read \in Dictionary]]
          BY <2>6, <4>2 DEF Receive, AtEnd, RecvFails, HasData
        <5>3. [id |-> Head(rx[sock[w]]).id, word |-> read, ok |-> read \in Dictionary]
                \in Entry
          BY <5>1, <5>2, ServerAssumption DEF TextRead, Message, Entry
        <5> QED
          BY <1>8, <2>6, <5>2, <5>3 DEF Receive, LocalUnchanged
      <4> QED
        BY <2>6, <4>1, <4>2 DEF Receive
    <3>2. Goto(w, "receive", "close") \/ Goto(w, "receive", "answer")
      BY <2>6 DEF Receive
    <3>3. UNCHANGED pthreadVars
      BY <2>6 DEF Receive, LocalUnchanged
    <3> QED
      BY <1>2, <1>3, <1>8, <1>9, <3>1, <3>2, <3>3
  <2>7. CASE Greet(w) \/ PingQueued(w) \/ PingServed(w) \/ Prompt(w) \/ Answer(w)
    BY <1>2, <1>3, <1>8, <1>9, <2>7
       DEF Greet, PingQueued, PingServed, Ping, Prompt, Answer, LocalUnchanged
  <2>8. CASE Close(w)
    <3>1. sock' \in [Workers \cup {Main} -> Fds \cup {NoFd}] /\ word' = word
      BY <1>8, <2>8 DEF Close
    <3> QED
      BY <1>2, <1>3, <1>8, <1>9, <2>8, <3>1 DEF Close
  <2> QED
    BY <1>13, <2>1, <2>2, <2>3, <2>4, <2>5, <2>6, <2>7, <2>8 DEF WorkerStep
<1>14. CASE LoggerStep
  <2>1. CASE LoggerLock \/ LoggerUnlock
    BY <1>9, <1>10, <2>1 DEF LoggerLock, LoggerUnlock, LoggerPC
  <2>2. CASE LoggerWait
    BY <1>9, <1>11, <2>2 DEF LoggerWait, LoggerPC
  <2>3. CASE TakeLog
    BY <1>2, <1>7, <1>8, <1>9, <2>3 DEF TakeLog, PopLog, LoggerPC
  <2> QED
    BY <1>14, <2>1, <2>2, <2>3 DEF LoggerStep
<1>15. CASE ClientStep \/ Dead \/ UNCHANGED vars
  BY <1>1, <1>15 DEF ClientStep, Dead, vars, pthreadVars, threadVars, ThreadTypeOK
<1>16. CASE Wakeup
  BY <1>1, <1>16 DEF Wakeup, SpuriousWakeup, threadVars, ThreadTypeOK
<1> QED
  BY <1>12, <1>13, <1>14, <1>15, <1>16 DEF Next

(* Every step leaves the queues and the log well typed, and both rings     *)
(* well formed: push is only reached when the queue has room, pop when it  *)
(* has an item.                                                            *)
LEMMA QueueTypeStep == TypeOK /\ RingsOK /\ [Next]_vars => QueueTypeOK' /\ RingsOK'
<1> SUFFICES ASSUME TypeOK, RingsOK, [Next]_vars
             PROVE  QueueTypeOK' /\ RingsOK'
  OBVIOUS
<1> USE DEF TypeOK, QueueTypeOK, RingsOK
<1>1. ASSUME UNCHANGED <<queueVars, log>>
      PROVE  QueueTypeOK' /\ RingsOK'
  BY <1>1 DEF queueVars
<1>2. CASE PutSock
  <2>1. sock[Main] \in Fds \cup {NoFd}
    BY DEF ThreadTypeOK
  <2>2. push(socket_queue, sock[Main]) \in Queues(Fds \cup {NoFd})
        /\ RingOK(push(socket_queue, sock[Main]))
    BY <1>2, <2>1, PushOK DEF PutSock, PushSock
  <2> QED
    BY <1>2, <2>2 DEF PutSock, PushSock
<1>3. ASSUME NEW w \in Workers, TakeSock(w)
      PROVE  QueueTypeOK' /\ RingsOK'
  <2>1. pop(socket_queue) \in Queues(Fds \cup {NoFd}) /\ RingOK(pop(socket_queue))
    BY <1>3, PopOK DEF TakeSock, PopSock
  <2> QED
    BY <1>3, <2>1 DEF TakeSock, PopSock
<1>4. ASSUME NEW w \in Workers, PutLog(w)
      PROVE  QueueTypeOK' /\ RingsOK'
  <2>1. word[w] \in Entry \cup {NoEntry}
    BY DEF ThreadTypeOK
  <2>2. push(log_queue, word[w]) \in Queues(Entry \cup {NoEntry})
        /\ RingOK(push(log_queue, word[w]))
    BY <1>4, <2>1, PushOK DEF PutLog, PushLog
  <2> QED
    BY <1>4, <2>2 DEF PutLog, PushLog
<1>5. CASE TakeLog
  <2>1. /\ pop(log_queue) \in Queues(Entry \cup {NoEntry}) /\ RingOK(pop(log_queue))
        /\ front_item(log_queue) \in Entry \cup {NoEntry}
    BY <1>5, PopOK DEF TakeLog, PopLog
  <2> QED
    BY <1>5, <2>1 DEF TakeLog, PopLog
<1>6. ASSUME NEW w \in Workers, WorkerStep(w)
      PROVE  QueueTypeOK' /\ RingsOK'
  <2>1. CASE WorkerLock(w) \/ WorkerWait(w) \/ WorkerUnlock(w) \/ LogLock(w)
             \/ LogWait(w) \/ LogUnlock(w)
    BY <1>1, <2>1 DEF WorkerLock, WorkerWait, WorkerUnlock, LogLock, LogWait,
       LogUnlock, Lock, Unlock, Wait
  <2>2. CASE Sigpipe(w) \/ Greet(w) \/ PingQueued(w) \/ PingServed(w) \/ Prompt(w)
             \/ Receive(w) \/ Answer(w) \/ Close(w)
    BY <1>1, <2>2 DEF Sigpipe, Greet, PingQueued, PingServed, Ping, Prompt, Receive,
       Answer, Close, LocalUnchanged
  <2> QED
    BY <1>3, <1>4, <1>6, <2>1, <2>2 DEF WorkerStep
<1>7. CASE MainStep \/ LoggerStep
  BY <1>1, <1>2, <1>5, <1>7 DEF MainStep, Accept, MainLock, MainWait, MainUnlock,
     LoggerStep, LoggerLock, LoggerWait, LoggerUnlock, Lock, Unlock, Wait
<1>8. CASE ClientStep \/ Wakeup \/ Dead \/ UNCHANGED vars
  BY <1>1, <1>8 DEF ClientStep, Wakeup, Dead, vars
<1> QED
  BY <1>6, <1>7, <1>8 DEF Next

(* Type correctness: the variables of every reachable state have values of *)
(* their types, and the rings never over- or underflow.                    *)
THEOREM TypeCorrect == Spec => []TypeOK
<1> DEFINE Inv == TypeOK /\ RingsOK
<1>1. Init => Inv
  BY InitTypeOK
<1>2. Inv /\ [Next]_vars => Inv'
  BY SocketTypeStep, ThreadTypeStep, QueueTypeStep DEF TypeOK
<1>3. Inv => TypeOK
  OBVIOUS
<1> QED
  BY <1>1, <1>2, <1>3, PTL DEF Spec

-----------------------------------------------------------------------------
(* Locking.                                                                *)

(* Every step keeps threads, mutexes and wait sets in accord.              *)
LEMMA LockStep ==
  TypeOK /\ TypeOK' /\ LockDiscipline /\ [Next]_vars => LockDiscipline'
<1> SUFFICES ASSUME TypeOK, TypeOK', LockDiscipline, [Next]_vars
             PROVE  LockDiscipline'
  OBVIOUS
<1>1. /\ pc \in [Threads -> MainPC \cup WorkerPC \cup LoggerPC]
      /\ owner \in [Mutexes -> Threads \cup {NoThread}]
      /\ waiting \in [Conds -> SUBSET Threads]
      /\ waiting' \in [Conds -> SUBSET Threads]
  BY DEF TypeOK, ThreadTypeOK
<1>2. /\ Main \in Threads /\ Logger \in Threads /\ Workers \subseteq Threads
      /\ NoThread \notin Threads
      /\ Main \notin Workers /\ Logger \notin Workers /\ Main # Logger
      /\ Mutexes = {"sock_lock", "log_lock"}
      /\ Conds = {"sock_avail", "sock_empty", "log_avail", "log_empty"}
  BY ThreadAssumption DEF Threads, Mutexes, Conds
<1> USE DEF LockDiscipline, InSockSection, InLogSection
(* A step outside the lock calls.                                          *)
<1>3. ASSUME NEW t \in Threads, NEW from, NEW to, Goto(t, from, to),
             from \notin {"lock_sock", "lock_log"},
             from \in InSockSection <=> to \in InSockSection,
             from \in InLogSection <=> to \in InLogSection,
             owner' = owner,
             \A c \in Conds : waiting'[c] \subseteq waiting[c]
      PROVE  LockDiscipline'
  BY <1>1, <1>2, <1>3 DEF Goto
<1>4. ASSUME NEW c \in Conds, pthread_cond_signal(c)
      PROVE  owner' = owner /\ \A d \in Conds : waiting'[d] \subseteq waiting[d]
  BY <1>1, <1>4 DEF pthread_cond_signal
<1>5. ASSUME UNCHANGED pthreadVars
      PROVE  owner' = owner /\ \A d \in Conds : waiting'[d] \subseteq waiting[d]
  BY <1>5 DEF pthreadVars
(* Lock, unlock, wait.                                                     *)
<1>6. ASSUME NEW t \in Threads, NEW from, NEW to, NEW m \in Mutexes, Lock(t, m, from, to),
             \/ m = "sock_lock" /\ from = "lock_sock" /\ to \in {"put_sock", "take_sock"}
             \/ m = "log_lock" /\ from = "lock_log" /\ to \in {"put_log", "take_log"}
      PROVE  LockDiscipline'
  <2>1. \A c \in Conds : t \notin waiting[c]
    BY <1>1, <1>6 DEF Lock, pthread_mutex_lock, Asleep
  <2> QED
    BY <1>1, <1>2, <1>6, <2>1 DEF Lock, Goto, pthread_mutex_lock
<1>7. ASSUME NEW t \in Threads, NEW from, NEW to, NEW m \in Mutexes, Unlock(t, m, from, to),
             \/ m = "sock_lock" /\ from = "unlock_sock"
             \/ m = "log_lock" /\ from = "unlock_log",
             to \notin InSockSection \cup InLogSection
      PROVE  LockDiscipline'
  BY <1>1, <1>2, <1>7 DEF Unlock, Goto, pthread_mutex_unlock
<1>8. ASSUME NEW t \in Threads, NEW from, NEW to, NEW m \in Mutexes, NEW c \in Conds,
             Wait(t, c, m, from, to),
             \/ m = "sock_lock" /\ to = "lock_sock" /\ from \in {"put_sock", "take_sock"}
             \/ m = "log_lock" /\ to = "lock_log" /\ from \in {"put_log", "take_log"},
             \/ c = "sock_avail" /\ t \in Workers /\ m = "sock_lock"
             \/ c = "sock_empty" /\ t = Main /\ m = "sock_lock"
             \/ c = "log_avail" /\ t = Logger /\ m = "log_lock"
             \/ c = "log_empty" /\ t \in Workers /\ m = "log_lock"
      PROVE  LockDiscipline'
  BY <1>1, <1>2, <1>8 DEF Wait, Goto, pthread_cond_wait
<1>9. CASE MainStep
  <2>1. CASE Accept
    BY <1>2, <1>3, <1>5, <2>1 DEF Accept
  <2>2. CASE MainLock
    BY <1>2, <1>6, <2>2 DEF MainLock
  <2>3. CASE MainWait
    BY <1>2, <1>8, <2>3 DEF MainWait
  <2>4. CASE PutSock
    BY <1>2, <1>3, <1>4, <2>4 DEF PutSock, PushSock
  <2>5. CASE MainUnlock
    BY <1>2, <1>7, <2>5 DEF MainUnlock
  <2> QED
    BY <1>9, <2>1, <2>2, <2>3, <2>4, <2>5 DEF MainStep
<1>10. ASSUME NEW w \in Workers, WorkerStep(w)
       PROVE  LockDiscipline'
  <2>1. CASE WorkerLock(w) \/ LogLock(w)
    BY <1>2, <1>6, <2>1 DEF WorkerLock, LogLock
  <2>2. CASE WorkerUnlock(w) \/ LogUnlock(w)
    BY <1>2, <1>7, <2>2 DEF WorkerUnlock, LogUnlock
  <2>3. CASE WorkerWait(w) \/ LogWait(w)
    BY <1>2, <1>8, <2>3 DEF WorkerWait, LogWait
  <2>4. CASE TakeSock(w)
    BY <1>2, <1>3, <1>4, <2>4 DEF TakeSock, PopSock
  <2>5. CASE PutLog(w)
    BY <1>2, <1>3, <1>4, <2>5 DEF PutLog, PushLog
  <2>6. CASE Sigpipe(w)
    BY <2>6 DEF Sigpipe, pthreadVars, threadVars
  <2>7. CASE Greet(w) \/ PingQueued(w) \/ PingServed(w) \/ Prompt(w) \/ Answer(w) \/ Close(w)
    BY <1>2, <1>3, <1>5, <2>7
       DEF Greet, PingQueued, PingServed, Ping, Prompt, Answer, Close, LocalUnchanged
  <2>8. CASE Receive(w)
    <3>1. Goto(w, "receive", "close") \/ Goto(w, "receive", "answer")
      BY <2>8 DEF Receive
    <3>2. UNCHANGED pthreadVars
      BY <2>8 DEF Receive, LocalUnchanged
    <3> QED
      BY <1>2, <1>3, <1>5, <3>1, <3>2
  <2> QED
    BY <1>10, <2>1, <2>2, <2>3, <2>4, <2>5, <2>6, <2>7, <2>8 DEF WorkerStep
<1>11. CASE LoggerStep
  <2>1. CASE LoggerLock
    BY <1>2, <1>6, <2>1 DEF LoggerLock
  <2>2. CASE LoggerWait
    BY <1>2, <1>8, <2>2 DEF LoggerWait
  <2>3. CASE TakeLog
    BY <1>2, <1>3, <1>4, <2>3 DEF TakeLog, PopLog
  <2>4. CASE LoggerUnlock
    BY <1>2, <1>7, <2>4 DEF LoggerUnlock
  <2> QED
    BY <1>11, <2>1, <2>2, <2>3, <2>4 DEF LoggerStep
<1>12. CASE ClientStep \/ Dead \/ UNCHANGED vars
  BY <1>12 DEF ClientStep, Dead, vars, pthreadVars, threadVars
<1>13. CASE Wakeup
  BY <1>1, <1>2, <1>13 DEF Wakeup, SpuriousWakeup, threadVars
<1> QED
  BY <1>9, <1>10, <1>11, <1>12, <1>13 DEF Next

(* Mutual exclusion and the pairing of mutexes with condition variables    *)
(* hold in every reachable state.                                          *)
THEOREM LocksHeld == Spec => []LockDiscipline
<1> DEFINE Inv == TypeOK /\ RingsOK /\ LockDiscipline
<1>1. Init => LockDiscipline
  BY ThreadAssumption DEF Init, LockDiscipline, InSockSection, InLogSection, Threads,
     Mutexes, Conds
<1>2. Init => Inv
  BY <1>1, InitTypeOK
<1>3. Inv /\ [Next]_vars => Inv'
  <2> SUFFICES ASSUME Inv, [Next]_vars PROVE Inv'
    OBVIOUS
  <2>1. TypeOK' /\ RingsOK'
    BY SocketTypeStep, ThreadTypeStep, QueueTypeStep DEF TypeOK
  <2> QED
    BY <2>1, LockStep
<1> QED
  BY <1>2, <1>3, PTL DEF Spec

-----------------------------------------------------------------------------
(* Wakeups of the threads that wait alone.                                 *)

(* Main sleeps only while the socket queue is full: whoever takes an item  *)
(* signals sock_empty, and main alone waits for it.                        *)
LEMMA MainSleepStep ==
  TypeOK /\ LockDiscipline /\ MainSleepsOnFull /\ [Next]_vars => MainSleepsOnFull'
<1> SUFFICES ASSUME TypeOK, LockDiscipline, MainSleepsOnFull, [Next]_vars
             PROVE  MainSleepsOnFull'
  OBVIOUS
<1>1. /\ waiting \in [Conds -> SUBSET Threads]
      /\ waiting["sock_empty"] \subseteq {Main}
      /\ "sock_empty" \in Conds
  BY DEF TypeOK, ThreadTypeOK, LockDiscipline, Conds
<1> USE DEF MainSleepsOnFull
<1>2. ASSUME socket_queue' = socket_queue,
             waiting'["sock_empty"] \subseteq waiting["sock_empty"]
      PROVE  MainSleepsOnFull'
  BY <1>2
<1>3. ASSUME NEW c \in Conds, pthread_cond_signal(c)
      PROVE  waiting'["sock_empty"] \subseteq waiting["sock_empty"]
  BY <1>1, <1>3 DEF pthread_cond_signal
<1>4. ASSUME NEW w \in Workers, TakeSock(w)
      PROVE  MainSleepsOnFull'
  <2>1. waiting'["sock_empty"] = {}
    BY <1>1, <1>4 DEF TakeSock, pthread_cond_signal
  <2> QED
    BY <2>1
<1>5. CASE PutSock
  <2>1. ~ full(socket_queue)
    BY <1>5 DEF PutSock, PushSock
  <2>2. waiting'["sock_empty"] = {}
    BY <1>1, <1>3, <1>5, <2>1 DEF PutSock, Conds
  <2> QED
    BY <2>2
<1>6. CASE MainWait
  BY <1>6 DEF MainWait, Wait, queueVars
<1>7. ASSUME NEW t, NEW m, NEW from, NEW to, Lock(t, m, from, to) \/ Unlock(t, m, from, to)
      PROVE  MainSleepsOnFull'
  BY <1>2, <1>7 DEF Lock, Unlock, queueVars, pthread_mutex_lock, pthread_mutex_unlock
<1>8. ASSUME NEW t, NEW m, NEW c \in Conds, NEW from, NEW to, Wait(t, c, m, from, to),
             c # "sock_empty"
      PROVE  MainSleepsOnFull'
  BY <1>1, <1>2, <1>8 DEF Wait, queueVars, pthread_cond_wait
<1>9. CASE MainStep
  BY <1>2, <1>5, <1>6, <1>7, <1>9
     DEF MainStep, Accept, MainLock, MainUnlock, pthreadVars, queueVars
<1>10. ASSUME NEW w \in Workers, WorkerStep(w)
       PROVE  MainSleepsOnFull'
  <2>1. CASE WorkerLock(w) \/ WorkerUnlock(w) \/ LogLock(w) \/ LogUnlock(w)
    BY <1>7, <2>1 DEF WorkerLock, WorkerUnlock, LogLock, LogUnlock
  <2>2. CASE WorkerWait(w) \/ LogWait(w)
    BY <1>8, <2>2 DEF WorkerWait, LogWait, Conds
  <2>3. CASE PutLog(w)
    BY <1>2, <1>3, <2>3 DEF PutLog, PushLog, Conds
  <2>4. CASE Sigpipe(w) \/ Greet(w) \/ PingQueued(w) \/ PingServed(w) \/ Prompt(w)
             \/ Receive(w) \/ Answer(w) \/ Close(w)
    BY <1>2, <2>4 DEF Sigpipe, Greet, PingQueued, PingServed, Ping, Prompt, Receive,
       Answer, Close, LocalUnchanged, pthreadVars, queueVars
  <2> QED
    BY <1>4, <1>10, <2>1, <2>2, <2>3, <2>4 DEF WorkerStep
<1>11. CASE LoggerStep
  <2>1. CASE TakeLog
    BY <1>2, <1>3, <2>1 DEF TakeLog, PopLog, Conds
  <2> QED
    BY <1>7, <1>8, <1>11, <2>1 DEF LoggerStep, LoggerLock, LoggerWait, LoggerUnlock, Conds
<1>12. CASE ClientStep \/ Dead \/ UNCHANGED vars
  BY <1>2, <1>12 DEF ClientStep, Dead, vars, pthreadVars, queueVars
<1>13. CASE Wakeup
  BY <1>1, <1>2, <1>13 DEF Wakeup, SpuriousWakeup, queueVars
<1> QED
  BY <1>9, <1>10, <1>11, <1>12, <1>13 DEF Next

(* The logger sleeps only while the log queue is empty: whoever adds an    *)
(* item signals log_avail, and the logger alone waits for it.              *)
LEMMA LoggerSleepStep ==
  TypeOK /\ LockDiscipline /\ LoggerSleepsOnEmpty /\ [Next]_vars => LoggerSleepsOnEmpty'
<1> SUFFICES ASSUME TypeOK, LockDiscipline, LoggerSleepsOnEmpty, [Next]_vars
             PROVE  LoggerSleepsOnEmpty'
  OBVIOUS
<1>1. /\ waiting \in [Conds -> SUBSET Threads]
      /\ waiting["log_avail"] \subseteq {Logger}
      /\ "log_avail" \in Conds
  BY DEF TypeOK, ThreadTypeOK, LockDiscipline, Conds
<1> USE DEF LoggerSleepsOnEmpty
<1>2. ASSUME log_queue' = log_queue,
             waiting'["log_avail"] \subseteq waiting["log_avail"]
      PROVE  LoggerSleepsOnEmpty'
  BY <1>2
<1>3. ASSUME NEW c \in Conds, pthread_cond_signal(c)
      PROVE  waiting'["log_avail"] \subseteq waiting["log_avail"]
  BY <1>1, <1>3 DEF pthread_cond_signal
<1>4. ASSUME NEW w \in Workers, PutLog(w)
      PROVE  LoggerSleepsOnEmpty'
  <2>1. waiting'["log_avail"] = {}
    BY <1>1, <1>4 DEF PutLog, pthread_cond_signal
  <2> QED
    BY <2>1
<1>5. CASE TakeLog
  <2>1. Logger \notin waiting["log_avail"]
    BY <1>5 DEF TakeLog, PopLog, LockDiscipline
  <2>2. waiting'["log_avail"] = {}
    BY <1>1, <1>3, <1>5, <2>1 DEF TakeLog, Conds
  <2> QED
    BY <2>2
<1>6. CASE LoggerWait
  BY <1>6 DEF LoggerWait, Wait, queueVars
<1>7. ASSUME NEW t, NEW m, NEW from, NEW to, Lock(t, m, from, to) \/ Unlock(t, m, from, to)
      PROVE  LoggerSleepsOnEmpty'
  BY <1>2, <1>7 DEF Lock, Unlock, queueVars, pthread_mutex_lock, pthread_mutex_unlock
<1>8. ASSUME NEW t, NEW m, NEW c \in Conds, NEW from, NEW to, Wait(t, c, m, from, to),
             c # "log_avail"
      PROVE  LoggerSleepsOnEmpty'
  BY <1>1, <1>2, <1>8 DEF Wait, queueVars, pthread_cond_wait
<1>9. CASE MainStep
  <2>1. CASE PutSock
    BY <1>2, <1>3, <2>1 DEF PutSock, PushSock, Conds
  <2>2. CASE MainWait
    BY <1>8, <2>2 DEF MainWait, Conds
  <2> QED
    BY <1>2, <1>7, <1>9, <2>1, <2>2
       DEF MainStep, Accept, MainLock, MainUnlock, pthreadVars, queueVars
<1>10. ASSUME NEW w \in Workers, WorkerStep(w)
       PROVE  LoggerSleepsOnEmpty'
  <2>1. CASE WorkerLock(w) \/ WorkerUnlock(w) \/ LogLock(w) \/ LogUnlock(w)
    BY <1>7, <2>1 DEF WorkerLock, WorkerUnlock, LogLock, LogUnlock
  <2>2. CASE WorkerWait(w) \/ LogWait(w)
    BY <1>8, <2>2 DEF WorkerWait, LogWait, Conds
  <2>3. CASE TakeSock(w)
    BY <1>2, <1>3, <2>3 DEF TakeSock, PopSock, Conds
  <2>4. CASE Sigpipe(w) \/ Greet(w) \/ PingQueued(w) \/ PingServed(w) \/ Prompt(w)
             \/ Receive(w) \/ Answer(w) \/ Close(w)
    BY <1>2, <2>4 DEF Sigpipe, Greet, PingQueued, PingServed, Ping, Prompt, Receive,
       Answer, Close, LocalUnchanged, pthreadVars, queueVars
  <2> QED
    BY <1>4, <1>10, <2>1, <2>2, <2>3, <2>4 DEF WorkerStep
<1>11. CASE LoggerStep
  BY <1>5, <1>6, <1>7, <1>11 DEF LoggerStep, LoggerLock, LoggerUnlock
<1>12. CASE ClientStep \/ Dead \/ UNCHANGED vars
  BY <1>2, <1>12 DEF ClientStep, Dead, vars, pthreadVars, queueVars
<1>13. CASE Wakeup
  BY <1>1, <1>2, <1>13 DEF Wakeup, SpuriousWakeup, queueVars
<1> QED
  BY <1>9, <1>10, <1>11, <1>12, <1>13 DEF Next

(* Main and the logger never sleep beside work: in every reachable state   *)
(* main sleeps only on a full socket queue, the logger only on an empty    *)
(* log queue, although signals without a waiting thread are dropped.       *)
THEOREM MainAndLoggerWake == Spec => [](MainSleepsOnFull /\ LoggerSleepsOnEmpty)
<1> DEFINE Sleep == MainSleepsOnFull /\ LoggerSleepsOnEmpty
<1>1. Init => Sleep
  BY DEF Init, MainSleepsOnFull, LoggerSleepsOnEmpty, Conds
<1>2. TypeOK /\ LockDiscipline /\ Sleep /\ [Next]_vars => Sleep'
  BY MainSleepStep, LoggerSleepStep
<1> QED
  BY <1>1, <1>2, TypeCorrect, LocksHeld, PTL DEF Spec

-----------------------------------------------------------------------------
(***************************************************************************)
(* No wakeup is lost in SpellServer, for every number of workers.  The     *)
(* argument counts the workers that are bound for a queue: whenever an     *)
(* item or a slot is added while a worker sleeps, one more is woken.       *)
(***************************************************************************)
(* Counting workers.                                                       *)

(* Sets of workers that grow, grow by one, or lose at most one.            *)
LEMMA CountWorkers ==
  ASSUME NEW A \in SUBSET Workers, NEW B \in SUBSET Workers
  PROVE  /\ Cardinality(A) \in Nat /\ Cardinality(B) \in Nat
         /\ A \subseteq B => Cardinality(A) <= Cardinality(B)
         /\ \A x \in B : A \subseteq B \ {x} => Cardinality(A) + 1 <= Cardinality(B)
         /\ \A x : A \ {x} \subseteq B => Cardinality(A) <= Cardinality(B) + 1
<1>1. IsFiniteSet(A) /\ IsFiniteSet(B)
  BY ThreadAssumption, FS_Subset
<1>2. Cardinality(A) \in Nat /\ Cardinality(B) \in Nat
  BY <1>1, FS_CardinalityType
<1>3. ASSUME A \subseteq B
      PROVE  Cardinality(A) <= Cardinality(B)
  BY <1>1, <1>3, FS_Subset
<1>4. ASSUME NEW x \in B, A \subseteq B \ {x}
      PROVE  Cardinality(A) + 1 <= Cardinality(B)
  <2>1. IsFiniteSet(B \ {x}) /\ Cardinality(B \ {x}) = Cardinality(B) - 1
    BY <1>1, FS_RemoveElement
  <2>2. Cardinality(A) <= Cardinality(B \ {x})
    BY <1>4, <2>1, FS_Subset
  <2> QED
    BY <1>2, <2>1, <2>2
<1>5. ASSUME NEW x, A \ {x} \subseteq B
      PROVE  Cardinality(A) <= Cardinality(B) + 1
  <2>1. Cardinality(A) - 1 <= Cardinality(A \ {x})
    BY <1>1, <1>2, FS_RemoveElement
  <2>2. Cardinality(A \ {x}) <= Cardinality(B)
    BY <1>1, <1>5, FS_Subset
  <2>3. IsFiniteSet(A \ {x})
    BY <1>1, FS_RemoveElement
  <2>4. Cardinality(A \ {x}) \in Nat
    BY <2>3, FS_CardinalityType
  <2> QED
    BY <1>2, <2>1, <2>2, <2>4
<1> QED
  BY <1>2, <1>3, <1>4, <1>5

(* The workers that are awake and bound for a place are workers.           *)
LEMMA BoundSubset == \A S : Bound(S) \subseteq Workers /\ Bound(S)' \subseteq Workers
  BY DEF Bound

(* A step that puts no one to sleep and takes no worker away from the      *)
(* places S loses no worker bound for S.                                   *)
LEMMA BoundGrows ==
  ASSUME NEW S, TypeOK, TypeOK',
         \A c \in Conds : waiting'[c] \subseteq waiting[c],
         \A w \in Workers : pc[w] \in S => pc'[w] \in S
  PROVE  Bound(S) \subseteq Bound(S)'
<1>1. DOMAIN waiting = Conds /\ DOMAIN waiting' = Conds
  BY DEF TypeOK, ThreadTypeOK
<1> QED
  BY <1>1 DEF Bound, Asleep

(* A thread that goes to sleep only takes itself away.                     *)
LEMMA WaitKeepsBound ==
  ASSUME NEW S, TypeOK, TypeOK',
         NEW t, NEW c \in Conds, NEW m, pthread_cond_wait(t, c, m),
         \A w \in Workers \ {t} : pc'[w] = pc[w],
         t \notin Bound(S)
  PROVE  Bound(S) \subseteq Bound(S)'
<1>1. DOMAIN waiting = Conds /\ DOMAIN waiting' = Conds
  BY DEF TypeOK, ThreadTypeOK
<1>2. \A d \in Conds : waiting'[d] \subseteq waiting[d] \cup {t}
  BY <1>1 DEF pthread_cond_wait
<1> QED
  BY <1>1, <1>2 DEF Bound, Asleep

(* A signal wakes one of the threads that wait for it, if there is one.    *)
LEMMA SignalWakes ==
  ASSUME TypeOK, NEW c \in Conds, pthread_cond_signal(c)
  PROVE  /\ \A d \in Conds : waiting'[d] \subseteq waiting[d]
         /\ waiting[c] # {} => \E t \in waiting[c] : waiting'[c] = waiting[c] \ {t}
<1>1. waiting \in [Conds -> SUBSET Threads]
  BY DEF TypeOK, ThreadTypeOK
<1> QED
  BY <1>1 DEF pthread_cond_signal

(* The steps of a thread: only its own place in the program changes.       *)
LEMMA GotoMoves ==
  ASSUME TypeOK, NEW t \in Threads, NEW from, NEW to, Goto(t, from, to)
  PROVE  pc[t] = from /\ pc'[t] = to /\ \A u \in Threads \ {t} : pc'[u] = pc[u]
<1>1. pc \in [Threads -> MainPC \cup WorkerPC \cup LoggerPC]
  BY DEF TypeOK, ThreadTypeOK
<1> QED
  BY <1>1 DEF Goto

-----------------------------------------------------------------------------
(* Workers that wait for a connection.                                     *)

(* While a worker sleeps, enough others are awake to take every queued     *)
(* connection: main wakes one for each that it adds.                       *)
LEMMA TakersStep ==
  TypeOK /\ TypeOK' /\ LockDiscipline /\ TakersSuffice /\ [Next]_vars => TakersSuffice'
<1> SUFFICES ASSUME TypeOK, TypeOK', LockDiscipline, TakersSuffice, [Next]_vars
             PROVE  TakersSuffice'
  OBVIOUS
<1> DEFINE A == Bound(Takers)
           B == Bound(Takers)'
<1>1. /\ waiting \in [Conds -> SUBSET Threads] /\ waiting' \in [Conds -> SUBSET Threads]
      /\ pc \in [Threads -> MainPC \cup WorkerPC \cup LoggerPC]
      /\ socket_queue.size \in 0 .. SIZE /\ socket_queue'.size \in 0 .. SIZE
      /\ SIZE \in Nat
  BY SizeAssumption DEF TypeOK, ThreadTypeOK, QueueTypeOK, Queues
<1>2. /\ Main \in Threads /\ Logger \in Threads /\ Workers \subseteq Threads
      /\ Main \notin Workers /\ Logger \notin Workers
      /\ Conds = {"sock_avail", "sock_empty", "log_avail", "log_empty"}
  BY ThreadAssumption DEF Threads, Conds
<1>3. A \in SUBSET Workers /\ B \in SUBSET Workers
  BY BoundSubset
<1>4. /\ waiting["sock_avail"] # {} => socket_queue.size <= Cardinality(A)
      /\ (waiting'["sock_avail"] # {} => socket_queue'.size <= Cardinality(B)) => TakersSuffice'
  BY DEF TakersSuffice
<1> HIDE DEF A, B
<1>5. ASSUME socket_queue' = socket_queue, A \subseteq B,
             waiting'["sock_avail"] \subseteq waiting["sock_avail"]
      PROVE  TakersSuffice'
  <2>1. Cardinality(A) <= Cardinality(B) /\ Cardinality(A) \in Nat /\ Cardinality(B) \in Nat
    BY <1>3, <1>5, CountWorkers
  <2> QED
    BY <1>1, <1>4, <1>5, <2>1
<1>6. ASSUME \A c \in Conds : waiting'[c] \subseteq waiting[c],
             \A w \in Workers : pc[w] \in Takers => pc'[w] \in Takers
      PROVE  A \subseteq B /\ waiting'["sock_avail"] \subseteq waiting["sock_avail"]
  BY <1>2, <1>6, BoundGrows DEF A, B
<1>7. ASSUME NEW t \in Threads, NEW from, NEW to, NEW m,
             Lock(t, m, from, to) \/ Unlock(t, m, from, to),
             from \in Takers => to \in Takers \/ t \notin Workers
      PROVE  TakersSuffice'
  <2>1. Goto(t, from, to) /\ UNCHANGED <<waiting, socket_queue>>
    BY <1>7 DEF Lock, Unlock, queueVars, pthread_mutex_lock, pthread_mutex_unlock
  <2>2. \A w \in Workers : pc[w] \in Takers => pc'[w] \in Takers
    BY <1>2, <1>7, <2>1, GotoMoves
  <2> QED
    BY <1>5, <1>6, <2>1, <2>2
<1>8. ASSUME NEW t \in Threads, NEW from, NEW to, NEW m, NEW c \in Conds \ {"sock_avail"},
             Wait(t, c, m, from, to), t \in Workers => from \notin Takers
      PROVE  TakersSuffice'
  <2>1. Goto(t, from, to) /\ pthread_cond_wait(t, c, m) /\ UNCHANGED socket_queue
    BY <1>8 DEF Wait, queueVars
  <2>2. t \notin Bound(Takers)
    BY <1>8, <2>1, GotoMoves DEF Bound
  <2>3. A \subseteq B
    BY <1>2, <2>1, <2>2, GotoMoves, WaitKeepsBound DEF A, B
  <2>4. waiting'["sock_avail"] \subseteq waiting["sock_avail"]
    BY <1>1, <1>2, <1>8, <2>1 DEF pthread_cond_wait
  <2> QED
    BY <1>5, <2>1, <2>3, <2>4
<1>9. CASE PutSock
  <2>1. /\ Goto(Main, "put_sock", "unlock_sock") /\ pthread_cond_signal("sock_avail")
        /\ socket_queue'.size = socket_queue.size + 1
    BY <1>9 DEF PutSock, PushSock, push, TypeOK, QueueTypeOK, Queues
  <2>2. \A w \in Workers : pc'[w] = pc[w]
    BY <1>2, <2>1, GotoMoves
  <2>3. \A c \in Conds : waiting'[c] \subseteq waiting[c]
    BY <1>2, <2>1, SignalWakes
  <2>4. A \subseteq B /\ waiting'["sock_avail"] \subseteq waiting["sock_avail"]
    BY <1>6, <2>2, <2>3
  <2>5. CASE waiting["sock_avail"] = {}
    BY <1>4, <2>4, <2>5
  <2>6. CASE waiting["sock_avail"] # {}
    <3>1. PICK w \in waiting["sock_avail"] : waiting'["sock_avail"] = waiting["sock_avail"] \ {w}
      BY <1>2, <2>1, <2>6, SignalWakes
    <3>2. w \in Workers /\ pc[w] = "lock_sock"
      BY <3>1 DEF LockDiscipline
    <3>3. w \notin A
      BY <1>1, <1>2, <3>1 DEF A, Bound, Asleep
    <3>4. \A c \in Conds : w \notin waiting'[c]
      BY <1>2, <2>3, <3>1, <3>2 DEF LockDiscipline
    <3>5. w \in B
      BY <1>1, <2>2, <3>2, <3>4 DEF B, Bound, Asleep, Takers
    <3>6. /\ Cardinality(A) + 1 <= Cardinality(B)
          /\ Cardinality(A) \in Nat /\ Cardinality(B) \in Nat
      <4>1. A \subseteq B \ {w}
        BY <2>4, <3>3
      <4> QED
        BY <1>3, <3>5, <4>1, CountWorkers
    <3> QED
      BY <1>1, <1>4, <2>1, <2>6, <3>6
  <2> QED
    BY <2>5, <2>6
<1>10. CASE MainStep
  <2>1. CASE Accept
    <3>1. Goto(Main, "accept", "lock_sock") /\ UNCHANGED <<waiting, socket_queue>>
      BY <2>1 DEF Accept, pthreadVars, queueVars
    <3>2. \A w \in Workers : pc'[w] = pc[w]
      BY <1>2, <3>1, GotoMoves
    <3> QED
      BY <1>5, <1>6, <3>1, <3>2
  <2>2. CASE MainLock \/ MainUnlock
    BY <1>2, <1>7, <2>2 DEF MainLock, MainUnlock
  <2>3. CASE MainWait
    BY <1>2, <1>8, <2>3 DEF MainWait
  <2> QED
    BY <1>9, <1>10, <2>1, <2>2, <2>3 DEF MainStep
<1>11. ASSUME NEW w \in Workers, TakeSock(w)
       PROVE  TakersSuffice'
  <2>1. /\ Goto(w, "take_sock", "unlock_sock") /\ pthread_cond_signal("sock_empty")
        /\ socket_queue'.size = socket_queue.size - 1
    BY <1>11 DEF TakeSock, PopSock, pop, TypeOK, QueueTypeOK, Queues
  <2>2. \A c \in Conds : waiting'[c] \subseteq waiting[c]
    BY <1>2, <2>1, SignalWakes
  <2>3. A \ {w} \subseteq B
    BY <1>1, <1>2, <2>1, <2>2, GotoMoves DEF A, B, Bound, Asleep
  <2>4. /\ Cardinality(A) <= Cardinality(B) + 1
        /\ Cardinality(A) \in Nat /\ Cardinality(B) \in Nat
    BY <1>3, <2>3, CountWorkers
  <2>5. waiting'["sock_avail"] \subseteq waiting["sock_avail"]
    BY <1>2, <2>2
  <2> QED
    BY <1>1, <1>4, <2>1, <2>4, <2>5
<1>12. ASSUME NEW w \in Workers, WorkerWait(w)
       PROVE  TakersSuffice'
  <2>1. socket_queue'.size = 0
    BY <1>12 DEF WorkerWait, Wait, queueVars, empty
  <2>2. Cardinality(B) \in Nat
    BY <1>3, CountWorkers
  <2> QED
    BY <1>4, <2>1, <2>2
<1>13. ASSUME NEW w \in Workers, NEW from, NEW to, Goto(w, from, to),
              UNCHANGED <<waiting, socket_queue>>, from \notin Takers
       PROVE  TakersSuffice'
  <2>1. \A v \in Workers : pc[v] \in Takers => pc'[v] \in Takers
    BY <1>2, <1>13, GotoMoves
  <2> QED
    BY <1>5, <1>6, <1>13, <2>1
<1>14. ASSUME NEW w \in Workers, WorkerStep(w)
       PROVE  TakersSuffice'
  <2>1. CASE WorkerLock(w) \/ WorkerUnlock(w) \/ LogLock(w) \/ LogUnlock(w)
    BY <1>2, <1>7, <2>1 DEF WorkerLock, WorkerUnlock, LogLock, LogUnlock, Takers
  <2>2. CASE LogWait(w)
    BY <1>2, <1>8, <2>2 DEF LogWait, Takers
  <2>3. CASE PutLog(w)
    <3>1. /\ Goto(w, "put_log", "unlock_log") /\ pthread_cond_signal("log_avail")
          /\ UNCHANGED socket_queue
      BY <2>3 DEF PutLog, PushLog
    <3>2. \A v \in Workers : pc[v] \in Takers => pc'[v] \in Takers
      BY <1>2, <3>1, GotoMoves DEF Takers
    <3>3. \A c \in Conds : waiting'[c] \subseteq waiting[c]
      BY <1>2, <3>1, SignalWakes
    <3> QED
      BY <1>5, <1>6, <3>1, <3>2, <3>3
  <2>4. CASE Sigpipe(w)
    BY <1>5, <1>6, <2>4 DEF Sigpipe, pthreadVars, threadVars, queueVars
  <2>5. CASE Greet(w) \/ PingQueued(w) \/ PingServed(w) \/ Prompt(w)
             \/ Receive(w) \/ Answer(w) \/ Close(w)
    <3>1. UNCHANGED <<waiting, socket_queue>>
      BY <2>5 DEF Greet, PingQueued, PingServed, Ping, Prompt, Receive, Answer, Close,
         LocalUnchanged, pthreadVars, queueVars
    <3>2. \E from \in {"greet", "ping_queued", "ping", "prompt", "receive", "answer", "close"} :
             \E to \in WorkerPC : Goto(w, from, to)
      BY <2>5 DEF Greet, PingQueued, PingServed, Ping, Prompt, Receive, Answer, Close, WorkerPC
    <3> QED
      BY <1>13, <3>1, <3>2 DEF Takers
  <2> QED
    BY <1>11, <1>12, <1>14, <2>1, <2>2, <2>3, <2>4, <2>5 DEF WorkerStep
<1>15. CASE LoggerStep
  <2>1. CASE LoggerLock \/ LoggerUnlock
    BY <1>2, <1>7, <2>1 DEF LoggerLock, LoggerUnlock
  <2>2. CASE LoggerWait
    BY <1>2, <1>8, <2>2 DEF LoggerWait
  <2>3. CASE TakeLog
    <3>1. /\ Goto(Logger, "take_log", "unlock_log") /\ pthread_cond_signal("log_empty")
          /\ UNCHANGED socket_queue
      BY <2>3 DEF TakeLog, PopLog
    <3>2. \A v \in Workers : pc'[v] = pc[v]
      BY <1>2, <3>1, GotoMoves
    <3>3. \A c \in Conds : waiting'[c] \subseteq waiting[c]
      BY <1>2, <3>1, SignalWakes
    <3> QED
      BY <1>5, <1>6, <3>1, <3>2, <3>3
  <2> QED
    BY <1>15, <2>1, <2>2, <2>3 DEF LoggerStep
<1>16. CASE ClientStep \/ Dead \/ UNCHANGED vars
  BY <1>5, <1>6, <1>16 DEF ClientStep, Dead, vars, pthreadVars, threadVars, queueVars
<1>17. CASE Wakeup
  <2>1. UNCHANGED <<pc, socket_queue>> /\ \A c \in Conds : waiting'[c] \subseteq waiting[c]
    BY <1>1, <1>17 DEF Wakeup, SpuriousWakeup, threadVars, queueVars
  <2> QED
    BY <1>5, <1>6, <2>1
<1> QED
  BY <1>10, <1>14, <1>15, <1>16, <1>17 DEF Next

-----------------------------------------------------------------------------
(* Workers that wait for room in the log queue.                            *)

(* While a worker sleeps, enough others are awake to fill every free slot: *)
(* the logger wakes one for each that it frees.                            *)
LEMMA PuttersStep ==
  TypeOK /\ TypeOK' /\ LockDiscipline /\ PuttersSuffice /\ [Next]_vars => PuttersSuffice'
<1> SUFFICES ASSUME TypeOK, TypeOK', LockDiscipline, PuttersSuffice, [Next]_vars
             PROVE  PuttersSuffice'
  OBVIOUS
<1> DEFINE A == Bound(Putters)
           B == Bound(Putters)'
<1>1. /\ waiting \in [Conds -> SUBSET Threads] /\ waiting' \in [Conds -> SUBSET Threads]
      /\ pc \in [Threads -> MainPC \cup WorkerPC \cup LoggerPC]
      /\ log_queue.size \in 0 .. SIZE /\ log_queue'.size \in 0 .. SIZE
      /\ SIZE \in Nat
  BY SizeAssumption DEF TypeOK, ThreadTypeOK, QueueTypeOK, Queues
<1>2. /\ Main \in Threads /\ Logger \in Threads /\ Workers \subseteq Threads
      /\ Main \notin Workers /\ Logger \notin Workers
      /\ Conds = {"sock_avail", "sock_empty", "log_avail", "log_empty"}
  BY ThreadAssumption DEF Threads, Conds
<1>3. A \in SUBSET Workers /\ B \in SUBSET Workers
  BY BoundSubset
<1>4. /\ waiting["log_empty"] # {} => SIZE - log_queue.size <= Cardinality(A)
      /\ (waiting'["log_empty"] # {} => SIZE - log_queue'.size <= Cardinality(B))
            => PuttersSuffice'
  BY DEF PuttersSuffice
<1> HIDE DEF A, B
<1>5. ASSUME log_queue' = log_queue, A \subseteq B,
             waiting'["log_empty"] \subseteq waiting["log_empty"]
      PROVE  PuttersSuffice'
  <2>1. Cardinality(A) <= Cardinality(B) /\ Cardinality(A) \in Nat /\ Cardinality(B) \in Nat
    BY <1>3, <1>5, CountWorkers
  <2> QED
    BY <1>1, <1>4, <1>5, <2>1
<1>6. ASSUME \A c \in Conds : waiting'[c] \subseteq waiting[c],
             \A w \in Workers : pc[w] \in Putters => pc'[w] \in Putters
      PROVE  A \subseteq B /\ waiting'["log_empty"] \subseteq waiting["log_empty"]
  BY <1>2, <1>6, BoundGrows DEF A, B
<1>7. ASSUME NEW t \in Threads, NEW from, NEW to, NEW m,
             Lock(t, m, from, to) \/ Unlock(t, m, from, to),
             from \in Putters => to \in Putters \/ t \notin Workers
      PROVE  PuttersSuffice'
  <2>1. Goto(t, from, to) /\ UNCHANGED <<waiting, log_queue>>
    BY <1>7 DEF Lock, Unlock, queueVars, pthread_mutex_lock, pthread_mutex_unlock
  <2>2. \A w \in Workers : pc[w] \in Putters => pc'[w] \in Putters
    BY <1>2, <1>7, <2>1, GotoMoves
  <2> QED
    BY <1>5, <1>6, <2>1, <2>2
<1>8. ASSUME NEW t \in Threads, NEW from, NEW to, NEW m, NEW c \in Conds \ {"log_empty"},
             Wait(t, c, m, from, to), t \in Workers => from \notin Putters
      PROVE  PuttersSuffice'
  <2>1. Goto(t, from, to) /\ pthread_cond_wait(t, c, m) /\ UNCHANGED log_queue
    BY <1>8 DEF Wait, queueVars
  <2>2. t \notin Bound(Putters)
    BY <1>8, <2>1, GotoMoves DEF Bound
  <2>3. A \subseteq B
    BY <1>2, <2>1, <2>2, GotoMoves, WaitKeepsBound DEF A, B
  <2>4. waiting'["log_empty"] \subseteq waiting["log_empty"]
    BY <1>1, <1>2, <1>8, <2>1 DEF pthread_cond_wait
  <2> QED
    BY <1>5, <2>1, <2>3, <2>4
<1>9. CASE TakeLog
  <2>1. /\ Goto(Logger, "take_log", "unlock_log") /\ pthread_cond_signal("log_empty")
        /\ log_queue'.size = log_queue.size - 1
    BY <1>9 DEF TakeLog, PopLog, pop, TypeOK, QueueTypeOK, Queues
  <2>2. \A w \in Workers : pc'[w] = pc[w]
    BY <1>2, <2>1, GotoMoves
  <2>3. \A c \in Conds : waiting'[c] \subseteq waiting[c]
    BY <1>2, <2>1, SignalWakes
  <2>4. A \subseteq B /\ waiting'["log_empty"] \subseteq waiting["log_empty"]
    BY <1>6, <2>2, <2>3
  <2>5. CASE waiting["log_empty"] = {}
    BY <1>4, <2>4, <2>5
  <2>6. CASE waiting["log_empty"] # {}
    <3>1. PICK w \in waiting["log_empty"] : waiting'["log_empty"] = waiting["log_empty"] \ {w}
      BY <1>2, <2>1, <2>6, SignalWakes
    <3>2. w \in Workers /\ pc[w] = "lock_log"
      BY <3>1 DEF LockDiscipline
    <3>3. w \notin A
      BY <1>1, <1>2, <3>1 DEF A, Bound, Asleep
    <3>4. \A c \in Conds : w \notin waiting'[c]
      BY <1>2, <2>3, <3>1, <3>2 DEF LockDiscipline
    <3>5. w \in B
      BY <1>1, <2>2, <3>2, <3>4 DEF B, Bound, Asleep, Putters
    <3>6. /\ Cardinality(A) + 1 <= Cardinality(B)
          /\ Cardinality(A) \in Nat /\ Cardinality(B) \in Nat
      <4>1. A \subseteq B \ {w}
        BY <2>4, <3>3
      <4> QED
        BY <1>3, <3>5, <4>1, CountWorkers
    <3> QED
      BY <1>1, <1>4, <2>1, <2>6, <3>6
  <2> QED
    BY <2>5, <2>6
<1>10. ASSUME NEW w \in Workers, PutLog(w)
       PROVE  PuttersSuffice'
  <2>1. /\ Goto(w, "put_log", "unlock_log") /\ pthread_cond_signal("log_avail")
        /\ log_queue'.size = log_queue.size + 1
    BY <1>10 DEF PutLog, PushLog, push, TypeOK, QueueTypeOK, Queues
  <2>2. \A c \in Conds : waiting'[c] \subseteq waiting[c]
    BY <1>2, <2>1, SignalWakes
  <2>3. A \ {w} \subseteq B
    BY <1>1, <1>2, <2>1, <2>2, GotoMoves DEF A, B, Bound, Asleep
  <2>4. /\ Cardinality(A) <= Cardinality(B) + 1
        /\ Cardinality(A) \in Nat /\ Cardinality(B) \in Nat
    BY <1>3, <2>3, CountWorkers
  <2>5. waiting'["log_empty"] \subseteq waiting["log_empty"]
    BY <1>2, <2>2
  <2> QED
    BY <1>1, <1>4, <2>1, <2>4, <2>5
<1>11. ASSUME NEW w \in Workers, LogWait(w)
       PROVE  PuttersSuffice'
  <2>1. log_queue'.size = SIZE
    BY <1>11 DEF LogWait, Wait, queueVars, full
  <2>2. Cardinality(B) \in Nat
    BY <1>3, CountWorkers
  <2> QED
    BY <1>1, <1>4, <2>1, <2>2
<1>12. ASSUME NEW w \in Workers, NEW from, NEW to, Goto(w, from, to),
              UNCHANGED <<waiting, log_queue>>, from \notin Putters
       PROVE  PuttersSuffice'
  <2>1. \A v \in Workers : pc[v] \in Putters => pc'[v] \in Putters
    BY <1>2, <1>12, GotoMoves
  <2> QED
    BY <1>5, <1>6, <1>12, <2>1
<1>13. CASE MainStep
  <2>1. CASE Accept
    <3>1. Goto(Main, "accept", "lock_sock") /\ UNCHANGED <<waiting, log_queue>>
      BY <2>1 DEF Accept, pthreadVars, queueVars
    <3>2. \A w \in Workers : pc'[w] = pc[w]
      BY <1>2, <3>1, GotoMoves
    <3> QED
      BY <1>5, <1>6, <3>1, <3>2
  <2>2. CASE MainLock \/ MainUnlock
    BY <1>2, <1>7, <2>2 DEF MainLock, MainUnlock
  <2>3. CASE MainWait
    BY <1>2, <1>8, <2>3 DEF MainWait
  <2>4. CASE PutSock
    <3>1. /\ Goto(Main, "put_sock", "unlock_sock") /\ pthread_cond_signal("sock_avail")
          /\ UNCHANGED log_queue
      BY <2>4 DEF PutSock, PushSock
    <3>2. \A w \in Workers : pc'[w] = pc[w]
      BY <1>2, <3>1, GotoMoves
    <3>3. \A c \in Conds : waiting'[c] \subseteq waiting[c]
      BY <1>2, <3>1, SignalWakes
    <3> QED
      BY <1>5, <1>6, <3>1, <3>2, <3>3
  <2> QED
    BY <1>13, <2>1, <2>2, <2>3, <2>4 DEF MainStep
<1>14. ASSUME NEW w \in Workers, WorkerStep(w)
       PROVE  PuttersSuffice'
  <2>1. CASE WorkerLock(w) \/ WorkerUnlock(w) \/ LogLock(w) \/ LogUnlock(w)
    BY <1>2, <1>7, <2>1 DEF WorkerLock, WorkerUnlock, LogLock, LogUnlock, Putters
  <2>2. CASE WorkerWait(w)
    BY <1>2, <1>8, <2>2 DEF WorkerWait, Putters
  <2>3. CASE TakeSock(w)
    <3>1. /\ Goto(w, "take_sock", "unlock_sock") /\ pthread_cond_signal("sock_empty")
          /\ UNCHANGED log_queue
      BY <2>3 DEF TakeSock, PopSock
    <3>2. \A v \in Workers : pc[v] \in Putters => pc'[v] \in Putters
      BY <1>2, <3>1, GotoMoves DEF Putters
    <3>3. \A c \in Conds : waiting'[c] \subseteq waiting[c]
      BY <1>2, <3>1, SignalWakes
    <3> QED
      BY <1>5, <1>6, <3>1, <3>2, <3>3
  <2>4. CASE Sigpipe(w)
    BY <1>5, <1>6, <2>4 DEF Sigpipe, pthreadVars, threadVars, queueVars
  <2>5. CASE Greet(w) \/ PingQueued(w) \/ PingServed(w) \/ Prompt(w)
             \/ Receive(w) \/ Answer(w) \/ Close(w)
    <3>1. UNCHANGED <<waiting, log_queue>>
      BY <2>5 DEF Greet, PingQueued, PingServed, Ping, Prompt, Receive, Answer, Close,
         LocalUnchanged, pthreadVars, queueVars
    <3>2. \E from \in {"greet", "ping_queued", "ping", "prompt", "receive", "answer", "close"} :
             \E to \in WorkerPC : Goto(w, from, to)
      BY <2>5 DEF Greet, PingQueued, PingServed, Ping, Prompt, Receive, Answer, Close, WorkerPC
    <3> QED
      BY <1>12, <3>1, <3>2 DEF Putters
  <2> QED
    BY <1>10, <1>11, <1>14, <2>1, <2>2, <2>3, <2>4, <2>5 DEF WorkerStep
<1>15. CASE LoggerStep
  <2>1. CASE LoggerLock \/ LoggerUnlock
    BY <1>2, <1>7, <2>1 DEF LoggerLock, LoggerUnlock
  <2>2. CASE LoggerWait
    BY <1>2, <1>8, <2>2 DEF LoggerWait
  <2> QED
    BY <1>9, <1>15, <2>1, <2>2 DEF LoggerStep
<1>16. CASE ClientStep \/ Dead \/ UNCHANGED vars
  BY <1>5, <1>6, <1>16 DEF ClientStep, Dead, vars, pthreadVars, threadVars, queueVars
<1>17. CASE Wakeup
  <2>1. UNCHANGED <<pc, log_queue>> /\ \A c \in Conds : waiting'[c] \subseteq waiting[c]
    BY <1>1, <1>17 DEF Wakeup, SpuriousWakeup, threadVars, queueVars
  <2> QED
    BY <1>5, <1>6, <2>1
<1> QED
  BY <1>13, <1>14, <1>15, <1>16, <1>17 DEF Next

(* No wakeup is lost, for any number of workers: no thread sleeps while    *)
(* there is an item, or a slot, that nobody awake is bound for.            *)
THEOREM WakeupsSuffice == Spec => []NoLostWakeup
<1>1. Init => TakersSuffice /\ PuttersSuffice
  BY DEF Init, TakersSuffice, PuttersSuffice, Conds
<1>2. TypeOK /\ TypeOK' /\ LockDiscipline /\ TakersSuffice /\ PuttersSuffice /\ [Next]_vars
        => TakersSuffice' /\ PuttersSuffice'
  BY TakersStep, PuttersStep
<1>3. Spec => [](TakersSuffice /\ PuttersSuffice)
  BY <1>1, <1>2, TypeCorrect, LocksHeld, PTL DEF Spec
<1>4. MainSleepsOnFull /\ LoggerSleepsOnEmpty /\ TakersSuffice /\ PuttersSuffice
        => NoLostWakeup
  BY DEF NoLostWakeup
<1> QED
  BY <1>3, <1>4, MainAndLoggerWake, PTL
=============================================================================
