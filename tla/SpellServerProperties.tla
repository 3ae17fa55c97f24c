----------------------- MODULE SpellServerProperties ------------------------
(***************************************************************************)
(* What must hold of Spellchecker/server.cpp.                              *)
(***************************************************************************)
EXTENDS SpellServer

(* Every variable has a value the program's types allow; in particular the *)
(* sizes of both rings stay between 0 and SIZE although push and pop do    *)
(* not look, and the slots of socket_queue hold descriptors or -1.         *)
MainPC == {"accept", "lock_sock", "put_sock", "unlock_sock"}
WorkerPC == {"lock_sock", "take_sock", "unlock_sock", "greet", "ping_queued",
             "ping", "prompt", "receive", "answer", "lock_log", "put_log",
             "unlock_log", "close"}
LoggerPC == {"lock_log", "take_log", "unlock_log"}
Request == [fd : Fds, word : Words]

SocketTypeOK ==
  /\ peer \in [Fds -> PeerStates]
  /\ rx \in [Fds -> {<<>>} \cup {<<m>> : m \in Message}]
  /\ prompted \subseteq Fds
  /\ requests \in Seq(Request)
  /\ Len(requests) <= MaxRequests

ThreadTypeOK ==
  /\ pc \in [Threads -> MainPC \cup WorkerPC \cup LoggerPC]
  /\ pc[Main] \in MainPC
  /\ pc[Logger] \in LoggerPC
  /\ \A w \in Workers : pc[w] \in WorkerPC
  /\ sock \in [Workers \cup {Main} -> Fds \cup {NoFd}]
  /\ word \in [Workers -> Entry \cup {NoEntry}]
  /\ owner \in [Mutexes -> Threads \cup {NoThread}]
  /\ waiting \in [Conds -> SUBSET Threads]
  /\ alive \in BOOLEAN

QueueTypeOK ==
  /\ socket_queue \in Queues(Fds \cup {NoFd})
  /\ log_queue \in Queues(Entry \cup {NoEntry})
  /\ log \in Seq(Entry \cup {NoEntry})

TypeOK == SocketTypeOK /\ ThreadTypeOK /\ QueueTypeOK

-----------------------------------------------------------------------------
(* Locking.                                                                *)

InSockSection == {"put_sock", "take_sock", "unlock_sock"}
InLogSection == {"put_log", "take_log", "unlock_log"}

(* A thread is between lock and unlock exactly when it owns the mutex, and *)
(* a thread that sleeps is back at the lock of the mutex that goes with    *)
(* its condition variable: pthread_cond_wait and the while loops around it *)
(* pair the right lock with the right condition (lines 170-187, 250-271,   *)
(* 372-388, 406-425).                                                      *)
LockDiscipline ==
  /\ \A t \in Threads :
       /\ pc[t] \in InSockSection <=> owner["sock_lock"] = t
       /\ pc[t] \in InLogSection <=> owner["log_lock"] = t
  /\ waiting["sock_empty"] \subseteq {Main}
  /\ waiting["log_avail"] \subseteq {Logger}
  /\ waiting["sock_avail"] \subseteq {w \in Workers : pc[w] = "lock_sock"}
  /\ waiting["log_empty"] \subseteq {w \in Workers : pc[w] = "lock_log"}
  /\ Main \in waiting["sock_empty"] => pc[Main] = "lock_sock"
  /\ Logger \in waiting["log_avail"] => pc[Logger] = "lock_log"

(* No wakeup is lost although each thread signals once per item and the    *)
(* signal of an unwatched condition is dropped.  Main sleeps only while    *)
(* the socket queue is full, the logger only while the log queue is empty; *)
(* if workers sleep, then at least as many others are awake and bound for  *)
(* the queue as it holds items to take, or slots to fill.                  *)
Bound(for) == {w \in Workers : pc[w] \in for /\ ~ Asleep(w)}
Takers == {"lock_sock", "take_sock"}
Putters == {"lock_log", "put_log"}

MainSleepsOnFull == waiting["sock_empty"] # {} => full(socket_queue)
LoggerSleepsOnEmpty == waiting["log_avail"] # {} => empty(log_queue)
TakersSuffice ==
  waiting["sock_avail"] # {} =>
    socket_queue.size <= Cardinality(Bound(Takers))
PuttersSuffice ==
  waiting["log_empty"] # {} =>
    SIZE - log_queue.size <= Cardinality(Bound(Putters))

NoLostWakeup ==
  MainSleepsOnFull /\ LoggerSleepsOnEmpty /\ TakersSuffice /\ PuttersSuffice

-----------------------------------------------------------------------------
(* Connections.                                                            *)

Queued == Contents(socket_queue)

(* The places that answer for fd: main between accept and push, the slots  *)
(* of the queue that are in use, and the workers that will close it.       *)
Holders(fd) ==
  {t \in Workers \cup {Main} : sock[t] = fd} \cup
  {i \in 1 .. Len(Queued) : Queued[i] = fd}

(* Every open connection has exactly one holder, and no one holds a closed *)
(* descriptor: a descriptor is never leaked, never served twice, and never *)
(* closed again after accept has handed its number out anew (accept at     *)
(* line 167, push 178, pop 262, the closes at 278, 290 and 392).           *)
SoleOwner ==
  \A fd \in Fds :
    Cardinality(Holders(fd)) = IF peer[fd] = "none" THEN 0 ELSE 1

-----------------------------------------------------------------------------
(* Results.                                                                *)

InHand(w) == IF word[w] = NoEntry THEN <<>> ELSE <<word[w]>>

(* The log file followed by what the logger has yet to write.              *)
Written == log \o Contents(log_queue)

Ids(s) == {s[i].id : i \in 1 .. Len(s)}

(* A result is in one place: in the hand of one worker, or once in the     *)
(* queue or the file (push 379, pop 413).                                  *)
InOnePlace ==
  /\ NoEntry \notin {Written[i] : i \in 1 .. Len(Written)}
  /\ Cardinality(Ids(Written)) = Len(Written)
  /\ \A v, w \in Workers : v # w => Ids(InHand(v)) \cap Ids(InHand(w)) = {}
  /\ \A w \in Workers : Ids(InHand(w)) \cap Ids(Written) = {}

(* What the client typed, with its own verdict.                            *)
Unmangled ==
  \A i \in 1 .. Len(Written) :
    LET e == Written[i] IN
    /\ e.word = requests[e.id].word
    /\ e.ok = (e.word \in Dictionary)

(* Each answer is logged once, and as it was given, although the rings are *)
(* shared by all threads and their sizes are not checked.                  *)
LoggedOnce == InOnePlace /\ Unmangled

(* The log keeps each client's order, however the workers interleave: of   *)
(* two entries from one descriptor the one typed first is written first.   *)
LogKeepsOrder ==
  \A i, j \in 1 .. Len(Written) :
    i < j /\ requests[Written[i].id].fd = requests[Written[j].id].fd
      => Written[i].id < Written[j].id

(* A client that waits for the prompt never loses input to the pings of    *)
(* lines 286 and 303, which throw away whatever they receive.              *)
NoWordSwallowed ==
  \A w \in Workers : pc[w] \in {"ping_queued", "ping"} => ~ HasData(sock[w])

-----------------------------------------------------------------------------
(* The server behaves like the service of SpellService: the rings are      *)
(* FIFO queues, push and pop under the mutexes are the atomic handovers.   *)
Service == INSTANCE SpellService WITH
  Clients <- Fds, NoClient <- NoFd, Capacity <- SIZE,
  RequestIds <- 1 .. MaxRequests,
  queued <- Queued, serving <- [w \in Workers |-> sock[w]],
  results <- Contents(log_queue)

ImplementsService == Service!Spec

-----------------------------------------------------------------------------
(* Progress.  The operating system runs every thread; nobody has to        *)
(* connect or to type.  FairSpec adds that clients leave in the end, as    *)
(* the deployment notes of the README assume.  Mutexes are not fair: a     *)
(* thread need not get one that others keep taking.  A worker with a       *)
(* result may therefore starve at log_lock while others keep writing, and  *)
(* with it its client and a place in the pool: the two properties of       *)
(* FairSpec are for clients that type nothing.                             *)
MainFairness == WF_vars(MainLock \/ MainWait \/ PutSock \/ MainUnlock)
PoolFairness == (\A w \in Workers : WF_vars(WorkerStep(w))) /\ WF_vars(LoggerStep)

(* Results only need the logger and the workers on their way to the log.   *)
FairLogging ==
  /\ Spec
  /\ \A w \in Workers :
       WF_vars(Answer(w) \/ LogLock(w) \/ LogWait(w) \/ PutLog(w) \/ LogUnlock(w))
  /\ WF_vars(LoggerStep)

ClientLeaves(fd) ==
  /\ alive
  /\ Finish(fd)
  /\ UNCHANGED <<pthreadVars, threadVars, queueVars, log, alive>>

FairSpec ==
  Spec /\ MainFairness /\ PoolFairness /\ \A fd \in Fds : WF_vars(ClientLeaves(fd))

(* "The extra clients were accepted once the clients currently being       *)
(* serviced disconnected": a queued connection gets a worker, although     *)
(* each worker takes any connection and mutexes are not fair.              *)
QueuedIsServed ==
  \A fd \in Fds :
    (\E i \in 1 .. Len(Queued) : Queued[i] = fd) ~>
      (\E w \in Workers : sock[w] = fd)

(* A connection does not stay open once its client is gone: no descriptor  *)
(* is held for ever by a queue or a sleeping thread.                       *)
EveryConnectionCloses ==
  \A fd \in Fds : peer[fd] # "none" ~> peer[fd] = "none"

(* The log file does not stand still while a result is on its way to it,  *)
(* in a worker's hand or in the queue.  A worker may lose every race for   *)
(* log_lock, so its own result may stay behind for ever; but what overtakes *)
(* it is written, and until the next entry at most SIZE results can        *)
(* overtake it before the others wait for room (lines 370-389, 404-425).   *)
ResultsOnTheWay ==
  ~ empty(log_queue) \/ \E w \in Workers : word[w] # NoEntry

LogMovesOn == <>[]ResultsOnTheWay => []<><<log' # log>>_vars

-----------------------------------------------------------------------------
(* Spellchecker/README.md: a client that disconnects ends its service and  *)
(* "program execution continues as normal in either case".                 *)
StaysUp == alive
=============================================================================
