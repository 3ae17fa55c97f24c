----------------------------- MODULE SpellServer -----------------------------
(***************************************************************************)
(* Spellchecker/server.cpp: the main thread accepts connections and puts   *)
(* their descriptors on socket_queue, worker threads take them off and     *)
(* serve one client at a time, and their results go through log_queue to   *)
(* the logger thread.  Each queue has a mutex and two condition variables. *)
(*                                                                         *)
(* One action is one system call, one mutex operation, or the body of one  *)
(* critical section.  The body is a single step because each queue is      *)
(* touched only under its mutex.                                           *)
(***************************************************************************)
EXTENDS CircularQueue, PThreads, Sockets, FiniteSets

CONSTANTS
  Workers,      \* the THREADS worker threads
  Main, Logger,
  Dictionary,   \* the words that are spelled correctly
  ReadsAs,      \* recv leaves no terminator: what a typed word may be read as
  Quit,         \* the word "quit"
  NoEntry,      \* no word in hand
  AcceptFails,  \* accept may return -1
  Spurious      \* pthread_cond_wait may return without a signal

ASSUME ThreadAssumption ==
  /\ Main \notin Workers \cup {Logger, NoThread}
  /\ Logger \notin Workers \cup {NoThread}
  /\ NoThread \notin Workers
  /\ IsFiniteSet(Workers)
ASSUME ServerAssumption ==
  /\ ReadsAs \in [Words -> SUBSET Words]
  /\ {AcceptFails, Spurious} \subseteq BOOLEAN

VARIABLES
  pc,            \* thread -> the next thing it does
  sock,          \* main and worker -> the local variable sock
  word,          \* worker -> the answered word it holds
  socket_queue,
  log_queue,
  log,           \* the entries in the log file
  alive          \* the process has not been killed

threadVars == <<pc, sock, word>>
queueVars == <<socket_queue, log_queue>>
vars == <<pthreadVars, socketVars, threadVars, queueVars, log, alive>>

Threads == Workers \cup {Main, Logger}
Mutexes == {"sock_lock", "log_lock"}
Conds == {"sock_avail", "sock_empty", "log_avail", "log_empty"}
Entry == [id : 1 .. MaxRequests, word : Words, ok : BOOLEAN]

ASSUME EntryAssumption == NoEntry \notin Entry

(* After init_threads; main is about to accept.                            *)
Init ==
  /\ SocketInit
  /\ owner = [m \in Mutexes |-> NoThread]
  /\ waiting = [c \in Conds |-> {}]
  /\ pc = [t \in Threads |-> CASE t = Main   -> "accept"
                               [] t = Logger -> "lock_log"
                               [] OTHER      -> "lock_sock"]
  /\ sock = [t \in Workers \cup {Main} |-> NoFd]
  /\ word = [w \in Workers |-> NoEntry]
  /\ socket_queue = circular_queue(NoFd)
  /\ log_queue = circular_queue(NoEntry)
  /\ log = <<>>
  /\ alive = TRUE

Goto(t, from, to) ==
  /\ alive
  /\ alive' = TRUE
  /\ pc[t] = from
  /\ pc' = [pc EXCEPT ![t] = to]

-----------------------------------------------------------------------------
(* Taking and releasing the mutexes.                                       *)

Lock(t, m, from, to) ==
  /\ Goto(t, from, to)
  /\ pthread_mutex_lock(t, m)
  /\ UNCHANGED <<socketVars, sock, word, queueVars, log>>

Unlock(t, m, from, to) ==
  /\ Goto(t, from, to)
  /\ pthread_mutex_unlock(m)
  /\ UNCHANGED <<socketVars, sock, word, queueVars, log>>

Wait(t, c, m, from, to) ==
  /\ Goto(t, from, to)
  /\ pthread_cond_wait(t, c, m)
  /\ UNCHANGED <<socketVars, sock, word, queueVars, log>>

-----------------------------------------------------------------------------
(* The main thread.                                                        *)

Accept ==
  /\ Goto(Main, "accept", "lock_sock")
  /\ \/ \E fd \in Fds :
          /\ accept(fd)
          /\ sock' = [sock EXCEPT ![Main] = fd]
     \/ /\ AcceptFails
        /\ sock' = [sock EXCEPT ![Main] = NoFd]
        /\ UNCHANGED socketVars
  /\ UNCHANGED <<pthreadVars, word, queueVars, log>>

MainLock == Lock(Main, "sock_lock", "lock_sock", "put_sock")

(* Faulty: waits on the workers' condition variable.                       *)
MainWaitSwapped ==
  /\ full(socket_queue)
  /\ Wait(Main, "sock_avail", "sock_lock", "put_sock", "lock_sock")

MainWait ==
  /\ full(socket_queue)
  /\ Wait(Main, "sock_empty", "sock_lock", "put_sock", "lock_sock")

(* The descriptor is queued before it is compared with -1.                 *)
PushSock ==
  /\ Goto(Main, "put_sock", "unlock_sock")
  /\ ~ full(socket_queue)
  /\ socket_queue' = push(socket_queue, sock[Main])
  /\ sock' = [sock EXCEPT ![Main] = NoFd]
  /\ UNCHANGED <<socketVars, word, log_queue, log>>

(* Faulty: no signal.                                                      *)
PutSockSilent == PushSock /\ UNCHANGED pthreadVars

PutSock == PushSock /\ pthread_cond_signal("sock_avail")

MainUnlock == Unlock(Main, "sock_lock", "unlock_sock", "accept")

MainStep == Accept \/ MainLock \/ MainWait \/ PutSock \/ MainUnlock

-----------------------------------------------------------------------------
(* A worker takes a connection off the queue.                              *)

WorkerLock(w) == Lock(w, "sock_lock", "lock_sock", "take_sock")

WorkerWait(w) ==
  /\ empty(socket_queue)
  /\ Wait(w, "sock_avail", "sock_lock", "take_sock", "lock_sock")

PopSock(w) ==
  /\ Goto(w, "take_sock", "unlock_sock")
  /\ ~ empty(socket_queue)
  /\ sock' = [sock EXCEPT ![w] = front_item(socket_queue)]
  /\ socket_queue' = pop(socket_queue)
  /\ UNCHANGED <<socketVars, word, log_queue, log>>

TakeSock(w) == PopSock(w) /\ pthread_cond_signal("sock_empty")

WorkerUnlock(w) == Unlock(w, "sock_lock", "unlock_sock", "greet")

-----------------------------------------------------------------------------
(* A worker serves the client.                                             *)

LocalUnchanged == UNCHANGED <<pthreadVars, sock, queueVars, log>>

(* send on a connection whose error was already reported raises SIGPIPE,   *)
(* which nobody handles: the process ends.                                 *)
Sigpipe(w) ==
  /\ alive
  /\ pc[w] \in {"greet", "prompt", "answer"}
  /\ SendKills(sock[w])
  /\ alive' = FALSE
  /\ UNCHANGED <<pthreadVars, socketVars, threadVars, queueVars, log>>

(* Faulty: the greeting already invites input.                             *)
GreetPrompting(w) ==
  /\ \/ SendWorks(sock[w]) /\ Goto(w, "greet", "ping_queued")
     \/ SendFails(sock[w]) /\ Goto(w, "greet", "close")
  /\ peer' = peerAfterSend(sock[w])
  /\ prompted' = prompted \cup ({sock[w]} \ {NoFd})
  /\ UNCHANGED <<rx, requests, word>>
  /\ LocalUnchanged

Greet(w) ==
  /\ \/ SendWorks(sock[w]) /\ Goto(w, "greet", "ping_queued")
     \/ SendFails(sock[w]) /\ Goto(w, "greet", "close")
  /\ peer' = peerAfterSend(sock[w])
  /\ UNCHANGED <<rx, prompted, requests, word>>
  /\ LocalUnchanged

(* Only a 0 counts: an error and swallowed input are both "still there".   *)
Ping(w, from, to) ==
  /\ \/ AtEnd(sock[w]) /\ Goto(w, from, "close")
     \/ ~ AtEnd(sock[w]) /\ Goto(w, from, to)
  /\ peer' = peerAfterRecv(sock[w])
  /\ rx' = rxAfterPing(sock[w])
  /\ UNCHANGED <<prompted, requests, word>>
  /\ LocalUnchanged

PingQueued(w) == Ping(w, "ping_queued", "ping")

PingServed(w) == Ping(w, "ping", "prompt")

(* A failed send is reported and service goes on.                          *)
Prompt(w) ==
  /\ Goto(w, "prompt", "receive")
  /\ SendWorks(sock[w]) \/ SendFails(sock[w])
  /\ peer' = peerAfterSend(sock[w])
  /\ prompted' = IF Open(sock[w]) /\ peer[sock[w]] = "open"
                 THEN prompted \cup {sock[w]} ELSE prompted
  /\ UNCHANGED <<rx, requests, word>>
  /\ LocalUnchanged

(* recv leaves no terminator and trim drops the white space.               *)
TextRead(m) == ReadsAs[m.word]

(* Blocks until there is input, end of file or an error.                   *)
Receive(w) ==
  /\ \/ /\ HasData(sock[w])
        /\ LET m == Head(rx[sock[w]]) IN \E read \in TextRead(m) :
             IF read = Quit
             THEN /\ Goto(w, "receive", "close")
                  /\ UNCHANGED word
             ELSE /\ Goto(w, "receive", "answer")
                  /\ word' = [word EXCEPT ![w] =
                       [id |-> m.id, word |-> read, ok |-> read \in Dictionary]]
        /\ rx' = [rx EXCEPT ![sock[w]] = <<>>]
        /\ UNCHANGED peer
     \/ /\ AtEnd(sock[w]) \/ RecvFails(sock[w])
        /\ Goto(w, "receive", "close")
        /\ peer' = peerAfterRecv(sock[w])
        /\ UNCHANGED <<rx, word>>
  /\ UNCHANGED <<prompted, requests>>
  /\ LocalUnchanged

Answer(w) ==
  /\ Goto(w, "answer", "lock_log")
  /\ SendWorks(sock[w]) \/ SendFails(sock[w])
  /\ peer' = peerAfterSend(sock[w])
  /\ UNCHANGED <<rx, prompted, requests, word>>
  /\ LocalUnchanged

(* Faulty: the descriptor is forgotten but not closed.                     *)
CloseLeaking(w) ==
  /\ Goto(w, "close", "lock_sock")
  /\ sock' = [sock EXCEPT ![w] = NoFd]
  /\ UNCHANGED <<socketVars, pthreadVars, word, queueVars, log>>

Close(w) ==
  /\ Goto(w, "close", "lock_sock")
  /\ close(sock[w])
  /\ sock' = [sock EXCEPT ![w] = NoFd]
  /\ UNCHANGED <<pthreadVars, word, queueVars, log>>

-----------------------------------------------------------------------------
(* A worker hands its result to the logger.                                *)

LogLock(w) == Lock(w, "log_lock", "lock_log", "put_log")

LogWait(w) ==
  /\ full(log_queue)
  /\ Wait(w, "log_empty", "log_lock", "put_log", "lock_log")

PushLog(w) ==
  /\ Goto(w, "put_log", "unlock_log")
  /\ ~ full(log_queue)
  /\ log_queue' = push(log_queue, word[w])
  /\ word' = [word EXCEPT ![w] = NoEntry]
  /\ UNCHANGED <<socketVars, sock, socket_queue, log>>

(* Faulty: no signal.                                                      *)
PutLogSilent(w) == PushLog(w) /\ UNCHANGED pthreadVars

PutLog(w) == PushLog(w) /\ pthread_cond_signal("log_avail")

LogUnlock(w) == Unlock(w, "log_lock", "unlock_log", "ping")

WorkerStep(w) ==
  \/ WorkerLock(w) \/ WorkerWait(w) \/ TakeSock(w) \/ WorkerUnlock(w)
  \/ Sigpipe(w) \/ Greet(w) \/ PingQueued(w) \/ PingServed(w) \/ Prompt(w)
  \/ Receive(w) \/ Answer(w) \/ Close(w)
  \/ LogLock(w) \/ LogWait(w) \/ PutLog(w) \/ LogUnlock(w)

-----------------------------------------------------------------------------
(* The logger thread.                                                      *)

LoggerLock == Lock(Logger, "log_lock", "lock_log", "take_log")

LoggerWait ==
  /\ empty(log_queue)
  /\ Wait(Logger, "log_avail", "log_lock", "take_log", "lock_log")

(* pop, write to the log file, signal: all under log_lock.                 *)
PopLog ==
  /\ Goto(Logger, "take_log", "unlock_log")
  /\ ~ empty(log_queue)
  /\ log' = Append(log, front_item(log_queue))
  /\ log_queue' = pop(log_queue)
  /\ UNCHANGED <<socketVars, sock, word, socket_queue>>

TakeLog == PopLog /\ pthread_cond_signal("log_empty")

LoggerUnlock == Unlock(Logger, "log_lock", "unlock_log", "lock_log")

LoggerStep == LoggerLock \/ LoggerWait \/ TakeLog \/ LoggerUnlock

-----------------------------------------------------------------------------
ClientStep ==
  /\ alive
  /\ Client
  /\ UNCHANGED <<pthreadVars, threadVars, queueVars, log, alive>>

Wakeup ==
  /\ alive
  /\ Spurious
  /\ SpuriousWakeup
  /\ UNCHANGED <<socketVars, threadVars, queueVars, log, alive>>

(* Nothing happens any more in a process that was killed.                  *)
Dead ==
  /\ ~ alive
  /\ UNCHANGED vars

Next ==
  \/ MainStep
  \/ \E w \in Workers : WorkerStep(w)
  \/ LoggerStep
  \/ ClientStep
  \/ Wakeup
  \/ Dead

Spec == Init /\ [][Next]_vars
=============================================================================
