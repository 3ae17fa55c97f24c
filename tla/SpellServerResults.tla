------------------------- MODULE SpellServerResults -------------------------
(***************************************************************************)
(* Proofs about the results of SpellServer, for all constants: a result is *)
(* in one place (InOnePlace) and each client's results are written in the  *)
(* order of its words (LogKeepsOrder).  Each word typed has a number; the  *)
(* argument follows the numbers from the socket (rx) through the hand of a *)
(* worker (word) into the log.                                             *)
(***************************************************************************)
EXTENDS SpellServerOwners, SequenceTheorems

(* The numbers in the sockets, hands and log; 0 where there is none.       *)
RxIds == [fd \in Fds |-> IF rx[fd] = <<>> THEN 0 ELSE Head(rx[fd]).id]
HandIds == [w \in Workers |-> IF word[w] = NoEntry THEN 0 ELSE word[w].id]
WrittenIds == [i \in 1 .. Len(Written) |-> Written[i].id]

IdsTyped == RxIds \in [Fds -> Nat] /\ HandIds \in [Workers -> Nat]

(* x, h and s give no number twice, and none beyond the last one, n.       *)
Once(x, h, s, n) ==
  /\ n \in Nat
  /\ x \in [Fds -> 0 .. n] /\ h \in [Workers -> 0 .. n] /\ s \in Seq(1 .. n)
  /\ \A f, g \in Fds : x[f] = x[g] => f = g \/ x[f] = 0
  /\ \A v, w \in Workers : h[v] = h[w] => v = w \/ h[v] = 0
  /\ \A i, j \in 1 .. Len(s) : s[i] = s[j] => i = j
  /\ \A f \in Fds, w \in Workers : x[f] = h[w] => x[f] = 0
  /\ \A f \in Fds, i \in 1 .. Len(s) : x[f] # s[i]
  /\ \A w \in Workers, i \in 1 .. Len(s) : h[w] # s[i]

(* A worker has a result in hand from recv to push, and a connection from  *)
(* the greeting on.                                                        *)
HandsFull ==
  \A w \in Workers :
    /\ word[w] # NoEntry <=> pc[w] \in {"answer", "lock_log", "put_log"}
    /\ pc[w] \in {"ping_queued", "ping", "prompt", "receive", "answer", "lock_log",
                  "put_log", "unlock_log"} => sock[w] # NoFd

(* e is a result with the verdict of the dictionary.                       *)
Judged(e) == e \in Entry /\ e.ok = (e.word \in Dictionary)

Judgements ==
  /\ \A w \in Workers : word[w] # NoEntry => Judged(word[w])
  /\ \A i \in 1 .. Len(Written) : Judged(Written[i])

Results ==
  HandsFull /\ Judgements /\ Once(RxIds, HandIds, WrittenIds, Len(requests))

(* Who typed each word.                                                    *)
Froms == [i \in 1 .. Len(requests) |-> requests[i].fd]

(* Of a client's words, those in the log come first, then the one in the   *)
(* hand of its worker, then the one in its socket; k are the clients of    *)
(* the workers and o those of the words.                                   *)
InOrder(x, h, s, k, o) ==
  /\ \A f \in Fds : x[f] # 0 => o[x[f]] = f
  /\ \A w \in Workers : h[w] # 0 => o[h[w]] = k[w]
  /\ \A w \in Workers, i \in 1 .. Len(s) : h[w] # 0 /\ o[s[i]] = k[w] => s[i] < h[w]
  /\ \A f \in Fds, i \in 1 .. Len(s) : x[f] # 0 /\ o[s[i]] = f => s[i] < x[f]
  /\ \A f \in Fds, w \in Workers : h[w] # 0 /\ x[f] # 0 /\ k[w] = f => h[w] < x[f]
  /\ \A i, j \in 1 .. Len(s) : i < j /\ o[s[i]] = o[s[j]] => s[i] < s[j]

Ordered == InOrder(RxIds, HandIds, WrittenIds, sock, Froms)

(* What a step does to the results: drop words in the sockets at most, ... *)
Quiet ==
  /\ word' = word /\ requests' = requests /\ Written' = Written
  /\ \A fd \in Fds : RxIds'[fd] \in {0, RxIds[fd]}

(* ... a client types a word, ...                                          *)
Typed(fd, v) == Type(fd, v) /\ word' = word /\ Written' = Written

(* ... a worker takes the word of its client and reads it as read, ...     *)
Taken(w, m, read) ==
  /\ pc[w] = "receive"
  /\ sock[w] \in Fds /\ m \in Message /\ rx[sock[w]] = <<m>>
  /\ read \in Words /\ read \in ReadsAs[m.word]
  /\ rx' = [rx EXCEPT ![sock[w]] = <<>>]
  /\ word' = [word EXCEPT ![w] = [id |-> m.id, word |-> read, ok |-> read \in Dictionary]]
  /\ requests' = requests /\ Written' = Written

(* ... or it hands its result on.                                          *)
Handed(w) ==
  /\ pc[w] = "put_log"
  /\ word' = [word EXCEPT ![w] = NoEntry]
  /\ Written' = Append(Written, word[w])
  /\ rx' = rx /\ requests' = requests

-----------------------------------------------------------------------------
(* Moving numbers.                                                         *)

(* Numbers may be dropped from the sockets.                                *)
LEMMA OnceDropped ==
  ASSUME NEW x, NEW h, NEW s, NEW n, Once(x, h, s, n),
         NEW y \in [Fds -> Nat], \A f \in Fds : y[f] \in {0, x[f]}
  PROVE  Once(y, h, s, n)
<1>1. \A f \in Fds : y[f] = 0 \/ y[f] = x[f]
  OBVIOUS
<1>2. y \in [Fds -> 0 .. n]
  <2>1. n \in Nat /\ \A f \in Fds : x[f] \in 0 .. n
    BY DEF Once
  <2>2. 0 \in 0 .. n
    BY <2>1
  <2>3. \A f \in Fds : y[f] \in 0 .. n
    BY <1>1, <2>1, <2>2
  <2> QED
    BY <2>3
<1>3. ASSUME NEW f \in Fds, NEW g \in Fds, y[f] = y[g]
      PROVE  f = g \/ y[f] = 0
  <2>1. CASE y[f] # 0
    <3>1. x[f] = x[g] /\ x[f] = y[f]
      BY <1>1, <1>3, <2>1
    <3> QED
      BY <3>1 DEF Once
  <2> QED
    BY <2>1
<1>4. \A f \in Fds, w \in Workers : y[f] = h[w] => y[f] = 0
  BY <1>1 DEF Once
<1>5. \A f \in Fds, i \in 1 .. Len(s) : y[f] # s[i]
  <2>1. \A i \in 1 .. Len(s) : s[i] \in 1 .. n
    BY ElementOfSeq DEF Once
  <2> QED
    BY <1>1, <2>1 DEF Once
<1> QED
  BY <1>2, <1>3, <1>4, <1>5 DEF Once

(* A new word has a new number.                                            *)
LEMMA OnceTyped ==
  ASSUME NEW x, NEW h, NEW s, NEW n, Once(x, h, s, n),
         NEW y \in [Fds -> Nat], NEW g \in Fds, y[g] = n + 1,
         \A f \in Fds \ {g} : y[f] = x[f]
  PROVE  Once(y, h, s, n + 1)
<1>1. /\ n \in Nat /\ n + 1 \in Nat
      /\ \A f \in Fds : x[f] \in 0 .. n
      /\ \A w \in Workers : h[w] \in 0 .. n
      /\ \A i \in 1 .. Len(s) : s[i] \in 1 .. n
  BY ElementOfSeq DEF Once
<1>2. /\ 0 .. n \subseteq 0 .. n + 1 /\ 1 .. n \subseteq 1 .. n + 1
      /\ n + 1 \in 0 .. n + 1 /\ n + 1 \notin 0 .. n /\ n + 1 \notin 1 .. n
  BY <1>1
<1>3. s \in Seq(1 .. n + 1)
  <2>1. s \in Seq(1 .. n)
    BY DEF Once
  <2> QED
    BY <1>2, <2>1, SeqMonotonic
<1>4. h \in [Workers -> 0 .. n + 1]
  BY <1>2 DEF Once
<1>5. y \in [Fds -> 0 .. n + 1]
  <2>1. \A f \in Fds : y[f] \in 0 .. n + 1
    BY <1>1, <1>2
  <2> QED
    BY <2>1
<1>6. /\ y[g] \notin 0 .. n /\ y[g] \notin 1 .. n
      /\ \A f \in Fds : f = g \/ (y[f] = x[f] /\ y[f] \in 0 .. n)
  BY <1>1, <1>2
<1>7. \A f, k \in Fds : y[f] = y[k] => f = k \/ y[f] = 0
  BY <1>6 DEF Once
<1>8. \A f \in Fds, w \in Workers : y[f] = h[w] => y[f] = 0
  BY <1>1, <1>6 DEF Once
<1>9. \A f \in Fds, i \in 1 .. Len(s) : y[f] # s[i]
  BY <1>1, <1>6 DEF Once
<1> QED
  BY <1>1, <1>3, <1>4, <1>5, <1>7, <1>8, <1>9 DEF Once

(* A number goes from a socket to the empty hand of a worker, or is lost.  *)
LEMMA OnceTaken ==
  ASSUME NEW x, NEW h, NEW s, NEW n, Once(x, h, s, n),
         NEW y \in [Fds -> Nat], NEW k \in [Workers -> Nat],
         NEW g \in Fds, NEW v \in Workers, h[v] = 0,
         y[g] = 0, \A f \in Fds \ {g} : y[f] = x[f],
         k[v] = x[g], \A w \in Workers \ {v} : k[w] = h[w]
  PROVE  Once(y, k, s, n)
<1>1. /\ n \in Nat
      /\ \A f \in Fds : x[f] \in 0 .. n
      /\ \A w \in Workers : h[w] \in 0 .. n
      /\ \A i \in 1 .. Len(s) : s[i] \in 1 .. n /\ s[i] # 0
  BY ElementOfSeq DEF Once
<1>2. y \in [Fds -> 0 .. n] /\ k \in [Workers -> 0 .. n]
  <2>1. (\A f \in Fds : y[f] \in 0 .. n) /\ \A w \in Workers : k[w] \in 0 .. n
    BY <1>1
  <2> QED
    BY <2>1
<1>3. \A f, e \in Fds : y[f] = y[e] => f = e \/ y[f] = 0
  BY DEF Once
<1>4. \A u, w \in Workers : k[u] = k[w] => u = w \/ k[u] = 0
  BY DEF Once
<1>5. \A f \in Fds, w \in Workers : y[f] = k[w] => y[f] = 0
  BY DEF Once
<1>6. \A f \in Fds, i \in 1 .. Len(s) : y[f] # s[i]
  BY <1>1 DEF Once
<1>7. \A w \in Workers, i \in 1 .. Len(s) : k[w] # s[i]
  BY <1>1 DEF Once
<1> QED
  BY <1>2, <1>3, <1>4, <1>5, <1>6, <1>7 DEF Once

(* A number goes from the hand of a worker to the end of the log.          *)
LEMMA OncePut ==
  ASSUME NEW x, NEW h, NEW s, NEW n, Once(x, h, s, n),
         NEW k \in [Workers -> Nat], NEW v \in Workers, h[v] # 0,
         k[v] = 0, \A w \in Workers \ {v} : k[w] = h[w],
         NEW r, r = Append(s, h[v])
  PROVE  Once(x, k, r, n)
<1>1. /\ n \in Nat
      /\ \A f \in Fds : x[f] \in 0 .. n
      /\ \A w \in Workers : h[w] \in 0 .. n
      /\ \A i \in 1 .. Len(s) : s[i] \in 1 .. n /\ s[i] # 0
  BY ElementOfSeq DEF Once
<1>2. k \in [Workers -> 0 .. n]
  <2>1. \A w \in Workers : k[w] \in 0 .. n
    BY <1>1
  <2> QED
    BY <2>1
<1>3. h[v] \in 1 .. n
  BY <1>1
<1>4. /\ r \in Seq(1 .. n)
      /\ Len(s) \in Nat /\ Len(r) = Len(s) + 1 /\ r[Len(s) + 1] = h[v]
      /\ \A i \in 1 .. Len(s) : r[i] = s[i]
  <2>1. s \in Seq(1 .. n)
    BY DEF Once
  <2> QED
    BY <1>3, <2>1
<1>5. \A i \in 1 .. Len(r) : i \in 1 .. Len(s) \/ i = Len(s) + 1
  BY <1>4
<1>6. \A i, j \in 1 .. Len(r) : r[i] = r[j] => i = j
  BY <1>4, <1>5 DEF Once
<1>7. \A f \in Fds, i \in 1 .. Len(r) : x[f] # r[i]
  BY <1>4, <1>5 DEF Once
<1>8. \A w \in Workers, i \in 1 .. Len(r) : k[w] # r[i]
  <2>1. \A w \in Workers, i \in 1 .. Len(s) : k[w] # s[i]
    BY <1>1 DEF Once
  <2>2. \A w \in Workers : k[w] # h[v]
    BY DEF Once
  <2> QED
    BY <1>4, <1>5, <2>1, <2>2
<1>9. /\ \A u, w \in Workers : k[u] = k[w] => u = w \/ k[u] = 0
      /\ \A f \in Fds, w \in Workers : x[f] = k[w] => x[f] = 0
  BY DEF Once
<1> QED
  BY <1>2, <1>4, <1>6, <1>7, <1>8, <1>9 DEF Once

-----------------------------------------------------------------------------
(* The four kinds of steps.                                                *)

(* What the types say of results.                                          *)
LEMMA ResultTypes ==
  ASSUME TypeOK
  PROVE  /\ log_queue \in Queues(Entry \cup {NoEntry})
         /\ Contents(log_queue) \in Seq(Entry \cup {NoEntry})
         /\ log \in Seq(Entry \cup {NoEntry})
         /\ Written \in Seq(Entry \cup {NoEntry})
         /\ word \in [Workers -> Entry \cup {NoEntry}]
         /\ rx \in [Fds -> {<<>>} \cup {<<m>> : m \in Message}]
         /\ requests \in Seq(Request) /\ Len(requests) <= MaxRequests
<1>1. /\ log_queue \in Queues(Entry \cup {NoEntry})
      /\ log \in Seq(Entry \cup {NoEntry})
  BY DEF TypeOK, QueueTypeOK
<1>2. Contents(log_queue) \in Seq(Entry \cup {NoEntry})
  BY <1>1, ContentsSeq
<1>3. Written \in Seq(Entry \cup {NoEntry})
  BY <1>1, <1>2, ConcatProperties DEF Written
<1> QED
  BY <1>1, <1>2, <1>3 DEF TypeOK, ThreadTypeOK, SocketTypeOK

(* Appending behind, and moving the border between, two parts of the log.  *)
LEMMA AppendConcat ==
  ASSUME NEW S, NEW s \in Seq(S), NEW t \in Seq(S), NEW e \in S
  PROVE  s \o Append(t, e) = Append(s \o t, e)
<1>1. <<e>> \in Seq(S) /\ Append(t, e) = t \o <<e>>
  OBVIOUS
<1>2. s \o t \in Seq(S)
  BY ConcatProperties
<1>3. Append(s \o t, e) = (s \o t) \o <<e>>
  BY <1>2
<1> QED
  BY <1>1, <1>3, ConcatAssociative

LEMMA MoveBorder ==
  ASSUME NEW S, NEW s \in Seq(S), NEW t \in Seq(S), t # <<>>
  PROVE  Append(s, Head(t)) \o Tail(t) = s \o t
<1>1. Head(t) \in S /\ Tail(t) \in Seq(S) /\ <<Head(t)>> \in Seq(S)
  BY HeadTailProperties
<1>2. Append(s, Head(t)) = s \o <<Head(t)>>
  BY <1>1
<1>3. <<Head(t)>> \o Tail(t) = t
  <2>1. /\ Len(<<Head(t)>>) = 1 /\ <<Head(t)>>[1] = t[1]
        /\ Len(Tail(t)) = Len(t) - 1
        /\ \A i \in 1 .. Len(t) - 1 : Tail(t)[i] = t[i + 1]
        /\ Len(t) \in Nat \ {0}
    OBVIOUS
  <2>2. /\ <<Head(t)>> \o Tail(t) \in Seq(S)
        /\ Len(<<Head(t)>> \o Tail(t)) = Len(t)
        /\ \A i \in 1 .. Len(t) : (<<Head(t)>> \o Tail(t))[i] =
                IF i <= 1 THEN <<Head(t)>>[i] ELSE Tail(t)[i - 1]
    BY <1>1, <2>1, ConcatProperties
  <2>3. \A i \in 1 .. Len(t) : (<<Head(t)>> \o Tail(t))[i] = t[i]
    BY <2>1, <2>2
  <2> QED
    BY <2>2, <2>3, SeqEqual
<1> QED
  BY <1>1, <1>2, <1>3, ConcatAssociative

(* A step that leaves rx, word, requests and the log alone is quiet.       *)
LEMMA NothingMoves ==
  ASSUME UNCHANGED <<rx, word, requests, log, log_queue>>
  PROVE  Quiet
<1>1. Written' = Written /\ RxIds' = RxIds
  BY DEF Written, RxIds
<1> QED
  BY <1>1 DEF Quiet

(* So is one that takes words out of sockets or shortens them.             *)
LEMMA WordsDropped ==
  ASSUME UNCHANGED <<word, requests, log, log_queue>>,
         \A fd \in Fds : \/ rx'[fd] = <<>> \/ rx'[fd] = rx[fd]
                         \/ rx[fd] # <<>> /\ Head(rx'[fd]).id = Head(rx[fd]).id
  PROVE  Quiet
<1>1. Written' = Written
  BY DEF Written
<1>2. \A fd \in Fds : RxIds'[fd] \in {0, RxIds[fd]}
  BY DEF RxIds
<1> QED
  BY <1>1, <1>2 DEF Quiet

(* Every step is of one of the four kinds.                                 *)
LEMMA Kinds ==
  TypeOK /\ RingsOK /\ [Next]_vars =>
    \/ Quiet
    \/ \E fd \in Fds, v \in Words : Typed(fd, v)
    \/ \E w \in Workers, m \in Message, read \in Words : Taken(w, m, read)
    \/ \E w \in Workers : Handed(w)
<1> SUFFICES ASSUME TypeOK, RingsOK, [Next]_vars
             PROVE  \/ Quiet
                    \/ \E fd \in Fds, v \in Words : Typed(fd, v)
                    \/ \E w \in Workers, m \in Message, read \in Words : Taken(w, m, read)
                    \/ \E w \in Workers : Handed(w)
  OBVIOUS
<1>1. /\ log_queue \in Queues(Entry \cup {NoEntry}) /\ RingOK(log_queue)
      /\ Contents(log_queue) \in Seq(Entry \cup {NoEntry})
      /\ log \in Seq(Entry \cup {NoEntry})
      /\ word \in [Workers -> Entry \cup {NoEntry}]
      /\ rx \in [Fds -> {<<>>} \cup {<<m>> : m \in Message}]
  BY ResultTypes DEF RingsOK
<1>2. CASE Accept
  <2>1. \A fd \in Fds : rx'[fd] = <<>> \/ rx'[fd] = rx[fd]
    BY <1>1, <1>2 DEF Accept, accept, socketVars
  <2> QED
    BY <1>2, <2>1, WordsDropped DEF Accept, accept, socketVars, queueVars
<1>3. CASE MainLock \/ MainWait \/ PutSock \/ MainUnlock
  BY <1>3, NothingMoves DEF MainLock, MainWait, PutSock, PushSock, MainUnlock, Lock, Wait,
     Unlock, socketVars, queueVars
<1>4. CASE LoggerLock \/ LoggerWait \/ LoggerUnlock
  BY <1>4, NothingMoves DEF LoggerLock, LoggerWait, LoggerUnlock, Lock, Wait,
     Unlock, socketVars, queueVars
<1>5. CASE TakeLog
  <2>1. /\ ~ empty(log_queue)
        /\ log' = Append(log, front_item(log_queue))
        /\ log_queue' = pop(log_queue)
        /\ rx' = rx /\ requests' = requests /\ word' = word
    BY <1>5 DEF TakeLog, PopLog, socketVars
  <2>2. /\ Contents(log_queue) # <<>>
        /\ front_item(log_queue) = Head(Contents(log_queue))
        /\ Contents(log_queue') = Tail(Contents(log_queue))
    BY <1>1, <2>1, PopContents
  <2>3. Written' = Append(log, Head(Contents(log_queue))) \o Tail(Contents(log_queue))
    BY <2>1, <2>2 DEF Written
  <2>4. Written' = Written
    BY <1>1, <2>2, <2>3, MoveBorder DEF Written
  <2>5. RxIds' = RxIds
    BY <2>1 DEF RxIds
  <2> QED
    BY <2>1, <2>4, <2>5 DEF Quiet
<1>6. CASE ClientStep
  <2>1. PICK fd \in Fds : Finish(fd) \/ Reset(fd) \/ \E v \in Words : Type(fd, v)
    BY <1>6 DEF ClientStep, Client
  <2>2. UNCHANGED <<word, log, log_queue>>
    BY <1>6 DEF ClientStep, threadVars, queueVars
  <2>3. CASE Finish(fd) \/ Reset(fd)
    BY <2>2, <2>3, NothingMoves DEF Finish, Reset
  <2>4. ASSUME NEW v \in Words, Type(fd, v)
        PROVE  Typed(fd, v)
    BY <2>2, <2>4 DEF Typed, Written
  <2> QED
    BY <2>1, <2>3, <2>4
<1>7. CASE Wakeup \/ Dead \/ UNCHANGED vars
  BY <1>7, NothingMoves DEF Wakeup, Dead, vars, socketVars, threadVars, queueVars
<1>8. ASSUME NEW w \in Workers,
             \/ WorkerLock(w) \/ WorkerWait(w) \/ TakeSock(w) \/ WorkerUnlock(w)
             \/ Sigpipe(w) \/ LogLock(w) \/ LogWait(w) \/ LogUnlock(w)
      PROVE  Quiet
  BY <1>8, NothingMoves DEF WorkerLock, WorkerWait, TakeSock, PopSock, WorkerUnlock, Sigpipe,
     LogLock, LogWait, LogUnlock, Lock, Wait, Unlock, socketVars, threadVars, queueVars
<1>9. ASSUME NEW w \in Workers, Greet(w) \/ Prompt(w) \/ Answer(w)
      PROVE  Quiet
  BY <1>9, NothingMoves DEF Greet, Prompt, Answer, LocalUnchanged, queueVars
<1>10. ASSUME NEW w \in Workers, PingQueued(w) \/ PingServed(w)
       PROVE  Quiet
  <2>1. rx' = rxAfterPing(sock[w]) /\ UNCHANGED <<word, requests, log, log_queue>>
    BY <1>10 DEF PingQueued, PingServed, Ping, LocalUnchanged, queueVars
  <2>2. ASSUME NEW fd \in Fds
        PROVE  \/ rx'[fd] = <<>> \/ rx'[fd] = rx[fd]
               \/ rx[fd] # <<>> /\ Head(rx'[fd]).id = Head(rx[fd]).id
    <3> DEFINE m == Head(rx[fd])
    <3>1. CASE fd # sock[w] \/ rx[fd] = <<>>
      BY <2>1, <3>1 DEF rxAfterPing
    <3>2. CASE ~ (fd # sock[w] \/ rx[fd] = <<>>) /\ AfterPing[m.word] = NoWord
      BY <2>1, <3>2 DEF rxAfterPing
    <3>3. CASE ~ (fd # sock[w] \/ rx[fd] = <<>>) /\ AfterPing[m.word] # NoWord
      <4> DEFINE k == [m EXCEPT !.word = AfterPing[m.word]]
      <4>1. rx'[fd] = <<k>>
        BY <2>1, <3>3 DEF rxAfterPing
      <4>2. m \in Message
        BY <1>1, <3>3
      <4>3. k.id = m.id
        BY <4>2 DEF Message
      <4> HIDE DEF k
      <4>4. Head(rx'[fd]) = k
        BY <4>1
      <4> QED
        BY <3>3, <4>3, <4>4
    <3> QED
      BY <3>1, <3>2, <3>3
  <2> QED
    BY <2>1, <2>2, WordsDropped
<1>11. ASSUME NEW w \in Workers, Receive(w)
       PROVE  Quiet \/ \E m \in Message, read \in Words : Taken(w, m, read)
  <2>1. UNCHANGED <<requests, log, log_queue>>
    BY <1>11 DEF Receive, LocalUnchanged, queueVars
  <2>2. CASE rx' = rx /\ word' = word
    BY <2>1, <2>2, NothingMoves
  <2>3. CASE HasData(sock[w]) /\ rx' = [rx EXCEPT ![sock[w]] = <<>>] /\ word' = word
    <3>1. \A fd \in Fds : rx'[fd] = <<>> \/ rx'[fd] = rx[fd]
      BY <1>1, <2>3
    <3> QED
      BY <2>1, <2>3, <3>1, WordsDropped
  <2>4. ASSUME HasData(sock[w]), rx' = [rx EXCEPT ![sock[w]] = <<>>], pc[w] = "receive",
               NEW read \in TextRead(Head(rx[sock[w]])),
               word' = [word EXCEPT ![w] = [id |-> Head(rx[sock[w]]).id, word |-> read,
                                            ok |-> read \in Dictionary]]
        PROVE  \E m \in Message, r \in Words : Taken(w, m, r)
    <3>1. sock[w] \in Fds /\ rx[sock[w]] # <<>>
      BY <2>4 DEF HasData, Open
    <3>2. PICK m \in Message : rx[sock[w]] = <<m>>
      BY <1>1, <3>1
    <3>3. Head(rx[sock[w]]) = m
      BY <3>2
    <3>4. read \in ReadsAs[m.word] /\ read \in Words
      BY <2>4, <3>3, ServerAssumption DEF TextRead, Message
    <3>5. Written' = Written
      BY <2>1 DEF Written
    <3>6. word' = [word EXCEPT ![w] = [id |-> m.id, word |-> read, ok |-> read \in Dictionary]]
      BY <2>4, <3>3
    <3>7. Taken(w, m, read)
      BY <2>1, <2>4, <3>1, <3>2, <3>4, <3>5, <3>6 DEF Taken
    <3> QED
      BY <3>4, <3>7
  <2> QED
    BY <1>11, <2>2, <2>3, <2>4 DEF Receive, Goto
<1>12. ASSUME NEW w \in Workers, Close(w)
       PROVE  Quiet
  <2>1. \A fd \in Fds : rx'[fd] = <<>> \/ rx'[fd] = rx[fd]
    BY <1>12 DEF Close, close
  <2> QED
    BY <1>12, <2>1, WordsDropped DEF Close, close, queueVars
<1>13. ASSUME NEW w \in Workers, PutLog(w)
       PROVE  Handed(w)
  <2>1. /\ pc[w] = "put_log"
        /\ ~ full(log_queue)
        /\ log_queue' = push(log_queue, word[w])
        /\ word' = [word EXCEPT ![w] = NoEntry]
        /\ log' = log /\ rx' = rx /\ requests' = requests
    BY <1>13 DEF PutLog, PushLog, Goto, socketVars
  <2>2. word[w] \in Entry \cup {NoEntry}
    BY <1>1
  <2>3. Contents(log_queue') = Append(Contents(log_queue), word[w])
    BY <1>1, <2>1, <2>2, PushContents
  <2>4. Written' = log \o Append(Contents(log_queue), word[w])
    BY <2>1, <2>3 DEF Written
  <2>5. Written' = Append(Written, word[w])
    BY <1>1, <2>2, <2>4, AppendConcat DEF Written
  <2> QED
    BY <2>1, <2>5 DEF Handed
<1> QED
  BY <1>2, <1>3, <1>4, <1>5, <1>6, <1>7, <1>8, <1>9, <1>10, <1>11, <1>12, <1>13
     DEF Next, MainStep, WorkerStep, LoggerStep
-----------------------------------------------------------------------------
(* Each invariant over the steps.                                          *)

(* A move of t that leaves the other workers' hands as they were.          *)
LEMMA HandsMove ==
  ASSUME TypeOK, HandsFull, NEW t \in Threads, NEW from, NEW to, Goto(t, from, to),
         \A w \in Workers \ {t} : word'[w] = word[w] /\ sock'[w] = sock[w],
         t \in Workers =>
           /\ word'[t] # NoEntry <=> to \in {"answer", "lock_log", "put_log"}
           /\ to \in {"ping_queued", "ping", "prompt", "receive", "answer", "lock_log",
                      "put_log", "unlock_log"} => sock'[t] # NoFd
  PROVE  HandsFull'
<1>1. /\ pc'[t] = to
      /\ \A u \in Threads \ {t} : pc'[u] = pc[u]
      /\ Workers \subseteq Threads
  BY OwnerTypes DEF Goto, Threads
<1> QED
  BY <1>1 DEF HandsFull

(* Hands are filled by recv and emptied by push.                           *)
LEMMA HandsStep == TypeOK /\ HandsFull /\ [Next]_vars => HandsFull'
<1> SUFFICES ASSUME TypeOK, HandsFull, [Next]_vars
             PROVE  HandsFull'
  OBVIOUS
<1>1. /\ sock \in [Holding -> Descriptors]
      /\ word \in [Workers -> Entry \cup {NoEntry}]
      /\ rx \in [Fds -> {<<>>} \cup {<<m>> : m \in Message}]
  BY OwnerTypes, ResultTypes
<1>2. /\ Main \in Threads /\ Logger \in Threads
      /\ Main \notin Workers /\ Logger \notin Workers
      /\ \A w \in Workers : w \in Threads /\ w \in Holding
  BY ThreadAssumption DEF Threads, Holding
<1>3. CASE MainStep
  <2>1. word' = word /\ \A w \in Workers : sock'[w] = sock[w]
    BY <1>1, <1>2, <1>3 DEF MainStep, Accept, MainLock, MainWait, PutSock, PushSock,
       MainUnlock, Lock, Wait, Unlock
  <2>2. PICK from, to : Goto(Main, from, to)
    BY <1>3 DEF MainStep, Accept, MainLock, MainWait, PutSock, PushSock, MainUnlock,
       Lock, Wait, Unlock
  <2> QED
    BY <1>2, <2>1, <2>2, HandsMove
<1>4. CASE LoggerStep
  <2>1. word' = word /\ sock' = sock
    BY <1>4 DEF LoggerStep, LoggerLock, LoggerWait, TakeLog, PopLog, LoggerUnlock,
       Lock, Wait, Unlock
  <2>2. PICK from, to : Goto(Logger, from, to)
    BY <1>4 DEF LoggerStep, LoggerLock, LoggerWait, TakeLog, PopLog, LoggerUnlock,
       Lock, Wait, Unlock
  <2> QED
    BY <1>2, <2>1, <2>2, HandsMove
<1>5. CASE ClientStep \/ Wakeup \/ Dead \/ UNCHANGED vars \/ \E w \in Workers : Sigpipe(w)
  <2>1. UNCHANGED <<pc, sock, word>>
    BY <1>5 DEF ClientStep, Wakeup, Dead, Sigpipe, vars, threadVars
  <2> QED
    BY <2>1 DEF HandsFull
<1> SUFFICES ASSUME NEW w \in Workers, WorkerStep(w), ~ Sigpipe(w)
             PROVE  HandsFull'
  BY <1>3, <1>4, <1>5 DEF Next
<1>6. /\ word[w] # NoEntry <=> pc[w] \in {"answer", "lock_log", "put_log"}
      /\ pc[w] \in {"ping_queued", "ping", "prompt", "receive", "answer", "lock_log",
                    "put_log", "unlock_log"} => sock[w] # NoFd
  BY DEF HandsFull
<1>7. CASE WorkerLock(w) \/ WorkerWait(w) \/ WorkerUnlock(w) \/ LogLock(w) \/ LogWait(w)
           \/ LogUnlock(w)
  <2>1. word' = word /\ sock' = sock
    BY <1>7 DEF WorkerLock, WorkerWait, WorkerUnlock, LogLock, LogWait, LogUnlock,
       Lock, Wait, Unlock
  <2>2. PICK from, to :
          /\ Goto(w, from, to)
          /\ \/ from \in {"lock_sock", "take_sock", "unlock_sock"}
                /\ to \in {"take_sock", "lock_sock", "greet"}
             \/ from \in {"lock_log", "put_log"} /\ to \in {"lock_log", "put_log"}
             \/ from = "unlock_log" /\ to = "ping"
    BY <1>7 DEF WorkerLock, WorkerWait, WorkerUnlock, LogLock, LogWait, LogUnlock,
       Lock, Wait, Unlock
  <2>3. pc[w] = from
    BY <2>2 DEF Goto
  <2> QED
    BY <1>2, <1>6, <2>1, <2>2, <2>3, HandsMove
<1>8. CASE TakeSock(w)
  <2>1. /\ Goto(w, "take_sock", "unlock_sock") /\ word' = word
        /\ \A u \in Workers \ {w} : sock'[u] = sock[u]
    BY <1>1, <1>2, <1>8 DEF TakeSock, PopSock
  <2>2. word[w] = NoEntry
    BY <1>6, <2>1 DEF Goto
  <2> QED
    BY <1>2, <2>1, <2>2, HandsMove
<1>9. CASE Greet(w)
  <2>1. word' = word /\ sock' = sock
    BY <1>9 DEF Greet, LocalUnchanged
  <2>2. word[w] = NoEntry
    BY <1>6, <1>9 DEF Greet, Goto
  <2>3. \/ Goto(w, "greet", "ping_queued") /\ sock[w] # NoFd
        \/ Goto(w, "greet", "close")
    BY <1>9, FdAssumption DEF Greet, SendWorks, Open
  <2> QED
    BY <1>2, <2>1, <2>2, <2>3, HandsMove
<1>10. CASE PingQueued(w) \/ PingServed(w) \/ Prompt(w) \/ Answer(w)
  <2>1. word' = word /\ sock' = sock
    BY <1>10 DEF PingQueued, PingServed, Ping, Prompt, Answer, LocalUnchanged
  <2>2. PICK from, to :
          /\ Goto(w, from, to)
          /\ \/ from \in {"ping_queued", "ping", "prompt"} /\ to \in {"ping", "prompt", "receive", "close"}
             \/ from = "answer" /\ to = "lock_log"
    BY <1>10 DEF PingQueued, PingServed, Ping, Prompt, Answer
  <2>3. pc[w] = from
    BY <2>2 DEF Goto
  <2> QED
    BY <1>2, <1>6, <2>1, <2>2, <2>3, HandsMove
<1>11. CASE Receive(w)
  <2>1. sock' = sock
    BY <1>11 DEF Receive, LocalUnchanged
  <2>2. pc[w] = "receive"
    BY <1>11 DEF Receive, Goto
  <2>3. word[w] = NoEntry /\ sock[w] # NoFd
    BY <1>6, <2>2
  <2>4. CASE Goto(w, "receive", "close") /\ word' = word
    BY <1>2, <2>1, <2>3, <2>4, HandsMove
  <2>5. ASSUME HasData(sock[w]), Goto(w, "receive", "answer"),
               NEW read \in TextRead(Head(rx[sock[w]])),
               word' = [word EXCEPT ![w] = [id |-> Head(rx[sock[w]]).id, word |-> read,
                                            ok |-> read \in Dictionary]]
        PROVE  HandsFull'
    <3>1. sock[w] \in Fds /\ rx[sock[w]] # <<>>
      BY <2>5 DEF HasData, Open
    <3>2. PICK m \in Message : rx[sock[w]] = <<m>>
      BY <1>1, <3>1
    <3>3. Head(rx[sock[w]]) = m
      BY <3>2
    <3>4. read \in Words
      BY <2>5, <3>3, ServerAssumption DEF TextRead, Message
    <3>5. word'[w] = [id |-> m.id, word |-> read, ok |-> read \in Dictionary]
      BY <1>1, <2>5, <3>3
    <3>6. [id |-> m.id, word |-> read, ok |-> read \in Dictionary] \in Entry
      BY <3>4 DEF Entry, Message
    <3>7. word'[w] # NoEntry
      BY <3>5, <3>6, EntryAssumption
    <3>8. \A u \in Workers \ {w} : word'[u] = word[u]
      BY <1>1, <2>5
    <3> QED
      BY <1>2, <2>1, <2>3, <2>5, <3>7, <3>8, HandsMove
  <2> QED
    BY <1>11, <2>4, <2>5 DEF Receive
<1>12. CASE Close(w)
  <2>1. Goto(w, "close", "lock_sock") /\ word' = word /\ \A u \in Workers \ {w} : sock'[u] = sock[u]
    BY <1>1, <1>2, <1>12 DEF Close
  <2>2. word[w] = NoEntry
    BY <1>6, <2>1 DEF Goto
  <2> QED
    BY <1>2, <2>1, <2>2, HandsMove
<1>13. CASE PutLog(w)
  <2>1. /\ Goto(w, "put_log", "unlock_log") /\ sock' = sock
        /\ word' = [word EXCEPT ![w] = NoEntry]
    BY <1>13 DEF PutLog, PushLog
  <2>2. sock[w] # NoFd
    BY <1>6, <2>1 DEF Goto
  <2>3. word'[w] = NoEntry /\ \A u \in Workers \ {w} : word'[u] = word[u]
    BY <1>1, <2>1
  <2> QED
    BY <1>2, <2>1, <2>2, <2>3, HandsMove
<1> QED
  BY <1>7, <1>8, <1>9, <1>10, <1>11, <1>12, <1>13 DEF WorkerStep
(* The verdict of a worker goes with its result into the log.              *)
LEMMA JudgementsStep == TypeOK /\ RingsOK /\ HandsFull /\ Judgements /\ [Next]_vars => Judgements'
<1> SUFFICES ASSUME TypeOK, RingsOK, HandsFull, Judgements, [Next]_vars
             PROVE  Judgements'
  OBVIOUS
<1>1. /\ Written \in Seq(Entry \cup {NoEntry})
      /\ word \in [Workers -> Entry \cup {NoEntry}]
  BY ResultTypes
<1>2. CASE Quiet \/ \E fd \in Fds, v \in Words : Typed(fd, v)
  <2>1. word' = word /\ Written' = Written
    BY <1>2 DEF Quiet, Typed
  <2> QED
    BY <2>1 DEF Judgements
<1>3. ASSUME NEW w \in Workers, NEW m \in Message, NEW read \in Words, Taken(w, m, read)
      PROVE  Judgements'
  <2> DEFINE e == [id |-> m.id, word |-> read, ok |-> read \in Dictionary]
  <2>1. word'[w] = e /\ Written' = Written /\ \A v \in Workers \ {w} : word'[v] = word[v]
    BY <1>1, <1>3 DEF Taken
  <2>2. Judged(e)
    BY DEF Judged, Entry, Message
  <2> HIDE DEF e
  <2>3. \A v \in Workers : word'[v] # NoEntry => Judged(word'[v])
    BY <2>1, <2>2 DEF Judgements
  <2>4. \A i \in 1 .. Len(Written') : Judged(Written'[i])
    BY <2>1 DEF Judgements
  <2> QED
    BY <2>3, <2>4 DEF Judgements, Judged
<1>4. ASSUME NEW w \in Workers, Handed(w)
      PROVE  Judgements'
  <2>1. /\ word'[w] = NoEntry /\ \A v \in Workers \ {w} : word'[v] = word[v]
        /\ Written' = Append(Written, word[w])
        /\ word[w] \in Entry \cup {NoEntry}
    BY <1>1, <1>4 DEF Handed
  <2>2. Judged(word[w])
    BY <1>4 DEF Handed, HandsFull, Judgements
  <2>3. \A v \in Workers : word'[v] # NoEntry => Judged(word'[v])
    BY <2>1 DEF Judgements
  <2>4. \A i \in 1 .. Len(Written') :
          \/ i \in 1 .. Len(Written) /\ Written'[i] = Written[i]
          \/ Written'[i] = word[w]
    BY <1>1, <2>1
  <2>5. \A i \in 1 .. Len(Written') : Judged(Written'[i])
    BY <2>2, <2>4 DEF Judgements
  <2> QED
    BY <2>3, <2>5 DEF Judgements, Judged
<1> QED
  BY <1>2, <1>3, <1>4, Kinds

(* The numbers are functions of naturals.                                  *)
LEMMA IdTypes == TypeOK => IdsTyped
<1> SUFFICES ASSUME TypeOK
             PROVE  IdsTyped
  OBVIOUS
<1>1. \A fd \in Fds : rx[fd] = <<>> \/ \E m \in Message : rx[fd] = <<m>>
  BY ResultTypes
<1>2. \A fd \in Fds : rx[fd] = <<>> \/ Head(rx[fd]).id \in Nat
  <2>1. \A m \in Message : Head(<<m>>) = m /\ m.id \in Nat
    BY ClientAssumption DEF Message
  <2> QED
    BY <1>1, <2>1
<1>3. \A w \in Workers : word[w] = NoEntry \/ word[w].id \in Nat
  BY ResultTypes, ClientAssumption DEF Entry
<1> QED
  BY <1>2, <1>3 DEF IdsTyped, RxIds, HandIds

(* The log of numbers is as long as the log, ...                           *)
LEMMA WrittenId ==
  ASSUME TypeOK, Results
  PROVE  /\ WrittenIds \in Seq(Nat)
         /\ Len(WrittenIds) = Len(Written) /\ Len(Written) \in Nat
         /\ \A i \in 1 .. Len(Written) : WrittenIds[i] = Written[i].id
<1>1. WrittenIds \in Seq(Nat)
  <2>1. WrittenIds \in Seq(1 .. Len(requests)) /\ 1 .. Len(requests) \subseteq Nat
    BY DEF Results, Once
  <2> QED
    BY <2>1, SeqMonotonic
<1>2. DOMAIN WrittenIds = 1 .. Len(Written) /\ Len(Written) \in Nat
  BY ResultTypes DEF WrittenIds
<1>3. Len(WrittenIds) = Len(Written)
  BY <1>1, <1>2
<1> QED
  BY <1>1, <1>2, <1>3 DEF WrittenIds

(* ... and a result that is handed on adds its number.                     *)
LEMMA AppendId ==
  ASSUME TypeOK, Results, NEW w \in Workers, Handed(w)
  PROVE  WrittenIds' = Append(WrittenIds, HandIds[w])
<1> DEFINE n == Len(Written)
           a == WrittenIds'
           b == Append(WrittenIds, HandIds[w])
<1>1. /\ Written \in Seq(Entry \cup {NoEntry})
      /\ word[w] \in Entry /\ word[w] # NoEntry
  BY ResultTypes DEF Handed, Results, HandsFull
<1>2. HandIds[w] = word[w].id /\ HandIds[w] \in Nat
  BY <1>1, ClientAssumption DEF HandIds, Entry
<1>3. /\ n \in Nat /\ Len(Written') = n + 1 /\ Written'[n + 1] = word[w]
      /\ \A i \in 1 .. n : Written'[i] = Written[i]
  BY <1>1 DEF Handed
<1>4. /\ WrittenIds \in Seq(Nat) /\ Len(WrittenIds) = n
      /\ \A i \in 1 .. n : WrittenIds[i] = Written[i].id
  BY WrittenId
<1>5. /\ b \in Seq(Nat) /\ Len(b) = n + 1 /\ b[n + 1] = word[w].id
      /\ \A i \in 1 .. n : b[i] = Written[i].id
  BY <1>2, <1>3, <1>4
<1>6. /\ a = [i \in 1 .. n + 1 |-> Written'[i].id]
      /\ \A i \in 1 .. n + 1 : i \in 1 .. n \/ i = n + 1
  BY <1>3 DEF WrittenIds
<1>7. \A i \in 1 .. n + 1 : a[i] = b[i]
  BY <1>3, <1>5, <1>6
<1>8. a \in [1 .. n + 1 -> Nat]
  <2>1. \A i \in 1 .. n + 1 : b[i] \in Nat
    BY <1>5, ElementOfSeq
  <2> QED
    BY <1>6, <1>7, <2>1
<1>9. a \in Seq(Nat) /\ Len(a) = n + 1
  BY <1>3, <1>8
<1> QED
  BY <1>5, <1>7, <1>9, SeqEqual

(* No step gives a number twice.                                           *)
LEMMA OnceStep ==
  TypeOK /\ TypeOK' /\ RingsOK /\ Results /\ [Next]_vars
    => Once(RxIds, HandIds, WrittenIds, Len(requests))'
<1> SUFFICES ASSUME TypeOK, TypeOK', RingsOK, Results, [Next]_vars
             PROVE  Once(RxIds, HandIds, WrittenIds, Len(requests))'
  OBVIOUS
<1>1. /\ RxIds' \in [Fds -> Nat] /\ HandIds' \in [Workers -> Nat]
      /\ RxIds \in [Fds -> Nat] /\ HandIds \in [Workers -> Nat]
  <2>1. TypeOK' => IdsTyped'
    BY IdTypes, PTL
  <2> QED
    BY <2>1, IdTypes DEF IdsTyped
<1>2. /\ Written \in Seq(Entry \cup {NoEntry})
      /\ word \in [Workers -> Entry \cup {NoEntry}]
      /\ rx \in [Fds -> {<<>>} \cup {<<m>> : m \in Message}]
      /\ requests \in Seq(Request)
  BY ResultTypes
<1>3. Once(RxIds, HandIds, WrittenIds, Len(requests))
  BY DEF Results
<1>4. CASE Quiet
  <2>1. HandIds' = HandIds /\ WrittenIds' = WrittenIds /\ Len(requests') = Len(requests)
    BY <1>4 DEF Quiet, HandIds, WrittenIds
  <2>2. \A fd \in Fds : RxIds'[fd] \in {0, RxIds[fd]}
    BY <1>4 DEF Quiet
  <2>3. Once(RxIds', HandIds, WrittenIds, Len(requests))
    BY <1>1, <1>3, <2>2, OnceDropped
  <2> QED
    BY <2>1, <2>3
<1>5. ASSUME NEW g \in Fds, NEW v \in Words, Typed(g, v)
      PROVE  Once(RxIds, HandIds, WrittenIds, Len(requests))'
  <2>1. HandIds' = HandIds /\ WrittenIds' = WrittenIds
    BY <1>5 DEF Typed, HandIds, WrittenIds
  <2>2. /\ Len(requests') = Len(requests) + 1
        /\ rx'[g] = <<[id |-> Len(requests) + 1, word |-> v]>>
        /\ \A f \in Fds \ {g} : rx'[f] = rx[f]
    BY <1>2, <1>5 DEF Typed, Type, Request
  <2>3. RxIds'[g] = Len(requests) + 1
    BY <2>2 DEF RxIds
  <2>4. \A f \in Fds \ {g} : RxIds'[f] = RxIds[f]
    BY <2>2 DEF RxIds
  <2>5. Once(RxIds', HandIds, WrittenIds, Len(requests) + 1)
    BY <1>1, <1>3, <2>3, <2>4, OnceTyped
  <2> QED
    BY <2>1, <2>2, <2>5
<1>6. ASSUME NEW w \in Workers, NEW m \in Message, NEW read \in Words, Taken(w, m, read)
      PROVE  Once(RxIds, HandIds, WrittenIds, Len(requests))'
  <2>1. WrittenIds' = WrittenIds /\ Len(requests') = Len(requests)
    BY <1>6 DEF Taken, WrittenIds
  <2>2. /\ sock[w] \in Fds /\ rx[sock[w]] = <<m>> /\ rx'[sock[w]] = <<>>
        /\ \A f \in Fds \ {sock[w]} : rx'[f] = rx[f]
    BY <1>2, <1>6 DEF Taken
  <2>3. /\ RxIds[sock[w]] = m.id /\ RxIds'[sock[w]] = 0
        /\ \A f \in Fds \ {sock[w]} : RxIds'[f] = RxIds[f]
    BY <2>2 DEF RxIds
  <2>4. word[w] = NoEntry
    BY <1>6 DEF Taken, Results, HandsFull
  <2>5. /\ word'[w].id = m.id /\ word'[w] # NoEntry
        /\ \A u \in Workers \ {w} : word'[u] = word[u]
    <3>1. /\ word'[w] = [id |-> m.id, word |-> read, ok |-> read \in Dictionary]
          /\ \A u \in Workers \ {w} : word'[u] = word[u]
      BY <1>2, <1>6 DEF Taken
    <3>2. word'[w] \in Entry
      BY <3>1 DEF Entry, Message
    <3> QED
      BY <3>1, <3>2, EntryAssumption
  <2>6. /\ HandIds[w] = 0 /\ HandIds'[w] = RxIds[sock[w]]
        /\ \A u \in Workers \ {w} : HandIds'[u] = HandIds[u]
    BY <2>3, <2>4, <2>5 DEF HandIds
  <2>7. Once(RxIds', HandIds', WrittenIds, Len(requests))
    <3> DEFINE x == RxIds
               y == RxIds'
               h == HandIds
               k == HandIds'
               s == WrittenIds
               n == Len(requests)
               g == sock[w]
    <3>1. /\ y \in [Fds -> Nat] /\ k \in [Workers -> Nat] /\ Once(x, h, s, n)
          /\ g \in Fds /\ h[w] = 0 /\ y[g] = 0 /\ k[w] = x[g]
          /\ \A f \in Fds \ {g} : y[f] = x[f]
          /\ \A u \in Workers \ {w} : k[u] = h[u]
      BY <1>1, <1>3, <2>2, <2>3, <2>6
    <3> HIDE DEF x, y, h, k, s, n, g
    <3>2. Once(y, k, s, n)
      BY <3>1, OnceTaken
    <3> QED
      BY <3>2 DEF y, k, s, n
  <2> QED
    BY <2>1, <2>7
<1>7. ASSUME NEW w \in Workers, Handed(w)
      PROVE  Once(RxIds, HandIds, WrittenIds, Len(requests))'
  <2>1. RxIds' = RxIds /\ Len(requests') = Len(requests)
    BY <1>7 DEF Handed, RxIds
  <2>2. /\ word'[w] = NoEntry /\ \A u \in Workers \ {w} : word'[u] = word[u]
        /\ word[w] \in Entry /\ word[w] # NoEntry
    BY <1>2, <1>7 DEF Handed, Results, HandsFull
  <2>3. /\ HandIds[w] = word[w].id /\ HandIds[w] # 0 /\ HandIds'[w] = 0
        /\ \A u \in Workers \ {w} : HandIds'[u] = HandIds[u]
    BY <2>2 DEF HandIds, Entry
  <2>4. WrittenIds' = Append(WrittenIds, HandIds[w])
    BY <1>7, AppendId
  <2>5. Once(RxIds, HandIds', WrittenIds', Len(requests))
    BY <1>1, <1>3, <2>3, <2>4, OncePut
  <2> QED
    BY <2>1, <2>5
<1> QED
  BY <1>4, <1>5, <1>6, <1>7, Kinds

(* The results invariant holds of every reachable state.                   *)
LEMMA ResultsInvariant == Spec => [](TypeOK /\ RingsOK /\ Owners /\ Results)
<1> DEFINE Inv == TypeOK /\ RingsOK /\ Owners /\ Results
<1>1. Init => Inv
  <2> SUFFICES ASSUME Init
               PROVE  Inv
    OBVIOUS
  <2>1. TypeOK /\ RingsOK /\ Owners
    BY InitTypeOK, InitOwners
  <2>2. /\ Written = <<>> /\ requests = <<>>
        /\ \A w \in Workers : word[w] = NoEntry /\ pc[w] = "lock_sock"
        /\ \A fd \in Fds : rx[fd] = <<>>
    <3>1. Contents(log_queue) = <<>>
      BY NewQueue DEF Init
    <3>2. <<>> \o <<>> = <<>>
      OBVIOUS
    <3> QED
      BY <3>1, <3>2, ThreadAssumption DEF Init, SocketInit, Written, Threads
  <2>3. HandsFull /\ Judgements
    BY <2>2 DEF HandsFull, Judgements
  <2>4. Once(RxIds, HandIds, WrittenIds, Len(requests))
    <3>1. /\ RxIds \in [Fds -> 0 .. 0] /\ HandIds \in [Workers -> 0 .. 0]
          /\ \A fd \in Fds : RxIds[fd] = 0
          /\ \A w \in Workers : HandIds[w] = 0
      BY <2>2 DEF RxIds, HandIds
    <3>2. WrittenIds = <<>> /\ Len(requests) = 0
      BY <2>2 DEF WrittenIds
    <3>3. <<>> \in Seq(1 .. 0) /\ Len(<<>>) = 0
      OBVIOUS
    <3> QED
      BY <3>1, <3>2, <3>3 DEF Once
  <2> QED
    BY <2>1, <2>3, <2>4 DEF Results
<1>2. Inv /\ [Next]_vars => Inv'
  <2> SUFFICES ASSUME Inv, [Next]_vars
               PROVE  Inv'
    OBVIOUS
  <2>1. TypeOK' /\ RingsOK'
    BY SocketTypeStep, ThreadTypeStep, QueueTypeStep DEF TypeOK
  <2>2. Owners'
    BY <2>1, OwnersStep
  <2>3. Results'
    BY <2>1, HandsStep, JudgementsStep, OnceStep DEF Results
  <2> QED
    BY <2>1, <2>2, <2>3
<1> QED
  BY <1>1, <1>2, PTL DEF Spec

(* A result is in one place: in the hand of one worker, or once in the     *)
(* queue or the log, in every reachable state and for all constants, also  *)
(* when clients type before the prompt and recv reads garbage.             *)
THEOREM ResultsOnce == Spec => []InOnePlace
<1>1. ASSUME TypeOK, Results
      PROVE  InOnePlace
  <2>1. Once(RxIds, HandIds, WrittenIds, Len(requests)) /\ Written \in Seq(Entry \cup {NoEntry})
    BY <1>1, ResultTypes DEF Results
  <2>2. NoEntry \notin {Written[i] : i \in 1 .. Len(Written)}
    BY <1>1, EntryAssumption DEF Results, Judgements, Judged
  <2>3. /\ Len(WrittenIds) = Len(Written) /\ Len(Written) \in Nat
        /\ \A i \in 1 .. Len(Written) : WrittenIds[i] = Written[i].id
    BY <1>1, WrittenId
  <2>4. Cardinality(Ids(Written)) = Len(Written)
    <3>1. WrittenIds \in [1 .. Len(Written) -> Ids(Written)]
      BY <2>3 DEF WrittenIds, Ids
    <3>2. IsInjective(WrittenIds)
      BY <2>1, <2>3, <3>1 DEF Once, IsInjective
    <3>3. \A t \in Ids(Written) : \E i \in 1 .. Len(Written) : WrittenIds[i] = t
      BY <2>3 DEF Ids
    <3>4. ExistsBijection(1 .. Len(Written), Ids(Written))
      BY <3>1, <3>2, <3>3 DEF ExistsBijection, Bijection, Injection, Surjection
    <3> QED
      BY <2>3, <3>4, FS_CountingElements
  <2>5. \A w \in Workers : HandIds[w] = IF word[w] = NoEntry THEN 0 ELSE word[w].id
    BY DEF HandIds
  <2>6. \A w \in Workers : \A k \in Ids(InHand(w)) : HandIds[w] = k /\ k # 0
    <3>1. \A w \in Workers : word[w] # NoEntry => word[w].id # 0
      BY <1>1, ResultTypes DEF Entry
    <3>2. \A w \in Workers : word[w] = NoEntry => Ids(InHand(w)) = {}
      BY DEF Ids, InHand
    <3>3. \A w \in Workers : word[w] # NoEntry => Ids(InHand(w)) = {word[w].id}
      BY DEF Ids, InHand
    <3> QED
      BY <2>5, <3>1, <3>2, <3>3
  <2>7. \A v, w \in Workers : v # w => Ids(InHand(v)) \cap Ids(InHand(w)) = {}
    <3>1. \A v, w \in Workers : HandIds[v] = HandIds[w] => v = w \/ HandIds[v] = 0
      BY <2>1 DEF Once
    <3>2. ASSUME NEW v \in Workers, NEW w \in Workers, v # w,
                 NEW k \in Ids(InHand(v)), k \in Ids(InHand(w))
          PROVE  FALSE
      <4>1. HandIds[v] = k /\ HandIds[w] = k /\ k # 0
        BY <2>6, <3>2
      <4> QED
        BY <3>1, <3>2, <4>1
    <3> QED
      BY <3>2
  <2>8. \A w \in Workers : Ids(InHand(w)) \cap Ids(Written) = {}
    <3>1. \A k \in Ids(Written) : \E i \in 1 .. Len(WrittenIds) : WrittenIds[i] = k
      BY <2>3 DEF Ids
    <3>2. \A w \in Workers, i \in 1 .. Len(WrittenIds) : HandIds[w] # WrittenIds[i]
      BY <2>1 DEF Once
    <3>3. ASSUME NEW w \in Workers, NEW k \in Ids(InHand(w)), k \in Ids(Written)
          PROVE  FALSE
      <4>1. PICK i \in 1 .. Len(WrittenIds) : WrittenIds[i] = k
        BY <3>1, <3>3
      <4>2. HandIds[w] = k
        BY <2>6, <3>3
      <4> QED
        BY <3>2, <4>1, <4>2
    <3> QED
      BY <3>3
  <2> QED
    BY <2>2, <2>4, <2>7, <2>8 DEF InOnePlace
<1> QED
  BY <1>1, ResultsInvariant, PTL
-----------------------------------------------------------------------------
(* The order of the log.                                                   *)

(* Dropping words, and moving workers that have nothing in hand.           *)
LEMMA OrderDropped ==
  ASSUME NEW x, NEW h, NEW s, NEW k, NEW o, InOrder(x, h, s, k, o),
         NEW y, \A f \in Fds : y[f] = 0 \/ y[f] = x[f],
         NEW l, \A w \in Workers : h[w] # 0 => l[w] = k[w]
  PROVE  InOrder(y, h, s, l, o)
  BY DEF InOrder

(* A new word comes last.                                                  *)
LEMMA OrderTyped ==
  ASSUME NEW x, NEW h, NEW s, NEW k, NEW o, NEW n,
         InOrder(x, h, s, k, o), Once(x, h, s, n),
         NEW p, \A i \in 1 .. n : p[i] = o[i],
         NEW y, NEW g \in Fds, y[g] = n + 1, p[n + 1] = g,
         \A f \in Fds \ {g} : y[f] = x[f]
  PROVE  InOrder(y, h, s, k, p)
<1>1. /\ n \in Nat
      /\ \A f \in Fds : x[f] \in 0 .. n
      /\ \A w \in Workers : h[w] \in 0 .. n
      /\ \A i \in 1 .. Len(s) : s[i] \in 1 .. n
  BY ElementOfSeq DEF Once
<1>2. /\ \A f \in Fds : x[f] # 0 => p[x[f]] = o[x[f]]
      /\ \A w \in Workers : h[w] # 0 => p[h[w]] = o[h[w]] /\ h[w] < n + 1
      /\ \A i \in 1 .. Len(s) : p[s[i]] = o[s[i]] /\ s[i] < n + 1
  BY <1>1
<1>3. \A f \in Fds : y[f] # 0 => p[y[f]] = f
  BY <1>2 DEF InOrder
<1>4. \A w \in Workers : h[w] # 0 => p[h[w]] = k[w]
  BY <1>2 DEF InOrder
<1>5. \A w \in Workers, i \in 1 .. Len(s) : h[w] # 0 /\ p[s[i]] = k[w] => s[i] < h[w]
  BY <1>2 DEF InOrder
<1>6. \A f \in Fds, i \in 1 .. Len(s) : y[f] # 0 /\ p[s[i]] = f => s[i] < y[f]
  BY <1>2 DEF InOrder
<1>7. \A f \in Fds, w \in Workers : h[w] # 0 /\ y[f] # 0 /\ k[w] = f => h[w] < y[f]
  BY <1>2 DEF InOrder
<1>8. \A i, j \in 1 .. Len(s) : i < j /\ p[s[i]] = p[s[j]] => s[i] < s[j]
  BY <1>2 DEF InOrder
<1> QED
  BY <1>3, <1>4, <1>5, <1>6, <1>7, <1>8 DEF InOrder

(* A worker takes the word in the socket of its client.                    *)
LEMMA OrderTaken ==
  ASSUME NEW x, NEW h, NEW s, NEW k, NEW o, InOrder(x, h, s, k, o),
         NEW v \in Workers, k[v] \in Fds, x[k[v]] # 0,
         NEW y, y[k[v]] = 0, \A f \in Fds \ {k[v]} : y[f] = x[f],
         NEW j, j[v] = x[k[v]], \A w \in Workers \ {v} : j[w] = h[w]
  PROVE  InOrder(y, j, s, k, o)
<1>1. \A f \in Fds : y[f] # 0 => o[y[f]] = f
  BY DEF InOrder
<1>2. \A w \in Workers : j[w] # 0 => o[j[w]] = k[w]
  BY DEF InOrder
<1>3. \A w \in Workers, i \in 1 .. Len(s) : j[w] # 0 /\ o[s[i]] = k[w] => s[i] < j[w]
  BY DEF InOrder
<1>4. \A f \in Fds, i \in 1 .. Len(s) : y[f] # 0 /\ o[s[i]] = f => s[i] < y[f]
  BY DEF InOrder
<1>5. \A f \in Fds, w \in Workers : j[w] # 0 /\ y[f] # 0 /\ k[w] = f => j[w] < y[f]
  BY DEF InOrder
<1>6. \A i, e \in 1 .. Len(s) : i < e /\ o[s[i]] = o[s[e]] => s[i] < s[e]
  BY DEF InOrder
<1> QED
  BY <1>1, <1>2, <1>3, <1>4, <1>5, <1>6 DEF InOrder

(* The only worker of a client hands its result on.                        *)
LEMMA OrderPut ==
  ASSUME NEW x, NEW h, NEW s \in Seq(Nat), NEW k, NEW o, InOrder(x, h, s, k, o),
         NEW v \in Workers, h[v] # 0, h[v] \in Nat,
         \A w \in Workers \ {v} : k[w] # k[v],
         NEW j, j[v] = 0, \A w \in Workers \ {v} : j[w] = h[w],
         NEW r, r = Append(s, h[v])
  PROVE  InOrder(x, j, r, k, o)
<1>1. /\ Len(s) \in Nat /\ Len(r) = Len(s) + 1 /\ r[Len(s) + 1] = h[v]
      /\ \A i \in 1 .. Len(s) : r[i] = s[i]
  OBVIOUS
<1>2. \A i \in 1 .. Len(r) : i \in 1 .. Len(s) \/ i = Len(s) + 1
  BY <1>1
<1>3. o[h[v]] = k[v]
  BY DEF InOrder
<1>4. /\ \A f \in Fds : x[f] # 0 => o[x[f]] = f
      /\ \A w \in Workers : j[w] # 0 => o[j[w]] = k[w]
      /\ \A f \in Fds, w \in Workers : j[w] # 0 /\ x[f] # 0 /\ k[w] = f => j[w] < x[f]
  BY DEF InOrder
<1>5. \A w \in Workers, i \in 1 .. Len(r) : j[w] # 0 /\ o[r[i]] = k[w] => r[i] < j[w]
  <2> SUFFICES ASSUME NEW w \in Workers, NEW i \in 1 .. Len(r), j[w] # 0, o[r[i]] = k[w]
               PROVE  r[i] < j[w]
    OBVIOUS
  <2>1. w # v /\ j[w] = h[w] /\ k[w] # k[v]
    OBVIOUS
  <2>2. i \in 1 .. Len(s) /\ r[i] = s[i]
    BY <1>1, <1>2, <1>3, <2>1
  <2> QED
    BY <2>1, <2>2 DEF InOrder
<1>6. \A f \in Fds, i \in 1 .. Len(r) : x[f] # 0 /\ o[r[i]] = f => r[i] < x[f]
  BY <1>1, <1>2, <1>3 DEF InOrder
<1>7. \A i, e \in 1 .. Len(r) : i < e /\ o[r[i]] = o[r[e]] => r[i] < r[e]
  <2> SUFFICES ASSUME NEW i \in 1 .. Len(r), NEW e \in 1 .. Len(r), i < e, o[r[i]] = o[r[e]]
               PROVE  r[i] < r[e]
    OBVIOUS
  <2>1. i \in 1 .. Len(s) /\ r[i] = s[i]
    BY <1>1, <1>2
  <2>2. CASE e \in 1 .. Len(s)
    BY <1>1, <2>1, <2>2 DEF InOrder
  <2>3. CASE e = Len(s) + 1
    BY <1>1, <1>3, <2>1, <2>3 DEF InOrder
  <2> QED
    BY <1>2, <2>2, <2>3
<1> QED
  BY <1>4, <1>5, <1>6, <1>7 DEF InOrder

(* Only a worker that pops or closes changes its descriptor.               *)
LEMMA SockKept ==
  ASSUME TypeOK, [Next]_vars, NEW w \in Workers, pc[w] \notin {"take_sock", "close"}
  PROVE  sock'[w] = sock[w]
<1>1. sock \in [Holding -> Descriptors] /\ w \in Holding /\ Main \in Holding /\ w # Main
  BY OwnerTypes, ThreadAssumption DEF Holding
<1>2. CASE MainStep
  BY <1>1, <1>2 DEF MainStep, Accept, MainLock, MainWait, PutSock, PushSock, MainUnlock,
     Lock, Wait, Unlock
<1>3. CASE LoggerStep
  BY <1>3 DEF LoggerStep, LoggerLock, LoggerWait, TakeLog, PopLog, LoggerUnlock,
     Lock, Wait, Unlock
<1>4. CASE ClientStep \/ Wakeup \/ Dead \/ UNCHANGED vars
  BY <1>4 DEF ClientStep, Wakeup, Dead, vars, threadVars
<1>5. ASSUME NEW v \in Workers, WorkerStep(v)
      PROVE  sock'[w] = sock[w]
  <2>1. CASE TakeSock(v) \/ Close(v)
    <3>1. pc[v] \in {"take_sock", "close"}
      BY <2>1 DEF TakeSock, PopSock, Close, Goto
    <3>2. w # v /\ v \in Holding
      BY <3>1 DEF Holding
    <3> QED
      BY <1>1, <2>1, <3>2 DEF TakeSock, PopSock, Close
  <2>2. CASE ~ (TakeSock(v) \/ Close(v))
    <3>1. sock' = sock
      BY <1>5, <2>2 DEF WorkerStep, WorkerLock, WorkerWait, WorkerUnlock, Sigpipe, Greet,
         PingQueued, PingServed, Ping, Prompt, Receive, Answer, LogLock, LogWait, PutLog,
         PushLog, LogUnlock, Lock, Wait, Unlock, LocalUnchanged, threadVars
    <3> QED
      BY <3>1
  <2> QED
    BY <2>1, <2>2
<1> QED
  BY <1>2, <1>3, <1>4, <1>5 DEF Next

(* Two workers never have the same client.                                 *)
LEMMA OwnClient ==
  ASSUME Owners, NEW v \in Workers, NEW w \in Workers, v # w, sock[v] \in Fds
  PROVE  sock[w] # sock[v]
  BY DEF Owners, Owned, Nowhere, InOneSock, InOneSlot, Holding
(* Every step keeps each client's results in order.                        *)
LEMMA OrderStep ==
  TypeOK /\ TypeOK' /\ RingsOK /\ Owners /\ Results /\ Ordered /\ [Next]_vars => Ordered'
<1> SUFFICES ASSUME TypeOK, TypeOK', RingsOK, Owners, Results, Ordered, [Next]_vars
             PROVE  InOrder(RxIds', HandIds', WrittenIds', sock', Froms')
  BY DEF Ordered
<1>1. /\ Written \in Seq(Entry \cup {NoEntry})
      /\ word \in [Workers -> Entry \cup {NoEntry}]
      /\ rx \in [Fds -> {<<>>} \cup {<<m>> : m \in Message}]
      /\ requests \in Seq(Request)
      /\ RxIds \in [Fds -> Nat] /\ HandIds \in [Workers -> Nat]
  BY ResultTypes, IdTypes DEF IdsTyped
<1>2. /\ Once(RxIds, HandIds, WrittenIds, Len(requests))
      /\ InOrder(RxIds, HandIds, WrittenIds, sock, Froms)
  BY DEF Results, Ordered
<1>3. \A w \in Workers : HandIds[w] # 0 =>
        word[w] # NoEntry /\ pc[w] \in {"answer", "lock_log", "put_log"}
  BY DEF HandIds, Results, HandsFull
<1>4. \A w \in Workers : HandIds[w] # 0 \/ pc[w] = "receive" => sock'[w] = sock[w]
  BY <1>3, SockKept
<1>5. InOrder(RxIds, HandIds, WrittenIds, sock', Froms)
  BY <1>2, <1>4, OrderDropped
<1>6. CASE Quiet
  <2>1. HandIds' = HandIds /\ WrittenIds' = WrittenIds /\ Froms' = Froms
    BY <1>6 DEF Quiet, HandIds, WrittenIds, Froms
  <2>2. \A f \in Fds : RxIds'[f] = 0 \/ RxIds'[f] = RxIds[f]
    BY <1>6 DEF Quiet
  <2>3. InOrder(RxIds', HandIds, WrittenIds, sock', Froms)
    BY <1>5, <2>2, OrderDropped
  <2> QED
    BY <2>1, <2>3
<1>7. ASSUME NEW g \in Fds, NEW v \in Words, Typed(g, v)
      PROVE  InOrder(RxIds', HandIds', WrittenIds', sock', Froms')
  <2> DEFINE n == Len(requests)
  <2>1. HandIds' = HandIds /\ WrittenIds' = WrittenIds
    BY <1>7 DEF Typed, HandIds, WrittenIds
  <2>2. [fd |-> g, word |-> v] \in Request
    BY DEF Request
  <2>3. /\ n \in Nat /\ Len(requests') = n + 1
        /\ requests'[n + 1] = [fd |-> g, word |-> v]
        /\ \A i \in 1 .. n : requests'[i] = requests[i]
        /\ rx'[g] = <<[id |-> n + 1, word |-> v]>>
        /\ \A f \in Fds \ {g} : rx'[f] = rx[f]
    BY <1>1, <1>7, <2>2 DEF Typed, Type
  <2>4. RxIds'[g] = n + 1 /\ \A f \in Fds \ {g} : RxIds'[f] = RxIds[f]
    BY <2>3 DEF RxIds
  <2> HIDE DEF n
  <2>5. Froms'[n + 1] = g /\ \A i \in 1 .. n : Froms'[i] = Froms[i]
    <3>1. n + 1 \in 1 .. n + 1 /\ \A i \in 1 .. n : i \in 1 .. n + 1
      BY <2>3
    <3>2. /\ Froms' = [i \in 1 .. n + 1 |-> requests'[i].fd]
          /\ Froms = [i \in 1 .. n |-> requests[i].fd]
      BY <2>3 DEF Froms, n
    <3> QED
      BY <2>3, <3>1, <3>2
  <2>6. Once(RxIds, HandIds, WrittenIds, n)
    BY <1>2 DEF n
  <2>7. InOrder(RxIds', HandIds, WrittenIds, sock', Froms')
    BY <1>5, <2>4, <2>5, <2>6, OrderTyped
  <2> QED
    BY <2>1, <2>7
<1>8. ASSUME NEW w \in Workers, NEW m \in Message, NEW read \in Words, Taken(w, m, read)
      PROVE  InOrder(RxIds', HandIds', WrittenIds', sock', Froms')
  <2>1. WrittenIds' = WrittenIds /\ Froms' = Froms
    BY <1>8 DEF Taken, WrittenIds, Froms
  <2>2. /\ sock'[w] = sock[w] /\ sock[w] \in Fds
        /\ rx[sock[w]] = <<m>> /\ rx'[sock[w]] = <<>>
        /\ \A f \in Fds \ {sock[w]} : rx'[f] = rx[f]
    BY <1>1, <1>4, <1>8 DEF Taken
  <2>3. m.id # 0
    BY DEF Message
  <2>4. /\ RxIds[sock[w]] = m.id /\ RxIds'[sock[w]] = 0
        /\ \A f \in Fds \ {sock[w]} : RxIds'[f] = RxIds[f]
    BY <2>2 DEF RxIds
  <2>5. /\ word'[w] = [id |-> m.id, word |-> read, ok |-> read \in Dictionary]
        /\ \A u \in Workers \ {w} : word'[u] = word[u]
    BY <1>1, <1>8 DEF Taken
  <2>6. word'[w].id = m.id /\ word'[w] # NoEntry
    <3>1. word'[w] \in Entry
      BY <2>5 DEF Entry, Message
    <3> QED
      BY <2>5, <3>1, EntryAssumption
  <2>7. HandIds'[w] = m.id /\ \A u \in Workers \ {w} : HandIds'[u] = HandIds[u]
    BY <2>5, <2>6 DEF HandIds
  <2>8. InOrder(RxIds', HandIds', WrittenIds, sock', Froms)
    <3> DEFINE x == RxIds
               y == RxIds'
               h == HandIds
               j == HandIds'
               s == WrittenIds
               k == sock'
               o == Froms
    <3>1. /\ InOrder(x, h, s, k, o) /\ k[w] \in Fds /\ x[k[w]] # 0 /\ y[k[w]] = 0
          /\ \A f \in Fds \ {k[w]} : y[f] = x[f]
          /\ j[w] = x[k[w]] /\ \A u \in Workers \ {w} : j[u] = h[u]
      BY <1>5, <2>2, <2>3, <2>4, <2>7
    <3> HIDE DEF x, y, h, j, s, k, o
    <3>2. InOrder(y, j, s, k, o)
      BY <3>1, OrderTaken
    <3> QED
      BY <3>2 DEF y, j, s, k, o
  <2> QED
    BY <2>1, <2>8
<1>9. ASSUME NEW w \in Workers, Handed(w)
      PROVE  InOrder(RxIds', HandIds', WrittenIds', sock', Froms')
  <2>1. RxIds' = RxIds /\ Froms' = Froms
    BY <1>9 DEF Handed, RxIds, Froms
  <2>2. /\ word'[w] = NoEntry /\ \A u \in Workers \ {w} : word'[u] = word[u]
        /\ word[w] \in Entry /\ word[w] # NoEntry
        /\ sock[w] \in Fds
    BY <1>1, <1>9, OwnerTypes DEF Handed, Results, HandsFull, Holding, Descriptors
  <2>3. /\ HandIds[w] = word[w].id /\ HandIds[w] # 0 /\ HandIds'[w] = 0
        /\ \A u \in Workers \ {w} : HandIds'[u] = HandIds[u]
    BY <2>2 DEF HandIds, Entry
  <2>4. WrittenIds' = Append(WrittenIds, HandIds[w])
    BY <1>9, AppendId
  <2>5. \A u \in Workers \ {w} : sock[u] # sock[w]
    BY <2>2, OwnClient
  <2>6. InOrder(RxIds, HandIds', WrittenIds', sock, Froms)
    <3> DEFINE x == RxIds
               h == HandIds
               j == HandIds'
               s == WrittenIds
               r == WrittenIds'
               o == Froms
    <3>1. s \in Seq(Nat)
      <4>1. WrittenIds \in Seq(1 .. Len(requests)) /\ 1 .. Len(requests) \subseteq Nat
        BY <1>2 DEF Once
      <4> QED
        BY <4>1, SeqMonotonic
    <3>2. /\ InOrder(x, h, s, sock, o) /\ h[w] # 0 /\ h[w] \in Nat /\ j[w] = 0
          /\ \A u \in Workers \ {w} : j[u] = h[u]
          /\ r = Append(s, h[w])
      BY <1>1, <1>2, <2>3, <2>4
    <3> HIDE DEF x, h, j, s, r, o
    <3>3. InOrder(x, j, r, sock, o)
      BY <2>5, <3>1, <3>2, OrderPut
    <3> QED
      BY <3>3 DEF x, j, r, o
  <2>7. \A u \in Workers : HandIds'[u] # 0 => sock'[u] = sock[u]
    BY <1>4, <2>3
  <2>8. InOrder(RxIds, HandIds', WrittenIds', sock', Froms)
    BY <2>6, <2>7, OrderDropped
  <2> QED
    BY <2>1, <2>8
<1> QED
  BY <1>6, <1>7, <1>8, <1>9, Kinds

(* Each client's results are in the log in the order of its words, in      *)
(* every reachable state: workers take a client's words one at a time, and *)
(* close its connection only when the last result is handed on.            *)
THEOREM OrderKept == Spec => []LogKeepsOrder
<1>1. Init => Ordered
  <2> SUFFICES ASSUME Init
               PROVE  Ordered
    OBVIOUS
  <2>1. /\ \A w \in Workers : HandIds[w] = 0
        /\ \A fd \in Fds : RxIds[fd] = 0
    BY DEF Init, SocketInit, HandIds, RxIds
  <2>2. WrittenIds = <<>>
    <3>1. Contents(log_queue) = <<>> /\ log = <<>>
      BY NewQueue DEF Init
    <3>2. <<>> \o <<>> = <<>> /\ Len(<<>>) = 0
      OBVIOUS
    <3> QED
      BY <3>1, <3>2 DEF WrittenIds, Written
  <2> QED
    BY <2>1, <2>2 DEF Ordered, InOrder
<1> DEFINE Inv == TypeOK /\ RingsOK /\ Owners /\ Results
<1>2. Inv /\ Inv' /\ Ordered /\ [Next]_vars => Ordered'
  BY OrderStep
<1>3. ASSUME Inv, Ordered
      PROVE  LogKeepsOrder
  <2>1. /\ Once(RxIds, HandIds, WrittenIds, Len(requests))
        /\ InOrder(RxIds, HandIds, WrittenIds, sock, Froms)
    BY <1>3 DEF Results, Ordered
  <2>2. /\ Len(WrittenIds) = Len(Written)
        /\ \A i \in 1 .. Len(Written) : WrittenIds[i] = Written[i].id
    BY <1>3, WrittenId
  <2>3. \A i \in 1 .. Len(Written) : WrittenIds[i] \in 1 .. Len(requests)
    BY <2>1, <2>2, ElementOfSeq DEF Once
  <2>4. \A i \in 1 .. Len(Written) : Froms[WrittenIds[i]] = requests[Written[i].id].fd
    BY <2>2, <2>3 DEF Froms
  <2> QED
    BY <2>1, <2>2, <2>4 DEF InOrder, LogKeepsOrder
<1>4. Inv /\ Ordered => LogKeepsOrder
  BY <1>3
<1> QED
  BY <1>1, <1>2, <1>4, ResultsInvariant, PTL DEF Spec

-----------------------------------------------------------------------------
(***************************************************************************)
(* Proofs about SpellServer when clients type only at the prompt: the      *)
(* pings throw nothing away (NoWordSwallowed), and when moreover recv      *)
(* finds zeroed memory behind the input, every result in the log has the   *)
(* word its client typed and the right verdict (LoggedOnce).               *)
(***************************************************************************)
(* Input is there, or may come.                                            *)
InputDue(fd) == rx[fd] # <<>> \/ (fd \in prompted /\ peer[fd] = "open")

(* Input comes after the prompt, and the worker of the client waits for it *)
(* in the recv that keeps what it gets.                                    *)
Attended(fd) ==
  /\ rx[fd] # <<>> => fd \notin prompted
  /\ InputDue(fd) => \E w \in Workers : sock[w] = fd /\ pc[w] = "receive"

AtPrompt == \A fd \in Fds : Attended(fd)

AsTyped ==
  /\ \A fd \in Fds :
       rx[fd] # <<>> => Head(rx[fd]).word = requests[Head(rx[fd]).id].word
  /\ \A w \in Workers :
       word[w] # NoEntry => word[w].word = requests[word[w].id].word
  /\ \A i \in 1 .. Len(Written) : Written[i].word = requests[Written[i].id].word

-----------------------------------------------------------------------------
(* A worker leaves recv only by its own step.                              *)
LEMMA StaysAtReceive ==
  ASSUME TypeOK, [Next]_vars, NEW v \in Workers, pc[v] = "receive", ~ Receive(v)
  PROVE  pc'[v] = "receive"
<1>1. pc \in [Threads -> MainPC \cup WorkerPC \cup LoggerPC] /\ v # Main /\ v # Logger
  BY OwnerTypes, ThreadAssumption
<1>2. ASSUME NEW t, NEW from, NEW to, Goto(t, from, to), from # "receive" \/ t # v
      PROVE  pc'[v] = "receive"
  BY <1>1, <1>2 DEF Goto, Threads
<1>3. CASE MainStep
  BY <1>1, <1>2, <1>3 DEF MainStep, Accept, MainLock, MainWait, PutSock, PushSock,
     MainUnlock, Lock, Wait, Unlock
<1>4. CASE LoggerStep
  BY <1>1, <1>2, <1>4 DEF LoggerStep, LoggerLock, LoggerWait, TakeLog, PopLog, LoggerUnlock,
     Lock, Wait, Unlock
<1>5. CASE ClientStep \/ Wakeup \/ Dead \/ UNCHANGED vars \/ \E w \in Workers : Sigpipe(w)
  BY <1>5 DEF ClientStep, Wakeup, Dead, Sigpipe, vars, threadVars
<1>6. ASSUME NEW w \in Workers,
             \/ WorkerLock(w) \/ WorkerWait(w) \/ TakeSock(w) \/ WorkerUnlock(w)
             \/ LogLock(w) \/ LogWait(w) \/ PutLog(w) \/ LogUnlock(w)
      PROVE  pc'[v] = "receive"
  BY <1>2, <1>6 DEF WorkerLock, WorkerWait, TakeSock, PopSock, WorkerUnlock,
     LogLock, LogWait, PutLog, PushLog, LogUnlock, Lock, Wait, Unlock
<1>7. ASSUME NEW w \in Workers,
             \/ Greet(w) \/ PingQueued(w) \/ PingServed(w) \/ Prompt(w)
             \/ Answer(w) \/ Close(w)
      PROVE  pc'[v] = "receive"
  BY <1>2, <1>7 DEF Greet, PingQueued, PingServed, Ping, Prompt, Answer, Close
<1>8. ASSUME NEW w \in Workers, Receive(w)
      PROVE  pc'[v] = "receive"
  <2>1. w # v
    BY <1>8
  <2> QED
    BY <1>2, <1>8, <2>1 DEF Receive
<1> QED
  BY <1>3, <1>4, <1>5, <1>6, <1>7, <1>8 DEF Next, WorkerStep

(* A worker that is not at recv has no input to lose.                      *)
LEMMA NoInput ==
  ASSUME Owners, AtPrompt, NEW w \in Workers, pc[w] # "receive", sock[w] \in Fds
  PROVE  rx[sock[w]] = <<>>
<1> SUFFICES ASSUME rx[sock[w]] # <<>>
             PROVE  FALSE
  OBVIOUS
<1>1. PICK v \in Workers : sock[v] = sock[w] /\ pc[v] = "receive"
  BY DEF AtPrompt, Attended, InputDue
<1> QED
  BY <1>1, OwnClient

(* Words are typed and taken, never shortened.                             *)
LEMMA WordsWhole ==
  ASSUME TypeOK, Owners, AtPrompt, [Next]_vars, NEW fd \in Fds
  PROVE  rx'[fd] = <<>> \/ rx'[fd] = rx[fd] \/ \E v \in Words : Type(fd, v)
<1>1. rx \in [Fds -> {<<>>} \cup {<<m>> : m \in Message}]
  BY ResultTypes
<1>2. CASE MainStep
  BY <1>1, <1>2 DEF MainStep, Accept, accept, MainLock, MainWait, PutSock, PushSock,
     MainUnlock, Lock, Wait, Unlock, socketVars
<1>3. CASE LoggerStep \/ Wakeup \/ Dead \/ UNCHANGED vars
  BY <1>3 DEF LoggerStep, LoggerLock, LoggerWait, TakeLog, PopLog, LoggerUnlock,
     Lock, Wait, Unlock, Wakeup, Dead, vars, socketVars
<1>4. CASE ClientStep
  <2>1. PICK g \in Fds : Finish(g) \/ Reset(g) \/ \E v \in Words : Type(g, v)
    BY <1>4 DEF ClientStep, Client
  <2>2. CASE Finish(g) \/ Reset(g)
    BY <2>2 DEF Finish, Reset
  <2>3. ASSUME NEW v \in Words, Type(g, v)
        PROVE  g = fd \/ rx'[fd] = rx[fd]
    BY <1>1, <2>3 DEF Type
  <2> QED
    BY <2>1, <2>2, <2>3
<1>5. ASSUME NEW w \in Workers,
             \/ WorkerLock(w) \/ WorkerWait(w) \/ TakeSock(w) \/ WorkerUnlock(w) \/ Sigpipe(w)
             \/ LogLock(w) \/ LogWait(w) \/ PutLog(w) \/ LogUnlock(w)
             \/ Greet(w) \/ Prompt(w) \/ Answer(w)
      PROVE  rx' = rx
  BY <1>5 DEF WorkerLock, WorkerWait, TakeSock, PopSock, WorkerUnlock, Sigpipe,
     LogLock, LogWait, PutLog, PushLog, LogUnlock, Lock, Wait, Unlock,
     Greet, Prompt, Answer, socketVars
<1>6. ASSUME NEW w \in Workers, PingQueued(w) \/ PingServed(w)
      PROVE  rx'[fd] = rx[fd]
  <2>1. pc[w] # "receive" /\ rx' = rxAfterPing(sock[w])
    BY <1>6 DEF PingQueued, PingServed, Ping, Goto
  <2>2. fd = sock[w] => rx[fd] = <<>>
    BY <2>1, NoInput
  <2> QED
    BY <2>1, <2>2 DEF rxAfterPing
<1>7. ASSUME NEW w \in Workers, Receive(w) \/ Close(w)
      PROVE  rx'[fd] = <<>> \/ rx'[fd] = rx[fd]
  BY <1>1, <1>7 DEF Receive, Close, close
<1> QED
  BY <1>2, <1>3, <1>4, <1>5, <1>6, <1>7 DEF Next, WorkerStep

(* A step after which no more input is due for fd than before it, and in   *)
(* which no one takes fd's input, keeps fd attended.                       *)
LEMMA AttendedKept ==
  ASSUME TypeOK, [Next]_vars, NEW fd \in Fds, Attended(fd),
         rx'[fd] = rx[fd] \/ rx'[fd] = <<>>,
         fd \in prompted' => fd \in prompted,
         peer'[fd] = "open" => peer[fd] = "open" \/ fd \notin prompted',
         \A w \in Workers : Receive(w) => sock[w] # fd
  PROVE  Attended(fd)'
<1>1. rx'[fd] # <<>> => fd \notin prompted'
  BY DEF Attended
<1>2. ASSUME InputDue(fd)'
      PROVE  \E w \in Workers : sock'[w] = fd /\ pc'[w] = "receive"
  <2>1. InputDue(fd)
    BY <1>2 DEF InputDue
  <2>2. PICK w \in Workers : sock[w] = fd /\ pc[w] = "receive"
    BY <2>1 DEF Attended
  <2> QED
    BY <2>2, StaysAtReceive, SockKept
<1> QED
  BY <1>1, <1>2 DEF Attended

(* Nothing is due after the worker of fd has received.                     *)
LEMMA AttendedReceive ==
  ASSUME TypeOK, Owners, NEW fd \in Fds, Attended(fd),
         NEW w \in Workers, Receive(w), sock[w] = fd
  PROVE  Attended(fd)'
<1>1. /\ rx \in [Fds -> {<<>>} \cup {<<m>> : m \in Message}]
      /\ prompted' = prompted /\ sock' = sock
  BY ResultTypes DEF Receive, LocalUnchanged
<1>2. peer[fd] # "none"
  BY DEF Owners, Owned, Nowhere, Holding
<1>3. CASE HasData(fd) /\ rx' = [rx EXCEPT ![fd] = <<>>] /\ peer' = peer
  BY <1>1, <1>3 DEF Attended, InputDue, HasData
<1>4. CASE (AtEnd(fd) \/ RecvFails(fd)) /\ peer' = peerAfterRecv(fd) /\ rx' = rx
  <2>1. rx[fd] = <<>> /\ peer[fd] # "open"
    BY <1>2, <1>4 DEF AtEnd, RecvFails, Open
  <2>2. peer'[fd] # "open"
    BY <1>4, <2>1 DEF peerAfterRecv
  <2> QED
    BY <1>1, <1>4, <2>1, <2>2 DEF Attended, InputDue
<1> QED
  BY <1>3, <1>4 DEF Receive

(* After the prompt the worker waits for input.                            *)
LEMMA AttendedPrompt ==
  ASSUME TypeOK, Owners, AtPrompt, NEW fd \in Fds,
         NEW w \in Workers, Prompt(w), sock[w] = fd
  PROVE  Attended(fd)'
<1>1. sock' = sock /\ pc'[w] = "receive" /\ pc[w] = "prompt" /\ rx' = rx
  BY OwnerTypes DEF Prompt, LocalUnchanged, Goto, Threads
<1>2. rx[fd] = <<>>
  BY <1>1, NoInput
<1> QED
  BY <1>1, <1>2 DEF Attended

(* Every step keeps every client attended.                                 *)
LEMMA AtPromptStep ==
  Polite /\ TypeOK /\ Owners /\ AtPrompt /\ [Next]_vars => AtPrompt'
<1> SUFFICES ASSUME Polite, TypeOK, Owners, AtPrompt, [Next]_vars, NEW fd \in Fds
             PROVE  Attended(fd)'
  BY DEF AtPrompt
<1>1. /\ Attended(fd)
      /\ rx \in [Fds -> {<<>>} \cup {<<m>> : m \in Message}]
      /\ peer \in [Fds -> PeerStates]
  BY ResultTypes, OwnerTypes DEF AtPrompt
<1>2. ASSUME NEW v \in Words, Type(fd, v)
      PROVE  Attended(fd)'
  <2>1. rx'[fd] # <<>> /\ fd \notin prompted' /\ InputDue(fd)
    BY <1>1, <1>2 DEF Type, InputDue
  <2>2. PICK w \in Workers : sock[w] = fd /\ pc[w] = "receive"
    BY <1>1, <2>1 DEF Attended
  <2>3. \A u \in Workers : ~ Receive(u)
    BY <1>2, <2>1 DEF Receive, Type
  <2>4. sock'[w] = fd /\ pc'[w] = "receive"
    BY <2>2, <2>3, StaysAtReceive, SockKept
  <2> QED
    BY <2>1, <2>4 DEF Attended
<1>3. ASSUME NEW w \in Workers, Receive(w), sock[w] = fd
      PROVE  Attended(fd)'
  BY <1>1, <1>3, AttendedReceive
<1>4. ASSUME NEW w \in Workers, Prompt(w), sock[w] = fd
      PROVE  Attended(fd)'
  BY <1>4, AttendedPrompt
<1> SUFFICES ASSUME \A v \in Words : ~ Type(fd, v),
                    \A w \in Workers : Receive(w) => sock[w] # fd,
                    \A w \in Workers : Prompt(w) => sock[w] # fd
             PROVE  Attended(fd)'
  BY <1>2, <1>3, <1>4
<1>5. rx'[fd] = rx[fd] \/ rx'[fd] = <<>>
  BY WordsWhole
<1>6. /\ fd \in prompted' => fd \in prompted
      /\ peer'[fd] = "open" => peer[fd] = "open" \/ fd \notin prompted'
  <2>1. CASE Accept
    BY <1>1, <2>1 DEF Accept, accept, socketVars
  <2>2. CASE ClientStep
    <3>1. PICK g \in Fds : Finish(g) \/ Reset(g) \/ \E v \in Words : Type(g, v)
      BY <2>2 DEF ClientStep, Client
    <3> QED
      BY <1>1, <3>1 DEF Finish, Reset, Type
  <2>3. CASE MainLock \/ MainWait \/ PutSock \/ MainUnlock \/ LoggerStep \/ Wakeup
             \/ Dead \/ UNCHANGED vars
    BY <2>3 DEF MainLock, MainWait, PutSock, PushSock, MainUnlock, LoggerStep, LoggerLock,
       LoggerWait, TakeLog, PopLog, LoggerUnlock, Lock, Wait, Unlock, Wakeup, Dead, vars,
       socketVars
  <2>4. ASSUME NEW w \in Workers,
               \/ WorkerLock(w) \/ WorkerWait(w) \/ TakeSock(w) \/ WorkerUnlock(w) \/ Sigpipe(w)
               \/ LogLock(w) \/ LogWait(w) \/ PutLog(w) \/ LogUnlock(w)
        PROVE  prompted' = prompted /\ peer' = peer
    BY <2>4 DEF WorkerLock, WorkerWait, TakeSock, PopSock, WorkerUnlock, Sigpipe,
       LogLock, LogWait, PutLog, PushLog, LogUnlock, Lock, Wait, Unlock, socketVars
  <2>5. ASSUME NEW w \in Workers, Greet(w) \/ Answer(w)
        PROVE  prompted' = prompted /\ (peer'[fd] = "open" => peer[fd] = "open")
    BY <2>5 DEF Greet, Answer, peerAfterSend
  <2>6. ASSUME NEW w \in Workers, PingQueued(w) \/ PingServed(w) \/ Receive(w)
        PROVE  prompted' = prompted /\ (peer'[fd] = "open" => peer[fd] = "open")
    BY <2>6 DEF PingQueued, PingServed, Ping, Receive, peerAfterRecv
  <2>7. ASSUME NEW w \in Workers, Prompt(w)
        PROVE  /\ fd \in prompted' => fd \in prompted
               /\ peer'[fd] = "open" => peer[fd] = "open"
    BY <2>7 DEF Prompt, peerAfterSend
  <2>8. ASSUME NEW w \in Workers, Close(w)
        PROVE  /\ fd \in prompted' => fd \in prompted
               /\ peer'[fd] = "open" => peer[fd] = "open"
    BY <2>8 DEF Close, close
  <2> QED
    BY <2>1, <2>2, <2>3, <2>4, <2>5, <2>6, <2>7, <2>8 DEF Next, MainStep, WorkerStep
<1> QED
  BY <1>1, <1>5, <1>6, AttendedKept

(* No input is due at first.                                               *)
LEMMA InitAtPrompt == Init => AtPrompt
  BY DEF Init, SocketInit, AtPrompt, Attended, InputDue

(* The pings of a worker never find input: with clients that wait for the  *)
(* prompt nothing is swallowed, for all other constants.                   *)
THEOREM NothingSwallowed == Polite => (Spec => []NoWordSwallowed)
<1> SUFFICES ASSUME Polite
             PROVE  Spec => []NoWordSwallowed
  OBVIOUS
<1> DEFINE Inv == TypeOK /\ RingsOK /\ Owners /\ Results
<1>1. Init => AtPrompt
  BY InitAtPrompt
<1>2. Inv /\ AtPrompt /\ [Next]_vars => AtPrompt'
  BY AtPromptStep
<1>3. Inv /\ AtPrompt => NoWordSwallowed
  BY NoInput DEF NoWordSwallowed, HasData, Open
<1> QED
  BY <1>1, <1>2, <1>3, ResultsInvariant, PTL DEF Spec
-----------------------------------------------------------------------------
(* Words keep their numbers, and numbers their words.                      *)

(* The numbers that are in use are numbers of words.                       *)
LEMMA KnownIds ==
  ASSUME TypeOK, Results
  PROVE  /\ \A fd \in Fds : rx[fd] # <<>> => Head(rx[fd]).id \in 1 .. Len(requests)
         /\ \A w \in Workers : word[w] # NoEntry => word[w].id \in 1 .. Len(requests)
         /\ \A i \in 1 .. Len(Written) : Written[i].id \in 1 .. Len(requests)
<1>1. Once(RxIds, HandIds, WrittenIds, Len(requests))
  BY DEF Results
<1>2. ASSUME NEW fd \in Fds, rx[fd] # <<>>
      PROVE  Head(rx[fd]).id \in 1 .. Len(requests)
  <2>1. PICK m \in Message : rx[fd] = <<m>>
    BY <1>2, ResultTypes
  <2>2. RxIds[fd] = m.id /\ m.id \in Nat /\ m.id # 0
    BY <2>1, ClientAssumption DEF RxIds, Message
  <2>3. RxIds[fd] \in 0 .. Len(requests) /\ Len(requests) \in Nat
    BY <1>1 DEF Once
  <2> QED
    BY <2>1, <2>2, <2>3
<1>3. ASSUME NEW w \in Workers, word[w] # NoEntry
      PROVE  word[w].id \in 1 .. Len(requests)
  <2>1. HandIds[w] = word[w].id /\ word[w].id \in Nat /\ word[w].id # 0
    BY <1>3, ResultTypes, ClientAssumption DEF HandIds, Entry
  <2>2. HandIds[w] \in 0 .. Len(requests) /\ Len(requests) \in Nat
    BY <1>1 DEF Once
  <2> QED
    BY <2>1, <2>2
<1>4. \A i \in 1 .. Len(Written) : Written[i].id \in 1 .. Len(requests)
  BY <1>1, WrittenId, ElementOfSeq DEF Once
<1> QED
  BY <1>2, <1>3, <1>4

(* Every step keeps the typed words as they are.                           *)
LEMMA AsTypedStep ==
  /\ \A v \in Words : ReadsAs[v] = {v}
  /\ TypeOK /\ RingsOK /\ Owners /\ Results /\ AtPrompt /\ AsTyped /\ [Next]_vars
  => AsTyped'
<1> SUFFICES ASSUME \A v \in Words : ReadsAs[v] = {v},
                    TypeOK, RingsOK, Owners, Results, AtPrompt, AsTyped, [Next]_vars
             PROVE  AsTyped'
  OBVIOUS
<1> DEFINE n == Len(requests)
<1>1. /\ Written \in Seq(Entry \cup {NoEntry})
      /\ word \in [Workers -> Entry \cup {NoEntry}]
      /\ rx \in [Fds -> {<<>>} \cup {<<m>> : m \in Message}]
      /\ requests \in Seq(Request)
  BY ResultTypes
<1>2. /\ \A fd \in Fds : rx[fd] # <<>> => Head(rx[fd]).id \in 1 .. n
      /\ \A w \in Workers : word[w] # NoEntry => word[w].id \in 1 .. n
      /\ \A i \in 1 .. Len(Written) : Written[i].id \in 1 .. n
  BY KnownIds
<1>3. /\ \A fd \in Fds :
           rx[fd] # <<>> => Head(rx[fd]).word = requests[Head(rx[fd]).id].word
      /\ \A w \in Workers :
           word[w] # NoEntry => word[w].word = requests[word[w].id].word
      /\ \A i \in 1 .. Len(Written) : Written[i].word = requests[Written[i].id].word
  BY DEF AsTyped
<1>4. CASE Quiet
  <2>1. word' = word /\ requests' = requests /\ Written' = Written
    BY <1>4 DEF Quiet
  <2>2. \A fd \in Fds : rx'[fd] = <<>> \/ rx'[fd] = rx[fd]
    <3>1. \A fd \in Fds, v \in Words : ~ Type(fd, v)
      BY <1>1, <2>1 DEF Type
    <3> QED
      BY <3>1, WordsWhole
  <2>3. \A fd \in Fds :
          rx'[fd] # <<>> => Head(rx'[fd]).word = requests'[Head(rx'[fd]).id].word
    BY <1>3, <2>1, <2>2
  <2> QED
    BY <1>3, <2>1, <2>3 DEF AsTyped
<1>5. ASSUME NEW g \in Fds, NEW v \in Words, Typed(g, v)
      PROVE  AsTyped'
  <2> DEFINE m == [id |-> n + 1, word |-> v]
  <2>1. word' = word /\ Written' = Written
    BY <1>5 DEF Typed
  <2>2. [fd |-> g, word |-> v] \in Request
    BY DEF Request
  <2>3. /\ n \in Nat
        /\ requests'[n + 1] = [fd |-> g, word |-> v]
        /\ \A i \in 1 .. n : requests'[i] = requests[i]
        /\ rx'[g] = <<m>>
        /\ \A f \in Fds \ {g} : rx'[f] = rx[f]
    BY <1>1, <1>5, <2>2 DEF Typed, Type
  <2>4. Head(<<m>>) = m /\ m.id = n + 1 /\ m.word = v
    OBVIOUS
  <2> HIDE DEF n, m
  <2>5. ASSUME NEW f \in Fds, rx'[f] # <<>>
        PROVE  Head(rx'[f]).word = requests'[Head(rx'[f]).id].word
    <3>1. CASE f = g
      BY <2>3, <2>4, <3>1
    <3>2. CASE f # g
      BY <1>2, <1>3, <2>3, <2>5, <3>2
    <3> QED
      BY <3>1, <3>2
  <2>6. /\ \A w \in Workers :
             word'[w] # NoEntry => word'[w].word = requests'[word'[w].id].word
        /\ \A i \in 1 .. Len(Written') : Written'[i].word = requests'[Written'[i].id].word
    BY <1>2, <1>3, <2>1, <2>3
  <2> QED
    BY <2>5, <2>6 DEF AsTyped
<1>6. ASSUME NEW w \in Workers, NEW m \in Message, NEW read \in Words, Taken(w, m, read)
      PROVE  AsTyped'
  <2>1. requests' = requests /\ Written' = Written
    BY <1>6 DEF Taken
  <2>2. /\ sock[w] \in Fds /\ rx[sock[w]] = <<m>>
        /\ \A f \in Fds : rx'[f] = <<>> \/ rx'[f] = rx[f]
    BY <1>1, <1>6 DEF Taken
  <2>3. m.word = requests[m.id].word
    <3>1. Head(<<m>>) = m
      OBVIOUS
    <3> QED
      BY <1>3, <2>2, <3>1
  <2>4. read = m.word
    BY <1>6 DEF Taken, Message
  <2>5. /\ word'[w] = [id |-> m.id, word |-> read, ok |-> read \in Dictionary]
        /\ \A u \in Workers \ {w} : word'[u] = word[u]
    BY <1>1, <1>6 DEF Taken
  <2>6. word'[w].word = requests'[word'[w].id].word
    BY <2>1, <2>3, <2>4, <2>5
  <2>7. \A fd \in Fds :
          rx'[fd] # <<>> => Head(rx'[fd]).word = requests'[Head(rx'[fd]).id].word
    BY <1>3, <2>1, <2>2
  <2>8. \A u \in Workers :
          word'[u] # NoEntry => word'[u].word = requests'[word'[u].id].word
    BY <1>3, <2>1, <2>5, <2>6
  <2> QED
    BY <1>3, <2>1, <2>7, <2>8 DEF AsTyped
<1>7. ASSUME NEW w \in Workers, Handed(w)
      PROVE  AsTyped'
  <2>1. rx' = rx /\ requests' = requests
    BY <1>7 DEF Handed
  <2>2. /\ word'[w] = NoEntry /\ \A u \in Workers \ {w} : word'[u] = word[u]
        /\ Written' = Append(Written, word[w])
        /\ word[w] \in Entry /\ word[w] # NoEntry
    BY <1>1, <1>7 DEF Handed, Results, HandsFull
  <2>3. \A i \in 1 .. Len(Written') :
          \/ i \in 1 .. Len(Written) /\ Written'[i] = Written[i]
          \/ Written'[i] = word[w]
    BY <1>1, <2>2
  <2>4. \A i \in 1 .. Len(Written') : Written'[i].word = requests'[Written'[i].id].word
    BY <1>3, <2>1, <2>2, <2>3
  <2> QED
    BY <1>3, <2>1, <2>2, <2>4 DEF AsTyped
<1> QED
  BY <1>4, <1>5, <1>6, <1>7, Kinds

(* Each answer is logged once and as it was given, for any number of       *)
(* workers, slots, clients and words, if clients wait for the prompt and   *)
(* the memory behind the input is zero.                                    *)
THEOREM LoggedAsTyped ==
  Polite /\ (\A v \in Words : ReadsAs[v] = {v}) => (Spec => []LoggedOnce)
<1> SUFFICES ASSUME Polite, \A v \in Words : ReadsAs[v] = {v}
             PROVE  Spec => []LoggedOnce
  OBVIOUS
<1> DEFINE Inv == TypeOK /\ RingsOK /\ Owners /\ Results
           Input == AtPrompt /\ AsTyped
<1>1. Init => Input
  <2> SUFFICES ASSUME Init
               PROVE  AsTyped
    BY InitAtPrompt
  <2>1. Contents(log_queue) = <<>> /\ log = <<>>
    BY NewQueue DEF Init
  <2>2. <<>> \o <<>> = <<>> /\ Len(<<>>) = 0
    OBVIOUS
  <2>3. Len(Written) = 0
    BY <2>1, <2>2 DEF Written
  <2> QED
    BY <2>3 DEF Init, SocketInit, AsTyped
<1>2. Inv /\ Input /\ [Next]_vars => Input'
  BY AtPromptStep, AsTypedStep
<1>3. Inv /\ Input => Unmangled
  BY DEF AsTyped, Unmangled, Results, Judgements, Judged
<1>4. Spec => []Unmangled
  BY <1>1, <1>2, <1>3, ResultsInvariant, PTL DEF Spec
<1>5. InOnePlace /\ Unmangled => LoggedOnce
  BY DEF LoggedOnce
<1> QED
  BY <1>4, <1>5, ResultsOnce, PTL

-----------------------------------------------------------------------------
(***************************************************************************)
(* Proof that SpellServer implements SpellService for all constants: every *)
(* critical section is one atomic step of the service or changes nothing   *)
(* that the service speaks of.                                             *)
(***************************************************************************)
serving == [w \in Workers |-> sock[w]]
results == Contents(log_queue)

(* What the service sees.                                                  *)
seen == <<Queued, serving, results, log>>

-----------------------------------------------------------------------------
(* Steps that the service does not see.                                    *)
LEMMA Unseen ==
  ASSUME UNCHANGED <<socket_queue, log_queue, log>>,
         \A w \in Workers : sock'[w] = sock[w]
  PROVE  UNCHANGED seen
  BY DEF seen, Queued, serving, results

(* The queue between the server's threads is as long as its ring.          *)
LEMMA RoomForOne ==
  ASSUME NEW T, NEW q \in Queues(T), ~ full(q)
  PROVE  Len(Contents(q)) < SIZE
<1>1. q.size \in 0 .. SIZE /\ q.size # SIZE /\ SIZE \in Nat
  BY QueueParts DEF full
<1> QED
  BY <1>1, ContentsSeq

(* The parts of the log.                                                   *)
LEMMA LogParts ==
  ASSUME TypeOK
  PROVE  /\ \A k \in 1 .. Len(log) : k \in 1 .. Len(Written) /\ Written[k] = log[k]
         /\ \A k \in 1 .. Len(results) :
              Len(log) + k \in 1 .. Len(Written) /\ Written[Len(log) + k] = results[k]
<1>1. log \in Seq(Entry \cup {NoEntry}) /\ results \in Seq(Entry \cup {NoEntry})
  BY ResultTypes DEF results
<1>2. /\ Written = log \o results
      /\ Len(Written) = Len(log) + Len(results)
      /\ Len(log) \in Nat /\ Len(results) \in Nat
      /\ \A i \in 1 .. Len(log) + Len(results) :
           Written[i] = IF i <= Len(log) THEN log[i] ELSE results[i - Len(log)]
  BY <1>1, ConcatProperties DEF Written, results
<1> HIDE DEF results
<1>3. \A k \in 1 .. Len(log) :
        k \in 1 .. Len(log) + Len(results) /\ k <= Len(log)
  BY <1>2
<1>4. \A k \in 1 .. Len(results) :
        /\ Len(log) + k \in 1 .. Len(log) + Len(results)
        /\ ~ (Len(log) + k <= Len(log)) /\ (Len(log) + k) - Len(log) = k
  BY <1>2
<1> QED
  BY <1>2, <1>3, <1>4

(* The initial state.                                                      *)
LEMMA ServiceInit == Init => Service!Init
<1> SUFFICES ASSUME Init
             PROVE  Service!Init
  OBVIOUS
<1>1. Queued = <<>> /\ Contents(log_queue) = <<>>
  BY NewQueue DEF Init, Queued
<1>2. \A w \in Workers : sock[w] = NoFd
  BY DEF Init
<1> QED
  BY <1>1, <1>2 DEF Init, Service!Init

(* main queues a connection, or the -1 of a failed accept.                 *)
LEMMA PutSockArrives ==
  ASSUME TypeOK, RingsOK, PutSock
  PROVE  \E c \in Fds \cup {NoFd} : Service!Arrive(c)
<1>1. /\ sock \in [Holding -> Descriptors]
      /\ socket_queue \in Queues(Descriptors) /\ RingOK(socket_queue)
      /\ Main \in Holding /\ Main \notin Workers
  BY OwnerTypes, ThreadAssumption DEF RingsOK, Holding
<1>2. /\ ~ full(socket_queue)
      /\ socket_queue' = push(socket_queue, sock[Main])
      /\ sock' = [sock EXCEPT ![Main] = NoFd]
      /\ log_queue' = log_queue /\ log' = log
  BY DEF PutSock, PushSock
<1>3. sock[Main] \in Descriptors
  BY <1>1
<1>4. Queued' = Append(Queued, sock[Main])
  BY <1>1, <1>2, <1>3, PushContents DEF Queued
<1>5. Len(Queued) < SIZE
  BY <1>1, <1>2, RoomForOne DEF Queued
<1>6. serving' = serving
  BY <1>1, <1>2 DEF serving, Holding
<1>7. results' = results
  BY <1>2 DEF results
<1>8. Service!Arrive(sock[Main])
  BY <1>2, <1>4, <1>5, <1>6, <1>7 DEF Service!Arrive, serving, results
<1> QED
  BY <1>3, <1>8 DEF Descriptors

(* A worker takes the first of the waiting clients.                        *)
LEMMA TakeSockServes ==
  ASSUME TypeOK, RingsOK, Owners, NEW w \in Workers, TakeSock(w)
  PROVE  Service!Serve(w)
<1>1. /\ sock \in [Holding -> Descriptors] /\ Workers \subseteq Holding
      /\ socket_queue \in Queues(Descriptors) /\ RingOK(socket_queue)
  BY OwnerTypes DEF RingsOK, Holding
<1>2. /\ pc[w] = "take_sock" /\ ~ empty(socket_queue)
      /\ sock' = [sock EXCEPT ![w] = front_item(socket_queue)]
      /\ socket_queue' = pop(socket_queue)
      /\ log_queue' = log_queue /\ log' = log
  BY DEF TakeSock, PopSock, Goto
<1>3. /\ Queued # <<>> /\ front_item(socket_queue) = Head(Queued)
      /\ Queued' = Tail(Queued)
  BY <1>1, <1>2, PopContents DEF Queued
<1>4. serving[w] = NoFd
  BY <1>2 DEF Owners, FreeHanded, serving
<1>5. serving' = [serving EXCEPT ![w] = Head(Queued)]
  BY <1>1, <1>2, <1>3 DEF serving
<1>6. results' = results
  BY <1>2 DEF results
<1> QED
  BY <1>2, <1>3, <1>4, <1>5, <1>6 DEF Service!Serve, serving, results

(* A worker lets its client go.                                            *)
LEMMA CloseLeaves ==
  ASSUME TypeOK, NEW w \in Workers, Close(w)
  PROVE  Service!Leave(w) \/ UNCHANGED seen
<1>1. sock \in [Holding -> Descriptors] /\ Workers \subseteq Holding
  BY OwnerTypes DEF Holding
<1>2. /\ sock' = [sock EXCEPT ![w] = NoFd]
      /\ socket_queue' = socket_queue /\ log_queue' = log_queue /\ log' = log
  BY DEF Close, queueVars
<1>3. CASE sock[w] = NoFd
  <2>1. \A v \in Workers : sock'[v] = sock[v]
    BY <1>1, <1>2, <1>3
  <2> QED
    BY <1>2, <2>1, Unseen
<1>4. CASE sock[w] # NoFd
  <2>1. serving[w] # NoFd /\ serving' = [serving EXCEPT ![w] = NoFd]
    BY <1>1, <1>2, <1>4 DEF serving
  <2>2. Queued' = Queued /\ results' = results
    BY <1>2 DEF Queued, results
  <2> QED
    BY <1>2, <2>1, <2>2 DEF Service!Leave, serving, results
<1> QED
  BY <1>3, <1>4

(* A worker hands on a result that is new, of a client it has.             *)
LEMMA PutLogDelivers ==
  ASSUME TypeOK, RingsOK, Results, NEW w \in Workers, PutLog(w)
  PROVE  \E r \in Entry : Service!Deliver(w, r)
<1>1. /\ log_queue \in Queues(Entry \cup {NoEntry}) /\ RingOK(log_queue)
      /\ word \in [Workers -> Entry \cup {NoEntry}]
  BY ResultTypes DEF RingsOK
<1>2. /\ pc[w] = "put_log" /\ ~ full(log_queue)
      /\ log_queue' = push(log_queue, word[w])
      /\ sock' = sock /\ socket_queue' = socket_queue /\ log' = log
  BY DEF PutLog, PushLog, Goto
<1>3. word[w] \in Entry /\ word[w].ok = (word[w].word \in Dictionary) /\ word[w] # NoEntry
  BY <1>2 DEF Results, HandsFull, Judgements, Judged
<1>4. results' = Append(results, word[w])
  BY <1>1, <1>2, PushContents DEF results
<1>5. Len(results) < SIZE
  BY <1>1, <1>2, RoomForOne DEF results
<1>6. serving[w] # NoFd /\ serving' = serving /\ Queued' = Queued
  BY <1>2 DEF Results, HandsFull, serving, Queued
<1>7. Service!Fresh(word[w].id)
  <2>1. \A i \in 1 .. Len(Written) : Written[i].id # word[w].id
    <3>1. HandIds[w] = word[w].id
      BY <1>3 DEF HandIds
    <3> QED
      BY <3>1, WrittenId DEF Results, Once
  <2>2. \A k \in 1 .. Len(log) : log[k].id # word[w].id
    BY <2>1, LogParts
  <2>3. \A k \in 1 .. Len(results) : results[k].id # word[w].id
    BY <2>1, LogParts
  <2> QED
    BY <2>2, <2>3 DEF Service!Fresh, results
<1>8. Service!Deliver(w, word[w])
  BY <1>2, <1>3, <1>4, <1>5, <1>6, <1>7 DEF Service!Deliver, serving, results
<1> QED
  BY <1>3, <1>8

(* The logger writes the first of the results.                             *)
LEMMA TakeLogRecords ==
  ASSUME TypeOK, RingsOK, TakeLog
  PROVE  Service!Record
<1>1. log_queue \in Queues(Entry \cup {NoEntry}) /\ RingOK(log_queue)
  BY ResultTypes DEF RingsOK
<1>2. /\ ~ empty(log_queue)
      /\ log' = Append(log, front_item(log_queue))
      /\ log_queue' = pop(log_queue)
      /\ sock' = sock /\ socket_queue' = socket_queue
  BY DEF TakeLog, PopLog
<1>3. /\ results # <<>> /\ front_item(log_queue) = Head(results)
      /\ results' = Tail(results)
  BY <1>1, <1>2, PopContents DEF results
<1>4. serving' = serving /\ Queued' = Queued
  BY <1>2 DEF serving, Queued
<1> QED
  BY <1>2, <1>3, <1>4 DEF Service!Record, serving, results

(* Every step of the server is a step of the service or is not seen.       *)
LEMMA ServiceStep ==
  TypeOK /\ RingsOK /\ Owners /\ Results /\ [Next]_vars => Service!Next \/ UNCHANGED seen
<1> SUFFICES ASSUME TypeOK, RingsOK, Owners, Results, [Next]_vars
             PROVE  Service!Next \/ UNCHANGED seen
  OBVIOUS
<1>1. /\ sock \in [Holding -> Descriptors] /\ Workers \subseteq Holding
      /\ Main \in Holding /\ Main \notin Workers
  BY OwnerTypes, ThreadAssumption DEF Holding
<1>2. CASE Accept
  <2>1. UNCHANGED <<socket_queue, log_queue, log>>
    BY <1>2 DEF Accept, queueVars
  <2>2. \A w \in Workers : sock'[w] = sock[w]
    BY <1>1, <1>2 DEF Accept
  <2> QED
    BY <2>1, <2>2, Unseen
<1>3. CASE PutSock
  BY <1>3, PutSockArrives DEF Service!Next
<1>4. CASE TakeLog
  BY <1>4, TakeLogRecords DEF Service!Next
<1>5. CASE MainLock \/ MainWait \/ MainUnlock \/ LoggerLock \/ LoggerWait \/ LoggerUnlock
           \/ ClientStep \/ Wakeup \/ Dead \/ UNCHANGED vars
  <2>1. UNCHANGED <<sock, socket_queue, log_queue, log>>
    BY <1>5 DEF MainLock, MainWait, MainUnlock, LoggerLock, LoggerWait, LoggerUnlock,
       Lock, Wait, Unlock, ClientStep, Wakeup, Dead, vars, threadVars, queueVars
  <2> QED
    BY <2>1, Unseen
<1>6. ASSUME NEW w \in Workers, TakeSock(w) \/ Close(w) \/ PutLog(w)
      PROVE  Service!Next \/ UNCHANGED seen
  <2>1. Entry = Service!Result
    BY DEF Entry, Service!Result
  <2> QED
    BY <1>6, <2>1, TakeSockServes, CloseLeaves, PutLogDelivers DEF Service!Next
<1>7. ASSUME NEW w \in Workers,
             \/ WorkerLock(w) \/ WorkerWait(w) \/ WorkerUnlock(w) \/ Sigpipe(w)
             \/ LogLock(w) \/ LogWait(w) \/ LogUnlock(w)
             \/ Greet(w) \/ PingQueued(w) \/ PingServed(w) \/ Prompt(w)
             \/ Receive(w) \/ Answer(w)
      PROVE  UNCHANGED seen
  <2>1. UNCHANGED <<sock, socket_queue, log_queue, log>>
    BY <1>7 DEF WorkerLock, WorkerWait, WorkerUnlock, Sigpipe, LogLock, LogWait, LogUnlock,
       Lock, Wait, Unlock, Greet, PingQueued, PingServed, Ping, Prompt, Receive, Answer,
       LocalUnchanged, threadVars, queueVars
  <2> QED
    BY <2>1, Unseen
<1> QED
  BY <1>2, <1>3, <1>4, <1>5, <1>6, <1>7 DEF Next, MainStep, LoggerStep, WorkerStep

(* The server implements the service: first come first served, one client  *)
(* per worker, every result once, with its verdict, in bounded queues.     *)
THEOREM ServiceImplemented == Spec => ImplementsService
<1> DEFINE Inv == TypeOK /\ RingsOK /\ Owners /\ Results
<1>1. Init => Service!Init
  BY ServiceInit
<1>2. Inv /\ [Next]_vars => [Service!Next]_Service!vars
  <2>1. UNCHANGED seen => UNCHANGED Service!vars
    BY DEF seen, serving, results, Service!vars
  <2> QED
    BY <2>1, ServiceStep
<1> QED
  BY <1>1, <1>2, ResultsInvariant, PTL DEF Spec, ImplementsService, Service!Spec
=============================================================================
