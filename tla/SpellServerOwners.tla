------------------------- MODULE SpellServerOwners --------------------------
(***************************************************************************)
(* Proof that SpellServer never leaks a connection, serves it twice or     *)
(* closes it twice, for every number of workers, descriptors and slots:    *)
(* SoleOwner.  A place is a thread's variable sock or a slot of the queue; *)
(* the lemmas say what each way of moving a descriptor does to the place   *)
(* it is in, and OwnersStep goes through the actions with them.            *)
(***************************************************************************)
EXTENDS SpellServerProofs

Holding == Workers \cup {Main}
Descriptors == Fds \cup {NoFd}

(* fd is in no sock of sk and in no slot of q.                             *)
Nowhere(fd, sk, q) ==
  /\ \A t \in Holding : sk[t] # fd
  /\ \A i \in 1 .. Len(q) : q[i] # fd

(* fd is in one sock, or in one slot, and nowhere else.                    *)
InOneSock(fd, sk, q) ==
  /\ \E t \in Holding : sk[t] = fd /\ \A u \in Holding \ {t} : sk[u] # fd
  /\ \A i \in 1 .. Len(q) : q[i] # fd
InOneSlot(fd, sk, q) ==
  /\ \A t \in Holding : sk[t] # fd
  /\ \E i \in 1 .. Len(q) : q[i] = fd /\ \A j \in 1 .. Len(q) : q[j] = fd => j = i

(* The descriptors that are not open are nowhere, the others in one place. *)
Owned(sk, q, p) ==
  \A fd \in Fds :
    \/ p[fd] = "none" /\ Nowhere(fd, sk, q)
    \/ p[fd] # "none" /\ (InOneSock(fd, sk, q) \/ InOneSlot(fd, sk, q))

(* A thread about to take a descriptor has none: what it overwrites is -1. *)
FreeHanded ==
  /\ pc[Main] \in {"accept", "unlock_sock"} => sock[Main] = NoFd
  /\ \A w \in Workers : pc[w] \in {"lock_sock", "take_sock"} => sock[w] = NoFd

Owners == Owned(sock, Queued, peer) /\ FreeHanded

(* Where a thread is free-handed.                                          *)
FreePC(t) ==
  IF t = Main THEN {"accept", "unlock_sock"} ELSE {"lock_sock", "take_sock"}

-----------------------------------------------------------------------------
(* Moving descriptors.                                                     *)

(* Only whether a descriptor is open matters.                              *)
LEMMA SamePlaces ==
  ASSUME NEW sk, NEW q, NEW p, NEW r, Owned(sk, q, p),
         \A fd \in Fds : r[fd] = "none" <=> p[fd] = "none"
  PROVE  Owned(sk, q, r)
  BY DEF Owned

(* accept puts a descriptor that is nowhere into the sock of main.         *)
LEMMA AcceptOwned ==
  ASSUME NEW sk \in [Holding -> Descriptors], NEW q, NEW p \in [Fds -> PeerStates],
         NEW g \in Fds, Owned(sk, q, p), p[g] = "none", sk[Main] = NoFd
  PROVE  Owned([sk EXCEPT ![Main] = g], q, [p EXCEPT ![g] = "open"])
<1> DEFINE s == [sk EXCEPT ![Main] = g]
           r == [p EXCEPT ![g] = "open"]
<1>1. /\ s[Main] = g /\ \A t \in Holding \ {Main} : s[t] = sk[t]
      /\ Main \in Holding
  BY DEF Holding
<1>2. r[g] = "open" /\ \A fd \in Fds \ {g} : r[fd] = p[fd]
  OBVIOUS
<1> SUFFICES ASSUME NEW fd \in Fds
             PROVE  \/ r[fd] = "none" /\ Nowhere(fd, s, q)
                    \/ r[fd] # "none" /\ (InOneSock(fd, s, q) \/ InOneSlot(fd, s, q))
  BY DEF Owned
<1> HIDE DEF s, r
<1>3. CASE fd = g
  <2>1. Nowhere(fd, sk, q)
    BY <1>3 DEF Owned
  <2>2. InOneSock(fd, s, q)
    BY <1>1, <1>3, <2>1 DEF Nowhere, InOneSock
  <2> QED
    BY <1>2, <1>3, <2>2
<1>4. CASE fd # g
  <2>1. \A t \in Holding : s[t] = fd <=> sk[t] = fd
    BY <1>1, <1>4, FdAssumption
  <2>2. r[fd] = p[fd]
    BY <1>2, <1>4
  <2> QED
    BY <2>1, <2>2 DEF Owned, Nowhere, InOneSock, InOneSlot
<1> QED
  BY <1>3, <1>4

(* close makes the descriptor of a thread, if it has one, one that is      *)
(* nowhere, and no other thread had it.                                    *)
LEMMA CloseOwned ==
  ASSUME NEW sk \in [Holding -> Descriptors], NEW q, NEW p \in [Fds -> PeerStates],
         NEW r, NEW t \in Holding, Owned(sk, q, p),
         \A fd \in Fds : r[fd] = IF fd = sk[t] THEN "none" ELSE p[fd]
  PROVE  Owned([sk EXCEPT ![t] = NoFd], q, r)
<1> DEFINE s == [sk EXCEPT ![t] = NoFd]
<1>1. s[t] = NoFd /\ \A u \in Holding \ {t} : s[u] = sk[u]
  OBVIOUS
<1> SUFFICES ASSUME NEW fd \in Fds
             PROVE  \/ r[fd] = "none" /\ Nowhere(fd, s, q)
                    \/ r[fd] # "none" /\ (InOneSock(fd, s, q) \/ InOneSlot(fd, s, q))
  BY DEF Owned
<1> HIDE DEF s
<1>3. CASE fd = sk[t]
  <2>1. InOneSock(fd, sk, q)
    BY <1>3 DEF Owned, Nowhere, InOneSlot
  <2>2. PICK v \in Holding : sk[v] = fd /\ \A u \in Holding \ {v} : sk[u] # fd
    BY <2>1 DEF InOneSock
  <2>3. v = t
    BY <1>3, <2>2
  <2>4. \A u \in Holding : s[u] # fd
    BY <1>1, <2>2, <2>3, FdAssumption
  <2>5. Nowhere(fd, s, q)
    BY <2>1, <2>4 DEF InOneSock, Nowhere
  <2> QED
    BY <1>3, <2>5
<1>4. CASE fd # sk[t]
  <2>1. \A u \in Holding : s[u] = fd <=> sk[u] = fd
    BY <1>1, <1>4, FdAssumption
  <2>2. r[fd] = p[fd]
    BY <1>4
  <2> QED
    BY <2>1, <2>2 DEF Owned, Nowhere, InOneSock, InOneSlot
<1> QED
  BY <1>3, <1>4

(* push moves the descriptor of main into a new slot.                      *)
LEMMA PushOwned ==
  ASSUME NEW sk \in [Holding -> Descriptors], NEW q \in Seq(Descriptors), NEW p,
         Owned(sk, q, p)
  PROVE  Owned([sk EXCEPT ![Main] = NoFd], Append(q, sk[Main]), p)
<1> DEFINE s == [sk EXCEPT ![Main] = NoFd]
           n == Len(q)
           r == Append(q, sk[Main])
<1>1. /\ s[Main] = NoFd /\ \A u \in Holding \ {Main} : s[u] = sk[u]
      /\ Main \in Holding
  BY DEF Holding
<1>2. /\ n \in Nat /\ Len(r) = n + 1 /\ r[n + 1] = sk[Main]
      /\ \A i \in 1 .. n : r[i] = q[i]
  <2>1. sk[Main] \in Descriptors
    BY <1>1
  <2> QED
    BY <2>1
<1>3. 1 .. n + 1 = (1 .. n) \cup {n + 1} /\ n + 1 \notin 1 .. n
  BY <1>2
<1> SUFFICES ASSUME NEW fd \in Fds
             PROVE  \/ p[fd] = "none" /\ Nowhere(fd, s, r)
                    \/ p[fd] # "none" /\ (InOneSock(fd, s, r) \/ InOneSlot(fd, s, r))
  BY DEF Owned
<1> HIDE DEF s, n, r
<1>4. CASE fd = sk[Main]
  <2>1. InOneSock(fd, sk, q) /\ p[fd] # "none"
    BY <1>1, <1>4 DEF Owned, Nowhere, InOneSlot
  <2>2. PICK v \in Holding : sk[v] = fd /\ \A u \in Holding \ {v} : sk[u] # fd
    BY <2>1 DEF InOneSock
  <2>3. v = Main
    BY <1>1, <1>4, <2>2
  <2>4. \A u \in Holding : s[u] # fd
    BY <1>1, <2>2, <2>3, FdAssumption
  <2>5. \A i \in 1 .. n : r[i] # fd
    BY <1>2, <2>1 DEF InOneSock, n
  <2>6. \A j \in 1 .. Len(r) : r[j] = fd => j = n + 1
    BY <1>2, <1>3, <2>5
  <2>7. n + 1 \in 1 .. Len(r) /\ r[n + 1] = fd
    BY <1>2, <1>3, <1>4
  <2>8. InOneSlot(fd, s, r)
    BY <2>4, <2>6, <2>7 DEF InOneSlot
  <2> QED
    BY <2>1, <2>8
<1>5. CASE fd # sk[Main]
  <2>1. \A u \in Holding : s[u] = fd <=> sk[u] = fd
    BY <1>1, <1>5, FdAssumption
  <2>2. \A i \in 1 .. Len(r) : r[i] = fd <=> i \in 1 .. n /\ q[i] = fd
    BY <1>2, <1>3, <1>5
  <2>3. \A i \in 1 .. n : i \in 1 .. Len(r)
    BY <1>2, <1>3
  <2>4. Nowhere(fd, sk, q) => Nowhere(fd, s, r)
    BY <2>1, <2>2 DEF Nowhere, n
  <2>5. InOneSock(fd, sk, q) => InOneSock(fd, s, r)
    BY <2>1, <2>2 DEF InOneSock, n
  <2>6. InOneSlot(fd, sk, q) => InOneSlot(fd, s, r)
    BY <2>1, <2>2, <2>3 DEF InOneSlot, n
  <2> QED
    BY <2>4, <2>5, <2>6 DEF Owned
<1> QED
  BY <1>4, <1>5

(* pop moves the descriptor of the first slot to a worker that has none.   *)
LEMMA PopOwned ==
  ASSUME NEW sk \in [Holding -> Descriptors], NEW q \in Seq(Descriptors), NEW p,
         NEW w \in Holding, sk[w] = NoFd, q # <<>>, Owned(sk, q, p)
  PROVE  Owned([sk EXCEPT ![w] = Head(q)], Tail(q), p)
<1> DEFINE s == [sk EXCEPT ![w] = Head(q)]
           n == Len(q)
           r == Tail(q)
<1>1. s[w] = q[1] /\ \A u \in Holding \ {w} : s[u] = sk[u]
  OBVIOUS
<1>2. /\ n \in Nat \ {0} /\ Len(r) = n - 1
      /\ \A i \in 1 .. n - 1 : r[i] = q[i + 1]
  OBVIOUS
<1>3. /\ \A i \in 1 .. n : i = 1 \/ (i - 1 \in 1 .. n - 1 /\ (i - 1) + 1 = i)
      /\ \A i \in 1 .. n - 1 : i + 1 \in 1 .. n /\ i + 1 # 1
      /\ 1 \in 1 .. n
      /\ \A i, j \in 1 .. n - 1 : i + 1 = j + 1 => i = j
  BY <1>2
<1> SUFFICES ASSUME NEW fd \in Fds
             PROVE  \/ p[fd] = "none" /\ Nowhere(fd, s, r)
                    \/ p[fd] # "none" /\ (InOneSock(fd, s, r) \/ InOneSlot(fd, s, r))
  BY DEF Owned
<1> HIDE DEF s, n, r
<1>4. CASE fd = q[1]
  <2>1. InOneSlot(fd, sk, q) /\ p[fd] # "none"
    BY <1>3, <1>4 DEF Owned, Nowhere, InOneSock, n
  <2>2. \A j \in 1 .. n : q[j] = fd => j = 1
    BY <1>3, <1>4, <2>1 DEF InOneSlot, n
  <2>3. \A i \in 1 .. Len(r) : r[i] # fd
    BY <1>2, <1>3, <2>2
  <2>4. s[w] = fd /\ \A u \in Holding \ {w} : s[u] # fd
    BY <1>1, <1>4, <2>1 DEF InOneSlot
  <2>5. InOneSock(fd, s, r)
    BY <2>3, <2>4 DEF InOneSock
  <2> QED
    BY <2>1, <2>5
<1>5. CASE fd # q[1]
  <2>1. \A u \in Holding : s[u] = fd <=> sk[u] = fd
    BY <1>1, <1>5, FdAssumption
  <2>2. \A i \in 1 .. Len(r) : i + 1 \in 1 .. n /\ r[i] = q[i + 1]
    BY <1>2, <1>3
  <2>3. \A i \in 1 .. n : q[i] = fd => i - 1 \in 1 .. Len(r) /\ r[i - 1] = fd
    BY <1>2, <1>3, <1>5
  <2>4. Nowhere(fd, sk, q) => Nowhere(fd, s, r)
    BY <2>1, <2>2 DEF Nowhere, n
  <2>5. InOneSock(fd, sk, q) => InOneSock(fd, s, r)
    BY <2>1, <2>2 DEF InOneSock, n
  <2>6. ASSUME InOneSlot(fd, sk, q)
        PROVE  InOneSlot(fd, s, r)
    <3>1. PICK i \in 1 .. n : q[i] = fd /\ \A j \in 1 .. n : q[j] = fd => j = i
      BY <2>6 DEF InOneSlot, n
    <3>2. i - 1 \in 1 .. Len(r) /\ r[i - 1] = fd
      BY <2>3, <3>1
    <3>3. \A j \in 1 .. Len(r) : r[j] = fd => j + 1 = i
      BY <2>2, <3>1
    <3>4. \A j \in 1 .. Len(r) : r[j] = fd => j = i - 1
      BY <3>3
    <3> QED
      BY <2>1, <2>6, <3>2, <3>4 DEF InOneSlot
  <2> QED
    BY <2>4, <2>5, <2>6 DEF Owned
<1> QED
  BY <1>4, <1>5

-----------------------------------------------------------------------------
(* The actions.                                                            *)

(* What the types say of descriptors.                                      *)
LEMMA OwnerTypes ==
  ASSUME TypeOK
  PROVE  /\ sock \in [Holding -> Descriptors]
         /\ peer \in [Fds -> PeerStates]
         /\ pc \in [Threads -> MainPC \cup WorkerPC \cup LoggerPC]
         /\ socket_queue \in Queues(Descriptors)
         /\ Queued \in Seq(Descriptors)
<1>1. socket_queue \in Queues(Descriptors)
  BY DEF TypeOK, QueueTypeOK, Descriptors
<1>2. Queued \in Seq(Descriptors)
  BY <1>1, ContentsSeq DEF Queued
<1> QED
  BY <1>1, <1>2 DEF TypeOK, SocketTypeOK, ThreadTypeOK, Holding, Descriptors

(* The hands of the threads after a move of one of them.                   *)
LEMMA HandsAfterMove ==
  ASSUME TypeOK, TypeOK', FreeHanded, NEW t \in Threads, NEW from, NEW to, Goto(t, from, to),
         \A u \in Holding \ {t} : sock'[u] = sock[u],
         t \in Holding /\ to \in FreePC(t)
           => sock'[t] = NoFd \/ (from \in FreePC(t) /\ sock'[t] = sock[t])
  PROVE  FreeHanded'
<1>1. /\ pc[t] = from /\ pc'[t] = to
      /\ \A u \in Threads \ {t} : pc'[u] = pc[u]
  BY OwnerTypes DEF Goto
<1>2. Holding \subseteq Threads /\ Main \in Holding /\ Main \notin Workers
  BY ThreadAssumption DEF Holding, Threads
<1>3. \A u \in Holding : pc[u] \in FreePC(u) => sock[u] = NoFd
  BY <1>2 DEF FreeHanded, FreePC, Holding
<1>4. ASSUME NEW u \in Holding, pc'[u] \in FreePC(u)
      PROVE  sock'[u] = NoFd
  <2>1. CASE u = t
    BY <1>1, <1>3, <1>4, <2>1
  <2>2. CASE u # t
    BY <1>1, <1>2, <1>3, <1>4, <2>2
  <2> QED
    BY <2>1, <2>2
<1>5. pc'[Main] \in {"accept", "unlock_sock"} => sock'[Main] = NoFd
  BY <1>2, <1>4 DEF FreePC
<1>6. \A w \in Workers : pc'[w] \in {"lock_sock", "take_sock"} => sock'[w] = NoFd
  BY <1>2, <1>4 DEF FreePC, Holding
<1> QED
  BY <1>5, <1>6 DEF FreeHanded

(* The system calls of a worker and the clients open and close nothing.    *)
LEMMA PeerSteps ==
  ASSUME TypeOK
  PROVE  /\ \A g : \A fd \in Fds : peerAfterSend(g)[fd] = "none" <=> peer[fd] = "none"
         /\ \A g : \A fd \in Fds : peerAfterRecv(g)[fd] = "none" <=> peer[fd] = "none"
         /\ Client => \A fd \in Fds : peer'[fd] = "none" <=> peer[fd] = "none"
<1>1. \A g : \A fd \in Fds : peerAfterSend(g)[fd] = "none" <=> peer[fd] = "none"
  BY DEF peerAfterSend
<1>2. \A g : \A fd \in Fds : peerAfterRecv(g)[fd] = "none" <=> peer[fd] = "none"
  BY DEF peerAfterRecv
<1>3. ASSUME Client
      PROVE  \A fd \in Fds : peer'[fd] = "none" <=> peer[fd] = "none"
  <2>1. PICK g \in Fds : Finish(g) \/ Reset(g) \/ \E v \in Words : Type(g, v)
    BY <1>3 DEF Client
  <2>2. peer \in [Fds -> PeerStates]
    BY OwnerTypes
  <2> QED
    BY <2>1, <2>2 DEF Finish, Reset, Type
<1> QED
  BY <1>1, <1>2, <1>3

(* Steps that leave sock and the socket queue alone, open and close        *)
(* nothing, and move t to a place where its sock is as free as before.     *)
LEMMA QuietStep ==
  ASSUME TypeOK, TypeOK', Owners, UNCHANGED <<sock, socket_queue>>,
         \A fd \in Fds : peer'[fd] = "none" <=> peer[fd] = "none",
         NEW t \in Threads, NEW from, NEW to, Goto(t, from, to),
         t \in Holding /\ to \in FreePC(t) => from \in FreePC(t)
  PROVE  Owners'
<1>1. FreeHanded'
  <2>1. \A u \in Holding : sock'[u] = sock[u]
    OBVIOUS
  <2> QED
    BY <2>1, HandsAfterMove DEF Owners
<1>2. Queued' = Queued
  BY DEF Queued
<1>3. Owned(sock, Queued, peer')
  BY SamePlaces DEF Owners
<1> QED
  BY <1>1, <1>2, <1>3 DEF Owners

(* Every step keeps every open descriptor in one place.                    *)
LEMMA OwnersStep == TypeOK /\ TypeOK' /\ RingsOK /\ Owners /\ [Next]_vars => Owners'
<1> SUFFICES ASSUME TypeOK, TypeOK', RingsOK, Owners, [Next]_vars
             PROVE  Owners'
  OBVIOUS
<1>1. /\ sock \in [Holding -> Descriptors]
      /\ peer \in [Fds -> PeerStates]
      /\ pc \in [Threads -> MainPC \cup WorkerPC \cup LoggerPC]
      /\ socket_queue \in Queues(Descriptors)
      /\ Queued \in Seq(Descriptors)
  BY OwnerTypes
<1>2. /\ Main \in Threads /\ Main \in Holding /\ Logger \in Threads /\ Logger \notin Holding
      /\ \A w \in Workers : w \in Threads /\ w \in Holding /\ w # Main
  BY ThreadAssumption DEF Threads, Holding
<1>3. Owned(sock, Queued, peer) /\ FreeHanded
  BY DEF Owners
<1>4. \A w \in Workers : FreePC(w) = {"lock_sock", "take_sock"}
  BY <1>2 DEF FreePC
<1>5. FreePC(Main) = {"accept", "unlock_sock"}
  BY DEF FreePC
<1>6. CASE Accept
  <2>1. UNCHANGED socket_queue /\ Goto(Main, "accept", "lock_sock")
    BY <1>6 DEF Accept, queueVars
  <2>2. sock[Main] = NoFd
    BY <1>3, <2>1 DEF Goto, FreeHanded
  <2>3. \A u \in Holding \ {Main} : sock'[u] = sock[u]
    BY <1>1, <1>6 DEF Accept
  <2>4. FreeHanded'
    BY <1>2, <1>3, <1>5, <2>1, <2>3, HandsAfterMove
  <2>5. Queued' = Queued
    BY <2>1 DEF Queued
  <2>6. ASSUME NEW fd \in Fds, accept(fd), sock' = [sock EXCEPT ![Main] = fd]
        PROVE  Owned(sock', Queued, peer')
    BY <1>1, <1>3, <2>2, <2>6, AcceptOwned DEF accept
  <2>7. CASE sock' = [sock EXCEPT ![Main] = NoFd] /\ UNCHANGED socketVars
    <3>1. sock' = sock /\ peer' = peer
      BY <1>1, <2>2, <2>7 DEF socketVars
    <3> QED
      BY <1>3, <2>4, <2>5, <3>1 DEF Owners
  <2> QED
    BY <1>6, <2>4, <2>5, <2>6, <2>7 DEF Accept, Owners
<1>7. CASE PutSock
  <2>1. /\ Goto(Main, "put_sock", "unlock_sock")
        /\ ~ full(socket_queue)
        /\ socket_queue' = push(socket_queue, sock[Main])
        /\ sock' = [sock EXCEPT ![Main] = NoFd]
        /\ peer' = peer
    BY <1>7 DEF PutSock, PushSock, socketVars
  <2>2. sock'[Main] = NoFd /\ \A u \in Holding \ {Main} : sock'[u] = sock[u]
    BY <1>1, <1>2, <2>1
  <2>3. FreeHanded'
    BY <1>2, <1>3, <2>1, <2>2, HandsAfterMove
  <2>4. Queued' = Append(Queued, sock[Main])
    <3>1. sock[Main] \in Descriptors /\ RingOK(socket_queue)
      BY <1>1, <1>2 DEF RingsOK
    <3> QED
      BY <1>1, <2>1, <3>1, PushContents DEF Queued
  <2>5. Owned(sock', Queued', peer')
    BY <1>1, <1>3, <2>1, <2>4, PushOwned
  <2> QED
    BY <2>3, <2>5 DEF Owners
<1>8. ASSUME NEW w \in Workers, TakeSock(w)
      PROVE  Owners'
  <2>1. /\ Goto(w, "take_sock", "unlock_sock")
        /\ ~ empty(socket_queue)
        /\ socket_queue' = pop(socket_queue)
        /\ sock' = [sock EXCEPT ![w] = front_item(socket_queue)]
        /\ peer' = peer
    BY <1>8 DEF TakeSock, PopSock, socketVars
  <2>2. \A u \in Holding \ {w} : sock'[u] = sock[u]
    BY <1>1, <2>1
  <2>3. "unlock_sock" \notin FreePC(w)
    BY <1>4
  <2>4. FreeHanded'
    BY <1>2, <1>3, <2>1, <2>2, <2>3, HandsAfterMove
  <2>5. sock[w] = NoFd
    BY <1>3, <2>1 DEF Goto, FreeHanded
  <2>6. /\ Queued # <<>>
        /\ front_item(socket_queue) = Head(Queued)
        /\ Queued' = Tail(Queued)
    <3>1. RingOK(socket_queue)
      BY DEF RingsOK
    <3> QED
      BY <1>1, <2>1, <3>1, PopContents DEF Queued
  <2>7. Owned(sock', Queued', peer')
    BY <1>1, <1>2, <1>3, <2>1, <2>5, <2>6, PopOwned
  <2> QED
    BY <2>4, <2>7 DEF Owners
<1>9. ASSUME NEW w \in Workers, Close(w)
      PROVE  Owners'
  <2>1. /\ Goto(w, "close", "lock_sock")
        /\ peer' = [f \in Fds |-> IF f = sock[w] THEN "none" ELSE peer[f]]
        /\ sock' = [sock EXCEPT ![w] = NoFd]
        /\ socket_queue' = socket_queue
    BY <1>9 DEF Close, close, queueVars
  <2>2. sock'[w] = NoFd /\ \A u \in Holding \ {w} : sock'[u] = sock[u]
    BY <1>1, <1>2, <2>1
  <2>3. FreeHanded'
    BY <1>2, <1>3, <2>1, <2>2, HandsAfterMove
  <2>4. Queued' = Queued
    BY <2>1 DEF Queued
  <2>5. \A fd \in Fds : peer'[fd] = IF fd = sock[w] THEN "none" ELSE peer[fd]
    BY <2>1
  <2>6. Owned([sock EXCEPT ![w] = NoFd], Queued, peer')
    BY <1>1, <1>2, <1>3, <2>5, CloseOwned
  <2> QED
    BY <2>1, <2>3, <2>4, <2>6 DEF Owners
<1>10. CASE MainLock \/ MainWait \/ MainUnlock
  <2>1. UNCHANGED <<sock, socket_queue, peer>>
    BY <1>10 DEF MainLock, MainWait, MainUnlock, Lock, Wait, Unlock, socketVars, queueVars
  <2>2. PICK from, to : Goto(Main, from, to) /\ (to \in FreePC(Main) => from \in FreePC(Main))
    BY <1>5, <1>10 DEF MainLock, MainWait, MainUnlock, Lock, Wait, Unlock
  <2> QED
    BY <1>2, <2>1, <2>2, QuietStep
<1>11. CASE LoggerStep
  <2>1. UNCHANGED <<sock, socket_queue, peer>>
    BY <1>11 DEF LoggerStep, LoggerLock, LoggerWait, TakeLog, PopLog, LoggerUnlock,
       Lock, Wait, Unlock, socketVars, queueVars
  <2>2. PICK from, to : Goto(Logger, from, to)
    BY <1>11 DEF LoggerStep, LoggerLock, LoggerWait, TakeLog, PopLog, LoggerUnlock,
       Lock, Wait, Unlock
  <2> QED
    BY <1>2, <2>1, <2>2, QuietStep
<1>12. ASSUME NEW w \in Workers,
              \/ WorkerLock(w) \/ WorkerWait(w) \/ WorkerUnlock(w)
              \/ LogLock(w) \/ LogWait(w) \/ PutLog(w) \/ LogUnlock(w)
       PROVE  Owners'
  <2>1. UNCHANGED <<sock, socket_queue, peer>>
    BY <1>12 DEF WorkerLock, WorkerWait, WorkerUnlock, LogLock, LogWait, PutLog, PushLog,
       LogUnlock, Lock, Wait, Unlock, socketVars, queueVars
  <2>2. PICK from, to : Goto(w, from, to) /\ (to \in FreePC(w) => from \in FreePC(w))
    BY <1>4, <1>12 DEF WorkerLock, WorkerWait, WorkerUnlock, LogLock, LogWait, PutLog, PushLog,
       LogUnlock, Lock, Wait, Unlock
  <2> QED
    BY <1>2, <2>1, <2>2, QuietStep
<1>13. ASSUME NEW w \in Workers,
              \/ Greet(w) \/ PingQueued(w) \/ PingServed(w) \/ Prompt(w)
              \/ Receive(w) \/ Answer(w)
       PROVE  Owners'
  <2>1. UNCHANGED <<sock, socket_queue>>
    BY <1>13 DEF Greet, PingQueued, PingServed, Ping, Prompt, Receive, Answer,
       LocalUnchanged, queueVars
  <2>2. peer' = peerAfterSend(sock[w]) \/ peer' = peerAfterRecv(sock[w]) \/ peer' = peer
    BY <1>13 DEF Greet, PingQueued, PingServed, Ping, Prompt, Receive, Answer
  <2>3. \A fd \in Fds : peer'[fd] = "none" <=> peer[fd] = "none"
    BY <2>2, PeerSteps
  <2>4. PICK from, to : Goto(w, from, to) /\ to \notin FreePC(w)
    BY <1>4, <1>13 DEF Greet, PingQueued, PingServed, Ping, Prompt, Receive, Answer
  <2> QED
    BY <1>2, <2>1, <2>3, <2>4, QuietStep
<1>14. ASSUME UNCHANGED <<sock, socket_queue, pc>>,
              \A fd \in Fds : peer'[fd] = "none" <=> peer[fd] = "none"
       PROVE  Owners'
  <2>1. Queued' = Queued /\ FreeHanded'
    BY <1>3, <1>14 DEF Queued, FreeHanded
  <2>2. Owned(sock, Queued, peer')
    BY <1>3, <1>14, SamePlaces
  <2> QED
    BY <1>14, <2>1, <2>2 DEF Owners
<1>15. CASE Wakeup \/ Dead \/ UNCHANGED vars \/ \E w \in Workers : Sigpipe(w)
  BY <1>14, <1>15 DEF Wakeup, Dead, Sigpipe, vars, socketVars, threadVars, queueVars
<1>16. CASE ClientStep
  BY <1>14, <1>16, PeerSteps DEF ClientStep, threadVars, queueVars
<1> QED
  BY <1>6, <1>7, <1>8, <1>9, <1>10, <1>11, <1>12, <1>13, <1>15, <1>16
     DEF Next, MainStep, WorkerStep

-----------------------------------------------------------------------------
(* Places are counted by their set.                                        *)
LEMMA OwnersCount == ASSUME Owners PROVE SoleOwner
<1> SUFFICES ASSUME NEW fd \in Fds
             PROVE  Cardinality(Holders(fd)) = IF peer[fd] = "none" THEN 0 ELSE 1
  BY DEF SoleOwner
<1>1. CASE peer[fd] = "none"
  <2>1. Nowhere(fd, sock, Queued)
    BY <1>1 DEF Owners, Owned
  <2>2. Holders(fd) = {}
    BY <2>1 DEF Nowhere, Holders, Holding
  <2> QED
    BY <1>1, <2>2, FS_EmptySet
<1>2. CASE peer[fd] # "none"
  <2>1. \E x : Holders(fd) = {x}
    <3>1. CASE InOneSock(fd, sock, Queued)
      BY <3>1 DEF InOneSock, Holders, Holding
    <3>2. CASE InOneSlot(fd, sock, Queued)
      BY <3>2 DEF InOneSlot, Holders, Holding
    <3> QED
      BY <1>2, <3>1, <3>2 DEF Owners, Owned
  <2> QED
    BY <1>2, <2>1, FS_Singleton
<1> QED
  BY <1>1, <1>2

(* Nothing is open at first.                                               *)
LEMMA InitOwners == Init => Owners
<1> SUFFICES ASSUME Init
             PROVE  Owners
  OBVIOUS
<1>1. /\ Queued = <<>>
      /\ \A t \in Holding : sock[t] = NoFd
      /\ \A fd \in Fds : peer[fd] = "none"
  BY NewQueue DEF Init, SocketInit, Queued, Holding
<1>2. FreeHanded
  BY <1>1 DEF FreeHanded, Holding
<1>3. Owned(sock, Queued, peer)
  <2>1. ASSUME NEW fd \in Fds
        PROVE  Nowhere(fd, sock, Queued)
    BY <1>1, FdAssumption DEF Nowhere
  <2> QED
    BY <1>1, <2>1 DEF Owned
<1> QED
  BY <1>2, <1>3 DEF Owners

(* Every open connection has exactly one holder in every reachable state:  *)
(* accept, push, pop and close hand descriptors on without losing or       *)
(* copying one, whatever the threads and the clients do.                   *)
THEOREM OneHolder == Spec => []SoleOwner
<1> DEFINE Inv == TypeOK /\ RingsOK /\ Owners
<1>1. Init => Inv
  BY InitTypeOK, InitOwners
<1>2. Inv /\ [Next]_vars => Inv'
  BY SocketTypeStep, ThreadTypeStep, QueueTypeStep, OwnersStep DEF TypeOK
<1>3. Inv => SoleOwner
  BY OwnersCount
<1> QED
  BY <1>1, <1>2, <1>3, PTL DEF Spec
=============================================================================
