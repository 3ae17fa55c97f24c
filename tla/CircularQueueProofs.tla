------------------------ MODULE CircularQueueProofs -------------------------
(***************************************************************************)
(* For every SIZE, push and pop on the ring are Append and Tail on the     *)
(* sequence of queued items.                                               *)
(***************************************************************************)
EXTENDS CircularQueue, TLAPS

-----------------------------------------------------------------------------
(* Arithmetic of the ring.                                                 *)

(* Going on n slots from slot a wraps around at most once.                 *)
LEMMA RingSlot ==
  ASSUME NEW a \in Slots, NEW n \in 0 .. SIZE
  PROVE  /\ (a + n) % SIZE \in Slots
         /\ (a + n) % SIZE = IF a + n < SIZE THEN a + n ELSE a + n - SIZE
  BY SizeAssumption, SMT DEF Slots

(* Going on no slot leaves a slot as it is.                                *)
LEMMA RingZero ==
  ASSUME NEW a \in Slots
  PROVE  (a + 0) % SIZE = a
  BY SizeAssumption, SMT DEF Slots

(* One more slot, at the far end or at the near end.                       *)
LEMMA RingNext ==
  ASSUME NEW a \in Slots, NEW n \in 0 .. SIZE - 1
  PROVE  /\ (((a + n) % SIZE) + 1) % SIZE = (a + (n + 1)) % SIZE
         /\ (((a + 1) % SIZE) + n) % SIZE = (a + (n + 1)) % SIZE
<1> DEFINE b == (a + n) % SIZE
           c == (a + 1) % SIZE
           d == (a + (n + 1)) % SIZE
<1>1. SIZE \in Nat \ {0} /\ n + 1 \in 0 .. SIZE /\ n \in 0 .. SIZE /\ 1 \in 0 .. SIZE
  BY SizeAssumption
<1>2. /\ b \in Slots /\ b = IF a + n < SIZE THEN a + n ELSE a + n - SIZE
      /\ c \in Slots /\ c = IF a + 1 < SIZE THEN a + 1 ELSE a + 1 - SIZE
      /\ d \in Slots /\ d = IF a + (n + 1) < SIZE
                            THEN a + (n + 1) ELSE a + (n + 1) - SIZE
  BY <1>1, RingSlot
<1> HIDE DEF b, c, d
<1>3. /\ (b + 1) % SIZE = IF b + 1 < SIZE THEN b + 1 ELSE b + 1 - SIZE
      /\ (c + n) % SIZE = IF c + n < SIZE THEN c + n ELSE c + n - SIZE
  BY <1>1, <1>2, RingSlot
<1>4. (b + 1) % SIZE = d /\ (c + n) % SIZE = d
  BY <1>1, <1>2, <1>3 DEF Slots
<1> QED
  BY <1>4 DEF b, c, d

(* Less than SIZE slots on, no slot is met twice.                          *)
LEMMA RingDistinct ==
  ASSUME NEW a \in Slots, NEW m \in 0 .. SIZE - 1, NEW n \in 0 .. SIZE - 1,
         (a + m) % SIZE = (a + n) % SIZE
  PROVE  m = n
<1> DEFINE b == (a + m) % SIZE
           c == (a + n) % SIZE
<1>1. SIZE \in Nat \ {0} /\ m \in 0 .. SIZE /\ n \in 0 .. SIZE
  BY SizeAssumption
<1>2. /\ b = IF a + m < SIZE THEN a + m ELSE a + m - SIZE
      /\ c = IF a + n < SIZE THEN a + n ELSE a + n - SIZE
  BY <1>1, RingSlot
<1>3. b = c
  OBVIOUS
<1> HIDE DEF b, c
<1> QED
  BY <1>1, <1>2, <1>3 DEF Slots

-----------------------------------------------------------------------------
(* The methods.                                                            *)

(* The fields of a well-typed queue.                                       *)
LEMMA QueueParts ==
  ASSUME NEW T, NEW q \in Queues(T)
  PROVE  /\ q.front \in Slots /\ q.back \in Slots
         /\ q.size \in 0 .. SIZE
         /\ q.buffer \in [Slots -> T]
         /\ SIZE \in Nat \ {0}
  BY SizeAssumption DEF Queues

(* The queued items are a sequence.                                        *)
LEMMA ContentsSeq ==
  ASSUME NEW T, NEW q \in Queues(T)
  PROVE  /\ Contents(q) \in Seq(T)
         /\ Len(Contents(q)) = q.size
         /\ \A i \in 1 .. q.size :
              Contents(q)[i] = q.buffer[(q.front + (i - 1)) % SIZE]
<1>1. ASSUME NEW i \in 1 .. q.size
      PROVE  q.buffer[(q.front + (i - 1)) % SIZE] \in T
  <2>1. i - 1 \in 0 .. SIZE
    BY QueueParts
  <2>2. (q.front + (i - 1)) % SIZE \in Slots
    BY <2>1, QueueParts, RingSlot
  <2> QED
    BY <2>2, QueueParts
<1>2. q.size \in Nat
  BY QueueParts
<1>3. Contents(q) \in [1 .. q.size -> T]
  BY <1>1 DEF Contents
<1>4. Contents(q) \in Seq(T) /\ Len(Contents(q)) = q.size
  <2> DEFINE c == Contents(q)
  <2>1. c \in [1 .. q.size -> T]
    BY <1>3
  <2> HIDE DEF c
  <2>2. c \in Seq(T) /\ Len(c) = q.size
    BY <1>2, <2>1
  <2> QED
    BY <2>2 DEF c
<1> QED
  BY <1>4 DEF Contents

(* The constructor makes a well-formed ring.                               *)
LEMMA NewQueue ==
  ASSUME NEW T, NEW junk \in T
  PROVE  /\ circular_queue(junk) \in Queues(T)
         /\ RingOK(circular_queue(junk))
         /\ Contents(circular_queue(junk)) = <<>>
<1>1. 0 \in Slots
  BY SizeAssumption DEF Slots
<1>2. (0 + 0) % SIZE = 0
  BY <1>1, RingZero
<1> QED
  BY <1>1, <1>2, SizeAssumption DEF circular_queue, Queues, RingOK, Contents

(* push on a queue that is not full keeps the ring well formed.            *)
LEMMA PushOK ==
  ASSUME NEW T, NEW q \in Queues(T), NEW x \in T, RingOK(q), ~ full(q)
  PROVE  /\ push(q, x) \in Queues(T)
         /\ RingOK(push(q, x))
<1>1. q.size \in 0 .. SIZE - 1 /\ q.size + 1 \in 0 .. SIZE /\ 1 \in 0 .. SIZE
  BY QueueParts DEF full
<1>2. push(q, x) \in Queues(T)
  BY <1>1, QueueParts, RingSlot DEF push, Queues
<1>3. (q.back + 1) % SIZE = (q.front + (q.size + 1)) % SIZE
  BY <1>1, QueueParts, RingNext DEF RingOK
<1> QED
  BY <1>2, <1>3 DEF RingOK, push

(* pop on a queue that is not empty keeps the ring well formed.            *)
LEMMA PopOK ==
  ASSUME NEW T, NEW q \in Queues(T), RingOK(q), ~ empty(q)
  PROVE  /\ pop(q) \in Queues(T)
         /\ RingOK(pop(q))
         /\ front_item(q) \in T
<1>1. /\ q.size - 1 \in 0 .. SIZE - 1 /\ q.size - 1 \in 0 .. SIZE
      /\ (q.size - 1) + 1 = q.size /\ 1 \in 0 .. SIZE
  BY QueueParts DEF empty
<1>2. pop(q) \in Queues(T)
  BY <1>1, QueueParts, RingSlot DEF pop, Queues
<1>3. (((q.front + 1) % SIZE) + (q.size - 1)) % SIZE
        = (q.front + ((q.size - 1) + 1)) % SIZE
  BY <1>1, QueueParts, RingNext
<1> QED
  BY <1>1, <1>2, <1>3, QueueParts DEF RingOK, pop, front_item

(* push appends the item to the queued items.                              *)
LEMMA PushContents ==
  ASSUME NEW T, NEW q \in Queues(T), NEW x \in T, RingOK(q), ~ full(q)
  PROVE  Contents(push(q, x)) = Append(Contents(q), x)
<1> DEFINE r == push(q, x)
<1>1. /\ r.buffer = [q.buffer EXCEPT ![q.back] = x]
      /\ r.front = q.front
      /\ r.size = q.size + 1
  BY DEF push
<1>2. r \in Queues(T)
  BY PushOK
<1> HIDE DEF r
<1>3. q.size \in 0 .. SIZE - 1 /\ q.buffer \in [Slots -> T] /\ q.back \in Slots
  BY QueueParts DEF full
<1>4. ASSUME NEW i \in 1 .. q.size + 1
      PROVE  Contents(r)[i] = Append(Contents(q), x)[i]
  <2> DEFINE k == (q.front + (i - 1)) % SIZE
  <2>1. i - 1 \in 0 .. SIZE - 1 /\ i - 1 \in 0 .. SIZE
    BY <1>3, SizeAssumption
  <2>2. k \in Slots
    BY <2>1, QueueParts, RingSlot
  <2>3. Contents(r)[i] = r.buffer[k]
    <3>1. i \in 1 .. r.size
      BY <1>1
    <3>2. Contents(r)[i] = r.buffer[(r.front + (i - 1)) % SIZE]
      BY <1>2, <3>1, ContentsSeq
    <3> QED
      BY <1>1, <3>2
  <2>4. CASE i = q.size + 1
    <3>1. k = q.back
      BY <1>3, <2>4 DEF RingOK
    <3>2. r.buffer[k] = x
      BY <1>1, <1>3, <3>1
    <3>3. Append(Contents(q), x)[i] = x
      BY <2>4, ContentsSeq
    <3> QED
      BY <2>3, <3>2, <3>3
  <2>5. CASE i # q.size + 1
    <3>1. i \in 1 .. q.size /\ i - 1 # q.size
      BY <1>3, <2>5, SizeAssumption
    <3>2. k # q.back
      BY <1>3, <2>1, <3>1, QueueParts, RingDistinct DEF RingOK
    <3>3. r.buffer[k] = q.buffer[k]
      <4> HIDE DEF k
      <4> QED
        BY <1>1, <1>3, <2>2, <3>2
    <3>4. Contents(q)[i] = q.buffer[k]
      BY <3>1, ContentsSeq
    <3>5. Append(Contents(q), x)[i] = Contents(q)[i]
      BY <3>1, ContentsSeq
    <3> QED
      BY <2>3, <3>3, <3>4, <3>5
  <2> QED
    BY <2>4, <2>5
<1>5. Contents(r) \in Seq(T) /\ Len(Contents(r)) = q.size + 1
  BY <1>1, <1>2, ContentsSeq
<1>6. Append(Contents(q), x) \in Seq(T) /\ Len(Append(Contents(q), x)) = q.size + 1
  BY ContentsSeq
<1>7. Contents(r) = Append(Contents(q), x)
  BY <1>4, <1>5, <1>6
<1> QED
  BY <1>7 DEF r

(* pop returns the oldest item and removes it.                             *)
LEMMA PopContents ==
  ASSUME NEW T, NEW q \in Queues(T), RingOK(q), ~ empty(q)
  PROVE  /\ Contents(q) # <<>>
         /\ front_item(q) = Head(Contents(q))
         /\ Contents(pop(q)) = Tail(Contents(q))
<1> DEFINE r == pop(q)
<1>1. /\ r.buffer = q.buffer
      /\ r.size = q.size - 1
      /\ r.front = (q.front + 1) % SIZE
  BY DEF pop
<1>2. r \in Queues(T)
  BY PopOK
<1> HIDE DEF r
<1>3. q.size \in 1 .. SIZE
  BY QueueParts DEF empty
<1>4. front_item(q) = Head(Contents(q))
  <2>1. (q.front + (1 - 1)) % SIZE = q.front
    BY QueueParts, RingZero
  <2>2. Contents(q)[1] = q.buffer[q.front]
    BY <1>3, <2>1, ContentsSeq
  <2> QED
    BY <1>3, <2>2, ContentsSeq DEF front_item
<1>5. ASSUME NEW i \in 1 .. q.size - 1
      PROVE  Contents(r)[i] = Contents(q)[i + 1]
  <2>1. /\ i - 1 \in 0 .. SIZE - 1 /\ i + 1 \in 1 .. q.size
        /\ (i - 1) + 1 = (i + 1) - 1
    BY <1>3, SizeAssumption
  <2>2. Contents(r)[i] = q.buffer[(r.front + (i - 1)) % SIZE]
    BY <1>1, <1>2, ContentsSeq
  <2>3. Contents(q)[i + 1] = q.buffer[(q.front + ((i + 1) - 1)) % SIZE]
    BY <2>1, ContentsSeq
  <2>4. (r.front + (i - 1)) % SIZE = (q.front + ((i - 1) + 1)) % SIZE
    BY <1>1, <2>1, QueueParts, RingNext
  <2> QED
    BY <2>1, <2>2, <2>3, <2>4
<1>6. Contents(r) \in Seq(T) /\ Len(Contents(r)) = q.size - 1
  BY <1>1, <1>2, ContentsSeq
<1>7. /\ Tail(Contents(q)) \in Seq(T)
      /\ Len(Tail(Contents(q))) = q.size - 1
      /\ \A i \in 1 .. q.size - 1 : Tail(Contents(q))[i] = Contents(q)[i + 1]
  BY <1>3, ContentsSeq
<1>8. Contents(r) = Tail(Contents(q))
  BY <1>5, <1>6, <1>7
<1> QED
  BY <1>3, <1>4, <1>8, ContentsSeq DEF r
=============================================================================
