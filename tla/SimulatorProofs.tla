--------------------------- MODULE SimulatorProofs ---------------------------
(***************************************************************************)
(* Proofs about DiscreteEventSimulator, for every configuration: the       *)
(* invariant IInv of the main loop and its handlers, what it implies, the  *)
(* order of events, and that the events and the clock implement a network  *)
(* of queues.                                                              *)
(*                                                                         *)
(* A handler is followed in three parts: the events that its turn pops and *)
(* pushes (TurnFacts), what it does to the components it touches           *)
(* (JoinFacts, AdvanceFacts), and what the network sees of that (Stays,    *)
(* TakesIn, MovesOn).                                                      *)
(***************************************************************************)
EXTENDS SimulatorProperties, EventQueueProofs

-----------------------------------------------------------------------------
(* Sequences of events without their order: Range(Events(q)).              *)

(* No two events have the same process.                                    *)
Distinct(S) == \A i, j \in DOMAIN S : S[i].process = S[j].process => i = j

(* A process ends before another one can finish on the CPU.                *)
ExitFirst(S) ==
  \A i, j \in DOMAIN S :
    S[i].event_type = "JOB_EXIT" /\ S[j].event_type = "JOB_CPU_FINISH" => i < j

Good(q) == Ordered(EventRecord, q) /\ Distinct(Events(q)) /\ ExitFirst(Events(q))

(* e may be pushed when the events W wait.                                 *)
Fits(e, W) ==
  /\ e \in EventRecord
  /\ \A f \in W : e.process # f.process
  /\ e.event_type = "JOB_EXIT" => \A f \in W : f.event_type # "JOB_CPU_FINISH"
  /\ e.event_type = "JOB_CPU_FINISH" =>
       \A f \in W : f.event_type = "JOB_EXIT" => f.arrival_time <= e.arrival_time

AllFit(X, W) == \A e \in X : Fits(e, W)

LEMMA EventRecordTimed == Timed(EventRecord)
  BY DEF Timed, EventRecord

LEMMA GoodType ==
  ASSUME NEW q, Good(q)
  PROVE  /\ q \in Queue(EventRecord) /\ q.size \in Nat
         /\ Events(q) \in [1 .. q.size -> EventRecord]
         /\ Range(Events(q)) \subseteq EventRecord
<1>1. q \in Queue(EventRecord) /\ LinkedBy(q, Walk(q))
  BY DEF Good, Ordered, Linked
<1>2. q.size \in Nat /\ Events(q) \in [1 .. q.size -> EventRecord]
  BY <1>1, QueueFields, EventsValues
<1> QED
  BY <1>1, <1>2 DEF Range

(* The elements of t are e, behind k of s, and those of s.                 *)
Shifted(t, s, n, k, e) ==
  /\ DOMAIN t = 1 .. n + 1 /\ t[k + 1] = e
  /\ \A i \in 1 .. n + 1 :
       \/ i = k + 1 /\ t[i] = e
       \/ \E m \in 1 .. n : t[i] = s[m] /\ i = IF m <= k THEN m ELSE m + 1

LEMMA InsertShifts ==
  ASSUME NEW n \in Nat, NEW s, NEW k \in 0 .. n, NEW e, NEW t, t = Insert(s, n, k, e)
  PROVE  Shifted(t, s, n, k, e)
<1>1. /\ DOMAIN t = 1 .. n + 1
      /\ t[k + 1] = e
      /\ \A i \in 1 .. k : t[i] = s[i]
      /\ \A i \in k + 2 .. n + 1 : t[i] = s[i - 1]
  BY DEF Insert
<1>2. ASSUME NEW i \in 1 .. n + 1, i # k + 1
      PROVE  \E m \in 1 .. n : t[i] = s[m] /\ i = IF m <= k THEN m ELSE m + 1
  <2>1. CASE i \in 1 .. k
    <3>1. i \in 1 .. n /\ t[i] = s[i] /\ i = IF i <= k THEN i ELSE i + 1
      BY <1>1, <2>1
    <3> QED
      BY <3>1
  <2>2. CASE i \in k + 2 .. n + 1
    <3>1. i - 1 \in 1 .. n /\ t[i] = s[i - 1] /\ i = IF i - 1 <= k THEN i - 1 ELSE (i - 1) + 1
      BY <1>1, <2>2
    <3> QED
      BY <3>1
  <2> QED
    BY <1>2, <2>1, <2>2
<1> QED
  BY <1>1, <1>2 DEF Shifted

LEMMA PushKeeps ==
  ASSUME NEW q, Good(q), q.size <= 5,
         NEW W, W = Range(Events(q)), NEW e, Fits(e, W), NEW q1, q1 = push(q, e),
         NEW V, V = W \cup {e}
  PROVE  Good(q1) /\ q1.size = q.size + 1 /\ Range(Events(q1)) = V
<1>0. PICK S : S = Events(q)
  OBVIOUS
<1>1. PICK n \in Nat : n = q.size
  BY GoodType
<1>2. S \in [1 .. n -> EventRecord] /\ DOMAIN S = 1 .. n
  BY <1>0, <1>1, GoodType
<1>3. e \in EventRecord /\ Ordered(EventRecord, q) /\ Distinct(S) /\ ExitFirst(S)
  BY <1>0 DEF Good, Fits
<1>4. Addresses \ DOMAIN q.node # {}
  BY <1>3, RoomForMore
<1>5. /\ Ordered(EventRecord, q1) /\ q1.size = n + 1
      /\ \E k \in 0 .. n :
              /\ Events(q1) = Insert(Events(q), n, k, e)
              /\ \A i \in 1 .. k : Events(q)[i].arrival_time <= e.arrival_time
              /\ \A i \in k + 1 .. n : e.arrival_time < Events(q)[i].arrival_time
  BY <1>1, <1>3, <1>4, EventRecordTimed, PushInserts
<1>6. PICK k \in 0 .. n : /\ Events(q1) = Insert(S, n, k, e)
                          /\ \A i \in k + 1 .. n : e.arrival_time < S[i].arrival_time
  BY <1>0, <1>5
<1>7. PICK T : T = Events(q1)
  OBVIOUS
<1>8. Range(T) = Range(S) \cup {e}
  BY <1>2, <1>6, <1>7, InsertInjective
<1>9. /\ DOMAIN T = 1 .. n + 1 /\ T[k + 1] = e
      /\ \A i \in 1 .. n + 1 :
              \/ i = k + 1 /\ T[i] = e
              \/ \E m \in 1 .. n : T[i] = S[m] /\ i = IF m <= k THEN m ELSE m + 1
  <2>1. Shifted(T, S, n, k, e)
    BY <1>6, <1>7, InsertShifts
  <2> QED
    BY <2>1 DEF Shifted
<1>10. \A m \in 1 .. n : S[m] \in Range(S) /\ S[m].arrival_time \in Nat /\ e.arrival_time \in Nat
  BY <1>2, <1>3 DEF Range, EventRecord
<1>11. Distinct(T)
  <2>1. \A m \in 1 .. n : S[m].process # e.process
    BY <1>0, <1>10 DEF Fits
  <2>2. \A i, j \in 1 .. n : S[i].process = S[j].process => i = j
    BY <1>2, <1>3 DEF Distinct
  <2>3. ASSUME NEW i \in 1 .. n + 1, NEW j \in 1 .. n + 1, T[i].process = T[j].process
        PROVE  i = j
    BY <1>9, <2>1, <2>2, <2>3
  <2> QED
    BY <1>9, <2>3 DEF Distinct
<1>12. ExitFirst(T)
  <2>1. /\ e.event_type = "JOB_EXIT" => \A m \in 1 .. n : S[m].event_type # "JOB_CPU_FINISH"
        /\ e.event_type = "JOB_CPU_FINISH" =>
             \A m \in 1 .. n : S[m].event_type = "JOB_EXIT" => m <= k
    <3>1. e.event_type = "JOB_EXIT" => \A m \in 1 .. n : S[m].event_type # "JOB_CPU_FINISH"
      BY <1>0, <1>10 DEF Fits
    <3>2. e.event_type = "JOB_CPU_FINISH" =>
             \A m \in 1 .. n : S[m].event_type = "JOB_EXIT" => S[m].arrival_time <= e.arrival_time
      BY <1>0, <1>10 DEF Fits
    <3>3. \A m \in 1 .. n : ~ m <= k => m \in k + 1 .. n
      OBVIOUS
    <3> QED
      BY <1>6, <1>10, <3>1, <3>2, <3>3
  <2>2. \A i, j \in 1 .. n :
          S[i].event_type = "JOB_EXIT" /\ S[j].event_type = "JOB_CPU_FINISH" => i < j
    BY <1>2, <1>3 DEF ExitFirst
  <2>3. ASSUME NEW i \in 1 .. n + 1, NEW j \in 1 .. n + 1,
               T[i].event_type = "JOB_EXIT", T[j].event_type = "JOB_CPU_FINISH"
        PROVE  i < j
    <3>1. CASE i = k + 1 /\ T[i] = e
      BY <1>9, <2>1, <2>3, <3>1
    <3>2. CASE \E m \in 1 .. n : T[i] = S[m] /\ i = IF m <= k THEN m ELSE m + 1
      <4>1. PICK m \in 1 .. n : T[i] = S[m] /\ i = IF m <= k THEN m ELSE m + 1
        BY <3>2
      <4>2. CASE j = k + 1 /\ T[j] = e
        <5>1. m <= k
          BY <2>1, <2>3, <4>1, <4>2
        <5> QED
          BY <4>1, <4>2, <5>1
      <4>3. CASE \E l \in 1 .. n : T[j] = S[l] /\ j = IF l <= k THEN l ELSE l + 1
        <5>1. PICK l \in 1 .. n : T[j] = S[l] /\ j = IF l <= k THEN l ELSE l + 1
          BY <4>3
        <5>2. m < l
          BY <2>2, <2>3, <4>1, <5>1
        <5> QED
          BY <4>1, <5>1, <5>2
      <4> QED
        BY <1>9, <4>2, <4>3
    <3> QED
      BY <1>9, <3>1, <3>2
  <2> QED
    BY <1>9, <2>3 DEF ExitFirst
<1> QED
  BY <1>0, <1>1, <1>5, <1>7, <1>8, <1>11, <1>12 DEF Good

LEMMA PopKeeps ==
  ASSUME NEW q, Good(q), q.size > 0, NEW q1, q1 = pop(q), NEW h, h = front(q)
  PROVE  /\ Good(q1) /\ q1.size = q.size - 1
         /\ h \in Range(Events(q)) /\ h \in EventRecord
         /\ Range(Events(q1)) = Range(Events(q)) \ {h}
         /\ \A f \in Range(Events(q)) : h.arrival_time <= f.arrival_time
         /\ \A f \in Range(Events(q1)) : f.process # h.process
         /\ h.event_type = "JOB_CPU_FINISH" =>
              \A f \in Range(Events(q)) : f.event_type # "JOB_EXIT"
<1>0. PICK S : S = Events(q)
  OBVIOUS
<1>1. PICK n \in Nat : n = q.size /\ n > 0
  BY GoodType
<1>2. S \in [1 .. n -> EventRecord] /\ DOMAIN S = 1 .. n
  BY <1>0, <1>1, GoodType
<1>3. Ordered(EventRecord, q) /\ Distinct(S) /\ ExitFirst(S)
  BY <1>0 DEF Good
<1>4. /\ Ordered(EventRecord, q1) /\ q1.size = n - 1
      /\ front(q) = Events(q)[1]
      /\ \A i \in 1 .. n - 1 : Events(q1)[i] = Events(q)[i + 1]
  BY <1>1, <1>3, PopRemoves
<1>5. PICK T : T = Events(q1)
  OBVIOUS
<1>6. DOMAIN T = 1 .. n - 1
  <2>1. q1 \in Queue(EventRecord) /\ LinkedBy(q1, Walk(q1))
    BY <1>4 DEF Ordered, Linked
  <2> QED
    BY <1>4, <1>5, <2>1, EventsValues
<1>7. \A i \in 1 .. n - 1 : T[i] = S[i + 1] /\ i + 1 \in 1 .. n /\ i + 1 # 1
  BY <1>0, <1>4, <1>5
<1>8. h = S[1] /\ 1 \in 1 .. n
  BY <1>0, <1>1, <1>4
<1>9. \A i, j \in 1 .. n : S[i].process = S[j].process => i = j
  BY <1>2, <1>3 DEF Distinct
<1>10. Range(T) = Range(S) \ {h}
  <2>1. \A i \in 1 .. n - 1 : T[i] \in Range(S) /\ T[i] # h
    BY <1>2, <1>7, <1>8, <1>9 DEF Range
  <2>2. ASSUME NEW i \in 1 .. n, S[i] # h
        PROVE  S[i] \in Range(T)
    <3>1. i - 1 \in 1 .. n - 1 /\ (i - 1) + 1 = i
      BY <1>8, <2>2
    <3> QED
      BY <1>6, <1>7, <3>1 DEF Range
  <2>3. Range(T) \subseteq Range(S) \ {h}
    BY <1>6, <2>1 DEF Range
  <2>4. ASSUME NEW e \in Range(S), e # h
        PROVE  e \in Range(T)
    <3>1. PICK i \in 1 .. n : S[i] = e
      BY <1>2 DEF Range
    <3> QED
      BY <2>2, <2>4, <3>1
  <2> QED
    BY <2>3, <2>4
<1>11. Distinct(T)
  <2>1. ASSUME NEW i \in 1 .. n - 1, NEW j \in 1 .. n - 1, T[i].process = T[j].process
        PROVE  i = j
    <3>1. S[i + 1].process = S[j + 1].process
      BY <1>7, <2>1
    <3>2. i + 1 = j + 1
      BY <1>7, <1>9, <3>1
    <3> QED
      BY <3>2
  <2> QED
    BY <1>6, <2>1 DEF Distinct
<1>12. ExitFirst(T)
  <2>1. \A i, j \in 1 .. n :
          S[i].event_type = "JOB_EXIT" /\ S[j].event_type = "JOB_CPU_FINISH" => i < j
    BY <1>2, <1>3 DEF ExitFirst
  <2>2. ASSUME NEW i \in 1 .. n - 1, NEW j \in 1 .. n - 1,
               T[i].event_type = "JOB_EXIT", T[j].event_type = "JOB_CPU_FINISH"
        PROVE  i < j
    <3>1. i + 1 < j + 1
      BY <1>7, <2>1, <2>2
    <3> QED
      BY <3>1
  <2> QED
    BY <1>6, <2>2 DEF ExitFirst
<1>13. h \in Range(S) /\ h \in EventRecord
  BY <1>2, <1>8 DEF Range
<1>14. \A f \in Range(S) : h.arrival_time <= f.arrival_time
  <2>1. \A i \in 1 .. n : TimeAt(q, Walk(q)[i]) = S[i].arrival_time
    <3>1. q \in Queue(EventRecord) /\ LinkedBy(q, Walk(q))
      BY <1>3 DEF Ordered, Linked
    <3> QED
      BY <1>0, <1>1, <3>1, EventsValues
  <2>2. \A i \in 1 .. n : 1 < i => S[1].arrival_time <= S[i].arrival_time
    BY <1>1, <1>3, <1>8, <2>1 DEF Ordered
  <2>3. S[1].arrival_time \in Nat
    BY <1>2, <1>8 DEF EventRecord
  <2>4. \A i \in 1 .. n : i = 1 \/ 1 < i
    OBVIOUS
  <2> QED
    BY <1>2, <1>8, <2>2, <2>3, <2>4 DEF Range
<1>15. \A f \in Range(T) : f.process # h.process
  BY <1>6, <1>7, <1>8, <1>9 DEF Range
<1>16. ASSUME h.event_type = "JOB_CPU_FINISH", NEW f \in Range(S)
       PROVE  f.event_type # "JOB_EXIT"
  <2>1. PICK i \in 1 .. n : f = S[i]
    BY <1>2 DEF Range
  <2>2. ~ i < 1
    OBVIOUS
  <2> QED
    BY <1>2, <1>3, <1>8, <1>16, <2>1, <2>2 DEF ExitFirst
<1> QED
  BY <1>0, <1>1, <1>4, <1>5, <1>10, <1>11, <1>12, <1>13, <1>14, <1>15, <1>16 DEF Good

(* In t the events of s have kept their order, and no other precedes one   *)
(* of W that is not later.                                                 *)
InSameOrder(s, t) ==
  \A i, j \in DOMAIN s : i <= j =>
    \E k, l \in DOMAIN t : k <= l /\ t[k] = s[i] /\ t[l] = s[j]

NewBehind(W, t) ==
  \A i, j \in DOMAIN t :
    i < j /\ t[i] \notin W /\ t[j] \in W => t[i].arrival_time < t[j].arrival_time

LEMMA PushOrder ==
  ASSUME NEW q, Good(q), q.size <= 5, NEW S, S = Events(q),
         NEW e, Fits(e, Range(Events(q))), NEW q1, q1 = push(q, e),
         NEW W, W \subseteq Range(S), NewBehind(W, S)
  PROVE  InSameOrder(S, Events(q1)) /\ NewBehind(W, Events(q1))
<1>1. PICK n \in Nat : n = q.size
  BY GoodType
<1>2. S \in [1 .. n -> EventRecord] /\ DOMAIN S = 1 .. n
  BY <1>1, GoodType
<1>3. e \in EventRecord /\ Ordered(EventRecord, q)
  BY DEF Good, Fits
<1>4. Addresses \ DOMAIN q.node # {}
  BY <1>3, RoomForMore
<1>5. \E k \in 0 .. n :
              /\ Events(q1) = Insert(Events(q), n, k, e)
              /\ \A i \in 1 .. k : Events(q)[i].arrival_time <= e.arrival_time
              /\ \A i \in k + 1 .. n : e.arrival_time < Events(q)[i].arrival_time
  BY <1>1, <1>3, <1>4, EventRecordTimed, PushInserts
<1>6. PICK k \in 0 .. n : /\ Events(q1) = Insert(S, n, k, e)
                          /\ \A i \in k + 1 .. n : e.arrival_time < S[i].arrival_time
  BY <1>5
<1>7. PICK T : T = Events(q1)
  OBVIOUS
<1>8. /\ DOMAIN T = 1 .. n + 1 /\ T[k + 1] = e
      /\ \A i \in 1 .. n + 1 :
              \/ i = k + 1 /\ T[i] = e
              \/ \E m \in 1 .. n : T[i] = S[m] /\ i = IF m <= k THEN m ELSE m + 1
      /\ \A i \in 1 .. k : T[i] = S[i]
      /\ \A i \in k + 2 .. n + 1 : T[i] = S[i - 1]
  <2>1. Shifted(T, S, n, k, e)
    BY <1>6, <1>7, InsertShifts
  <2> QED
    BY <1>6, <1>7, <2>1 DEF Shifted, Insert
<1>9. \A m \in 1 .. n : T[IF m <= k THEN m ELSE m + 1] = S[m]
  <2>1. ASSUME NEW m \in 1 .. n, ~ m <= k
        PROVE  T[m + 1] = S[m]
    <3>1. m + 1 \in k + 2 .. n + 1 /\ (m + 1) - 1 = m
      BY <2>1
    <3> QED
      BY <1>8, <3>1
  <2>2. \A m \in 1 .. n : m <= k => m \in 1 .. k
    OBVIOUS
  <2> QED
    BY <1>8, <2>1, <2>2
<1>10. InSameOrder(S, T)
  <2>1. ASSUME NEW i \in DOMAIN S, NEW j \in DOMAIN S, i <= j
        PROVE  \E a, b \in DOMAIN T : a <= b /\ T[a] = S[i] /\ T[b] = S[j]
    <3>1. PICK a, b : /\ a = (IF i <= k THEN i ELSE i + 1)
                      /\ b = (IF j <= k THEN j ELSE j + 1)
      OBVIOUS
    <3>2. i \in 1 .. n /\ j \in 1 .. n
      BY <1>2
    <3>3. a \in 1 .. n + 1 /\ b \in 1 .. n + 1 /\ a <= b
      BY <2>1, <3>1, <3>2
    <3>4. T[a] = S[i] /\ T[b] = S[j]
      BY <1>9, <3>1, <3>2
    <3>5. a \in DOMAIN T /\ b \in DOMAIN T
      BY <1>8, <3>3
    <3> QED
      BY <3>3, <3>4, <3>5
  <2> QED
    BY <2>1 DEF InSameOrder
<1>11. e \notin W
  <2>1. \A f \in Range(S) : e.process # f.process
    BY DEF Fits
  <2> QED
    BY <2>1
<1>12. NewBehind(W, T)
  <2>1. ASSUME NEW i \in 1 .. n + 1, NEW j \in 1 .. n + 1, i < j, T[i] \notin W, T[j] \in W
        PROVE  T[i].arrival_time < T[j].arrival_time
    <3>1. PICK l \in 1 .. n : T[j] = S[l] /\ j = IF l <= k THEN l ELSE l + 1
      BY <1>8, <1>11, <2>1
    <3>2. CASE i = k + 1 /\ T[i] = e
      <4>1. l \in k + 1 .. n
        BY <2>1, <3>1, <3>2
      <4> QED
        BY <1>6, <3>1, <3>2, <4>1
    <3>3. CASE \E m \in 1 .. n : T[i] = S[m] /\ i = IF m <= k THEN m ELSE m + 1
      <4>1. PICK m \in 1 .. n : T[i] = S[m] /\ i = IF m <= k THEN m ELSE m + 1
        BY <3>3
      <4>2. m < l
        BY <2>1, <3>1, <4>1
      <4> QED
        BY <1>2, <2>1, <3>1, <4>1, <4>2 DEF NewBehind
    <3> QED
      BY <1>8, <3>2, <3>3
  <2> QED
    BY <1>8, <2>1 DEF NewBehind
<1> QED
  BY <1>7, <1>10, <1>12

-----------------------------------------------------------------------------
(* The events of a turn: what a handler pushes is at most one event of a   *)
(* set X and then at most one of a set Y.                                  *)

AtMostOne(x, X) ==
  \/ x = <<>> /\ X = {}
  \/ \E e : x = <<e>> /\ X = {e}

Pushing(es, X, Y) ==
  \/ es = <<>> /\ X = {} /\ Y = {}
  \/ \E e : es = <<e>> /\ X = {e} /\ Y = {}
  \/ \E e : es = <<e>> /\ X = {} /\ Y = {e}
  \/ \E e, f : es = <<e, f>> /\ X = {e} /\ Y = {f}

LEMMA PushingOne ==
  ASSUME NEW x, NEW X, AtMostOne(x, X)
  PROVE  Pushing(x, X, {})
  BY DEF AtMostOne, Pushing

LEMMA PushingBoth ==
  ASSUME NEW x, NEW X, AtMostOne(x, X), NEW y, NEW Y, AtMostOne(y, Y)
  PROVE  Pushing(x \o y, X, Y)
<1>1. CASE x = <<>> /\ X = {} /\ y = <<>> /\ Y = {}
  <2>1. <<>> \o <<>> = <<>>
    OBVIOUS
  <2> QED
    BY <1>1, <2>1 DEF Pushing
<1>2. CASE x = <<>> /\ X = {} /\ \E e : y = <<e>> /\ Y = {e}
  <2>1. PICK e : y = <<e>> /\ Y = {e}
    BY <1>2
  <2>2. <<>> \o <<e>> = <<e>>
    OBVIOUS
  <2> QED
    BY <1>2, <2>1, <2>2 DEF Pushing
<1>3. CASE (\E e : x = <<e>> /\ X = {e}) /\ y = <<>> /\ Y = {}
  <2>1. PICK e : x = <<e>> /\ X = {e}
    BY <1>3
  <2>2. <<e>> \o <<>> = <<e>>
    OBVIOUS
  <2> QED
    BY <1>3, <2>1, <2>2 DEF Pushing
<1>4. CASE (\E e : x = <<e>> /\ X = {e}) /\ (\E e : y = <<e>> /\ Y = {e})
  <2>1. PICK e : x = <<e>> /\ X = {e}
    BY <1>4
  <2>2. PICK f : y = <<f>> /\ Y = {f}
    BY <1>4
  <2>3. <<e>> \o <<f>> = <<e, f>>
    <3>1. PICK u : u = <<e>> \o <<f>>
      OBVIOUS
    <3>2. <<e>> \in Seq({e, f}) /\ <<f>> \in Seq({e, f})
      OBVIOUS
    <3>3. u \in Seq({e, f}) /\ Len(u) = 2 /\ u[1] = e /\ u[2] = f
      BY <3>1, <3>2
    <3>4. u = <<e, f>>
      BY <3>3
    <3> QED
      BY <3>1, <3>4
  <2> QED
    BY <2>1, <2>2, <2>3 DEF Pushing
<1> QED
  BY <1>1, <1>2, <1>3, <1>4 DEF AtMostOne

LEMMA PushesInTurn ==
  ASSUME NEW q, NEW es
  PROVE  /\ es = <<>> => FoldLeft(push, q, es) = q
         /\ \A e : es = <<e>> => FoldLeft(push, q, es) = push(q, e)
<1>1. ASSUME es = <<>>
      PROVE  FoldLeft(push, q, es) = q
  <2>1. DOMAIN es = {}
    BY <1>1
  <2> QED
    BY <2>1, PushesFew
<1>2. ASSUME NEW e, es = <<e>>
      PROVE  FoldLeft(push, q, es) = push(q, e)
  <2>1. DOMAIN es = {1} /\ es[1] = e
    BY <1>2
  <2> QED
    BY <2>1, PushesFew
<1> QED
  BY <1>1, <1>2

LEMMA PushesBoth ==
  ASSUME NEW q, NEW es, DOMAIN es = {1, 2}
  PROVE  FoldLeft(push, q, es) = push(push(q, es[1]), es[2])
<1>1. {1, 2} # {} /\ {1, 2} # {1}
  <2>1. 2 \in {1, 2} /\ 2 \notin {1}
    OBVIOUS
  <2> QED
    BY <2>1
<1> QED
  BY <1>1, PushesFew

LEMMA OrderComposes ==
  ASSUME NEW r, NEW s, NEW t, InSameOrder(r, s), InSameOrder(s, t)
  PROVE  InSameOrder(r, t)
<1>1. ASSUME NEW i \in DOMAIN r, NEW j \in DOMAIN r, i <= j
      PROVE  \E k, l \in DOMAIN t : k <= l /\ t[k] = r[i] /\ t[l] = r[j]
  <2>1. PICK a, b \in DOMAIN s : a <= b /\ s[a] = r[i] /\ s[b] = r[j]
    BY <1>1 DEF InSameOrder
  <2>2. PICK k, l \in DOMAIN t : k <= l /\ t[k] = s[a] /\ t[l] = s[b]
    BY <2>1 DEF InSameOrder
  <2> QED
    BY <2>1, <2>2
<1> QED
  BY <1>1 DEF InSameOrder

LEMMA OrderStays ==
  ASSUME NEW s
  PROVE  InSameOrder(s, s) /\ NewBehind(Range(s), s)
<1>1. InSameOrder(s, s)
  BY DEF InSameOrder
<1>2. \A i \in DOMAIN s : s[i] \in Range(s)
  BY DEF Range
<1> QED
  BY <1>1, <1>2 DEF NewBehind

(* q1 comes from q0 by pushes, and holds V.                                *)
AfterTurn(q0, q1, W, V) ==
  /\ Good(q1) /\ Range(Events(q1)) = V
  /\ InSameOrder(Events(q0), Events(q1)) /\ NewBehind(W, Events(q1))

LEMMA TurnKeeps ==
  ASSUME NEW q, Good(q), q.size > 0, q.size <= 5, NEW h, h = front(q),
         NEW W, W = Range(Events(q)) \ {h},
         NEW es, NEW X, NEW Y, Pushing(es, X, Y),
         AllFit(X, W), AllFit(Y, W \cup X),
         NEW q1, q1 = FoldLeft(push, pop(q), es)
  PROVE  AfterTurn(pop(q), q1, W, W \cup X \cup Y)
<1>1. PICK q0 : q0 = pop(q)
  OBVIOUS
<1>a. PICK S : S = Events(q0)
  OBVIOUS
<1>2. Good(q0) /\ q0.size = q.size - 1 /\ Range(Events(q0)) = W /\ q.size \in Nat
  BY <1>1, PopKeeps, GoodType
<1>3. q0.size \in Nat /\ q0.size <= 4
  BY <1>2
<1>b. W = Range(S) /\ InSameOrder(S, S) /\ NewBehind(W, S)
  BY <1>a, <1>2, OrderStays
<1>4. CASE es = <<>> /\ X = {} /\ Y = {}
  <2>1. q1 = q0
    BY <1>1, <1>4, PushesInTurn
  <2> QED
    BY <1>1, <1>2, <1>4, <1>a, <1>b, <2>1 DEF AfterTurn
<1>5. ASSUME NEW e, es = <<e>>, Fits(e, W), X \cup Y = {e}
      PROVE  /\ Good(q1) /\ Range(Events(q1)) = W \cup X \cup Y
             /\ InSameOrder(S, Events(q1)) /\ NewBehind(W, Events(q1))
  <2>1. q1 = push(q0, e)
    BY <1>1, <1>5, PushesInTurn
  <2>2. q0.size <= 5
    BY <1>3
  <2>3. Good(q0) /\ W = Range(Events(q0)) /\ Fits(e, W)
    BY <1>2, <1>5
  <2>4. PICK V : V = W \cup {e}
    OBVIOUS
  <2>5. Good(q1) /\ Range(Events(q1)) = V
    BY <2>1, <2>2, <2>3, <2>4, PushKeeps
  <2>6. Fits(e, Range(Events(q0)))
    BY <2>3
  <2>7. InSameOrder(S, Events(q1)) /\ NewBehind(W, Events(q1))
    BY <1>2, <1>a, <1>b, <2>1, <2>2, <2>6, PushOrder
  <2> QED
    BY <1>5, <2>4, <2>5, <2>7
<1>6. CASE \E e, f : es = <<e, f>> /\ X = {e} /\ Y = {f}
  <2>1. PICK e, f : es = <<e, f>> /\ X = {e} /\ Y = {f}
    BY <1>6
  <2>2. PICK q2 : q2 = push(q0, e)
    OBVIOUS
  <2>3. q1 = push(q2, f)
    <3>1. es = <<e, f>>
      BY <2>1
    <3>2. DOMAIN es = {1, 2} /\ es[1] = e /\ es[2] = f
      BY <3>1
    <3>3. FoldLeft(push, q0, es) = push(push(q0, es[1]), es[2])
      BY <3>2, PushesBoth
    <3> QED
      BY <1>1, <2>2, <3>2, <3>3
  <2>4. /\ Good(q0) /\ q0.size <= 5 /\ W = Range(Events(q0))
        /\ Fits(e, W) /\ Fits(f, W \cup {e})
    BY <1>2, <1>3, <2>1 DEF AllFit
  <2>5. PICK V, U : V = W \cup {e} /\ U = V \cup {f}
    OBVIOUS
  <2>6. Good(q2) /\ q2.size = q0.size + 1 /\ V = Range(Events(q2))
    BY <2>2, <2>4, <2>5, PushKeeps
  <2>7. q2.size <= 5 /\ Fits(f, V)
    BY <1>3, <2>4, <2>5, <2>6
  <2>8. Good(q1) /\ Range(Events(q1)) = U
    BY <2>3, <2>5, <2>6, <2>7, PushKeeps
  <2>9. PICK S2 : S2 = Events(q2)
    OBVIOUS
  <2>10. InSameOrder(S, S2) /\ NewBehind(W, S2)
    <3>1. Fits(e, Range(Events(q0)))
      BY <2>4
    <3> QED
      BY <1>a, <1>b, <2>2, <2>4, <2>9, <3>1, PushOrder
  <2>11. InSameOrder(S2, Events(q1)) /\ NewBehind(W, Events(q1))
    <3>1. W \subseteq Range(S2) /\ Fits(f, Range(Events(q2)))
      BY <2>5, <2>6, <2>7, <2>9
    <3> QED
      BY <2>3, <2>6, <2>7, <2>9, <2>10, <3>1, PushOrder
  <2>12. PICK S3 : S3 = Events(q1)
    OBVIOUS
  <2>13. InSameOrder(S, S3)
    BY <2>10, <2>11, <2>12, OrderComposes
  <2> QED
    BY <1>1, <1>a, <2>1, <2>5, <2>8, <2>11, <2>12, <2>13 DEF AfterTurn
<1>7. CASE \E e : es = <<e>> /\ X = {e} /\ Y = {}
  BY <1>1, <1>5, <1>7, <1>a DEF AllFit, AfterTurn
<1>8. CASE \E e : es = <<e>> /\ X = {} /\ Y = {e}
  <2>1. W \cup X = W
    BY <1>8
  <2> QED
    BY <1>1, <1>5, <1>8, <1>a, <2>1 DEF AllFit, AfterTurn
<1> QED
  BY <1>4, <1>6, <1>7, <1>8 DEF Pushing

-----------------------------------------------------------------------------
(* Queues of processes.                                                    *)

(* t has the elements of s and e.                                          *)
OneMore(t, s, e) ==
  /\ Range(t) = Range(s) \cup {e}
  /\ IsInjective(s) /\ e \notin Range(s) => IsInjective(t)

LEMMA AppendRange ==
  ASSUME NEW S, NEW s \in Seq(S), NEW e \in S, NEW t, t = Append(s, e)
  PROVE  t \in Seq(S) /\ t # <<>> /\ OneMore(t, s, e)
<1>1. /\ t \in Seq(S) /\ Len(t) = Len(s) + 1 /\ Len(s) \in Nat
      /\ DOMAIN s = 1 .. Len(s) /\ DOMAIN t = 1 .. Len(t)
      /\ \A i \in 1 .. Len(s) : t[i] = s[i]
      /\ t[Len(s) + 1] = e
  OBVIOUS
<1>2. PICK n \in Nat : n = Len(s)
  BY <1>1
<1>3. /\ DOMAIN s = 1 .. n /\ DOMAIN t = 1 .. n + 1 /\ t[n + 1] = e
      /\ \A i \in 1 .. n : t[i] = s[i]
  BY <1>1, <1>2
<1>4. \A i \in 1 .. n + 1 : i = n + 1 \/ i \in 1 .. n
  OBVIOUS
<1>5. 1 .. n \subseteq 1 .. n + 1 /\ n + 1 \in 1 .. n + 1
  OBVIOUS
<1>6. Range(t) = Range(s) \cup {e}
  <2>1. Range(t) \subseteq Range(s) \cup {e}
    BY <1>3, <1>4 DEF Range
  <2>2. Range(s) \subseteq Range(t)
    BY <1>3, <1>5 DEF Range
  <2>3. e \in Range(t)
    BY <1>3, <1>5 DEF Range
  <2> QED
    BY <2>1, <2>2, <2>3
<1>7. ASSUME IsInjective(s), e \notin Range(s)
      PROVE  IsInjective(t)
  <2>1. \A i \in 1 .. n : s[i] # e
    BY <1>3, <1>7 DEF Range
  <2>2. \A i, j \in 1 .. n : s[i] = s[j] => i = j
    BY <1>3, <1>7 DEF IsInjective
  <2>3. \A i, j \in 1 .. n + 1 : t[i] = t[j] => i = j
    BY <1>3, <1>4, <2>1, <2>2
  <2> QED
    BY <1>3, <2>3 DEF IsInjective
<1> QED
  BY <1>1, <1>6, <1>7 DEF OneMore

LEMMA TailRange ==
  ASSUME NEW S, NEW s \in Seq(S), s # <<>>, IsInjective(s), NEW t, t = Tail(s),
         NEW e, e = Head(s)
  PROVE  /\ t \in Seq(S) /\ e \in S
         /\ e \in Range(s)
         /\ Range(t) = Range(s) \ {e}
         /\ IsInjective(t)
<1>1. /\ t \in Seq(S) /\ Len(t) = Len(s) - 1 /\ Len(s) \in Nat /\ Len(s) > 0
      /\ DOMAIN s = 1 .. Len(s) /\ DOMAIN t = 1 .. Len(t)
      /\ \A i \in 1 .. Len(t) : t[i] = s[i + 1]
      /\ e = s[1] /\ e \in S
  OBVIOUS
<1>2. PICK n \in Nat : n = Len(s)
  BY <1>1
<1>3. /\ DOMAIN s = 1 .. n /\ DOMAIN t = 1 .. n - 1 /\ e = s[1] /\ 1 \in 1 .. n
      /\ \A i \in 1 .. n - 1 : t[i] = s[i + 1]
  BY <1>1, <1>2
<1>4. \A i, j \in 1 .. n : s[i] = s[j] => i = j
  BY <1>3 DEF IsInjective
<1>5. \A i \in 1 .. n - 1 : i + 1 \in 1 .. n /\ i + 1 # 1
  OBVIOUS
<1>6. \A i \in 1 .. n : i # 1 => i - 1 \in 1 .. n - 1 /\ (i - 1) + 1 = i
  OBVIOUS
<1>7. Range(t) = Range(s) \ {e}
  <2>1. Range(t) \subseteq Range(s) \ {e}
    BY <1>3, <1>4, <1>5 DEF Range
  <2>2. ASSUME NEW i \in 1 .. n, s[i] # e
        PROVE  s[i] \in Range(t)
    <3>1. i # 1
      BY <1>3, <2>2
    <3>2. i - 1 \in DOMAIN t /\ t[i - 1] = s[i]
      BY <1>3, <1>6, <3>1
    <3> QED
      BY <3>2 DEF Range
  <2>3. Range(s) \ {e} \subseteq Range(t)
    BY <1>3, <2>2 DEF Range
  <2> QED
    BY <2>1, <2>3
<1>8. \A i, j \in 1 .. n - 1 : t[i] = t[j] => i = j
  BY <1>3, <1>4, <1>5
<1> QED
  BY <1>1, <1>3, <1>7, <1>8 DEF Range, IsInjective

-----------------------------------------------------------------------------
(* The inductive invariant.                                                *)

Waiting == Range(Agenda)

(* Whom an event works for.                                                *)
Role(e) ==
  IF e.event_type \in {"SIMULATION_START", "JOB_ARRIVAL"} THEN "arrival"
  ELSE IF e.event_type \in {"JOB_CPU_START", "JOB_CPU_FINISH"} THEN "cpu0"
  ELSE IF e.event_type \in {"JOB_DISK_0_START", "JOB_DISK_0_FINISH"} THEN "disk0"
  ELSE IF e.event_type \in {"JOB_DISK_1_START", "JOB_DISK_1_FINISH"} THEN "disk1"
  ELSE "exit"

Station == [busy : BOOLEAN, Q : Seq(Nat), time_busy : Nat, jobs_processed : Nat, max_time : Nat]
Typed ==
  /\ total_time \in Nat
  /\ component \in [Components -> Station]
  /\ IDcounter \in Nat \ {0}
  /\ 0 \in processes /\ processes \subseteq 0 .. IDcounter - 1
  /\ status \in {"running", "ended", "crashed"}
  /\ longest \in [Components -> Nat]

InTime ==
  \A e \in Waiting :
    /\ total_time <= e.arrival_time
    /\ e.event_type = "JOB_EXIT" => e.arrival_time = total_time

OneRole == \A e, f \in Waiting : Role(e) = Role(f) => e = f

BusyWorks ==
  \A c \in Components :
    /\ component[c].busy <=> \E e \in Waiting : Role(e) = c
    /\ ~component[c].busy => component[c].Q = <<>>

InLine(c) == Range(component[c].Q)
OnePlace ==
  /\ \A e \in Waiting : e.process \in processes
  /\ \A c \in Components : InLine(c) \subseteq processes \ {0} /\ IsInjective(component[c].Q)
  /\ \A c, d \in Components : c # d => InLine(c) \cap InLine(d) = {}
  /\ \A c \in Components : \A e \in Waiting : e.process \notin InLine(c)
  /\ \A p \in processes \ {0} :
       (\E e \in Waiting : e.process = p) \/ \E c \in Components : p \in InLine(c)

Arrivals ==
  /\ \E e \in Waiting : Role(e) = "arrival"
  /\ \A e \in Waiting :
       /\ e.event_type = "JOB_ARRIVAL" => e.process = IDcounter - 1 /\ IDcounter > 1
       /\ e.event_type = "SIMULATION_START" => e.process = 0 /\ IDcounter = 1
       /\ e.process = 0 => e.event_type = "SIMULATION_START"

Within ==
  \A c \in Components :
    \/ component[c].time_busy <= total_time
    \/ \E e \in Waiting : e.event_type = FINISH[c] /\ component[c].time_busy <= e.arrival_time

IInv ==
  /\ Typed /\ Good(event_queue) /\ InTime /\ OneRole /\ BusyWorks /\ OnePlace
  /\ Arrivals /\ Within

LEMMA EventTypesAre ==
  /\ EventTypes = {"SIMULATION_START", "JOB_ARRIVAL", "JOB_EXIT",
                   "JOB_CPU_START", "JOB_DISK_0_START", "JOB_DISK_1_START",
                   "JOB_CPU_FINISH", "JOB_DISK_0_FINISH", "JOB_DISK_1_FINISH"}
  /\ \A c \in Components :
       START[c] = IF c = "cpu0" THEN "JOB_CPU_START"
                  ELSE IF c = "disk0" THEN "JOB_DISK_0_START" ELSE "JOB_DISK_1_START"
  /\ \A c \in Components :
       FINISH[c] = IF c = "cpu0" THEN "JOB_CPU_FINISH"
                   ELSE IF c = "disk0" THEN "JOB_DISK_0_FINISH" ELSE "JOB_DISK_1_FINISH"
<1>1. Range(START) = {"JOB_CPU_START", "JOB_DISK_0_START", "JOB_DISK_1_START"}
  BY DEF Range, START
<1>2. Range(FINISH) = {"JOB_CPU_FINISH", "JOB_DISK_0_FINISH", "JOB_DISK_1_FINISH"}
  BY DEF Range, FINISH
<1>3. \A c \in Components :
       START[c] = IF c = "cpu0" THEN "JOB_CPU_START"
                  ELSE IF c = "disk0" THEN "JOB_DISK_0_START" ELSE "JOB_DISK_1_START"
  BY DEF START, Components
<1>4. \A c \in Components :
       FINISH[c] = IF c = "cpu0" THEN "JOB_CPU_FINISH"
                   ELSE IF c = "disk0" THEN "JOB_DISK_0_FINISH" ELSE "JOB_DISK_1_FINISH"
  BY DEF FINISH, Components
<1> QED
  BY <1>1, <1>2, <1>3, <1>4 DEF EventTypes

LEMMA Roles ==
  /\ \A e \in EventRecord : Role(e) \in Components \cup {"arrival", "exit"}
  /\ \A e \in EventRecord, c \in Components : Role(e) = c <=> e.event_type \in {START[c], FINISH[c]}
  /\ \A e \in EventRecord : Role(e) = "exit" <=> e.event_type = "JOB_EXIT"
  /\ \A e \in EventRecord : Role(e) = "arrival" <=> e.event_type \in {"SIMULATION_START", "JOB_ARRIVAL"}
<1>1. \A e \in EventRecord : e.event_type \in
        {"SIMULATION_START", "JOB_ARRIVAL", "JOB_EXIT",
                   "JOB_CPU_START", "JOB_DISK_0_START", "JOB_DISK_1_START",
                   "JOB_CPU_FINISH", "JOB_DISK_0_FINISH", "JOB_DISK_1_FINISH"}
  BY EventTypesAre DEF EventRecord
<1> QED
  BY <1>1, EventTypesAre DEF Role, Components

LEMMA EventFields ==
  ASSUME NEW type \in EventTypes, NEW p \in Nat, NEW t \in Nat, NEW e, e = Event(type, p, t)
  PROVE  /\ e.event_type = type /\ e.process = p /\ e.arrival_time = t
         /\ e \in EventRecord
  BY DEF Event, EventRecord

(* One event per role: at most five.                                       *)
LEMMA FiveRoles ==
  ASSUME Good(event_queue), OneRole
  PROVE  event_queue.size <= 5
<1>1. PICK n \in Nat : n = event_queue.size
  BY GoodType
<1>2. Agenda \in [1 .. n -> EventRecord]
  BY <1>1, GoodType DEF Agenda
<1> DEFINE f == [i \in 1 .. n |-> Role(Agenda[i])]
           R == Components \cup {"arrival", "exit"}
<1>3. f \in [1 .. n -> R]
  BY <1>2, Roles
<1>4. \A i, j \in 1 .. n : f[i] = f[j] => i = j
  <2>1. \A i \in 1 .. n : f[i] = Role(Agenda[i]) /\ Agenda[i] \in Waiting
    BY <1>2 DEF Waiting, Range
  <2>2. \A i, j \in 1 .. n : Agenda[i] = Agenda[j] => i = j
    BY <1>2 DEF Good, Distinct, Agenda
  <2> QED
    BY <2>1, <2>2 DEF OneRole
<1> HIDE DEF f
<1>5. f \in Injection(1 .. n, R)
  BY <1>3, <1>4, Fun_IsInj
<1>6. IsFiniteSet(R) /\ Cardinality(R) = 5
  <2>1. R = {"cpu0", "disk0", "disk1", "arrival", "exit"}
    BY DEF Components
  <2>2. IsFiniteSet({"cpu0"}) /\ Cardinality({"cpu0"}) = 1
    BY FS_Singleton
  <2>3. IsFiniteSet({"cpu0", "disk0"}) /\ Cardinality({"cpu0", "disk0"}) = 2
    <3>1. {"cpu0"} \cup {"disk0"} = {"cpu0", "disk0"} /\ "disk0" \notin {"cpu0"}
      OBVIOUS
    <3> QED
      BY <2>2, <3>1, FS_AddElement
  <2>4. IsFiniteSet({"cpu0", "disk0", "disk1"}) /\ Cardinality({"cpu0", "disk0", "disk1"}) = 3
    <3>1. /\ {"cpu0", "disk0"} \cup {"disk1"} = {"cpu0", "disk0", "disk1"}
          /\ "disk1" \notin {"cpu0", "disk0"}
      OBVIOUS
    <3> QED
      BY <2>3, <3>1, FS_AddElement
  <2>5. /\ IsFiniteSet({"cpu0", "disk0", "disk1", "arrival"})
        /\ Cardinality({"cpu0", "disk0", "disk1", "arrival"}) = 4
    <3>1. /\ {"cpu0", "disk0", "disk1"} \cup {"arrival"} = {"cpu0", "disk0", "disk1", "arrival"}
          /\ "arrival" \notin {"cpu0", "disk0", "disk1"}
      OBVIOUS
    <3> QED
      BY <2>4, <3>1, FS_AddElement
  <2>6. /\ IsFiniteSet({"cpu0", "disk0", "disk1", "arrival", "exit"})
        /\ Cardinality({"cpu0", "disk0", "disk1", "arrival", "exit"}) = 5
    <3>1. /\ {"cpu0", "disk0", "disk1", "arrival"} \cup {"exit"}
               = {"cpu0", "disk0", "disk1", "arrival", "exit"}
          /\ "exit" \notin {"cpu0", "disk0", "disk1", "arrival"}
      OBVIOUS
    <3> QED
      BY <2>5, <3>1, FS_AddElement
  <2> QED
    BY <2>1, <2>6
<1>7. Cardinality(1 .. n) = n
  BY FS_Interval
<1> QED
  BY <1>1, <1>5, <1>6, <1>7, FS_Injection

-----------------------------------------------------------------------------
(* What a turn finds and leaves.                                           *)

(* The events that wait when the first has been popped.                    *)
Others == Waiting \ {front(event_queue)}

LEMMA FrontFacts ==
  ASSUME IInv, Continues, NEW h, h = front(event_queue)
  PROVE  /\ event_queue.size > 0 /\ event_queue.size <= 5
         /\ h \in Waiting /\ h \in EventRecord
         /\ Waiting \subseteq EventRecord
         /\ Now = h.arrival_time /\ Job = h.process /\ Now \in Nat /\ Job \in Nat
         /\ total_time <= Now
         /\ Others = Waiting \ {h}
         /\ \A f \in Others : Now <= f.arrival_time /\ f.process # Job /\ Role(f) # Role(h)
         /\ \A f \in Others : f.event_type = "JOB_EXIT" => f.arrival_time = Now
         /\ h.event_type = "JOB_CPU_FINISH" => \A f \in Waiting : f.event_type # "JOB_EXIT"
         /\ Job \in processes
<1>1. event_queue.size > 0 /\ event_queue.size <= 5 /\ Good(event_queue)
  BY FiveRoles DEF IInv, Continues, get_size
<1>2. PICK q1 : q1 = pop(event_queue)
  OBVIOUS
<1>3. /\ h \in Waiting /\ h \in EventRecord
      /\ Range(Events(q1)) = Others
      /\ \A f \in Waiting : h.arrival_time <= f.arrival_time
      /\ \A f \in Others : f.process # h.process
      /\ h.event_type = "JOB_CPU_FINISH" => \A f \in Waiting : f.event_type # "JOB_EXIT"
  BY <1>1, <1>2, PopKeeps DEF Waiting, Agenda, Others
<1>4. Waiting \subseteq EventRecord
  BY <1>1, GoodType DEF Waiting, Agenda
<1>5. Now = h.arrival_time /\ Job = h.process /\ Now \in Nat /\ Job \in Nat
  BY <1>3 DEF Now, Job, EventRecord
<1>6. Others = Waiting \ {h}
  BY DEF Others
<1>7. total_time <= Now /\ total_time \in Nat
  BY <1>3, <1>5 DEF IInv, InTime, Typed
<1>8. ASSUME NEW f \in Others
      PROVE  /\ Now <= f.arrival_time /\ f.process # Job /\ Role(f) # Role(h)
             /\ f.event_type = "JOB_EXIT" => f.arrival_time = Now
  <2>1. f \in Waiting /\ f # h /\ f.arrival_time \in Nat
    BY <1>4, <1>6 DEF EventRecord
  <2>2. Role(f) # Role(h)
    BY <1>3, <2>1 DEF IInv, OneRole
  <2>3. Now <= f.arrival_time /\ f.process # Job
    BY <1>3, <1>5, <2>1
  <2>4. f.event_type = "JOB_EXIT" => f.arrival_time = total_time
    BY <2>1 DEF IInv, InTime
  <2> QED
    BY <1>5, <1>7, <2>1, <2>2, <2>3, <2>4
<1>9. Job \in processes
  BY <1>3, <1>5 DEF IInv, OnePlace
<1> QED
  BY <1>1, <1>3, <1>4, <1>5, <1>6, <1>7, <1>8, <1>9

(* An event that is pushed when those of V wait beside the others.         *)
LEMMA FitsNow ==
  ASSUME IInv, Continues, NEW V, NEW e \in EventRecord,
         Now <= e.arrival_time,
         \A f \in Others \cup V : e.process # f.process,
         e.event_type = "JOB_EXIT" => \A f \in Others \cup V : f.event_type # "JOB_CPU_FINISH",
         e.event_type = "JOB_CPU_FINISH" => \A f \in V : f.event_type # "JOB_EXIT"
  PROVE  Fits(e, Others \cup V)
<1>1. PICK h : h = front(event_queue)
  OBVIOUS
<1>2. \A f \in Others : f.event_type = "JOB_EXIT" => f.arrival_time = Now
  BY <1>1, FrontFacts
<1> QED
  BY <1>2 DEF Fits

LEMMA PopTail ==
  ASSUME NEW q, Good(q), q.size > 0, NEW S, S = Events(q)
  PROVE  Events(pop(q)) = Tail(S) /\ \A e : Contains(Tail(S), e) <=> e \in Range(Tail(S))
<1>1. PICK n \in Nat : n = q.size /\ n > 0
  BY GoodType
<1>2. S \in [1 .. n -> EventRecord]
  BY <1>1, GoodType
<1>3. PICK q1 : q1 = pop(q)
  OBVIOUS
<1>4. Ordered(EventRecord, q1) /\ q1.size = n - 1 /\ \A i \in 1 .. n - 1 : Events(q1)[i] = S[i + 1]
  BY <1>1, <1>3, PopRemoves DEF Good
<1>5. Events(q1) \in [1 .. n - 1 -> EventRecord]
  <2>1. q1 \in Queue(EventRecord) /\ LinkedBy(q1, Walk(q1))
    BY <1>4 DEF Ordered, Linked
  <2> QED
    BY <1>4, <2>1, EventsValues
<1>6. PICK t : t = Tail(S)
  OBVIOUS
<1>7. S \in Seq(EventRecord) /\ Len(S) = n
  BY <1>1, <1>2
<1>8. /\ t \in Seq(EventRecord) /\ Len(t) = n - 1 /\ DOMAIN t = 1 .. n - 1
      /\ \A i \in 1 .. n - 1 : t[i] = S[i + 1]
  BY <1>1, <1>6, <1>7
<1>9. t \in [1 .. n - 1 -> EventRecord]
  BY <1>8
<1>10. Events(q1) = t
  <2>1. PICK r : r = Events(q1)
    OBVIOUS
  <2>2. r \in [1 .. n - 1 -> EventRecord] /\ \A i \in 1 .. n - 1 : r[i] = t[i]
    BY <1>4, <1>5, <1>8, <2>1
  <2>3. r = t
    BY <1>9, <2>2
  <2> QED
    BY <2>1, <2>3
<1>11. \A e : Contains(t, e) <=> e \in Range(t)
  BY <1>8 DEF Contains, Range
<1> QED
  BY <1>3, <1>6, <1>10, <1>11

LEMMA TurnFacts ==
  ASSUME IInv, NEW type, NEW es, Turn(type, es), NEW X, NEW Y, Pushing(es, X, Y),
         AllFit(X, Others), AllFit(Y, Others \cup X)
  PROVE  /\ Good(event_queue') /\ Waiting' = Others \cup X \cup Y
         /\ total_time' = Now /\ Continues
         /\ front(event_queue).event_type = type
         /\ status' = status /\ status = "running"
         /\ TurnOrder
<1>1. PICK h : h = front(event_queue)
  OBVIOUS
<1>2. PICK q : q = event_queue
  OBVIOUS
<1>3. PICK q1 : q1 = FoldLeft(push, pop(q), es)
  OBVIOUS
<1>4. PICK W : W = Others
  OBVIOUS
<1>5. /\ Continues /\ total_time' = Now /\ q1 = event_queue'
      /\ front(event_queue).event_type = type
      /\ status' = status /\ status = "running"
  BY <1>2, <1>3 DEF Turn
<1>6. q.size > 0 /\ q.size <= 5
  BY <1>1, <1>2, <1>5, FrontFacts
<1>7. Good(q) /\ W = Range(Events(q)) \ {h} /\ h = front(q)
  BY <1>1, <1>2, <1>4 DEF IInv, Others, Waiting, Agenda
<1>8. AllFit(X, W) /\ AllFit(Y, W \cup X)
  BY <1>4
<1>9. /\ Good(q1) /\ Range(Events(q1)) = W \cup X \cup Y
      /\ InSameOrder(Events(pop(q)), Events(q1)) /\ NewBehind(W, Events(q1))
  <2>1. AfterTurn(pop(q), q1, W, W \cup X \cup Y)
    BY <1>3, <1>6, <1>7, <1>8, TurnKeeps
  <2> QED
    BY <2>1 DEF AfterTurn
<1>10. Waiting' = W \cup X \cup Y
  BY <1>5, <1>9 DEF Waiting, Agenda
<1>11. TurnOrder
  <2>1. PICK w, a, z : w = Tail(Agenda) /\ a = Agenda' /\ z = pop(q)
    OBVIOUS
  <2>2. Events(z) = w /\ \A e : Contains(w, e) <=> e \in Range(w)
    <3>1. PICK S : S = Events(q)
      OBVIOUS
    <3>2. Agenda = S
      BY <1>2, <3>1 DEF Agenda
    <3> QED
      BY <1>6, <1>7, <2>1, <3>1, <3>2, PopTail
  <2>3. Range(w) = W
    BY <1>6, <1>7, <2>1, <2>2, PopKeeps
  <2>4. a = Events(q1)
    BY <1>5, <2>1 DEF Agenda
  <2>5. InSameOrder(w, a) /\ NewBehind(Range(w), a)
    BY <1>9, <2>1, <2>2, <2>3, <2>4
  <2>6. total_time <= total_time'
    BY <1>1, <1>5, FrontFacts
  <2>7. /\ \A i, j \in DOMAIN w : i <= j =>
             \E k, l \in DOMAIN a : k <= l /\ a[k] = w[i] /\ a[l] = w[j]
        /\ \A i, j \in DOMAIN a :
             i < j /\ ~Contains(w, a[i]) /\ Contains(w, a[j]) => a[i].arrival_time < a[j].arrival_time
    BY <2>2, <2>5 DEF InSameOrder, NewBehind
  <2> QED
    BY <2>1, <2>6, <2>7 DEF TurnOrder
<1> QED
  BY <1>4, <1>5, <1>9, <1>10, <1>11

-----------------------------------------------------------------------------
(* The parts of the handlers.                                              *)

(* The process p comes to the CPU k, which is k1 then.                     *)
Joins(k, k1, p) ==
  /\ k1 \in Station /\ k1.busy /\ k1.time_busy = k.time_busy /\ IsInjective(k1.Q)
  /\ \/ /\ k.busy /\ AtMostOne(JoinEvents(k, p), {})
        /\ Range(k1.Q) = Range(k.Q) \cup {p}
     \/ /\ ~k.busy /\ AtMostOne(JoinEvents(k, p), {Event(START["cpu0"], p, Now)})
        /\ Range(k.Q) = {} /\ Range(k1.Q) = {}

LEMMA JoinFacts ==
  ASSUME NEW k \in Station, ~k.busy => k.Q = <<>>, IsInjective(k.Q),
         NEW p \in Nat, p \notin Range(k.Q), NEW k1, k1 = Joined(k, p)
  PROVE  Joins(k, k1, p)
<1>1. /\ k.Q \in Seq(Nat)
      /\ k = [busy |-> k.busy, Q |-> k.Q, time_busy |-> k.time_busy,
              jobs_processed |-> k.jobs_processed, max_time |-> k.max_time]
      /\ k.busy \in BOOLEAN
  BY DEF Station
<1>2. CASE k.busy
  <2>1. Taken(k)
    BY <1>2 DEF Taken
  <2>2. PICK t : t = Append(k.Q, p)
    OBVIOUS
  <2>3. k1 = [k EXCEPT !.Q = t]
    BY <2>1, <2>2 DEF Joined
  <2>4. k1 \in Station /\ k1.busy = k.busy /\ k1.time_busy = k.time_busy /\ k1.Q = t
    <3>1. t \in Seq(Nat)
      BY <1>1, <2>2, AppendRange
    <3> QED
      BY <2>3, <3>1 DEF Station
  <2>5. Range(t) = Range(k.Q) \cup {p} /\ IsInjective(t)
    <3>1. PICK s \in Seq(Nat) : s = k.Q
      BY <1>1
    <3>2. t = Append(s, p) /\ IsInjective(s) /\ p \notin Range(s)
      BY <2>2, <3>1
    <3>3. OneMore(t, s, p)
      BY <3>2, AppendRange
    <3> QED
      BY <3>1, <3>2, <3>3 DEF OneMore
  <2>6. AtMostOne(JoinEvents(k, p), {})
    BY <2>1 DEF AtMostOne, JoinEvents
  <2> QED
    BY <1>2, <2>4, <2>5, <2>6 DEF Joins
<1>3. CASE ~k.busy
  <2>1. ~Taken(k) /\ k.Q = <<>>
    BY <1>3 DEF Taken
  <2>2. k1 = [k EXCEPT !.busy = TRUE]
    BY <2>1 DEF Joined
  <2>3. k1 \in Station /\ k1.busy /\ k1.time_busy = k.time_busy /\ k1.Q = <<>>
    BY <2>1, <2>2 DEF Station
  <2>4. Range(<<>>) = {}
    BY DEF Range
  <2>5. AtMostOne(JoinEvents(k, p), {Event(START["cpu0"], p, Now)})
    BY <2>1 DEF AtMostOne, JoinEvents
  <2> QED
    BY <1>3, <2>1, <2>3, <2>4, <2>5 DEF Joins
<1> QED
  BY <1>2, <1>3

(* The component c goes from k to k1: free, or with the next of its queue. *)
MovedAlong(c, k, k1) ==
  \/ /\ ~k1.busy /\ AtMostOne(AdvanceEvents(c), {})
     /\ k1.Q = <<>> /\ Range(k.Q) = {} /\ Range(k1.Q) = {}
  \/ /\ k1.busy
     /\ \E p \in Nat : /\ AtMostOne(AdvanceEvents(c), {Event(START[c], p, Now)})
                       /\ p \in Range(k.Q) /\ Range(k1.Q) = Range(k.Q) \ {p}

LEMMA AdvanceFacts ==
  ASSUME NEW c, NEW k, k = component[c], k \in Station, IsInjective(k.Q),
         NEW k1, k1 = Advanced(k)
  PROVE  /\ k1 \in Station /\ k1.time_busy = k.time_busy /\ IsInjective(k1.Q)
         /\ MovedAlong(c, k, k1)
<1>1. /\ k.Q \in Seq(Nat) /\ k.jobs_processed \in Nat /\ k.time_busy \in Nat /\ k.max_time \in Nat
      /\ k = [busy |-> k.busy, Q |-> k.Q, time_busy |-> k.time_busy,
              jobs_processed |-> k.jobs_processed, max_time |-> k.max_time]
  BY DEF Station
<1>2. CASE k.Q = <<>>
  <2>1. k1 = [busy |-> FALSE, Q |-> <<>>, time_busy |-> k.time_busy,
              jobs_processed |-> k.jobs_processed + 1, max_time |-> k.max_time]
    BY <1>1, <1>2 DEF Advanced
  <2>2. k1 \in Station /\ ~k1.busy /\ k1.time_busy = k.time_busy /\ k1.Q = <<>>
    BY <1>1, <2>1 DEF Station
  <2>3. Range(<<>>) = {}
    BY DEF Range
  <2>4. AtMostOne(AdvanceEvents(c), {})
    BY <1>2 DEF AtMostOne, AdvanceEvents
  <2> QED
    BY <1>2, <2>2, <2>3, <2>4 DEF MovedAlong
<1>3. CASE k.Q # <<>>
  <2>1. PICK t, p : t = Tail(k.Q) /\ p = Head(k.Q)
    OBVIOUS
  <2>2. /\ t \in Seq(Nat) /\ p \in Nat /\ p \in Range(k.Q)
        /\ Range(t) = Range(k.Q) \ {p} /\ IsInjective(t)
    <3>1. PICK s \in Seq(Nat) : s = k.Q
      BY <1>1
    <3>2. t = Tail(s) /\ p = Head(s) /\ IsInjective(s) /\ s # <<>>
      BY <1>3, <2>1, <3>1
    <3>3. /\ t \in Seq(Nat) /\ p \in Nat /\ p \in Range(s)
          /\ Range(t) = Range(s) \ {p} /\ IsInjective(t)
      BY <3>2, TailRange
    <3> QED
      BY <3>1, <3>3
  <2>3. k1 = [busy |-> TRUE, Q |-> t, time_busy |-> k.time_busy,
              jobs_processed |-> k.jobs_processed + 1, max_time |-> k.max_time]
    BY <1>1, <1>3, <2>1 DEF Advanced
  <2>4. k1 \in Station /\ k1.busy /\ k1.time_busy = k.time_busy /\ k1.Q = t
    BY <1>1, <2>2, <2>3 DEF Station
  <2>5. AtMostOne(AdvanceEvents(c), {Event(START[c], p, Now)})
    BY <1>3, <2>1 DEF AtMostOne, AdvanceEvents
  <2> QED
    BY <2>2, <2>4, <2>5 DEF MovedAlong
<1> QED
  BY <1>2, <1>3

-----------------------------------------------------------------------------
(* The network of queues: whom a component serves.                         *)

LEMMA MinOfOne ==
  ASSUME NEW I \in SUBSET Nat, \A i, j \in I : i = j, NEW i \in I
  PROVE  Min(I) = i
<1>1. \A y \in I : i <= y
  OBVIOUS
<1> QED
  BY <1>1 DEF Min

(* I has the places in S of the events of a kind.                          *)
PlacesOf(I, S, types) == \A i : i \in I <=> i \in DOMAIN S /\ S[i].event_type \in types

OnePerRole(S) == \A e, f \in Range(S) : Role(e) = Role(f) => e = f

(* j is served at c.                                                       *)
ServedIn(S, c, j) ==
  /\ \A e \in Range(S) : Role(e) = c => j = e.process
  /\ (\A e \in Range(S) : Role(e) # c) => j = -1

LEMMA WorkerIn ==
  ASSUME NEW q, Good(q), NEW S, S = Events(q), NEW c \in Components,
         OnePerRole(S),
         NEW I, PlacesOf(I, S, {START[c], FINISH[c]}),
         NEW j, j = IF I = {} THEN -1 ELSE S[Min(I)].process
  PROVE  ServedIn(S, c, j)
<1>1. PICK n \in Nat : S \in [1 .. n -> EventRecord] /\ Distinct(S)
  BY GoodType DEF Good
<1>2. \A i : i \in I <=> i \in 1 .. n /\ Role(S[i]) = c
  BY <1>1, Roles DEF PlacesOf
<1>3. \A i \in 1 .. n : S[i] \in Range(S)
  BY <1>1 DEF Range
<1>4. \A a, b \in I : a = b
  BY <1>1, <1>2, <1>3 DEF Distinct, OnePerRole
<1>5. ASSUME NEW e \in Range(S), Role(e) = c
      PROVE  j = e.process
  <2>1. PICK i \in 1 .. n : e = S[i]
    BY <1>1 DEF Range
  <2>2. i \in I /\ I \subseteq Nat
    BY <1>2, <1>5, <2>1
  <2>3. Min(I) = i
    BY <1>4, <2>2, MinOfOne
  <2> QED
    BY <2>1, <2>2, <2>3
<1>6. (\A e \in Range(S) : Role(e) # c) => I = {}
  BY <1>2, <1>3
<1> QED
  BY <1>5, <1>6 DEF ServedIn

LEMMA ServesNow ==
  ASSUME IInv, NEW c \in Components
  PROVE  /\ \A e \in Waiting : Role(e) = c => JobOf(c) = e.process
         /\ (\A e \in Waiting : Role(e) # c) => JobOf(c) = -1
<1>1. PICK q, S, I : q = event_queue /\ S = Events(q) /\ I = For(c)
  OBVIOUS
<1>2. Agenda = S /\ Waiting = Range(S) /\ Good(q)
  BY <1>1 DEF Agenda, Waiting, IInv
<1>3. PlacesOf(I, S, {START[c], FINISH[c]})
  BY <1>1, <1>2 DEF For, Pending, PlacesOf
<1>4. OnePerRole(S)
  BY <1>2 DEF IInv, OneRole, OnePerRole
<1>5. PICK j : j = IF I = {} THEN -1 ELSE S[Min(I)].process
  OBVIOUS
<1>6. JobOf(c) = j
  BY <1>1, <1>2, <1>5 DEF JobOf
<1>7. ServedIn(S, c, j)
  BY <1>1, <1>2, <1>3, <1>4, <1>5, WorkerIn
<1> QED
  BY <1>2, <1>6, <1>7 DEF ServedIn

LEMMA ServesThen ==
  ASSUME IInv', NEW c \in Components
  PROVE  /\ \A e \in Waiting' : Role(e) = c => JobOf(c)' = e.process
         /\ (\A e \in Waiting' : Role(e) # c) => JobOf(c)' = -1
<1>1. PICK q, S, I : q = event_queue' /\ S = Events(q) /\ I = For(c)'
  OBVIOUS
<1>2. Agenda' = S /\ Waiting' = Range(S) /\ Good(q)
  BY <1>1 DEF Agenda, Waiting, IInv
<1>3. PlacesOf(I, S, {START[c], FINISH[c]})
  BY <1>1, <1>2 DEF For, Pending, PlacesOf
<1>4. OnePerRole(S)
  BY <1>2 DEF IInv, OneRole, OnePerRole
<1>5. PICK j : j = IF I = {} THEN -1 ELSE S[Min(I)].process
  OBVIOUS
<1>6. JobOf(c)' = j
  BY <1>1, <1>2, <1>5 DEF JobOf
<1>7. ServedIn(S, c, j)
  BY <1>1, <1>2, <1>3, <1>4, <1>5, WorkerIn
<1> QED
  BY <1>2, <1>6, <1>7 DEF ServedIn

LEMMA ServesNext ==
  ASSUME IInv, Continues, IInv', NEW N, Waiting' = Others \cup N, NEW c \in Components
  PROVE  /\ \A e \in N : Role(e) = c => JobOf(c)' = e.process
         /\ (\A e \in N : Role(e) # c) =>
              JobOf(c)' = IF Role(front(event_queue)) = c THEN -1 ELSE JobOf(c)
         /\ Role(front(event_queue)) = c => JobOf(c) = Job
<1>1. PICK h : h = front(event_queue)
  OBVIOUS
<1>2. /\ h \in Waiting /\ Job = h.process /\ Others = Waiting \ {h}
      /\ \A f \in Others : Role(f) # Role(h)
  BY <1>1, FrontFacts
<1>3. \A e \in N : Role(e) = c => JobOf(c)' = e.process
  BY ServesThen
<1>4. Role(h) = c => JobOf(c) = Job
  BY <1>2, ServesNow
<1>5. ASSUME \A e \in N : Role(e) # c
      PROVE  JobOf(c)' = IF Role(h) = c THEN -1 ELSE JobOf(c)
  <2>1. CASE \E f \in Others : Role(f) = c
    <3>1. PICK f \in Others : Role(f) = c
      BY <2>1
    <3>2. JobOf(c)' = f.process /\ JobOf(c) = f.process /\ Role(h) # c
      BY <1>2, <3>1, ServesNow, ServesThen
    <3> QED
      BY <3>2
  <2>2. CASE \A f \in Others : Role(f) # c
    <3>1. JobOf(c)' = -1
      BY <1>5, <2>2, ServesThen
    <3>2. Role(h) # c => JobOf(c) = -1
      BY <1>2, <2>2, ServesNow
    <3> QED
      BY <3>1, <3>2
  <2> QED
    BY <2>1, <2>2
<1> QED
  BY <1>1, <1>3, <1>4, <1>5

(* A component serves nobody exactly when it is not busy.                  *)
LEMMA FreeServesNone ==
  ASSUME IInv, NEW c \in Components
  PROVE  /\ component[c].busy => JobOf(c) \in Nat
         /\ ~component[c].busy => JobOf(c) = -1 /\ component[c].Q = <<>>
<1>1. Waiting \subseteq EventRecord
  <2>1. PICK q : q = event_queue
    OBVIOUS
  <2>2. Good(q) /\ Waiting = Range(Events(q))
    BY <2>1 DEF IInv, Waiting, Agenda
  <2> QED
    BY <2>2, GoodType
<1>2. component[c].busy => JobOf(c) \in Nat
  <2>1. ASSUME component[c].busy
        PROVE  JobOf(c) \in Nat
    <3>1. PICK e \in Waiting : Role(e) = c
      BY <2>1 DEF IInv, BusyWorks
    <3> QED
      BY <1>1, <3>1, ServesNow DEF EventRecord
  <2> QED
    BY <2>1
<1>3. ~component[c].busy => JobOf(c) = -1 /\ component[c].Q = <<>>
  BY ServesNow DEF IInv, BusyWorks
<1> QED
  BY <1>2, <1>3

(* How many have arrived: all that were made but the next.                 *)
Arrived == IF NextArrival = {} THEN 0 ELSE Agenda[Min(NextArrival)].process - 1

ArrivingIn(S, id) ==
  /\ \E x \in Range(S) : Role(x) = "arrival"
  /\ \A e \in Range(S) : e.event_type = "JOB_ARRIVAL" => e.process = id - 1 /\ id > 1
  /\ \A e \in Range(S) : e.event_type = "SIMULATION_START" => id = 1

LEMMA ArrivalIn ==
  ASSUME NEW q, Good(q), NEW S, S = Events(q), NEW id \in Nat,
         OnePerRole(S), ArrivingIn(S, id),
         NEW I, PlacesOf(I, S, {"JOB_ARRIVAL"}),
         NEW j, j = IF I = {} THEN 0 ELSE S[Min(I)].process - 1
  PROVE  j = IF id = 1 THEN 0 ELSE id - 2
<1>1. PICK n \in Nat : S \in [1 .. n -> EventRecord] /\ Distinct(S)
  BY GoodType DEF Good
<1>2. \A i : i \in I <=> i \in 1 .. n /\ S[i].event_type = "JOB_ARRIVAL"
  BY <1>1 DEF PlacesOf
<1>3. \A i \in 1 .. n : S[i] \in Range(S)
  BY <1>1 DEF Range
<1>a. PICK x \in Range(S) : Role(x) = "arrival"
  BY DEF ArrivingIn
<1>b. /\ \A e \in Range(S) : e.event_type = "JOB_ARRIVAL" => e.process = id - 1 /\ id > 1
      /\ \A e \in Range(S) : e.event_type = "SIMULATION_START" => id = 1
  BY DEF ArrivingIn
<1>4. PICK m \in 1 .. n : x = S[m]
  BY <1>1, <1>a DEF Range
<1>5. x.event_type \in {"SIMULATION_START", "JOB_ARRIVAL"}
  BY <1>1, <1>4, <1>a, Roles
<1>6. CASE x.event_type = "SIMULATION_START"
  <2>1. I = {}
    BY <1>2, <1>3, <1>6, <1>a, <1>b
  <2> QED
    BY <1>6, <1>a, <1>b, <2>1
<1>7. CASE x.event_type = "JOB_ARRIVAL"
  <2>1. m \in I /\ I \subseteq Nat
    BY <1>2, <1>4, <1>7
  <2>2. \A i \in I : Role(S[i]) = "arrival"
    BY <1>1, <1>2, Roles
  <2>3. \A a, b \in I : a = b
    BY <1>1, <1>2, <1>3, <2>2 DEF Distinct, OnePerRole
  <2>4. Min(I) = m
    BY <2>1, <2>3, MinOfOne
  <2> QED
    BY <1>4, <1>7, <1>a, <1>b, <2>1, <2>4
<1> QED
  BY <1>5, <1>6, <1>7

LEMMA ArrivedNow ==
  ASSUME IInv
  PROVE  Arrived = IF IDcounter = 1 THEN 0 ELSE IDcounter - 2
<1>1. PICK q, S, I, id : q = event_queue /\ S = Events(q) /\ I = NextArrival /\ id = IDcounter
  OBVIOUS
<1>2. Agenda = S /\ Waiting = Range(S) /\ Good(q) /\ id \in Nat
  BY <1>1 DEF Agenda, Waiting, IInv, Typed
<1>3. PlacesOf(I, S, {"JOB_ARRIVAL"})
  BY <1>1, <1>2 DEF NextArrival, Pending, PlacesOf
<1>4. ArrivingIn(S, id)
  BY <1>1, <1>2 DEF IInv, Arrivals, ArrivingIn
<1>5. OnePerRole(S)
  BY <1>2 DEF IInv, OneRole, OnePerRole
<1>6. PICK j : j = IF I = {} THEN 0 ELSE S[Min(I)].process - 1
  OBVIOUS
<1>7. Arrived = j
  BY <1>1, <1>2, <1>6 DEF Arrived
<1>8. j = IF id = 1 THEN 0 ELSE id - 2
  BY <1>1, <1>2, <1>3, <1>4, <1>5, <1>6, ArrivalIn
<1> QED
  BY <1>1, <1>7, <1>8

LEMMA ArrivedThen ==
  ASSUME IInv'
  PROVE  Arrived' = IF IDcounter' = 1 THEN 0 ELSE IDcounter' - 2
<1>1. PICK q, S, I, id : q = event_queue' /\ S = Events(q) /\ I = NextArrival' /\ id = IDcounter'
  OBVIOUS
<1>2. Agenda' = S /\ Waiting' = Range(S) /\ Good(q) /\ id \in Nat
  BY <1>1 DEF Agenda, Waiting, IInv, Typed
<1>3. PlacesOf(I, S, {"JOB_ARRIVAL"})
  BY <1>1, <1>2 DEF NextArrival, Pending, PlacesOf
<1>4. ArrivingIn(S, id)
  BY <1>1, <1>2 DEF IInv, Arrivals, ArrivingIn
<1>5. OnePerRole(S)
  BY <1>2 DEF IInv, OneRole, OnePerRole
<1>6. PICK j : j = IF I = {} THEN 0 ELSE S[Min(I)].process - 1
  OBVIOUS
<1>7. Arrived' = j
  BY <1>1, <1>2, <1>6 DEF Arrived
<1>8. j = IF id = 1 THEN 0 ELSE id - 2
  BY <1>1, <1>2, <1>3, <1>4, <1>5, <1>6, ArrivalIn
<1> QED
  BY <1>1, <1>7, <1>8

Serving == [c \in Components |-> JobOf(c)]
Line == [c \in Components |-> component[c].Q]

LEMMA NetworkParts ==
  /\ Network!vars = <<Arrived, Serving, Line>>
  /\ Network!State = [serving |-> Serving, line |-> Line]
  /\ \A st : Network!Become(st) <=> Serving' = st.serving /\ Line' = st.line
<1>1. Network!vars = <<Arrived, Serving, Line>>
  BY DEF Network!vars, Arrived, Serving, Line
<1>2. Network!State = [serving |-> Serving, line |-> Line]
  BY DEF Network!State, Serving, Line
<1>3. \A st : Network!Become(st) <=> Serving' = st.serving /\ Line' = st.line
  BY DEF Network!Become, Serving, Line
<1> QED
  BY <1>1, <1>2, <1>3

(* What a network step does to one station.                                *)
Stays(c) == JobOf(c)' = JobOf(c) /\ component'[c].Q = component[c].Q
TakesIn(c, p) ==
  IF JobOf(c) = -1 THEN JobOf(c)' = p /\ component'[c].Q = component[c].Q
  ELSE JobOf(c)' = JobOf(c) /\ component'[c].Q = Append(component[c].Q, p)
MovesOn(c) ==
  IF component[c].Q = <<>> THEN JobOf(c)' = -1 /\ component'[c].Q = component[c].Q
  ELSE JobOf(c)' = Head(component[c].Q) /\ component'[c].Q = Tail(component[c].Q)

Simulated == Network!Next \/ UNCHANGED Network!vars

LEMMA SimulatesNothing ==
  ASSUME Arrived' = Arrived, \A c \in Components : Stays(c)
  PROVE  Simulated
<1>1. Serving' = Serving /\ Line' = Line
  BY DEF Serving, Line, Stays
<1>2. Network!vars' = <<Arrived', Serving', Line'>>
  BY DEF Network!vars, Arrived, Serving, Line
<1> QED
  BY <1>1, <1>2, NetworkParts DEF Simulated

AfterJoin(f, g, s, p) ==
  [serving |-> IF f[s] = -1 THEN [f EXCEPT ![s] = p] ELSE f,
   line |-> IF f[s] = -1 THEN g ELSE [g EXCEPT ![s] = Append(@, p)]]

AfterFinish(f, g, s) ==
  [serving |-> [f EXCEPT ![s] = IF g[s] = <<>> THEN -1 ELSE Head(g[s])],
   line |-> IF g[s] = <<>> THEN g ELSE [g EXCEPT ![s] = Tail(@)]]

LEMMA JoinedStation ==
  ASSUME NEW f, NEW g, NEW s, NEW p, NEW st, st = [serving |-> f, line |-> g],
         NEW st1, st1 = Network!Join(st, s, p)
  PROVE  st1 = AfterJoin(f, g, s, p)
<1>1. st.serving = f /\ st.line = g
  OBVIOUS
<1>2. CASE f[s] = -1
  <2>1. st1 = [st EXCEPT !.serving[s] = p]
    BY <1>1, <1>2 DEF Network!Join
  <2> QED
    BY <1>2, <2>1 DEF AfterJoin
<1>3. CASE f[s] # -1
  <2>1. st1 = [st EXCEPT !.line[s] = Append(@, p)]
    BY <1>1, <1>3 DEF Network!Join
  <2> QED
    BY <1>3, <2>1 DEF AfterJoin
<1> QED
  BY <1>2, <1>3

LEMMA FinishedStation ==
  ASSUME NEW f, NEW g, NEW s, NEW st, st = [serving |-> f, line |-> g],
         NEW st1, st1 = Network!Finished(st, s)
  PROVE  st1 = AfterFinish(f, g, s)
<1>1. st.serving = f /\ st.line = g
  OBVIOUS
<1>2. CASE g[s] = <<>>
  <2>1. st1 = [st EXCEPT !.serving[s] = -1]
    BY <1>1, <1>2 DEF Network!Finished
  <2> QED
    BY <1>2, <2>1 DEF AfterFinish
<1>3. CASE g[s] # <<>>
  <2>1. st1 = [st EXCEPT !.serving[s] = Head(st.line[s]), !.line[s] = Tail(@)]
    BY <1>1, <1>3 DEF Network!Finished
  <2> QED
    BY <1>3, <2>1 DEF AfterFinish
<1> QED
  BY <1>2, <1>3

LEMMA SimulatesArrival ==
  ASSUME NEW p, p = Arrived + 1, Arrived' = p, TakesIn("cpu0", p),
         \A c \in Components \ {"cpu0"} : Stays(c)
  PROVE  Simulated
<1>1. PICK f, g, st, st1 : /\ f = Serving /\ g = Line /\ st = [serving |-> f, line |-> g]
                           /\ st1 = Network!Join(st, "cpu0", p)
  OBVIOUS
<1>2. st1 = [serving |-> IF f["cpu0"] = -1 THEN [f EXCEPT !["cpu0"] = p] ELSE f,
             line |-> IF f["cpu0"] = -1 THEN g ELSE [g EXCEPT !["cpu0"] = Append(@, p)]]
  BY <1>1, JoinedStation DEF AfterJoin
<1>3. "cpu0" \in Components
  BY DEF Components
<1>4. Serving' = st1.serving /\ Line' = st1.line
  <2>1. f["cpu0"] = JobOf("cpu0") /\ g["cpu0"] = component["cpu0"].Q
    BY <1>1, <1>3 DEF Serving, Line
  <2>2. CASE JobOf("cpu0") = -1
    <3>1. st1.serving = [f EXCEPT !["cpu0"] = p] /\ st1.line = g
      BY <1>2, <2>1, <2>2
    <3>2. Serving' = [f EXCEPT !["cpu0"] = p] /\ Line' = g
      BY <1>1, <1>3, <2>2 DEF Serving, Line, TakesIn, Stays
    <3> QED
      BY <3>1, <3>2
  <2>3. CASE JobOf("cpu0") # -1
    <3>1. st1.serving = f /\ st1.line = [g EXCEPT !["cpu0"] = Append(@, p)]
      BY <1>2, <2>1, <2>3
    <3>2. Serving' = f /\ Line' = [g EXCEPT !["cpu0"] = Append(@, p)]
      BY <1>1, <1>3, <2>1, <2>3 DEF Serving, Line, TakesIn, Stays
    <3> QED
      BY <3>1, <3>2
  <2> QED
    BY <2>2, <2>3
<1>5. /\ Serving' = Network!Join(Network!State, "cpu0", Arrived + 1).serving
      /\ Line' = Network!Join(Network!State, "cpu0", Arrived + 1).line
  <2>1. Network!State = st
    BY <1>1, NetworkParts
  <2>2. Network!Join(Network!State, "cpu0", Arrived + 1) = st1
    BY <1>1, <2>1
  <2> QED
    BY <1>4, <2>2
<1>6. Arrived' = Arrived + 1
  OBVIOUS
<1>7. Network!Arrive
  BY <1>5, <1>6 DEF Network!Arrive, Network!Become, Arrived, Serving, Line
<1> QED
  BY <1>7 DEF Simulated, Network!Next

LEMMA SimulatesEnd ==
  ASSUME JobOf("cpu0") # -1, Arrived' = Arrived, MovesOn("cpu0"),
         \A c \in Components \ {"cpu0"} : Stays(c)
  PROVE  Simulated
<1>1. PICK f, g, st, st1 : /\ f = Serving /\ g = Line /\ st = [serving |-> f, line |-> g]
                           /\ st1 = Network!Finished(st, "cpu0")
  OBVIOUS
<1>2. st1 = [serving |-> [f EXCEPT !["cpu0"] = IF g["cpu0"] = <<>> THEN -1 ELSE Head(g["cpu0"])],
             line |-> IF g["cpu0"] = <<>> THEN g ELSE [g EXCEPT !["cpu0"] = Tail(@)]]
  <2>1. st1 = AfterFinish(f, g, "cpu0")
    BY <1>1, FinishedStation
  <2> QED
    BY <2>1 DEF AfterFinish
<1>3. "cpu0" \in Components
  BY DEF Components
<1>4. Serving' = st1.serving /\ Line' = st1.line
  <2>1. f["cpu0"] = JobOf("cpu0") /\ g["cpu0"] = component["cpu0"].Q
    BY <1>1, <1>3 DEF Serving, Line
  <2>2. CASE component["cpu0"].Q = <<>>
    <3>1. st1.serving = [f EXCEPT !["cpu0"] = -1] /\ st1.line = g
      BY <1>2, <2>1, <2>2
    <3>2. Serving' = [f EXCEPT !["cpu0"] = -1] /\ Line' = g
      BY <1>1, <1>3, <2>2 DEF Serving, Line, MovesOn, Stays
    <3> QED
      BY <3>1, <3>2
  <2>3. CASE component["cpu0"].Q # <<>>
    <3>1. /\ st1.serving = [f EXCEPT !["cpu0"] = Head(g["cpu0"])]
          /\ st1.line = [g EXCEPT !["cpu0"] = Tail(@)]
      BY <1>2, <2>1, <2>3
    <3>2. /\ Serving' = [f EXCEPT !["cpu0"] = Head(g["cpu0"])]
          /\ Line' = [g EXCEPT !["cpu0"] = Tail(@)]
      BY <1>1, <1>3, <2>1, <2>3 DEF Serving, Line, MovesOn, Stays
    <3> QED
      BY <3>1, <3>2
  <2> QED
    BY <2>2, <2>3
<1>5. /\ Serving' = Network!Finished(Network!State, "cpu0").serving
      /\ Line' = Network!Finished(Network!State, "cpu0").line
  <2>1. Network!State = st
    BY <1>1, NetworkParts
  <2>2. Network!Finished(Network!State, "cpu0") = st1
    BY <1>1, <2>1
  <2> QED
    BY <1>4, <2>2
<1>6. Serving["cpu0"] # -1
  BY <1>3 DEF Serving
<1>7. Network!End
  BY <1>5, <1>6 DEF Network!End, Network!Become, Arrived, Serving, Line
<1> QED
  BY <1>7 DEF Simulated, Network!Next

LEMMA SimulatesDisk ==
  ASSUME NEW d \in Disks, NEW p, p = JobOf("cpu0"), p # -1, Arrived' = Arrived,
         MovesOn("cpu0"), TakesIn(d, p), \A c \in Components \ {"cpu0", d} : Stays(c),
         Network!Choice(d)
  PROVE  Simulated
<1>1. PICK f, g, st : f = Serving /\ g = Line /\ st = [serving |-> f, line |-> g]
  OBVIOUS
<1>2. PICK f1, g1 :
        /\ f1 = [f EXCEPT !["cpu0"] = IF g["cpu0"] = <<>> THEN -1 ELSE Head(g["cpu0"])]
        /\ g1 = IF g["cpu0"] = <<>> THEN g ELSE [g EXCEPT !["cpu0"] = Tail(@)]
  OBVIOUS
<1>3. PICK st1, st2 : /\ st1 = Network!Finished(st, "cpu0")
                      /\ st2 = Network!Join(st1, d, p)
  OBVIOUS
<1>4. st1 = [serving |-> f1, line |-> g1]
  <2>1. st1 = AfterFinish(f, g, "cpu0")
    BY <1>1, <1>3, FinishedStation
  <2> QED
    BY <1>2, <2>1 DEF AfterFinish
<1>5. st2 = [serving |-> IF f1[d] = -1 THEN [f1 EXCEPT ![d] = p] ELSE f1,
             line |-> IF f1[d] = -1 THEN g1 ELSE [g1 EXCEPT ![d] = Append(@, p)]]
  <2>1. st2 = AfterJoin(f1, g1, d, p)
    BY <1>3, <1>4, JoinedStation
  <2> QED
    BY <2>1 DEF AfterJoin
<1>6. "cpu0" \in Components /\ d \in Components /\ d # "cpu0"
  BY DEF Components, Disks
<1>7. /\ DOMAIN f = Components /\ DOMAIN g = Components
      /\ \A c \in Components : f[c] = JobOf(c) /\ g[c] = component[c].Q
      /\ f = [c \in Components |-> f[c]] /\ g = [c \in Components |-> g[c]]
  BY <1>1 DEF Serving, Line
<1>8. /\ f1 = [c \in Components |-> IF c = "cpu0"
                 THEN IF g["cpu0"] = <<>> THEN -1 ELSE Head(g["cpu0"]) ELSE f[c]]
      /\ g1 = [c \in Components |-> IF c = "cpu0"
                 THEN IF g["cpu0"] = <<>> THEN g["cpu0"] ELSE Tail(g["cpu0"]) ELSE g[c]]
  BY <1>2, <1>6, <1>7
<1>9. f1[d] = JobOf(d) /\ g1[d] = component[d].Q
  BY <1>6, <1>7, <1>8
<1>10. \A c \in Components : /\ Serving'[c] = JobOf(c)' /\ Line'[c] = component'[c].Q
  BY DEF Serving, Line
<1>11. Serving' = [c \in Components |-> Serving'[c]] /\ Line' = [c \in Components |-> Line'[c]]
  BY DEF Serving, Line
<1>12. /\ Serving'["cpu0"] = f1["cpu0"] /\ Line'["cpu0"] = g1["cpu0"]
       /\ \A c \in Components \ {"cpu0", d} : Serving'[c] = f1[c] /\ Line'[c] = g1[c]
  BY <1>6, <1>7, <1>8, <1>10 DEF MovesOn, Stays
<1>13. Serving' = st2.serving /\ Line' = st2.line
  <2>1. CASE JobOf(d) = -1
    <3>1. st2.serving = [f1 EXCEPT ![d] = p] /\ st2.line = g1
      BY <1>5, <1>9, <2>1
    <3>2. Serving'[d] = p /\ Line'[d] = g1[d]
      BY <1>6, <1>9, <1>10, <2>1 DEF TakesIn
    <3>3. \A c \in Components : Serving'[c] = [f1 EXCEPT ![d] = p][c] /\ Line'[c] = g1[c]
      BY <1>6, <1>8, <1>12, <3>2
    <3>4. /\ [f1 EXCEPT ![d] = p] = [c \in Components |-> [f1 EXCEPT ![d] = p][c]]
          /\ g1 = [c \in Components |-> g1[c]]
      BY <1>8
    <3>5. Serving' = [f1 EXCEPT ![d] = p] /\ Line' = g1
      BY <1>11, <3>3, <3>4
    <3> QED
      BY <3>1, <3>5
  <2>2. CASE JobOf(d) # -1
    <3>1. st2.serving = f1 /\ st2.line = [g1 EXCEPT ![d] = Append(@, p)]
      BY <1>5, <1>9, <2>2
    <3>2. Serving'[d] = f1[d] /\ Line'[d] = Append(g1[d], p)
      BY <1>6, <1>9, <1>10, <2>2 DEF TakesIn
    <3>3. \A c \in Components : /\ Serving'[c] = f1[c]
                                /\ Line'[c] = [g1 EXCEPT ![d] = Append(@, p)][c]
      BY <1>6, <1>8, <1>12, <3>2
    <3>4. /\ f1 = [c \in Components |-> f1[c]]
          /\ [g1 EXCEPT ![d] = Append(@, p)]
               = [c \in Components |-> [g1 EXCEPT ![d] = Append(@, p)][c]]
      BY <1>8
    <3>5. Serving' = f1 /\ Line' = [g1 EXCEPT ![d] = Append(@, p)]
      BY <1>11, <3>3, <3>4
    <3> QED
      BY <3>1, <3>5
  <2> QED
    BY <2>1, <2>2
<1>14. Serving["cpu0"] = p
  BY <1>6 DEF Serving
<1>15. /\ Serving' = Network!Join(Network!Finished(Network!State, "cpu0"), d, Serving["cpu0"]).serving
       /\ Line' = Network!Join(Network!Finished(Network!State, "cpu0"), d, Serving["cpu0"]).line
  <2>1. Network!State = st
    BY <1>1, NetworkParts
  <2>2. Network!Join(Network!Finished(Network!State, "cpu0"), d, Serving["cpu0"]) = st2
    BY <1>3, <1>14, <2>1
  <2> QED
    BY <1>13, <2>2
<1>16. Network!GoToDisk(d)
  BY <1>14, <1>15 DEF Network!GoToDisk, Network!Become, Arrived, Serving, Line
<1> QED
  BY <1>16 DEF Simulated, Network!Next

LEMMA SimulatesReturn ==
  ASSUME NEW d \in Disks, NEW p, p = JobOf(d), p # -1, Arrived' = Arrived,
         TakesIn("cpu0", p), MovesOn(d), \A c \in Components \ {"cpu0", d} : Stays(c)
  PROVE  Simulated
<1>1. PICK f, g, st : f = Serving /\ g = Line /\ st = [serving |-> f, line |-> g]
  OBVIOUS
<1>2. PICK f1, g1 :
        /\ f1 = IF f["cpu0"] = -1 THEN [f EXCEPT !["cpu0"] = p] ELSE f
        /\ g1 = IF f["cpu0"] = -1 THEN g ELSE [g EXCEPT !["cpu0"] = Append(@, p)]
  OBVIOUS
<1>3. PICK st1, st2 : /\ st1 = Network!Join(st, "cpu0", p)
                      /\ st2 = Network!Finished(st1, d)
  OBVIOUS
<1>4. st1 = [serving |-> f1, line |-> g1]
  <2>1. st1 = AfterJoin(f, g, "cpu0", p)
    BY <1>1, <1>3, JoinedStation
  <2> QED
    BY <1>2, <2>1 DEF AfterJoin
<1>5. st2 = [serving |-> [f1 EXCEPT ![d] = IF g1[d] = <<>> THEN -1 ELSE Head(g1[d])],
             line |-> IF g1[d] = <<>> THEN g1 ELSE [g1 EXCEPT ![d] = Tail(@)]]
  <2>1. st2 = AfterFinish(f1, g1, d)
    BY <1>3, <1>4, FinishedStation
  <2> QED
    BY <2>1 DEF AfterFinish
<1>6. "cpu0" \in Components /\ d \in Components /\ d # "cpu0"
  BY DEF Components, Disks
<1>7. /\ DOMAIN f = Components /\ DOMAIN g = Components
      /\ \A c \in Components : f[c] = JobOf(c) /\ g[c] = component[c].Q
      /\ f = [c \in Components |-> f[c]] /\ g = [c \in Components |-> g[c]]
  BY <1>1 DEF Serving, Line
<1>8. /\ f1 = [c \in Components |-> IF c = "cpu0" /\ f["cpu0"] = -1 THEN p ELSE f[c]]
      /\ g1 = [c \in Components |-> IF c = "cpu0" /\ f["cpu0"] # -1
                 THEN Append(g["cpu0"], p) ELSE g[c]]
  BY <1>2, <1>6, <1>7
<1>9. f1[d] = JobOf(d) /\ g1[d] = component[d].Q
  BY <1>6, <1>7, <1>8
<1>10. \A c \in Components : /\ Serving'[c] = JobOf(c)' /\ Line'[c] = component'[c].Q
  BY DEF Serving, Line
<1>11. Serving' = [c \in Components |-> Serving'[c]] /\ Line' = [c \in Components |-> Line'[c]]
  BY DEF Serving, Line
<1>12. /\ Serving'["cpu0"] = f1["cpu0"] /\ Line'["cpu0"] = g1["cpu0"]
       /\ \A c \in Components \ {"cpu0", d} : Serving'[c] = f1[c] /\ Line'[c] = g1[c]
  <2>1. /\ f["cpu0"] = JobOf("cpu0") /\ g["cpu0"] = component["cpu0"].Q
        /\ f1["cpu0"] = IF f["cpu0"] = -1 THEN p ELSE f["cpu0"]
        /\ g1["cpu0"] = IF f["cpu0"] = -1 THEN g["cpu0"] ELSE Append(g["cpu0"], p)
    BY <1>6, <1>7, <1>8
  <2>2. Serving'["cpu0"] = f1["cpu0"] /\ Line'["cpu0"] = g1["cpu0"]
    <3>1. CASE JobOf("cpu0") = -1
      BY <1>6, <1>10, <2>1, <3>1 DEF TakesIn
    <3>2. CASE JobOf("cpu0") # -1
      BY <1>6, <1>10, <2>1, <3>2 DEF TakesIn
    <3> QED
      BY <3>1, <3>2
  <2>3. \A c \in Components \ {"cpu0", d} : Serving'[c] = f1[c] /\ Line'[c] = g1[c]
    BY <1>7, <1>8, <1>10 DEF Stays
  <2> QED
    BY <2>2, <2>3
<1>13. Serving' = st2.serving /\ Line' = st2.line
  <2>1. CASE component[d].Q = <<>>
    <3>1. st2.serving = [f1 EXCEPT ![d] = -1] /\ st2.line = g1
      BY <1>5, <1>9, <2>1
    <3>2. Serving'[d] = -1 /\ Line'[d] = g1[d]
      BY <1>6, <1>9, <1>10, <2>1 DEF MovesOn
    <3>3. \A c \in Components : Serving'[c] = [f1 EXCEPT ![d] = -1][c] /\ Line'[c] = g1[c]
      BY <1>6, <1>8, <1>12, <3>2
    <3>4. /\ [f1 EXCEPT ![d] = -1] = [c \in Components |-> [f1 EXCEPT ![d] = -1][c]]
          /\ g1 = [c \in Components |-> g1[c]]
      BY <1>8
    <3>5. Serving' = [f1 EXCEPT ![d] = -1] /\ Line' = g1
      BY <1>11, <3>3, <3>4
    <3> QED
      BY <3>1, <3>5
  <2>2. CASE component[d].Q # <<>>
    <3>0. PICK x, y : x = Head(g1[d]) /\ y = Tail(g1[d])
      OBVIOUS
    <3>1. st2.serving = [f1 EXCEPT ![d] = x] /\ st2.line = [g1 EXCEPT ![d] = y]
      BY <1>5, <1>9, <2>2, <3>0
    <3>2. Serving'[d] = x /\ Line'[d] = y
      BY <1>6, <1>9, <1>10, <2>2, <3>0 DEF MovesOn
    <3>3. \A c \in Components : /\ Serving'[c] = [f1 EXCEPT ![d] = x][c]
                                /\ Line'[c] = [g1 EXCEPT ![d] = y][c]
      BY <1>6, <1>8, <1>12, <3>2
    <3>4. /\ [f1 EXCEPT ![d] = x] = [c \in Components |-> [f1 EXCEPT ![d] = x][c]]
          /\ [g1 EXCEPT ![d] = y] = [c \in Components |-> [g1 EXCEPT ![d] = y][c]]
      BY <1>8
    <3>5. Serving' = [f1 EXCEPT ![d] = x] /\ Line' = [g1 EXCEPT ![d] = y]
      BY <1>11, <3>3, <3>4
    <3> QED
      BY <3>1, <3>5
  <2> QED
    BY <2>1, <2>2
<1>14. Serving[d] = p
  BY <1>6 DEF Serving
<1>15. /\ Serving' = Network!Finished(Network!Join(Network!State, "cpu0", Serving[d]), d).serving
       /\ Line' = Network!Finished(Network!Join(Network!State, "cpu0", Serving[d]), d).line
  <2>1. Network!State = st
    BY <1>1, NetworkParts
  <2>2. Network!Finished(Network!Join(Network!State, "cpu0", Serving[d]), d) = st2
    BY <1>3, <1>14, <2>1
  <2> QED
    BY <1>13, <2>2
<1>16. Network!ReturnFrom(d)
  BY <1>14, <1>15 DEF Network!ReturnFrom, Network!Become, Arrived, Serving, Line
<1> QED
  BY <1>16 DEF Simulated, Network!Next

(* What a turn that pushes N does to one station.                          *)
LEMMA Staying ==
  ASSUME IInv, Continues, IInv', NEW N, Waiting' = Others \cup N, NEW c \in Components,
         Role(front(event_queue)) # c, \A e \in N : Role(e) # c,
         component'[c].Q = component[c].Q
  PROVE  Stays(c)
BY ServesNext DEF Stays

LEMMA TakingIn ==
  ASSUME IInv, Continues, IInv', NEW N, Waiting' = Others \cup N, NEW c \in Components,
         Role(front(event_queue)) # c,
         \A e \in N : Role(e) = c => e.process = Job,
         component[c].busy => (\A e \in N : Role(e) # c) /\ component'[c].Q = Append(component[c].Q, Job),
         ~component[c].busy => (\E e \in N : Role(e) = c) /\ component'[c].Q = component[c].Q
  PROVE  TakesIn(c, Job)
<1>1. CASE component[c].busy
  <2>1. JobOf(c) # -1
    BY <1>1, FreeServesNone
  <2>2. JobOf(c)' = JobOf(c)
    BY <1>1, ServesNext
  <2> QED
    BY <1>1, <2>1, <2>2 DEF TakesIn
<1>2. CASE ~component[c].busy
  <2>1. JobOf(c) = -1
    BY <1>2, FreeServesNone
  <2>2. PICK e \in N : Role(e) = c
    BY <1>2
  <2>3. JobOf(c)' = Job
    BY <2>2, ServesNext
  <2> QED
    BY <1>2, <2>1, <2>3 DEF TakesIn
<1> QED
  BY <1>1, <1>2

LEMMA MovingOn ==
  ASSUME IInv, Continues, IInv', NEW N, Waiting' = Others \cup N, NEW c \in Components,
         Role(front(event_queue)) = c,
         NEW X \in SUBSET N, AtMostOne(AdvanceEvents(c), X),
         \A e \in N : Role(e) = c <=> e \in X,
         NEW k1, k1 = Advanced(component[c]), component'[c].Q = k1.Q
  PROVE  MovesOn(c)
<1>1. PICK k : k = component[c]
  OBVIOUS
<1>2. k \in Station
  BY <1>1 DEF IInv, Typed
<1>3. CASE k.Q = <<>>
  <2>1. AdvanceEvents(c) = <<>>
    BY <1>1, <1>3 DEF AdvanceEvents
  <2>2. X = {}
    BY <2>1 DEF AtMostOne
  <2>3. JobOf(c)' = -1
    BY <2>2, ServesNext
  <2>4. k1 = [k EXCEPT !.jobs_processed = @ + 1, !.busy = k.Q # <<>>, !.Q = <<>>]
    BY <1>1, <1>3 DEF Advanced
  <2>5. k1.Q = <<>>
    BY <1>2, <2>4 DEF Station
  <2> QED
    BY <1>1, <1>3, <2>3, <2>5 DEF MovesOn
<1>4. CASE k.Q # <<>>
  <2>1. PICK p, t : p = Head(k.Q) /\ t = Tail(k.Q)
    OBVIOUS
  <2>2. PICK e : e = Event(START[c], p, Now)
    OBVIOUS
  <2>3. AdvanceEvents(c) = <<e>>
    BY <1>1, <1>4, <2>1, <2>2 DEF AdvanceEvents
  <2>4. X = {e}
    BY <2>3 DEF AtMostOne
  <2>5. e.process = p
    BY <2>2 DEF Event
  <2>6. JobOf(c)' = p
    BY <2>4, <2>5, ServesNext
  <2>7. k1 = [k EXCEPT !.jobs_processed = @ + 1, !.busy = k.Q # <<>>, !.Q = t]
    BY <1>1, <1>4, <2>1 DEF Advanced
  <2>8. k1.Q = t
    BY <1>2, <2>7 DEF Station
  <2> QED
    BY <1>1, <1>4, <2>1, <2>6, <2>8 DEF MovesOn
<1> QED
  BY <1>3, <1>4

LEMMA JoinedQueue ==
  ASSUME IInv, NEW c \in Components, NEW p, NEW k1, k1 = Joined(component[c], p)
  PROVE  /\ component[c].busy => k1.Q = Append(component[c].Q, p)
         /\ ~component[c].busy => k1.Q = component[c].Q
<1>1. PICK k : k = component[c]
  OBVIOUS
<1>2. k \in Station /\ (~k.busy => k.Q = <<>>)
  BY <1>1 DEF IInv, Typed, BusyWorks
<1>3. CASE k.busy
  <2>1. PICK t : t = Append(k.Q, p)
    OBVIOUS
  <2>2. k1 = [k EXCEPT !.Q = t]
    BY <1>1, <1>3, <2>1 DEF Joined, Taken
  <2>3. k1.Q = t
    BY <1>2, <2>2 DEF Station
  <2> QED
    BY <1>1, <1>3, <2>1, <2>3
<1>4. CASE ~k.busy
  <2>1. k1 = [k EXCEPT !.busy = TRUE]
    BY <1>1, <1>2, <1>4 DEF Joined, Taken
  <2>2. k1.Q = k.Q
    BY <1>2, <2>1 DEF Station
  <2> QED
    BY <1>1, <1>4, <2>2
<1> QED
  BY <1>3, <1>4

LEMMA ArrivedSame ==
  ASSUME IInv, IInv', IDcounter' = IDcounter
  PROVE  Arrived' = Arrived
BY ArrivedNow, ArrivedThen

-----------------------------------------------------------------------------
(* The handlers keep the invariant.                                        *)

(* What the invariant says of time, roles and arrivals after a turn.       *)
Timely(N) ==
  \A e \in N : /\ e \in EventRecord /\ Now <= e.arrival_time
               /\ e.event_type = "JOB_EXIT" => e.arrival_time = Now

LEMMA TurnTimes ==
  ASSUME IInv, Continues, total_time' = Now, NEW N, Waiting' = Others \cup N, Timely(N)
  PROVE  InTime' /\ total_time' \in Nat
<1>1. PICK h : h = front(event_queue)
  OBVIOUS
<1>2. /\ \A f \in Others : Now <= f.arrival_time
      /\ \A f \in Others : f.event_type = "JOB_EXIT" => f.arrival_time = Now
      /\ Now \in Nat
  BY <1>1, FrontFacts
<1> QED
  BY <1>2 DEF InTime, Timely

(* Where the processes are before a turn.                                  *)
LEMMA PlaceFacts ==
  ASSUME IInv, Continues
  PROVE  /\ \A f \in Others : f.process \in processes /\ f.process # Job
         /\ Job \in processes
         /\ \A d \in Components : \A f \in Others : f.process \notin InLine(d)
         /\ \A d \in Components : Job \notin InLine(d)
         /\ \A d \in Components : InLine(d) \subseteq processes \ {0} /\ IsInjective(component[d].Q)
         /\ \A c, d \in Components : c # d => InLine(c) \cap InLine(d) = {}
         /\ \A p \in processes \ {0} :
           p = Job \/ (\E f \in Others : f.process = p) \/ (\E d \in Components : p \in InLine(d))
<1>1. PICK h : h = front(event_queue)
  OBVIOUS
<1>2. /\ h \in Waiting /\ Job = h.process /\ Others = Waiting \ {h}
      /\ \A f \in Others : f.process # Job
  BY <1>1, FrontFacts
<1>3. /\ \A e \in Waiting : e.process \in processes
      /\ \A d \in Components : InLine(d) \subseteq processes \ {0} /\ IsInjective(component[d].Q)
      /\ \A c, d \in Components : c # d => InLine(c) \cap InLine(d) = {}
      /\ \A d \in Components : \A e \in Waiting : e.process \notin InLine(d)
      /\ \A p \in processes \ {0} :
           (\E e \in Waiting : e.process = p) \/ \E d \in Components : p \in InLine(d)
  BY DEF IInv, OnePlace
<1>4. ASSUME NEW p \in processes \ {0}, p # Job, \E e \in Waiting : e.process = p
      PROVE  \E f \in Others : f.process = p
  BY <1>2, <1>4
<1>5. ASSUME NEW p \in processes \ {0}
      PROVE  \/ p = Job
             \/ \E f \in Others : f.process = p
             \/ \E d \in Components : p \in InLine(d)
  <2>1. (\E e \in Waiting : e.process = p) \/ \E d \in Components : p \in InLine(d)
    BY <1>3
  <2> QED
    BY <1>4, <2>1
<1>6. /\ \A f \in Others : f.process \in processes /\ f.process # Job
      /\ Job \in processes
  BY <1>2, <1>3
<1>7. /\ \A d \in Components : \A f \in Others : f.process \notin InLine(d)
      /\ \A d \in Components : Job \notin InLine(d)
  BY <1>2, <1>3
<1>8. /\ \A d \in Components : InLine(d) \subseteq processes \ {0} /\ IsInjective(component[d].Q)
      /\ \A c, d \in Components : c # d => InLine(c) \cap InLine(d) = {}
  BY <1>3
<1>9. \A p \in processes \ {0} :
           p = Job \/ (\E f \in Others : f.process = p) \/ (\E d \in Components : p \in InLine(d))
  BY <1>5
<1> QED
  BY <1>6, <1>7, <1>8, <1>9

LEMMA StartKeeps ==
  ASSUME IInv, NEW c \in Components, NEW min \in Nat, NEW max \in Nat, handle_start(c, min, max)
  PROVE  IInv' /\ TurnOrder /\ Simulated
<1>1. PICK t \in min .. max :
        /\ Turn(START[c], <<Event(FINISH[c], Job, Now + t)>>)
        /\ component' = [component EXCEPT ![c] = Served(c, t)]
        /\ longest' = [longest EXCEPT ![c] = IF t > @ THEN t ELSE @]
        /\ UNCHANGED <<processes, IDcounter>>
  BY DEF handle_start, random_integer, SameProcesses
<1>2. PICK h : h = front(event_queue)
  OBVIOUS
<1>3. Continues /\ t \in Nat
  BY <1>1 DEF Turn
<1>4. /\ h \in Waiting /\ h \in EventRecord /\ Waiting \subseteq EventRecord
      /\ Now = h.arrival_time /\ Job = h.process /\ Now \in Nat /\ Job \in Nat
      /\ total_time <= Now /\ Others = Waiting \ {h}
      /\ \A f \in Others : f.process # Job /\ Role(f) # Role(h)
  BY <1>2, <1>3, FrontFacts
<1>5. PICK e : e = Event(FINISH[c], Job, Now + t)
  OBVIOUS
<1>6. /\ e.event_type = FINISH[c] /\ e.process = Job /\ e.arrival_time = Now + t
      /\ e \in EventRecord
      /\ e.event_type # "JOB_EXIT" /\ Role(e) = c /\ Role(e) # "arrival"
  <2>1. FINISH[c] \in EventTypes /\ FINISH[c] # "JOB_EXIT"
    BY EventTypesAre
  <2>2. Now + t \in Nat
    BY <1>3, <1>4
  <2>3. e.event_type = FINISH[c] /\ e.process = Job /\ e.arrival_time = Now + t /\ e \in EventRecord
    BY <1>4, <1>5, <2>1, <2>2, EventFields
  <2> QED
    BY <2>1, <2>3, Roles DEF Components
<1>7. Fits(e, Others \cup {})
  <2>1. Now <= e.arrival_time
    BY <1>3, <1>4, <1>6
  <2> QED
    BY <1>3, <1>4, <1>6, <2>1, FitsNow
<1>8. /\ Good(event_queue') /\ Waiting' = Others \cup {e}
      /\ total_time' = Now
      /\ h.event_type = START[c] /\ status' = status /\ TurnOrder
  <2>1. Turn(START[c], <<e>>) /\ Pushing(<<e>>, {e}, {})
    BY <1>1, <1>5 DEF Pushing
  <2>2. AllFit({e}, Others) /\ AllFit({}, Others \cup {e})
    BY <1>7 DEF AllFit
  <2>3. /\ Good(event_queue') /\ Waiting' = Others \cup {e} \cup {}
        /\ total_time' = Now /\ front(event_queue).event_type = START[c] /\ status' = status /\ TurnOrder
    BY <2>1, <2>2, TurnFacts
  <2> QED
    BY <1>2, <2>3
<1>9. Role(h) = c
  BY <1>4, <1>8, Roles
<1>10. /\ component' \in [Components -> Station]
       /\ \A d \in Components : /\ component'[d].busy = component[d].busy
                                /\ component'[d].Q = component[d].Q
       /\ component'[c].time_busy = component[c].time_busy + t
       /\ \A d \in Components : d # c => component'[d].time_busy = component[d].time_busy
       /\ component[c] \in Station
  <2>1. component \in [Components -> Station]
    BY DEF IInv, Typed
  <2>2. PICK k, k1 : k = component[c] /\ k1 = Served(c, t)
    OBVIOUS
  <2>3. k \in Station
    BY <2>1, <2>2
  <2>4. k1 \in Station /\ k1.busy = k.busy /\ k1.Q = k.Q /\ k1.time_busy = k.time_busy + t
    <3>1. Longest(c, k.max_time, t) \in Nat
      BY <1>3, <2>3 DEF Longest, Station
    <3>2. k1 = [k EXCEPT !.time_busy = @ + t, !.max_time = Longest(c, k.max_time, t)]
      BY <2>2 DEF Served
    <3>3. /\ k.time_busy \in Nat /\ k.time_busy + t \in Nat
          /\ k = [busy |-> k.busy, Q |-> k.Q, time_busy |-> k.time_busy,
                  jobs_processed |-> k.jobs_processed, max_time |-> k.max_time]
      BY <1>3, <2>3 DEF Station
    <3>4. k1 = [busy |-> k.busy, Q |-> k.Q, time_busy |-> k.time_busy + t,
                jobs_processed |-> k.jobs_processed, max_time |-> Longest(c, k.max_time, t)]
      BY <3>2, <3>3
    <3> QED
      BY <2>3, <3>1, <3>3, <3>4 DEF Station
  <2>5. component' = [component EXCEPT ![c] = k1]
    BY <1>1, <2>2
  <2> QED
    BY <2>1, <2>2, <2>3, <2>4, <2>5
<1>11. Typed'
  <2>1. longest' \in [Components -> Nat]
    BY <1>1, <1>3 DEF IInv, Typed
  <2>2. processes' = processes /\ IDcounter' = IDcounter
    BY <1>1
  <2> QED
    BY <1>4, <1>8, <1>10, <2>1, <2>2 DEF IInv, Typed
<1>12. InTime'
  <2>1. PICK N : N = {e}
    OBVIOUS
  <2>2. Timely(N) /\ Waiting' = Others \cup N
    BY <1>3, <1>4, <1>6, <1>8, <2>1 DEF Timely
  <2> QED
    BY <1>3, <1>8, <2>2, TurnTimes
<1>13. OneRole'
  BY <1>4, <1>6, <1>8, <1>9 DEF IInv, OneRole
<1>14. BusyWorks'
  BY <1>4, <1>6, <1>8, <1>9, <1>10 DEF IInv, BusyWorks
<1>15. OnePlace'
  <2>1. \A d \in Components : InLine(d)' = InLine(d) /\ component'[d].Q = component[d].Q
    BY <1>10 DEF InLine
  <2>2. processes' = processes
    BY <1>1
  <2>3. \A f \in Waiting' : f.process \in processes /\ \A d \in Components : f.process \notin InLine(d)
    BY <1>3, <1>6, <1>8, PlaceFacts
  <2>4. \A p \in processes \ {0} :
          (\E f \in Waiting' : f.process = p) \/ \E d \in Components : p \in InLine(d)
    BY <1>3, <1>6, <1>8, PlaceFacts
  <2>5. /\ \A d \in Components : InLine(d) \subseteq processes \ {0} /\ IsInjective(component[d].Q)
        /\ \A a, b \in Components : a # b => InLine(a) \cap InLine(b) = {}
    BY DEF IInv, OnePlace
  <2> QED
    BY <2>1, <2>2, <2>3, <2>4, <2>5 DEF OnePlace
<1>16. Arrivals'
  <2>1. IDcounter' = IDcounter
    BY <1>1
  <2>2. \E f \in Waiting' : Role(f) = "arrival"
    <3>1. PICK f \in Waiting : Role(f) = "arrival"
      BY DEF IInv, Arrivals
    <3>2. f # h
      BY <1>9, <3>1 DEF Components
    <3> QED
      BY <1>4, <1>8, <3>1, <3>2
  <2>3. /\ e.event_type # "JOB_ARRIVAL" /\ e.event_type # "SIMULATION_START"
        /\ h.event_type # "SIMULATION_START"
    BY <1>6, <1>8, EventTypesAre
  <2>4. Job # 0
    BY <1>4, <2>3 DEF IInv, Arrivals
  <2>5. \A f \in Waiting' : f = e \/ f \in Waiting
    BY <1>4, <1>8
  <2> QED
    BY <1>6, <2>1, <2>2, <2>3, <2>4, <2>5 DEF IInv, Arrivals
<1>17. Within'
  <2>1. ASSUME NEW d \in Components
        PROVE  \/ component'[d].time_busy <= total_time'
               \/ \E f \in Waiting' : /\ f.event_type = FINISH[d]
                                       /\ component'[d].time_busy <= f.arrival_time
    <3>1. component[d].time_busy \in Nat /\ total_time \in Nat
      BY DEF IInv, Typed, Station
    <3>2. CASE component[d].time_busy <= total_time
      <4>1. CASE d = c
        <5>1. component'[d].time_busy <= Now + t
          BY <1>3, <1>4, <1>10, <3>1, <3>2, <4>1
        <5> QED
          BY <1>6, <1>8, <4>1, <5>1
      <4>2. CASE d # c
        BY <1>4, <1>8, <1>10, <3>1, <3>2, <4>2
      <4> QED
        BY <4>1, <4>2
    <3>3. CASE \E f \in Waiting : f.event_type = FINISH[d] /\ component[d].time_busy <= f.arrival_time
      <4>1. PICK f \in Waiting : f.event_type = FINISH[d] /\ component[d].time_busy <= f.arrival_time
        BY <3>3
      <4>2. f # h
        BY <1>8, <4>1, EventTypesAre
      <4>3. f \in Waiting'
        BY <1>4, <1>8, <4>2
      <4>4. d # c
        BY <1>4, <1>9, <4>1, <4>2, Roles
      <4> QED
        BY <1>10, <4>1, <4>3, <4>4
    <3> QED
      BY <3>2, <3>3 DEF IInv, Within
  <2> QED
    BY <2>1 DEF Within
<1>18. IInv'
  BY <1>8, <1>11, <1>12, <1>13, <1>14, <1>15, <1>16, <1>17 DEF IInv
<1>19. Simulated
  <2>1. PICK N : N = {e}
    OBVIOUS
  <2>2. Waiting' = Others \cup N /\ Role(front(event_queue)) = c
    BY <1>2, <1>8, <1>9, <2>1
  <2>3. ASSUME NEW d \in Components
        PROVE  Stays(d)
    <3>1. component'[d].Q = component[d].Q
      BY <1>10
    <3>2. CASE d = c
      <4>1. JobOf(c) = Job /\ JobOf(c)' = e.process
        BY <1>3, <1>6, <1>18, <2>1, <2>2, ServesNext
      <4> QED
        BY <1>6, <3>1, <3>2, <4>1 DEF Stays
    <3>3. CASE d # c
      <4>1. Role(front(event_queue)) # d /\ \A f \in N : Role(f) # d
        BY <1>6, <2>1, <2>2, <3>3
      <4> QED
        BY <1>3, <1>18, <2>2, <3>1, <4>1, Staying
    <3> QED
      BY <3>2, <3>3
  <2>4. Arrived' = Arrived
    BY <1>1, <1>18, ArrivedSame
  <2> QED
    BY <2>3, <2>4, SimulatesNothing
<1> QED
  BY <1>8, <1>18, <1>19

(* The process comes to the CPU: as k1, after pushing X.                   *)
JoinMoves(k1, X) ==
  /\ k1 \in Station /\ k1.busy /\ IsInjective(k1.Q)
  /\ k1.time_busy = component["cpu0"].time_busy
  /\ AllFit(X, Others) /\ Timely(X)
  /\ \A e \in X : e.process = Job /\ e.event_type = START["cpu0"] /\ Role(e) = "cpu0"
  /\ \A e, f \in X : e = f
  /\ \/ X = {} /\ component["cpu0"].busy /\ Range(k1.Q) = InLine("cpu0") \cup {Job}
     \/ X # {} /\ ~component["cpu0"].busy /\ InLine("cpu0") = {} /\ Range(k1.Q) = {}

LEMMA JoinCpu ==
  ASSUME IInv, Continues, NEW k1, k1 = Joined(component["cpu0"], Job)
  PROVE  \E X : AtMostOne(JoinEvents(component["cpu0"], Job), X) /\ JoinMoves(k1, X)
<1>1. PICK h : h = front(event_queue)
  OBVIOUS
<1>2. /\ Now \in Nat /\ Job \in Nat
      /\ \A f \in Others : f.process # Job
  BY <1>1, FrontFacts
<1>3. PICK k : k = component["cpu0"]
  OBVIOUS
<1>4. "cpu0" \in Components
  BY DEF Components
<1>5. /\ k \in Station /\ (~k.busy => k.Q = <<>>) /\ IsInjective(k.Q) /\ Job \notin Range(k.Q)
      /\ Range(k.Q) = InLine("cpu0")
  BY <1>3, <1>4, PlaceFacts DEF IInv, Typed, BusyWorks, InLine
<1>6. PICK e : e = Event(START["cpu0"], Job, Now)
  OBVIOUS
<1>7. /\ k1 \in Station /\ k1.busy /\ k1.time_busy = k.time_busy /\ IsInjective(k1.Q)
      /\ \/ /\ k.busy /\ AtMostOne(JoinEvents(k, Job), {})
            /\ Range(k1.Q) = Range(k.Q) \cup {Job}
         \/ /\ ~k.busy /\ AtMostOne(JoinEvents(k, Job), {e})
            /\ Range(k.Q) = {} /\ Range(k1.Q) = {}
  <2>1. k1 = Joined(k, Job)
    BY <1>3
  <2>2. Joins(k, k1, Job)
    <3>1. k \in Station /\ IsInjective(k.Q) /\ Job \in Nat /\ Job \notin Range(k.Q)
      BY <1>2, <1>5
    <3>2. ~k.busy => k.Q = <<>>
      BY <1>5
    <3> QED
      BY <2>1, <3>1, <3>2, JoinFacts
  <2> QED
    BY <1>6, <2>2 DEF Joins
<1>8. /\ e.event_type = START["cpu0"] /\ e.process = Job /\ e.arrival_time = Now
      /\ e \in EventRecord /\ e.event_type # "JOB_EXIT" /\ e.event_type # "JOB_CPU_FINISH"
      /\ Role(e) = "cpu0"
  <2>1. START["cpu0"] = "JOB_CPU_START" /\ START["cpu0"] \in EventTypes
    BY <1>4, EventTypesAre
  <2>2. e.event_type = START["cpu0"] /\ e.process = Job /\ e.arrival_time = Now /\ e \in EventRecord
    BY <1>2, <1>6, <2>1, EventFields
  <2> QED
    BY <1>4, <2>1, <2>2, Roles
<1>9. Fits(e, Others \cup {}) /\ Timely({e})
  <2>1. Now <= e.arrival_time
    BY <1>2, <1>8
  <2>2. Fits(e, Others \cup {})
    BY <1>2, <1>8, <2>1, FitsNow
  <2> QED
    BY <1>8, <2>1, <2>2 DEF Timely
<1>10. AllFit({e}, Others) /\ AllFit({}, Others) /\ Timely({})
  BY <1>9 DEF AllFit, Timely
<1>11. CASE k.busy
  <2>1. AtMostOne(JoinEvents(k, Job), {}) /\ Range(k1.Q) = Range(k.Q) \cup {Job}
    BY <1>7, <1>11
  <2>2. JoinMoves(k1, {})
    BY <1>3, <1>5, <1>7, <1>10, <1>11, <2>1 DEF JoinMoves
  <2> QED
    BY <1>3, <2>1, <2>2
<1>12. CASE ~k.busy
  <2>1. AtMostOne(JoinEvents(k, Job), {e}) /\ Range(k.Q) = {} /\ Range(k1.Q) = {}
    BY <1>7, <1>12
  <2>2. JoinMoves(k1, {e})
    BY <1>3, <1>5, <1>7, <1>8, <1>9, <1>10, <1>12, <2>1 DEF JoinMoves
  <2> QED
    BY <1>3, <2>1, <2>2
<1> QED
  BY <1>11, <1>12

(* A component moves its queue along: as k1, after pushing X when V has    *)
(* been pushed.                                                            *)
AdvanceMoves(c, k1, V, X) ==
  /\ k1 \in Station /\ IsInjective(k1.Q)
  /\ k1.time_busy = component[c].time_busy
  /\ AllFit(X, Others \cup V) /\ Timely(X)
  /\ \A e \in X : e.process \in InLine(c) /\ e.event_type = START[c] /\ Role(e) = c
  /\ \A e, f \in X : e = f
  /\ \/ X = {} /\ ~k1.busy /\ k1.Q = <<>> /\ InLine(c) = {} /\ Range(k1.Q) = {}
     \/ k1.busy /\ \E e \in X : Range(k1.Q) = InLine(c) \ {e.process}

LEMMA AdvanceOne ==
  ASSUME IInv, Continues, NEW c \in Components, NEW k1, k1 = Advanced(component[c]),
         NEW V, \A f \in V : f.process \notin InLine(c)
  PROVE  \E X : AtMostOne(AdvanceEvents(c), X) /\ AdvanceMoves(c, k1, V, X)
<1>1. PICK h : h = front(event_queue)
  OBVIOUS
<1>2. Now \in Nat
  BY <1>1, FrontFacts
<1>3. PICK k : k = component[c]
  OBVIOUS
<1>4. /\ k \in Station /\ IsInjective(k.Q) /\ Range(k.Q) = InLine(c)
      /\ \A f \in Others : f.process \notin InLine(c)
  BY <1>3, PlaceFacts DEF IInv, Typed, InLine
<1>5. /\ k1 \in Station /\ k1.time_busy = k.time_busy /\ IsInjective(k1.Q)
      /\ MovedAlong(c, k, k1)
  <2>1. k1 = Advanced(k)
    BY <1>3
  <2> QED
    BY <1>3, <1>4, <2>1, AdvanceFacts
<1>6. CASE ~k1.busy
  <2>1. /\ AtMostOne(AdvanceEvents(c), {})
        /\ k1.Q = <<>> /\ Range(k.Q) = {} /\ Range(k1.Q) = {}
    BY <1>5, <1>6 DEF MovedAlong
  <2>2. AdvanceMoves(c, k1, V, {})
    BY <1>3, <1>4, <1>5, <1>6, <2>1 DEF AdvanceMoves, AllFit, Timely
  <2> QED
    BY <2>1, <2>2
<1>7. CASE k1.busy
  <2>1. PICK p \in Nat : /\ AtMostOne(AdvanceEvents(c), {Event(START[c], p, Now)})
                         /\ p \in Range(k.Q) /\ Range(k1.Q) = Range(k.Q) \ {p}
    BY <1>5, <1>7 DEF MovedAlong
  <2>2. PICK e : e = Event(START[c], p, Now)
    OBVIOUS
  <2>3. /\ e.event_type = START[c] /\ e.process = p /\ e.arrival_time = Now
        /\ e \in EventRecord /\ e.event_type # "JOB_EXIT" /\ e.event_type # "JOB_CPU_FINISH"
        /\ Role(e) = c
    <3>1. START[c] \in EventTypes /\ START[c] # "JOB_EXIT" /\ START[c] # "JOB_CPU_FINISH"
      BY EventTypesAre
    <3>2. e.event_type = START[c] /\ e.process = p /\ e.arrival_time = Now /\ e \in EventRecord
      BY <1>2, <2>2, <3>1, EventFields
    <3> QED
      BY <3>1, <3>2, Roles
  <2>4. Fits(e, Others \cup V)
    <3>1. Now <= e.arrival_time
      BY <1>2, <2>3
    <3>2. \A f \in Others \cup V : e.process # f.process
      BY <1>3, <1>4, <2>1, <2>3
    <3> QED
      BY <2>3, <3>1, <3>2, FitsNow
  <2>5. AllFit({e}, Others \cup V) /\ Timely({e})
    BY <1>2, <2>3, <2>4 DEF AllFit, Timely
  <2>6. AdvanceMoves(c, k1, V, {e})
    BY <1>3, <1>4, <1>5, <1>7, <2>1, <2>3, <2>5 DEF AdvanceMoves
  <2> QED
    BY <2>1, <2>2, <2>6
<1> QED
  BY <1>6, <1>7

(* Time and the clock's bound, when no service begins.                     *)
LEMMA WithinKept ==
  ASSUME IInv, Continues, total_time' = Now, NEW N, Waiting' = Others \cup N,
         \A c \in Components : component'[c].time_busy = component[c].time_busy
  PROVE  Within'
<1>1. PICK h : h = front(event_queue)
  OBVIOUS
<1>2. Now = h.arrival_time /\ Others = Waiting \ {h} /\ total_time <= Now /\ Now \in Nat
  BY <1>1, FrontFacts
<1>3. total_time \in Nat /\ \A c \in Components : component[c].time_busy \in Nat
  BY DEF IInv, Typed, Station
<1>4. ASSUME NEW c \in Components
      PROVE  \/ component[c].time_busy <= Now
             \/ \E f \in Waiting' : f.event_type = FINISH[c] /\ component[c].time_busy <= f.arrival_time
  <2>1. CASE component[c].time_busy <= total_time
    BY <1>2, <1>3, <2>1
  <2>2. CASE \E f \in Waiting : f.event_type = FINISH[c] /\ component[c].time_busy <= f.arrival_time
    BY <1>2, <2>2
  <2> QED
    BY <2>1, <2>2 DEF IInv, Within
<1> QED
  BY <1>4 DEF Within

LEMMA ArrivalsKept ==
  ASSUME IInv, Continues, NEW N, Waiting' = Others \cup N, IDcounter' = IDcounter,
         Role(front(event_queue)) # "arrival",
         \A e \in N : e \in EventRecord /\ Role(e) # "arrival" /\ e.process # 0
  PROVE  Arrivals'
<1>1. PICK h : h = front(event_queue)
  OBVIOUS
<1>2. Others = Waiting \ {h} /\ Role(h) # "arrival"
  BY <1>1, FrontFacts
<1>3. \E e \in Waiting' : Role(e) = "arrival"
  <2>1. PICK e \in Waiting : Role(e) = "arrival"
    BY DEF IInv, Arrivals
  <2> QED
    BY <1>2, <2>1
<1>4. \A e \in N : e.event_type # "JOB_ARRIVAL" /\ e.event_type # "SIMULATION_START" /\ e.process # 0
  BY Roles
<1>5. \A e \in Waiting' : e \in N \/ e \in Waiting
  BY <1>2
<1> QED
  BY <1>3, <1>4, <1>5 DEF IInv, Arrivals

LEMMA NextArrives ==
  ASSUME IInv, Continues, NEW N, NEW a, Waiting' = Others \cup N \cup {a},
         IDcounter' = IDcounter + 1,
         Role(front(event_queue)) = "arrival",
         a \in EventRecord, a.event_type = "JOB_ARRIVAL", a.process = IDcounter,
         \A e \in N : e \in EventRecord /\ Role(e) # "arrival" /\ e.process # 0
  PROVE  Arrivals'
<1>1. PICK h : h = front(event_queue)
  OBVIOUS
<1>2. /\ Others = Waiting \ {h} /\ Role(h) = "arrival" /\ Waiting \subseteq EventRecord
      /\ \A f \in Others : Role(f) # Role(h)
  BY <1>1, FrontFacts
<1>3. IDcounter \in Nat \ {0}
  BY DEF IInv, Typed
<1>4. \A e \in N \cup Others : e.event_type # "JOB_ARRIVAL" /\ e.event_type # "SIMULATION_START"
  BY <1>2, Roles
<1>5. \A e \in N \cup Others : e.process # 0
  BY <1>2, <1>4 DEF IInv, Arrivals
<1>6. Role(a) = "arrival" /\ a.process # 0
  BY <1>3, Roles
<1> QED
  BY <1>3, <1>4, <1>5, <1>6 DEF Arrivals

(* Every component that is busy has its one event, after a turn that       *)
(* pushes N.                                                               *)
LEMMA WorkKept ==
  ASSUME IInv, Continues, NEW N, Waiting' = Others \cup N,
         \A e, f \in N : Role(e) = Role(f) => e = f,
         \A e \in N : \A f \in Others : Role(e) # Role(f),
         \A c \in Components :
           component'[c].busy <=>
             (\E e \in N : Role(e) = c) \/ (component[c].busy /\ Role(front(event_queue)) # c),
         \A c \in Components : ~component'[c].busy => component'[c].Q = <<>>
  PROVE  OneRole' /\ BusyWorks'
<1>1. PICK h : h = front(event_queue)
  OBVIOUS
<1>2. h \in Waiting /\ Others = Waiting \ {h} /\ \A f \in Others : Role(f) # Role(h)
  BY <1>1, FrontFacts
<1>3. OneRole'
  <2>1. \A e, f \in Others : Role(e) = Role(f) => e = f
    BY <1>2 DEF IInv, OneRole
  <2> QED
    BY <2>1 DEF OneRole
<1>4. \A c \in Components : (\E e \in Others : Role(e) = c) <=> component[c].busy /\ Role(h) # c
  BY <1>2 DEF IInv, BusyWorks
<1>5. BusyWorks'
  BY <1>1, <1>4 DEF BusyWorks
<1> QED
  BY <1>3, <1>5

(* No event of the others works for a component that is not busy.          *)
LEMMA FreeOfWork ==
  ASSUME IInv, NEW c \in Components, ~component[c].busy
  PROVE  \A f \in Waiting : Role(f) # c
  BY DEF IInv, BusyWorks

LEMMA ArrivalFacts ==
  ASSUME IInv, Continues, NEW t \in Nat, NEW a, a = Arrival(t),
         NEW V, \A f \in V : f.process \in processes
  PROVE  /\ a \in EventRecord /\ a.event_type = "JOB_ARRIVAL" /\ a.process = IDcounter
         /\ Role(a) = "arrival" /\ IDcounter \notin processes
         /\ Timely({a}) /\ AllFit({a}, Others \cup V)
<1>1. PICK h : h = front(event_queue)
  OBVIOUS
<1>2. Now \in Nat
  BY <1>1, FrontFacts
<1>3. IDcounter \in Nat \ {0} /\ processes \subseteq 0 .. IDcounter - 1 /\ IDcounter \notin processes
  BY DEF IInv, Typed
<1>4. a = Event("JOB_ARRIVAL", IDcounter, Now + t)
  BY DEF Arrival
<1>5. a.event_type = "JOB_ARRIVAL" /\ a.process = IDcounter /\ a.arrival_time = Now + t /\ a \in EventRecord
  <2>1. "JOB_ARRIVAL" \in EventTypes /\ Now + t \in Nat
    BY <1>2, EventTypesAre
  <2> QED
    BY <1>3, <1>4, <2>1, EventFields
<1>6. Role(a) = "arrival"
  BY <1>5, Roles
<1>7. Now <= a.arrival_time
  BY <1>2, <1>5
<1>8. \A f \in Others : f.process \in processes
  BY PlaceFacts
<1>9. \A f \in Others \cup V : a.process # f.process
  BY <1>3, <1>5, <1>8
<1>10. Fits(a, Others \cup V)
  BY <1>5, <1>7, <1>9, FitsNow
<1> QED
  BY <1>3, <1>5, <1>6, <1>7, <1>10 DEF AllFit, Timely

LEMMA SimulationStartKeeps ==
  ASSUME IInv, handle_simulation_start
  PROVE  IInv' /\ TurnOrder /\ Simulated
<1>1. PICK t \in ARRIVE_MIN .. ARRIVE_MAX :
        /\ Turn("SIMULATION_START", <<Arrival(t)>>)
        /\ NewProcess
        /\ UNCHANGED <<component, longest>>
  BY DEF handle_simulation_start, random_integer
<1>2. t \in Nat /\ Continues
  BY <1>1, ConfigAssumption DEF Turn
<1>3. PICK a, h : a = Arrival(t) /\ h = front(event_queue)
  OBVIOUS
<1>4. /\ h \in Waiting /\ h \in EventRecord /\ Waiting \subseteq EventRecord
      /\ Now = h.arrival_time /\ Job = h.process /\ Now \in Nat
      /\ Others = Waiting \ {h}
      /\ \A f \in Others : f.process # Job /\ Role(f) # Role(h)
  BY <1>2, <1>3, FrontFacts
<1>5. /\ a \in EventRecord /\ a.event_type = "JOB_ARRIVAL" /\ a.process = IDcounter
      /\ Role(a) = "arrival" /\ IDcounter \notin processes
      /\ Timely({a}) /\ AllFit({a}, Others \cup {})
  <2>1. PICK V : V = {}
    OBVIOUS
  <2>2. \A f \in V : f.process \in processes
    BY <2>1
  <2> QED
    BY <1>2, <1>3, <2>1, <2>2, ArrivalFacts
<1>6. /\ Good(event_queue') /\ Waiting' = Others \cup {a}
      /\ total_time' = Now
      /\ h.event_type = "SIMULATION_START" /\ status' = status /\ TurnOrder
  <2>1. Turn("SIMULATION_START", <<a>>) /\ Pushing(<<a>>, {a}, {})
    BY <1>1, <1>3 DEF Pushing
  <2>2. AllFit({a}, Others) /\ AllFit({}, Others \cup {a})
    BY <1>5 DEF AllFit
  <2>3. /\ Good(event_queue') /\ Waiting' = Others \cup {a} \cup {}
        /\ total_time' = Now /\ front(event_queue).event_type = "SIMULATION_START" /\ status' = status /\ TurnOrder
    BY <2>1, <2>2, TurnFacts
  <2> QED
    BY <1>3, <2>3
<1>7. Role(h) = "arrival"
  BY <1>4, <1>6, Roles
<1>8. /\ processes' = processes \cup {IDcounter} /\ IDcounter' = IDcounter + 1
      /\ component' = component /\ longest' = longest
  BY <1>1 DEF NewProcess
<1>9. Typed'
  <2>1. IDcounter \in Nat \ {0} /\ 0 \in processes /\ processes \subseteq 0 .. IDcounter - 1
    BY DEF IInv, Typed
  <2>2. 0 \in processes' /\ processes' \subseteq 0 .. IDcounter' - 1 /\ IDcounter' \in Nat \ {0}
    BY <1>8, <2>1
  <2> QED
    BY <1>4, <1>6, <1>8, <2>2 DEF IInv, Typed
<1>10. PICK N : N = {a}
  OBVIOUS
<1>11. Waiting' = Others \cup N /\ Timely(N)
  BY <1>5, <1>6, <1>10
<1>12. InTime'
  BY <1>2, <1>6, <1>11, TurnTimes
<1>13. OneRole' /\ BusyWorks'
  <2>1. /\ \A e, f \in N : Role(e) = Role(f) => e = f
        /\ \A e \in N : \A f \in Others : Role(e) # Role(f)
    BY <1>4, <1>5, <1>7, <1>10
  <2>2. \A c \in Components :
           component'[c].busy <=>
             (\E e \in N : Role(e) = c) \/ (component[c].busy /\ Role(front(event_queue)) # c)
    BY <1>3, <1>5, <1>7, <1>8, <1>10 DEF Components
  <2>3. \A c \in Components : ~component'[c].busy => component'[c].Q = <<>>
    BY <1>8 DEF IInv, BusyWorks
  <2> QED
    BY <1>2, <1>11, <2>1, <2>2, <2>3, WorkKept
<1>14. h.process = 0
  BY <1>4, <1>6 DEF IInv, Arrivals
<1>15. OnePlace'
  <2>1. \A d \in Components : InLine(d)' = InLine(d) /\ component'[d].Q = component[d].Q
    BY <1>8 DEF InLine
  <2>2. IDcounter # 0 /\ 0 \in processes
    BY DEF IInv, Typed
  <2>3. \A f \in Waiting' : f.process \in processes' /\ \A d \in Components : f.process \notin InLine(d)
    <3>1. \A d \in Components : IDcounter \notin InLine(d)
      BY <1>2, <1>5, PlaceFacts
    <3> QED
      BY <1>2, <1>5, <1>6, <1>8, <3>1, PlaceFacts
  <2>4. \A p \in processes' \ {0} :
          (\E f \in Waiting' : f.process = p) \/ \E d \in Components : p \in InLine(d)
    BY <1>2, <1>4, <1>5, <1>6, <1>8, <1>14, PlaceFacts
  <2>5. /\ \A d \in Components : InLine(d) \subseteq processes \ {0} /\ IsInjective(component[d].Q)
        /\ \A b, d \in Components : b # d => InLine(b) \cap InLine(d) = {}
    BY DEF IInv, OnePlace
  <2>6. processes \ {0} \subseteq processes' \ {0}
    BY <1>8
  <2> QED
    BY <2>1, <2>3, <2>4, <2>5, <2>6 DEF OnePlace
<1>16. Arrivals'
  <2>0. PICK M : M = {}
    OBVIOUS
  <2>1. /\ Waiting' = Others \cup M \cup {a}
        /\ \A e \in M : e \in EventRecord /\ Role(e) # "arrival" /\ e.process # 0
    BY <1>6, <2>0
  <2>2. Role(front(event_queue)) = "arrival"
    BY <1>3, <1>7
  <2> QED
    BY <1>2, <1>5, <1>8, <2>1, <2>2, NextArrives
<1>17. Within'
  <2>1. \A c \in Components : component'[c].time_busy = component[c].time_busy
    BY <1>8
  <2> QED
    BY <1>2, <1>6, <1>11, <2>1, WithinKept
<1>18. IInv'
  BY <1>6, <1>9, <1>12, <1>13, <1>15, <1>16, <1>17 DEF IInv
<1>19. Simulated
  <2>1. ASSUME NEW d \in Components
        PROVE  Stays(d)
    <3>1. Role(front(event_queue)) # d /\ \A f \in N : Role(f) # d
      BY <1>3, <1>5, <1>7, <1>10 DEF Components
    <3>2. component'[d].Q = component[d].Q
      BY <1>8
    <3> QED
      BY <1>2, <1>11, <1>18, <3>1, <3>2, Staying
  <2>2. Arrived' = Arrived
    <3>1. IDcounter = 1
      BY <1>4, <1>6 DEF IInv, Arrivals
    <3> QED
      BY <1>8, <1>18, <3>1, ArrivedNow, ArrivedThen
  <2> QED
    BY <2>1, <2>2, SimulatesNothing
<1> QED
  BY <1>6, <1>18, <1>19

LEMMA JobArrivalKeeps ==
  ASSUME IInv, handle_job_arrival
  PROVE  IInv' /\ TurnOrder /\ Simulated
<1>1. PICK t \in ARRIVE_MIN .. ARRIVE_MAX :
        /\ Turn("JOB_ARRIVAL", JoinEvents(component["cpu0"], Job) \o <<Arrival(t)>>)
        /\ component' = [component EXCEPT !["cpu0"] = Joined(@, Job)]
        /\ NewProcess
        /\ UNCHANGED longest
  BY DEF handle_job_arrival, random_integer
<1>2. t \in Nat /\ Continues
  BY <1>1, ConfigAssumption DEF Turn
<1>3. PICK a, h : a = Arrival(t) /\ h = front(event_queue)
  OBVIOUS
<1>4. /\ h \in Waiting /\ h \in EventRecord /\ Waiting \subseteq EventRecord
      /\ Now = h.arrival_time /\ Job = h.process /\ Now \in Nat
      /\ Others = Waiting \ {h}
      /\ \A f \in Others : f.process # Job /\ Role(f) # Role(h)
  BY <1>2, <1>3, FrontFacts
<1>5. PICK k, k1 : k = component["cpu0"] /\ k1 = Joined(k, Job)
  OBVIOUS
<1>6. PICK X : AtMostOne(JoinEvents(k, Job), X) /\ JoinMoves(k1, X)
  BY <1>2, <1>5, JoinCpu
<1>7. /\ k1 \in Station /\ k1.busy /\ IsInjective(k1.Q)
      /\ k1.time_busy = k.time_busy
      /\ AllFit(X, Others) /\ Timely(X)
      /\ \A e \in X : e.process = Job /\ e.event_type = START["cpu0"] /\ Role(e) = "cpu0"
      /\ \A e, f \in X : e = f
      /\ \/ X = {} /\ k.busy /\ Range(k1.Q) = InLine("cpu0") \cup {Job}
         \/ X # {} /\ ~k.busy /\ InLine("cpu0") = {} /\ Range(k1.Q) = {}
  BY <1>5, <1>6 DEF JoinMoves
<1>8. /\ a \in EventRecord /\ a.event_type = "JOB_ARRIVAL" /\ a.process = IDcounter
      /\ Role(a) = "arrival" /\ IDcounter \notin processes
      /\ Timely({a}) /\ AllFit({a}, Others \cup X)
  <2>1. \A f \in X : f.process \in processes
    BY <1>2, <1>7, PlaceFacts
  <2> QED
    BY <1>2, <1>3, <2>1, ArrivalFacts
<1>9. /\ Good(event_queue') /\ Waiting' = Others \cup X \cup {a}
      /\ total_time' = Now
      /\ h.event_type = "JOB_ARRIVAL" /\ status' = status /\ TurnOrder
  <2>1. PICK es : es = JoinEvents(k, Job) \o <<a>>
    OBVIOUS
  <2>2. AtMostOne(<<a>>, {a})
    BY DEF AtMostOne
  <2>3. Turn("JOB_ARRIVAL", es) /\ Pushing(es, X, {a})
    BY <1>1, <1>3, <1>5, <1>6, <2>1, <2>2, PushingBoth
  <2>4. /\ Good(event_queue') /\ Waiting' = Others \cup X \cup {a}
        /\ total_time' = Now /\ front(event_queue).event_type = "JOB_ARRIVAL" /\ status' = status /\ TurnOrder
    BY <1>7, <1>8, <2>3, TurnFacts
  <2> QED
    BY <1>3, <2>4
<1>10. Role(h) = "arrival"
  BY <1>4, <1>9, Roles
<1>11. /\ processes' = processes \cup {IDcounter} /\ IDcounter' = IDcounter + 1
       /\ component' = [component EXCEPT !["cpu0"] = k1] /\ longest' = longest
       /\ component \in [Components -> Station] /\ "cpu0" \in Components
  BY <1>1, <1>5 DEF NewProcess, IInv, Typed, Components
<1>12. /\ component' \in [Components -> Station]
       /\ component'["cpu0"] = k1
       /\ \A d \in Components \ {"cpu0"} : component'[d] = component[d]
  BY <1>7, <1>11
<1>13. Typed'
  <2>1. IDcounter \in Nat \ {0} /\ 0 \in processes /\ processes \subseteq 0 .. IDcounter - 1
    BY DEF IInv, Typed
  <2>2. 0 \in processes' /\ processes' \subseteq 0 .. IDcounter' - 1 /\ IDcounter' \in Nat \ {0}
    BY <1>11, <2>1
  <2> QED
    BY <1>4, <1>9, <1>11, <1>12, <2>2 DEF IInv, Typed
<1>14. PICK N : N = X \cup {a}
  OBVIOUS
<1>15. Waiting' = Others \cup N /\ Timely(N)
  BY <1>7, <1>8, <1>9, <1>14 DEF Timely
<1>16. InTime'
  BY <1>2, <1>9, <1>15, TurnTimes
<1>17. OneRole' /\ BusyWorks'
  <2>1. \A e, f \in N : Role(e) = Role(f) => e = f
    BY <1>7, <1>8, <1>14
  <2>2. \A e \in N : \A f \in Others : Role(e) # Role(f)
    BY <1>4, <1>5, <1>7, <1>8, <1>10, <1>11, <1>14, FreeOfWork
  <2>3. \A c \in Components :
           component'[c].busy <=>
             (\E e \in N : Role(e) = c) \/ (component[c].busy /\ Role(front(event_queue)) # c)
    BY <1>3, <1>5, <1>7, <1>8, <1>10, <1>12, <1>14 DEF Components
  <2>4. \A c \in Components : ~component'[c].busy => component'[c].Q = <<>>
    BY <1>7, <1>12 DEF IInv, BusyWorks
  <2> QED
    BY <1>2, <1>15, <2>1, <2>2, <2>3, <2>4, WorkKept
<1>18. OnePlace'
  <2>1. /\ \A d \in Components \ {"cpu0"} : InLine(d)' = InLine(d)
        /\ InLine("cpu0")' = Range(k1.Q)
    BY <1>12 DEF InLine
  <2>2. Job \in processes \ {0}
    <3>1. Job # 0
      BY <1>4, <1>9, EventTypesAre DEF IInv, Arrivals
    <3> QED
      BY <1>2, <3>1, PlaceFacts
  <2>3. IDcounter # 0 /\ 0 \in processes
    BY DEF IInv, Typed
  <2>4. /\ \A f \in Others : f.process \in processes /\ f.process # Job
        /\ \A d \in Components : \A f \in Others : f.process \notin InLine(d)
        /\ \A d \in Components : Job \notin InLine(d)
        /\ \A d \in Components : InLine(d) \subseteq processes \ {0} /\ IsInjective(component[d].Q)
        /\ \A b, d \in Components : b # d => InLine(b) \cap InLine(d) = {}
        /\ \A p \in processes \ {0} :
              p = Job \/ (\E f \in Others : f.process = p) \/ (\E d \in Components : p \in InLine(d))
    BY <1>2, PlaceFacts
  <2>5. \A f \in Waiting' : f.process \in processes'
    BY <1>7, <1>8, <1>9, <1>11, <2>2, <2>4
  <2>6. \A d \in Components : InLine(d)' \subseteq processes' \ {0} /\ IsInjective(component'[d].Q)
    BY <1>7, <1>11, <1>12, <2>1, <2>2, <2>3, <2>4
  <2>7. \A b, d \in Components : b # d => InLine(b)' \cap InLine(d)' = {}
    BY <1>7, <1>11, <2>1, <2>4
  <2>8. \A d \in Components : \A f \in Waiting' : f.process \notin InLine(d)'
    BY <1>7, <1>8, <1>9, <1>11, <2>1, <2>2, <2>4
  <2>9. \A p \in processes' \ {0} :
          (\E f \in Waiting' : f.process = p) \/ \E d \in Components : p \in InLine(d)'
    <3>1. (\E f \in Waiting' : f.process = IDcounter) /\ Others \subseteq Waiting' /\ X \subseteq Waiting'
      BY <1>8, <1>9
    <3>2. \A d \in Components : InLine(d) \subseteq InLine(d)'
      BY <1>7, <2>1
    <3>3. (\E f \in Waiting' : f.process = Job) \/ Job \in InLine("cpu0")'
      BY <1>7, <2>1, <3>1
    <3> QED
      BY <1>11, <2>4, <3>1, <3>2, <3>3
  <2> QED
    BY <2>5, <2>6, <2>7, <2>8, <2>9 DEF OnePlace
<1>19. Arrivals'
  <2>1. \A e \in X : e \in EventRecord /\ Role(e) # "arrival" /\ e.process # 0
    <3>1. Job # 0
      BY <1>4, <1>9, EventTypesAre DEF IInv, Arrivals
    <3> QED
      BY <1>7, <3>1 DEF Timely
  <2>2. Role(front(event_queue)) = "arrival"
    BY <1>3, <1>10
  <2> QED
    BY <1>2, <1>8, <1>9, <1>11, <2>1, <2>2, NextArrives
<1>20. Within'
  <2>1. \A c \in Components : component'[c].time_busy = component[c].time_busy
    BY <1>5, <1>7, <1>12
  <2> QED
    BY <1>2, <1>9, <1>15, <2>1, WithinKept
<1>21. IInv'
  BY <1>9, <1>13, <1>16, <1>17, <1>18, <1>19, <1>20 DEF IInv
<1>22. Simulated
  <2>1. Job = Arrived + 1 /\ Arrived' = Job
    <3>1. Job = IDcounter - 1 /\ IDcounter > 1 /\ IDcounter \in Nat
      BY <1>4, <1>9 DEF IInv, Arrivals, Typed
    <3> QED
      BY <1>11, <1>21, <3>1, ArrivedNow, ArrivedThen
  <2>2. TakesIn("cpu0", Job)
    <3>1. Role(front(event_queue)) # "cpu0" /\ \A f \in N : Role(f) = "cpu0" => f.process = Job
      BY <1>3, <1>7, <1>8, <1>10, <1>14
    <3>2. component["cpu0"].busy =>
            /\ \A f \in N : Role(f) # "cpu0"
            /\ component'["cpu0"].Q = Append(component["cpu0"].Q, Job)
      BY <1>5, <1>7, <1>8, <1>11, <1>12, <1>14, JoinedQueue
    <3>3. ~component["cpu0"].busy =>
            /\ \E f \in N : Role(f) = "cpu0"
            /\ component'["cpu0"].Q = component["cpu0"].Q
      BY <1>5, <1>7, <1>11, <1>12, <1>14, JoinedQueue
    <3>4. PICK c \in Components : c = "cpu0"
      BY <1>11
    <3> QED
      BY <1>2, <1>15, <1>21, <3>1, <3>2, <3>3, <3>4, TakingIn
  <2>3. ASSUME NEW d \in Components \ {"cpu0"}
        PROVE  Stays(d)
    <3>1. Role(front(event_queue)) # d /\ \A f \in N : Role(f) # d
      BY <1>3, <1>7, <1>8, <1>10, <1>14 DEF Components
    <3>2. component'[d].Q = component[d].Q
      BY <1>12
    <3> QED
      BY <1>2, <1>15, <1>21, <3>1, <3>2, Staying
  <2> QED
    BY <2>1, <2>2, <2>3, SimulatesArrival
<1> QED
  BY <1>9, <1>21, <1>22

LEMMA ExitKeeps ==
  ASSUME IInv, job_exit
  PROVE  IInv' /\ TurnOrder /\ Simulated
<1>1. /\ Turn("JOB_EXIT", <<>>)
      /\ processes' = processes \ {Job}
      /\ component' = component /\ IDcounter' = IDcounter /\ longest' = longest
  BY DEF job_exit
<1>2. Continues
  BY <1>1 DEF Turn
<1>3. PICK h : h = front(event_queue)
  OBVIOUS
<1>4. /\ h \in Waiting /\ h \in EventRecord /\ Waiting \subseteq EventRecord
      /\ Now = h.arrival_time /\ Job = h.process /\ Now \in Nat
      /\ Others = Waiting \ {h}
      /\ \A f \in Others : f.process # Job /\ Role(f) # Role(h)
  BY <1>2, <1>3, FrontFacts
<1>5. /\ Good(event_queue') /\ Waiting' = Others
      /\ total_time' = Now
      /\ h.event_type = "JOB_EXIT" /\ status' = status /\ TurnOrder
  <2>1. PICK es, N : es = <<>> /\ N = {}
    OBVIOUS
  <2>2. Turn("JOB_EXIT", es) /\ Pushing(es, N, N)
    BY <1>1, <2>1 DEF Pushing
  <2>3. AllFit(N, Others) /\ AllFit(N, Others \cup N)
    BY <2>1 DEF AllFit
  <2>4. /\ Good(event_queue') /\ Waiting' = Others \cup N \cup N
        /\ total_time' = Now /\ front(event_queue).event_type = "JOB_EXIT" /\ status' = status /\ TurnOrder
    BY <2>2, <2>3, TurnFacts
  <2> QED
    BY <1>3, <2>1, <2>4
<1>6. Role(h) = "exit" /\ Job # 0
  BY <1>4, <1>5, Roles DEF IInv, Arrivals
<1>7. Typed'
  BY <1>1, <1>4, <1>5, <1>6 DEF IInv, Typed
<1>8. PICK N : N = {}
  OBVIOUS
<1>9. Waiting' = Others \cup N /\ Timely(N)
  BY <1>5, <1>8 DEF Timely
<1>10. InTime'
  BY <1>2, <1>5, <1>9, TurnTimes
<1>11. OneRole' /\ BusyWorks'
  <2>1. /\ \A e, f \in N : Role(e) = Role(f) => e = f
        /\ \A e \in N : \A f \in Others : Role(e) # Role(f)
    BY <1>8
  <2>2. \A c \in Components :
           component'[c].busy <=>
             (\E e \in N : Role(e) = c) \/ (component[c].busy /\ Role(front(event_queue)) # c)
    BY <1>1, <1>3, <1>6, <1>8 DEF Components
  <2>3. \A c \in Components : ~component'[c].busy => component'[c].Q = <<>>
    BY <1>1 DEF IInv, BusyWorks
  <2> QED
    BY <1>2, <1>9, <2>1, <2>2, <2>3, WorkKept
<1>12. OnePlace'
  <2>1. \A d \in Components : InLine(d)' = InLine(d) /\ component'[d].Q = component[d].Q
    BY <1>1 DEF InLine
  <2>2. \A f \in Waiting' : f.process \in processes' /\ \A d \in Components : f.process \notin InLine(d)
    BY <1>1, <1>2, <1>5, PlaceFacts
  <2>3. \A p \in processes' \ {0} :
          (\E f \in Waiting' : f.process = p) \/ \E d \in Components : p \in InLine(d)
    BY <1>1, <1>2, <1>5, PlaceFacts
  <2>4. /\ \A d \in Components : InLine(d) \subseteq processes' \ {0} /\ IsInjective(component[d].Q)
        /\ \A b, d \in Components : b # d => InLine(b) \cap InLine(d) = {}
    BY <1>1, <1>2, PlaceFacts
  <2> QED
    BY <2>1, <2>2, <2>3, <2>4 DEF OnePlace
<1>13. Arrivals'
  <2>1. \A e \in N : e \in EventRecord /\ Role(e) # "arrival" /\ e.process # 0
    BY <1>8
  <2>2. Role(front(event_queue)) # "arrival"
    BY <1>3, <1>6
  <2> QED
    BY <1>1, <1>2, <1>9, <2>1, <2>2, ArrivalsKept
<1>14. Within'
  <2>1. \A c \in Components : component'[c].time_busy = component[c].time_busy
    BY <1>1
  <2> QED
    BY <1>2, <1>5, <1>9, <2>1, WithinKept
<1>15. IInv'
  BY <1>5, <1>7, <1>10, <1>11, <1>12, <1>13, <1>14 DEF IInv
<1>16. Simulated
  <2>1. ASSUME NEW d \in Components
        PROVE  Stays(d)
    <3>1. Role(front(event_queue)) # d /\ \A f \in N : Role(f) # d
      BY <1>3, <1>6, <1>8 DEF Components
    <3>2. component'[d].Q = component[d].Q
      BY <1>1
    <3> QED
      BY <1>2, <1>9, <1>15, <3>1, <3>2, Staying
  <2>2. Arrived' = Arrived
    BY <1>1, <1>15, ArrivedSame
  <2> QED
    BY <2>1, <2>2, SimulatesNothing
<1> QED
  BY <1>5, <1>15, <1>16

(* The disks take the process that leaves the CPU: Y is pushed for it, or  *)
(* one of them has it in its queue.                                        *)
DiskTakes(Y) ==
  /\ \A d \in Disks : component'[d].time_busy = component[d].time_busy
  /\ \A d \in Disks : component'[d].busy <=> component[d].busy \/ \E e \in Y : Role(e) = d
  /\ \A d \in Disks : ~component'[d].busy => component'[d].Q = <<>>
  /\ \/ Y # {} /\ \A d \in Disks : component'[d].Q = component[d].Q
     \/ /\ Y = {}
        /\ \E s \in Disks :
             /\ InLine(s)' = InLine(s) \cup {Job} /\ IsInjective(component'[s].Q)
             /\ \A d \in Disks \ {s} : component'[d].Q = component[d].Q

ForJob(Y) ==
  /\ Timely(Y)
  /\ \A e, f \in Y : e = f
  /\ \A e \in Y : /\ e.process = Job
                  /\ \/ Role(e) = "exit"
                     \/ Role(e) \in Disks /\ ~component[Role(e)].busy

LEMMA LeavesCpu ==
  ASSUME IInv, Continues, Role(front(event_queue)) = "cpu0",
         front(event_queue).event_type = "JOB_CPU_FINISH",
         NEW k1, NEW V, NEW X, AdvanceMoves("cpu0", k1, V, X),
         component' \in [Components -> Station], component'["cpu0"] = k1,
         NEW Y, ForJob(Y), DiskTakes(Y),
         Good(event_queue'), Waiting' = Others \cup X \cup Y, total_time' = Now,
         processes' = processes, IDcounter' = IDcounter, status' = status, longest' = longest
  PROVE  IInv'
<1>1. PICK h : h = front(event_queue)
  OBVIOUS
<1>2. /\ h \in Waiting /\ h \in EventRecord /\ Waiting \subseteq EventRecord
      /\ Now = h.arrival_time /\ Job = h.process /\ Now \in Nat
      /\ Others = Waiting \ {h}
      /\ \A f \in Others : f.process # Job /\ Role(f) # Role(h)
      /\ \A f \in Waiting : f.event_type # "JOB_EXIT"
  BY <1>1, FrontFacts
<1>3. /\ k1 \in Station /\ IsInjective(k1.Q)
      /\ k1.time_busy = component["cpu0"].time_busy
      /\ Timely(X)
      /\ \A e \in X : e.process \in InLine("cpu0") /\ Role(e) = "cpu0"
      /\ \A e, f \in X : e = f
      /\ \/ X = {} /\ ~k1.busy /\ k1.Q = <<>> /\ InLine("cpu0") = {} /\ Range(k1.Q) = {}
         \/ k1.busy /\ \E e \in X : Range(k1.Q) = InLine("cpu0") \ {e.process}
  BY DEF AdvanceMoves
<1>4. /\ Components = {"cpu0"} \cup Disks /\ "cpu0" \notin Disks /\ "exit" \notin Components
      /\ "arrival" \notin Components /\ "arrival" # "exit"
  BY DEF Components, Disks
<1>5. Typed'
  BY <1>2 DEF IInv, Typed
<1>6. PICK N : N = X \cup Y
  OBVIOUS
<1>7. /\ Timely(Y)
      /\ \A e, f \in Y : e = f
      /\ \A e \in Y : /\ e.process = Job
                      /\ \/ Role(e) = "exit"
                         \/ Role(e) \in Disks /\ ~component[Role(e)].busy
  BY DEF ForJob
<1>8. Waiting' = Others \cup N /\ Timely(N) /\ \A e \in N : e \in EventRecord
  BY <1>3, <1>6, <1>7 DEF Timely
<1>9. InTime'
  BY <1>8, TurnTimes
<1>10. OneRole' /\ BusyWorks'
  <2>1. \A e, f \in N : Role(e) = Role(f) => e = f
    BY <1>3, <1>4, <1>6, <1>7
  <2>2. \A e \in X : \A f \in Others : Role(e) # Role(f)
    BY <1>1, <1>2, <1>3
  <2>3. \A e \in Y : \A f \in Others : Role(e) # Role(f)
    <3>1. \A f \in Others : Role(f) # "exit"
      BY <1>2, Roles
    <3> QED
      BY <1>2, <1>4, <1>7, <3>1, FreeOfWork
  <2>4. \A c \in Disks :
           component'[c].busy <=>
             (\E e \in N : Role(e) = c) \/ (component[c].busy /\ Role(front(event_queue)) # c)
    BY <1>3, <1>4, <1>6 DEF DiskTakes
  <2>5. component'["cpu0"].busy <=> \E e \in N : Role(e) = "cpu0"
    BY <1>3, <1>4, <1>6, <1>7
  <2>6. \A c \in Components :
           component'[c].busy <=>
             (\E e \in N : Role(e) = c) \/ (component[c].busy /\ Role(front(event_queue)) # c)
    BY <1>4, <2>4, <2>5
  <2>7. \A c \in Components : ~component'[c].busy => component'[c].Q = <<>>
    BY <1>3, <1>4 DEF DiskTakes
  <2>8. \A e \in N : \A f \in Others : Role(e) # Role(f)
    BY <1>6, <2>2, <2>3
  <2> QED
    BY <1>8, <2>1, <2>6, <2>7, <2>8, WorkKept
<1>11. Job # 0
  BY <1>1, <1>2 DEF IInv, Arrivals
<1>12. /\ \A f \in Others : f.process \in processes /\ f.process # Job
       /\ Job \in processes
       /\ \A d \in Components : \A f \in Others : f.process \notin InLine(d)
       /\ \A d \in Components : Job \notin InLine(d)
       /\ \A d \in Components : InLine(d) \subseteq processes \ {0} /\ IsInjective(component[d].Q)
       /\ \A b, d \in Components : b # d => InLine(b) \cap InLine(d) = {}
       /\ \A p \in processes \ {0} :
              p = Job \/ (\E f \in Others : f.process = p) \/ (\E d \in Components : p \in InLine(d))
  BY PlaceFacts
<1>13. OnePlace'
  <2>1. InLine("cpu0")' = Range(k1.Q) /\ InLine("cpu0")' \subseteq InLine("cpu0")
    BY <1>3 DEF InLine
  <2>2. /\ \A d \in Disks : IsInjective(component'[d].Q)
        /\ \/ Y # {} /\ \A d \in Disks : InLine(d)' = InLine(d)
           \/ /\ Y = {}
              /\ \E s \in Disks : /\ InLine(s)' = InLine(s) \cup {Job}
                                  /\ \A d \in Disks \ {s} : InLine(d)' = InLine(d)
    BY <1>4, <1>12 DEF DiskTakes, InLine
  <2>3. \A f \in Waiting' : f.process \in processes'
    BY <1>3, <1>4, <1>7, <1>12
  <2>4. \A d \in Components : InLine(d)' \subseteq processes' \ {0} /\ IsInjective(component'[d].Q)
    BY <1>3, <1>4, <1>11, <1>12, <2>1, <2>2
  <2>5. \A b, d \in Components : b # d => InLine(b)' \cap InLine(d)' = {}
    BY <1>4, <1>12, <2>1, <2>2
  <2>6. \A d \in Components : \A f \in Waiting' : f.process \notin InLine(d)'
    <3>1. \A f \in Others : \A d \in Components : f.process \notin InLine(d)'
      BY <1>4, <1>12, <2>1, <2>2
    <3>2. \A f \in X : \A d \in Components : f.process \notin InLine(d)'
      BY <1>3, <1>4, <1>12, <2>1, <2>2
    <3>3. \A f \in Y : \A d \in Components : f.process \notin InLine(d)'
      BY <1>4, <1>7, <1>12, <2>1, <2>2
    <3> QED
      BY <3>1, <3>2, <3>3
  <2>7. \A p \in processes' \ {0} :
          (\E f \in Waiting' : f.process = p) \/ \E d \in Components : p \in InLine(d)'
    <3>1. (\E f \in Waiting' : f.process = Job) \/ \E d \in Components : Job \in InLine(d)'
      BY <1>4, <1>7, <2>2
    <3>2. \A d \in Disks : InLine(d) \subseteq InLine(d)'
      BY <2>2
    <3>3. \A p \in InLine("cpu0") : (\E f \in X : f.process = p) \/ p \in InLine("cpu0")'
      BY <1>3, <2>1
    <3>4. \A d \in Components : \A p \in InLine(d) :
            (\E f \in X : f.process = p) \/ p \in InLine(d)'
      BY <1>4, <3>2, <3>3
    <3> QED
      BY <1>12, <3>1, <3>4
  <2> QED
    BY <2>3, <2>4, <2>5, <2>6, <2>7 DEF OnePlace
<1>14. Arrivals'
  <2>1. \A e \in N : e \in EventRecord /\ Role(e) # "arrival" /\ e.process # 0
    BY <1>3, <1>4, <1>6, <1>7, <1>8, <1>11, <1>12
  <2>2. Role(front(event_queue)) # "arrival"
    BY <1>4
  <2> QED
    BY <1>8, <2>1, <2>2, ArrivalsKept
<1>15. Within'
  <2>1. \A c \in Components : component'[c].time_busy = component[c].time_busy
    BY <1>3, <1>4 DEF DiskTakes
  <2> QED
    BY <1>8, <2>1, WithinKept
<1> QED
  BY <1>5, <1>9, <1>10, <1>13, <1>14, <1>15 DEF IInv

LEMMA OneToSeq ==
  ASSUME NEW e, NEW S, S = {e}
  PROVE  AtMostOne(SetToSeq(S), S)
<1>1. IsFiniteSet(S) /\ Cardinality(S) = 1
  BY FS_Singleton
<1>2. SetToSeq(S) = CHOOSE f \in [1 .. 1 -> S] : IsInjective(f)
  BY <1>1 DEF SetToSeq
<1>3. \E f \in [1 .. 1 -> S] : IsInjective(f)
  <2>1. [i \in 1 .. 1 |-> e] \in [1 .. 1 -> S] /\ IsInjective([i \in 1 .. 1 |-> e])
    BY DEF IsInjective
  <2> QED
    BY <2>1
<1>4. PICK f : f = SetToSeq(S)
  OBVIOUS
<1>5. f \in [1 .. 1 -> S]
  BY <1>2, <1>3, <1>4
<1>6. f = <<e>>
  <2>1. 1 .. 1 = {1}
    OBVIOUS
  <2>2. f[1] = e /\ DOMAIN f = 1 .. 1 /\ f = [i \in 1 .. 1 |-> f[i]]
    BY <1>5, <2>1
  <2>3. f = [i \in 1 .. 1 |-> e]
    BY <2>1, <2>2
  <2> QED
    BY <2>3
<1> QED
  BY <1>4, <1>6 DEF AtMostOne

(* The process that leaves the CPU may be pushed after X.                  *)
LEMMA JobFits ==
  ASSUME IInv, Continues, front(event_queue).event_type = "JOB_CPU_FINISH",
         NEW k1, NEW V, NEW X, AdvanceMoves("cpu0", k1, V, X),
         NEW y \in EventRecord, y.process = Job, Now <= y.arrival_time,
         y.event_type # "JOB_CPU_FINISH"
  PROVE  AllFit({y}, Others \cup X)
<1>1. PICK h : h = front(event_queue)
  OBVIOUS
<1>2. /\ h \in EventRecord /\ Waiting \subseteq EventRecord /\ Others \subseteq Waiting
      /\ \A f \in Others : f.process # Job /\ Role(f) # Role(h)
  BY <1>1, FrontFacts
<1>3. "cpu0" \in Components
  BY DEF Components
<1>4. FINISH["cpu0"] = "JOB_CPU_FINISH" /\ START["cpu0"] # "JOB_CPU_FINISH"
  BY <1>3, EventTypesAre
<1>5. Role(h) = "cpu0"
  BY <1>1, <1>2, <1>3, <1>4, Roles
<1>6. \A f \in Others : f.event_type # "JOB_CPU_FINISH"
  BY <1>2, <1>3, <1>4, <1>5, Roles
<1>7. \A f \in X : f.event_type = START["cpu0"] /\ f.process # Job
  BY <1>3, PlaceFacts DEF AdvanceMoves
<1>8. \A f \in Others \cup X : y.process # f.process
  BY <1>2, <1>7
<1>9. \A f \in Others \cup X : f.event_type # "JOB_CPU_FINISH"
  BY <1>4, <1>6, <1>7
<1>10. Fits(y, Others \cup X)
  BY <1>8, <1>9, FitsNow
<1> QED
  BY <1>10 DEF AllFit

(* The CPU moves its queue along.                                          *)
LEMMA CpuAdvances ==
  ASSUME IInv, NEW es, Turn(FINISH["cpu0"], es), NEW k1, k1 = Advanced(component["cpu0"])
  PROVE  /\ Continues /\ Role(front(event_queue)) = "cpu0"
         /\ front(event_queue).event_type = "JOB_CPU_FINISH"
         /\ \E X : AtMostOne(AdvanceEvents("cpu0"), X) /\ AdvanceMoves("cpu0", k1, {}, X)
<1>1. Continues /\ front(event_queue).event_type = FINISH["cpu0"]
  BY DEF Turn
<1>2. "cpu0" \in Components
  BY DEF Components
<1>3. FINISH["cpu0"] = "JOB_CPU_FINISH"
  BY <1>2, EventTypesAre
<1>4. PICK h : h = front(event_queue)
  OBVIOUS
<1>5. h \in EventRecord
  BY <1>1, <1>4, FrontFacts
<1>6. Role(h) = "cpu0"
  BY <1>1, <1>2, <1>4, <1>5, Roles
<1>7. PICK V, c : V = {} /\ c = "cpu0"
  OBVIOUS
<1>8. c \in Components /\ k1 = Advanced(component[c]) /\ \A f \in V : f.process \notin InLine(c)
  BY <1>2, <1>7
<1>9. \E X : AtMostOne(AdvanceEvents(c), X) /\ AdvanceMoves(c, k1, V, X)
  BY <1>1, <1>8, AdvanceOne
<1> QED
  BY <1>1, <1>3, <1>4, <1>6, <1>7, <1>9

(* What the network sees of the processor then.                            *)
LEMMA CpuMovesOn ==
  ASSUME IInv, Continues, IInv', Role(front(event_queue)) = "cpu0",
         NEW k1, k1 = Advanced(component["cpu0"]),
         NEW V, NEW X, AtMostOne(AdvanceEvents("cpu0"), X), AdvanceMoves("cpu0", k1, V, X),
         NEW Y, \A e \in Y : Role(e) # "cpu0",
         Waiting' = Others \cup X \cup Y, component'["cpu0"] = k1
  PROVE  MovesOn("cpu0") /\ JobOf("cpu0") = Job /\ Job # -1
<1>1. PICK c \in Components : c = "cpu0"
  BY DEF Components
<1>2. PICK N : N = X \cup Y
  OBVIOUS
<1>3. Waiting' = Others \cup N /\ X \in SUBSET N
  BY <1>2
<1>4. \A e \in X : Role(e) = c
  BY <1>1 DEF AdvanceMoves
<1>5. \A e \in N : Role(e) = c <=> e \in X
  BY <1>1, <1>2, <1>4
<1>6. /\ Role(front(event_queue)) = c /\ AtMostOne(AdvanceEvents(c), X)
      /\ k1 = Advanced(component[c]) /\ component'[c].Q = k1.Q
  BY <1>1
<1>7. MovesOn(c)
  BY <1>3, <1>5, <1>6, MovingOn
<1>8. JobOf(c) = Job
  BY <1>3, <1>6, ServesNext
<1>9. PICK h : h = front(event_queue)
  OBVIOUS
<1>10. Job \in Nat
  BY <1>9, FrontFacts
<1> QED
  BY <1>1, <1>7, <1>8, <1>10

LEMMA QuitKeeps ==
  ASSUME IInv, QuitAfterCpu, SameProcesses, UNCHANGED longest
  PROVE  IInv' /\ TurnOrder /\ Simulated
<1>1. PICK y, k1 : y = Event("JOB_EXIT", Job, Now) /\ k1 = Advanced(component["cpu0"])
  OBVIOUS
<1>2. PICK es : es = AdvanceEvents("cpu0") \o <<y>>
  OBVIOUS
<1>3. /\ Turn(FINISH["cpu0"], es)
      /\ component' = [component EXCEPT !["cpu0"] = k1]
      /\ processes' = processes /\ IDcounter' = IDcounter /\ longest' = longest
  BY <1>1, <1>2 DEF QuitAfterCpu, SameProcesses
<1>4. /\ Continues /\ Role(front(event_queue)) = "cpu0"
      /\ front(event_queue).event_type = "JOB_CPU_FINISH"
  BY <1>1, <1>3, CpuAdvances
<1>5. PICK X : AtMostOne(AdvanceEvents("cpu0"), X) /\ AdvanceMoves("cpu0", k1, {}, X)
  BY <1>1, <1>3, CpuAdvances
<1>6. PICK h : h = front(event_queue)
  OBVIOUS
<1>7. Now \in Nat /\ Job \in Nat
  BY <1>4, <1>6, FrontFacts
<1>8. /\ y \in EventRecord /\ y.event_type = "JOB_EXIT" /\ y.process = Job /\ y.arrival_time = Now
      /\ Role(y) = "exit"
  <2>1. "JOB_EXIT" \in EventTypes
    BY EventTypesAre
  <2>2. y.event_type = "JOB_EXIT" /\ y.process = Job /\ y.arrival_time = Now /\ y \in EventRecord
    BY <1>1, <1>7, <2>1, EventFields
  <2> QED
    BY <2>2, Roles
<1>9. AllFit({y}, Others \cup X)
  <2>1. Now <= y.arrival_time
    BY <1>7, <1>8
  <2> QED
    BY <1>4, <1>5, <1>8, <2>1, JobFits
<1>10. AllFit(X, Others)
  BY <1>5 DEF AdvanceMoves, AllFit
<1>11. /\ Good(event_queue') /\ Waiting' = Others \cup X \cup {y}
       /\ total_time' = Now /\ status' = status /\ TurnOrder
  <2>1. AtMostOne(<<y>>, {y})
    BY DEF AtMostOne
  <2>2. Pushing(es, X, {y})
    BY <1>2, <1>5, <2>1, PushingBoth
  <2> QED
    BY <1>3, <1>9, <1>10, <2>2, TurnFacts
<1>12. PICK Y : Y = {y}
  OBVIOUS
<1>13. ForJob(Y)
  BY <1>7, <1>8, <1>12 DEF ForJob, Timely
<1>14. /\ component' \in [Components -> Station] /\ component'["cpu0"] = k1
       /\ \A d \in Disks : component'[d] = component[d]
  <2>1. component \in [Components -> Station] /\ k1 \in Station
    BY <1>5 DEF IInv, Typed, AdvanceMoves
  <2> QED
    BY <1>3, <2>1 DEF Components, Disks
<1>15. DiskTakes(Y)
  <2>1. \A d \in Disks : d # "exit" /\ d \in Components
    BY DEF Disks, Components
  <2>2. \A d \in Disks : ~component[d].busy => component[d].Q = <<>>
    BY <2>1 DEF IInv, BusyWorks
  <2> QED
    BY <1>8, <1>12, <1>14, <2>1, <2>2 DEF DiskTakes
<1>16. PICK V : V = {}
  OBVIOUS
<1>17. AdvanceMoves("cpu0", k1, V, X) /\ Waiting' = Others \cup X \cup Y
  BY <1>5, <1>11, <1>12, <1>16
<1>18. IInv'
  BY <1>3, <1>4, <1>11, <1>13, <1>14, <1>15, <1>17, LeavesCpu
<1>19. Simulated
  <2>1. \A e \in Y : Role(e) = "exit"
    BY <1>8, <1>12
  <2>2. MovesOn("cpu0") /\ JobOf("cpu0") # -1
    <3>1. component'["cpu0"] = k1 /\ \A e \in Y : Role(e) # "cpu0"
      BY <1>14, <2>1
    <3> QED
      BY <1>1, <1>4, <1>5, <1>17, <1>18, <3>1, CpuMovesOn
  <2>3. ASSUME NEW d \in Components \ {"cpu0"}
        PROVE  Stays(d)
    <3>1. PICK N : N = X \cup Y
      OBVIOUS
    <3>2. Waiting' = Others \cup N
      BY <1>17, <3>1
    <3>3. \A e \in X : Role(e) = "cpu0"
      BY <1>5 DEF AdvanceMoves
    <3>4. Role(front(event_queue)) # d /\ \A f \in N : Role(f) # d
      BY <1>4, <2>1, <3>1, <3>3 DEF Components
    <3>5. component'[d].Q = component[d].Q
      BY <1>14 DEF Components, Disks
    <3> QED
      BY <1>4, <1>18, <3>2, <3>4, <3>5, Staying
  <2>4. Arrived' = Arrived
    BY <1>3, <1>18, ArrivedSame
  <2> QED
    BY <2>2, <2>3, <2>4, SimulatesEnd
<1> QED
  BY <1>11, <1>18, <1>19

(* Where the process goes: to a disk that is free, the first if both are,  *)
(* or else to the shorter line.                                            *)
LEMMA DiskLoad ==
  ASSUME IInv, NEW d \in Disks
  PROVE  /\ component[d].busy => Network!Load(d) = Len(component[d].Q) + 1
         /\ ~component[d].busy => Network!Load(d) = 0
         /\ Network!Load(d) \in Nat
<1>1. d \in Components
  BY DEF Disks, Components
<1>2. Network!Load(d) = Len(component[d].Q) + IF JobOf(d) = -1 THEN 0 ELSE 1
  BY <1>1 DEF Network!Load
<1>3. Len(component[d].Q) \in Nat
  <2>1. component[d].Q \in Seq(Nat)
    BY <1>1 DEF IInv, Typed, Station
  <2> QED
    BY <2>1
<1>4. CASE component[d].busy
  <2>1. JobOf(d) # -1
    BY <1>1, <1>4, FreeServesNone
  <2> QED
    BY <1>2, <1>3, <1>4, <2>1
<1>5. CASE ~component[d].busy
  <2>1. JobOf(d) = -1 /\ component[d].Q = <<>>
    BY <1>1, <1>5, FreeServesNone
  <2>2. Len(component[d].Q) = 0
    BY <2>1
  <2> QED
    BY <1>2, <1>5, <2>1, <2>2
<1> QED
  BY <1>4, <1>5

LEMMA FreeIsChosen ==
  ASSUME IInv, NEW d \in Disks, ~component[d].busy, d = "disk1" => component["disk0"].busy
  PROVE  Network!Choice(d)
<1>1. Network!Load(d) = 0
  BY DiskLoad
<1>2. ASSUME NEW e \in Disks \ {d}
      PROVE  Network!Load(d) < Network!Load(e) \/ (d = "disk0" /\ Network!Load(d) = Network!Load(e))
  <2>1. Network!Load(e) \in Nat
    BY DiskLoad
  <2>2. CASE d = "disk0"
    BY <1>1, <2>1, <2>2
  <2>3. CASE d = "disk1"
    <3>1. e = "disk0"
      BY <2>3 DEF Disks
    <3>2. component[e].busy /\ component[e].Q \in Seq(Nat)
      BY <2>3, <3>1 DEF IInv, Typed, Station, Disks, Components
    <3>3. Network!Load(e) = Len(component[e].Q) + 1
      BY <3>2, DiskLoad
    <3> QED
      BY <1>1, <3>2, <3>3
  <2> QED
    BY <2>2, <2>3 DEF Disks
<1> QED
  BY <1>2 DEF Network!Choice, Network!Load

LEMMA ShorterIsChosen ==
  ASSUME IInv, \A e \in Disks : component[e].busy, NEW d, d = Shorter
  PROVE  d \in Disks /\ Network!Choice(d)
<1>1. d \in Disks
  BY DEF Shorter, Disks
<1>2. \A e \in Disks : Network!Load(e) = Len(component[e].Q) + 1 /\ Len(component[e].Q) \in Nat
  <2>1. ASSUME NEW e \in Disks
        PROVE  Network!Load(e) = Len(component[e].Q) + 1 /\ Len(component[e].Q) \in Nat
    <3>1. component[e].Q \in Seq(Nat)
      BY DEF IInv, Typed, Station, Disks, Components
    <3> QED
      BY <3>1, DiskLoad
  <2> QED
    BY <2>1
<1>3. "disk0" \in Disks /\ "disk1" \in Disks
  BY DEF Disks
<1>4. ASSUME NEW e \in Disks \ {d}
      PROVE  Network!Load(d) < Network!Load(e) \/ (d = "disk0" /\ Network!Load(d) = Network!Load(e))
  <2>1. CASE Len(component["disk0"].Q) <= Len(component["disk1"].Q)
    <3>1. d = "disk0" /\ e = "disk1"
      BY <2>1 DEF Shorter, Disks
    <3> QED
      BY <1>2, <1>3, <2>1, <3>1
  <2>2. CASE ~(Len(component["disk0"].Q) <= Len(component["disk1"].Q))
    <3>1. d = "disk1" /\ e = "disk0"
      BY <2>2 DEF Shorter, Disks
    <3> QED
      BY <1>2, <1>3, <2>2, <3>1
  <2> QED
    BY <2>1, <2>2
<1> QED
  BY <1>1, <1>4 DEF Network!Choice, Network!Load

LEMMA StartOnDiskKeeps ==
  ASSUME IInv, StartOnDisk, SameProcesses, UNCHANGED longest
  PROVE  IInv' /\ TurnOrder /\ Simulated
<1>1. /\ SomeDiskReady
      /\ processes' = processes /\ IDcounter' = IDcounter /\ longest' = longest
  BY DEF StartOnDisk, SameProcesses
<1>2. PICK t \in DISK_MIN .. DISK_MAX :
       /\ Turn(FINISH["cpu0"], AdvanceEvents("cpu0") \o
                 SetToSeq({Event(START[d], Job, Now + t) : d \in FirstReady}))
       /\ component' = [c \in Components |->
            IF c = "cpu0" THEN Advanced(component[c])
            ELSE [component[c] EXCEPT !.busy = @ \/ c \in FirstReady]]
  BY DEF StartOnDisk, random_integer
<1>3. t \in Nat
  BY ConfigAssumption
<1>4. PICK d \in Disks : /\ FirstReady = {d} /\ ~component[d].busy /\ component[d].Q = <<>>
                         /\ d = "disk1" => component["disk0"].busy
  <2>1. PICK s \in Disks : ~component[s].busy
    BY <1>1 DEF SomeDiskReady
  <2>2. component[s].Q = <<>>
    BY <2>1 DEF IInv, BusyWorks, Components, Disks
  <2>a. component["disk0"].busy \/ component["disk0"].Q = <<>>
    BY DEF IInv, BusyWorks, Components
  <2>3. CASE Ready("disk0")
    BY <2>3 DEF FirstReady, Ready, Disks
  <2>4. CASE ~Ready("disk0")
    <3>1. Ready("disk1")
      BY <2>1, <2>2, <2>4 DEF Ready, Disks
    <3>2. FirstReady = {"disk1"}
      BY <2>4, <3>1 DEF FirstReady
    <3>3. component["disk0"].busy
      BY <2>a, <2>4 DEF Ready
    <3> QED
      BY <3>1, <3>2, <3>3 DEF Ready, Disks
  <2> QED
    BY <2>3, <2>4
<1>5. PICK y, k1 : y = Event(START[d], Job, Now + t) /\ k1 = Advanced(component["cpu0"])
  OBVIOUS
<1>6. PICK Y : Y = {y}
  OBVIOUS
<1>7. PICK es : es = AdvanceEvents("cpu0") \o SetToSeq(Y)
  OBVIOUS
<1>8. /\ Turn(FINISH["cpu0"], es)
      /\ \A c \in Components : component'[c] =
            IF c = "cpu0" THEN k1 ELSE [component[c] EXCEPT !.busy = @ \/ c = d]
      /\ DOMAIN component' = Components
      /\ component' = [c \in Components |-> component'[c]]
  <2>1. {Event(START[s], Job, Now + t) : s \in FirstReady} = Y
    BY <1>4, <1>5, <1>6
  <2> QED
    BY <1>2, <1>4, <1>5, <1>7, <2>1
<1>9. /\ Continues /\ Role(front(event_queue)) = "cpu0"
      /\ front(event_queue).event_type = "JOB_CPU_FINISH"
  BY <1>5, <1>8, CpuAdvances
<1>10. PICK X : AtMostOne(AdvanceEvents("cpu0"), X) /\ AdvanceMoves("cpu0", k1, {}, X)
  BY <1>5, <1>8, CpuAdvances
<1>11. PICK h : h = front(event_queue)
  OBVIOUS
<1>12. Now \in Nat /\ Job \in Nat
  BY <1>9, <1>11, FrontFacts
<1>13. d \in Components /\ d # "cpu0" /\ "cpu0" \in Components
  BY DEF Disks, Components
<1>14. /\ y \in EventRecord /\ y.event_type = START[d] /\ y.process = Job
       /\ y.arrival_time = Now + t /\ Role(y) = d
       /\ START[d] # "JOB_CPU_FINISH" /\ START[d] # "JOB_EXIT"
  <2>1. START[d] \in EventTypes /\ START[d] # "JOB_CPU_FINISH" /\ START[d] # "JOB_EXIT"
    BY <1>13, EventTypesAre
  <2>2. Now + t \in Nat
    BY <1>3, <1>12
  <2>3. y.event_type = START[d] /\ y.process = Job /\ y.arrival_time = Now + t /\ y \in EventRecord
    BY <1>5, <1>12, <2>1, <2>2, EventFields
  <2> QED
    BY <1>13, <2>1, <2>3, Roles
<1>15. Now <= y.arrival_time
  BY <1>3, <1>12, <1>14
<1>16. AllFit({y}, Others \cup X)
  BY <1>9, <1>10, <1>14, <1>15, JobFits
<1>17. AllFit(X, Others)
  BY <1>10 DEF AdvanceMoves, AllFit
<1>18. /\ Good(event_queue') /\ Waiting' = Others \cup X \cup Y
       /\ total_time' = Now /\ status' = status /\ TurnOrder
  <2>1. AtMostOne(SetToSeq(Y), Y)
    BY <1>6, OneToSeq
  <2>2. Pushing(es, X, Y)
    BY <1>7, <1>10, <2>1, PushingBoth
  <2> QED
    BY <1>6, <1>8, <1>16, <1>17, <2>2, TurnFacts
<1>19. ForJob(Y)
  BY <1>4, <1>6, <1>14, <1>15 DEF ForJob, Timely
<1>20. \A s \in Disks : /\ component'[s] \in Station
                        /\ component'[s].Q = component[s].Q
                        /\ component'[s].time_busy = component[s].time_busy
                        /\ component'[s].busy <=> component[s].busy \/ s = d
  <2>1. ASSUME NEW s \in Disks
        PROVE  /\ component'[s] \in Station
               /\ component'[s].Q = component[s].Q
               /\ component'[s].time_busy = component[s].time_busy
               /\ component'[s].busy <=> component[s].busy \/ s = d
    <3>1. PICK k : k = component[s]
      OBVIOUS
    <3>2. k \in Station /\ s \in Components /\ s # "cpu0"
      BY <3>1 DEF IInv, Typed, Disks, Components
    <3>3. PICK b \in BOOLEAN : b = (k.busy \/ s = d)
      BY <3>2 DEF Station
    <3>4. component'[s] = [k EXCEPT !.busy = b]
      BY <1>8, <3>1, <3>2, <3>3
    <3> QED
      BY <3>1, <3>2, <3>3, <3>4 DEF Station
  <2> QED
    BY <2>1
<1>21. component' \in [Components -> Station] /\ component'["cpu0"] = k1
  <2>1. k1 \in Station
    BY <1>10 DEF AdvanceMoves
  <2>2. \A c \in Components : c = "cpu0" \/ c \in Disks
    BY DEF Components, Disks
  <2>3. \A c \in Components : component'[c] \in Station
    BY <1>8, <1>13, <1>20, <2>1, <2>2
  <2> QED
    BY <1>8, <1>13, <2>3
<1>22. DiskTakes(Y)
  <2>1. \A s \in Disks : ~component[s].busy => component[s].Q = <<>>
    BY DEF IInv, BusyWorks, Disks, Components
  <2> QED
    BY <1>6, <1>14, <1>20, <2>1 DEF DiskTakes
<1>23. PICK V : V = {}
  OBVIOUS
<1>24. AdvanceMoves("cpu0", k1, V, X)
  BY <1>10, <1>23
<1>25. IInv'
  BY <1>1, <1>9, <1>18, <1>19, <1>21, <1>22, <1>24, LeavesCpu
<1>26. Simulated
  <2>1. \A e \in Y : Role(e) = d /\ e.process = Job
    BY <1>6, <1>14
  <2>2. MovesOn("cpu0") /\ JobOf("cpu0") = Job /\ Job # -1
    <3>1. \A e \in Y : Role(e) # "cpu0"
      BY <1>13, <2>1
    <3> QED
      BY <1>5, <1>9, <1>10, <1>18, <1>21, <1>24, <1>25, <3>1, CpuMovesOn
  <2>3. PICK N : N = X \cup Y
    OBVIOUS
  <2>4. Waiting' = Others \cup N
    BY <1>18, <2>3
  <2>5. \A e \in X : Role(e) = "cpu0"
    BY <1>10 DEF AdvanceMoves
  <2>6. TakesIn(d, Job)
    <3>1. Role(front(event_queue)) # d /\ \A f \in N : Role(f) = d => f.process = Job
      BY <1>9, <1>13, <2>1, <2>3, <2>5
    <3>2. component[d].busy =>
            (\A f \in N : Role(f) # d) /\ component'[d].Q = Append(component[d].Q, Job)
      BY <1>4
    <3>3. ~component[d].busy => (\E f \in N : Role(f) = d) /\ component'[d].Q = component[d].Q
      BY <1>6, <1>20, <2>1, <2>3
    <3> QED
      BY <1>9, <1>13, <1>25, <2>4, <3>1, <3>2, <3>3, TakingIn
  <2>7. ASSUME NEW c \in Components \ {"cpu0", d}
        PROVE  Stays(c)
    <3>1. Role(front(event_queue)) # c /\ \A f \in N : Role(f) # c
      BY <1>9, <2>1, <2>3, <2>5
    <3>2. component'[c].Q = component[c].Q
      BY <1>20 DEF Components, Disks
    <3> QED
      BY <1>9, <1>25, <2>4, <3>1, <3>2, Staying
  <2>8. Arrived' = Arrived
    BY <1>1, <1>25, ArrivedSame
  <2>9. Network!Choice(d)
    BY <1>4, FreeIsChosen
  <2> QED
    BY <2>2, <2>6, <2>7, <2>8, <2>9, SimulatesDisk
<1> QED
  BY <1>18, <1>25, <1>26

LEMMA QueueAtDiskKeeps ==
  ASSUME IInv, QueueAtDisk, SameProcesses, UNCHANGED longest
  PROVE  IInv' /\ TurnOrder /\ Simulated
<1>1. /\ ~SomeDiskReady
      /\ processes' = processes /\ IDcounter' = IDcounter /\ longest' = longest
  BY DEF QueueAtDisk, SameProcesses
<1>2. PICK es, k1, s, t : /\ es = AdvanceEvents("cpu0") /\ k1 = Advanced(component["cpu0"])
                          /\ s = Shorter /\ t = Append(component[s].Q, Job)
  OBVIOUS
<1>3. s \in Disks /\ s \in Components /\ "cpu0" \in Components /\ s # "cpu0"
  BY <1>2 DEF Shorter, Disks, Components
<1>4. \A d \in Disks : component[d].busy
  BY <1>1 DEF SomeDiskReady, IInv, BusyWorks, Disks, Components
<1>5. Turn(FINISH["cpu0"], es)
  BY <1>2 DEF QueueAtDisk
<1>6. /\ Continues /\ Role(front(event_queue)) = "cpu0"
      /\ front(event_queue).event_type = "JOB_CPU_FINISH"
  BY <1>2, <1>5, CpuAdvances
<1>7. PICK X : AtMostOne(es, X) /\ AdvanceMoves("cpu0", k1, {}, X)
  BY <1>2, <1>5, CpuAdvances
<1>8. PICK h : h = front(event_queue)
  OBVIOUS
<1>9. Now \in Nat /\ Job \in Nat
  BY <1>6, <1>8, FrontFacts
<1>10. k1 \in Station /\ AllFit(X, Others)
  BY <1>7 DEF AdvanceMoves, AllFit
<1>11. PICK k : k = component[s]
  OBVIOUS
<1>12. component \in [Components -> Station] /\ k \in Station /\ k.Q \in Seq(Nat)
  BY <1>3, <1>11 DEF IInv, Typed, Station
<1>13. component' = [component EXCEPT !["cpu0"] = k1, ![s] = [k EXCEPT !.Q = t]]
  <2>1. component' = [component EXCEPT !["cpu0"] = Advanced(@), ![s].Q = Append(@, Job)]
    BY <1>2 DEF QueueAtDisk
  <2> QED
    BY <1>2, <1>3, <1>11, <1>12, <2>1
<1>14. t \in Seq(Nat) /\ OneMore(t, k.Q, Job)
  BY <1>2, <1>9, <1>11, <1>12, AppendRange
<1>15. PICK k2 : k2 = [k EXCEPT !.Q = t]
  OBVIOUS
<1>16. k2 \in Station /\ k2.busy = k.busy /\ k2.time_busy = k.time_busy /\ k2.Q = t
  BY <1>12, <1>14, <1>15 DEF Station
<1>17. /\ component' \in [Components -> Station] /\ component'["cpu0"] = k1
       /\ component'[s] = k2
       /\ \A d \in Disks \ {s} : component'[d] = component[d]
  <2>1. component' = [component EXCEPT !["cpu0"] = k1, ![s] = k2]
    BY <1>13, <1>15
  <2>2. PICK f : f = [component EXCEPT !["cpu0"] = k1]
    OBVIOUS
  <2>3. component' = [f EXCEPT ![s] = k2] /\ f \in [Components -> Station]
    BY <1>10, <1>12, <2>1, <2>2
  <2>4. f["cpu0"] = k1 /\ \A d \in Components \ {"cpu0"} : f[d] = component[d]
    BY <1>3, <1>12, <2>2
  <2>5. \A d \in Disks : d \in Components \ {"cpu0"}
    BY DEF Disks, Components
  <2> QED
    BY <1>3, <1>16, <2>3, <2>4, <2>5
<1>18. PICK Y, V : Y = {} /\ V = {}
  OBVIOUS
<1>19. ForJob(Y)
  BY <1>18 DEF ForJob, Timely
<1>20. DiskTakes(Y)
  <2>1. IsInjective(component[s].Q) /\ Job \notin Range(component[s].Q)
    BY <1>3, <1>6, PlaceFacts DEF InLine
  <2>2. InLine(s)' = InLine(s) \cup {Job} /\ IsInjective(component'[s].Q)
    BY <1>11, <1>14, <1>16, <1>17, <2>1 DEF OneMore, InLine
  <2>3. \A d \in Disks : /\ component'[d].time_busy = component[d].time_busy
                         /\ component'[d].busy <=> component[d].busy
                         /\ component'[d].busy
    BY <1>4, <1>11, <1>16, <1>17
  <2>4. \A d \in Disks \ {s} : component'[d].Q = component[d].Q
    BY <1>17
  <2> QED
    BY <1>3, <1>18, <2>2, <2>3, <2>4 DEF DiskTakes
<1>21. AdvanceMoves("cpu0", k1, V, X)
  BY <1>7, <1>18
<1>22. /\ Good(event_queue') /\ Waiting' = Others \cup X \cup Y
       /\ total_time' = Now /\ status' = status /\ TurnOrder
  <2>1. Pushing(es, X, Y)
    BY <1>7, <1>18, PushingOne
  <2>2. AllFit(Y, Others \cup X)
    BY <1>18 DEF AllFit
  <2> QED
    BY <1>5, <1>10, <2>1, <2>2, TurnFacts
<1>23. IInv'
  BY <1>1, <1>6, <1>17, <1>19, <1>20, <1>21, <1>22, LeavesCpu
<1>24. Simulated
  <2>1. MovesOn("cpu0") /\ JobOf("cpu0") = Job /\ Job # -1
    <3>1. \A e \in Y : Role(e) # "cpu0"
      BY <1>18
    <3>2. AtMostOne(AdvanceEvents("cpu0"), X) /\ component'["cpu0"] = k1
      BY <1>2, <1>7, <1>17
    <3> QED
      BY <1>2, <1>6, <1>21, <1>22, <1>23, <3>1, <3>2, CpuMovesOn
  <2>2. Waiting' = Others \cup X
    BY <1>18, <1>22
  <2>3. \A e \in X : Role(e) = "cpu0"
    BY <1>7 DEF AdvanceMoves
  <2>4. TakesIn(s, Job)
    <3>1. /\ Role(front(event_queue)) # s /\ \A f \in X : Role(f) # s
          /\ component[s].busy /\ component'[s].Q = Append(component[s].Q, Job)
      BY <1>2, <1>3, <1>4, <1>6, <1>16, <1>17, <2>3
    <3>2. \A f \in X : Role(f) = s => f.process = Job
      BY <3>1
    <3>3. component[s].busy =>
            (\A f \in X : Role(f) # s) /\ component'[s].Q = Append(component[s].Q, Job)
      BY <3>1
    <3>4. ~component[s].busy => (\E f \in X : Role(f) = s) /\ component'[s].Q = component[s].Q
      BY <3>1
    <3> QED
      BY <1>3, <1>6, <1>23, <2>2, <3>1, <3>2, <3>3, <3>4, TakingIn
  <2>5. ASSUME NEW c \in Components \ {"cpu0", s}
        PROVE  Stays(c)
    <3>1. Role(front(event_queue)) # c /\ \A f \in X : Role(f) # c
      BY <1>6, <2>3
    <3>2. component'[c].Q = component[c].Q
      BY <1>17 DEF Components, Disks
    <3> QED
      BY <1>6, <1>23, <2>2, <3>1, <3>2, Staying
  <2>6. Arrived' = Arrived
    BY <1>1, <1>23, ArrivedSame
  <2>7. Network!Choice(s)
    BY <1>2, <1>4, ShorterIsChosen
  <2> QED
    BY <1>3, <2>1, <2>4, <2>5, <2>6, <2>7, SimulatesDisk
<1> QED
  BY <1>22, <1>23, <1>24

LEMMA CpuFinishKeeps ==
  ASSUME IInv, handle_cpu_finish
  PROVE  IInv' /\ TurnOrder /\ Simulated
BY QuitKeeps, StartOnDiskKeeps, QueueAtDiskKeeps DEF handle_cpu_finish

LEMMA DiskFinishKeeps ==
  ASSUME IInv, NEW d \in Disks, handle_disk_finish(d)
  PROVE  IInv' /\ TurnOrder /\ Simulated
<1>1. PICK k, k1, l, l1 : /\ k = component["cpu0"] /\ k1 = Joined(k, Job)
                          /\ l = component[d] /\ l1 = Advanced(l)
  OBVIOUS
<1>2. PICK es : es = JoinEvents(k, Job) \o AdvanceEvents(d)
  OBVIOUS
<1>3. /\ Turn(FINISH[d], es) /\ Continues
      /\ component' = [component EXCEPT !["cpu0"] = k1, ![d] = l1]
      /\ processes' = processes /\ IDcounter' = IDcounter /\ longest' = longest
  <2>1. "cpu0" # d /\ component \in [Components -> Station]
    BY DEF Disks, IInv, Typed
  <2>2. /\ Turn(FINISH[d], es)
        /\ component' = [component EXCEPT !["cpu0"] = Joined(@, Job), ![d] = Advanced(@)]
        /\ processes' = processes /\ IDcounter' = IDcounter /\ longest' = longest
    BY <1>1, <1>2 DEF handle_disk_finish, SameProcesses
  <2> QED
    BY <1>1, <2>1, <2>2 DEF Turn
<1>4. PICK h : h = front(event_queue)
  OBVIOUS
<1>5. /\ h \in Waiting /\ h \in EventRecord /\ Waiting \subseteq EventRecord
      /\ Now = h.arrival_time /\ Job = h.process /\ Now \in Nat
      /\ Others = Waiting \ {h}
      /\ \A f \in Others : f.process # Job /\ Role(f) # Role(h)
  BY <1>3, <1>4, FrontFacts
<1>6. d \in Components /\ d # "cpu0" /\ "cpu0" \in Components /\ d # "arrival" /\ d # "exit"
  BY DEF Disks, Components
<1>7. h.event_type = FINISH[d] /\ Role(h) = d
  BY <1>3, <1>4, <1>5, <1>6, Roles DEF Turn
<1>8. Job # 0
  BY <1>5, <1>6, <1>7, EventTypesAre DEF IInv, Arrivals
<1>9. /\ \A f \in Others : f.process \in processes /\ f.process # Job
      /\ Job \in processes
      /\ \A c \in Components : \A f \in Others : f.process \notin InLine(c)
      /\ \A c \in Components : Job \notin InLine(c)
      /\ \A c \in Components : InLine(c) \subseteq processes \ {0} /\ IsInjective(component[c].Q)
      /\ \A b, c \in Components : b # c => InLine(b) \cap InLine(c) = {}
      /\ \A p \in processes \ {0} :
            p = Job \/ (\E f \in Others : f.process = p) \/ (\E c \in Components : p \in InLine(c))
  BY <1>3, PlaceFacts
<1>10. PICK X : AtMostOne(JoinEvents(k, Job), X) /\ JoinMoves(k1, X)
  BY <1>1, <1>3, JoinCpu
<1>11. /\ k1 \in Station /\ k1.busy /\ IsInjective(k1.Q)
       /\ k1.time_busy = k.time_busy
       /\ AllFit(X, Others) /\ Timely(X)
       /\ \A e \in X : e.process = Job /\ Role(e) = "cpu0"
       /\ \A e, f \in X : e = f
       /\ \/ X = {} /\ k.busy /\ Range(k1.Q) = InLine("cpu0") \cup {Job}
          \/ X # {} /\ ~k.busy /\ InLine("cpu0") = {} /\ Range(k1.Q) = {}
  BY <1>1, <1>10 DEF JoinMoves
<1>12. \A f \in X : f.process \notin InLine(d)
  BY <1>6, <1>9, <1>11
<1>13. PICK Y : AtMostOne(AdvanceEvents(d), Y) /\ AdvanceMoves(d, l1, X, Y)
  BY <1>1, <1>3, <1>6, <1>12, AdvanceOne
<1>14. /\ l1 \in Station /\ IsInjective(l1.Q) /\ l1.time_busy = l.time_busy
       /\ AllFit(Y, Others \cup X) /\ Timely(Y)
       /\ \A e \in Y : e.process \in InLine(d) /\ Role(e) = d
       /\ \A e, f \in Y : e = f
       /\ \/ Y = {} /\ ~l1.busy /\ l1.Q = <<>> /\ InLine(d) = {} /\ Range(l1.Q) = {}
          \/ l1.busy /\ \E e \in Y : Range(l1.Q) = InLine(d) \ {e.process}
  BY <1>1, <1>13 DEF AdvanceMoves
<1>15. /\ Good(event_queue') /\ Waiting' = Others \cup X \cup Y
       /\ total_time' = Now /\ status' = status /\ TurnOrder
  <2>1. Pushing(es, X, Y)
    BY <1>2, <1>10, <1>13, PushingBoth
  <2> QED
    BY <1>3, <1>11, <1>14, <2>1, TurnFacts
<1>16. /\ component' \in [Components -> Station]
       /\ component'["cpu0"] = k1 /\ component'[d] = l1
       /\ \A c \in Components \ {"cpu0", d} : component'[c] = component[c]
  <2>1. PICK f : f = [component EXCEPT !["cpu0"] = k1]
    OBVIOUS
  <2>2. component \in [Components -> Station]
    BY DEF IInv, Typed
  <2>3. component' = [f EXCEPT ![d] = l1] /\ f \in [Components -> Station]
    BY <1>3, <1>11, <2>1, <2>2
  <2>4. f["cpu0"] = k1 /\ \A c \in Components \ {"cpu0"} : f[c] = component[c]
    BY <1>6, <2>1, <2>2
  <2> QED
    BY <1>6, <1>14, <2>3, <2>4
<1>17. Typed'
  BY <1>3, <1>5, <1>15, <1>16 DEF IInv, Typed
<1>18. PICK N : N = X \cup Y
  OBVIOUS
<1>19. Waiting' = Others \cup N /\ Timely(N) /\ \A e \in N : e \in EventRecord
  BY <1>11, <1>14, <1>15, <1>18 DEF Timely
<1>20. InTime'
  BY <1>3, <1>15, <1>19, TurnTimes
<1>21. OneRole' /\ BusyWorks'
  <2>1. \A e, f \in N : Role(e) = Role(f) => e = f
    BY <1>6, <1>11, <1>14, <1>18
  <2>2. \A e \in X : \A f \in Others : Role(e) # Role(f)
    BY <1>1, <1>5, <1>6, <1>11, FreeOfWork
  <2>3. \A e \in Y : \A f \in Others : Role(e) # Role(f)
    BY <1>5, <1>7, <1>14
  <2>4. \A e \in N : \A f \in Others : Role(e) # Role(f)
    BY <1>18, <2>2, <2>3
  <2>5. ASSUME NEW c \in Components
        PROVE  component'[c].busy <=>
                 (\E e \in N : Role(e) = c) \/ (component[c].busy /\ Role(front(event_queue)) # c)
    <3>1. CASE c = "cpu0"
      BY <1>1, <1>4, <1>6, <1>7, <1>11, <1>16, <1>18, <3>1
    <3>2. CASE c = d
      BY <1>4, <1>6, <1>7, <1>11, <1>14, <1>16, <1>18, <3>2
    <3>3. CASE c # "cpu0" /\ c # d
      BY <1>4, <1>7, <1>11, <1>14, <1>16, <1>18, <3>3
    <3> QED
      BY <3>1, <3>2, <3>3
  <2>6. \A c \in Components : ~component'[c].busy => component'[c].Q = <<>>
    BY <1>11, <1>14, <1>16 DEF IInv, BusyWorks
  <2> QED
    BY <1>3, <1>19, <2>1, <2>4, <2>5, <2>6, WorkKept
<1>22. OnePlace'
  <2>1. /\ InLine("cpu0")' = Range(k1.Q) /\ InLine(d)' = Range(l1.Q)
        /\ \A c \in Components \ {"cpu0", d} : InLine(c)' = InLine(c)
    BY <1>16 DEF InLine
  <2>2. /\ \/ (\E f \in X : f.process = Job) /\ InLine("cpu0")' = InLine("cpu0")
           \/ X = {} /\ InLine("cpu0")' = InLine("cpu0") \cup {Job}
        /\ InLine(d)' \subseteq InLine(d)
        /\ \A e \in Y : e.process \notin InLine(d)'
        /\ \A p \in InLine(d) : (\E e \in Y : e.process = p) \/ p \in InLine(d)'
    BY <1>11, <1>14, <2>1
  <2>3. \A f \in Waiting' : f.process \in processes'
    BY <1>3, <1>6, <1>9, <1>11, <1>14, <1>15
  <2>4. \A c \in Components : InLine(c)' \subseteq processes' \ {0} /\ IsInjective(component'[c].Q)
    BY <1>3, <1>6, <1>8, <1>9, <1>11, <1>14, <1>16, <2>1, <2>2
  <2>5. \A b, c \in Components : b # c => InLine(b)' \cap InLine(c)' = {}
    BY <1>6, <1>9, <2>1, <2>2
  <2>6. \A c \in Components : \A f \in Waiting' : f.process \notin InLine(c)'
    <3>1. \A f \in Others : \A c \in Components : f.process \notin InLine(c)'
      BY <1>6, <1>9, <2>1, <2>2
    <3>2. \A f \in X : \A c \in Components : f.process \notin InLine(c)'
      BY <1>6, <1>9, <1>11, <2>1, <2>2
    <3>3. \A f \in Y : \A c \in Components : f.process \notin InLine(c)'
      BY <1>6, <1>9, <1>14, <2>1, <2>2
    <3> QED
      BY <1>15, <3>1, <3>2, <3>3
  <2>7. \A p \in processes' \ {0} :
          (\E f \in Waiting' : f.process = p) \/ \E c \in Components : p \in InLine(c)'
    <3>1. (\E f \in X : f.process = Job) \/ Job \in InLine("cpu0")'
      BY <2>2
    <3>2. \A c \in Components : \A p \in InLine(c) : (\E e \in Y : e.process = p) \/ p \in InLine(c)'
      BY <1>6, <2>1, <2>2
    <3> QED
      BY <1>3, <1>6, <1>9, <1>15, <3>1, <3>2
  <2> QED
    BY <2>3, <2>4, <2>5, <2>6, <2>7 DEF OnePlace
<1>23. Arrivals'
  <2>1. \A e \in N : Role(e) # "arrival" /\ e.process # 0
    BY <1>6, <1>8, <1>9, <1>11, <1>14, <1>18
  <2>2. Role(front(event_queue)) # "arrival"
    BY <1>4, <1>6, <1>7
  <2> QED
    BY <1>3, <1>19, <2>1, <2>2, ArrivalsKept
<1>24. Within'
  <2>1. \A c \in Components : component'[c].time_busy = component[c].time_busy
    BY <1>1, <1>11, <1>14, <1>16
  <2> QED
    BY <1>3, <1>15, <1>19, <2>1, WithinKept
<1>25. IInv'
  BY <1>15, <1>17, <1>20, <1>21, <1>22, <1>23, <1>24 DEF IInv
<1>26. Simulated
  <2>1. JobOf(d) = Job /\ Job # -1
    <3>1. Job \in Nat
      BY <1>3, <1>4, FrontFacts
    <3>2. Role(front(event_queue)) = d
      BY <1>4, <1>7
    <3> QED
      BY <1>3, <1>6, <1>19, <1>25, <3>1, <3>2, ServesNext
  <2>2. TakesIn("cpu0", Job)
    <3>1. Role(front(event_queue)) # "cpu0" /\ \A f \in N : Role(f) = "cpu0" => f.process = Job
      BY <1>4, <1>6, <1>7, <1>11, <1>14, <1>18
    <3>a. k1 = Joined(component["cpu0"], Job) /\ component'["cpu0"].Q = k1.Q
      BY <1>1, <1>16
    <3>b. /\ component["cpu0"].busy => k1.Q = Append(component["cpu0"].Q, Job)
          /\ ~component["cpu0"].busy => k1.Q = component["cpu0"].Q
      BY <1>6, <3>a, JoinedQueue
    <3>2. component["cpu0"].busy =>
            /\ \A f \in N : Role(f) # "cpu0"
            /\ component'["cpu0"].Q = Append(component["cpu0"].Q, Job)
      BY <1>1, <1>6, <1>11, <1>14, <1>18, <3>a, <3>b
    <3>3. ~component["cpu0"].busy =>
            /\ \E f \in N : Role(f) = "cpu0"
            /\ component'["cpu0"].Q = component["cpu0"].Q
      BY <1>1, <1>6, <1>11, <1>18, <3>a, <3>b
    <3>4. PICK c \in Components : c = "cpu0"
      BY <1>6
    <3> QED
      BY <1>3, <1>19, <1>25, <3>1, <3>2, <3>3, <3>4, TakingIn
  <2>3. MovesOn(d)
    <3>1. Y \in SUBSET N /\ \A e \in N : Role(e) = d <=> e \in Y
      BY <1>6, <1>11, <1>14, <1>18
    <3>2. /\ Role(front(event_queue)) = d /\ AtMostOne(AdvanceEvents(d), Y)
          /\ l1 = Advanced(component[d]) /\ component'[d].Q = l1.Q
      BY <1>1, <1>4, <1>7, <1>13, <1>16
    <3> QED
      BY <1>3, <1>6, <1>19, <1>25, <3>1, <3>2, MovingOn
  <2>4. ASSUME NEW c \in Components \ {"cpu0", d}
        PROVE  Stays(c)
    <3>1. Role(front(event_queue)) # c /\ \A f \in N : Role(f) # c
      BY <1>4, <1>7, <1>11, <1>14, <1>18
    <3>2. component'[c].Q = component[c].Q
      BY <1>16
    <3> QED
      BY <1>3, <1>19, <1>25, <3>1, <3>2, Staying
  <2>5. Arrived' = Arrived
    BY <1>3, <1>25, ArrivedSame
  <2> QED
    BY <2>1, <2>2, <2>3, <2>4, <2>5, SimulatesReturn
<1> QED
  BY <1>15, <1>25, <1>26

LEMMA EndKeeps ==
  ASSUME IInv, handle_simulation_end
  PROVE  IInv' /\ Simulated
<1>1. /\ total_time' = total_time /\ event_queue' = event_queue /\ component' = component
      /\ IDcounter' = IDcounter /\ processes' = processes /\ longest' = longest
      /\ status' \in {"running", "ended", "crashed"}
  BY DEF handle_simulation_end
<1>2. Waiting' = Waiting
  BY <1>1 DEF Waiting, Agenda
<1>3. IInv'
  BY <1>1, <1>2
     DEF IInv, Typed, InTime, OneRole, BusyWorks, OnePlace, InLine, Arrivals, Within
<1>4. Simulated
  <2>1. /\ Arrived' = Arrived
        /\ \A c \in Components : JobOf(c)' = JobOf(c) /\ component'[c].Q = component[c].Q
    BY <1>1 DEF Arrived, NextArrival, JobOf, For, Pending, Agenda
  <2> QED
    BY <2>1, SimulatesNothing DEF Stays
<1> QED
  BY <1>3, <1>4

LEMMA InitKeeps ==
  ASSUME Init
  PROVE  IInv
<1>1. PICK e, q : e = Event("SIMULATION_START", 0, 0) /\ q = empty_queue
  OBVIOUS
<1>2. event_queue = push(q, e)
  BY <1>1 DEF Init
<1>3. e \in EventRecord /\ e.event_type = "SIMULATION_START" /\ e.process = 0 /\ e.arrival_time = 0
  BY <1>1, EventTypesAre, EventFields
<1>4. q.size = 0 /\ Ordered(EventRecord, q)
  BY <1>1, EmptyOrdered
<1>5. Events(q) \in [1 .. 0 -> EventRecord]
  <2>1. q \in Queue(EventRecord) /\ LinkedBy(q, Walk(q))
    BY <1>4 DEF Ordered, Linked
  <2> QED
    BY <1>4, <2>1, EventsValues
<1>6. PICK S : S = Events(q)
  OBVIOUS
<1>7. DOMAIN S = {} /\ Range(S) = {}
  BY <1>5, <1>6 DEF Range
<1>8. Good(q)
  BY <1>4, <1>6, <1>7 DEF Good, Distinct, ExitFirst
<1>9. PICK W, V : W = {} /\ V = W \cup {e}
  OBVIOUS
<1>10. W = Range(Events(q)) /\ Fits(e, W)
  BY <1>3, <1>6, <1>7, <1>9 DEF Fits
<1>11. PICK q1 : q1 = event_queue
  OBVIOUS
<1>12. q1 = push(q, e) /\ q.size <= 5
  BY <1>2, <1>4, <1>11
<1>13. Good(q1) /\ Range(Events(q1)) = V
  BY <1>8, <1>9, <1>10, <1>12, PushKeeps
<1>14. Good(event_queue) /\ Waiting = {e}
  BY <1>9, <1>11, <1>13 DEF Waiting, Agenda
<1>15. /\ total_time = 0 /\ component = [c \in Components |-> idle] /\ IDcounter = 1
       /\ processes = {0} /\ status = "running" /\ longest = [c \in Components |-> 0]
  BY DEF Init
<1>16. idle \in Station /\ idle.Q = <<>> /\ ~idle.busy /\ idle.time_busy = 0
  BY DEF idle, Station
<1>17. \A c \in Components : component[c] = idle
  BY <1>15
<1>18. \A c \in Components : InLine(c) = {} /\ IsInjective(component[c].Q)
  BY <1>16, <1>17 DEF InLine, Range, IsInjective
<1>19. Role(e) = "arrival" /\ \A c \in Components : Role(e) # c
  BY <1>3 DEF Role, Components
<1>20. Typed
  BY <1>15, <1>16 DEF Typed
<1>21. InTime /\ OneRole
  BY <1>3, <1>14, <1>15 DEF InTime, OneRole
<1>22. BusyWorks
  BY <1>14, <1>16, <1>17, <1>19 DEF BusyWorks
<1>23. OnePlace
  BY <1>3, <1>14, <1>15, <1>18 DEF OnePlace
<1>24. Arrivals
  BY <1>3, <1>14, <1>15, <1>19 DEF Arrivals
<1>25. Within
  BY <1>15, <1>16, <1>17 DEF Within
<1> QED
  BY <1>14, <1>20, <1>21, <1>22, <1>23, <1>24, <1>25 DEF IInv

LEMMA NextKeeps ==
  ASSUME IInv, Next
  PROVE  IInv' /\ (status' = status => TurnOrder) /\ Simulated
<1>1. CASE handle_simulation_start
  BY <1>1, SimulationStartKeeps
<1>2. CASE handle_job_arrival
  BY <1>2, JobArrivalKeeps
<1>3. CASE handle_cpu_start
  <2>1. PICK c \in Components, min \in Nat, max \in Nat : handle_start(c, min, max)
    BY <1>3, ConfigAssumption DEF handle_cpu_start, Components
  <2> QED
    BY <2>1, StartKeeps
<1>4. CASE handle_cpu_finish
  BY <1>4, CpuFinishKeeps
<1>5. ASSUME NEW d \in Disks, handle_disk_start(d)
      PROVE  IInv' /\ TurnOrder /\ Simulated
  <2>1. PICK c \in Components, min \in Nat, max \in Nat : handle_start(c, min, max)
    BY <1>5, ConfigAssumption DEF handle_disk_start, Components, Disks
  <2> QED
    BY <2>1, StartKeeps
<1>6. ASSUME NEW d \in Disks, handle_disk_finish(d)
      PROVE  IInv' /\ TurnOrder /\ Simulated
  BY <1>6, DiskFinishKeeps
<1>7. CASE job_exit
  BY <1>7, ExitKeeps
<1>8. CASE handle_simulation_end
  <2>1. status = "running" /\ status' \in {"crashed", "ended"}
    BY <1>8 DEF handle_simulation_end
  <2> QED
    BY <1>8, <2>1, EndKeeps
<1> QED
  BY <1>1, <1>2, <1>3, <1>4, <1>5, <1>6, <1>7, <1>8 DEF Next

LEMMA StutterKeeps ==
  ASSUME IInv, UNCHANGED vars
  PROVE  IInv'
<1>1. /\ total_time' = total_time /\ event_queue' = event_queue /\ component' = component
      /\ IDcounter' = IDcounter /\ processes' = processes /\ longest' = longest /\ status' = status
  BY DEF vars
<1>2. Waiting' = Waiting
  BY <1>1 DEF Waiting, Agenda
<1> QED
  BY <1>1, <1>2
     DEF IInv, Typed, InTime, OneRole, BusyWorks, OnePlace, InLine, Arrivals, Within

(* Whatever the handlers draw, one event stands for the next arrival and   *)
(* one for the work of every busy component, no two events are about the   *)
(* same process, and an exit is due at once: the invariant of the main     *)
(* loop (main.cpp:125-190).                                                *)
THEOREM SimulatorInvariant == Spec => []IInv
<1>1. Init => IInv
  BY InitKeeps
<1>2. IInv /\ [Next]_vars => IInv'
  BY NextKeeps, StutterKeeps
<1> QED
  BY <1>1, <1>2, PTL DEF Spec

-----------------------------------------------------------------------------
(* What the invariant implies.                                             *)

(* The events in the order of the list, as the properties index them.      *)
LEMMA AgendaFacts ==
  ASSUME IInv, NEW n, n = event_queue.size
  PROVE  /\ n \in Nat /\ Agenda \in [1 .. n -> EventRecord] /\ DOMAIN Agenda = 1 .. n
         /\ \A i \in DOMAIN Agenda : Agenda[i] \in Waiting
         /\ \A e \in Waiting : \E i \in DOMAIN Agenda : e = Agenda[i]
         /\ \A i, j \in DOMAIN Agenda : Agenda[i].process = Agenda[j].process => i = j
<1>1. Good(event_queue)
  BY DEF IInv
<1>2. n \in Nat /\ Agenda \in [1 .. n -> EventRecord]
  BY <1>1, GoodType DEF Agenda
<1>3. \A i, j \in DOMAIN Agenda : Agenda[i].process = Agenda[j].process => i = j
  BY <1>1 DEF Good, Distinct, Agenda
<1> QED
  BY <1>2, <1>3 DEF Waiting, Range

LEMMA TypeHolds ==
  ASSUME IInv
  PROVE  TypeOK
<1>1. Good(event_queue) /\ Typed
  BY DEF IInv
<1>2. Ordered(EventRecord, event_queue) /\ event_queue \in Queue(EventRecord)
  BY <1>1 DEF Good, Ordered
<1>3. /\ event_queue.size = Cardinality(DOMAIN event_queue.node)
      /\ DOMAIN event_queue.node \subseteq Addresses
  BY <1>2, NodesCounted, QueueFields
<1>4. PICK n : n = event_queue.size
  OBVIOUS
<1>5. \A i \in DOMAIN Agenda : Agenda[i] \in EventRecord /\ Agenda[i].process \in processes
  BY <1>4, AgendaFacts DEF IInv, OnePlace
<1>6. component \in [Components -> Record]
  <2>1. ASSUME NEW c \in Components
        PROVE  component[c] \in Record
    <3>1. PICK k : k = component[c]
      OBVIOUS
    <3>2. k \in Station /\ Range(k.Q) \subseteq processes
      BY <3>1 DEF IInv, Typed, OnePlace, InLine
    <3>3. k.Q \in Seq(processes)
      <4>1. k.Q \in Seq(Nat)
        BY <3>2 DEF Station
      <4>2. Len(k.Q) \in Nat /\ k.Q \in [1 .. Len(k.Q) -> Nat]
        BY <4>1
      <4>3. k.Q \in [1 .. Len(k.Q) -> processes]
        BY <3>2, <4>2 DEF Range
      <4> QED
        BY <4>2, <4>3
    <3> QED
      BY <3>1, <3>2, <3>3 DEF Station, Record
  <2> QED
    BY <1>1, <2>1 DEF Typed
<1> QED
  BY <1>1, <1>3, <1>5, <1>6 DEF Typed, TypeOK

LEMMA ListHolds ==
  ASSUME IInv
  PROVE  ListInOrder
<1>1. PICK q, s, n : q = event_queue /\ s = Walk(q) /\ n = q.size
  OBVIOUS
<1>2. /\ n \in Nat /\ Agenda \in [1 .. n -> EventRecord] /\ DOMAIN Agenda = 1 .. n
      /\ \A i \in DOMAIN Agenda : Agenda[i] \in Waiting
  BY <1>1, AgendaFacts
<1>3. Ordered(EventRecord, q) /\ q \in Queue(EventRecord) /\ LinkedBy(q, s)
  BY <1>1 DEF IInv, Good, Ordered, Linked
<1>4. \A i \in 1 .. n : TimeAt(q, s[i]) = Agenda[i].arrival_time
  BY <1>1, <1>3, EventsValues DEF Agenda
<1>5. IsInjective(s) /\ Range(s) = DOMAIN q.node
  BY <1>3 DEF LinkedBy
<1>6. q.size > 0 => s[1] = q.head /\ s[q.size] = q.tail
  BY <1>3 DEF LinkedBy
<1>7. \A i \in 2 .. n : q.node[s[i]].prev = s[i - 1]
  <2>1. \A i \in 1 .. n - 1 : q.node[s[i + 1]].prev = s[i]
    BY <1>1, <1>3 DEF LinkedBy
  <2>2. \A i \in 2 .. n : i - 1 \in 1 .. n - 1 /\ (i - 1) + 1 = i
    BY <1>2
  <2> QED
    BY <2>1, <2>2
<1>8. \A i \in 2 .. n : TimeAt(q, s[i - 1]) <= TimeAt(q, s[i])
  <2>1. \A i, j \in 1 .. n : i < j => TimeAt(q, s[i]) <= TimeAt(q, s[j])
    BY <1>1, <1>3 DEF Ordered
  <2>2. \A i \in 2 .. n : i - 1 \in 1 .. n /\ i \in 1 .. n /\ i - 1 < i
    BY <1>2
  <2> QED
    BY <2>1, <2>2
<1>9. \A i \in 1 .. n : total_time <= TimeAt(q, s[i])
  BY <1>2, <1>4 DEF IInv, InTime
<1> QED
  BY <1>1, <1>5, <1>6, <1>7, <1>8, <1>9 DEF ListInOrder

LEMMA BusyHolds ==
  ASSUME IInv
  PROVE  BusyHasOneEvent
<1>1. ASSUME NEW c \in Components
      PROVE  Cardinality(For(c)) = IF component[c].busy THEN 1 ELSE 0
  <2>1. PICK n : n = event_queue.size
    OBVIOUS
  <2>2. /\ Agenda \in [1 .. n -> EventRecord] /\ DOMAIN Agenda = 1 .. n
        /\ \A i \in DOMAIN Agenda : Agenda[i] \in Waiting
        /\ \A e \in Waiting : \E i \in DOMAIN Agenda : e = Agenda[i]
        /\ \A i, j \in DOMAIN Agenda : Agenda[i].process = Agenda[j].process => i = j
    BY <2>1, AgendaFacts
  <2>3. \A i : i \in For(c) <=> i \in DOMAIN Agenda /\ Role(Agenda[i]) = c
    BY <2>2, Roles DEF For, Pending
  <2>4. \A i, j \in For(c) : i = j
    BY <2>2, <2>3 DEF IInv, OneRole
  <2>5. component[c].busy <=> \E i : i \in For(c)
    BY <2>2, <2>3 DEF IInv, BusyWorks
  <2>6. CASE component[c].busy
    <3>1. PICK i : i \in For(c)
      BY <2>5, <2>6
    <3>2. For(c) = {i}
      BY <2>4, <3>1
    <3> QED
      BY <2>6, <3>2, FS_Singleton
  <2>7. CASE ~component[c].busy
    <3>1. For(c) = {}
      BY <2>5, <2>7
    <3> QED
      BY <2>7, <3>1, FS_EmptySet
  <2> QED
    BY <2>6, <2>7
<1> QED
  BY <1>1 DEF IInv, BusyWorks, BusyHasOneEvent

LEMMA PlacesHold ==
  ASSUME IInv
  PROVE  ProcessInOnePlace
<1>1. PICK n : n = event_queue.size
  OBVIOUS
<1>2. /\ Agenda \in [1 .. n -> EventRecord] /\ DOMAIN Agenda = 1 .. n
      /\ \A i \in DOMAIN Agenda : Agenda[i] \in Waiting
      /\ \A e \in Waiting : \E i \in DOMAIN Agenda : e = Agenda[i]
      /\ \A i, j \in DOMAIN Agenda : Agenda[i].process = Agenda[j].process => i = j
  BY <1>1, AgendaFacts
<1>3. ASSUME NEW p \in 1 .. IDcounter - 1
      PROVE  Cardinality(Places(p)) = IF p \in processes THEN 1 ELSE 0
  <2>1. \A x : x \in Places(p) <=>
          \/ \E i \in EventsOf(p) : x = <<"event", i>>
          \/ \E c \in Components : \E i \in SlotsOf(c, p) : x = <<c, i>>
    BY DEF Places
  <2>2. \A c \in Components : \A i \in SlotsOf(c, p) : p \in InLine(c)
    BY DEF SlotsOf, InLine, Range
  <2>3. \A i \in EventsOf(p) : /\ \A j \in EventsOf(p) : i = j
                               /\ p \in processes
                               /\ \A c \in Components : p \notin InLine(c)
    BY <1>2 DEF EventsOf, IInv, OnePlace
  <2>4. \A c \in Components : \A i \in SlotsOf(c, p) :
          /\ \A j \in SlotsOf(c, p) : i = j
          /\ p \in processes
          /\ \A d \in Components : p \in InLine(d) => c = d
    <3>1. \A c \in Components : \A i, j \in SlotsOf(c, p) : i = j
      BY DEF SlotsOf, IInv, OnePlace, IsInjective
    <3>2. \A c \in Components : p \in InLine(c) => p \in processes
      BY DEF IInv, OnePlace
    <3>3. \A c, d \in Components : p \in InLine(c) /\ p \in InLine(d) => c = d
      BY DEF IInv, OnePlace
    <3> QED
      BY <2>2, <3>1, <3>2, <3>3
  <2>5. \A x, y \in Places(p) : x = y
    BY <2>1, <2>2, <2>3, <2>4
  <2>6. \A x \in Places(p) : p \in processes
    BY <2>1, <2>3, <2>4
  <2>7. ASSUME p \in processes
        PROVE  \E x : x \in Places(p)
    <3>1. p \in processes \ {0}
      BY <2>7
    <3>2. CASE \E e \in Waiting : e.process = p
      <4>1. PICK i \in DOMAIN Agenda : Agenda[i].process = p
        BY <1>2, <3>2
      <4>2. <<"event", i>> \in Places(p)
        BY <2>1, <4>1 DEF EventsOf
      <4> QED
        BY <4>2
    <3>3. CASE \E c \in Components : p \in InLine(c)
      <4>1. PICK c \in Components : p \in InLine(c)
        BY <3>3
      <4>2. PICK i \in DOMAIN component[c].Q : component[c].Q[i] = p
        BY <4>1 DEF InLine, Range
      <4>3. <<c, i>> \in Places(p)
        BY <2>1, <4>2 DEF SlotsOf
      <4> QED
        BY <4>3
    <3> QED
      BY <3>1, <3>2, <3>3 DEF IInv, OnePlace
  <2>8. CASE p \in processes
    <3>1. PICK x : x \in Places(p)
      BY <2>7, <2>8
    <3>2. Places(p) = {x}
      BY <2>5, <3>1
    <3> QED
      BY <2>8, <3>2, FS_Singleton
  <2>9. CASE p \notin processes
    <3>1. Places(p) = {}
      BY <2>6, <2>9
    <3> QED
      BY <2>9, <3>1, FS_EmptySet
  <2> QED
    BY <2>8, <2>9
<1> QED
  BY <1>3 DEF ProcessInOnePlace

LEMMA WithinHolds ==
  ASSUME IInv
  PROVE  BusyWithinClock
<1>1. PICK n : n = event_queue.size
  OBVIOUS
<1>2. \A e \in Waiting : \E i \in DOMAIN Agenda : e = Agenda[i]
  BY <1>1, AgendaFacts
<1> QED
  BY <1>2 DEF IInv, Within, BusyWithinClock, Pending

(* Every variable has a value of its type, and no event or queue points to *)
(* a process that has been deleted (main.cpp:208-378, Event.h:59-65).      *)
THEOREM SimulatorTypes == Spec => []TypeOK
  BY SimulatorInvariant, TypeHolds, PTL

(* The event list is one chain, read the same in both directions, in the   *)
(* order of arrival times, and nothing in it lies in the past              *)
(* (EventQueue.h:52-131).                                                  *)
THEOREM EventListInOrder == Spec => []ListInOrder
  BY SimulatorInvariant, ListHolds, PTL

(* A component is busy exactly when one event stands for its work, and     *)
(* free only when its queue is empty (main.cpp:254-297, 324-342).          *)
THEOREM BusyMeansOneEvent == Spec => []BusyHasOneEvent
  BY SimulatorInvariant, BusyHolds, PTL

(* Every process that was made for an arrival is in exactly one event or   *)
(* queue until it is deleted (main.cpp:208-378).                           *)
THEOREM NoProcessLost == Spec => []ProcessInOnePlace
  BY SimulatorInvariant, PlacesHold, PTL

(* At most five events wait, however many processes there are.             *)
THEOREM FiveEventsWait == Spec => []AtMostFiveEvents
<1>1. IInv => AtMostFiveEvents
  BY FiveRoles DEF IInv, AtMostFiveEvents, get_size
<1> QED
  BY <1>1, SimulatorInvariant, PTL

(* No component has been busier than the clock allows, but for service     *)
(* that is under way (main.cpp:248-378).                                   *)
THEOREM ComponentsWithinClock == Spec => []BusyWithinClock
  BY SimulatorInvariant, WithinHolds, PTL

(* A turn sets the clock forward and leaves the events that wait in their  *)
(* order, with the new ones behind all that are not later                  *)
(* (EventQueue.h:52-100, main.cpp:125-190).                                *)
THEOREM EventsStayInOrder == Spec => EventsKeepOrder
<1>1. IInv /\ [Next]_vars => [status' = status => TurnOrder]_vars
  BY NextKeeps
<1> QED
  BY <1>1, SimulatorInvariant, PTL DEF Spec, EventsKeepOrder

LEMMA NetworkStarts ==
  ASSUME Init
  PROVE  Network!Init
<1>1. IInv /\ IDcounter = 1 /\ component = [c \in Components |-> idle] /\ idle.Q = <<>> /\ ~idle.busy
  BY InitKeeps DEF Init, idle
<1>2. Arrived = 0
  BY <1>1, ArrivedNow
<1>3. \A c \in Components : JobOf(c) = -1 /\ component[c].Q = <<>>
  BY <1>1, FreeServesNone
<1>4. Serving = [c \in Components |-> -1] /\ Line = [c \in Components |-> <<>>]
  BY <1>3 DEF Serving, Line
<1>5. Components = {"cpu0"} \cup Disks
  BY DEF Components, Disks
<1> QED
  BY <1>2, <1>4, <1>5 DEF Network!Init, Network!Stations, Arrived, Serving, Line

(* Seen without events and clock, the simulator is a network of a          *)
(* processor and two disks in which no station idles while jobs wait, jobs *)
(* are served in the order they came, and the less loaded disk is chosen   *)
(* (main.cpp:208-378).                                                     *)
THEOREM NetworkImplemented == Spec => ImplementsNetwork
<1>1. Init => Network!Init
  BY NetworkStarts
<1>2. IInv /\ [Next]_vars => [Network!Next]_(Network!vars)
  <2>1. ASSUME IInv, Next
        PROVE  [Network!Next]_(Network!vars)
    BY <2>1, NextKeeps DEF Simulated
  <2>2. ASSUME UNCHANGED vars
        PROVE  UNCHANGED Network!vars
    BY <2>2 DEF vars, Network!vars, NextArrival, JobOf, For, Pending, Agenda
  <2> QED
    BY <2>1, <2>2
<1> QED
  BY <1>1, <1>2, SimulatorInvariant, PTL DEF Spec, ImplementsNetwork, Network!Spec
==============================================================================
