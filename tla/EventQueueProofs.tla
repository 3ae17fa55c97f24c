--------------------------- MODULE EventQueueProofs --------------------------
(***************************************************************************)
(* Proofs about the event queue of DiscreteEventSimulator: the linked list *)
(* is a sequence of events, push inserts an event behind all that are not  *)
(* later, pop takes the first, and the pointers agree in both directions.  *)
(***************************************************************************)
EXTENDS EventQueue, FunctionTheorems, FiniteSetTheorems, TLAPS

-----------------------------------------------------------------------------
(* Induction over sets of numbers.                                         *)

LEMMA LeastNumber ==
  ASSUME NEW T \in SUBSET Nat, T # {}
  PROVE  \E m \in T : \A n \in T : m <= n
<1> DEFINE Up(n) == 0 .. n
           Family == {Up(n) : n \in T}
           Less == StrictSubsetOrdering(Nat)
<1>1. Family # {} /\ Family \subseteq FiniteSubsetsOf(Nat)
  <2>1. \A n \in T : Up(n) \in FiniteSubsetsOf(Nat)
    BY FS_Interval DEF FiniteSubsetsOf
  <2> QED
    BY <2>1
<1>2. IsWellFoundedOn(Less, FiniteSubsetsOf(Nat))
  BY FS_StrictSubsetOrderingWellFounded
<1> HIDE DEF Less, Family
<1>3. PICK F \in Family : \A G \in Family : <<G, F>> \notin Less
  BY <1>1, <1>2, WFMin
<1>4. PICK m \in T : F = Up(m)
  BY <1>3 DEF Family
<1>5. ASSUME NEW n \in T, n < m
      PROVE  FALSE
  <2>1. Up(n) \subseteq Up(m) /\ Up(n) # Up(m) /\ Up(n) \subseteq Nat /\ Up(m) \subseteq Nat
    <3>1. m \in Up(m) /\ m \notin Up(n)
      BY <1>5
    <3> QED
      BY <1>5, <3>1
  <2>2. Up(n) \in Family
    BY DEF Family
  <2>3. <<Up(n), Up(m)>> \in Less
    BY <2>1 DEF Less, StrictSubsetOrdering
  <2> QED
    BY <1>3, <1>4, <2>2, <2>3
<1> QED
  BY <1>5

(* What holds of a number if it holds of those before it holds of all.     *)
LEMMA Induction ==
  ASSUME NEW T \in SUBSET Nat, \A n \in Nat : (\A m \in 0 .. n - 1 : m \in T) => n \in T
  PROVE  T = Nat
<1>1. ASSUME Nat \ T # {}
      PROVE  FALSE
  <2>1. PICK m \in Nat \ T : \A n \in Nat \ T : m <= n
    BY <1>1, LeastNumber
  <2> QED
    BY <2>1
<1> QED
  BY <1>1

-----------------------------------------------------------------------------
(* Lists.                                                                  *)

Pointer == Addresses \cup {NULL, Wild}
Queue(E) ==
  [head : Pointer, tail : Pointer, size : Nat,
   node : UNION {[A -> [event : E, next : Pointer, prev : Pointer]] : A \in SUBSET Addresses}]

(* The addresses s are the list q, from head to tail.                      *)
LinkedBy(q, s) ==
  /\ s \in [1 .. q.size -> Addresses]
  /\ IsInjective(s)
  /\ DOMAIN q.node = Range(s)
  /\ q.size > 0 => q.head = s[1] /\ q.tail = s[q.size]
  /\ \A i \in 1 .. q.size - 1 : q.node[s[i]].next = s[i + 1] /\ q.node[s[i + 1]].prev = s[i]

Linked(q) == LinkedBy(q, Walk(q))

Insert(s, n, k, e) ==
  [i \in 1 .. n + 1 |-> IF i <= k THEN s[i] ELSE IF i = k + 1 THEN e ELSE s[i - 1]]

LEMMA QueueFields ==
  ASSUME NEW E, NEW q \in Queue(E)
  PROVE  /\ q.head \in Pointer /\ q.tail \in Pointer /\ q.size \in Nat
         /\ DOMAIN q.node \subseteq Addresses
         /\ q.node \in [DOMAIN q.node -> [event : E, next : Pointer, prev : Pointer]]
         /\ q = [head |-> q.head, tail |-> q.tail, size |-> q.size, node |-> q.node]
  BY DEF Queue

(* Following the next pointers from the head leads along the list.         *)
LEMMA WalkAlong ==
  ASSUME NEW E, NEW q \in Queue(E), NEW s, LinkedBy(q, s)
  PROVE  Walk(q) = s
<1> DEFINE Along(at) == [i \in 1 .. q.size |-> IF i = 1 THEN q.head ELSE q.node[at[i - 1]].next]
           at == CHOOSE f : f = Along(f)
<1>1. q.size \in Nat /\ DOMAIN s = 1 .. q.size
  BY QueueFields DEF LinkedBy
<1>2. s = Along(s)
  <2>1. \A i \in 1 .. q.size : s[i] = Along(s)[i]
    <3>1. \A i \in 1 .. q.size : i # 1 => i - 1 \in 1 .. q.size - 1 /\ (i - 1) + 1 = i
      BY <1>1
    <3>2. \A i \in 1 .. q.size : i # 1 => q.node[s[i - 1]].next = s[i]
      BY <3>1 DEF LinkedBy
    <3>3. q.size > 0 => q.head = s[1]
      BY DEF LinkedBy
    <3> QED
      BY <1>1, <3>2, <3>3
  <2>2. s = [i \in 1 .. q.size |-> s[i]]
    BY <1>1 DEF LinkedBy
  <2> QED
    BY <2>1, <2>2
<1> HIDE DEF Along
<1>3. at = Along(at)
  BY <1>2
<1>4. Walk(q) = [i \in 1 .. q.size |-> at[i]]
  BY DEF Walk, at, Along
<1> HIDE DEF at
<1> DEFINE T == {i \in Nat : i \in 1 .. q.size => at[i] = s[i]}
<1>5. T = Nat
  <2>1. ASSUME NEW n \in Nat, \A m \in 0 .. n - 1 : m \in T, n \in 1 .. q.size
        PROVE  at[n] = s[n]
    <3>1. at[n] = IF n = 1 THEN q.head ELSE q.node[at[n - 1]].next
      BY <1>3, <2>1 DEF Along
    <3>2. s[n] = IF n = 1 THEN q.head ELSE q.node[s[n - 1]].next
      BY <1>2, <2>1 DEF Along
    <3>3. n # 1 => at[n - 1] = s[n - 1]
      BY <1>1, <2>1
    <3> QED
      BY <3>1, <3>2, <3>3
  <2>2. \A n \in Nat : (\A m \in 0 .. n - 1 : m \in T) => n \in T
    BY <2>1
  <2> HIDE DEF T
  <2>3. T \in SUBSET Nat
    BY DEF T
  <2> QED
    BY <2>2, <2>3, Induction
<1>6. \A i \in 1 .. q.size : at[i] = s[i]
  BY <1>1, <1>5
<1> QED
  BY <1>1, <1>4, <1>6 DEF LinkedBy

-----------------------------------------------------------------------------
(* A new node in the list.                                                 *)

LEMMA InsertValues ==
  ASSUME NEW n \in Nat, NEW s, NEW k \in 0 .. n, NEW e, NEW t, t = Insert(s, n, k, e)
  PROVE  /\ DOMAIN t = 1 .. n + 1
         /\ t[k + 1] = e
         /\ \A i \in 1 .. k : t[i] = s[i]
         /\ \A i \in k + 1 .. n : t[i + 1] = s[i]
         /\ \A i \in k + 2 .. n + 1 : t[i] = s[i - 1]
  BY DEF Insert

LEMMA InsertType ==
  ASSUME NEW S, NEW n \in Nat, NEW s \in [1 .. n -> S], NEW k \in 0 .. n, NEW e \in S
  PROVE  Insert(s, n, k, e) \in [1 .. n + 1 -> S]
<1>1. \A i \in 1 .. n + 1 : ~ i <= k /\ i # k + 1 => i - 1 \in 1 .. n
  OBVIOUS
<1>2. \A i \in 1 .. n + 1 : i <= k => i \in 1 .. n
  OBVIOUS
<1> QED
  BY <1>1, <1>2 DEF Insert

(* A sequence without repetition stays one, and has one element more.      *)
LEMMA InsertInjective ==
  ASSUME NEW n \in Nat, NEW s, DOMAIN s = 1 .. n, NEW k \in 0 .. n, NEW e,
         NEW t, t = Insert(s, n, k, e)
  PROVE  /\ Range(t) = Range(s) \cup {e}
         /\ IsInjective(s) /\ e \notin Range(s) => IsInjective(t)
<1>1. /\ DOMAIN t = 1 .. n + 1
      /\ t[k + 1] = e
      /\ \A i \in 1 .. k : t[i] = s[i]
      /\ \A i \in k + 2 .. n + 1 : t[i] = s[i - 1]
      /\ \A i \in k + 1 .. n : t[i + 1] = s[i]
  BY InsertValues
<1>2. Range(t) = Range(s) \cup {e}
  <2>1. ASSUME NEW i \in 1 .. n + 1
        PROVE  t[i] \in Range(s) \cup {e}
    <3>1. CASE i \in 1 .. k
      BY <1>1, <3>1 DEF Range
    <3>2. CASE i = k + 1
      BY <1>1, <3>2 DEF Range
    <3>3. CASE i \in k + 2 .. n + 1
      <4>1. i - 1 \in 1 .. n
        BY <3>3
      <4> QED
        BY <1>1, <3>3, <4>1 DEF Range
    <3> QED
      BY <3>1, <3>2, <3>3
  <2>2. ASSUME NEW j \in 1 .. n
        PROVE  s[j] \in Range(t)
    <3>1. CASE j \in 1 .. k
      <4>1. j \in 1 .. n + 1 /\ s[j] = t[j]
        BY <1>1, <3>1
      <4> QED
        BY <1>1, <4>1 DEF Range
    <3>2. CASE j \in k + 1 .. n
      <4>1. j + 1 \in 1 .. n + 1 /\ s[j] = t[j + 1]
        BY <1>1, <3>2
      <4> QED
        BY <1>1, <4>1 DEF Range
    <3> QED
      BY <3>1, <3>2
  <2>3. k + 1 \in 1 .. n + 1
    OBVIOUS
  <2>4. Range(t) \subseteq Range(s) \cup {e}
    BY <1>1, <2>1 DEF Range
  <2>5. Range(s) \subseteq Range(t)
    BY <2>2 DEF Range
  <2>6. e \in Range(t)
    BY <1>1, <2>3 DEF Range
  <2> QED
    BY <2>4, <2>5, <2>6
<1>3. ASSUME IsInjective(s), e \notin Range(s)
      PROVE  IsInjective(t)
  <2>1. \A i, j \in 1 .. n : s[i] = s[j] => i = j
    BY <1>3 DEF IsInjective
  <2>2. \A i \in 1 .. n : s[i] # e
    BY <1>3 DEF Range
  <2>3. ASSUME NEW i \in 1 .. n + 1, NEW j \in 1 .. n + 1, i < j
        PROVE  t[i] # t[j]
    <3>1. CASE j \in 1 .. k
      <4>1. i \in 1 .. k /\ i \in 1 .. n /\ j \in 1 .. n
        BY <2>3, <3>1
      <4> QED
        BY <1>1, <2>1, <2>3, <3>1, <4>1
    <3>2. CASE j = k + 1
      <4>1. i \in 1 .. k /\ i \in 1 .. n
        BY <2>3, <3>2
      <4> QED
        BY <1>1, <2>2, <3>2, <4>1
    <3>3. CASE j \in k + 2 .. n + 1
      <4>1. j - 1 \in 1 .. n /\ t[j] = s[j - 1]
        BY <1>1, <3>3
      <4>2. CASE i \in 1 .. k
        BY <1>1, <2>1, <3>3, <4>1, <4>2
      <4>3. CASE i = k + 1
        BY <1>1, <2>2, <4>1, <4>3
      <4>4. CASE i \in k + 2 .. n + 1
        <5>1. i - 1 \in 1 .. n /\ t[i] = s[i - 1] /\ i - 1 # j - 1
          BY <1>1, <2>3, <4>4
        <5> QED
          BY <2>1, <4>1, <5>1
      <4> QED
        BY <4>2, <4>3, <4>4
    <3> QED
      BY <3>1, <3>2, <3>3
  <2> QED
    BY <1>1, <2>3 DEF IsInjective
<1> QED
  BY <1>2, <1>3

(* Link with the right neighbours inserts the address behind the first k.  *)
LEMMA LinkInserts ==
  ASSUME NEW E, NEW q \in Queue(E), NEW s, LinkedBy(q, s),
         NEW n \in Nat, n = q.size, NEW k \in 0 .. n,
         NEW a \in Addresses, a \notin DOMAIN q.node, NEW e \in E,
         NEW before \in Pointer, before = (IF k = 0 THEN Wild ELSE s[k]),
         NEW after \in Pointer, after = (IF k = n THEN Wild ELSE s[k + 1]),
         NEW t, t = Insert(s, n, k, a),
         NEW q1, q1 = [head |-> IF k = 0 THEN a ELSE q.head,
                       tail |-> IF k = n THEN a ELSE q.tail,
                       size |-> n + 1,
                       node |-> Link(q, a, e, before, after)]
  PROVE  /\ q1 \in Queue(E)
         /\ LinkedBy(q1, t)
         /\ q1.node[a].event = e
         /\ \A i \in 1 .. n : q1.node[s[i]].event = q.node[s[i]].event
<1> DEFINE link == Link(q, a, e, before, after)
<1>1. /\ n \in Nat /\ k \in 0 .. n
      /\ DOMAIN q.node \subseteq Addresses
      /\ q.node \in [DOMAIN q.node -> [event : E, next : Pointer, prev : Pointer]]
      /\ q.head \in Pointer /\ q.tail \in Pointer
  BY QueueFields
<1>2. /\ s \in [1 .. n -> Addresses]
      /\ \A i, j \in 1 .. n : s[i] = s[j] => i = j
      /\ DOMAIN q.node = Range(s)
      /\ n > 0 => q.head = s[1] /\ q.tail = s[n]
      /\ \A i \in 1 .. n - 1 : q.node[s[i]].next = s[i + 1] /\ q.node[s[i + 1]].prev = s[i]
      /\ \A i \in 1 .. n : s[i] # Wild /\ s[i] # a
  <2>1. /\ s \in [1 .. n -> Addresses]
        /\ DOMAIN q.node = Range(s)
        /\ IsInjective(s)
        /\ n > 0 => q.head = s[1] /\ q.tail = s[n]
        /\ \A i \in 1 .. n - 1 : q.node[s[i]].next = s[i + 1] /\ q.node[s[i + 1]].prev = s[i]
    BY DEF LinkedBy
  <2>2. \A i \in 1 .. n : s[i] # Wild /\ s[i] # a
    BY <2>1, AddressAssumption DEF Range
  <2>3. \A i, j \in 1 .. n : s[i] = s[j] => i = j
    BY <2>1 DEF IsInjective
  <2> QED
    BY <2>1, <2>2, <2>3
<1>3. /\ t \in [1 .. n + 1 -> Addresses]
      /\ t[k + 1] = a
      /\ \A i \in 1 .. k : t[i] = s[i]
      /\ \A i \in k + 2 .. n + 1 : t[i] = s[i - 1]
      /\ Range(t) = Range(s) \cup {a}
      /\ IsInjective(t)
  <2>1. IsInjective(s) /\ a \notin Range(s)
    BY <1>2 DEF IsInjective
  <2>2. /\ t \in [1 .. n + 1 -> Addresses]
        /\ t[k + 1] = a
        /\ \A i \in 1 .. k : t[i] = s[i]
        /\ \A i \in k + 2 .. n + 1 : t[i] = s[i - 1]
    <3>1. t \in [1 .. n + 1 -> Addresses]
      BY <1>1, <1>2, InsertType
    <3> QED
      BY <1>1, <3>1 DEF Insert
  <2>3. /\ Range(t) = Range(s) \cup {a}
        /\ IsInjective(t)
    <3>1. DOMAIN s = 1 .. n
      BY <1>2
    <3>2. /\ Range(t) = Range(s) \cup {a}
          /\ IsInjective(s) /\ a \notin Range(s) => IsInjective(t)
      BY <3>1, InsertInjective
    <3> QED
      BY <2>1, <3>2
  <2> QED
    BY <2>2, <2>3
<1>4. /\ DOMAIN link = DOMAIN q.node \cup {a}
      /\ link[a] = [event |-> e, next |-> after, prev |-> before]
      /\ \A m \in DOMAIN q.node :
           /\ link[m].event = q.node[m].event
           /\ link[m].next = IF m = before THEN a ELSE q.node[m].next
           /\ link[m].prev = IF m = after THEN a ELSE q.node[m].prev
           /\ link[m] \in [event : E, next : Pointer, prev : Pointer]
  BY <1>1 DEF Link, Pointer
<1> HIDE DEF link
<1>5. link \in [DOMAIN q.node \cup {a} -> [event : E, next : Pointer, prev : Pointer]]
  <2>1. link = [m \in DOMAIN q.node \cup {a} |-> link[m]]
    BY DEF link, Link
  <2>2. link[a] \in [event : E, next : Pointer, prev : Pointer]
    BY <1>4
  <2> QED
    BY <1>4, <2>1, <2>2
<1>6. q1 \in Queue(E)
  <2>1. DOMAIN q.node \cup {a} \in SUBSET Addresses
    BY <1>1
  <2>2. link \in UNION {[A -> [event : E, next : Pointer, prev : Pointer]] : A \in SUBSET Addresses}
    BY <1>5, <2>1
  <2>3. a \in Pointer /\ n + 1 \in Nat
    BY <1>1 DEF Pointer
  <2> QED
    BY <1>1, <2>2, <2>3 DEF Queue, link
<1>7. /\ q1.size = n + 1 /\ q1.node = link
      /\ q1.head = (IF k = 0 THEN a ELSE q.head)
      /\ q1.tail = (IF k = n THEN a ELSE q.tail)
  BY DEF link
<1>8. \A i \in 1 .. n : s[i] \in DOMAIN q.node
  BY <1>2 DEF Range
<1>9. ASSUME NEW i \in 1 .. n
      PROVE  link[t[i]].next = t[i + 1] /\ link[t[i + 1]].prev = t[i]
  <2>1. CASE i < k
    <3>1. i \in 1 .. k /\ i + 1 \in 1 .. k /\ i \in 1 .. n - 1 /\ i + 1 \in 1 .. n
      BY <1>1, <2>1
    <3>2. before # s[i] /\ after # s[i + 1] /\ t[i] = s[i] /\ t[i + 1] = s[i + 1]
      <4>1. k \in 1 .. n /\ before = s[k] /\ i # k
        BY <1>1, <2>1
      <4>2. k # n => after = s[k + 1] /\ k + 1 \in 1 .. n /\ k + 1 # i + 1
        BY <1>1, <2>1
      <4>3. k = n => after = Wild
        OBVIOUS
      <4> QED
        BY <1>2, <1>3, <3>1, <4>1, <4>2, <4>3
    <3>3. s[i] \in DOMAIN q.node /\ s[i + 1] \in DOMAIN q.node
      BY <1>8, <3>1
    <3>4. q.node[s[i]].next = s[i + 1] /\ q.node[s[i + 1]].prev = s[i]
      BY <1>2, <3>1
    <3> QED
      BY <1>4, <3>2, <3>3, <3>4
  <2>2. CASE i = k
    <3>1. t[i] = s[k] /\ t[i + 1] = a /\ before = s[k] /\ k \in 1 .. n
      BY <1>1, <1>3, <2>2
    <3> QED
      BY <1>4, <1>8, <3>1
  <2>3. CASE i = k + 1
    <3>1. t[i] = a /\ t[i + 1] = s[k + 1] /\ after = s[k + 1] /\ k + 1 \in 1 .. n
      <4>1. i + 1 \in k + 2 .. n + 1 /\ (i + 1) - 1 = k + 1 /\ k # n
        BY <1>1, <2>3
      <4> QED
        BY <1>1, <1>3, <2>3, <4>1
    <3> QED
      BY <1>4, <1>8, <3>1
  <2>4. CASE i > k + 1
    <3>1. /\ i \in k + 2 .. n + 1 /\ i + 1 \in k + 2 .. n + 1
          /\ i - 1 \in 1 .. n - 1 /\ i - 1 \in 1 .. n /\ (i + 1) - 1 = i /\ (i - 1) + 1 = i
          /\ k # n
      BY <1>1, <2>4
    <3>2. t[i] = s[i - 1] /\ t[i + 1] = s[i]
      BY <1>3, <3>1
    <3>3. before # s[i - 1] /\ after # s[i]
      <4>1. after = s[k + 1] /\ k + 1 \in 1 .. n /\ k + 1 # i
        BY <1>1, <2>4, <3>1
      <4>2. k # 0 => before = s[k] /\ k \in 1 .. n /\ k # i - 1
        BY <1>1, <2>4, <3>1
      <4> QED
        BY <1>2, <3>1, <4>1, <4>2
    <3>4. s[i - 1] \in DOMAIN q.node /\ s[i] \in DOMAIN q.node
      BY <1>8, <3>1
    <3>5. q.node[s[i - 1]].next = s[i] /\ q.node[s[i]].prev = s[i - 1]
      <4>1. \A j \in 1 .. n - 1 : q.node[s[j]].next = s[j + 1] /\ q.node[s[j + 1]].prev = s[j]
        BY <1>2
      <4> QED
        BY <3>1, <4>1
    <3> QED
      BY <1>4, <3>2, <3>3, <3>4, <3>5
  <2> QED
    BY <1>1, <2>1, <2>2, <2>3, <2>4
<1>10. q1.head = t[1] /\ q1.tail = t[n + 1]
  <2>1. q1.head = t[1]
    <3>1. k # 0 => 1 \in 1 .. k /\ n > 0
      BY <1>1
    <3>2. k # 0 => t[1] = s[1]
      BY <1>3, <3>1
    <3>3. k = 0 => t[1] = a
      BY <1>3
    <3> QED
      BY <1>2, <1>7, <3>1, <3>2, <3>3
  <2>2. q1.tail = t[n + 1]
    <3>1. k # n => n + 1 \in k + 2 .. n + 1 /\ n > 0 /\ (n + 1) - 1 = n
      BY <1>1
    <3>2. k # n => t[n + 1] = s[n]
      BY <1>3, <3>1
    <3>3. k = n => t[n + 1] = a
      BY <1>3
    <3> QED
      BY <1>2, <1>7, <3>1, <3>2, <3>3
  <2> QED
    BY <2>1, <2>2
<1>11. LinkedBy(q1, t)
  <2>1. q1.size = n + 1 /\ (n + 1) - 1 = n
    BY <1>1, <1>7
  <2>2. DOMAIN q1.node = Range(t)
    BY <1>2, <1>3, <1>4, <1>7
  <2>3. \A i \in 1 .. n : q1.node[t[i]].next = t[i + 1] /\ q1.node[t[i + 1]].prev = t[i]
    BY <1>7, <1>9
  <2> QED
    BY <1>3, <1>10, <2>1, <2>2, <2>3 DEF LinkedBy
<1> QED
  BY <1>4, <1>6, <1>7, <1>8, <1>11

-----------------------------------------------------------------------------
(* push and pop on the list.                                               *)

(* A linked list in the order of arrival times.                            *)
Ordered(E, q) ==
  /\ q \in Queue(E)
  /\ Linked(q)
  /\ \A i, j \in 1 .. q.size : i < j => TimeAt(q, Walk(q)[i]) <= TimeAt(q, Walk(q)[j])

Timed(E) == \A x \in E : x.arrival_time \in Nat

(* The queue with a node for e behind the first k of its n nodes s.        *)
Placed(q, s, n, k, e) ==
  [head |-> IF k = 0 THEN new(q) ELSE q.head,
   tail |-> IF k = n THEN new(q) ELSE q.tail,
   size |-> n + 1,
   node |-> Link(q, new(q), e, IF k = 0 THEN Wild ELSE s[k], IF k = n THEN Wild ELSE s[k + 1])]

(* The place that push finds.                                              *)
LEMMA PushFinds ==
  ASSUME NEW E, Timed(E),
         NEW q, Ordered(E, q), NEW n \in Nat, n = q.size, NEW s, s = Walk(q), NEW e \in E
  PROVE  \E k \in 0 .. n :
           /\ \A i \in 1 .. k : TimeAt(q, s[i]) <= e.arrival_time
           /\ \A i \in k + 1 .. n : e.arrival_time < TimeAt(q, s[i])
           /\ push(q, e) = Placed(q, s, n, k, e)
<1> DEFINE a == new(q)
           t == e.arrival_time
           Time(i) == TimeAt(q, s[i])
           node(b, c) == Link(q, a, e, b, c)
<1>1. /\ q \in Queue(E) /\ LinkedBy(q, s)
      /\ \A i, j \in 1 .. n : i < j => Time(i) <= Time(j)
  BY DEF Ordered, Linked
<1>2. /\ q = [head |-> q.head, tail |-> q.tail, size |-> n, node |-> q.node]
      /\ q.node \in [DOMAIN q.node -> [event : E, next : Pointer, prev : Pointer]]
  BY <1>1, QueueFields
<1>3. /\ s \in [1 .. n -> Addresses]
      /\ \A i \in 1 .. n : s[i] \in DOMAIN q.node
      /\ n > 0 => q.head = s[1] /\ q.tail = s[n]
      /\ \A i \in 1 .. n - 1 : q.node[s[i + 1]].prev = s[i]
  BY <1>1 DEF LinkedBy, Range
<1>4. t \in Nat /\ \A i \in 1 .. n : Time(i) \in Nat
  BY <1>2, <1>3 DEF TimeAt, Timed
<1>5. CASE n = 0
  <2>1. push(q, e) = [head |-> a, tail |-> a, size |-> n + 1, node |-> node(Wild, Wild)]
    BY <1>2, <1>5 DEF push
  <2> QED
    BY <1>5, <2>1 DEF Placed
<1>6. CASE n > 0 /\ t < Time(1)
  <2>1. push(q, e) = [head |-> a, tail |-> q.tail, size |-> n + 1, node |-> node(Wild, s[1])]
    <3>1. q.size # 0 /\ t < TimeAt(q, q.head)
      BY <1>3, <1>6
    <3> QED
      BY <1>2, <1>3, <1>6, <3>1 DEF push
  <2>2. \A i \in 0 + 1 .. n : t < Time(i)
    <3>1. 1 \in 1 .. n /\ \A i \in 1 .. n : i # 1 => 1 < i
      BY <1>6
    <3> HIDE DEF t, Time
    <3> QED
      BY <1>1, <1>4, <1>6, <3>1
  <2> HIDE DEF t, Time, a, node
  <2>3. 0 \in 0 .. n /\ 0 # n /\ 0 + 1 = 1 /\ \A i \in 1 .. 0 : Time(i) <= t
    BY <1>6
  <2> QED
    BY <2>1, <2>2, <2>3 DEF t, Time, a, node, Placed
<1>7. CASE n > 0 /\ ~ t < Time(1) /\ t < Time(n)
  <2> DEFINE L == {i \in 2 .. n : Time(i) > t}
             m == Min(L)
  <2> HIDE DEF t, Time
  <2>1. n \in L
    <3>1. n # 1
      BY <1>7
    <3> QED
      BY <1>4, <1>7, <3>1
  <2>2. m \in L /\ \A i \in L : m <= i
    <3>1. L \in SUBSET Nat /\ L # {}
      BY <2>1
    <3> HIDE DEF L
    <3>2. \E x \in L : \A y \in L : x <= y
      BY <3>1, LeastNumber
    <3> QED
      BY <3>2 DEF Min
  <2>3. m \in 2 .. n /\ Time(m) > t /\ \A i \in 2 .. n : Time(i) > t => m <= i
    BY <2>2
  <2>4. LaterThan(q, t) = s[m]
    BY DEF LaterThan, Time
  <2> HIDE DEF L, m
  <2>5. m - 1 \in 1 .. n - 1 /\ (m - 1) + 1 = m /\ m - 1 # 0 /\ m - 1 # n /\ m - 1 \in 0 .. n
    BY <2>3
  <2>6. q.node[s[m]].prev = s[m - 1]
    BY <1>3, <2>5
  <2>7. push(q, e) = [head |-> q.head, tail |-> q.tail, size |-> n + 1,
                      node |-> node(s[m - 1], s[m])]
    <3>1. q.size # 0 /\ ~ t < TimeAt(q, q.head) /\ t < TimeAt(q, q.tail)
      BY <1>3, <1>7 DEF Time
    <3>2. push(q, e) = [[q EXCEPT !.size = @ + 1] EXCEPT !.node = node(s[m - 1], s[m])]
      BY <2>4, <2>6, <3>1 DEF push, t
    <3> QED
      BY <1>2, <3>2
  <2>8. \A i \in 1 .. m - 1 : Time(i) <= t
    <3>1. \A i \in 2 .. m - 1 : i \in 2 .. n /\ ~ m <= i
      BY <2>3
    <3>2. \A i \in 2 .. m - 1 : Time(i) <= t
      <4>1. \A i \in 2 .. m - 1 : Time(i) \in Nat /\ ~ Time(i) > t
        BY <1>4, <2>3, <3>1
      <4> QED
        BY <1>4, <4>1
    <3>3. 1 \in 1 .. n /\ Time(1) <= t
      BY <1>4, <1>7
    <3>4. \A i \in 1 .. m - 1 : i = 1 \/ i \in 2 .. m - 1
      BY <2>3
    <3> QED
      BY <3>2, <3>3, <3>4
  <2>9. \A i \in (m - 1) + 1 .. n : t < Time(i)
    <3>1. \A i \in m .. n : i \in 1 .. n /\ m \in 1 .. n /\ (i = m \/ m < i)
      BY <2>3
    <3>2. \A i \in m .. n : Time(m) <= Time(i) \/ i = m
      BY <1>1, <3>1
    <3>3. \A i \in m .. n : Time(i) \in Nat /\ Time(m) \in Nat
      BY <1>4, <3>1
    <3>4. \A i \in m .. n : t < Time(i)
      BY <1>4, <2>3, <3>2, <3>3
    <3> QED
      BY <2>5, <3>4
  <2>10. push(q, e) =
           [head |-> IF m - 1 = 0 THEN a ELSE q.head,
            tail |-> IF m - 1 = n THEN a ELSE q.tail,
            size |-> n + 1,
            node |-> node(IF m - 1 = 0 THEN Wild ELSE s[m - 1],
                          IF m - 1 = n THEN Wild ELSE s[(m - 1) + 1])]
    BY <2>5, <2>7
  <2> QED
    BY <2>5, <2>8, <2>9, <2>10 DEF t, Time, Placed
<1>8. CASE n > 0 /\ ~ t < Time(1) /\ ~ t < Time(n)
  <2>1. push(q, e) = [head |-> q.head, tail |-> a, size |-> n + 1, node |-> node(s[n], Wild)]
    <3>1. q.size # 0 /\ ~ t < TimeAt(q, q.head) /\ ~ t < TimeAt(q, q.tail)
      BY <1>3, <1>8
    <3>2. push(q, e) = [[q EXCEPT !.size = @ + 1] EXCEPT !.tail = a, !.node = node(q.tail, Wild)]
      BY <3>1 DEF push
    <3> QED
      BY <1>2, <1>3, <1>8, <3>2
  <2> HIDE DEF t, Time, a, node
  <2>2. \A i \in 1 .. n : Time(i) <= t
    <3>1. n \in 1 .. n /\ \A i \in 1 .. n : i # n => i < n
      BY <1>8
    <3>2. \A i \in 1 .. n : Time(i) <= Time(n)
      BY <1>1, <1>4, <3>1
    <3> QED
      BY <1>4, <1>8, <3>1, <3>2
  <2>3. n \in 0 .. n /\ n # 0 /\ \A i \in n + 1 .. n : t < Time(i)
    BY <1>8
  <2> QED
    BY <2>1, <2>2, <2>3 DEF t, Time, a, node, Placed
<1> QED
  BY <1>5, <1>6, <1>7, <1>8

LEMMA EventsValues ==
  ASSUME NEW E, NEW q \in Queue(E), NEW s, LinkedBy(q, s)
  PROVE  /\ Events(q) \in [1 .. q.size -> E]
         /\ \A i \in 1 .. q.size : Events(q)[i] = q.node[s[i]].event
         /\ \A i \in 1 .. q.size : TimeAt(q, s[i]) = Events(q)[i].arrival_time
<1>1. Walk(q) = s /\ DOMAIN s = 1 .. q.size
  BY WalkAlong DEF LinkedBy
<1>2. \A i \in 1 .. q.size : q.node[s[i]].event \in E
  BY QueueFields DEF LinkedBy, Range
<1> QED
  BY <1>1, <1>2 DEF Events, TimeAt

(* push keeps the list linked in both directions and in order, as long as  *)
(* there is memory for one more node: the new event comes behind all that  *)
(* are not later than it, before the later ones, and the others stay       *)
(* where they are (EventQueue.h:52-100).                                   *)
THEOREM PushInserts ==
  ASSUME NEW E, Timed(E),
         NEW q, Ordered(E, q), NEW n \in Nat, n = q.size, NEW e \in E,
         Addresses \ DOMAIN q.node # {},
         NEW q1, q1 = push(q, e)
  PROVE  /\ Ordered(E, q1) /\ q1.size = n + 1
         /\ \E k \in 0 .. n :
              /\ Events(q1) = Insert(Events(q), n, k, e)
              /\ \A i \in 1 .. k : Events(q)[i].arrival_time <= e.arrival_time
              /\ \A i \in k + 1 .. n : e.arrival_time < Events(q)[i].arrival_time
<1> DEFINE t == e.arrival_time
<1>a. PICK a : a = new(q)
  OBVIOUS
<1>s. PICK s : s = Walk(q)
  OBVIOUS
<1>1. /\ q \in Queue(E) /\ LinkedBy(q, s)
      /\ \A i, j \in 1 .. n : i < j => TimeAt(q, s[i]) <= TimeAt(q, s[j])
  BY <1>s DEF Ordered, Linked
<1>2. a \in Addresses /\ a \notin DOMAIN q.node
  BY <1>a DEF new
<1>3. PICK k \in 0 .. n :
           /\ \A i \in 1 .. k : TimeAt(q, s[i]) <= t
           /\ \A i \in k + 1 .. n : t < TimeAt(q, s[i])
           /\ q1 =
                [head |-> IF k = 0 THEN a ELSE q.head,
                 tail |-> IF k = n THEN a ELSE q.tail,
                 size |-> n + 1,
                 node |-> Link(q, a, e, IF k = 0 THEN Wild ELSE s[k],
                                        IF k = n THEN Wild ELSE s[k + 1])]
  <2>1. \E k \in 0 .. n :
           /\ \A i \in 1 .. k : TimeAt(q, s[i]) <= e.arrival_time
           /\ \A i \in k + 1 .. n : e.arrival_time < TimeAt(q, s[i])
           /\ push(q, e) = Placed(q, s, n, k, e)
    BY <1>s, PushFinds
  <2> QED
    BY <1>a, <2>1 DEF Placed
<1> HIDE DEF t
<1> DEFINE before == IF k = 0 THEN Wild ELSE s[k]
           after == IF k = n THEN Wild ELSE s[k + 1]
           u == Insert(s, n, k, a)
<1>4. before \in Pointer /\ after \in Pointer
  <2>1. s \in [1 .. n -> Addresses]
    BY <1>1 DEF LinkedBy
  <2>2. k # 0 => k \in 1 .. n
    OBVIOUS
  <2>3. k # n => k + 1 \in 1 .. n
    OBVIOUS
  <2> QED
    BY <2>1, <2>2, <2>3 DEF Pointer
<1>5. q1 = [head |-> IF k = 0 THEN a ELSE q.head, tail |-> IF k = n THEN a ELSE q.tail,
            size |-> n + 1, node |-> Link(q, a, e, before, after)]
  BY <1>3
<1>6. before = (IF k = 0 THEN Wild ELSE s[k]) /\ after = (IF k = n THEN Wild ELSE s[k + 1])
  OBVIOUS
<1> HIDE DEF before, after, u
<1>7. u = Insert(s, n, k, a)
  BY DEF u
<1>8. /\ q1 \in Queue(E)
      /\ LinkedBy(q1, u)
      /\ q1.node[a].event = e
      /\ \A i \in 1 .. n : q1.node[s[i]].event = q.node[s[i]].event
  BY <1>1, <1>2, <1>4, <1>5, <1>6, <1>7, LinkInserts
<1>9. q1.size = n + 1 /\ Walk(q1) = u /\ Linked(q1)
  BY <1>5, <1>8, WalkAlong DEF Linked
<1>10. /\ Events(q) \in [1 .. n -> E]
       /\ \A i \in 1 .. n : Events(q)[i] = q.node[s[i]].event
       /\ \A i \in 1 .. n : TimeAt(q, s[i]) = Events(q)[i].arrival_time
  BY <1>1, EventsValues
<1>11. /\ Events(q1) \in [1 .. n + 1 -> E]
       /\ \A i \in 1 .. n + 1 : Events(q1)[i] = q1.node[u[i]].event
       /\ \A i \in 1 .. n + 1 : TimeAt(q1, u[i]) = Events(q1)[i].arrival_time
  BY <1>8, <1>9, EventsValues
<1>12. /\ u[k + 1] = a
       /\ \A i \in 1 .. k : u[i] = s[i]
       /\ \A i \in k + 2 .. n + 1 : u[i] = s[i - 1]
  BY <1>7 DEF Insert
<1>13. /\ Events(q1)[k + 1] = e
       /\ \A i \in 1 .. k : Events(q1)[i] = Events(q)[i]
       /\ \A i \in k + 2 .. n + 1 : Events(q1)[i] = Events(q)[i - 1]
  <2>1. k + 1 \in 1 .. n + 1 /\ \A i \in 1 .. k : i \in 1 .. n /\ i \in 1 .. n + 1
    OBVIOUS
  <2>2. \A i \in k + 2 .. n + 1 : i \in 1 .. n + 1 /\ i - 1 \in 1 .. n
    OBVIOUS
  <2>3. Events(q1)[k + 1] = e
    BY <1>8, <1>11, <1>12, <2>1
  <2>4. ASSUME NEW i \in 1 .. k
        PROVE  Events(q1)[i] = Events(q)[i]
    <3>1. i \in 1 .. n /\ i \in 1 .. n + 1 /\ u[i] = s[i]
      BY <1>12
    <3> QED
      BY <1>8, <1>10, <1>11, <3>1
  <2>5. ASSUME NEW i \in k + 2 .. n + 1
        PROVE  Events(q1)[i] = Events(q)[i - 1]
    BY <1>8, <1>10, <1>11, <1>12, <2>2
  <2> QED
    BY <2>3, <2>4, <2>5
<1>14. Events(q1) = Insert(Events(q), n, k, e)
  <2>1. \A i \in 1 .. n + 1 : i \in 1 .. k \/ i = k + 1 \/ i \in k + 2 .. n + 1
    OBVIOUS
  <2>2. \A i \in 1 .. n + 1 :
          Events(q1)[i] = IF i <= k THEN Events(q)[i] ELSE IF i = k + 1 THEN e ELSE Events(q)[i - 1]
    BY <1>13, <2>1
  <2>3. Events(q1) = [i \in 1 .. n + 1 |-> Events(q1)[i]]
    BY <1>11
  <2> QED
    BY <2>2, <2>3 DEF Insert
<1> DEFINE Time(i) == Events(q)[i].arrival_time
           Time1(i) == Events(q1)[i].arrival_time
<1>15. /\ t \in Nat
       /\ \A i \in 1 .. n : Time(i) \in Nat
       /\ \A i, j \in 1 .. n : i < j => Time(i) <= Time(j)
       /\ \A i \in 1 .. k : Time(i) <= t
       /\ \A i \in k + 1 .. n : t < Time(i)
  <2>1. \A i \in 1 .. k : i \in 1 .. n
    OBVIOUS
  <2>2. \A i \in k + 1 .. n : i \in 1 .. n
    OBVIOUS
  <2>3. t \in Nat /\ \A i \in 1 .. n : Time(i) \in Nat
    BY <1>10 DEF t, Timed
  <2> QED
    BY <1>1, <1>3, <1>10, <2>1, <2>2, <2>3
<1>16. /\ Time1(k + 1) = t
       /\ \A i \in 1 .. k : Time1(i) = Time(i)
       /\ \A i \in k + 2 .. n + 1 : Time1(i) = Time(i - 1)
  BY <1>13 DEF t
<1> HIDE DEF Time, Time1
<1>17. ASSUME NEW i \in 1 .. n + 1, NEW j \in 1 .. n + 1, i < j
       PROVE  Time1(i) <= Time1(j)
  <2>1. CASE j \in 1 .. k
    <3>1. i \in 1 .. k /\ i \in 1 .. n /\ j \in 1 .. n
      BY <1>17, <2>1
    <3> QED
      BY <1>15, <1>16, <1>17, <2>1, <3>1
  <2>2. CASE j = k + 1
    <3>1. i \in 1 .. k
      BY <1>17, <2>2
    <3> QED
      BY <1>15, <1>16, <2>2, <3>1
  <2>3. CASE j \in k + 2 .. n + 1
    <3>1. j - 1 \in k + 1 .. n /\ j - 1 \in 1 .. n
      BY <2>3
    <3>2. Time1(j) = Time(j - 1) /\ t < Time(j - 1) /\ Time(j - 1) \in Nat
      BY <1>15, <1>16, <2>3, <3>1
    <3>3. CASE i \in 1 .. k
      <4>1. i \in 1 .. n /\ Time(i) <= t /\ Time1(i) = Time(i)
        BY <1>15, <1>16, <3>3
      <4> QED
        BY <1>15, <3>2, <4>1
    <3>4. CASE i = k + 1
      BY <1>15, <1>16, <3>2, <3>4
    <3>5. CASE i \in k + 2 .. n + 1
      <4>1. i - 1 \in 1 .. n /\ i - 1 < j - 1 /\ Time1(i) = Time(i - 1)
        BY <1>16, <1>17, <3>5
      <4> QED
        BY <1>15, <3>1, <3>2, <4>1
    <3> QED
      BY <3>3, <3>4, <3>5
  <2> QED
    BY <2>1, <2>2, <2>3
<1>18. Ordered(E, q1)
  BY <1>8, <1>9, <1>11, <1>17 DEF Ordered, Time1
<1> QED
  BY <1>9, <1>14, <1>15, <1>18 DEF t, Time

(* pop takes the event that front returns, the first one, and the others   *)
(* stay, linked in both directions and in order (EventQueue.h:102-131).    *)
THEOREM PopRemoves ==
  ASSUME NEW E, NEW q, Ordered(E, q), NEW n \in Nat, n = q.size, n > 0,
         NEW q1, q1 = pop(q)
  PROVE  /\ Ordered(E, q1) /\ q1.size = n - 1
         /\ front(q) = Events(q)[1]
         /\ \A i \in 1 .. n - 1 : Events(q1)[i] = Events(q)[i + 1]
<1>s. PICK s : s = Walk(q)
  OBVIOUS
<1> DEFINE next == q.node[q.head].next
           rest == [m \in DOMAIN q.node \ {q.head} |-> q.node[m]]
           node == IF n > 1 THEN [rest EXCEPT ![next].prev = NULL] ELSE rest
           r == [i \in 1 .. n - 1 |-> s[i + 1]]
           Node == [event : E, next : Pointer, prev : Pointer]
<1>1. /\ q \in Queue(E) /\ LinkedBy(q, s)
      /\ \A i, j \in 1 .. n : i < j => TimeAt(q, s[i]) <= TimeAt(q, s[j])
  BY <1>s DEF Ordered, Linked
<1>2. /\ q.head \in Pointer /\ q.tail \in Pointer
      /\ DOMAIN q.node \subseteq Addresses
      /\ q.node \in [DOMAIN q.node -> Node]
      /\ q = [head |-> q.head, tail |-> q.tail, size |-> n, node |-> q.node]
  BY <1>1, QueueFields
<1>3. /\ s \in [1 .. n -> Addresses]
      /\ \A i, j \in 1 .. n : s[i] = s[j] => i = j
      /\ DOMAIN q.node = Range(s)
      /\ q.head = s[1] /\ q.tail = s[n]
      /\ \A i \in 1 .. n - 1 : q.node[s[i]].next = s[i + 1] /\ q.node[s[i + 1]].prev = s[i]
  BY <1>1 DEF LinkedBy, IsInjective
<1>4. n > 1 => next = s[2]
  BY <1>3
<1>5. /\ DOMAIN rest = DOMAIN q.node \ {s[1]}
      /\ \A m \in DOMAIN rest : rest[m] = q.node[m] /\ rest[m] \in Node
  BY <1>2, <1>3
<1>6. \A i \in 2 .. n : s[i] \in DOMAIN rest
  BY <1>3, <1>5 DEF Range
<1>7. /\ DOMAIN node = DOMAIN rest
      /\ \A m \in DOMAIN rest : /\ node[m].event = q.node[m].event
                                /\ node[m].next = q.node[m].next
                                /\ m # s[2] => node[m].prev = q.node[m].prev
                                /\ node[m] \in Node
  <2>1. CASE n > 1
    <3>1. node = [rest EXCEPT ![next].prev = NULL] /\ next = s[2]
      BY <1>4, <2>1
    <3> HIDE DEF node, next, rest
    <3>2. \A m \in DOMAIN rest : rest[m] = q.node[m] /\ rest[m] \in Node
      BY <1>5
    <3>3. NULL \in Pointer
      BY DEF Pointer
    <3> QED
      BY <3>1, <3>2, <3>3
  <2>2. CASE ~ n > 1
    BY <1>5, <2>2
  <2> QED
    BY <2>1, <2>2
<1>8. q1 = [head |-> IF n > 1 THEN next ELSE q.head, tail |-> q.tail, size |-> n - 1, node |-> node]
  <2>1. CASE n > 1
    <3>1. q.size > 1
      BY <2>1
    <3>2. q1 = [[q EXCEPT !.size = @ - 1, !.node = rest]
                  EXCEPT !.head = next, !.node[next].prev = NULL]
      BY <3>1 DEF pop
    <3>3. PICK q0 : q0 = [q EXCEPT !.size = @ - 1, !.node = rest]
      OBVIOUS
    <3>4. q0 = [head |-> q.head, tail |-> q.tail, size |-> n - 1, node |-> rest]
      BY <1>2, <3>3
    <3>5. q1 = [q0 EXCEPT !.head = next, !.node[next].prev = NULL]
      BY <3>2, <3>3
    <3> QED
      BY <2>1, <3>4, <3>5
  <2>2. CASE ~ n > 1
    <3>1. ~ q.size > 1
      BY <2>2
    <3>2. q1 = [q EXCEPT !.size = @ - 1, !.node = rest]
      BY <3>1 DEF pop
    <3> QED
      BY <1>2, <2>2, <3>2
  <2> QED
    BY <2>1, <2>2
<1>9. node \in [DOMAIN q.node \ {s[1]} -> Node]
  <2>1. node = [m \in DOMAIN node |-> node[m]]
    OBVIOUS
  <2> HIDE DEF node, rest
  <2> QED
    BY <1>5, <1>7, <2>1
<1> HIDE DEF node, rest, next
<1>10. /\ q1.size = n - 1 /\ q1.tail = q.tail /\ q1.node = node
       /\ n > 1 => q1.head = s[2]
  BY <1>4, <1>8
<1>11. q1 \in Queue(E)
  <2>1. node \in UNION {[A -> Node] : A \in SUBSET Addresses}
    <3>1. DOMAIN q.node \ {s[1]} \in SUBSET Addresses
      BY <1>2
    <3> QED
      BY <1>9, <3>1
  <2>2. q1.head \in Pointer
    <3>1. n > 1 => s[2] \in Addresses
      BY <1>3
    <3> QED
      BY <1>2, <1>8, <1>10, <3>1 DEF Pointer
  <2>3. (IF n > 1 THEN next ELSE q.head) \in Pointer
    BY <1>8, <2>2
  <2> HIDE DEF Node
  <2> QED
    BY <1>2, <1>8, <2>1, <2>3 DEF Queue, Node
<1>12. /\ r \in [1 .. n - 1 -> Addresses]
       /\ \A i \in 1 .. n - 1 : r[i] = s[i + 1] /\ i + 1 \in 1 .. n /\ i + 1 \in 2 .. n
       /\ IsInjective(r)
       /\ Range(r) = DOMAIN node
  <2>1. \A i \in 1 .. n - 1 : i + 1 \in 1 .. n /\ i + 1 \in 2 .. n
    OBVIOUS
  <2>2. \A i \in 1 .. n - 1 : r[i] = s[i + 1]
    OBVIOUS
  <2>3. r \in [1 .. n - 1 -> Addresses]
    BY <1>3, <2>1
  <2>4. \A i, j \in 1 .. n - 1 : r[i] = r[j] => i = j
    BY <1>3, <2>1
  <2>5. IsInjective(r)
    BY <2>3, <2>4 DEF IsInjective
  <2> HIDE DEF r
  <2>6. ASSUME NEW m \in DOMAIN node
        PROVE  m \in Range(r)
    <3>1. PICK i \in 1 .. n : m = s[i]
      BY <1>3, <1>5, <1>7 DEF Range
    <3>2. i # 1
      BY <1>5, <1>7, <3>1
    <3>3. i - 1 \in 1 .. n - 1 /\ (i - 1) + 1 = i
      BY <3>2
    <3> QED
      BY <2>2, <2>3, <3>1, <3>3 DEF Range
  <2>7. \A i \in 1 .. n - 1 : r[i] \in DOMAIN node
    BY <1>6, <1>7, <2>1, <2>2
  <2>8. Range(r) \subseteq DOMAIN node
    BY <2>3, <2>7 DEF Range
  <2> QED
    BY <2>1, <2>2, <2>3, <2>5, <2>6, <2>8
<1> HIDE DEF r
<1>13. LinkedBy(q1, r)
  <2>1. n - 1 > 0 => q1.head = r[1] /\ q1.tail = r[n - 1]
    <3>1. n - 1 > 0 => n - 1 \in 1 .. n - 1 /\ 1 \in 1 .. n - 1 /\ (n - 1) + 1 = n /\ 1 + 1 = 2 /\ n > 1
      OBVIOUS
    <3> QED
      BY <1>3, <1>10, <1>12, <3>1
  <2>2. ASSUME NEW i \in 1 .. (n - 1) - 1
        PROVE  q1.node[r[i]].next = r[i + 1] /\ q1.node[r[i + 1]].prev = r[i]
    <3>1. /\ i \in 1 .. n - 1 /\ i + 1 \in 1 .. n - 1 /\ i + 1 \in 2 .. n /\ (i + 1) + 1 \in 2 .. n
          /\ i + 1 \in 1 .. n /\ (i + 1) + 1 \in 1 .. n /\ 2 \in 1 .. n /\ (i + 1) + 1 # 2
      OBVIOUS
    <3>2. r[i] = s[i + 1] /\ r[i + 1] = s[(i + 1) + 1]
      BY <1>12, <3>1
    <3>3. s[i + 1] \in DOMAIN rest /\ s[(i + 1) + 1] \in DOMAIN rest /\ s[(i + 1) + 1] # s[2]
      BY <1>3, <1>6, <3>1
    <3>4. q.node[s[i + 1]].next = s[(i + 1) + 1] /\ q.node[s[(i + 1) + 1]].prev = s[i + 1]
      BY <1>3, <3>1
    <3> QED
      BY <1>7, <1>10, <3>2, <3>3, <3>4
  <2> QED
    BY <1>10, <1>12, <2>1, <2>2 DEF LinkedBy
<1>14. Walk(q1) = r /\ Linked(q1)
  BY <1>11, <1>13, WalkAlong DEF Linked
<1>15. /\ Events(q) \in [1 .. n -> E]
       /\ \A i \in 1 .. n : Events(q)[i] = q.node[s[i]].event
       /\ \A i \in 1 .. n : TimeAt(q, s[i]) = Events(q)[i].arrival_time
  BY <1>1, EventsValues
<1>16. /\ Events(q1) \in [1 .. n - 1 -> E]
       /\ \A i \in 1 .. n - 1 : Events(q1)[i] = q1.node[r[i]].event
       /\ \A i \in 1 .. n - 1 : TimeAt(q1, r[i]) = Events(q1)[i].arrival_time
  BY <1>10, <1>11, <1>13, EventsValues
<1>17. ASSUME NEW i \in 1 .. n - 1
       PROVE  Events(q1)[i] = Events(q)[i + 1]
  <2>1. r[i] = s[i + 1] /\ i + 1 \in 1 .. n /\ s[i + 1] \in DOMAIN rest
    BY <1>6, <1>12
  <2>2. q1.node[s[i + 1]].event = q.node[s[i + 1]].event
    BY <1>7, <1>10, <2>1
  <2>3. Events(q1)[i] = q1.node[r[i]].event /\ Events(q)[i + 1] = q.node[s[i + 1]].event
    BY <1>15, <1>16, <2>1
  <2> QED
    BY <2>1, <2>2, <2>3
<1>18. ASSUME NEW i \in 1 .. n - 1, NEW j \in 1 .. n - 1, i < j
       PROVE  TimeAt(q1, r[i]) <= TimeAt(q1, r[j])
  <2>1. i + 1 \in 1 .. n /\ j + 1 \in 1 .. n /\ i + 1 < j + 1
    BY <1>18
  <2>2. TimeAt(q, s[i + 1]) <= TimeAt(q, s[j + 1])
    BY <1>1, <2>1
  <2>3. TimeAt(q1, r[i]) = TimeAt(q, s[i + 1])
    BY <1>15, <1>16, <1>17, <2>1
  <2>4. TimeAt(q1, r[j]) = TimeAt(q, s[j + 1])
    BY <1>15, <1>16, <1>17, <2>1
  <2> QED
    BY <2>2, <2>3, <2>4
<1>19. Ordered(E, q1)
  BY <1>10, <1>11, <1>14, <1>18 DEF Ordered
<1>20. front(q) = Events(q)[1]
  <2>1. 1 \in 1 .. n
    OBVIOUS
  <2> QED
    BY <1>3, <1>15, <2>1 DEF front
<1> QED
  BY <1>10, <1>17, <1>19, <1>20

-----------------------------------------------------------------------------
(* The events that a handler pushes: at most two.                          *)

LEMMA MaxOfFew == Max({1}) = 1 /\ Max({2}) = 2 /\ Max({1, 2}) = 2
<1>1. Max({1}) = 1 /\ Max({2}) = 2
  BY DEF Max
<1>2. \A x \in {1, 2} : (\A y \in {1, 2} : x >= y) <=> x = 2
  OBVIOUS
<1> QED
  BY <1>1, <1>2 DEF Max

LEMMA PushesFew ==
  ASSUME NEW q, NEW es, NEW D, D = DOMAIN es, D \in {{}, {1}, {1, 2}}
  PROVE  FoldLeft(push, q, es) = IF D = {} THEN q
                                 ELSE IF D = {1} THEN push(q, es[1])
                                 ELSE push(push(q, es[1]), es[2])
<1> DEFINE F(f) == [s \in SUBSET D |-> IF s = {} THEN q ELSE push(f[s \ {Max(s)}], es[Max(s)])]
           iter == CHOOSE f : f = F(f)
           g == [s \in SUBSET D |-> IF s = {} THEN q
                   ELSE IF s = {1} THEN push(q, es[1])
                   ELSE IF s = {2} THEN push(q, es[2])
                   ELSE push(push(q, es[1]), es[2])]
<1>1. \A s \in SUBSET D : s \in {{}, {1}, {2}, {1, 2}}
  <2>1. SUBSET {1} = {{}, {1}} /\ SUBSET {1, 2} = {{}, {1}, {2}, {1, 2}}
    OBVIOUS
  <2> QED
    BY <2>1
<1>2. {1} # {2} /\ {1, 2} # {1} /\ {1, 2} # {2} /\ {1} # {} /\ {2} # {} /\ {1, 2} # {}
  <2>1. 1 \in {1} /\ 1 \notin {2} /\ 2 \in {2} /\ 2 \notin {1} /\ 1 \in {1, 2} /\ 2 \in {1, 2}
    OBVIOUS
  <2> QED
    BY <2>1
<1>3. {1} \ {1} = {} /\ {2} \ {2} = {} /\ {1, 2} \ {2} = {1}
  OBVIOUS
<1>4. /\ {} \in SUBSET D
      /\ D # {} => {1} \in SUBSET D
  <2>1. {} \subseteq D /\ (D # {} => {1} \subseteq D)
    OBVIOUS
  <2> QED
    BY <2>1
<1>5. g = F(g)
  <2>1. ASSUME NEW s \in SUBSET D
        PROVE  g[s] = F(g)[s]
    <3>1. F(g)[s] = IF s = {} THEN q ELSE push(g[s \ {Max(s)}], es[Max(s)])
      OBVIOUS
    <3>2. g[s] = IF s = {} THEN q
                   ELSE IF s = {1} THEN push(q, es[1])
                   ELSE IF s = {2} THEN push(q, es[2])
                   ELSE push(push(q, es[1]), es[2])
      OBVIOUS
    <3>3. g[{}] = q /\ (D # {} => g[{1}] = push(q, es[1]))
      BY <1>2, <1>4
    <3> HIDE DEF F, g
    <3>4. CASE s = {}
      BY <3>1, <3>2, <3>4
    <3>5. CASE s = {1}
      BY <1>2, <1>3, <3>1, <3>2, <3>3, <3>5, MaxOfFew
    <3>6. CASE s = {2}
      BY <1>2, <1>3, <3>1, <3>2, <3>3, <3>6, MaxOfFew
    <3>7. CASE s = {1, 2}
      <4>1. D # {}
        BY <3>7
      <4> QED
        BY <1>2, <1>3, <3>1, <3>2, <3>3, <3>7, <4>1, MaxOfFew
    <3> QED
      BY <1>1, <3>4, <3>5, <3>6, <3>7
  <2>2. g = [s \in SUBSET D |-> g[s]] /\ F(g) = [s \in SUBSET D |-> F(g)[s]]
    OBVIOUS
  <2> HIDE DEF F, g
  <2> QED
    BY <2>1, <2>2
<1>6. iter = F(iter)
  <2> HIDE DEF F, g
  <2> QED
    BY <1>5
<1>7. FoldLeft(push, q, es) = iter[D]
  BY DEF FoldLeft, MapThenFoldSet
<1> HIDE DEF iter
<1>8. \A s \in SUBSET D : iter[s] = IF s = {} THEN q ELSE push(iter[s \ {Max(s)}], es[Max(s)])
  BY <1>6
<1>9. iter[{}] = q
  BY <1>4, <1>8
<1>10. D # {} => iter[{1}] = push(q, es[1])
  BY <1>2, <1>3, <1>4, <1>8, <1>9, MaxOfFew
<1>11. D = {1, 2} => iter[{1, 2}] = push(iter[{1}], es[2])
  <2>1. D \in SUBSET D
    OBVIOUS
  <2> QED
    BY <1>2, <1>3, <1>8, <2>1, MaxOfFew
<1> QED
  BY <1>2, <1>7, <1>9, <1>10, <1>11

-----------------------------------------------------------------------------
(* Room for a new node.                                                    *)

LEMMA NodesCounted ==
  ASSUME NEW E, NEW q, Ordered(E, q)
  PROVE  IsFiniteSet(DOMAIN q.node) /\ Cardinality(DOMAIN q.node) = q.size
<1> DEFINE s == Walk(q)
<1>1. q.size \in Nat /\ s \in [1 .. q.size -> Addresses] /\ IsInjective(s) /\ DOMAIN q.node = Range(s)
  BY QueueFields DEF Ordered, Linked, LinkedBy
<1> HIDE DEF s
<1>2. s \in Bijection(1 .. q.size, DOMAIN q.node)
  <2>1. \A i \in 1 .. q.size : s[i] \in DOMAIN q.node
    BY <1>1 DEF Range
  <2>2. s \in [1 .. q.size -> DOMAIN q.node]
    BY <1>1, <2>1
  <2>3. \A a, b \in 1 .. q.size : s[a] = s[b] => a = b
    BY <1>1 DEF IsInjective
  <2>4. \A t \in DOMAIN q.node : \E i \in 1 .. q.size : s[i] = t
    BY <1>1 DEF Range
  <2> QED
    BY <2>2, <2>3, <2>4, Fun_IsBij
<1>3. ExistsBijection(1 .. q.size, DOMAIN q.node)
  BY <1>2 DEF ExistsBijection
<1>4. IsFiniteSet(1 .. q.size) /\ Cardinality(1 .. q.size) = q.size
  BY <1>1, FS_Interval
<1> QED
  BY <1>3, <1>4, FS_Bijection

LEMMA RoomForMore ==
  ASSUME NEW E, NEW q, Ordered(E, q), q.size <= 5
  PROVE  Addresses \ DOMAIN q.node # {}
<1>1. q.size \in Nat /\ DOMAIN q.node \subseteq Addresses
  BY QueueFields DEF Ordered
<1>2. IsFiniteSet(DOMAIN q.node) /\ Cardinality(DOMAIN q.node) = q.size
  BY NodesCounted
<1>3. ASSUME Addresses \ DOMAIN q.node = {}
      PROVE  FALSE
  <2>1. DOMAIN q.node = Addresses
    BY <1>1, <1>3
  <2> QED
    BY <1>1, <1>2, <2>1, AddressAssumption
<1> QED
  BY <1>3

(* The queue that the constructor makes.                                   *)
LEMMA EmptyOrdered ==
  ASSUME NEW E
  PROVE  Ordered(E, empty_queue) /\ empty_queue.size = 0
<1>1. /\ empty_queue.size = 0 /\ empty_queue.node = <<>> /\ DOMAIN empty_queue.node = {}
      /\ empty_queue.head = NULL /\ empty_queue.tail = NULL
  BY DEF empty_queue
<1>2. empty_queue \in Queue(E)
  <2>1. <<>> \in [{} -> [event : E, next : Pointer, prev : Pointer]] /\ {} \in SUBSET Addresses
    OBVIOUS
  <2>2. <<>> \in UNION {[A -> [event : E, next : Pointer, prev : Pointer]] : A \in SUBSET Addresses}
    BY <2>1
  <2> QED
    BY <2>2 DEF Queue, empty_queue, Pointer
<1>3. DOMAIN Walk(empty_queue) = {}
  BY <1>1 DEF Walk
<1>4. Linked(empty_queue)
  <2>1. Walk(empty_queue) \in [1 .. 0 -> Addresses]
    <3>1. Walk(empty_queue) = [i \in DOMAIN Walk(empty_queue) |-> Walk(empty_queue)[i]]
      BY DEF Walk
    <3> QED
      BY <1>3, <3>1
  <2>2. IsInjective(Walk(empty_queue)) /\ Range(Walk(empty_queue)) = {}
    BY <1>3 DEF IsInjective, Range
  <2> QED
    BY <1>1, <2>1, <2>2 DEF Linked, LinkedBy
<1> QED
  BY <1>1, <1>2, <1>4 DEF Ordered
=============================================================================
