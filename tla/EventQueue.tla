----------------------------- MODULE EventQueue ------------------------------
(***************************************************************************)
(* EventQueue (DiscreteEventSimulator/EventQueue.h): a doubly linked list  *)
(* of events, sorted by arrival time as they are pushed.                   *)
(*                                                                         *)
(* A queue is a record [head, tail, size, node]: `node' is the part of the *)
(* heap that its nodes occupy, a function from addresses to nodes.         *)
(***************************************************************************)
EXTENDS Integers, SequencesExt

CONSTANTS
  Addresses,   \* where new may place a node
  NULL,
  Wild         \* a pointer that was never assigned

ASSUME AddressAssumption ==
  /\ NULL \notin Addresses /\ Wild \notin Addresses
  /\ IsFiniteSet(Addresses) => Cardinality(Addresses) > 5   \* new finds room

empty_queue == [head |-> NULL, tail |-> NULL, size |-> 0, node |-> <<>>]

get_size(q) == q.size

(* The event at the head.                                                  *)
front(q) == q.node[q.head].event

(* The addresses of the nodes from head on, as the next pointers lead.     *)
Walk(q) ==
  LET at[i \in 1 .. q.size] == IF i = 1 THEN q.head ELSE q.node[at[i - 1]].next
  IN  [i \in 1 .. q.size |-> at[i]]

TimeAt(q, a) == q.node[a].event.arrival_time

new(q) == CHOOSE a \in Addresses : a \notin DOMAIN q.node

(* Faulty: the prev pointer of the next node is not set.                   *)
LinkForward(q, a, e, before, after) ==
  [n \in DOMAIN q.node \cup {a} |->
     IF n = a THEN [event |-> e, next |-> after, prev |-> before]
     ELSE [q.node[n] EXCEPT !.next = IF n = before THEN a ELSE @]]

(* A node at address a for event e between the nodes before and after; a   *)
(* pointer that the code does not assign is wild.                          *)
Link(q, a, e, before, after) ==
  [n \in DOMAIN q.node \cup {a} |->
     IF n = a THEN [event |-> e, next |-> after, prev |-> before]
     ELSE [q.node[n] EXCEPT !.next = IF n = before THEN a ELSE @,
                            !.prev = IF n = after THEN a ELSE @]]

(* Faulty: an event overtakes those of its own time.                       *)
NotBefore(q, t) ==
  LET nodes == Walk(q)
  IN  nodes[Min({i \in 2 .. q.size : TimeAt(q, nodes[i]) >= t})]

(* The node that the loop of push stops at: starting at the second, the    *)
(* first whose event is later than t.                                      *)
LaterThan(q, t) ==
  LET nodes == Walk(q)
  IN  nodes[Min({i \in 2 .. q.size : TimeAt(q, nodes[i]) > t})]

push(q, e) ==
  LET a == new(q)
      t == e.arrival_time
      later == LaterThan(q, t)
      q1 == [q EXCEPT !.size = @ + 1]
  IN  IF q.size = 0
        THEN [q1 EXCEPT !.head = a, !.tail = a, !.node = Link(q, a, e, Wild, Wild)]
      ELSE IF t < TimeAt(q, q.head)
        THEN [q1 EXCEPT !.head = a, !.node = Link(q, a, e, Wild, q.head)]
      ELSE IF t < TimeAt(q, q.tail)
        THEN [q1 EXCEPT !.node = Link(q, a, e, q.node[later].prev, later)]
      ELSE [q1 EXCEPT !.tail = a, !.node = Link(q, a, e, q.tail, Wild)]

(* Faulty: the node is not deleted.                                        *)
pop_undeleted(q) ==
  LET next == q.node[q.head].next
      q1 == [q EXCEPT !.size = @ - 1]
  IN  IF q.size > 1 THEN [q1 EXCEPT !.head = next, !.node[next].prev = NULL] ELSE q1

(* The queue without its head; of one node, head and tail keep pointing to *)
(* where it was.                                                           *)
pop(q) ==
  LET rest == [n \in DOMAIN q.node \ {q.head} |-> q.node[n]]
      next == q.node[q.head].next
      q1 == [q EXCEPT !.size = @ - 1, !.node = rest]
  IN  IF q.size > 1 THEN [q1 EXCEPT !.head = next, !.node[next].prev = NULL] ELSE q1

-----------------------------------------------------------------------------
(* The events in the order in which pop will return them.                  *)
Events(q) == LET nodes == Walk(q) IN [i \in DOMAIN nodes |-> q.node[nodes[i]].event]
=============================================================================
