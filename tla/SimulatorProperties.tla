------------------------ MODULE SimulatorProperties --------------------------
(***************************************************************************)
(* What must hold of DiscreteEventSimulator/.                              *)
(***************************************************************************)
EXTENDS Simulator

Agenda == Events(event_queue)
Pending(types) == {i \in DOMAIN Agenda : Agenda[i].event_type \in types}
For(c) == Pending({START[c], FINISH[c]})

(* Every variable has a value of its type, and the objects that pointers   *)
(* lead to are on the heap.                                                *)
EventRecord == [event_type : EventTypes, process : Nat, arrival_time : Nat]
Record == [busy : BOOLEAN, Q : Seq(processes), time_busy : Nat, jobs_processed : Nat, max_time : Nat]
TypeOK ==
  /\ total_time \in Nat
  /\ event_queue.size = Cardinality(DOMAIN event_queue.node)
  /\ DOMAIN event_queue.node \subseteq Addresses
  /\ \A i \in DOMAIN Agenda :
       Agenda[i] \in EventRecord /\ Agenda[i].process \in processes
  /\ component \in [Components -> Record]
  /\ processes \subseteq 0 .. IDcounter - 1
  /\ status \in {"running", "ended", "crashed"}
  /\ longest \in [Components -> Nat]

(* The list is one chain from head to tail, read the same in both          *)
(* directions, in the order of arrival times, and nothing in it lies in    *)
(* the past (EventQueue.h:52-131).                                         *)
ListInOrder ==
  LET q == event_queue
      nodes == Walk(q)
  IN  /\ IsInjective(nodes) /\ Range(nodes) = DOMAIN q.node
      /\ q.size > 0 => nodes[1] = q.head /\ nodes[q.size] = q.tail
      /\ \A i \in 2 .. q.size : q.node[nodes[i]].prev = nodes[i - 1]
      /\ \A i \in 2 .. q.size : TimeAt(q, nodes[i - 1]) <= TimeAt(q, nodes[i])
      /\ \A i \in 1 .. q.size : total_time <= TimeAt(q, nodes[i])

(* A component is busy exactly when one event stands for its work, and     *)
(* free only when nothing waits for it (main.cpp:254-297, 324-342); with   *)
(* this handle_cpu_finish always finds a place for a process that goes on. *)
BusyHasOneEvent ==
  \A c \in Components :
    /\ Cardinality(For(c)) = IF component[c].busy THEN 1 ELSE 0
    /\ ~component[c].busy => component[c].Q = <<>>

(* Every process that was made for an arrival is in exactly one place, an  *)
(* event or a queue, until it is deleted: none is lost, served twice, or   *)
(* used after that (main.cpp:208-378, Event.h:59-65).                      *)
EventsOf(p) == {i \in DOMAIN Agenda : Agenda[i].process = p}
SlotsOf(c, p) == {i \in DOMAIN component[c].Q : component[c].Q[i] = p}

Places(p) == {<<"event", i>> : i \in EventsOf(p)} \cup
             UNION {{<<c, i>> : i \in SlotsOf(c, p)} : c \in Components}

ProcessInOnePlace ==
  \A p \in 1 .. IDcounter - 1 :
    Cardinality(Places(p)) = IF p \in processes THEN 1 ELSE 0

(* At most five events wait, "Events: 5" in every run of the README: the   *)
(* next arrival, one per component, and one exit, which is popped before   *)
(* another process can finish because equal times keep their order.        *)
AtMostFiveEvents == get_size(event_queue) <= 5

(* A component has not been busier than the clock allows, but for service  *)
(* that is under way: the "small margin for error" of the README.          *)
BusyWithinClock ==
  \A c \in Components :
    \/ component[c].time_busy <= total_time
    \/ \E i \in Pending({FINISH[c]}) : component[c].time_busy <= Agenda[i].arrival_time

(* The recorded maximum is the longest service time, for disk 1 as for     *)
(* disk 0: "same as disk_0_start but with disk_1" (main.cpp:345).          *)
MaximumIsLongest == \A d \in Disks : component[d].max_time = longest[d]

(* Time does not run backwards, and a turn leaves the events that wait in  *)
(* their order, with the new ones behind all that are not later: events of *)
(* one time happen in the order in which they were pushed.                 *)
TurnOrder ==
  LET waiting == Tail(Agenda)
      is_old(e) == Contains(waiting, e)
  IN  /\ total_time <= total_time'
      /\ \A i, j \in DOMAIN waiting : i <= j =>
           \E k, l \in DOMAIN Agenda' :
             k <= l /\ Agenda'[k] = waiting[i] /\ Agenda'[l] = waiting[j]
      /\ \A i, j \in DOMAIN Agenda' :
           i < j /\ ~is_old(Agenda'[i]) /\ is_old(Agenda'[j])
             => Agenda'[i].arrival_time < Agenda'[j].arrival_time

EventsKeepOrder == [][status' = status => TurnOrder]_vars

-----------------------------------------------------------------------------
(* The events and the clock drive a network of queues in which no station  *)
(* idles while jobs wait, jobs are served in the order they came, and the  *)
(* less loaded disk is chosen.                                             *)
JobOf(c) == IF For(c) = {} THEN -1 ELSE Agenda[Min(For(c))].process
NextArrival == Pending({"JOB_ARRIVAL"})

Network == INSTANCE QueueingNetwork WITH
  CPU <- "cpu0", Disks <- Disks, First <- "disk0", None <- -1,
  arrived <- IF NextArrival = {} THEN 0 ELSE Agenda[Min(NextArrival)].process - 1,
  serving <- [c \in Components |-> JobOf(c)],
  line <- [c \in Components |-> component[c].Q]

ImplementsNetwork == Network!Spec

(* The main loop ends, although the time of single steps may be 0.         *)
SimulationEnds == <>(status # "running")
=============================================================================
