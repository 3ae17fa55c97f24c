----------------------------- MODULE Simulator -------------------------------
(***************************************************************************)
(* DiscreteEventSimulator/main.cpp: a CPU and two disks, driven by events. *)
(* Every turn of the main loop pops the first event, sets the clock to its *)
(* time and calls its handler, which changes the components and pushes     *)
(* further events.  One turn is one action, named after its handler.       *)
(*                                                                         *)
(* Any value that random_integer may return may be drawn.  Of the          *)
(* statistics the model keeps those of a component that do not depend on   *)
(* the length of queues.                                                   *)
(***************************************************************************)
EXTENDS EventQueue

CONSTANTS
  FIN_TIME, ARRIVE_MIN, ARRIVE_MAX, QUIT_PROB,
  CPU_MIN, CPU_MAX, DISK_MIN, DISK_MAX

ASSUME ConfigAssumption ==
  /\ {FIN_TIME, ARRIVE_MIN, ARRIVE_MAX, CPU_MIN, CPU_MAX, DISK_MIN, DISK_MAX} \subseteq Nat
  /\ FIN_TIME > 0
  /\ ARRIVE_MIN <= ARRIVE_MAX /\ CPU_MIN <= CPU_MAX /\ DISK_MIN <= DISK_MAX
  /\ QUIT_PROB \in 0 .. 100

VARIABLES
  total_time,
  event_queue,
  component,    \* cpu0, disk0, disk1
  IDcounter,    \* the next process ID
  processes,    \* the process objects on the heap
  status,       \* running, ended, or crashed in a division by zero
  longest       \* history: the longest service time drawn per component

vars == <<total_time, event_queue, component, IDcounter, processes, status, longest>>

Components == {"cpu0", "disk0", "disk1"}
Disks == {"disk0", "disk1"}
START == [cpu0 |-> "JOB_CPU_START", disk0 |-> "JOB_DISK_0_START", disk1 |-> "JOB_DISK_1_START"]
FINISH == [cpu0 |-> "JOB_CPU_FINISH", disk0 |-> "JOB_DISK_0_FINISH", disk1 |-> "JOB_DISK_1_FINISH"]
EventTypes ==
  {"SIMULATION_START", "JOB_ARRIVAL", "JOB_EXIT"} \cup Range(START) \cup Range(FINISH)

Event(type, p, t) == [event_type |-> type, process |-> p, arrival_time |-> t]

random_integer(min, max) == min .. max

idle == [busy |-> FALSE, Q |-> <<>>, time_busy |-> 0, jobs_processed |-> 0, max_time |-> 0]

Init ==
  /\ total_time = 0
  /\ event_queue = push(empty_queue, Event("SIMULATION_START", 0, 0))
  /\ component = [c \in Components |-> idle]
  /\ IDcounter = 1
  /\ processes = {0}
  /\ status = "running"
  /\ longest = [c \in Components |-> 0]

-----------------------------------------------------------------------------
(* The main loop.                                                          *)

Continues == get_size(event_queue) > 0 /\ total_time < FIN_TIME

Now == front(event_queue).arrival_time
Job == front(event_queue).process

(* A turn for an event of that type; its handler pushes `events'.          *)
Turn(type, events) ==
  /\ status = "running" /\ Continues
  /\ front(event_queue).event_type = type
  /\ total_time' = Now
  /\ event_queue' = FoldLeft(push, pop(event_queue), events)
  /\ UNCHANGED status

(* new Event with a new Process.                                           *)
Arrival(t) == Event("JOB_ARRIVAL", IDcounter, Now + t)
NewProcess ==
  /\ processes' = processes \cup {IDcounter}
  /\ IDcounter' = IDcounter + 1
SameProcesses == UNCHANGED <<processes, IDcounter>>

handle_simulation_start ==
  \E t \in random_integer(ARRIVE_MIN, ARRIVE_MAX) :
    /\ Turn("SIMULATION_START", <<Arrival(t)>>)
    /\ NewProcess
    /\ UNCHANGED <<component, longest>>

-----------------------------------------------------------------------------
(* Parts of the handlers: the component as they leave it, and the events   *)
(* that they push.                                                         *)

(* Faulty: the busy flag is not looked at.                                 *)
TakenIfQueued(k) == k.Q # <<>>

(* A process comes to the CPU.                                             *)
Taken(k) == k.busy \/ k.Q # <<>>
Joined(k, p) == IF Taken(k) THEN [k EXCEPT !.Q = Append(@, p)] ELSE [k EXCEPT !.busy = TRUE]
JoinEvents(k, p) == IF Taken(k) THEN <<>> ELSE <<Event(START["cpu0"], p, Now)>>

(* Faulty: the component is marked as free in every case.                  *)
AdvancedIdle(k) ==
  [k EXCEPT !.jobs_processed = @ + 1, !.busy = FALSE,
            !.Q = IF k.Q = <<>> THEN <<>> ELSE Tail(k.Q)]

(* Faulty: the process at the head stays in the queue.                     *)
AdvancedKeeping(k) == [k EXCEPT !.jobs_processed = @ + 1, !.busy = k.Q # <<>>]

(* A component has finished and moves its queue along.                     *)
Advanced(k) ==
  [k EXCEPT !.jobs_processed = @ + 1, !.busy = k.Q # <<>>,
            !.Q = IF k.Q = <<>> THEN <<>> ELSE Tail(k.Q)]
AdvanceEvents(c) ==
  LET Q == component[c].Q IN IF Q = <<>> THEN <<>> ELSE <<Event(START[c], Head(Q), Now)>>

handle_job_arrival ==
  \E t \in random_integer(ARRIVE_MIN, ARRIVE_MAX) :
    /\ Turn("JOB_ARRIVAL", JoinEvents(component["cpu0"], Job) \o <<Arrival(t)>>)
    /\ component' = [component EXCEPT !["cpu0"] = Joined(@, Job)]
    /\ NewProcess
    /\ UNCHANGED longest

(* Service of t units begins.  The longest one is recorded, but disk0's    *)
(* record only grows by one.                                               *)
Longest(c, max_time, t) ==
  IF t <= max_time THEN max_time ELSE IF c = "disk0" THEN max_time + 1 ELSE t

(* Faulty: the time of the end is added instead of the duration.           *)
ServedUntil(c, t) ==
  [component[c] EXCEPT !.time_busy = @ + Now + t, !.max_time = Longest(c, @, t)]

Served(c, t) == [component[c] EXCEPT !.time_busy = @ + t, !.max_time = Longest(c, @, t)]

handle_start(c, min, max) ==
  \E t \in random_integer(min, max) :
    /\ Turn(START[c], <<Event(FINISH[c], Job, Now + t)>>)
    /\ component' = [component EXCEPT ![c] = Served(c, t)]
    /\ longest' = [longest EXCEPT ![c] = IF t > @ THEN t ELSE @]
    /\ SameProcesses

handle_cpu_start == handle_start("cpu0", CPU_MIN, CPU_MAX)
handle_disk_start(d) == handle_start(d, DISK_MIN, DISK_MAX)

(* random_integer(0, 99) falls below QUIT_PROB: the process ends.          *)
QuitAfterCpu ==
  /\ {r \in random_integer(0, 99) : QUIT_PROB > r} # {}
  /\ Turn(FINISH["cpu0"], AdvanceEvents("cpu0") \o <<Event("JOB_EXIT", Job, Now)>>)
  /\ component' = [component EXCEPT !["cpu0"] = Advanced(@)]

(* It goes to a disk: to one that is free, after a delay, or else to the   *)
(* shorter queue.                                                          *)
Ready(d) == component[d].Q = <<>> /\ ~component[d].busy
SomeDiskReady ==
  /\ \E d \in Disks : component[d].Q = <<>>
  /\ \E d \in Disks : ~component[d].busy
FirstReady == IF Ready("disk0") THEN {"disk0"} ELSE {d \in {"disk1"} : Ready(d)}
(* Faulty: the longer queue.                                               *)
Longer == IF Len(component["disk0"].Q) >= Len(component["disk1"].Q) THEN "disk0" ELSE "disk1"

Shorter == IF Len(component["disk0"].Q) <= Len(component["disk1"].Q) THEN "disk0" ELSE "disk1"

StartOnDisk ==
  /\ SomeDiskReady
  /\ \E t \in random_integer(DISK_MIN, DISK_MAX) :
       /\ Turn(FINISH["cpu0"], AdvanceEvents("cpu0") \o
                 SetToSeq({Event(START[d], Job, Now + t) : d \in FirstReady}))
       /\ component' = [c \in Components |->
            IF c = "cpu0" THEN Advanced(component[c])
            ELSE [component[c] EXCEPT !.busy = @ \/ c \in FirstReady]]

QueueAtDisk ==
  /\ ~SomeDiskReady
  /\ Turn(FINISH["cpu0"], AdvanceEvents("cpu0"))
  /\ component' = [component EXCEPT !["cpu0"] = Advanced(@),
                                    ![Shorter].Q = Append(@, Job)]

handle_cpu_finish ==
  /\ \/ QuitAfterCpu
     \/ /\ {r \in random_integer(0, 99) : QUIT_PROB <= r} # {}
        /\ StartOnDisk \/ QueueAtDisk
  /\ SameProcesses
  /\ UNCHANGED longest

handle_disk_finish(d) ==
  /\ Turn(FINISH[d], JoinEvents(component["cpu0"], Job) \o AdvanceEvents(d))
  /\ component' = [component EXCEPT !["cpu0"] = Joined(@, Job), ![d] = Advanced(@)]
  /\ SameProcesses
  /\ UNCHANGED longest

(* The destructor of the event deletes the process.                        *)
job_exit ==
  /\ Turn("JOB_EXIT", <<>>)
  /\ processes' = processes \ {Job}
  /\ UNCHANGED <<component, IDcounter, longest>>

(* Faulty: the simulation ends when no event is left.                      *)
end_when_drained ==
  /\ status = "running" /\ get_size(event_queue) = 0
  /\ status' = "ended"
  /\ UNCHANGED <<total_time, event_queue, component, IDcounter, processes, longest>>

(* The averages divide by the number of jobs of each component.            *)
handle_simulation_end ==
  /\ status = "running" /\ ~Continues
  /\ status' = IF \E c \in Components : component[c].jobs_processed = 0
               THEN "crashed" ELSE "ended"
  /\ UNCHANGED <<total_time, event_queue, component, IDcounter, processes, longest>>

Next ==
  \/ handle_simulation_start
  \/ handle_job_arrival
  \/ handle_cpu_start
  \/ handle_cpu_finish
  \/ \E d \in Disks : handle_disk_start(d) \/ handle_disk_finish(d)
  \/ job_exit
  \/ handle_simulation_end

Spec == Init /\ [][Next]_vars

(* One thread that never waits.                                            *)
FairSpec == Spec /\ WF_vars(Next)
=============================================================================
