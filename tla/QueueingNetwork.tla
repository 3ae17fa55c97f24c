--------------------------- MODULE QueueingNetwork ---------------------------
(***************************************************************************)
(* What the simulator simulates (DiscreteEventSimulator/README.md): jobs   *)
(* that arrive one after another, one processor and two disks.  A station  *)
(* serves one job at a time, the others wait in line; a job that leaves    *)
(* the processor ends, or goes through a disk back to it.  No events, no   *)
(* clock.                                                                  *)
(***************************************************************************)
EXTENDS Integers, SequencesExt

CONSTANTS
  CPU, Disks,     \* the stations
  First,          \* the disk that is preferred
  None            \* no job

VARIABLES
  arrived,        \* the number of jobs that have arrived
  serving,        \* station -> the job it serves
  line            \* station -> the jobs that wait for it

vars == <<arrived, serving, line>>
Stations == {CPU} \cup Disks

Init ==
  /\ arrived = 0
  /\ serving = [s \in Stations |-> None]
  /\ line = [s \in Stations |-> <<>>]

(* A station never idles while jobs wait for it.                           *)
Join(st, s, job) ==
  IF st.serving[s] = None THEN [st EXCEPT !.serving[s] = job]
  ELSE [st EXCEPT !.line[s] = Append(@, job)]

Finished(st, s) ==
  IF st.line[s] = <<>> THEN [st EXCEPT !.serving[s] = None]
  ELSE [st EXCEPT !.serving[s] = Head(st.line[s]), !.line[s] = Tail(@)]

State == [serving |-> serving, line |-> line]
Become(st) == serving' = st.serving /\ line' = st.line

(* A free disk before a busy one, then the shorter line, then First.       *)
Load(d) == Len(line[d]) + IF serving[d] = None THEN 0 ELSE 1
Choice(d) ==
  \A e \in Disks \ {d} : Load(d) < Load(e) \/ (d = First /\ Load(d) = Load(e))

Arrive ==
  /\ arrived' = arrived + 1
  /\ Become(Join(State, CPU, arrived + 1))

End ==
  /\ serving[CPU] # None
  /\ Become(Finished(State, CPU))
  /\ UNCHANGED arrived

GoToDisk(d) ==
  /\ serving[CPU] # None
  /\ Choice(d)
  /\ Become(Join(Finished(State, CPU), d, serving[CPU]))
  /\ UNCHANGED arrived

ReturnFrom(d) ==
  /\ serving[d] # None
  /\ Become(Finished(Join(State, CPU, serving[d]), d))
  /\ UNCHANGED arrived

Next ==
  \/ Arrive
  \/ End
  \/ \E d \in Disks : GoToDisk(d) \/ ReturnFrom(d)

Spec == Init /\ [][Next]_vars
=============================================================================
