---------------------------- MODULE SpellService -----------------------------
(***************************************************************************)
(* What Spellchecker/README.md promises, without locks, condition          *)
(* variables, ring indices or sockets: clients wait in a first-in          *)
(* first-out queue of bounded length, each worker serves one client at a   *)
(* time, the results of served clients pass through a second bounded queue *)
(* and are appended to the log in that order, each of them once, with the  *)
(* verdict of the dictionary.                                              *)
(***************************************************************************)
EXTENDS Integers, Sequences

CONSTANTS
  Workers,     \* as many clients are active at one time
  Clients,
  NoClient,    \* a connection that failed, or none
  Capacity,    \* the length of both queues
  Words,
  Dictionary,
  RequestIds   \* identify the words that clients type

VARIABLES
  queued,      \* the clients that wait
  serving,     \* worker -> its client
  results,     \* results on their way to the log
  log

vars == <<queued, serving, results, log>>

Result == [id : RequestIds, word : Words, ok : BOOLEAN]

Init ==
  /\ queued = <<>>
  /\ serving = [w \in Workers |-> NoClient]
  /\ results = <<>>
  /\ log = <<>>

Arrive(c) ==
  /\ Len(queued) < Capacity
  /\ queued' = Append(queued, c)
  /\ UNCHANGED <<serving, results, log>>

Serve(w) ==
  /\ serving[w] = NoClient
  /\ queued # <<>>
  /\ serving' = [serving EXCEPT ![w] = Head(queued)]
  /\ queued' = Tail(queued)
  /\ UNCHANGED <<results, log>>

Leave(w) ==
  /\ serving[w] # NoClient
  /\ serving' = [serving EXCEPT ![w] = NoClient]
  /\ UNCHANGED <<queued, results, log>>

Fresh(i) ==
  /\ \A k \in 1 .. Len(results) : results[k].id # i
  /\ \A k \in 1 .. Len(log) : log[k].id # i

Deliver(w, r) ==
  /\ serving[w] # NoClient
  /\ Len(results) < Capacity
  /\ Fresh(r.id)
  /\ r.ok = (r.word \in Dictionary)
  /\ results' = Append(results, r)
  /\ UNCHANGED <<queued, serving, log>>

Record ==
  /\ results # <<>>
  /\ log' = Append(log, Head(results))
  /\ results' = Tail(results)
  /\ UNCHANGED <<queued, serving>>

Next ==
  \/ \E c \in Clients \cup {NoClient} : Arrive(c)
  \/ \E w \in Workers : Serve(w) \/ Leave(w) \/ \E r \in Result : Deliver(w, r)
  \/ Record

Spec == Init /\ [][Next]_vars
=============================================================================
