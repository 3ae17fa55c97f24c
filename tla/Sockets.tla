------------------------------- MODULE Sockets -------------------------------
(***************************************************************************)
(* The TCP connections of Spellchecker/server.cpp as its system calls see  *)
(* them, and the clients at the other ends.  External code, modelled from  *)
(* the calls accept, send, recv and close of the worker and main threads.  *)
(*                                                                         *)
(* peer[fd] is what the server's end of the connection knows:              *)
(*   "none"    the descriptor is not open                                  *)
(*   "open"    the connection is up                                        *)
(*   "fin"     the client closed: recv reports end of file                 *)
(*   "finsent" ... and the server has sent data since, which the closed    *)
(*             client answers with a reset                                 *)
(*   "reset"   a reset arrived: the next call fails with ECONNRESET        *)
(*   "broken"  that error was reported, or the reset came after end of     *)
(*             file: recv reports end of file, send raises SIGPIPE         *)
(***************************************************************************)
EXTENDS Integers, Sequences

CONSTANTS
  Fds,            \* the descriptors accept may return
  NoFd,           \* the value -1
  Words,          \* what a client may type
  NoWord,         \* no bytes are left
  AfterPing,      \* what is left of a word once recv has taken four bytes
  Polite,         \* clients type only at a prompt
  AbortiveClose,  \* clients may end a connection with a reset
  MaxRequests     \* bound on the words typed in a behaviour

ASSUME FdAssumption == NoFd \notin Fds
ASSUME WordAssumption ==
  /\ NoWord \notin Words
  /\ AfterPing \in [Words -> Words \cup {NoWord}]
ASSUME ClientAssumption ==
  /\ Polite \in BOOLEAN
  /\ AbortiveClose \in BOOLEAN
  /\ MaxRequests \in Nat

VARIABLES
  peer,      \* descriptor -> state of its connection
  rx,        \* descriptor -> typed words not yet received, at most one
  prompted,  \* the descriptors whose client has an unanswered prompt
  requests   \* every word typed, in order: [fd, word]

socketVars == <<peer, rx, prompted, requests>>

PeerStates == {"none", "open", "fin", "finsent", "reset", "broken"}

Message == [id : 1 .. MaxRequests, word : Words]

Open(fd) == fd \in Fds /\ peer[fd] # "none"

SocketInit ==
  /\ peer = [fd \in Fds |-> "none"]
  /\ rx = [fd \in Fds |-> <<>>]
  /\ prompted = {}
  /\ requests = <<>>

-----------------------------------------------------------------------------
(* The clients.                                                            *)

Type(fd, w) ==
  /\ peer[fd] = "open"
  /\ rx[fd] = <<>>
  /\ Len(requests) < MaxRequests
  /\ Polite => fd \in prompted
  /\ requests' = Append(requests, [fd |-> fd, word |-> w])
  /\ rx' = [rx EXCEPT ![fd] = <<[id |-> Len(requests) + 1, word |-> w]>>]
  /\ prompted' = prompted \ {fd}
  /\ UNCHANGED peer

Finish(fd) ==
  /\ peer[fd] = "open"
  /\ peer' = [peer EXCEPT ![fd] = "fin"]
  /\ UNCHANGED <<rx, prompted, requests>>

Reset(fd) ==
  /\ \/ /\ AbortiveClose
        /\ \/ peer[fd] = "open" /\ peer' = [peer EXCEPT ![fd] = "reset"]
           \/ peer[fd] = "fin" /\ peer' = [peer EXCEPT ![fd] = "broken"]
     \/ peer[fd] = "finsent" /\ peer' = [peer EXCEPT ![fd] = "broken"]
  /\ UNCHANGED <<rx, prompted, requests>>

Client ==
  \E fd \in Fds : Finish(fd) \/ Reset(fd) \/ \E w \in Words : Type(fd, w)

-----------------------------------------------------------------------------
(* The system calls.  A pending error is reported once; a call on -1 or on *)
(* a closed descriptor fails.                                              *)

accept(fd) ==
  /\ peer[fd] = "none"
  /\ peer' = [peer EXCEPT ![fd] = "open"]
  /\ rx' = [rx EXCEPT ![fd] = <<>>]
  /\ prompted' = prompted \ {fd}
  /\ UNCHANGED requests

close(fd) ==
  /\ peer' = [f \in Fds |-> IF f = fd THEN "none" ELSE peer[f]]
  /\ rx' = [f \in Fds |-> IF f = fd THEN <<>> ELSE rx[f]]
  /\ prompted' = prompted \ {fd}
  /\ UNCHANGED requests

SendKills(fd) == Open(fd) /\ peer[fd] = "broken"

SendFails(fd) == Open(fd) => peer[fd] = "reset"

SendWorks(fd) == Open(fd) /\ peer[fd] \in {"open", "fin", "finsent"}

peerAfterSend(fd) ==
  [f \in Fds |-> CASE f = fd /\ peer[f] = "fin"   -> "finsent"
                   [] f = fd /\ peer[f] = "reset" -> "broken"
                   [] OTHER                       -> peer[f]]

HasData(fd) == Open(fd) /\ rx[fd] # <<>>

AtEnd(fd) == Open(fd) /\ rx[fd] = <<>> /\ peer[fd] \in {"fin", "finsent", "broken"}

RecvFails(fd) == Open(fd) => rx[fd] = <<>> /\ peer[fd] = "reset"

peerAfterRecv(fd) ==
  [f \in Fds |-> IF f = fd /\ peer[f] = "reset" /\ rx[f] = <<>>
                 THEN "broken" ELSE peer[f]]

(* recv(fd, &errbuff, 4, MSG_DONTWAIT): four bytes of a pending word go.   *)
rxAfterPing(fd) ==
  [f \in Fds |->
     IF f # fd \/ rx[f] = <<>> THEN rx[f]
     ELSE LET m == Head(rx[f]) IN
          IF AfterPing[m.word] = NoWord THEN <<>>
          ELSE <<[m EXCEPT !.word = AfterPing[m.word]]>>]
=============================================================================
