------------------------------ MODULE PThreads -------------------------------
(***************************************************************************)
(* The part of POSIX threads that Spellchecker/server.cpp calls: mutexes   *)
(* and condition variables.  External code, modelled from its uses.        *)
(* There is one wait set per condition variable.  A thread that sleeps in  *)
(* pthread_cond_wait has its program counter back at the lock: once it is  *)
(* out of the wait set it competes for the mutex like any other thread.    *)
(***************************************************************************)
CONSTANT NoThread

VARIABLES
  owner,    \* mutex -> the thread that holds it, or NoThread
  waiting   \* condition variable -> the threads asleep on it

pthreadVars == <<owner, waiting>>

Asleep(t) == \E c \in DOMAIN waiting : t \in waiting[c]

pthread_mutex_lock(t, m) ==
  /\ owner[m] = NoThread
  /\ ~ Asleep(t)
  /\ owner' = [owner EXCEPT ![m] = t]
  /\ UNCHANGED waiting

pthread_mutex_unlock(m) ==
  /\ owner' = [owner EXCEPT ![m] = NoThread]
  /\ UNCHANGED waiting

(* Releases the mutex and goes to sleep in one step.                       *)
pthread_cond_wait(t, c, m) ==
  /\ owner' = [owner EXCEPT ![m] = NoThread]
  /\ waiting' = [waiting EXCEPT ![c] = @ \cup {t}]

(* Wakes any one sleeper; without a sleeper the signal is lost.            *)
pthread_cond_signal(c) ==
  /\ \/ /\ waiting[c] = {}
        /\ UNCHANGED waiting
     \/ \E t \in waiting[c] : waiting' = [waiting EXCEPT ![c] = @ \ {t}]
  /\ UNCHANGED owner

(* POSIX allows pthread_cond_wait to return without a signal.              *)
SpuriousWakeup ==
  /\ \E c \in DOMAIN waiting : \E t \in waiting[c] :
        waiting' = [waiting EXCEPT ![c] = @ \ {t}]
  /\ UNCHANGED owner
=============================================================================
