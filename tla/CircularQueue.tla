---------------------------- MODULE CircularQueue ----------------------------
(***************************************************************************)
(* circular_queue<T> of Spellchecker/circular_queue.h: a ring of SIZE      *)
(* slots with an extraction index, an insertion index and a separate size. *)
(* The object is the record [buffer, size, front, back]; a method that     *)
(* changes it is an operator that returns the changed record.  Neither     *)
(* push nor pop tests its precondition: callers test full() and empty()    *)
(* first, so both operators are total, as in the code.                     *)
(***************************************************************************)
EXTENDS Integers, Sequences

CONSTANT SIZE   \* #define SIZE 20, the capacity of every queue

ASSUME SizeAssumption == SIZE \in Nat \ {0}

Slots == 0 .. SIZE - 1

(* The constructor leaves buffer uninitialised: junk stands for whatever   *)
(* the slots hold.                                                         *)
circular_queue(junk) ==
  [buffer |-> [i \in Slots |-> junk], size |-> 0, front |-> 0, back |-> 0]

empty(q) == q.size = 0

(* Faulty variants, here and below: each is the operator or action that    *)
(* follows it with one plausible mistake, used to see that a property      *)
(* notices.  No specification refers to them.                              *)
full_late(q) == q.size = SIZE + 1

full(q) == q.size = SIZE

(* The index is advanced before the slot is read.                          *)
front_item_late(q) == q.buffer[(q.front + 1) % SIZE]

(* The slot written last is read: a stack instead of a queue.              *)
front_item_newest(q) == q.buffer[(q.back + SIZE - 1) % SIZE]

(* pop() returns buffer[front] ...                                         *)
front_item(q) == q.buffer[q.front]

(* The index is not advanced.                                              *)
pop_stuck(q) == [q EXCEPT !.size = q.size - 1]

(* ... and leaves the queue like this.  The slot keeps its old value.      *)
pop(q) ==
  [buffer |-> q.buffer, size |-> q.size - 1,
   front |-> (q.front + 1) % SIZE, back |-> q.back]

push(q, item) ==
  [buffer |-> [q.buffer EXCEPT ![q.back] = item], size |-> q.size + 1,
   front |-> q.front, back |-> (q.back + 1) % SIZE]

-----------------------------------------------------------------------------
(* What the representation stands for.                                     *)

Queues(T) == [buffer : [Slots -> T], size : 0 .. SIZE, front : Slots, back : Slots]

(* The two indices and the size describe the same ring segment.            *)
RingOK(q) == q.back = (q.front + q.size) % SIZE

(* The queued items, oldest first.                                         *)
Contents(q) == [i \in 1 .. q.size |-> q.buffer[(q.front + (i - 1)) % SIZE]]
=============================================================================
