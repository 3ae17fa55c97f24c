----------------------------- MODULE FileStore -------------------------------
(***************************************************************************)
(* What the file system of Virtual Disk/ keeps of its README's promises,   *)
(* without blocks, tables, buffers or a disk: named files are byte         *)
(* sequences, an open file has an offset, a write replaces the bytes from  *)
(* the offset on and may lengthen the file, and a process that just stops  *)
(* loses the offsets only.                                                 *)
(*                                                                         *)
(* It does not keep all of them, and the ways a process may break down are *)
(* actions of their own: a write that lengthens its file may end it        *)
(* (Overflow), so may any use of a directory or of the last block (Stray,  *)
(* OutOfBlocks), and a process that ends in the middle of a call may leave *)
(* that call's file damaged (Interrupt).                                   *)
(***************************************************************************)
EXTENDS Integers, Sequences

CONSTANTS
  Files, Handles,
  Absent,        \* there is no such file
  Closed,        \* the handle is not in use
  Bytes,         \* what the callers write
  MostBytes      \* no file is longer

VARIABLES
  process,       \* "down", "up", or how it broke down
  files,         \* name -> byte sequence, or Absent
  handles        \* handle -> file and offset, or Closed

vars == <<process, files, handles>>

Init ==
  /\ process = "down"
  /\ files = [n \in Files |-> Absent]
  /\ handles = [h \in Handles |-> Closed]

(* A call is made of a process that runs, and leaves it running.           *)
Call == process = "up" /\ UNCHANGED process

IsOpen(n) == \E h \in Handles : handles[h] # Closed /\ handles[h].file = n

Create(n) ==
  /\ Call
  /\ UNCHANGED handles
  /\ files[n] = Absent
  /\ files' = [files EXCEPT ![n] = <<>>]

Remove(n) ==
  /\ Call
  /\ UNCHANGED handles
  /\ ~IsOpen(n)
  /\ files[n] # Absent
  /\ files' = [files EXCEPT ![n] = Absent]

Open(h, n) ==
  /\ Call
  /\ handles[h] = Closed
  /\ handles'[h] # Closed
  /\ files[n] # Absent
  /\ handles' = [handles EXCEPT ![h] = [file |-> n, offset |-> Len(files[n])]]
  /\ UNCHANGED files

Close(h) ==
  /\ Call
  /\ handles[h] # Closed
  /\ handles' = [handles EXCEPT ![h] = Closed]
  /\ UNCHANGED files

Seek(h, offset) ==
  /\ Call
  /\ handles[h] # Closed
  /\ handles' = [handles EXCEPT ![h].offset = offset]
  /\ offset <= Len(files[handles[h].file])
  /\ UNCHANGED files

(* The sequence s with n bytes b after the first `offset' bytes.           *)
Overlay(s, offset, n, b) ==
  [i \in 1 .. IF offset + n > Len(s) THEN offset + n ELSE Len(s) |->
     IF i \in offset + 1 .. offset + n THEN b ELSE s[i]]

Write(h, n, b) ==
  /\ Call
  /\ handles[h] # Closed
  /\ LET f == handles[h].file
         offset == handles[h].offset
     IN  /\ handles' = [handles EXCEPT ![h].offset = offset + n]
         /\ files' = [files EXCEPT ![f] = Overlay(@, offset, n, b)]

Truncate(h, n) ==
  /\ Call
  /\ handles[h] # Closed
  /\ handles' = [handles EXCEPT ![h].offset = n]
  /\ LET f == handles[h].file
     IN  /\ n < Len(files[f])
         /\ files' = [files EXCEPT ![f] = SubSeq(@, 1, n)]

(* The process ends in the way `how', and with it the handles.             *)
End(how) ==
  /\ process = "up"
  /\ process' = how
  /\ handles' = [h \in Handles |-> Closed]

Stop == End("down") /\ UNCHANGED files

Start ==
  /\ process \in {"down", "killed"}
  /\ process' = "up"
  /\ handles' = [h \in Handles |-> Closed]
  /\ UNCHANGED files

(* The process ends in the middle of a call on n: that file may be         *)
(* damaged, and no other.                                                  *)
Interrupt(n) ==
  /\ End("torn")
  /\ DOMAIN files' = Files
  /\ \A m \in Files \ {n} : files'[m] = files[m]

(* A write that would lengthen an open file, by as much as the caller      *)
(* likes, ends the process instead.                                        *)
Overflow(h) ==
  /\ handles[h] # Closed
  /\ End("killed") \/ End("overrun")
  /\ UNCHANGED files

Stray == End("stray") /\ UNCHANGED files

OutOfBlocks ==
  /\ process = "up"
  /\ process' = "noblock"
  /\ UNCHANGED <<files, handles>>

Next ==
  \/ \E n \in Files : Create(n) \/ Remove(n)
  \/ \E h \in Handles, n \in Files : Open(h, n)
  \/ \E h \in Handles :
       \/ Close(h) \/ Overflow(h)
       \/ \E n \in 0 .. MostBytes : Seek(h, n) \/ Truncate(h, n)
       \/ \E n \in 1 .. MostBytes, b \in Bytes : Write(h, n, b)
  \/ Stop \/ Start \/ Stray \/ OutOfBlocks
  \/ \E n \in Files : Interrupt(n)

Spec == Init /\ [][Next]_vars
=============================================================================
