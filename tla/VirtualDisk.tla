---------------------------- MODULE VirtualDisk ------------------------------
(***************************************************************************)
(* virtual_disk (Virtual Disk/virtual_disk.cpp): a file of Blocks blocks   *)
(* whose block 0 holds the disk's own record, and a counter of free blocks *)
(* that is saved there whenever it changes.                                *)
(*                                                                         *)
(* A call of the file system makes many block writes, and the process may  *)
(* end between any two of them.  A call is therefore worked out on a       *)
(* record                                                                  *)
(*   [fat, free, out, at, bad]                                             *)
(* with the allocation table and the free counter in memory, the block     *)
(* writes made so far in their order, the block that the local variable    *)
(* `current' holds, and whether -1 was used as a block number.             *)
(* Read and write errors of the host are not modelled.                     *)
(***************************************************************************)
EXTENDS Integers, SequencesExt

CONSTANTS
  Blocks,            \* blocks on the disk
  BlockSize,         \* bytes in a block
  EntriesPerBlock    \* table entries that fit in a block

ASSUME DiskAssumption ==
  /\ Blocks \in Nat
  /\ BlockSize \in Nat \ {0}
  /\ EntriesPerBlock \in Nat \ {0}

SUPERBLOCK == 0

save_disk(w) ==
  [w EXCEPT !.out = Append(@, [at |-> SUPERBLOCK, data |-> [free |-> w.free]])]

write_block(w, b, data, flag) ==
  LET written == [w EXCEPT !.out = Append(@, [at |-> b, data |-> data])]
  IN  IF flag = "WRITE" THEN save_disk([written EXCEPT !.free = @ - 1])
      ELSE written

(* Faulty: the superblock keeps the old number.                            *)
rm_blocks_unsaved(w, n) == [w EXCEPT !.free = @ + n]

rm_blocks(w, n) == save_disk([w EXCEPT !.free = @ + n])

(* What the disk holds once the block writes of `out' are made: the last   *)
(* that was written to each block.                                         *)
After(d, out) ==
  [b \in DOMAIN d |->
     LET made == {i \in DOMAIN out : out[i].at = b}
     IN  IF made = {} THEN d[b] ELSE out[Max(made)].data]

-----------------------------------------------------------------------------
(* The file allocation table (FAT.cpp), in blocks 1 .. ROOT - 1.  ROOT is  *)
(* rounded down, so the entries from Persisted on are in no block.         *)

FREE == FALSE
OCCUPIED == TRUE
NIL == -1            \* END_OF_FILE, END_OF_DIRECTORY and "not found"

ROOT == (Blocks \div EntriesPerBlock) + 1
Persisted == (ROOT - 1) * EntriesPerBlock
Entry == [occupied : BOOLEAN, next : NIL .. Blocks - 1]

FatBlock(i) == (i - 1) * EntriesPerBlock .. i * EntriesPerBlock - 1
FatOf(d) == [b \in 0 .. Persisted - 1 |-> d[(b \div EntriesPerBlock) + 1][b]]

(* Faulty: the last block of the table is left out.                        *)
FAT_write_short(w, flag) ==
  LET done[i \in 0 .. ROOT - 1] ==
        IF i = 0 THEN w ELSE write_block(done[i - 1], i, [b \in FatBlock(i) |-> w.fat[b]], flag)
  IN  done[ROOT - 2]

FAT_write(w, flag) ==
  LET done[i \in 0 .. ROOT - 1] ==
        IF i = 0 THEN w ELSE write_block(done[i - 1], i, [b \in FatBlock(i) |-> w.fat[b]], flag)
  IN  done[ROOT - 1]

FAT_init ==
  [b \in 0 .. Blocks - 1 |-> [occupied |-> IF b < ROOT THEN OCCUPIED ELSE FREE,
                              next |-> NIL]]

next_free_block(fat) ==
  LET available == {b \in ROOT + 1 .. Blocks - 1 : ~fat[b].occupied}
  IN  IF available = {} THEN NIL ELSE Min(available)

(* The n blocks that follow block b along the table.                       *)
Chain(fat, b, n) ==
  LET at[i \in 0 .. n] ==
        IF i = 0 THEN b ELSE IF at[i - 1] \in DOMAIN fat THEN fat[at[i - 1]].next ELSE NIL
  IN  [i \in 1 .. n |-> at[i]]

(* create_disk: every byte is zero but for the disk's record.              *)
Zeros == [bytes |-> [i \in 1 .. BlockSize |-> 0]]
create_disk ==
  [b \in 0 .. Blocks - 1 |->
     IF b = SUPERBLOCK THEN [free |-> Blocks - 1]
     ELSE IF b < ROOT THEN [e \in FatBlock(b) |-> [occupied |-> FREE, next |-> 0]]
     ELSE Zeros]
=============================================================================
