----------------------------- MODULE FileSystem ------------------------------
(***************************************************************************)
(* file_system (Virtual Disk/*.cpp) on its virtual disk.                   *)
(*                                                                         *)
(* A call of the interface is one step that reads the disk, changes the    *)
(* table, the counter and the open files in memory and leaves the block    *)
(* writes it makes, in their order, in `writes'; DiskWrite makes them one  *)
(* by one, and the process may end at any moment (Exit).  Every block that *)
(* a call reads is read before the call writes it, so reading at once is   *)
(* the same.  A call that fails without changing anything is no step.      *)
(***************************************************************************)
EXTENDS VirtualDisk, FiniteSets

CONSTANTS
  FileNames, DirNames,   \* the names that callers give to files, directories
  Slash,                 \* the name of the root directory
  ParentNames,           \* the directory names that callers pass
  NoName,                \* no call is running
  Closed,                \* a NULL in file_desc
  Absent,                \* there is no file of that name
  MaxOpen,               \* descriptors that callers use, at most 64
  DirEnd,                \* the last index of contents, 255
  WriteSizes, Bytes,     \* sizes of writes, and what they are filled with
  EOF, Junk,             \* the end-of-file byte; a byte nobody chose
  Offsets,               \* arguments of vfs_seek, vfs_trunc and vfs_read
  WriteByWrite,          \* the process may end in the middle of a call
  Careful                \* callers open a closed file, remove a closed file

ASSUME RootInTable == ROOT \in 1 .. Persisted - 1

ASSUME CallerAssumption ==
  /\ IsFiniteSet(FileNames) /\ IsFiniteSet(DirNames)     \* at most 15 characters: vfs_close
                                                         \* copies a name into char name[16]
  /\ MaxOpen \in Nat
  /\ WriteSizes \subseteq Nat /\ Offsets \subseteq Nat

Names == FileNames \cup DirNames \cup {Slash}
Descriptors == 0 .. MaxOpen - 1

(* How a process ends that does not just stop: between the block writes of *)
(* a call; by a memset of negative length; by bytes stored behind a buffer *)
(* on the heap; with -1 used as a block; by a stray index or pointer.  But *)
(* for the first two the code is undefined and the model ends there.       *)
Modes == {"down", "up", "torn", "killed", "overrun", "noblock", "stray"}

VARIABLES
  mode,         \* down, up, or how the process ended
  ftable, free_blocks, file_desc,
  disk,         \* the disk file: a record, table, metadata or data per block
  writes,       \* block writes that the running call has still to make
  target,       \* the name that the running call is about
  stored        \* history: what each file holds once the call is through

memory == <<ftable, free_blocks, file_desc>>
vars == <<mode, memory, disk, writes, target, stored>>

NoTable == [b \in 0 .. Blocks - 1 |-> [occupied |-> FREE, next |-> NIL]]

(* A process that has opened no file system yet; file_desc is taken to be  *)
(* NULL throughout, as it is in fresh memory.                              *)
Forget ==
  /\ ftable' = NoTable
  /\ free_blocks' = 0
  /\ file_desc' = [fd \in Descriptors |-> Closed]

Init ==
  /\ mode = "down"
  /\ ftable = NoTable
  /\ free_blocks = 0
  /\ file_desc = [fd \in Descriptors |-> Closed]
  /\ disk = create_disk
  /\ writes = <<>>
  /\ target = NoName
  /\ stored = [name \in FileNames |-> Absent]

Idle == mode = "up" /\ writes = <<>>
Work == [fat |-> ftable, free |-> free_blocks, out |-> <<>>, at |-> NIL, bad |-> FALSE]

-----------------------------------------------------------------------------
(* Searching: rec_search visits the tree in depth-first order and returns  *)
(* the start of the first node with the name.                              *)

IsVnode(block) == "entries" \in DOMAIN block
Depth == Cardinality(Names)

Walk(d) ==
  LET visit[k \in 0 .. Depth] ==
        [b \in 0 .. Blocks - 1 |->
           IF k = 0 \/ ~IsVnode(d[b]) THEN <<>>
           ELSE <<b>> \o FlattenSeq([i \in DOMAIN d[b].entries |-> visit[k - 1][d[b].entries[i]]])]
  IN  visit[Depth][ROOT]

vfs_search(d, name) ==
  LET nodes == Walk(d)
      hits == {i \in DOMAIN nodes : d[nodes[i]].name = name}
  IN  IF hits = {} THEN NIL ELSE d[nodes[Min(hits)]].start

Nodes(d) == ToSet(Walk(d))
PlainFiles(d) == {b \in Nodes(d) : d[b].type = "V_FILE"}

(* read_block; the bytes of metadata are no bytes anybody wrote.           *)
BytesAt(d, b) ==
  IF b \in DOMAIN d /\ ~IsVnode(d[b]) THEN d[b].bytes ELSE [i \in 1 .. BlockSize |-> Absent]

(* The first n bytes of a chain of blocks.                                 *)
Joined(d, chain, n) ==
  [k \in 1 .. n |-> BytesAt(d, chain[(k - 1) \div BlockSize + 1])[((k - 1) % BlockSize) + 1]]

(* The bytes of the file that starts at block b, up to its end.            *)
Content(fat, d, b) == Joined(d, Chain(fat, b, d[b].size), d[b].eof)

(* What the disk file d holds by itself, for whoever opens it next.        *)
Stored(d) ==
  LET fat == FatOf(d)
      files == {b \in PlainFiles(d) : b < Persisted /\ fat[b].occupied}
      found == [name \in FileNames |-> {b \in files : d[b].name = name}]
  IN  [name \in FileNames |->
         IF found[name] = {} THEN Absent ELSE Content(fat, d, Min(found[name]))]

add_content(w, dir, s) ==
  write_block(w, dir.start, [dir EXCEPT !.entries = Append(@, s)], "OVERWRITE")

(* Faulty: the entry is removed from a copy only.                          *)
rm_content_unchanged(w, dir, s) == write_block(w, dir.start, dir, "OVERWRITE")

rm_content(w, dir, s) ==
  write_block(w, dir.start, [dir EXCEPT !.entries = RemoveFirst(@, s)], "OVERWRITE")

-----------------------------------------------------------------------------
(* vfs_sync_file writes metadata and data and adapts the chain.            *)

DataBlock(binary, i) ==
  [bytes |-> [k \in 1 .. BlockSize |->
     IF i * BlockSize + k \in DOMAIN binary THEN binary[i * BlockSize + k] ELSE Junk]]

Rewrite(w, binary, i) ==
  LET b == w.fat[w.at].next
  IN  IF b = NIL THEN [w EXCEPT !.bad = TRUE]
      ELSE write_block([w EXCEPT !.at = b], b, DataBlock(binary, i), "OVERWRITE")

(* Faulty: the new block is not marked as occupied.                        *)
ExtendUnmarked(w, binary, i) ==
  LET b == next_free_block(w.fat)
  IN  IF b = NIL THEN [w EXCEPT !.bad = TRUE]
      ELSE write_block([w EXCEPT !.fat[w.at].next = b, !.at = b],
                       b, DataBlock(binary, i), "WRITE")

Extend(w, binary, i) ==
  LET b == next_free_block(w.fat)
  IN  IF b = NIL THEN [w EXCEPT !.bad = TRUE]
      ELSE write_block([w EXCEPT !.fat[w.at].next = b, !.fat[b].occupied = OCCUPIED, !.at = b],
                       b, DataBlock(binary, i), "WRITE")

(* Faulty: the kept part of the chain is not cut off.                      *)
ReleaseUncut(w) ==
  LET b == w.fat[w.at].next
  IN  IF b = NIL THEN [w EXCEPT !.bad = TRUE]
      ELSE rm_blocks([w EXCEPT !.fat[b].occupied = FREE, !.at = b], 1)

Release(w) ==
  LET b == w.fat[w.at].next
  IN  IF b = NIL THEN [w EXCEPT !.bad = TRUE]
      ELSE rm_blocks([w EXCEPT !.fat[w.at].next = NIL, !.fat[b].occupied = FREE, !.at = b], 1)

(* The body of each of its loops, for the i-th block.                      *)
Step(loop, w, binary, i) ==
  CASE loop = "rewrite" -> Rewrite(w, binary, i)
    [] loop = "extend"  -> Extend(w, binary, i)
    [] loop = "release" -> Release(w)

Repeat(loop, w, binary, from, to) ==
  LET done[k \in from .. to] ==
        IF k = from THEN w
        ELSE IF done[k - 1].bad THEN done[k - 1] ELSE Step(loop, done[k - 1], binary, k - 1)
  IN  done[to]

vfs_sync_file(w, meta, binary) ==
  LET s == meta.start
      fresh == ~w.fat[s].occupied
      old == IF fresh THEN 0 ELSE IF IsVnode(disk[s]) THEN disk[s].size ELSE 0
      kept == Min({old, meta.size})
      head == write_block([w EXCEPT !.at = s, !.fat[s].occupied = OCCUPIED],
                          s, meta, IF fresh THEN "WRITE" ELSE "OVERWRITE")
      body == Repeat("rewrite", head, binary, 0, kept)
      more == Repeat("extend", body, binary, old, meta.size)
      tail == IF old <= meta.size THEN [more EXCEPT !.fat[more.at].next = NIL]
              ELSE Repeat("release", body, binary, meta.size, old)
  IN  FAT_write(tail, "OVERWRITE")

(* The effect of a call on `name' that ends with the work w and the open   *)
(* files fds, or with -1 used as a block number.                           *)
Return(name, w, fds) ==
  /\ IF w.bad
     THEN mode' = "noblock" /\ UNCHANGED <<memory, writes, target, stored>>
     ELSE /\ mode' = "up"
          /\ target' = IF w.out = <<>> THEN NoName ELSE name
          /\ ftable' = w.fat
          /\ free_blocks' = w.free
          /\ file_desc' = fds
          /\ writes' = w.out
          /\ \E d \in {After(disk, w.out)} : stored' = Stored(d)
  /\ UNCHANGED disk

-----------------------------------------------------------------------------
(* The constructor: a disk with a root directory is used as it is, on any  *)
(* other disk a file system is made.  Entries the disk does not hold are   *)
(* what malloc returned.                                                   *)

RootVnode ==
  [name |-> Slash, type |-> "V_DIRECTORY", start |-> ROOT, size |-> 0, eof |-> NIL,
   parent |-> ROOT, entries |-> <<>>]

file_system ==
  /\ mode \in {"down", "killed"}
  /\ \E rest \in [Persisted .. Blocks - 1 -> Entry] :
       LET fat == [b \in 0 .. Blocks - 1 |->
                     IF b < Persisted THEN FatOf(disk)[b] ELSE rest[b]]
           load == [fat |-> fat, free |-> disk[SUPERBLOCK].free,
                    out |-> <<>>, at |-> NIL, bad |-> FALSE]
           make == FAT_write([load EXCEPT !.fat = FAT_init], "WRITE")
       IN  Return(Slash,
                  IF fat[ROOT].occupied THEN load ELSE vfs_sync_file(make, RootVnode, <<>>),
                  [fd \in Descriptors |-> Closed])

(* The process is lost, the disk stays as it is.                           *)
Lose(how) ==
  /\ mode' = how
  /\ Forget
  /\ UNCHANGED <<disk, writes, target, stored>>

(* add_content also stores an end mark in the root's copy in memory, which *)
(* is not used again, but behind the index of the new block: from block    *)
(* DirEnd on that lies outside of contents.                                *)
MarksOutside(parent, s) == parent.start = ROOT /\ s >= DirEnd

(* vfs_create and vfs_mkdir: the entry is added to the parent first.       *)
NewEntry(name, dir_name, type, size, eof, binary) ==
  LET found == vfs_search(disk, dir_name)
      parent == disk[IF found = NIL THEN ROOT ELSE found]
      s == next_free_block(ftable)
      meta == [name |-> name, type |-> type, start |-> s, size |-> size, eof |-> eof,
               parent |-> parent.start, entries |-> <<>>]
  IN  /\ Idle
      /\ vfs_search(disk, name) = NIL
      /\ Len(parent.entries) + 2 < DirEnd
      /\ \/ Return(name,
                   IF s = NIL THEN [Work EXCEPT !.bad = TRUE]
                   ELSE vfs_sync_file(add_content(Work, parent, s), meta, binary),
                   file_desc)
         \/ MarksOutside(parent, s) /\ Lose("stray")

vfs_create(name, dir_name) ==
  NewEntry(name, dir_name, "V_FILE", 1, 0,
           [k \in 1 .. BlockSize |-> IF k = 1 THEN EOF ELSE 0])

vfs_mkdir(name, dir_name) == NewEntry(name, dir_name, "V_DIRECTORY", 0, NIL, <<>>)

(* vfs_rm: the check for an open file stops at the first free descriptor,  *)
(* and of the freed chain only the first entry is cut.                     *)
Listed == {fd \in Descriptors : \A e \in 0 .. fd : file_desc[e] # Closed}
OpenOf(name) == {fd \in Descriptors : file_desc[fd] # Closed /\ file_desc[fd].meta.name = name}

Freed(fat, s) == {s} \cup (ToSet(Chain(fat, s, Blocks)) \ {NIL})

Unlink(fat, s) ==
  [b \in DOMAIN fat |->
     [occupied |-> IF b \in Freed(fat, s) THEN FREE ELSE fat[b].occupied,
      next |-> IF b = s THEN NIL ELSE fat[b].next]]

vfs_rm(name) ==
  LET s == vfs_search(disk, name)
      parent == disk[disk[s].parent]
      unlisted == rm_content(Work, parent, s)
      unlinked == FAT_write([unlisted EXCEPT !.fat = Unlink(ftable, s)], "OVERWRITE")
  IN  /\ Idle
      /\ Listed \cap OpenOf(name) = {}
      /\ Careful => OpenOf(name) = {}
      /\ s # NIL
      /\ disk[s].type = "V_FILE"
      /\ Contains(parent.entries, s)
      /\ Return(name, rm_blocks(unlinked, Cardinality(Freed(ftable, s))), file_desc)

-----------------------------------------------------------------------------
(* Open files: metadata, binary and offset are copies in memory.           *)

(* A caller keeps to MaxOpen descriptors.                                  *)
OpenFile(name) ==
  LET s == vfs_search(disk, name)
      meta == disk[s]
      chain == Chain(ftable, s, meta.size)
      file == [meta |-> meta,
               binary |-> Joined(disk, chain, meta.size * BlockSize),
               offset |-> meta.eof]
      slots == {fd \in Descriptors : file_desc[fd] = Closed}
  IN  /\ Idle
      /\ slots # {}
      /\ Careful => OpenOf(name) = {}
      /\ s # NIL
      /\ meta.type = "V_FILE"
      /\ Return(name, [Work EXCEPT !.bad = NIL \in ToSet(chain)],
                [file_desc EXCEPT ![Min(slots)] = file])

(* A directory is refused, but the pointer to its bytes, never set, is     *)
(* given to free.                                                          *)
OpenDirectory(name) ==
  LET s == vfs_search(disk, name)
  IN  /\ Idle
      /\ s # NIL
      /\ disk[s].type = "V_DIRECTORY"
      /\ Lose("stray")

vfs_open(name) == OpenFile(name) \/ OpenDirectory(name)

Using(fd) == Idle /\ file_desc[fd] # Closed

(* A call that leaves an open file as f and writes it to the disk.         *)
Commit(f, fds) == Return(f.meta.name, vfs_sync_file(Work, f.meta, f.binary), fds)

vfs_close(fd) ==
  /\ Using(fd)
  /\ Commit(file_desc[fd], [file_desc EXCEPT ![fd] = Closed])

Ceiling(n) == (n + BlockSize - 1) \div BlockSize
Capacity(f) == f.meta.size * BlockSize

(* vfs_write, once the number of bytes and the buffer are settled.  An     *)
(* end-of-file byte behind the buffer (EndsBehind) is in no variable.      *)
Fill(f, buffer, size, byte) ==
  LET last == f.offset + size
      data == [k \in DOMAIN buffer |-> IF k \in f.offset + 1 .. last THEN byte ELSE buffer[k]]
  IN  IF last > f.meta.eof
      THEN [meta |-> [f.meta EXCEPT !.eof = last],
            binary |-> [k \in DOMAIN data |-> IF k = last + 1 THEN EOF ELSE data[k]],
            offset |-> last]
      ELSE [f EXCEPT !.binary = data, !.offset = last]

(* The write moves the end of the file to the end of the buffer or further; *)
(* the end-of-file byte, if not more, is stored behind the buffer.  No more *)
(* than that byte may do no harm, or the heap is damaged.                  *)
EndsBehind(f, length, last) == last > f.meta.eof /\ last >= length

(* Faulty: a fresh buffer instead of a longer one.                         *)
ReallocFresh(f, new_size) == [k \in 1 .. new_size |-> 0]

(* realloc and memset: the old bytes as far as they were in the buffer,    *)
(* zeros from the end of the old blocks.                                   *)
Realloc(f, new_size) ==
  [k \in 1 .. new_size |-> IF k > Capacity(f) THEN 0
                           ELSE IF k \in DOMAIN f.binary THEN f.binary[k] ELSE Junk]

(* The write fits in the blocks of the file; it may not fit in the buffer, *)
(* which an earlier realloc has cut to the bytes then needed.              *)
WriteInPlace(fd, size, byte) ==
  LET f == file_desc[fd]
      g == Fill(f, f.binary, size, byte)
      last == f.offset + size
  IN  /\ last <= Capacity(f)
      /\ \/ last <= Len(f.binary) /\ Commit(g, [file_desc EXCEPT ![fd] = g])
         \/ EndsBehind(f, Len(f.binary), last) /\ Lose("overrun")

(* The write needs new blocks, and gets as many as are free.  A size that  *)
(* falls short of the old blocks makes the length of memset negative; any  *)
(* other fills the new buffer to its last byte.                            *)
WriteGrowing(fd, size, byte) ==
  LET f == file_desc[fd]
      wanted == Ceiling(f.offset + size - Capacity(f))
      new_blocks == Min({wanted, free_blocks})
      given == IF wanted > free_blocks THEN new_blocks * BlockSize - 1 ELSE size
      new_size == f.offset + given
      g == Fill([f EXCEPT !.meta.size = @ + new_blocks], Realloc(f, new_size), given, byte)
  IN  /\ f.offset + size > Capacity(f)
      /\ \/ new_size < Capacity(f) /\ Lose("killed")
         \/ new_size >= Capacity(f) /\ Commit(g, [file_desc EXCEPT ![fd] = g])
         \/ /\ new_size >= Capacity(f)
            /\ EndsBehind(f, new_size, new_size)
            /\ Lose("overrun")

vfs_write(fd, size, byte) ==
  Using(fd) /\ (WriteInPlace(fd, size, byte) \/ WriteGrowing(fd, size, byte))

Move(fd, offset) ==
  Return(file_desc[fd].meta.name, Work, [file_desc EXCEPT ![fd].offset = offset])

vfs_read(fd, size) ==
  Using(fd) /\ Move(fd, Min({file_desc[fd].offset + size, file_desc[fd].meta.eof}))

(* Faulty: the bounds are not checked.                                     *)
seek_anywhere(fd, ofst) == Using(fd) /\ Move(fd, ofst)

vfs_seek(fd, ofst) ==
  Using(fd) /\ Move(fd, IF ofst > file_desc[fd].meta.eof THEN 0 ELSE ofst)

(* Faulty: the file is shortened in memory only.                           *)
trunc_unsynced(fd, new_length) ==
  /\ Using(fd)
  /\ new_length < file_desc[fd].meta.eof
  /\ Return(file_desc[fd].meta.name, Work,
            [file_desc EXCEPT ![fd].meta.eof = new_length, ![fd].offset = new_length])

vfs_trunc(fd, new_length) ==
  LET f == file_desc[fd]
      g == [meta |-> [f.meta EXCEPT !.size = Ceiling(new_length), !.eof = new_length],
            binary |-> [f.binary EXCEPT ![new_length + 1] = EOF],
            offset |-> new_length]
  IN  /\ Using(fd)
      /\ IF new_length >= f.meta.eof THEN Move(fd, f.meta.eof)
         ELSE Commit(g, [file_desc EXCEPT ![fd] = g])

-----------------------------------------------------------------------------
(* write(2) and lseek(2) on the disk file, one block at a time; or all that *)
(* a call makes in one step, when the process does not end between them.   *)
DiskWrite ==
  LET n == IF WriteByWrite THEN 1 ELSE Len(writes)
  IN  /\ writes # <<>>
      /\ disk' = After(disk, SubSeq(writes, 1, n))
      /\ writes' = SubSeq(writes, n + 1, Len(writes))
      /\ target' = IF writes' = <<>> THEN NoName ELSE target
      /\ UNCHANGED <<mode, memory, stored>>

(* The process ends, between two calls or in the middle of one.            *)
Exit ==
  /\ mode = "up"
  /\ writes = <<>> \/ WriteByWrite
  /\ mode' = IF writes = <<>> THEN "down" ELSE "torn"
  /\ Forget
  /\ writes' = <<>>
  /\ target' = NoName
  /\ stored' = Stored(disk)
  /\ UNCHANGED disk

Change ==
  \/ \E name \in FileNames, dir_name \in ParentNames : vfs_create(name, dir_name)
  \/ \E name \in DirNames, dir_name \in ParentNames : vfs_mkdir(name, dir_name)
  \/ \E name \in FileNames : vfs_rm(name)
  \/ \E name \in Names : vfs_open(name)

Use(fd) ==
  \/ vfs_close(fd)
  \/ \E size \in WriteSizes, byte \in Bytes : vfs_write(fd, size, byte)
  \/ \E n \in Offsets : vfs_read(fd, n) \/ vfs_seek(fd, n) \/ vfs_trunc(fd, n)

Next ==
  \/ file_system
  \/ Change
  \/ \E fd \in Descriptors : Use(fd)
  \/ DiskWrite
  \/ Exit

Spec == Init /\ [][Next]_vars
=============================================================================
