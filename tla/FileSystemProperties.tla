------------------------ MODULE FileSystemProperties -------------------------
(***************************************************************************)
(* What must hold of the file system of Virtual Disk/.                     *)
(***************************************************************************)
EXTENDS FileSystem

Byte == Bytes \cup {0, EOF, Junk}
Vnode == [name : Names, type : {"V_FILE", "V_DIRECTORY"}, start : ROOT .. Blocks - 1,
          size : 0 .. Blocks, eof : NIL .. Blocks * BlockSize,
          parent : ROOT .. Blocks - 1, entries : Seq(ROOT .. Blocks - 1)]
Data == [bytes : [1 .. BlockSize -> Byte]]

BlockOK(b, content) ==
  \/ b = SUPERBLOCK /\ content \in [free : NIL .. Blocks]
  \/ b \in 1 .. ROOT - 1 /\ content \in [FatBlock(b) -> Entry]
  \/ b \in ROOT .. Blocks - 1 /\ IF IsVnode(content) THEN content \in Vnode ELSE content \in Data

OpenFileOK(f) ==
  /\ f.meta \in Vnode
  /\ f.meta.type = "V_FILE"
  /\ f.binary \in Seq(Byte)
  /\ f.offset \in 0 .. f.meta.eof
  /\ f.meta.eof <= Len(f.binary)
  /\ f.meta.eof <= Capacity(f)

(* Every variable has a value of its type; in particular the free counter  *)
(* stays in range, and while the process is up the offset of an open file, *)
(* and the number of bytes before its end, are at most those of its buffer *)
(* and of its blocks.  The end-of-file byte itself comes after them: when  *)
(* they fill the buffer it lies behind it (EndsBehind, mode "overrun").    *)
TypeOK ==
  /\ mode \in Modes
  /\ ftable \in [0 .. Blocks - 1 -> Entry]
  /\ free_blocks \in 0 .. Blocks
  /\ \A fd \in Descriptors : file_desc[fd] # Closed => OpenFileOK(file_desc[fd])
  /\ \A b \in 0 .. Blocks - 1 : BlockOK(b, disk[b])
  /\ \A i \in DOMAIN writes : BlockOK(writes[i].at, writes[i].data)
  /\ target \in Names \cup {NoName}

-----------------------------------------------------------------------------
Used(b) == {b} \cup ToSet(Chain(ftable, b, disk[b].size))

(* The table in memory describes exactly the files and directories that    *)
(* can be found on the disk: the chain of each has as many blocks as its   *)
(* metadata says and ends there, no two chains meet, and every other block *)
(* is free (vfs_sync_file.cpp, vfs_rm.cpp:67-77).                          *)
TableMatchesFiles ==
  Idle =>
    LET d == disk
        chain(b) == <<b>> \o Chain(ftable, b, d[b].size)
    IN  /\ \A b \in Nodes(d) :
             /\ Cardinality(Used(b)) = d[b].size + 1
             /\ ftable[Last(chain(b))].next = NIL
             /\ d[b].start = b
        /\ \A b, c \in Nodes(d) : b # c => Used(b) \cap Used(c) = {}
        /\ {b \in ROOT .. Blocks - 1 : ftable[b].occupied} = UNION {Used(b) : b \in Nodes(d)}

(* free_blocks is the number of unoccupied blocks, in memory and in the    *)
(* superblock, although it is kept by WRITE flags and calls of rm_blocks   *)
(* apart from the table (virtual_disk.h:60, virtual_disk.cpp:203-211).     *)
FreeCount ==
  Idle =>
    /\ free_blocks = Cardinality({b \in 0 .. Blocks - 1 : ~ftable[b].occupied})
    /\ disk[SUPERBLOCK].free = free_blocks

(* Every name is the name of at most one file or directory, and lies in    *)
(* one directory only, which it names as its parent (README: "must also be *)
(* uniquely named, no matter what directory they are created in").         *)
OnePlacePerName ==
  Idle =>
    LET d == disk
    IN  /\ \A b, c \in Nodes(d) : d[b].name = d[c].name => b = c
        /\ \A b \in Nodes(d) \ {ROOT} :
             {c \in Nodes(d) : Contains(d[c].entries, b)} = {d[b].parent}
        /\ \A b \in Nodes(d) : d[b].entries # <<>> => d[b].type = "V_DIRECTORY"

(* What a process keeps in memory is what the disk holds when no call is   *)
(* running, so that a process that ends loses nothing: the table, as far   *)
(* as it is ever saved, and the open files (README, vfs_write, vfs_close). *)
TableIsSaved == \A b \in 0 .. Persisted - 1 : FatOf(disk)[b] = ftable[b]

OpenFilesAreSynced ==
  \A fd \in Descriptors : file_desc[fd] # Closed =>
    LET f == file_desc[fd]
    IN  /\ disk[f.meta.start] = f.meta
        /\ Content(ftable, disk, f.meta.start) = SubSeq(f.binary, 1, f.meta.eof)

MemoryIsSaved == Idle => TableIsSaved /\ OpenFilesAreSynced

-----------------------------------------------------------------------------
(* No block write of a call touches another file than the one the call is  *)
(* about, so that ending the process between any two of its writes leaves  *)
(* all other files as they were.                                           *)
OthersUntouched ==
  [][\E d \in {disk'} : \A name \in FileNames :
       name \notin {target, target'} => Stored(d)[name] = Stored(disk)[name]]_vars

(* vfs_close writes the file again "to ensure doubly" that it is on the    *)
(* disk; when all writes are, closing changes no file.                     *)
CloseChangesNothing ==
  [][(\E fd \in Descriptors : file_desc[fd] # Closed /\ file_desc'[fd] = Closed /\ mode' = "up")
       => stored' = stored]_vars

(* A file that was removed is not found again, also when the process ends  *)
(* while it creates another one in the freed block: "All references to it  *)
(* are, however, removed" (README, vfs_rm).                                *)
RemovedStaysRemoved ==
  [][\A name \in FileNames :
       mode' = "torn" /\ name # target /\ stored[name] = Absent
         => vfs_search(disk', name) = NIL]_vars

(* "If the disk does not have enough remaining blocks, the write size is   *)
(* truncated" (README, vfs_write): asking for more than there is must not  *)
(* end the process (vfs_write-read.cpp:44-62).                             *)
FullDiskTruncates == mode # "killed"

-----------------------------------------------------------------------------
(* The file system implements files that are byte sequences, as long as    *)
(* its process is up: the table, the metadata, the counter and the copies  *)
(* in memory never show, and the process ends by itself only where         *)
(* FileStore says that it may.                                             *)
Store == INSTANCE FileStore WITH
  process <- mode,
  Files <- FileNames,
  Handles <- Descriptors,
  MostBytes <- Blocks * BlockSize,
  files <- stored,
  handles <- [fd \in Descriptors |->
                IF file_desc[fd] = Closed THEN Closed
                ELSE [file |-> file_desc[fd].meta.name, offset |-> file_desc[fd].offset]]

ImplementsStore == Store!Spec
=============================================================================
