# Verification of the CIS3207 programs

The repository holds four independent programs: a networked spellchecker, a file system on a
virtual disk, a discrete event simulator and a shell. This directory holds TLA+ specifications of
them, TLC configurations that check the specifications on small instances, and TLAPS proofs of the
parts that matter for every instance.

## Inventory

### Spellchecker (`Spellchecker/server.cpp`, `circular_queue.h`, `dictionary.h`)

| part | state | operations |
|---|---|---|
| `circular_queue<T>` | `buffer`, `front`, `back`, `size` | constructor, `push`, `pop`, `empty`, `full` |
| main thread | its local descriptor | accept, put the descriptor on `socket_queue` |
| worker threads (10) | their descriptor and word | take a descriptor; ping, prompt, receive, answer, log; close |
| logger thread | - | take an entry from `log_queue`, append it to the log file |
| dictionary, start-up | a set of words | `load_dictionary`, argument handling, `init_threads` |

The threads share the two rings. Each ring has a mutex (`sock_lock`, `log_lock`) and two condition
variables (`sock_empty`, `sock_avail`, `log_empty`, `log_avail`); `sock_empty` and `log_empty`
mean "there is room". Clients are outside the program and may connect, type, leave or reset their
connection at any time.

Hard: the order of threads and wakeups; a descriptor number that `accept` gives out again as soon
as it is closed; a peer that leaves between two calls on its socket; pings that throw away what
they receive; SIGPIPE. Correct means: mutual exclusion, no thread asleep beside work, every
descriptor with one owner, every answered word logged once and in order, clients served in the
end, the server alive.

### Virtual Disk (`Virtual Disk/*.cpp`)

| part | state | operations |
|---|---|---|
| `virtual_disk` | the disk file, the counter of free blocks | `create_disk`, `load_disk`, `write_block`, `read_block`, `rm_blocks`, `save_disk` |
| allocation table | `ftable`, and its copy in the first blocks of the disk | `FAT_init`, `FAT_read`, `FAT_write`, `next_free_block` |
| directories and files | metadata blocks (vnodes) and data blocks | constructor, `vfs_create`, `vfs_mkdir`, `vfs_rm`, `vfs_search` |
| open files | `file_desc`: metadata, bytes and offset in memory | `vfs_open`, `vfs_close`, `vfs_read`, `vfs_write`, `vfs_seek`, `vfs_trunc` |

One thread, but a call makes up to a dozen block writes and the process may end between any two of
them. Every piece of information is kept several times: the table in memory and on the disk, the
counter beside the table it counts, metadata on the disk and in open files. Correct means that the
copies agree whenever no call is running, that an interrupted call harms no other file, and that
the whole behaves like named byte sequences.

### DiscreteEventSimulator (`main.cpp`, `EventQueue.h`, `Event.h`, `Process.h`)

| part | state | operations |
|---|---|---|
| `EventQueue` | a doubly linked, sorted list | `push`, `pop`, `get_size` |
| main loop and handlers | clock, `cpu0`, `disk0`, `disk1` (busy, queue, statistics), process counter | one handler per event type |
| configuration, log, statistics of queues | - | reading and printing |

One thread. Hard: the busy flags, queues and events say the same thing three times, and only long
sequences of events bring them apart; processes are shared between events and deleted with one of
them; ties in time. Correct means that each process is in one place, each busy component has one
event, time and ties keep their order, and that the program ends.

### Shell (`Shell/*.cpp`)

| part | state | operations |
|---|---|---|
| main (`my_shell.cpp`) | the source of lines (terminal or batch file), its buffer and offset | read a line, parse it, run it |
| `tokenize`, `parse` | the queue of words, the queue of commands, the memory of deleted commands | one test after the other: first word, `<`, `>` or `>>`, `\|`, `&`, arguments |
| `executecmd` | the queue of commands, a process's descriptors | `fork`, `pipe`, `dup2`, `execvp`, `waitpid`, `exit` |
| `internalcmd` | the working directory | `cd`, `clr`, `dir`, `environ`, `echo`, `help`, `pause`, `quit` |

One line may become several processes, each a copy of the shell with its own copies of the queue,
the descriptors and the buffer of the batch file, whose offset they share. Hard: which copy goes on
where; ends of pipes that are open in more processes than they should be; `exit` in a child that
moves the shared offset; a queue of words that is popped at ten places; a loop over the commands that takes
the one behind a pipe for done. Correct means: parsing stays within the line and accepts what the
readme describes, every command is carried out once, by a process of its own, a pipe's ends are
where they belong, the shell is the only process that reads lines, lines end and nobody waits for
ever, and a batch file is run line by line.

## Modules

| module | models |
|---|---|
| `CircularQueue` | the ring, as operators over a record |
| `PThreads` | mutexes and condition variables (external), with spurious wakeups |
| `Sockets` | connections and the system calls on them (external): the states of a peer, pending input, clients |
| `SpellServer` | main, workers and logger: one action per system call, lock, wait or critical section |
| `SpellServerProperties` | its invariants, fairness and liveness properties |
| `SpellService` | abstract: two bounded FIFO queues between clients, workers and the log |
| `CircularQueueProofs` | proofs about the ring |
| `SpellServerProofs` | proofs about the server: types, locks, wakeups |
| `SpellServerOwners` | proofs about the owners of descriptors |
| `SpellServerResults` | proofs about results, their order and the prompts; that `SpellService` is implemented |
| `VirtualDisk` | the disk, the counter, the table |
| `FileSystem` | the file system's calls, open files, restarts |
| `FileSystemProperties` | its properties |
| `FileStore` | abstract: files are byte sequences, open files have an offset |
| `FileSystemProofs` | proofs about the file system; that `FileStore` is implemented |
| `EventQueue` | the linked list with its pointers |
| `EventQueueProofs` | proofs about the list |
| `Simulator` | main loop and handlers |
| `SimulatorProperties` | its properties |
| `SimulatorProofs` | proofs about the simulator; that `QueueingNetwork` is implemented |
| `QueueingNetwork` | abstract: three stations with waiting lines, no events and no clock |
| `ShellParse` | `tokenize` and `parse`: one action per test of the loop |
| `Shell` | `main`, `executecmd` and the internal commands, for every process; fork, pipes, exit and programs (external) |
| `ShellProperties` | its properties, fairness |
| `ShellProofs` | proofs about the shell |
| `MCSpellServer`, `MCFileSystem`, `MCSimulator`, `MCShell` | values for the constants |

Definitions whose comment begins with "Faulty:" are not part of any specification. Each is a
variant of the definition below it with a plausible mistake, and makes one property fail; they show
that the property depends on the code.

### How the models correspond to the code

**SpellServer.** `pc[t]` names the next call of thread t. A thread's step is one lock, one wait,
one critical section with its signal, or one system call; everything between two of these touches
local variables only. `pthread_cond_wait` releases the mutex and joins the wait set in one step, and the
woken thread is back at the lock, as the `while` loops around the waits require. An entry of the log carries the number of the word it is about
(`id`), which the program does not have: a history used by the properties alone. `peer` is what
the kernel knows of a connection:
open; closed by the client in an orderly way (fin), with an answer already sent after that
(finsent); reset (reset), and reset with the error already reported (broken), on which `send`
raises SIGPIPE and ends the process (`Sigpipe`, `alive`). A worker's pings with `MSG_DONTWAIT` are
`PingQueued` and `PingServed`: they throw away up to four bytes of what the client has typed. `recv`
writes no terminating 0, so what `trim` reads may be longer than what was typed; `ReadsAs` says
what a word may be read as, and the runs take a heap of zeros.

**FileSystem.** A call reads the disk and changes memory in one step and leaves its block writes, in order, in
`writes`; `DiskWrite` makes them one by one (`WriteByWrite`), and `Exit` may come between any two.
No other call runs until they are made (`Idle`). `mode` is `up` while a
process uses the disk, `down` before and after, and names how the state was lost otherwise:
`torn` (the process ended in the middle of a call; this state is final, so what the next mount
makes of a torn file is not explored), `killed` (a negative length for `memset`), `overrun` (bytes
stored behind the buffer of an open file), `noblock` (-1 used as a block number) and `stray` (an index
outside of the root's entries, in `add_content`, or the free of a pointer never set, when a directory is opened). The last
three are undefined behaviour of the program and end the behaviour of the model. Two of them are choices: where only the
end-of-file byte lands behind the buffer (`EndsBehind`), as at every write that lengthens the buffer, and where only the
end mark lands behind the entries, the code may go on unharmed or not, and the model does both. `stored` is a history:
what each file holds on the disk once the running call is through, computed from the disk alone.
`After(d, out)` is the disk d once the block writes `out` are made: per block the last of them.
The loops of the code are recursive functions over block or position numbers (`FAT_write`, `Repeat`, `Chain`), so that
the same definitions serve TLC and the proofs.

**Simulator.** One turn of the main loop is one action, named after the handler; the random numbers are drawn
from their range by `\E`. Nodes of the event list have addresses, so a deleted node and a wild pointer are seen. The
destructor of an exit event deletes its process.
`status` becomes `crashed` when the final statistics divide by a job count of 0. `longest` is a
history. The handlers of disk 0 and disk 1 are one definition with the disk as its parameter; the
one place where they differ (`max_time`) is `Longest`.

**Shell.** `parse` is a loop of tests in a fixed order; `stage` is the test it has reached, and an
action is a test that holds, so a symbol whose test is past waits for the next turn of the
loop. `alist` ends in the NULL that `tokenize` pushes. The arguments of a new command are the memory of
the command that was deleted last (`freed`), zeros if there is none; the model takes the allocator to give that
block again. (In the program these arguments are pointers into the buffer of the line, which then holds other words;
no property looks at them.) A process is a record in `procs`, the shell is the first: `pc` is the call it comes to, `turn`
the line it was forked for, `next` the front of its copy of the queue of commands, `c` the command it
executes, `in`, `out` and `pfd` its descriptors, `unread` how many lines its copy of the
file buffer still holds, `behind` what the file has behind them. One read of the descriptor fills the buffer with a block of
`BufferLines` lines (stdio takes a block of the file, usually 4096 bytes), from wherever the shared offset is by then, so in
a file of several blocks the children's ends decide where the shell goes on. `Fork` appends a copy of the record. A line's commands stay in `commands`, as the
program never frees them; `ran` (how often each was carried out) and `lines` (what `fgets` returned) are
histories. `Exit` is `exit(3)`: it moves the shared offset of the batch file back by what the process's
own buffer has not delivered, which is why children's ends matter to the shell. Lines of the
file count as equally long, so that offsets are numbers of lines; one word stands for two that were
glued together where a line without a newline goes on with another. What programs do with pipes
(`habit`) is external: end at once, read everything, or write for ever. `pause` is the shell's own: it waits for Enter at the
terminal, for a newline in a pipe, and loops at the end of an input that has none; the variable it tests is never set, so
it may also end at once.

## Runs

### Spellchecker

| run | what it shows | bounds |
|---|---|---|
| `spell_connections` | types (no ring over- or underflows), locking, wakeups, owners of descriptors | 2 workers, 3 descriptors, rings of 2, accepts that fail, spurious wakeups, aborted connections, no words |
| `spell_results` | each answered word is logged once, unmangled, in its client's order; no typed word is swallowed; the server implements `SpellService` | 2 workers, 2 descriptors, rings of 2, 2 words |
| `spell_serving` | queued clients are served and connections are closed | 1 worker, 3 descriptors, ring of 1, no words |
| `spell_logging` | the log file does not stand still while a result is on its way to it | 2 workers, 2 descriptors, rings of 1, 3 words |
| `spell_disconnect` | violated: a client that resets its connection while it is queued ends the server | 2 workers, 1 descriptor, 1 word, aborted connections |

Two workers are enough for every contention between workers, three descriptors and a ring of two for
a full ring with another accept pending and for reuse of descriptor numbers, rings of one for
producers that sleep. Words are told apart only by whether they are in the dictionary, `quit`, or
empty. `Polite` says that a client types when it has been prompted and not before; without it
the pings swallow what was typed early, which is how the code is made, and `NoWordSwallowed` is false.
Workers and descriptors are symmetric; no symmetry is used for liveness.

Fairness. Every thread is scheduled in the end (weak fairness of its steps), but mutexes are not
fair: no strong fairness is used. Nobody has to connect or type, and accept may block for ever.
`FairSpec` adds that clients leave in the end, since `recv` has no timeout and a silent client
keeps its worker for ever. `FairLogging` asks less: only the logger, and workers between an answer and its
logging, have to go on. Since a lock is not fair, one worker may lose every race for `log_lock`, and that *its* word
is logged in the end is false once words are unlimited. `LogMovesOn` claims what remains: something is logged again and again
while anything waits. In the run it says that each of the three words is logged, as after the last one nothing is left; three are
enough for a result in hand to be overtaken by one in the ring and one of the other worker. For more words it rests on the
ring being bounded: a worker that wins the race makes it fuller, on a full ring workers wait without the lock, and then only the logger is
left to take it. With spurious wakeups for ever this would be lost, and the run excludes them.

### Virtual Disk

| run | what it shows | bounds |
|---|---|---|
| `fs_store` | types, table against files, counter, saved table and synced open files, tree; an interrupted call touches no other file; closing changes nothing; the whole implements `FileStore` | 8 blocks of 2 bytes, 2 files, 1 directory, 2 descriptors, writes of 3 bytes |
| `fs_full_disk` | violated: a write that asks for more than is free is truncated | 1 descriptor, writes of 1 and 2 bytes |
| `fs_resurrection` | violated: a removed name reappears after an interrupted create | 1 descriptor, writes of 1 and 2 bytes |

Eight blocks, of which four are for files, let every file grow over a block boundary, shrink,
interleave its chain with another that is open at the same time, and fill the disk. A write of one and a half blocks
ends within a block from even offsets and at its end from odd ones, and allocates one block or two. The disks have a table that fills its last block, as the default size does: the
constructor rounds the table's size down, so on other disks the last entries are not saved
(listed as a hazard). `DirEnd` is 4 in place of 255, so that directories get full, and the end mark of the root
falls outside (`MarksOutside`).
`Careful` says that callers open only files that are not open and remove only files that are not
open; the first is a limit of the design (two descriptors of one file have two copies, and the last to
be closed wins), the second is what `vfs_rm` means to check and does not always (see below).
`ParentNames` holds directories only: the code does not look at the type of the parent it finds, and a
plain file would serve as a directory. Names, and byte values, are symmetric.

`FileStore` is what the code keeps of the README's promises, not the promises themselves. Files and offsets follow
them; but its actions `Overflow`, `Stray` and `OutOfBlocks` end the process where calls may do so, and the README says nothing
like that. One of these is against the README's words, and `fs_full_disk` shows it. So `ImplementsStore` says that a process breaks
down in no other call than these, that such an end loses no file, and that as long as the process is up it serves byte sequences.

### DiscreteEventSimulator

| run | what it shows | bounds |
|---|---|---|
| `simulation` | list, busy flags, places of processes, five events at most, busy time, order of events, `QueueingNetwork` implemented, the program ends | 5 units of time, an arrival per unit, CPU times 0..1, disk times 1..2, both outcomes after the CPU |
| `simulation_maximum` | violated: the maximum recorded for disk 0 is not the longest service time | disk times up to 2 |

The CPU gets more work than it can do, so that all queues fill, ties occur at every unit of time, and
both disks are busy together. CPU times of 0 are allowed by the configuration; if disk times
could be 0 as well, one process could circle for ever at one time and `SimulationEnds` would be
false. Weak fairness of `Next` stands for one thread that never waits. The program stops, so
deadlock is not checked there, nor in the file system's runs, where torn and undefined states are final.

### Shell

| run | what it shows | bounds |
|---|---|---|
| `shell` | parsing stays inside the line, takes lines of the readme for what they say and nothing unsound; pipes are paired and left with the right ends; one child at a time; every command once; batch files in order; lines end, nobody waits for ever | below |
| `shell_batch` | violated: the lines of a batch file are run as they are written | a file of three `echo` lines |

The lines typed are: all of up to four tokens (`MaxTokens`) over `ls`, `cd`, `<`, `>`, `|`, `&`; all pairs of
commands with and without an argument and redirections, joined by `|` or `&`; all triples of plain, internal,
`cd` and `quit` commands joined by these; a few with `pause`, with words no program has, and with two pipes;
and sessions of two lines, the first of which is rejected or leaves a reader behind. Four
tokens reach every branch of `parse` from every other, since a branch looks at two tokens at most; the
longer lines are those where branches combine in one command. Batch files have one to three lines, with
and without a newline at the end, and a buffer of two (`BufferLines`), so that a file of three is read in two blocks, between
which children move the offset; at most four lines are read (`MaxLines`), which stops the files that are read again and
again. In `shell_batch` the buffer takes the whole file: even then lines are run again. Processes that liveness speaks of: nine (`MaxProcs`), more than any of these lines makes.
Programs are one word, internal commands `echo` and `pause` stand for all.

Fairness. Processes are scheduled, a program that can end does, and blocked processes are woken (weak
fairness per process). The user need not type a line, but is taken to press Enter where `pause` waits for it at the terminal. A program that reads all its input, or writes until nobody
reads, is fair only in that it goes on. Deadlock is not checked: the shell waits at the prompt, ends,
or waits for a program that never ends. `NobodyIsLeft` and `LineEnds` except what the code cannot help: a writer that never
ends with a reader that reads on, and `pause` reading a pipe or a file without a newline, which loops at the end of its input.

## Disagreements of code and documentation

- **A disconnect can end the server** (`spell_disconnect`): README of the spellchecker, "Program
  execution continues as normal in either case"; SIGPIPE is not ignored and `MSG_NOSIGNAL` not used.
- **A removed file can come back** (`fs_resurrection`): the directory entry is written before the
  metadata it points to, which is still that of the removed file.
- **A full disk ends the process** (`fs_full_disk`): README of the virtual disk, line 49: "If the disk does not have
  enough remaining blocks, the write size is truncated. The end of file byte is set to the end of the new data in
  this case, as well." The size is cut to the blocks that are free, minus a byte, but counted from the offset instead of the end of the
  file's blocks; it can fall short of those, and the `memset` of the rest gets a negative length (`vfs_write-read.cpp:44-62`).
- **Maximum of disk 0** (`simulation_maximum`): `max_time++` in `main.cpp:311`, an assignment for the CPU and disk 1.

- **Batch lines run again** (`shell_batch`): the readme of the shell, lines 52-55, promises that a file's
  lines are executed one after another; a child that leaves through `exit(0)` (`executecmd.cpp:147`) moves the shared
  offset back, and the shell reads lines again, glued to a last line without a newline.

Seen while modelling, without a run of their own:

- Spellchecker: words typed before the prompt are swallowed by the pings
  (README: clients "can type in a single word at a time at the prompt").
- Virtual Disk: each write that lengthens the buffer stores the end-of-file byte one place behind it
  (`vfs_write-read.cpp:60` and `75`), against the comment in line 32, and the byte has no place in the file's blocks when the file ends at a block
  boundary; of a removed file's table entries only the
  first is reset to {0, -1} (README: "entries are set to {0, -1}"); opening a directory frees a pointer that was never set
  (`vfs_open-close.cpp:40`); `add_content` stores an end mark at an index taken from the block number (`utilities.cpp:55`); open files can be removed, since the search in `vfs_rm.cpp:12` stops at the first
  gap in `file_desc`; a second write may run behind the buffer, since `realloc` gets bytes, not blocks.
- Shell, `cd`: it does not leave the queue, so in `cd d & a` the command `a` runs twice; in
  `cd d & a | b` the reader finds `a` at the front ("Bad parse."), and `a` runs again.
- Shell, pipes: the second process of a pipe is not waited for; `a | quit` leaves the shell and `a | b & quit` does not.
  In `a | b & cd d` and `a | b & quit` the loop forks the last command, and `execvp` finds nothing of that name: they are not
  carried out, against the comment `executecmd.cpp:19-21` and README of the shell, line 21, by which both run in
  the shell itself. `RunsOnce` excepts them by name (`LeftToChild`).
- Shell, `&`: every command is waited for, in the background or not; the word behind an `&` is taken for a name without a test, so
  `a & & b` has a command named `&`.
- Shell, arguments: a command whose name is the last word before a symbol or the end of the line has no
  `args[0]` if it is behind a pipe or an `&`; the arguments in `a b > f < g` are lost; after a rejected line its words can be
  another command's arguments.
- Shell, batch files: in a file longer than the buffer of stdio, earlier lines run again before later ones (`FileInOrder` claims the
  order for other files only); a file that ends in a newline has the first word of its last line run
  once more, because `feof` is asked before the read that finds the end.

## Proofs

### Spellchecker

The assumptions are those of the modules: `SIZE` is a
positive number, thread names are distinct, workers are finitely many, no result is the value for "none"
(`EntryAssumption`), and the constants of `Sockets` have their types.
There may be any finite number of workers, and any descriptors and words.

- `CircularQueueProofs` shows that the ring is a queue: `PushContents` (push appends to `Contents`)
  and `PopContents` (pop returns the head and leaves the tail), under the conditions not full
  and not empty that the code's callers establish. They rest on the arithmetic of `% SIZE`: going on n slots
  wraps at most once, and n < SIZE slots on from one slot are distinct.
- `TypeCorrect`: `Spec => []TypeOK`. `TypeOK` is not inductive: that `size` stays in
  range needs the callers' tests, and that what `pop` returns is an item needs the ring to be well
  formed. The inductive invariant is `TypeOK /\ RingsOK`, where `RingsOK` says that the
  slots from `front` on, `size` of them, end at `back`. One lemma each for sockets, threads and queues.
- `LocksHeld`: `Spec => []LockDiscipline`: mutual exclusion, and each condition variable used with its
  own mutex by the threads that may. Inductive together with `TypeOK`.
- `MainAndLoggerWake`: main sleeps only on a full socket queue, the logger only on an empty log
  queue. Whoever changes the queue signals, and only one thread waits for that signal, so no
  signal can go to the wrong one. These are two of the four parts of `NoLostWakeup`.
- `WakeupsSuffice`: `Spec => []NoLostWakeup`, all four parts. Workers share a condition variable, so
  the two parts about them count: while a worker sleeps, the workers bound for the socket queue are at
  least as many as its items (`TakersSuffice`), and those bound for the log queue at least as many as its
  free slots (`PuttersSuffice`). Inductive with `TypeOK` and `LockDiscipline`: an item or a slot is added
  under the mutex together with a signal that turns a sleeper into a bound worker, and each item or
  slot that goes is used by one worker that stops being bound. Finiteness of the workers is needed for counting.
- `OneHolder`: `Spec => []SoleOwner`. A count of places is not inductive, and a thread that took a descriptor
  while it had one would lose it. The invariant `Owners` says for each descriptor that it is nowhere (closed), or
  in one thread's `sock`, or in one slot (open), and of each thread about to accept or pop that it has none (`FreeHanded`). One lemma for
  each way of moving a descriptor (`AcceptOwned`, `PushOwned`, `PopOwned`, `CloseOwned`) on top of `PushContents` and
  `PopContents`.
- `ResultsOnce` (`InOnePlace`, the first half of `LoggedOnce`) and `OrderKept` (`LogKeepsOrder`). `Kinds` sorts the
  steps by what they do to results: nothing but drop words in sockets, type one, take one, hand one on. The
  invariant `Results` then follows the numbers of the words through sockets, hands and log (`Once`: none is given twice;
  `HandsFull`: a worker has a result exactly from `recv` to `push`; `Judgements`: with its verdict), `Ordered` says that of a client's
  words those in the log precede the one in hand and that the one in the socket. That a descriptor which is used again cannot
  mix up two clients' results needs `Owners`: only one worker has the client.
- `NothingSwallowed` (`NoWordSwallowed`) and `LoggedAsTyped` (`LoggedOnce`), under the hypothesis `Polite`, and the second also
  under `ReadsAs[v] = {v}` (what a heap of zeroes gives); without them both are false. `AtPrompt`: where
  input is due, a worker stands at the `recv` that keeps it, and no other worker has that client.
- `ServiceImplemented`: `Spec => ImplementsService`. `TypeOK /\ RingsOK /\ Owners /\ Results` turns each critical section into one step of
  `SpellService` (`PutSockArrives`, `TakeSockServes`, `CloseLeaves`, `PutLogDelivers`, `TakeLogRecords`) and everything else
  into a stutter. `Owners` is needed because `Serve` takes only an idle worker, `Results` because `Deliver` takes only new
  results of a client that is there.

### Virtual Disk

`FileSystemProofs`; the assumptions of the modules are that there is a block size, that the root directory has an entry in the
table (`RootInTable`), and that names are finitely many and the numbers callers pass are natural (`CallerAssumption`). Blocks, block
size, entries per block, names, descriptors and sizes of writes are arbitrary.

All theorems have the hypothesis `Usage`, with three parts; without any of them some of the theorems are false:

- `Persisted = Blocks`: the table fills its last block exactly, as on the disk of `virtual_disk.h`. On another disk the entries behind
  the last full block are never saved, and a restart takes their blocks for free.
- `Careful`: callers do not open an open file, nor remove one. Two copies of one file overwrite each other's blocks, and the removal of
  an open file is not prevented by the code (see above).
- no parent that a caller names is a file: the code would hang the new file into the blocks of that file.

All runs satisfy it. The proofs cover every step of the model under it: full disks, writes that grow a file by several
blocks, end at a missing block or behind the buffer, calls that lose the process, interrupted calls and restarts.

`Invariance`: `IInv` is inductive, one lemma per call (`CreateInv`, `RmInv`, `GrowingInv` and so on). Its parts are not, one by one: the counter stays in range only
while the table is right, the table only while no two chains meet, a freed block is nobody's only while each entry is in one directory, and what
a new process loads is right only if the disk was. Its parts:

- `TypeInv`: the types, of the copies in memory too.
- `Coherent(After(disk, writes))`, while a process runs: with its writes made, the disk agrees with memory. There are functions `own`, `len` and `pos`
  (`Layout`) that say of each block whose it is, at what place of the chain, and of each file how long its chain is: this says of a
  linked table what following it would, without following it, and a block moves by changing three functions at one point. There
  is a `rank` that grows from parent to entry (`Tree`), so that searching from the root ends and finds everything. Counter
  and superblock are the number of blocks nobody owns; each open file (`OpenOK`) has the metadata and, block by block, the bytes
  of the disk.
- `Intact(disk)`, while no process runs: the disk satisfies the same by itself, or is still new.
- `Foretold`: `stored` is what the disk holds after its writes.

Between the block writes of a call nothing of this holds of the disk, so the proofs follow the work of a call in order: `Held(d, w)` is the disk once the
writes so far are made. `vfs_sync_file`, with which nearly all calls end, is cut into head, body and tail; its three loops (overwrite, extend,
release) each have an invariant over the block reached (`Rewritten`, `Extending`, `Releasing`), and `SyncGood` puts them together. The
library's induction takes an operator, so loops and chains are followed by inductions over sets of numbers (`LeastNumber`, `NatSteps`).

- `Typing` (`TypeOK`), `Counting` (`FreeCount`), `Naming` (`OnePlacePerName`), `Allocation` (`TableMatchesFiles`) and `Saving` (`MemoryIsSaved`) follow
  from the invariant. `Typing` is about the bytes before the end of an open file and its offset, which stay within buffer and blocks. It does not
  say that the end-of-file byte does: that byte is stored behind the buffer by every write that fills it, with the mode `overrun` as a possible end. The last three compare `own`, `len`, `pos` with what the properties read off the disk with `Nodes` (`ChainFacts`: the chain of a file,
  followed along the table, is its blocks in order).
- `Closing` (`CloseChangesNothing`) and `Implementation` (`ImplementsStore`). `NextEffect` says of every step what it does to descriptors and stored files
  (`Effect`); for it each of the lemmas above also says which bytes the call leaves, in which block and at which place (`Place`), and that all other files
  keep theirs (`Leaves`). Each effect is then a step of `FileStore` (`CreatedStep`, `WrittenStep`, for a process that breaks down `ProcessStep` and `BrokenStep`) or a stutter: a read that moves nothing, a
  write of no bytes, a block write. Both need `Markers`: the values for "no file" and "closed" are not themselves files or byte sequences, as TLC
  takes them to be. The mode is part of what is refined, so that a process which ends otherwise than `FileStore` says, for instance in
  the constructor (`SyncFresh`: on a new disk it finds its blocks) or in a read, would refute it. `Implementation` speaks of processes that end between calls (`~WriteByWrite`); that an interrupted call harms only the
  file it is about, and that what it leaves is a step `Interrupt` of `FileStore`, is checked by `fs_store`.

### DiscreteEventSimulator

`EventQueueProofs` and `SimulatorProofs`; the assumptions are that `new` finds an address for more than five
nodes and gives out neither NULL nor a wild pointer (`AddressAssumption`), and that the configured times are natural numbers with each
minimum at most its maximum (`ConfigAssumption`). The length of the simulation and the ranges of times are arbitrary, and so are
the draws: queues and numbers of processes have no bound.

- The list. `Ordered` says that a linked list with its pointers in both directions is the sequence `Events(q)`, in order
  of time. `PushInserts`: `push` puts an event behind all those that are not later (so events of the same time leave in the
  order they came) and changes nothing else; `PopRemoves`: `pop` takes the first, and no pointer is
  left to the deleted node. How long a list is and where the search of `push` stops needs induction over numbers; it is done with sets of
  numbers (`LeastNumber`, `Induction`), since the library's theorem takes an operator.
- `SimulatorInvariant`: `IInv` is inductive. Its parts depend on each other: `BusyHasOneEvent` alone is not, since a second
  finish would come from a process in two places, and that from a second event of a component.
  - `Typed`: the variables' types.
  - `Good`: the list is in order, its events have different processes, and an exit comes before a finish of the CPU (the
    destructor of an exit event deletes its process, and the CPU would take the next one while it still has it).
  - `InTime`: no event lies before the clock, and an exit is due now. Without it an exit could be overtaken, and a second
    one would wait beside it.
  - `OneRole`: no two events have the same role (`Role`: one of the three components, the arrival, the exit). This
    is what bounds the list to five events.
  - `BusyWorks`: a component is busy exactly if it has an event, and only a busy one has a queue.
  - `OnePlace`: no process is in two queues, or in a queue and an event.
  - `Arrivals`: the process of the next arrival is new; needed for `OnePlace` when it comes.
  - `Within`: a component's busy time lies within the clock, or within the finish of the service in progress.
- A handler is taken apart: what its turn does to the events (`TurnFacts`, from `PushInserts` and `PopRemoves`), what it does to a component that
  gets a process or gets rid of one (`JoinFacts`, `AdvanceFacts`). The proof of each handler puts these together.
- `SimulatorTypes`, `EventListInOrder`, `BusyMeansOneEvent`, `NoProcessLost`, `FiveEventsWait` and `ComponentsWithinClock` state the invariants
  the runs check. `EventsStayInOrder` is the action property `EventsKeepOrder`: no step swaps two events that stay in the list. Every turn
  keeps it, whatever it pops and pushes, by `TurnOrder`.
- `NetworkImplemented`: `Spec => ImplementsNetwork`. Every turn is a step of `QueueingNetwork` or a stutter. The mapping takes who is in service
  from the events (`ServesNow`, `ServesNext`) and how many have arrived from the next arrival (`ArrivedNow`), so the proof says for each component whether it
  stays as it is, takes a process in or moves on to the next (`Stays`, `TakesIn`, `MovesOn`). `IInv` makes these functions of
  the list well defined. Which disk a process goes to is compared with the abstract choice by cases: both free, one free, the shorter line
  (`FreeIsChosen`, `ShorterIsChosen`).

### Shell

`ShellProofs`; the assumptions are those of the modules: words are not symbols and NULL is neither, scripts are
sequences of lines. Any lines, of any length, with any number of commands, pipes and processes; `MaxTokens` and
`MaxProcs` do not occur, and `MaxLines` is any number.

One invariant, `IInv`, is inductive (`InitInv`, `NextInv`) and carries the first five theorems:

- `ParserOK` and `InsideLine`: the queues of parse are typed, its list of commands is paired and not empty
  inside the loop, and the queue of words ends in its only NULL. Each test of the loop keeps them (a lemma per action), because a
  word is popped only when it is not the NULL: `TailEnds`, `Tail2Ends`. `SetPaired` and `AppendPaired`
  say when a changed or added command leaves the list paired.
- `InputTypeOK`, `HistoryTypeOK`, `CommandsPaired`: lines, offsets and histories, and the commands of every line run so far.
- `ProcsOK`: each process satisfies `RecordOK`, which only looks at its own record: only the shell is in
  the shell's loops (so that a fork in `executecmd` makes a child of the shell, and one in a child does not);
  `EndsOK`, which ends of which pipe it may hold at each place; `PlaceOK`, that the command it will take from the queue is there and
  reads from the pipe, unless it is behind a `cd`. That is strong enough because `fork` copies the record: `ForkProcess`
  and `ChangeProcess` reduce every step to the records it writes.
- `SoleChild`: a living child of the shell is the one it waits for.

`TypeCorrect` (`TypeOK`), `WordsStayInside` (`InsideLine`), `PipesPaired` (`PipesArePaired`), `OneChild`
(`OneChildAtATime`) and `OwnEndsOnly` (`NoStrayEnds`) follow. Three more theorems have invariants of their own on top of `IInv`:

- `AcceptedLinesSound` (`AcceptedIsSound`). The final test says nothing of how the line was read, so `LineSound` says it at every test of
  the loop: `alist` is the rest of the line (`Fits`), the words taken so far are the beginning of a sound line (`SoundUpTo`), and if a pipe is
  open there (`PipeOpen`) the last command of the list is the one that reads it, which is why a second `|` is rejected. Each test
  of the loop extends this by the words it takes (`ParseSound`), for lines of any length.
- `CommandsRunOnce` (`RunsOnce`). A count of 1 does not exclude that somebody is still about to run the command. `RunsOK` therefore speaks
  of who owes a command (`Duty`: the shell for those in its queue, a child for its own, a child before the second `fork` also for its
  reader's): nobody shares a duty (`OneOwner`), the count is low enough for what is still owed (`WithinLimit`, `Limit`), and what nobody
  owes was carried out (`Settled`). `CommandsOK` says that each process is at a command of its line with the pipes that belong to it, and
  `RejectedEmpty` that a rejected line leaves no commands. The exceptions of the property are those of the code: the command behind a `cd`, which
  may be carried out twice, and the `cd` or `quit` that the loop leaves to a child (`LeftToChild`), which is not. What a child executes under these
  names does not count (`Attempts`).
- `FileRunsInOrder` (`FileInOrder`). It claims the order of the lines for files that fit in one block of the buffer, and for files of any length whose
  commands are programs; for other files it is false, since each further block is read from where the children have left the offset. `FileOK`: what the
  shell's own buffer holds and what was behind it is exactly the rest of the file, and in a file of one block nothing is behind it, whatever
  the children do to the offset; while only programs are executed the offset is where the buffer ends, and the end is seen one read after the last line. It
  needs `CommandsOK`, since a child gets to `exit` only by a command that is no program (`NotOnly`), and that what was carried out stays so (`HistoryGrows`).

The second half of `FileInOrder`, and its first for files of several blocks, hold while only programs are executed (`OnlyPrograms`). Names of internal commands and `cd` are taken out there
even if a program has such a name: the shell prefers its own code for the first, and a `cd` fed by a pipe ends its process in the shell's code. The instances
that TLC checks have no such programs; the proof for all of them asks for it.

### Only model-checked

- Of the file system what holds in the middle of a call: `OthersUntouched`, and `ImplementsStore` where a process ends between two block writes. Each
  needs an argument for every prefix of every call's writes, about tables that no call leaves behind. On other disks and with other callers than
  `Usage` describes nothing is proved.
- Of the shell `DocumentedLinesParse`: it compares the parser with a grammar that is put together with `FlattenSeq`, which is defined by recursion, so
  a proof would be an induction over data.
- All liveness (`FairSpec` and its like), which is beyond the prover.

The inductive invariants were checked with TLC on the instances of the runs before they were proved.

## Not modelled

Start-up and the dictionary loader of the spellchecker, `trim`'s buffers; errors and short writes of the host's disk;
`file_desc` slots that are not NULL at first, more than 64 open files, names of more than 15 characters, which `vfs_close` copies
into 16 bytes (`vfs_open-close.cpp:90`); the simulator's
configuration, log and statistics of queue lengths; the test program of the virtual disk. Of the shell: the end of a terminal's input
(the loop never ends), a batch file that cannot be opened (`my_shell.cpp:55`, where `feof` then gets a null pointer in line 67), blocks of
the file's buffer that end within a line, lines of different lengths, lines of more than 499 bytes or 19 arguments, which overflow `line` and `args`;
what internal commands print; failing `fork`, `pipe` and `dup2`; the value of `front()` on an empty queue of commands beyond the one
zero pointer that the loop runs into.

Reasons: the first and the configuration are straight-line input and output with nothing for a property to be about;
overflows and unset memory would make every later state arbitrary; errors of the host are not handled by the code (the results of `write` and
`fork` are not looked at), and each would end the model at once.

## What could follow

`OthersUntouched` as a theorem, with `Implementation` for interrupted calls: an invariant of the writes still to be made that says of each which
file it is about. Then the mount after an interrupted call of the file system, which the model ends at, and what `vfs_rm` and a second
`vfs_open` do to callers that are not careful.
