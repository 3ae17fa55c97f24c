--------------------------- MODULE ShellProperties ---------------------------
(***************************************************************************)
(* What must hold of the shell.                                            *)
(***************************************************************************)
EXTENDS Shell, SequencesExt

CONSTANT MaxProcs    \* bound on the processes that liveness speaks of

ShellLabels == {"read", "parse", "next", "wait"}
ForkLabels == {"fork", "writer", "reader"}
ChildLabels == {"pipe", "redirect", "exec"}
RunLabels == {"internal", "program"}
Labels == ShellLabels \cup ForkLabels \cup ChildLabels \cup RunLabels \cup {"ended"}

CommandRecord ==
  [name : Tokens, args : Seq(Tokens \cup {NULL}),
   rdr_in : Words \cup {NULL}, rdr_out : Words \cup {NULL},
   truncate : BOOLEAN, pipe_in : BOOLEAN, pipe_out : BOOLEAN,
   background : BOOLEAN]

Ends == {"drain", "mouth"} \X Nat
Descriptors == Ends \cup {Terminal, File}

ProcessRecord ==
  [pc : Labels, turn : Nat, next : Nat, c : Nat, child : Nat, parent : Nat,
   unread : Nat, behind : Nat, eof : BOOLEAN, in : Descriptors, out : Descriptors,
   pfd : SUBSET Ends, habit : {"none", "brief", "filter", "endless", "pause"}]

(* Every variable has a value the program's types allow; a command has a   *)
(* name, and its redirections have words as paths.                         *)
TypeOK ==
  /\ alist \in Seq(Tokens \cup {NULL})
  /\ clist \in Seq(CommandRecord)
  /\ stage \in 0 .. 5
  /\ verdict \in {"pending", "parsed", "rejected"}
  /\ freed \in Seq(Tokens \cup {NULL})
  /\ ahead \in 0 .. Len(script)
  /\ lines \in Seq(Seq(Tokens))
  /\ commands \in Seq(Seq(CommandRecord))
  /\ Len(ran) = Len(commands)
  /\ \A t \in DOMAIN ran : DOMAIN ran[t] = DOMAIN commands[t]
  /\ procs \in Seq(ProcessRecord)
  /\ full \subseteq DOMAIN procs

-----------------------------------------------------------------------------
(* parse.                                                                  *)

(* The NULL is behind the last word and nowhere else.                      *)
NullTerminated(words) ==
  words # <<>> /\ \A i \in DOMAIN words : words[i] = NULL <=> i = Len(words)

(* The queue of words is never read behind its end: no path of parse pops  *)
(* the NULL, although ten places pop and look at the next front.           *)
InsideLine ==
  procs[shell].pc = "parse" => NullTerminated(alist)

(* A command writes to a pipe if and only if the next one reads from it,   *)
(* the last one writes to none, and no one does both.                      *)
Paired(list) ==
  /\ \A i \in DOMAIN list :
       /\ list[i].pipe_out <=> i < Len(list) /\ list[i + 1].pipe_in
       /\ ~ (list[i].pipe_in /\ list[i].pipe_out)
  /\ list # <<>> => ~ list[1].pipe_in

(* The reading process finds the command behind the pipe at the front of   *)
(* its queue, unless the pipe's first command is directly behind a cd,     *)
(* which has left it in the queue.                                         *)
BehindCd(t, i) == i > 1 /\ commands[t][i - 1].name = "cd"

ReaderIsPaired(p) ==
  LET t == procs[p].turn
      i == procs[p].next
  IN /\ i \in DOMAIN commands[t]
     /\ commands[t][i].pipe_in \/ BehindCd(t, i)

(* What executecmd takes for granted, "though the parser SHOULD guarantee  *)
(* this" (executecmd.cpp:74): both ends of every pipe are next to each     *)
(* other in the queue, and the loop is still there when the reader looks.  *)
PipesArePaired ==
  /\ Paired(clist)
  /\ \A t \in DOMAIN commands : Paired(commands[t])
  /\ \A p \in DOMAIN procs : procs[p].pc = "reader" => ReaderIsPaired(p)

Ordinary(w) == w \notin Symbols
Paths == {"<", ">", ">>"}

(* No two pipes without an & between them.                                 *)
NoChain(text) ==
  \A i, j \in DOMAIN text :
    i < j /\ text[i] = "|" /\ text[j] = "|" => \E k \in i .. j : text[k] = "&"

(* The syntax of the readme: words, then < path, then > or >> path; pipes  *)
(* of two commands; any of these chained by &.                             *)
Documented(text) ==
  /\ text # <<>> /\ Ordinary(text[1]) /\ NoChain(text)
  /\ \A i \in DOMAIN text : ~ Ordinary(text[i]) =>
       IF i = Len(text) THEN text[i] = "&" ELSE Ordinary(text[i + 1])
  /\ \A i \in DOMAIN text : text[i] \in Paths /\ i + 2 <= Len(text) =>
       \/ text[i + 2] \in {"|", "&"}
       \/ text[i] = "<" /\ text[i + 2] \in {">", ">>"}

(* The words execvp sees in args: up to the first NULL.                    *)
Argv(args) ==
  SubSeq(args, 1, CHOOSE n \in 0 .. Len(args) :
    /\ \A i \in 1 .. n : args[i] # NULL
    /\ n < Len(args) => args[n + 1] = NULL)

Path(symbol, path) == IF path = NULL THEN <<>> ELSE <<symbol, path>>

Render(c) ==
  <<c.name>> \o (IF Argv(c.args) = <<>> THEN <<>> ELSE Tail(Argv(c.args)))
  \o Path("<", c.rdr_in) \o Path(IF c.truncate THEN ">" ELSE ">>", c.rdr_out)
  \o (IF c.pipe_out THEN <<"|">> ELSE <<>>)
  \o (IF c.background THEN <<"&">> ELSE <<>>)

Parsing(v) == At(shell, "parse") /\ verdict = v
current == lines[Len(lines)]
RejectedBefore == \E t \in DOMAIN commands : commands[t] = <<>>

(* A line in the syntax of the readme is accepted, and its commands, with  *)
(* their arguments, redirections, pipes and chaining, written down again   *)
(* are the line.  A rejected line before it may leave words in the memory  *)
(* of a command that is named last in its line, or before a symbol.        *)
DocumentedLinesParse ==
  ~ Parsing("pending") /\ At(shell, "parse") /\ Documented(current) /\ ~ RejectedBefore
    => /\ verdict = "parsed"
       /\ FlattenSeq([i \in DOMAIN clist |-> Render(clist[i])]) = current

(* What is accepted is sound, for lines with a word behind every & inside: *)
(* a word for every redirection and at both ends of every pipe, and no     *)
(* chained pipes (Shell/errorhandling.txt).                                *)
AcceptedIsSound ==
  /\ Parsing("parsed")
  /\ \A i \in 1 .. Len(current) - 1 : current[i] = "&" => Ordinary(current[i + 1])
  => /\ current # <<>> /\ Ordinary(current[1]) /\ NoChain(current)
     /\ \A i \in DOMAIN current : current[i] \in Paths \cup {"|"} =>
          i < Len(current) /\ Ordinary(current[i + 1])

-----------------------------------------------------------------------------
(* executecmd.                                                             *)

(* Only the shell itself reads lines and takes commands from the queue:    *)
(* "each process generated is guaranteed to exit the loop" (README.md:21). *)
ChildrenLeaveLoop ==
  \A p \in DOMAIN procs : procs[p].pc \in ShellLabels => p = shell

(* A chained command finds what the one before it has done: the shell has  *)
(* one child at a time and goes on when it has ended, & or not, and no     *)
(* child goes on with the line.  Only the second command of a pipe may     *)
(* still run, which nobody waits for.                                      *)
OneChildAtATime ==
  /\ ChildrenLeaveLoop
  /\ \A p \in Live : procs[p].parent = shell =>
       procs[shell].pc = "wait" /\ procs[shell].child = p

(* A program holds no end of a pipe but its own: the writer of pipe k (the *)
(* process that made it) no drain, its reader no mouth, others neither.    *)
(* With a stray mouth a reader would wait for ever, with a stray drain a   *)
(* writer would.                                                           *)
NoStrayEnds ==
  \A p \in Live : procs[p].pc \notin ForkLabels =>
    \A end \in Held(p) \ {Terminal, File} :
      IF end[1] = "mouth" THEN end[2] = p
      ELSE end[2] = procs[p].parent /\ procs[p].parent # shell

(* No command is carried out twice, but for one directly behind a cd, which *)
(* is run when the cd is done and again from the queue.                    *)
AtMostOnce ==
  \A t \in DOMAIN ran : \A i \in DOMAIN ran[t] :
    ran[t][i] <= (IF BehindCd(t, i) THEN 2 ELSE 1)

(* A second look at the queue, for the command behind a fed one, forks     *)
(* what it finds: a cd or quit there, or a cd fed by another cd, is left   *)
(* to a child, which cannot carry it out (line 42 against line 19).        *)
LeftToChild(t, i) ==
  /\ commands[t][i].name \in {"cd", "quit"}
  /\ i > 1
  /\ commands[t][i - 1].pipe_in \/ (BehindCd(t, i) /\ commands[t][i].pipe_in)

(* When the shell is through with a line and no process is left, every     *)
(* command of it was carried out, but for those left to a child.           *)
NothingSkipped ==
  procs[shell].pc = "read" /\ Live = {shell} =>
    \A t \in DOMAIN ran : \A i \in DOMAIN ran[t] :
      ran[t][i] > 0 \/ LeftToChild(t, i)

(* Every command is carried out once: a program or an internal command by  *)
(* a process of its own, that may find nothing to execute, cd and quit by  *)
(* the shell itself.  This holds although the loop takes a command fed by  *)
(* a pipe for done, steps over it and runs the one behind without a second *)
(* look (executecmd.cpp:37-50); the two exceptions are what that look      *)
(* would have found.                                                       *)
RunsOnce == AtMostOnce /\ NothingSkipped

-----------------------------------------------------------------------------
(* The batch file.                                                         *)

(* No process but the shell has come to an exit: execvp finds a program    *)
(* for every command, and none is carried out by the shell's own code.     *)
OnlyPrograms ==
  \A t \in DOMAIN ran : \A i \in DOMAIN ran[t] :
    LET name == commands[t][i].name IN
    /\ name \notin {"cd", "quit"}
    /\ ran[t][i] > 0 => name \in Programs \ Internal

(* The lines of a file that fits in one block of the buffer are run in     *)
(* their order before any is run again, although children move the offset  *)
(* of the file while the shell reads it; and none is run again if no child *)
(* leaves through exit, but the first word of the last one when the file   *)
(* ends in a newline (my_shell.cpp:67).  A last line without a newline may *)
(* be glued to another.  In a longer file each block is read from where    *)
(* the children have left the offset: there lines are run again before     *)
(* later ones are run at all, unless all commands are programs.            *)
Beyond == IF terminated THEN 1 ELSE 0

FileInOrder ==
  source = "file" =>
    /\ Len(script) <= BufferLines \/ OnlyPrograms =>
         \A t \in DOMAIN lines :
           t < Len(script) + Beyond => lines[t] = script[t]
    /\ OnlyPrograms => Len(lines) <= Len(script) + Beyond

(* "This will loop through every line in the file and execute them as if   *)
(* they were entered from the terminal one after another" (readme:52).     *)
LinesAsWritten == IsPrefix(lines, script)

-----------------------------------------------------------------------------
(* Progress.  Processes are scheduled, and programs that can end do.  The  *)
(* user need not type a line, but presses Enter where pause asks for it.   *)
FairSpec ==
  /\ Spec
  /\ WF_vars(ReadFile \/ EndOfFile \/ Parse \/ Parsed)
  /\ \A p \in 1 .. MaxProcs :
       /\ WF_vars(Execute(p) \/ Child(p) \/ Write(p) \/ Read(p))
       /\ WF_vars(Finish(p))

(* What may go on for ever: pause with a pipe or a file for its input,     *)
(* which waits for a newline (internalcmd.cpp:148), and a writer that      *)
(* never ends with a reader that reads on.                                 *)
Unending(p) ==
  \/ procs[p].habit = "pause" /\ procs[p].in # Terminal
  \/ procs[p].habit = "endless" /\
       \E r \in Holders(Drain(p)) : procs[r].habit \in {"filter", "pause"}
  \/ procs[p].habit = "filter" /\
       \E w \in Holders(Mouth(procs[p].in[2])) : procs[w].habit = "endless"

(* The end of either process of a pipe reaches the other: no reader waits  *)
(* for ever for a writer that has ended, and no writer writes for ever to  *)
(* a reader that has, although nobody waits for the reader and copies of   *)
(* all four descriptors are in both processes (executecmd.cpp:58-80).      *)
NobodyIsLeft ==
  <>[](\A p \in Live \ {shell} : Unending(p))

(* A line comes to its end, unless the process that the shell waits for is *)
(* one that may go on for ever: a pause without a newline in its input, or *)
(* a writer that never ends with a reader that reads on.                   *)
LineEnds ==
  At(shell, "next") ~>
    \/ At(shell, "read") \/ At(shell, "ended")
    \/ At(shell, "wait") /\ procs[shell].child \in Live /\ Unending(procs[shell].child)
=============================================================================
