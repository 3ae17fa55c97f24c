-------------------------------- MODULE Shell --------------------------------
(***************************************************************************)
(* The shell (Shell/my_shell.cpp, executecmd.cpp, internalcmd.cpp): its    *)
(* main loop, the execution of a line's commands in child processes, and   *)
(* what fork, pipe, wait and the C library's files do to them.             *)
(*                                                                         *)
(* Every process runs the same code on its own copy of the memory, so a    *)
(* process is a record: where it is, its locals, its open descriptors, and *)
(* its copy of the buffer of the batch file.                               *)
(***************************************************************************)
EXTENDS ShellParse

CONSTANTS
  Programs,         \* the words execvp finds a program for
  Glued,            \* two words with nothing between them
  TerminalScripts,  \* what users may type: sequences of lines
  BatchFiles,       \* what batch files may hold: not empty
  BufferLines,      \* lines of the batch file in one block of its buffer
  MaxLines          \* bound on the lines read from a file

ASSUME ScriptAssumption ==
  /\ Programs \subseteq Words /\ Glued \in Words \ Programs
  /\ TerminalScripts \subseteq Seq(Seq(Tokens))
  /\ BatchFiles \subseteq Seq(Seq(Tokens)) \ {<<>>}
  /\ BufferLines \in Nat \ {0} /\ MaxLines \in Nat

VARIABLES
  source,      \* "terminal" or "file"
  script,      \* the lines of the file, or those that will be typed
  terminated,  \* the last line of the file ends in a newline
  ahead,       \* how many lines the next read of the descriptor can get
  line,        \* what tokenize has left of the line in its buffer
  lines,       \* history: what fgets has returned, line by line
  commands,    \* the commands of every line, which are never freed
  ran,         \* history: how often each of them was carried out
  procs,       \* the processes; the shell is procs[1]
  full         \* the pipes that can take no more

scriptVars == <<source, script, terminated>>
inputVars == <<ahead, line, lines>>
runVars == <<commands, ran>>
vars == <<parseVars, scriptVars, inputVars, runVars, procs, full>>

shell == 1
Live == {p \in DOMAIN procs : procs[p].pc # "ended"}

-----------------------------------------------------------------------------
(* Processes and descriptors (external).                                   *)

Terminal == <<"terminal", 0>>
File == <<"file", 0>>
Drain(k) == <<"drain", k>>     \* pfd[0] of the pipe that process k made
Mouth(k) == <<"mouth", k>>     \* pfd[1]

NewProcess ==
  [pc |-> "read", turn |-> 0, next |-> 1, c |-> 0, child |-> 0, parent |-> 0,
   unread |-> 0, behind |-> 0, eof |-> FALSE, in |-> Terminal, out |-> Terminal,
   pfd |-> {}, habit |-> "none"]
Ended == [NewProcess EXCEPT !.pc = "ended"]

Held(p) == procs[p].pfd \cup {procs[p].in, procs[p].out}
Holders(end) == {p \in Live : end \in Held(p)}

At(p, label) == p \in DOMAIN procs /\ procs[p].pc = label
Goto(p, label) == procs' = [procs EXCEPT ![p].pc = label]

(* fork copies the process; the parent goes on at `here'.                  *)
Fork(p, memory, here, there) ==
  LET new == Len(procs) + 1 IN
  procs' = Append(
    [procs EXCEPT ![p] = [memory EXCEPT !.pc = here, !.child = new]],
    [memory EXCEPT !.pc = there, !.parent = p])

End(p) == procs' = [procs EXCEPT ![p] = Ended]

(* exit moves the shared offset of the batch file back by what is unread   *)
(* in the process's own copy of the buffer, unless that is before the      *)
(* beginning.  Lines are taken to be of the same length.                   *)
Exit(p) ==
  /\ End(p)
  /\ LET back == ahead + procs[p].unread IN
     ahead' = IF back <= Len(script) THEN back ELSE ahead

-----------------------------------------------------------------------------
(* main: a line from the terminal or from the batch file.                  *)

Init ==
  /\ \/ source = "terminal" /\ script \in TerminalScripts /\ terminated = TRUE
     \/ source = "file" /\ script \in BatchFiles /\ terminated \in BOOLEAN
  /\ terminated \/ script[Len(script)] # <<>>
  /\ alist = <<>> /\ clist = <<>> /\ stage = 0 /\ verdict = "rejected"
  /\ freed = <<>>
  /\ ahead = Len(script) /\ line = <<>> /\ lines = <<>>
  /\ commands = <<>> /\ ran = <<>>
  /\ procs = <<NewProcess>>
  /\ full = {}

LineAt(rest) == script[Len(script) - rest + 1]

(* Text that goes on without a newline between.                            *)
Glue(first, second) ==
  IF second = <<>> THEN first
  ELSE SubSeq(first, 1, Len(first) - 1) \o <<Glued>> \o Tail(second)

(* A line of the file, with what is then unread in the buffer, what the    *)
(* script has behind the buffer, what the next read of the descriptor can  *)
(* get, and whether this one came to the end of the file.                  *)
Text(t, unread, behind, rest, eof) ==
  [text |-> t, unread |-> unread, behind |-> behind, rest |-> rest, eof |-> eof]

(* One read of the descriptor takes a block, which is taken to end with a  *)
(* line, from wherever the offset is by then.  A line without a newline    *)
(* goes on with what the next read finds.                                  *)
Block(rest) == IF rest < BufferLines THEN rest ELSE BufferLines

fgets ==
  LET p == procs[shell]
      full_buffer == p.unread > 0
      here == IF full_buffer THEN p.behind + p.unread ELSE ahead
      unread == IF full_buffer THEN p.unread ELSE Block(ahead)
      behind == IF full_buffer THEN p.behind ELSE ahead - Block(ahead)
      rest == IF full_buffer THEN ahead ELSE ahead - Block(ahead)
      open == ~ terminated /\ here = 1
  IN CASE here = 0                -> Text(line, 0, 0, 0, TRUE)
       [] here > 0 /\ ~ open     -> Text(LineAt(here), unread - 1, behind, rest, FALSE)
       [] open /\ rest = 0       -> Text(LineAt(here), 0, 0, 0, TRUE)
       [] open /\ rest > 0       ->
            Text(Glue(LineAt(here), LineAt(rest)), Block(rest) - 1,
                 rest - Block(rest), rest - Block(rest), rest = 1)

(* tokenize cuts the line in its buffer behind the first word.             *)
Tokenize(text) ==
  /\ Start(text)
  /\ line' = SubSeq(text, 1, IF text = <<>> THEN 0 ELSE 1)
  /\ lines' = Append(lines, text)

ReadTerminal ==
  /\ source = "terminal" /\ procs[shell].pc = "read"
  /\ ahead > 0
  /\ Tokenize(LineAt(ahead))
  /\ ahead' = ahead - 1
  /\ Goto(shell, "parse")
  /\ UNCHANGED <<scriptVars, runVars, full>>

(* Faulty: the loop does not ask for the end of the file.                  *)
ReadFileForever ==
  /\ source = "file" /\ procs[shell].pc = "read"
  /\ Len(lines) < MaxLines
  /\ Tokenize(fgets.text)
  /\ ahead' = fgets.rest
  /\ procs' = [procs EXCEPT ![shell].pc = "parse", ![shell].unread = fgets.unread,
                            ![shell].behind = fgets.behind, ![shell].eof = fgets.eof]
  /\ UNCHANGED <<scriptVars, runVars, full>>

(* An fgets that finds nothing leaves the buffer as it is, and the loop    *)
(* goes on with that.                                                      *)
ReadFile ==
  /\ source = "file" /\ procs[shell].pc = "read" /\ ~ procs[shell].eof
  /\ Len(lines) < MaxLines
  /\ Tokenize(fgets.text)
  /\ ahead' = fgets.rest
  /\ procs' = [procs EXCEPT ![shell].pc = "parse", ![shell].unread = fgets.unread,
                            ![shell].behind = fgets.behind, ![shell].eof = fgets.eof]
  /\ UNCHANGED <<scriptVars, runVars, full>>

EndOfFile ==
  /\ source = "file" /\ procs[shell].pc = "read" /\ procs[shell].eof
  /\ End(shell)
  /\ UNCHANGED <<parseVars, scriptVars, inputVars, runVars, full>>

Parse ==
  /\ procs[shell].pc = "parse"
  /\ ParseStep
  /\ UNCHANGED <<scriptVars, inputVars, runVars, procs, full>>

(* parse returns: NULL, or the queue that executecmd is called with.       *)
Parsed ==
  /\ procs[shell].pc = "parse" /\ verdict # "pending"
  /\ commands' = Append(commands, clist)
  /\ ran' = Append(ran, [i \in DOMAIN clist |-> 0])
  /\ procs' = [procs EXCEPT
       ![shell].pc = IF verdict = "parsed" THEN "next" ELSE "read",
       ![shell].turn = Len(commands) + 1, ![shell].next = 1]
  /\ alist' = <<>> /\ clist' = <<>>
  /\ UNCHANGED <<stage, verdict, freed, scriptVars, inputVars, full>>

-----------------------------------------------------------------------------
(* executecmd: the loop over the queue.  A process knows the commands of   *)
(* the line it was forked for; the front of its copy of the queue is       *)
(* number `next'.  Behind the last command the queue's memory is zero.     *)

Command(p, i) == commands[procs[p].turn][i]
Count(p) == Len(commands[procs[p].turn])
Current(p) == Command(p, procs[p].c)

CarriedOut(p, i) == ran' = [ran EXCEPT ![procs[p].turn][i] = @ + 1]

(* The command taken from the queue, the one c points to after cd: the     *)
(* front, which stays in the queue; and the one it points to at the fork:  *)
(* the front once more, if that one was fed by a pipe.                     *)
Taken(p) == procs[p].next
IsCd(p) == Taken(p) <= Count(p) /\ Command(p, Taken(p)).name = "cd"
AfterCd(p) == IF IsCd(p) THEN Taken(p) + 1 ELSE Taken(p)
(* Faulty: the test is made for the command behind.                        *)
IsFedNext(p) == AfterCd(p) < Count(p) /\ Command(p, AfterCd(p) + 1).pipe_in

IsFed(p) == Command(p, AfterCd(p)).pipe_in
Forked(p) == IF IsFed(p) THEN Taken(p) + 1 ELSE AfterCd(p)
Quits(p) == Command(p, AfterCd(p)).name = "quit"

ChangesDirectory(p) ==
  IF IsCd(p) THEN CarriedOut(p, Taken(p)) ELSE UNCHANGED ran

(* The front of the queue is NULL where a command was expected.            *)
Exhausted(p) ==
  AfterCd(p) <= Count(p) => ~ Quits(p) /\ Forked(p) > Count(p)

Return(p) ==
  /\ At(p, "next") /\ Exhausted(p)
  /\ ChangesDirectory(p)
  /\ Goto(p, "read")
  /\ UNCHANGED <<parseVars, scriptVars, inputVars, commands, full>>

Quit(p) ==
  /\ At(p, "next") /\ ~ Exhausted(p) /\ Quits(p)
  /\ ChangesDirectory(p)
  /\ Exit(p)
  /\ UNCHANGED <<parseVars, scriptVars, line, lines, commands, full>>

ForkCommand(p) ==
  /\ At(p, "next") /\ ~ Exhausted(p) /\ ~ Quits(p)
  /\ ChangesDirectory(p)
  /\ Fork(p, [procs[p] EXCEPT !.c = Forked(p),
                              !.next = IF IsFed(p) THEN @ + 2 ELSE @ + 1],
          "wait", IF Command(p, Forked(p)).pipe_out THEN "pipe" ELSE "redirect")
  /\ UNCHANGED <<parseVars, scriptVars, inputVars, commands, full>>

(* The first waitpid does not ask whether the command is to run in the     *)
(* background; the second one then finds no child.                         *)
Wait(p) ==
  /\ At(p, "wait")
  /\ procs[procs[p].child].pc = "ended"
  /\ Goto(p, "next")
  /\ UNCHANGED <<parseVars, scriptVars, inputVars, runVars, full>>

-----------------------------------------------------------------------------
(* The child.                                                              *)

MakePipe(p) ==
  /\ At(p, "pipe")
  /\ procs' = [procs EXCEPT ![p].pfd = {Drain(p), Mouth(p)}, ![p].pc = "fork"]
  /\ UNCHANGED <<parseVars, scriptVars, inputVars, runVars, full>>

ForkReader(p) ==
  /\ At(p, "fork")
  /\ Fork(p, procs[p], "writer", "reader")
  /\ UNCHANGED <<parseVars, scriptVars, inputVars, runVars, full>>

(* Faulty: the writer keeps the drain.                                     *)
BecomeWriterOpen(p) ==
  /\ At(p, "writer")
  /\ procs' = [procs EXCEPT ![p].out = Mouth(p), ![p].pc = "redirect"]
  /\ UNCHANGED <<parseVars, scriptVars, inputVars, runVars, full>>

BecomeWriter(p) ==
  /\ At(p, "writer")
  /\ procs' = [procs EXCEPT ![p].pfd = @ \ {Drain(p)}, ![p].out = Mouth(p),
                            ![p].pc = "redirect"]
  /\ UNCHANGED <<parseVars, scriptVars, inputVars, runVars, full>>

(* Faulty: the reader keeps the mouth.                                     *)
BecomeReaderOpen(p) ==
  LET k == procs[p].parent
      i == procs[p].next IN
  /\ At(p, "reader")
  /\ IF Command(p, i).pipe_in
     THEN /\ procs' = [procs EXCEPT ![p].in = Drain(k), ![p].c = i, ![p].next = i + 1,
                                    ![p].pc = "redirect"]
          /\ UNCHANGED ahead
     ELSE Exit(p)
  /\ UNCHANGED <<parseVars, scriptVars, line, lines, runVars, full>>

(* "Bad parse." if the queue's front is not the command behind the pipe.   *)
BecomeReader(p) ==
  LET k == procs[p].parent
      i == procs[p].next IN
  /\ At(p, "reader")
  /\ IF Command(p, i).pipe_in
     THEN /\ procs' = [procs EXCEPT ![p].pfd = @ \ {Mouth(k)}, ![p].in = Drain(k),
                                    ![p].c = i, ![p].next = i + 1,
                                    ![p].pc = "redirect"]
          /\ UNCHANGED ahead
     ELSE Exit(p)
  /\ UNCHANGED <<parseVars, scriptVars, line, lines, runVars, full>>

(* A file that cannot be opened leaves the descriptor as it was.           *)
OpenedOr(path, now) == IF path = NULL THEN {now} ELSE {File, now}

Redirect(p) ==
  /\ At(p, "redirect")
  /\ \E in \in OpenedOr(Current(p).rdr_in, procs[p].in),
        out \in OpenedOr(Current(p).rdr_out, procs[p].out) :
       procs' = [procs EXCEPT ![p].in = in, ![p].out = out, ![p].pc = "exec"]
  /\ UNCHANGED <<parseVars, scriptVars, inputVars, runVars, full>>

(* internalcmd, which knows neither cd nor quit.                           *)
Internal == {"clr", "dir", "environ", "echo", "help", "pause"}

(* What a program does with its input and output (external): end when it   *)
(* likes, read all its input first, or write until nobody reads.  pause    *)
(* reads until a newline, which the end of its input never is; it reads    *)
(* nothing if the variable it tests, never set, happens to hold one.       *)
FromPipe(p) == procs[p].in[1] = "drain"
ToPipe(p) == procs[p].out[1] = "mouth"
Habits(p) ==
  IF Current(p).name = "pause" THEN {"pause", "brief"}
  ELSE IF Current(p).name \in Internal THEN {"brief"}
  ELSE {"brief"} \cup (IF FromPipe(p) THEN {"filter"} ELSE {})
                 \cup (IF ToPipe(p) THEN {"endless"} ELSE {})

(* cd and quit "can't be child processes": what a child executes under     *)
(* these names, if anything, does not change the shell.                    *)
Attempts(p) ==
  IF Current(p).name \in {"cd", "quit"} THEN UNCHANGED ran
  ELSE CarriedOut(p, procs[p].c)

(* Faulty: no exit when execution fails.                                   *)
ExecWithoutExit(p) ==
  /\ At(p, "exec")
  /\ Attempts(p)
  /\ IF Current(p).name \in Internal \cup Programs
     THEN \E h \in Habits(p) :
            procs' = [procs EXCEPT ![p].habit = h, ![p].pc =
              IF Current(p).name \in Internal THEN "internal" ELSE "program"]
     ELSE Goto(p, "next")
  /\ UNCHANGED <<parseVars, scriptVars, inputVars, commands, full>>

Exec(p) ==
  /\ At(p, "exec")
  /\ Attempts(p)
  /\ IF Current(p).name \in Internal \cup Programs
     THEN /\ \E h \in Habits(p) :
               procs' = [procs EXCEPT ![p].habit = h, ![p].pc =
                 IF Current(p).name \in Internal THEN "internal" ELSE "program"]
          /\ UNCHANGED ahead
     ELSE Exit(p)
  /\ UNCHANGED <<parseVars, scriptVars, line, lines, commands, full>>

-----------------------------------------------------------------------------
(* Commands that run (external, but for what internal ones do at the end). *)

Runs(p) == p \in DOMAIN procs /\ procs[p].pc \in {"internal", "program"}

(* A pipe without readers raises SIGPIPE, one that is full blocks.         *)
Write(p) ==
  /\ Runs(p) /\ ToPipe(p)
  /\ LET k == procs[p].out[2] IN
     IF Holders(Drain(k)) = {} THEN End(p) /\ UNCHANGED full
     ELSE k \notin full /\ full' = full \cup {k} /\ UNCHANGED procs
  /\ UNCHANGED <<parseVars, scriptVars, inputVars, runVars>>

Read(p) ==
  /\ Runs(p) /\ FromPipe(p)
  /\ procs[p].in[2] \in full
  /\ full' = full \ {procs[p].in[2]}
  /\ IF procs[p].habit = "pause"
     THEN \E h \in {"pause", "brief"} : procs' = [procs EXCEPT ![p].habit = h]
     ELSE UNCHANGED procs
  /\ UNCHANGED <<parseVars, scriptVars, inputVars, runVars>>

AtEof(p) ==
  FromPipe(p) /\ procs[p].in[2] \notin full /\ Holders(Mouth(procs[p].in[2])) = {}

(* pause waits for Enter at the terminal, for ever at the end of a pipe or *)
(* of a file without a newline; one that has found its newline is "brief". *)
MayEnd(p) ==
  CASE procs[p].habit = "brief" -> TRUE
    [] procs[p].habit = "filter" -> AtEof(p)
    [] procs[p].habit = "pause" -> procs[p].in = Terminal
    [] OTHER -> FALSE

(* The shell's own image flushes and repositions its files, a program that *)
(* was executed has none of them.                                          *)
Finish(p) ==
  /\ Runs(p) /\ MayEnd(p)
  /\ IF procs[p].pc = "internal" THEN Exit(p) ELSE End(p) /\ UNCHANGED ahead
  /\ UNCHANGED <<parseVars, scriptVars, line, lines, runVars, full>>

-----------------------------------------------------------------------------
Main == ReadTerminal \/ ReadFile \/ EndOfFile \/ Parse \/ Parsed
Execute(p) == Return(p) \/ Quit(p) \/ ForkCommand(p) \/ Wait(p)
Child(p) ==
  \/ MakePipe(p) \/ ForkReader(p) \/ BecomeWriter(p) \/ BecomeReader(p)
  \/ Redirect(p) \/ Exec(p)

Next ==
  \/ Main
  \/ \E p \in DOMAIN procs : Execute(p) \/ Child(p) \/ Write(p) \/ Read(p) \/ Finish(p)

Spec == Init /\ [][Next]_vars
=============================================================================
