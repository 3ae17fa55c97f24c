------------------------------ MODULE ShellParse -----------------------------
(***************************************************************************)
(* tokenize and parse of the shell (Shell/tokenize.cpp, Shell/parse.cpp):  *)
(* a queue of words becomes a queue of commands.  The loop of parse tests  *)
(* for one symbol after the other; `stage' is the test it has come to, and *)
(* one action is one test that holds, with everything up to the next.      *)
(***************************************************************************)
EXTENDS Integers, Sequences

CONSTANTS
  Words,    \* what a line may hold besides the symbols
  NULL

Symbols == {"<", ">", ">>", "|", "&"}
Tokens == Words \cup Symbols

ASSUME WordAssumption == Words \cap Symbols = {} /\ NULL \notin Tokens

VARIABLES
  alist,    \* the words still to be parsed, and the NULL behind them
  clist,    \* the commands so far; cmd points to the last one
  stage,    \* 0 before the loop, then the number of a test in the loop
  verdict,  \* "pending", "parsed" or "rejected"
  freed     \* what args held in the command that was deleted last

parseVars == <<alist, clist, stage, verdict, freed>>

-----------------------------------------------------------------------------
(* strtok's NULL ends up in the queue too, even that of an empty line.     *)
tokenize(line) == Append(line, NULL)

word == Head(alist)
cmd == clist[Len(clist)]

notsymbol(w) == w # NULL /\ w \notin Symbols

(* args is uninitialised: it holds what it held in a deleted command of    *)
(* the same size, or zeroes.  The slots behind the sequence are NULL.  The *)
(* old pointers lead into the buffer of the line, which is used again: a   *)
(* leftover word stands for the bytes that the new line has at its place.  *)
Overwrite(args, values) ==
  values \o SubSeq(args, Len(values) + 1, Len(args))

new_command(args) ==
  [name |-> NULL, args |-> args, rdr_in |-> NULL, rdr_out |-> NULL,
   truncate |-> FALSE, pipe_in |-> FALSE, pipe_out |-> FALSE,
   background |-> FALSE]

Set(c) == [clist EXCEPT ![Len(clist)] = c]

Start(line) ==
  /\ alist' = tokenize(line)
  /\ clist' = <<>>
  /\ stage' = 0
  /\ verdict' = "pending"
  /\ UNCHANGED freed

(* Both deletes: of clist, not of the commands in it, and of cmd.          *)
Reject(args) ==
  /\ verdict' = "rejected"
  /\ freed' = args
  /\ clist' = <<>>
  /\ UNCHANGED <<alist, stage>>

GoOn(commands, rest, s) ==
  /\ clist' = commands
  /\ alist' = rest
  /\ stage' = s
  /\ UNCHANGED verdict

-----------------------------------------------------------------------------
FirstWord ==
  /\ verdict = "pending" /\ stage = 0
  /\ IF notsymbol(word)
     THEN /\ GoOn(<<[new_command(Overwrite(freed, <<word>>)) EXCEPT !.name = word]>>,
                  Tail(alist), 1)
          /\ freed' = <<>>
     ELSE Reject(freed)

(* The tests of the loop by number; 5 is the collection of arguments.      *)
TestFor(w) ==
  CASE w = "<" -> 1
    [] w \in {">", ">>"} -> 2
    [] w = "|" -> 3
    [] w = "&" -> 4
    [] OTHER -> 5

(* The test for word is still ahead in this turn of the loop.              *)
Reached(test) ==
  /\ verdict = "pending" /\ word # NULL
  /\ TestFor(word) = test
  /\ stage \in 1 .. test

(* The word behind the current one; there is one, at least NULL.           *)
following == alist[2]
Behind2 == Tail(Tail(alist))

(* Faulty: a symbol is taken for a path.                                   *)
RedirectInUnchecked ==
  /\ Reached(1)
  /\ IF following # NULL
     THEN /\ GoOn(Set([cmd EXCEPT !.rdr_in = following]), Behind2, 2)
          /\ UNCHANGED freed
     ELSE Reject(cmd.args)

(* Faulty: "else if" before the test for > and >>.                         *)
RedirectInAlone ==
  /\ Reached(1)
  /\ IF notsymbol(following)
     THEN /\ GoOn(Set([cmd EXCEPT !.rdr_in = following]), Behind2, 3)
          /\ UNCHANGED freed
     ELSE Reject(cmd.args)

RedirectIn ==
  /\ Reached(1)
  /\ IF notsymbol(following)
     THEN /\ GoOn(Set([cmd EXCEPT !.rdr_in = following]), Behind2, 2)
          /\ UNCHANGED freed
     ELSE Reject(cmd.args)

(* Faulty: only the end of the line is tested.                             *)
RedirectOutUnchecked ==
  /\ Reached(2)
  /\ IF following # NULL
     THEN /\ GoOn(Set([cmd EXCEPT !.rdr_out = following,
                                  !.truncate = @ \/ word = ">"]), Behind2, 3)
          /\ UNCHANGED freed
     ELSE Reject(cmd.args)

RedirectOut ==
  /\ Reached(2)
  /\ IF notsymbol(following)
     THEN /\ GoOn(Set([cmd EXCEPT !.rdr_out = following,
                                  !.truncate = @ \/ word = ">"]), Behind2, 3)
          /\ UNCHANGED freed
     ELSE Reject(cmd.args)

(* Faulty: chained pipes are let through.                                  *)
PipeChained ==
  /\ Reached(3)
  /\ IF notsymbol(following)
     THEN /\ GoOn(Append(Set([cmd EXCEPT !.pipe_out = TRUE]),
                         [new_command(freed) EXCEPT !.name = following, !.pipe_in = TRUE]),
                  Behind2, 4)
          /\ freed' = <<>>
     ELSE Reject(cmd.args)

Pipe ==
  /\ Reached(3)
  /\ IF ~ cmd.pipe_in /\ notsymbol(following)
     THEN /\ GoOn(Append(Set([cmd EXCEPT !.pipe_out = TRUE]),
                         [new_command(freed) EXCEPT !.name = following, !.pipe_in = TRUE]),
                  Behind2, 4)
          /\ freed' = <<>>
     ELSE Reject(cmd.args)

(* Faulty: there need not be a next command.                               *)
BackgroundUnended ==
  /\ Reached(4)
  /\ GoOn(Append(Set([cmd EXCEPT !.background = TRUE]),
                 [new_command(freed) EXCEPT !.name = following]),
          Behind2, 5)
  /\ freed' = <<>>

(* The name of the next command is not validated here.                     *)
Background ==
  /\ Reached(4)
  /\ IF following = NULL
     THEN /\ GoOn(Set([cmd EXCEPT !.background = TRUE]), Tail(alist), 5)
          /\ UNCHANGED freed
     ELSE /\ GoOn(Append(Set([cmd EXCEPT !.background = TRUE]),
                         [new_command(freed) EXCEPT !.name = following]),
                  Behind2, 5)
          /\ freed' = <<>>

(* args[0], the n ordinary words at the front of the queue, and the NULL   *)
(* behind them: an earlier list of arguments is overwritten.               *)
Collect ==
  /\ verdict = "pending" /\ word # NULL
  /\ stage > 0 /\ TestFor(word) \notin stage .. 4
  /\ \E n \in 0 .. Len(alist) - 1 :
       /\ \A i \in 1 .. n : notsymbol(alist[i])
       /\ ~ notsymbol(alist[n + 1])
       /\ GoOn(Set([cmd EXCEPT !.args =
                      Overwrite(@, <<cmd.name>> \o SubSeq(alist, 1, n) \o <<NULL>>)]),
               SubSeq(alist, n + 1, Len(alist)), 1)
  /\ UNCHANGED freed

EndOfLine ==
  /\ verdict = "pending" /\ stage > 0
  /\ word = NULL
  /\ verdict' = "parsed"
  /\ UNCHANGED <<alist, clist, stage, freed>>

ParseStep ==
  FirstWord \/ RedirectIn \/ RedirectOut \/ Pipe \/ Background \/ Collect \/ EndOfLine
=============================================================================
