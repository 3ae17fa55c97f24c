----------------------------- MODULE ShellProofs -----------------------------
(***************************************************************************)
(* Proofs about the shell for all lines that users may type, all batch     *)
(* files, words and programs, and any number of processes.                 *)
(***************************************************************************)
EXTENDS ShellProperties, SequenceTheorems, TLAPS

Tokens0 == Tokens \cup {NULL}

-----------------------------------------------------------------------------
(* The queue of words.                                                     *)

(* What is left of a sequence without its first n elements.                *)
LEMMA RestOfSeq ==
  ASSUME NEW S, NEW s \in Seq(S), NEW n \in 0 .. Len(s)
  PROVE  /\ SubSeq(s, n + 1, Len(s)) \in Seq(S)
         /\ Len(SubSeq(s, n + 1, Len(s))) = Len(s) - n
         /\ \A i \in 1 .. Len(s) - n : SubSeq(s, n + 1, Len(s))[i] = s[n + i]
<1>1. Len(s) \in Nat /\ \A i \in n + 1 .. Len(s) : s[i] \in S
  BY LenProperties, ElementOfSeq
<1> QED
  BY <1>1, SubSeqProperties

LEMMA LongSeq ==
  ASSUME NEW S, NEW s \in Seq(S)
  PROVE  s # <<>> <=> Len(s) > 0
<1>1. Len(<<>>) = 0
  BY EmptySeq
<1>2. s # <<>> => Len(s) \in Nat \ {0}
  BY EmptySeq
<1> QED
  BY <1>1, <1>2

(* The tokens of a line are followed by the NULL.                          *)
LEMMA TokensEnd ==
  ASSUME NEW text \in Seq(Tokens)
  PROVE  tokenize(text) \in Seq(Tokens0) /\ NullTerminated(tokenize(text))
<1>1. text \in Seq(Tokens0) /\ NULL \in Tokens0
  BY SeqMonotonic DEF Tokens0
<1>2. /\ Append(text, NULL) \in Seq(Tokens0)
      /\ Append(text, NULL) # <<>>
      /\ Len(Append(text, NULL)) = Len(text) + 1
      /\ \A i \in 1 .. Len(text) : Append(text, NULL)[i] = text[i]
      /\ Append(text, NULL)[Len(text) + 1] = NULL
  BY <1>1, AppendProperties
<1>3. \A i \in 1 .. Len(text) : text[i] # NULL
  BY ElementOfSeq, WordAssumption
<1> QED
  BY <1>2, <1>3, LenProperties DEF tokenize, NullTerminated

(* Any number of words may be taken off, as long as one element remains.   *)
LEMMA RestEnds ==
  ASSUME NEW words \in Seq(Tokens0), NullTerminated(words), NEW n \in 0 .. Len(words) - 1
  PROVE  /\ SubSeq(words, n + 1, Len(words)) \in Seq(Tokens0)
         /\ NullTerminated(SubSeq(words, n + 1, Len(words)))
<1> DEFINE rest == SubSeq(words, n + 1, Len(words))
<1>1. Len(words) \in Nat /\ DOMAIN words = 1 .. Len(words)
  BY LenProperties
<1>2. /\ rest \in Seq(Tokens0)
      /\ Len(rest) = Len(words) - n
      /\ \A i \in 1 .. Len(words) - n : rest[i] = words[n + i]
  BY <1>1, RestOfSeq
<1> HIDE DEF rest
<1>3. rest # <<>> /\ DOMAIN rest = 1 .. Len(rest)
  BY <1>1, <1>2, LongSeq, LenProperties
<1>4. ASSUME NEW i \in 1 .. Len(rest)
      PROVE  rest[i] = NULL <=> i = Len(rest)
  <2>1. n + i \in 1 .. Len(words) /\ rest[i] = words[n + i]
    BY <1>1, <1>2
  <2>2. words[n + i] = NULL <=> n + i = Len(words)
    BY <1>1, <2>1 DEF NullTerminated
  <2>3. n + i = Len(words) <=> i = Len(rest)
    <3>1. Len(rest) = Len(words) - n
      BY <1>2
    <3>2. i \in Nat /\ n \in Nat /\ Len(words) \in Nat
      BY <1>1, <1>3
    <3> QED
      BY <3>1, <3>2
  <2> QED
    BY <2>1, <2>2, <2>3
<1>5. rest \in Seq(Tokens0) /\ NullTerminated(rest)
  BY <1>2, <1>3, <1>4 DEF NullTerminated
<1> QED
  BY <1>5 DEF rest

(* A word that is not the NULL can be taken off, and so can the one behind *)
(* it if it is not the NULL either.                                        *)
LEMMA TailEnds ==
  ASSUME NEW words \in Seq(Tokens0), NullTerminated(words), Head(words) # NULL
  PROVE  /\ Len(words) >= 2
         /\ Tail(words) \in Seq(Tokens0)
         /\ NullTerminated(Tail(words))
         /\ Head(Tail(words)) = words[2]
         /\ words[2] \in Tokens0
<1>1. Len(words) \in Nat /\ DOMAIN words = 1 .. Len(words) /\ words # <<>>
  BY LenProperties DEF NullTerminated
<1>2. Len(words) # 0
  BY <1>1, LongSeq
<1>3. Head(words) = words[1]
  BY <1>1
<1>4. Len(words) >= 2
  BY <1>1, <1>2, <1>3 DEF NullTerminated
<1>5. Tail(words) = SubSeq(words, 2, Len(words))
  BY <1>1, TailIsSubSeq
<1>6. Tail(words) \in Seq(Tokens0) /\ NullTerminated(Tail(words))
  <2>1. 1 \in 0 .. Len(words) - 1 /\ 1 + 1 = 2
    BY <1>1, <1>4
  <2>2. /\ SubSeq(words, 1 + 1, Len(words)) \in Seq(Tokens0)
        /\ NullTerminated(SubSeq(words, 1 + 1, Len(words)))
    BY <2>1, RestEnds
  <2> QED
    BY <2>1, <2>2, <1>5
<1>7. /\ Len(Tail(words)) = Len(words) - 1
      /\ \A i \in 1 .. Len(Tail(words)) : Tail(words)[i] = words[i + 1]
  BY <1>1, HeadTailProperties
<1>8. Head(Tail(words)) = words[2]
  BY <1>1, <1>4, <1>6, <1>7
<1>9. words[2] \in Tokens0
  BY <1>1, <1>4, ElementOfSeq
<1> QED
  BY <1>4, <1>6, <1>8, <1>9

LEMMA Tail2Ends ==
  ASSUME NEW words \in Seq(Tokens0), NullTerminated(words), Head(words) # NULL,
         words[2] # NULL
  PROVE  Tail(Tail(words)) \in Seq(Tokens0) /\ NullTerminated(Tail(Tail(words)))
BY TailEnds

-----------------------------------------------------------------------------
(* The queue of commands.                                                  *)

(* Lists with the same pipes are both paired or neither is.                *)
LEMMA SamePipes ==
  ASSUME NEW K, NEW L, NEW n \in Nat \ {0},
         DOMAIN K = 1 .. n, DOMAIN L = 1 .. n, Len(K) = n, Len(L) = n, K # <<>>,
         \A j \in 1 .. n : (K[j].pipe_in <=> L[j].pipe_in)
                           /\ (K[j].pipe_out <=> L[j].pipe_out),
         Paired(K)
  PROVE  Paired(L)
<1>1. \A i \in 1 .. n : i < n => i + 1 \in 1 .. n
  OBVIOUS
<1>2. 1 \in 1 .. n
  OBVIOUS
<1>3. ~ L[1].pipe_in
  BY <1>2 DEF Paired
<1>4. ASSUME NEW i \in DOMAIN L
      PROVE  /\ L[i].pipe_out <=> i < Len(L) /\ L[i + 1].pipe_in
             /\ ~ (L[i].pipe_in /\ L[i].pipe_out)
  <2>1. /\ K[i].pipe_out <=> i < n /\ K[i + 1].pipe_in
        /\ ~ (K[i].pipe_in /\ K[i].pipe_out)
    BY DEF Paired
  <2>2. i < n => (K[i + 1].pipe_in <=> L[i + 1].pipe_in)
    BY <1>1
  <2> QED
    BY <2>1, <2>2
<1> QED
  BY <1>3, <1>4 DEF Paired

(* One more element may be added if the last one is made to write to it    *)
(* exactly when it reads from a pipe.                                      *)
LEMMA OneMorePipe ==
  ASSUME NEW K, NEW L, NEW n \in Nat \ {0},
         DOMAIN K = 1 .. n, DOMAIN L = 1 .. n + 1, Len(K) = n, Len(L) = n + 1, K # <<>>,
         \A j \in 1 .. n : (K[j].pipe_in <=> L[j].pipe_in)
                           /\ (j < n => (K[j].pipe_out <=> L[j].pipe_out)),
         L[n].pipe_out <=> L[n + 1].pipe_in,
         ~ (L[n].pipe_in /\ L[n].pipe_out), ~ L[n + 1].pipe_out,
         Paired(K)
  PROVE  Paired(L)
<1>1. \A i \in 1 .. n : i < n => i + 1 \in 1 .. n
  OBVIOUS
<1>2. 1 \in 1 .. n
  OBVIOUS
<1>3. ~ L[1].pipe_in
  BY <1>2 DEF Paired
<1>4. ASSUME NEW i \in 1 .. n, i < n
      PROVE  /\ L[i].pipe_out <=> L[i + 1].pipe_in
             /\ ~ (L[i].pipe_in /\ L[i].pipe_out)
  <2>1. /\ K[i].pipe_out <=> i < n /\ K[i + 1].pipe_in
        /\ ~ (K[i].pipe_in /\ K[i].pipe_out)
    BY DEF Paired
  <2>2. K[i + 1].pipe_in <=> L[i + 1].pipe_in
    BY <1>1, <1>4
  <2> QED
    BY <1>4, <2>1, <2>2
<1>5. ASSUME NEW i \in DOMAIN L
      PROVE  /\ L[i].pipe_out <=> i < Len(L) /\ L[i + 1].pipe_in
             /\ ~ (L[i].pipe_in /\ L[i].pipe_out)
  <2>1. \/ i \in 1 .. n /\ i < n /\ i < n + 1
        \/ i = n /\ i < n + 1
        \/ i = n + 1 /\ ~ (i < n + 1)
    OBVIOUS
  <2> QED
    BY <1>4, <2>1
<1> QED
  BY <1>3, <1>5 DEF Paired

(* The last command may be replaced by one with the same pipes.            *)
LEMMA SetPaired ==
  ASSUME clist \in Seq(CommandRecord), clist # <<>>, Paired(clist),
         NEW c \in CommandRecord,
         c.pipe_in <=> cmd.pipe_in, c.pipe_out <=> cmd.pipe_out
  PROVE  Set(c) \in Seq(CommandRecord) /\ Set(c) # <<>> /\ Paired(Set(c))
<1> DEFINE n == Len(clist)
<1>1. n \in Nat \ {0} /\ n \in 1 .. n /\ DOMAIN clist = 1 .. n
  BY LenProperties, LongSeq
<1>2. /\ Set(c) \in Seq(CommandRecord) /\ Len(Set(c)) = n
      /\ \A j \in 1 .. n : Set(c)[j] = IF j = n THEN c ELSE clist[j]
  BY <1>1, ExceptSeq DEF Set
<1>3. Set(c) # <<>> /\ DOMAIN Set(c) = 1 .. n
  BY <1>1, <1>2, LongSeq, LenProperties
<1>4. ASSUME NEW j \in 1 .. n
      PROVE  /\ clist[j].pipe_in <=> Set(c)[j].pipe_in
             /\ clist[j].pipe_out <=> Set(c)[j].pipe_out
  <2>1. CASE j = n
    BY <1>2, <2>1 DEF cmd
  <2>2. CASE j # n
    BY <1>2, <2>2
  <2> QED
    BY <2>1, <2>2
<1> HIDE DEF n
<1>5. Paired(Set(c))
  BY <1>1, <1>2, <1>3, <1>4, SamePipes DEF n
<1> QED
  BY <1>2, <1>3, <1>5

(* A command may be added if the last one is made to write to it exactly   *)
(* when it reads from a pipe.                                              *)
LEMMA AppendPaired ==
  ASSUME clist \in Seq(CommandRecord), clist # <<>>, Paired(clist),
         NEW c \in CommandRecord, c.pipe_in <=> cmd.pipe_in,
         NEW d \in CommandRecord, c.pipe_out <=> d.pipe_in, ~ d.pipe_out,
         ~ (c.pipe_in /\ c.pipe_out)
  PROVE  /\ Append(Set(c), d) \in Seq(CommandRecord)
         /\ Append(Set(c), d) # <<>>
         /\ Paired(Append(Set(c), d))
<1> DEFINE new == Append(Set(c), d)
           n == Len(clist)
<1>1. n \in Nat \ {0} /\ n \in 1 .. n /\ DOMAIN clist = 1 .. n
  BY LenProperties, LongSeq
<1>2. /\ Set(c) \in Seq(CommandRecord) /\ Len(Set(c)) = n
      /\ \A j \in 1 .. n : Set(c)[j] = IF j = n THEN c ELSE clist[j]
  BY <1>1, ExceptSeq DEF Set
<1>3. /\ new \in Seq(CommandRecord) /\ new # <<>> /\ Len(new) = n + 1
      /\ \A j \in 1 .. n : new[j] = Set(c)[j]
      /\ new[n + 1] = d
  BY <1>2, AppendProperties
<1>4. DOMAIN new = 1 .. n + 1
  BY <1>3, LenProperties
<1> HIDE DEF new
<1>5. ASSUME NEW j \in 1 .. n
      PROVE  /\ clist[j].pipe_in <=> new[j].pipe_in
             /\ j < n => (clist[j].pipe_out <=> new[j].pipe_out)
  <2>1. CASE j = n
    <3>1. new[j] = c /\ clist[j] = cmd
      BY <1>2, <1>3, <2>1 DEF cmd
    <3>2. ~ (j < n)
      BY <1>1, <2>1
    <3> QED
      BY <3>1, <3>2
  <2>2. CASE j # n
    BY <1>2, <1>3, <2>2
  <2> QED
    BY <2>1, <2>2
<1>6. new[n] = c
  BY <1>1, <1>2, <1>3
<1>7. /\ new[n].pipe_out <=> new[n + 1].pipe_in
      /\ ~ (new[n].pipe_in /\ new[n].pipe_out)
      /\ ~ new[n + 1].pipe_out
  BY <1>3, <1>6
<1> HIDE DEF n
<1>8. Paired(new)
  <2>1. Len(clist) = n
    BY DEF n
  <2> QED
    BY <1>1, <1>3, <1>4, <1>5, <1>7, <2>1, OneMorePipe
<1> QED
  BY <1>3, <1>8 DEF new
-----------------------------------------------------------------------------
(* The parser.                                                             *)

ParserTypeOK ==
  /\ alist \in Seq(Tokens0)
  /\ clist \in Seq(CommandRecord)
  /\ stage \in 0 .. 5
  /\ verdict \in {"pending", "parsed", "rejected"}
  /\ freed \in Seq(Tokens0)

(* The queue of commands is sound between any two tests of the loop.       *)
ParserOK ==
  /\ ParserTypeOK
  /\ Paired(clist)
  /\ verdict = "pending" /\ stage > 0 => clist # <<>>

(* What parse depends on while it runs.                                    *)
Parsable == ParserOK /\ NullTerminated(alist)

(* The last command does not write to a pipe.                              *)
LEMMA LastCommand ==
  ASSUME ParserOK, verdict = "pending", stage > 0
  PROVE  /\ clist # <<>> /\ cmd \in CommandRecord
         /\ ~ cmd.pipe_out
         /\ cmd.args \in Seq(Tokens0)
<1>1. clist \in Seq(CommandRecord) /\ clist # <<>> /\ Paired(clist)
  BY DEF ParserOK, ParserTypeOK
<1>2. Len(clist) \in Nat \ {0} /\ DOMAIN clist = 1 .. Len(clist)
  BY <1>1, LenProperties, LongSeq
<1>3. Len(clist) \in DOMAIN clist /\ ~ (Len(clist) < Len(clist))
  BY <1>2
<1>4. cmd \in CommandRecord
  BY <1>1, <1>2, <1>3, ElementOfSeq DEF cmd
<1>5. ~ cmd.pipe_out
  BY <1>1, <1>3 DEF Paired, cmd
<1>6. cmd.args \in Seq(Tokens0)
  BY <1>4 DEF CommandRecord, Tokens0
<1> QED
  BY <1>1, <1>4, <1>5, <1>6

(* What lies behind the written part of args stays.                        *)
LEMMA OverwriteType ==
  ASSUME NEW args \in Seq(Tokens0), NEW values \in Seq(Tokens0)
  PROVE  Overwrite(args, values) \in Seq(Tokens0)
<1> DEFINE n == Len(values)
<1>1. n \in Nat /\ Len(args) \in Nat
  BY LenProperties
<1>2. SubSeq(args, n + 1, Len(args)) \in Seq(Tokens0)
  <2>1. CASE n <= Len(args)
    BY <1>1, <2>1, RestOfSeq
  <2>2. CASE n > Len(args)
    <3>1. n + 1 > Len(args) /\ n + 1 \in Int /\ Len(args) \in Int
      BY <1>1, <2>2
    <3>2. SubSeq(args, n + 1, Len(args)) = <<>>
      BY <3>1
    <3> QED
      BY <3>2
  <2> QED
    BY <1>1, <2>1, <2>2
<1> QED
  BY <1>2, ConcatProperties DEF Overwrite

(* A new command is a command once it has a name.                          *)
LEMMA NewCommandType ==
  ASSUME NEW args \in Seq(Tokens0), NEW w \in Tokens, NEW b \in BOOLEAN
  PROVE  LET c == [new_command(args) EXCEPT !.name = w, !.pipe_in = b]
         IN  c \in CommandRecord /\ c.pipe_in = b /\ c.pipe_out = FALSE
BY DEF new_command, CommandRecord, Tokens0

LEMMA NamedCommandType ==
  ASSUME NEW args \in Seq(Tokens0), NEW w \in Tokens
  PROVE  LET c == [new_command(args) EXCEPT !.name = w]
         IN  c \in CommandRecord /\ c.pipe_in = FALSE /\ c.pipe_out = FALSE
BY DEF new_command, CommandRecord, Tokens0
(* The front of a terminated queue, and the words that can be taken off.   *)
LEMMA FrontOfQueue ==
  ASSUME Parsable, word # NULL
  PROVE  /\ word \in Tokens
         /\ Tail(alist) \in Seq(Tokens0) /\ NullTerminated(Tail(alist))
         /\ following \in Tokens0
         /\ following # NULL => /\ Behind2 \in Seq(Tokens0)
                                /\ NullTerminated(Behind2)
<1>1. alist \in Seq(Tokens0) /\ NullTerminated(alist)
  BY DEF Parsable, ParserOK, ParserTypeOK
<1>2. alist # <<>>
  BY <1>1 DEF NullTerminated
<1>3. word \in Tokens0
  BY <1>1, <1>2, HeadTailProperties DEF word
<1>4. word \in Tokens
  BY <1>3 DEF Tokens0
<1> QED
  BY <1>1, <1>4, TailEnds, Tail2Ends DEF word, following, Behind2

(* A rejected line leaves no commands.                                     *)
LEMMA RejectStep ==
  ASSUME Parsable, NEW args \in Seq(Tokens0), Reject(args)
  PROVE  Parsable'
<1>1. clist' = <<>> /\ verdict' = "rejected" /\ freed' = args
  BY DEF Reject
<1>2. alist' = alist /\ stage' = stage
  BY DEF Reject
<1>3. clist' \in Seq(CommandRecord) /\ Paired(clist')
  BY <1>1, EmptySeq DEF Paired
<1> QED
  BY <1>1, <1>2, <1>3 DEF Parsable, ParserOK, ParserTypeOK

(* An ordinary word is a word.                                             *)
LEMMA OrdinaryWord ==
  ASSUME NEW w \in Tokens0, notsymbol(w)
  PROVE  w \in Words /\ w \in Tokens /\ w # NULL
BY DEF notsymbol, Tokens0, Tokens

(* The loop goes on with terminated words and paired commands.             *)
LEMMA GoOnStep ==
  ASSUME Parsable, verdict = "pending",
         NEW commandsNow \in Seq(CommandRecord), commandsNow # <<>>, Paired(commandsNow),
         NEW rest \in Seq(Tokens0), NullTerminated(rest), NEW s \in 0 .. 5,
         GoOn(commandsNow, rest, s), freed' \in Seq(Tokens0)
  PROVE  Parsable'
<1>1. clist' = commandsNow /\ alist' = rest /\ stage' = s /\ verdict' = verdict
  BY DEF GoOn
<1> QED
  BY <1>1 DEF Parsable, ParserOK, ParserTypeOK

(* The first word becomes the name of the first command.                   *)
LEMMA FirstWordStep == Parsable /\ FirstWord => Parsable'
<1> SUFFICES ASSUME Parsable, FirstWord PROVE Parsable'
  OBVIOUS
<1>1. freed \in Seq(Tokens0) /\ verdict = "pending" /\ stage = 0
  BY DEF Parsable, ParserOK, ParserTypeOK, FirstWord
<1>2. CASE notsymbol(word)
  <2> DEFINE c == [new_command(Overwrite(freed, <<word>>)) EXCEPT !.name = word]
  <2>1. word # NULL
    BY <1>2 DEF notsymbol
  <2>2. word \in Tokens /\ Tail(alist) \in Seq(Tokens0) /\ NullTerminated(Tail(alist))
    BY <2>1, FrontOfQueue
  <2>3. <<word>> \in Seq(Tokens0)
    BY <2>2 DEF Tokens0
  <2>4. c \in CommandRecord /\ ~ c.pipe_in /\ ~ c.pipe_out
    BY <1>1, <2>2, <2>3, OverwriteType, NamedCommandType
  <2>5. GoOn(<<c>>, Tail(alist), 1) /\ freed' = <<>>
    BY <1>2 DEF FirstWord
  <2> HIDE DEF c
  <2>6. <<c>> \in Seq(CommandRecord) /\ <<c>> # <<>> /\ Paired(<<c>>)
    BY <2>4 DEF Paired
  <2>7. freed' \in Seq(Tokens0) /\ 1 \in 0 .. 5
    BY <2>5
  <2> QED
    BY <1>1, <2>2, <2>5, <2>6, <2>7, GoOnStep
<1>3. CASE ~ notsymbol(word)
  BY <1>1, <1>3, RejectStep DEF FirstWord
<1> QED
  BY <1>2, <1>3

(* A redirection changes the last command, but none of its pipes.          *)
LEMMA RedirectInStep == Parsable /\ RedirectIn => Parsable'
<1> SUFFICES ASSUME Parsable, RedirectIn PROVE Parsable'
  OBVIOUS
<1>1. /\ verdict = "pending" /\ stage > 0 /\ word # NULL
      /\ ParserOK /\ freed \in Seq(Tokens0)
  BY DEF RedirectIn, Reached, Parsable, ParserOK, ParserTypeOK
<1>2. CASE notsymbol(following)
  <2> DEFINE c == [cmd EXCEPT !.rdr_in = following]
  <2>1. following \in Words /\ following # NULL
    BY <1>1, <1>2, FrontOfQueue, OrdinaryWord
  <2>2. c \in CommandRecord /\ c.pipe_in = cmd.pipe_in /\ c.pipe_out = cmd.pipe_out
    BY <1>1, <2>1, LastCommand DEF CommandRecord
  <2>3. GoOn(Set(c), Behind2, 2) /\ freed' = freed
    BY <1>2 DEF RedirectIn
  <2> HIDE DEF c
  <2>4. Set(c) \in Seq(CommandRecord) /\ Set(c) # <<>> /\ Paired(Set(c))
    BY <1>1, <2>2, LastCommand, SetPaired DEF ParserOK, ParserTypeOK
  <2> QED
    BY <1>1, <2>1, <2>3, <2>4, FrontOfQueue, GoOnStep
<1>3. CASE ~ notsymbol(following)
  BY <1>1, <1>3, LastCommand, RejectStep DEF RedirectIn
<1> QED
  BY <1>2, <1>3
LEMMA RedirectOutStep == Parsable /\ RedirectOut => Parsable'
<1> SUFFICES ASSUME Parsable, RedirectOut PROVE Parsable'
  OBVIOUS
<1>1. /\ verdict = "pending" /\ stage > 0 /\ word # NULL
      /\ ParserOK /\ freed \in Seq(Tokens0)
  BY DEF RedirectOut, Reached, Parsable, ParserOK, ParserTypeOK
<1>2. CASE notsymbol(following)
  <2> DEFINE c == [cmd EXCEPT !.rdr_out = following, !.truncate = @ \/ word = ">"]
  <2>1. following \in Words /\ following # NULL
    BY <1>1, <1>2, FrontOfQueue, OrdinaryWord
  <2>2. c \in CommandRecord /\ c.pipe_in = cmd.pipe_in /\ c.pipe_out = cmd.pipe_out
    BY <1>1, <2>1, LastCommand DEF CommandRecord
  <2>3. GoOn(Set(c), Behind2, 3) /\ freed' = freed
    BY <1>2 DEF RedirectOut
  <2> HIDE DEF c
  <2>4. Set(c) \in Seq(CommandRecord) /\ Set(c) # <<>> /\ Paired(Set(c))
    BY <1>1, <2>2, LastCommand, SetPaired DEF ParserOK, ParserTypeOK
  <2> QED
    BY <1>1, <2>1, <2>3, <2>4, FrontOfQueue, GoOnStep
<1>3. CASE ~ notsymbol(following)
  BY <1>1, <1>3, LastCommand, RejectStep DEF RedirectOut
<1> QED
  BY <1>2, <1>3

(* A pipe adds a command that reads what the last one writes.              *)
LEMMA PipeStep == Parsable /\ Pipe => Parsable'
<1> SUFFICES ASSUME Parsable, Pipe PROVE Parsable'
  OBVIOUS
<1>1. /\ verdict = "pending" /\ stage > 0 /\ word # NULL
      /\ ParserOK /\ freed \in Seq(Tokens0)
  BY DEF Pipe, Reached, Parsable, ParserOK, ParserTypeOK
<1>2. CASE ~ cmd.pipe_in /\ notsymbol(following)
  <2> DEFINE c == [cmd EXCEPT !.pipe_out = TRUE]
             d == [new_command(freed) EXCEPT !.name = following, !.pipe_in = TRUE]
  <2>1. following \in Tokens /\ following # NULL
    BY <1>1, <1>2, FrontOfQueue, OrdinaryWord
  <2>2. c \in CommandRecord /\ c.pipe_in = cmd.pipe_in /\ c.pipe_out = TRUE
    BY <1>1, LastCommand DEF CommandRecord
  <2>3. d \in CommandRecord /\ d.pipe_in = TRUE /\ d.pipe_out = FALSE
    BY <1>1, <2>1, NewCommandType
  <2>4. GoOn(Append(Set(c), d), Behind2, 4) /\ freed' = <<>>
    BY <1>2 DEF Pipe
  <2> HIDE DEF c, d
  <2>5. /\ Append(Set(c), d) \in Seq(CommandRecord)
        /\ Append(Set(c), d) # <<>> /\ Paired(Append(Set(c), d))
    BY <1>1, <1>2, <2>2, <2>3, LastCommand, AppendPaired DEF ParserOK, ParserTypeOK
  <2>6. freed' \in Seq(Tokens0)
    BY <2>4
  <2>7. Behind2 \in Seq(Tokens0) /\ NullTerminated(Behind2) /\ 4 \in 0 .. 5
    BY <1>1, <2>1, FrontOfQueue
  <2> QED
    BY <1>1, <2>4, <2>5, <2>6, <2>7, GoOnStep
<1>3. CASE ~ (~ cmd.pipe_in /\ notsymbol(following))
  BY <1>1, <1>3, LastCommand, RejectStep DEF Pipe
<1> QED
  BY <1>2, <1>3

(* A command behind an & reads from no pipe.                               *)
LEMMA BackgroundStep == Parsable /\ Background => Parsable'
<1> SUFFICES ASSUME Parsable, Background PROVE Parsable'
  OBVIOUS
<1> DEFINE c == [cmd EXCEPT !.background = TRUE]
           d == [new_command(freed) EXCEPT !.name = following]
<1>1. /\ verdict = "pending" /\ stage > 0 /\ word # NULL
      /\ ParserOK /\ freed \in Seq(Tokens0)
  BY DEF Background, Reached, Parsable, ParserOK, ParserTypeOK
<1>2. /\ c \in CommandRecord /\ c.pipe_in = cmd.pipe_in /\ c.pipe_out = cmd.pipe_out
      /\ ~ cmd.pipe_out
  BY <1>1, LastCommand DEF CommandRecord
<1>3. CASE following = NULL
  <2>1. GoOn(Set(c), Tail(alist), 5) /\ freed' = freed
    BY <1>3 DEF Background
  <2> HIDE DEF c
  <2>2. Set(c) \in Seq(CommandRecord) /\ Set(c) # <<>> /\ Paired(Set(c))
    BY <1>1, <1>2, LastCommand, SetPaired DEF ParserOK, ParserTypeOK
  <2>3. Tail(alist) \in Seq(Tokens0) /\ NullTerminated(Tail(alist)) /\ 5 \in 0 .. 5
    BY <1>1, FrontOfQueue
  <2>4. freed' \in Seq(Tokens0)
    BY <1>1, <2>1
  <2> QED
    BY <1>1, <2>1, <2>2, <2>3, <2>4, GoOnStep
<1>4. CASE following # NULL
  <2>1. following \in Tokens
    BY <1>1, <1>4, FrontOfQueue DEF Tokens0
  <2>2. d \in CommandRecord /\ d.pipe_in = FALSE /\ d.pipe_out = FALSE
    BY <1>1, <2>1, NamedCommandType
  <2>3. GoOn(Append(Set(c), d), Behind2, 5) /\ freed' = <<>>
    BY <1>4 DEF Background
  <2> HIDE DEF c, d
  <2>4. /\ Append(Set(c), d) \in Seq(CommandRecord)
        /\ Append(Set(c), d) # <<>> /\ Paired(Append(Set(c), d))
    BY <1>1, <1>2, <2>2, LastCommand, AppendPaired DEF ParserOK, ParserTypeOK
  <2>5. freed' \in Seq(Tokens0)
    BY <2>3
  <2>6. Behind2 \in Seq(Tokens0) /\ NullTerminated(Behind2) /\ 5 \in 0 .. 5
    BY <1>1, <1>4, FrontOfQueue
  <2> QED
    BY <1>1, <2>3, <2>4, <2>5, <2>6, GoOnStep
<1> QED
  BY <1>3, <1>4

(* The NULL behind the last word ends the collection of arguments.         *)
LEMMA CollectStep == Parsable /\ Collect => Parsable'
<1> SUFFICES ASSUME Parsable, Collect PROVE Parsable'
  OBVIOUS
<1>1. /\ verdict = "pending" /\ stage > 0 /\ freed' = freed
      /\ ParserOK /\ freed \in Seq(Tokens0)
      /\ alist \in Seq(Tokens0) /\ NullTerminated(alist)
  BY DEF Collect, Parsable, ParserOK, ParserTypeOK
<1>2. Len(alist) \in Nat
  BY <1>1, LenProperties
<1>3. PICK n \in 0 .. Len(alist) - 1 :
        GoOn(Set([cmd EXCEPT !.args =
                    Overwrite(@, <<cmd.name>> \o SubSeq(alist, 1, n) \o <<NULL>>)]),
             SubSeq(alist, n + 1, Len(alist)), 1)
  BY DEF Collect
<1> DEFINE values == <<cmd.name>> \o SubSeq(alist, 1, n) \o <<NULL>>
           c == [cmd EXCEPT !.args = Overwrite(@, values)]
           rest == SubSeq(alist, n + 1, Len(alist))
<1>4. GoOn(Set(c), rest, 1)
  BY <1>3
<1>5. rest \in Seq(Tokens0) /\ NullTerminated(rest)
  BY <1>1, RestEnds
<1>6. /\ clist # <<>> /\ cmd \in CommandRecord
      /\ cmd.args \in Seq(Tokens0) /\ cmd.name \in Tokens0
  BY <1>1, LastCommand DEF CommandRecord, Tokens0
<1>7. values \in Seq(Tokens0)
  <2>1. \A i \in 1 .. n : alist[i] \in Tokens0
    BY <1>1, <1>2, ElementOfSeq
  <2>2. SubSeq(alist, 1, n) \in Seq(Tokens0)
    BY <1>2, <2>1, SubSeqProperties
  <2>3. <<cmd.name>> \in Seq(Tokens0) /\ <<NULL>> \in Seq(Tokens0)
    BY <1>6 DEF Tokens0
  <2>4. <<cmd.name>> \o SubSeq(alist, 1, n) \in Seq(Tokens0)
    BY <2>2, <2>3, ConcatProperties
  <2> QED
    BY <2>3, <2>4, ConcatProperties
<1> HIDE DEF values, rest
<1>8. Overwrite(cmd.args, values) \in Seq(Tokens0)
  BY <1>6, <1>7, OverwriteType
<1>9. c \in CommandRecord /\ c.pipe_in = cmd.pipe_in /\ c.pipe_out = cmd.pipe_out
  BY <1>6, <1>8 DEF CommandRecord, Tokens0
<1> HIDE DEF c
<1>10. Set(c) \in Seq(CommandRecord) /\ Set(c) # <<>> /\ Paired(Set(c))
  BY <1>1, <1>6, <1>9, SetPaired DEF ParserOK, ParserTypeOK
<1> QED
  BY <1>1, <1>4, <1>5, <1>10, GoOnStep DEF Parsable

LEMMA EndOfLineStep == Parsable /\ EndOfLine => Parsable'
BY DEF Parsable, EndOfLine, ParserOK, ParserTypeOK

(* Every test of the loop leaves the queues as the next one needs them.    *)
LEMMA ParseStepOK == Parsable /\ ParseStep => Parsable'
BY FirstWordStep, RedirectInStep, RedirectOutStep, PipeStep, BackgroundStep,
   CollectStep, EndOfLineStep DEF ParseStep
-----------------------------------------------------------------------------
(* The processes.                                                          *)

(* Who made the pipe that the process has both ends of.                    *)
Owner(p, r) == IF r.pc = "reader" THEN r.parent ELSE p

(* The ends that process p may hold once its pipe is set up.               *)
OwnEnd(p, r, end) ==
  \/ end \in {Terminal, File}
  \/ end = Mouth(p)
  \/ end = Drain(r.parent) /\ r.parent # shell

(* The descriptors of process p, given its record r: between fork and dup2 *)
(* both ends of one pipe, then its own end at most.                        *)
EndsOK(p, r) ==
  /\ r.pc \in ForkLabels =>
       /\ r.pfd = {Drain(Owner(p, r)), Mouth(Owner(p, r))}
       /\ r.in = Terminal /\ r.out = Terminal
  /\ r.pc = "reader" => r.parent # shell
  /\ r.pc \in ShellLabels \cup {"pipe"} =>
       r.pfd = {} /\ r.in = Terminal /\ r.out = Terminal
  /\ r.pc \in RunLabels \cup {"redirect", "exec"} =>
       \A end \in r.pfd \cup {r.in, r.out} : OwnEnd(p, r, end)

(* Whoever is about to take the command behind a pipe finds it.            *)
PlaceOK(r) ==
  /\ r.pc \in {"next", "wait", "pipe"} \cup ForkLabels => r.turn \in DOMAIN commands
  /\ r.pc \in ForkLabels \cup {"pipe"} =>
       /\ r.next \in DOMAIN commands[r.turn]
       /\ commands[r.turn][r.next].pipe_in \/ BehindCd(r.turn, r.next)

RecordOK(p, r) ==
  /\ r \in ProcessRecord
  /\ r.next >= 1
  /\ r.unread + r.behind <= Len(script)
  /\ r.pc \in ShellLabels => p = shell
  /\ p = shell => r.pc \in ShellLabels \cup {"ended"} /\ r.parent # shell
  /\ EndsOK(p, r)
  /\ PlaceOK(r)

ProcsOK ==
  /\ procs \in Seq(ProcessRecord)
  /\ shell \in DOMAIN procs
  /\ full \subseteq DOMAIN procs
  /\ \A p \in DOMAIN procs : RecordOK(p, procs[p])

(* A child of the shell that lives is the one that the shell waits for.    *)
SoleChild ==
  \A p \in DOMAIN procs : procs[p].pc # "ended" /\ procs[p].parent = shell =>
    procs[shell].pc = "wait" /\ procs[shell].child = p

(* A process goes on with another record; the shell's child stays its      *)
(* child or ends.                                                          *)
LEMMA ChangeProcess ==
  ASSUME ProcsOK, SoleChild, NEW p \in DOMAIN procs, NEW r, RecordOK(p, r),
         procs' = [procs EXCEPT ![p] = r],
         UNCHANGED <<script, commands>>, full' \subseteq DOMAIN procs,
         r.pc = "ended" \/ (r.parent = procs[p].parent /\ procs[p].pc # "ended"),
         p # shell
  PROVE  ProcsOK' /\ SoleChild'
<1>1. procs \in Seq(ProcessRecord) /\ r \in ProcessRecord /\ p \in 1 .. Len(procs)
  BY LenProperties DEF ProcsOK, RecordOK
<1>2. /\ procs' \in Seq(ProcessRecord) /\ Len(procs') = Len(procs)
      /\ \A q \in 1 .. Len(procs) : procs'[q] = IF q = p THEN r ELSE procs[q]
  BY <1>1, ExceptSeq
<1>3. DOMAIN procs' = DOMAIN procs /\ DOMAIN procs = 1 .. Len(procs)
  BY <1>1, <1>2, LenProperties
<1>4. \A q \in DOMAIN procs' : procs'[q] = IF q = p THEN r ELSE procs[q]
  BY <1>2, <1>3
<1>5. ProcsOK'
  <2>1. \A q, s : RecordOK(q, s) => RecordOK(q, s)'
    BY DEF RecordOK, EndsOK, PlaceOK, Owner, OwnEnd, BehindCd
  <2>2. ASSUME NEW q \in DOMAIN procs' PROVE RecordOK(q, procs'[q])
    BY <1>3, <1>4 DEF ProcsOK
  <2>3. shell \in DOMAIN procs' /\ full' \subseteq DOMAIN procs'
    BY <1>3 DEF ProcsOK
  <2> QED
    BY <1>2, <2>1, <2>2, <2>3 DEF ProcsOK
<1>6. SoleChild'
  BY <1>3, <1>4 DEF SoleChild, ProcsOK
<1> QED
  BY <1>5, <1>6
(* The same for the shell itself when none of its children lives.          *)
NoChildren ==
  \A q \in DOMAIN procs : procs[q].pc = "ended" \/ procs[q].parent # shell

LEMMA ChangeShell ==
  ASSUME ProcsOK, NoChildren, NEW r, RecordOK(shell, r)',
         procs' = [procs EXCEPT ![shell] = r],
         \A q, s : RecordOK(q, s) => RecordOK(q, s)', UNCHANGED full
  PROVE  ProcsOK' /\ SoleChild'
<1>1. procs \in Seq(ProcessRecord) /\ r \in ProcessRecord /\ shell \in 1 .. Len(procs)
      /\ r.parent # shell
  BY LenProperties DEF ProcsOK, RecordOK
<1>2. /\ procs' \in Seq(ProcessRecord) /\ Len(procs') = Len(procs)
      /\ \A q \in 1 .. Len(procs) : procs'[q] = IF q = shell THEN r ELSE procs[q]
  BY <1>1, ExceptSeq
<1>3. DOMAIN procs' = DOMAIN procs /\ DOMAIN procs = 1 .. Len(procs)
  BY <1>1, <1>2, LenProperties
<1>4. \A q \in DOMAIN procs' : procs'[q] = IF q = shell THEN r ELSE procs[q]
  BY <1>2, <1>3
<1>5. ProcsOK'
  <2>1. ASSUME NEW q \in DOMAIN procs' PROVE RecordOK(q, procs[q])'
    <3>1. CASE q = shell
      BY <1>4, <3>1
    <3>2. CASE q # shell
      BY <1>3, <1>4, <3>2 DEF ProcsOK
    <3> QED
      BY <3>1, <3>2
  <2>2. shell \in DOMAIN procs' /\ full' \subseteq DOMAIN procs'
    BY <1>3 DEF ProcsOK
  <2> QED
    BY <1>2, <2>1, <2>2 DEF ProcsOK
<1>6. SoleChild'
  BY <1>1, <1>3, <1>4 DEF SoleChild, NoChildren
<1> QED
  BY <1>5, <1>6

(* A process forks: the shell when none of its children lives, and then it *)
(* waits for the new one.                                                  *)
LEMMA ForkProcess ==
  ASSUME ProcsOK, SoleChild, NEW p \in DOMAIN procs, NEW memory, NEW here, NEW there,
         Fork(p, memory, here, there), UNCHANGED <<script, commands, full>>,
         RecordOK(p, [memory EXCEPT !.pc = here, !.child = Len(procs) + 1]),
         RecordOK(Len(procs) + 1, [memory EXCEPT !.pc = there, !.parent = p]),
         memory \in ProcessRecord, memory.parent = procs[p].parent,
         procs[p].pc # "ended",
         p = shell => NoChildren /\ here = "wait" /\ memory.parent # shell
  PROVE  ProcsOK' /\ SoleChild'
<1> DEFINE a == [memory EXCEPT !.pc = here, !.child = Len(procs) + 1]
           b == [memory EXCEPT !.pc = there, !.parent = p]
           left == [procs EXCEPT ![p] = a]
           n == Len(procs)
<1>1. procs \in Seq(ProcessRecord) /\ p \in 1 .. n /\ n \in Nat /\ DOMAIN procs = 1 .. n
  BY LenProperties DEF ProcsOK
<1>2. a \in ProcessRecord /\ b \in ProcessRecord
  BY DEF RecordOK
<1>3. /\ a.pc = here /\ a.child = n + 1 /\ a.parent = procs[p].parent
      /\ b.parent = p
  BY DEF ProcessRecord
<1>4. RecordOK(p, a) /\ RecordOK(n + 1, b) /\ procs' = Append(left, b)
  BY DEF Fork
<1> HIDE DEF a, b
<1>5. /\ left \in Seq(ProcessRecord) /\ Len(left) = n
      /\ \A q \in 1 .. n : left[q] = IF q = p THEN a ELSE procs[q]
  BY <1>1, <1>2, ExceptSeq
<1> HIDE DEF left
<1>6. /\ procs' \in Seq(ProcessRecord) /\ Len(procs') = n + 1
      /\ \A q \in 1 .. n : procs'[q] = left[q]
      /\ procs'[n + 1] = b
  BY <1>2, <1>4, <1>5, AppendProperties
<1>7. /\ DOMAIN procs' = 1 .. n + 1
      /\ \A q \in 1 .. n : procs'[q] = IF q = p THEN a ELSE procs[q]
  BY <1>5, <1>6, LenProperties
<1> HIDE DEF n
<1>8. /\ \A q \in 1 .. n + 1 : q \in 1 .. n \/ q = n + 1
      /\ 1 .. n \subseteq 1 .. n + 1 /\ n + 1 # p /\ n + 1 # shell
      /\ shell \in 1 .. n
  BY <1>1 DEF shell
<1>9. ProcsOK'
  <2>1. \A q, s : RecordOK(q, s) => RecordOK(q, s)'
    BY DEF RecordOK, EndsOK, PlaceOK, Owner, OwnEnd, BehindCd
  <2>2. ASSUME NEW q \in DOMAIN procs' PROVE RecordOK(q, procs'[q])
    <3>1. CASE q = n + 1
      BY <1>4, <1>6, <3>1
    <3>2. CASE q = p
      BY <1>1, <1>4, <1>7, <3>2
    <3>3. CASE q \in 1 .. n /\ q # p
      BY <1>1, <1>7, <3>3 DEF ProcsOK
    <3> QED
      BY <1>7, <1>8, <3>1, <3>2, <3>3
  <2>3. shell \in DOMAIN procs' /\ full' \subseteq DOMAIN procs'
    BY <1>1, <1>7, <1>8 DEF ProcsOK
  <2> QED
    BY <1>6, <2>1, <2>2, <2>3 DEF ProcsOK
<1>10. SoleChild'
  <2> SUFFICES ASSUME NEW q \in DOMAIN procs', procs'[q].pc # "ended", procs'[q].parent = shell
               PROVE  procs'[shell].pc = "wait" /\ procs'[shell].child = q
    BY DEF SoleChild
  <2>1. CASE p = shell
    <3>1. q = n + 1
      BY <1>1, <1>3, <1>7, <1>8, <2>1 DEF NoChildren
    <3> QED
      BY <1>1, <1>3, <1>7, <2>1, <3>1
  <2>2. CASE p # shell
    <3>1. q \in 1 .. n /\ procs'[shell] = procs[shell]
      BY <1>3, <1>6, <1>7, <1>8, <2>2
    <3>2. procs[q].pc # "ended" /\ procs[q].parent = shell
      BY <1>3, <1>7, <3>1
    <3> QED
      BY <1>1, <3>1, <3>2 DEF SoleChild
  <2> QED
    BY <2>1, <2>2
<1> QED
  BY <1>9, <1>10
-----------------------------------------------------------------------------
(* The steps of a child.                                                   *)

LEMMA ChildRecord ==
  ASSUME ProcsOK, NEW p \in DOMAIN procs,
         procs[p].pc \in ForkLabels \cup ChildLabels \cup RunLabels
  PROVE  /\ p # shell /\ procs[p].pc # "ended" /\ procs[p] \in ProcessRecord
         /\ RecordOK(p, procs[p]) /\ p \in Nat /\ procs[p].parent \in Nat
         /\ procs[p].turn \in Nat /\ procs[p].next \in Nat
<1>1. RecordOK(p, procs[p]) /\ p \in Nat
  BY LenProperties DEF ProcsOK
<1>2. p # shell /\ procs[p].pc # "ended"
  BY <1>1 DEF RecordOK, ForkLabels, ChildLabels, RunLabels, ShellLabels
<1>3. procs[p] \in ProcessRecord
  BY <1>1 DEF RecordOK
<1> QED
  BY <1>1, <1>2, <1>3 DEF ProcessRecord

LEMMA EndedRecord ==
  ASSUME ProcsOK, NEW p, script \in Seq(Seq(Tokens))
  PROVE  RecordOK(p, Ended) /\ Ended.parent # shell /\ Ended.pc = "ended"
<1>1. Ended \in ProcessRecord /\ Ended.pc = "ended" /\ Ended.next = 1 /\ Ended.unread = 0
      /\ Ended.behind = 0
      /\ Ended.parent = 0
  BY DEF Ended, NewProcess, ProcessRecord, Labels, Descriptors, Ends
<1>2. Len(script) \in Nat
  BY LenProperties
<1> QED
  BY <1>1, <1>2 DEF RecordOK, EndsOK, PlaceOK, ShellLabels, ForkLabels, RunLabels, shell

(* A child may end anywhere.                                               *)
LEMMA EndStep ==
  ASSUME ProcsOK, SoleChild, script \in Seq(Seq(Tokens)),
         NEW p \in DOMAIN procs, p # shell, End(p),
         UNCHANGED <<script, commands>>, full' \subseteq DOMAIN procs
  PROVE  ProcsOK' /\ SoleChild'
<1>1. RecordOK(p, Ended) /\ Ended.pc = "ended"
  BY EndedRecord
<1>2. procs' = [procs EXCEPT ![p] = Ended]
  BY DEF End
<1> QED
  BY <1>1, <1>2, ChangeProcess

(* The ends of a process's pipe.                                           *)
LEMMA EndTypes ==
  ASSUME NEW k \in Nat
  PROVE  /\ Drain(k) \in Ends /\ Mouth(k) \in Ends
         /\ Drain(k) \in Descriptors /\ Mouth(k) \in Descriptors
         /\ Terminal \in Descriptors /\ File \in Descriptors
         /\ Drain(k) # Mouth(k)
BY DEF Drain, Mouth, Ends, Descriptors

LEMMA MakePipeStep ==
  ASSUME ProcsOK, SoleChild, NEW p \in DOMAIN procs, MakePipe(p)
  PROVE  ProcsOK' /\ SoleChild'
<1> DEFINE r == [procs[p] EXCEPT !.pfd = {Drain(p), Mouth(p)}, !.pc = "fork"]
<1>1. procs[p].pc = "pipe" /\ procs' = [procs EXCEPT ![p] = r]
  BY DEF MakePipe, At
<1>2. /\ p # shell /\ RecordOK(p, procs[p]) /\ p \in Nat
      /\ procs[p] \in ProcessRecord
  BY <1>1, ChildRecord DEF ChildLabels
<1>3. r \in ProcessRecord
  <2>1. {Drain(p), Mouth(p)} \in SUBSET Ends /\ "fork" \in Labels
    BY <1>2, EndTypes DEF Labels, ForkLabels
  <2> QED
    BY <1>2, <2>1 DEF ProcessRecord
<1>4. /\ r.pc = "fork" /\ r.pfd = {Drain(p), Mouth(p)} /\ r.parent = procs[p].parent
      /\ r.in = procs[p].in /\ r.out = procs[p].out /\ r.turn = procs[p].turn
      /\ r.next = procs[p].next /\ r.unread = procs[p].unread /\ r.behind = procs[p].behind
  BY <1>2 DEF ProcessRecord
<1> HIDE DEF r
<1>5. EndsOK(p, r)
  BY <1>1, <1>2, <1>4 DEF RecordOK, EndsOK, Owner, ForkLabels, RunLabels, ShellLabels
<1>6. PlaceOK(r)
  BY <1>1, <1>2, <1>4 DEF RecordOK, PlaceOK, ForkLabels
<1>7. RecordOK(p, r)
  BY <1>2, <1>3, <1>4, <1>5, <1>6 DEF RecordOK, ShellLabels
<1> QED
  BY <1>1, <1>2, <1>4, <1>7, ChangeProcess DEF MakePipe, scriptVars, runVars, ProcsOK

LEMMA ForkReaderStep ==
  ASSUME ProcsOK, SoleChild, NEW p \in DOMAIN procs, ForkReader(p)
  PROVE  ProcsOK' /\ SoleChild'
<1> DEFINE m == procs[p]
           n == Len(procs) + 1
           a == [m EXCEPT !.pc = "writer", !.child = n]
           b == [m EXCEPT !.pc = "reader", !.parent = p]
<1>1. m.pc = "fork" /\ Fork(p, m, "writer", "reader")
  BY DEF ForkReader, At
<1>2. /\ p # shell /\ RecordOK(p, m) /\ p \in Nat /\ m \in ProcessRecord
      /\ n \in Nat
  BY <1>1, ChildRecord, LenProperties DEF ForkLabels, ProcsOK
<1>3. a \in ProcessRecord /\ b \in ProcessRecord
  BY <1>2 DEF ProcessRecord, Labels, ForkLabels
<1>4. /\ a.pc = "writer" /\ a.pfd = m.pfd /\ a.in = m.in /\ a.out = m.out
      /\ a.turn = m.turn /\ a.next = m.next /\ a.unread = m.unread /\ a.behind = m.behind
      /\ b.pc = "reader" /\ b.pfd = m.pfd /\ b.in = m.in /\ b.out = m.out
      /\ b.turn = m.turn /\ b.next = m.next /\ b.unread = m.unread /\ b.behind = m.behind
      /\ b.parent = p
  BY <1>2 DEF ProcessRecord
<1>5. m.pfd = {Drain(p), Mouth(p)} /\ m.in = Terminal /\ m.out = Terminal
  BY <1>1, <1>2 DEF RecordOK, EndsOK, Owner, ForkLabels
<1> HIDE DEF a, b, n
<1>6. EndsOK(p, a) /\ EndsOK(n, b)
  BY <1>2, <1>4, <1>5 DEF EndsOK, Owner, ForkLabels, RunLabels, ShellLabels
<1>7. PlaceOK(a) /\ PlaceOK(b)
  BY <1>1, <1>2, <1>4 DEF RecordOK, PlaceOK, ForkLabels
<1>8. n # shell
  BY LenProperties DEF n, ProcsOK, shell
<1>9. RecordOK(p, a) /\ RecordOK(n, b)
  BY <1>2, <1>3, <1>4, <1>6, <1>7, <1>8 DEF RecordOK, ShellLabels
<1> QED
  BY <1>1, <1>2, <1>9, ForkProcess DEF a, b, n, ForkReader, scriptVars, runVars, ProcsOK
LEMMA BecomeWriterStep ==
  ASSUME ProcsOK, SoleChild, NEW p \in DOMAIN procs, BecomeWriter(p)
  PROVE  ProcsOK' /\ SoleChild'
<1> DEFINE r == [procs[p] EXCEPT !.pfd = @ \ {Drain(p)}, !.out = Mouth(p),
                                 !.pc = "redirect"]
<1>1. procs[p].pc = "writer" /\ procs' = [procs EXCEPT ![p] = r]
  BY DEF BecomeWriter, At
<1>2. /\ p # shell /\ RecordOK(p, procs[p]) /\ p \in Nat
      /\ procs[p] \in ProcessRecord
  BY <1>1, ChildRecord DEF ForkLabels
<1>3. procs[p].pfd = {Drain(p), Mouth(p)} /\ procs[p].in = Terminal
  BY <1>1, <1>2 DEF RecordOK, EndsOK, Owner, ForkLabels
<1>4. /\ r.pc = "redirect" /\ r.pfd \subseteq {Mouth(p)} /\ r.parent = procs[p].parent
      /\ r.in = Terminal /\ r.out = Mouth(p)
      /\ r.next = procs[p].next /\ r.unread = procs[p].unread /\ r.behind = procs[p].behind
  BY <1>2, <1>3 DEF ProcessRecord
<1>5. r \in ProcessRecord
  <2>1. procs[p].pfd \ {Drain(p)} \in SUBSET Ends
    BY <1>2 DEF ProcessRecord
  <2>2. Mouth(p) \in Descriptors /\ "redirect" \in Labels
    BY <1>2, EndTypes DEF Labels, ChildLabels
  <2> QED
    BY <1>2, <2>1, <2>2 DEF ProcessRecord
<1> HIDE DEF r
<1>6. EndsOK(p, r)
  BY <1>4 DEF EndsOK, OwnEnd, ForkLabels, ShellLabels
<1>7. PlaceOK(r)
  BY <1>4 DEF PlaceOK, ForkLabels
<1>8. RecordOK(p, r)
  BY <1>2, <1>4, <1>5, <1>6, <1>7 DEF RecordOK, ShellLabels
<1> QED
  BY <1>1, <1>2, <1>4, <1>8, ChangeProcess DEF BecomeWriter, scriptVars, runVars, ProcsOK

LEMMA ExitStep ==
  ASSUME ProcsOK, SoleChild, script \in Seq(Seq(Tokens)),
         NEW p \in DOMAIN procs, p # shell, Exit(p),
         UNCHANGED <<script, commands, full>>
  PROVE  ProcsOK' /\ SoleChild'
BY EndStep DEF Exit, ProcsOK

LEMMA BecomeReaderStep ==
  ASSUME ProcsOK, SoleChild, script \in Seq(Seq(Tokens)),
         NEW p \in DOMAIN procs, BecomeReader(p)
  PROVE  ProcsOK' /\ SoleChild'
<1> DEFINE k == procs[p].parent
           i == procs[p].next
           r == [procs[p] EXCEPT !.pfd = @ \ {Mouth(k)}, !.in = Drain(k),
                                 !.c = i, !.next = i + 1, !.pc = "redirect"]
<1>1. procs[p].pc = "reader"
  BY DEF BecomeReader, At
<1>2. /\ p # shell /\ RecordOK(p, procs[p]) /\ k \in Nat /\ i \in Nat
      /\ procs[p] \in ProcessRecord
  BY <1>1, ChildRecord DEF ForkLabels
<1>3. CASE Command(p, i).pipe_in
  <2>1. procs' = [procs EXCEPT ![p] = r]
    BY <1>3 DEF BecomeReader
  <2>2. procs[p].pfd = {Drain(k), Mouth(k)} /\ procs[p].out = Terminal /\ k # shell
    BY <1>1, <1>2 DEF RecordOK, EndsOK, Owner, ForkLabels
  <2>3. /\ r.pc = "redirect" /\ r.pfd \subseteq {Drain(k)} /\ r.parent = k
        /\ r.in = Drain(k) /\ r.out = Terminal
        /\ r.next = i + 1 /\ r.unread = procs[p].unread /\ r.behind = procs[p].behind
    BY <1>2, <2>2 DEF ProcessRecord
  <2>4. r \in ProcessRecord
    <3>1. procs[p].pfd \ {Mouth(k)} \in SUBSET Ends
      BY <1>2 DEF ProcessRecord
    <3>2. Drain(k) \in Descriptors /\ "redirect" \in Labels
      BY <1>2, EndTypes DEF Labels, ChildLabels
    <3>3. i + 1 \in Nat
      BY <1>2
    <3> QED
      BY <1>2, <3>1, <3>2, <3>3 DEF ProcessRecord
  <2> HIDE DEF r
  <2>5. EndsOK(p, r)
    BY <2>2, <2>3 DEF EndsOK, OwnEnd, ForkLabels, ShellLabels
  <2>6. PlaceOK(r)
    BY <2>3 DEF PlaceOK, ForkLabels
  <2>7. RecordOK(p, r)
    BY <1>2, <2>3, <2>4, <2>5, <2>6 DEF RecordOK, ShellLabels
  <2> QED
    BY <1>1, <1>2, <2>1, <2>3, <2>7, ChangeProcess
    DEF BecomeReader, scriptVars, runVars, ProcsOK
<1>4. CASE ~ Command(p, i).pipe_in
  BY <1>2, <1>4, ExitStep DEF BecomeReader, scriptVars, runVars
<1> QED
  BY <1>3, <1>4

LEMMA RedirectStep ==
  ASSUME ProcsOK, SoleChild, NEW p \in DOMAIN procs, Redirect(p)
  PROVE  ProcsOK' /\ SoleChild'
<1>1. procs[p].pc = "redirect"
  BY DEF Redirect, At
<1>2. /\ p # shell /\ RecordOK(p, procs[p])
      /\ procs[p] \in ProcessRecord
  BY <1>1, ChildRecord DEF ChildLabels
<1>3. PICK in \in {File, procs[p].in}, out \in {File, procs[p].out} :
        procs' = [procs EXCEPT ![p].in = in, ![p].out = out, ![p].pc = "exec"]
  BY DEF Redirect, OpenedOr
<1> DEFINE r == [procs[p] EXCEPT !.in = in, !.out = out, !.pc = "exec"]
<1>4. procs' = [procs EXCEPT ![p] = r]
  BY <1>3
<1>5. /\ r.pc = "exec" /\ r.pfd = procs[p].pfd /\ r.parent = procs[p].parent
      /\ r.in = in /\ r.out = out
      /\ r.next = procs[p].next /\ r.unread = procs[p].unread /\ r.behind = procs[p].behind
  BY <1>2 DEF ProcessRecord
<1>6. r \in ProcessRecord
  <2>1. in \in Descriptors /\ out \in Descriptors /\ "exec" \in Labels
    BY <1>2 DEF ProcessRecord, Descriptors, Labels, ChildLabels
  <2> QED
    BY <1>2, <2>1 DEF ProcessRecord
<1> HIDE DEF r
<1>7. EndsOK(p, r)
  <2>1. \A end \in procs[p].pfd \cup {procs[p].in, procs[p].out} : OwnEnd(p, procs[p], end)
    BY <1>1, <1>2 DEF RecordOK, EndsOK
  <2>2. \A end : OwnEnd(p, procs[p], end) => OwnEnd(p, r, end)
    BY <1>5 DEF OwnEnd
  <2>3. \A end \in r.pfd \cup {r.in, r.out} :
          end = File \/ end \in procs[p].pfd \cup {procs[p].in, procs[p].out}
    BY <1>5
  <2>4. \A end \in r.pfd \cup {r.in, r.out} : OwnEnd(p, r, end)
    BY <2>1, <2>2, <2>3 DEF OwnEnd
  <2> QED
    BY <1>5, <2>4 DEF EndsOK, ForkLabels, ShellLabels
<1>8. PlaceOK(r)
  BY <1>5 DEF PlaceOK, ForkLabels
<1>9. RecordOK(p, r)
  BY <1>2, <1>5, <1>6, <1>7, <1>8 DEF RecordOK, ShellLabels
<1> QED
  BY <1>1, <1>2, <1>4, <1>5, <1>9, ChangeProcess DEF Redirect, scriptVars, runVars, ProcsOK

(* A command that has begun changes its habits at most.                    *)
LEMMA RunStep ==
  ASSUME ProcsOK, SoleChild, NEW p \in DOMAIN procs,
         procs[p].pc \in {"exec"} \cup RunLabels,
         NEW h \in {"brief", "filter", "endless", "pause"}, NEW pc \in RunLabels,
         procs' = [procs EXCEPT ![p] = [procs[p] EXCEPT !.habit = h, !.pc = pc]],
         UNCHANGED <<script, commands>>, full' \subseteq DOMAIN procs
  PROVE  ProcsOK' /\ SoleChild'
<1>1. /\ p # shell /\ RecordOK(p, procs[p]) /\ procs[p].pc # "ended"
      /\ procs[p] \in ProcessRecord
  BY ChildRecord DEF ChildLabels
<1> DEFINE r == [procs[p] EXCEPT !.habit = h, !.pc = pc]
<1>2. /\ r.pc = pc /\ r.pfd = procs[p].pfd /\ r.parent = procs[p].parent
      /\ r.in = procs[p].in /\ r.out = procs[p].out
      /\ r.next = procs[p].next /\ r.unread = procs[p].unread /\ r.behind = procs[p].behind
  BY <1>1 DEF ProcessRecord
<1>3. r \in ProcessRecord
  BY <1>1 DEF ProcessRecord, Labels
<1>4. procs' = [procs EXCEPT ![p] = r]
  OBVIOUS
<1> HIDE DEF r
<1>5. EndsOK(p, r)
  <2>1. \A end \in procs[p].pfd \cup {procs[p].in, procs[p].out} : OwnEnd(p, procs[p], end)
    BY <1>1 DEF RecordOK, EndsOK
  <2>2. \A end : OwnEnd(p, procs[p], end) => OwnEnd(p, r, end)
    BY <1>2 DEF OwnEnd
  <2> QED
    BY <1>2, <2>1, <2>2 DEF EndsOK, ForkLabels, ShellLabels, RunLabels
<1>6. PlaceOK(r)
  BY <1>2 DEF PlaceOK, ForkLabels, RunLabels
<1>7. RecordOK(p, r)
  BY <1>1, <1>2, <1>3, <1>5, <1>6 DEF RecordOK, ShellLabels, RunLabels
<1> QED
  BY <1>1, <1>2, <1>4, <1>7, ChangeProcess
LEMMA ExecStep ==
  ASSUME ProcsOK, SoleChild, script \in Seq(Seq(Tokens)),
         NEW p \in DOMAIN procs, Exec(p)
  PROVE  ProcsOK' /\ SoleChild'
<1>1. /\ procs[p].pc = "exec" /\ UNCHANGED <<script, commands, full>>
      /\ full' \subseteq DOMAIN procs
  BY DEF Exec, At, scriptVars, ProcsOK
<1>2. CASE Current(p).name \in Internal \cup Programs
  <2>1. PICK h \in Habits(p) :
          procs' = [procs EXCEPT ![p].habit = h, ![p].pc =
            IF Current(p).name \in Internal THEN "internal" ELSE "program"]
    BY <1>2 DEF Exec
  <2>2. h \in {"brief", "filter", "endless", "pause"}
    BY DEF Habits
  <2>3. PICK pc \in RunLabels : pc = IF Current(p).name \in Internal THEN "internal" ELSE "program"
    BY DEF RunLabels
  <2>4. procs' = [procs EXCEPT ![p] = [procs[p] EXCEPT !.habit = h, !.pc = pc]]
    BY <2>1, <2>3
  <2> QED
    BY <1>1, <2>2, <2>4, RunStep
<1>3. CASE Current(p).name \notin Internal \cup Programs
  <2>1. p # shell
    BY <1>1, ChildRecord DEF ChildLabels
  <2> QED
    BY <1>1, <1>3, <2>1, ExitStep DEF Exec
<1> QED
  BY <1>2, <1>3

(* Nothing happens to the processes.                                       *)
LEMMA NoProcess ==
  ASSUME ProcsOK, SoleChild, UNCHANGED <<script, commands, procs>>,
         full' \subseteq DOMAIN procs
  PROVE  ProcsOK' /\ SoleChild'
<1>1. \A q, s : RecordOK(q, s) => RecordOK(q, s)'
  BY DEF RecordOK, EndsOK, PlaceOK, Owner, OwnEnd, BehindCd
<1> QED
  BY <1>1 DEF ProcsOK, SoleChild

(* A process that has a mouth for its output made that pipe itself.        *)
LEMMA WriteStep ==
  ASSUME ProcsOK, SoleChild, script \in Seq(Seq(Tokens)),
         NEW p \in DOMAIN procs, Write(p)
  PROVE  ProcsOK' /\ SoleChild'
<1>1. /\ procs[p].pc \in RunLabels /\ procs[p].out[1] = "mouth"
      /\ UNCHANGED <<script, commands>>
  BY DEF Write, Runs, RunLabels, ToPipe, scriptVars, runVars
<1>2. p # shell /\ RecordOK(p, procs[p])
  BY <1>1, ChildRecord
<1>3. OwnEnd(p, procs[p], procs[p].out)
  BY <1>1, <1>2 DEF RecordOK, EndsOK
<1>4. procs[p].out = Mouth(p)
  BY <1>1, <1>3 DEF OwnEnd, Terminal, File, Drain
<1>5. procs[p].out[2] = p
  BY <1>4 DEF Mouth
<1>6. CASE End(p) /\ UNCHANGED full
  BY <1>1, <1>2, <1>6, EndStep DEF ProcsOK
<1>7. CASE full' = full \cup {p} /\ UNCHANGED procs
  <2>1. full' \subseteq DOMAIN procs
    BY <1>7 DEF ProcsOK
  <2> QED
    BY <1>1, <1>7, <2>1, NoProcess
<1> QED
  BY <1>5, <1>6, <1>7 DEF Write

LEMMA ReadStep ==
  ASSUME ProcsOK, SoleChild, NEW p \in DOMAIN procs, Read(p)
  PROVE  ProcsOK' /\ SoleChild'
<1>1. /\ procs[p].pc \in RunLabels /\ UNCHANGED <<script, commands>>
      /\ full' \subseteq DOMAIN procs
  BY DEF Read, Runs, RunLabels, scriptVars, runVars, ProcsOK
<1>2. CASE procs[p].habit = "pause"
  <2>1. PICK h \in {"pause", "brief"} : procs' = [procs EXCEPT ![p].habit = h]
    BY <1>2 DEF Read
  <2>2. procs[p] \in ProcessRecord
    BY <1>1, ChildRecord
  <2>3. PICK pc \in RunLabels : pc = procs[p].pc
    BY <1>1
  <2>4. [procs[p] EXCEPT !.habit = h] = [procs[p] EXCEPT !.habit = h, !.pc = pc]
    BY <2>2, <2>3 DEF ProcessRecord
  <2>5. procs' = [procs EXCEPT ![p] = [procs[p] EXCEPT !.habit = h, !.pc = pc]]
    BY <2>1, <2>4
  <2>6. h \in {"brief", "filter", "endless", "pause"}
    OBVIOUS
  <2> QED
    BY <1>1, <2>5, <2>6, RunStep
<1>3. CASE UNCHANGED procs
  BY <1>1, <1>3, NoProcess
<1> QED
  BY <1>2, <1>3 DEF Read

LEMMA FinishStep ==
  ASSUME ProcsOK, SoleChild, script \in Seq(Seq(Tokens)),
         NEW p \in DOMAIN procs, Finish(p)
  PROVE  ProcsOK' /\ SoleChild'
<1>1. p # shell
  BY ChildRecord DEF Finish, Runs, RunLabels
<1>2. UNCHANGED <<script, commands, full>> /\ full' \subseteq DOMAIN procs
  BY DEF Finish, scriptVars, runVars, ProcsOK
<1> QED
  BY <1>1, <1>2, EndStep, ExitStep DEF Finish

(* No step of a child disturbs the processes.                              *)
LEMMA ChildStep ==
  ASSUME ProcsOK, SoleChild, script \in Seq(Seq(Tokens)), NEW p \in DOMAIN procs,
         Child(p) \/ Write(p) \/ Read(p) \/ Finish(p)
  PROVE  ProcsOK' /\ SoleChild'
BY MakePipeStep, ForkReaderStep, BecomeWriterStep, BecomeReaderStep, RedirectStep,
   ExecStep, WriteStep, ReadStep, FinishStep DEF Child
-----------------------------------------------------------------------------
(* The lines, and the histories.                                           *)

InputTypeOK ==
  /\ script \in Seq(Seq(Tokens))
  /\ ahead \in 0 .. Len(script)
  /\ line \in Seq(Tokens)
  /\ lines \in Seq(Seq(Tokens))

HistoryTypeOK ==
  /\ commands \in Seq(Seq(CommandRecord))
  /\ ran \in Seq(Seq(Nat))
  /\ Len(ran) = Len(commands)
  /\ \A t \in DOMAIN ran : DOMAIN ran[t] = DOMAIN commands[t]

CommandsPaired == \A t \in DOMAIN commands : Paired(commands[t])

(* A line of the script that has been counted from its end.                *)
LEMMA LineAtType ==
  ASSUME script \in Seq(Seq(Tokens)), NEW n \in 1 .. Len(script)
  PROVE  LineAt(n) \in Seq(Tokens)
<1>1. Len(script) - n + 1 \in 1 .. Len(script)
  BY LenProperties
<1> QED
  BY <1>1, ElementOfSeq DEF LineAt

LEMMA GlueType ==
  ASSUME NEW first \in Seq(Tokens), NEW second \in Seq(Tokens)
  PROVE  Glue(first, second) \in Seq(Tokens)
<1>1. CASE second = <<>>
  BY <1>1 DEF Glue
<1>2. CASE second # <<>>
  <2>1. Len(first) \in Nat /\ \A i \in 1 .. Len(first) - 1 : first[i] \in Tokens
    BY LenProperties, ElementOfSeq
  <2>2. SubSeq(first, 1, Len(first) - 1) \in Seq(Tokens)
    BY <2>1, SubSeqProperties
  <2>3. <<Glued>> \in Seq(Tokens)
    BY ScriptAssumption DEF Tokens
  <2>4. Tail(second) \in Seq(Tokens)
    BY <1>2, HeadTailProperties
  <2>5. SubSeq(first, 1, Len(first) - 1) \o <<Glued>> \in Seq(Tokens)
    BY <2>2, <2>3, ConcatProperties
  <2> QED
    BY <1>2, <2>4, <2>5, ConcatProperties DEF Glue
<1> QED
  BY <1>1, <1>2

(* What the shell has of the file in its buffer and behind it is in it.    *)
BufferOK ==
  /\ procs[shell].unread \in Nat /\ procs[shell].behind \in Nat
  /\ procs[shell].unread + procs[shell].behind <= Len(script)

(* Where fgets finds the next line, h lines from the end of the file: in   *)
(* the buffer or in a block that it reads, u lines with b lines behind; the *)
(* next read of the descriptor gets what is r lines from the end.          *)
Finds(h, u, b, r) ==
  \/ /\ u > 0 /\ u = procs[shell].unread /\ b = procs[shell].behind
     /\ h = b + u /\ r = ahead
  \/ /\ procs[shell].unread = 0
     /\ h = ahead /\ u = Block(ahead) /\ b = ahead - u /\ r = ahead - u

Gets(h, u, b, r) ==
  \/ h = 0 /\ fgets = Text(line, 0, 0, 0, TRUE)
  \/ h > 0 /\ (terminated \/ h # 1) /\ fgets = Text(LineAt(h), u - 1, b, r, FALSE)
  \/ ~ terminated /\ h = 1 /\ r = 0 /\ fgets = Text(LineAt(h), 0, 0, 0, TRUE)
  \/ /\ ~ terminated /\ h = 1 /\ r > 0
     /\ fgets = Text(Glue(LineAt(h), LineAt(r)), Block(r) - 1, r - Block(r), r - Block(r),
                     r = 1)

LEMMA BlockType ==
  ASSUME NEW n \in Nat
  PROVE  Block(n) \in 0 .. n /\ (n > 0 => Block(n) > 0)
         /\ (n <= BufferLines => Block(n) = n)
BY ScriptAssumption DEF Block

LEMMA FgetsCases ==
  ASSUME InputTypeOK, BufferOK
  PROVE  \E h \in Nat, u \in Nat, b \in Nat, r \in Nat : Finds(h, u, b, r) /\ Gets(h, u, b, r)
<1> DEFINE inside == procs[shell].unread > 0
           h == IF inside THEN procs[shell].behind + procs[shell].unread ELSE ahead
           u == IF inside THEN procs[shell].unread ELSE Block(ahead)
           b == IF inside THEN procs[shell].behind ELSE ahead - Block(ahead)
           r == IF inside THEN ahead ELSE ahead - Block(ahead)
           open == ~ terminated /\ h = 1
<1>1. fgets = CASE h = 0            -> Text(line, 0, 0, 0, TRUE)
                [] h > 0 /\ ~ open  -> Text(LineAt(h), u - 1, b, r, FALSE)
                [] open /\ r = 0    -> Text(LineAt(h), 0, 0, 0, TRUE)
                [] open /\ r > 0    ->
                     Text(Glue(LineAt(h), LineAt(r)), Block(r) - 1, r - Block(r),
                          r - Block(r), r = 1)
  BY Zenon DEF fgets
<1>2. ahead \in Nat /\ Block(ahead) \in 0 .. ahead
  BY BlockType, LenProperties DEF InputTypeOK
<1>3. h \in Nat /\ u \in Nat /\ b \in Nat /\ r \in Nat
  BY <1>2 DEF BufferOK
<1>4. Finds(h, u, b, r)
  BY <1>2 DEF BufferOK, Finds
<1> HIDE DEF inside, h, u, b, r
<1>5. \/ h = 0
      \/ h > 0 /\ (terminated \/ h # 1) /\ ~ open
      \/ open /\ r = 0 /\ ~ (r > 0) /\ h = 1 /\ ~ terminated
      \/ open /\ r > 0 /\ r # 0 /\ h = 1 /\ ~ terminated
  BY <1>3
<1>6. (h = 0 <=> ~ (h > 0)) /\ (h = 1 => h # 0)
  BY <1>3
<1>7. open <=> ~ terminated /\ h = 1
  OBVIOUS
<1> HIDE DEF open
<1>8. Gets(h, u, b, r)
  <2>1. CASE h = 0
    <3>1. ~ open
      BY <1>6, <1>7, <2>1
    <3>2. fgets = Text(line, 0, 0, 0, TRUE)
      BY <1>1, <1>6, <2>1, <3>1
    <3> QED
      BY <2>1, <3>2 DEF Gets
  <2>2. CASE h > 0 /\ (terminated \/ h # 1) /\ ~ open
    <3>1. fgets = Text(LineAt(h), u - 1, b, r, FALSE)
      BY <1>1, <1>6, <2>2
    <3> QED
      BY <2>2, <3>1 DEF Gets
  <2>3. CASE open /\ r = 0 /\ ~ (r > 0) /\ h = 1 /\ ~ terminated
    <3>1. fgets = Text(LineAt(h), 0, 0, 0, TRUE)
      BY <1>1, <1>6, <2>3
    <3> QED
      BY <2>3, <3>1 DEF Gets
  <2>4. CASE open /\ r > 0 /\ r # 0 /\ h = 1 /\ ~ terminated
    <3>1. fgets = Text(Glue(LineAt(h), LineAt(r)), Block(r) - 1, r - Block(r),
                       r - Block(r), r = 1)
      BY <1>1, <1>6, <2>4
    <3> QED
      BY <2>4, <3>1 DEF Gets
  <2> QED
    BY <1>5, <2>1, <2>2, <2>3, <2>4
<1> QED
  BY <1>3, <1>4, <1>8

(* What fgets returns is a line, and it leaves no more than there is.      *)
LEMMA FgetsType ==
  ASSUME InputTypeOK, BufferOK
  PROVE  /\ fgets.text \in Seq(Tokens) /\ fgets.eof \in BOOLEAN
         /\ fgets.unread \in Nat /\ fgets.behind \in Nat
         /\ fgets.unread + fgets.behind <= Len(script)
         /\ fgets.rest \in 0 .. Len(script)
<1> DEFINE TypeOf(t) == /\ t.text \in Seq(Tokens) /\ t.eof \in BOOLEAN
                        /\ t.unread \in Nat /\ t.behind \in Nat
                        /\ t.unread + t.behind <= Len(script)
                        /\ t.rest \in 0 .. Len(script)
<1>1. PICK h \in Nat, u \in Nat, b \in Nat, r \in Nat : Finds(h, u, b, r) /\ Gets(h, u, b, r)
  BY FgetsCases
<1>2. /\ Len(script) \in Nat /\ ahead \in 0 .. Len(script)
      /\ script \in Seq(Seq(Tokens)) /\ line \in Seq(Tokens)
  BY LenProperties DEF InputTypeOK
<1>3. Block(ahead) \in 0 .. ahead /\ (ahead > 0 => Block(ahead) > 0)
  BY <1>2, BlockType
<1>4. /\ h \in 0 .. Len(script) /\ r \in 0 .. Len(script)
      /\ u + b <= Len(script) /\ (h > 0 => u > 0)
  BY <1>1, <1>2, <1>3 DEF Finds, BufferOK
<1>5. TypeOf(Text(line, 0, 0, 0, TRUE))
  BY <1>2 DEF Text
<1>6. h > 0 => TypeOf(Text(LineAt(h), u - 1, b, r, FALSE))
  <2>1. h > 0 => LineAt(h) \in Seq(Tokens)
    BY <1>2, <1>4, LineAtType
  <2>2. h > 0 => u - 1 \in Nat /\ u - 1 + b <= Len(script)
    BY <1>2, <1>4
  <2> QED
    BY <1>4, <2>1, <2>2 DEF Text
<1>7. h = 1 => TypeOf(Text(LineAt(h), 0, 0, 0, TRUE))
  BY <1>2, <1>4, LineAtType DEF Text
<1>8. ASSUME h = 1, r > 0
      PROVE  TypeOf(Text(Glue(LineAt(h), LineAt(r)), Block(r) - 1, r - Block(r), r - Block(r),
                         r = 1))
  <2>1. LineAt(h) \in Seq(Tokens) /\ LineAt(r) \in Seq(Tokens)
    BY <1>2, <1>4, <1>8, LineAtType
  <2>2. Glue(LineAt(h), LineAt(r)) \in Seq(Tokens)
    BY <2>1, GlueType
  <2>3. Block(r) \in 0 .. r /\ Block(r) > 0
    BY <1>8, BlockType
  <2>4. PICK n \in Nat : n = Len(script) /\ r \in 1 .. n
    BY <1>2, <1>4, <1>8
  <2>5. PICK k \in 1 .. n : k = Block(r) /\ k <= r
    BY <2>3, <2>4
  <2>6. k - 1 \in Nat /\ r - k \in 0 .. n /\ k - 1 + (r - k) <= n /\ (r = 1) \in BOOLEAN
    BY <2>4, <2>5
  <2> QED
    BY <2>2, <2>4, <2>5, <2>6 DEF Text
<1> HIDE DEF TypeOf
<1>9. TypeOf(fgets)
  BY <1>1, <1>5, <1>6, <1>7, <1>8 DEF Gets
<1> QED
  BY <1>9 DEF TypeOf

(* exit moves the offset of the file by no more than the file is long.     *)
LEMMA ExitInput ==
  ASSUME InputTypeOK, NEW p, procs[p].unread \in Nat, Exit(p),
         UNCHANGED <<script, line, lines>>
  PROVE  InputTypeOK'
<1>1. Len(script) \in Nat /\ ahead \in 0 .. Len(script)
  BY LenProperties DEF InputTypeOK
<1>2. ahead' \in 0 .. Len(script)
  BY <1>1 DEF Exit
<1> QED
  BY <1>2 DEF InputTypeOK

(* tokenize leaves the first word of a line at most.                       *)
LEMMA TokenizeInput ==
  ASSUME InputTypeOK, NEW text \in Seq(Tokens), Tokenize(text),
         ahead' \in 0 .. Len(script), UNCHANGED script
  PROVE  InputTypeOK'
<1> DEFINE n == IF text = <<>> THEN 0 ELSE 1
<1>1. n \in Nat /\ n <= Len(text)
  BY LenProperties, LongSeq
<1>2. \A i \in 1 .. n : text[i] \in Tokens
  BY <1>1, LenProperties, ElementOfSeq
<1> HIDE DEF n
<1>3. SubSeq(text, 1, n) \in Seq(Tokens)
  BY <1>1, <1>2, SubSeqProperties
<1>4. line' = SubSeq(text, 1, n) /\ lines' = Append(lines, text)
  BY DEF Tokenize, n
<1>5. lines' \in Seq(Seq(Tokens))
  BY <1>4, AppendProperties DEF InputTypeOK
<1> QED
  BY <1>3, <1>4, <1>5 DEF InputTypeOK

LEMMA InputStep == InputTypeOK /\ ProcsOK /\ [Next]_vars => InputTypeOK'
<1> SUFFICES ASSUME InputTypeOK, ProcsOK, [Next]_vars PROVE InputTypeOK'
  OBVIOUS
<1>1. ASSUME UNCHANGED script, UNCHANGED inputVars PROVE InputTypeOK'
  BY <1>1 DEF InputTypeOK, inputVars
<1>2. ASSUME NEW p \in DOMAIN procs PROVE procs[p].unread \in Nat
  BY DEF ProcsOK, RecordOK, ProcessRecord
<1>3. BufferOK /\ Len(script) \in Nat
  BY <1>2, LenProperties DEF BufferOK, ProcsOK, RecordOK, ProcessRecord, InputTypeOK
<1>4. CASE ReadTerminal
  <2>1. LineAt(ahead) \in Seq(Tokens) /\ ahead - 1 \in 0 .. Len(script)
    BY <1>3, <1>4, LineAtType DEF ReadTerminal, InputTypeOK
  <2> QED
    BY <1>4, <2>1, TokenizeInput DEF ReadTerminal, scriptVars
<1>5. CASE ReadFile
  <2>1. fgets.text \in Seq(Tokens) /\ fgets.rest \in 0 .. Len(script)
    BY <1>3, FgetsType
  <2> QED
    BY <1>5, <2>1, TokenizeInput DEF ReadFile, scriptVars
<1>6. CASE EndOfFile \/ Parse \/ Parsed
  BY <1>1, <1>6 DEF EndOfFile, Parse, Parsed, scriptVars
<1>7. ASSUME NEW p \in DOMAIN procs,
             Return(p) \/ ForkCommand(p) \/ Wait(p) \/ MakePipe(p) \/ ForkReader(p)
               \/ BecomeWriter(p) \/ Redirect(p) \/ Write(p) \/ Read(p)
      PROVE  InputTypeOK'
  BY <1>1, <1>7 DEF Return, ForkCommand, Wait, MakePipe, ForkReader, BecomeWriter,
     Redirect, Write, Read, scriptVars
<1>8. ASSUME NEW p \in DOMAIN procs, Quit(p) \/ BecomeReader(p) \/ Exec(p) \/ Finish(p)
      PROVE  InputTypeOK'
  <2>1. UNCHANGED <<script, line, lines>>
    BY <1>8 DEF Quit, BecomeReader, Exec, Finish, scriptVars
  <2>2. Exit(p) \/ UNCHANGED ahead
    BY <1>8 DEF Quit, BecomeReader, Exec, Finish
  <2>3. CASE Exit(p)
    BY <1>2, <2>1, <2>3, ExitInput
  <2>4. CASE UNCHANGED ahead
    BY <1>1, <2>1, <2>4 DEF inputVars
  <2> QED
    BY <2>2, <2>3, <2>4
<1>9. CASE UNCHANGED vars
  BY <1>1, <1>9 DEF vars, scriptVars, inputVars
<1> QED
  BY <1>4, <1>5, <1>6, <1>7, <1>8, <1>9 DEF Next, Main, Execute, Child
(* Counting what was carried out changes no domain.                        *)
LEMMA CarriedOutHistory ==
  ASSUME HistoryTypeOK, NEW p, NEW i, CarriedOut(p, i), UNCHANGED commands
  PROVE  HistoryTypeOK'
<1> DEFINE t == procs[p].turn
           row == [ran[t] EXCEPT ![i] = @ + 1]
<1>1. /\ ran \in Seq(Seq(Nat)) /\ DOMAIN ran = 1 .. Len(ran)
      /\ ran' = [ran EXCEPT ![t] = row]
  BY LenProperties DEF HistoryTypeOK, CarriedOut
<1>2. CASE t \notin DOMAIN ran
  <2>1. ran' = ran
    BY <1>1, <1>2
  <2> QED
    BY <2>1 DEF HistoryTypeOK
<1>3. CASE t \in DOMAIN ran
  <2>1. ran[t] \in Seq(Nat) /\ DOMAIN ran[t] = 1 .. Len(ran[t])
    BY <1>1, <1>3, ElementOfSeq, LenProperties
  <2>2. row \in Seq(Nat) /\ DOMAIN row = DOMAIN ran[t]
    <3>1. CASE i \in DOMAIN ran[t]
      <4>1. ran[t][i] + 1 \in Nat
        <5>1. PICK c \in Nat : c = ran[t][i]
          BY <2>1, <3>1, ElementOfSeq
        <5> QED
          BY <5>1
      <4>2. row = [ran[t] EXCEPT ![i] = ran[t][i] + 1]
        OBVIOUS
      <4> HIDE DEF row
      <4>3. row \in Seq(Nat) /\ Len(row) = Len(ran[t])
        BY <2>1, <3>1, <4>1, <4>2, ExceptSeq
      <4> QED
        BY <2>1, <4>3, LenProperties
    <3>2. CASE i \notin DOMAIN ran[t]
      <4>1. row = ran[t]
        <5>1. PICK s \in Seq(Nat) : s = ran[t]
          BY <2>1
        <5>2. [s EXCEPT ![i] = @ + 1] = s
          BY <3>2, <5>1
        <5> QED
          BY <5>1, <5>2
      <4> QED
        BY <2>1, <4>1
    <3> QED
      BY <3>1, <3>2
  <2> HIDE DEF row
  <2>3. /\ ran' \in Seq(Seq(Nat)) /\ Len(ran') = Len(ran)
        /\ \A u \in 1 .. Len(ran) : ran'[u] = IF u = t THEN row ELSE ran[u]
    BY <1>1, <1>3, <2>2, ExceptSeq
  <2>4. DOMAIN ran' = 1 .. Len(ran)
    BY <2>3, LenProperties
  <2>5. \A u \in DOMAIN ran' : DOMAIN ran'[u] = DOMAIN commands'[u]
    BY <1>1, <2>2, <2>3, <2>4 DEF HistoryTypeOK
  <2> QED
    BY <2>3, <2>5 DEF HistoryTypeOK
<1> QED
  BY <1>2, <1>3

(* A parsed line is added to both.                                         *)
LEMMA ParsedHistory ==
  ASSUME HistoryTypeOK, CommandsPaired, ParserOK, Parsed
  PROVE  HistoryTypeOK' /\ CommandsPaired'
<1> DEFINE row == [i \in DOMAIN clist |-> 0]
           n == Len(commands)
<1>1. /\ commands' = Append(commands, clist) /\ ran' = Append(ran, row)
      /\ clist \in Seq(CommandRecord) /\ Paired(clist)
      /\ commands \in Seq(Seq(CommandRecord)) /\ ran \in Seq(Seq(Nat))
      /\ Len(ran) = n
  BY DEF Parsed, ParserOK, ParserTypeOK, HistoryTypeOK
<1>2. row \in Seq(Nat) /\ DOMAIN row = DOMAIN clist
  <2>1. DOMAIN clist = 1 .. Len(clist) /\ Len(clist) \in Nat
    BY <1>1, LenProperties
  <2> QED
    BY <2>1
<1> HIDE DEF row
<1>3. /\ commands' \in Seq(Seq(CommandRecord)) /\ Len(commands') = n + 1
      /\ \A t \in 1 .. n : commands'[t] = commands[t]
      /\ commands'[n + 1] = clist
  BY <1>1, AppendProperties
<1>4. /\ ran' \in Seq(Seq(Nat)) /\ Len(ran') = n + 1
      /\ \A t \in 1 .. n : ran'[t] = ran[t]
      /\ ran'[n + 1] = row
  BY <1>1, <1>2, AppendProperties
<1>5. /\ DOMAIN ran = 1 .. n /\ DOMAIN commands = 1 .. n /\ n \in Nat
      /\ DOMAIN ran' = 1 .. n + 1 /\ DOMAIN commands' = 1 .. n + 1
  BY <1>1, <1>3, <1>4, LenProperties
<1> HIDE DEF n
<1>6. \A t \in 1 .. n + 1 : t \in 1 .. n \/ t = n + 1
  BY <1>5
<1>7. HistoryTypeOK'
  <2>1. \A t \in 1 .. n + 1 : DOMAIN ran'[t] = DOMAIN commands'[t]
    BY <1>2, <1>3, <1>4, <1>5, <1>6 DEF HistoryTypeOK
  <2> QED
    BY <1>3, <1>4, <1>5, <2>1 DEF HistoryTypeOK
<1>8. ASSUME NEW t \in DOMAIN commands' PROVE Paired(commands'[t])
  BY <1>1, <1>3, <1>5, <1>6 DEF CommandsPaired
<1> QED
  BY <1>7, <1>8 DEF CommandsPaired, Paired

LEMMA HistoryStep ==
  HistoryTypeOK /\ CommandsPaired /\ ParserOK /\ [Next]_vars
    => HistoryTypeOK' /\ CommandsPaired'
<1> SUFFICES ASSUME HistoryTypeOK, CommandsPaired, ParserOK, [Next]_vars
             PROVE  HistoryTypeOK' /\ CommandsPaired'
  OBVIOUS
<1>1. ASSUME UNCHANGED commands, UNCHANGED ran \/ \E p, i : CarriedOut(p, i)
      PROVE  HistoryTypeOK' /\ CommandsPaired'
  <2>1. CommandsPaired'
    BY <1>1 DEF CommandsPaired, Paired
  <2>2. CASE UNCHANGED ran
    BY <1>1, <2>1, <2>2 DEF HistoryTypeOK
  <2>3. CASE \E p, i : CarriedOut(p, i)
    BY <1>1, <2>1, <2>3, CarriedOutHistory
  <2> QED
    BY <1>1, <2>2, <2>3
<1>2. CASE Parsed
  BY <1>2, ParsedHistory
<1>3. CASE ReadTerminal \/ ReadFile \/ EndOfFile \/ Parse
  BY <1>1, <1>3 DEF ReadTerminal, ReadFile, EndOfFile, Parse, runVars
<1>4. ASSUME NEW p \in DOMAIN procs,
             Wait(p) \/ MakePipe(p) \/ ForkReader(p) \/ BecomeWriter(p) \/ BecomeReader(p)
               \/ Redirect(p) \/ Write(p) \/ Read(p) \/ Finish(p)
      PROVE  HistoryTypeOK' /\ CommandsPaired'
  BY <1>1, <1>4 DEF Wait, MakePipe, ForkReader, BecomeWriter, BecomeReader, Redirect,
     Write, Read, Finish, runVars
<1>5. ASSUME NEW p \in DOMAIN procs,
             Return(p) \/ Quit(p) \/ ForkCommand(p) \/ Exec(p)
      PROVE  HistoryTypeOK' /\ CommandsPaired'
  <2>1. UNCHANGED commands
    BY <1>5 DEF Return, Quit, ForkCommand, Exec
  <2>2. ChangesDirectory(p) \/ Attempts(p)
    BY <1>5 DEF Return, Quit, ForkCommand, Exec
  <2>3. UNCHANGED ran \/ \E i : CarriedOut(p, i)
    BY <2>2 DEF ChangesDirectory, Attempts
  <2> QED
    BY <1>1, <2>1, <2>3
<1>6. CASE UNCHANGED vars
  BY <1>1, <1>6 DEF vars, runVars
<1> QED
  BY <1>2, <1>3, <1>4, <1>5, <1>6 DEF Next, Main, Execute, Child
-----------------------------------------------------------------------------
(* The steps of the shell itself.                                          *)

LEMMA ShellRecord ==
  ASSUME ProcsOK
  PROVE  /\ shell \in DOMAIN procs /\ RecordOK(shell, procs[shell])
         /\ procs[shell] \in ProcessRecord /\ procs[shell].parent # shell
BY DEF ProcsOK, RecordOK

(* Only a waiting shell has a child.                                       *)
LEMMA NotWaiting ==
  ASSUME ProcsOK, SoleChild, procs[shell].pc # "wait"
  PROVE  NoChildren
BY DEF SoleChild, NoChildren

(* The commands of earlier lines stay where they are.                      *)
LEMMA GrowOK ==
  ASSUME HistoryTypeOK, ParserOK, UNCHANGED script,
         UNCHANGED commands \/ commands' = Append(commands, clist)
  PROVE  \A q, s : RecordOK(q, s) => RecordOK(q, s)'
<1>1. /\ DOMAIN commands \subseteq DOMAIN commands'
      /\ \A t \in DOMAIN commands : commands'[t] = commands[t]
  <2>1. CASE UNCHANGED commands
    BY <2>1
  <2>2. CASE commands' = Append(commands, clist)
    <3>1. commands \in Seq(Seq(CommandRecord)) /\ clist \in Seq(CommandRecord)
      BY DEF HistoryTypeOK, ParserOK, ParserTypeOK
    <3>2. /\ commands' \in Seq(Seq(CommandRecord)) /\ Len(commands') = Len(commands) + 1
          /\ \A t \in 1 .. Len(commands) : commands'[t] = commands[t]
      BY <2>2, <3>1, AppendProperties
    <3>3. /\ DOMAIN commands = 1 .. Len(commands) /\ Len(commands) \in Nat
          /\ DOMAIN commands' = 1 .. Len(commands) + 1
      BY <3>1, <3>2, LenProperties
    <3> QED
      BY <3>2, <3>3
  <2> QED
    BY <2>1, <2>2
<1>2. \A s : PlaceOK(s) => PlaceOK(s)'
  BY <1>1 DEF PlaceOK, BehindCd
<1> QED
  BY <1>2 DEF RecordOK, EndsOK, Owner, OwnEnd

(* The shell goes on to another place in its loop.                         *)
LEMMA ShellMoves ==
  ASSUME ProcsOK, NoChildren, HistoryTypeOK, ParserOK,
         procs[shell].pc \in ShellLabels,
         NEW r \in ProcessRecord, r.pc \in ShellLabels,
         r.pc \in {"next", "wait"} => r.turn \in DOMAIN commands',
         r.next >= 1, r.unread + r.behind <= Len(script),
         r.pfd = procs[shell].pfd, r.in = procs[shell].in, r.out = procs[shell].out,
         r.parent = procs[shell].parent,
         procs' = [procs EXCEPT ![shell] = r], UNCHANGED <<script, full>>,
         UNCHANGED commands \/ commands' = Append(commands, clist)
  PROVE  ProcsOK' /\ SoleChild'
<1>1. RecordOK(shell, procs[shell])
  BY ShellRecord
<1>2. EndsOK(shell, r)'
  BY <1>1 DEF RecordOK, EndsOK, Owner, OwnEnd, ShellLabels, ForkLabels, RunLabels
<1>3. PlaceOK(r)'
  BY DEF PlaceOK, ShellLabels, ForkLabels
<1>4. RecordOK(shell, r)'
  BY <1>1, <1>2, <1>3 DEF RecordOK
<1>5. \A q, s : RecordOK(q, s) => RecordOK(q, s)'
  BY GrowOK
<1> QED
  BY <1>4, <1>5, ChangeShell

LEMMA ReadStepOK ==
  ASSUME ProcsOK, SoleChild, HistoryTypeOK, ParserOK, InputTypeOK,
         ReadTerminal \/ ReadFile
  PROVE  ProcsOK' /\ SoleChild'
<1> DEFINE s == procs[shell]
<1>1. s.pc = "read" /\ UNCHANGED <<script, commands, full>>
  BY DEF ReadTerminal, ReadFile, scriptVars, runVars
<1>2. NoChildren /\ s \in ProcessRecord /\ RecordOK(shell, s)
  BY <1>1, NotWaiting, ShellRecord
<1>3. /\ Len(script) \in Nat /\ s.next >= 1 /\ s.unread + s.behind <= Len(script)
      /\ BufferOK
  BY <1>2, LenProperties DEF BufferOK, RecordOK, ProcessRecord, InputTypeOK
<1>4. s.pc \in ShellLabels /\ "parse" \in ShellLabels /\ "parse" \in Labels
  BY <1>1 DEF ShellLabels, Labels
<1>5. CASE ReadTerminal
  <2> DEFINE r == [s EXCEPT !.pc = "parse"]
  <2>1. procs' = [procs EXCEPT ![shell] = r]
    BY <1>5 DEF ReadTerminal, Goto
  <2>2. /\ r \in ProcessRecord /\ r.pc = "parse" /\ r.next = s.next /\ r.unread = s.unread
        /\ r.behind = s.behind
        /\ r.pfd = s.pfd /\ r.in = s.in /\ r.out = s.out /\ r.parent = s.parent
    BY <1>2, <1>4 DEF ProcessRecord
  <2>3. r.next >= 1 /\ r.unread + r.behind <= Len(script)
    BY <1>3, <2>2
  <2> HIDE DEF r
  <2> QED
    BY <1>1, <1>2, <1>4, <2>1, <2>2, <2>3, ShellMoves
<1>6. CASE ReadFile
  <2> DEFINE r == [s EXCEPT !.pc = "parse", !.unread = fgets.unread,
                      !.behind = fgets.behind, !.eof = fgets.eof]
  <2>1. procs' = [procs EXCEPT ![shell] = r]
    BY <1>6 DEF ReadFile
  <2>2. /\ fgets.unread \in Nat /\ fgets.behind \in Nat /\ fgets.eof \in BOOLEAN
        /\ fgets.unread + fgets.behind <= Len(script)
    BY <1>3, FgetsType
  <2>3. /\ r \in ProcessRecord /\ r.pc = "parse" /\ r.next = s.next
        /\ r.unread = fgets.unread /\ r.behind = fgets.behind
        /\ r.pfd = s.pfd /\ r.in = s.in /\ r.out = s.out /\ r.parent = s.parent
    BY <1>2, <1>4, <2>2 DEF ProcessRecord
  <2> HIDE DEF r
  <2> QED
    BY <1>1, <1>2, <1>3, <1>4, <2>1, <2>2, <2>3, ShellMoves
<1> QED
  BY <1>5, <1>6

LEMMA ParsedStep ==
  ASSUME ProcsOK, SoleChild, HistoryTypeOK, ParserOK, Parsed
  PROVE  ProcsOK' /\ SoleChild'
<1> DEFINE s == procs[shell]
           pc == IF verdict = "parsed" THEN "next" ELSE "read"
           turn == Len(commands) + 1
           r == [s EXCEPT !.pc = pc, !.turn = turn, !.next = 1]
<1>1. s.pc = "parse" /\ UNCHANGED <<script, full>> /\ commands' = Append(commands, clist)
  BY DEF Parsed, scriptVars
<1>2. NoChildren /\ s \in ProcessRecord /\ RecordOK(shell, s)
  BY <1>1, NotWaiting, ShellRecord
<1>3. procs' = [procs EXCEPT ![shell] = r]
  BY DEF Parsed
<1>4. turn \in Nat /\ turn \in DOMAIN commands'
  <2>1. commands \in Seq(Seq(CommandRecord)) /\ clist \in Seq(CommandRecord)
    BY DEF HistoryTypeOK, ParserOK, ParserTypeOK
  <2>2. /\ commands' \in Seq(Seq(CommandRecord)) /\ Len(commands') = turn
        /\ Len(commands) \in Nat
    BY <1>1, <2>1, AppendProperties, LenProperties
  <2> QED
    BY <2>2, LenProperties
<1>5. pc \in {"next", "read"} /\ pc \in ShellLabels /\ pc \in Labels /\ s.pc \in ShellLabels
  BY <1>1 DEF ShellLabels, Labels
<1> HIDE DEF pc, turn
<1>6. /\ r \in ProcessRecord /\ r.pc = pc /\ r.turn = turn /\ r.next = 1
      /\ r.unread = s.unread /\ r.behind = s.behind
      /\ r.pfd = s.pfd /\ r.in = s.in /\ r.out = s.out /\ r.parent = s.parent
  BY <1>2, <1>4, <1>5 DEF ProcessRecord
<1>7. r.unread + r.behind <= Len(script) /\ r.next >= 1
  BY <1>2, <1>6 DEF RecordOK
<1> HIDE DEF r
<1> QED
  BY <1>1, <1>2, <1>3, <1>4, <1>5, <1>6, <1>7, ShellMoves

(* The shell returns to the prompt, or finds its child ended.              *)
LEMMA GotoStep ==
  ASSUME ProcsOK, NoChildren, HistoryTypeOK, ParserOK,
         procs[shell].pc \in {"next", "wait"}, NEW label \in {"read", "next"},
         Goto(shell, label), UNCHANGED <<script, commands, full>>
  PROVE  ProcsOK' /\ SoleChild'
<1> DEFINE s == procs[shell]
           r == [s EXCEPT !.pc = label]
<1>1. s \in ProcessRecord /\ RecordOK(shell, s)
  BY ShellRecord
<1>2. procs' = [procs EXCEPT ![shell] = r]
  BY DEF Goto
<1>3. s.turn \in DOMAIN commands /\ s.unread + s.behind <= Len(script) /\ s.next >= 1
  BY <1>1 DEF RecordOK, PlaceOK
<1>4. label \in ShellLabels /\ label \in Labels /\ s.pc \in ShellLabels
  BY DEF ShellLabels, Labels
<1>5. /\ r \in ProcessRecord /\ r.pc = label /\ r.turn = s.turn /\ r.next = s.next
      /\ r.unread = s.unread /\ r.behind = s.behind
      /\ r.pfd = s.pfd /\ r.in = s.in /\ r.out = s.out /\ r.parent = s.parent
  BY <1>1, <1>4 DEF ProcessRecord
<1> HIDE DEF r
<1> QED
  BY <1>2, <1>3, <1>4, <1>5, ShellMoves

(* The shell ends when none of its children lives.                         *)
LEMMA ShellEnds ==
  ASSUME ProcsOK, NoChildren, InputTypeOK, End(shell), UNCHANGED <<script, commands, full>>
  PROVE  ProcsOK' /\ SoleChild'
<1>1. RecordOK(shell, Ended)
  BY EndedRecord DEF InputTypeOK
<1>2. \A q, s : RecordOK(q, s) => RecordOK(q, s)'
  BY DEF RecordOK, EndsOK, PlaceOK, Owner, OwnEnd, BehindCd
<1>3. procs' = [procs EXCEPT ![shell] = Ended]
  BY DEF End
<1>4. RecordOK(shell, Ended)'
  BY <1>1 DEF RecordOK, EndsOK, PlaceOK, Owner, OwnEnd, BehindCd, Ended, NewProcess
<1> QED
  BY <1>2, <1>3, <1>4, ChangeShell
(* The commands of a line are paired: whoever comes behind a command that  *)
(* writes to a pipe reads from it.                                         *)
LEMMA Followed ==
  ASSUME HistoryTypeOK, CommandsPaired, NEW t \in DOMAIN commands,
         NEW i \in DOMAIN commands[t], commands[t][i].pipe_out
  PROVE  i + 1 \in DOMAIN commands[t] /\ commands[t][i + 1].pipe_in
<1>1. commands[t] \in Seq(CommandRecord) /\ Paired(commands[t])
  BY LenProperties, ElementOfSeq DEF HistoryTypeOK, CommandsPaired
<1>2. DOMAIN commands[t] = 1 .. Len(commands[t]) /\ Len(commands[t]) \in Nat
  BY <1>1, LenProperties
<1>3. i < Len(commands[t]) /\ commands[t][i + 1].pipe_in
  BY <1>1 DEF Paired
<1> QED
  BY <1>2, <1>3

(* The command forked for is in the queue; behind a pipe, the front of the *)
(* queue is then the reading command, or the writing one itself after cd.  *)
LEMMA ForkedCommand ==
  ASSUME ProcsOK, HistoryTypeOK, CommandsPaired, NEW p \in DOMAIN procs,
         procs[p].pc = "next", ~ Exhausted(p), ~ Quits(p)
  PROVE  LET t == procs[p].turn
             next == IF IsFed(p) THEN procs[p].next + 2 ELSE procs[p].next + 1
         IN  /\ t \in DOMAIN commands /\ Forked(p) \in Nat
             /\ next \in Nat /\ next >= 1
             /\ Command(p, Forked(p)).pipe_out =>
                  /\ next \in DOMAIN commands[t]
                  /\ commands[t][next].pipe_in \/ BehindCd(t, next)
<1> DEFINE t == procs[p].turn
           n == procs[p].next
           next == IF IsFed(p) THEN n + 2 ELSE n + 1
<1>1. RecordOK(p, procs[p]) /\ t \in DOMAIN commands
  BY DEF ProcsOK, RecordOK, PlaceOK
<1>2. n \in Nat /\ n >= 1
  BY <1>1 DEF RecordOK, ProcessRecord
<1>3. /\ commands[t] \in Seq(CommandRecord)
      /\ DOMAIN commands[t] = 1 .. Len(commands[t]) /\ Len(commands[t]) \in Nat
  BY <1>1, LenProperties, ElementOfSeq DEF HistoryTypeOK
<1>4. Forked(p) <= Len(commands[t]) /\ AfterCd(p) <= Len(commands[t])
  BY <1>2, <1>3 DEF Exhausted, Forked, AfterCd, Taken, Count
<1>5. Forked(p) \in Nat /\ Forked(p) \in DOMAIN commands[t]
  BY <1>2, <1>3, <1>4 DEF Forked, AfterCd, Taken
<1>6. ASSUME Command(p, Forked(p)).pipe_out
      PROVE  /\ next \in DOMAIN commands[t]
             /\ commands[t][next].pipe_in \/ BehindCd(t, next)
  <2>1. commands[t][Forked(p)].pipe_out
    BY <1>6 DEF Command
  <2>2. Forked(p) + 1 \in DOMAIN commands[t] /\ commands[t][Forked(p) + 1].pipe_in
    BY <1>1, <1>5, <2>1, Followed
  <2>3. CASE IsFed(p)
    <3>1. next = Forked(p) + 1
      BY <1>2, <2>3 DEF Forked, Taken
    <3> QED
      BY <2>2, <3>1
  <2>4. CASE ~ IsFed(p) /\ ~ IsCd(p)
    <3>1. next = Forked(p) + 1
      BY <1>2, <2>4 DEF Forked, AfterCd, Taken
    <3> QED
      BY <2>2, <3>1
  <2>5. CASE ~ IsFed(p) /\ IsCd(p)
    <3>1. next = Forked(p) /\ next = n + 1
      BY <1>2, <2>5 DEF Forked, AfterCd, Taken
    <3>2. commands[t][n].name = "cd"
      BY <2>5 DEF IsCd, Command, Taken
    <3>3. n + 1 > 1 /\ (n + 1) - 1 = n
      BY <1>2
    <3>4. BehindCd(t, next)
      BY <3>1, <3>2, <3>3 DEF BehindCd
    <3> QED
      BY <1>5, <3>1, <3>4
  <2> QED
    BY <2>3, <2>4, <2>5
<1>7. next \in Nat /\ next >= 1
  BY <1>2
<1> QED
  BY <1>1, <1>5, <1>6, <1>7

LEMMA ForkCommandStep ==
  ASSUME ProcsOK, SoleChild, HistoryTypeOK, CommandsPaired,
         NEW p \in DOMAIN procs, ForkCommand(p)
  PROVE  ProcsOK' /\ SoleChild'
<1> DEFINE s == procs[p]
           next == IF IsFed(p) THEN s.next + 2 ELSE s.next + 1
           m == [s EXCEPT !.c = Forked(p), !.next = next]
           there == IF Command(p, Forked(p)).pipe_out THEN "pipe" ELSE "redirect"
           n == Len(procs) + 1
           a == [m EXCEPT !.pc = "wait", !.child = n]
           b == [m EXCEPT !.pc = there, !.parent = p]
<1>1. /\ s.pc = "next" /\ ~ Exhausted(p) /\ ~ Quits(p)
      /\ UNCHANGED <<script, commands, full>>
  BY DEF ForkCommand, At, scriptVars
<1>2. Fork(p, m, "wait", there)
  BY DEF ForkCommand
<1>3. RecordOK(p, s) /\ p = shell /\ s \in ProcessRecord /\ s.parent # shell
  BY <1>1, ShellRecord DEF ProcsOK, RecordOK, ShellLabels
<1>4. /\ s.turn \in DOMAIN commands /\ Forked(p) \in Nat /\ next \in Nat /\ next >= 1
      /\ there = "pipe" =>
           /\ next \in DOMAIN commands[s.turn]
           /\ commands[s.turn][next].pipe_in \/ BehindCd(s.turn, next)
  BY <1>1, ForkedCommand
<1>5. there \in {"pipe", "redirect"} /\ there \in Labels /\ "wait" \in Labels
  BY DEF Labels, ChildLabels, ShellLabels
<1>6. NoChildren /\ n \in Nat /\ n # shell
  <2>1. NoChildren
    BY <1>1, <1>3, NotWaiting
  <2>2. Len(procs) \in Nat /\ DOMAIN procs = 1 .. Len(procs) /\ shell \in DOMAIN procs
    BY LenProperties DEF ProcsOK
  <2> QED
    BY <2>1, <2>2 DEF shell
<1>7. s.pfd = {} /\ s.in = Terminal /\ s.out = Terminal /\ s.unread + s.behind <= Len(script)
  BY <1>1, <1>3 DEF RecordOK, EndsOK, ShellLabels
<1> HIDE DEF next, there, n
<1>8. /\ m \in ProcessRecord /\ m.parent = s.parent /\ m.next = next /\ m.turn = s.turn
      /\ m.pfd = {} /\ m.in = Terminal /\ m.out = Terminal /\ m.unread = s.unread
      /\ m.behind = s.behind
  BY <1>3, <1>4, <1>7 DEF ProcessRecord
<1> HIDE DEF m
<1>9. /\ a \in ProcessRecord /\ a.pc = "wait" /\ a.parent = s.parent /\ a.next = next
      /\ a.turn = s.turn /\ a.unread = s.unread /\ a.behind = s.behind
      /\ a.pfd = {} /\ a.in = Terminal /\ a.out = Terminal
  BY <1>5, <1>6, <1>8 DEF ProcessRecord
<1>10. /\ b \in ProcessRecord /\ b.pc = there /\ b.parent = p /\ b.next = next
       /\ b.turn = s.turn /\ b.unread = s.unread /\ b.behind = s.behind
       /\ b.pfd = {} /\ b.in = Terminal /\ b.out = Terminal
  <2>1. p \in Nat
    BY <1>3 DEF shell
  <2> QED
    BY <1>5, <1>8, <2>1 DEF ProcessRecord
<1> HIDE DEF a, b
<1>11. RecordOK(p, a)
  <2>1. EndsOK(p, a) /\ PlaceOK(a)
    BY <1>4, <1>9 DEF EndsOK, PlaceOK, OwnEnd, ForkLabels, RunLabels, ShellLabels
  <2> QED
    BY <1>3, <1>4, <1>7, <1>9, <2>1 DEF RecordOK, ShellLabels
<1>12. RecordOK(n, b)
  <2>1. EndsOK(n, b)
    BY <1>5, <1>10 DEF EndsOK, OwnEnd, ForkLabels, RunLabels, ShellLabels
  <2>2. PlaceOK(b)
    BY <1>4, <1>5, <1>10 DEF PlaceOK, ForkLabels
  <2> QED
    BY <1>4, <1>5, <1>6, <1>7, <1>10, <2>1, <2>2 DEF RecordOK, ShellLabels
<1> QED
  BY <1>1, <1>2, <1>3, <1>6, <1>8, <1>11, <1>12, ForkProcess DEF a, b, n
-----------------------------------------------------------------------------
(* All steps.                                                              *)

(* The inductive invariant.  The parser's queues are sound, the lines and  *)
(* the histories typed; each process stands where it may, with the ends of *)
(* pipes that belong there; and the shell has one child at most.           *)
IInv ==
  /\ ParserOK
  /\ InsideLine
  /\ InputTypeOK
  /\ HistoryTypeOK
  /\ CommandsPaired
  /\ ProcsOK
  /\ SoleChild

(* Whoever is in the loop of executecmd is the shell.                      *)
LEMMA InLoop ==
  ASSUME ProcsOK, NEW p \in DOMAIN procs, procs[p].pc \in {"next", "wait"}
  PROVE  p = shell
BY DEF ProcsOK, RecordOK, ShellLabels

LEMMA ProcsStep == IInv /\ [Next]_vars => ProcsOK' /\ SoleChild'
<1> SUFFICES ASSUME IInv, [Next]_vars PROVE ProcsOK' /\ SoleChild'
  OBVIOUS
<1> USE DEF IInv
<1>1. CASE ReadTerminal \/ ReadFile
  BY <1>1, ReadStepOK
<1>2. CASE EndOfFile
  <2>1. End(shell) /\ NoChildren /\ UNCHANGED <<script, commands, full>>
    BY <1>2, NotWaiting DEF EndOfFile, scriptVars, runVars
  <2> QED
    BY <2>1, ShellEnds
<1>3. CASE Parse \/ UNCHANGED vars
  BY <1>3, NoProcess DEF Parse, vars, scriptVars, runVars, ProcsOK
<1>4. CASE Parsed
  BY <1>4, ParsedStep
<1>5. ASSUME NEW p \in DOMAIN procs, Return(p) \/ Wait(p)
      PROVE  ProcsOK' /\ SoleChild'
  <2>1. /\ p = shell /\ procs[shell].pc \in {"next", "wait"}
        /\ UNCHANGED <<script, commands, full>>
    BY <1>5, InLoop DEF Return, Wait, At, scriptVars, runVars
  <2>2. NoChildren
    BY <1>5, <2>1, NotWaiting DEF Return, Wait, At, SoleChild, NoChildren
  <2>3. PICK label \in {"read", "next"} : Goto(shell, label)
    BY <1>5, <2>1 DEF Return, Wait
  <2> QED
    BY <2>1, <2>2, <2>3, GotoStep
<1>6. ASSUME NEW p \in DOMAIN procs, Quit(p)
      PROVE  ProcsOK' /\ SoleChild'
  <2>1. p = shell /\ procs[shell].pc = "next" /\ UNCHANGED <<script, commands, full>>
    BY <1>6, InLoop DEF Quit, At, scriptVars
  <2>2. NoChildren /\ End(shell)
    BY <1>6, <2>1, NotWaiting DEF Quit, Exit
  <2> QED
    BY <2>1, <2>2, ShellEnds
<1>7. ASSUME NEW p \in DOMAIN procs, ForkCommand(p)
      PROVE  ProcsOK' /\ SoleChild'
  BY <1>7, ForkCommandStep
<1>8. ASSUME NEW p \in DOMAIN procs, Child(p) \/ Write(p) \/ Read(p) \/ Finish(p)
      PROVE  ProcsOK' /\ SoleChild'
  BY <1>8, ChildStep DEF InputTypeOK
<1> QED
  BY <1>1, <1>2, <1>3, <1>4, <1>5, <1>6, <1>7, <1>8 DEF Next, Main, Execute

(* Where a fork leaves the shell.                                          *)
LEMMA ForkedShell ==
  ASSUME ProcsOK, NEW p \in DOMAIN procs, NEW memory \in ProcessRecord,
         NEW here \in Labels, NEW there \in Labels, Fork(p, memory, here, there)
  PROVE  procs'[shell].pc = IF p = shell THEN here ELSE procs[shell].pc
<1> DEFINE a == [memory EXCEPT !.pc = here, !.child = Len(procs) + 1]
           b == [memory EXCEPT !.pc = there, !.parent = p]
           left == [procs EXCEPT ![p] = a]
<1>1. /\ procs \in Seq(ProcessRecord) /\ Len(procs) \in Nat /\ p \in 1 .. Len(procs)
      /\ shell \in 1 .. Len(procs)
  BY LenProperties DEF ProcsOK
<1>2. a \in ProcessRecord /\ b \in ProcessRecord /\ a.pc = here
  <2>1. Len(procs) + 1 \in Nat /\ p \in Nat
    BY <1>1
  <2> QED
    BY <2>1 DEF ProcessRecord
<1>3. procs' = Append(left, b)
  BY DEF Fork
<1> HIDE DEF a, b
<1>4. /\ left \in Seq(ProcessRecord) /\ Len(left) = Len(procs)
      /\ left[shell] = IF shell = p THEN a ELSE procs[shell]
  BY <1>1, <1>2, ExceptSeq
<1> HIDE DEF left
<1>5. procs'[shell] = left[shell]
  BY <1>1, <1>2, <1>3, <1>4, AppendProperties
<1> QED
  BY <1>2, <1>4, <1>5

(* Nothing but the main loop starts to parse.                              *)
LEMMA NoOtherReads ==
  ASSUME IInv, NEW p \in DOMAIN procs,
         Execute(p) \/ Child(p) \/ Write(p) \/ Read(p) \/ Finish(p)
  PROVE  procs'[shell].pc = "parse" => procs[shell].pc = "parse"
<1> USE DEF IInv
<1>1. shell \in DOMAIN procs /\ procs[shell] \in ProcessRecord
  BY ShellRecord
<1>2. ASSUME End(p) PROVE procs'[shell].pc = IF p = shell THEN "ended" ELSE procs[shell].pc
  BY <1>1, <1>2 DEF End, Ended, NewProcess
<1>3. CASE Return(p) \/ Wait(p)
  BY <1>1, <1>3 DEF Return, Wait, Goto, ProcessRecord
<1>4. CASE ForkCommand(p)
  <2>1. Forked(p) \in Nat /\ procs[p] \in ProcessRecord
    BY <1>4, ForkedCommand DEF ForkCommand, At, ProcsOK, RecordOK
  <2> DEFINE next == IF IsFed(p) THEN procs[p].next + 2 ELSE procs[p].next + 1
             m == [procs[p] EXCEPT !.c = Forked(p), !.next = next]
             there == IF Command(p, Forked(p)).pipe_out THEN "pipe" ELSE "redirect"
  <2>2. m \in ProcessRecord
    <3>1. next \in Nat
      BY <2>1 DEF ProcessRecord
    <3> HIDE DEF next
    <3> QED
      BY <2>1, <3>1 DEF ProcessRecord
  <2>3. there \in Labels /\ "wait" \in Labels
    BY DEF Labels, ChildLabels, ShellLabels
  <2>4. Fork(p, m, "wait", there)
    BY <1>4 DEF ForkCommand
  <2> HIDE DEF m, there
  <2> QED
    BY <2>2, <2>3, <2>4, ForkedShell
<1>5. CASE MakePipe(p) \/ BecomeWriter(p) \/ Redirect(p)
  <2>1. CASE MakePipe(p)
    BY <1>1, <2>1 DEF MakePipe, ProcessRecord
  <2>2. CASE BecomeWriter(p)
    BY <1>1, <2>2 DEF BecomeWriter, ProcessRecord
  <2>3. CASE Redirect(p)
    <3>1. PICK in \in {File, procs[p].in}, out \in {File, procs[p].out} :
            procs' = [procs EXCEPT ![p].in = in, ![p].out = out, ![p].pc = "exec"]
      BY <2>3 DEF Redirect, OpenedOr
    <3> QED
      BY <1>1, <3>1 DEF ProcessRecord
  <2> QED
    BY <1>5, <2>1, <2>2, <2>3
<1>6. CASE ForkReader(p)
  <2>1. procs[p] \in ProcessRecord /\ "writer" \in Labels /\ "reader" \in Labels
    BY DEF ProcsOK, RecordOK, Labels, ForkLabels
  <2> QED
    BY <1>6, <2>1, ForkedShell DEF ForkReader
<1>7. CASE BecomeReader(p) \/ Exec(p)
  <2>1. CASE End(p)
    BY <1>2, <2>1
  <2>2. CASE BecomeReader(p) /\ ~ End(p)
    <3>1. procs' = [procs EXCEPT ![p].pfd = @ \ {Mouth(procs[p].parent)},
                                 ![p].in = Drain(procs[p].parent),
                                 ![p].c = procs[p].next, ![p].next = procs[p].next + 1,
                                 ![p].pc = "redirect"]
      BY <2>2 DEF BecomeReader, Exit
    <3> QED
      BY <1>1, <3>1 DEF ProcessRecord
  <2>3. CASE Exec(p) /\ ~ End(p)
    <3>1. PICK h \in Habits(p) :
            procs' = [procs EXCEPT ![p].habit = h, ![p].pc =
              IF Current(p).name \in Internal THEN "internal" ELSE "program"]
      BY <2>3 DEF Exec, Exit
    <3> QED
      BY <1>1, <3>1 DEF ProcessRecord
  <2> QED
    BY <1>7, <2>1, <2>2, <2>3
<1>8. CASE Quit(p) \/ Finish(p)
  BY <1>2, <1>8 DEF Quit, Finish, Exit
<1>9. CASE Write(p) \/ Read(p)
  BY <1>1, <1>2, <1>9 DEF Write, Read, ProcessRecord
<1> QED
  BY <1>3, <1>4, <1>5, <1>6, <1>7, <1>8, <1>9 DEF Execute, Child

(* A line that is read is terminated, and the parser keeps it so.          *)
LEMMA LineStep == IInv /\ [Next]_vars => ParserOK' /\ InsideLine'
<1> SUFFICES ASSUME IInv, [Next]_vars PROVE ParserOK' /\ InsideLine'
  OBVIOUS
<1> USE DEF IInv
<1>1. ASSUME UNCHANGED parseVars, procs'[shell].pc = "parse" => procs[shell].pc = "parse"
      PROVE  ParserOK' /\ InsideLine'
  BY <1>1 DEF parseVars, ParserOK, ParserTypeOK, Paired, InsideLine, NullTerminated
<1>2. ASSUME NEW text \in Seq(Tokens), Start(text)
      PROVE  ParserOK' /\ InsideLine'
  <2>1. alist' \in Seq(Tokens0) /\ NullTerminated(alist')
    BY <1>2, TokensEnd DEF Start
  <2>2. clist' \in Seq(CommandRecord) /\ Paired(clist')
    BY <1>2 DEF Start, Paired
  <2> QED
    BY <1>2, <2>1, <2>2 DEF Start, ParserOK, ParserTypeOK, InsideLine, NullTerminated, Paired
<1>3. CASE ReadTerminal
  <2>1. LineAt(ahead) \in Seq(Tokens)
    BY <1>3, LineAtType, LenProperties DEF ReadTerminal, InputTypeOK
  <2> QED
    BY <1>2, <1>3, <2>1 DEF ReadTerminal, Tokenize
<1>4. CASE ReadFile
  <2>1. BufferOK
    BY ShellRecord, LenProperties DEF BufferOK, RecordOK, ProcessRecord, InputTypeOK
  <2>2. fgets.text \in Seq(Tokens)
    BY <2>1, FgetsType
  <2> QED
    BY <1>2, <1>4, <2>2 DEF ReadFile, Tokenize
<1>5. CASE Parse
  <2>1. Parsable
    BY <1>5 DEF Parse, Parsable, InsideLine
  <2>2. Parsable'
    BY <1>5, <2>1, ParseStepOK DEF Parse
  <2> QED
    BY <2>2 DEF Parsable, InsideLine
<1>6. CASE Parsed
  <2>1. /\ alist' = <<>> /\ clist' = <<>> /\ verdict # "pending"
        /\ UNCHANGED <<stage, verdict, freed>>
    BY <1>6 DEF Parsed
  <2>2. ParserOK'
    BY <2>1 DEF ParserOK, ParserTypeOK, Paired
  <2>3. procs'[shell].pc # "parse"
    BY <1>6, ShellRecord DEF Parsed, ProcessRecord
  <2> QED
    BY <2>2, <2>3 DEF InsideLine
<1>7. CASE EndOfFile
  <2>1. procs'[shell].pc # "parse"
    BY <1>7, ShellRecord DEF EndOfFile, End, Ended, NewProcess
  <2> QED
    BY <1>1, <1>7, <2>1 DEF EndOfFile
<1>8. ASSUME NEW p \in DOMAIN procs,
             Execute(p) \/ Child(p) \/ Write(p) \/ Read(p) \/ Finish(p)
      PROVE  ParserOK' /\ InsideLine'
  <2>1. UNCHANGED parseVars
    BY <1>8 DEF Execute, Child, Return, Quit, ForkCommand, Wait, MakePipe, ForkReader,
       BecomeWriter, BecomeReader, Redirect, Exec, Write, Read, Finish
  <2>2. procs'[shell].pc = "parse" => procs[shell].pc = "parse"
    BY <1>8, NoOtherReads
  <2> QED
    BY <1>1, <2>1, <2>2
<1>9. CASE UNCHANGED vars
  BY <1>1, <1>9 DEF vars
<1> QED
  BY <1>3, <1>4, <1>5, <1>6, <1>7, <1>8, <1>9 DEF Next, Main
-----------------------------------------------------------------------------
(* The theorems.                                                           *)

LEMMA InitInv == Init => IInv
<1> SUFFICES ASSUME Init PROVE IInv
  OBVIOUS
<1>1. ParserOK
  BY DEF Init, ParserOK, ParserTypeOK, Paired
<1>2. InputTypeOK
  <2>1. script \in Seq(Seq(Tokens))
    BY ScriptAssumption DEF Init
  <2> QED
    BY <2>1, LenProperties DEF Init, InputTypeOK
<1>3. HistoryTypeOK /\ CommandsPaired
  BY DEF Init, HistoryTypeOK, CommandsPaired
<1>4. procs = <<NewProcess>> /\ NewProcess \in ProcessRecord
  BY DEF Init, NewProcess, ProcessRecord, Labels, ShellLabels, Descriptors, Ends, Terminal
<1>5. DOMAIN procs = {1} /\ procs[1] = NewProcess /\ procs \in Seq(ProcessRecord)
  BY <1>4
<1>6. RecordOK(1, NewProcess)
  <2>1. Len(script) \in Nat
    BY <1>2, LenProperties DEF InputTypeOK
  <2>2. EndsOK(1, NewProcess) /\ PlaceOK(NewProcess)
    BY DEF EndsOK, PlaceOK, NewProcess, ForkLabels, ShellLabels, RunLabels
  <2>3. /\ NewProcess.pc = "read" /\ NewProcess.next = 1 /\ NewProcess.unread = 0
        /\ NewProcess.behind = 0
        /\ NewProcess.parent = 0
    BY DEF NewProcess
  <2> QED
    BY <1>4, <2>1, <2>2, <2>3 DEF RecordOK, ShellLabels, shell
<1>7. ProcsOK
  BY <1>5, <1>6 DEF Init, ProcsOK, shell
<1>8. SoleChild /\ InsideLine
  BY <1>5 DEF SoleChild, InsideLine, NewProcess, shell
<1> QED
  BY <1>1, <1>2, <1>3, <1>7, <1>8 DEF IInv

LEMMA NextInv == IInv /\ [Next]_vars => IInv'
BY LineStep, InputStep, HistoryStep, ProcsStep DEF IInv

(* The invariant holds in every state.                                     *)
THEOREM Invariance == Spec => []IInv
BY InitInv, NextInv, PTL DEF Spec

(* Every variable has a value that the program's types allow, for any      *)
(* words, programs, lines and batch files.                                 *)
THEOREM TypeCorrect == Spec => []TypeOK
<1>1. IInv => TypeOK
  BY DEF IInv, ParserOK, ParserTypeOK, InputTypeOK, HistoryTypeOK, ProcsOK, TypeOK, Tokens0
<1> QED
  BY <1>1, Invariance, PTL

(* parse never pops the NULL at the end of the queue of words, whatever    *)
(* the line.                                                               *)
THEOREM WordsStayInside == Spec => []InsideLine
BY Invariance, PTL DEF IInv

(* Both ends of a pipe are next to each other in every line's queue of     *)
(* commands, and the process that reads from it finds a command there.     *)
THEOREM PipesPaired == Spec => []PipesArePaired
<1>1. IInv => PipesArePaired
  <2> SUFFICES ASSUME IInv PROVE PipesArePaired
    OBVIOUS
  <2>1. Paired(clist) /\ \A t \in DOMAIN commands : Paired(commands[t])
    BY DEF IInv, ParserOK, CommandsPaired
  <2>2. ASSUME NEW p \in DOMAIN procs, procs[p].pc = "reader" PROVE ReaderIsPaired(p)
    BY <2>2 DEF IInv, ProcsOK, RecordOK, PlaceOK, ReaderIsPaired, ForkLabels
  <2> QED
    BY <2>1, <2>2 DEF PipesArePaired
<1> QED
  BY <1>1, Invariance, PTL

(* The shell has one child at a time and waits for it, and no child comes  *)
(* back to the loops of the shell.                                         *)
THEOREM OneChild == Spec => []OneChildAtATime
<1>1. IInv => OneChildAtATime
  BY DEF IInv, ProcsOK, RecordOK, SoleChild, OneChildAtATime, ChildrenLeaveLoop, Live
<1> QED
  BY <1>1, Invariance, PTL

(* No program holds an end of a pipe that is not its own, however many     *)
(* processes and pipes a line makes.                                       *)
THEOREM OwnEndsOnly == Spec => []NoStrayEnds
<1>1. IInv => NoStrayEnds
  <2> SUFFICES ASSUME IInv, NEW p \in DOMAIN procs, procs[p].pc # "ended",
                      procs[p].pc \notin ForkLabels,
                      NEW end \in Held(p) \ {Terminal, File}
               PROVE  IF end[1] = "mouth" THEN end[2] = p
                      ELSE end[2] = procs[p].parent /\ procs[p].parent # shell
    BY DEF NoStrayEnds, Live
  <2>1. RecordOK(p, procs[p]) /\ procs[p].pc \in Labels
    BY DEF IInv, ProcsOK, RecordOK, ProcessRecord
  <2>2. OwnEnd(p, procs[p], end)
    BY <2>1 DEF RecordOK, EndsOK, Held, Labels, ChildLabels
  <2>3. CASE end = Mouth(p)
    BY <2>3 DEF Mouth
  <2>4. CASE end = Drain(procs[p].parent) /\ procs[p].parent # shell
    BY <2>4 DEF Drain
  <2> QED
    BY <2>2, <2>3, <2>4 DEF OwnEnd
<1> QED
  BY <1>1, Invariance, PTL

-----------------------------------------------------------------------------
(* What the parser has read is sound.                                      *)

(* Lines with a word behind every & inside.                                *)
Clean(text) ==
  \A i \in 1 .. Len(text) - 1 : text[i] = "&" => Ordinary(text[i + 1])

(* The first k words of a line are the beginning of a sound line.          *)
SoundUpTo(text, k) ==
  /\ k \in 1 .. Len(text)
  /\ Ordinary(text[1])
  /\ \A i \in 1 .. k : text[i] \in Paths \cup {"|"} => i < k /\ Ordinary(text[i + 1])
  /\ \A i, j \in 1 .. k :
       i < j /\ text[i] = "|" /\ text[j] = "|" => \E m \in i .. j : text[m] = "&"

(* There is a pipe among the first k words, and no & behind it.            *)
PipeOpen(text, k) ==
  \E i \in 1 .. k : text[i] = "|" /\ \A m \in i .. k : text[m] # "&"

(* Ordinary words may be read.                                             *)
LEMMA TakeWords ==
  ASSUME NEW text \in Seq(Tokens), NEW k \in Nat, NEW n \in Nat, k + n <= Len(text),
         \A i \in 1 .. n : Ordinary(text[k + i]), SoundUpTo(text, k)
  PROVE  /\ SoundUpTo(text, k + n)
         /\ PipeOpen(text, k + n) => PipeOpen(text, k)
<1>1. Len(text) \in Nat
  BY LenProperties
<1>2. \A i \in 1 .. k + n : i \in 1 .. k \/ Ordinary(text[i])
  <2>1. \A i \in 1 .. k + n : i \in 1 .. k \/ (i - k \in 1 .. n /\ k + (i - k) = i)
    OBVIOUS
  <2> QED
    BY <2>1
<1>3. \A i \in 1 .. k + n : text[i] \in Symbols => i \in 1 .. k
  BY <1>2 DEF Ordinary
<1>4. \A i \in 1 .. k + n : text[i] \in Paths \cup {"|"} =>
        i < k + n /\ Ordinary(text[i + 1])
  <2>1. \A i \in 1 .. k : i < k => i < k + n
    OBVIOUS
  <2> QED
    BY <1>3, <2>1 DEF SoundUpTo, Symbols, Paths
<1>5. \A i, j \in 1 .. k + n :
        i < j /\ text[i] = "|" /\ text[j] = "|" => \E m \in i .. j : text[m] = "&"
  BY <1>3 DEF SoundUpTo, Symbols
<1>6. k + n \in 1 .. Len(text) /\ Ordinary(text[1])
  BY <1>1 DEF SoundUpTo
<1>7. ASSUME PipeOpen(text, k + n) PROVE PipeOpen(text, k)
  <2>1. PICK i \in 1 .. k + n : text[i] = "|" /\ \A m \in i .. k + n : text[m] # "&"
    BY <1>7 DEF PipeOpen
  <2>2. i \in 1 .. k
    BY <1>3, <2>1 DEF Symbols
  <2>3. \A m \in i .. k : m \in i .. k + n
    OBVIOUS
  <2> QED
    BY <2>1, <2>2, <2>3 DEF PipeOpen
<1> QED
  BY <1>4, <1>5, <1>6, <1>7 DEF SoundUpTo

(* A symbol other than & may be read together with an ordinary word, and   *)
(* a pipe if none is open.                                                 *)
LEMMA TakeSymbol ==
  ASSUME NEW text \in Seq(Tokens), NEW k \in Nat, k + 2 <= Len(text),
         text[k + 1] \in Paths \cup {"|"}, Ordinary(text[k + 2]), SoundUpTo(text, k),
         text[k + 1] = "|" => ~ PipeOpen(text, k)
  PROVE  /\ SoundUpTo(text, k + 2)
         /\ PipeOpen(text, k + 2) => text[k + 1] = "|" \/ PipeOpen(text, k)
<1>1. Len(text) \in Nat /\ k \in 1 .. Len(text)
  BY LenProperties DEF SoundUpTo
<1>2. \A i \in 1 .. k + 2 : i \in 1 .. k \/ i = k + 1 \/ i = k + 2
  OBVIOUS
<1>3. text[k + 2] \notin Paths \cup {"|", "&"}
  BY DEF Ordinary, Symbols, Paths
<1>4. ASSUME NEW i \in 1 .. k + 2, text[i] \in Paths \cup {"|"}
      PROVE  i < k + 2 /\ Ordinary(text[i + 1])
  <2>1. CASE i \in 1 .. k
    BY <1>4, <2>1 DEF SoundUpTo
  <2>2. CASE i = k + 1
    <3>1. i + 1 = k + 2 /\ i < k + 2
      BY <2>2
    <3> QED
      BY <3>1
  <2> QED
    BY <1>2, <1>3, <1>4, <2>1, <2>2
<1>5. ASSUME NEW i \in 1 .. k + 2, NEW j \in 1 .. k + 2, i < j, text[i] = "|", text[j] = "|"
      PROVE  \E m \in i .. j : text[m] = "&"
  <2>1. CASE j \in 1 .. k
    <3>1. i \in 1 .. k
      BY <1>5, <2>1
    <3> QED
      BY <1>5, <2>1, <3>1 DEF SoundUpTo
  <2>2. CASE j = k + 1
    <3>1. i \in 1 .. k
      BY <1>5, <2>2
    <3>2. PICK m \in i .. k : text[m] = "&"
      BY <1>5, <2>2, <3>1 DEF PipeOpen
    <3>3. m \in i .. j
      BY <2>2, <3>1
    <3> QED
      BY <3>2, <3>3
  <2> QED
    BY <1>2, <1>3, <1>5, <2>1, <2>2
<1>6. k + 2 \in 1 .. Len(text) /\ Ordinary(text[1])
  BY <1>1 DEF SoundUpTo
<1>7. ASSUME PipeOpen(text, k + 2), text[k + 1] # "|" PROVE PipeOpen(text, k)
  <2>1. PICK i \in 1 .. k + 2 : text[i] = "|" /\ \A m \in i .. k + 2 : text[m] # "&"
    BY <1>7 DEF PipeOpen
  <2>2. i \in 1 .. k
    BY <1>2, <1>3, <1>7, <2>1
  <2>3. \A m \in i .. k : m \in i .. k + 2
    OBVIOUS
  <2> QED
    BY <2>1, <2>2, <2>3 DEF PipeOpen
<1> QED
  BY <1>4, <1>5, <1>6, <1>7 DEF SoundUpTo

(* An & may be read at the end of a line or with the ordinary word behind, *)
(* and closes what was open.                                               *)
LEMMA TakeAnd ==
  ASSUME NEW text \in Seq(Tokens), NEW k \in Nat, NEW n \in {1, 2}, k + n <= Len(text),
         text[k + 1] = "&", n = 2 => Ordinary(text[k + 2]), SoundUpTo(text, k)
  PROVE  SoundUpTo(text, k + n) /\ ~ PipeOpen(text, k + n)
<1>1. Len(text) \in Nat /\ k \in 1 .. Len(text)
  BY LenProperties DEF SoundUpTo
<1>2. \A i \in 1 .. k + n : i \in 1 .. k \/ i = k + 1 \/ (n = 2 /\ i = k + 2)
  OBVIOUS
<1>3. \A i \in 1 .. k + n : text[i] \in Paths \cup {"|"} => i \in 1 .. k
  BY <1>2 DEF Ordinary, Symbols, Paths
<1>4. ASSUME NEW i \in 1 .. k + n, text[i] \in Paths \cup {"|"}
      PROVE  i < k + n /\ Ordinary(text[i + 1])
  <2>1. i \in 1 .. k /\ i < k /\ Ordinary(text[i + 1])
    BY <1>3, <1>4 DEF SoundUpTo
  <2> QED
    BY <2>1
<1>5. \A i, j \in 1 .. k + n :
        i < j /\ text[i] = "|" /\ text[j] = "|" => \E m \in i .. j : text[m] = "&"
  BY <1>3 DEF SoundUpTo
<1>6. k + n \in 1 .. Len(text) /\ Ordinary(text[1])
  BY <1>1 DEF SoundUpTo
<1>7. ASSUME PipeOpen(text, k + n) PROVE FALSE
  <2>1. PICK i \in 1 .. k + n : text[i] = "|" /\ \A m \in i .. k + n : text[m] # "&"
    BY <1>7 DEF PipeOpen
  <2>2. i \in 1 .. k
    BY <1>3, <2>1
  <2>3. k + 1 \in i .. k + n
    BY <2>2
  <2> QED
    BY <2>1, <2>3
<1> QED
  BY <1>4, <1>5, <1>6, <1>7 DEF SoundUpTo

-----------------------------------------------------------------------------
(* The queue of words is what is left of the line and its NULL.            *)

Fits(words, text) ==
  /\ Len(words) \in 1 .. Len(text) + 1
  /\ \A i \in 1 .. Len(words) : words[i] = tokenize(text)[Len(text) + 1 - Len(words) + i]

LEMMA FitsRest ==
  ASSUME NEW text \in Seq(Tokens), NEW words \in Seq(Tokens0), Fits(words, text),
         NEW n \in 0 .. Len(words) - 1
  PROVE  /\ Fits(SubSeq(words, n + 1, Len(words)), text)
         /\ Len(SubSeq(words, n + 1, Len(words))) = Len(words) - n
<1>1. Len(words) \in Nat /\ Len(text) \in Nat
  BY LenProperties
<1>2. PICK rest : rest = SubSeq(words, n + 1, Len(words))
  OBVIOUS
<1>3. Len(rest) = Len(words) - n /\ \A i \in 1 .. Len(words) - n : rest[i] = words[n + i]
  BY <1>1, <1>2, RestOfSeq
<1>4. Len(rest) \in 1 .. Len(text) + 1
  BY <1>1, <1>3 DEF Fits
<1>5. ASSUME NEW i \in 1 .. Len(rest)
      PROVE  rest[i] = tokenize(text)[Len(text) + 1 - Len(rest) + i]
  <2>1. n + i \in 1 .. Len(words) /\ i \in 1 .. Len(words) - n
    BY <1>1, <1>3
  <2>2. Len(text) + 1 - Len(words) + (n + i) = Len(text) + 1 - Len(rest) + i
    BY <1>1, <1>3
  <2> QED
    BY <1>3, <2>1, <2>2 DEF Fits
<1> QED
  BY <1>2, <1>3, <1>4, <1>5 DEF Fits

(* How many words are taken off the queue.                                 *)
Consumed(text) == Len(text) + 1 - Len(alist)

(* The front of the queue is the next word of the line.                    *)
LEMMA FrontOfText ==
  ASSUME NEW text \in Seq(Tokens), Parsable, Fits(alist, text), NEW k, k = Consumed(text)
  PROVE  /\ k \in 0 .. Len(text)
         /\ word = NULL => k = Len(text)
         /\ word # NULL => /\ k + 1 \in 1 .. Len(text) /\ word = text[k + 1]
                           /\ Fits(Tail(alist), text) /\ Len(Tail(alist)) = Len(alist) - 1
                           /\ following = NULL => k + 1 = Len(text)
                           /\ following # NULL =>
                                /\ k + 2 \in 1 .. Len(text) /\ following = text[k + 2]
                                /\ Fits(Behind2, text) /\ Len(Behind2) = Len(alist) - 2
<1>1. /\ alist \in Seq(Tokens0) /\ NullTerminated(alist)
      /\ Len(alist) \in Nat /\ Len(text) \in Nat /\ Len(alist) \in 1 .. Len(text) + 1
  BY LenProperties DEF Parsable, ParserOK, ParserTypeOK, Fits
<1>2. k \in 0 .. Len(text) /\ Len(alist) = Len(text) + 1 - k
  BY <1>1 DEF Consumed
<1>3. \A i \in 1 .. Len(text) : tokenize(text)[i] = text[i]
  BY AppendProperties DEF tokenize
<1>4. \A i \in 1 .. Len(alist) : /\ alist[i] = tokenize(text)[k + i]
                                 /\ alist[i] = NULL <=> i = Len(alist)
  BY <1>1, <1>2, LenProperties DEF Fits, NullTerminated, Consumed
<1>9. \A i \in 1 .. Len(alist) : alist[i] = NULL => i = Len(alist)
  BY <1>1, LenProperties DEF NullTerminated
<1>5. alist # <<>> /\ word = alist[1] /\ 1 \in 1 .. Len(alist)
  BY <1>1, HeadTailProperties DEF NullTerminated, word
<1>6. ASSUME word = NULL PROVE k = Len(text)
  <2>1. Len(alist) = 1
    BY <1>9, <1>5, <1>6
  <2>2. PICK n \in Nat : n = Len(text)
    BY <1>1
  <2>3. k \in Nat
    BY <1>1, <1>2
  <2>4. Len(alist) = n + 1 - k
    BY <1>2, <2>2
  <2>5. n + 1 - k = 1
    BY <2>1, <2>4
  <2> QED
    BY <2>2, <2>3, <2>5
<1>7. ASSUME word # NULL
      PROVE  /\ k + 1 \in 1 .. Len(text) /\ word = text[k + 1]
             /\ Fits(Tail(alist), text) /\ Len(Tail(alist)) = Len(alist) - 1
             /\ following = NULL => k + 1 = Len(text)
             /\ following # NULL =>
                  /\ k + 2 \in 1 .. Len(text) /\ following = text[k + 2]
                  /\ Fits(Behind2, text) /\ Len(Behind2) = Len(alist) - 2
  <2>1. Len(alist) >= 2
    BY <1>1, <1>4, <1>5, <1>7
  <2>2. k + 1 \in 1 .. Len(text) /\ word = text[k + 1]
    BY <1>2, <1>3, <1>4, <1>5, <2>1
  <2>3. Tail(alist) = SubSeq(alist, 1 + 1, Len(alist)) /\ 1 \in 0 .. Len(alist) - 1
    BY <1>1, <1>5, <2>1, TailIsSubSeq
  <2>4. Fits(Tail(alist), text) /\ Len(Tail(alist)) = Len(alist) - 1
    BY <1>1, <2>3, FitsRest
  <2>5. following = alist[2] /\ 2 \in 1 .. Len(alist)
    BY <1>1, <2>1 DEF following
  <2>6. ASSUME following = NULL PROVE k + 1 = Len(text)
    <3>1. Len(alist) = 2
      BY <1>9, <2>5, <2>6
    <3>2. PICK n \in Nat : n = Len(text)
      BY <1>1
    <3>3. k \in Nat
      BY <1>1, <1>2
    <3>4. Len(alist) = n + 1 - k
      BY <1>2, <3>2
    <3>5. n + 1 - k = 2
      BY <3>1, <3>4
    <3> QED
      BY <3>2, <3>3, <3>5
  <2>7. ASSUME following # NULL
        PROVE  /\ k + 2 \in 1 .. Len(text) /\ following = text[k + 2]
               /\ Fits(Behind2, text) /\ Len(Behind2) = Len(alist) - 2
    <3>1. Len(alist) >= 3
      BY <1>1, <1>4, <2>5, <2>7
    <3>2. k + 2 \in 1 .. Len(text) /\ following = text[k + 2]
      <4>1. k + 2 \in 1 .. Len(text)
        <5>1. PICK n \in Nat : n = Len(text)
          BY <1>1
        <5>2. k \in Nat /\ Len(alist) = n + 1 - k
          BY <1>1, <1>2, <5>1
        <5>3. n + 1 - k >= 3
          BY <3>1, <5>2
        <5> QED
          BY <5>1, <5>2, <5>3
      <4>2. alist[2] = tokenize(text)[k + 2]
        BY <1>4, <2>5
      <4> QED
        BY <1>3, <2>5, <4>1, <4>2
    <3>3. Tail(alist) \in Seq(Tokens0) /\ Tail(alist) # <<>>
      <4>1. Tail(alist) \in Seq(Tokens0)
        BY <1>7, FrontOfQueue
      <4>2. Len(Tail(alist)) > 0
        BY <1>1, <2>4, <3>1
      <4> QED
        BY <4>1, <4>2, LongSeq
    <3>4. /\ Tail(Tail(alist)) = SubSeq(Tail(alist), 1 + 1, Len(Tail(alist)))
          /\ 1 \in 0 .. Len(Tail(alist)) - 1
      BY <1>1, <2>4, <3>1, <3>3, TailIsSubSeq
    <3>5. Fits(Behind2, text) /\ Len(Behind2) = Len(Tail(alist)) - 1
      BY <2>4, <3>3, <3>4, FitsRest DEF Behind2
    <3> QED
      BY <1>1, <2>4, <3>2, <3>5
  <2> QED
    BY <2>2, <2>4, <2>6, <2>7
<1> QED
  BY <1>2, <1>6, <1>7

(* While a line is parsed: what is read of it is sound, and if a pipe is   *)
(* open, the last command reads from it.                                   *)
ReadSoFar(text, k, last) ==
  Clean(text) => SoundUpTo(text, k) /\ (PipeOpen(text, k) => last.pipe_in)

ReadSound(text) ==
  /\ Fits(alist, text)
  /\ verdict = "parsed" => stage > 0 /\ word = NULL
  /\ verdict # "rejected" /\ stage = 0 => Consumed(text) = 0
  /\ verdict # "rejected" /\ stage > 0 => ReadSoFar(text, Consumed(text), cmd)

LEMMA GoOnSound ==
  ASSUME NEW text \in Seq(Tokens), verdict = "pending",
         NEW commandsNow, NEW rest, NEW s \in 1 .. 5, GoOn(commandsNow, rest, s),
         Fits(rest, text), NEW last, last = commandsNow[Len(commandsNow)],
         NEW k, k = Len(text) + 1 - Len(rest), ReadSoFar(text, k, last)
  PROVE  ReadSound(text)'
<1>1. /\ clist' = commandsNow /\ alist' = rest /\ stage' = s /\ verdict' = "pending"
      /\ s > 0 /\ s # 0
  BY DEF GoOn
<1>2. Fits(alist, text)' /\ Consumed(text)' = k /\ cmd' = last
  BY <1>1 DEF Consumed, cmd, Fits, tokenize
<1>3. ReadSoFar(text, Consumed(text), cmd)'
  BY <1>2 DEF ReadSoFar, Clean, SoundUpTo, PipeOpen, Ordinary
<1> QED
  BY <1>1, <1>2, <1>3 DEF ReadSound

LEMMA RejectSound ==
  ASSUME NEW text \in Seq(Tokens), ReadSound(text), NEW args, Reject(args)
  PROVE  ReadSound(text)'
BY DEF Reject, ReadSound, Fits, tokenize

(* The last of the commands after a change, and after an addition.         *)
LEMMA LastSet ==
  ASSUME NEW K, K = clist, K \in Seq(CommandRecord), K # <<>>, NEW c \in CommandRecord
  PROVE  c = Set(c)[Len(Set(c))]
<1>1. Len(K) \in 1 .. Len(K)
  BY LongSeq, LenProperties
<1>2. Set(c) = [K EXCEPT ![Len(K)] = c]
  BY DEF Set
<1> QED
  BY <1>1, <1>2, ExceptSeq

LEMMA LastAppend ==
  ASSUME NEW K \in Seq(CommandRecord), NEW d \in CommandRecord
  PROVE  d = Append(K, d)[Len(Append(K, d))]
BY AppendProperties

LEMMA FirstWordSound ==
  ASSUME NEW text \in Seq(Tokens), Parsable, ReadSound(text), FirstWord
  PROVE  ReadSound(text)'
<1>1. CASE ~ notsymbol(word)
  BY <1>1, RejectSound DEF FirstWord
<1>2. CASE notsymbol(word)
  <2>1. PICK c : GoOn(<<c>>, Tail(alist), 1)
    BY <1>2 DEF FirstWord
  <2>2. verdict = "pending" /\ stage = 0 /\ word # NULL /\ Ordinary(word)
    BY <1>2 DEF FirstWord, notsymbol, Ordinary
  <2>3. Consumed(text) = 0 /\ Fits(alist, text)
    BY <2>2 DEF ReadSound
  <2>4. PICK k : k = Consumed(text)
    OBVIOUS
  <2>5. /\ 1 \in 1 .. Len(text) /\ word = text[1]
        /\ Fits(Tail(alist), text) /\ Len(Tail(alist)) = Len(alist) - 1
    BY <2>2, <2>3, <2>4, FrontOfText
  <2>6. 1 = Len(text) + 1 - Len(Tail(alist))
    <3>1. Len(alist) \in Nat /\ Len(text) \in Nat
      BY LenProperties DEF Parsable, ParserOK, ParserTypeOK
    <3> QED
      BY <2>3, <2>5, <3>1 DEF Consumed
  <2>7. text[1] \notin Symbols
    BY <2>2, <2>5 DEF Ordinary
  <2>8. SoundUpTo(text, 1) /\ ~ PipeOpen(text, 1)
    BY <2>5, <2>7 DEF SoundUpTo, PipeOpen, Ordinary, Symbols, Paths
  <2>9. ReadSoFar(text, 1, c) /\ c = (<<c>>)[Len(<<c>>)]
    BY <2>8 DEF ReadSoFar
  <2>10. 1 \in 1 .. 5
    OBVIOUS
  <2> QED
    BY <2>1, <2>2, <2>5, <2>6, <2>9, <2>10, GoOnSound
<1> QED
  BY <1>1, <1>2

(* In the loop, two words are read: the symbol, and an ordinary one.       *)
LEMMA SymbolRead ==
  ASSUME NEW text \in Seq(Tokens), Parsable, ReadSound(text), verdict = "pending",
         stage > 0, word \in Symbols, following # NULL, NEW k, k = Consumed(text)
  PROVE  /\ k \in Nat /\ k + 2 <= Len(text)
         /\ word = text[k + 1] /\ following = text[k + 2]
         /\ Fits(Behind2, text) /\ k + 2 = Len(text) + 1 - Len(Behind2)
         /\ ReadSoFar(text, k, cmd)
<1>1. word # NULL
  BY WordAssumption DEF Tokens
<1>2. Fits(alist, text) /\ ReadSoFar(text, k, cmd)
  BY DEF ReadSound
<1>3. /\ k \in 0 .. Len(text) /\ word = text[k + 1]
      /\ k + 2 \in 1 .. Len(text) /\ following = text[k + 2]
      /\ Fits(Behind2, text) /\ Len(Behind2) = Len(alist) - 2
  BY <1>1, <1>2, FrontOfText
<1>4. Len(alist) \in Nat /\ Len(text) \in Nat
  BY LenProperties DEF Parsable, ParserOK, ParserTypeOK
<1>5. k = Len(text) + 1 - Len(alist)
  BY DEF Consumed
<1>6. k \in Nat /\ k + 2 <= Len(text)
  BY <1>3, <1>4
<1>7. k + 2 = Len(text) + 1 - Len(Behind2)
  BY <1>3, <1>4, <1>5
<1> QED
  BY <1>2, <1>3, <1>6, <1>7

LEMMA RedirectSound ==
  ASSUME NEW text \in Seq(Tokens), Parsable, ReadSound(text), verdict = "pending",
         stage > 0, word \in Paths, notsymbol(following), freed' \in Seq(Tokens0),
         NEW c \in CommandRecord, c.pipe_in = cmd.pipe_in, NEW s \in 1 .. 5,
         GoOn(Set(c), Behind2, s)
  PROVE  ReadSound(text)'
<1>1. PICK k : k = Consumed(text)
  OBVIOUS
<1>2. following # NULL /\ Ordinary(following) /\ word \in Symbols /\ word # "|"
  BY DEF notsymbol, Ordinary, Symbols, Paths
<1>3. /\ k \in Nat /\ k + 2 <= Len(text)
      /\ word = text[k + 1] /\ following = text[k + 2]
      /\ Fits(Behind2, text) /\ k + 2 = Len(text) + 1 - Len(Behind2)
      /\ ReadSoFar(text, k, cmd)
  BY <1>1, <1>2, SymbolRead
<1>4. ReadSoFar(text, k + 2, c)
  BY <1>2, <1>3, TakeSymbol DEF ReadSoFar
<1>5. c = Set(c)[Len(Set(c))]
  BY LastCommand, LastSet DEF Parsable, ParserOK, ParserTypeOK
<1> QED
  BY <1>3, <1>4, <1>5, GoOnSound

LEMMA RedirectInSound ==
  ASSUME NEW text \in Seq(Tokens), Parsable, ReadSound(text), RedirectIn
  PROVE  ReadSound(text)'
<1>1. /\ verdict = "pending" /\ stage > 0 /\ word # NULL /\ word \in Paths
      /\ ParserOK /\ freed \in Seq(Tokens0)
  BY DEF RedirectIn, Reached, TestFor, Parsable, ParserOK, ParserTypeOK, Paths
<1>2. CASE notsymbol(following)
  <2>1. PICK c : c = [cmd EXCEPT !.rdr_in = following]
    OBVIOUS
  <2>2. following \in Words
    BY <1>1, <1>2, FrontOfQueue, OrdinaryWord
  <2>3. c \in CommandRecord /\ c.pipe_in = cmd.pipe_in
    BY <1>1, <2>1, <2>2, LastCommand DEF CommandRecord
  <2>4. GoOn(Set(c), Behind2, 2) /\ freed' = freed /\ 2 \in 1 .. 5
    BY <1>2, <2>1 DEF RedirectIn
  <2> QED
    BY <1>1, <1>2, <2>3, <2>4, RedirectSound
<1>3. CASE ~ notsymbol(following)
  BY <1>3, RejectSound DEF RedirectIn
<1> QED
  BY <1>2, <1>3

LEMMA RedirectOutSound ==
  ASSUME NEW text \in Seq(Tokens), Parsable, ReadSound(text), RedirectOut
  PROVE  ReadSound(text)'
<1>1. /\ verdict = "pending" /\ stage > 0 /\ word # NULL /\ word \in Paths
      /\ ParserOK /\ freed \in Seq(Tokens0)
  BY DEF RedirectOut, Reached, TestFor, Parsable, ParserOK, ParserTypeOK, Paths
<1>2. CASE notsymbol(following)
  <2>1. PICK c : c = [cmd EXCEPT !.rdr_out = following, !.truncate = @ \/ word = ">"]
    OBVIOUS
  <2>2. following \in Words
    BY <1>1, <1>2, FrontOfQueue, OrdinaryWord
  <2>3. c \in CommandRecord /\ c.pipe_in = cmd.pipe_in
    BY <1>1, <2>1, <2>2, LastCommand DEF CommandRecord
  <2>4. GoOn(Set(c), Behind2, 3) /\ freed' = freed /\ 3 \in 1 .. 5
    BY <1>2, <2>1 DEF RedirectOut
  <2> QED
    BY <1>1, <1>2, <2>3, <2>4, RedirectSound
<1>3. CASE ~ notsymbol(following)
  BY <1>3, RejectSound DEF RedirectOut
<1> QED
  BY <1>2, <1>3

LEMMA PipeSound ==
  ASSUME NEW text \in Seq(Tokens), Parsable, ReadSound(text), Pipe
  PROVE  ReadSound(text)'
<1>1. /\ verdict = "pending" /\ stage > 0 /\ word # NULL /\ word = "|"
      /\ ParserOK /\ freed \in Seq(Tokens0)
  BY DEF Pipe, Reached, TestFor, Parsable, ParserOK, ParserTypeOK
<1>2. CASE ~ cmd.pipe_in /\ notsymbol(following)
  <2>1. following \in Tokens /\ following # NULL
    BY <1>1, <1>2, FrontOfQueue, OrdinaryWord
  <2>2. PICK c : c = [cmd EXCEPT !.pipe_out = TRUE]
    OBVIOUS
  <2>3. PICK d : d = [new_command(freed) EXCEPT !.name = following, !.pipe_in = TRUE]
    OBVIOUS
  <2>4. c \in CommandRecord
    BY <1>1, <2>2, LastCommand DEF CommandRecord
  <2>5. d \in CommandRecord /\ d.pipe_in = TRUE
    BY <1>1, <2>1, <2>3, NewCommandType
  <2>6. GoOn(Append(Set(c), d), Behind2, 4) /\ 4 \in 1 .. 5
    BY <1>2, <2>2, <2>3 DEF Pipe
  <2>7. PICK k : k = Consumed(text)
    OBVIOUS
  <2>8. Ordinary(following) /\ word \in Symbols
    BY <1>1, <1>2 DEF notsymbol, Ordinary, Symbols
  <2>9. /\ k \in Nat /\ k + 2 <= Len(text)
        /\ word = text[k + 1] /\ following = text[k + 2]
        /\ Fits(Behind2, text) /\ k + 2 = Len(text) + 1 - Len(Behind2)
        /\ ReadSoFar(text, k, cmd)
    BY <1>1, <2>1, <2>7, <2>8, SymbolRead
  <2>10. ReadSoFar(text, k + 2, d)
    BY <1>1, <1>2, <2>5, <2>8, <2>9, TakeSymbol DEF ReadSoFar
  <2>11. Set(c) \in Seq(CommandRecord)
    BY <1>1, <2>4, LastCommand, LenProperties, LongSeq, ExceptSeq DEF Set, ParserOK, ParserTypeOK
  <2>12. d = Append(Set(c), d)[Len(Append(Set(c), d))]
    BY <2>5, <2>11, LastAppend
  <2> QED
    BY <1>1, <2>6, <2>9, <2>10, <2>12, GoOnSound
<1>3. CASE ~ (~ cmd.pipe_in /\ notsymbol(following))
  BY <1>3, RejectSound DEF Pipe
<1> QED
  BY <1>2, <1>3

LEMMA BackgroundSound ==
  ASSUME NEW text \in Seq(Tokens), Parsable, ReadSound(text), Background
  PROVE  ReadSound(text)'
<1>1. /\ verdict = "pending" /\ stage > 0 /\ word # NULL /\ word = "&" /\ word \in Symbols
      /\ ParserOK /\ freed \in Seq(Tokens0)
  BY DEF Background, Reached, TestFor, Parsable, ParserOK, ParserTypeOK, Symbols
<1>2. PICK c : c = [cmd EXCEPT !.background = TRUE]
  OBVIOUS
<1>3. PICK d : d = [new_command(freed) EXCEPT !.name = following]
  OBVIOUS
<1>4. PICK k : k = Consumed(text)
  OBVIOUS
<1>5. c \in CommandRecord /\ clist # <<>> /\ clist \in Seq(CommandRecord)
  BY <1>1, <1>2, LastCommand DEF CommandRecord, ParserOK, ParserTypeOK
<1>6. Fits(alist, text) /\ ReadSoFar(text, k, cmd)
  BY <1>1, <1>4 DEF ReadSound
<1>7. 5 \in 1 .. 5 /\ Len(alist) \in Nat /\ Len(text) \in Nat
  BY LenProperties DEF Parsable, ParserOK, ParserTypeOK
<1>8. CASE following = NULL
  <2>1. GoOn(Set(c), Tail(alist), 5)
    BY <1>2, <1>8 DEF Background
  <2>2. /\ k \in 0 .. Len(text) /\ k + 1 \in 1 .. Len(text) /\ word = text[k + 1]
        /\ Fits(Tail(alist), text) /\ Len(Tail(alist)) = Len(alist) - 1
    BY <1>1, <1>4, <1>6, FrontOfText
  <2>3. /\ k \in Nat /\ k + 1 <= Len(text)
        /\ k + 1 = Len(text) + 1 - Len(Tail(alist))
    <3>1. k = Len(text) + 1 - Len(alist)
      BY <1>4 DEF Consumed
    <3>2. k \in Nat /\ k + 1 <= Len(text)
      BY <1>7, <2>2
    <3>3. PICK a \in Nat, b \in Nat : a = Len(alist) /\ b = Len(text)
      BY <1>7
    <3>4. Len(Tail(alist)) = a - 1 /\ k = b + 1 - a
      BY <2>2, <3>1, <3>3
    <3>5. k + 1 = b + 1 - (a - 1)
      BY <3>3, <3>4
    <3>6. Len(text) + 1 - Len(Tail(alist)) = b + 1 - (a - 1)
      BY <3>3, <3>4
    <3> QED
      BY <3>2, <3>5, <3>6
  <2>4. ReadSoFar(text, k + 1, c)
    <3> SUFFICES ASSUME SoundUpTo(text, k)
                 PROVE  SoundUpTo(text, k + 1) /\ ~ PipeOpen(text, k + 1)
      BY <1>6 DEF ReadSoFar
    <3>1. 1 \in {1, 2} /\ 1 # 2
      OBVIOUS
    <3> QED
      BY <1>1, <2>2, <2>3, <3>1, TakeAnd
  <2>5. c = Set(c)[Len(Set(c))]
    BY <1>5, LastSet
  <2> QED
    BY <1>1, <1>7, <2>1, <2>2, <2>3, <2>4, <2>5, GoOnSound
<1>9. CASE following # NULL
  <2>1. GoOn(Append(Set(c), d), Behind2, 5)
    BY <1>2, <1>3, <1>9 DEF Background
  <2>2. /\ k \in Nat /\ k + 2 <= Len(text)
        /\ word = text[k + 1] /\ following = text[k + 2]
        /\ Fits(Behind2, text) /\ k + 2 = Len(text) + 1 - Len(Behind2)
    BY <1>1, <1>4, <1>9, SymbolRead
  <2>3. ReadSoFar(text, k + 2, d)
    <3> SUFFICES ASSUME Clean(text), SoundUpTo(text, k)
                 PROVE  SoundUpTo(text, k + 2) /\ ~ PipeOpen(text, k + 2)
      BY <1>6 DEF ReadSoFar
    <3>1. k + 1 \in 1 .. Len(text) - 1 /\ (k + 1) + 1 = k + 2
      BY <1>7, <2>2
    <3>2. Ordinary(text[k + 2])
      BY <1>1, <2>2, <3>1 DEF Clean
    <3>3. 2 \in {1, 2}
      OBVIOUS
    <3> QED
      BY <1>1, <2>2, <3>2, <3>3, TakeAnd
  <2>4. following \in Tokens
    BY <1>1, <1>9, FrontOfQueue DEF Tokens0
  <2>5. d \in CommandRecord
    BY <1>1, <1>3, <2>4, NamedCommandType
  <2>6. Set(c) \in Seq(CommandRecord)
    BY <1>5, LenProperties, LongSeq, ExceptSeq DEF Set
  <2>7. d = Append(Set(c), d)[Len(Append(Set(c), d))]
    BY <2>5, <2>6, LastAppend
  <2> QED
    BY <1>1, <1>7, <2>1, <2>2, <2>3, <2>7, GoOnSound
<1> QED
  BY <1>8, <1>9

LEMMA CollectSound ==
  ASSUME NEW text \in Seq(Tokens), Parsable, ReadSound(text), Collect
  PROVE  ReadSound(text)'
<1>1. /\ verdict = "pending" /\ stage > 0 /\ ParserOK
      /\ alist \in Seq(Tokens0) /\ NullTerminated(alist)
  BY DEF Collect, Parsable, ParserOK, ParserTypeOK
<1>2. Len(alist) \in Nat /\ Len(text) \in Nat
  BY <1>1, LenProperties
<1>3. PICK n \in 0 .. Len(alist) - 1 :
        /\ \A i \in 1 .. n : notsymbol(alist[i])
        /\ GoOn(Set([cmd EXCEPT !.args =
                       Overwrite(@, <<cmd.name>> \o SubSeq(alist, 1, n) \o <<NULL>>)]),
                SubSeq(alist, n + 1, Len(alist)), 1)
  BY DEF Collect
<1> DEFINE values == <<cmd.name>> \o SubSeq(alist, 1, n) \o <<NULL>>
<1>4. PICK c : c = [cmd EXCEPT !.args = Overwrite(@, values)]
  OBVIOUS
<1>5. PICK rest : rest = SubSeq(alist, n + 1, Len(alist))
  OBVIOUS
<1>6. GoOn(Set(c), rest, 1) /\ 1 \in 1 .. 5
  BY <1>3, <1>4, <1>5
<1>7. clist # <<>> /\ cmd \in CommandRecord /\ clist \in Seq(CommandRecord)
  BY <1>1, LastCommand DEF ParserOK, ParserTypeOK
<1>8. values \in Seq(Tokens0)
  <2>1. \A i \in 1 .. n : alist[i] \in Tokens0
    BY <1>1, <1>2, ElementOfSeq
  <2>2. SubSeq(alist, 1, n) \in Seq(Tokens0)
    BY <1>2, <2>1, SubSeqProperties
  <2>3. <<cmd.name>> \in Seq(Tokens0) /\ <<NULL>> \in Seq(Tokens0)
    BY <1>7 DEF Tokens0, CommandRecord
  <2>4. <<cmd.name>> \o SubSeq(alist, 1, n) \in Seq(Tokens0)
    BY <2>2, <2>3, ConcatProperties
  <2> QED
    BY <2>3, <2>4, ConcatProperties
<1> HIDE DEF values
<1>9. cmd.args \in Seq(Tokens0)
  BY <1>1, LastCommand
<1>10. Overwrite(cmd.args, values) \in Seq(Tokens0)
  BY <1>8, <1>9, OverwriteType
<1>11. c \in CommandRecord /\ c.pipe_in = cmd.pipe_in
  BY <1>4, <1>7, <1>10 DEF CommandRecord, Tokens0
<1>12. c = Set(c)[Len(Set(c))]
  BY <1>7, <1>11, LastSet
<1>13. PICK k : k = Consumed(text)
  OBVIOUS
<1>14. Fits(alist, text) /\ ReadSoFar(text, k, cmd)
  BY <1>1, <1>13 DEF ReadSound
<1>15. Fits(rest, text) /\ Len(rest) = Len(alist) - n
  BY <1>1, <1>5, <1>14, FitsRest
<1>16. /\ k \in Nat /\ n \in Nat /\ k + n <= Len(text)
       /\ k + n = Len(text) + 1 - Len(rest)
  BY <1>2, <1>13, <1>14, <1>15 DEF Consumed, Fits
<1>17. ASSUME NEW i \in 1 .. n PROVE Ordinary(text[k + i])
  <2>1. i \in 1 .. Len(alist) /\ k + i \in 1 .. Len(text)
    BY <1>2, <1>16
  <2>2. alist[i] = tokenize(text)[k + i]
    BY <1>13, <1>14, <2>1 DEF Fits, Consumed
  <2>3. tokenize(text)[k + i] = text[k + i]
    BY <2>1, AppendProperties DEF tokenize
  <2> QED
    BY <1>3, <2>2, <2>3 DEF notsymbol, Ordinary
<1>18. ReadSoFar(text, k + n, c)
  BY <1>11, <1>14, <1>16, <1>17, TakeWords DEF ReadSoFar
<1> QED
  BY <1>1, <1>6, <1>12, <1>15, <1>16, <1>18, GoOnSound

LEMMA EndOfLineSound ==
  ASSUME NEW text \in Seq(Tokens), ReadSound(text), EndOfLine
  PROVE  ReadSound(text)'
<1>1. /\ UNCHANGED <<alist, clist, stage>> /\ verdict' = "parsed" /\ verdict = "pending"
      /\ stage > 0 /\ word = NULL /\ stage' # 0 /\ word' = NULL
  BY DEF EndOfLine, word
<1>2. /\ Fits(alist, text)' /\ Consumed(text)' = Consumed(text) /\ cmd' = cmd
      /\ ReadSoFar(text, Consumed(text), cmd)
  BY <1>1 DEF ReadSound, Fits, tokenize, Consumed, cmd
<1>3. ReadSoFar(text, Consumed(text), cmd)'
  BY <1>2 DEF ReadSoFar, Clean, SoundUpTo, PipeOpen, Ordinary
<1> QED
  BY <1>1, <1>2, <1>3 DEF ReadSound

LEMMA ParseSound ==
  ASSUME NEW text \in Seq(Tokens), Parsable, ReadSound(text), ParseStep
  PROVE  ReadSound(text)'
BY FirstWordSound, RedirectInSound, RedirectOutSound, PipeSound, BackgroundSound,
   CollectSound, EndOfLineSound DEF ParseStep

(* The line that is parsed is the last one read.                           *)
LineSound ==
  procs[shell].pc = "parse" =>
    lines # <<>> /\ \E text \in Seq(Tokens) : text = current /\ ReadSound(text)

LEMMA NewLineSound ==
  ASSUME InputTypeOK, NEW text \in Seq(Tokens), Tokenize(text)
  PROVE  LineSound'
<1>1. lines' # <<>> /\ current' = text
  <2>1. PICK K \in Seq(Seq(Tokens)) : K = lines
    BY DEF InputTypeOK
  <2>2. lines' = Append(K, text)
    BY <2>1 DEF Tokenize
  <2> QED
    BY <2>2, AppendProperties DEF current
<1>2. alist' = tokenize(text) /\ verdict' = "pending" /\ stage' = 0
  BY DEF Tokenize, Start
<1>3. Len(tokenize(text)) = Len(text) + 1 /\ Len(text) \in Nat
  BY AppendProperties, LenProperties DEF tokenize
<1>4. PICK new : new = tokenize(text)
  OBVIOUS
<1>5. Fits(new, text) /\ Len(text) + 1 - Len(new) = 0
  BY <1>3, <1>4 DEF Fits
<1>6. Fits(alist, text)' /\ Consumed(text)' = 0
  BY <1>2, <1>4, <1>5 DEF Consumed, Fits, tokenize
<1>7. ReadSound(text)'
  BY <1>2, <1>6 DEF ReadSound
<1> QED
  BY <1>1, <1>7 DEF LineSound

LEMMA LineSoundStep == IInv /\ LineSound /\ [Next]_vars => LineSound'
<1> SUFFICES ASSUME IInv, LineSound, [Next]_vars PROVE LineSound'
  OBVIOUS
<1> USE DEF IInv
<1>1. ASSUME UNCHANGED <<parseVars, lines>>,
             procs'[shell].pc = "parse" => procs[shell].pc = "parse"
      PROVE  LineSound'
  <2>1. UNCHANGED <<alist, clist, stage, verdict, freed, lines>>
    BY <1>1 DEF parseVars
  <2>2. \A text : ReadSound(text) => ReadSound(text)'
    BY <2>1 DEF ReadSound, Fits, Consumed, tokenize, ReadSoFar, Clean, SoundUpTo, PipeOpen,
       Ordinary, cmd, word
  <2>3. current' = current
    BY <2>1 DEF current
  <2> QED
    BY <1>1, <2>1, <2>2, <2>3 DEF LineSound
<1>2. CASE ReadTerminal
  <2>1. LineAt(ahead) \in Seq(Tokens)
    BY <1>2, LineAtType, LenProperties DEF ReadTerminal, InputTypeOK
  <2>2. PICK text \in Seq(Tokens) : Tokenize(text)
    BY <1>2, <2>1 DEF ReadTerminal
  <2> QED
    BY <2>2, NewLineSound
<1>3. CASE ReadFile
  <2>1. BufferOK
    BY ShellRecord, LenProperties DEF BufferOK, RecordOK, ProcessRecord, InputTypeOK
  <2>2. PICK text \in Seq(Tokens) : Tokenize(text)
    BY <1>3, <2>1, FgetsType DEF ReadFile
  <2> QED
    BY <2>2, NewLineSound
<1>4. CASE Parse
  <2>1. procs[shell].pc = "parse" /\ ParseStep /\ UNCHANGED lines
    BY <1>4 DEF Parse, inputVars
  <2>2. Parsable
    BY <2>1 DEF Parsable, InsideLine
  <2>3. lines # <<>> /\ current' = current
    BY <2>1 DEF LineSound, current
  <2>4. PICK text \in Seq(Tokens) : text = current /\ ReadSound(text)
    BY <2>1 DEF LineSound
  <2>5. ReadSound(text)'
    BY <2>1, <2>2, <2>4, ParseSound
  <2> QED
    BY <2>1, <2>3, <2>4, <2>5 DEF LineSound
<1>5. CASE Parsed
  <2>1. procs'[shell].pc # "parse"
    BY <1>5, ShellRecord DEF Parsed, ProcessRecord
  <2> QED
    BY <2>1 DEF LineSound
<1>6. CASE EndOfFile
  <2>1. procs'[shell].pc # "parse"
    BY <1>6, ShellRecord DEF EndOfFile, End, Ended, NewProcess
  <2> QED
    BY <2>1 DEF LineSound
<1>7. ASSUME NEW p \in DOMAIN procs,
             Execute(p) \/ Child(p) \/ Write(p) \/ Read(p) \/ Finish(p)
      PROVE  LineSound'
  <2>1. UNCHANGED <<parseVars, lines>>
    BY <1>7 DEF Execute, Child, Return, Quit, ForkCommand, Wait, MakePipe, ForkReader,
       BecomeWriter, BecomeReader, Redirect, Exec, Write, Read, Finish, inputVars
  <2>2. procs'[shell].pc = "parse" => procs[shell].pc = "parse"
    BY <1>7, NoOtherReads
  <2> QED
    BY <1>1, <2>1, <2>2
<1>8. CASE UNCHANGED vars
  BY <1>1, <1>8 DEF vars, inputVars
<1> QED
  BY <1>2, <1>3, <1>4, <1>5, <1>6, <1>7, <1>8 DEF Next, Main

LEMMA WholeLine ==
  ASSUME NEW text \in Seq(Tokens), Clean(text), SoundUpTo(text, Len(text))
  PROVE  /\ text # <<>> /\ Ordinary(text[1]) /\ NoChain(text)
         /\ \A i \in DOMAIN text : text[i] \in Paths \cup {"|"} =>
              i < Len(text) /\ Ordinary(text[i + 1])
<1>1. DOMAIN text = 1 .. Len(text) /\ Len(text) \in Nat /\ text # <<>>
  BY LenProperties, LongSeq DEF SoundUpTo
<1>2. NoChain(text)
  BY <1>1 DEF SoundUpTo, NoChain
<1> QED
  BY <1>1, <1>2 DEF SoundUpTo

(* A line that parse accepts has a word behind every redirection and at    *)
(* both ends of every pipe, and no chained pipes, if it has a word behind  *)
(* every & inside.                                                         *)
THEOREM AcceptedLinesSound == Spec => []AcceptedIsSound
<1>1. Init => LineSound
  BY DEF Init, LineSound, NewProcess, shell
<1>2. Spec => []LineSound
  BY <1>1, LineSoundStep, Invariance, PTL DEF Spec
<1>3. IInv /\ LineSound => AcceptedIsSound
  <2> SUFFICES ASSUME IInv, LineSound, At(shell, "parse"), verdict = "parsed", Clean(current)
               PROVE  /\ current # <<>> /\ Ordinary(current[1]) /\ NoChain(current)
                      /\ \A i \in DOMAIN current : current[i] \in Paths \cup {"|"} =>
                           i < Len(current) /\ Ordinary(current[i + 1])
    BY DEF AcceptedIsSound, Parsing, Clean
  <2>1. PICK text \in Seq(Tokens) : text = current /\ ReadSound(text)
    BY DEF LineSound, At
  <2>2. Parsable
    BY DEF IInv, Parsable, InsideLine, At
  <2>3. /\ Fits(alist, text) /\ stage > 0 /\ word = NULL
        /\ ReadSoFar(text, Consumed(text), cmd)
    BY <2>1 DEF ReadSound
  <2>4. PICK k : k = Consumed(text)
    OBVIOUS
  <2>5. k = Len(text)
    BY <2>2, <2>3, <2>4, FrontOfText
  <2>6. Clean(text)
    BY <2>1
  <2>7. SoundUpTo(text, Len(text))
    BY <2>3, <2>4, <2>5, <2>6 DEF ReadSoFar
  <2>8. /\ text # <<>> /\ Ordinary(text[1]) /\ NoChain(text)
        /\ \A i \in DOMAIN text : text[i] \in Paths \cup {"|"} =>
             i < Len(text) /\ Ordinary(text[i + 1])
    BY <2>6, <2>7, WholeLine
  <2> QED
    BY <2>1, <2>8
<1> QED
  BY <1>2, <1>3, Invariance, PTL

-----------------------------------------------------------------------------
(* Who carries out which command.                                          *)

Reads(t, i) == commands[t][i].pipe_in
Writes(t, i) == commands[t][i].pipe_out

(* A child cannot carry out cd and quit.                                   *)
ByChild(t, i) == commands[t][i].name \notin {"cd", "quit"}

(* The process with record r is still to carry out command i of line t: it *)
(* was forked for it, or it will take it from the queue behind a pipe.     *)
Duty(r, t, i) ==
  /\ r.turn = t /\ ByChild(t, i)
  /\ \/ r.pc \in {"pipe", "fork", "writer", "redirect", "exec"} /\ r.c = i
     \/ r.pc \in {"pipe", "fork", "reader"} /\ r.next = i /\ Reads(t, i)

Owed(t, i) == \E p \in DOMAIN procs : Duty(procs[p], t, i)

(* The shell is in the loop over the commands of line t.                   *)
Executing(t) == procs[shell].pc \in {"next", "wait"} /\ procs[shell].turn = t

AtMost(t, i) == IF BehindCd(t, i) THEN 2 ELSE 1

(* How often a command may have been carried out so far: the front of the  *)
(* queue once if it is behind a cd or a pipe, what is behind it never.     *)
ForReader(t, i) == Reads(t, i) /\ ByChild(t, i)

Limit(t, i) ==
  IF Executing(t) /\ i >= procs[shell].next
  THEN IF i = procs[shell].next /\ (BehindCd(t, i) \/ ForReader(t, i)) THEN 1 ELSE 0
  ELSE AtMost(t, i)

(* The loop is still to take the command from the queue.                   *)
StillAhead(t, i) ==
  /\ Executing(t) /\ i >= procs[shell].next
  /\ ~ (i = procs[shell].next /\ ForReader(t, i))

(* No two processes are to carry out the same command; with what is to be  *)
(* done the limit is not exceeded; and nothing is forgotten.               *)
OneOwner(t, i) ==
  \A p, q \in DOMAIN procs : Duty(procs[p], t, i) /\ Duty(procs[q], t, i) => p = q
WithinLimit(t, i) ==
  /\ ran[t][i] <= Limit(t, i)
  /\ Owed(t, i) => ran[t][i] + 1 <= Limit(t, i)
Settled(t, i) ==
  \/ ran[t][i] > 0 \/ Owed(t, i) \/ StillAhead(t, i) \/ LeftToChild(t, i)
  \/ procs[shell].pc = "ended"
RunOK(t, i) == OneOwner(t, i) /\ WithinLimit(t, i) /\ Settled(t, i)
RunsOK == \A t \in DOMAIN commands : \A i \in DOMAIN commands[t] : RunOK(t, i)

(* A process is at a command of its line; one with both ends of a pipe has *)
(* a writing command, and the reading one in front, or again the one       *)
(* behind a cd that was done; one that is not the shell's child reads.     *)
CommandOK(r) ==
  /\ r.pc \in ForkLabels \cup ChildLabels \cup RunLabels =>
       r.turn \in DOMAIN commands /\ r.c \in DOMAIN commands[r.turn]
  /\ r.pc \in ForkLabels \cup {"pipe"} =>
       /\ Writes(r.turn, r.c)
       /\ r.next \in DOMAIN commands[r.turn]
       /\ \/ Reads(r.turn, r.next)
          \/ BehindCd(r.turn, r.next) /\ ran[r.turn][r.next - 1] > 0
  /\ r.pc \in {"pipe", "fork", "writer", "redirect", "exec"} /\ r.parent # shell =>
       Reads(r.turn, r.c)
  /\ r.pc \in RunLabels => ran[r.turn][r.c] > 0 \/ ~ ByChild(r.turn, r.c)
  /\ r.pc = "internal" => commands[r.turn][r.c].name \in Internal
CommandsOK == \A p \in DOMAIN procs : CommandOK(procs[p])

-----------------------------------------------------------------------------
(* Most steps of a child change nothing that is to be done.                *)

MovesOn(s, r) ==
  /\ r.turn = s.turn /\ r.parent = s.parent /\ r.unread = s.unread /\ r.behind = s.behind
  /\ \/ s.pc = "pipe" /\ r.pc = "fork" /\ r.c = s.c /\ r.next = s.next
     \/ s.pc = "writer" /\ r.pc = "redirect" /\ r.c = s.c
     \/ s.pc = "reader" /\ r.pc = "redirect" /\ r.c = s.next /\ Reads(s.turn, s.next)
     \/ s.pc = "redirect" /\ r.pc = "exec" /\ r.c = s.c
     \/ s.pc \in RunLabels /\ r.pc = s.pc /\ r.c = s.c
MayLeave(s) == s.pc \in RunLabels \/ (s.pc = "reader" /\ ~ Reads(s.turn, s.next))

Quiet(p) == 
  MakePipe(p) \/ BecomeWriter(p) \/ BecomeReader(p) \/ Redirect(p) \/ Write(p)
    \/ Read(p) \/ Finish(p)

LEMMA QuietStep ==
  ASSUME IInv, NEW p \in DOMAIN procs, Quiet(p)
  PROVE  /\ p # shell /\ UNCHANGED <<commands, ran, script, lines>>
         /\ \/ UNCHANGED procs
            \/ procs' = [procs EXCEPT ![p] = Ended] /\ MayLeave(procs[p])
            \/ \E r : procs' = [procs EXCEPT ![p] = r] /\ MovesOn(procs[p], r)
<1>1. UNCHANGED <<commands, ran, script, lines>>
  BY DEF Quiet, MakePipe, BecomeWriter, BecomeReader, Redirect, Write, Read, Finish,
     runVars, scriptVars, inputVars
<1>2. procs[p].pc \in ForkLabels \cup ChildLabels \cup RunLabels
  BY DEF Quiet, MakePipe, BecomeWriter, BecomeReader, Redirect, Write, Read, Finish, At,
     Runs, ForkLabels, ChildLabels, RunLabels
<1>3. p # shell /\ procs[p] \in ProcessRecord
  BY <1>2, ChildRecord DEF IInv
<1>4. ASSUME NEW r, r \in {[procs[p] EXCEPT !.pfd = {Drain(p), Mouth(p)}, !.pc = "fork"]},
             MakePipe(p)
      PROVE  procs' = [procs EXCEPT ![p] = r] /\ MovesOn(procs[p], r)
  BY <1>3, <1>4 DEF MakePipe, At, MovesOn, ProcessRecord
<1>5. ASSUME NEW r, r \in {[procs[p] EXCEPT !.pfd = @ \ {Drain(p)}, !.out = Mouth(p),
                                           !.pc = "redirect"]},
             BecomeWriter(p)
      PROVE  procs' = [procs EXCEPT ![p] = r] /\ MovesOn(procs[p], r)
  BY <1>3, <1>5 DEF BecomeWriter, At, MovesOn, ProcessRecord
<1>6. CASE BecomeReader(p)
  <2> DEFINE k == procs[p].parent
             i == procs[p].next
             r == [procs[p] EXCEPT !.pfd = @ \ {Mouth(k)}, !.in = Drain(k),
                                   !.c = i, !.next = i + 1, !.pc = "redirect"]
  <2>1. CASE Command(p, i).pipe_in
    <3>1. procs' = [procs EXCEPT ![p] = r]
      BY <1>6, <2>1 DEF BecomeReader
    <3>2. MovesOn(procs[p], r)
      BY <1>3, <1>6, <2>1 DEF BecomeReader, At, MovesOn, ProcessRecord, Reads, Command
    <3> QED
      BY <1>1, <1>3, <3>1, <3>2
  <2>2. CASE ~ Command(p, i).pipe_in
    BY <1>1, <1>3, <1>6, <2>2 DEF BecomeReader, At, Exit, End, MayLeave, Reads, Command
  <2> QED
    BY <2>1, <2>2
<1>7. CASE Redirect(p)
  <2>1. PICK in \in {File, procs[p].in}, out \in {File, procs[p].out} :
          procs' = [procs EXCEPT ![p].in = in, ![p].out = out, ![p].pc = "exec"]
    BY <1>7 DEF Redirect, OpenedOr
  <2> DEFINE r == [procs[p] EXCEPT !.in = in, !.out = out, !.pc = "exec"]
  <2>2. procs' = [procs EXCEPT ![p] = r]
    BY <2>1
  <2>3. MovesOn(procs[p], r)
    BY <1>3, <1>7 DEF Redirect, At, MovesOn, ProcessRecord
  <2> QED
    BY <1>1, <1>3, <2>2, <2>3
<1>8. CASE Write(p) \/ Finish(p)
  BY <1>1, <1>3, <1>8 DEF Write, Finish, Runs, RunLabels, MayLeave, End, Exit
<1>9. CASE Read(p)
  <2>1. UNCHANGED procs \/ \E h : procs' = [procs EXCEPT ![p].habit = h]
    BY <1>9 DEF Read
  <2>2. ASSUME NEW h, procs' = [procs EXCEPT ![p].habit = h]
        PROVE  \E r : procs' = [procs EXCEPT ![p] = r] /\ MovesOn(procs[p], r)
    <3> DEFINE r == [procs[p] EXCEPT !.habit = h]
    <3>1. procs' = [procs EXCEPT ![p] = r]
      BY <2>2
    <3>2. MovesOn(procs[p], r)
      BY <1>3, <1>9 DEF Read, Runs, RunLabels, MovesOn, ProcessRecord
    <3> QED
      BY <3>1, <3>2
  <2> QED
    BY <1>1, <1>3, <2>1, <2>2
<1> QED
  BY <1>1, <1>3, <1>4, <1>5, <1>6, <1>7, <1>8, <1>9 DEF Quiet

(* What is left to do, and where a process is, is the same after that.     *)
SameDuty(s, r) ==
  \A t \in DOMAIN commands : \A i \in DOMAIN commands[t] : Duty(s, t, i) <=> Duty(r, t, i)

LEMMA MovesOnDuty ==
  ASSUME NEW s, NEW r, MovesOn(s, r)
  PROVE  SameDuty(s, r) /\ s.pc \in ForkLabels \cup ChildLabels \cup RunLabels
                        /\ r.pc \in ForkLabels \cup ChildLabels \cup RunLabels
BY DEF MovesOn, SameDuty, Duty, RunLabels, ForkLabels, ChildLabels, Reads

LEMMA LeaveDuty ==
  ASSUME NEW s, MayLeave(s)
  PROVE  SameDuty(s, Ended)
BY DEF MayLeave, SameDuty, Duty, RunLabels, Reads, Ended, NewProcess

(* Lines are added, and what was carried out stays so.                     *)
HistoryGrows ==
  \A t \in DOMAIN commands :
    /\ t \in DOMAIN commands' /\ commands'[t] = commands[t]
    /\ \A i \in DOMAIN commands[t] : ran[t][i] > 0 => ran'[t][i] > 0

LEMMA RanNat ==
  ASSUME HistoryTypeOK, NEW t \in DOMAIN commands, NEW i \in DOMAIN commands[t]
  PROVE  ran[t][i] \in Nat /\ t \in DOMAIN ran /\ i \in DOMAIN ran[t]
<1>1. t \in 1 .. Len(ran) /\ ran \in Seq(Seq(Nat)) /\ t \in DOMAIN ran
  BY LenProperties DEF HistoryTypeOK
<1>2. ran[t] \in Seq(Nat) /\ i \in DOMAIN ran[t]
  BY <1>1, ElementOfSeq DEF HistoryTypeOK
<1> QED
  BY <1>1, <1>2, ElementOfSeq, LenProperties

LEMMA SameHistory ==
  ASSUME HistoryTypeOK, UNCHANGED <<commands, ran>>
  PROVE  HistoryGrows
BY RanNat DEF HistoryGrows

(* What carrying out one command counts.                                   *)
LEMMA Counted ==
  ASSUME HistoryTypeOK, NEW p, NEW c, CarriedOut(p, c),
         NEW u, u = procs[p].turn, NEW t \in DOMAIN commands, NEW i \in DOMAIN commands[t]
  PROVE  ran'[t][i] = IF t = u /\ i = c THEN ran[t][i] + 1 ELSE ran[t][i]
<1>1. t \in DOMAIN ran /\ i \in DOMAIN ran[t]
  BY RanNat
<1>2. ran' = [ran EXCEPT ![u][c] = @ + 1]
  BY DEF CarriedOut
<1>3. CASE t = u
  <2>1. ran'[t] = [ran[t] EXCEPT ![c] = @ + 1]
    BY <1>1, <1>2, <1>3
  <2> QED
    BY <1>1, <1>3, <2>1
<1>4. CASE t # u
  BY <1>1, <1>2, <1>4
<1> QED
  BY <1>3, <1>4

LEMMA CountedGrows ==
  ASSUME HistoryTypeOK, NEW p, NEW c, CarriedOut(p, c), UNCHANGED commands
  PROVE  HistoryGrows
<1>1. PICK u : u = procs[p].turn
  OBVIOUS
<1>2. ASSUME NEW t \in DOMAIN commands, NEW i \in DOMAIN commands[t]
      PROVE  ran[t][i] > 0 => ran'[t][i] > 0
  <2>1. ran[t][i] \in Nat
    BY RanNat
  <2>2. ran'[t][i] = IF t = u /\ i = c THEN ran[t][i] + 1 ELSE ran[t][i]
    BY <1>1, Counted
  <2> QED
    BY <2>1, <2>2
<1> QED
  BY <1>2 DEF HistoryGrows

LEMMA ParsedGrows ==
  ASSUME HistoryTypeOK, ParserOK, Parsed
  PROVE  /\ HistoryGrows
         /\ commands' \in Seq(Seq(CommandRecord)) /\ Len(commands') = Len(commands) + 1
         /\ commands'[Len(commands) + 1] = clist
         /\ ran'[Len(commands) + 1] = [i \in DOMAIN clist |-> 0]
         /\ \A t \in DOMAIN commands : ran'[t] = ran[t]
<1> DEFINE row == [i \in DOMAIN clist |-> 0]
           n == Len(commands)
<1>1. /\ commands' = Append(commands, clist) /\ ran' = Append(ran, row)
      /\ clist \in Seq(CommandRecord)
      /\ commands \in Seq(Seq(CommandRecord)) /\ ran \in Seq(Seq(Nat))
      /\ Len(ran) = n /\ n \in Nat /\ DOMAIN commands = 1 .. n
  BY LenProperties DEF Parsed, ParserOK, ParserTypeOK, HistoryTypeOK
<1>2. row \in Seq(Nat)
  <2>1. DOMAIN clist = 1 .. Len(clist) /\ Len(clist) \in Nat
    BY <1>1, LenProperties
  <2> QED
    BY <2>1
<1>3. /\ commands' \in Seq(Seq(CommandRecord)) /\ Len(commands') = n + 1
      /\ \A t \in 1 .. n : commands'[t] = commands[t]
      /\ commands'[n + 1] = clist
  BY <1>1, AppendProperties
<1> HIDE DEF row
<1>4. /\ \A t \in 1 .. n : ran'[t] = ran[t]
      /\ ran'[n + 1] = row
  BY <1>1, <1>2, AppendProperties
<1>5. DOMAIN commands' = 1 .. n + 1
  BY <1>3, LenProperties
<1>6. ASSUME NEW t \in DOMAIN commands
      PROVE  t \in DOMAIN commands' /\ commands'[t] = commands[t] /\ ran'[t] = ran[t]
  BY <1>1, <1>3, <1>4, <1>5
<1>7. HistoryGrows
  <2>1. ASSUME NEW t \in DOMAIN commands, NEW i \in DOMAIN commands[t]
        PROVE  ran[t][i] > 0 => ran'[t][i] > 0
    BY <1>6
  <2> QED
    BY <1>6, <2>1 DEF HistoryGrows
<1> QED
  BY <1>3, <1>4, <1>6, <1>7 DEF row

(* Counts that have become positive stay so.                               *)
LEMMA CommandKept ==
  ASSUME HistoryTypeOK, HistoryGrows, NEW r, CommandOK(r)
  PROVE  CommandOK(r)'
<1>1. \A t \in DOMAIN commands : t \in DOMAIN commands' /\ commands'[t] = commands[t]
  BY DEF HistoryGrows
<1>2. \A t \in DOMAIN commands : \A i \in DOMAIN commands[t] :
        ran[t][i] > 0 => ran'[t][i] > 0
  BY DEF HistoryGrows
<1>3. ASSUME NEW t \in DOMAIN commands, NEW i \in DOMAIN commands[t], BehindCd(t, i)
      PROVE  i - 1 \in DOMAIN commands[t]
  <2>1. commands[t] \in Seq(CommandRecord)
    BY LenProperties, ElementOfSeq DEF HistoryTypeOK
  <2> QED
    BY <1>3, <2>1, LenProperties DEF BehindCd
<1>4. ASSUME r.pc \in ForkLabels \cup ChildLabels \cup RunLabels
      PROVE  /\ r.turn \in DOMAIN commands /\ r.c \in DOMAIN commands[r.turn]
             /\ r.turn \in DOMAIN commands' /\ commands'[r.turn] = commands[r.turn]
  BY <1>1, <1>4 DEF CommandOK
<1>5. ASSUME r.pc \in ForkLabels \cup {"pipe"}
      PROVE  /\ Writes(r.turn, r.c)'
             /\ r.next \in DOMAIN commands'[r.turn]
             /\ \/ Reads(r.turn, r.next)'
                \/ BehindCd(r.turn, r.next)' /\ ran'[r.turn][r.next - 1] > 0
  <2>1. r.pc \in ForkLabels \cup ChildLabels \cup RunLabels
    BY <1>5 DEF ChildLabels
  <2>2. /\ Writes(r.turn, r.c)
        /\ r.next \in DOMAIN commands[r.turn]
        /\ \/ Reads(r.turn, r.next)
           \/ BehindCd(r.turn, r.next) /\ ran[r.turn][r.next - 1] > 0
    BY <1>5 DEF CommandOK
  <2> QED
    BY <1>2, <1>3, <1>4, <2>1, <2>2 DEF Writes, Reads, BehindCd
<1>6. ASSUME r.pc \in RunLabels
      PROVE  ran'[r.turn][r.c] > 0 \/ ~ ByChild(r.turn, r.c)'
  BY <1>2, <1>4, <1>6 DEF CommandOK, ByChild
<1>7. ASSUME r.pc \in {"pipe", "fork", "writer", "redirect", "exec"}, r.parent # shell
      PROVE  Reads(r.turn, r.c)'
  <2>1. Reads(r.turn, r.c) /\ r.pc \in ForkLabels \cup ChildLabels \cup RunLabels
    BY <1>7 DEF CommandOK, ForkLabels, ChildLabels
  <2> QED
    BY <1>4, <2>1 DEF Reads
<1>8. ASSUME r.pc = "internal"
      PROVE  commands'[r.turn][r.c].name \in Internal
  <2>1. commands[r.turn][r.c].name \in Internal
        /\ r.pc \in ForkLabels \cup ChildLabels \cup RunLabels
    BY <1>8 DEF CommandOK, RunLabels
  <2> QED
    BY <1>4, <2>1
<1> QED
  BY <1>4, <1>5, <1>6, <1>7, <1>8 DEF CommandOK

(* The processes after a step.                                             *)
LEMMA ChangeValues ==
  ASSUME ProcsOK, NEW p \in DOMAIN procs, NEW r, procs' = [procs EXCEPT ![p] = r]
  PROVE  /\ DOMAIN procs' = DOMAIN procs /\ procs'[p] = r
         /\ \A q \in DOMAIN procs : q # p => procs'[q] = procs[q]
BY DEF ProcsOK

(* After a fork p goes on as a, and n is a new process b.                  *)
Forks(p, n, a, b) ==
  /\ n \in Nat /\ n \notin DOMAIN procs
  /\ DOMAIN procs' = DOMAIN procs \cup {n}
  /\ procs'[p] = a /\ procs'[n] = b
  /\ \A q \in DOMAIN procs : q # p => procs'[q] = procs[q]

(* Record r is a copy of m at another place.                               *)
Copied(m, r, label, parent) ==
  /\ r \in ProcessRecord /\ r.pc = label /\ r.parent = parent
  /\ r.turn = m.turn /\ r.c = m.c /\ r.next = m.next
  /\ r.unread = m.unread /\ r.behind = m.behind /\ r.eof = m.eof

LEMMA ForkValues ==
  ASSUME ProcsOK, NEW p \in DOMAIN procs, NEW m \in ProcessRecord,
         NEW here \in Labels, NEW there \in Labels, Fork(p, m, here, there)
  PROVE  \E n, a, b :
           /\ Forks(p, n, a, b)
           /\ Copied(m, a, here, m.parent) /\ Copied(m, b, there, p)
<1> DEFINE n == Len(procs) + 1
           a == [m EXCEPT !.pc = here, !.child = n]
           b == [m EXCEPT !.pc = there, !.parent = p]
           left == [procs EXCEPT ![p] = a]
<1>1. /\ procs \in Seq(ProcessRecord) /\ Len(procs) \in Nat /\ p \in 1 .. Len(procs)
      /\ DOMAIN procs = 1 .. Len(procs)
  BY LenProperties DEF ProcsOK
<1>2. n \in Nat /\ n \notin 1 .. Len(procs) /\ 1 .. n = 1 .. Len(procs) \cup {n} /\ p \in Nat
  BY <1>1
<1>3. a \in ProcessRecord /\ b \in ProcessRecord
  BY <1>2 DEF ProcessRecord
<1>4. Copied(m, a, here, m.parent) /\ Copied(m, b, there, p)
  BY <1>3 DEF ProcessRecord, Copied
<1>5. procs' = Append(left, b)
  BY DEF Fork
<1> HIDE DEF a, b
<1>6. /\ left \in Seq(ProcessRecord) /\ Len(left) = Len(procs)
      /\ \A q \in 1 .. Len(procs) : left[q] = IF q = p THEN a ELSE procs[q]
  BY <1>1, <1>3, ExceptSeq
<1> HIDE DEF left
<1>7. /\ procs' \in Seq(ProcessRecord) /\ Len(procs') = n
      /\ \A q \in 1 .. Len(procs) : procs'[q] = left[q]
      /\ procs'[n] = b
  BY <1>1, <1>3, <1>5, <1>6, AppendProperties
<1>8. DOMAIN procs' = 1 .. n
  BY <1>7, LenProperties
<1>9. procs'[p] = a /\ \A q \in DOMAIN procs : q # p => procs'[q] = procs[q]
  BY <1>1, <1>6, <1>7
<1>10. Forks(p, n, a, b)
  BY <1>1, <1>2, <1>7, <1>8, <1>9 DEF Forks
<1> QED
  BY <1>4, <1>10

-----------------------------------------------------------------------------
(* Every process stays at its command.                                     *)

LEMMA ChangeCommand ==
  ASSUME ProcsOK, CommandsOK, HistoryTypeOK, HistoryGrows,
         NEW p \in DOMAIN procs, NEW r, procs' = [procs EXCEPT ![p] = r], CommandOK(r)'
  PROVE  CommandsOK'
<1>1. /\ DOMAIN procs' = DOMAIN procs /\ procs'[p] = r
      /\ \A q \in DOMAIN procs : q # p => procs'[q] = procs[q]
  BY ChangeValues
<1>2. ASSUME NEW q \in DOMAIN procs' PROVE CommandOK(procs[q])'
  <2>1. CASE q = p
    BY <1>1, <2>1
  <2>2. CASE q # p
    <3>1. PICK s : s = procs[q]
      OBVIOUS
    <3>2. CommandOK(s)
      BY <1>1, <3>1 DEF CommandsOK
    <3>3. CommandOK(s)'
      BY <3>2, CommandKept
    <3> QED
      BY <1>1, <2>2, <3>1, <3>3
  <2> QED
    BY <2>1, <2>2
<1> QED
  BY <1>2 DEF CommandsOK

LEMMA ForkCommands ==
  ASSUME ProcsOK, CommandsOK, HistoryTypeOK, HistoryGrows,
         NEW p \in DOMAIN procs, NEW n, NEW a, NEW b, Forks(p, n, a, b),
         CommandOK(a)', CommandOK(b)'
  PROVE  CommandsOK'
<1>1. ASSUME NEW q \in DOMAIN procs' PROVE CommandOK(procs[q])'
  <2>1. CASE q = p \/ q = n
    BY <2>1 DEF Forks
  <2>2. CASE q # p /\ q # n
    <3>1. PICK s : s = procs[q]
      OBVIOUS
    <3>2. CommandOK(s)
      BY <2>2, <3>1 DEF CommandsOK, Forks
    <3>3. CommandOK(s)'
      BY <3>2, CommandKept
    <3> QED
      BY <2>2, <3>1, <3>3 DEF Forks
  <2> QED
    BY <2>1, <2>2
<1> QED
  BY <1>1 DEF CommandsOK

LEMMA NoCommand ==
  ASSUME NEW r, r.pc \in ShellLabels \cup {"ended"}
  PROVE  CommandOK(r)'
BY DEF CommandOK, ShellLabels, ForkLabels, ChildLabels, RunLabels

LEMMA MovesOnCommand ==
  ASSUME NEW s, NEW r, MovesOn(s, r), CommandOK(s)
  PROVE  CommandOK(r)
<1>1. CASE s.pc = "pipe" /\ r.pc = "fork" /\ r.c = s.c /\ r.next = s.next
  BY <1>1 DEF MovesOn, CommandOK, ForkLabels, ChildLabels, RunLabels
<1>2. CASE s.pc = "writer" /\ r.pc = "redirect" /\ r.c = s.c
  BY <1>2 DEF MovesOn, CommandOK, ForkLabels, ChildLabels, RunLabels
<1>3. CASE s.pc = "reader" /\ r.pc = "redirect" /\ r.c = s.next /\ Reads(s.turn, s.next)
  BY <1>3 DEF MovesOn, CommandOK, ForkLabels, ChildLabels, RunLabels
<1>4. CASE s.pc = "redirect" /\ r.pc = "exec" /\ r.c = s.c
  BY <1>4 DEF MovesOn, CommandOK, ForkLabels, ChildLabels, RunLabels
<1>5. CASE s.pc \in RunLabels /\ r.pc = s.pc /\ r.c = s.c
  BY <1>5 DEF MovesOn, CommandOK, ForkLabels, ChildLabels, RunLabels
<1> QED
  BY <1>1, <1>2, <1>3, <1>4, <1>5 DEF MovesOn

LEMMA QuietCommand ==
  ASSUME IInv, CommandsOK, NEW p \in DOMAIN procs, Quiet(p)
  PROVE  CommandsOK'
<1>1. /\ UNCHANGED <<commands, ran>>
      /\ \/ UNCHANGED procs
         \/ procs' = [procs EXCEPT ![p] = Ended]
         \/ \E r : procs' = [procs EXCEPT ![p] = r] /\ MovesOn(procs[p], r)
  BY QuietStep
<1>2. ProcsOK /\ HistoryTypeOK /\ HistoryGrows
  BY <1>1, SameHistory DEF IInv
<1>3. CASE UNCHANGED procs
  BY <1>1, <1>3 DEF CommandsOK, CommandOK, Reads, Writes, BehindCd, ByChild
<1>4. CASE procs' = [procs EXCEPT ![p] = Ended]
  <2>1. PICK r : r = Ended
    OBVIOUS
  <2>2. CommandOK(r)'
    BY <2>1, NoCommand DEF Ended, NewProcess
  <2> QED
    BY <1>2, <1>4, <2>1, <2>2, ChangeCommand
<1>5. ASSUME NEW r, procs' = [procs EXCEPT ![p] = r], MovesOn(procs[p], r)
      PROVE  CommandsOK'
  <2>1. PICK s : s = procs[p]
    OBVIOUS
  <2>2. CommandOK(r)
    BY <1>5, <2>1, MovesOnCommand DEF CommandsOK
  <2>3. CommandOK(r)'
    BY <1>2, <2>2, CommandKept
  <2> QED
    BY <1>2, <1>5, <2>3, ChangeCommand
<1> QED
  BY <1>1, <1>3, <1>4, <1>5

LEMMA ForkReaderValues ==
  ASSUME IInv, NEW p \in DOMAIN procs, ForkReader(p)
  PROVE  /\ p # shell /\ procs[p].pc = "fork" /\ UNCHANGED <<commands, ran, script, lines>>
         /\ \E n, a, b :
              /\ Forks(p, n, a, b)
              /\ Copied(procs[p], a, "writer", procs[p].parent)
              /\ Copied(procs[p], b, "reader", p)
<1>1. /\ procs[p].pc = "fork" /\ Fork(p, procs[p], "writer", "reader") /\ ProcsOK
      /\ UNCHANGED <<commands, ran, script, lines>>
  BY DEF ForkReader, At, runVars, scriptVars, inputVars, IInv
<1>2. p # shell /\ procs[p] \in ProcessRecord
  BY <1>1, ChildRecord DEF ForkLabels
<1>3. "writer" \in Labels /\ "reader" \in Labels
  BY DEF Labels, ForkLabels
<1>4. PICK s \in ProcessRecord : s = procs[p]
  BY <1>2
<1>5. Fork(p, s, "writer", "reader")
  BY <1>1, <1>4
<1>6. \E n, a, b :
        /\ Forks(p, n, a, b)
        /\ Copied(s, a, "writer", s.parent) /\ Copied(s, b, "reader", p)
  BY <1>1, <1>3, <1>5, ForkValues
<1> QED
  BY <1>1, <1>2, <1>4, <1>6

LEMMA ForkReaderCommand ==
  ASSUME IInv, CommandsOK, NEW p \in DOMAIN procs, ForkReader(p)
  PROVE  CommandsOK'
<1>1. /\ procs[p].pc = "fork" /\ UNCHANGED <<commands, ran>>
      /\ \E n, a, b :
           /\ Forks(p, n, a, b)
           /\ Copied(procs[p], a, "writer", procs[p].parent)
           /\ Copied(procs[p], b, "reader", p)
  BY ForkReaderValues
<1>2. ProcsOK /\ HistoryTypeOK /\ HistoryGrows
  BY <1>1, SameHistory DEF IInv
<1>3. PICK s : s = procs[p]
  OBVIOUS
<1>4. PICK n, a, b :
        /\ Forks(p, n, a, b)
        /\ Copied(s, a, "writer", s.parent) /\ Copied(s, b, "reader", p)
  BY <1>1, <1>3
<1>5. CommandOK(s) /\ s.pc = "fork"
  BY <1>1, <1>3 DEF CommandsOK
<1>6. CommandOK(a)
  BY <1>4, <1>5 DEF CommandOK, Copied, ForkLabels, ChildLabels, RunLabels
<1>7. CommandOK(b)
  BY <1>4, <1>5 DEF CommandOK, Copied, ForkLabels, ChildLabels, RunLabels
<1>8. CommandOK(a)' /\ CommandOK(b)'
  BY <1>2, <1>6, <1>7, CommandKept
<1> QED
  BY <1>2, <1>4, <1>8, ForkCommands

(* A process that executes its command has carried it out.                 *)
Executed(s, r) ==
  /\ r.turn = s.turn /\ r.c = s.c /\ r.unread = s.unread /\ r.behind = s.behind
  /\ r.parent = s.parent
  /\ r.pc \in RunLabels
  /\ r.pc = "internal" => commands[s.turn][s.c].name \in Internal

(* What a child counts.                                                    *)
Counts(p) ==
  IF ByChild(procs[p].turn, procs[p].c) THEN CarriedOut(p, procs[p].c) ELSE UNCHANGED ran

LEMMA ExecValues ==
  ASSUME IInv, NEW p \in DOMAIN procs, Exec(p)
  PROVE  /\ p # shell /\ procs[p].pc = "exec" /\ Counts(p)
         /\ UNCHANGED <<commands, script, lines>>
         /\ \/ Exit(p) /\ commands[procs[p].turn][procs[p].c].name \notin Programs
            \/ /\ UNCHANGED ahead
               /\ \E r : procs' = [procs EXCEPT ![p] = r] /\ Executed(procs[p], r)
<1>1. /\ procs[p].pc = "exec" /\ Counts(p)
      /\ UNCHANGED <<commands, script, lines>>
  BY DEF Exec, At, scriptVars, Attempts, Counts, ByChild, Current, Command
<1>2. p # shell /\ procs[p] \in ProcessRecord
  BY <1>1, ChildRecord DEF IInv, ChildLabels
<1>3. CASE ~ (Current(p).name \in Internal \cup Programs)
  BY <1>1, <1>2, <1>3 DEF Exec, Current, Command
<1>4. CASE Current(p).name \in Internal \cup Programs
  <2> DEFINE pc == IF Current(p).name \in Internal THEN "internal" ELSE "program"
  <2>1. PICK h : procs' = [procs EXCEPT ![p].habit = h, ![p].pc = pc]
    BY <1>4 DEF Exec
  <2>2. UNCHANGED ahead
    BY <1>4 DEF Exec
  <2>3. pc \in RunLabels /\ (pc = "internal" => Current(p).name \in Internal)
    BY DEF RunLabels
  <2> HIDE DEF pc
  <2> DEFINE r == [procs[p] EXCEPT !.habit = h, !.pc = pc]
  <2>4. procs' = [procs EXCEPT ![p] = r]
    BY <2>1
  <2>5. Executed(procs[p], r)
    BY <1>2, <2>3 DEF Executed, ProcessRecord, Current, Command
  <2> QED
    BY <1>1, <1>2, <2>2, <2>4, <2>5
<1> QED
  BY <1>3, <1>4

LEMMA CountsGrows ==
  ASSUME HistoryTypeOK, NEW p, Counts(p), UNCHANGED commands
  PROVE  HistoryGrows
<1>1. CarriedOut(p, procs[p].c) \/ UNCHANGED ran
  BY DEF Counts
<1>2. PICK c : c = procs[p].c
  OBVIOUS
<1> QED
  BY <1>1, <1>2, CountedGrows, SameHistory

LEMMA ExecCommand ==
  ASSUME IInv, CommandsOK, NEW p \in DOMAIN procs, Exec(p)
  PROVE  CommandsOK'
<1>1. /\ procs[p].pc = "exec" /\ Counts(p) /\ UNCHANGED commands
      /\ \/ Exit(p)
         \/ \E r : procs' = [procs EXCEPT ![p] = r] /\ Executed(procs[p], r)
  BY ExecValues
<1>2. ProcsOK /\ HistoryTypeOK /\ HistoryGrows
  BY <1>1, CountsGrows DEF IInv
<1>3. PICK s : s = procs[p]
  OBVIOUS
<1>4. s.turn \in DOMAIN commands /\ s.c \in DOMAIN commands[s.turn]
  BY <1>1, <1>3 DEF CommandsOK, CommandOK, ChildLabels
<1>5. ran'[s.turn][s.c] > 0 \/ ~ ByChild(s.turn, s.c)
  <2> SUFFICES ASSUME ByChild(s.turn, s.c) PROVE ran'[s.turn][s.c] > 0
    OBVIOUS
  <2>1. ran[s.turn][s.c] \in Nat
    BY <1>2, <1>4, RanNat
  <2>2. PICK c : c = s.c
    OBVIOUS
  <2>3. PICK t \in DOMAIN commands : t = s.turn
    BY <1>4
  <2>4. CarriedOut(p, c) /\ c \in DOMAIN commands[t]
    BY <1>1, <1>3, <1>4, <2>2, <2>3 DEF Counts
  <2>5. ran'[t][c] = IF t = t /\ c = c THEN ran[t][c] + 1 ELSE ran[t][c]
    BY <1>2, <1>3, <2>3, <2>4, Counted
  <2> QED
    BY <2>1, <2>2, <2>3, <2>5
<1>6. CASE Exit(p)
  <2>1. PICK r : r = Ended
    OBVIOUS
  <2>2. CommandOK(r)' /\ procs' = [procs EXCEPT ![p] = r]
    BY <1>6, <2>1, NoCommand DEF Ended, NewProcess, Exit, End
  <2> QED
    BY <1>2, <2>2, ChangeCommand
<1>7. ASSUME NEW r, procs' = [procs EXCEPT ![p] = r], Executed(s, r)
      PROVE  CommandsOK'
  <2>1. /\ r.pc \in RunLabels /\ r.turn = s.turn /\ r.c = s.c
        /\ r.pc = "internal" => commands[s.turn][s.c].name \in Internal
    BY <1>7 DEF Executed
  <2>2. CommandOK(r)'
    BY <1>1, <1>4, <1>5, <2>1 DEF CommandOK, RunLabels, ForkLabels, ByChild
  <2> QED
    BY <1>2, <1>7, <2>2, ChangeCommand
<1> QED
  BY <1>1, <1>3, <1>6, <1>7

-----------------------------------------------------------------------------
(* The shell takes command f of line t from the queue, where x was in      *)
(* front and y will be.                                                    *)
NextAfter(p) == IF IsFed(p) THEN procs[p].next + 2 ELSE procs[p].next + 1

DoesCd(t, x) == commands[t][x].name = "cd"

Takes(t, x, f, y) ==
  /\ x \in DOMAIN commands[t] /\ f \in DOMAIN commands[t]
  /\ ~ DoesCd(t, x) => ByChild(t, x)
  /\ \/ ~ DoesCd(t, x) /\ ~ Reads(t, x) /\ f = x /\ y = x + 1
     \/ ~ DoesCd(t, x) /\ Reads(t, x) /\ f = x + 1 /\ y = x + 2
     \/ DoesCd(t, x) /\ ~ Reads(t, x + 1) /\ f = x + 1 /\ y = x + 1
     \/ DoesCd(t, x) /\ Reads(t, x + 1) /\ f = x + 1 /\ y = x + 2

LEMMA LineNat ==
  ASSUME HistoryTypeOK, NEW t \in DOMAIN commands
  PROVE  /\ commands[t] \in Seq(CommandRecord) /\ Len(commands[t]) \in Nat
         /\ DOMAIN commands[t] = 1 .. Len(commands[t])
<1>1. commands[t] \in Seq(CommandRecord)
  BY LenProperties, ElementOfSeq DEF HistoryTypeOK
<1> QED
  BY <1>1, LenProperties

(* The shell is alone, but for readers, when it takes a command.           *)
LEMMA LoopValues ==
  ASSUME IInv, NEW p \in DOMAIN procs, procs[p].pc = "next"
  PROVE  /\ p = shell /\ NoChildren /\ procs[shell] \in ProcessRecord
         /\ procs[shell].turn \in DOMAIN commands
         /\ procs[shell].next \in Nat /\ procs[shell].next >= 1
<1>1. p = shell /\ ProcsOK /\ SoleChild
  BY InLoop DEF IInv
<1>2. NoChildren /\ RecordOK(shell, procs[shell])
  BY <1>1, NotWaiting, ShellRecord
<1> QED
  BY <1>1, <1>2 DEF RecordOK, PlaceOK, ProcessRecord

LEMMA TakesCommand ==
  ASSUME IInv, NEW p \in DOMAIN procs, procs[p].pc = "next", ~ Exhausted(p), ~ Quits(p)
  PROVE  Takes(procs[p].turn, procs[p].next, Forked(p), NextAfter(p))
<1> DEFINE t == procs[p].turn
           x == procs[p].next
<1>1. t \in DOMAIN commands /\ x \in Nat /\ x >= 1
  BY LoopValues
<1>2. Len(commands[t]) \in Nat /\ DOMAIN commands[t] = 1 .. Len(commands[t])
  BY <1>1, LineNat DEF IInv
<1>3. Forked(p) <= Len(commands[t]) /\ AfterCd(p) <= Len(commands[t])
  BY <1>1, <1>2 DEF Exhausted, Forked, AfterCd, Taken, Count
<1>4. x \in DOMAIN commands[t]
  BY <1>1, <1>2, <1>3 DEF AfterCd, Taken
<1>5. IsCd(p) <=> DoesCd(t, x)
  BY <1>1, <1>2, <1>4 DEF IsCd, DoesCd, Command, Taken, Count
<1>6. Forked(p) \in DOMAIN commands[t]
  BY <1>1, <1>2, <1>3 DEF Forked, AfterCd, Taken
<1>9. ~ DoesCd(t, x) => ByChild(t, x)
  BY <1>5 DEF Quits, AfterCd, Taken, Command, DoesCd, ByChild
<1>7. CASE IsCd(p)
  <2>1. IsFed(p) <=> Reads(t, x + 1)
    BY <1>7 DEF IsFed, AfterCd, Taken, Command, Reads
  <2> QED
    BY <1>4, <1>5, <1>6, <1>7, <1>9, <2>1 DEF Takes, Forked, AfterCd, Taken, NextAfter
<1>8. CASE ~ IsCd(p)
  <2>1. IsFed(p) <=> Reads(t, x)
    BY <1>8 DEF IsFed, AfterCd, Taken, Command, Reads
  <2> QED
    BY <1>4, <1>5, <1>6, <1>8, <1>9, <2>1 DEF Takes, Forked, AfterCd, Taken, NextAfter
<1> QED
  BY <1>7, <1>8

(* What the loop counts: a cd in front of the queue.                       *)
CountsCd(t, x) ==
  IF x \in DOMAIN commands[t] /\ DoesCd(t, x) THEN CarriedOut(shell, x) ELSE UNCHANGED ran

LEMMA CdCounted ==
  ASSUME IInv, NEW p \in DOMAIN procs, procs[p].pc = "next", ChangesDirectory(p)
  PROVE  CountsCd(procs[shell].turn, procs[shell].next)
<1> DEFINE t == procs[p].turn
           x == procs[p].next
<1>1. p = shell /\ t \in DOMAIN commands /\ x \in Nat /\ x >= 1
  BY LoopValues
<1>2. Len(commands[t]) \in Nat /\ DOMAIN commands[t] = 1 .. Len(commands[t])
  BY <1>1, LineNat DEF IInv
<1>3. IsCd(p) <=> x \in DOMAIN commands[t] /\ DoesCd(t, x)
  BY <1>1, <1>2 DEF IsCd, DoesCd, Command, Taken, Count
<1> QED
  BY <1>1, <1>3 DEF CountsCd, ChangesDirectory, Taken

LEMMA ForkCommandValues ==
  ASSUME IInv, NEW p \in DOMAIN procs, ForkCommand(p)
  PROVE  /\ p = shell /\ procs[p].pc = "next" /\ UNCHANGED <<commands, script, lines, ahead>>
         /\ CountsCd(procs[shell].turn, procs[shell].next)
         /\ Takes(procs[shell].turn, procs[shell].next, Forked(shell), NextAfter(shell))
         /\ \E m, n, a, b, there :
              /\ Forks(shell, n, a, b)
              /\ m.turn = procs[shell].turn /\ m.c = Forked(shell)
              /\ m.next = NextAfter(shell) /\ m.unread = procs[shell].unread
              /\ m.behind = procs[shell].behind
              /\ m.eof = procs[shell].eof
              /\ there = IF Writes(m.turn, m.c) THEN "pipe" ELSE "redirect"
              /\ Copied(m, a, "wait", procs[shell].parent) /\ Copied(m, b, there, shell)
<1> DEFINE s == procs[shell]
           next == NextAfter(shell)
           m == [s EXCEPT !.c = Forked(shell), !.next = next]
           there == IF Command(shell, Forked(shell)).pipe_out THEN "pipe" ELSE "redirect"
<1>1. /\ procs[p].pc = "next" /\ ~ Exhausted(p) /\ ~ Quits(p) /\ ChangesDirectory(p)
      /\ UNCHANGED <<commands, script, lines, ahead>>
  BY DEF ForkCommand, At, scriptVars, inputVars
<1>2. p = shell /\ s \in ProcessRecord /\ s.next \in Nat /\ s.turn \in DOMAIN commands
  BY <1>1, LoopValues
<1>3. /\ CountsCd(s.turn, s.next)
      /\ Takes(s.turn, s.next, Forked(shell), NextAfter(shell))
  BY <1>1, <1>2, CdCounted, TakesCommand
<1>4. Fork(shell, m, "wait", there)
  BY <1>2 DEF ForkCommand, NextAfter
<1>5. Forked(shell) \in Nat /\ next \in Nat
  <2>1. Len(commands[s.turn]) \in Nat /\ DOMAIN commands[s.turn] = 1 .. Len(commands[s.turn])
    BY <1>2, LineNat DEF IInv
  <2> QED
    BY <1>2, <1>3, <2>1 DEF Takes
<1>6. "wait" \in Labels /\ there \in Labels
  BY DEF Labels, ShellLabels, ChildLabels
<1> HIDE DEF next
<1>7. /\ m \in ProcessRecord /\ m.turn = s.turn /\ m.c = Forked(shell)
      /\ m.next = next /\ m.unread = s.unread /\ m.behind = s.behind /\ m.eof = s.eof
      /\ m.parent = s.parent
  BY <1>2, <1>5 DEF ProcessRecord
<1>8. there = IF Writes(m.turn, m.c) THEN "pipe" ELSE "redirect"
  BY <1>7 DEF Writes, Command
<1> HIDE DEF m, there
<1>9. ProcsOK /\ shell \in DOMAIN procs
  BY ShellRecord DEF IInv
<1>10. \E n, a, b :
         /\ Forks(shell, n, a, b)
         /\ Copied(m, a, "wait", m.parent) /\ Copied(m, b, there, shell)
  BY <1>4, <1>6, <1>7, <1>9, ForkValues
<1> QED
  BY <1>1, <1>2, <1>3, <1>7, <1>8, <1>10 DEF next

(* The command behind one that writes to a pipe reads from it, and no      *)
(* other does; none does both.                                             *)
LEMMA PipeEnds ==
  ASSUME HistoryTypeOK, CommandsPaired, NEW t \in DOMAIN commands,
         NEW i \in DOMAIN commands[t]
  PROVE  /\ Writes(t, i) <=> i + 1 \in DOMAIN commands[t] /\ Reads(t, i + 1)
         /\ ~ (Reads(t, i) /\ Writes(t, i))
         /\ Reads(t, i) => i # 1
<1>1. /\ commands[t] \in Seq(CommandRecord) /\ Len(commands[t]) \in Nat
      /\ DOMAIN commands[t] = 1 .. Len(commands[t])
  BY LineNat
<1>2. Paired(commands[t])
  BY DEF CommandsPaired
<1>3. i < Len(commands[t]) <=> i + 1 \in DOMAIN commands[t]
  BY <1>1
<1>4. commands[t] # <<>>
  BY <1>1
<1>5. commands[t][i].pipe_out <=> i < Len(commands[t]) /\ commands[t][i + 1].pipe_in
  BY <1>2 DEF Paired
<1>6. ~ (commands[t][i].pipe_in /\ commands[t][i].pipe_out) /\ ~ commands[t][1].pipe_in
  BY <1>2, <1>4 DEF Paired
<1> QED
  BY <1>3, <1>5, <1>6 DEF Writes, Reads

LEMMA ForkCommandCommand ==
  ASSUME IInv, CommandsOK, NEW p \in DOMAIN procs, ForkCommand(p)
  PROVE  CommandsOK'
<1>1. PICK t, x, f, y : t = procs[shell].turn /\ x = procs[shell].next
                        /\ f = Forked(shell) /\ y = NextAfter(shell)
  OBVIOUS
<1>2. /\ p = shell /\ procs[p].pc = "next" /\ UNCHANGED commands
      /\ CountsCd(t, x) /\ Takes(t, x, f, y)
      /\ \E m, n, a, b, there :
           /\ Forks(shell, n, a, b)
           /\ m.turn = t /\ m.c = f /\ m.next = y
           /\ there = IF Writes(m.turn, m.c) THEN "pipe" ELSE "redirect"
           /\ Copied(m, a, "wait", procs[shell].parent) /\ Copied(m, b, there, shell)
  BY <1>1, ForkCommandValues
<1>3. t \in DOMAIN commands /\ x \in Nat /\ x >= 1
  BY <1>1, <1>2, LoopValues
<1>4. PICK n, a, b : /\ Forks(shell, n, a, b) /\ a.pc = "wait"
                     /\ b.turn = t /\ b.c = f /\ b.next = y /\ b.parent = shell
                     /\ b.pc = IF Writes(t, f) THEN "pipe" ELSE "redirect"
  BY <1>2 DEF Copied
<1>5. x \in DOMAIN commands[t] /\ f \in DOMAIN commands[t] /\ f \in Nat
  BY <1>2, <1>3, LineNat DEF Takes, IInv
<1>6. HistoryTypeOK /\ CommandsPaired /\ ProcsOK /\ shell \in DOMAIN procs
  BY ShellRecord DEF IInv
<1>7. HistoryGrows
  BY <1>2, <1>6, CountedGrows, SameHistory DEF CountsCd
<1>8. ASSUME Writes(t, f)
      PROVE  /\ y \in DOMAIN commands[t]
             /\ Reads(t, y) \/ (BehindCd(t, y) /\ ran'[t][y - 1] > 0)
  <2>1. f + 1 \in DOMAIN commands[t] /\ Reads(t, f + 1) /\ ~ Reads(t, f)
    BY <1>3, <1>5, <1>6, <1>8, PipeEnds
  <2>2. CASE y = f + 1
    BY <2>1, <2>2
  <2>3. CASE y # f + 1
    <3>1. DoesCd(t, x) /\ f = x + 1 /\ y = x + 1
      BY <1>2, <1>3, <2>3 DEF Takes
    <3>2. CarriedOut(shell, x)
      BY <1>2, <1>5, <3>1 DEF CountsCd
    <3>3. ran[t][x] \in Nat
      BY <1>3, <1>5, <1>6, RanNat
    <3>4. ran'[t][x] = IF t = t /\ x = x THEN ran[t][x] + 1 ELSE ran[t][x]
      BY <1>1, <1>3, <1>5, <1>6, <3>2, Counted
    <3>5. ran'[t][x] > 0 /\ y - 1 = x /\ y > 1
      BY <1>3, <3>1, <3>3, <3>4
    <3>6. BehindCd(t, y)
      BY <3>1, <3>5 DEF BehindCd, DoesCd
    <3> QED
      BY <1>5, <3>1, <3>5, <3>6
  <2> QED
    BY <2>2, <2>3
<1>9. CommandOK(b)'
  BY <1>2, <1>3, <1>4, <1>5, <1>8
     DEF CommandOK, ForkLabels, RunLabels, ChildLabels, Reads, Writes, BehindCd
<1>10. CommandOK(a)'
  BY <1>4, NoCommand DEF ShellLabels
<1> QED
  BY <1>4, <1>6, <1>7, <1>9, <1>10, ForkCommands

-----------------------------------------------------------------------------
(* The steps of the shell's own loops.                                     *)

(* Steps of the shell that neither take a command nor parse one.           *)
Idles(s, r) ==
  \/ s.pc = "read" /\ r.pc \in {"parse", "ended"}
  \/ s.pc = "wait" /\ r.pc = "next" /\ r.turn = s.turn /\ r.next = s.next
     /\ r.unread = s.unread /\ r.behind = s.behind /\ r.eof = s.eof

LEMMA IdleStep ==
  ASSUME IInv, ReadTerminal \/ ReadFile \/ EndOfFile \/ \E p \in DOMAIN procs : Wait(p)
  PROVE  /\ UNCHANGED <<commands, ran, script>>
         /\ \E r : procs' = [procs EXCEPT ![shell] = r] /\ Idles(procs[shell], r)
<1>1. UNCHANGED <<commands, ran, script>>
  BY DEF ReadTerminal, ReadFile, EndOfFile, Wait, runVars, scriptVars
<1>2. procs[shell] \in ProcessRecord /\ ProcsOK
  BY ShellRecord DEF IInv
<1>3. CASE ReadTerminal
  <2> DEFINE r == [procs[shell] EXCEPT !.pc = "parse"]
  <2>1. procs' = [procs EXCEPT ![shell] = r]
    BY <1>3 DEF ReadTerminal, Goto
  <2>2. Idles(procs[shell], r)
    BY <1>2, <1>3 DEF ReadTerminal, Idles, ProcessRecord
  <2> QED
    BY <1>1, <2>1, <2>2
<1>4. CASE ReadFile
  <2> DEFINE r == [procs[shell] EXCEPT !.pc = "parse", !.unread = fgets.unread,
                                       !.behind = fgets.behind, !.eof = fgets.eof]
  <2>1. procs' = [procs EXCEPT ![shell] = r]
    BY <1>4 DEF ReadFile
  <2>2. Idles(procs[shell], r)
    BY <1>2, <1>4 DEF ReadFile, Idles, ProcessRecord
  <2> QED
    BY <1>1, <2>1, <2>2
<1>5. CASE EndOfFile
  <2>1. procs' = [procs EXCEPT ![shell] = Ended] /\ Idles(procs[shell], Ended)
    BY <1>5 DEF EndOfFile, End, Idles, Ended, NewProcess
  <2> QED
    BY <1>1, <2>1
<1>6. ASSUME NEW p \in DOMAIN procs, Wait(p)
      PROVE  \E r : procs' = [procs EXCEPT ![shell] = r] /\ Idles(procs[shell], r)
  <2> DEFINE r == [procs[shell] EXCEPT !.pc = "next"]
  <2>1. procs[p].pc = "wait" /\ p = shell
    BY <1>2, <1>6, InLoop DEF Wait, At
  <2>2. procs' = [procs EXCEPT ![shell] = r]
    BY <1>6, <2>1 DEF Wait, Goto
  <2>3. Idles(procs[shell], r)
    BY <1>2, <2>1 DEF Idles, ProcessRecord
  <2> QED
    BY <2>2, <2>3
<1> QED
  BY <1>1, <1>3, <1>4, <1>5, <1>6

(* The shell leaves the loop over the commands.                            *)
LEMMA LeaveValues ==
  ASSUME IInv, NEW p \in DOMAIN procs, Return(p) \/ Quit(p)
  PROVE  /\ p = shell /\ procs[shell].pc = "next"
         /\ UNCHANGED <<commands, script, lines>>
         /\ CountsCd(procs[shell].turn, procs[shell].next)
         /\ \E r : /\ procs' = [procs EXCEPT ![shell] = r]
                   /\ \/ r.pc = "read" /\ Return(p) /\ r.unread = procs[shell].unread
                         /\ r.behind = procs[shell].behind
                         /\ r.eof = procs[shell].eof
                      \/ r.pc = "ended"
<1>1. /\ procs[p].pc = "next" /\ ChangesDirectory(p) /\ UNCHANGED <<commands, script, lines>>
  BY DEF Return, Quit, At, scriptVars, inputVars
<1>2. p = shell /\ procs[shell] \in ProcessRecord
  BY <1>1, LoopValues
<1>3. CASE Return(p)
  <2> DEFINE r == [procs[shell] EXCEPT !.pc = "read"]
  <2>1. procs' = [procs EXCEPT ![shell] = r]
    BY <1>2, <1>3 DEF Return, Goto
  <2>2. r.pc = "read" /\ r.unread = procs[shell].unread /\ r.behind = procs[shell].behind
            /\ r.eof = procs[shell].eof
    BY <1>2 DEF ProcessRecord
  <2> QED
    BY <1>1, <1>2, <1>3, <2>1, <2>2, CdCounted
<1>4. CASE Quit(p)
  <2>1. procs' = [procs EXCEPT ![shell] = Ended] /\ Ended.pc = "ended"
    BY <1>2, <1>4 DEF Quit, Exit, End, Ended, NewProcess
  <2> QED
    BY <1>1, <1>2, <2>1, CdCounted
<1> QED
  BY <1>3, <1>4

LEMMA ParsedValues ==
  ASSUME IInv, Parsed
  PROVE  \E r : /\ procs' = [procs EXCEPT ![shell] = r]
                /\ r.turn = Len(commands) + 1 /\ r.next = 1
                /\ r.unread = procs[shell].unread /\ r.behind = procs[shell].behind
                /\ r.eof = procs[shell].eof
                /\ r.pc = IF verdict = "parsed" THEN "next" ELSE "read"
<1> DEFINE pc == IF verdict = "parsed" THEN "next" ELSE "read"
           turn == Len(commands) + 1
           r == [procs[shell] EXCEPT !.pc = pc, !.turn = turn, !.next = 1]
<1>1. procs[shell] \in ProcessRecord
  BY ShellRecord DEF IInv
<1>2. procs' = [procs EXCEPT ![shell] = r]
  BY DEF Parsed
<1> HIDE DEF pc, turn
<1>3. /\ r.turn = turn /\ r.next = 1 /\ r.pc = pc
      /\ r.unread = procs[shell].unread /\ r.behind = procs[shell].behind
      /\ r.eof = procs[shell].eof
  BY <1>1 DEF ProcessRecord
<1> QED
  BY <1>2, <1>3 DEF pc, turn

LEMMA ShellCommand ==
  ASSUME IInv, CommandsOK, HistoryGrows,
         \E r : procs' = [procs EXCEPT ![shell] = r] /\ r.pc \in ShellLabels \cup {"ended"}
  PROVE  CommandsOK'
<1>1. PICK r : procs' = [procs EXCEPT ![shell] = r] /\ r.pc \in ShellLabels \cup {"ended"}
  OBVIOUS
<1>2. CommandOK(r)'
  BY <1>1, NoCommand
<1>3. ProcsOK /\ HistoryTypeOK /\ shell \in DOMAIN procs
  BY ShellRecord DEF IInv
<1> QED
  BY <1>1, <1>2, <1>3, ChangeCommand

LEMMA CommandsStep ==
  ASSUME IInv, CommandsOK, [Next]_vars
  PROVE  CommandsOK'
<1>1. HistoryTypeOK /\ ParserOK
  BY DEF IInv
<1>2. CASE ReadTerminal \/ ReadFile \/ EndOfFile \/ \E p \in DOMAIN procs : Wait(p)
  <2>1. /\ UNCHANGED <<commands, ran>>
        /\ \E r : procs' = [procs EXCEPT ![shell] = r] /\ Idles(procs[shell], r)
    BY <1>2, IdleStep
  <2>2. HistoryGrows
    BY <1>1, <2>1, SameHistory
  <2>3. \E r : procs' = [procs EXCEPT ![shell] = r] /\ r.pc \in ShellLabels \cup {"ended"}
    BY <2>1 DEF Idles, ShellLabels
  <2> QED
    BY <2>2, <2>3, ShellCommand
<1>3. CASE Parse \/ UNCHANGED vars
  BY <1>3 DEF Parse, vars, runVars, CommandsOK, CommandOK, Reads, Writes, BehindCd, ByChild
<1>4. CASE Parsed
  <2>1. HistoryGrows
    BY <1>1, <1>4, ParsedGrows
  <2>2. \E r : procs' = [procs EXCEPT ![shell] = r] /\ r.pc \in ShellLabels \cup {"ended"}
    BY <1>4, ParsedValues DEF ShellLabels
  <2> QED
    BY <2>1, <2>2, ShellCommand
<1>5. ASSUME NEW p \in DOMAIN procs, Return(p) \/ Quit(p)
      PROVE  CommandsOK'
  <2>1. /\ UNCHANGED commands /\ CountsCd(procs[shell].turn, procs[shell].next)
        /\ \E r : /\ procs' = [procs EXCEPT ![shell] = r]
                  /\ r.pc \in {"read", "ended"}
    BY <1>5, LeaveValues
  <2>2. HistoryGrows
    BY <1>1, <2>1, CountedGrows, SameHistory DEF CountsCd
  <2>3. \E r : procs' = [procs EXCEPT ![shell] = r] /\ r.pc \in ShellLabels \cup {"ended"}
    BY <2>1 DEF ShellLabels
  <2> QED
    BY <2>2, <2>3, ShellCommand
<1>6. ASSUME NEW p \in DOMAIN procs, ForkCommand(p)
      PROVE  CommandsOK'
  BY <1>6, ForkCommandCommand
<1>7. ASSUME NEW p \in DOMAIN procs, ForkReader(p) \/ Exec(p)
      PROVE  CommandsOK'
  BY <1>7, ForkReaderCommand, ExecCommand
<1>8. ASSUME NEW p \in DOMAIN procs, Quiet(p)
      PROVE  CommandsOK'
  BY <1>8, QuietCommand
<1> QED
  BY <1>2, <1>3, <1>4, <1>5, <1>6, <1>7, <1>8 DEF Next, Main, Execute, Child, Quiet

LEMMA CommandsInit == Init => CommandsOK
BY DEF Init, CommandsOK, CommandOK, NewProcess, ForkLabels, ChildLabels, RunLabels

(* Nobody has more or less to do when a process stays with its command.    *)
LEMMA SameOwners ==
  ASSUME ProcsOK, UNCHANGED commands, NEW p \in DOMAIN procs, NEW r,
         procs' = [procs EXCEPT ![p] = r],
         NEW t \in DOMAIN commands, NEW i \in DOMAIN commands[t],
         Duty(procs[p], t, i) <=> Duty(r, t, i)
  PROVE  /\ Owed(t, i)' <=> Owed(t, i)
         /\ OneOwner(t, i) => OneOwner(t, i)'
<1>1. /\ DOMAIN procs' = DOMAIN procs /\ procs'[p] = r
      /\ \A q \in DOMAIN procs : q # p => procs'[q] = procs[q]
  BY ChangeValues
<1>2. ASSUME NEW q \in DOMAIN procs
      PROVE  Duty(procs[q], t, i)' <=> Duty(procs[q], t, i)
  <2>1. Duty(procs[q], t, i)' <=> Duty(procs'[q], t, i)
    BY DEF Duty, Reads, ByChild
  <2>2. CASE q = p
    BY <1>1, <2>1, <2>2
  <2>3. CASE q # p
    BY <1>1, <2>1, <2>3
  <2> QED
    BY <2>2, <2>3
<1> QED
  BY <1>1, <1>2 DEF Owed, OneOwner

(* A place in the shell's loop allows as much as another.                  *)
SameLoop ==
  /\ \A t : Executing(t)' <=> Executing(t)
  /\ \A t : Executing(t) => procs'[shell].next = procs[shell].next
  /\ procs[shell].pc = "ended" => procs'[shell].pc = "ended"

LEMMA SameLimit ==
  ASSUME SameLoop, UNCHANGED commands, NEW t, NEW i
  PROVE  /\ Limit(t, i)' = Limit(t, i)
         /\ StillAhead(t, i)' <=> StillAhead(t, i)
         /\ LeftToChild(t, i)' <=> LeftToChild(t, i)
<1>1. Executing(t)' <=> Executing(t)
  BY DEF SameLoop
<1>2. Executing(t) => procs'[shell].next = procs[shell].next
  BY DEF SameLoop
<1>3. (BehindCd(t, i)' <=> BehindCd(t, i)) /\ (Reads(t, i)' <=> Reads(t, i))
      /\ (ForReader(t, i)' <=> ForReader(t, i))
      /\ (LeftToChild(t, i)' <=> LeftToChild(t, i))
  BY DEF BehindCd, Reads, ByChild, ForReader, LeftToChild
<1>4. CASE Executing(t)
  BY <1>1, <1>2, <1>3, <1>4 DEF Limit, AtMost, StillAhead
<1>5. CASE ~ Executing(t)
  BY <1>1, <1>3, <1>5 DEF Limit, AtMost, StillAhead
<1> QED
  BY <1>4, <1>5

LEMMA SameRun ==
  ASSUME SameLoop, UNCHANGED commands, NEW t, NEW i, RunOK(t, i),
         ran'[t][i] = ran[t][i], Owed(t, i)' <=> Owed(t, i), OneOwner(t, i)'
  PROVE  RunOK(t, i)'
<1>1. /\ Limit(t, i)' = Limit(t, i) /\ (StillAhead(t, i)' <=> StillAhead(t, i))
      /\ LeftToChild(t, i)' <=> LeftToChild(t, i)
  BY SameLimit
<1>2. WithinLimit(t, i)'
  BY <1>1 DEF RunOK, WithinLimit
<1>3. Settled(t, i)'
  BY <1>1 DEF RunOK, Settled, SameLoop
<1> QED
  BY <1>2, <1>3 DEF RunOK

LEMMA SameRuns ==
  ASSUME ProcsOK, RunsOK, SameLoop, UNCHANGED <<commands, ran>>,
         NEW p \in DOMAIN procs, NEW r, procs' = [procs EXCEPT ![p] = r],
         SameDuty(procs[p], r)
  PROVE  RunsOK'
<1>1. ASSUME NEW t \in DOMAIN commands, NEW i \in DOMAIN commands[t]
      PROVE  RunOK(t, i)'
  <2>1. RunOK(t, i) /\ OneOwner(t, i) /\ ran'[t][i] = ran[t][i]
    BY DEF RunsOK, RunOK
  <2>2. Duty(procs[p], t, i) <=> Duty(r, t, i)
    BY DEF SameDuty
  <2>3. (Owed(t, i)' <=> Owed(t, i)) /\ OneOwner(t, i)'
    BY <2>1, <2>2, SameOwners
  <2> QED
    BY <2>1, <2>3, SameRun
<1> QED
  BY <1>1 DEF RunsOK

(* No step but the shell's own moves it.                                   *)
LEMMA ShellStays ==
  ASSUME procs'[shell] = procs[shell]
  PROVE  SameLoop
BY DEF SameLoop, Executing

LEMMA QuietRuns ==
  ASSUME IInv, RunsOK, NEW p \in DOMAIN procs, Quiet(p)
  PROVE  RunsOK'
<1>1. /\ p # shell /\ UNCHANGED <<commands, ran>>
      /\ \/ UNCHANGED procs
         \/ procs' = [procs EXCEPT ![p] = Ended] /\ MayLeave(procs[p])
         \/ \E r : procs' = [procs EXCEPT ![p] = r] /\ MovesOn(procs[p], r)
  BY QuietStep
<1>2. CASE UNCHANGED procs
  BY <1>1, <1>2 DEF RunsOK, RunOK, OneOwner, WithinLimit, Settled, Owed, Duty, Limit, AtMost,
     ForReader, ByChild, LeftToChild, StillAhead, Executing, BehindCd, Reads
<1>3. PICK s : s = procs[p]
  OBVIOUS
<1>4. ASSUME NEW r, procs' = [procs EXCEPT ![p] = r], SameDuty(s, r)
      PROVE  RunsOK'
  <2>1. ProcsOK /\ SameLoop
    BY <1>1, <1>4, ShellStays DEF IInv
  <2> QED
    BY <1>1, <1>3, <1>4, <2>1, SameRuns
<1>5. CASE procs' = [procs EXCEPT ![p] = Ended] /\ MayLeave(procs[p])
  <2>1. SameDuty(s, Ended)
    BY <1>3, <1>5, LeaveDuty
  <2> QED
    BY <1>4, <1>5, <2>1
<1>6. ASSUME NEW r, procs' = [procs EXCEPT ![p] = r], MovesOn(procs[p], r)
      PROVE  RunsOK'
  <2>1. SameDuty(s, r)
    BY <1>3, <1>6, MovesOnDuty
  <2> QED
    BY <1>4, <1>6, <2>1
<1> QED
  BY <1>1, <1>2, <1>5, <1>6

LEMMA IdleRuns ==
  ASSUME IInv, RunsOK,
         ReadTerminal \/ ReadFile \/ EndOfFile \/ \E p \in DOMAIN procs : Wait(p)
  PROVE  RunsOK'
<1>1. /\ UNCHANGED <<commands, ran>>
      /\ \E r : procs' = [procs EXCEPT ![shell] = r] /\ Idles(procs[shell], r)
  BY IdleStep
<1>2. PICK r : procs' = [procs EXCEPT ![shell] = r] /\ Idles(procs[shell], r)
  BY <1>1
<1>3. ProcsOK /\ shell \in DOMAIN procs /\ procs'[shell] = r
  BY <1>2, ShellRecord DEF IInv
<1>4. SameLoop
  BY <1>2, <1>3 DEF SameLoop, Executing, Idles
<1>5. SameDuty(procs[shell], r)
  BY <1>2 DEF SameDuty, Duty, Idles
<1> QED
  BY <1>1, <1>2, <1>3, <1>4, <1>5, SameRuns

(* One of the two processes has the writing command, the other the reading *)
(* one, which are not the same.                                            *)
LEMMA ForkReaderDuty ==
  ASSUME IInv, CommandsOK, NEW p \in DOMAIN procs, procs[p].pc = "fork",
         UNCHANGED commands, NEW n, NEW a, NEW b, Forks(p, n, a, b),
         Copied(procs[p], a, "writer", procs[p].parent), Copied(procs[p], b, "reader", p),
         NEW t \in DOMAIN commands, NEW i \in DOMAIN commands[t]
  PROVE  /\ Owed(t, i)' <=> Owed(t, i)
         /\ OneOwner(t, i) => OneOwner(t, i)'
<1>1. PICK s : s = procs[p]
  OBVIOUS
<1>2. CommandOK(s) /\ s.pc = "fork"
  BY <1>1 DEF CommandsOK
<1>3. \A r : Duty(r, t, i)' <=> Duty(r, t, i)
  BY DEF Duty, Reads, ByChild
<1>4. Duty(a, t, i) <=> s.turn = t /\ s.c = i /\ ByChild(t, i)
  BY <1>1 DEF Copied, Duty
<1>5. Duty(b, t, i) <=> s.turn = t /\ s.next = i /\ Reads(t, i) /\ ByChild(t, i)
  BY <1>1 DEF Copied, Duty
<1>6. Duty(s, t, i) <=> Duty(a, t, i) \/ Duty(b, t, i)
  BY <1>2, <1>4, <1>5 DEF Duty
<1>7. ~ (Duty(a, t, i) /\ Duty(b, t, i))
  <2>1. s.turn = t /\ s.c = i => Writes(t, i)
    BY <1>2 DEF CommandOK, ForkLabels
  <2>2. ~ (Reads(t, i) /\ Writes(t, i))
    BY PipeEnds DEF IInv
  <2> QED
    BY <1>4, <1>5, <2>1, <2>2
<1>8. /\ DOMAIN procs' = DOMAIN procs \cup {n} /\ n \notin DOMAIN procs
      /\ procs'[p] = a /\ procs'[n] = b
      /\ \A q \in DOMAIN procs : q # p => procs'[q] = procs[q]
  BY DEF Forks
<1>9. \A q \in DOMAIN procs' : Duty(procs[q], t, i)' <=> Duty(procs'[q], t, i)
  BY DEF Duty, Reads, ByChild
<1>10. \A q \in DOMAIN procs' :
         Duty(procs'[q], t, i) => IF q = n THEN Duty(s, t, i) ELSE Duty(procs[q], t, i)
  BY <1>1, <1>6, <1>8
<1>11. Owed(t, i)' <=> Owed(t, i)
  <2>1. Owed(t, i)' => Owed(t, i)
    BY <1>1, <1>8, <1>9, <1>10 DEF Owed
  <2>2. ASSUME NEW q \in DOMAIN procs, Duty(procs[q], t, i)
        PROVE  \E o \in DOMAIN procs' : Duty(procs'[o], t, i)
    <3>1. CASE q = p
      BY <1>1, <1>6, <1>8, <2>2, <3>1
    <3>2. CASE q # p
      BY <1>8, <2>2, <3>2
    <3> QED
      BY <3>1, <3>2
  <2> QED
    BY <1>9, <2>1, <2>2 DEF Owed
<1>12. ASSUME OneOwner(t, i), NEW q \in DOMAIN procs', NEW o \in DOMAIN procs',
              Duty(procs'[q], t, i), Duty(procs'[o], t, i)
       PROVE  q = o
  <2>1. \A u \in DOMAIN procs, v \in DOMAIN procs :
          Duty(procs[u], t, i) /\ Duty(procs[v], t, i) => u = v
    BY <1>12 DEF OneOwner
  <2> DEFINE before(u) == IF u = n THEN p ELSE u
  <2>2. before(q) \in DOMAIN procs /\ before(o) \in DOMAIN procs
    BY <1>8
  <2>3. Duty(procs[before(q)], t, i) /\ Duty(procs[before(o)], t, i)
    BY <1>1, <1>10, <1>12
  <2>4. before(q) = before(o)
    BY <2>1, <2>2, <2>3
  <2> QED
    BY <1>7, <1>8, <1>12, <2>4
<1>13. OneOwner(t, i) => OneOwner(t, i)'
  BY <1>9, <1>12 DEF OneOwner
<1> QED
  BY <1>11, <1>13

LEMMA ForkReaderRuns ==
  ASSUME IInv, CommandsOK, RunsOK, NEW p \in DOMAIN procs, ForkReader(p)
  PROVE  RunsOK'
<1>1. /\ p # shell /\ procs[p].pc = "fork" /\ UNCHANGED <<commands, ran>>
      /\ \E n, a, b :
           /\ Forks(p, n, a, b)
           /\ Copied(procs[p], a, "writer", procs[p].parent)
           /\ Copied(procs[p], b, "reader", p)
  BY ForkReaderValues
<1>2. PICK n, a, b :
           /\ Forks(p, n, a, b)
           /\ Copied(procs[p], a, "writer", procs[p].parent)
           /\ Copied(procs[p], b, "reader", p)
  BY <1>1
<1>3. shell \in DOMAIN procs
  BY ShellRecord DEF IInv
<1>4. SameLoop
  BY <1>1, <1>2, <1>3, ShellStays DEF Forks
<1>5. ASSUME NEW t \in DOMAIN commands, NEW i \in DOMAIN commands[t]
      PROVE  RunOK(t, i)'
  <2>1. RunOK(t, i) /\ OneOwner(t, i) /\ ran'[t][i] = ran[t][i]
    BY <1>1 DEF RunsOK, RunOK
  <2>2. (Owed(t, i)' <=> Owed(t, i)) /\ OneOwner(t, i)'
    BY <1>1, <1>2, <2>1, ForkReaderDuty
  <2> QED
    BY <1>1, <1>4, <2>1, <2>2, SameRun
<1> QED
  BY <1>1, <1>5 DEF RunsOK

(* A command that is carried out by the process that was to do it.         *)
LEMMA ExecRuns ==
  ASSUME IInv, CommandsOK, RunsOK, NEW p \in DOMAIN procs, Exec(p)
  PROVE  RunsOK'
<1>1. /\ p # shell /\ procs[p].pc = "exec" /\ Counts(p)
      /\ UNCHANGED commands
      /\ \/ Exit(p)
         \/ \E r : procs' = [procs EXCEPT ![p] = r] /\ Executed(procs[p], r)
  BY ExecValues
<1>2. PICK s : s = procs[p]
  OBVIOUS
<1>3. PICK u, c : u = s.turn /\ c = s.c
  OBVIOUS
<1>4. PICK r : procs' = [procs EXCEPT ![p] = r] /\ r.pc \in RunLabels \cup {"ended"}
  BY <1>1 DEF Executed, Exit, End, Ended, NewProcess
<1>5. ProcsOK /\ HistoryTypeOK /\ shell \in DOMAIN procs
  BY ShellRecord DEF IInv
<1>6. /\ DOMAIN procs' = DOMAIN procs /\ procs'[p] = r
      /\ \A q \in DOMAIN procs : q # p => procs'[q] = procs[q]
  BY <1>4, <1>5, ChangeValues
<1>7. SameLoop
  BY <1>1, <1>5, <1>6, ShellStays
<1>8. \A t, i : ~ Duty(r, t, i)
  BY <1>4 DEF Duty, RunLabels
<1>9. \A t, i : Duty(s, t, i) <=> u = t /\ c = i /\ ByChild(t, i)
  BY <1>1, <1>2, <1>3 DEF Duty
<1>10. ASSUME NEW t \in DOMAIN commands, NEW i \in DOMAIN commands[t]
       PROVE  RunOK(t, i)'
  <2>1. RunOK(t, i) /\ OneOwner(t, i) /\ ran[t][i] \in Nat
    BY <1>5, RanNat DEF RunsOK, RunOK
  <2>2. ran'[t][i] = IF t = u /\ i = c /\ ByChild(t, i) THEN ran[t][i] + 1 ELSE ran[t][i]
    <3>1. CASE ByChild(u, c)
      <4>1. CarriedOut(p, c)
        BY <1>1, <1>2, <1>3, <3>1 DEF Counts
      <4>2. ran'[t][i] = IF t = u /\ i = c THEN ran[t][i] + 1 ELSE ran[t][i]
        BY <1>2, <1>3, <1>5, <4>1, Counted
      <4> QED
        BY <3>1, <4>2
    <3>2. CASE ~ ByChild(u, c)
      <4>1. UNCHANGED ran
        BY <1>1, <1>2, <1>3, <3>2 DEF Counts
      <4> QED
        BY <3>2, <4>1
    <3> QED
      BY <3>1, <3>2
  <2>3. CASE t = u /\ i = c /\ ByChild(t, i)
    <3>1. Owed(t, i) /\ ran[t][i] + 1 <= Limit(t, i)
      BY <1>2, <1>9, <2>1, <2>3 DEF Owed, RunOK, WithinLimit
    <3>2. \A q \in DOMAIN procs : Duty(procs[q], t, i) => q = p
      BY <1>2, <1>9, <2>1, <2>3 DEF OneOwner
    <3>3. \A q \in DOMAIN procs' : Duty(procs[q], t, i)' <=> Duty(procs'[q], t, i)
      BY <1>1 DEF Duty, Reads, ByChild
    <3>4. \A q \in DOMAIN procs' : ~ Duty(procs[q], t, i)'
      BY <1>6, <1>8, <3>2, <3>3
    <3>5. ~ Owed(t, i)' /\ OneOwner(t, i)'
      BY <3>4 DEF Owed, OneOwner
    <3>6. Limit(t, i)' = Limit(t, i)
      BY <1>1, <1>7, SameLimit
    <3>7. WithinLimit(t, i)'
      BY <2>2, <2>3, <3>1, <3>5, <3>6 DEF WithinLimit
    <3>8. Settled(t, i)'
      BY <2>1, <2>2, <2>3 DEF Settled
    <3> QED
      BY <3>5, <3>7, <3>8 DEF RunOK
  <2>4. CASE ~ (t = u /\ i = c /\ ByChild(t, i))
    <3>1. Duty(procs[p], t, i) <=> Duty(r, t, i)
      BY <1>2, <1>8, <1>9, <2>4
    <3>2. (Owed(t, i)' <=> Owed(t, i)) /\ OneOwner(t, i)'
      BY <1>1, <1>4, <1>5, <2>1, <3>1, SameOwners
    <3>3. ran'[t][i] = ran[t][i]
      BY <2>2, <2>4
    <3> QED
      BY <1>1, <1>7, <2>1, <3>2, <3>3, SameRun
  <2> QED
    BY <2>3, <2>4
<1> QED
  BY <1>1, <1>10 DEF RunsOK

-----------------------------------------------------------------------------
(* The loop over the commands of a line.                                   *)

(* When the shell has no child, whoever has something to do is behind a    *)
(* pipe.                                                                   *)
LEMMA OwedReads ==
  ASSUME CommandsOK, NoChildren, NEW t, NEW i, Owed(t, i)
  PROVE  Reads(t, i) /\ ByChild(t, i)
<1>1. PICK p \in DOMAIN procs : Duty(procs[p], t, i)
  BY DEF Owed
<1>2. CommandOK(procs[p])
  BY DEF CommandsOK
<1>3. procs[p].pc = "ended" \/ procs[p].parent # shell
  BY DEF NoChildren
<1> QED
  BY <1>1, <1>2, <1>3 DEF Duty, CommandOK

(* What is behind the front of the queue has not been touched; the front   *)
(* itself may have been, if it is behind a cd or a pipe.                   *)
LEMMA AtFront ==
  ASSUME HistoryTypeOK, CommandsOK, NoChildren,
         NEW t \in DOMAIN commands, NEW i \in DOMAIN commands[t], RunOK(t, i), Executing(t),
         NEW x, x = procs[shell].next, i >= x
  PROVE  /\ ran[t][i] \in Nat
         /\ i # x => ran[t][i] = 0 /\ ~ Owed(t, i)
         /\ ran[t][i] <= 1
         /\ Owed(t, i) => ran[t][i] = 0 /\ Reads(t, i) /\ ByChild(t, i)
         /\ ran[t][i] # 0 => BehindCd(t, i) \/ ForReader(t, i)
<1>1. ran[t][i] \in Nat
  BY RanNat
<1>2. PICK n \in Nat : n = ran[t][i]
  BY <1>1
<1>3. Limit(t, i) = IF i = x /\ (BehindCd(t, i) \/ ForReader(t, i)) THEN 1 ELSE 0
  BY DEF Limit
<1>4. n <= Limit(t, i) /\ (Owed(t, i) => n + 1 <= Limit(t, i))
  BY <1>2 DEF RunOK, WithinLimit
<1>5. /\ i # x => n = 0 /\ ~ Owed(t, i)
      /\ n <= 1
      /\ Owed(t, i) => n = 0
      /\ n # 0 => BehindCd(t, i) \/ ForReader(t, i)
  BY <1>3, <1>4
<1> QED
  BY <1>2, <1>5, OwedReads

(* The front of the queue may be passed: a cd in front is counted then.    *)
LEMMA FrontPassed ==
  ASSUME IInv, CommandsOK, NoChildren,
         NEW t \in DOMAIN commands, NEW x \in DOMAIN commands[t], RunOK(t, x), Executing(t),
         x = procs[shell].next, CountsCd(t, x), t = procs[shell].turn
  PROVE  /\ ran'[t][x] = IF DoesCd(t, x) THEN ran[t][x] + 1 ELSE ran[t][x]
         /\ ran[t][x] \in Nat
         /\ ran'[t][x] <= AtMost(t, x)
         /\ Owed(t, x) => ran'[t][x] + 1 <= AtMost(t, x)
<1>1. HistoryTypeOK /\ x >= x
  BY LineNat DEF IInv
<1>2. /\ ran[t][x] \in Nat /\ ran[t][x] <= 1
      /\ Owed(t, x) => ran[t][x] = 0 /\ ByChild(t, x)
      /\ ran[t][x] # 0 => BehindCd(t, x) \/ ForReader(t, x)
  BY <1>1, AtFront
<1>3. PICK n \in Nat : n = ran[t][x]
  BY <1>2
<1>4. CASE DoesCd(t, x)
  <2>1. CarriedOut(shell, x)
    BY <1>4 DEF CountsCd
  <2>2. ran'[t][x] = IF t = t /\ x = x THEN ran[t][x] + 1 ELSE ran[t][x]
    BY <1>1, <2>1, Counted
  <2>3. AtMost(t, x) = IF BehindCd(t, x) THEN 2 ELSE 1
    BY DEF AtMost
  <2>4. ~ ByChild(t, x)
    BY <1>4 DEF ByChild, DoesCd
  <2>5. n + 1 <= AtMost(t, x) /\ ~ Owed(t, x)
    BY <1>2, <1>3, <2>3, <2>4 DEF ForReader
  <2> QED
    BY <1>3, <1>4, <2>2, <2>5
<1>5. CASE ~ DoesCd(t, x)
  <2>1. ran'[t][x] = ran[t][x]
    BY <1>5 DEF CountsCd
  <2>2. n <= AtMost(t, x) /\ (Owed(t, x) => n + 1 <= AtMost(t, x))
    BY <1>2, <1>3 DEF AtMost
  <2> QED
    BY <1>3, <1>5, <2>1, <2>2
<1> QED
  BY <1>4, <1>5

(* The loop ends when no command is behind the front of the queue, and the *)
(* front is a cd or fed by a pipe.                                         *)
LEMMA NothingLeft ==
  ASSUME IInv, procs[shell].pc = "next", Exhausted(shell),
         NEW t, t = procs[shell].turn, NEW x, x = procs[shell].next,
         NEW i \in DOMAIN commands[t], i >= x
  PROVE  i = x /\ (DoesCd(t, x) \/ ForReader(t, x))
<1>1. shell \in DOMAIN procs
  BY ShellRecord DEF IInv
<1>2. t \in DOMAIN commands /\ x \in Nat /\ x >= 1
  BY <1>1, LoopValues
<1>3. Len(commands[t]) \in Nat /\ DOMAIN commands[t] = 1 .. Len(commands[t])
  BY <1>2, LineNat DEF IInv
<1>4. i \in Nat /\ i <= Len(commands[t])
  BY <1>3
<1>5. CASE IsCd(shell)
  <2>1. DoesCd(t, x)
    BY <1>5 DEF IsCd, DoesCd, Command, Taken
  <2>2. x + 1 <= Len(commands[t]) => Forked(shell) > Len(commands[t])
    BY <1>5 DEF Exhausted, AfterCd, Taken, Count
  <2>3. Forked(shell) = x + 1
    BY <1>5 DEF Forked, AfterCd, Taken
  <2>4. ~ (x + 1 <= Len(commands[t]))
    BY <1>2, <1>3, <2>2, <2>3
  <2> QED
    BY <1>2, <1>3, <1>4, <2>1, <2>4
<1>6. CASE ~ IsCd(shell)
  <2>1. x <= Len(commands[t]) => Forked(shell) > Len(commands[t])
    BY <1>6 DEF Exhausted, AfterCd, Taken, Count
  <2>2. Forked(shell) = IF Reads(t, x) THEN x + 1 ELSE x
    BY <1>6 DEF Forked, AfterCd, Taken, IsFed, Reads, Command
  <2>3. x <= Len(commands[t])
    BY <1>2, <1>3, <1>4
  <2>4. Reads(t, x) /\ x + 1 > Len(commands[t])
    BY <1>2, <1>3, <2>1, <2>2, <2>3
  <2>5. ByChild(t, x)
    BY <1>6, <2>3 DEF Exhausted, Quits, IsCd, AfterCd, Taken, Count, Command, ByChild
  <2> QED
    BY <1>2, <1>3, <1>4, <2>4, <2>5 DEF ForReader
<1> QED
  BY <1>5, <1>6

(* Only the cd in front of the queue is counted.                           *)
LEMMA OthersNotCounted ==
  ASSUME HistoryTypeOK, NEW t, t = procs[shell].turn, NEW x, CountsCd(t, x),
         NEW u \in DOMAIN commands, NEW i \in DOMAIN commands[u], u # t \/ i # x
  PROVE  ran'[u][i] = ran[u][i]
<1>1. CASE CarriedOut(shell, x)
  <2>1. ran'[u][i] = IF u = t /\ i = x THEN ran[u][i] + 1 ELSE ran[u][i]
    BY <1>1, Counted
  <2> QED
    BY <2>1
<1>2. CASE UNCHANGED ran
  BY <1>2
<1> QED
  BY <1>1, <1>2 DEF CountsCd

LEMMA AtMostSame ==
  ASSUME UNCHANGED commands, NEW t, NEW i
  PROVE  /\ AtMost(t, i)' = AtMost(t, i) /\ AtMost(t, i) \in {1, 2}
         /\ LeftToChild(t, i)' <=> LeftToChild(t, i)
BY DEF AtMost, BehindCd, LeftToChild

(* Outside of the part of a line that the loop has yet to pass, only       *)
(* the final limit counts.                                                 *)
LEMMA Outside ==
  ASSUME NEW t, NEW i, ~ (Executing(t) /\ i >= procs[shell].next), RunOK(t, i),
         procs[shell].pc # "ended"
  PROVE  /\ ran[t][i] <= AtMost(t, i)
         /\ Owed(t, i) => ran[t][i] + 1 <= AtMost(t, i)
         /\ ran[t][i] > 0 \/ Owed(t, i) \/ LeftToChild(t, i)
BY DEF RunOK, WithinLimit, Settled, Limit, StillAhead

LEMMA OutsideNext ==
  ASSUME UNCHANGED commands, NEW t, NEW i, ~ (Executing(t)' /\ i >= procs'[shell].next),
         OneOwner(t, i)', ran'[t][i] <= AtMost(t, i),
         Owed(t, i)' => ran'[t][i] + 1 <= AtMost(t, i),
         ran'[t][i] > 0 \/ Owed(t, i)' \/ LeftToChild(t, i) \/ procs'[shell].pc = "ended"
  PROVE  RunOK(t, i)'
<1>1. Limit(t, i)' = AtMost(t, i) /\ (LeftToChild(t, i)' <=> LeftToChild(t, i))
  BY AtMostSame DEF Limit
<1>2. WithinLimit(t, i)' /\ Settled(t, i)'
  BY <1>1 DEF WithinLimit, Settled
<1> QED
  BY <1>2 DEF RunOK

LEMMA LeaveRuns ==
  ASSUME IInv, CommandsOK, RunsOK, NEW p \in DOMAIN procs, Return(p) \/ Quit(p)
  PROVE  RunsOK'
<1>1. PICK t, x : t = procs[shell].turn /\ x = procs[shell].next
  OBVIOUS
<1>2. /\ p = shell /\ procs[shell].pc = "next" /\ UNCHANGED commands
      /\ CountsCd(t, x)
      /\ \E r : /\ procs' = [procs EXCEPT ![shell] = r]
                /\ (r.pc = "read" /\ Return(p)) \/ r.pc = "ended"
  BY <1>1, LeaveValues
<1>3. NoChildren /\ t \in DOMAIN commands /\ x \in Nat /\ Executing(t)
  BY <1>1, <1>2, LoopValues DEF Executing
<1>4. PICK r : /\ procs' = [procs EXCEPT ![shell] = r]
               /\ (r.pc = "read" /\ Exhausted(shell)) \/ r.pc = "ended"
  BY <1>2 DEF Return
<1>5. ProcsOK /\ HistoryTypeOK /\ shell \in DOMAIN procs /\ procs'[shell] = r
  BY <1>4, ShellRecord DEF IInv
<1>6. \A u : ~ Executing(u)' /\ (Executing(u) => u = t)
  BY <1>1, <1>4, <1>5 DEF Executing
<1>7. ASSUME NEW u \in DOMAIN commands, NEW i \in DOMAIN commands[u]
      PROVE  RunOK(u, i)'
  <2>1. RunOK(u, i) /\ OneOwner(u, i) /\ ran[u][i] \in Nat /\ i \in Nat
    BY <1>5, RanNat, LineNat DEF RunsOK, RunOK
  <2>2. (Owed(u, i)' <=> Owed(u, i)) /\ OneOwner(u, i)'
    <3>1. Duty(procs[shell], u, i) <=> Duty(r, u, i)
      BY <1>2, <1>4 DEF Duty
    <3> QED
      BY <1>2, <1>4, <1>5, <2>1, <3>1, SameOwners
  <2>3. CASE ~ (Executing(u) /\ i >= x)
    <3>1. u # t \/ i # x
      BY <1>3, <2>3
    <3>2. ran'[u][i] = ran[u][i]
      BY <1>1, <1>2, <1>5, <3>1, OthersNotCounted
    <3>3. /\ ran[u][i] <= AtMost(u, i)
          /\ Owed(u, i) => ran[u][i] + 1 <= AtMost(u, i)
          /\ ran[u][i] > 0 \/ Owed(u, i) \/ LeftToChild(u, i)
      BY <1>1, <1>2, <2>1, <2>3, Outside
    <3> QED
      BY <1>2, <1>6, <2>2, <3>2, <3>3, OutsideNext
  <2>4. CASE u = t /\ i = x
    <3>1. /\ ran'[u][i] = IF DoesCd(t, x) THEN ran[u][i] + 1 ELSE ran[u][i]
          /\ ran'[u][i] <= AtMost(u, i)
          /\ Owed(u, i) => ran'[u][i] + 1 <= AtMost(u, i)
      BY <1>1, <1>2, <1>3, <2>1, <2>4, FrontPassed
    <3>2. ran'[u][i] > 0 \/ Owed(u, i) \/ LeftToChild(u, i) \/ procs'[shell].pc = "ended"
      <4>1. CASE r.pc = "ended"
        BY <1>5, <4>1
      <4>2. CASE Exhausted(shell) /\ DoesCd(t, x)
        BY <2>1, <3>1, <4>2
      <4>3. CASE Exhausted(shell) /\ ~ DoesCd(t, x)
        <5>1. ForReader(t, x)
          BY <1>1, <1>2, <1>3, <2>4, <4>3, NothingLeft
        <5>2. ran[u][i] > 0 \/ Owed(u, i) \/ LeftToChild(u, i)
          BY <1>1, <1>2, <2>1, <2>4, <5>1 DEF RunOK, Settled, StillAhead
        <5> QED
          BY <3>1, <4>3, <5>2
      <4> QED
        BY <1>4, <4>1, <4>2, <4>3
    <3> QED
      BY <1>2, <1>6, <2>2, <3>1, <3>2, OutsideNext
  <2>5. CASE Executing(u) /\ i >= x /\ ~ (u = t /\ i = x)
    <3>1. u = t /\ i # x
      BY <1>6, <2>5
    <3>2. ran'[u][i] = ran[u][i]
      BY <1>1, <1>2, <1>5, <3>1, OthersNotCounted
    <3>3. ran[u][i] = 0 /\ ~ Owed(u, i)
      BY <1>1, <1>3, <1>5, <2>1, <2>5, <3>1, AtFront
    <3>4. r.pc = "ended"
      BY <1>1, <1>2, <1>4, <2>5, <3>1, NothingLeft
    <3>5. 0 <= AtMost(u, i)
      BY <1>2, AtMostSame
    <3> QED
      BY <1>2, <1>5, <1>6, <2>2, <3>2, <3>3, <3>4, <3>5, OutsideNext
  <2> QED
    BY <2>3, <2>4, <2>5
<1> QED
  BY <1>2, <1>7 DEF RunsOK

(* Commands that have just been parsed belong to nobody.                   *)
RejectedEmpty == verdict = "rejected" => clist = <<>>

LEMMA ParsedRuns ==
  ASSUME IInv, CommandsOK, RunsOK, RejectedEmpty, Parsed
  PROVE  RunsOK'
<1>1. HistoryTypeOK /\ ParserOK /\ ProcsOK /\ shell \in DOMAIN procs
  BY ShellRecord DEF IInv
<1>2. PICK n \in Nat : n = Len(commands) /\ DOMAIN commands = 1 .. n
  BY <1>1, LenProperties DEF HistoryTypeOK
<1>3. /\ HistoryGrows
      /\ commands' \in Seq(Seq(CommandRecord)) /\ Len(commands') = n + 1
      /\ commands'[n + 1] = clist
      /\ ran'[n + 1] = [i \in DOMAIN clist |-> 0]
      /\ \A t \in DOMAIN commands : ran'[t] = ran[t]
  BY <1>1, <1>2, ParsedGrows
<1>4. PICK r : /\ procs' = [procs EXCEPT ![shell] = r] /\ r.turn = n + 1 /\ r.next = 1
               /\ r.pc = IF verdict = "parsed" THEN "next" ELSE "read"
  BY <1>2, ParsedValues
<1>5. procs[shell].pc = "parse" /\ verdict \in {"parsed", "rejected"}
  BY <1>1 DEF Parsed, ParserOK, ParserTypeOK
<1>6. /\ DOMAIN procs' = DOMAIN procs /\ procs'[shell] = r
      /\ \A q \in DOMAIN procs : q # shell => procs'[q] = procs[q]
  BY <1>1, <1>4, ChangeValues
<1>7. \A t, i : ~ Duty(r, t, i)' /\ ~ Duty(procs[shell], t, i)
  BY <1>4, <1>5 DEF Duty
<1>8. ASSUME NEW t \in DOMAIN commands, NEW i \in DOMAIN commands[t]
      PROVE  RunOK(t, i)'
  <2>1. commands'[t] = commands[t] /\ ran'[t] = ran[t]
    BY <1>3 DEF HistoryGrows
  <2>2. \A q \in DOMAIN procs : Duty(procs[q], t, i)' <=> Duty(procs[q], t, i)
    <3>1. ASSUME NEW q \in DOMAIN procs
          PROVE  Duty(procs[q], t, i)' <=> Duty(procs[q], t, i)
      <4>1. CASE q = shell
        BY <1>6, <1>7, <4>1
      <4>2. CASE q # shell
        BY <1>6, <2>1, <4>2 DEF Duty, Reads, ByChild
      <4> QED
        BY <4>1, <4>2
    <3> QED
      BY <3>1
  <2>3. RunOK(t, i)
    BY DEF RunsOK
  <2>4. (Owed(t, i)' <=> Owed(t, i)) /\ OneOwner(t, i)'
    BY <1>6, <2>2, <2>3 DEF Owed, OneOwner, RunOK
  <2>5. ~ Executing(t) /\ ~ Executing(t)'
    BY <1>2, <1>4, <1>5, <1>6 DEF Executing
  <2>6. /\ ran[t][i] <= AtMost(t, i)
        /\ Owed(t, i) => ran[t][i] + 1 <= AtMost(t, i)
        /\ ran[t][i] > 0 \/ Owed(t, i) \/ LeftToChild(t, i)
    BY <1>5, <2>3, <2>5, Outside
  <2>7. AtMost(t, i)' = AtMost(t, i) /\ (LeftToChild(t, i)' <=> LeftToChild(t, i))
    BY <2>1 DEF AtMost, LeftToChild, BehindCd
  <2>8. Limit(t, i)' = AtMost(t, i)
    BY <2>5, <2>7 DEF Limit
  <2>9. WithinLimit(t, i)' /\ Settled(t, i)'
    BY <2>1, <2>4, <2>6, <2>7, <2>8 DEF WithinLimit, Settled
  <2> QED
    BY <2>4, <2>9 DEF RunOK
<1>9. ASSUME NEW i \in DOMAIN commands'[n + 1]
      PROVE  RunOK(n + 1, i)'
  <2>1. ran'[n + 1][i] = 0 /\ clist # <<>>
    BY <1>3, <1>9
  <2>2. verdict = "parsed"
    BY <1>5, <2>1 DEF RejectedEmpty
  <2>3. Executing(n + 1)' /\ procs'[shell].next = 1
    BY <1>4, <1>6, <2>2 DEF Executing
  <2>4. ASSUME NEW q \in DOMAIN procs'
        PROVE  ~ Duty(procs[q], n + 1, i)'
    <3>1. CASE q = shell
      BY <1>6, <1>7, <3>1
    <3>2. CASE q # shell
      <4>1. CommandOK(procs[q]) /\ procs'[q] = procs[q]
        BY <1>6, <3>2 DEF CommandsOK
      <4>2. n + 1 \notin DOMAIN commands
        BY <1>2
      <4> QED
        BY <4>1, <4>2 DEF Duty, CommandOK, ForkLabels, ChildLabels
    <3> QED
      BY <3>1, <3>2
  <2>5. ~ Owed(n + 1, i)' /\ OneOwner(n + 1, i)'
    BY <2>4 DEF Owed, OneOwner
  <2>6. Limit(n + 1, i)' \in {0, 1, 2}
    BY DEF Limit, AtMost
  <2>7. WithinLimit(n + 1, i)'
    BY <2>1, <2>5, <2>6 DEF WithinLimit
  <2>8. i \in Nat /\ i >= 1 /\ (i = 1 => ~ Reads(n + 1, i)')
    <3>1. /\ clist \in Seq(CommandRecord) /\ Paired(clist)
      BY <1>1 DEF ParserOK, ParserTypeOK
    <3>2. DOMAIN clist = 1 .. Len(clist) /\ Len(clist) \in Nat
      BY <3>1, LenProperties
    <3>3. ~ clist[1].pipe_in
      BY <2>1, <3>1 DEF Paired
    <3> QED
      BY <1>3, <1>9, <3>2, <3>3 DEF Reads
  <2>9. Settled(n + 1, i)'
    BY <2>3, <2>8 DEF Settled, StillAhead, ForReader
  <2> QED
    BY <2>5, <2>7, <2>9 DEF RunOK
<1>10. DOMAIN commands' = 1 .. n + 1 /\ \A t \in 1 .. n + 1 : t \in 1 .. n \/ t = n + 1
  BY <1>2, <1>3, LenProperties
<1>11. \A t \in DOMAIN commands : commands'[t] = commands[t]
  BY <1>3 DEF HistoryGrows
<1> QED
  BY <1>2, <1>8, <1>9, <1>10, <1>11 DEF RunsOK

(* What the new process of a fork has to do comes to what was to be done.  *)
LEMMA ForkOwners ==
  ASSUME UNCHANGED commands, NEW p \in DOMAIN procs, NEW n, NEW a, NEW b,
         Forks(p, n, a, b), NEW t, NEW i,
         Duty(procs[p], t, i) <=> Duty(a, t, i), ~ (Owed(t, i) /\ Duty(b, t, i)),
         OneOwner(t, i)
  PROVE  /\ Owed(t, i)' <=> Owed(t, i) \/ Duty(b, t, i)
         /\ OneOwner(t, i)'
<1>1. /\ DOMAIN procs' = DOMAIN procs \cup {n} /\ n \notin DOMAIN procs
      /\ procs'[p] = a /\ procs'[n] = b
      /\ \A q \in DOMAIN procs : q # p => procs'[q] = procs[q]
  BY DEF Forks
<1>2. ASSUME NEW q \in DOMAIN procs
      PROVE  Duty(procs[q], t, i)' <=> Duty(procs[q], t, i)
  <2>1. Duty(procs[q], t, i)' <=> Duty(procs'[q], t, i)
    BY DEF Duty, Reads, ByChild
  <2>2. CASE q = p
    BY <1>1, <2>1, <2>2
  <2>3. CASE q # p
    BY <1>1, <2>1, <2>3
  <2> QED
    BY <2>2, <2>3
<1>3. Duty(procs[n], t, i)' <=> Duty(b, t, i)
  <2>1. Duty(procs[n], t, i)' <=> Duty(procs'[n], t, i)
    BY DEF Duty, Reads, ByChild
  <2> QED
    BY <1>1, <2>1
<1>4. \A q \in DOMAIN procs' : q \in DOMAIN procs \/ q = n
  BY <1>1
<1>5. Owed(t, i)' <=> Owed(t, i) \/ Duty(b, t, i)
  BY <1>1, <1>2, <1>3, <1>4 DEF Owed
<1>6. OneOwner(t, i)'
  <2>1. ASSUME NEW q \in DOMAIN procs', NEW o \in DOMAIN procs',
               Duty(procs[q], t, i)', Duty(procs[o], t, i)'
        PROVE  q = o
    <3>1. CASE Duty(b, t, i)
      <4>1. \A u \in DOMAIN procs : ~ Duty(procs[u], t, i)
        BY <3>1 DEF Owed
      <4> QED
        BY <1>2, <1>4, <2>1, <4>1
    <3>2. CASE ~ Duty(b, t, i)
      <4>1. q \in DOMAIN procs /\ o \in DOMAIN procs
        BY <1>3, <1>4, <2>1, <3>2
      <4> QED
        BY <1>2, <2>1, <4>1 DEF OneOwner
    <3> QED
      BY <3>1, <3>2
  <2> QED
    BY <2>1 DEF OneOwner
<1> QED
  BY <1>5, <1>6

(* A command is taken from the queue; the one behind it that reads from it *)
(* is the new process's, too.                                              *)
LEMMA ForkCommandRuns ==
  ASSUME IInv, CommandsOK, RunsOK, NEW p \in DOMAIN procs, ForkCommand(p)
  PROVE  RunsOK'
<1>1. PICK t, x, f, y : t = procs[shell].turn /\ x = procs[shell].next
                        /\ f = Forked(shell) /\ y = NextAfter(shell)
  OBVIOUS
<1>2. /\ p = shell /\ procs[p].pc = "next" /\ UNCHANGED commands
      /\ CountsCd(t, x) /\ Takes(t, x, f, y)
      /\ \E m, n, a, b, there :
           /\ Forks(shell, n, a, b)
           /\ m.turn = t /\ m.c = f /\ m.next = y
           /\ there = IF Writes(m.turn, m.c) THEN "pipe" ELSE "redirect"
           /\ Copied(m, a, "wait", procs[shell].parent) /\ Copied(m, b, there, shell)
  BY <1>1, ForkCommandValues
<1>3. t \in DOMAIN commands /\ x \in Nat /\ x >= 1 /\ NoChildren /\ Executing(t)
  BY <1>1, <1>2, LoopValues DEF Executing
<1>4. PICK n, a, b : /\ Forks(shell, n, a, b)
                     /\ a.pc = "wait" /\ a.turn = t /\ a.next = y
                     /\ b.turn = t /\ b.c = f /\ b.next = y
                     /\ b.pc = IF Writes(t, f) THEN "pipe" ELSE "redirect"
  BY <1>2 DEF Copied
<1>5. x \in DOMAIN commands[t] /\ f \in DOMAIN commands[t] /\ f \in Nat /\ y \in Nat /\ y > x
  BY <1>2, <1>3, LineNat DEF Takes, IInv
<1>6. HistoryTypeOK /\ CommandsPaired /\ ProcsOK /\ shell \in DOMAIN procs
  BY ShellRecord DEF IInv
<1>7. procs'[shell] = a
  BY <1>4 DEF Forks
<1>8. /\ \A u : Executing(u)' <=> u = t
      /\ \A u : Executing(u) => u = t
      /\ procs'[shell].next = y /\ procs'[shell].pc # "ended"
  BY <1>1, <1>4, <1>7 DEF Executing
<1>9. \A u, i : Duty(b, u, i) <=>
        u = t /\ ByChild(t, i) /\ (i = f \/ (i = y /\ Writes(t, f) /\ Reads(t, y)))
  BY <1>4 DEF Duty
<1>10. \A u, i : ~ Duty(a, u, i) /\ ~ Duty(procs[shell], u, i)
  BY <1>2, <1>4 DEF Duty
<1>11. ASSUME NEW u \in DOMAIN commands, NEW i \in DOMAIN commands[u]
       PROVE  RunOK(u, i)'
  <2>1. RunOK(u, i) /\ OneOwner(u, i) /\ ran[u][i] \in Nat /\ i \in Nat
    BY <1>6, RanNat, LineNat DEF RunsOK, RunOK
  <2>2. ASSUME ~ (Owed(u, i) /\ Duty(b, u, i))
        PROVE  /\ Owed(u, i)' <=> Owed(u, i) \/ Duty(b, u, i)
               /\ OneOwner(u, i)'
    BY <1>2, <1>4, <1>6, <1>10, <2>1, <2>2, ForkOwners
  <2>3. CASE ~ (u = t /\ i >= x)
    <3>1. ~ (Executing(u) /\ i >= x) /\ (u # t \/ i # x)
      BY <1>3, <1>8, <2>3
    <3>2. ran'[u][i] = ran[u][i]
      BY <1>1, <1>2, <1>6, <3>1, OthersNotCounted
    <3>3. /\ ran[u][i] <= AtMost(u, i)
          /\ Owed(u, i) => ran[u][i] + 1 <= AtMost(u, i)
          /\ ran[u][i] > 0 \/ Owed(u, i) \/ LeftToChild(u, i)
      BY <1>1, <1>2, <2>1, <3>1, Outside
    <3>4. ~ Duty(b, u, i)
      <4>1. f >= x
        BY <1>2, <1>3 DEF Takes
      <4> QED
        BY <1>3, <1>5, <1>9, <2>3, <4>1
    <3>5. (Owed(u, i)' <=> Owed(u, i)) /\ OneOwner(u, i)'
      BY <2>2, <3>4
    <3>6. ~ (Executing(u)' /\ i >= procs'[shell].next)
      BY <1>3, <1>5, <1>8, <2>1, <2>3
    <3> QED
      BY <1>2, <3>2, <3>3, <3>5, <3>6, OutsideNext
  <2>4. CASE u = t /\ i = x
    <3>1. /\ ran'[u][i] = IF DoesCd(t, x) THEN ran[u][i] + 1 ELSE ran[u][i]
          /\ ran'[u][i] <= AtMost(u, i)
          /\ Owed(u, i) => ran'[u][i] + 1 <= AtMost(u, i)
      BY <1>1, <1>2, <1>3, <1>5, <2>1, <2>4, FrontPassed
    <3>2. ~ (Executing(u)' /\ i >= procs'[shell].next)
      BY <1>3, <1>5, <1>8, <2>4
    <3>3. CASE f = x
      <4>1. ~ DoesCd(t, x) /\ ~ Reads(t, x) /\ ByChild(t, x)
        BY <1>2, <1>3, <3>3 DEF Takes
      <4>2. x >= x
        BY <1>3
      <4>3. /\ ran[u][i] <= 1
            /\ ran[u][i] # 0 => BehindCd(u, i)
            /\ ~ Owed(u, i)
        BY <1>1, <1>3, <1>6, <2>1, <2>4, <4>1, <4>2, AtFront DEF ForReader
      <4>4. Duty(b, u, i)
        BY <1>9, <2>4, <3>3, <4>1
      <4>5. Owed(u, i)' /\ OneOwner(u, i)'
        BY <2>2, <4>3, <4>4
      <4>6. ran'[u][i] = ran[u][i]
        BY <3>1, <4>1
      <4>7. ran[u][i] + 1 <= AtMost(u, i)
        BY <2>1, <4>3 DEF AtMost
      <4> QED
        BY <1>2, <3>1, <3>2, <4>5, <4>6, <4>7, OutsideNext
    <3>4. CASE f # x
      <4>1. f = x + 1 /\ (DoesCd(t, x) \/ ForReader(t, x))
        BY <1>2, <3>4 DEF Takes, ForReader
      <4>2. ~ Duty(b, u, i)
        BY <1>3, <1>5, <1>9, <2>4, <4>1
      <4>3. (Owed(u, i)' <=> Owed(u, i)) /\ OneOwner(u, i)'
        BY <2>2, <4>2
      <4>4. ran'[u][i] > 0 \/ Owed(u, i) \/ LeftToChild(u, i)
        <5>1. CASE DoesCd(t, x)
          BY <2>1, <3>1, <5>1
        <5>2. CASE ~ DoesCd(t, x)
          <6>1. ran[u][i] > 0 \/ Owed(u, i) \/ LeftToChild(u, i)
            BY <1>1, <1>2, <2>1, <2>4, <4>1, <5>2 DEF RunOK, Settled, StillAhead
          <6> QED
            BY <3>1, <5>2, <6>1
        <5> QED
          BY <5>1, <5>2
      <4> QED
        BY <1>2, <3>1, <3>2, <4>3, <4>4, OutsideNext
    <3> QED
      BY <3>3, <3>4
  <2>5. CASE u = t /\ i > x
    <3>1. i # x /\ i >= x
      BY <1>3, <2>1, <2>5
    <3>2. ran[u][i] = 0 /\ ~ Owed(u, i)
      BY <1>1, <1>3, <1>6, <2>1, <2>5, <3>1, AtFront
    <3>3. ran'[u][i] = 0
      BY <1>1, <1>2, <1>6, <3>1, <3>2, OthersNotCounted
    <3>4. (Owed(u, i)' <=> Duty(b, t, i)) /\ OneOwner(u, i)'
      BY <2>2, <2>5, <3>2
    <3>5. AtMost(u, i) \in {1, 2}
      BY DEF AtMost
    <3>6. /\ (BehindCd(u, i)' <=> BehindCd(t, i)) /\ (ForReader(u, i)' <=> ForReader(t, i))
          /\ LeftToChild(u, i)' <=> LeftToChild(t, i)
      BY <1>2, <2>5 DEF BehindCd, Reads, ByChild, ForReader, LeftToChild
    <3>7. Limit(u, i)' = IF i >= y
                         THEN IF i = y /\ (BehindCd(t, i) \/ ForReader(t, i)) THEN 1 ELSE 0
                         ELSE AtMost(u, i)
      BY <1>2, <1>8, <2>5, <3>6, AtMostSame DEF Limit
    <3>8. Limit(u, i)' >= 0 /\ (Duty(b, t, i) => Limit(u, i)' >= 1)
      <4>1. CASE i = y /\ ForReader(t, y)
        BY <1>5, <3>7, <4>1
      <4>2. CASE i = f /\ i = y /\ ~ ForReader(t, y)
        <5>1. DoesCd(t, x) /\ y = x + 1
          BY <1>2, <1>3, <4>2, <2>5 DEF Takes
        <5>2. BehindCd(t, i)
          <6>1. i > 1 /\ i - 1 = x
            BY <1>3, <4>2, <5>1
          <6> QED
            BY <5>1, <6>1 DEF BehindCd, DoesCd
        <5> QED
          BY <1>5, <3>7, <4>2, <5>2
      <4>3. CASE i = f /\ i # y
        <5>1. i < y
          BY <1>2, <1>3, <2>5, <4>3 DEF Takes
        <5> QED
          BY <1>5, <2>1, <3>5, <3>7, <5>1
      <4>4. CASE i # f /\ ~ (i = y /\ ForReader(t, y))
        <5>1. ~ Duty(b, t, i)
          BY <1>9, <4>4 DEF ForReader
        <5> QED
          BY <3>5, <3>7, <5>1
      <4> QED
        BY <4>1, <4>2, <4>3, <4>4
    <3>9. WithinLimit(u, i)'
      BY <3>3, <3>4, <3>8 DEF WithinLimit
    <3>10. Duty(b, t, i) \/ LeftToChild(t, i) \/ (i >= y /\ ~ (i = y /\ ForReader(t, i)))
      <4>1. CASE i < y
        <5>1. i = f /\ f = x + 1 /\ (Reads(t, x) \/ (DoesCd(t, x) /\ Reads(t, x + 1)))
          BY <1>2, <1>3, <2>1, <2>5, <4>1 DEF Takes
        <5>2. i > 1 /\ i - 1 = x
          BY <1>3, <5>1
        <5>3. CASE ByChild(t, i)
          BY <1>9, <5>1, <5>3
        <5>4. CASE ~ ByChild(t, i)
          <6>1. commands[t][i - 1].pipe_in \/ (BehindCd(t, i) /\ commands[t][i].pipe_in)
            BY <5>1, <5>2 DEF Reads, DoesCd, BehindCd
          <6> QED
            BY <5>2, <5>4, <6>1 DEF LeftToChild, ByChild
        <5> QED
          BY <5>3, <5>4
      <4>2. CASE i = y /\ ForReader(t, y)
        <5>1. y = f + 1 \/ y = f
          BY <1>2, <1>3 DEF Takes
        <5>2. ByChild(t, i) /\ Reads(t, y)
          BY <4>2 DEF ForReader
        <5>3. CASE y = f
          BY <1>9, <2>5, <4>2, <5>2, <5>3
        <5>4. CASE y = f + 1
          <6>1. Writes(t, f)
            BY <1>3, <1>5, <1>6, <2>5, <4>2, <5>2, <5>4, PipeEnds
          <6> QED
            BY <1>9, <4>2, <5>2, <6>1
        <5> QED
          BY <5>1, <5>3, <5>4
      <4>3. CASE i >= y /\ ~ (i = y /\ ForReader(t, y))
        BY <4>3
      <4> QED
        BY <1>5, <2>1, <4>1, <4>2, <4>3
    <3>11. StillAhead(u, i)' <=> i >= y /\ ~ (i = y /\ ForReader(t, i))
      BY <1>8, <2>5, <3>6 DEF StillAhead
    <3>12. Settled(u, i)'
      BY <2>5, <3>4, <3>6, <3>10, <3>11 DEF Settled
    <3> QED
      BY <3>4, <3>9, <3>12 DEF RunOK
  <2> QED
    <3>1. i >= x => i = x \/ i > x
      BY <1>3, <2>1
    <3> QED
      BY <2>3, <2>4, <2>5, <3>1
<1> QED
  BY <1>2, <1>11 DEF RunsOK

-----------------------------------------------------------------------------
LEMMA RejectedStep ==
  ASSUME RejectedEmpty, [Next]_vars
  PROVE  RejectedEmpty'
<1>1. ASSUME NEW text, Start(text)
      PROVE  RejectedEmpty'
  BY <1>1 DEF Start, RejectedEmpty
<1>2. CASE ReadTerminal \/ ReadFile
  BY <1>1, <1>2 DEF ReadTerminal, ReadFile, Tokenize
<1>3. CASE Parse
  <2>1. ASSUME NEW list, NEW rest, NEW s, GoOn(list, rest, s), verdict = "pending"
        PROVE  RejectedEmpty'
    BY <2>1 DEF GoOn, RejectedEmpty
  <2>2. ASSUME NEW words, Reject(words)
        PROVE  RejectedEmpty'
    BY <2>2 DEF Reject, RejectedEmpty
  <2>3. CASE EndOfLine
    BY <2>3 DEF EndOfLine, RejectedEmpty
  <2>4. CASE FirstWord
    BY <2>1, <2>2, <2>4 DEF FirstWord
  <2>5. CASE RedirectIn
    BY <2>1, <2>2, <2>5 DEF RedirectIn, Reached
  <2>6. CASE RedirectOut
    BY <2>1, <2>2, <2>6 DEF RedirectOut, Reached
  <2>7. CASE Pipe
    BY <2>1, <2>2, <2>7 DEF Pipe, Reached
  <2>8. CASE Background
    BY <2>1, <2>8 DEF Background, Reached
  <2>9. CASE Collect
    BY <2>1, <2>9 DEF Collect
  <2> QED
    BY <1>3, <2>3, <2>4, <2>5, <2>6, <2>7, <2>8, <2>9 DEF Parse, ParseStep
<1>4. CASE Parsed
  BY <1>4 DEF Parsed, RejectedEmpty
<1>5. CASE EndOfFile \/ UNCHANGED vars
  BY <1>5 DEF EndOfFile, vars, parseVars, RejectedEmpty
<1>6. ASSUME NEW p \in DOMAIN procs,
             Execute(p) \/ Child(p) \/ Write(p) \/ Read(p) \/ Finish(p)
      PROVE  RejectedEmpty'
  BY <1>6 DEF Execute, Child, Return, Quit, ForkCommand, Wait, MakePipe, ForkReader,
     BecomeWriter, BecomeReader, Redirect, Exec, Write, Read, Finish, parseVars,
     RejectedEmpty
<1> QED
  BY <1>2, <1>3, <1>4, <1>5, <1>6 DEF Next, Main

(* What holds of the commands together.                                    *)
LoopInv == CommandsOK /\ RunsOK /\ RejectedEmpty

LEMMA RunsStep ==
  ASSUME IInv, LoopInv, [Next]_vars
  PROVE  LoopInv'
<1> USE DEF LoopInv
<1>1. CommandsOK' /\ RejectedEmpty'
  BY CommandsStep, RejectedStep
<1>2. CASE ReadTerminal \/ ReadFile \/ EndOfFile \/ \E p \in DOMAIN procs : Wait(p)
  BY <1>1, <1>2, IdleRuns
<1>3. CASE Parse \/ UNCHANGED vars
  <2>1. UNCHANGED <<procs, commands, ran>>
    BY <1>3 DEF Parse, vars, runVars
  <2> QED
    BY <1>1, <2>1 DEF RunsOK, RunOK, OneOwner, WithinLimit, Settled, Owed, Duty, Limit,
       AtMost, ForReader, ByChild, LeftToChild, StillAhead, Executing, BehindCd,
     Reads
<1>4. CASE Parsed
  BY <1>1, <1>4, ParsedRuns
<1>5. ASSUME NEW p \in DOMAIN procs, Return(p) \/ Quit(p)
      PROVE  LoopInv'
  BY <1>1, <1>5, LeaveRuns
<1>6. ASSUME NEW p \in DOMAIN procs, ForkCommand(p)
      PROVE  LoopInv'
  BY <1>1, <1>6, ForkCommandRuns
<1>7. ASSUME NEW p \in DOMAIN procs, ForkReader(p)
      PROVE  LoopInv'
  BY <1>1, <1>7, ForkReaderRuns
<1>8. ASSUME NEW p \in DOMAIN procs, Exec(p)
      PROVE  LoopInv'
  BY <1>1, <1>8, ExecRuns
<1>9. ASSUME NEW p \in DOMAIN procs, Quiet(p)
      PROVE  LoopInv'
  BY <1>1, <1>9, QuietRuns
<1> QED
  BY <1>2, <1>3, <1>4, <1>5, <1>6, <1>7, <1>8, <1>9 DEF Next, Main, Execute, Child, Quiet

LEMMA RunsInit == Init => LoopInv
<1> SUFFICES ASSUME Init PROVE LoopInv
  OBVIOUS
<1>1. RunsOK /\ RejectedEmpty
  BY DEF Init, RunsOK, RejectedEmpty
<1> QED
  BY <1>1, CommandsInit DEF LoopInv

LEMMA RunsInvariance == Spec => []LoopInv
BY RunsInit, RunsStep, Invariance, PTL DEF Spec

(* No command of a line is carried out twice but for one behind a cd, and  *)
(* none is left out but a cd or quit that the second look leaves to a      *)
(* child, for all lines and any number of processes.                       *)
THEOREM CommandsRunOnce == Spec => []RunsOnce
<1>1. ASSUME IInv, LoopInv PROVE AtMostOnce
  <2>1. ASSUME NEW t \in DOMAIN ran, NEW i \in DOMAIN ran[t]
        PROVE  ran[t][i] <= AtMost(t, i)
    <3>1. /\ t \in DOMAIN commands /\ i \in DOMAIN commands[t]
          /\ HistoryTypeOK
      BY <1>1, LenProperties DEF IInv, HistoryTypeOK
    <3>2. ran[t][i] \in Nat
      BY <3>1, RanNat
    <3>3. ran[t][i] <= Limit(t, i)
      BY <1>1, <3>1 DEF LoopInv, RunsOK, RunOK, WithinLimit
    <3>4. Limit(t, i) = AtMost(t, i) \/ Limit(t, i) = 0 \/ (Limit(t, i) = 1)
      BY DEF Limit
    <3>5. AtMost(t, i) \in {1, 2}
      BY DEF AtMost
    <3> QED
      BY <3>2, <3>3, <3>4, <3>5
  <2> QED
    BY <2>1 DEF AtMostOnce, AtMost
<1>2. ASSUME IInv, LoopInv PROVE NothingSkipped
  <2>1. ASSUME procs[shell].pc = "read", Live = {shell},
               NEW t \in DOMAIN ran, NEW i \in DOMAIN ran[t]
        PROVE  ran[t][i] > 0 \/ LeftToChild(t, i)
    <3>1. t \in DOMAIN commands /\ i \in DOMAIN commands[t]
      BY <1>2, LenProperties DEF IInv, HistoryTypeOK
    <3>2. Settled(t, i)
      BY <1>2, <3>1 DEF LoopInv, RunsOK, RunOK
    <3>3. ~ StillAhead(t, i)
      BY <2>1 DEF StillAhead, Executing
    <3>4. ~ Owed(t, i)
      <4>1. \A p \in DOMAIN procs : p = shell \/ procs[p].pc = "ended"
        BY <2>1 DEF Live
      <4> QED
        BY <2>1, <4>1 DEF Owed, Duty
    <3> QED
      BY <2>1, <3>2, <3>3, <3>4 DEF Settled
  <2> QED
    BY <2>1 DEF NothingSkipped
<1>3. ASSUME IInv, LoopInv PROVE RunsOnce
  BY <1>1, <1>2, <1>3 DEF RunsOnce
<1> QED
  BY <1>3, Invariance, RunsInvariance, PTL

-----------------------------------------------------------------------------
(* The batch file.                                                         *)

OneBlock == Len(script) <= BufferLines

(* The lines are the file's in their order, and what is in the shell's     *)
(* buffer and behind it is the rest, as long as the file fits in one block *)
(* or no child has come to an exit; in one block nothing is behind, and    *)
(* without exits the offset stays where the buffer ends.                   *)
InOrder(L, n) ==
  /\ n = 0 => procs = <<NewProcess>> /\ ahead = L
  /\ OneBlock \/ OnlyPrograms =>
       /\ \A t \in DOMAIN lines : t < L + Beyond => lines[t] = script[t]
       /\ n > 0 /\ n < L + Beyond /\ procs[shell].pc # "ended" =>
            procs[shell].unread + procs[shell].behind = L - n
  /\ OneBlock /\ n > 0 /\ procs[shell].pc # "ended" => procs[shell].behind = 0
  /\ OnlyPrograms => n <= L + Beyond
  /\ OnlyPrograms /\ procs[shell].pc # "ended" =>
       /\ n > 0 => ahead = procs[shell].behind
       /\ n = L + Beyond => procs[shell].eof

FileOK == source = "file" => Len(script) # 0 /\ InOrder(Len(script), Len(lines))

(* The rest of the file is what the buffer and the descriptor have, and    *)
(* either the buffer is the rest or the offset is where it ends.           *)
Follows(rest) ==
  \/ procs[shell].unread > 0 /\ procs[shell].unread + procs[shell].behind = rest
  \/ procs[shell].unread = 0 /\ ahead = rest

LEMMA ReadsLine ==
  ASSUME InputTypeOK, BufferOK, NEW rest \in Nat \ {0}, Follows(rest)
  PROVE  /\ terminated \/ rest # 1 =>
              /\ fgets.text = LineAt(rest) /\ fgets.unread + fgets.behind = rest - 1
         /\ procs[shell].unread = 0 \/ ahead = procs[shell].behind =>
              /\ fgets.rest = fgets.behind
              /\ ~ terminated /\ rest = 1 => fgets.eof
         /\ procs[shell].unread = 0 /\ rest <= BufferLines => fgets.behind = 0
         /\ procs[shell].unread > 0 /\ procs[shell].behind = 0 /\ (terminated \/ rest # 1) =>
              fgets.behind = 0
<1>1. PICK h \in Nat, u \in Nat, b \in Nat, r \in Nat : Finds(h, u, b, r) /\ Gets(h, u, b, r)
  BY FgetsCases
<1>2. /\ ahead \in Nat /\ Block(ahead) \in 0 .. ahead /\ (ahead > 0 => Block(ahead) > 0)
      /\ (ahead <= BufferLines => Block(ahead) = ahead)
  BY BlockType, LenProperties DEF InputTypeOK
<1>3. /\ h = rest /\ h = u + b /\ u > 0
      /\ procs[shell].unread = 0 \/ ahead = procs[shell].behind => r = b
      /\ procs[shell].unread = 0 /\ rest <= BufferLines => b = 0
      /\ procs[shell].unread > 0 => b = procs[shell].behind
  BY <1>1, <1>2 DEF Finds, Follows, BufferOK
<1>4. CASE terminated \/ rest # 1
  <2>1. fgets = Text(LineAt(h), u - 1, b, r, FALSE)
    BY <1>1, <1>3, <1>4 DEF Gets
  <2>2. /\ fgets.text = LineAt(h) /\ fgets.unread = u - 1 /\ fgets.behind = b
        /\ fgets.rest = r
    BY <2>1 DEF Text
  <2>3. u - 1 + b = rest - 1
    BY <1>3
  <2> QED
    BY <1>3, <1>4, <2>2, <2>3
<1>5. CASE ~ terminated /\ rest = 1
  <2>0. h = rest /\ rest = u + b /\ u > 0
    BY <1>3
  <2>1. b = 0
    BY <1>5, <2>0
  <2>2. CASE r = 0
    <3>1. fgets = Text(LineAt(h), 0, 0, 0, TRUE)
      <4>1. h # 0 /\ ~ (terminated \/ h # 1) /\ ~ (r > 0)
        BY <1>5, <2>0, <2>2
      <4> QED
        BY <1>1, <4>1 DEF Gets
    <3>2. fgets.behind = 0 /\ fgets.rest = 0 /\ fgets.eof
      BY <3>1 DEF Text
    <3> QED
      BY <1>5, <3>2
  <2>3. CASE r # 0
    <3>1. ~ (procs[shell].unread = 0 \/ ahead = procs[shell].behind)
      BY <1>3, <2>1, <2>3
    <3> QED
      BY <1>5, <3>1
  <2> QED
    BY <2>2, <2>3
<1> QED
  BY <1>4, <1>5

LEMMA ReadsNothing ==
  ASSUME InputTypeOK, BufferOK, procs[shell].unread = 0, ahead = 0
  PROVE  fgets.rest = 0 /\ fgets.behind = 0 /\ fgets.eof
<1>1. PICK h \in Nat, u \in Nat, b \in Nat, r \in Nat : Finds(h, u, b, r) /\ Gets(h, u, b, r)
  BY FgetsCases
<1>2. h = 0
  BY <1>1 DEF Finds
<1>3. fgets = Text(line, 0, 0, 0, TRUE)
  BY <1>1, <1>2 DEF Gets
<1> QED
  BY <1>3 DEF Text

(* In a file of one block the shell's reads leave nothing behind.          *)
LEMMA FitsBehind ==
  ASSUME InputTypeOK, BufferOK, OneBlock, procs[shell].unread = 0 \/ procs[shell].behind = 0
  PROVE  fgets.behind = 0
<1>1. PICK h \in Nat, u \in Nat, b \in Nat, r \in Nat : Finds(h, u, b, r) /\ Gets(h, u, b, r)
  BY FgetsCases
<1>2. ahead \in 0 .. Len(script) /\ Len(script) \in Nat /\ BufferLines \in Nat
  BY ScriptAssumption, LenProperties DEF InputTypeOK
<1>3. Block(ahead) = ahead
  BY <1>2, BlockType DEF OneBlock
<1>4. /\ b = 0 /\ r \in Nat /\ r <= Len(script)
  BY <1>1, <1>2, <1>3 DEF Finds
<1>5. Block(r) = r
  BY <1>2, <1>4, BlockType DEF OneBlock
<1>6. PICK none : none = r - Block(r)
  OBVIOUS
<1>7. none = 0
  BY <1>4, <1>5, <1>6
<1>8. CASE h = 0 /\ fgets = Text(line, 0, 0, 0, TRUE)
  BY <1>8 DEF Text
<1>9. CASE fgets = Text(LineAt(h), u - 1, b, r, FALSE)
  BY <1>4, <1>9 DEF Text
<1>10. CASE fgets = Text(LineAt(h), 0, 0, 0, TRUE)
  BY <1>10 DEF Text
<1>11. CASE fgets = Text(Glue(LineAt(h), LineAt(r)), Block(r) - 1, r - Block(r), r - Block(r),
                         r = 1)
  <2>1. fgets = Text(Glue(LineAt(h), LineAt(r)), Block(r) - 1, none, none, r = 1)
    BY <1>6, <1>11
  <2>2. fgets.behind = none
    BY <2>1 DEF Text
  <2> QED
    BY <1>7, <2>2
<1> QED
  BY <1>1, <1>8, <1>9, <1>10, <1>11 DEF Gets

(* The next line of the file, unless an exit has moved the offset.         *)
LEMMA NextLine ==
  ASSUME IInv, NEW L \in Nat, L = Len(script), L # 0, NEW n \in Nat,
         InOrder(L, n), procs[shell].pc = "read", ~ procs[shell].eof
  PROVE  /\ n < L + Beyond \/ ~ OnlyPrograms
         /\ (OneBlock \/ OnlyPrograms) /\ n + 1 < L + Beyond =>
              /\ fgets.text = script[n + 1]
              /\ fgets.unread + fgets.behind = L - (n + 1)
         /\ OneBlock => fgets.behind = 0
         /\ OnlyPrograms => fgets.rest = fgets.behind
         /\ OnlyPrograms /\ n + 1 = L + Beyond => fgets.eof
<1>1. PICK h, u, b : h = ahead /\ u = procs[shell].unread /\ b = procs[shell].behind
  OBVIOUS
<1>2. InputTypeOK /\ BufferOK /\ h \in Nat /\ u \in Nat /\ b \in Nat
  BY <1>1, ShellRecord, LenProperties DEF IInv, InputTypeOK, BufferOK, RecordOK, ProcessRecord
<1>3. /\ n = 0 => u = 0 /\ b = 0 /\ h = L
      /\ (OneBlock \/ OnlyPrograms) /\ n > 0 /\ n < L + Beyond => u + b = L - n
      /\ OneBlock /\ n > 0 => b = 0
      /\ OnlyPrograms => n <= L + Beyond /\ n # L + Beyond
      /\ OnlyPrograms /\ n > 0 => h = b
  BY <1>1 DEF InOrder, NewProcess, shell
<1>4. Beyond = IF terminated THEN 1 ELSE 0
  BY DEF Beyond
<1>5. n < L + Beyond \/ ~ OnlyPrograms
  BY <1>3, <1>4
<1>6. OneBlock => fgets.behind = 0
  BY <1>1, <1>2, <1>3, FitsBehind
<1>7. CASE n < L /\ (OneBlock \/ OnlyPrograms)
  <2>1. PICK rest \in Nat \ {0} : rest = L - n
    <3>1. L - n \in Nat \ {0}
      BY <1>7
    <3> QED
      BY <3>1
  <2>2. u + b = rest \/ (n = 0 /\ h = rest /\ u = 0)
    BY <1>3, <1>4, <1>7, <2>1
  <2>3. u > 0 \/ h = rest
    BY <1>2, <1>3, <1>7, <2>1, <2>2
  <2>4. Follows(rest)
    BY <1>1, <1>2, <1>3, <2>1, <2>2, <2>3 DEF Follows
  <2>5. /\ terminated \/ rest # 1 =>
              /\ fgets.text = LineAt(rest) /\ fgets.unread + fgets.behind = rest - 1
        /\ u = 0 \/ h = b =>
              /\ fgets.rest = fgets.behind
              /\ ~ terminated /\ rest = 1 => fgets.eof
    BY <1>1, <1>2, <2>4, ReadsLine
  <2>6. LineAt(rest) = script[n + 1]
    <3>1. L - rest + 1 = n + 1
      BY <2>1
    <3> QED
      BY <3>1 DEF LineAt
  <2>7. n + 1 < L + Beyond => terminated \/ rest # 1
    BY <1>4, <2>1
  <2>8. n + 1 = L + Beyond => ~ terminated /\ rest = 1
    BY <1>4, <1>7, <2>1
  <2>9. rest - 1 = L - (n + 1)
    BY <2>1
  <2>10. OnlyPrograms => u = 0 \/ h = b
    BY <1>3
  <2> QED
    BY <1>5, <1>6, <2>5, <2>6, <2>7, <2>8, <2>9, <2>10
<1>8. CASE n >= L
  <2>1. ~ (n + 1 < L + Beyond)
    BY <1>4, <1>8
  <2>2. ASSUME OnlyPrograms
        PROVE  fgets.rest = fgets.behind /\ fgets.eof
    <3>1. n < L + Beyond /\ n > 0
      BY <1>5, <1>8, <2>2
    <3>2. u = 0 /\ h = 0
      BY <1>2, <1>3, <1>4, <1>8, <2>2, <3>1
    <3> QED
      BY <1>1, <1>2, <3>2, ReadsNothing
  <2> QED
    BY <1>5, <1>6, <2>1, <2>2
<1>9. CASE ~ OneBlock /\ ~ OnlyPrograms
  BY <1>9
<1> QED
  BY <1>7, <1>8, <1>9

LEMMA FileRead ==
  ASSUME IInv, FileOK, NEW L \in Nat, L = Len(script), ReadFile
  PROVE  FileOK'
<1>1. /\ source = "file" /\ procs[shell].pc = "read" /\ ~ procs[shell].eof
      /\ Tokenize(fgets.text) /\ ahead' = fgets.rest
      /\ procs' = [procs EXCEPT ![shell].pc = "parse", ![shell].unread = fgets.unread,
                                ![shell].behind = fgets.behind, ![shell].eof = fgets.eof]
      /\ UNCHANGED <<source, script, terminated, commands, ran>>
  BY DEF ReadFile, scriptVars, runVars
<1>2. PICK n \in Nat : n = Len(lines)
  BY LenProperties DEF IInv, InputTypeOK
<1>3. InOrder(L, n) /\ L # 0
  BY <1>1, <1>2 DEF FileOK
<1>4. /\ n < L + Beyond \/ ~ OnlyPrograms
      /\ (OneBlock \/ OnlyPrograms) /\ n + 1 < L + Beyond =>
           /\ fgets.text = script[n + 1]
           /\ fgets.unread + fgets.behind = L - (n + 1)
      /\ OneBlock => fgets.behind = 0
      /\ OnlyPrograms => fgets.rest = fgets.behind
      /\ OnlyPrograms /\ n + 1 = L + Beyond => fgets.eof
  BY <1>1, <1>3, NextLine
<1>5. PICK text \in Seq(Tokens) : text = fgets.text
  <2>1. InputTypeOK /\ BufferOK
    BY ShellRecord, LenProperties DEF IInv, InputTypeOK, BufferOK, RecordOK, ProcessRecord
  <2> QED
    BY <2>1, FgetsType
<1>6. /\ lines' = Append(lines, text) /\ lines \in Seq(Seq(Tokens))
  BY <1>1, <1>5 DEF Tokenize, IInv, InputTypeOK
<1>7. /\ Len(lines') = n + 1 /\ DOMAIN lines' = 1 .. n + 1
      /\ \A t \in 1 .. n : lines'[t] = lines[t]
      /\ lines'[n + 1] = text /\ DOMAIN lines = 1 .. n
  <2>1. /\ lines' \in Seq(Seq(Tokens)) /\ Len(lines') = n + 1
        /\ \A t \in 1 .. n : lines'[t] = lines[t]
        /\ lines'[n + 1] = text
    BY <1>2, <1>6, AppendProperties
  <2> QED
    BY <1>2, <1>6, <2>1, LenProperties
<1>8. shell \in DOMAIN procs /\ procs[shell] \in ProcessRecord
  BY ShellRecord DEF IInv
<1>9. /\ procs'[shell].unread = fgets.unread /\ procs'[shell].behind = fgets.behind
      /\ procs'[shell].eof = fgets.eof /\ procs'[shell].pc = "parse"
  BY <1>1, <1>8 DEF ProcessRecord
<1>10. /\ Beyond' = Beyond /\ (OnlyPrograms' <=> OnlyPrograms) /\ Beyond \in {0, 1}
       /\ (OneBlock' <=> OneBlock)
  BY <1>1 DEF Beyond, OnlyPrograms, OneBlock
<1>11. ASSUME OneBlock \/ OnlyPrograms, NEW t \in 1 .. n + 1, t < L + Beyond
       PROVE  lines'[t] = script[t]
  <2>1. CASE t \in 1 .. n
    BY <1>3, <1>7, <1>11, <2>1 DEF InOrder
  <2>2. CASE t = n + 1
    BY <1>4, <1>5, <1>7, <1>11, <2>2
  <2> QED
    BY <2>1, <2>2
<1>12. /\ (OneBlock \/ OnlyPrograms) /\ n + 1 < L + Beyond =>
           procs'[shell].unread + procs'[shell].behind = L - (n + 1)
       /\ OneBlock => procs'[shell].behind = 0
  BY <1>4, <1>9
<1>13. OnlyPrograms => n + 1 <= L + Beyond
  BY <1>4, <1>10
<1>14. OnlyPrograms => ahead' = procs'[shell].behind /\ (n + 1 = L + Beyond => procs'[shell].eof)
  BY <1>1, <1>4, <1>9
<1>15. InOrder(L, n + 1)'
  BY <1>1, <1>7, <1>10, <1>11, <1>12, <1>13, <1>14 DEF InOrder
<1> QED
  BY <1>1, <1>3, <1>7, <1>15 DEF FileOK

LEMMA GrowsStep ==
  ASSUME IInv, [Next]_vars
  PROVE  HistoryGrows
<1>1. HistoryTypeOK /\ ParserOK
  BY DEF IInv
<1>2. CASE Parsed
  BY <1>1, <1>2, ParsedGrows
<1>3. CASE ReadTerminal \/ ReadFile \/ EndOfFile \/ Parse \/ UNCHANGED vars
  <2>1. UNCHANGED <<commands, ran>>
    BY <1>3 DEF ReadTerminal, ReadFile, EndOfFile, Parse, vars, runVars
  <2> QED
    BY <1>1, <2>1, SameHistory
<1>4. ASSUME NEW p \in DOMAIN procs, Return(p) \/ Quit(p) \/ ForkCommand(p) \/ Exec(p)
      PROVE  HistoryGrows
  <2>1. UNCHANGED commands /\ (ChangesDirectory(p) \/ Counts(p))
    BY <1>4 DEF Return, Quit, ForkCommand, Exec, Attempts, Counts, ByChild, Current, Command
  <2>2. CASE ChangesDirectory(p)
    BY <1>1, <2>1, <2>2, CountedGrows, SameHistory DEF ChangesDirectory
  <2>3. CASE Counts(p)
    BY <1>1, <2>1, <2>3, CountsGrows
  <2> QED
    BY <2>1, <2>2, <2>3
<1>5. ASSUME NEW p \in DOMAIN procs, Quiet(p) \/ ForkReader(p) \/ Wait(p)
      PROVE  HistoryGrows
  <2>1. UNCHANGED <<commands, ran>>
    BY <1>5 DEF Quiet, MakePipe, BecomeWriter, BecomeReader, Redirect, Write, Read, Finish,
       ForkReader, Wait, runVars
  <2> QED
    BY <1>1, <2>1, SameHistory
<1> QED
  BY <1>2, <1>3, <1>4, <1>5 DEF Next, Main, Execute, Child, Quiet

(* A cd or quit in a line, and what was carried out and is not a program,  *)
(* stay so.                                                                *)
LEMMA NotOnly ==
  ASSUME HistoryTypeOK, NEW t \in DOMAIN commands, NEW i \in DOMAIN commands[t],
         \/ ~ ByChild(t, i)
         \/ ran[t][i] > 0 /\ commands[t][i].name \notin Programs \ Internal
  PROVE  ~ OnlyPrograms
BY RanNat DEF OnlyPrograms, ByChild

LEMMA OnlyBefore ==
  ASSUME HistoryTypeOK, HistoryTypeOK', HistoryGrows, OnlyPrograms'
  PROVE  OnlyPrograms
<1>1. ASSUME NEW t \in DOMAIN ran, NEW i \in DOMAIN ran[t]
      PROVE  /\ commands[t][i].name \notin {"cd", "quit"}
             /\ ran[t][i] > 0 => commands[t][i].name \in Programs \ Internal
  <2>1. t \in DOMAIN commands /\ i \in DOMAIN commands[t]
    BY LenProperties DEF HistoryTypeOK
  <2>2. /\ t \in DOMAIN commands' /\ commands'[t] = commands[t]
        /\ ran[t][i] > 0 => ran'[t][i] > 0
    BY <2>1 DEF HistoryGrows
  <2>3. t \in DOMAIN ran' /\ i \in DOMAIN ran'[t]
    <3>1. /\ Len(ran') = Len(commands') /\ commands' \in Seq(Seq(CommandRecord))
          /\ ran' \in Seq(Seq(Nat)) /\ \A u \in DOMAIN ran' : DOMAIN ran'[u] = DOMAIN commands'[u]
      BY DEF HistoryTypeOK
    <3>2. t \in DOMAIN ran'
      BY <2>2, <3>1, LenProperties
    <3> QED
      BY <2>1, <2>2, <3>1, <3>2
  <2> QED
    BY <2>2, <2>3 DEF OnlyPrograms
<1> QED
  BY <1>1 DEF OnlyPrograms

(* A child that comes to an exit has no program, or is one of two: a       *)
(* reader that was misled by a cd, and an internal command.                *)
LEMMA QuietExit ==
  ASSUME IInv, CommandsOK, NEW p \in DOMAIN procs, Quiet(p)
  PROVE  UNCHANGED ahead \/ ~ OnlyPrograms
<1>1. HistoryTypeOK /\ CommandOK(procs[p])
  BY DEF IInv, CommandsOK
<1>2. PICK s : s = procs[p]
  OBVIOUS
<1>3. PICK t, i, c : t = s.turn /\ i = s.next /\ c = s.c
  OBVIOUS
<1>4. \/ UNCHANGED ahead
      \/ s.pc = "reader" /\ ~ Reads(t, i)
      \/ s.pc = "internal"
  BY <1>2, <1>3 DEF Quiet, MakePipe, BecomeWriter, BecomeReader, Redirect, Write, Read,
     Finish, At, inputVars, Reads, Command
<1>5. CASE s.pc = "reader" /\ ~ Reads(t, i)
  <2>1. t \in DOMAIN commands /\ i \in DOMAIN commands[t] /\ BehindCd(t, i)
        /\ ran[t][i - 1] > 0
    BY <1>1, <1>2, <1>3, <1>5 DEF CommandOK, ForkLabels
  <2>2. i - 1 \in DOMAIN commands[t] /\ ~ ByChild(t, i - 1)
    BY <1>1, <2>1, LineNat DEF BehindCd, ByChild
  <2> QED
    BY <1>1, <2>1, <2>2, NotOnly
<1>6. CASE s.pc = "internal"
  <2>1. /\ t \in DOMAIN commands /\ c \in DOMAIN commands[t]
        /\ ran[t][c] > 0 \/ ~ ByChild(t, c)
        /\ commands[t][c].name \in Internal
    BY <1>1, <1>2, <1>3, <1>6 DEF CommandOK, RunLabels
  <2> QED
    BY <1>1, <2>1, NotOnly
<1> QED
  BY <1>4, <1>5, <1>6

LEMMA ExecExit ==
  ASSUME IInv, CommandsOK, HistoryTypeOK', NEW p \in DOMAIN procs, Exec(p)
  PROVE  UNCHANGED ahead \/ ~ OnlyPrograms'
<1>1. PICK s : s = procs[p]
  OBVIOUS
<1>2. PICK t, c : t = s.turn /\ c = s.c
  OBVIOUS
<1>3. /\ s.pc = "exec" /\ UNCHANGED commands
      /\ IF ByChild(t, c) THEN CarriedOut(p, c) ELSE UNCHANGED ran
      /\ UNCHANGED ahead \/ commands[t][c].name \notin Programs
  BY <1>1, <1>2, ExecValues DEF Counts
<1>4. HistoryTypeOK /\ CommandOK(s)
  BY <1>1 DEF IInv, CommandsOK
<1>5. t \in DOMAIN commands /\ c \in DOMAIN commands[t]
  BY <1>2, <1>3, <1>4 DEF CommandOK, ChildLabels
<1>6. t \in DOMAIN commands' /\ c \in DOMAIN commands'[t] /\ commands'[t][c] = commands[t][c]
  BY <1>3, <1>5
<1>7. t \in DOMAIN ran' /\ c \in DOMAIN ran'[t]
  BY <1>6, LenProperties DEF HistoryTypeOK
<1>8. CASE ByChild(t, c)
  <2>1. ran[t][c] \in Nat
    BY <1>4, <1>5, RanNat
  <2>2. ran'[t][c] = IF t = t /\ c = c THEN ran[t][c] + 1 ELSE ran[t][c]
    BY <1>1, <1>2, <1>3, <1>4, <1>5, <1>8, Counted
  <2>3. ran'[t][c] > 0
    BY <2>1, <2>2
  <2> QED
    BY <1>3, <1>6, <1>7, <2>3 DEF OnlyPrograms
<1>9. CASE ~ ByChild(t, c)
  BY <1>6, <1>7, <1>9 DEF OnlyPrograms, ByChild
<1> QED
  BY <1>8, <1>9

-----------------------------------------------------------------------------
(* What the other steps leave of it.                                       *)
ShellKeeps ==
  \/ procs'[shell].pc = "ended"
  \/ /\ procs[shell].pc # "ended"
     /\ procs'[shell].unread = procs[shell].unread
     /\ procs'[shell].behind = procs[shell].behind /\ procs'[shell].eof = procs[shell].eof
     /\ UNCHANGED ahead \/ ~ OnlyPrograms'

LEMMA FileKept ==
  ASSUME FileOK, UNCHANGED <<source, script, terminated, lines>>, Len(lines) # 0,
         OnlyPrograms' => OnlyPrograms, ShellKeeps
  PROVE  FileOK'
<1>1. PICK L, n : L = Len(script) /\ n = Len(lines)
  OBVIOUS
<1>2. Beyond' = Beyond /\ (OneBlock' <=> OneBlock)
  BY DEF Beyond, OneBlock
<1>3. ASSUME InOrder(L, n) PROVE InOrder(L, n)'
  BY <1>1, <1>2, <1>3 DEF InOrder, ShellKeeps
<1> QED
  BY <1>1, <1>3 DEF FileOK

(* Nothing happens before the first line is read.                          *)
LEMMA FirstLine ==
  ASSUME source = "file", procs = <<NewProcess>>, [Next]_vars
  PROVE  ReadFile \/ UNCHANGED vars
<1>1. DOMAIN procs = {1} /\ procs[1].pc = "read" /\ ~ procs[1].eof
  BY DEF NewProcess
<1>2. ~ ReadTerminal /\ ~ EndOfFile /\ ~ Parse /\ ~ Parsed
  BY <1>1 DEF ReadTerminal, EndOfFile, Parse, Parsed, shell
<1>3. ASSUME NEW p \in DOMAIN procs
      PROVE  ~ Execute(p) /\ ~ Child(p) /\ ~ Write(p) /\ ~ Read(p) /\ ~ Finish(p)
  BY <1>1 DEF Execute, Child, Return, Quit, ForkCommand, Wait, MakePipe, ForkReader,
     BecomeWriter, BecomeReader, Redirect, Exec, Write, Read, Finish, At, Runs
<1> QED
  BY <1>2, <1>3 DEF Next, Main

LEMMA KeepsStep ==
  ASSUME IInv, HistoryTypeOK', CommandsOK, OnlyPrograms' => OnlyPrograms, source = "file",
         [Next]_vars, ~ ReadFile
  PROVE  \/ UNCHANGED vars
         \/ UNCHANGED <<source, script, terminated, lines>> /\ ShellKeeps
<1>1. ProcsOK /\ shell \in DOMAIN procs
  BY ShellRecord DEF IInv
<1>2. ASSUME procs'[shell] = procs[shell], UNCHANGED ahead \/ ~ OnlyPrograms'
      PROVE  ShellKeeps
  BY <1>2 DEF ShellKeeps
<1>3. CASE EndOfFile
  <2>1. procs'[shell].pc = "ended"
    BY <1>1, <1>3 DEF EndOfFile, End, Ended, NewProcess
  <2> QED
    BY <1>3, <2>1 DEF EndOfFile, scriptVars, inputVars, ShellKeeps
<1>4. CASE Parse
  BY <1>2, <1>4 DEF Parse, scriptVars, inputVars
<1>5. CASE Parsed
  <2>1. PICK r : /\ procs' = [procs EXCEPT ![shell] = r]
                 /\ r.unread = procs[shell].unread /\ r.behind = procs[shell].behind
                 /\ r.eof = procs[shell].eof
    BY <1>5, ParsedValues
  <2>2. ShellKeeps
    BY <1>1, <1>5, <2>1 DEF Parsed, inputVars, ShellKeeps
  <2> QED
    BY <1>5, <2>2 DEF Parsed, scriptVars, inputVars
<1>6. ASSUME NEW p \in DOMAIN procs, Wait(p)
      PROVE  UNCHANGED <<source, script, terminated, lines>> /\ ShellKeeps
  <2>1. p = shell /\ procs[shell].pc = "wait"
    BY <1>1, <1>6, InLoop DEF Wait, At
  <2>2. PICK r : procs' = [procs EXCEPT ![shell] = r] /\ Idles(procs[shell], r)
    BY <1>6, IdleStep
  <2>3. r.unread = procs[shell].unread /\ r.behind = procs[shell].behind /\ r.eof = procs[shell].eof
    BY <2>1, <2>2 DEF Idles
  <2>4. ShellKeeps
    BY <1>1, <1>6, <2>1, <2>2, <2>3 DEF Wait, inputVars, ShellKeeps
  <2> QED
    BY <1>6, <2>4 DEF Wait, scriptVars, inputVars
<1>7. ASSUME NEW p \in DOMAIN procs, Return(p) \/ Quit(p)
      PROVE  UNCHANGED <<source, script, terminated, lines>> /\ ShellKeeps
  <2>1. /\ p = shell /\ procs[shell].pc = "next"
        /\ \E r : /\ procs' = [procs EXCEPT ![shell] = r]
                  /\ \/ r.pc = "read" /\ Return(p) /\ r.unread = procs[shell].unread
                        /\ r.behind = procs[shell].behind
                        /\ r.eof = procs[shell].eof
                     \/ r.pc = "ended"
    BY <1>7, LeaveValues
  <2>2. PICK r : /\ procs' = [procs EXCEPT ![shell] = r]
                 /\ \/ r.pc = "read" /\ Return(p) /\ r.unread = procs[shell].unread
                       /\ r.behind = procs[shell].behind
                       /\ r.eof = procs[shell].eof
                    \/ r.pc = "ended"
    BY <2>1
  <2>3. ShellKeeps
    BY <1>1, <2>1, <2>2 DEF Return, inputVars, ShellKeeps
  <2> QED
    BY <1>7, <2>3 DEF Return, Quit, scriptVars, inputVars
<1>8. ASSUME NEW p \in DOMAIN procs, ForkCommand(p)
      PROVE  UNCHANGED <<source, script, terminated, lines>> /\ ShellKeeps
  <2>1. p = shell /\ procs[shell].pc = "next" /\ UNCHANGED ahead
        /\ \E m, n, a, b, there :
              /\ Forks(shell, n, a, b)
              /\ m.unread = procs[shell].unread /\ m.behind = procs[shell].behind
              /\ m.eof = procs[shell].eof
              /\ Copied(m, a, "wait", procs[shell].parent) /\ Copied(m, b, there, shell)
    BY <1>8, ForkCommandValues
  <2>2. PICK n, a, b : Forks(shell, n, a, b) /\ a.unread = procs[shell].unread
            /\ a.behind = procs[shell].behind
                       /\ a.eof = procs[shell].eof
    BY <2>1 DEF Copied
  <2>3. ShellKeeps
    BY <2>1, <2>2 DEF Forks, ShellKeeps
  <2> QED
    BY <1>8, <2>3 DEF ForkCommand, scriptVars, inputVars
<1>9. ASSUME NEW p \in DOMAIN procs, ForkReader(p)
      PROVE  UNCHANGED <<source, script, terminated, lines>> /\ ShellKeeps
  <2>1. p # shell /\ \E n, a, b : Forks(p, n, a, b)
    BY <1>9, ForkReaderValues
  <2>2. procs'[shell] = procs[shell]
    BY <1>1, <2>1 DEF Forks
  <2> QED
    BY <1>2, <1>9, <2>2 DEF ForkReader, scriptVars, inputVars
<1>10. ASSUME NEW p \in DOMAIN procs, Exec(p)
       PROVE  UNCHANGED <<source, script, terminated, lines>> /\ ShellKeeps
  <2>1. p # shell /\ \E r : procs' = [procs EXCEPT ![p] = r]
    BY <1>10, ExecValues DEF Exit, End
  <2>2. procs'[shell] = procs[shell]
    BY <1>1, <2>1, ChangeValues
  <2>3. UNCHANGED ahead \/ ~ OnlyPrograms'
    BY <1>10, ExecExit
  <2> QED
    BY <1>2, <1>10, <2>2, <2>3 DEF Exec, scriptVars
<1>11. ASSUME NEW p \in DOMAIN procs, Quiet(p)
       PROVE  UNCHANGED <<source, script, terminated, lines>> /\ ShellKeeps
  <2>1. /\ p # shell
        /\ UNCHANGED procs \/ \E r : procs' = [procs EXCEPT ![p] = r]
    BY <1>11, QuietStep
  <2>2. procs'[shell] = procs[shell]
    BY <1>1, <2>1, ChangeValues
  <2>3. UNCHANGED ahead \/ ~ OnlyPrograms'
    BY <1>11, QuietExit
  <2>4. UNCHANGED <<source, script, terminated, lines>>
    BY <1>11 DEF Quiet, MakePipe, BecomeWriter, BecomeReader, Redirect, Write, Read, Finish,
       scriptVars, inputVars
  <2> QED
    BY <1>2, <2>2, <2>3, <2>4
<1>12. ~ ReadTerminal
  BY DEF ReadTerminal
<1> QED
  BY <1>3, <1>4, <1>5, <1>6, <1>7, <1>8, <1>9, <1>10, <1>11, <1>12
     DEF Next, Main, Execute, Child, Quiet

LEMMA FileStep ==
  ASSUME IInv, CommandsOK, FileOK, [Next]_vars
  PROVE  FileOK'
<1>1. HistoryTypeOK /\ HistoryTypeOK' /\ HistoryGrows
  BY NextInv, GrowsStep DEF IInv
<1>2. OnlyPrograms' => OnlyPrograms
  BY <1>1, OnlyBefore
<1>3. UNCHANGED source
  <2>1. CASE Main
    BY <2>1 DEF Main, ReadTerminal, ReadFile, EndOfFile, Parse, Parsed, scriptVars
  <2>2. CASE \E p \in DOMAIN procs : Execute(p)
    BY <2>2 DEF Execute, Return, Quit, ForkCommand, Wait, scriptVars
  <2>3. CASE \E p \in DOMAIN procs : Child(p)
    BY <2>3 DEF Child, MakePipe, ForkReader, BecomeWriter, BecomeReader, Redirect, Exec,
       scriptVars
  <2>4. CASE \E p \in DOMAIN procs : Write(p) \/ Read(p) \/ Finish(p)
    BY <2>4 DEF Write, Read, Finish, scriptVars
  <2>5. CASE UNCHANGED vars
    BY <2>5 DEF vars, scriptVars
  <2> QED
    BY <2>1, <2>2, <2>3, <2>4, <2>5 DEF Next
<1>4. CASE UNCHANGED vars
  BY <1>4 DEF vars, scriptVars, inputVars, runVars, FileOK, InOrder, Beyond, OneBlock,
     OnlyPrograms
<1>5. CASE source = "file" /\ ReadFile
  <2>1. PICK L \in Nat : L = Len(script)
    BY LenProperties DEF IInv, InputTypeOK
  <2> QED
    BY <1>5, <2>1, FileRead
<1>6. CASE source = "file" /\ ~ ReadFile /\ ~ UNCHANGED vars
  <2>1. UNCHANGED <<source, script, terminated, lines>> /\ ShellKeeps
    BY <1>1, <1>2, <1>6, KeepsStep
  <2>2. Len(lines) # 0
    BY <1>6, FirstLine DEF FileOK, InOrder
  <2> QED
    BY <1>2, <2>1, <2>2, FileKept
<1>7. CASE source # "file"
  BY <1>3, <1>7 DEF FileOK
<1> QED
  BY <1>4, <1>5, <1>6, <1>7

LEMMA FileInit == Init => FileOK
<1> SUFFICES ASSUME Init, source = "file" PROVE Len(script) # 0 /\ InOrder(Len(script), Len(lines))
  BY DEF FileOK
<1>1. script \in Seq(Seq(Tokens)) /\ script # <<>>
  BY ScriptAssumption DEF Init
<1>2. Len(script) \in Nat /\ Len(script) # 0
  BY <1>1, LenProperties, LongSeq
<1>3. /\ lines = <<>> /\ ran = <<>> /\ procs = <<NewProcess>> /\ ahead = Len(script)
  BY DEF Init
<1>4. Len(lines) = 0 /\ DOMAIN lines = {} /\ DOMAIN ran = {}
  BY <1>3
<1>5. Beyond \in {0, 1}
  BY DEF Beyond
<1> QED
  BY <1>2, <1>3, <1>4, <1>5 DEF InOrder

LEMMA FileInvariance == Spec => []FileOK
<1>1. LoopInv => CommandsOK
  BY DEF LoopInv
<1> QED
  BY <1>1, FileInit, FileStep, Invariance, RunsInvariance, PTL DEF Spec

(* The lines of a batch file are run in their order if the file fits in one *)
(* block of the buffer, or as long as no process but the shell has come to *)
(* an exit; and then none is run again, but for what a newline at the end  *)
(* of the file makes of the last one.  For all files and all block sizes.  *)
THEOREM FileRunsInOrder == Spec => []FileInOrder
<1>1. FileOK => FileInOrder
  BY DEF FileOK, InOrder, FileInOrder, OneBlock
<1> QED
  BY <1>1, FileInvariance, PTL
=============================================================================
