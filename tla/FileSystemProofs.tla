--------------------------- MODULE FileSystemProofs ---------------------------
(***************************************************************************)
(* Proofs about Virtual Disk/, for every disk and every set of names: the  *)
(* invariant IInv of the file system, and what it implies of the table,    *)
(* the free counter, the directory tree and the open files.                *)
(*                                                                         *)
(* The table is described by three functions (Layout): own says to which   *)
(* file or directory a block belongs, pos where in its chain it lies and   *)
(* len how long each chain is.  Good adds the counter and the tree         *)
(* (Filed, Tree), OpenOK the files in memory.  A call is followed in the   *)
(* order of its block writes: Held(d, w) is the disk d once the writes of  *)
(* the work w are made.  vfs_sync_file, which nearly all calls end with,   *)
(* is taken apart into head, body and tail (SyncParts), each of its loops  *)
(* by induction on the block it has reached (Rewritten, Extending,         *)
(* Releasing), and put together in SyncGood; Reached is what a call then   *)
(* has to show.  Effect says what each step does to the files and to the   *)
(* descriptors, and is the way to FileStore.                               *)
(***************************************************************************)
EXTENDS FileSystemProperties, SequenceTheorems, FiniteSetTheorems, TLAPS

-----------------------------------------------------------------------------
(* Induction over sets of numbers.                                         *)

(* Every set of numbers has a least one: intervals 0 .. n are finite sets, *)
(* and proper inclusion of finite sets is well founded.                    *)
LEMMA LeastNumber ==
  ASSUME NEW T \in SUBSET Nat, T # {}
  PROVE  \E m \in T : \A n \in T : m <= n
<1> DEFINE Up(n) == 0 .. n
           Family == {Up(n) : n \in T}
           Less == StrictSubsetOrdering(Nat)
<1>1. Family # {} /\ Family \subseteq FiniteSubsetsOf(Nat)
  <2>1. \A n \in T : Up(n) \in FiniteSubsetsOf(Nat)
    BY FS_Interval DEF FiniteSubsetsOf
  <2> QED
    BY <2>1
<1>2. IsWellFoundedOn(Less, FiniteSubsetsOf(Nat))
  BY FS_StrictSubsetOrderingWellFounded
<1> HIDE DEF Less, Family
<1>3. PICK F \in Family : \A G \in Family : <<G, F>> \notin Less
  BY <1>1, <1>2, WFMin
<1>4. PICK m \in T : F = Up(m)
  BY <1>3 DEF Family
<1>5. ASSUME NEW n \in T, n < m
      PROVE  FALSE
  <2>1. Up(n) \subseteq Up(m) /\ Up(n) # Up(m) /\ Up(n) \subseteq Nat /\ Up(m) \subseteq Nat
    <3>1. m \in Up(m) /\ m \notin Up(n)
      BY <1>5
    <3> QED
      BY <1>5, <3>1
  <2>2. Up(n) \in Family
    BY DEF Family
  <2>3. <<Up(n), Up(m)>> \in Less
    BY <2>1 DEF Less, StrictSubsetOrdering
  <2> QED
    BY <1>3, <1>4, <2>2, <2>3
<1> QED
  BY <1>5

(* What holds of a number if it holds of those before it holds of all.     *)
LEMMA Induction ==
  ASSUME NEW T \in SUBSET Nat, \A n \in Nat : (\A m \in 0 .. n - 1 : m \in T) => n \in T
  PROVE  T = Nat
<1>1. ASSUME Nat \ T # {}
      PROVE  FALSE
  <2>1. PICK m \in Nat \ T : \A n \in Nat \ T : m <= n
    BY <1>1, LeastNumber
  <2> QED
    BY <2>1
<1> QED
  BY <1>1

(* The blocks of files and directories, and all blocks.                    *)
Blk == ROOT .. Blocks - 1
All == 0 .. Blocks - 1

LEMMA DivNat ==
  ASSUME NEW b \in Nat
  PROVE  b \div EntriesPerBlock \in Nat
  BY DiskAssumption

LEMMA DivBounds ==
  ASSUME NEW b \in Nat
  PROVE  /\ (b \div EntriesPerBlock) * EntriesPerBlock <= b
         /\ b < (b \div EntriesPerBlock + 1) * EntriesPerBlock
  BY DiskAssumption

LEMMA DivUnique ==
  ASSUME NEW b \in Nat, NEW i \in Nat, i * EntriesPerBlock <= b, b < (i + 1) * EntriesPerBlock
  PROVE  b \div EntriesPerBlock = i
  BY DiskAssumption

LEMMA DivBelow ==
  ASSUME NEW b \in Nat, NEW q \in Nat, b < q * EntriesPerBlock
  PROVE  b \div EntriesPerBlock < q
  BY DiskAssumption

LEMMA Positions ==
  ASSUME Persisted = Blocks
  PROVE  /\ Blocks \in Nat /\ ROOT \in Nat /\ 2 <= ROOT /\ ROOT <= Blocks - 1
         /\ (ROOT - 1) * EntriesPerBlock = Blocks
<1> DEFINE Q == Blocks \div EntriesPerBlock
<1>1. Q \in Nat /\ Q * EntriesPerBlock = Blocks
  BY DiskAssumption, DivNat DEF Persisted, ROOT
<1>2. ROOT = Q + 1 /\ ROOT \in 1 .. Blocks - 1
  BY RootInTable DEF ROOT
<1>3. Q # 0
  BY <1>1, <1>2, DiskAssumption
<1> HIDE DEF Q
<1>4. (ROOT - 1) * EntriesPerBlock = Blocks
  BY <1>1, <1>2, DiskAssumption
<1> QED
  BY <1>1, <1>2, <1>3, <1>4, DiskAssumption

(* Every entry of the table is in one block of the disk.                   *)
LEMMA TableBlockOf ==
  ASSUME Persisted = Blocks, NEW b \in All
  PROVE  /\ b \div EntriesPerBlock + 1 \in 1 .. ROOT - 1
         /\ b \in FatBlock(b \div EntriesPerBlock + 1)
<1>1. b \in Nat /\ Blocks \in Nat /\ ROOT \in Nat /\ b < Blocks
  BY Positions DEF All
<1>2. ROOT - 1 \in Nat /\ b < (ROOT - 1) * EntriesPerBlock
  BY <1>1, Positions
<1>3. PICK i \in Nat : i = b \div EntriesPerBlock
  BY <1>1, DivNat
<1>4. i < ROOT - 1
  BY <1>1, <1>2, <1>3, DivBelow
<1>5. i * EntriesPerBlock <= b /\ b < (i + 1) * EntriesPerBlock
  BY <1>1, <1>3, DivBounds
<1>6. i * EntriesPerBlock \in Nat /\ (i + 1) * EntriesPerBlock \in Nat
  BY DiskAssumption
<1>7. b \in FatBlock(i + 1)
  BY <1>1, <1>5, <1>6 DEF FatBlock
<1> QED
  BY <1>1, <1>3, <1>4, <1>7

LEMMA EntriesOfBlock ==
  ASSUME Persisted = Blocks, NEW i \in 1 .. ROOT - 1, NEW b \in FatBlock(i)
  PROVE  b \in All /\ b \div EntriesPerBlock + 1 = i
<1>1. i \in Nat /\ ROOT \in Nat /\ i - 1 \in Nat /\ Blocks \in Nat
  BY Positions
<1>2. (i - 1) * EntriesPerBlock \in Nat /\ i * EntriesPerBlock \in Nat
  BY <1>1, DiskAssumption
<1>3. b \in Nat /\ (i - 1) * EntriesPerBlock <= b /\ b < i * EntriesPerBlock
  BY <1>1, <1>2 DEF FatBlock
<1>4. i * EntriesPerBlock <= (ROOT - 1) * EntriesPerBlock
  BY <1>1, DiskAssumption
<1>5. b < Blocks
  BY <1>1, <1>2, <1>3, <1>4, Positions
<1>6. b \div EntriesPerBlock = i - 1
  <2>1. PICK j \in Nat : j = i - 1
    BY <1>1
  <2>2. j * EntriesPerBlock <= b /\ b < (j + 1) * EntriesPerBlock
    BY <1>1, <1>3, <2>1
  <2> QED
    BY <1>3, <2>1, <2>2, DivUnique
<1> QED
  BY <1>1, <1>3, <1>5, <1>6 DEF All

LEMMA VnodeDomain ==
  ASSUME NEW v \in Vnode
  PROVE  IsVnode(v)
  BY DEF Vnode, IsVnode

LEMMA DataDomain ==
  ASSUME NEW v \in Data
  PROVE  ~IsVnode(v)
  BY DEF Data, IsVnode

-----------------------------------------------------------------------------
(* The work of a call.                                                     *)

(* What a block, a block write and the work of a call can be.              *)
BlockContent == [free : NIL .. Blocks] \cup (UNION {[FatBlock(i) -> Entry] : i \in 1 .. ROOT - 1})
              \cup Vnode \cup Data
Writ == {r \in [at : All, data : BlockContent] : BlockOK(r.at, r.data)}
Works == [fat : [All -> Entry], free : Int, out : Seq(Writ), at : Int, bad : BOOLEAN]
IsDisk(d) == DOMAIN d = All /\ d = [b \in All |-> d[b]] /\ \A b \in All : BlockOK(b, d[b])
Held(d, w) == After(d, w.out)

LEMMA WritOK ==
  ASSUME Persisted = Blocks, NEW b \in All, NEW data, BlockOK(b, data)
  PROVE  [at |-> b, data |-> data] \in Writ
<1>1. b = 0 \/ b \in 1 .. ROOT - 1 \/ b \in ROOT .. Blocks - 1
  BY Positions DEF All
<1>2. data \in BlockContent
  <2>1. ASSUME b \in 1 .. ROOT - 1, data \in [FatBlock(b) -> Entry]
        PROVE  data \in UNION {[FatBlock(i) -> Entry] : i \in 1 .. ROOT - 1}
    BY <2>1
  <2>2. b = 0 => data \in [free : NIL .. Blocks]
    BY Positions DEF BlockOK, SUPERBLOCK
  <2>3. b \in ROOT .. Blocks - 1 => data \in Vnode \/ data \in Data
    BY Positions DEF BlockOK, SUPERBLOCK
  <2>4. b \in 1 .. ROOT - 1 => data \in [FatBlock(b) -> Entry]
    BY Positions DEF BlockOK, SUPERBLOCK
  <2>5. data \in [free : NIL .. Blocks] => data \in BlockContent
    BY Zenon DEF BlockContent
  <2>6. data \in Vnode => data \in BlockContent
    BY DEF BlockContent
  <2>8. data \in Data => data \in BlockContent
    BY DEF BlockContent
  <2>7. data \in UNION {[FatBlock(i) -> Entry] : i \in 1 .. ROOT - 1} => data \in BlockContent
    BY Zenon DEF BlockContent
  <2> QED
    BY <1>1, <2>1, <2>2, <2>3, <2>4, <2>5, <2>6, <2>7, <2>8
<1> QED
  BY <1>2 DEF Writ

LEMMA WritFields ==
  ASSUME Persisted = Blocks, NEW r \in Writ
  PROVE  r.at \in All /\ BlockOK(r.at, r.data)
  BY DEF Writ

LEMMA AfterDomain ==
  ASSUME NEW d, NEW out
  PROVE  DOMAIN After(d, out) = DOMAIN d
  BY DEF After

LEMMA AfterNone ==
  ASSUME NEW d, IsDisk(d)
  PROVE  After(d, <<>>) = d
<1>1. \A b : {i \in DOMAIN <<>> : <<>>[i].at = b} = {}
  OBVIOUS
<1>2. After(d, <<>>) = [b \in DOMAIN d |-> d[b]]
  BY <1>1 DEF After
<1> QED
  BY <1>2 DEF IsDisk

(* The i-th write of out is the last that is made to block b.              *)
LastAt(out, b, i) ==
  i \in DOMAIN out /\ out[i].at = b /\ \A j \in DOMAIN out : out[j].at = b => j <= i

(* No write of out is made to block b.                                     *)
Untouched(out, b) == \A j \in DOMAIN out : out[j].at # b

LEMMA LastWrite ==
  ASSUME NEW out \in Seq(Writ), NEW b, NEW k \in DOMAIN out, out[k].at = b
  PROVE  \E i \in DOMAIN out : LastAt(out, b, i)
<1> DEFINE T == {n \in Nat : \E i \in DOMAIN out : out[i].at = b /\ n = Len(out) - i}
<1>1. Len(out) \in Nat /\ DOMAIN out = 1 .. Len(out)
  BY LenProperties
<1>2. Len(out) - k \in T
  BY <1>1
<1>3. T \in SUBSET Nat /\ T # {}
  BY <1>2
<1>4. PICK m \in T : \A n \in T : m <= n
  <2> HIDE DEF T
  <2> QED
    BY <1>3, LeastNumber
<1>5. PICK i \in DOMAIN out : out[i].at = b /\ m = Len(out) - i
  BY <1>4
<1>6. ASSUME NEW j \in DOMAIN out, out[j].at = b
      PROVE  j <= i
  <2>1. Len(out) - j \in T
    BY <1>1, <1>6
  <2>2. m <= Len(out) - j
    BY <1>4, <2>1
  <2> QED
    BY <1>1, <1>5, <2>2
<1> QED
  BY <1>5, <1>6 DEF LastAt

LEMMA AfterLast ==
  ASSUME NEW d, NEW out \in Seq(Writ), NEW b \in DOMAIN d, NEW i, LastAt(out, b, i)
  PROVE  After(d, out)[b] = out[i].data
<1> DEFINE made == {j \in DOMAIN out : out[j].at = b}
<1>1. DOMAIN out \subseteq Nat
  BY LenProperties
<1>2. i \in made /\ \A j \in made : i >= j /\ j \in Nat
  BY <1>1 DEF LastAt
<1>3. \A x \in made : (\A y \in made : x >= y) => x = i
  <2>1. ASSUME NEW x \in made, \A y \in made : x >= y
        PROVE  x = i
    <3>1. x >= i /\ i >= x /\ x \in Nat /\ i \in Nat
      BY <1>2, <2>1
    <3> QED
      BY <3>1
  <2> QED
    BY <2>1
<1>4. Max(made) = i
  <2> HIDE DEF made
  <2> QED
    BY <1>2, <1>3 DEF Max
<1>5. made # {}
  BY <1>2
<1> QED
  BY <1>4, <1>5 DEF After

LEMMA AfterUntouched ==
  ASSUME NEW d, NEW out, NEW b \in DOMAIN d, Untouched(out, b)
  PROVE  After(d, out)[b] = d[b]
  BY DEF After, Untouched

Extended(out, r, new) == new = Append(out, r)

OneMore(out, r, new) ==
  \E n \in Nat :
    /\ new \in Seq(Writ) /\ DOMAIN new = 1 .. n + 1 /\ DOMAIN out = 1 .. n
    /\ \A i \in 1 .. n : new[i] = out[i]
    /\ new[n + 1] = r

(* One more block write.                                                   *)
LEMMA AppendFields ==
  ASSUME NEW out \in Seq(Writ), NEW r \in Writ, NEW new, Extended(out, r, new)
  PROVE  OneMore(out, r, new)
<1>1. PICK n \in Nat : n = Len(out)
  BY LenProperties
<1>2. new = Append(out, r)
  BY DEF Extended
<1>3. /\ new \in Seq(Writ) /\ DOMAIN new = 1 .. n + 1 /\ DOMAIN out = 1 .. n
      /\ \A i \in 1 .. n : new[i] = out[i]
      /\ new[n + 1] = r
  BY <1>1, <1>2, LenProperties
<1> QED
  BY <1>3 DEF OneMore

LEMMA AfterNew ==
  ASSUME NEW d, NEW out \in Seq(Writ), NEW r \in Writ, NEW b \in DOMAIN d,
         NEW new, Extended(out, r, new), b = r.at
  PROVE  After(d, new)[b] = r.data
<1>1. PICK n \in Nat :
        /\ new \in Seq(Writ) /\ DOMAIN new = 1 .. n + 1 /\ DOMAIN out = 1 .. n
        /\ \A i \in 1 .. n : new[i] = out[i]
        /\ new[n + 1] = r
  <2>1. OneMore(out, r, new)
    BY AppendFields
  <2> QED
    BY <2>1 DEF OneMore
<1>2. n + 1 \in DOMAIN new /\ new[n + 1].at = b /\ \A j \in DOMAIN new : j <= n + 1
  BY <1>1
<1>3. LastAt(new, b, n + 1) /\ new \in Seq(Writ)
  BY <1>1, <1>2 DEF LastAt
<1>4. After(d, new)[b] = new[n + 1].data
  BY <1>3, AfterLast
<1> QED
  BY <1>1, <1>4

LEMMA AfterOld ==
  ASSUME NEW d, NEW out \in Seq(Writ), NEW r \in Writ, NEW b \in DOMAIN d,
         NEW new, Extended(out, r, new), b # r.at
  PROVE  After(d, new)[b] = After(d, out)[b]
<1>1. PICK n \in Nat :
        /\ new \in Seq(Writ) /\ DOMAIN new = 1 .. n + 1 /\ DOMAIN out = 1 .. n
        /\ \A i \in 1 .. n : new[i] = out[i]
        /\ new[n + 1] = r
  <2>1. OneMore(out, r, new)
    BY AppendFields
  <2> QED
    BY <2>1 DEF OneMore
<1>5. CASE \E k \in DOMAIN out : out[k].at = b
  <2>1. PICK i \in DOMAIN out : LastAt(out, b, i)
    BY <1>5, LastWrite
  <2>2. After(d, out)[b] = out[i].data
    BY <2>1, AfterLast
  <2>3. i \in DOMAIN new /\ new[i] = out[i]
    BY <1>1, <2>1
  <2>4. LastAt(new, b, i) /\ new \in Seq(Writ)
    BY <1>1, <1>5, <2>1 DEF LastAt
  <2>5. After(d, new)[b] = new[i].data
    BY <2>4, AfterLast
  <2> QED
    BY <2>2, <2>3, <2>5
<1>6. CASE ~\E k \in DOMAIN out : out[k].at = b
  <2>1. Untouched(new, b) /\ Untouched(out, b)
    BY <1>1, <1>6 DEF Untouched
  <2>2. After(d, new)[b] = d[b] /\ After(d, out)[b] = d[b]
    BY <2>1, AfterUntouched
  <2> QED
    BY <2>2
<1> QED
  BY <1>5, <1>6

LEMMA AfterOK ==
  ASSUME Persisted = Blocks, NEW d, IsDisk(d), NEW out \in Seq(Writ)
  PROVE  IsDisk(After(d, out))
<1>1. PICK e : e = After(d, out)
  OBVIOUS
<1>2. DOMAIN e = All /\ e = [b \in All |-> e[b]]
  <2>1. DOMAIN d = All
    BY DEF IsDisk
  <2> QED
    BY <1>1, <2>1 DEF After
<1>3. ASSUME NEW b \in All
      PROVE  BlockOK(b, e[b])
  <2>1. b \in DOMAIN d
    BY <1>3 DEF IsDisk
  <2>2. CASE ~\E k \in DOMAIN out : out[k].at = b
    <3>1. Untouched(out, b)
      BY <2>2 DEF Untouched
    <3>2. e[b] = d[b]
      BY <1>1, <2>1, <3>1, AfterUntouched
    <3> QED
      BY <1>3, <3>2 DEF IsDisk
  <2>3. CASE \E k \in DOMAIN out : out[k].at = b
    <3>1. PICK i \in DOMAIN out : LastAt(out, b, i)
      BY <2>3, LastWrite
    <3>2. e[b] = out[i].data
      BY <1>1, <2>1, <3>1, AfterLast
    <3>3. PICK r \in Writ : r = out[i]
      BY <3>1, LenProperties
    <3>4. BlockOK(r.at, r.data)
      BY <3>3, WritFields
    <3> QED
      BY <3>1, <3>2, <3>3, <3>4 DEF LastAt
  <2> QED
    BY <2>2, <2>3
<1> QED
  BY <1>1, <1>2, <1>3 DEF IsDisk

Joins(out, some, rest, m, n) ==
  /\ DOMAIN out = 1 .. m /\ DOMAIN some = 1 .. n /\ DOMAIN rest = 1 .. m - n
  /\ \A i \in 1 .. n : some[i] = out[i]
  /\ \A i \in 1 .. m - n : rest[i] = out[n + i]

(* Making some of the writes, and the others later.                        *)
LEMMA AfterJoin ==
  ASSUME NEW d, IsDisk(d), NEW m \in Nat, NEW n \in 0 .. m,
         NEW out \in Seq(Writ), NEW some \in Seq(Writ), NEW rest \in Seq(Writ),
         Joins(out, some, rest, m, n)
  PROVE  After(After(d, some), rest) = After(d, out)
<1>1. n \in Nat /\ n <= m
  BY DEF Joins
<1>2. DOMAIN out = 1 .. m
  BY DEF Joins
<1>3. DOMAIN some = 1 .. n /\ \A i \in 1 .. n : some[i] = out[i]
  BY DEF Joins
<1>4. DOMAIN rest = 1 .. m - n /\ \A i \in 1 .. m - n : rest[i] = out[n + i]
  BY DEF Joins
<1>5. PICK e : e = After(d, some)
  OBVIOUS
<1>6. DOMAIN d = All /\ DOMAIN e = All
  BY <1>5, AfterDomain DEF IsDisk
<1>7. ASSUME NEW b \in All
      PROVE  After(e, rest)[b] = After(d, out)[b]
  <2>1. b \in DOMAIN d /\ b \in DOMAIN e
    BY <1>6
  <2>2. CASE \E k \in DOMAIN rest : rest[k].at = b
    <3>1. PICK i \in DOMAIN rest : LastAt(rest, b, i)
      BY <2>2, LastWrite
    <3>2. i \in 1 .. m - n /\ n + i \in 1 .. m /\ rest[i] = out[n + i]
      BY <1>1, <1>4, <3>1
    <3>3. ASSUME NEW j \in DOMAIN out, out[j].at = b, j > n + i
          PROVE  FALSE
      <4>1. j - n \in 1 .. m - n /\ n + (j - n) = j
        BY <1>1, <1>2, <3>2, <3>3
      <4>2. rest[j - n].at = b
        BY <1>4, <3>3, <4>1
      <4>3. j - n <= i
        BY <1>4, <3>1, <4>1, <4>2 DEF LastAt
      <4> QED
        BY <1>1, <1>2, <3>2, <3>3, <4>3
    <3>4. \A j \in DOMAIN out : out[j].at = b => j <= n + i
      BY <1>1, <1>2, <3>2, <3>3
    <3>5. PICK k : k = n + i
      OBVIOUS
    <3>6. LastAt(out, b, k)
      BY <1>2, <3>1, <3>2, <3>4, <3>5 DEF LastAt
    <3>7. After(d, out)[b] = out[k].data
      BY <2>1, <3>6, AfterLast
    <3>8. After(e, rest)[b] = rest[i].data
      BY <2>1, <3>1, AfterLast
    <3> QED
      BY <3>2, <3>5, <3>7, <3>8
  <2>3. CASE ~\E k \in DOMAIN rest : rest[k].at = b
    <3>1. Untouched(rest, b)
      BY <2>3 DEF Untouched
    <3>2. After(e, rest)[b] = e[b]
      BY <2>1, <3>1, AfterUntouched
    <3>3. ASSUME NEW j \in DOMAIN out, out[j].at = b
          PROVE  j \in DOMAIN some
      <4>1. CASE j > n
        <5>1. j - n \in 1 .. m - n /\ n + (j - n) = j
          BY <1>1, <1>2, <3>3, <4>1
        <5> QED
          BY <1>4, <2>3, <3>3, <5>1
      <4> QED
        BY <1>1, <1>2, <1>3, <3>3, <4>1
    <3>4. CASE \E k \in DOMAIN some : some[k].at = b
      <4>1. PICK i \in DOMAIN some : LastAt(some, b, i)
        BY <3>4, LastWrite
      <4>2. i \in DOMAIN out /\ out[i] = some[i]
        BY <1>1, <1>2, <1>3, <4>1
      <4>3. \A j \in DOMAIN out : out[j].at = b => some[j].at = b
        BY <1>3, <3>3
      <4>4. LastAt(out, b, i)
        BY <3>3, <4>1, <4>2, <4>3 DEF LastAt
      <4>5. After(d, out)[b] = out[i].data
        BY <2>1, <4>4, AfterLast
      <4>6. After(d, some)[b] = some[i].data
        BY <2>1, <4>1, AfterLast
      <4> QED
        BY <1>5, <3>2, <4>2, <4>5, <4>6
    <3>5. CASE ~\E k \in DOMAIN some : some[k].at = b
      <4>1. Untouched(out, b)
        BY <1>3, <3>3, <3>5 DEF Untouched
      <4>2. Untouched(some, b)
        BY <3>5 DEF Untouched
      <4>3. After(d, out)[b] = d[b] /\ After(d, some)[b] = d[b]
        BY <2>1, <4>1, <4>2, AfterUntouched
      <4> QED
        BY <1>5, <3>2, <4>3
    <3> QED
      BY <3>4, <3>5
  <2> QED
    BY <2>2, <2>3
<1>8. /\ After(e, rest) = [b \in All |-> After(e, rest)[b]]
      /\ After(d, out) = [b \in All |-> After(d, out)[b]]
  BY <1>6 DEF After
<1> QED
  BY <1>5, <1>7, <1>8

SplitAt(out, n, some, rest) ==
  some = SubSeq(out, 1, n) /\ rest = SubSeq(out, n + 1, Len(out))

LEMMA SplitJoins ==
  ASSUME NEW out \in Seq(Writ), NEW n \in 0 .. Len(out),
         NEW some, some = SubSeq(out, 1, n), NEW rest, rest = SubSeq(out, n + 1, Len(out))
  PROVE  /\ some \in Seq(Writ) /\ rest \in Seq(Writ)
         /\ Joins(out, some, rest, Len(out), n)
<1>1. PICK m \in Nat : m = Len(out)
  BY LenProperties
<1>2. n \in Nat /\ n <= m /\ DOMAIN out = 1 .. m /\ \A i \in 1 .. m : out[i] \in Writ
  BY <1>1, LenProperties
<1>3. /\ some \in Seq(Writ) /\ DOMAIN some = 1 .. n
      /\ \A i \in 1 .. n : some[i] = out[i]
  <2>1. \A i \in 1 .. n : out[i] \in Writ
    BY <1>1, <1>2
  <2>2. Len(some) = n /\ some \in Seq(Writ)
    BY <1>1, <1>2, <2>1, SubSeqProperties
  <2>3. \A i \in 1 .. n - 1 + 1 : some[i] = out[1 + i - 1]
    BY <1>1, <1>2, <2>1, SubSeqProperties
  <2> QED
    BY <1>1, <1>2, <2>2, <2>3, LenProperties
<1>4. /\ rest \in Seq(Writ) /\ DOMAIN rest = 1 .. m - n
      /\ \A i \in 1 .. m - n : rest[i] = out[n + i]
  <2>1. \A i \in n + 1 .. m : out[i] \in Writ
    BY <1>1, <1>2
  <2>2. rest = SubSeq(out, n + 1, m)
    BY <1>1
  <2>3. rest \in Seq(Writ) /\ Len(rest) = IF n + 1 <= m THEN m - (n + 1) + 1 ELSE 0
    BY <1>1, <1>2, <2>1, <2>2, SubSeqProperties
  <2>4. \A i \in 1 .. m - (n + 1) + 1 : rest[i] = out[n + 1 + i - 1]
    BY <1>1, <1>2, <2>1, <2>2, SubSeqProperties
  <2>5. Len(rest) = m - n
    BY <1>1, <1>2, <2>3
  <2> QED
    BY <1>1, <1>2, <2>3, <2>4, <2>5, LenProperties
<1> QED
  BY <1>1, <1>2, <1>3, <1>4 DEF Joins

LEMMA AfterSplit ==
  ASSUME NEW d, IsDisk(d), NEW out \in Seq(Writ), NEW n \in 0 .. Len(out),
         NEW some, NEW rest, SplitAt(out, n, some, rest)
  PROVE  /\ some \in Seq(Writ) /\ rest \in Seq(Writ)
         /\ After(After(d, some), rest) = After(d, out)
<1>1. /\ some \in Seq(Writ) /\ rest \in Seq(Writ)
      /\ Joins(out, some, rest, Len(out), n)
  BY SplitJoins DEF SplitAt
<1>2. Len(out) \in Nat
  BY LenProperties
<1> QED
  BY <1>1, <1>2, AfterJoin

-----------------------------------------------------------------------------
(* Block writes: one block, the counter, the whole table.                  *)

(* Induction over the rounds of a loop.                                    *)
LEMMA NatSteps ==
  ASSUME NEW T \in SUBSET Nat, 0 \in T, \A n \in T : n + 1 \in T
  PROVE  T = Nat
<1>1. ASSUME NEW n \in Nat, \A m \in 0 .. n - 1 : m \in T
      PROVE  n \in T
  <2>1. CASE n = 0
    BY <2>1
  <2>2. CASE n # 0
    <3>1. n - 1 \in T
      BY <1>1, <2>2
    <3>2. (n - 1) + 1 \in T
      BY <3>1
    <3> QED
      BY <1>1, <3>2
  <2> QED
    BY <2>1, <2>2
<1> QED
  BY <1>1, Induction

LEMMA WorkFields ==
  ASSUME NEW w \in Works
  PROVE  /\ w.fat \in [All -> Entry] /\ w.free \in Int /\ w.out \in Seq(Writ)
         /\ w.at \in Int /\ w.bad \in BOOLEAN
         /\ w = [fat |-> w.fat, free |-> w.free, out |-> w.out, at |-> w.at, bad |-> w.bad]
  BY DEF Works

(* r is w with one more block write, and with nothing else changed.        *)
Wrote(w, r, b, data) ==
  /\ r \in Works
  /\ r.fat = w.fat /\ r.free = w.free /\ r.at = w.at /\ r.bad = w.bad
  /\ r.out = Append(w.out, [at |-> b, data |-> data])

(* The same for a block that was free: the counter is saved too.           *)
WroteNew(w, r, b, data) ==
  /\ r \in Works
  /\ r.fat = w.fat /\ r.free = w.free - 1 /\ r.at = w.at /\ r.bad = w.bad
  /\ r.out = Append(Append(w.out, [at |-> b, data |-> data]),
                    [at |-> 0, data |-> [free |-> w.free - 1]])

LEMMA Overwrite ==
  ASSUME Persisted = Blocks, NEW w \in Works, NEW b \in All, NEW data, BlockOK(b, data)
  PROVE  Wrote(w, write_block(w, b, data, "OVERWRITE"), b, data)
<1>1. [at |-> b, data |-> data] \in Writ
  BY WritOK
<1>2. write_block(w, b, data, "OVERWRITE") = [w EXCEPT !.out = Append(@, [at |-> b, data |-> data])]
  BY DEF write_block
<1>3. Append(w.out, [at |-> b, data |-> data]) \in Seq(Writ)
  BY <1>1, WorkFields
<1> QED
  BY <1>2, <1>3 DEF Wrote, Works

LEMMA SuperOK ==
  ASSUME Persisted = Blocks, NEW n \in -1 .. Blocks
  PROVE  BlockOK(0, [free |-> n])
  BY Positions DEF BlockOK, SUPERBLOCK, NIL

LEMMA SaveDisk ==
  ASSUME Persisted = Blocks, NEW w \in Works, w.free \in -1 .. Blocks
  PROVE  Wrote(w, save_disk(w), 0, [free |-> w.free])
<1>1. [at |-> 0, data |-> [free |-> w.free]] \in Writ
  BY WritOK, SuperOK, Positions DEF All
<1>2. save_disk(w) = [w EXCEPT !.out = Append(@, [at |-> 0, data |-> [free |-> w.free]])]
  BY DEF save_disk, SUPERBLOCK
<1>3. Append(w.out, [at |-> 0, data |-> [free |-> w.free]]) \in Seq(Writ)
  BY <1>1, WorkFields
<1> QED
  BY <1>2, <1>3 DEF Wrote, Works

LEMMA WriteNew ==
  ASSUME Persisted = Blocks, NEW w \in Works, NEW b \in All, NEW data, BlockOK(b, data),
         w.free - 1 \in -1 .. Blocks
  PROVE  WroteNew(w, write_block(w, b, data, "WRITE"), b, data)
<1> DEFINE u == [w EXCEPT !.out = Append(@, [at |-> b, data |-> data])]
           v == [u EXCEPT !.free = @ - 1]
<1>1. [at |-> b, data |-> data] \in Writ
  BY WritOK
<1>2. write_block(w, b, data, "WRITE") = save_disk(v)
  BY DEF write_block
<1>3. Append(w.out, [at |-> b, data |-> data]) \in Seq(Writ)
  BY <1>1, WorkFields
<1>4. /\ v \in Works /\ v.fat = w.fat /\ v.free = w.free - 1 /\ v.at = w.at /\ v.bad = w.bad
      /\ v.out = Append(w.out, [at |-> b, data |-> data])
  <2>1. /\ u \in Works /\ u.fat = w.fat /\ u.free = w.free /\ u.at = w.at /\ u.bad = w.bad
        /\ u.out = Append(w.out, [at |-> b, data |-> data])
    BY <1>3, WorkFields DEF Works
  <2>2. u.free \in Int /\ DOMAIN u = {"fat", "free", "out", "at", "bad"}
    BY <2>1 DEF Works
  <2> HIDE DEF u
  <2>3. /\ v.fat = u.fat /\ v.free = u.free - 1 /\ v.at = u.at /\ v.bad = u.bad /\ v.out = u.out
    BY <2>2
  <2>4. v \in Works
    BY <2>1, <2>2 DEF Works
  <2> HIDE DEF v
  <2> QED
    BY <2>1, <2>3, <2>4
<1> HIDE DEF v
<1>5. Wrote(v, save_disk(v), 0, [free |-> v.free])
  BY <1>4, SaveDisk
<1> QED
  BY <1>2, <1>4, <1>5 DEF Wrote, WroteNew

LEMMA HeldOne ==
  ASSUME Persisted = Blocks, NEW d, IsDisk(d), NEW w \in Works, NEW r, NEW b \in All, NEW data,
         BlockOK(b, data), Wrote(w, r, b, data), NEW c \in All
  PROVE  Held(d, r)[c] = IF c = b THEN data ELSE Held(d, w)[c]
<1>1. PICK x \in Writ : x = [at |-> b, data |-> data]
  BY WritOK
<1>2. Extended(w.out, x, r.out) /\ w.out \in Seq(Writ) /\ c \in DOMAIN d
  BY <1>1, WorkFields DEF Wrote, IsDisk, Extended
<1>3. c = x.at => After(d, r.out)[c] = x.data
  BY <1>2, AfterNew
<1>4. c # x.at => After(d, r.out)[c] = After(d, w.out)[c]
  BY <1>2, AfterOld
<1> QED
  BY <1>1, <1>3, <1>4 DEF Held

LEMMA HeldNew ==
  ASSUME Persisted = Blocks, NEW d, IsDisk(d), NEW w \in Works, NEW r, NEW b \in All, NEW data,
         BlockOK(b, data), w.free - 1 \in -1 .. Blocks, WroteNew(w, r, b, data), NEW c \in All
  PROVE  Held(d, r)[c] = IF c = 0 THEN [free |-> w.free - 1]
                         ELSE IF c = b THEN data ELSE Held(d, w)[c]
<1>1. PICK x \in Writ : x = [at |-> b, data |-> data]
  BY WritOK
<1>2. PICK y \in Writ : y = [at |-> 0, data |-> [free |-> w.free - 1]]
  <2>1. 0 \in All
    BY Positions DEF All
  <2>2. BlockOK(0, [free |-> w.free - 1])
    BY SuperOK
  <2> QED
    BY <2>1, <2>2, WritOK
<1>3. PICK some : Extended(w.out, x, some)
  BY DEF Extended
<1>4. Extended(some, y, r.out) /\ w.out \in Seq(Writ) /\ c \in DOMAIN d
  BY <1>1, <1>2, <1>3, WorkFields DEF WroteNew, IsDisk, Extended
<1>7. some \in Seq(Writ)
  BY <1>3, <1>4 DEF Extended
<1>5. c = y.at => After(d, r.out)[c] = y.data
  BY <1>4, <1>7, AfterNew
<1>6. c # y.at => After(d, r.out)[c] = After(d, some)[c]
  BY <1>4, <1>7, AfterOld
<1>8. c = x.at => After(d, some)[c] = x.data
  BY <1>3, <1>4, AfterNew
<1>9. c # x.at => After(d, some)[c] = After(d, w.out)[c]
  BY <1>3, <1>4, AfterOld
<1> QED
  BY <1>1, <1>2, <1>5, <1>6, <1>8, <1>9 DEF Held

(* rm_blocks(w, n) keeps the table and saves the counter.                  *)
LEMMA RmBlocks ==
  ASSUME Persisted = Blocks, NEW w \in Works, NEW n \in Nat, w.free + n \in -1 .. Blocks,
         NEW r, r = rm_blocks(w, n)
  PROVE  /\ r \in Works /\ r.fat = w.fat /\ r.free = w.free + n /\ r.at = w.at /\ r.bad = w.bad
         /\ r.out # <<>>
         /\ \A d : IsDisk(d) => \A c \in All :
              Held(d, r)[c] = IF c = 0 THEN [free |-> w.free + n] ELSE Held(d, w)[c]
<1> DEFINE u == [w EXCEPT !.free = @ + n]
<1>1. /\ u \in Works /\ u.fat = w.fat /\ u.free = w.free + n /\ u.at = w.at /\ u.bad = w.bad
      /\ u.out = w.out
  BY WorkFields DEF Works
<1>2. r = save_disk(u)
  BY DEF rm_blocks
<1> HIDE DEF u
<1>3. Wrote(u, r, 0, [free |-> u.free])
  BY <1>1, <1>2, SaveDisk
<1>4. ASSUME NEW d, IsDisk(d), NEW c \in All
      PROVE  Held(d, r)[c] = IF c = 0 THEN [free |-> w.free + n] ELSE Held(d, w)[c]
  <2>1. 0 \in All /\ BlockOK(0, [free |-> u.free])
    BY <1>1, Positions, SuperOK DEF All
  <2>2. Held(d, r)[c] = IF c = 0 THEN [free |-> u.free] ELSE Held(d, u)[c]
    BY <1>1, <1>3, <1>4, <2>1, HeldOne
  <2> QED
    BY <1>1, <2>2 DEF Held
<1>5. r.out # <<>>
  <2>1. w.out \in Seq(Writ)
    BY WorkFields
  <2> QED
    BY <1>1, <1>3, <2>1 DEF Wrote
<1>6. r \in Works /\ r.fat = w.fat /\ r.free = w.free + n /\ r.at = w.at /\ r.bad = w.bad
  BY <1>1, <1>3 DEF Wrote
<1> QED
  BY <1>4, <1>5, <1>6

(* The table, block by block.                                              *)
TablePart(fat, i) == [b \in FatBlock(i) |-> fat[b]]

LEMMA TablePartOK ==
  ASSUME Persisted = Blocks, NEW fat \in [All -> Entry], NEW i \in 1 .. ROOT - 1
  PROVE  BlockOK(i, TablePart(fat, i)) /\ i \in All
<1>1. \A b \in FatBlock(i) : b \in All
  BY EntriesOfBlock
<1>2. TablePart(fat, i) \in [FatBlock(i) -> Entry]
  BY <1>1 DEF TablePart
<1> QED
  BY <1>2, Positions DEF BlockOK, All

(* FAT_write, one block of the table at a time.                            *)
FatStep(x, i, fat, flag) == write_block(x, i, TablePart(fat, i), flag)

IsFatRun(f, w, flag, n) ==
  f = [i \in 0 .. n |-> IF i = 0 THEN w ELSE FatStep(f[i - 1], i, w.fat, flag)]

LEMMA FatWriteRun ==
  ASSUME NEW w, NEW flag, NEW n \in Nat
  PROVE  \E f : IsFatRun(f, w, flag, n)
<1> DEFINE Body(f, m) == [i \in 0 .. m |-> IF i = 0 THEN w ELSE FatStep(f[i - 1], i, w.fat, flag)]
           T == {m \in Nat : \E f : f = Body(f, m)}
<1>1. 0 \in T
  <2>1. PICK f : f = [i \in 0 .. 0 |-> w]
    OBVIOUS
  <2>2. f = Body(f, 0)
    BY <2>1
  <2> QED
    BY <2>2
<1>2. ASSUME NEW m \in T
      PROVE  m + 1 \in T
  <2>1. PICK f : f = Body(f, m)
    BY <1>2
  <2>2. PICK g : g = [i \in 0 .. m + 1 |-> IF i = m + 1 THEN FatStep(f[m], m + 1, w.fat, flag) ELSE f[i]]
    OBVIOUS
  <2>3. \A i \in 0 .. m : f[i] = IF i = 0 THEN w ELSE FatStep(f[i - 1], i, w.fat, flag)
    BY <2>1
  <2>4. \A i \in 0 .. m : g[i] = f[i]
    BY <1>2, <2>2
  <2>5. \A i \in 0 .. m + 1 : g[i] = IF i = 0 THEN w ELSE FatStep(g[i - 1], i, w.fat, flag)
    <3>1. TAKE i \in 0 .. m + 1
    <3>2. CASE i = m + 1
      BY <1>2, <2>2, <2>4, <3>2
    <3>3. CASE i # m + 1
      <4>1. i \in 0 .. m /\ (i # 0 => i - 1 \in 0 .. m)
        BY <1>2, <3>3
      <4> QED
        BY <2>3, <2>4, <4>1
    <3> QED
      BY <3>2, <3>3
  <2>6. g = Body(g, m + 1)
    BY <2>2, <2>5
  <2> QED
    BY <1>2, <2>6
<1>3. T = Nat
  <2> HIDE DEF T
  <2>1. T \in SUBSET Nat
    BY DEF T
  <2> QED
    BY <1>1, <1>2, <2>1, NatSteps
<1> QED
  BY <1>3 DEF IsFatRun

LEMMA FatWriteSteps ==
  ASSUME Persisted = Blocks, NEW w, NEW flag
  PROVE  \E f : /\ f[0] = w
                /\ \A i \in 1 .. ROOT - 1 : f[i] = FatStep(f[i - 1], i, w.fat, flag)
                /\ FAT_write(w, flag) = f[ROOT - 1]
<1>0. PICK n \in Nat : n = ROOT - 1
  BY Positions
<1> DEFINE Body(f) == [i \in 0 .. ROOT - 1 |-> IF i = 0 THEN w ELSE FatStep(f[i - 1], i, w.fat, flag)]
           done == CHOOSE f : f = Body(f)
<1>1. ROOT \in Nat /\ ROOT - 1 \in Nat
  BY Positions
<1>2. \E f : f = Body(f)
  <2>1. \E f : IsFatRun(f, w, flag, n)
    BY FatWriteRun
  <2> QED
    BY <1>0, <2>1 DEF IsFatRun
<1>3. done = Body(done)
  BY <1>2
<1>4. FAT_write(w, flag) = done[ROOT - 1]
  BY Zenon DEF FAT_write, FatStep, TablePart, done, Body
<1> HIDE DEF done
<1>5. done[0] = w
  BY <1>1, <1>3
<1>6. ASSUME NEW i \in 1 .. ROOT - 1
      PROVE  done[i] = FatStep(done[i - 1], i, w.fat, flag)
  <2>1. i \in 0 .. ROOT - 1 /\ i # 0
    BY <1>1
  <2> QED
    BY <1>3, <2>1
<1> QED
  BY <1>4, <1>5, <1>6

(* Writing the whole table.                                                *)
SavedTable(w, r, taken) ==
  /\ r \in Works /\ r.fat = w.fat /\ r.free = w.free - taken /\ r.at = w.at /\ r.bad = w.bad
  /\ r.out # <<>>
  /\ \A d : IsDisk(d) => \A c \in All :
       Held(d, r)[c] = IF c \in 1 .. ROOT - 1 THEN TablePart(w.fat, c)
                       ELSE IF c = 0 /\ taken > 0 THEN [free |-> w.free - taken] ELSE Held(d, w)[c]

LEMMA FatWrite ==
  ASSUME Persisted = Blocks, NEW w \in Works
  PROVE  SavedTable(w, FAT_write(w, "OVERWRITE"), 0)
<1> DEFINE Sofar(r, i) ==
             /\ r \in Works /\ r.fat = w.fat /\ r.free = w.free /\ r.at = w.at /\ r.bad = w.bad
             /\ i > 0 => r.out # <<>>
             /\ \A d : IsDisk(d) => \A c \in All :
                  Held(d, r)[c] = IF c \in 1 .. i THEN TablePart(w.fat, c) ELSE Held(d, w)[c]
<1>1. PICK f : /\ f[0] = w
               /\ \A i \in 1 .. ROOT - 1 : f[i] = FatStep(f[i - 1], i, w.fat, "OVERWRITE")
               /\ FAT_write(w, "OVERWRITE") = f[ROOT - 1]
  BY FatWriteSteps
<1>2. ROOT \in Nat /\ ROOT >= 2
  BY Positions
<1> DEFINE T == {i \in Nat : i <= ROOT - 1 => Sofar(f[i], i)}
<1>3. 0 \in T
  BY <1>1
<1>4. ASSUME NEW i \in T
      PROVE  i + 1 \in T
  <2>1. SUFFICES ASSUME i + 1 <= ROOT - 1
                 PROVE  Sofar(f[i + 1], i + 1)
    BY <1>4
  <2>2. PICK x, y, j : x = f[i] /\ y = f[i + 1] /\ j = i + 1
    OBVIOUS
  <2>3. Sofar(x, i)
    BY <1>2, <1>4, <2>1, <2>2
  <2>4. y = write_block(x, j, TablePart(w.fat, j), "OVERWRITE")
    BY <1>1, <1>2, <1>4, <2>1, <2>2 DEF FatStep
  <2>5. j \in 1 .. ROOT - 1
    BY <1>2, <1>4, <2>1, <2>2
  <2>6. BlockOK(j, TablePart(w.fat, j)) /\ j \in All
    BY <2>5, TablePartOK, WorkFields
  <2>7. Wrote(x, y, j, TablePart(w.fat, j))
    BY <2>3, <2>4, <2>6, Overwrite
  <2>8. ASSUME NEW d, IsDisk(d), NEW c \in All
        PROVE  Held(d, y)[c] = IF c \in 1 .. j THEN TablePart(w.fat, c) ELSE Held(d, w)[c]
    <3>1. Held(d, y)[c] = IF c = j THEN TablePart(w.fat, j) ELSE Held(d, x)[c]
      BY <2>3, <2>6, <2>7, <2>8, HeldOne
    <3>2. Held(d, x)[c] = IF c \in 1 .. i THEN TablePart(w.fat, c) ELSE Held(d, w)[c]
      BY <2>3, <2>8
    <3>3. c \in 1 .. j <=> (c = j \/ c \in 1 .. i)
      BY <1>4, <2>2
    <3> QED
      BY <3>1, <3>2, <3>3
  <2>9. y.out # <<>>
    <3>1. x.out \in Seq(Writ)
      BY <2>3, WorkFields
    <3> QED
      BY <2>7, <3>1 DEF Wrote
  <2> QED
    BY <2>2, <2>3, <2>7, <2>8, <2>9 DEF Wrote
<1>5. T = Nat
  <2> HIDE DEF T
  <2>1. T \in SUBSET Nat
    BY DEF T
  <2> QED
    BY <1>3, <1>4, <2>1, NatSteps
<1>6. Sofar(f[ROOT - 1], ROOT - 1)
  BY <1>2, <1>5
<1>7. w.free \in Int
  BY WorkFields
<1> HIDE DEF T
<1>8. PICK r : r = f[ROOT - 1]
  OBVIOUS
<1>9. Sofar(r, ROOT - 1) /\ ROOT - 1 > 0 /\ w.free - 0 = w.free
  BY <1>2, <1>6, <1>7, <1>8
<1> QED
  BY <1>1, <1>8, <1>9 DEF SavedTable

LEMMA FatWriteNew ==
  ASSUME Persisted = Blocks, NEW w \in Works, w.free \in ROOT - 1 .. Blocks
  PROVE  SavedTable(w, FAT_write(w, "WRITE"), ROOT - 1)
<1> DEFINE Sofar(r, i) ==
             /\ r \in Works /\ r.fat = w.fat /\ r.free = w.free - i /\ r.at = w.at /\ r.bad = w.bad
             /\ i > 0 => r.out # <<>>
             /\ \A d : IsDisk(d) => \A c \in All :
                  Held(d, r)[c] = IF c \in 1 .. i THEN TablePart(w.fat, c)
                                  ELSE IF c = 0 /\ i > 0 THEN [free |-> w.free - i]
                                  ELSE Held(d, w)[c]
<1>1. PICK f : /\ f[0] = w
               /\ \A i \in 1 .. ROOT - 1 : f[i] = FatStep(f[i - 1], i, w.fat, "WRITE")
               /\ FAT_write(w, "WRITE") = f[ROOT - 1]
  BY FatWriteSteps
<1>2. ROOT \in Nat /\ ROOT >= 2 /\ Blocks \in Nat
  BY Positions
<1>7. w.free \in Int
  BY WorkFields
<1> DEFINE T == {i \in Nat : i <= ROOT - 1 => Sofar(f[i], i)}
<1>3. 0 \in T
  <2>1. Sofar(f[0], 0)
    BY <1>1, <1>7
  <2> QED
    BY <2>1
<1>4. ASSUME NEW i \in T
      PROVE  i + 1 \in T
  <2>1. SUFFICES ASSUME i + 1 <= ROOT - 1
                 PROVE  Sofar(f[i + 1], i + 1)
    BY <1>4
  <2>2. PICK x, y, j : x = f[i] /\ y = f[i + 1] /\ j = i + 1
    OBVIOUS
  <2>3. Sofar(x, i)
    BY <1>2, <1>4, <2>1, <2>2
  <2>4. y = write_block(x, j, TablePart(w.fat, j), "WRITE")
    BY <1>1, <1>2, <1>4, <2>1, <2>2 DEF FatStep
  <2>5. j \in 1 .. ROOT - 1
    BY <1>2, <1>4, <2>1, <2>2
  <2>6. BlockOK(j, TablePart(w.fat, j)) /\ j \in All
    BY <2>5, TablePartOK, WorkFields
  <2>7. x \in Works /\ x.free = w.free - i /\ x.free - 1 = w.free - j /\ x.free - 1 \in -1 .. Blocks
    BY <1>2, <1>4, <1>7, <2>1, <2>2, <2>3
  <2>8. WroteNew(x, y, j, TablePart(w.fat, j))
    BY <2>4, <2>6, <2>7, WriteNew
  <2>9. ASSUME NEW d, IsDisk(d), NEW c \in All
        PROVE  Held(d, y)[c] = IF c \in 1 .. j THEN TablePart(w.fat, c)
                               ELSE IF c = 0 THEN [free |-> w.free - j] ELSE Held(d, w)[c]
    <3>1. Held(d, y)[c] = IF c = 0 THEN [free |-> x.free - 1]
                          ELSE IF c = j THEN TablePart(w.fat, j) ELSE Held(d, x)[c]
      BY <2>6, <2>7, <2>8, <2>9, HeldNew
    <3>2. Held(d, x)[c] = IF c \in 1 .. i THEN TablePart(w.fat, c)
                          ELSE IF c = 0 /\ i > 0 THEN [free |-> w.free - i] ELSE Held(d, w)[c]
      BY <2>3, <2>9
    <3>3. c \in 1 .. j <=> (c = j \/ c \in 1 .. i)
      BY <1>4, <2>2
    <3>4. c \in 1 .. j => c # 0
      BY <1>4, <2>2
    <3> QED
      BY <2>7, <3>1, <3>2, <3>3, <3>4
  <2>10. y.out # <<>>
    <3>1. x.out \in Seq(Writ)
      BY <2>7, WorkFields
    <3>2. PICK e \in Writ : e = [at |-> j, data |-> TablePart(w.fat, j)]
      BY <2>6, WritOK
    <3>3. PICK some : some = Append(x.out, e)
      OBVIOUS
    <3>4. some \in Seq(Writ)
      BY <3>1, <3>3
    <3>5. y.out = Append(some, [at |-> 0, data |-> [free |-> x.free - 1]])
      BY <2>8, <3>2, <3>3 DEF WroteNew
    <3> QED
      BY <3>4, <3>5
  <2>11. j > 0
    BY <1>4, <2>2
  <2>12. y \in Works /\ y.fat = w.fat /\ y.free = w.free - j /\ y.at = w.at /\ y.bad = w.bad
    BY <2>3, <2>7, <2>8 DEF WroteNew
  <2> QED
    BY <2>2, <2>9, <2>10, <2>11, <2>12
<1>5. T = Nat
  <2> HIDE DEF T
  <2>1. T \in SUBSET Nat
    BY DEF T
  <2> QED
    BY <1>3, <1>4, <2>1, NatSteps
<1>6. Sofar(f[ROOT - 1], ROOT - 1)
  <2>1. ROOT - 1 \in Nat /\ ROOT - 1 <= ROOT - 1
    BY <1>2
  <2>2. ROOT - 1 \in T
    BY <1>5, <2>1
  <2> HIDE DEF Sofar
  <2> QED
    BY <2>1, <2>2
<1> HIDE DEF T
<1>8. PICK r : r = f[ROOT - 1]
  OBVIOUS
<1>9. Sofar(r, ROOT - 1) /\ ROOT - 1 > 0
  BY <1>2, <1>6, <1>8
<1> QED
  BY <1>1, <1>8, <1>9 DEF SavedTable

-----------------------------------------------------------------------------
(* The shape of the table.                                                 *)

Typed(own, len, pos) ==
  own \in [Blk -> Blk \cup {NIL}] /\ len \in [Blk -> Nat] /\ pos \in [Blk -> Nat]

(* Block b is the pos[b]-th of the blocks that follow own[b], and block x  *)
(* is the one whose next entry is not settled yet.                         *)
Follows(fat, own, len, pos, x, b) ==
  /\ fat[b].occupied <=> own[b] # NIL
  /\ own[b] = b => pos[b] = 0
  /\ own[b] # NIL => /\ own[own[b]] = own[b]
                     /\ pos[b] <= len[own[b]]
                     /\ pos[b] = 0 => own[b] = b
  /\ own[b] # NIL /\ b # x /\ pos[b] = len[own[b]] => fat[b].next = NIL
  /\ own[b] # NIL /\ b # x /\ pos[b] < len[own[b]] =>
       /\ fat[b].next \in Blk
       /\ own[fat[b].next] = own[b]
       /\ pos[fat[b].next] = pos[b] + 1

(* No two blocks of a chain have the same position.                        *)
Apart(own, pos) == \A b, c \in Blk : own[b] # NIL /\ own[b] = own[c] /\ pos[b] = pos[c] => b = c

(* The table is the one of these chains.                                   *)
Layout(fat, own, len, pos, x) ==
  /\ Typed(own, len, pos)
  /\ \A b \in Blk : Follows(fat, own, len, pos, x, b)
  /\ Apart(own, pos)

LEMMA NilOutside == NIL \notin Blk /\ NIL \notin All /\ NIL = -1
<1>1. ROOT >= 1 /\ ROOT \in Int
  BY RootInTable, DiskAssumption DEF ROOT, Persisted
<1> QED
  BY <1>1 DEF NIL, Blk, All

LEMMA BlkInAll ==
  ASSUME Persisted = Blocks
  PROVE  Blk \subseteq All /\ Blk \subseteq Nat /\ All \subseteq Nat
  BY Positions DEF Blk, All

LEMMA LayoutAt ==
  ASSUME NEW fat, NEW own, NEW len, NEW pos, NEW x, Layout(fat, own, len, pos, x), NEW b \in Blk
  PROVE  /\ Follows(fat, own, len, pos, x, b)
         /\ own[b] \in Blk \cup {NIL} /\ pos[b] \in Nat /\ len[b] \in Nat
  BY DEF Layout, Typed

Put(f, x, y) == [f EXCEPT ![x] = y]

(* A new chain of no data blocks, as vfs_sync_file begins it.              *)
LEMMA FreshLayout ==
  ASSUME NEW fat, NEW own, NEW len, NEW pos, Layout(fat, own, len, pos, NIL),
         NEW s \in Blk, own[s] = NIL,
         NEW new, new[s].occupied,
         \A b \in Blk : b # s => (new[b].occupied <=> fat[b].occupied) /\ new[b].next = fat[b].next,
         NEW own1, own1 = Put(own, s, s),
         NEW len1, len1 = Put(len, s, 0),
         NEW pos1, pos1 = Put(pos, s, 0)
  PROVE  Layout(new, own1, len1, pos1, s)
<1>1. Typed(own, len, pos) /\ Apart(own, pos)
  BY DEF Layout
<1>2. Typed(own1, len1, pos1)
  BY <1>1 DEF Typed, Put
<1>3. /\ own1[s] = s /\ len1[s] = 0 /\ pos1[s] = 0
      /\ \A b \in Blk : b # s => own1[b] = own[b] /\ len1[b] = len[b] /\ pos1[b] = pos[b]
  BY <1>1 DEF Typed, Put
<1>4. ASSUME NEW b \in Blk, b # s
      PROVE  own[b] # s
  <2>1. Follows(fat, own, len, pos, NIL, b)
    BY LayoutAt
  <2> QED
    BY <2>1, NilOutside DEF Follows
<1>5. ASSUME NEW b \in Blk
      PROVE  Follows(new, own1, len1, pos1, s, b)
  <2>1. CASE b = s
    BY <1>3, <2>1, NilOutside DEF Follows
  <2>2. CASE b # s
    <3>1. Follows(fat, own, len, pos, NIL, b) /\ own[b] \in Blk \cup {NIL}
      BY LayoutAt
    <3>2. own1[b] = own[b] /\ pos1[b] = pos[b] /\ own[b] # s /\ b # NIL
      BY <1>3, <1>4, <2>2, NilOutside
    <3>3. (new[b].occupied <=> fat[b].occupied) /\ new[b].next = fat[b].next
      BY <2>2
    <3>4. own[b] # NIL => own1[own[b]] = own[own[b]] /\ len1[own[b]] = len[own[b]]
      BY <1>3, <3>1, <3>2
    <3>5. ASSUME fat[b].next \in Blk, own[fat[b].next] = own[b], own[b] # NIL
          PROVE  own1[fat[b].next] = own[b] /\ pos1[fat[b].next] = pos[fat[b].next]
      BY <1>3, <3>5
    <3> QED
      BY <3>1, <3>2, <3>3, <3>4, <3>5 DEF Follows
  <2> QED
    BY <2>1, <2>2
<1>6. Apart(own1, pos1)
  BY <1>1, <1>3, <1>4 DEF Apart
<1> QED
  BY <1>2, <1>5, <1>6 DEF Layout

(* One more block behind the last, a.                                      *)
LEMMA ExtendLayout ==
  ASSUME NEW fat, NEW own, NEW len, NEW pos, NEW a \in Blk, Layout(fat, own, len, pos, a),
         NEW s \in Blk, own[a] = s, pos[a] = len[s], NEW e \in Blk, own[e] = NIL,
         NEW new, new[e].occupied,
         \A b \in Blk : b # e => (new[b].occupied <=> fat[b].occupied)
                                 /\ (b # a => new[b].next = fat[b].next),
         new[a].next = e,
         NEW own1, own1 = Put(own, e, s),
         NEW len1, len1 = Put(len, s, len[s] + 1),
         NEW pos1, pos1 = Put(pos, e, len[s] + 1)
  PROVE  Layout(new, own1, len1, pos1, e)
<1>1. Typed(own, len, pos) /\ Apart(own, pos) /\ len[s] \in Nat
  BY DEF Layout, Typed
<1>2. Typed(own1, len1, pos1)
  BY <1>1 DEF Typed, Put
<1>3. /\ own1[e] = s /\ pos1[e] = len[s] + 1
      /\ len1[s] = len[s] + 1
      /\ \A b \in Blk : b # e => own1[b] = own[b] /\ pos1[b] = pos[b]
      /\ \A b \in Blk : b # s => len1[b] = len[b]
  BY <1>1 DEF Typed, Put
<1>4. s # NIL /\ own[s] = s /\ e # s /\ e # a
  <2>1. Follows(fat, own, len, pos, a, a)
    BY LayoutAt
  <2> QED
    BY <2>1, NilOutside DEF Follows
<1>5. ASSUME NEW b \in Blk
      PROVE  Follows(new, own1, len1, pos1, e, b)
  <2>1. CASE b = e
    BY <1>1, <1>3, <1>4, <2>1 DEF Follows
  <2>2. CASE b # e
    <3>1. Follows(fat, own, len, pos, a, b) /\ own[b] \in Blk \cup {NIL} /\ pos[b] \in Nat
      BY LayoutAt
    <3>2. own1[b] = own[b] /\ pos1[b] = pos[b] /\ own[b] # e
      <4>1. own[b] # e
        BY <2>2, <3>1, NilOutside DEF Follows
      <4> QED
        BY <1>3, <2>2, <4>1
    <3>3. (new[b].occupied <=> fat[b].occupied) /\ (b # a => new[b].next = fat[b].next)
      BY <2>2
    <3>4. own[b] # NIL => own1[own[b]] = own[own[b]]
      BY <1>3, <3>1, <3>2
    <3>5. own[b] # NIL => len1[own[b]] = (IF own[b] = s THEN len[s] + 1 ELSE len[own[b]])
      BY <1>3, <3>1
    <3>6. ASSUME fat[b].next \in Blk, own[fat[b].next] = own[b], own[b] # NIL
          PROVE  own1[fat[b].next] = own[b] /\ pos1[fat[b].next] = pos[fat[b].next]
      BY <1>3, <3>6
    <3>7. CASE b = a
      BY <1>1, <1>3, <1>4, <3>1, <3>2, <3>3, <3>4, <3>5, <3>7 DEF Follows
    <3>8. CASE b # a
      <4>1. own[b] = s => pos[b] < len[s]
        <5>1. own[b] = s => pos[b] # len[s]
          BY <1>1, <1>4, <3>8 DEF Apart
        <5>2. own[b] = s => pos[b] <= len[s]
          BY <1>4, <3>1 DEF Follows
        <5> QED
          BY <1>1, <3>1, <5>1, <5>2
      <4>2. own[b] # NIL => pos[b] <= len[own[b]] /\ len[own[b]] \in Nat
        BY <1>1, <3>1 DEF Follows, Typed
      <4>3. own[b] # NIL /\ own[b] # s => len1[own[b]] = len[own[b]]
        BY <3>5
      <4>4. own[b] = s => /\ fat[b].next \in Blk
                          /\ own[fat[b].next] = own[b]
                          /\ pos[fat[b].next] = pos[b] + 1
        BY <1>4, <3>1, <3>8, <4>1 DEF Follows
      <4>5. own[b] = s => Follows(new, own1, len1, pos1, e, b)
        <5>1. SUFFICES ASSUME own[b] = s
                       PROVE  Follows(new, own1, len1, pos1, e, b)
          OBVIOUS
        <5>2. len1[own[b]] = len[s] + 1 /\ pos[b] < len[s] + 1 /\ pos[b] <= len[s] + 1
              /\ pos[b] # len[s] + 1
          BY <1>1, <1>4, <3>1, <3>5, <4>1, <5>1
        <5>3. own1[fat[b].next] = own[b] /\ pos1[fat[b].next] = pos[b] + 1
          BY <1>4, <3>6, <4>4, <5>1
        <5> QED
          BY <3>1, <3>2, <3>3, <3>4, <3>8, <4>4, <5>1, <5>2, <5>3 DEF Follows
      <4>6. own[b] # s => Follows(new, own1, len1, pos1, e, b)
        BY <3>1, <3>2, <3>3, <3>4, <3>6, <3>8, <4>3 DEF Follows
      <4> QED
        BY <4>5, <4>6
    <3> QED
      BY <3>7, <3>8
  <2> QED
    BY <2>1, <2>2
<1>6. Apart(own1, pos1)
  <2>1. ASSUME NEW b \in Blk, b # e
        PROVE  ~(own1[b] = s /\ pos1[b] = len[s] + 1)
    <3>1. Follows(fat, own, len, pos, a, b) /\ pos[b] \in Nat
      BY LayoutAt
    <3>2. own[b] = s => pos[b] <= len[s]
      BY <1>4, <3>1 DEF Follows
    <3> QED
      BY <1>1, <1>3, <2>1, <3>1, <3>2
  <2> QED
    BY <1>1, <1>3, <2>1 DEF Apart
<1> QED
  BY <1>2, <1>5, <1>6 DEF Layout

(* The last block, a, ends its chain.                                      *)
LEMMA CloseLayout ==
  ASSUME NEW fat, NEW own, NEW len, NEW pos, NEW a \in Blk, Layout(fat, own, len, pos, a),
         own[a] # NIL, pos[a] = len[own[a]],
         NEW new, \A b \in Blk : (new[b].occupied <=> fat[b].occupied)
                                 /\ (b # a => new[b].next = fat[b].next),
         new[a].next = NIL
  PROVE  Layout(new, own, len, pos, NIL)
<1>1. ASSUME NEW b \in Blk
      PROVE  Follows(new, own, len, pos, NIL, b)
  <2>1. Follows(fat, own, len, pos, a, b)
    BY LayoutAt
  <2>2. (new[b].occupied <=> fat[b].occupied) /\ (b # a => new[b].next = fat[b].next)
    OBVIOUS
  <2>3. len[own[a]] \in Nat
    BY DEF Layout, Typed
  <2>4. CASE b = a
    BY <2>1, <2>2, <2>3, <2>4 DEF Follows
  <2>5. CASE b # a
    BY <2>1, <2>2, <2>5 DEF Follows
  <2> QED
    BY <2>4, <2>5
<1> QED
  BY <1>1 DEF Layout

LEMMA OpenLayout ==
  ASSUME NEW fat, NEW own, NEW len, NEW pos, NEW x, Layout(fat, own, len, pos, NIL)
  PROVE  Layout(fat, own, len, pos, x)
<1>1. ASSUME NEW b \in Blk
      PROVE  Follows(fat, own, len, pos, x, b)
  <2>1. Follows(fat, own, len, pos, NIL, b)
    BY LayoutAt
  <2> QED
    BY <2>1, NilOutside DEF Follows
<1> QED
  BY <1>1 DEF Layout

(* The owners once the chain of s is cut behind position n, or gone.       *)
CutOwn(own, pos, s, n) == [b \in Blk |-> IF own[b] = s /\ pos[b] > n THEN NIL ELSE own[b]]
WithoutOwn(own, s) == [b \in Blk |-> IF own[b] = s THEN NIL ELSE own[b]]

(* A chain that becomes shorter: the blocks behind position n are free.    *)
LEMMA CutLayout ==
  ASSUME NEW fat, NEW own, NEW len, NEW pos, Layout(fat, own, len, pos, NIL),
         NEW s \in Blk, own[s] = s, NEW n \in 0 .. len[s],
         NEW new,
         \A b \in Blk : own[b] = s /\ pos[b] > n => ~new[b].occupied,
         \A b \in Blk : own[b] = s /\ pos[b] = n => new[b].next = NIL,
         \A b \in Blk : own[b] # s \/ pos[b] <= n => (new[b].occupied <=> fat[b].occupied),
         \A b \in Blk : own[b] # s \/ pos[b] < n => new[b].next = fat[b].next,
         NEW own1, own1 = CutOwn(own, pos, s, n),
         NEW len1, len1 = Put(len, s, n)
  PROVE  Layout(new, own1, len1, pos, NIL)
<1>1. Typed(own, len, pos) /\ Apart(own, pos) /\ len[s] \in Nat /\ n \in Nat /\ n <= len[s]
  BY DEF Layout, Typed
<1>2. Typed(own1, len1, pos)
  BY <1>1 DEF Typed, Put, CutOwn
<1>3. /\ len1[s] = n
      /\ \A b \in Blk : b # s => len1[b] = len[b]
      /\ \A b \in Blk : own[b] = s /\ pos[b] > n => own1[b] = NIL
      /\ \A b \in Blk : own[b] # s \/ pos[b] <= n => own1[b] = own[b]
      /\ \A b \in Blk : pos[b] \in Nat
  BY <1>1 DEF Typed, Put, CutOwn
<1>4. pos[s] = 0 /\ s # NIL
  <2>1. Follows(fat, own, len, pos, NIL, s)
    BY LayoutAt
  <2> QED
    BY <2>1, NilOutside DEF Follows
<1>5. ASSUME NEW b \in Blk
      PROVE  Follows(new, own1, len1, pos, NIL, b)
  <2>1. Follows(fat, own, len, pos, NIL, b) /\ own[b] \in Blk \cup {NIL} /\ pos[b] \in Nat /\ b # NIL
    BY LayoutAt, NilOutside
  <2>2. CASE own[b] = s /\ pos[b] > n
    <3>1. own1[b] = NIL /\ ~new[b].occupied
      BY <1>3, <2>2
    <3> QED
      BY <2>1, <3>1 DEF Follows
  <2>3. CASE own[b] = s /\ ~(pos[b] > n)
    <3>1. pos[b] <= n /\ own1[b] = s /\ (new[b].occupied <=> fat[b].occupied)
      BY <1>1, <1>3, <2>1, <2>3
    <3>2. own1[s] = s
      BY <1>1, <1>3, <1>4
    <3>3. CASE pos[b] = n
      <4>1. new[b].next = NIL
        BY <2>3, <3>3
      <4> QED
        BY <1>1, <1>3, <1>4, <2>1, <2>3, <3>1, <3>2, <3>3, <4>1 DEF Follows
    <3>4. CASE pos[b] # n
      <4>1. pos[b] < n /\ pos[b] < len[s] /\ pos[b] + 1 <= n
        BY <1>1, <2>1, <3>1, <3>4
      <4>2. new[b].next = fat[b].next
        BY <2>3, <4>1
      <4>3. fat[b].next \in Blk /\ own[fat[b].next] = s /\ pos[fat[b].next] = pos[b] + 1
        BY <1>4, <2>1, <2>3, <4>1 DEF Follows
      <4>4. own1[fat[b].next] = s
        BY <1>3, <4>1, <4>3
      <4> QED
        BY <1>3, <1>4, <2>1, <2>3, <3>1, <3>2, <3>4, <4>1, <4>2, <4>3, <4>4 DEF Follows
    <3> QED
      BY <3>3, <3>4
  <2>4. CASE own[b] # s
    <3>1. own1[b] = own[b] /\ (new[b].occupied <=> fat[b].occupied) /\ new[b].next = fat[b].next
      BY <1>3, <2>4
    <3>2. own[b] # NIL => own[own[b]] = own[b] /\ own1[own[b]] = own[b] /\ len1[own[b]] = len[own[b]]
      BY <1>3, <2>1, <2>4 DEF Follows
    <3>3. ASSUME fat[b].next \in Blk, own[fat[b].next] = own[b]
          PROVE  own1[fat[b].next] = own[b]
      BY <1>3, <2>4, <3>3
    <3> QED
      BY <2>1, <3>1, <3>2, <3>3 DEF Follows
  <2> QED
    BY <2>2, <2>3, <2>4
<1>6. Apart(own1, pos)
  <2>1. \A b \in Blk : own1[b] # NIL => own1[b] = own[b]
    BY <1>1, <1>3
  <2> QED
    BY <1>1, <2>1 DEF Apart
<1> QED
  BY <1>2, <1>5, <1>6 DEF Layout

(* A chain that is gone.                                                   *)
LEMMA RemoveLayout ==
  ASSUME NEW fat, NEW own, NEW len, NEW pos, Layout(fat, own, len, pos, NIL),
         NEW s \in Blk, own[s] = s, NEW new,
         \A b \in Blk : own[b] = s => ~new[b].occupied,
         \A b \in Blk : own[b] # s => (new[b].occupied <=> fat[b].occupied) /\ new[b].next = fat[b].next,
         NEW own1, own1 = WithoutOwn(own, s)
  PROVE  Layout(new, own1, len, pos, NIL)
<1>1. Typed(own, len, pos) /\ Apart(own, pos)
  BY DEF Layout
<1>2. Typed(own1, len, pos)
  BY <1>1 DEF Typed, WithoutOwn
<1>3. /\ \A b \in Blk : own[b] = s => own1[b] = NIL
      /\ \A b \in Blk : own[b] # s => own1[b] = own[b]
  BY DEF WithoutOwn
<1>4. ASSUME NEW b \in Blk
      PROVE  Follows(new, own1, len, pos, NIL, b)
  <2>1. Follows(fat, own, len, pos, NIL, b) /\ own[b] \in Blk \cup {NIL} /\ b # NIL
    BY LayoutAt, NilOutside
  <2>2. CASE own[b] = s
    <3>1. own1[b] = NIL /\ ~new[b].occupied
      BY <1>3, <2>2
    <3> QED
      BY <2>1, <3>1 DEF Follows
  <2>3. CASE own[b] # s
    <3>1. own1[b] = own[b] /\ (new[b].occupied <=> fat[b].occupied) /\ new[b].next = fat[b].next
      BY <1>3, <2>3
    <3>2. own[b] # NIL => own[own[b]] = own[b] /\ own1[own[b]] = own[b]
      BY <1>3, <2>1, <2>3 DEF Follows
    <3>3. ASSUME fat[b].next \in Blk, own[fat[b].next] = own[b]
          PROVE  own1[fat[b].next] = own[b]
      BY <1>3, <2>3, <3>3
    <3> QED
      BY <2>1, <3>1, <3>2, <3>3 DEF Follows
  <2> QED
    BY <2>2, <2>3
<1>5. Apart(own1, pos)
  <2>1. \A b \in Blk : own1[b] # NIL => own1[b] = own[b]
    BY <1>3
  <2> QED
    BY <1>1, <2>1 DEF Apart
<1> QED
  BY <1>2, <1>4, <1>5 DEF Layout

(* Every position of a chain has its block.                                *)
LEMMA AtPos ==
  ASSUME NEW fat, NEW own, NEW len, NEW pos, NEW x, Layout(fat, own, len, pos, x),
         x = NIL \/ (x \in Blk /\ own[x] # NIL /\ pos[x] = len[own[x]]),
         NEW s \in Blk, own[s] = s, NEW i \in 0 .. len[s]
  PROVE  \E b \in Blk : own[b] = s /\ pos[b] = i
<1> DEFINE T == {k \in Nat : k <= len[s] => \E b \in Blk : own[b] = s /\ pos[b] = k}
<1>1. len[s] \in Nat /\ s # NIL
  BY NilOutside DEF Layout, Typed
<1>2. 0 \in T
  <2>1. Follows(fat, own, len, pos, x, s)
    BY LayoutAt
  <2> QED
    BY <2>1 DEF Follows
<1>3. ASSUME NEW k \in T
      PROVE  k + 1 \in T
  <2>1. SUFFICES ASSUME k + 1 <= len[s]
                 PROVE  \E b \in Blk : own[b] = s /\ pos[b] = k + 1
    BY <1>3
  <2>2. k \in Nat /\ k < len[s]
    BY <1>1, <1>3, <2>1
  <2>3. PICK b \in Blk : own[b] = s /\ pos[b] = k
    BY <1>1, <1>3, <2>2
  <2>4. b # x
    BY <1>1, <2>2, <2>3, NilOutside
  <2>5. Follows(fat, own, len, pos, x, b)
    BY LayoutAt
  <2> QED
    BY <1>1, <2>2, <2>3, <2>4, <2>5 DEF Follows
<1>4. T = Nat
  <2> HIDE DEF T
  <2>1. T \in SUBSET Nat
    BY DEF T
  <2> QED
    BY <1>2, <1>3, <2>1, NatSteps
<1>5. i \in Nat /\ i <= len[s]
  BY <1>1
<1> QED
  BY <1>4, <1>5

-----------------------------------------------------------------------------
(* Following the table.                                                    *)

(* Chain, one block at a time.                                             *)
FollowStep(fat, b) == IF b \in DOMAIN fat THEN fat[b].next ELSE NIL
IsChainRun(f, fat, b, n) ==
  f = [i \in 0 .. n |-> IF i = 0 THEN b ELSE FollowStep(fat, f[i - 1])]

LEMMA ChainRun ==
  ASSUME NEW fat, NEW b, NEW n \in Nat
  PROVE  \E f : IsChainRun(f, fat, b, n)
<1> DEFINE Body(f, m) == [i \in 0 .. m |-> IF i = 0 THEN b ELSE FollowStep(fat, f[i - 1])]
           T == {m \in Nat : \E f : f = Body(f, m)}
<1>1. 0 \in T
  <2>1. PICK f : f = [i \in 0 .. 0 |-> b]
    OBVIOUS
  <2>2. f = Body(f, 0)
    BY <2>1
  <2> QED
    BY <2>2
<1>2. ASSUME NEW m \in T
      PROVE  m + 1 \in T
  <2>1. PICK f : f = Body(f, m)
    BY <1>2
  <2>2. PICK g : g = [i \in 0 .. m + 1 |-> IF i = m + 1 THEN FollowStep(fat, f[m]) ELSE f[i]]
    OBVIOUS
  <2>3. \A i \in 0 .. m : f[i] = IF i = 0 THEN b ELSE FollowStep(fat, f[i - 1])
    BY <2>1
  <2>4. \A i \in 0 .. m : g[i] = f[i]
    BY <1>2, <2>2
  <2>5. \A i \in 0 .. m + 1 : g[i] = IF i = 0 THEN b ELSE FollowStep(fat, g[i - 1])
    <3>1. TAKE i \in 0 .. m + 1
    <3>2. CASE i = m + 1
      BY <1>2, <2>2, <2>4, <3>2
    <3>3. CASE i # m + 1
      <4>1. i \in 0 .. m /\ (i # 0 => i - 1 \in 0 .. m)
        BY <1>2, <3>3
      <4> QED
        BY <2>3, <2>4, <4>1
    <3> QED
      BY <3>2, <3>3
  <2>6. g = Body(g, m + 1)
    BY <2>2, <2>5
  <2> QED
    BY <1>2, <2>6
<1>3. T = Nat
  <2> HIDE DEF T
  <2>1. T \in SUBSET Nat
    BY DEF T
  <2> QED
    BY <1>1, <1>2, <2>1, NatSteps
<1> QED
  BY <1>3 DEF IsChainRun

LEMMA ChainSteps ==
  ASSUME NEW fat, NEW b, NEW n \in Nat
  PROVE  \E f : /\ f[0] = b
                /\ \A i \in 1 .. n : f[i] = FollowStep(fat, f[i - 1])
                /\ Chain(fat, b, n) = [i \in 1 .. n |-> f[i]]
<1> DEFINE Body(f) == [i \in 0 .. n |-> IF i = 0 THEN b ELSE FollowStep(fat, f[i - 1])]
           at == CHOOSE f : f = Body(f)
<1>1. \E f : f = Body(f)
  <2>1. \E f : IsChainRun(f, fat, b, n)
    BY ChainRun
  <2> QED
    BY <2>1 DEF IsChainRun
<1>2. at = Body(at)
  BY <1>1
<1>3. Chain(fat, b, n) = [i \in 1 .. n |-> at[i]]
  BY DEF Chain, FollowStep
<1> HIDE DEF at
<1>4. at[0] = b
  BY <1>2
<1>5. ASSUME NEW i \in 1 .. n
      PROVE  at[i] = FollowStep(fat, at[i - 1])
  <2>1. i \in 0 .. n /\ i # 0
    OBVIOUS
  <2> QED
    BY <1>2, <2>1
<1> QED
  BY <1>3, <1>4, <1>5

(* The chain of a node: its blocks in their order, and nothing behind.     *)
LEMMA ChainOf ==
  ASSUME Persisted = Blocks, NEW fat, DOMAIN fat = All,
         NEW own, NEW len, NEW pos, Layout(fat, own, len, pos, NIL),
         NEW s \in Blk, own[s] = s, NEW n \in Nat,
         NEW c, c = Chain(fat, s, n)
  PROVE  /\ DOMAIN c = 1 .. n
         /\ \A i \in 1 .. n : i <= len[s] => c[i] \in Blk /\ own[c[i]] = s /\ pos[c[i]] = i
         /\ \A i \in 1 .. n : i > len[s] => c[i] = NIL
<1>1. PICK f : /\ f[0] = s
               /\ \A i \in 1 .. n : f[i] = FollowStep(fat, f[i - 1])
               /\ c = [i \in 1 .. n |-> f[i]]
  BY ChainSteps
<1> DEFINE Good(k) == /\ k <= len[s] => f[k] \in Blk /\ own[f[k]] = s /\ pos[f[k]] = k
                      /\ k > len[s] => f[k] = NIL
           T == {k \in Nat : k <= n => Good(k)}
<1>2. len[s] \in Nat /\ s # NIL
  BY NilOutside DEF Layout, Typed
<1>3. 0 \in T
  <2>1. Follows(fat, own, len, pos, NIL, s)
    BY LayoutAt
  <2> QED
    BY <1>1, <1>2, <2>1 DEF Follows
<1>4. ASSUME NEW k \in T
      PROVE  k + 1 \in T
  <2>1. SUFFICES ASSUME k + 1 <= n
                 PROVE  Good(k + 1)
    BY <1>4
  <2>2. k \in Nat /\ k + 1 \in 1 .. n /\ (k + 1) - 1 = k
    BY <1>4, <2>1
  <2>3. Good(k)
    BY <1>4, <2>2
  <2>4. f[k + 1] = FollowStep(fat, f[k])
    BY <1>1, <2>2
  <2>5. PICK j : j = k + 1
    OBVIOUS
  <2>6. CASE k > len[s]
    <3>1. f[j] = NIL
      BY <2>3, <2>4, <2>5, <2>6, NilOutside DEF FollowStep
    <3> QED
      BY <1>2, <2>2, <2>5, <2>6, <3>1
  <2>7. CASE k <= len[s]
    <3>1. f[k] \in Blk /\ own[f[k]] = s /\ pos[f[k]] = k
      BY <2>3, <2>7
    <3>2. PICK b \in Blk : b = f[k]
      BY <3>1
    <3>3. Follows(fat, own, len, pos, NIL, b)
      BY LayoutAt
    <3>4. f[j] = fat[b].next
      BY <2>4, <2>5, <3>2, BlkInAll DEF FollowStep
    <3>5. b # NIL /\ own[b] = s /\ pos[b] = k
      BY <3>1, <3>2, NilOutside
    <3>6. k = len[s] => f[j] = NIL
      BY <1>2, <3>3, <3>4, <3>5 DEF Follows
    <3>7. k < len[s] => f[j] \in Blk /\ own[f[j]] = s /\ pos[f[j]] = j
      BY <1>2, <2>5, <3>3, <3>4, <3>5 DEF Follows
    <3> QED
      BY <1>2, <2>2, <2>5, <2>7, <3>6, <3>7
  <2> QED
    BY <1>2, <2>2, <2>6, <2>7
<1>5. T = Nat
  <2> HIDE DEF T
  <2>1. T \in SUBSET Nat
    BY DEF T
  <2> QED
    BY <1>3, <1>4, <2>1, NatSteps
<1>6. ASSUME NEW i \in 1 .. n
      PROVE  Good(i)
  <2>1. i \in T /\ i <= n
    BY <1>5
  <2> HIDE DEF Good
  <2> QED
    BY <2>1
<1> QED
  BY <1>1, <1>6

-----------------------------------------------------------------------------
(* Numbers of blocks.                                                      *)

(* The blocks that are free, and the ones of a file.                       *)
Vacant(fat) == {b \in All : ~fat[b].occupied}
Own(own, s) == {b \in Blk : own[b] = s}

LEMMA LeastIsMin ==
  ASSUME NEW S \in SUBSET Nat, S # {}
  PROVE  Min(S) \in S /\ \A y \in S : Min(S) <= y
<1>1. PICK m \in S : \A n \in S : m <= n
  BY LeastNumber
<1> QED
  BY <1>1 DEF Min

LEMMA AllFinite ==
  ASSUME Persisted = Blocks
  PROVE  /\ IsFiniteSet(All) /\ Cardinality(All) = Blocks
         /\ IsFiniteSet(Blk) /\ Cardinality(Blk) = Blocks - ROOT
<1>1. Blocks \in Nat /\ ROOT \in Nat /\ ROOT <= Blocks - 1 /\ ROOT >= 2
  BY Positions
<1>2. /\ IsFiniteSet(0 .. Blocks - 1)
      /\ Cardinality(0 .. Blocks - 1) = IF 0 > Blocks - 1 THEN 0 ELSE Blocks - 1 - 0 + 1
  BY <1>1, FS_Interval
<1>3. /\ IsFiniteSet(ROOT .. Blocks - 1)
      /\ Cardinality(ROOT .. Blocks - 1) = IF ROOT > Blocks - 1 THEN 0 ELSE Blocks - 1 - ROOT + 1
  BY <1>1, FS_Interval
<1>4. IsFiniteSet(All) /\ Cardinality(All) = Blocks
  BY <1>1, <1>2 DEF All
<1>5. IsFiniteSet(Blk) /\ Cardinality(Blk) = Blocks - ROOT
  BY <1>1, <1>3 DEF Blk
<1> QED
  BY <1>4, <1>5

LEMMA VacantFinite ==
  ASSUME Persisted = Blocks, NEW fat
  PROVE  /\ IsFiniteSet(Vacant(fat)) /\ Cardinality(Vacant(fat)) \in Nat
         /\ Cardinality(Vacant(fat)) <= Blocks
<1>1. Vacant(fat) \in SUBSET All
  BY DEF Vacant
<1> QED
  BY <1>1, AllFinite, FS_Subset, FS_CardinalityType

(* Occupying a free block, or freeing one, changes their number by one.    *)
LEMMA TakeOne ==
  ASSUME Persisted = Blocks, NEW fat, NEW new, NEW e \in All, ~fat[e].occupied, new[e].occupied,
         \A b \in All : b # e => (new[b].occupied <=> fat[b].occupied)
  PROVE  Cardinality(Vacant(new)) = Cardinality(Vacant(fat)) - 1
<1>1. PICK S : S = Vacant(fat)
  OBVIOUS
<1>2. Vacant(new) = S \ {e} /\ e \in S
  BY <1>1 DEF Vacant
<1>3. IsFiniteSet(S)
  BY <1>1, VacantFinite
<1>4. Cardinality(S \ {e}) = Cardinality(S) - 1
  BY <1>2, <1>3, FS_RemoveElement
<1> QED
  BY <1>1, <1>2, <1>4

LEMMA GiveOne ==
  ASSUME Persisted = Blocks, NEW fat, NEW new, NEW e \in All, fat[e].occupied, ~new[e].occupied,
         \A b \in All : b # e => (new[b].occupied <=> fat[b].occupied)
  PROVE  Cardinality(Vacant(new)) = Cardinality(Vacant(fat)) + 1
<1>1. Cardinality(Vacant(fat)) = Cardinality(Vacant(new)) - 1
  BY TakeOne
<1> QED
  BY <1>1, VacantFinite

LEMMA SameVacant ==
  ASSUME NEW fat, NEW new, \A b \in All : new[b].occupied <=> fat[b].occupied
  PROVE  Vacant(new) = Vacant(fat)
  BY DEF Vacant

(* The blocks of a file are as many as its metadata says, and one.         *)
LEMMA OwnCount ==
  ASSUME Persisted = Blocks, NEW fat, NEW own, NEW len, NEW pos, Layout(fat, own, len, pos, NIL),
         NEW s \in Blk, own[s] = s
  PROVE  IsFiniteSet(Own(own, s)) /\ Cardinality(Own(own, s)) = len[s] + 1
<1> DEFINE S == 0 .. len[s]
           M == Own(own, s)
           g == [i \in S |-> CHOOSE b \in Blk : own[b] = s /\ pos[b] = i]
<1>1. len[s] \in Nat /\ s # NIL
  BY NilOutside DEF Layout, Typed
<1>2. \A i \in S : g[i] \in Blk /\ own[g[i]] = s /\ pos[g[i]] = i
  <2>1. TAKE i \in S
  <2>2. \E b \in Blk : own[b] = s /\ pos[b] = i
    BY AtPos
  <2> QED
    BY <2>2
<1>3. ASSUME NEW b \in M
      PROVE  pos[b] \in S /\ g[pos[b]] = b
  <2>1. b \in Blk /\ own[b] = s
    BY <1>3 DEF Own
  <2>2. Follows(fat, own, len, pos, NIL, b) /\ pos[b] \in Nat
    BY <2>1, LayoutAt
  <2>3. pos[b] \in S
    BY <1>1, <2>1, <2>2 DEF Follows
  <2>4. own[g[pos[b]]] = s /\ pos[g[pos[b]]] = pos[b] /\ g[pos[b]] \in Blk
    BY <1>2, <2>3
  <2> HIDE DEF g
  <2>5. g[pos[b]] = b
    BY <1>1, <2>1, <2>4 DEF Layout, Apart
  <2> QED
    BY <2>3, <2>5
<1>4. g \in Injection(S, M)
  <2>1. DOMAIN g = S /\ g = [i \in S |-> g[i]]
    OBVIOUS
  <2> HIDE DEF g
  <2>2. \A i \in S : g[i] \in M
    BY <1>2 DEF Own
  <2>3. g \in [S -> M]
    BY <2>1, <2>2
  <2>4. \A i, j \in S : g[i] = g[j] => i = j
    BY <1>2
  <2> HIDE DEF S, M
  <2> QED
    BY <2>3, <2>4 DEF Injection, IsInjective
<1>5. g \in Surjection(S, M)
  <2> HIDE DEF g
  <2>1. \A b \in M : \E i \in S : g[i] = b
    BY <1>3
  <2>2. g \in [S -> M]
    BY <1>4 DEF Injection
  <2> HIDE DEF S, M
  <2> QED
    BY <2>1, <2>2 DEF Surjection
<1>6. IsFiniteSet(M)
  <2>1. M \in SUBSET Blk
    BY DEF Own
  <2> HIDE DEF M
  <2> QED
    BY <2>1, AllFinite, FS_Subset
<1>7. IsFiniteSet(S) /\ Cardinality(S) = len[s] + 1
  <2>1. /\ IsFiniteSet(0 .. len[s])
        /\ Cardinality(0 .. len[s]) = IF 0 > len[s] THEN 0 ELSE len[s] - 0 + 1
    BY <1>1, FS_Interval
  <2> QED
    BY <1>1, <2>1
<1>8. Cardinality(S) = Cardinality(M)
  <2> HIDE DEF S, M, g
  <2> QED
    BY <1>4, <1>5, <1>6, FS_Injection
<1> QED
  BY <1>6, <1>7, <1>8

(* The blocks of a file and the free blocks fit behind the table.          *)
LEMMA Room ==
  ASSUME Persisted = Blocks, NEW fat, NEW own, NEW len, NEW pos, Layout(fat, own, len, pos, NIL),
         \A b \in 0 .. ROOT - 1 : fat[b].occupied,
         NEW s \in Blk, own[s] = s
  PROVE  len[s] + 1 + Cardinality(Vacant(fat)) <= Blocks - ROOT
<1> DEFINE M == Own(own, s)
           V == Vacant(fat)
<1>1. IsFiniteSet(M) /\ Cardinality(M) = len[s] + 1
  BY OwnCount
<1>2. IsFiniteSet(V) /\ Cardinality(V) \in Nat
  BY VacantFinite
<1>3. M \cap V = {}
  <2>1. SUFFICES ASSUME NEW b \in M, b \in V
                 PROVE  FALSE
    OBVIOUS
  <2>2. b \in Blk /\ own[b] = s /\ ~fat[b].occupied
    BY <2>1 DEF Own, Vacant
  <2>3. Follows(fat, own, len, pos, NIL, b) /\ s # NIL
    BY <2>2, LayoutAt, NilOutside
  <2> QED
    BY <2>2, <2>3 DEF Follows
<1>4. M \cup V \in SUBSET Blk
  <2>1. ROOT \in Nat
    BY Positions
  <2>2. \A b \in V : b \in Blk
    BY <2>1 DEF Vacant, All, Blk
  <2> QED
    BY <2>2 DEF Own
<1>5. len[s] \in Nat
  BY DEF Layout, Typed
<1> HIDE DEF M, V
<1>6. IsFiniteSet(M \cup V) /\ Cardinality(M \cup V) = Cardinality(M) + Cardinality(V) - Cardinality(M \cap V)
  BY <1>1, <1>2, FS_Union
<1>7. Cardinality(M \cap V) = 0
  BY <1>3, FS_EmptySet
<1>8. Cardinality(M \cup V) <= Cardinality(Blk)
  BY <1>4, AllFinite, FS_Subset
<1>9. Cardinality(M \cup V) = len[s] + 1 + Cardinality(V)
  BY <1>1, <1>2, <1>5, <1>6, <1>7
<1> QED
  BY <1>8, <1>9, AllFinite DEF V

LEMMA NextFree ==
  ASSUME Persisted = Blocks, NEW fat
  PROVE  \/ next_free_block(fat) = NIL
         \/ /\ next_free_block(fat) \in Blk /\ next_free_block(fat) # ROOT
            /\ ~fat[next_free_block(fat)].occupied
<1> DEFINE available == {b \in ROOT + 1 .. Blocks - 1 : ~fat[b].occupied}
<1>1. ROOT \in Nat /\ Blocks \in Nat
  BY Positions
<1>2. available \subseteq Nat
  BY <1>1
<1>3. CASE available = {}
  BY <1>3 DEF next_free_block
<1>4. CASE available # {}
  <2>1. next_free_block(fat) = Min(available)
    BY <1>4 DEF next_free_block
  <2>2. Min(available) \in available
    <3> HIDE DEF available
    <3> QED
      BY <1>2, <1>4, LeastIsMin
  <2> QED
    BY <1>1, <2>1, <2>2 DEF Blk
<1> QED
  BY <1>3, <1>4

-----------------------------------------------------------------------------
(* The loops of vfs_sync_file.                                             *)

(* A loop ends early when -1 was used as a block number.                   *)
LoopStep(loop, u, binary, k) == IF u.bad THEN u ELSE Step(loop, u, binary, k)
IsLoopRun(f, loop, w, binary, from, to) ==
  f = [k \in from .. to |-> IF k = from THEN w
                            ELSE IF f[k - 1].bad THEN f[k - 1] ELSE Step(loop, f[k - 1], binary, k - 1)]

LEMMA LoopRun ==
  ASSUME NEW loop, NEW w, NEW binary, NEW from \in Nat, NEW n \in Nat
  PROVE  \E f : IsLoopRun(f, loop, w, binary, from, from + n)
<1> DEFINE Body(f, m) == [k \in from .. from + m |->
                            IF k = from THEN w ELSE LoopStep(loop, f[k - 1], binary, k - 1)]
           T == {m \in Nat : \E f : f = Body(f, m)}
<1>1. 0 \in T
  <2>1. PICK f : f = [k \in from .. from + 0 |-> w]
    OBVIOUS
  <2>2. f = Body(f, 0)
    BY <2>1
  <2> QED
    BY <2>2
<1>2. ASSUME NEW m \in T
      PROVE  m + 1 \in T
  <2>1. PICK f : f = Body(f, m)
    BY <1>2
  <2>2. PICK last : last = from + m
    OBVIOUS
  <2>3. last \in Nat /\ last >= from /\ from + (m + 1) = last + 1
    BY <1>2, <2>2
  <2>4. PICK g : g = [k \in from .. last + 1 |-> IF k = last + 1 THEN LoopStep(loop, f[last], binary, last)
                                                 ELSE f[k]]
    OBVIOUS
  <2>5. \A k \in from .. last : f[k] = IF k = from THEN w ELSE LoopStep(loop, f[k - 1], binary, k - 1)
    BY <2>1, <2>2
  <2>6. \A k \in from .. last : g[k] = f[k]
    BY <2>3, <2>4
  <2>7. \A k \in from .. last + 1 : g[k] = IF k = from THEN w ELSE LoopStep(loop, g[k - 1], binary, k - 1)
    <3>1. TAKE k \in from .. last + 1
    <3>2. CASE k = last + 1
      <4>1. k - 1 = last /\ k # from /\ last \in from .. last
        BY <2>3, <3>2
      <4> QED
        BY <2>4, <2>6, <3>2, <4>1
    <3>3. CASE k # last + 1
      <4>1. k \in from .. last /\ (k # from => k - 1 \in from .. last)
        BY <2>3, <3>3
      <4> QED
        BY <2>5, <2>6, <4>1
    <3> QED
      BY <3>2, <3>3
  <2>8. g = [k \in from .. last + 1 |-> IF k = from THEN w ELSE LoopStep(loop, g[k - 1], binary, k - 1)]
    BY <2>4, <2>7
  <2>9. g = Body(g, m + 1)
    BY <2>3, <2>8
  <2> QED
    BY <1>2, <2>9
<1>3. T = Nat
  <2> HIDE DEF T
  <2>1. T \in SUBSET Nat
    BY DEF T
  <2> QED
    BY <1>1, <1>2, <2>1, NatSteps
<1> QED
  BY <1>3 DEF IsLoopRun, LoopStep

LEMMA LoopSteps ==
  ASSUME NEW loop, NEW w, NEW binary, NEW from \in Nat, NEW to \in Nat, from <= to
  PROVE  \E f : /\ f[from] = w
                /\ \A k \in Nat : from <= k /\ k + 1 <= to => f[k + 1] = LoopStep(loop, f[k], binary, k)
                /\ Repeat(loop, w, binary, from, to) = f[to]
<1> DEFINE Body(f) == [k \in from .. to |->
                         IF k = from THEN w
                         ELSE IF f[k - 1].bad THEN f[k - 1] ELSE Step(loop, f[k - 1], binary, k - 1)]
           done == CHOOSE f : f = Body(f)
<1>1. \E f : f = Body(f)
  <2>1. PICK n \in Nat : n = to - from
    OBVIOUS
  <2>2. \E f : IsLoopRun(f, loop, w, binary, from, from + n)
    BY LoopRun
  <2>3. from + n = to
    BY <2>1
  <2> QED
    BY <2>2, <2>3 DEF IsLoopRun
<1>2. done = Body(done)
  BY <1>1
<1>3. Repeat(loop, w, binary, from, to) = done[to]
  BY DEF Repeat
<1> HIDE DEF done
<1>4. done[from] = w
  BY <1>2
<1>5. ASSUME NEW k \in Nat, from <= k, k + 1 <= to
      PROVE  done[k + 1] = LoopStep(loop, done[k], binary, k)
  <2>1. PICK j : j = k + 1
    OBVIOUS
  <2>2. j \in from .. to /\ j # from /\ j - 1 = k
    BY <1>5, <2>1
  <2>3. done[j] = IF done[j - 1].bad THEN done[j - 1] ELSE Step(loop, done[j - 1], binary, j - 1)
    BY <1>2, <2>2
  <2> QED
    BY <2>1, <2>2, <2>3 DEF LoopStep
<1> QED
  BY <1>3, <1>4, <1>5

(* Overwriting and appending blocks.                                       *)

LEMMA DataBlockOK ==
  ASSUME Persisted = Blocks, NEW binary \in Seq(Byte), NEW i \in Nat, NEW b \in Blk
  PROVE  DataBlock(binary, i) \in Data /\ BlockOK(b, DataBlock(binary, i))
<1>1. \A j \in DOMAIN binary : binary[j] \in Byte
  BY LenProperties
<1>2. DataBlock(binary, i) \in Data
  <2> DEFINE f == [k \in 1 .. BlockSize |->
                     IF i * BlockSize + k \in DOMAIN binary THEN binary[i * BlockSize + k] ELSE Junk]
  <2>1. \A k \in 1 .. BlockSize : f[k] \in Byte
    BY <1>1 DEF Byte
  <2>2. DOMAIN f = 1 .. BlockSize /\ f = [k \in 1 .. BlockSize |-> f[k]]
    OBVIOUS
  <2>3. DataBlock(binary, i) = [bytes |-> f]
    BY DEF DataBlock
  <2> HIDE DEF f
  <2>4. f \in [1 .. BlockSize -> Byte]
    BY <2>1, <2>2
  <2> QED
    BY <2>3, <2>4 DEF Data
<1>3. ~IsVnode(DataBlock(binary, i))
  BY <1>2, DataDomain
<1> QED
  BY <1>2, <1>3 DEF BlockOK, Blk

LEMMA SetPosition ==
  ASSUME NEW w \in Works, NEW b \in Int, NEW v, v = [w EXCEPT !.at = b]
  PROVE  v \in Works /\ v.fat = w.fat /\ v.free = w.free /\ v.out = w.out /\ v.at = b /\ v.bad = w.bad
  BY DEF Works

(* The loop has overwritten the k-th block of the chain.                   *)
Rewrote(d, u, r, own, pos, s, binary, k) ==
  /\ r \in Works /\ r.fat = u.fat /\ r.free = u.free /\ r.bad = u.bad
  /\ r.at \in Blk /\ own[r.at] = s /\ pos[r.at] = k + 1
  /\ \A c \in All : Held(d, r)[c] = IF c = r.at THEN DataBlock(binary, k) ELSE Held(d, u)[c]

(* One block of the loop that overwrites the blocks that stay.             *)
LEMMA RewriteOne ==
  ASSUME Persisted = Blocks, NEW d, IsDisk(d), NEW u \in Works, NEW own, NEW len, NEW pos,
         Layout(u.fat, own, len, pos, NIL), NEW s \in Blk, own[s] = s,
         u.at \in Blk, own[u.at] = s, NEW k \in Nat, pos[u.at] = k, k < len[s],
         NEW binary \in Seq(Byte), NEW r, r = Rewrite(u, binary, k)
  PROVE  Rewrote(d, u, r, own, pos, s, binary, k)
<1>1. PICK a \in Blk : a = u.at
  OBVIOUS
<1>2. Follows(u.fat, own, len, pos, NIL, a)
  BY LayoutAt
<1>3. PICK b : b = u.fat[a].next
  OBVIOUS
<1>4. b \in Blk /\ own[b] = s /\ pos[b] = k + 1 /\ b # NIL
  <2>1. a # NIL /\ own[a] = s /\ s # NIL
    BY <1>1, NilOutside
  <2> QED
    BY <1>1, <1>2, <1>3, <2>1, NilOutside DEF Follows
<1>5. r = write_block([u EXCEPT !.at = b], b, DataBlock(binary, k), "OVERWRITE")
  BY <1>1, <1>3, <1>4 DEF Rewrite
<1>6. PICK v : v = [u EXCEPT !.at = b]
  OBVIOUS
<1>7. v \in Works /\ v.fat = u.fat /\ v.free = u.free /\ v.out = u.out /\ v.at = b /\ v.bad = u.bad
  BY <1>4, <1>6, BlkInAll, SetPosition
<1>8. BlockOK(b, DataBlock(binary, k)) /\ b \in All
  BY <1>4, DataBlockOK, BlkInAll
<1>9. Wrote(v, r, b, DataBlock(binary, k))
  BY <1>5, <1>6, <1>7, <1>8, Overwrite
<1>10. r.at = b
  BY <1>7, <1>9 DEF Wrote
<1>11. ASSUME NEW c \in All
       PROVE  Held(d, r)[c] = IF c = b THEN DataBlock(binary, k) ELSE Held(d, u)[c]
  <2>1. Held(d, r)[c] = IF c = b THEN DataBlock(binary, k) ELSE Held(d, v)[c]
    BY <1>7, <1>8, <1>9, HeldOne
  <2> QED
    BY <1>7, <2>1 DEF Held
<1> QED
  BY <1>4, <1>7, <1>9, <1>10, <1>11 DEF Wrote, Rewrote

(* The first n blocks of the chain are overwritten.                        *)
Rewritten(d, w, r, own, pos, s, binary, n) ==
  /\ r \in Works /\ r.fat = w.fat /\ r.free = w.free /\ ~r.bad
  /\ r.at \in Blk /\ own[r.at] = s /\ pos[r.at] = n
  /\ \A c \in All : Held(d, r)[c] = IF c \in Blk /\ own[c] = s /\ pos[c] \in 1 .. n
                                    THEN DataBlock(binary, pos[c] - 1) ELSE Held(d, w)[c]

LEMMA RewriteLoop ==
  ASSUME Persisted = Blocks, NEW d, IsDisk(d), NEW w \in Works, ~w.bad, NEW own, NEW len, NEW pos,
         Layout(w.fat, own, len, pos, NIL), NEW s \in Blk, own[s] = s, w.at = s,
         NEW n \in Nat, n <= len[s], NEW binary \in Seq(Byte)
  PROVE  Rewritten(d, w, Repeat("rewrite", w, binary, 0, n), own, pos, s, binary, n)
<1>1. PICK f : /\ f[0] = w
               /\ \A k \in Nat : 0 <= k /\ k + 1 <= n => f[k + 1] = LoopStep("rewrite", f[k], binary, k)
               /\ Repeat("rewrite", w, binary, 0, n) = f[n]
  BY LoopSteps
<1> DEFINE T == {k \in Nat : k <= n => Rewritten(d, w, f[k], own, pos, s, binary, k)}
<1>2. \A b \in Blk : pos[b] \in Nat
  BY DEF Layout, Typed
<1>3. len[s] \in Nat
  BY DEF Layout, Typed
<1>4. 0 \in T
  <2>1. Follows(w.fat, own, len, pos, NIL, s)
    BY LayoutAt
  <2>2. pos[s] = 0
    BY <2>1 DEF Follows
  <2>3. \A c \in All : ~(c \in Blk /\ own[c] = s /\ pos[c] \in 1 .. 0)
    OBVIOUS
  <2> QED
    BY <1>1, <2>2, <2>3 DEF Rewritten
<1>5. ASSUME NEW k \in T
      PROVE  k + 1 \in T
  <2>1. SUFFICES ASSUME k + 1 <= n
                 PROVE  Rewritten(d, w, f[k + 1], own, pos, s, binary, k + 1)
    BY <1>5
  <2>2. k \in Nat /\ k <= n /\ k < len[s]
    BY <1>3, <1>5, <2>1
  <2>3. PICK x, y, j : x = f[k] /\ y = f[k + 1] /\ j = k + 1
    OBVIOUS
  <2>4. Rewritten(d, w, x, own, pos, s, binary, k)
    BY <1>5, <2>2, <2>3
  <2>5. y = LoopStep("rewrite", x, binary, k)
    BY <1>1, <2>1, <2>2, <2>3
  <2>6. y = Rewrite(x, binary, k)
    BY <2>4, <2>5 DEF LoopStep, Step, Rewritten
  <2>7. x \in Works /\ x.fat = w.fat /\ ~x.bad /\ x.at \in Blk /\ own[x.at] = s /\ pos[x.at] = k
    BY <2>4 DEF Rewritten
  <2>8. Layout(x.fat, own, len, pos, NIL)
    BY <2>7
  <2>8a. Rewrote(d, x, y, own, pos, s, binary, k)
    BY <2>2, <2>6, <2>7, <2>8, RewriteOne
  <2>9. /\ y \in Works /\ y.fat = x.fat /\ y.free = x.free /\ y.bad = x.bad
        /\ y.at \in Blk /\ own[y.at] = s /\ pos[y.at] = k + 1
    BY <2>8a DEF Rewrote
  <2>10. \A c \in All : Held(d, y)[c] = IF c = y.at THEN DataBlock(binary, k) ELSE Held(d, x)[c]
    BY <2>8a DEF Rewrote
  <2>11. ASSUME NEW c \in All
         PROVE  Held(d, y)[c] = IF c \in Blk /\ own[c] = s /\ pos[c] \in 1 .. j
                                THEN DataBlock(binary, pos[c] - 1) ELSE Held(d, w)[c]
    <3>1. Held(d, x)[c] = IF c \in Blk /\ own[c] = s /\ pos[c] \in 1 .. k
                          THEN DataBlock(binary, pos[c] - 1) ELSE Held(d, w)[c]
      BY <2>4 DEF Rewritten
    <3>2. CASE c = y.at
      <4>1. c \in Blk /\ own[c] = s /\ pos[c] \in 1 .. j /\ pos[c] - 1 = k
        BY <2>2, <2>3, <2>9, <3>2
      <4>2. Held(d, y)[c] = DataBlock(binary, k)
        BY <2>10, <3>2
      <4> QED
        BY <4>1, <4>2
    <3>3. CASE c # y.at
      <4>1. Held(d, y)[c] = Held(d, x)[c]
        BY <2>10, <3>3
      <4>2. c \in Blk /\ own[c] = s => pos[c] # j
        <5>1. Apart(own, pos) /\ s # NIL
          BY NilOutside DEF Layout
        <5> QED
          BY <2>3, <2>9, <3>3, <5>1 DEF Apart
      <4>3. c \in Blk /\ own[c] = s => (pos[c] \in 1 .. j <=> pos[c] \in 1 .. k)
        BY <1>2, <2>2, <2>3, <4>2
      <4> QED
        BY <3>1, <4>1, <4>3
    <3> QED
      BY <3>2, <3>3
  <2>12. y.free = w.free /\ y.fat = w.fat /\ ~y.bad
    BY <2>4, <2>7, <2>9 DEF Rewritten
  <2> QED
    BY <2>3, <2>9, <2>11, <2>12 DEF Rewritten
<1>6. T = Nat
  <2> HIDE DEF T
  <2>1. T \in SUBSET Nat
    BY DEF T
  <2> QED
    BY <1>4, <1>5, <2>1, NatSteps
<1> QED
  BY <1>1, <1>6

(* The entries of a table in which the free block e follows block a.       *)
LinkedTo(fat, new, a, e) ==
  /\ new \in [All -> Entry]
  /\ new[e].occupied /\ new[a].next = e
  /\ \A c \in All : c # e => (new[c].occupied <=> fat[c].occupied)
  /\ \A c \in All : c # a => new[c].next = fat[c].next

LEMMA ExtendFat ==
  ASSUME Persisted = Blocks, NEW fat \in [All -> Entry], NEW a \in Blk, NEW e \in Blk, a # e,
         NEW mid, mid = [fat EXCEPT ![a].next = e],
         NEW new, new = [mid EXCEPT ![e].occupied = OCCUPIED]
  PROVE  LinkedTo(fat, new, a, e)
<1>1. a \in All /\ e \in All /\ e \in NIL .. Blocks - 1
  BY BlkInAll, Positions DEF Blk, NIL
<1>2. mid \in [All -> Entry]
  BY <1>1 DEF Entry
<1>3. \A c \in All : mid[c].occupied = fat[c].occupied /\ (c # a => mid[c].next = fat[c].next)
  BY <1>1 DEF Entry
<1>4. mid[a].next = e
  BY <1>1 DEF Entry
<1>5. new \in [All -> Entry]
  <2>1. \A c \in All : new[c] \in Entry
    BY <1>1, <1>2 DEF Entry, OCCUPIED
  <2>2. DOMAIN new = All /\ new = [c \in All |-> new[c]]
    BY <1>2
  <2> QED
    BY <2>1, <2>2
<1>6. new[e].occupied = TRUE /\ new[a].next = e
  BY <1>1, <1>2, <1>4 DEF Entry, OCCUPIED
<1>7. \A c \in All : new[c].next = mid[c].next /\ (c # e => new[c].occupied = mid[c].occupied)
  BY <1>1, <1>2 DEF Entry
<1>8. new[e].occupied
  BY <1>6
<1>9. ASSUME NEW c \in All
      PROVE  /\ c # e => (new[c].occupied <=> fat[c].occupied)
             /\ c # a => new[c].next = fat[c].next
  BY <1>3, <1>7
<1> QED
  BY <1>5, <1>6, <1>8, <1>9 DEF LinkedTo

Linking(u, e) == [u EXCEPT !.fat[u.at].next = e, !.fat[e].occupied = OCCUPIED, !.at = e]

LEMMA ExtendWork ==
  ASSUME Persisted = Blocks, NEW u \in Works, NEW e \in Blk, u.at \in Blk, u.at # e,
         NEW v, v = Linking(u, e)
  PROVE  /\ v \in Works /\ v.free = u.free /\ v.out = u.out /\ v.at = e /\ v.bad = u.bad
         /\ LinkedTo(u.fat, v.fat, u.at, e)
<1>1. PICK a \in Blk : a = u.at
  OBVIOUS
<1>2. PICK mid : mid = [u.fat EXCEPT ![a].next = e]
  OBVIOUS
<1>3. PICK new : new = [mid EXCEPT ![e].occupied = OCCUPIED]
  OBVIOUS
<1>4. v = [fat |-> new, free |-> u.free, out |-> u.out, at |-> e, bad |-> u.bad]
  BY <1>1, <1>2, <1>3 DEF Works, Linking
<1>5. u.fat \in [All -> Entry]
  BY WorkFields
<1>6. LinkedTo(u.fat, new, a, e)
  BY <1>1, <1>2, <1>3, <1>5, ExtendFat
<1>7. v \in Works
  <2>1. new \in [All -> Entry] /\ e \in Int
    BY <1>6, BlkInAll DEF LinkedTo
  <2>2. u.free \in Int /\ u.out \in Seq(Writ) /\ u.bad \in BOOLEAN
    BY WorkFields
  <2> QED
    BY <1>4, <2>1, <2>2 DEF Works
<1>8. v.fat = new
  BY <1>4
<1> QED
  BY <1>1, <1>4, <1>6, <1>7, <1>8

(* The loop that appends blocks: k blocks of the file s are on the disk.   *)
Extending(d, w, r, own0, len0, pos0, s, binary, k, own, len, pos) ==
  /\ r \in Works /\ ~r.bad
  /\ Layout(r.fat, own, len, pos, r.at)
  /\ r.at \in Blk /\ own[r.at] = s /\ pos[r.at] = k /\ len = Put(len0, s, k)
  /\ \A b \in 0 .. ROOT - 1 : r.fat[b].occupied
  /\ r.free = Cardinality(Vacant(r.fat))
  /\ Held(d, r)[0] = [free |-> r.free]
  /\ \A b \in Blk : own0[b] # NIL => own[b] = own0[b] /\ pos[b] = pos0[b] /\ Held(d, r)[b] = Held(d, w)[b]
  /\ \A b \in Blk : own0[b] = NIL /\ own[b] # NIL =>
       own[b] = s /\ pos[b] \in len0[s] + 1 .. k /\ Held(d, r)[b] = DataBlock(binary, pos[b] - 1)

LEMMA ExtendOne ==
  ASSUME Persisted = Blocks, NEW d, IsDisk(d), NEW w, NEW u,
         NEW own0, NEW len0, NEW pos0, NEW s \in Blk, Typed(own0, len0, pos0), own0[s] = s,
         NEW binary \in Seq(Byte), NEW k \in Nat, len0[s] <= k,
         NEW own, NEW len, NEW pos,
         Extending(d, w, u, own0, len0, pos0, s, binary, k, own, len, pos),
         NEW r, r = Extend(u, binary, k)
  PROVE  \/ r \in Works /\ r.bad
         \/ \E own1, len1, pos1 :
              Extending(d, w, r, own0, len0, pos0, s, binary, k + 1, own1, len1, pos1)
<1>0. u \in Works /\ ~u.bad /\ Layout(u.fat, own, len, pos, u.at) /\ Typed(own, len, pos)
  BY DEF Extending, Layout
<1>1. PICK e : e = next_free_block(u.fat)
  OBVIOUS
<1>2. CASE e = NIL
  <2>1. r = [u EXCEPT !.bad = TRUE]
    BY <1>1, <1>2 DEF Extend
  <2>2. r \in Works /\ r.bad
    <3>1. PICK u1 : u1 = u /\ u1 \in Works
      BY <1>0
    <3>2. r = [fat |-> u1.fat, free |-> u1.free, out |-> u1.out, at |-> u1.at, bad |-> TRUE]
      BY <2>1, <3>1 DEF Works
    <3> QED
      BY <3>1, <3>2 DEF Works
  <2> QED
    BY <2>2
<1>3. CASE e # NIL
  <2>1. e \in Blk /\ ~u.fat[e].occupied
    BY <1>1, <1>3, NextFree
  <2>2. PICK a \in Blk : a = u.at /\ own[a] = s /\ pos[a] = k
    BY DEF Extending
  <2>3. own[e] = NIL
    <3>1. Follows(u.fat, own, len, pos, u.at, e)
      BY <1>0, <2>1, LayoutAt
    <3> QED
      BY <2>1, <3>1 DEF Follows
  <2>4. a # e /\ s # NIL /\ e # NIL
    BY <2>1, <2>2, <2>3, NilOutside
  <2>5. PICK v : v = Linking(u, e)
    OBVIOUS
  <2>6. /\ v \in Works /\ v.free = u.free /\ v.out = u.out /\ v.at = e /\ v.bad = u.bad
        /\ LinkedTo(u.fat, v.fat, a, e)
    BY <1>0, <2>1, <2>2, <2>4, <2>5, ExtendWork
  <2>7. r = write_block(v, e, DataBlock(binary, k), "WRITE")
    BY <1>1, <1>3, <2>5 DEF Extend, Linking
  <2>8. BlockOK(e, DataBlock(binary, k)) /\ e \in All /\ a \in All /\ e # 0
    BY <2>1, <2>2, DataBlockOK, BlkInAll, Positions DEF Blk
  <2>9. u.free = Cardinality(Vacant(u.fat)) /\ Cardinality(Vacant(v.fat)) = u.free - 1
    <3>1. u.free = Cardinality(Vacant(u.fat))
      BY DEF Extending
    <3>2. v.fat[e].occupied /\ \A b \in All : b # e => (v.fat[b].occupied <=> u.fat[b].occupied)
      BY <2>6 DEF LinkedTo
    <3>3. Cardinality(Vacant(v.fat)) = Cardinality(Vacant(u.fat)) - 1
      BY <2>1, <2>8, <3>2, TakeOne
    <3> QED
      BY <3>1, <3>3
  <2>10. v.free - 1 = Cardinality(Vacant(v.fat)) /\ v.free - 1 \in -1 .. Blocks
    <3>1. Cardinality(Vacant(v.fat)) \in Nat /\ Cardinality(Vacant(v.fat)) <= Blocks
      BY VacantFinite
    <3> QED
      BY <2>6, <2>9, <3>1, Positions
  <2>11. WroteNew(v, r, e, DataBlock(binary, k))
    BY <2>6, <2>7, <2>8, <2>10, WriteNew
  <2>12. /\ r \in Works /\ r.fat = v.fat /\ r.free = v.free - 1 /\ r.at = e /\ r.bad = u.bad
    BY <2>6, <2>11 DEF WroteNew
  <2>13. ASSUME NEW c \in All
         PROVE  Held(d, r)[c] = IF c = 0 THEN [free |-> v.free - 1]
                                ELSE IF c = e THEN DataBlock(binary, k) ELSE Held(d, u)[c]
    <3>1. Held(d, r)[c] = IF c = 0 THEN [free |-> v.free - 1]
                          ELSE IF c = e THEN DataBlock(binary, k) ELSE Held(d, v)[c]
      BY <2>6, <2>8, <2>10, <2>11, HeldNew
    <3> QED
      BY <2>6, <3>1 DEF Held
  <2>14. PICK own1, len1, pos1 : /\ own1 = Put(own, e, s)
                                 /\ len1 = Put(len, s, len[s] + 1)
                                 /\ pos1 = Put(pos, e, len[s] + 1)
    OBVIOUS
  <2>15. len[s] = k /\ len1 = Put(len0, s, k + 1)
    <3>1. len = Put(len0, s, k) /\ len0 \in [Blk -> Nat]
      BY DEF Extending, Typed
    <3>2. len[s] = k
      BY <3>1 DEF Put
    <3> QED
      BY <2>14, <3>1, <3>2 DEF Put
  <2>16. Layout(r.fat, own1, len1, pos1, e)
    <3>1. v.fat[e].occupied /\ v.fat[a].next = e
      BY <2>6 DEF LinkedTo
    <3>2. \A b \in Blk : b # e => (v.fat[b].occupied <=> u.fat[b].occupied)
                                  /\ (b # a => v.fat[b].next = u.fat[b].next)
      BY <2>6, BlkInAll DEF LinkedTo
    <3>3. Layout(u.fat, own, len, pos, a) /\ pos[a] = len[s]
      BY <1>0, <2>2, <2>15
    <3>4. Layout(v.fat, own1, len1, pos1, e)
      BY <2>1, <2>2, <2>3, <2>14, <3>1, <3>2, <3>3, ExtendLayout
    <3> QED
      BY <2>12, <3>4
  <2>17. /\ own1[e] = s /\ pos1[e] = k + 1
         /\ \A b \in Blk : b # e => own1[b] = own[b] /\ pos1[b] = pos[b]
    BY <1>0, <2>1, <2>14, <2>15 DEF Typed, Put
  <2>18. \A b \in 0 .. ROOT - 1 : r.fat[b].occupied
    <3>1. \A b \in 0 .. ROOT - 1 : b \in All /\ b # e
      BY <2>1, Positions DEF All, Blk
    <3>2. \A b \in 0 .. ROOT - 1 : u.fat[b].occupied
      BY DEF Extending
    <3> QED
      BY <2>6, <2>12, <3>1, <3>2 DEF LinkedTo
  <2>19. own0[e] = NIL
    BY <2>1, <2>3, <2>4 DEF Extending
  <2>20. ASSUME NEW b \in Blk, own0[b] # NIL
         PROVE  own1[b] = own0[b] /\ pos1[b] = pos0[b] /\ Held(d, r)[b] = Held(d, w)[b]
    <3>1. b # e /\ b \in All /\ b # 0
      BY <2>19, <2>20, BlkInAll, Positions DEF Blk
    <3>2. own[b] = own0[b] /\ pos[b] = pos0[b] /\ Held(d, u)[b] = Held(d, w)[b]
      BY <2>20 DEF Extending
    <3> QED
      BY <2>13, <2>17, <3>1, <3>2
  <2>21. ASSUME NEW b \in Blk, own0[b] = NIL, own1[b] # NIL
         PROVE  /\ own1[b] = s /\ pos1[b] \in len0[s] + 1 .. k + 1
                /\ Held(d, r)[b] = DataBlock(binary, pos1[b] - 1)
    <3>1. b \in All /\ b # 0 /\ len0[s] \in Nat
      BY BlkInAll, Positions DEF Blk, Typed
    <3>2. CASE b = e
      <4>1. pos1[b] - 1 = k /\ pos1[b] \in len0[s] + 1 .. k + 1
        BY <2>17, <3>1, <3>2
      <4> QED
        BY <2>13, <2>17, <3>1, <3>2, <4>1
    <3>3. CASE b # e
      <4>1. own1[b] = own[b] /\ pos1[b] = pos[b] /\ Held(d, r)[b] = Held(d, u)[b]
        BY <2>13, <2>17, <3>1, <3>3
      <4>2. own[b] = s /\ pos[b] \in len0[s] + 1 .. k /\ Held(d, u)[b] = DataBlock(binary, pos[b] - 1)
        BY <2>21, <4>1 DEF Extending
      <4> QED
        BY <3>1, <4>1, <4>2
    <3> QED
      BY <3>2, <3>3
  <2>22. Held(d, r)[0] = [free |-> r.free]
    BY <2>12, <2>13, Positions DEF All
  <2>23. r.free = Cardinality(Vacant(r.fat))
    BY <2>10, <2>12
  <2>24. Extending(d, w, r, own0, len0, pos0, s, binary, k + 1, own1, len1, pos1)
    <3>1. r.at \in Blk /\ own1[r.at] = s /\ pos1[r.at] = k + 1 /\ Layout(r.fat, own1, len1, pos1, r.at)
      BY <2>1, <2>12, <2>16, <2>17
    <3>2. r \in Works /\ ~r.bad
      BY <1>0, <2>12
    <3> QED
      BY <2>15, <2>18, <2>20, <2>21, <2>22, <2>23, <3>1, <3>2 DEF Extending
  <2> QED
    BY <2>24
<1> QED
  BY <1>2, <1>3

LEMMA ExtendLoop ==
  ASSUME Persisted = Blocks, NEW d, IsDisk(d), NEW w,
         NEW own0, NEW len0, NEW pos0, NEW s \in Blk, Typed(own0, len0, pos0), own0[s] = s,
         NEW binary \in Seq(Byte), NEW n \in Nat, len0[s] <= n,
         Extending(d, w, w, own0, len0, pos0, s, binary, len0[s], own0, len0, pos0),
         NEW r, r = Repeat("extend", w, binary, len0[s], n)
  PROVE  \/ r \in Works /\ r.bad
         \/ \E own, len, pos : Extending(d, w, r, own0, len0, pos0, s, binary, n, own, len, pos)
<1>0. PICK m \in Nat : m = len0[s]
  BY DEF Typed
<1>1. PICK f : /\ f[m] = w
               /\ \A k \in Nat : m <= k /\ k + 1 <= n => f[k + 1] = LoopStep("extend", f[k], binary, k)
               /\ r = f[n]
  BY <1>0, LoopSteps
<1> DEFINE Sofar(u, k) ==
             (u \in Works /\ u.bad) \/ \E own, len, pos : Extending(d, w, u, own0, len0, pos0, s, binary, k, own, len, pos)
           T == {i \in Nat : m + i <= n => Sofar(f[m + i], m + i)}
<1>2. 0 \in T
  <2>1. m + 0 = m
    BY <1>0
  <2>2. Sofar(w, m)
    BY <1>0
  <2> HIDE DEF Sofar
  <2> QED
    BY <1>1, <2>1, <2>2
<1>3. ASSUME NEW i \in T
      PROVE  i + 1 \in T
  <2>1. SUFFICES ASSUME m + (i + 1) <= n
                 PROVE  Sofar(f[m + (i + 1)], m + (i + 1))
    <3> HIDE DEF Sofar
    <3> QED
      BY <1>3
  <2>2. PICK k \in Nat : k = m + i
    BY <1>0, <1>3
  <2>3. m <= k /\ k + 1 <= n /\ m + (i + 1) = k + 1
    BY <1>0, <1>3, <2>1, <2>2
  <2>4. Sofar(f[k], k)
    <3> HIDE DEF Sofar
    <3> QED
      BY <1>0, <1>3, <2>2, <2>3
  <2>5. PICK u, y : u = f[k] /\ y = f[k + 1]
    OBVIOUS
  <2>6. y = LoopStep("extend", u, binary, k)
    BY <1>1, <2>3, <2>5
  <2>7. CASE u.bad
    <3>1. y = u
      BY <2>6, <2>7 DEF LoopStep
    <3>2. u \in Works
      BY <2>4, <2>5, <2>7 DEF Extending
    <3>3. Sofar(y, k + 1)
      BY <2>7, <3>1, <3>2
    <3> HIDE DEF Sofar
    <3> QED
      BY <2>3, <2>5, <3>3
  <2>8. CASE ~u.bad
    <3>1. PICK own, len, pos : Extending(d, w, u, own0, len0, pos0, s, binary, k, own, len, pos)
      BY <2>4, <2>5, <2>8
    <3>2. y = Extend(u, binary, k)
      BY <2>6, <2>8 DEF LoopStep, Step
    <3>3. Sofar(y, k + 1)
      BY <1>0, <2>3, <3>1, <3>2, ExtendOne
    <3> HIDE DEF Sofar
    <3> QED
      BY <2>3, <2>5, <3>3
  <2> QED
    BY <2>7, <2>8
<1>4. T = Nat
  <2> HIDE DEF T
  <2>1. T \in SUBSET Nat
    BY DEF T
  <2> QED
    BY <1>2, <1>3, <2>1, NatSteps
<1>5. PICK i \in Nat : i = n - m
  BY <1>0
<1>6. m + i = n
  BY <1>0, <1>5
<1>7. Sofar(f[n], n)
  <2> HIDE DEF Sofar
  <2>1. Sofar(f[m + i], m + i)
    <3>1. i \in T
      BY <1>4
    <3>2. m + i <= n
      BY <1>6
    <3> QED
      BY <3>1, <3>2
  <2> QED
    BY <1>6, <2>1
<1> QED
  BY <1>1, <1>7

-----------------------------------------------------------------------------
(* Freeing blocks.                                                         *)

(* The entries of a table in which block e no longer follows block a.      *)
UnlinkedFrom(fat, new, a, e) ==
  /\ new \in [All -> Entry]
  /\ ~new[e].occupied /\ new[a].next = NIL
  /\ \A c \in All : c # e => (new[c].occupied <=> fat[c].occupied)
  /\ \A c \in All : c # a => new[c].next = fat[c].next

LEMMA ReleaseFat ==
  ASSUME Persisted = Blocks, NEW fat \in [All -> Entry], NEW a \in Blk, NEW e \in Blk, a # e,
         NEW mid, mid = [fat EXCEPT ![a].next = NIL],
         NEW new, new = [mid EXCEPT ![e].occupied = FREE]
  PROVE  UnlinkedFrom(fat, new, a, e)
<1>1. a \in All /\ e \in All /\ NIL \in NIL .. Blocks - 1
  BY BlkInAll, Positions DEF Blk, NIL
<1>2. mid \in [All -> Entry]
  <2>1. \A c \in All : mid[c] \in Entry
    BY <1>1 DEF Entry
  <2>2. DOMAIN mid = All /\ mid = [c \in All |-> mid[c]]
    OBVIOUS
  <2> QED
    BY <2>1, <2>2
<1>3. \A c \in All : mid[c].occupied = fat[c].occupied /\ (c # a => mid[c].next = fat[c].next)
  BY <1>1 DEF Entry
<1>4. mid[a].next = NIL
  BY <1>1 DEF Entry
<1>5. new \in [All -> Entry]
  <2>1. \A c \in All : new[c] \in Entry
    BY <1>1, <1>2 DEF Entry, FREE
  <2>2. DOMAIN new = All /\ new = [c \in All |-> new[c]]
    BY <1>2
  <2> QED
    BY <2>1, <2>2
<1>6. new[e].occupied = FALSE /\ new[a].next = NIL
  BY <1>1, <1>2, <1>4 DEF Entry, FREE
<1>7. \A c \in All : new[c].next = mid[c].next /\ (c # e => new[c].occupied = mid[c].occupied)
  BY <1>1, <1>2 DEF Entry
<1>8. ~new[e].occupied
  BY <1>6
<1>9. ASSUME NEW c \in All
      PROVE  /\ c # e => (new[c].occupied <=> fat[c].occupied)
             /\ c # a => new[c].next = fat[c].next
  BY <1>3, <1>7
<1> QED
  BY <1>5, <1>6, <1>8, <1>9 DEF UnlinkedFrom

Unlinking(u, e) == [u EXCEPT !.fat[u.at].next = NIL, !.fat[e].occupied = FREE, !.at = e]

LEMMA ReleaseWork ==
  ASSUME Persisted = Blocks, NEW u \in Works, NEW e \in Blk, u.at \in Blk, u.at # e,
         NEW v, v = Unlinking(u, e)
  PROVE  /\ v \in Works /\ v.free = u.free /\ v.out = u.out /\ v.at = e /\ v.bad = u.bad
         /\ UnlinkedFrom(u.fat, v.fat, u.at, e)
<1>1. PICK a \in Blk : a = u.at
  OBVIOUS
<1>2. PICK mid : mid = [u.fat EXCEPT ![a].next = NIL]
  OBVIOUS
<1>3. PICK new : new = [mid EXCEPT ![e].occupied = FREE]
  OBVIOUS
<1>4. v = [fat |-> new, free |-> u.free, out |-> u.out, at |-> e, bad |-> u.bad]
  BY <1>1, <1>2, <1>3 DEF Works, Unlinking
<1>5. u.fat \in [All -> Entry]
  BY WorkFields
<1>6. UnlinkedFrom(u.fat, new, a, e)
  BY <1>1, <1>2, <1>3, <1>5, ReleaseFat
<1>7. v \in Works
  <2>1. new \in [All -> Entry] /\ e \in Int
    BY <1>6, BlkInAll DEF UnlinkedFrom
  <2>2. u.free \in Int /\ u.out \in Seq(Writ) /\ u.bad \in BOOLEAN
    BY WorkFields
  <2> QED
    BY <1>4, <2>1, <2>2 DEF Works
<1>8. v.fat = new
  BY <1>4
<1> QED
  BY <1>1, <1>4, <1>6, <1>7, <1>8

(* The loop that frees blocks: those behind position n up to position i    *)
(* are free.                                                               *)
Releasing(d, w, r, own, pos, s, n, i) ==
  /\ r \in Works /\ ~r.bad
  /\ r.at \in Blk /\ own[r.at] = s /\ pos[r.at] = i
  /\ \A b \in Blk : own[b] = s /\ pos[b] > n /\ pos[b] <= i => ~r.fat[b].occupied
  /\ \A b \in All : ~(b \in Blk /\ own[b] = s /\ pos[b] > n /\ pos[b] <= i) =>
       (r.fat[b].occupied <=> w.fat[b].occupied)
  /\ \A b \in Blk : own[b] = s /\ pos[b] >= n /\ pos[b] < i => r.fat[b].next = NIL
  /\ \A b \in Blk : ~(own[b] = s /\ pos[b] >= n /\ pos[b] < i) => r.fat[b].next = w.fat[b].next
  /\ r.free = Cardinality(Vacant(r.fat))
  /\ Held(d, r)[0] = [free |-> r.free]
  /\ \A c \in All : c # 0 => Held(d, r)[c] = Held(d, w)[c]

LEMMA ReleaseOne ==
  ASSUME Persisted = Blocks, NEW d, IsDisk(d), NEW w,
         NEW own, NEW len, NEW pos, Layout(w.fat, own, len, pos, NIL),
         NEW s \in Blk, own[s] = s, NEW n \in Nat, NEW i \in Nat, n <= i, i < len[s],
         NEW u, Releasing(d, w, u, own, pos, s, n, i),
         NEW r, r = Release(u)
  PROVE  Releasing(d, w, r, own, pos, s, n, i + 1)
<1>1. PICK a \in Blk : a = u.at /\ own[a] = s /\ pos[a] = i
  BY DEF Releasing
<1>2. Typed(own, len, pos) /\ Apart(own, pos) /\ s # NIL /\ u \in Works
  BY NilOutside DEF Layout, Releasing
<1>3. PICK e : e = u.fat[a].next
  OBVIOUS
<1>4. u.fat[a].next = w.fat[a].next
  BY <1>1 DEF Releasing
<1>5. e \in Blk /\ own[e] = s /\ pos[e] = i + 1 /\ e # NIL /\ e # a
  <2>1. Follows(w.fat, own, len, pos, NIL, a)
    BY LayoutAt
  <2>2. a # NIL
    BY NilOutside
  <2> QED
    BY <1>1, <1>2, <1>3, <1>4, <2>1, <2>2, NilOutside DEF Follows
<1>6. PICK v : v = Unlinking(u, e)
  OBVIOUS
<1>7. /\ v \in Works /\ v.free = u.free /\ v.out = u.out /\ v.at = e /\ v.bad = u.bad
      /\ UnlinkedFrom(u.fat, v.fat, a, e)
  BY <1>1, <1>2, <1>5, <1>6, ReleaseWork
<1>8. r = rm_blocks(v, 1)
  BY <1>1, <1>3, <1>5, <1>6 DEF Release, Unlinking
<1>9. a \in All /\ e \in All /\ e # 0
  BY <1>5, BlkInAll, Positions DEF Blk
<1>10. w.fat[e].occupied /\ u.fat[e].occupied
  <2>1. Follows(w.fat, own, len, pos, NIL, e)
    BY <1>5, LayoutAt
  <2>2. w.fat[e].occupied
    BY <1>2, <1>5, <2>1 DEF Follows
  <2>3. ~(pos[e] <= i)
    BY <1>5
  <2> QED
    BY <1>9, <2>2, <2>3 DEF Releasing
<1>11. v.free + 1 = Cardinality(Vacant(v.fat)) /\ v.free + 1 \in -1 .. Blocks
  <2>1. ~v.fat[e].occupied /\ \A b \in All : b # e => (v.fat[b].occupied <=> u.fat[b].occupied)
    BY <1>7 DEF UnlinkedFrom
  <2>2. Cardinality(Vacant(v.fat)) = Cardinality(Vacant(u.fat)) + 1
    BY <1>9, <1>10, <2>1, GiveOne
  <2>3. u.free = Cardinality(Vacant(u.fat))
    BY DEF Releasing
  <2>4. Cardinality(Vacant(v.fat)) \in Nat /\ Cardinality(Vacant(v.fat)) <= Blocks
    BY VacantFinite
  <2> QED
    BY <1>7, <2>2, <2>3, <2>4, Positions
<1>12. /\ r \in Works /\ r.fat = v.fat /\ r.free = v.free + 1 /\ r.at = e /\ r.bad = u.bad
       /\ \A c \in All : Held(d, r)[c] = IF c = 0 THEN [free |-> v.free + 1] ELSE Held(d, u)[c]
  <2>1. /\ r \in Works /\ r.fat = v.fat /\ r.free = v.free + 1 /\ r.at = v.at /\ r.bad = v.bad
        /\ r.out # <<>>
        /\ \A c \in All : Held(d, r)[c] = IF c = 0 THEN [free |-> v.free + 1] ELSE Held(d, v)[c]
    BY <1>7, <1>8, <1>11, RmBlocks
  <2> QED
    BY <1>7, <2>1 DEF Held
<1>13. PICK j \in Nat : j = i + 1
  OBVIOUS
<1>14. \A b \in Blk : pos[b] \in Nat
  BY <1>2 DEF Typed
<1>15. \A b \in Blk : own[b] = s /\ pos[b] = i => b = a
  BY <1>1, <1>2 DEF Apart
<1>16. \A b \in Blk : own[b] = s /\ pos[b] = j => b = e
  BY <1>2, <1>5, <1>13 DEF Apart
<1>17. ASSUME NEW b \in Blk, own[b] = s, pos[b] > n, pos[b] <= j
       PROVE  ~r.fat[b].occupied
  <2>1. CASE b = e
    BY <1>7, <1>12, <2>1 DEF UnlinkedFrom
  <2>2. CASE b # e
    <3>1. pos[b] <= i
      BY <1>13, <1>14, <1>16, <1>17, <2>2
    <3>2. ~u.fat[b].occupied
      BY <1>17, <3>1 DEF Releasing
    <3> QED
      BY <1>7, <1>12, <2>2, <3>2, BlkInAll DEF UnlinkedFrom
  <2> QED
    BY <2>1, <2>2
<1>18. ASSUME NEW b \in All, ~(b \in Blk /\ own[b] = s /\ pos[b] > n /\ pos[b] <= j)
       PROVE  r.fat[b].occupied <=> w.fat[b].occupied
  <2>1. b # e
    BY <1>5, <1>13, <1>18
  <2>2. ~(b \in Blk /\ own[b] = s /\ pos[b] > n /\ pos[b] <= i)
    BY <1>13, <1>14, <1>18
  <2>3. u.fat[b].occupied <=> w.fat[b].occupied
    BY <2>2 DEF Releasing
  <2> QED
    BY <1>7, <1>12, <2>1, <2>3 DEF UnlinkedFrom
<1>19. ASSUME NEW b \in Blk, own[b] = s, pos[b] >= n, pos[b] < j
       PROVE  r.fat[b].next = NIL
  <2>1. CASE b = a
    BY <1>7, <1>12, <2>1 DEF UnlinkedFrom
  <2>2. CASE b # a
    <3>1. pos[b] < i
      BY <1>13, <1>14, <1>15, <1>19, <2>2
    <3>2. u.fat[b].next = NIL
      BY <1>19, <3>1 DEF Releasing
    <3> QED
      BY <1>7, <1>12, <2>2, <3>2, BlkInAll DEF UnlinkedFrom
  <2> QED
    BY <2>1, <2>2
<1>20. ASSUME NEW b \in Blk, ~(own[b] = s /\ pos[b] >= n /\ pos[b] < j)
       PROVE  r.fat[b].next = w.fat[b].next
  <2>1. b # a
    BY <1>1, <1>13, <1>20
  <2>2. ~(own[b] = s /\ pos[b] >= n /\ pos[b] < i)
    BY <1>13, <1>14, <1>20
  <2>3. u.fat[b].next = w.fat[b].next
    BY <2>2 DEF Releasing
  <2> QED
    BY <1>7, <1>12, <2>1, <2>3, BlkInAll DEF UnlinkedFrom
<1>21. r.free = Cardinality(Vacant(r.fat)) /\ Held(d, r)[0] = [free |-> r.free] /\ ~r.bad
  BY <1>11, <1>12, Positions DEF All, Releasing
<1>22. \A c \in All : c # 0 => Held(d, r)[c] = Held(d, w)[c]
  BY <1>12 DEF Releasing
<1>23. r \in Works /\ r.at \in Blk /\ own[r.at] = s /\ pos[r.at] = j
  BY <1>5, <1>12, <1>13
<1>24. Releasing(d, w, r, own, pos, s, n, j)
  BY <1>17, <1>18, <1>19, <1>20, <1>21, <1>22, <1>23 DEF Releasing
<1> QED
  BY <1>13, <1>24

LEMMA ReleaseLoop ==
  ASSUME Persisted = Blocks, NEW d, IsDisk(d), NEW w,
         NEW own, NEW len, NEW pos, Layout(w.fat, own, len, pos, NIL),
         NEW s \in Blk, own[s] = s, NEW n \in Nat, n <= len[s], NEW binary,
         Releasing(d, w, w, own, pos, s, n, n),
         NEW r, r = Repeat("release", w, binary, n, len[s])
  PROVE  Releasing(d, w, r, own, pos, s, n, len[s])
<1>0. PICK m \in Nat : m = len[s]
  BY DEF Layout, Typed
<1>1. PICK f : /\ f[n] = w
               /\ \A k \in Nat : n <= k /\ k + 1 <= m => f[k + 1] = LoopStep("release", f[k], binary, k)
               /\ r = f[m]
  BY <1>0, LoopSteps
<1> DEFINE T == {i \in Nat : n + i <= m => Releasing(d, w, f[n + i], own, pos, s, n, n + i)}
<1>2. 0 \in T
  <2>1. n + 0 = n
    OBVIOUS
  <2> QED
    BY <1>1, <2>1
<1>3. ASSUME NEW i \in T
      PROVE  i + 1 \in T
  <2>1. SUFFICES ASSUME n + (i + 1) <= m
                 PROVE  Releasing(d, w, f[n + (i + 1)], own, pos, s, n, n + (i + 1))
    BY <1>3
  <2>2. PICK k \in Nat : k = n + i
    BY <1>3
  <2>3. n <= k /\ k + 1 <= m /\ n + (i + 1) = k + 1
    BY <1>0, <1>3, <2>1, <2>2
  <2>4. PICK u, y : u = f[k] /\ y = f[k + 1]
    OBVIOUS
  <2>5. Releasing(d, w, u, own, pos, s, n, k)
    <3>1. n + i <= m /\ i \in Nat
      BY <1>0, <1>3, <2>2, <2>3
    <3> QED
      BY <1>3, <2>2, <2>4, <3>1
  <2>6. y = LoopStep("release", u, binary, k)
    BY <1>1, <2>3, <2>4
  <2>7. y = Release(u)
    BY <2>5, <2>6 DEF LoopStep, Step, Releasing
  <2>8. k < len[s]
    BY <1>0, <2>3
  <2>9. Releasing(d, w, y, own, pos, s, n, k + 1)
    BY <2>3, <2>5, <2>7, <2>8, ReleaseOne
  <2> QED
    BY <2>3, <2>4, <2>9
<1>4. T = Nat
  <2> HIDE DEF T
  <2>1. T \in SUBSET Nat
    BY DEF T
  <2> QED
    BY <1>2, <1>3, <2>1, NatSteps
<1>5. PICK i \in Nat : i = m - n
  BY <1>0
<1>6. n + i = m
  BY <1>0, <1>5
<1>7. Releasing(d, w, f[n + i], own, pos, s, n, n + i)
  <2>1. i \in T
    BY <1>4
  <2>2. n + i <= m
    BY <1>6
  <2> QED
    BY <2>1, <2>2
<1> QED
  BY <1>0, <1>1, <1>6, <1>7

-----------------------------------------------------------------------------
(* Metadata on its way to the disk.                                        *)

(* Table, counter and superblock agree, up to the entry of block x.        *)
Settled(d, w, own, len, pos, x) ==
  /\ w \in Works /\ ~w.bad
  /\ Layout(w.fat, own, len, pos, x)
  /\ \A b \in 0 .. ROOT - 1 : w.fat[b].occupied
  /\ w.free = Cardinality(Vacant(w.fat))
  /\ Held(d, w)[0] = [free |-> w.free]

(* vfs_sync_file marks the block of the metadata.                          *)
Marking(w, s) == [w EXCEPT !.at = s, !.fat[s].occupied = OCCUPIED]

Marked(w, v, s) ==
  /\ v \in Works /\ v.free = w.free /\ v.out = w.out /\ v.at = s /\ v.bad = w.bad
  /\ v.fat[s].occupied
  /\ \A c \in All : c # s => (v.fat[c].occupied <=> w.fat[c].occupied)
  /\ \A c \in All : v.fat[c].next = w.fat[c].next

LEMMA MarkWork ==
  ASSUME Persisted = Blocks, NEW w \in Works, NEW s \in Blk, NEW v, v = Marking(w, s)
  PROVE  Marked(w, v, s)
<1>1. s \in All /\ s \in Int
  BY BlkInAll
<1>2. PICK new : new = [w.fat EXCEPT ![s].occupied = OCCUPIED]
  OBVIOUS
<1>3. v = [fat |-> new, free |-> w.free, out |-> w.out, at |-> s, bad |-> w.bad]
  BY <1>2 DEF Works, Marking
<1>4. w.fat \in [All -> Entry]
  BY WorkFields
<1>5. new \in [All -> Entry]
  <2>1. \A c \in All : new[c] \in Entry
    BY <1>1, <1>2, <1>4 DEF Entry, OCCUPIED
  <2>2. DOMAIN new = All /\ new = [c \in All |-> new[c]]
    BY <1>2, <1>4
  <2> QED
    BY <2>1, <2>2
<1>6. new[s].occupied = TRUE
  BY <1>1, <1>2, <1>4 DEF Entry, OCCUPIED
<1>7. \A c \in All : new[c].next = w.fat[c].next /\ (c # s => new[c].occupied = w.fat[c].occupied)
  BY <1>1, <1>2, <1>4 DEF Entry
<1>8. v \in Works
  <2>1. w.free \in Int /\ w.out \in Seq(Writ) /\ w.bad \in BOOLEAN
    BY WorkFields
  <2> QED
    BY <1>1, <1>3, <1>5, <2>1 DEF Works
<1>9. v.fat = new
  BY <1>3
<1> QED
  BY <1>3, <1>6, <1>7, <1>8, <1>9 DEF Marked

(* Metadata is on its way to the disk, and the chain has old blocks.       *)
Headed(d, w, h, own, len, pos, s, meta, old, own0, len0, pos0, x) ==
  /\ Settled(d, h, own0, len0, pos0, x)
  /\ h.at = s /\ own0[s] = s /\ len0 = Put(len, s, old) /\ old \in Nat
  /\ x = NIL \/ (x = s /\ old = 0)
  /\ Held(d, h)[s] = meta
  /\ \A b \in Blk : b # s => /\ own0[b] = own[b] /\ pos0[b] = pos[b]
                             /\ Held(d, h)[b] = Held(d, w)[b]

LEMMA HeadFresh ==
  ASSUME Persisted = Blocks, NEW d, IsDisk(d), NEW w,
         NEW own, NEW len, NEW pos, Settled(d, w, own, len, pos, NIL),
         NEW s \in Blk, own[s] = NIL, NEW meta, BlockOK(s, meta),
         NEW h, h = write_block(Marking(w, s), s, meta, "WRITE")
  PROVE  \E own0, len0, pos0 : Headed(d, w, h, own, len, pos, s, meta, 0, own0, len0, pos0, s)
<1>0. w \in Works /\ ~w.bad /\ Layout(w.fat, own, len, pos, NIL) /\ Typed(own, len, pos)
  BY DEF Settled, Layout
<1>1. PICK v : v = Marking(w, s)
  OBVIOUS
<1>2. Marked(w, v, s)
  BY <1>0, <1>1, MarkWork
<1>3. v \in Works /\ v.free = w.free /\ v.out = w.out /\ v.at = s /\ v.bad = w.bad
  BY <1>2 DEF Marked
<1>4. s \in All /\ s # 0
  BY BlkInAll, Positions DEF Blk
<1>5. ~w.fat[s].occupied
  <2>1. Follows(w.fat, own, len, pos, NIL, s)
    BY <1>0, LayoutAt
  <2> QED
    BY <2>1 DEF Follows
<1>6. v.free - 1 = Cardinality(Vacant(v.fat)) /\ v.free - 1 \in -1 .. Blocks
  <2>1. v.fat[s].occupied /\ \A c \in All : c # s => (v.fat[c].occupied <=> w.fat[c].occupied)
    BY <1>2 DEF Marked
  <2>2. Cardinality(Vacant(v.fat)) = Cardinality(Vacant(w.fat)) - 1
    BY <1>4, <1>5, <2>1, TakeOne
  <2>3. w.free = Cardinality(Vacant(w.fat))
    BY DEF Settled
  <2>4. Cardinality(Vacant(v.fat)) \in Nat /\ Cardinality(Vacant(v.fat)) <= Blocks
    BY VacantFinite
  <2> QED
    BY <1>3, <2>2, <2>3, <2>4, Positions
<1>7. WroteNew(v, h, s, meta)
  BY <1>1, <1>3, <1>4, <1>6, WriteNew
<1>8. h \in Works /\ h.fat = v.fat /\ h.free = v.free - 1 /\ h.at = s /\ ~h.bad
  BY <1>0, <1>3, <1>7 DEF WroteNew
<1>9. ASSUME NEW c \in All
      PROVE  Held(d, h)[c] = IF c = 0 THEN [free |-> v.free - 1]
                             ELSE IF c = s THEN meta ELSE Held(d, w)[c]
  <2>1. Held(d, h)[c] = IF c = 0 THEN [free |-> v.free - 1]
                        ELSE IF c = s THEN meta ELSE Held(d, v)[c]
    BY <1>3, <1>4, <1>6, <1>7, HeldNew
  <2> QED
    BY <1>3, <2>1 DEF Held
<1>10. PICK own0, len0, pos0 : own0 = Put(own, s, s) /\ len0 = Put(len, s, 0) /\ pos0 = Put(pos, s, 0)
  OBVIOUS
<1>11. Layout(h.fat, own0, len0, pos0, s)
  <2>1. h.fat[s].occupied
    BY <1>2, <1>8 DEF Marked
  <2>2. \A b \in Blk : b # s => (h.fat[b].occupied <=> w.fat[b].occupied) /\ h.fat[b].next = w.fat[b].next
    BY <1>2, <1>8, BlkInAll DEF Marked
  <2> QED
    BY <1>0, <1>10, <2>1, <2>2, FreshLayout
<1>12. own0[s] = s /\ \A b \in Blk : b # s => own0[b] = own[b] /\ pos0[b] = pos[b]
  BY <1>0, <1>10 DEF Typed, Put
<1>13. \A b \in 0 .. ROOT - 1 : h.fat[b].occupied
  <2>1. \A b \in 0 .. ROOT - 1 : b \in All /\ b # s
    BY Positions DEF All, Blk
  <2>2. \A b \in 0 .. ROOT - 1 : w.fat[b].occupied
    BY DEF Settled
  <2> QED
    BY <1>2, <1>8, <2>1, <2>2 DEF Marked
<1>14. 0 \in All
  BY Positions DEF All
<1>15. Settled(d, h, own0, len0, pos0, s)
  BY <1>6, <1>8, <1>9, <1>11, <1>13, <1>14 DEF Settled
<1>16. Held(d, h)[s] = meta
  BY <1>4, <1>9
<1>17. \A b \in Blk : b # s => Held(d, h)[b] = Held(d, w)[b]
  <2>1. \A b \in Blk : b \in All /\ b # 0
    BY BlkInAll, Positions DEF Blk
  <2> QED
    BY <1>9, <2>1
<1>18. Headed(d, w, h, own, len, pos, s, meta, 0, own0, len0, pos0, s)
  BY <1>8, <1>10, <1>12, <1>15, <1>16, <1>17 DEF Headed
<1> QED
  BY <1>18

LEMMA HeadOld ==
  ASSUME Persisted = Blocks, NEW d, IsDisk(d), NEW w,
         NEW own, NEW len, NEW pos, Settled(d, w, own, len, pos, NIL),
         NEW s \in Blk, own[s] = s, NEW meta, BlockOK(s, meta),
         NEW h, h = write_block(Marking(w, s), s, meta, "OVERWRITE")
  PROVE  Headed(d, w, h, own, len, pos, s, meta, len[s], own, len, pos, NIL)
<1>0. w \in Works /\ ~w.bad /\ Layout(w.fat, own, len, pos, NIL) /\ Typed(own, len, pos)
  BY DEF Settled, Layout
<1>1. PICK v : v = Marking(w, s)
  OBVIOUS
<1>2. Marked(w, v, s)
  BY <1>0, <1>1, MarkWork
<1>3. v \in Works /\ v.free = w.free /\ v.out = w.out /\ v.at = s /\ v.bad = w.bad
  BY <1>2 DEF Marked
<1>4. s \in All /\ s # 0 /\ 0 \in All
  BY BlkInAll, Positions DEF Blk, All
<1>5. w.fat[s].occupied
  <2>1. Follows(w.fat, own, len, pos, NIL, s)
    BY <1>0, LayoutAt
  <2> QED
    BY <2>1, NilOutside DEF Follows
<1>6. v.fat = w.fat
  <2>1. PICK f, g : f = w.fat /\ g = v.fat /\ f \in [All -> Entry] /\ g \in [All -> Entry]
    BY <1>0, <1>3, WorkFields
  <2>2. \A c \in All : (g[c].occupied <=> f[c].occupied) /\ g[c].next = f[c].next
    BY <1>2, <1>5, <2>1 DEF Marked
  <2>3. \A c \in All : g[c] = f[c]
    BY <2>1, <2>2 DEF Entry
  <2> QED
    BY <2>1, <2>3
<1>7. Wrote(v, h, s, meta)
  BY <1>1, <1>3, <1>4, Overwrite
<1>8. h \in Works /\ h.fat = w.fat /\ h.free = w.free /\ h.at = s /\ ~h.bad
  BY <1>0, <1>3, <1>6, <1>7 DEF Wrote
<1>9. ASSUME NEW c \in All
      PROVE  Held(d, h)[c] = IF c = s THEN meta ELSE Held(d, w)[c]
  <2>1. Held(d, h)[c] = IF c = s THEN meta ELSE Held(d, v)[c]
    BY <1>3, <1>4, <1>7, HeldOne
  <2> QED
    BY <1>3, <2>1 DEF Held
<1>10. Settled(d, h, own, len, pos, NIL)
  BY <1>4, <1>8, <1>9 DEF Settled
<1>11. len = Put(len, s, len[s]) /\ len[s] \in Nat
  BY <1>0 DEF Typed, Put
<1> QED
  BY <1>4, <1>8, <1>9, <1>10, <1>11, BlkInAll DEF Headed

-----------------------------------------------------------------------------
(* The chain gets its length.                                              *)

LEMMA KeptLoop ==
  ASSUME Persisted = Blocks, NEW d, IsDisk(d), NEW h, NEW own, NEW len, NEW pos, NEW x,
         Settled(d, h, own, len, pos, x), NEW s \in Blk, h.at = s, own[s] = s,
         x = NIL \/ (x = s /\ len[s] = 0),
         NEW binary \in Seq(Byte), NEW n \in Nat, n <= len[s]
  PROVE  Rewritten(d, h, Repeat("rewrite", h, binary, 0, n), own, pos, s, binary, n)
<1>0. h \in Works /\ ~h.bad /\ Layout(h.fat, own, len, pos, x) /\ Typed(own, len, pos)
  BY DEF Settled, Layout
<1>1. CASE x = NIL
  BY <1>0, <1>1, RewriteLoop
<1>2. CASE x = s /\ len[s] = 0
  <2>1. n = 0
    BY <1>2
  <2>2. PICK r : r = Repeat("rewrite", h, binary, 0, n)
    OBVIOUS
  <2>3. r = h
    <3>1. PICK f : f[0] = h /\ Repeat("rewrite", h, binary, 0, n) = f[n]
      BY <2>1, LoopSteps
    <3> QED
      BY <2>1, <2>2, <3>1
  <2>4. pos[s] = 0
    <3>1. Follows(h.fat, own, len, pos, x, s)
      BY <1>0, LayoutAt
    <3> QED
      BY <3>1 DEF Follows
  <2>5. Rewritten(d, h, h, own, pos, s, binary, 0)
    <3>1. \A c \in Blk : pos[c] \notin 1 .. 0
      OBVIOUS
    <3> QED
      BY <1>0, <2>4, <3>1 DEF Rewritten
  <2> QED
    BY <2>1, <2>2, <2>3, <2>5
<1> QED
  BY <1>1, <1>2

(* The chain has its new length, and every data block its bytes.           *)
Shaped(d, h, t, s, binary, n, own0, len0, pos0, own1, len1, pos1) ==
  /\ Settled(d, t, own1, len1, pos1, NIL)
  /\ len1 = Put(len0, s, n) /\ own1[s] = s
  /\ Held(d, t)[s] = Held(d, h)[s]
  /\ \A b \in Blk : own0[b] # NIL /\ own0[b] # s =>
       own1[b] = own0[b] /\ pos1[b] = pos0[b] /\ Held(d, t)[b] = Held(d, h)[b]
  /\ \A b \in Blk : own1[b] # NIL /\ own1[b] # s => own1[b] = own0[b]
  /\ \A b \in Blk : own1[b] = s /\ pos1[b] > 0 => Held(d, t)[b] = DataBlock(binary, pos1[b] - 1)

(* The last block of a chain that has not become shorter.                  *)
Ending(u) == [u EXCEPT !.fat[u.at].next = NIL]

EndedBy(u, v) ==
  /\ v \in Works /\ v.free = u.free /\ v.out = u.out /\ v.bad = u.bad
  /\ \A c \in All : (v.fat[c].occupied <=> u.fat[c].occupied)
  /\ \A c \in All : c # u.at => v.fat[c].next = u.fat[c].next
  /\ u.at \in All => v.fat[u.at].next = NIL

LEMMA EndWork ==
  ASSUME Persisted = Blocks, NEW u \in Works, NEW v, v = Ending(u)
  PROVE  EndedBy(u, v)
<1>1. PICK a : a = u.at
  OBVIOUS
<1>2. PICK fat : fat = u.fat /\ fat \in [All -> Entry]
  BY WorkFields
<1>3. PICK new : new = [fat EXCEPT ![a].next = NIL]
  OBVIOUS
<1>4. v = [fat |-> new, free |-> u.free, out |-> u.out, at |-> u.at, bad |-> u.bad]
  BY <1>1, <1>2, <1>3 DEF Works, Ending
<1>5. NIL \in NIL .. Blocks - 1
  BY Positions DEF NIL
<1>6. new \in [All -> Entry]
  <2>1. \A c \in All : new[c] \in Entry
    BY <1>2, <1>3, <1>5 DEF Entry
  <2>2. DOMAIN new = All /\ new = [c \in All |-> new[c]]
    BY <1>2, <1>3
  <2> QED
    BY <2>1, <2>2
<1>7. \A c \in All : new[c].occupied = fat[c].occupied /\ (c # a => new[c].next = fat[c].next)
  BY <1>2, <1>3 DEF Entry
<1>8. a \in All => new[a].next = NIL
  BY <1>2, <1>3 DEF Entry
<1>9. v \in Works
  <2>1. u.free \in Int /\ u.out \in Seq(Writ) /\ u.bad \in BOOLEAN /\ u.at \in Int
    BY WorkFields
  <2> QED
    BY <1>4, <1>6, <2>1 DEF Works
<1>10. v.fat = new
  BY <1>4
<1> QED
  BY <1>1, <1>2, <1>4, <1>7, <1>8, <1>9, <1>10 DEF EndedBy

(* All blocks that stay are written, and the chain may become longer.      *)
GrowReady(d, h, body, s, binary, n, own, len, pos, x) ==
  /\ IsDisk(d) /\ Settled(d, h, own, len, pos, x)
  /\ h.at = s /\ own[s] = s
  /\ x = NIL \/ (x = s /\ len[s] = 0)
  /\ len[s] <= n
  /\ Rewritten(d, h, body, own, pos, s, binary, len[s])
  /\ body = h \/ x = NIL

LEMMA GrowTail ==
  ASSUME Persisted = Blocks, NEW d, NEW h, NEW body, NEW s \in Blk, NEW binary \in Seq(Byte),
         NEW n \in Nat, NEW own, NEW len, NEW pos, NEW x,
         GrowReady(d, h, body, s, binary, n, own, len, pos, x),
         NEW more, more = Repeat("extend", body, binary, len[s], n),
         NEW tail, tail = Ending(more)
  PROVE  \/ tail \in Works /\ tail.bad
         \/ \E own1, len1, pos1 : Shaped(d, h, tail, s, binary, n, own, len, pos, own1, len1, pos1)
<1> /\ IsDisk(d) /\ Settled(d, h, own, len, pos, x) /\ h.at = s /\ own[s] = s
    /\ x = NIL \/ (x = s /\ len[s] = 0)
    /\ len[s] <= n /\ Rewritten(d, h, body, own, pos, s, binary, len[s])
    /\ body = h \/ x = NIL
  BY DEF GrowReady
<1>0. h \in Works /\ ~h.bad /\ Layout(h.fat, own, len, pos, x) /\ Typed(own, len, pos)
  BY DEF Settled, Layout
<1>1. PICK m \in Nat : m = len[s]
  BY <1>0 DEF Typed
<1>2. /\ body \in Works /\ body.fat = h.fat /\ body.free = h.free /\ ~body.bad
      /\ body.at \in Blk /\ own[body.at] = s /\ pos[body.at] = m
  BY <1>1 DEF Rewritten
<1>3. \A c \in All : Held(d, body)[c] = IF c \in Blk /\ own[c] = s /\ pos[c] \in 1 .. m
                                        THEN DataBlock(binary, pos[c] - 1) ELSE Held(d, h)[c]
  BY <1>1 DEF Rewritten
<1>4. Layout(body.fat, own, len, pos, body.at)
  <2>1. CASE x = NIL
    BY <1>0, <1>2, <2>1, OpenLayout
  <2>2. CASE x # NIL
    BY <1>0, <1>2, <2>2
  <2> QED
    BY <2>1, <2>2
<1>5. 0 \in All /\ 0 \notin Blk
  BY Positions DEF All, Blk
<1>6. len = Put(len, s, m)
  BY <1>0, <1>1 DEF Typed, Put
<1>7. Extending(d, body, body, own, len, pos, s, binary, m, own, len, pos)
  <2>1. Held(d, body)[0] = [free |-> body.free]
    BY <1>2, <1>3, <1>5 DEF Settled
  <2>2. /\ \A b \in 0 .. ROOT - 1 : body.fat[b].occupied
        /\ body.free = Cardinality(Vacant(body.fat))
    BY <1>2 DEF Settled
  <2> QED
    BY <1>2, <1>4, <1>6, <2>1, <2>2 DEF Extending
<1>8. \/ more \in Works /\ more.bad
      \/ \E own1, len1, pos1 : Extending(d, body, more, own, len, pos, s, binary, n, own1, len1, pos1)
  BY <1>0, <1>1, <1>7, ExtendLoop
<1>9. CASE more \in Works /\ more.bad
  <2>1. EndedBy(more, tail)
    BY <1>9, EndWork
  <2> QED
    BY <1>9, <2>1 DEF EndedBy
<1>10. ASSUME NEW own1, NEW len1, NEW pos1,
              Extending(d, body, more, own, len, pos, s, binary, n, own1, len1, pos1)
       PROVE  Shaped(d, h, tail, s, binary, n, own, len, pos, own1, len1, pos1)
  <2>1. /\ more \in Works /\ ~more.bad /\ Layout(more.fat, own1, len1, pos1, more.at)
        /\ more.at \in Blk /\ own1[more.at] = s /\ pos1[more.at] = n /\ len1 = Put(len, s, n)
    BY <1>10 DEF Extending
  <2>2. EndedBy(more, tail)
    BY <2>1, EndWork
  <2>3. /\ tail \in Works /\ tail.free = more.free /\ tail.out = more.out /\ ~tail.bad
        /\ \A c \in All : (tail.fat[c].occupied <=> more.fat[c].occupied)
        /\ \A c \in All : c # more.at => tail.fat[c].next = more.fat[c].next
        /\ tail.fat[more.at].next = NIL
    BY <2>1, <2>2, BlkInAll DEF EndedBy
  <2>4. PICK a \in Blk : a = more.at
    BY <2>1
  <2>5. len1[s] = n /\ s # NIL
    BY <1>0, <2>1, NilOutside DEF Typed, Put
  <2>6. Layout(tail.fat, own1, len1, pos1, NIL)
    <3>1. Layout(more.fat, own1, len1, pos1, a) /\ own1[a] # NIL /\ pos1[a] = len1[own1[a]]
      BY <2>1, <2>4, <2>5
    <3>2. \A b \in Blk : (tail.fat[b].occupied <=> more.fat[b].occupied)
                         /\ (b # a => tail.fat[b].next = more.fat[b].next)
      BY <2>3, <2>4, BlkInAll
    <3>3. tail.fat[a].next = NIL
      BY <2>3, <2>4
    <3> QED
      BY <3>1, <3>2, <3>3, CloseLayout
  <2>7. Held(d, tail) = Held(d, more)
    BY <2>3 DEF Held
  <2>8. tail.free = Cardinality(Vacant(tail.fat))
    <3>1. Vacant(tail.fat) = Vacant(more.fat)
      BY <2>3, SameVacant
    <3> QED
      BY <1>10, <2>3, <3>1 DEF Extending
  <2>9. \A b \in 0 .. ROOT - 1 : tail.fat[b].occupied
    <3>1. \A b \in 0 .. ROOT - 1 : b \in All
      BY Positions DEF All
    <3>2. \A b \in 0 .. ROOT - 1 : more.fat[b].occupied
      BY <1>10 DEF Extending
    <3> QED
      BY <2>3, <3>1, <3>2
  <2>10. Held(d, tail)[0] = [free |-> tail.free]
    BY <1>10, <2>3, <2>7 DEF Extending
  <2>11. Settled(d, tail, own1, len1, pos1, NIL)
    BY <2>3, <2>6, <2>8, <2>9, <2>10 DEF Settled
  <2>12. \A b \in Blk : own[b] # NIL => own1[b] = own[b] /\ pos1[b] = pos[b] /\ Held(d, tail)[b] = Held(d, body)[b]
    BY <1>10, <2>7 DEF Extending
  <2>13. \A b \in Blk : own[b] = NIL /\ own1[b] # NIL =>
           own1[b] = s /\ pos1[b] \in m + 1 .. n /\ Held(d, tail)[b] = DataBlock(binary, pos1[b] - 1)
    BY <1>1, <1>10, <2>7 DEF Extending
  <2>14. own1[s] = s /\ Held(d, tail)[s] = Held(d, h)[s]
    <3>1. pos[s] = 0
      <4>1. Follows(h.fat, own, len, pos, x, s)
        BY <1>0, LayoutAt
      <4> QED
        BY <4>1 DEF Follows
    <3>2. Held(d, body)[s] = Held(d, h)[s]
      BY <1>3, <3>1, BlkInAll
    <3> QED
      BY <2>5, <2>12, <3>2
  <2>15. \A b \in Blk : own[b] # NIL /\ own[b] # s => Held(d, body)[b] = Held(d, h)[b]
    BY <1>3, BlkInAll
  <2>16. ASSUME NEW b \in Blk, own1[b] = s, pos1[b] > 0
         PROVE  Held(d, tail)[b] = DataBlock(binary, pos1[b] - 1)
    <3>1. CASE own[b] = NIL
      BY <2>5, <2>13, <2>16, <3>1
    <3>2. CASE own[b] # NIL
      <4>1. own[b] = s /\ pos1[b] = pos[b] /\ Held(d, tail)[b] = Held(d, body)[b]
        BY <2>12, <2>16, <3>2
      <4>2. Follows(h.fat, own, len, pos, x, b) /\ pos[b] \in Nat
        BY <1>0, LayoutAt
      <4>3. pos[b] \in 1 .. m
        BY <1>1, <2>5, <2>16, <4>1, <4>2 DEF Follows
      <4>4. Held(d, body)[b] = DataBlock(binary, pos[b] - 1)
        BY <1>3, <4>1, <4>3, BlkInAll
      <4> QED
        BY <4>1, <4>4
    <3> QED
      BY <3>1, <3>2
  <2>17. \A b \in Blk : own1[b] # NIL /\ own1[b] # s => own1[b] = own[b]
    BY <2>12, <2>13
  <2>18. \A b \in Blk : own[b] # NIL /\ own[b] # s =>
           own1[b] = own[b] /\ pos1[b] = pos[b] /\ Held(d, tail)[b] = Held(d, h)[b]
    BY <2>12, <2>15
  <2> QED
    BY <2>1, <2>11, <2>14, <2>16, <2>17, <2>18 DEF Shaped
<1> QED
  BY <1>8, <1>9, <1>10

LEMMA CutTail ==
  ASSUME Persisted = Blocks, NEW d, IsDisk(d), NEW h, NEW own, NEW len, NEW pos,
         Settled(d, h, own, len, pos, NIL), NEW s \in Blk, h.at = s, own[s] = s,
         NEW binary \in Seq(Byte), NEW n \in Nat, n < len[s],
         NEW body, Rewritten(d, h, body, own, pos, s, binary, n),
         NEW tail, tail = Repeat("release", body, binary, n, len[s])
  PROVE  \E own1, len1, pos1 : Shaped(d, h, tail, s, binary, n, own, len, pos, own1, len1, pos1)
<1>0. h \in Works /\ ~h.bad /\ Layout(h.fat, own, len, pos, NIL) /\ Typed(own, len, pos)
  BY DEF Settled, Layout
<1>1. PICK m \in Nat : m = len[s] /\ n < m /\ n <= m
  BY <1>0 DEF Typed
<1>2. /\ body \in Works /\ body.fat = h.fat /\ body.free = h.free /\ ~body.bad
      /\ body.at \in Blk /\ own[body.at] = s /\ pos[body.at] = n
  BY DEF Rewritten
<1>3. \A c \in All : Held(d, body)[c] = IF c \in Blk /\ own[c] = s /\ pos[c] \in 1 .. n
                                        THEN DataBlock(binary, pos[c] - 1) ELSE Held(d, h)[c]
  BY DEF Rewritten
<1>4. 0 \in All /\ 0 \notin Blk
  BY Positions DEF All, Blk
<1>5. Held(d, body)[0] = [free |-> body.free] /\ body.free = Cardinality(Vacant(body.fat))
  BY <1>2, <1>3, <1>4 DEF Settled
<1>6. Releasing(d, body, body, own, pos, s, n, n)
  <2>1. \A b \in Blk : pos[b] \in Nat
    BY <1>0 DEF Typed
  <2> QED
    BY <1>2, <1>5, <2>1 DEF Releasing
<1>7. Releasing(d, body, tail, own, pos, s, n, m)
  BY <1>0, <1>1, <1>2, <1>6, ReleaseLoop
<1>8. PICK own1, len1 : own1 = CutOwn(own, pos, s, n) /\ len1 = Put(len, s, n)
  OBVIOUS
<1>9. \A b \in Blk : pos[b] \in Nat /\ (own[b] = s => pos[b] <= m)
  <2>1. ASSUME NEW b \in Blk
        PROVE  pos[b] \in Nat /\ (own[b] = s => pos[b] <= m)
    <3>1. Follows(h.fat, own, len, pos, NIL, b) /\ pos[b] \in Nat
      BY <1>0, LayoutAt
    <3>2. s # NIL
      BY NilOutside
    <3> QED
      BY <1>1, <3>1, <3>2 DEF Follows
  <2> QED
    BY <2>1
<1>10. Layout(tail.fat, own1, len1, pos, NIL)
  <2>1. \A b \in Blk : own[b] = s /\ pos[b] > n => ~tail.fat[b].occupied
    BY <1>7, <1>9 DEF Releasing
  <2>2. \A b \in Blk : own[b] = s /\ pos[b] = n => tail.fat[b].next = NIL
    BY <1>1, <1>7, <1>9 DEF Releasing
  <2>3. \A b \in Blk : own[b] # s \/ pos[b] <= n => (tail.fat[b].occupied <=> h.fat[b].occupied)
    BY <1>2, <1>7, <1>9, BlkInAll DEF Releasing
  <2>4. \A b \in Blk : own[b] # s \/ pos[b] < n => tail.fat[b].next = h.fat[b].next
    BY <1>2, <1>7, <1>9 DEF Releasing
  <2>5. n \in 0 .. len[s]
    BY <1>1
  <2> QED
    BY <1>0, <1>8, <2>1, <2>2, <2>3, <2>4, <2>5, CutLayout
<1>11. \A b \in 0 .. ROOT - 1 : tail.fat[b].occupied
  <2>1. \A b \in 0 .. ROOT - 1 : b \in All /\ b \notin Blk
    BY Positions DEF All, Blk
  <2>2. \A b \in 0 .. ROOT - 1 : h.fat[b].occupied
    BY DEF Settled
  <2> QED
    BY <1>2, <1>7, <2>1, <2>2 DEF Releasing
<1>12. Settled(d, tail, own1, len1, pos, NIL)
  BY <1>7, <1>10, <1>11 DEF Settled, Releasing
<1>13. \A c \in All : c # 0 => Held(d, tail)[c] = Held(d, body)[c]
  BY <1>7 DEF Releasing
<1>14. pos[s] = 0
  <2>1. Follows(h.fat, own, len, pos, NIL, s)
    BY <1>0, LayoutAt
  <2> QED
    BY <2>1 DEF Follows
<1>15. \A b \in Blk : b \in All /\ b # 0
  BY <1>4, BlkInAll
<1>16. own1[s] = s /\ Held(d, tail)[s] = Held(d, h)[s]
  BY <1>3, <1>8, <1>13, <1>14, <1>15 DEF CutOwn
<1>17. \A b \in Blk : own[b] # NIL /\ own[b] # s =>
         own1[b] = own[b] /\ pos[b] = pos[b] /\ Held(d, tail)[b] = Held(d, h)[b]
  BY <1>3, <1>8, <1>13, <1>15 DEF CutOwn
<1>18. \A b \in Blk : own1[b] # NIL => own1[b] = own[b]
  BY <1>8 DEF CutOwn
<1>19. ASSUME NEW b \in Blk, own1[b] = s, pos[b] > 0
       PROVE  Held(d, tail)[b] = DataBlock(binary, pos[b] - 1)
  <2>1. own[b] = s /\ pos[b] \in 1 .. n
    BY <1>8, <1>9, <1>19, NilOutside DEF CutOwn
  <2> QED
    BY <1>3, <1>13, <1>15, <2>1
<1>20. Shaped(d, h, tail, s, binary, n, own, len, pos, own1, len1, pos)
  BY <1>8, <1>12, <1>16, <1>17, <1>18, <1>19 DEF Shaped
<1> QED
  BY <1>20

-----------------------------------------------------------------------------
(* vfs_sync_file.                                                          *)

LEMMA TableOnDisk ==
  ASSUME Persisted = Blocks, NEW fat \in [All -> Entry], NEW d,
         \A i \in 1 .. ROOT - 1 : d[i] = TablePart(fat, i)
  PROVE  FatOf(d) = fat
<1>1. ASSUME NEW b \in All
      PROVE  d[b \div EntriesPerBlock + 1][b] = fat[b]
  <2>1. PICK i \in 1 .. ROOT - 1 : i = b \div EntriesPerBlock + 1 /\ b \in FatBlock(i)
    BY TableBlockOf
  <2>2. TablePart(fat, i)[b] = fat[b]
    BY <2>1 DEF TablePart
  <2> QED
    BY <2>1, <2>2
<1>2. DOMAIN fat = All /\ fat = [b \in All |-> fat[b]]
  OBVIOUS
<1>3. FatOf(d) = [b \in All |-> d[b \div EntriesPerBlock + 1][b]]
  BY DEF FatOf, All
<1>4. [b \in All |-> d[b \div EntriesPerBlock + 1][b]] = [b \in All |-> fat[b]]
  BY <1>1
<1> QED
  BY <1>2, <1>3, <1>4

LEMMA MinOfTwo ==
  ASSUME NEW m \in Nat, NEW n \in Nat
  PROVE  Min({m, n}) = IF m <= n THEN m ELSE n
<1>1. PICK S : S = {m, n} /\ S \in SUBSET Nat /\ S # {}
  OBVIOUS
<1>2. Min(S) \in S /\ \A y \in S : Min(S) <= y
  BY <1>1, LeastIsMin
<1>3. PICK k : k = Min(S)
  OBVIOUS
<1>4. (k = m \/ k = n) /\ k <= m /\ k <= n
  BY <1>1, <1>2, <1>3
<1>5. Min({m, n}) = k
  BY <1>1, <1>3
<1> QED
  BY <1>4, <1>5

(* What vfs_sync_file has done once it returns.                            *)
Synced(d, w, r, s, meta, binary, own, len, pos, own1, len1, pos1) ==
  /\ Settled(d, r, own1, len1, pos1, NIL)
  /\ r.out # <<>> /\ FatOf(Held(d, r)) = r.fat
  /\ len1 = Put(len, s, meta.size) /\ own1[s] = s /\ Held(d, r)[s] = meta
  /\ \A b \in Blk : own[b] # NIL /\ own[b] # s =>
       own1[b] = own[b] /\ pos1[b] = pos[b] /\ Held(d, r)[b] = Held(d, w)[b]
  /\ \A b \in Blk : own1[b] # NIL /\ own1[b] # s => own1[b] = own[b]
  /\ \A b \in Blk : own1[b] = s /\ pos1[b] > 0 => Held(d, r)[b] = DataBlock(binary, pos1[b] - 1)

LEMMA TailSaved ==
  ASSUME Persisted = Blocks, NEW d, IsDisk(d), NEW w, NEW h,
         NEW own, NEW len, NEW pos, Typed(own, len, pos), NEW s \in Blk, own[s] = NIL \/ own[s] = s,
         NEW meta, meta.size \in Nat, NEW binary,
         NEW old, NEW own0, NEW len0, NEW pos0, NEW x,
         Headed(d, w, h, own, len, pos, s, meta, old, own0, len0, pos0, x),
         NEW t, NEW own1, NEW len1, NEW pos1,
         Shaped(d, h, t, s, binary, meta.size, own0, len0, pos0, own1, len1, pos1),
         NEW r, r = FAT_write(t, "OVERWRITE")
  PROVE  Synced(d, w, r, s, meta, binary, own, len, pos, own1, len1, pos1)
<1>0. /\ t \in Works /\ ~t.bad /\ Layout(t.fat, own1, len1, pos1, NIL)
      /\ \A b \in 0 .. ROOT - 1 : t.fat[b].occupied
      /\ t.free = Cardinality(Vacant(t.fat)) /\ Held(d, t)[0] = [free |-> t.free]
  BY DEF Shaped, Settled
<1>1. SavedTable(t, r, 0)
  BY <1>0, FatWrite
<1>2. r \in Works /\ r.fat = t.fat /\ r.free = t.free - 0 /\ r.bad = t.bad /\ r.out # <<>>
  BY <1>1 DEF SavedTable
<1>3. r.free = t.free
  <2>1. t.free \in Int
    BY <1>0, WorkFields
  <2> QED
    BY <1>2, <2>1
<1>4. \A c \in All : Held(d, r)[c] = IF c \in 1 .. ROOT - 1 THEN TablePart(t.fat, c)
                       ELSE IF c = 0 /\ 0 > 0 THEN [free |-> t.free - 0] ELSE Held(d, t)[c]
  BY <1>1 DEF SavedTable
<1>5. \A c \in All : c \in 1 .. ROOT - 1 => Held(d, r)[c] = TablePart(t.fat, c)
  BY <1>4
<1>6. \A c \in All : c \notin 1 .. ROOT - 1 => Held(d, r)[c] = Held(d, t)[c]
  BY <1>4
<1>7. 0 \in All /\ \A b \in Blk : b \in All /\ b \notin 1 .. ROOT - 1
  BY Positions DEF Blk, All
<1>8. FatOf(Held(d, r)) = r.fat
  <2>1. \A i \in 1 .. ROOT - 1 : i \in All
    BY Positions DEF All
  <2>2. t.fat \in [All -> Entry]
    BY <1>0, WorkFields
  <2>3. FatOf(Held(d, r)) = t.fat
    BY <1>5, <2>1, <2>2, TableOnDisk
  <2> QED
    BY <1>2, <2>3
<1>9. Settled(d, r, own1, len1, pos1, NIL)
  BY <1>0, <1>2, <1>3, <1>6, <1>7 DEF Settled
<1>10. len1 = Put(len, s, meta.size)
  <2>1. len0 = Put(len, s, old)
    BY DEF Headed
  <2>2. len1 = Put(len0, s, meta.size)
    BY DEF Shaped
  <2> QED
    BY <2>1, <2>2 DEF Put
<1>11. own1[s] = s /\ Held(d, r)[s] = meta
  BY <1>6, <1>7 DEF Shaped, Headed
<1>12. \A b \in Blk : own[b] # NIL /\ own[b] # s =>
       own1[b] = own[b] /\ pos1[b] = pos[b] /\ Held(d, r)[b] = Held(d, w)[b]
  BY <1>6, <1>7 DEF Shaped, Headed
<1>13. \A b \in Blk : own1[b] # NIL /\ own1[b] # s => own1[b] = own[b]
  <2>1. ASSUME NEW b \in Blk, own1[b] # NIL, own1[b] # s
        PROVE  own1[b] = own[b]
    <3>1. own1[b] = own0[b] /\ b # s
      BY <2>1 DEF Shaped
    <3> QED
      BY <3>1 DEF Headed
  <2> QED
    BY <2>1
<1>14. \A b \in Blk : own1[b] = s /\ pos1[b] > 0 => Held(d, r)[b] = DataBlock(binary, pos1[b] - 1)
  BY <1>6, <1>7 DEF Shaped
<1> QED
  BY <1>2, <1>8, <1>9, <1>10, <1>11, <1>12, <1>13, <1>14 DEF Synced

LEMMA FailedTail ==
  ASSUME Persisted = Blocks, NEW t \in Works, t.bad
  PROVE  FAT_write(t, "OVERWRITE").bad
<1>1. PICK r : r = FAT_write(t, "OVERWRITE")
  OBVIOUS
<1>2. SavedTable(t, r, 0)
  BY <1>1, FatWrite
<1> QED
  BY <1>1, <1>2 DEF SavedTable

LEMMA VnodeFields ==
  ASSUME NEW v \in Vnode
  PROVE  /\ v.start \in Blk /\ v.size \in 0 .. Blocks /\ v.eof \in NIL .. Blocks * BlockSize
         /\ v.parent \in Blk /\ v.entries \in Seq(Blk) /\ v.name \in Names
         /\ v.type \in {"V_FILE", "V_DIRECTORY"}
BY DEF Vnode, Blk

LEMMA VnodeOK ==
  ASSUME NEW v \in Vnode, NEW b \in Blk
  PROVE  BlockOK(b, v)
BY VnodeDomain DEF BlockOK, Blk

StartsAt(meta, s) == meta.start = s

(* The intermediate results of vfs_sync_file.                              *)
SyncParts(w, meta, binary, s, n, fresh, old, kept, h, body, more, tail) ==
  /\ s = meta.start /\ n = meta.size /\ fresh = ~w.fat[s].occupied
  /\ old = IF fresh THEN 0 ELSE IF IsVnode(disk[s]) THEN disk[s].size ELSE 0
  /\ kept = Min({old, n})
  /\ h = write_block(Marking(w, s), s, meta, IF fresh THEN "WRITE" ELSE "OVERWRITE")
  /\ body = Repeat("rewrite", h, binary, 0, kept)
  /\ more = Repeat("extend", body, binary, old, n)
  /\ tail = IF old <= n THEN Ending(more) ELSE Repeat("release", body, binary, n, old)

LEMMA SyncSteps ==
  ASSUME NEW w, NEW meta, NEW binary
  PROVE  \E s, n, fresh, old, kept, h, body, more, tail :
           /\ SyncParts(w, meta, binary, s, n, fresh, old, kept, h, body, more, tail)
           /\ vfs_sync_file(w, meta, binary) = FAT_write(tail, "OVERWRITE")
<1> DEFINE s == meta.start
           n == meta.size
           fresh == ~w.fat[s].occupied
           old == IF fresh THEN 0 ELSE IF IsVnode(disk[s]) THEN disk[s].size ELSE 0
           kept == Min({old, n})
           h == write_block(Marking(w, s), s, meta, IF fresh THEN "WRITE" ELSE "OVERWRITE")
           body == Repeat("rewrite", h, binary, 0, kept)
           more == Repeat("extend", body, binary, old, n)
           tail == IF old <= n THEN Ending(more) ELSE Repeat("release", body, binary, n, old)
<1>1. vfs_sync_file(w, meta, binary) = FAT_write(tail, "OVERWRITE")
  BY Zenon DEF vfs_sync_file, Marking, Ending
<1>2. SyncParts(w, meta, binary, s, n, fresh, old, kept, h, body, more, tail)
  BY Zenon DEF SyncParts
<1> HIDE DEF s, n, fresh, old, kept, h, body, more, tail
<1> QED
  BY <1>1, <1>2

(* Metadata of no blocks, as of a new directory, needs no block but its own. *)
LEMMA SyncFresh ==
  ASSUME Persisted = Blocks, IsDisk(disk), NEW w,
         NEW own, NEW len, NEW pos, Settled(disk, w, own, len, pos, NIL),
         NEW meta \in Vnode, NEW s \in Blk, StartsAt(meta, s), own[s] = NIL, meta.size = 0,
         NEW binary, NEW r, r = vfs_sync_file(w, meta, binary)
  PROVE  ~r.bad
<1>0. w \in Works /\ Layout(w.fat, own, len, pos, NIL)
  BY DEF Settled
<1>1. PICK s1, n1, fresh, old, kept, h, body, more, tail :
        /\ SyncParts(w, meta, binary, s1, n1, fresh, old, kept, h, body, more, tail)
        /\ r = FAT_write(tail, "OVERWRITE")
  BY SyncSteps
<1>2. s1 = s
  BY <1>1 DEF SyncParts, StartsAt
<1>3. n1 = 0
  BY <1>1, Zenon DEF SyncParts
<1>4. fresh = ~w.fat[s].occupied
  BY <1>1, <1>2 DEF SyncParts
<1>5. fresh
  <2>1. Follows(w.fat, own, len, pos, NIL, s)
    BY <1>0, LayoutAt
  <2> QED
    BY <1>4, <2>1 DEF Follows
<1>6. old = IF fresh THEN 0 ELSE IF IsVnode(disk[s]) THEN disk[s].size ELSE 0
  BY <1>1, <1>2 DEF SyncParts
<1>7. old = 0
  BY <1>5, <1>6
<1>8. h = write_block(Marking(w, s), s, meta, IF fresh THEN "WRITE" ELSE "OVERWRITE")
  BY <1>1, <1>2 DEF SyncParts
<1>9. h = write_block(Marking(w, s), s, meta, "WRITE")
  BY <1>5, <1>8
<1>10. h \in Works /\ ~h.bad
  <2>1. PICK own0, len0, pos0 : Headed(disk, w, h, own, len, pos, s, meta, 0, own0, len0, pos0, s)
    BY <1>9, HeadFresh, VnodeOK
  <2> QED
    BY <2>1 DEF Headed, Settled
<1>11. kept = Min({0, 0})
  BY <1>1, <1>3, <1>7, Zenon DEF SyncParts
<1>12. kept = 0
  BY <1>11, MinOfTwo
<1>13. body = Repeat("rewrite", h, binary, 0, 0) /\ more = Repeat("extend", body, binary, 0, 0)
  BY <1>1, <1>3, <1>7, <1>12, Zenon DEF SyncParts
<1>14. body = h
  <2>1. PICK f : f[0] = h /\ Repeat("rewrite", h, binary, 0, 0) = f[0]
    BY LoopSteps
  <2> QED
    BY <1>13, <2>1
<1>15. more = h
  <2>1. PICK f : f[0] = body /\ Repeat("extend", body, binary, 0, 0) = f[0]
    BY LoopSteps
  <2> QED
    BY <1>13, <1>14, <2>1
<1>16. tail = IF old <= n1 THEN Ending(more) ELSE Repeat("release", body, binary, n1, old)
  BY <1>1, Zenon DEF SyncParts
<1>17. tail = Ending(h)
  BY <1>3, <1>7, <1>15, <1>16
<1>18. tail \in Works /\ tail.bad = h.bad
  BY <1>10, <1>17, EndWork DEF EndedBy
<1>19. SavedTable(tail, r, 0)
  BY <1>1, <1>18, FatWrite
<1> QED
  BY <1>10, <1>18, <1>19 DEF SavedTable

LEMMA SyncResult ==
  ASSUME Persisted = Blocks, IsDisk(disk), NEW w,
         NEW own, NEW len, NEW pos, Settled(disk, w, own, len, pos, NIL),
         NEW meta \in Vnode, NEW s \in Blk, StartsAt(meta, s),
         own[s] = NIL \/ (own[s] = s /\ IsVnode(disk[s]) /\ disk[s].size = len[s]),
         NEW binary \in Seq(Byte), NEW r, r = vfs_sync_file(w, meta, binary)
  PROVE  \/ r.bad
         \/ \E own1, len1, pos1 :
              Synced(disk, w, r, s, meta, binary, own, len, pos, own1, len1, pos1)
<1>0. w \in Works /\ ~w.bad /\ Layout(w.fat, own, len, pos, NIL) /\ Typed(own, len, pos)
  BY DEF Settled, Layout
<1>1. PICK s1, n1, fresh, old, kept1, h, body, more, tail :
        /\ SyncParts(w, meta, binary, s1, n1, fresh, old, kept1, h, body, more, tail)
        /\ r = FAT_write(tail, "OVERWRITE")
  BY SyncSteps
<1>c. s1 = s
  BY <1>1 DEF SyncParts, StartsAt
<1>f. n1 = meta.size
  BY <1>1, Zenon DEF SyncParts
<1>d. PICK n \in Nat : n = meta.size
  BY VnodeFields, Positions
<1>e. n1 = n
  BY <1>d, <1>f
<1>2. Follows(w.fat, own, len, pos, NIL, s) /\ len[s] \in Nat /\ s # NIL
  BY <1>0, LayoutAt, NilOutside
<1>3. fresh = ~w.fat[s].occupied
  BY <1>1, <1>c DEF SyncParts
<1>4. fresh <=> own[s] = NIL
  BY <1>2, <1>3 DEF Follows
<1>5. old = IF fresh THEN 0 ELSE IF IsVnode(disk[s]) THEN disk[s].size ELSE 0
  BY <1>1, <1>c DEF SyncParts
<1>6. old = IF own[s] = NIL THEN 0 ELSE len[s]
  BY <1>2, <1>4, <1>5
<1>7. h = write_block(Marking(w, s), s, meta, IF fresh THEN "WRITE" ELSE "OVERWRITE")
  BY <1>1, <1>c DEF SyncParts
<1>8. BlockOK(s, meta)
  BY VnodeOK
<1>9. PICK own0, len0, pos0, x : Headed(disk, w, h, own, len, pos, s, meta, old, own0, len0, pos0, x)
  <2>1. CASE own[s] = NIL
    <3>1. h = write_block(Marking(w, s), s, meta, "WRITE") /\ old = 0
      BY <1>4, <1>6, <1>7, <2>1
    <3> QED
      BY <1>8, <2>1, <3>1, HeadFresh
  <2>2. CASE own[s] # NIL
    <3>1. h = write_block(Marking(w, s), s, meta, "OVERWRITE") /\ old = len[s] /\ own[s] = s
      BY <1>4, <1>6, <1>7, <2>2
    <3>2. Headed(disk, w, h, own, len, pos, s, meta, len[s], own, len, pos, NIL)
      BY <1>8, <3>1, HeadOld
    <3> QED
      BY <3>1, <3>2
  <2> QED
    BY <2>1, <2>2
<1>10. len0[s] = old /\ old \in Nat /\ (x = NIL \/ (x = s /\ old = 0))
  <2>1. len0 = Put(len, s, old) /\ old \in Nat /\ (x = NIL \/ (x = s /\ old = 0))
    BY <1>9 DEF Headed
  <2> QED
    BY <1>0, <2>1 DEF Typed, Put
<1>11. Settled(disk, h, own0, len0, pos0, x) /\ h.at = s /\ own0[s] = s
  BY <1>9 DEF Headed
<1>a. x = NIL \/ (x = s /\ len0[s] = 0)
  BY <1>10
<1>12. kept1 = IF old <= n THEN old ELSE n
  <2>1. kept1 = Min({old, n})
    BY <1>1, <1>e, Zenon DEF SyncParts
  <2> QED
    BY <1>10, <2>1, MinOfTwo
<1>13. PICK kept \in Nat : kept = kept1 /\ kept <= old /\ kept <= n /\ (kept = old \/ kept = n)
  BY <1>10, <1>12
<1>b. kept <= len0[s]
  BY <1>10, <1>13
<1>15. body = Repeat("rewrite", h, binary, 0, kept) /\ more = Repeat("extend", body, binary, old, n)
  BY <1>1, <1>13, <1>e, Zenon DEF SyncParts
<1>14. Rewritten(disk, h, body, own0, pos0, s, binary, kept)
  BY <1>11, <1>a, <1>b, <1>15, KeptLoop
<1>16. tail = IF old <= n THEN Ending(more) ELSE Repeat("release", body, binary, n, old)
  BY <1>1, <1>e, Zenon DEF SyncParts
<1>17. r = FAT_write(tail, "OVERWRITE")
  BY <1>1
<1>18. \/ tail \in Works /\ tail.bad
       \/ \E own1, len1, pos1 : Shaped(disk, h, tail, s, binary, n, own0, len0, pos0, own1, len1, pos1)
  <2>1. CASE old <= n
    <3>1. tail = Ending(more)
      BY <1>16, <2>1
    <3>2. body = h \/ x = NIL
      <4>1. CASE x = NIL
        BY <4>1
      <4>2. CASE x # NIL
        <5>1. kept = 0
          BY <1>10, <1>13, <4>2
        <5>2. PICK f : f[0] = h /\ Repeat("rewrite", h, binary, 0, 0) = f[0]
          BY LoopSteps
        <5> QED
          BY <1>15, <5>1, <5>2
      <4> QED
        BY <4>1, <4>2
    <3>3. Rewritten(disk, h, body, own0, pos0, s, binary, len0[s])
      <4>1. kept = len0[s]
        BY <1>10, <1>13, <1>12, <2>1
      <4> QED
        BY <1>14, <4>1
    <3>4. more = Repeat("extend", body, binary, len0[s], n)
      BY <1>10, <1>15
    <3>5. len0[s] <= n
      BY <1>10, <2>1
    <3>6. PICK e : e = Ending(more)
      OBVIOUS
    <3>7. \/ e \in Works /\ e.bad
          \/ \E own1, len1, pos1 : Shaped(disk, h, e, s, binary, n, own0, len0, pos0, own1, len1, pos1)
      <4>1. GrowReady(disk, h, body, s, binary, n, own0, len0, pos0, x)
        BY <1>11, <1>a, <3>2, <3>3, <3>5 DEF GrowReady
      <4> QED
        BY <3>4, <3>6, <4>1, GrowTail
    <3> QED
      BY <3>1, <3>6, <3>7
  <2>2. CASE ~(old <= n)
    <3>1. kept = n /\ n < len0[s]
      BY <1>10, <1>12, <1>13, <2>2
    <3>2. tail = Repeat("release", body, binary, n, len0[s])
      BY <1>10, <1>16, <2>2
    <3>3. Rewritten(disk, h, body, own0, pos0, s, binary, n)
      BY <1>14, <3>1
    <3>4. Settled(disk, h, own0, len0, pos0, NIL)
      <4>1. x = NIL
        BY <1>10, <2>2, <1>d
      <4> QED
        BY <1>11, <4>1
    <3>5. n < len0[s]
      BY <3>1
    <3> QED
      BY <1>11, <3>2, <3>3, <3>4, <3>5, CutTail
  <2> QED
    BY <2>1, <2>2
<1>19. CASE tail \in Works /\ tail.bad
  BY <1>17, <1>19, FailedTail
<1>20. ASSUME NEW own1, NEW len1, NEW pos1,
              Shaped(disk, h, tail, s, binary, n, own0, len0, pos0, own1, len1, pos1)
       PROVE  Synced(disk, w, r, s, meta, binary, own, len, pos, own1, len1, pos1)
  <2>1. own[s] = NIL \/ own[s] = s
    OBVIOUS
  <2>2. Shaped(disk, h, tail, s, binary, meta.size, own0, len0, pos0, own1, len1, pos1) /\ meta.size \in Nat
    BY <1>d, <1>20
  <2> QED
    BY <1>0, <1>9, <1>17, <2>1, <2>2, TailSaved
<1> QED
  BY <1>18, <1>19, <1>20

-----------------------------------------------------------------------------
(* Searching.                                                              *)

(* Joining sequences.                                                      *)
IsFlatRun(f, seqs, n) ==
  f = [i \in 1 .. n |-> IF i = 1 THEN seqs[i] ELSE f[i - 1] \o seqs[i]]

LEMMA FlatRun ==
  ASSUME NEW seqs, NEW n \in Nat
  PROVE  \E f : IsFlatRun(f, seqs, n)
<1> DEFINE Body(f, m) == [i \in 1 .. m |-> IF i = 1 THEN seqs[i] ELSE f[i - 1] \o seqs[i]]
           T == {m \in Nat : \E f : f = Body(f, m)}
<1>1. 0 \in T
  <2>1. PICK f : f = [i \in 1 .. 0 |-> seqs[i]]
    OBVIOUS
  <2>2. f = Body(f, 0)
    BY <2>1
  <2> QED
    BY <2>2
<1>2. ASSUME NEW m \in T
      PROVE  m + 1 \in T
  <2>1. PICK f : f = Body(f, m)
    BY <1>2
  <2>2. PICK g : g = [i \in 1 .. m + 1 |-> IF i = m + 1
                                           THEN (IF i = 1 THEN seqs[i] ELSE f[m] \o seqs[i])
                                           ELSE f[i]]
    OBVIOUS
  <2>3. m \in Nat
    BY <1>2
  <2>4. \A i \in 1 .. m : f[i] = IF i = 1 THEN seqs[i] ELSE f[i - 1] \o seqs[i]
    BY <2>1
  <2>5. \A i \in 1 .. m : g[i] = f[i]
    BY <2>2, <2>3
  <2>6. \A i \in 1 .. m + 1 : g[i] = IF i = 1 THEN seqs[i] ELSE g[i - 1] \o seqs[i]
    <3>1. TAKE i \in 1 .. m + 1
    <3>2. CASE i = m + 1
      <4>1. i - 1 = m /\ (i # 1 => m \in 1 .. m)
        BY <2>3, <3>2
      <4> QED
        BY <2>2, <2>5, <3>2, <4>1
    <3>3. CASE i # m + 1
      <4>1. i \in 1 .. m /\ (i # 1 => i - 1 \in 1 .. m)
        BY <2>3, <3>3
      <4> QED
        BY <2>4, <2>5, <4>1
    <3> QED
      BY <3>2, <3>3
  <2>7. g = Body(g, m + 1)
    BY <2>2, <2>6
  <2>8. PICK k \in Nat : k = m + 1
    BY <2>3
  <2>9. g = Body(g, k)
    BY <2>7, <2>8
  <2> QED
    BY <2>8, <2>9
<1>3. T = Nat
  <2> HIDE DEF T
  <2>1. T \in SUBSET Nat
    BY DEF T
  <2> QED
    BY <1>1, <1>2, <2>1, NatSteps
<1> QED
  BY <1>3 DEF IsFlatRun

Flattened(r, seqs, n, S) ==
  r \in Seq(S) /\ \A x : x \in ToSet(r) <=> \E i \in 1 .. n : x \in ToSet(seqs[i])

LEMMA ToSetConcat ==
  ASSUME NEW S, NEW s \in Seq(S), NEW t \in Seq(S), NEW r, r = s \o t
  PROVE  r \in Seq(S) /\ \A x : x \in ToSet(r) <=> x \in ToSet(s) \/ x \in ToSet(t)
<1>1. PICK m \in Nat : m = Len(s) /\ DOMAIN s = 1 .. m
  BY LenProperties
<1>2. PICK n \in Nat : n = Len(t) /\ DOMAIN t = 1 .. n
  BY LenProperties
<1>3. /\ r \in Seq(S) /\ Len(r) = m + n
      /\ \A i \in 1 .. m + n : r[i] = IF i <= m THEN s[i] ELSE t[i - m]
  BY <1>1, <1>2, ConcatProperties
<1>4. DOMAIN r = 1 .. m + n
  BY <1>3, LenProperties
<1>5. ASSUME NEW x, x \in ToSet(r)
      PROVE  x \in ToSet(s) \/ x \in ToSet(t)
  <2>1. PICK i \in 1 .. m + n : x = r[i]
    BY <1>4, <1>5 DEF ToSet
  <2>2. CASE i <= m
    <3>1. i \in DOMAIN s /\ x = s[i]
      BY <1>1, <1>3, <2>1, <2>2
    <3> QED
      BY <3>1 DEF ToSet
  <2>3. CASE ~(i <= m)
    <3>1. i - m \in DOMAIN t /\ x = t[i - m]
      BY <1>2, <1>3, <2>1, <2>3
    <3> QED
      BY <3>1 DEF ToSet
  <2> QED
    BY <2>2, <2>3
<1>6. ASSUME NEW x, x \in ToSet(s)
      PROVE  x \in ToSet(r)
  <2>1. PICK i \in 1 .. m : x = s[i]
    BY <1>1, <1>6 DEF ToSet
  <2>2. i \in DOMAIN r /\ r[i] = x
    BY <1>3, <1>4, <2>1
  <2> QED
    BY <2>2 DEF ToSet
<1>7. ASSUME NEW x, x \in ToSet(t)
      PROVE  x \in ToSet(r)
  <2>1. PICK i \in 1 .. n : x = t[i]
    BY <1>2, <1>7 DEF ToSet
  <2>2. PICK j : j = m + i
    OBVIOUS
  <2>3. j \in 1 .. m + n /\ ~(j <= m) /\ j - m = i
    BY <2>2
  <2>4. j \in DOMAIN r /\ r[j] = x
    BY <1>3, <1>4, <2>1, <2>3
  <2> QED
    BY <2>4 DEF ToSet
<1> QED
  BY <1>3, <1>5, <1>6, <1>7

LEMMA FlattenOf ==
  ASSUME NEW S, NEW n \in Nat, NEW seqs, seqs \in Seq(Seq(S)), Len(seqs) = n
  PROVE  Flattened(FlattenSeq(seqs), seqs, n, S)
<1>1. DOMAIN seqs = 1 .. n /\ \A i \in 1 .. n : seqs[i] \in Seq(S)
  BY LenProperties, ElementOfSeq
<1>2. CASE n = 0
  <2>1. FlattenSeq(seqs) = seqs
    BY <1>2 DEF FlattenSeq
  <2>2. seqs = <<>>
    BY <1>2, EmptySeq
  <2>3. <<>> \in Seq(S) /\ ToSet(<<>>) = {}
    BY EmptySeq DEF ToSet
  <2> QED
    BY <1>2, <2>1, <2>2, <2>3 DEF Flattened
<1>3. CASE n # 0
  <2> DEFINE Body(f) == [i \in 1 .. Len(seqs) |-> IF i = 1 THEN seqs[i] ELSE f[i - 1] \o seqs[i]]
             done == CHOOSE f : f = Body(f)
             T == {k \in Nat : k + 1 <= n => Flattened(done[k + 1], seqs, k + 1, S)}
  <2>1. \E f : f = Body(f)
    BY FlatRun DEF IsFlatRun
  <2>2. done = Body(done)
    BY <2>1
  <2>3. FlattenSeq(seqs) = done[n]
    BY <1>3 DEF FlattenSeq
  <2> HIDE DEF done
  <2>4. \A i \in 1 .. n : done[i] = IF i = 1 THEN seqs[i] ELSE done[i - 1] \o seqs[i]
    BY <2>2
  <2>5. 0 \in T
    <3>1. 1 \in 1 .. n /\ done[1] = seqs[1] /\ seqs[1] \in Seq(S)
      BY <1>1, <1>3, <2>4
    <3> QED
      BY <3>1 DEF Flattened
  <2>6. ASSUME NEW k \in T
        PROVE  k + 1 \in T
    <3>1. SUFFICES ASSUME k + 1 + 1 <= n
                   PROVE  Flattened(done[k + 1 + 1], seqs, k + 1 + 1, S)
      BY <2>6
    <3>2. PICK j \in Nat : j = k + 1
      BY <2>6
    <3>3. Flattened(done[j], seqs, j, S)
      BY <2>6, <3>1, <3>2
    <3>4. j + 1 \in 1 .. n /\ j + 1 # 1 /\ (j + 1) - 1 = j
      BY <2>6, <3>1, <3>2
    <3>5. PICK r, s, t : r = done[j + 1] /\ s = done[j] /\ t = seqs[j + 1]
      OBVIOUS
    <3>6. r = s \o t /\ s \in Seq(S) /\ t \in Seq(S)
      BY <1>1, <2>4, <3>3, <3>4, <3>5 DEF Flattened
    <3>7. r \in Seq(S) /\ \A x : x \in ToSet(r) <=> x \in ToSet(s) \/ x \in ToSet(t)
      BY <3>6, ToSetConcat
    <3>8. \A x : x \in ToSet(s) <=> \E i \in 1 .. j : x \in ToSet(seqs[i])
      BY <3>3, <3>5 DEF Flattened
    <3>9. \A i : i \in 1 .. j + 1 <=> i \in 1 .. j \/ i = j + 1
      OBVIOUS
    <3>10. Flattened(r, seqs, j + 1, S)
      BY <3>5, <3>7, <3>8, <3>9 DEF Flattened
    <3> QED
      BY <3>2, <3>5, <3>10
  <2>7. T = Nat
    <3> HIDE DEF T
    <3>1. T \in SUBSET Nat
      BY DEF T
    <3> QED
      BY <2>5, <2>6, <3>1, NatSteps
  <2>8. Flattened(done[n], seqs, n, S)
    <3>1. n - 1 \in T /\ (n - 1) + 1 = n
      <4> HIDE DEF T
      <4> QED
        BY <1>3, <2>7
    <3> QED
      BY <3>1
  <2> QED
    BY <2>3, <2>8
<1> QED
  BY <1>2, <1>3

(* The directory tree.  N are the blocks of metadata, and rank is the      *)
(* depth of each below the root directory.                                 *)
Node(d, N, rank, b) ==
  /\ d[b] \in Vnode /\ d[b].start = b
  /\ b # ROOT => /\ d[b].parent \in N
                 /\ rank[b] = rank[d[b].parent] + 1
                 /\ \E i \in DOMAIN d[d[b].parent].entries : d[d[b].parent].entries[i] = b
  /\ \A i \in DOMAIN d[b].entries :
       d[b].entries[i] \in N /\ d[b].entries[i] # ROOT /\ d[d[b].entries[i]].parent = b
  /\ \A i, j \in DOMAIN d[b].entries : d[b].entries[i] = d[b].entries[j] => i = j
  /\ d[b].type = "V_FILE" => /\ d[b].entries = <<>> /\ d[b].name \in FileNames
                             /\ d[b].eof \in 0 .. d[b].size * BlockSize

RootNode(d, N, rank) ==
  /\ ROOT \in N /\ rank[ROOT] = 0
  /\ d[ROOT].name = Slash /\ d[ROOT].type = "V_DIRECTORY" /\ d[ROOT].parent = ROOT

UniqueNames(d, N) == \A b, c \in N : d[b].name = d[c].name => b = c

Tree(d, N, rank) ==
  /\ N \subseteq Blk /\ rank \in [Blk -> Nat]
  /\ RootNode(d, N, rank)
  /\ \A b \in N : Node(d, N, rank, b)
  /\ UniqueNames(d, N)

LEMMA TreeNode ==
  ASSUME NEW d, NEW N, NEW rank, Tree(d, N, rank), NEW b \in N
  PROVE  /\ b \in Blk /\ rank[b] \in Nat /\ Node(d, N, rank, b)
         /\ d[b] \in Vnode /\ IsVnode(d[b]) /\ d[b].start = b /\ d[b].entries \in Seq(Blk)
<1>1. b \in Blk /\ rank[b] \in Nat /\ Node(d, N, rank, b)
  BY DEF Tree
<1>2. d[b] \in Vnode /\ d[b].start = b
  BY <1>1 DEF Node
<1>3. IsVnode(d[b]) /\ d[b].entries \in Seq(Blk)
  BY <1>2, VnodeDomain, VnodeFields
<1> QED
  BY <1>1, <1>2, <1>3

(* Above every node there is one of each smaller depth.                    *)
LEMMA Ancestors ==
  ASSUME NEW d, NEW N, NEW rank, Tree(d, N, rank), NEW r \in Nat,
         \E c \in N : rank[c] = r
  PROVE  \A j \in 0 .. r : \E b \in N : rank[b] = j
<1> DEFINE T == {k \in Nat : k <= r => \E b \in N : rank[b] = r - k}
<1>1. 0 \in T
  OBVIOUS
<1>2. ASSUME NEW k \in T
      PROVE  k + 1 \in T
  <2>1. SUFFICES ASSUME k + 1 <= r
                 PROVE  \E b \in N : rank[b] = r - (k + 1)
    BY <1>2
  <2>2. PICK b \in N : rank[b] = r - k
    BY <1>2, <2>1
  <2>3. rank[b] > 0 /\ r - (k + 1) = rank[b] - 1
    BY <1>2, <2>1, <2>2
  <2>4. b # ROOT
    BY <2>3 DEF Tree, RootNode
  <2>5. d[b].parent \in N /\ rank[b] = rank[d[b].parent] + 1
    BY <2>4, TreeNode DEF Node
  <2>6. rank[d[b].parent] \in Nat
    BY <2>5, TreeNode
  <2> QED
    BY <2>3, <2>5, <2>6
<1>3. T = Nat
  <2> HIDE DEF T
  <2>1. T \in SUBSET Nat
    BY DEF T
  <2> QED
    BY <1>1, <1>2, <2>1, NatSteps
<1>4. ASSUME NEW j \in 0 .. r
      PROVE  \E b \in N : rank[b] = j
  <2>1. PICK k \in Nat : k = r - j
    OBVIOUS
  <2>2. k \in T
    <3> HIDE DEF T
    <3> QED
      BY <1>3
  <2> QED
    BY <2>1, <2>2
<1> QED
  BY <1>4

LEMMA NamesFinite == IsFiniteSet(Names) /\ Depth \in Nat
<1>1. IsFiniteSet(FileNames \cup DirNames)
  BY CallerAssumption, FS_Union
<1>2. IsFiniteSet({Slash})
  BY FS_Singleton
<1>3. IsFiniteSet(Names)
  <2>1. Names = (FileNames \cup DirNames) \cup {Slash}
    BY DEF Names
  <2> QED
    BY <1>1, <1>2, <2>1, FS_Union
<1> QED
  BY <1>3, FS_CardinalityType DEF Depth

LEMMA RankBelow ==
  ASSUME NEW d, NEW N, NEW rank, Tree(d, N, rank), NEW c \in N
  PROVE  rank[c] \in Nat /\ rank[c] < Depth
<1>1. PICK r \in Nat : r = rank[c]
  BY TreeNode
<1>2. \A j \in 0 .. r : \E b \in N : rank[b] = j
  BY <1>1, Ancestors
<1> DEFINE at(j) == CHOOSE b \in N : rank[b] = j
           g == [j \in 0 .. r |-> d[at(j)].name]
<1>3. ASSUME NEW j \in 0 .. r
      PROVE  at(j) \in N /\ rank[at(j)] = j /\ g[j] = d[at(j)].name /\ g[j] \in Names
  <2>1. at(j) \in N /\ rank[at(j)] = j /\ g[j] = d[at(j)].name
    BY <1>2, <1>3
  <2> HIDE DEF g, at
  <2>2. d[at(j)].name \in Names
    <3>1. d[at(j)] \in Vnode
      BY <2>1, TreeNode
    <3> QED
      BY <3>1, VnodeFields
  <2> QED
    BY <2>1, <2>2
<1>4. DOMAIN g = 0 .. r /\ g = [j \in 0 .. r |-> g[j]]
  OBVIOUS
<1> HIDE DEF g, at
<1>5. ASSUME NEW i \in 0 .. r, NEW j \in 0 .. r, g[i] = g[j]
      PROVE  i = j
  <2>1. at(i) = at(j)
    BY <1>3, <1>5 DEF Tree, UniqueNames
  <2> QED
    BY <1>3, <2>1
<1>6. g \in Injection(0 .. r, Names)
  <2>1. g \in [0 .. r -> Names]
    BY <1>3, <1>4
  <2> QED
    BY <1>4, <1>5, <2>1 DEF Injection, IsInjective
<1>7. Cardinality(0 .. r) <= Cardinality(Names)
  BY <1>6, NamesFinite, FS_Injection
<1>8. Cardinality(0 .. r) = r + 1
  BY FS_Interval
<1> QED
  BY <1>1, <1>7, <1>8, NamesFinite DEF Depth

(* rec_search, by the depth that is left.                                  *)
Visit(d, prev, k, b) ==
  IF k = 0 \/ ~IsVnode(d[b]) THEN <<>>
  ELSE <<b>> \o FlattenSeq([i \in DOMAIN d[b].entries |-> prev[d[b].entries[i]]])

Level(d, prev, k) == [b \in All |-> Visit(d, prev, k, b)]

IsVisitRun(f, d, n) == f = [k \in 0 .. n |-> Level(d, f[k - 1], k)]

LEMMA LevelNone ==
  ASSUME NEW d, NEW p, NEW q
  PROVE  Level(d, p, 0) = Level(d, q, 0)
BY DEF Level, Visit

LEMMA VisitRun ==
  ASSUME NEW d, NEW n \in Nat
  PROVE  \E f : IsVisitRun(f, d, n)
<1> DEFINE Body(f, m) == [k \in 0 .. m |-> Level(d, f[k - 1], k)]
           T == {m \in Nat : \E f : f = Body(f, m)}
<1>1. 0 \in T
  <2>1. PICK f : f = [k \in 0 .. 0 |-> Level(d, d, 0)]
    OBVIOUS
  <2>2. \A k \in 0 .. 0 : Level(d, d, 0) = Level(d, f[k - 1], k)
    BY LevelNone
  <2>3. f = Body(f, 0)
    BY <2>1, <2>2
  <2> QED
    BY <2>3
<1>2. ASSUME NEW m \in T
      PROVE  m + 1 \in T
  <2>1. PICK f : f = Body(f, m)
    BY <1>2
  <2>2. PICK g : g = [k \in 0 .. m + 1 |-> IF k = m + 1 THEN Level(d, f[m], k) ELSE f[k]]
    OBVIOUS
  <2>3. m \in Nat
    BY <1>2
  <2>4. \A k \in 0 .. m : f[k] = Level(d, f[k - 1], k)
    BY <2>1
  <2>5. \A k \in 0 .. m : g[k] = f[k]
    BY <2>2, <2>3
  <2>6. ASSUME NEW k \in 0 .. m + 1
        PROVE  g[k] = Level(d, g[k - 1], k)
    <3>1. CASE k = m + 1
      <4>1. k - 1 = m /\ m \in 0 .. m
        BY <2>3, <3>1
      <4> QED
        BY <2>2, <2>5, <3>1, <4>1
    <3>2. CASE k # m + 1 /\ k # 0
      <4>1. k \in 0 .. m /\ k - 1 \in 0 .. m
        BY <2>3, <3>2
      <4> QED
        BY <2>4, <2>5, <4>1
    <3>3. CASE k = 0
      <4>1. 0 \in 0 .. m
        BY <2>3
      <4>2. g[0] = Level(d, f[0 - 1], 0)
        BY <2>4, <2>5, <4>1
      <4> QED
        BY <3>3, <4>2, LevelNone
    <3> QED
      BY <3>1, <3>2, <3>3
  <2>7. PICK j \in Nat : j = m + 1
    BY <2>3
  <2>8. DOMAIN g = 0 .. j /\ g = [k \in 0 .. j |-> g[k]]
    BY <2>2, <2>7
  <2>9. g = Body(g, j)
    BY <2>6, <2>7, <2>8
  <2> QED
    BY <2>7, <2>9
<1>3. T = Nat
  <2> HIDE DEF T
  <2>1. T \in SUBSET Nat
    BY DEF T
  <2> QED
    BY <1>1, <1>2, <2>1, NatSteps
<1> QED
  BY <1>3 DEF IsVisitRun

LEMMA VisitSteps ==
  ASSUME NEW d, ROOT \in All
  PROVE  \E f : /\ \A k \in 0 .. Depth : \A b \in All : f[k][b] = Visit(d, f[k - 1], k, b)
                /\ Walk(d) = f[Depth][ROOT]
<1> DEFINE Body(f) == [k \in 0 .. Depth |->
        [b \in 0 .. Blocks - 1 |->
           IF k = 0 \/ ~IsVnode(d[b]) THEN <<>>
           ELSE <<b>> \o FlattenSeq([i \in DOMAIN d[b].entries |-> f[k - 1][d[b].entries[i]]])]]
           done == CHOOSE f : f = Body(f)
<1>1. \E f : f = Body(f)
  <2>1. \E f : IsVisitRun(f, d, Depth)
    BY VisitRun, NamesFinite
  <2> QED
    BY <2>1 DEF IsVisitRun, Level, Visit, All
<1>2. done = Body(done)
  BY <1>1
<1>3. Walk(d) = done[Depth][ROOT]
  BY DEF Walk
<1> HIDE DEF done
<1>4. ASSUME NEW k \in 0 .. Depth, NEW b \in All
      PROVE  done[k][b] = Visit(d, done[k - 1], k, b)
  <2>1. done[k] = Body(done)[k]
    BY <1>2
  <2> QED
    BY <2>1 DEF Visit, All
<1> QED
  BY <1>3, <1>4

Below(d, prev, b, x) == \E i \in DOMAIN d[b].entries : x \in ToSet(prev[d[b].entries[i]])

LEMMA SingleSet ==
  ASSUME NEW S, NEW b \in S
  PROVE  \E s \in Seq(S) : s = <<b>> /\ \A x : x \in ToSet(s) <=> x = b
<1>1. <<b>> \in Seq(S) /\ DOMAIN <<b>> = 1 .. 1 /\ <<b>>[1] = b
  OBVIOUS
<1>2. ASSUME NEW x
      PROVE  x \in ToSet(<<b>>) <=> x = b
  <2>1. x \in ToSet(<<b>>) => x = b
    BY <1>1 DEF ToSet
  <2>2. 1 \in DOMAIN <<b>>
    BY <1>1
  <2>3. b \in ToSet(<<b>>)
    BY <1>1, <2>2 DEF ToSet
  <2> QED
    BY <2>1, <2>3
<1> QED
  BY <1>1, <1>2

LEMMA VisitOne ==
  ASSUME NEW d, NEW N, NEW rank, Tree(d, N, rank), NEW b \in N, NEW k \in Nat, k # 0,
         NEW prev, \A c \in N : prev[c] \in Seq(N),
         NEW r, r = Visit(d, prev, k, b)
  PROVE  r \in Seq(N) /\ \A x : x \in ToSet(r) <=> x = b \/ Below(d, prev, b, x)
<1>1. PICK es : es = d[b].entries /\ es \in Seq(Blk)
  BY TreeNode
<1>2. PICK n \in Nat : n = Len(es) /\ DOMAIN es = 1 .. n
  BY <1>1, LenProperties
<1>3. PICK seqs : seqs = [i \in DOMAIN es |-> prev[es[i]]]
  OBVIOUS
<1>4. \A i \in 1 .. n : es[i] \in N
  BY <1>1, <1>2, TreeNode DEF Node
<1>5. seqs \in Seq(Seq(N)) /\ Len(seqs) = n /\ \A i \in 1 .. n : seqs[i] = prev[es[i]]
  <2>1. seqs = [i \in 1 .. n |-> prev[es[i]]]
    BY <1>2, <1>3
  <2>2. \A i \in 1 .. n : prev[es[i]] \in Seq(N)
    BY <1>4
  <2>3. seqs \in [1 .. n -> Seq(N)]
    BY <2>1, <2>2
  <2> QED
    BY <2>1, <2>3
<1>6. PICK t : t = FlattenSeq(seqs)
  OBVIOUS
<1>7. t \in Seq(N) /\ \A x : x \in ToSet(t) <=> \E i \in 1 .. n : x \in ToSet(seqs[i])
  <2>1. Flattened(t, seqs, n, N)
    BY <1>5, <1>6, FlattenOf
  <2> QED
    BY <2>1 DEF Flattened
<1>8. PICK s \in Seq(N) : s = <<b>> /\ \A x : x \in ToSet(s) <=> x = b
  BY SingleSet
<1>9. r = s \o t
  <2>1. IsVnode(d[b])
    BY TreeNode
  <2> QED
    BY <1>1, <1>3, <1>6, <1>8, <2>1 DEF Visit
<1>10. r \in Seq(N) /\ \A x : x \in ToSet(r) <=> x \in ToSet(s) \/ x \in ToSet(t)
  BY <1>7, <1>8, <1>9, ToSetConcat
<1>11. \A x : Below(d, prev, b, x) <=> \E i \in 1 .. n : x \in ToSet(seqs[i])
  BY <1>1, <1>2, <1>5 DEF Below
<1> QED
  BY <1>7, <1>8, <1>10, <1>11

(* The search visits every block of metadata, and no other block.          *)
LEMMA WalkVisits ==
  ASSUME NEW d, NEW N, NEW rank, Tree(d, N, rank), Persisted = Blocks
  PROVE  Walk(d) \in Seq(N) /\ Nodes(d) = N
<1>0. ROOT \in N /\ ROOT \in All /\ rank[ROOT] = 0 /\ N \subseteq All /\ Depth \in Nat
  BY Positions, BlkInAll, NamesFinite DEF Tree, RootNode, All
<1>1. PICK f : /\ \A k \in 0 .. Depth : \A b \in All : f[k][b] = Visit(d, f[k - 1], k, b)
               /\ Walk(d) = f[Depth][ROOT]
  BY <1>0, VisitSteps
<1> DEFINE Inside(k) == \A c \in N : f[k][c] \in Seq(N)
           T == {k \in Nat : k <= Depth => Inside(k)}
<1>2. 0 \in T
  <2>1. ASSUME NEW c \in N
        PROVE  f[0][c] \in Seq(N)
    <3>1. f[0][c] = Visit(d, f[0 - 1], 0, c)
      BY <1>0, <1>1
    <3>2. f[0][c] = <<>>
      BY <3>1 DEF Visit
    <3> QED
      BY <3>2
  <2> QED
    BY <2>1
<1>3. ASSUME NEW k \in T
      PROVE  k + 1 \in T
  <2>1. SUFFICES ASSUME k + 1 <= Depth
                 PROVE  Inside(k + 1)
    BY <1>3
  <2>2. PICK j \in Nat : j = k + 1
    BY <1>3
  <2>3. Inside(k) /\ j # 0 /\ j - 1 = k /\ j \in 0 .. Depth
    BY <1>0, <1>3, <2>1, <2>2
  <2>4. PICK p, q : p = f[k] /\ q = f[j]
    OBVIOUS
  <2>5. ASSUME NEW c \in N
        PROVE  q[c] \in Seq(N)
    <3>1. q[c] = Visit(d, p, j, c)
      BY <1>0, <1>1, <2>3, <2>4
    <3>2. \A b \in N : p[b] \in Seq(N)
      BY <2>3, <2>4
    <3> QED
      BY <2>3, <3>1, <3>2, VisitOne
  <2> QED
    BY <2>2, <2>4, <2>5
<1>4. T = Nat
  <2> HIDE DEF T
  <2>1. T \in SUBSET Nat
    BY DEF T
  <2> QED
    BY <1>2, <1>3, <2>1, NatSteps
<1>5. ASSUME NEW k \in 0 .. Depth, NEW c \in N
      PROVE  f[k][c] \in Seq(N)
  <2>1. k \in T
    <3> HIDE DEF T
    <3> QED
      BY <1>4, <1>0
  <2> QED
    BY <2>1
<1> HIDE DEF T
<1>6. Walk(d) \in Seq(N)
  BY <1>0, <1>1, <1>5
<1>7. ASSUME NEW k \in 1 .. Depth, NEW c \in N
      PROVE  \A x : x \in ToSet(f[k][c]) <=> x = c \/ Below(d, f[k - 1], c, x)
  <2>1. PICK p, q : p = f[k - 1] /\ q = f[k][c]
    OBVIOUS
  <2>2. k \in Nat /\ k # 0 /\ k - 1 \in 0 .. Depth /\ k \in 0 .. Depth
    BY <1>0
  <2>3. q = Visit(d, p, k, c) /\ \A b \in N : p[b] \in Seq(N)
    BY <1>0, <1>1, <1>5, <2>1, <2>2
  <2>4. \A x : x \in ToSet(q) <=> x = c \/ Below(d, p, c, x)
    BY <2>2, <2>3, VisitOne
  <2> QED
    BY <2>1, <2>4
<1> DEFINE Reached(r) == \A c \in N : rank[c] = r => \A x \in ToSet(f[Depth - r][c]) : x \in ToSet(f[Depth][ROOT])
           U == {r \in Nat : Reached(r)}
<1>8. 0 \in U
  <2>1. ASSUME NEW c \in N, rank[c] = 0
        PROVE  c = ROOT
    <3>1. SUFFICES ASSUME c # ROOT
                   PROVE  FALSE
      OBVIOUS
    <3>2. d[c].parent \in N /\ rank[c] = rank[d[c].parent] + 1
      BY <3>1, TreeNode DEF Node
    <3>3. rank[d[c].parent] \in Nat
      BY <3>2, TreeNode
    <3> QED
      BY <2>1, <3>2, <3>3
  <2>2. Depth - 0 = Depth
    BY <1>0
  <2> QED
    BY <2>1, <2>2
<1>9. ASSUME NEW r \in U
      PROVE  r + 1 \in U
  <2>1. r \in Nat /\ Reached(r)
    BY <1>9
  <2>2. SUFFICES ASSUME NEW c \in N, rank[c] = r + 1, NEW x \in ToSet(f[Depth - (r + 1)][c])
                 PROVE  x \in ToSet(f[Depth][ROOT])
    BY <2>1
  <2>3. c # ROOT
    BY <1>0, <2>1, <2>2
  <2>4. PICK p \in N : /\ p = d[c].parent /\ rank[c] = rank[p] + 1
                       /\ \E i \in DOMAIN d[p].entries : d[p].entries[i] = c
    BY <2>3, TreeNode DEF Node
  <2>5. rank[p] \in Nat /\ rank[c] < Depth
    BY <2>4, TreeNode, RankBelow
  <2>6. rank[p] = r
    BY <2>1, <2>2, <2>4, <2>5
  <2>7. PICK k \in 1 .. Depth : k = Depth - r
    BY <1>0, <2>1, <2>2, <2>5
  <2>8. k - 1 = Depth - (r + 1)
    BY <1>0, <2>1, <2>7
  <2>9. x \in ToSet(f[k - 1][c])
    BY <2>2, <2>8
  <2>10. Below(d, f[k - 1], p, x)
    BY <2>4, <2>9 DEF Below
  <2>11. x \in ToSet(f[k][p])
    BY <1>7, <2>10
  <2> QED
    BY <2>1, <2>6, <2>7, <2>11
<1>10. U = Nat
  <2> HIDE DEF U
  <2>1. U \in SUBSET Nat
    BY DEF U
  <2> QED
    BY <1>8, <1>9, <2>1, NatSteps
<1>11. ASSUME NEW c \in N
       PROVE  c \in ToSet(f[Depth][ROOT])
  <2>1. rank[c] \in Nat /\ rank[c] < Depth
    BY RankBelow
  <2>2. rank[c] \in U
    <3> HIDE DEF U
    <3> QED
      BY <1>10, <2>1
  <2>3. PICK k \in 1 .. Depth : k = Depth - rank[c]
    BY <1>0, <2>1
  <2>4. c \in ToSet(f[k][c])
    BY <1>7
  <2> QED
    BY <2>2, <2>3, <2>4
<1>12. \A x \in ToSet(Walk(d)) : x \in N
  <2>1. PICK s \in Seq(N) : s = Walk(d)
    BY <1>6
  <2>2. \A i \in DOMAIN s : s[i] \in N
    BY LenProperties, ElementOfSeq
  <2> QED
    BY <2>1, <2>2 DEF ToSet
<1>13. Nodes(d) = ToSet(f[Depth][ROOT])
  BY <1>1 DEF Nodes
<1> QED
  BY <1>1, <1>6, <1>11, <1>12, <1>13

LEMMA SearchResult ==
  ASSUME Persisted = Blocks, NEW d, NEW N, NEW rank, Tree(d, N, rank), NEW name,
         NEW s, s = vfs_search(d, name)
  PROVE  \/ s = NIL /\ \A b \in N : d[b].name # name
         \/ s \in N /\ d[s].name = name
<1>1. PICK nodes \in Seq(N) : nodes = Walk(d) /\ ToSet(nodes) = N
  BY WalkVisits DEF Nodes
<1>2. PICK n \in Nat : DOMAIN nodes = 1 .. n /\ \A i \in 1 .. n : nodes[i] \in N
  BY LenProperties, ElementOfSeq
<1>3. PICK hits : hits = {i \in DOMAIN nodes : d[nodes[i]].name = name}
  OBVIOUS
<1>4. s = IF hits = {} THEN NIL ELSE d[nodes[Min(hits)]].start
  BY <1>1, <1>3 DEF vfs_search
<1>5. CASE hits = {}
  <2>1. ASSUME NEW b \in N, d[b].name = name
        PROVE  FALSE
    <3>1. PICK i \in DOMAIN nodes : nodes[i] = b
      BY <1>1 DEF ToSet
    <3>2. i \in hits
      BY <1>3, <2>1, <3>1
    <3> QED
      BY <1>5, <3>2
  <2> QED
    BY <1>4, <1>5, <2>1
<1>6. CASE hits # {}
  <2>1. hits \in SUBSET Nat
    BY <1>2, <1>3
  <2>2. PICK i : i = Min(hits) /\ i \in hits
    BY <1>6, <2>1, LeastIsMin
  <2>3. nodes[i] \in N /\ d[nodes[i]].name = name
    BY <1>2, <1>3, <2>2
  <2>4. s = nodes[i]
    BY <1>4, <1>6, <2>2, <2>3, TreeNode
  <2> QED
    BY <2>3, <2>4
<1> QED
  BY <1>5, <1>6

-----------------------------------------------------------------------------
(* The whole disk.                                                         *)

(* The blocks of metadata.                                                 *)
Heads(own) == {b \in Blk : own[b] = b}

(* The blocks of data, the sizes of the chains and the tree.               *)
Filed(d, own, len, rank) ==
  /\ \A b \in Blk : own[b] # NIL /\ own[b] # b => d[b] \in Data
  /\ \A b \in Blk : own[b] = b => d[b].size = len[b]
  /\ Tree(d, Heads(own), rank)

(* A disk whose table and counter are fat and free.                        *)
Good(d, fat, free, own, len, pos, rank) ==
  /\ IsDisk(d)
  /\ fat \in [All -> Entry] /\ Layout(fat, own, len, pos, NIL)
  /\ \A b \in 0 .. ROOT - 1 : fat[b].occupied
  /\ free = Cardinality(Vacant(fat)) /\ d[0] = [free |-> free] /\ FatOf(d) = fat
  /\ Filed(d, own, len, rank)

LEMMA WorkFree ==
  ASSUME Persisted = Blocks, NEW d, NEW fat, NEW free, NEW own, NEW len, NEW pos, NEW rank,
         Good(d, fat, free, own, len, pos, rank), NEW w,
         w = [fat |-> fat, free |-> free, out |-> <<>>, at |-> NIL, bad |-> FALSE]
  PROVE  Settled(d, w, own, len, pos, NIL) /\ Held(d, w) = d /\ w.fat = fat /\ w.free = free
<1>1. free \in Nat
  BY VacantFinite DEF Good
<1>2. w \in Works
  <2>1. fat \in [All -> Entry]
    BY DEF Good
  <2>2. <<>> \in Seq(Writ) /\ NIL \in Int
    BY NilOutside
  <2> QED
    BY <1>1, <2>1, <2>2 DEF Works
<1>3. w.fat = fat /\ w.free = free /\ w.out = <<>> /\ ~w.bad
  OBVIOUS
<1>4. Held(d, w) = d
  <2>1. After(d, <<>>) = d
    BY AfterNone DEF Good
  <2> QED
    BY <1>3, <2>1 DEF Held
<1> QED
  BY <1>2, <1>3, <1>4 DEF Good, Settled

LEMMA GoodFacts ==
  ASSUME Persisted = Blocks, NEW d, NEW fat, NEW free, NEW own, NEW len, NEW pos, NEW rank,
         Good(d, fat, free, own, len, pos, rank), NEW s \in Heads(own)
  PROVE  /\ s \in Blk /\ own[s] = s /\ d[s] \in Vnode /\ IsVnode(d[s]) /\ d[s].start = s
         /\ d[s].size = len[s] /\ len[s] \in Nat
         /\ free \in 0 .. Blocks /\ len[s] + free <= Blocks
<1>1. s \in Blk /\ own[s] = s
  BY DEF Heads
<1>2. Tree(d, Heads(own), rank) /\ d[s].size = len[s]
  BY <1>1 DEF Good, Filed
<1>3. d[s] \in Vnode /\ IsVnode(d[s]) /\ d[s].start = s
  BY <1>2, TreeNode
<1>4. Layout(fat, own, len, pos, NIL) /\ \A b \in 0 .. ROOT - 1 : fat[b].occupied
  BY DEF Good
<1>5. len[s] \in Nat
  BY <1>1, <1>4 DEF Layout, Typed
<1>6. len[s] + 1 + Cardinality(Vacant(fat)) <= Blocks - ROOT
  BY <1>1, <1>4, Room
<1>7. Cardinality(Vacant(fat)) \in Nat /\ free = Cardinality(Vacant(fat))
  BY VacantFinite DEF Good
<1> QED
  BY <1>1, <1>2, <1>3, <1>5, <1>6, <1>7, Positions

LEMMA HeldOK ==
  ASSUME Persisted = Blocks, NEW d, IsDisk(d), NEW w \in Works
  PROVE  IsDisk(Held(d, w))
<1>1. w.out \in Seq(Writ)
  BY WorkFields
<1> QED
  BY <1>1, AfterOK DEF Held

(* The blocks of metadata after vfs_sync_file.                             *)
LEMMA SyncedHeads ==
  ASSUME NEW d, NEW w, NEW r, NEW s \in Blk, NEW meta, NEW binary,
         NEW own, NEW len, NEW pos, NEW own1, NEW len1, NEW pos1,
         Synced(d, w, r, s, meta, binary, own, len, pos, own1, len1, pos1)
  PROVE  Heads(own1) = Heads(own) \cup {s}
<1>1. ASSUME NEW b \in Blk, b # s
      PROVE  own1[b] = b <=> own[b] = b
  <2>1. b # NIL
    BY NilOutside
  <2>2. own[b] # NIL /\ own[b] # s => own1[b] = own[b]
    BY DEF Synced
  <2>3. own1[b] # NIL /\ own1[b] # s => own1[b] = own[b]
    BY DEF Synced
  <2> QED
    BY <1>1, <2>1, <2>2, <2>3
<1>2. own1[s] = s
  BY DEF Synced
<1> QED
  BY <1>1, <1>2 DEF Heads

(* The blocks of all files but the one that starts at s.                   *)
FiledBut(e, own, len, s) ==
  /\ \A b \in Blk : own[b] # NIL /\ own[b] # b /\ own[b] # s => e[b] \in Data
  /\ \A b \in Blk : own[b] = b /\ b # s => e[b].size = len[b]

(* Everything but the tree, which depends on the call.                     *)
LEMMA SyncGood ==
  ASSUME Persisted = Blocks, NEW d, IsDisk(d), NEW w, NEW r, NEW s \in Blk, NEW meta,
         NEW binary \in Seq(Byte), NEW own, NEW len, NEW pos, NEW own1, NEW len1, NEW pos1,
         Typed(own, len, pos),
         Synced(d, w, r, s, meta, binary, own, len, pos, own1, len1, pos1),
         FiledBut(Held(d, w), own, len, s),
         NEW rank, Tree(Held(d, r), Heads(own1), rank)
  PROVE  r \in Works /\ Good(Held(d, r), r.fat, r.free, own1, len1, pos1, rank)
<1>1. /\ r \in Works /\ Layout(r.fat, own1, len1, pos1, NIL)
      /\ \A b \in 0 .. ROOT - 1 : r.fat[b].occupied
      /\ r.free = Cardinality(Vacant(r.fat))
      /\ Held(d, r)[0] = [free |-> r.free] /\ FatOf(Held(d, r)) = r.fat
  BY DEF Synced, Settled
<1>2. r.fat \in [All -> Entry] /\ IsDisk(Held(d, r))
  BY <1>1, WorkFields, HeldOK
<1>3. ASSUME NEW b \in Blk, own1[b] # NIL, own1[b] # b
      PROVE  Held(d, r)[b] \in Data
  <2>1. CASE own1[b] = s
    <3>1. pos1[b] \in Nat /\ Follows(r.fat, own1, len1, pos1, NIL, b)
      BY <1>1, LayoutAt
    <3>2. pos1[b] # 0
      BY <1>3, <3>1 DEF Follows
    <3>3. Held(d, r)[b] = DataBlock(binary, pos1[b] - 1) /\ pos1[b] - 1 \in Nat
      BY <2>1, <3>1, <3>2 DEF Synced
    <3> QED
      BY <3>3, DataBlockOK
  <2>2. CASE own1[b] # s
    <3>1. own1[b] = own[b]
      BY <1>3, <2>2 DEF Synced
    <3>2. Held(d, r)[b] = Held(d, w)[b]
      BY <1>3, <2>2, <3>1 DEF Synced
    <3> QED
      BY <1>3, <2>2, <3>1, <3>2 DEF FiledBut
  <2> QED
    BY <2>1, <2>2
<1>4. ASSUME NEW b \in Blk, own1[b] = b
      PROVE  Held(d, r)[b].size = len1[b]
  <2>1. len1 = Put(len, s, meta.size)
    BY DEF Synced
  <2>2. CASE b = s
    <3>1. Held(d, r)[s] = meta /\ len1[s] = meta.size
      BY <2>1 DEF Synced, Put, Typed
    <3> QED
      BY <2>2, <3>1
  <2>3. CASE b # s
    <3>1. own1[b] = own[b]
      BY <1>4, <2>3, NilOutside DEF Synced
    <3>2. Held(d, r)[b] = Held(d, w)[b]
      BY <1>4, <2>3, <3>1, NilOutside DEF Synced
    <3>3. len1[b] = len[b]
      BY <2>1, <2>3 DEF Put, Typed
    <3> QED
      BY <1>4, <2>3, <3>1, <3>2, <3>3 DEF FiledBut
  <2> QED
    BY <2>2, <2>3
<1>5. Filed(Held(d, r), own1, len1, rank)
  BY <1>3, <1>4 DEF Filed
<1> QED
  BY <1>1, <1>2, <1>5 DEF Good

-----------------------------------------------------------------------------
(* Open files.                                                             *)

(* The first eof bytes of the buffer are the ones on the disk.             *)
SameBytes(d, own, pos, s, eof, binary) ==
  \A b \in Blk : own[b] = s /\ pos[b] > 0 =>
    \A k \in 1 .. BlockSize :
      (pos[b] - 1) * BlockSize + k <= eof => d[b].bytes[k] = binary[(pos[b] - 1) * BlockSize + k]

IsFile(f) == f = [meta |-> f.meta, binary |-> f.binary, offset |-> f.offset]

(* The open file f agrees with the disk.                                   *)
OpenAt(f, d, own, pos) ==
  /\ IsFile(f)
  /\ f.meta.start \in Heads(own) /\ d[f.meta.start] = f.meta
  /\ f.meta.type = "V_FILE"
  /\ f.binary \in Seq(Byte) /\ f.offset \in 0 .. f.meta.eof /\ f.meta.eof <= Len(f.binary)
  /\ SameBytes(d, own, pos, f.meta.start, f.meta.eof, f.binary)

OpenOnce(fds) ==
  \A fd, fe \in Descriptors :
    fds[fd] # Closed /\ fds[fe] # Closed /\ fds[fd].meta.start = fds[fe].meta.start => fd = fe

OpenOK(fds, d, own, pos) ==
  /\ \A fd \in Descriptors : fds[fd] # Closed => OpenAt(fds[fd], d, own, pos)
  /\ OpenOnce(fds)

SameFile(own, s, d, e) == \A b \in Blk : own[b] = s => d[b] = e[b]

(* The other open files are not disturbed by vfs_sync_file.                *)
LEMMA SyncedOthers ==
  ASSUME NEW d, NEW w, NEW r, NEW s \in Blk, NEW meta, NEW binary,
         NEW own, NEW len, NEW pos, NEW own1, NEW len1, NEW pos1,
         Synced(d, w, r, s, meta, binary, own, len, pos, own1, len1, pos1),
         NEW f, NEW e, OpenAt(f, e, own, pos), f.meta.start # s,
         SameFile(own, f.meta.start, Held(d, w), e)
  PROVE  OpenAt(f, Held(d, r), own1, pos1)
<1>1. PICK t : t = f.meta.start /\ t \in Blk /\ own[t] = t /\ t # s /\ t # NIL
  BY NilOutside DEF OpenAt, Heads
<1>2. ASSUME NEW b \in Blk
      PROVE  own1[b] = t <=> own[b] = t
  <2>1. own[b] # NIL /\ own[b] # s => own1[b] = own[b]
    BY DEF Synced
  <2>2. own1[b] # NIL /\ own1[b] # s => own1[b] = own[b]
    BY DEF Synced
  <2> QED
    BY <1>1, <2>1, <2>2
<1>3. ASSUME NEW b \in Blk, own[b] = t
      PROVE  pos1[b] = pos[b] /\ Held(d, r)[b] = e[b]
  <2>1. pos1[b] = pos[b] /\ Held(d, r)[b] = Held(d, w)[b]
    BY <1>1, <1>3 DEF Synced
  <2> QED
    BY <1>1, <1>3, <2>1 DEF SameFile
<1>4. t \in Heads(own1) /\ Held(d, r)[t] = f.meta
  BY <1>1, <1>2, <1>3 DEF Heads, OpenAt
<1>5. SameBytes(Held(d, r), own1, pos1, t, f.meta.eof, f.binary)
  <2>1. SameBytes(e, own, pos, t, f.meta.eof, f.binary)
    BY <1>1 DEF OpenAt
  <2> QED
    BY <1>2, <1>3, <2>1 DEF SameBytes
<1> QED
  BY <1>1, <1>4, <1>5 DEF OpenAt

(* What vfs_sync_file has written.                                         *)
LEMMA SyncedBytes ==
  ASSUME NEW d, NEW w, NEW r, NEW s \in Blk, NEW meta, NEW binary \in Seq(Byte),
         NEW own, NEW len, NEW pos, NEW own1, NEW len1, NEW pos1,
         Synced(d, w, r, s, meta, binary, own, len, pos, own1, len1, pos1),
         NEW eof \in Int, eof <= Len(binary)
  PROVE  SameBytes(Held(d, r), own1, pos1, s, eof, binary)
<1>1. SUFFICES ASSUME NEW b \in Blk, own1[b] = s, pos1[b] > 0, NEW k \in 1 .. BlockSize,
                      (pos1[b] - 1) * BlockSize + k <= eof
               PROVE  Held(d, r)[b].bytes[k] = binary[(pos1[b] - 1) * BlockSize + k]
  BY DEF SameBytes
<1>2. Held(d, r)[b] = DataBlock(binary, pos1[b] - 1)
  BY <1>1 DEF Synced
<1>3. pos1[b] \in Nat
  BY DEF Synced, Settled, Layout, Typed
<1>4. PICK i \in Nat : i = pos1[b] - 1
  BY <1>1, <1>3
<1>5. PICK j \in Int : j = i * BlockSize
  BY <1>4, DiskAssumption
<1>6. j >= 0
  BY <1>4, <1>5, DiskAssumption
<1>7. PICK n \in Nat : n = Len(binary) /\ DOMAIN binary = 1 .. n
  BY LenProperties
<1>8. j + k <= eof
  BY <1>1, <1>4, <1>5
<1>9. j + k \in 1 .. n
  BY <1>6, <1>7, <1>8, DiskAssumption
<1>10. DataBlock(binary, i).bytes[k] = binary[j + k]
  BY <1>5, <1>7, <1>9 DEF DataBlock
<1> QED
  BY <1>2, <1>4, <1>5, <1>10

-----------------------------------------------------------------------------
(* Bytes of a file.                                                        *)

(* Which byte of which block a byte of a file is.                          *)
Place(j, i, k) == i \in Nat /\ k \in 1 .. BlockSize /\ j = i * BlockSize + k

LEMMA PlaceOf ==
  ASSUME NEW j \in Nat, j # 0
  PROVE  Place(j, (j - 1) \div BlockSize, ((j - 1) % BlockSize) + 1)
<1>1. PICK b \in Nat : b = j - 1
  OBVIOUS
<1>2. BlockSize \in Nat /\ BlockSize # 0
  BY DiskAssumption
<1>3. b \div BlockSize \in Nat /\ b % BlockSize \in 0 .. BlockSize - 1
  BY <1>2
<1>4. b = (b \div BlockSize) * BlockSize + (b % BlockSize)
  BY <1>2
<1>5. PICK i \in Nat, r \in 0 .. BlockSize - 1 : i = b \div BlockSize /\ r = b % BlockSize
  BY <1>3
<1>6. PICK p \in Nat : p = i * BlockSize
  BY <1>2
<1>7. b = p + r
  BY <1>4, <1>5, <1>6
<1>8. r + 1 \in 1 .. BlockSize /\ j = p + (r + 1)
  BY <1>1, <1>2, <1>5, <1>7
<1> QED
  BY <1>1, <1>5, <1>6, <1>8 DEF Place

LEMMA PlaceUnique ==
  ASSUME NEW j, NEW i, NEW k, NEW m, NEW l, Place(j, i, k), Place(j, m, l)
  PROVE  i = m /\ k = l
<1>1. BlockSize \in Nat /\ BlockSize # 0
  BY DiskAssumption
<1>2. i \in Nat /\ m \in Nat /\ k \in 1 .. BlockSize /\ l \in 1 .. BlockSize
      /\ i * BlockSize + k = m * BlockSize + l
  BY DEF Place
<1>3. ASSUME NEW a \in Nat, NEW b \in Nat, a < b
      PROVE  (a * BlockSize) + BlockSize <= b * BlockSize
  <2>1. PICK c \in Nat : b = a + 1 + c
    <3>1. b - a - 1 \in Nat /\ b = a + 1 + (b - a - 1)
      BY <1>3
    <3> QED
      BY <3>1
  <2>2. (a + 1 + c) * BlockSize = (a * BlockSize) + BlockSize + (c * BlockSize)
    BY <1>1
  <2>3. c * BlockSize \in Nat /\ a * BlockSize \in Nat
    BY <1>1
  <2> QED
    BY <1>1, <2>1, <2>2, <2>3
<1>4. PICK p \in Nat, q \in Nat : p = i * BlockSize /\ q = m * BlockSize
  BY <1>1, <1>2
<1>5. p + k = q + l
  BY <1>2, <1>4
<1>6. ~(i < m)
  <2>1. i < m => p + BlockSize <= q
    BY <1>2, <1>3, <1>4
  <2> QED
    BY <1>1, <1>2, <1>5, <2>1
<1>7. ~(m < i)
  <2>1. m < i => q + BlockSize <= p
    BY <1>2, <1>3, <1>4
  <2> QED
    BY <1>1, <1>2, <1>5, <2>1
<1>8. i = m
  BY <1>2, <1>6, <1>7
<1>9. p = q
  BY <1>4, <1>8
<1> QED
  BY <1>2, <1>4, <1>5, <1>8, <1>9

LEMMA PlaceBelow ==
  ASSUME NEW j, NEW i, NEW k, Place(j, i, k), NEW n \in Nat, j <= n * BlockSize
  PROVE  i + 1 \in 1 .. n /\ j \in Nat /\ j # 0
<1>1. BlockSize \in Nat /\ BlockSize # 0
  BY DiskAssumption
<1>2. i \in Nat /\ k \in 1 .. BlockSize /\ j = i * BlockSize + k
  BY DEF Place
<1>3. PICK p \in Nat : p = i * BlockSize
  BY <1>1, <1>2
<1>4. j \in Nat /\ j # 0 /\ p < n * BlockSize
  <2>1. PICK q \in Nat : q = n * BlockSize
    BY <1>1
  <2>2. j = p + k
    BY <1>2, <1>3
  <2> QED
    BY <1>1, <1>2, <2>1, <2>2
<1>5. i < n
  <2>1. SUFFICES ASSUME n <= i
                 PROVE  FALSE
    BY <1>2
  <2>2. n * BlockSize <= i * BlockSize
    BY <1>1, <1>2, <2>1
  <2>3. PICK q \in Nat : q = n * BlockSize
    BY <1>1
  <2> QED
    BY <1>3, <1>4, <2>2, <2>3
<1> QED
  BY <1>2, <1>4, <1>5

(* A byte of a file, read along the chain, is in a block of the file.      *)
LEMMA ByteOf ==
  ASSUME Persisted = Blocks, NEW d, NEW fat, NEW free, NEW own, NEW len, NEW pos, NEW rank,
         Good(d, fat, free, own, len, pos, rank), NEW s \in Heads(own),
         NEW c, c = Chain(fat, s, len[s]), NEW j, NEW i, NEW k, Place(j, i, k), j <= len[s] * BlockSize
  PROVE  /\ \E b \in Blk : own[b] = s /\ pos[b] = i + 1 /\ d[b] \in Data
                           /\ BytesAt(d, c[i + 1]) = d[b].bytes
         /\ \A b \in Blk : own[b] = s /\ pos[b] = i + 1 => BytesAt(d, c[i + 1]) = d[b].bytes
<1>1. s \in Blk /\ own[s] = s /\ len[s] \in Nat
  BY GoodFacts
<1>2. Layout(fat, own, len, pos, NIL) /\ DOMAIN fat = All /\ IsDisk(d) /\ Filed(d, own, len, rank)
  BY DEF Good
<1>3. i + 1 \in 1 .. len[s] /\ i \in Nat
  BY <1>1, PlaceBelow DEF Place
<1>4. c[i + 1] \in Blk /\ own[c[i + 1]] = s /\ pos[c[i + 1]] = i + 1
  <2>1. PICK n \in Nat : n = len[s]
    BY <1>1
  <2>2. \A m \in 1 .. n : m <= len[s] => c[m] \in Blk /\ own[c[m]] = s /\ pos[c[m]] = m
    BY <1>1, <1>2, <2>1, ChainOf
  <2> QED
    BY <1>3, <2>1, <2>2
<1>5. PICK b \in Blk : b = c[i + 1] /\ own[b] = s /\ pos[b] = i + 1
  BY <1>4
<1>6. d[b] \in Data
  <2>1. b # s
    <3>1. pos[s] = 0
      BY <1>1, <1>2, LayoutAt DEF Follows
    <3> QED
      BY <1>3, <1>5, <3>1
  <2> QED
    BY <1>2, <1>5, <2>1, <1>1, NilOutside DEF Filed
<1>7. BytesAt(d, b) = d[b].bytes
  <2>1. b \in DOMAIN d /\ ~IsVnode(d[b])
    BY <1>2, <1>6, DataDomain, BlkInAll DEF IsDisk
  <2> QED
    BY <2>1 DEF BytesAt
<1>8. \A x \in Blk : own[x] = s /\ pos[x] = i + 1 => x = b
  BY <1>1, <1>2, <1>5, NilOutside DEF Layout, Apart
<1> QED
  BY <1>5, <1>6, <1>7, <1>8

(* The buffer of a file that is opened.                                    *)
LEMMA OpenedBytes ==
  ASSUME Persisted = Blocks, NEW d, NEW fat, NEW free, NEW own, NEW len, NEW pos, NEW rank,
         Good(d, fat, free, own, len, pos, rank), NEW s \in Heads(own),
         NEW n, n = len[s] * BlockSize,
         NEW binary, binary = Joined(d, Chain(fat, s, len[s]), n), NEW eof \in 0 .. n
  PROVE  /\ binary \in Seq(Byte) /\ Len(binary) = n
         /\ SameBytes(d, own, pos, s, eof, binary)
<1>1. s \in Blk /\ own[s] = s /\ len[s] \in Nat /\ n \in Nat
  BY GoodFacts, DiskAssumption
<1>2. PICK c : c = Chain(fat, s, len[s])
  OBVIOUS
<1>3. binary = [j \in 1 .. n |-> BytesAt(d, c[(j - 1) \div BlockSize + 1])[((j - 1) % BlockSize) + 1]]
  BY <1>2 DEF Joined
<1>4. ASSUME NEW j \in 1 .. n, NEW i, NEW k, Place(j, i, k)
      PROVE  binary[j] = BytesAt(d, c[i + 1])[k]
  <2>1. Place(j, (j - 1) \div BlockSize, ((j - 1) % BlockSize) + 1)
    BY PlaceOf
  <2>2. i = (j - 1) \div BlockSize /\ k = ((j - 1) % BlockSize) + 1
    BY <1>4, <2>1, PlaceUnique
  <2> QED
    BY <1>3, <2>2
<1>5. ASSUME NEW j \in 1 .. n
      PROVE  binary[j] \in Byte
  <2>1. PICK i, k : Place(j, i, k)
    BY PlaceOf
  <2>2. j <= len[s] * BlockSize
    BY <1>1
  <2>3. PICK b \in Blk : d[b] \in Data /\ BytesAt(d, c[i + 1]) = d[b].bytes
    BY <1>2, <2>1, <2>2, ByteOf
  <2>4. d[b].bytes \in [1 .. BlockSize -> Byte] /\ k \in 1 .. BlockSize
    BY <2>1, <2>3 DEF Data, Place
  <2>5. binary[j] = BytesAt(d, c[i + 1])[k]
    BY <1>4, <2>1
  <2>6. d[b].bytes[k] \in Byte
    BY <2>4
  <2> QED
    BY <2>3, <2>5, <2>6
<1>6. binary \in [1 .. n -> Byte]
  BY <1>3, <1>5
<1>7. binary \in Seq(Byte) /\ Len(binary) = n
  BY <1>1, <1>6, SeqDef, LenProperties
<1>8. ASSUME NEW b \in Blk, own[b] = s, pos[b] > 0, NEW k \in 1 .. BlockSize,
             (pos[b] - 1) * BlockSize + k <= eof
      PROVE  d[b].bytes[k] = binary[(pos[b] - 1) * BlockSize + k]
  <2>1. pos[b] \in Nat
    BY LayoutAt DEF Good
  <2>2. PICK i \in Nat : i = pos[b] - 1 /\ pos[b] = i + 1
    <3>1. pos[b] - 1 \in Nat /\ pos[b] = (pos[b] - 1) + 1
      BY <1>8, <2>1
    <3> QED
      BY <3>1
  <2>3. PICK j : j = i * BlockSize + k
    OBVIOUS
  <2>4. Place(j, i, k) /\ j <= eof
    BY <1>8, <2>2, <2>3 DEF Place
  <2>5. j <= n
    <3>1. j \in Nat
      BY <2>3, DiskAssumption
    <3> QED
      BY <1>1, <2>4, <3>1
  <2>6. j \in 1 .. n
    <3>1. j \in Nat /\ j # 0
      BY <1>1, <2>4, <2>5, PlaceBelow
    <3> QED
      BY <1>1, <2>5, <3>1
  <2>7. BytesAt(d, c[i + 1]) = d[b].bytes
    <3>1. j <= len[s] * BlockSize
      BY <2>5
    <3>2. \A x \in Blk : own[x] = s /\ pos[x] = i + 1 => BytesAt(d, c[i + 1]) = d[x].bytes
      BY <1>2, <2>4, <3>1, ByteOf
    <3>3. own[b] = s /\ pos[b] = i + 1
      BY <1>8, <2>2
    <3> QED
      BY <3>2, <3>3
  <2>8. binary[j] = BytesAt(d, c[i + 1])[k]
    BY <1>4, <2>4, <2>6
  <2> QED
    BY <2>2, <2>3, <2>7, <2>8
<1> QED
  BY <1>7, <1>8 DEF SameBytes

-----------------------------------------------------------------------------
(* What the disk holds of a file.                                          *)

(* The bytes of a file on the disk are the ones of its buffer.             *)
LEMMA SameContent ==
  ASSUME Persisted = Blocks, NEW d, NEW fat, NEW free, NEW own, NEW len, NEW pos, NEW rank,
         Good(d, fat, free, own, len, pos, rank), NEW s \in Heads(own),
         NEW binary \in Seq(Byte), NEW eof \in Nat, eof <= Len(binary), eof <= len[s] * BlockSize,
         SameBytes(d, own, pos, s, eof, binary)
  PROVE  Joined(d, Chain(fat, s, len[s]), eof) = SubSeq(binary, 1, eof)
<1>1. PICK c : c = Chain(fat, s, len[s])
  OBVIOUS
<1>2. PICK t : t = Joined(d, c, eof)
  OBVIOUS
<1>3. t = [j \in 1 .. eof |-> BytesAt(d, c[(j - 1) \div BlockSize + 1])[((j - 1) % BlockSize) + 1]]
  BY <1>2 DEF Joined
<1>4. len[s] \in Nat
  BY GoodFacts
<1>5. ASSUME NEW j \in 1 .. eof
      PROVE  t[j] = binary[j]
  <2>1. PICK i, k : i = (j - 1) \div BlockSize /\ k = ((j - 1) % BlockSize) + 1 /\ Place(j, i, k)
    BY PlaceOf
  <2>2. t[j] = BytesAt(d, c[i + 1])[k]
    BY <1>3, <2>1
  <2>3. j <= len[s] * BlockSize
    <3>1. PICK l \in Nat : l = len[s] * BlockSize
      BY <1>4, DiskAssumption
    <3> QED
      BY <3>1
  <2>4. PICK b \in Blk : own[b] = s /\ pos[b] = i + 1 /\ BytesAt(d, c[i + 1]) = d[b].bytes
    BY <1>1, <2>1, <2>3, ByteOf
  <2>5. i \in Nat /\ k \in 1 .. BlockSize /\ j = i * BlockSize + k
    BY <2>1 DEF Place
  <2>6. pos[b] > 0 /\ pos[b] - 1 = i
    BY <2>4, <2>5
  <2>7. d[b].bytes[k] = binary[i * BlockSize + k]
    <3>1. (pos[b] - 1) * BlockSize + k <= eof
      BY <2>5, <2>6
    <3>2. d[b].bytes[k] = binary[(pos[b] - 1) * BlockSize + k]
      BY <2>4, <2>5, <2>6, <3>1 DEF SameBytes
    <3> QED
      BY <2>6, <3>2
  <2> QED
    BY <2>2, <2>4, <2>5, <2>7
<1>6. PICK u : u = SubSeq(binary, 1, eof)
  OBVIOUS
<1>7. u = [j \in 1 .. eof |-> binary[j]]
  <2>1. Len(binary) \in Nat /\ 1 \in Nat
    BY LenProperties
  <2>2. u \in Seq(Byte) /\ Len(u) = eof /\ \A j \in 1 .. eof : u[j] = binary[j]
    BY <1>6, <2>1, SubSeqProperties
  <2> QED
    BY <2>2, LenProperties
<1>8. t = u
  BY <1>3, <1>5, <1>7
<1> QED
  BY <1>1, <1>2, <1>6, <1>8

-----------------------------------------------------------------------------
(* What the disk holds for whoever opens it next.                          *)

(* The plain file called name has its metadata in block t.                 *)
TheFile(d, own, name, t) == t \in Heads(own) /\ d[t].type = "V_FILE" /\ d[t].name = name

(* The bytes of the file called name, of those with metadata in `files'.   *)
StoredAt(fat, d, files, name) ==
  LET found == {b \in files : d[b].name = name}
  IN  IF found = {} THEN Absent ELSE Content(fat, d, Min(found))

(* The blocks with metadata of the files that the table knows.             *)
Listing(d, files) == files = {b \in PlainFiles(d) : b < Persisted /\ FatOf(d)[b].occupied}

LEMMA StoredValue ==
  ASSUME NEW d, NEW name \in FileNames, NEW files, Listing(d, files)
  PROVE  Stored(d)[name] = StoredAt(FatOf(d), d, files, name)
  BY DEF Stored, StoredAt, Listing

LEMMA StoredDomain ==
  ASSUME NEW d
  PROVE  Stored(d) = [name \in FileNames |-> Stored(d)[name]]
  BY DEF Stored

LEMMA StoredContent ==
  ASSUME Persisted = Blocks, NEW d, NEW fat, NEW free, NEW own, NEW len, NEW pos, NEW rank,
         Good(d, fat, free, own, len, pos, rank), NEW name \in FileNames
  PROVE  /\ (\A t \in Blk : ~TheFile(d, own, name, t)) => Stored(d)[name] = Absent
         /\ \A t \in Blk : TheFile(d, own, name, t) =>
              Stored(d)[name] = Joined(d, Chain(fat, t, len[t]), d[t].eof)
<1>1. PICK N : N = Heads(own) /\ Tree(d, N, rank)
  BY DEF Good, Filed
<1>2. Nodes(d) = N
  BY <1>1, WalkVisits
<1>3. PICK files : Listing(d, files)
  BY DEF Listing
<1>4. FatOf(d) = fat
  BY DEF Good
<1>5. files = {b \in N : d[b].type = "V_FILE"}
  <2>1. ASSUME NEW b \in N
        PROVE  b < Persisted /\ fat[b].occupied
    <3>1. b \in Blk /\ own[b] = b /\ b # NIL
      BY <1>1, NilOutside DEF Heads
    <3>2. Follows(fat, own, len, pos, NIL, b)
      BY <3>1, LayoutAt DEF Good
    <3>3. b < Blocks
      BY <3>1, Positions DEF Blk
    <3> QED
      BY <3>1, <3>2, <3>3 DEF Follows
  <2>2. PlainFiles(d) = {b \in N : d[b].type = "V_FILE"}
    BY <1>2 DEF PlainFiles
  <2> QED
    BY <1>3, <1>4, <2>1, <2>2 DEF Listing
<1>6. PICK found : found = {b \in files : d[b].name = name}
  OBVIOUS
<1>7. Stored(d)[name] = IF found = {} THEN Absent ELSE Content(fat, d, Min(found))
  <2>1. Stored(d)[name] = StoredAt(fat, d, files, name)
    BY <1>3, <1>4, StoredValue
  <2> QED
    BY <1>6, <2>1 DEF StoredAt
<1>8. \A t : t \in found <=> TheFile(d, own, name, t)
  BY <1>1, <1>5, <1>6 DEF TheFile
<1>9. N \subseteq Blk
  BY <1>1 DEF Heads
<1>10. ASSUME \A t \in Blk : ~TheFile(d, own, name, t)
       PROVE  Stored(d)[name] = Absent
  <2>1. found = {}
    BY <1>1, <1>8, <1>9, <1>10 DEF TheFile
  <2> QED
    BY <1>7, <2>1
<1>11. ASSUME NEW t \in Blk, TheFile(d, own, name, t)
       PROVE  Stored(d)[name] = Joined(d, Chain(fat, t, len[t]), d[t].eof)
  <2>1. \A b, c \in N : d[b].name = d[c].name => b = c
    BY <1>1 DEF Tree, UniqueNames
  <2>2. found = {t}
    BY <1>1, <1>8, <1>11, <2>1 DEF TheFile
  <2>3. Min(found) = t
    <3>1. found \in SUBSET Nat /\ found # {}
      BY <2>2, Positions DEF Blk
    <3> QED
      BY <2>2, <3>1, LeastIsMin
  <2>4. d[t].size = len[t]
    BY <1>11, GoodFacts DEF TheFile
  <2> QED
    BY <1>7, <2>2, <2>3, <2>4 DEF Content
<1> QED
  BY <1>10, <1>11

(* A file on the disk, and the buffer that has its bytes.                  *)
LEMMA StoredBuffer ==
  ASSUME Persisted = Blocks, NEW d, NEW fat, NEW free, NEW own, NEW len, NEW pos, NEW rank,
         Good(d, fat, free, own, len, pos, rank), NEW name \in FileNames,
         NEW t \in Blk, TheFile(d, own, name, t),
         NEW binary \in Seq(Byte), NEW eof \in Nat, SameBytes(d, own, pos, t, eof, binary),
         d[t].eof = eof, eof <= Len(binary)
  PROVE  Stored(d)[name] = SubSeq(binary, 1, eof)
<1>1. t \in Heads(own) /\ eof <= len[t] * BlockSize
  <2>1. Tree(d, Heads(own), rank) /\ t \in Heads(own)
    BY DEF Good, Filed, TheFile
  <2>2. Node(d, Heads(own), rank, t)
    BY <2>1, TreeNode
  <2>3. d[t].eof \in 0 .. d[t].size * BlockSize /\ d[t].size = len[t]
    BY <2>1, <2>2, GoodFacts DEF Node, TheFile
  <2>4. PICK k : k = len[t] * BlockSize
    OBVIOUS
  <2>5. eof \in 0 .. k
    BY <2>3, <2>4
  <2> QED
    BY <2>1, <2>4, <2>5
<1>2. Joined(d, Chain(fat, t, len[t]), eof) = SubSeq(binary, 1, eof)
  BY <1>1, SameContent
<1>3. Stored(d)[name] = Joined(d, Chain(fat, t, len[t]), d[t].eof)
  BY StoredContent
<1> QED
  BY <1>2, <1>3

LEMMA SomeBuffer ==
  ASSUME Persisted = Blocks, NEW d, NEW fat, NEW free, NEW own, NEW len, NEW pos, NEW rank,
         Good(d, fat, free, own, len, pos, rank), NEW name \in FileNames,
         NEW t \in Blk, TheFile(d, own, name, t)
  PROVE  \E binary \in Seq(Byte), eof \in Nat :
           d[t].eof = eof /\ eof <= Len(binary) /\ SameBytes(d, own, pos, t, eof, binary)
<1>1. t \in Heads(own) /\ Tree(d, Heads(own), rank)
  BY DEF Good, Filed, TheFile
<1>2. Node(d, Heads(own), rank, t)
  BY <1>1, TreeNode
<1>3. d[t].eof \in 0 .. d[t].size * BlockSize /\ d[t].size = len[t] /\ len[t] \in Nat
  BY <1>1, <1>2, GoodFacts DEF Node, TheFile
<1>4. PICK n : n = len[t] * BlockSize
  OBVIOUS
<1>5. PICK binary : binary = Joined(d, Chain(fat, t, len[t]), n)
  OBVIOUS
<1>6. PICK eof \in 0 .. n : eof = d[t].eof
  BY <1>3, <1>4
<1>7. binary \in Seq(Byte) /\ Len(binary) = n /\ SameBytes(d, own, pos, t, eof, binary)
  BY <1>1, <1>4, <1>5, OpenedBytes
<1>8. n \in Nat
  BY <1>3, <1>4, DiskAssumption
<1> QED
  BY <1>6, <1>7, <1>8

(* File t has the same blocks with the same bytes on the disks d and e.    *)
KeptFile(d, own, pos, e, own1, pos1, t) ==
  \A b \in Blk : /\ own1[b] = t <=> own[b] = t
                 /\ own[b] = t => pos1[b] = pos[b] /\ e[b] = d[b]

LEMMA StoredKept ==
  ASSUME Persisted = Blocks, NEW name \in FileNames, NEW t \in Blk,
         NEW d, NEW fat, NEW free, NEW own, NEW len, NEW pos, NEW rank,
         Good(d, fat, free, own, len, pos, rank), TheFile(d, own, name, t),
         NEW e, NEW fat1, NEW free1, NEW own1, NEW len1, NEW pos1, NEW rank1,
         Good(e, fat1, free1, own1, len1, pos1, rank1), KeptFile(d, own, pos, e, own1, pos1, t)
  PROVE  Stored(e)[name] = Stored(d)[name]
<1>1. PICK binary \in Seq(Byte), eof \in Nat :
        d[t].eof = eof /\ eof <= Len(binary) /\ SameBytes(d, own, pos, t, eof, binary)
  BY SomeBuffer
<1>2. own[t] = t /\ own1[t] = t /\ e[t] = d[t]
  BY DEF TheFile, Heads, KeptFile
<1>3. TheFile(e, own1, name, t)
  BY <1>2 DEF TheFile, Heads
<1>4. SameBytes(e, own1, pos1, t, eof, binary)
  BY <1>1 DEF SameBytes, KeptFile
<1>5. Stored(d)[name] = SubSeq(binary, 1, eof)
  BY <1>1, StoredBuffer
<1>6. e[t].eof = eof /\ eof <= Len(binary)
  BY <1>1, <1>2
<1>7. Stored(e)[name] = SubSeq(binary, 1, eof)
  BY <1>3, <1>4, <1>6, StoredBuffer
<1> QED
  BY <1>5, <1>7

LEMMA StoredFrame ==
  ASSUME Persisted = Blocks, NEW name \in FileNames,
         NEW d, NEW fat, NEW free, NEW own, NEW len, NEW pos, NEW rank,
         Good(d, fat, free, own, len, pos, rank),
         NEW e, NEW fat1, NEW free1, NEW own1, NEW len1, NEW pos1, NEW rank1,
         Good(e, fat1, free1, own1, len1, pos1, rank1),
         \A t \in Blk : TheFile(d, own, name, t) => KeptFile(d, own, pos, e, own1, pos1, t),
         \A t \in Blk : TheFile(e, own1, name, t) => TheFile(d, own, name, t)
  PROVE  Stored(e)[name] = Stored(d)[name]
<1>1. CASE \E t \in Blk : TheFile(d, own, name, t)
  BY <1>1, StoredKept
<1>2. CASE \A t \in Blk : ~TheFile(d, own, name, t)
  <2>1. \A t \in Blk : ~TheFile(e, own1, name, t)
    BY <1>2
  <2> QED
    BY <1>2, <2>1, StoredContent
<1> QED
  BY <1>1, <1>2

LEMMA SyncedKeeps ==
  ASSUME NEW d, NEW w, NEW r, NEW s \in Blk, NEW meta, NEW binary,
         NEW own, NEW len, NEW pos, NEW own1, NEW len1, NEW pos1,
         Synced(d, w, r, s, meta, binary, own, len, pos, own1, len1, pos1),
         NEW t \in Blk, t # s, NEW e, SameFile(own, t, Held(d, w), e)
  PROVE  KeptFile(e, own, pos, Held(d, r), own1, pos1, t)
<1>1. t # NIL
  BY NilOutside
<1>2. ASSUME NEW b \in Blk
      PROVE  own1[b] = t <=> own[b] = t
  <2>1. own[b] # NIL /\ own[b] # s => own1[b] = own[b]
    BY DEF Synced
  <2>2. own1[b] # NIL /\ own1[b] # s => own1[b] = own[b]
    BY DEF Synced
  <2> QED
    BY <1>1, <2>1, <2>2
<1>3. ASSUME NEW b \in Blk, own[b] = t
      PROVE  pos1[b] = pos[b] /\ Held(d, r)[b] = e[b]
  <2>1. pos1[b] = pos[b] /\ Held(d, r)[b] = Held(d, w)[b]
    BY <1>1, <1>3 DEF Synced
  <2> QED
    BY <1>3, <2>1 DEF SameFile
<1> QED
  BY <1>2, <1>3 DEF KeptFile

(* The disk e holds the files F but for the one called name, which is c.   *)
Leaves(e, F, name, c) ==
  \A n \in FileNames : Stored(e)[n] = IF n = name THEN c ELSE F[n]

-----------------------------------------------------------------------------
(* The end of a call.                                                      *)

SamePlace(v, u) ==
  /\ u.name = v.name /\ u.type = v.type /\ u.start = v.start
  /\ u.parent = v.parent /\ u.entries = v.entries

(* New sizes do not change the tree.                                       *)
LEMMA TreeResized ==
  ASSUME NEW d, NEW N, NEW rank, Tree(d, N, rank), NEW s \in N, NEW e,
         \A b \in N : b # s => e[b] = d[b],
         e[s] \in Vnode, SamePlace(d[s], e[s]), e[s].eof \in 0 .. e[s].size * BlockSize
  PROVE  Tree(e, N, rank)
<1>1. \A b \in N : Node(d, N, rank, b)
  BY DEF Tree
<1>2. ASSUME NEW b \in N
      PROVE  /\ e[b] \in Vnode /\ e[b].name = d[b].name /\ e[b].type = d[b].type /\ e[b].start = d[b].start
             /\ e[b].parent = d[b].parent /\ e[b].entries = d[b].entries
             /\ b # s => e[b] = d[b]
  <2>1. CASE b = s
    BY <2>1 DEF SamePlace
  <2>2. CASE b # s
    BY <1>1, <2>2 DEF Node
  <2> QED
    BY <2>1, <2>2
<1>3. ASSUME NEW b \in N
      PROVE  Node(e, N, rank, b)
  <2>1. e[b] \in Vnode /\ e[b].start = b
    BY <1>1, <1>2 DEF Node
  <2>2. b # ROOT => /\ e[b].parent \in N
                    /\ rank[b] = rank[e[b].parent] + 1
                    /\ \E i \in DOMAIN e[e[b].parent].entries : e[e[b].parent].entries[i] = b
    <3>1. SUFFICES ASSUME b # ROOT
                   PROVE  /\ e[b].parent \in N
                          /\ rank[b] = rank[e[b].parent] + 1
                          /\ \E i \in DOMAIN e[e[b].parent].entries : e[e[b].parent].entries[i] = b
      OBVIOUS
    <3>2. PICK p \in N : /\ p = d[b].parent /\ rank[b] = rank[p] + 1
                         /\ \E i \in DOMAIN d[p].entries : d[p].entries[i] = b
      BY <1>1, <3>1 DEF Node
    <3>3. e[b].parent = p /\ e[p].entries = d[p].entries
      BY <1>2, <3>2
    <3> QED
      BY <3>2, <3>3
  <2>3. \A i \in DOMAIN e[b].entries :
          e[b].entries[i] \in N /\ e[b].entries[i] # ROOT /\ e[e[b].entries[i]].parent = b
    BY <1>1, <1>2 DEF Node
  <2>4. \A i, j \in DOMAIN e[b].entries : e[b].entries[i] = e[b].entries[j] => i = j
    BY <1>1, <1>2 DEF Node
  <2>5. e[b].type = "V_FILE" => /\ e[b].entries = <<>> /\ e[b].name \in FileNames
                                /\ e[b].eof \in 0 .. e[b].size * BlockSize
    <3>1. d[b].type = "V_FILE" => /\ d[b].entries = <<>> /\ d[b].name \in FileNames
                                  /\ d[b].eof \in 0 .. d[b].size * BlockSize
      BY <1>1 DEF Node
    <3>2. CASE b = s
      BY <1>2, <3>1, <3>2
    <3>3. CASE b # s
      BY <1>2, <3>1, <3>3
    <3> QED
      BY <3>2, <3>3
  <2> QED
    BY <2>1, <2>2, <2>3, <2>4, <2>5 DEF Node
<1>4. RootNode(e, N, rank)
  <2>1. RootNode(d, N, rank)
    BY DEF Tree
  <2> QED
    BY <1>2, <2>1 DEF RootNode
<1>5. UniqueNames(e, N)
  <2>1. UniqueNames(d, N)
    BY DEF Tree
  <2> QED
    BY <1>2, <2>1 DEF UniqueNames
<1> QED
  BY <1>3, <1>4, <1>5 DEF Tree

(* A state that a call may leave behind: the disk, once all the writes of  *)
(* the work w are made, and the open files fds.                            *)
Reached(w, fds) ==
  /\ w \in Works
  /\ \E own, len, pos, rank :
       /\ Good(Held(disk, w), w.fat, w.free, own, len, pos, rank)
       /\ OpenOK(fds, Held(disk, w), own, pos)

(* The open file f with other bytes.                                       *)
Refit(f, g) ==
  /\ IsFile(g)
  /\ g.meta \in Vnode /\ SamePlace(f.meta, g.meta)
  /\ g.meta.eof \in 0 .. g.meta.size * BlockSize
  /\ g.binary \in Seq(Byte) /\ g.offset \in 0 .. g.meta.eof /\ g.meta.eof <= Len(g.binary)

(* Exactly the descriptor fd may have changed.                             *)
Handed(old, fd, g, new) ==
  /\ \A fe \in Descriptors : fe # fd => new[fe] = old[fe]
  /\ new[fd] = g \/ new[fd] = Closed

LEMMA CommitGood ==
  ASSUME Persisted = Blocks, NEW own, NEW len, NEW pos, NEW rank,
         Good(disk, ftable, free_blocks, own, len, pos, rank), OpenOK(file_desc, disk, own, pos),
         NEW fd \in Descriptors, file_desc[fd] # Closed, NEW g, Refit(file_desc[fd], g),
         NEW fds, Handed(file_desc, fd, g, fds),
         NEW r, r = vfs_sync_file(Work, g.meta, g.binary)
  PROVE  \/ r.bad
         \/ /\ Reached(r, fds)
            /\ Leaves(Held(disk, r), Stored(disk), g.meta.name, SubSeq(g.binary, 1, g.meta.eof))
<1>1. PICK w : w = Work
  OBVIOUS
<1>2. Settled(disk, w, own, len, pos, NIL) /\ Held(disk, w) = disk
  BY <1>1, WorkFree DEF Work
<1>3. IsDisk(disk) /\ Filed(disk, own, len, rank) /\ Typed(own, len, pos)
  BY DEF Good, Layout
<1>4. OpenAt(file_desc[fd], disk, own, pos)
  BY DEF OpenOK
<1>5. PICK s : s = file_desc[fd].meta.start
  OBVIOUS
<1>6. s \in Heads(own) /\ s \in Blk /\ own[s] = s /\ disk[s] = file_desc[fd].meta
      /\ IsVnode(disk[s]) /\ disk[s].size = len[s]
  <2>1. s \in Heads(own) /\ disk[s] = file_desc[fd].meta
    BY <1>4, <1>5 DEF OpenAt
  <2> QED
    BY <2>1, GoodFacts
<1>7. PICK meta \in Vnode : meta = g.meta
  BY DEF Refit
<1>8. SamePlace(disk[s], meta) /\ meta.eof \in 0 .. meta.size * BlockSize /\ StartsAt(meta, s)
  <2>1. SamePlace(disk[s], meta) /\ meta.eof \in 0 .. meta.size * BlockSize
    BY <1>6, <1>7 DEF Refit
  <2>2. meta.start = s
    BY <1>5, <1>7 DEF Refit, SamePlace
  <2> QED
    BY <2>1, <2>2 DEF StartsAt
<1>9. PICK binary \in Seq(Byte) : binary = g.binary
  BY DEF Refit
<1>10. r = vfs_sync_file(w, meta, binary)
  BY <1>1, <1>7, <1>9
<1>11. \/ r.bad
       \/ \E own1, len1, pos1 : Synced(disk, w, r, s, meta, binary, own, len, pos, own1, len1, pos1)
  BY <1>2, <1>3, <1>6, <1>8, <1>10, SyncResult
<1>12. ASSUME NEW own1, NEW len1, NEW pos1,
              Synced(disk, w, r, s, meta, binary, own, len, pos, own1, len1, pos1)
       PROVE  /\ Reached(r, fds)
              /\ Leaves(Held(disk, r), Stored(disk), g.meta.name, SubSeq(g.binary, 1, g.meta.eof))
  <2>1. PICK d : d = Held(disk, r)
    OBVIOUS
  <2>2. Heads(own1) = Heads(own)
    <3>1. Heads(own1) = Heads(own) \cup {s}
      BY <1>6, <1>12, SyncedHeads
    <3> QED
      BY <1>6, <3>1
  <2>3. d[s] = meta
    BY <1>12, <2>1 DEF Synced
  <2>4. \A b \in Heads(own) : b # s => d[b] = disk[b]
    <3>1. \A b \in Blk : own[b] # NIL /\ own[b] # s => d[b] = Held(disk, w)[b]
      BY <1>12, <2>1 DEF Synced
    <3> QED
      BY <1>2, <3>1, NilOutside DEF Heads
  <2>5. Tree(disk, Heads(own), rank)
    BY <1>3 DEF Filed
  <2>6. Tree(d, Heads(own1), rank)
    BY <1>6, <1>7, <1>8, <2>2, <2>3, <2>4, <2>5, TreeResized
  <2>7. FiledBut(Held(disk, w), own, len, s)
    BY <1>2, <1>3 DEF Filed, FiledBut
  <2>9. r \in Works /\ Good(Held(disk, r), r.fat, r.free, own1, len1, pos1, rank)
    <3>1. Tree(Held(disk, r), Heads(own1), rank)
      BY <2>1, <2>6
    <3> QED
      BY <1>3, <1>6, <1>12, <2>7, <3>1, SyncGood
  <2>10. ASSUME NEW fe \in Descriptors, fds[fe] # Closed
         PROVE  OpenAt(fds[fe], Held(disk, r), own1, pos1) /\ file_desc[fe] # Closed
                /\ fds[fe].meta.start = file_desc[fe].meta.start
    <3>1. CASE fe = fd
      <4>1. fds[fd] = g
        BY <2>10, <3>1 DEF Handed
      <4>2. g.meta.start = s /\ g.meta.eof \in Int
        BY <1>7, <1>8, DiskAssumption DEF StartsAt, Refit
      <4>3. g.meta.type = "V_FILE"
        BY <1>4 DEF Refit, SamePlace, OpenAt
      <4>4. IsFile(g) /\ g.offset \in 0 .. g.meta.eof /\ g.meta.eof <= Len(g.binary) /\ g.binary \in Seq(Byte)
        BY DEF Refit
      <4>5. SameBytes(Held(disk, r), own1, pos1, s, g.meta.eof, binary)
        <5>1. PICK eof \in Int : eof = g.meta.eof /\ eof <= Len(binary)
          BY <1>9, <4>2, <4>4
        <5>2. SameBytes(Held(disk, r), own1, pos1, s, eof, binary)
          BY <1>6, <1>12, <5>1, SyncedBytes
        <5> QED
          BY <5>1, <5>2
      <4>6. OpenAt(g, Held(disk, r), own1, pos1)
        BY <1>6, <1>7, <1>9, <2>1, <2>2, <2>3, <4>2, <4>3, <4>4, <4>5 DEF OpenAt
      <4> QED
        BY <1>5, <3>1, <4>1, <4>2, <4>6
    <3>2. CASE fe # fd
      <4>1. fds[fe] = file_desc[fe]
        BY <3>2 DEF Handed
      <4>2. file_desc[fe].meta.start # s
        BY <1>5, <2>10, <3>2, <4>1 DEF OpenOK, OpenOnce
      <4>3. OpenAt(file_desc[fe], disk, own, pos)
        BY <2>10, <4>1 DEF OpenOK
      <4>4. PICK f : f = file_desc[fe]
        OBVIOUS
      <4>5. OpenAt(f, Held(disk, r), own1, pos1)
        <5>1. SameFile(own, f.meta.start, Held(disk, w), disk)
          BY <1>2 DEF SameFile
        <5> QED
          BY <1>6, <1>12, <4>2, <4>3, <4>4, <5>1, SyncedOthers
      <4> QED
        BY <2>10, <4>1, <4>4, <4>5
    <3> QED
      BY <3>1, <3>2
  <2>11. OpenOnce(fds)
    <3>1. OpenOnce(file_desc)
      BY DEF OpenOK
    <3> QED
      BY <2>10, <3>1 DEF OpenOnce
  <2>12. OpenOK(fds, Held(disk, r), own1, pos1)
    BY <2>10, <2>11 DEF OpenOK
  <2>13. Good(d, r.fat, r.free, own1, len1, pos1, rank)
    BY <2>1, <2>9
  <2>14. PICK eof \in Nat : eof = meta.eof /\ eof <= Len(binary)
    BY <1>7, <1>8, <1>9 DEF Refit
  <2>15. TheFile(d, own1, meta.name, s) /\ d[s].eof = eof
    BY <1>4, <1>6, <1>8, <2>2, <2>3, <2>14 DEF TheFile, OpenAt, SamePlace
  <2>16. meta.name \in FileNames => Stored(d)[meta.name] = SubSeq(binary, 1, eof)
    <3>1. SameBytes(Held(disk, r), own1, pos1, s, eof, binary)
      BY <1>6, <1>12, <2>14, SyncedBytes
    <3>2. SameBytes(d, own1, pos1, s, eof, binary)
      BY <2>1, <3>1
    <3> QED
      BY <1>6, <2>13, <2>14, <2>15, <3>2, StoredBuffer
  <2>17. ASSUME NEW n \in FileNames, n # meta.name
         PROVE  Stored(d)[n] = Stored(disk)[n]
    <3>1. ASSUME NEW t \in Blk, TheFile(disk, own, n, t)
          PROVE  KeptFile(disk, own, pos, d, own1, pos1, t)
      <4>1. t # s
        BY <1>8, <2>17, <3>1 DEF TheFile, SamePlace
      <4>2. SameFile(own, t, Held(disk, w), disk)
        BY <1>2 DEF SameFile
      <4>3. KeptFile(disk, own, pos, Held(disk, r), own1, pos1, t)
        BY <1>6, <1>12, <4>1, <4>2, SyncedKeeps
      <4> QED
        BY <2>1, <4>3
    <3>2. ASSUME NEW t \in Blk, TheFile(d, own1, n, t)
          PROVE  TheFile(disk, own, n, t)
      <4>1. t \in Heads(own) /\ t # s
        BY <2>2, <2>3, <2>17, <3>2 DEF TheFile
      <4> QED
        BY <2>4, <3>2, <4>1 DEF TheFile
    <3> QED
      BY <2>13, <3>1, <3>2, StoredFrame
  <2>18. Leaves(d, Stored(disk), meta.name, SubSeq(binary, 1, eof))
    BY <2>16, <2>17 DEF Leaves
  <2> QED
    BY <1>7, <1>9, <2>1, <2>9, <2>12, <2>14, <2>18 DEF Reached
<1> QED
  BY <1>11, <1>12

-----------------------------------------------------------------------------
(* Directories.                                                            *)

(* v is u but for its entries.                                             *)
SameButEntries(u, v) ==
  /\ v.name = u.name /\ v.type = u.type /\ v.start = u.start /\ v.parent = u.parent
  /\ v.size = u.size /\ v.eof = u.eof

(* Entry s comes behind the others.                                        *)
EntryAdded(u, v, s) ==
  \E n \in Nat : /\ DOMAIN u.entries = 1 .. n /\ DOMAIN v.entries = 1 .. n + 1
                 /\ \A i \in 1 .. n : v.entries[i] = u.entries[i]
                 /\ v.entries[n + 1] = s

(* A new node without entries.                                             *)
NewNode(v, s, p) ==
  /\ v \in Vnode /\ v.start = s /\ v.parent = p /\ v.entries = <<>>
  /\ v.type = "V_FILE" => v.name \in FileNames /\ v.eof \in 0 .. v.size * BlockSize

(* The disk e is the disk d with the new node s in directory p.            *)
Grown(d, e, N, p, s) ==
  /\ \A b \in N : b # p => e[b] = d[b]
  /\ e[p] \in Vnode /\ SameButEntries(d[p], e[p]) /\ EntryAdded(d[p], e[p], s)
  /\ d[p].type = "V_DIRECTORY" /\ NewNode(e[s], s, p)
  /\ \A b \in N : d[b].name # e[s].name

LEMMA TreeGrown ==
  ASSUME Persisted = Blocks, NEW d, NEW N, NEW rank, Tree(d, N, rank),
         NEW p \in N, NEW s \in Blk, s \notin N, NEW e, Grown(d, e, N, p, s),
         NEW rank1, rank1 = Put(rank, s, rank[p] + 1),
         NEW M, M = N \cup {s}
  PROVE  Tree(e, M, rank1)
<1> /\ \A b \in N : b # p => e[b] = d[b]
    /\ e[p] \in Vnode /\ SameButEntries(d[p], e[p]) /\ EntryAdded(d[p], e[p], s)
    /\ d[p].type = "V_DIRECTORY" /\ NewNode(e[s], s, p)
    /\ \A b \in N : d[b].name # e[s].name
  BY DEF Grown
<1>1. \A b \in N : Node(d, N, rank, b)
  BY DEF Tree
<1>2. RootNode(d, N, rank) /\ UniqueNames(d, N) /\ N \subseteq Blk /\ rank \in [Blk -> Nat]
  BY DEF Tree
<1>3. s # ROOT /\ s # p
  BY <1>2 DEF RootNode
<1>4. PICK n \in Nat : /\ DOMAIN d[p].entries = 1 .. n /\ DOMAIN e[p].entries = 1 .. n + 1
                       /\ \A i \in 1 .. n : e[p].entries[i] = d[p].entries[i]
                       /\ e[p].entries[n + 1] = s
  BY DEF EntryAdded
<1>5. rank1 \in [Blk -> Nat] /\ rank1[s] = rank[p] + 1 /\ \A b \in N : rank1[b] = rank[b]
  <2>1. rank[p] + 1 \in Nat
    BY <1>2
  <2> QED
    BY <1>2, <2>1 DEF Put
<1>6. ASSUME NEW b \in N
      PROVE  /\ e[b] \in Vnode /\ e[b].name = d[b].name /\ e[b].type = d[b].type /\ e[b].start = d[b].start
             /\ e[b].parent = d[b].parent
             /\ b # p => e[b] = d[b] /\ e[b].entries = d[b].entries
             /\ e[b].size = d[b].size /\ e[b].eof = d[b].eof
  <2>1. CASE b = p
    BY <2>1 DEF SameButEntries
  <2>2. CASE b # p
    BY <1>1, <2>2 DEF Node
  <2> QED
    BY <2>1, <2>2
<1>7. ASSUME NEW b \in N
      PROVE  Node(e, M, rank1, b)
  <2>1. e[b] \in Vnode /\ e[b].start = b
    BY <1>1, <1>6 DEF Node
  <2>2. ASSUME b # ROOT
        PROVE  /\ e[b].parent \in M
               /\ rank1[b] = rank1[e[b].parent] + 1
               /\ \E i \in DOMAIN e[e[b].parent].entries : e[e[b].parent].entries[i] = b
    <3>1. PICK q \in N : /\ q = d[b].parent /\ rank[b] = rank[q] + 1
                         /\ \E i \in DOMAIN d[q].entries : d[q].entries[i] = b
      BY <1>1, <2>2 DEF Node
    <3>2. e[b].parent = q /\ rank1[q] = rank[q] /\ rank1[b] = rank[b]
      BY <1>5, <1>6, <3>1
    <3>3. PICK i : i \in DOMAIN d[q].entries /\ d[q].entries[i] = b
      BY <3>1
    <3>4. i \in DOMAIN e[q].entries /\ e[q].entries[i] = b
      <4>1. CASE q = p
        BY <1>4, <3>3, <4>1
      <4>2. CASE q # p
        BY <1>6, <3>3, <4>2
      <4> QED
        BY <4>1, <4>2
    <3> QED
      BY <3>1, <3>2, <3>4
  <2>3. ASSUME NEW i \in DOMAIN e[b].entries
        PROVE  e[b].entries[i] \in M /\ e[b].entries[i] # ROOT /\ e[e[b].entries[i]].parent = b
    <3>1. CASE b = p /\ i = n + 1
      <4>1. e[b].entries[i] = s /\ e[s].parent = p
        BY <1>4, <3>1 DEF NewNode
      <4> QED
        BY <1>3, <3>1, <4>1
    <3>2. CASE ~(b = p /\ i = n + 1)
      <4>1. i \in DOMAIN d[b].entries /\ e[b].entries[i] = d[b].entries[i]
        <5>1. CASE b = p
          BY <1>4, <2>3, <3>2, <5>1
        <5>2. CASE b # p
          BY <1>6, <2>3, <5>2
        <5> QED
          BY <5>1, <5>2
      <4>2. PICK c \in N : c = d[b].entries[i] /\ c # ROOT /\ d[c].parent = b
        BY <1>1, <4>1 DEF Node
      <4> QED
        BY <1>6, <4>1, <4>2
    <3> QED
      BY <3>1, <3>2
  <2>4. ASSUME NEW i \in DOMAIN e[b].entries, NEW j \in DOMAIN e[b].entries,
               e[b].entries[i] = e[b].entries[j]
        PROVE  i = j
    <3>0. \A k, l \in DOMAIN d[b].entries : d[b].entries[k] = d[b].entries[l] => k = l
      BY <1>1 DEF Node
    <3>1. CASE b # p
      BY <1>6, <2>4, <3>0, <3>1
    <3>2. CASE b = p
      <4>1. \A k \in 1 .. n : d[p].entries[k] # s
        BY <1>1, <1>4 DEF Node
      <4>2. i \in 1 .. n + 1 /\ j \in 1 .. n + 1
        BY <1>4, <2>4, <3>2
      <4>3. i # n + 1 => i \in 1 .. n /\ e[p].entries[i] = d[p].entries[i]
        BY <1>4, <4>2
      <4>4. j # n + 1 => j \in 1 .. n /\ e[p].entries[j] = d[p].entries[j]
        BY <1>4, <4>2
      <4> QED
        BY <1>4, <2>4, <3>0, <3>2, <4>1, <4>3, <4>4
    <3> QED
      BY <3>1, <3>2
  <2>5. e[b].type = "V_FILE" => /\ e[b].entries = <<>> /\ e[b].name \in FileNames
                                /\ e[b].eof \in 0 .. e[b].size * BlockSize
    <3>1. d[b].type = "V_FILE" => /\ d[b].entries = <<>> /\ d[b].name \in FileNames
                                  /\ d[b].eof \in 0 .. d[b].size * BlockSize
      BY <1>1 DEF Node
    <3>2. CASE b = p
      BY <1>6, <3>2
    <3>3. CASE b # p
      BY <1>6, <3>1, <3>3
    <3> QED
      BY <3>2, <3>3
  <2> QED
    BY <2>1, <2>2, <2>3, <2>4, <2>5 DEF Node
<1>8. Node(e, M, rank1, s)
  <2>1. e[s] \in Vnode /\ e[s].start = s /\ e[s].parent = p /\ e[s].entries = <<>>
        /\ (e[s].type = "V_FILE" => e[s].name \in FileNames /\ e[s].eof \in 0 .. e[s].size * BlockSize)
    BY DEF NewNode
  <2>2. rank1[s] = rank1[p] + 1
    BY <1>5
  <2>3. n + 1 \in DOMAIN e[p].entries /\ e[p].entries[n + 1] = s
    BY <1>4
  <2>4. DOMAIN e[s].entries = {}
    BY <2>1
  <2> QED
    BY <2>1, <2>2, <2>3, <2>4 DEF Node
<1>9. RootNode(e, M, rank1)
  BY <1>2, <1>5, <1>6 DEF RootNode
<1>10. UniqueNames(e, M)
  BY <1>2, <1>6 DEF UniqueNames
<1> QED
  BY <1>2, <1>5, <1>7, <1>8, <1>9, <1>10 DEF Tree

(* A directory with a new entry, and new metadata.                         *)
Adding(v, s) == [v EXCEPT !.entries = Append(@, s)]

LEMMA AppendEntries ==
  ASSUME NEW es \in Seq(Blk), NEW s \in Blk, NEW new, new = Append(es, s)
  PROVE  \E n \in Nat : /\ new \in Seq(Blk) /\ DOMAIN es = 1 .. n /\ DOMAIN new = 1 .. n + 1
                        /\ \A i \in 1 .. n : new[i] = es[i]
                        /\ new[n + 1] = s
<1>1. PICK n \in Nat : n = Len(es) /\ DOMAIN es = 1 .. n
  BY LenProperties
<1>2. /\ new \in Seq(Blk) /\ Len(new) = n + 1
      /\ \A i \in 1 .. n : new[i] = es[i]
      /\ new[n + 1] = s
  BY <1>1, AppendProperties
<1>3. DOMAIN new = 1 .. n + 1
  BY <1>2, LenProperties
<1> QED
  BY <1>1, <1>2, <1>3

LEMMA AddingFields ==
  ASSUME NEW v \in Vnode, NEW s \in Blk, NEW u, u = Adding(v, s)
  PROVE  u \in Vnode /\ SameButEntries(v, u) /\ EntryAdded(v, u, s)
<1>1. PICK es \in Seq(Blk) : es = v.entries
  BY VnodeFields
<1>2. PICK new : new = Append(es, s)
  OBVIOUS
<1>3. PICK n \in Nat : /\ new \in Seq(Blk) /\ DOMAIN es = 1 .. n /\ DOMAIN new = 1 .. n + 1
                       /\ \A i \in 1 .. n : new[i] = es[i]
                       /\ new[n + 1] = s
  BY <1>2, AppendEntries
<1>4. u = [name |-> v.name, type |-> v.type, start |-> v.start, size |-> v.size, eof |-> v.eof,
           parent |-> v.parent, entries |-> new]
  BY <1>1, <1>2 DEF Vnode, Adding
<1>5. u \in Vnode
  BY <1>3, <1>4 DEF Vnode, Blk
<1>6. SameButEntries(v, u)
  BY <1>4 DEF SameButEntries
<1>7. EntryAdded(v, u, s)
  <2>1. u.entries = new
    BY <1>4
  <2>2. /\ DOMAIN v.entries = 1 .. n /\ DOMAIN u.entries = 1 .. n + 1
        /\ \A i \in 1 .. n : u.entries[i] = v.entries[i]
        /\ u.entries[n + 1] = s
    BY <1>1, <1>3, <2>1
  <2> QED
    BY <2>2 DEF EntryAdded
<1> QED
  BY <1>5, <1>6, <1>7

NewMeta(name, type, s, size, eof, p) ==
  [name |-> name, type |-> type, start |-> s, size |-> size, eof |-> eof, parent |-> p, entries |-> <<>>]

LEMMA NewMetaOK ==
  ASSUME Persisted = Blocks, NEW name \in Names, NEW type \in {"V_FILE", "V_DIRECTORY"}, NEW s \in Blk,
         NEW size \in 0 .. Blocks, NEW eof \in NIL .. Blocks * BlockSize, NEW p \in Blk,
         type = "V_FILE" => name \in FileNames /\ eof \in 0 .. size * BlockSize,
         NEW v, v = NewMeta(name, type, s, size, eof, p)
  PROVE  v \in Vnode /\ StartsAt(v, s) /\ NewNode(v, s, p) /\ v.name = name
<1>1. <<>> \in Seq(Blk)
  OBVIOUS
<1>2. v \in Vnode
  BY <1>1 DEF Vnode, NewMeta, Blk
<1> QED
  BY <1>2 DEF NewMeta, StartsAt, NewNode

NewContent(meta) == IF meta.type = "V_FILE" THEN <<>> ELSE Absent

(* A new file or directory s in the directory p.                           *)
LEMMA EntryGood ==
  ASSUME Persisted = Blocks, NEW own, NEW len, NEW pos, NEW rank,
         Good(disk, ftable, free_blocks, own, len, pos, rank), OpenOK(file_desc, disk, own, pos),
         NEW p \in Heads(own), disk[p].type = "V_DIRECTORY",
         NEW s \in Blk, own[s] = NIL,
         NEW meta \in Vnode, StartsAt(meta, s), NewNode(meta, s, p),
         \A b \in Heads(own) : disk[b].name # meta.name,
         meta.type = "V_FILE" => meta.eof = 0,
         NEW binary \in Seq(Byte),
         NEW r, r = vfs_sync_file(write_block(Work, p, Adding(disk[p], s), "OVERWRITE"), meta, binary)
  PROVE  r.bad \/ (Reached(r, file_desc) /\ Leaves(Held(disk, r), Stored(disk), meta.name, NewContent(meta)))
<1>1. PICK w : w = Work
  OBVIOUS
<1>2. Settled(disk, w, own, len, pos, NIL) /\ Held(disk, w) = disk
  BY <1>1, WorkFree DEF Work
<1>3. IsDisk(disk) /\ Filed(disk, own, len, rank) /\ Typed(own, len, pos)
  BY DEF Good, Layout
<1>4. p \in Blk /\ own[p] = p /\ disk[p] \in Vnode /\ disk[p].start = p
  BY GoodFacts
<1>5. PICK u : u = Adding(disk[p], s)
  OBVIOUS
<1>6. u \in Vnode /\ SameButEntries(disk[p], u) /\ EntryAdded(disk[p], u, s)
  BY <1>4, <1>5, AddingFields
<1>7. PICK v : v = write_block(w, p, u, "OVERWRITE")
  OBVIOUS
<1>8. w \in Works /\ ~w.bad /\ Layout(w.fat, own, len, pos, NIL)
      /\ (\A b \in 0 .. ROOT - 1 : w.fat[b].occupied)
      /\ w.free = Cardinality(Vacant(w.fat)) /\ Held(disk, w)[0] = [free |-> w.free]
  BY <1>2 DEF Settled
<1>9. p \in All /\ BlockOK(p, u) /\ 0 \in All /\ 0 \notin Blk /\ p # 0
  BY <1>4, <1>6, VnodeOK, BlkInAll, Positions DEF Blk, All
<1>10. Wrote(w, v, p, u)
  BY <1>7, <1>8, <1>9, Overwrite
<1>11. v \in Works /\ v.fat = w.fat /\ v.free = w.free /\ v.at = w.at /\ v.bad = w.bad
  BY <1>10 DEF Wrote
<1>12. ASSUME NEW c \in All
       PROVE  Held(disk, v)[c] = IF c = p THEN u ELSE disk[c]
  <2>1. Held(disk, v)[c] = IF c = p THEN u ELSE Held(disk, w)[c]
    BY <1>3, <1>8, <1>9, <1>10, HeldOne
  <2> QED
    BY <1>2, <2>1
<1>13. Settled(disk, v, own, len, pos, NIL)
  <2>1. Held(disk, v)[0] = [free |-> v.free]
    BY <1>2, <1>8, <1>9, <1>11, <1>12
  <2> QED
    BY <1>8, <1>11, <2>1 DEF Settled
<1>14. r = vfs_sync_file(v, meta, binary)
  BY <1>1, <1>5, <1>7
<1>15. \/ r.bad
       \/ \E own1, len1, pos1 : Synced(disk, v, r, s, meta, binary, own, len, pos, own1, len1, pos1)
  BY <1>3, <1>13, <1>14, SyncResult
<1>16. \A b \in Blk : b \in All
  BY BlkInAll
<1>17. \A b \in Heads(own) : b \in Blk /\ own[b] = b /\ b # s /\ b # NIL
  BY NilOutside DEF Heads
<1>18. ASSUME NEW own1, NEW len1, NEW pos1,
              Synced(disk, v, r, s, meta, binary, own, len, pos, own1, len1, pos1)
       PROVE  Reached(r, file_desc) /\ Leaves(Held(disk, r), Stored(disk), meta.name, NewContent(meta))
  <2>1. PICK d : d = Held(disk, r)
    OBVIOUS
  <2>2. PICK N : N = Heads(own)
    OBVIOUS
  <2>3. Heads(own1) = Heads(own) \cup {s}
    BY <1>18, SyncedHeads
  <2>4. d[s] = meta
    BY <1>18, <2>1 DEF Synced
  <2>5. ASSUME NEW b \in Blk, own[b] # NIL
        PROVE  d[b] = IF b = p THEN u ELSE disk[b]
    <3>1. own[b] # s
      <4>1. Follows(w.fat, own, len, pos, NIL, b)
        BY <1>8, LayoutAt
      <4> QED
        BY <2>5, <4>1, NilOutside DEF Follows
    <3>2. d[b] = Held(disk, v)[b]
      BY <1>18, <2>1, <2>5, <3>1 DEF Synced
    <3> QED
      BY <1>12, <1>16, <3>2
  <2>6. Tree(disk, N, rank)
    BY <1>3, <2>2 DEF Filed
  <2>7. (\A b \in N : b # p => d[b] = disk[b]) /\ d[p] = u /\ s \notin N /\ p \in N
    BY <1>4, <1>17, <2>2, <2>5, NilOutside
  <2>8. PICK rank1 : rank1 = Put(rank, s, rank[p] + 1)
    OBVIOUS
  <2>9. PICK M : M = N \cup {s}
    OBVIOUS
  <2>10. Tree(d, M, rank1)
    <3>1. d[p] \in Vnode /\ SameButEntries(disk[p], d[p]) /\ EntryAdded(disk[p], d[p], s)
      BY <1>6, <2>7
    <3>2. NewNode(d[s], s, p) /\ \A b \in N : disk[b].name # d[s].name
      BY <2>2, <2>4
    <3>3. Grown(disk, d, N, p, s)
      BY <2>7, <3>1, <3>2 DEF Grown
    <3> QED
      BY <2>6, <2>7, <2>8, <2>9, <3>3, TreeGrown
  <2>11. Tree(Held(disk, r), Heads(own1), rank1)
    BY <2>1, <2>2, <2>3, <2>9, <2>10
  <2>12. FiledBut(Held(disk, v), own, len, s)
    <3>1. ASSUME NEW b \in Blk, own[b] # NIL, own[b] # b
          PROVE  Held(disk, v)[b] \in Data
      <4>1. b # p
        BY <1>4, <3>1
      <4>2. disk[b] \in Data
        BY <1>3, <3>1 DEF Filed
      <4> QED
        BY <1>12, <1>16, <4>1, <4>2
    <3>2. ASSUME NEW b \in Blk, own[b] = b
          PROVE  Held(disk, v)[b].size = len[b]
      <4>1. disk[b].size = len[b]
        BY <1>3, <3>2 DEF Filed
      <4> QED
        BY <1>6, <1>12, <1>16, <4>1 DEF SameButEntries
    <3> QED
      BY <3>1, <3>2 DEF FiledBut
  <2>13. r \in Works /\ Good(Held(disk, r), r.fat, r.free, own1, len1, pos1, rank1)
    BY <1>3, <1>18, <2>11, <2>12, SyncGood
  <2>14. ASSUME NEW fe \in Descriptors, file_desc[fe] # Closed
         PROVE  OpenAt(file_desc[fe], Held(disk, r), own1, pos1)
    <3>1. PICK f : f = file_desc[fe] /\ OpenAt(f, disk, own, pos)
      BY <2>14 DEF OpenOK
    <3>2. PICK t : t = f.meta.start /\ t \in Heads(own) /\ disk[t].type = "V_FILE"
      BY <3>1 DEF OpenAt
    <3>3. t # p /\ t # s
      BY <1>17, <3>2
    <3>4. SameFile(own, f.meta.start, Held(disk, v), disk)
      BY <1>4, <1>12, <1>16, <3>2, <3>3 DEF SameFile
    <3>5. OpenAt(f, Held(disk, r), own1, pos1)
      <4>1. f.meta.start # s
        BY <3>2, <3>3
      <4>2. OpenAt(f, disk, own, pos)
        BY <3>1
      <4> QED
        BY <1>18, <3>4, <4>1, <4>2, SyncedOthers
    <3> QED
      BY <3>1, <3>5
  <2>15. OpenOK(file_desc, Held(disk, r), own1, pos1)
    BY <2>14 DEF OpenOK
  <2>16. Good(d, r.fat, r.free, own1, len1, pos1, rank1)
    BY <2>1, <2>13
  <2>17. \A t \in Blk : \A n : TheFile(d, own1, n, t) /\ t # s => TheFile(disk, own, n, t)
    <3>1. SUFFICES ASSUME NEW t \in Blk, NEW n, TheFile(d, own1, n, t), t # s
                   PROVE  TheFile(disk, own, n, t)
      OBVIOUS
    <3>2. t \in N /\ t \in Heads(own)
      BY <2>2, <2>3, <3>1 DEF TheFile
    <3>3. d[p].type = "V_DIRECTORY"
      BY <1>6, <2>7 DEF SameButEntries
    <3>4. d[t] = disk[t]
      BY <2>7, <3>1, <3>2, <3>3 DEF TheFile
    <3> QED
      BY <3>1, <3>2, <3>4 DEF TheFile
  <2>18. ASSUME NEW n \in FileNames, n = meta.name
         PROVE  Stored(d)[n] = NewContent(meta)
    <3>1. ASSUME NEW t \in Blk, TheFile(d, own1, n, t)
          PROVE  t = s
      <4>1. TheFile(disk, own, n, t) => FALSE
        BY <2>18 DEF TheFile
      <4> QED
        BY <2>17, <3>1, <4>1
    <3>2. CASE meta.type = "V_FILE"
      <4>1. TheFile(d, own1, n, s) /\ d[s].eof = 0
        BY <2>3, <2>4, <2>18, <3>2 DEF TheFile
      <4>2. Stored(d)[n] = Joined(d, Chain(r.fat, s, len1[s]), d[s].eof)
        BY <2>16, <4>1, StoredContent
      <4>3. \A c : Joined(d, c, 0) = <<>>
        BY DEF Joined
      <4>4. Stored(d)[n] = <<>>
        BY <4>1, <4>2, <4>3
      <4> QED
        BY <3>2, <4>4 DEF NewContent
    <3>3. CASE meta.type # "V_FILE"
      <4>1. \A t \in Blk : ~TheFile(d, own1, n, t)
        BY <2>4, <3>1, <3>3 DEF TheFile
      <4>2. Stored(d)[n] = Absent
        BY <2>16, <4>1, StoredContent
      <4> QED
        BY <3>3, <4>2 DEF NewContent
    <3> QED
      BY <3>2, <3>3
  <2>19. ASSUME NEW n \in FileNames, n # meta.name
         PROVE  Stored(d)[n] = Stored(disk)[n]
    <3>1. ASSUME NEW t \in Blk, TheFile(disk, own, n, t)
          PROVE  KeptFile(disk, own, pos, d, own1, pos1, t)
      <4>1. t # s /\ t # p /\ own[t] = t
        BY <1>17, <3>1 DEF TheFile
      <4>2. SameFile(own, t, Held(disk, v), disk)
        BY <1>4, <1>12, <1>16, <4>1 DEF SameFile
      <4>3. KeptFile(disk, own, pos, Held(disk, r), own1, pos1, t)
        BY <1>18, <4>1, <4>2, SyncedKeeps
      <4> QED
        BY <2>1, <4>3
    <3>2. ASSUME NEW t \in Blk, TheFile(d, own1, n, t)
          PROVE  TheFile(disk, own, n, t)
      BY <2>4, <2>17, <2>19, <3>2 DEF TheFile
    <3> QED
      BY <2>16, <3>1, <3>2, StoredFrame
  <2>20. Leaves(d, Stored(disk), meta.name, NewContent(meta))
    BY <2>18, <2>19 DEF Leaves
  <2> QED
    BY <2>1, <2>13, <2>15, <2>20 DEF Reached
<1> QED
  BY <1>15, <1>18

-----------------------------------------------------------------------------
(* Removed entries.                                                        *)

(* v has the entries of u without entry s.                                 *)
EntryRemoved(u, v, s) ==
  \E n \in Nat : \E k \in 1 .. n :
    /\ DOMAIN u.entries = 1 .. n /\ u.entries[k] = s /\ DOMAIN v.entries = 1 .. n - 1
    /\ \A i \in 1 .. n - 1 : v.entries[i] = IF i < k THEN u.entries[i] ELSE u.entries[i + 1]

Dropping(v, s) == [v EXCEPT !.entries = RemoveFirst(@, s)]

Joint(r, s, t) == r = s \o t

LEMMA Concat ==
  ASSUME NEW s \in Seq(Blk), NEW t \in Seq(Blk), NEW r, Joint(r, s, t)
  PROVE  /\ r \in Seq(Blk) /\ Len(r) = Len(s) + Len(t)
         /\ \A i \in 1 .. Len(s) + Len(t) : r[i] = IF i <= Len(s) THEN s[i] ELSE t[i - Len(s)]
  BY ConcatProperties DEF Joint

Dropped(es, s, new) == new = RemoveFirst(es, s)

LEMMA DropEntry ==
  ASSUME NEW es \in Seq(Blk), NEW s, Contains(es, s), NEW new, Dropped(es, s, new)
  PROVE  \E n \in Nat : \E k \in 1 .. n :
           /\ DOMAIN es = 1 .. n /\ es[k] = s /\ new \in Seq(Blk) /\ DOMAIN new = 1 .. n - 1
           /\ \A i \in 1 .. n - 1 : new[i] = IF i < k THEN es[i] ELSE es[i + 1]
<1>1. PICK n \in Nat : n = Len(es) /\ DOMAIN es = 1 .. n
  BY LenProperties
<1>2. PICK I : I = {i \in 1 .. Len(es) : es[i] = s}
  OBVIOUS
<1>3. I \in SUBSET Nat /\ I # {}
  BY <1>1, <1>2 DEF Contains
<1>4. PICK k \in 1 .. n : k = Min(I) /\ es[k] = s
  BY <1>1, <1>2, <1>3, LeastIsMin
<1>5. new = SubSeq(es, 1, k - 1) \o SubSeq(es, k + 1, n)
  <2>1. SelectInSeq(es, LAMBDA v : v = s) = k
    BY <1>2, <1>3, <1>4 DEF SelectInSeq
  <2>2. new = RemoveAt(es, k)
    BY <2>1 DEF Dropped, RemoveFirst, Contains
  <2> QED
    BY <1>1, <2>2 DEF RemoveAt
<1>6. PICK a, b : a = SubSeq(es, 1, k - 1) /\ b = SubSeq(es, k + 1, n)
  OBVIOUS
<1>7. a \in Seq(Blk) /\ Len(a) = k - 1 /\ \A i \in 1 .. k - 1 : a[i] = es[i]
  BY <1>1, <1>6, SubSeqProperties
<1>8. b \in Seq(Blk) /\ Len(b) = n - k /\ \A i \in 1 .. n - k : b[i] = es[k + i]
  BY <1>1, <1>6, SubSeqProperties
<1>9. /\ new \in Seq(Blk) /\ Len(new) = (k - 1) + (n - k)
      /\ \A i \in 1 .. (k - 1) + (n - k) : new[i] = IF i <= k - 1 THEN a[i] ELSE b[i - (k - 1)]
  <2>1. Joint(new, a, b)
    BY <1>5, <1>6, Zenon DEF Joint
  <2> HIDE <1>5, <1>6
  <2>2. /\ new \in Seq(Blk) /\ Len(new) = Len(a) + Len(b)
        /\ \A i \in 1 .. Len(a) + Len(b) : new[i] = IF i <= Len(a) THEN a[i] ELSE b[i - Len(a)]
    <3>1. a \in Seq(Blk) /\ b \in Seq(Blk)
      BY <1>7, <1>8
    <3> QED
      BY <2>1, <3>1, Concat
  <2>3. Len(a) = k - 1 /\ Len(b) = n - k
    BY <1>7, <1>8
  <2>4. Len(a) + Len(b) = (k - 1) + (n - k)
    BY <2>3
  <2>5. ASSUME NEW i \in 1 .. (k - 1) + (n - k)
        PROVE  new[i] = IF i <= k - 1 THEN a[i] ELSE b[i - (k - 1)]
    <3>1. new[i] = IF i <= Len(a) THEN a[i] ELSE b[i - Len(a)]
      BY <2>2, <2>4
    <3> QED
      BY <2>3, <3>1
  <2> QED
    BY <2>2, <2>4, <2>5
<1>10. Len(new) = n - 1 /\ DOMAIN new = 1 .. n - 1
  BY <1>9, LenProperties
<1>11. ASSUME NEW i \in 1 .. n - 1
       PROVE  new[i] = IF i < k THEN es[i] ELSE es[i + 1]
  <2>1. i \in 1 .. (k - 1) + (n - k)
    OBVIOUS
  <2>2. CASE i < k
    <3>1. i <= k - 1 /\ i \in 1 .. k - 1
      BY <2>2
    <3> QED
      BY <1>7, <1>9, <2>1, <2>2, <3>1
  <2>3. CASE ~(i < k)
    <3>1. ~(i <= k - 1) /\ i - (k - 1) \in 1 .. n - k /\ k + (i - (k - 1)) = i + 1
      BY <2>3
    <3> QED
      BY <1>8, <1>9, <2>1, <2>3, <3>1
  <2> QED
    BY <2>2, <2>3
<1> QED
  BY <1>1, <1>4, <1>9, <1>10, <1>11

LEMMA DroppingFields ==
  ASSUME NEW v \in Vnode, NEW s, Contains(v.entries, s), NEW u, u = Dropping(v, s)
  PROVE  u \in Vnode /\ SameButEntries(v, u) /\ EntryRemoved(v, u, s)
<1>1. PICK es \in Seq(Blk) : es = v.entries
  BY VnodeFields
<1>2. PICK new : new = RemoveFirst(es, s)
  OBVIOUS
<1>3. PICK n \in Nat : \E k \in 1 .. n :
        /\ DOMAIN es = 1 .. n /\ es[k] = s /\ new \in Seq(Blk) /\ DOMAIN new = 1 .. n - 1
        /\ \A i \in 1 .. n - 1 : new[i] = IF i < k THEN es[i] ELSE es[i + 1]
  <2>1. Contains(es, s) /\ es \in Seq(Blk)
    BY <1>1
  <2>2. Dropped(es, s, new)
    BY <1>2 DEF Dropped
  <2> HIDE <1>2
  <2> QED
    BY <2>1, <2>2, DropEntry
<1>4. u = [name |-> v.name, type |-> v.type, start |-> v.start, size |-> v.size, eof |-> v.eof,
           parent |-> v.parent, entries |-> new]
  BY <1>1, <1>2 DEF Vnode, Dropping
<1>5. u \in Vnode
  BY <1>3, <1>4 DEF Vnode, Blk
<1>6. SameButEntries(v, u)
  BY <1>4 DEF SameButEntries
<1>7. EntryRemoved(v, u, s)
  <2>1. u.entries = new
    BY <1>4
  <2> QED
    BY <1>1, <1>3, <2>1 DEF EntryRemoved
<1> QED
  BY <1>5, <1>6, <1>7

(* The disk e is the disk d without the file s of directory p.             *)
Shrunk(d, e, N, p, s) ==
  /\ \A b \in N : b # p /\ b # s => e[b] = d[b]
  /\ e[p] \in Vnode /\ SameButEntries(d[p], e[p]) /\ EntryRemoved(d[p], e[p], s)
  /\ d[s].type = "V_FILE"

LEMMA TreeShrunk ==
  ASSUME Persisted = Blocks, NEW d, NEW N, NEW rank, Tree(d, N, rank),
         NEW s \in N, NEW p, p = d[s].parent, NEW e, Shrunk(d, e, N, p, s),
         NEW M, M = N \ {s}
  PROVE  Tree(e, M, rank)
<1>1. \A b \in N : Node(d, N, rank, b)
  BY DEF Tree
<1>2. RootNode(d, N, rank) /\ UniqueNames(d, N) /\ N \subseteq Blk /\ rank \in [Blk -> Nat]
  BY DEF Tree
<1>3. d[s].type = "V_FILE" /\ s # ROOT /\ d[s].entries = <<>>
  BY <1>1, <1>2 DEF RootNode, Shrunk, Node
<1>13. PICK n \in Nat : \E k \in 1 .. n :
        /\ DOMAIN d[p].entries = 1 .. n /\ d[p].entries[k] = s /\ DOMAIN e[p].entries = 1 .. n - 1
        /\ \A i \in 1 .. n - 1 : e[p].entries[i] = IF i < k THEN d[p].entries[i] ELSE d[p].entries[i + 1]
  BY DEF Shrunk, EntryRemoved
<1>4. PICK k \in 1 .. n :
        /\ DOMAIN d[p].entries = 1 .. n /\ d[p].entries[k] = s /\ DOMAIN e[p].entries = 1 .. n - 1
        /\ \A i \in 1 .. n - 1 : e[p].entries[i] = IF i < k THEN d[p].entries[i] ELSE d[p].entries[i + 1]
  BY <1>13
<1>5. p \in N /\ p # s /\ p \in M
  <2>1. p \in N
    BY <1>1, <1>3 DEF Node
  <2>2. DOMAIN d[s].entries = {}
    BY <1>3
  <2> QED
    BY <1>4, <2>1, <2>2
<1>6. ASSUME NEW b \in M
      PROVE  /\ b \in N /\ b # s
             /\ e[b] \in Vnode /\ e[b].name = d[b].name /\ e[b].type = d[b].type /\ e[b].start = d[b].start
             /\ e[b].parent = d[b].parent
             /\ b # p => e[b] = d[b] /\ e[b].entries = d[b].entries
             /\ e[b].size = d[b].size /\ e[b].eof = d[b].eof
  <2>1. b \in N /\ b # s
    OBVIOUS
  <2>2. CASE b = p
    BY <2>1, <2>2 DEF Shrunk, SameButEntries
  <2>3. CASE b # p
    BY <1>1, <2>1, <2>3 DEF Shrunk, Node
  <2> QED
    BY <2>1, <2>2, <2>3
<1>7. \A i \in 1 .. n : d[p].entries[i] = s => i = k
  BY <1>1, <1>4, <1>5 DEF Node
<1>8. ASSUME NEW b \in M
      PROVE  Node(e, M, rank, b)
  <2>1. e[b] \in Vnode /\ e[b].start = b
    BY <1>1, <1>6 DEF Node
  <2>2. ASSUME b # ROOT
        PROVE  /\ e[b].parent \in M
               /\ rank[b] = rank[e[b].parent] + 1
               /\ \E i \in DOMAIN e[e[b].parent].entries : e[e[b].parent].entries[i] = b
    <3>1. PICK q \in N : /\ q = d[b].parent /\ rank[b] = rank[q] + 1
                         /\ \E i \in DOMAIN d[q].entries : d[q].entries[i] = b
      BY <1>1, <2>2 DEF Node
    <3>2. PICK i : i \in DOMAIN d[q].entries /\ d[q].entries[i] = b
      BY <3>1
    <3>3. q # s /\ q \in M
      <4>1. DOMAIN d[s].entries = {}
        BY <1>3
      <4> QED
        BY <3>1, <3>2, <4>1
    <3>4. e[b].parent = q
      BY <1>6, <3>1
    <3>5. \E j \in DOMAIN e[q].entries : e[q].entries[j] = b
      <4>1. CASE q # p
        BY <1>6, <3>2, <3>3, <4>1
      <4>2. CASE q = p
        <5>1. i \in 1 .. n /\ d[p].entries[i] = b /\ i # k
          BY <1>4, <3>2, <4>2
        <5>2. CASE i < k
          <6>1. i \in 1 .. n - 1
            BY <5>1, <5>2
          <6> QED
            BY <1>4, <4>2, <5>1, <5>2, <6>1
        <5>3. CASE ~(i < k)
          <6>1. PICK j : j = i - 1
            OBVIOUS
          <6>2. j \in 1 .. n - 1 /\ ~(j < k) /\ j + 1 = i
            BY <5>1, <5>3, <6>1
          <6> QED
            BY <1>4, <4>2, <5>1, <6>2
        <5> QED
          BY <5>2, <5>3
      <4> QED
        BY <4>1, <4>2
    <3> QED
      BY <3>1, <3>3, <3>4, <3>5
  <2>3. ASSUME NEW i \in DOMAIN e[b].entries
        PROVE  \E j \in DOMAIN d[b].entries :
                 e[b].entries[i] = d[b].entries[j] /\ d[b].entries[j] # s
                 /\ (b = p => j = (IF i < k THEN i ELSE i + 1)) /\ (b # p => j = i)
    <3>1. CASE b # p
      <4>1. i \in DOMAIN d[b].entries /\ e[b].entries[i] = d[b].entries[i]
        BY <1>6, <2>3, <3>1
      <4>2. d[b].entries[i] # s
        <5>1. d[d[b].entries[i]].parent = b
          BY <1>1, <1>6, <4>1 DEF Node
        <5> QED
          BY <3>1, <5>1
      <4> QED
        BY <3>1, <4>1, <4>2
    <3>2. CASE b = p
      <4>1. i \in 1 .. n - 1
        BY <1>4, <2>3, <3>2
      <4>2. PICK j : j = IF i < k THEN i ELSE i + 1
        OBVIOUS
      <4>3. j \in 1 .. n /\ j # k
        BY <4>1, <4>2
      <4>4. e[p].entries[i] = d[p].entries[j]
        BY <1>4, <4>1, <4>2
      <4>5. d[p].entries[j] # s
        BY <1>7, <4>3
      <4> QED
        BY <1>4, <3>2, <4>2, <4>3, <4>4, <4>5
    <3> QED
      BY <3>1, <3>2
  <2>4. ASSUME NEW i \in DOMAIN e[b].entries
        PROVE  e[b].entries[i] \in M /\ e[b].entries[i] # ROOT /\ e[e[b].entries[i]].parent = b
    <3>1. PICK j \in DOMAIN d[b].entries : e[b].entries[i] = d[b].entries[j] /\ d[b].entries[j] # s
      BY <2>3
    <3>2. PICK c \in N : c = d[b].entries[j] /\ c # ROOT /\ d[c].parent = b
      BY <1>1, <1>6 DEF Node
    <3>3. c \in M
      BY <3>1, <3>2
    <3> QED
      BY <1>6, <3>1, <3>2, <3>3
  <2>5. ASSUME NEW i \in DOMAIN e[b].entries, NEW j \in DOMAIN e[b].entries,
               e[b].entries[i] = e[b].entries[j]
        PROVE  i = j
    <3>1. PICK x \in DOMAIN d[b].entries :
            /\ e[b].entries[i] = d[b].entries[x]
            /\ b = p => x = (IF i < k THEN i ELSE i + 1)
            /\ b # p => x = i
      BY <2>3
    <3>2. PICK y \in DOMAIN d[b].entries :
            /\ e[b].entries[j] = d[b].entries[y]
            /\ b = p => y = (IF j < k THEN j ELSE j + 1)
            /\ b # p => y = j
      BY <2>3
    <3>3. x = y
      <4>1. d[b].entries[x] = d[b].entries[y]
        BY <2>5, <3>1, <3>2
      <4>2. Node(d, N, rank, b)
        BY <1>1, <1>6
      <4>3. x \in DOMAIN d[b].entries /\ y \in DOMAIN d[b].entries
        BY <3>1, <3>2
      <4> QED
        BY <4>1, <4>2, <4>3 DEF Node
    <3>4. CASE b # p
      BY <3>1, <3>2, <3>3, <3>4
    <3>5. CASE b = p
      <4>1. i \in Nat /\ j \in Nat
        BY <1>4, <2>5, <3>5
      <4> QED
        BY <3>1, <3>2, <3>3, <3>5, <4>1
    <3> QED
      BY <3>4, <3>5
  <2>6. e[b].type = "V_FILE" => /\ e[b].entries = <<>> /\ e[b].name \in FileNames
                                /\ e[b].eof \in 0 .. e[b].size * BlockSize
    <3>1. d[b].type = "V_FILE" => /\ d[b].entries = <<>> /\ d[b].name \in FileNames
                                  /\ d[b].eof \in 0 .. d[b].size * BlockSize
      BY <1>1, <1>6 DEF Node
    <3>2. CASE b = p
      <4>1. d[p].type # "V_FILE"
        <5>1. k \in DOMAIN d[p].entries
          BY <1>4
        <5>2. DOMAIN <<>> = {}
          OBVIOUS
        <5> QED
          BY <3>1, <3>2, <5>1, <5>2
      <4> QED
        BY <1>6, <3>2, <4>1
    <3>3. CASE b # p
      BY <1>6, <3>1, <3>3
    <3> QED
      BY <3>2, <3>3
  <2> QED
    BY <2>1, <2>2, <2>4, <2>5, <2>6 DEF Node
<1>9. RootNode(e, M, rank)
  <2>1. ROOT \in M
    BY <1>2, <1>3 DEF RootNode
  <2> QED
    BY <1>2, <1>6, <2>1 DEF RootNode
<1>10. UniqueNames(e, M)
  BY <1>2, <1>6 DEF UniqueNames
<1>11. M \subseteq Blk
  BY <1>2
<1> QED
  BY <1>2, <1>8, <1>9, <1>10, <1>11 DEF Tree

(* The table without the blocks of s.                                      *)
Unlinked(fat, new, own, s) ==
  /\ new \in [All -> Entry]
  /\ \A b \in Blk : own[b] = s => ~new[b].occupied
  /\ \A b \in All : ~(b \in Blk /\ own[b] = s) => (new[b].occupied <=> fat[b].occupied)
  /\ \A b \in Blk : own[b] # s => new[b].next = fat[b].next

(* The blocks that vfs_rm frees are the ones of the file.                  *)
LEMMA FreedOwn ==
  ASSUME Persisted = Blocks, NEW fat \in [All -> Entry],
         NEW own, NEW len, NEW pos, Layout(fat, own, len, pos, NIL),
         NEW s \in Blk, own[s] = s, len[s] <= Blocks
  PROVE  Freed(fat, s) = Own(own, s)
<1>1. Blocks \in Nat /\ DOMAIN fat = All
  BY Positions
<1>2. PICK c : c = Chain(fat, s, Blocks)
  OBVIOUS
<1>3. /\ DOMAIN c = 1 .. Blocks
      /\ \A i \in 1 .. Blocks : i <= len[s] => c[i] \in Blk /\ own[c[i]] = s /\ pos[c[i]] = i
      /\ \A i \in 1 .. Blocks : i > len[s] => c[i] = NIL
  BY <1>1, <1>2, ChainOf
<1>4. len[s] \in Nat
  BY LayoutAt
<1>5. Freed(fat, s) = {s} \cup {c[i] : i \in {j \in 1 .. Blocks : c[j] # NIL}}
  BY <1>2, <1>3 DEF Freed, ToSet
<1>6. ASSUME NEW b \in Freed(fat, s)
      PROVE  b \in Own(own, s)
  <2>1. CASE b = s
    BY <2>1 DEF Own
  <2>2. CASE b # s
    <3>1. PICK i \in 1 .. Blocks : b = c[i] /\ c[i] # NIL
      BY <1>5, <1>6, <2>2
    <3>2. i <= len[s]
      BY <1>3, <1>4, <3>1
    <3> QED
      BY <1>3, <3>1, <3>2 DEF Own
  <2> QED
    BY <2>1, <2>2
<1>7. ASSUME NEW b \in Own(own, s)
      PROVE  b \in Freed(fat, s)
  <2>1. b \in Blk /\ own[b] = s /\ own[b] # NIL
    BY NilOutside DEF Own
  <2>2. Follows(fat, own, len, pos, NIL, b) /\ pos[b] \in Nat
    BY <2>1, LayoutAt
  <2>3. CASE pos[b] = 0
    BY <1>5, <2>1, <2>2, <2>3 DEF Follows
  <2>4. CASE pos[b] # 0
    <3>1. pos[b] <= len[s]
      BY <2>1, <2>2 DEF Follows
    <3>2. PICK i \in 1 .. Blocks : i = pos[b] /\ i <= len[s]
      BY <1>1, <1>4, <2>2, <2>4, <3>1
    <3>3. c[i] \in Blk /\ own[c[i]] = s /\ pos[c[i]] = i
      BY <1>3, <3>2
    <3>4. c[i] = b
      BY <2>1, <3>2, <3>3 DEF Layout, Apart
    <3> QED
      BY <1>5, <3>3, <3>4, NilOutside
  <2> QED
    BY <2>3, <2>4
<1> QED
  BY <1>6, <1>7

LEMMA UnlinkTable ==
  ASSUME Persisted = Blocks, NEW fat \in [All -> Entry],
         NEW own, NEW len, NEW pos, Layout(fat, own, len, pos, NIL),
         NEW s \in Blk, own[s] = s, len[s] <= Blocks, NEW new, new = Unlink(fat, s)
  PROVE  Unlinked(fat, new, own, s)
<1>1. Freed(fat, s) = Own(own, s)
  BY FreedOwn
<1>2. new = [b \in All |-> [occupied |-> IF b \in Own(own, s) THEN FREE ELSE fat[b].occupied,
                            next |-> IF b = s THEN NIL ELSE fat[b].next]]
  BY <1>1 DEF Unlink
<1>3. ASSUME NEW b \in All
      PROVE  new[b] \in Entry
  <2>1. fat[b].occupied \in BOOLEAN /\ fat[b].next \in NIL .. Blocks - 1
    BY DEF Entry
  <2>2. NIL \in NIL .. Blocks - 1
    BY Positions DEF NIL
  <2>3. PICK x \in BOOLEAN : x = IF b \in Own(own, s) THEN FREE ELSE fat[b].occupied
    BY <2>1 DEF FREE
  <2>4. PICK y \in NIL .. Blocks - 1 : y = IF b = s THEN NIL ELSE fat[b].next
    BY <2>1, <2>2
  <2>5. new[b] = [occupied |-> x, next |-> y]
    BY <1>2, <2>3, <2>4
  <2> QED
    BY <2>5 DEF Entry
<1>4. new \in [All -> Entry]
  BY <1>2, <1>3
<1>5. ASSUME NEW b \in All
      PROVE  /\ new[b].occupied = (IF b \in Own(own, s) THEN FREE ELSE fat[b].occupied)
             /\ new[b].next = (IF b = s THEN NIL ELSE fat[b].next)
  BY <1>2
<1>6. \A b \in Blk : b \in All
  BY BlkInAll
<1> QED
  BY <1>4, <1>5, <1>6 DEF Unlinked, Own, FREE

LEMMA UnlinkCount ==
  ASSUME Persisted = Blocks, NEW fat \in [All -> Entry],
         NEW own, NEW len, NEW pos, Layout(fat, own, len, pos, NIL),
         NEW s \in Blk, own[s] = s, NEW new, Unlinked(fat, new, own, s)
  PROVE  Cardinality(Vacant(new)) = Cardinality(Vacant(fat)) + Cardinality(Own(own, s))
<1>1. PICK A, B : A = Vacant(fat) /\ B = Own(own, s)
  OBVIOUS
<1>2. \A b \in Blk : own[b] = s => fat[b].occupied /\ b \in All
  BY LayoutAt, BlkInAll, NilOutside DEF Follows
<1>3. Vacant(new) = A \cup B
  BY <1>1, <1>2 DEF Vacant, Own, Unlinked
<1>4. A \cap B = {}
  BY <1>1, <1>2 DEF Vacant, Own
<1>5. IsFiniteSet(A) /\ IsFiniteSet(B)
  BY <1>1, VacantFinite, OwnCount
<1>6. Cardinality(A) \in Nat /\ Cardinality(B) \in Nat
  BY <1>5, FS_CardinalityType
<1>7. Cardinality(A \cup B) = Cardinality(A) + Cardinality(B) - Cardinality(A \cap B)
  BY <1>5, FS_Union
<1>8. Cardinality(A \cap B) = 0
  BY <1>4, FS_EmptySet
<1>9. Cardinality(A \cup B) = Cardinality(A) + Cardinality(B)
  BY <1>6, <1>7, <1>8
<1> QED
  BY <1>1, <1>3, <1>9

NotOpen(s) == \A fd \in Descriptors : file_desc[fd] # Closed => file_desc[fd].meta.start # s

Replaced(w, fat) == [w EXCEPT !.fat = fat]

LEMMA ReplaceTable ==
  ASSUME NEW w \in Works, NEW fat \in [All -> Entry], NEW v, v = Replaced(w, fat)
  PROVE  v \in Works /\ v.fat = fat /\ v.free = w.free /\ v.out = w.out /\ v.bad = w.bad
<1>1. w = [fat |-> w.fat, free |-> w.free, out |-> w.out, at |-> w.at, bad |-> w.bad]
  BY WorkFields
<1>2. v = [fat |-> fat, free |-> w.free, out |-> w.out, at |-> w.at, bad |-> w.bad]
  BY <1>1 DEF Replaced
<1>3. w.free \in Int /\ w.out \in Seq(Writ) /\ w.at \in Int /\ w.bad \in BOOLEAN
  BY WorkFields
<1> QED
  BY <1>2, <1>3 DEF Works

LEMMA RmGood ==
  ASSUME Persisted = Blocks, NEW own, NEW len, NEW pos, NEW rank,
         Good(disk, ftable, free_blocks, own, len, pos, rank), OpenOK(file_desc, disk, own, pos),
         NEW s \in Heads(own), disk[s].type = "V_FILE", NotOpen(s),
         NEW p, p = disk[s].parent, Contains(disk[p].entries, s),
         NEW v, v = write_block(Work, p, Dropping(disk[p], s), "OVERWRITE"),
         NEW x, x = Replaced(v, Unlink(ftable, s)),
         NEW r, r = rm_blocks(FAT_write(x, "OVERWRITE"), Cardinality(Freed(ftable, s)))
  PROVE  Reached(r, file_desc) /\ Leaves(Held(disk, r), Stored(disk), disk[s].name, Absent)
<1>1. PICK w : w = Work
  OBVIOUS
<1>2. Settled(disk, w, own, len, pos, NIL) /\ Held(disk, w) = disk /\ w.fat = ftable /\ w.free = free_blocks
  BY <1>1, WorkFree DEF Work
<1>3. /\ IsDisk(disk) /\ Filed(disk, own, len, rank) /\ ftable \in [All -> Entry]
      /\ Layout(ftable, own, len, pos, NIL) /\ Typed(own, len, pos)
      /\ free_blocks = Cardinality(Vacant(ftable)) /\ \A b \in 0 .. ROOT - 1 : ftable[b].occupied
  BY DEF Good, Layout
<1>4. /\ s \in Blk /\ own[s] = s /\ len[s] \in Nat /\ free_blocks \in 0 .. Blocks
      /\ len[s] + free_blocks <= Blocks
  BY GoodFacts
<1>5. PICK N : N = Heads(own) /\ Tree(disk, N, rank) /\ s \in N
  BY <1>3 DEF Filed
<1>6. p \in N /\ p # s /\ disk[p].type # "V_FILE"
  <2>1. Node(disk, N, rank, s) /\ RootNode(disk, N, rank)
    BY <1>5 DEF Tree
  <2>2. s # ROOT
    BY <2>1 DEF RootNode
  <2>3. p \in N
    BY <2>1, <2>2 DEF Node
  <2>4. Node(disk, N, rank, p)
    BY <1>5, <2>3 DEF Tree
  <2>5. disk[p].entries # <<>>
    BY DEF Contains
  <2>6. disk[p].type # "V_FILE"
    BY <2>4, <2>5 DEF Node
  <2> QED
    BY <2>3, <2>6
<1>7. p \in Blk /\ own[p] = p /\ disk[p] \in Vnode
  BY <1>5, <1>6, GoodFacts
<1>8. PICK u : u = Dropping(disk[p], s)
  OBVIOUS
<1>9. u \in Vnode /\ SameButEntries(disk[p], u) /\ EntryRemoved(disk[p], u, s)
  BY <1>7, <1>8, DroppingFields
<1>10. w \in Works /\ ~w.bad
  BY <1>2 DEF Settled
<1>11. p \in All /\ BlockOK(p, u)
  BY <1>7, <1>9, VnodeOK, BlkInAll
<1>12. Wrote(w, v, p, u)
  BY <1>1, <1>8, <1>10, <1>11, Overwrite
<1>13. v \in Works /\ v.fat = w.fat /\ v.free = w.free /\ v.bad = w.bad
  BY <1>12 DEF Wrote
<1>14. ASSUME NEW c \in All
       PROVE  Held(disk, v)[c] = IF c = p THEN u ELSE disk[c]
  <2>1. Held(disk, v)[c] = IF c = p THEN u ELSE Held(disk, w)[c]
    BY <1>3, <1>10, <1>11, <1>12, HeldOne
  <2> QED
    BY <1>2, <2>1
<1>15. PICK new : new = Unlink(ftable, s)
  OBVIOUS
<1>16. Unlinked(ftable, new, own, s) /\ new \in [All -> Entry]
  <2>1. len[s] <= Blocks
    BY <1>4, Positions
  <2>2. Unlinked(ftable, new, own, s)
    BY <1>3, <1>4, <1>15, <2>1, UnlinkTable
  <2> QED
    BY <2>2 DEF Unlinked
<1>17. x \in Works /\ x.fat = new /\ x.free = v.free /\ x.out = v.out /\ x.bad = v.bad
  BY <1>13, <1>15, <1>16, ReplaceTable
<1>18. PICK y : y = FAT_write(x, "OVERWRITE") /\ SavedTable(x, y, 0)
  BY <1>17, FatWrite
<1>19. y \in Works /\ y.fat = new /\ y.free = free_blocks /\ ~y.bad
  <2>1. free_blocks \in Int
    BY <1>4
  <2>2. y \in Works /\ y.fat = x.fat /\ y.free = x.free - 0 /\ y.bad = x.bad
    BY <1>18 DEF SavedTable
  <2>3. x.free = free_blocks /\ ~x.bad
    BY <1>2, <1>10, <1>13, <1>17
  <2> QED
    BY <1>17, <2>1, <2>2, <2>3
<1>20. PICK n \in Nat : n = Cardinality(Freed(ftable, s)) /\ n = Cardinality(Own(own, s)) /\ n = len[s] + 1
  <2>1. len[s] <= Blocks
    BY <1>4, Positions
  <2>2. Freed(ftable, s) = Own(own, s)
    BY <1>3, <1>4, <2>1, FreedOwn
  <2>3. Cardinality(Own(own, s)) = len[s] + 1
    BY <1>3, <1>4, OwnCount
  <2> QED
    BY <1>4, <2>2, <2>3
<1>21. PICK m : m = free_blocks + n /\ m = Cardinality(Vacant(new)) /\ m \in -1 .. Blocks
  <2>1. Cardinality(Vacant(new)) = Cardinality(Vacant(ftable)) + Cardinality(Own(own, s))
    BY <1>3, <1>4, <1>16, UnlinkCount
  <2>2. Cardinality(Vacant(new)) \in Nat /\ Cardinality(Vacant(new)) <= Blocks
    BY VacantFinite
  <2>3. PICK k \in Nat : k = Cardinality(Vacant(new)) /\ k <= Blocks
    BY <2>2
  <2>4. k = free_blocks + n
    BY <1>3, <1>20, <2>1, <2>3
  <2>5. k \in -1 .. Blocks
    BY <2>3, Positions
  <2> QED
    BY <2>3, <2>4, <2>5
<1>22. /\ r \in Works /\ r.fat = new /\ r.free = m
       /\ \A c \in All : Held(disk, r)[c] = IF c = 0 THEN [free |-> m] ELSE Held(disk, y)[c]
  <2>1. r = rm_blocks(y, n)
    BY <1>18, <1>20
  <2>2. y.free + n = m
    BY <1>19, <1>21
  <2>3. y.free + n \in -1 .. Blocks
    BY <1>21, <2>2
  <2>4. /\ r \in Works /\ r.fat = y.fat /\ r.free = y.free + n
        /\ \A d : IsDisk(d) => \A c \in All :
             Held(d, r)[c] = IF c = 0 THEN [free |-> y.free + n] ELSE Held(d, y)[c]
    BY <1>19, <2>1, <2>3, RmBlocks
  <2> QED
    BY <1>3, <1>19, <2>2, <2>4
<1>23. \A c \in All : Held(disk, y)[c] = IF c \in 1 .. ROOT - 1 THEN TablePart(new, c) ELSE Held(disk, x)[c]
  <2>1. \A c \in All : Held(disk, y)[c] = IF c \in 1 .. ROOT - 1 THEN TablePart(x.fat, c)
                       ELSE IF c = 0 /\ 0 > 0 THEN [free |-> x.free - 0] ELSE Held(disk, x)[c]
    BY <1>3, <1>18 DEF SavedTable
  <2>2. x.fat = new
    BY <1>17
  <2> QED
    BY ONLY <2>1, <2>2
<1>24. Held(disk, x) = Held(disk, v)
  BY <1>17 DEF Held
<1>25. PICK d : d = Held(disk, r)
  OBVIOUS
<1>26. d[0] = [free |-> m]
  BY <1>22, <1>25, Positions DEF All
<1>27. ASSUME NEW i \in 1 .. ROOT - 1
       PROVE  d[i] = TablePart(new, i)
  <2>1. i \in All /\ i # 0
    BY TablePartOK, <1>16
  <2> QED
    BY <1>22, <1>23, <1>25, <2>1
<1>28. FatOf(d) = new
  BY <1>16, <1>27, TableOnDisk
<1>29. ASSUME NEW b \in Blk
       PROVE  d[b] = IF b = p THEN u ELSE disk[b]
  <2>1. b \in All /\ b # 0 /\ b \notin 1 .. ROOT - 1
    BY Positions, BlkInAll DEF Blk
  <2> QED
    BY <1>14, <1>22, <1>23, <1>24, <1>25, <2>1
<1>30. PICK own1 : own1 = WithoutOwn(own, s)
  OBVIOUS
<1>31. \A b \in Blk : own1[b] = IF own[b] = s THEN NIL ELSE own[b]
  BY <1>30 DEF WithoutOwn
<1>32. Layout(new, own1, len, pos, NIL)
  <2>1. \A b \in Blk : own[b] = s => ~new[b].occupied
    BY <1>16 DEF Unlinked
  <2>2. \A b \in Blk : own[b] # s => (new[b].occupied <=> ftable[b].occupied) /\ new[b].next = ftable[b].next
    BY <1>16, BlkInAll DEF Unlinked
  <2> QED
    BY <1>3, <1>4, <1>30, <2>1, <2>2, RemoveLayout
<1>33. PICK M : M = N \ {s} /\ M = Heads(own1)
  BY <1>4, <1>5, <1>31, NilOutside DEF Heads
<1>34. Tree(d, M, rank)
  <2>1. \A b \in N : b # p /\ b # s => d[b] = disk[b]
    BY <1>5, <1>29 DEF Heads
  <2>2. d[p] = u
    BY <1>7, <1>29
  <2>3. d[p] \in Vnode /\ SameButEntries(disk[p], d[p]) /\ EntryRemoved(disk[p], d[p], s)
    BY <1>9, <2>2
  <2>4. Shrunk(disk, d, N, p, s)
    BY <2>1, <2>3 DEF Shrunk
  <2> QED
    BY <1>5, <1>33, <2>4, TreeShrunk
<1>35. Filed(d, own1, len, rank)
  <2>1. ASSUME NEW b \in Blk, own1[b] # NIL, own1[b] # b
        PROVE  d[b] \in Data
    <3>1. own[b] # NIL /\ own[b] # b /\ b # p
      BY <1>7, <1>31, <2>1
    <3> QED
      BY <1>3, <1>29, <3>1 DEF Filed
  <2>2. ASSUME NEW b \in Blk, own1[b] = b
        PROVE  d[b].size = len[b]
    <3>1. own[b] = b
      BY <1>31, <2>2, NilOutside
    <3>2. disk[b].size = len[b]
      BY <1>3, <3>1 DEF Filed
    <3> QED
      BY <1>9, <1>29, <3>2 DEF SameButEntries
  <2> QED
    BY <1>33, <1>34, <2>1, <2>2 DEF Filed
<1>36. Good(d, new, m, own1, len, pos, rank)
  <2>1. IsDisk(d)
    BY <1>3, <1>22, <1>25, HeldOK
  <2>2. ASSUME NEW b \in 0 .. ROOT - 1
        PROVE  new[b].occupied
    <3>1. b \in All /\ b \notin Blk
      BY Positions DEF All, Blk
    <3> QED
      BY <1>3, <1>16, <3>1 DEF Unlinked
  <2> QED
    BY <1>16, <1>21, <1>26, <1>28, <1>32, <1>35, <2>1, <2>2 DEF Good
<1>37. ASSUME NEW fd \in Descriptors, file_desc[fd] # Closed
       PROVE  OpenAt(file_desc[fd], d, own1, pos)
  <2>1. PICK f : f = file_desc[fd] /\ OpenAt(f, disk, own, pos)
    BY <1>37 DEF OpenOK
  <2>2. PICK t : t = f.meta.start /\ t \in Heads(own) /\ disk[t].type = "V_FILE" /\ t \in Blk /\ own[t] = t
    BY <2>1 DEF OpenAt, Heads
  <2>3. t # s /\ t # p /\ t # NIL
    BY <1>6, <1>37, <2>1, <2>2, NilOutside DEF NotOpen
  <2>4. \A b \in Blk : own1[b] = t <=> own[b] = t
    BY <1>31, <2>3
  <2>5. \A b \in Blk : own[b] = t => d[b] = disk[b]
    BY <1>7, <1>29, <2>3
  <2>6. t \in Heads(own1) /\ d[t] = f.meta
    BY <2>1, <2>2, <2>4, <2>5 DEF Heads, OpenAt
  <2>7. SameBytes(d, own1, pos, t, f.meta.eof, f.binary)
    <3>1. SameBytes(disk, own, pos, t, f.meta.eof, f.binary)
      BY <2>1, <2>2 DEF OpenAt
    <3> QED
      BY <2>4, <2>5, <3>1 DEF SameBytes
  <2>8. OpenAt(f, d, own1, pos)
    BY <2>1, <2>2, <2>6, <2>7 DEF OpenAt
  <2> QED
    BY <2>1, <2>8
<1>38. OpenOK(file_desc, d, own1, pos)
  BY <1>37 DEF OpenOK
<1>39. ASSUME NEW name \in FileNames, NEW t \in Blk, TheFile(d, own1, name, t)
       PROVE  TheFile(disk, own, name, t) /\ t # s /\ t \in N
  <2>1. t \in N /\ t # s /\ d[t].type = "V_FILE" /\ d[t].name = name
    BY <1>33, <1>39 DEF TheFile
  <2>2. t # p
    BY <1>6, <1>7, <1>9, <1>29, <2>1 DEF SameButEntries
  <2>3. d[t] = disk[t]
    BY <1>29, <2>2
  <2> QED
    BY <1>5, <2>1, <2>3 DEF TheFile
<1>40. ASSUME NEW name \in FileNames, name # disk[s].name
       PROVE  Stored(d)[name] = Stored(disk)[name]
  <2>1. ASSUME NEW t \in Blk, TheFile(disk, own, name, t)
        PROVE  KeptFile(disk, own, pos, d, own1, pos, t)
    <3>1. t # s /\ t # p /\ t # NIL
      BY <1>6, <1>40, <2>1, NilOutside DEF TheFile
    <3>2. \A b \in Blk : own1[b] = t <=> own[b] = t
      BY <1>31, <3>1
    <3>3. \A b \in Blk : own[b] = t => d[b] = disk[b]
      BY <1>7, <1>29, <3>1
    <3> QED
      BY <3>2, <3>3 DEF KeptFile
  <2>2. ASSUME NEW t \in Blk, TheFile(d, own1, name, t)
        PROVE  TheFile(disk, own, name, t)
    BY <1>39, <2>2
  <2>3. Persisted = Blocks /\ Good(disk, ftable, free_blocks, own, len, pos, rank) /\ name \in FileNames
    BY <1>40
  <2> QED
    BY ONLY <1>36, <2>1, <2>2, <2>3, StoredFrame
<1>41. ASSUME NEW name \in FileNames, name = disk[s].name
       PROVE  Stored(d)[name] = Absent
  <2>1. UniqueNames(disk, N)
    BY <1>5 DEF Tree
  <2>2. \A t \in Blk : ~TheFile(d, own1, name, t)
    <3>1. SUFFICES ASSUME NEW t \in Blk, TheFile(d, own1, name, t)
                   PROVE  FALSE
      OBVIOUS
    <3>2. TheFile(disk, own, name, t) /\ t # s /\ t \in N
      BY <1>39, <3>1
    <3>3. disk[t].name = disk[s].name
      BY <1>41, <3>2 DEF TheFile
    <3> QED
      BY <1>5, <2>1, <3>2, <3>3 DEF UniqueNames
  <2> QED
    BY <1>36, <2>2, StoredContent
<1>42. Leaves(d, Stored(disk), disk[s].name, Absent)
  BY <1>40, <1>41 DEF Leaves
<1> QED
  BY <1>22, <1>25, <1>36, <1>38, <1>42 DEF Reached

-----------------------------------------------------------------------------
(* The constructor.                                                        *)

(* A new file system.                                                      *)
LEMMA CreatedDisk ==
  ASSUME Persisted = Blocks
  PROVE  /\ IsDisk(create_disk) /\ create_disk[0] = [free |-> Blocks - 1]
         /\ \A b \in All : ~FatOf(create_disk)[b].occupied
<1>1. /\ Blocks \in Nat /\ ROOT \in Nat /\ 2 <= ROOT /\ ROOT <= Blocks - 1
  BY Positions
<1>2. PICK d : d = create_disk
  OBVIOUS
<1>3. d = [b \in All |-> IF b = SUPERBLOCK THEN [free |-> Blocks - 1]
                         ELSE IF b < ROOT THEN [e \in FatBlock(b) |-> [occupied |-> FREE, next |-> 0]]
                         ELSE Zeros]
  BY <1>2 DEF create_disk, All
<1>4. ASSUME NEW b \in All
      PROVE  d[b] = IF b = SUPERBLOCK THEN [free |-> Blocks - 1]
                    ELSE IF b < ROOT THEN [e \in FatBlock(b) |-> [occupied |-> FREE, next |-> 0]]
                    ELSE Zeros
  BY <1>3
<1>5. Zeros \in Data
  <2>1. \A i \in 1 .. BlockSize : 0 \in Byte
    BY DEF Byte
  <2> QED
    BY <2>1 DEF Zeros, Data
<1>6. ~IsVnode(Zeros)
  BY <1>5, DataDomain
<1>7. [occupied |-> FREE, next |-> 0] \in Entry
  BY <1>1 DEF Entry, FREE, NIL
<1>8. ASSUME NEW b \in All
      PROVE  BlockOK(b, d[b])
  <2>1. CASE b = SUPERBLOCK
    <3>1. d[b] = [free |-> Blocks - 1]
      BY <1>4, <2>1
    <3>2. Blocks - 1 \in NIL .. Blocks
      BY <1>1 DEF NIL
    <3> QED
      BY <2>1, <3>1, <3>2 DEF BlockOK
  <2>2. CASE b # SUPERBLOCK /\ b < ROOT
    <3>1. b \in 1 .. ROOT - 1
      BY <1>1, <2>2 DEF All, SUPERBLOCK
    <3>2. d[b] = [e \in FatBlock(b) |-> [occupied |-> FREE, next |-> 0]]
      BY <1>4, <2>2
    <3>3. d[b] \in [FatBlock(b) -> Entry]
      BY <1>7, <3>2
    <3> QED
      BY <3>1, <3>3 DEF BlockOK
  <2>3. CASE b # SUPERBLOCK /\ ~(b < ROOT)
    <3>1. b \in ROOT .. Blocks - 1
      BY <1>1, <2>3 DEF All
    <3>2. d[b] = Zeros
      BY <1>4, <2>3
    <3> QED
      BY <1>5, <1>6, <3>1, <3>2 DEF BlockOK
  <2> QED
    BY <2>1, <2>2, <2>3
<1>9. IsDisk(d)
  <2>1. DOMAIN d = All /\ d = [b \in All |-> d[b]]
    BY <1>3
  <2> QED
    BY <1>8, <2>1 DEF IsDisk
<1>10. d[0] = [free |-> Blocks - 1]
  <2>1. SUPERBLOCK \in All /\ SUPERBLOCK = 0
    BY <1>1 DEF All, SUPERBLOCK
  <2>2. d[SUPERBLOCK] = [free |-> Blocks - 1]
    BY <1>4, <2>1
  <2> QED
    BY <2>1, <2>2
<1>11. ASSUME NEW b \in All
       PROVE  ~FatOf(d)[b].occupied
  <2>1. PICK i \in 1 .. ROOT - 1 : i = b \div EntriesPerBlock + 1 /\ b \in FatBlock(i)
    BY TableBlockOf
  <2>2. i \in All /\ i # SUPERBLOCK /\ i < ROOT
    BY <1>1 DEF All, SUPERBLOCK
  <2>3. d[i] = [e \in FatBlock(i) |-> [occupied |-> FREE, next |-> 0]]
    BY <1>4, <2>2
  <2>4. d[i][b].occupied = FREE
    BY <2>1, <2>3
  <2>5. FatOf(d)[b] = d[i][b]
    BY <2>1 DEF FatOf, All
  <2> QED
    BY <2>4, <2>5 DEF FREE
<1> QED
  BY <1>2, <1>9, <1>10, <1>11

LEMMA InitTable ==
  ASSUME Persisted = Blocks, NEW fat, fat = FAT_init
  PROVE  /\ fat \in [All -> Entry]
         /\ \A b \in 0 .. ROOT - 1 : fat[b].occupied
         /\ \A b \in Blk : ~fat[b].occupied
         /\ Cardinality(Vacant(fat)) = Blocks - ROOT
<1>1. Blocks \in Nat /\ ROOT \in Nat /\ 2 <= ROOT /\ ROOT <= Blocks - 1
  BY Positions
<1>2. fat = [b \in All |-> [occupied |-> IF b < ROOT THEN OCCUPIED ELSE FREE, next |-> NIL]]
  BY DEF FAT_init, All
<1>3. ASSUME NEW b \in All
      PROVE  fat[b] \in Entry /\ (fat[b].occupied <=> b < ROOT)
  <2>1. NIL \in NIL .. Blocks - 1
    BY <1>1 DEF NIL
  <2>2. fat[b] = [occupied |-> IF b < ROOT THEN OCCUPIED ELSE FREE, next |-> NIL]
    BY <1>2
  <2>3. CASE b < ROOT
    <3>1. fat[b] = [occupied |-> TRUE, next |-> NIL]
      BY <2>2, <2>3 DEF OCCUPIED
    <3> QED
      BY <2>1, <2>3, <3>1 DEF Entry
  <2>4. CASE ~(b < ROOT)
    <3>1. fat[b] = [occupied |-> FALSE, next |-> NIL]
      BY <2>2, <2>4 DEF FREE
    <3> QED
      BY <2>1, <2>4, <3>1 DEF Entry
  <2> QED
    BY <2>3, <2>4
<1>4. fat \in [All -> Entry]
  BY <1>2, <1>3
<1>5. Vacant(fat) = Blk
  BY <1>1, <1>3 DEF Vacant, All, Blk
<1>6. Cardinality(Vacant(fat)) = Blocks - ROOT
  BY <1>5, AllFinite
<1> QED
  BY <1>1, <1>3, <1>4, <1>6 DEF All, Blk

LEMMA NoLayout ==
  ASSUME NEW fat, \A b \in Blk : ~fat[b].occupied,
         NEW own, own = [b \in Blk |-> NIL], NEW zero, zero = [b \in Blk |-> 0]
  PROVE  Layout(fat, own, zero, zero, NIL) /\ Heads(own) = {}
<1>1. \A b \in Blk : own[b] = NIL /\ b # NIL /\ own[b] # b
  BY NilOutside
<1>2. Typed(own, zero, zero)
  BY DEF Typed
<1> QED
  BY <1>1, <1>2 DEF Layout, Follows, Apart, Heads

LEMMA RootOnly ==
  ASSUME Persisted = Blocks, NEW d, d[ROOT] = RootVnode, NEW zero, zero = [b \in Blk |-> 0],
         NEW N, N = {ROOT}
  PROVE  Tree(d, N, zero) /\ RootVnode \in Vnode
<1>1. ROOT \in Blk
  BY Positions DEF Blk
<1>2. PICK v : v = RootVnode
  OBVIOUS
<1>3. /\ v.name = Slash /\ v.type = "V_DIRECTORY" /\ v.start = ROOT
      /\ v.parent = ROOT /\ v.entries = <<>>
  BY <1>2 DEF RootVnode
<1>4. v \in Vnode
  <2>1. 0 \in 0 .. Blocks /\ NIL \in NIL .. Blocks * BlockSize
    <3>1. Blocks \in Nat /\ BlockSize \in Nat
      BY DiskAssumption
    <3>2. PICK k : k = Blocks * BlockSize
      OBVIOUS
    <3>3. k \in Nat
      BY <3>1, <3>2
    <3> QED
      BY <3>1, <3>2, <3>3 DEF NIL
  <2>2. Slash \in Names /\ <<>> \in Seq(ROOT .. Blocks - 1) /\ ROOT \in ROOT .. Blocks - 1
    BY <1>1 DEF Names, Blk
  <2> QED
    BY <1>2, <2>1, <2>2 DEF RootVnode, Vnode
<1>5. Node(d, N, zero, ROOT)
  <2>1. DOMAIN d[ROOT].entries = {}
    BY <1>2, <1>3
  <2> QED
    BY <1>2, <1>3, <1>4, <2>1 DEF Node
<1>6. RootNode(d, N, zero)
  BY <1>1, <1>2, <1>3 DEF RootNode
<1>7. UniqueNames(d, N) /\ N \subseteq Blk /\ zero \in [Blk -> Nat]
  BY <1>1 DEF UniqueNames
<1> QED
  BY <1>2, <1>4, <1>5, <1>6, <1>7 DEF Tree

(* No file is stored.                                                      *)
NoFiles(d) == \A n \in FileNames : Stored(d)[n] = Absent

LEMMA CreatedEmpty ==
  ASSUME Persisted = Blocks
  PROVE  NoFiles(create_disk)
<1>1. PICK d : d = create_disk
  OBVIOUS
<1>2. ROOT \in All /\ ~(ROOT = SUPERBLOCK) /\ ~(ROOT < ROOT)
  BY Positions DEF All, SUPERBLOCK
<1>3. ~IsVnode(d[ROOT])
  <2>1. d[ROOT] = Zeros
    <3>1. create_disk[ROOT] = Zeros
      BY <1>2 DEF create_disk, All
    <3> QED
      BY <1>1, <3>1
  <2>2. Zeros \in Data
    BY DEF Zeros, Data, Byte
  <2> QED
    BY <2>1, <2>2, DataDomain
<1>4. Walk(d) = <<>>
  <2>1. PICK f : /\ \A k \in 0 .. Depth : \A b \in All : f[k][b] = Visit(d, f[k - 1], k, b)
                 /\ Walk(d) = f[Depth][ROOT]
    BY <1>2, VisitSteps
  <2>2. Depth \in 0 .. Depth
    BY NamesFinite
  <2>3. f[Depth][ROOT] = Visit(d, f[Depth - 1], Depth, ROOT)
    BY <1>2, <2>1, <2>2
  <2> QED
    BY <1>3, <2>1, <2>3 DEF Visit
<1>5. PlainFiles(d) = {}
  BY <1>4 DEF PlainFiles, Nodes, ToSet
<1>6. ASSUME NEW n \in FileNames
      PROVE  Stored(d)[n] = Absent
  <2>1. PICK files : Listing(d, files)
    BY DEF Listing
  <2>2. files = {}
    BY <1>5, <2>1 DEF Listing
  <2>3. Stored(d)[n] = StoredAt(FatOf(d), d, files, n)
    BY <2>1, StoredValue
  <2> QED
    BY <2>2, <2>3 DEF StoredAt
<1> QED
  BY <1>1, <1>6 DEF NoFiles

AllClosed(fds) == \A fd \in Descriptors : fds[fd] = Closed

LEMMA FormatGood ==
  ASSUME Persisted = Blocks, disk = create_disk,
         NEW x, x = [fat |-> FAT_init, free |-> Blocks - 1, out |-> <<>>, at |-> NIL, bad |-> FALSE],
         NEW r, r = vfs_sync_file(FAT_write(x, "WRITE"), RootVnode, <<>>),
         NEW fds, AllClosed(fds)
  PROVE  ~r.bad /\ Reached(r, fds) /\ NoFiles(Held(disk, r))
<1>1. Blocks \in Nat /\ ROOT \in Nat /\ 2 <= ROOT /\ ROOT <= Blocks - 1
  BY Positions
<1>2. IsDisk(disk)
  BY CreatedDisk
<1>3. PICK fat : fat = FAT_init
  OBVIOUS
<1>4. /\ fat \in [All -> Entry]
      /\ \A b \in 0 .. ROOT - 1 : fat[b].occupied
      /\ \A b \in Blk : ~fat[b].occupied
      /\ Cardinality(Vacant(fat)) = Blocks - ROOT
  BY <1>3, InitTable
<1>5. x \in Works /\ x.fat = fat /\ x.free = Blocks - 1 /\ ~x.bad
  <2>1. <<>> \in Seq(Writ) /\ NIL \in Int /\ Blocks - 1 \in Int
    BY <1>1, NilOutside
  <2>2. x.fat = fat /\ x.free = Blocks - 1 /\ ~x.bad
    BY <1>3
  <2> QED
    BY <1>3, <1>4, <2>1, <2>2 DEF Works
<1>6. PICK w : w = FAT_write(x, "WRITE") /\ SavedTable(x, w, ROOT - 1)
  <2>1. x.free \in ROOT - 1 .. Blocks
    BY <1>1, <1>5
  <2> QED
    BY <1>5, <2>1, FatWriteNew
<1>7. /\ w \in Works /\ w.fat = fat /\ w.free = Blocks - ROOT /\ ~w.bad
      /\ Held(disk, w)[0] = [free |-> w.free]
  <2>1. w \in Works /\ w.fat = x.fat /\ w.free = x.free - (ROOT - 1) /\ w.bad = x.bad
    BY <1>6 DEF SavedTable
  <2>2. x.free - (ROOT - 1) = Blocks - ROOT
    BY <1>1, <1>5
  <2>3. 0 \in All /\ 0 \notin 1 .. ROOT - 1 /\ ROOT - 1 > 0
    BY <1>1 DEF All
  <2>4. Held(disk, w)[0] = [free |-> x.free - (ROOT - 1)]
    BY <1>2, <1>6, <2>3 DEF SavedTable
  <2> QED
    BY <1>5, <2>1, <2>2, <2>4
<1>8. PICK own, zero : own = [b \in Blk |-> NIL] /\ zero = [b \in Blk |-> 0]
  OBVIOUS
<1>9. Layout(fat, own, zero, zero, NIL) /\ Heads(own) = {}
  BY <1>4, <1>8, NoLayout
<1>10. Settled(disk, w, own, zero, zero, NIL)
  BY <1>4, <1>7, <1>9 DEF Settled
<1>11. ROOT \in Blk /\ own[ROOT] = NIL
  BY <1>1, <1>8 DEF Blk
<1>12. PICK meta \in Vnode : meta = RootVnode
  <2>1. PICK d : d = [b \in {ROOT} |-> RootVnode]
    OBVIOUS
  <2>2. d[ROOT] = RootVnode
    BY <2>1
  <2> QED
    BY <2>2, RootOnly
<1>13. StartsAt(meta, ROOT)
  <2>1. RootVnode.start = ROOT
    BY DEF RootVnode
  <2> QED
    BY <1>12, <2>1 DEF StartsAt
<1>14. PICK binary \in Seq(Byte) : binary = <<>>
  <2>1. <<>> \in Seq(Byte)
    OBVIOUS
  <2> QED
    BY <2>1, Zenon
<1>15. r = vfs_sync_file(w, meta, binary)
  BY <1>6, <1>12, <1>14
<1>16. \/ r.bad
       \/ \E own1, len1, pos1 : Synced(disk, w, r, ROOT, meta, binary, own, zero, zero, own1, len1, pos1)
  BY <1>2, <1>10, <1>11, <1>13, <1>15, SyncResult
<1>17. ASSUME NEW own1, NEW len1, NEW pos1,
              Synced(disk, w, r, ROOT, meta, binary, own, zero, zero, own1, len1, pos1)
       PROVE  Reached(r, fds) /\ NoFiles(Held(disk, r))
  <2>1. PICK N : N = {ROOT} /\ Heads(own1) = N
    <3>1. Heads(own1) = Heads(own) \cup {ROOT}
      BY <1>11, <1>17, SyncedHeads
    <3> QED
      BY <1>9, <3>1
  <2>2. PICK d : d = Held(disk, r) /\ d[ROOT] = RootVnode
    BY <1>12, <1>17 DEF Synced
  <2>3. Tree(d, N, zero)
    BY <1>8, <2>1, <2>2, RootOnly
  <2>4. Tree(Held(disk, r), Heads(own1), zero)
    BY <2>1, <2>2, <2>3
  <2>5. FiledBut(Held(disk, w), own, zero, ROOT)
    BY <1>8, NilOutside DEF FiledBut
  <2>6. Typed(own, zero, zero)
    BY <1>9 DEF Layout
  <2>7. r \in Works /\ Good(Held(disk, r), r.fat, r.free, own1, len1, pos1, zero)
    BY <1>2, <1>11, <1>17, <2>4, <2>5, <2>6, SyncGood
  <2>8. OpenOK(fds, Held(disk, r), own1, pos1)
    BY DEF OpenOK, OpenOnce, AllClosed
  <2>9. ASSUME NEW n \in FileNames
        PROVE  Stored(d)[n] = Absent
    <3>1. RootVnode.type # "V_FILE"
      BY DEF RootVnode
    <3>2. d[ROOT].type # "V_FILE"
      BY <2>2, <3>1
    <3>3. \A t \in Blk : ~TheFile(d, own1, n, t)
      BY <2>1, <3>2 DEF TheFile
    <3>4. Good(d, r.fat, r.free, own1, len1, pos1, zero)
      BY <2>2, <2>7
    <3> QED
      BY <3>3, <3>4, StoredContent
  <2> QED
    BY <2>2, <2>7, <2>8, <2>9 DEF Reached, NoFiles
<1>18. meta.size = 0
  <2>1. RootVnode.size = 0
    BY DEF RootVnode
  <2> QED
    BY <1>12, <2>1
<1>19. ~r.bad
  BY <1>2, <1>10, <1>11, <1>13, <1>15, <1>18, SyncFresh
<1> QED
  BY <1>16, <1>17, <1>19

LEMMA LoadGood ==
  ASSUME Persisted = Blocks, NEW fat, NEW free, NEW own, NEW len, NEW pos, NEW rank,
         Good(disk, fat, free, own, len, pos, rank),
         NEW w, w = [fat |-> fat, free |-> free, out |-> <<>>, at |-> NIL, bad |-> FALSE],
         NEW fds, OpenOK(fds, disk, own, pos)
  PROVE  Reached(w, fds) /\ Held(disk, w) = disk
<1>1. Settled(disk, w, own, len, pos, NIL) /\ Held(disk, w) = disk /\ w.fat = fat /\ w.free = free
  BY WorkFree
<1>2. w \in Works
  BY <1>1 DEF Settled
<1> QED
  BY <1>1, <1>2 DEF Reached

-----------------------------------------------------------------------------
(* The invariant, and the steps that make no call.                         *)

(* How the file system is used: every entry of its table is saved, which   *)
(* is so when the table fills its last block, as on the disk of            *)
(* virtual_disk.h; callers do not open or remove an open file; and they    *)
(* pass directories where a directory is asked for.                        *)
Usage == Persisted = Blocks /\ Careful /\ ParentNames \cap FileNames = {}

(* Every variable has a value of its type, the table and the open files    *)
(* also when no call is running.                                           *)
TypeInv ==
  /\ mode \in Modes
  /\ ftable \in [All -> Entry] /\ free_blocks \in 0 .. Blocks
  /\ DOMAIN file_desc = Descriptors
  /\ \A fd \in Descriptors : file_desc[fd] # Closed => OpenFileOK(file_desc[fd])
  /\ IsDisk(disk) /\ writes \in Seq(Writ)
  /\ target \in Names \cup {NoName}
  /\ mode # "up" => writes = <<>>

(* Memory agrees with the disk d.                                          *)
Coherent(d) ==
  \E own, len, pos, rank :
    Good(d, ftable, free_blocks, own, len, pos, rank) /\ OpenOK(file_desc, d, own, pos)

(* The disk d holds a file system by itself, or is a new one.              *)
Intact(d) ==
  \/ d = create_disk
  \/ \E own, len, pos, rank : Good(d, FatOf(d), d[0].free, own, len, pos, rank)

(* stored is what the disk will hold once the running call has made its    *)
(* writes.                                                                 *)
Foretold == stored = Stored(After(disk, writes))

(* Memory agrees with what the disk will hold once the running call has    *)
(* made its writes; without a process the disk holds all by itself, unless *)
(* a call was interrupted.                                                 *)
IInv ==
  /\ TypeInv
  /\ Foretold
  /\ mode = "up" => Coherent(After(disk, writes))
  /\ mode \in {"down", "killed"} => Intact(disk)

LEMMA OpenIsOK ==
  ASSUME Persisted = Blocks, NEW d, NEW fat, NEW free, NEW own, NEW len, NEW pos, NEW rank,
         Good(d, fat, free, own, len, pos, rank), NEW f, OpenAt(f, d, own, pos)
  PROVE  OpenFileOK(f)
<1>1. PICK s \in Heads(own) : s = f.meta.start /\ d[s] = f.meta
  BY DEF OpenAt
<1>2. d[s] \in Vnode
  BY GoodFacts
<1>3. PICK N : N = Heads(own) /\ Tree(d, N, rank) /\ s \in N
  BY DEF Good, Filed
<1>4. Node(d, N, rank, s)
  BY <1>3, TreeNode
<1>5. f.meta.type = "V_FILE" /\ f.meta.eof \in 0 .. f.meta.size * BlockSize
  BY <1>1, <1>4 DEF Node, OpenAt
<1>6. f.meta.eof <= Capacity(f)
  <2>1. PICK k : k = f.meta.size * BlockSize
    OBVIOUS
  <2>2. f.meta.eof \in 0 .. k
    BY <1>5, <2>1
  <2> QED
    BY <2>1, <2>2 DEF Capacity
<1> QED
  BY <1>1, <1>2, <1>5, <1>6 DEF OpenAt, OpenFileOK

LEMMA NothingKnown ==
  ASSUME Persisted = Blocks, Forget
  PROVE  /\ ftable' \in [All -> Entry] /\ free_blocks' \in 0 .. Blocks
         /\ DOMAIN file_desc' = Descriptors
         /\ \A fd \in Descriptors : file_desc'[fd] = Closed
<1>1. [occupied |-> FREE, next |-> NIL] \in Entry /\ 0 \in 0 .. Blocks
  BY Positions DEF Entry, FREE, NIL
<1>2. NoTable \in [All -> Entry]
  BY <1>1 DEF NoTable, All
<1> QED
  BY <1>1, <1>2 DEF Forget

LEMMA InitInv ==
  ASSUME Usage, Init
  PROVE  IInv
<1>1. Persisted = Blocks
  BY DEF Usage
<1>2. [occupied |-> FREE, next |-> NIL] \in Entry /\ 0 \in 0 .. Blocks
  BY <1>1, Positions DEF Entry, FREE, NIL
<1>3. NoTable \in [All -> Entry]
  BY <1>2 DEF NoTable, All
<1>4. IsDisk(create_disk)
  BY <1>1, CreatedDisk
<1>5. mode = "down" /\ mode \in Modes
  BY DEF Init, Modes
<1>6. <<>> \in Seq(Writ)
  OBVIOUS
<1>7. TypeInv
  BY <1>2, <1>3, <1>4, <1>5, <1>6 DEF TypeInv, Init
<1>8. Intact(disk)
  BY DEF Intact, Init
<1>9. Foretold
  <2>1. writes = <<>> /\ disk = create_disk /\ stored = [name \in FileNames |-> Absent]
    BY DEF Init
  <2>2. After(disk, writes) = disk
    BY <1>4, <2>1, AfterNone
  <2>3. Stored(disk) = stored
    <3>1. PICK F : F = Stored(disk)
      OBVIOUS
    <3>2. \A name \in FileNames : F[name] = Absent
      BY <1>1, <2>1, <3>1, CreatedEmpty DEF NoFiles
    <3>3. F = [name \in FileNames |-> F[name]]
      BY <3>1, StoredDomain
    <3> QED
      BY <2>1, <3>1, <3>2, <3>3
  <2> QED
    BY <2>2, <2>3 DEF Foretold
<1> QED
  BY <1>5, <1>7, <1>8, <1>9 DEF IInv

(* The end of a call, at which the open files are fds.                     *)
LEMMA ReturnInv ==
  ASSUME Persisted = Blocks, TypeInv, Foretold, writes = <<>>, NEW name \in Names, NEW w, NEW fds,
         DOMAIN fds = Descriptors, Return(name, w, fds), w.bad \/ Reached(w, fds)
  PROVE  IInv'
<1>1. CASE w.bad
  <2>1. mode' = "noblock" /\ UNCHANGED <<ftable, free_blocks, file_desc, writes, target, stored, disk>>
    BY <1>1 DEF Return, memory
  <2>2. mode' \in Modes /\ mode' # "up" /\ mode' \notin {"down", "killed"}
    BY <2>1 DEF Modes
  <2>3. TypeInv'
    BY <2>1, <2>2 DEF TypeInv
  <2>4. Foretold'
    BY <2>1 DEF Foretold
  <2> QED
    BY <2>2, <2>3, <2>4 DEF IInv
<1>2. CASE ~w.bad
  <2>1. /\ mode' = "up" /\ ftable' = w.fat /\ free_blocks' = w.free /\ file_desc' = fds
        /\ writes' = w.out /\ disk' = disk /\ target' \in Names \cup {NoName}
    BY <1>2 DEF Return
  <2>2. w \in Works
    BY <1>2 DEF Reached
  <2>3. PICK own, len, pos, rank :
          /\ Good(Held(disk, w), w.fat, w.free, own, len, pos, rank)
          /\ OpenOK(fds, Held(disk, w), own, pos)
    BY <1>2 DEF Reached
  <2>4. PICK d : d = Held(disk, w)
    OBVIOUS
  <2>5. Coherent(d)'
    <3>1. Good(d, w.fat, w.free, own, len, pos, rank) /\ OpenOK(fds, d, own, pos)
      BY <2>3, <2>4
    <3>2. Good(d, ftable', free_blocks', own, len, pos, rank) /\ OpenOK(file_desc', d, own, pos)
      BY <2>1, <3>1
    <3> QED
      BY <3>2 DEF Coherent
  <2>6. After(disk, writes)' = d
    BY <2>1, <2>4 DEF Held
  <2>7. w.free \in 0 .. Blocks
    <3>1. w.free = Cardinality(Vacant(w.fat))
      BY <2>3 DEF Good
    <3>2. Cardinality(Vacant(w.fat)) \in Nat /\ Cardinality(Vacant(w.fat)) <= Blocks
      BY VacantFinite
    <3>3. Blocks \in Nat
      BY DiskAssumption
    <3> QED
      BY <3>1, <3>2, <3>3
  <2>8. \A fd \in Descriptors : fds[fd] # Closed => OpenFileOK(fds[fd])
    BY <2>3, OpenIsOK DEF OpenOK
  <2>9. mode' \in Modes /\ mode' \notin {"down", "killed"}
    BY <2>1 DEF Modes
  <2>10. TypeInv'
    <3>1. w.fat \in [All -> Entry] /\ w.out \in Seq(Writ) /\ IsDisk(disk)
      BY <2>2, WorkFields DEF TypeInv
    <3> QED
      BY <2>1, <2>7, <2>8, <2>9, <3>1 DEF TypeInv
  <2>11. stored' = Stored(d)
    BY <1>2, <2>4 DEF Return, Held
  <2>12. Foretold'
    <3>1. stored' = (Stored(After(disk, writes)))'
      <4>1. After(disk', writes') = d
        BY <2>1, <2>4 DEF Held
      <4>2. stored' = Stored(After(disk', writes'))
        BY <2>11, <4>1
      <4> QED
        BY <4>2 DEF After, Stored
    <3> QED
      BY <3>1 DEF Foretold
  <2> QED
    BY <2>5, <2>6, <2>9, <2>10, <2>12 DEF IInv
<1> QED
  BY <1>1, <1>2

(* Between two calls the disk holds everything.                            *)
LEMMA IdleDisk ==
  ASSUME IInv, Idle
  PROVE  /\ TypeInv /\ writes = <<>> /\ IsDisk(disk) /\ After(disk, writes) = disk
         /\ \E own, len, pos, rank :
              Good(disk, ftable, free_blocks, own, len, pos, rank) /\ OpenOK(file_desc, disk, own, pos)
<1>1. TypeInv /\ writes = <<>> /\ mode = "up" /\ IsDisk(disk) /\ Coherent(After(disk, writes))
  BY DEF IInv, Idle, TypeInv
<1>2. After(disk, writes) = disk
  BY <1>1, AfterNone
<1> QED
  BY <1>1, <1>2 DEF Coherent

LEMMA IdleIntact ==
  ASSUME IInv, Idle
  PROVE  Intact(disk)
<1>1. PICK own, len, pos, rank : Good(disk, ftable, free_blocks, own, len, pos, rank)
  BY IdleDisk
<1>2. FatOf(disk) = ftable /\ disk[0].free = free_blocks
  BY <1>1 DEF Good
<1> QED
  BY <1>1, <1>2 DEF Intact

(* The process is lost in a call.                                          *)
LEMMA LoseInv ==
  ASSUME Usage, IInv, Idle, NEW how \in {"killed", "overrun", "stray"}, Lose(how)
  PROVE  IInv'
<1>1. Persisted = Blocks
  BY DEF Usage
<1>2. TypeInv /\ writes = <<>> /\ Intact(disk)
  BY IdleDisk, IdleIntact
<1>3. mode' = how /\ Forget /\ UNCHANGED <<disk, writes, target, stored>>
  BY DEF Lose
<1>4. mode' \in Modes /\ mode' # "up"
  BY <1>3 DEF Modes
<1>5. /\ ftable' \in [All -> Entry] /\ free_blocks' \in 0 .. Blocks
      /\ DOMAIN file_desc' = Descriptors
      /\ \A fd \in Descriptors : file_desc'[fd] = Closed
  BY <1>1, <1>3, NothingKnown
<1>6. TypeInv'
  BY <1>2, <1>3, <1>4, <1>5 DEF TypeInv
<1>7. Intact(disk')
  BY <1>2, <1>3
<1>8. (Intact(disk))'
  BY <1>7 DEF Intact
<1>9. Foretold'
  <2>1. Foretold
    BY DEF IInv
  <2> QED
    BY <1>3, <2>1 DEF Foretold
<1> QED
  BY <1>4, <1>6, <1>8, <1>9 DEF IInv

LEMMA ExitInv ==
  ASSUME Usage, IInv, Exit
  PROVE  IInv'
<1>1. Persisted = Blocks
  BY DEF Usage
<1>2. /\ mode = "up" /\ mode' = (IF writes = <<>> THEN "down" ELSE "torn")
      /\ Forget /\ writes' = <<>> /\ target' = NoName /\ disk' = disk
      /\ stored' = Stored(disk)
  BY DEF Exit
<1>3. mode' \in Modes /\ mode' # "up" /\ (writes # <<>> => mode' \notin {"down", "killed"})
  BY <1>2 DEF Modes
<1>4. /\ ftable' \in [All -> Entry] /\ free_blocks' \in 0 .. Blocks
      /\ DOMAIN file_desc' = Descriptors
      /\ \A fd \in Descriptors : file_desc'[fd] = Closed
  BY <1>1, <1>2, NothingKnown
<1>5. IsDisk(disk) /\ <<>> \in Seq(Writ)
  BY DEF IInv, TypeInv
<1>6. TypeInv'
  BY <1>2, <1>3, <1>4, <1>5 DEF TypeInv
<1>7. writes = <<>> => (Intact(disk))'
  <2>1. SUFFICES ASSUME writes = <<>>
                 PROVE  (Intact(disk))'
    OBVIOUS
  <2>2. Intact(disk)
    BY <1>2, <2>1, IdleIntact DEF Idle
  <2>3. Intact(disk')
    BY <1>2, <2>2
  <2> QED
    BY <2>3 DEF Intact
<1>8. Foretold'
  <2>1. After(disk', writes') = disk
    BY <1>2, <1>5, AfterNone
  <2>2. (Stored(After(disk, writes)))' = Stored(disk)
    BY <2>1
  <2> QED
    BY <1>2, <2>2 DEF Foretold
<1> QED
  BY <1>3, <1>6, <1>7, <1>8 DEF IInv

(* What the disk will hold does not change while it is written.            *)
LEMMA DiskWriteInv ==
  ASSUME Usage, IInv, DiskWrite
  PROVE  IInv'
<1>1. Persisted = Blocks
  BY DEF Usage
<1>2. TypeInv /\ IsDisk(disk) /\ writes \in Seq(Writ) /\ writes # <<>> /\ mode = "up"
  BY DEF IInv, TypeInv, DiskWrite
<1>3. PICK n : n = IF WriteByWrite THEN 1 ELSE Len(writes)
  OBVIOUS
<1>4. n \in 0 .. Len(writes)
  <2>1. Len(writes) \in Nat /\ Len(writes) # 0
    BY <1>2, LenProperties, EmptySeq
  <2> QED
    BY <1>3, <2>1
<1>5. /\ disk' = After(disk, SubSeq(writes, 1, n))
      /\ writes' = SubSeq(writes, n + 1, Len(writes))
      /\ target' \in {target, NoName}
      /\ UNCHANGED <<mode, memory, stored>>
  BY <1>3, Zenon DEF DiskWrite
<1>6. PICK some, rest : SplitAt(writes, n, some, rest)
  BY DEF SplitAt
<1>7. /\ some \in Seq(Writ) /\ rest \in Seq(Writ)
      /\ After(After(disk, some), rest) = After(disk, writes)
  BY <1>2, <1>4, <1>6, AfterSplit
<1>8. disk' = After(disk, some) /\ writes' = rest
  BY <1>5, <1>6 DEF SplitAt
<1>9. IsDisk(disk') /\ writes' \in Seq(Writ)
  BY <1>1, <1>2, <1>7, <1>8, AfterOK
<1>10. After(disk', writes') = After(disk, writes)
  BY <1>7, <1>8
<1>11. UNCHANGED <<mode, ftable, free_blocks, file_desc>>
  BY <1>5 DEF memory
<1>12. TypeInv'
  BY <1>2, <1>5, <1>9, <1>11 DEF TypeInv
<1>13. PICK d : d = After(disk, writes) /\ Coherent(d)
  BY <1>2 DEF IInv
<1>14. Coherent(d)'
  <2>1. PICK own, len, pos, rank :
          Good(d, ftable, free_blocks, own, len, pos, rank) /\ OpenOK(file_desc, d, own, pos)
    BY <1>13 DEF Coherent
  <2>2. Good(d, ftable', free_blocks', own, len, pos, rank) /\ OpenOK(file_desc', d, own, pos)
    BY <1>11, <2>1
  <2> QED
    BY <2>2 DEF Coherent
<1>15. (After(disk, writes))' = d
  BY <1>10, <1>13
<1>16. mode' \notin {"down", "killed"}
  BY <1>2, <1>11
<1>17. Foretold'
  <2>1. Foretold /\ stored' = stored
    BY <1>5 DEF IInv
  <2>2. (Stored(After(disk, writes)))' = Stored(d)
    BY <1>15
  <2> QED
    BY <1>13, <2>1, <2>2 DEF Foretold
<1> QED
  BY <1>12, <1>14, <1>15, <1>16, <1>17 DEF IInv

(* What a call leaves of the files.                                        *)
Leaving(F, name, c) == [n \in FileNames |-> IF n = name THEN c ELSE F[n]]

(* The call found no block.                                                *)
NoBlock == mode' = "noblock" /\ UNCHANGED <<file_desc, stored>>

(* A call returned with the open files fds, and the file called name is c. *)
Outcome(fds, name, c) == mode' = "up" /\ file_desc' = fds /\ stored' = Leaving(stored, name, c)

LEMMA IdleStored ==
  ASSUME IInv, writes = <<>>
  PROVE  stored = Stored(disk)
<1>1. IsDisk(disk) /\ Foretold
  BY DEF IInv, TypeInv
<1> QED
  BY <1>1, AfterNone DEF Foretold

LEMMA ReturnOutcome ==
  ASSUME IInv, writes = <<>>, NEW about, NEW w, NEW fds, Return(about, w, fds), NEW name, NEW c,
         w.bad \/ Leaves(Held(disk, w), Stored(disk), name, c)
  PROVE  NoBlock \/ Outcome(fds, name, c)
<1>1. CASE w.bad
  BY <1>1 DEF Return, memory, NoBlock
<1>2. CASE ~w.bad
  <2>1. PICK d : d = Held(disk, w)
    OBVIOUS
  <2>2. mode' = "up" /\ file_desc' = fds /\ stored' = Stored(d)
    BY <1>2, <2>1 DEF Return, Held
  <2>3. PICK F : F = Stored(d)
    OBVIOUS
  <2>4. \A n \in FileNames : F[n] = IF n = name THEN c ELSE stored[n]
    BY <1>2, <2>1, <2>3, IdleStored DEF Leaves
  <2>5. F = [n \in FileNames |-> F[n]]
    BY <2>3, StoredDomain
  <2>6. F = Leaving(stored, name, c)
    BY <2>4, <2>5 DEF Leaving
  <2> QED
    BY <2>2, <2>3, <2>6 DEF Outcome
<1> QED
  BY <1>1, <1>2

LEMMA ReturnSame ==
  ASSUME IInv, writes = <<>>, NEW about, NEW w, NEW fds, Return(about, w, fds),
         w.bad \/ Stored(Held(disk, w)) = Stored(disk)
  PROVE  NoBlock \/ (mode' = "up" /\ file_desc' = fds /\ stored' = stored)
<1>1. CASE w.bad
  BY <1>1 DEF Return, memory, NoBlock
<1>2. CASE ~w.bad
  <2>1. mode' = "up" /\ file_desc' = fds /\ stored' = Stored(Held(disk, w))
    BY <1>2 DEF Return, Held
  <2> QED
    BY <1>2, <2>1, IdleStored
<1> QED
  BY <1>1, <1>2

-----------------------------------------------------------------------------
(* The calls of the interface.                                             *)

(* The constructor's table and counter, as they come from the disk.        *)
Loaded(fat, free) == [fat |-> fat, free |-> free, out |-> <<>>, at |-> NIL, bad |-> FALSE]

LEMMA FileSystemParts ==
  ASSUME file_system
  PROVE  /\ mode \in {"down", "killed"}
         /\ \E rest, fat, load, x, w, fds :
              /\ fat = [b \in All |-> IF b < Persisted THEN FatOf(disk)[b] ELSE rest[b]]
              /\ load = Loaded(fat, disk[SUPERBLOCK].free)
              /\ x = Replaced(load, FAT_init)
              /\ w = IF fat[ROOT].occupied THEN load ELSE vfs_sync_file(FAT_write(x, "WRITE"), RootVnode, <<>>)
              /\ fds = [fd \in Descriptors |-> Closed]
              /\ Return(Slash, w, fds)
BY Zenon DEF file_system, Loaded, Replaced, All

(* The process starts, without open files.                                 *)
Started == mode \in {"down", "killed"} /\ mode' = "up" /\ AllClosed(file_desc') /\ stored' = stored

LEMMA FileSystemInv ==
  ASSUME Usage, IInv, file_system
  PROVE  IInv' /\ Started
<1>1. Persisted = Blocks
  BY DEF Usage
<1>2. PICK rest, fat, load, x, w, fds :
        /\ fat = [b \in All |-> IF b < Persisted THEN FatOf(disk)[b] ELSE rest[b]]
        /\ load = Loaded(fat, disk[SUPERBLOCK].free)
        /\ x = Replaced(load, FAT_init)
        /\ w = IF fat[ROOT].occupied THEN load ELSE vfs_sync_file(FAT_write(x, "WRITE"), RootVnode, <<>>)
        /\ fds = [fd \in Descriptors |-> Closed]
        /\ Return(Slash, w, fds)
  BY FileSystemParts
<1>3. TypeInv /\ Foretold /\ mode \in {"down", "killed"} /\ writes = <<>> /\ Intact(disk)
  <2>1. mode \in {"down", "killed"}
    BY FileSystemParts
  <2> QED
    BY <2>1 DEF IInv, TypeInv
<1>4. fat = FatOf(disk)
  <2>1. FatOf(disk) = [b \in All |-> FatOf(disk)[b]]
    BY <1>1 DEF FatOf, All
  <2>2. \A b \in All : b < Persisted
    BY <1>1, Positions DEF All
  <2>3. fat = [b \in All |-> FatOf(disk)[b]]
    BY <1>2, <2>2
  <2> QED
    BY <2>1, <2>3
<1>5. AllClosed(fds) /\ DOMAIN fds = Descriptors
  BY <1>2 DEF AllClosed
<1>6. ROOT \in All /\ ROOT \in Blk
  BY <1>1, Positions DEF All, Blk
<1>7. ~w.bad /\ Reached(w, fds) /\ Stored(Held(disk, w)) = Stored(disk)
  <2>1. CASE disk = create_disk
    <3>1. ~fat[ROOT].occupied
      BY <1>1, <1>4, <1>6, <2>1, CreatedDisk
    <3>2. w = vfs_sync_file(FAT_write(x, "WRITE"), RootVnode, <<>>)
      BY <1>2, <3>1
    <3>3. disk[SUPERBLOCK].free = Blocks - 1
      <4>1. create_disk[0] = [free |-> Blocks - 1]
        BY <1>1, CreatedDisk
      <4>2. disk[SUPERBLOCK] = [free |-> Blocks - 1]
        BY <2>1, <4>1 DEF SUPERBLOCK
      <4> QED
        BY <4>2
    <3>4. x = [fat |-> FAT_init, free |-> Blocks - 1, out |-> <<>>, at |-> NIL, bad |-> FALSE]
      BY <1>2, <3>3, Zenon DEF Loaded, Replaced
    <3>5. ~w.bad /\ Reached(w, fds) /\ NoFiles(Held(disk, w))
      BY <1>1, <1>5, <2>1, <3>2, <3>4, FormatGood
    <3>6. NoFiles(disk)
      BY <1>1, <2>1, CreatedEmpty
    <3>7. \A d : NoFiles(d) => Stored(d) = [n \in FileNames |-> Absent]
      BY StoredDomain DEF NoFiles
    <3> QED
      BY <3>5, <3>6, <3>7
  <2>2. CASE \E own, len, pos, rank : Good(disk, FatOf(disk), disk[0].free, own, len, pos, rank)
    <3>1. PICK free : free = disk[0].free
      OBVIOUS
    <3>2. PICK own, len, pos, rank : Good(disk, fat, free, own, len, pos, rank)
      BY <1>4, <2>2, <3>1
    <3>3. fat[ROOT].occupied
      <4>1. Tree(disk, Heads(own), rank) /\ Layout(fat, own, len, pos, NIL)
        BY <3>2 DEF Good, Filed
      <4>2. own[ROOT] # NIL
        BY <4>1, NilOutside DEF Tree, RootNode, Heads
      <4> QED
        BY <1>6, <4>1, <4>2, LayoutAt DEF Follows
    <3>4. w = Loaded(fat, free)
      BY <1>2, <3>1, <3>3 DEF SUPERBLOCK
    <3>5. OpenOK(fds, disk, own, pos)
      BY <1>5 DEF OpenOK, OpenOnce, AllClosed
    <3>6. Reached(w, fds) /\ Held(disk, w) = disk
      BY <1>1, <3>2, <3>4, <3>5, LoadGood DEF Loaded
    <3>7. ~w.bad
      BY <3>4 DEF Loaded
    <3> QED
      BY <3>6, <3>7
  <2> QED
    BY <1>3, <2>1, <2>2 DEF Intact
<1>8. Slash \in Names
  BY DEF Names
<1>9. mode' = "up" /\ file_desc' = fds /\ stored' = stored
  <2>1. mode' = "up" /\ file_desc' = fds /\ stored' = Stored(Held(disk, w))
    BY <1>2, <1>7 DEF Return, Held
  <2> QED
    BY <1>3, <1>7, <2>1, IdleStored
<1>10. IInv'
  BY <1>1, <1>2, <1>3, <1>5, <1>7, <1>8, ReturnInv
<1> QED
  BY <1>3, <1>5, <1>9, <1>10 DEF Started

(* vfs_create and vfs_mkdir.                                               *)
Parenthood(name, dir_name, type, size, eof, binary, found, q, parent, s, meta, w) ==
  /\ found = vfs_search(disk, dir_name)
  /\ q = (IF found = NIL THEN ROOT ELSE found)
  /\ parent = disk[q]
  /\ s = next_free_block(ftable)
  /\ meta = NewMeta(name, type, s, size, eof, parent.start)
  /\ w = IF s = NIL THEN [Work EXCEPT !.bad = TRUE]
         ELSE vfs_sync_file(write_block(Work, parent.start, Adding(parent, s), "OVERWRITE"), meta, binary)

LEMMA NewEntryParts ==
  ASSUME NEW name, NEW dir_name, NEW type, NEW size, NEW eof, NEW binary,
         NewEntry(name, dir_name, type, size, eof, binary)
  PROVE  /\ Idle /\ vfs_search(disk, name) = NIL
         /\ \E found, q, parent, s, meta, w :
              /\ Parenthood(name, dir_name, type, size, eof, binary, found, q, parent, s, meta, w)
              /\ Return(name, w, file_desc) \/ Lose("stray")
<1>1. PICK found, q, parent, s, meta, w :
        Parenthood(name, dir_name, type, size, eof, binary, found, q, parent, s, meta, w)
  BY Zenon DEF Parenthood
<1>2. Return(name, w, file_desc) \/ Lose("stray")
  BY <1>1, Zenon DEF NewEntry, Parenthood, NewMeta, Adding, add_content
<1>3. Idle /\ vfs_search(disk, name) = NIL
  BY Zenon DEF NewEntry
<1> QED
  BY <1>1, <1>2, <1>3

LEMMA NewEntryInv ==
  ASSUME Usage, IInv, NEW name \in Names, NEW dir_name \in ParentNames,
         NEW type \in {"V_FILE", "V_DIRECTORY"}, NEW size \in 0 .. Blocks,
         NEW eof \in NIL .. Blocks * BlockSize, NEW binary \in Seq(Byte),
         type = "V_FILE" => name \in FileNames /\ eof \in 0 .. size * BlockSize /\ eof = 0,
         NewEntry(name, dir_name, type, size, eof, binary),
         NEW c, c = IF type = "V_FILE" THEN <<>> ELSE Absent
  PROVE  /\ IInv' /\ Idle
         /\ name \in FileNames => stored[name] = Absent
         /\ NoBlock \/ Lose("stray") \/ Outcome(file_desc, name, c)
<1>1. Persisted = Blocks /\ dir_name \notin FileNames
  BY DEF Usage
<1>2. Idle /\ vfs_search(disk, name) = NIL
  BY NewEntryParts
<1>3. PICK found, q, parent, s, meta, w :
        /\ Parenthood(name, dir_name, type, size, eof, binary, found, q, parent, s, meta, w)
        /\ Return(name, w, file_desc) \/ Lose("stray")
  BY NewEntryParts
<1>4. TypeInv /\ writes = <<>> /\ DOMAIN file_desc = Descriptors
  BY <1>2, IdleDisk DEF TypeInv
<1>5. PICK own, len, pos, rank :
        Good(disk, ftable, free_blocks, own, len, pos, rank) /\ OpenOK(file_desc, disk, own, pos)
  BY <1>2, IdleDisk
<1>6. PICK N : N = Heads(own) /\ Tree(disk, N, rank) /\ Layout(ftable, own, len, pos, NIL)
  BY <1>5 DEF Good, Filed
<1>7. /\ found = vfs_search(disk, dir_name)
      /\ q = (IF found = NIL THEN ROOT ELSE found)
      /\ parent = disk[q] /\ s = next_free_block(ftable)
  BY <1>3 DEF Parenthood
<1>8. q \in N /\ disk[q].type = "V_DIRECTORY"
  <2>1. CASE found = NIL
    BY <1>6, <1>7, <2>1 DEF Tree, RootNode
  <2>2. CASE found # NIL
    <3>1. found \in N /\ disk[found].name = dir_name
      BY <1>1, <1>6, <1>7, <2>2, SearchResult
    <3>2. Node(disk, N, rank, found) /\ disk[found] \in Vnode
      BY <1>6, <3>1, TreeNode
    <3>3. disk[found].type # "V_FILE"
      BY <1>1, <3>1, <3>2 DEF Node
    <3>4. disk[found].type \in {"V_FILE", "V_DIRECTORY"}
      BY <3>2, VnodeFields
    <3> QED
      BY <1>7, <2>2, <3>1, <3>3, <3>4
  <2> QED
    BY <2>1, <2>2
<1>9. q \in Heads(own) /\ q \in Blk /\ parent.start = q
  BY <1>1, <1>5, <1>6, <1>7, <1>8, GoodFacts
<1>10. \A b \in N : disk[b].name # name
  <2>1. NIL \notin N
    BY <1>6, NilOutside DEF Heads
  <2>2. PICK t : t = vfs_search(disk, name)
    OBVIOUS
  <2>3. \/ t = NIL /\ \A b \in N : disk[b].name # name
        \/ t \in N /\ disk[t].name = name
    BY <1>1, <1>6, <2>2, SearchResult
  <2> QED
    BY <1>2, <2>1, <2>2, <2>3
<1>11. w.bad \/ (Reached(w, file_desc) /\ Leaves(Held(disk, w), Stored(disk), name, c))
  <2>1. CASE s = NIL
    <3>1. w = [Work EXCEPT !.bad = TRUE]
      BY <1>3, <2>1 DEF Parenthood
    <3>2. w.bad
      BY <3>1 DEF Work
    <3> QED
      BY <3>2
  <2>2. CASE s # NIL
    <3>1. s \in Blk /\ ~ftable[s].occupied
      BY <1>1, <1>7, <2>2, NextFree
    <3>2. own[s] = NIL
      BY <1>6, <3>1, LayoutAt DEF Follows
    <3>3. meta = NewMeta(name, type, s, size, eof, q)
      BY <1>3, <1>9 DEF Parenthood
    <3>4. /\ meta \in Vnode /\ StartsAt(meta, s) /\ NewNode(meta, s, q) /\ meta.name = name
          /\ meta.type = type /\ (type = "V_FILE" => meta.eof = 0)
      <4>1. meta \in Vnode /\ StartsAt(meta, s) /\ NewNode(meta, s, q) /\ meta.name = name
        BY <1>1, <1>9, <3>1, <3>3, NewMetaOK
      <4>2. meta.type = type /\ meta.eof = eof
        BY <3>3 DEF NewMeta
      <4> QED
        BY <4>1, <4>2
    <3>5. w = vfs_sync_file(write_block(Work, q, Adding(disk[q], s), "OVERWRITE"), meta, binary)
      BY <1>3, <1>7, <1>9, <2>2 DEF Parenthood
    <3>6. \A b \in Heads(own) : disk[b].name # meta.name
      BY <1>6, <1>10, <3>4
    <3>7. PICK v \in Vnode : v = meta
      BY <3>4
    <3>8. /\ StartsAt(v, s) /\ NewNode(v, s, q) /\ \A b \in Heads(own) : disk[b].name # v.name
          /\ v.type = "V_FILE" => v.eof = 0
      BY <3>4, <3>6, <3>7
    <3>10. v.name = name /\ NewContent(v) = c
      BY <3>4, <3>7 DEF NewContent
    <3>9. w = vfs_sync_file(write_block(Work, q, Adding(disk[q], s), "OVERWRITE"), v, binary)
      BY <3>5, <3>7
    <3> HIDE <3>3, <3>4, <3>5, <3>7
    <3>11. w.bad \/ (Reached(w, file_desc) /\ Leaves(Held(disk, w), Stored(disk), v.name, NewContent(v)))
      BY <1>1, <1>5, <1>8, <1>9, <3>1, <3>2, <3>8, <3>9, EntryGood
    <3> QED
      BY <3>10, <3>11
  <2> QED
    BY <2>1, <2>2
<1>12. IInv'
  <2>1. CASE Lose("stray")
    BY <1>2, <2>1, LoseInv
  <2>2. CASE Return(name, w, file_desc)
    BY <1>1, <1>4, <1>11, <2>2, ReturnInv DEF IInv
  <2> QED
    BY <1>3, <2>1, <2>2
<1>13. ASSUME name \in FileNames
       PROVE  stored[name] = Absent
  <2>1. \A t \in Blk : ~TheFile(disk, own, name, t)
    BY <1>6, <1>10 DEF TheFile
  <2>2. Stored(disk)[name] = Absent
    BY <1>1, <1>5, <1>13, <2>1, StoredContent
  <2> QED
    BY <1>4, <2>2, IdleStored
<1>14. NoBlock \/ Lose("stray") \/ Outcome(file_desc, name, c)
  <2>1. CASE Return(name, w, file_desc)
    BY <1>4, <1>11, <2>1, ReturnOutcome
  <2> QED
    BY <1>3, <2>1
<1> QED
  BY <1>2, <1>12, <1>13, <1>14

LEMMA CreateInv ==
  ASSUME Usage, IInv, NEW name \in FileNames, NEW dir_name \in ParentNames, vfs_create(name, dir_name)
  PROVE  IInv' /\ Idle /\ stored[name] = Absent /\ (NoBlock \/ Lose("stray") \/ Outcome(file_desc, name, <<>>))
<1>1. PICK binary : binary = [k \in 1 .. BlockSize |-> IF k = 1 THEN EOF ELSE 0]
  OBVIOUS
<1>2. binary \in Seq(Byte)
  <2>1. \A k \in 1 .. BlockSize : (IF k = 1 THEN EOF ELSE 0) \in Byte
    BY DEF Byte
  <2>2. BlockSize \in Nat
    BY DiskAssumption
  <2>3. binary \in [1 .. BlockSize -> Byte]
    BY <1>1, <2>1
  <2> QED
    BY <2>2, <2>3, SeqDef
<1>3. NewEntry(name, dir_name, "V_FILE", 1, 0, binary)
  BY <1>1 DEF vfs_create
<1>4. Persisted = Blocks
  BY DEF Usage
<1>5. 1 \in 0 .. Blocks /\ 0 \in NIL .. Blocks * BlockSize /\ 0 \in 0 .. 1 * BlockSize
  <2>1. Blocks \in Nat /\ 1 <= Blocks /\ BlockSize \in Nat
    BY <1>4, Positions, DiskAssumption
  <2>2. PICK k : k = Blocks * BlockSize
    OBVIOUS
  <2>3. k \in Nat
    BY <2>1, <2>2
  <2> QED
    BY <2>1, <2>2, <2>3 DEF NIL
<1>6. name \in Names
  BY DEF Names
<1>7. PICK c : c = <<>> /\ c = IF "V_FILE" = "V_FILE" THEN <<>> ELSE Absent
  OBVIOUS
<1>8. /\ IInv' /\ Idle
      /\ name \in FileNames => stored[name] = Absent
      /\ NoBlock \/ Lose("stray") \/ Outcome(file_desc, name, c)
  BY <1>2, <1>3, <1>5, <1>6, <1>7, NewEntryInv
<1> QED
  BY <1>7, <1>8

LEMMA MkdirInv ==
  ASSUME Usage, IInv, NEW name \in DirNames, NEW dir_name \in ParentNames, vfs_mkdir(name, dir_name)
  PROVE  /\ IInv' /\ Idle
         /\ name \in FileNames => stored[name] = Absent
         /\ NoBlock \/ Lose("stray") \/ Outcome(file_desc, name, Absent)
<1>1. PICK binary : binary = <<>>
  OBVIOUS
<1>2. binary \in Seq(Byte)
  BY <1>1
<1>3. NewEntry(name, dir_name, "V_DIRECTORY", 0, NIL, binary)
  BY <1>1 DEF vfs_mkdir
<1>4. 0 \in 0 .. Blocks /\ NIL \in NIL .. Blocks * BlockSize
  <2>1. Blocks \in Nat /\ BlockSize \in Nat
    BY DiskAssumption
  <2>2. PICK k : k = Blocks * BlockSize
    OBVIOUS
  <2>3. k \in Nat
    BY <2>1, <2>2
  <2> QED
    BY <2>1, <2>2, <2>3 DEF NIL
<1>5. name \in Names
  BY DEF Names
<1>6. PICK type, c :
        /\ type \in {"V_FILE", "V_DIRECTORY"} /\ type = "V_DIRECTORY"
        /\ c = Absent /\ c = IF type = "V_FILE" THEN <<>> ELSE Absent
  OBVIOUS
<1>7. type # "V_FILE"
  BY <1>6
<1>8. NewEntry(name, dir_name, type, 0, NIL, binary)
  BY <1>3, <1>6
<1>9. /\ IInv' /\ Idle
      /\ name \in FileNames => stored[name] = Absent
      /\ NoBlock \/ Lose("stray") \/ Outcome(file_desc, name, c)
  BY <1>2, <1>4, <1>5, <1>6, <1>7, <1>8, NewEntryInv
<1> QED
  BY <1>6, <1>9

LEMMA Prefix ==
  ASSUME NEW binary \in Seq(Byte), NEW eof \in Nat, eof <= Len(binary)
  PROVE  /\ SubSeq(binary, 1, eof) \in Seq(Byte) /\ Len(SubSeq(binary, 1, eof)) = eof
         /\ \A i \in 1 .. eof : SubSeq(binary, 1, eof)[i] = binary[i]
         /\ SubSeq(binary, 1, eof) = [i \in 1 .. eof |-> binary[i]]
<1>1. PICK u : u = SubSeq(binary, 1, eof)
  OBVIOUS
<1>2. Len(binary) \in Nat /\ 1 \in Nat
  BY LenProperties
<1>3. u \in Seq(Byte) /\ Len(u) = eof /\ \A j \in 1 .. eof : u[j] = binary[j]
  BY <1>1, <1>2, SubSeqProperties
<1>4. u = [i \in 1 .. eof |-> binary[i]]
  BY <1>3, LenProperties
<1> QED
  BY <1>1, <1>3, <1>4

(* The intermediate results of vfs_rm.                                     *)
Removal(name, s, p, v, x, r) ==
  /\ s = vfs_search(disk, name)
  /\ p = disk[s].parent
  /\ v = write_block(Work, disk[p].start, Dropping(disk[p], s), "OVERWRITE")
  /\ x = Replaced(v, Unlink(ftable, s))
  /\ r = rm_blocks(FAT_write(x, "OVERWRITE"), Cardinality(Freed(ftable, s)))

LEMMA RmParts ==
  ASSUME NEW name, vfs_rm(name)
  PROVE  /\ Idle /\ (Careful => OpenOf(name) = {})
         /\ \E s, p, v, x, r :
              /\ Removal(name, s, p, v, x, r)
              /\ s # NIL /\ disk[s].type = "V_FILE" /\ Contains(disk[p].entries, s)
              /\ Return(name, r, file_desc)
<1>1. PICK s, p, v, x, r : Removal(name, s, p, v, x, r)
  BY Zenon DEF Removal
<1>2. /\ s # NIL /\ disk[s].type = "V_FILE" /\ Contains(disk[p].entries, s)
      /\ Return(name, r, file_desc)
  BY <1>1, Zenon DEF vfs_rm, Removal, rm_content, Dropping, Replaced
<1>3. Idle /\ (Careful => OpenOf(name) = {})
  BY Zenon DEF vfs_rm
<1> QED
  BY <1>1, <1>2, <1>3

LEMMA RmInv ==
  ASSUME Usage, IInv, NEW name \in FileNames, vfs_rm(name)
  PROVE  /\ IInv' /\ Idle /\ OpenOf(name) = {}
         /\ stored[name] \in Seq(Byte)
         /\ NoBlock \/ Outcome(file_desc, name, Absent)
<1>1. Persisted = Blocks /\ Careful
  BY DEF Usage
<1>2. Idle /\ OpenOf(name) = {}
  BY <1>1, RmParts
<1>3. PICK s, p, v, x, r :
        /\ Removal(name, s, p, v, x, r)
        /\ s # NIL /\ disk[s].type = "V_FILE" /\ Contains(disk[p].entries, s)
        /\ Return(name, r, file_desc)
  BY RmParts
<1>4. TypeInv /\ writes = <<>> /\ DOMAIN file_desc = Descriptors
  BY <1>2, IdleDisk DEF TypeInv
<1>5. PICK own, len, pos, rank :
        Good(disk, ftable, free_blocks, own, len, pos, rank) /\ OpenOK(file_desc, disk, own, pos)
  BY <1>2, IdleDisk
<1>6. PICK N : N = Heads(own) /\ Tree(disk, N, rank)
  BY <1>5 DEF Good, Filed
<1>7. s \in N /\ disk[s].name = name /\ s \in Heads(own)
  <2>1. s = vfs_search(disk, name)
    BY <1>3 DEF Removal
  <2> QED
    BY <1>1, <1>3, <1>6, <2>1, SearchResult
<1>8. NotOpen(s)
  <2>1. SUFFICES ASSUME NEW fd \in Descriptors, file_desc[fd] # Closed, file_desc[fd].meta.start = s
                 PROVE  FALSE
    BY DEF NotOpen
  <2>2. disk[s] = file_desc[fd].meta
    BY <1>5, <2>1 DEF OpenOK, OpenAt
  <2> QED
    BY <1>2, <1>7, <2>1, <2>2 DEF OpenOf
<1>9. p \in Heads(own)
  <2>1. Node(disk, N, rank, s) /\ RootNode(disk, N, rank)
    BY <1>6, <1>7 DEF Tree
  <2>2. p = disk[s].parent /\ s # ROOT
    BY <1>3, <2>1 DEF Removal, RootNode
  <2> QED
    BY <1>6, <2>1, <2>2 DEF Node
<1>10. disk[p].start = p
  BY <1>1, <1>5, <1>9, GoodFacts
<1>11. Reached(r, file_desc) /\ Leaves(Held(disk, r), Stored(disk), name, Absent)
  <2>1. /\ p = disk[s].parent
        /\ v = write_block(Work, p, Dropping(disk[p], s), "OVERWRITE")
        /\ x = Replaced(v, Unlink(ftable, s))
        /\ r = rm_blocks(FAT_write(x, "OVERWRITE"), Cardinality(Freed(ftable, s)))
    BY <1>3, <1>10 DEF Removal
  <2>2. Reached(r, file_desc) /\ Leaves(Held(disk, r), Stored(disk), disk[s].name, Absent)
    BY <1>1, <1>3, <1>5, <1>7, <1>8, <2>1, RmGood
  <2> QED
    BY <1>7, <2>2
<1>12. name \in Names
  BY DEF Names
<1>13. IInv'
  BY <1>1, <1>3, <1>4, <1>11, <1>12, ReturnInv DEF IInv
<1>14. NoBlock \/ Outcome(file_desc, name, Absent)
  BY <1>3, <1>4, <1>11, ReturnOutcome
<1>15. stored[name] \in Seq(Byte)
  <2>1. s \in Blk /\ TheFile(disk, own, name, s)
    BY <1>3, <1>7 DEF TheFile, Heads
  <2>2. PICK binary \in Seq(Byte), eof \in Nat :
          disk[s].eof = eof /\ eof <= Len(binary) /\ SameBytes(disk, own, pos, s, eof, binary)
    BY <1>1, <1>5, <2>1, SomeBuffer
  <2>3. Stored(disk)[name] = SubSeq(binary, 1, eof)
    BY <1>1, <1>5, <2>1, <2>2, StoredBuffer
  <2>4. SubSeq(binary, 1, eof) \in Seq(Byte)
    BY <2>2, Prefix
  <2> QED
    BY <1>4, <2>3, <2>4, IdleStored
<1> QED
  BY <1>2, <1>13, <1>14, <1>15

-----------------------------------------------------------------------------
(* vfs_open, vfs_read, vfs_seek.                                           *)

(* A descriptor gets another content, the disk stays.                      *)
LEMMA HandedOK ==
  ASSUME NEW d, NEW own, NEW pos, OpenOK(file_desc, d, own, pos),
         NEW fd \in Descriptors, NEW g, NEW fds, Handed(file_desc, fd, g, fds), OpenAt(g, d, own, pos),
         \A fe \in Descriptors : fe # fd /\ file_desc[fe] # Closed => file_desc[fe].meta.start # g.meta.start
  PROVE  OpenOK(fds, d, own, pos)
<1>1. ASSUME NEW fe \in Descriptors, fds[fe] # Closed
      PROVE  OpenAt(fds[fe], d, own, pos)
  <2>1. CASE fe = fd
    BY <1>1, <2>1 DEF Handed
  <2>2. CASE fe # fd
    BY <1>1, <2>2 DEF Handed, OpenOK
  <2> QED
    BY <2>1, <2>2
<1>2. OpenOnce(fds)
  BY DEF OpenOnce, OpenOK, Handed
<1> QED
  BY <1>1, <1>2 DEF OpenOK

(* vfs_open and the other calls set one descriptor.                        *)
WithFile(fds, fd, g) == [fds EXCEPT ![fd] = g]

LEMMA WithFileHanded ==
  ASSUME NEW fds, DOMAIN fds = Descriptors, NEW fd \in Descriptors, NEW g, NEW new, new = WithFile(fds, fd, g)
  PROVE  DOMAIN new = Descriptors /\ Handed(fds, fd, g, new) /\ new[fd] = g
BY DEF WithFile, Handed

Opening(name, s, chain, file, fd, w, fds) ==
  /\ s = vfs_search(disk, name)
  /\ chain = Chain(ftable, s, disk[s].size)
  /\ file = [meta |-> disk[s], binary |-> Joined(disk, chain, disk[s].size * BlockSize), offset |-> disk[s].eof]
  /\ fd = Min({fe \in Descriptors : file_desc[fe] = Closed})
  /\ w = [Work EXCEPT !.bad = NIL \in ToSet(chain)]
  /\ fds = WithFile(file_desc, fd, file)

LEMMA OpenParts ==
  ASSUME NEW name, OpenFile(name)
  PROVE  /\ Idle /\ {fe \in Descriptors : file_desc[fe] = Closed} # {}
         /\ Careful => OpenOf(name) = {}
         /\ \E s, chain, file, fd, w, fds :
              /\ Opening(name, s, chain, file, fd, w, fds)
              /\ s # NIL /\ disk[s].type = "V_FILE"
              /\ Return(name, w, fds)
<1>1. PICK s, chain, file, fd, w, fds : Opening(name, s, chain, file, fd, w, fds)
  BY Zenon DEF Opening
<1>2. s # NIL /\ disk[s].type = "V_FILE" /\ Return(name, w, fds)
  BY <1>1, Zenon DEF OpenFile, Opening, WithFile
<1>3. Idle /\ {fe \in Descriptors : file_desc[fe] = Closed} # {} /\ (Careful => OpenOf(name) = {})
  BY Zenon DEF OpenFile
<1> QED
  BY <1>1, <1>2, <1>3

(* A free descriptor gets a file, or the open file another offset; the     *)
(* files stay as they are.                                                 *)
Opened(fd, name) ==
  /\ mode' = "up" /\ stored' = stored
  /\ \E f : /\ IsFile(f) /\ f.meta.name = name /\ f.offset = Len(stored[name])
            /\ file_desc' = WithFile(file_desc, fd, f)

(* An open file gets another offset, the stored files stay.                *)
Moved(fd, offset) ==
  /\ mode' = "up" /\ stored' = stored
  /\ \E f : /\ IsFile(f) /\ f.meta = file_desc[fd].meta /\ f.offset = offset
            /\ file_desc' = WithFile(file_desc, fd, f)

LEMMA OpenFileInv ==
  ASSUME Usage, IInv, NEW name \in Names, OpenFile(name)
  PROVE  /\ IInv' /\ Idle /\ name \in FileNames
         /\ \E fd \in Descriptors :
              /\ file_desc[fd] = Closed /\ stored[name] \in Seq(Byte)
              /\ NoBlock \/ Opened(fd, name)
<1>1. Persisted = Blocks /\ Careful
  BY DEF Usage
<1>2. Idle /\ OpenOf(name) = {} /\ {fe \in Descriptors : file_desc[fe] = Closed} # {}
  BY <1>1, OpenParts
<1>3. PICK s, chain, file, fd, w, fds :
        /\ Opening(name, s, chain, file, fd, w, fds)
        /\ s # NIL /\ disk[s].type = "V_FILE"
        /\ Return(name, w, fds)
  BY OpenParts
<1>4. TypeInv /\ writes = <<>> /\ DOMAIN file_desc = Descriptors
  BY <1>2, IdleDisk DEF TypeInv
<1>5. PICK own, len, pos, rank :
        Good(disk, ftable, free_blocks, own, len, pos, rank) /\ OpenOK(file_desc, disk, own, pos)
  BY <1>2, IdleDisk
<1>6. PICK N : N = Heads(own) /\ Tree(disk, N, rank)
  BY <1>5 DEF Good, Filed
<1>7. s \in N /\ disk[s].name = name /\ s \in Heads(own)
  <2>1. s = vfs_search(disk, name)
    BY <1>3 DEF Opening
  <2> QED
    BY <1>1, <1>3, <1>6, <2>1, SearchResult
<1>8. disk[s] \in Vnode /\ disk[s].start = s /\ disk[s].size = len[s] /\ len[s] \in Nat
  BY <1>1, <1>5, <1>7, GoodFacts
<1>9. fd \in Descriptors /\ file_desc[fd] = Closed
  <2>1. PICK S : S = {fe \in Descriptors : file_desc[fe] = Closed}
    OBVIOUS
  <2>2. S \in SUBSET Nat /\ S # {}
    BY <1>2, <2>1 DEF Descriptors
  <2>3. fd = Min(S)
    BY <1>3, <2>1 DEF Opening
  <2>4. fd \in S
    BY <2>2, <2>3, LeastIsMin
  <2> QED
    BY <2>1, <2>4
<1>10. PICK n : n = len[s] * BlockSize
  OBVIOUS
<1>11. PICK meta : meta = disk[s]
  OBVIOUS
<1>12. meta.eof \in 0 .. n
  <2>1. Node(disk, N, rank, s)
    BY <1>6, <1>7, TreeNode
  <2> QED
    BY <1>3, <1>8, <1>10, <1>11, <2>1 DEF Node
<1>13. file.meta = meta /\ file.binary = Joined(disk, Chain(ftable, s, len[s]), n) /\ file.offset = meta.eof
  BY <1>3, <1>8, <1>10, <1>11 DEF Opening
<1>14. OpenAt(file, disk, own, pos)
  <2>1. /\ file.binary \in Seq(Byte) /\ Len(file.binary) = n
        /\ SameBytes(disk, own, pos, s, meta.eof, file.binary)
    BY <1>1, <1>5, <1>7, <1>10, <1>12, <1>13, OpenedBytes
  <2>2. n \in Nat
    BY <1>8, <1>10, DiskAssumption
  <2>3. meta.eof \in 0 .. meta.eof /\ meta.eof <= n
    BY <1>12, <2>2
  <2>4. meta.type = "V_FILE" /\ meta.start = s
    BY <1>3, <1>8, <1>11
  <2>5. IsFile(file)
    BY <1>3, Zenon DEF Opening, IsFile
  <2> QED
    BY <1>7, <1>11, <1>13, <2>1, <2>3, <2>4, <2>5 DEF OpenAt
<1>15. DOMAIN fds = Descriptors /\ Handed(file_desc, fd, file, fds)
  BY <1>3, <1>4, <1>9, WithFileHanded DEF Opening
<1>16. \A fe \in Descriptors : fe # fd /\ file_desc[fe] # Closed => file_desc[fe].meta.start # file.meta.start
  <2>1. SUFFICES ASSUME NEW fe \in Descriptors, file_desc[fe] # Closed,
                        file_desc[fe].meta.start = file.meta.start
                 PROVE  FALSE
    OBVIOUS
  <2>2. disk[s] = file_desc[fe].meta
    <3>1. file.meta.start = s
      BY <1>8, <1>11, <1>13
    <3> QED
      BY <1>5, <2>1, <3>1 DEF OpenOK, OpenAt
  <2> QED
    BY <1>2, <1>7, <2>1, <2>2 DEF OpenOf
<1>17. OpenOK(fds, disk, own, pos)
  BY <1>5, <1>9, <1>14, <1>15, <1>16, HandedOK
<1>18. w.bad \/ (Reached(w, fds) /\ Held(disk, w) = disk)
  <2>1. SUFFICES ASSUME ~w.bad
                 PROVE  Reached(w, fds) /\ Held(disk, w) = disk
    OBVIOUS
  <2>2. PICK b \in BOOLEAN : [Work EXCEPT !.bad = NIL \in ToSet(chain)] = [Work EXCEPT !.bad = b]
    <3>1. CASE NIL \in ToSet(chain)
      <4>1. (NIL \in ToSet(chain)) = TRUE
        BY <3>1
      <4> QED
        BY <4>1, Zenon
    <3>2. CASE NIL \notin ToSet(chain)
      <4>1. (NIL \in ToSet(chain)) = FALSE
        BY <3>2
      <4> QED
        BY <4>1, Zenon
    <3> QED
      BY <3>1, <3>2
  <2>3. w = [fat |-> ftable, free |-> free_blocks, out |-> <<>>, at |-> NIL, bad |-> b]
    <3>1. w = [Work EXCEPT !.bad = b]
      BY <1>3, <2>2, Zenon DEF Opening
    <3> QED
      BY <3>1 DEF Work
  <2>4. b = FALSE
    BY <2>1, <2>2, <2>3
  <2>5. w = [fat |-> ftable, free |-> free_blocks, out |-> <<>>, at |-> NIL, bad |-> FALSE]
    BY <2>3, <2>4
  <2> QED
    BY <1>1, <1>5, <1>17, <2>5, LoadGood
<1>19. name \in FileNames
  <2>1. Node(disk, N, rank, s)
    BY <1>6, <1>7, TreeNode
  <2> QED
    BY <1>3, <1>7, <2>1 DEF Node
<1>20. IInv'
  BY <1>1, <1>3, <1>4, <1>15, <1>18, ReturnInv DEF IInv
<1>21. NoBlock \/ (mode' = "up" /\ file_desc' = fds /\ stored' = stored)
  BY <1>3, <1>4, <1>18, ReturnSame
<1>22. stored[name] \in Seq(Byte) /\ Len(stored[name]) = file.offset
  <2>1. s \in Blk /\ TheFile(disk, own, name, s)
    BY <1>3, <1>7, <1>19 DEF TheFile, Heads
  <2>2. PICK binary \in Seq(Byte), eof \in Nat :
          disk[s].eof = eof /\ eof <= Len(binary) /\ SameBytes(disk, own, pos, s, eof, binary)
    BY <1>1, <1>5, <1>19, <2>1, SomeBuffer
  <2>3. Stored(disk)[name] = SubSeq(binary, 1, eof)
    BY <1>1, <1>5, <1>19, <2>1, <2>2, StoredBuffer
  <2>4. SubSeq(binary, 1, eof) \in Seq(Byte) /\ Len(SubSeq(binary, 1, eof)) = eof
    BY <2>2, Prefix
  <2>5. file.offset = eof
    BY <1>11, <1>13, <2>2
  <2> QED
    BY <1>4, <2>3, <2>4, <2>5, IdleStored
<1>23. Opened(fd, name) \/ NoBlock
  <2>1. IsFile(file) /\ file.meta.name = name /\ file.offset = Len(stored[name])
    BY <1>7, <1>11, <1>13, <1>14, <1>22 DEF OpenAt
  <2>2. fds = WithFile(file_desc, fd, file)
    BY <1>3 DEF Opening
  <2> QED
    BY <1>21, <2>1, <2>2 DEF Opened
<1> QED
  BY <1>2, <1>9, <1>19, <1>20, <1>22, <1>23

LEMMA OpenDirectoryInv ==
  ASSUME Usage, IInv, NEW name, OpenDirectory(name)
  PROVE  IInv' /\ Idle /\ Lose("stray")
<1>1. Idle /\ Lose("stray")
  BY Zenon DEF OpenDirectory
<1> QED
  BY <1>1, LoseInv


LEMMA InUse ==
  ASSUME IInv, NEW fd \in Descriptors, Using(fd)
  PROVE  /\ Idle /\ file_desc[fd] # Closed /\ TypeInv /\ writes = <<>> /\ DOMAIN file_desc = Descriptors
         /\ file_desc[fd].meta.name \in Names
         /\ OpenFileOK(file_desc[fd])
<1>1. Idle /\ file_desc[fd] # Closed
  BY DEF Using
<1>2. TypeInv /\ writes = <<>> /\ DOMAIN file_desc = Descriptors /\ OpenFileOK(file_desc[fd])
  BY <1>1, IdleDisk DEF TypeInv
<1> QED
  BY <1>1, <1>2, VnodeFields DEF OpenFileOK

(* Another offset.                                                         *)
LEMMA MoveInv ==
  ASSUME Usage, IInv, NEW fd \in Descriptors, Using(fd), NEW offset \in 0 .. file_desc[fd].meta.eof,
         Move(fd, offset)
  PROVE  IInv' /\ (NoBlock \/ Moved(fd, offset))
<1>1. Persisted = Blocks
  BY DEF Usage
<1>2. PICK f : f = file_desc[fd]
  OBVIOUS
<1>3. Idle /\ f # Closed /\ TypeInv /\ writes = <<>> /\ DOMAIN file_desc = Descriptors /\ f.meta.name \in Names
  BY <1>2, InUse
<1>4. PICK own, len, pos, rank :
        Good(disk, ftable, free_blocks, own, len, pos, rank) /\ OpenOK(file_desc, disk, own, pos)
  BY <1>3, IdleDisk
<1>5. PICK g : g = [f EXCEPT !.offset = offset]
  OBVIOUS
<1>6. PICK fds : fds = WithFile(file_desc, fd, g)
  OBVIOUS
<1>7. Return(f.meta.name, Work, fds)
  BY <1>2, <1>5, <1>6, Zenon DEF Move, WithFile
<1>8. DOMAIN fds = Descriptors /\ Handed(file_desc, fd, g, fds)
  BY <1>3, <1>6, WithFileHanded
<1>9. OpenAt(f, disk, own, pos)
  BY <1>2, <1>3, <1>4 DEF OpenOK
<1>10. PICK m : m = f.meta /\ offset \in 0 .. m.eof
  BY <1>2
<1>11. g.meta = m /\ g.binary = f.binary /\ g.offset = offset /\ IsFile(g)
  <2>1. g = [meta |-> f.meta, binary |-> f.binary, offset |-> offset]
    BY <1>5, <1>9 DEF OpenAt, IsFile
  <2> QED
    BY <1>10, <2>1 DEF IsFile
<1>12. OpenAt(g, disk, own, pos)
  BY <1>9, <1>10, <1>11 DEF OpenAt
<1>13. \A fe \in Descriptors : fe # fd /\ file_desc[fe] # Closed => file_desc[fe].meta.start # g.meta.start
  BY <1>2, <1>3, <1>4, <1>10, <1>11 DEF OpenOK, OpenOnce
<1>14. OpenOK(fds, disk, own, pos)
  BY <1>4, <1>8, <1>12, <1>13, HandedOK
<1>15. Reached(Work, fds) /\ Held(disk, Work) = disk
  BY <1>1, <1>4, <1>14, LoadGood DEF Work
<1>16. IInv'
  BY <1>1, <1>3, <1>7, <1>8, <1>15, ReturnInv DEF IInv
<1>17. NoBlock \/ (mode' = "up" /\ file_desc' = fds /\ stored' = stored)
  BY <1>3, <1>7, <1>15, ReturnSame
<1> QED
  BY <1>2, <1>6, <1>10, <1>11, <1>16, <1>17 DEF Moved

LEMMA FileNumbers ==
  ASSUME NEW f, OpenFileOK(f)
  PROVE  /\ f.meta.size \in Nat /\ f.meta.eof \in Nat /\ f.offset \in Nat
         /\ f.offset <= f.meta.eof /\ f.meta.eof <= Len(f.binary) /\ Len(f.binary) \in Nat
         /\ Capacity(f) \in Nat /\ f.meta.eof <= Capacity(f) /\ f.meta.eof \in 0 .. Capacity(f)
         /\ Capacity(f) = f.meta.size * BlockSize /\ f.binary \in Seq(Byte)
<1>1. f.meta \in Vnode /\ f.offset \in 0 .. f.meta.eof /\ f.meta.eof <= Len(f.binary)
      /\ f.meta.eof <= Capacity(f) /\ f.binary \in Seq(Byte)
  BY DEF OpenFileOK
<1>2. Blocks \in Nat /\ BlockSize \in Nat
  BY DiskAssumption
<1>3. f.meta.size \in Nat /\ f.meta.eof \in Int
  <2>1. PICK k : k = Blocks * BlockSize
    OBVIOUS
  <2>2. k \in Nat
    BY <1>2, <2>1
  <2>3. f.meta.size \in 0 .. Blocks /\ f.meta.eof \in NIL .. k
    BY <1>1, <2>1, VnodeFields
  <2> QED
    BY <1>2, <2>2, <2>3 DEF NIL
<1>4. PICK c \in Nat : c = Capacity(f)
  BY <1>2, <1>3 DEF Capacity
<1>5. Len(f.binary) \in Nat
  BY <1>1, LenProperties
<1>6. f.offset \in Nat /\ f.offset <= f.meta.eof /\ f.meta.eof \in Nat
  BY <1>1, <1>3
<1>7. f.meta.eof \in 0 .. c
  BY <1>1, <1>4, <1>6
<1> QED
  BY <1>1, <1>3, <1>4, <1>5, <1>6, <1>7 DEF Capacity

LEMMA ReadInv ==
  ASSUME Usage, IInv, NEW fd \in Descriptors, NEW size \in Offsets, vfs_read(fd, size)
  PROVE  IInv' /\ Using(fd) /\ \E offset \in 0 .. file_desc[fd].meta.eof : NoBlock \/ Moved(fd, offset)
<1>1. Using(fd) /\ Move(fd, Min({file_desc[fd].offset + size, file_desc[fd].meta.eof}))
  BY DEF vfs_read
<1>2. PICK eof \in Nat, off \in Nat : eof = file_desc[fd].meta.eof /\ off = file_desc[fd].offset + size
  <2>1. OpenFileOK(file_desc[fd])
    BY <1>1, InUse
  <2>2. size \in Nat
    BY CallerAssumption
  <2> QED
    BY <2>1, <2>2, FileNumbers
<1>3. PICK offset : offset = Min({off, eof})
  OBVIOUS
<1>4. offset \in 0 .. eof
  BY <1>3, MinOfTwo
<1>5. Move(fd, offset) /\ offset \in 0 .. file_desc[fd].meta.eof
  BY <1>1, <1>2, <1>3, <1>4
<1> QED
  BY <1>1, <1>5, MoveInv

LEMMA SeekInv ==
  ASSUME Usage, IInv, NEW fd \in Descriptors, NEW ofst \in Offsets, vfs_seek(fd, ofst)
  PROVE  IInv' /\ Using(fd) /\ \E offset \in 0 .. file_desc[fd].meta.eof : NoBlock \/ Moved(fd, offset)
<1>1. Using(fd) /\ Move(fd, IF ofst > file_desc[fd].meta.eof THEN 0 ELSE ofst)
  BY DEF vfs_seek
<1>2. PICK eof \in Nat : eof = file_desc[fd].meta.eof
  BY <1>1, InUse, FileNumbers
<1>3. PICK offset : offset = IF ofst > eof THEN 0 ELSE ofst
  OBVIOUS
<1>4. offset \in 0 .. eof
  BY <1>3, CallerAssumption
<1>5. Move(fd, offset) /\ offset \in 0 .. file_desc[fd].meta.eof
  BY <1>1, <1>2, <1>3, <1>4
<1> QED
  BY <1>1, <1>5, MoveInv

(* A file is written to the disk with other bytes.                         *)
LEMMA CommitInv ==
  ASSUME Usage, IInv, NEW fd \in Descriptors, Using(fd), NEW g, Refit(file_desc[fd], g),
         NEW fds, DOMAIN fds = Descriptors, Handed(file_desc, fd, g, fds), Commit(g, fds)
  PROVE  IInv' /\ (NoBlock \/ Outcome(fds, file_desc[fd].meta.name, SubSeq(g.binary, 1, g.meta.eof)))
<1>1. Persisted = Blocks
  BY DEF Usage
<1>2. Idle /\ file_desc[fd] # Closed /\ TypeInv /\ writes = <<>> /\ file_desc[fd].meta.name \in Names
  BY InUse
<1>3. PICK r : r = vfs_sync_file(Work, g.meta, g.binary)
  OBVIOUS
<1>4. Return(g.meta.name, r, fds)
  BY <1>3 DEF Commit
<1>5. PICK own, len, pos, rank :
        Good(disk, ftable, free_blocks, own, len, pos, rank) /\ OpenOK(file_desc, disk, own, pos)
  BY <1>2, IdleDisk
<1>6. \/ r.bad
      \/ /\ Reached(r, fds)
         /\ Leaves(Held(disk, r), Stored(disk), g.meta.name, SubSeq(g.binary, 1, g.meta.eof))
  BY <1>1, <1>2, <1>3, <1>5, CommitGood
<1>7. g.meta.name \in Names
  BY <1>2 DEF Refit, SamePlace
<1>8. IInv'
  BY <1>1, <1>2, <1>4, <1>6, <1>7, ReturnInv DEF IInv
<1>9. NoBlock \/ Outcome(fds, g.meta.name, SubSeq(g.binary, 1, g.meta.eof))
  BY <1>2, <1>4, <1>6, ReturnOutcome
<1>10. g.meta.name = file_desc[fd].meta.name
  BY DEF Refit, SamePlace
<1> QED
  BY <1>8, <1>9, <1>10

(* An open file is a proper record.                                        *)
LEMMA OpenRecord ==
  ASSUME Usage, IInv, NEW fd \in Descriptors, Using(fd)
  PROVE  /\ IsFile(file_desc[fd]) /\ file_desc[fd].meta \in Vnode
         /\ file_desc[fd].meta.size + free_blocks <= Blocks /\ free_blocks \in Nat
         /\ file_desc[fd].meta.name \in FileNames
         /\ stored[file_desc[fd].meta.name] = SubSeq(file_desc[fd].binary, 1, file_desc[fd].meta.eof)
<1>1. Persisted = Blocks
  BY DEF Usage
<1>2. Idle /\ file_desc[fd] # Closed
  BY InUse
<1>3. PICK own, len, pos, rank :
        Good(disk, ftable, free_blocks, own, len, pos, rank) /\ OpenOK(file_desc, disk, own, pos)
  BY <1>2, IdleDisk
<1>4. OpenAt(file_desc[fd], disk, own, pos)
  BY <1>2, <1>3 DEF OpenOK
<1>5. PICK s : s \in Heads(own) /\ disk[s] = file_desc[fd].meta
  BY <1>4 DEF OpenAt
<1>6. disk[s] \in Vnode /\ disk[s].size = len[s] /\ len[s] + free_blocks <= Blocks /\ free_blocks \in 0 .. Blocks
  BY <1>1, <1>3, <1>5, GoodFacts
<1>7. PICK f : f = file_desc[fd] /\ OpenAt(f, disk, own, pos) /\ OpenFileOK(f)
  BY <1>2, <1>4, InUse
<1>8. s = f.meta.start /\ s \in Blk /\ f.meta.name \in FileNames
  <2>1. s = f.meta.start
    <3>1. disk[s].start = s
      BY <1>1, <1>3, <1>5, GoodFacts
    <3> QED
      BY <1>5, <1>7, <3>1
  <2>2. Tree(disk, Heads(own), rank)
    BY <1>3 DEF Good, Filed
  <2>3. Node(disk, Heads(own), rank, s)
    BY <1>5, <2>2, TreeNode
  <2> QED
    BY <1>5, <1>7, <2>1, <2>3 DEF Node, OpenAt, Heads
<1>9. stored[f.meta.name] = SubSeq(f.binary, 1, f.meta.eof)
  <2>1. PICK binary \in Seq(Byte), eof \in Nat : binary = f.binary /\ eof = f.meta.eof /\ eof <= Len(binary)
    BY <1>7, FileNumbers
  <2>2. SameBytes(disk, own, pos, s, eof, binary)
    BY <1>7, <1>8, <2>1 DEF OpenAt
  <2>3. PICK name \in FileNames : name = f.meta.name
    BY <1>8
  <2>4. TheFile(disk, own, name, s) /\ disk[s].eof = eof
    BY <1>5, <1>7, <2>1, <2>3 DEF TheFile, OpenAt
  <2>5. Stored(disk)[name] = SubSeq(binary, 1, eof)
    BY <1>1, <1>3, <1>8, <2>1, <2>2, <2>4, StoredBuffer
  <2>6. writes = <<>>
    BY <1>2 DEF Idle
  <2> QED
    BY <2>1, <2>3, <2>5, <2>6, IdleStored
<1> QED
  BY <1>4, <1>5, <1>6, <1>7, <1>8, <1>9, DiskAssumption DEF OpenAt

(* Nothing else than what was there.                                       *)
LEMMA LeavingSame ==
  ASSUME IInv, NEW name, NEW c, c = stored[name]
  PROVE  Leaving(stored, name, c) = stored
<1>1. stored = [n \in FileNames |-> stored[n]]
  BY StoredDomain DEF IInv, Foretold
<1>2. Leaving(stored, name, c) = [n \in FileNames |-> stored[n]]
  BY DEF Leaving
<1> QED
  BY <1>1, <1>2

LEMMA CloseInv ==
  ASSUME Usage, IInv, NEW fd \in Descriptors, vfs_close(fd)
  PROVE  /\ IInv' /\ Using(fd)
         /\ \/ NoBlock
            \/ mode' = "up" /\ stored' = stored /\ file_desc' = WithFile(file_desc, fd, Closed)
<1>1. PICK f, fds : f = file_desc[fd] /\ fds = WithFile(file_desc, fd, Closed)
  OBVIOUS
<1>2. Using(fd) /\ Commit(f, fds)
  BY <1>1, Zenon DEF vfs_close, WithFile
<1>3. DOMAIN file_desc = Descriptors /\ OpenFileOK(f)
  BY <1>1, <1>2, InUse
<1>4. DOMAIN fds = Descriptors /\ Handed(file_desc, fd, f, fds)
  <2>1. DOMAIN fds = Descriptors /\ Handed(file_desc, fd, Closed, fds) /\ fds[fd] = Closed
    BY <1>1, <1>3, WithFileHanded
  <2> QED
    BY <2>1 DEF Handed
<1>5. Refit(f, f)
  <2>1. /\ f.meta.eof \in 0 .. Capacity(f) /\ Capacity(f) = f.meta.size * BlockSize
        /\ f.binary \in Seq(Byte) /\ f.offset \in 0 .. f.meta.eof /\ f.meta.eof <= Len(f.binary)
    BY <1>3, FileNumbers DEF OpenFileOK
  <2>2. IsFile(f) /\ f.meta \in Vnode
    BY <1>1, <1>2, OpenRecord
  <2>3. SamePlace(f.meta, f.meta)
    BY DEF SamePlace
  <2> QED
    BY <2>1, <2>2, <2>3 DEF Refit
<1>6. IInv' /\ (NoBlock \/ Outcome(fds, f.meta.name, SubSeq(f.binary, 1, f.meta.eof)))
  BY <1>1, <1>2, <1>4, <1>5, CommitInv
<1>7. f.meta.name \in FileNames /\ stored[f.meta.name] = SubSeq(f.binary, 1, f.meta.eof)
  BY <1>1, <1>2, OpenRecord
<1>8. Leaving(stored, f.meta.name, SubSeq(f.binary, 1, f.meta.eof)) = stored
  BY <1>7, LeavingSame
<1> QED
  BY <1>1, <1>2, <1>6, <1>8 DEF Outcome

LEMMA CeilingOf ==
  ASSUME NEW n \in Nat, NEW c, c = Ceiling(n)
  PROVE  /\ c \in Nat /\ n <= c * BlockSize
         /\ \A q \in Nat : n <= q * BlockSize => c <= q
<1>1. BlockSize \in Nat /\ BlockSize # 0
  BY DiskAssumption
<1>2. PICK a \in Nat : a = n + BlockSize - 1
  BY <1>1
<1>3. c = a \div BlockSize
  BY <1>2 DEF Ceiling
<1>4. c \in Nat /\ c * BlockSize <= a /\ a < (c + 1) * BlockSize
  BY <1>1, <1>2, <1>3
<1>5. PICK p \in Nat : p = c * BlockSize
  BY <1>1, <1>4
<1>6. (c + 1) * BlockSize = p + BlockSize
  BY <1>1, <1>4, <1>5
<1>7. n <= p
  BY <1>1, <1>2, <1>4, <1>5, <1>6
<1>8. ASSUME NEW q \in Nat, n <= q * BlockSize
      PROVE  c <= q
  <2>1. SUFFICES ASSUME q + 1 <= c
                 PROVE  FALSE
    BY <1>4
  <2>2. (q + 1) * BlockSize <= c * BlockSize
    BY <1>1, <1>4, <2>1
  <2>3. PICK r \in Nat : r = q * BlockSize
    BY <1>1
  <2>4. (q + 1) * BlockSize = r + BlockSize
    BY <1>1, <2>3
  <2> QED
    BY <1>1, <1>2, <1>4, <1>5, <1>8, <2>2, <2>3, <2>4
<1> QED
  BY <1>4, <1>5, <1>7, <1>8

-----------------------------------------------------------------------------
(* vfs_trunc.                                                              *)

Ends(m, size, eof) == [m EXCEPT !.size = size, !.eof = eof]

(* Metadata with another size and another end.                             *)
LEMMA Resized ==
  ASSUME NEW m \in Vnode, NEW size \in 0 .. Blocks, NEW eof \in 0 .. size * BlockSize,
         NEW v, v = Ends(m, size, eof)
  PROVE  v \in Vnode /\ SamePlace(m, v) /\ v.eof = eof /\ v.size = size
<1>1. v = [name |-> m.name, type |-> m.type, start |-> m.start, size |-> size, eof |-> eof,
           parent |-> m.parent, entries |-> m.entries]
  BY DEF Vnode, Ends
<1>2. eof \in NIL .. Blocks * BlockSize
  <2>1. BlockSize \in Nat /\ Blocks \in Nat /\ size \in Nat /\ size <= Blocks
    BY DiskAssumption
  <2>2. size * BlockSize <= Blocks * BlockSize
    BY <2>1
  <2>3. PICK p \in Nat, q \in Nat : p = size * BlockSize /\ q = Blocks * BlockSize
    BY <2>1
  <2>4. eof \in 0 .. p /\ p <= q
    BY <2>2, <2>3
  <2>5. eof \in NIL .. q
    BY <2>3, <2>4 DEF NIL
  <2> QED
    BY <2>3, <2>5
<1>3. v \in Vnode
  BY <1>1, <1>2 DEF Vnode
<1> QED
  BY <1>1, <1>3 DEF SamePlace

FileOf(meta, binary, offset) == [meta |-> meta, binary |-> binary, offset |-> offset]

LEMMA RefitOf ==
  ASSUME NEW f, f.meta \in Vnode, NEW size \in 0 .. Blocks, NEW eof \in 0 .. size * BlockSize,
         NEW binary \in Seq(Byte), eof <= Len(binary), NEW offset \in 0 .. eof,
         NEW g, g = FileOf(Ends(f.meta, size, eof), binary, offset)
  PROVE  Refit(f, g)
<1>1. PICK m \in Vnode : m = f.meta
  OBVIOUS
<1>2. PICK v : v = Ends(m, size, eof)
  OBVIOUS
<1>3. v \in Vnode /\ SamePlace(m, v) /\ v.eof = eof /\ v.size = size
  BY <1>2, Resized
<1>4. g.meta = v /\ g.binary = binary /\ g.offset = offset /\ IsFile(g)
  BY <1>1, <1>2 DEF FileOf, IsFile
<1> QED
  BY <1>1, <1>3, <1>4 DEF Refit

(* An open file has another offset, its file has the bytes c.              *)
Changed(fd, c, offset) ==
  /\ mode' = "up" /\ stored' = Leaving(stored, file_desc[fd].meta.name, c)
  /\ \E f : /\ IsFile(f) /\ f.meta.name = file_desc[fd].meta.name /\ f.offset = offset
            /\ file_desc' = WithFile(file_desc, fd, f)

LEMMA CommitChanged ==
  ASSUME NEW fd, NEW f, f = file_desc[fd], NEW g, Refit(f, g), NEW c, c = SubSeq(g.binary, 1, g.meta.eof),
         NEW offset, g.offset = offset,
         NEW fds, fds = WithFile(file_desc, fd, g), NoBlock \/ Outcome(fds, f.meta.name, c)
  PROVE  NoBlock \/ Changed(fd, c, offset)
<1>1. IsFile(g) /\ g.meta.name = f.meta.name
  BY DEF Refit, SamePlace
<1> QED
  BY <1>1 DEF Outcome, Changed

LEMMA TruncInv ==
  ASSUME Usage, IInv, NEW fd \in Descriptors, NEW new_length \in Offsets, vfs_trunc(fd, new_length)
  PROVE  /\ IInv' /\ Using(fd)
         /\ \/ NoBlock
            \/ Moved(fd, file_desc[fd].meta.eof)
            \/ /\ new_length < file_desc[fd].meta.eof
               /\ Changed(fd, SubSeq(stored[file_desc[fd].meta.name], 1, new_length), new_length)
<1>1. PICK f, n : f = file_desc[fd] /\ n = new_length
  OBVIOUS
<1>2. Using(fd)
  BY DEF vfs_trunc
<1>3. f # Closed /\ DOMAIN file_desc = Descriptors /\ OpenFileOK(f)
  BY <1>1, <1>2, InUse
<1>4. n \in Nat
  BY <1>1, CallerAssumption
<1>5. PICK eof \in Nat, size \in Nat, m \in Nat :
        /\ eof = f.meta.eof /\ size = f.meta.size /\ m = Len(f.binary)
        /\ eof <= m /\ eof <= size * BlockSize /\ f.binary \in Seq(Byte)
  BY <1>3, FileNumbers
<1>6. CASE n >= eof
  <2>1. Move(fd, eof)
    BY <1>1, <1>5, <1>6 DEF vfs_trunc
  <2>2. eof \in 0 .. file_desc[fd].meta.eof
    BY <1>1, <1>5
  <2>3. IInv' /\ (NoBlock \/ Moved(fd, eof))
    BY <1>2, <2>1, <2>2, MoveInv
  <2> QED
    BY <1>1, <1>2, <1>5, <2>3
<1>7. CASE n < eof
  <2>1. PICK c : c = Ceiling(n)
    OBVIOUS
  <2>2. PICK binary : binary = [f.binary EXCEPT ![n + 1] = EOF]
    OBVIOUS
  <2>3. PICK g : g = FileOf(Ends(f.meta, c, n), binary, n)
    OBVIOUS
  <2>4. PICK fds : fds = WithFile(file_desc, fd, g)
    OBVIOUS
  <2>5. ~(n >= eof)
    BY <1>4, <1>7
  <2>6. Commit(g, fds)
    <3>1. ~(new_length >= file_desc[fd].meta.eof)
      BY <1>1, <1>5, <2>5
    <3> QED
      BY <1>1, <2>1, <2>2, <2>3, <2>4, <3>1, Zenon DEF vfs_trunc, WithFile, FileOf, Ends
  <2>7. c \in 0 .. Blocks /\ n \in 0 .. c * BlockSize
    <3>1. c \in Nat /\ n <= c * BlockSize /\ \A q \in Nat : n <= q * BlockSize => c <= q
      BY <1>4, <2>1, CeilingOf
    <3>2. BlockSize \in Nat
      BY DiskAssumption
    <3>3. PICK p \in Nat : p = size * BlockSize
      BY <3>2
    <3>4. n <= size * BlockSize
      BY <1>4, <1>5, <1>7, <3>3
    <3>5. c <= size
      BY <3>1, <3>4
    <3>6. size \in 0 .. Blocks
      BY <1>3, <1>5, VnodeFields DEF OpenFileOK
    <3>7. c \in 0 .. Blocks
      BY <3>1, <3>5, <3>6, DiskAssumption
    <3>8. PICK r \in Nat : r = c * BlockSize
      BY <3>1, <3>2
    <3> QED
      BY <1>4, <3>1, <3>7, <3>8
  <2>8. binary \in Seq(Byte) /\ n <= Len(binary)
    <3>1. EOF \in Byte
      BY DEF Byte
    <3>2. f.binary \in [1 .. m -> Byte] /\ DOMAIN f.binary = 1 .. m
      BY <1>5, LenProperties
    <3>3. binary \in [1 .. m -> Byte]
      BY <2>2, <3>1, <3>2
    <3>4. binary \in Seq(Byte) /\ Len(binary) = m
      BY <1>5, <3>3, SeqDef, LenProperties
    <3> QED
      BY <1>4, <1>5, <1>7, <3>4
  <2>9. n \in 0 .. n /\ f.meta \in Vnode
    BY <1>3, <1>4 DEF OpenFileOK
  <2>10. Refit(f, g)
    BY <2>3, <2>7, <2>8, <2>9, RefitOf
  <2>11. DOMAIN fds = Descriptors /\ Handed(file_desc, fd, g, fds)
    BY <1>3, <2>4, WithFileHanded
  <2>12. IInv' /\ (NoBlock \/ Outcome(fds, f.meta.name, SubSeq(g.binary, 1, g.meta.eof)))
    BY <1>1, <1>2, <2>6, <2>10, <2>11, CommitInv
  <2>13. PICK b : b = f.binary /\ b \in Seq(Byte) /\ m = Len(b)
    BY <1>5
  <2>14. g.binary = binary /\ g.meta.eof = n /\ g.offset = n
    <3>1. PICK u \in Vnode : u = f.meta
      BY <2>9
    <3>2. PICK v : v = Ends(u, c, n)
      OBVIOUS
    <3>3. v.eof = n
      BY <2>7, <3>2, Resized
    <3>4. g = FileOf(v, binary, n)
      BY <2>3, <3>1, <3>2
    <3> QED
      BY <3>3, <3>4 DEF FileOf
  <2>15. SubSeq(g.binary, 1, g.meta.eof) = SubSeq(stored[f.meta.name], 1, n)
    <3>1. PICK x : x = SubSeq(b, 1, eof)
      OBVIOUS
    <3>2. x \in Seq(Byte) /\ Len(x) = eof /\ \A i \in 1 .. eof : x[i] = b[i]
      BY <1>5, <2>13, <3>1, Prefix
    <3>3. SubSeq(x, 1, n) = [i \in 1 .. n |-> x[i]]
      BY <1>4, <1>7, <3>2, Prefix
    <3>4. SubSeq(binary, 1, n) = [i \in 1 .. n |-> binary[i]]
      BY <1>4, <2>8, Prefix
    <3>5. \A i \in 1 .. n : binary[i] = b[i] /\ i \in 1 .. eof
      BY <1>4, <1>7, <2>2, <2>13, LenProperties
    <3>6. stored[f.meta.name] = x
      BY <1>1, <1>2, <1>5, <2>13, <3>1, OpenRecord
    <3>7. SubSeq(x, 1, n) = SubSeq(binary, 1, n)
      BY <3>2, <3>3, <3>4, <3>5
    <3> QED
      BY <2>14, <3>6, <3>7
  <2>16. NoBlock \/ Changed(fd, SubSeq(g.binary, 1, g.meta.eof), n)
    BY <1>1, <2>4, <2>10, <2>12, <2>14, CommitChanged
  <2> QED
    BY <1>1, <1>2, <1>5, <1>7, <2>12, <2>15, <2>16
<1> QED
  BY <1>4, <1>5, <1>6, <1>7

-----------------------------------------------------------------------------
(* vfs_write.                                                              *)

Filled(buffer, from, last, byte) ==
  [k \in DOMAIN buffer |-> IF k \in from .. last THEN byte ELSE buffer[k]]
EndMarked(data, last) == [k \in DOMAIN data |-> IF k = last + 1 THEN EOF ELSE data[k]]

LEMMA FilledOK ==
  ASSUME NEW buffer \in Seq(Byte), NEW from, NEW last, NEW byte \in Bytes
  PROVE  /\ Filled(buffer, from, last, byte) \in Seq(Byte)
         /\ Len(Filled(buffer, from, last, byte)) = Len(buffer)
         /\ EndMarked(buffer, last) \in Seq(Byte) /\ Len(EndMarked(buffer, last)) = Len(buffer)
<1>1. PICK n \in Nat : n = Len(buffer) /\ DOMAIN buffer = 1 .. n /\ buffer \in [1 .. n -> Byte]
  BY LenProperties
<1>2. byte \in Byte /\ EOF \in Byte
  BY DEF Byte
<1>3. Filled(buffer, from, last, byte) \in [1 .. n -> Byte]
  BY <1>1, <1>2 DEF Filled
<1>4. EndMarked(buffer, last) \in [1 .. n -> Byte]
  BY <1>1, <1>2 DEF EndMarked
<1> QED
  BY <1>1, <1>3, <1>4, SeqDef, LenProperties

(* The bytes that vfs_write leaves.                                        *)
LEMMA FillContent ==
  ASSUME NEW buffer \in Seq(Byte), NEW byte \in Bytes,
         NEW off \in Nat, NEW size \in Nat, NEW eof \in Nat, off <= eof, eof <= Len(buffer),
         NEW last \in Nat, last = off + size, last <= Len(buffer),
         NEW data, data = Filled(buffer, off + 1, last, byte), NEW marked, marked = EndMarked(data, last)
  PROVE  /\ last > eof => SubSeq(marked, 1, last) = Store!Overlay(SubSeq(buffer, 1, eof), off, size, byte)
         /\ ~(last > eof) => SubSeq(data, 1, eof) = Store!Overlay(SubSeq(buffer, 1, eof), off, size, byte)
<1>1. PICK x : x = SubSeq(buffer, 1, eof)
  OBVIOUS
<1>2. Len(x) = eof /\ \A i \in 1 .. eof : x[i] = buffer[i]
  BY <1>1, Prefix
<1>3. PICK n \in Nat : n = Len(buffer) /\ DOMAIN buffer = 1 .. n
  BY LenProperties
<1>4. /\ data \in Seq(Byte) /\ Len(data) = n /\ marked \in Seq(Byte) /\ Len(marked) = n
      /\ DOMAIN data = 1 .. n /\ DOMAIN marked = 1 .. n
  <2>1. data \in Seq(Byte) /\ Len(data) = n
    BY <1>3, FilledOK
  <2>2. marked \in Seq(Byte) /\ Len(marked) = Len(data)
    BY <2>1, FilledOK
  <2> QED
    BY <2>1, <2>2, LenProperties
<1>5. \A i \in 1 .. n : data[i] = IF i \in off + 1 .. last THEN byte ELSE buffer[i]
  BY <1>3 DEF Filled
<1>6. \A i \in 1 .. last : marked[i] = data[i]
  BY <1>3, <1>4 DEF EndMarked
<1>7. CASE last > eof
  <2>1. PICK y : y = SubSeq(marked, 1, last)
    OBVIOUS
  <2>2. y = [i \in 1 .. last |-> marked[i]]
    BY <1>3, <1>4, <2>1, Prefix
  <2>3. Store!Overlay(x, off, size, byte) =
          [i \in 1 .. last |-> IF i \in off + 1 .. last THEN byte ELSE x[i]]
    BY <1>2, <1>7 DEF Store!Overlay
  <2>4. \A i \in 1 .. last : marked[i] = IF i \in off + 1 .. last THEN byte ELSE x[i]
    BY <1>2, <1>3, <1>5, <1>6
  <2> QED
    BY <1>1, <1>7, <2>1, <2>2, <2>3, <2>4
<1>8. CASE ~(last > eof)
  <2>1. PICK y : y = SubSeq(data, 1, eof)
    OBVIOUS
  <2>2. y = [i \in 1 .. eof |-> data[i]]
    BY <1>3, <1>4, <2>1, Prefix
  <2>3. Store!Overlay(x, off, size, byte) =
          [i \in 1 .. eof |-> IF i \in off + 1 .. last THEN byte ELSE x[i]]
    BY <1>2, <1>8 DEF Store!Overlay
  <2>4. \A i \in 1 .. eof : data[i] = IF i \in off + 1 .. last THEN byte ELSE x[i]
    BY <1>2, <1>3, <1>5
  <2> QED
    BY <1>1, <1>8, <2>1, <2>2, <2>3, <2>4
<1> QED
  BY <1>7, <1>8

(* The file's bytes up to its end are those of before with the written     *)
(* ones over them.                                                         *)
FilledAs(g, buffer, eof, off, size, byte) ==
  /\ g.offset = off + size
  /\ SubSeq(g.binary, 1, g.meta.eof) = Store!Overlay(SubSeq(buffer, 1, eof), off, size, byte)

LEMMA FillRefit ==
  ASSUME NEW f, IsFile(f), f.meta \in Vnode, NEW size \in Nat, NEW byte \in Bytes,
         NEW buffer \in Seq(Byte), NEW off \in Nat, off = f.offset,
         NEW eof \in Nat, eof = f.meta.eof, off <= eof, NEW n \in 0 .. Blocks, n = f.meta.size,
         eof <= n * BlockSize, eof <= Len(buffer), off + size <= n * BlockSize, off + size <= Len(buffer),
         NEW g, g = Fill(f, buffer, size, byte)
  PROVE  Refit(f, g) /\ FilledAs(g, buffer, eof, off, size, byte)
<1>1. PICK last \in Nat : last = off + size
  OBVIOUS
<1>2. PICK data : data = Filled(buffer, off + 1, last, byte)
  OBVIOUS
<1>3. data \in Seq(Byte) /\ Len(data) = Len(buffer)
  BY <1>2, FilledOK
<1>4. PICK marked : marked = EndMarked(data, last)
  OBVIOUS
<1>5. marked \in Seq(Byte) /\ Len(marked) = Len(buffer)
  BY <1>3, <1>4, FilledOK
<1>6. PICK m \in Vnode : m = f.meta
  OBVIOUS
<1>7. m = [name |-> m.name, type |-> m.type, start |-> m.start, size |-> m.size, eof |-> m.eof,
           parent |-> m.parent, entries |-> m.entries]
  BY DEF Vnode
<1>8. PICK p \in Nat : p = n * BlockSize
  BY DiskAssumption
<1>11. /\ last > eof => SubSeq(marked, 1, last) = Store!Overlay(SubSeq(buffer, 1, eof), off, size, byte)
       /\ ~(last > eof) => SubSeq(data, 1, eof) = Store!Overlay(SubSeq(buffer, 1, eof), off, size, byte)
  <2>1. /\ buffer \in Seq(Byte) /\ byte \in Bytes /\ off \in Nat /\ size \in Nat /\ eof \in Nat
        /\ off <= eof /\ eof <= Len(buffer) /\ last \in Nat /\ last <= Len(buffer)
    BY <1>1
  <2>2. last = off + size /\ data = Filled(buffer, off + 1, last, byte) /\ marked = EndMarked(data, last)
    BY <1>1, <1>2, <1>4
  <2> QED
    BY ONLY <2>1, <2>2, FillContent
<1>9. CASE last > eof
  <2>1. g = [meta |-> [f.meta EXCEPT !.eof = last], binary |-> marked, offset |-> last]
    <3>1. f.offset + size > f.meta.eof
      BY <1>1, <1>9
    <3> QED
      BY <1>1, <1>2, <1>4, <3>1, Zenon DEF Fill, Filled, EndMarked
  <2>2. [m EXCEPT !.eof = last] = Ends(m, n, last)
    BY <1>6, <1>7 DEF Ends
  <2>3. g = FileOf(Ends(f.meta, n, last), marked, last)
    BY <1>6, <2>1, <2>2 DEF FileOf
  <2>4. last \in 0 .. n * BlockSize /\ last <= Len(marked) /\ last \in 0 .. last
    BY <1>1, <1>5, <1>8
  <2>5. Refit(f, g)
    BY <1>5, <2>3, <2>4, RefitOf
  <2>6. g.binary = marked /\ g.meta.eof = last /\ g.offset = last
    BY <1>6, <1>7, <2>1
  <2> QED
    BY <1>1, <1>9, <1>11, <2>5, <2>6 DEF FilledAs
<1>10. CASE ~(last > eof)
  <2>1. g = [f EXCEPT !.binary = data, !.offset = last]
    <3>1. ~(f.offset + size > f.meta.eof)
      BY <1>1, <1>10
    <3> QED
      BY <1>1, <1>2, <3>1, Zenon DEF Fill, Filled
  <2>2. m = Ends(m, n, eof)
    BY <1>6, <1>7 DEF Ends
  <2>3. g = FileOf(m, data, last)
    BY <1>6, <2>1 DEF FileOf, IsFile
  <2>4. g = FileOf(Ends(f.meta, n, eof), data, last)
    BY <1>6, <2>2, <2>3
  <2>5. eof \in 0 .. n * BlockSize /\ eof <= Len(data) /\ last \in 0 .. eof
    BY <1>1, <1>3, <1>8, <1>10
  <2>6. Refit(f, g)
    BY <1>3, <2>4, <2>5, RefitOf
  <2>7. g.binary = data /\ g.meta.eof = eof /\ g.offset = last
    BY <1>6, <2>3 DEF FileOf
  <2> QED
    BY <1>1, <1>10, <1>11, <2>6, <2>7 DEF FilledAs
<1> QED
  BY <1>9, <1>10

(* The process ends in the way `how', and loses its open files only.       *)
Lost(how) == mode = "up" /\ mode' = how /\ AllClosed(file_desc') /\ stored' = stored

(* What a write may do, besides ending at a missing block.                 *)
Broken == Lost("killed") \/ Lost("overrun")

(* Some bytes are written from the offset on, which moves behind them.     *)
Written(fd, byte) ==
  \E k \in 0 .. Blocks * BlockSize :
    Changed(fd, Store!Overlay(stored[file_desc[fd].meta.name], file_desc[fd].offset, k, byte),
            file_desc[fd].offset + k)

LEMMA LoseLost ==
  ASSUME Idle, NEW how, Lose(how)
  PROVE  Lost(how)
BY DEF Idle, Lose, Forget, Lost, AllClosed

LEMMA CommitWritten ==
  ASSUME NEW fd, NEW f, f = file_desc[fd], NEW g, Refit(f, g), NEW byte,
         NEW off \in Nat, off = f.offset, NEW size \in Nat, g.offset = off + size,
         NEW n \in 0 .. Blocks, off + size <= n * BlockSize,
         SubSeq(g.binary, 1, g.meta.eof) = Store!Overlay(stored[f.meta.name], off, size, byte),
         NEW fds, fds = WithFile(file_desc, fd, g),
         NoBlock \/ Outcome(fds, f.meta.name, SubSeq(g.binary, 1, g.meta.eof))
  PROVE  NoBlock \/ Written(fd, byte)
<1>1. PICK c, offset : c = SubSeq(g.binary, 1, g.meta.eof) /\ offset = off + size
  OBVIOUS
<1>2. NoBlock \/ Changed(fd, c, offset)
  BY <1>1, CommitChanged
<1>3. size \in 0 .. Blocks * BlockSize
  <2>1. BlockSize \in Nat /\ Blocks \in Nat /\ n \in Nat /\ n <= Blocks
    BY DiskAssumption
  <2>2. n * BlockSize <= Blocks * BlockSize
    BY <2>1
  <2>3. PICK p \in Nat, q \in Nat : p = n * BlockSize /\ q = Blocks * BlockSize /\ p <= q
    BY <2>1, <2>2
  <2>4. size \in 0 .. q
    BY <2>3
  <2> QED
    BY <2>3, <2>4
<1> QED
  BY <1>1, <1>2, <1>3 DEF Written

LEMMA InPlaceInv ==
  ASSUME Usage, IInv, NEW fd \in Descriptors, NEW size \in WriteSizes, NEW byte \in Bytes,
         Using(fd), WriteInPlace(fd, size, byte)
  PROVE  IInv' /\ (NoBlock \/ Broken \/ Written(fd, byte))
<1>1. PICK f, g, fds : f = file_desc[fd] /\ g = Fill(f, f.binary, size, byte) /\ fds = WithFile(file_desc, fd, g)
  OBVIOUS
<1>2. /\ f.offset + size <= Capacity(f)
      /\ Lose("overrun") \/ (f.offset + size <= Len(f.binary) /\ Commit(g, fds))
  BY <1>1, Zenon DEF WriteInPlace, WithFile
<1>3. f # Closed /\ DOMAIN file_desc = Descriptors /\ OpenFileOK(f) /\ Idle
  BY <1>1, InUse
<1>4. PICK eof \in Nat, off \in Nat, m \in Nat, n \in Nat :
        /\ eof = f.meta.eof /\ off = f.offset /\ m = Len(f.binary) /\ n = f.meta.size
        /\ off <= eof /\ eof <= m /\ eof <= n * BlockSize /\ Capacity(f) = n * BlockSize
        /\ f.binary \in Seq(Byte)
  BY <1>3, FileNumbers
<1>5. PICK z \in Nat : z = size
  BY CallerAssumption
<1>6. CASE Lose("overrun")
  BY <1>3, <1>6, LoseInv, LoseLost DEF Broken
<1>7. CASE off + z <= m /\ Commit(g, fds)
  <2>1. Commit(g, fds)
    BY <1>7
  <2>2. n \in 0 .. Blocks /\ f.meta \in Vnode
    BY <1>3, <1>4, VnodeFields DEF OpenFileOK
  <2>3. IsFile(f)
    BY <1>1, OpenRecord
  <2>4. off + z <= m /\ off + z <= n * BlockSize
    BY <1>2, <1>4, <1>5, <1>7
  <2>5. g = Fill(f, f.binary, z, byte)
    BY <1>1, <1>5
  <2>6. Refit(f, g) /\ FilledAs(g, f.binary, eof, off, z, byte)
    BY <1>4, <2>2, <2>3, <2>4, <2>5, FillRefit
  <2>7. DOMAIN fds = Descriptors /\ Handed(file_desc, fd, g, fds)
    BY <1>1, <1>3, WithFileHanded
  <2>8. IInv' /\ (NoBlock \/ Outcome(fds, f.meta.name, SubSeq(g.binary, 1, g.meta.eof)))
    BY <1>1, <2>1, <2>6, <2>7, CommitInv
  <2>9. stored[f.meta.name] = SubSeq(f.binary, 1, eof)
    BY <1>1, <1>4, OpenRecord
  <2>10. g.offset = off + z /\ SubSeq(g.binary, 1, g.meta.eof) = Store!Overlay(stored[f.meta.name], off, z, byte)
    BY <2>6, <2>9 DEF FilledAs
  <2>11. NoBlock \/ Written(fd, byte)
    BY <1>1, <1>4, <2>2, <2>4, <2>6, <2>8, <2>10, CommitWritten
  <2> QED
    BY <2>8, <2>11
<1> QED
  BY <1>2, <1>4, <1>5, <1>6, <1>7

LEMMA ReallocOK ==
  ASSUME NEW f, f.binary \in Seq(Byte), NEW n \in Nat, NEW buffer, buffer = Realloc(f, n)
  PROVE  buffer \in Seq(Byte) /\ Len(buffer) = n
<1>1. 0 \in Byte /\ Junk \in Byte
  BY DEF Byte
<1>2. PICK m \in Nat : DOMAIN f.binary = 1 .. m /\ f.binary \in [1 .. m -> Byte]
  BY LenProperties
<1>3. buffer \in [1 .. n -> Byte]
  BY <1>1, <1>2 DEF Realloc
<1> QED
  BY <1>3, SeqDef, LenProperties

LEMMA ReallocKeeps ==
  ASSUME NEW f, f.binary \in Seq(Byte), NEW n \in Nat, NEW buffer, buffer = Realloc(f, n),
         NEW eof \in Nat, eof <= n, NEW cap \in Nat, Capacity(f) = cap, eof <= cap, eof <= Len(f.binary)
  PROVE  SubSeq(buffer, 1, eof) = SubSeq(f.binary, 1, eof)
<1>1. PICK old \in Seq(Byte), new \in Seq(Byte) : old = f.binary /\ new = buffer /\ Len(new) = n
  BY ReallocOK
<1>2. SubSeq(old, 1, eof) = [i \in 1 .. eof |-> old[i]] /\ SubSeq(new, 1, eof) = [i \in 1 .. eof |-> new[i]]
  BY <1>1, Prefix
<1>3. ASSUME NEW i \in 1 .. eof
      PROVE  new[i] = old[i]
  <2>1. i \in 1 .. n /\ ~(i > cap)
    OBVIOUS
  <2>2. i \in DOMAIN old
    BY <1>1, LenProperties
  <2> QED
    BY <1>1, <2>1, <2>2 DEF Realloc
<1> QED
  BY <1>1, <1>2, <1>3

Grow(f, n) == [f EXCEPT !.meta.size = @ + n]

Longer(f, n, h) == h = Grow(f, n)

LEMMA GrowFields ==
  ASSUME NEW f, IsFile(f), f.meta \in Vnode, NEW n \in Nat, f.meta.size + n \in 0 .. Blocks, NEW h, Longer(f, n, h)
  PROVE  /\ IsFile(h) /\ h.meta \in Vnode /\ h.offset = f.offset /\ h.meta.eof = f.meta.eof
         /\ h.meta.size = f.meta.size + n /\ SamePlace(f.meta, h.meta)
<1>1. PICK m \in Vnode : m = f.meta
  OBVIOUS
<1>2. PICK size \in 0 .. Blocks : size = m.size + n
  BY <1>1
<1>3. PICK v : v = [m EXCEPT !.size = size]
  OBVIOUS
<1>4. v = [name |-> m.name, type |-> m.type, start |-> m.start, size |-> size, eof |-> m.eof,
           parent |-> m.parent, entries |-> m.entries]
  BY <1>3 DEF Vnode
<1>5. v \in Vnode /\ SamePlace(m, v) /\ v.eof = m.eof /\ v.size = size
  BY <1>4 DEF Vnode, SamePlace
<1>6. h = FileOf(v, f.binary, f.offset)
  <2>1. f = FileOf(m, f.binary, f.offset)
    BY <1>1 DEF IsFile, FileOf
  <2>2. PICK b, o : b = f.binary /\ o = f.offset /\ f = FileOf(m, b, o)
    BY <2>1
  <2>3. h = [FileOf(m, b, o) EXCEPT !.meta.size = @ + n]
    BY <2>2, Zenon DEF Grow, Longer
  <2>4. h = FileOf([m EXCEPT !.size = @ + n], b, o)
    BY <2>3 DEF FileOf
  <2>5. [m EXCEPT !.size = @ + n] = v
    BY <1>2, <1>3
  <2> QED
    BY <2>2, <2>4, <2>5
<1>7. h.meta = v /\ h.offset = f.offset /\ IsFile(h)
  BY <1>6 DEF FileOf, IsFile
<1> QED
  BY <1>1, <1>2, <1>5, <1>7

LEMMA GrowingInv ==
  ASSUME Usage, IInv, NEW fd \in Descriptors, NEW size \in WriteSizes, NEW byte \in Bytes,
         Using(fd), WriteGrowing(fd, size, byte)
  PROVE  IInv' /\ (NoBlock \/ Broken \/ Written(fd, byte))
<1>1. PICK f, wanted, new_blocks, given, new_size, g, fds :
        /\ f = file_desc[fd]
        /\ wanted = Ceiling(f.offset + size - Capacity(f))
        /\ new_blocks = Min({wanted, free_blocks})
        /\ given = (IF wanted > free_blocks THEN new_blocks * BlockSize - 1 ELSE size)
        /\ new_size = f.offset + given
        /\ g = Fill(Grow(f, new_blocks), Realloc(f, new_size), given, byte)
        /\ fds = WithFile(file_desc, fd, g)
  OBVIOUS
<1>2. /\ f.offset + size > Capacity(f)
      /\ Lose("killed") \/ Lose("overrun") \/ (new_size >= Capacity(f) /\ Commit(g, fds))
  BY <1>1, Zenon DEF WriteGrowing, Grow, WithFile
<1>3. f # Closed /\ DOMAIN file_desc = Descriptors /\ OpenFileOK(f) /\ Idle
  BY <1>1, InUse
<1>4. PICK eof \in Nat, off \in Nat, n \in Nat, cap \in Nat :
        /\ eof = f.meta.eof /\ off = f.offset /\ n = f.meta.size
        /\ off <= eof /\ eof <= cap /\ Capacity(f) = cap /\ cap = n * BlockSize
        /\ f.binary \in Seq(Byte)
  BY <1>3, FileNumbers
<1>5. PICK z \in Nat : z = size /\ off + z > cap
  BY <1>2, <1>4, CallerAssumption
<1>6. CASE Lose("killed") \/ Lose("overrun")
  BY <1>3, <1>6, LoseInv, LoseLost DEF Broken
<1>7. CASE new_size >= cap /\ Commit(g, fds)
  <2>1. Commit(g, fds)
    BY <1>7
  <2>2. IsFile(f) /\ f.meta \in Vnode /\ n + free_blocks <= Blocks /\ free_blocks \in Nat
    BY <1>1, <1>4, OpenRecord
  <2>3. PICK over \in Nat : over = off + z - cap
    BY <1>5
  <2>4. wanted \in Nat /\ over <= wanted * BlockSize
    <3>1. wanted = Ceiling(over)
      BY <1>1, <1>4, <1>5, <2>3
    <3> QED
      BY <3>1, CeilingOf
  <2>5. PICK k \in Nat : k = new_blocks /\ k <= free_blocks /\ k = IF wanted <= free_blocks THEN wanted ELSE free_blocks
    BY <1>1, <2>2, <2>4, MinOfTwo
  <2>6. PICK q \in Nat : q = k * BlockSize
    BY DiskAssumption
  <2>20. off <= cap
    BY <1>4
  <2>7. given \in Int /\ new_size = off + given /\ off + given <= cap + q
    <3>1. CASE wanted > free_blocks
      <4>1. given = q - 1
        BY <1>1, <2>5, <2>6, <3>1
      <4>2. new_size = off + given
        BY <1>1, <1>4
      <4>3. q - 1 \in Int /\ off + (q - 1) <= cap + q
        BY <2>20
      <4> QED
        BY <4>1, <4>2, <4>3
    <3>2. CASE ~(wanted > free_blocks)
      <4>1. given = z
        BY <1>1, <1>5, <3>2
      <4>2. k = wanted
        BY <2>2, <2>4, <2>5, <3>2
      <4>3. over <= q
        BY <2>4, <2>6, <4>2
      <4>4. new_size = off + given
        BY <1>1, <1>4
      <4>5. off + z <= cap + q
        BY <2>3, <4>3
      <4> QED
        BY <4>1, <4>4, <4>5
    <3> QED
      BY <3>1, <3>2
  <2>8. PICK y \in Nat : y = given /\ off + y = new_size /\ cap <= off + y /\ off + y <= cap + q
    <3>1. given \in Nat
      <4>1. CASE wanted > free_blocks
        <5>1. given = q - 1 /\ k = free_blocks
          BY <1>1, <2>2, <2>4, <2>5, <2>6, <4>1
        <5>2. k # 0
          <6>1. SUFFICES ASSUME k = 0 PROVE FALSE
            OBVIOUS
          <6>2. q = 0
            BY <2>6, <6>1, DiskAssumption
          <6>3. given = 0 - 1
            BY <5>1, <6>2
          <6>4. new_size = off - 1
            BY <2>7, <6>3
          <6>5. new_size >= cap
            BY <1>7
          <6> QED
            BY <1>4, <2>20, <6>4, <6>5
        <5>3. q # 0
          BY <2>6, <5>2, DiskAssumption
        <5> QED
          BY <2>6, <5>1, <5>3
      <4>2. CASE ~(wanted > free_blocks)
        BY <1>1, <1>5, <4>2
      <4> QED
        BY <4>1, <4>2
    <3> QED
      BY <1>4, <1>7, <2>7, <3>1
  <2>9. PICK h, buffer : h = Grow(f, k) /\ buffer = Realloc(f, off + y)
    OBVIOUS
  <2>10. PICK size1 \in 0 .. Blocks : size1 = n + k
    BY <1>4, <2>2, <2>5, DiskAssumption
  <2>11. /\ IsFile(h) /\ h.meta \in Vnode /\ h.offset = off /\ h.meta.eof = eof
         /\ h.meta.size = size1 /\ SamePlace(f.meta, h.meta)
    <3>1. Longer(f, k, h)
      BY <2>9 DEF Longer
    <3>2. f.meta.size + k = size1 /\ f.meta.size + k \in 0 .. Blocks
      BY <1>4, <2>10
    <3> HIDE <2>9
    <3>3. IsFile(f) /\ f.meta \in Vnode /\ k \in Nat
      BY <2>2, <2>5
    <3>4. /\ IsFile(h) /\ h.meta \in Vnode /\ h.offset = f.offset /\ h.meta.eof = f.meta.eof
          /\ h.meta.size = f.meta.size + k /\ SamePlace(f.meta, h.meta)
      BY <3>1, <3>2, <3>3, GrowFields
    <3> QED
      BY <1>4, <3>2, <3>4
  <2>12. buffer \in Seq(Byte) /\ Len(buffer) = off + y
    <3>1. off + y \in Nat
      OBVIOUS
    <3> QED
      BY <1>4, <2>9, <3>1, ReallocOK
  <2>13. size1 * BlockSize = cap + q
    <3>1. BlockSize \in Nat
      BY DiskAssumption
    <3>2. (n + k) * BlockSize = (n * BlockSize) + (k * BlockSize)
      BY <3>1
    <3>3. cap = n * BlockSize
      BY <1>4
    <3> QED
      BY <2>6, <2>10, <3>2, <3>3
  <2>14. g = Fill(h, buffer, y, byte)
    BY <1>1, <2>5, <2>8, <2>9
  <2>15. /\ eof <= size1 * BlockSize /\ eof <= Len(buffer)
         /\ off + y <= size1 * BlockSize /\ off + y <= Len(buffer)
    <3>1. eof <= cap
      BY <1>4
    <3>2. PICK l \in Nat, x \in Nat : l = Len(buffer) /\ x = size1 * BlockSize /\ l = off + y /\ x = cap + q
      BY <2>12, <2>13
    <3>3. cap <= off + y /\ off + y <= cap + q
      BY <2>8
    <3>4. eof <= x /\ eof <= l /\ off + y <= x /\ off + y <= l
      BY <3>1, <3>2, <3>3
    <3> QED
      BY <3>2, <3>4
  <2>16. Refit(h, g) /\ FilledAs(g, buffer, eof, off, y, byte)
    BY <1>4, <2>11, <2>12, <2>14, <2>15, FillRefit
  <2>17. Refit(f, g)
    BY <2>11, <2>16 DEF Refit, SamePlace
  <2>18. DOMAIN fds = Descriptors /\ Handed(file_desc, fd, g, fds)
    BY <1>1, <1>3, WithFileHanded
  <2>19. IInv' /\ (NoBlock \/ Outcome(fds, f.meta.name, SubSeq(g.binary, 1, g.meta.eof)))
    BY <1>1, <2>1, <2>17, <2>18, CommitInv
  <2>21. SubSeq(buffer, 1, eof) = SubSeq(f.binary, 1, eof)
    <3>1. PICK l \in Nat : l = off + y /\ cap <= l
      BY <2>8
    <3>2. eof <= l /\ eof <= cap
      <4>1. eof \in Nat /\ cap \in Nat /\ eof <= cap
        BY <1>4
      <4> QED
        BY ONLY <3>1, <4>1
    <3>3. eof <= Len(f.binary)
      BY <1>3, <1>4, FileNumbers
    <3>4. buffer = Realloc(f, l)
      BY <2>9, <3>1
    <3>5. Capacity(f) = cap /\ f.binary \in Seq(Byte) /\ eof \in Nat /\ cap \in Nat /\ l \in Nat
      BY <1>4
    <3> QED
      BY ONLY <3>2, <3>3, <3>4, <3>5, ReallocKeeps
  <2>22. stored[f.meta.name] = SubSeq(f.binary, 1, eof)
    BY <1>1, <1>4, OpenRecord
  <2>23. g.offset = off + y /\ SubSeq(g.binary, 1, g.meta.eof) = Store!Overlay(stored[f.meta.name], off, y, byte)
    BY <2>16, <2>21, <2>22 DEF FilledAs
  <2>24. NoBlock \/ Written(fd, byte)
    BY <1>1, <1>4, <2>15, <2>16, <2>17, <2>19, <2>23, CommitWritten
  <2> QED
    BY <2>19, <2>24
<1> QED
  BY <1>2, <1>4, <1>6, <1>7

(* Every step keeps the invariant.                                         *)
LEMMA NextInv ==
  ASSUME Usage, IInv, [Next]_vars
  PROVE  IInv'
<1>1. CASE UNCHANGED vars
  <2>1. UNCHANGED <<mode, ftable, free_blocks, file_desc, disk, writes, target, stored>>
    BY <1>1 DEF vars, memory
  <2>2. TypeInv'
    BY <2>1 DEF IInv, TypeInv
  <2>3. mode' = "up" => (Coherent(After(disk, writes)))'
    <3>1. SUFFICES ASSUME mode = "up"
                   PROVE  (Coherent(After(disk, writes)))'
      BY <2>1
    <3>2. PICK d : d = After(disk, writes) /\ Coherent(d)
      BY <3>1 DEF IInv
    <3>3. Coherent(d)'
      <4>1. PICK own, len, pos, rank :
              Good(d, ftable, free_blocks, own, len, pos, rank) /\ OpenOK(file_desc, d, own, pos)
        BY <3>2 DEF Coherent
      <4>2. Good(d, ftable', free_blocks', own, len, pos, rank) /\ OpenOK(file_desc', d, own, pos)
        BY <2>1, <4>1
      <4> QED
        BY <4>2 DEF Coherent
    <3>4. (After(disk, writes))' = d
      BY <2>1, <3>2
    <3> QED
      BY <3>3, <3>4
  <2>4. mode' \in {"down", "killed"} => (Intact(disk))'
    <3>1. mode' \in {"down", "killed"} => Intact(disk')
      BY <2>1 DEF IInv
    <3> QED
      BY <3>1 DEF Intact
  <2>5. Foretold'
    <3>1. Foretold
      BY DEF IInv
    <3> QED
      BY <2>1, <3>1 DEF Foretold
  <2> QED
    BY <2>2, <2>3, <2>4, <2>5 DEF IInv
<1>2. CASE file_system
  BY <1>2, FileSystemInv
<1>3. ASSUME NEW name \in FileNames, NEW dir_name \in ParentNames, vfs_create(name, dir_name)
      PROVE  IInv'
  BY <1>3, CreateInv
<1>4. ASSUME NEW name \in DirNames, NEW dir_name \in ParentNames, vfs_mkdir(name, dir_name)
      PROVE  IInv'
  BY <1>4, MkdirInv
<1>5. ASSUME NEW name \in FileNames, vfs_rm(name)
      PROVE  IInv'
  BY <1>5, RmInv
<1>6. ASSUME NEW name \in Names, vfs_open(name)
      PROVE  IInv'
  BY <1>6, OpenFileInv, OpenDirectoryInv DEF vfs_open
<1>7. ASSUME NEW fd \in Descriptors, vfs_close(fd)
      PROVE  IInv'
  BY <1>7, CloseInv
<1>8. ASSUME NEW fd \in Descriptors, NEW size \in WriteSizes, NEW byte \in Bytes, vfs_write(fd, size, byte)
      PROVE  IInv'
  BY <1>8, InPlaceInv, GrowingInv DEF vfs_write
<1>9. ASSUME NEW fd \in Descriptors, NEW n \in Offsets, vfs_read(fd, n) \/ vfs_seek(fd, n) \/ vfs_trunc(fd, n)
      PROVE  IInv'
  BY <1>9, ReadInv, SeekInv, TruncInv
<1>10. CASE DiskWrite
  BY <1>10, DiskWriteInv
<1>11. CASE Exit
  BY <1>11, ExitInv
<1> QED
  BY <1>1, <1>2, <1>3, <1>4, <1>5, <1>6, <1>7, <1>8, <1>9, <1>10, <1>11 DEF Next, Change, Use

(* In every reachable state memory agrees with the disk up to the writes   *)
(* that are still to be made (all calls of file_system).                   *)
THEOREM Invariance ==
  ASSUME Usage
  PROVE  Spec => []IInv
<1>1. Init => IInv
  BY InitInv
<1>2. IInv /\ [Next]_vars => IInv'
  BY NextInv
<1> QED
  BY <1>1, <1>2, PTL DEF Spec

LEMMA InvType ==
  ASSUME Usage, IInv
  PROVE  TypeOK
<1>1. Persisted = Blocks
  BY DEF Usage
<1>2. TypeInv
  BY DEF IInv
<1>3. \A b \in 0 .. Blocks - 1 : BlockOK(b, disk[b])
  BY <1>2 DEF TypeInv, IsDisk, All
<1>4. ASSUME NEW i \in DOMAIN writes
      PROVE  BlockOK(writes[i].at, writes[i].data)
  <2>1. writes[i] \in Writ
    <3>1. writes \in Seq(Writ)
      BY <1>2 DEF TypeInv
    <3> QED
      BY <3>1
  <2> QED
    BY <1>1, <2>1, WritFields
<1> QED
  BY <1>2, <1>3, <1>4 DEF TypeOK, TypeInv, All

(* Counter, table, offsets and the ends of open files stay in range: no    *)
(* sequence of calls makes free_blocks negative, or puts an offset or a    *)
(* byte before the end of a file behind its buffer or its blocks           *)
(* (vfs_write, vfs_trunc, vfs_seek).  The end-of-file byte is not meant:   *)
(* it lies behind a buffer that is full, and a step that stores it there   *)
(* may also end in the mode "overrun" (EndsBehind).                        *)
THEOREM Typing ==
  ASSUME Usage
  PROVE  Spec => []TypeOK
<1>1. IInv => TypeOK
  BY InvType
<1> QED
  BY <1>1, Invariance, PTL

LEMMA IdleNodes ==
  ASSUME Usage, IInv, Idle
  PROVE  \E own, len, pos, rank :
           /\ Good(disk, ftable, free_blocks, own, len, pos, rank)
           /\ OpenOK(file_desc, disk, own, pos)
           /\ Tree(disk, Heads(own), rank) /\ Nodes(disk) = Heads(own)
<1>1. Persisted = Blocks
  BY DEF Usage
<1>2. PICK own, len, pos, rank :
        Good(disk, ftable, free_blocks, own, len, pos, rank) /\ OpenOK(file_desc, disk, own, pos)
  BY IdleDisk
<1>3. Tree(disk, Heads(own), rank)
  BY <1>2 DEF Good, Filed
<1>4. Nodes(disk) = Heads(own)
  BY <1>1, <1>3, WalkVisits
<1> QED
  BY <1>2, <1>3, <1>4

LEMMA InvCount ==
  ASSUME Usage, IInv
  PROVE  FreeCount
<1>1. SUFFICES ASSUME Idle
               PROVE  /\ free_blocks = Cardinality({b \in 0 .. Blocks - 1 : ~ftable[b].occupied})
                      /\ disk[SUPERBLOCK].free = free_blocks
  BY DEF FreeCount
<1>2. PICK own, len, pos, rank : Good(disk, ftable, free_blocks, own, len, pos, rank)
  BY <1>1, IdleNodes
<1>3. free_blocks = Cardinality(Vacant(ftable)) /\ disk[0] = [free |-> free_blocks]
  BY <1>2 DEF Good
<1>4. disk[0].free = free_blocks
  BY <1>3
<1> QED
  BY <1>3, <1>4 DEF Vacant, All, SUPERBLOCK

(* free_blocks, which WRITE flags and rm_blocks change apart from the      *)
(* table, is the number of free blocks, and the superblock agrees          *)
(* (virtual_disk.cpp:203-211, vfs_rm.cpp:67-77).                           *)
THEOREM Counting ==
  ASSUME Usage
  PROVE  Spec => []FreeCount
<1>1. IInv => FreeCount
  BY InvCount
<1> QED
  BY <1>1, Invariance, PTL

LEMMA InvNames ==
  ASSUME Usage, IInv
  PROVE  OnePlacePerName
<1>1. PICK d : d = disk
  OBVIOUS
<1>2. SUFFICES ASSUME Idle
               PROVE  /\ \A b, c \in Nodes(d) : d[b].name = d[c].name => b = c
                      /\ \A b \in Nodes(d) \ {ROOT} :
                           {c \in Nodes(d) : Contains(d[c].entries, b)} = {d[b].parent}
                      /\ \A b \in Nodes(d) : d[b].entries # <<>> => d[b].type = "V_DIRECTORY"
  BY <1>1 DEF OnePlacePerName
<1>3. PICK own, rank : Tree(d, Heads(own), rank) /\ Nodes(d) = Heads(own)
  BY <1>1, <1>2, IdleNodes
<1>4. PICK N : N = Nodes(d) /\ Tree(d, N, rank)
  BY <1>3
<1>5. \A b, c \in N : d[b].name = d[c].name => b = c
  BY <1>4 DEF Tree, UniqueNames
<1>6. \A b \in N : Node(d, N, rank, b) /\ d[b].entries \in Seq(Blk) /\ d[b] \in Vnode
  BY <1>4, TreeNode
<1>7. \A b \in N : d[b].entries # <<>> => d[b].type = "V_DIRECTORY"
  BY <1>6, VnodeFields DEF Node
<1>8. ASSUME NEW b \in N, b # ROOT
      PROVE  {c \in N : Contains(d[c].entries, b)} = {d[b].parent}
  <2>1. \A c \in N : Contains(d[c].entries, b) <=> \E i \in DOMAIN d[c].entries : d[c].entries[i] = b
    BY <1>6 DEF Contains
  <2>2. d[b].parent \in N /\ \E i \in DOMAIN d[d[b].parent].entries : d[d[b].parent].entries[i] = b
    BY <1>6, <1>8 DEF Node
  <2>3. \A c \in N : \A i \in DOMAIN d[c].entries : d[c].entries[i] = b => d[b].parent = c
    BY <1>6 DEF Node
  <2> QED
    BY <2>1, <2>2, <2>3
<1> QED
  BY <1>4, <1>5, <1>7, <1>8

(* Names stay unique and the directories a tree in which every node lies   *)
(* in the one directory that it names as its parent (vfs_create.cpp,       *)
(* vfs_mkdir.cpp, vfs_rm.cpp).                                             *)
THEOREM Naming ==
  ASSUME Usage
  PROVE  Spec => []OnePlacePerName
<1>1. IInv => OnePlacePerName
  BY InvNames
<1> QED
  BY <1>1, Invariance, PTL

(* The chain of a file, found by following the table from its metadata.    *)
ChainFacts(b, own) ==
  /\ {b} \cup ToSet(Chain(ftable, b, disk[b].size)) = Own(own, b)
  /\ ftable[Last(<<b>> \o Chain(ftable, b, disk[b].size))].next = NIL
  /\ Cardinality(Own(own, b)) = disk[b].size + 1 /\ disk[b].start = b

LEMMA UsedOwn ==
  ASSUME Persisted = Blocks, NEW own, NEW len, NEW pos, NEW rank,
         Good(disk, ftable, free_blocks, own, len, pos, rank), NEW b \in Heads(own)
  PROVE  ChainFacts(b, own)
<1>1. /\ b \in Blk /\ own[b] = b /\ disk[b].start = b /\ disk[b].size = len[b] /\ len[b] \in Nat
      /\ b # NIL
  BY GoodFacts, NilOutside
<1>2. Layout(ftable, own, len, pos, NIL) /\ DOMAIN ftable = All
  BY DEF Good
<1>3. PICK n \in Nat : n = len[b]
  BY <1>1
<1>4. PICK c : c = Chain(ftable, b, n)
  OBVIOUS
<1>5. DOMAIN c = 1 .. n /\ \A i \in 1 .. n : c[i] \in Blk /\ own[c[i]] = b /\ pos[c[i]] = i
  <2>1. /\ DOMAIN c = 1 .. n
        /\ \A i \in 1 .. n : i <= len[b] => c[i] \in Blk /\ own[c[i]] = b /\ pos[c[i]] = i
    BY <1>1, <1>2, <1>4, ChainOf
  <2> QED
    BY <1>3, <2>1
<1>6. pos[b] = 0
  BY <1>1, <1>2, LayoutAt DEF Follows
<1>7. {b} \cup ToSet(c) = Own(own, b)
  <2>1. ASSUME NEW x \in Own(own, b), x # b
        PROVE  x \in ToSet(c)
    <3>1. x \in Blk /\ own[x] = b /\ own[x] # NIL
      BY <1>1 DEF Own
    <3>2. Follows(ftable, own, len, pos, NIL, x) /\ pos[x] \in Nat
      BY <1>2, <3>1, LayoutAt
    <3>3. pos[x] <= n /\ pos[x] # 0
      BY <1>3, <2>1, <3>1, <3>2 DEF Follows
    <3>4. PICK i \in 1 .. n : i = pos[x]
      BY <3>2, <3>3
    <3>5. c[i] = x
      BY <1>2, <1>5, <3>1, <3>4 DEF Layout, Apart
    <3> QED
      BY <1>5, <3>5 DEF ToSet
  <2>2. \A x \in ToSet(c) : x \in Own(own, b)
    BY <1>5 DEF ToSet, Own
  <2>3. b \in Own(own, b)
    BY <1>1 DEF Own
  <2> QED
    BY <2>1, <2>2, <2>3
<1>8. ftable[Last(<<b>> \o c)].next = NIL
  <2>1. c \in [1 .. n -> Blk] /\ c \in Seq(Blk) /\ Len(c) = n
    <3>1. c = [i \in 1 .. n |-> c[i]]
      <4>1. PICK f : Chain(ftable, b, n) = [i \in 1 .. n |-> f[i]]
        BY ChainSteps
      <4> QED
        BY <1>4, <4>1
    <3>2. c \in [1 .. n -> Blk]
      BY <1>5, <3>1
    <3> QED
      BY <3>2, SeqDef, LenProperties
  <2>2. PICK t : t = <<b>> \o c
    OBVIOUS
  <2>3. PICK s \in Seq(Blk) : s = <<b>> /\ Len(s) = 1 /\ s[1] = b
    <3>1. <<b>> \in Seq(Blk) /\ Len(<<b>>) = 1 /\ <<b>>[1] = b
      BY <1>1
    <3> QED
      BY <3>1
  <2>4. Len(t) = 1 + n /\ \A i \in 1 .. 1 + n : t[i] = IF i <= 1 THEN s[i] ELSE c[i - 1]
    <3>1. Joint(t, s, c)
      BY <2>2, <2>3 DEF Joint
    <3>2. Len(s) = 1
      BY <2>3
    <3> HIDE <2>2, <2>3
    <3>3. /\ Len(t) = Len(s) + Len(c)
          /\ \A i \in 1 .. Len(s) + Len(c) : t[i] = IF i <= Len(s) THEN s[i] ELSE c[i - Len(s)]
      BY <2>1, <3>1, Concat
    <3> QED
      BY <2>1, <3>2, <3>3
  <2>5. PICK l : l = t[1 + n] /\ l = Last(t)
    BY <2>4 DEF Last
  <2>6. l \in Blk /\ own[l] = b /\ pos[l] = n
    <3>1. CASE n = 0
      <4>1. 1 + n = 1 /\ 1 \in 1 .. 1 + n
        BY <3>1
      <4>2. t[1 + n] = t[1]
        BY <4>1
      <4>3. t[1] = s[1]
        BY <2>4, <4>1
      <4>4. l = b
        BY <2>3, <2>5, <4>2, <4>3
      <4> QED
        BY <1>1, <1>6, <3>1, <4>4
    <3>2. CASE n # 0
      <4>1. n \in 1 .. n /\ 1 + n \in 1 .. 1 + n /\ ~(1 + n <= 1) /\ (1 + n) - 1 = n
        BY <3>2
      <4>2. l = c[n]
        BY <2>4, <2>5, <4>1
      <4> QED
        BY <1>5, <4>1, <4>2
    <3> QED
      BY <3>1, <3>2
  <2>7. ftable[l].next = NIL
    BY <1>1, <1>2, <1>3, <2>6, LayoutAt, NilOutside DEF Follows
  <2> QED
    BY <2>2, <2>5, <2>7
<1>9. Cardinality(Own(own, b)) = n + 1
  BY <1>1, <1>2, <1>3, OwnCount
<1>10. n = disk[b].size
  BY <1>1, <1>3
<1> QED
  BY <1>1, <1>4, <1>7, <1>8, <1>9, <1>10 DEF ChainFacts

LEMMA InvTable ==
  ASSUME Usage, IInv
  PROVE  TableMatchesFiles
<1>1. Persisted = Blocks
  BY DEF Usage
<1>2. CASE ~Idle
  BY <1>2 DEF TableMatchesFiles
<1>3. CASE Idle
  <2>1. PICK own, len, pos, rank :
          /\ Good(disk, ftable, free_blocks, own, len, pos, rank)
          /\ Nodes(disk) = Heads(own)
    BY <1>3, IdleNodes
  <2>2. \A b \in Nodes(disk) : ChainFacts(b, own)
    BY <1>1, <2>1, UsedOwn
  <2>3. \A b \in Nodes(disk) : Used(b) = Own(own, b)
    BY <2>2 DEF ChainFacts, Used
  <2>4. \A b \in Nodes(disk) :
          /\ Cardinality(Used(b)) = disk[b].size + 1
          /\ ftable[Last(<<b>> \o Chain(ftable, b, disk[b].size))].next = NIL
          /\ disk[b].start = b
    BY <2>2, <2>3 DEF ChainFacts
  <2>5. \A b, c \in Nodes(disk) : b # c => Used(b) \cap Used(c) = {}
    BY <2>3 DEF Own
  <2>6. {b \in ROOT .. Blocks - 1 : ftable[b].occupied} = UNION {Used(b) : b \in Nodes(disk)}
    <3>1. Layout(ftable, own, len, pos, NIL)
      BY <2>1 DEF Good
    <3>2. ASSUME NEW b \in Blk
          PROVE  ftable[b].occupied <=> \E c \in Nodes(disk) : b \in Own(own, c)
      <4>1. Follows(ftable, own, len, pos, NIL, b) /\ own[b] \in Blk \cup {NIL}
        BY <3>1, LayoutAt
      <4>2. ftable[b].occupied => own[b] \in Nodes(disk)
        BY <2>1, <4>1 DEF Follows, Heads
      <4>3. \A c \in Nodes(disk) : own[b] = c => ftable[b].occupied
        BY <2>1, <4>1, NilOutside DEF Follows, Heads
      <4> QED
        BY <4>2, <4>3 DEF Own
    <3>3. \A c \in Nodes(disk) : Own(own, c) \subseteq Blk
      BY DEF Own
    <3> QED
      BY <2>3, <3>2, <3>3 DEF Blk
  <2> QED
    BY <2>4, <2>5, <2>6, Zenon DEF TableMatchesFiles
<1> QED
  BY <1>2, <1>3

(* The table describes exactly the files and directories on the disk: no   *)
(* block is lost or shared, and every chain has its metadata's length      *)
(* (vfs_sync_file.cpp, vfs_rm.cpp:67-77).                                  *)
THEOREM Allocation ==
  ASSUME Usage
  PROVE  Spec => []TableMatchesFiles
<1>1. IInv => TableMatchesFiles
  BY InvTable
<1> QED
  BY <1>1, Invariance, PTL

LEMMA InvSaved ==
  ASSUME Usage, IInv
  PROVE  MemoryIsSaved
<1>1. Persisted = Blocks
  BY DEF Usage
<1>2. SUFFICES ASSUME Idle
               PROVE  TableIsSaved /\ OpenFilesAreSynced
  BY DEF MemoryIsSaved
<1>3. PICK own, len, pos, rank :
        /\ Good(disk, ftable, free_blocks, own, len, pos, rank) /\ OpenOK(file_desc, disk, own, pos)
  BY <1>2, IdleNodes
<1>4. TableIsSaved
  BY <1>3 DEF Good, TableIsSaved
<1>5. ASSUME NEW fd \in Descriptors, file_desc[fd] # Closed, NEW f, f = file_desc[fd]
      PROVE  /\ disk[f.meta.start] = f.meta
             /\ Content(ftable, disk, f.meta.start) = SubSeq(f.binary, 1, f.meta.eof)
  <2>1. OpenAt(f, disk, own, pos) /\ OpenFileOK(f)
    BY <1>1, <1>3, <1>5, OpenIsOK DEF OpenOK
  <2>2. PICK s : s = f.meta.start /\ s \in Heads(own) /\ disk[s] = f.meta
    BY <2>1 DEF OpenAt
  <2>3. PICK eof \in Nat, binary \in Seq(Byte) :
          eof = f.meta.eof /\ binary = f.binary /\ eof <= Len(binary) /\ eof <= f.meta.size * BlockSize
    BY <2>1, FileNumbers
  <2>4. f.meta.size = len[s]
    BY <1>1, <1>3, <2>2, GoodFacts
  <2>5. SameBytes(disk, own, pos, s, eof, binary)
    BY <2>1, <2>2, <2>3 DEF OpenAt
  <2>6. eof <= len[s] * BlockSize /\ eof <= Len(binary)
    BY <2>3, <2>4
  <2>7. Joined(disk, Chain(ftable, s, len[s]), eof) = SubSeq(binary, 1, eof)
    BY <1>1, <1>3, <2>2, <2>5, <2>6, SameContent
  <2>8. disk[s].size = len[s] /\ disk[s].eof = eof
    BY <2>2, <2>3, <2>4
  <2>9. Content(ftable, disk, s) = SubSeq(binary, 1, eof)
    BY <2>7, <2>8 DEF Content
  <2> QED
    BY <2>2, <2>3, <2>9
<1>6. OpenFilesAreSynced
  BY <1>5 DEF OpenFilesAreSynced
<1> QED
  BY <1>4, <1>6

(* Between two calls the disk holds all that is in memory: the table, and  *)
(* metadata and bytes of the open files (vfs_write, vfs_trunc, vfs_close). *)
THEOREM Saving ==
  ASSUME Usage
  PROVE  Spec => []MemoryIsSaved
<1>1. IInv => MemoryIsSaved
  BY InvSaved
<1> QED
  BY <1>1, Invariance, PTL

-----------------------------------------------------------------------------
(* What a step does to the files and to the descriptors.                   *)

(* Nothing that the caller sees changes.                                   *)
Kept == UNCHANGED <<mode, file_desc, stored>>

(* The process ends in the middle of a call.                               *)
Torn == writes # <<>> /\ Exit

(* A call that finds no block.                                             *)
Stuck == mode = "up" /\ NoBlock

(* A call that returns.                                                    *)
Called == mode = "up" /\ mode' = "up"

(* There is a new empty file.                                              *)
Created(name) ==
  /\ Called /\ stored[name] = Absent /\ stored' = Leaving(stored, name, <<>>)
  /\ file_desc' = file_desc

(* A file that nobody has open is gone.                                    *)
Removed(name) ==
  /\ Called /\ OpenOf(name) = {} /\ stored[name] \in Seq(Byte)
  /\ stored' = Leaving(stored, name, Absent) /\ file_desc' = file_desc

(* A free descriptor gets an existing file.                                *)
OpenedAt(fd, name) ==
  Called /\ file_desc[fd] = Closed /\ stored[name] \in Seq(Byte) /\ Opened(fd, name)

(* A descriptor becomes free.                                              *)
ClosedAt(fd) == stored' = stored /\ file_desc' = WithFile(file_desc, fd, Closed)

(* Only the first n bytes of an open file are left.                        *)
Shortened(fd, n) ==
  /\ n < file_desc[fd].meta.eof
  /\ Changed(fd, SubSeq(stored[file_desc[fd].meta.name], 1, n), n)

(* An open file and what is stored of it.                                  *)
Known(fd) ==
  LET f == file_desc[fd]
  IN  /\ f # Closed /\ f.meta.name \in FileNames
      /\ stored[f.meta.name] \in Seq(Byte) /\ Len(stored[f.meta.name]) = f.meta.eof
      /\ f.meta.eof \in 0 .. Blocks * BlockSize /\ f.offset \in 0 .. f.meta.eof

(* What a call does that is given an open file.                            *)
UsedAt(fd) ==
  /\ Called /\ Known(fd)
  /\ \/ ClosedAt(fd)
     \/ \E offset \in 0 .. file_desc[fd].meta.eof : Moved(fd, offset)
     \/ \E n \in Offsets : Shortened(fd, n)
     \/ \E byte \in Bytes : Written(fd, byte)

(* What any step does.                                                     *)
Effect ==
  \/ Kept \/ Stuck \/ Torn
  \/ Started \/ Lost("down") \/ Lost("stray")
  \/ \E name \in FileNames : Created(name) \/ Removed(name)
  \/ \E fd \in Descriptors, name \in FileNames : OpenedAt(fd, name)
  \/ \E fd \in Descriptors : UsedAt(fd) \/ (Known(fd) /\ Broken)

LEMMA UsingKnown ==
  ASSUME Usage, IInv, NEW fd \in Descriptors, Using(fd)
  PROVE  Known(fd)
<1>1. PICK f : f = file_desc[fd]
  OBVIOUS
<1>2. f # Closed /\ OpenFileOK(f)
  BY <1>1, InUse
<1>3. PICK name \in FileNames : name = f.meta.name /\ stored[name] = SubSeq(f.binary, 1, f.meta.eof)
  BY <1>1, OpenRecord
<1>4. PICK binary \in Seq(Byte), eof \in Nat : binary = f.binary /\ eof = f.meta.eof /\ eof <= Len(binary)
  BY <1>2, FileNumbers
<1>5. stored[name] \in Seq(Byte) /\ Len(stored[name]) = eof
  BY <1>3, <1>4, Prefix
<1>6. eof \in 0 .. Blocks * BlockSize
  <2>1. f.meta \in Vnode
    BY <1>2 DEF OpenFileOK
  <2>2. PICK k : k = Blocks * BlockSize
    OBVIOUS
  <2>3. f.meta.eof \in NIL .. k
    BY <2>1, <2>2, VnodeFields
  <2> QED
    BY <1>4, <2>2, <2>3 DEF NIL
<1>7. f.offset \in 0 .. eof
  BY <1>2, <1>4 DEF OpenFileOK
<1> QED
  BY <1>1, <1>2, <1>3, <1>4, <1>5, <1>6, <1>7 DEF Known

LEMMA NoBlockStuck == Idle /\ NoBlock => Stuck
BY DEF Idle, NoBlock, Stuck

(* Every step has one of these effects.                                    *)
LEMMA NextEffect ==
  ASSUME Usage, IInv, Next
  PROVE  Effect
<1>1. CASE file_system
  BY <1>1, FileSystemInv DEF Effect
<1>2. ASSUME NEW name \in FileNames, NEW dir_name \in ParentNames, vfs_create(name, dir_name)
      PROVE  Effect
  <2>1. /\ Idle /\ stored[name] = Absent
        /\ NoBlock \/ Lose("stray") \/ Outcome(file_desc, name, <<>>)
    BY <1>2, CreateInv
  <2>2. Stuck \/ Lost("stray") \/ Created(name)
    BY <2>1, NoBlockStuck, LoseLost DEF Outcome, Created, Called, Idle
  <2> QED
    BY <2>2 DEF Effect
<1>3. ASSUME NEW name \in DirNames, NEW dir_name \in ParentNames, vfs_mkdir(name, dir_name)
      PROVE  Effect
  <2>1. /\ Idle
        /\ name \in FileNames => stored[name] = Absent
        /\ NoBlock \/ Lose("stray") \/ Outcome(file_desc, name, Absent)
    BY <1>3, MkdirInv
  <2>2. Leaving(stored, name, Absent) = stored
    <3>1. stored = [n \in FileNames |-> stored[n]]
      BY StoredDomain DEF IInv, Foretold
    <3>2. \A n \in FileNames : (IF n = name THEN Absent ELSE stored[n]) = stored[n]
      BY <2>1
    <3>3. Leaving(stored, name, Absent) = [n \in FileNames |-> stored[n]]
      BY <3>2 DEF Leaving
    <3> QED
      BY <3>1, <3>3
  <2>3. Stuck \/ Lost("stray") \/ Kept
    BY <2>1, <2>2, NoBlockStuck, LoseLost DEF Outcome, Kept, Idle
  <2> QED
    BY <2>3 DEF Effect
<1>4. ASSUME NEW name \in FileNames, vfs_rm(name)
      PROVE  Effect
  <2>1. Idle
    BY <1>4, Zenon DEF vfs_rm
  <2>2. OpenOf(name) = {} /\ stored[name] \in Seq(Byte) /\ (NoBlock \/ Outcome(file_desc, name, Absent))
    BY <1>4, RmInv
  <2>3. Stuck \/ Removed(name)
    BY <2>1, <2>2, NoBlockStuck DEF Outcome, Removed, Called, Idle
  <2> QED
    BY <2>3 DEF Effect
<1>5. ASSUME NEW name \in Names, vfs_open(name)
      PROVE  Effect
  <2>1. CASE OpenFile(name)
    <3>1. Idle /\ name \in FileNames
      BY <2>1, OpenFileInv
    <3>2. PICK fd \in Descriptors : /\ file_desc[fd] = Closed /\ stored[name] \in Seq(Byte)
                                    /\ NoBlock \/ Opened(fd, name)
      BY <2>1, OpenFileInv
    <3>3. Stuck \/ OpenedAt(fd, name)
      BY <3>1, <3>2, NoBlockStuck DEF OpenedAt, Opened, Called, Idle
    <3> QED
      BY <3>1, <3>3 DEF Effect
  <2>2. CASE OpenDirectory(name)
    BY <2>2, OpenDirectoryInv, LoseLost DEF Effect
  <2> QED
    BY <1>5, <2>1, <2>2 DEF vfs_open
<1>6. ASSUME NEW fd \in Descriptors, Use(fd)
      PROVE  Effect
  <2>0. ASSUME Using(fd)
        PROVE  Known(fd) /\ mode = "up" /\ (NoBlock => Stuck)
    BY <2>0, UsingKnown, NoBlockStuck DEF Using, Idle
  <2>1. CASE vfs_close(fd)
    <3>1. Using(fd) /\ (NoBlock \/ (mode' = "up" /\ ClosedAt(fd)))
      BY <2>1, CloseInv DEF ClosedAt
    <3>2. Stuck \/ UsedAt(fd)
      BY <2>0, <3>1 DEF UsedAt, Called
    <3> QED
      BY <3>2 DEF Effect
  <2>2. ASSUME NEW size \in WriteSizes, NEW byte \in Bytes, vfs_write(fd, size, byte)
        PROVE  Effect
    <3>1. Using(fd) /\ (NoBlock \/ Broken \/ Written(fd, byte))
      BY <2>2, InPlaceInv, GrowingInv DEF vfs_write
    <3>2. Written(fd, byte) => mode' = "up"
      BY DEF Written, Changed
    <3>3. Stuck \/ (Known(fd) /\ Broken) \/ UsedAt(fd)
      BY <2>0, <3>1, <3>2 DEF UsedAt, Called
    <3> QED
      BY <3>3 DEF Effect
  <2>3. ASSUME NEW n \in Offsets, vfs_read(fd, n) \/ vfs_seek(fd, n)
        PROVE  Effect
    <3>1. Using(fd) /\ \E offset \in 0 .. file_desc[fd].meta.eof : NoBlock \/ Moved(fd, offset)
      BY <2>3, ReadInv, SeekInv
    <3>2. \A offset : Moved(fd, offset) => mode' = "up"
      BY DEF Moved
    <3>3. Stuck \/ UsedAt(fd)
      BY <2>0, <3>1, <3>2 DEF UsedAt, Called
    <3> QED
      BY <3>3 DEF Effect
  <2>4. ASSUME NEW n \in Offsets, vfs_trunc(fd, n)
        PROVE  Effect
    <3>1. Using(fd) /\ (NoBlock \/ Moved(fd, file_desc[fd].meta.eof) \/ Shortened(fd, n))
      BY <2>4, TruncInv DEF Shortened
    <3>2. file_desc[fd].meta.eof \in 0 .. file_desc[fd].meta.eof
      <4>1. PICK eof \in Nat : eof = file_desc[fd].meta.eof
        BY <3>1, InUse, FileNumbers
      <4>2. eof \in 0 .. eof
        OBVIOUS
      <4> QED
        BY <4>1, <4>2
    <3>3. (\A offset : Moved(fd, offset) => mode' = "up") /\ (Shortened(fd, n) => mode' = "up")
      BY DEF Moved, Shortened, Changed
    <3>4. Stuck \/ UsedAt(fd)
      BY <2>0, <3>1, <3>2, <3>3 DEF UsedAt, Called
    <3> QED
      BY <3>4 DEF Effect
  <2> QED
    BY <1>6, <2>1, <2>2, <2>3, <2>4 DEF Use
<1>7. CASE DiskWrite
  BY <1>7 DEF DiskWrite, memory, Kept, Effect
<1>8. CASE Exit
  <2>1. CASE writes = <<>>
    <3>1. stored' = stored
      BY <1>8, <2>1, IdleStored DEF Exit
    <3> QED
      BY <1>8, <2>1, <3>1 DEF Exit, Forget, Lost, AllClosed, Effect
  <2>2. CASE writes # <<>>
    BY <1>8, <2>2 DEF Torn, Effect
  <2> QED
    BY <2>1, <2>2
<1> QED
  BY <1>1, <1>2, <1>3, <1>4, <1>5, <1>6, <1>7, <1>8 DEF Next, Change

(* The values that stand for `closed' and `absent' are no open file, no    *)
(* handle of FileStore and no sequence of bytes.                           *)
Markers ==
  /\ \A f : IsFile(f) => f # Closed
  /\ \A n, o : [file |-> n, offset |-> o] # Closed
  /\ Absent \notin Seq(Byte)

(* A step that frees a descriptor changes no file.                         *)
LEMMA ClosingStep ==
  ASSUME Usage, Markers, IInv, Next, NEW fd \in Descriptors,
         file_desc[fd] # Closed, file_desc'[fd] = Closed, mode' = "up"
  PROVE  stored' = stored
<1>1. DOMAIN file_desc = Descriptors
  BY DEF IInv, TypeInv
<1>2. file_desc' # file_desc
  OBVIOUS
<1>3. ASSUME NEW fe \in Descriptors, NEW f, IsFile(f), file_desc' = WithFile(file_desc, fe, f)
      PROVE  FALSE
  <2>1. f # Closed
    BY <1>3 DEF Markers
  <2>2. PICK new : new = WithFile(file_desc, fe, f) /\ new[fd] = Closed
    BY <1>3
  <2>3. Handed(file_desc, fe, f, new) /\ new[fe] = f
    BY <1>1, <2>2, WithFileHanded
  <2> QED
    BY <2>1, <2>2, <2>3 DEF Handed
<1>4. Effect
  BY NextEffect
<1>5. CASE Kept \/ Started
  BY <1>5 DEF Kept, Started
<1>6. CASE Torn \/ Stuck \/ Lost("down") \/ Lost("stray") \/ Broken
  BY <1>6 DEF Torn, Exit, Stuck, NoBlock, Lost, Broken
<1>7. CASE \E name \in FileNames : Created(name) \/ Removed(name)
  BY <1>2, <1>7 DEF Created, Removed
<1>8. CASE \E fe \in Descriptors, name \in FileNames : OpenedAt(fe, name)
  BY <1>3, <1>8 DEF OpenedAt, Opened
<1>9. ASSUME NEW fe \in Descriptors, UsedAt(fe)
      PROVE  stored' = stored
  <2>1. CASE ClosedAt(fe)
    BY <2>1 DEF ClosedAt
  <2>2. ASSUME NEW offset, Moved(fe, offset)
        PROVE  FALSE
    BY <1>3, <2>2 DEF Moved
  <2>3. ASSUME NEW c, NEW offset, Changed(fe, c, offset)
        PROVE  FALSE
    BY <1>3, <2>3 DEF Changed
  <2>4. ASSUME NEW n, Shortened(fe, n)
        PROVE  FALSE
    BY <2>3, <2>4 DEF Shortened
  <2>5. ASSUME NEW byte, Written(fe, byte)
        PROVE  FALSE
    BY <2>3, <2>5 DEF Written
  <2> QED
    BY <1>9, <2>1, <2>2, <2>4, <2>5 DEF UsedAt
<1> QED
  BY <1>4, <1>5, <1>6, <1>7, <1>8, <1>9 DEF Effect

(* vfs_close writes the whole file once more "to ensure doubly", every     *)
(* block and the metadata, and yet no file becomes another one by it       *)
(* (vfs_open-close.cpp, vfs_sync_file.cpp).                                *)
THEOREM Closing ==
  ASSUME Usage, Markers
  PROVE  Spec => CloseChangesNothing
<1>1. IInv /\ [Next]_vars =>
        [(\E fd \in Descriptors : file_desc[fd] # Closed /\ file_desc'[fd] = Closed /\ mode' = "up")
           => stored' = stored]_vars
  <2>1. SUFFICES ASSUME IInv, Next, NEW fd \in Descriptors,
                        file_desc[fd] # Closed, file_desc'[fd] = Closed, mode' = "up"
                 PROVE  stored' = stored
    OBVIOUS
  <2> QED
    BY <2>1, ClosingStep
<1> QED
  BY <1>1, Invariance, PTL DEF Spec, CloseChangesNothing

-----------------------------------------------------------------------------
(* The descriptors as the abstract files see them.                         *)

(* An open file as FileStore has it.                                       *)
AsHandle(f) == IF f = Closed THEN Closed ELSE [file |-> f.meta.name, offset |-> f.offset]

(* The handles that FileSystemProperties gives FileStore.                  *)
Handles == [fd \in Descriptors |->
              IF file_desc[fd] = Closed THEN Closed
              ELSE [file |-> file_desc[fd].meta.name, offset |-> file_desc[fd].offset]]

LEMMA HandleNow ==
  ASSUME NEW fd \in Descriptors
  PROVE  Handles[fd] = AsHandle(file_desc[fd]) /\ Handles'[fd] = AsHandle(file_desc'[fd])
BY DEF Handles, AsHandle

LEMMA HandleSet ==
  ASSUME IInv, NEW fd \in Descriptors, NEW f, file_desc' = WithFile(file_desc, fd, f)
  PROVE  Handles' = [Handles EXCEPT ![fd] = AsHandle(f)]
<1>1. DOMAIN file_desc = Descriptors
  BY DEF IInv, TypeInv
<1>2. PICK new : new = WithFile(file_desc, fd, f) /\ new = file_desc'
  OBVIOUS
<1>3. Handed(file_desc, fd, f, new) /\ new[fd] = f
  BY <1>1, <1>2, WithFileHanded
<1>4. PICK H : H = Handles'
  OBVIOUS
<1>5. \A fe \in Descriptors : H[fe] = IF fe = fd THEN AsHandle(f) ELSE Handles[fe]
  BY <1>2, <1>3, <1>4, HandleNow DEF Handed
<1>6. H = [fe \in Descriptors |-> H[fe]] /\ DOMAIN Handles = Descriptors
  BY <1>4 DEF Handles
<1>7. H = [Handles EXCEPT ![fd] = AsHandle(f)]
  BY <1>5, <1>6
<1> QED
  BY <1>4, <1>7

LEMMA HandlesSame ==
  ASSUME file_desc' = file_desc
  PROVE  Handles' = Handles
BY DEF Handles

LEMMA HandlesLost ==
  ASSUME AllClosed(file_desc')
  PROVE  Handles' = [fd \in Descriptors |-> Closed]
BY DEF Handles, AllClosed

LEMMA LeavingExcept ==
  ASSUME IInv, NEW name \in FileNames, NEW c, stored' = Leaving(stored, name, c)
  PROVE  stored' = [stored EXCEPT ![name] = c]
<1>1. stored = [n \in FileNames |-> stored[n]]
  BY StoredDomain DEF IInv, Foretold
<1>2. PICK F : F = stored /\ F = [n \in FileNames |-> F[n]]
  BY <1>1
<1>3. Leaving(F, name, c) = [F EXCEPT ![name] = c]
  BY <1>2 DEF Leaving
<1> QED
  BY <1>2, <1>3

(* The steps of FileStore, with the descriptors by name.                   *)
LEMMA StoreCreate ==
  ASSUME Called, NEW n, UNCHANGED Handles, stored[n] = Absent, stored' = [stored EXCEPT ![n] = <<>>]
  PROVE  Store!Create(n)
BY DEF Store!Create, Store!Call, Called, Handles

LEMMA StoreRemove ==
  ASSUME Called, NEW n, UNCHANGED Handles, stored[n] # Absent, stored' = [stored EXCEPT ![n] = Absent],
         \A h \in Descriptors : Handles[h] # Closed => Handles[h].file # n
  PROVE  Store!Remove(n)
BY DEF Store!Remove, Store!Call, Called, Store!IsOpen, Handles

LEMMA StoreOpen ==
  ASSUME Called, NEW h, NEW n, Handles[h] = Closed, Handles'[h] # Closed, stored[n] # Absent,
         Handles' = [Handles EXCEPT ![h] = [file |-> n, offset |-> Len(stored[n])]], UNCHANGED stored
  PROVE  Store!Open(h, n)
BY DEF Store!Open, Store!Call, Called, Handles

LEMMA StoreClose ==
  ASSUME Called, NEW h, Handles[h] # Closed, Handles' = [Handles EXCEPT ![h] = Closed], UNCHANGED stored
  PROVE  Store!Close(h)
BY DEF Store!Close, Store!Call, Called, Handles

LEMMA StoreSeek ==
  ASSUME Called, NEW h, NEW o, Handles[h] # Closed, Handles' = [Handles EXCEPT ![h].offset = o],
         o <= Len(stored[Handles[h].file]), UNCHANGED stored
  PROVE  Store!Seek(h, o)
BY DEF Store!Seek, Store!Call, Called, Handles

LEMMA StoreWrite ==
  ASSUME Called,
         NEW h, NEW n, NEW b, NEW f, NEW o, Handles[h] # Closed, Handles[h].file = f, Handles[h].offset = o,
         Handles' = [Handles EXCEPT ![h].offset = o + n],
         stored' = [stored EXCEPT ![f] = Store!Overlay(stored[f], o, n, b)]
  PROVE  Store!Write(h, n, b)
<1>1. PICK x : x = Store!Overlay(stored[f], o, n, b)
  OBVIOUS
<1>2. [stored EXCEPT ![f] = x] = [stored EXCEPT ![f] = Store!Overlay(@, o, n, b)]
  BY <1>1
<1>3. mode = "up" /\ mode' = mode
  BY DEF Called
<1> QED
  BY <1>1, <1>2, <1>3 DEF Store!Write, Store!Call, Handles

LEMMA StoreTruncate ==
  ASSUME Called, NEW h, NEW n, NEW f, Handles[h] # Closed, Handles[h].file = f,
         Handles' = [Handles EXCEPT ![h].offset = n],
         n < Len(stored[f]), stored' = [stored EXCEPT ![f] = SubSeq(stored[f], 1, n)]
  PROVE  Store!Truncate(h, n)
BY DEF Store!Truncate, Store!Call, Called, Handles

LEMMA StoreEnds ==
  ASSUME NEW how, Lost(how)
  PROVE  Store!End(how) /\ UNCHANGED stored
<1>1. Handles' = [fd \in Descriptors |-> Closed]
  BY HandlesLost DEF Lost
<1> QED
  BY <1>1 DEF Lost, Store!End, Handles

LEMMA StoreStarts ==
  ASSUME Started
  PROVE  Store!Start
<1>1. Handles' = [fd \in Descriptors |-> Closed]
  BY HandlesLost DEF Started
<1> QED
  BY <1>1 DEF Started, Store!Start, Handles

LEMMA StoreStuck ==
  ASSUME Stuck
  PROVE  Store!OutOfBlocks
<1>1. Handles' = Handles
  BY HandlesSame DEF Stuck, NoBlock
<1> QED
  BY <1>1 DEF Stuck, NoBlock, Store!OutOfBlocks, Handles

(* Beginning and end of a process.                                         *)
LEMMA ProcessStep ==
  ASSUME Started \/ Stuck \/ Lost("down") \/ Lost("stray")
  PROVE  Store!Next
<1>1. CASE Started
  BY <1>1, StoreStarts DEF Store!Next
<1>2. CASE Stuck
  BY <1>2, StoreStuck DEF Store!Next
<1>3. CASE Lost("down")
  BY <1>3, StoreEnds DEF Store!Next, Store!Stop
<1>4. CASE Lost("stray")
  BY <1>4, StoreEnds DEF Store!Next, Store!Stray
<1> QED
  BY <1>1, <1>2, <1>3, <1>4

LEMMA BrokenStep ==
  ASSUME NEW fd \in Descriptors, Handles[fd] # Closed, Broken
  PROVE  Store!Next
<1>1. Store!Overflow(fd)
  BY StoreEnds DEF Broken, Store!Overflow, Handles
<1> QED
  BY <1>1 DEF Store!Next

(* An open file with another offset.                                       *)
LEMMA OffsetSet ==
  ASSUME Markers, IInv, NEW fd \in Descriptors, Known(fd), NEW f, IsFile(f),
         f.meta.name = file_desc[fd].meta.name, NEW offset, f.offset = offset,
         file_desc' = WithFile(file_desc, fd, f)
  PROVE  /\ Handles[fd] # Closed /\ Handles[fd].file = file_desc[fd].meta.name
         /\ Handles[fd].offset = file_desc[fd].offset
         /\ Handles' = [Handles EXCEPT ![fd].offset = offset]
<1>0. file_desc[fd] # Closed
  BY Zenon DEF Known
<1>1. PICK name, o : name = file_desc[fd].meta.name /\ o = file_desc[fd].offset
  OBVIOUS
<1>2. PICK x : x = [file |-> name, offset |-> o] /\ x # Closed
  <2>1. \A n, q : [file |-> n, offset |-> q] # Closed
    BY DEF Markers
  <2>2. [file |-> name, offset |-> o] # Closed
    BY ONLY <2>1
  <2> QED
    BY ONLY <2>2
<1>3. Handles[fd] = x
  BY <1>0, <1>1, <1>2, HandleNow DEF AsHandle
<1>4. PICK y : y = AsHandle(f)
  OBVIOUS
<1>5. y = [file |-> name, offset |-> offset]
  BY <1>1, <1>4 DEF AsHandle, Markers
<1>6. y = [x EXCEPT !.offset = offset]
  BY ONLY <1>2, <1>5
<1>7. Handles' = [Handles EXCEPT ![fd] = y]
  BY <1>4, HandleSet
<1>8. Handles' = [Handles EXCEPT ![fd].offset = offset]
  BY <1>3, <1>6, <1>7
<1> QED
  BY <1>0, <1>1, <1>2, <1>3, <1>8

(* No file is longer than a number.                                        *)
LEMMA BlocksNat == Blocks * BlockSize \in Nat
<1>1. Blocks \in Nat /\ BlockSize \in Nat
  BY DiskAssumption
<1> QED
  BY <1>1

(* Writing no byte changes nothing.                                        *)
LEMMA OverlayNothing ==
  ASSUME NEW s \in Seq(Byte), NEW o \in Nat, o <= Len(s), NEW b
  PROVE  Store!Overlay(s, o, 0, b) = s
<1>1. PICK n \in Nat : n = Len(s) /\ o <= n
  BY LenProperties
<1>2. s = [i \in 1 .. n |-> s[i]]
  BY <1>1, LenProperties
<1>3. Store!Overlay(s, o, 0, b) = [i \in 1 .. n |-> s[i]]
  BY <1>1 DEF Store!Overlay
<1> QED
  BY <1>2, <1>3

LEMMA StoreUse ==
  ASSUME NEW h \in Descriptors
  PROVE  /\ Store!Close(h) => Store!Next
         /\ \A n \in 0 .. Blocks * BlockSize : Store!Seek(h, n) \/ Store!Truncate(h, n) => Store!Next
         /\ \A n \in 1 .. Blocks * BlockSize : \A b \in Bytes : Store!Write(h, n, b) => Store!Next
BY DEF Store!Next

LEMMA StoreName ==
  ASSUME NEW name \in FileNames
  PROVE  /\ Store!Create(name) \/ Store!Remove(name) => Store!Next
         /\ \A h \in Descriptors : Store!Open(h, name) => Store!Next
BY DEF Store!Next

LEMMA CreatedStep ==
  ASSUME IInv, NEW name \in FileNames, Created(name)
  PROVE  Store!Next
<1>1. stored' = [stored EXCEPT ![name] = <<>>]
  BY LeavingExcept DEF Created
<1>2. Handles' = Handles /\ stored[name] = Absent
  BY HandlesSame DEF Created
<1>3. Called
  BY DEF Created
<1> QED
  BY <1>1, <1>2, <1>3, StoreCreate, StoreName

LEMMA RemovedStep ==
  ASSUME Markers, IInv, NEW name \in FileNames, Removed(name)
  PROVE  Store!Next
<1>1. stored' = [stored EXCEPT ![name] = Absent]
  BY LeavingExcept DEF Removed
<1>2. Handles' = Handles /\ stored[name] # Absent
  BY HandlesSame DEF Removed, Markers
<1>3. ASSUME NEW h \in Descriptors, Handles[h] # Closed
      PROVE  Handles[h].file # name
  <2>1. Handles[h] = AsHandle(file_desc[h])
    BY HandleNow
  <2>2. file_desc[h] # Closed
    BY <1>3, <2>1 DEF AsHandle
  <2>3. Handles[h].file = file_desc[h].meta.name
    BY <2>1, <2>2 DEF AsHandle
  <2> QED
    BY <2>2, <2>3 DEF Removed, OpenOf
<1>4. Called
  BY DEF Removed
<1> QED
  BY <1>1, <1>2, <1>3, <1>4, StoreRemove, StoreName

LEMMA OpenedStep ==
  ASSUME Markers, IInv, NEW fd \in Descriptors, NEW name \in FileNames, OpenedAt(fd, name)
  PROVE  Store!Next
<1>1. PICK f : IsFile(f) /\ f.meta.name = name /\ f.offset = Len(stored[name]) /\ file_desc' = WithFile(file_desc, fd, f)
  BY DEF OpenedAt, Opened
<1>2. f # Closed
  BY <1>1 DEF Markers
<1>3. PICK o : o = Len(stored[name])
  OBVIOUS
<1>4. PICK y : y = AsHandle(f)
  OBVIOUS
<1>5. y = [file |-> name, offset |-> o]
  BY <1>1, <1>2, <1>3, <1>4 DEF AsHandle
<1>6. y # Closed
  <2>1. \A n, q : [file |-> n, offset |-> q] # Closed
    BY DEF Markers
  <2>2. [file |-> name, offset |-> o] # Closed
    BY ONLY <2>1
  <2> QED
    BY ONLY <2>2, <1>5
<1>7. Handles' = [Handles EXCEPT ![fd] = y]
  BY <1>1, <1>4, HandleSet
<1>8. Handles[fd] = Closed /\ stored' = stored /\ stored[name] # Absent
  BY HandleNow DEF OpenedAt, Opened, AsHandle, Markers
<1>9. Handles'[fd] # Closed
  <2>1. DOMAIN Handles = Descriptors
    BY DEF Handles
  <2> QED
    BY <1>6, <1>7, <2>1
<1>10. Handles' = [Handles EXCEPT ![fd] = [file |-> name, offset |-> Len(stored[name])]]
  BY <1>3, <1>5, <1>7
<1>11. Called
  BY DEF OpenedAt
<1> QED
  BY <1>8, <1>9, <1>10, <1>11, StoreOpen, StoreName

LEMMA ClosedStep ==
  ASSUME Markers, IInv, Called, NEW fd \in Descriptors, Handles[fd] # Closed, ClosedAt(fd)
  PROVE  Store!Next
<1>1. Handles' = [Handles EXCEPT ![fd] = AsHandle(Closed)]
  BY HandleSet DEF ClosedAt
<1>2. AsHandle(Closed) = Closed
  BY DEF AsHandle
<1> QED
  BY <1>1, <1>2, StoreClose, StoreUse DEF ClosedAt

(* The handle of an open file, and its bytes.                              *)
LEMMA KnownHandle ==
  ASSUME Markers, IInv, NEW fd \in Descriptors, Known(fd)
  PROVE  \E name \in FileNames, eof \in 0 .. Blocks * BlockSize : \E o \in 0 .. eof :
           /\ name = file_desc[fd].meta.name /\ eof = file_desc[fd].meta.eof /\ o = file_desc[fd].offset
           /\ stored[name] \in Seq(Byte) /\ Len(stored[name]) = eof
           /\ Handles[fd] # Closed /\ Handles[fd].file = name /\ Handles[fd].offset = o
<1>1. /\ file_desc[fd] # Closed /\ file_desc[fd].meta.name \in FileNames
      /\ stored[file_desc[fd].meta.name] \in Seq(Byte)
      /\ Len(stored[file_desc[fd].meta.name]) = file_desc[fd].meta.eof
      /\ file_desc[fd].meta.eof \in 0 .. Blocks * BlockSize
      /\ file_desc[fd].offset \in 0 .. file_desc[fd].meta.eof
  BY Zenon DEF Known
<1>2. PICK name, o : name = file_desc[fd].meta.name /\ o = file_desc[fd].offset
  OBVIOUS
<1>3. PICK x : x = [file |-> name, offset |-> o]
  OBVIOUS
<1>4. x # Closed
  <2>1. \A n, q : [file |-> n, offset |-> q] # Closed
    BY DEF Markers
  <2>2. [file |-> name, offset |-> o] # Closed
    BY ONLY <2>1
  <2> QED
    BY ONLY <2>2, <1>3
<1>5. Handles[fd] = x
  BY <1>1, <1>2, <1>3, HandleNow DEF AsHandle
<1>6. x.file = name /\ x.offset = o
  BY <1>3
<1>7. Handles[fd] # Closed /\ Handles[fd].file = name /\ Handles[fd].offset = o
  BY <1>4, <1>5, <1>6
<1> QED
  BY <1>1, <1>2, <1>7

LEMMA MovedStep ==
  ASSUME Markers, IInv, Called, NEW fd \in Descriptors, Known(fd),
         NEW offset \in 0 .. file_desc[fd].meta.eof, Moved(fd, offset)
  PROVE  Store!Next
<1>1. PICK name \in FileNames, eof \in 0 .. Blocks * BlockSize :
             /\ name = file_desc[fd].meta.name /\ eof = file_desc[fd].meta.eof
             /\ Len(stored[name]) = eof /\ Handles[fd] # Closed /\ Handles[fd].file = name
  BY KnownHandle
<1>2. PICK f : IsFile(f) /\ f.meta = file_desc[fd].meta /\ f.offset = offset
               /\ file_desc' = WithFile(file_desc, fd, f)
  BY DEF Moved
<1>3. Handles' = [Handles EXCEPT ![fd].offset = offset]
  BY <1>2, OffsetSet
<1>4. offset <= Len(stored[Handles[fd].file]) /\ stored' = stored
  BY <1>1 DEF Moved
<1>5. offset \in 0 .. Blocks * BlockSize
  <2>1. PICK k \in Nat : k = Blocks * BlockSize
    BY BlocksNat
  <2> QED
    BY <1>1, <2>1
<1> QED
  BY <1>1, <1>3, <1>4, <1>5, StoreSeek, StoreUse

LEMMA ChangedStep ==
  ASSUME Markers, IInv, NEW fd \in Descriptors, Known(fd), NEW c, NEW offset, Changed(fd, c, offset)
  PROVE  /\ stored' = [stored EXCEPT ![file_desc[fd].meta.name] = c]
         /\ Handles' = [Handles EXCEPT ![fd].offset = offset]
<1>1. file_desc[fd].meta.name \in FileNames
  BY Zenon DEF Known
<1>2. stored' = [stored EXCEPT ![file_desc[fd].meta.name] = c]
  BY <1>1, LeavingExcept DEF Changed
<1>3. PICK f : IsFile(f) /\ f.meta.name = file_desc[fd].meta.name /\ f.offset = offset
               /\ file_desc' = WithFile(file_desc, fd, f)
  BY DEF Changed
<1>4. Handles' = [Handles EXCEPT ![fd].offset = offset]
  BY <1>3, OffsetSet
<1> QED
  BY <1>2, <1>4

LEMMA ShortenedStep ==
  ASSUME Markers, IInv, Called, NEW fd \in Descriptors, Known(fd), NEW n \in Offsets, Shortened(fd, n)
  PROVE  Store!Next
<1>1. PICK name \in FileNames, eof \in 0 .. Blocks * BlockSize :
             /\ name = file_desc[fd].meta.name /\ eof = file_desc[fd].meta.eof
             /\ Len(stored[name]) = eof /\ Handles[fd] # Closed /\ Handles[fd].file = name
  BY KnownHandle
<1>2. /\ stored' = [stored EXCEPT ![name] = SubSeq(stored[name], 1, n)]
      /\ Handles' = [Handles EXCEPT ![fd].offset = n]
  <2>1. PICK s : s = SubSeq(stored[name], 1, n) /\ Changed(fd, s, n)
    BY <1>1 DEF Shortened
  <2>2. Changed(fd, s, n)
    BY ONLY <2>1
  <2>3. /\ stored' = [stored EXCEPT ![file_desc[fd].meta.name] = s]
        /\ Handles' = [Handles EXCEPT ![fd].offset = n]
    BY ONLY Markers, IInv, fd \in Descriptors, Known(fd), <2>2, ChangedStep
  <2> QED
    BY <1>1, <2>1, <2>3
<1>4. n \in Nat /\ n < eof
  BY <1>1, CallerAssumption DEF Shortened
<1>5. n \in 0 .. Blocks * BlockSize
  <2>1. PICK k \in Nat : k = Blocks * BlockSize
    BY BlocksNat
  <2> QED
    BY <1>1, <1>4, <2>1
<1>6. n < Len(stored[name])
  BY <1>1, <1>4
<1> QED
  BY <1>1, <1>2, <1>5, <1>6, StoreTruncate, StoreUse

LEMMA WrittenStep ==
  ASSUME Markers, IInv, Called, NEW fd \in Descriptors, Known(fd), NEW byte \in Bytes, Written(fd, byte)
  PROVE  Store!Next \/ UNCHANGED <<mode, stored, Handles>>
<1>1. PICK name \in FileNames, eof \in 0 .. Blocks * BlockSize : \E o \in 0 .. eof :
             /\ name = file_desc[fd].meta.name /\ o = file_desc[fd].offset
             /\ stored[name] \in Seq(Byte) /\ Len(stored[name]) = eof
             /\ Handles[fd] # Closed /\ Handles[fd].file = name /\ Handles[fd].offset = o
  BY KnownHandle
<1>2. PICK o \in 0 .. eof :
             /\ name = file_desc[fd].meta.name /\ o = file_desc[fd].offset
             /\ stored[name] \in Seq(Byte) /\ Len(stored[name]) = eof
             /\ Handles[fd] # Closed /\ Handles[fd].file = name /\ Handles[fd].offset = o
  BY <1>1
<1>3. PICK k \in 0 .. Blocks * BlockSize :
             Changed(fd, Store!Overlay(stored[file_desc[fd].meta.name], file_desc[fd].offset, k, byte),
                     file_desc[fd].offset + k)
  BY DEF Written
<1>4. PICK s : s = Store!Overlay(stored[name], o, k, byte)
  OBVIOUS
<1>5. Changed(fd, s, o + k)
  BY <1>2, <1>3, <1>4
<1>6. /\ stored' = [stored EXCEPT ![name] = s]
      /\ Handles' = [Handles EXCEPT ![fd].offset = o + k]
  BY <1>2, <1>5, ChangedStep
<1>7. CASE k = 0
  <2>1. PICK t : t = stored[name] /\ t \in Seq(Byte) /\ o \in Nat /\ o <= Len(t)
    BY <1>2
  <2>2. s = stored[name]
    BY <1>4, <1>7, <2>1, OverlayNothing
  <2>3. stored' = stored
    <3>1. stored = [m \in FileNames |-> stored[m]]
      BY StoredDomain DEF IInv, Foretold
    <3>2. PICK F : F = stored /\ F = [m \in FileNames |-> F[m]]
      BY <3>1
    <3>3. [F EXCEPT ![name] = F[name]] = F
      BY <3>2
    <3> QED
      BY <1>6, <2>2, <3>2, <3>3
  <2>4. Handles' = Handles
    <3>1. PICK x : x = [file |-> name, offset |-> o] /\ x = Handles[fd]
      <4>1. file_desc[fd] # Closed
        BY Zenon DEF Known
      <4> QED
        BY <1>2, <4>1, HandleNow DEF AsHandle
    <3>2. o + k = o
      BY <1>2, <1>7
    <3>3. [x EXCEPT !.offset = o] = x
      BY <3>1
    <3>4. PICK H : H = Handles /\ H = [h \in Descriptors |-> H[h]]
      BY DEF Handles
    <3>5. [H EXCEPT ![fd] = H[fd]] = H
      BY <3>4
    <3>6. Handles' = [H EXCEPT ![fd].offset = o]
      BY <1>6, <3>2, <3>4
    <3>7. [H[fd] EXCEPT !.offset = o] = H[fd]
      BY <3>1, <3>3, <3>4
    <3> QED
      BY ONLY <3>4, <3>5, <3>6, <3>7
  <2> QED
    BY <2>3, <2>4 DEF Called
<1>8. CASE k # 0
  <2>1. k \in 1 .. Blocks * BlockSize
    <3>1. PICK m \in Nat : m = Blocks * BlockSize
      BY BlocksNat
    <3>2. k \in 0 .. m
      BY <1>3, <3>1
    <3>3. k \in 1 .. m
      BY <1>8, <3>2
    <3> QED
      BY <3>1, <3>3
  <2>2. Store!Write(fd, k, byte)
    BY <1>2, <1>4, <1>6, StoreWrite
  <2> QED
    BY <2>1, <2>2, StoreUse
<1> QED
  BY <1>7, <1>8

(* Every step of the system is a step of FileStore, or changes nothing     *)
(* FileStore has.                                                          *)
LEMMA StepImplements ==
  ASSUME Usage, Markers, ~WriteByWrite, IInv, Next
  PROVE  Store!Next \/ UNCHANGED <<mode, stored, Handles>>
<1>1. Effect
  BY NextEffect
<1>2. CASE Kept
  BY <1>2, HandlesSame DEF Kept
<1>3. CASE Started \/ Stuck \/ Lost("down") \/ Lost("stray")
  BY <1>3, ProcessStep
<1>4. CASE Torn
  BY <1>4 DEF Torn, Exit
<1>5. ASSUME NEW name \in FileNames, Created(name) \/ Removed(name)
      PROVE  Store!Next
  BY <1>5, CreatedStep, RemovedStep
<1>6. ASSUME NEW fd \in Descriptors, NEW name \in FileNames, OpenedAt(fd, name)
      PROVE  Store!Next
  BY <1>6, OpenedStep
<1>8. ASSUME NEW fd \in Descriptors, Known(fd), Broken
      PROVE  Store!Next
  BY <1>8, KnownHandle, BrokenStep
<1>7. ASSUME NEW fd \in Descriptors, UsedAt(fd)
      PROVE  Store!Next \/ UNCHANGED <<mode, stored, Handles>>
  <2>1. Called /\ Known(fd) /\ Handles[fd] # Closed
    BY <1>7, KnownHandle DEF UsedAt
  <2> QED
    BY <1>7, <2>1, ClosedStep, MovedStep, ShortenedStep, WrittenStep DEF UsedAt
<1> QED
  BY <1>1, <1>2, <1>3, <1>4, <1>5, <1>6, <1>7, <1>8 DEF Effect

LEMMA StoreSame == UNCHANGED <<mode, stored, Handles>> => UNCHANGED Store!vars
BY DEF Store!vars, Handles

LEMMA InitImplements == Init => Store!Init
BY DEF Init, Store!Init

(* The system implements FileStore, where files are byte sequences and     *)
(* open files have offsets.  As long as the process is up, no table,       *)
(* buffer, metadata or counter shows: each call does to the files what its *)
(* counterpart does, and a restart between two calls loses the open files  *)
(* only.  The ways in which calls break the process down are steps of      *)
(* FileStore: what README.md promises of a full disk is not among what is  *)
(* kept (all calls of file_system).                                        *)
THEOREM Implementation ==
  ASSUME Usage, Markers, ~WriteByWrite
  PROVE  Spec => ImplementsStore
<1>1. IInv /\ [Next]_vars => [Store!Next]_(Store!vars)
  <2>1. CASE UNCHANGED vars
    <3>1. UNCHANGED <<mode, stored, Handles>>
      BY <2>1, HandlesSame DEF vars, memory
    <3> QED
      BY <3>1, StoreSame
  <2>2. ASSUME IInv, Next
        PROVE  Store!Next \/ UNCHANGED <<mode, stored, Handles>>
    BY <2>2, StepImplements
  <2> QED
    BY <2>1, <2>2, StoreSame
<1> QED
  BY <1>1, InitImplements, Invariance, PTL DEF Spec, ImplementsStore, Store!Spec
=============================================================================
