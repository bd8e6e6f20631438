------------------------- MODULE BlockUploader_proofs -------------------------
(***************************************************************************)
(* Proofs about BlockUploader, for devices, blocks and buffers of any      *)
(* size: what a backup saves is the volume, and what a restore leaves is   *)
(* what was saved.                                                         *)
(***************************************************************************)
EXTENDS BlockUploader, FiniteSetTheorems, SequenceTheorems, TLAPS

-----------------------------------------------------------------------------
(***************************************************************************)
(* Numbers.                                                                *)
(***************************************************************************)
Before == {q \in Nat \X Nat : q[1] < q[2]}

LEMMA BeforeWellFounded == IsWellFoundedOn(Before, Nat)
  <1>1. Before = OpToRel(<, Nat)
    BY DEF Before, OpToRel
  <1> QED
    BY <1>1, NatLessThanWellFounded

\* Every set of blocks that has one has a first one.
LEMMA LeastIsFirst ==
  ASSUME NEW S \in SUBSET Nat, S # {}
  PROVE  Least(S) \in S /\ \A j \in S : Least(S) <= j
  <1>1. PICK m \in S : \A n \in S : ~(<<n, m>> \in Before)
    BY BeforeWellFounded, WFMin, Zenon
  <1>2. ASSUME NEW n \in S PROVE m <= n
    <2>1. <<n, m>> \notin Before
      BY <1>1
    <2>2. m \in Nat /\ n \in Nat
      OBVIOUS
    <2> QED
      BY <2>1, <2>2 DEF Before
  <1> QED
    BY <1>2 DEF Least

\* Products with the size of a block keep the order.
LEMMA Times ==
  ASSUME NEW a \in Int, NEW b \in Int
  PROVE  /\ a * BlockSize \in Int
         /\ a < b <=> a * BlockSize < b * BlockSize
         /\ (a + 1) * BlockSize = a * BlockSize + BlockSize
         /\ 0 * BlockSize = 0
  BY BlockAssumption

LEMMA Division ==
  ASSUME NEW p \in Nat
  PROVE  /\ p \div BlockSize \in Nat
         /\ p % BlockSize \in 0 .. BlockSize - 1
         /\ p = (p \div BlockSize) * BlockSize + (p % BlockSize)
  BY BlockAssumption

LEMMA BlockAt ==
  ASSUME NEW p \in Nat, NEW i \in Nat
  PROVE  p \div BlockSize = i <=> i * BlockSize <= p /\ p < (i + 1) * BlockSize
  BY BlockAssumption, Division

LEMMA BlocksCounted ==
  ASSUME NEW n \in Nat
  PROVE  /\ BlocksIn(n) \in Nat
         /\ \A i \in Nat : i < BlocksIn(n) <=> i * BlockSize < n
  <1> DEFINE m == n + BlockSize - 1
             q == BlocksIn(n)
  <1>1. m \in Nat /\ q = m \div BlockSize
    BY BlockAssumption DEF BlocksIn
  <1>2. q \in Nat /\ q * BlockSize <= m /\ m < (q + 1) * BlockSize
    BY <1>1, Division, BlockAt
  <1>3. ASSUME NEW i \in Nat PROVE i < q <=> i * BlockSize < n
    <2>1. CASE i < q
      <3>1. i + 1 <= q
        BY <1>2, <2>1
      <3>2. (i + 1) * BlockSize <= q * BlockSize
        BY <1>2, <3>1, Times
      <3> HIDE DEF q
      <3> QED
        BY <1>2, <2>1, <3>2, Times, BlockAssumption
    <2>2. CASE q <= i
      <3>1. (q + 1) * BlockSize <= (i + 1) * BlockSize
        BY <1>2, <2>2, Times
      <3> HIDE DEF q
      <3> QED
        BY <1>2, <2>2, <3>1, Times, BlockAssumption
    <2> QED
      BY <1>2, <2>1, <2>2
  <1> QED
    BY <1>2, <1>3

LEMMA BlocksDivided ==
  ASSUME NEW n \in Nat
  PROVE  /\ n \div BlockSize <= BlocksIn(n)
         /\ n % BlockSize = 0 => n \div BlockSize = BlocksIn(n)
         /\ n % BlockSize # 0 => n \div BlockSize = BlocksIn(n) - 1
  <1> DEFINE d == n \div BlockSize
  <1>1. d \in Nat /\ n % BlockSize \in 0 .. BlockSize - 1 /\ n = d * BlockSize + (n % BlockSize)
    BY Division
  <1>2. ~(d * BlockSize < n) <=> n % BlockSize = 0
    <2>1. d * BlockSize \in Int
      BY <1>1, Times
    <2> HIDE DEF d
    <2> QED
      BY <1>1, <2>1, BlockAssumption
  <1>3. d < BlocksIn(n) <=> n % BlockSize # 0
    BY <1>1, <1>2, BlocksCounted
  <1>4. ~(d + 1 < BlocksIn(n))
    <2>1. n < (d + 1) * BlockSize
      BY <1>1, BlockAt
    <2>2. d + 1 \in Nat /\ (d + 1) * BlockSize \in Int
      BY <1>1, Times
    <2>3. d + 1 < BlocksIn(n) <=> (d + 1) * BlockSize < n
      BY <2>2, BlocksCounted
    <2> HIDE DEF d
    <2> QED
      BY <2>1, <2>2, <2>3
  <1>5. d > 0 => d - 1 < BlocksIn(n)
    <2>1. d > 0 => (d - 1) * BlockSize < n
      <3>1. (d - 1) * BlockSize < d * BlockSize
        BY <1>1, Times
      <3>2. d * BlockSize \in Int /\ (d - 1) * BlockSize \in Int
        BY <1>1, Times
      <3> HIDE DEF d
      <3> QED
        BY <1>1, <3>1, <3>2, BlockAssumption
    <2> QED
      BY <1>1, <2>1, BlocksCounted
  <1> QED
    BY <1>1, <1>3, <1>4, <1>5, BlocksCounted

LEMMA DivisionGrows ==
  ASSUME NEW p \in Nat, NEW q \in Nat, p <= q
  PROVE  p \div BlockSize <= q \div BlockSize
  <1> DEFINE a == p \div BlockSize
             b == q \div BlockSize
  <1>1. a \in Nat /\ b \in Nat
    BY Division
  <1>2. a * BlockSize <= p /\ q < (b + 1) * BlockSize
    BY <1>1, BlockAt
  <1>3. a < b + 1
    <2>1. a * BlockSize < (b + 1) * BlockSize
      <3>1. a * BlockSize \in Int /\ (b + 1) * BlockSize \in Int
        BY <1>1, Times
      <3> HIDE DEF a, b
      <3> QED
        BY <1>2, <3>1
    <2> HIDE DEF a, b
    <2> QED
      BY <1>1, <2>1, Times
  <1> QED
    BY <1>1, <1>3

LEMMA BlocksGrow ==
  ASSUME NEW m \in Nat, NEW n \in Nat, m <= n
  PROVE  BlocksIn(m) <= BlocksIn(n)
  <1>1. BlocksIn(m) \in Nat /\ BlocksIn(n) \in Nat
    BY BlocksCounted
  <1>2. SUFFICES ASSUME BlocksIn(n) < BlocksIn(m) PROVE FALSE
    BY <1>1
  <1>3. BlocksIn(n) * BlockSize < m
    BY <1>1, <1>2, BlocksCounted
  <1>4. ~(BlocksIn(n) * BlockSize < n)
    BY <1>1, BlocksCounted
  <1>5. BlocksIn(n) * BlockSize \in Int
    BY <1>1, Times
  <1> QED
    BY <1>3, <1>4, <1>5

-----------------------------------------------------------------------------
(***************************************************************************)
(* Devices and their blocks.                                               *)
(***************************************************************************)
BlockData == [1 .. BlockSize -> {0, 1}]

LEMMA DeviceSize ==
  ASSUME NEW dev, IsDevice(dev)
  PROVE  /\ Positions(dev) \in Nat
         /\ DOMAIN dev = 0 .. Positions(dev) - 1
         /\ \A p \in DOMAIN dev : dev[p] \in {0, 1} /\ p \in Nat /\ p < Positions(dev)
  <1>1. Positions(dev) \in Nat
    BY FS_CardinalityType DEF IsDevice, Positions
  <1> QED
    BY <1>1 DEF IsDevice

LEMMA BlocksAreData ==
  /\ Zero \in BlockData
  /\ Nothing \notin BlockData
  /\ \A b \in BlockData : b # Nothing
  <1>1. 1 \in 1 .. BlockSize
    BY BlockAssumption
  <1>2. \A b \in BlockData : 1 \in DOMAIN b
    BY <1>1 DEF BlockData
  <1>3. 1 \notin DOMAIN Nothing
    BY DEF Nothing
  <1> QED
    BY <1>2, <1>3 DEF BlockData, Zero

LEMMA BlockIsData ==
  ASSUME NEW dev, IsDevice(dev), NEW i \in Int
  PROVE  BlockOf(dev, i) \in BlockData
  BY DeviceSize DEF BlockOf, BlockData

\* A position of a device is a position of one of its blocks.
LEMMA BlockEntry ==
  ASSUME NEW dev, IsDevice(dev), NEW p \in DOMAIN dev
  PROVE  BlockOf(dev, p \div BlockSize)[(p % BlockSize) + 1] = dev[p]
  <1>1. p \in Nat
    BY DeviceSize
  <1>2. p % BlockSize \in 0 .. BlockSize - 1 /\ p = (p \div BlockSize) * BlockSize + (p % BlockSize)
    BY <1>1, Division
  <1>3. (p % BlockSize) + 1 \in 1 .. BlockSize
    BY <1>2, BlockAssumption
  <1>4. (p \div BlockSize) * BlockSize + ((p % BlockSize) + 1) - 1 = p
    <2>1. (p \div BlockSize) * BlockSize \in Int
      BY <1>1, Division, Times
    <2>2. p % BlockSize \in Int
      BY <1>2, BlockAssumption
    <2> QED
      BY <1>2, <2>1, <2>2
  <1> QED
    BY <1>3, <1>4 DEF BlockOf

LEMMA BlockPlace ==
  ASSUME NEW i \in Nat, NEW k \in 1 .. BlockSize
  PROVE  /\ i * BlockSize + k - 1 \in Nat
         /\ (i * BlockSize + k - 1) \div BlockSize = i
         /\ i * BlockSize + k - 1 < (i + 1) * BlockSize
  <1>1. i * BlockSize \in Nat /\ (i + 1) * BlockSize = i * BlockSize + BlockSize
    BY BlockAssumption, Times
  <1>2. i * BlockSize + k - 1 \in Nat /\ i * BlockSize <= i * BlockSize + k - 1
        /\ i * BlockSize + k - 1 < (i + 1) * BlockSize
    BY <1>1, BlockAssumption
  <1> QED
    BY <1>2, BlockAt

LEMMA ZeroBlock ==
  ASSUME NEW dev, IsDevice(dev), NEW i \in Nat,
         \A p \in DOMAIN dev : p \div BlockSize = i => dev[p] = 0
  PROVE  BlockOf(dev, i) = Zero
  BY BlockPlace DEF BlockOf, Zero

LEMMA SameBlock ==
  ASSUME NEW dev, IsDevice(dev), NEW old, IsDevice(old),
         NEW i \in Nat, i < Positions(dev) \div BlockSize,
         \A p \in DOMAIN dev : p \div BlockSize = i =>
             p \in DOMAIN old /\ old[p] = dev[p]
  PROVE  BlockOf(dev, i) = BlockOf(old, i)
  <1> DEFINE n == Positions(dev)
             d == n \div BlockSize
  <1>1. n \in Nat /\ d \in Nat
    BY DeviceSize, Division
  <1>2. (i + 1) * BlockSize <= n
    <2>1. i + 1 <= d
      BY <1>1
    <2>2. (i + 1) * BlockSize <= d * BlockSize
      BY <1>1, <2>1, Times
    <2>3. d * BlockSize <= n
      BY <1>1, BlockAt
    <2>4. (i + 1) * BlockSize \in Int /\ d * BlockSize \in Int
      BY <1>1, Times
    <2> HIDE DEF n, d
    <2> QED
      BY <1>1, <2>2, <2>3, <2>4
  <1>3. ASSUME NEW k \in 1 .. BlockSize
        PROVE  LET at == i * BlockSize + k - 1 IN
               at \in DOMAIN dev /\ at \in DOMAIN old /\ dev[at] = old[at]
    <2> DEFINE at == i * BlockSize + k - 1
    <2>1. at \in Nat /\ at \div BlockSize = i /\ at < (i + 1) * BlockSize
      BY BlockPlace
    <2>2. at < n
      <3>1. (i + 1) * BlockSize \in Int
        BY Times
      <3> HIDE DEF n, at
      <3> QED
        BY <1>1, <1>2, <2>1, <3>1
    <2>3. at \in DOMAIN dev
      BY <2>1, <2>2, <1>1, DeviceSize
    <2> QED
      BY <2>1, <2>3
  <1> QED
    BY <1>3 DEF BlockOf

-----------------------------------------------------------------------------
(***************************************************************************)
(* The bitmap.                                                             *)
(***************************************************************************)
LEMMA SetInside ==
  ASSUME NEW offset \in Nat, NEW length \in Nat, NEW size \in Nat
  PROVE  Set(offset, length, size) \subseteq 0 .. BlocksIn(size) - 1
  <1>1. CASE offset >= size
    BY <1>1 DEF Set
  <1>2. CASE offset < size
    <2> DEFINE len == Lesser(length, size - offset)
    <2>1. len \in Nat /\ offset + len <= size
      BY <1>2 DEF Lesser
    <2>2. BlocksIn(offset + len) <= BlocksIn(size)
      BY <2>1, BlocksGrow
    <2>3. offset \div BlockSize \in Nat /\ BlocksIn(offset + len) \in Nat /\ BlocksIn(size) \in Nat
      BY <2>1, Division, BlocksCounted
    <2>4. Set(offset, length, size) = (offset \div BlockSize) .. (BlocksIn(offset + len) - 1)
      BY <1>2 DEF Set
    <2> HIDE DEF len
    <2> QED
      BY <2>2, <2>3, <2>4
  <1> QED
    BY <1>1, <1>2

LEMMA SetCovers ==
  ASSUME NEW offset \in Nat, NEW length \in Nat, NEW size \in Nat,
         NEW p \in Nat, offset <= p, p < offset + length, p < size
  PROVE  p \div BlockSize \in Set(offset, length, size)
  <1> DEFINE len == Lesser(length, size - offset)
  <1>1. len \in Nat /\ p < offset + len
    BY DEF Lesser
  <1>2. offset \div BlockSize <= p \div BlockSize
    BY DivisionGrows
  <1>3. p \div BlockSize \in Nat /\ offset \div BlockSize \in Nat
    BY Division
  <1>4. (p \div BlockSize) * BlockSize <= p
    BY <1>3, BlockAt
  <1>5. (p \div BlockSize) * BlockSize < offset + len
    <2>1. (p \div BlockSize) * BlockSize \in Int
      BY <1>3, Times
    <2> HIDE DEF len
    <2> QED
      BY <1>1, <1>4, <2>1
  <1>6. p \div BlockSize < BlocksIn(offset + len) /\ BlocksIn(offset + len) \in Nat
    BY <1>1, <1>3, <1>5, BlocksCounted
  <1>7. Set(offset, length, size) = (offset \div BlockSize) .. (BlocksIn(offset + len) - 1)
    BY DEF Set
  <1> HIDE DEF len
  <1> QED
    BY <1>2, <1>3, <1>6, <1>7

Covers(blocks, positions, size) ==
    \A p \in positions : p < size => p \div BlockSize \in blocks

\* However the service reports the positions asked for, all of them are set.
LEMMA RangesCover ==
  ASSUME job \in Jobs, NEW size \in Nat,
         NEW positions, positions \subseteq DOMAIN job.device,
         NEW r \in Reports(positions)
  PROVE  /\ SetRanges(r, size) \subseteq 0 .. BlocksIn(size) - 1
         /\ Covers(SetRanges(r, size), positions, size)
  <1> DEFINE n == Positions(job.device)
             all == BlockSize * (1 + BlocksIn(n))
  <1>1. n \in Nat /\ \A p \in positions : p \in Nat /\ p < n
    BY JobsAssumption, DeviceSize
  <1>2. BlocksIn(n) \in Nat /\ all \in Nat /\ n <= all
    <2>1. BlocksIn(n) \in Nat /\ ~(BlocksIn(n) * BlockSize < n)
      BY <1>1, BlocksCounted
    <2>2. BlocksIn(n) * BlockSize \in Int /\ all = BlocksIn(n) * BlockSize + BlockSize
      BY <2>1, Times, BlockAssumption
    <2> HIDE DEF n, all
    <2> QED
      BY <1>1, <2>1, <2>2, BlockAssumption
  <1>3. CASE r = {<<p, 1>> : p \in positions}
    <2>1. ASSUME NEW p \in positions
          PROVE  Set(p, 1, size) \subseteq 0 .. BlocksIn(size) - 1
      BY <1>1, SetInside
    <2>2. ASSUME NEW p \in positions, p < size
          PROVE  p \div BlockSize \in Set(p, 1, size)
      BY <1>1, <2>2, SetCovers
    <2>3. SetRanges(r, size) = UNION {Set(p, 1, size) : p \in positions}
      <3>1. ASSUME NEW q \in r PROVE \E p \in positions : Set(q[1], q[2], size) = Set(p, 1, size)
        <4>1. PICK p \in positions : q = <<p, 1>>
          BY <1>3
        <4> QED
          BY <4>1
      <3>2. ASSUME NEW p \in positions PROVE \E q \in r : Set(q[1], q[2], size) = Set(p, 1, size)
        <4>1. <<p, 1>> \in r
          BY <1>3
        <4> QED
          BY <4>1
      <3> QED
        BY <3>1, <3>2 DEF SetRanges
    <2> QED
      BY <2>1, <2>2, <2>3 DEF Covers
  <1>4. CASE r = {<<0, all>>}
    <2>1. SetRanges(r, size) = Set(0, all, size)
      BY <1>4 DEF SetRanges
    <2>2. Set(0, all, size) \subseteq 0 .. BlocksIn(size) - 1
      BY <1>2, SetInside
    <2>3. ASSUME NEW p \in positions, p < size
          PROVE  p \div BlockSize \in Set(0, all, size)
      <3>1. p \in Nat /\ 0 <= p /\ p < 0 + all
        <4> HIDE DEF n, all
        <4> QED
          BY <1>1, <1>2
      <3> QED
        BY <1>2, <2>3, <3>1, SetCovers
    <2> QED
      BY <2>1, <2>2, <2>3 DEF Covers
  <1> QED
    BY <1>3, <1>4 DEF Reports

\* What a bitmap leaves out: nothing; or nothing that changed; or, where the
\* whole device is wanted, nothing that is allocated.
LEMMA BitmapCovers ==
  ASSUME job \in Jobs, NEW size \in Nat, NEW change \in BOOLEAN, NEW incOnly \in BOOLEAN,
         NEW changed, changed \subseteq DOMAIN job.device,
         NEW allocated, allocated \subseteq DOMAIN job.device,
         NEW bm \in SetBitmapOrFull(size, change, changed, allocated, incOnly)
  PROVE  /\ bm.blocks \subseteq 0 .. BlocksIn(size) - 1
         /\ bm.err \in BOOLEAN
         /\ \/ bm.blocks = SetFull(size)
            \/ change /\ ~bm.err /\ Covers(bm.blocks, changed, size)
            \/ ~incOnly /\ (change => bm.err) /\ Covers(bm.blocks, allocated, size)
  <1>1. SetFull(size) \subseteq 0 .. BlocksIn(size) - 1
    BY DEF SetFull
  <1>2. CASE bm = [blocks |-> SetFull(size), err |-> TRUE]
    BY <1>1, <1>2
  <1>3. CASE /\ change
             /\ \E r \in Reports(changed) : bm = [blocks |-> SetRanges(r, size), err |-> FALSE]
    BY <1>3, RangesCover
  <1>4. CASE ~(incOnly /\ ~change) /\ ~(change /\ incOnly)
             /\ \E r \in Reports(allocated) :
                  \E part \in {{}, SetRanges({<<p, 1>> : p \in changed}, size)} :
                     bm = [blocks |-> part \cup SetRanges(r, size), err |-> change]
    <2>1. PICK r \in Reports(allocated), part \in {{}, SetRanges({<<p, 1>> : p \in changed}, size)} :
               bm = [blocks |-> part \cup SetRanges(r, size), err |-> change]
      BY <1>4
    <2>2. part \subseteq 0 .. BlocksIn(size) - 1
      <3>1. {<<p, 1>> : p \in changed} \in Reports(changed)
        BY DEF Reports
      <3> QED
        BY <3>1, RangesCover
    <2>3. SetRanges(r, size) \subseteq 0 .. BlocksIn(size) - 1
          /\ Covers(SetRanges(r, size), allocated, size)
      BY RangesCover
    <2>4. Covers(bm.blocks, allocated, size)
      BY <2>1, <2>3 DEF Covers
    <2> QED
      BY <1>4, <2>1, <2>2, <2>3, <2>4
  <1>5. bm = [blocks |-> SetFull(size), err |-> TRUE]
        \/ (change /\ \E r \in Reports(changed) : bm = [blocks |-> SetRanges(r, size), err |-> FALSE])
        \/ (~(incOnly /\ ~change) /\ ~(change /\ incOnly)
             /\ \E r \in Reports(allocated) :
                  \E part \in {{}, SetRanges({<<p, 1>> : p \in changed}, size)} :
                     bm = [blocks |-> part \cup SetRanges(r, size), err |-> change])
    <2>1. CASE ~job.service \/ ~job.named \/ (incOnly /\ ~change)
      BY <2>1 DEF SetBitmapOrFull
    <2>2. CASE /\ ~(~job.service \/ ~job.named \/ (incOnly /\ ~change))
               /\ change /\ ~job.changedFails
      BY <2>2 DEF SetBitmapOrFull
    <2>3. CASE /\ ~(~job.service \/ ~job.named \/ (incOnly /\ ~change))
               /\ ~(change /\ ~job.changedFails)
               /\ (change /\ incOnly) \/ job.allocatedFails
      BY <2>3 DEF SetBitmapOrFull
    <2>4. CASE /\ ~(~job.service \/ ~job.named \/ (incOnly /\ ~change))
               /\ ~(change /\ ~job.changedFails)
               /\ ~((change /\ incOnly) \/ job.allocatedFails)
      <3> DEFINE fell == IF change /\ job.changedFails
                         THEN {{}, SetRanges({<<p, 1>> : p \in changed}, size)} ELSE {{}}
      <3>2. PICK part \in fell, r \in Reports(allocated) :
                bm = [blocks |-> part \cup SetRanges(r, size), err |-> change]
        BY <2>4 DEF SetBitmapOrFull
      <3>3. part \in {{}, SetRanges({<<p, 1>> : p \in changed}, size)}
        BY <3>2
      <3> QED
        BY <2>4, <3>2, <3>3
    <2> QED
      BY <2>1, <2>2, <2>3, <2>4
  <1> QED
    BY <1>2, <1>3, <1>4, <1>5

-----------------------------------------------------------------------------
(***************************************************************************)
(* The state.                                                              *)
(***************************************************************************)
LEMMA ObjectIsSeq ==
  ASSUME NEW dev, IsDevice(dev)
  PROVE  /\ BlocksIn(Positions(dev)) \in Nat
         /\ ObjectOf(dev) \in Seq(BlockData)
         /\ Len(ObjectOf(dev)) = BlocksIn(Positions(dev))
         /\ \A i \in 1 .. BlocksIn(Positions(dev)) : ObjectOf(dev)[i] = BlockOf(dev, i - 1)
  <1>1. BlocksIn(Positions(dev)) \in Nat
    BY DeviceSize, BlocksCounted
  <1>2. \A i \in 1 .. BlocksIn(Positions(dev)) : BlockOf(dev, i - 1) \in BlockData
    BY <1>1, BlockIsData
  <1> QED
    BY <1>1, <1>2 DEF ObjectOf

\* The blocks of a whole number of blocks.
LEMMA WholeBlocks ==
  ASSUME NEW n \in Nat
  PROVE  n * BlockSize \in Nat /\ BlocksIn(n * BlockSize) = n
  <1>1. n * BlockSize \in Nat
    BY BlockAssumption
  <1>2. BlocksIn(n * BlockSize) \in Nat
    BY <1>1, BlocksCounted
  <1>3. \A i \in Nat : i < BlocksIn(n * BlockSize) <=> i < n
    <2> SUFFICES ASSUME NEW i \in Nat PROVE i < BlocksIn(n * BlockSize) <=> i < n
      OBVIOUS
    <2>1. i < n <=> i * BlockSize < n * BlockSize
      BY Times
    <2> DEFINE m == n * BlockSize
    <2>2. m \in Nat
      BY <1>1
    <2> HIDE DEF m
    <2>3. i < BlocksIn(m) <=> i * BlockSize < m
      BY <2>2, BlocksCounted
    <2> QED
      BY <2>1, <2>3 DEF m
  <1>4. ~(BlocksIn(n * BlockSize) < n) /\ ~(n < BlocksIn(n * BlockSize))
    BY <1>2, <1>3
  <1> QED
    BY <1>1, <1>2, <1>4

\* A sequence with an element replaced.
LEMMA Replaced ==
  ASSUME NEW S, NEW s \in Seq(S), NEW n \in 1 .. Len(s), NEW x \in S
  PROVE  /\ [s EXCEPT ![n] = x] \in Seq(S)
         /\ Len([s EXCEPT ![n] = x]) = Len(s)
         /\ \A m \in 1 .. Len(s) : [s EXCEPT ![n] = x][m] = IF m = n THEN x ELSE s[m]
  <1> DEFINE t == [s EXCEPT ![n] = x]
  <1>1. Len(s) \in Nat /\ DOMAIN s = 1 .. Len(s) /\ \A m \in 1 .. Len(s) : s[m] \in S
    OBVIOUS
  <1>2. DOMAIN t = 1 .. Len(s) /\ \A m \in 1 .. Len(s) : t[m] = IF m = n THEN x ELSE s[m]
    BY <1>1
  <1>3. t \in [1 .. Len(s) -> S]
    BY <1>1
  <1>4. t \in Seq(S) /\ Len(t) = Len(s)
    <2> HIDE DEF t
    <2> QED
      BY <1>1, <1>2, <1>3
  <1> QED
    BY <1>2, <1>4

EntryData == BlockData \cup {<<"unset">>}

ResultType == [block : Nat, data : BlockData \cup {Nothing}]

Size == Positions(job.device)

\* How many blocks the source has.
Limit == IF job.kind = "backup" THEN BlocksIn(Size) ELSE Len(Snap.object)

Stages == {"parent", "bitmap", "open", "copy", "tail", "result", "save", "ended"}

RunType ==
    [pc : Stages, parent : [object : Seq(BlockData), from : Nat],
     blocks : SUBSET Nat, errors : BOOLEAN,
     result : {"none", "failed", "cancelled", "completed"}]

RunOK ==
    run \in RunType /\ IsFiniteSet(run.blocks) /\ \A b \in run.blocks : b < Limit

RdOK ==
    /\ rd \in [pc : {"idle", "take", "read", "left"}, todo : SUBSET Nat]
    /\ rd.todo \subseteq run.blocks
    /\ rd.pc = "read" => rd.todo # {}

ChanOK == chan \in [results : Seq(ResultType), closed : BOOLEAN]

WrType ==
    [pc : {"idle", "receive", "write", "left"}, count : Nat, last : Nat,
     zero : {<<>>} \cup (Nat \X Nat), result : {Nothing} \cup ResultType,
     err : {"none", "failed", "cancelled"}]

WrOK ==
    /\ wr \in WrType
    /\ wr.pc = "write" => wr.result \in ResultType /\ wr.result.data \in BlockData

ObjType ==
    [entries : Seq(EntryData), parent : Seq(BlockData),
     async : SUBSET (Nat \X BlockData), err : BOOLEAN]

ObjOK == obj \in ObjType /\ \A w \in obj.async : w[1] \in 1 .. Len(obj.entries)

Types == job \in Jobs /\ RunOK /\ RdOK /\ ChanOK /\ WrOK /\ ObjOK

LEMMA JobFacts ==
  ASSUME job \in Jobs
  PROVE  /\ job.kind \in {"backup", "restore"}
         /\ IsDevice(job.device) /\ Size \in Nat /\ BlocksIn(Size) \in Nat
         /\ DOMAIN job.device = 0 .. Size - 1
         /\ job.kind = "restore" =>
               IsDevice(Snap.device) /\ Snap.object = ObjectOf(Snap.device)
         /\ \A k \in DOMAIN job.snaps :
               /\ k \in Nat \ {0}
               /\ IsDevice(job.snaps[k].device)
               /\ job.snaps[k].object = ObjectOf(job.snaps[k].device)
         /\ Limit \in Nat
  <1>1. IsDevice(job.device) /\ Size \in Nat /\ BlocksIn(Size) \in Nat
        /\ DOMAIN job.device = 0 .. Size - 1
    BY JobsAssumption, DeviceSize, BlocksCounted DEF Size
  <1>2. job.kind = "restore" =>
            IsDevice(Snap.device) /\ Snap.object = ObjectOf(Snap.device)
    BY JobsAssumption DEF Snap
  <1>3. Limit \in Nat
    BY <1>1, <1>2, ObjectIsSeq, JobsAssumption DEF Limit
  <1> QED
    BY <1>1, <1>2, <1>3, JobsAssumption

LEMMA DataIsData ==
  ASSUME job \in Jobs, NEW i \in Nat, i < Limit
  PROVE  Data(i) \in BlockData
  <1>1. CASE job.kind = "backup"
    BY <1>1, JobFacts, BlockIsData DEF Data
  <1>2. CASE job.kind = "restore"
    BY <1>2, JobFacts, ObjectIsSeq DEF Data, Limit, Snap
  <1> QED
    BY <1>1, <1>2, JobFacts

\* What FillTo makes of the entries.
Filled(i, j) ==
    IF j <= Len(obj.entries) THEN obj.entries[j]
    ELSE IF j <= Len(obj.parent) THEN obj.parent[j] ELSE Zero

LEMMA FillToFills ==
  ASSUME Types, NEW i \in Nat
  PROVE  /\ FillTo(i) \in Seq(EntryData)
         /\ Len(obj.entries) <= i =>
               /\ Len(FillTo(i)) = i
               /\ \A j \in 1 .. i : FillTo(i)[j] = Filled(i, j)
  <1> DEFINE n == Len(obj.entries)
             m == Lesser(i, Len(obj.parent))
             more == SubSeq(obj.parent, n + 1, m)
             cloned == obj.entries \o more
             zeros == [j \in 1 .. (i - Len(cloned)) |-> Zero]
  <1>1. /\ obj.entries \in Seq(EntryData) /\ obj.parent \in Seq(EntryData)
        /\ Zero \in EntryData /\ n \in Nat /\ m \in Nat
        /\ m <= i /\ m <= Len(obj.parent) /\ (m = i \/ m = Len(obj.parent))
    BY BlocksAreData DEF Types, RunOK, RunType, RdOK, ChanOK, WrOK, WrType, ObjOK, ObjType, EntryData, Lesser
  <1>2. /\ more \in Seq(EntryData)
        /\ Len(more) = IF n + 1 <= m THEN m - n ELSE 0
        /\ \A j \in 1 .. m - n : more[j] = obj.parent[n + j]
    <2>1. \A j \in n + 1 .. m : obj.parent[j] \in EntryData
      BY <1>1
    <2> HIDE DEF n, m
    <2>2. /\ more \in Seq(EntryData)
          /\ Len(more) = IF n + 1 <= m THEN m - (n + 1) + 1 ELSE 0
          /\ \A j \in 1 .. m - (n + 1) + 1 : more[j] = obj.parent[(n + 1) + j - 1]
      BY <1>1, <2>1, SubSeqProperties
    <2> QED
      BY <1>1, <2>2
  <1>3. /\ cloned \in Seq(EntryData)
        /\ Len(cloned) = n + Len(more)
        /\ \A j \in 1 .. n + Len(more) :
               cloned[j] = IF j <= n THEN obj.entries[j] ELSE more[j - n]
    BY <1>1, <1>2, ConcatProperties
  <1>4. zeros \in Seq(EntryData)
        /\ (Len(cloned) <= i => Len(zeros) = i - Len(cloned))
    <2>1. Len(cloned) \in Nat
      BY <1>3
    <2> HIDE DEF cloned
    <2>2. CASE Len(cloned) <= i
      BY <1>1, <2>1, <2>2
    <2>3. CASE Len(cloned) > i
      <3>1. 1 .. (i - Len(cloned)) = 1 .. 0
        BY <2>1, <2>3
      <3> QED
        BY <1>1, <2>1, <2>3, <3>1
    <2> QED
      BY <2>1, <2>2, <2>3
  <1>5. /\ FillTo(i) = cloned \o zeros
        /\ cloned \o zeros \in Seq(EntryData)
        /\ Len(cloned \o zeros) = Len(cloned) + Len(zeros)
        /\ \A j \in 1 .. Len(cloned) + Len(zeros) :
               (cloned \o zeros)[j] = IF j <= Len(cloned) THEN cloned[j]
                                      ELSE zeros[j - Len(cloned)]
    <2>1. FillTo(i) = cloned \o zeros
      BY DEF FillTo
    <2>2. cloned \in Seq(EntryData) /\ zeros \in Seq(EntryData)
      BY <1>3, <1>4
    <2> HIDE DEF cloned, zeros
    <2>3. /\ cloned \o zeros \in Seq(EntryData)
          /\ Len(cloned \o zeros) = Len(cloned) + Len(zeros)
          /\ \A j \in 1 .. Len(cloned) + Len(zeros) :
                 (cloned \o zeros)[j] = IF j <= Len(cloned) THEN cloned[j]
                                        ELSE zeros[j - Len(cloned)]
      BY <2>2, ConcatProperties
    <2> QED
      BY <2>1, <2>3
  <1>6. ASSUME n <= i PROVE Len(FillTo(i)) = i /\ \A j \in 1 .. i : FillTo(i)[j] = Filled(i, j)
    <2>1. Len(more) \in Nat /\ Len(cloned) = n + Len(more) /\ Len(cloned) <= i
      <3> HIDE DEF n, m, cloned, more
      <3> QED
        BY <1>1, <1>2, <1>3, <1>6
    <2>2. Len(FillTo(i)) = i
      <3> HIDE DEF cloned, zeros
      <3> QED
        BY <2>1, <1>1, <1>4, <1>5
    <2>3. ASSUME NEW j \in 1 .. i PROVE FillTo(i)[j] = Filled(i, j)
      <3>1. CASE j <= n
        <4> HIDE DEF cloned, zeros, more
        <4> QED
          BY <2>1, <2>2, <1>1, <1>3, <1>4, <1>5, <3>1 DEF Filled
      <3>2. CASE n < j /\ j <= m
        <4>1. j - n \in 1 .. m - n /\ Len(more) = m - n
          <5> HIDE DEF n, m, more
          <5> QED
            BY <1>1, <1>2, <3>2
        <4>2. FillTo(i)[j] = cloned[j]
          <5> HIDE DEF cloned, zeros, more, n, m
          <5> QED
            BY <2>1, <2>2, <1>1, <1>4, <1>5, <3>2, <4>1
        <4>3. cloned[j] = more[j - n]
          <5> HIDE DEF cloned, zeros, more, n, m
          <5> QED
            BY <2>1, <1>1, <1>3, <3>2, <4>1
        <4>4. more[j - n] = obj.parent[j]
          <5> HIDE DEF cloned, zeros, more, n, m
          <5> QED
            BY <1>1, <1>2, <4>1
        <4> QED
          BY <3>2, <4>2, <4>3, <4>4, <1>1 DEF Filled
      <3>3. CASE n < j /\ m < j
        <4>1. m = Len(obj.parent) /\ Len(cloned) < j
          <5> HIDE DEF n, m, cloned, more
          <5> QED
            BY <1>1, <1>2, <2>1, <2>3, <3>3
        <4>2. FillTo(i)[j] = zeros[j - Len(cloned)]
          <5> HIDE DEF n, m, cloned, more, zeros
          <5>1. Len(cloned) + Len(zeros) = i /\ Len(cloned) \in Nat /\ ~(j <= Len(cloned))
            BY <2>1, <1>1, <1>4, <4>1
          <5>2. j \in 1 .. Len(cloned) + Len(zeros)
            BY <5>1
          <5>3. (cloned \o zeros)[j] = zeros[j - Len(cloned)]
            BY <1>5, <5>1, <5>2
          <5> QED
            BY <1>5, <5>3
        <4>3. j - Len(cloned) \in 1 .. (i - Len(cloned))
          <5> HIDE DEF n, m, cloned, more, zeros
          <5> QED
            BY <2>1, <1>1, <4>1
        <4>4. zeros[j - Len(cloned)] = Zero
          BY <4>3
        <4>5. ~(j <= Len(obj.entries)) /\ ~(j <= Len(obj.parent))
          BY <1>1, <3>3, <4>1
        <4> QED
          BY <4>2, <4>4, <4>5 DEF Filled
      <3> QED
        BY <1>1, <3>1, <3>2, <3>3
    <2> QED
      BY <2>2, <2>3
  <1> QED
    BY <1>5, <1>6

LEMMA JobStays ==
  ASSUME UNCHANGED job
  PROVE  /\ Limit' = Limit /\ Size' = Size /\ (job.kind)' = job.kind /\ Snap' = Snap
         /\ SourceSize' = SourceSize
         /\ \A i : Data(i)' = Data(i)
  BY DEF Limit, Size, Snap, SourceSize, Data

LEMMA InitTypes == BlockInit => Types
  <1> SUFFICES ASSUME BlockInit PROVE Types
    OBVIOUS
  <1>1. job.kind \in {"backup", "restore"}
    BY JobsAssumption DEF BlockInit
  <1> QED
    BY <1>1, FS_EmptySet DEF BlockInit, Types, RunOK, RunType, RdOK, ChanOK, WrOK, WrType, ObjOK, ObjType, FullBackup, Nothing, Stages, ResultType

LEMMA FullBlocks ==
  ASSUME NEW n \in Nat
  PROVE  SetFull(n) \subseteq 0 .. BlocksIn(n) - 1
  BY DEF SetFull

\* What the two bitmaps set are blocks of the source.
LEMMA BackupBlocks ==
  ASSUME job \in Jobs, NEW from \in {0} \cup DOMAIN job.snaps,
         NEW bm \in SetBitmapOrFull(
                    Positions(job.device), from # 0,
                    IF from = 0 THEN {}
                    ELSE Differences(job.device, job.snaps[from].device),
                    Allocated(job.device), FALSE)
  PROVE  /\ bm.blocks \subseteq 0 .. BlocksIn(Size) - 1
         /\ bm.err \in BOOLEAN
         /\ \/ bm.blocks = SetFull(Size)
            \/ /\ from # 0 /\ ~bm.err
               /\ Covers(bm.blocks, Differences(job.device, job.snaps[from].device), Size)
            \/ (from # 0 => bm.err) /\ Covers(bm.blocks, Allocated(job.device), Size)
  <1> DEFINE changed == IF from = 0 THEN {}
                        ELSE Differences(job.device, job.snaps[from].device)
             change == from # 0
  <1>1. Size \in Nat
    BY JobFacts
  <1>2. changed \subseteq DOMAIN job.device
    BY DEF Differences
  <1>3. Allocated(job.device) \subseteq DOMAIN job.device
    BY DEF Allocated
  <1>4. change \in BOOLEAN /\ FALSE \in BOOLEAN
    OBVIOUS
  <1>5. bm \in SetBitmapOrFull(Size, change, changed, Allocated(job.device), FALSE)
    BY DEF Size
  <1> HIDE DEF changed, change
  <1>6. /\ bm.blocks \subseteq 0 .. BlocksIn(Size) - 1
        /\ bm.err \in BOOLEAN
        /\ \/ bm.blocks = SetFull(Size)
           \/ change /\ ~bm.err /\ Covers(bm.blocks, changed, Size)
           \/ ~FALSE /\ (change => bm.err) /\ Covers(bm.blocks, Allocated(job.device), Size)
    BY <1>1, <1>2, <1>3, <1>4, <1>5, BitmapCovers
  <1> QED
    BY <1>6 DEF changed, change

LEMMA RestoreBlocks ==
  ASSUME job \in Jobs, job.kind = "restore",
         NEW bm \in IF ~job.incremental
                    THEN {[blocks |-> SetFull(Len(Snap.object) * BlockSize), err |-> FALSE]}
                    ELSE SetBitmapOrFull(
                           Len(Snap.object) * BlockSize,
                           OfThisVolume(Snap),
                           Differences(job.device, Snap.device), {}, TRUE)
  PROVE  /\ bm.blocks \subseteq 0 .. Len(Snap.object) - 1
         /\ bm.err \in BOOLEAN
         /\ \/ bm.blocks = 0 .. Len(Snap.object) - 1
            \/ Covers(bm.blocks, Differences(job.device, Snap.device),
                      Len(Snap.object) * BlockSize)
  <1> DEFINE size == Len(Snap.object) * BlockSize
             changed == Differences(job.device, Snap.device)
             change == OfThisVolume(Snap)
  <1>1. Len(Snap.object) \in Nat
    BY JobFacts, ObjectIsSeq
  <1>2. size \in Nat /\ BlocksIn(size) = Len(Snap.object)
    BY <1>1, WholeBlocks
  <1>3. SetFull(size) = 0 .. Len(Snap.object) - 1
    BY <1>2 DEF SetFull
  <1>4. CASE ~job.incremental
    <2>1. bm \in {[blocks |-> SetFull(size), err |-> FALSE]}
      BY <1>4
    <2>2. bm = [blocks |-> SetFull(size), err |-> FALSE]
      BY <2>1
    <2> HIDE DEF size
    <2> QED
      BY <1>3, <2>2
  <1>5. CASE job.incremental
    <2>1. changed \subseteq DOMAIN job.device /\ {} \subseteq DOMAIN job.device
      BY DEF Differences
    <2>2. PICK c \in BOOLEAN : c = change
      BY DEF OfThisVolume
    <2>3. bm \in SetBitmapOrFull(size, change, changed, {}, TRUE)
      BY <1>5
    <2>4. bm \in SetBitmapOrFull(size, c, changed, {}, TRUE) /\ TRUE \in BOOLEAN
      BY <2>2, <2>3
    <2> HIDE DEF changed, change, size
    <2>5. /\ bm.blocks \subseteq 0 .. BlocksIn(size) - 1
          /\ bm.err \in BOOLEAN
          /\ \/ bm.blocks = SetFull(size)
             \/ c /\ ~bm.err /\ Covers(bm.blocks, changed, size)
             \/ ~TRUE /\ (c => bm.err) /\ Covers(bm.blocks, {}, size)
      BY <1>2, <2>1, <2>4, BitmapCovers
    <2>6. bm.blocks = SetFull(size) \/ Covers(bm.blocks, changed, size)
      BY <2>5
    <2> QED
      BY <1>2, <1>3, <2>5, <2>6 DEF changed, size
  <1> QED
    BY <1>4, <1>5

LEMMA Bounded ==
  ASSUME NEW n \in Nat, NEW S, S \subseteq 0 .. n - 1
  PROVE  IsFiniteSet(S) /\ S \in SUBSET Nat /\ \A b \in S : b < n
  <1>1. IsFiniteSet(0 .. n - 1)
    BY FS_Interval
  <1>2. S \in SUBSET (0 .. n - 1)
    OBVIOUS
  <1>3. IsFiniteSet(S)
    BY <1>1, <1>2, FS_Subset, Zenon
  <1> QED
    BY <1>3

LEMMA ReceivedTypes ==
  ASSUME Types, chan.results # <<>>
  PROVE  Head(chan.results) \in ResultType /\ Tail(chan.results) \in Seq(ResultType)
  BY HeadTailProperties DEF Types, RunOK, RunType, RdOK, ChanOK, WrOK, WrType, ObjOK, ObjType

LEMMA SentTypes ==
  ASSUME Types, NEW r \in ResultType
  PROVE  Append(chan.results, r) \in Seq(ResultType)
  BY AppendProperties DEF Types, RunOK, RunType, RdOK, ChanOK, WrOK, WrType, ObjOK, ObjType

LEMMA WrittenTypes ==
  ASSUME Types, NEW i \in Nat, Len(obj.entries) <= i, NEW data \in BlockData
  PROVE  /\ WriteAt(<<>>, i) =>
                obj' = [obj EXCEPT !.entries = FillTo(i)]
         /\ WriteAt(data, i) =>
                obj' = [obj EXCEPT !.entries = Append(FillTo(i), <<"unset">>),
                                   !.async = @ \cup {<<i + 1, data>>}]
         /\ FillTo(i) \in Seq(EntryData) /\ Len(FillTo(i)) = i
         /\ Append(FillTo(i), <<"unset">>) \in Seq(EntryData)
         /\ Len(Append(FillTo(i), <<"unset">>)) = i + 1
  <1>1. FillTo(i) \in Seq(EntryData) /\ Len(FillTo(i)) = i
    BY FillToFills
  <1>2. <<"unset">> \in EntryData
    BY DEF EntryData
  <1>3. data # <<>>
    BY BlocksAreData DEF Nothing
  <1> HIDE DEF EntryData
  <1> QED
    BY <1>1, <1>2, <1>3, AppendProperties DEF WriteAt

-----------------------------------------------------------------------------
(***************************************************************************)
(* The copying.                                                            *)
(***************************************************************************)

\* What a backup leaves out of its bitmap is in the parent object, or zero;
\* but for a last block that the volume fills in part only.
BackupCovered(parent) ==
    \A i \in Nat : i < Size \div BlockSize /\ i \notin run.blocks =>
        BlockOf(job.device, i) = IF i + 1 <= Len(parent) THEN parent[i + 1] ELSE Zero

\* What position p of the device is to become.
Target(p) ==
    IF p < SourceSize THEN Snap.object[(p \div BlockSize) + 1][(p % BlockSize) + 1]
    ELSE job.device[p]

\* What a restore leaves out of its bitmap is on the device already.
RestoreCovered ==
    \A p \in DOMAIN job.device :
        p < SourceSize /\ p \div BlockSize \notin run.blocks => job.device[p] = Target(p)

\* The blocks between the reader and the writer are in order, and none that
\* is not written is missing.
Errored == \E n \in DOMAIN chan.results : chan.results[n].data = Nothing

QueueInv ==
    /\ \A n \in DOMAIN chan.results :
           /\ chan.results[n].block \in run.blocks
           /\ wr.last <= chan.results[n].block
           /\ wr.pc = "write" => wr.result.block < chan.results[n].block
           /\ chan.results[n].data # Nothing =>
                  /\ chan.results[n].data = Data(chan.results[n].block)
                  /\ \A t \in rd.todo : chan.results[n].block < t
           /\ chan.results[n].data = Nothing => n = Len(chan.results) /\ rd.pc = "left"
           /\ \A m \in DOMAIN chan.results :
                  m < n => chan.results[m].block < chan.results[n].block
    /\ \A t \in rd.todo :
           wr.last <= t /\ (wr.pc = "write" => wr.result.block < t)
    /\ wr.pc = "write" =>
           /\ wr.last <= wr.result.block /\ wr.result.block \in run.blocks
           /\ wr.result.data = Data(wr.result.block)
    /\ \A b \in run.blocks :
           \/ b < wr.last
           \/ b \in rd.todo
           \/ \E n \in DOMAIN chan.results : chan.results[n].block = b
           \/ wr.pc = "write" /\ wr.result.block = b

\* ... which the writer knows by their number.
CountInv ==
    ~Errored =>
        wr.count + Cardinality(rd.todo) + Len(chan.results)
            + (IF wr.pc = "write" THEN 1 ELSE 0) = Cardinality(run.blocks)

AllWritten == \A b \in run.blocks : b < wr.last

\* The first n entries of the object: written, or being written, or an error
\* is known.
ObjInv(n) ==
    /\ Len(obj.entries) = n /\ n <= Limit
    /\ \A w \in obj.async : w[2] = BlockOf(job.device, w[1] - 1)
    /\ ~obj.err => \A j \in 1 .. n :
           \/ \E w \in obj.async : w[1] = j
           \/ obj.entries[j] = BlockOf(job.device, j - 1)

InZero(p) == wr.zero # <<>> /\ wr.zero[1] <= p /\ p < wr.zero[2]

\* A position of the device is as it is to be, or its block has not been
\* written, or it is among the zeros put off.
DestInv ==
    /\ DOMAIN dest = DOMAIN job.device
    /\ wr.zero # <<>> => wr.zero[1] <= wr.zero[2]
    /\ \A p \in DOMAIN dest : InZero(p) => p < SourceSize /\ Target(p) = 0
    /\ \A p \in DOMAIN dest :
           \/ dest[p] = Target(p)
           \/ p < SourceSize /\ InZero(p)
           \/ /\ p < SourceSize
              /\ p \div BlockSize \in run.blocks /\ wr.last <= p \div BlockSize

DestDone == \A p \in DOMAIN dest : dest[p] = Target(p)

Going ==
    IF job.kind = "backup"
    THEN BackupCovered(obj.parent) /\ ObjInv(wr.last) /\ wr.zero = <<>>
    ELSE RestoreCovered /\ DestInv

Gone ==
    IF job.kind = "backup"
    THEN BackupCovered(obj.parent) /\ ObjInv(wr.last) /\ AllWritten
    ELSE DestDone

Early == run.pc \in {"parent", "bitmap", "open"}

Stage ==
    /\ run.pc \in {"parent", "tail", "result", "save"} => job.kind = "backup"
    /\ run.pc = "parent" => run.parent = FullBackup
    /\ run.pc = "bitmap" /\ job.kind = "backup" =>
           \/ run.parent = FullBackup
           \/ /\ run.parent.from \in DOMAIN job.snaps
              /\ run.parent.object = job.snaps[run.parent.from].object
    /\ Early =>
           /\ rd.pc = "idle"
           /\ wr = [pc |-> "idle", count |-> 0, last |-> 0, zero |-> <<>>,
                    result |-> Nothing, err |-> "none"]
           /\ chan = [results |-> <<>>, closed |-> FALSE]
           /\ obj = [entries |-> <<>>, parent |-> Nothing, async |-> {}, err |-> FALSE]
           /\ job.kind = "restore" => dest = job.device
    /\ run.pc = "open" =>
           /\ rd.todo = run.blocks
           /\ IF job.kind = "backup" THEN BackupCovered(run.parent.object)
              ELSE RestoreCovered
    /\ run.pc # "copy" => rd.pc \in {"idle", "left"} /\ wr.pc \in {"idle", "left"}
    /\ run.pc = "copy" =>
           /\ rd.pc # "idle" /\ wr.pc # "idle" /\ (chan.closed => rd.pc = "left")
           /\ wr.pc # "left" => wr.err = "none" /\ QueueInv /\ CountInv /\ Going
           /\ wr.pc = "left" /\ wr.err = "none" => Gone
    /\ run.pc = "tail" => Gone /\ wr.last < Limit
    /\ run.pc = "result" => ObjInv(Limit)
    /\ run.pc = "save" => obj.async = {} /\ obj.entries = ObjectOf(job.device)
    /\ saved # Nothing => saved[1].object = ObjectOf(job.device)
    /\ run.result = "completed" =>
           run.pc = "ended" /\ (job.kind = "restore" => DestDone)

LEMMA InitStage == BlockInit => Stage
  BY JobsAssumption DEF BlockInit, Stage, Early, Nothing, FullBackup
\* A part of the state keeps its type when its variables stay.
LEMMA Kept ==
  ASSUME Types, UNCHANGED job
  PROVE  /\ job' \in Jobs /\ Limit' = Limit
         /\ run' \in RunType /\ run'.blocks = run.blocks => RunOK'
         /\ run'.blocks = run.blocks /\ rd' = rd => RdOK'
         /\ run' = run => RunOK' /\ (rd' = rd => RdOK')
         /\ chan' = chan => ChanOK'
         /\ wr' = wr => WrOK'
         /\ obj' = obj => ObjOK'
  <1>1. job' \in Jobs /\ Limit' = Limit /\ RunOK /\ RdOK /\ ChanOK /\ WrOK /\ ObjOK
    BY JobStays DEF Types
  <1>2. run' \in RunType /\ run'.blocks = run.blocks => RunOK'
    BY <1>1 DEF RunOK
  <1>3. run'.blocks = run.blocks /\ rd' = rd => RdOK'
    BY <1>1 DEF RdOK
  <1>4. run' = run => RunOK'
    BY <1>1 DEF RunOK
  <1>5. run' = run /\ rd' = rd => RdOK'
    BY <1>1 DEF RdOK
  <1>6. chan' = chan => ChanOK'
    BY <1>1 DEF ChanOK
  <1>7. wr' = wr => WrOK'
    BY <1>1 DEF WrOK
  <1>8. obj' = obj => ObjOK'
    BY <1>1 DEF ObjOK
  <1> QED
    BY <1>1, <1>2, <1>3, <1>4, <1>5, <1>6, <1>7, <1>8

\* The steps of the goroutine that runs the job.
LEMMA RunMoves ==
  ASSUME Types
  PROVE  /\ Fail(run) \in RunType /\ Fail(run).blocks = run.blocks
         /\ \A s \in Stages : [run EXCEPT !.pc = s] \in RunType
                              /\ [run EXCEPT !.pc = s].blocks = run.blocks
         /\ Start(run) \in RunType /\ Start(run).blocks = run.blocks
         /\ \A e \in {"failed", "cancelled", "completed"} :
                /\ [run EXCEPT !.pc = "ended", !.result = e] \in RunType
                /\ [run EXCEPT !.pc = "ended", !.result = e].blocks = run.blocks
  <1>1. run \in RunType
    BY DEF Types, RunOK
  <1> HIDE DEF Types
  <1> QED
    BY <1>1 DEF RunType, Fail, Start, Stages

LEMMA WriterLeft ==
  ASSUME Types, NEW e \in {"none", "failed", "cancelled"}, WriterLeaves(e)
  PROVE  WrOK'
  <1>1. WrOK
    BY DEF Types
  <1> HIDE DEF Types
  <1> QED
    BY <1>1 DEF WrOK, WrType, WriterLeaves

LEMMA WriterWrote ==
  ASSUME Types, wr.pc = "write",
         \/ wr' = Written(wr)
         \/ \E z \in {<<>>} \cup (Nat \X Nat) : wr' = [Written(wr) EXCEPT !.zero = z]
  PROVE  WrOK'
  <1>1. wr \in WrType /\ wr.result.block + 1 \in Nat /\ wr.count + 1 \in Nat
    BY DEF Types, WrOK, WrType, ResultType
  <1> DEFINE b == wr.result.block + 1
             c == wr.count + 1
             w == [wr EXCEPT !.pc = "receive", !.count = c, !.last = b]
  <1>2. Written(wr) = w
    BY DEF Written
  <1> HIDE DEF Types, b, c
  <1>3. w \in WrType /\ w.pc = "receive"
    BY <1>1 DEF WrType, b, c
  <1>4. ASSUME NEW z \in {<<>>} \cup (Nat \X Nat)
        PROVE  [w EXCEPT !.zero = z] \in WrType /\ [w EXCEPT !.zero = z].pc = "receive"
    <2> HIDE DEF w
    <2> QED
      BY <1>3 DEF WrType
  <1> HIDE DEF w
  <1>5. wr' \in WrType /\ wr'.pc = "receive"
    BY <1>2, <1>3, <1>4
  <1> QED
    BY <1>5 DEF WrOK

LEMMA RdMoves ==
  ASSUME Types
  PROVE  /\ rd.todo \in SUBSET run.blocks
         /\ \A s \in {"idle", "take", "read", "left"} :
               run'.blocks = run.blocks /\ rd' = [rd EXCEPT !.pc = s]
                   /\ (s = "read" => rd.todo # {}) => RdOK'
         /\ \A t \in SUBSET rd.todo :
               run'.blocks = run.blocks /\ rd' = [pc |-> "take", todo |-> t] => RdOK'
  <1>1. RdOK
    BY DEF Types
  <1> HIDE DEF Types
  <1> QED
    BY <1>1 DEF RdOK

\* The bitmap is set.
LEMMA BlocksSet ==
  ASSUME Types, UNCHANGED <<job, chan, wr, obj>>, NEW n \in Nat, Limit = n,
         NEW blocks, blocks \subseteq 0 .. n - 1, rd.pc = "idle",
         run' \in RunType, run'.blocks = blocks,
         rd' = [rd EXCEPT !.todo = blocks]
  PROVE  Types'
  <1>1. IsFiniteSet(blocks) /\ blocks \in SUBSET Nat /\ \A b \in blocks : b < n
    BY Bounded
  <1>2. Limit' = n /\ job' \in Jobs /\ ChanOK' /\ WrOK' /\ ObjOK'
    BY Kept
  <1>3. RunOK'
    BY <1>1, <1>2 DEF RunOK
  <1>4. RdOK
    BY DEF Types
  <1>5. RdOK'
    BY <1>1, <1>4 DEF RdOK
  <1> QED
    BY <1>2, <1>3, <1>5 DEF Types

\* A block has been written: the object is extended, and written to.
LEMMA ObjWritten ==
  ASSUME Types, NEW i \in Nat, Len(obj.entries) <= i, NEW data \in BlockData \cup {<<>>},
         WriteAt(data, i)
  PROVE  ObjOK'
  <1>1. ObjOK /\ Len(obj.entries) \in Nat
    BY DEF Types, ObjOK, ObjType
  <1>2. CASE data \in BlockData
    <2>1. /\ obj' = [obj EXCEPT !.entries = Append(FillTo(i), <<"unset">>),
                                !.async = @ \cup {<<i + 1, data>>}]
          /\ Append(FillTo(i), <<"unset">>) \in Seq(EntryData)
          /\ Len(Append(FillTo(i), <<"unset">>)) = i + 1
      BY <1>2, WrittenTypes
    <2>2. <<i + 1, data>> \in Nat \X BlockData
      BY <1>2
    <2> DEFINE es == Append(FillTo(i), <<"unset">>)
    <2> HIDE DEF es, Types, BlockData, EntryData
    <2>3. obj' \in ObjType
      BY <1>1, <2>1, <2>2 DEF ObjOK, ObjType
    <2>4. \A w \in obj'.async : w[1] \in 1 .. i + 1
      BY <1>1, <2>1, <2>2 DEF ObjOK, ObjType
    <2>5. Len(obj'.entries) = i + 1
      BY <1>1, <2>1 DEF ObjOK, ObjType
    <2> QED
      BY <2>3, <2>4, <2>5 DEF ObjOK
  <1>3. CASE data = <<>>
    <2>1. obj' = [obj EXCEPT !.entries = FillTo(i)]
      BY <1>3 DEF WriteAt
    <2>2. FillTo(i) \in Seq(EntryData) /\ Len(FillTo(i)) = i
      BY FillToFills
    <2> DEFINE es == FillTo(i)
    <2> HIDE DEF es, Types, BlockData, EntryData
    <2>3. obj' \in ObjType
      BY <1>1, <2>1, <2>2 DEF ObjOK, ObjType
    <2>4. \A w \in obj'.async : w[1] \in 1 .. i
      BY <1>1, <2>1 DEF ObjOK, ObjType
    <2>5. Len(obj'.entries) = i
      BY <1>1, <2>1, <2>2 DEF ObjOK, ObjType
    <2> QED
      BY <2>3, <2>4, <2>5 DEF ObjOK
  <1> QED
    BY <1>2, <1>3
\* The size of the volume that a restore restores, and of the object.
LEMMA SourceIsNat ==
  ASSUME job \in Jobs, job.kind = "restore"
  PROVE  /\ SourceSize \in Nat /\ Len(Snap.object) \in Nat
         /\ Len(Snap.object) = BlocksIn(Positions(Snap.device))
         /\ Positions(Snap.device) \in Nat
         /\ Positions(Snap.device) <= Len(Snap.object) * BlockSize
         /\ SourceSize <= Len(Snap.object) * BlockSize
         /\ Positions(Snap.device) <= SourceSize
  <1> DEFINE n == Positions(Snap.device)
             m == BlocksIn(n)
  <1>1. IsDevice(Snap.device) /\ Snap.object = ObjectOf(Snap.device)
    BY JobFacts
  <1>2. n \in Nat /\ m \in Nat /\ Len(Snap.object) = m
    BY <1>1, DeviceSize, ObjectIsSeq
  <1>3. m * BlockSize \in Nat
    BY <1>2, WholeBlocks
  <1>4. n <= m * BlockSize
    <2>1. ~(m < BlocksIn(n))
      BY <1>2
    <2>2. m < BlocksIn(n) <=> m * BlockSize < n
      BY <1>2, BlocksCounted
    <2> HIDE DEF n, m
    <2> QED
      BY <1>2, <1>3, <2>1, <2>2 DEF m
  <1>5. SourceSize = n \/ SourceSize = m * BlockSize
    BY <1>2 DEF SourceSize
  <1> QED
    BY <1>2, <1>3, <1>4, <1>5

LEMMA NextTypes == Types /\ Stage /\ [BlockNext]_blockVars => Types'
  <1> SUFFICES ASSUME Types, Stage, [BlockNext]_blockVars PROVE Types'
    OBVIOUS
  <1>0. job \in Jobs /\ RunOK /\ RdOK /\ ChanOK /\ WrOK /\ ObjOK /\ run \in RunType
    BY DEF Types, RunOK
  <1> HIDE DEF Types
  <1>1. CASE UNCHANGED blockVars
    <2>1. UNCHANGED <<job, run, rd, chan, wr, obj>>
      BY <1>1 DEF blockVars
    <2> QED
      BY <2>1, Kept DEF Types
  <1>2. CASE GetParentBackupInfo
    <2>1. UNCHANGED <<job, rd, chan, wr, obj>>
      BY <1>2 DEF GetParentBackupInfo
    <2>2. Parent \in DOMAIN job.snaps =>
             Parent \in Nat /\ job.snaps[Parent].object \in Seq(BlockData)
      BY <1>0, JobFacts, ObjectIsSeq
    <2>3. \/ run' = [run EXCEPT !.pc = "bitmap"]
          \/ run' = [run EXCEPT !.pc = "bitmap", !.errors = TRUE]
          \/ /\ Parent \in DOMAIN job.snaps
             /\ run' = [run EXCEPT !.pc = "bitmap",
                                   !.parent = [object |-> job.snaps[Parent].object,
                                               from |-> Parent]]
      BY <1>2 DEF GetParentBackupInfo
    <2>4. run' \in RunType /\ run'.blocks = run.blocks
      <3>1. CASE run' = [run EXCEPT !.pc = "bitmap"]
        BY <3>1, RunMoves DEF Stages
      <3>2. CASE run' = [run EXCEPT !.pc = "bitmap", !.errors = TRUE]
        BY <1>0, <3>2 DEF RunType, Stages
      <3>3. CASE /\ Parent \in DOMAIN job.snaps
                 /\ run' = [run EXCEPT !.pc = "bitmap",
                                       !.parent = [object |-> job.snaps[Parent].object,
                                                   from |-> Parent]]
        <4> DEFINE o == job.snaps[Parent].object
                   k == Parent
        <4>1. k \in Nat /\ o \in Seq(BlockData)
              /\ run' = [run EXCEPT !.pc = "bitmap", !.parent = [object |-> o, from |-> k]]
          BY <2>2, <3>3
        <4> HIDE DEF o, k
        <4> QED
          BY <1>0, <4>1 DEF RunType, Stages
      <3> QED
        BY <2>3, <3>1, <3>2, <3>3
    <2> QED
      BY <2>1, <2>4, Kept DEF Types
  <1>3. CASE BackupBitmap
    <2>1. UNCHANGED <<job, chan, wr, obj>> /\ job.kind = "backup"
      BY <1>3 DEF BackupBitmap
    <2>2. run.parent.from \in {0} \cup DOMAIN job.snaps
      BY <1>3 DEF BackupBitmap, Stage, FullBackup
    <2>3. PICK bm \in SetBitmapOrFull(
                    Positions(job.device), run.parent.from # 0,
                    IF run.parent.from = 0 THEN {}
                    ELSE Differences(job.device,
                                     job.snaps[run.parent.from].device),
                    Allocated(job.device), FALSE) :
              /\ run' = [run EXCEPT !.pc = "open", !.blocks = bm.blocks,
                                    !.errors = @ \/ bm.err,
                                    !.parent.object = IF bm.err THEN Nothing ELSE @]
              /\ rd' = [rd EXCEPT !.todo = bm.blocks]
      BY <1>3 DEF BackupBitmap
    <2>4. bm.blocks \subseteq 0 .. BlocksIn(Size) - 1 /\ bm.err \in BOOLEAN
      BY <1>0, <2>2, BackupBlocks
    <2>5. BlocksIn(Size) \in Nat /\ Limit = BlocksIn(Size)
      BY <1>0, <2>1, JobFacts DEF Limit
    <2>6. rd.pc = "idle"
      BY <1>3 DEF BackupBitmap, Stage, Early
    <2>7. bm.blocks \in SUBSET Nat
      BY <2>4, <2>5, Bounded
    <2>8. run' \in RunType /\ run'.blocks = bm.blocks
      <3> DEFINE e == run.errors \/ bm.err
                 o == IF bm.err THEN Nothing ELSE run.parent.object
      <3>1. e \in BOOLEAN
        BY <1>0, <2>4 DEF RunType
      <3>2. o \in Seq(BlockData)
        BY <1>0 DEF RunType, Nothing
      <3>3. run' = [run EXCEPT !.pc = "open", !.blocks = bm.blocks, !.errors = e,
                               !.parent.object = o]
        BY <1>0, <2>3 DEF RunType
      <3> HIDE DEF e, o
      <3> QED
        BY <1>0, <2>7, <3>1, <3>2, <3>3 DEF RunType, Stages
    <2> QED
      BY <2>1, <2>3, <2>4, <2>5, <2>6, <2>8, BlocksSet
  <1>4. CASE RestoreBitmap
    <2>1. UNCHANGED <<job, chan, wr, obj>> /\ job.kind = "restore"
      BY <1>4 DEF RestoreBitmap
    <2>3. PICK bm \in IF ~job.incremental
                    THEN {[blocks |-> SetFull(Len(Snap.object) * BlockSize), err |-> FALSE]}
                    ELSE SetBitmapOrFull(
                           Len(Snap.object) * BlockSize,
                           OfThisVolume(Snap),
                           Differences(job.device, Snap.device), {}, TRUE) :
              /\ run' = [run EXCEPT !.pc = "open", !.blocks = bm.blocks,
                                    !.errors = @ \/ bm.err]
              /\ rd' = [rd EXCEPT !.todo = bm.blocks]
      BY <1>4 DEF RestoreBitmap
    <2>4. bm.blocks \subseteq 0 .. Len(Snap.object) - 1 /\ bm.err \in BOOLEAN
      BY <1>0, <2>1, RestoreBlocks
    <2>5. Len(Snap.object) \in Nat /\ Limit = Len(Snap.object)
      BY <1>0, <2>1, JobFacts, ObjectIsSeq DEF Limit
    <2>6. rd.pc = "idle"
      BY <1>4 DEF RestoreBitmap, Stage, Early
    <2>7. bm.blocks \in SUBSET Nat
      BY <2>4, <2>5, Bounded
    <2>8. run' \in RunType /\ run'.blocks = bm.blocks
      BY <1>0, <2>3, <2>4, <2>7 DEF RunType, Stages
    <2> QED
      BY <2>1, <2>3, <2>4, <2>5, <2>6, <2>8, BlocksSet
  <1>5. CASE NewObjectWriter
    <2>1. UNCHANGED <<job, chan>>
      BY <1>5 DEF NewObjectWriter
    <2>2. CASE /\ run' = Start(run)
               /\ obj' = [obj EXCEPT !.parent = run.parent.object]
               /\ rd' = [rd EXCEPT !.pc = "take"]
               /\ wr' = [wr EXCEPT !.pc = "receive"]
      <3>1. run' \in RunType /\ run'.blocks = run.blocks
        BY <2>2, RunMoves
      <3>2. RdOK'
        BY <2>2, <3>1, RdMoves
      <3>3. WrOK'
        BY <1>0, <2>2 DEF WrOK, WrType
      <3>4. ObjOK'
        BY <1>0, <2>2 DEF ObjOK, ObjType, RunType
      <3> QED
        BY <2>1, <3>1, <3>2, <3>3, <3>4, Kept DEF Types
    <2>3. CASE run' = Fail(run) /\ UNCHANGED <<obj, rd, wr>>
      BY <2>1, <2>3, RunMoves, Kept DEF Types
    <2> QED
      BY <1>5, <2>2, <2>3 DEF NewObjectWriter
  <1>6. CASE TakeBuffer
    <2>1. UNCHANGED <<job, run, wr, obj>>
      BY <1>6 DEF TakeBuffer
    <2>2. \/ rd' = [rd EXCEPT !.pc = "left"] /\ chan' = [chan EXCEPT !.closed = TRUE]
          \/ rd.todo # {} /\ rd' = [rd EXCEPT !.pc = "read"] /\ UNCHANGED chan
      BY <1>6 DEF TakeBuffer, ReaderLeaves
    <2>3. RdOK'
      BY <2>1, <2>2, RdMoves
    <2>4. ChanOK'
      BY <1>0, <2>2 DEF ChanOK
    <2> QED
      BY <2>1, <2>3, <2>4, Kept DEF Types
  <1>7. CASE ReadBlock
    <2> DEFINE i == Least(rd.todo)
    <2>1. UNCHANGED <<job, run, wr, obj>>
      BY <1>7 DEF ReadBlock
    <2>2. rd.pc = "read" /\ i \in rd.todo /\ i \in Nat /\ i < Limit
      BY <1>0, <1>7, LeastIsFirst DEF ReadBlock, RdOK, RunOK
    <2>3. Data(i) \in BlockData
      BY <1>0, <2>2, DataIsData
    <2>4. /\ [block |-> i, data |-> Data(i)] \in ResultType
          /\ [block |-> i, data |-> Nothing] \in ResultType
      BY <2>2, <2>3 DEF ResultType
    <2>5. /\ Append(chan.results, [block |-> i, data |-> Data(i)]) \in Seq(ResultType)
          /\ Append(chan.results, [block |-> i, data |-> Nothing]) \in Seq(ResultType)
      BY <2>4, SentTypes
    <2> HIDE DEF i
    <2>6. CASE /\ Send([block |-> i, data |-> Data(i)])
               /\ rd' = [pc |-> "take", todo |-> rd.todo \ {i}]
      <3>1. ChanOK'
        BY <1>0, <2>5, <2>6 DEF ChanOK, Send
      <3>2. RdOK'
        BY <2>1, <2>6, RdMoves
      <3> QED
        BY <2>1, <3>1, <3>2, Kept DEF Types
    <2>7. CASE /\ chan' = [results |-> Append(chan.results, [block |-> i, data |-> Nothing]),
                           closed |-> TRUE]
               /\ rd' = [rd EXCEPT !.pc = "left"]
      <3>1. ChanOK'
        BY <2>5, <2>7 DEF ChanOK
      <3>2. RdOK'
        BY <2>1, <2>7, RdMoves
      <3> QED
        BY <2>1, <3>1, <3>2, Kept DEF Types
    <2> QED
      BY <1>7, <2>6, <2>7 DEF ReadBlock, i
  <1>8. CASE WriterCancelled
    <2>1. UNCHANGED <<job, run, rd, chan, obj>> /\ WriterLeaves("cancelled")
      BY <1>8 DEF WriterCancelled
    <2> QED
      BY <2>1, WriterLeft, Kept DEF Types
  <1>9. CASE Drained
    <2>1. UNCHANGED <<job, run, rd, chan, obj>>
      BY <1>9 DEF Drained
    <2>2. \E e \in {"none", "failed", "cancelled"} : WriterLeaves(e)
      BY <1>9 DEF Drained
    <2> QED
      BY <2>1, <2>2, WriterLeft, Kept DEF Types
  <1>10. CASE Receive
    <2>1. UNCHANGED <<job, run, rd, obj>>
          /\ chan.results # <<>> /\ chan' = [chan EXCEPT !.results = Tail(@)]
      BY <1>10 DEF Receive
    <2>2. Head(chan.results) \in ResultType /\ Tail(chan.results) \in Seq(ResultType)
      BY <2>1, ReceivedTypes
    <2>3. ChanOK'
      BY <1>0, <2>1, <2>2 DEF ChanOK
    <2>4. CASE Head(chan.results).data = Nothing
      <3>1. WriterLeaves("failed")
        BY <1>10, <2>4 DEF Receive
      <3> QED
        BY <2>1, <2>3, <3>1, WriterLeft, Kept DEF Types
    <2>5. CASE Head(chan.results).data # Nothing
      <3>1. wr' = [wr EXCEPT !.pc = "write", !.result = Head(chan.results)]
        BY <1>10, <2>5 DEF Receive
      <3>2. Head(chan.results).data \in BlockData
        BY <2>2, <2>5 DEF ResultType
      <3>3. WrOK'
        BY <1>0, <2>2, <3>1, <3>2 DEF WrOK, WrType
      <3> QED
        BY <2>1, <2>3, <3>3, Kept DEF Types
    <2> QED
      BY <2>4, <2>5
  <1>11. CASE BackupWrite
    <2>1. UNCHANGED <<job, run, rd, chan>> /\ wr.pc = "write" /\ job.kind = "backup"
      BY <1>11 DEF BackupWrite
    <2> DEFINE i == wr.result.block
               data == wr.result.data
    <2>2. i \in Nat /\ data \in BlockData
      BY <1>0, <2>1 DEF WrOK, ResultType
    <2>3. CASE WriterLeaves("failed") /\ UNCHANGED obj
      BY <2>1, <2>3, WriterLeft, Kept DEF Types
    <2>4. CASE WriteAt(data, i) /\ wr' = Written(wr)
      <3>1. run.pc = "copy"
        BY <2>1 DEF Stage
      <3>2. Len(obj.entries) <= i
        BY <2>1, <3>1 DEF Stage, Going, ObjInv, QueueInv
      <3>3. ObjOK'
        BY <2>2, <2>4, <3>2, ObjWritten
      <3>4. WrOK'
        BY <2>1, <2>2, <2>4, WriterWrote DEF Types
      <3> QED
        BY <2>1, <3>3, <3>4, Kept DEF Types
    <2> QED
      BY <1>11, <2>3, <2>4 DEF BackupWrite
  <1>12. ASSUME NEW w \in obj.async, WriteObject(w) PROVE Types'
    <2>1. UNCHANGED <<job, run, rd, chan, wr>>
      BY <1>12 DEF WriteObject
    <2>2. w[1] \in 1 .. Len(obj.entries) /\ w[2] \in EntryData /\ obj.entries \in Seq(EntryData)
      BY <1>0 DEF ObjOK, ObjType, EntryData
    <2>3. /\ [obj.entries EXCEPT ![w[1]] = w[2]] \in Seq(EntryData)
          /\ Len([obj.entries EXCEPT ![w[1]] = w[2]]) = Len(obj.entries)
      BY <2>2, Replaced
    <2>4. CASE obj' = [obj EXCEPT !.entries[w[1]] = w[2], !.async = @ \ {w}]
      <3> DEFINE es == [obj.entries EXCEPT ![w[1]] = w[2]]
      <3>1. obj' = [obj EXCEPT !.entries = es, !.async = @ \ {w}]
        BY <2>4
      <3> HIDE DEF es
      <3>2. ObjOK'
        BY <1>0, <2>3, <3>1 DEF ObjOK, ObjType, es
      <3> QED
        BY <2>1, <3>2, Kept DEF Types
    <2>5. CASE obj' = [obj EXCEPT !.err = TRUE, !.async = @ \ {w}]
      <3>1. ObjOK'
        BY <1>0, <2>5 DEF ObjOK, ObjType
      <3> QED
        BY <2>1, <3>1, Kept DEF Types
    <2> QED
      BY <1>12, <2>4, <2>5 DEF WriteObject
  <1>13. CASE CopyEnds
    <2>1. UNCHANGED <<job, rd, chan, wr, obj>>
      BY <1>13 DEF CopyEnds
    <2>2. wr.err \in {"none", "failed", "cancelled"}
      BY <1>0 DEF WrOK, WrType
    <2>3. \/ \E e \in {"failed", "cancelled", "completed"} :
                run' = [run EXCEPT !.pc = "ended", !.result = e]
          \/ run' = [run EXCEPT !.pc = "tail"]
          \/ run' = [run EXCEPT !.pc = "result"]
      BY <1>13, <2>2 DEF CopyEnds
    <2>4. run' \in RunType /\ run'.blocks = run.blocks
      BY <2>3, RunMoves DEF Stages
    <2> QED
      BY <2>1, <2>4, Kept DEF Types
  <1>14. CASE CopyTailData
    <2>1. UNCHANGED <<job, rd, chan, wr>> /\ run.pc = "tail"
          /\ run' \in {Fail(run), [run EXCEPT !.pc = "result"]}
      BY <1>14 DEF CopyTailData
    <2>2. run' \in RunType /\ run'.blocks = run.blocks
      BY <2>1, RunMoves DEF Stages
    <2> DEFINE last == Size \div BlockSize
    <2>3. /\ last \in Nat /\ BlockOf(job.device, last) \in BlockData
          /\ last >= BlocksIn(Size) - 1 /\ BlocksIn(Size) \in Nat
      <3>1. Size \in Nat /\ BlocksIn(Size) \in Nat /\ IsDevice(job.device)
        BY <1>0, JobFacts
      <3>2. last \in Nat
        BY <3>1, Division
      <3>3. BlockOf(job.device, last) \in BlockData
        BY <3>1, <3>2, BlockIsData
      <3>4. last >= BlocksIn(Size) - 1
        BY <3>1, BlocksDivided
      <3> QED
        BY <3>1, <3>2, <3>3, <3>4
    <2>4. Len(obj.entries) <= last
      <3>1. Len(obj.entries) < BlocksIn(Size) /\ Len(obj.entries) \in Nat
        BY <1>0, <2>1 DEF Stage, Gone, ObjInv, Limit, ObjOK, ObjType
      <3> HIDE DEF last
      <3> QED
        BY <2>3, <3>1
    <2>5. \/ UNCHANGED obj
          \/ \E data \in BlockData \cup {<<>>} : WriteAt(data, last)
      BY <1>14, <2>3 DEF CopyTailData, Size
    <2> HIDE DEF last
    <2>6. ObjOK'
      BY <1>0, <2>1, <2>3, <2>4, <2>5, ObjWritten, Kept
    <2> QED
      BY <2>1, <2>2, <2>6, Kept DEF Types
  <1>15. CASE Result
    <2>1. UNCHANGED <<job, rd, chan, wr, obj>>
          /\ run' \in {Fail(run), [run EXCEPT !.pc = "save"]}
      BY <1>15 DEF Result
    <2> QED
      BY <2>1, RunMoves, Kept DEF Types, Stages
  <1>16. CASE SaveSnapshot
    <2>1. UNCHANGED <<job, rd, chan, wr, obj>>
          /\ run' \in {Fail(run), [run EXCEPT !.pc = "ended", !.result = "completed"]}
      BY <1>16 DEF SaveSnapshot
    <2> QED
      BY <2>1, RunMoves, Kept DEF Types
  <1>17. CASE OpenObject
    <2>1. UNCHANGED <<job, chan, obj>>
      BY <1>17 DEF OpenObject
    <2>2. CASE /\ run' = Start(run)
               /\ rd' = [rd EXCEPT !.pc = "take"]
               /\ wr' = [wr EXCEPT !.pc = "receive"]
      <3>1. run' \in RunType /\ run'.blocks = run.blocks
        BY <2>2, RunMoves
      <3>2. RdOK'
        BY <2>2, <3>1, RdMoves
      <3>3. WrOK'
        BY <1>0, <2>2 DEF WrOK, WrType
      <3> QED
        BY <2>1, <3>1, <3>2, <3>3, Kept DEF Types
    <2>3. CASE run' = Fail(run) /\ UNCHANGED <<rd, wr>>
      BY <2>1, <2>3, RunMoves, Kept DEF Types
    <2> QED
      BY <1>17, <2>2, <2>3 DEF OpenObject
  <1>18. CASE RestoreWrite
    <2>1. UNCHANGED <<job, run, rd, chan, obj>> /\ wr.pc = "write" /\ job.kind = "restore"
      BY <1>18 DEF RestoreWrite
    <2>2. wr.result.block \in Nat
      BY <1>0, <2>1 DEF WrOK, ResultType
    <2>3. \/ WriterLeaves("failed")
          \/ wr' = [Written(wr) EXCEPT !.zero = Extended(wr.zero, wr.result.block)]
          \/ wr' = [Written(wr) EXCEPT !.zero = <<>>]
      BY <1>18 DEF RestoreWrite
    <2>4. Extended(wr.zero, wr.result.block) \in Nat \X Nat
      <3>1. SourceSize \in Nat
        BY <1>0, <2>1, SourceIsNat
      <3>2. wr.result.block * BlockSize \in Nat /\ (wr.result.block + 1) * BlockSize \in Nat
        BY <2>2, WholeBlocks
      <3>3. wr.zero \in {<<>>} \cup (Nat \X Nat)
        BY <1>0 DEF WrOK, WrType
      <3> QED
        BY <3>1, <3>2, <3>3 DEF Extended, Lesser
    <2>5. CASE WriterLeaves("failed")
      BY <2>1, <2>5, WriterLeft, Kept DEF Types
    <2>6. CASE wr' = [Written(wr) EXCEPT !.zero = Extended(wr.zero, wr.result.block)]
      <3> DEFINE z == Extended(wr.zero, wr.result.block)
      <3>1. z \in Nat \X Nat
        BY <2>4
      <3>2. WrOK'
        BY <2>1, <2>6, <3>1, WriterWrote
      <3> QED
        BY <2>1, <3>2, Kept DEF Types
    <2>7. CASE wr' = [Written(wr) EXCEPT !.zero = <<>>]
      <3>1. WrOK'
        BY <2>1, <2>7, WriterWrote
      <3> QED
        BY <2>1, <3>1, Kept DEF Types
    <2> QED
      BY <2>3, <2>5, <2>6, <2>7
  <1>19. CASE FlushZeroBlocks
    <2>1. UNCHANGED <<job, run, rd, chan, obj>>
      BY <1>19 DEF FlushZeroBlocks
    <2>2. \E e \in {"none", "failed", "cancelled"} : WriterLeaves(e)
      BY <1>19 DEF FlushZeroBlocks
    <2> QED
      BY <2>1, <2>2, WriterLeft, Kept DEF Types
  <1>20. CASE PrefetchStep \/ Cancel
    <2>1. UNCHANGED <<job, run, rd, chan, wr, obj>>
      BY <1>20 DEF PrefetchStep, Cancel
    <2> QED
      BY <2>1, Kept DEF Types
  <1> QED
    BY <1>1, <1>2, <1>3, <1>4, <1>5, <1>6, <1>7, <1>8, <1>9, <1>10, <1>11, <1>12, <1>13,
       <1>14, <1>15, <1>16, <1>17, <1>18, <1>19, <1>20
    DEF BlockNext, BlockStep

\* The steps of the copying change neither the job nor how far it is.
LEMMA CopyStage ==
  ASSUME Stage, run.pc = "copy", UNCHANGED <<job, run, saved>>,
         rd'.pc # "idle", wr'.pc # "idle", chan'.closed => rd'.pc = "left",
         wr'.pc # "left" => wr'.err = "none" /\ QueueInv' /\ CountInv' /\ Going',
         wr'.pc = "left" /\ wr'.err = "none" => Gone'
  PROVE  Stage'
  BY DEF Stage, Early

\* Where the copying is, seen from the reader and the writer.
LEMMA Copying ==
  ASSUME Types, Stage, rd.pc \in {"take", "read"} \/ wr.pc \in {"receive", "write"}
  PROVE  /\ run.pc = "copy" /\ rd.pc # "idle" /\ wr.pc # "idle"
         /\ chan.closed => rd.pc = "left"
         /\ wr.pc # "left" => wr.err = "none" /\ QueueInv /\ CountInv /\ Going
         /\ wr.pc = "left" /\ wr.err = "none" => Gone
  BY DEF Stage

LEMMA CoversStay ==
  ASSUME UNCHANGED job, run'.blocks = run.blocks, NEW parent
  PROVE  /\ BackupCovered(parent) => BackupCovered(parent)'
         /\ RestoreCovered => RestoreCovered'
  BY JobStays DEF BackupCovered, RestoreCovered, Target

LEMMA GoingStays ==
  ASSUME UNCHANGED <<job, obj, dest>>, run'.blocks = run.blocks,
         wr'.last = wr.last, wr'.zero = wr.zero
  PROVE  Going => Going'
  BY JobStays, CoversStay
  DEF Going, BackupCovered, RestoreCovered, ObjInv, DestInv, InZero, Target

LEMMA GoneStays ==
  ASSUME UNCHANGED <<job, obj, dest>>, run'.blocks = run.blocks, wr'.last = wr.last
  PROVE  Gone => Gone'
  BY JobStays, CoversStay
  DEF Gone, BackupCovered, ObjInv, AllWritten, DestDone, Target

LEMMA StageStays ==
  ASSUME UNCHANGED <<job, run, rd, chan, wr, obj, saved, dest>>
  PROVE  Stage => Stage'
  <1> SUFFICES ASSUME Stage PROVE Stage'
    OBVIOUS
  <1>1. Going => Going'
    BY GoingStays
  <1>2. Gone => Gone'
    BY GoneStays
  <1>3. QueueInv => QueueInv'
    BY JobStays DEF QueueInv
  <1>4. CountInv => CountInv'
    BY DEF CountInv, Errored
  <1>5. ObjInv(Limit) => ObjInv(Limit)'
    BY JobStays DEF ObjInv
  <1>6. BackupCovered(run.parent.object) => BackupCovered(run.parent.object)'
    BY JobStays DEF BackupCovered
  <1>7. RestoreCovered => RestoreCovered'
    BY CoversStay
  <1>8. DestDone => DestDone'
    BY JobStays DEF DestDone, Target
  <1>9. Limit' = Limit
    BY JobStays
  <1> QED
    BY <1>1, <1>2, <1>3, <1>4, <1>5, <1>6, <1>7, <1>8, <1>9 DEF Stage, Early

\* The writer gives up.
LEMMA WriterFails ==
  ASSUME Types, Stage, run.pc = "copy", UNCHANGED <<job, run, saved>>,
         rd' = rd, chan'.closed = chan.closed,
         WriterLeaves("failed") \/ WriterLeaves("cancelled")
  PROVE  Stage'
  <1>1. wr'.pc = "left" /\ wr'.err # "none"
    BY DEF WriterLeaves, Types, WrOK, WrType
  <1>2. rd.pc # "idle" /\ (chan.closed => rd.pc = "left")
    BY DEF Stage
  <1> QED
    BY <1>1, <1>2, CopyStage

LEMMA TakeBufferStage ==
  ASSUME Types, Stage, TakeBuffer
  PROVE  Stage'
  <1>1. rd.pc = "take" /\ UNCHANGED <<job, run, wr, obj, saved, dest>>
    BY DEF TakeBuffer
  <1>2. \/ rd' = [rd EXCEPT !.pc = "left"] /\ chan' = [chan EXCEPT !.closed = TRUE]
        \/ rd' = [rd EXCEPT !.pc = "read"] /\ UNCHANGED chan
    BY DEF TakeBuffer, ReaderLeaves
  <1>3. rd'.todo = rd.todo /\ chan'.results = chan.results /\ rd'.pc # "idle"
        /\ (chan'.closed => chan.closed \/ rd'.pc = "left")
    BY <1>2 DEF Types, RdOK, ChanOK
  <1>4. run.pc = "copy" /\ wr.pc # "idle" /\ ~chan.closed
    BY <1>1, Copying DEF Types, ChanOK
  <1>5. wr.pc # "left" => QueueInv'
    BY <1>1, <1>3, Copying, JobStays DEF QueueInv
  <1>6. wr.pc # "left" => CountInv'
    BY <1>1, <1>3, Copying DEF CountInv, Errored
  <1>7. (Going => Going') /\ (Gone => Gone')
    BY <1>1, GoingStays, GoneStays
  <1> QED
    BY <1>1, <1>3, <1>4, <1>5, <1>6, <1>7, Copying, CopyStage

\* One more block between the reader and the writer.
LEMMA Sent ==
  ASSUME NEW q \in Seq(ResultType), NEW r \in ResultType
  PROVE  /\ Append(q, r) \in Seq(ResultType) /\ Len(Append(q, r)) = Len(q) + 1
         /\ DOMAIN Append(q, r) = 1 .. Len(q) + 1
         /\ DOMAIN q = 1 .. Len(q) /\ Len(q) \in Nat
         /\ \A n \in 1 .. Len(q) : Append(q, r)[n] = q[n]
         /\ Append(q, r)[Len(q) + 1] = r
  BY AppendProperties

\* The blocks on their way are counted.
LEMMA CountKept ==
  ASSUME Types, CountInv, ~Errored, run'.blocks = run.blocks,
         \/ /\ wr'.count = wr.count /\ wr'.pc = wr.pc
            /\ Cardinality(rd'.todo) = Cardinality(rd.todo) - 1
            /\ Len(chan'.results) = Len(chan.results) + 1
         \/ /\ wr'.count = wr.count /\ wr.pc = "receive" /\ wr'.pc = "write"
            /\ rd'.todo = rd.todo
            /\ Len(chan'.results) = Len(chan.results) - 1
         \/ /\ wr'.count = wr.count + 1 /\ wr.pc = "write" /\ wr'.pc = "receive"
            /\ rd'.todo = rd.todo /\ chan'.results = chan.results
  PROVE  CountInv'
  <1>1. rd.todo \in SUBSET run.blocks /\ IsFiniteSet(run.blocks)
        /\ wr.count \in Nat /\ Len(chan.results) \in Nat
    BY DEF Types, RdOK, RunOK, WrOK, WrType, ChanOK
  <1>2. Cardinality(rd.todo) \in Nat
    <2>1. IsFiniteSet(rd.todo)
      BY <1>1, FS_Subset, Zenon
    <2> QED
      BY <2>1, FS_CardinalityType
  <1> HIDE DEF Types
  <1> DEFINE c == Cardinality(rd.todo)
             d == Cardinality(run.blocks)
             k == IF wr.pc = "write" THEN 1 ELSE 0
             kk == IF wr'.pc = "write" THEN 1 ELSE 0
  <1>3. wr.count + c + Len(chan.results) + k = d
    BY DEF CountInv
  <1>4. c \in Nat
    BY <1>2
  <1>5. \/ kk = k /\ wr'.count = wr.count /\ Cardinality(rd'.todo) = c - 1
           /\ Len(chan'.results) = Len(chan.results) + 1
        \/ k = 0 /\ kk = 1 /\ wr'.count = wr.count /\ Cardinality(rd'.todo) = c
           /\ Len(chan'.results) = Len(chan.results) - 1
        \/ k = 1 /\ kk = 0 /\ wr'.count = wr.count + 1 /\ Cardinality(rd'.todo) = c
           /\ Len(chan'.results) = Len(chan.results)
    OBVIOUS
  <1>6. k \in {0, 1}
    OBVIOUS
  <1> DEFINE w == wr.count
             l == Len(chan.results)
             ww == wr'.count
             cc == Cardinality(rd'.todo)
             ll == Len(chan'.results)
  <1>7. ww + cc + ll + kk = d
    <2>1. w \in Nat /\ l \in Nat /\ w + c + l + k = d
      BY <1>1, <1>3
    <2>2. \/ kk = k /\ ww = w /\ cc = c - 1 /\ ll = l + 1
          \/ k = 0 /\ kk = 1 /\ ww = w /\ cc = c /\ ll = l - 1
          \/ k = 1 /\ kk = 0 /\ ww = w + 1 /\ cc = c /\ ll = l
      BY <1>5
    <2> HIDE DEF c, k, kk, d, w, l, ww, cc, ll
    <2> QED
      BY <1>4, <1>6, <2>1, <2>2
  <1>8. Cardinality(run'.blocks) = d
    BY DEF d
  <1> QED
    BY <1>7, <1>8 DEF CountInv

LEMMA ReadStage ==
  ASSUME Types, Stage, ReadBlock
  PROVE  Stage'
  <1> DEFINE i == Least(rd.todo)
             q == chan.results
  <1>1. rd.pc = "read" /\ UNCHANGED <<job, run, wr, obj, saved, dest>>
    BY DEF ReadBlock
  <1>2. i \in rd.todo /\ i \in Nat /\ i < Limit /\ \A t \in rd.todo : t \in Nat /\ i <= t
    BY <1>1, LeastIsFirst DEF Types, RdOK, RunOK
  <1>3. run.pc = "copy" /\ wr.pc # "idle" /\ ~chan.closed
    BY <1>1, Copying DEF Types, ChanOK
  <1>4. /\ q \in Seq(ResultType) /\ Len(q) \in Nat /\ job \in Jobs /\ DOMAIN q = 1 .. Len(q)
        /\ IsFiniteSet(run.blocks) /\ rd.todo \subseteq run.blocks
        /\ wr.last \in Nat /\ wr.count \in Nat
        /\ \A n \in DOMAIN q : q[n] \in ResultType
    BY DEF Types, ChanOK, RdOK, RunOK, WrOK, WrType
  <1>5. Data(i) \in BlockData /\ Data(i) # Nothing
    BY <1>2, <1>4, DataIsData, BlocksAreData
  <1>6. CASE /\ chan' = [results |-> Append(q, [block |-> i, data |-> Nothing]),
                         closed |-> TRUE]
             /\ rd' = [rd EXCEPT !.pc = "left"]
    <2> DEFINE x == [block |-> i, data |-> Nothing]
    <2>1. x \in ResultType /\ x.block = i /\ x.data = Nothing
      BY <1>2 DEF ResultType
    <2>2. rd'.todo = rd.todo /\ rd'.pc = "left"
      BY <1>6 DEF Types, RdOK
    <2>3. chan'.results = Append(q, x)
      BY <1>6
    <2> HIDE DEF x, i, q
    <2>4. ASSUME wr.pc # "left" PROVE QueueInv'
      <3>1. QueueInv /\ rd.pc = "read"
        BY <1>1, <2>4, Copying
      <3>2. \A n \in 1 .. Len(q) : q[n].data # Nothing /\ q[n].block < i
        BY <1>1, <1>2, <1>4, <3>1 DEF QueueInv, q
      <3> QED
        BY <1>1, <1>2, <1>4, <2>1, <2>2, <2>3, <3>1, <3>2, Sent, JobStays DEF QueueInv, q
    <2>5. ASSUME wr.pc # "left" PROVE CountInv'
      <3>1. Append(q, x)[Len(q) + 1].data = Nothing /\ Len(q) + 1 \in DOMAIN Append(q, x)
        BY <1>4, <2>1, Sent
      <3> QED
        BY <2>3, <3>1 DEF CountInv, Errored
    <2>6. Going => Going'
      BY <1>1, GoingStays
    <2>7. Gone => Gone'
      BY <1>1, GoneStays
    <2> QED
      BY <1>1, <1>3, <2>2, <2>4, <2>5, <2>6, <2>7, Copying, CopyStage
  <1>7. CASE /\ Send([block |-> i, data |-> Data(i)])
             /\ rd' = [pc |-> "take", todo |-> rd.todo \ {i}]
    <2> DEFINE x == [block |-> i, data |-> Data(i)]
    <2>1. x \in ResultType /\ x.block = i /\ x.data = Data(i) /\ x.data # Nothing
      BY <1>2, <1>5 DEF ResultType
    <2>2. rd'.todo = rd.todo \ {i} /\ rd'.pc = "take"
      BY <1>7
    <2>3. chan'.results = Append(q, x) /\ chan'.closed = chan.closed
      BY <1>7 DEF Send, Types, ChanOK
    <2> HIDE DEF x, i, q
    <2>4. ASSUME wr.pc # "left" PROVE QueueInv'
      <3>1. QueueInv /\ rd.pc = "read"
        BY <1>1, <2>4, Copying
      <3>2. \A n \in 1 .. Len(q) : q[n].data # Nothing /\ q[n].block < i
        BY <1>1, <1>2, <1>4, <3>1 DEF QueueInv, q
      <3> QED
        BY <1>1, <1>2, <1>4, <2>1, <2>2, <2>3, <3>1, <3>2, Sent, JobStays DEF QueueInv, q
    <2>5. ASSUME wr.pc # "left" PROVE CountInv'
      <3>1. QueueInv /\ rd.pc = "read" /\ CountInv
        BY <1>1, <2>5, Copying
      <3>2. ~Errored
        BY <3>1 DEF QueueInv, Errored
      <3>3. IsFiniteSet(rd.todo)
        BY <1>4, FS_Subset
      <3>4. Cardinality(rd.todo \ {i}) = Cardinality(rd.todo) - 1 /\ Cardinality(rd.todo) \in Nat
        BY <1>2, <3>3, FS_RemoveElement, FS_CardinalityType
      <3>5. Len(Append(q, x)) = Len(q) + 1
        BY <1>4, <2>1, Sent
      <3> QED
        BY <1>1, <1>4, <2>2, <2>3, <3>1, <3>2, <3>4, <3>5, CountKept DEF q
    <2>6. Going => Going'
      BY <1>1, GoingStays
    <2>7. Gone => Gone'
      BY <1>1, GoneStays
    <2> QED
      BY <1>1, <1>3, <2>2, <2>3, <2>4, <2>5, <2>6, <2>7, Copying, CopyStage
  <1> QED
    BY <1>6, <1>7 DEF ReadBlock

\* When as many blocks are written as there are, all are written.
LEMMA AllCopied ==
  ASSUME Types, Stage, wr.pc = "receive", chan.results = <<>>,
         wr.count >= Cardinality(run.blocks)
  PROVE  AllWritten
  <1>1. QueueInv /\ CountInv
    BY Copying
  <1>2. ~Errored /\ Len(chan.results) = 0 /\ DOMAIN chan.results = {}
    BY DEF Errored
  <1>3. rd.todo \in SUBSET run.blocks /\ IsFiniteSet(run.blocks) /\ wr.count \in Nat
    BY DEF Types, RdOK, RunOK, WrOK, WrType
  <1>4. IsFiniteSet(rd.todo)
    BY <1>3, FS_Subset, Zenon
  <1>5. Cardinality(rd.todo) \in Nat /\ Cardinality(run.blocks) \in Nat
    BY <1>3, <1>4, FS_CardinalityType
  <1>6. wr.count + Cardinality(rd.todo) = Cardinality(run.blocks)
    BY <1>1, <1>2, <1>3, <1>5 DEF CountInv
  <1>7. Cardinality(rd.todo) = 0
    BY <1>3, <1>5, <1>6
  <1>8. rd.todo = {}
    BY <1>4, <1>7, FS_EmptySet
  <1> QED
    BY <1>1, <1>2, <1>8 DEF QueueInv, AllWritten

LEMMA DrainedStage ==
  ASSUME Types, Stage, WriterCancelled \/ Drained
  PROVE  Stage'
  <1>1. /\ wr.pc = "receive" /\ UNCHANGED <<job, run, rd, chan, obj, saved, dest>>
        /\ \/ WriterLeaves("failed") \/ WriterLeaves("cancelled")
           \/ /\ WriterLeaves("none") /\ chan.results = <<>> /\ wr.zero = <<>>
              /\ ~(wr.count < Cardinality(run.blocks))
    BY DEF WriterCancelled, Drained
  <1>2. run.pc = "copy" /\ rd.pc # "idle" /\ (chan.closed => rd.pc = "left") /\ Going
    BY <1>1, Copying
  <1>3. CASE WriterLeaves("failed") \/ WriterLeaves("cancelled")
    BY <1>1, <1>2, <1>3, WriterFails
  <1>4. CASE WriterLeaves("none") /\ chan.results = <<>> /\ wr.zero = <<>>
             /\ ~(wr.count < Cardinality(run.blocks))
    <2>1. wr'.pc = "left" /\ wr'.last = wr.last
      BY <1>4 DEF WriterLeaves, Types, WrOK, WrType
    <2>2. wr.count \in Nat /\ Cardinality(run.blocks) \in Nat /\ run.blocks \in SUBSET Nat
          /\ wr.last \in Nat
      BY FS_CardinalityType DEF Types, WrOK, WrType, RunOK, RunType
    <2>3. AllWritten
      BY <1>1, <1>4, <2>2, AllCopied
    <2>4. Gone
      <3>1. CASE job.kind = "backup"
        BY <1>2, <2>3, <3>1 DEF Going, Gone
      <3>2. CASE job.kind # "backup"
        BY <1>2, <1>4, <2>2, <2>3, <3>2 DEF Going, Gone, DestInv, DestDone, AllWritten, InZero
      <3> QED
        BY <3>1, <3>2
    <2>5. Gone'
      BY <1>1, <2>1, <2>4, GoneStays
    <2> QED
      BY <1>1, <1>2, <2>1, <2>5, CopyStage
  <1> QED
    BY <1>1, <1>3, <1>4

\* The first block of those between the reader and the writer, and the others.
LEMMA Received ==
  ASSUME NEW q \in Seq(ResultType), q # <<>>
  PROVE  /\ Len(q) \in Nat /\ Len(q) >= 1 /\ Len(Tail(q)) = Len(q) - 1
         /\ DOMAIN q = 1 .. Len(q) /\ DOMAIN Tail(q) = 1 .. Len(q) - 1
         /\ Head(q) = q[1]
         /\ \A n \in 1 .. Len(q) - 1 : Tail(q)[n] = q[n + 1]
  BY HeadTailProperties

LEMMA ReceiveStage ==
  ASSUME Types, Stage, Receive
  PROVE  Stage'
  <1> DEFINE q == chan.results
             r == q[1]
  <1>1. wr.pc = "receive" /\ UNCHANGED <<job, run, rd, obj, saved, dest>>
        /\ q # <<>> /\ chan' = [chan EXCEPT !.results = Tail(@)]
    BY DEF Receive
  <1>2. run.pc = "copy" /\ rd.pc # "idle" /\ (chan.closed => rd.pc = "left") /\ Going
        /\ QueueInv /\ CountInv /\ wr.err = "none"
    BY <1>1, Copying
  <1>3. /\ q \in Seq(ResultType) /\ Head(q) = r /\ 1 \in DOMAIN q /\ Len(q) \in Nat
        /\ DOMAIN q = 1 .. Len(q) /\ DOMAIN Tail(q) = 1 .. Len(q) - 1
        /\ Len(Tail(q)) = Len(q) - 1
        /\ \A n \in 1 .. Len(q) - 1 : Tail(q)[n] = q[n + 1]
    BY <1>1, Received DEF Types, ChanOK
  <1>4. chan'.results = Tail(q) /\ chan'.closed = chan.closed
    BY <1>1 DEF Types, ChanOK
  <1>5. CASE r.data = Nothing
    <2>1. WriterLeaves("failed")
      BY <1>3, <1>5 DEF Receive
    <2> QED
      BY <1>1, <1>2, <1>4, <2>1, WriterFails
  <1>6. CASE r.data # Nothing
    <2>1. wr' = [wr EXCEPT !.pc = "write", !.result = r]
      BY <1>3, <1>6 DEF Receive
    <2>2. wr'.pc = "write" /\ wr'.result = r /\ wr'.last = wr.last /\ wr'.zero = wr.zero
          /\ wr'.count = wr.count /\ wr'.err = "none"
      BY <1>2, <2>1 DEF Types, WrOK, WrType
    <2>3. /\ r.block \in run.blocks /\ wr.last <= r.block /\ r.data = Data(r.block)
          /\ \A t \in rd.todo : r.block < t
          /\ \A n \in 1 .. Len(q) : 1 < n => r.block < q[n].block
      BY <1>2, <1>3, <1>6 DEF QueueInv
    <2>4. wr.last \in Nat /\ run.blocks \in SUBSET Nat /\ rd.todo \subseteq run.blocks
      BY DEF Types, RdOK, RunOK, RunType, WrOK, WrType
    <2> HIDE DEF r
    <2>5. QueueInv'
      <3>1. \A n \in DOMAIN Tail(q) :
               /\ n \in Nat /\ n + 1 \in DOMAIN q /\ 1 < n + 1 /\ Tail(q)[n] = q[n + 1]
        BY <1>3
      <3> HIDE DEF q
      <3>2. \A n \in DOMAIN Tail(q) :
               /\ Tail(q)[n].block \in run.blocks
               /\ wr.last <= Tail(q)[n].block
               /\ r.block < Tail(q)[n].block
               /\ Tail(q)[n].data # Nothing =>
                      /\ Tail(q)[n].data = Data(Tail(q)[n].block)
                      /\ \A t \in rd.todo : Tail(q)[n].block < t
               /\ Tail(q)[n].data = Nothing => n = Len(Tail(q)) /\ rd.pc = "left"
        <4> SUFFICES ASSUME NEW n \in DOMAIN Tail(q)
                     PROVE  /\ q[n + 1].block \in run.blocks
                            /\ wr.last <= q[n + 1].block
                            /\ r.block < q[n + 1].block
                            /\ q[n + 1].data # Nothing =>
                                   /\ q[n + 1].data = Data(q[n + 1].block)
                                   /\ \A t \in rd.todo : q[n + 1].block < t
                            /\ q[n + 1].data = Nothing => n = Len(Tail(q)) /\ rd.pc = "left"
          BY <3>1
        <4>1. n + 1 \in DOMAIN q /\ n + 1 \in 1 .. Len(q) /\ 1 < n + 1 /\ n \in Nat
          BY <1>3, <3>1 DEF q
        <4>2. r.block < q[n + 1].block
          BY <2>3, <4>1
        <4>3. /\ q[n + 1].block \in run.blocks
              /\ wr.last <= q[n + 1].block
              /\ q[n + 1].data # Nothing =>
                     /\ q[n + 1].data = Data(q[n + 1].block)
                     /\ \A t \in rd.todo : q[n + 1].block < t
              /\ q[n + 1].data = Nothing => n + 1 = Len(q) /\ rd.pc = "left"
          BY <1>2, <4>1 DEF QueueInv, q
        <4>4. n + 1 = Len(q) => n = Len(Tail(q))
          BY <1>3, <4>1 DEF q
        <4> QED
          BY <4>2, <4>3, <4>4
      <3>3. \A n, m \in DOMAIN Tail(q) : m < n => Tail(q)[m].block < Tail(q)[n].block
        <4> SUFFICES ASSUME NEW n \in DOMAIN Tail(q), NEW m \in DOMAIN Tail(q), m < n
                     PROVE  q[m + 1].block < q[n + 1].block
          BY <3>1
        <4>1. n + 1 \in DOMAIN q /\ m + 1 \in DOMAIN q /\ m + 1 < n + 1
          BY <3>1
        <4> QED
          BY <1>2, <4>1 DEF QueueInv, q
      <3>4. \A b \in run.blocks :
               b < wr.last \/ b \in rd.todo \/ r.block = b
               \/ \E n \in DOMAIN Tail(q) : Tail(q)[n].block = b
        <4> SUFFICES ASSUME NEW b \in run.blocks, ~(b < wr.last), b \notin rd.todo
                     PROVE  r.block = b \/ \E n \in DOMAIN Tail(q) : Tail(q)[n].block = b
          OBVIOUS
        <4>1. PICK n \in DOMAIN q : q[n].block = b
          BY <1>1, <1>2 DEF QueueInv, q
        <4>2. CASE n = 1
          BY <4>1, <4>2 DEF r, q
        <4>3. CASE n # 1
          <5>1. n - 1 \in DOMAIN Tail(q) /\ Tail(q)[n - 1] = q[n]
            BY <1>3, <4>1, <4>3
          <5> QED
            BY <4>1, <5>1
        <4> QED
          BY <4>2, <4>3
      <3> DEFINE z == Tail(q)
      <3>5. \A n \in DOMAIN z :
               /\ z[n].block \in run.blocks
               /\ wr.last <= z[n].block
               /\ r.block < z[n].block
               /\ z[n].data # Nothing =>
                      /\ z[n].data = Data(z[n].block)
                      /\ \A t \in rd.todo : z[n].block < t
               /\ z[n].data = Nothing => n = Len(z) /\ rd.pc = "left"
        BY <3>2
      <3>6. \A n, m \in DOMAIN z : m < n => z[m].block < z[n].block
        BY <3>3
      <3>7. \A b \in run.blocks :
               b < wr.last \/ b \in rd.todo \/ r.block = b
               \/ \E n \in DOMAIN z : z[n].block = b
        BY <3>4
      <3>8. \A t \in rd.todo : wr.last <= t
        BY <1>2 DEF QueueInv
      <3>9. chan'.results = z
        BY <1>4
      <3> HIDE DEF z
      <3>11. /\ rd' = rd /\ run' = run /\ wr'.pc = "write" /\ wr'.result = r
             /\ wr'.last = wr.last
        BY <1>1, <2>2
      <3>12. \A n \in DOMAIN chan'.results :
               /\ chan'.results[n].block \in run'.blocks
               /\ wr'.last <= chan'.results[n].block
               /\ wr'.pc = "write" => wr'.result.block < chan'.results[n].block
               /\ chan'.results[n].data # Nothing =>
                      /\ chan'.results[n].data = Data(chan'.results[n].block)
                      /\ \A t \in rd'.todo : chan'.results[n].block < t
               /\ chan'.results[n].data = Nothing => n = Len(chan'.results) /\ rd'.pc = "left"
               /\ \A m \in DOMAIN chan'.results :
                      m < n => chan'.results[m].block < chan'.results[n].block
        BY <3>5, <3>6, <3>9, <3>11
      <3>13. \A t \in rd'.todo :
                wr'.last <= t /\ (wr'.pc = "write" => wr'.result.block < t)
        BY <2>3, <3>8, <3>11
      <3>14. /\ wr'.last <= wr'.result.block /\ wr'.result.block \in run'.blocks
             /\ wr'.result.data = Data(wr'.result.block)
        BY <2>3, <3>11
      <3>15. \A b \in run'.blocks :
                \/ b < wr'.last
                \/ b \in rd'.todo
                \/ \E n \in DOMAIN chan'.results : chan'.results[n].block = b
                \/ wr'.pc = "write" /\ wr'.result.block = b
        BY <3>7, <3>9, <3>11
      <3> QED
        BY <1>1, <3>12, <3>13, <3>14, <3>15 DEF QueueInv, Data
    <2>6. CountInv'
      <3>1. Errored \/ ~Errored
        OBVIOUS
      <3>2. CASE Errored
        <4>1. PICK n \in DOMAIN q : q[n].data = Nothing
          BY <3>2 DEF Errored
        <4>2. n # 1
          BY <1>6, <4>1 DEF r
        <4>3. n - 1 \in DOMAIN Tail(q) /\ Tail(q)[n - 1] = q[n]
          BY <1>3, <4>1, <4>2
        <4> QED
          BY <1>4, <4>1, <4>3 DEF CountInv, Errored
      <3>3. CASE ~Errored
        BY <1>1, <1>2, <1>3, <1>4, <2>2, <3>3, CountKept
      <3> QED
        BY <3>1, <3>2, <3>3
    <2>7. Going'
      BY <1>1, <1>2, <2>2, GoingStays
    <2> QED
      BY <1>1, <1>2, <1>4, <2>2, <2>5, <2>6, <2>7, CopyStage
  <1> QED
    BY <1>5, <1>6

\* A block is written that the writer has received.
LEMMA QueueWritten ==
  ASSUME Types, QueueInv, CountInv, wr.pc = "write", UNCHANGED <<job, run, rd, chan>>,
         wr'.pc = "receive", wr'.last = wr.result.block + 1, wr'.count = wr.count + 1
  PROVE  QueueInv' /\ CountInv'
  <1>1. /\ run.blocks \in SUBSET Nat /\ rd.todo \subseteq run.blocks
        /\ wr.result.block \in run.blocks /\ wr.result.block \in Nat /\ wr.last \in Nat
    BY DEF Types, RunOK, RunType, RdOK, WrOK, WrType, ResultType, QueueInv
  <1> DEFINE i == wr.result.block
  <1>2. \A n \in DOMAIN chan.results :
           chan.results[n].block \in Nat /\ i + 1 <= chan.results[n].block
    BY <1>1 DEF QueueInv
  <1>3. \A t \in rd.todo : i + 1 <= t
    BY <1>1 DEF QueueInv
  <1>4. \A b \in run.blocks :
           \/ b < i + 1
           \/ b \in rd.todo
           \/ \E n \in DOMAIN chan.results : chan.results[n].block = b
    <2>1. wr.last <= i /\ i \in Nat
      BY <1>1 DEF QueueInv
    <2>2. \A b \in run.blocks : b \in Nat /\
           (\/ b < wr.last
            \/ b \in rd.todo
            \/ \E n \in DOMAIN chan.results : chan.results[n].block = b
            \/ i = b)
      BY <1>1 DEF QueueInv
    <2> HIDE DEF i
    <2> QED
      BY <1>1, <2>1, <2>2
  <1>5. QueueInv'
    BY <1>2, <1>3, <1>4, JobStays DEF QueueInv
  <1>6. CountInv'
    <2>1. Errored' = Errored
      BY DEF Errored
    <2> QED
      BY <2>1, CountKept DEF CountInv
  <1> QED
    BY <1>5, <1>6

\* The entries that FillTo adds are those of blocks that are not in the bitmap.
LEMMA FilledRight ==
  ASSUME Types, job.kind = "backup", BackupCovered(obj.parent),
         NEW n \in Nat, ObjInv(n), NEW i \in Nat, n <= i, i <= Size \div BlockSize,
         \A b \in run.blocks : b < n \/ i <= b
  PROVE  /\ FillTo(i) \in Seq(EntryData) /\ Len(FillTo(i)) = i
         /\ ~obj.err => \A j \in 1 .. i :
                \/ \E w \in obj.async : w[1] = j
                \/ FillTo(i)[j] = BlockOf(job.device, j - 1)
  <1>1. Len(obj.entries) = n /\ run.blocks \in SUBSET Nat /\ Size \div BlockSize \in Nat
        /\ Len(obj.parent) \in Nat
    <2>1. Size \in Nat
      BY JobFacts DEF Types
    <2>2. Size \div BlockSize \in Nat
      BY <2>1, Division
    <2> QED
      BY <2>2 DEF ObjInv, Types, RunOK, RunType, ObjOK, ObjType
  <1>2. /\ FillTo(i) \in Seq(EntryData) /\ Len(FillTo(i)) = i
        /\ \A j \in 1 .. i : FillTo(i)[j] = Filled(i, j)
    BY <1>1, FillToFills
  <1>3. ASSUME ~obj.err, NEW j \in 1 .. i
        PROVE  (\E w \in obj.async : w[1] = j) \/ Filled(i, j) = BlockOf(job.device, j - 1)
    <2>1. CASE j <= n
      BY <1>1, <1>3, <2>1 DEF ObjInv, Filled
    <2>2. CASE n < j
      <3> DEFINE d == Size \div BlockSize
      <3>1. j - 1 \in Nat /\ n <= j - 1 /\ j - 1 < i /\ (j - 1) + 1 = j
        BY <2>2
      <3>2. j - 1 \notin run.blocks
        BY <1>1, <3>1
      <3>3. j - 1 < d
        <4> HIDE DEF d
        <4> QED
          BY <1>1, <3>1 DEF d
      <3>4. BlockOf(job.device, j - 1) = IF j <= Len(obj.parent) THEN obj.parent[j] ELSE Zero
        BY <3>1, <3>2, <3>3 DEF BackupCovered
      <3>5. ~(j <= Len(obj.entries))
        BY <1>1, <2>2
      <3> QED
        BY <3>4, <3>5 DEF Filled
    <2> QED
      BY <2>1, <2>2
  <1> QED
    BY <1>2, <1>3

\* The object when a block has been written, and when it has been extended.
LEMMA ObjGrows ==
  ASSUME Types, UNCHANGED job, job.kind = "backup", BackupCovered(obj.parent),
         NEW n \in Nat, ObjInv(n), NEW i \in Nat, n <= i, i <= Size \div BlockSize,
         \A b \in run.blocks : b < n \/ i <= b
  PROVE  /\ i < Limit /\ WriteAt(BlockOf(job.device, i), i) => ObjInv(i + 1)'
         /\ i <= Limit /\ WriteAt(<<>>, i) => ObjInv(i)'
         /\ WriteAt(BlockOf(job.device, i), i) \/ WriteAt(<<>>, i) => obj'.parent = obj.parent
  <1> DEFINE es == FillTo(i)
             data == BlockOf(job.device, i)
  <1>1. es \in Seq(EntryData) /\ Len(es) = i /\ DOMAIN es = 1 .. i
        /\ (~obj.err => \A j \in 1 .. i :
                \/ \E w \in obj.async : w[1] = j
                \/ es[j] = BlockOf(job.device, j - 1))
    BY FilledRight
  <1>2. job \in Jobs /\ obj \in ObjType /\ \A w \in obj.async : w[2] = BlockOf(job.device, w[1] - 1)
    BY DEF Types, ObjOK, ObjInv
  <1>3. data \in BlockData /\ data # <<>> /\ Limit \in Nat /\ Limit' = Limit
    BY <1>2, JobFacts, BlockIsData, BlocksAreData, JobStays DEF Nothing
  <1>4. /\ WriteAt(data, i) => obj' = [obj EXCEPT !.entries = Append(es, <<"unset">>),
                                                !.async = @ \cup {<<i + 1, data>>}]
        /\ WriteAt(<<>>, i) => obj' = [obj EXCEPT !.entries = es]
    BY <1>3 DEF WriteAt
  <1>5. <<"unset">> \in EntryData
    BY DEF EntryData
  <1>6. /\ Len(Append(es, <<"unset">>)) = i + 1
        /\ \A j \in 1 .. i : Append(es, <<"unset">>)[j] = es[j]
    BY <1>1, <1>5, AppendProperties
  <1>7. data = BlockOf(job.device, (i + 1) - 1)
    BY DEF data
  <1> HIDE DEF es, data
  <1>8. ASSUME i < Limit, WriteAt(data, i)
        PROVE  ObjInv(i + 1)'
    <2> DEFINE e == Append(es, <<"unset">>)
    <2>1. /\ obj'.entries = e /\ obj'.async = obj.async \cup {<<i + 1, data>>}
          /\ obj'.err = obj.err
      BY <1>2, <1>4, <1>8 DEF ObjType
    <2>2. \A w \in obj'.async : w[2] = BlockOf(job.device, w[1] - 1)
      BY <1>2, <1>7, <2>1
    <2>3. Len(e) = i + 1 /\ i + 1 <= Limit
      BY <1>3, <1>6, <1>8
    <2>4. ASSUME ~obj.err, NEW j \in 1 .. i + 1
          PROVE  (\E w \in obj'.async : w[1] = j) \/ e[j] = BlockOf(job.device, j - 1)
      <3>1. CASE j = i + 1
        <4>1. <<i + 1, data>> \in obj'.async /\ <<i + 1, data>>[1] = j
          BY <2>1, <3>1
        <4> QED
          BY <4>1
      <3>2. CASE j # i + 1
        <4>1. j \in 1 .. i
          BY <3>2
        <4> QED
          BY <1>1, <1>6, <2>1, <2>4, <4>1
      <3> QED
        BY <3>1, <3>2
    <2> HIDE DEF e
    <2> QED
      BY <1>3, <2>1, <2>2, <2>3, <2>4 DEF ObjInv
  <1>9. ASSUME i <= Limit, WriteAt(<<>>, i)
        PROVE  ObjInv(i)'
    <2>1. obj'.entries = es /\ obj'.async = obj.async /\ obj'.err = obj.err
      BY <1>2, <1>4, <1>9 DEF ObjType
    <2> QED
      BY <1>1, <1>2, <1>3, <1>9, <2>1 DEF ObjInv
  <1>10. WriteAt(data, i) \/ WriteAt(<<>>, i) => obj'.parent = obj.parent
    BY <1>2, <1>4 DEF ObjType
  <1> QED
    BY <1>8, <1>9, <1>10 DEF data

LEMMA BackupWriteStage ==
  ASSUME Types, Stage, BackupWrite
  PROVE  Stage'
  <1>1. wr.pc = "write" /\ job.kind = "backup" /\ UNCHANGED <<job, run, rd, chan, saved, dest>>
    BY DEF BackupWrite
  <1>2. /\ run.pc = "copy" /\ rd.pc # "idle" /\ (chan.closed => rd.pc = "left") /\ wr.err = "none"
        /\ QueueInv /\ CountInv /\ BackupCovered(obj.parent) /\ ObjInv(wr.last) /\ wr.zero = <<>>
    BY <1>1, Copying DEF Going
  <1>3. CASE WriterLeaves("failed")
    BY <1>1, <1>2, <1>3, WriterFails
  <1>4. CASE WriteAt(wr.result.data, wr.result.block) /\ wr' = Written(wr)
    <2>1. /\ wr'.pc = "receive" /\ wr'.last = wr.result.block + 1
          /\ wr'.count = wr.count + 1 /\ wr'.zero = wr.zero /\ wr'.err = "none"
      BY <1>2, <1>4 DEF Written, Types, WrOK, WrType
    <2>2. QueueInv' /\ CountInv'
      BY <1>1, <1>2, <2>1, QueueWritten
    <2>3. /\ wr.result.block \in run.blocks /\ wr.last <= wr.result.block
          /\ wr.result.data = BlockOf(job.device, wr.result.block)
          /\ \A b \in run.blocks : b < wr.last \/ wr.result.block <= b
      <3>1. rd.todo \subseteq run.blocks /\ run.blocks \in SUBSET Nat
            /\ \A n \in DOMAIN chan.results : chan.results[n].block \in run.blocks
        BY <1>2 DEF QueueInv, Types, RdOK, RunOK, RunType
      <3>2. \A b \in run.blocks :
               \/ b < wr.last
               \/ b \in rd.todo
               \/ \E n \in DOMAIN chan.results : chan.results[n].block = b
               \/ wr.result.block = b
        BY <1>1, <1>2 DEF QueueInv
      <3>3. \A t \in rd.todo : wr.result.block < t
        BY <1>1, <1>2 DEF QueueInv
      <3>4. \A n \in DOMAIN chan.results : wr.result.block < chan.results[n].block
        BY <1>1, <1>2 DEF QueueInv
      <3>5. /\ wr.result.block \in run.blocks /\ wr.last <= wr.result.block
            /\ wr.result.data = BlockOf(job.device, wr.result.block)
        BY <1>1, <1>2 DEF QueueInv, Data
      <3> QED
        BY <3>1, <3>2, <3>3, <3>4, <3>5
    <2>4. PICK i \in Nat : i = wr.result.block
      BY <2>3 DEF Types, RunOK, RunType
    <2>5. PICK n \in Nat : n = wr.last
      BY DEF Types, WrOK, WrType
    <2>6. i < Limit /\ i <= Size \div BlockSize
      <3>1. i < Limit /\ Limit = BlocksIn(Size) /\ job \in Jobs
        BY <1>1, <2>3, <2>4 DEF Types, RunOK, Limit
      <3>2. Size \in Nat /\ BlocksIn(Size) \in Nat
        BY <3>1, JobFacts
      <3> DEFINE d == Size \div BlockSize
      <3>3. d \in Nat /\ d >= BlocksIn(Size) - 1
        BY <3>2, Division, BlocksDivided
      <3> HIDE DEF d
      <3>4. i <= d
        BY <3>1, <3>2, <3>3
      <3> QED
        BY <3>1, <3>4 DEF d
    <2>7. ObjInv(n) /\ n <= i /\ \A b \in run.blocks : b < n \/ i <= b
      BY <1>2, <2>3, <2>4, <2>5
    <2>8. WriteAt(BlockOf(job.device, i), i)
      BY <1>4, <2>3, <2>4
    <2>9. ObjInv(i + 1)' /\ obj'.parent = obj.parent
      BY <1>1, <1>2, <2>6, <2>7, <2>8, ObjGrows
    <2>10. wr'.last = i + 1
      BY <2>1, <2>4
    <2>11. ObjInv(wr.last)'
      BY <2>9, <2>10 DEF ObjInv
    <2>12. BackupCovered(obj.parent)'
      BY <1>1, <1>2, <2>9, JobStays DEF BackupCovered
    <2>13. Going'
      BY <1>1, <1>2, <2>1, <2>11, <2>12 DEF Going
    <2> QED
      BY <1>1, <1>2, <2>1, <2>2, <2>13, CopyStage
  <1> QED
    BY <1>3, <1>4 DEF BackupWrite

\* A block of the object is written, by whichever goroutine and whenever.
LEMMA WriteObjectKeeps ==
  ASSUME Types, UNCHANGED job, NEW w \in obj.async, WriteObject(w), NEW n \in Nat, ObjInv(n)
  PROVE  ObjInv(n)' /\ obj'.parent = obj.parent
  <1>1. /\ w[1] \in 1 .. Len(obj.entries) /\ w[2] \in EntryData
        /\ obj.entries \in Seq(EntryData) /\ obj \in ObjType
        /\ w[2] = BlockOf(job.device, w[1] - 1)
    BY DEF Types, ObjOK, ObjType, EntryData, ObjInv
  <1> DEFINE k == w[1]
             x == w[2]
             es == [obj.entries EXCEPT ![k] = x]
  <1>2. Len(es) = Len(obj.entries)
        /\ \A j \in 1 .. Len(obj.entries) : es[j] = IF j = k THEN x ELSE obj.entries[j]
    BY <1>1, Replaced
  <1>3. Len(obj.entries) = n /\ Limit' = Limit /\ n <= Limit
    BY JobStays DEF ObjInv
  <1>4. CASE obj' = [obj EXCEPT !.entries[w[1]] = w[2], !.async = @ \ {w}]
    <2>1. obj'.entries = es /\ obj'.async = obj.async \ {w} /\ obj'.err = obj.err
          /\ obj'.parent = obj.parent
      BY <1>1, <1>4 DEF ObjType
    <2> HIDE DEF es
    <2>2. ASSUME ~obj.err, NEW j \in 1 .. n
          PROVE  (\E v \in obj'.async : v[1] = j) \/ es[j] = BlockOf(job.device, j - 1)
      <3>1. CASE j = k
        BY <1>1, <1>2, <1>3, <3>1
      <3>2. CASE j # k
        <4>1. es[j] = obj.entries[j]
          BY <1>2, <1>3, <3>2
        <4>2. (\E v \in obj.async : v[1] = j) \/ obj.entries[j] = BlockOf(job.device, j - 1)
          BY <2>2 DEF ObjInv
        <4> QED
          BY <2>1, <3>2, <4>1, <4>2
      <3> QED
        BY <3>1, <3>2
    <2>3. \A v \in obj'.async : v[2] = BlockOf(job.device, v[1] - 1)
      BY <2>1 DEF ObjInv
    <2> QED
      BY <1>2, <1>3, <2>1, <2>2, <2>3 DEF ObjInv
  <1>5. CASE obj' = [obj EXCEPT !.err = TRUE, !.async = @ \ {w}]
    <2>1. obj'.entries = obj.entries /\ obj'.async = obj.async \ {w} /\ obj'.err = TRUE
          /\ obj'.parent = obj.parent
      BY <1>1, <1>5 DEF ObjType
    <2> QED
      BY <1>3, <2>1 DEF ObjInv
  <1> QED
    BY <1>4, <1>5 DEF WriteObject

LEMMA WriteObjectStage ==
  ASSUME Types, Stage, NEW w \in obj.async, WriteObject(w)
  PROVE  Stage'
  <1>1. UNCHANGED <<job, run, rd, chan, wr, saved, dest>> /\ Limit' = Limit
    BY JobStays DEF WriteObject
  <1>2. PICK n \in Nat : n = wr.last
    BY DEF Types, WrOK, WrType
  <1>3. job \in Jobs /\ Limit \in Nat
    BY JobFacts DEF Types
  <1>4. ASSUME BackupCovered(obj.parent), ObjInv(wr.last)
        PROVE  BackupCovered(obj.parent)' /\ ObjInv(wr.last)'
    <2>1. ObjInv(n)' /\ obj'.parent = obj.parent
      BY <1>1, <1>2, <1>4, WriteObjectKeeps
    <2> QED
      BY <1>1, <1>2, <1>4, <2>1, JobStays DEF BackupCovered, ObjInv
  <1>5. Going => Going'
    <2>1. CASE job.kind = "backup"
      BY <1>1, <1>4, <2>1 DEF Going
    <2>2. CASE job.kind # "backup"
      <3>1. RestoreCovered => RestoreCovered'
        BY <1>1, CoversStay
      <3>2. DestInv => DestInv'
        BY <1>1, JobStays DEF DestInv, InZero, Target
      <3> QED
        BY <1>1, <2>2, <3>1, <3>2 DEF Going
    <2> QED
      BY <2>1, <2>2
  <1>6. Gone => Gone'
    <2>1. CASE job.kind = "backup"
      BY <1>1, <1>4, <2>1 DEF Gone, AllWritten
    <2>2. CASE job.kind # "backup"
      BY <1>1, <2>2, JobStays DEF Gone, DestDone, Target
    <2> QED
      BY <2>1, <2>2
  <1>7. ObjInv(Limit) => ObjInv(Limit)'
    <2>1. PICK m \in Nat : m = Limit
      BY <1>3
    <2>2. ObjInv(m) => ObjInv(m)'
      BY <1>1, WriteObjectKeeps
    <2> QED
      BY <1>1, <2>1, <2>2 DEF ObjInv
  <1>8. ~Early /\ run.pc # "save"
    BY DEF Stage
  <1>9. QueueInv => QueueInv'
    BY <1>1, JobStays DEF QueueInv
  <1>10. CountInv => CountInv'
    BY <1>1 DEF CountInv, Errored
  <1>11. DestDone => DestDone'
    BY <1>1, JobStays DEF DestDone, Target
  <1> QED
    BY <1>1, <1>5, <1>6, <1>7, <1>8, <1>9, <1>10, <1>11 DEF Stage, Early

\* The positions of a block of the source.
LEMMA PlaceOf ==
  ASSUME job \in Jobs, job.kind = "restore", NEW i \in Nat, i < Len(Snap.object)
  PROVE  LET end == Lesser((i + 1) * BlockSize, SourceSize) IN
         /\ i * BlockSize \in Nat /\ (i + 1) * BlockSize \in Nat /\ end \in Nat
         /\ i * BlockSize <= end /\ end <= SourceSize /\ SourceSize \in Nat
         /\ \A p \in Nat : p < SourceSize =>
               (p \div BlockSize = i <=> i * BlockSize <= p /\ p < end)
         /\ \A p \in Nat : i * BlockSize <= p /\ p < end =>
               /\ p < SourceSize /\ p - i * BlockSize + 1 \in 1 .. BlockSize
               /\ Target(p) = Snap.object[i + 1][p - i * BlockSize + 1]
  <1> DEFINE lo == i * BlockSize
             hi == (i + 1) * BlockSize
             end == Lesser(hi, SourceSize)
             n == Positions(Snap.device)
  <1>1. SourceSize \in Nat /\ n \in Nat /\ Len(Snap.object) = BlocksIn(n) /\ n <= SourceSize
    BY SourceIsNat
  <1>2. lo \in Nat /\ hi \in Nat /\ hi = lo + BlockSize
    BY WholeBlocks, Times
  <1>3. lo < n
    <2>1. i < BlocksIn(n) <=> i * BlockSize < n
      BY <1>1, BlocksCounted
    <2> QED
      BY <1>1, <2>1
  <1>4. end \in Nat /\ end <= SourceSize /\ end <= hi /\ (end = hi \/ end = SourceSize)
    BY <1>1, <1>2 DEF Lesser
  <1>5. lo <= end
    <2> HIDE DEF lo, hi, end, n
    <2> QED
      BY <1>1, <1>2, <1>3, <1>4, BlockAssumption
  <1>6. ASSUME NEW p \in Nat
        PROVE  /\ p < SourceSize => (p \div BlockSize = i <=> lo <= p /\ p < end)
               /\ lo <= p /\ p < end =>
                     /\ p < SourceSize /\ p - lo + 1 \in 1 .. BlockSize
                     /\ Target(p) = Snap.object[i + 1][p - lo + 1]
    <2>1. p \div BlockSize = i <=> lo <= p /\ p < hi
      BY BlockAt
    <2>2. p < SourceSize => (p \div BlockSize = i <=> lo <= p /\ p < end)
      <3> DEFINE d == p \div BlockSize
      <3>1. d = i <=> lo <= p /\ p < hi
        BY <2>1
      <3> HIDE DEF lo, hi, end, n, d
      <3>2. p < SourceSize => (d = i <=> lo <= p /\ p < end)
        BY <1>1, <1>2, <1>4, <3>1
      <3> QED
        BY <3>2 DEF d
    <2>3. ASSUME lo <= p, p < end
          PROVE  /\ p < SourceSize /\ p - lo + 1 \in 1 .. BlockSize
                 /\ Target(p) = Snap.object[i + 1][p - lo + 1]
      <3> DEFINE d == p \div BlockSize
                 m == p % BlockSize
      <3>1. p < SourceSize /\ p < hi
        <4> HIDE DEF lo, hi, end
        <4> QED
          BY <1>1, <1>2, <1>4, <2>3
      <3>2. d = i
        BY <2>1, <2>3, <3>1
      <3>3. m \in 0 .. BlockSize - 1 /\ p = d * BlockSize + m
        BY Division
      <3>4. m + 1 = p - lo + 1 /\ m + 1 \in 1 .. BlockSize
        <4>1. p = lo + m
          BY <3>2, <3>3
        <4> HIDE DEF lo, m
        <4> QED
          BY <1>2, <3>3, <4>1, BlockAssumption
      <3>5. Target(p) = Snap.object[d + 1][m + 1]
        BY <3>1 DEF Target
      <3> HIDE DEF lo, d, m
      <3> QED
        BY <3>1, <3>2, <3>4, <3>5
    <2> QED
      BY <2>2, <2>3
  <1> QED
    BY <1>1, <1>2, <1>4, <1>5, <1>6

\* Zeros put off are written.
LEMMA ZeroedRight ==
  ASSUME Types, DestInv
  PROVE  LET d == Zeroed(dest, wr.zero) IN
         /\ DOMAIN d = DOMAIN job.device
         /\ \A p \in DOMAIN job.device :
               \/ d[p] = Target(p)
               \/ /\ p < SourceSize /\ ~InZero(p)
                  /\ p \div BlockSize \in run.blocks /\ wr.last <= p \div BlockSize
  <1> DEFINE d == Zeroed(dest, wr.zero)
  <1>1. DOMAIN dest = DOMAIN job.device /\ \A p \in DOMAIN job.device : p \in Nat
    BY JobFacts DEF DestInv, Types
  <1>2. wr.zero # <<>> => wr.zero \in Nat \X Nat
    BY DEF Types, WrOK, WrType
  <1>3. DOMAIN d = DOMAIN job.device
    BY <1>1 DEF Zeroed
  <1>4. ASSUME NEW p \in DOMAIN job.device
        PROVE  d[p] = IF InZero(p) THEN 0 ELSE dest[p]
    <2>1. p \in Nat
      BY <1>1
    <2>2. InZero(p) <=> (wr.zero # <<>> /\ p \in wr.zero[1] .. wr.zero[2] - 1)
      BY <1>2, <2>1 DEF InZero
    <2> QED
      BY <1>1, <2>2 DEF Zeroed
  <1> HIDE DEF d
  <1>5. ASSUME NEW p \in DOMAIN job.device
        PROVE  \/ d[p] = Target(p)
               \/ /\ p < SourceSize /\ ~InZero(p)
                  /\ p \div BlockSize \in run.blocks /\ wr.last <= p \div BlockSize
    <2>1. CASE InZero(p)
      BY <1>1, <1>4, <2>1 DEF DestInv
    <2>2. CASE ~InZero(p)
      BY <1>1, <1>4, <2>2 DEF DestInv
    <2> QED
      BY <2>1, <2>2
  <1> QED
    BY <1>3, <1>5 DEF d

LEMMA RestoreWriteStage ==
  ASSUME Types, Stage, RestoreWrite
  PROVE  Stage'
  <1> DEFINE i == wr.result.block
             data == wr.result.data
             lo == i * BlockSize
             end == Lesser((i + 1) * BlockSize, SourceSize)
             follows == wr.zero # <<>> /\ wr.zero[2] = lo
  <1>1. wr.pc = "write" /\ job.kind = "restore" /\ UNCHANGED <<job, run, rd, chan, obj, saved>>
    BY DEF RestoreWrite
  <1>2. /\ run.pc = "copy" /\ rd.pc # "idle" /\ (chan.closed => rd.pc = "left") /\ wr.err = "none"
        /\ QueueInv /\ CountInv /\ RestoreCovered /\ DestInv
    BY <1>1, Copying DEF Going
  <1>3. CASE WriterLeaves("failed")
    BY <1>1, <1>2, <1>3, WriterFails
  <1>4. /\ i \in run.blocks /\ i \in Nat /\ i < Len(Snap.object) /\ data = Snap.object[i + 1]
        /\ wr.last \in Nat /\ run.blocks \in SUBSET Nat /\ job \in Jobs
        /\ wr.zero # <<>> => wr.zero \in Nat \X Nat
    BY <1>1, <1>2 DEF QueueInv, Types, RunOK, RunType, WrOK, WrType, Limit, Data, Snap
  <1>5. \A b \in run.blocks : wr.last <= b => b = i \/ i + 1 <= b
    <2>1. rd.todo \subseteq run.blocks
          /\ \A n \in DOMAIN chan.results : chan.results[n].block \in run.blocks
      BY <1>2 DEF QueueInv, Types, RdOK
    <2>2. \A t \in rd.todo : i + 1 <= t
      BY <1>1, <1>2, <1>4, <2>1 DEF QueueInv
    <2>3. \A n \in DOMAIN chan.results : i + 1 <= chan.results[n].block
      BY <1>1, <1>2, <1>4, <2>1 DEF QueueInv
    <2>4. \A b \in run.blocks :
             \/ b < wr.last
             \/ b \in rd.todo
             \/ \E n \in DOMAIN chan.results : chan.results[n].block = b
             \/ i = b
      BY <1>1, <1>2 DEF QueueInv
    <2> HIDE DEF i
    <2> QED
      BY <1>4, <2>2, <2>3, <2>4
  <1>6. /\ lo \in Nat /\ end \in Nat /\ lo <= end /\ end <= SourceSize /\ SourceSize \in Nat
        /\ \A p \in Nat : p < SourceSize => (p \div BlockSize = i <=> lo <= p /\ p < end)
        /\ \A p \in Nat : lo <= p /\ p < end =>
              /\ p < SourceSize /\ p - lo + 1 \in 1 .. BlockSize
              /\ Target(p) = data[p - lo + 1]
    BY <1>1, <1>4, PlaceOf
  <1>7. DOMAIN dest = DOMAIN job.device /\ \A p \in DOMAIN job.device : p \in Nat
    BY <1>2, <1>4, JobFacts DEF DestInv
  <1> DEFINE Done(w) == /\ w.pc = "receive" /\ w.last = i + 1 /\ w.count = wr.count + 1
                        /\ w.err = "none"
  <1>8. ASSUME Done(wr'), DestInv' PROVE Stage'
    <2>1. QueueInv' /\ CountInv'
      BY <1>1, <1>2, <1>8, QueueWritten
    <2>2. RestoreCovered'
      BY <1>1, <1>2, CoversStay
    <2>3. Going'
      BY <1>1, <1>8, <2>2 DEF Going
    <2> QED
      BY <1>1, <1>2, <1>8, <2>1, <2>3, CopyStage
  <1>10. CASE /\ data = Zero
              /\ wr' = [Written(wr) EXCEPT !.zero = Extended(wr.zero, i)]
              /\ dest' = IF follows THEN dest ELSE Zeroed(dest, wr.zero)
    <2> DEFINE z == Extended(wr.zero, i)
    <2>1. Done(wr') /\ wr'.zero = z
      BY <1>2, <1>10 DEF Written, Types, WrOK, WrType
    <2>2. z = IF follows THEN <<wr.zero[1], end>> ELSE <<lo, end>>
      BY DEF Extended
    <2> HIDE DEF z
    <2>3. z # <<>> /\ z \in Nat \X Nat /\ z[2] = end /\ z[1] <= z[2]
          /\ z[1] = IF follows THEN wr.zero[1] ELSE lo
      <3>1. CASE follows
        <4>1. wr.zero[1] \in Nat /\ wr.zero[1] <= lo
          BY <1>2, <1>4, <3>1 DEF DestInv
        <4> HIDE DEF lo, end
        <4> QED
          BY <1>6, <2>2, <3>1, <4>1 DEF follows
      <3>2. CASE ~follows
        <4> HIDE DEF lo, end, follows
        <4> QED
          BY <1>6, <2>2, <3>2
      <3> QED
        BY <3>1, <3>2
    <2>4. ASSUME NEW p \in DOMAIN job.device, z[1] <= p, p < end
          PROVE  p < SourceSize /\ Target(p) = 0
      <3>1. CASE lo <= p
        <4>1. p - lo + 1 \in 1 .. BlockSize /\ Target(p) = data[p - lo + 1] /\ p < SourceSize
          BY <1>6, <1>7, <2>4, <3>1
        <4> QED
          BY <1>10, <4>1 DEF Zero
      <3>2. CASE ~(lo <= p)
        <4>1. follows
          BY <2>3, <2>4, <3>2
        <4>2. InZero(p)
          <5> HIDE DEF lo
          <5> QED
            BY <1>6, <1>7, <2>3, <2>4, <3>2, <4>1 DEF InZero
        <4> QED
          BY <1>2, <1>7, <4>2 DEF DestInv
      <3> QED
        BY <3>1, <3>2
    <2>5. DOMAIN dest' = DOMAIN job.device
      BY <1>2, <1>7, <1>10, ZeroedRight
    <2>6. ASSUME NEW p \in DOMAIN job.device
          PROVE  \/ dest'[p] = Target(p)
                 \/ p < SourceSize /\ z[1] <= p /\ p < end
                 \/ /\ p < SourceSize
                    /\ p \div BlockSize \in run.blocks /\ wr.last <= p \div BlockSize
      <3>1. CASE follows
        <4>1. \/ dest[p] = Target(p)
              \/ p < SourceSize /\ InZero(p)
              \/ /\ p < SourceSize
                 /\ p \div BlockSize \in run.blocks /\ wr.last <= p \div BlockSize
          BY <1>2, <1>7 DEF DestInv
        <4>2. InZero(p) => z[1] <= p /\ p < end
          <5> HIDE DEF lo, end
          <5> QED
            BY <1>4, <1>6, <1>7, <2>3, <3>1 DEF InZero
        <4> QED
          BY <1>10, <3>1, <4>1, <4>2
      <3>2. CASE ~follows
        BY <1>2, <1>7, <1>10, <3>2, ZeroedRight
      <3> QED
        BY <3>1, <3>2
    <2>7. ASSUME NEW p \in DOMAIN job.device
          PROVE  \/ dest'[p] = Target(p)
                 \/ p < SourceSize /\ z[1] <= p /\ p < end
                 \/ /\ p < SourceSize
                    /\ p \div BlockSize \in run.blocks /\ i + 1 <= p \div BlockSize
      <3> DEFINE d == p \div BlockSize
      <3>1. CASE p < SourceSize /\ d \in run.blocks /\ wr.last <= d
        <4>1. d = i \/ i + 1 <= d
          BY <1>5, <3>1
        <4>2. CASE d = i
          <5>1. lo <= p /\ p < end
            BY <1>6, <1>7, <3>1, <4>2
          <5>2. z[1] <= lo /\ z[1] \in Nat
            <6> HIDE DEF lo, end
            <6> QED
              BY <1>2, <1>4, <1>6, <2>3 DEF DestInv
          <5>3. z[1] <= p
            <6> HIDE DEF lo, end
            <6> QED
              BY <1>6, <1>7, <5>1, <5>2
          <5> QED
            BY <3>1, <5>1, <5>3
        <4> QED
          BY <3>1, <4>1, <4>2
      <3> QED
        BY <2>6, <3>1
    <2> HIDE DEF i, end, data, lo, follows
    <2>8. DestInv'
      BY <1>1, <2>1, <2>3, <2>4, <2>5, <2>7, JobStays DEF DestInv, InZero, Target
    <2> QED
      BY <1>8, <2>1, <2>8
  <1>11. CASE /\ wr' = [Written(wr) EXCEPT !.zero = <<>>]
              /\ dest' = Overwrite(Zeroed(dest, wr.zero), i, data)
    <2> DEFINE d == Zeroed(dest, wr.zero)
    <2>1. Done(wr') /\ wr'.zero = <<>>
      BY <1>2, <1>11 DEF Written, Types, WrOK, WrType
    <2>2. /\ DOMAIN d = DOMAIN job.device
          /\ \A p \in DOMAIN job.device :
                \/ d[p] = Target(p)
                \/ /\ p < SourceSize
                   /\ p \div BlockSize \in run.blocks /\ wr.last <= p \div BlockSize
      BY <1>2, ZeroedRight
    <2>3. DOMAIN dest' = DOMAIN job.device
      BY <1>11, <2>2 DEF Overwrite
    <2>4. ASSUME NEW p \in DOMAIN job.device
          PROVE  dest'[p] = IF lo <= p /\ p < end THEN data[p - lo + 1] ELSE d[p]
      <3>1. p \in lo .. end - 1 <=> lo <= p /\ p < end
        <4> HIDE DEF lo, end
        <4> QED
          BY <1>6, <1>7
      <3>2. dest'[p] = IF p \in lo .. end - 1 THEN data[p - lo + 1] ELSE d[p]
        BY <1>11, <2>2 DEF Overwrite
      <3> HIDE DEF lo, end, d, data
      <3> QED
        BY <3>1, <3>2
    <2>5. ASSUME NEW p \in DOMAIN job.device
          PROVE  \/ dest'[p] = Target(p)
                 \/ /\ p < SourceSize
                    /\ p \div BlockSize \in run.blocks /\ i + 1 <= p \div BlockSize
      <3>1. CASE lo <= p /\ p < end
        BY <1>6, <1>7, <2>4, <3>1
      <3>2. CASE ~(lo <= p /\ p < end)
        <4>1. dest'[p] = d[p]
          BY <2>4, <3>2
        <4>2. p < SourceSize => p \div BlockSize # i
          BY <1>6, <1>7, <3>2
        <4> HIDE DEF lo, end, d, data, i
        <4> QED
          BY <1>5, <2>2, <4>1, <4>2
      <3> QED
        BY <3>1, <3>2
    <2> HIDE DEF i, end, data, lo, follows, d
    <2>6. DestInv'
      BY <1>1, <2>1, <2>3, <2>5, JobStays DEF DestInv, InZero, Target
    <2> QED
      BY <1>8, <2>1, <2>6
  <1> QED
    BY <1>3, <1>10, <1>11 DEF RestoreWrite

LEMMA FlushStage ==
  ASSUME Types, Stage, FlushZeroBlocks
  PROVE  Stage'
  <1>1. /\ wr.pc = "receive" /\ UNCHANGED <<job, run, rd, chan, obj, saved>>
        /\ chan.results = <<>> /\ wr.count = Cardinality(run.blocks) /\ wr.zero # <<>>
        /\ \/ WriterLeaves("failed")
           \/ WriterLeaves("none") /\ dest' = Zeroed(dest, wr.zero)
    BY DEF FlushZeroBlocks
  <1>2. /\ run.pc = "copy" /\ rd.pc # "idle" /\ (chan.closed => rd.pc = "left")
        /\ Going /\ job \in Jobs
    BY <1>1, Copying DEF Types
  <1>3. CASE WriterLeaves("failed")
    BY <1>1, <1>2, <1>3, WriterFails
  <1>4. CASE WriterLeaves("none") /\ dest' = Zeroed(dest, wr.zero)
    <2>1. wr'.pc = "left" /\ run.blocks \in SUBSET Nat /\ wr.last \in Nat /\ wr.count \in Nat
      BY <1>4 DEF WriterLeaves, Types, WrOK, WrType, RunOK, RunType
    <2>2. AllWritten
      BY <1>1, <2>1, AllCopied
    <2>3. job.kind = "restore" /\ DestInv
      BY <1>1, <1>2, JobFacts DEF Going
    <2>4. DOMAIN dest' = DOMAIN job.device /\ \A p \in DOMAIN job.device : dest'[p] = Target(p)
      BY <1>4, <2>1, <2>2, <2>3, ZeroedRight DEF AllWritten
    <2>5. Gone'
      BY <1>1, <2>3, <2>4, JobStays DEF Gone, DestDone, Target
    <2> QED
      BY <1>1, <1>2, <2>1, <2>5, CopyStage
  <1> QED
    BY <1>1, <1>3, <1>4

-----------------------------------------------------------------------------
(***************************************************************************)
(* What comes before the copying, and after it.                            *)
(***************************************************************************)
\* What a backup's bitmap leaves out is in the parent, or zero.
LEMMA BackupBitmapCovers ==
  ASSUME job \in Jobs, NEW from \in {0} \cup DOMAIN job.snaps,
         NEW bm \in SetBitmapOrFull(
                    Positions(job.device), from # 0,
                    IF from = 0 THEN {}
                    ELSE Differences(job.device, job.snaps[from].device),
                    Allocated(job.device), FALSE),
         NEW parent,
         parent = IF bm.err \/ from = 0 THEN Nothing ELSE job.snaps[from].object,
         NEW i \in Nat, i < Size \div BlockSize, i \notin bm.blocks
  PROVE  BlockOf(job.device, i) = IF i + 1 <= Len(parent) THEN parent[i + 1] ELSE Zero
  <1> DEFINE n == Size \div BlockSize
             dev == job.device
             old == job.snaps[from].device
  <1>1. /\ Size \in Nat /\ BlocksIn(Size) \in Nat /\ IsDevice(dev) /\ DOMAIN dev = 0 .. Size - 1
        /\ from # 0 => /\ from \in DOMAIN job.snaps /\ IsDevice(old)
                       /\ job.snaps[from].object = ObjectOf(old)
    BY JobFacts
  <1>2. /\ bm.err \in BOOLEAN
        /\ \/ bm.blocks = SetFull(Size)
           \/ /\ from # 0 /\ ~bm.err
              /\ Covers(bm.blocks, Differences(dev, old), Size)
           \/ (from # 0 => bm.err) /\ Covers(bm.blocks, Allocated(dev), Size)
    BY BackupBlocks
  <1>3. n \in Nat /\ n <= BlocksIn(Size)
    BY <1>1, Division, BlocksDivided
  <1>4. bm.blocks # SetFull(Size)
    <2>1. i < n
      OBVIOUS
    <2> HIDE DEF n
    <2>2. i \in 0 .. BlocksIn(Size) - 1
      BY <1>1, <1>3, <2>1
    <2> QED
      BY <2>2 DEF SetFull
  <1>5. \A p \in DOMAIN dev : p \in Nat /\ p < Size /\ dev[p] \in {0, 1}
    BY <1>1, DeviceSize
  <1>6. CASE from # 0 /\ ~bm.err /\ Covers(bm.blocks, Differences(dev, old), Size)
    <2>1. parent = ObjectOf(old)
      BY <1>1, <1>6
    <2>2. \A p \in DOMAIN dev : p \div BlockSize = i => p \in DOMAIN old /\ old[p] = dev[p]
      BY <1>5, <1>6 DEF Covers, Differences
    <2>3. BlockOf(dev, i) = BlockOf(old, i)
      BY <1>1, <1>6, <2>2, SameBlock DEF Size
    <2>4. i < BlocksIn(Positions(old)) /\ BlocksIn(Positions(old)) \in Nat
      <3>1. i * BlockSize \in Nat /\ (i * BlockSize) \div BlockSize = i
        BY WholeBlocks, BlockAt, Times, BlockAssumption
      <3>2. i * BlockSize \in DOMAIN dev
        <4>1. i * BlockSize < n * BlockSize
          BY <1>3, Times
        <4>2. n * BlockSize <= Size
          BY <1>1, <1>3, BlockAt
        <4>3. n * BlockSize \in Nat
          BY <1>3, WholeBlocks
        <4> DEFINE a == i * BlockSize
                   b == n * BlockSize
        <4> HIDE DEF a, b, n
        <4>4. a < Size
          BY <1>1, <3>1, <4>1, <4>2, <4>3 DEF a, b
        <4>5. a \in 0 .. Size - 1
          BY <1>1, <3>1, <4>4 DEF a
        <4> QED
          BY <1>1, <4>5 DEF a
      <3>3. i * BlockSize \in DOMAIN old
        BY <2>2, <3>1, <3>2
      <3>4. i * BlockSize < Positions(old) /\ Positions(old) \in Nat
        BY <1>1, <1>6, <3>3, DeviceSize
      <3> QED
        BY <3>4, BlocksCounted
    <2>5. i + 1 \in 1 .. BlocksIn(Positions(old)) /\ (i + 1) - 1 = i
      BY <2>4
    <2>6. Len(parent) = BlocksIn(Positions(old)) /\ parent[i + 1] = BlockOf(old, i)
      BY <1>1, <1>6, <2>1, <2>5, ObjectIsSeq
    <2> QED
      BY <2>3, <2>5, <2>6
  <1>7. CASE (from # 0 => bm.err) /\ Covers(bm.blocks, Allocated(dev), Size)
    <2>1. parent = Nothing
      BY <1>7
    <2>2. \A p \in DOMAIN dev : p \div BlockSize = i => dev[p] = 0
      BY <1>5, <1>7 DEF Covers, Allocated
    <2>3. BlockOf(dev, i) = Zero
      BY <1>1, <2>2, ZeroBlock
    <2>4. ~(i + 1 <= Len(parent))
      BY <2>1 DEF Nothing
    <2> QED
      BY <2>3, <2>4
  <1> QED
    BY <1>2, <1>4, <1>6, <1>7

LEMMA BackupBitmapStage ==
  ASSUME Types, Stage, BackupBitmap
  PROVE  Stage'
  <1>1. /\ run.pc = "bitmap" /\ job.kind = "backup" /\ UNCHANGED <<job, chan, wr, obj, saved, dest>>
        /\ job \in Jobs
    BY DEF BackupBitmap, Types
  <1>2. \/ run.parent.from = 0 /\ run.parent.object = Nothing
        \/ /\ run.parent.from \in DOMAIN job.snaps
           /\ run.parent.object = job.snaps[run.parent.from].object
    BY <1>1 DEF Stage, FullBackup
  <1>3. PICK from \in {0} \cup DOMAIN job.snaps : from = run.parent.from
    BY <1>2
  <1>4. from # 0 <=> from \in DOMAIN job.snaps
    BY <1>1, JobFacts
  <1>5. PICK bm \in SetBitmapOrFull(
                    Positions(job.device), from # 0,
                    IF from = 0 THEN {}
                    ELSE Differences(job.device, job.snaps[from].device),
                    Allocated(job.device), FALSE) :
              /\ run' = [run EXCEPT !.pc = "open", !.blocks = bm.blocks,
                                    !.errors = @ \/ bm.err,
                                    !.parent.object = IF bm.err THEN Nothing ELSE @]
              /\ rd' = [rd EXCEPT !.todo = bm.blocks]
    BY <1>3 DEF BackupBitmap
  <1>6. PICK parent : parent = IF bm.err THEN Nothing ELSE run.parent.object
    OBVIOUS
  <1>7. run'.pc = "open" /\ run'.blocks = bm.blocks /\ run'.parent.object = parent
        /\ run'.result = run.result /\ rd'.todo = bm.blocks /\ rd'.pc = rd.pc
    BY <1>5, <1>6 DEF Types, RunOK, RunType, RdOK
  <1>8. parent = IF bm.err \/ from = 0 THEN Nothing ELSE job.snaps[from].object
    BY <1>2, <1>3, <1>4, <1>6
  <1>9. \A i \in Nat : i < Size \div BlockSize /\ i \notin bm.blocks =>
           BlockOf(job.device, i) = IF i + 1 <= Len(parent) THEN parent[i + 1] ELSE Zero
    BY <1>1, <1>8, BackupBitmapCovers
  <1>10. BackupCovered(run.parent.object)'
    BY <1>1, <1>7, <1>9, JobStays DEF BackupCovered
  <1> QED
    BY <1>1, <1>7, <1>10 DEF Stage, Early

LEMMA RestoreBitmapStage ==
  ASSUME Types, Stage, RestoreBitmap
  PROVE  Stage'
  <1>1. /\ run.pc = "bitmap" /\ job.kind = "restore" /\ UNCHANGED <<job, chan, wr, obj, saved, dest>>
        /\ job \in Jobs
    BY DEF RestoreBitmap, Types
  <1>2. PICK bm \in IF ~job.incremental
                    THEN {[blocks |-> SetFull(Len(Snap.object) * BlockSize), err |-> FALSE]}
                    ELSE SetBitmapOrFull(
                           Len(Snap.object) * BlockSize,
                           OfThisVolume(Snap),
                           Differences(job.device, Snap.device), {}, TRUE) :
              /\ run' = [run EXCEPT !.pc = "open", !.blocks = bm.blocks,
                                    !.errors = @ \/ bm.err]
              /\ rd' = [rd EXCEPT !.todo = bm.blocks]
    BY DEF RestoreBitmap
  <1>3. run'.pc = "open" /\ run'.blocks = bm.blocks
        /\ run'.result = run.result /\ rd'.todo = bm.blocks /\ rd'.pc = rd.pc
    BY <1>2 DEF Types, RunOK, RunType, RdOK
  <1>4. \/ bm.blocks = 0 .. Len(Snap.object) - 1
        \/ Covers(bm.blocks, Differences(job.device, Snap.device), Len(Snap.object) * BlockSize)
    BY <1>1, RestoreBlocks
  <1>5. /\ SourceSize \in Nat /\ Len(Snap.object) = BlocksIn(Positions(Snap.device))
        /\ SourceSize <= Len(Snap.object) * BlockSize /\ Len(Snap.object) \in Nat
        /\ IsDevice(Snap.device) /\ Snap.object = ObjectOf(Snap.device)
    BY <1>1, SourceIsNat, JobFacts
  <1>6. ASSUME NEW p \in DOMAIN job.device, p < SourceSize, p \div BlockSize \notin bm.blocks
        PROVE  job.device[p] = Target(p)
    <2> DEFINE d == p \div BlockSize
               m == Len(Snap.object)
               size == m * BlockSize
    <2>1. p \in Nat /\ d \in Nat /\ d * BlockSize <= p
      <3>1. p \in Nat
        BY <1>1, JobFacts
      <3>2. d \in Nat
        BY <3>1, Division
      <3> QED
        BY <3>1, <3>2, BlockAt
    <2>2. size \in Nat /\ p < size
      <3>1. size \in Nat
        BY <1>5, WholeBlocks
      <3> HIDE DEF size
      <3> QED
        BY <1>5, <1>6, <2>1, <3>1 DEF size
    <2>3. d < m
      <3>1. d * BlockSize \in Nat
        BY <2>1, WholeBlocks
      <3>2. d * BlockSize < size
        <4> DEFINE a == d * BlockSize
        <4>1. a \in Nat /\ a <= p
          BY <2>1, <3>1
        <4> HIDE DEF a, size, d
        <4>2. a < size
          BY <2>1, <2>2, <4>1
        <4> QED
          BY <4>2 DEF a
      <3> QED
        BY <1>5, <2>1, <3>2, Times
    <2>4. Covers(bm.blocks, Differences(job.device, Snap.device), size)
      <3>1. d \in 0 .. m - 1
        <4> HIDE DEF d, m
        <4> QED
          BY <1>5, <2>1, <2>3 DEF m
      <3> QED
        BY <1>4, <1>6, <3>1
    <2>5. p \in DOMAIN Snap.device /\ Snap.device[p] = job.device[p]
      <3>1. p \notin Differences(job.device, Snap.device)
        BY <1>6, <2>2, <2>4 DEF Covers
      <3> QED
        BY <3>1 DEF Differences
    <2>6. Snap.object[d + 1] = BlockOf(Snap.device, d)
      <3>1. d + 1 \in 1 .. m /\ (d + 1) - 1 = d
        <4> HIDE DEF d, m
        <4> QED
          BY <1>5, <2>1, <2>3 DEF m
      <3> QED
        BY <1>5, <3>1, ObjectIsSeq
    <2>7. BlockOf(Snap.device, d)[(p % BlockSize) + 1] = Snap.device[p]
      BY <1>5, <2>5, BlockEntry
    <2> QED
      BY <1>6, <2>5, <2>6, <2>7 DEF Target
  <1>7. RestoreCovered'
    BY <1>1, <1>3, <1>6, JobStays DEF RestoreCovered, Target
  <1> QED
    BY <1>1, <1>3, <1>7 DEF Stage, Early

\* The copying starts.
LEMMA CopyStarts ==
  ASSUME Types, Stage, run.pc = "open", UNCHANGED <<job, chan, saved>>,
         run' = Start(run), rd' = [rd EXCEPT !.pc = "take"], wr' = [wr EXCEPT !.pc = "receive"],
         Going'
  PROVE  Stage'
  <1>1. /\ rd.todo = run.blocks /\ chan.results = <<>> /\ ~chan.closed
        /\ wr.pc = "idle" /\ wr.count = 0 /\ wr.last = 0 /\ wr.err = "none"
        /\ run.result # "completed"
    BY DEF Stage, Early
  <1>2. /\ run'.pc = "copy" /\ run'.blocks = run.blocks /\ run'.result = run.result
        /\ rd'.pc = "take" /\ rd'.todo = rd.todo
        /\ wr'.pc = "receive" /\ wr'.count = 0 /\ wr'.last = 0 /\ wr'.err = "none"
    BY <1>1 DEF Start, Types, RunOK, RunType, RdOK, WrOK, WrType
  <1>3. run.blocks \in SUBSET Nat /\ Cardinality(run.blocks) \in Nat
    BY FS_CardinalityType DEF Types, RunOK, RunType
  <1>4. QueueInv'
    BY <1>1, <1>2, <1>3 DEF QueueInv
  <1>5. CountInv'
    BY <1>1, <1>2, <1>3 DEF CountInv
  <1> QED
    BY <1>1, <1>2, <1>4, <1>5 DEF Stage, Early

\* The job ends without success.
LEMMA RunFails ==
  ASSUME Types, Stage, run.pc # "copy", rd.pc \in {"idle", "left"}, wr.pc \in {"idle", "left"},
         UNCHANGED <<job, rd, wr>>,
         run' = Fail(run), saved' # Nothing => saved'[1].object = ObjectOf(job.device)
  PROVE  Stage'
  <1>1. run'.pc = "ended" /\ run'.result = "failed"
    BY DEF Fail, Types, RunOK, RunType
  <1> QED
    BY <1>1 DEF Stage, Early

LEMMA NewObjectWriterStage ==
  ASSUME Types, Stage, NewObjectWriter
  PROVE  Stage'
  <1>1. run.pc = "open" /\ job.kind = "backup" /\ UNCHANGED <<job, chan, saved, dest>>
    BY DEF NewObjectWriter
  <1>2. CASE run' = Fail(run) /\ UNCHANGED <<obj, rd, wr>>
    BY <1>1, <1>2, RunFails DEF Stage
  <1>3. CASE /\ run' = Start(run)
             /\ obj' = [obj EXCEPT !.parent = run.parent.object]
             /\ rd' = [rd EXCEPT !.pc = "take"]
             /\ wr' = [wr EXCEPT !.pc = "receive"]
    <2>1. /\ obj.entries = <<>> /\ obj.async = {} /\ wr.last = 0 /\ wr.zero = <<>>
          /\ BackupCovered(run.parent.object)
      BY <1>1 DEF Stage, Early
    <2>2. /\ obj'.entries = <<>> /\ obj'.async = {} /\ obj'.parent = run.parent.object
          /\ wr'.last = 0 /\ wr'.zero = <<>> /\ run'.blocks = run.blocks
      BY <1>3, <2>1 DEF Start, Types, ObjOK, ObjType, WrOK, WrType, RunOK, RunType
    <2>3. BackupCovered(obj.parent)'
      BY <1>1, <2>1, <2>2, JobStays DEF BackupCovered
    <2>4. Limit' = Limit /\ Limit \in Nat
      BY <1>1, JobStays, JobFacts DEF Types
    <2>5. ObjInv(wr.last)'
      BY <2>2, <2>4 DEF ObjInv
    <2>6. Going'
      BY <1>1, <2>2, <2>3, <2>5 DEF Going
    <2> QED
      BY <1>1, <1>3, <2>6, CopyStarts
  <1> QED
    BY <1>2, <1>3 DEF NewObjectWriter

LEMMA OpenObjectStage ==
  ASSUME Types, Stage, OpenObject
  PROVE  Stage'
  <1>1. run.pc = "open" /\ job.kind = "restore" /\ UNCHANGED <<job, chan, obj, saved, dest>>
        /\ job \in Jobs
    BY DEF OpenObject, Types
  <1>2. CASE run' = Fail(run) /\ UNCHANGED <<rd, wr>>
    BY <1>1, <1>2, RunFails DEF Stage
  <1>3. CASE /\ run' = Start(run)
             /\ rd' = [rd EXCEPT !.pc = "take"]
             /\ wr' = [wr EXCEPT !.pc = "receive"]
    <2>1. wr.last = 0 /\ wr.zero = <<>> /\ dest = job.device /\ RestoreCovered
      BY <1>1 DEF Stage, Early
    <2>2. wr'.last = 0 /\ wr'.zero = <<>> /\ run'.blocks = run.blocks
      BY <1>3, <2>1 DEF Start, Types, WrOK, WrType, RunOK, RunType
    <2>3. RestoreCovered'
      BY <1>1, <2>1, <2>2, CoversStay
    <2>4. SourceSize \in Nat /\ run.blocks \in SUBSET Nat
          /\ \A p \in DOMAIN job.device : p \in Nat
      BY <1>1, SourceIsNat, JobFacts DEF Types, RunOK, RunType
    <2>5. ASSUME NEW p \in DOMAIN dest
          PROVE  \/ dest[p] = Target(p)
                 \/ /\ p < SourceSize
                    /\ p \div BlockSize \in run.blocks /\ 0 <= p \div BlockSize
      <3>1. CASE ~(p < SourceSize)
        BY <2>1, <3>1 DEF Target
      <3>2. CASE p < SourceSize /\ p \div BlockSize \in run.blocks
        BY <2>4, <3>2
      <3>3. CASE p < SourceSize /\ p \div BlockSize \notin run.blocks
        BY <2>1, <3>3 DEF RestoreCovered
      <3> QED
        BY <3>1, <3>2, <3>3
    <2>6. DestInv'
      BY <1>1, <2>1, <2>2, <2>5, JobStays DEF DestInv, InZero, Target
    <2>7. Going'
      BY <1>1, <2>3, <2>6 DEF Going
    <2> QED
      BY <1>1, <1>3, <2>7, CopyStarts
  <1> QED
    BY <1>2, <1>3 DEF OpenObject

LEMMA CopyEndsStage ==
  ASSUME Types, Stage, CopyEnds
  PROVE  Stage'
  <1>1. /\ run.pc = "copy" /\ rd.pc = "left" /\ wr.pc = "left"
        /\ UNCHANGED <<job, rd, chan, wr, obj, saved, dest>> /\ job \in Jobs
    BY DEF CopyEnds, BothLeft, Types
  <1>2. job.kind \in {"backup", "restore"} /\ Limit \in Nat /\ wr.last \in Nat
        /\ wr.err \in {"none", "failed", "cancelled"} /\ run.result # "completed"
    BY <1>1, JobFacts DEF Types, WrOK, WrType, Stage
  <1>3. CASE wr.err # "none"
    <2>1. run'.pc = "ended" /\ run'.result = wr.err
      BY <1>3 DEF CopyEnds, Types, RunOK, RunType
    <2> QED
      BY <1>1, <1>2, <1>3, <2>1 DEF Stage, Early
  <1>4. CASE wr.err = "none" /\ job.kind = "restore"
    <2>1. run'.pc = "ended" /\ run'.result = "completed"
      BY <1>4 DEF CopyEnds, Types, RunOK, RunType
    <2>2. DestDone
      BY <1>1, <1>4 DEF Stage, Gone
    <2>3. DestDone'
      BY <1>1, <2>2, JobStays DEF DestDone, Target
    <2> QED
      BY <1>1, <2>1, <2>3 DEF Stage, Early
  <1>5. CASE wr.err = "none" /\ job.kind = "backup"
    <2>1. Gone
      BY <1>1, <1>5 DEF Stage
    <2>2. run'.blocks = run.blocks /\ run'.result = run.result
          /\ run'.pc = IF wr.last < Limit THEN "tail" ELSE "result"
      BY <1>5 DEF CopyEnds, Types, RunOK, RunType, Limit, Size
    <2>3. Gone'
      BY <1>1, <2>1, <2>2, GoneStays
    <2>4. ~(wr.last < Limit) => ObjInv(Limit)
      <3>1. ObjInv(wr.last)
        BY <1>5, <2>1 DEF Gone
      <3>2. wr.last <= Limit
        BY <3>1 DEF ObjInv
      <3>3. ~(wr.last < Limit) => wr.last = Limit
        BY <1>2, <3>2
      <3> QED
        BY <3>1, <3>3
    <2>5. ~(wr.last < Limit) => ObjInv(Limit)'
      BY <1>1, <2>4, JobStays DEF ObjInv
    <2>6. Limit' = Limit
      BY <1>1, JobStays
    <2> QED
      BY <1>1, <1>2, <1>5, <2>2, <2>3, <2>5, <2>6 DEF Stage, Early
  <1> QED
    BY <1>2, <1>3, <1>4, <1>5

LEMMA CopyTailStage ==
  ASSUME Types, Stage, CopyTailData
  PROVE  Stage'
  <1> DEFINE last == Size \div BlockSize
  <1>1. /\ run.pc = "tail" /\ UNCHANGED <<job, rd, chan, wr, saved, dest>>
        /\ job \in Jobs /\ job.kind = "backup"
        /\ rd.pc \in {"idle", "left"} /\ wr.pc \in {"idle", "left"}
        /\ Gone /\ wr.last < Limit /\ run.result # "completed"
        /\ saved # Nothing => saved[1].object = ObjectOf(job.device)
    BY DEF CopyTailData, Types, Stage
  <1>2. CASE run' = Fail(run)
    BY <1>1, <1>2, RunFails
  <1>3. CASE /\ run' = [run EXCEPT !.pc = "result"]
             /\ IF Size % BlockSize = 0 THEN WriteAt(<<>>, last)
                ELSE WriteAt(BlockOf(job.device, last), last)
    <2>1. /\ Size \in Nat /\ last \in Nat /\ Limit = BlocksIn(Size) /\ Limit \in Nat
          /\ Limit' = Limit /\ last >= Limit - 1
          /\ IF Size % BlockSize = 0 THEN last = Limit ELSE last = Limit - 1
      <3>1. Size \in Nat /\ BlocksIn(Size) \in Nat /\ Limit = BlocksIn(Size) /\ Limit' = Limit
        BY <1>1, JobFacts, JobStays DEF Limit
      <3>2. last \in Nat
        BY <3>1, Division
      <3>3. /\ Size % BlockSize = 0 => last = BlocksIn(Size)
            /\ Size % BlockSize # 0 => last = BlocksIn(Size) - 1
        BY <3>1, BlocksDivided
      <3> HIDE DEF last
      <3>4. last >= BlocksIn(Size) - 1
        BY <3>1, <3>2, <3>3
      <3> QED
        BY <3>1, <3>2, <3>3, <3>4
    <2>2. /\ AllWritten /\ BackupCovered(obj.parent) /\ ObjInv(wr.last)
          /\ wr.last \in Nat /\ run.blocks \in SUBSET Nat
      BY <1>1 DEF Gone, Types, WrOK, WrType, RunOK, RunType
    <2>3. PICK n \in Nat : n = wr.last
      BY <2>2
    <2>4. PICK l \in Nat : l = last
      BY <2>1
    <2> HIDE DEF last
    <2>5. n <= l
      BY <1>1, <2>1, <2>3, <2>4
    <2>6. ObjInv(n) /\ \A b \in run.blocks : b < n \/ l <= b
      BY <2>2, <2>3 DEF AllWritten
    <2>7. l <= Size \div BlockSize
      BY <2>1, <2>4 DEF last
    <2>8. ObjInv(Limit)'
      <3>1. CASE Size % BlockSize = 0
        <4>1. WriteAt(<<>>, l) /\ l <= Limit /\ l = Limit
          BY <1>3, <2>1, <2>4, <3>1
        <4>2. ObjInv(l)'
          BY <1>1, <2>2, <2>5, <2>6, <2>7, <4>1, ObjGrows
        <4> QED
          BY <2>1, <4>1, <4>2 DEF ObjInv
      <3>2. CASE Size % BlockSize # 0
        <4>1. WriteAt(BlockOf(job.device, l), l) /\ l < Limit /\ l + 1 = Limit
          BY <1>3, <2>1, <2>4, <3>2
        <4>2. ObjInv(l + 1)'
          BY <1>1, <2>2, <2>5, <2>6, <2>7, <4>1, ObjGrows
        <4> QED
          BY <2>1, <4>1, <4>2 DEF ObjInv
      <3> QED
        BY <3>1, <3>2
    <2>9. run'.pc = "result" /\ run'.result = run.result
      BY <1>3 DEF Types, RunOK, RunType
    <2> QED
      BY <1>1, <2>8, <2>9 DEF Stage, Early
  <1> QED
    BY <1>2, <1>3 DEF CopyTailData, Size

\* Once every block is written the object is that of the volume.
LEMMA ResultStage ==
  ASSUME Types, Stage, Result
  PROVE  Stage'
  <1>1. /\ run.pc = "result" /\ UNCHANGED <<job, rd, chan, wr, obj, saved, dest>>
        /\ job \in Jobs /\ job.kind = "backup" /\ obj.async = {}
        /\ rd.pc \in {"idle", "left"} /\ wr.pc \in {"idle", "left"}
        /\ ObjInv(Limit) /\ run.result # "completed"
        /\ saved # Nothing => saved[1].object = ObjectOf(job.device)
    BY DEF Result, Types, Stage
  <1>2. CASE run' = Fail(run)
    BY <1>1, <1>2, RunFails
  <1>3. CASE run' = [run EXCEPT !.pc = "save"] /\ ~obj.err
    <2>1. IsDevice(job.device) /\ Limit = BlocksIn(Size) /\ Limit \in Nat
      BY <1>1, JobFacts DEF Limit
    <2>2. obj.entries \in Seq(EntryData) /\ Len(obj.entries) = Limit
      BY <1>1 DEF ObjInv, Types, ObjOK, ObjType
    <2>3. \A j \in 1 .. Limit : obj.entries[j] = BlockOf(job.device, j - 1)
      BY <1>1, <1>3 DEF ObjInv
    <2>4. /\ ObjectOf(job.device) \in Seq(BlockData) /\ Len(ObjectOf(job.device)) = Limit
          /\ \A j \in 1 .. Limit : ObjectOf(job.device)[j] = BlockOf(job.device, j - 1)
      BY <2>1, ObjectIsSeq DEF Size
    <2>5. obj.entries = ObjectOf(job.device)
      <3> DEFINE e == obj.entries
                 o == ObjectOf(job.device)
      <3>1. e \in Seq(EntryData) /\ o \in Seq(BlockData) /\ Len(e) = Len(o)
            /\ \A j \in 1 .. Len(e) : e[j] = o[j]
        BY <2>2, <2>3, <2>4
      <3>2. e \in Seq(EntryData) /\ o \in Seq(EntryData)
        <4> HIDE DEF e, o
        <4> QED
          BY <3>1 DEF EntryData
      <3> HIDE DEF e, o
      <3> QED
        BY <3>1, <3>2, SeqEqual DEF e, o
    <2>6. run'.pc = "save" /\ run'.result = run.result
      BY <1>3 DEF Types, RunOK, RunType
    <2> QED
      BY <1>1, <2>5, <2>6 DEF Stage, Early
  <1> QED
    BY <1>2, <1>3 DEF Result

LEMMA SaveStage ==
  ASSUME Types, Stage, SaveSnapshot
  PROVE  Stage'
  <1>1. /\ run.pc = "save" /\ UNCHANGED <<job, rd, chan, wr, obj, dest>> /\ job.kind = "backup"
        /\ rd.pc \in {"idle", "left"} /\ wr.pc \in {"idle", "left"}
        /\ obj.entries = ObjectOf(job.device)
        /\ saved # Nothing => saved[1].object = ObjectOf(job.device)
    BY DEF SaveSnapshot, Stage
  <1> DEFINE snap == [object |-> obj.entries, size |-> Positions(job.device)]
  <1>2. <<snap>>[1].object = ObjectOf(job.device)
    BY <1>1
  <1>3. saved' # Nothing => saved'[1].object = ObjectOf(job.device)
    BY <1>1, <1>2 DEF SaveSnapshot
  <1>4. CASE run' = Fail(run)
    BY <1>1, <1>3, <1>4, RunFails
  <1>5. CASE run' = [run EXCEPT !.pc = "ended", !.result = "completed"]
    <2>1. run'.pc = "ended" /\ run'.result = "completed"
      BY <1>5 DEF Types, RunOK, RunType
    <2> QED
      BY <1>1, <1>3, <2>1 DEF Stage, Early
  <1> QED
    BY <1>4, <1>5 DEF SaveSnapshot

LEMMA ParentStage ==
  ASSUME Types, Stage, GetParentBackupInfo
  PROVE  Stage'
  <1>1. /\ run.pc = "parent" /\ UNCHANGED <<job, rd, chan, wr, obj, saved, dest>>
        /\ job.kind = "backup" /\ run.parent = FullBackup /\ run.result # "completed"
    BY DEF GetParentBackupInfo, Stage
  <1>2. /\ run'.pc = "bitmap" /\ run'.result = run.result
        /\ \/ run'.parent = run.parent
           \/ /\ Parent \in DOMAIN job.snaps
              /\ run'.parent = [object |-> job.snaps[Parent].object, from |-> Parent]
    BY DEF GetParentBackupInfo, Types, RunOK, RunType
  <1>3. \/ run'.parent = FullBackup
        \/ /\ run'.parent.from \in DOMAIN job.snaps
           /\ run'.parent.object = job.snaps[run'.parent.from].object
    <2>1. CASE run'.parent = run.parent
      BY <1>1, <2>1
    <2>2. CASE Parent \in DOMAIN job.snaps
               /\ run'.parent = [object |-> job.snaps[Parent].object, from |-> Parent]
      <3>1. run'.parent.from = Parent /\ run'.parent.object = job.snaps[Parent].object
        BY <2>2
      <3> QED
        BY <2>2, <3>1
    <2> QED
      BY <1>2, <2>1, <2>2
  <1>4. FullBackup' = FullBackup
    BY DEF FullBackup, Nothing
  <1> QED
    BY <1>1, <1>2, <1>3, <1>4 DEF Stage, Early

LEMMA NextStage == Types /\ Stage /\ [BlockNext]_blockVars => Stage'
  <1> SUFFICES ASSUME Types, Stage, [BlockNext]_blockVars PROVE Stage'
    OBVIOUS
  <1>1. CASE UNCHANGED blockVars \/ PrefetchStep \/ Cancel
    <2>1. UNCHANGED <<job, run, rd, chan, wr, obj, saved, dest>>
      BY <1>1 DEF blockVars, PrefetchStep, Cancel
    <2> QED
      BY <2>1, StageStays
  <1>2. CASE GetParentBackupInfo \/ BackupBitmap \/ NewObjectWriter \/ RestoreBitmap \/ OpenObject
    BY <1>2, ParentStage, BackupBitmapStage, NewObjectWriterStage, RestoreBitmapStage,
       OpenObjectStage
  <1>3. CASE TakeBuffer \/ ReadBlock
    BY <1>3, TakeBufferStage, ReadStage
  <1>4. CASE WriterCancelled \/ Drained \/ Receive \/ BackupWrite \/ RestoreWrite \/ FlushZeroBlocks
    BY <1>4, DrainedStage, ReceiveStage, BackupWriteStage, RestoreWriteStage, FlushStage
  <1>5. CASE \E w \in obj.async : WriteObject(w)
    BY <1>5, WriteObjectStage
  <1>6. CASE CopyEnds \/ CopyTailData \/ Result \/ SaveSnapshot
    BY <1>6, CopyEndsStage, CopyTailStage, ResultStage, SaveStage
  <1> QED
    BY <1>1, <1>2, <1>3, <1>4, <1>5, <1>6 DEF BlockNext, BlockStep

-----------------------------------------------------------------------------
(***************************************************************************)
(* The theorems.                                                           *)
(***************************************************************************)
\* The types, and what holds at each stage of a job, hold in every state.
THEOREM StagesHold == BlockSpec => [](Types /\ Stage)
  <1>1. BlockInit => Types /\ Stage
    BY InitTypes, InitStage
  <1>2. Types /\ Stage /\ [BlockNext]_blockVars => (Types /\ Stage)'
    BY NextTypes, NextStage
  <1> QED
    BY <1>1, <1>2, PTL DEF BlockSpec

\* A snapshot that can be found holds the volume as it was
\* (block_uploader.go, object_writer.go): whichever blocks the bitmap leaves
\* out, from whichever parent they are cloned, in whatever order the
\* goroutines write, and whichever calls fail or are cancelled.
THEOREM SnapshotIsTheVolume == BlockSpec => []SavedIsSource
  <1>1. Types /\ Stage => SavedIsSource
    BY DEF Stage, SavedIsSource
  <1> QED
    BY <1>1, StagesHold, PTL

\* A restore that completes leaves on the device what the snapshot holds, and
\* leaves alone what lies beyond the volume: the blocks that are skipped were
\* there already, and zeros that are put off are all written.
THEOREM RestoreIsTheSnapshot == BlockSpec => []RestoredIsSaved
  <1>1. Types /\ Stage => RestoredIsSaved
    BY DEF Stage, RestoredIsSaved, DestDone, Target
  <1> QED
    BY <1>1, StagesHold, PTL
=============================================================================
