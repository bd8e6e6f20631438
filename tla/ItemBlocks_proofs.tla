-------------------------- MODULE ItemBlocks_proofs --------------------------
(***************************************************************************)
(* Theorems about ItemBlocks, for any number of pods, claims and workers   *)
(* and any cluster.                                                        *)
(***************************************************************************)
EXTENDS ItemBlocks, FiniteSetTheorems, TLAPS

-----------------------------------------------------------------------------
(* Sequences. *)

Injective(s) == \A m, n \in DOMAIN s : s[m] = s[n] => m = n

\* The empty sequence has no elements.
LEMMA EmptyFacts == ToSet(<<>>) = {} /\ Injective(<<>>)
  BY DEF ToSet, Injective

\* What is appended is one more element.
LEMMA AppendFacts ==
    ASSUME NEW S, NEW s \in Seq(S), NEW x \in S
    PROVE  /\ Append(s, x) \in Seq(S)
           /\ ToSet(Append(s, x)) = ToSet(s) \cup {x}
           /\ Injective(s) /\ x \notin ToSet(s) => Injective(Append(s, x))
<1>1. Append(s, x) \in Seq(S) /\ Len(Append(s, x)) = Len(s) + 1
  OBVIOUS
<1>2. DOMAIN s = 1 .. Len(s) /\ DOMAIN Append(s, x) = 1 .. Len(s) + 1
  BY <1>1
<1>3. /\ Append(s, x)[Len(s) + 1] = x
      /\ \A n \in 1 .. Len(s) : Append(s, x)[n] = s[n]
  OBVIOUS
<1>4. ToSet(Append(s, x)) = ToSet(s) \cup {x}
  BY <1>2, <1>3 DEF ToSet
<1>5. Injective(s) /\ x \notin ToSet(s) => Injective(Append(s, x))
  BY <1>2, <1>3 DEF ToSet, Injective
<1>6. QED
  BY <1>1, <1>4, <1>5

\* The head and the elements of the tail are the elements.
LEMMA TailFacts ==
    ASSUME NEW S, NEW s \in Seq(S), s # <<>>
    PROVE  /\ Head(s) \in S /\ Tail(s) \in Seq(S)
           /\ ToSet(s) = {Head(s)} \cup ToSet(Tail(s))
           /\ Injective(s) => Injective(Tail(s)) /\ Head(s) \notin ToSet(Tail(s))
<1>1. /\ Tail(s) \in Seq(S) /\ Len(Tail(s)) = Len(s) - 1
      /\ Len(s) \in Nat \ {0} /\ Head(s) = s[1] /\ s[1] \in S
  OBVIOUS
<1>2. DOMAIN s = 1 .. Len(s) /\ DOMAIN Tail(s) = 1 .. Len(s) - 1
  BY <1>1
<1>3. \A n \in 1 .. Len(s) - 1 : Tail(s)[n] = s[n + 1]
  BY <1>1
<1>4. ASSUME NEW x \in ToSet(s)
      PROVE  x \in {Head(s)} \cup ToSet(Tail(s))
  <2>1. PICK n \in 1 .. Len(s) : x = s[n]
    BY <1>2 DEF ToSet
  <2>2. CASE n = 1
    BY <1>1, <2>1, <2>2
  <2>3. CASE n # 1
    <3>1. n - 1 \in 1 .. Len(s) - 1 /\ Tail(s)[n - 1] = s[n]
      BY <1>1, <1>3, <2>1, <2>3
    <3>2. QED
      BY <1>2, <2>1, <3>1 DEF ToSet
  <2>4. QED
    BY <2>2, <2>3
<1>5. {Head(s)} \cup ToSet(Tail(s)) \subseteq ToSet(s)
  BY <1>1, <1>2, <1>3 DEF ToSet
<1>6. Injective(s) => Injective(Tail(s)) /\ Head(s) \notin ToSet(Tail(s))
  BY <1>1, <1>2, <1>3 DEF ToSet, Injective
<1>7. QED
  BY <1>1, <1>4, <1>5, <1>6

\* The top of a stack can be replaced and removed.
LEMMA StackFacts ==
    ASSUME NEW S, NEW s \in Seq(S), s # <<>>
    PROVE  /\ Len(s) \in Nat \ {0} /\ DOMAIN s = 1 .. Len(s)
           /\ Last(s) = s[Len(s)] /\ Last(s) \in S
           /\ Front(s) \in Seq(S) /\ DOMAIN Front(s) = 1 .. Len(s) - 1
           /\ \A n \in 1 .. Len(s) - 1 : Front(s)[n] = s[n]
<1>1. /\ Len(s) \in Nat \ {0} /\ DOMAIN s = 1 .. Len(s)
      /\ Last(s) = s[Len(s)] /\ Last(s) \in S
  BY DEF Last
<1>2. Front(s) = [n \in 1 .. Len(s) - 1 |-> s[n]]
  BY <1>1 DEF Front
<1>3. QED
  BY <1>1, <1>2

LEMMA ReplaceTop ==
    ASSUME NEW S, NEW s \in Seq(S), s # <<>>, NEW f \in S
    PROVE  /\ Append(Front(s), f) \in Seq(S)
           /\ DOMAIN Append(Front(s), f) = 1 .. Len(s)
           /\ Append(Front(s), f)[Len(s)] = f
           /\ \A n \in 1 .. Len(s) - 1 : Append(Front(s), f)[n] = s[n]
<1>1. Front(s) \in Seq(S) /\ Len(s) \in Nat \ {0} /\ Len(Front(s)) = Len(s) - 1
  BY StackFacts
<1>2. Len(Append(Front(s), f)) = Len(s)
  BY <1>1
<1>3. QED
  BY <1>1, <1>2, StackFacts

-----------------------------------------------------------------------------
(***************************************************************************)
(* The inductive invariant.                                                *)
(***************************************************************************)
MainType ==
    main \in [at : {"sending", "waiting", "canceled", "done"},
              nth : 0 .. Len(Order) + 1, seen : SUBSET Item,
              items : Seq(Item), todo : Seq(SUBSET Item)]

WorkersType ==
    workers \in [Worker ->
           [at : {"idle", "items", "post", "wait"}, block : Seq(Item),
            hooked : SUBSET Pod, frames : Seq(Frame)]]

PVBTypes ==
    /\ index \in [PVB -> {"None", "New"} \cup Final]
    /\ objects \in [PVB -> [phase : {"None", "New"} \cup Final,
                            cancel : BOOLEAN]]
    /\ wg \in Int /\ timeUp \in BOOLEAN
    /\ mishaps \in 0 .. MaxMishaps

DataTypes ==
    /\ counted \subseteq Item
    /\ tracker \in [Claim -> {"none", "tracked", "taken", "optedout"}]
    /\ skipped \subseteq Volume /\ taken \subseteq Volume
    /\ skipped \cap taken = {}
    /\ snapshots \in [Claim -> Nat]
    /\ archive \in [Item -> Nat]
    /\ failed \in BOOLEAN

\* The types, with the counters not yet bounded.
Types ==
    /\ cluster \in Clusters
    /\ MainType /\ WorkersType /\ PVBTypes /\ DataTypes
    /\ pending \in Int /\ blocks \in Seq(Seq(Item))
    /\ released \subseteq quiesced /\ quiesced \subseteq Pod

InTodo(i) == \E n \in DOMAIN main.todo : i \in main.todo[n]
InItems(i) == i \in ToSet(main.items)
InQueue(i) == \E n \in DOMAIN blocks : i \in ToSet(blocks[n])

\* The main loop: what is to be added is new, what has been passed is seen.
LoopInv ==
    /\ \A i \in Item : InTodo(i) => i \notin main.seen
    /\ Injective(main.items)
    /\ \A i \in ToSet(main.items) : i \in main.seen /\ Included(i)
    /\ \A n \in DOMAIN Order : n <= main.nth =>
           \/ Order[n] \in main.seen
           \/ n = main.nth /\ InTodo(Order[n])
    /\ main.nth = 0 => main.items = <<>> /\ main.todo = <<>> /\ pending = 0
    /\ main.nth > 0 => pending <= main.nth - 1
    /\ main.nth > Len(Order) => main.items = <<>> /\ main.todo = <<>>
    /\ main.at # "sending" => main.nth > Len(Order) /\ pending = 0

\* The blocks that are sent: no item has two.
QueueInv ==
    /\ \A n \in DOMAIN blocks :
           /\ Injective(blocks[n])
           /\ \A i \in ToSet(blocks[n]) :
                  i \in main.seen /\ Included(i) /\ ~InItems(i)
    /\ \A m, n \in DOMAIN blocks :
           m # n => ToSet(blocks[m]) \cap ToSet(blocks[n]) = {}

\* A running pod and a claim it mounts, neither of which met an error.
Linked(i, r) ==
    /\ Included(i) /\ Included(r)
    /\ Resolved(i) /\ Resolved(r)
    /\ \/ i \in Pod \cap cluster.running /\ r \in Claim /\ r \in Mounted(i)
       \/ r \in Pod \cap cluster.running /\ i \in Claim /\ i \in Mounted(r)

Sent(i) == i \in main.seen /\ Included(i) /\ ~InItems(i)

\* What is linked is in one block.
LinkInv ==
    \A i, r \in Item : Linked(i, r) =>
        /\ Sent(i) => Sent(r)
        /\ InItems(i) => InItems(r) \/ InTodo(r)
        /\ \A n \in DOMAIN blocks :
               i \in ToSet(blocks[n]) => r \in ToSet(blocks[n])

Busy == {w \in Worker : workers[w].at # "idle"}

PendingInv == pending = Len(blocks) + Cardinality(Busy)

Hooked(w, p) == p \in workers[w].hooked
FailedHook(p) == cluster.hooks[p] = "fails" /\ p \in counted

\* No PVB of the pod for one of these claims is known.
Fresh(p, S) == \A c \in S : index[<<p, c>>] = "None"

Untouched(p) ==
    /\ p \notin counted /\ p \notin quiesced /\ Fresh(p, Claim)
    /\ \A w \in Worker :
           ~Hooked(w, p) /\ p \notin ToSet(workers[w].block)

\* A pod whose block has not been taken is untouched.
StartInv ==
    \A p \in Pod :
        \/ Untouched(p)
        \/ p \in main.seen /\ ~InItems(p) /\ ~InQueue(p)

\* A frame at the n-th place of the worker's stack.
FrameFits(w, n, f) ==
    /\ f.todo \cap Pod = {}
    /\ f.at = "volumes" => f.item \in Pod \cap cluster.running
    /\ f.item \in Pod =>
           /\ n = 1
           /\ \/ Hooked(w, f.item)
              \/ f.at = "check" /\ FailedHook(f.item)
           /\ f.vols \subseteq Mounted(f.item)
           /\ f.at = "volumes" => Fresh(f.item, f.vols)
           /\ f.at \notin {"volumes", "write"} => Fresh(f.item, Claim)

FramesInv ==
    \A w \in Worker : \A n \in DOMAIN workers[w].frames :
        FrameFits(w, n, workers[w].frames[n])

\* The pods still to come in a worker's block.
ToComeInv ==
    \A w \in Worker :
        /\ Injective(workers[w].block)
        /\ workers[w].at # "items" =>
               workers[w].block = <<>> /\ workers[w].frames = <<>>
        /\ workers[w].at = "idle" => workers[w].hooked = {}
        /\ \A p \in ToSet(workers[w].block) \cap Pod :
               /\ Hooked(w, p) \/ FailedHook(p)
               /\ Fresh(p, Claim)
               /\ \A n \in DOMAIN workers[w].frames :
                      workers[w].frames[n].item # p

\* The pods whose post hooks a worker has yet to run.
HookedInv ==
    \A w \in Worker : \A p \in workers[w].hooked :
        /\ Included(p) /\ cluster.hooks[p] # "fails"
        /\ cluster.hooks[p] = "ok" => p \in quiesced \ released
        /\ \A v \in Worker : Hooked(v, p) => v = w
        /\ \A q \in Pod, c \in Claim : Linked(p, c) /\ Linked(c, q) =>
               Hooked(w, q) \/ cluster.hooks[q] = "fails"

\* A pod that must not go on while the claim is copied.
Held(p, c) ==
    /\ p \in UsersOf(c) \cap cluster.running /\ cluster.hooks[p] = "ok"
    /\ Included(p) /\ Included(c)
    /\ Resolved(p) /\ Resolved(c)

\* The post hooks of the pods were given up.
Orphan(k) ==
    Resolved(k[1]) => \A p \in Pod : Held(p, k[2]) =>
        p \in quiesced \ released /\ \A w \in Worker : ~Hooked(w, p)

PVBInv ==
    \A k \in PVB :
        /\ index[k] = "None" => objects[k].phase = "None"
        /\ index[k] \in Final => objects[k].phase \in Final
        /\ objects[k].phase # "None" =>
               k[2] \in Mounted(k[1]) /\ k[1] \in cluster.running
        /\ objects[k].phase = "New" =>
               Orphan(k) \/ \E w \in Worker : Hooked(w, k[1])

Waited == {k \in PVB : index[k] = "New" /\ objects[k].phase # "None"}

GroupInv == wg = Cardinality(Waited)

Beyond == Steps \ {"check", "add"}

InFrame(w, i) ==
    \E n \in DOMAIN workers[w].frames : workers[w].frames[n].item = i
Under(w, i) ==
    \E n \in DOMAIN workers[w].frames :
        workers[w].frames[n].item = i /\ workers[w].frames[n].at \in Beyond

\* An item that has been seen is on its way to the archive or there.
Covered(i) ==
    \/ InItems(i) \/ InQueue(i) \/ archive[i] > 0
    \/ \E w \in Worker : i \in ToSet(workers[w].block) \/ InFrame(w, i)

\* An item that is counted as backed up will be.
Backed(i) == archive[i] > 0 \/ \E w \in Worker : Under(w, i)

Wanted == Item \ (cluster.excluded \cup cluster.omitted)

CoverInv ==
    ~failed => \A i \in Wanted :
        /\ i \in main.seen => Covered(i)
        /\ i \in counted => Backed(i)

IInv ==
    /\ Types /\ LoopInv /\ QueueInv /\ LinkInv /\ PendingInv /\ StartInv
    /\ FramesInv /\ ToComeInv /\ HookedInv /\ PVBInv /\ GroupInv /\ CoverInv

-----------------------------------------------------------------------------
(* The cluster. *)

LEMMA ClusterFacts ==
    ASSUME cluster \in Clusters
    PROVE  /\ cluster.mounts \in [Pod -> SUBSET Claim]
           /\ cluster.running \subseteq Pod
           /\ cluster.excluded \subseteq Item /\ cluster.omitted \subseteq Item
           /\ cluster.pool \subseteq Worker
  BY ClustersAssumption

LEMMA FiniteFacts ==
    /\ IsFiniteSet(PVB) /\ IsFiniteSet(Worker)
    /\ \A S \in SUBSET PVB : IsFiniteSet(S) /\ Cardinality(S) \in 0 .. Cardinality(PVB)
    /\ \A S \in SUBSET Worker : IsFiniteSet(S) /\ Cardinality(S) \in Nat
<1>1. IsFiniteSet(PVB)
  BY ItemsAssumption, FS_Product DEF PVB
<1>2. ASSUME NEW S \in SUBSET PVB
      PROVE  IsFiniteSet(S) /\ Cardinality(S) \in 0 .. Cardinality(PVB)
  <2>1. IsFiniteSet(S) /\ Cardinality(S) <= Cardinality(PVB)
    BY <1>1, FS_Subset, Zenon
  <2>2. QED
    BY <1>1, <2>1, FS_CardinalityType
<1>3. ASSUME NEW S \in SUBSET Worker
      PROVE  IsFiniteSet(S) /\ Cardinality(S) \in Nat
  <2>1. IsFiniteSet(S)
    BY WorkersAssumption, FS_Subset, Zenon
  <2>2. QED
    BY <2>1, FS_CardinalityType
<1>4. QED
  BY <1>1, <1>2, <1>3, WorkersAssumption

-----------------------------------------------------------------------------
(* The initial states. *)

LEMMA InitHolds == Init => IInv
<1> SUFFICES ASSUME Init PROVE IInv
  OBVIOUS
<1> USE DEF Init, BackupperInit, ItemsInit, Idle, NoObject
<1>1. Types
  <2>1. MainType
    <3>1. Len(Order) \in Nat
      BY ItemsAssumption
    <3>2. QED
      BY <3>1 DEF MainType
  <2>2. PVBTypes
    <3>1. index \in [PVB -> {"None", "New"} \cup Final]
      OBVIOUS
    <3>2. objects \in [PVB -> [phase : {"None", "New"} \cup Final,
                              cancel : BOOLEAN]]
      OBVIOUS
    <3>3. mishaps \in 0 .. MaxMishaps
      BY BackupperAssumption
    <3>4. wg = 0 /\ timeUp = FALSE
      OBVIOUS
    <3> HIDE DEF Init, BackupperInit
    <3>5. wg \in Int
      BY <3>4
    <3>6. timeUp \in BOOLEAN
      BY <3>4, Zenon
    <3>7. QED
      BY <3>1, <3>2, <3>3, <3>5, <3>6, Zenon DEF PVBTypes
  <2>3. WorkersType
    BY DEF WorkersType
  <2>4. DataTypes
    BY DEF DataTypes
  <2>5. QED
    BY <2>1, <2>2, <2>3, <2>4 DEF Types
<1>2. LoopInv
  BY EmptyFacts, ItemsAssumption DEF LoopInv, InTodo
<1>3. QueueInv /\ LinkInv
  BY EmptyFacts DEF QueueInv, LinkInv, Sent, InItems
<1>4. PendingInv
  <2>1. Busy = {}
    BY DEF Busy
  <2>2. QED
    BY <2>1, FS_EmptySet DEF PendingInv
<1>5. StartInv
  <2>1. ASSUME NEW p \in Pod PROVE Fresh(p, Claim)
    BY DEF Fresh, PVB
  <2>2. ASSUME NEW w \in Worker
        PROVE  workers[w].hooked = {} /\ workers[w].block = <<>>
    OBVIOUS
  <2>3. ASSUME NEW p \in Pod PROVE Untouched(p)
    BY <2>1, <2>2, EmptyFacts DEF Untouched, Hooked
  <2>4. QED
    BY <2>3 DEF StartInv
<1>6. FramesInv /\ ToComeInv /\ HookedInv
  BY EmptyFacts DEF FramesInv, ToComeInv, HookedInv
<1>7. PVBInv
  BY DEF PVBInv, Final
<1>8. GroupInv
  <2>1. Waited = {}
    BY DEF Waited
  <2>2. QED
    BY <2>1, FS_EmptySet DEF GroupInv
<1>9. CoverInv
  BY DEF CoverInv
<1>10. QED
  BY <1>1, <1>2, <1>3, <1>4, <1>5, <1>6, <1>7, <1>8, <1>9 DEF IInv

-----------------------------------------------------------------------------
(***************************************************************************)
(* What a step of an item does to its worker's stack, and what the         *)
(* invariant needs to know of it.                                          *)
(***************************************************************************)

\* The stack becomes fs; its frames fit, and it has no pod that is new.
StackStep(w, fs) ==
    /\ workers' = [workers EXCEPT ![w].frames = fs]
    /\ \A n \in DOMAIN fs :
           /\ FrameFits(w, n, fs[n])'
           /\ fs[n].item \in Pod => InFrame(w, fs[n].item)

\* An item leaves the stack when it is archived, passed over or left out,
\* and is counted when it is under way.
CoverStep(w, fs) ==
    ~failed' => ~failed /\ \A i \in Wanted :
        /\ archive[i] > 0 => archive'[i] > 0
        /\ InFrame(w, i) =>
               \/ \E n \in DOMAIN fs : fs[n].item = i
               \/ archive'[i] > 0 \/ i \in counted
        /\ Under(w, i) \/ i \in counted' \ counted =>
               \/ \E n \in DOMAIN fs : fs[n].item = i /\ fs[n].at \in Beyond
               \/ archive'[i] > 0

\* Pods are counted by their own workers.
CountStep(w) ==
    \A p \in Pod :
        /\ p \in counted' => p \in counted \/ Hooked(w, p)
        /\ FailedHook(p) => p \in counted'

PVBStep(w) ==
    \/ UNCHANGED <<index, objects, wg>>
    \/ \E p \in Pod, c \in Claim, created \in BOOLEAN :
           /\ CreatePVB(<<p, c>>, created)
           /\ Hooked(w, p) /\ InFrame(w, p) /\ index[<<p, c>>] = "None"
           /\ c \in Mounted(p) /\ p \in cluster.running

Effects(w) ==
    /\ workers[w].at = "items"
    /\ \E fs \in Seq(Frame) : StackStep(w, fs) /\ CoverStep(w, fs)
    /\ CountStep(w) /\ PVBStep(w)

LEMMA FrameTypes ==
    ASSUME WorkersType, NEW w \in Worker
    PROVE  /\ workers[w].frames \in Seq(Frame)
           /\ workers[w].block \in Seq(Item)
           /\ workers[w].hooked \subseteq Pod
           /\ workers[w].frames # <<>> => Top(w) \in Frame
<1>1. /\ workers[w].frames \in Seq(Frame) /\ workers[w].block \in Seq(Item)
      /\ workers[w].hooked \subseteq Pod
  BY DEF WorkersType
<1>2. QED
  BY <1>1, StackFacts DEF Top

\* A frame that stays fits as long as what it rests on does.
LEMMA FitsStays ==
    ASSUME NEW w \in Worker, NEW n, NEW f, FrameFits(w, n, f),
           UNCHANGED <<cluster, index>>,
           workers'[w].hooked = workers[w].hooked, CountStep(w)
    PROVE  FrameFits(w, n, f)'
  BY DEF FrameFits, Hooked, FailedHook, Fresh, Mounted, CountStep

\* The top of the stack goes on.
LEMMA GoesEffects ==
    ASSUME IInv, NEW w \in Worker, NEW g \in Frame, Goes(w, g),
           workers[w].at = "items", workers[w].frames # <<>>,
           g.item = Top(w).item, Top(w).at \in Beyond => g.at \in Beyond,
           NEW n \in Nat, n = Len(workers[w].frames), FrameFits(w, n, g)',
           UNCHANGED <<cluster, index, objects, wg, archive, failed>>,
           CountStep(w), counted \subseteq counted',
           counted' \subseteq counted \cup {g.item},
           g.item \in counted' \ counted => g.at \in Beyond
    PROVE  Effects(w)
<1> DEFINE old == workers[w].frames
           L == Len(workers[w].frames)
<1>1. WorkersType /\ FramesInv
  BY DEF IInv, Types
<1>2. old \in Seq(Frame) /\ old # <<>>
  BY <1>1, FrameTypes
<1>3. /\ L \in Nat \ {0} /\ DOMAIN old = 1 .. L /\ Top(w) = old[L]
  BY <1>2, StackFacts DEF Top
<1>4. PICK fs \in Seq(Frame) :
          /\ fs = Append(Front(old), g)
          /\ DOMAIN fs = 1 .. L /\ fs[L] = g
          /\ \A k \in 1 .. L - 1 : fs[k] = old[k]
  <2> DEFINE r == Append(Front(old), g)
  <2>1. /\ r \in Seq(Frame) /\ DOMAIN r = 1 .. L /\ r[L] = g
        /\ \A k \in 1 .. L - 1 : r[k] = old[k]
    BY <1>2, ReplaceTop
  <2> HIDE DEF r
  <2>2. QED
    BY <2>1 DEF r
<1>5. workers' = [workers EXCEPT ![w].frames = fs]
  BY <1>4 DEF Goes, Becomes
<1>6. workers'[w].hooked = workers[w].hooked
  BY <1>1, <1>5 DEF WorkersType
<1>7. ASSUME NEW k \in DOMAIN fs
      PROVE  FrameFits(w, k, fs[k])' /\ (fs[k].item \in Pod => InFrame(w, fs[k].item))
  <2>1. CASE k = L
    <3>1. fs[k] = g /\ k = n /\ L \in DOMAIN old /\ old[L].item = g.item
      BY <1>3, <1>4, <2>1
    <3>2. QED
      BY <3>1 DEF InFrame
  <2>2. CASE k # L
    <3>1. k \in 1 .. L - 1 /\ k \in DOMAIN old
      BY <1>3, <1>4, <2>2
    <3>2. fs[k] = old[k] /\ FrameFits(w, k, fs[k])
      BY <1>1, <1>4, <3>1 DEF FramesInv
    <3>3. FrameFits(w, k, fs[k])'
      BY <1>6, <3>2, FitsStays
    <3>4. QED
      BY <3>1, <3>2, <3>3 DEF InFrame
  <2>3. QED
    BY <2>1, <2>2
<1>8. StackStep(w, fs)
  BY <1>5, <1>7 DEF StackStep
<1>9. ASSUME NEW i, NEW k \in DOMAIN old, old[k].item = i
      PROVE  /\ k \in DOMAIN fs /\ fs[k].item = i
             /\ old[k].at \in Beyond => fs[k].at \in Beyond
  BY <1>3, <1>4, <1>9
<1>10. CoverStep(w, fs)
  <2> SUFFICES ASSUME ~failed', NEW i \in Wanted
               PROVE  /\ archive[i] > 0 => archive'[i] > 0
                      /\ InFrame(w, i) => \E k \in DOMAIN fs : fs[k].item = i
                      /\ Under(w, i) \/ i \in counted' \ counted =>
                           \E k \in DOMAIN fs : fs[k].item = i /\ fs[k].at \in Beyond
    BY DEF CoverStep
  <2>1. InFrame(w, i) => \E k \in DOMAIN fs : fs[k].item = i
    BY <1>9 DEF InFrame
  <2>2. Under(w, i) => \E k \in DOMAIN fs : fs[k].item = i /\ fs[k].at \in Beyond
    BY <1>9 DEF Under
  <2>3. ASSUME i \in counted' \ counted
        PROVE  \E k \in DOMAIN fs : fs[k].item = i /\ fs[k].at \in Beyond
    BY <1>3, <1>4, <2>3
  <2>4. QED
    BY <2>1, <2>2, <2>3
<1>11. QED
  BY <1>8, <1>10 DEF Effects, PVBStep

\* The top of the stack is done.
LEMMA PopEffects ==
    ASSUME IInv, NEW w \in Worker, Pop(w),
           workers[w].at = "items", workers[w].frames # <<>>,
           UNCHANGED <<cluster, index, objects, wg, failed>>,
           \A i \in Item : archive[i] > 0 => archive'[i] > 0,
           CountStep(w), counted' \subseteq counted,
           \/ Top(w).item \notin Wanted \/ archive'[Top(w).item] > 0
           \/ Top(w).item \in counted /\ Top(w).at \notin Beyond
    PROVE  Effects(w)
<1> DEFINE old == workers[w].frames
           L == Len(workers[w].frames)
<1>1. WorkersType /\ FramesInv
  BY DEF IInv, Types
<1>2. old \in Seq(Frame) /\ old # <<>>
  BY <1>1, FrameTypes
<1>3. /\ L \in Nat \ {0} /\ DOMAIN old = 1 .. L /\ Top(w) = old[L]
  BY <1>2, StackFacts DEF Top
<1>4. PICK fs \in Seq(Frame) :
          /\ fs = Front(old) /\ DOMAIN fs = 1 .. L - 1
          /\ \A n \in 1 .. L - 1 : fs[n] = old[n]
  BY <1>2, StackFacts
<1>5. workers' = [workers EXCEPT ![w].frames = fs]
  BY <1>4 DEF Pop, Becomes
<1>6. workers'[w].hooked = workers[w].hooked
  BY <1>1, <1>5 DEF WorkersType
<1>7. ASSUME NEW n \in DOMAIN fs
      PROVE  FrameFits(w, n, fs[n])' /\ (fs[n].item \in Pod => InFrame(w, fs[n].item))
  <2>1. n \in DOMAIN old /\ fs[n] = old[n]
    BY <1>3, <1>4
  <2>2. FrameFits(w, n, fs[n])
    BY <1>1, <2>1 DEF FramesInv
  <2>3. FrameFits(w, n, fs[n])'
    BY <1>6, <2>2, FitsStays
  <2>4. QED
    BY <2>1, <2>3 DEF InFrame
<1>8. StackStep(w, fs)
  BY <1>5, <1>7 DEF StackStep
<1>9. ASSUME NEW i, NEW n \in DOMAIN old, old[n].item = i
      PROVE  \/ n \in DOMAIN fs /\ fs[n].item = i /\ fs[n].at = old[n].at
             \/ Top(w).item = i /\ Top(w).at = old[n].at
  BY <1>3, <1>4, <1>9
<1>10. CoverStep(w, fs)
  <2> SUFFICES ASSUME ~failed', NEW i \in Wanted
               PROVE  /\ InFrame(w, i) =>
                           \/ \E n \in DOMAIN fs : fs[n].item = i
                           \/ archive'[i] > 0 \/ i \in counted
                      /\ Under(w, i) =>
                           \/ \E n \in DOMAIN fs : fs[n].item = i /\ fs[n].at \in Beyond
                           \/ archive'[i] > 0
    BY DEF CoverStep, Wanted
  <2>1. ASSUME InFrame(w, i)
        PROVE  \/ \E n \in DOMAIN fs : fs[n].item = i
               \/ archive'[i] > 0 \/ i \in counted
    <3>1. PICK n \in DOMAIN old : old[n].item = i
      BY <2>1 DEF InFrame
    <3>2. QED
      BY <1>9, <3>1
  <2>2. ASSUME Under(w, i)
        PROVE  \/ \E n \in DOMAIN fs : fs[n].item = i /\ fs[n].at \in Beyond
               \/ archive'[i] > 0
    <3>1. PICK n \in DOMAIN old : old[n].item = i /\ old[n].at \in Beyond
      BY <2>2 DEF Under
    <3>2. QED
      BY <1>9, <3>1
  <2>3. QED
    BY <2>1, <2>2
<1>11. QED
  BY <1>8, <1>10 DEF Effects, PVBStep

\* The stack is given up.
LEMMA FailEffects ==
    ASSUME IInv, NEW w \in Worker, Fail(w), workers[w].at = "items",
           UNCHANGED <<cluster, index, objects, wg, counted>>
    PROVE  Effects(w)
<1>1. PICK fs \in Seq(Frame) : fs = <<>>
  <2>1. <<>> \in Seq(Frame)
    OBVIOUS
  <2>2. QED
    BY <2>1, Zenon
<1>2. StackStep(w, fs)
  BY <1>1 DEF StackStep, Fail, Becomes
<1>3. CoverStep(w, fs)
  BY DEF CoverStep, Fail
<1>4. CountStep(w)
  BY DEF CountStep, FailedHook
<1>5. QED
  BY <1>2, <1>3, <1>4 DEF Effects, PVBStep

LEMMA TopFits ==
    ASSUME IInv, NEW w \in Worker, NEW step, At(w, step)
    PROVE  \E f \in Frame, n \in Nat :
               /\ f = Top(w) /\ n = Len(workers[w].frames) /\ n # 0
               /\ f.at = step
               /\ FrameFits(w, n, f) /\ InFrame(w, f.item)
               /\ workers[w].at = "items" /\ workers[w].frames # <<>>
<1> DEFINE old == workers[w].frames
<1>1. WorkersType /\ FramesInv
  BY DEF IInv, Types
<1>2. old \in Seq(Frame) /\ old # <<>>
  BY <1>1, FrameTypes DEF At
<1>3. Len(old) \in Nat \ {0} /\ DOMAIN old = 1 .. Len(old)
      /\ Top(w) = old[Len(old)] /\ Top(w) \in Frame
  BY <1>2, StackFacts DEF Top
<1>4. Len(old) \in DOMAIN old
  BY <1>3
<1>5. FrameFits(w, Len(old), Top(w)) /\ InFrame(w, Top(w).item)
  BY <1>1, <1>3, <1>4 DEF FramesInv, InFrame
<1>6. Top(w).at = step
  BY DEF At, Top
<1>7. QED
  BY <1>2, <1>3, <1>5, <1>6 DEF At

\* Only the stack of the worker changes.
LEMMA OnlyFrames ==
    ASSUME WorkersType, NEW w \in Worker, NEW fs, Becomes(w, fs)
    PROVE  workers'[w].hooked = workers[w].hooked
  BY DEF WorkersType, Becomes

\* The top of the stack goes to another step.
LEMMA GoesToEffects ==
    ASSUME IInv, NEW w \in Worker, NEW f \in Frame, f = Top(w),
           At(w, f.at), NEW g \in Frame, Goes(w, g),
           g.item = f.item, f.at \in Beyond => g.at \in Beyond,
           g.todo \cap Pod = {}, g.at # "check",
           g.at = "volumes" => g.item \in Pod \cap cluster.running,
           g.item \in Pod => /\ f.at # "check" \/ g.item \notin counted
                             /\ g.vols \subseteq Mounted(g.item),
           f.at = "write" => g.at = "write",
           f.at = "volumes" => g.at = "write",
           UNCHANGED <<cluster, index, objects, wg, archive, failed>>,
           CountStep(w), counted \subseteq counted',
           counted' \subseteq counted \cup {g.item},
           g.item \in counted' \ counted => g.at \in Beyond
    PROVE  Effects(w)
<1>1. PICK n \in Nat :
          /\ n = Len(workers[w].frames) /\ FrameFits(w, n, f)
          /\ workers[w].at = "items" /\ workers[w].frames # <<>>
  BY TopFits
<1>2. workers'[w].hooked = workers[w].hooked
  BY OnlyFrames DEF Goes, IInv, Types
<1>3. g.vols \subseteq Claim
  BY DEF Frame
<1>4. FrameFits(w, n, g)'
  BY <1>1, <1>2, <1>3 DEF FrameFits, Hooked, FailedHook, Fresh, Mounted
<1>5. QED
  BY <1>1, <1>4, GoesEffects

LEMMA NoneCounted ==
    ASSUME NEW w \in Worker, UNCHANGED counted
    PROVE  CountStep(w)
  BY DEF CountStep, FailedHook

LEMMA ConsiderEffects ==
    ASSUME IInv, UNCHANGED cluster, NEW w \in Worker, Consider(w)
    PROVE  Effects(w)
<1>1. At(w, "check") /\ CountStep(w)
  BY NoneCounted DEF Consider
<1>2. PICK f \in Frame, n \in Nat :
          /\ f = Top(w) /\ f.at = "check" /\ FrameFits(w, n, f)
          /\ workers[w].at = "items" /\ workers[w].frames # <<>>
  BY <1>1, TopFits
<1>3. UNCHANGED <<index, objects, wg, archive, failed, counted>>
  BY DEF Consider, pvbVars
<1>4. CASE Included(f.item) /\ f.item \notin counted
  <2>1. PICK g \in Frame : g = [f EXCEPT !.at = "add"]
    BY DEF Frame, Steps
  <2>2. Goes(w, g)
    BY <1>2, <1>4, <2>1 DEF Consider, GoesTo
  <2>3. /\ g.item = f.item /\ g.todo = f.todo /\ g.vols = f.vols
        /\ g.at = "add"
    BY <2>1 DEF Frame
  <2>4. g.todo \cap Pod = {} /\ (g.item \in Pod => g.vols \subseteq Mounted(g.item))
    BY <1>2, <2>3 DEF FrameFits
  <2>5. QED
    BY <1>1, <1>2, <1>3, <1>4, <2>2, <2>3, <2>4, GoesToEffects DEF Beyond
<1>5. CASE ~(Included(f.item) /\ f.item \notin counted)
  <2>1. Pop(w)
    BY <1>2, <1>5 DEF Consider
  <2>2. \/ Top(w).item \notin Wanted
        \/ Top(w).item \in counted /\ Top(w).at \notin Beyond
    BY <1>2, <1>5 DEF Included, Wanted, Beyond
  <2>3. QED
    BY <1>1, <1>2, <1>3, <2>1, <2>2, PopEffects
<1>6. QED
  BY <1>4, <1>5

LEMMA AddItemEffects ==
    ASSUME IInv, UNCHANGED cluster, NEW w \in Worker, AddItem(w)
    PROVE  Effects(w)
<1>1. At(w, "add")
  BY DEF AddItem
<1>2. PICK f \in Frame, n \in Nat :
          f = Top(w) /\ f.at = "add" /\ FrameFits(w, n, f)
  BY <1>1, TopFits
<1>3. /\ UNCHANGED <<index, objects, wg, archive, failed>>
      /\ counted' = counted \cup {f.item}
  BY <1>2 DEF AddItem, pvbVars
<1>4. PICK g \in Frame :
          /\ Goes(w, g) /\ g.item = f.item /\ g.at = "act" /\ g.todo = f.todo
          /\ g.item \in Pod => g.vols \subseteq Mounted(g.item)
  <2>1. CASE f.item \in Pod
    <3>1. VolumesToBackUp(f.item) \subseteq Mounted(f.item)
          /\ VolumesToBackUp(f.item) \in SUBSET Claim
      BY <2>1, ClusterFacts DEF VolumesToBackUp, Mounted, IInv, Types
    <3>2. PICK vols \in SUBSET Claim :
              vols = VolumesToBackUp(f.item) /\ vols \subseteq Mounted(f.item)
      BY <3>1
    <3>3. PICK g \in Frame : g = [f EXCEPT !.at = "act", !.vols = vols]
      BY DEF Frame, Steps
    <3>4. Goes(w, g)
      BY <1>2, <2>1, <3>2, <3>3 DEF AddItem
    <3>5. QED
      BY <3>2, <3>3, <3>4 DEF Frame
  <2>2. CASE f.item \notin Pod
    <3>1. PICK g \in Frame : g = [f EXCEPT !.at = "act"]
      BY DEF Frame, Steps
    <3>2. Goes(w, g)
      BY <1>2, <2>2, <3>1 DEF AddItem, GoesTo
    <3>3. QED
      BY <2>2, <3>1, <3>2 DEF Frame
  <2>3. QED
    BY <2>1, <2>2
<1>5. CountStep(w)
  BY <1>2, <1>3 DEF CountStep, FailedHook, FrameFits
<1>6. g.todo \cap Pod = {} /\ g.at \in Beyond
  BY <1>2, <1>4 DEF FrameFits, Beyond, Steps
<1>7. QED
  BY <1>1, <1>2, <1>3, <1>4, <1>5, <1>6, GoesToEffects

LEMMA ExecuteActionsEffects ==
    ASSUME IInv, UNCHANGED cluster, NEW w \in Worker, ExecuteActions(w)
    PROVE  Effects(w)
<1>1. At(w, "act")
  BY DEF ExecuteActions
<1>2. PICK f \in Frame, n \in Nat :
          /\ f = Top(w) /\ f.at = "act" /\ FrameFits(w, n, f)
          /\ workers[w].at = "items" /\ workers[w].frames # <<>>
  BY <1>1, TopFits
<1>3. UNCHANGED <<index, objects, wg, archive>>
  BY DEF ExecuteActions, Executed, pvbVars
<1>4. CASE f.item \in cluster.omitted
  <2>1. counted' = counted \ {f.item} /\ Pop(w) /\ UNCHANGED failed
    BY <1>2, <1>4 DEF ExecuteActions
  <2>2. ASSUME f.item \in Pod PROVE cluster.hooks[f.item] # "fails"
    <3>1. Hooked(w, f.item)
      BY <1>2, <2>2 DEF FrameFits
    <3>2. QED
      BY <3>1 DEF Hooked, HookedInv, IInv
  <2>3. CountStep(w)
    BY <2>1, <2>2 DEF CountStep, FailedHook
  <2>4. Top(w).item \notin Wanted
    BY <1>2, <1>4 DEF Wanted
  <2>5. QED
    BY <1>2, <1>3, <2>1, <2>3, <2>4, PopEffects
<1>5. CASE f.item \notin cluster.omitted /\ Executed(w)
  <2>1. UNCHANGED <<counted, failed>>
    BY <1>5 DEF Executed
  <2>2. AdditionalItems(f.item) \in SUBSET (Claim \cup Volume)
    BY ClusterFacts, ItemsAssumption
    DEF AdditionalItems, Mounted, IInv, Types
  <2>3. PICK todo \in SUBSET (Claim \cup Volume) : todo = AdditionalItems(f.item)
    BY <2>2
  <2>4. PICK g \in Frame : g = [f EXCEPT !.at = "descend", !.todo = todo]
    BY DEF Frame, Steps, Item
  <2>5. Goes(w, g)
    BY <1>2, <1>5, <2>3, <2>4 DEF Executed
  <2>6. g.item = f.item /\ g.at = "descend" /\ g.todo = todo /\ g.vols = f.vols
    BY <2>4 DEF Frame
  <2>7. g.todo \cap Pod = {} /\ (g.item \in Pod => g.vols \subseteq Mounted(g.item))
    BY <1>2, <2>6, ItemsAssumption DEF FrameFits
  <2>8. QED
    BY <1>1, <1>2, <1>3, <2>1, <2>5, <2>6, <2>7, NoneCounted, GoesToEffects
    DEF Beyond, Steps
<1>6. CASE f.item \notin cluster.omitted /\ Fail(w) /\ UNCHANGED counted
  BY <1>2, <1>3, <1>6, FailEffects
<1>7. QED
  BY <1>2, <1>4, <1>5, <1>6 DEF ExecuteActions

LEMMA BackUpAdditionalItemEffects ==
    ASSUME IInv, UNCHANGED cluster, NEW w \in Worker, BackUpAdditionalItem(w)
    PROVE  Effects(w)
<1>1. At(w, "descend")
  BY DEF BackUpAdditionalItem
<1>2. PICK f \in Frame, n \in Nat :
          /\ f = Top(w) /\ n = Len(workers[w].frames) /\ n # 0
          /\ f.at = "descend" /\ FrameFits(w, n, f)
          /\ workers[w].at = "items" /\ workers[w].frames # <<>>
          /\ InFrame(w, f.item)
  BY <1>1, TopFits
<1>3. UNCHANGED <<index, objects, wg, archive, failed, counted>>
  BY DEF BackUpAdditionalItem, pvbVars, itemVars
<1>4. CountStep(w)
  BY <1>3, NoneCounted
<1>5. CASE GoesTo(w, "data")
  <2>1. PICK g \in Frame : g = [f EXCEPT !.at = "data"]
    BY DEF Frame, Steps
  <2>2. Goes(w, g)
    BY <1>2, <1>5, <2>1 DEF GoesTo
  <2>3. g.item = f.item /\ g.at = "data" /\ g.todo = f.todo /\ g.vols = f.vols
    BY <2>1 DEF Frame
  <2>4. g.todo \cap Pod = {} /\ (g.item \in Pod => g.vols \subseteq Mounted(g.item))
    BY <1>2, <2>3 DEF FrameFits
  <2>5. QED
    BY <1>1, <1>2, <1>3, <1>4, <2>2, <2>3, <2>4, GoesToEffects DEF Beyond, Steps
<1>6. ASSUME NEW i \in Top(w).todo,
             Becomes(w, Append(Append(Front(workers[w].frames),
                                      [Top(w) EXCEPT !.todo = Top(w).todo \ {i}]),
                               FrameOf(i)))
      PROVE  Effects(w)
  <2> DEFINE old == workers[w].frames
  <2>1. i \in Item /\ i \notin Pod
    BY <1>2, <1>6 DEF FrameFits, Frame
  <2>2. PICK g \in Frame : g = [f EXCEPT !.todo = f.todo \ {i}]
    BY DEF Frame
  <2>3. PICK h \in Frame : h = FrameOf(i)
    BY <2>1 DEF FrameOf, Frame, Steps
  <2>4. old \in Seq(Frame) /\ old # <<>>
    BY <1>2, FrameTypes DEF IInv, Types
  <2>5. PICK fs \in Seq(Frame) :
            /\ fs = Append(Append(Front(old), g), h)
            /\ DOMAIN fs = 1 .. n + 1 /\ fs[n] = g /\ fs[n + 1] = h
            /\ \A k \in 1 .. n - 1 : fs[k] = old[k]
    <3> DEFINE q == Append(Front(old), g)
    <3>1. /\ q \in Seq(Frame) /\ DOMAIN q = 1 .. Len(old) /\ q[Len(old)] = g
          /\ \A k \in 1 .. Len(old) - 1 : q[k] = old[k]
      BY <2>4, ReplaceTop
    <3> HIDE DEF q
    <3>2. PICK r \in Seq(Frame) : r = q
      BY <3>1
    <3>3. r = Append(Front(old), g)
      BY <3>2 DEF q
    <3>4. Len(r) = n /\ r[n] = g /\ \A k \in 1 .. n - 1 : r[k] = old[k]
      BY <1>2, <3>1, <3>2
    <3>5. /\ Append(r, h) \in Seq(Frame) /\ DOMAIN Append(r, h) = 1 .. n + 1
          /\ Append(r, h)[n + 1] = h
          /\ \A k \in 1 .. n : Append(r, h)[k] = r[k]
      BY <1>2, <3>4
    <3>6. PICK fs \in Seq(Frame) : fs = Append(r, h)
      BY <3>5
    <3>7. fs = Append(Append(Front(old), g), h)
      BY <3>3, <3>6
    <3>8. DOMAIN fs = 1 .. n + 1 /\ fs[n + 1] = h
      BY <3>5, <3>6
    <3>9. fs[n] = g /\ \A k \in 1 .. n - 1 : fs[k] = old[k]
      BY <1>2, <3>4, <3>5, <3>6
    <3>10. QED
      BY <3>7, <3>8, <3>9
  <2>6. workers' = [workers EXCEPT ![w].frames = fs]
    BY <1>2, <1>6, <2>2, <2>3, <2>5 DEF Becomes
  <2>7. workers'[w].hooked = workers[w].hooked
    BY <1>6, OnlyFrames DEF IInv, Types
  <2>8. /\ g.item = f.item /\ g.at = "descend" /\ g.todo \subseteq f.todo
        /\ g.vols = f.vols /\ h.item = i /\ h.todo = {} /\ h.at = "check"
    BY <1>2, <2>2, <2>3 DEF Frame, FrameOf
  <2>9. FrameFits(w, n, g)
    BY <1>2, <2>8 DEF FrameFits
  <2>10. FrameFits(w, n + 1, h)
    BY <2>1, <2>8 DEF FrameFits
  <2>11. DOMAIN old = 1 .. n /\ old[n] = f
    BY <1>2, <2>4, StackFacts DEF Top
  <2>12. ASSUME NEW k \in DOMAIN fs
         PROVE  FrameFits(w, k, fs[k]) /\ (fs[k].item \in Pod => InFrame(w, fs[k].item))
    <3>1. CASE k \in 1 .. n - 1
      <4>1. k \in DOMAIN old /\ fs[k] = old[k]
        BY <2>5, <2>11, <3>1
      <4>2. QED
        BY <4>1 DEF InFrame, FramesInv, IInv
    <3>2. CASE k = n
      BY <1>2, <2>5, <2>8, <2>9, <3>2
    <3>3. CASE k = n + 1
      BY <2>1, <2>5, <2>8, <2>10, <3>3
    <3>4. QED
      BY <2>5, <3>1, <3>2, <3>3
  <2>13. ASSUME NEW k \in DOMAIN fs PROVE FrameFits(w, k, fs[k])'
    BY <1>3, <1>4, <2>7, <2>12, FitsStays
  <2>14. StackStep(w, fs)
    BY <2>6, <2>12, <2>13 DEF StackStep
  <2>15. ASSUME NEW j, NEW k \in DOMAIN old, old[k].item = j
         PROVE  k \in DOMAIN fs /\ fs[k].item = j /\ fs[k].at = old[k].at
    <3>1. CASE k = n
      BY <1>2, <2>5, <2>8, <2>11, <2>15, <3>1
    <3>2. CASE k # n
      BY <2>5, <2>11, <2>15, <3>2
    <3>3. QED
      BY <3>1, <3>2
  <2>16. CoverStep(w, fs)
    <3> SUFFICES ASSUME NEW j \in Wanted
                 PROVE  /\ InFrame(w, j) => \E k \in DOMAIN fs : fs[k].item = j
                        /\ Under(w, j) => \E k \in DOMAIN fs :
                               fs[k].item = j /\ fs[k].at \in Beyond
      BY <1>3 DEF CoverStep
    <3>1. QED
      BY <2>15 DEF InFrame, Under
  <2>17. QED
    BY <1>2, <1>3, <1>4, <2>14, <2>16 DEF Effects, PVBStep
<1>7. QED
  BY <1>5, <1>6 DEF BackUpAdditionalItem

\* The top of the stack comes to be written or to its volumes.
LEMMA DataEffects ==
    ASSUME IInv, UNCHANGED cluster, NEW w \in Worker, NEW step,
           At(w, step), step \in {"data", "volumes"},
           NEW g \in Frame, Goes(w, g), g.item = Top(w).item,
           g.todo = Top(w).todo, g.vols = Top(w).vols,
           \/ g.at = "write"
           \/ g.at = "volumes" /\ step = "data" /\ g.item \in Pod \cap cluster.running,
           UNCHANGED <<index, objects, wg, archive, failed, counted>>
    PROVE  Effects(w)
<1>1. PICK f \in Frame, n \in Nat :
          f = Top(w) /\ f.at = step /\ FrameFits(w, n, f)
  BY TopFits
<1>2. g.todo \cap Pod = {} /\ (g.item \in Pod => g.vols \subseteq Mounted(g.item))
  BY <1>1 DEF FrameFits
<1>3. CountStep(w)
  BY NoneCounted
<1>4. QED
  BY <1>1, <1>2, <1>3, GoesToEffects DEF Beyond, Steps

LEMMA TakePVSnapshotEffects ==
    ASSUME IInv, UNCHANGED cluster, NEW w \in Worker, TakePVSnapshot(w)
    PROVE  Effects(w)
<1>1. At(w, "data") /\ UNCHANGED <<index, objects, wg, archive, counted>>
  BY DEF TakePVSnapshot, pvbVars
<1>2. PICK f \in Frame, n \in Nat :
          /\ f = Top(w) /\ f.at = "data"
          /\ workers[w].at = "items" /\ workers[w].frames # <<>>
  BY <1>1, TopFits
<1>3. CASE GoesTo(w, "write") /\ UNCHANGED failed
  <2>1. PICK g \in Frame : g = [f EXCEPT !.at = "write"]
    BY DEF Frame, Steps
  <2>2. Goes(w, g)
    BY <1>2, <1>3, <2>1 DEF GoesTo
  <2>3. g.item = f.item /\ g.at = "write" /\ g.todo = f.todo /\ g.vols = f.vols
    BY <2>1 DEF Frame
  <2>4. QED
    BY <1>1, <1>2, <1>3, <2>2, <2>3, DataEffects
<1>4. CASE Fail(w)
  BY <1>1, <1>2, <1>4, FailEffects
<1>5. QED
  BY <1>3, <1>4 DEF TakePVSnapshot

LEMMA BackupPodVolumesEffects ==
    ASSUME IInv, UNCHANGED cluster, NEW w \in Worker, BackupPodVolumes(w)
    PROVE  Effects(w)
<1>1. /\ At(w, "data")
      /\ UNCHANGED <<index, objects, wg, archive, counted, failed>>
  BY DEF BackupPodVolumes, pvbVars
<1>2. PICK f \in Frame, n \in Nat : f = Top(w) /\ f.at = "data"
  BY <1>1, TopFits
<1>3. PICK g \in Frame :
          /\ Goes(w, g) /\ g.item = f.item /\ g.todo = f.todo /\ g.vols = f.vols
          /\ \/ g.at = "write"
             \/ g.at = "volumes" /\ g.item \in Pod \cap cluster.running
  <2>1. CASE GoesTo(w, "write")
    <3>1. PICK g \in Frame : g = [f EXCEPT !.at = "write"]
      BY DEF Frame, Steps
    <3>2. QED
      BY <1>2, <2>1, <3>1 DEF GoesTo, Frame
  <2>2. CASE GoesTo(w, "volumes") /\ f.item \in Pod \cap cluster.running
    <3>1. PICK g \in Frame : g = [f EXCEPT !.at = "volumes"]
      BY DEF Frame, Steps
    <3>2. QED
      BY <1>2, <2>2, <3>1 DEF GoesTo, Frame
  <2>3. CASE Goes(w, [Top(w) EXCEPT !.at = "write", !.err = TRUE])
    <3>1. PICK g \in Frame : g = [f EXCEPT !.at = "write", !.err = TRUE]
      BY DEF Frame, Steps
    <3>2. QED
      BY <1>2, <2>3, <3>1 DEF Frame
  <2>4. QED
    BY <1>2, <2>1, <2>2, <2>3 DEF BackupPodVolumes
<1>4. QED
  BY <1>1, <1>2, <1>3, DataEffects

LEMMA PodVolumesTakenEffects ==
    ASSUME IInv, UNCHANGED cluster, NEW w \in Worker,
           PodVolumesTaken(w) \/ NoData(w)
    PROVE  Effects(w)
<1>1. PICK step \in {"data", "volumes"} : At(w, step)
  BY DEF PodVolumesTaken, NoData
<1>2. /\ GoesTo(w, "write")
      /\ UNCHANGED <<index, objects, wg, archive, counted, failed>>
  BY DEF PodVolumesTaken, NoData, pvbVars, itemVars
<1>3. PICK f \in Frame, n \in Nat : f = Top(w) /\ f.at = step
  BY <1>1, TopFits
<1>4. PICK g \in Frame : g = [f EXCEPT !.at = "write"]
  BY DEF Frame, Steps
<1>5. Goes(w, g)
  BY <1>2, <1>3, <1>4 DEF GoesTo
<1>6. g.item = f.item /\ g.at = "write" /\ g.todo = f.todo /\ g.vols = f.vols
  BY <1>4 DEF Frame
<1>7. QED
  BY <1>1, <1>2, <1>3, <1>5, <1>6, DataEffects

LEMMA WriteItemEffects ==
    ASSUME IInv, UNCHANGED cluster, NEW w \in Worker, WriteItem(w)
    PROVE  Effects(w)
<1>1. At(w, "write") /\ UNCHANGED <<index, objects, wg, counted>>
  BY DEF WriteItem, pvbVars
<1>2. PICK f \in Frame, n \in Nat :
          /\ f = Top(w)
          /\ workers[w].at = "items" /\ workers[w].frames # <<>>
  BY <1>1, TopFits
<1>3. CASE f.err
  <2>1. Fail(w)
    BY <1>2, <1>3 DEF WriteItem
  <2>2. QED
    BY <1>1, <1>2, <2>1, FailEffects
<1>4. CASE ~f.err
  <2>1. /\ archive' = [archive EXCEPT ![f.item] = @ + 1]
        /\ Pop(w) /\ UNCHANGED failed
    BY <1>2, <1>4 DEF WriteItem
  <2>2. archive \in [Item -> Nat] /\ f.item \in Item
    BY DEF IInv, Types, DataTypes, Frame
  <2>3. archive'[f.item] > 0 /\ \A i \in Item : archive[i] > 0 => archive'[i] > 0
    BY <2>1, <2>2
  <2>4. CountStep(w)
    BY <1>1, NoneCounted
  <2>5. QED
    BY <1>1, <1>2, <2>1, <2>3, <2>4, PopEffects
<1>5. QED
  BY <1>3, <1>4

\* A PVB is created by the worker that holds its pod, and only once.
LEMMA BackupPodVolumeEffects ==
    ASSUME IInv, UNCHANGED cluster, NEW w \in Worker, BackupPodVolume(w)
    PROVE  Effects(w)
<1>1. At(w, "volumes") /\ UNCHANGED <<archive, counted, failed>>
  BY DEF BackupPodVolume, itemVars
<1>2. PICK f \in Frame, n \in Nat :
          /\ f = Top(w) /\ f.at = "volumes" /\ FrameFits(w, n, f)
          /\ n = Len(workers[w].frames) /\ InFrame(w, f.item)
          /\ workers[w].at = "items" /\ workers[w].frames # <<>>
  BY <1>1, TopFits
<1>3. PICK c \in f.vols, created \in BOOLEAN :
          /\ CreatePVB(<<f.item, c>>, created)
          /\ Goes(w, [f EXCEPT !.vols = @ \ {c},
                               !.made = IF created THEN @ \cup {c} ELSE @,
                               !.err = @ \/ ~created])
  BY <1>2 DEF BackupPodVolume
<1>4. /\ f.item \in Pod \cap cluster.running /\ n = 1 /\ Hooked(w, f.item)
      /\ f.vols \subseteq Mounted(f.item) /\ Fresh(f.item, f.vols)
      /\ f.todo \cap Pod = {} /\ f.vols \subseteq Claim
  BY <1>2 DEF FrameFits, Frame
<1>5. PICK made \in SUBSET Claim :
          made = IF created THEN f.made \cup {c} ELSE f.made
  BY <1>4 DEF Frame
<1>6. PICK err \in BOOLEAN : err = (f.err \/ ~created)
  BY DEF Frame
<1>7. PICK g \in Frame :
          g = [f EXCEPT !.vols = f.vols \ {c}, !.made = made, !.err = err]
  BY DEF Frame
<1>8. Goes(w, g)
  BY <1>3, <1>5, <1>6, <1>7
<1>9. /\ g.item = f.item /\ g.at = "volumes" /\ g.todo = f.todo
      /\ g.vols = f.vols \ {c}
  BY <1>2, <1>7 DEF Frame
<1> DEFINE old == workers[w].frames
<1>10. WorkersType /\ index \in [PVB -> {"None", "New"} \cup Final]
  BY DEF IInv, Types, PVBTypes
<1>11. old \in Seq(Frame) /\ old # <<>> /\ Len(old) = 1
  BY <1>2, <1>4, <1>10, FrameTypes
<1>12. DOMAIN old = 1 .. 1 /\ old[1] = f
  BY <1>2, <1>11, StackFacts DEF Top
<1>13. PICK fs \in Seq(Frame) :
           fs = Append(Front(old), g) /\ DOMAIN fs = 1 .. 1 /\ fs[1] = g
  <2> DEFINE r == Append(Front(old), g)
  <2>1. r \in Seq(Frame) /\ DOMAIN r = 1 .. Len(old) /\ r[Len(old)] = g
    BY <1>11, ReplaceTop
  <2> HIDE DEF r
  <2>2. QED
    BY <1>11, <2>1 DEF r
<1>14. workers' = [workers EXCEPT ![w].frames = fs]
  BY <1>8, <1>13 DEF Goes, Becomes
<1>15. workers'[w].hooked = workers[w].hooked
  BY <1>8, <1>10, OnlyFrames DEF Goes
<1>16. \A k \in PVB : k # <<f.item, c>> => index'[k] = index[k]
  BY <1>3, <1>10 DEF CreatePVB
<1>17. FrameFits(w, 1, g)'
  <2>1. Fresh(f.item, f.vols \ {c})'
    BY <1>4, <1>16 DEF Fresh, PVB
  <2>2. QED
    BY <1>4, <1>9, <1>15, <2>1 DEF FrameFits, Hooked, Mounted
<1>18. StackStep(w, fs)
  BY <1>2, <1>9, <1>13, <1>14, <1>17 DEF StackStep
<1>19. CoverStep(w, fs)
  <2>1. g.at \in Beyond
    BY <1>9 DEF Beyond, Steps
  <2>2. QED
    BY <1>1, <1>9, <1>12, <1>13, <2>1 DEF CoverStep, InFrame, Under
<1>20. CountStep(w)
  BY <1>1, NoneCounted
<1>21. index[<<f.item, c>>] = "None"
  BY <1>4 DEF Fresh
<1>22. PVBStep(w)
  <2>1. c \in Claim /\ c \in Mounted(f.item)
    BY <1>4
  <2>2. QED
    BY <1>2, <1>3, <1>4, <1>21, <2>1 DEF PVBStep
<1>23. QED
  BY <1>2, <1>18, <1>19, <1>20, <1>22 DEF Effects

LEMMA ItemStepEffects ==
    ASSUME IInv, UNCHANGED cluster, NEW w \in Worker, ItemStep(w)
    PROVE  Effects(w)
  BY ConsiderEffects, AddItemEffects, ExecuteActionsEffects,
     BackUpAdditionalItemEffects, TakePVSnapshotEffects,
     BackupPodVolumesEffects, BackupPodVolumeEffects, PodVolumesTakenEffects,
     WriteItemEffects
  DEF ItemStep

-----------------------------------------------------------------------------
(* The types of what the workers share. *)

LEMMA TrackTypes ==
    ASSUME DataTypes, NEW S,
           TrackSkipped(S) \/ Untrack(S) \/ Skipping
    PROVE  /\ skipped' \subseteq Volume /\ taken' \subseteq Volume
           /\ skipped' \cap taken' = {}
<1>1. VolumesOf(S) \subseteq Volume
  BY ItemsAssumption DEF VolumesOf
<1>2. QED
  BY <1>1 DEF DataTypes, TrackSkipped, Untrack, Skipping

LEMMA CreateTypes ==
    ASSUME PVBTypes, NEW k \in PVB, NEW created \in BOOLEAN,
           CreatePVB(k, created), mishaps' \in 0 .. MaxMishaps
    PROVE  PVBTypes'
<1>1. /\ index \in [PVB -> {"None", "New"} \cup Final]
      /\ objects \in [PVB -> [phase : {"None", "New"} \cup Final, cancel : BOOLEAN]]
      /\ wg \in Int /\ timeUp \in BOOLEAN
  BY DEF PVBTypes
<1>2. index' \in [PVB -> {"None", "New"} \cup Final]
  BY <1>1 DEF CreatePVB
<1>3. objects' \in [PVB -> [phase : {"None", "New"} \cup Final, cancel : BOOLEAN]]
  BY <1>1 DEF CreatePVB
<1>4. wg' \in Int
  BY <1>1 DEF CreatePVB
<1>5. timeUp' \in BOOLEAN
  BY <1>1 DEF CreatePVB
<1>6. QED
  BY <1>2, <1>3, <1>4, <1>5 DEF PVBTypes

LEMMA FailsTypes ==
    ASSUME PVBTypes, NEW n \in Nat, Fails(n)
    PROVE  mishaps' \in 0 .. MaxMishaps
  BY BackupperAssumption DEF PVBTypes, Fails

LEMMA SamePVBTypes ==
    ASSUME PVBTypes, UNCHANGED pvbVars, mishaps' \in 0 .. MaxMishaps
    PROVE  PVBTypes'
  BY DEF PVBTypes, pvbVars

LEMMA ItemStepTypes ==
    ASSUME IInv, UNCHANGED cluster, NEW w \in Worker, ItemStep(w)
    PROVE  DataTypes' /\ PVBTypes'
<1>1. DataTypes /\ PVBTypes /\ mishaps \in 0 .. MaxMishaps
  BY DEF IInv, Types, PVBTypes
<1>2. ASSUME NEW step, At(w, step)
      PROVE  Top(w) \in Frame /\ Top(w).item \in Item
    <2>1. Top(w) \in Frame
      BY <1>2, TopFits
    <2>2. QED
      BY <2>1 DEF Frame
<1>3. CASE Consider(w)
  <2>1. /\ UNCHANGED <<pvbVars, mishaps, counted, tracker, snapshots, archive, failed>>
        /\ \E S : TrackSkipped(S) \/ Skipping
    BY <1>3 DEF Consider
  <2>2. QED
    BY <1>1, <2>1, TrackTypes, SamePVBTypes DEF DataTypes
<1>4. CASE AddItem(w)
  <2>1. /\ UNCHANGED <<pvbVars, mishaps, snapshots, archive, failed>>
        /\ counted' = counted \cup {Top(w).item}
        /\ \E S : TrackSkipped(S)
    BY <1>4 DEF AddItem
  <2>2. counted' \subseteq Item
    BY <1>1, <1>2, <1>4, <2>1 DEF AddItem, DataTypes
  <2>3. tracker' \in [Claim -> {"none", "tracked", "taken", "optedout"}]
    BY <1>1, <1>4 DEF AddItem, DataTypes, TrackVolumes
  <2>4. QED
    BY <1>1, <2>1, <2>2, <2>3, TrackTypes, SamePVBTypes DEF DataTypes
<1>5. CASE ExecuteActions(w)
  <2>1. /\ UNCHANGED <<pvbVars, tracker, archive>>
        /\ counted' = counted \/ counted' = counted \ {Top(w).item}
        /\ failed' = failed \/ failed' = TRUE
        /\ \E n \in {0, 1} : Fails(n) \/ mishaps' = mishaps
        /\ \E S : TrackSkipped(S) \/ Untrack(S) \/ Skipping
        /\ \/ UNCHANGED snapshots
           \/ \E c \in Claim : snapshots' = [snapshots EXCEPT ![c] = @ + 1]
    BY <1>5 DEF ExecuteActions, Executed, Fail, TakeCSISnapshot
  <2>2. snapshots' \in [Claim -> Nat]
    BY <1>1, <2>1 DEF DataTypes
  <2>3. mishaps' \in 0 .. MaxMishaps
    BY <1>1, <2>1, FailsTypes
  <2>4. failed' \in BOOLEAN
    BY <1>1, <2>1, Zenon DEF DataTypes
  <2>5. QED
    BY <1>1, <2>1, <2>2, <2>3, <2>4, TrackTypes, SamePVBTypes DEF DataTypes
<1>6. CASE BackUpAdditionalItem(w) \/ NoData(w)
  <2>1. UNCHANGED <<pvbVars, mishaps, itemVars>>
    BY <1>6 DEF BackUpAdditionalItem, NoData
  <2>2. QED
    BY <1>1, <2>1, SamePVBTypes DEF DataTypes, itemVars
<1>7. CASE TakePVSnapshot(w)
  <2>1. /\ UNCHANGED <<pvbVars, counted, tracker, archive>>
        /\ failed' = failed \/ failed' = TRUE
        /\ \E n \in {0, 1} : Fails(n)
        /\ \E S : TrackSkipped(S) \/ Untrack(S) \/ Skipping
        /\ \/ UNCHANGED snapshots
           \/ \E c : snapshots' = [snapshots EXCEPT ![c] = @ + 1]
    BY <1>7 DEF TakePVSnapshot, Fail
  <2>2. snapshots' \in [Claim -> Nat]
    BY <1>1, <2>1 DEF DataTypes
  <2>3. mishaps' \in 0 .. MaxMishaps
    BY <1>1, <2>1, FailsTypes
  <2>4. failed' \in BOOLEAN
    BY <1>1, <2>1, Zenon DEF DataTypes
  <2>5. QED
    BY <1>1, <2>1, <2>2, <2>3, <2>4, TrackTypes, SamePVBTypes DEF DataTypes
<1>8. CASE BackupPodVolumes(w)
  <2>1. /\ UNCHANGED <<pvbVars, counted, tracker, snapshots, archive, failed>>
        /\ \E n \in {0, 1} : Fails(n)
        /\ \E S : TrackSkipped(S) \/ Skipping
    BY <1>8 DEF BackupPodVolumes
  <2>2. mishaps' \in 0 .. MaxMishaps
    BY <1>1, <2>1, FailsTypes
  <2>3. QED
    BY <1>1, <2>1, <2>2, TrackTypes, SamePVBTypes DEF DataTypes
<1>9. CASE BackupPodVolume(w)
  <2>1. PICK created \in BOOLEAN, c \in Top(w).vols :
            /\ Fails(IF created THEN 0 ELSE 1)
            /\ CreatePVB(<<Top(w).item, c>>, created)
    BY <1>9 DEF BackupPodVolume
  <2>2. PICK f \in Frame, n \in Nat :
            f = Top(w) /\ f.at = "volumes" /\ FrameFits(w, n, f)
    BY <1>9, TopFits DEF BackupPodVolume
  <2>3. <<Top(w).item, c>> \in PVB
    BY <2>1, <2>2 DEF FrameFits, PVB, Frame
  <2>4. mishaps' \in 0 .. MaxMishaps
    BY <1>1, <2>1, FailsTypes
  <2>5. PVBTypes'
    BY <1>1, <2>1, <2>3, <2>4, CreateTypes
  <2>6. DataTypes'
    BY <1>1, <1>9 DEF BackupPodVolume, DataTypes, itemVars
  <2>7. QED
    BY <2>5, <2>6
<1>10. CASE PodVolumesTaken(w)
  <2>1. /\ UNCHANGED <<pvbVars, mishaps, counted, snapshots, archive, failed>>
        /\ \E S : Untrack(S)
    BY <1>10 DEF PodVolumesTaken
  <2>2. tracker' \in [Claim -> {"none", "tracked", "taken", "optedout"}]
    BY <1>1, <1>10 DEF PodVolumesTaken, DataTypes
  <2>3. QED
    BY <1>1, <2>1, <2>2, TrackTypes, SamePVBTypes DEF DataTypes
<1>11. CASE WriteItem(w)
  <2>1. /\ UNCHANGED <<pvbVars, mishaps, counted, tracker, skipped, taken, snapshots>>
        /\ failed' = failed \/ failed' = TRUE
        /\ \/ UNCHANGED archive
           \/ \E i : archive' = [archive EXCEPT ![i] = @ + 1]
    BY <1>11 DEF WriteItem, Fail
  <2>2. archive' \in [Item -> Nat]
    BY <1>1, <2>1 DEF DataTypes
  <2>3. failed' \in BOOLEAN
    BY <1>1, <2>1, Zenon DEF DataTypes
  <2>4. QED
    BY <1>1, <2>1, <2>2, <2>3, SamePVBTypes DEF DataTypes
<1>12. QED
  BY <1>3, <1>4, <1>5, <1>6, <1>7, <1>8, <1>9, <1>10, <1>11 DEF ItemStep

-----------------------------------------------------------------------------
(***************************************************************************)
(* The invariant holds after a step of an item.                            *)
(***************************************************************************)
LEMMA LoopStays ==
    ASSUME IInv, UNCHANGED <<cluster, main, blocks, pending>>
    PROVE  LoopInv' /\ QueueInv' /\ LinkInv'
<1>1. LoopInv /\ QueueInv /\ LinkInv
  BY DEF IInv
<1>2. LoopInv'
  BY <1>1 DEF LoopInv, InTodo, Included
<1>3. QueueInv'
  BY <1>1 DEF QueueInv, InItems, Included
<1>4. LinkInv'
  BY <1>1 DEF LinkInv, Linked, Sent, InItems, InTodo, Included, Mounted, Resolved
<1>5. QED
  BY <1>2, <1>3, <1>4

LEMMA StackOf ==
    ASSUME WorkersType, NEW w \in Worker, NEW fs \in Seq(Frame),
           workers' = [workers EXCEPT ![w].frames = fs]
    PROVE  /\ WorkersType'
           /\ \A v \in Worker :
                  /\ workers'[v].at = workers[v].at
                  /\ workers'[v].block = workers[v].block
                  /\ workers'[v].hooked = workers[v].hooked
                  /\ v # w => workers'[v].frames = workers[v].frames
           /\ workers'[w].frames = fs
  BY DEF WorkersType

\* Who holds a pod does not change.
LEMMA HookedStays ==
    ASSUME HookedInv, UNCHANGED <<cluster, quiesced, released>>,
           \A v \in Worker : workers'[v].hooked = workers[v].hooked
    PROVE  HookedInv'
  BY DEF HookedInv, Hooked, Linked, Included, Mounted, Resolved

LEMMA OrphanStays ==
    ASSUME UNCHANGED <<cluster, quiesced, released>>, NEW k \in PVB,
           \A v \in Worker : workers'[v].hooked = workers[v].hooked
    PROVE  Orphan(k)' <=> Orphan(k)
  BY DEF Orphan, Held, Hooked, UsersOf, Included, Mounted, Resolved

LEMMA CreateKeeps ==
    ASSUME IInv, UNCHANGED <<cluster, quiesced, released>>,
           NEW w \in Worker, PVBStep(w),
           \A v \in Worker : workers'[v].hooked = workers[v].hooked
    PROVE  PVBInv' /\ GroupInv'
<1>1. /\ PVBInv /\ GroupInv
      /\ index \in [PVB -> {"None", "New"} \cup Final]
      /\ objects \in [PVB -> [phase : {"None", "New"} \cup Final, cancel : BOOLEAN]]
  BY DEF IInv, Types, PVBTypes
<1>2. \A k \in PVB : Orphan(k)' <=> Orphan(k)
  BY OrphanStays
<1>3. \A v \in Worker : \A p : Hooked(v, p)' <=> Hooked(v, p)
  BY DEF Hooked
<1>4. CASE UNCHANGED <<index, objects, wg>>
  <2>1. PVBInv'
    BY <1>1, <1>2, <1>3, <1>4 DEF PVBInv, Mounted
  <2>2. Waited' = Waited
    BY <1>4 DEF Waited
  <2>3. QED
    BY <1>1, <1>4, <2>1, <2>2 DEF GroupInv
<1>5. ASSUME NEW p \in Pod, NEW c \in Claim, NEW created \in BOOLEAN,
             CreatePVB(<<p, c>>, created), Hooked(w, p),
             index[<<p, c>>] = "None", c \in Mounted(p), p \in cluster.running
      PROVE  PVBInv' /\ GroupInv'
  <2>1. PICK k \in PVB : k = <<p, c>> /\ k[1] = p /\ k[2] = c
    <3>1. <<p, c>> \in PVB /\ <<p, c>>[1] = p /\ <<p, c>>[2] = c
      BY DEF PVB
    <3>2. QED
      BY <3>1, Zenon
  <2>2. /\ index'[k] = "New" /\ objects[k].phase = "None"
        /\ objects'[k].phase = IF created THEN "New" ELSE "None"
        /\ \A l \in PVB : l # k => index'[l] = index[l] /\ objects'[l] = objects[l]
    BY <1>1, <1>5, <2>1 DEF CreatePVB, PVBInv
  <2>3. PVBInv'
    <3> SUFFICES ASSUME NEW l \in PVB
                 PROVE  /\ index'[l] = "None" => objects'[l].phase = "None"
                        /\ index'[l] \in Final => objects'[l].phase \in Final
                        /\ objects'[l].phase # "None" =>
                               l[2] \in Mounted(l[1]) /\ l[1] \in cluster.running
                        /\ objects'[l].phase = "New" =>
                               Orphan(l) \/ \E v \in Worker : Hooked(v, l[1])
      BY <1>2, <1>3 DEF PVBInv, Mounted
    <3>1. CASE l = k
      BY <1>5, <2>1, <2>2, <3>1 DEF Final
    <3>2. CASE l # k
      BY <1>1, <2>2, <3>2 DEF PVBInv
    <3>3. QED
      BY <3>1, <3>2
  <2>4. CASE created
    <3>1. Waited' = Waited \cup {k} /\ k \notin Waited
      BY <2>2, <2>4 DEF Waited
    <3>2. Waited \subseteq PVB
      BY DEF Waited
    <3>3. IsFiniteSet(Waited)
      BY <3>2, FiniteFacts
    <3>4. Cardinality(Waited') = Cardinality(Waited) + 1
      BY <3>1, <3>3, FS_AddElement
    <3>5. wg' = wg + 1
      BY <1>5, <2>4 DEF CreatePVB
    <3>6. QED
      BY <1>1, <2>3, <3>4, <3>5 DEF GroupInv
  <2>5. CASE ~created
    <3>1. Waited' = Waited
      BY <2>2, <2>5 DEF Waited
    <3>2. wg' = wg
      BY <1>5, <2>5 DEF CreatePVB
    <3>3. QED
      BY <1>1, <2>3, <3>1, <3>2 DEF GroupInv
  <2>6. QED
    BY <2>4, <2>5
<1>6. QED
  BY <1>4, <1>5 DEF PVBStep

\* What is known of another pod's PVBs does not change.
LEMMA FreshStays ==
    ASSUME IInv, NEW w \in Worker, PVBStep(w), NEW p \in Pod, NEW S \in SUBSET Claim,
           Fresh(p, S), ~Hooked(w, p) \/ ~InFrame(w, p)
    PROVE  Fresh(p, S)'
<1>1. index \in [PVB -> {"None", "New"} \cup Final]
  BY DEF IInv, Types, PVBTypes
<1>2. QED
  BY <1>1 DEF Fresh, PVBStep, CreatePVB, PVB

LEMMA ItemStepKeeps ==
    ASSUME IInv, UNCHANGED <<cluster, loopVars, hookVars>>, NEW w \in Worker,
           Effects(w), DataTypes', PVBTypes'
    PROVE  IInv'
<1>1. PICK fs \in Seq(Frame) : StackStep(w, fs) /\ CoverStep(w, fs)
  BY DEF Effects
<1>2. CountStep(w) /\ PVBStep(w) /\ workers[w].at = "items"
  BY DEF Effects
<1>3. UNCHANGED <<cluster, main, blocks, pending, quiesced, released>>
  BY DEF loopVars, hookVars
<1>4. /\ WorkersType'
      /\ \A v \in Worker :
             /\ workers'[v].at = workers[v].at
             /\ workers'[v].block = workers[v].block
             /\ workers'[v].hooked = workers[v].hooked
             /\ v # w => workers'[v].frames = workers[v].frames
      /\ workers'[w].frames = fs
  BY <1>1, StackOf DEF StackStep, IInv, Types
<1>5. \A v \in Worker : \A p : Hooked(v, p)' <=> Hooked(v, p)
  BY <1>4 DEF Hooked
<1>6. \A p \in Pod : FailedHook(p) => FailedHook(p)'
  BY <1>2, <1>3 DEF FailedHook, CountStep
<1>7. Types'
  BY <1>3, <1>4 DEF IInv, Types, MainType
<1>8. LoopInv' /\ QueueInv' /\ LinkInv'
  BY <1>3, LoopStays
<1>9. PendingInv'
  <2>1. Busy' = Busy
    BY <1>4 DEF Busy
  <2>2. QED
    BY <1>3, <2>1 DEF IInv, PendingInv
<1>10. StartInv'
  <2> SUFFICES ASSUME NEW p \in Pod, Untouched(p) PROVE Untouched(p)'
    BY <1>3 DEF StartInv, IInv, InItems, InQueue
  <2>1. Fresh(p, Claim)'
    BY <1>2, FreshStays DEF Untouched
  <2>2. QED
    BY <1>2, <1>3, <1>4, <1>5, <2>1 DEF Untouched, CountStep
<1>11. HookedInv'
  BY <1>3, <1>4, HookedStays DEF IInv
<1>12. FramesInv'
  <2> SUFFICES ASSUME NEW v \in Worker, NEW n \in DOMAIN workers'[v].frames,
                      NEW f, f = workers'[v].frames[n]
               PROVE  FrameFits(v, n, f)'
    BY DEF FramesInv, FrameFits
  <2>1. CASE v = w
    BY <1>1, <1>4, <2>1 DEF StackStep
  <2>2. CASE v # w
    <3>1. f = workers[v].frames[n]
      BY <1>4, <2>2
    <3>2. FrameFits(v, n, f)
      BY <1>4, <2>2, <3>1 DEF IInv, FramesInv
    <3>3. ASSUME f.item \in Pod, NEW S \in SUBSET Claim, Fresh(f.item, S)
          PROVE  Fresh(f.item, S)'
      <4>1. ~Hooked(w, f.item)
        BY <2>2, <3>2, <3>3 DEF FrameFits, FailedHook, Hooked, HookedInv, IInv
      <4>2. QED
        BY <1>2, <3>3, <4>1, FreshStays
    <3>4. f.item \in Pod /\ f.at = "volumes" => f.vols \subseteq Claim
      BY <3>2, ClusterFacts DEF FrameFits, Mounted, IInv, Types
    <3>5. QED
      BY <1>3, <1>5, <1>6, <3>2, <3>3, <3>4 DEF FrameFits, Mounted
  <2>3. QED
    BY <2>1, <2>2
<1>13. ToComeInv'
  <2> SUFFICES ASSUME NEW v \in Worker
               PROVE  /\ Injective(workers'[v].block)
                      /\ workers'[v].at # "items" =>
                             workers'[v].block = <<>> /\ workers'[v].frames = <<>>
                      /\ workers'[v].at = "idle" => workers'[v].hooked = {}
                      /\ \A p \in ToSet(workers'[v].block) \cap Pod :
                             /\ Hooked(v, p)' \/ FailedHook(p)'
                             /\ Fresh(p, Claim)'
                             /\ \A n \in DOMAIN workers'[v].frames :
                                    workers'[v].frames[n].item # p
    BY DEF ToComeInv
  <2>1. ToComeInv
    BY DEF IInv
  <2>2. /\ Injective(workers'[v].block)
        /\ workers'[v].at # "items" =>
               workers'[v].block = <<>> /\ workers'[v].frames = <<>>
        /\ workers'[v].at = "idle" => workers'[v].hooked = {}
    BY <1>2, <1>4, <2>1 DEF ToComeInv
  <2>3. ASSUME NEW p \in ToSet(workers'[v].block) \cap Pod
        PROVE  /\ Hooked(v, p)' \/ FailedHook(p)'
               /\ Fresh(p, Claim)'
               /\ \A n \in DOMAIN workers'[v].frames :
                      workers'[v].frames[n].item # p
    <3>1. /\ Hooked(v, p) \/ FailedHook(p)
          /\ Fresh(p, Claim)
          /\ \A n \in DOMAIN workers[v].frames : workers[v].frames[n].item # p
      BY <1>4, <2>1, <2>3 DEF ToComeInv
    <3>2. Hooked(v, p)' \/ FailedHook(p)'
      BY <1>5, <1>6, <3>1
    <3>3. ~Hooked(w, p) \/ ~InFrame(w, p)
      BY <3>1 DEF InFrame, FailedHook, Hooked, HookedInv, IInv
    <3>4. Fresh(p, Claim)'
      BY <1>2, <3>1, <3>3, FreshStays
    <3>5. \A n \in DOMAIN workers'[v].frames : workers'[v].frames[n].item # p
      <4>1. CASE v = w
        BY <1>1, <1>4, <3>1, <4>1 DEF StackStep, InFrame
      <4>2. CASE v # w
        BY <1>4, <3>1, <4>2
      <4>3. QED
        BY <4>1, <4>2
    <3>6. QED
      BY <3>2, <3>4, <3>5
  <2>4. QED
    BY <2>2, <2>3
<1>14. PVBInv' /\ GroupInv'
  BY <1>2, <1>3, <1>4, CreateKeeps
<1>15. CoverInv'
  <2> SUFFICES ASSUME ~failed', NEW i \in Wanted
               PROVE  /\ i \in main.seen => Covered(i)'
                      /\ i \in counted' => Backed(i)'
    BY <1>3 DEF CoverInv, Wanted
  <2>1. /\ ~failed
        /\ archive[i] > 0 => archive'[i] > 0
        /\ InFrame(w, i) =>
               \/ \E n \in DOMAIN fs : fs[n].item = i
               \/ archive'[i] > 0 \/ i \in counted
        /\ Under(w, i) \/ i \in counted' \ counted =>
               \/ \E n \in DOMAIN fs : fs[n].item = i /\ fs[n].at \in Beyond
               \/ archive'[i] > 0
    BY <1>1 DEF CoverStep
  <2>2. /\ i \in main.seen => Covered(i)
        /\ i \in counted => Backed(i)
    BY <2>1 DEF IInv, CoverInv
  <2>3. Under(w, i) \/ i \in counted' \ counted => archive'[i] > 0 \/ Under(w, i)'
    BY <1>4, <2>1 DEF Under
  <2>4. \A v \in Worker : v # w => (Under(v, i) => Under(v, i)')
    BY <1>4 DEF Under
  <2>5. \A v \in Worker : v # w => (InFrame(v, i) => InFrame(v, i)')
    BY <1>4 DEF InFrame
  <2>6. Backed(i) \/ i \in counted' \ counted => Backed(i)'
    BY <2>1, <2>3, <2>4 DEF Backed
  <2>7. i \in counted' => Backed(i)'
    BY <2>2, <2>6
  <2>8. Backed(i)' => Covered(i)'
    BY DEF Backed, Covered, Under, InFrame
  <2>9. InFrame(w, i) => InFrame(w, i)' \/ archive'[i] > 0 \/ i \in counted
    BY <1>4, <2>1 DEF InFrame
  <2>10. Covered(i) => Covered(i)'
    BY <1>3, <1>4, <2>1, <2>2, <2>5, <2>6, <2>8, <2>9
    DEF Covered, InItems, InQueue
  <2>11. QED
    BY <2>2, <2>7, <2>10
<1>16. QED
  BY <1>7, <1>8, <1>9, <1>10, <1>11, <1>12, <1>13, <1>14, <1>15 DEF IInv

-----------------------------------------------------------------------------
(***************************************************************************)
(* Steps of the node agents, the informer and the clock, and those of the  *)
(* main loop once all blocks are sent.                                     *)
(***************************************************************************)
LEMMA OutsideKeeps ==
    ASSUME IInv, UNCHANGED <<cluster, blocks, pending, itemVars, workers, hookVars>>,
           MainType', main'.seen = main.seen, main'.items = main.items,
           main'.todo = main.todo, main'.nth = main.nth,
           main'.at # "sending" => main.nth > Len(Order) /\ pending = 0,
           PVBTypes', PVBInv', GroupInv',
           \A k \in PVB : index[k] = "None" => index'[k] = "None"
    PROVE  IInv'
<1>1. UNCHANGED <<counted, tracker, skipped, taken, snapshots, archive, failed,
                  quiesced, released>>
  BY DEF itemVars, hookVars
<1>2. Types'
  BY <1>1 DEF IInv, Types, WorkersType, DataTypes
<1>3. \A i : (InTodo(i)' <=> InTodo(i)) /\ (InItems(i)' <=> InItems(i))
             /\ (InQueue(i)' <=> InQueue(i))
  BY DEF InTodo, InItems, InQueue
<1>4. LoopInv'
  BY <1>3 DEF IInv, LoopInv, Included
<1>5. QueueInv'
  BY <1>3 DEF IInv, QueueInv, Included
<1>6. LinkInv'
  BY <1>3 DEF IInv, LinkInv, Linked, Sent, Included, Mounted, Resolved
<1>7. PendingInv'
  BY DEF IInv, PendingInv, Busy
<1>8. \A p \in Pod, S \in SUBSET Claim : Fresh(p, S) => Fresh(p, S)'
  BY DEF Fresh, PVB
<1>9. StartInv'
  BY <1>1, <1>3, <1>8 DEF IInv, StartInv, Untouched, Hooked
<1>10. FramesInv'
  <2> SUFFICES ASSUME NEW v \in Worker, NEW n \in DOMAIN workers[v].frames,
                      NEW f, f = workers[v].frames[n]
               PROVE  FrameFits(v, n, f)'
    BY DEF FramesInv, FrameFits
  <2>1. FrameFits(v, n, f)
    BY DEF IInv, FramesInv
  <2>2. f.item \in Pod /\ f.at = "volumes" => f.vols \subseteq Claim
    BY <2>1, ClusterFacts DEF FrameFits, Mounted, IInv, Types
  <2>3. QED
    BY <1>1, <1>8, <2>1, <2>2 DEF FrameFits, Mounted, Hooked, FailedHook
<1>11. ToComeInv'
  BY <1>1, <1>8 DEF IInv, ToComeInv, Hooked, FailedHook
<1>12. HookedInv'
  BY <1>1, HookedStays DEF IInv
<1>13. CoverInv'
  BY <1>1, <1>3 DEF IInv, CoverInv, Wanted, Covered, Backed, Under, InFrame
<1>14. QED
  BY <1>2, <1>4, <1>5, <1>6, <1>7, <1>9, <1>10, <1>11, <1>12, <1>13 DEF IInv

\* The PVBs keep their phases.
LEMMA PhasesStay ==
    ASSUME IInv, UNCHANGED <<cluster, workers, quiesced, released, index, wg>>,
           \A k \in PVB : objects'[k].phase = objects[k].phase
    PROVE  PVBInv' /\ GroupInv'
<1>1. \A k \in PVB : Orphan(k)' <=> Orphan(k)
  BY OrphanStays
<1>2. PVBInv'
  BY <1>1 DEF IInv, PVBInv, Hooked, Mounted
<1>3. Waited' = Waited
  BY DEF Waited
<1>4. QED
  BY <1>2, <1>3 DEF IInv, GroupInv

LEMMA EndPVBKeeps ==
    ASSUME IInv, NEW k \in PVB, EndPVB(k), Others
    PROVE  IInv'
<1>1. UNCHANGED <<cluster, itemVars, workers, main, blocks, pending, hookVars,
                  quiesced, released, index, wg, timeUp, mishaps>>
  BY DEF EndPVB, Others, loopVars, hookVars
<1>2. PVBTypes /\ PVBInv
  BY DEF IInv, Types
<1>3. PICK phase \in Final :
          /\ objects' = [objects EXCEPT ![k].phase = phase]
          /\ objects[k].phase = "New"
  BY DEF EndPVB, Final, Running
<1>4. /\ objects'[k].phase = phase
      /\ \A l \in PVB : l # k => objects'[l] = objects[l]
  BY <1>2, <1>3 DEF PVBTypes
<1>5. objects' \in [PVB -> [phase : {"None", "New"} \cup Final, cancel : BOOLEAN]]
  BY <1>2, <1>3 DEF PVBTypes
<1>6. PVBTypes'
  BY <1>1, <1>2, <1>5 DEF PVBTypes
<1>7. \A l \in PVB : Orphan(l)' <=> Orphan(l)
  BY <1>1, OrphanStays
<1>8. "None" \notin Final /\ "New" \notin Final
  BY DEF Final
<1>9. PVBInv'
  BY <1>1, <1>2, <1>3, <1>4, <1>7, <1>8 DEF PVBInv, Hooked, Mounted
<1>10. Waited' = Waited
  BY <1>1, <1>3, <1>4, <1>8 DEF Waited
<1>11. GroupInv'
  BY <1>1, <1>10 DEF IInv, GroupInv
<1>12. MainType' /\ (main'.at # "sending" => main.nth > Len(Order) /\ pending = 0)
  BY <1>1 DEF IInv, Types, MainType, LoopInv
<1>13. QED
  BY <1>1, <1>6, <1>9, <1>11, <1>12, OutsideKeeps

LEMMA UpdatePVBKeeps ==
    ASSUME IInv, NEW k \in PVB, UpdatePVB(k), Others
    PROVE  IInv'
<1>1. UNCHANGED <<cluster, itemVars, workers, main, blocks, pending, hookVars,
                  quiesced, released, objects, timeUp, mishaps>>
  BY DEF UpdatePVB, Others, loopVars, hookVars
<1>2. PVBTypes /\ PVBInv /\ GroupInv
  BY DEF IInv, Types
<1>3. "None" \notin Final /\ "New" \notin Final
  BY DEF Final
<1>4. /\ objects[k].phase \in Final /\ index' = [index EXCEPT ![k] = objects[k].phase]
      /\ wg' = IF index[k] \in Final THEN wg ELSE wg - 1
  BY DEF UpdatePVB
<1>5. index[k] # "None"
  BY <1>2, <1>3, <1>4 DEF PVBInv
<1>6. /\ index'[k] = objects[k].phase
      /\ \A l \in PVB : l # k => index'[l] = index[l]
  BY <1>2, <1>4 DEF PVBTypes
<1>7. index' \in [PVB -> {"None", "New"} \cup Final] /\ wg' \in Int
  BY <1>2, <1>4 DEF PVBTypes
<1>8. PVBTypes'
  BY <1>1, <1>2, <1>7 DEF PVBTypes
<1>9. \A l \in PVB : Orphan(l)' <=> Orphan(l)
  BY <1>1, OrphanStays
<1>10. PVBInv'
  BY <1>1, <1>2, <1>3, <1>4, <1>5, <1>6, <1>9 DEF PVBInv, Hooked, Mounted
<1>11. Waited \subseteq PVB
  BY DEF Waited
<1>12. ASSUME index[k] \in Final PROVE GroupInv'
  <2>1. Waited' = Waited
    BY <1>1, <1>3, <1>4, <1>6, <1>12 DEF Waited
  <2>2. QED
    BY <1>2, <1>4, <1>12, <2>1 DEF GroupInv
<1>13. ASSUME index[k] \notin Final PROVE GroupInv'
  <2>1. index[k] = "New"
    BY <1>2, <1>5, <1>13 DEF PVBTypes
  <2>2. Waited' = Waited \ {k} /\ k \in Waited
    BY <1>1, <1>3, <1>4, <1>6, <2>1 DEF Waited
  <2>3. Cardinality(Waited') = Cardinality(Waited) - 1
    BY <1>11, <2>2, FiniteFacts, FS_RemoveElement
  <2>4. QED
    BY <1>2, <1>4, <1>13, <2>3 DEF GroupInv
<1>14. MainType' /\ (main'.at # "sending" => main.nth > Len(Order) /\ pending = 0)
  BY <1>1 DEF IInv, Types, MainType, LoopInv
<1>15. QED
  BY <1>1, <1>5, <1>6, <1>8, <1>10, <1>12, <1>13, <1>14, OutsideKeeps

LEMMA TimeOutKeeps == IInv /\ TimeOut /\ Others => IInv'
<1> SUFFICES ASSUME IInv, TimeOut, Others PROVE IInv'
  OBVIOUS
<1>1. UNCHANGED <<cluster, itemVars, workers, main, blocks, pending, hookVars,
                  quiesced, released, index, objects, wg, mishaps>>
  BY DEF TimeOut, Others, loopVars, hookVars
<1>2. PVBInv' /\ GroupInv'
  BY <1>1, PhasesStay
<1>3. timeUp' \in BOOLEAN
  BY DEF TimeOut
<1>4. PVBTypes'
  BY <1>1, <1>3 DEF IInv, Types, PVBTypes
<1>5. MainType' /\ (main'.at # "sending" => main.nth > Len(Order) /\ pending = 0)
  BY <1>1 DEF IInv, Types, MainType, LoopInv
<1>6. QED
  BY <1>1, <1>2, <1>4, <1>5, OutsideKeeps

\* The main loop goes to another stage.
LEMMA MainGoesKeeps ==
    ASSUME IInv, NEW at \in {"waiting", "canceled", "done"}, MainGoes(at),
           main.at # "sending" \/ (main.nth > Len(Order) /\ pending = 0),
           PVBTypes', PVBInv', GroupInv', index' = index
    PROVE  IInv'
<1>1. MainType
  BY DEF IInv, Types
<1>2. main' = [main EXCEPT !.at = at]
  BY DEF MainGoes
<1>3. /\ MainType' /\ main'.seen = main.seen /\ main'.items = main.items
      /\ main'.todo = main.todo /\ main'.nth = main.nth
  BY <1>1, <1>2 DEF MainType
<1>4. main.nth > Len(Order) /\ pending = 0
  BY DEF IInv, LoopInv
<1>5. QED
  BY <1>3, <1>4, OutsideKeeps DEF MainGoes

LEMMA StagesKeep ==
    ASSUME IInv, BlocksProcessed \/ PodVolumesProcessed \/ PodVolumesTimedOut
    PROVE  IInv'
<1>1. PVBTypes
  BY DEF IInv, Types
<1>2. CASE UNCHANGED <<pvbVars, mishaps>> /\ (BlocksProcessed \/ PodVolumesProcessed)
  <2>1. PICK at \in {"waiting", "done"} :
            /\ MainGoes(at)
            /\ main.at # "sending" \/ (main.nth > Len(Order) /\ pending = 0)
    <3>1. CASE BlocksProcessed
      <4>1. MainGoes("waiting") /\ main.nth > Len(Order) /\ pending = 0
        BY <3>1 DEF BlocksProcessed
      <4>2. QED
        BY <4>1
    <3>2. CASE PodVolumesProcessed
      <4>1. MainGoes("done") /\ main.at # "sending"
        BY <3>2 DEF PodVolumesProcessed
      <4>2. QED
        BY <4>1
    <3>3. QED
      BY <1>2, <3>1, <3>2
  <2>2. UNCHANGED <<cluster, workers, quiesced, released, index, objects, wg>>
    BY <1>2, <2>1 DEF MainGoes, hookVars, pvbVars
  <2>3. PVBTypes'
    BY <1>1, <1>2 DEF PVBTypes, pvbVars
  <2>4. PVBInv' /\ GroupInv'
    BY <2>2, PhasesStay
  <2>5. QED
    BY <2>1, <2>2, <2>3, <2>4, MainGoesKeeps
<1>3. CASE PodVolumesTimedOut
  <2>1. MainGoes("canceled") /\ main.at = "waiting" /\ CancelPVBs
    BY <1>3 DEF PodVolumesTimedOut
  <2>2. PICK lost \in SUBSET PVB :
            /\ Fails(Cardinality(lost))
            /\ objects' = [k \in PVB |->
                   [objects[k] EXCEPT !.cancel = @ \/ k \in (Open \cap Running) \ lost]]
            /\ UNCHANGED <<index, wg, timeUp>>
    BY <2>1 DEF CancelPVBs, Running
  <2>3. \A k \in PVB : /\ objects'[k].phase = objects[k].phase
                       /\ objects'[k] \in [phase : {"None", "New"} \cup Final,
                                           cancel : BOOLEAN]
    BY <1>1, <2>2 DEF PVBTypes
  <2>4. mishaps' \in 0 .. MaxMishaps
    BY <1>1, <2>2, FiniteFacts, FailsTypes
  <2>5. PVBTypes'
    BY <1>1, <2>2, <2>3, <2>4 DEF PVBTypes
  <2>6. UNCHANGED <<cluster, workers, quiesced, released>>
    BY <2>1 DEF MainGoes, hookVars
  <2>7. PVBInv' /\ GroupInv'
    BY <2>2, <2>3, <2>6, PhasesStay
  <2>8. main.at # "sending" /\ index' = index
    BY <2>1, <2>2
  <2>9. PICK at \in {"waiting", "canceled", "done"} : MainGoes(at)
    BY <2>1
  <2>10. QED
    BY <2>5, <2>7, <2>8, <2>9, MainGoesKeeps
<1>4. QED
  BY <1>2, <1>3 DEF BlocksProcessed, PodVolumesProcessed

-----------------------------------------------------------------------------
(***************************************************************************)
(* A worker goes on with its block.                                        *)
(***************************************************************************)
LEMMA NextItemKeeps ==
    ASSUME IInv, NEW w \in Worker, NextItem(w)
    PROVE  IInv'
<1> DEFINE b == workers[w].block
<1>1. /\ workers[w].at = "items" /\ workers[w].frames = <<>> /\ b # <<>>
      /\ workers' = [workers EXCEPT ![w].block = Tail(b),
                                    ![w].frames = <<FrameOf(Head(b))>>]
      /\ UNCHANGED <<cluster, index, objects, wg, timeUp, mishaps, counted,
                     tracker, skipped, taken, snapshots, archive, failed, main,
                     blocks, pending, quiesced, released>>
  BY DEF NextItem, BetweenItems, pvbVars, itemVars, loopVars, hookVars
<1>2. WorkersType /\ b \in Seq(Item)
  BY FrameTypes DEF IInv, Types
<1>3. /\ Head(b) \in Item /\ Tail(b) \in Seq(Item)
      /\ ToSet(b) = {Head(b)} \cup ToSet(Tail(b))
      /\ Injective(b) => Injective(Tail(b)) /\ Head(b) \notin ToSet(Tail(b))
  BY <1>1, <1>2, TailFacts
<1>4. PICK h \in Frame : h = FrameOf(Head(b)) /\ h.item = Head(b)
                         /\ h.at = "check" /\ h.todo = {} /\ h.vols = {}
  <2>1. FrameOf(Head(b)) \in Frame
    BY <1>3 DEF FrameOf, Frame, Steps
  <2>2. /\ FrameOf(Head(b)).item = Head(b) /\ FrameOf(Head(b)).at = "check"
        /\ FrameOf(Head(b)).todo = {} /\ FrameOf(Head(b)).vols = {}
    BY DEF FrameOf
  <2>3. QED
    BY <2>1, <2>2, Zenon
<1>5. PICK fs \in Seq(Frame) : fs = <<h>> /\ DOMAIN fs = 1 .. 1 /\ fs[1] = h
  <2>1. <<h>> \in Seq(Frame) /\ DOMAIN <<h>> = 1 .. 1 /\ <<h>>[1] = h
    OBVIOUS
  <2>2. QED
    BY <2>1, Zenon
<1>6. PICK t \in Seq(Item) : t = Tail(b)
  BY <1>3
<1>7. workers' = [workers EXCEPT ![w].block = t, ![w].frames = fs]
  BY <1>1, <1>4, <1>5, <1>6
<1>8. /\ WorkersType'
      /\ \A v \in Worker :
             /\ workers'[v].at = workers[v].at
             /\ workers'[v].hooked = workers[v].hooked
             /\ v # w => workers'[v] = workers[v]
      /\ workers'[w].block = t /\ workers'[w].frames = fs
  BY <1>2, <1>7 DEF WorkersType
<1>9. Types'
  BY <1>1, <1>8 DEF IInv, Types, MainType, PVBTypes, DataTypes
<1>10. LoopInv' /\ QueueInv' /\ LinkInv'
  BY <1>1, LoopStays
<1>11. PendingInv'
  <2>1. Busy' = Busy
    BY <1>8 DEF Busy
  <2>2. QED
    BY <1>1, <2>1 DEF IInv, PendingInv
<1>12. \A v \in Worker : ToSet(workers'[v].block) \subseteq ToSet(workers[v].block)
  BY <1>3, <1>6, <1>8
<1>13. StartInv'
  BY <1>1, <1>8, <1>12
  DEF IInv, StartInv, Untouched, Fresh, Hooked, InItems, InQueue
<1>14. HookedInv'
  BY <1>1, <1>8, HookedStays DEF IInv
<1>15. \A p \in Pod : /\ \A S : Fresh(p, S)' <=> Fresh(p, S)
                      /\ FailedHook(p)' <=> FailedHook(p)
                      /\ \A v \in Worker : Hooked(v, p)' <=> Hooked(v, p)
  BY <1>1, <1>8 DEF Fresh, FailedHook, Hooked
<1>16. ToComeInv
  BY DEF IInv
<1>17. FramesInv'
  <2> SUFFICES ASSUME NEW v \in Worker, NEW n \in DOMAIN workers'[v].frames,
                      NEW f, f = workers'[v].frames[n]
               PROVE  FrameFits(v, n, f)'
    BY DEF FramesInv, FrameFits
  <2>1. CASE v = w
    <3>1. n = 1 /\ f = h
      BY <1>5, <1>8, <2>1
    <3>2. f.item \in Pod =>
              (Hooked(w, f.item) \/ FailedHook(f.item)) /\ Fresh(f.item, Claim)
      BY <1>3, <1>4, <1>16, <3>1 DEF ToComeInv
    <3>3. QED
      BY <1>4, <1>15, <2>1, <3>1, <3>2 DEF FrameFits
  <2>2. CASE v # w
    <3>1. FrameFits(v, n, f)
      BY <1>8, <2>2 DEF IInv, FramesInv
    <3>2. QED
      BY <1>1, <1>15, <3>1 DEF FrameFits, Mounted
  <2>3. QED
    BY <2>1, <2>2
<1>18. ToComeInv'
  <2>1. ASSUME NEW v \in Worker, v # w
        PROVE  /\ Injective(workers'[v].block)
               /\ workers'[v].at # "items" =>
                      workers'[v].block = <<>> /\ workers'[v].frames = <<>>
               /\ workers'[v].at = "idle" => workers'[v].hooked = {}
               /\ \A p \in ToSet(workers'[v].block) \cap Pod :
                      /\ Hooked(v, p)' \/ FailedHook(p)'
                      /\ Fresh(p, Claim)'
                      /\ \A n \in DOMAIN workers'[v].frames :
                             workers'[v].frames[n].item # p
    BY <1>8, <1>15, <1>16, <2>1 DEF ToComeInv
  <2>2. /\ Injective(workers'[w].block)
        /\ workers'[w].at = "items"
        /\ \A p \in ToSet(workers'[w].block) \cap Pod :
               /\ Hooked(w, p)' \/ FailedHook(p)'
               /\ Fresh(p, Claim)'
               /\ \A n \in DOMAIN workers'[w].frames :
                      workers'[w].frames[n].item # p
    <3>1. Injective(workers'[w].block) /\ Head(b) \notin ToSet(t)
      BY <1>3, <1>6, <1>8, <1>16 DEF ToComeInv
    <3>2. \A n \in DOMAIN workers'[w].frames :
              workers'[w].frames[n].item = Head(b)
      BY <1>4, <1>5, <1>8
    <3>3. ASSUME NEW p \in ToSet(workers'[w].block) \cap Pod
          PROVE  /\ Hooked(w, p)' \/ FailedHook(p)'
                 /\ Fresh(p, Claim)'
                 /\ \A n \in DOMAIN workers'[w].frames :
                        workers'[w].frames[n].item # p
      <4>1. p \in ToSet(b) /\ p # Head(b) /\ p \in Pod
        BY <1>3, <1>6, <1>8, <3>1, <3>3
      <4>2. (Hooked(w, p) \/ FailedHook(p)) /\ Fresh(p, Claim)
        BY <1>16, <4>1 DEF ToComeInv
      <4>3. QED
        BY <1>15, <3>2, <4>1, <4>2
    <3>4. workers'[w].at = "items"
      BY <1>1, <1>8
    <3>5. QED
      BY <3>1, <3>3, <3>4
  <2>3. QED
    BY <2>1, <2>2 DEF ToComeInv
<1>19. PVBInv' /\ GroupInv'
  <2>1. PVBStep(w)
    BY <1>1 DEF PVBStep
  <2>2. QED
    BY <1>1, <1>8, <2>1, CreateKeeps
<1>20. CoverInv'
  <2> SUFFICES ASSUME ~failed, NEW i \in Wanted
               PROVE  /\ i \in main.seen => Covered(i)'
                      /\ i \in counted => Backed(i)'
    BY <1>1 DEF CoverInv, Wanted
  <2>1. /\ i \in main.seen => Covered(i)
        /\ i \in counted => Backed(i)
    BY DEF IInv, CoverInv
  <2>2. ASSUME NEW v \in Worker, Under(v, i)
        PROVE  Under(v, i)'
    <3>1. v # w
      BY <1>1, <2>2 DEF Under
    <3>2. QED
      BY <1>8, <2>2, <3>1 DEF Under
  <2>3. ASSUME NEW v \in Worker, i \in ToSet(workers[v].block) \/ InFrame(v, i)
        PROVE  i \in ToSet(workers'[v].block) \/ InFrame(v, i)'
    <3>1. CASE v # w
      BY <1>8, <2>3, <3>1 DEF InFrame
    <3>2. CASE v = w
      <4>1. ~InFrame(w, i)
        BY <1>1 DEF InFrame
      <4>2. i = Head(b) \/ i \in ToSet(t)
        BY <1>3, <1>6, <2>3, <3>2, <4>1
      <4>3. /\ 1 \in DOMAIN workers'[w].frames
            /\ workers'[w].frames[1].item = Head(b)
        BY <1>4, <1>5, <1>8
      <4>4. i = Head(b) => InFrame(w, i)'
        BY <4>3 DEF InFrame
      <4>5. QED
        BY <1>8, <3>2, <4>2, <4>4
    <3>3. QED
      BY <3>1, <3>2
  <2>4. Backed(i) => Backed(i)'
    BY <1>1, <2>2 DEF Backed
  <2>5. Covered(i) => Covered(i)'
    BY <1>1, <2>3 DEF Covered, InItems, InQueue
  <2>6. QED
    BY <2>1, <2>4, <2>5
<1>21. QED
  BY <1>9, <1>10, <1>11, <1>13, <1>14, <1>17, <1>18, <1>19, <1>20 DEF IInv

\* The items are done, and the worker looks at the PVBs.
LEMMA LookKeeps ==
    ASSUME IInv, NEW w \in Worker, NEW at \in {"post", "wait"},
           BetweenItems(w), workers[w].block = <<>>,
           workers' = [workers EXCEPT ![w].at = at],
           UNCHANGED <<cluster, pvbVars, mishaps, itemVars, loopVars, hookVars>>
    PROVE  IInv'
<1>1. UNCHANGED <<cluster, index, objects, wg, timeUp, mishaps, counted,
                  tracker, skipped, taken, snapshots, archive, failed, main,
                  blocks, pending, quiesced, released>>
  BY DEF pvbVars, itemVars, loopVars, hookVars
<1>2. WorkersType
  BY DEF IInv, Types
<1>3. /\ WorkersType'
      /\ \A v \in Worker :
             /\ workers'[v].block = workers[v].block
             /\ workers'[v].hooked = workers[v].hooked
             /\ workers'[v].frames = workers[v].frames
             /\ v # w => workers'[v].at = workers[v].at
      /\ workers'[w].at = at /\ workers[w].at = "items"
      /\ workers[w].frames = <<>>
  BY <1>2 DEF WorkersType, BetweenItems
<1>4. Types'
  BY <1>1, <1>3 DEF IInv, Types, MainType, PVBTypes, DataTypes
<1>5. LoopInv' /\ QueueInv' /\ LinkInv'
  BY <1>1, LoopStays
<1>6. PendingInv'
  <2>1. Busy' = Busy
    BY <1>3 DEF Busy
  <2>2. QED
    BY <1>1, <2>1 DEF IInv, PendingInv
<1>7. StartInv'
  BY <1>1, <1>3 DEF IInv, StartInv, Untouched, Fresh, Hooked, InItems, InQueue
<1>8. HookedInv'
  BY <1>1, <1>3, HookedStays DEF IInv
<1>9. FramesInv'
  BY <1>1, <1>3
  DEF IInv, FramesInv, FrameFits, Hooked, FailedHook, Fresh, Mounted
<1>10. ToComeInv'
  BY <1>1, <1>3 DEF IInv, ToComeInv, Hooked, FailedHook, Fresh
<1>11. PVBInv' /\ GroupInv'
  BY <1>1, <1>3, CreateKeeps DEF PVBStep
<1>12. CoverInv'
  BY <1>1, <1>3
  DEF IInv, CoverInv, Wanted, Covered, Backed, Under, InFrame, InItems, InQueue
<1>13. QED
  BY <1>4, <1>5, <1>6, <1>7, <1>8, <1>9, <1>10, <1>11, <1>12 DEF IInv

\* No PVB runs whose pod is held by a worker that has seen all its PVBs end.
LEMMA NoneRuns ==
    ASSUME IInv, NEW w \in Worker, AllProcessed(workers[w].hooked),
           NEW k \in PVB, objects[k].phase = "New"
    PROVE  ~Hooked(w, k[1])
<1>1. index[k] # "None" /\ index[k] \notin Final
  BY DEF IInv, PVBInv, Final
<1>2. k \in Open
  BY <1>1 DEF Open, Tracked
<1>3. QED
  BY <1>2 DEF AllProcessed, Hooked

\* A block ends; its pods go on if their post hooks have run.
LEMMA EndKeeps ==
    ASSUME IInv, NEW w \in Worker, workers[w].at # "idle",
           workers[w].block = <<>>, workers[w].frames = <<>>,
           EndItemBlock(w), failed' \in BOOLEAN, failed => failed',
           \/ UNCHANGED released
           \/ /\ released' = released \cup (workers[w].hooked \cap quiesced)
              /\ AllProcessed(workers[w].hooked)
    PROVE  IInv'
<1>1. UNCHANGED <<cluster, index, objects, wg, timeUp, mishaps, counted,
                  tracker, skipped, taken, snapshots, archive, main, blocks,
                  quiesced>>
  BY DEF EndItemBlock, pvbVars
<1>2. /\ workers' = [workers EXCEPT ![w] = Idle] /\ pending' = pending - 1
  BY DEF EndItemBlock
<1>3. WorkersType /\ HookedInv /\ PVBInv
  BY DEF IInv, Types
<1>4. /\ WorkersType' /\ workers'[w] = Idle
      /\ \A v \in Worker : v # w => workers'[v] = workers[v]
  <2>1. Idle \in [at : {"idle", "items", "post", "wait"}, block : Seq(Item),
                  hooked : SUBSET Pod, frames : Seq(Frame)]
    BY DEF Idle
  <2>2. QED
    BY <1>2, <1>3, <2>1 DEF WorkersType
<1>5. /\ workers'[w].at = "idle" /\ workers'[w].block = <<>>
      /\ workers'[w].hooked = {} /\ workers'[w].frames = <<>>
  BY <1>4 DEF Idle
<1>6. released' \subseteq quiesced' /\ released \subseteq released'
  BY <1>1 DEF IInv, Types
<1>7. Types'
  BY <1>1, <1>2, <1>4, <1>6 DEF IInv, Types, MainType, PVBTypes, DataTypes
<1>8. w \in Busy /\ Busy' = Busy \ {w}
  BY <1>4, <1>5 DEF Busy
<1>9. Cardinality(Busy') = Cardinality(Busy) - 1 /\ Cardinality(Busy') \in Nat
  <2>1. Busy \subseteq Worker /\ Busy' \subseteq Worker
    BY DEF Busy
  <2>2. QED
    BY <1>8, <2>1, FiniteFacts, FS_RemoveElement
<1>10. PendingInv' /\ pending >= 1
  <2>1. Len(blocks) \in Nat /\ pending \in Int /\ Len(blocks') = Len(blocks)
    BY <1>1 DEF IInv, Types
  <2>2. Cardinality(Busy) \in Nat
    <3>1. Busy \subseteq Worker
      BY DEF Busy
    <3>2. QED
      BY <3>1, FiniteFacts
  <2>3. pending = Len(blocks) + Cardinality(Busy)
    BY DEF IInv, PendingInv
  <2>4. pending' = Len(blocks') + Cardinality(Busy')
    BY <1>2, <1>9, <2>1, <2>2, <2>3
  <2>5. pending >= 1
    BY <1>9, <2>1, <2>2, <2>3
  <2>6. QED
    BY <2>4, <2>5 DEF PendingInv
<1>12. LoopInv'
  BY <1>1, <1>2, <1>10 DEF IInv, LoopInv, InTodo, Included, Types, MainType
<1>13. QueueInv' /\ LinkInv'
  BY <1>1
  DEF IInv, QueueInv, LinkInv, Linked, Sent, InItems, InTodo, Included, Mounted, Resolved
<1>14. \A v \in Worker : \A p : Hooked(v, p)' <=> v # w /\ Hooked(v, p)
  BY <1>4, <1>5 DEF Hooked
<1>15. StartInv'
  <2> SUFFICES ASSUME NEW p \in Pod, Untouched(p) PROVE Untouched(p)'
    BY <1>1 DEF IInv, StartInv, InItems, InQueue
  <2>1. \A v \in Worker : p \notin ToSet(workers'[v].block)
    BY <1>4, <1>5, EmptyFacts DEF Untouched
  <2>2. QED
    BY <1>1, <1>14, <2>1 DEF Untouched, Fresh
<1>16. FramesInv'
  <2> SUFFICES ASSUME NEW v \in Worker, NEW n \in DOMAIN workers'[v].frames,
                      NEW f, f = workers'[v].frames[n]
               PROVE  FrameFits(v, n, f)'
    BY DEF FramesInv, FrameFits
  <2>1. v # w
    BY <1>5
  <2>2. FrameFits(v, n, f)
    BY <1>4, <2>1 DEF IInv, FramesInv
  <2>3. QED
    BY <1>1, <1>14, <2>1, <2>2 DEF FrameFits, FailedHook, Fresh, Mounted
<1>17. ToComeInv'
  <2> SUFFICES ASSUME NEW v \in Worker
               PROVE  /\ Injective(workers'[v].block)
                      /\ workers'[v].at # "items" =>
                             workers'[v].block = <<>> /\ workers'[v].frames = <<>>
                      /\ workers'[v].at = "idle" => workers'[v].hooked = {}
                      /\ \A p \in ToSet(workers'[v].block) \cap Pod :
                             /\ Hooked(v, p)' \/ FailedHook(p)'
                             /\ Fresh(p, Claim)'
                             /\ \A n \in DOMAIN workers'[v].frames :
                                    workers'[v].frames[n].item # p
    BY DEF ToComeInv
  <2>1. CASE v = w
    BY <1>5, <2>1, EmptyFacts
  <2>2. CASE v # w
    BY <1>1, <1>4, <1>14, <2>2 DEF IInv, ToComeInv, FailedHook, Fresh
  <2>3. QED
    BY <2>1, <2>2
<1>18. HookedInv'
  <2> SUFFICES ASSUME NEW v \in Worker, v # w, NEW p \in workers[v].hooked
               PROVE  /\ Included(p) /\ cluster.hooks[p] # "fails"
                      /\ cluster.hooks[p] = "ok" => p \in quiesced \ released'
                      /\ \A u \in Worker : Hooked(u, p) => u = v
                      /\ \A q \in Pod, c \in Claim : Linked(p, c) /\ Linked(c, q) =>
                             Hooked(v, q) \/ cluster.hooks[q] = "fails"
    BY <1>1, <1>4, <1>5, <1>14 DEF HookedInv, Included, Linked, Mounted, Resolved
  <2>1. p \notin workers[w].hooked
    BY <1>3 DEF HookedInv, Hooked
  <2>2. QED
    BY <1>3, <2>1 DEF HookedInv
<1>19. ASSUME NEW k \in PVB, objects[k].phase = "New"
       PROVE  Orphan(k)' \/ \E v \in Worker : Hooked(v, k[1])'
  <2>1. CASE Orphan(k)
    <3> SUFFICES ASSUME Resolved(k[1]), NEW p \in Pod, Held(p, k[2])
                 PROVE  /\ p \in quiesced \ released'
                        /\ \A v \in Worker : ~(v # w /\ Hooked(v, p))
      BY <1>1, <1>14 DEF Orphan, Held, UsersOf, Included, Mounted, Resolved
    <3>1. p \in quiesced \ released /\ \A v \in Worker : ~Hooked(v, p)
      BY <2>1 DEF Orphan
    <3>2. QED
      BY <3>1 DEF Hooked
  <2>2. CASE \E v \in Worker : v # w /\ Hooked(v, k[1])
    BY <1>14, <2>2
  <2>3. CASE Hooked(w, k[1])
    <3>1. UNCHANGED released
      BY <1>19, <2>3, NoneRuns
    <3>2. k[1] \in Pod /\ k[2] \in Claim
      BY DEF PVB
    <3>3. k[2] \in Mounted(k[1]) /\ k[1] \in cluster.running
      BY <1>3, <1>19 DEF PVBInv
    <3> SUFFICES ASSUME Resolved(k[1]), NEW p \in Pod, Held(p, k[2])
                 PROVE  /\ p \in quiesced \ released
                        /\ \A v \in Worker : ~(v # w /\ Hooked(v, p))
      BY <1>1, <1>14, <3>1 DEF Orphan, Held, UsersOf, Included, Mounted, Resolved
    <3>4. Included(k[1]) /\ Included(k[2]) /\ Included(p)
      BY <1>3, <2>3 DEF HookedInv, Hooked, Held
    <3>5. Linked(k[1], k[2]) /\ Linked(k[2], p)
      BY <3>2, <3>3, <3>4 DEF Linked, Held, UsersOf
    <3>6. Hooked(w, p)
      BY <1>3, <2>3, <3>2, <3>5 DEF HookedInv, Hooked, Held
    <3>7. QED
      BY <1>3, <3>6 DEF HookedInv, Hooked, Held
  <2>4. QED
    BY <1>3, <1>19, <2>1, <2>2, <2>3 DEF PVBInv
<1>20. PVBInv'
  BY <1>1, <1>3, <1>19 DEF PVBInv, Mounted
<1>21. GroupInv'
  <2>1. Waited' = Waited
    BY <1>1 DEF Waited
  <2>2. QED
    BY <1>1, <2>1 DEF IInv, GroupInv
<1>22. CoverInv'
  <2> SUFFICES ASSUME ~failed, NEW i \in Wanted
               PROVE  /\ i \in main.seen => Covered(i)'
                      /\ i \in counted => Backed(i)'
    BY <1>1 DEF CoverInv, Wanted
  <2>1. /\ i \in main.seen => Covered(i)
        /\ i \in counted => Backed(i)
    BY DEF IInv, CoverInv
  <2>2. \A v \in Worker : (Under(v, i) => Under(v, i)') /\ (InFrame(v, i) => InFrame(v, i)')
    BY <1>4 DEF Under, InFrame
  <2>3. \A v \in Worker : i \in ToSet(workers[v].block) => i \in ToSet(workers'[v].block)
    BY <1>4, EmptyFacts
  <2>4. QED
    BY <1>1, <2>1, <2>2, <2>3 DEF Covered, Backed, InItems, InQueue
<1>23. QED
  BY <1>7, <1>10, <1>12, <1>13, <1>15, <1>16, <1>17, <1>18, <1>20, <1>21, <1>22
  DEF IInv

LEMMA ItemsDoneKeeps ==
    ASSUME IInv, NEW w \in Worker,
           ItemsDone(w) \/ PostHooks(w) \/ NoPostHooks(w)
    PROVE  IInv'
<1>1. failed \in BOOLEAN
  BY DEF IInv, Types, DataTypes
<1>2. CASE ItemsDone(w)
  <2>1. CASE workers[w].hooked = {}
    <3>1. EndItemBlock(w) /\ UNCHANGED <<failed, released>>
      BY <1>2, <2>1 DEF ItemsDone
    <3>2. workers[w].at # "idle" /\ workers[w].block = <<>> /\ workers[w].frames = <<>>
      BY <1>2 DEF ItemsDone, BetweenItems
    <3>3. failed' \in BOOLEAN /\ (failed => failed')
      BY <1>1, <3>1, Zenon
    <3>4. QED
      BY <3>1, <3>2, <3>3, EndKeeps
  <2>2. CASE workers[w].hooked # {}
    <3>1. PICK at \in {"post", "wait"} : workers' = [workers EXCEPT ![w].at = at]
      BY <1>2, <2>2 DEF ItemsDone
    <3>2. QED
      BY <1>2, <2>2, <3>1, LookKeeps DEF ItemsDone
  <2>3. QED
    BY <2>1, <2>2
<1>3. CASE PostHooks(w) \/ NoPostHooks(w)
  <2>1. workers[w].at \in {"post", "wait"}
    BY <1>3 DEF PostHooks, NoPostHooks
  <2>2. workers[w].block = <<>> /\ workers[w].frames = <<>>
    BY <2>1 DEF IInv, ToComeInv
  <2>3. failed' \in BOOLEAN /\ (failed => failed')
    <3>1. failed' = failed \/ failed' = TRUE
      BY <1>3 DEF PostHooks, NoPostHooks
    <3>2. QED
      BY <1>1, <3>1, Zenon
  <2>4. EndItemBlock(w)
    BY <1>3 DEF PostHooks, NoPostHooks
  <2>5. \/ UNCHANGED released
        \/ /\ released' = released \cup (workers[w].hooked \cap quiesced)
           /\ AllProcessed(workers[w].hooked)
    BY <1>3 DEF PostHooks, NoPostHooks
  <2>6. QED
    BY <2>1, <2>2, <2>3, <2>4, <2>5, EndKeeps
<1>4. QED
  BY <1>2, <1>3

\* A worker takes the first block.
LEMMA StartKeeps ==
    ASSUME IInv, NEW w \in Worker, StartItemBlock(w)
    PROVE  IInv'
<1>1. /\ WorkersType /\ DataTypes /\ QueueInv /\ LinkInv /\ StartInv
      /\ HookedInv /\ PVBInv /\ ToComeInv /\ blocks \in Seq(Seq(Item))
      /\ blocks # <<>> /\ workers[w].at = "idle" /\ pending \in Int
      /\ released \subseteq quiesced /\ quiesced \subseteq Pod
  BY DEF IInv, Types, StartItemBlock
<1>2. UNCHANGED <<cluster, index, objects, wg, timeUp, mishaps, tracker,
                  skipped, taken, snapshots, archive, main, pending, released>>
  BY DEF StartItemBlock, pvbVars
<1>3. PICK b \in Seq(Item) : b = Head(blocks)
  BY <1>1, TailFacts
<1>4. PICK t \in Seq(Seq(Item)) : t = Tail(blocks)
  BY <1>1, TailFacts
<1>5. /\ Len(blocks) \in Nat \ {0} /\ Len(t) = Len(blocks) - 1
      /\ DOMAIN blocks = 1 .. Len(blocks) /\ DOMAIN t = 1 .. Len(blocks) - 1
      /\ blocks[1] = b /\ \A n \in DOMAIN t : t[n] = blocks[n + 1]
  BY <1>1, <1>3, <1>4
<1>6. 1 \in DOMAIN blocks /\ \A n \in DOMAIN t : n + 1 \in DOMAIN blocks /\ n + 1 # 1
  BY <1>5
<1>7. blocks' = t
  BY <1>4 DEF StartItemBlock
<1>8. /\ Injective(b)
      /\ \A i \in ToSet(b) : i \in main.seen /\ Included(i) /\ ~InItems(i) /\ InQueue(i)
      /\ \A n \in DOMAIN t : ToSet(t[n]) \cap ToSet(b) = {}
  <2>1. /\ Injective(blocks[1])
        /\ \A i \in ToSet(blocks[1]) :
               i \in main.seen /\ Included(i) /\ ~InItems(i) /\ InQueue(i)
    BY <1>1, <1>6 DEF QueueInv, InQueue
  <2>2. \A n \in DOMAIN t : ToSet(blocks[n + 1]) \cap ToSet(blocks[1]) = {}
    BY <1>1, <1>6 DEF QueueInv
  <2>3. QED
    BY <1>5, <2>1, <2>2
<1>9. ASSUME NEW p \in ToSet(b) \cap Pod
      PROVE  Untouched(p)
  BY <1>1, <1>8 DEF StartInv
<1>10. PICK pods \in SUBSET Pod : pods = ToSet(b) \cap Pod
  OBVIOUS
<1>11. PICK failing \in SUBSET pods :
           failing = {p \in pods : cluster.hooks[p] = "fails"}
  OBVIOUS
<1>12. pods = {p \in ToSet(b) \cap Pod : p \notin counted}
  BY <1>9, <1>10 DEF Untouched
<1>13. /\ counted' = counted \cup failing
       /\ failed' = (failed \/ failing # {})
       /\ quiesced' = quiesced \cup {p \in pods : cluster.hooks[p] = "ok"}
       /\ workers' = [workers EXCEPT ![w] =
              [at |-> "items", block |-> b, hooked |-> pods \ failing,
               frames |-> <<>>]]
  BY <1>3, <1>11, <1>12 DEF StartItemBlock
<1>14. /\ WorkersType'
       /\ workers'[w].at = "items" /\ workers'[w].block = b
       /\ workers'[w].hooked = pods \ failing /\ workers'[w].frames = <<>>
       /\ \A v \in Worker : v # w => workers'[v] = workers[v]
  <2>1. [at |-> "items", block |-> b, hooked |-> pods \ failing, frames |-> <<>>]
            \in [at : {"idle", "items", "post", "wait"}, block : Seq(Item),
                 hooked : SUBSET Pod, frames : Seq(Frame)]
    BY <1>3, <1>10, <1>11
  <2>2. QED
    BY <1>1, <1>13, <2>1 DEF WorkersType
<1>15. workers[w].hooked = {} /\ workers[w].block = <<>> /\ workers[w].frames = <<>>
  BY <1>1 DEF ToComeInv
<1>16. Types'
  <2>1. failed' \in BOOLEAN
    BY <1>1, <1>13, Zenon DEF DataTypes
  <2>2. counted' \subseteq Item
    BY <1>1, <1>13 DEF DataTypes, Item
  <2>3. DataTypes'
    BY <1>1, <1>2, <2>1, <2>2 DEF DataTypes
  <2>4. released' \subseteq quiesced' /\ quiesced' \subseteq Pod
    BY <1>1, <1>2, <1>13
  <2>5. QED
    BY <1>2, <1>7, <1>14, <2>3, <2>4 DEF IInv, Types, MainType, PVBTypes
<1>17. LoopInv'
  BY <1>2 DEF IInv, LoopInv, InTodo, Included
<1>18. \A i : InItems(i)' <=> InItems(i)
  BY <1>2 DEF InItems
<1>19. QueueInv'
  <2>1. \A n \in DOMAIN t :
            /\ Injective(t[n])
            /\ \A i \in ToSet(t[n]) : i \in main.seen /\ Included(i) /\ ~InItems(i)
    BY <1>1, <1>5, <1>6 DEF QueueInv
  <2>2. \A m, n \in DOMAIN t : m # n => ToSet(t[m]) \cap ToSet(t[n]) = {}
    <3> SUFFICES ASSUME NEW m \in DOMAIN t, NEW n \in DOMAIN t, m # n
                 PROVE  ToSet(t[m]) \cap ToSet(t[n]) = {}
      OBVIOUS
    <3>1. m + 1 \in DOMAIN blocks /\ n + 1 \in DOMAIN blocks /\ m + 1 # n + 1
      BY <1>5
    <3>2. t[m] = blocks[m + 1] /\ t[n] = blocks[n + 1]
      BY <1>5
    <3>3. QED
      BY <1>1, <3>1, <3>2 DEF QueueInv
  <2>3. QED
    BY <1>2, <1>7, <1>18, <2>1, <2>2 DEF QueueInv, Included
<1>20. LinkInv'
  <2>1. ASSUME NEW i \in Item, NEW r \in Item, Linked(i, r)
        PROVE  \A n \in DOMAIN t : i \in ToSet(t[n]) => r \in ToSet(t[n])
    BY <1>1, <1>5, <1>6, <2>1 DEF LinkInv
  <2>2. \A i, r : Linked(i, r)' <=> Linked(i, r)
    BY <1>2 DEF Linked, Included, Mounted, Resolved
  <2>3. \A i : (Sent(i)' <=> Sent(i)) /\ (InTodo(i)' <=> InTodo(i))
    BY <1>2, <1>18 DEF Sent, InTodo, Included
  <2>4. QED
    BY <1>1, <1>7, <1>18, <2>1, <2>2, <2>3 DEF LinkInv
<1>21. PendingInv'
  <2>1. Busy' = Busy \cup {w} /\ w \notin Busy /\ Busy \subseteq Worker
    BY <1>1, <1>14 DEF Busy
  <2>2. /\ Cardinality(Busy') = Cardinality(Busy) + 1
        /\ Cardinality(Busy) \in Nat
    BY <2>1, FiniteFacts, FS_AddElement
  <2>3. pending = Len(blocks) + Cardinality(Busy)
    BY DEF IInv, PendingInv
  <2>4. pending = Len(t) + Cardinality(Busy')
    BY <1>1, <1>5, <2>2, <2>3
  <2>5. QED
    BY <1>2, <1>7, <2>4 DEF PendingInv
<1>22. \A i : InQueue(i)' => InQueue(i) /\ i \notin ToSet(b)
  BY <1>5, <1>6, <1>7, <1>8 DEF InQueue
<1>23. \A i : InQueue(i) => InQueue(i)' \/ i \in ToSet(b)
  <2> SUFFICES ASSUME NEW i, NEW n \in DOMAIN blocks, i \in ToSet(blocks[n]),
                      n # 1
               PROVE  InQueue(i)'
    BY <1>5 DEF InQueue
  <2>1. n - 1 \in DOMAIN t /\ (n - 1) + 1 = n
    BY <1>5
  <2>2. t[n - 1] = blocks[n]
    BY <1>5, <2>1
  <2>3. QED
    BY <1>7, <2>1, <2>2 DEF InQueue
<1>24. \A v \in Worker : \A p : Hooked(v, p)' <=>
           IF v = w THEN p \in pods \ failing ELSE Hooked(v, p)
  BY <1>14 DEF Hooked
<1>25. \A p \in Pod : \A S : Fresh(p, S)' <=> Fresh(p, S)
  BY <1>2 DEF Fresh
<1>26. \A p : FailedHook(p) => FailedHook(p)'
  BY <1>2, <1>13 DEF FailedHook
<1>27. StartInv'
  <2> SUFFICES ASSUME NEW p \in Pod
               PROVE  Untouched(p)' \/ (p \in main.seen /\ ~InItems(p) /\ ~InQueue(p)')
    BY <1>2, <1>18 DEF StartInv
  <2>1. CASE p \in ToSet(b)
    BY <1>8, <1>22, <2>1
  <2>2. CASE p \notin ToSet(b) /\ Untouched(p)
    <3>1. p \notin pods
      BY <1>10, <2>2
    <3>2. p \notin counted' /\ p \notin quiesced'
      BY <1>13, <2>2, <3>1 DEF Untouched
    <3>3. \A v \in Worker : ~Hooked(v, p)' /\ p \notin ToSet(workers'[v].block)
      BY <1>14, <1>24, <2>2, <3>1 DEF Untouched
    <3>4. QED
      BY <1>25, <2>2, <3>2, <3>3 DEF Untouched
  <2>3. CASE p \in main.seen /\ ~InItems(p) /\ ~InQueue(p)
    BY <1>22, <2>3
  <2>4. QED
    BY <1>1, <2>1, <2>2, <2>3 DEF StartInv
<1>28. FramesInv'
  <2> SUFFICES ASSUME NEW v \in Worker, NEW n \in DOMAIN workers'[v].frames,
                      NEW f, f = workers'[v].frames[n]
               PROVE  FrameFits(v, n, f)'
    BY DEF FramesInv, FrameFits
  <2>1. v # w
    BY <1>14
  <2>2. FrameFits(v, n, f)
    BY <1>14, <2>1 DEF IInv, FramesInv
  <2>3. QED
    BY <1>2, <1>24, <1>25, <1>26, <2>1, <2>2 DEF FrameFits, Mounted
<1>29. ToComeInv'
  <2> SUFFICES ASSUME NEW v \in Worker
               PROVE  /\ Injective(workers'[v].block)
                      /\ workers'[v].at # "items" =>
                             workers'[v].block = <<>> /\ workers'[v].frames = <<>>
                      /\ workers'[v].at = "idle" => workers'[v].hooked = {}
                      /\ \A p \in ToSet(workers'[v].block) \cap Pod :
                             /\ Hooked(v, p)' \/ FailedHook(p)'
                             /\ Fresh(p, Claim)'
                             /\ \A n \in DOMAIN workers'[v].frames :
                                    workers'[v].frames[n].item # p
    BY DEF ToComeInv
  <2>1. CASE v = w
    <3>1. ASSUME NEW p \in ToSet(b) \cap Pod
          PROVE  (Hooked(w, p)' \/ FailedHook(p)') /\ Fresh(p, Claim)'
      <4>1. Fresh(p, Claim)
        BY <1>9 DEF Untouched
      <4>2. p \in failing => FailedHook(p)'
        BY <1>2, <1>11, <1>13 DEF FailedHook
      <4>3. QED
        BY <1>10, <1>24, <1>25, <4>1, <4>2
    <3>2. QED
      BY <1>8, <1>14, <2>1, <3>1
  <2>2. CASE v # w
    BY <1>1, <1>14, <1>24, <1>25, <1>26, <2>2 DEF ToComeInv
  <2>3. QED
    BY <2>1, <2>2
<1>30. \A p \in pods : /\ \A v \in Worker : ~Hooked(v, p)
                       /\ p \notin quiesced /\ p \notin released
  BY <1>1, <1>9, <1>10 DEF Untouched
<1>31. ASSUME NEW p \in pods, NEW q \in Pod, NEW c \in Claim,
              Linked(p, c), Linked(c, q)
       PROVE  q \in pods
  <2>1. c \in ToSet(b)
    BY <1>1, <1>5, <1>6, <1>10, <1>31 DEF LinkInv, Item
  <2>2. q \in ToSet(b)
    BY <1>1, <1>5, <1>6, <1>31, <2>1 DEF LinkInv, Item
  <2>3. QED
    BY <1>10, <2>2
<1>32. HookedInv'
  <2> SUFFICES ASSUME NEW v \in Worker, NEW p, Hooked(v, p)'
               PROVE  /\ Included(p) /\ cluster.hooks[p] # "fails"
                      /\ cluster.hooks[p] = "ok" => p \in quiesced' \ released
                      /\ \A u \in Worker : Hooked(u, p)' => u = v
                      /\ \A q \in Pod, c \in Claim : Linked(p, c) /\ Linked(c, q) =>
                             Hooked(v, q)' \/ cluster.hooks[q] = "fails"
    BY <1>2 DEF HookedInv, Included, Linked, Mounted, Hooked, Resolved
  <2>1. CASE v = w
    <3>1. p \in pods /\ p \notin failing /\ p \in ToSet(b)
      BY <1>10, <1>24, <2>1
    <3>2. Included(p) /\ cluster.hooks[p] # "fails"
      BY <1>8, <1>11, <3>1
    <3>3. cluster.hooks[p] = "ok" => p \in quiesced' \ released
      BY <1>13, <1>30, <3>1
    <3>4. \A u \in Worker : Hooked(u, p)' => u = w
      BY <1>24, <1>30, <3>1
    <3>5. \A q \in Pod, c \in Claim : Linked(p, c) /\ Linked(c, q) =>
              Hooked(w, q)' \/ cluster.hooks[q] = "fails"
      BY <1>11, <1>24, <1>31, <3>1
    <3>6. QED
      BY <2>1, <3>2, <3>3, <3>4, <3>5
  <2>2. CASE v # w
    <3>1. Hooked(v, p) /\ p \notin pods
      BY <1>24, <1>30, <2>2
    <3>2. /\ Included(p) /\ cluster.hooks[p] # "fails"
          /\ cluster.hooks[p] = "ok" => p \in quiesced \ released
          /\ \A u \in Worker : Hooked(u, p) => u = v
          /\ \A q \in Pod, c \in Claim : Linked(p, c) /\ Linked(c, q) =>
                 Hooked(v, q) \/ cluster.hooks[q] = "fails"
      BY <1>1, <3>1 DEF HookedInv, Hooked
    <3>3. QED
      BY <1>13, <1>24, <2>2, <3>1, <3>2
  <2>3. QED
    BY <2>1, <2>2
<1>33. ASSUME NEW k \in PVB, objects[k].phase = "New"
       PROVE  Orphan(k)' \/ \E v \in Worker : Hooked(v, k[1])'
  <2>1. CASE Orphan(k)
    <3> SUFFICES ASSUME Resolved(k[1]), NEW p \in Pod, Held(p, k[2])
                 PROVE  /\ p \in quiesced' \ released
                        /\ \A v \in Worker : ~Hooked(v, p)'
      BY <1>2 DEF Orphan, Held, UsersOf, Included, Mounted, Resolved
    <3>1. p \in quiesced \ released /\ \A v \in Worker : ~Hooked(v, p)
      BY <2>1 DEF Orphan
    <3>2. QED
      BY <1>13, <1>24, <1>30, <3>1
  <2>2. CASE \E v \in Worker : Hooked(v, k[1])
    <3>1. PICK v \in Worker : Hooked(v, k[1])
      BY <2>2
    <3>2. v # w
      BY <1>15, <3>1 DEF Hooked
    <3>3. QED
      BY <1>24, <3>1, <3>2
  <2>3. QED
    BY <1>1, <1>33, <2>1, <2>2 DEF PVBInv
<1>34. PVBInv'
  BY <1>1, <1>2, <1>33 DEF PVBInv, Mounted
<1>35. GroupInv'
  <2>1. Waited' = Waited
    BY <1>2 DEF Waited
  <2>2. QED
    BY <1>2, <2>1 DEF IInv, GroupInv
<1>36. CoverInv'
  <2> SUFFICES ASSUME ~failed', NEW i \in Wanted
               PROVE  /\ i \in main.seen => Covered(i)'
                      /\ i \in counted' => Backed(i)'
    BY <1>2 DEF CoverInv, Wanted
  <2>1. ~failed /\ counted' = counted
    BY <1>13
  <2>2. (i \in main.seen => Covered(i)) /\ (i \in counted => Backed(i))
    BY <2>1 DEF IInv, CoverInv
  <2>3. \A v \in Worker : (Under(v, i) => Under(v, i)') /\ (InFrame(v, i) => InFrame(v, i)')
    BY <1>14, <1>15 DEF Under, InFrame
  <2>4. Backed(i) => Backed(i)'
    BY <1>2, <2>3 DEF Backed
  <2>5. \A v \in Worker : i \in ToSet(workers[v].block) => i \in ToSet(workers'[v].block)
    BY <1>14, <1>15, EmptyFacts
  <2>6. i \in ToSet(b) => i \in ToSet(workers'[w].block)
    BY <1>14
  <2>7. Covered(i) => Covered(i)'
    BY <1>2, <1>18, <1>23, <2>3, <2>5, <2>6 DEF Covered
  <2>8. QED
    BY <2>1, <2>2, <2>4, <2>7
<1>37. QED
  BY <1>16, <1>17, <1>19, <1>20, <1>21, <1>27, <1>28, <1>29, <1>32, <1>34,
     <1>35, <1>36 DEF IInv

-----------------------------------------------------------------------------
(***************************************************************************)
(* The main loop forms the blocks.                                         *)
(***************************************************************************)
InSome(groups, i) == \E n \in DOMAIN groups : i \in groups[n]

LEMMA ConcatFacts ==
    ASSUME NEW s \in Seq(SUBSET Item), NEW t \in Seq(SUBSET Item)
    PROVE  /\ s \o t \in Seq(SUBSET Item)
           /\ \A i : InSome(s \o t, i) <=> InSome(s, i) \/ InSome(t, i)
<1>1. /\ s \o t \in Seq(SUBSET Item) /\ Len(s) \in Nat /\ Len(t) \in Nat
      /\ DOMAIN s = 1 .. Len(s) /\ DOMAIN t = 1 .. Len(t)
      /\ DOMAIN (s \o t) = 1 .. Len(s) + Len(t)
  OBVIOUS
<1>2. /\ \A n \in 1 .. Len(s) : (s \o t)[n] = s[n]
      /\ \A n \in 1 .. Len(t) : (s \o t)[Len(s) + n] = t[n]
  OBVIOUS
<1>3. ASSUME NEW i, InSome(s \o t, i) PROVE InSome(s, i) \/ InSome(t, i)
  <2>1. PICK n \in 1 .. Len(s) + Len(t) : i \in (s \o t)[n]
    BY <1>1, <1>3 DEF InSome
  <2>2. CASE n <= Len(s)
    BY <1>1, <1>2, <2>1, <2>2 DEF InSome
  <2>3. CASE n > Len(s)
    <3>1. n - Len(s) \in 1 .. Len(t) /\ Len(s) + (n - Len(s)) = n
      BY <1>1, <2>1, <2>3
    <3>2. i \in t[n - Len(s)]
      BY <1>2, <2>1, <3>1
    <3>3. QED
      BY <1>1, <3>1, <3>2 DEF InSome
  <2>4. QED
    BY <1>1, <2>1, <2>2, <2>3
<1>4. ASSUME NEW i, InSome(s, i) PROVE InSome(s \o t, i)
  <2>1. PICK n \in 1 .. Len(s) : i \in s[n]
    BY <1>1, <1>4 DEF InSome
  <2>2. n \in 1 .. Len(s) + Len(t)
    BY <1>1, <2>1
  <2>3. QED
    BY <1>1, <1>2, <2>1, <2>2 DEF InSome
<1>5. ASSUME NEW i, InSome(t, i) PROVE InSome(s \o t, i)
  <2>1. PICK n \in 1 .. Len(t) : i \in t[n]
    BY <1>1, <1>5 DEF InSome
  <2>2. Len(s) + n \in 1 .. Len(s) + Len(t)
    BY <1>1, <2>1
  <2>3. QED
    BY <1>1, <1>2, <2>1, <2>2 DEF InSome
<1>6. QED
  BY <1>1, <1>3, <1>4, <1>5

LEMMA UnseenFacts ==
    ASSUME NEW s \in Seq(SUBSET Item), NEW seen \in SUBSET Item
    PROVE  \E new \in Seq(SUBSET Item) :
               /\ new = Unseen(s, seen)
               /\ \A i : InSome(new, i) <=> InSome(s, i) /\ i \notin seen
<1>1. Unseen(s, seen) = [n \in 1 .. Len(s) |-> s[n] \ seen] /\ Len(s) \in Nat
      /\ DOMAIN s = 1 .. Len(s)
  BY DEF Unseen
<1>2. \A n \in 1 .. Len(s) : s[n] \ seen \in SUBSET Item
  OBVIOUS
<1>3. Unseen(s, seen) \in Seq(SUBSET Item)
  BY <1>1, <1>2
<1>4. \A i : InSome(Unseen(s, seen), i) <=> InSome(s, i) /\ i \notin seen
  BY <1>1 DEF InSome
<1>5. QED
  BY <1>3, <1>4

\* What is linked to an item is related to it.
LEMMA RelatedFacts ==
    ASSUME cluster \in Clusters, NEW i \in Item
    PROVE  /\ RelatedItems(i) \in Seq(SUBSET Item)
           /\ \A r \in Item : Linked(i, r) => InSome(RelatedItems(i), r)
<1>1. ASSUME NEW p \in Pod PROVE Mounted(p) \in SUBSET Claim
  BY ClusterFacts DEF Mounted
<1>0. CASE i \in cluster.unlisted
  BY <1>0 DEF RelatedItems, Linked, Resolved
<1>2. CASE i \in Pod /\ i \notin cluster.unlisted
  <2>1. RelatedItems(i) = <<Mounted(i)>>
    BY <1>2 DEF RelatedItems
  <2>2. Mounted(i) \in SUBSET Item
    BY <1>1, <1>2 DEF Item
  <2>3. \A r : Linked(i, r) => r \in Mounted(i)
    BY <1>2, ItemsAssumption DEF Linked
  <2>4. <<Mounted(i)>> \in Seq(SUBSET Item)
    BY <2>2
  <2>5. \A r : r \in Mounted(i) => InSome(<<Mounted(i)>>, r)
    BY DEF InSome
  <2>6. QED
    BY <2>1, <2>3, <2>4, <2>5
<1>3. CASE i \in Claim /\ i \notin cluster.unlisted
  <2> DEFINE U == UsersOf(i) \cap cluster.running
             V == {BoundTo[i]}
  <2>1. i \notin Pod
    BY <1>3, ItemsAssumption
  <2>2. RelatedItems(i) = <<V, U>>
    BY <1>3, <2>1 DEF RelatedItems
  <2>3. V \in SUBSET Item /\ U \in SUBSET Item
    BY <1>3, ItemsAssumption DEF Item, UsersOf
  <2>4. \A r : Linked(i, r) => r \in U
    BY <1>3, <2>1 DEF Linked, UsersOf
  <2> HIDE DEF U, V
  <2>5. <<V, U>> \in Seq(SUBSET Item)
    BY <2>3
  <2>6. \A r : r \in U => InSome(<<V, U>>, r)
    BY DEF InSome
  <2>7. QED
    BY <2>2, <2>4, <2>5, <2>6
<1>4. CASE i \notin Pod /\ i \notin Claim /\ i \notin cluster.unlisted
  <2>1. RelatedItems(i) = <<>>
    BY <1>4 DEF RelatedItems
  <2>2. QED
    BY <1>4, <2>1 DEF Linked
<1>5. QED
  BY <1>0, <1>2, <1>3, <1>4

\* The workers and what they share rest.
LEMMA LoopKeeps ==
    ASSUME IInv, MainType', DataTypes', pending' \in Int,
           blocks' \in Seq(Seq(Item)),
           LoopInv', QueueInv', LinkInv', PendingInv',
           UNCHANGED <<cluster, pvbVars, mishaps, counted, archive, workers,
                       hookVars>>,
           ~failed' => ~failed,
           \A i \in Item : i \in main.seen /\ ~InItems(i) /\ ~InQueue(i) =>
               i \in main'.seen /\ ~InItems(i)' /\ ~InQueue(i)',
           ~failed' => \A i \in Wanted : i \in main'.seen =>
               InItems(i)' \/ (i \in main.seen
                               /\ (InItems(i) \/ InQueue(i) => InItems(i)' \/ InQueue(i)'))
    PROVE  IInv'
<1>1. UNCHANGED <<index, objects, wg, timeUp, quiesced, released>>
  BY DEF pvbVars, hookVars
<1>2. Types'
  BY <1>1 DEF IInv, Types, WorkersType, PVBTypes
<1>3. StartInv'
  <2>1. \A p \in Pod : Untouched(p)' <=> Untouched(p)
    BY <1>1 DEF Untouched, Fresh, Hooked
  <2>2. QED
    BY <2>1 DEF IInv, StartInv, Item
<1>4. FramesInv'
  BY <1>1 DEF IInv, FramesInv, FrameFits, Hooked, FailedHook, Fresh, Mounted
<1>5. ToComeInv'
  BY <1>1 DEF IInv, ToComeInv, Hooked, FailedHook, Fresh
<1>6. HookedInv'
  BY <1>1, HookedStays DEF IInv
<1>7. PVBInv' /\ GroupInv'
  BY <1>1, PhasesStay
<1>8. CoverInv'
  <2>1. \A i : (Backed(i)' <=> Backed(i)) /\ \A w \in Worker : InFrame(w, i)' <=> InFrame(w, i)
    BY DEF Backed, Under, InFrame
  <2> SUFFICES ASSUME ~failed', ~failed, NEW i \in Wanted
               PROVE  /\ i \in main'.seen => Covered(i)'
                      /\ i \in counted => Backed(i)'
    BY DEF CoverInv, Wanted
  <2>2. (i \in main.seen => Covered(i)) /\ (i \in counted => Backed(i))
    BY DEF IInv, CoverInv
  <2>3. QED
    BY <2>1, <2>2 DEF Covered
<1>9. QED
  BY <1>2, <1>3, <1>4, <1>5, <1>6, <1>7, <1>8 DEF IInv

LEMMA AddKeeps ==
    ASSUME IInv, NEW i \in Item, AddToBlock(i)
    PROVE  IInv'
<1> DEFINE seen == main.seen \cup {i}
<1>0. PICK fits \in BOOLEAN : fits <=> Included(i) /\ i \notin cluster.unread
  OBVIOUS
<1>1. /\ MainType /\ DataTypes /\ LoopInv /\ QueueInv /\ LinkInv
      /\ cluster \in Clusters /\ blocks \in Seq(Seq(Item)) /\ pending \in Int
  BY DEF IInv, Types
<1>2. PICK old \in Seq(SUBSET Item) : old = main.todo
  BY <1>1 DEF MainType
<1>3. PICK items \in Seq(Item) : items = main.items
  BY <1>1 DEF MainType
<1>4. /\ main.at = "sending" /\ InTodo(i) /\ i \notin main.seen
  <2>1. InTodo(i)
    BY DEF AddToBlock, IsNext, IsFirst, InTodo
  <2>2. QED
    BY <1>1, <2>1 DEF AddToBlock, LoopInv
<1>5. /\ UNCHANGED <<cluster, pvbVars, mishaps, counted, tracker, snapshots,
                     archive, workers, blocks, pending, hookVars>>
      /\ failed' \in BOOLEAN
      /\ ~failed' => ~failed /\ i \notin cluster.unread
  BY DEF AddToBlock
<1>6. seen \in SUBSET Item
  BY <1>1 DEF MainType
<1> HIDE DEF seen
<1>7. PICK todo \in Seq(SUBSET Item) :
          /\ main' = [main EXCEPT !.seen = seen,
                                  !.items = IF fits THEN Append(items, i) ELSE items,
                                  !.todo = todo]
          /\ \A j : InSome(todo, j) <=>
                 (InTodo(j) \/ (fits /\ InSome(RelatedItems(i), j))) /\ j \notin seen
  <2>1. \A j : InTodo(j) <=> InSome(old, j)
    BY <1>2 DEF InTodo, InSome
  <2>2. CASE fits
    <3>1. PICK rel \in Seq(SUBSET Item) : rel = RelatedItems(i)
      BY <1>1, RelatedFacts
    <3>2. PICK all \in Seq(SUBSET Item) :
              all = rel \o old /\ \A j : InSome(all, j) <=> InSome(rel, j) \/ InSome(old, j)
      BY ConcatFacts
    <3>3. PICK new \in Seq(SUBSET Item) :
              new = Unseen(all, seen)
              /\ \A j : InSome(new, j) <=> InSome(all, j) /\ j \notin seen
      BY <1>6, UnseenFacts
    <3>4. main' = [main EXCEPT !.seen = seen, !.items = Append(items, i),
                               !.todo = new]
      BY <1>0, <1>1, <1>2, <1>3, <2>2, <3>1, <3>2, <3>3 DEF AddToBlock, MainType, seen
    <3>5. QED
      BY <2>1, <2>2, <3>1, <3>2, <3>3, <3>4
  <2>3. CASE ~fits
    <3>1. PICK new \in Seq(SUBSET Item) :
              new = Unseen(old, seen)
              /\ \A j : InSome(new, j) <=> InSome(old, j) /\ j \notin seen
      BY <1>6, UnseenFacts
    <3>2. main' = [main EXCEPT !.seen = seen, !.items = items, !.todo = new]
      BY <1>0, <1>1, <1>2, <1>3, <2>3, <3>1 DEF AddToBlock, MainType, seen
    <3>3. QED
      BY <2>1, <2>3, <3>1, <3>2
  <2>4. QED
    BY <2>2, <2>3
<1>8. PICK next \in Seq(Item) :
          /\ next = IF fits THEN Append(items, i) ELSE items
          /\ ToSet(next) = IF fits THEN ToSet(items) \cup {i} ELSE ToSet(items)
          /\ Injective(items) /\ i \notin ToSet(items) => Injective(next)
  <2>1. CASE fits
    BY <2>1, AppendFacts
  <2>2. CASE ~fits
    BY <2>2
  <2>3. QED
    BY <2>1, <2>2
<1> USE DEF seen
<1>9. /\ MainType' /\ main'.at = "sending" /\ main'.nth = main.nth
      /\ main'.seen = seen /\ main'.items = next /\ main'.todo = todo
  BY <1>1, <1>4, <1>6, <1>7, <1>8 DEF MainType
<1>10. \A j : /\ InTodo(j)' <=> (InTodo(j) \/ (fits /\ InSome(RelatedItems(i), j))) /\ j \notin seen
              /\ InItems(j)' <=> InItems(j) \/ (fits /\ j = i)
              /\ InQueue(j)' <=> InQueue(j)
              /\ Included(j)' <=> Included(j)
  <2>1. \A j : InTodo(j)' <=> InSome(todo, j)
    BY <1>9 DEF InTodo, InSome
  <2>2. \A j : InItems(j)' <=> InItems(j) \/ (fits /\ j = i)
    BY <1>3, <1>8, <1>9 DEF InItems
  <2>3. QED
    BY <1>5, <1>7, <2>1, <2>2 DEF InQueue, Included
<1>11. \A j : InItems(j) => j \in main.seen /\ Included(j) /\ j # i
  BY <1>1, <1>4 DEF LoopInv, InItems
<1>12. main.nth # 0 /\ ~(main.nth > Len(Order))
  <2>1. main.todo # <<>>
    BY <1>4 DEF InTodo
  <2>2. QED
    BY <1>1, <2>1 DEF LoopInv
<1>13. LoopInv'
  <2>1. \A j \in Item : InTodo(j)' => j \notin main'.seen
    BY <1>9, <1>10
  <2>2. Injective(main'.items)
    BY <1>1, <1>3, <1>8, <1>9, <1>11 DEF LoopInv, InItems
  <2>3. \A j : InItems(j)' => j \in main'.seen /\ Included(j)'
    BY <1>0, <1>9, <1>10, <1>11
  <2>4. \A n \in DOMAIN Order : n <= main'.nth =>
            \/ Order[n] \in main'.seen
            \/ n = main'.nth /\ InTodo(Order[n])'
    BY <1>1, <1>9, <1>10 DEF LoopInv
  <2>5. pending' = pending
    BY <1>5
  <2>6. main.nth > 0 => pending <= main.nth - 1
    BY <1>1 DEF LoopInv
  <2>7. QED
    BY <1>9, <1>12, <2>1, <2>2, <2>3, <2>4, <2>5, <2>6 DEF LoopInv, InItems
<1>14. QueueInv'
  <2>1. ASSUME NEW n \in DOMAIN blocks, NEW j \in ToSet(blocks[n])
        PROVE  j \in main'.seen /\ Included(j)' /\ ~InItems(j)'
    BY <1>1, <1>4, <1>9, <1>10 DEF QueueInv
  <2>2. QED
    BY <1>1, <1>5, <2>1 DEF QueueInv
<1>15. LinkInv'
  <2> SUFFICES ASSUME NEW a \in Item, NEW r \in Item, Linked(a, r)
               PROVE  /\ Sent(a)' => Sent(r)'
                      /\ InItems(a)' => InItems(r)' \/ InTodo(r)'
                      /\ \A n \in DOMAIN blocks :
                             a \in ToSet(blocks[n]) => r \in ToSet(blocks[n])
    BY <1>5 DEF LinkInv, Linked, Included, Mounted, Resolved
  <2>1. \A j : j \notin cluster.unread => (Sent(j)' <=> Sent(j))
    BY <1>0, <1>4, <1>9, <1>10, <1>11 DEF Sent
  <2>2. /\ Included(a) /\ Included(r) /\ Linked(r, a)
        /\ a \notin cluster.unread /\ r \notin cluster.unread
    BY DEF Linked, Resolved
  <2>3. /\ Sent(a) => Sent(r)
        /\ Sent(r) => Sent(a)
        /\ InItems(a) => InItems(r) \/ InTodo(r)
        /\ \A n \in DOMAIN blocks : a \in ToSet(blocks[n]) => r \in ToSet(blocks[n])
    BY <1>1, <2>2 DEF LinkInv
  <2>4. ASSUME InItems(a), a # i
        PROVE  InItems(r)' \/ InTodo(r)'
    BY <1>0, <1>1, <1>10, <2>2, <2>3, <2>4 DEF LoopInv
  <2>5. ASSUME a = i
        PROVE  InItems(r)' \/ InTodo(r)'
    <3>1. InSome(RelatedItems(i), r) /\ fits
      BY <1>0, <1>1, <2>2, <2>5, RelatedFacts
    <3>2. CASE r \notin seen
      BY <1>10, <3>1, <3>2
    <3>3. CASE r = i
      BY <1>10, <3>1, <3>3
    <3>4. CASE r \in main.seen
      BY <1>4, <1>10, <2>2, <2>3, <2>5, <3>4 DEF Sent
    <3>5. QED
      BY <3>2, <3>3, <3>4
  <2>6. QED
    BY <1>10, <2>1, <2>2, <2>3, <2>4, <2>5
<1>16. PendingInv'
  BY <1>5 DEF IInv, PendingInv, Busy
<1>17. DataTypes'
  <2>1. \E S : TrackSkipped(S)
    BY DEF AddToBlock
  <2>2. QED
    BY <1>1, <1>5, <2>1, TrackTypes DEF DataTypes
<1>18. \A j \in Item : j \in main.seen /\ ~InItems(j) /\ ~InQueue(j) =>
           j \in main'.seen /\ ~InItems(j)' /\ ~InQueue(j)'
  BY <1>4, <1>9, <1>10
<1>19. ~failed' => \A j \in Wanted : j \in main'.seen =>
           InItems(j)' \/ (j \in main.seen
                           /\ (InItems(j) \/ InQueue(j) => InItems(j)' \/ InQueue(j)'))
  BY <1>0, <1>5, <1>9, <1>10 DEF Wanted, Included
<1>20. pending' \in Int /\ blocks' \in Seq(Seq(Item))
  BY <1>1, <1>5
<1>21. QED
  BY <1>5, <1>9, <1>13, <1>14, <1>15, <1>16, <1>17, <1>18, <1>19, <1>20, LoopKeeps

LEMMA SendKeeps ==
    ASSUME IInv, SendItemBlock
    PROVE  IInv'
<1>1. /\ MainType /\ DataTypes /\ LoopInv /\ QueueInv /\ LinkInv
      /\ cluster \in Clusters /\ blocks \in Seq(Seq(Item)) /\ pending \in Int
  BY DEF IInv, Types
<1>2. PICK items \in Seq(Item) : items = main.items
  BY <1>1 DEF MainType
<1>3. PICK n \in Nat : n = main.nth /\ n <= Len(Order)
  BY <1>1 DEF MainType, SendItemBlock
<1>4. PICK sends \in BOOLEAN : sends <=> (items # <<>> /\ ~AddNextToBlock(n))
  OBVIOUS
<1>5. /\ Len(Order) \in Nat /\ DOMAIN Order = 1 .. Len(Order)
      /\ \A k \in DOMAIN Order : Order[k] \in Item
  BY ItemsAssumption
<1>6. \A j : ~InTodo(j)
  BY DEF SendItemBlock, InTodo
<1>7. UNCHANGED <<cluster, pvbVars, mishaps, counted, tracker, skipped, taken,
                  snapshots, archive, failed, workers, hookVars>>
  BY DEF SendItemBlock, itemVars
<1>8. PICK todo \in Seq(SUBSET Item) :
          /\ todo = IF n < Len(Order) THEN Unseen(<<{Order[n + 1]}>>, main.seen) ELSE <<>>
          /\ n >= Len(Order) => todo = <<>>
          /\ \A j : InSome(todo, j) <=>
                 n < Len(Order) /\ j = Order[n + 1] /\ j \notin main.seen
  <2>1. CASE n < Len(Order)
    <3>1. {Order[n + 1]} \in SUBSET Item
      BY <1>5, <2>1
    <3>2. PICK one \in Seq(SUBSET Item) :
              one = <<{Order[n + 1]}>> /\ DOMAIN one = 1 .. 1 /\ one[1] = {Order[n + 1]}
      <4> DEFINE x == {Order[n + 1]}
      <4> HIDE DEF x
      <4>1. <<x>> \in Seq(SUBSET Item) /\ DOMAIN <<x>> = 1 .. 1 /\ <<x>>[1] = x
        BY <3>1 DEF x
      <4>2. QED
        BY <4>1, Zenon DEF x
    <3>3. \A j : InSome(one, j) <=> j = Order[n + 1]
      BY <3>2 DEF InSome
    <3>4. PICK new \in Seq(SUBSET Item) :
              new = Unseen(one, main.seen)
              /\ \A j : InSome(new, j) <=> InSome(one, j) /\ j \notin main.seen
      <4>1. PICK seen \in SUBSET Item : seen = main.seen
        BY <1>1 DEF MainType
      <4>2. PICK new \in Seq(SUBSET Item) :
                new = Unseen(one, seen)
                /\ \A j : InSome(new, j) <=> InSome(one, j) /\ j \notin seen
        BY UnseenFacts
      <4>3. QED
        BY <4>1, <4>2
    <3>5. /\ new = IF n < Len(Order) THEN Unseen(<<{Order[n + 1]}>>, main.seen)
                   ELSE <<>>
          /\ ~(n >= Len(Order))
      BY <1>5, <2>1, <3>2, <3>4
    <3>6. \A j : InSome(new, j) <=>
              n < Len(Order) /\ j = Order[n + 1] /\ j \notin main.seen
      BY <2>1, <3>3, <3>4
    <3>7. QED
      BY <3>5, <3>6
  <2>2. CASE ~(n < Len(Order))
    <3>1. PICK none \in Seq(SUBSET Item) : none = <<>>
      <4>1. <<>> \in Seq(SUBSET Item)
        OBVIOUS
      <4>2. QED
        BY <4>1, Zenon
    <3>2. \A j : ~InSome(none, j)
      BY <3>1 DEF InSome
    <3>3. QED
      BY <2>2, <3>1, <3>2
  <2>3. QED
    BY <2>1, <2>2
<1>9. PICK next \in Seq(Item) : next = IF sends THEN <<>> ELSE items
  <2>1. <<>> \in Seq(Item)
    OBVIOUS
  <2>2. (IF sends THEN <<>> ELSE items) \in Seq(Item)
    BY <2>1
  <2>3. QED
    BY <2>2, Zenon
<1>10. main' = [main EXCEPT !.nth = n + 1, !.items = next, !.todo = todo]
  <2>1. main' = [main EXCEPT
            !.nth = n + 1, !.items = IF sends THEN <<>> ELSE @, !.todo = todo]
    BY <1>2, <1>3, <1>4, <1>8, Zenon DEF SendItemBlock
  <2>2. QED
    BY <1>1, <1>2, <1>9, <2>1 DEF MainType
<1>11. /\ MainType' /\ main'.at = "sending" /\ main'.nth = n + 1
       /\ main'.seen = main.seen /\ main'.items = next /\ main'.todo = todo
  <2>1. main.at = "sending" /\ n + 1 \in 0 .. Len(Order) + 1
    BY <1>3, <1>5 DEF SendItemBlock
  <2>2. QED
    BY <1>1, <1>8, <1>9, <1>10, <2>1 DEF MainType
<1>12. PICK sent \in Seq(Seq(Item)) :
           /\ sent = blocks'
           /\ ~sends => sent = blocks /\ pending' = pending
           /\ sends => sent = Append(blocks, items) /\ pending' = pending + 1
  <2>1. /\ blocks' = IF sends THEN Append(blocks, items) ELSE blocks
        /\ pending' = IF sends THEN pending + 1 ELSE pending
    BY <1>2, <1>3, <1>4 DEF SendItemBlock
  <2>2. blocks' \in Seq(Seq(Item))
    BY <1>1, <2>1
  <2>3. PICK sent \in Seq(Seq(Item)) : sent = blocks'
    BY <2>2
  <2>4. QED
    BY <2>1, <2>3
<1>13. /\ Len(blocks) \in Nat /\ DOMAIN blocks = 1 .. Len(blocks)
       /\ ~sends => Len(sent) = Len(blocks)
       /\ sends => /\ Len(sent) = Len(blocks) + 1
                   /\ DOMAIN sent = 1 .. Len(blocks) + 1
                   /\ sent[Len(blocks) + 1] = items
                   /\ \A k \in DOMAIN blocks : sent[k] = blocks[k]
  <2>1. Len(blocks) \in Nat /\ DOMAIN blocks = 1 .. Len(blocks)
    BY <1>1
  <2>2. ASSUME sends
        PROVE  /\ Len(sent) = Len(blocks) + 1
               /\ DOMAIN sent = 1 .. Len(blocks) + 1
               /\ sent[Len(blocks) + 1] = items
               /\ \A k \in DOMAIN blocks : sent[k] = blocks[k]
    <3>1. sent = Append(blocks, items)
      BY <1>12, <2>2
    <3>2. Len(sent) = Len(blocks) + 1 /\ DOMAIN sent = 1 .. Len(blocks) + 1
      BY <1>1, <3>1
    <3>3. sent[Len(blocks) + 1] = items
      BY <1>1, <2>1, <3>1
    <3>4. \A k \in 1 .. Len(blocks) : sent[k] = blocks[k]
      BY <1>1, <3>1
    <3>5. QED
      BY <2>1, <3>2, <3>3, <3>4
  <2>3. QED
    BY <1>12, <2>1, <2>2
<1>14. \A k \in DOMAIN sent :
           \/ k \in DOMAIN blocks /\ sent[k] = blocks[k]
           \/ sends /\ k = Len(blocks) + 1 /\ sent[k] = items
  BY <1>12, <1>13
<1>15. \A j : /\ InTodo(j)' <=> n < Len(Order) /\ j = Order[n + 1] /\ j \notin main.seen
              /\ InItems(j)' <=> InItems(j) /\ ~sends
              /\ Included(j)' <=> Included(j)
              /\ InQueue(j)' <=> InQueue(j) \/ (sends /\ InItems(j))
  <2>1. \A j : InTodo(j)' <=> InSome(todo, j)
    BY <1>11 DEF InTodo, InSome
  <2>2. \A j : InItems(j)' <=> InItems(j) /\ ~sends
    BY <1>2, <1>9, <1>11, EmptyFacts DEF InItems
  <2>3. ASSUME NEW j, InQueue(j)' PROVE InQueue(j) \/ (sends /\ InItems(j))
    BY <1>2, <1>12, <1>14, <2>3 DEF InQueue, InItems
  <2>4. ASSUME NEW j, InQueue(j) PROVE InQueue(j)'
    <3>1. PICK k \in DOMAIN blocks : j \in ToSet(blocks[k])
      BY <2>4 DEF InQueue
    <3>2. k \in DOMAIN sent /\ sent[k] = blocks[k]
      BY <1>12, <1>13, <3>1
    <3>3. QED
      BY <1>12, <3>1, <3>2 DEF InQueue
  <2>5. ASSUME NEW j, sends, InItems(j) PROVE InQueue(j)'
    <3>1. Len(blocks) + 1 \in DOMAIN sent /\ j \in ToSet(sent[Len(blocks) + 1])
      BY <1>2, <1>13, <2>5 DEF InItems
    <3>2. QED
      BY <1>12, <3>1 DEF InQueue
  <2>6. QED
    BY <1>7, <1>8, <2>1, <2>2, <2>3, <2>4, <2>5 DEF Included
<1>16. \A j : InItems(j) => j \in main.seen /\ Included(j)
  BY <1>1 DEF LoopInv, InItems
<1>17. LoopInv'
  <2>1. \A j \in Item : InTodo(j)' => j \notin main'.seen
    BY <1>11, <1>15
  <2>2. Injective(main'.items)
    BY <1>1, <1>2, <1>9, <1>11, EmptyFacts DEF LoopInv
  <2>3. \A j \in ToSet(main'.items) : j \in main'.seen /\ Included(j)'
    BY <1>11, <1>15, <1>16 DEF InItems
  <2>4. \A k \in DOMAIN Order : k <= n + 1 =>
            \/ Order[k] \in main.seen
            \/ k = n + 1 /\ InTodo(Order[k])'
    <3> SUFFICES ASSUME NEW k \in DOMAIN Order, k <= n + 1, Order[k] \notin main.seen
                 PROVE  k = n + 1 /\ InTodo(Order[k])'
      OBVIOUS
    <3>1. ~(k <= n)
      BY <1>1, <1>3, <1>6 DEF LoopInv
    <3>2. k = n + 1 /\ n < Len(Order)
      BY <1>3, <1>5, <3>1
    <3>3. QED
      BY <1>15, <3>2
  <2>5. n = 0 => ~sends /\ pending = 0
    BY <1>1, <1>2, <1>3, <1>4 DEF LoopInv
  <2>6. n > 0 => pending <= n - 1
    BY <1>1, <1>3 DEF LoopInv
  <2>7. pending' <= n
    BY <1>1, <1>3, <1>12, <2>5, <2>6
  <2>8. n + 1 > Len(Order) => next = <<>> /\ todo = <<>>
    BY <1>3, <1>4, <1>5, <1>8, <1>9 DEF AddNextToBlock
  <2>9. n + 1 # 0 /\ (n + 1) - 1 = n
    BY <1>3
  <2>10. QED
    BY <1>11, <2>1, <2>2, <2>3, <2>4, <2>7, <2>8, <2>9 DEF LoopInv
<1>18. QueueInv'
  <2>1. ASSUME NEW k \in DOMAIN sent
        PROVE  /\ Injective(sent[k])
               /\ \A j \in ToSet(sent[k]) :
                      j \in main'.seen /\ Included(j)' /\ ~InItems(j)'
    <3>1. CASE k \in DOMAIN blocks /\ sent[k] = blocks[k]
      BY <1>1, <1>11, <1>15, <3>1 DEF QueueInv
    <3>2. CASE sends /\ sent[k] = items
      BY <1>1, <1>2, <1>11, <1>15, <1>16, <3>2 DEF LoopInv, InItems
    <3>3. QED
      BY <1>14, <3>1, <3>2
  <2>2. \A k \in DOMAIN blocks : ToSet(blocks[k]) \cap ToSet(items) = {}
    BY <1>1, <1>2 DEF QueueInv, InItems
  <2>3. ASSUME NEW k \in DOMAIN sent, NEW l \in DOMAIN sent, k # l
        PROVE  ToSet(sent[k]) \cap ToSet(sent[l]) = {}
    <3>1. CASE k \in DOMAIN blocks /\ l \in DOMAIN blocks
      <4>1. sent[k] = blocks[k] /\ sent[l] = blocks[l]
        BY <1>13, <1>14, <3>1
      <4>2. QED
        BY <1>1, <2>3, <3>1, <4>1 DEF QueueInv
    <3>2. CASE ~(k \in DOMAIN blocks /\ l \in DOMAIN blocks)
      BY <1>14, <2>2, <2>3, <3>2
    <3>3. QED
      BY <3>1, <3>2
  <2>4. QED
    BY <1>12, <2>1, <2>3 DEF QueueInv
<1>19. LinkInv'
  <2> SUFFICES ASSUME NEW a \in Item, NEW r \in Item, Linked(a, r)
               PROVE  /\ Sent(a)' => Sent(r)'
                      /\ InItems(a)' => InItems(r)' \/ InTodo(r)'
                      /\ \A k \in DOMAIN sent :
                             a \in ToSet(sent[k]) => r \in ToSet(sent[k])
    BY <1>7, <1>12 DEF LinkInv, Linked, Included, Mounted, Resolved
  <2>1. /\ Sent(a) => Sent(r)
        /\ InItems(a) => InItems(r)
        /\ \A k \in DOMAIN blocks : a \in ToSet(blocks[k]) => r \in ToSet(blocks[k])
    BY <1>1, <1>6 DEF LinkInv
  <2>2. \A j : Sent(j)' <=> Sent(j) \/ (sends /\ InItems(j))
    BY <1>11, <1>15, <1>16 DEF Sent
  <2>3. \A k \in DOMAIN sent : a \in ToSet(sent[k]) => r \in ToSet(sent[k])
    BY <1>2, <1>14, <2>1 DEF InItems
  <2>4. QED
    BY <1>15, <2>1, <2>2, <2>3
<1>20. PendingInv'
  <2>1. Busy' = Busy /\ Busy \subseteq Worker
    BY <1>7 DEF Busy
  <2>2. Cardinality(Busy) \in Nat
    BY <2>1, FiniteFacts
  <2>3. pending = Len(blocks) + Cardinality(Busy)
    BY DEF IInv, PendingInv
  <2>4. pending' = Len(sent) + Cardinality(Busy)
    BY <1>1, <1>12, <1>13, <2>2, <2>3
  <2>5. QED
    BY <1>12, <2>1, <2>4 DEF PendingInv
<1>21. DataTypes'
  BY <1>1, <1>7 DEF DataTypes
<1>22. \A j \in Item : j \in main.seen /\ ~InItems(j) /\ ~InQueue(j) =>
           j \in main'.seen /\ ~InItems(j)' /\ ~InQueue(j)'
  BY <1>11, <1>15
<1>23. \A j \in Wanted : j \in main'.seen =>
           InItems(j)' \/ (j \in main.seen
                           /\ (InItems(j) \/ InQueue(j) => InItems(j)' \/ InQueue(j)'))
  BY <1>11, <1>15
<1>24. pending' \in Int /\ blocks' \in Seq(Seq(Item))
  BY <1>1, <1>12
<1>25. QED
  BY <1>7, <1>11, <1>17, <1>18, <1>19, <1>20, <1>21, <1>22, <1>23, <1>24, LoopKeeps

-----------------------------------------------------------------------------
(***************************************************************************)
(* Every step.                                                             *)
(***************************************************************************)
LEMMA MainLoopKeeps == IInv /\ MainLoop => IInv'
<1> SUFFICES ASSUME IInv, MainLoop PROVE IInv'
  OBVIOUS
<1>1. CASE \E i \in Item : AddToBlock(i)
  BY <1>1, AddKeeps
<1>2. CASE SendItemBlock
  BY <1>2, SendKeeps
<1>3. CASE BlocksProcessed \/ PodVolumesProcessed \/ PodVolumesTimedOut
  BY <1>3, StagesKeep
<1>4. QED
  BY <1>1, <1>2, <1>3 DEF MainLoop

LEMMA WorkerKeeps ==
    ASSUME IInv, NEW w \in Worker, BackupItemBlock(w)
    PROVE  IInv'
<1>1. CASE StartItemBlock(w)
  BY <1>1, StartKeeps
<1>2. CASE NextItem(w)
  BY <1>2, NextItemKeeps
<1>3. CASE ItemsDone(w) \/ PostHooks(w) \/ NoPostHooks(w)
  BY <1>3, ItemsDoneKeeps
<1>4. CASE ItemStep(w) /\ UNCHANGED <<cluster, loopVars, hookVars>>
  <2>1. UNCHANGED cluster /\ UNCHANGED <<cluster, loopVars, hookVars>>
    BY <1>4
  <2>2. Effects(w)
    BY <1>4, <2>1, ItemStepEffects
  <2>3. DataTypes' /\ PVBTypes'
    BY <1>4, <2>1, ItemStepTypes
  <2>4. QED
    BY <2>1, <2>2, <2>3, ItemStepKeeps
<1>5. QED
  BY <1>1, <1>2, <1>3, <1>4 DEF BackupItemBlock

LEMMA StutterKeeps == IInv /\ UNCHANGED vars => IInv'
<1> SUFFICES ASSUME IInv, UNCHANGED vars PROVE IInv'
  OBVIOUS
<1>1. UNCHANGED <<cluster, index, objects, wg, timeUp, mishaps, itemVars,
                  workers, main, blocks, pending, quiesced, released, hookVars>>
  BY DEF vars, pvbVars, loopVars, hookVars
<1>2. PVBInv' /\ GroupInv'
  BY <1>1, PhasesStay
<1>3. PVBTypes' /\ MainType'
  BY <1>1 DEF IInv, Types, PVBTypes, MainType
<1>4. main.at # "sending" => main.nth > Len(Order) /\ pending = 0
  BY DEF IInv, LoopInv
<1>5. QED
  BY <1>1, <1>2, <1>3, <1>4, OutsideKeeps

LEMMA NextKeeps == IInv /\ [Next]_vars => IInv'
<1> SUFFICES ASSUME IInv, [Next]_vars PROVE IInv'
  OBVIOUS
<1>1. CASE MainLoop
  BY <1>1, MainLoopKeeps
<1>2. CASE \E w \in Worker : BackupItemBlock(w)
  BY <1>2, WorkerKeeps
<1>3. CASE \E k \in PVB : EndPVB(k) /\ Others
  BY <1>3, EndPVBKeeps
<1>4. CASE \E k \in PVB : UpdatePVB(k) /\ Others
  BY <1>4, UpdatePVBKeeps
<1>5. CASE TimeOut /\ Others
  BY <1>5, TimeOutKeeps
<1>6. CASE UNCHANGED vars
  BY <1>6, StutterKeeps
<1>7. QED
  BY <1>1, <1>2, <1>3, <1>4, <1>5, <1>6 DEF Next

-----------------------------------------------------------------------------
(***************************************************************************)
(* The theorems.                                                           *)
(***************************************************************************)

\* The inductive invariant holds in every state.
THEOREM Invariant == Spec => []IInv
<1>1. Init => IInv
  BY InitHolds
<1>2. IInv /\ [Next]_vars => IInv'
  BY NextKeeps
<1>3. QED
  BY <1>1, <1>2, PTL DEF Spec

LEMMA TypesBounded == IInv => TypeOK
<1> SUFFICES ASSUME IInv PROVE TypeOK
  OBVIOUS
<1>1. Types /\ GroupInv /\ PendingInv /\ LoopInv
  BY DEF IInv
<1>2. wg \in 0 .. Cardinality(PVB)
  <2>1. Waited \subseteq PVB
    BY DEF Waited
  <2>2. Cardinality(Waited) \in 0 .. Cardinality(PVB)
    BY <2>1, FiniteFacts
  <2>3. QED
    BY <1>1, <2>2 DEF GroupInv
<1>3. pending \in 0 .. Len(Order)
  <2>1. Busy \subseteq Worker
    BY DEF Busy
  <2>2. Cardinality(Busy) \in Nat /\ Len(blocks) \in Nat
    BY <1>1, <2>1, FiniteFacts DEF Types
  <2>3. pending \in Nat
    BY <1>1, <2>2 DEF PendingInv
  <2>4. Len(Order) \in Nat /\ main.nth \in 0 .. Len(Order) + 1
    BY <1>1, ItemsAssumption DEF Types, MainType
  <2>5. (main.nth = 0 => pending = 0) /\ (main.nth > 0 => pending <= main.nth - 1)
    BY <1>1 DEF LoopInv
  <2>6. QED
    BY <2>3, <2>4, <2>5
<1>4. BackupperTypeOK
  BY <1>1, <1>2 DEF Types, PVBTypes, BackupperTypeOK
<1>5. ItemsTypeOK
  BY <1>1 DEF Types, DataTypes, WorkersType, ItemsTypeOK
<1>6. QED
  BY <1>1, <1>3, <1>4, <1>5 DEF Types, MainType, TypeOK

(***************************************************************************)
(* The types: the group of PVBs never goes below zero, and no more blocks  *)
(* are pending than there are items.                                       *)
(***************************************************************************)
THEOREM TypeCorrect == Spec => []TypeOK
  BY Invariant, TypesBounded, PTL

GroupCounts == wg = Cardinality(Waited)

(***************************************************************************)
(* The group counts the PVBs that exist and are not known to have ended:   *)
(* UpdateFunc of the informer, which may be called again and again, counts *)
(* each of them down once, and one that could not be created was not left  *)
(* in the count.                                                           *)
(***************************************************************************)
THEOREM WaitsForEach == Spec => []GroupCounts
<1>1. IInv => GroupCounts
  BY DEF IInv, GroupInv, GroupCounts
<1>2. QED
  BY <1>1, Invariant, PTL

\* When the loop has ended, all blocks have been sent and processed.
LEMMA LoopEnded ==
    ASSUME IInv, main.at = "done"
    PROVE  /\ main.nth > Len(Order) /\ main.items = <<>> /\ main.todo = <<>>
           /\ blocks = <<>> /\ \A w \in Worker : workers[w].at = "idle"
<1>1. /\ main.nth > Len(Order) /\ pending = 0 /\ main.items = <<>>
      /\ main.todo = <<>> /\ pending = Len(blocks) + Cardinality(Busy)
  BY DEF IInv, LoopInv, PendingInv
<1>2. blocks \in Seq(Seq(Item)) /\ Len(blocks) \in Nat
  BY DEF IInv, Types
<1>3. Busy \subseteq Worker
  BY DEF Busy
<1>4. IsFiniteSet(Busy) /\ Cardinality(Busy) \in Nat
  BY <1>3, FiniteFacts
<1>5. Len(blocks) = 0 /\ Cardinality(Busy) = 0
  BY <1>1, <1>2, <1>4
<1>6. blocks = <<>> /\ Busy = {}
  BY <1>2, <1>4, <1>5, FS_EmptySet
<1>7. QED
  BY <1>1, <1>6 DEF Busy

LEMMA EverythingKept == IInv => NothingLost
<1> SUFFICES ASSUME IInv, main.at = "done", ~failed, NEW i \in Wanted
             PROVE  archive[i] > 0
  BY DEF NothingLost, Wanted
<1>1. PICK n \in DOMAIN Order : Order[n] = i
  BY ItemsAssumption DEF ToSet, Wanted
<1>2. n <= main.nth /\ n # main.nth
  <2>1. n \in 1 .. Len(Order) /\ Len(Order) \in Nat
    BY <1>1, ItemsAssumption
  <2>2. main.nth \in Nat /\ main.nth > Len(Order)
    BY LoopEnded DEF IInv, Types, MainType
  <2>3. QED
    BY <2>1, <2>2
<1>3. i \in main.seen
  BY <1>1, <1>2 DEF IInv, LoopInv
<1>4. Covered(i)
  BY <1>3 DEF IInv, CoverInv
<1>5. \A w \in Worker : workers[w].block = <<>> /\ workers[w].frames = <<>>
  BY LoopEnded DEF IInv, ToComeInv
<1>6. ~InItems(i) /\ ~InQueue(i)
  BY LoopEnded, EmptyFacts DEF InItems, InQueue
<1>7. \A w \in Worker : i \notin ToSet(workers[w].block) /\ ~InFrame(w, i)
  BY <1>5, EmptyFacts DEF InFrame
<1>8. QED
  BY <1>4, <1>6, <1>7 DEF Covered

(***************************************************************************)
(* When the backup is done without an error, everything selected that no   *)
(* action leaves out is in the archive, for any number of workers.         *)
(***************************************************************************)
THEOREM NothingIsLost == Spec => []NothingLost
  BY Invariant, EverythingKept, PTL

LEMMA StillHeld == IInv => QuiescedWhileCopied
<1> SUFFICES ASSUME IInv, NEW k \in Running,
                    NEW p \in UsersOf(k[2]) \cap cluster.running,
                    cluster.hooks[p] = "ok", Included(p), Included(k[2]),
                    Resolved(k[1]), Resolved(k[2]), Resolved(p)
             PROVE  p \in quiesced \ released
  BY DEF QuiescedWhileCopied
<1>1. /\ k \in PVB /\ objects[k].phase = "New" /\ k[1] \in Pod /\ k[2] \in Claim
      /\ p \in Pod
  BY DEF Running, PVB, UsersOf
<1>2. PVBInv /\ HookedInv
  BY DEF IInv
<1>3. Held(p, k[2])
  BY DEF Held
<1>4. CASE Orphan(k)
  BY <1>1, <1>3, <1>4 DEF Orphan
<1>5. CASE \E w \in Worker : Hooked(w, k[1])
  <2>1. PICK w \in Worker : Hooked(w, k[1])
    BY <1>5
  <2>2. Included(k[1])
    BY <1>2, <2>1 DEF HookedInv, Hooked
  <2>3. k[2] \in Mounted(k[1]) /\ k[1] \in cluster.running
    BY <1>1, <1>2 DEF PVBInv
  <2>4. Linked(k[1], k[2]) /\ Linked(k[2], p)
    BY <1>1, <2>2, <2>3 DEF Linked, UsersOf
  <2>5. Hooked(w, p)
    BY <1>1, <1>2, <2>1, <2>4 DEF HookedInv, Hooked
  <2>6. QED
    BY <1>2, <2>5 DEF HookedInv, Hooked
<1>6. QED
  BY <1>1, <1>2, <1>4, <1>5 DEF PVBInv

(***************************************************************************)
(* While the data of a claim is copied from the file system, every running *)
(* pod that mounts it and whose hooks work is quiesced, provided that the  *)
(* claim, that pod and the pod that is copied could be read and their item *)
(* block actions did not fail (backup.go:780-784 goes on when one does).   *)
(***************************************************************************)
THEOREM QuiescedThroughout == Spec => []QuiescedWhileCopied
  BY Invariant, StillHeld, PTL

-----------------------------------------------------------------------------
AllEnded == main.at = "done" => Waited = {}

LEMMA AllEndedKeeps ==
    ASSUME IInv, IInv', AllEnded, [Next]_vars
    PROVE  AllEnded'
<1> USE DEF AllEnded
<1>1. PVBInv /\ PVBTypes
  BY DEF IInv, Types
<1>2. "None" \notin Final /\ "New" \notin Final
  BY DEF Final
<1>3. CASE PodVolumesProcessed
  <2>1. UNCHANGED <<index, objects, wg>>
    BY <1>3 DEF PodVolumesProcessed, pvbVars
  <2>2. Waited' = Waited
    BY <2>1 DEF Waited
  <2>3. wg = 0 => Waited = {}
    <3>1. Waited \subseteq PVB
      BY DEF Waited
    <3>2. IsFiniteSet(Waited)
      BY <3>1, FiniteFacts
    <3>3. wg = Cardinality(Waited)
      BY DEF IInv, GroupInv
    <3>4. QED
      BY <3>2, <3>3, FS_EmptySet
  <2>4. Tracked = {} => Waited = {}
    BY DEF Tracked, Waited
  <2>5. QED
    BY <1>3, <2>2, <2>3, <2>4 DEF PodVolumesProcessed
<1>4. CASE MainLoop /\ ~PodVolumesProcessed
  <2>1. main'.at # "done"
    BY <1>4 DEF IInv, Types, MainType, MainLoop, AddToBlock, SendItemBlock,
       BlocksProcessed, PodVolumesTimedOut, MainGoes
  <2>2. QED
    BY <2>1
<1>5. CASE \E w \in Worker : BackupItemBlock(w)
  <2> SUFFICES ASSUME NEW w \in Worker, BackupItemBlock(w), main.at = "done"
               PROVE  FALSE
    BY <1>5 DEF BackupItemBlock, StartItemBlock, NextItem, ItemsDone,
       PostHooks, NoPostHooks, EndItemBlock, loopVars
  <2>1. workers[w].at = "idle" /\ blocks = <<>>
    BY LoopEnded
  <2>2. CASE ItemStep(w)
    BY <2>1, <2>2 DEF ItemStep, Consider, AddItem, ExecuteActions,
       BackUpAdditionalItem, TakePVSnapshot, BackupPodVolumes, BackupPodVolume,
       PodVolumesTaken, NoData, WriteItem, At
  <2>3. QED
    BY <2>1, <2>2 DEF BackupItemBlock, StartItemBlock, NextItem, ItemsDone,
       BetweenItems, PostHooks, NoPostHooks
<1>6. ASSUME NEW k \in PVB, EndPVB(k) /\ Others
      PROVE  AllEnded'
  <2>1. main' = main /\ index' = index /\ objects[k].phase = "New"
    BY <1>6 DEF EndPVB, Others, loopVars, Running
  <2>2. k \in Waited
    BY <1>1, <1>2, <2>1 DEF PVBInv, PVBTypes, Waited
  <2>3. QED
    BY <2>1, <2>2
<1>7. ASSUME NEW k \in PVB, UpdatePVB(k) /\ Others
      PROVE  AllEnded'
  <2>1. main' = main /\ objects' = objects
    BY <1>7 DEF UpdatePVB, Others, loopVars
  <2>2. \A l \in PVB : index'[l] = "New" => index[l] = "New"
    BY <1>1, <1>2, <1>7 DEF UpdatePVB, PVBTypes
  <2>3. Waited' \subseteq Waited
    BY <2>1, <2>2 DEF Waited
  <2>4. QED
    BY <2>1, <2>3
<1>8. CASE (TimeOut /\ Others) \/ UNCHANGED vars
  <2>1. UNCHANGED <<main, index, objects>>
    BY <1>8 DEF TimeOut, Others, loopVars, vars, pvbVars
  <2>2. QED
    BY <2>1 DEF Waited
<1>9. QED
  BY <1>3, <1>4, <1>5, <1>6, <1>7, <1>8 DEF Next

(***************************************************************************)
(* When the backup is done, also after a timeout, every PVB that exists    *)
(* has ended and its end is known: WaitAllPodVolumesProcessed waits for    *)
(* the group once more after the PVBs have been cancelled.                 *)
(***************************************************************************)
THEOREM AllEndAtLast == Spec => []AllEnded
<1>1. Init => AllEnded
  BY DEF Init, AllEnded
<1>2. IInv /\ IInv' /\ AllEnded /\ [Next]_vars => AllEnded'
  BY AllEndedKeeps
<1>3. QED
  BY <1>1, <1>2, Invariant, PTL DEF Spec

-----------------------------------------------------------------------------
(***************************************************************************)
(* What is reported of the data: the frames of all workers, and those of   *)
(* them that a step of a worker leaves alone.                              *)
(***************************************************************************)
Stacked == UNION {ToSet(workers[w].frames) : w \in Worker}

Rest(w) ==
    {workers[w].frames[n] : n \in 1 .. Len(workers[w].frames) - 1}
    \cup UNION {ToSet(workers[v].frames) : v \in Worker \ {w}}

Exists(k) == objects[k].phase # "None"

\* The PVB of the pod for the claim has been created, and the pod's volumes
\* are not done.
Copying(p, c) ==
    \E f \in Stacked : f.item = p /\ f.at = "volumes" /\ c \in f.made

Reportable(c) == BoundTo[c] \in skipped \cup taken

FrameAccounts(f) ==
    /\ \A c \in f.made : f.item \in Pod /\ Exists(<<f.item, c>>)
    /\ f.item \in Claim /\ f.at \in {"descend", "data", "write"} =>
           Reportable(f.item)

\* A claim's volume is among those taken if its data was copied, and among
\* those skipped or taken once the claim is written.
AccountInv ==
    ~failed =>
        /\ \A p \in Pod, c \in Claim : Exists(<<p, c>>) =>
               BoundTo[c] \in taken \/ Copying(p, c)
        /\ \A c \in Claim :
               /\ snapshots[c] > 0 => BoundTo[c] \in taken
               /\ BoundTo[c] \in taken =>
                      snapshots[c] > 0 \/ \E p \in Pod : Exists(<<p, c>>)
               /\ archive[c] > 0 => Reportable(c)
        /\ \A f \in Stacked : FrameAccounts(f)

LEMMA BoundFacts ==
    /\ \A c \in Claim : BoundTo[c] \in Volume /\ ClaimOf(BoundTo[c]) = c
    /\ \A v \in Volume : ClaimOf(v) \in Claim /\ BoundTo[ClaimOf(v)] = v
  BY ItemsAssumption, BoundAssumption DEF ClaimOf

\* What becomes of the volume of a claim when items are tracked.
LEMMA TrackFacts ==
    ASSUME NEW S \in SUBSET Item, NEW c \in Claim
    PROVE  /\ TrackSkipped(S) =>
                  /\ taken' = taken
                  /\ Reportable(c) \/ c \in S \/ BoundTo[c] \in S =>
                         Reportable(c)'
           /\ Untrack(S) =>
                  /\ BoundTo[c] \in taken' <=>
                         BoundTo[c] \in taken \/ c \in S \/ BoundTo[c] \in S
                  /\ Reportable(c) => Reportable(c)'
           /\ Skipping => taken' = taken /\ (Reportable(c) => Reportable(c)')
<1>1. BoundTo[c] \in VolumesOf(S) <=> c \in S \/ BoundTo[c] \in S
  BY ItemsAssumption DEF VolumesOf
<1>2. QED
  BY <1>1 DEF TrackSkipped, Untrack, Skipping, Reportable

LEMMA TopAndRest ==
    ASSUME IInv, NEW w \in Worker, NEW step, At(w, step)
    PROVE  /\ Top(w) \in Frame /\ Top(w).at = step
           /\ Stacked = Rest(w) \cup {Top(w)} /\ Stacked \subseteq Frame
<1> DEFINE s == workers[w].frames
<1>1. \A v \in Worker : workers[v].frames \in Seq(Frame)
  BY FrameTypes DEF IInv, Types
<1>2. s \in Seq(Frame) /\ s # <<>>
  BY <1>1 DEF At
<1>3. /\ Len(s) \in Nat \ {0} /\ DOMAIN s = 1 .. Len(s)
      /\ Top(w) = s[Len(s)] /\ Top(w) \in Frame
  BY <1>2, StackFacts DEF Top
<1>4. ToSet(s) = {s[n] : n \in 1 .. Len(s) - 1} \cup {Top(w)}
  BY <1>3 DEF ToSet
<1>5. Stacked = ToSet(s) \cup UNION {ToSet(workers[v].frames) : v \in Worker \ {w}}
  BY DEF Stacked
<1>6. Stacked \subseteq Frame
  BY <1>1 DEF Stacked, ToSet
<1>7. QED
  BY <1>3, <1>4, <1>5, <1>6 DEF Rest, At, Top

\* The frames of the others, and what the worker's stack becomes.
LEMMA BecomesFrames ==
    ASSUME IInv, NEW w \in Worker, NEW fs \in Seq(Frame), Becomes(w, fs)
    PROVE  Stacked' = ToSet(fs)
               \cup UNION {ToSet(workers[v].frames) : v \in Worker \ {w}}
<1>1. /\ \A v \in Worker \ {w} : workers'[v].frames = workers[v].frames
      /\ workers'[w].frames = fs
  BY StackOf DEF IInv, Types, Becomes
<1>2. Stacked' = ToSet(workers'[w].frames)
               \cup UNION {ToSet(workers'[v].frames) : v \in Worker \ {w}}
  BY DEF Stacked
<1>3. QED
  BY <1>1, <1>2

LEMMA GoesFrames ==
    ASSUME IInv, NEW w \in Worker, NEW step, At(w, step)
    PROVE  /\ \A f \in Frame : Goes(w, f) => Stacked' = Rest(w) \cup {f}
           /\ Pop(w) => Stacked' = Rest(w)
           /\ \A f, g \in Frame :
                  Becomes(w, Append(Append(Front(workers[w].frames), f), g))
                  => Stacked' = Rest(w) \cup {f, g}
<1> DEFINE s == workers[w].frames
           r == Front(s)
<1>1. s \in Seq(Frame) /\ s # <<>>
  BY FrameTypes DEF IInv, Types, At
<1>2. r \in Seq(Frame) /\ ToSet(r) = {s[n] : n \in 1 .. Len(s) - 1}
  <2>1. /\ r \in Seq(Frame) /\ DOMAIN r = 1 .. Len(s) - 1
        /\ \A n \in 1 .. Len(s) - 1 : r[n] = s[n]
    BY <1>1, StackFacts
  <2> HIDE DEF r, s
  <2>2. QED
    BY <2>1 DEF ToSet
<1>3. \A fs \in Seq(Frame) : Becomes(w, fs) => Stacked' = ToSet(fs)
               \cup UNION {ToSet(workers[v].frames) : v \in Worker \ {w}}
  BY BecomesFrames
<1> HIDE DEF r, s
<1>4. \A f \in Frame : /\ Append(r, f) \in Seq(Frame)
                       /\ ToSet(Append(r, f)) = ToSet(r) \cup {f}
  BY <1>2, AppendFacts
<1>5. \A f, g \in Frame : /\ Append(Append(r, f), g) \in Seq(Frame)
                          /\ ToSet(Append(Append(r, f), g)) = ToSet(r) \cup {f, g}
  <2> SUFFICES ASSUME NEW f \in Frame, NEW g \in Frame
               PROVE  /\ Append(Append(r, f), g) \in Seq(Frame)
                      /\ ToSet(Append(Append(r, f), g)) = ToSet(r) \cup {f, g}
    OBVIOUS
  <2>1. Append(r, f) \in Seq(Frame) /\ ToSet(Append(r, f)) = ToSet(r) \cup {f}
    BY <1>4
  <2>2. \A q \in Seq(Frame) : /\ Append(q, g) \in Seq(Frame)
                               /\ ToSet(Append(q, g)) = ToSet(q) \cup {g}
    BY AppendFacts
  <2>3. QED
    BY <2>1, <2>2
<1>6. Rest(w) = ToSet(r) \cup UNION {ToSet(workers[v].frames) : v \in Worker \ {w}}
  BY <1>2 DEF Rest, s
<1>7. \A f \in Frame : Goes(w, f) => Stacked' = Rest(w) \cup {f}
  BY <1>3, <1>4, <1>6 DEF Goes, r, s
<1>8. Pop(w) => Stacked' = Rest(w)
  BY <1>2, <1>3, <1>6 DEF Pop, r, s
<1>9. \A f, g \in Frame :
          Becomes(w, Append(Append(r, f), g)) => Stacked' = Rest(w) \cup {f, g}
  <2> SUFFICES ASSUME NEW f \in Frame, NEW g \in Frame,
                      Becomes(w, Append(Append(r, f), g))
               PROVE  Stacked' = Rest(w) \cup {f, g}
    OBVIOUS
  <2>1. PICK fs \in Seq(Frame) : /\ fs = Append(Append(r, f), g)
                                 /\ ToSet(fs) = ToSet(r) \cup {f, g}
    BY <1>5
  <2>2. Stacked' = ToSet(fs)
            \cup UNION {ToSet(workers[v].frames) : v \in Worker \ {w}}
    BY <1>3, <2>1
  <2>3. QED
    BY <1>6, <2>1, <2>2
<1>10. QED
  BY <1>7, <1>8, <1>9 DEF r, s

\* A step that copies nothing and after which the frames account for
\* themselves.
LEMMA QuietStep ==
    ASSUME AccountInv, ~failed, NEW R, NEW t, NEW N,
           Stacked = R \cup {t}, Stacked' = R \cup N, t.at # "volumes",
           UNCHANGED <<objects, snapshots, archive, taken>>,
           \A c \in Claim : Reportable(c) => Reportable(c)',
           \A f \in N : FrameAccounts(f)'
    PROVE  AccountInv'
<1>1. \A f \in R : FrameAccounts(f)'
  BY DEF AccountInv, FrameAccounts, Exists
<1>2. \A p, c : Copying(p, c) => Copying(p, c)'
  BY DEF Copying
<1>3. QED
  BY <1>1, <1>2 DEF AccountInv, Exists

\* A worker's step after which the items on its stack are further on.
LEMMA QuietGoes ==
    ASSUME IInv, AccountInv, ~failed, NEW w \in Worker, NEW f \in Frame,
           f = Top(w), At(w, f.at), f.at # "volumes", NEW g \in Frame, Goes(w, g),
           g.item = f.item, g.made = f.made,
           UNCHANGED <<objects, snapshots, archive, taken>>,
           \A c \in Claim : Reportable(c) => Reportable(c)',
           g.item \in Claim /\ g.at \in {"descend", "data", "write"}
               => f.at \in {"descend", "data", "write"} \/ Reportable(g.item)'
    PROVE  AccountInv'
<1>1. Stacked = Rest(w) \cup {f} /\ Stacked' = Rest(w) \cup {g}
  BY TopAndRest, GoesFrames
<1>2. FrameAccounts(f)
  BY <1>1 DEF AccountInv
<1>3. FrameAccounts(g)'
  BY <1>2 DEF FrameAccounts, Exists
<1>4. QED
  BY <1>1, <1>3, QuietStep

LEMMA ConsiderAccounts ==
    ASSUME IInv, AccountInv, ~failed, NEW w \in Worker, Consider(w)
    PROVE  AccountInv'
<1>1. PICK f \in Frame : f = Top(w) /\ f.at = "check"
  BY TopAndRest DEF Consider
<1>2. UNCHANGED <<objects, snapshots, archive>> /\ At(w, f.at)
  BY <1>1 DEF Consider, pvbVars
<1>3. taken' = taken /\ \A c \in Claim : Reportable(c) => Reportable(c)'
  <2>1. f.item \in Item /\ {f.item} \cap cluster.excluded \in SUBSET Item
    BY DEF Frame
  <2>2. TrackSkipped({f.item} \cap cluster.excluded) \/ Skipping
    BY <1>1 DEF Consider
  <2>3. QED
    BY <2>1, <2>2, TrackFacts DEF TrackSkipped, Skipping
<1>4. CASE Pop(w)
  <2> DEFINE N == {}
  <2>1. Stacked = Rest(w) \cup {f} /\ Stacked' = Rest(w) \cup N
    BY <1>1, <1>2, <1>4, TopAndRest, GoesFrames
  <2>2. \A g \in N : FrameAccounts(g)'
    OBVIOUS
  <2> HIDE DEF N
  <2>3. QED
    BY <1>1, <1>2, <1>3, <2>1, <2>2, QuietStep
<1>5. CASE GoesTo(w, "add")
  <2>1. PICK g \in Frame : g = [f EXCEPT !.at = "add"]
    BY DEF Frame, Steps
  <2>2. /\ Goes(w, g) /\ g.item = f.item /\ g.made = f.made /\ g.at = "add"
    BY <1>1, <1>5, <2>1 DEF GoesTo, Frame
  <2>3. QED
    BY <1>1, <1>2, <1>3, <2>2, QuietGoes
<1>6. QED
  BY <1>4, <1>5 DEF Consider

LEMMA AddItemAccounts ==
    ASSUME IInv, AccountInv, ~failed, NEW w \in Worker, AddItem(w)
    PROVE  AccountInv'
<1>1. PICK f \in Frame : f = Top(w) /\ f.at = "add"
  BY TopAndRest DEF AddItem
<1>2. UNCHANGED <<objects, snapshots, archive>> /\ At(w, f.at)
  BY <1>1 DEF AddItem, pvbVars
<1>3. {c \in {f.item} \cap Claim : tracker[c] = "optedout"} \in SUBSET Item
  BY DEF Item
<1>4. taken' = taken /\ \A c \in Claim : Reportable(c) => Reportable(c)'
  <2>1. TrackSkipped({c \in {f.item} \cap Claim : tracker[c] = "optedout"})
    BY <1>1 DEF AddItem
  <2>2. QED
    BY <1>3, <2>1, TrackFacts DEF TrackSkipped
<1>5. PICK vols \in SUBSET Claim : Goes(w, [f EXCEPT !.at = "act", !.vols = vols])
  <2>1. CASE f.item \in Pod
    <3>1. VolumesToBackUp(f.item) \subseteq Claim
      BY <2>1, ClusterFacts DEF VolumesToBackUp, Mounted, IInv, Types
    <3>2. QED
      BY <1>1, <2>1, <3>1 DEF AddItem
  <2>2. CASE f.item \notin Pod
    <3>1. [f EXCEPT !.at = "act"] = [f EXCEPT !.at = "act", !.vols = f.vols]
      BY DEF Frame
    <3>2. Goes(w, [f EXCEPT !.at = "act", !.vols = f.vols])
      BY <1>1, <2>2, <3>1 DEF AddItem, GoesTo
    <3>3. QED
      BY <3>2 DEF Frame
  <2>3. QED
    BY <2>1, <2>2
<1>6. PICK g \in Frame : g = [f EXCEPT !.at = "act", !.vols = vols]
  BY DEF Frame, Steps
<1>7. Goes(w, g) /\ g.item = f.item /\ g.made = f.made /\ g.at = "act"
  BY <1>5, <1>6 DEF Frame
<1>8. QED
  BY <1>1, <1>2, <1>4, <1>7, QuietGoes

LEMMA BackUpAdditionalItemAccounts ==
    ASSUME IInv, AccountInv, ~failed, NEW w \in Worker, BackUpAdditionalItem(w)
    PROVE  AccountInv'
<1>1. PICK f \in Frame : f = Top(w) /\ f.at = "descend"
  BY TopAndRest DEF BackUpAdditionalItem
<1>2. UNCHANGED <<objects, snapshots, archive, skipped, taken>> /\ At(w, f.at)
  BY <1>1 DEF BackUpAdditionalItem, pvbVars, itemVars
<1>3. \A c \in Claim : Reportable(c)' <=> Reportable(c)
  BY <1>2 DEF Reportable
<1>4. CASE GoesTo(w, "data")
  <2>1. PICK g \in Frame : g = [f EXCEPT !.at = "data"]
    BY DEF Frame, Steps
  <2>2. Goes(w, g) /\ g.item = f.item /\ g.made = f.made
    BY <1>1, <1>4, <2>1 DEF GoesTo, Frame
  <2>3. QED
    BY <1>1, <1>2, <1>3, <2>2, QuietGoes
<1>5. ASSUME NEW i \in f.todo,
             Becomes(w, Append(Append(Front(workers[w].frames),
                                   [f EXCEPT !.todo = f.todo \ {i}]), FrameOf(i)))
      PROVE  AccountInv'
  <2>1. PICK g \in Frame : g = [f EXCEPT !.todo = f.todo \ {i}]
    BY DEF Frame
  <2>2. PICK h \in Frame : h = FrameOf(i)
    BY DEF Frame, Steps, FrameOf
  <2>3. Stacked = Rest(w) \cup {f} /\ Stacked' = Rest(w) \cup {g, h}
    BY <1>1, <1>2, <1>5, <2>1, <2>2, TopAndRest, GoesFrames
  <2>4. g.item = f.item /\ g.made = f.made /\ g.at = f.at
    BY <2>1 DEF Frame
  <2>5. FrameAccounts(f)
    BY <2>3 DEF AccountInv
  <2>6. FrameAccounts(g)'
    BY <1>2, <1>3, <2>4, <2>5 DEF FrameAccounts, Exists
  <2>7. FrameAccounts(h)'
    BY <2>2 DEF FrameAccounts, FrameOf
  <2> DEFINE N == {g, h}
  <2>8. Stacked' = Rest(w) \cup N /\ \A e \in N : FrameAccounts(e)'
    BY <2>3, <2>6, <2>7
  <2> HIDE DEF N
  <2>9. QED
    BY <1>1, <1>2, <1>3, <2>3, <2>8, QuietStep
<1>6. QED
  BY <1>1, <1>4, <1>5 DEF BackUpAdditionalItem

LEMMA ExecuteActionsAccounts ==
    ASSUME IInv, AccountInv, ~failed, ~failed', NEW w \in Worker,
           ExecuteActions(w)
    PROVE  AccountInv'
<1>1. PICK f \in Frame : f = Top(w) /\ f.at = "act"
  BY TopAndRest DEF ExecuteActions
<1>2. UNCHANGED <<objects, archive>> /\ At(w, f.at)
  BY <1>1 DEF ExecuteActions, Executed, pvbVars
<1>3. CASE Pop(w) /\ UNCHANGED <<skipped, taken, snapshots>>
  <2> DEFINE N == {}
  <2>1. Stacked = Rest(w) \cup {f} /\ Stacked' = Rest(w) \cup N
    BY <1>1, <1>2, <1>3, TopAndRest, GoesFrames
  <2>2. \A c \in Claim : Reportable(c)' <=> Reportable(c)
    BY <1>3 DEF Reportable
  <2>3. \A g \in N : FrameAccounts(g)'
    OBVIOUS
  <2> HIDE DEF N
  <2>4. QED
    BY <1>1, <1>2, <1>3, <2>1, <2>2, <2>3, QuietStep
<1>4. CASE Executed(w) /\ IF f.item \in Claim THEN TakeCSISnapshot(f.item)
                          ELSE Skipping /\ UNCHANGED snapshots
  <2>1. AdditionalItems(f.item) \subseteq Item
    BY ItemsAssumption, ClusterFacts
    DEF AdditionalItems, Mounted, IInv, Types, Item
  <2>2. PICK g \in Frame :
            g = [f EXCEPT !.at = "descend", !.todo = AdditionalItems(f.item)]
    BY <2>1 DEF Frame, Steps
  <2>3. Goes(w, g) /\ g.item = f.item /\ g.made = f.made
    BY <1>1, <1>4, <2>2 DEF Executed, Frame
  <2>4. CASE f.item \notin Claim
    <3>1. UNCHANGED <<snapshots, skipped, taken>>
      BY <1>4, <2>4 DEF Skipping
    <3>2. QED
      BY <1>1, <1>2, <2>3, <2>4, <3>1, QuietGoes DEF Reportable
  <2>5. ASSUME NEW c \in Claim, c = f.item, TrackSkipped({c}), UNCHANGED snapshots
        PROVE  AccountInv'
    <3>1. /\ taken' = taken /\ Reportable(c)'
          /\ \A d \in Claim : Reportable(d) => Reportable(d)'
      <4>1. {c} \in SUBSET Item
        BY DEF Item
      <4>2. QED
        BY <2>5, <4>1, TrackFacts
    <3>2. QED
      BY <1>1, <1>2, <2>3, <2>5, <3>1, QuietGoes
  <2>6. ASSUME NEW c \in Claim, c = f.item, Untrack({c}),
               snapshots' = [snapshots EXCEPT ![c] = @ + 1]
        PROVE  AccountInv'
    <3>1. \A d \in Claim :
              /\ BoundTo[d] \in taken' <=> BoundTo[d] \in taken \/ d = c
              /\ Reportable(d) => Reportable(d)'
      <4>1. {c} \in SUBSET Item
        BY DEF Item
      <4>2. \A d \in Claim : BoundTo[d] # c
        BY ItemsAssumption
      <4>3. QED
        BY <2>6, <4>1, <4>2, TrackFacts
    <3>2. snapshots'[c] > 0 /\ \A d \in Claim : d # c => snapshots'[d] = snapshots[d]
      BY <2>6 DEF IInv, Types, DataTypes
    <3>3. Stacked = Rest(w) \cup {f} /\ Stacked' = Rest(w) \cup {g}
      BY <1>1, <1>2, <2>3, TopAndRest, GoesFrames
    <3>4. \A e \in Stacked : FrameAccounts(e)
      BY DEF AccountInv
    <3>5. Reportable(c)'
      BY <3>1 DEF Reportable
    <3>6. \A e \in Stacked' : FrameAccounts(e)'
      BY <1>2, <2>3, <2>6, <3>1, <3>3, <3>4, <3>5 DEF FrameAccounts, Exists
    <3>7. \A p, d : Copying(p, d) => Copying(p, d)'
      BY <1>1, <3>3 DEF Copying
    <3>8. QED
      BY <1>2, <3>1, <3>2, <3>6, <3>7 DEF AccountInv, Exists
  <2>7. QED
    BY <1>4, <2>4, <2>5, <2>6 DEF TakeCSISnapshot
<1>5. QED
  BY <1>1, <1>3, <1>4 DEF ExecuteActions, Fail, Skipping

LEMMA TakePVSnapshotAccounts ==
    ASSUME IInv, AccountInv, ~failed, ~failed', NEW w \in Worker,
           TakePVSnapshot(w)
    PROVE  AccountInv'
<1>1. PICK f \in Frame : f = Top(w) /\ f.at = "data" /\ f.item \in Volume
  BY TopAndRest DEF TakePVSnapshot
<1>2. UNCHANGED <<objects, archive>> /\ At(w, f.at) /\ GoesTo(w, "write")
  BY <1>1 DEF TakePVSnapshot, pvbVars, Fail
<1>3. PICK g \in Frame : g = [f EXCEPT !.at = "write"]
  BY DEF Frame, Steps
<1>4. Goes(w, g) /\ g.item = f.item /\ g.made = f.made /\ g.item \notin Claim
  BY <1>1, <1>2, <1>3, ItemsAssumption DEF GoesTo, Frame
<1>5. PICK c \in Claim : c = ClaimOf(f.item) /\ BoundTo[c] = f.item
  BY <1>1, BoundFacts
<1>6. {f.item} \in SUBSET Item
  BY DEF Frame
<1>7. CASE (TrackSkipped({f.item}) \/ Skipping) /\ UNCHANGED snapshots
  <2>1. taken' = taken /\ \A d \in Claim : Reportable(d) => Reportable(d)'
    BY <1>6, <1>7, TrackFacts DEF TrackSkipped, Skipping
  <2>2. QED
    BY <1>1, <1>2, <1>4, <1>7, <2>1, QuietGoes
<1>8. CASE Untrack({f.item}) /\ snapshots' = [snapshots EXCEPT ![c] = @ + 1]
  <2>1. \A d \in Claim :
            /\ BoundTo[d] \in taken' <=> BoundTo[d] \in taken \/ d = c
            /\ Reportable(d) => Reportable(d)'
    <3>1. \A d \in Claim : d # f.item /\ (BoundTo[d] = f.item <=> d = c)
      BY <1>1, <1>5, ItemsAssumption
    <3>2. QED
      BY <1>6, <1>8, <3>1, TrackFacts
  <2>2. snapshots'[c] > 0 /\ \A d \in Claim : d # c => snapshots'[d] = snapshots[d]
    BY <1>8 DEF IInv, Types, DataTypes
  <2>3. Stacked = Rest(w) \cup {f} /\ Stacked' = Rest(w) \cup {g}
    BY <1>1, <1>2, <1>4, TopAndRest, GoesFrames
  <2>4. \A e \in Stacked' : FrameAccounts(e)'
    BY <1>2, <1>4, <2>1, <2>3 DEF AccountInv, FrameAccounts, Exists
  <2>5. \A p, d : Copying(p, d) => Copying(p, d)'
    BY <1>1, <2>3 DEF Copying
  <2>6. QED
    BY <1>2, <2>1, <2>2, <2>4, <2>5 DEF AccountInv, Exists
<1>9. QED
  BY <1>1, <1>5, <1>7, <1>8 DEF TakePVSnapshot, Fail

LEMMA BackupPodVolumesAccounts ==
    ASSUME IInv, AccountInv, ~failed, NEW w \in Worker,
           BackupPodVolumes(w) \/ NoData(w)
    PROVE  AccountInv'
<1>1. PICK f \in Frame : f = Top(w) /\ f.at = "data"
  BY TopAndRest DEF BackupPodVolumes, NoData
<1>2. UNCHANGED <<objects, snapshots, archive>> /\ At(w, f.at)
  BY <1>1 DEF BackupPodVolumes, NoData, pvbVars, itemVars
<1>3. taken' = taken /\ \A c \in Claim : Reportable(c) => Reportable(c)'
  <2>1. f.vols \in SUBSET Item
    BY DEF Frame, Item
  <2>2. TrackSkipped(f.vols) \/ UNCHANGED <<skipped, taken>>
    BY <1>1 DEF BackupPodVolumes, NoData, Skipping, itemVars
  <2>3. QED
    BY <2>1, <2>2, TrackFacts DEF TrackSkipped, Reportable
<1>4. PICK g \in Frame : Goes(w, g) /\ g.item = f.item /\ g.made = f.made
  <2>1. \A s \in {"volumes", "write"}, e \in BOOLEAN :
            LET g == [f EXCEPT !.at = s, !.err = e]
            IN  g \in Frame /\ g.item = f.item /\ g.made = f.made
    BY DEF Frame, Steps
  <2>2. \A s : [f EXCEPT !.at = s] = [f EXCEPT !.at = s, !.err = f.err]
    BY DEF Frame
  <2>3. f.err \in BOOLEAN
    BY DEF Frame
  <2>4. \E s \in {"volumes", "write"}, e \in BOOLEAN :
            Goes(w, [f EXCEPT !.at = s, !.err = e])
    BY <1>1, <2>2, <2>3 DEF BackupPodVolumes, NoData, GoesTo
  <2>5. QED
    BY <2>1, <2>4
<1>5. QED
  BY <1>1, <1>2, <1>3, <1>4, QuietGoes

LEMMA BackupPodVolumeAccounts ==
    ASSUME IInv, AccountInv, ~failed, NEW w \in Worker, BackupPodVolume(w)
    PROVE  AccountInv'
<1>1. PICK f \in Frame, n \in Nat :
          f = Top(w) /\ f.at = "volumes" /\ FrameFits(w, n, f) /\ f.item \in Pod
  BY TopFits DEF BackupPodVolume, FrameFits
<1>2. PICK created \in BOOLEAN, c \in f.vols :
          /\ CreatePVB(<<f.item, c>>, created)
          /\ Goes(w, [f EXCEPT !.vols = f.vols \ {c},
                               !.made = IF created THEN f.made \cup {c} ELSE f.made,
                               !.err = f.err \/ ~created])
  BY <1>1 DEF BackupPodVolume
<1>3. c \in Claim /\ At(w, "volumes") /\ UNCHANGED <<skipped, taken, snapshots, archive>>
  BY <1>1 DEF BackupPodVolume, Frame, itemVars
<1>4. PICK g \in Frame :
          g = [f EXCEPT !.vols = f.vols \ {c},
                        !.made = IF created THEN f.made \cup {c} ELSE f.made,
                        !.err = f.err \/ ~created]
  BY <1>3 DEF Frame
<1>5. /\ g.item = f.item /\ g.at = "volumes" /\ f.made \subseteq g.made
      /\ created => g.made = f.made \cup {c}
      /\ ~created => g.made = f.made
  BY <1>1, <1>4 DEF Frame
<1>6. Stacked = Rest(w) \cup {f} /\ Stacked' = Rest(w) \cup {g}
  BY <1>1, <1>2, <1>3, <1>4, TopAndRest, GoesFrames
<1>7. \A p \in Pod, d \in Claim :
          Exists(<<p, d>>)' <=> Exists(<<p, d>>) \/ (created /\ p = f.item /\ d = c)
  <2>1. objects \in [PVB -> [phase : {"None", "New"} \cup Final, cancel : BOOLEAN]]
    BY DEF IInv, Types, PVBTypes
  <2>2. ASSUME NEW p \in Pod, NEW d \in Claim
        PROVE  <<p, d>> \in PVB
    BY DEF PVB
  <2>3. ASSUME NEW p \in Pod, NEW d \in Claim
        PROVE  <<p, d>> = <<f.item, c>> <=> p = f.item /\ d = c
    OBVIOUS
  <2>4. QED
    BY <1>2, <2>1, <2>2, <2>3 DEF CreatePVB, Exists
<1>8. \A e \in Stacked : FrameAccounts(e) /\ e.made \subseteq Claim
  <2>1. Stacked \subseteq Frame
    BY <1>3, TopAndRest
  <2>2. QED
    BY <2>1 DEF AccountInv, Frame
<1>9. \A d \in Claim : Reportable(d)' <=> Reportable(d)
  BY <1>3 DEF Reportable
<1>10. \A e \in Stacked' : FrameAccounts(e)'
  <2>1. \A e \in Rest(w) : FrameAccounts(e)'
    BY <1>6, <1>7, <1>8, <1>9 DEF FrameAccounts
  <2>2. FrameAccounts(g)'
    BY <1>1, <1>3, <1>5, <1>6, <1>7, <1>8, ItemsAssumption DEF FrameAccounts
  <2>3. QED
    BY <1>6, <2>1, <2>2
<1>11. \A p, d : Copying(p, d) => Copying(p, d)'
  BY <1>1, <1>5, <1>6 DEF Copying
<1>12. created => Copying(f.item, c)'
  BY <1>5, <1>6 DEF Copying
<1>13. QED
  BY <1>3, <1>7, <1>9, <1>10, <1>11, <1>12 DEF AccountInv

LEMMA PodVolumesTakenAccounts ==
    ASSUME IInv, AccountInv, ~failed, NEW w \in Worker, PodVolumesTaken(w)
    PROVE  AccountInv'
<1>1. PICK f \in Frame, n \in Nat :
          f = Top(w) /\ f.at = "volumes" /\ FrameFits(w, n, f) /\ f.item \in Pod
  BY TopFits DEF PodVolumesTaken, FrameFits
<1>2. At(w, "volumes") /\ UNCHANGED <<objects, snapshots, archive>>
  BY <1>1 DEF PodVolumesTaken, pvbVars
<1>3. PICK g \in Frame : g = [f EXCEPT !.at = "write"]
  BY DEF Frame, Steps
<1>4. Goes(w, g) /\ g.item = f.item /\ g.made = f.made /\ g.item \notin Claim
  BY <1>1, <1>3, ItemsAssumption DEF PodVolumesTaken, GoesTo, Frame
<1>5. Stacked = Rest(w) \cup {f} /\ Stacked' = Rest(w) \cup {g}
  BY <1>1, <1>2, <1>4, TopAndRest, GoesFrames
<1>6. \A d \in Claim :
          /\ BoundTo[d] \in taken' <=> BoundTo[d] \in taken \/ d \in f.made
          /\ Reportable(d) => Reportable(d)'
  <2>1. f.made \in SUBSET Item /\ \A d \in Claim : BoundTo[d] \notin f.made
    BY ItemsAssumption DEF Frame, Item
  <2>2. Untrack(f.made)
    BY <1>1 DEF PodVolumesTaken
  <2>3. QED
    BY <2>1, <2>2, TrackFacts
<1>7. \A e \in Stacked : FrameAccounts(e)
  BY DEF AccountInv
<1>8. \A e \in Stacked' : FrameAccounts(e)'
  BY <1>2, <1>4, <1>5, <1>6, <1>7 DEF FrameAccounts, Exists
<1>9. \A p, d : Copying(p, d) => Copying(p, d)' \/ d \in f.made
  BY <1>5 DEF Copying
<1>10. \A d \in f.made : f.item \in Pod /\ Exists(<<f.item, d>>)
  BY <1>5, <1>7 DEF FrameAccounts
<1>11. QED
  BY <1>2, <1>6, <1>8, <1>9, <1>10 DEF AccountInv, Exists

LEMMA WriteItemAccounts ==
    ASSUME IInv, AccountInv, ~failed, ~failed', NEW w \in Worker, WriteItem(w)
    PROVE  AccountInv'
<1>1. PICK f \in Frame : f = Top(w) /\ f.at = "write"
  BY TopAndRest DEF WriteItem
<1>2. /\ UNCHANGED <<objects, snapshots, skipped, taken>> /\ At(w, f.at) /\ Pop(w)
      /\ archive' = [archive EXCEPT ![f.item] = @ + 1]
  BY <1>1 DEF WriteItem, pvbVars, Fail
<1>3. Stacked = Rest(w) \cup {f} /\ Stacked' = Rest(w)
  BY <1>1, <1>2, TopAndRest, GoesFrames
<1>4. \A c \in Claim : Reportable(c)' <=> Reportable(c)
  BY <1>2 DEF Reportable
<1>5. \A c \in Claim : archive'[c] > 0 => Reportable(c)'
  <2>1. FrameAccounts(f) /\ \A c \in Claim : archive[c] > 0 => Reportable(c)
    BY <1>3 DEF AccountInv
  <2>2. \A c \in Claim : c # f.item => archive'[c] = archive[c]
    BY <1>2 DEF IInv, Types, DataTypes, Item
  <2>3. QED
    BY <1>1, <1>4, <2>1, <2>2 DEF FrameAccounts
<1>6. \A e \in Stacked' : FrameAccounts(e)'
  BY <1>2, <1>3, <1>4 DEF AccountInv, FrameAccounts, Exists
<1>7. \A p, d : Copying(p, d) => Copying(p, d)'
  BY <1>1, <1>3 DEF Copying
<1>8. QED
  BY <1>2, <1>4, <1>5, <1>6, <1>7 DEF AccountInv, Exists

LEMMA ItemStepAccounts ==
    ASSUME IInv, AccountInv, ~failed, ~failed', NEW w \in Worker, ItemStep(w)
    PROVE  AccountInv'
  BY ConsiderAccounts, AddItemAccounts, ExecuteActionsAccounts,
     BackUpAdditionalItemAccounts, TakePVSnapshotAccounts,
     BackupPodVolumesAccounts, BackupPodVolumeAccounts,
     PodVolumesTakenAccounts, WriteItemAccounts DEF ItemStep

\* The other steps copy nothing.  They may put the next item on a stack.
Aside ==
    /\ ~failed
    /\ UNCHANGED <<cluster, counted, tracker, snapshots, archive, taken>>
    /\ skipped \subseteq skipped'
    /\ \A k \in PVB : Exists(k)' <=> Exists(k)
    /\ \A w \in Worker :
           \/ workers'[w].frames = workers[w].frames
           \/ /\ workers[w].frames = <<>>
              /\ \E i \in Item : workers'[w].frames = <<FrameOf(i)>>

LEMMA AsideFrames ==
    ASSUME Aside
    PROVE  /\ Stacked \subseteq Stacked'
           /\ \A f \in Stacked' : f \in Stacked \/ \E i \in Item : f = FrameOf(i)
<1>1. ToSet(<<>>) = {} /\ \A f : ToSet(<<f>>) = {f}
  BY DEF ToSet
<1>2. \A w \in Worker : ToSet(workers[w].frames) \subseteq ToSet(workers'[w].frames)
  BY <1>1 DEF Aside
<1>3. \A w \in Worker : \A f \in ToSet(workers'[w].frames) :
          f \in ToSet(workers[w].frames) \/ \E i \in Item : f = FrameOf(i)
  BY <1>1 DEF Aside
<1>4. QED
  BY <1>2, <1>3 DEF Stacked

LEMMA AsideAccounts ==
    ASSUME IInv, AccountInv, Aside
    PROVE  AccountInv'
<1>1. \A f \in Stacked : FrameAccounts(f) /\ f.made \subseteq Claim
  <2>1. Stacked \subseteq Frame
    BY FrameTypes DEF Stacked, ToSet, IInv, Types
  <2>2. QED
    BY <2>1 DEF Aside, AccountInv, Frame
<1>2. \A c : Reportable(c) => Reportable(c)'
  BY DEF Reportable, Aside
<1>3. \A p \in Pod, c \in Claim : Exists(<<p, c>>)' <=> Exists(<<p, c>>)
  BY DEF Aside, PVB
<1>4. \A f \in Stacked : FrameAccounts(f)'
  BY <1>1, <1>2, <1>3 DEF FrameAccounts
<1>5. \A i \in Item : FrameAccounts(FrameOf(i))'
  BY DEF FrameAccounts, FrameOf
<1>6. \A f \in Stacked' : FrameAccounts(f)'
  BY <1>4, <1>5, AsideFrames
<1>7. \A p, c : Copying(p, c) => Copying(p, c)'
  BY AsideFrames DEF Copying
<1>8. QED
  BY <1>2, <1>3, <1>6, <1>7 DEF AccountInv, Aside

LEMMA WorkerAside ==
    ASSUME IInv, ~failed', NEW w \in Worker, BackupItemBlock(w), ~ItemStep(w)
    PROVE  Aside
<1>1. UNCHANGED <<cluster, objects, tracker, snapshots, archive, skipped, taken>>
  BY DEF BackupItemBlock, StartItemBlock, NextItem, ItemsDone, PostHooks,
     NoPostHooks, EndItemBlock, itemVars, pvbVars
<1>2. \A k \in PVB : Exists(k)' <=> Exists(k)
  BY <1>1 DEF Exists
<1>3. WorkersType /\ ToComeInv
  BY DEF IInv, Types
<1>4. CASE StartItemBlock(w)
  <2>1. ~failed /\ counted' = counted
    BY <1>4 DEF StartItemBlock
  <2>2. \A v \in Worker : workers'[v].frames = workers[v].frames
    BY <1>3, <1>4 DEF StartItemBlock, WorkersType, ToComeInv
  <2>3. QED
    BY <1>1, <1>2, <2>1, <2>2 DEF Aside
<1>5. CASE NextItem(w)
  <2>1. ~failed /\ counted' = counted
    BY <1>5 DEF NextItem, itemVars
  <2>2. workers[w].frames = <<>> /\ workers[w].block # <<>>
    BY <1>5 DEF NextItem, BetweenItems
  <2>3. PICK i \in Item : i = Head(workers[w].block)
    BY <1>3, <2>2 DEF WorkersType
  <2>4. /\ workers'[w].frames = <<FrameOf(i)>>
        /\ \A v \in Worker \ {w} : workers'[v].frames = workers[v].frames
    BY <1>3, <1>5, <2>3 DEF NextItem, WorkersType
  <2>5. QED
    BY <1>1, <1>2, <2>1, <2>2, <2>4 DEF Aside
<1>6. CASE ItemsDone(w) \/ PostHooks(w) \/ NoPostHooks(w)
  <2>1. ~failed /\ counted' = counted
    BY <1>6 DEF ItemsDone, PostHooks, NoPostHooks, EndItemBlock, itemVars
  <2>2. workers[w].frames = <<>>
    BY <1>3, <1>6 DEF ItemsDone, PostHooks, NoPostHooks, BetweenItems, ToComeInv
  <2>3. \A v \in Worker : workers'[v].frames = workers[v].frames
    <3>1. \/ workers' = [workers EXCEPT ![w] = Idle]
          \/ \E at : workers' = [workers EXCEPT ![w].at = at]
      BY <1>6 DEF ItemsDone, PostHooks, NoPostHooks, EndItemBlock
    <3>2. workers \in [Worker -> [at : {"idle", "items", "post", "wait"},
              block : Seq(Item), hooked : SUBSET Pod, frames : Seq(Frame)]]
      BY <1>3 DEF WorkersType
    <3>3. CASE workers' = [workers EXCEPT ![w] = Idle]
      BY <2>2, <3>2, <3>3 DEF Idle
    <3>4. ASSUME NEW at, workers' = [workers EXCEPT ![w].at = at]
          PROVE  \A v \in Worker : workers'[v].frames = workers[v].frames
      BY <2>2, <3>2, <3>4
    <3>5. QED
      BY <3>1, <3>3, <3>4
  <2>4. QED
    BY <1>1, <1>2, <2>1, <2>3 DEF Aside
<1>7. QED
  BY <1>4, <1>5, <1>6 DEF BackupItemBlock

LEMMA NextAside ==
    ASSUME IInv, [Next]_vars, ~failed'
    PROVE  \/ Aside
           \/ \E w \in Worker : ItemStep(w) /\ ~failed /\ UNCHANGED cluster
<1>1. ASSUME UNCHANGED <<cluster, counted, tracker, snapshots, archive, taken,
                         failed, workers>>, skipped \subseteq skipped',
             \A k \in PVB : Exists(k)' <=> Exists(k)
      PROVE  Aside
  BY <1>1 DEF Aside
<1>2. objects \in [PVB -> [phase : {"None", "New"} \cup Final, cancel : BOOLEAN]]
  BY DEF IInv, Types, PVBTypes
<1>3. CASE \E i \in Item : AddToBlock(i)
  <2>1. skipped \subseteq skipped' /\ taken' = taken /\ ~failed
    BY <1>3 DEF AddToBlock, TrackSkipped
  <2>2. \A k \in PVB : Exists(k)' <=> Exists(k)
    BY <1>3 DEF AddToBlock, Exists, pvbVars
  <2>3. QED
    BY <1>3, <2>1, <2>2 DEF AddToBlock, Aside
<1>4. CASE SendItemBlock \/ BlocksProcessed \/ PodVolumesProcessed
  BY <1>1, <1>4 DEF SendItemBlock, BlocksProcessed, PodVolumesProcessed,
     MainGoes, Exists, pvbVars, itemVars
<1>5. CASE PodVolumesTimedOut
  <2>1. \A k \in PVB : objects'[k].phase = objects[k].phase
    BY <1>2, <1>5 DEF PodVolumesTimedOut, CancelPVBs
  <2>2. QED
    BY <1>1, <1>5, <2>1 DEF PodVolumesTimedOut, MainGoes, Exists, itemVars
<1>6. CASE \E w \in Worker : BackupItemBlock(w)
  <2>1. PICK w \in Worker : BackupItemBlock(w)
    BY <1>6
  <2>2. CASE ItemStep(w)
    <3>1. ~failed
      BY <2>2 DEF ItemStep, Consider, AddItem, ExecuteActions, Executed,
         BackUpAdditionalItem, TakePVSnapshot, BackupPodVolumes,
         BackupPodVolume, PodVolumesTaken, NoData, WriteItem, Fail, itemVars
    <3>2. UNCHANGED cluster
      BY <2>1, <2>2 DEF BackupItemBlock, StartItemBlock, NextItem, ItemsDone,
         PostHooks, NoPostHooks, EndItemBlock
    <3>3. QED
      BY <2>2, <3>1, <3>2
  <2>3. QED
    BY <2>1, <2>2, WorkerAside
<1>7. CASE \E k \in PVB : (EndPVB(k) \/ UpdatePVB(k)) /\ Others
  <2>1. PICK k \in PVB : (EndPVB(k) \/ UpdatePVB(k)) /\ Others
    BY <1>7
  <2>2. \A l \in PVB : Exists(l)' <=> Exists(l)
    BY <1>2, <2>1 DEF EndPVB, UpdatePVB, Running, Exists
  <2>3. QED
    BY <1>1, <2>1, <2>2 DEF Others, itemVars
<1>8. CASE (TimeOut /\ Others) \/ UNCHANGED vars
  BY <1>1, <1>8 DEF TimeOut, Others, vars, pvbVars, itemVars, Exists
<1>9. QED
  BY <1>3, <1>4, <1>5, <1>6, <1>7, <1>8 DEF Next, MainLoop

LEMMA AccountKeeps == IInv /\ AccountInv /\ [Next]_vars => AccountInv'
<1> SUFFICES ASSUME IInv, AccountInv, [Next]_vars, ~failed' PROVE AccountInv'
  BY DEF AccountInv
<1>1. QED
  BY NextAside, AsideAccounts, ItemStepAccounts

LEMMA InitAccounts == Init => AccountInv
<1> SUFFICES ASSUME Init PROVE AccountInv
  OBVIOUS
<1>1. Stacked = {}
  BY EmptyFacts DEF Init, ItemsInit, Idle, Stacked
<1>2. QED
  BY <1>1 DEF Init, ItemsInit, BackupperInit, NoObject, AccountInv, Exists, PVB, Item

LEMMA Accounting == Spec => [](IInv /\ AccountInv)
  BY Invariant, InitAccounts, AccountKeeps, PTL DEF Spec

(***************************************************************************)
(* With one worker, and pods that agree, nothing of a claim is copied      *)
(* twice.                                                                  *)
(***************************************************************************)

\* Pods add claims and claims add volumes, so that no item adds itself.
Depth(i) == IF i \in Pod THEN 0 ELSE IF i \in Claim THEN 1 ELSE 2

\* The n-th of a stack of frames is deeper than those below it.
DeepensAt(fs, n) ==
    /\ \A i \in fs[n].todo : Depth(i) > Depth(fs[n].item)
    /\ \A m \in 1 .. n - 1 : Depth(fs[m].item) < Depth(fs[n].item)

DepthInv ==
    \A w \in Worker : \A n \in DOMAIN workers[w].frames :
        DeepensAt(workers[w].frames, n)

PoolInv == Busy \subseteq cluster.pool

\* One worker, as by DefaultItemBlockWorkerCount.
Sole == \A v, w \in cluster.pool : v = w

AllFS(c) == \A p \in UsersOf(c) : ShouldPerformFSBackup(p, c)

\* Of the pods that share a claim, at most one has it copied or all have.
Agreed ==
    \A c \in Claim : \A p, q \in UsersOf(c) :
        p # q /\ ShouldPerformFSBackup(p, c) /\ ShouldPerformFSBackup(q, c)
            => AllFS(c)

\* What takes the snapshot of a claim, and that it is yet to do so.
TakenAt(c) == IF cluster.driver[c] = "csi" THEN c ELSE BoundTo[c]

Untaken(f, c) ==
    /\ f.item = TakenAt(c)
    /\ \/ f.at = "act"
       \/ cluster.driver[c] # "csi" /\ f.at \in {"descend", "data"}

FrameOnce(f) ==
    /\ f.at = "add" => f.item \notin counted
    /\ f.at \in Beyond => f.item \in counted
    /\ f.at \in Beyond \ {"act"} => f.item \notin cluster.omitted
    /\ \A c \in Claim : Untaken(f, c) => snapshots[c] = 0
    /\ f.item \in Pod =>
           /\ \A c \in f.vols : \A p \in Pod : ~Exists(<<p, c>>)
           /\ \A c \in f.vols \cup f.made :
                  ShouldPerformFSBackup(f.item, c) /\ tracker[c] # "none"

SnapshotOnce(c) ==
    /\ snapshots[c] <= 1
    /\ snapshots[c] > 0 =>
           /\ ShouldPerformSnapshot(c)
           /\ TakenAt(c) \in counted /\ TakenAt(c) \notin cluster.omitted

PVBOnce(p, c) ==
    Exists(<<p, c>>) =>
        /\ ShouldPerformFSBackup(p, c)
        /\ \A q \in Pod : Exists(<<q, c>>) => q = p
        /\ AllFS(c) => tracker[c] = "taken" \/ Copying(p, c)

OnceInv ==
    ~failed =>
        /\ DepthInv
        /\ \A c \in Claim :
               /\ SnapshotOnce(c)
               /\ AllFS(c) => tracker[c] # "optedout"
               /\ \A p \in Pod : PVBOnce(p, c)
        /\ \A f \in Stacked : FrameOnce(f)

LEMMA PoolKeeps == IInv /\ PoolInv /\ [Next]_vars => PoolInv'
<1> SUFFICES ASSUME IInv, PoolInv, [Next]_vars PROVE PoolInv'
  OBVIOUS
<1>1. WorkersType
  BY DEF IInv, Types
<1>2. ASSUME UNCHANGED <<cluster, workers>>
      PROVE  PoolInv'
  BY <1>2 DEF PoolInv, Busy
<1>3. CASE MainLoop
  BY <1>2, <1>3 DEF MainLoop, AddToBlock, SendItemBlock, BlocksProcessed,
     PodVolumesProcessed, PodVolumesTimedOut, MainGoes
<1>4. ASSUME NEW w \in Worker, BackupItemBlock(w)
      PROVE  PoolInv'
  <2>1. UNCHANGED cluster
    BY <1>4 DEF BackupItemBlock, StartItemBlock, NextItem, ItemsDone,
       PostHooks, NoPostHooks, EndItemBlock
  <2>2. \A v \in Worker \ {w} : workers'[v] = workers[v]
    BY <1>1, <1>4 DEF BackupItemBlock, StartItemBlock, NextItem, ItemsDone,
       PostHooks, NoPostHooks, EndItemBlock, WorkersType, ItemStep, Consider,
       AddItem, ExecuteActions, Executed, BackUpAdditionalItem,
       TakePVSnapshot, BackupPodVolumes, BackupPodVolume, PodVolumesTaken,
       NoData, WriteItem, GoesTo, Goes, Pop, Fail, Becomes
  <2>3. workers[w].at # "idle" \/ w \in cluster.pool
    BY <1>4 DEF BackupItemBlock, StartItemBlock, NextItem, ItemsDone,
       PostHooks, NoPostHooks, BetweenItems, ItemStep, Consider, AddItem,
       ExecuteActions, BackUpAdditionalItem, TakePVSnapshot,
       BackupPodVolumes, BackupPodVolume, PodVolumesTaken, NoData, WriteItem, At
  <2>4. QED
    BY <2>1, <2>2, <2>3 DEF PoolInv, Busy
<1>5. CASE \/ \E k \in PVB : (EndPVB(k) \/ UpdatePVB(k)) /\ Others
           \/ TimeOut /\ Others
           \/ UNCHANGED vars
  BY <1>2, <1>5 DEF Others, vars
<1>6. QED
  BY <1>3, <1>4, <1>5 DEF Next

\* The frames that a step leaves alone are of other items.
LEMMA RestBelow ==
    ASSUME IInv, PoolInv, Sole, DepthInv, NEW w \in Worker, NEW step,
           At(w, step)
    PROVE  \A g \in Rest(w) : Depth(g.item) < Depth(Top(w).item)
<1>1. ToComeInv /\ \A v \in Worker : workers[v].frames \in Seq(Frame)
  BY FrameTypes DEF IInv, Types
<1>2. \A v \in Worker \ {w} : workers[v].frames = <<>>
  <2>1. w \in cluster.pool
    BY DEF At, PoolInv, Busy
  <2>2. \A v \in Worker \ {w} : workers[v].at = "idle"
    BY <2>1 DEF Sole, PoolInv, Busy
  <2>3. QED
    BY <1>1, <2>2 DEF ToComeInv
<1>3. Rest(w) = {workers[w].frames[n] : n \in 1 .. Len(workers[w].frames) - 1}
  BY <1>2, EmptyFacts DEF Rest
<1>4. /\ Len(workers[w].frames) \in Nat \ {0}
      /\ Len(workers[w].frames) \in DOMAIN workers[w].frames
      /\ Top(w) = workers[w].frames[Len(workers[w].frames)]
  <2>1. workers[w].frames \in Seq(Frame) /\ workers[w].frames # <<>>
    BY <1>1 DEF At
  <2>2. /\ Len(workers[w].frames) \in Nat \ {0}
        /\ DOMAIN workers[w].frames = 1 .. Len(workers[w].frames)
        /\ Top(w) = workers[w].frames[Len(workers[w].frames)]
    BY <2>1, StackFacts DEF Top
  <2>3. QED
    BY <2>2
<1>5. QED
  BY <1>3, <1>4 DEF DepthInv, DeepensAt

\* What the top of the stack may become.
LEMMA DepthGoes ==
    ASSUME IInv, DepthInv, NEW w \in Worker, NEW f \in Frame, f = Top(w),
           At(w, f.at), NEW g \in Frame, Goes(w, g), g.item = f.item,
           \A i \in g.todo : Depth(i) > Depth(g.item)
    PROVE  DepthInv'
<1> DEFINE old == workers[w].frames
           new == Append(Front(old), g)
           L == Len(old)
<1>1. WorkersType /\ old \in Seq(Frame) /\ old # <<>>
  BY FrameTypes DEF IInv, Types, At
<1>2. /\ new \in Seq(Frame) /\ DOMAIN new = 1 .. L /\ DOMAIN old = 1 .. L
      /\ \A n \in 1 .. L - 1 : new[n] = old[n]
      /\ new[L] = g /\ old[L] = f /\ L \in Nat \ {0}
  <2>1. /\ new \in Seq(Frame) /\ DOMAIN new = 1 .. L /\ new[L] = g
        /\ \A n \in 1 .. L - 1 : new[n] = old[n]
    BY <1>1, ReplaceTop
  <2>2. DOMAIN old = 1 .. L /\ old[L] = f /\ L \in Nat \ {0}
    BY <1>1, StackFacts DEF Top
  <2>3. QED
    BY <2>1, <2>2
<1>3. /\ workers'[w].frames = new
      /\ \A v \in Worker \ {w} : workers'[v].frames = workers[v].frames
  <2> HIDE DEF new
  <2>1. workers' = [workers EXCEPT ![w].frames = new]
    BY DEF Goes, Becomes, new
  <2>2. QED
    BY <1>1, <1>2, <2>1 DEF WorkersType
<1> HIDE DEF new
<1>4. \A n \in 1 .. L : DeepensAt(old, n)
  BY <1>2 DEF DepthInv
<1>5. \A n \in 1 .. L : new[n].item = old[n].item
  BY <1>2
<1>6. \A n \in 1 .. L : DeepensAt(new, n)
  BY <1>2, <1>4, <1>5 DEF DeepensAt
<1>7. QED
  BY <1>2, <1>3, <1>6 DEF DepthInv, DeepensAt

LEMMA DepthPops ==
    ASSUME IInv, DepthInv, NEW w \in Worker, NEW step, At(w, step), Pop(w)
    PROVE  DepthInv'
<1> DEFINE old == workers[w].frames
           new == Front(old)
           L == Len(old)
<1>1. WorkersType /\ old \in Seq(Frame) /\ old # <<>>
  BY FrameTypes DEF IInv, Types, At
<1>2. /\ new \in Seq(Frame) /\ DOMAIN new = 1 .. L - 1 /\ DOMAIN old = 1 .. L
      /\ \A n \in 1 .. L - 1 : new[n] = old[n]
      /\ L \in Nat \ {0}
  BY <1>1, StackFacts
<1>3. /\ workers'[w].frames = new
      /\ \A v \in Worker \ {w} : workers'[v].frames = workers[v].frames
  <2> HIDE DEF new
  <2>1. workers' = [workers EXCEPT ![w].frames = new]
    BY DEF Pop, Becomes, new
  <2>2. QED
    BY <1>1, <1>2, <2>1 DEF WorkersType
<1> HIDE DEF new
<1>4. \A n \in 1 .. L - 1 : DeepensAt(old, n)
  BY <1>2 DEF DepthInv
<1> HIDE DEF L
<1>5. \A n \in 1 .. L - 1 : DeepensAt(new, n)
  BY <1>2, <1>4 DEF DeepensAt
<1>6. QED
  BY <1>2, <1>3, <1>5 DEF DepthInv, DeepensAt

LEMMA DepthPushes ==
    ASSUME IInv, DepthInv, NEW w \in Worker, NEW f \in Frame, f = Top(w),
           At(w, f.at), NEW i \in f.todo, NEW g \in Frame, NEW h \in Frame,
           Becomes(w, Append(Append(Front(workers[w].frames), g), h)),
           g.item = f.item, g.todo \subseteq f.todo, h.item = i, h.todo = {}
    PROVE  DepthInv'
<1> DEFINE old == workers[w].frames
           mid == Append(Front(old), g)
           new == Append(mid, h)
           L == Len(old)
<1>1. WorkersType /\ old \in Seq(Frame) /\ old # <<>>
  BY FrameTypes DEF IInv, Types, At
<1>2. /\ mid \in Seq(Frame) /\ DOMAIN mid = 1 .. L /\ mid[L] = g
      /\ \A n \in 1 .. L - 1 : mid[n] = old[n]
  BY <1>1, ReplaceTop
<1>3. /\ DOMAIN old = 1 .. L /\ old[L] = f /\ L \in Nat \ {0}
  BY <1>1, StackFacts DEF Top
<1> HIDE DEF mid
<1>4. Len(mid) = L
  BY <1>2, <1>3
<1>5. /\ new \in Seq(Frame) /\ DOMAIN new = 1 .. L + 1 /\ new[L + 1] = h
      /\ \A n \in 1 .. L : new[n] = mid[n]
  BY <1>2, <1>3, <1>4
<1>6. /\ workers'[w].frames = new
      /\ \A v \in Worker \ {w} : workers'[v].frames = workers[v].frames
  <2> HIDE DEF new
  <2>1. workers' = [workers EXCEPT ![w].frames = new]
    BY DEF Becomes, new, mid
  <2>2. QED
    BY <1>1, <1>5, <2>1 DEF WorkersType
<1> HIDE DEF new, L, old
<1>7. \A n \in 1 .. L : DeepensAt(old, n)
  BY <1>3 DEF DepthInv, old
<1>8. \A n \in 1 .. L : new[n].item = old[n].item /\ new[n].todo \subseteq old[n].todo
  BY <1>2, <1>3, <1>5
<1>9. \A n \in 1 .. L : DeepensAt(new, n)
  BY <1>3, <1>7, <1>8 DEF DeepensAt
<1>10. DeepensAt(new, L + 1)
  <2>1. Depth(i) > Depth(f.item)
    BY <1>3, <1>7 DEF DeepensAt
  <2>2. \A m \in 1 .. L : Depth(old[m].item) <= Depth(f.item)
    BY <1>3, <1>7 DEF DeepensAt, Depth
  <2>3. \A m \in 1 .. L : Depth(new[m].item) < Depth(i)
    BY <1>8, <2>1, <2>2 DEF Depth
  <2>4. QED
    BY <1>3, <1>5, <2>3 DEF DeepensAt
<1>11. \A n \in DOMAIN new : DeepensAt(new, n)
  BY <1>3, <1>5, <1>9, <1>10
<1>12. QED
  BY <1>6, <1>11 DEF DepthInv, DeepensAt, old

\* A step of an item that does not fail takes one of three forms.
LEMMA ItemStepForms ==
    ASSUME IInv, ~failed', NEW w \in Worker, ItemStep(w), NEW f \in Frame, f = Top(w)
    PROVE  \/ Pop(w)
           \/ \E g \in Frame :
                  /\ Goes(w, g) /\ g.item = f.item
                  /\ g.todo = f.todo \/ g.todo = AdditionalItems(f.item)
           \/ \E i \in f.todo : \E g, h \in Frame :
                  /\ g = [f EXCEPT !.todo = f.todo \ {i}] /\ h = FrameOf(i)
                  /\ Becomes(w, Append(Append(Front(workers[w].frames), g), h))
<1>1. \A s \in Steps : LET g == [f EXCEPT !.at = s]
                       IN  g \in Frame /\ g.item = f.item /\ g.todo = f.todo
  BY DEF Frame
<1>2. CASE \E s \in Steps : GoesTo(w, s)
  BY <1>1, <1>2 DEF GoesTo
<1>3. CASE Consider(w)
  BY <1>2, <1>3 DEF Consider, Steps
<1>4. CASE AddItem(w)
  <2>1. CASE f.item \in Pod
    <3>1. VolumesToBackUp(f.item) \subseteq Claim
      BY <2>1, ClusterFacts DEF VolumesToBackUp, Mounted, IInv, Types
    <3>2. PICK g \in Frame : g = [f EXCEPT !.at = "act", !.vols = VolumesToBackUp(f.item)]
      BY <3>1 DEF Frame, Steps
    <3>3. Goes(w, g) /\ g.item = f.item /\ g.todo = f.todo
      BY <1>4, <2>1, <3>2 DEF AddItem, Frame
    <3>4. QED
      BY <3>3
  <2>2. CASE f.item \notin Pod
    BY <1>2, <1>4, <2>2 DEF AddItem, Steps
  <2>3. QED
    BY <2>1, <2>2
<1>5. CASE ExecuteActions(w)
  <2>1. CASE Executed(w)
    <3>1. AdditionalItems(f.item) \subseteq Item
      BY ItemsAssumption, ClusterFacts
      DEF AdditionalItems, Mounted, IInv, Types, Item
    <3>2. PICK g \in Frame :
              g = [f EXCEPT !.at = "descend", !.todo = AdditionalItems(f.item)]
      BY <3>1 DEF Frame, Steps
    <3>3. Goes(w, g) /\ g.item = f.item /\ g.todo = AdditionalItems(f.item)
      BY <2>1, <3>2 DEF Executed, Frame
    <3>4. QED
      BY <3>3
  <2>2. QED
    BY <1>5, <2>1 DEF ExecuteActions, Fail
<1>6. CASE BackUpAdditionalItem(w)
  <2>1. CASE GoesTo(w, "data")
    BY <1>2, <2>1 DEF Steps
  <2>2. ASSUME NEW i \in f.todo,
               Becomes(w, Append(Append(Front(workers[w].frames),
                          [f EXCEPT !.todo = f.todo \ {i}]), FrameOf(i)))
        PROVE  \E g, h \in Frame :
                  /\ g = [f EXCEPT !.todo = f.todo \ {i}] /\ h = FrameOf(i)
                  /\ Becomes(w, Append(Append(Front(workers[w].frames), g), h))
    <3>1. PICK g \in Frame : g = [f EXCEPT !.todo = f.todo \ {i}]
      BY DEF Frame
    <3>2. PICK h \in Frame : h = FrameOf(i)
      BY DEF Frame, Steps, FrameOf
    <3>3. QED
      BY <2>2, <3>1, <3>2
  <2>3. QED
    BY <1>6, <2>1, <2>2 DEF BackUpAdditionalItem
<1>7. CASE TakePVSnapshot(w) \/ NoData(w) \/ PodVolumesTaken(w)
  BY <1>2, <1>7 DEF TakePVSnapshot, NoData, PodVolumesTaken, Fail, Steps
<1>8. CASE BackupPodVolumes(w)
  <2>1. PICK g \in Frame : g = [f EXCEPT !.at = "write", !.err = TRUE]
    BY DEF Frame, Steps
  <2>2. g.item = f.item /\ g.todo = f.todo
    BY <2>1 DEF Frame
  <2>3. GoesTo(w, "write") \/ GoesTo(w, "volumes") \/ Goes(w, g)
    BY <1>8, <2>1 DEF BackupPodVolumes
  <2>4. QED
    BY <1>2, <2>2, <2>3 DEF Steps
<1>9. CASE BackupPodVolume(w)
  <2>1. PICK created \in BOOLEAN, c \in f.vols :
            Goes(w, [f EXCEPT !.vols = f.vols \ {c},
                              !.made = IF created THEN f.made \cup {c} ELSE f.made,
                              !.err = f.err \/ ~created])
    BY <1>9 DEF BackupPodVolume
  <2>2. PICK g \in Frame :
            g = [f EXCEPT !.vols = f.vols \ {c},
                          !.made = IF created THEN f.made \cup {c} ELSE f.made,
                          !.err = f.err \/ ~created]
    BY DEF Frame
  <2>3. g.item = f.item /\ g.todo = f.todo
    BY <2>2 DEF Frame
  <2>4. QED
    BY <2>1, <2>2, <2>3
<1>10. CASE WriteItem(w)
  BY <1>10 DEF WriteItem, Fail
<1>11. QED
  BY <1>3, <1>4, <1>5, <1>6, <1>7, <1>8, <1>9, <1>10 DEF ItemStep

LEMMA ItemStepDeepens ==
    ASSUME IInv, DepthInv, ~failed', UNCHANGED cluster, NEW w \in Worker, ItemStep(w)
    PROVE  DepthInv'
<1>1. PICK step : At(w, step)
  BY DEF ItemStep, Consider, AddItem, ExecuteActions, BackUpAdditionalItem,
     TakePVSnapshot, BackupPodVolumes, BackupPodVolume, PodVolumesTaken,
     NoData, WriteItem
<1>2. PICK f \in Frame : f = Top(w) /\ At(w, f.at)
  BY <1>1, TopAndRest
<1>3. \A i \in f.todo : Depth(i) > Depth(f.item)
  <2>1. workers[w].frames \in Seq(Frame) /\ workers[w].frames # <<>>
    BY <1>2, FrameTypes DEF IInv, Types, At
  <2>2. /\ Len(workers[w].frames) \in DOMAIN workers[w].frames
        /\ f = workers[w].frames[Len(workers[w].frames)]
    BY <1>2, <2>1, StackFacts DEF Top
  <2>3. QED
    BY <2>2 DEF DepthInv, DeepensAt
<1>4. \A i \in AdditionalItems(f.item) : Depth(i) > Depth(f.item)
  BY ItemsAssumption, ClusterFacts
  DEF AdditionalItems, Mounted, Depth, IInv, Types
<1>5. CASE Pop(w)
  BY <1>2, <1>5, DepthPops
<1>6. ASSUME NEW g \in Frame, Goes(w, g), g.item = f.item,
             g.todo = f.todo \/ g.todo = AdditionalItems(f.item)
      PROVE  DepthInv'
  BY <1>2, <1>3, <1>4, <1>6, DepthGoes
<1>7. ASSUME NEW i \in f.todo, NEW g \in Frame, NEW h \in Frame,
             g = [f EXCEPT !.todo = f.todo \ {i}], h = FrameOf(i),
             Becomes(w, Append(Append(Front(workers[w].frames), g), h))
      PROVE  DepthInv'
  <2>1. g.item = f.item /\ g.todo \subseteq f.todo /\ h.item = i /\ h.todo = {}
    BY <1>7 DEF Frame, FrameOf
  <2>2. QED
    BY <1>2, <1>7, <2>1, DepthPushes
<1>8. QED
  BY <1>2, <1>5, <1>6, <1>7, ItemStepForms

\* What the conditions on a cluster depend on stays.
LEMMA SameCluster ==
    ASSUME UNCHANGED cluster, NEW c
    PROVE  /\ TakenAt(c)' = TakenAt(c) /\ (AllFS(c)' <=> AllFS(c))
           /\ ShouldPerformSnapshot(c)' <=> ShouldPerformSnapshot(c)
           /\ \A p : ShouldPerformFSBackup(p, c)' <=> ShouldPerformFSBackup(p, c)
           /\ \A f : Untaken(f, c)' <=> Untaken(f, c)
  BY DEF TakenAt, AllFS, UsersOf, Mounted, ShouldPerformSnapshot,
     ShouldPerformFSBackup, ShouldPerformFSBackupLegacy, Untaken

\* A step that copies nothing and leaves alone what is counted.
LEMMA QuietOnce ==
    ASSUME OnceInv, DepthInv', ~failed, UNCHANGED cluster,
           NEW R, NEW t, NEW N, Stacked = R \cup {t}, Stacked' = R \cup N,
           t.at # "volumes",
           UNCHANGED <<objects, snapshots, tracker, counted>>,
           \A f \in N : FrameOnce(f)
    PROVE  OnceInv'
<1>1. \A f \in Stacked' : FrameOnce(f)
  BY DEF OnceInv
<1>2. \A f \in Stacked' : FrameOnce(f)'
  BY <1>1, SameCluster DEF FrameOnce, Exists
<1>3. \A p, c : Copying(p, c) => Copying(p, c)'
  BY DEF Copying
<1>4. ASSUME NEW c \in Claim
      PROVE  /\ SnapshotOnce(c)'
             /\ AllFS(c)' => tracker'[c] # "optedout"
             /\ \A p \in Pod : PVBOnce(p, c)'
  BY <1>3, SameCluster DEF OnceInv, SnapshotOnce, PVBOnce, Exists
<1>5. QED
  BY <1>2, <1>4 DEF OnceInv

\* The same for a worker whose item is further on.
LEMMA QuietGoesOnce ==
    ASSUME IInv, OnceInv, DepthInv', ~failed, UNCHANGED cluster,
           NEW w \in Worker, NEW f \in Frame, f = Top(w), At(w, f.at),
           f.at # "volumes", NEW g \in Frame, Goes(w, g),
           g.item = f.item, g.made = f.made, g.vols = f.vols,
           UNCHANGED <<objects, snapshots, tracker, counted>>,
           g.at = "add" => g.item \notin counted,
           g.at \in Beyond => f.at \in Beyond,
           g.at \in Beyond \ {"act"} =>
               f.at \in Beyond \ {"act"} \/ f.item \notin cluster.omitted,
           \A c \in Claim : Untaken(g, c) => Untaken(f, c)
    PROVE  OnceInv'
<1>1. Stacked = Rest(w) \cup {f} /\ Stacked' = Rest(w) \cup {g}
  BY TopAndRest, GoesFrames
<1>2. FrameOnce(f)
  BY <1>1 DEF OnceInv
<1>3. FrameOnce(g)
  BY <1>2 DEF FrameOnce
<1>4. QED
  BY <1>1, <1>3, QuietOnce

LEMMA PopOnce ==
    ASSUME IInv, OnceInv, DepthInv', ~failed, UNCHANGED cluster,
           NEW w \in Worker, NEW f \in Frame, f = Top(w), At(w, f.at),
           f.at # "volumes", Pop(w),
           UNCHANGED <<objects, snapshots, tracker, counted>>
    PROVE  OnceInv'
<1> DEFINE N == {}
<1>1. Stacked = Rest(w) \cup {f} /\ Stacked' = Rest(w) \cup N
  BY TopAndRest, GoesFrames
<1>2. \A g \in N : FrameOnce(g)
  OBVIOUS
<1> HIDE DEF N
<1>3. QED
  BY <1>1, <1>2, QuietOnce

LEMMA ConsiderOnce ==
    ASSUME IInv, OnceInv, DepthInv', ~failed, UNCHANGED cluster,
           NEW w \in Worker, Consider(w)
    PROVE  OnceInv'
<1>1. PICK f \in Frame : f = Top(w) /\ f.at = "check"
  BY TopAndRest DEF Consider
<1>2. UNCHANGED <<objects, snapshots, tracker, counted>> /\ At(w, f.at)
  BY <1>1 DEF Consider, pvbVars
<1>3. CASE Pop(w)
  BY <1>1, <1>2, <1>3, PopOnce
<1>4. CASE GoesTo(w, "add") /\ f.item \notin counted
  <2>1. PICK g \in Frame : g = [f EXCEPT !.at = "add"]
    BY DEF Frame, Steps
  <2>2. /\ Goes(w, g) /\ g.item = f.item /\ g.made = f.made /\ g.vols = f.vols
        /\ g.at = "add"
    BY <1>1, <1>4, <2>1 DEF GoesTo, Frame
  <2>3. \A c : ~Untaken(g, c)
    BY <2>2 DEF Untaken
  <2>4. g.at \notin Beyond
    BY <2>2 DEF Beyond
  <2>5. QED
    BY <1>1, <1>2, <1>4, <2>2, <2>3, <2>4, QuietGoesOnce
<1>5. QED
  BY <1>1, <1>3, <1>4 DEF Consider

LEMMA BackUpAdditionalItemOnce ==
    ASSUME IInv, OnceInv, DepthInv', ~failed, UNCHANGED cluster,
           NEW w \in Worker, BackUpAdditionalItem(w)
    PROVE  OnceInv'
<1>1. PICK f \in Frame : f = Top(w) /\ f.at = "descend"
  BY TopAndRest DEF BackUpAdditionalItem
<1>2. UNCHANGED <<objects, snapshots, tracker, counted>> /\ At(w, f.at)
  BY <1>1 DEF BackUpAdditionalItem, pvbVars, itemVars
<1>3. f.at \in Beyond \ {"act"}
  BY <1>1 DEF Beyond, Steps
<1>4. CASE GoesTo(w, "data")
  <2>1. PICK g \in Frame : g = [f EXCEPT !.at = "data"]
    BY DEF Frame, Steps
  <2>2. /\ Goes(w, g) /\ g.item = f.item /\ g.made = f.made /\ g.vols = f.vols
        /\ g.at = "data"
    BY <1>1, <1>4, <2>1 DEF GoesTo, Frame
  <2>3. \A c : Untaken(g, c) => Untaken(f, c)
    BY <1>1, <2>2 DEF Untaken
  <2>4. QED
    BY <1>1, <1>2, <1>3, <2>2, <2>3, QuietGoesOnce
<1>5. ASSUME NEW i \in f.todo,
             Becomes(w, Append(Append(Front(workers[w].frames),
                                   [f EXCEPT !.todo = f.todo \ {i}]), FrameOf(i)))
      PROVE  OnceInv'
  <2>1. PICK g \in Frame : g = [f EXCEPT !.todo = f.todo \ {i}]
    BY DEF Frame
  <2>2. PICK h \in Frame : h = FrameOf(i)
    BY DEF Frame, Steps, FrameOf
  <2>3. Stacked = Rest(w) \cup {f} /\ Stacked' = Rest(w) \cup {g, h}
    BY <1>1, <1>2, <1>5, <2>1, <2>2, TopAndRest, GoesFrames
  <2>4. g.item = f.item /\ g.made = f.made /\ g.at = f.at /\ g.vols = f.vols
    BY <2>1 DEF Frame
  <2>5. FrameOnce(f)
    BY <2>3 DEF OnceInv
  <2>6. FrameOnce(g)
    BY <2>4, <2>5 DEF FrameOnce, Untaken
  <2>7. FrameOnce(h)
    BY <2>2 DEF FrameOnce, FrameOf, Beyond, Untaken
  <2> DEFINE N == {g, h}
  <2>8. Stacked' = Rest(w) \cup N /\ \A e \in N : FrameOnce(e)
    BY <2>3, <2>6, <2>7
  <2> HIDE DEF N
  <2>9. QED
    BY <1>1, <1>2, <2>3, <2>8, QuietOnce
<1>6. QED
  BY <1>1, <1>4, <1>5 DEF BackUpAdditionalItem

LEMMA WriteItemOnce ==
    ASSUME IInv, OnceInv, DepthInv', ~failed, ~failed', UNCHANGED cluster,
           NEW w \in Worker, WriteItem(w)
    PROVE  OnceInv'
<1>1. PICK f \in Frame : f = Top(w) /\ f.at = "write"
  BY TopAndRest DEF WriteItem
<1>2. UNCHANGED <<objects, snapshots, tracker, counted>> /\ At(w, f.at) /\ Pop(w)
  BY <1>1 DEF WriteItem, pvbVars, Fail
<1>3. QED
  BY <1>1, <1>2, PopOnce

LEMMA BackupPodVolumesOnce ==
    ASSUME IInv, OnceInv, DepthInv', ~failed, UNCHANGED cluster,
           NEW w \in Worker, BackupPodVolumes(w) \/ NoData(w)
    PROVE  OnceInv'
<1>1. PICK f \in Frame : f = Top(w) /\ f.at = "data"
  BY TopAndRest DEF BackupPodVolumes, NoData
<1>2. UNCHANGED <<objects, snapshots, tracker, counted>> /\ At(w, f.at)
  BY <1>1 DEF BackupPodVolumes, NoData, pvbVars, itemVars
<1>3. PICK g \in Frame :
          /\ Goes(w, g) /\ g.item = f.item /\ g.made = f.made /\ g.vols = f.vols
          /\ g.at \in {"volumes", "write"}
  <2>1. \A s \in {"volumes", "write"}, e \in BOOLEAN :
            LET g == [f EXCEPT !.at = s, !.err = e]
            IN  /\ g \in Frame /\ g.item = f.item /\ g.made = f.made
                /\ g.vols = f.vols /\ g.at = s
    BY DEF Frame, Steps
  <2>2. \A s : [f EXCEPT !.at = s] = [f EXCEPT !.at = s, !.err = f.err]
    BY DEF Frame
  <2>3. f.err \in BOOLEAN
    BY DEF Frame
  <2>4. \E s \in {"volumes", "write"}, e \in BOOLEAN :
            Goes(w, [f EXCEPT !.at = s, !.err = e])
    BY <1>1, <2>2, <2>3 DEF BackupPodVolumes, NoData, GoesTo
  <2>5. QED
    BY <2>1, <2>4
<1>4. f.at \in Beyond \ {"act"} /\ \A c : ~Untaken(g, c)
  BY <1>1, <1>3 DEF Beyond, Steps, Untaken
<1>5. g.at # "add"
  BY <1>3
<1>6. QED
  BY <1>1, <1>2, <1>3, <1>4, <1>5, QuietGoesOnce

LEMMA RestOthers ==
    ASSUME IInv, PoolInv, Sole, OnceInv, ~failed, NEW w \in Worker, NEW step,
           At(w, step), NEW g \in Rest(w)
    PROVE  g.item # Top(w).item /\ (Top(w).item \in Pod => g.item \notin Pod)
<1>1. Depth(g.item) < Depth(Top(w).item)
  BY RestBelow DEF OnceInv
<1>2. QED
  BY <1>1 DEF Depth

LEMMA AddItemOnce ==
    ASSUME IInv, PoolInv, Sole, Agreed, OnceInv, DepthInv', ~failed,
           UNCHANGED cluster, NEW w \in Worker, AddItem(w)
    PROVE  OnceInv'
<1>1. PICK f \in Frame, n \in Nat :
          f = Top(w) /\ f.at = "add" /\ FrameFits(w, n, f)
  BY TopFits DEF AddItem
<1>2. /\ UNCHANGED <<objects, snapshots>> /\ At(w, "add")
      /\ counted' = counted \cup {f.item}
  BY <1>1 DEF AddItem, pvbVars
<1>3. PICK vols \in SUBSET Claim :
          /\ Goes(w, [f EXCEPT !.at = "act", !.vols = vols])
          /\ f.item \in Pod => vols = VolumesToBackUp(f.item)
  <2>1. CASE f.item \in Pod
    <3>1. VolumesToBackUp(f.item) \subseteq Claim
      BY <2>1, ClusterFacts DEF VolumesToBackUp, Mounted, IInv, Types
    <3>2. QED
      BY <1>1, <2>1, <3>1 DEF AddItem
  <2>2. CASE f.item \notin Pod
    <3>1. [f EXCEPT !.at = "act"] = [f EXCEPT !.at = "act", !.vols = f.vols]
      BY DEF Frame
    <3>2. Goes(w, [f EXCEPT !.at = "act", !.vols = f.vols])
      BY <1>1, <2>2, <3>1 DEF AddItem, GoesTo
    <3>3. QED
      BY <2>2, <3>2 DEF Frame
  <2>3. QED
    BY <2>1, <2>2
<1>4. PICK g \in Frame : g = [f EXCEPT !.at = "act", !.vols = vols]
  BY DEF Frame, Steps
<1>5. /\ Goes(w, g) /\ g.item = f.item /\ g.made = f.made /\ g.at = "act"
      /\ g.vols = vols
  BY <1>3, <1>4 DEF Frame
<1>6. Stacked = Rest(w) \cup {f} /\ Stacked' = Rest(w) \cup {g}
  BY <1>1, <1>2, <1>5, TopAndRest, GoesFrames
<1>7. \A h \in Rest(w) : h.item # f.item /\ (f.item \in Pod => h.item \notin Pod)
  BY <1>1, <1>2, RestOthers
<1>8. f.item \notin counted /\ \A h \in Stacked : FrameOnce(h)
  BY <1>1, <1>6 DEF OnceInv, FrameOnce
<1>9. ASSUME NEW c \in Claim
      PROVE  /\ tracker[c] # "none" => tracker'[c] # "none"
             /\ tracker[c] = "taken" => tracker'[c] = "taken"
             /\ AllFS(c) /\ tracker[c] # "optedout" => tracker'[c] # "optedout"
             /\ f.item \in Pod /\ c \in Mounted(f.item) => tracker'[c] # "none"
  BY <1>1 DEF AddItem, TrackVolumes, AllFS, UsersOf
<1>10. ASSUME f.item \in Pod, NEW c \in vols, NEW p \in Pod, Exists(<<p, c>>)
       PROVE  FALSE
  <2>1. /\ c \in Claim /\ <<p, c>> \in PVB /\ c \in Mounted(f.item)
        /\ ShouldPerformFSBackup(f.item, c) /\ tracker[c] # "taken"
    BY <1>3, <1>10 DEF VolumesToBackUp, PVB
  <2>2. PVBInv
    BY DEF IInv
  <2>3. p # f.item
    <3>1. index[<<f.item, c>>] = "None"
      BY <1>1, <1>10, <2>1 DEF FrameFits, Fresh
    <3>2. QED
      BY <1>10, <2>1, <2>2, <3>1 DEF PVBInv, Exists
  <2>4. c \in Mounted(p)
    BY <1>10, <2>1, <2>2 DEF PVBInv, Exists
  <2>5. PVBOnce(p, c)
    BY <2>1 DEF OnceInv
  <2>6. AllFS(c)
    BY <1>10, <2>1, <2>3, <2>4, <2>5 DEF Agreed, UsersOf, PVBOnce
  <2>7. Copying(p, c)
    BY <1>10, <2>1, <2>5, <2>6 DEF PVBOnce
  <2>8. QED
    BY <1>1, <1>6, <1>7, <1>10, <2>7 DEF Copying
<1>11. FrameOnce(g)'
  <2>1. \A c \in Claim : Untaken(g, c) => snapshots[c] = 0
    <3> SUFFICES ASSUME NEW c \in Claim, Untaken(g, c) PROVE snapshots[c] = 0
      OBVIOUS
    <3>1. TakenAt(c) \notin counted
      BY <1>5, <1>8 DEF Untaken
    <3>2. snapshots[c] \in Nat
      BY DEF IInv, Types, DataTypes
    <3>3. QED
      BY <3>1, <3>2 DEF OnceInv, SnapshotOnce
  <2>2. ASSUME f.item \in Pod, NEW c \in vols \cup f.made
        PROVE  ShouldPerformFSBackup(f.item, c) /\ tracker'[c] # "none"
    <3>1. c \in Claim
      BY DEF Frame
    <3>2. CASE c \in vols
      BY <1>3, <1>9, <2>2, <3>1, <3>2 DEF VolumesToBackUp
    <3>3. CASE c \in f.made
      BY <1>6, <1>8, <1>9, <2>2, <3>1, <3>3 DEF FrameOnce
    <3>4. QED
      BY <3>2, <3>3
  <2>3. \A c : Untaken(g, c)' <=> Untaken(g, c)
    BY SameCluster
  <2>4. \A c : ShouldPerformFSBackup(f.item, c)' <=> ShouldPerformFSBackup(f.item, c)
    BY SameCluster
  <2>5. \A k : Exists(k)' <=> Exists(k)
    BY <1>2 DEF Exists
  <2>6. QED
    BY <1>2, <1>5, <1>10, <2>1, <2>2, <2>3, <2>4, <2>5 DEF FrameOnce
<1>12. \A h \in Rest(w) : FrameOnce(h)'
  <2> SUFFICES ASSUME NEW h \in Rest(w) PROVE FrameOnce(h)'
    OBVIOUS
  <2>1. FrameOnce(h) /\ h.vols \cup h.made \subseteq Claim
    <3>1. h \in Frame
      BY <1>2, <1>6, TopAndRest
    <3>2. QED
      BY <1>6, <1>8, <3>1 DEF Frame
  <2>2. QED
    BY <1>2, <1>7, <1>9, <2>1, SameCluster DEF FrameOnce, Exists
<1>13. \A p, c : Copying(p, c) => Copying(p, c)'
  BY <1>1, <1>6 DEF Copying
<1>14. ASSUME NEW c \in Claim
       PROVE  /\ SnapshotOnce(c)'
              /\ AllFS(c)' => tracker'[c] # "optedout"
              /\ \A p \in Pod : PVBOnce(p, c)'
  BY <1>2, <1>9, <1>13, SameCluster DEF OnceInv, SnapshotOnce, PVBOnce, Exists
<1>15. QED
  BY <1>6, <1>11, <1>12, <1>14 DEF OnceInv

LEMMA ExecuteActionsOnce ==
    ASSUME IInv, PoolInv, Sole, OnceInv, DepthInv', ~failed, ~failed',
           UNCHANGED cluster, NEW w \in Worker, ExecuteActions(w)
    PROVE  OnceInv'
<1>1. PICK f \in Frame : f = Top(w) /\ f.at = "act"
  BY TopAndRest DEF ExecuteActions
<1>2. UNCHANGED <<objects, tracker>> /\ At(w, f.at)
  BY <1>1 DEF ExecuteActions, Executed, pvbVars
<1>3. \A h \in Rest(w) : h.item # f.item
  BY <1>1, <1>2, RestOthers
<1>4. Stacked = Rest(w) \cup {f}
  BY <1>1, <1>2, TopAndRest
<1>5. \A h \in Stacked : FrameOnce(h)
  BY DEF OnceInv
<1>6. f.at \in Beyond /\ f.item \in counted
  BY <1>1, <1>4, <1>5 DEF FrameOnce, Beyond, Steps
<1>7. CASE /\ Pop(w) /\ UNCHANGED snapshots /\ counted' = counted \ {f.item}
           /\ f.item \in cluster.omitted
  <2>1. Stacked' = Rest(w)
    BY <1>1, <1>2, <1>7, GoesFrames
  <2>2. \A h \in Stacked' : FrameOnce(h)'
    BY <1>2, <1>3, <1>4, <1>5, <1>7, <2>1, SameCluster DEF FrameOnce, Exists
  <2>3. \A p, c : Copying(p, c) => Copying(p, c)'
    BY <1>1, <1>4, <2>1 DEF Copying
  <2>4. ASSUME NEW c \in Claim
        PROVE  /\ SnapshotOnce(c)'
               /\ AllFS(c)' => tracker'[c] # "optedout"
               /\ \A p \in Pod : PVBOnce(p, c)'
    BY <1>2, <1>7, <2>3, SameCluster DEF OnceInv, SnapshotOnce, PVBOnce, Exists
  <2>5. QED
    BY <2>2, <2>4 DEF OnceInv
<1>8. CASE /\ Executed(w) /\ f.item \notin cluster.omitted
           /\ IF f.item \in Claim THEN TakeCSISnapshot(f.item)
              ELSE UNCHANGED snapshots
  <2>1. AdditionalItems(f.item) \subseteq Item
    BY ItemsAssumption, ClusterFacts
    DEF AdditionalItems, Mounted, IInv, Types, Item
  <2>2. PICK g \in Frame :
            g = [f EXCEPT !.at = "descend", !.todo = AdditionalItems(f.item)]
    BY <2>1 DEF Frame, Steps
  <2>3. /\ Goes(w, g) /\ g.item = f.item /\ g.made = f.made /\ g.vols = f.vols
        /\ g.at = "descend" /\ counted' = counted
    BY <1>1, <1>8, <2>2 DEF Executed, Frame
  <2>4. \A c : Untaken(g, c) => Untaken(f, c)
    BY <1>1, <2>3 DEF Untaken
  <2>5. CASE UNCHANGED snapshots
    BY <1>1, <1>2, <1>6, <1>8, <2>3, <2>4, <2>5, QuietGoesOnce
  <2>6. ASSUME NEW c \in Claim, c = f.item, ShouldPerformSnapshot(c),
               cluster.driver[c] = "csi",
               snapshots' = [snapshots EXCEPT ![c] = @ + 1]
        PROVE  OnceInv'
    <3>1. Untaken(f, c) /\ TakenAt(c) = c
      BY <1>1, <2>6 DEF Untaken, TakenAt
    <3>2. snapshots[c] = 0
      BY <1>4, <1>5, <3>1 DEF FrameOnce
    <3>3. snapshots'[c] = 1 /\ \A d \in Claim : d # c => snapshots'[d] = snapshots[d]
      BY <2>6, <3>2 DEF IInv, Types, DataTypes
    <3>4. Stacked' = Rest(w) \cup {g}
      BY <1>1, <1>2, <2>3, GoesFrames
    <3>5. \A h \in Stacked' : ~Untaken(h, c)
      BY <1>3, <2>3, <2>6, <3>1, <3>4 DEF Untaken
    <3>6. FrameOnce(f)
      BY <1>4, <1>5
    <3>7. g.at # "add"
      BY <2>3
    <3>8. FrameOnce(g)'
      BY <1>2, <1>6, <1>8, <2>3, <2>4, <3>3, <3>4, <3>5, <3>6, <3>7, SameCluster
      DEF FrameOnce, Exists
    <3>9. \A h \in Rest(w) : FrameOnce(h)'
      BY <1>2, <1>4, <1>5, <2>3, <3>3, <3>4, <3>5, SameCluster
      DEF FrameOnce, Exists
    <3>10. \A p, d : Copying(p, d) => Copying(p, d)'
      BY <1>1, <1>4, <3>4 DEF Copying
    <3>11. SnapshotOnce(c)'
      BY <1>6, <1>8, <2>3, <2>6, <3>1, <3>3, SameCluster DEF SnapshotOnce
    <3>12. ASSUME NEW d \in Claim
           PROVE  /\ SnapshotOnce(d)'
                  /\ AllFS(d)' => tracker'[d] # "optedout"
                  /\ \A p \in Pod : PVBOnce(p, d)'
      BY <1>2, <2>3, <3>3, <3>10, <3>11, SameCluster
      DEF OnceInv, SnapshotOnce, PVBOnce, Exists
    <3>13. QED
      BY <3>4, <3>8, <3>9, <3>12 DEF OnceInv
  <2>7. QED
    BY <1>8, <2>5, <2>6 DEF TakeCSISnapshot
<1>9. QED
  BY <1>1, <1>7, <1>8 DEF ExecuteActions, Fail

LEMMA TakePVSnapshotOnce ==
    ASSUME IInv, PoolInv, Sole, OnceInv, DepthInv', ~failed, ~failed',
           UNCHANGED cluster, NEW w \in Worker, TakePVSnapshot(w)
    PROVE  OnceInv'
<1>1. PICK f \in Frame : f = Top(w) /\ f.at = "data" /\ f.item \in Volume
  BY TopAndRest DEF TakePVSnapshot
<1>2. UNCHANGED <<objects, tracker, counted>> /\ At(w, f.at) /\ GoesTo(w, "write")
  BY <1>1 DEF TakePVSnapshot, pvbVars, Fail
<1>3. PICK g \in Frame : g = [f EXCEPT !.at = "write"]
  BY DEF Frame, Steps
<1>4. /\ Goes(w, g) /\ g.item = f.item /\ g.made = f.made /\ g.vols = f.vols
      /\ g.at = "write"
  BY <1>1, <1>2, <1>3 DEF GoesTo, Frame
<1>5. PICK c \in Claim : c = ClaimOf(f.item) /\ BoundTo[c] = f.item
  BY <1>1, BoundFacts
<1>6. /\ \A d : ~Untaken(g, d)
      /\ f.at \in Beyond \ {"act"} /\ g.at # "add"
  BY <1>1, <1>4 DEF Untaken, Beyond, Steps
<1>7. CASE UNCHANGED snapshots
  BY <1>1, <1>2, <1>4, <1>6, <1>7, QuietGoesOnce
<1>8. CASE /\ ShouldPerformSnapshot(c) /\ cluster.driver[c] # "csi"
           /\ snapshots' = [snapshots EXCEPT ![c] = @ + 1]
  <2>1. /\ Stacked = Rest(w) \cup {f} /\ Stacked' = Rest(w) \cup {g}
        /\ \A h \in Rest(w) : h.item # f.item
    BY <1>1, <1>2, <1>4, TopAndRest, GoesFrames, RestOthers
  <2>2. \A h \in Stacked : FrameOnce(h)
    BY DEF OnceInv
  <2>3. FrameOnce(f)
    BY <2>1, <2>2
  <2>4. TakenAt(c) = f.item /\ Untaken(f, c)
    BY <1>1, <1>5, <1>8 DEF Untaken, TakenAt
  <2>5. /\ f.item \in counted /\ f.item \notin cluster.omitted
        /\ snapshots[c] = 0
    BY <1>6, <2>3, <2>4 DEF FrameOnce
  <2>6. snapshots'[c] = 1 /\ \A d \in Claim : d # c => snapshots'[d] = snapshots[d]
    BY <1>8, <2>5 DEF IInv, Types, DataTypes
  <2>7. \A h \in Stacked' : ~Untaken(h, c)
    BY <1>6, <2>1, <2>4 DEF Untaken
  <2>8. FrameOnce(g)'
    BY <1>2, <1>4, <1>6, <2>3, <2>5, SameCluster DEF FrameOnce, Exists
  <2>9. \A h \in Rest(w) : FrameOnce(h)'
    BY <1>2, <2>1, <2>2, <2>6, <2>7, SameCluster DEF FrameOnce, Exists
  <2>10. \A p, d : Copying(p, d) => Copying(p, d)'
    BY <1>1, <2>1 DEF Copying
  <2>11. SnapshotOnce(c)'
    BY <1>2, <1>8, <2>4, <2>5, <2>6, SameCluster DEF SnapshotOnce
  <2>12. ASSUME NEW d \in Claim
         PROVE  /\ SnapshotOnce(d)'
                /\ AllFS(d)' => tracker'[d] # "optedout"
                /\ \A p \in Pod : PVBOnce(p, d)'
    BY <1>2, <2>6, <2>10, <2>11, SameCluster
    DEF OnceInv, SnapshotOnce, PVBOnce, Exists
  <2>13. QED
    BY <2>1, <2>8, <2>9, <2>12 DEF OnceInv
<1>9. QED
  BY <1>1, <1>5, <1>7, <1>8 DEF TakePVSnapshot, Fail

LEMMA BackupPodVolumeOnce ==
    ASSUME IInv, PoolInv, Sole, OnceInv, DepthInv', ~failed,
           UNCHANGED cluster, NEW w \in Worker, BackupPodVolume(w)
    PROVE  OnceInv'
<1>1. PICK f \in Frame, n \in Nat :
          f = Top(w) /\ f.at = "volumes" /\ FrameFits(w, n, f) /\ f.item \in Pod
  BY TopFits DEF BackupPodVolume, FrameFits
<1>2. PICK created \in BOOLEAN, c \in f.vols :
          /\ CreatePVB(<<f.item, c>>, created)
          /\ Goes(w, [f EXCEPT !.vols = f.vols \ {c},
                               !.made = IF created THEN f.made \cup {c} ELSE f.made,
                               !.err = f.err \/ ~created])
  BY <1>1 DEF BackupPodVolume
<1>3. /\ c \in Claim /\ At(w, "volumes")
      /\ UNCHANGED <<counted, tracker, snapshots>>
  BY <1>1 DEF BackupPodVolume, Frame, itemVars
<1>4. PICK g \in Frame :
          g = [f EXCEPT !.vols = f.vols \ {c},
                        !.made = IF created THEN f.made \cup {c} ELSE f.made,
                        !.err = f.err \/ ~created]
  BY <1>3 DEF Frame
<1>5. /\ g.item = f.item /\ g.at = "volumes" /\ g.vols = f.vols \ {c}
      /\ g.made = IF created THEN f.made \cup {c} ELSE f.made
  BY <1>1, <1>4 DEF Frame
<1>6. Stacked = Rest(w) \cup {f} /\ Stacked' = Rest(w) \cup {g}
  BY <1>1, <1>2, <1>3, <1>4, TopAndRest, GoesFrames
<1>7. \A h \in Rest(w) : h.item \notin Pod
  BY <1>1, <1>3, RestOthers
<1>8. FrameOnce(f) /\ \A h \in Stacked : FrameOnce(h)
  BY <1>6 DEF OnceInv
<1>9. \A p \in Pod, d \in Claim :
          Exists(<<p, d>>)' <=> Exists(<<p, d>>) \/ (created /\ p = f.item /\ d = c)
  <2>1. objects \in [PVB -> [phase : {"None", "New"} \cup Final, cancel : BOOLEAN]]
    BY DEF IInv, Types, PVBTypes
  <2>2. ASSUME NEW p \in Pod, NEW d \in Claim
        PROVE  <<p, d>> \in PVB
    BY DEF PVB
  <2>3. ASSUME NEW p \in Pod, NEW d \in Claim
        PROVE  <<p, d>> = <<f.item, c>> <=> p = f.item /\ d = c
    OBVIOUS
  <2>4. QED
    BY <1>2, <2>1, <2>2, <2>3 DEF CreatePVB, Exists
<1>10. \A p \in Pod : ~Exists(<<p, c>>)
  BY <1>1, <1>8 DEF FrameOnce
<1>11. /\ \A d \in f.vols \cup f.made :
              ShouldPerformFSBackup(f.item, d) /\ tracker[d] # "none"
       /\ \A d \in f.vols : \A p \in Pod : ~Exists(<<p, d>>)
  BY <1>1, <1>8 DEF FrameOnce
<1>12. FrameOnce(g)'
  <2>1. \A d \in Claim : Untaken(g, d)' => snapshots'[d] = 0
    BY <1>5 DEF Untaken
  <2>2. f.at = "volumes" /\ f.item \in counted /\ f.item \notin cluster.omitted
    BY <1>1, <1>8 DEF FrameOnce, Beyond, Steps
  <2>3. ASSUME NEW d \in g.vols, NEW p \in Pod
        PROVE  ~Exists(<<p, d>>)'
    <3>1. d \in f.vols /\ d # c /\ d \in Claim
      BY <1>5 DEF Frame
    <3>2. QED
      BY <1>9, <1>11, <3>1
  <2>4. ASSUME NEW d \in g.vols \cup g.made
        PROVE  ShouldPerformFSBackup(g.item, d)' /\ tracker'[d] # "none"
    <3>1. d \in f.vols \cup f.made
      BY <1>5
    <3>2. QED
      BY <1>3, <1>5, <1>11, <3>1, SameCluster
  <2>5. QED
    BY <1>3, <1>5, <2>1, <2>2, <2>3, <2>4 DEF FrameOnce
<1>13. \A h \in Rest(w) : FrameOnce(h)'
  BY <1>3, <1>6, <1>7, <1>8, SameCluster DEF FrameOnce
<1>14. \A p, d : Copying(p, d) => Copying(p, d)'
  BY <1>1, <1>5, <1>6 DEF Copying
<1>15. created => Copying(f.item, c)'
  BY <1>5, <1>6 DEF Copying
<1>16. ASSUME NEW d \in Claim, NEW p \in Pod
       PROVE  PVBOnce(p, d)'
  <2>1. PVBOnce(p, d)
    BY DEF OnceInv
  <2>2. CASE d = c
    BY <1>3, <1>9, <1>10, <1>11, <1>15, <2>2, SameCluster DEF PVBOnce
  <2>3. CASE d # c
    BY <1>3, <1>9, <1>14, <2>1, <2>3, SameCluster DEF PVBOnce
  <2>4. QED
    BY <2>2, <2>3
<1>17. ASSUME NEW d \in Claim
       PROVE  SnapshotOnce(d)' /\ (AllFS(d)' => tracker'[d] # "optedout")
  BY <1>3, SameCluster DEF OnceInv, SnapshotOnce
<1>18. QED
  BY <1>6, <1>12, <1>13, <1>16, <1>17 DEF OnceInv

LEMMA PodVolumesTakenOnce ==
    ASSUME IInv, OnceInv, DepthInv', ~failed,
           UNCHANGED cluster, NEW w \in Worker, PodVolumesTaken(w)
    PROVE  OnceInv'
<1>1. PICK f \in Frame, n \in Nat :
          f = Top(w) /\ f.at = "volumes" /\ FrameFits(w, n, f) /\ f.item \in Pod
  BY TopFits DEF PodVolumesTaken, FrameFits
<1>2. At(w, "volumes") /\ UNCHANGED <<objects, snapshots, counted>>
  BY <1>1 DEF PodVolumesTaken, pvbVars
<1>3. PICK g \in Frame : g = [f EXCEPT !.at = "write"]
  BY DEF Frame, Steps
<1>4. /\ Goes(w, g) /\ g.item = f.item /\ g.made = f.made /\ g.vols = f.vols
      /\ g.at = "write"
  BY <1>1, <1>3 DEF PodVolumesTaken, GoesTo, Frame
<1>5. Stacked = Rest(w) \cup {f} /\ Stacked' = Rest(w) \cup {g}
  BY <1>1, <1>2, <1>4, TopAndRest, GoesFrames
<1>6. FrameOnce(f) /\ \A h \in Stacked : FrameOnce(h)
  BY <1>5 DEF OnceInv
<1>7. ASSUME NEW c \in Claim
      PROVE  /\ tracker[c] # "none" => tracker'[c] # "none"
             /\ tracker[c] = "taken" => tracker'[c] = "taken"
             /\ tracker[c] # "optedout" => tracker'[c] # "optedout"
             /\ c \in f.made /\ tracker[c] \notin {"none", "optedout"} =>
                    tracker'[c] = "taken"
  <2>1. tracker[c] \in {"none", "tracked", "taken", "optedout"}
    BY DEF IInv, Types, DataTypes
  <2>2. tracker' = [d \in Claim |->
               IF d \in f.made /\ tracker[d] = "tracked" THEN "taken"
               ELSE tracker[d]]
    BY <1>1 DEF PodVolumesTaken
  <2>3. QED
    BY <2>1, <2>2
<1>8. \A h \in Stacked : h.vols \cup h.made \subseteq Claim
  <2>1. Stacked \subseteq Frame
    BY <1>2, TopAndRest
  <2>2. QED
    BY <2>1 DEF Frame
<1>9. \A h \in Rest(w) : FrameOnce(h)'
  BY <1>2, <1>5, <1>6, <1>7, <1>8, SameCluster DEF FrameOnce, Exists
<1>10. FrameOnce(g)'
  <2>1. \A d : ~Untaken(g, d)'
    BY <1>4 DEF Untaken
  <2>2. f.item \in counted /\ f.item \notin cluster.omitted
    BY <1>1, <1>6 DEF FrameOnce, Beyond, Steps
  <2>3. f.vols \cup f.made \subseteq Claim
    BY <1>5, <1>8
  <2>4. QED
    BY <1>1, <1>2, <1>4, <1>6, <1>7, <2>1, <2>2, <2>3, SameCluster
    DEF FrameOnce, Exists
<1>11. \A p, c : Copying(p, c) => Copying(p, c)' \/ (p = f.item /\ c \in f.made)
  BY <1>5 DEF Copying
<1>12. \A c \in f.made : tracker[c] # "none"
  BY <1>1, <1>6 DEF FrameOnce
<1>13. ASSUME NEW c \in Claim
       PROVE  /\ SnapshotOnce(c)'
              /\ AllFS(c)' => tracker'[c] # "optedout"
              /\ \A p \in Pod : PVBOnce(p, c)'
  BY <1>2, <1>7, <1>11, <1>12, SameCluster
  DEF OnceInv, SnapshotOnce, PVBOnce, Exists
<1>14. QED
  BY <1>5, <1>9, <1>10, <1>13 DEF OnceInv

LEMMA ItemStepOnce ==
    ASSUME IInv, PoolInv, Sole, Agreed, OnceInv, ~failed, ~failed',
           UNCHANGED cluster, NEW w \in Worker, ItemStep(w)
    PROVE  OnceInv'
<1>1. DepthInv'
  BY ItemStepDeepens DEF OnceInv
<1>2. QED
  BY <1>1, ConsiderOnce, AddItemOnce, ExecuteActionsOnce,
     BackUpAdditionalItemOnce, TakePVSnapshotOnce, BackupPodVolumesOnce,
     BackupPodVolumeOnce, PodVolumesTakenOnce, WriteItemOnce DEF ItemStep

LEMMA AsideOnce ==
    ASSUME IInv, OnceInv, Aside
    PROVE  OnceInv'
<1>1. DepthInv'
  <2> SUFFICES ASSUME NEW w \in Worker, NEW n \in DOMAIN workers'[w].frames
               PROVE  DeepensAt(workers'[w].frames, n)
    BY DEF DepthInv, DeepensAt
  <2>1. CASE workers'[w].frames = workers[w].frames
    <3>1. DeepensAt(workers[w].frames, n)
      BY <2>1 DEF OnceInv, DepthInv, Aside
    <3>2. QED
      BY <2>1, <3>1
  <2>2. ASSUME NEW i \in Item, workers'[w].frames = <<FrameOf(i)>>
        PROVE  DeepensAt(workers'[w].frames, n)
    <3>1. n = 1 /\ workers'[w].frames[1].todo = {}
      BY <2>2 DEF FrameOf
    <3>2. QED
      BY <3>1 DEF DeepensAt
  <2>3. QED
    BY <2>1, <2>2 DEF Aside
<1>2. \A f \in Stacked : FrameOnce(f) /\ f.vols \subseteq Claim
  <2>1. Stacked \subseteq Frame
    BY FrameTypes DEF Stacked, ToSet, IInv, Types
  <2>2. QED
    BY <2>1 DEF OnceInv, Aside, Frame
<1>3. \A p \in Pod, c \in Claim : Exists(<<p, c>>)' <=> Exists(<<p, c>>)
  BY DEF Aside, PVB
<1>4. \A f \in Stacked : FrameOnce(f)'
  BY <1>2, <1>3, SameCluster DEF FrameOnce, Aside
<1>5. \A i \in Item : FrameOnce(FrameOf(i))'
  BY DEF FrameOnce, FrameOf, Beyond, Untaken
<1>6. \A f \in Stacked' : FrameOnce(f)'
  BY <1>4, <1>5, AsideFrames
<1>7. \A p, c : Copying(p, c) => Copying(p, c)'
  BY AsideFrames DEF Copying
<1>8. ASSUME NEW c \in Claim
      PROVE  /\ SnapshotOnce(c)'
             /\ AllFS(c)' => tracker'[c] # "optedout"
             /\ \A p \in Pod : PVBOnce(p, c)'
  BY <1>3, <1>7, SameCluster DEF OnceInv, SnapshotOnce, PVBOnce, Aside
<1>9. QED
  BY <1>1, <1>6, <1>8 DEF OnceInv

OnceIfAgreed == Sole /\ Agreed => OnceInv

LEMMA OnceKeeps ==
    IInv /\ PoolInv /\ OnceIfAgreed /\ [Next]_vars => OnceIfAgreed'
<1> SUFFICES ASSUME IInv, PoolInv, OnceIfAgreed, [Next]_vars, ~failed',
                    Sole', Agreed'
             PROVE  OnceInv'
  BY DEF OnceIfAgreed, OnceInv
<1>1. ASSUME UNCHANGED cluster
      PROVE  Sole /\ Agreed
  <2>1. \A c : UsersOf(c)' = UsersOf(c)
    BY <1>1 DEF UsersOf, Mounted
  <2>2. QED
    BY <1>1, <2>1, SameCluster DEF Sole, Agreed
<1>2. CASE Aside
  BY <1>1, <1>2, AsideOnce DEF OnceIfAgreed, Aside
<1>3. CASE \E w \in Worker : ItemStep(w) /\ ~failed /\ UNCHANGED cluster
  BY <1>1, <1>3, ItemStepOnce DEF OnceIfAgreed
<1>4. QED
  BY <1>2, <1>3, NextAside

LEMMA InitOnce == Init => PoolInv /\ OnceIfAgreed
<1> SUFFICES ASSUME Init PROVE PoolInv /\ OnceInv
  BY DEF OnceIfAgreed
<1>1. Stacked = {} /\ DepthInv
  BY EmptyFacts DEF Init, ItemsInit, Idle, Stacked, DepthInv
<1>2. \A k \in PVB : ~Exists(k)
  BY DEF Init, BackupperInit, NoObject, Exists
<1>3. PoolInv
  BY DEF Init, ItemsInit, Idle, PoolInv, Busy
<1>4. QED
  BY <1>1, <1>2, <1>3 DEF Init, ItemsInit, OnceInv, SnapshotOnce, PVBOnce, PVB

LEMMA Once == Spec => [](IInv /\ AccountInv /\ OnceIfAgreed)
<1>1. IInv /\ PoolInv /\ OnceIfAgreed /\ [Next]_vars => PoolInv' /\ OnceIfAgreed'
  BY PoolKeeps, OnceKeeps
<1>2. QED
  BY <1>1, InitOnce, Invariant, Accounting, PTL DEF Spec

CopiedBy(c) == {p \in Pod : Exists(<<p, c>>)}

\* The copies of a claim, counted.
LEMMA CopiesFacts ==
    ASSUME IInv, NEW c \in Claim
    PROVE  /\ Copies(c) \in Nat
           /\ Copies(c) = 0 <=> snapshots[c] = 0 /\ CopiedBy(c) = {}
           /\ CopiedBy(c) = {} => Copies(c) = snapshots[c]
           /\ \A p : CopiedBy(c) = {p} => Copies(c) = snapshots[c] + 1
<1>1. CopiedBy(c) \in SUBSET Pod
  BY DEF CopiedBy
<1>2. IsFiniteSet(CopiedBy(c))
  BY <1>1, ItemsAssumption, FS_Subset, Zenon
<1>3. Cardinality(CopiedBy(c)) \in Nat /\ (Cardinality(CopiedBy(c)) = 0 <=> CopiedBy(c) = {})
  BY <1>2, FS_CardinalityType, FS_EmptySet
<1>4. \A p : CopiedBy(c) = {p} => Cardinality(CopiedBy(c)) = 1
  BY FS_Singleton
<1>5. Copies(c) = snapshots[c] + Cardinality(CopiedBy(c)) /\ snapshots[c] \in Nat
  BY DEF Copies, CopiedBy, Exists, IInv, Types, DataTypes
<1>6. QED
  <2> DEFINE k == Cardinality(CopiedBy(c))
             n == Copies(c)
             S == CopiedBy(c)
  <2>1. /\ n = snapshots[c] + k /\ snapshots[c] \in Nat /\ k \in Nat
        /\ (k = 0 <=> S = {}) /\ \A p : S = {p} => k = 1
    BY <1>3, <1>4, <1>5
  <2> HIDE DEF k, n, S
  <2>2. /\ n \in Nat
        /\ n = 0 <=> snapshots[c] = 0 /\ S = {}
        /\ S = {} => n = snapshots[c]
        /\ \A p : S = {p} => n = snapshots[c] + 1
    BY <2>1
  <2>3. QED
    BY <2>2 DEF k, n, S

Reported ==
    main.at = "done" /\ ~failed =>
        \A c \in Claim : archive[c] > 0 =>
            (BoundTo[c] \in skipped <=> Copies(c) = 0)

LEMMA AccountReported == IInv /\ AccountInv => Reported
<1> SUFFICES ASSUME IInv, AccountInv, main.at = "done", ~failed,
                    NEW c \in Claim, archive[c] > 0
             PROVE  BoundTo[c] \in skipped <=> Copies(c) = 0
  BY DEF Reported
<1>1. Stacked = {}
  BY LoopEnded, EmptyFacts DEF Stacked, IInv, ToComeInv
<1>2. Reportable(c)
  BY DEF AccountInv
<1>3. BoundTo[c] \in taken <=> snapshots[c] > 0 \/ CopiedBy(c) # {}
  BY <1>1 DEF AccountInv, Copying, CopiedBy
<1>4. BoundTo[c] \in skipped <=> BoundTo[c] \notin taken
  BY <1>2 DEF Reportable, IInv, Types, DataTypes
<1>5. snapshots[c] \in Nat
  BY DEF IInv, Types, DataTypes
<1>6. QED
  BY <1>3, <1>4, <1>5, CopiesFacts

(***************************************************************************)
(* When the backup is done without an error, the list of skipped volumes   *)
(* is the truth about the claims in the archive, with any number of        *)
(* workers and whatever the pods that share a claim ask for: a volume is   *)
(* on it if and only if neither a snapshot nor a PVB has copied its data.  *)
(***************************************************************************)
THEOREM SkippedIsUncopied == Spec => []Reported
  BY Accounting, AccountReported, PTL

LEMMA OnceAccounted ==
    IInv /\ AccountInv /\ OnceIfAgreed => (Sole /\ Agreed => DataAccountedFor)
<1> SUFFICES ASSUME IInv, AccountInv, OnceInv, main.at = "done", ~failed,
                    NEW c \in Claim, archive[c] > 0
             PROVE  \/ Copies(c) = 1 /\ BoundTo[c] \notin skipped
                    \/ Copies(c) = 0 /\ BoundTo[c] \in skipped
  BY DEF OnceIfAgreed, DataAccountedFor
<1>1. BoundTo[c] \in skipped <=> Copies(c) = 0
  BY AccountReported DEF Reported
<1>2. SnapshotOnce(c) /\ \A p \in Pod : PVBOnce(p, c)
  BY DEF OnceInv
<1>3. snapshots[c] \in Nat
  BY DEF IInv, Types, DataTypes
<1>4. CASE CopiedBy(c) = {}
  BY <1>1, <1>2, <1>3, <1>4, CopiesFacts DEF SnapshotOnce
<1>5. CASE CopiedBy(c) # {}
  <2>1. PICK p \in Pod : Exists(<<p, c>>) /\ CopiedBy(c) = {p}
    BY <1>2, <1>5 DEF CopiedBy, PVBOnce
  <2>2. c \in Mounted(p)
    BY <2>1 DEF IInv, PVBInv, Exists, PVB
  <2>3. ~ShouldPerformSnapshot(c)
    BY <1>2, <2>1, <2>2 DEF PVBOnce, ShouldPerformSnapshot,
       ShouldPerformFSBackup, UsersOf
  <2>4. snapshots[c] = 0
    BY <1>2, <1>3, <2>3 DEF SnapshotOnce
  <2>5. Copies(c) = 1
    BY <2>1, <2>4, CopiesFacts
  <2>6. QED
    BY <1>1, <2>5
<1>6. QED
  BY <1>4, <1>5

(***************************************************************************)
(* Where one worker backs up the items, as the server's default has it,    *)
(* and of the pods that share a claim at most one or all have it copied    *)
(* from the file system, each claim in the archive of a backup without an  *)
(* error has been copied once and is not listed as skipped, or it has not  *)
(* been copied and is listed.                                              *)
(***************************************************************************)
THEOREM EachCopiedOnce == Spec => [](Sole /\ Agreed => DataAccountedFor)
  BY Once, OnceAccounted, PTL
=============================================================================
