--------------------------- MODULE FileDataProofs ---------------------------
(***************************************************************************)
(* The invariants of open files and of their contents, and that they        *)
(* implement SharedFiles: for any number of tasks, descriptors and files.   *)
(* Two inductive invariants that do not depend on each other: BlockInv for  *)
(* the heap and the inodes, HolderInv for the resources and the tables.     *)
(***************************************************************************)
EXTENDS FileData, SequenceTheorems, WellFoundedInduction, FiniteSetTheorems, TLAPS

OpenResource ==
    [node : Files, offset : 0 .. SizeModulus - 1, flags : Flags, ref_count : Nat]

Rows == [Slots -> Resources \cup {NULL}]

\* The entries of all tables that hold r, and how many of one table do.
Holders(tables, r) == {p \in Tasks \X Slots : tables[p[1]][p[2]] = r}
Uses(row, r) == Cardinality({s \in Slots : row[s] = r})

\* The blocks and the inodes.
InodeType == inode \in [Files -> [data : Addresses \cup {NULL}, data_size : 0 .. SizeModulus - 1]]
HeapType ==
    /\ heap \in [Addresses -> Seq(Int)]
    /\ \A a \in Addresses : heap[a] = Free \/ heap[a] \in Seq(Bytes)
OwnBlock(f) ==
    /\ (inode[f].data = NULL) = (inode[f].data_size = 0)
    /\ inode[f].data # NULL =>
         /\ heap[inode[f].data] # Free
         /\ Len(heap[inode[f].data]) = inode[f].data_size
OwnersDiffer == \A f, g \in Files : f # g /\ inode[f].data = inode[g].data => inode[f].data = NULL
NoLostBlock == \A a \in Addresses : heap[a] # Free => \E f \in Files : inode[f].data = a

BlockInv ==
    /\ InodeType
    /\ HeapType
    /\ \A f \in Files : OwnBlock(f)
    /\ OwnersDiffer
    /\ NoLostBlock

\* The resources and the tables: the count of a resource is the number of entries that
\* hold it, in the tables of all tasks, and it is there as long as there are any.
Counted(r) ==
    IF resource[r] = NoResource THEN Cardinality(Holders(resources, r)) = 0
    ELSE resource[r].ref_count = Cardinality(Holders(resources, r)) /\ resource[r].ref_count > 0

HolderInv ==
    /\ resource \in [Resources -> OpenResource \cup {NoResource}]
    /\ resources \in [Tasks -> Rows]
    /\ alive \subseteq Tasks /\ task_init \in alive /\ undefined \in BOOLEAN
    /\ \A r \in Resources : Counted(r)
    /\ \A t \in Tasks \ alive : \A s \in Slots : resources[t][s] = NULL

IInv == BlockInv /\ HolderInv

-----------------------------------------------------------------------------
(***************************************************************************)
(* Sets.                                                                    *)
(***************************************************************************)
LEMMA NoResourceIsClosed ==
    /\ \A x \in OpenResource : x # NoResource
    /\ NULL \notin Resources
<1>1. ASSUME NEW x \in OpenResource
      PROVE  x # NoResource
  <2>1. DOMAIN x = {"node", "offset", "flags", "ref_count"}
    BY DEF OpenResource
  <2>2. DOMAIN NoResource = {"node"}
    BY DEF NoResource
  <2>3. {"node"} # {"node", "offset", "flags", "ref_count"}
    OBVIOUS
  <2> QED
    BY <2>1, <2>2, <2>3
<1> QED
  BY <1>1, BoundsAssumption DEF NULL

\* A set of numbers that is not empty has a least member.
LEMMA LeastNumber ==
    ASSUME NEW T, T \subseteq Nat, T # {}
    PROVE  \E x \in T : \A y \in T : x <= y
<1> DEFINE R == OpToRel(<, Nat)
<1>1. \E x \in T : \A y \in T : ~ (<<y, x>> \in R)
  BY NatLessThanWellFounded, WFMin, Zenon
<1>2. \A x, y \in Nat : y < x => <<y, x>> \in R
  BY Zenon DEF OpToRel
<1> HIDE DEF R
<1>3. PICK x \in T : \A y \in T : ~ (<<y, x>> \in R)
  BY <1>1
<1>4. ASSUME NEW y \in T
      PROVE  x <= y
  <2>1. x \in Nat /\ y \in Nat
    OBVIOUS
  <2>2. ~(y < x)
    BY <1>2, <1>3, <2>1, Zenon
  <2> QED
    BY <2>1, <2>2
<1> QED
  BY <1>4

LEMMA MinOfNumbers ==
    ASSUME NEW T, T \subseteq Nat, T # {}
    PROVE  /\ Min(T) \in T
           /\ \A y \in T : Min(T) <= y
BY LeastNumber DEF Min

LEMMA MinOfTwo ==
    ASSUME NEW a \in Nat, NEW b \in Nat
    PROVE  Min({a, b}) = IF a <= b THEN a ELSE b
<1>1. Min({a, b}) \in {a, b} /\ Min({a, b}) <= a /\ Min({a, b}) <= b
  BY MinOfNumbers
<1> QED
  BY <1>1

LEMMA HoldersAreFinite ==
    ASSUME NEW tables, NEW r
    PROVE  /\ IsFiniteSet(Holders(tables, r))
           /\ Cardinality(Holders(tables, r)) \in Nat
           /\ Cardinality(Holders(tables, r)) \in 0 .. Cardinality(Tasks) * Cardinality(Slots)
<1>1. IsFiniteSet(Tasks \X Slots) /\ Cardinality(Tasks \X Slots) = Cardinality(Tasks) * Cardinality(Slots)
  BY FiniteAssumption, FS_Product
<1>2. Holders(tables, r) \in SUBSET (Tasks \X Slots)
  BY DEF Holders
<1>3. /\ IsFiniteSet(Holders(tables, r))
      /\ Cardinality(Holders(tables, r)) <= Cardinality(Tasks \X Slots)
  BY <1>1, <1>2, FS_Subset
<1>4. Cardinality(Holders(tables, r)) \in Nat /\ Cardinality(Tasks \X Slots) \in Nat
  BY <1>1, <1>3, FS_CardinalityType
<1> QED
  BY <1>1, <1>3, <1>4

\* How often a table holds a resource.
LEMMA UsesIsNumber ==
    ASSUME NEW row, NEW r
    PROVE  /\ IsFiniteSet({s \in Slots : row[s] = r})
           /\ Uses(row, r) \in Nat
           /\ Uses(row, r) = 0 <=> \A s \in Slots : row[s] # r
<1>1. IsFiniteSet({s \in Slots : row[s] = r})
  BY FiniteAssumption, FS_Subset
<1>2. Uses(row, r) \in Nat
  BY <1>1, FS_CardinalityType DEF Uses
<1>3. Uses(row, r) = 0 <=> {s \in Slots : row[s] = r} = {}
  BY <1>1, FS_EmptySet DEF Uses
<1> QED
  BY <1>1, <1>2, <1>3

\* One table is replaced by another: every count changes by the difference.
LEMMA RowReplaced ==
    ASSUME NEW tables \in [Tasks -> Rows], NEW t \in Tasks, NEW row \in Rows, NEW r
    PROVE  Cardinality(Holders([tables EXCEPT ![t] = row], r))
             = Cardinality(Holders(tables, r)) - Uses(tables[t], r) + Uses(row, r)
<1> DEFINE Rest == {p \in Tasks \X Slots : p[1] # t /\ tables[p[1]][p[2]] = r}
           Of(x) == {t} \X {s \in Slots : x[s] = r}
           tables2 == [tables EXCEPT ![t] = row]
<1>1. IsFiniteSet(Rest) /\ Cardinality(Rest) \in Nat
  <2>1. Rest \in SUBSET Holders(tables, r)
    BY DEF Holders
  <2> HIDE DEF Rest
  <2> QED
    BY <2>1, HoldersAreFinite, FS_Subset, FS_CardinalityType
<1>2. ASSUME NEW x
      PROVE  /\ IsFiniteSet(Of(x)) /\ Cardinality(Of(x)) = Uses(x, r)
             /\ Cardinality(Rest \cup Of(x)) = Cardinality(Rest) + Uses(x, r)
  <2>1. IsFiniteSet({t}) /\ Cardinality({t}) = 1
    BY FS_Singleton
  <2>2. IsFiniteSet({s \in Slots : x[s] = r}) /\ Uses(x, r) \in Nat
    BY UsesIsNumber
  <2>3. IsFiniteSet(Of(x)) /\ Cardinality(Of(x)) = 1 * Cardinality({s \in Slots : x[s] = r})
    BY <2>1, <2>2, FS_Product
  <2>4. Cardinality(Of(x)) = Uses(x, r)
    BY <2>2, <2>3 DEF Uses
  <2>5. Rest \cap Of(x) = {}
    OBVIOUS
  <2> HIDE DEF Rest, Of
  <2>6. Cardinality(Rest \cup Of(x)) = Cardinality(Rest) + Cardinality(Of(x)) - Cardinality({})
    BY <1>1, <2>3, <2>5, FS_Union
  <2> QED
    BY <1>1, <2>2, <2>3, <2>4, <2>6, FS_EmptySet
<1>3. Holders(tables, r) = Rest \cup Of(tables[t])
  BY DEF Holders
<1>4. Holders(tables2, r) = Rest \cup Of(row)
  <2>1. tables2[t] = row /\ \A u \in Tasks : u # t => tables2[u] = tables[u]
    OBVIOUS
  <2> HIDE DEF tables2
  <2> QED
    BY <2>1 DEF Holders
<1>5. /\ Cardinality(Holders(tables, r)) = Cardinality(Rest) + Uses(tables[t], r)
      /\ Cardinality(Holders(tables2, r)) = Cardinality(Rest) + Uses(row, r)
  BY <1>2, <1>3, <1>4
<1>6. Uses(tables[t], r) \in Nat /\ Uses(row, r) \in Nat
  BY UsesIsNumber
<1> HIDE DEF Rest, tables2
<1>7. Cardinality(Holders(tables2, r)) = Cardinality(Holders(tables, r)) - Uses(tables[t], r) + Uses(row, r)
  BY <1>1, <1>5, <1>6
<1> QED
  BY <1>7 DEF tables2

\* The entries of one table are among all of them.
LEMMA UsesAreHolders ==
    ASSUME NEW tables \in [Tasks -> Rows], NEW t \in Tasks, NEW r
    PROVE  Uses(tables[t], r) <= Cardinality(Holders(tables, r))
<1> DEFINE Of == {t} \X {s \in Slots : tables[t][s] = r}
<1>1. IsFiniteSet({t}) /\ Cardinality({t}) = 1
  BY FS_Singleton
<1>2. IsFiniteSet({s \in Slots : tables[t][s] = r}) /\ Uses(tables[t], r) \in Nat
  BY UsesIsNumber
<1>3. Cardinality(Of) = 1 * Cardinality({s \in Slots : tables[t][s] = r})
  BY <1>1, <1>2, FS_Product
<1>4. Of \in SUBSET Holders(tables, r)
  BY DEF Holders
<1> HIDE DEF Of
<1>5. Cardinality(Of) <= Cardinality(Holders(tables, r))
  BY <1>4, HoldersAreFinite, FS_Subset
<1> QED
  BY <1>2, <1>3, <1>5 DEF Uses

\* With a free entry in a table there is a resource that nobody holds: kernel_heap_malloc
\* of a resource_t does not fail before the tables are full.
LEMMA ResourceIsLeft ==
    ASSUME NEW tables \in [Tasks -> Rows], NEW t \in Tasks, NEW s \in Slots, tables[t][s] = NULL
    PROVE  \E r \in Resources : Cardinality(Holders(tables, r)) = 0
<1> SUFFICES ASSUME \A r \in Resources : Cardinality(Holders(tables, r)) # 0
             PROVE  FALSE
  OBVIOUS
<1> DEFINE P == Tasks \X Slots
           Q == P \ {<<t, s>>}
           f == [r \in Resources |-> CHOOSE p \in P : p \in Holders(tables, r)]
<1>1. IsFiniteSet(P) /\ Cardinality(P) = Cardinality(Tasks) * Cardinality(Slots)
  BY FiniteAssumption, FS_Product
<1>2. <<t, s>> \in P
  OBVIOUS
<1>3. ASSUME NEW r \in Resources
      PROVE  f[r] \in Q /\ f[r] \in Holders(tables, r)
  <2>1. Holders(tables, r) # {}
    BY FS_EmptySet
  <2>2. \E p \in P : p \in Holders(tables, r)
    BY <2>1 DEF Holders
  <2>3. f[r] \in P /\ f[r] \in Holders(tables, r)
    BY <2>2
  <2>4. <<t, s>> \notin Holders(tables, r)
    BY NoResourceIsClosed DEF Holders
  <2> QED
    BY <2>3, <2>4
<1>4. \A r1, r2 \in Resources : f[r1] = f[r2] => r1 = r2
  <2> HIDE DEF f
  <2> QED
    BY <1>3 DEF Holders
<1>5. f \in Injection(Resources, Q)
  <2>1. f \in [Resources -> Q]
    <3>1. f = [r \in Resources |-> f[r]]
      OBVIOUS
    <3> HIDE DEF f
    <3> QED
      BY <1>3, <3>1
  <2> HIDE DEF f
  <2> QED
    BY <1>4, <2>1 DEF Injection, IsInjective
<1> HIDE DEF f, P
<1>6. IsFiniteSet(Q) /\ Cardinality(Q) = Cardinality(P) - 1 /\ Cardinality(P) \in Nat
  BY <1>1, <1>2, FS_RemoveElement, FS_CardinalityType
<1> HIDE DEF Q
<1>7. IsFiniteSet(Resources) /\ Cardinality(Resources) <= Cardinality(Q)
  BY <1>5, <1>6, FS_Injection
<1>8. Cardinality(Resources) \in Nat
  BY <1>7, FS_CardinalityType
<1> QED
  BY <1>1, <1>6, <1>7, <1>8, BoundsAssumption

-----------------------------------------------------------------------------
(***************************************************************************)
(* The resources and the tables.                                            *)
(***************************************************************************)
\* What the invariant says of the entry that a call is made with.
LEMMA HeldResource ==
    ASSUME HolderInv, NEW t \in Tasks, NEW s \in Slots, resources[t][s] # NULL
    PROVE  /\ resources[t][s] \in Resources
           /\ resource[resources[t][s]] \in OpenResource
<1> DEFINE r == resources[t][s]
<1>1. resources[t] \in Rows /\ r \in Resources
  BY DEF HolderInv, Rows
<1>2. <<t, s>> \in Holders(resources, r)
  BY DEF Holders
<1> HIDE DEF r
<1>3. Cardinality(Holders(resources, r)) # 0
  BY <1>2, HoldersAreFinite, FS_EmptySet
<1>4. resource[r] # NoResource
  BY <1>1, <1>3 DEF HolderInv, Counted
<1> QED
  BY <1>1, <1>4 DEF HolderInv, r

\* A call that moves the offset or sets the flags of a resource leaves the counts alone.
LEMMA CallsKeepHolders ==
    ASSUME HolderInv, NEW r \in Resources, NEW x \in OpenResource,
           resource[r] \in OpenResource, x.ref_count = resource[r].ref_count,
           resource' = [resource EXCEPT ![r] = x], UNCHANGED <<resources, alive>>,
           undefined' \in BOOLEAN
    PROVE  HolderInv'
<1>1. /\ resource \in [Resources -> OpenResource \cup {NoResource}]
      /\ x # NoResource /\ resource[r] # NoResource
  BY NoResourceIsClosed DEF HolderInv
<1>2. /\ resource' \in [Resources -> OpenResource \cup {NoResource}] /\ resource'[r] = x
      /\ \A q \in Resources : q # r => resource'[q] = resource[q]
  BY <1>1
<1>3. \A q \in Resources : Counted(q)'
  BY <1>1, <1>2 DEF HolderInv, Counted
<1> QED
  BY <1>2, <1>3 DEF HolderInv

\* What a removal leaves of an open resource is its node, offset and flags, or nothing.
SameOrClosed ==
    \A r \in Resources : resource'[r] # NoResource =>
        /\ resource[r] # NoResource
        /\ resource'[r].node = resource[r].node
        /\ resource'[r].offset = resource[r].offset
        /\ resource'[r].flags = resource[r].flags

\* Entries of one table are removed: row is what is left of it when gone is removed.
LEMMA RemovalKeepsHolders ==
    ASSUME HolderInv, NEW t \in Tasks, NEW gone \in Rows, NEW row \in Rows,
           \A r \in Resources : Uses(row, r) = Uses(resources[t], r) - Uses(gone, r),
           resource' = resource_remove(gone), resources' = [resources EXCEPT ![t] = row],
           alive' \subseteq Tasks, task_init \in alive',
           \A u \in Tasks \ alive' : u \notin alive \/ (u = t /\ \A s \in Slots : row[s] = NULL),
           t \in alive, undefined' \in BOOLEAN
    PROVE  HolderInv' /\ SameOrClosed
<1>1. /\ resource \in [Resources -> OpenResource \cup {NoResource}]
      /\ resources \in [Tasks -> Rows]
  BY DEF HolderInv
<1>2. resource' = [r \in Resources |->
          IF Uses(gone, r) = 0 THEN resource[r]
          ELSE IF resource[r].ref_count = Uses(gone, r) THEN NoResource
          ELSE [resource[r] EXCEPT !.ref_count = @ - Uses(gone, r)]]
  BY DEF resource_remove, Uses
<1>3. ASSUME NEW r \in Resources
      PROVE  /\ resource'[r] \in OpenResource \cup {NoResource} /\ Counted(r)'
             /\ resource'[r] # NoResource =>
                   /\ resource[r] # NoResource
                   /\ resource'[r].node = resource[r].node
                   /\ resource'[r].offset = resource[r].offset
                   /\ resource'[r].flags = resource[r].flags
  <2> DEFINE before == Cardinality(Holders(resources, r))
             after  == Cardinality(Holders(resources', r))
             n      == Uses(gone, r)
  <2>1. after = before - n
    <3>1. after = before - Uses(resources[t], r) + Uses(row, r)
      BY <1>1, RowReplaced
    <3>2. Uses(resources[t], r) \in Nat /\ Uses(row, r) \in Nat /\ n \in Nat /\ before \in Nat
      BY UsesIsNumber, HoldersAreFinite
    <3>3. Uses(row, r) = Uses(resources[t], r) - n
      OBVIOUS
    <3> HIDE DEF before, after, n
    <3> QED
      BY <3>1, <3>2, <3>3
  <2>2. before \in Nat /\ after \in Nat /\ n \in Nat
    BY UsesIsNumber, HoldersAreFinite
  <2>3. IF resource[r] = NoResource THEN before = 0
        ELSE resource[r].ref_count = before /\ before > 0
    BY DEF HolderInv, Counted
  <2>4. resource'[r] = IF n = 0 THEN resource[r]
                       ELSE IF resource[r].ref_count = n THEN NoResource
                       ELSE [resource[r] EXCEPT !.ref_count = @ - n]
    BY <1>2
  <2>5. Counted(r)' <=> IF resource'[r] = NoResource THEN after = 0
                        ELSE resource'[r].ref_count = after /\ resource'[r].ref_count > 0
    BY DEF Counted
  <2> HIDE DEF before, after, n
  <2>6. resource[r] \in OpenResource \/ resource[r] = NoResource
    BY <1>1
  <2>7. CASE n = 0
    BY <2>1, <2>2, <2>3, <2>4, <2>5, <2>6, <2>7
  <2>8. CASE n # 0
    <3>1. resource[r] # NoResource /\ resource[r].ref_count = before /\ n <= before
      BY <2>1, <2>2, <2>3, <2>8
    <3>2. resource[r] \in OpenResource
      BY <2>6, <3>1
    <3>3. CASE before = n
      BY <2>1, <2>2, <2>4, <2>5, <2>8, <3>1, <3>3
    <3>4. CASE before # n
      <4> DEFINE y == [resource[r] EXCEPT !.ref_count = @ - n]
      <4>1. resource'[r] = y
        BY <2>4, <2>8, <3>1, <3>4
      <4>2. /\ y \in OpenResource /\ y.ref_count = before - n
            /\ y.node = resource[r].node /\ y.offset = resource[r].offset
            /\ y.flags = resource[r].flags
        BY <2>2, <3>1, <3>2 DEF OpenResource
      <4> HIDE DEF y
      <4>3. y # NoResource /\ before - n > 0
        BY <2>2, <3>1, <3>4, <4>2, NoResourceIsClosed
      <4> QED
        BY <2>1, <2>5, <3>1, <4>1, <4>2, <4>3
    <3> QED
      BY <3>3, <3>4
  <2> QED
    BY <2>7, <2>8
<1>4. resource' \in [Resources -> OpenResource \cup {NoResource}]
  <2>1. resource' = [r \in Resources |-> resource'[r]]
    BY <1>2
  <2> QED
    BY <1>3, <2>1
<1>5. resources' \in [Tasks -> Rows]
  BY <1>1
<1>6. \A u \in Tasks \ alive' : \A s \in Slots : resources'[u][s] = NULL
  BY <1>1 DEF HolderInv
<1>7. HolderInv'
  BY <1>3, <1>4, <1>5, <1>6 DEF HolderInv
<1> QED
  BY <1>3, <1>7 DEF SameOrClosed

\* syscall_open takes an entry and a resource that nobody holds.
LEMMA OpenKeepsHolders ==
    ASSUME HolderInv, NEW t \in Tasks, t \in alive, NEW file \in Files, NEW flags \in Flags,
           NEW s \in Slots, resources[t][s] = NULL,
           NEW new \in Resources, resource[new] = NoResource,
           resource' = [resource EXCEPT ![new] =
                          [node |-> file, offset |-> 0, flags |-> flags, ref_count |-> 1]],
           resources' = [resources EXCEPT ![t][s] = new], UNCHANGED <<alive, undefined>>
    PROVE  HolderInv'
<1> DEFINE row == [resources[t] EXCEPT ![s] = new]
           x == [node |-> file, offset |-> 0, flags |-> flags, ref_count |-> 1]
<1>1. /\ resource \in [Resources -> OpenResource \cup {NoResource}]
      /\ resources \in [Tasks -> Rows] /\ resources[t] \in Rows
      /\ \A r \in Resources : Counted(r)
  BY DEF HolderInv
<1>2. x \in OpenResource /\ x # NoResource /\ x.ref_count = 1
  <2>1. x \in OpenResource
    BY BoundsAssumption DEF OpenResource
  <2> QED
    BY <2>1, NoResourceIsClosed
<1>3. row \in Rows /\ resources' = [resources EXCEPT ![t] = row]
  BY <1>1 DEF Rows
<1>4. ASSUME NEW r \in Resources
      PROVE  Uses(row, r) = IF r = new THEN Uses(resources[t], r) + 1 ELSE Uses(resources[t], r)
  <2> DEFINE before == {i \in Slots : resources[t][i] = r}
             after  == {i \in Slots : row[i] = r}
  <2>1. resources[t] \in [Slots -> Resources \cup {NULL}] /\ row[s] = new
        /\ \A i \in Slots : i # s => row[i] = resources[t][i]
    BY <1>1 DEF Rows
  <2>2. r # NULL /\ s \notin before
    BY NoResourceIsClosed
  <2>3. CASE r = new
    <3>1. after = before \cup {s}
      BY <2>1, <2>3
    <3>2. Cardinality(before \cup {s}) = Cardinality(before) + 1
      <4>1. IsFiniteSet(before)
        BY FiniteAssumption, FS_Subset
      <4> HIDE DEF before
      <4> QED
        BY <2>2, <4>1, FS_AddElement
    <3> QED
      BY <2>3, <3>1, <3>2 DEF Uses
  <2>4. CASE r # new
    <3>1. after = before
      BY <2>1, <2>2, <2>4
    <3> QED
      BY <2>4, <3>1 DEF Uses
  <2> QED
    BY <2>3, <2>4
<1>5. resource' \in [Resources -> OpenResource \cup {NoResource}] /\ resource'[new] = x
      /\ \A r \in Resources : r # new => resource'[r] = resource[r]
  BY <1>1, <1>2
<1>6. resources' \in [Tasks -> Rows] /\ \A u \in Tasks : u # t => resources'[u] = resources[u]
  <2> HIDE DEF row
  <2> QED
    BY <1>1, <1>3
<1> HIDE DEF row, x
<1>7. ASSUME NEW r \in Resources
      PROVE  Counted(r)'
  <2> DEFINE before == Cardinality(Holders(resources, r))
             after  == Cardinality(Holders(resources', r))
  <2>1. after = before - Uses(resources[t], r) + Uses(row, r)
    <3>1. resources \in [Tasks -> Rows] /\ row \in Rows
      BY <1>1, <1>3
    <3>2. Cardinality(Holders([resources EXCEPT ![t] = row], r))
            = before - Uses(resources[t], r) + Uses(row, r)
      BY <3>1, RowReplaced
    <3> QED
      BY <1>3, <3>2
  <2>2. before \in Nat /\ Uses(resources[t], r) \in Nat
    BY UsesIsNumber, HoldersAreFinite
  <2>3. /\ Counted(r) <=> IF resource[r] = NoResource THEN before = 0
                          ELSE resource[r].ref_count = before /\ resource[r].ref_count > 0
        /\ Counted(r)' <=> IF resource'[r] = NoResource THEN after = 0
                           ELSE resource'[r].ref_count = after /\ resource'[r].ref_count > 0
    BY DEF Counted
  <2> HIDE DEF before, after
  <2>4. CASE r = new
    <3>1. after = before + 1
      BY <1>4, <2>1, <2>2, <2>4
    <3>2. before = 0
      BY <1>1, <2>3, <2>4
    <3> QED
      BY <1>2, <1>5, <2>3, <2>4, <3>1, <3>2
  <2>5. CASE r # new
    <3>1. after = before
      BY <1>4, <2>1, <2>2, <2>5
    <3> QED
      BY <1>1, <1>5, <2>3, <2>5, <3>1
  <2> QED
    BY <2>4, <2>5
<1> QED
  BY <1>5, <1>6, <1>7 DEF HolderInv

\* fork: the child has the entries of the parent, and every resource counts them.
LEMMA ForkKeepsHolders ==
    ASSUME HolderInv, NEW t \in Tasks, NEW child \in Tasks, task_manager_task_copy(t, child)
    PROVE  /\ HolderInv'
           /\ \A r \in Resources :
                /\ (resource'[r] = NoResource) <=> (resource[r] = NoResource)
                /\ resource[r] # NoResource =>
                     /\ resource'[r].node = resource[r].node
                     /\ resource'[r].offset = resource[r].offset
                     /\ resource'[r].flags = resource[r].flags
<1>1. /\ resource \in [Resources -> OpenResource \cup {NoResource}]
      /\ resources \in [Tasks -> Rows] /\ resources[t] \in Rows
      /\ \A r \in Resources : Counted(r)
      /\ \A u \in Tasks \ alive : \A s \in Slots : resources[u][s] = NULL
      /\ alive \subseteq Tasks /\ task_init \in alive
  BY DEF HolderInv
<1>2. /\ child \notin alive /\ resources' = [resources EXCEPT ![child] = resources[t]]
      /\ resource' = [r \in Resources |->
                        IF resource[r] = NoResource THEN NoResource
                        ELSE [resource[r] EXCEPT !.ref_count = @ + Uses(resources[t], r)]]
      /\ alive' = alive \cup {child} /\ undefined' = undefined
  BY DEF task_manager_task_copy, resource_share, Uses
<1>3. ASSUME NEW r \in Resources
      PROVE  /\ Counted(r)' /\ resource'[r] \in OpenResource \cup {NoResource}
             /\ (resource'[r] = NoResource) <=> (resource[r] = NoResource)
             /\ resource[r] # NoResource =>
                  /\ resource'[r].node = resource[r].node
                  /\ resource'[r].offset = resource[r].offset
                  /\ resource'[r].flags = resource[r].flags
  <2> DEFINE before == Cardinality(Holders(resources, r))
             after  == Cardinality(Holders(resources', r))
             n      == Uses(resources[t], r)
  <2>1. Uses(resources[child], r) = 0
    BY <1>1, <1>2, UsesIsNumber, NoResourceIsClosed
  <2>2. after = before - Uses(resources[child], r) + n
    <3>1. resources \in [Tasks -> Rows] /\ resources[t] \in Rows
      BY <1>1
    <3>2. Cardinality(Holders([resources EXCEPT ![child] = resources[t]], r))
            = before - Uses(resources[child], r) + n
      BY <3>1, RowReplaced
    <3> QED
      BY <1>2, <3>2
  <2>3. before \in Nat /\ n \in Nat
    BY UsesIsNumber, HoldersAreFinite
  <2>4. n <= before
    BY <1>1, UsesAreHolders
  <2>5. /\ Counted(r) <=> IF resource[r] = NoResource THEN before = 0
                          ELSE resource[r].ref_count = before /\ resource[r].ref_count > 0
        /\ Counted(r)' <=> IF resource'[r] = NoResource THEN after = 0
                           ELSE resource'[r].ref_count = after /\ resource'[r].ref_count > 0
    BY DEF Counted
  <2>6. resource'[r] = IF resource[r] = NoResource THEN NoResource
                       ELSE [resource[r] EXCEPT !.ref_count = @ + n]
    BY <1>2
  <2> HIDE DEF before, after, n
  <2>7. after = before + n
    BY <2>1, <2>2, <2>3
  <2>8. CASE resource[r] = NoResource
    BY <1>1, <2>3, <2>4, <2>5, <2>6, <2>7, <2>8
  <2>9. CASE resource[r] # NoResource
    <3> DEFINE y == [resource[r] EXCEPT !.ref_count = @ + n]
    <3>1. resource'[r] = y
      BY <2>6, <2>9
    <3>2. resource[r] \in OpenResource /\ resource[r].ref_count = before /\ before > 0
      BY <1>1, <2>5, <2>9
    <3>3. /\ y \in OpenResource /\ y.ref_count = before + n
          /\ y.node = resource[r].node /\ y.offset = resource[r].offset
          /\ y.flags = resource[r].flags
      BY <2>3, <3>2 DEF OpenResource
    <3> HIDE DEF y
    <3>4. y # NoResource /\ before + n > 0
      BY <2>3, <3>2, <3>3, NoResourceIsClosed
    <3> QED
      BY <2>5, <2>7, <2>9, <3>1, <3>3, <3>4
  <2> QED
    BY <2>8, <2>9
<1>4. resource' \in [Resources -> OpenResource \cup {NoResource}]
  <2>1. resource' = [r \in Resources |-> resource'[r]]
    BY <1>2
  <2> QED
    BY <1>3, <2>1
<1>5. resources' \in [Tasks -> Rows] /\ \A u \in Tasks : u # child => resources'[u] = resources[u]
  BY <1>1, <1>2
<1>6. \A u \in Tasks \ alive' : \A s \in Slots : resources'[u][s] = NULL
  BY <1>1, <1>2, <1>5
<1>7. alive' \subseteq Tasks /\ task_init \in alive' /\ undefined' \in BOOLEAN
  BY <1>1, <1>2 DEF HolderInv
<1> QED
  BY <1>3, <1>4, <1>5, <1>6, <1>7 DEF HolderInv

LEMMA CloseKeepsHolders ==
    ASSUME HolderInv, NEW t \in Tasks, NEW s \in Slots, syscall_close(t, s)
    PROVE  HolderInv' /\ SameOrClosed
<1> DEFINE held == resources[t][s]
           gone == [i \in Slots |-> IF i = s THEN held ELSE NULL]
           row  == [resources[t] EXCEPT ![s] = NULL]
<1>1. /\ resources \in [Tasks -> Rows] /\ resources[t] \in Rows
      /\ alive \subseteq Tasks /\ task_init \in alive /\ undefined \in BOOLEAN
  BY DEF HolderInv
<1>2. /\ held # NULL /\ resource' = resource_remove(gone) /\ t \in alive
      /\ resources' = [resources EXCEPT ![t][s] = NULL] /\ UNCHANGED <<alive, undefined>>
  BY DEF syscall_close, Running
<1>3. gone \in Rows /\ row \in Rows /\ resources' = [resources EXCEPT ![t] = row]
  BY <1>1, <1>2 DEF Rows
<1>4. ASSUME NEW r \in Resources
      PROVE  Uses(row, r) = Uses(resources[t], r) - Uses(gone, r)
  <2> DEFINE before == {i \in Slots : resources[t][i] = r}
             after  == {i \in Slots : row[i] = r}
             out    == {i \in Slots : gone[i] = r}
  <2>1. r # NULL
    BY NoResourceIsClosed
  <2>2. row[s] = NULL /\ \A i \in Slots : i # s => row[i] = resources[t][i]
    BY <1>1 DEF Rows
  <2>3. IsFiniteSet(before) /\ Cardinality(before) \in Nat
    BY FiniteAssumption, FS_Subset, FS_CardinalityType
  <2>4. Cardinality(after) = Cardinality(before) - Cardinality(out)
    <3>1. CASE r = held
      <4>1. after = before \ {s} /\ out = {s} /\ s \in before
        BY <2>1, <2>2, <3>1
      <4> HIDE DEF before, after, out
      <4>2. Cardinality(before \ {s}) = Cardinality(before) - 1 /\ Cardinality({s}) = 1
        BY <2>3, <4>1, FS_RemoveElement, FS_Singleton
      <4> QED
        BY <4>1, <4>2
    <3>2. CASE r # held
      <4>1. after = before /\ out = {}
        BY <2>1, <2>2, <3>2
      <4> HIDE DEF before, after, out
      <4> QED
        BY <2>3, <4>1, FS_EmptySet
    <3> QED
      BY <3>1, <3>2
  <2> QED
    BY <2>4 DEF Uses
<1> HIDE DEF gone, row
<1>5. \A u \in Tasks \ alive' : u \notin alive \/ (u = t /\ \A i \in Slots : row[i] = NULL)
  BY <1>2
<1>6. alive' \subseteq Tasks /\ task_init \in alive' /\ undefined' \in BOOLEAN
  BY <1>1, <1>2
<1>7. resource' = resource_remove(gone) /\ t \in alive
  BY <1>2
<1> QED
  BY <1>3, <1>4, <1>5, <1>6, <1>7, RemovalKeepsHolders

LEMMA DestroyKeepsHolders ==
    ASSUME HolderInv, NEW t \in Tasks, task_manager_destroy_task(t)
    PROVE  HolderInv' /\ SameOrClosed
<1> DEFINE gone == resources[t]
           row  == [s \in Slots |-> NULL]
<1>1. /\ resources \in [Tasks -> Rows] /\ gone \in Rows
      /\ alive \subseteq Tasks /\ task_init \in alive /\ undefined \in BOOLEAN
  BY DEF HolderInv
<1>2. /\ resource' = resource_remove(gone) /\ t \in alive /\ t # task_init
      /\ resources' = [resources EXCEPT ![t] = row]
      /\ alive' = alive \ {t} /\ undefined' = undefined
  BY DEF task_manager_destroy_task, Running
<1>3. row \in Rows /\ \A i \in Slots : row[i] = NULL
  BY DEF Rows
<1> HIDE DEF row
<1>4. ASSUME NEW r \in Resources
      PROVE  Uses(row, r) = Uses(resources[t], r) - Uses(gone, r)
  <2>1. Uses(row, r) = 0
    BY <1>3, UsesIsNumber, NoResourceIsClosed
  <2>2. Uses(gone, r) \in Nat
    BY UsesIsNumber
  <2> QED
    BY <2>1, <2>2
<1>5. /\ alive' \subseteq Tasks /\ task_init \in alive' /\ undefined' \in BOOLEAN
      /\ \A u \in Tasks \ alive' : u \notin alive \/ (u = t /\ \A i \in Slots : row[i] = NULL)
  BY <1>1, <1>2, <1>3
<1> HIDE DEF gone
<1> QED
  BY <1>1, <1>2, <1>3, <1>4, <1>5, RemovalKeepsHolders DEF gone

-----------------------------------------------------------------------------
(***************************************************************************)
(* The blocks.                                                              *)
(***************************************************************************)
\* An address that malloc returns has no block.
LEMMA MallocIsFree ==
    ASSUME NEW h, NEW size, NEW new \in kernel_heap_malloc(h, size) \ {NULL, Astray}
    PROVE  new \in Addresses /\ h[new] = Free
<1> DEFINE free == {a \in Addresses : h[a] = Free}
<1>1. free # {} /\ new = Min(free)
  BY DEF kernel_heap_malloc
<1>2. free \subseteq Nat
  BY FiniteAssumption, FS_CardinalityType DEF Addresses
<1> QED
  BY <1>1, <1>2, MinOfNumbers

\* Up to where offset + length does not wrap it is what the code takes it for.
LEMMA RequiredSizeFacts ==
    ASSUME NEW offset \in Nat, NEW buffer \in Buffers, Len(buffer) \in Nat
    PROVE  /\ RequiredSize(offset, buffer) \in 0 .. SizeModulus - 1
           /\ ~Wraps(offset, buffer) => RequiredSize(offset, buffer) = offset + Len(buffer)
<1> DEFINE x == offset + Len(buffer)
<1>1. x \in Nat /\ SizeModulus \in Nat \ {0}
  BY BoundsAssumption
<1>2. x % SizeModulus \in 0 .. SizeModulus - 1 /\ (x < SizeModulus => x % SizeModulus = x)
  <2> HIDE DEF x
  <2> QED
    BY <1>1
<1> QED
  BY <1>1, <1>2 DEF RequiredSize, Wraps

LEMMA AddressesAreNotNull == NULL \notin Addresses /\ Free \in Seq(Int) /\ Bytes \subseteq Int /\ 0 \in Bytes
<1>1. NULL \notin Addresses
  BY FiniteAssumption, FS_CardinalityType DEF NULL, Addresses
<1>2. Free \in Seq(Int)
  BY DEF Free
<1>3. Bytes \subseteq Int /\ 0 \in Bytes
  BY BoundsAssumption DEF Bytes
<1> QED
  BY <1>1, <1>2, <1>3

LEMMA BytesAreNumbers == ASSUME NEW block \in Seq(Bytes) PROVE block \in Seq(Int)
<1>1. /\ Len(block) \in Nat /\ block = [i \in 1 .. Len(block) |-> block[i]]
      /\ \A i \in 1 .. Len(block) : block[i] \in Int
  BY ElementOfSeq, LenProperties, AddressesAreNotNull
<1> QED
  BY <1>1, IsASeq

\* A sequence of bytes is no free block.
LEMMA FreeHasNoBytes ==
    ASSUME NEW block \in Seq(Bytes)
    PROVE  block # Free
<1> SUFFICES ASSUME block = Free
             PROVE  FALSE
  OBVIOUS
<1>1. Len(block) = 1 /\ block[1] = -2
  BY DEF Free
<1>2. block[1] \in Bytes
  BY <1>1, ElementOfSeq
<1> QED
  BY <1>1, <1>2, BoundsAssumption DEF Bytes

LEMMA BufferFacts ==
    ASSUME NEW buffer \in Buffers
    PROVE  /\ buffer \in Seq(Bytes)
           /\ Len(buffer) \in Nat
           /\ \A i \in 1 .. Len(buffer) : buffer[i] \in Bytes
           /\ buffer # <<>> => Len(buffer) > 0
<1>1. PICK n \in 0 .. MaxLength : buffer = [i \in 1 .. n |-> i]
  BY DEF Buffers
<1>2. n \in Nat /\ \A i \in 1 .. n : i \in Bytes
  BY BoundsAssumption DEF Bytes
<1>3. buffer \in Seq(Bytes)
  BY <1>1, <1>2
<1> QED
  BY <1>3, ElementOfSeq, EmptySeq

\* The block of a file: what the invariant says of it.
LEMMA BlockFacts ==
    ASSUME BlockInv, NEW f \in Files
    PROVE  /\ inode[f].data_size \in Nat /\ inode[f].data_size < SizeModulus
           /\ inode[f].data = NULL => inode[f].data_size = 0
           /\ inode[f].data # NULL =>
                /\ inode[f].data \in Addresses
                /\ inode[f].data_size > 0
                /\ heap[inode[f].data] \in Seq(Bytes) /\ heap[inode[f].data] # Free
                /\ Len(heap[inode[f].data]) = inode[f].data_size
                /\ \A i \in 1 .. inode[f].data_size : heap[inode[f].data][i] \in Bytes
<1>1. inode[f] \in [data : Addresses \cup {NULL}, data_size : 0 .. SizeModulus - 1] /\ OwnBlock(f)
  BY DEF BlockInv, InodeType
<1>2. inode[f].data_size \in Nat /\ inode[f].data_size < SizeModulus
  BY <1>1, BoundsAssumption
<1>3. inode[f].data = NULL <=> inode[f].data_size = 0
  BY <1>1 DEF OwnBlock
<1>4. ASSUME inode[f].data # NULL
      PROVE  /\ inode[f].data \in Addresses /\ inode[f].data_size > 0
             /\ heap[inode[f].data] \in Seq(Bytes) /\ heap[inode[f].data] # Free
             /\ Len(heap[inode[f].data]) = inode[f].data_size
  BY <1>1, <1>2, <1>3, <1>4 DEF OwnBlock, BlockInv, HeapType
<1> QED
  BY <1>2, <1>3, <1>4, ElementOfSeq

\* No other file is touched.
OthersKept(file) ==
    \A f \in Files : f # file =>
        /\ inode'[f] = inode[f]
        /\ inode[f].data # NULL => heap'[inode[f].data] = heap[inode[f].data]

\* ramfs_truncate frees the block of the file, and no other.
LEMMA TruncateKeepsBlocks ==
    ASSUME BlockInv, NEW file \in Files, ramfs_truncate(file)
    PROVE  BlockInv' /\ OthersKept(file) /\ inode'[file].data = NULL
<1> DEFINE old == inode[file].data
<1>1. /\ heap' = IF old = NULL THEN heap ELSE [heap EXCEPT ![old] = Free]
      /\ inode' = [inode EXCEPT ![file] = [data |-> NULL, data_size |-> 0]]
  BY DEF ramfs_truncate, kernel_heap_free
<1>2. InodeType /\ HeapType /\ OwnersDiffer /\ NoLostBlock /\ \A f \in Files : OwnBlock(f)
  BY DEF BlockInv
<1>3. InodeType'
  BY <1>1, <1>2, BoundsAssumption DEF InodeType
<1>4. /\ inode'[file] = [data |-> NULL, data_size |-> 0]
      /\ \A f \in Files : f # file => inode'[f] = inode[f]
  BY <1>1, <1>2 DEF InodeType
<1>5. /\ heap' \in [Addresses -> Seq(Int)]
      /\ \A a \in Addresses : heap'[a] = IF a = old THEN Free ELSE heap[a]
  BY <1>1, <1>2, AddressesAreNotNull DEF HeapType
<1>6. HeapType'
  BY <1>2, <1>5 DEF HeapType
<1>7. ASSUME NEW f \in Files, f # file, inode[f].data # NULL
      PROVE  heap'[inode[f].data] = heap[inode[f].data]
  <2>1. inode[f].data \in Addresses /\ inode[f].data # old
    BY <1>2, <1>7, BlockFacts DEF OwnersDiffer
  <2> QED
    BY <1>5, <2>1
<1>8. \A f \in Files : OwnBlock(f)'
  <2> SUFFICES ASSUME NEW f \in Files
               PROVE  OwnBlock(f)'
    OBVIOUS
  <2>1. CASE f = file
    BY <1>4, <2>1 DEF OwnBlock
  <2>2. CASE f # file
    BY <1>2, <1>4, <1>7, <2>2 DEF OwnBlock
  <2> QED
    BY <2>1, <2>2
<1>9. OwnersDiffer'
  BY <1>2, <1>4 DEF OwnersDiffer
<1>10. NoLostBlock'
  BY <1>2, <1>4, <1>5 DEF NoLostBlock
<1> QED
  BY <1>3, <1>4, <1>6, <1>7, <1>8, <1>9, <1>10 DEF BlockInv, OthersKept

\* A write beyond the end: the new block takes the place of the old one.
LEMMA GrowthKeepsBlocks ==
    ASSUME BlockInv, NEW file \in Files, NEW new \in Addresses, heap[new] = Free,
           NEW block \in Seq(Bytes), Len(block) \in 1 .. SizeModulus - 1,
           heap' = Replaced(file, new, block),
           inode' = [inode EXCEPT ![file] = [data |-> new, data_size |-> Len(block)]]
    PROVE  /\ BlockInv'
           /\ inode'[file] = [data |-> new, data_size |-> Len(block)] /\ heap'[new] = block
           /\ OthersKept(file)
<1> DEFINE old == inode[file].data
<1>1. heap' = IF old = NULL THEN [heap EXCEPT ![new] = block]
              ELSE [[heap EXCEPT ![new] = block] EXCEPT ![old] = Free]
  BY DEF Replaced, kernel_heap_free
<1>2. InodeType /\ HeapType /\ OwnersDiffer /\ NoLostBlock /\ \A f \in Files : OwnBlock(f)
  BY DEF BlockInv
<1>3. new # NULL /\ new # old /\ block # Free /\ block \in Seq(Int)
  <2>1. block # Free
    BY FreeHasNoBytes
  <2>2. block \in Seq(Int)
    BY BytesAreNumbers
  <2>3. new # NULL
    BY AddressesAreNotNull
  <2>4. new # old
    BY <2>3, BlockFacts
  <2> QED
    BY <2>1, <2>2, <2>3, <2>4
<1>4. InodeType'
  BY <1>2, BoundsAssumption DEF InodeType
<1>5. /\ inode'[file] = [data |-> new, data_size |-> Len(block)]
      /\ \A f \in Files : f # file => inode'[f] = inode[f]
  BY <1>2 DEF InodeType
<1>6. /\ heap' \in [Addresses -> Seq(Int)]
      /\ \A a \in Addresses : heap'[a] = IF a = new THEN block
                                         ELSE IF a = old THEN Free ELSE heap[a]
  <2>1. heap \in [Addresses -> Seq(Int)] /\ Free \in Seq(Int) /\ NULL \notin Addresses
    BY <1>2, AddressesAreNotNull DEF HeapType
  <2>2. old = NULL \/ old \in Addresses
    BY BlockFacts
  <2> HIDE DEF old
  <2>3. CASE old = NULL
    BY <1>1, <1>3, <2>1, <2>3
  <2>4. CASE old # NULL
    BY <1>1, <1>3, <2>1, <2>2, <2>4
  <2> QED
    BY <2>3, <2>4
<1>7. HeapType'
  BY <1>2, <1>6 DEF HeapType
<1>8. ASSUME NEW f \in Files, f # file, inode[f].data # NULL
      PROVE  /\ inode[f].data \in Addresses /\ inode[f].data # old /\ inode[f].data # new
             /\ heap'[inode[f].data] = heap[inode[f].data]
  <2>1. inode[f].data \in Addresses /\ inode[f].data # new
    BY <1>8, BlockFacts
  <2>2. inode[f].data # old
    BY <1>2, <1>8 DEF OwnersDiffer
  <2> QED
    BY <1>6, <2>1, <2>2
<1>9. \A f \in Files : OwnBlock(f)'
  <2> SUFFICES ASSUME NEW f \in Files
               PROVE  OwnBlock(f)'
    OBVIOUS
  <2>1. CASE f = file
    <3>1. inode'[f].data = new /\ inode'[f].data_size = Len(block) /\ Len(block) # 0
      BY <1>5, <2>1
    <3> QED
      BY <1>3, <1>6, <3>1 DEF OwnBlock
  <2>2. CASE f # file
    BY <1>2, <1>5, <1>8, <2>2 DEF OwnBlock
  <2> QED
    BY <2>1, <2>2
<1>10. OwnersDiffer'
  <2> SUFFICES ASSUME NEW f \in Files, NEW g \in Files, f # g, inode'[f].data = inode'[g].data
               PROVE  inode'[f].data = NULL
    BY DEF OwnersDiffer
  <2>1. CASE f # file /\ g # file
    BY <1>2, <1>5, <2>1 DEF OwnersDiffer
  <2>2. CASE f = file
    BY <1>3, <1>5, <1>8, <2>2
  <2>3. CASE g = file
    BY <1>3, <1>5, <1>8, <2>3
  <2> QED
    BY <2>1, <2>2, <2>3
<1>11. NoLostBlock'
  <2> SUFFICES ASSUME NEW a \in Addresses, heap'[a] # Free
               PROVE  \E f \in Files : inode'[f].data = a
    BY DEF NoLostBlock
  <2>1. CASE a = new
    BY <1>5, <2>1
  <2>2. CASE a # new
    <3>1. a # old /\ heap[a] # Free
      BY <1>6, <2>2
    <3>2. PICK f \in Files : inode[f].data = a
      BY <1>2, <3>1 DEF NoLostBlock
    <3> QED
      BY <1>5, <3>1, <3>2
  <2> QED
    BY <2>1, <2>2
<1>12. OthersKept(file)
  BY <1>5, <1>8 DEF OthersKept
<1> QED
  BY <1>4, <1>5, <1>6, <1>7, <1>9, <1>10, <1>11, <1>12 DEF BlockInv

\* A write within the block of a file.
LEMMA WriteInPlaceKeepsBlocks ==
    ASSUME BlockInv, NEW file \in Files, inode[file].data # NULL,
           NEW block \in Seq(Bytes), Len(block) = inode[file].data_size,
           heap' = [heap EXCEPT ![inode[file].data] = block], UNCHANGED inode
    PROVE  /\ BlockInv'
           /\ heap'[inode[file].data] = block
           /\ OthersKept(file)
<1> DEFINE a == inode[file].data
<1>1. InodeType /\ HeapType /\ OwnersDiffer /\ NoLostBlock /\ \A f \in Files : OwnBlock(f)
  BY DEF BlockInv
<1>2. a \in Addresses /\ block # Free /\ block \in Seq(Int) /\ heap[a] # Free
  BY BlockFacts, FreeHasNoBytes, BytesAreNumbers
<1>3. /\ heap' \in [Addresses -> Seq(Int)] /\ heap'[a] = block
      /\ \A b \in Addresses : b # a => heap'[b] = heap[b]
  BY <1>1, <1>2 DEF HeapType
<1>4. HeapType'
  BY <1>1, <1>3 DEF HeapType
<1>5. ASSUME NEW f \in Files, f # file, inode[f].data # NULL
      PROVE  inode[f].data \in Addresses /\ heap'[inode[f].data] = heap[inode[f].data]
  <2>1. inode[f].data \in Addresses
    BY <1>5, BlockFacts
  <2>2. inode[f].data # a
    BY <1>1, <1>5 DEF OwnersDiffer
  <2> QED
    BY <1>3, <2>1, <2>2
<1>6. \A f \in Files : OwnBlock(f)'
  BY <1>1, <1>2, <1>3, <1>5 DEF OwnBlock
<1>7. OwnersDiffer' /\ InodeType'
  BY <1>1 DEF OwnersDiffer, InodeType
<1>8. NoLostBlock'
  BY <1>1, <1>2, <1>3 DEF NoLostBlock
<1>9. OthersKept(file)
  BY <1>5 DEF OthersKept
<1> QED
  BY <1>3, <1>4, <1>6, <1>7, <1>8, <1>9 DEF BlockInv

\* The bytes of a file after a write: the buffer, the old bytes, and zeroes between them.
AfterWrite(file, offset, buffer) ==
    [i \in 1 .. IF offset + Len(buffer) > inode[file].data_size
                THEN offset + Len(buffer) ELSE inode[file].data_size |->
       IF i \in offset + 1 .. offset + Len(buffer) THEN buffer[i - offset]
       ELSE IF i <= inode[file].data_size THEN heap[inode[file].data][i] ELSE 0]

LEMMA AfterWriteIsBytes ==
    ASSUME BlockInv, NEW file \in Files, NEW offset \in Nat, NEW buffer \in Buffers
    PROVE  /\ AfterWrite(file, offset, buffer) \in Seq(Bytes)
           /\ Len(AfterWrite(file, offset, buffer)) =
                IF offset + Len(buffer) > inode[file].data_size
                THEN offset + Len(buffer) ELSE inode[file].data_size
<1> DEFINE n == IF offset + Len(buffer) > inode[file].data_size
                THEN offset + Len(buffer) ELSE inode[file].data_size
           e(i) == IF i \in offset + 1 .. offset + Len(buffer) THEN buffer[i - offset]
                   ELSE IF i <= inode[file].data_size THEN heap[inode[file].data][i] ELSE 0
<1>1. Len(buffer) \in Nat /\ inode[file].data_size \in Nat /\ n \in Nat
  BY BufferFacts, BlockFacts
<1>2. ASSUME NEW i \in 1 .. n
      PROVE  e(i) \in Bytes
  <2>1. CASE i \in offset + 1 .. offset + Len(buffer)
    <3>1. i - offset \in 1 .. Len(buffer)
      BY <1>1, <2>1
    <3> QED
      BY <2>1, <3>1, BufferFacts
  <2>2. CASE i \notin offset + 1 .. offset + Len(buffer) /\ i <= inode[file].data_size
    <3>1. i \in 1 .. inode[file].data_size /\ inode[file].data_size # 0
      BY <1>1, <2>2
    <3> QED
      BY <2>2, <3>1, BlockFacts
  <2>3. CASE i \notin offset + 1 .. offset + Len(buffer) /\ ~(i <= inode[file].data_size)
    BY <2>3, AddressesAreNotNull
  <2> QED
    BY <2>1, <2>2, <2>3
<1>3. AfterWrite(file, offset, buffer) = [i \in 1 .. n |-> e(i)]
  BY DEF AfterWrite
<1> HIDE DEF n, e
<1>4. [i \in 1 .. n |-> e(i)] \in Seq(Bytes) /\ Len([i \in 1 .. n |-> e(i)]) = n
  BY <1>1, <1>2
<1> QED
  BY <1>3, <1>4 DEF n

LEMMA WriteKeepsBlocks ==
    ASSUME BlockInv, NEW file \in Files, NEW offset \in Nat, NEW buffer \in Buffers,
           buffer # <<>>, NEW ok \in BOOLEAN,
           ramfs_write(file, offset, buffer, ok)
    PROVE  /\ BlockInv'
           /\ ok => ~Wraps(offset, buffer)
           /\ ~ok => /\ UNCHANGED <<heap, inode>>
                     /\ offset + Len(buffer) > inode[file].data_size
           /\ ok => /\ OthersKept(file)
                    /\ inode'[file].data # NULL
                    /\ heap'[inode'[file].data] = AfterWrite(file, offset, buffer)
<1> DEFINE required_size == offset + Len(buffer)
           grows == required_size > inode[file].data_size
           result == AfterWrite(file, offset, buffer)
           answers == kernel_heap_malloc(heap, required_size) \ {NULL, Astray}
<1>0. /\ Len(buffer) \in Nat /\ Len(buffer) > 0 /\ inode[file].data_size \in 0 .. SizeModulus - 1
      /\ required_size \in Nat /\ required_size > 0
      /\ RequiredSize(offset, buffer) \in 0 .. SizeModulus - 1
      /\ ~Wraps(offset, buffer) => RequiredSize(offset, buffer) = required_size
      /\ ok => ~Wraps(offset, buffer)
  BY BufferFacts, RequiredSizeFacts DEF BlockInv, InodeType, ramfs_write
<1>1. /\ ~ok => grows /\ UNCHANGED <<heap, inode>>
      /\ ok /\ grows => \E new \in answers :
           /\ heap' = Replaced(file, new, Written(Moved(file, offset, required_size), offset, buffer))
           /\ inode' = [inode EXCEPT ![file] = [data |-> new, data_size |-> required_size]]
      /\ ok /\ ~grows =>
           /\ heap' = [heap EXCEPT ![inode[file].data] = Written(@, offset, buffer)]
           /\ UNCHANGED inode
  <2>1. CASE ~ok
    <3>1. UNCHANGED <<heap, inode>> /\ RequiredSize(offset, buffer) > inode[file].data_size
      BY <2>1 DEF ramfs_write
    <3>2. grows
      BY <1>0, <3>1, BoundsAssumption DEF Wraps
    <3> QED
      BY <2>1, <3>1, <3>2
  <2>2. CASE ok
    <3>1. RequiredSize(offset, buffer) = required_size
      BY <1>0, <2>2
    <3> QED
      BY <2>2, <3>1 DEF ramfs_write
  <2> QED
    BY <2>1, <2>2
<1>2. /\ Len(buffer) \in Nat /\ Len(buffer) > 0 /\ inode[file].data_size \in Nat
      /\ required_size \in Nat /\ required_size > 0
      /\ ok => required_size < SizeModulus
  BY <1>0, BoundsAssumption DEF Wraps
<1>3. result \in Seq(Bytes) /\ Len(result) = IF grows THEN required_size ELSE inode[file].data_size
  BY AfterWriteIsBytes
<1>4. CASE ~ok
  <2>1. UNCHANGED <<heap, inode>> /\ grows
    BY <1>1, <1>4
  <2> QED
    BY <1>4, <2>1 DEF BlockInv, InodeType, HeapType, OwnBlock, OwnersDiffer, NoLostBlock
<1>5. CASE ok /\ grows
  <2>0. PICK new \in answers :
           /\ heap' = Replaced(file, new, Written(Moved(file, offset, required_size), offset, buffer))
           /\ inode' = [inode EXCEPT ![file] = [data |-> new, data_size |-> required_size]]
    BY <1>1, <1>5
  <2> DEFINE moved == Moved(file, offset, required_size)
  <2>1. Written(moved, offset, buffer) = result
    <3>1. moved = [i \in 1 .. required_size |->
                     IF i <= inode[file].data_size THEN heap[inode[file].data][i]
                     ELSE IF i <= offset THEN 0 ELSE Garbage]
      BY DEF Moved
    <3>2. Len(moved) = required_size
      BY <1>2, <3>1
    <3>3. Written(moved, offset, buffer) =
            [i \in 1 .. required_size |-> IF i \in offset + 1 .. offset + Len(buffer)
                                          THEN buffer[i - offset] ELSE moved[i]]
      BY <3>2 DEF Written
    <3>4. result = [i \in 1 .. required_size |->
                     IF i \in offset + 1 .. offset + Len(buffer) THEN buffer[i - offset]
                     ELSE IF i <= inode[file].data_size THEN heap[inode[file].data][i] ELSE 0]
      BY <1>5 DEF AfterWrite
    <3>5. \A i \in 1 .. required_size : i \notin offset + 1 .. offset + Len(buffer) =>
             moved[i] = IF i <= inode[file].data_size THEN heap[inode[file].data][i] ELSE 0
      BY <1>2, <3>1
    <3> HIDE DEF moved, result, required_size
    <3> QED
      BY <3>3, <3>4, <3>5
  <2>2. new \in Addresses /\ heap[new] = Free
    BY MallocIsFree
  <2>3. Len(result) = required_size /\ required_size \in 1 .. SizeModulus - 1
    BY <1>2, <1>3, <1>5, BoundsAssumption
  <2>4. /\ heap' = Replaced(file, new, result)
        /\ inode' = [inode EXCEPT ![file] = [data |-> new, data_size |-> Len(result)]]
    BY <2>0, <2>1, <2>3
  <2> HIDE DEF result, grows, required_size, answers
  <2>5. /\ BlockInv' /\ inode'[file] = [data |-> new, data_size |-> Len(result)]
        /\ heap'[new] = result /\ OthersKept(file)
    <3>1. result \in Seq(Bytes) /\ Len(result) \in 1 .. SizeModulus - 1
      BY <1>3, <2>3
    <3> QED
      BY <2>2, <2>4, <3>1, GrowthKeepsBlocks
  <2>6. new # NULL
    BY <2>2, AddressesAreNotNull
  <2> QED
    BY <1>0, <1>5, <2>5, <2>6 DEF result
<1>6. CASE ok /\ ~grows
  <2>1. inode[file].data # NULL
    BY <1>2, <1>6, BlockFacts
  <2>2. Written(heap[inode[file].data], offset, buffer) = result
    <3>1. Len(heap[inode[file].data]) = inode[file].data_size
      BY <2>1, BlockFacts
    <3>2. Written(heap[inode[file].data], offset, buffer) =
            [i \in 1 .. inode[file].data_size |-> IF i \in offset + 1 .. offset + Len(buffer)
                                       THEN buffer[i - offset] ELSE heap[inode[file].data][i]]
      BY <3>1 DEF Written
    <3>3. result = [i \in 1 .. inode[file].data_size |->
                     IF i \in offset + 1 .. offset + Len(buffer) THEN buffer[i - offset]
                     ELSE IF i <= inode[file].data_size THEN heap[inode[file].data][i] ELSE 0]
      BY <1>6 DEF AfterWrite
    <3>4. \A i \in 1 .. inode[file].data_size : i <= inode[file].data_size
      BY <1>2
    <3> HIDE DEF result
    <3> QED
      BY <3>2, <3>3, <3>4
  <2>3. heap' = [heap EXCEPT ![inode[file].data] = result] /\ UNCHANGED inode
    BY <1>1, <1>6, <2>2
  <2>4. Len(result) = inode[file].data_size
    BY <1>3, <1>6
  <2> HIDE DEF result, grows
  <2>5. BlockInv' /\ heap'[inode[file].data] = result /\ OthersKept(file)
    <3>1. result \in Seq(Bytes)
      BY <1>3
    <3> QED
      BY <2>1, <2>3, <2>4, <3>1, WriteInPlaceKeepsBlocks
  <2> QED
    BY <1>0, <1>6, <2>1, <2>3, <2>5 DEF result
<1> QED
  BY <1>4, <1>5, <1>6

-----------------------------------------------------------------------------
(***************************************************************************)
(* The invariant.                                                           *)
(***************************************************************************)
LEMMA SameBlocks == ASSUME BlockInv, UNCHANGED <<inode, heap>> PROVE BlockInv'
BY DEF BlockInv, InodeType, HeapType, OwnBlock, OwnersDiffer, NoLostBlock

LEMMA SameHolders ==
    ASSUME HolderInv, UNCHANGED <<resource, resources, alive>>, undefined' \in BOOLEAN
    PROVE  HolderInv'
BY DEF HolderInv, Counted, Holders

LEMMA InitInv == Init => IInv
<1> SUFFICES ASSUME Init PROVE IInv
  OBVIOUS
<1>1. BlockInv
  <2>1. InodeType
    BY BoundsAssumption DEF Init, InodeType
  <2>2. HeapType /\ \A a \in Addresses : heap[a] = Free
    BY AddressesAreNotNull DEF Init, HeapType
  <2>3. \A f \in Files : OwnBlock(f) /\ inode[f].data = NULL
    BY DEF Init, OwnBlock
  <2> QED
    BY <2>1, <2>2, <2>3 DEF BlockInv, OwnersDiffer, NoLostBlock
<1>2. HolderInv
  <2>1. /\ resource \in [Resources -> OpenResource \cup {NoResource}]
        /\ resources \in [Tasks -> Rows]
        /\ alive \subseteq Tasks /\ task_init \in alive /\ undefined \in BOOLEAN
        /\ \A r \in Resources : resource[r] = NoResource
        /\ \A t \in Tasks : \A s \in Slots : resources[t][s] = NULL
    BY FilesAssumption DEF Init, Rows
  <2>2. \A r \in Resources : Counted(r)
    <3>1. \A r \in Resources : Holders(resources, r) = {}
      BY <2>1, NoResourceIsClosed DEF Holders
    <3> QED
      BY <2>1, <3>1, FS_EmptySet DEF Counted
  <2> QED
    BY <2>1, <2>2 DEF HolderInv
<1> QED
  BY <1>1, <1>2 DEF IInv

\* open: when an entry of the table is free, so is a resource, and both are taken.
LEMMA OpenStep ==
    ASSUME IInv, NEW t \in Tasks, NEW file \in Files, NEW flags \in Flags, NEW truncate \in BOOLEAN,
           syscall_open(t, file, flags, truncate)
    PROVE  /\ IInv'
           /\ ~undefined /\ UNCHANGED undefined
           /\ IF truncate THEN ramfs_truncate(file) ELSE UNCHANGED <<inode, heap>>
           /\ \/ reply' = Error /\ UNCHANGED resource
              \/ \E new \in Resources :
                   /\ resource[new] = NoResource
                   /\ resource' = [resource EXCEPT ![new] =
                        [node |-> file, offset |-> 0, flags |-> flags, ref_count |-> 1]]
                   /\ reply' = <<"open", new>>
<1> DEFINE free == {s \in Slots : resources[t][s] = NULL}
           closed == {r \in Resources : resource[r] = NoResource}
           new == Min(closed)
<1>1. /\ t \in alive /\ ~undefined /\ UNCHANGED <<alive, undefined>>
      /\ IF truncate THEN ramfs_truncate(file) ELSE UNCHANGED <<inode, heap>>
      /\ free = {} => reply' = Error /\ UNCHANGED <<resource, resources>>
      /\ free # {} =>
           /\ resource' = [resource EXCEPT ![new] =
                [node |-> file, offset |-> 0, flags |-> flags, ref_count |-> 1]]
           /\ resources' = [resources EXCEPT ![t][Min(free)] = new]
           /\ reply' = <<"open", new>>
  BY DEF syscall_open, Running
<1>2. BlockInv'
  <2>1. CASE truncate
    BY <1>1, <2>1, TruncateKeepsBlocks DEF IInv
  <2>2. CASE ~truncate
    BY <1>1, <2>2, SameBlocks DEF IInv
  <2> QED
    BY <2>1, <2>2
<1>3. CASE free = {}
  <2>1. HolderInv'
    BY <1>1, <1>3, SameHolders DEF IInv, HolderInv
  <2> QED
    BY <1>1, <1>2, <1>3, <2>1 DEF IInv
<1>4. CASE free # {}
  <2>1. Min(free) \in Slots /\ resources[t][Min(free)] = NULL
    <3>1. free \subseteq Nat
      BY BoundsAssumption
    <3> QED
      BY <1>4, <3>1, MinOfNumbers
  <2>2. closed # {}
    <3>1. resources \in [Tasks -> Rows]
      BY DEF IInv, HolderInv
    <3>2. PICK r \in Resources : Cardinality(Holders(resources, r)) = 0
      BY <2>1, <3>1, ResourceIsLeft
    <3>3. resource[r] = NoResource
      BY <3>2 DEF IInv, HolderInv, Counted
    <3> QED
      BY <3>3
  <2>3. new \in Resources /\ resource[new] = NoResource
    <3>1. closed \subseteq Nat
      BY BoundsAssumption
    <3> QED
      BY <2>2, <3>1, MinOfNumbers
  <2> HIDE DEF new, free
  <2>4. HolderInv'
    <3> DEFINE slot == Min(free)
    <3>1. slot \in Slots /\ resources[t][slot] = NULL /\ HolderInv
      BY <2>1 DEF IInv
    <3>2. /\ resources' = [resources EXCEPT ![t][slot] = new]
          /\ resource' = [resource EXCEPT ![new] =
                [node |-> file, offset |-> 0, flags |-> flags, ref_count |-> 1]]
      BY <1>1, <1>4
    <3> HIDE DEF slot
    <3> QED
      BY <1>1, <2>3, <3>1, <3>2, OpenKeepsHolders
  <2> QED
    BY <1>1, <1>2, <1>4, <2>3, <2>4 DEF IInv
<1> QED
  BY <1>3, <1>4

LEMMA CloseStep ==
    ASSUME IInv, NEW t \in Tasks, NEW s \in Slots, syscall_close(t, s)
    PROVE  IInv' /\ SameOrClosed
<1>1. UNCHANGED <<inode, heap>>
  BY DEF syscall_close
<1> QED
  BY <1>1, SameBlocks, CloseKeepsHolders DEF IInv

LEMMA DestroyStep ==
    ASSUME IInv, NEW t \in Tasks, task_manager_destroy_task(t)
    PROVE  IInv' /\ SameOrClosed
<1>1. UNCHANGED <<inode, heap>>
  BY DEF task_manager_destroy_task
<1> QED
  BY <1>1, SameBlocks, DestroyKeepsHolders DEF IInv

LEMMA ForkStep ==
    ASSUME IInv, NEW t \in Tasks, NEW child \in Tasks, task_manager_task_copy(t, child)
    PROVE  IInv'
<1>1. UNCHANGED <<inode, heap>>
  BY DEF task_manager_task_copy
<1> QED
  BY <1>1, SameBlocks, ForkKeepsHolders DEF IInv

\* What a read gets, and that the offset stays below the modulus.
LEMMA ReadLengthFacts ==
    ASSUME BlockInv, NEW file \in Files, NEW offset \in Nat, NEW length \in Nat
    PROVE  /\ ReadLength(file, offset, length) \in Nat
           /\ Len(ramfs_read(file, offset, length)) = ReadLength(file, offset, length)
           /\ ReadLength(file, offset, length) =
                IF offset >= inode[file].data_size THEN 0
                ELSE IF length <= inode[file].data_size - offset THEN length
                ELSE inode[file].data_size - offset
<1>1. inode[file].data_size \in Nat
  BY BlockFacts
<1>2. ReadLength(file, offset, length) =
        IF offset >= inode[file].data_size THEN 0
        ELSE IF length <= inode[file].data_size - offset THEN length
        ELSE inode[file].data_size - offset
  <2>1. CASE offset >= inode[file].data_size
    BY <2>1 DEF ReadLength
  <2>2. CASE ~(offset >= inode[file].data_size)
    <3>1. inode[file].data_size - offset \in Nat
      BY <1>1, <2>2
    <3> QED
      BY <2>2, <3>1, MinOfTwo DEF ReadLength
  <2> QED
    BY <2>1, <2>2
<1>3. ReadLength(file, offset, length) \in Nat
  BY <1>1, <1>2
<1> QED
  BY <1>2, <1>3 DEF ramfs_read

LEMMA ReadStep ==
    ASSUME IInv, NEW t \in Tasks, NEW s \in Slots, NEW length \in 0 .. MaxLength,
           syscall_read(t, s, length)
    PROVE  IInv'
<1> DEFINE r == resources[t][s]
           bytes == ramfs_read(resource[r].node, resource[r].offset, length)
<1>1. /\ r # NULL /\ UNCHANGED <<inode, heap, resources, alive, undefined>>
      /\ \/ UNCHANGED resource
         \/ resource' = [resource EXCEPT ![r].offset = @ + Len(bytes)]
  BY DEF syscall_read
<1>2. BlockInv' /\ undefined' \in BOOLEAN /\ HolderInv /\ BlockInv
  BY <1>1, SameBlocks DEF IInv, HolderInv
<1>3. r \in Resources /\ resource[r] \in OpenResource
  BY <1>1, <1>2, HeldResource
<1>4. resource[r].offset + Len(bytes) \in 0 .. SizeModulus - 1
  <2>1. /\ resource[r].node \in Files /\ resource[r].offset \in Nat
        /\ resource[r].offset < SizeModulus /\ length \in Nat
    BY <1>3, BoundsAssumption DEF OpenResource
  <2>2. /\ inode[resource[r].node].data_size \in Nat
        /\ inode[resource[r].node].data_size < SizeModulus
    BY <1>2, <2>1, BlockFacts
  <2>3. /\ Len(bytes) \in Nat
        /\ Len(bytes) = IF resource[r].offset >= inode[resource[r].node].data_size THEN 0
                        ELSE IF length <= inode[resource[r].node].data_size - resource[r].offset
                        THEN length ELSE inode[resource[r].node].data_size - resource[r].offset
    BY <1>2, <2>1, ReadLengthFacts
  <2> HIDE DEF bytes, r
  <2>4. Len(bytes) = 0 \/ resource[r].offset + Len(bytes) <= inode[resource[r].node].data_size
    BY <2>1, <2>2, <2>3
  <2>5. SizeModulus \in Nat
    BY BoundsAssumption
  <2> QED
    BY <2>1, <2>2, <2>3, <2>4, <2>5
<1>5. CASE UNCHANGED resource
  BY <1>1, <1>2, <1>5, SameHolders DEF IInv
<1>6. CASE resource' = [resource EXCEPT ![r].offset = @ + Len(bytes)]
  <2> DEFINE x == [resource[r] EXCEPT !.offset = @ + Len(bytes)]
  <2> HIDE DEF bytes, r
  <2>1. x \in OpenResource /\ x.ref_count = resource[r].ref_count
    BY <1>3, <1>4 DEF OpenResource
  <2>2. resource' = [resource EXCEPT ![r] = x]
    BY <1>6
  <2> HIDE DEF x
  <2> QED
    BY <1>1, <1>2, <1>3, <2>1, <2>2, CallsKeepHolders DEF IInv
<1> QED
  BY <1>1, <1>5, <1>6

\* A resource whose offset becomes another.
LEMMA OffsetStep ==
    ASSUME HolderInv, NEW r \in Resources, resource[r] \in OpenResource,
           NEW offset \in 0 .. SizeModulus - 1,
           resource' = [resource EXCEPT ![r].offset = offset],
           UNCHANGED <<resources, alive, undefined>>
    PROVE  HolderInv'
<1> DEFINE x == [resource[r] EXCEPT !.offset = offset]
<1>1. x \in OpenResource /\ x.ref_count = resource[r].ref_count
  BY DEF OpenResource
<1>2. resource' = [resource EXCEPT ![r] = x] /\ undefined' \in BOOLEAN
  BY DEF HolderInv
<1> HIDE DEF x
<1> QED
  BY <1>1, <1>2, CallsKeepHolders

LEMMA WriteStep ==
    ASSUME IInv, NEW t \in Tasks, NEW s \in Slots, NEW buffer \in Buffers,
           syscall_write(t, s, buffer)
    PROVE  IInv'
<1> DEFINE r == resources[t][s]
           file == resource[r].node
           offset == resource[r].offset
<1>1. /\ r # NULL /\ UNCHANGED <<resources, alive>>
      /\ \/ UNCHANGED <<inode, heap, resource, undefined>>
         \/ /\ buffer # <<>> /\ UNCHANGED undefined
            /\ \E ok \in BOOLEAN : /\ ramfs_write(file, offset, buffer, ok)
                                   /\ resource' = OffsetMoved(r, buffer, ok)
         \/ undefined' = TRUE /\ UNCHANGED <<inode, heap, resource>>
  BY DEF syscall_write
<1>2. HolderInv /\ BlockInv /\ undefined \in BOOLEAN
  BY DEF IInv, HolderInv
<1>3. r \in Resources /\ resource[r] \in OpenResource
  BY <1>1, <1>2, HeldResource
<1>4. CASE UNCHANGED <<inode, heap, resource, undefined>>
  BY <1>1, <1>2, <1>4, SameBlocks, SameHolders DEF IInv
<1>5. CASE undefined' = TRUE /\ UNCHANGED <<inode, heap, resource>>
  BY <1>1, <1>2, <1>5, SameBlocks, SameHolders DEF IInv
<1>6. CASE /\ buffer # <<>> /\ UNCHANGED undefined
           /\ \E ok \in BOOLEAN : /\ ramfs_write(file, offset, buffer, ok)
                                  /\ resource' = OffsetMoved(r, buffer, ok)
  <2>1. PICK ok \in BOOLEAN : ramfs_write(file, offset, buffer, ok) /\ resource' = OffsetMoved(r, buffer, ok)
    BY <1>6
  <2>2. file \in Files /\ offset \in Nat
    BY <1>3, BoundsAssumption DEF OpenResource
  <2> HIDE DEF file
  <2>3. BlockInv' /\ (ok => ~Wraps(offset, buffer))
    <3> HIDE DEF offset
    <3> QED
      BY <1>2, <1>6, <2>1, <2>2, WriteKeepsBlocks
  <2>4. CASE ok
    <3>1. resource' = [resource EXCEPT ![r].offset = @ + Len(buffer)]
      BY <2>1, <2>4 DEF OffsetMoved
    <3>2. offset + Len(buffer) \in 0 .. SizeModulus - 1
      <4>1. ~Wraps(offset, buffer)
        BY <2>3, <2>4, Zenon
      <4>2. Len(buffer) \in Nat /\ SizeModulus \in Nat
        BY BufferFacts, BoundsAssumption
      <4> HIDE DEF offset
      <4> QED
        BY <2>2, <4>1, <4>2 DEF Wraps
    <3>3. resource' = [resource EXCEPT ![r].offset = offset + Len(buffer)]
      BY <3>1
    <3> HIDE DEF r, offset
    <3>4. HolderInv'
      BY <1>1, <1>2, <1>3, <1>6, <3>2, <3>3, OffsetStep
    <3> QED
      BY <2>3, <3>4 DEF IInv
  <2>5. CASE ~ok
    BY <1>1, <1>2, <1>6, <2>1, <2>3, <2>5, SameHolders DEF OffsetMoved, IInv
  <2> QED
    BY <2>4, <2>5
<1> QED
  BY <1>1, <1>4, <1>5, <1>6

LEMMA SeekStep ==
    ASSUME IInv, NEW t \in Tasks, NEW s \in Slots, NEW whence, NEW delta \in Int,
           syscall_lseek(t, s, whence, delta)
    PROVE  IInv'
<1> DEFINE r == resources[t][s]
           base == CASE whence = "set" -> 0
                     [] whence = "cur" -> resource[r].offset
                     [] OTHER -> inode[resource[r].node].data_size
<1>1. /\ r # NULL /\ UNCHANGED <<inode, heap, resources, alive, undefined>>
      /\ IF base + delta < 0 THEN UNCHANGED resource
         ELSE resource' = [resource EXCEPT ![r].offset = (base + delta) % SizeModulus]
  BY DEF syscall_lseek
<1>2. BlockInv' /\ undefined' \in BOOLEAN /\ HolderInv /\ BlockInv
  BY <1>1, SameBlocks DEF IInv, HolderInv
<1>3. r \in Resources /\ resource[r] \in OpenResource
  BY <1>1, <1>2, HeldResource
<1>4. base \in Nat
  <2>1. resource[r].node \in Files /\ resource[r].offset \in Nat
    BY <1>3, BoundsAssumption DEF OpenResource
  <2>2. inode[resource[r].node].data_size \in Nat
    BY <1>2, <2>1, BlockFacts
  <2> QED
    BY <2>1, <2>2
<1> HIDE DEF base
<1>5. CASE base + delta < 0
  BY <1>1, <1>2, <1>5, SameHolders DEF IInv
<1>6. CASE ~(base + delta < 0)
  <2>1. (base + delta) % SizeModulus \in 0 .. SizeModulus - 1
    <3>1. base + delta \in Nat /\ SizeModulus \in Nat \ {0}
      BY <1>4, <1>6, BoundsAssumption
    <3> QED
      BY <3>1
  <2> HIDE DEF r
  <2>2. HolderInv'
    BY <1>1, <1>2, <1>3, <1>6, <2>1, OffsetStep
  <2> QED
    BY <1>2, <2>2 DEF IInv
<1> QED
  BY <1>5, <1>6

LEMMA FcntlStep ==
    ASSUME IInv, NEW t \in Tasks, NEW s \in Slots, NEW flags \in Flags,
           syscall_fcntl(t, s, flags)
    PROVE  IInv'
<1> DEFINE r == resources[t][s]
           x == [resource[r] EXCEPT !.flags = flags]
<1>1. /\ r # NULL /\ UNCHANGED <<inode, heap, resources, alive, undefined>>
      /\ resource' = [resource EXCEPT ![r] = x]
  BY DEF syscall_fcntl
<1>2. BlockInv' /\ undefined' \in BOOLEAN /\ HolderInv
  BY <1>1, SameBlocks DEF IInv, HolderInv
<1>3. r \in Resources /\ resource[r] \in OpenResource
  BY <1>1, <1>2, HeldResource
<1> HIDE DEF r
<1>4. x \in OpenResource /\ x.ref_count = resource[r].ref_count
  BY <1>3 DEF OpenResource
<1> HIDE DEF x
<1> QED
  BY <1>1, <1>2, <1>3, <1>4, CallsKeepHolders DEF IInv

LEMMA SeeksAreNumbers == ASSUME NEW step \in Seeks PROVE step \in Int /\ -step \in Int
BY BoundsAssumption

LEMMA NextInv == IInv /\ [Next]_vars => IInv'
<1> SUFFICES ASSUME IInv, [Next]_vars PROVE IInv'
  OBVIOUS
<1>1. CASE UNCHANGED vars
  BY <1>1, SameBlocks, SameHolders DEF IInv, HolderInv, vars
<1>2. ASSUME NEW t \in Tasks, NEW file \in Files, NEW flags \in Flags, NEW truncate \in BOOLEAN,
             syscall_open(t, file, flags, truncate)
      PROVE  IInv'
  BY <1>2, OpenStep
<1>3. ASSUME NEW t \in Tasks, NEW s \in Slots, syscall_close(t, s)
      PROVE  IInv'
  BY <1>3, CloseStep
<1>4. ASSUME NEW t \in Tasks, NEW s \in Slots, NEW length \in 0 .. MaxLength, syscall_read(t, s, length)
      PROVE  IInv'
  BY <1>4, ReadStep
<1>5. ASSUME NEW t \in Tasks, NEW s \in Slots, NEW buffer \in Buffers, syscall_write(t, s, buffer)
      PROVE  IInv'
  BY <1>5, WriteStep
<1>6. ASSUME NEW t \in Tasks, NEW s \in Slots, NEW whence \in {"set", "cur", "end"}, NEW step \in Seeks,
             syscall_lseek(t, s, whence, step) \/ syscall_lseek(t, s, whence, -step)
      PROVE  IInv'
  BY <1>6, SeekStep, SeeksAreNumbers
<1>7. ASSUME NEW t \in Tasks, NEW s \in Slots, NEW flags \in Flags, syscall_fcntl(t, s, flags)
      PROVE  IInv'
  BY <1>7, FcntlStep
<1>8. ASSUME NEW t \in Tasks, NEW child \in Tasks, task_manager_task_copy(t, child)
      PROVE  IInv'
  BY <1>8, ForkStep
<1>9. ASSUME NEW t \in Tasks, task_manager_destroy_task(t)
      PROVE  IInv'
  BY <1>9, DestroyStep
<1> QED
  BY <1>1, <1>2, <1>3, <1>4, <1>5, <1>6, <1>7, <1>8, <1>9 DEF Next

\* The inductive invariant: the blocks belong to the files, and every resource counts the
\* entries that hold it, whatever the tasks call and whenever they fork and end.
THEOREM FilesInvariance == Spec => []IInv
BY InitInv, NextInv, PTL DEF Spec

\* Every block belongs to one file, has its size and only bytes that were written or zeroes,
\* and no block is lost (ramfs_write 218-230, ramfs_truncate).
THEOREM BlocksBelongToFiles == Spec => []BlocksAreOwned
<1>1. IInv => BlocksAreOwned
  <2> SUFFICES ASSUME IInv PROVE BlocksAreOwned
    OBVIOUS
  <2>1. BlockInv /\ HolderInv
    BY DEF IInv
  <2>2. ASSUME NEW r \in Resources, resource[r] # NoResource
        PROVE  /\ resource[r].node \in Files /\ resource[r].flags \in Flags
               /\ resource[r].offset \in 0 .. SizeModulus - 1
               /\ resource[r].ref_count \in 1 .. Cardinality(Tasks) * Cardinality(Slots)
    <3>1. resource[r] \in OpenResource /\ Counted(r)
      BY <2>1, <2>2 DEF HolderInv
    <3>2. resource[r].ref_count \in 1 .. Cardinality(Tasks) * Cardinality(Slots)
      <4> DEFINE n == Cardinality(Holders(resources, r))
                 m == Cardinality(Tasks) * Cardinality(Slots)
      <4>1. n \in Nat /\ n \in 0 .. m /\ resource[r].ref_count = n /\ n > 0
        BY <2>2, <3>1, HoldersAreFinite DEF Counted
      <4> HIDE DEF n, m
      <4>2. n \in 1 .. m
        BY <4>1
      <4> QED
        BY <4>1, <4>2 DEF m
    <3> QED
      BY <3>1, <3>2 DEF OpenResource
  <2>3. TypeOK
    BY <2>1, <2>2 DEF TypeOK, BlockInv, HolderInv, InodeType, HeapType, Rows
  <2> QED
    BY <2>1, <2>3 DEF BlocksAreOwned, BlockInv, OwnBlock, OwnersDiffer, NoLostBlock
<1> QED
  BY <1>1, FilesInvariance, PTL

\* No descriptor outlives its resource, and no resource its last descriptor: sharing by
\* fork and closing in any order balance (resource_remove, task_manager_task_copy).
THEOREM NoDescriptorDangles == Spec => []DescriptorsAreLive
<1>1. IInv => DescriptorsAreLive
  <2> SUFFICES ASSUME IInv, NEW r \in Resources
               PROVE  (resource[r] # NoResource) = (\E t \in Tasks, s \in Slots : resources[t][s] = r)
    BY DEF DescriptorsAreLive
  <2>1. resource[r] # NoResource <=> Cardinality(Holders(resources, r)) # 0
    BY HoldersAreFinite DEF IInv, HolderInv, Counted
  <2>2. Cardinality(Holders(resources, r)) = 0 <=> Holders(resources, r) = {}
    BY HoldersAreFinite, FS_EmptySet
  <2>3. Holders(resources, r) # {} <=> \E t \in Tasks, s \in Slots : resources[t][s] = r
    <3>1. ASSUME NEW p \in Holders(resources, r)
          PROVE  p[1] \in Tasks /\ p[2] \in Slots /\ resources[p[1]][p[2]] = r
      BY DEF Holders
    <3>2. ASSUME NEW t \in Tasks, NEW s \in Slots, resources[t][s] = r
          PROVE  <<t, s>> \in Holders(resources, r)
      BY <3>2 DEF Holders
    <3> QED
      BY <3>1, <3>2
  <2> QED
    BY <2>1, <2>2, <2>3
<1> QED
  BY <1>1, FilesInvariance, PTL

-----------------------------------------------------------------------------
(***************************************************************************)
(* The files and open files of SharedFiles: the refinement mapping.         *)
(***************************************************************************)
contents == [f \in Files |-> Contents(f)]
opened == [r \in Resources |-> Opened(r)]

LEMMA ContentsFacts ==
    ASSUME BlockInv, NEW f \in Files
    PROVE  /\ contents[f] = IF inode[f].data = NULL THEN <<>> ELSE heap[inode[f].data]
           /\ contents[f] \in Seq(Bytes)
           /\ Len(contents[f]) = inode[f].data_size
           /\ \A i \in 1 .. inode[f].data_size : contents[f][i] = heap[inode[f].data][i]
<1>1. contents[f] = IF inode[f].data = NULL THEN <<>>
                    ELSE SubSeq(heap[inode[f].data], 1, inode[f].data_size)
  BY DEF contents, Contents
<1>2. CASE inode[f].data = NULL
  <2>1. inode[f].data_size = 0
    BY <1>2, BlockFacts
  <2> QED
    BY <1>1, <1>2, <2>1
<1>3. CASE inode[f].data # NULL
  <2>1. heap[inode[f].data] \in Seq(Bytes) /\ Len(heap[inode[f].data]) = inode[f].data_size
    BY <1>3, BlockFacts
  <2>2. SubSeq(heap[inode[f].data], 1, Len(heap[inode[f].data])) = heap[inode[f].data]
    BY <2>1, SubSeqFull
  <2> QED
    BY <1>1, <1>3, <2>1, <2>2
<1> QED
  BY <1>2, <1>3

LEMMA OpenedFacts ==
    ASSUME NEW r \in Resources, resource[r] \in OpenResource \cup {NoResource}
    PROVE  /\ resource[r] = NoResource => opened[r] = Abstract!NotOpen
           /\ resource[r] # NoResource =>
                /\ opened[r] # Abstract!NotOpen
                /\ opened[r] = [file |-> resource[r].node, position |-> resource[r].offset,
                                mode |-> resource[r].flags]
                /\ opened[r].file = resource[r].node
                /\ opened[r].position = resource[r].offset
                /\ opened[r].mode = resource[r].flags
<1>1. opened[r] = IF resource[r] = NoResource THEN [file |-> "none"]
                  ELSE [file |-> resource[r].node, position |-> resource[r].offset,
                        mode |-> resource[r].flags]
  BY DEF opened, Opened
<1>2. \A f, p, m : [file |-> f, position |-> p, mode |-> m] # [file |-> "none"]
  <2>1. \A f, p, m : DOMAIN [file |-> f, position |-> p, mode |-> m] = {"file", "position", "mode"}
    OBVIOUS
  <2>2. DOMAIN [file |-> "none"] = {"file"}
    OBVIOUS
  <2> QED
    BY <2>1, <2>2
<1> QED
  BY <1>1, <1>2 DEF Abstract!NotOpen

LEMMA SameContents == ASSUME UNCHANGED <<inode, heap>> PROVE contents' = contents
BY DEF contents, Contents

LEMMA SameOpened == ASSUME UNCHANGED resource PROVE opened' = opened
BY DEF opened, Opened

LEMMA OthersHaveSameContents ==
    ASSUME BlockInv, BlockInv', NEW file \in Files, OthersKept(file), NEW f \in Files, f # file
    PROVE  contents'[f] = contents[f]
BY DEF contents, Contents, OthersKept

LEMMA TruncatedContents ==
    ASSUME BlockInv, NEW file \in Files, ramfs_truncate(file)
    PROVE  contents' = [contents EXCEPT ![file] = <<>>]
<1>1. BlockInv' /\ OthersKept(file) /\ inode'[file].data = NULL
  BY TruncateKeepsBlocks
<1>2. contents'[file] = <<>>
  BY <1>1 DEF contents, Contents
<1>3. \A f \in Files : f # file => contents'[f] = contents[f]
  BY <1>1, OthersHaveSameContents
<1> QED
  BY <1>2, <1>3 DEF contents

LEMMA WrittenContents ==
    ASSUME BlockInv, NEW file \in Files, NEW offset \in Nat, NEW buffer \in Buffers,
           buffer # <<>>, ramfs_write(file, offset, buffer, TRUE)
    PROVE  contents' = [contents EXCEPT ![file] = Abstract!Overwritten(contents[file], offset, buffer)]
<1>1. /\ BlockInv' /\ OthersKept(file) /\ inode'[file].data # NULL
      /\ heap'[inode'[file].data] = AfterWrite(file, offset, buffer)
  BY WriteKeepsBlocks
<1>2. contents'[file] = AfterWrite(file, offset, buffer)
  <2>1. heap'[inode'[file].data] \in Seq(Bytes) /\ Len(heap'[inode'[file].data]) = inode'[file].data_size
    BY <1>1 DEF BlockInv, OwnBlock, HeapType, InodeType
  <2>2. contents'[file] = SubSeq(heap'[inode'[file].data], 1, inode'[file].data_size)
    BY <1>1 DEF contents, Contents
  <2> QED
    BY <1>1, <2>1, <2>2, SubSeqFull
<1>3. Abstract!Overwritten(contents[file], offset, buffer) = AfterWrite(file, offset, buffer)
  <2>1. /\ Len(contents[file]) = inode[file].data_size
        /\ \A i \in 1 .. inode[file].data_size : contents[file][i] = heap[inode[file].data][i]
        /\ inode[file].data_size \in Nat /\ Len(buffer) \in Nat
    BY ContentsFacts, BlockFacts, BufferFacts
  <2>2. ASSUME NEW n \in Nat
        PROVE  [i \in 1 .. n |->
                  IF i \in offset + 1 .. offset + Len(buffer) THEN buffer[i - offset]
                  ELSE IF i <= inode[file].data_size THEN contents[file][i] ELSE 0]
             = [i \in 1 .. n |->
                  IF i \in offset + 1 .. offset + Len(buffer) THEN buffer[i - offset]
                  ELSE IF i <= inode[file].data_size THEN heap[inode[file].data][i] ELSE 0]
    BY <2>1
  <2> QED
    BY <2>1, <2>2 DEF Abstract!Overwritten, AfterWrite
<1>4. \A f \in Files : f # file => contents'[f] = contents[f]
  BY <1>1, OthersHaveSameContents
<1> QED
  BY <1>2, <1>3, <1>4 DEF contents

LEMMA BytesRead ==
    ASSUME BlockInv, NEW file \in Files, NEW offset \in Nat, NEW length \in Nat
    PROVE  ramfs_read(file, offset, length) = Abstract!Between(contents[file], offset, offset + length)
<1> DEFINE size == inode[file].data_size
           n == ReadLength(file, offset, length)
           upto == IF offset + length < size THEN offset + length ELSE size
           c == contents[file]
<1>1. /\ size \in Nat /\ c \in Seq(Bytes) /\ Len(c) = size
      /\ \A i \in 1 .. size : c[i] = heap[inode[file].data][i]
  BY ContentsFacts, BlockFacts
<1>2. n \in Nat /\ n = IF offset >= size THEN 0
                       ELSE IF length <= size - offset THEN length ELSE size - offset
  BY ReadLengthFacts
<1>3. ramfs_read(file, offset, length) = [i \in 1 .. n |-> heap[inode[file].data][offset + i]]
  BY DEF ramfs_read
<1>4. Abstract!Between(c, offset, offset + length) = SubSeq(c, offset + 1, upto)
  BY <1>1 DEF Abstract!Between
<1> HIDE DEF n, size, c
<1>5. upto \in Nat /\ upto <= size /\ n = IF offset + 1 <= upto THEN upto - (offset + 1) + 1 ELSE 0
  BY <1>1, <1>2
<1> HIDE DEF upto
<1>6. /\ SubSeq(c, offset + 1, upto) \in Seq(Bytes)
      /\ Len(SubSeq(c, offset + 1, upto)) = n
      /\ \A i \in 1 .. upto - (offset + 1) + 1 : SubSeq(c, offset + 1, upto)[i] = c[offset + 1 + i - 1]
  <2>1. \A i \in offset + 1 .. upto : c[i] \in Bytes
    BY <1>1, <1>5, ElementOfSeq
  <2>2. offset + 1 \in Nat /\ offset + 1 \in Int /\ upto \in Int
    BY <1>5
  <2> QED
    BY <1>1, <1>5, <2>1, <2>2, SubSeqProperties
<1>7. ASSUME NEW i \in 1 .. n
      PROVE  SubSeq(c, offset + 1, upto)[i] = heap[inode[file].data][offset + i]
  <2>1. /\ i \in 1 .. upto - (offset + 1) + 1 /\ offset + 1 + i - 1 = offset + i
        /\ offset + i \in 1 .. size
    BY <1>1, <1>2, <1>5
  <2> QED
    BY <1>1, <1>6, <2>1
<1>8. SubSeq(c, offset + 1, upto) = [i \in 1 .. n |-> SubSeq(c, offset + 1, upto)[i]]
  BY <1>6, LenProperties
<1>9. SubSeq(c, offset + 1, upto) = [i \in 1 .. n |-> heap[inode[file].data][offset + i]]
  BY <1>7, <1>8
<1> QED
  BY <1>3, <1>4, <1>9 DEF c

\* Each call is a step of the abstract files, or changes nothing they know of.
AbstractStep == ~undefined /\ UNCHANGED undefined /\ Abstract!Step

LEMMA OpenRefines ==
    ASSUME IInv, NEW t \in Tasks, NEW file \in Files, NEW flags \in Flags, NEW truncate \in BOOLEAN,
           syscall_open(t, file, flags, truncate)
    PROVE  AbstractStep
<1>1. /\ IInv' /\ ~undefined /\ UNCHANGED undefined
      /\ IF truncate THEN ramfs_truncate(file) ELSE UNCHANGED <<inode, heap>>
      /\ \/ reply' = Error /\ UNCHANGED resource
         \/ \E new \in Resources :
              /\ resource[new] = NoResource
              /\ resource' = [resource EXCEPT ![new] =
                   [node |-> file, offset |-> 0, flags |-> flags, ref_count |-> 1]]
              /\ reply' = <<"open", new>>
  BY OpenStep
<1>2. contents' = IF truncate THEN [contents EXCEPT ![file] = <<>>] ELSE contents
  <2>1. CASE truncate
    BY <1>1, <2>1, TruncatedContents DEF IInv
  <2>2. CASE ~truncate
    BY <1>1, <2>2, SameContents
  <2> QED
    BY <2>1, <2>2
<1>3. CASE reply' = Error /\ UNCHANGED resource
  <2>1. opened' = opened
    BY <1>3, SameOpened
  <2>2. Abstract!OpenFails(file, truncate)
    BY <1>2, <1>3, <2>1 DEF Abstract!OpenFails, Abstract!Error, Error, contents, opened
  <2> QED
    BY <1>1, <2>2 DEF AbstractStep, Abstract!Step
<1>4. CASE \E new \in Resources :
             /\ resource[new] = NoResource
             /\ resource' = [resource EXCEPT ![new] =
                  [node |-> file, offset |-> 0, flags |-> flags, ref_count |-> 1]]
             /\ reply' = <<"open", new>>
  <2> DEFINE x == [node |-> file, offset |-> 0, flags |-> flags, ref_count |-> 1]
  <2>1. PICK new \in Resources : /\ resource[new] = NoResource
                                 /\ resource' = [resource EXCEPT ![new] = x]
                                 /\ reply' = <<"open", new>>
    BY <1>4
  <2>2. /\ x \in OpenResource /\ x # NoResource
        /\ x.node = file /\ x.offset = 0 /\ x.flags = flags
    <3>1. x \in OpenResource
      BY BoundsAssumption DEF OpenResource
    <3> QED
      BY <3>1, NoResourceIsClosed
  <2>3. resource \in [Resources -> OpenResource \cup {NoResource}]
    BY DEF IInv, HolderInv
  <2> HIDE DEF x
  <2>4. resource'[new] = x /\ \A r \in Resources : r # new => resource'[r] = resource[r]
    BY <2>1, <2>3
  <2>5. opened[new] = Abstract!NotOpen
    BY <2>1, <2>3, OpenedFacts
  <2>6. /\ opened'[new] = [file |-> file, position |-> 0, mode |-> flags]
        /\ \A r \in Resources : r # new => opened'[r] = opened[r]
    BY <2>2, <2>4 DEF opened, Opened
  <2>7. opened' = [opened EXCEPT ![new] = [file |-> file, position |-> 0, mode |-> flags]]
    BY <2>6 DEF opened
  <2>8. Abstract!Open(new, file, flags, truncate)
    BY <1>2, <2>1, <2>5, <2>7 DEF Abstract!Open, contents, opened
  <2> QED
    BY <1>1, <2>8 DEF AbstractStep, Abstract!Step
<1> QED
  BY <1>1, <1>3, <1>4

LEMMA RemovalRefines ==
    ASSUME IInv, IInv', SameOrClosed, ~undefined, UNCHANGED <<inode, heap, reply, undefined>>
    PROVE  AbstractStep
<1> DEFINE those == {r \in Resources : resource[r] # NoResource /\ resource'[r] = NoResource}
<1>1. /\ resource \in [Resources -> OpenResource \cup {NoResource}]
      /\ resource' \in [Resources -> OpenResource \cup {NoResource}]
  BY DEF IInv, HolderInv
<1>2. \A r \in those : opened[r] # Abstract!NotOpen
  BY <1>1, OpenedFacts
<1>3. ASSUME NEW r \in Resources
      PROVE  opened'[r] = IF r \in those THEN Abstract!NotOpen ELSE opened[r]
  BY DEF SameOrClosed, opened, Opened, Abstract!NotOpen
<1>4. opened' = [r \in Resources |-> IF r \in those THEN Abstract!NotOpen ELSE opened[r]]
  <2>1. opened' = [r \in Resources |-> opened'[r]]
    BY DEF opened
  <2> HIDE DEF those
  <2> QED
    BY <1>3, <2>1
<1>5. contents' = contents
  BY SameContents
<1>6. those \in SUBSET Resources
  OBVIOUS
<1> HIDE DEF those
<1>7. Abstract!Close(those)
  BY <1>2, <1>4, <1>5 DEF Abstract!Close, contents, opened
<1> QED
  BY <1>6, <1>7 DEF AbstractStep, Abstract!Step

LEMMA ForkRefines ==
    ASSUME IInv, NEW t \in Tasks, NEW child \in Tasks, task_manager_task_copy(t, child)
    PROVE  UNCHANGED <<contents, opened, reply, undefined>>
<1>1. UNCHANGED <<inode, heap, reply, undefined>>
  BY DEF task_manager_task_copy
<1>2. \A r \in Resources :
        /\ (resource'[r] = NoResource) <=> (resource[r] = NoResource)
        /\ resource[r] # NoResource =>
             /\ resource'[r].node = resource[r].node
             /\ resource'[r].offset = resource[r].offset
             /\ resource'[r].flags = resource[r].flags
  BY ForkKeepsHolders DEF IInv
<1>3. \A r \in Resources : opened'[r] = opened[r]
  BY <1>2 DEF opened, Opened
<1>4. opened' = opened
  BY <1>3 DEF opened
<1> QED
  BY <1>1, <1>4, SameContents

\* The position of an open file, and its mode, follow those of the resource.
LEMMA OpenedMoves ==
    ASSUME HolderInv, NEW r \in Resources, resource[r] \in OpenResource, NEW offset,
           resource' = [resource EXCEPT ![r].offset = offset]
    PROVE  opened' = [opened EXCEPT ![r].position = offset]
<1>1. /\ resource \in [Resources -> OpenResource \cup {NoResource}]
      /\ resource[r] # NoResource
  BY NoResourceIsClosed DEF HolderInv
<1>2. /\ resource'[r].node = resource[r].node /\ resource'[r].offset = offset
      /\ resource'[r].flags = resource[r].flags
      /\ resource'[r] # NoResource
      /\ \A q \in Resources : q # r => resource'[q] = resource[q]
  <2> DEFINE y == [resource[r] EXCEPT !.offset = offset]
  <2>1. /\ y.node = resource[r].node /\ y.offset = offset /\ y.flags = resource[r].flags
        /\ DOMAIN y = {"node", "offset", "flags", "ref_count"}
    BY DEF OpenResource
  <2>2. y # NoResource
    <3>1. DOMAIN NoResource = {"node"}
      BY DEF NoResource
    <3>2. {"node"} # {"node", "offset", "flags", "ref_count"}
      OBVIOUS
    <3> HIDE DEF y
    <3> QED
      BY <2>1, <3>1, <3>2
  <2>3. resource'[r] = y /\ \A q \in Resources : q # r => resource'[q] = resource[q]
    BY <1>1
  <2> HIDE DEF y
  <2> QED
    BY <2>1, <2>2, <2>3
<1>3. /\ opened[r] = [file |-> resource[r].node, position |-> resource[r].offset, mode |-> resource[r].flags]
      /\ opened'[r] = [file |-> resource[r].node, position |-> offset, mode |-> resource[r].flags]
      /\ \A q \in Resources : q # r => opened'[q] = opened[q]
  BY <1>1, <1>2 DEF opened, Opened
<1>4. opened'[r] = [opened[r] EXCEPT !.position = offset]
  BY <1>3
<1> QED
  BY <1>3, <1>4 DEF opened

LEMMA OpenedChangesMode ==
    ASSUME HolderInv, NEW r \in Resources, resource[r] \in OpenResource, NEW flags \in Flags,
           resource' = [resource EXCEPT ![r].flags = flags]
    PROVE  opened' = [opened EXCEPT ![r].mode = flags]
<1> DEFINE y == [resource[r] EXCEPT !.flags = flags]
<1>1. /\ resource \in [Resources -> OpenResource \cup {NoResource}]
      /\ resource[r] # NoResource
  BY NoResourceIsClosed DEF HolderInv
<1>2. /\ y \in OpenResource
      /\ y.node = resource[r].node /\ y.offset = resource[r].offset /\ y.flags = flags
  BY DEF OpenResource
<1>3. resource'[r] = y /\ \A q \in Resources : q # r => resource'[q] = resource[q]
  BY <1>1
<1> HIDE DEF y
<1>4. y # NoResource
  BY <1>2, NoResourceIsClosed
<1>5. /\ opened[r] = [file |-> resource[r].node, position |-> resource[r].offset, mode |-> resource[r].flags]
      /\ opened'[r] = [file |-> resource[r].node, position |-> resource[r].offset, mode |-> flags]
      /\ \A q \in Resources : q # r => opened'[q] = opened[q]
  BY <1>1, <1>2, <1>3, <1>4 DEF opened, Opened
<1>6. opened'[r] = [opened[r] EXCEPT !.mode = flags]
  BY <1>5
<1> QED
  BY <1>5, <1>6 DEF opened

\* What the abstract files see of the entry that a call is made with.
LEMMA HeldOpened ==
    ASSUME IInv, NEW t \in Tasks, NEW s \in Slots, resources[t][s] # NULL
    PROVE  LET r == resources[t][s]
           IN /\ HolderInv /\ BlockInv
              /\ r \in Resources /\ resource[r] \in OpenResource
              /\ opened[r] # Abstract!NotOpen
              /\ opened[r].file = resource[r].node /\ resource[r].node \in Files
              /\ opened[r].position = resource[r].offset /\ resource[r].offset \in Nat
              /\ opened[r].mode = resource[r].flags
<1> DEFINE r == resources[t][s]
<1>1. HolderInv /\ BlockInv
  BY DEF IInv
<1>2. r \in Resources /\ resource[r] \in OpenResource
  BY <1>1, HeldResource
<1> HIDE DEF r
<1>3. resource[r] # NoResource /\ resource[r].node \in Files /\ resource[r].offset \in Nat
  BY <1>2, NoResourceIsClosed, BoundsAssumption DEF OpenResource
<1> QED
  BY <1>1, <1>2, <1>3, OpenedFacts DEF r

LEMMA ReadRefines ==
    ASSUME IInv, NEW t \in Tasks, NEW s \in Slots, NEW length \in 0 .. MaxLength,
           syscall_read(t, s, length)
    PROVE  AbstractStep
<1> DEFINE r == resources[t][s]
           bytes == ramfs_read(resource[r].node, resource[r].offset, length)
<1>1. /\ r # NULL /\ ~undefined /\ UNCHANGED <<inode, heap, undefined>>
      /\ IF resource[r].flags = "write" \/ length = 0
         THEN reply' = Error /\ UNCHANGED resource
         ELSE /\ reply' = <<"read", r, bytes>>
              /\ resource' = [resource EXCEPT ![r].offset = @ + Len(bytes)]
  BY DEF syscall_read, Running
<1>2. /\ HolderInv /\ BlockInv /\ r \in Resources /\ resource[r] \in OpenResource
      /\ opened[r] # Abstract!NotOpen
      /\ opened[r].file = resource[r].node /\ resource[r].node \in Files
      /\ opened[r].position = resource[r].offset /\ resource[r].offset \in Nat
      /\ opened[r].mode = resource[r].flags
  BY <1>1, HeldOpened
<1> DEFINE from == opened[r].position
           got  == Abstract!Between(contents[opened[r].file], from, from + length)
<1>3. contents' = contents
  BY <1>1, SameContents
<1>4. bytes = got
  <2>1. length \in Nat
    BY BoundsAssumption
  <2>2. ramfs_read(resource[r].node, resource[r].offset, length)
          = Abstract!Between(contents[resource[r].node], resource[r].offset, resource[r].offset + length)
    BY <1>2, <2>1, BytesRead
  <2> QED
    BY <1>2, <2>2
<1> HIDE DEF r, bytes
<1>5. IF length = 0 \/ opened[r].mode = "write"
      THEN reply' = Error /\ opened' = opened
      ELSE /\ reply' = <<"read", r, got>>
           /\ opened' = [opened EXCEPT ![r].position = from + Len(got)]
  <2>1. CASE length = 0 \/ opened[r].mode = "write"
    BY <1>1, <1>2, <2>1, SameOpened
  <2>2. CASE ~(length = 0 \/ opened[r].mode = "write")
    <3> DEFINE to == resource[r].offset + Len(bytes)
    <3>1. reply' = <<"read", r, bytes>> /\ resource' = [resource EXCEPT ![r].offset = to]
      BY <1>1, <1>2, <2>2
    <3>2. to = from + Len(got)
      BY <1>2, <1>4
    <3> HIDE DEF to, got, from
    <3>3. opened' = [opened EXCEPT ![r].position = to]
      BY <1>2, <3>1, OpenedMoves
    <3> QED
      BY <1>4, <2>2, <3>1, <3>2, <3>3
  <2> QED
    BY <2>1, <2>2
<1>6. Abstract!Read(r, length)
  BY <1>2, <1>3, <1>5 DEF Abstract!Read, Abstract!Error, Error, contents, opened
<1> QED
  BY <1>1, <1>2, <1>6 DEF AbstractStep, Abstract!Step

LEMMA WriteRefines ==
    ASSUME IInv, NEW t \in Tasks, NEW s \in Slots, NEW buffer \in Buffers,
           syscall_write(t, s, buffer)
    PROVE  AbstractStep \/ (~undefined /\ Abstract!WriteTooFar(resources[t][s], buffer))
<1> DEFINE r == resources[t][s]
           file == resource[r].node
           offset == resource[r].offset
<1>1. /\ r # NULL /\ ~undefined
      /\ \/ /\ resource[r].flags = "read" \/ buffer = <<>>
            /\ reply' = Error
            /\ UNCHANGED <<inode, heap, resource, undefined>>
         \/ /\ resource[r].flags # "read" /\ buffer # <<>>
            /\ \E ok \in BOOLEAN :
                 /\ ramfs_write(file, offset, buffer, ok)
                 /\ resource' = OffsetMoved(r, buffer, ok)
                 /\ reply' = IF ok THEN <<"write", r, Len(buffer)>> ELSE Error
            /\ UNCHANGED undefined
         \/ /\ resource[r].flags # "read" /\ buffer # <<>>
            /\ LeavesBlock(file, offset, buffer)
            /\ undefined' = TRUE
            /\ UNCHANGED <<inode, heap, resource, reply>>
  BY DEF syscall_write, Running
<1>2. /\ HolderInv /\ BlockInv /\ r \in Resources /\ resource[r] \in OpenResource
      /\ opened[r] # Abstract!NotOpen
      /\ opened[r].file = file /\ file \in Files
      /\ opened[r].position = offset /\ offset \in Nat
      /\ opened[r].mode = resource[r].flags
  BY <1>1, HeldOpened
<1> HIDE DEF r, file, offset
<1>3. CASE /\ resource[r].flags = "read" \/ buffer = <<>>
           /\ reply' = Error
           /\ UNCHANGED <<inode, heap, resource, undefined>>
  <2>1. contents' = contents /\ opened' = opened
    BY <1>3, SameContents, SameOpened
  <2>2. Abstract!Write(r, buffer)
    BY <1>2, <1>3, <2>1 DEF Abstract!Write, Abstract!Error, Error, contents, opened
  <2> QED
    BY <1>1, <1>2, <1>3, <2>2 DEF AbstractStep, Abstract!Step
<1>4. CASE /\ resource[r].flags # "read" /\ buffer # <<>>
           /\ \E ok \in BOOLEAN :
                /\ ramfs_write(file, offset, buffer, ok)
                /\ resource' = OffsetMoved(r, buffer, ok)
                /\ reply' = IF ok THEN <<"write", r, Len(buffer)>> ELSE Error
           /\ UNCHANGED undefined
  <2>1. PICK ok \in BOOLEAN :
          /\ ramfs_write(file, offset, buffer, ok)
          /\ resource' = OffsetMoved(r, buffer, ok)
          /\ reply' = IF ok THEN <<"write", r, Len(buffer)>> ELSE Error
    BY <1>4
  <2>2. Len(buffer) \in Nat /\ (ok => offset + Len(buffer) < SizeModulus)
    BY <1>2, <1>4, <2>1, BufferFacts, WriteKeepsBlocks, BoundsAssumption DEF Wraps
  <2>3. CASE ok = TRUE
    <3>1. contents' = [contents EXCEPT ![file] = Abstract!Overwritten(contents[file], offset, buffer)]
      BY <1>2, <1>4, <2>1, <2>3, WrittenContents
    <3>2. resource' = [resource EXCEPT ![r].offset = offset + Len(buffer)]
      BY <2>1, <2>3 DEF OffsetMoved, offset
    <3>3. opened' = [opened EXCEPT ![r].position = offset + Len(buffer)]
      BY <1>2, <3>2, OpenedMoves
    <3>4. reply' = <<"write", r, Len(buffer)>>
      BY <2>1, <2>3
    <3>5. Abstract!Write(r, buffer)
      BY <1>2, <1>4, <2>2, <2>3, <3>1, <3>3, <3>4 DEF Abstract!Write, contents, opened
    <3> QED
      BY <1>1, <1>2, <1>4, <3>5 DEF AbstractStep, Abstract!Step
  <2>4. CASE ok = FALSE
    <3>1. UNCHANGED <<heap, inode>> /\ offset + Len(buffer) > inode[file].data_size
      BY <1>2, <1>4, <2>1, <2>4, WriteKeepsBlocks
    <3>2. UNCHANGED resource /\ reply' = Error
      BY <2>1, <2>4 DEF OffsetMoved
    <3>3. contents' = contents /\ opened' = opened
      BY <3>1, <3>2, SameContents, SameOpened
    <3>4. Len(contents[file]) = inode[file].data_size
      BY <1>2, ContentsFacts
    <3>5. Abstract!WriteFails(r, buffer)
      BY <1>2, <3>1, <3>2, <3>3, <3>4 DEF Abstract!WriteFails, Abstract!Error, Error, contents, opened
    <3> QED
      BY <1>1, <1>2, <1>4, <3>5 DEF AbstractStep, Abstract!Step
  <2> QED
    BY <2>3, <2>4
<1>5. CASE /\ resource[r].flags # "read" /\ buffer # <<>>
           /\ LeavesBlock(file, offset, buffer)
           /\ undefined' = TRUE
           /\ UNCHANGED <<inode, heap, resource, reply>>
  <2>1. contents' = contents /\ opened' = opened
    BY <1>5, SameContents, SameOpened
  <2>2. /\ Len(buffer) \in Nat /\ inode[file].data_size \in 0 .. SizeModulus - 1
        /\ Len(contents[file]) = inode[file].data_size
    BY <1>2, BufferFacts, ContentsFacts DEF BlockInv, InodeType
  <2>3. /\ offset + Len(buffer) >= GrowthLimit
        /\ offset + Len(buffer) > inode[file].data_size
    <3>1. CASE Wraps(offset, buffer)
      BY <1>2, <2>2, <3>1, BoundsAssumption DEF Wraps
    <3>2. CASE ~Wraps(offset, buffer)
      <4>1. RequiredSize(offset, buffer) = offset + Len(buffer)
        BY <1>2, <2>2, <3>2, RequiredSizeFacts
      <4>2. /\ offset + Len(buffer) > inode[file].data_size
            /\ Astray \in kernel_heap_malloc(heap, offset + Len(buffer))
        BY <1>5, <3>2, <4>1 DEF LeavesBlock
      <4>3. offset + Len(buffer) >= GrowthLimit
        <5>1. Astray # NULL /\ Astray \notin Nat
          BY DEF Astray, NULL
        <5>2. Astray \notin Addresses
          BY FiniteAssumption, FS_CardinalityType DEF Addresses, Astray
        <5>3. \A h, size : h \in [Addresses -> Seq(Int)] /\ {a \in Addresses : h[a] = Free} # {} =>
                 Min({a \in Addresses : h[a] = Free}) # Astray
          <6>1. Addresses \subseteq Nat
            BY FiniteAssumption, FS_CardinalityType DEF Addresses
          <6> QED
            BY <5>2, <6>1, MinOfNumbers
        <5>4. heap \in [Addresses -> Seq(Int)]
          BY <1>2 DEF BlockInv, HeapType
        <5>5. offset + Len(buffer) >= GrowthLimit \/ RoundsToNone(offset + Len(buffer))
          BY <4>2, <5>1, <5>3, <5>4 DEF kernel_heap_malloc
        <5> QED
          BY <1>2, <2>2, <5>5, BoundsAssumption DEF RoundsToNone
      <4> QED
        BY <4>2, <4>3
    <3> QED
      BY <3>1, <3>2
  <2>4. Abstract!WriteTooFar(r, buffer)
    BY <1>2, <1>5, <2>1, <2>2, <2>3 DEF Abstract!WriteTooFar, contents, opened
  <2> QED
    BY <1>1, <2>4 DEF r
<1> QED
  BY <1>1, <1>3, <1>4, <1>5

LEMMA SeekRefines ==
    ASSUME IInv, NEW t \in Tasks, NEW s \in Slots, NEW whence \in {"set", "cur", "end"},
           NEW delta \in Seeks \cup {-step : step \in Seeks}, syscall_lseek(t, s, whence, delta)
    PROVE  AbstractStep
<1> DEFINE r == resources[t][s]
           base == CASE whence = "set" -> 0
                     [] whence = "cur" -> resource[r].offset
                     [] OTHER -> inode[resource[r].node].data_size
           from == CASE whence = "set" -> 0
                     [] whence = "cur" -> opened[r].position
                     [] OTHER -> Len(contents[opened[r].file])
<1>1. /\ r # NULL /\ ~undefined /\ UNCHANGED <<inode, heap, undefined>>
      /\ IF base + delta < 0
         THEN reply' = Error /\ UNCHANGED resource
         ELSE /\ resource' = [resource EXCEPT ![r].offset = (base + delta) % SizeModulus]
              /\ reply' = <<"seek", r, (base + delta) % SizeModulus>>
  BY DEF syscall_lseek, Running
<1>2. /\ HolderInv /\ BlockInv /\ r \in Resources /\ resource[r] \in OpenResource
      /\ opened[r] # Abstract!NotOpen
      /\ opened[r].file = resource[r].node /\ resource[r].node \in Files
      /\ opened[r].position = resource[r].offset
  BY <1>1, HeldOpened
<1>3. from = base
  <2>1. Len(contents[resource[r].node]) = inode[resource[r].node].data_size
    BY <1>2, ContentsFacts
  <2> HIDE DEF r
  <2> QED
    BY <1>2, <2>1
<1>4. contents' = contents
  BY <1>1, SameContents
<1> HIDE DEF r, base, from
<1>5. IF from + delta < 0
      THEN reply' = Error /\ opened' = opened
      ELSE /\ reply' = <<"seek", r, (from + delta) % SizeModulus>>
           /\ opened' = [opened EXCEPT ![r].position = (from + delta) % SizeModulus]
  <2>1. CASE base + delta < 0
    BY <1>1, <1>3, <2>1, SameOpened
  <2>2. CASE ~(base + delta < 0)
    <3> DEFINE to == (base + delta) % SizeModulus
    <3>1. resource' = [resource EXCEPT ![r].offset = to] /\ reply' = <<"seek", r, to>>
      BY <1>1, <2>2
    <3>2. to = (from + delta) % SizeModulus
      BY <1>3
    <3> HIDE DEF to
    <3>3. opened' = [opened EXCEPT ![r].position = to]
      BY <1>2, <3>1, OpenedMoves
    <3> QED
      BY <1>3, <2>2, <3>1, <3>2, <3>3
  <2> QED
    BY <2>1, <2>2
<1>6. Abstract!Seek(r, whence, delta)
  BY <1>2, <1>4, <1>5 DEF Abstract!Seek, Abstract!Error, Error, from, contents, opened
<1> QED
  BY <1>1, <1>2, <1>6 DEF AbstractStep, Abstract!Step

LEMMA FcntlRefines ==
    ASSUME IInv, NEW t \in Tasks, NEW s \in Slots, NEW flags \in Flags, syscall_fcntl(t, s, flags)
    PROVE  AbstractStep
<1> DEFINE r == resources[t][s]
<1>1. /\ r # NULL /\ ~undefined /\ UNCHANGED <<inode, heap, undefined>>
      /\ resource' = [resource EXCEPT ![r].flags = flags]
      /\ reply' = <<"fcntl", r>>
  BY DEF syscall_fcntl, Running
<1>2. /\ HolderInv /\ r \in Resources /\ resource[r] \in OpenResource
      /\ opened[r] # Abstract!NotOpen
  BY <1>1, HeldOpened
<1> HIDE DEF r
<1>3. opened' = [opened EXCEPT ![r].mode = flags]
  BY <1>1, <1>2, OpenedChangesMode
<1>4. Abstract!SetMode(r, flags)
  BY <1>1, <1>2, <1>3, SameContents DEF Abstract!SetMode, contents, opened
<1> QED
  BY <1>1, <1>2, <1>4 DEF AbstractStep, Abstract!Step

\* open, read, write, lseek, fcntl, close, fork and exit on blocks, shared resources and
\* tables are steps of plain files with one position per open file (SharedFiles): no byte
\* is read that was not written but zeroes, a failed write changes nothing, and nobody sees
\* that a block has moved - up to the first write that would make a file of GrowthLimit bytes.
THEOREM FilesAreShared == Spec => FilesSpec
<1>1. Init => Abstract!Init
  <2> SUFFICES ASSUME Init PROVE Abstract!Init
    OBVIOUS
  <2>1. \A f \in Files : Contents(f) = <<>>
    BY DEF Init, Contents
  <2>2. contents \in [Files -> Seq(Bytes)]
    <3>1. <<>> \in Seq(Bytes)
      OBVIOUS
    <3>2. contents = [f \in Files |-> <<>>]
      BY <2>1 DEF contents
    <3> QED
      BY <3>1, <3>2
  <2>3. \A r \in Resources : Opened(r) = [file |-> "none"]
    BY DEF Init, Opened
  <2>4. opened = [r \in Resources |-> [file |-> "none"]]
    BY <2>3 DEF opened
  <2> QED
    BY <2>2, <2>4 DEF Init, Error, Abstract!Init, Abstract!NotOpen, Abstract!Error, contents, opened
<1>2. IInv /\ IInv' /\ [Next]_vars => [Abstract!Next]_(Abstract!vars)
  <2> SUFFICES ASSUME IInv, IInv', [Next]_vars
               PROVE  \/ AbstractStep
                      \/ ~undefined /\ \E r \in Resources, buffer \in Buffers : Abstract!WriteTooFar(r, buffer)
                      \/ UNCHANGED <<contents, opened, reply, undefined>>
    BY DEF AbstractStep, Abstract!Next, Abstract!vars, contents, opened
  <2>1. CASE UNCHANGED vars
    BY <2>1, SameContents, SameOpened DEF vars
  <2>2. ASSUME NEW t \in Tasks, NEW file \in Files, NEW flags \in Flags, NEW truncate \in BOOLEAN,
               syscall_open(t, file, flags, truncate)
        PROVE  AbstractStep
    BY <2>2, OpenRefines
  <2>3. ASSUME NEW t \in Tasks, NEW s \in Slots, syscall_close(t, s)
        PROVE  AbstractStep
    <3>1. ~undefined /\ UNCHANGED <<inode, heap, reply, undefined>>
      BY <2>3 DEF syscall_close, Running
    <3> QED
      BY <2>3, <3>1, CloseStep, RemovalRefines
  <2>4. ASSUME NEW t \in Tasks, NEW s \in Slots, NEW length \in 0 .. MaxLength, syscall_read(t, s, length)
        PROVE  AbstractStep
    BY <2>4, ReadRefines
  <2>5. ASSUME NEW t \in Tasks, NEW s \in Slots, NEW buffer \in Buffers, syscall_write(t, s, buffer)
        PROVE  \/ AbstractStep
               \/ ~undefined /\ \E r \in Resources : Abstract!WriteTooFar(r, buffer)
    <3>1. resources[t][s] \in Resources
      BY <2>5, HeldOpened DEF syscall_write
    <3> QED
      BY <2>5, <3>1, WriteRefines
  <2>6. ASSUME NEW t \in Tasks, NEW s \in Slots, NEW whence \in {"set", "cur", "end"}, NEW step \in Seeks,
               syscall_lseek(t, s, whence, step) \/ syscall_lseek(t, s, whence, -step)
        PROVE  AbstractStep
    BY <2>6, SeekRefines
  <2>7. ASSUME NEW t \in Tasks, NEW s \in Slots, NEW flags \in Flags, syscall_fcntl(t, s, flags)
        PROVE  AbstractStep
    BY <2>7, FcntlRefines
  <2>8. ASSUME NEW t \in Tasks, NEW child \in Tasks, task_manager_task_copy(t, child)
        PROVE  UNCHANGED <<contents, opened, reply, undefined>>
    BY <2>8, ForkRefines
  <2>9. ASSUME NEW t \in Tasks, task_manager_destroy_task(t)
        PROVE  AbstractStep
    <3>1. ~undefined /\ UNCHANGED <<inode, heap, reply, undefined>>
      BY <2>9 DEF task_manager_destroy_task, Running
    <3> QED
      BY <2>9, <3>1, DestroyStep, RemovalRefines
  <2> QED
    BY <2>1, <2>2, <2>3, <2>4, <2>5, <2>6, <2>7, <2>8, <2>9 DEF Next
<1> QED
  BY <1>1, <1>2, FilesInvariance, PTL DEF Spec, FilesSpec, Abstract!Spec

=============================================================================
