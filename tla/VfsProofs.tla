------------------------------ MODULE VfsProofs ------------------------------
(***************************************************************************)
(* Open files keep what they stand on: proofs that no node, inode or        *)
(* resource is freed while something refers to it, that a file has one      *)
(* node, and that reference counts and link counts are exact, for every     *)
(* number of tasks, descriptors, devices, paths and files.                  *)
(*                                                                         *)
(* An operation of Vfs maps a file system s to another in several steps,    *)
(* so the invariant is stated of s and of a function U that gives for every *)
(* node the number of its users: open resources and the call in progress.   *)
(***************************************************************************)
EXTENDS Vfs, FiniteSetTheorems, SequenceTheorems, WellFoundedInduction, TLAPS

-----------------------------------------------------------------------------
(* The inductive invariant.                                                 *)

\* Where the node of a file is: there is never a second one, so the number is 1.
Address(cache_index, index) == <<cache_index, index, 1>>
Addresses == {Ramfs, Devfs} \X Int \X {1}

Types == {"file", "dir"}
NodeRecords == [cache_index : {Ramfs, Devfs}, index : Int, type : Types,
                mount : {None, DevfsNode}, ref_count : Nat, lost : Nat]
InodeRecords == [type : Types, link_count : Nat]

\* The nodes the kernel holds for ever: the root, and both ends of the mount.
Kept == {Root, DevDirectory, DevfsNode}

IsFileSystem(s) ==
    s = [vnodes |-> s.vnodes, cache |-> s.cache, inodes |-> s.inodes, entries |-> s.entries,
         last_index |-> s.last_index, unplaced |-> s.unplaced]

\* All nodes are in the cache, each at the address of its file.
NodesInv(s) ==
    /\ s.vnodes \in [DOMAIN s.vnodes -> NodeRecords]
    /\ Kept \subseteq DOMAIN s.vnodes
    /\ s.cache = DOMAIN s.vnodes
    /\ \A v \in DOMAIN s.vnodes :
          /\ v = Address(s.vnodes[v].cache_index, s.vnodes[v].index)
          /\ s.vnodes[v].mount = IF v = DevDirectory THEN DevfsNode ELSE None

\* Directories and files without a place are never unlinked.
InodesInv(s) ==
    /\ s.inodes \in [DOMAIN s.inodes -> InodeRecords]
    /\ DOMAIN s.inodes \subseteq Nat /\ s.last_index \in Nat
    /\ \A i \in DOMAIN s.inodes : i < s.last_index
    /\ \A i \in DOMAIN s.inodes : s.inodes[i].type = "dir" => s.inodes[i].link_count > 0
    /\ s.unplaced \subseteq DOMAIN s.inodes
    /\ \A i \in s.unplaced : s.inodes[i].link_count > 0

Names(entries, i) == {e \in DOMAIN entries : entries[e] = i}

\* A name is in a directory, and stands for a file that has a place.
EntriesInv(s) ==
    /\ IsFiniteSet(DOMAIN s.entries)
    /\ s.entries \in [DOMAIN s.entries -> Nat]
    /\ \A e \in DOMAIN s.entries :
          /\ e = <<e[1], e[2]>>
          /\ e[1] \in DOMAIN s.inodes /\ s.inodes[e[1]].type = "dir"
          /\ s.entries[e] \in DOMAIN s.inodes \ s.unplaced
          /\ s.entries[e] # e[1]

\* The file of a ramfs node is there; only the root is used without a place.
FilesInv(s) ==
    \A v \in DOMAIN s.vnodes : s.vnodes[v].cache_index = Ramfs =>
        /\ s.vnodes[v].index \in DOMAIN s.inodes
        /\ s.vnodes[v].type = s.inodes[s.vnodes[v].index].type
        /\ s.vnodes[v].index \in s.unplaced => s.vnodes[v].type = "dir"

LinksInv(s) ==
    \A i \in DOMAIN s.inodes \ s.unplaced :
        /\ s.inodes[i].link_count = Cardinality(Names(s.entries, i))
        /\ s.inodes[i].link_count = 0 => Address(Ramfs, i) \in DOMAIN s.vnodes

\* The count of a node is the cache's reference, the kernel's own, its users and what is lost.
CountsInv(s, U) ==
    /\ U \in [Addresses -> Nat]
    /\ \A v \in DOMAIN s.vnodes :
          s.vnodes[v].ref_count = 1 + One(v \in Kept) + U[v] + s.vnodes[v].lost
    /\ \A v \in Addresses \ DOMAIN s.vnodes : U[v] = 0

TreeInv(s, U) ==
    /\ IsFileSystem(s) /\ NodesInv(s) /\ InodesInv(s) /\ EntriesInv(s) /\ FilesInv(s) /\ LinksInv(s)
    /\ CountsInv(s, U)

\* A node that nobody refers to has been evicted, except for those in X.
UsedBut(s, U, X) ==
    \A v \in DOMAIN s.vnodes \ X : One(v \in Kept) + U[v] + s.vnodes[v].lost > 0

\* The users of a node: the resources rs, the node the walk is at, the source of a link.
Opened(rs, v) == Cardinality({r \in DOMAIN rs : rs[r].node = v})
Users(rs, current, source) ==
    [v \in Addresses |-> Opened(rs, v) + One(current = v) + One(source = v)]

Slots == 1 .. MaxResources
ResourceRecords == [node : Addresses, ref_count : Nat \ {0}]
Holders(sl, r) == {p \in Tasks \X Slots : sl[p[1]][p[2]] = r}

\* Every resource of rs is in as many slots of sl as it counts, and only the tasks T that exist
\* have any.
SlotsInv(rs, sl, T) ==
    /\ IsFiniteSet(DOMAIN rs) /\ DOMAIN rs \subseteq Nat \ {0}
    /\ rs \in [DOMAIN rs -> ResourceRecords]
    /\ T \subseteq Tasks /\ InitTask \in T /\ IsFiniteSet(T)
    /\ sl \in [Tasks -> [Slots -> {Empty} \cup DOMAIN rs]]
    /\ \A t \in Tasks \ T : \A i \in Slots : sl[t][i] = Empty
    /\ \A r \in DOMAIN rs : rs[r].ref_count = Cardinality(Holders(sl, r))

\* Only link keeps a second node, and this is a file of ramfs.
SourceInv(s, source) ==
    source # None => /\ source \in DOMAIN s.vnodes
                     /\ s.vnodes[source].type = "file" /\ s.vnodes[source].cache_index = Ramfs

\* The file system s counts the resources rs and the nodes of a call.
Sound(s, rs, current, source, X) ==
    /\ TreeInv(s, Users(rs, current, source))
    /\ UsedBut(s, Users(rs, current, source), X)
    /\ SourceInv(s, source)

\* A call that walks stands on a node.
CallInv ==
    /\ call \in [op : {"none", "open", "stat", "execve", "link", "unlink", "destroy"},
                 task : tasks, create : BOOLEAN, stage : {"node", "parent"},
                 path : Seq(STRING), rest : Seq(STRING),
                 current : {None} \cup Addresses, source : {None} \cup Addresses]
    /\ call.current = None <=> call.op \in {"none", "destroy"}
    /\ call.source # None <=> call.op = "link" /\ call.stage = "parent"
    /\ call.op = "destroy" => call.task # InitTask

IInv ==
    /\ Sound(fs, resources, call.current, call.source, {})
    /\ SlotsInv(resources, slots, tasks)
    /\ CallInv

-----------------------------------------------------------------------------
(* Counting locks.                                                          *)

LEMMA OneIsNumber == ASSUME NEW b \in BOOLEAN PROVE One(b) \in {0, 1}
BY DEF One

LEMMA NodeFacts ==
    ASSUME NEW s, NodesInv(s), NEW v \in DOMAIN s.vnodes
    PROVE  /\ v \in Addresses
           /\ s.vnodes[v] \in NodeRecords
           /\ v = Address(s.vnodes[v].cache_index, s.vnodes[v].index)
           /\ s.vnodes[v].mount = IF v = DevDirectory THEN DevfsNode ELSE None
<1>1. /\ s.vnodes[v] \in NodeRecords
      /\ v = Address(s.vnodes[v].cache_index, s.vnodes[v].index)
      /\ s.vnodes[v].mount = IF v = DevDirectory THEN DevfsNode ELSE None
  BY DEF NodesInv
<1>2. s.vnodes[v].cache_index \in {Ramfs, Devfs} /\ s.vnodes[v].index \in Int
  BY <1>1 DEF NodeRecords
<1> QED
  BY <1>1, <1>2 DEF Addresses, Address

\* t has the nodes of s, with other counts.
Recounted(s, t) ==
    /\ IsFileSystem(t)
    /\ t.vnodes \in [DOMAIN s.vnodes -> NodeRecords]
    /\ \A v \in DOMAIN s.vnodes :
          /\ t.vnodes[v].cache_index = s.vnodes[v].cache_index
          /\ t.vnodes[v].index = s.vnodes[v].index
          /\ t.vnodes[v].type = s.vnodes[v].type
          /\ t.vnodes[v].mount = s.vnodes[v].mount
    /\ t.cache = s.cache /\ t.inodes = s.inodes /\ t.entries = s.entries
    /\ t.last_index = s.last_index /\ t.unplaced = s.unplaced

LEMMA RecountedKeeps ==
    ASSUME NEW s, NEW t, NEW U, NEW W, TreeInv(s, U), Recounted(s, t), CountsInv(t, W)
    PROVE  TreeInv(t, W)
<1>1. DOMAIN t.vnodes = DOMAIN s.vnodes
  BY DEF Recounted
<1>2. NodesInv(t)
  BY <1>1 DEF TreeInv, NodesInv, Recounted
<1>3. InodesInv(t)
  BY DEF TreeInv, InodesInv, Recounted
<1>4. EntriesInv(t)
  BY DEF TreeInv, EntriesInv, Recounted
<1>5. FilesInv(t)
  BY <1>1 DEF TreeInv, FilesInv, Recounted
<1>6. LinksInv(t)
  BY <1>1 DEF TreeInv, LinksInv, Recounted, Names
<1> QED
  BY <1>2, <1>3, <1>4, <1>5, <1>6 DEF TreeInv, Recounted

\* vfs_lock_node.
LEMMA LockedFacts ==
    ASSUME NEW s, IsFileSystem(s), NodesInv(s), NEW v \in DOMAIN s.vnodes
    PROVE  /\ Recounted(s, Locked(s, v))
           /\ Locked(s, v).vnodes[v].ref_count = s.vnodes[v].ref_count + 1
           /\ Locked(s, v).vnodes[v].lost = s.vnodes[v].lost
           /\ \A w \in DOMAIN s.vnodes \ {v} : Locked(s, v).vnodes[w] = s.vnodes[w]
<1> DEFINE t == Locked(s, v)
<1>0. s.vnodes \in [DOMAIN s.vnodes -> NodeRecords]
  BY DEF NodesInv
<1>1. /\ t.vnodes = [s.vnodes EXCEPT ![v].ref_count = @ + 1]
      /\ t.cache = s.cache /\ t.inodes = s.inodes /\ t.entries = s.entries
      /\ t.last_index = s.last_index /\ t.unplaced = s.unplaced
      /\ IsFileSystem(t)
  BY DEF IsFileSystem, Locked
<1>2. s.vnodes[v] \in NodeRecords
  BY <1>0
<1>3. [s.vnodes[v] EXCEPT !.ref_count = @ + 1] \in NodeRecords
  BY <1>2 DEF NodeRecords
<1>4. t.vnodes = [s.vnodes EXCEPT ![v] = [s.vnodes[v] EXCEPT !.ref_count = @ + 1]]
  BY <1>1
<1> HIDE DEF t
<1>5. t.vnodes \in [DOMAIN s.vnodes -> NodeRecords]
  BY <1>0, <1>3, <1>4
<1>6. t.vnodes[v] = [s.vnodes[v] EXCEPT !.ref_count = @ + 1]
  BY <1>0, <1>4
<1>7. \A w \in DOMAIN s.vnodes \ {v} : t.vnodes[w] = s.vnodes[w]
  BY <1>0, <1>4
<1>8. /\ t.vnodes[v].ref_count = s.vnodes[v].ref_count + 1
      /\ t.vnodes[v].lost = s.vnodes[v].lost
      /\ t.vnodes[v].cache_index = s.vnodes[v].cache_index
      /\ t.vnodes[v].index = s.vnodes[v].index
      /\ t.vnodes[v].type = s.vnodes[v].type
      /\ t.vnodes[v].mount = s.vnodes[v].mount
  BY <1>2, <1>6 DEF NodeRecords
<1>9. Recounted(s, t)
  BY <1>1, <1>5, <1>7, <1>8 DEF Recounted
<1> QED
  BY <1>7, <1>8, <1>9 DEF t

LEMMA NodeNumbers ==
    ASSUME NEW s, NodesInv(s), NEW v \in DOMAIN s.vnodes
    PROVE  /\ s.vnodes[v].ref_count \in Nat /\ s.vnodes[v].lost \in Nat
           /\ s.vnodes[v].type \in Types
           /\ One(v \in Kept) \in {0, 1}
<1>1. s.vnodes[v] \in NodeRecords
  BY NodeFacts
<1>2. One(v \in Kept) \in {0, 1}
  BY DEF One
<1> QED
  BY <1>1, <1>2 DEF NodeRecords

\* One node has other counts, and n users.
LEMMA RecountedAt ==
    ASSUME NEW s, NEW U, TreeInv(s, U), NEW v \in DOMAIN s.vnodes, NEW n \in Nat, NEW t,
           Recounted(s, t),
           \A w \in DOMAIN s.vnodes \ {v} : t.vnodes[w] = s.vnodes[w],
           t.vnodes[v].ref_count = 1 + One(v \in Kept) + n + t.vnodes[v].lost
    PROVE  /\ TreeInv(t, [U EXCEPT ![v] = n])
           /\ \A X : /\ UsedBut(s, U, X \cup {v})
                     /\ One(v \in Kept) + n + t.vnodes[v].lost > 0
                     => UsedBut(t, [U EXCEPT ![v] = n], X)
<1> DEFINE W == [U EXCEPT ![v] = n]
<1>0. NodesInv(s) /\ CountsInv(s, U)
  BY DEF TreeInv
<1>1. DOMAIN t.vnodes = DOMAIN s.vnodes /\ \A w \in DOMAIN s.vnodes : w \in Addresses
  BY <1>0, NodeFacts DEF Recounted
<1>2. /\ U \in [Addresses -> Nat] /\ W \in [Addresses -> Nat]
      /\ W[v] = n
      /\ \A w \in Addresses \ {v} : W[w] = U[w]
  BY <1>0, <1>1 DEF CountsInv
<1> HIDE DEF W
<1>3. \A w \in DOMAIN t.vnodes : t.vnodes[w].ref_count = 1 + One(w \in Kept) + W[w] + t.vnodes[w].lost
  <2> SUFFICES ASSUME NEW w \in DOMAIN s.vnodes, w # v
               PROVE  t.vnodes[w].ref_count = 1 + One(w \in Kept) + W[w] + t.vnodes[w].lost
    BY <1>1, <1>2
  <2>1. s.vnodes[w].ref_count = 1 + One(w \in Kept) + U[w] + s.vnodes[w].lost
    BY <1>0 DEF CountsInv
  <2>2. W[w] = U[w] /\ t.vnodes[w] = s.vnodes[w]
    BY <1>1, <1>2
  <2> QED
    BY <2>1, <2>2
<1>4. CountsInv(t, W)
  BY <1>0, <1>1, <1>2, <1>3 DEF CountsInv
<1>5. TreeInv(t, W)
  BY <1>4, RecountedKeeps
<1>6. ASSUME NEW X, UsedBut(s, U, X \cup {v}), One(v \in Kept) + n + t.vnodes[v].lost > 0
      PROVE  UsedBut(t, W, X)
  <2> SUFFICES ASSUME NEW w \in DOMAIN s.vnodes, w \notin X, w # v
               PROVE  One(w \in Kept) + W[w] + t.vnodes[w].lost > 0
    BY <1>1, <1>2, <1>6 DEF UsedBut
  <2>1. One(w \in Kept) + U[w] + s.vnodes[w].lost > 0
    BY <1>6 DEF UsedBut
  <2>2. W[w] = U[w] /\ t.vnodes[w] = s.vnodes[w]
    BY <1>1, <1>2
  <2> QED
    BY <2>1, <2>2
<1> QED
  BY <1>5, <1>6 DEF W

\* With that the tree of a locked node has one more user, and the node is used.
LEMMA LockedKeeps ==
    ASSUME NEW s, NEW U, TreeInv(s, U), NEW v \in DOMAIN s.vnodes
    PROVE  /\ TreeInv(Locked(s, v), [U EXCEPT ![v] = U[v] + 1])
           /\ Recounted(s, Locked(s, v))
           /\ \A X : UsedBut(s, U, X \cup {v}) => UsedBut(Locked(s, v), [U EXCEPT ![v] = U[v] + 1], X)
<1> DEFINE t == Locked(s, v)
<1>0. IsFileSystem(s) /\ NodesInv(s) /\ CountsInv(s, U)
  BY DEF TreeInv
<1>1. /\ Recounted(s, t)
      /\ t.vnodes[v].ref_count = s.vnodes[v].ref_count + 1
      /\ t.vnodes[v].lost = s.vnodes[v].lost
      /\ \A w \in DOMAIN s.vnodes \ {v} : t.vnodes[w] = s.vnodes[w]
  BY <1>0, LockedFacts
<1>2. U[v] \in Nat /\ U[v] + 1 \in Nat
  BY <1>0, NodeFacts DEF CountsInv
<1> HIDE DEF t
<1>3. s.vnodes[v].ref_count = 1 + One(v \in Kept) + U[v] + s.vnodes[v].lost
  BY <1>0 DEF CountsInv
<1>4. s.vnodes[v].lost \in Nat /\ One(v \in Kept) \in {0, 1}
  BY <1>0, NodeNumbers
<1>5. /\ t.vnodes[v].ref_count = 1 + One(v \in Kept) + (U[v] + 1) + t.vnodes[v].lost
      /\ One(v \in Kept) + (U[v] + 1) + t.vnodes[v].lost > 0
  BY <1>1, <1>2, <1>3, <1>4
<1>6. /\ TreeInv(t, [U EXCEPT ![v] = U[v] + 1])
      /\ \A X : UsedBut(s, U, X \cup {v}) => UsedBut(t, [U EXCEPT ![v] = U[v] + 1], X)
  BY <1>1, <1>2, <1>5, RecountedAt
<1> QED
  BY <1>1, <1>6 DEF t

\* A lock that is lost has no user any more.
LEMMA LostKeeps ==
    ASSUME NEW s, NEW U, TreeInv(s, U), NEW v \in DOMAIN s.vnodes, U[v] > 0
    PROVE  /\ TreeInv(Lost(s, v), [U EXCEPT ![v] = U[v] - 1])
           /\ Recounted(s, Lost(s, v))
           /\ \A X : UsedBut(s, U, X \cup {v}) => UsedBut(Lost(s, v), [U EXCEPT ![v] = U[v] - 1], X)
<1> DEFINE t == Lost(s, v)
<1>0. /\ IsFileSystem(s) /\ NodesInv(s) /\ CountsInv(s, U)
      /\ s.vnodes \in [DOMAIN s.vnodes -> NodeRecords]
  BY DEF TreeInv, NodesInv
<1>1. /\ t.vnodes = [s.vnodes EXCEPT ![v] = [s.vnodes[v] EXCEPT !.lost = @ + 1]]
      /\ t.cache = s.cache /\ t.inodes = s.inodes /\ t.entries = s.entries
      /\ t.last_index = s.last_index /\ t.unplaced = s.unplaced
      /\ IsFileSystem(t)
  BY <1>0 DEF IsFileSystem, Lost
<1>2. s.vnodes[v] \in NodeRecords
  BY <1>0
<1>3. [s.vnodes[v] EXCEPT !.lost = @ + 1] \in NodeRecords
  BY <1>2 DEF NodeRecords
<1> HIDE DEF t
<1>4. t.vnodes \in [DOMAIN s.vnodes -> NodeRecords]
  BY <1>0, <1>3, <1>1
<1>5. t.vnodes[v] = [s.vnodes[v] EXCEPT !.lost = @ + 1]
  BY <1>0, <1>1
<1>6. \A w \in DOMAIN s.vnodes \ {v} : t.vnodes[w] = s.vnodes[w]
  BY <1>0, <1>1
<1>7. /\ t.vnodes[v].lost = s.vnodes[v].lost + 1
      /\ t.vnodes[v].ref_count = s.vnodes[v].ref_count
      /\ t.vnodes[v].cache_index = s.vnodes[v].cache_index
      /\ t.vnodes[v].index = s.vnodes[v].index
      /\ t.vnodes[v].type = s.vnodes[v].type
      /\ t.vnodes[v].mount = s.vnodes[v].mount
  BY <1>2, <1>5 DEF NodeRecords
<1>8. Recounted(s, t)
  BY <1>1, <1>4, <1>6, <1>7 DEF Recounted
<1>9. U[v] \in Nat /\ U[v] - 1 \in Nat
  BY <1>0, NodeFacts DEF CountsInv
<1>10. s.vnodes[v].ref_count = 1 + One(v \in Kept) + U[v] + s.vnodes[v].lost
  BY <1>0 DEF CountsInv
<1>11. s.vnodes[v].lost \in Nat /\ One(v \in Kept) \in {0, 1}
  BY <1>0, NodeNumbers
<1>12. /\ t.vnodes[v].ref_count = 1 + One(v \in Kept) + (U[v] - 1) + t.vnodes[v].lost
       /\ One(v \in Kept) + (U[v] - 1) + t.vnodes[v].lost > 0
  BY <1>7, <1>9, <1>10, <1>11
<1>13. /\ TreeInv(t, [U EXCEPT ![v] = U[v] - 1])
       /\ \A X : UsedBut(s, U, X \cup {v}) => UsedBut(t, [U EXCEPT ![v] = U[v] - 1], X)
  BY <1>6, <1>8, <1>9, <1>12, RecountedAt
<1> QED
  BY <1>8, <1>13 DEF t

\* The first half of vfs_release_node: one reference less.
OneLess(s, v) == [s EXCEPT !.vnodes[v].ref_count = @ - 1]

LEMMA OneLessKeeps ==
    ASSUME NEW s, NEW U, TreeInv(s, U), NEW v \in DOMAIN s.vnodes, U[v] > 0
    PROVE  /\ TreeInv(OneLess(s, v), [U EXCEPT ![v] = U[v] - 1])
           /\ Recounted(s, OneLess(s, v))
           /\ OneLess(s, v).vnodes[v].lost = s.vnodes[v].lost
           /\ \A w \in DOMAIN s.vnodes \ {v} : OneLess(s, v).vnodes[w] = s.vnodes[w]
<1> DEFINE t == OneLess(s, v)
<1>0. /\ IsFileSystem(s) /\ NodesInv(s) /\ CountsInv(s, U)
      /\ s.vnodes \in [DOMAIN s.vnodes -> NodeRecords]
  BY DEF TreeInv, NodesInv
<1>1. /\ t.vnodes = [s.vnodes EXCEPT ![v] = [s.vnodes[v] EXCEPT !.ref_count = @ - 1]]
      /\ t.cache = s.cache /\ t.inodes = s.inodes /\ t.entries = s.entries
      /\ t.last_index = s.last_index /\ t.unplaced = s.unplaced
      /\ IsFileSystem(t)
  BY <1>0 DEF IsFileSystem, OneLess
<1>2. s.vnodes[v] \in NodeRecords
  BY <1>0
<1>3. U[v] \in Nat /\ U[v] - 1 \in Nat
  BY <1>0, NodeFacts DEF CountsInv
<1>4. s.vnodes[v].ref_count = 1 + One(v \in Kept) + U[v] + s.vnodes[v].lost
  BY <1>0 DEF CountsInv
<1>5. s.vnodes[v].lost \in Nat /\ One(v \in Kept) \in {0, 1}
  BY <1>0, NodeNumbers
<1>6. s.vnodes[v].ref_count - 1 \in Nat
  BY <1>3, <1>4, <1>5
<1>7. [s.vnodes[v] EXCEPT !.ref_count = @ - 1] \in NodeRecords
  BY <1>2, <1>6 DEF NodeRecords
<1> HIDE DEF t
<1>8. t.vnodes \in [DOMAIN s.vnodes -> NodeRecords]
  BY <1>0, <1>7, <1>1
<1>9. t.vnodes[v] = [s.vnodes[v] EXCEPT !.ref_count = @ - 1]
  BY <1>0, <1>1
<1>10. \A w \in DOMAIN s.vnodes \ {v} : t.vnodes[w] = s.vnodes[w]
  BY <1>0, <1>1
<1>11. /\ t.vnodes[v].lost = s.vnodes[v].lost
       /\ t.vnodes[v].ref_count = s.vnodes[v].ref_count - 1
       /\ t.vnodes[v].cache_index = s.vnodes[v].cache_index
       /\ t.vnodes[v].index = s.vnodes[v].index
       /\ t.vnodes[v].type = s.vnodes[v].type
       /\ t.vnodes[v].mount = s.vnodes[v].mount
  BY <1>2, <1>9 DEF NodeRecords
<1>12. Recounted(s, t)
  BY <1>1, <1>8, <1>10, <1>11 DEF Recounted
<1>13. t.vnodes[v].ref_count = 1 + One(v \in Kept) + (U[v] - 1) + t.vnodes[v].lost
  BY <1>11, <1>3, <1>4, <1>5
<1>14. TreeInv(t, [U EXCEPT ![v] = U[v] - 1])
  BY <1>10, <1>12, <1>3, <1>13, RecountedAt
<1> QED
  BY <1>10, <1>11, <1>12, <1>14 DEF t

-----------------------------------------------------------------------------
(* The cache: looking a node up, and evicting one.                          *)

LEMMA AddressesDiffer ==
    ASSUME NEW c, NEW i, NEW d, NEW j, Address(c, i) = Address(d, j)
    PROVE  c = d /\ i = j
BY DEF Address

LEMMA WithoutFacts ==
    ASSUME NEW f, NEW x
    PROVE  /\ DOMAIN Without(f, x) = DOMAIN f \ {x}
           /\ \A y \in DOMAIN f \ {x} : Without(f, x)[y] = f[y]
           /\ \A R : f \in [DOMAIN f -> R] => Without(f, x) \in [DOMAIN f \ {x} -> R]
BY DEF Without

LEMMA WithFacts ==
    ASSUME NEW f, NEW x, NEW val
    PROVE  /\ DOMAIN With(f, x, val) = DOMAIN f \cup {x}
           /\ With(f, x, val)[x] = val
           /\ \A y \in DOMAIN f \ {x} : With(f, x, val)[y] = f[y]
           /\ \A R : f \in [DOMAIN f -> R] /\ val \in R => With(f, x, val) \in [DOMAIN f \cup {x} -> R]
BY DEF With

LEMMA CachedIsAddress ==
    ASSUME NEW s, NodesInv(s), NEW c, NEW i
    PROVE  Cached(s, c, i) = {Address(c, i)} \cap DOMAIN s.vnodes
<1>1. ASSUME NEW w \in DOMAIN s.vnodes
      PROVE  s.vnodes[w].cache_index = c /\ s.vnodes[w].index = i <=> w = Address(c, i)
  <2>1. w = Address(s.vnodes[w].cache_index, s.vnodes[w].index)
    BY NodeFacts
  <2> QED
    BY <2>1, AddressesDiffer
<1> QED
  BY <1>1 DEF Cached, NodesInv

\* vfs_cache_try_evict: with the node of a file without a name the file goes too.
LEMMA EvictedFields ==
    ASSUME NEW s, IsFileSystem(s), NodesInv(s), NEW v \in DOMAIN s.vnodes
    PROVE  /\ IsFileSystem(Evicted(s, v))
           /\ Evicted(s, v).vnodes = Without(s.vnodes, v)
           /\ Evicted(s, v).cache = s.cache \ {v}
           /\ Evicted(s, v).entries = s.entries
           /\ Evicted(s, v).last_index = s.last_index
           /\ Evicted(s, v).unplaced = s.unplaced
           /\ Evicted(s, v).inodes =
                 IF s.vnodes[v].cache_index = Ramfs /\ s.inodes[s.vnodes[v].index].link_count = 0
                 THEN Without(s.inodes, s.vnodes[v].index) ELSE s.inodes
<1> DEFINE c == s.vnodes[v].cache_index
           i == s.vnodes[v].index
           r == RamfsReleased(s, v)
<1>1. Cached(s, c, i) = {v}
  BY CachedIsAddress, NodeFacts
<1>2. /\ IsFileSystem(r) /\ r.vnodes = s.vnodes /\ r.cache = s.cache /\ r.entries = s.entries
      /\ r.last_index = s.last_index /\ r.unplaced = s.unplaced
      /\ r.inodes = IF c = Ramfs /\ s.inodes[i].link_count = 0 THEN Without(s.inodes, i) ELSE s.inodes
  BY DEF IsFileSystem, RamfsReleased
<1>3. Evicted(s, v) = [r EXCEPT !.cache = @ \ {v}, !.vnodes = Without(@, v)]
  BY <1>1 DEF Evicted
<1> HIDE DEF r, c, i
<1>4. /\ IsFileSystem(Evicted(s, v))
      /\ Evicted(s, v).vnodes = Without(r.vnodes, v)
      /\ Evicted(s, v).cache = r.cache \ {v}
      /\ Evicted(s, v).entries = r.entries
      /\ Evicted(s, v).last_index = r.last_index
      /\ Evicted(s, v).unplaced = r.unplaced
      /\ Evicted(s, v).inodes = r.inodes
  BY <1>2, <1>3 DEF IsFileSystem
<1> QED
  BY <1>2, <1>4 DEF c, i

LEMMA EvictedKeeps ==
    ASSUME NEW s, NEW U, TreeInv(s, U), NEW v \in DOMAIN s.vnodes, Unused(s, v)
    PROVE  /\ TreeInv(Evicted(s, v), U)
           /\ DOMAIN Evicted(s, v).vnodes = DOMAIN s.vnodes \ {v}
           /\ \A w \in DOMAIN s.vnodes \ {v} : Evicted(s, v).vnodes[w] = s.vnodes[w]
<1> DEFINE c == s.vnodes[v].cache_index
           i == s.vnodes[v].index
           t == Evicted(s, v)
           goes == c = Ramfs /\ s.inodes[i].link_count = 0
<1>0. /\ IsFileSystem(s) /\ NodesInv(s) /\ InodesInv(s) /\ EntriesInv(s) /\ FilesInv(s) /\ LinksInv(s)
      /\ CountsInv(s, U)
  BY DEF TreeInv
<1>1. v \notin Kept /\ U[v] = 0
  <2>1. s.vnodes[v].ref_count = 1 + One(v \in Kept) + U[v] + s.vnodes[v].lost
    BY <1>0 DEF CountsInv
  <2>2. U[v] \in Nat /\ s.vnodes[v].lost \in Nat
    BY <1>0, NodeFacts, NodeNumbers DEF CountsInv
  <2> QED
    BY <2>1, <2>2 DEF Unused, One
<1>2. /\ IsFileSystem(t)
      /\ t.vnodes = Without(s.vnodes, v)
      /\ t.cache = s.cache \ {v}
      /\ t.entries = s.entries
      /\ t.last_index = s.last_index
      /\ t.unplaced = s.unplaced
      /\ t.inodes = IF goes THEN Without(s.inodes, i) ELSE s.inodes
  BY <1>0, EvictedFields
<1>3. v = Address(c, i) /\ v \in Addresses
  BY <1>0, NodeFacts
<1> HIDE DEF t, c, i, goes
<1>4. /\ DOMAIN t.vnodes = DOMAIN s.vnodes \ {v}
      /\ \A w \in DOMAIN s.vnodes \ {v} : t.vnodes[w] = s.vnodes[w]
      /\ t.vnodes \in [DOMAIN t.vnodes -> NodeRecords]
  <2>1. s.vnodes \in [DOMAIN s.vnodes -> NodeRecords]
    BY <1>0 DEF NodesInv
  <2> QED
    BY <1>2, <2>1 DEF Without
<1>5. NodesInv(t)
  BY <1>0, <1>1, <1>2, <1>4 DEF NodesInv
<1>6. CountsInv(t, U)
  BY <1>0, <1>1, <1>4 DEF CountsInv
<1>7. /\ DOMAIN t.inodes \subseteq DOMAIN s.inodes
      /\ goes => i \notin DOMAIN t.inodes
      /\ \A j \in DOMAIN s.inodes : j \notin DOMAIN t.inodes => goes /\ j = i
      /\ \A j \in DOMAIN t.inodes : t.inodes[j] = s.inodes[j]
      /\ t.inodes \in [DOMAIN t.inodes -> InodeRecords]
  <2>1. s.inodes \in [DOMAIN s.inodes -> InodeRecords]
    BY <1>0 DEF InodesInv
  <2>2. CASE goes
    <3>1. t.inodes = [j \in DOMAIN s.inodes \ {i} |-> s.inodes[j]]
      BY <1>2, <2>2 DEF Without
    <3> QED
      BY <2>1, <2>2, <3>1
  <2>3. CASE ~goes
    BY <1>2, <2>1, <2>3
  <2> QED
    BY <2>2, <2>3
<1>8. ASSUME goes
      PROVE  i \in DOMAIN s.inodes \ s.unplaced /\ s.inodes[i].type # "dir" /\ Names(s.entries, i) = {}
  <2>1. i \in DOMAIN s.inodes /\ s.inodes[i].link_count = 0
    BY <1>0, <1>8 DEF FilesInv, goes, c, i
  <2>2. i \notin s.unplaced /\ s.inodes[i].type # "dir"
    BY <1>0, <2>1 DEF InodesInv
  <2>3. Cardinality(Names(s.entries, i)) = 0
    BY <1>0, <2>1, <2>2 DEF LinksInv
  <2>4. IsFiniteSet(Names(s.entries, i))
    <3>1. Names(s.entries, i) \subseteq DOMAIN s.entries
      BY DEF Names
    <3> QED
      BY <1>0, <3>1, FS_Subset DEF EntriesInv
  <2> QED
    BY <2>1, <2>2, <2>3, <2>4, FS_EmptySet
<1>9. InodesInv(t)
  <2>1. s.unplaced \subseteq DOMAIN t.inodes
    BY <1>0, <1>7, <1>8 DEF InodesInv
  <2> QED
    BY <1>0, <1>2, <1>7, <2>1 DEF InodesInv
<1>10. EntriesInv(t)
  <2>1. ASSUME NEW e \in DOMAIN s.entries
        PROVE  e[1] \in DOMAIN t.inodes /\ s.entries[e] \in DOMAIN t.inodes
    <3>1. /\ e[1] \in DOMAIN s.inodes /\ s.inodes[e[1]].type = "dir"
          /\ s.entries[e] \in DOMAIN s.inodes
      BY <1>0 DEF EntriesInv
    <3>2. goes => e[1] # i /\ s.entries[e] # i
      BY <1>8, <3>1 DEF Names
    <3> QED
      BY <1>7, <3>1, <3>2
  <2> QED
    BY <1>0, <1>2, <1>7, <2>1 DEF EntriesInv
<1>11. FilesInv(t)
  <2> SUFFICES ASSUME NEW w \in DOMAIN t.vnodes, t.vnodes[w].cache_index = Ramfs
               PROVE  /\ t.vnodes[w].index \in DOMAIN t.inodes
                      /\ t.vnodes[w].type = t.inodes[t.vnodes[w].index].type
                      /\ t.vnodes[w].index \in t.unplaced => t.vnodes[w].type = "dir"
    BY DEF FilesInv
  <2>1. /\ w \in DOMAIN s.vnodes /\ w # v /\ t.vnodes[w] = s.vnodes[w]
        /\ w = Address(Ramfs, s.vnodes[w].index)
    BY <1>0, <1>4, NodeFacts
  <2>2. /\ s.vnodes[w].index \in DOMAIN s.inodes
        /\ s.vnodes[w].type = s.inodes[s.vnodes[w].index].type
        /\ s.vnodes[w].index \in s.unplaced => s.vnodes[w].type = "dir"
    BY <1>0, <2>1 DEF FilesInv
  <2>3. goes => s.vnodes[w].index # i
    BY <1>3, <2>1 DEF goes
  <2> QED
    BY <1>2, <1>7, <2>1, <2>2, <2>3
<1>12. LinksInv(t)
  <2> SUFFICES ASSUME NEW j \in DOMAIN t.inodes, j \notin t.unplaced
               PROVE  /\ t.inodes[j].link_count = Cardinality(Names(t.entries, j))
                      /\ t.inodes[j].link_count = 0 => Address(Ramfs, j) \in DOMAIN t.vnodes
    BY DEF LinksInv
  <2>1. /\ s.inodes[j].link_count = Cardinality(Names(s.entries, j))
        /\ s.inodes[j].link_count = 0 => Address(Ramfs, j) \in DOMAIN s.vnodes
    BY <1>0, <1>2, <1>7 DEF LinksInv
  <2>2. t.inodes[j] = s.inodes[j] /\ Names(t.entries, j) = Names(s.entries, j)
    BY <1>2, <1>7 DEF Names
  <2>3. s.inodes[j].link_count = 0 => Address(Ramfs, j) # v
    <3> SUFFICES ASSUME s.inodes[j].link_count = 0, Address(Ramfs, j) = v
                 PROVE  FALSE
      OBVIOUS
    <3>1. c = Ramfs /\ i = j
      BY <1>3, AddressesDiffer
    <3> QED
      BY <1>7, <3>1 DEF goes
  <2> QED
    BY <1>4, <2>1, <2>2, <2>3
<1>13. TreeInv(t, U)
  BY <1>2, <1>5, <1>6, <1>9, <1>10, <1>11, <1>12 DEF TreeInv
<1> QED
  BY <1>4, <1>13 DEF t

\* vfs_release_node: what stays counts exactly, and a node that is not used any more is gone.
LEMMA ReleasedKeeps ==
    ASSUME NEW s, NEW U, TreeInv(s, U), NEW v \in DOMAIN s.vnodes, U[v] > 0
    PROVE  /\ TreeInv(Released(s, v), [U EXCEPT ![v] = U[v] - 1])
           /\ DOMAIN s.vnodes \ {v} \subseteq DOMAIN Released(s, v).vnodes
           /\ \A w \in DOMAIN s.vnodes \ {v} : Released(s, v).vnodes[w] = s.vnodes[w]
           /\ \A X : UsedBut(s, U, X) => UsedBut(Released(s, v), [U EXCEPT ![v] = U[v] - 1], X)
<1> DEFINE t == OneLess(s, v)
           W == [U EXCEPT ![v] = U[v] - 1]
           z == Released(s, v)
<1>1. /\ TreeInv(t, W) /\ Recounted(s, t)
      /\ t.vnodes[v].lost = s.vnodes[v].lost
      /\ \A w \in DOMAIN s.vnodes \ {v} : t.vnodes[w] = s.vnodes[w]
  BY OneLessKeeps
<1>2. z = IF Unused(t, v) THEN Evicted(t, v) ELSE t
  BY DEF Released, OneLess
<1>3. DOMAIN t.vnodes = DOMAIN s.vnodes /\ v \in Addresses /\ \A w \in DOMAIN s.vnodes : w \in Addresses
  BY <1>1, NodeFacts DEF Recounted, TreeInv
<1>4. U \in [Addresses -> Nat] /\ \A w \in Addresses \ {v} : W[w] = U[w]
  BY <1>3 DEF TreeInv, CountsInv
<1> HIDE DEF t, W, z
<1>5. CASE Unused(t, v)
  <2>1. /\ TreeInv(z, W)
        /\ DOMAIN z.vnodes = DOMAIN s.vnodes \ {v}
        /\ \A w \in DOMAIN s.vnodes \ {v} : z.vnodes[w] = s.vnodes[w]
    BY <1>1, <1>2, <1>3, <1>5, EvictedKeeps
  <2>2. ASSUME NEW X, UsedBut(s, U, X)
        PROVE  UsedBut(z, W, X)
    BY <1>3, <1>4, <2>1, <2>2 DEF UsedBut
  <2> QED
    BY <2>1, <2>2 DEF z, W
<1>6. CASE ~Unused(t, v)
  <2>1. z = t
    BY <1>2, <1>6
  <2>2. One(v \in Kept) + W[v] + t.vnodes[v].lost > 0
    <3>1. NodesInv(t) /\ CountsInv(t, W)
      BY <1>1 DEF TreeInv
    <3>2. t.vnodes[v].ref_count = 1 + One(v \in Kept) + W[v] + t.vnodes[v].lost
      BY <1>3, <3>1 DEF CountsInv
    <3>3. W[v] \in Nat /\ One(v \in Kept) \in {0, 1} /\ t.vnodes[v].lost \in Nat
      BY <1>3, <3>1, NodeNumbers DEF CountsInv
    <3> QED
      BY <1>6, <3>2, <3>3 DEF Unused
  <2>3. ASSUME NEW X, UsedBut(s, U, X)
        PROVE  UsedBut(z, W, X)
    <3> SUFFICES ASSUME NEW w \in DOMAIN s.vnodes, w \notin X, w # v
                 PROVE  One(w \in Kept) + W[w] + t.vnodes[w].lost > 0
      BY <1>3, <2>1, <2>2 DEF UsedBut
    <3>1. One(w \in Kept) + U[w] + s.vnodes[w].lost > 0
      BY <2>3 DEF UsedBut
    <3>2. W[w] = U[w] /\ t.vnodes[w] = s.vnodes[w]
      BY <1>1, <1>3, <1>4
    <3> QED
      BY <3>1, <3>2
  <2> QED
    BY <1>1, <1>3, <2>1, <2>3 DEF z, W
<1> QED
  BY <1>5, <1>6

-----------------------------------------------------------------------------
(* vfs_create_node.                                                         *)

LEMMA NewNodeIsAddress ==
    ASSUME NEW s, NodesInv(s), NEW c, NEW i, Address(c, i) \notin DOMAIN s.vnodes
    PROVE  NewNode(s, c, i) = Address(c, i)
<1> DEFINE copies == {v \in DOMAIN s.vnodes : v[1] = c /\ v[2] = i}
<1>1. copies = {}
  <2> SUFFICES ASSUME NEW v \in DOMAIN s.vnodes, v[1] = c, v[2] = i
               PROVE  FALSE
    OBVIOUS
  <2>1. v = Address(s.vnodes[v].cache_index, s.vnodes[v].index)
    BY NodeFacts
  <2> QED
    BY <2>1 DEF Address
<1>2. Cardinality(copies) = 0
  BY <1>1, FS_EmptySet
<1> HIDE DEF copies
<1>3. (CHOOSE n \in 1 .. Cardinality(copies) + 1 : <<c, i, n>> \notin copies) = 1
  <2>1. \A n : n \in 1 .. Cardinality(copies) + 1 <=> n = 1
    BY <1>2
  <2> QED
    BY <1>1, <2>1
<1> QED
  BY <1>3 DEF NewNode, Address, copies

LEMMA KnownIsCached ==
    ASSUME NEW s, NodesInv(s), NEW c, NEW i
    PROVE  /\ Known(s, c, i) <=> Address(c, i) \in DOMAIN s.vnodes
           /\ NodeFor(s, c, i) = Address(c, i)
<1>1. Cached(s, c, i) = {Address(c, i)} \cap DOMAIN s.vnodes
  BY CachedIsAddress
<1>2. Known(s, c, i) <=> Address(c, i) \in DOMAIN s.vnodes
  BY <1>1 DEF Known
<1>3. CASE Address(c, i) \in DOMAIN s.vnodes
  <2>1. Cached(s, c, i) = {Address(c, i)}
    BY <1>1, <1>3
  <2> QED
    BY <1>2, <1>3, <2>1 DEF NodeFor
<1>4. CASE Address(c, i) \notin DOMAIN s.vnodes
  BY <1>2, <1>4, NewNodeIsAddress DEF NodeFor
<1> QED
  BY <1>2, <1>3, <1>4

\* A device, or a file of ramfs that has a place.
HasPlace(s, c, i, type) ==
    /\ c \in {Ramfs, Devfs} /\ i \in Int /\ type \in Types
    /\ c = Ramfs => i \in DOMAIN s.inodes \ s.unplaced /\ type = s.inodes[i].type

\* A file gets a node when it has none; the node is not used yet.
LEMMA WithNodeKeeps ==
    ASSUME NEW s, NEW U, TreeInv(s, U), NEW c, NEW i, NEW type, HasPlace(s, c, i, type)
    PROVE  /\ TreeInv(WithNode(s, c, i, type), U)
           /\ DOMAIN WithNode(s, c, i, type).vnodes = DOMAIN s.vnodes \cup {Address(c, i)}
           /\ \A w \in DOMAIN s.vnodes : WithNode(s, c, i, type).vnodes[w] = s.vnodes[w]
           /\ UsedBut(s, U, {}) => UsedBut(WithNode(s, c, i, type), U, {Address(c, i)})
<1> DEFINE v == Address(c, i)
           t == WithNode(s, c, i, type)
           node == Node(c, i, type, None, 1, 0)
<1> /\ c \in {Ramfs, Devfs} /\ i \in Int /\ type \in Types
    /\ c = Ramfs => i \in DOMAIN s.inodes \ s.unplaced /\ type = s.inodes[i].type
  BY DEF HasPlace
<1>0. /\ IsFileSystem(s) /\ NodesInv(s) /\ InodesInv(s) /\ EntriesInv(s) /\ FilesInv(s) /\ LinksInv(s)
      /\ CountsInv(s, U)
  BY DEF TreeInv
<1>1. v \in Addresses
  BY DEF Address, Addresses
<1>2. CASE v \in DOMAIN s.vnodes
  <2>1. t = s
    BY <1>0, <1>2, KnownIsCached DEF WithNode
  <2>2. DOMAIN s.vnodes \cup {v} = DOMAIN s.vnodes
    BY <1>2
  <2>3. UsedBut(s, U, {}) => UsedBut(s, U, {v})
    BY DEF UsedBut
  <2> HIDE DEF v, t
  <2>4. TreeInv(t, U) /\ DOMAIN t.vnodes = DOMAIN s.vnodes \cup {v} /\ \A w \in DOMAIN s.vnodes : t.vnodes[w] = s.vnodes[w]
    BY <2>1, <2>2
  <2>5. UsedBut(s, U, {}) => UsedBut(t, U, {v})
    BY <2>1, <2>3
  <2> QED
    BY <2>4, <2>5 DEF t, v
<1>3. CASE v \notin DOMAIN s.vnodes
  <2>1. Cached(s, c, i) = {}
    BY <1>0, <1>3, CachedIsAddress
  <2>2. t = [s EXCEPT !.vnodes = With(s.vnodes, v, node), !.cache = s.cache \cup {v}]
    <3>1. NewNode(s, c, i) = v /\ ~Known(s, c, i)
      BY <1>0, <1>3, NewNodeIsAddress, KnownIsCached
    <3>2. t = CreatedNode(s, c, i, type)
      BY <3>1 DEF WithNode
    <3> HIDE DEF v, node, t
    <3>3. CreatedNode(s, c, i, type) =
            [s EXCEPT !.vnodes = With(s.vnodes, v, Node(c, i, type, None, 1, 0)), !.cache = s.cache \cup {v}]
      BY <2>1, <3>1 DEF CreatedNode
    <3> QED
      BY <3>2, <3>3 DEF node
  <2>3. /\ node \in NodeRecords
        /\ node.cache_index = c /\ node.index = i /\ node.type = type /\ node.mount = None
        /\ node.ref_count = 1 /\ node.lost = 0
    BY DEF Node, NodeRecords
  <2> HIDE DEF t, node
  <2>4. /\ IsFileSystem(t) /\ t.vnodes = With(s.vnodes, v, node) /\ t.cache = s.cache \cup {v}
        /\ t.inodes = s.inodes /\ t.entries = s.entries
        /\ t.last_index = s.last_index /\ t.unplaced = s.unplaced
    BY <1>0, <2>2 DEF IsFileSystem
  <2>5. /\ DOMAIN t.vnodes = DOMAIN s.vnodes \cup {v}
        /\ t.vnodes[v] = node
        /\ \A w \in DOMAIN s.vnodes : t.vnodes[w] = s.vnodes[w]
        /\ t.vnodes \in [DOMAIN t.vnodes -> NodeRecords]
    <3>1. s.vnodes \in [DOMAIN s.vnodes -> NodeRecords]
      BY <1>0 DEF NodesInv
    <3> HIDE DEF v
    <3> QED
      BY <1>3, <2>3, <2>4, <3>1 DEF With
  <2>6. Kept \subseteq DOMAIN s.vnodes /\ v \notin Kept
    BY <1>0, <1>3 DEF NodesInv
  <2>7. NodesInv(t)
    <3>1. v = Address(t.vnodes[v].cache_index, t.vnodes[v].index) /\ v # DevDirectory
      BY <2>3, <2>5, <2>6 DEF Kept
    <3> HIDE DEF v
    <3> QED
      BY <1>0, <2>3, <2>4, <2>5, <3>1 DEF NodesInv
  <2>8. InodesInv(t)
    BY <1>0, <2>4 DEF InodesInv
  <2>9. EntriesInv(t)
    BY <1>0, <2>4 DEF EntriesInv
  <2>10. FilesInv(t)
    <3> HIDE DEF v
    <3> QED
      BY <1>0, <2>3, <2>4, <2>5 DEF FilesInv
  <2>11. LinksInv(t)
    <3> HIDE DEF v
    <3> QED
      BY <1>0, <2>4, <2>5 DEF LinksInv, Names
  <2> HIDE DEF v
  <2>12. CountsInv(t, U)
    <3>1. One(v \in Kept) = 0 /\ U[v] = 0
      BY <1>0, <1>1, <1>3, <2>6 DEF CountsInv, One
    <3>2. t.vnodes[v].ref_count = 1 + One(v \in Kept) + U[v] + t.vnodes[v].lost
      BY <2>3, <2>5, <3>1
    <3> QED
      BY <1>0, <2>5, <3>2 DEF CountsInv
  <2>13. TreeInv(t, U)
    BY <2>4, <2>7, <2>8, <2>9, <2>10, <2>11, <2>12 DEF TreeInv
  <2>14. UsedBut(s, U, {}) => UsedBut(t, U, {v})
    BY <2>5 DEF UsedBut
  <2> QED
    BY <2>5, <2>13, <2>14 DEF t, v
<1> QED
  BY <1>2, <1>3

-----------------------------------------------------------------------------
(* ramfs_create, ramfs_link and ramfs_unlink: inodes and names.             *)

LEMMA NamesAdded ==
    ASSUME NEW f, NEW g, NEW e, NEW i, IsFiniteSet(DOMAIN f), e \notin DOMAIN f,
           DOMAIN g = DOMAIN f \cup {e}, g[e] = i, \A d \in DOMAIN f : g[d] = f[d]
    PROVE  /\ Cardinality(Names(g, i)) = Cardinality(Names(f, i)) + 1
           /\ \A j : j # i => Names(g, j) = Names(f, j)
           /\ IsFiniteSet(DOMAIN g)
<1>2. IsFiniteSet(DOMAIN g)
  BY FS_AddElement
<1>3. Names(g, i) = Names(f, i) \cup {e} /\ e \notin Names(f, i) /\ Names(f, i) \subseteq DOMAIN f
  BY DEF Names
<1>4. \A j : j # i => Names(g, j) = Names(f, j)
  BY DEF Names
<1>5. IsFiniteSet(Names(f, i))
  BY <1>3, FS_Subset
<1>6. Cardinality(Names(g, i)) = Cardinality(Names(f, i)) + 1 /\ Cardinality(Names(f, i)) \in Nat
  BY <1>3, <1>5, FS_AddElement, FS_CardinalityType
<1> QED
  BY <1>2, <1>4, <1>6

LEMMA NamesRemoved ==
    ASSUME NEW f, IsFiniteSet(DOMAIN f), NEW e, e \in DOMAIN f, NEW i, f[e] = i
    PROVE  /\ Cardinality(Names(Without(f, e), i)) = Cardinality(Names(f, i)) - 1
           /\ Cardinality(Names(f, i)) \in Nat \ {0} /\ IsFiniteSet(Names(Without(f, e), i))
           /\ \A j : j # i => Names(Without(f, e), j) = Names(f, j)
           /\ DOMAIN Without(f, e) = DOMAIN f \ {e} /\ IsFiniteSet(DOMAIN Without(f, e))
           /\ \A d \in DOMAIN f \ {e} : Without(f, e)[d] = f[d]
<1> DEFINE g == Without(f, e)
<1>1. /\ DOMAIN g = DOMAIN f \ {e}
      /\ \A d \in DOMAIN f \ {e} : g[d] = f[d]
  BY DEF Without
<1> HIDE DEF g
<1>2. IsFiniteSet(DOMAIN g)
  BY <1>1, FS_Subset
<1>3. Names(g, i) = Names(f, i) \ {e} /\ e \in Names(f, i) /\ Names(f, i) \subseteq DOMAIN f
  BY <1>1 DEF Names
<1>4. \A j : j # i => Names(g, j) = Names(f, j)
  BY <1>1 DEF Names
<1>5. IsFiniteSet(Names(f, i))
  BY <1>3, FS_Subset
<1>6. /\ Cardinality(Names(g, i)) = Cardinality(Names(f, i)) - 1 /\ IsFiniteSet(Names(g, i))
      /\ Cardinality(Names(f, i)) \in Nat /\ Cardinality(Names(g, i)) \in Nat
  BY <1>3, <1>5, FS_RemoveElement, FS_CardinalityType
<1>7. Cardinality(Names(f, i)) \in Nat \ {0}
  BY <1>6
<1> QED
  BY <1>1, <1>2, <1>4, <1>6, <1>7 DEF g

\* An operation that leaves the nodes alone keeps what concerns them.
LEMMA SameNodes ==
    ASSUME NEW s, NEW t, NEW U, NodesInv(s), CountsInv(s, U), t.vnodes = s.vnodes, t.cache = s.cache
    PROVE  NodesInv(t) /\ CountsInv(t, U) /\ \A X : UsedBut(s, U, X) => UsedBut(t, U, X)
BY DEF NodesInv, CountsInv, UsedBut

LEMMA CreatedInodeFields ==
    ASSUME NEW s, IsFileSystem(s), InodesInv(s)
    PROVE  /\ IsFileSystem(CreatedInode(s))
           /\ CreatedInode(s).vnodes = s.vnodes /\ CreatedInode(s).cache = s.cache
           /\ CreatedInode(s).entries = s.entries /\ CreatedInode(s).unplaced = s.unplaced
           /\ CreatedInode(s).last_index = s.last_index + 1
           /\ DOMAIN CreatedInode(s).inodes = DOMAIN s.inodes \cup {s.last_index}
           /\ CreatedInode(s).inodes[s.last_index] = [type |-> "file", link_count |-> 1]
           /\ \A i \in DOMAIN s.inodes : CreatedInode(s).inodes[i] = s.inodes[i]
           /\ CreatedInode(s).inodes \in [DOMAIN CreatedInode(s).inodes -> InodeRecords]
           /\ s.last_index \notin DOMAIN s.inodes
<1> DEFINE t == CreatedInode(s)
           inode == [type |-> "file", link_count |-> 1]
<1>1. /\ IsFileSystem(t) /\ t.vnodes = s.vnodes /\ t.cache = s.cache
      /\ t.entries = s.entries /\ t.unplaced = s.unplaced /\ t.last_index = s.last_index + 1
      /\ t.inodes = With(s.inodes, s.last_index, inode)
  <2>1. t = [s EXCEPT !.inodes = With(s.inodes, s.last_index, inode), !.last_index = s.last_index + 1]
    BY DEF CreatedInode
  <2> HIDE DEF t, inode
  <2> QED
    BY <2>1 DEF IsFileSystem
<1>2. s.last_index \notin DOMAIN s.inodes
  BY DEF InodesInv
<1>3. inode \in InodeRecords
  BY DEF InodeRecords, Types
<1>4. s.inodes \in [DOMAIN s.inodes -> InodeRecords]
  BY DEF InodesInv
<1> HIDE DEF t, inode
<1>5. /\ DOMAIN t.inodes = DOMAIN s.inodes \cup {s.last_index}
      /\ t.inodes[s.last_index] = inode
      /\ \A i \in DOMAIN s.inodes : t.inodes[i] = s.inodes[i]
      /\ t.inodes \in [DOMAIN t.inodes -> InodeRecords]
  BY <1>1, <1>2, <1>3, <1>4 DEF With
<1> QED
  BY <1>1, <1>2, <1>5 DEF t, inode

\* A file for which the directory has no room is nowhere.
Nowhere(s) == [CreatedInode(s) EXCEPT !.unplaced = @ \cup {s.last_index}]

LEMMA NowhereKeeps ==
    ASSUME NEW s, NEW U, TreeInv(s, U)
    PROVE  /\ TreeInv(Nowhere(s), U) /\ Nowhere(s).vnodes = s.vnodes
           /\ \A X : UsedBut(s, U, X) => UsedBut(Nowhere(s), U, X)
<1> DEFINE c == CreatedInode(s)
           t == Nowhere(s)
           n == s.last_index
<1>0. /\ IsFileSystem(s) /\ NodesInv(s) /\ InodesInv(s) /\ EntriesInv(s) /\ FilesInv(s) /\ LinksInv(s)
      /\ CountsInv(s, U)
  BY DEF TreeInv
<1>1. /\ IsFileSystem(c)
      /\ c.vnodes = s.vnodes /\ c.cache = s.cache
      /\ c.entries = s.entries /\ c.unplaced = s.unplaced
      /\ c.last_index = n + 1
      /\ DOMAIN c.inodes = DOMAIN s.inodes \cup {n}
      /\ c.inodes[n] = [type |-> "file", link_count |-> 1]
      /\ \A i \in DOMAIN s.inodes : c.inodes[i] = s.inodes[i]
      /\ c.inodes \in [DOMAIN c.inodes -> InodeRecords]
      /\ n \notin DOMAIN s.inodes
  BY <1>0, CreatedInodeFields
<1> HIDE DEF c
<1>2. /\ IsFileSystem(t)
      /\ t.vnodes = s.vnodes /\ t.cache = s.cache
      /\ t.entries = s.entries /\ t.unplaced = s.unplaced \cup {n}
      /\ t.last_index = n + 1 /\ t.inodes = c.inodes
  BY <1>1 DEF Nowhere, IsFileSystem, c
<1> HIDE DEF t
<1>3. NodesInv(t) /\ CountsInv(t, U) /\ \A X : UsedBut(s, U, X) => UsedBut(t, U, X)
  BY <1>0, <1>2, SameNodes
<1>4. n \in Nat /\ \A i \in DOMAIN s.inodes : i \in Nat /\ i < n
  BY <1>0 DEF InodesInv
<1> HIDE DEF n
<1>5. InodesInv(t)
  BY <1>0, <1>1, <1>2, <1>4 DEF InodesInv
<1>6. EntriesInv(t)
  BY <1>0, <1>1, <1>2 DEF EntriesInv
<1>7. FilesInv(t)
  BY <1>0, <1>1, <1>2 DEF FilesInv
<1>8. LinksInv(t)
  BY <1>0, <1>1, <1>2 DEF LinksInv, Names
<1> QED
  BY <1>2, <1>3, <1>5, <1>6, <1>7, <1>8 DEF TreeInv, t

\* A new file in directory v.
LEMMA CreatedKeeps ==
    ASSUME NEW s, NEW U, TreeInv(s, U), NEW v \in DOMAIN s.vnodes, IsRamfsDirectory(s, v), NEW name,
           <<s.vnodes[v].index, name>> \notin DOMAIN s.entries
    PROVE  LET t == Added(CreatedInode(s), v, name, s.last_index)
           IN  /\ TreeInv(t, U) /\ t.vnodes = s.vnodes
               /\ s.last_index \in DOMAIN t.inodes \ t.unplaced
               /\ t.inodes[s.last_index].type = "file" /\ s.last_index # s.vnodes[v].index
               /\ \A X : UsedBut(s, U, X) => UsedBut(t, U, X)
<1> DEFINE c == CreatedInode(s)
           n == s.last_index
           t == Added(c, v, name, n)
           e == <<s.vnodes[v].index, name>>
<1>0. /\ IsFileSystem(s) /\ NodesInv(s) /\ InodesInv(s) /\ EntriesInv(s) /\ FilesInv(s) /\ LinksInv(s)
      /\ CountsInv(s, U)
  BY DEF TreeInv
<1>1. /\ IsFileSystem(c)
      /\ c.vnodes = s.vnodes /\ c.cache = s.cache
      /\ c.entries = s.entries /\ c.unplaced = s.unplaced
      /\ c.last_index = n + 1
      /\ DOMAIN c.inodes = DOMAIN s.inodes \cup {n}
      /\ c.inodes[n] = [type |-> "file", link_count |-> 1]
      /\ \A i \in DOMAIN s.inodes : c.inodes[i] = s.inodes[i]
      /\ c.inodes \in [DOMAIN c.inodes -> InodeRecords]
      /\ n \notin DOMAIN s.inodes
  BY <1>0, CreatedInodeFields
<1> HIDE DEF c
<1>2. /\ IsFileSystem(t)
      /\ t.vnodes = s.vnodes /\ t.cache = s.cache
      /\ t.entries = With(s.entries, e, n) /\ t.unplaced = s.unplaced
      /\ t.last_index = n + 1 /\ t.inodes = c.inodes
  BY <1>1 DEF Added, IsFileSystem
<1>3. n \in Nat /\ \A i \in DOMAIN s.inodes : i \in Nat /\ i < n
  BY <1>0 DEF InodesInv
<1>4. s.vnodes[v].index \in DOMAIN s.inodes /\ s.inodes[s.vnodes[v].index].type = "dir"
  BY <1>0 DEF FilesInv, IsRamfsDirectory, IsRamfs
<1>5. e = <<e[1], e[2]>> /\ e[1] \in DOMAIN s.inodes /\ s.inodes[e[1]].type = "dir" /\ e[1] # n
  BY <1>1, <1>4
<1> HIDE DEF t, n, e
<1>6. e \notin DOMAIN s.entries
  BY DEF e
<1>7. /\ Cardinality(Names(t.entries, n)) = Cardinality(Names(s.entries, n)) + 1
      /\ \A j \in Nat : j # n => Names(t.entries, j) = Names(s.entries, j)
      /\ DOMAIN t.entries = DOMAIN s.entries \cup {e} /\ IsFiniteSet(DOMAIN t.entries)
      /\ t.entries[e] = n /\ \A d \in DOMAIN s.entries : t.entries[d] = s.entries[d]
      /\ t.entries \in [DOMAIN t.entries -> Nat]
  <2>1. /\ IsFiniteSet(DOMAIN s.entries) /\ e \notin DOMAIN s.entries
        /\ t.entries = With(s.entries, e, n)
    BY <1>0, <1>2, <1>6 DEF EntriesInv
  <2>2. t.entries \in [DOMAIN t.entries -> Nat]
    BY <1>0, <1>3, <2>1 DEF With, EntriesInv
  <2>3. /\ DOMAIN t.entries = DOMAIN s.entries \cup {e} /\ t.entries[e] = n
        /\ \A d \in DOMAIN s.entries : t.entries[d] = s.entries[d]
    BY <1>6, <2>1 DEF With
  <2> QED
    BY <1>6, <2>1, <2>2, <2>3, NamesAdded
<1>8. Cardinality(Names(s.entries, n)) = 0
  <2>1. Names(s.entries, n) = {}
    BY <1>0, <1>1 DEF Names, EntriesInv
  <2> QED
    BY <2>1, FS_EmptySet
<1>9. NodesInv(t) /\ CountsInv(t, U) /\ \A X : UsedBut(s, U, X) => UsedBut(t, U, X)
  BY <1>0, <1>2, SameNodes
<1>10. InodesInv(t)
  BY <1>0, <1>1, <1>2, <1>3 DEF InodesInv
<1>11. EntriesInv(t)
  <2>1. n \notin s.unplaced
    BY <1>0, <1>1 DEF InodesInv
  <2> SUFFICES ASSUME NEW d \in DOMAIN t.entries
               PROVE  /\ d = <<d[1], d[2]>>
                      /\ d[1] \in DOMAIN t.inodes /\ t.inodes[d[1]].type = "dir"
                      /\ t.entries[d] \in DOMAIN t.inodes \ t.unplaced
                      /\ t.entries[d] # d[1]
    BY <1>7 DEF EntriesInv
  <2>2. CASE d = e
    BY <1>1, <1>2, <1>5, <1>7, <2>1, <2>2
  <2>3. CASE d # e
    <3>1. d \in DOMAIN s.entries /\ t.entries[d] = s.entries[d]
      BY <1>7, <2>3
    <3>2. /\ d = <<d[1], d[2]>>
          /\ d[1] \in DOMAIN s.inodes /\ s.inodes[d[1]].type = "dir"
          /\ s.entries[d] \in DOMAIN s.inodes \ s.unplaced
          /\ s.entries[d] # d[1]
      BY <1>0, <3>1 DEF EntriesInv
    <3> QED
      BY <1>1, <1>2, <3>1, <3>2
  <2> QED
    BY <2>2, <2>3
<1>12. FilesInv(t)
  BY <1>0, <1>1, <1>2 DEF FilesInv
<1>13. LinksInv(t)
  <2> SUFFICES ASSUME NEW j \in DOMAIN t.inodes, j \notin t.unplaced
               PROVE  /\ t.inodes[j].link_count = Cardinality(Names(t.entries, j))
                      /\ t.inodes[j].link_count = 0 => Address(Ramfs, j) \in DOMAIN t.vnodes
    BY DEF LinksInv
  <2>1. CASE j = n
    BY <1>1, <1>2, <1>7, <1>8, <2>1
  <2>2. CASE j # n
    BY <1>0, <1>1, <1>2, <1>3, <1>7, <2>2 DEF LinksInv
  <2> QED
    BY <2>1, <2>2
<1>14. TreeInv(t, U)
  BY <1>2, <1>9, <1>10, <1>11, <1>12, <1>13 DEF TreeInv
<1>15. n \in DOMAIN t.inodes \ t.unplaced /\ t.inodes[n].type = "file" /\ n # s.vnodes[v].index
  BY <1>0, <1>1, <1>2, <1>4 DEF InodesInv
<1> QED
  BY <1>2, <1>9, <1>14, <1>15 DEF t, c, n

\* Another name for file i, in directory v.
LEMMA LinkedKeeps ==
    ASSUME NEW s, NEW U, TreeInv(s, U), NEW v \in DOMAIN s.vnodes, IsRamfsDirectory(s, v), NEW name,
           <<s.vnodes[v].index, name>> \notin DOMAIN s.entries,
           NEW i, i \in DOMAIN s.inodes \ s.unplaced, s.inodes[i].type = "file"
    PROVE  LET t == LinkCounted(Added(s, v, name, i), i)
           IN  /\ TreeInv(t, U) /\ t.vnodes = s.vnodes
               /\ \A X : UsedBut(s, U, X) => UsedBut(t, U, X)
<1> DEFINE e == <<s.vnodes[v].index, name>>
           t == LinkCounted(Added(s, v, name, i), i)
<1>0. /\ IsFileSystem(s) /\ NodesInv(s) /\ InodesInv(s) /\ EntriesInv(s) /\ FilesInv(s) /\ LinksInv(s)
      /\ CountsInv(s, U)
  BY DEF TreeInv
<1>1. Added(s, v, name, i) = [s EXCEPT !.entries = With(s.entries, e, i)]
  BY <1>0 DEF Added, IsFileSystem
<1>2. s.inodes \in [DOMAIN s.inodes -> InodeRecords] /\ s.inodes[i] \in InodeRecords
  BY <1>0 DEF InodesInv
<1>3. s.vnodes[v].index \in DOMAIN s.inodes /\ s.inodes[s.vnodes[v].index].type = "dir"
  BY <1>0 DEF FilesInv, IsRamfsDirectory, IsRamfs
<1>4. e = <<e[1], e[2]>> /\ e[1] \in DOMAIN s.inodes /\ s.inodes[e[1]].type = "dir" /\ e[1] # i
  BY <1>3
<1> HIDE DEF e
<1>5. /\ IsFileSystem(t)
      /\ t.vnodes = s.vnodes /\ t.cache = s.cache
      /\ t.entries = With(s.entries, e, i) /\ t.unplaced = s.unplaced
      /\ t.last_index = s.last_index
      /\ t.inodes = [s.inodes EXCEPT ![i] = [s.inodes[i] EXCEPT !.link_count = @ + 1]]
  <2> DEFINE a == [s EXCEPT !.entries = With(s.entries, e, i)]
  <2>1. /\ IsFileSystem(a) /\ a.vnodes = s.vnodes /\ a.cache = s.cache /\ a.inodes = s.inodes
        /\ a.entries = With(s.entries, e, i) /\ a.unplaced = s.unplaced /\ a.last_index = s.last_index
    BY <1>0 DEF IsFileSystem
  <2>2. t = [a EXCEPT !.inodes[i].link_count = @ + 1]
    BY <1>1 DEF LinkCounted
  <2> HIDE DEF a, t
  <2> QED
    BY <1>2, <2>1, <2>2 DEF IsFileSystem
<1> HIDE DEF t
<1>6. [s.inodes[i] EXCEPT !.link_count = @ + 1] \in InodeRecords
  BY <1>2 DEF InodeRecords
<1>7. /\ t.inodes \in [DOMAIN s.inodes -> InodeRecords] /\ DOMAIN t.inodes = DOMAIN s.inodes
      /\ t.inodes[i] = [s.inodes[i] EXCEPT !.link_count = @ + 1]
      /\ \A j \in DOMAIN s.inodes \ {i} : t.inodes[j] = s.inodes[j]
  BY <1>2, <1>5, <1>6
<1>8. t.inodes[i].type = "file" /\ t.inodes[i].link_count = s.inodes[i].link_count + 1 /\ s.inodes[i].link_count \in Nat
  BY <1>2, <1>7 DEF InodeRecords
<1>9. \A j \in DOMAIN s.inodes : t.inodes[j].type = s.inodes[j].type
  BY <1>7, <1>8
<1>10. e \notin DOMAIN s.entries
  BY DEF e
<1>11. /\ Cardinality(Names(t.entries, i)) = Cardinality(Names(s.entries, i)) + 1
       /\ \A j : j # i => Names(t.entries, j) = Names(s.entries, j)
       /\ DOMAIN t.entries = DOMAIN s.entries \cup {e} /\ IsFiniteSet(DOMAIN t.entries)
       /\ t.entries[e] = i /\ \A d \in DOMAIN s.entries : t.entries[d] = s.entries[d]
  <2>1. IsFiniteSet(DOMAIN s.entries) /\ t.entries = With(s.entries, e, i)
    BY <1>0, <1>5 DEF EntriesInv
  <2>3. /\ DOMAIN t.entries = DOMAIN s.entries \cup {e} /\ t.entries[e] = i
        /\ \A d \in DOMAIN s.entries : t.entries[d] = s.entries[d]
    BY <1>10, <2>1 DEF With
  <2> QED
    BY <1>10, <2>1, <2>3, NamesAdded
<1>12. t.entries \in [DOMAIN t.entries -> Nat]
  <2>1. i \in Nat /\ s.entries \in [DOMAIN s.entries -> Nat]
    BY <1>0 DEF InodesInv, EntriesInv
  <2> QED
    BY <1>5, <2>1 DEF With
<1>13. NodesInv(t) /\ CountsInv(t, U) /\ \A X : UsedBut(s, U, X) => UsedBut(t, U, X)
  BY <1>0, <1>5, SameNodes
<1>14. InodesInv(t)
  <2>1. ASSUME NEW j \in DOMAIN s.inodes, s.inodes[j].link_count > 0
        PROVE  t.inodes[j].link_count > 0
    <3>1. CASE j = i
      BY <1>8, <3>1
    <3>2. CASE j # i
      BY <1>7, <2>1, <3>2
    <3> QED
      BY <3>1, <3>2
  <2> QED
    BY <1>0, <1>5, <1>7, <1>9, <2>1 DEF InodesInv
<1>15. EntriesInv(t)
  <2> SUFFICES ASSUME NEW d \in DOMAIN t.entries
               PROVE  /\ d = <<d[1], d[2]>>
                      /\ d[1] \in DOMAIN t.inodes /\ t.inodes[d[1]].type = "dir"
                      /\ t.entries[d] \in DOMAIN t.inodes \ t.unplaced
                      /\ t.entries[d] # d[1]
    BY <1>11, <1>12 DEF EntriesInv
  <2>2. CASE d = e
    BY <1>4, <1>5, <1>7, <1>9, <1>11, <2>2
  <2>3. CASE d # e
    <3>1. d \in DOMAIN s.entries /\ t.entries[d] = s.entries[d]
      BY <1>11, <2>3
    <3>2. /\ d = <<d[1], d[2]>>
          /\ d[1] \in DOMAIN s.inodes /\ s.inodes[d[1]].type = "dir"
          /\ s.entries[d] \in DOMAIN s.inodes \ s.unplaced
          /\ s.entries[d] # d[1]
      BY <1>0, <3>1 DEF EntriesInv
    <3> QED
      BY <1>5, <1>7, <1>9, <3>1, <3>2
  <2> QED
    BY <2>2, <2>3
<1>16. FilesInv(t)
  BY <1>0, <1>5, <1>7, <1>9 DEF FilesInv
<1>17. LinksInv(t)
  <2> SUFFICES ASSUME NEW j \in DOMAIN t.inodes, j \notin t.unplaced
               PROVE  /\ t.inodes[j].link_count = Cardinality(Names(t.entries, j))
                      /\ t.inodes[j].link_count = 0 => Address(Ramfs, j) \in DOMAIN t.vnodes
    BY DEF LinksInv
  <2>0. /\ s.inodes[j].link_count = Cardinality(Names(s.entries, j))
        /\ s.inodes[j].link_count = 0 => Address(Ramfs, j) \in DOMAIN s.vnodes
    BY <1>0, <1>5, <1>7 DEF LinksInv
  <2>1. CASE j = i
    BY <1>8, <1>11, <2>0, <2>1
  <2>2. CASE j # i
    BY <1>5, <1>7, <1>11, <2>0, <2>2
  <2> QED
    BY <2>1, <2>2
<1>18. TreeInv(t, U)
  BY <1>5, <1>13, <1>14, <1>15, <1>16, <1>17 DEF TreeInv
<1> QED
  BY <1>5, <1>13, <1>18 DEF t

\* A name less.  The file goes at once when this was its last name and it has no node; when it
\* has one, ramfs_release sees to it.
LEMMA UnlinkedKeeps ==
    ASSUME NEW s, NEW U, TreeInv(s, U), NEW v \in DOMAIN s.vnodes, NEW name,
           NEW i, <<s.vnodes[v].index, name>> \in DOMAIN s.entries,
           i = s.entries[<<s.vnodes[v].index, name>>], s.inodes[i].type = "file"
    PROVE  LET t == Unlinked(s, v, name, i)
           IN  /\ TreeInv(t, U) /\ t.vnodes = s.vnodes
               /\ \A X : UsedBut(s, U, X) => UsedBut(t, U, X)
<1> DEFINE e == <<s.vnodes[v].index, name>>
           t == Unlinked(s, v, name, i)
           less == [s EXCEPT !.entries = Without(@, <<s.vnodes[v].index, name>>),
                             !.inodes[i].link_count = @ - 1]
           goes == less.inodes[i].link_count = 0 /\ ~KeepsForNode(less, i)
<1>0. /\ IsFileSystem(s) /\ NodesInv(s) /\ InodesInv(s) /\ EntriesInv(s) /\ FilesInv(s) /\ LinksInv(s)
      /\ CountsInv(s, U)
  BY DEF TreeInv
<1>1. t = IF goes THEN [less EXCEPT !.inodes = Without(@, i)] ELSE less
  BY DEF Unlinked
<1>2. s.inodes \in [DOMAIN s.inodes -> InodeRecords] /\ i \in DOMAIN s.inodes \ s.unplaced /\ s.inodes[i] \in InodeRecords
  BY <1>0 DEF InodesInv, EntriesInv
<1> HIDE DEF e
<1>3. s.inodes[i].link_count \in Int
  BY <1>2 DEF InodeRecords
<1>5. /\ IsFileSystem(less)
      /\ less.vnodes = s.vnodes /\ less.cache = s.cache
      /\ less.entries = Without(s.entries, e) /\ less.unplaced = s.unplaced
      /\ less.last_index = s.last_index
      /\ less.inodes = [s.inodes EXCEPT ![i] = [s.inodes[i] EXCEPT !.link_count = @ - 1]]
  <2>1. less = [s EXCEPT !.entries = Without(s.entries, e),
                         !.inodes = [s.inodes EXCEPT ![i] = [s.inodes[i] EXCEPT !.link_count = @ - 1]]]
    BY <1>0 DEF IsFileSystem, e
  <2> HIDE DEF less
  <2> QED
    BY <1>0, <2>1 DEF IsFileSystem
<1> HIDE DEF t, less, goes
<1>6. e \in DOMAIN s.entries /\ i = s.entries[e] /\ EntriesInv(s) /\ less.entries = Without(s.entries, e)
  BY <1>0, <1>5 DEF e
<1>7. /\ Cardinality(Names(less.entries, i)) = Cardinality(Names(s.entries, i)) - 1
      /\ Cardinality(Names(s.entries, i)) \in Nat \ {0} /\ IsFiniteSet(Names(less.entries, i))
      /\ \A j \in Nat : j # i => Names(less.entries, j) = Names(s.entries, j)
      /\ DOMAIN less.entries = DOMAIN s.entries \ {e} /\ IsFiniteSet(DOMAIN less.entries)
      /\ \A d \in DOMAIN less.entries : less.entries[d] = s.entries[d]
      /\ less.entries \in [DOMAIN less.entries -> Nat]
  <2>1. IsFiniteSet(DOMAIN s.entries) /\ s.entries \in [DOMAIN s.entries -> Nat]
    BY <1>0 DEF EntriesInv
  <2>2. less.entries \in [DOMAIN less.entries -> Nat]
    BY <1>6, <2>1 DEF Without
  <2>8. /\ Cardinality(Names(Without(s.entries, e), i)) = Cardinality(Names(s.entries, i)) - 1
        /\ Cardinality(Names(s.entries, i)) \in Nat \ {0} /\ IsFiniteSet(Names(Without(s.entries, e), i))
        /\ \A j : j # i => Names(Without(s.entries, e), j) = Names(s.entries, j)
        /\ DOMAIN Without(s.entries, e) = DOMAIN s.entries \ {e} /\ IsFiniteSet(DOMAIN Without(s.entries, e))
        /\ \A d \in DOMAIN s.entries \ {e} : Without(s.entries, e)[d] = s.entries[d]
    <3>1. e \in DOMAIN s.entries /\ s.entries[e] = i /\ IsFiniteSet(DOMAIN s.entries)
      BY <1>6, <2>1
    <3> QED
      BY <3>1, NamesRemoved
  <2> QED
    BY <1>6, <2>2, <2>8
<1>8. s.inodes[i].link_count = Cardinality(Names(s.entries, i))
  BY <1>0, <1>2 DEF LinksInv
<1>9. [s.inodes[i] EXCEPT !.link_count = @ - 1] \in InodeRecords
  <2> DEFINE inode == s.inodes[i]
             n == inode.link_count - 1
  <2>1. inode.link_count \in Nat \ {0}
    BY <1>7, <1>8
  <2>2. n \in Nat /\ inode \in InodeRecords
    BY <1>2, <2>1
  <2>3. [inode EXCEPT !.link_count = @ - 1] = [inode EXCEPT !.link_count = n]
    OBVIOUS
  <2> HIDE DEF n, inode
  <2>4. [inode EXCEPT !.link_count = n] \in InodeRecords
    BY <2>2 DEF InodeRecords
  <2> QED
    BY <2>3, <2>4 DEF inode
<1>10. /\ less.inodes \in [DOMAIN s.inodes -> InodeRecords] /\ DOMAIN less.inodes = DOMAIN s.inodes
       /\ less.inodes[i] = [s.inodes[i] EXCEPT !.link_count = @ - 1]
       /\ \A j \in DOMAIN s.inodes \ {i} : less.inodes[j] = s.inodes[j]
  BY <1>2, <1>5, <1>9
<1>11. less.inodes[i].type = "file" /\ less.inodes[i].link_count = s.inodes[i].link_count - 1
  BY <1>2, <1>10 DEF InodeRecords
<1>12. \A j \in DOMAIN s.inodes : less.inodes[j].type = s.inodes[j].type
  BY <1>10, <1>11
<1>13. /\ IsFileSystem(t)
       /\ t.vnodes = s.vnodes /\ t.cache = s.cache
       /\ t.entries = less.entries /\ t.unplaced = s.unplaced /\ t.last_index = s.last_index
       /\ t.inodes = IF goes THEN Without(less.inodes, i) ELSE less.inodes
  BY <1>1, <1>5 DEF IsFileSystem
<1>14. /\ DOMAIN t.inodes \subseteq DOMAIN s.inodes
       /\ \A j \in DOMAIN s.inodes : j \notin DOMAIN t.inodes => goes /\ j = i
       /\ goes => i \notin DOMAIN t.inodes
       /\ \A j \in DOMAIN t.inodes : t.inodes[j] = less.inodes[j]
       /\ t.inodes \in [DOMAIN t.inodes -> InodeRecords]
  <2>1. CASE goes
    <3>1. t.inodes = [j \in DOMAIN less.inodes \ {i} |-> less.inodes[j]]
      BY <1>13, <2>1 DEF Without
    <3> QED
      <4>1. DOMAIN t.inodes = DOMAIN s.inodes \ {i} /\ \A j \in DOMAIN t.inodes : t.inodes[j] = less.inodes[j]
        BY <1>10, <3>1
      <4>2. \A j \in DOMAIN less.inodes : less.inodes[j] \in InodeRecords
        BY <1>10
      <4>3. t.inodes \in [DOMAIN less.inodes \ {i} -> InodeRecords]
        BY <3>1, <4>2
      <4> QED
        BY <1>10, <2>1, <4>1, <4>3
  <2>2. CASE ~goes
    BY <1>10, <1>13, <2>2
  <2> QED
    BY <2>1, <2>2
<1>15. NodesInv(t) /\ CountsInv(t, U) /\ \A X : UsedBut(s, U, X) => UsedBut(t, U, X)
  BY <1>0, <1>13, SameNodes
<1>16. goes <=> less.inodes[i].link_count = 0 /\ Address(Ramfs, i) \notin DOMAIN s.vnodes
  <2>1. NodesInv(less)
    BY <1>0, <1>5, SameNodes
  <2>2. Cached(less, Ramfs, i) = {Address(Ramfs, i)} \cap DOMAIN less.vnodes
    BY <2>1, CachedIsAddress
  <2> QED
    BY <1>5, <2>2 DEF goes, KeepsForNode
<1>17. goes => Names(less.entries, i) = {}
  <2> SUFFICES ASSUME goes PROVE Names(less.entries, i) = {}
    OBVIOUS
  <2>1. Cardinality(Names(less.entries, i)) = 0
    BY <1>7, <1>8, <1>11, <1>16
  <2> QED
    BY <1>7, <2>1, FS_EmptySet
<1>18. InodesInv(t)
  <2>1. \A j \in s.unplaced : j \in DOMAIN t.inodes /\ t.inodes[j] = s.inodes[j]
    BY <1>0, <1>2, <1>10, <1>14 DEF InodesInv
  <2>2. \A j \in DOMAIN t.inodes : t.inodes[j].type = "dir" => t.inodes[j] = s.inodes[j]
    BY <1>10, <1>11, <1>14
  <2> QED
    BY <1>0, <1>13, <1>14, <2>1, <2>2 DEF InodesInv
<1>19. EntriesInv(t)
  <2> SUFFICES ASSUME NEW d \in DOMAIN t.entries
               PROVE  /\ d = <<d[1], d[2]>>
                      /\ d[1] \in DOMAIN t.inodes /\ t.inodes[d[1]].type = "dir"
                      /\ t.entries[d] \in DOMAIN t.inodes \ t.unplaced
                      /\ t.entries[d] # d[1]
    BY <1>7, <1>13 DEF EntriesInv
  <2>1. d \in DOMAIN s.entries /\ t.entries[d] = s.entries[d] /\ less.entries[d] = s.entries[d] /\ d \in DOMAIN less.entries
    BY <1>7, <1>13
  <2>2. /\ d = <<d[1], d[2]>>
        /\ d[1] \in DOMAIN s.inodes /\ s.inodes[d[1]].type = "dir"
        /\ s.entries[d] \in DOMAIN s.inodes \ s.unplaced
        /\ s.entries[d] # d[1]
    BY <1>0, <2>1 DEF EntriesInv
  <2>3. goes => s.entries[d] # i
    BY <1>17, <2>1 DEF Names
  <2>4. d[1] # i
    BY <2>2
  <2> QED
    BY <1>12, <1>13, <1>14, <2>1, <2>2, <2>3, <2>4
<1>20. FilesInv(t)
  <2> SUFFICES ASSUME NEW w \in DOMAIN s.vnodes, s.vnodes[w].cache_index = Ramfs
               PROVE  /\ s.vnodes[w].index \in DOMAIN t.inodes
                      /\ s.vnodes[w].type = t.inodes[s.vnodes[w].index].type
                      /\ s.vnodes[w].index \in t.unplaced => s.vnodes[w].type = "dir"
    BY <1>13 DEF FilesInv
  <2>1. /\ s.vnodes[w].index \in DOMAIN s.inodes
        /\ s.vnodes[w].type = s.inodes[s.vnodes[w].index].type
        /\ s.vnodes[w].index \in s.unplaced => s.vnodes[w].type = "dir"
    BY <1>0 DEF FilesInv
  <2>2. w = Address(Ramfs, s.vnodes[w].index)
    BY <1>0, NodeFacts
  <2>3. goes => s.vnodes[w].index # i
    BY <1>16, <2>2
  <2> QED
    BY <1>12, <1>13, <1>14, <2>1, <2>3
<1>21. LinksInv(t)
  <2> SUFFICES ASSUME NEW j \in DOMAIN t.inodes, j \notin t.unplaced
               PROVE  /\ t.inodes[j].link_count = Cardinality(Names(t.entries, j))
                      /\ t.inodes[j].link_count = 0 => Address(Ramfs, j) \in DOMAIN t.vnodes
    BY DEF LinksInv
  <2>0. /\ s.inodes[j].link_count = Cardinality(Names(s.entries, j))
        /\ s.inodes[j].link_count = 0 => Address(Ramfs, j) \in DOMAIN s.vnodes
    BY <1>0, <1>13, <1>14 DEF LinksInv
  <2>3. j \in Nat /\ Names(t.entries, j) = Names(less.entries, j) /\ t.inodes[j] = less.inodes[j]
    BY <1>0, <1>13, <1>14 DEF Names, InodesInv
  <2>1. CASE j = i
    BY <1>7, <1>8, <1>11, <1>13, <1>14, <1>16, <2>1, <2>3
  <2>2. CASE j # i
    BY <1>7, <1>10, <1>13, <1>14, <2>0, <2>2, <2>3
  <2> QED
    BY <2>1, <2>2
<1>22. TreeInv(t, U)
  BY <1>13, <1>15, <1>18, <1>19, <1>20, <1>21 DEF TreeInv
<1> QED
  BY <1>13, <1>15, <1>22 DEF t

-----------------------------------------------------------------------------
(* Resources and slots.                                                     *)

LEMMA HoldersAreFinite ==
    ASSUME NEW rs, NEW sl, NEW T, SlotsInv(rs, sl, T), NEW r, r # Empty
    PROVE  IsFiniteSet(Holders(sl, r)) /\ Cardinality(Holders(sl, r)) \in Nat
<1>1. IsFiniteSet(T) /\ \A t \in Tasks \ T : \A i \in Slots : sl[t][i] = Empty
  BY DEF SlotsInv
<1>2. IsFiniteSet(Slots)
  BY LimitAssumption, FS_Interval DEF Slots
<1>3. IsFiniteSet(T \X Slots)
  BY <1>1, <1>2, FS_Product
<1>4. Holders(sl, r) \in SUBSET (T \X Slots)
  <2> SUFFICES ASSUME NEW t \in Tasks, NEW i \in Slots, sl[t][i] = r
               PROVE  t \in T
    BY DEF Holders
  <2> QED
    BY <1>1
<1> QED
  BY <1>3, <1>4, FS_Subset, FS_CardinalityType

\* resource_register finds an address that is not in use.
LEMMA FreshIsNew ==
    ASSUME NEW f, IsFiniteSet(DOMAIN f)
    PROVE  Fresh(f) \in Nat \ {0} /\ Fresh(f) \notin DOMAIN f
<1> DEFINE n == Cardinality(DOMAIN f)
           S == 1 .. n + 1
<1>1. n \in Nat
  BY FS_CardinalityType
<1>2. \E x \in S : x \notin DOMAIN f
  <2> SUFFICES ASSUME S \subseteq DOMAIN f PROVE FALSE
    OBVIOUS
  <2>1. Cardinality(S) = n + 1
    BY <1>1, FS_Interval
  <2> HIDE DEF S
  <2>2. Cardinality(S) <= n
    BY FS_Subset
  <2> QED
    BY <1>1, <2>1, <2>2
<1>3. Fresh(f) \in S /\ Fresh(f) \notin DOMAIN f
  BY <1>2 DEF Fresh
<1> QED
  BY <1>1, <1>3

\* One slot changes.
LEMMA SlotChanged ==
    ASSUME NEW R, NEW sl \in [Tasks -> [Slots -> R]], NEW t \in Tasks, NEW i \in Slots, NEW x,
           NEW Q, R \subseteq Q, x \in Q
    PROVE  /\ [sl EXCEPT ![t][i] = x] \in [Tasks -> [Slots -> Q]]
           /\ [sl EXCEPT ![t][i] = x][t][i] = x
           /\ \A u \in Tasks, j \in Slots : <<u, j>> # <<t, i>> => [sl EXCEPT ![t][i] = x][u][j] = sl[u][j]
<1>1. sl[t] \in [Slots -> R] /\ [sl[t] EXCEPT ![i] = x] \in [Slots -> Q]
  OBVIOUS
<1> DEFINE new == [sl EXCEPT ![t][i] = x]
<1>2. new = [sl EXCEPT ![t] = [sl[t] EXCEPT ![i] = x]]
  OBVIOUS
<1> HIDE DEF new
<1>3. new[t] = [sl[t] EXCEPT ![i] = x] /\ \A u \in Tasks : u # t => new[u] = sl[u]
  BY <1>2
<1>4. new \in [Tasks -> [Slots -> Q]]
  <2>1. \A u \in Tasks : sl[u] \in [Slots -> Q]
    <3> SUFFICES ASSUME NEW u \in Tasks PROVE sl[u] \in [Slots -> Q]
      OBVIOUS
    <3>1. sl[u] \in [Slots -> R]
      OBVIOUS
    <3> QED
      BY <3>1
  <2>2. \A u \in Tasks : new[u] \in [Slots -> Q]
    BY <1>1, <1>3, <2>1
  <2>3. new = [u \in Tasks |-> new[u]]
    BY <1>2
  <2> QED
    BY <2>2, <2>3
<1>5. new[t][i] = x /\ \A j \in Slots : j # i => new[t][j] = sl[t][j]
  BY <1>1, <1>3
<1>6. \A u \in Tasks, j \in Slots : <<u, j>> # <<t, i>> => new[u][j] = sl[u][j]
  BY <1>3, <1>5
<1> QED
  BY <1>4, <1>5, <1>6 DEF new

SameElsewhere(sl, new, t, i) ==
    \A u \in Tasks, j \in Slots : <<u, j>> # <<t, i>> => new[u][j] = sl[u][j]

Replaces(sl, new, t, i, a, b) ==
    t \in Tasks /\ i \in Slots /\ SameElsewhere(sl, new, t, i) /\ sl[t][i] = a /\ new[t][i] = b /\ a # b

LEMMA HoldersMove ==
    ASSUME NEW sl, NEW new, NEW t, NEW i, NEW a, NEW b, Replaces(sl, new, t, i, a, b)
    PROVE  /\ \A r : r \notin {a, b} => Holders(new, r) = Holders(sl, r)
           /\ Holders(new, a) = Holders(sl, a) \ {<<t, i>>}
           /\ <<t, i>> \in Holders(sl, a)
           /\ Holders(new, b) = Holders(sl, b) \cup {<<t, i>>}
<1> t \in Tasks /\ i \in Slots /\ SameElsewhere(sl, new, t, i) /\ sl[t][i] = a /\ new[t][i] = b /\ a # b
  BY DEF Replaces
<1>1. \A p \in Tasks \X Slots : p # <<t, i>> => new[p[1]][p[2]] = sl[p[1]][p[2]]
  <2> SUFFICES ASSUME NEW u \in Tasks, NEW j \in Slots, <<u, j>> # <<t, i>>
               PROVE  new[u][j] = sl[u][j]
    OBVIOUS
  <2> QED
    BY DEF SameElsewhere
<1>2. <<t, i>> \in Tasks \X Slots /\ <<t, i>>[1] = t /\ <<t, i>>[2] = i
  OBVIOUS
<1>3. \A r : r \notin {a, b} => Holders(new, r) = Holders(sl, r)
  BY <1>1, <1>2 DEF Holders
<1>4. Holders(new, a) = Holders(sl, a) \ {<<t, i>>}
  BY <1>1, <1>2 DEF Holders
<1>5. <<t, i>> \in Holders(sl, a)
  BY <1>2 DEF Holders
<1>6. Holders(new, b) = Holders(sl, b) \cup {<<t, i>>}
  BY <1>1, <1>2 DEF Holders
<1> QED
  BY <1>3, <1>4, <1>5, <1>6

\* resource_register: a new resource in a free slot.
LEMMA RegisterKeeps ==
    ASSUME NEW rs, NEW sl, NEW T, SlotsInv(rs, sl, T), NEW t \in T, NEW i \in Slots, sl[t][i] = Empty,
           NEW v \in Addresses
    PROVE  SlotsInv(With(rs, Fresh(rs), [node |-> v, ref_count |-> 1]),
                    [sl EXCEPT ![t][i] = Fresh(rs)], T)
<1> DEFINE n == Fresh(rs)
           record == [node |-> v, ref_count |-> 1]
           rs2 == With(rs, n, record)
           sl2 == [sl EXCEPT ![t][i] = n]
<1>1. /\ IsFiniteSet(DOMAIN rs) /\ DOMAIN rs \subseteq Nat \ {0}
      /\ rs \in [DOMAIN rs -> ResourceRecords]
      /\ T \subseteq Tasks /\ InitTask \in T /\ IsFiniteSet(T)
      /\ sl \in [Tasks -> [Slots -> {Empty} \cup DOMAIN rs]]
      /\ \A u \in Tasks \ T : \A j \in Slots : sl[u][j] = Empty
      /\ \A r \in DOMAIN rs : rs[r].ref_count = Cardinality(Holders(sl, r))
  BY DEF SlotsInv
<1>2. n \in Nat \ {0} /\ n \notin DOMAIN rs
  BY <1>1, FreshIsNew
<1>3. record \in ResourceRecords /\ record.ref_count = 1
  BY DEF ResourceRecords
<1> HIDE DEF n, record
<1>4. /\ DOMAIN rs2 = DOMAIN rs \cup {n} /\ rs2[n] = record
      /\ \A r \in DOMAIN rs : rs2[r] = rs[r]
      /\ rs2 \in [DOMAIN rs2 -> ResourceRecords]
  BY <1>1, <1>2, <1>3 DEF With
<1> HIDE DEF rs2
<1>5. IsFiniteSet(DOMAIN rs2) /\ DOMAIN rs2 \subseteq Nat \ {0}
  BY <1>1, <1>2, <1>4, FS_AddElement
<1>6. /\ sl2 \in [Tasks -> [Slots -> {Empty} \cup DOMAIN rs2]]
      /\ sl2[t][i] = n
      /\ \A u \in Tasks, j \in Slots : <<u, j>> # <<t, i>> => sl2[u][j] = sl[u][j]
  <2>1. t \in Tasks /\ sl \in [Tasks -> [Slots -> {Empty} \cup DOMAIN rs]]
    BY <1>1
  <2>2. {Empty} \cup DOMAIN rs \subseteq {Empty} \cup DOMAIN rs2 /\ n \in {Empty} \cup DOMAIN rs2
    BY <1>4
  <2> QED
    BY <2>1, <2>2, SlotChanged
<1> HIDE DEF sl2
<1>7. \A u \in Tasks \ T : \A j \in Slots : sl2[u][j] = Empty
  BY <1>1, <1>6
<1>8. n # Empty /\ \A r \in DOMAIN rs : r # Empty
  BY <1>1, <1>2 DEF Empty
<1>9. /\ \A r : r \notin {Empty, n} => Holders(sl2, r) = Holders(sl, r)
      /\ Holders(sl2, n) = Holders(sl, n) \cup {<<t, i>>}
  <2>1. t \in Tasks
    BY <1>1
  <2>2. SameElsewhere(sl, sl2, t, i)
    BY <1>6 DEF SameElsewhere
  <2>3. Replaces(sl, sl2, t, i, Empty, n)
    BY <1>6, <1>8, <2>1, <2>2 DEF Replaces
  <2>4. /\ \A r : r \notin {Empty, n} => Holders(sl2, r) = Holders(sl, r)
        /\ Holders(sl2, Empty) = Holders(sl, Empty) \ {<<t, i>>}
        /\ <<t, i>> \in Holders(sl, Empty)
        /\ Holders(sl2, n) = Holders(sl, n) \cup {<<t, i>>}
    BY <2>3, HoldersMove
  <2> QED
    BY <2>4
<1>10. Cardinality(Holders(sl2, n)) = 1
  <2>1. Holders(sl, n) = {}
    BY <1>1, <1>2, <1>8 DEF Holders
  <2>2. Holders(sl2, n) = {<<t, i>>}
    BY <1>9, <2>1
  <2> QED
    BY <2>2, FS_Singleton
<1>11. ASSUME NEW r \in DOMAIN rs2
       PROVE  rs2[r].ref_count = Cardinality(Holders(sl2, r))
  <2>1. CASE r = n
    BY <1>3, <1>4, <1>10, <2>1
  <2>2. CASE r # n
    <3>1. r \in DOMAIN rs /\ rs2[r] = rs[r]
      BY <1>4, <2>2
    <3>2. Holders(sl2, r) = Holders(sl, r)
      BY <1>6, <1>9, <1>8, <2>2, <3>1
    <3> QED
      BY <1>1, <3>1, <3>2
  <2> QED
    BY <2>1, <2>2
<1>12. SlotsInv(rs2, sl2, T)
  BY <1>1, <1>4, <1>5, <1>6, <1>7, <1>11 DEF SlotsInv
<1> QED
  BY <1>12 DEF rs2, sl2, n, record

\* resource_remove of a descriptor.
LEMMA RemoveKeeps ==
    ASSUME NEW rs, NEW sl, NEW T, SlotsInv(rs, sl, T), NEW t \in T, NEW i \in Slots, sl[t][i] # Empty,
           NEW rs2,
           rs2 = IF rs[sl[t][i]].ref_count = 1 THEN Without(rs, sl[t][i])
                 ELSE [rs EXCEPT ![sl[t][i]].ref_count = @ - 1]
    PROVE  SlotsInv(rs2, [sl EXCEPT ![t][i] = Empty], T) /\ sl[t][i] \in DOMAIN rs
<1> DEFINE r == sl[t][i]
           sl2 == [sl EXCEPT ![t][i] = Empty]
<1>1. /\ IsFiniteSet(DOMAIN rs) /\ DOMAIN rs \subseteq Nat \ {0}
      /\ rs \in [DOMAIN rs -> ResourceRecords]
      /\ T \subseteq Tasks /\ InitTask \in T /\ IsFiniteSet(T)
      /\ sl \in [Tasks -> [Slots -> {Empty} \cup DOMAIN rs]]
      /\ \A u \in Tasks \ T : \A j \in Slots : sl[u][j] = Empty
      /\ \A q \in DOMAIN rs : rs[q].ref_count = Cardinality(Holders(sl, q))
  BY DEF SlotsInv
<1>2. r \in DOMAIN rs
  BY <1>1
<1>3. r # Empty /\ \A q \in DOMAIN rs : q # Empty
  BY <1>1, <1>2 DEF Empty
<1> HIDE DEF r
<1>4. /\ sl2 \in [Tasks -> [Slots -> {Empty} \cup DOMAIN rs]]
      /\ sl2[t][i] = Empty
      /\ \A u \in Tasks, j \in Slots : <<u, j>> # <<t, i>> => sl2[u][j] = sl[u][j]
  <2>1. t \in Tasks /\ sl \in [Tasks -> [Slots -> {Empty} \cup DOMAIN rs]]
    BY <1>1
  <2>2. {Empty} \cup DOMAIN rs \subseteq {Empty} \cup DOMAIN rs /\ Empty \in {Empty} \cup DOMAIN rs
    OBVIOUS
  <2> QED
    BY <2>1, <2>2, SlotChanged
<1> HIDE DEF sl2
<1>5. \A u \in Tasks \ T : \A j \in Slots : sl2[u][j] = Empty
  BY <1>1, <1>4
<1>6. /\ \A q : q # r /\ q # Empty => Holders(sl2, q) = Holders(sl, q)
      /\ Holders(sl2, r) = Holders(sl, r) \ {<<t, i>>}
      /\ <<t, i>> \in Holders(sl, r)
  <2>1. t \in Tasks
    BY <1>1
  <2>2. SameElsewhere(sl, sl2, t, i) /\ sl[t][i] = r
    BY <1>4 DEF SameElsewhere, r
  <2>3. Replaces(sl, sl2, t, i, r, Empty)
    BY <1>3, <1>4, <2>1, <2>2 DEF Replaces
  <2>4. /\ \A q : q \notin {r, Empty} => Holders(sl2, q) = Holders(sl, q)
        /\ Holders(sl2, r) = Holders(sl, r) \ {<<t, i>>}
        /\ <<t, i>> \in Holders(sl, r)
    BY <2>3, HoldersMove
  <2> QED
    BY <2>4
<1>7. /\ IsFiniteSet(Holders(sl, r)) /\ IsFiniteSet(Holders(sl2, r))
      /\ Cardinality(Holders(sl, r)) \in Nat
      /\ Cardinality(Holders(sl2, r)) = Cardinality(Holders(sl, r)) - 1
  BY <1>3, <1>6, HoldersAreFinite, FS_RemoveElement
<1>8. rs[r].ref_count = Cardinality(Holders(sl, r)) /\ rs[r] \in ResourceRecords
  BY <1>1, <1>2
<1>9. CASE rs[r].ref_count = 1
  <2>1. rs2 = Without(rs, r)
    BY <1>9 DEF r
  <2>2. /\ DOMAIN rs2 = DOMAIN rs \ {r} /\ \A q \in DOMAIN rs2 : rs2[q] = rs[q]
        /\ rs2 \in [DOMAIN rs2 -> ResourceRecords]
    BY <1>1, <2>1 DEF Without
  <2>3. IsFiniteSet(DOMAIN rs2) /\ DOMAIN rs2 \subseteq Nat \ {0}
    BY <1>1, <2>2, FS_Subset
  <2>4. Holders(sl2, r) = {}
    <3>1. Cardinality(Holders(sl2, r)) = 0
      BY <1>7, <1>8, <1>9
    <3> QED
      BY <1>7, <3>1, FS_EmptySet
  <2>5. sl2 \in [Tasks -> [Slots -> {Empty} \cup DOMAIN rs2]]
    <3>1. ASSUME NEW u \in Tasks
          PROVE  sl2[u] \in [Slots -> {Empty} \cup DOMAIN rs2]
      <4>1. sl2[u] \in [Slots -> {Empty} \cup DOMAIN rs]
        BY <1>4
      <4>2. \A j \in Slots : sl2[u][j] # r
        <5> SUFFICES ASSUME NEW j \in Slots, sl2[u][j] = r PROVE FALSE
          OBVIOUS
        <5>1. <<u, j>> \in Holders(sl2, r)
          BY DEF Holders
        <5> QED
          BY <2>4, <5>1
      <4> QED
        BY <2>2, <4>1, <4>2
    <3> QED
      BY <1>4, <3>1
  <2>6. \A q \in DOMAIN rs2 : rs2[q].ref_count = Cardinality(Holders(sl2, q))
    BY <1>1, <1>3, <1>6, <2>2
  <2>7. SlotsInv(rs2, sl2, T)
    BY <1>1, <1>5, <2>2, <2>3, <2>5, <2>6 DEF SlotsInv
  <2> QED
    BY <1>2, <2>7 DEF sl2, r
<1>10. CASE rs[r].ref_count # 1
  <2> DEFINE record == [rs[r] EXCEPT !.ref_count = @ - 1]
  <2>1. rs2 = [rs EXCEPT ![r] = record]
    BY <1>10 DEF r
  <2>2. record \in ResourceRecords /\ record.ref_count = rs[r].ref_count - 1
    BY <1>8, <1>10 DEF ResourceRecords
  <2> HIDE DEF record
  <2>3. /\ DOMAIN rs2 = DOMAIN rs /\ rs2[r] = record /\ \A q \in DOMAIN rs : q # r => rs2[q] = rs[q]
        /\ rs2 \in [DOMAIN rs2 -> ResourceRecords]
    BY <1>1, <1>2, <2>1, <2>2
  <2>4. \A q \in DOMAIN rs2 : rs2[q].ref_count = Cardinality(Holders(sl2, q))
    <3> SUFFICES ASSUME NEW q \in DOMAIN rs PROVE rs2[q].ref_count = Cardinality(Holders(sl2, q))
      BY <2>3
    <3>1. CASE q = r
      BY <1>7, <1>8, <2>2, <2>3, <3>1
    <3>2. CASE q # r
      BY <1>1, <1>3, <1>6, <2>3, <3>2
    <3> QED
      BY <3>1, <3>2
  <2>5. SlotsInv(rs2, sl2, T)
    BY <1>1, <1>4, <1>5, <2>3, <2>4 DEF SlotsInv
  <2> QED
    BY <1>2, <2>5 DEF sl2, r
<1> QED
  BY <1>9, <1>10

\* task_manager_task_copy: a task without resources gets those of another.
SharedWith(rs, sl, parent) ==
    [r \in DOMAIN rs |-> [rs[r] EXCEPT !.ref_count = @ + Cardinality({i \in Slots : sl[parent][i] = r})]]

LEMMA ForkKeeps ==
    ASSUME NEW rs, NEW sl, NEW T, SlotsInv(rs, sl, T), NEW parent \in T, NEW child \in Tasks \ T
    PROVE  SlotsInv(SharedWith(rs, sl, parent), [sl EXCEPT ![child] = sl[parent]], T \cup {child})
<1> DEFINE Uses(r) == {i \in Slots : sl[parent][i] = r}
           rs2 == [r \in DOMAIN rs |-> [rs[r] EXCEPT !.ref_count = @ + Cardinality(Uses(r))]]
           sl2 == [sl EXCEPT ![child] = sl[parent]]
<1>1. /\ IsFiniteSet(DOMAIN rs) /\ DOMAIN rs \subseteq Nat \ {0}
      /\ rs \in [DOMAIN rs -> ResourceRecords]
      /\ T \subseteq Tasks /\ InitTask \in T /\ IsFiniteSet(T)
      /\ sl \in [Tasks -> [Slots -> {Empty} \cup DOMAIN rs]]
      /\ \A u \in Tasks \ T : \A j \in Slots : sl[u][j] = Empty
      /\ \A q \in DOMAIN rs : rs[q].ref_count = Cardinality(Holders(sl, q))
  BY DEF SlotsInv
<1>2. /\ sl2 \in [Tasks -> [Slots -> {Empty} \cup DOMAIN rs]]
      /\ sl2[child] = sl[parent] /\ \A u \in Tasks : u # child => sl2[u] = sl[u]
  BY <1>1
<1> HIDE DEF sl2
<1>3. IsFiniteSet(Slots)
  BY LimitAssumption, FS_Interval DEF Slots
<1>4. ASSUME NEW r \in DOMAIN rs
      PROVE  /\ Cardinality(Uses(r)) \in Nat
             /\ Cardinality(Holders(sl2, r)) = Cardinality(Holders(sl, r)) + Cardinality(Uses(r))
  <2>0. r # Empty
    BY <1>1 DEF Empty
  <2>1. IsFiniteSet(Uses(r)) /\ Cardinality(Uses(r)) \in Nat
    <3>1. Uses(r) \in SUBSET Slots
      OBVIOUS
    <3> QED
      BY <1>3, <3>1, FS_Subset, FS_CardinalityType
  <2>2. IsFiniteSet(Holders(sl, r)) /\ Cardinality(Holders(sl, r)) \in Nat
    BY <2>0, HoldersAreFinite
  <2> DEFINE New == {child} \X Uses(r)
  <2>3. Holders(sl2, r) = Holders(sl, r) \cup New
    <3>1. ASSUME NEW u \in Tasks, NEW j \in Slots
          PROVE  <<u, j>> \in Holders(sl2, r) <=> <<u, j>> \in Holders(sl, r) \/ <<u, j>> \in New
      <4>1. CASE u = child
        BY <1>1, <1>2, <2>0, <4>1 DEF Holders
      <4>2. CASE u # child
        BY <1>2, <4>2 DEF Holders
      <4> QED
        BY <4>1, <4>2
    <3>2. /\ Holders(sl2, r) \subseteq Tasks \X Slots /\ Holders(sl, r) \subseteq Tasks \X Slots
          /\ New \subseteq Tasks \X Slots
      BY DEF Holders
    <3> HIDE DEF New
    <3> QED
      BY <3>1, <3>2
  <2>4. Holders(sl, r) \cap New = {}
    BY <1>1, <2>0 DEF Holders
  <2>5. IsFiniteSet(New) /\ Cardinality(New) = Cardinality(Uses(r))
    <3>1. IsFiniteSet({child}) /\ Cardinality({child}) = 1
      BY FS_Singleton
    <3>2. IsFiniteSet(New) /\ Cardinality(New) = 1 * Cardinality(Uses(r))
      BY <2>1, <3>1, FS_Product
    <3> HIDE DEF New, Uses
    <3> QED
      BY <2>1, <3>2
  <2> HIDE DEF New, Uses
  <2>6. Cardinality(Holders(sl2, r)) = Cardinality(Holders(sl, r)) + Cardinality(New) - Cardinality({})
    BY <2>2, <2>3, <2>4, <2>5, FS_Union
  <2>7. Cardinality({}) = 0
    BY FS_EmptySet
  <2> QED
    BY <2>1, <2>2, <2>5, <2>6, <2>7
<1> HIDE DEF Uses
<1>5. /\ DOMAIN rs2 = DOMAIN rs
      /\ \A r \in DOMAIN rs : rs2[r] \in ResourceRecords /\ rs2[r].ref_count = rs[r].ref_count + Cardinality(Uses(r))
      /\ rs2 = [r \in DOMAIN rs |-> rs2[r]]
  <2>1. ASSUME NEW r \in DOMAIN rs
        PROVE  rs2[r] \in ResourceRecords /\ rs2[r].ref_count = rs[r].ref_count + Cardinality(Uses(r))
    <3>1. rs[r] \in ResourceRecords /\ Cardinality(Uses(r)) \in Nat
      BY <1>1, <1>4
    <3>2. rs2[r] = [rs[r] EXCEPT !.ref_count = @ + Cardinality(Uses(r))]
      OBVIOUS
    <3> HIDE DEF rs2
    <3> QED
      BY <3>1, <3>2 DEF ResourceRecords
  <2> QED
    BY <2>1
<1> HIDE DEF rs2
<1>6. rs2 \in [DOMAIN rs2 -> ResourceRecords]
  BY <1>5
<1>7. \A r \in DOMAIN rs2 : rs2[r].ref_count = Cardinality(Holders(sl2, r))
  BY <1>1, <1>4, <1>5
<1>8. T \cup {child} \subseteq Tasks /\ InitTask \in T \cup {child} /\ IsFiniteSet(T \cup {child})
  BY <1>1, FS_AddElement
<1>9. \A u \in Tasks \ (T \cup {child}) : \A j \in Slots : sl2[u][j] = Empty
  BY <1>1, <1>2
<1>10. SlotsInv(rs2, sl2, T \cup {child})
  BY <1>1, <1>2, <1>5, <1>6, <1>7, <1>8, <1>9 DEF SlotsInv
<1> QED
  BY <1>10 DEF rs2, sl2, Uses, SharedWith

-----------------------------------------------------------------------------
(* Who uses a node.                                                         *)

LEMMA NoneIsNoAddress == None \notin Addresses
BY DEF None, Addresses

FiniteResources(rs) == IsFiniteSet(DOMAIN rs)

LEMMA OpenedIsNumber ==
    ASSUME NEW rs, FiniteResources(rs), NEW v
    PROVE  /\ IsFiniteSet({r \in DOMAIN rs : rs[r].node = v})
           /\ Opened(rs, v) \in Nat
<1>1. {r \in DOMAIN rs : rs[r].node = v} \in SUBSET DOMAIN rs
  OBVIOUS
<1>2. IsFiniteSet({r \in DOMAIN rs : rs[r].node = v})
  BY <1>1, FS_Subset DEF FiniteResources
<1> QED
  BY <1>2, FS_CardinalityType DEF Opened

LEMMA UsersType ==
    ASSUME NEW rs, FiniteResources(rs), NEW c, NEW d
    PROVE  /\ Users(rs, c, d) \in [Addresses -> Nat]
           /\ \A v \in Addresses : Users(rs, c, d)[v] = Opened(rs, v) + One(c = v) + One(d = v)
<1>1. \A v \in Addresses : Opened(rs, v) \in Nat /\ One(c = v) \in {0, 1} /\ One(d = v) \in {0, 1}
  BY OpenedIsNumber DEF One
<1>2. \A v \in Addresses : Opened(rs, v) + One(c = v) + One(d = v) \in Nat
  BY <1>1
<1> QED
  BY <1>2 DEF Users

\* The walk, or link, gives up the node it has.
LEMMA CurrentGone ==
    ASSUME NEW rs, FiniteResources(rs), NEW c \in Addresses, NEW d
    PROVE  /\ Users(rs, c, d)[c] > 0
           /\ Users(rs, None, d) = [Users(rs, c, d) EXCEPT ![c] = Users(rs, c, d)[c] - 1]
           /\ Users(rs, c, d) = [Users(rs, None, d) EXCEPT ![c] = Users(rs, None, d)[c] + 1]
<1> DEFINE A == Users(rs, c, d)
           B == Users(rs, None, d)
<1>1. /\ A \in [Addresses -> Nat] /\ B \in [Addresses -> Nat]
      /\ \A v \in Addresses : A[v] = Opened(rs, v) + One(c = v) + One(d = v)
      /\ \A v \in Addresses : B[v] = Opened(rs, v) + One(None = v) + One(d = v)
  BY UsersType
<1> HIDE DEF A, B
<1>2. \A v \in Addresses : Opened(rs, v) \in Nat /\ One(d = v) \in {0, 1} /\ One(None = v) = 0
  BY OpenedIsNumber, NoneIsNoAddress DEF One
<1>3. One(c = c) = 1 /\ \A v \in Addresses \ {c} : One(c = v) = 0
  BY DEF One
<1>4. A[c] > 0 /\ B[c] = A[c] - 1 /\ A[c] = B[c] + 1
  BY <1>1, <1>2, <1>3
<1>5. \A v \in Addresses \ {c} : A[v] = B[v]
  BY <1>1, <1>2, <1>3
<1>6. B = [A EXCEPT ![c] = A[c] - 1]
  BY <1>1, <1>4, <1>5
<1>7. A = [B EXCEPT ![c] = B[c] + 1]
  BY <1>1, <1>4, <1>5
<1> QED
  BY <1>4, <1>6, <1>7 DEF A, B

LEMMA UsersSwap ==
    ASSUME NEW rs, NEW c, NEW d, FiniteResources(rs)
    PROVE  Users(rs, c, d) = Users(rs, d, c)
<1>1. \A v \in Addresses : Opened(rs, v) \in Nat /\ One(d = v) \in {0, 1} /\ One(c = v) \in {0, 1}
  BY OpenedIsNumber DEF One
<1>2. \A v \in Addresses : Opened(rs, v) + One(c = v) + One(d = v) = Opened(rs, v) + One(d = v) + One(c = v)
  BY <1>1
<1> QED
  BY <1>2 DEF Users

LEMMA SourceGone ==
    ASSUME NEW rs, FiniteResources(rs), NEW c, NEW d \in Addresses
    PROVE  /\ Users(rs, c, d)[d] > 0
           /\ Users(rs, c, None) = [Users(rs, c, d) EXCEPT ![d] = Users(rs, c, d)[d] - 1]
<1>1. Users(rs, c, d) = Users(rs, d, c) /\ Users(rs, c, None) = Users(rs, None, c)
  BY UsersSwap
<1> QED
  BY <1>1, CurrentGone

\* A new resource takes over the lock of the call.
LEMMA OpenedAdded ==
    ASSUME NEW rs, FiniteResources(rs), NEW n, n \notin DOMAIN rs, NEW v \in Addresses
    PROVE  Users(With(rs, n, [node |-> v, ref_count |-> 1]), None, None) = Users(rs, v, None)
<1> DEFINE record == [node |-> v, ref_count |-> 1]
           rs2 == With(rs, n, record)
           Of(x, w) == {r \in DOMAIN x : x[r].node = w}
<1>1. record.node = v
  OBVIOUS
<1> HIDE DEF record
<1>2. /\ DOMAIN rs2 = DOMAIN rs \cup {n} /\ rs2[n] = record
      /\ \A r \in DOMAIN rs : rs2[r] = rs[r]
  BY DEF With
<1> HIDE DEF rs2
<1>3. ASSUME NEW w \in Addresses
      PROVE  Opened(rs2, w) = Opened(rs, w) + One(v = w) /\ Opened(rs, w) \in Nat
  <2>1. IsFiniteSet(Of(rs, w)) /\ Opened(rs, w) \in Nat
    BY OpenedIsNumber
  <2>2. CASE v = w
    <3>1. Of(rs2, w) = Of(rs, w) \cup {n} /\ n \notin Of(rs, w)
      BY <1>1, <1>2, <2>2
    <3> HIDE DEF Of
    <3>2. Cardinality(Of(rs2, w)) = Cardinality(Of(rs, w)) + 1
      BY <2>1, <3>1, FS_AddElement
    <3> QED
      BY <2>1, <2>2, <3>2 DEF Opened, Of, One
  <2>3. CASE v # w
    <3>1. Of(rs2, w) = Of(rs, w)
      BY <1>1, <1>2, <2>3
    <3>2. Opened(rs2, w) = Opened(rs, w)
      BY <3>1 DEF Opened
    <3> QED
      BY <2>1, <2>3, <3>2 DEF One
  <2> QED
    BY <2>2, <2>3
<1>4. \A w \in Addresses : /\ One(None = w) = 0 /\ One(v = w) \in {0, 1}
                           /\ Opened(rs2, w) + One(None = w) + One(None = w) = Opened(rs, w) + One(v = w) + One(None = w)
  <2>1. \A w \in Addresses : One(None = w) = 0 /\ One(v = w) \in {0, 1}
    BY NoneIsNoAddress DEF One
  <2> QED
    BY <1>3, <2>1
<1>5. Users(rs2, None, None) = Users(rs, v, None)
  BY <1>4 DEF Users
<1> QED
  BY <1>5 DEF rs2, record

\* A resource that is closed has used its node.
LEMMA OpenedRemoved ==
    ASSUME NEW rs, FiniteResources(rs), NEW q \in DOMAIN rs, rs[q].node \in Addresses, NEW c, NEW d
    PROVE  /\ Users(rs, c, d)[rs[q].node] > 0
           /\ Users(Without(rs, q), c, d)
                = [Users(rs, c, d) EXCEPT ![rs[q].node] = Users(rs, c, d)[rs[q].node] - 1]
<1> DEFINE v == rs[q].node
           rs2 == Without(rs, q)
           Of(x, w) == {r \in DOMAIN x : x[r].node = w}
           A == Users(rs, c, d)
           B == Users(rs2, c, d)
<1>1. DOMAIN rs2 = DOMAIN rs \ {q} /\ \A r \in DOMAIN rs2 : rs2[r] = rs[r]
  BY DEF Without
<1> HIDE DEF rs2
<1>2. FiniteResources(rs2)
  BY <1>1, FS_Subset DEF FiniteResources
<1>3. /\ A \in [Addresses -> Nat] /\ B \in [Addresses -> Nat]
      /\ \A w \in Addresses : A[w] = Opened(rs, w) + One(c = w) + One(d = w)
      /\ \A w \in Addresses : B[w] = Opened(rs2, w) + One(c = w) + One(d = w)
  BY <1>2, UsersType
<1> HIDE DEF A, B
<1>4. Opened(rs2, v) = Opened(rs, v) - 1 /\ Opened(rs2, v) \in Nat /\ Opened(rs, v) \in Nat
  <2>1. IsFiniteSet(Of(rs, v)) /\ Opened(rs, v) \in Nat
    BY OpenedIsNumber
  <2>2. Of(rs2, v) = Of(rs, v) \ {q} /\ q \in Of(rs, v)
    BY <1>1
  <2>3. Opened(rs2, v) \in Nat
    BY <1>2, OpenedIsNumber
  <2>4. Opened(rs, v) = Cardinality(Of(rs, v)) /\ Opened(rs2, v) = Cardinality(Of(rs2, v))
    BY DEF Opened
  <2> HIDE DEF Of
  <2>5. Cardinality(Of(rs2, v)) = Cardinality(Of(rs, v)) - 1
    BY <2>1, <2>2, FS_RemoveElement
  <2> QED
    BY <2>1, <2>3, <2>4, <2>5
<1>5. \A w \in Addresses \ {v} : Opened(rs2, w) = Opened(rs, w)
  <2> SUFFICES ASSUME NEW w \in Addresses, w # v PROVE Opened(rs2, w) = Opened(rs, w)
    OBVIOUS
  <2>1. Of(rs2, w) = Of(rs, w)
    BY <1>1
  <2> QED
    BY <2>1 DEF Opened
<1> HIDE DEF v
<1>6. v \in Addresses
  BY DEF v
<1>7. A[v] > 0 /\ B[v] = A[v] - 1
  <2>1. One(c = v) \in {0, 1} /\ One(d = v) \in {0, 1}
    BY DEF One
  <2> QED
    BY <1>3, <1>4, <1>6, <2>1
<1>8. \A w \in Addresses \ {v} : B[w] = A[w]
  BY <1>3, <1>5
<1>9. B = [A EXCEPT ![v] = A[v] - 1]
  BY <1>3, <1>6, <1>7, <1>8
<1> QED
  BY <1>7, <1>9 DEF A, B, v, rs2

\* Counting references of resources does not touch the nodes.
LEMMA OpenedSame ==
    ASSUME NEW rs, NEW rs2, DOMAIN rs2 = DOMAIN rs, \A r \in DOMAIN rs : rs2[r].node = rs[r].node,
           NEW c, NEW d
    PROVE  Users(rs2, c, d) = Users(rs, c, d)
<1>1. \A v : {r \in DOMAIN rs2 : rs2[r].node = v} = {r \in DOMAIN rs : rs[r].node = v}
  OBVIOUS
<1>2. \A v : Opened(rs2, v) = Opened(rs, v)
  BY <1>1 DEF Opened
<1> QED
  BY <1>2 DEF Users

-----------------------------------------------------------------------------
(* The steps of a call: nodes are locked, lost and released.                *)

\* Whoever uses a node keeps it in memory.
LEMMA UserKeeps ==
    ASSUME NEW s, NEW U, TreeInv(s, U), NEW v \in Addresses, U[v] > 0
    PROVE  v \in DOMAIN s.vnodes
BY DEF TreeInv, CountsInv

LEMMA RecountedSource ==
    ASSUME NEW s, NEW t, NEW d, Recounted(s, t), SourceInv(s, d)
    PROVE  SourceInv(t, d)
BY DEF Recounted, SourceInv

\* A release changes no node that is left but for its counts.
LEMMA ReleasedSource ==
    ASSUME NEW s, NEW U, TreeInv(s, U), NEW v \in DOMAIN s.vnodes, U[v] > 0,
           NEW d, SourceInv(s, d), d # None => d \in DOMAIN Released(s, v).vnodes
    PROVE  SourceInv(Released(s, v), d)
<1> SUFFICES ASSUME d # None PROVE SourceInv(Released(s, v), d)
  BY DEF SourceInv
<1>0. IsFileSystem(s) /\ NodesInv(s)
  BY DEF TreeInv
<1>1. CASE d # v
  <2>1. Released(s, v).vnodes[d] = s.vnodes[d]
    BY <1>1, ReleasedKeeps DEF SourceInv
  <2> QED
    BY <2>1 DEF SourceInv
<1>2. CASE d = v
  <2>1. Recounted(s, OneLess(s, v)) /\ TreeInv(OneLess(s, v), [U EXCEPT ![v] = U[v] - 1])
    BY OneLessKeeps
  <2>2. CASE Unused(OneLess(s, v), v)
    <3>1. Released(s, v) = Evicted(OneLess(s, v), v)
      BY <2>2 DEF Released, OneLess
    <3>2. v \in DOMAIN OneLess(s, v).vnodes
      BY <2>1 DEF Recounted
    <3>3. v \notin DOMAIN Evicted(OneLess(s, v), v).vnodes
      BY <2>1, <2>2, <3>2, EvictedKeeps
    <3> QED
      BY <1>2, <3>1, <3>3
  <2>3. CASE ~Unused(OneLess(s, v), v)
    <3>1. Released(s, v) = OneLess(s, v)
      BY <2>3 DEF Released, OneLess
    <3> QED
      BY <2>1, <3>1, RecountedSource
  <2> QED
    BY <2>2, <2>3
<1> QED
  BY <1>1, <1>2

\* The walk locks a node.
LEMMA LockStep ==
    ASSUME NEW s, NEW rs, FiniteResources(rs), NEW d, NEW X, NEW v \in DOMAIN s.vnodes,
           Sound(s, rs, None, d, X \cup {v})
    PROVE  Sound(Locked(s, v), rs, v, d, X) /\ Recounted(s, Locked(s, v)) /\ v \in Addresses
<1> DEFINE U == Users(rs, None, d)
<1>1. TreeInv(s, U) /\ UsedBut(s, U, X \cup {v}) /\ SourceInv(s, d)
  BY DEF Sound
<1>2. v \in Addresses
  BY <1>1, NodeFacts DEF TreeInv
<1>3. Users(rs, v, d) = [U EXCEPT ![v] = U[v] + 1]
  BY <1>2, CurrentGone
<1> HIDE DEF U
<1>4. /\ TreeInv(Locked(s, v), [U EXCEPT ![v] = U[v] + 1])
      /\ Recounted(s, Locked(s, v))
      /\ UsedBut(Locked(s, v), [U EXCEPT ![v] = U[v] + 1], X)
  BY <1>1, LockedKeeps
<1>5. /\ TreeInv(Locked(s, v), Users(rs, v, d))
      /\ Recounted(s, Locked(s, v))
      /\ UsedBut(Locked(s, v), Users(rs, v, d), X)
  BY <1>3, <1>4
<1>6. SourceInv(Locked(s, v), d)
  BY <1>1, <1>5, RecountedSource
<1> QED
  BY <1>2, <1>5, <1>6 DEF Sound

LEMMA SoundWeaker ==
    ASSUME NEW s, NEW rs, NEW c, NEW d, NEW X, NEW Y, Sound(s, rs, c, d, X), X \subseteq Y
    PROVE  Sound(s, rs, c, d, Y)
BY DEF Sound, UsedBut

\* The node of the walk is in memory.
LEMMA CurrentIsThere ==
    ASSUME NEW s, NEW rs, FiniteResources(rs), NEW c \in Addresses, NEW d, NEW X, Sound(s, rs, c, d, X)
    PROVE  c \in DOMAIN s.vnodes
<1>1. Users(rs, c, d)[c] > 0
  BY CurrentGone
<1> QED
  BY <1>1, UserKeeps DEF Sound

\* The walk ends and its lock is lost.
LEMMA LoseStep ==
    ASSUME NEW s, NEW rs, FiniteResources(rs), NEW c \in Addresses, NEW d, NEW X, Sound(s, rs, c, d, X)
    PROVE  Sound(Lost(s, c), rs, None, d, X) /\ Recounted(s, Lost(s, c))
<1> DEFINE U == Users(rs, c, d)
<1>1. TreeInv(s, U) /\ UsedBut(s, U, X) /\ SourceInv(s, d)
  BY DEF Sound
<1>2. U[c] > 0 /\ Users(rs, None, d) = [U EXCEPT ![c] = U[c] - 1]
  BY CurrentGone
<1>3. c \in DOMAIN s.vnodes /\ UsedBut(s, U, X \cup {c})
  BY <1>1, CurrentIsThere DEF UsedBut
<1> HIDE DEF U
<1>4. /\ TreeInv(Lost(s, c), [U EXCEPT ![c] = U[c] - 1])
      /\ Recounted(s, Lost(s, c))
      /\ UsedBut(Lost(s, c), [U EXCEPT ![c] = U[c] - 1], X)
  BY <1>1, <1>2, <1>3, LostKeeps
<1>5. /\ TreeInv(Lost(s, c), Users(rs, None, d))
      /\ Recounted(s, Lost(s, c))
      /\ UsedBut(Lost(s, c), Users(rs, None, d), X)
  BY <1>2, <1>4
<1>6. SourceInv(Lost(s, c), d)
  BY <1>1, <1>5, RecountedSource
<1> QED
  BY <1>5, <1>6 DEF Sound

\* The walk ends and gives its node back.
LEMMA ReleaseStep ==
    ASSUME NEW s, NEW rs, FiniteResources(rs), NEW c \in Addresses, NEW d \in Addresses \cup {None}, NEW X,
           Sound(s, rs, c, d, X)
    PROVE  /\ Sound(Released(s, c), rs, None, d, X)
           /\ DOMAIN s.vnodes \ {c} \subseteq DOMAIN Released(s, c).vnodes
           /\ \A w \in DOMAIN s.vnodes \ {c} : Released(s, c).vnodes[w] = s.vnodes[w]
<1> DEFINE U == Users(rs, c, d)
<1>1. TreeInv(s, U) /\ UsedBut(s, U, X) /\ SourceInv(s, d)
  BY DEF Sound
<1>2. U[c] > 0 /\ Users(rs, None, d) = [U EXCEPT ![c] = U[c] - 1]
  BY CurrentGone
<1>3. c \in DOMAIN s.vnodes
  BY CurrentIsThere
<1> HIDE DEF U
<1>4. /\ TreeInv(Released(s, c), [U EXCEPT ![c] = U[c] - 1])
      /\ UsedBut(Released(s, c), [U EXCEPT ![c] = U[c] - 1], X)
      /\ DOMAIN s.vnodes \ {c} \subseteq DOMAIN Released(s, c).vnodes
      /\ \A w \in DOMAIN s.vnodes \ {c} : Released(s, c).vnodes[w] = s.vnodes[w]
  BY <1>1, <1>2, <1>3, ReleasedKeeps
<1>5. /\ TreeInv(Released(s, c), Users(rs, None, d))
      /\ UsedBut(Released(s, c), Users(rs, None, d), X)
      /\ DOMAIN s.vnodes \ {c} \subseteq DOMAIN Released(s, c).vnodes
      /\ \A w \in DOMAIN s.vnodes \ {c} : Released(s, c).vnodes[w] = s.vnodes[w]
  BY <1>2, <1>4
<1>6. d # None => d \in DOMAIN Released(s, c).vnodes
  <2> SUFFICES ASSUME d # None PROVE d \in DOMAIN Released(s, c).vnodes
    OBVIOUS
  <2>1. Users(rs, None, d)[d] > 0
    BY SourceGone
  <2> QED
    BY <1>5, <2>1, UserKeeps
<1>7. SourceInv(Released(s, c), d)
  BY <1>1, <1>2, <1>3, <1>6, ReleasedSource
<1> QED
  BY <1>5, <1>7 DEF Sound

LEMMA SoundSwap ==
    ASSUME NEW s, NEW rs, FiniteResources(rs), NEW c, NEW d, NEW X,
           TreeInv(s, Users(rs, c, d)), UsedBut(s, Users(rs, c, d), X), SourceInv(s, c)
    PROVE  Sound(s, rs, d, c, X)
<1>1. Users(rs, c, d) = Users(rs, d, c)
  BY UsersSwap
<1> QED
  BY <1>1 DEF Sound

\* link gives its source back.
LEMMA ReleaseSource ==
    ASSUME NEW s, NEW rs, FiniteResources(rs), NEW d \in Addresses, NEW X, Sound(s, rs, None, d, X)
    PROVE  Sound(Released(s, d), rs, None, None, X)
<1>1. TreeInv(s, Users(rs, None, d)) /\ UsedBut(s, Users(rs, None, d), X) /\ SourceInv(s, None)
  BY DEF Sound, SourceInv
<1>2. Sound(s, rs, d, None, X)
  BY <1>1, SoundSwap
<1> QED
  BY <1>2, ReleaseStep

\* The file at index i of c gets a node, which nobody uses yet.
LEMMA NodeStep ==
    ASSUME NEW s, NEW rs, NEW current, NEW source, Sound(s, rs, current, source, {}),
           NEW c, NEW i, NEW type, HasPlace(s, c, i, type)
    PROVE  /\ Sound(WithNode(s, c, i, type), rs, current, source, {Address(c, i)})
           /\ DOMAIN WithNode(s, c, i, type).vnodes = DOMAIN s.vnodes \cup {Address(c, i)}
           /\ \A w \in DOMAIN s.vnodes : WithNode(s, c, i, type).vnodes[w] = s.vnodes[w]
           /\ Address(c, i) \in Addresses
<1> DEFINE U == Users(rs, current, source)
           t == WithNode(s, c, i, type)
<1>1. TreeInv(s, U) /\ UsedBut(s, U, {}) /\ SourceInv(s, source)
  BY DEF Sound
<1> HIDE DEF U
<1>2. /\ TreeInv(t, U)
      /\ DOMAIN t.vnodes = DOMAIN s.vnodes \cup {Address(c, i)}
      /\ \A w \in DOMAIN s.vnodes : t.vnodes[w] = s.vnodes[w]
      /\ UsedBut(t, U, {Address(c, i)})
  <2>1. /\ TreeInv(t, U)
        /\ DOMAIN t.vnodes = DOMAIN s.vnodes \cup {Address(c, i)}
        /\ \A w \in DOMAIN s.vnodes : t.vnodes[w] = s.vnodes[w]
        /\ UsedBut(s, U, {}) => UsedBut(t, U, {Address(c, i)})
    BY <1>1, WithNodeKeeps
  <2> QED
    BY <1>1, <2>1
<1> HIDE DEF t
<1>3. SourceInv(t, source)
  BY <1>1, <1>2 DEF SourceInv
<1>4. Address(c, i) \in Addresses
  BY DEF Address, Addresses, HasPlace
<1>5. Sound(t, rs, current, source, {Address(c, i)})
  BY <1>2, <1>3 DEF Sound, U
<1> QED
  BY <1>2, <1>4, <1>5 DEF t

\* The users of a walk that goes from c to n.
UsersMove(rs, c, n, d) ==
    LET U == Users(rs, c, d)
        W == [U EXCEPT ![n] = U[n] + 1]
    IN  W[c] > 0 /\ Users(rs, n, d) = [W EXCEPT ![c] = W[c] - 1]

LEMMA UsersMoveAlong ==
    ASSUME NEW rs, FiniteResources(rs), NEW c \in Addresses, NEW n \in Addresses, NEW d
    PROVE  UsersMove(rs, c, n, d)
<1> DEFINE N == Users(rs, None, d)
           U == Users(rs, c, d)
           W == [U EXCEPT ![n] = U[n] + 1]
           V == Users(rs, n, d)
<1>1. U \in [Addresses -> Nat] /\ N \in [Addresses -> Nat] /\ V \in [Addresses -> Nat]
  BY UsersType
<1>2. U = [N EXCEPT ![c] = N[c] + 1] /\ V = [N EXCEPT ![n] = N[n] + 1]
  BY CurrentGone
<1> HIDE DEF N, V, U
<1>3. W \in [Addresses -> Nat]
  BY <1>1
<1>4. /\ U[c] = N[c] + 1 /\ \A v \in Addresses \ {c} : U[v] = N[v]
      /\ V[n] = N[n] + 1 /\ \A v \in Addresses \ {n} : V[v] = N[v]
      /\ W[n] = U[n] + 1 /\ \A v \in Addresses \ {n} : W[v] = U[v]
  BY <1>1, <1>2, <1>3
<1>5. W[c] > 0
  BY <1>1, <1>3, <1>4
<1>6. \A v \in Addresses : V[v] = IF v = c THEN W[c] - 1 ELSE W[v]
  <2> SUFFICES ASSUME NEW v \in Addresses PROVE V[v] = IF v = c THEN W[c] - 1 ELSE W[v]
    OBVIOUS
  <2>1. CASE v = c /\ c = n
    BY <1>1, <1>3, <1>4, <2>1
  <2>2. CASE v = c /\ c # n
    BY <1>1, <1>3, <1>4, <2>2
  <2>3. CASE v # c /\ v = n
    BY <1>1, <1>3, <1>4, <2>3
  <2>4. CASE v # c /\ v # n
    BY <1>1, <1>3, <1>4, <2>4
  <2> QED
    BY <2>1, <2>2, <2>3, <2>4
<1>7. V = [W EXCEPT ![c] = W[c] - 1]
  BY <1>1, <1>3, <1>6
<1> QED
  BY <1>5, <1>7 DEF V, U, UsersMove

\* One turn of vfs_resolve: the walk locks n, then releases c.
LEMMA SteppedKeeps ==
    ASSUME NEW s, NEW rs, FiniteResources(rs), NEW c \in Addresses, NEW n \in DOMAIN s.vnodes,
           NEW d \in Addresses \cup {None}, Sound(s, rs, c, d, {n})
    PROVE  Sound(Stepped(s, n, c), rs, n, d, {}) /\ n \in Addresses
<1> DEFINE U == Users(rs, c, d)
           W == [U EXCEPT ![n] = U[n] + 1]
           t == Locked(s, n)
           V == Users(rs, n, d)
<1>1. TreeInv(s, U) /\ UsedBut(s, U, {} \cup {n}) /\ SourceInv(s, d)
  BY DEF Sound
<1>2. n \in Addresses
  BY <1>1, NodeFacts DEF TreeInv
<1>3. W[c] > 0 /\ V = [W EXCEPT ![c] = W[c] - 1]
  <2>1. UsersMove(rs, c, n, d)
    BY <1>2, UsersMoveAlong
  <2> QED
    BY <2>1 DEF UsersMove
<1>4. d # None => V[d] > 0
  <2> SUFFICES ASSUME d # None PROVE V[d] > 0
    OBVIOUS
  <2> QED
    BY SourceGone
<1>5. c \in DOMAIN s.vnodes
  BY CurrentIsThere
<1> HIDE DEF V
<1>6. TreeInv(t, W) /\ Recounted(s, t) /\ UsedBut(t, W, {})
  <2> HIDE DEF U
  <2> QED
    BY <1>1, LockedKeeps
<1>7. SourceInv(t, d) /\ c \in DOMAIN t.vnodes
  <2>1. SourceInv(t, d)
    BY <1>1, <1>6, RecountedSource
  <2> QED
    BY <1>5, <1>6, <2>1 DEF Recounted
<1> HIDE DEF t, W, U
<1>8. /\ TreeInv(Released(t, c), [W EXCEPT ![c] = W[c] - 1])
      /\ \A X : UsedBut(t, W, X) => UsedBut(Released(t, c), [W EXCEPT ![c] = W[c] - 1], X)
  BY <1>3, <1>6, <1>7, ReleasedKeeps
<1>9. TreeInv(Released(t, c), V) /\ UsedBut(Released(t, c), V, {})
  BY <1>3, <1>6, <1>8
<1>10. d # None => d \in DOMAIN Released(t, c).vnodes
  BY <1>4, <1>9, UserKeeps
<1>11. SourceInv(Released(t, c), d)
  BY <1>3, <1>6, <1>7, <1>10, ReleasedSource
<1>12. Sound(Released(t, c), rs, n, d, {})
  BY <1>9, <1>11 DEF Sound, V
<1> QED
  BY <1>2, <1>12 DEF t, Stepped

-----------------------------------------------------------------------------
(* The calls begin.                                                         *)

WalkOps == {"open", "stat", "execve", "link", "unlink"}
Calls(T) == [op : {"none", "destroy"} \cup WalkOps,
             task : T, create : BOOLEAN, stage : {"node", "parent"},
             path : Seq(STRING), rest : Seq(STRING),
             current : {None} \cup Addresses, source : {None} \cup Addresses]

LEMMA CallFacts ==
    ASSUME IInv
    PROVE  /\ call \in Calls(tasks)
           /\ call.op \in {"none", "destroy"} \cup WalkOps /\ call.task \in tasks
           /\ call.path \in Seq(STRING) /\ call.rest \in Seq(STRING)
           /\ call.current = None <=> call.op \in {"none", "destroy"}
           /\ call.current # None => call.current \in Addresses
           /\ call.source # None => call.source \in Addresses
           /\ call.source # None <=> call.op = "link" /\ call.stage = "parent"
           /\ call.source \in Addresses \cup {None}
           /\ FiniteResources(resources)
           /\ Sound(fs, resources, call.current, call.source, {})
<1>1. call \in Calls(tasks)
  BY DEF IInv, CallInv, Calls, WalkOps
<1>2. FiniteResources(resources)
  BY DEF IInv, SlotsInv, FiniteResources
<1> QED
  BY <1>1, <1>2 DEF IInv, CallInv, Calls

LEMMA RootIsThere ==
    ASSUME NEW s, NEW rs, NEW c, NEW d, NEW X, Sound(s, rs, c, d, X)
    PROVE  Root \in DOMAIN s.vnodes /\ DevfsNode \in DOMAIN s.vnodes
BY DEF Sound, TreeInv, NodesInv, Kept

LEMMA RootIsAddress == Root \in Addresses /\ DevfsNode \in Addresses /\ Root # None
<1>1. Root \in Addresses /\ DevfsNode \in Addresses
  BY DEF Root, DevfsNode, DevfsRoot, Addresses, Ramfs, Devfs
<1> QED
  BY <1>1, NoneIsNoAddress

\* A call ends: nothing is held any more but by the resources.
LEMMA CallEnds ==
    ASSUME call' = NoCall, Sound(fs', resources', None, None, {}), SlotsInv(resources', slots', tasks')
    PROVE  IInv'
<1>1. InitTask \in tasks'
  BY DEF SlotsInv
<1>2. <<>> \in Seq(STRING)
  OBVIOUS
<1>3. call'.current = None /\ call'.source = None /\ call'.op = "none" /\ call'.stage = "node"
  BY DEF NoCall
<1>4. CallInv'
  BY <1>1, <1>2, <1>3 DEF CallInv, NoCall
<1> QED
  BY <1>3, <1>4 DEF IInv

\* A call goes on: what it stands on is counted.
LEMMA CallGoesOn ==
    ASSUME call' \in Calls(tasks'), call'.op \in WalkOps, call'.current # None,
           call'.source # None <=> call'.op = "link" /\ call'.stage = "parent",
           Sound(fs', resources', call'.current, call'.source, {}),
           SlotsInv(resources', slots', tasks')
    PROVE  IInv'
<1>1. CallInv'
  BY DEF CallInv, Calls, WalkOps
<1> QED
  BY <1>1 DEF IInv

LEMMA BeginInv ==
    ASSUME IInv, NEW request, Begin(request), request \in Calls(tasks), request.op \in WalkOps,
           request.current = Root, request.source = None, ~(request.op = "link" /\ request.stage = "parent")
    PROVE  IInv'
<1>1. /\ FiniteResources(resources) /\ Sound(fs, resources, call.current, call.source, {})
      /\ SlotsInv(resources, slots, tasks)
      /\ call.op = "none" /\ call.current = None /\ call.source = None
  <2>1. call.op = "none"
    BY DEF Begin
  <2> QED
    BY <2>1, CallFacts DEF IInv
<1>2. Sound(fs, resources, None, None, {} \cup {Root}) /\ Root \in DOMAIN fs.vnodes
  BY <1>1, SoundWeaker, RootIsThere
<1>3. Sound(Locked(fs, Root), resources, Root, None, {})
  BY <1>1, <1>2, LockStep
<1>4. /\ call' = request /\ fs' = Locked(fs, Root)
      /\ resources' = resources /\ slots' = slots /\ tasks' = tasks
  BY DEF Begin
<1>5. /\ Sound(fs', resources', call'.current, call'.source, {}) /\ SlotsInv(resources', slots', tasks')
      /\ call' \in Calls(tasks') /\ call'.op \in WalkOps /\ call'.current # None
      /\ call'.source # None <=> call'.op = "link" /\ call'.stage = "parent"
  BY <1>1, <1>3, <1>4, RootIsAddress
<1> QED
  BY <1>5, CallGoesOn

LEMMA ResolveFacts ==
    ASSUME NEW T, NEW stage \in {"node", "parent"}, NEW rest \in Seq(STRING), NEW request \in Calls(T)
    PROVE  /\ Resolve(stage, rest, request) \in Calls(T)
           /\ Resolve(stage, rest, request).op = request.op
           /\ Resolve(stage, rest, request).stage = stage
           /\ Resolve(stage, rest, request).current = Root
           /\ Resolve(stage, rest, request).source = request.source
BY RootIsAddress DEF Resolve, Calls

LEMMA NoCallFacts ==
    ASSUME IInv
    PROVE  NoCall \in Calls(tasks) /\ NoCall.source = None
<1>1. InitTask \in tasks
  BY DEF IInv, SlotsInv
<1>2. <<>> \in Seq(STRING)
  OBVIOUS
<1> QED
  BY <1>1, <1>2 DEF NoCall, Calls

LEMMA FrontFacts ==
    ASSUME NEW path \in Seq(STRING)
    PROVE  Front(path) \in Seq(STRING)
<1>1. CASE path = <<>>
  <2>1. Len(path) = 0
    BY <1>1
  <2>2. SubSeq(path, 1, 0 - 1) = <<>>
    OBVIOUS
  <2> QED
    BY <2>1, <2>2 DEF Front
<1>2. CASE path # <<>>
  <2>1. Len(path) \in Nat /\ Len(path) > 0
    BY <1>2
  <2> QED
    BY <2>1 DEF Front
<1> QED
  BY <1>1, <1>2

LEMMA OpenInv == ASSUME IInv, Open PROVE IInv'
<1> PICK t \in tasks, path \in Paths, create \in BOOLEAN :
       Begin(Resolve("node", path, [NoCall EXCEPT !.op = "open", !.task = t, !.create = create, !.path = path]))
  BY DEF Open
<1> DEFINE r == [NoCall EXCEPT !.op = "open", !.task = t, !.create = create, !.path = path]
<1>1. path \in Seq(STRING)
  BY PathAssumption
<1>2. NoCall \in Calls(tasks) /\ NoCall.source = None
  BY NoCallFacts
<1>3. r \in Calls(tasks) /\ r.op = "open" /\ r.source = None
  BY <1>1, <1>2 DEF Calls, WalkOps
<1> HIDE DEF r
<1>4. Begin(Resolve("node", path, r))
  BY DEF r
<1>5. /\ Resolve("node", path, r) \in Calls(tasks) /\ Resolve("node", path, r).op = "open"
      /\ Resolve("node", path, r).current = Root /\ Resolve("node", path, r).source = None
  BY <1>1, <1>3, ResolveFacts
<1> QED
  BY <1>4, <1>5, BeginInv DEF WalkOps

LEMMA StatInv == ASSUME IInv, Stat PROVE IInv'
<1> PICK path \in Paths : Begin(Resolve("node", path, [NoCall EXCEPT !.op = "stat"]))
  BY DEF Stat
<1> DEFINE r == [NoCall EXCEPT !.op = "stat"]
<1>1. path \in Seq(STRING)
  BY PathAssumption
<1>2. NoCall \in Calls(tasks) /\ NoCall.source = None
  BY NoCallFacts
<1>3. r \in Calls(tasks) /\ r.op = "stat" /\ r.source = None
  BY <1>2 DEF Calls, WalkOps
<1> HIDE DEF r
<1>4. Begin(Resolve("node", path, r))
  BY DEF r
<1>5. /\ Resolve("node", path, r) \in Calls(tasks) /\ Resolve("node", path, r).op = "stat"
      /\ Resolve("node", path, r).current = Root /\ Resolve("node", path, r).source = None
  BY <1>1, <1>3, ResolveFacts
<1> QED
  BY <1>4, <1>5, BeginInv DEF WalkOps

LEMMA ExecveInv == ASSUME IInv, Execve PROVE IInv'
<1> PICK path \in Paths : Begin(Resolve("node", path, [NoCall EXCEPT !.op = "execve"]))
  BY DEF Execve
<1> DEFINE r == [NoCall EXCEPT !.op = "execve"]
<1>1. path \in Seq(STRING)
  BY PathAssumption
<1>2. NoCall \in Calls(tasks) /\ NoCall.source = None
  BY NoCallFacts
<1>3. r \in Calls(tasks) /\ r.op = "execve" /\ r.source = None
  BY <1>2 DEF Calls, WalkOps
<1> HIDE DEF r
<1>4. Begin(Resolve("node", path, r))
  BY DEF r
<1>5. /\ Resolve("node", path, r) \in Calls(tasks) /\ Resolve("node", path, r).op = "execve"
      /\ Resolve("node", path, r).current = Root /\ Resolve("node", path, r).source = None
  BY <1>1, <1>3, ResolveFacts
<1> QED
  BY <1>4, <1>5, BeginInv DEF WalkOps

LEMMA LinkInv == ASSUME IInv, Link PROVE IInv'
<1> PICK old_path \in Paths, new_path \in Paths :
       Begin(Resolve("node", old_path, [NoCall EXCEPT !.op = "link", !.path = new_path]))
  BY DEF Link
<1> DEFINE r == [NoCall EXCEPT !.op = "link", !.path = new_path]
<1>1. old_path \in Seq(STRING) /\ new_path \in Seq(STRING)
  BY PathAssumption
<1>2. NoCall \in Calls(tasks) /\ NoCall.source = None
  BY NoCallFacts
<1>3. r \in Calls(tasks) /\ r.op = "link" /\ r.source = None
  BY <1>1, <1>2 DEF Calls, WalkOps
<1> HIDE DEF r
<1>4. Begin(Resolve("node", old_path, r))
  BY DEF r
<1>5. /\ Resolve("node", old_path, r) \in Calls(tasks) /\ Resolve("node", old_path, r).op = "link"
      /\ Resolve("node", old_path, r).current = Root /\ Resolve("node", old_path, r).source = None
      /\ Resolve("node", old_path, r).stage = "node"
  BY <1>1, <1>3, ResolveFacts
<1> QED
  BY <1>4, <1>5, BeginInv DEF WalkOps

LEMMA UnlinkInv == ASSUME IInv, Unlink PROVE IInv'
<1> PICK path \in Paths :
       Begin(Resolve("parent", Front(path), [NoCall EXCEPT !.op = "unlink", !.path = path]))
  BY DEF Unlink
<1> DEFINE r == [NoCall EXCEPT !.op = "unlink", !.path = path]
<1>1. path \in Seq(STRING) /\ Front(path) \in Seq(STRING)
  BY PathAssumption, FrontFacts
<1>2. NoCall \in Calls(tasks) /\ NoCall.source = None
  BY NoCallFacts
<1>3. r \in Calls(tasks) /\ r.op = "unlink" /\ r.source = None
  BY <1>1, <1>2 DEF Calls, WalkOps
<1> HIDE DEF r
<1>4. Begin(Resolve("parent", Front(path), r))
  BY DEF r
<1>5. /\ Resolve("parent", Front(path), r) \in Calls(tasks) /\ Resolve("parent", Front(path), r).op = "unlink"
      /\ Resolve("parent", Front(path), r).current = Root /\ Resolve("parent", Front(path), r).source = None
  BY <1>1, <1>3, ResolveFacts
<1> QED
  BY <1>4, <1>5, BeginInv DEF WalkOps

-----------------------------------------------------------------------------
(* vfs_resolve.                                                             *)

LEMMA RecountedTwice ==
    ASSUME NEW s, NEW t, NEW u, Recounted(s, t), Recounted(t, u)
    PROVE  Recounted(s, u)
BY DEF Recounted

LEMMA RecountedSelf ==
    ASSUME NEW s, IsFileSystem(s), NodesInv(s)
    PROVE  Recounted(s, s)
BY DEF Recounted, NodesInv

\* A walk that is under way, with the node it stands on.
LEMMA WalkFacts ==
    ASSUME IInv, call.op \in WalkOps
    PROVE  call.current \in Addresses /\ call.current \in DOMAIN fs.vnodes
<1>1. call.op \notin {"none", "destroy"}
  BY DEF WalkOps
<1>2. call.current \in Addresses
  BY <1>1, CallFacts
<1> QED
  BY <1>2, CallFacts, CurrentIsThere

LEMMA EnteredKeeps ==
    ASSUME IInv, call.op \in WalkOps
    PROVE  /\ Sound(Entered, resources, Directory, call.source, {})
           /\ Directory \in Addresses /\ Directory \in DOMAIN fs.vnodes
           /\ Recounted(fs, Entered)
<1>1. /\ FiniteResources(resources) /\ Sound(fs, resources, call.current, call.source, {})
      /\ call.current \in Addresses /\ call.current \in DOMAIN fs.vnodes
  BY CallFacts, WalkFacts
<1>2. IsFileSystem(fs) /\ NodesInv(fs)
  BY <1>1 DEF Sound, TreeInv
<1>3. Directory \in {call.current, DevfsNode}
  BY <1>1, <1>2, NodeFacts DEF Directory
<1>4. Directory \in Addresses /\ Directory \in DOMAIN fs.vnodes
  BY <1>1, <1>3, RootIsAddress, RootIsThere
<1>5. CASE Directory = call.current
  <2>1. Entered = fs
    BY <1>5 DEF Entered
  <2> QED
    BY <1>1, <1>2, <1>4, <1>5, <2>1, RecountedSelf
<1>6. CASE Directory # call.current
  <2> DEFINE s == Lost(fs, call.current)
  <2>1. Sound(s, resources, None, call.source, {}) /\ Recounted(fs, s)
    BY <1>1, LoseStep
  <2>2. Entered = Locked(s, Directory)
    BY <1>6 DEF Entered
  <2> HIDE DEF s
  <2>3. Directory \in DOMAIN s.vnodes
    BY <1>4, <2>1 DEF Recounted
  <2>4. Sound(s, resources, None, call.source, {} \cup {Directory})
    BY <2>1, SoundWeaker
  <2>5. Sound(Locked(s, Directory), resources, Directory, call.source, {}) /\ Recounted(s, Locked(s, Directory))
    BY <1>1, <2>3, <2>4, LockStep
  <2> QED
    BY <1>4, <2>1, <2>2, <2>5, RecountedTwice
<1> QED
  BY <1>5, <1>6

LEMMA ResolvingFacts ==
    ASSUME IInv, Resolving
    PROVE  /\ call.op \in WalkOps
           /\ call.rest \in Seq(STRING) /\ call.rest # <<>> /\ Tail(call.rest) \in Seq(STRING)
<1>1. call.op \in {"none", "destroy"} \cup WalkOps /\ call.rest \in Seq(STRING)
  BY CallFacts
<1>2. call.op \notin {"none", "destroy"} /\ call.rest # <<>>
  BY DEF Resolving
<1>3. Tail(call.rest) \in Seq(STRING)
  BY <1>1, <1>2, HeadTailProperties
<1> QED
  BY <1>1, <1>2, <1>3

\* What a name stands for has a place, and is not the directory itself.
LEMMA FoundFacts ==
    ASSUME NEW s, EntriesInv(s), NEW v, NEW name, NEW i \in Found(s, v, name)
    PROVE  /\ IsRamfs(s, v) => /\ <<s.vnodes[v].index, name>> \in DOMAIN s.entries
                               /\ i = s.entries[<<s.vnodes[v].index, name>>]
                               /\ i \in DOMAIN s.inodes \ s.unplaced
                               /\ i # s.vnodes[v].index
           /\ ~IsRamfs(s, v) => i \in Int
<1>1. CASE IsRamfs(s, v)
  <2> DEFINE e == <<s.vnodes[v].index, name>>
  <2>1. e \in DOMAIN s.entries /\ i = s.entries[e] /\ e[1] = s.vnodes[v].index
    BY <1>1 DEF Found
  <2>2. s.entries[e] \in DOMAIN s.inodes \ s.unplaced /\ s.entries[e] # e[1]
    BY <2>1 DEF EntriesInv
  <2> QED
    BY <1>1, <2>1, <2>2
<1>2. CASE ~IsRamfs(s, v)
  <2>1. i \in DOMAIN Devices
    BY <1>2 DEF Found
  <2> QED
    BY <1>2, <2>1, PathAssumption
<1> QED
  BY <1>1, <1>2

LEMMA NothingFound ==
    ASSUME NEW s, NEW v, NEW name, Found(s, v, name) = {}, IsRamfs(s, v)
    PROVE  <<s.vnodes[v].index, name>> \notin DOMAIN s.entries
BY DEF Found

LEMMA DescendInv == ASSUME IInv, Descend PROVE IInv'
<1> DEFINE c == fs.vnodes[Directory].cache_index
           Type(i) == IF c = Ramfs THEN fs.inodes[i].type ELSE "file"
<1>0. PICK i \in Found(Entered, Directory, Head(call.rest)) :
         /\ fs' = Stepped(WithNode(Entered, c, i, Type(i)), NodeFor(Entered, c, i), Directory)
         /\ call' = [call EXCEPT !.current = NodeFor(Entered, c, i), !.rest = Tail(@)]
  BY DEF Descend
<1>1. Resolving /\ resources' = resources /\ slots' = slots /\ tasks' = tasks
  BY DEF Descend
<1>2. call.op \in WalkOps /\ Tail(call.rest) \in Seq(STRING)
  BY <1>1, ResolvingFacts
<1>3. /\ Sound(Entered, resources, Directory, call.source, {})
      /\ Directory \in Addresses /\ Directory \in DOMAIN fs.vnodes
      /\ Recounted(fs, Entered)
  BY <1>2, EnteredKeeps
<1>4. /\ FiniteResources(resources) /\ call.source \in Addresses \cup {None}
      /\ call \in Calls(tasks)
      /\ call.source # None <=> call.op = "link" /\ call.stage = "parent"
  BY CallFacts
<1> DEFINE s == Entered
           n == Address(c, i)
<1> HIDE DEF s
<1>5. NodesInv(s) /\ EntriesInv(s) /\ InodesInv(s)
  BY <1>3 DEF Sound, TreeInv, s
<1>6. /\ s.vnodes[Directory].cache_index = c /\ s.inodes = fs.inodes
      /\ c \in {Ramfs, Devfs}
      /\ IsRamfs(s, Directory) <=> c = Ramfs
  <2>1. Directory \in DOMAIN s.vnodes
    BY <1>3 DEF Recounted, s
  <2>2. s.vnodes[Directory] \in NodeRecords
    BY <1>5, <2>1, NodeFacts
  <2>3. s.vnodes[Directory].cache_index = c /\ s.inodes = fs.inodes
    BY <1>3 DEF Recounted, s
  <2> QED
    BY <2>2, <2>3 DEF NodeRecords, IsRamfs
<1> HIDE DEF c
<1>7. i \in Int /\ (c = Ramfs => i \in DOMAIN s.inodes \ s.unplaced)
  <2>1. i \in Found(s, Directory, Head(call.rest))
    BY <1>0 DEF s
  <2>2. /\ IsRamfs(s, Directory) => i \in DOMAIN s.inodes \ s.unplaced
        /\ ~IsRamfs(s, Directory) => i \in Int
    BY <1>5, <2>1, FoundFacts
  <2> QED
    BY <1>5, <1>6, <2>2 DEF InodesInv
<1>8. Type(i) \in Types /\ (c = Ramfs => Type(i) = s.inodes[i].type)
  <2>1. CASE c = Ramfs
    <3>1. s.inodes[i] \in InodeRecords
      BY <1>5, <1>7, <2>1 DEF InodesInv
    <3> QED
      BY <1>6, <2>1, <3>1 DEF InodeRecords
  <2>2. CASE c # Ramfs
    BY <2>2 DEF Types
  <2> QED
    BY <2>1, <2>2
<1> DEFINE type == Type(i)
           t == WithNode(s, c, i, type)
<1> HIDE DEF Type
<1>9. /\ Sound(t, resources, Directory, call.source, {n})
      /\ n \in DOMAIN t.vnodes /\ n \in Addresses
  <2>1. HasPlace(s, c, i, type)
    BY <1>6, <1>7, <1>8 DEF HasPlace
  <2>2. Sound(s, resources, Directory, call.source, {})
    BY <1>3 DEF s
  <2> HIDE DEF type
  <2>3. /\ Sound(WithNode(s, c, i, type), resources, Directory, call.source, {Address(c, i)})
        /\ DOMAIN WithNode(s, c, i, type).vnodes = DOMAIN s.vnodes \cup {Address(c, i)}
        /\ Address(c, i) \in Addresses
    BY <2>1, <2>2, NodeStep
  <2> QED
    BY <2>3
<1> HIDE DEF t
<1>10. Sound(Stepped(t, n, Directory), resources, n, call.source, {})
  <2> HIDE DEF n
  <2> QED
    BY <1>3, <1>4, <1>9, SteppedKeeps
<1>11. n = NodeFor(s, c, i)
  BY <1>5, KnownIsCached
<1> HIDE DEF n
<1>12. fs' = Stepped(t, n, Directory) /\ call' = [call EXCEPT !.current = n, !.rest = Tail(@)]
  BY <1>0, <1>11 DEF t, s, type
<1>13. /\ call' \in Calls(tasks') /\ call'.op = call.op /\ call'.current = n
       /\ call'.source = call.source /\ call'.stage = call.stage
  BY <1>1, <1>2, <1>4, <1>9, <1>12 DEF Calls
<1>14. call'.current # None
  BY <1>9, <1>13, NoneIsNoAddress
<1>15. Sound(fs', resources', call'.current, call'.source, {}) /\ SlotsInv(resources', slots', tasks')
  BY <1>1, <1>10, <1>12, <1>13 DEF IInv
<1> QED
  BY <1>2, <1>4, <1>13, <1>14, <1>15, CallGoesOn

LEMMA GoesOnToCreateInv == ASSUME IInv, GoesOnToCreate PROVE IInv'
<1>1. /\ Resolving /\ call.op = "open"
      /\ fs' = Locked(Lost(Entered, Directory), Root)
      /\ call' = Resolve("parent", Front(call.path), call)
      /\ resources' = resources /\ slots' = slots /\ tasks' = tasks
  BY DEF GoesOnToCreate, NotFound, MayCreate
<1>2. call.op \in WalkOps
  BY <1>1, ResolvingFacts
<1>3. /\ FiniteResources(resources) /\ call.source = None
      /\ call \in Calls(tasks) /\ Front(call.path) \in Seq(STRING)
  BY <1>1, CallFacts, FrontFacts
<1>4. Sound(Entered, resources, Directory, None, {}) /\ Directory \in Addresses
  BY <1>2, <1>3, EnteredKeeps
<1> DEFINE s == Lost(Entered, Directory)
<1>5. Sound(s, resources, None, None, {})
  BY <1>3, <1>4, LoseStep
<1> HIDE DEF s
<1>6. Root \in DOMAIN s.vnodes /\ Sound(s, resources, None, None, {} \cup {Root})
  BY <1>5, RootIsThere, SoundWeaker
<1>7. Sound(Locked(s, Root), resources, Root, None, {})
  BY <1>3, <1>6, LockStep
<1>8. /\ call' \in Calls(tasks') /\ call'.op = "open" /\ call'.current = Root /\ call'.source = None
  BY <1>1, <1>3, ResolveFacts
<1>9. Sound(fs', resources', call'.current, call'.source, {}) /\ SlotsInv(resources', slots', tasks')
  BY <1>1, <1>7, <1>8 DEF IInv, s
<1>10. call'.op \in WalkOps /\ call'.current # None
  BY <1>8, RootIsAddress DEF WalkOps
<1> QED
  BY <1>8, <1>9, <1>10, CallGoesOn

LEMMA ResolveFailsInv == ASSUME IInv, ResolveFails PROVE IInv'
<1>1. /\ Resolving
      /\ fs' = IF call.source # None THEN Released(Lost(Entered, Directory), call.source)
               ELSE Lost(Entered, Directory)
      /\ call' = NoCall
      /\ resources' = resources /\ slots' = slots /\ tasks' = tasks
  BY DEF ResolveFails
<1>2. call.op \in WalkOps
  BY <1>1, ResolvingFacts
<1>3. FiniteResources(resources) /\ (call.source # None => call.source \in Addresses)
  BY CallFacts
<1>4. Sound(Entered, resources, Directory, call.source, {}) /\ Directory \in Addresses
  BY <1>2, EnteredKeeps
<1> DEFINE s == Lost(Entered, Directory)
<1>5. Sound(s, resources, None, call.source, {})
  BY <1>3, <1>4, LoseStep
<1> HIDE DEF s
<1>6. Sound(fs', resources', None, None, {})
  <2>1. CASE call.source = None
    BY <1>1, <1>5, <2>1 DEF s
  <2>2. CASE call.source # None
    <3>1. Sound(Released(s, call.source), resources, None, None, {})
      BY <1>3, <1>5, <2>2, ReleaseSource
    <3> QED
      BY <1>1, <2>2, <3>1 DEF s
  <2> QED
    BY <2>1, <2>2
<1>7. SlotsInv(resources', slots', tasks')
  BY <1>1 DEF IInv
<1> QED
  BY <1>1, <1>6, <1>7, CallEnds

-----------------------------------------------------------------------------
(* What the calls do with the node they have resolved.                      *)

\* A set of numbers that is not empty has a least member: the first free slot.
LEMMA LeastNumber ==
    ASSUME NEW T, T \subseteq Nat, T # {}
    PROVE  \E x \in T : \A y \in T : x <= y
<1> DEFINE R == OpToRel(<, Nat)
<1>1. \E x \in T : \A y \in T : ~ (<<y, x>> \in R)
  BY NatLessThanWellFounded, WFMin, Zenon
<1>2. \A x, y \in Nat : y < x => <<y, x>> \in R
  BY Zenon DEF OpToRel
<1> HIDE DEF R
<1>3. PICK x \in T : \A y \in T : ~ (<<y, x>> \in R)
  BY <1>1
<1>4. ASSUME NEW y \in T
      PROVE  x <= y
  <2>1. x \in Nat /\ y \in Nat
    OBVIOUS
  <2>2. ~(y < x)
    BY <1>2, <1>3, <2>1, Zenon
  <2> QED
    BY <2>1, <2>2
<1> QED
  BY <1>4

\* resource_register takes the first free slot.
LEMMA FreeSlotFacts ==
    ASSUME FreeSlots # {}
    PROVE  LET i == CHOOSE i \in FreeSlots : \A j \in FreeSlots : i <= j
           IN  i \in Slots /\ slots[call.task][i] = Empty
<1>1. FreeSlots \subseteq Nat
  BY LimitAssumption DEF FreeSlots
<1>2. \E i \in FreeSlots : \A j \in FreeSlots : i <= j
  BY <1>1, LeastNumber
<1>3. (CHOOSE i \in FreeSlots : \A j \in FreeSlots : i <= j) \in FreeSlots
  BY <1>2
<1> QED
  BY <1>3 DEF FreeSlots, Slots

\* The end of vfs_open: the resource takes over the lock of the call, or the lock is lost.
LEMMA RegisteredInv ==
    ASSUME IInv, NEW s, NEW v \in Addresses, Sound(s, resources, v, None, {}), Registered(s, v),
           call' = NoCall, tasks' = tasks
    PROVE  IInv'
<1>1. FiniteResources(resources) /\ SlotsInv(resources, slots, tasks) /\ call.task \in tasks
  BY CallFacts DEF IInv
<1>2. CASE s.vnodes[v].type = "file" /\ FreeSlots # {}
  <2> DEFINE i == CHOOSE i \in FreeSlots : \A j \in FreeSlots : i <= j
             record == [node |-> v, ref_count |-> 1]
  <2>1. i \in Slots /\ slots[call.task][i] = Empty
    BY <1>2, FreeSlotFacts
  <2>2. /\ fs' = s /\ resources' = With(resources, Fresh(resources), record)
        /\ slots' = [slots EXCEPT ![call.task][i] = Fresh(resources)]
    BY <1>2 DEF Registered
  <2> HIDE DEF i
  <2>3. SlotsInv(resources', slots', tasks')
    BY <1>1, <2>1, <2>2, RegisterKeeps
  <2>4. Fresh(resources) \notin DOMAIN resources
    BY <1>1, FreshIsNew DEF FiniteResources
  <2>5. Users(resources', None, None) = Users(resources, v, None)
    BY <1>1, <2>2, <2>4, OpenedAdded
  <2>6. Sound(fs', resources', None, None, {})
    BY <2>2, <2>5 DEF Sound
  <2> QED
    BY <2>3, <2>6, CallEnds
<1>3. CASE ~(s.vnodes[v].type = "file" /\ FreeSlots # {})
  <2>1. fs' = Lost(s, v) /\ resources' = resources /\ slots' = slots
    BY <1>3 DEF Registered
  <2>2. Sound(Lost(s, v), resources, None, None, {})
    BY <1>1, LoseStep
  <2> QED
    BY <1>1, <2>1, <2>2, CallEnds
<1> QED
  BY <1>2, <1>3

\* The state in which a call other than link acts on the node it has resolved.
LEMMA ResolvedFacts ==
    ASSUME IInv, NEW op \in WalkOps, NEW stage, Resolved(op, stage)
    PROVE  /\ call.op = op /\ call.stage = stage
           /\ call.current \in Addresses /\ call.current \in DOMAIN fs.vnodes
           /\ FiniteResources(resources) /\ SlotsInv(resources, slots, tasks)
           /\ Sound(fs, resources, call.current, call.source, {})
           /\ ~(op = "link" /\ stage = "parent") => call.source = None
           /\ op = "link" /\ stage = "parent" => call.source \in Addresses
BY CallFacts, WalkFacts DEF Resolved, IInv

LEMMA OpenNodeInv == ASSUME IInv, OpenNode PROVE IInv'
<1>1. Resolved("open", "node") /\ Registered(fs, call.current) /\ call' = NoCall /\ tasks' = tasks
  BY DEF OpenNode
<1>2. call.current \in Addresses /\ Sound(fs, resources, call.current, None, {})
  BY <1>1, ResolvedFacts DEF WalkOps
<1> QED
  BY <1>1, <1>2, RegisteredInv

\* A call that gives its only node back and ends.
LEMMA ReleaseEnds ==
    ASSUME IInv, NEW s, NEW c \in Addresses, Sound(s, resources, c, None, {}), fs' = Released(s, c),
           call' = NoCall, resources' = resources, slots' = slots, tasks' = tasks
    PROVE  IInv'
<1>1. FiniteResources(resources) /\ SlotsInv(resources', slots', tasks')
  BY CallFacts DEF IInv
<1>2. Sound(Released(s, c), resources, None, None, {})
  BY <1>1, ReleaseStep
<1> QED
  BY <1>1, <1>2, CallEnds

\* A change of directories and files under the nodes.
LEMMA SoundFiles ==
    ASSUME NEW s, NEW t, NEW rs, NEW c, NEW d, NEW U, U = Users(rs, c, d), Sound(s, rs, c, d, {}),
           TreeInv(t, U), t.vnodes = s.vnodes, UsedBut(s, U, {}) => UsedBut(t, U, {})
    PROVE  Sound(t, rs, c, d, {})
BY DEF Sound, SourceInv

LEMMA CreateFailsInv == ASSUME IInv, CreateFails PROVE IInv'
<1>1. /\ Resolved("open", "parent") /\ call' = NoCall
      /\ resources' = resources /\ slots' = slots /\ tasks' = tasks
      /\ fs' = Released(fs, call.current) \/ fs' = Released(Nowhere(fs), call.current)
  BY DEF CreateFails, Nowhere
<1>2. call.current \in Addresses /\ Sound(fs, resources, call.current, None, {})
  BY <1>1, ResolvedFacts DEF WalkOps
<1>3. CASE fs' = Released(fs, call.current)
  BY <1>1, <1>2, <1>3, ReleaseEnds
<1>4. CASE fs' = Released(Nowhere(fs), call.current)
  <2> DEFINE U == Users(resources, call.current, None)
  <2>1. TreeInv(fs, U)
    BY <1>2 DEF Sound
  <2>2. /\ TreeInv(Nowhere(fs), U) /\ Nowhere(fs).vnodes = fs.vnodes
        /\ \A X : UsedBut(fs, U, X) => UsedBut(Nowhere(fs), U, X)
    <3> HIDE DEF U
    <3> QED
      BY <2>1, NowhereKeeps
  <2>3. Sound(Nowhere(fs), resources, call.current, None, {})
    BY <1>2, <2>2, SoundFiles
  <2> QED
    BY <1>1, <1>2, <1>4, <2>3, ReleaseEnds
<1> QED
  BY <1>1, <1>3, <1>4

LEMMA StatNodeInv == ASSUME IInv, StatNode PROVE IInv'
<1>1. /\ Resolved("stat", "node") /\ call' = NoCall /\ fs' = Released(fs, call.current)
      /\ resources' = resources /\ slots' = slots /\ tasks' = tasks
  BY DEF StatNode
<1>2. call.current \in Addresses /\ Sound(fs, resources, call.current, None, {})
  BY <1>1, ResolvedFacts DEF WalkOps
<1> QED
  BY <1>1, <1>2, ReleaseEnds

LEMMA ExecveNodeInv == ASSUME IInv, ExecveNode PROVE IInv'
<1>1. /\ Resolved("execve", "node") /\ call' = NoCall
      /\ fs' = Released(fs, call.current) \/ fs' = Lost(fs, call.current)
      /\ resources' = resources /\ slots' = slots /\ tasks' = tasks
  BY DEF ExecveNode
<1>2. /\ call.current \in Addresses /\ Sound(fs, resources, call.current, None, {})
      /\ FiniteResources(resources) /\ SlotsInv(resources, slots, tasks)
  BY <1>1, ResolvedFacts DEF WalkOps
<1>3. CASE fs' = Released(fs, call.current)
  BY <1>1, <1>2, <1>3, ReleaseEnds
<1>4. CASE fs' = Lost(fs, call.current)
  <2>1. Sound(Lost(fs, call.current), resources, None, None, {})
    BY <1>2, LoseStep
  <2> QED
    BY <1>1, <1>2, <1>4, <2>1, CallEnds
<1> QED
  BY <1>1, <1>3, <1>4

\* vfs_create makes file i in directory c, or finds it there.
Creates(s, c, name, t, i) ==
    IF Found(s, c, name) = {}
    THEN i = s.last_index /\ t = Added(CreatedInode(s), c, name, s.last_index)
    ELSE i \in Found(s, c, name) /\ t = s

LEMMA CreatePlace ==
    ASSUME NEW s, NEW rs, NEW c \in DOMAIN s.vnodes, Sound(s, rs, c, None, {}), IsRamfsDirectory(s, c),
           NEW name, NEW t, NEW i, Creates(s, c, name, t, i)
    PROVE  /\ Sound(t, rs, c, None, {}) /\ t.vnodes = s.vnodes
           /\ HasPlace(t, Ramfs, i, t.inodes[i].type)
           /\ i # s.vnodes[c].index
<1> DEFINE U == Users(rs, c, None)
<1>1. TreeInv(s, U) /\ EntriesInv(s) /\ IsRamfs(s, c)
  BY DEF Sound, TreeInv, IsRamfsDirectory
<1> HIDE DEF U
<1>2. /\ Sound(t, rs, c, None, {}) /\ t.vnodes = s.vnodes
      /\ i \in DOMAIN t.inodes \ t.unplaced /\ i # s.vnodes[c].index
  <2>1. CASE Found(s, c, name) = {}
    <3>1. i = s.last_index /\ t = Added(CreatedInode(s), c, name, s.last_index)
      BY <2>1 DEF Creates
    <3>2. <<s.vnodes[c].index, name>> \notin DOMAIN s.entries
      BY <1>1, <2>1, NothingFound
    <3>3. /\ TreeInv(t, U) /\ t.vnodes = s.vnodes
          /\ s.last_index \in DOMAIN t.inodes \ t.unplaced
          /\ s.last_index # s.vnodes[c].index
          /\ \A X : UsedBut(s, U, X) => UsedBut(t, U, X)
      BY <1>1, <3>1, <3>2, CreatedKeeps
    <3>4. U = Users(rs, c, None)
      BY DEF U
    <3>5. Sound(t, rs, c, None, {})
      BY <3>3, <3>4, SoundFiles
    <3> QED
      BY <3>1, <3>3, <3>5
  <2>2. CASE Found(s, c, name) # {}
    <3>1. i \in Found(s, c, name) /\ t = s
      BY <2>2 DEF Creates
    <3>2. i \in DOMAIN s.inodes \ s.unplaced /\ i # s.vnodes[c].index
      BY <1>1, <3>1, FoundFacts
    <3> QED
      BY <3>1, <3>2
  <2> QED
    BY <2>1, <2>2
<1>3. InodesInv(t)
  BY <1>2 DEF Sound, TreeInv
<1>4. t.inodes[i] \in InodeRecords /\ i \in Int
  BY <1>2, <1>3 DEF InodesInv
<1>5. HasPlace(t, Ramfs, i, t.inodes[i].type)
  BY <1>2, <1>4 DEF HasPlace, InodeRecords
<1> QED
  BY <1>2, <1>5

LEMMA CreateNodeInv == ASSUME IInv, CreateNode PROVE IInv'
<1> DEFINE c        == call.current
           name     == Last(call.path)
           existing == Found(fs, c, name)
           i        == IF existing = {} THEN fs.last_index ELSE CHOOSE e \in existing : TRUE
           s        == IF existing = {} THEN Added(CreatedInode(fs), c, name, i) ELSE fs
           v        == NodeFor(s, Ramfs, i)
           type     == s.inodes[i].type
           t        == WithNode(s, Ramfs, i, type)
<1>1. /\ Resolved("open", "parent") /\ IsRamfsDirectory(fs, c)
      /\ Registered(Locked(Released(t, c), v), v)
      /\ call' = NoCall /\ tasks' = tasks
  BY DEF CreateNode
<1>2. /\ c \in Addresses /\ c \in DOMAIN fs.vnodes
      /\ FiniteResources(resources) /\ Sound(fs, resources, c, None, {})
  BY <1>1, ResolvedFacts DEF WalkOps
<1>3. Creates(fs, c, name, s, i)
  <2>1. IF existing = {} THEN i = fs.last_index /\ s = Added(CreatedInode(fs), c, name, fs.last_index)
        ELSE i \in existing /\ s = fs
    <3> HIDE DEF existing
    <3> QED
      OBVIOUS
  <2> QED
    BY <2>1 DEF Creates
<1> HIDE DEF i, s, name, c
<1>4. /\ Sound(s, resources, c, None, {}) /\ s.vnodes = fs.vnodes
      /\ HasPlace(s, Ramfs, i, type)
      /\ i # fs.vnodes[c].index
  BY <1>1, <1>2, <1>3, CreatePlace
<1> HIDE DEF type, existing
<1>5. v = Address(Ramfs, i) /\ v # c
  <2>1. NodesInv(s) /\ NodesInv(fs)
    BY <1>2, <1>4 DEF Sound, TreeInv
  <2>2. v = Address(Ramfs, i)
    BY <2>1, KnownIsCached
  <2>3. c = Address(Ramfs, fs.vnodes[c].index)
    BY <1>1, <1>2, <2>1, NodeFacts DEF IsRamfsDirectory, IsRamfs
  <2> QED
    BY <1>4, <2>2, <2>3, AddressesDiffer
<1> HIDE DEF v
<1>6. /\ Sound(t, resources, c, None, {v}) /\ v \in Addresses
      /\ v \in DOMAIN t.vnodes
  <2>1. /\ Sound(t, resources, c, None, {Address(Ramfs, i)}) /\ Address(Ramfs, i) \in Addresses
        /\ DOMAIN t.vnodes = DOMAIN s.vnodes \cup {Address(Ramfs, i)}
    BY <1>4, NodeStep
  <2> QED
    BY <1>5, <2>1
<1> HIDE DEF t
<1>7. Sound(Released(t, c), resources, None, None, {v}) /\ v \in DOMAIN Released(t, c).vnodes
  BY <1>2, <1>5, <1>6, ReleaseStep
<1>8. Sound(Locked(Released(t, c), v), resources, v, None, {})
  <2> DEFINE u == Released(t, c)
  <2>1. Sound(u, resources, None, None, {} \cup {v}) /\ v \in DOMAIN u.vnodes
    BY <1>7
  <2> HIDE DEF u
  <2>2. Sound(Locked(u, v), resources, v, None, {})
    BY <1>2, <2>1, LockStep
  <2> QED
    BY <2>2 DEF u
<1> QED
  BY <1>1, <1>6, <1>8, RegisteredInv

LEMMA LinkSourceInv == ASSUME IInv, LinkSource PROVE IInv'
<1> DEFINE c == call.current
           plain == fs.vnodes[c].type = "file" /\ IsRamfs(fs, c)
<1>1. /\ Resolved("link", "node")
      /\ resources' = resources /\ slots' = slots /\ tasks' = tasks
  BY DEF LinkSource
<1>2. /\ c \in Addresses /\ c \in DOMAIN fs.vnodes /\ call.op = "link" /\ call.source = None
      /\ FiniteResources(resources) /\ SlotsInv(resources, slots, tasks)
      /\ Sound(fs, resources, c, None, {})
  BY <1>1, ResolvedFacts DEF WalkOps
<1>3. CASE plain /\ call.path # <<>>
  <2> DEFINE r == [call EXCEPT !.source = c]
  <2>1. fs' = Locked(fs, Root) /\ call' = Resolve("parent", Front(call.path), r)
    BY <1>3 DEF LinkSource
  <2>2. call \in Calls(tasks) /\ Front(call.path) \in Seq(STRING)
    BY CallFacts, FrontFacts
  <2>3. r \in Calls(tasks) /\ r.op = "link" /\ r.source = c
    BY <1>2, <2>2 DEF Calls
  <2> HIDE DEF r
  <2>4. /\ call' \in Calls(tasks') /\ call'.op = "link" /\ call'.stage = "parent"
        /\ call'.current = Root /\ call'.source = c
    BY <1>1, <2>1, <2>2, <2>3, ResolveFacts
  <2>5. SourceInv(fs, c)
    BY <1>2, <1>3 DEF SourceInv, IsRamfs
  <2>6. Sound(fs, resources, None, c, {})
    BY <1>2, <2>5, SoundSwap DEF Sound
  <2>7. Sound(fs, resources, None, c, {} \cup {Root}) /\ Root \in DOMAIN fs.vnodes
    BY <2>6, RootIsThere, SoundWeaker
  <2>8. Sound(Locked(fs, Root), resources, Root, c, {})
    BY <1>2, <2>7, LockStep
  <2>9. c # None /\ Root # None
    BY <1>2, NoneIsNoAddress, RootIsAddress
  <2>10. /\ Sound(fs', resources', call'.current, call'.source, {}) /\ SlotsInv(resources', slots', tasks')
         /\ call'.op \in WalkOps /\ call'.current # None
         /\ call'.source # None <=> call'.op = "link" /\ call'.stage = "parent"
    BY <1>1, <1>2, <2>1, <2>4, <2>8, <2>9 DEF WalkOps
  <2> QED
    BY <2>4, <2>10, CallGoesOn
<1>4. CASE ~(plain /\ call.path # <<>>)
  <2>1. fs' = Released(fs, c) /\ call' = NoCall
    BY <1>4 DEF LinkSource
  <2> QED
    BY <1>1, <1>2, <2>1, ReleaseEnds
<1> QED
  BY <1>3, <1>4

LEMMA LinkParentInv == ASSUME IInv, LinkParent PROVE IInv'
<1> DEFINE c     == call.current
           d     == call.source
           name  == Last(call.path)
           i     == fs.vnodes[d].index
           links == IsRamfsDirectory(fs, c) /\ Found(fs, c, name) = {} /\ ~Full(fs, c)
           s     == IF links THEN LinkCounted(Added(fs, c, name, i), i) ELSE fs
           U     == Users(resources, c, d)
<1>1. /\ Resolved("link", "parent") /\ fs' = Released(Released(s, c), d) /\ call' = NoCall
      /\ resources' = resources /\ slots' = slots /\ tasks' = tasks
  BY DEF LinkParent
<1>2. /\ c \in Addresses /\ c \in DOMAIN fs.vnodes /\ d \in Addresses
      /\ FiniteResources(resources) /\ SlotsInv(resources, slots, tasks)
      /\ Sound(fs, resources, c, d, {})
  BY <1>1, ResolvedFacts DEF WalkOps
<1> HIDE DEF c, d, name
<1>3. Sound(s, resources, c, d, {})
  <2>1. CASE ~links
    BY <1>2, <2>1
  <2>2. CASE links
    <3>1. s = LinkCounted(Added(fs, c, name, i), i) /\ IsRamfsDirectory(fs, c) /\ IsRamfs(fs, c)
      BY <2>2 DEF IsRamfsDirectory
    <3>2. <<fs.vnodes[c].index, name>> \notin DOMAIN fs.entries
      BY <2>2, <3>1, NothingFound
    <3>3. TreeInv(fs, U) /\ FilesInv(fs) /\ SourceInv(fs, d) /\ d # None
      BY <1>2, NoneIsNoAddress DEF Sound, TreeInv
    <3>4. i \in DOMAIN fs.inodes \ fs.unplaced /\ fs.inodes[i].type = "file"
      BY <3>3 DEF FilesInv, SourceInv
    <3> HIDE DEF s, i, U
    <3>5. /\ TreeInv(s, U) /\ s.vnodes = fs.vnodes
          /\ \A X : UsedBut(fs, U, X) => UsedBut(s, U, X)
      BY <1>2, <3>1, <3>2, <3>3, <3>4, LinkedKeeps
    <3>6. U = Users(resources, c, d)
      BY DEF U
    <3> QED
      BY <1>2, <3>5, <3>6, SoundFiles
  <2> QED
    BY <2>1, <2>2
<1> HIDE DEF s
<1>4. Sound(Released(s, c), resources, None, d, {})
  BY <1>2, <1>3, ReleaseStep
<1>5. Sound(Released(Released(s, c), d), resources, None, None, {})
  BY <1>2, <1>4, ReleaseSource
<1> QED
  BY <1>1, <1>2, <1>5, CallEnds

LEMMA UnlinkParentInv == ASSUME IInv, UnlinkParent PROVE IInv'
<1> DEFINE c     == call.current
           name  == Last(call.path)
           found == Found(fs, c, name)
           U     == Users(resources, c, None)
<1>1. /\ Resolved("unlink", "parent") /\ call' = NoCall
      /\ resources' = resources /\ slots' = slots /\ tasks' = tasks
      /\ \/ /\ IsRamfsDirectory(fs, c)
            /\ \E i \in found : fs.inodes[i].type = "file" /\ fs' = Released(Unlinked(fs, c, name, i), c)
         \/ fs' = Released(fs, c)
  BY DEF UnlinkParent
<1>2. c \in Addresses /\ c \in DOMAIN fs.vnodes /\ Sound(fs, resources, c, None, {})
  BY <1>1, ResolvedFacts DEF WalkOps
<1> HIDE DEF c, name
<1>3. CASE fs' = Released(fs, c)
  BY <1>1, <1>2, <1>3, ReleaseEnds
<1>4. ASSUME IsRamfsDirectory(fs, c), NEW i \in found, fs.inodes[i].type = "file",
             fs' = Released(Unlinked(fs, c, name, i), c)
      PROVE  IInv'
  <2> DEFINE s == Unlinked(fs, c, name, i)
  <2>1. TreeInv(fs, U) /\ EntriesInv(fs) /\ IsRamfs(fs, c) /\ U = Users(resources, c, None)
    BY <1>2, <1>4 DEF Sound, TreeInv, IsRamfsDirectory
  <2>2. <<fs.vnodes[c].index, name>> \in DOMAIN fs.entries /\ i = fs.entries[<<fs.vnodes[c].index, name>>]
    BY <1>4, <2>1, FoundFacts
  <2> HIDE DEF U
  <2>3. /\ TreeInv(s, U) /\ s.vnodes = fs.vnodes
        /\ \A X : UsedBut(fs, U, X) => UsedBut(s, U, X)
    BY <1>2, <1>4, <2>1, <2>2, UnlinkedKeeps
  <2> HIDE DEF s
  <2>4. Sound(s, resources, c, None, {})
    BY <1>2, <2>1, <2>3, SoundFiles
  <2>5. fs' = Released(s, c)
    BY <1>4 DEF s
  <2> QED
    BY <1>1, <1>2, <2>4, <2>5, ReleaseEnds
<1> QED
  BY <1>1, <1>3, <1>4

-----------------------------------------------------------------------------
(* Descriptors.                                                             *)

\* Between calls, and while a task is destroyed, only the resources hold nodes.
LEMMA IdleFacts ==
    ASSUME IInv, call.op \in {"none", "destroy"}
    PROVE  /\ call.current = None /\ call.source = None /\ call.task \in tasks
           /\ FiniteResources(resources) /\ SlotsInv(resources, slots, tasks)
           /\ Sound(fs, resources, None, None, {})
BY CallFacts DEF IInv

LEMMA IdleStays ==
    ASSUME IInv, call.op \in {"none", "destroy"}, call' = call, tasks \subseteq tasks',
           Sound(fs', resources', None, None, {}), SlotsInv(resources', slots', tasks')
    PROVE  IInv'
<1>1. call.current = None /\ call.source = None
  BY IdleFacts
<1>2. CallInv'
  BY DEF IInv, CallInv
<1> QED
  BY <1>1, <1>2 DEF IInv

LEMMA RemovedInv ==
    ASSUME IInv, call.op \in {"none", "destroy"}, call' = call, tasks' = tasks,
           NEW t \in tasks, NEW i \in Slots, slots[t][i] # Empty, Removed(t, i)
    PROVE  IInv'
<1> DEFINE r == slots[t][i]
           node == resources[r].node
           U == Users(resources, None, None)
<1>1. /\ slots' = [slots EXCEPT ![t][i] = Empty]
      /\ resources' = IF resources[r].ref_count = 1 THEN Without(resources, r)
                      ELSE [resources EXCEPT ![r].ref_count = @ - 1]
      /\ fs' = IF resources[r].ref_count = 1 THEN Released(fs, node) ELSE fs
  BY DEF Removed, LastReference
<1>2. /\ FiniteResources(resources) /\ SlotsInv(resources, slots, tasks)
      /\ Sound(fs, resources, None, None, {})
  BY IdleFacts
<1>3. SlotsInv(resources', slots', tasks') /\ r \in DOMAIN resources
  BY <1>1, <1>2, RemoveKeeps
<1>4. resources[r] \in ResourceRecords
  BY <1>2, <1>3 DEF SlotsInv
<1>5. node \in Addresses
  BY <1>4 DEF ResourceRecords
<1> HIDE DEF r
<1>6. Sound(fs', resources', None, None, {})
  <2>1. CASE resources[r].ref_count = 1
    <3>1. U[node] > 0 /\ Users(Without(resources, r), None, None) = [U EXCEPT ![node] = U[node] - 1]
      BY <1>2, <1>3, <1>5, OpenedRemoved
    <3>2. TreeInv(fs, U) /\ UsedBut(fs, U, {})
      BY <1>2 DEF Sound
    <3> HIDE DEF U, node
    <3>3. node \in DOMAIN fs.vnodes
      BY <1>5, <3>1, <3>2, UserKeeps
    <3>4. /\ TreeInv(Released(fs, node), [U EXCEPT ![node] = U[node] - 1])
          /\ \A X : UsedBut(fs, U, X) => UsedBut(Released(fs, node), [U EXCEPT ![node] = U[node] - 1], X)
      BY <3>1, <3>2, <3>3, ReleasedKeeps
    <3>5. fs' = Released(fs, node) /\ resources' = Without(resources, r)
      BY <1>1, <2>1
    <3> QED
      BY <3>1, <3>2, <3>4, <3>5 DEF Sound, SourceInv
  <2>2. CASE resources[r].ref_count # 1
    <3>1. fs' = fs /\ resources' = [resources EXCEPT ![r].ref_count = @ - 1]
      BY <1>1, <2>2
    <3>2. [resources[r] EXCEPT !.ref_count = @ - 1].node = resources[r].node
      BY <1>4 DEF ResourceRecords
    <3>3. /\ DOMAIN resources' = DOMAIN resources
          /\ \A q \in DOMAIN resources : resources'[q].node = resources[q].node
      BY <1>3, <3>1, <3>2
    <3>4. Users(resources', None, None) = Users(resources, None, None)
      BY <3>3, OpenedSame
    <3> QED
      BY <1>2, <3>1, <3>4 DEF Sound
  <2> QED
    BY <2>1, <2>2
<1> QED
  BY <1>3, <1>6, IdleStays

LEMMA CloseInv == ASSUME IInv, Close PROVE IInv'
<1>1. PICK t \in tasks, i \in 1 .. MaxResources : slots[t][i] # Empty /\ Removed(t, i)
  BY DEF Close
<1>2. call.op = "none" /\ tasks' = tasks /\ call' = call /\ i \in Slots
  BY DEF Close, Slots
<1> QED
  BY <1>1, <1>2, RemovedInv

LEMMA DestroySlotInv == ASSUME IInv, DestroySlot PROVE IInv'
<1>1. PICK i \in 1 .. MaxResources : slots[call.task][i] # Empty /\ Removed(call.task, i)
  BY DEF DestroySlot
<1>2. call.op = "destroy" /\ tasks' = tasks /\ call' = call /\ i \in Slots
  BY DEF DestroySlot, Slots
<1>3. call.task \in tasks
  BY <1>2, IdleFacts
<1> QED
  BY <1>1, <1>2, <1>3, RemovedInv

LEMMA ForkInv == ASSUME IInv, Fork PROVE IInv'
<1>1. PICK parent \in tasks, child \in Tasks \ tasks :
         /\ tasks' = tasks \cup {child}
         /\ slots' = [slots EXCEPT ![child] = slots[parent]]
         /\ resources' = SharedWith(resources, slots, parent)
  BY DEF Fork, Slots, SharedWith
<1>2. call.op = "none" /\ fs' = fs /\ call' = call
  BY DEF Fork
<1>3. /\ FiniteResources(resources) /\ SlotsInv(resources, slots, tasks)
      /\ Sound(fs, resources, None, None, {})
  BY <1>2, IdleFacts
<1>4. SlotsInv(resources', slots', tasks')
  BY <1>1, <1>3, ForkKeeps
<1>5. /\ DOMAIN resources' = DOMAIN resources
      /\ \A r \in DOMAIN resources : resources'[r].node = resources[r].node
  <2> SUFFICES ASSUME NEW r \in DOMAIN resources
               PROVE  SharedWith(resources, slots, parent)[r].node = resources[r].node
    BY <1>1 DEF SharedWith
  <2>1. resources[r] \in ResourceRecords
    BY <1>3 DEF SlotsInv
  <2> QED
    BY <2>1 DEF ResourceRecords, SharedWith
<1>6. Users(resources', None, None) = Users(resources, None, None)
  BY <1>5, OpenedSame
<1>7. Sound(fs', resources', None, None, {})
  BY <1>2, <1>3, <1>6 DEF Sound
<1> QED
  BY <1>1, <1>2, <1>4, <1>7, IdleStays

LEMMA DestroyInv == ASSUME IInv, Destroy PROVE IInv'
<1>1. PICK t \in tasks \ {InitTask} : call' = [NoCall EXCEPT !.op = "destroy", !.task = t]
  BY DEF Destroy
<1>2. /\ call.op = "none" /\ fs' = fs /\ resources' = resources /\ slots' = slots /\ tasks' = tasks
  BY DEF Destroy
<1>3. SlotsInv(resources, slots, tasks) /\ Sound(fs, resources, None, None, {})
  BY <1>2, IdleFacts
<1>4. NoCall \in Calls(tasks)
  BY NoCallFacts
<1>5. /\ call' \in Calls(tasks') /\ call'.op = "destroy" /\ call'.task = t
      /\ call'.current = None /\ call'.source = None
  BY <1>1, <1>2, <1>4 DEF Calls, NoCall
<1>6. CallInv'
  BY <1>1, <1>5 DEF CallInv, Calls, WalkOps
<1> QED
  BY <1>2, <1>3, <1>5, <1>6 DEF IInv

LEMMA DestroyedInv == ASSUME IInv, Destroyed PROVE IInv'
<1> DEFINE t == call.task
<1>1. /\ call.op = "destroy" /\ \A i \in Slots : slots[t][i] = Empty
      /\ tasks' = tasks \ {t} /\ call' = NoCall
      /\ fs' = fs /\ resources' = resources /\ slots' = slots
  BY DEF Destroyed, Slots
<1>2. /\ SlotsInv(resources, slots, tasks) /\ Sound(fs, resources, None, None, {})
      /\ t \in tasks /\ t # InitTask
  BY <1>1, IdleFacts DEF IInv, CallInv
<1> HIDE DEF t
<1>3. IsFiniteSet(tasks \ {t})
  BY <1>2, FS_RemoveElement DEF SlotsInv
<1>4. SlotsInv(resources, slots, tasks \ {t})
  BY <1>1, <1>2, <1>3 DEF SlotsInv
<1> QED
  BY <1>1, <1>2, <1>4, CallEnds

-----------------------------------------------------------------------------
(* The initial state.                                                       *)

LEMMA KeptDiffer ==
    /\ Root # DevDirectory /\ Root # DevfsNode /\ DevDirectory # DevfsNode
    /\ Root = Address(Ramfs, 0) /\ DevDirectory = Address(Ramfs, 3) /\ DevfsNode = Address(Devfs, DevfsRoot)
    /\ Ramfs # Devfs /\ Kept \subseteq Addresses
    /\ DevfsRoot \in Int
<1>1. /\ Root = <<0, 0, 1>> /\ DevDirectory = <<0, 3, 1>> /\ DevfsNode = <<1, -1, 1>>
  BY DEF Root, DevDirectory, DevfsNode, DevfsRoot, Ramfs, Devfs
<1>2. /\ <<0, 0, 1>> # <<0, 3, 1>> /\ <<0, 0, 1>> # <<1, -1, 1>> /\ <<0, 3, 1>> # <<1, -1, 1>>
  OBVIOUS
<1> QED
  BY <1>1, <1>2 DEF Address, Kept, Addresses, DevfsRoot, Ramfs, Devfs

LEMMA InitNodes ==
    ASSUME Init
    PROVE  /\ DOMAIN fs.vnodes = Kept
           /\ fs.vnodes[Root] = Node(Ramfs, 0, "dir", None, 3, 1)
           /\ fs.vnodes[DevDirectory] = Node(Ramfs, 3, "dir", DevfsNode, 2, 0)
           /\ fs.vnodes[DevfsNode] = Node(Devfs, DevfsRoot, "dir", None, 2, 0)
           /\ fs.vnodes = [v \in Kept |-> fs.vnodes[v]]
           /\ fs.cache = Kept
           /\ IsFileSystem(fs)
<1>1. /\ fs.vnodes = [v \in Kept |->
                         CASE v = Root         -> Node(Ramfs, 0, "dir", None, 3, 1)
                           [] v = DevDirectory -> Node(Ramfs, 3, "dir", DevfsNode, 2, 0)
                           [] v = DevfsNode    -> Node(Devfs, DevfsRoot, "dir", None, 2, 0)]
      /\ fs.cache = Kept
  BY DEF Init, Kept
<1>2. IsFileSystem(fs)
  BY DEF Init, IsFileSystem
<1>3. DOMAIN fs.vnodes = Kept /\ fs.vnodes = [v \in Kept |-> fs.vnodes[v]]
  BY <1>1
<1>4. Root \in Kept /\ DevDirectory \in Kept /\ DevfsNode \in Kept
  BY DEF Kept
<1>5. /\ fs.vnodes[Root] = Node(Ramfs, 0, "dir", None, 3, 1)
      /\ fs.vnodes[DevDirectory] = Node(Ramfs, 3, "dir", DevfsNode, 2, 0)
      /\ fs.vnodes[DevfsNode] = Node(Devfs, DevfsRoot, "dir", None, 2, 0)
  BY <1>1, <1>4, KeptDiffer
<1> QED
  BY <1>1, <1>2, <1>3, <1>5

InitEntries == {<<0, "bin">>, <<1, "init.elf">>, <<0, "dev">>}

LEMMA InitFiles ==
    ASSUME Init
    PROVE  /\ fs.inodes \in [0 .. 3 -> InodeRecords]
           /\ \A i \in 0 .. 3 : fs.inodes[i].link_count = 1
           /\ fs.inodes[0].type = "dir" /\ fs.inodes[1].type = "dir" /\ fs.inodes[3].type = "dir"
           /\ fs.last_index = 4 /\ fs.unplaced = {0}
           /\ fs.entries \in [InitEntries -> {1, 2, 3}]
           /\ fs.entries[<<0, "bin">>] = 1 /\ fs.entries[<<1, "init.elf">>] = 2
           /\ fs.entries[<<0, "dev">>] = 3
<1>1. fs.inodes = [i \in 0 .. 3 |-> [type |-> IF i = 2 THEN "file" ELSE "dir", link_count |-> 1]]
  BY DEF Init
<1>2. fs.entries = [e \in InitEntries |-> CASE e[2] = "bin" -> 1 [] e[2] = "init.elf" -> 2 [] OTHER -> 3]
  BY DEF Init, InitEntries
<1>3. fs.last_index = 4 /\ fs.unplaced = {0}
  BY DEF Init
<1>4. <<0, "bin">> \in InitEntries /\ <<1, "init.elf">> \in InitEntries /\ <<0, "dev">> \in InitEntries
  BY DEF InitEntries
<1>5. /\ fs.entries[<<0, "bin">>] = 1 /\ fs.entries[<<1, "init.elf">>] = 2 /\ fs.entries[<<0, "dev">>] = 3
      /\ DOMAIN fs.entries = InitEntries /\ fs.entries = [e \in InitEntries |-> fs.entries[e]]
  BY <1>2, <1>4
<1>6. fs.entries \in [InitEntries -> {1, 2, 3}]
  BY <1>5 DEF InitEntries
<1>7. /\ fs.inodes \in [0 .. 3 -> InodeRecords]
      /\ \A i \in 0 .. 3 : fs.inodes[i].link_count = 1
      /\ fs.inodes[0].type = "dir" /\ fs.inodes[1].type = "dir" /\ fs.inodes[3].type = "dir"
  <2>1. \A i \in 0 .. 3 : fs.inodes[i] = [type |-> IF i = 2 THEN "file" ELSE "dir", link_count |-> 1]
    BY <1>1
  <2>2. \A i \in 0 .. 3 : fs.inodes[i] \in InodeRecords /\ fs.inodes[i].link_count = 1
    BY <2>1 DEF InodeRecords, Types
  <2> QED
    BY <1>1, <2>1, <2>2
<1> QED
  BY <1>3, <1>5, <1>6, <1>7

LEMMA InitLinks ==
    ASSUME Init
    PROVE  /\ Cardinality(Names(fs.entries, 1)) = 1
           /\ Cardinality(Names(fs.entries, 2)) = 1
           /\ Cardinality(Names(fs.entries, 3)) = 1
<1>1. /\ DOMAIN fs.entries = InitEntries
      /\ fs.entries[<<0, "bin">>] = 1 /\ fs.entries[<<1, "init.elf">>] = 2 /\ fs.entries[<<0, "dev">>] = 3
  BY InitFiles
<1>2. /\ Names(fs.entries, 1) = {<<0, "bin">>}
      /\ Names(fs.entries, 2) = {<<1, "init.elf">>}
      /\ Names(fs.entries, 3) = {<<0, "dev">>}
  BY <1>1 DEF Names, InitEntries
<1> QED
  BY <1>2, FS_Singleton

LEMMA InitUsers ==
    ASSUME Init
    PROVE  /\ FiniteResources(resources) /\ DOMAIN resources = {}
           /\ \A v \in Addresses : Users(resources, None, None)[v] = 0
<1>1. DOMAIN resources = {}
  BY DEF Init
<1>2. FiniteResources(resources)
  BY <1>1, FS_EmptySet DEF FiniteResources
<1>3. \A v : {r \in DOMAIN resources : resources[r].node = v} = {}
  BY <1>1
<1>4. \A v : Opened(resources, v) = 0
  BY <1>3, FS_EmptySet DEF Opened
<1>5. \A v \in Addresses : One(None = v) = 0
  BY NoneIsNoAddress DEF One
<1> QED
  BY <1>1, <1>2, <1>4, <1>5, UsersType

LEMMA InitInv == Init => IInv
<1> SUFFICES ASSUME Init PROVE IInv
  OBVIOUS
<1> DEFINE U == Users(resources, None, None)
           s == fs
<1>1. /\ DOMAIN s.vnodes = Kept /\ s.cache = Kept /\ IsFileSystem(s)
      /\ s.vnodes = [v \in Kept |-> s.vnodes[v]]
      /\ s.vnodes[Root] = Node(Ramfs, 0, "dir", None, 3, 1)
      /\ s.vnodes[DevDirectory] = Node(Ramfs, 3, "dir", DevfsNode, 2, 0)
      /\ s.vnodes[DevfsNode] = Node(Devfs, DevfsRoot, "dir", None, 2, 0)
  BY InitNodes
<1>2. /\ s.inodes \in [0 .. 3 -> InodeRecords]
      /\ \A i \in 0 .. 3 : s.inodes[i].link_count = 1
      /\ s.inodes[0].type = "dir" /\ s.inodes[1].type = "dir" /\ s.inodes[3].type = "dir"
      /\ s.last_index = 4 /\ s.unplaced = {0}
      /\ s.entries \in [InitEntries -> {1, 2, 3}]
      /\ s.entries[<<0, "bin">>] = 1 /\ s.entries[<<1, "init.elf">>] = 2
      /\ s.entries[<<0, "dev">>] = 3
  BY InitFiles
<1>3. /\ Cardinality(Names(s.entries, 1)) = 1 /\ Cardinality(Names(s.entries, 2)) = 1
      /\ Cardinality(Names(s.entries, 3)) = 1
  BY InitLinks
<1>4. /\ FiniteResources(resources) /\ DOMAIN resources = {}
      /\ \A v \in Addresses : U[v] = 0
      /\ U \in [Addresses -> Nat]
  BY InitUsers, UsersType
<1> HIDE DEF U, s
<1>5. /\ s.vnodes[Root] \in NodeRecords /\ s.vnodes[DevDirectory] \in NodeRecords
      /\ s.vnodes[DevfsNode] \in NodeRecords
  BY <1>1, KeptDiffer DEF Node, NodeRecords, Types
<1>6. /\ s.vnodes[Root].cache_index = Ramfs /\ s.vnodes[Root].index = 0
      /\ s.vnodes[Root].type = "dir" /\ s.vnodes[Root].mount = None
      /\ s.vnodes[Root].ref_count = 3 /\ s.vnodes[Root].lost = 1
      /\ s.vnodes[DevDirectory].cache_index = Ramfs /\ s.vnodes[DevDirectory].index = 3
      /\ s.vnodes[DevDirectory].type = "dir" /\ s.vnodes[DevDirectory].mount = DevfsNode
      /\ s.vnodes[DevDirectory].ref_count = 2 /\ s.vnodes[DevDirectory].lost = 0
      /\ s.vnodes[DevfsNode].cache_index = Devfs /\ s.vnodes[DevfsNode].index = DevfsRoot
      /\ s.vnodes[DevfsNode].type = "dir" /\ s.vnodes[DevfsNode].mount = None
      /\ s.vnodes[DevfsNode].ref_count = 2 /\ s.vnodes[DevfsNode].lost = 0
  BY <1>1 DEF Node
<1>7. \A v \in Kept : v = Root \/ v = DevDirectory \/ v = DevfsNode
  BY DEF Kept
<1>8. NodesInv(s)
  <2>1. s.vnodes \in [DOMAIN s.vnodes -> NodeRecords]
    BY <1>1, <1>5, <1>7
  <2>2. \A v \in Kept : /\ v = Address(s.vnodes[v].cache_index, s.vnodes[v].index)
                        /\ s.vnodes[v].mount = IF v = DevDirectory THEN DevfsNode ELSE None
    BY <1>6, <1>7, KeptDiffer
  <2> QED
    BY <1>1, <2>1, <2>2 DEF NodesInv
<1>9. InodesInv(s)
  BY <1>2 DEF InodesInv
<1>10. EntriesInv(s)
  <2>1. DOMAIN s.entries = InitEntries /\ s.entries \in [DOMAIN s.entries -> Nat]
    BY <1>2
  <2>2. IsFiniteSet(InitEntries)
    <3>1. IsFiniteSet({<<0, "bin">>}) /\ IsFiniteSet({<<1, "init.elf">>}) /\ IsFiniteSet({<<0, "dev">>})
      BY FS_Singleton
    <3>2. IsFiniteSet({<<0, "bin">>} \cup {<<1, "init.elf">>})
      BY <3>1, FS_Union
    <3>3. IsFiniteSet(({<<0, "bin">>} \cup {<<1, "init.elf">>}) \cup {<<0, "dev">>})
      BY <3>1, <3>2, FS_Union
    <3>4. InitEntries = ({<<0, "bin">>} \cup {<<1, "init.elf">>}) \cup {<<0, "dev">>}
      BY DEF InitEntries
    <3> QED
      BY <3>3, <3>4
  <2>3. DOMAIN s.inodes = 0 .. 3 /\ s.unplaced = {0}
    BY <1>2
  <2>4. ASSUME NEW e \in InitEntries
        PROVE  /\ e = <<e[1], e[2]>>
               /\ e[1] \in DOMAIN s.inodes /\ s.inodes[e[1]].type = "dir"
               /\ s.entries[e] \in DOMAIN s.inodes \ s.unplaced
               /\ s.entries[e] # e[1]
    <3>1. CASE e = <<0, "bin">>
      BY <1>2, <2>3, <3>1
    <3>2. CASE e = <<1, "init.elf">>
      BY <1>2, <2>3, <3>2
    <3>3. CASE e = <<0, "dev">>
      BY <1>2, <2>3, <3>3
    <3> QED
      BY <3>1, <3>2, <3>3 DEF InitEntries
  <2> QED
    BY <2>1, <2>2, <2>4 DEF EntriesInv
<1>11. FilesInv(s)
  BY <1>1, <1>2, <1>6, <1>7, KeptDiffer DEF FilesInv
<1>12. LinksInv(s)
  <2> SUFFICES ASSUME NEW i \in DOMAIN s.inodes \ s.unplaced
               PROVE  /\ s.inodes[i].link_count = Cardinality(Names(s.entries, i))
                      /\ s.inodes[i].link_count # 0
    BY DEF LinksInv
  <2>1. i \in {1, 2, 3} /\ s.inodes[i].link_count = 1
    BY <1>2
  <2> QED
    BY <1>3, <2>1
<1>13. \A v \in Kept : One(v \in Kept) = 1 /\ v \in Addresses /\ U[v] = 0
  BY <1>4, KeptDiffer DEF One
<1>14. CountsInv(s, U)
  <2>1. \A v \in Kept : s.vnodes[v].ref_count = 1 + One(v \in Kept) + U[v] + s.vnodes[v].lost
    BY <1>6, <1>7, <1>13
  <2> QED
    BY <1>1, <1>4, <2>1 DEF CountsInv
<1>15. UsedBut(s, U, {})
  BY <1>1, <1>6, <1>7, <1>13 DEF UsedBut
<1>16. call = NoCall /\ tasks = {InitTask} /\ slots = [t \in Tasks |-> [i \in 1 .. MaxResources |-> Empty]]
  BY DEF Init
<1>17. call.current = None /\ call.source = None /\ call.op = "none"
  BY <1>16 DEF NoCall
<1>18. Sound(fs, resources, call.current, call.source, {})
  <2>1. TreeInv(s, U)
    BY <1>1, <1>8, <1>9, <1>10, <1>11, <1>12, <1>14 DEF TreeInv
  <2> QED
    BY <1>15, <1>17, <2>1 DEF Sound, SourceInv, U, s
<1>19. SlotsInv(resources, slots, tasks)
  <2>1. IsFiniteSet(tasks) /\ tasks \subseteq Tasks /\ InitTask \in tasks
    BY <1>16, FS_Singleton, TaskAssumption
  <2>2. /\ slots \in [Tasks -> [Slots -> {Empty} \cup DOMAIN resources]]
        /\ \A t \in Tasks : \A i \in Slots : slots[t][i] = Empty
    BY <1>16 DEF Slots
  <2>3. resources \in [DOMAIN resources -> ResourceRecords]
    BY <1>4 DEF Init
  <2> QED
    BY <1>4, <2>1, <2>2, <2>3 DEF SlotsInv, FiniteResources
<1>20. CallInv
  <2>1. InitTask \in tasks /\ <<>> \in Seq(STRING)
    BY <1>16
  <2> QED
    BY <1>16, <2>1 DEF CallInv, NoCall
<1> QED
  BY <1>18, <1>19, <1>20 DEF IInv

-----------------------------------------------------------------------------
(* The theorems.                                                            *)

LEMMA NextInv == IInv /\ [Next]_vars => IInv'
<1> SUFFICES ASSUME IInv, [Next]_vars PROVE IInv'
  OBVIOUS
<1>1. CASE Open \/ Stat \/ Execve \/ Link \/ Unlink
  BY <1>1, OpenInv, StatInv, ExecveInv, LinkInv, UnlinkInv
<1>2. CASE Descend \/ GoesOnToCreate \/ ResolveFails
  BY <1>2, DescendInv, GoesOnToCreateInv, ResolveFailsInv
<1>3. CASE OpenNode \/ CreateFails \/ CreateNode \/ StatNode \/ ExecveNode
  BY <1>3, OpenNodeInv, CreateFailsInv, CreateNodeInv, StatNodeInv, ExecveNodeInv
<1>4. CASE LinkSource \/ LinkParent \/ UnlinkParent
  BY <1>4, LinkSourceInv, LinkParentInv, UnlinkParentInv
<1>5. CASE Close \/ Fork \/ Destroy \/ DestroySlot \/ Destroyed
  BY <1>5, CloseInv, ForkInv, DestroyInv, DestroySlotInv, DestroyedInv
<1>6. CASE UNCHANGED vars
  BY <1>6 DEF vars, IInv, CallInv
<1> QED
  BY <1>1, <1>2, <1>3, <1>4, <1>5, <1>6 DEF Next

\* The inductive invariant holds in every reachable state: at every step of open, stat, execve,
\* link, unlink, close, fork and the end of a task the counts of nodes, resources and links
\* agree with who refers to them.
THEOREM Invariant == Spec => []IInv
<1>1. Init => IInv
  BY InitInv
<1>2. IInv /\ [Next]_vars => IInv'
  BY NextInv
<1> QED
  BY <1>1, <1>2, PTL DEF Spec

LEMMA NothingDanglesFollows == IInv => NothingDangles
<1> SUFFICES ASSUME IInv PROVE NothingDangles
  OBVIOUS
<1>1. /\ Sound(fs, resources, call.current, call.source, {}) /\ FiniteResources(resources)
      /\ call.rest \in Seq(STRING)
      /\ call.current # None => call.current \in Addresses
      /\ call.source # None => call.source \in Addresses
  BY CallFacts
<1> DEFINE U == Users(resources, call.current, call.source)
<1>2. /\ TreeInv(fs, U) /\ NodesInv(fs) /\ InodesInv(fs) /\ EntriesInv(fs) /\ FilesInv(fs)
      /\ SourceInv(fs, call.source)
  BY <1>1 DEF Sound, TreeInv
<1>3. fs.cache = DOMAIN fs.vnodes /\ DevfsNode \in DOMAIN fs.vnodes
  BY <1>2 DEF NodesInv, Kept
<1>4. SlotsInv(resources, slots, tasks)
  BY DEF IInv
<1>5. TypeOK
  <2>1. ASSUME NEW v \in DOMAIN fs.vnodes
        PROVE  fs.vnodes[v] \in [cache_index : {Ramfs, Devfs}, index : Int, type : {"file", "dir"},
                                 mount : {None} \cup DOMAIN fs.vnodes, ref_count : Nat, lost : Nat]
    <3>1. fs.vnodes[v] \in NodeRecords
      BY <1>2, NodeFacts
    <3> QED
      BY <1>3, <3>1 DEF NodeRecords, Types
  <2>2. \A i \in DOMAIN fs.inodes : i < fs.last_index /\ fs.inodes[i].link_count \in Nat
    BY <1>2 DEF InodesInv, InodeRecords
  <2>3. \A r \in DOMAIN resources : resources[r].ref_count \in Nat
    BY <1>4 DEF SlotsInv, ResourceRecords
  <2>4. slots \in [Tasks -> [1 .. MaxResources -> {Empty} \cup DOMAIN resources]]
    BY <1>4 DEF SlotsInv, Slots
  <2>5. tasks \subseteq Tasks /\ InitTask \in tasks
    BY <1>4 DEF SlotsInv
  <2> QED
    BY <1>1, <1>3, <2>1, <2>2, <2>3, <2>4, <2>5 DEF TypeOK
<1>6. \A r \in DOMAIN resources : resources[r].node \in fs.cache
  <2> SUFFICES ASSUME NEW r \in DOMAIN resources PROVE resources[r].node \in DOMAIN fs.vnodes
    BY <1>3
  <2>1. resources[r].node \in Addresses
    BY <1>4 DEF SlotsInv, ResourceRecords
  <2>2. U[resources[r].node] > 0
    BY <1>1, <2>1, OpenedRemoved
  <2> HIDE DEF U
  <2> QED
    BY <1>2, <2>1, <2>2, UserKeeps
<1>7. \A v \in fs.cache : fs.vnodes[v].mount \in {None} \cup fs.cache
  BY <1>2, <1>3, NodeFacts
<1>8. {call.current, call.source} \subseteq {None} \cup fs.cache
  <2>1. call.current # None => call.current \in DOMAIN fs.vnodes
    BY <1>1, CurrentIsThere
  <2>2. call.source # None => call.source \in DOMAIN fs.vnodes
    BY <1>2 DEF SourceInv
  <2> QED
    BY <1>3, <2>1, <2>2
<1>9. \A v \in DOMAIN fs.vnodes : IsRamfs(fs, v) => fs.vnodes[v].index \in DOMAIN fs.inodes
  BY <1>2 DEF FilesInv, IsRamfs
<1>10. \A e \in DOMAIN fs.entries : {e[1], fs.entries[e]} \subseteq DOMAIN fs.inodes
  BY <1>2 DEF EntriesInv
<1> QED
  BY <1>5, <1>6, <1>7, <1>8, <1>9, <1>10 DEF NothingDangles

\* Nothing in use has been freed: vfs_release_node, ramfs_release and ramfs_unlink free a node
\* or a file only when no descriptor, mount, walk, node or name leads to it.
THEOREM NothingInUseIsFreed == Spec => []NothingDangles
BY Invariant, NothingDanglesFollows, PTL

LEMMA OneNodePerFileFollows == IInv => OneNodePerFile
<1> SUFFICES ASSUME IInv, NEW v \in DOMAIN fs.vnodes, NEW w \in DOMAIN fs.vnodes,
                    fs.vnodes[v].cache_index = fs.vnodes[w].cache_index,
                    fs.vnodes[v].index = fs.vnodes[w].index
             PROVE  v = w
  BY DEF OneNodePerFile
<1>1. NodesInv(fs)
  BY DEF IInv, Sound, TreeInv
<1> QED
  BY <1>1, NodeFacts

\* vfs_cache_query_node and vfs_cache_put keep a file to one node, however often and along
\* whichever link it is opened.
THEOREM FilesHaveOneNode == Spec => []OneNodePerFile
BY Invariant, OneNodePerFileFollows, PTL

\* The kernel's own references: the root, and both ends of the mount.
LEMMA KeptCounted ==
    ASSUME NEW s, NodesInv(s), NEW v \in DOMAIN s.vnodes
    PROVE  One(v = Root) + One(s.vnodes[v].mount # None) + One(\E w \in DOMAIN s.vnodes : s.vnodes[w].mount = v)
             = One(v \in Kept)
<1>1. v \in Addresses /\ DevDirectory \in DOMAIN s.vnodes /\ v # None /\ DevfsNode # None
  BY NodeFacts, NoneIsNoAddress, RootIsAddress DEF NodesInv, Kept
<1>2. s.vnodes[v].mount # None <=> v = DevDirectory
  BY <1>1, NodeFacts
<1>3. (\E w \in DOMAIN s.vnodes : s.vnodes[w].mount = v) <=> v = DevfsNode
  BY <1>1, NodeFacts
<1>4. v \in Kept <=> v = Root \/ v = DevDirectory \/ v = DevfsNode
  BY DEF Kept
<1> DEFINE mounted == \E w \in DOMAIN s.vnodes : s.vnodes[w].mount = v
           mounts == s.vnodes[v].mount # None
<1> HIDE DEF mounted, mounts
<1>5. mounted <=> v = DevfsNode
  BY <1>3 DEF mounted
<1>6. mounts <=> v = DevDirectory
  BY <1>2 DEF mounts
<1>7. One(v = Root) + One(mounts) + One(mounted) = One(v \in Kept)
  BY <1>4, <1>5, <1>6, KeptDiffer DEF One
<1> QED
  BY <1>7 DEF mounted, mounts

LEMMA CountsAreExactFollows == IInv => CountsAreExact
<1> SUFFICES ASSUME IInv PROVE CountsAreExact
  OBVIOUS
<1>1. /\ Sound(fs, resources, call.current, call.source, {}) /\ FiniteResources(resources)
      /\ SlotsInv(resources, slots, tasks)
  BY CallFacts DEF IInv
<1> DEFINE U == Users(resources, call.current, call.source)
           mounted(v) == \E w \in DOMAIN fs.vnodes : fs.vnodes[w].mount = v
           users(v) == Cardinality({r \in DOMAIN resources : resources[r].node = v})
                       + One(v = Root) + One(fs.vnodes[v].mount # None)
                       + One(\E w \in DOMAIN fs.vnodes : fs.vnodes[w].mount = v)
                       + One(call.current = v) + One(call.source = v)
<1>2. NodesInv(fs) /\ CountsInv(fs, U) /\ UsedBut(fs, U, {})
  BY <1>1 DEF Sound, TreeInv
<1>3. ASSUME NEW v \in DOMAIN fs.vnodes
      PROVE  /\ fs.vnodes[v].ref_count = 1 + users(v) + fs.vnodes[v].lost
             /\ users(v) + fs.vnodes[v].lost > 0
  <2> DEFINE a == One(v = Root)
             b == One(fs.vnodes[v].mount # None)
             c == One(mounted(v))
             d == One(call.current = v)
             e == One(call.source = v)
             o == Opened(resources, v)
  <2>1. a + b + c = One(v \in Kept)
    BY <1>2, KeptCounted
  <2>2. a \in {0, 1} /\ b \in {0, 1} /\ c \in {0, 1} /\ d \in {0, 1} /\ e \in {0, 1}
    BY DEF One
  <2>3. U[v] = o + d + e
    BY <1>1, <1>2, NodeFacts, UsersType
  <2>4. o \in Nat
    BY <1>1, OpenedIsNumber
  <2>5. users(v) = o + a + b + c + d + e
    BY DEF Opened
  <2>6. fs.vnodes[v].lost \in Nat /\ One(v \in Kept) \in {0, 1}
    BY <1>2, NodeNumbers
  <2>7. fs.vnodes[v].ref_count = 1 + One(v \in Kept) + U[v] + fs.vnodes[v].lost
    BY <1>2 DEF CountsInv
  <2>8. One(v \in Kept) + U[v] + fs.vnodes[v].lost > 0
    BY <1>2 DEF UsedBut
  <2> HIDE DEF a, b, c, d, e, o, users, U
  <2>9. users(v) = One(v \in Kept) + U[v] /\ users(v) \in Nat /\ U[v] \in Nat
    BY <2>1, <2>2, <2>3, <2>4, <2>5, <2>6
  <2> QED
    BY <2>6, <2>7, <2>8, <2>9
<1>4. ASSUME NEW r \in DOMAIN resources
      PROVE  /\ resources[r].ref_count = Cardinality({p \in Tasks \X (1 .. MaxResources) : slots[p[1]][p[2]] = r})
             /\ resources[r].ref_count > 0
  <2>1. resources[r].ref_count = Cardinality(Holders(slots, r)) /\ resources[r] \in ResourceRecords
    BY <1>1 DEF SlotsInv
  <2> QED
    BY <2>1 DEF Holders, Slots, ResourceRecords
<1> QED
  BY <1>3, <1>4 DEF CountsAreExact

\* ref_count of a node is the number of those who refer to it and the locks that the code loses,
\* and ref_count of a resource the number of descriptors; nothing unused stays in the cache.
THEOREM ReferencesAreCounted == Spec => []CountsAreExact
BY Invariant, CountsAreExactFollows, PTL

LEMMA LinksAreExactFollows == IInv => LinksAreExact
<1> SUFFICES ASSUME IInv, NEW i \in DOMAIN fs.inodes \ fs.unplaced
             PROVE  /\ fs.inodes[i].link_count = Cardinality({e \in DOMAIN fs.entries : fs.entries[e] = i})
                    /\ fs.inodes[i].link_count = 0 => Cached(fs, Ramfs, i) # {}
  BY DEF LinksAreExact
<1>1. NodesInv(fs) /\ LinksInv(fs)
  BY DEF IInv, Sound, TreeInv
<1>2. /\ fs.inodes[i].link_count = Cardinality(Names(fs.entries, i))
      /\ fs.inodes[i].link_count = 0 => Address(Ramfs, i) \in DOMAIN fs.vnodes
  BY <1>1 DEF LinksInv
<1>3. Cached(fs, Ramfs, i) = {Address(Ramfs, i)} \cap DOMAIN fs.vnodes
  BY <1>1, CachedIsAddress
<1> QED
  BY <1>2, <1>3 DEF Names

\* link_count of a file is the number of its names through ramfs_create, ramfs_link and
\* ramfs_unlink, and a file without a name goes when its node goes.
THEOREM NamesAreCounted == Spec => []LinksAreExact
BY Invariant, LinksAreExactFollows, PTL
=============================================================================
