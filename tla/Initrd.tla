------------------------------- MODULE Initrd -------------------------------
(***************************************************************************)
(* Boot: the archive that the boot loader left in physical memory is copied *)
(* to the kernel heap, page by page, and its entries are made into the tree *)
(* of ramfs.  The archive is chosen as it is read: each header is any entry *)
(* that an archive of distinct paths may have there.  A path is a sequence  *)
(* of names; a byte of memory is known by its physical address.             *)
(***************************************************************************)
EXTENDS Integers, Sequences, SequencesExt

CONSTANTS
    Names,                    \* names of files and directories
    Sizes,                    \* sizes of files, in bytes
    PAGE_SIZE,
    TAR_BLOCK_SIZE,
    RAMFS_NODE_MAX_CHILDREN,
    MaxDepth,                 \* bound: names in a path
    ModStarts,                \* bound: where the module may start
    TarSizes,                 \* bound: sizes of archives, in blocks
    MaxDenied                 \* bound: allocations the kernel heap denies

ASSUME ArchiveAssumption ==
    /\ {PAGE_SIZE, TAR_BLOCK_SIZE, RAMFS_NODE_MAX_CHILDREN, MaxDepth}
          \subseteq Nat \ {0}
    /\ Sizes \cup ModStarts \cup TarSizes \cup {MaxDenied} \subseteq Nat

VARIABLES
    mod_start, mod_end,       \* the module in physical memory
    page, tar_data,           \* the copy: next page, and the bytes so far (copied = Len)
    ptr,                      \* offset of the header to be read next
    archive,                  \* the entries read so far
    nodes,                    \* id -> ramfs_node_t, in the order of creation
    denied,                   \* history: how often kernel_heap_malloc answered NULL
    dropped,                  \* history: entries not entered under their whole path
    pc

vars == <<mod_start, mod_end, page, tar_data, ptr, archive, nodes, denied, dropped, pc>>

Root == 1
NoNode == 0
Paths == UNION {[1 .. n -> Names] : n \in 1 .. MaxDepth}
ALIGN_DOWN(address) == address - (address % PAGE_SIZE)
tar_size == mod_end - mod_start

Node(type, data_size) ==
    [type |-> type, children |-> <<>>, data |-> <<>>, data_size |-> data_size,
     link_count |-> 1]

RootSize == 9  \* what tar_create_ramfs_node gives "/" for a size, without any data

Init ==
    /\ mod_start \in ModStarts
    /\ \E blocks \in TarSizes : mod_end = mod_start + blocks * TAR_BLOCK_SIZE
    /\ page = ALIGN_DOWN(mod_start)
    /\ tar_data = <<>>
    /\ ptr = 0
    /\ archive = <<>>
    /\ nodes = <<>>
    /\ denied = 0
    /\ dropped = {}
    /\ pc = "start"

\* What kernel_heap_malloc may answer.
Denied(answer) == answer = "NULL" /\ denied < MaxDenied
Granted(answer) == answer = "block"

\* Room for the copy.  NULL is not tested for: the copy goes to address 0.
AllocateCopy(answer) ==
    /\ pc = "start"
    /\ \/ Granted(answer) /\ pc' = "copy" /\ UNCHANGED denied
       \/ Denied(answer) /\ pc' = "undefined" /\ denied' = denied + 1
    /\ UNCHANGED <<mod_start, mod_end, page, tar_data, ptr, archive, nodes, dropped>>

\* The part of a page that belongs to the module.
Chunk ==
    [first |-> IF page < mod_start THEN mod_start ELSE page,
     last  |-> (IF page + PAGE_SIZE > mod_end THEN mod_end ELSE page + PAGE_SIZE) - 1]

\* Giving the page back is in MemoryBitmap.
ramfs_driver_init ==
    /\ pc = "copy"
    /\ page < mod_end
    /\ tar_data' = tar_data \o [i \in 1 .. Chunk.last - Chunk.first + 1 |-> Chunk.first + i - 1]
    /\ page' = page + PAGE_SIZE
    /\ UNCHANGED <<mod_start, mod_end, ptr, archive, nodes, denied, dropped, pc>>

\* The root comes first.  Without memory for it there is no root node at all.
CreateRoot(answer) ==
    /\ pc = "copy"
    /\ page >= mod_end
    /\ \/ /\ Granted(answer)
          /\ nodes' = <<Node("directory", RootSize)>>
          /\ pc' = "unpack"
          /\ UNCHANGED denied
       \/ Denied(answer) /\ pc' = "undefined" /\ denied' = denied + 1 /\ UNCHANGED nodes
    /\ UNCHANGED <<mod_start, mod_end, page, tar_data, ptr, archive, dropped>>

-----------------------------------------------------------------------------
(* The tree.  A walk along a path is a record: the nodes it has changed, the *)
(* node it has come to (NoNode: there was no memory for it), whether that    *)
(* one, and whether all on the way, are in the lists of their directories,   *)
(* and how many allocations it has asked for.  no says which are denied.     *)

ramfs_find_child(n, parent, name) ==
    LET found == SelectSeq(n[parent].children, LAMBDA entry : entry.name = name)
    IN IF found = <<>> THEN NoNode ELSE Head(found).node

ramfs_add_child(n, parent, name, child) ==
    [n EXCEPT ![parent].children = Append(@, [name |-> name, node |-> child])]

Full(n, parent) == Len(n[parent].children) >= RAMFS_NODE_MAX_CHILDREN

AtRoot == [nodes |-> nodes, node |-> Root, linked |-> TRUE, whole |-> TRUE, asked |-> 0]

\* A new node.  It is not linked when the directory is full, or when there is no
\* memory for the copy of its name.
Create(walk, name, type, no) ==
    LET made == Append(walk.nodes, Node(type, 0))
        full == Full(made, walk.node)
        link == ~full /\ walk.asked + 2 \notin no
    IN [nodes  |-> IF link THEN ramfs_add_child(made, walk.node, name, Len(made)) ELSE made,
        node   |-> Len(made),
        linked |-> link,
        whole  |-> walk.whole /\ link,
        asked  |-> walk.asked + IF full THEN 1 ELSE 2]

\* Find a child or make it.
FindOrCreate(walk, name, type, no) ==
    LET old == ramfs_find_child(walk.nodes, walk.node, name)
    IN CASE old # NoNode -> [walk EXCEPT !.node = old, !.linked = TRUE]
         [] old = NoNode /\ walk.asked + 1 \in no ->
              [walk EXCEPT !.node = NoNode, !.linked = FALSE, !.whole = FALSE, !.asked = @ + 1]
         [] OTHER -> Create(walk, name, type, no)

\* Along the directories of a path.  Whether a new one is linked is not looked at.
ramfs_get_or_create_directory(path, no) ==
    LET Enter(walk, name) ==
            IF walk.node = NoNode THEN walk ELSE FindOrCreate(walk, name, "directory", no)
    IN FoldLeft(Enter, AtRoot, path)

ramfs_create_path(path, type, no) ==
    LET parent == ramfs_get_or_create_directory(Front(path), no)
    IN IF parent.node = NoNode THEN parent
       ELSE FindOrCreate(parent, Last(path), type, no)

\* The allocations an entry asks for, two for each name and one for its data.
Denials == {no \in SUBSET (1 .. 2 * MaxDepth + 1) : Cardinality(no) <= MaxDenied - denied}

-----------------------------------------------------------------------------
(* The archive.                                                             *)

PathsRead == {archive[i].path : i \in DOMAIN archive}

\* The header at ptr: distinct paths, below directories, and the archive ends with
\* a block of zeroes.
CanFollow(entry) ==
    /\ ptr + 2 * TAR_BLOCK_SIZE + entry.size <= tar_size
    /\ entry.path \notin PathsRead
    /\ \A i \in DOMAIN archive :
         /\ IsPrefix(archive[i].path, entry.path) => archive[i].type = "directory"
         /\ IsPrefix(entry.path, archive[i].path) => entry.type = "directory"

BlocksRoundedDown(size) == size \div TAR_BLOCK_SIZE  \* mutant

Blocks(size) == (size + TAR_BLOCK_SIZE - 1) \div TAR_BLOCK_SIZE

Advanced(size) == ptr + TAR_BLOCK_SIZE + Blocks(size) * TAR_BLOCK_SIZE

\* The bytes after the header at ptr.
Data(size) == [i \in 1 .. size |-> tar_data[ptr + TAR_BLOCK_SIZE + i]]

\* An entry with the path "/" or ".": it is passed over.
RootEntry ==
    LET entry == [path |-> <<>>, type |-> "directory", size |-> 0]
    IN /\ pc = "unpack"
       /\ CanFollow(entry)
       /\ archive' = Append(archive, entry)
       /\ ptr' = Advanced(0)
       /\ UNCHANGED <<mod_start, mod_end, page, tar_data, nodes, denied, dropped, pc>>

\* What is left of the path and its result when an entry is done with.
Entered(entry, whole, asked, no) ==
    /\ no \subseteq 1 .. asked
    /\ archive' = Append(archive, entry)
    /\ ptr' = Advanced(entry.size)
    /\ denied' = denied + Cardinality(no)
    /\ dropped' = IF whole THEN dropped ELSE dropped \cup {entry.path}
    /\ UNCHANGED <<mod_start, mod_end, page, tar_data>>

\* The result is not looked at.
DirectoryEntry(path, no) ==
    LET entry == [path |-> path, type |-> "directory", size |-> 0]
        made  == ramfs_create_path(path, "directory", no)
    IN /\ pc = "unpack"
       /\ CanFollow(entry)
       /\ nodes' = made.nodes
       /\ Entered(entry, made.whole, made.asked, no)
       /\ UNCHANGED pc

\* When the path cannot be made the node is an uninitialised pointer, written through.
\* Without memory for its bytes they go to address 0.
FileEntry(path, size, no) ==
    LET entry  == [path |-> path, type |-> "file", size |-> size]
        made   == ramfs_create_path(path, "file", no)
        asked  == made.asked + IF made.linked /\ size > 0 THEN 1 ELSE 0
        stored == made.linked /\ (size = 0 \/ asked \notin no)
    IN /\ pc = "unpack"
       /\ CanFollow(entry)
       /\ IF stored
          THEN /\ nodes' = [made.nodes EXCEPT ![made.node].data = Data(size),
                                              ![made.node].data_size = size]
               /\ UNCHANGED pc
          ELSE nodes' = made.nodes /\ pc' = "undefined"
       /\ Entered(entry, made.whole /\ stored, asked, no)

\* A block of zeroes, or no whole block is left.
Finish ==
    /\ pc = "unpack"
    /\ pc' = "done"
    /\ UNCHANGED <<mod_start, mod_end, page, tar_data, ptr, archive, nodes, denied, dropped>>

Next ==
    \/ ramfs_driver_init
    \/ \E answer \in {"block", "NULL"} : AllocateCopy(answer) \/ CreateRoot(answer)
    \/ RootEntry
    \/ \E path \in Paths, no \in Denials :
           DirectoryEntry(path, no) \/ \E size \in Sizes : FileEntry(path, size, no)
    \/ Finish

Spec == Init /\ [][Next]_vars

\* Names are only compared: for TLC.
NameSymmetry == Permutations(Names)

-----------------------------------------------------------------------------
(* Properties.                                                              *)

TypeOK ==
    /\ tar_data \in Seq(mod_start .. mod_end - 1)
    /\ ptr \in 0 .. tar_size
    /\ \A id \in DOMAIN nodes :
         /\ nodes[id].type \in {"file", "directory"}
         /\ \A i \in DOMAIN nodes[id].children :
              nodes[id].children[i] \in [name : Names, node : DOMAIN nodes]
    /\ denied \in 0 .. MaxDenied
    /\ dropped \subseteq PathsRead
    /\ pc \in {"start", "copy", "unpack", "done", "undefined"}

\* Where a path leads from the root, by the links of the finished tree.
NodeAt(path) ==
    LET walk[i \in 0 .. Len(path)] ==
            IF i = 0 THEN Root
            ELSE IF walk[i - 1] = NoNode THEN NoNode
            ELSE ramfs_find_child(nodes, walk[i - 1], path[i])
    IN walk[Len(path)]

\* The reference: where the archive has the header of its i-th entry, each at the
\* first whole block behind the bytes of the one before, and the bytes of a file.
Position(i) ==
    LET at[k \in 1 .. i] ==
            IF k = 1 THEN 0
            ELSE Min({p \in 0 .. tar_size : /\ p % TAR_BLOCK_SIZE = 0
                                            /\ p >= at[k - 1] + TAR_BLOCK_SIZE + archive[k - 1].size})
    IN at[i]

Contents(i) ==
    [k \in 1 .. archive[i].size |-> mod_start + Position(i) + TAR_BLOCK_SIZE + k - 1]

Links(id) ==
    {<<parent, i>> \in (DOMAIN nodes) \X (1 .. RAMFS_NODE_MAX_CHILDREN) :
        i \in DOMAIN nodes[parent].children /\ nodes[parent].children[i].node = id}

\* Nodes the code has made and then lost: their directory was full, or there was no
\* memory for their name.  get_or_create_directory goes on in them (ramfs.c 289-297).
Unlinked == {id \in DOMAIN nodes \ {Root} : Links(id) = {}}

\* The tree is the archive: every entry is found under its path with its type, its size
\* and its bytes, every other path is a directory on the way to one, and no node is in
\* two directories.  It holds for modules at any place of a page, files that do not fill
\* a block, and directories that come before, after or without their contents.  Excepted
\* are the size of the root, which is 9 (ustar.c:31), and the entries for which a
\* directory was full or the kernel heap gave nothing; only those get lost, with the
\* nodes made for them, and only they lead to a write through a bad pointer.
TreeIsArchive ==
    /\ TypeOK
    /\ \A id \in DOMAIN nodes : Cardinality(Links(id)) <= nodes[id].link_count
    /\ Unlinked # {} => dropped # {}
    /\ dropped # {} => denied > 0 \/ \E id \in DOMAIN nodes : Full(nodes, id)
    /\ pc = "undefined" /\ archive # <<>> => Last(archive).path \in dropped
    /\ pc = "undefined" /\ archive = <<>> => denied > 0
    /\ pc = "done" =>
         /\ \A i \in DOMAIN archive :
              LET id == NodeAt(archive[i].path)
              IN archive[i].path \notin dropped =>
                   /\ id # NoNode
                   /\ nodes[id].type = archive[i].type
                   /\ nodes[id].data = Contents(i)
                   /\ id # Root => nodes[id].data_size = archive[i].size
         /\ \A path \in Paths :
              NodeAt(path) # NoNode => \E other \in PathsRead : IsPrefix(path, other)

=============================================================================
