--------------------------------- MODULE Vfs ---------------------------------
(***************************************************************************)
(* Open files: the descriptors of the tasks (src/resource.c), the cache of  *)
(* reference counted nodes and the walk along a path (src/vfs.c), and the   *)
(* directories, files and links below them (src/fs/ramfs.c, devfs.c).       *)
(*                                                                         *)
(* A path is the sequence of its names.  The kernel is not preempted, so    *)
(* there is one call in progress; a step is one turn of the loop of         *)
(* vfs_resolve, or what a call does with the node it has found.             *)
(* Contents and offsets of files are left out.                              *)
(***************************************************************************)
EXTENDS Integers, Sequences, FiniteSets

CONSTANTS
    Tasks, InitTask,    \* init is never destroyed
    MaxResources,       \* TASK_MAX_RESOURCES
    Devices,            \* the names of devfs_entries, in order
    Paths,              \* the paths that are used
    MaxChildren,        \* RAMFS_NODE_MAX_CHILDREN
    MaxInodes,          \* bound: how many ramfs nodes are ever created
    MaxLost             \* bound: how many locks are lost before no further path is walked

ASSUME TaskAssumption == InitTask \in Tasks
ASSUME PathAssumption == Devices \in Seq(STRING) /\ \A path \in Paths : path \in Seq(STRING)
ASSUME LimitAssumption ==
    MaxResources \in Nat \ {0} /\ MaxChildren \in Nat /\ MaxInodes \in Nat /\ MaxLost \in Nat

Ramfs == 0          \* the two values of cache_index
Devfs == 1
DevfsRoot == -1     \* the index of devfs_root

\* Addresses of nodes.  Which one the heap gives does not matter: it is named after what the
\* node is first used for, with a number because a second such node may be created.
None == <<>>
Root == <<Ramfs, 0, 1>>

VARIABLES
    fs,         \* nodes, cache and the tree of ramfs: one call changes them many times
    resources,  \* the open resources: their node and ref_count
    slots,      \* task->resources
    tasks,      \* the tasks that exist
    call        \* the call in progress

vars == <<fs, resources, slots, tasks, call>>

Empty == 0  \* a slot without a resource

NoCall == [op |-> "none", task |-> InitTask, create |-> FALSE, stage |-> "node",
           path |-> <<>>, rest |-> <<>>, current |-> None, source |-> None]

\* "lost" is no variable of the code: it counts the locks that no path will release again.  So
\* is "unplaced" below: the ramfs nodes that are in no directory though their link_count is 1.
Node(cache_index, index, type, mount, ref_count, lost) ==
    [cache_index |-> cache_index, index |-> index, type |-> type, mount |-> mount,
     ref_count |-> ref_count, lost |-> lost]

DevDirectory == <<Ramfs, 3, 1>>
DevfsNode    == <<Devfs, DevfsRoot, 1>>

\* After ramfs_driver_init, vfs_module_init and devfs_module_init.  The initrd has no /dev: the
\* failed vfs_resolve has lost a lock of the root.
Init ==
    /\ fs = [vnodes |-> [v \in {Root, DevDirectory, DevfsNode} |->
                            CASE v = Root         -> Node(Ramfs, 0, "dir", None, 3, 1)
                              [] v = DevDirectory -> Node(Ramfs, 3, "dir", DevfsNode, 2, 0)
                              [] v = DevfsNode    -> Node(Devfs, DevfsRoot, "dir", None, 2, 0)],
             cache |-> {Root, DevDirectory, DevfsNode},
             inodes |-> [i \in 0 .. 3 |-> [type |-> IF i = 2 THEN "file" ELSE "dir", link_count |-> 1]],
             entries |-> [e \in {<<0, "bin">>, <<1, "init.elf">>, <<0, "dev">>} |->
                             CASE e[2] = "bin" -> 1 [] e[2] = "init.elf" -> 2 [] OTHER -> 3],
             last_index |-> 4,
             unplaced |-> {0}]
    /\ resources = [r \in {} |-> r]
    /\ slots = [t \in Tasks |-> [i \in 1 .. MaxResources |-> Empty]]
    /\ tasks = {InitTask}
    /\ call = NoCall

Without(f, x)   == [y \in DOMAIN f \ {x} |-> f[y]]
With(f, x, val) == [y \in DOMAIN f \cup {x} |-> IF y = x THEN val ELSE f[y]]
Fresh(f)        == CHOOSE n \in 1 .. Cardinality(DOMAIN f) + 1 : n \notin DOMAIN f

\* The address kernel_heap_calloc gives to a new node.
NewNode(s, cache_index, index) ==
    LET copies == {v \in DOMAIN s.vnodes : v[1] = cache_index /\ v[2] = index}
    IN  <<cache_index, index, CHOOSE n \in 1 .. Cardinality(copies) + 1 :
                                 <<cache_index, index, n>> \notin copies>>

-----------------------------------------------------------------------------
(***************************************************************************)
(* Nodes: vfs_lock_node, vfs_release_node, vfs_create_node and the cache.   *)
(***************************************************************************)
Cached(s, cache_index, index) ==
    {v \in s.cache : s.vnodes[v].cache_index = cache_index /\ s.vnodes[v].index = index}

Locked(s, v) == [s EXCEPT !.vnodes[v].ref_count = @ + 1]

\* The code returns and keeps a lock of v that nobody will give back.
Lost(s, v) == [s EXCEPT !.vnodes[v].lost = @ + 1]

\* ramfs_release: a file without a name goes with its node; devices have no release.
RamfsReleased(s, v) ==
    IF s.vnodes[v].cache_index = Ramfs /\ s.inodes[s.vnodes[v].index].link_count = 0
    THEN [s EXCEPT !.inodes = Without(@, s.vnodes[v].index)] ELSE s

\* vfs_cache_try_evict acts when only the cache's own reference is left.
Unused(s, v) == s.vnodes[v].ref_count = 1

Evicted(s, v) ==
    [RamfsReleased(s, v) EXCEPT
        !.cache = @ \ Cached(s, s.vnodes[v].cache_index, s.vnodes[v].index),
        !.vnodes = Without(@, v)]

Released(s, v) ==
    LET one_less == [s EXCEPT !.vnodes[v].ref_count = @ - 1]
    IN  IF Unused(one_less, v) THEN Evicted(one_less, v) ELSE one_less

\* vfs_create_node with vfs_cache_put, which refuses a node that is present already.
CreatedNode(s, cache_index, index, type) ==
    LET present == Cached(s, cache_index, index) # {}
        v       == NewNode(s, cache_index, index)
        node    == Node(cache_index, index, type, None, IF present THEN 0 ELSE 1, 0)
    IN  [s EXCEPT !.vnodes = With(@, v, node), !.cache = IF present THEN @ ELSE @ \cup {v}]

KnownNever(s, cache_index, index) == FALSE  \* mutant: the cache is not asked

\* vfs_cache_query_node finds the node.
Known(s, cache_index, index) == Cached(s, cache_index, index) # {}

NodeFor(s, cache_index, index) ==
    IF Known(s, cache_index, index) THEN CHOOSE v \in Cached(s, cache_index, index) : TRUE
    ELSE NewNode(s, cache_index, index)

WithNode(s, cache_index, index, type) ==
    IF Known(s, cache_index, index) THEN s ELSE CreatedNode(s, cache_index, index, type)

-----------------------------------------------------------------------------
(***************************************************************************)
(* Directories: ramfs_lookup, devfs_lookup, ramfs_add_child.                *)
(***************************************************************************)
IsRamfs(s, v) == s.vnodes[v].cache_index = Ramfs

\* Every ramfs node has a lookup, files too; of devfs only the root has one.
HasLookup(s, v) == IsRamfs(s, v) \/ s.vnodes[v].index = DevfsRoot

\* The index the name stands for in directory v: a set of at most one.
Found(s, v, name) ==
    IF IsRamfs(s, v)
    THEN {s.entries[e] : e \in {<<s.vnodes[v].index, name>>} \cap DOMAIN s.entries}
    ELSE {i \in DOMAIN Devices : Devices[i] = name}

Full(s, v) == Cardinality({e \in DOMAIN s.entries : e[1] = s.vnodes[v].index}) >= MaxChildren

Added(s, v, name, i) == [s EXCEPT !.entries = With(@, <<s.vnodes[v].index, name>>, i)]

\* create, link and unlink are operations of ramfs nodes.
IsRamfsDirectory(s, v) == s.vnodes[v].type = "dir" /\ IsRamfs(s, v)

-----------------------------------------------------------------------------
(***************************************************************************)
(* The calls begin: each locks the root for vfs_resolve.                    *)
(***************************************************************************)
Front(path) == SubSeq(path, 1, Len(path) - 1)
Last(path)  == path[Len(path)]

Resolve(stage, rest, request) ==
    [request EXCEPT !.stage = stage, !.rest = rest, !.current = Root]

LostLocks == UNION {{v} \X (1 .. fs.vnodes[v].lost) : v \in DOMAIN fs.vnodes}

Begin(request) ==
    /\ call.op = "none"
    /\ Cardinality(LostLocks) < MaxLost
    /\ call' = request
    /\ fs' = Locked(fs, Root)
    /\ UNCHANGED <<resources, slots, tasks>>

Open ==
    \E t \in tasks, path \in Paths, create \in BOOLEAN :
        /\ create => fs.last_index < MaxInodes
        /\ Begin(Resolve("node", path, [NoCall EXCEPT !.op = "open", !.task = t,
                                                      !.create = create, !.path = path]))

Stat == \E path \in Paths : Begin(Resolve("node", path, [NoCall EXCEPT !.op = "stat"]))

Execve == \E path \in Paths : Begin(Resolve("node", path, [NoCall EXCEPT !.op = "execve"]))

Link ==
    \E old_path, new_path \in Paths :
        Begin(Resolve("node", old_path, [NoCall EXCEPT !.op = "link", !.path = new_path]))

\* Without a last name the call fails at once.
Unlink ==
    \E path \in Paths \ {<<>>} :
        Begin(Resolve("parent", Front(path), [NoCall EXCEPT !.op = "unlink", !.path = path]))

-----------------------------------------------------------------------------
(***************************************************************************)
(* vfs_resolve.                                                             *)
(***************************************************************************)
\* The walk goes on in the directory mounted on the current one, whose lock it keeps.
Directory == IF fs.vnodes[call.current].mount # None THEN fs.vnodes[call.current].mount ELSE call.current
Entered   == IF Directory # call.current THEN Locked(Lost(fs, call.current), Directory) ELSE fs

Resolving == call.op \notin {"none", "destroy"} /\ call.rest # <<>>

SteppedUnlocked(s, next, directory) == Released(s, directory)  \* mutant

\* The next node is locked before the directory is released.
Stepped(s, next, directory) == Released(Locked(s, next), directory)

Descend ==
    /\ Resolving /\ HasLookup(Entered, Directory)
    /\ \E i \in Found(Entered, Directory, Head(call.rest)) :
          LET cache_index == fs.vnodes[Directory].cache_index
              type == IF cache_index = Ramfs THEN fs.inodes[i].type ELSE "file"
              next == NodeFor(Entered, cache_index, i)
          IN  /\ fs' = Stepped(WithNode(Entered, cache_index, i, type), next, Directory)
              /\ call' = [call EXCEPT !.current = next, !.rest = Tail(@)]
    /\ UNCHANGED <<resources, slots, tasks>>

NotFound == Resolving /\ HasLookup(Entered, Directory) /\ Found(Entered, Directory, Head(call.rest)) = {}

MayCreate == call.op = "open" /\ call.create /\ call.stage = "node"

\* vfs_open goes on with vfs_create, which resolves the parent; the lock is kept.
GoesOnToCreate ==
    /\ NotFound /\ MayCreate
    /\ fs' = Locked(Lost(Entered, Directory), Root)
    /\ call' = Resolve("parent", Front(call.path), call)
    /\ UNCHANGED <<resources, slots, tasks>>

\* The call fails, with the lock kept; vfs_link gives its source back.
ResolveFails ==
    /\ Resolving
    /\ NotFound => ~MayCreate
    /\ NotFound \/ ~HasLookup(Entered, Directory)
    /\ fs' = IF call.source # None THEN Released(Lost(Entered, Directory), call.source)
             ELSE Lost(Entered, Directory)
    /\ call' = NoCall
    /\ UNCHANGED <<resources, slots, tasks>>

-----------------------------------------------------------------------------
(***************************************************************************)
(* What the calls do with the node they have resolved.                      *)
(***************************************************************************)
Resolved(op, stage) == call.op = op /\ call.stage = stage /\ call.rest = <<>>

FreeSlots == {i \in 1 .. MaxResources : slots[call.task][i] = Empty}

\* The end of vfs_open, with node v locked: resource_register, unless v is a directory or no
\* slot is free; then the lock is kept.
Registered(s, v) ==
    IF s.vnodes[v].type = "file" /\ FreeSlots # {}
    THEN /\ fs' = s
         /\ resources' = With(resources, Fresh(resources), [node |-> v, ref_count |-> 1])
         /\ slots' = [slots EXCEPT ![call.task][CHOOSE i \in FreeSlots : \A j \in FreeSlots : i <= j]
                                       = Fresh(resources)]
    ELSE fs' = Lost(s, v) /\ UNCHANGED <<resources, slots>>

OpenNode ==
    /\ Resolved("open", "node")
    /\ Registered(fs, call.current)
    /\ call' = NoCall
    /\ UNCHANGED tasks

\* ramfs_create makes a file, also when the directory turns out to be full.
CreatedInode(s) ==
    [s EXCEPT !.inodes = With(@, s.last_index, [type |-> "file", link_count |-> 1]),
              !.last_index = @ + 1]

\* vfs_create in a parent that is no ramfs directory, or that is full.
CreateFails ==
    /\ Resolved("open", "parent")
    /\ \/ /\ ~IsRamfsDirectory(fs, call.current)
          /\ fs' = Released(fs, call.current)
       \/ /\ IsRamfsDirectory(fs, call.current) /\ Full(fs, call.current)
          /\ Found(fs, call.current, Last(call.path)) = {}
          /\ fs' = Released([CreatedInode(fs) EXCEPT !.unplaced = @ \cup {fs.last_index}], call.current)
    /\ call' = NoCall
    /\ UNCHANGED <<resources, slots, tasks>>

\* vfs_create of a new file, and of one that is in the directory though the walk did not find
\* it: the parent of /dev/x is the directory that devfs covers.
CreateNode ==
    LET name     == Last(call.path)
        existing == Found(fs, call.current, name)
        i        == IF existing = {} THEN fs.last_index ELSE CHOOSE e \in existing : TRUE
        s        == IF existing = {} THEN Added(CreatedInode(fs), call.current, name, i) ELSE fs
        v        == NodeFor(s, Ramfs, i)
    IN  /\ Resolved("open", "parent") /\ IsRamfsDirectory(fs, call.current)
        /\ existing = {} => ~Full(fs, call.current)
        /\ Registered(Locked(Released(WithNode(s, Ramfs, i, s.inodes[i].type), call.current), v), v)
        /\ call' = NoCall
        /\ UNCHANGED tasks

StatNode ==
    /\ Resolved("stat", "node")
    /\ fs' = Released(fs, call.current)
    /\ call' = NoCall
    /\ UNCHANGED <<resources, slots, tasks>>

\* elf_load_into_task: every failure but that of a new page directory releases the node,
\* success keeps it.  A file may be a program or not; a device and a directory are none.
ExecveNode ==
    /\ Resolved("execve", "node")
    /\ \/ fs' = Released(fs, call.current)
       \/ /\ fs.vnodes[call.current].type = "file" /\ IsRamfs(fs, call.current)
          /\ fs' = Lost(fs, call.current)
    /\ call' = NoCall
    /\ UNCHANGED <<resources, slots, tasks>>

\* Only plain files can be linked; the source stays locked while the parent is resolved.
LinkSource ==
    LET plain == fs.vnodes[call.current].type = "file" /\ IsRamfs(fs, call.current)
    IN  /\ Resolved("link", "node")
        /\ IF plain /\ call.path # <<>>
           THEN /\ fs' = Locked(fs, Root)
                /\ call' = Resolve("parent", Front(call.path), [call EXCEPT !.source = call.current])
           ELSE fs' = Released(fs, call.current) /\ call' = NoCall
        /\ UNCHANGED <<resources, slots, tasks>>

LinkUncounted(s, i) == s  \* mutant

LinkCounted(s, i) == [s EXCEPT !.inodes[i].link_count = @ + 1]

LinkParent ==
    LET name  == Last(call.path)
        i     == fs.vnodes[call.source].index
        links == IsRamfsDirectory(fs, call.current) /\ Found(fs, call.current, name) = {}
                 /\ ~Full(fs, call.current)
        s     == IF links THEN LinkCounted(Added(fs, call.current, name, i), i) ELSE fs
    IN  /\ Resolved("link", "parent")
        /\ fs' = Released(Released(s, call.current), call.source)
        /\ call' = NoCall
        /\ UNCHANGED <<resources, slots, tasks>>

KeepsNever(s, i) == FALSE  \* mutant: an open file is freed

\* A file that is still cached is left to ramfs_release.
KeepsForNode(s, i) == Cached(s, Ramfs, i) # {}

\* ramfs_unlink of the entry of file i.
Unlinked(s, v, name, i) ==
    LET less == [s EXCEPT !.entries = Without(@, <<s.vnodes[v].index, name>>),
                          !.inodes[i].link_count = @ - 1]
    IN  IF less.inodes[i].link_count = 0 /\ ~KeepsForNode(less, i)
        THEN [less EXCEPT !.inodes = Without(@, i)] ELSE less

UnlinkParent ==
    LET found == Found(fs, call.current, Last(call.path))
    IN  /\ Resolved("unlink", "parent")
        /\ \/ /\ IsRamfsDirectory(fs, call.current)
              /\ \E i \in found :
                    /\ fs.inodes[i].type = "file"
                    /\ fs' = Released(Unlinked(fs, call.current, Last(call.path), i), call.current)
           \/ /\ ~IsRamfsDirectory(fs, call.current) \/ \A i \in found : fs.inodes[i].type = "dir"
              /\ fs' = Released(fs, call.current)
        /\ call' = NoCall
        /\ UNCHANGED <<resources, slots, tasks>>

-----------------------------------------------------------------------------
(***************************************************************************)
(* Descriptors: close, fork, and the end of a task.                         *)
(***************************************************************************)
LastReference(r) == resources[r].ref_count = 1

\* resource_remove, with vfs_close when the last reference goes.
Removed(t, i) ==
    LET r == slots[t][i]
    IN  /\ slots' = [slots EXCEPT ![t][i] = Empty]
        /\ IF LastReference(r)
           THEN /\ fs' = Released(fs, resources[r].node)
                /\ resources' = Without(resources, r)
           ELSE /\ resources' = [resources EXCEPT ![r].ref_count = @ - 1]
                /\ UNCHANGED fs

Close ==
    /\ call.op = "none"
    /\ \E t \in tasks, i \in 1 .. MaxResources : slots[t][i] # Empty /\ Removed(t, i)
    /\ UNCHANGED <<tasks, call>>

\* task_manager_task_copy shares every resource with the child.
Fork ==
    /\ call.op = "none"
    /\ \E parent \in tasks, child \in Tasks \ tasks :
          /\ tasks' = tasks \cup {child}
          /\ slots' = [slots EXCEPT ![child] = slots[parent]]
          /\ resources' = [r \in DOMAIN resources |->
                 [resources[r] EXCEPT !.ref_count =
                     @ + Cardinality({i \in 1 .. MaxResources : slots[parent][i] = r})]]
    /\ UNCHANGED <<fs, call>>

\* task_manager_destroy_task: a loop over the slots, then the task is gone.
Destroy ==
    /\ call.op = "none"
    /\ \E t \in tasks \ {InitTask} : call' = [NoCall EXCEPT !.op = "destroy", !.task = t]
    /\ UNCHANGED <<fs, resources, slots, tasks>>

DestroySlot ==
    /\ call.op = "destroy"
    /\ \E i \in 1 .. MaxResources :
          /\ slots[call.task][i] # Empty /\ \A j \in 1 .. i - 1 : slots[call.task][j] = Empty
          /\ Removed(call.task, i)
    /\ UNCHANGED <<tasks, call>>

Destroyed ==
    /\ call.op = "destroy"
    /\ \A i \in 1 .. MaxResources : slots[call.task][i] = Empty
    /\ tasks' = tasks \ {call.task}
    /\ call' = NoCall
    /\ UNCHANGED <<fs, resources, slots>>

-----------------------------------------------------------------------------
Next ==
    \/ Open \/ Stat \/ Execve \/ Link \/ Unlink
    \/ Descend \/ GoesOnToCreate \/ ResolveFails
    \/ OpenNode \/ CreateFails \/ CreateNode \/ StatNode \/ ExecveNode
    \/ LinkSource \/ LinkParent \/ UnlinkParent
    \/ Close \/ Fork \/ Destroy \/ DestroySlot \/ Destroyed

Spec == Init /\ [][Next]_vars

-----------------------------------------------------------------------------
(***************************************************************************)
(* Properties.                                                              *)
(***************************************************************************)
\* Every variable has its type; the unsigned counts do not wrap below zero.
TypeOK ==
    /\ \A v \in DOMAIN fs.vnodes : fs.vnodes[v] \in
          [cache_index : {Ramfs, Devfs}, index : Int, type : {"file", "dir"}, mount : {None} \cup DOMAIN fs.vnodes,
           ref_count : Nat, lost : Nat]
    /\ fs.cache \subseteq DOMAIN fs.vnodes
    /\ \A i \in DOMAIN fs.inodes : i < fs.last_index /\ fs.inodes[i].link_count \in Nat
    /\ \A r \in DOMAIN resources : resources[r].ref_count \in Nat
    /\ slots \in [Tasks -> [1 .. MaxResources -> {Empty} \cup DOMAIN resources]]
    /\ tasks \subseteq Tasks /\ InitTask \in tasks
    /\ call.rest \in Seq(STRING)

\* Nothing in use has been freed: neither a node that a descriptor, a mount or the walk stands
\* on, nor the file behind a node or behind a name.
NothingDangles ==
    /\ TypeOK
    /\ \A r \in DOMAIN resources : resources[r].node \in fs.cache
    /\ \A v \in fs.cache : fs.vnodes[v].mount \in {None} \cup fs.cache
    /\ {call.current, call.source} \subseteq {None} \cup fs.cache
    /\ \A v \in DOMAIN fs.vnodes : IsRamfs(fs, v) => fs.vnodes[v].index \in DOMAIN fs.inodes
    /\ \A e \in DOMAIN fs.entries : {e[1], fs.entries[e]} \subseteq DOMAIN fs.inodes

\* A file has one node however often and along whichever link it is opened.
OneNodePerFile ==
    \A v, w \in DOMAIN fs.vnodes :
        fs.vnodes[v].cache_index = fs.vnodes[w].cache_index /\ fs.vnodes[v].index = fs.vnodes[w].index
            => v = w

One(condition) == IF condition THEN 1 ELSE 0

\* The count of a node is exactly the reference of the cache, the descriptors, the root or
\* mount, the walk, and the locks that the code is known to lose; and between calls a node that
\* nobody refers to has been evicted.
CountsAreExact ==
    /\ \A v \in DOMAIN fs.vnodes :
          LET node == fs.vnodes[v]
              users == Cardinality({r \in DOMAIN resources : resources[r].node = v})
                       + One(v = Root) + One(node.mount # None)
                       + One(\E w \in DOMAIN fs.vnodes : fs.vnodes[w].mount = v)
                       + One(call.current = v) + One(call.source = v)
          IN  node.ref_count = 1 + users + node.lost /\ users + node.lost > 0
    /\ \A r \in DOMAIN resources :
          /\ resources[r].ref_count = Cardinality({p \in Tasks \X (1 .. MaxResources) : slots[p[1]][p[2]] = r})
          /\ resources[r].ref_count > 0

\* link_count is the number of names; a file without a name exists only while its node does.
\* Excepted are the root and a file that found its directory full, which never had a name.
LinksAreExact ==
    \A i \in DOMAIN fs.inodes \ fs.unplaced :
        /\ fs.inodes[i].link_count = Cardinality({e \in DOMAIN fs.entries : fs.entries[e] = i})
        /\ fs.inodes[i].link_count = 0 => Cached(fs, Ramfs, i) # {}
=============================================================================
