--------------------------- MODULE VirtualFileSystem ---------------------------
(***************************************************************************)
(* virtual_file_system.c: directories whose children form a circular list, *)
(* and a disk of blocks handed out from a free list.                       *)
(*                                                                         *)
(* Nodes are modelled at the level of their pointers.  Input lines have at *)
(* most 79 characters and a block 512, so a file needs one block, or none  *)
(* when its data is "": allocatedBlocks and blockCount become one field,   *)
(* block.  dataSize is never read back and is left out.  A file name or a  *)
(* directory name is at most 50 characters long.                           *)
(***************************************************************************)
EXTENDS Integers, Sequences, SequencesExt, FiniteSets

CONSTANTS
  Names,      \* may hold DOTDOT, the name ".."
  DOTDOT,
  Texts,      \* what can be written, without the empty string
  NoData,     \* the empty string
  Blocks,     \* the disk blocks, 0 .. 1023 in the code
  Nodes,      \* the addresses malloc can return for a Node
  root,       \* the one it returned for rootDirectory
  MallocMayFail, \* whether malloc may return NULL
  NULL

ASSUME FileSystemAssumption ==
  /\ root \in Nodes /\ NULL \notin Nodes \cup Names \cup Blocks \cup Texts
  /\ IsFiniteSet(Nodes) /\ IsFiniteSet(Blocks)
  /\ NoData \notin Texts /\ MallocMayFail \in BOOLEAN

VARIABLES
  state,                 \* "running" or "ended"
  node,                  \* address -> fields of the Node
  allocated,             \* the nodes in use
  rootDirectory, currentDirectory,
  freeBlockList,         \* the free blocks, from the head
  diskMemory             \* block -> what was last written there

Pointers == Nodes \cup {NULL}

vfsVars == <<state, node, allocated, rootDirectory, currentDirectory, freeBlockList, diskMemory>>

\* A folder or file made by malloc; memory that is not in use looks like a
\* file without a name.
Made(name, isFolder, parent, nextSibling) ==
  [name |-> name, isFolder |-> isFolder, parent |-> parent, nextSibling |-> nextSibling,
   firstChild |-> NULL, block |-> NULL]
Garbage == Made(NULL, FALSE, NULL, NULL)

\* initializeFreeBlocks keeps what it has when malloc fails.
VfsInit ==
  /\ state = "running"
  /\ node = [n \in Nodes |-> IF n = root THEN Made(NULL, TRUE, NULL, root) ELSE Garbage]
  /\ allocated = {root} /\ rootDirectory = root /\ currentDirectory = root
  /\ \E n \in 0 .. Cardinality(Blocks) :
       /\ n < Cardinality(Blocks) => MallocMayFail
       /\ freeBlockList = SubSeq(SetToSeq(Blocks), 1, n)
  /\ diskMemory = [b \in Blocks |-> NoData]

-----------------------------------------------------------------------------
\* What the loops over the children of dir meet in nodes: the siblings from the
\* first child on, until the next one is the first again; one more than there
\* are nodes if the circle does not close.
Siblings(nodes, dir) ==
  LET first == nodes[dir].firstChild
      on == [met \in Seq(Nodes) |->
               LET next == nodes[Last(met)].nextSibling
               IN IF next \in {NULL, first} THEN met ELSE Append(met, next)]
      walk[i \in 0 .. Cardinality(Nodes)] == IF i = 0 THEN <<first>> ELSE on[walk[i - 1]]
  IN IF first = NULL THEN <<>> ELSE walk[Cardinality(Nodes)]
Children(dir) == Siblings(node, dir)

\* The first child of the current directory with that name among those wanted, or NULL.
Find(name, wanted) ==
  LET children == Children(currentDirectory)
      hits == { i \in DOMAIN children : node[children[i]].name = name /\ children[i] \in wanted }
  IN IF hits = {} THEN NULL ELSE children[CHOOSE i \in hits : \A j \in hits : i <= j]
FileNodes == { n \in Nodes : ~node[n].isFolder }
FolderNodes == { n \in Nodes : node[n].isFolder }

\* Mutant: the new child comes right after the first one.
Linked_early(n, name, isFolder) ==
  LET dir == currentDirectory
      first == node[dir].firstChild
  IN IF first = NULL
     THEN [node EXCEPT ![n] = Made(name, isFolder, dir, n), ![dir].firstChild = n]
     ELSE [node EXCEPT ![n] = Made(name, isFolder, dir, node[first].nextSibling),
                       ![first].nextSibling = n]

\* Put a new child at the end of the circle of the current directory.
Linked(n, name, isFolder) ==
  LET dir == currentDirectory
      first == node[dir].firstChild
  IN IF first = NULL
     THEN [node EXCEPT ![n] = Made(name, isFolder, dir, n), ![dir].firstChild = n]
     ELSE [node EXCEPT ![n] = Made(name, isFolder, dir, first),
                       ![Last(Children(dir))].nextSibling = n]

\* Mutant: the parent goes on pointing at a first child that is gone.
Unlinked_first(n) ==
  LET dir == currentDirectory
      next == node[n].nextSibling
      before == CHOOSE m \in ToSet(Children(dir)) : node[m].nextSibling = n
  IN IF next = n THEN [node EXCEPT ![dir].firstChild = NULL, ![n] = Garbage]
     ELSE [node EXCEPT ![before].nextSibling = next, ![n] = Garbage]

\* Take child n out of the circle and free it.
Unlinked(n) ==
  LET dir == currentDirectory
      first == node[dir].firstChild
      next == node[n].nextSibling
      before == CHOOSE m \in ToSet(Children(dir)) : node[m].nextSibling = n
  IN IF next = n THEN [node EXCEPT ![dir].firstChild = NULL, ![n] = Garbage]
     ELSE [node EXCEPT ![before].nextSibling = next,
                       ![dir].firstChild = IF n = first THEN next ELSE first,
                       ![n] = Garbage]

\* Mutant: the entry of a file that has no block is released too.
releaseFileBlocks_unchecked(n) == {<<node[n].block>> \o freeBlockList}

\* The free lists after releaseFileBlocks(n); a block is lost when there is no
\* memory for its list entry.
releaseFileBlocks(n) ==
  IF node[n].block = NULL THEN {freeBlockList}
  ELSE {<<node[n].block>> \o freeBlockList} \cup IF MallocMayFail THEN {freeBlockList} ELSE {}

-----------------------------------------------------------------------------
\* The commands.  One that is refused, or finds no memory for its node,
\* changes nothing.
Prompt == state = "running"

\* A new node at any free address.
create(name, isFolder) ==
  /\ Prompt
  /\ Find(name, Nodes) = NULL
  /\ \E n \in Nodes \ allocated :
       /\ node' = Linked(n, name, isFolder)
       /\ allocated' = allocated \cup {n}
  /\ UNCHANGED <<state, rootDirectory, currentDirectory, freeBlockList, diskMemory>>

makeDirectory(name) == create(name, TRUE)
createFile(name) == create(name, FALSE)

moveToParentDirectory ==
  /\ Prompt /\ currentDirectory # rootDirectory
  /\ currentDirectory' = node[currentDirectory].parent
  /\ UNCHANGED <<state, node, allocated, rootDirectory, freeBlockList, diskMemory>>

changeDirectory(name) ==
  \/ name = DOTDOT /\ moveToParentDirectory
  \/ /\ Prompt /\ name # DOTDOT
     /\ Find(name, FolderNodes) # NULL
     /\ currentDirectory' = Find(name, FolderNodes)
     /\ UNCHANGED <<state, node, allocated, rootDirectory, freeBlockList, diskMemory>>

\* Mutant: a file that finds no new block keeps the one it has given back.
writeFile_keeps(name, text) ==
  LET n == Find(name, Nodes)
  IN /\ Prompt /\ n # NULL /\ ~node[n].isFolder
     /\ \E list \in releaseFileBlocks(n) :
          IF text = NoData \/ list = <<>>
          THEN /\ freeBlockList' = list
               /\ UNCHANGED <<node, diskMemory>>
          ELSE /\ node' = [node EXCEPT ![n].block = Head(list)]
               /\ freeBlockList' = Tail(list)
               /\ diskMemory' = [diskMemory EXCEPT ![Head(list)] = text]
     /\ UNCHANGED <<state, allocated, rootDirectory, currentDirectory>>

\* writeContent: the old block goes back before the new one is taken.
writeFile(name, text) ==
  LET n == Find(name, Nodes)
  IN /\ Prompt /\ n # NULL /\ ~node[n].isFolder
     /\ \E list \in releaseFileBlocks(n) :
          IF text = NoData \/ list = <<>>
          THEN /\ node' = [node EXCEPT ![n].block = NULL]
               /\ freeBlockList' = list
               /\ UNCHANGED diskMemory
          ELSE /\ node' = [node EXCEPT ![n].block = Head(list)]
               /\ freeBlockList' = Tail(list)
               /\ diskMemory' = [diskMemory EXCEPT ![Head(list)] = text]
     /\ UNCHANGED <<state, allocated, rootDirectory, currentDirectory>>

deleteFileByName(name) ==
  LET n == Find(name, FileNodes)
  IN /\ Prompt /\ n # NULL
     /\ freeBlockList' \in releaseFileBlocks(n)
     /\ node' = Unlinked(n) /\ allocated' = allocated \ {n}
     /\ UNCHANGED <<state, rootDirectory, currentDirectory, diskMemory>>

\* Mutant: a folder that is not empty may go.
removeDirectory_full(name) ==
  LET n == Find(name, Nodes)
  IN /\ Prompt /\ n # NULL /\ node[n].isFolder
     /\ node' = Unlinked(n) /\ allocated' = allocated \ {n}
     /\ UNCHANGED <<state, rootDirectory, currentDirectory, freeBlockList, diskMemory>>

removeDirectory(name) ==
  LET n == Find(name, Nodes)
  IN /\ Prompt /\ n # NULL /\ node[n].isFolder /\ node[n].firstChild = NULL
     /\ node' = Unlinked(n) /\ allocated' = allocated \ {n}
     /\ UNCHANGED <<state, rootDirectory, currentDirectory, freeBlockList, diskMemory>>

\* The nodes releaseAllNodes frees: n and, with any node, its children.
HoldsChildren(S) == \A dir \in S : ToSet(Children(dir)) \subseteq S
Below(n) ==
  LET closed == { S \in SUBSET Nodes : n \in S /\ HoldsChildren(S) }
  IN { m \in Nodes : \A S \in closed : m \in S }

exitVFS ==
  /\ Prompt
  /\ state' = "ended"
  /\ allocated' = allocated \ Below(rootDirectory)
  /\ node' = [n \in Nodes |-> IF n \in Below(rootDirectory) THEN Garbage ELSE node[n]]
  /\ rootDirectory' = NULL /\ currentDirectory' = NULL /\ freeBlockList' = <<>>
  /\ UNCHANGED diskMemory

VfsNext ==
  \/ \E name \in Names :
       \/ makeDirectory(name) \/ createFile(name) \/ changeDirectory(name)
       \/ deleteFileByName(name) \/ removeDirectory(name)
       \/ \E text \in Texts \cup {NoData} : writeFile(name, text)
  \/ moveToParentDirectory \/ exitVFS

VfsSpec == VfsInit /\ [][VfsNext]_vfsVars

-----------------------------------------------------------------------------
Running == state = "running"

\* The type invariant.
VfsTypeOK ==
  /\ state \in {"running", "ended"}
  /\ node \in [Nodes -> [name : Names \cup {NULL}, isFolder : BOOLEAN, parent : Pointers,
                         nextSibling : Pointers, firstChild : Pointers,
                         block : Blocks \cup {NULL}]]
  /\ allocated \subseteq Nodes
  /\ rootDirectory \in {root, NULL} /\ currentDirectory \in Pointers
  /\ freeBlockList \in Seq(Blocks)
  /\ diskMemory \in [Blocks -> Texts \cup {NoData}]

\* Every circle of siblings closes, so the loops over it end; each node in use
\* but the root is in the circle of its parent, once, under a name of its own.
CirclesClosed ==
  /\ \A dir \in allocated :
       LET children == Children(dir)
       IN /\ children # <<>> => node[Last(children)].nextSibling = children[1]
          /\ \A i, j \in DOMAIN children :
               node[children[i]].name = node[children[j]].name => i = j
          /\ \A i \in DOMAIN children : node[children[i]].parent = dir
          /\ children # <<>> => node[dir].isFolder
  /\ \A n \in allocated \ {root} :
       node[n].parent \in allocated /\ n \in ToSet(Children(node[n].parent))

\* The current directory is a folder in use below the root, and no node in use
\* is out of reach: removing a directory takes neither the current directory
\* nor one that still holds something.  After exit nothing is in use.
NothingLost ==
  /\ Running => currentDirectory \in FolderNodes /\ allocated = Below(root)
                /\ currentDirectory \in allocated
  /\ ~Running => allocated = {}

\* A block is free or belongs to one file, never both, never two; without
\* failures of malloc no block is ever lost.
BlocksAccounted ==
  LET owners(b) == { n \in allocated : node[n].block = b }
  IN Running =>
       /\ \A i, j \in DOMAIN freeBlockList : freeBlockList[i] = freeBlockList[j] => i = j
       /\ \A b \in Blocks :
            Cardinality(owners(b)) + (IF b \in ToSet(freeBlockList) THEN 1 ELSE 0)
              \in IF MallocMayFail THEN {0, 1} ELSE {1}

\* The pointers form one tree and the blocks are all accounted for after every
\* command, also when an allocation failed within it.
StructureOK == VfsTypeOK /\ CirclesClosed /\ NothingLost /\ BlocksAccounted

\* The system implements FileTree.  What the mapping says of a tree is said for
\* any nodes, of which some are used: the names on the way from the root to n,
\* the listings of the directories and what the files hold.
Path(n, nodes, used) ==
  LET path[m \in used] ==
        IF m = root THEN <<>> ELSE Append(path[nodes[m].parent], nodes[m].name)
  IN path[n]
At(p, some, nodes, used) == CHOOSE n \in some : Path(n, nodes, used) = p
Folders(nodes, used) == { n \in used : nodes[n].isFolder }
Files(nodes, used) == used \ Folders(nodes, used)
NamesOf(children, nodes) == [i \in DOMAIN children |-> nodes[children[i]].name]
Listing(nodes, used) ==
  [p \in { Path(n, nodes, used) : n \in Folders(nodes, used) } |->
     NamesOf(Siblings(nodes, At(p, Folders(nodes, used), nodes, used)), nodes)]
ReadFrom(b, disk) == IF b = NULL THEN NoData ELSE disk[b]
Content(nodes, used, disk) ==
  [p \in { Path(n, nodes, used) : n \in Files(nodes, used) } |->
     ReadFrom(nodes[At(p, Files(nodes, used), nodes, used)].block, disk)]
Tree ==
  INSTANCE FileTree
    WITH Data <- Texts, MayFail <- MallocMayFail,
         listing <- Listing(node, allocated), content <- Content(node, allocated, diskMemory),
         free <- Len(freeBlockList),
         cwd <- IF Running THEN Path(currentDirectory, node, allocated) ELSE <<>>
RefinesTree == Tree!Spec
=============================================================================
