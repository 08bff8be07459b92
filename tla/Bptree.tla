------------------------------- MODULE Bptree -------------------------------
(***************************************************************************)
(* The B+tree index file of src/bptree.c, page by page.  One process has   *)
(* the file open and makes one call at a time; inside a call every page    *)
(* read, every return from a nested InsertIntoNode and the final header    *)
(* write is a step.                                                        *)
(*                                                                         *)
(* The code links a new page into its parent before it writes the page:    *)
(* InsertIntoLeafNode and InsertIntoNode call InsertIntoNode first and     *)
(* flush both halves when it returns.  So in the middle of an insertion    *)
(* the file holds pointers to pages that are still only in the frames of   *)
(* the C stack, and the "update parent" loop reads children that may not   *)
(* be in the file: past its end (fread fails, the child is skipped) or in  *)
(* a hole that a write further on has left (a page of zeros, whose self is *)
(* 0, so that flushing it overwrites the header page).                     *)
(***************************************************************************)
EXTENDS BptreeNode, Sequences

CONSTANTS Entries,   \* the (key, row) pairs that may be inserted, once each
          Keys,      \* the keys that are searched for and deleted
          Hole,      \* a page inside the file that nobody wrote
          Trashed    \* page 0 after a node of zeros was flushed over it

ASSUME EntriesAssumption == Entries \subseteq Int \X Int
ASSUME KeysAssumption    == Keys \subseteq Int
ASSUME HoleAssumption    == Hole \notin BptreeNode
ASSUME TrashedAssumption == Trashed \notin [root : Int, size : Nat]

VARIABLES
  hdr,      \* page 0 of the file: the root page and the number of pages
  mem,      \* the same two fields of the struct Bptree in memory
  disk,     \* pages 1.. of the file; Len(disk) is the last one
  pc,       \* where the current call is
  arg,      \* its arguments
  at,       \* the page the descent reads next
  stack,    \* the frames of the nested splits, innermost last
  inserted, \* every entry a call has inserted (history)
  live,     \* those no call has deleted since (history)
  reply     \* the answer of the last search or delete

file  == <<hdr, mem, disk>>
ghost == <<inserted, live, reply>>
vars  == <<file, pc, arg, at, stack, ghost>>

Header == [root : Int, size : Nat]
Page   == BptreeNode \cup {Hole}
Frame  == [left : BptreeNode, right : BptreeNode]
Arg    == [op : {"insert", "search", "delete"}, key : Int, dat : Int]
Reply  == [op : {"none", "search", "delete"}, key : Int, rows : SUBSET Int]

-----------------------------------------------------------------------------
(* NodeSeek succeeds on pages up to the end of the file. *)
Present(page) == page \in DOMAIN disk /\ disk[page] # Hole

(* The file f after NodeFlush(node): a write past its end leaves a hole. *)
NodeFlush(f, node) ==
  [p \in 1..(IF node.self > Len(f) THEN node.self ELSE Len(f)) |->
     IF p = node.self THEN node
     ELSE IF p <= Len(f) THEN f[p] ELSE Hole]

(* Slip: the children that moved keep their old parent. *)
UpdateParentSlip(f, right) == f

(* The file f after the "update parent" loop of InsertIntoNode. *)
UpdateParent(f, right) ==
  [p \in 1..Len(f) |->
     IF p \in Children(right) /\ f[p] # Hole
     THEN [f[p] EXCEPT !.parent = right.self] ELSE f[p]]

Top == stack[Len(stack)]

(* The stack with the nodes of the innermost frame replaced. *)
WithTop(left, right) ==
  [stack EXCEPT ![Len(stack)] = [left |-> left, right |-> right]]

Pop(s) == [i \in 1..Len(s)-1 |-> s[i]]

Rows(node, slots) == {node.dat[i] : i \in slots}

-----------------------------------------------------------------------------
(* CreateBptree *)
Init ==
  /\ mem = [root |-> NODE_EOF, size |-> 0]
  /\ hdr = mem
  /\ disk = <<>>
  /\ pc = "idle"
  /\ arg = [op |-> "search", key |-> 0, dat |-> 0]
  /\ at = NODE_EOF
  /\ stack = <<>>
  /\ inserted = {}
  /\ live = {}
  /\ reply = [op |-> "none", key |-> 0, rows |-> {}]

Call(op, key, dat) ==
  /\ pc = "idle"
  /\ pc' = "seek"
  /\ arg' = [op |-> op, key |-> key, dat |-> dat]
  /\ at' = mem.root
  /\ UNCHANGED <<file, stack, ghost>>

BptreeInsert(e) == e \notin inserted /\ Call("insert", e[1], e[2])

BptreeSearch(k) == Call("search", k, 0)

BptreeDelete(k) == Call("delete", k, 0)

(* Slip: the descent stays where it is. *)
DescendSlip ==
  /\ pc = "seek"
  /\ Present(at)
  /\ ~disk[at].isLeaf
  /\ UNCHANGED vars

(* The loop the three calls share, on an internal node. *)
Descend ==
  /\ pc = "seek"
  /\ Present(at)
  /\ ~disk[at].isLeaf
  /\ at' = disk[at].dat[GetIndex(disk[at], arg.key)]
  /\ UNCHANGED <<file, pc, arg, stack, ghost>>

AtLeaf(op) ==
  /\ pc = "seek"
  /\ arg.op = op
  /\ Present(at)
  /\ disk[at].isLeaf

Inserted ==
  LET e == <<arg.key, arg.dat>>
  IN  /\ inserted' = inserted \cup {e}
      /\ live' = live \cup {e}
      /\ UNCHANGED reply

-----------------------------------------------------------------------------
(* BptreeInsert found no page to descend into: a leaf becomes the root. *)
InsertFirst ==
  /\ pc = "seek"
  /\ arg.op = "insert"
  /\ ~Present(at)
  /\ LET self == mem.size + 1
         root == FirstRoot(self, arg.key, arg.dat)
     IN  /\ mem' = [root |-> self, size |-> self]
         /\ disk' = NodeFlush(disk, root)
  /\ pc' = "flush"
  /\ Inserted
  /\ UNCHANGED <<hdr, arg, at, stack>>

(* Slip: a leaf is split one entry too late. *)
InsertIntoLeafNodeSlip ==
  /\ AtLeaf("insert")
  /\ disk' = NodeFlush(disk, InsertEntry(disk[at], arg.key, arg.dat))
  /\ pc' = "flush"
  /\ Inserted
  /\ UNCHANGED <<hdr, mem, arg, at, stack>>

(* Slip: the header counts the new page before the page is written. *)
InsertIntoLeafNodeEarlySlip ==
  /\ AtLeaf("insert")
  /\ LET node == InsertEntry(disk[at], arg.key, arg.dat)
         self == mem.size + 1
     IN  \/ /\ node.size < M
            /\ disk' = NodeFlush(disk, node)
            /\ pc' = "flush"
            /\ UNCHANGED <<hdr, mem, stack>>
         \/ /\ node.size = M
            /\ mem' = [mem EXCEPT !.size = self]
            /\ hdr' = mem'
            /\ stack' = Append(stack, [left  |-> LowerHalf(node),
                                       right |-> UpperHalf(node, self)])
            /\ pc' = "climb"
            /\ UNCHANGED disk
  /\ Inserted
  /\ UNCHANGED <<arg, at>>

(* InsertIntoLeafNode, with room or with a split to pass on. *)
InsertIntoLeafNode ==
  /\ AtLeaf("insert")
  /\ LET node == InsertEntry(disk[at], arg.key, arg.dat)
         self == mem.size + 1
     IN  \/ /\ node.size < M
            /\ disk' = NodeFlush(disk, node)
            /\ pc' = "flush"
            /\ UNCHANGED <<mem, stack>>
         \/ /\ node.size = M
            /\ mem' = [mem EXCEPT !.size = self]
            /\ stack' = Append(stack, [left  |-> LowerHalf(node),
                                       right |-> UpperHalf(node, self)])
            /\ pc' = "climb"
            /\ UNCHANGED disk
  /\ Inserted
  /\ UNCHANGED <<hdr, arg, at>>

(***************************************************************************)
(* InsertIntoNode(tree, left->parent, left, right, right->key[0]), where   *)
(* left and right are the nodes of the innermost frame.                    *)
(***************************************************************************)
NewRoot ==
  /\ pc = "climb"
  /\ Top.left.parent = NODE_EOF
  /\ LET self == mem.size + 1
         root == RootOver(self, Top.right.key[0], Top.left.self, Top.right.self)
     IN  /\ mem' = [root |-> self, size |-> self]
         /\ disk' = NodeFlush(disk, root)
         /\ stack' = WithTop([Top.left EXCEPT !.parent = self],
                             [Top.right EXCEPT !.parent = self])
  /\ pc' = "unwind"
  /\ UNCHANGED <<hdr, arg, at, ghost>>

(* The node the innermost frame inserts into, with the new child in it. *)
Grown ==
  InsertChild(disk[Top.left.parent], Top.right.key[0],
              Top.left.self, Top.right.self)

InsertIntoNode ==
  /\ pc = "climb"
  /\ Present(Top.left.parent)
  /\ Grown.size < M
  /\ disk' = NodeFlush(disk, Grown)
  /\ pc' = "unwind"
  /\ UNCHANGED <<hdr, mem, arg, at, stack, ghost>>

(* The node is full: split it and insert the halves into its parent. *)
SplitNode ==
  /\ pc = "climb"
  /\ Present(Top.left.parent)
  /\ Grown.size = M
  /\ LET self     == mem.size + 1
         newRight == UpperHalf(Grown, self)
         Moved(n) == IF n.self \in Children(newRight)
                     THEN [n EXCEPT !.parent = self] ELSE n
     IN  /\ mem' = [mem EXCEPT !.size = self]
         /\ stack' = Append(WithTop(Moved(Top.left), Moved(Top.right)),
                            [left |-> LowerHalf(Grown), right |-> newRight])
  /\ UNCHANGED <<hdr, disk, pc, arg, at, ghost>>

(* Slip: only the left half is written. *)
ReturnSlip ==
  /\ pc = "unwind"
  /\ disk' = NodeFlush(IF Top.right.isLeaf THEN disk ELSE UpdateParent(disk, Top.right),
                       Top.left)
  /\ stack' = Pop(stack)
  /\ pc' = IF Len(stack) = 1 THEN "flush" ELSE "unwind"
  /\ UNCHANGED <<hdr, mem, arg, at, ghost>>

(***************************************************************************)
(* A nested InsertIntoNode returned: the innermost frame finishes.  For an *)
(* internal node the children that moved get their new parent, then both   *)
(* halves are written.                                                     *)
(***************************************************************************)
Return ==
  /\ pc = "unwind"
  /\ LET left  == Top.left
         right == Top.right
     IN  /\ disk' = NodeFlush(NodeFlush(IF right.isLeaf THEN disk
                                        ELSE UpdateParent(disk, right),
                                        left), right)
         /\ hdr' = IF /\ ~right.isLeaf
                      /\ \E p \in Children(right) \cap DOMAIN disk : disk[p] = Hole
                   THEN Trashed ELSE hdr
  /\ stack' = Pop(stack)
  /\ pc' = IF Len(stack) = 1 THEN "flush" ELSE "unwind"
  /\ UNCHANGED <<mem, arg, at, ghost>>

BptreeFlush ==
  /\ pc = "flush"
  /\ hdr' = mem
  /\ pc' = "idle"
  /\ UNCHANGED <<mem, disk, arg, at, stack, ghost>>

-----------------------------------------------------------------------------
(***************************************************************************)
(* BptreeSearch at the leaf.  The loop starts at index, one slot above the *)
(* last that can match; past size that slot holds an old entry or Uninit,  *)
(* and then it may or may not equal the key.                               *)
(***************************************************************************)
SearchLeaf ==
  /\ AtLeaf("search")
  /\ LET node   == disk[at]
         looked == {i \in 0..GetIndex(node, arg.key) : i < M /\ ~node.del[i]}
         equal  == {i \in looked : node.key[i] = arg.key}
         any    == {i \in looked : node.key[i] = Uninit}
     IN  \E lucky \in SUBSET any :
           reply' = [op   |-> "search",
                     key  |-> arg.key,
                     rows |-> Rows(node, equal \cup lucky)]
  /\ pc' = "idle"
  /\ UNCHANGED <<file, arg, at, stack, inserted, live>>

(* Slip: the flag goes to the slot above. *)
MarkedSlip(node, slots) ==
  [node EXCEPT !.del = [i \in 0..M-1 |-> @[i] \/ i - 1 \in slots]]

Marked(node, slots) ==
  [node EXCEPT !.del = [i \in 0..M-1 |-> @[i] \/ i \in slots]]

(* BptreeDelete at the leaf: entries are marked, never removed. *)
DeleteLeaf ==
  /\ AtLeaf("delete")
  /\ LET node  == disk[at]
         index == GetIndex(node, arg.key)
         hit   == {i \in 0..index-1 : /\ \A j \in i..index-1 : node.key[j] >= arg.key
                                      /\ node.key[i] = arg.key
                                      /\ ~node.del[i]}
     IN  /\ disk' = NodeFlush(disk, Marked(node, hit))
         /\ reply' = [op |-> "delete", key |-> arg.key, rows |-> Rows(node, hit)]
  /\ live' = {e \in live : e[1] # arg.key}
  /\ pc' = "idle"
  /\ UNCHANGED <<hdr, mem, arg, at, stack, inserted>>

(* An empty tree answers nothing. *)
NotFound ==
  /\ pc = "seek"
  /\ arg.op # "insert"
  /\ ~Present(at)
  /\ reply' = [op |-> arg.op, key |-> arg.key, rows |-> {}]
  /\ live' = IF arg.op = "delete" THEN {e \in live : e[1] # arg.key} ELSE live
  /\ pc' = "idle"
  /\ UNCHANGED <<file, arg, at, stack, inserted>>

-----------------------------------------------------------------------------
Start ==
  \/ \E e \in Entries : BptreeInsert(e)
  \/ \E k \in Keys : BptreeSearch(k) \/ BptreeDelete(k)

Step ==
  \/ Descend
  \/ InsertFirst
  \/ InsertIntoLeafNode
  \/ NewRoot
  \/ InsertIntoNode
  \/ SplitNode
  \/ Return
  \/ BptreeFlush
  \/ SearchLeaf
  \/ DeleteLeaf
  \/ NotFound

Next == Start \/ Step

Spec == Init /\ [][Next]_vars

-----------------------------------------------------------------------------
TypeOK ==
  /\ hdr \in Header \cup {Trashed}
  /\ mem \in Header
  /\ disk \in Seq(Page)
  /\ pc \in {"idle", "seek", "climb", "unwind", "flush"}
  /\ arg \in Arg
  /\ at \in Int
  /\ stack \in Seq(Frame)
  /\ inserted \subseteq Int \X Int
  /\ live \subseteq inserted
  /\ reply \in Reply

(***************************************************************************)
(* The pages of the file and the nodes still in memory, all of which a     *)
(* later step may read or write.                                           *)
(***************************************************************************)
Written == {p \in DOMAIN disk : disk[p] # Hole}

Nodes ==
  {disk[p] : p \in Written}
    \cup {stack[i].left : i \in DOMAIN stack}
    \cup {stack[i].right : i \in DOMAIN stack}

(***************************************************************************)
(* Every node a call may meet, in the file or on the stack, is one         *)
(* GetIndex and the shift loops are right for: sorted, no slot below size  *)
(* undefined, and a free slot for the next insertion.                      *)
(***************************************************************************)
NodesSorted == \A n \in Nodes : n.size < M /\ Initialised(n) /\ Sorted(n)

(***************************************************************************)
(* A leaf slot, an abandoned one past size included, holds an entry some   *)
(* call inserted, never a page number and never a key with another key's   *)
(* row; a slot that was never written holds NODE_EOF.                      *)
(***************************************************************************)
LeafSlotsInserted ==
  \A n \in Nodes : n.isLeaf =>
    \A i \in 0..M-1 :
      \/ <<n.key[i], n.dat[i]>> \in inserted
      \/ n.key[i] = Uninit /\ n.dat[i] = NODE_EOF

(* A descent and a climb only ever visit pages that are in the file. *)
VisitsWritten ==
  /\ pc = "seek" => \/ at \in Written
                    \/ at = NODE_EOF /\ disk = <<>>
  /\ pc = "climb" => Top.left.parent \in Written \cup {NODE_EOF}

(***************************************************************************)
(* Between calls the file is a tree: every page but the root is the child  *)
(* of one slot of one page, the page its parent field names, and all       *)
(* leaves are at one depth.                                                *)
(***************************************************************************)
Internal == {p \in Written : ~disk[p].isLeaf}

Slots(child) ==
  {s \in Internal \X (0..M) :
     s[2] <= disk[s[1]].size /\ disk[s[1]].dat[s[2]] = child}

ParentLinks ==
  pc = "idle" /\ disk # <<>> =>
    /\ mem.root \in Written
    /\ disk[mem.root].parent = NODE_EOF
    /\ \A p \in DOMAIN disk \ {mem.root} :
         \E s \in Slots(p) : Slots(p) = {s} /\ disk[p].parent = s[1]

Level[n \in Nat] ==
  IF n = 0 THEN {mem.root}
  ELSE UNION {Children(disk[p]) : p \in Level[n - 1] \cap Internal}

Height == CHOOSE n \in 1..Len(disk) : Level[n] = {} /\ Level[n - 1] # {}

Balanced ==
  pc = "idle" /\ disk # <<>> =>
    \A n \in 0..Height-2 : Level[n] \subseteq Internal

(* Between calls every page that was allocated is in the file and hangs on *)
(* the root, and the header on disk says what the one in memory says.      *)
NoPageLost ==
  pc = "idle" =>
    /\ hdr = mem
    /\ mem.size = Len(disk)
    /\ disk # <<>> => DOMAIN disk = UNION {Level[n] : n \in 0..Height-1}

(* The entries of all the leaves are the inserted ones, each in one slot. *)
EntrySlots ==
  {s \in (Written \ Internal) \X (0..M-1) : s[2] < disk[s[1]].size}

NothingLost ==
  pc = "idle" =>
    \A e \in inserted :
      \E s \in EntrySlots :
        {t \in EntrySlots : <<disk[t[1]].key[t[2]], disk[t[1]].dat[t[2]]>> = e} = {s}

(***************************************************************************)
(* The page writes of a call, in an order that leaves the file broken in   *)
(* between, add up: when it returns, the file is a balanced tree of all    *)
(* the allocated pages, each with one parent that it names, and every      *)
(* entry ever inserted is in exactly one slot of it.                       *)
(***************************************************************************)
TreeWhole == ParentLinks /\ Balanced /\ NoPageLost /\ NothingLost

(* A search answers with rows inserted under its key, or with NODE_EOF. *)
SearchSound ==
  reply.op = "search" =>
    \A r \in reply.rows : r = NODE_EOF \/ <<reply.key, r>> \in inserted

(***************************************************************************)
(* What "found" should mean: between calls, the answer of the last search  *)
(* has every live row of its key.                                          *)
(***************************************************************************)
SearchComplete ==
  pc = "idle" /\ reply.op = "search" /\ arg.op = "search" =>
    {e[2] : e \in {x \in live : x[1] = reply.key}} \subseteq reply.rows

(***************************************************************************)
(* What the code achieves with one row for each key: a search misses       *)
(* nothing while no internal node has been split, that is, up to height 2. *)
(***************************************************************************)
ShallowSearchComplete ==
  disk # <<>> /\ pc = "idle" /\ Height <= 2 => SearchComplete

=============================================================================
