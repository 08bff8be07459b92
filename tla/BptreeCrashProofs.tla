------------------------- MODULE BptreeCrashProofs -------------------------
(***************************************************************************)
(* What kills cannot do to the index file, for every order, every set of   *)
(* entries and any number of kills: no entry whose insertion was durable   *)
(* ever leaves the file, a torn one included.  And what the file is to its *)
(* user: with one row for each key, the map that IndexMap describes.       *)
(* Last, the tree: with one row for each key, the pages are a search tree  *)
(* of any height between two calls, the one before the kill after a kill.  *)
(***************************************************************************)
EXTENDS BptreeCrash, BptreeProofs

(* The entry of the call under way, and the header of a file without root. *)
Entry == <<arg.key, arg.dat>>

Empty == [root |-> NODE_EOF, size |-> 0]

HasEntry(n, e, slots) == \E i \in slots : n.key[i] = e[1] /\ n.dat[i] = e[2]

Holds(n, e) == HasEntry(n, e, 0..n.size-1)

(* A leaf of the file f has e below its size. *)
Held(f, e) == \E p \in Pages(f) : f[p].isLeaf /\ Holds(f[p], e)

(***************************************************************************)
(* The halves l and r have the entries of the page old and the entry x;    *)
(* those of the page are still in the slots of l, if only past its size.   *)
(***************************************************************************)
Carried(old, l, r, S, x) ==
  \A e \in S :
    /\ Holds(old, e) => HasEntry(l, e, 0..M-1)
    /\ Holds(old, e) \/ e = x => Holds(l, e) \/ Holds(r, e)

-----------------------------------------------------------------------------
(* What calls and answers are about, whatever the file is like. *)
Calls ==
  /\ disk \in Seq(Page)
  /\ arg \in Arg /\ at \in Int /\ reply \in Reply
  /\ inserted \subseteq Entries /\ live \subseteq inserted
  /\ pc = "seek" /\ arg.op = "insert" => Entry \in Entries \ inserted
  /\ pc = "seek" /\ arg.op # "insert" => arg.key \in Keys
  /\ pc \in {"climb", "unwind", "flush"} => Entry \in Entries \cap live
  /\ reply.op = "search" =>
       \A r \in reply.rows : r = NODE_EOF \/ <<reply.key, r>> \in Durable

(* The header on disk.  Up to the first write it opens the file as it was. *)
Headers ==
  /\ pc \in {"idle", "seek"} => hdr = mem
  /\ pc = "climb" => /\ hdr.root = mem.root /\ hdr \in Header
                     /\ hdr.size < mem.size
                     /\ FileOK(disk, hdr.size, Durable, {})
                     /\ Linked(disk, <<>>)
  /\ pc = "unwind" => hdr = Trashed \/ hdr.size < mem.size
  /\ \/ hdr = Trashed
     \/ hdr.root # NODE_EOF
     \/ pc = "flush" /\ hdr = Empty /\ Len(disk) = 1 /\ inserted = {Entry}

(* The outermost frame has the halves of a leaf. *)
Frames ==
  /\ \A i \in DOMAIN stack : stack[i].left.isLeaf <=> i = 1
  /\ pc \in {"climb", "unwind"} =>
       Carried(disk[stack[1].left.self], stack[1].left, stack[1].right, inserted, Entry)

AllHeld ==
  \A e \in inserted : Held(disk, e) \/ (e = Entry /\ pc \in {"climb", "unwind"})

(* The three states of a file. *)
Torn == pc = "torn" /\ stack = <<>> /\ NothingErased

Rootless ==
  /\ mem = Empty /\ hdr = Empty /\ stack = <<>> /\ Len(disk) <= 1
  /\ pc \in {"idle", "seek"} /\ (pc = "seek" => at = NODE_EOF)
  /\ inserted = {} /\ live = {}

Rooted ==
  IInv /\ LInv /\ mem.root \in Pages(disk) /\ Headers /\ Frames /\ AllHeld

CInv == Calls /\ (Torn \/ Rootless \/ Rooted)

-----------------------------------------------------------------------------
(* Which entries are durable at which point of a call. *)
LEMMA DurableIs ==
  /\ pc \in {"idle", "seek", "torn"} => Durable = inserted
  /\ pc \in {"climb", "unwind"} => Durable = inserted \ {Entry}
  /\ pc = "flush" => Durable = IF hdr # mem THEN inserted \ {Entry} ELSE inserted
  BY DEF Durable, Pending, Entry

(* In a file with a root what is held is recorded. *)
LEMMA HeldRecorded ==
  ASSUME NEW e, Held(disk, e), \A p \in Pages(disk) : disk[p] \in BptreeNode
  PROVE  Recorded(e)
<1>1. PICK p \in Pages(disk) : disk[p].isLeaf /\ Holds(disk[p], e)
  BY DEF Held
<1>2. PICK i \in 0..disk[p].size-1 : disk[p].key[i] = e[1] /\ disk[p].dat[i] = e[2]
  BY <1>1 DEF Holds, HasEntry
<1>3. i \in 0..M-1
  BY <1>2, NodeFields
<1>4. p \in Written \ Internal
  BY <1>1 DEF Pages, Written, Internal
<1> QED
  BY <1>2, <1>3, <1>4 DEF Recorded

(* Every state of the file has its durable entries. *)
LEMMA ErasesNothing == CInv => NothingErased
<1>1. ASSUME Rooted PROVE NothingErased
  <2> SUFFICES ASSUME NEW e \in Durable PROVE Recorded(e)
    BY DEF NothingErased
  <2>1. \A p \in Pages(disk) : disk[p] \in BptreeNode
    BY <1>1 DEF Rooted, IInv, FileOK, Good
  <2>2. e \in inserted /\ ~(e = Entry /\ pc \in {"climb", "unwind"})
    BY DurableIs DEF Durable
  <2> QED
    BY <1>1, <2>1, <2>2, HeldRecorded DEF Rooted, AllHeld
<1>2. ASSUME Rootless PROVE NothingErased
  BY <1>2 DEF Rootless, NothingErased, Durable
<1> QED
  BY <1>1, <1>2 DEF CInv, Torn

-----------------------------------------------------------------------------
(* The node new has the entry (k, d) in slot x and the rest where it belongs. *)
Shifted(node, k, d, new, x) ==
  /\ x \in 0..node.size
  /\ \A i \in 0..M-1 :
       /\ i < x \/ i > node.size => /\ new.key[i] = node.key[i]
                                    /\ new.dat[i] = node.dat[i]
                                    /\ new.del[i] = node.del[i]
       /\ i = x => new.key[i] = k /\ new.dat[i] = d /\ new.del[i] = FALSE
       /\ i > x /\ i <= node.size => /\ i - 1 \in 0..node.size-1
                                     /\ new.key[i] = node.key[i-1]
                                     /\ new.dat[i] = node.dat[i-1]
                                     /\ new.del[i] = node.del[i-1]

(* InsertEntry slot by slot. *)
LEMMA InsertEntrySpelled ==
  ASSUME NEW node \in BptreeNode, node.size < M, Initialised(node),
         NEW k \in Int, NEW d \in Int
  PROVE  Shifted(node, k, d, InsertEntry(node, k, d), GetIndex(node, k))
<1> DEFINE x   == GetIndex(node, k)
           new == InsertEntry(node, k, d)
<1>1. x \in 0..node.size
  BY GetIndexDefined DEF IsGetIndex
<1>2. /\ new.key = Shift(node.key, node.size, x, k)
      /\ new.dat = Shift(node.dat, node.size, x, d)
      /\ new.del = Shift(node.del, node.size, x, FALSE)
  BY DEF InsertEntry, BptreeNode
<1>3. /\ M \in Nat /\ node.size \in Nat /\ x \in Nat
      /\ DOMAIN node.key = 0..M-1 /\ DOMAIN node.dat = 0..M /\ DOMAIN node.del = 0..M-1
  BY <1>1, NodeFields
<1> HIDE DEF x, new
<1>4. ASSUME NEW i \in 0..M-1
      PROVE  /\ i < x \/ i > node.size => /\ new.key[i] = node.key[i]
                                          /\ new.dat[i] = node.dat[i]
                                          /\ new.del[i] = node.del[i]
             /\ i = x => new.key[i] = k /\ new.dat[i] = d /\ new.del[i] = FALSE
             /\ i > x /\ i <= node.size => /\ i - 1 \in 0..node.size-1
                                           /\ new.key[i] = node.key[i-1]
                                           /\ new.dat[i] = node.dat[i-1]
                                           /\ new.del[i] = node.del[i-1]
  <2>1. i \in 0..M /\ i \in Int
    BY <1>3
  <2>2. /\ new.key[i] = IF i < x \/ i > node.size THEN node.key[i]
                        ELSE IF i = x THEN k ELSE node.key[i - 1]
        /\ new.dat[i] = IF i < x \/ i > node.size THEN node.dat[i]
                        ELSE IF i = x THEN d ELSE node.dat[i - 1]
        /\ new.del[i] = IF i < x \/ i > node.size THEN node.del[i]
                        ELSE IF i = x THEN FALSE ELSE node.del[i - 1]
    BY <1>2, <1>3, <2>1 DEF Shift
  <2>3. x \in Int /\ node.size \in Int /\ x >= 0 /\ x <= node.size
    BY <1>1, <1>3
  <2>4. i > x /\ i <= node.size => i - 1 \in 0..node.size-1
    BY <2>1, <2>3
  <2>5. i > x /\ i <= node.size => ~(i < x) /\ ~(i > node.size) /\ i # x
    BY <2>1, <2>3
  <2>6. i = x => ~(i < x) /\ ~(i > node.size)
    BY <2>1, <2>3
  <2> QED
    BY <2>2, <2>4, <2>5, <2>6
<1> QED
  BY <1>1, <1>4 DEF Shifted, x, new

(* A leaf that takes an entry has it, and what it had. *)
LEMMA InsertEntryKeeps ==
  ASSUME NEW node \in BptreeNode, node.size < M, Initialised(node), Sorted(node),
         NEW k \in Int, NEW d \in Int, NEW new, new = InsertEntry(node, k, d)
  PROVE  /\ Holds(new, <<k, d>>)
         /\ \A e : Holds(node, e) => Holds(new, e)
<1> DEFINE x == GetIndex(node, k)
<1>1. /\ Shifted(node, k, d, new, x) /\ node.size \in Nat /\ M \in Nat
      /\ node.size \in 0..M-1
  BY InsertEntrySpelled, NodeFields
<1> HIDE DEF x
<1>2. /\ x \in 0..node.size /\ x \in 0..M-1
      /\ new.size - 1 = node.size
  BY <1>1, InsertEntryNode DEF Shifted
<1>3. Holds(new, <<k, d>>)
  <2>1. new.key[x] = k /\ new.dat[x] = d
    BY <1>1, <1>2 DEF Shifted
  <2> QED
    BY <1>2, <2>1 DEF Holds, HasEntry
<1>4. ASSUME NEW e, Holds(node, e) PROVE Holds(new, e)
  <2>1. PICK i \in 0..node.size-1 : node.key[i] = e[1] /\ node.dat[i] = e[2]
    BY <1>4 DEF Holds, HasEntry
  <2>2. CASE i < x
    <3>1. i \in 0..M-1 /\ i \in 0..node.size
      BY <1>1, <1>2
    <3>2. new.key[i] = e[1] /\ new.dat[i] = e[2]
      BY <1>1, <2>1, <2>2, <3>1 DEF Shifted
    <3> QED
      BY <1>2, <3>1, <3>2 DEF Holds, HasEntry
  <2>3. CASE i >= x
    <3>1. i + 1 \in 0..M-1 /\ i + 1 \in 0..node.size /\ i + 1 > x /\ i + 1 <= node.size
          /\ (i + 1) - 1 = i
      BY <1>1, <1>2, <2>3
    <3>2. new.key[i + 1] = e[1] /\ new.dat[i + 1] = e[2]
      BY <1>1, <2>1, <3>1 DEF Shifted
    <3> QED
      BY <1>2, <3>1, <3>2 DEF Holds, HasEntry
  <2> QED
    BY <1>2, <2>2, <2>3
<1> QED
  BY <1>3, <1>4

(* The halves of a full leaf slot by slot. *)
LEMMA HalvesSpelled ==
  ASSUME NEW node \in BptreeNode, node.size = M, node.isLeaf, NEW self,
         NEW low, low = LowerHalf(node), NEW upp, upp = UpperHalf(node, self),
         NEW mid, mid = Mid(node)
  PROVE  /\ mid \in 2..M-1
         /\ low.size = mid /\ low.key = node.key /\ low.dat = node.dat
         /\ low.del = node.del
         /\ upp.size = M - mid
         /\ \A i \in 0..M-mid-1 : /\ mid + i \in 0..M-1
                                  /\ upp.key[i] = node.key[mid + i]
                                  /\ upp.dat[i] = node.dat[mid + i]
                                  /\ upp.del[i] = node.del[mid + i]
         /\ \A i \in M-mid..M-1 : upp.key[i] = Uninit
<1>1. mid \in 2..M-1 /\ M \in Nat
  BY MidBounds, NodeFields
<1>2. low.size = mid /\ low.key = node.key /\ low.dat = node.dat /\ low.del = node.del
  BY DEF LowerHalf, BptreeNode
<1> DEFINE n == node.size - mid
<1>3. /\ upp.size = n
      /\ upp.key = [i \in 0..M-1 |-> IF i < n THEN node.key[mid + i] ELSE Uninit]
      /\ upp.dat = [i \in 0..M |-> IF i < n \/ (i = n /\ ~node.isLeaf)
                                   THEN node.dat[mid + i] ELSE NODE_EOF]
      /\ upp.del = [i \in 0..M-1 |-> IF i < n THEN node.del[mid + i] ELSE FALSE]
  BY DEF UpperHalf, NewBptreeNode
<1>4. n = M - mid /\ n \in Nat
  BY <1>1
<1> HIDE DEF n
<1>5. ASSUME NEW i \in 0..M-mid-1
      PROVE  /\ mid + i \in 0..M-1
             /\ upp.key[i] = node.key[mid + i]
             /\ upp.dat[i] = node.dat[mid + i]
             /\ upp.del[i] = node.del[mid + i]
  <2>1. i \in 0..M-1 /\ i \in 0..M /\ i < n /\ mid + i \in 0..M-1
    BY <1>1, <1>4
  <2> QED
    BY <1>3, <2>1
<1>6. ASSUME NEW i \in M-mid..M-1 PROVE upp.key[i] = Uninit
  <2>1. i \in 0..M-1 /\ ~(i < n)
    BY <1>1, <1>4
  <2> QED
    BY <1>3, <2>1
<1> QED
  BY <1>1, <1>2, <1>3, <1>4, <1>5, <1>6

(* An entry of a full leaf is in one of its halves, and in a slot of the left. *)
LEMMA HalvesKeep ==
  ASSUME NEW node \in BptreeNode, node.size = M, node.isLeaf, NEW self,
         NEW low, low = LowerHalf(node), NEW upp, upp = UpperHalf(node, self),
         NEW e, Holds(node, e)
  PROVE  HasEntry(low, e, 0..M-1) /\ (Holds(low, e) \/ Holds(upp, e))
<1> DEFINE mid == Mid(node)
<1>1. /\ mid \in 2..M-1 /\ low.size = mid /\ low.key = node.key /\ low.dat = node.dat
      /\ upp.size = M - mid
      /\ \A i \in 0..M-mid-1 : /\ upp.key[i] = node.key[mid + i]
                               /\ upp.dat[i] = node.dat[mid + i]
  BY HalvesSpelled
<1> HIDE DEF mid
<1>2. PICK i \in 0..M-1 : node.key[i] = e[1] /\ node.dat[i] = e[2]
  BY DEF Holds, HasEntry
<1>3. HasEntry(low, e, 0..M-1)
  BY <1>1, <1>2 DEF HasEntry
<1>4. CASE i < mid
  <2>1. i \in 0..low.size-1
    BY <1>1, <1>4
  <2> QED
    BY <1>1, <1>2, <1>3, <2>1 DEF Holds, HasEntry
<1>5. CASE i >= mid
  <2>1. i - mid \in 0..M-mid-1 /\ mid + (i - mid) = i /\ M - mid - 1 = upp.size - 1
    BY <1>1, <1>5, OrderAssumption
  <2>2. upp.key[i - mid] = e[1] /\ upp.dat[i - mid] = e[2]
    BY <1>1, <1>2, <2>1
  <2> QED
    BY <1>3, <2>1, <2>2 DEF Holds, HasEntry
<1> QED
  BY <1>1, <1>4, <1>5

-----------------------------------------------------------------------------
(* Leaves that keep their arrays keep their entries. *)
SameEntries(m, n) == m.isLeaf = n.isLeaf /\ m.size = n.size /\ m.key = n.key /\ m.dat = n.dat

(* Both ways of having an entry are about the arrays. *)
LEMMA SameHolds ==
  ASSUME NEW m, NEW n, SameEntries(m, n), NEW e
  PROVE  /\ Holds(m, e) <=> Holds(n, e)
         /\ HasEntry(m, e, 0..M-1) <=> HasEntry(n, e, 0..M-1)
  BY DEF SameEntries, Holds, HasEntry

-----------------------------------------------------------------------------
(* Outside an insertion that splits there are no frames. *)
LEMMA FramesAt ==
  ASSUME Rooted
  PROVE  /\ pc \in {"idle", "seek", "flush"} => DOMAIN stack = {} /\ Len(stack) = 0
         /\ pc \in {"climb", "unwind"} => /\ Len(stack) > 0 /\ Len(stack) \in Nat
                                          /\ DOMAIN stack = 1..Len(stack)
                                          /\ 1 \in DOMAIN stack
         /\ pc \in {"idle", "seek", "climb", "unwind", "flush"}
<1>1. IInv /\ pc \in {"idle", "seek", "climb", "unwind", "flush"}
  BY DEF Rooted, IInv, Scalars
<1>2. pc \in {"climb", "unwind"} => Len(stack) > 0
  BY <1>1 DEF IInv
<1>3. Len(stack) > 0 => /\ Len(stack) \in Nat /\ DOMAIN stack = 1..Len(stack)
                        /\ 1 \in DOMAIN stack
  BY <1>1, TopFrame
<1> QED
  BY <1>1, <1>2, <1>3, NothingMissing

(* Calls that write nothing begin, go on and end. *)
LEMMA QuietRooted ==
  ASSUME Calls, Rooted, Start \/ Descend \/ SearchLeaf
  PROVE  Rooted'
<1>1. /\ pc \in {"idle", "seek"} /\ pc' \in {"idle", "seek"}
      /\ UNCHANGED <<hdr, mem, disk, stack, inserted>>
  BY DEF Start, BptreeInsert, BptreeSearch, BptreeDelete, Call, Descend, SearchLeaf,
         AtLeaf, file, ghost
<1>2. IInv' /\ LInv'
  BY StepInv, StepLinks DEF Rooted, Next, Step
<1>3. Headers'
  BY <1>1 DEF Headers, Rooted
<1>4. Frames'
  BY <1>1, FramesAt DEF Frames
<1>5. AllHeld'
  BY <1>1 DEF AllHeld, Rooted
<1> QED
  BY <1>1, <1>2, <1>3, <1>4, <1>5 DEF Rooted

(* A call begins with an entry that is not there, or a key. *)
LEMMA StartCalls == ASSUME Calls, mem.root \in Int, Start PROVE Calls'
<1> DEFINE Begun == /\ pc = "idle" /\ pc' = "seek" /\ at' = mem.root
                    /\ UNCHANGED <<disk, inserted, live, reply>>
<1>1. Durable' = Durable /\ Begun
  <2>1. Begun
    BY DEF Start, BptreeInsert, BptreeSearch, BptreeDelete, Call, file, ghost
  <2> QED
    BY <2>1 DEF Durable, Pending
<1>2. /\ arg' \in Arg
      /\ arg'.op = "insert" => Entry' \in Entries \ inserted
      /\ arg'.op # "insert" => arg'.key \in Keys
  <2>1. ASSUME NEW e \in Entries, BptreeInsert(e) PROVE <1>2
    <3>1. arg' = [op |-> "insert", key |-> e[1], dat |-> e[2]] /\ e \notin inserted
      BY <2>1 DEF BptreeInsert, Call
    <3>2. e = <<e[1], e[2]>> /\ e[1] \in Int /\ e[2] \in Int
      BY EntriesAssumption
    <3> QED
      BY <3>1, <3>2 DEF Arg, Entry
  <2>2. ASSUME NEW k \in Keys, BptreeSearch(k) \/ BptreeDelete(k) PROVE <1>2
    BY <2>2, KeysAssumption DEF BptreeSearch, BptreeDelete, Call, Arg
  <2> QED
    BY <2>1, <2>2 DEF Start
<1> HIDE DEF Begun
<1>3. /\ pc' = "seek" /\ at' \in Int /\ UNCHANGED <<disk, inserted, live, reply>>
  BY <1>1 DEF Begun
<1> QED
  BY <1>1, <1>2, <1>3 DEF Calls

(* A search looks and answers. *)
LEMMA LookCalls == ASSUME Calls, Rooted, Descend \/ SearchLeaf PROVE Calls'
<1>1. /\ pc = "seek" /\ pc' \in {"idle", "seek"}
      /\ UNCHANGED <<disk, inserted, live, arg>>
      /\ reply' = reply \/ pc' = "idle"
  BY DEF Descend, SearchLeaf, AtLeaf, file, ghost
<1>2. Durable = inserted /\ Durable' = inserted
  BY <1>1 DEF Durable, Pending
<1>3. IInv'
  BY StepInv DEF Rooted, Next, Step
<1>4. at' \in Int /\ reply' \in Reply
  BY <1>3 DEF IInv, Scalars
<1>5. reply'.op = "search" =>
       \A r \in reply'.rows : r = NODE_EOF \/ <<reply'.key, r>> \in inserted
  BY <1>1, <1>3 DEF IInv, SearchSound
<1>6. Entry' = Entry
  BY <1>1 DEF Entry
<1> QED
  BY <1>1, <1>2, <1>4, <1>5, <1>6 DEF Calls

-----------------------------------------------------------------------------
(* No page has the number NODE_EOF. *)
LEMMA NoSuchPage == ASSUME disk \in Seq(Page) PROVE ~Present(NODE_EOF)
<1>1. DOMAIN disk = 1..Len(disk) /\ Len(disk) \in Nat
  BY LenProperties
<1> QED
  BY <1>1 DEF Present, NODE_EOF

(* The first root holds its entry. *)
LEMMA FirstRootHolds ==
  ASSUME NEW self \in Nat, NEW k, NEW d
  PROVE  /\ FirstRoot(self, k, d).isLeaf
         /\ FirstRoot(self, k, d).size = 1
         /\ Holds(FirstRoot(self, k, d), <<k, d>>)
<1> DEFINE root == FirstRoot(self, k, d)
<1>1. root.isLeaf /\ root.size = 1 /\ root.key[0] = k /\ root.dat[0] = d
  BY OrderAssumption DEF FirstRoot, NewBptreeNode
<1> HIDE DEF root
<1>2. Holds(root, <<k, d>>)
  BY <1>1 DEF Holds, HasEntry
<1> QED
  BY <1>1, <1>2 DEF root

(* The file gets its root, over the page a kill may have left there. *)
LEMMA FirstRooted == ASSUME Calls, Rootless, InsertFirst PROVE Calls' /\ Rooted'
<1> DEFINE root == FirstRoot(1, arg.key, arg.dat)
<1>1. /\ pc = "seek" /\ pc' = "flush" /\ arg.op = "insert"
      /\ mem' = [root |-> 1, size |-> 1] /\ hdr' = Empty
      /\ disk' = NodeFlush(disk, root)
      /\ inserted' = {Entry} /\ live' = {Entry}
      /\ UNCHANGED <<arg, at, stack, reply>>
  BY DEF InsertFirst, Inserted, Rootless, Entry, Empty
<1>2. /\ stack = <<>> /\ Len(disk) \in {0, 1} /\ disk \in Seq(Page)
      /\ arg \in Arg /\ at \in Int /\ reply \in Reply /\ Entry \in Entries
      /\ arg.key \in Int /\ arg.dat \in Int /\ Entry' = Entry
  <2>1. disk \in Seq(Page) /\ Len(disk) <= 1 /\ stack = <<>>
    BY DEF Calls, Rootless
  <2>2. Len(disk) \in {0, 1}
    <3>1. Len(disk) \in Nat
      BY <2>1, LenProperties
    <3> QED
      BY <2>1, <3>1
  <2>3. /\ arg \in Arg /\ at \in Int /\ reply \in Reply /\ Entry \in Entries
    BY <1>1 DEF Calls
  <2>4. arg.key \in Int /\ arg.dat \in Int /\ Entry' = Entry
    BY <1>1, <2>3 DEF Arg, Entry
  <2> QED
    BY <2>1, <2>2, <2>3, <2>4
<1>3. Good(root, {Entry}) /\ root.self = 1 /\ root.parent = NODE_EOF
  <2>1. Entry \in {Entry} /\ Entry = <<arg.key, arg.dat>>
    BY DEF Entry
  <2> QED
    BY <1>2, <2>1, FirstRootNode
<1>4. root.isLeaf /\ Holds(root, Entry)
  BY FirstRootHolds DEF Entry
<1> HIDE DEF root
<1>5. disk' \in Seq(Page) /\ Pages(disk') = {1} /\ disk'[1] = root /\ Len(disk') = 1
  <2>1. /\ disk' \in Seq(Page) /\ Pages(disk') = Pages(disk) \cup {1} /\ disk'[1] = root
    BY <1>1, <1>2, <1>3, FlushPages DEF Good
  <2>2. Pages(disk) \subseteq {1}
    BY <1>2, LenProperties DEF Pages
  <2>3. disk' = [p \in 1..1 |-> IF p = 1 THEN root
                                ELSE IF p <= Len(disk) THEN disk[p] ELSE Hole]
    BY <1>1, <1>2, <1>3 DEF NodeFlush
  <2>4. DOMAIN disk' = 1..1
    BY <2>3
  <2>5. Len(disk') = 1
    BY <2>1, <2>4, LenProperties
  <2> QED
    BY <2>1, <2>2, <2>5
<1>6. FileOK(disk', 1, {Entry}, {})
  BY <1>3, <1>5 DEF FileOK, Settled
<1>7. stack' = <<>> /\ stack' \in Seq(Frame) /\ DOMAIN stack' = {} /\ Len(stack') = 0
  BY <1>1, <1>2
<1>8. Durable = {} /\ Durable' = {}
  <2>1. hdr' # mem'
    BY <1>1 DEF Empty, NODE_EOF
  <2> QED
    BY <1>1, <1>2, <2>1 DEF Durable, Pending, Rootless, Entry
<1>9. reply.op = "search" => \A r \in reply.rows : r = NODE_EOF
  BY <1>8 DEF Calls
<1>10. Calls'
  BY <1>1, <1>2, <1>5, <1>8, <1>9 DEF Calls
<1>11. IInv'
  <2>1. Scalars'
    <3>1. inserted' \subseteq Int \X Int
      BY <1>1, <1>2 DEF Entry
    <3> QED
      BY <1>1, <1>2, <3>1 DEF Scalars, Header, Empty, NODE_EOF
  <2>2. SearchSound'
    BY <1>1, <1>9 DEF SearchSound
  <2>3. StackOK(stack', disk', 1, {Entry})
    BY <1>7 DEF StackOK
  <2> QED
    BY <1>1, <1>6, <1>7, <2>1, <2>2, <2>3 DEF IInv
<1>12. LInv'
  <2>1. NodesOf(disk', stack') = {root}
    BY <1>5, <1>7 DEF NodesOf
  <2> QED
    BY <1>1, <1>4, <1>5, <2>1 DEF LInv, Linked, PointsInto, Begins
<1>13. Headers'
  BY <1>1, <1>2, <1>5 DEF Headers
<1>14. Frames' /\ AllHeld'
  <2>1. Held(disk', Entry)
    BY <1>4, <1>5 DEF Held
  <2> QED
    BY <1>1, <1>2, <1>7, <2>1 DEF Frames, AllHeld
<1> QED
  BY <1>1, <1>5, <1>10, <1>11, <1>12, <1>13, <1>14 DEF Rooted

(* Nothing is found in a file without a root. *)
LEMMA RootlessStep ==
  ASSUME Calls, Rootless, Start \/ Step
  PROVE  Calls' /\ (Rootless' \/ Rooted')
<1>1. CASE Start
  <2>1. /\ pc' = "seek" /\ at' = mem.root /\ UNCHANGED <<hdr, mem, disk, stack, inserted, live>>
    BY <1>1 DEF Start, BptreeInsert, BptreeSearch, BptreeDelete, Call, file, ghost
  <2>2. mem.root = NODE_EOF /\ mem.root \in Int
    BY DEF Rootless, Empty, NODE_EOF
  <2> QED
    BY <1>1, <2>1, <2>2, StartCalls DEF Rootless
<1>2. CASE Step
  <2>1. InsertFirst \/ NotFound
    <3>1. pc \in {"idle", "seek"} /\ (pc = "seek" => ~Present(at))
      BY NoSuchPage DEF Rootless, Calls
    <3> QED
      BY <1>2, <3>1 DEF Step, Descend, InsertIntoLeafNode, AtLeaf, NewRoot, InsertIntoNode,
         SplitNode, Return, BptreeFlush, SearchLeaf, DeleteLeaf
  <2>2. CASE NotFound
    <3>1. /\ pc = "seek" /\ pc' = "idle" /\ arg.op # "insert"
          /\ reply' = [op |-> arg.op, key |-> arg.key, rows |-> {}]
          /\ live' \subseteq live
          /\ UNCHANGED <<file, arg, at, stack, inserted>>
      BY <2>2 DEF NotFound
    <3>2. reply' \in Reply
      BY <3>1 DEF Calls, Arg, Reply
    <3>3. Rootless'
      BY <3>1 DEF Rootless, file
    <3>4. Calls'
      BY <3>1, <3>2 DEF Calls, file
    <3> QED
      BY <3>3, <3>4
  <2> QED
    BY <2>1, <2>2, FirstRooted
<1> QED
  BY <1>1, <1>2

-----------------------------------------------------------------------------
(* With a root a call stands at a page. *)
LEMMA RootedAt == ASSUME Rooted, pc = "seek" PROVE Present(at) /\ at \in Pages(disk)
<1>1. Begins(disk, at) /\ mem.root \in Pages(disk) /\ IInv
  BY DEF Rooted, LInv
<1>2. at \in Pages(disk)
  <2>1. disk = <<>> => DOMAIN disk = {}
    OBVIOUS
  <2> QED
    BY <1>1, <2>1 DEF Begins, Pages
<1> QED
  BY <1>2 DEF Present, Pages

(* The leaf of an insertion with the entry in it. *)
LEMMA EnteredLeaf ==
  ASSUME Calls, Rooted, InsertIntoLeafNode,
         NEW node, node = InsertEntry(disk[at], arg.key, arg.dat)
  PROVE  /\ at \in Pages(disk) /\ at >= 1 /\ disk[at] \in BptreeNode
         /\ disk[at].self = at /\ disk[at].isLeaf /\ disk[at].size < M
         /\ Initialised(disk[at]) /\ Sorted(disk[at])
         /\ node \in BptreeNode /\ node.self = at /\ node.isLeaf
         /\ Initialised(node) /\ Sorted(node)
         /\ Holds(node, Entry) /\ \A e : Holds(disk[at], e) => Holds(node, e)
<1>1. at \in Pages(disk) /\ disk[at].isLeaf /\ IInv
  BY RootedAt DEF InsertIntoLeafNode, AtLeaf, Rooted
<1>2. /\ Good(disk[at], inserted) /\ disk[at].self = at /\ at >= 1
      /\ arg.key \in Int /\ arg.dat \in Int
  BY <1>1, FileFacts, EntryTyped
<1>3. /\ disk[at] \in BptreeNode /\ disk[at].size < M
      /\ Initialised(disk[at]) /\ Sorted(disk[at])
  BY <1>2 DEF Good
<1>4. /\ node \in BptreeNode /\ node.self = at /\ node.isLeaf
      /\ Initialised(node) /\ Sorted(node)
  BY <1>1, <1>2, <1>3, InsertEntryNode
<1>5. Holds(node, <<arg.key, arg.dat>>) /\ \A e : Holds(disk[at], e) => Holds(node, e)
  BY <1>2, <1>3, InsertEntryKeeps
<1> QED
  BY <1>1, <1>2, <1>3, <1>4, <1>5 DEF Entry

(* An entry goes into a leaf with room. *)
LEMMA EnterRooted ==
  ASSUME Calls, Rooted, InsertIntoLeafNode, pc' = "flush"
  PROVE  Calls' /\ Rooted' /\ hdr' = mem' /\ Durable' = Durable \cup {Entry}
<1> DEFINE node == InsertEntry(disk[at], arg.key, arg.dat)
<1>1. /\ pc = "seek" /\ arg.op = "insert" /\ disk' = NodeFlush(disk, node)
      /\ inserted' = inserted \cup {Entry} /\ live' = live \cup {Entry}
      /\ UNCHANGED <<hdr, mem, stack, arg, at, reply>>
  BY DEF InsertIntoLeafNode, AtLeaf, Inserted, Entry
<1>2. /\ at \in Pages(disk) /\ at >= 1 /\ disk[at].isLeaf
      /\ node \in BptreeNode /\ node.self = at /\ node.isLeaf
      /\ Holds(node, Entry) /\ \A e : Holds(disk[at], e) => Holds(node, e)
  BY EnteredLeaf
<1> HIDE DEF node
<1>3. hdr' = mem' /\ hdr = mem /\ Entry' = Entry
      /\ Durable = inserted /\ Durable' = inserted'
  BY <1>1 DEF Headers, Rooted, Durable, Pending, Entry
<1>4. IInv' /\ LInv'
  BY StepInv, StepLinks DEF Rooted, Next, Step
<1>5. /\ disk' \in Seq(Page) /\ Pages(disk') = Pages(disk) /\ disk'[at] = node
      /\ \A p \in Pages(disk) : p # at => disk'[p] = disk[p]
  <2>1. /\ disk \in Seq(Page) /\ node \in BptreeNode /\ node.self >= 1
        /\ disk' = NodeFlush(disk, node)
    BY <1>1, <1>2 DEF Calls
  <2>2. /\ disk' \in Seq(Page) /\ Pages(disk') = Pages(disk) \cup {node.self}
        /\ disk'[node.self] = node
        /\ \A p \in Pages(disk) : p # node.self => disk'[p] = disk[p]
    BY <2>1, FlushPages
  <2> QED
    BY <1>2, <2>2
<1>6. AllHeld'
  <2> SUFFICES ASSUME NEW e \in inserted' PROVE Held(disk', e)
    BY DEF AllHeld
  <2>1. CASE e = Entry
    BY <1>2, <1>5, <2>1 DEF Held
  <2>2. CASE e # Entry
    <3>1. Held(disk, e)
      BY <1>1, <2>2 DEF Rooted, AllHeld
    <3> QED
      BY <1>2, <1>5, <3>1 DEF Held
  <2> QED
    BY <2>1, <2>2
<1>7. Headers'
  BY <1>1, <1>3 DEF Rooted, Headers
<1>8. Frames'
  <2>1. DOMAIN stack' = {}
    BY <1>1, FramesAt
  <2> QED
    BY <2>1 DEF Frames
<1>9. Calls'
  BY <1>1, <1>3, <1>5 DEF Calls
<1> QED
  BY <1>1, <1>3, <1>4, <1>5, <1>6, <1>7, <1>8, <1>9 DEF Rooted

(* An entry goes into a full leaf: both halves wait on the stack. *)
LEMMA SplitLeafRooted ==
  ASSUME Calls, Rooted, InsertIntoLeafNode, pc' # "flush"
  PROVE  Calls' /\ Rooted' /\ Durable' = Durable
<1> DEFINE node == InsertEntry(disk[at], arg.key, arg.dat)
           self == mem.size + 1
           low  == LowerHalf(node)
           upp  == UpperHalf(node, self)
<1>1. /\ pc = "seek" /\ arg.op = "insert" /\ pc' = "climb"
      /\ node.size = M
      /\ mem' = [mem EXCEPT !.size = self]
      /\ stack' = Append(stack, [left |-> low, right |-> upp])
      /\ inserted' = inserted \cup {Entry} /\ live' = live \cup {Entry}
      /\ UNCHANGED <<hdr, disk, arg, at, reply>>
  BY DEF InsertIntoLeafNode, AtLeaf, Inserted, Entry
<1>2. /\ at \in Pages(disk)
      /\ node \in BptreeNode /\ node.self = at /\ node.isLeaf
      /\ Initialised(node) /\ Sorted(node)
      /\ Holds(node, Entry) /\ \A e : Holds(disk[at], e) => Holds(node, e)
  BY EnteredLeaf
<1> HIDE DEF node
<1>3. hdr = mem /\ Entry' = Entry /\ Entry \in Entries \ inserted
      /\ Durable = inserted /\ Durable' = inserted
  BY <1>1 DEF Headers, Rooted, Durable, Pending, Entry, Calls
<1>4. IInv' /\ LInv'
  BY StepInv, StepLinks DEF Rooted, Next, Step
<1>5. low.self = at /\ low.isLeaf
  BY <1>1, <1>2, LowerHalfNode
<1>6. ASSUME NEW e, Holds(node, e)
      PROVE  HasEntry(low, e, 0..M-1) /\ (Holds(low, e) \/ Holds(upp, e))
  BY <1>1, <1>2, <1>6, HalvesKeep
<1> HIDE DEF low, upp, self
<1>7. stack = <<>>
  <2>1. Len(stack) = 0 /\ stack \in Seq(Frame)
    BY <1>1, FramesAt DEF Rooted, IInv, StackOK
  <2> QED
    BY <2>1, EmptySeq
<1>8. DOMAIN stack' = {1} /\ stack'[1].left = low /\ stack'[1].right = upp
  BY <1>1, <1>7
<1>9. Headers'
  <2>1. mem \in Header /\ mem'.root = mem.root /\ mem'.size = self /\ mem.size < self
        /\ hdr.root # NODE_EOF /\ hdr # Trashed
    <3>1. mem \in Header /\ mem.size \in Nat
      BY FileFacts DEF Rooted, IInv, Scalars
    <3>2. mem'.root = mem.root /\ mem'.size = self
      BY <1>1, <3>1 DEF Header
    <3>3. hdr # Trashed
      BY <1>3, <3>1, TrashedAssumption DEF Header
    <3> QED
      BY <1>1, <3>1, <3>2, <3>3 DEF self, Rooted, Headers
  <2>2. FileOK(disk, hdr.size, inserted, {}) /\ Linked(disk, <<>>)
    BY <1>3, <1>7 DEF Rooted, IInv, LInv
  <2> QED
    BY <1>1, <1>3, <2>1, <2>2 DEF Headers
<1>10. Frames'
  <2>1. Carried(disk[at], low, upp, inserted', Entry)
    BY <1>2, <1>6 DEF Carried
  <2> QED
    BY <1>1, <1>3, <1>5, <1>8, <2>1 DEF Frames
<1>11. AllHeld'
  BY <1>1, <1>3 DEF AllHeld, Rooted
<1>12. Calls'
  BY <1>1, <1>3 DEF Calls
<1>13. mem'.root = mem.root
  BY <1>9, <1>1, <1>3 DEF Headers
<1> QED
  BY <1>1, <1>3, <1>4, <1>9, <1>10, <1>11, <1>12, <1>13 DEF Rooted

-----------------------------------------------------------------------------
(* Writing an internal page, a new one or over another, spares the leaves. *)
LEMMA LeavesSpared ==
  ASSUME NEW f \in Seq(Page), NEW n \in BptreeNode, n.self >= 1,
         n.self \in Pages(f) => ~f[n.self].isLeaf,
         NEW g, g = NodeFlush(f, n)
  PROVE  /\ \A p \in Pages(f) : f[p].isLeaf => p \in Pages(g) /\ g[p] = f[p]
         /\ \A e : Held(f, e) => Held(g, e)
         /\ g \in Seq(Page) /\ Pages(g) = Pages(f) \cup {n.self}
<1>1. /\ g \in Seq(Page) /\ Pages(g) = Pages(f) \cup {n.self}
      /\ \A p \in Pages(f) : p # n.self => g[p] = f[p]
  BY FlushPages
<1>2. \A p \in Pages(f) : f[p].isLeaf => p \in Pages(g) /\ g[p] = f[p]
  BY <1>1
<1>3. \A e : Held(f, e) => Held(g, e)
  BY <1>2 DEF Held
<1> QED
  BY <1>1, <1>2, <1>3

(* Another parent changes no entry. *)
LEMMA ReparentedEntries ==
  ASSUME NEW n \in BptreeNode, NEW q
  PROVE  SameEntries([n EXCEPT !.parent = q], n)
  BY DEF SameEntries, BptreeNode

(* A node is like itself. *)
LEMMA SameAlways == \A n : SameEntries(n, n)
  BY DEF SameEntries

(* The outermost frame: a leaf of the file and its halves. *)
LEMMA OuterFrame ==
  ASSUME Rooted, pc \in {"climb", "unwind"}
  PROVE  /\ 1 \in DOMAIN stack /\ DOMAIN stack = 1..Len(stack) /\ Len(stack) > 0
         /\ Len(stack) \in Nat
         /\ stack[1].left.self \in Pages(disk) /\ disk[stack[1].left.self].isLeaf
         /\ stack[1].left.isLeaf
         /\ Carried(disk[stack[1].left.self], stack[1].left, stack[1].right, inserted, Entry)
<1>1. 1 \in DOMAIN stack /\ DOMAIN stack = 1..Len(stack) /\ Len(stack) > 0 /\ Len(stack) \in Nat
  BY FramesAt
<1>2. stack[1].left.isLeaf
  BY <1>1 DEF Rooted, Frames
<1>3. FrameOK(stack, 1, disk, mem.size, inserted)
  BY <1>1 DEF Rooted, IInv, StackOK
<1> QED
  BY <1>1, <1>2, <1>3 DEF Rooted, Frames, FrameOK

(* Frames that keep their entries still have them. *)
LEMMA StillCarried ==
  ASSUME Rooted, pc \in {"climb", "unwind"},
         NEW g, g[stack[1].left.self] = disk[stack[1].left.self],
         NEW l, NEW r, l.self = stack[1].left.self,
         SameEntries(l, stack[1].left), SameEntries(r, stack[1].right)
  PROVE  Carried(g[l.self], l, r, inserted, Entry)
<1>1. Carried(disk[stack[1].left.self], stack[1].left, stack[1].right, inserted, Entry)
  BY OuterFrame
<1>2. \A e : /\ Holds(l, e) <=> Holds(stack[1].left, e)
             /\ HasEntry(l, e, 0..M-1) <=> HasEntry(stack[1].left, e, 0..M-1)
             /\ Holds(r, e) <=> Holds(stack[1].right, e)
  BY SameHolds
<1> QED
  BY <1>1, <1>2 DEF Carried

(* Inside an insertion that splits only the file changes. *)
LEMMA InnerCalls ==
  ASSUME Calls, Rooted, IInv', pc \in {"climb", "unwind"},
         pc' \in {"climb", "unwind"} \/ (pc' = "flush" /\ hdr' # mem'),
         UNCHANGED <<arg, at, ghost>>
  PROVE  Calls' /\ Durable' = Durable /\ Entry' = Entry
<1>1. Entry' = Entry /\ Durable' = Durable /\ UNCHANGED <<inserted, live, reply>>
  BY DEF Entry, Durable, Pending, ghost
<1>2. disk' \in Seq(Page)
  BY DEF IInv, FileOK
<1> QED
  BY <1>1, <1>2 DEF Calls

(* All frames but the innermost are untouched, and it keeps its entries. *)
LEMMA InnerFrames ==
  ASSUME Rooted, pc \in {"climb", "unwind"}, UNCHANGED <<arg, inserted>>,
         NEW st, DOMAIN st = DOMAIN stack,
         \A i \in DOMAIN stack : /\ st[i].left.self = stack[i].left.self
                                 /\ SameEntries(st[i].left, stack[i].left)
                                 /\ SameEntries(st[i].right, stack[i].right),
         NEW g, \A p \in Pages(disk) : disk[p].isLeaf => g[p] = disk[p]
  PROVE  /\ \A i \in DOMAIN st : st[i].left.isLeaf <=> i = 1
         /\ Carried(g[st[1].left.self], st[1].left, st[1].right, inserted, Entry)
<1>1. /\ 1 \in DOMAIN stack /\ stack[1].left.self \in Pages(disk)
      /\ disk[stack[1].left.self].isLeaf
  BY OuterFrame
<1>2. Carried(g[st[1].left.self], st[1].left, st[1].right, inserted, Entry)
  BY <1>1, StillCarried
<1> QED
  BY <1>2 DEF Rooted, Frames, SameEntries

(* The innermost frame with new parents. *)
LEMMA Rehung ==
  ASSUME Rooted, pc \in {"climb", "unwind"},
         NEW l, NEW r, NEW a \in Int, NEW b \in Int,
         l = Top.left \/ l = [Top.left EXCEPT !.parent = a],
         r = Top.right \/ r = [Top.right EXCEPT !.parent = b],
         NEW st, st = WithTop(l, r)
  PROVE  /\ st \in Seq(Frame) /\ DOMAIN st = DOMAIN stack /\ Len(st) = Len(stack)
         /\ \A i \in DOMAIN stack : /\ st[i].left.self = stack[i].left.self
                                    /\ SameEntries(st[i].left, stack[i].left)
                                    /\ SameEntries(st[i].right, stack[i].right)
<1> DEFINE n == Len(stack)
<1>1. /\ IInv /\ n > 0 /\ n \in DOMAIN stack
      /\ Good(Top.left, inserted) /\ Good(Top.right, inserted)
      /\ Top.left \in BptreeNode /\ Top.right \in BptreeNode
  BY OuterFrame, TopFrame DEF Rooted, FrameOK, Top, Good
<1> DEFINE Like(m, o) == /\ Good(m, inserted) /\ m.self = o.self /\ m.isLeaf = o.isLeaf
                         /\ m.size = o.size /\ SameEntries(m, o)
<1>2. ASSUME NEW o \in BptreeNode, Good(o, inserted), NEW q \in Int
      PROVE  Like(o, o) /\ Like([o EXCEPT !.parent = q], o)
  <2>1. SameEntries([o EXCEPT !.parent = q], o)
    BY ReparentedEntries
  <2>2. SameEntries(o, o)
    BY SameAlways
  <2>3. /\ Good([o EXCEPT !.parent = q], inserted)
        /\ [o EXCEPT !.parent = q].self = o.self
        /\ [o EXCEPT !.parent = q].isLeaf = o.isLeaf
        /\ [o EXCEPT !.parent = q].size = o.size
    BY <1>2, Reparented
  <2> QED
    BY <1>2, <2>1, <2>2, <2>3
<1> HIDE DEF Like
<1>3. Like(l, Top.left) /\ Like(r, Top.right)
  BY <1>1, <1>2
<1>4. /\ Good(l, inserted) /\ l.self = Top.left.self /\ l.isLeaf = Top.left.isLeaf
      /\ SameEntries(l, Top.left)
  BY <1>3 DEF Like
<1>5. /\ Good(r, inserted) /\ r.self = Top.right.self /\ r.isLeaf = Top.right.isLeaf
      /\ r.size = Top.right.size /\ SameEntries(r, Top.right)
  BY <1>3 DEF Like
<1>6. /\ st \in Seq(Frame) /\ Len(st) = n /\ DOMAIN st = DOMAIN stack
      /\ st[n] = [left |-> l, right |-> r]
      /\ \A i \in DOMAIN stack : i # n => st[i] = stack[i]
  BY <1>1, <1>4, <1>5, TopReplaced
<1>7. stack[n] = Top
  BY DEF Top
<1> HIDE DEF n
<1>8. ASSUME NEW i \in DOMAIN stack
      PROVE  /\ st[i].left.self = stack[i].left.self
             /\ SameEntries(st[i].left, stack[i].left)
             /\ SameEntries(st[i].right, stack[i].right)
  <2>1. CASE i = n
    BY <1>4, <1>5, <1>6, <1>7, <2>1
  <2>2. CASE i # n
    BY <1>6, <2>2, SameAlways
  <2> QED
    BY <2>1, <2>2
<1> QED
  BY <1>6, <1>8 DEF n

(* A new root is written over the old one. *)
LEMMA NewRootRooted == ASSUME Calls, Rooted, NewRoot PROVE Calls' /\ Rooted' /\ Durable' = Durable
<1> DEFINE self == mem.size + 1
           k    == Top.right.key[0]
           a    == Top.left.self
           b    == Top.right.self
           root == RootOver(self, k, a, b)
           l    == [Top.left EXCEPT !.parent = self]
           r    == [Top.right EXCEPT !.parent = self]
<1>1. /\ pc = "climb" /\ pc' = "unwind"
      /\ mem' = [root |-> self, size |-> self]
      /\ disk' = NodeFlush(disk, root)
      /\ stack' = WithTop(l, r)
      /\ UNCHANGED <<hdr, arg, at, ghost>>
  BY DEF NewRoot
<1>2. IInv /\ Len(stack) > 0
  BY <1>1, OuterFrame DEF Rooted
<1>3. /\ self \in Nat /\ self \in Int /\ self >= 1 /\ mem.size < self /\ self \notin Pages(disk)
      /\ k \in Int /\ a \in Int /\ b \in Int
  BY <1>2, TopFrame, FileFacts
<1>4. root \in BptreeNode /\ root.self = self
  <2> HIDE DEF self, k, a, b
  <2>1. Good(root, inserted)
    BY <1>3, RootOverNode
  <2> QED
    BY <2>1 DEF Good, RootOver, NewBptreeNode
<1> HIDE DEF self, root
<1>5. IInv' /\ LInv'
  BY StepInv, StepLinks DEF Rooted, Next, Step
<1>6. /\ \A p \in Pages(disk) : disk[p].isLeaf => disk'[p] = disk[p]
      /\ \A e : Held(disk, e) => Held(disk', e)
      /\ Pages(disk') = Pages(disk) \cup {self}
  <2>1. disk \in Seq(Page) /\ root.self >= 1 /\ root.self \notin Pages(disk)
    BY <1>3, <1>4 DEF Calls
  <2> QED
    BY <1>1, <1>4, <2>1, LeavesSpared
<1>7. Frames'
  <2> HIDE DEF l, r
  <2>1. l = [Top.left EXCEPT !.parent = self] /\ r = [Top.right EXCEPT !.parent = self]
    BY DEF l, r
  <2>2. /\ DOMAIN stack' = DOMAIN stack
        /\ \A i \in DOMAIN stack : /\ stack'[i].left.self = stack[i].left.self
                                   /\ SameEntries(stack'[i].left, stack[i].left)
                                   /\ SameEntries(stack'[i].right, stack[i].right)
    BY <1>1, <1>3, <2>1, Rehung
  <2>3. /\ \A i \in DOMAIN stack' : stack'[i].left.isLeaf <=> i = 1
        /\ Carried(disk'[stack'[1].left.self], stack'[1].left, stack'[1].right, inserted, Entry)
    <3>1. UNCHANGED <<arg, inserted>>
      BY <1>1 DEF ghost
    <3> QED
      BY <1>1, <1>6, <2>2, <3>1, InnerFrames
  <2> QED
    BY <1>1, <2>3 DEF Frames, Entry, ghost
<1>8. AllHeld'
  BY <1>1, <1>6 DEF Rooted, AllHeld, Entry, ghost
<1>9. Headers'
  <2>1. hdr \in Header /\ hdr.size \in Nat /\ mem.size \in Nat
    BY <1>1, <1>2, HeaderFields, FileFacts DEF Rooted, Headers
  <2>2. hdr.size < mem.size
    BY <1>1 DEF Rooted, Headers
  <2>3. mem'.size = self /\ hdr'.size < mem'.size
    BY <1>1, <1>3, <2>1, <2>2
  <2> QED
    BY <1>1, <2>3 DEF Rooted, Headers
<1>10. Calls' /\ Durable' = Durable
  BY <1>1, <1>5, InnerCalls
<1> QED
  BY <1>1, <1>5, <1>6, <1>7, <1>8, <1>9, <1>10 DEF Rooted

(* The parent takes the new child. *)
LEMMA InsertIntoNodeRooted ==
  ASSUME Calls, Rooted, InsertIntoNode PROVE Calls' /\ Rooted' /\ Durable' = Durable
<1>1. /\ pc = "climb" /\ pc' = "unwind" /\ Present(Top.left.parent)
      /\ disk' = NodeFlush(disk, Grown)
      /\ UNCHANGED <<hdr, mem, arg, at, stack, ghost>>
  BY DEF InsertIntoNode
<1>2. IInv /\ Len(stack) > 0
  BY <1>1, OuterFrame DEF Rooted
<1>3. /\ Grown \in BptreeNode /\ Grown.self >= 1
      /\ Grown.self \in Pages(disk) /\ ~disk[Grown.self].isLeaf
  <2>1. /\ Grown \in BptreeNode /\ Grown.self \in Pages(disk)
        /\ disk[Grown.self].isLeaf = FALSE /\ Grown.self \in 1..mem.size
    BY <1>1, <1>2, GrownNode
  <2>2. mem.size \in Nat
    BY <1>2, FileFacts
  <2> QED
    BY <2>1, <2>2
<1>4. IInv' /\ LInv'
  BY StepInv, StepLinks DEF Rooted, Next, Step
<1>5. /\ \A p \in Pages(disk) : disk[p].isLeaf => disk'[p] = disk[p]
      /\ \A e : Held(disk, e) => Held(disk', e)
      /\ Pages(disk') = Pages(disk) \cup {Grown.self}
  BY <1>1, <1>3, LeavesSpared DEF Calls
<1>6. Frames'
  <2>1. /\ \A i \in DOMAIN stack : stack[i].left.isLeaf <=> i = 1
        /\ Carried(disk'[stack[1].left.self], stack[1].left, stack[1].right, inserted, Entry)
    BY <1>1, <1>5, OuterFrame DEF Rooted, Frames
  <2> QED
    BY <1>1, <2>1 DEF Frames, Entry, ghost
<1>7. AllHeld'
  BY <1>1, <1>5 DEF Rooted, AllHeld, Entry, ghost
<1>8. Headers'
  BY <1>1 DEF Rooted, Headers
<1>9. Calls' /\ Durable' = Durable
  BY <1>1, <1>4, InnerCalls
<1> QED
  BY <1>1, <1>4, <1>5, <1>6, <1>7, <1>8, <1>9 DEF Rooted

(* The parent is split in its turn: a frame with the halves of a node. *)
LEMMA SplitNodeRooted ==
  ASSUME Calls, Rooted, SplitNode PROVE Calls' /\ Rooted' /\ Durable' = Durable
<1> DEFINE self     == mem.size + 1
           newLeft  == LowerHalf(Grown)
           newRight == UpperHalf(Grown, self)
           Moved(n) == IF n.self \in Children(newRight)
                       THEN [n EXCEPT !.parent = self] ELSE n
           l   == Moved(Top.left)
           r   == Moved(Top.right)
           st  == WithTop(l, r)
           new == [left |-> newLeft, right |-> newRight]
           n   == Len(stack)
<1>1. /\ pc = "climb" /\ pc' = pc /\ Present(Top.left.parent) /\ Grown.size = M
      /\ mem' = [mem EXCEPT !.size = self] /\ disk' = disk
      /\ stack' = Append(st, new)
      /\ UNCHANGED <<hdr, arg, at, ghost>>
  BY DEF SplitNode
<1>2. IInv /\ Len(stack) > 0 /\ n \in Nat /\ DOMAIN stack = 1..n /\ 1 \in DOMAIN stack
  BY <1>1, OuterFrame DEF Rooted
<1>3. self \in Nat /\ self \in Int /\ mem.size \in Nat /\ mem.size < self
  BY <1>2, FileFacts
<1>4. IInv' /\ LInv'
  BY StepInv, StepLinks DEF Rooted, Next, Step
<1>5. l = Top.left \/ l = [Top.left EXCEPT !.parent = self]
  OBVIOUS
<1>6. r = Top.right \/ r = [Top.right EXCEPT !.parent = self]
  OBVIOUS
<1> HIDE DEF newRight, newLeft, l, r, self
<1>7. /\ st \in Seq(Frame) /\ DOMAIN st = DOMAIN stack /\ Len(st) = n
      /\ \A i \in DOMAIN stack : /\ st[i].left.self = stack[i].left.self
                                 /\ SameEntries(st[i].left, stack[i].left)
                                 /\ SameEntries(st[i].right, stack[i].right)
  BY <1>1, <1>3, <1>5, <1>6, Rehung
<1> HIDE DEF st
<1>8. newLeft.isLeaf = FALSE /\ new \in Frame
  <2>1. /\ Grown \in BptreeNode /\ Initialised(Grown) /\ Sorted(Grown) /\ Grown.isLeaf = FALSE
    BY <1>1, <1>2, GrownNode
  <2> DEFINE g == Grown
  <2>2. g \in BptreeNode /\ Initialised(g) /\ Sorted(g) /\ g.isLeaf = FALSE /\ g.size = M
    BY <1>1, <2>1
  <2>3. newLeft = LowerHalf(g) /\ newRight = UpperHalf(g, self)
    BY DEF newLeft, newRight
  <2> HIDE DEF g
  <2>4. newLeft \in BptreeNode /\ newLeft.isLeaf = FALSE
    BY <2>2, <2>3, LowerHalfNode
  <2>5. newRight \in BptreeNode
    BY <1>3, <2>2, <2>3, UpperHalfNode
  <2> QED
    BY <2>4, <2>5 DEF Frame
<1>9. new.left = newLeft
  OBVIOUS
<1> HIDE DEF new, n
<1>10. /\ DOMAIN stack' = 1..n+1 /\ stack'[n + 1] = new
       /\ \A i \in 1..n : stack'[i] = st[i]
  <2>1. stack' = Append(st, new) /\ st \in Seq(Frame) /\ new \in Frame /\ Len(st) = n
        /\ DOMAIN st = 1..n
    BY <1>1, <1>2, <1>7, <1>8
  <2> QED
    BY <2>1, AppendProperties
<1>11. Frames'
  <2>1. /\ \A i \in DOMAIN st : st[i].left.isLeaf <=> i = 1
        /\ Carried(disk[st[1].left.self], st[1].left, st[1].right, inserted, Entry)
    <3>1. UNCHANGED <<arg, inserted>> /\ \A p \in Pages(disk) : disk[p].isLeaf => disk[p] = disk[p]
      BY <1>1 DEF ghost
    <3> QED
      BY <1>1, <1>7, <3>1, InnerFrames
  <2>2. stack'[1] = st[1]
    BY <1>2, <1>10
  <2>3. ASSUME NEW i \in DOMAIN stack' PROVE stack'[i].left.isLeaf <=> i = 1
    <3>1. CASE i = n + 1
      <4>1. n + 1 # 1
        BY <1>2 DEF n
      <4> QED
        BY <1>8, <1>9, <1>10, <3>1, <4>1
    <3>2. CASE i # n + 1
      <4>1. i \in 1..n
        BY <1>2, <1>10, <3>2
      <4> QED
        BY <1>2, <1>7, <1>10, <2>1, <4>1
    <3> QED
      BY <3>1, <3>2
  <2>4. Carried(disk'[stack'[1].left.self], stack'[1].left, stack'[1].right, inserted', Entry')
    BY <1>1, <2>1, <2>2 DEF Entry, ghost
  <2> QED
    BY <2>3, <2>4 DEF Frames
<1>12. AllHeld'
  BY <1>1 DEF Rooted, AllHeld, Entry, ghost
<1>13. Calls' /\ Durable' = Durable
  BY <1>1, <1>4, InnerCalls
<1>14. mem'.root = mem.root /\ mem'.size = self
  BY <1>1, <1>2 DEF IInv, Scalars, Header
<1>15. Headers'
  <2>1. hdr \in Header /\ hdr.size < mem.size /\ hdr.size \in Nat
    BY <1>1, HeaderFields DEF Rooted, Headers
  <2>2. hdr.size < self
    BY <1>3, <2>1
  <2> QED
    BY <1>1, <1>13, <1>14, <2>1, <2>2 DEF Rooted, Headers
<1> QED
  BY <1>1, <1>4, <1>11, <1>12, <1>13, <1>14, <1>15 DEF Rooted

-----------------------------------------------------------------------------
(* The file f when the pages of W have got the parent q. *)
Adopt(f, W, q) ==
  [p \in 1..Len(f) |-> IF p \in W /\ f[p] # Hole THEN [f[p] EXCEPT !.parent = q] ELSE f[p]]

(* The "update parent" loop, and any part of it, moves no entry. *)
LEMMA AdoptKeeps ==
  ASSUME NEW f \in Seq(Page), NEW W, NEW q \in Int, NEW g, g = Adopt(f, W, q)
  PROVE  /\ g \in Seq(Page) /\ Pages(g) = Pages(f)
         /\ \A p \in Pages(f) : SameEntries(g[p], f[p])
<1>1. /\ Len(f) \in Nat /\ DOMAIN f = 1..Len(f)
      /\ \A p \in 1..Len(f) : f[p] \in BptreeNode \cup {Hole}
  BY LenProperties, ElementOfSeq DEF Page
<1>2. /\ DOMAIN g = 1..Len(f)
      /\ \A p \in 1..Len(f) :
           g[p] = IF p \in W /\ f[p] # Hole THEN [f[p] EXCEPT !.parent = q] ELSE f[p]
  BY DEF Adopt
<1>3. ASSUME NEW n \in BptreeNode
      PROVE  [n EXCEPT !.parent = q] \in BptreeNode /\ [n EXCEPT !.parent = q] # Hole
  <2>1. [n EXCEPT !.parent = q] \in BptreeNode
    BY DEF BptreeNode
  <2> QED
    BY <2>1, HoleAssumption
<1>4. ASSUME NEW p \in 1..Len(f)
      PROVE  g[p] \in BptreeNode \cup {Hole} /\ (g[p] = Hole <=> f[p] = Hole)
  BY <1>1, <1>2, <1>3
<1>5. Pages(g) = Pages(f)
  BY <1>1, <1>2, <1>4 DEF Pages
<1>6. g \in Seq(Page)
  <2>1. \A p \in 1..Len(f) :
          (IF p \in W /\ f[p] # Hole THEN [f[p] EXCEPT !.parent = q] ELSE f[p]) \in Page
    BY <1>2, <1>4 DEF Page
  <2>2. g \in [1..Len(f) -> Page]
    BY <2>1 DEF Adopt
  <2> QED
    BY <2>2, <1>1
<1>7. ASSUME NEW p \in Pages(f) PROVE SameEntries(g[p], f[p])
  <2>1. p \in 1..Len(f) /\ f[p] \in BptreeNode
    BY <1>1 DEF Pages
  <2>2. g[p] = f[p] \/ g[p] = [f[p] EXCEPT !.parent = q]
    BY <1>2, <2>1
  <2>3. SameEntries(f[p], f[p]) /\ SameEntries([f[p] EXCEPT !.parent = q], f[p])
    BY <2>1, ReparentedEntries, SameAlways
  <2> QED
    BY <2>2, <2>3
<1> QED
  BY <1>5, <1>6, <1>7

(* The innermost frame and the two writes of Return. *)
LEMMA TwoWrites ==
  ASSUME Calls, Rooted, pc = "unwind",
         NEW f \in Seq(Page), Pages(f) = Pages(disk),
         NEW g, g = NodeFlush(NodeFlush(f, Top.left), Top.right)
  PROVE  /\ Pages(g) = Pages(disk) \cup {Top.right.self}
         /\ g[Top.right.self] = Top.right
         /\ g[Top.left.self] = Top.left
         /\ Top.left.self \in Pages(disk) /\ Top.right.self \notin Pages(disk)
         /\ \A p \in Pages(disk) : p # Top.left.self => g[p] = f[p]
<1>1. Len(stack) > 0 /\ IInv
  BY OuterFrame DEF Rooted
<1>2. /\ Top.left \in BptreeNode /\ Top.right \in BptreeNode
      /\ Top.left.self \in Pages(disk) /\ Top.right.self \in (1..mem.size) \ Pages(disk)
  BY <1>1, TopFrame DEF FrameOK, Good, Top
<1>3. mem.size \in Nat /\ Top.left.self >= 1 /\ Top.right.self >= 1
  BY <1>1, <1>2, FileFacts
<1> DEFINE l == Top.left
           r == Top.right
           h == NodeFlush(f, l)
<1>4. /\ l \in BptreeNode /\ r \in BptreeNode /\ l.self >= 1 /\ r.self >= 1
      /\ l.self \in Pages(disk) /\ r.self \notin Pages(disk) /\ g = NodeFlush(h, r)
  BY <1>2, <1>3
<1> HIDE DEF l, r
<1>5. /\ h \in Seq(Page) /\ Pages(h) = Pages(disk) /\ h[l.self] = l
      /\ \A p \in Pages(disk) : p # l.self => h[p] = f[p]
  <2>1. f \in Seq(Page) /\ l \in BptreeNode /\ l.self >= 1 /\ h = NodeFlush(f, l)
    BY <1>4
  <2> HIDE DEF h
  <2>2. /\ h \in Seq(Page) /\ Pages(h) = Pages(f) \cup {l.self} /\ h[l.self] = l
        /\ \A p \in Pages(f) : p # l.self => h[p] = f[p]
    BY <2>1, FlushPages
  <2> QED
    BY <1>4, <2>2
<1> HIDE DEF h
<1>6. /\ Pages(g) = Pages(h) \cup {r.self} /\ g[r.self] = r
      /\ \A p \in Pages(h) : p # r.self => g[p] = h[p]
  <2>1. h \in Seq(Page) /\ r \in BptreeNode /\ r.self >= 1 /\ g = NodeFlush(h, r)
    BY <1>4, <1>5
  <2> QED
    BY <2>1, FlushPages
<1>7. /\ Pages(g) = Pages(disk) \cup {r.self} /\ g[r.self] = r /\ g[l.self] = l
      /\ l.self \in Pages(disk) /\ r.self \notin Pages(disk)
      /\ \A p \in Pages(disk) : p # l.self => g[p] = f[p]
  BY <1>4, <1>5, <1>6
<1> QED
  BY <1>7 DEF l, r

(* What every Return does to file and stack. *)
LEMMA ReturnWrites ==
  ASSUME Calls, Rooted, Return
  PROVE  /\ pc = "unwind" /\ IInv' /\ LInv'
         /\ Pages(disk') = Pages(disk) \cup {Top.right.self}
         /\ disk'[Top.right.self] = Top.right /\ disk'[Top.left.self] = Top.left
         /\ Top.left.self \in Pages(disk) /\ Top.right.self \notin Pages(disk)
         /\ \A p \in Pages(disk) : p # Top.left.self => SameEntries(disk'[p], disk[p])
<1>1. /\ pc = "unwind"
      /\ disk' = NodeFlush(NodeFlush(IF Top.right.isLeaf THEN disk
                                     ELSE UpdateParent(disk, Top.right), Top.left), Top.right)
  BY DEF Return
<1>2. IInv' /\ LInv'
  BY StepInv, StepLinks DEF Rooted, Next, Step
<1> DEFINE f == IF Top.right.isLeaf THEN disk ELSE UpdateParent(disk, Top.right)
<1>3. f \in Seq(Page) /\ Pages(f) = Pages(disk) /\ \A p \in Pages(disk) : SameEntries(f[p], disk[p])
  <2>1. CASE Top.right.isLeaf
    BY <2>1, SameAlways DEF Calls
  <2>2. CASE ~Top.right.isLeaf
    <3>1. f = Adopt(disk, Children(Top.right), Top.right.self)
      BY <2>2 DEF UpdateParent, Adopt
    <3>2. Top.right.self \in Int /\ disk \in Seq(Page)
      BY <1>1, OuterFrame, TopFrame DEF Rooted, Calls
    <3> HIDE DEF f
    <3> QED
      BY <3>1, <3>2, AdoptKeeps
  <2> QED
    BY <2>1, <2>2
<1> HIDE DEF f
<1>4. disk' = NodeFlush(NodeFlush(f, Top.left), Top.right)
  BY <1>1 DEF f
<1> QED
  BY <1>1, <1>2, <1>3, <1>4, TwoWrites

(* The outermost frame returns: both halves of the leaf are in the file. *)
LEMMA ReturnOuterRooted ==
  ASSUME Calls, Rooted, Return, Len(stack) = 1
  PROVE  Calls' /\ Rooted' /\ Durable' = Durable /\ hdr' # mem'
<1>1. /\ pc' = "flush" /\ stack' = Pop(stack) /\ UNCHANGED <<mem, arg, at, ghost>>
      /\ Top.right.isLeaf => hdr' = hdr
  BY DEF Return
<1>2. /\ pc = "unwind" /\ IInv' /\ LInv'
      /\ Pages(disk') = Pages(disk) \cup {Top.right.self}
      /\ disk'[Top.right.self] = Top.right /\ disk'[Top.left.self] = Top.left
      /\ Top.left.self \in Pages(disk)
      /\ \A p \in Pages(disk) : p # Top.left.self => SameEntries(disk'[p], disk[p])
  BY ReturnWrites
<1>3. /\ Top = stack[1] /\ Top.left.isLeaf /\ Top.right.isLeaf
      /\ Carried(disk[Top.left.self], Top.left, Top.right, inserted, Entry)
  <2>1. /\ Top = stack[1] /\ Top.left.isLeaf
        /\ Carried(disk[Top.left.self], Top.left, Top.right, inserted, Entry)
    BY <1>2, OuterFrame DEF Top
  <2>2. FrameOK(stack, 1, disk, mem.size, inserted) /\ 1 \in DOMAIN stack
    BY <1>2, OuterFrame DEF Rooted, IInv, StackOK
  <2>3. Top.right.isLeaf
    BY <2>1, <2>2 DEF FrameOK
  <2> QED
    BY <2>1, <2>3
<1>4. hdr' = hdr /\ hdr' # mem'
  <2>1. mem \in Header /\ mem.size \in Nat /\ mem # Trashed
    BY FileFacts, TrashedAssumption DEF Rooted, IInv, Scalars, Header
  <2>2. hdr = Trashed \/ hdr.size < mem.size
    BY <1>2 DEF Rooted, Headers
  <2> QED
    BY <1>1, <1>3, <2>1, <2>2
<1>5. AllHeld'
  <2> SUFFICES ASSUME NEW e \in inserted PROVE Held(disk', e)
    BY <1>1 DEF AllHeld, ghost
  <2>1. ASSUME Holds(disk[Top.left.self], e) \/ e = Entry PROVE Held(disk', e)
    <3>1. Holds(Top.left, e) \/ Holds(Top.right, e)
      BY <1>3, <2>1 DEF Carried
    <3> QED
      BY <1>2, <1>3, <3>1 DEF Held
  <2>2. ASSUME NEW p \in Pages(disk), p # Top.left.self, disk[p].isLeaf, Holds(disk[p], e)
        PROVE  Held(disk', e)
    <3>1. SameEntries(disk'[p], disk[p])
      BY <1>2, <2>2
    <3>2. disk'[p].isLeaf /\ Holds(disk'[p], e)
      BY <2>2, <3>1, SameHolds DEF SameEntries
    <3> QED
      BY <1>2, <3>2 DEF Held
  <2>3. Held(disk, e) \/ e = Entry
    BY DEF Rooted, AllHeld
  <2> QED
    BY <2>1, <2>2, <2>3 DEF Held
<1>6. Headers'
  BY <1>1, <1>2, <1>4 DEF Rooted, Headers
<1>7. Frames'
  <2>1. DOMAIN stack' = {}
    BY <1>1 DEF Pop
  <2> QED
    BY <1>1, <2>1 DEF Frames
<1>8. Calls' /\ Durable' = Durable
  BY <1>1, <1>2, <1>4, InnerCalls
<1> QED
  BY <1>1, <1>2, <1>4, <1>5, <1>6, <1>7, <1>8 DEF Rooted

(* An inner frame returns: the leaves keep what they have. *)
LEMMA ReturnInnerRooted ==
  ASSUME Calls, Rooted, Return, Len(stack) # 1
  PROVE  Calls' /\ Rooted' /\ Durable' = Durable
<1> DEFINE n == Len(stack)
<1>1. /\ pc' = "unwind" /\ stack' = Pop(stack) /\ UNCHANGED <<mem, arg, at, ghost>>
      /\ hdr' = hdr \/ hdr' = Trashed
  BY DEF Return
<1>2. /\ pc = "unwind" /\ IInv' /\ LInv'
      /\ Pages(disk') = Pages(disk) \cup {Top.right.self}
      /\ Top.left.self \in Pages(disk)
      /\ \A p \in Pages(disk) : p # Top.left.self => SameEntries(disk'[p], disk[p])
  BY ReturnWrites
<1>3. n \in Nat /\ n > 1 /\ n \in DOMAIN stack /\ DOMAIN stack = 1..n
  BY <1>2, OuterFrame
<1>4. ~disk[Top.left.self].isLeaf
  <2>1. ~Top.left.isLeaf
    BY <1>3 DEF Rooted, Frames, Top
  <2>2. FrameOK(stack, n, disk, mem.size, inserted)
    BY <1>3 DEF Rooted, IInv, StackOK
  <2> QED
    BY <2>1, <2>2 DEF FrameOK, Top
<1>5. \A p \in Pages(disk) : disk[p].isLeaf => SameEntries(disk'[p], disk[p])
  BY <1>2, <1>4
<1>6. AllHeld'
  <2> SUFFICES ASSUME NEW e \in inserted, Held(disk, e) PROVE Held(disk', e)
    BY <1>1, <1>2 DEF AllHeld, Rooted, ghost, Entry
  <2>1. PICK p \in Pages(disk) : disk[p].isLeaf /\ Holds(disk[p], e)
    BY DEF Held
  <2>2. SameEntries(disk'[p], disk[p])
    BY <1>5, <2>1
  <2>3. disk'[p].isLeaf /\ Holds(disk'[p], e)
    BY <2>1, <2>2, SameHolds DEF SameEntries
  <2> QED
    BY <1>2, <2>3 DEF Held
<1>7. Frames'
  <2>1. /\ stack[1].left.self \in Pages(disk) /\ disk[stack[1].left.self].isLeaf
        /\ Carried(disk[stack[1].left.self], stack[1].left, stack[1].right, inserted, Entry)
    BY <1>2, OuterFrame
  <2>2. SameEntries(disk'[stack[1].left.self], disk[stack[1].left.self])
    BY <1>5, <2>1
  <2>3. Carried(disk'[stack[1].left.self], stack[1].left, stack[1].right, inserted, Entry)
    BY <2>1, <2>2, SameHolds DEF Carried
  <2>4. DOMAIN stack' = 1..n-1 /\ \A i \in 1..n-1 : stack'[i] = stack[i] /\ i \in DOMAIN stack
    BY <1>1, <1>3 DEF Pop
  <2>5. stack'[1] = stack[1]
    BY <1>3, <2>4
  <2>6. \A i \in DOMAIN stack' : stack'[i].left.isLeaf <=> i = 1
    BY <2>4 DEF Rooted, Frames
  <2> QED
    BY <1>1, <2>3, <2>5, <2>6 DEF Frames, Entry, ghost
<1>8. Headers'
  BY <1>1, <1>2 DEF Rooted, Headers
<1>9. Calls' /\ Durable' = Durable
  BY <1>1, <1>2, InnerCalls
<1> QED
  BY <1>1, <1>2, <1>6, <1>7, <1>8, <1>9 DEF Rooted

-----------------------------------------------------------------------------
(* The header is written: the call is over and its entry durable. *)
LEMMA FlushRooted ==
  ASSUME Calls, Rooted, BptreeFlush
  PROVE  Calls' /\ Rooted' /\ Durable' = inserted
<1>1. /\ pc = "flush" /\ pc' = "idle" /\ hdr' = mem
      /\ UNCHANGED <<mem, disk, arg, at, stack, ghost>>
  BY DEF BptreeFlush
<1>2. IInv' /\ LInv'
  BY StepInv, StepLinks DEF Rooted, Next, Step
<1>3. mem.root # NODE_EOF
  <2>1. mem.root >= 1
    BY FileFacts DEF Rooted
  <2> QED
    BY <2>1 DEF NODE_EOF
<1>4. Headers'
  BY <1>1, <1>3 DEF Headers
<1>5. Frames'
  BY <1>1, FramesAt DEF Frames
<1>6. AllHeld'
  BY <1>1 DEF Rooted, AllHeld, ghost
<1>7. Durable' = inserted /\ Durable \subseteq inserted
  BY <1>1 DEF Durable, Pending, ghost
<1>8. Calls'
  BY <1>1, <1>7 DEF Calls, ghost
<1> QED
  BY <1>1, <1>2, <1>4, <1>5, <1>6, <1>7, <1>8 DEF Rooted

(* Deleted entries stay in their slots, marked. *)
LEMMA MarkedEntries ==
  ASSUME NEW n \in BptreeNode, NEW hit
  PROVE  SameEntries(Marked(n, hit), n)
  BY DEF SameEntries, Marked, BptreeNode

(* Nor does a delete change what calls and file are like. *)
LEMMA DeleteRooted ==
  ASSUME Calls, Rooted, DeleteLeaf
  PROVE  Calls' /\ Rooted'
<1>1. PICK hit : disk' = NodeFlush(disk, Marked(disk[at], hit))
  BY DEF DeleteLeaf
<1>2. /\ pc = "seek" /\ pc' = "idle" /\ disk[at].isLeaf /\ at \in Pages(disk)
      /\ reply'.op = "delete" /\ live' \subseteq live
      /\ UNCHANGED <<hdr, mem, arg, at, stack, inserted>>
  BY RootedAt DEF DeleteLeaf, AtLeaf
<1>3. IInv' /\ LInv'
  BY StepInv, StepLinks DEF Rooted, Next, Step
<1> DEFINE m == Marked(disk[at], hit)
<1>4. /\ m \in BptreeNode /\ m.self = at /\ at >= 1 /\ disk \in Seq(Page)
      /\ SameEntries(m, disk[at])
  <2>1. Good(disk[at], inserted) /\ disk[at].self = at /\ at >= 1 /\ disk[at] \in BptreeNode
    BY <1>2, FileFacts DEF Rooted, Good
  <2>2. Good(m, inserted) /\ m.self = at
    BY <2>1, MarkedGood
  <2>3. SameEntries(m, disk[at])
    BY <2>1, MarkedEntries
  <2> HIDE DEF m
  <2> QED
    BY <2>1, <2>2, <2>3 DEF Good, Calls
<1> HIDE DEF m
<1>5. /\ disk' \in Seq(Page) /\ Pages(disk') = Pages(disk) /\ disk'[at] = m
      /\ \A p \in Pages(disk) : p # at => disk'[p] = disk[p]
  <2>1. disk' = NodeFlush(disk, m) /\ m.self >= 1
    BY <1>1, <1>4 DEF m
  <2>2. /\ disk' \in Seq(Page) /\ Pages(disk') = Pages(disk) \cup {m.self}
        /\ disk'[m.self] = m /\ \A p \in Pages(disk) : p # m.self => disk'[p] = disk[p]
    BY <1>4, <2>1, FlushPages
  <2> QED
    BY <1>2, <1>4, <2>2
<1>6. \A p \in Pages(disk) : SameEntries(disk'[p], disk[p])
  BY <1>4, <1>5, SameAlways
<1>7. AllHeld'
  <2> SUFFICES ASSUME NEW e \in inserted PROVE Held(disk', e)
    BY <1>2 DEF AllHeld
  <2>1. PICK p \in Pages(disk) : disk[p].isLeaf /\ Holds(disk[p], e)
    BY <1>2 DEF Rooted, AllHeld, Held
  <2>2. SameEntries(disk'[p], disk[p])
    BY <1>6
  <2>3. disk'[p].isLeaf /\ Holds(disk'[p], e)
    BY <2>1, <2>2, SameHolds DEF SameEntries
  <2> QED
    BY <1>5, <2>3 DEF Held
<1>8. Headers' /\ Frames'
  BY <1>2, FramesAt DEF Rooted, Headers, Frames
<1>9. Calls'
  <2>1. reply' \in Reply
    BY <1>3 DEF IInv, Scalars
  <2> QED
    BY <1>2, <1>5, <2>1 DEF Calls
<1> QED
  BY <1>2, <1>3, <1>5, <1>7, <1>8, <1>9 DEF Rooted

(* With a root every step of a call keeps the file whole or in the making. *)
LEMMA RootedStep == ASSUME Calls, Rooted, Start \/ Step PROVE Calls' /\ Rooted'
<1>1. CASE Start
  <2>1. mem.root \in Int
    BY FileFacts DEF Rooted
  <2> QED
    BY <1>1, <2>1, StartCalls, QuietRooted
<1>2. CASE Step
  <2>1. ~InsertFirst /\ ~NotFound
    BY RootedAt DEF InsertFirst, NotFound
  <2>2. CASE Descend \/ SearchLeaf
    BY <2>2, LookCalls, QuietRooted
  <2>3. CASE InsertIntoLeafNode
    BY <2>3, EnterRooted, SplitLeafRooted
  <2>4. CASE Return
    BY <2>4, ReturnOuterRooted, ReturnInnerRooted
  <2> QED
    BY <1>2, <2>1, <2>2, <2>3, <2>4, NewRootRooted, InsertIntoNodeRooted,
       SplitNodeRooted, FlushRooted, DeleteRooted DEF Step
<1> QED
  BY <1>1, <1>2

-----------------------------------------------------------------------------
(* What the next process finds in memory. *)
LEMMA KillCalls ==
  ASSUME Calls, Reopened \/ KillTears, disk' \in Seq(Page)
  PROVE  Calls' /\ Durable' = Durable
<1>1. /\ pc' \in {"idle", "torn"} /\ inserted' = Durable /\ live' = live \cap Durable
      /\ UNCHANGED <<arg, at, reply>>
  BY DEF Reopened, KillTears
<1>2. Durable \subseteq inserted /\ Durable' = Durable
  BY <1>1 DEF Durable, Pending
<1> QED
  BY <1>1, <1>2 DEF Calls

(* A header that fits its file opens it with all durable entries. *)
LEMMA Reborn ==
  ASSUME Calls, Kill, hdr \in Header, hdr.root \in Pages(disk),
         FileOK(disk, hdr.size, Durable, {}), Linked(disk, <<>>),
         \A e \in Durable : Held(disk, e)
  PROVE  Rooted'
<1>1. /\ pc' = "idle" /\ mem' = hdr /\ hdr' = hdr /\ stack' = <<>> /\ disk' = disk
      /\ inserted' = Durable /\ live' = live \cap Durable
      /\ UNCHANGED <<arg, at, reply>>
  BY DEF Kill, Reopened
<1>2. Calls' /\ Durable' = Durable
  BY <1>1, KillCalls DEF Kill, Calls
<1>3. stack' \in Seq(Frame) /\ Len(stack') = 0 /\ DOMAIN stack' = {}
  BY <1>1
<1>4. Scalars'
  <2>1. inserted' \subseteq Int \X Int
    BY <1>2, EntriesAssumption DEF Calls
  <2> QED
    BY <1>1, <1>2, <2>1 DEF Calls, Scalars
<1>5. SearchSound'
  BY <1>1, <1>2 DEF Calls, SearchSound
<1>6. IInv'
  BY <1>1, <1>3, <1>4, <1>5 DEF IInv, StackOK
<1>7. LInv'
  BY <1>1 DEF LInv, Begins
<1>8. Headers'
  <2>1. hdr.root # NODE_EOF
    BY LenProperties DEF Calls, Pages, NODE_EOF
  <2> QED
    BY <1>1, <2>1 DEF Headers
<1>9. Frames' /\ AllHeld'
  BY <1>1, <1>3 DEF Frames, AllHeld
<1> QED
  BY <1>1, <1>6, <1>7, <1>8, <1>9 DEF Rooted

(* A kill before the first write of a split, or with no split at all. *)
LEMMA KillRooted ==
  ASSUME Calls, Rooted, Kill
  PROVE  Calls' /\ (Rooted' \/ Rootless') /\ Durable' = Durable
<1>1. Calls' /\ Durable' = Durable
  BY KillCalls DEF Kill, Calls
<1>2. pc \in {"seek", "climb", "flush"}
  BY FramesAt DEF Kill, Splitting
<1>3. \A e \in Durable : Held(disk, e)
  BY DurableIs DEF Durable, Rooted, AllHeld
<1>4. CASE pc \in {"seek", "flush"} /\ hdr = mem
  <2>1. Durable = inserted
    BY <1>4, DurableIs
  <2>2. stack = <<>>
    <3>1. Len(stack) = 0 /\ stack \in Seq(Frame)
      BY <1>4, FramesAt DEF Rooted, IInv, StackOK
    <3> QED
      BY <3>1, EmptySeq
  <2>3. /\ hdr \in Header /\ hdr.root \in Pages(disk)
        /\ FileOK(disk, hdr.size, Durable, {}) /\ Linked(disk, <<>>)
    BY <1>4, <2>1, <2>2 DEF Rooted, IInv, Scalars, LInv
  <2> QED
    BY <1>1, <1>3, <2>3, Reborn
<1>5. CASE pc = "climb"
  BY <1>1, <1>3, <1>5, Reborn DEF Rooted, Headers
<1>6. CASE pc = "flush" /\ hdr # mem
  <2>1. hdr # Trashed /\ hdr.root = NODE_EOF
    BY <1>6 DEF Kill, Splitting
  <2>2. hdr = Empty /\ Len(disk) = 1 /\ inserted = {Entry}
    BY <2>1 DEF Rooted, Headers
  <2>3. Durable = {}
    BY <1>6, <2>2, DurableIs
  <2> QED
    BY <1>1, <2>2, <2>3 DEF Rootless, Kill, Reopened
<1>7. pc = "seek" => hdr = mem
  BY DEF Rooted, Headers
<1> QED
  BY <1>2, <1>4, <1>5, <1>6, <1>7

(* In a file without a root nothing is durable and nothing under way. *)
LEMMA KillRootless ==
  ASSUME Calls, Rootless, Kill
  PROVE  Calls' /\ Rootless' /\ Durable' = Durable
<1>1. Calls' /\ Durable' = Durable
  BY KillCalls DEF Kill, Calls
<1>2. Durable = {}
  BY DEF Rootless, Durable
<1> QED
  BY <1>1, <1>2 DEF Rootless, Kill, Reopened

(***************************************************************************)
(* A kill in the middle of the writes of a split: of a leaf's halves only  *)
(* the left may be there, and it still has all slots; of an inner node the *)
(* leaves are not touched.                                                 *)
(***************************************************************************)
LEMMA TornHolds ==
  ASSUME Calls, Rooted, pc = "unwind", NEW g \in Returning
  PROVE  /\ g \in Seq(Page)
         /\ \A e \in inserted \ {Entry} :
              \E p \in Pages(g) : g[p].isLeaf /\ HasEntry(g[p], e, 0..M-1)
<1> DEFINE right == Top.right
           Moved(n)  == {right.dat[i] : i \in 0..n}
           Adopted(n) == [p \in DOMAIN disk |->
                            IF p \in Moved(n) /\ disk[p] # Hole
                            THEN [disk[p] EXCEPT !.parent = right.self] ELSE disk[p]]
<1>1. /\ Top.left \in BptreeNode /\ right \in BptreeNode /\ right.self \in Int
      /\ Top.left.self \in Pages(disk) /\ Top.left.self >= 1
      /\ Top.left.isLeaf = right.isLeaf /\ Top.left.isLeaf = disk[Top.left.self].isLeaf
      /\ \A p \in Pages(disk) : disk[p] \in BptreeNode
  <2>1. FrameOK(stack, Len(stack), disk, mem.size, inserted) /\ right.self \in Int
    BY OuterFrame, TopFrame DEF Rooted
  <2>2. \A p \in Pages(disk) : Good(disk[p], inserted) /\ p >= 1
    BY FileFacts DEF Rooted
  <2> QED
    BY <2>1, <2>2 DEF FrameOK, Good, Top
<1>2. disk \in Seq(Page) /\ DOMAIN disk = 1..Len(disk)
  BY LenProperties DEF Calls
<1>3. ASSUME NEW e \in inserted \ {Entry}
      PROVE  \E p \in Pages(disk) : disk[p].isLeaf /\ Holds(disk[p], e)
  BY DEF Rooted, AllHeld, Held
<1>4. ASSUME NEW n \in BptreeNode, NEW e, Holds(n, e) PROVE HasEntry(n, e, 0..M-1)
  <2>1. \A i \in 0..n.size-1 : i \in 0..M-1
    BY NodeFields
  <2> QED
    BY <1>4, <2>1 DEF Holds, HasEntry
<1>5. CASE right.isLeaf
  <2>1. g = disk \/ g = NodeFlush(disk, Top.left)
    BY <1>5 DEF Returning
  <2>2. Carried(disk[Top.left.self], Top.left, right, inserted, Entry)
    <3>1. Len(stack) \in DOMAIN stack /\ stack[Len(stack)].left.isLeaf
      <4>1. Top.left.isLeaf
        BY <1>1, <1>5
      <4> QED
        BY <4>1, OuterFrame, TopFrame DEF Rooted, Top
    <3>2. Len(stack) = 1
      BY <3>1 DEF Rooted, Frames
    <3> QED
      BY <3>2 DEF Rooted, Frames, Top
  <2>3. CASE g = disk
    BY <1>1, <1>2, <1>3, <1>4, <2>3
  <2>4. CASE g = NodeFlush(disk, Top.left)
    <3> DEFINE l == Top.left
    <3>1. l \in BptreeNode /\ l.self >= 1 /\ g = NodeFlush(disk, l) /\ l.isLeaf
      BY <1>1, <1>5, <2>4
    <3> HIDE DEF l, right
    <3>2. /\ g \in Seq(Page) /\ Pages(g) = Pages(disk) \cup {l.self} /\ g[l.self] = l
          /\ \A p \in Pages(disk) : p # l.self => g[p] = disk[p]
      BY <1>2, <3>1, FlushPages
    <3>3. ASSUME NEW e \in inserted \ {Entry}
          PROVE  \E p \in Pages(g) : g[p].isLeaf /\ HasEntry(g[p], e, 0..M-1)
      <4>1. PICK p \in Pages(disk) : disk[p].isLeaf /\ Holds(disk[p], e)
        BY <1>3
      <4>2. CASE p = l.self
        BY <2>2, <3>1, <3>2, <4>1, <4>2 DEF Carried, l
      <4>3. CASE p # l.self
        BY <1>1, <1>4, <3>2, <4>1, <4>3
      <4> QED
        BY <4>2, <4>3
    <3> QED
      BY <3>2, <3>3
  <2> QED
    BY <2>1, <2>3, <2>4
<1>6. CASE ~right.isLeaf
  <2>1. \E W : g = Adopt(disk, W, right.self) \/ g = NodeFlush(Adopt(disk, W, right.self), Top.left)
    <3>1. \A n : Adopted(n) = Adopt(disk, Moved(n), right.self)
      BY <1>2 DEF Adopt
    <3>2. disk = Adopt(disk, {}, right.self)
      BY <1>2 DEF Adopt
    <3>3. \/ g = disk
          \/ g = NodeFlush(Adopted(right.size), Top.left)
          \/ \E n \in 0..right.size : g = Adopted(n)
      <4>1. /\ g \in {disk, NodeFlush(Adopted(right.size), Top.left)}
                      \cup {Adopted(n) : n \in 0..right.size}
        BY <1>6, Zenon DEF Returning
      <4> HIDE DEF Adopted, Moved, right
      <4> QED
        BY <4>1
    <3> HIDE DEF Adopted, Moved
    <3> QED
      BY <3>1, <3>2, <3>3
  <2>2. PICK W : g = Adopt(disk, W, right.self) \/ g = NodeFlush(Adopt(disk, W, right.self), Top.left)
    BY <2>1
  <2> DEFINE f == Adopt(disk, W, right.self)
             l == Top.left
  <2>3. /\ f \in Seq(Page) /\ Pages(f) = Pages(disk)
        /\ \A p \in Pages(disk) : SameEntries(f[p], disk[p])
    BY <1>1, <1>2, AdoptKeeps
  <2>4. /\ l \in BptreeNode /\ l.self >= 1 /\ l.self \in Pages(f) /\ ~f[l.self].isLeaf
        /\ g = f \/ g = NodeFlush(f, l)
    BY <1>1, <1>6, <2>2, <2>3 DEF SameEntries
  <2> HIDE DEF f, l, right
  <2>5. /\ g \in Seq(Page) /\ Pages(f) \subseteq Pages(g)
        /\ \A p \in Pages(f) : f[p].isLeaf => g[p] = f[p]
    BY <2>3, <2>4, LeavesSpared
  <2>6. ASSUME NEW e \in inserted \ {Entry}
        PROVE  \E p \in Pages(g) : g[p].isLeaf /\ HasEntry(g[p], e, 0..M-1)
    <3>1. PICK p \in Pages(disk) : disk[p].isLeaf /\ Holds(disk[p], e)
      BY <1>3
    <3>2. f[p].isLeaf /\ HasEntry(f[p], e, 0..M-1) /\ p \in Pages(f)
      BY <1>1, <1>4, <2>3, <3>1, SameHolds DEF SameEntries
    <3> QED
      BY <2>5, <3>2
  <2> QED
    BY <2>5, <2>6
<1> QED
  BY <1>5, <1>6

(* So a torn file has the durable entries. *)
LEMMA KillTearsRooted ==
  ASSUME Calls, Rooted, KillTears
  PROVE  Calls' /\ Torn' /\ Durable' = Durable
<1>1. /\ Splitting /\ pc' = "torn" /\ stack' = <<>> /\ inserted' = Durable
      /\ disk' \in IF pc = "unwind" THEN Returning ELSE {disk}
  BY DEF KillTears
<1>2. CASE pc = "unwind"
  <2>1. /\ disk' \in Seq(Page)
        /\ \A e \in inserted \ {Entry} :
             \E p \in Pages(disk') : disk'[p].isLeaf /\ HasEntry(disk'[p], e, 0..M-1)
    BY <1>1, <1>2, TornHolds
  <2>2. Calls' /\ Durable' = Durable /\ Durable = inserted \ {Entry}
    BY <1>2, <2>1, KillCalls, DurableIs
  <2>3. ASSUME NEW e \in Durable PROVE Recorded(e)'
    <3>1. PICK p \in Pages(disk') : disk'[p].isLeaf /\ HasEntry(disk'[p], e, 0..M-1)
      BY <2>1, <2>2
    <3>2. p \in (Written \ Internal)'
      BY <3>1 DEF Pages, Written, Internal
    <3> QED
      BY <3>1, <3>2 DEF HasEntry, Recorded
  <2> QED
    BY <1>1, <2>2, <2>3 DEF Torn, NothingErased
<1>3. CASE pc # "unwind"
  <2>1. disk' = disk /\ disk' \in Seq(Page)
    BY <1>1, <1>3 DEF Calls
  <2>2. Calls' /\ Durable' = Durable
    BY <2>1, KillCalls
  <2>3. NothingErased
    BY ErasesNothing DEF CInv
  <2>4. NothingErased'
    BY <2>1, <2>2, <2>3 DEF NothingErased, Recorded, Written, Internal
  <2> QED
    BY <1>1, <2>2, <2>4 DEF Torn
<1> QED
  BY <1>2, <1>3

(* In a torn file nothing is under way: only CreateBptree goes on with it. *)
LEMMA TornStep ==
  ASSUME Torn, CrashNext
  PROVE  CreateBptree
<1>1. pc = "torn"
  BY DEF Torn
<1>2. ~Start
  BY <1>1 DEF Start, BptreeInsert, BptreeSearch, BptreeDelete, Call
<1>3. ~Step
  BY <1>1 DEF Step, Descend, InsertFirst, InsertIntoLeafNode, AtLeaf, NewRoot, InsertIntoNode,
     SplitNode, Return, BptreeFlush, SearchLeaf, DeleteLeaf, NotFound
<1>4. ~Kill /\ ~KillTears
  BY <1>1 DEF Kill, KillTears, Splitting
<1> QED
  BY <1>2, <1>3, <1>4 DEF CrashNext

(* The emptied file. *)
LEMMA CreateRootless ==
  ASSUME Calls, Torn, CreateBptree
  PROVE  Calls' /\ Rootless'
<1>1. /\ pc' = "idle" /\ mem' = Empty /\ hdr' = Empty /\ disk' = <<>> /\ stack' = stack
      /\ inserted' = {} /\ live' = {} /\ reply' = [op |-> "none", key |-> 0, rows |-> {}]
      /\ UNCHANGED <<arg, at>>
  BY DEF CreateBptree, Empty
<1>2. reply' \in Reply /\ reply'.op = "none" /\ disk' \in Seq(Page)
  BY <1>1, EmptySeq DEF Reply
<1>3. Calls'
  BY <1>1, <1>2 DEF Calls
<1> QED
  BY <1>1, <1>3 DEF Torn, Rootless

-----------------------------------------------------------------------------
(* Every step leads from one of the three states of a file to one of them. *)
LEMMA CrashStep == CInv /\ [CrashNext]_crashVars => CInv'
<1> SUFFICES ASSUME CInv, [CrashNext]_crashVars PROVE CInv'
  OBVIOUS
<1>1. CASE UNCHANGED crashVars
  <2>1. UNCHANGED vars
    BY <1>1 DEF crashVars
  <2>2. UNCHANGED <<hdr, mem, disk, pc, arg, at, stack, inserted, live, reply>>
    BY <2>1 DEF vars, file, ghost
  <2>3. Calls' /\ Durable' = Durable
    BY <2>2 DEF CInv, Calls, Durable, Pending, Entry
  <2>4. CASE Rooted
    <3>1. IInv' /\ LInv'
      BY <2>1, <2>4, StepInv, StepLinks DEF Rooted
    <3>2. (mem.root \in Pages(disk))' /\ Headers' /\ Frames' /\ AllHeld'
      BY <2>2, <2>3, <2>4 DEF Rooted, Headers, Frames, AllHeld, Entry
    <3> QED
      BY <2>3, <3>1, <3>2 DEF CInv, Rooted
  <2>5. CASE Rootless
    BY <2>2, <2>3, <2>5 DEF CInv, Rootless
  <2>6. CASE Torn
    BY <2>2, <2>3, <2>6 DEF CInv, Torn, NothingErased, Recorded, Written, Internal
  <2> QED
    BY <2>4, <2>5, <2>6 DEF CInv
<1>2. CASE CrashNext /\ Torn
  BY <1>2, TornStep, CreateRootless DEF CInv
<1>3. CASE CrashNext /\ ~Torn
  <2>1. pc # "torn"
    BY <1>3, FramesAt DEF CInv, Rootless
  <2>2. CASE Start \/ Step
    BY <1>3, <2>2, RootlessStep, RootedStep DEF CInv
  <2>3. CASE Kill
    BY <1>3, <2>3, KillRootless, KillRooted DEF CInv
  <2>4. CASE KillTears
    <3>1. Rooted
      BY <1>3, <2>4 DEF CInv, Rootless, KillTears, Splitting
    <3> QED
      BY <2>4, <3>1, KillTearsRooted DEF CInv
  <2> QED
    BY <1>3, <2>1, <2>2, <2>3, <2>4 DEF CrashNext, CreateBptree
<1> QED
  BY <1>1, <1>2, <1>3

(***************************************************************************)
(* Whenever processes are killed, the file is torn, or has no root and no  *)
(* entry, or is what the calls left.                                       *)
(***************************************************************************)
THEOREM CrashInvariance == CrashSpec => []CInv
<1>1. CrashInit => CInv
  <2> SUFFICES ASSUME CrashInit PROVE CInv
    OBVIOUS
  <2>1. /\ mem = Empty /\ hdr = Empty /\ disk = <<>> /\ stack = <<>> /\ pc = "idle"
        /\ inserted = {} /\ live = {} /\ at = NODE_EOF
        /\ arg = [op |-> "search", key |-> 0, dat |-> 0]
        /\ reply = [op |-> "none", key |-> 0, rows |-> {}]
    BY DEF CrashInit, Init, Empty
  <2>2. arg \in Arg /\ reply \in Reply /\ reply.op = "none" /\ at \in Int /\ disk \in Seq(Page)
    BY <2>1, EmptySeq DEF Arg, Reply, NODE_EOF
  <2>3. Calls
    BY <2>1, <2>2 DEF Calls
  <2> QED
    BY <2>1, <2>3 DEF CInv, Rootless
<1>2. CInv /\ [CrashNext]_crashVars => CInv'
  BY CrashStep
<1> QED
  BY <1>1, <1>2, PTL DEF CrashSpec

(***************************************************************************)
(* Kills erase nothing: at any moment, whatever has been killed before,    *)
(* every entry whose insertion was durable is in a slot of some leaf.      *)
(***************************************************************************)
THEOREM ErasesNone == CrashSpec => []NothingErased
<1>1. CInv => NothingErased
  BY ErasesNothing
<1> QED
  BY <1>1, CrashInvariance, PTL

-----------------------------------------------------------------------------
(***************************************************************************)
(* The index as IndexMap describes it, for keys with one row each.  While  *)
(* no internal node has been split the tree is a leaf, or leaves under one *)
(* root, and the descent ends at the only leaf the key can be in.          *)
(***************************************************************************)
UniqueKeys == \A e, x \in Entries : e[1] = x[1] => e = x

(* How many keys of the root R part the leaves, and the leaves of a file.  *)
Seps(R) == IF R.isLeaf THEN 0 ELSE R.size

Kid(f, root, i) == IF f[root].isLeaf THEN root ELSE f[root].dat[i]

(* The key k belongs into leaf i. *)
InGap(R, i, k) ==
  /\ i > 0 => R.key[i-1] <= k
  /\ i < Seps(R) => k < R.key[i]

(* So do the keys of n below its size; one past it is none of leaf i. *)
Within(R, i, n) ==
  /\ \A s \in 0..n.size-1 : InGap(R, i, n.key[s])
  /\ \A s \in n.size..M-1 : \/ n.key[s] = Uninit
                            \/ i < Seps(R) /\ R.key[i] <= n.key[s]

(* Each key is there once, and marked if it is not live. *)
Exact(n, S) ==
  /\ \A s, t \in 0..n.size-1 : s < t => n.key[s] < n.key[t]
  /\ \A s \in 0..n.size-1 : n.del[s] <=> <<n.key[s], n.dat[s]>> \notin S

LeafOK(f, root, i, n, S) ==
  /\ n.isLeaf /\ Within(f[root], i, n) /\ Exact(n, S)
  /\ n.parent = IF f[root].isLeaf THEN NODE_EOF ELSE root

Shape(f, root, S) ==
  /\ root \in Pages(f)
  /\ \A p \in Pages(f) : p = root \/ \E i \in 0..Seps(f[root]) : p = Kid(f, root, i)
  /\ \A i \in 0..Seps(f[root]) :
       /\ Kid(f, root, i) \in Pages(f)
       /\ LeafOK(f, root, i, f[Kid(f, root, i)], S)
       /\ \A j \in 0..Seps(f[root]) : Kid(f, root, i) = Kid(f, root, j) => i = j

(* The descent stands at the root or at the leaf of its key. *)
Placed ==
  \/ at = mem.root
  \/ \E i \in 0..Seps(disk[mem.root]) :
       at = Kid(disk, mem.root, i) /\ InGap(disk[mem.root], i, arg.key)

(* The leaf that is split, with the new entry. *)
Full == InsertEntry(disk[at], arg.key, arg.dat)

Shallow ==
  /\ pc \in {"idle", "seek", "flush"} => Shape(disk, mem.root, live)
  /\ pc = "seek" => Placed
  /\ pc = "climb" =>
       /\ Shape(disk, mem.root, live \ {Entry})
       /\ Placed /\ at \in Pages(disk) /\ disk[at].isLeaf
       /\ Top.left = LowerHalf(Full) /\ Top.right = UpperHalf(Full, mem.size)
       /\ Full.size = M
  /\ pc = "unwind" =>
       Shape(NodeFlush(NodeFlush(disk, Top.left), Top.right), mem.root, live)
  /\ pc \in {"climb", "unwind"} => Len(stack) = 1

SInv == ~deep /\ Rooted => Shallow

-----------------------------------------------------------------------------
(* The number of separators, and slots of a node with room. *)
LEMMA SepsNat ==
  ASSUME NEW R \in BptreeNode
  PROVE  Seps(R) \in 0..M /\ Seps(R) <= R.size /\ 0 \in 0..Seps(R)
  BY NodeFields DEF Seps

(* A key belongs into one leaf. *)
LEMMA OneGap ==
  ASSUME NEW R \in BptreeNode, Initialised(R), Sorted(R), NEW k \in Int,
         NEW i \in 0..Seps(R), NEW j \in 0..Seps(R), InGap(R, i, k), InGap(R, j, k)
  PROVE  i = j
<1>1. Seps(R) \in Nat /\ R.size \in Nat /\ Seps(R) <= R.size
  BY NodeFields, SepsNat
<1>2. ASSUME NEW a \in 0..Seps(R), NEW b \in 0..Seps(R), InGap(R, a, k), InGap(R, b, k), a < b
      PROVE  FALSE
  <2>1. a \in 0..R.size-1 /\ b-1 \in 0..R.size-1 /\ a <= b-1
    BY <1>1, <1>2
  <2>2. R.key[a] \in Int /\ R.key[b-1] \in Int /\ R.key[a] <= R.key[b-1]
    BY <2>1 DEF Initialised, Sorted
  <2>3. k < R.key[a] /\ R.key[b-1] <= k
    BY <1>1, <1>2 DEF InGap
  <2> QED
    BY <2>2, <2>3
<1>3. ~(i < j) /\ ~(j < i)
  BY <1>2
<1>4. i \in Int /\ j \in Int
  OBVIOUS
<1> QED
  BY <1>3, <1>4

(* The leaves of the file are the kids of its root. *)
LEMMA LeafIsKid ==
  ASSUME NEW f, NEW root, NEW S, Shape(f, root, S), f[root] \in BptreeNode,
         NEW p \in Pages(f), f[p].isLeaf
  PROVE  \E i \in 0..Seps(f[root]) : p = Kid(f, root, i)
<1>1. CASE p = root
  <2>1. Kid(f, root, 0) = root
    BY <1>1 DEF Kid
  <2> QED
    BY <1>1, <2>1, SepsNat
<1>2. CASE p # root
  BY <1>2 DEF Shape
<1> QED
  BY <1>1, <1>2

(* A key is below the size of no leaf but the one it belongs into. *)
LEMMA Located ==
  ASSUME NEW f, NEW root, NEW S, Shape(f, root, S), f[root] \in BptreeNode,
         Initialised(f[root]), Sorted(f[root]), NEW k \in Int,
         NEW i \in 0..Seps(f[root]), InGap(f[root], i, k),
         NEW p \in Pages(f), f[p].isLeaf,
         NEW s \in 0..f[p].size-1, f[p].key[s] = k
  PROVE  p = Kid(f, root, i)
<1>1. PICK j \in 0..Seps(f[root]) : p = Kid(f, root, j)
  BY LeafIsKid
<1>2. InGap(f[root], j, k)
  <2>1. Within(f[root], j, f[p])
    BY <1>1 DEF Shape, LeafOK
  <2> QED
    BY <2>1 DEF Within
<1> QED
  BY <1>1, <1>2, OneGap

(* The key k is not in the node n. *)
Without(n, k) == \A s \in 0..n.size-1 : n.key[s] # k

(* A new entry with a new key in its leaf. *)
LEMMA EnterFits ==
  ASSUME NEW node \in BptreeNode, node.size < M, Initialised(node), Sorted(node),
         NEW k \in Int, NEW d \in Int, NEW R, NEW i, NEW S,
         InGap(R, i, k), Within(R, i, node), Exact(node, S), Without(node, k),
         NEW new, new = InsertEntry(node, k, d)
  PROVE  Within(R, i, new) /\ Exact(new, S \cup {<<k, d>>})
<1> DEFINE x == GetIndex(node, k)
           T == S \cup {<<k, d>>}
<1> USE DEF Without
<1>1. /\ node.size \in Nat /\ M \in Nat /\ node.size < M
      /\ IsGetIndex(x, node, k) /\ x \in 0..node.size
  <2>1. IsGetIndex(x, node, k)
    BY GetIndexDefined
  <2> QED
    BY <2>1, NodeFields DEF IsGetIndex
<1>2. Shifted(node, k, d, new, x)
  BY InsertEntrySpelled
<1>3. new.size = node.size + 1
  BY DEF InsertEntry, BptreeNode
<1> HIDE DEF x
<1>4. /\ \A s \in 0..x-1 : node.key[s] < k /\ s \in 0..node.size-1
      /\ \A s \in x..node.size-1 : k < node.key[s] /\ s \in 0..node.size-1
  <2>1. \A s \in 0..node.size-1 : node.key[s] \in Int
    BY DEF Initialised
  <2>2. ASSUME NEW s \in 0..x-1 PROVE node.key[s] < k /\ s \in 0..node.size-1
    <3>1. s \in 0..node.size-1 /\ node.key[s] <= k /\ node.key[s] # k
      BY <1>1 DEF IsGetIndex
    <3> QED
      BY <2>1, <3>1
  <2>3. ASSUME NEW s \in x..node.size-1 PROVE k < node.key[s] /\ s \in 0..node.size-1
    <3>1. s \in 0..node.size-1 /\ x \in 0..node.size-1 /\ x <= s
      BY <1>1
    <3>2. node.key[x] > k /\ node.key[x] <= node.key[s]
      BY <1>1, <3>1 DEF IsGetIndex, Sorted
    <3> QED
      BY <2>1, <3>1, <3>2
  <2> QED
    BY <2>2, <2>3
<1>5. ASSUME NEW s \in 0..new.size-1
      PROVE  /\ s \in 0..M-1
             /\ s < x => /\ s \in 0..node.size-1 /\ new.key[s] = node.key[s]
                         /\ new.dat[s] = node.dat[s] /\ new.del[s] = node.del[s]
             /\ s = x => new.key[s] = k /\ new.dat[s] = d /\ new.del[s] = FALSE
             /\ s > x => /\ s-1 \in 0..node.size-1 /\ s-1 >= x /\ new.key[s] = node.key[s-1]
                         /\ new.dat[s] = node.dat[s-1] /\ new.del[s] = node.del[s-1]
  <2>1. s \in 0..M-1 /\ s <= node.size
    BY <1>1, <1>3
  <2> QED
    BY <1>1, <1>2, <2>1 DEF Shifted
<1>6. Within(R, i, new)
  <2>1. ASSUME NEW s \in 0..new.size-1 PROVE InGap(R, i, new.key[s])
    <3>1. s < x \/ s = x \/ s > x
      BY <1>1, <1>5
    <3> QED
      BY <1>5, <3>1 DEF Within
  <2>2. ASSUME NEW s \in new.size..M-1 PROVE s \in node.size..M-1 /\ new.key[s] = node.key[s]
    <3>1. s \in node.size..M-1 /\ s > node.size /\ s \in 0..M-1
      BY <1>1, <1>3
    <3> QED
      BY <1>2, <3>1 DEF Shifted
  <2> QED
    BY <2>1, <2>2 DEF Within
<1>7. Exact(new, T)
  <2>1. ASSUME NEW s \in 0..new.size-1, NEW t \in 0..new.size-1, s < t
        PROVE  new.key[s] < new.key[t]
    <3>1. CASE t < x
      <4>1. s < x /\ s \in 0..node.size-1 /\ t \in 0..node.size-1
        BY <1>1, <1>5, <2>1, <3>1
      <4>2. node.key[s] < node.key[t]
        BY <2>1, <4>1 DEF Exact
      <4>3. new.key[s] = node.key[s] /\ new.key[t] = node.key[t]
        BY <1>5, <3>1, <4>1
      <4> QED
        BY <4>2, <4>3
    <3>2. CASE t = x
      <4>1. s < x /\ s \in 0..x-1
        BY <1>1, <2>1, <3>2
      <4> QED
        BY <1>4, <1>5, <3>2, <4>1
    <3>3. CASE t > x /\ s < x
      <4>1. s \in 0..x-1 /\ t-1 \in x..node.size-1
        BY <1>1, <1>3, <3>3
      <4>2. node.key[s] < k /\ k < node.key[t-1] /\ node.key[s] \in Int /\ node.key[t-1] \in Int
        BY <1>4, <4>1 DEF Initialised
      <4>3. new.key[s] = node.key[s] /\ new.key[t] = node.key[t-1]
        BY <1>5, <3>3
      <4> QED
        BY <4>2, <4>3
    <3>4. CASE t > x /\ s = x
      <4>1. t-1 \in x..node.size-1
        BY <1>1, <1>3, <3>4
      <4> QED
        BY <1>4, <1>5, <3>4, <4>1
    <3>5. CASE t > x /\ s > x
      <4>1. s-1 < t-1
        BY <2>1
      <4>2. s-1 \in 0..node.size-1 /\ new.key[s] = node.key[s-1]
        BY <1>5, <3>5
      <4>3. t-1 \in 0..node.size-1 /\ new.key[t] = node.key[t-1]
        BY <1>5, <3>5
      <4>4. node.key[s-1] < node.key[t-1]
        BY <4>1, <4>2, <4>3 DEF Exact
      <4> QED
        BY <4>2, <4>3, <4>4
    <3>6. s \in Int /\ t \in Int /\ x \in Int
      BY <1>1
    <3> QED
      BY <3>1, <3>2, <3>3, <3>4, <3>5, <3>6
  <2>2. ASSUME NEW s \in 0..new.size-1
        PROVE  new.del[s] <=> <<new.key[s], new.dat[s]>> \notin T
    <3>1. \A a \in 0..node.size-1 : /\ <<node.key[a], node.dat[a]>> # <<k, d>>
                                    /\ node.del[a] <=> <<node.key[a], node.dat[a]>> \notin S
      BY DEF Exact
    <3>2. CASE s = x
      BY <1>5, <3>2
    <3>3. ASSUME NEW a \in 0..node.size-1, new.key[s] = node.key[a],
                 new.dat[s] = node.dat[a], new.del[s] = node.del[a]
          PROVE  new.del[s] <=> <<new.key[s], new.dat[s]>> \notin T
      BY <3>1, <3>3
    <3>4. CASE s < x
      BY <1>5, <3>3, <3>4
    <3>5. CASE s > x
      BY <1>5, <3>3, <3>5
    <3>6. s \in Int /\ x \in Int
      BY <1>1
    <3> QED
      BY <3>2, <3>4, <3>5, <3>6
  <2> QED
    BY <2>1, <2>2 DEF Exact
<1> QED
  BY <1>6, <1>7

-----------------------------------------------------------------------------
(* The root Q has the separators of R and sep between leaves i and i + 1. *)
Parted(Q, R, i, sep) ==
  /\ Seps(Q) = Seps(R) + 1
  /\ \A j \in 0..i-1 : Q.key[j] = R.key[j]
  /\ Q.key[i] = sep
  /\ \A j \in i+1..Seps(R) : Q.key[j] = R.key[j-1]

(* Where keys and nodes belong under the new root. *)
LEMMA PartedGaps ==
  ASSUME NEW Q, NEW R \in BptreeNode, NEW sep, NEW i \in 0..Seps(R), Parted(Q, R, i, sep),
         NEW j \in 0..Seps(R), NEW k
  PROVE  /\ j < i /\ InGap(R, j, k) => InGap(Q, j, k)
         /\ j > i /\ InGap(R, j, k) => InGap(Q, j + 1, k)
         /\ InGap(R, i, k) /\ k < sep => InGap(Q, i, k)
         /\ InGap(R, i, k) /\ sep <= k => InGap(Q, i + 1, k)
<1>1. Seps(R) \in Nat /\ Seps(Q) = Seps(R) + 1
  BY SepsNat DEF Parted
<1>2. ASSUME j < i, InGap(R, j, k) PROVE InGap(Q, j, k)
  <2>1. j \in 0..i-1 /\ (j > 0 => j-1 \in 0..i-1) /\ j < Seps(R)
    BY <1>1, <1>2
  <2>2. Q.key[j] = R.key[j] /\ (j > 0 => Q.key[j-1] = R.key[j-1])
    BY <2>1 DEF Parted
  <2> QED
    BY <1>2, <2>1, <2>2 DEF InGap
<1>3. ASSUME j > i, InGap(R, j, k) PROVE InGap(Q, j + 1, k)
  <2>1. j \in i+1..Seps(R) /\ (j < Seps(R) => j+1 \in i+1..Seps(R)) /\ j > 0
    BY <1>1, <1>3
  <2>2. Q.key[j] = R.key[j-1] /\ (j < Seps(R) => Q.key[j+1] = R.key[j])
    <3>1. j + 1 - 1 = j
      OBVIOUS
    <3> QED
      BY <2>1, <3>1 DEF Parted
  <2>3. j + 1 - 1 = j /\ (j + 1 < Seps(Q) => j < Seps(R))
    BY <1>1
  <2> QED
    BY <1>3, <2>1, <2>2, <2>3 DEF InGap
<1>4. ASSUME InGap(R, i, k), k < sep PROVE InGap(Q, i, k)
  <2>1. i > 0 => i-1 \in 0..i-1
    BY <1>1
  <2> QED
    BY <1>4, <2>1 DEF InGap, Parted
<1>5. ASSUME InGap(R, i, k), sep <= k PROVE InGap(Q, i + 1, k)
  <2>1. i + 1 - 1 = i /\ (i + 1 < Seps(Q) => i < Seps(R) /\ i + 1 \in i+1..Seps(R))
    BY <1>1
  <2>2. Q.key[i] = sep /\ (i + 1 < Seps(Q) => Q.key[i+1] = R.key[i])
    BY <2>1 DEF Parted
  <2> QED
    BY <1>5, <2>1, <2>2 DEF InGap
<1> QED
  BY <1>2, <1>3, <1>4, <1>5

(* So for nodes: leaves other than the one that is split keep their place. *)
LEMMA PartedWithin ==
  ASSUME NEW Q, NEW R \in BptreeNode, NEW sep, NEW i \in 0..Seps(R), Parted(Q, R, i, sep),
         NEW j \in 0..Seps(R), NEW n, Within(R, j, n)
  PROVE  /\ j < i => Within(Q, j, n)
         /\ j > i => Within(Q, j + 1, n)
<1>1. Seps(R) \in Nat /\ Seps(Q) = Seps(R) + 1
  BY SepsNat DEF Parted
<1>2. ASSUME j < i PROVE Within(Q, j, n)
  <2>1. j \in 0..i-1 /\ j < Seps(Q) /\ Q.key[j] = R.key[j]
    BY <1>1, <1>2 DEF Parted
  <2>2. \A s \in 0..n.size-1 : InGap(Q, j, n.key[s])
    BY <1>2, PartedGaps DEF Within
  <2> QED
    BY <2>1, <2>2 DEF Within
<1>3. ASSUME j > i PROVE Within(Q, j + 1, n)
  <2>1. j < Seps(R) => j + 1 \in i+1..Seps(R) /\ j + 1 < Seps(Q) /\ j + 1 - 1 = j
    BY <1>1, <1>3
  <2>2. j < Seps(R) => j + 1 < Seps(Q) /\ Q.key[j+1] = R.key[j]
    BY <2>1 DEF Parted
  <2>3. \A s \in 0..n.size-1 : InGap(Q, j + 1, n.key[s])
    BY <1>3, PartedGaps DEF Within
  <2> QED
    BY <2>2, <2>3 DEF Within
<1> QED
  BY <1>2, <1>3

(* The halves of a full leaf belong on the two sides of the first key of   *)
(* the upper one.                                                          *)
LEMMA HalvesFit ==
  ASSUME NEW node \in BptreeNode, node.size = M, node.isLeaf, Initialised(node), NEW self,
         NEW low, low = LowerHalf(node), NEW upp, upp = UpperHalf(node, self),
         NEW Q, NEW R \in BptreeNode, NEW i \in 0..Seps(R), Parted(Q, R, i, upp.key[0]),
         Within(R, i, node), NEW S, Exact(node, S)
  PROVE  Within(Q, i, low) /\ Within(Q, i + 1, upp)
<1> DEFINE mid == Mid(node)
           sep == upp.key[0]
<1>1. /\ mid \in 2..M-1 /\ M \in Nat
      /\ low.size = mid /\ low.key = node.key /\ low.dat = node.dat /\ low.del = node.del
      /\ upp.size = M - mid
      /\ \A s \in 0..M-mid-1 : /\ mid + s \in 0..M-1
                               /\ upp.key[s] = node.key[mid + s]
                               /\ upp.dat[s] = node.dat[mid + s]
                               /\ upp.del[s] = node.del[mid + s]
      /\ \A s \in M-mid..M-1 : upp.key[s] = Uninit
  BY HalvesSpelled, OrderAssumption
<1> HIDE DEF mid, sep
<1>2. sep = node.key[mid] /\ mid \in 0..node.size-1
  <2>1. 0 \in 0..M-mid-1 /\ mid + 0 = mid
    BY <1>1
  <2> QED
    BY <1>1, <2>1 DEF sep
<1>3. /\ \A s \in 0..mid-1 : node.key[s] < sep /\ s \in 0..node.size-1
      /\ \A s \in mid..M-1 : sep <= node.key[s] /\ s \in 0..node.size-1
  <2>1. ASSUME NEW s \in 0..mid-1 PROVE node.key[s] < sep /\ s \in 0..node.size-1
    BY <1>1, <1>2 DEF Exact
  <2>2. ASSUME NEW s \in mid..M-1 PROVE sep <= node.key[s] /\ s \in 0..node.size-1
    <3>1. s \in 0..node.size-1 /\ (s = mid \/ mid < s)
      BY <1>1
    <3>2. node.key[s] \in Int /\ node.key[mid] \in Int
      BY <1>2, <3>1 DEF Initialised
    <3>3. s = mid \/ node.key[mid] < node.key[s]
      BY <1>2, <3>1 DEF Exact
    <3> QED
      BY <1>2, <3>1, <3>2, <3>3
  <2> QED
    BY <2>1, <2>2
<1>4. Within(Q, i, low)
  <2>1. \A s \in 0..low.size-1 : InGap(Q, i, low.key[s])
    BY <1>1, <1>3, PartedGaps DEF Within, sep
  <2>2. i < Seps(Q) /\ Q.key[i] = sep
    BY SepsNat DEF Parted, sep
  <2> QED
    BY <1>1, <1>3, <2>1, <2>2 DEF Within
<1>5. Within(Q, i + 1, upp)
  <2>1. ASSUME NEW s \in 0..upp.size-1 PROVE InGap(Q, i + 1, upp.key[s])
    <3>1. mid + s \in mid..M-1 /\ upp.key[s] = node.key[mid + s]
      BY <1>1
    <3>2. InGap(R, i, node.key[mid + s]) /\ sep <= node.key[mid + s]
      BY <1>3, <3>1 DEF Within
    <3> QED
      BY <3>1, <3>2, PartedGaps DEF sep
  <2> QED
    BY <1>1, <2>1 DEF Within
<1> QED
  BY <1>4, <1>5

(* And they are as right as the leaf was. *)
LEMMA HalvesExact ==
  ASSUME NEW node \in BptreeNode, node.size = M, node.isLeaf, NEW self,
         NEW low, low = LowerHalf(node), NEW upp, upp = UpperHalf(node, self),
         NEW S, Exact(node, S)
  PROVE  Exact(low, S) /\ Exact(upp, S)
<1> DEFINE mid == Mid(node)
<1>1. /\ mid \in 2..M-1 /\ M \in Nat
      /\ low.size = mid /\ low.key = node.key /\ low.dat = node.dat /\ low.del = node.del
      /\ upp.size = M - mid
      /\ \A s \in 0..M-mid-1 : /\ mid + s \in 0..M-1
                               /\ upp.key[s] = node.key[mid + s]
                               /\ upp.dat[s] = node.dat[mid + s]
                               /\ upp.del[s] = node.del[mid + s]
      /\ \A s \in M-mid..M-1 : upp.key[s] = Uninit
  BY HalvesSpelled, OrderAssumption
<1> HIDE DEF mid
<1>2. Exact(low, S)
  BY <1>1 DEF Exact
<1>3. Exact(upp, S)
  <2>1. ASSUME NEW s \in 0..upp.size-1, NEW t \in 0..upp.size-1, s < t
        PROVE  upp.key[s] < upp.key[t]
    <3>1. mid + s \in 0..node.size-1 /\ mid + t \in 0..node.size-1 /\ mid + s < mid + t
      BY <1>1, <2>1
    <3> QED
      BY <1>1, <3>1 DEF Exact
  <2>2. ASSUME NEW s \in 0..upp.size-1
        PROVE  upp.del[s] <=> <<upp.key[s], upp.dat[s]>> \notin S
    <3>1. mid + s \in 0..node.size-1
      BY <1>1
    <3>2. node.del[mid + s] <=> <<node.key[mid + s], node.dat[mid + s]>> \notin S
      BY <3>1 DEF Exact
    <3>3. upp.key[s] = node.key[mid + s] /\ upp.dat[s] = node.dat[mid + s] /\ upp.del[s] = node.del[mid + s]
      BY <1>1
    <3> QED
      BY <3>2, <3>3
  <2> QED
    BY <2>1, <2>2 DEF Exact
<1> QED
  BY <1>2, <1>3

-----------------------------------------------------------------------------
(* A leaf is written again. *)
LEMMA SameShape ==
  ASSUME NEW f, NEW root, NEW S, Shape(f, root, S), f[root] \in BptreeNode,
         NEW i \in 0..Seps(f[root]), NEW leaf, leaf = Kid(f, root, i),
         NEW g, Pages(g) = Pages(f), \A p \in Pages(f) : p # leaf => g[p] = f[p],
         g[leaf].isLeaf, g[leaf].parent = f[leaf].parent, Within(f[root], i, g[leaf]),
         NEW T, Exact(g[leaf], T),
         \A j \in 0..Seps(f[root]) : j # i => Exact(f[Kid(f, root, j)], T)
  PROVE  Shape(g, root, T)
<1>1. CASE f[root].isLeaf
  <2>1. Seps(f[root]) = 0 /\ i = 0 /\ leaf = root
    BY <1>1 DEF Seps, Kid
  <2>2. /\ Seps(g[root]) = 0 /\ Kid(g, root, 0) = root /\ Kid(f, root, 0) = root
        /\ g[root].isLeaf
    BY <2>1 DEF Seps, Kid
  <2>3. g[root].parent = NODE_EOF
    BY <1>1, <2>1, <2>2 DEF Shape, LeafOK
  <2>4. Within(g[root], 0, g[root])
    BY <2>1, <2>2 DEF Within, InGap
  <2> QED
    BY <2>1, <2>2, <2>3, <2>4 DEF Shape, LeafOK
<1>2. CASE ~f[root].isLeaf
  <2>1. f[leaf].isLeaf /\ leaf # root /\ g[root] = f[root]
    BY <1>2 DEF Shape, LeafOK
  <2>2. \A j : Kid(g, root, j) = Kid(f, root, j)
    BY <2>1 DEF Kid
  <2>3. ASSUME NEW j \in 0..Seps(f[root]) PROVE LeafOK(g, root, j, g[Kid(f, root, j)], T)
    <3>1. LeafOK(f, root, j, f[Kid(f, root, j)], S) /\ Kid(f, root, j) \in Pages(f)
      BY DEF Shape
    <3>2. CASE j = i
      BY <2>1, <3>1, <3>2 DEF LeafOK
    <3>3. CASE j # i
      <4>1. Kid(f, root, j) # leaf
        BY <3>3 DEF Shape
      <4> QED
        BY <2>1, <3>1, <3>3, <4>1 DEF LeafOK
    <3> QED
      BY <3>2, <3>3
  <2> QED
    BY <2>1, <2>2, <2>3 DEF Shape
<1> QED
  BY <1>1, <1>2

(* A leaf is split: its halves i and i + 1 hang on the root top, which is  *)
(* the old one, or new if that was a leaf.                                 *)
LEMMA PartedShape ==
  ASSUME NEW f, NEW root, NEW S, Shape(f, root, S), f[root] \in BptreeNode,
         NEW i \in 0..Seps(f[root]), NEW g, NEW top, NEW new, NEW sep,
         Pages(g) = Pages(f) \cup {top, new}, new \notin Pages(f), new # top,
         \/ top = root /\ ~f[root].isLeaf
         \/ top \notin Pages(f) /\ f[root].isLeaf,
         ~g[top].isLeaf, Parted(g[top], f[root], i, sep),
         \A j \in 0..i : Kid(g, top, j) = Kid(f, root, j),
         Kid(g, top, i + 1) = new,
         \A j \in i+1..Seps(f[root]) : Kid(g, top, j + 1) = Kid(f, root, j),
         \A p \in Pages(f) : p # top /\ p # Kid(f, root, i) => g[p] = f[p],
         NEW T,
         \A j \in 0..Seps(f[root]) : j # i => Exact(f[Kid(f, root, j)], T),
         LeafOK(g, top, i, g[Kid(f, root, i)], T), LeafOK(g, top, i + 1, g[new], T)
  PROVE  Shape(g, top, T)
<1> DEFINE n == Seps(f[root])
           Old(j) == IF j <= i THEN j ELSE j - 1
<1>1. n \in Nat /\ Seps(g[top]) = n + 1 /\ i \in 0..n /\ i \in Nat
  BY SepsNat DEF Parted
<1>2. ASSUME NEW j \in 0..n
      PROVE  /\ Kid(f, root, j) \in Pages(f) /\ LeafOK(f, root, j, f[Kid(f, root, j)], S)
             /\ \A k \in 0..n : Kid(f, root, j) = Kid(f, root, k) => j = k
  BY DEF Shape
<1>3. ASSUME NEW j \in 0..n+1
      PROVE  /\ j = i + 1 => Kid(g, top, j) = new
             /\ j # i + 1 => Old(j) \in 0..n /\ Kid(g, top, j) = Kid(f, root, Old(j))
  <2>1. CASE j <= i
    <3>1. j \in 0..i /\ Old(j) = j /\ j \in 0..n /\ j # i + 1
      BY <1>1, <2>1
    <3> QED
      BY <3>1
  <2>2. CASE j > i + 1
    <3>1. j-1 \in i+1..n /\ Old(j) = j-1 /\ j-1 \in 0..n /\ (j-1) + 1 = j
      BY <1>1, <2>2
    <3> QED
      BY <3>1
  <2>3. j <= i \/ j = i + 1 \/ j > i + 1
    BY <1>1
  <2> QED
    BY <2>1, <2>2, <2>3
<1>4. ASSUME NEW p \in Pages(g)
      PROVE  p = top \/ \E j \in 0..Seps(g[top]) : p = Kid(g, top, j)
  <2>1. CASE p = new
    <3>1. i + 1 \in 0..n+1
      BY <1>1
    <3> QED
      BY <1>1, <2>1, <3>1
  <2>2. CASE p \in Pages(f) /\ p # top
    <3>1. PICK j \in 0..n : p = Kid(f, root, j)
      <4>1. CASE p = root
        BY <1>1, <2>2, <4>1 DEF Kid
      <4> QED
        BY <2>2, <4>1 DEF Shape
    <3>2. CASE j <= i
      <4>1. j \in 0..i /\ j \in 0..n+1
        BY <1>1, <3>2
      <4> QED
        BY <1>1, <3>1, <4>1
    <3>3. CASE j > i
      <4>1. j \in i+1..n /\ j + 1 \in 0..n+1
        BY <1>1, <3>3
      <4> QED
        BY <1>1, <3>1, <4>1
    <3> QED
      BY <1>1, <3>2, <3>3
  <2> QED
    BY <2>1, <2>2
<1>5. ASSUME NEW j \in 0..n+1
      PROVE  Kid(g, top, j) \in Pages(g) /\ LeafOK(g, top, j, g[Kid(g, top, j)], T)
  <2>1. CASE j = i + 1
    BY <1>3, <2>1
  <2>2. CASE j = i
    <3>1. Old(j) = i /\ j # i + 1
      BY <1>1, <2>2
    <3>2. Kid(g, top, j) = Kid(f, root, i)
      BY <1>3, <3>1
    <3> QED
      BY <1>2, <2>2, <3>2
  <2>3. CASE j # i /\ j # i + 1
    <3> DEFINE o == Old(j)
               p == Kid(f, root, o)
    <3>1. o \in 0..n /\ o # i /\ (j < i => o = j /\ o < i) /\ (j > i => o > i /\ j = o + 1)
      BY <1>1, <1>3, <2>3
    <3>2. Kid(g, top, j) = p
      BY <1>3, <2>3
    <3> HIDE DEF o, Old
    <3>3. p \in Pages(f) /\ LeafOK(f, root, o, f[p], S) /\ p # Kid(f, root, i)
      BY <1>2, <3>1
    <3>4. top = root /\ ~f[root].isLeaf
      <4>1. CASE f[root].isLeaf
        <5>1. n = 0
          BY <4>1 DEF Seps
        <5> QED
          BY <3>1, <5>1
      <4> QED
        BY <4>1
    <3>5. g[p] = f[p]
      BY <3>3, <3>4 DEF LeafOK
    <3>6. Within(g[top], j, f[p])
      <4>1. Within(f[root], o, f[p])
        BY <3>3 DEF LeafOK
      <4>2. o < i => Within(g[top], o, f[p])
        BY <3>1, <4>1, PartedWithin
      <4>3. o > i => Within(g[top], o + 1, f[p])
        BY <3>1, <4>1, PartedWithin
      <4>4. j < i \/ j > i
        BY <1>1, <2>3
      <4> QED
        BY <3>1, <4>2, <4>3, <4>4
    <3>7. Exact(f[p], T)
      BY <3>1
    <3> QED
      BY <3>2, <3>3, <3>4, <3>5, <3>6, <3>7 DEF LeafOK
  <2> QED
    BY <2>1, <2>2, <2>3
<1>6. ASSUME NEW j \in 0..n+1, NEW k \in 0..n+1, Kid(g, top, j) = Kid(g, top, k)
      PROVE  j = k
  <2>1. CASE j = i + 1 \/ k = i + 1
    BY <1>2, <1>3, <1>6, <2>1
  <2>2. CASE j # i + 1 /\ k # i + 1
    <3>1. Old(j) = Old(k)
      BY <1>2, <1>3, <1>6, <2>2
    <3> QED
      BY <1>1, <2>2, <3>1
  <2> QED
    BY <2>1, <2>2
<1> QED
  <2>1. top \in Pages(g) /\ Seps(g[top]) = n + 1
    BY <1>1
  <2> QED
    BY <1>4, <1>5, <1>6, <2>1 DEF Shape

-----------------------------------------------------------------------------
(* The pages of a file with a root, and the root itself. *)
LEMMA PageFacts ==
  ASSUME Rooted
  PROVE  /\ mem.root \in Pages(disk) /\ mem.root >= 1
         /\ \A p \in Pages(disk) :
              /\ disk[p] \in BptreeNode /\ Initialised(disk[p]) /\ Sorted(disk[p])
              /\ disk[p].size < M /\ disk[p].self = p /\ p >= 1
              /\ disk[p].isLeaf => SlotsFrom(disk[p], inserted)
         /\ disk \in Seq(Page)
<1>1. IInv /\ mem.root \in Pages(disk) /\ disk \in Seq(Page)
  BY DEF Rooted, IInv, FileOK
<1>2. ASSUME NEW p \in Pages(disk)
      PROVE  Good(disk[p], inserted) /\ disk[p].self = p /\ p \in 1..mem.size
  BY <1>1, FileFacts
<1> QED
  BY <1>1, <1>2 DEF Good

(* A descent at a leaf is at the one its key belongs into. *)
LEMMA PlacedAtLeaf ==
  ASSUME Rooted, NEW S, Shape(disk, mem.root, S), Placed, at \in Pages(disk), disk[at].isLeaf
  PROVE  \E i \in 0..Seps(disk[mem.root]) :
           at = Kid(disk, mem.root, i) /\ InGap(disk[mem.root], i, arg.key)
<1>1. CASE at = mem.root
  <2>1. Seps(disk[mem.root]) = 0 /\ Kid(disk, mem.root, 0) = mem.root
    BY <1>1 DEF Seps, Kid
  <2>2. InGap(disk[mem.root], 0, arg.key)
    BY <2>1 DEF InGap
  <2> QED
    BY <1>1, <2>1, <2>2
<1> QED
  BY <1>1 DEF Placed

(* The descent goes from the root to that leaf. *)
LEMMA DescendPlaced ==
  ASSUME Calls, Rooted, Descend, NEW S, Shape(disk, mem.root, S), Placed
  PROVE  Placed'
<1> DEFINE R == disk[mem.root]
           x == GetIndex(R, arg.key)
<1>1. /\ ~disk[at].isLeaf /\ at' = disk[at].dat[GetIndex(disk[at], arg.key)]
      /\ UNCHANGED <<mem, disk, arg>>
  BY DEF Descend, file
<1>2. at = mem.root
  <2>1. ASSUME NEW i \in 0..Seps(R), at = Kid(disk, mem.root, i) PROVE FALSE
    BY <1>1, <2>1 DEF Shape, LeafOK
  <2> QED
    BY <2>1 DEF Placed
<1>3. R \in BptreeNode /\ Initialised(R) /\ arg.key \in Int
  BY PageFacts, EntryTyped DEF Rooted
<1>4. IsGetIndex(x, R, arg.key) /\ at' = Kid(disk, mem.root, x) /\ Seps(R) = R.size
  BY <1>1, <1>2, <1>3, GetIndexDefined DEF Kid, Seps
<1>5. x \in 0..Seps(R) /\ InGap(R, x, arg.key)
  <2> HIDE DEF x, R
  <2>1. x \in 0..R.size /\ R.size \in Nat /\ (x > 0 => x-1 \in 0..x-1)
    BY <1>3, <1>4, NodeFields DEF IsGetIndex
  <2> QED
    BY <1>4, <2>1 DEF IsGetIndex, InGap
<1> QED
  BY <1>1, <1>4, <1>5 DEF Placed

(* The key of a new entry is in no leaf. *)
LEMMA NewKey ==
  ASSUME UniqueKeys, NEW S, S \subseteq Entries \ {Entry}, Entry \in Entries,
         NEW n \in BptreeNode, Initialised(n), SlotsFrom(n, S)
  PROVE  Without(n, arg.key)
<1> SUFFICES ASSUME NEW s \in 0..n.size-1, n.key[s] = arg.key PROVE FALSE
  BY DEF Without
<1>1. s \in 0..M-1 /\ n.key[s] \in Int
  BY NodeFields DEF Initialised
<1>2. <<n.key[s], n.dat[s]>> \in S
  BY <1>1, UninitAssumption DEF SlotsFrom
<1>3. <<n.key[s], n.dat[s]>>[1] = Entry[1]
  BY DEF Entry
<1> QED
  BY <1>2, <1>3 DEF UniqueKeys

(* An entry that is not in a leaf makes no difference to it. *)
LEMMA ExactElsewhere ==
  ASSUME NEW n \in BptreeNode, Initialised(n), NEW I, SlotsFrom(n, I), NEW S, Exact(n, S),
         NEW T, \A e \in I : e \in S <=> e \in T
  PROVE  Exact(n, T)
<1>1. ASSUME NEW s \in 0..n.size-1 PROVE n.del[s] <=> <<n.key[s], n.dat[s]>> \notin T
  <2>1. s \in 0..M-1 /\ n.key[s] \in Int
    BY NodeFields DEF Initialised
  <2>2. <<n.key[s], n.dat[s]>> \in I
    BY <2>1, UninitAssumption DEF SlotsFrom
  <2>3. n.del[s] <=> <<n.key[s], n.dat[s]>> \notin S
    BY DEF Exact
  <2> QED
    BY <2>2, <2>3
<1> QED
  BY <1>1 DEF Exact

(* A new entry in a leaf with room. *)
LEMMA EnterShape ==
  ASSUME UniqueKeys, Calls, Rooted, InsertIntoLeafNode, pc' = "flush",
         Shape(disk, mem.root, live), Placed
  PROVE  Shape(disk', mem.root, live')
<1> DEFINE node == InsertEntry(disk[at], arg.key, arg.dat)
           R == disk[mem.root]
<1>1. /\ pc = "seek" /\ arg.op = "insert" /\ disk' = NodeFlush(disk, node)
      /\ live' = live \cup {Entry}
  BY DEF InsertIntoLeafNode, AtLeaf, Inserted, Entry
<1>2. /\ at \in Pages(disk) /\ at >= 1 /\ disk[at].isLeaf /\ disk[at] \in BptreeNode
      /\ Initialised(disk[at]) /\ Sorted(disk[at]) /\ disk[at].size < M
      /\ node \in BptreeNode /\ node.self = at /\ node.isLeaf
  BY EnteredLeaf
<1>3. arg.key \in Int /\ arg.dat \in Int /\ Entry = <<arg.key, arg.dat>>
      /\ Entry \in Entries \ inserted /\ inserted \subseteq Entries /\ live \subseteq inserted
  BY <1>1, EntryTyped DEF Rooted, Entry, Calls
<1>4. node.parent = disk[at].parent
  BY <1>2, <1>3, InsertEntryNode
<1>5. PICK i \in 0..Seps(R) : at = Kid(disk, mem.root, i) /\ InGap(R, i, arg.key)
  BY <1>2, PlacedAtLeaf
<1>6. Within(R, i, disk[at]) /\ Exact(disk[at], live)
  BY <1>5 DEF Shape, LeafOK
<1>7. Without(disk[at], arg.key)
  BY <1>2, <1>3, PageFacts, NewKey
<1>8. Within(R, i, node) /\ Exact(node, live')
  <2> DEFINE old == disk[at]
             k == arg.key
             d == arg.dat
  <2>1. old \in BptreeNode /\ old.size < M /\ Initialised(old) /\ Sorted(old)
    BY <1>2
  <2>2. k \in Int /\ d \in Int /\ live' = live \cup {<<k, d>>}
    BY <1>1, <1>3
  <2>3. InGap(R, i, k) /\ Within(R, i, old) /\ Exact(old, live) /\ Without(old, k)
    BY <1>5, <1>6, <1>7
  <2>4. node = InsertEntry(old, k, d)
    OBVIOUS
  <2> HIDE DEF old, k, d, node, R
  <2> QED
    BY <2>1, <2>2, <2>3, <2>4, EnterFits
<1> HIDE DEF node
<1>9. /\ Pages(disk') = Pages(disk) /\ disk'[at] = node
      /\ \A p \in Pages(disk) : p # at => disk'[p] = disk[p]
  <2>1. /\ disk \in Seq(Page) /\ node \in BptreeNode /\ node.self >= 1
        /\ disk' = NodeFlush(disk, node)
    BY <1>1, <1>2 DEF Calls
  <2>2. /\ Pages(disk') = Pages(disk) \cup {node.self}
        /\ disk'[node.self] = node
        /\ \A p \in Pages(disk) : p # node.self => disk'[p] = disk[p]
    BY <2>1, FlushPages
  <2> QED
    BY <1>2, <2>2
<1>10. ASSUME NEW j \in 0..Seps(R) PROVE Exact(disk[Kid(disk, mem.root, j)], live')
  <2> DEFINE p == Kid(disk, mem.root, j)
  <2>1. p \in Pages(disk) /\ disk[p].isLeaf /\ Exact(disk[p], live)
    BY DEF Shape, LeafOK
  <2> HIDE DEF p
  <2>2. disk[p] \in BptreeNode /\ Initialised(disk[p]) /\ SlotsFrom(disk[p], inserted)
    BY <2>1, PageFacts
  <2>3. \A e \in inserted : e \in live <=> e \in live'
    BY <1>1, <1>3
  <2>4. Exact(disk[p], live')
    BY <2>1, <2>2, <2>3, ExactElsewhere
  <2> QED
    BY <2>4 DEF p
<1>11. R \in BptreeNode
  BY PageFacts
<1> QED
  BY <1>2, <1>4, <1>5, <1>8, <1>9, <1>10, <1>11, SameShape

-----------------------------------------------------------------------------
(* The file g is f with the page n written. *)
Wrote(g, f, n) ==
  /\ g \in Seq(Page) /\ Pages(g) = Pages(f) \cup {n.self} /\ g[n.self] = n
  /\ \A p \in Pages(f) : p # n.self => g[p] = f[p]

(* NodeFlush does that. *)
LEMMA FlushWrites ==
  ASSUME NEW f \in Seq(Page), NEW n \in BptreeNode, n.self >= 1
  PROVE  Wrote(NodeFlush(f, n), f, n)
<1> DEFINE g == NodeFlush(f, n)
<1>1. f \in Seq(Page) /\ n \in BptreeNode /\ n.self >= 1 /\ g = NodeFlush(f, n)
  OBVIOUS
<1> HIDE DEF g
<1>2. Wrote(g, f, n)
  BY <1>1, FlushPages DEF Wrote
<1> QED
  BY <1>2 DEF g

(* Two pages are written. *)
LEMMA TwoFlushes ==
  ASSUME NEW f \in Seq(Page), NEW l \in BptreeNode, NEW r \in BptreeNode,
         l.self >= 1, r.self >= 1, l.self # r.self,
         NEW g, g = NodeFlush(NodeFlush(f, l), r)
  PROVE  /\ Pages(g) = Pages(f) \cup {l.self, r.self}
         /\ g[l.self] = l /\ g[r.self] = r
         /\ \A p \in Pages(f) : p # l.self /\ p # r.self => g[p] = f[p]
<1> DEFINE h == NodeFlush(f, l)
<1>1. Wrote(h, f, l)
  BY FlushWrites
<1>2. h \in Seq(Page)
  BY <1>1 DEF Wrote
<1>3. Wrote(g, h, r)
  BY <1>2, FlushWrites
<1> HIDE DEF h
<1> QED
  BY <1>1, <1>3 DEF Wrote

(* The leaf that is split and its halves. *)
LEMMA FullFacts ==
  ASSUME Calls, Rooted, pc = "climb", Shallow
  PROVE  /\ Full \in BptreeNode /\ Full.size = M /\ Full.isLeaf /\ Initialised(Full)
         /\ Full.self = at /\ Full.parent = disk[at].parent /\ at >= 1 /\ at \in Pages(disk)
         /\ Top.left \in BptreeNode /\ Top.left.self = at /\ Top.left.isLeaf
         /\ Top.left.parent = disk[at].parent
         /\ Top.right \in BptreeNode /\ Top.right.self = mem.size /\ Top.right.isLeaf
         /\ Top.right.parent = disk[at].parent
         /\ mem.size >= 1 /\ mem.size \in Nat /\ mem.size \notin Pages(disk)
<1>1. /\ at \in Pages(disk) /\ disk[at].isLeaf /\ Full.size = M
      /\ Top.left = LowerHalf(Full) /\ Top.right = UpperHalf(Full, mem.size)
  BY DEF Shallow
<1>2. /\ disk[at] \in BptreeNode /\ Initialised(disk[at]) /\ Sorted(disk[at])
      /\ disk[at].size < M /\ disk[at].self = at /\ at >= 1
      /\ arg.key \in Int /\ arg.dat \in Int
  BY <1>1, PageFacts, EntryTyped DEF Rooted
<1>3. /\ Full \in BptreeNode /\ Full.self = at /\ Full.parent = disk[at].parent
      /\ Full.isLeaf /\ Initialised(Full) /\ Sorted(Full)
  BY <1>1, <1>2, InsertEntryNode DEF Full
<1>4. mem.size \in Nat /\ Top.right.self \in (1..mem.size) \ Pages(disk)
  BY OuterFrame, TopFrame, FileFacts DEF Rooted, FrameOK, Top
<1> DEFINE low == LowerHalf(Full)
           upp == UpperHalf(Full, mem.size)
<1>5. low \in BptreeNode /\ low.self = at /\ low.parent = disk[at].parent /\ low.isLeaf
  <2>1. low = LowerHalf(Full)
    OBVIOUS
  <2> HIDE DEF low
  <2> QED
    BY <1>1, <1>3, <2>1, LowerHalfNode
<1>6. upp \in BptreeNode /\ upp.self = mem.size /\ upp.parent = disk[at].parent /\ upp.isLeaf
  <2>1. upp = UpperHalf(Full, mem.size)
    OBVIOUS
  <2> HIDE DEF upp
  <2> QED
    BY <1>1, <1>3, <1>4, <2>1, UpperHalfNode
<1> HIDE DEF low, upp
<1>7. Top.left = low /\ Top.right = upp
  BY <1>1 DEF low, upp
<1> QED
  BY <1>1, <1>2, <1>3, <1>4, <1>5, <1>6, <1>7

(* Where it belongs. *)
LEMMA Climbing ==
  ASSUME UniqueKeys, Calls, Rooted, pc = "climb", Shallow
  PROVE  /\ \E i \in 0..Seps(disk[mem.root]) :
              /\ at = Kid(disk, mem.root, i)
              /\ Within(disk[mem.root], i, Full)
         /\ Exact(Full, live)
         /\ \A j \in 0..Seps(disk[mem.root]) : Exact(disk[Kid(disk, mem.root, j)], live)
<1> DEFINE R == disk[mem.root]
           S == live \ {Entry}
<1>1. /\ at \in Pages(disk) /\ disk[at].isLeaf /\ Shape(disk, mem.root, S) /\ Placed
  BY DEF Shallow
<1>2. PICK i \in 0..Seps(R) : at = Kid(disk, mem.root, i) /\ InGap(R, i, arg.key)
  BY <1>1, PlacedAtLeaf
<1>3. Durable = inserted \ {Entry} /\ inserted \subseteq Entries /\ Entry \in Entries \cap live
      /\ live \subseteq inserted
  BY DurableIs DEF Calls
<1>4. ASSUME NEW p \in Pages(disk), disk[p].isLeaf
      PROVE  /\ disk[p] \in BptreeNode /\ Initialised(disk[p]) /\ SlotsFrom(disk[p], Durable)
             /\ disk[p].size < M /\ Sorted(disk[p])
  BY <1>4 DEF Rooted, Headers, FileOK, Good
<1>5. Without(disk[at], arg.key)
  BY <1>1, <1>3, <1>4, NewKey
<1>6. Within(R, i, disk[at]) /\ Exact(disk[at], S)
  BY <1>1, <1>2 DEF Shape, LeafOK
<1>7. Within(R, i, Full) /\ Exact(Full, live)
  <2> DEFINE old == disk[at]
             k == arg.key
             d == arg.dat
  <2>1. old \in BptreeNode /\ old.size < M /\ Initialised(old) /\ Sorted(old)
    BY <1>1, <1>4
  <2>2. k \in Int /\ d \in Int
    BY EntryTyped DEF Rooted
  <2>3. InGap(R, i, k) /\ Within(R, i, old) /\ Exact(old, S) /\ Without(old, k)
    BY <1>2, <1>5, <1>6
  <2>4. Full = InsertEntry(old, k, d)
    BY DEF Full
  <2>5. live = S \cup {<<k, d>>}
    BY <1>3 DEF Entry
  <2> HIDE DEF old, k, d, R, S
  <2>6. Within(R, i, Full) /\ Exact(Full, S \cup {<<k, d>>})
    BY <2>1, <2>2, <2>3, <2>4, EnterFits
  <2> QED
    BY <2>5, <2>6
<1>8. ASSUME NEW j \in 0..Seps(R) PROVE Exact(disk[Kid(disk, mem.root, j)], live)
  <2> DEFINE p == Kid(disk, mem.root, j)
  <2>1. p \in Pages(disk) /\ disk[p].isLeaf /\ Exact(disk[p], S)
    BY <1>1 DEF Shape, LeafOK
  <2> HIDE DEF p
  <2>2. disk[p] \in BptreeNode /\ Initialised(disk[p]) /\ SlotsFrom(disk[p], Durable)
    BY <1>4, <2>1
  <2>3. \A e \in Durable : e \in S <=> e \in live
    BY <1>3
  <2>4. Exact(disk[p], live)
    BY <2>1, <2>2, <2>3, ExactElsewhere
  <2> QED
    BY <2>4 DEF p
<1> QED
  BY <1>2, <1>7, <1>8

(* A node gets another parent. *)
LEMMA ParentSet ==
  ASSUME NEW n \in BptreeNode, NEW p \in Int, NEW m, m = [n EXCEPT !.parent = p]
  PROVE  /\ m \in BptreeNode /\ m.parent = p
         /\ m.self = n.self /\ m.size = n.size /\ m.key = n.key /\ m.dat = n.dat
         /\ m.isLeaf = n.isLeaf
         /\ m.del = n.del
  BY DEF BptreeNode

(* The root is a leaf and is split: its halves under a new root. *)
LEMMA NewRootShape ==
  ASSUME UniqueKeys, Calls, Rooted, NewRoot, Shallow
  PROVE  Shape(NodeFlush(NodeFlush(disk', Top'.left), Top'.right), mem'.root, live')
<1> DEFINE top == mem.size + 1
           new == mem.size
           k == Top.right.key[0]
           Q == RootOver(top, k, at, new)
           l == [Top.left EXCEPT !.parent = top]
           r == [Top.right EXCEPT !.parent = top]
           g == NodeFlush(NodeFlush(disk', l), r)
           R == disk[mem.root]
<1>1. /\ pc = "climb" /\ Top.left.parent = NODE_EOF /\ live' = live
  BY DEF NewRoot, ghost
<1>2. /\ Full \in BptreeNode /\ Full.size = M /\ Full.isLeaf /\ Initialised(Full)
      /\ at >= 1 /\ at \in Pages(disk)
      /\ Top.left \in BptreeNode /\ Top.left.self = at /\ Top.left.isLeaf
      /\ Top.right \in BptreeNode /\ Top.right.self = new /\ Top.right.isLeaf
      /\ disk[at].parent = NODE_EOF
      /\ new >= 1 /\ new \in Nat /\ new \notin Pages(disk)
  BY <1>1, FullFacts
<1>3. mem'.root = top /\ disk' = NodeFlush(disk, Q) /\ stack' = WithTop(l, r)
  BY <1>2 DEF NewRoot
<1>4. top \in Int /\ top = mem.size + 1
  BY <1>2
<1>5. /\ l \in BptreeNode /\ l.parent = top /\ l.self = Top.left.self
       /\ l.size = Top.left.size /\ l.key = Top.left.key /\ l.dat = Top.left.dat
       /\ l.isLeaf = Top.left.isLeaf
       /\ l.del = Top.left.del
  <2> DEFINE n == Top.left
  <2>1. n \in BptreeNode /\ l = [n EXCEPT !.parent = top]
    BY <1>2
  <2> HIDE DEF n, l, top
  <2>2. /\ l \in BptreeNode /\ l.parent = top /\ l.self = n.self
        /\ l.size = n.size /\ l.key = n.key /\ l.dat = n.dat
        /\ l.isLeaf = n.isLeaf
        /\ l.del = n.del
    BY <1>4, <2>1, ParentSet
  <2> QED
    BY <2>2 DEF n
<1>6. /\ r \in BptreeNode /\ r.parent = top /\ r.self = Top.right.self
       /\ r.size = Top.right.size /\ r.key = Top.right.key /\ r.dat = Top.right.dat
       /\ r.isLeaf = Top.right.isLeaf
       /\ r.del = Top.right.del
  <2> DEFINE n == Top.right
  <2>1. n \in BptreeNode /\ r = [n EXCEPT !.parent = top]
    BY <1>2
  <2> HIDE DEF n, r, top
  <2>2. /\ r \in BptreeNode /\ r.parent = top /\ r.self = n.self
        /\ r.size = n.size /\ r.key = n.key /\ r.dat = n.dat
        /\ r.isLeaf = n.isLeaf
        /\ r.del = n.del
    BY <1>4, <2>1, ParentSet
  <2> QED
    BY <2>2 DEF n
<1>7. Top'.left = l /\ Top'.right = r
  <2>1. Len(stack) \in DOMAIN stack /\ Len(stack) > 0 /\ DOMAIN stack = 1..Len(stack)
        /\ stack \in Seq(Frame) /\ Len(stack) \in Nat
    BY <1>1, OuterFrame, TopFrame DEF Rooted
  <2>2. DOMAIN stack' = DOMAIN stack /\ stack'[Len(stack)] = [left |-> l, right |-> r]
    BY <1>3, <2>1 DEF WithTop
  <2>3. l \in BptreeNode /\ r \in BptreeNode
    BY <1>5, <1>6
  <2>4. [left |-> l, right |-> r] \in Frame
    BY <2>3 DEF Frame
  <2>5. stack' \in Seq(Frame)
    <3> HIDE DEF l, r
    <3> QED
      BY <1>3, <2>1, <2>4 DEF WithTop
  <2>6. Len(stack') = Len(stack)
    <3>1. Len(stack') \in Nat /\ DOMAIN stack' = 1..Len(stack')
      BY <2>5, LenProperties
    <3> QED
      BY <2>1, <2>2, <3>1
  <2> QED
    BY <2>2, <2>6 DEF Top
<1>8. /\ l \in BptreeNode /\ l.self = at /\ l.isLeaf /\ l.parent = top
      /\ r \in BptreeNode /\ r.self = new /\ r.isLeaf /\ r.parent = top
      /\ top \in Nat /\ top >= 1 /\ top # new /\ top \notin Pages(disk)
  <2>1. top \in Nat /\ top >= 1 /\ top # new
    BY <1>2
  <2>2. top \notin Pages(disk)
    BY FileFacts DEF Rooted
  <2> HIDE DEF l, r, top
  <2> QED
    BY <1>2, <1>5, <1>6, <2>1, <2>2
<1>9. /\ Shape(disk, mem.root, live \ {Entry}) /\ Placed /\ disk[at].isLeaf
      /\ Top.left = LowerHalf(Full) /\ Top.right = UpperHalf(Full, new)
  BY <1>1 DEF Shallow
<1>10. PICK i \in 0..Seps(R) : at = Kid(disk, mem.root, i) /\ Within(R, i, Full)
  BY <1>1, Climbing
<1>11. R.isLeaf /\ Seps(R) = 0 /\ i = 0 /\ at = mem.root
  <2>1. disk[at].parent = IF R.isLeaf THEN NODE_EOF ELSE mem.root
    BY <1>9, <1>10 DEF Shape, LeafOK
  <2>2. mem.root # NODE_EOF
    BY PageFacts DEF NODE_EOF
  <2>3. R.isLeaf
    BY <1>2, <2>1, <2>2
  <2>4. Seps(R) = 0
    BY <2>3 DEF Seps
  <2> QED
    BY <1>10, <2>3, <2>4 DEF Kid
<1>12. k \in Int
  BY <1>1, OuterFrame, TopFrame DEF Rooted
<1>13. /\ Q \in BptreeNode /\ Q.self = top /\ ~Q.isLeaf /\ Q.size = 1
       /\ Q.key[0] = k /\ Q.dat[0] = at /\ Q.dat[1] = new
  <2>1. at \in Int /\ new \in Int
    BY <1>2 DEF Calls
  <2>2. Q = RootOver(top, k, at, new) /\ top \in Nat /\ k \in Int /\ at \in Int /\ new \in Int
    BY <1>8, <1>12, <2>1
  <2> HIDE DEF Q, top, new, k, l, r, g, R
  <2>3. Good(Q, {})
    BY <2>2, RootOverNode
  <2>4. Q.self = top /\ ~Q.isLeaf /\ Q.size = 1 /\ Q.key[0] = k /\ Q.dat[0] = at /\ Q.dat[1] = new
    BY <2>2, OrderAssumption DEF RootOver, NewBptreeNode
  <2> QED
    BY <2>3, <2>4 DEF Good
<1> HIDE DEF Q, l, r
<1>14. /\ disk' \in Seq(Page) /\ Pages(disk') = Pages(disk) \cup {top} /\ disk'[top] = Q
       /\ \A p \in Pages(disk) : p # top => disk'[p] = disk[p]
  <2>1. disk \in Seq(Page) /\ Q.self >= 1
    BY <1>8, <1>13 DEF Calls
  <2>2. Wrote(disk', disk, Q)
    BY <1>3, <1>13, <2>1, FlushWrites
  <2> QED
    BY <1>13, <2>2 DEF Wrote
<1>15. /\ Pages(g) = Pages(disk') \cup {at, new} /\ g[at] = l /\ g[new] = r
       /\ \A p \in Pages(disk') : p # at /\ p # new => g[p] = disk'[p]
  <2>1. at # new
    BY <1>2
  <2>2. /\ disk' \in Seq(Page) /\ l \in BptreeNode /\ r \in BptreeNode
        /\ l.self >= 1 /\ r.self >= 1 /\ l.self # r.self
    BY <1>2, <1>8, <1>14, <2>1
  <2>3. g = NodeFlush(NodeFlush(disk', l), r)
    OBVIOUS
  <2> HIDE DEF g
  <2> QED
    BY <1>8, <2>2, <2>3, TwoFlushes
<1> HIDE DEF g
<1>16. g[top] = Q /\ Pages(g) = Pages(disk) \cup {top, new} /\ g[at] = l /\ g[new] = r
  <2>1. top # at
    BY <1>2, <1>8
  <2> QED
    BY <1>2, <1>8, <1>14, <1>15, <2>1
<1>17. Seps(Q) = 1 /\ Parted(Q, R, i, k)
  <2>1. Seps(Q) = 1
    BY <1>13 DEF Seps
  <2> QED
    BY <1>11, <1>13, <2>1 DEF Parted
<1>18. LeafOK(g, top, 0, l, live') /\ LeafOK(g, top, 1, r, live')
  <2> DEFINE low == LowerHalf(Full)
             upp == UpperHalf(Full, new)
  <2>1. low = Top.left /\ upp = Top.right
    BY <1>9
  <2>2. R \in BptreeNode /\ Exact(Full, live) /\ Parted(Q, R, i, upp.key[0])
    BY <1>1, <1>17, <2>1, PageFacts, Climbing
  <2>3. low = LowerHalf(Full) /\ upp = UpperHalf(Full, new)
    OBVIOUS
  <2> HIDE DEF low, upp, R
  <2>4. Within(Q, i, low) /\ Within(Q, i + 1, upp) /\ Exact(low, live) /\ Exact(upp, live)
    <3> DEFINE node == Full
    <3>1. /\ node \in BptreeNode /\ node.size = M /\ node.isLeaf /\ Initialised(node)
          /\ low = LowerHalf(node) /\ upp = UpperHalf(node, new)
          /\ i \in 0..Seps(R) /\ Within(R, i, node) /\ Exact(node, live)
      BY <1>2, <1>10, <2>2, <2>3
    <3> HIDE DEF node, new, k, top, l, r, g
    <3>2. Within(Q, i, low) /\ Within(Q, i + 1, upp)
      BY <2>2, <3>1, HalvesFit
    <3>3. Exact(low, live) /\ Exact(upp, live)
      BY <2>2, <3>1, HalvesExact
    <3> QED
      BY <3>2, <3>3
  <2>5. /\ l.size = low.size /\ l.key = low.key /\ l.dat = low.dat
        /\ r.size = upp.size /\ r.key = upp.key /\ r.dat = upp.dat
    BY <1>5, <1>6, <2>1
  <2>6. l.del = low.del /\ r.del = upp.del
    BY <1>5, <1>6, <2>1
  <2>7. Within(Q, 0, l) /\ Within(Q, 1, r)
    BY <1>11, <2>4, <2>5 DEF Within
  <2>8. Exact(l, live) /\ Exact(r, live)
    BY <2>4, <2>5, <2>6 DEF Exact
  <2> QED
    BY <1>1, <1>8, <1>13, <1>16, <2>7, <2>8 DEF LeafOK
<1>19. /\ \A j \in 0..i : Kid(g, top, j) = Kid(disk, mem.root, j)
       /\ Kid(g, top, i + 1) = new
  BY <1>11, <1>13, <1>16 DEF Kid
<1>20. Shape(g, top, live')
  <2>1. R \in BptreeNode
    BY PageFacts
  <2>2. \A p \in Pages(disk) : p # top /\ p # Kid(disk, mem.root, i) => g[p] = disk[p]
    BY <1>2, <1>10, <1>14, <1>15
  <2>3. \A j \in 0..Seps(R) : j = i
    BY <1>11
  <2>4. \A j \in i+1..Seps(R) : FALSE
    BY <1>11
  <2>5. /\ LeafOK(g, top, i, g[Kid(disk, mem.root, i)], live')
        /\ LeafOK(g, top, i + 1, g[new], live')
    BY <1>10, <1>11, <1>16, <1>18
  <2>6. Parted(g[top], R, i, k) /\ ~g[top].isLeaf
    BY <1>13, <1>16, <1>17
  <2> HIDE DEF top, new, k
  <2>7. /\ Shape(disk, mem.root, live \ {Entry}) /\ disk[mem.root] \in BptreeNode
        /\ disk[mem.root].isLeaf /\ i \in 0..Seps(disk[mem.root])
        /\ Parted(g[top], disk[mem.root], i, k)
        /\ \A j \in 0..Seps(disk[mem.root]) : j # i => Exact(disk[Kid(disk, mem.root, j)], live')
        /\ \A j \in i+1..Seps(disk[mem.root]) : Kid(g, top, j + 1) = Kid(disk, mem.root, j)
    BY <1>9, <1>11, <2>1, <2>3, <2>4, <2>6
  <2>8. /\ Pages(g) = Pages(disk) \cup {top, new} /\ new \notin Pages(disk) /\ new # top
        /\ top \notin Pages(disk)
    BY <1>2, <1>8, <1>16
  <2> HIDE DEF R, l, r
  <2> QED
    BY <1>19, <2>2, <2>5, <2>6, <2>7, <2>8, PartedShape
<1> QED
  BY <1>3, <1>7, <1>20 DEF g

(* A kid of the root is split: the root takes its upper half. *)
LEMMA IntoNodeShape ==
  ASSUME UniqueKeys, Calls, Rooted, InsertIntoNode, Shallow
  PROVE  Shape(NodeFlush(NodeFlush(disk', Top'.left), Top'.right), mem'.root, live')
<1> DEFINE root == mem.root
           new == mem.size
           k == Top.right.key[0]
           R == disk[mem.root]
           l == Top.left
           r == Top.right
           g == NodeFlush(NodeFlush(disk', l), r)
<1>1. /\ pc = "climb" /\ Present(Top.left.parent) /\ live' = live /\ Grown.size < M
      /\ disk' = NodeFlush(disk, Grown) /\ mem' = mem /\ Top' = Top
  BY DEF InsertIntoNode, ghost, Top
<1>2. /\ Full \in BptreeNode /\ Full.size = M /\ Full.isLeaf /\ Initialised(Full)
      /\ at >= 1 /\ at \in Pages(disk)
      /\ l \in BptreeNode /\ l.self = at /\ l.isLeaf /\ l.parent = disk[at].parent
      /\ r \in BptreeNode /\ r.self = new /\ r.isLeaf /\ r.parent = disk[at].parent
      /\ new >= 1 /\ new \in Nat /\ new \notin Pages(disk)
  BY <1>1, FullFacts
<1>3. /\ Shape(disk, root, live \ {Entry}) /\ Placed /\ disk[at].isLeaf
      /\ l = LowerHalf(Full) /\ r = UpperHalf(Full, new)
  BY <1>1 DEF Shallow
<1>4. PICK i \in 0..Seps(R) : at = Kid(disk, root, i) /\ Within(R, i, Full)
  BY <1>1, Climbing
<1>5. /\ R \in BptreeNode /\ Initialised(R) /\ Sorted(R) /\ R.size < M /\ R.self = root
      /\ root >= 1 /\ root \in Pages(disk)
  BY PageFacts
<1>6. ~R.isLeaf /\ Seps(R) = R.size /\ l.parent = root /\ r.parent = root
  <2>1. disk[at].parent = IF R.isLeaf THEN NODE_EOF ELSE root
    BY <1>3, <1>4 DEF Shape, LeafOK
  <2>2. ~Present(NODE_EOF)
    BY NoSuchPage DEF Calls
  <2>3. ~R.isLeaf
    BY <1>1, <1>2, <2>1, <2>2
  <2> QED
    BY <1>2, <2>1, <2>3 DEF Seps
<1>7. k \in Int
  BY <1>1, OuterFrame, TopFrame DEF Rooted
<1>8. Grown = InsertChild(R, k, at, new)
  BY <1>2, <1>6 DEF Grown
<1>9. at \in Int /\ new \in Int
  BY <1>2 DEF Calls
<1>10. /\ Grown \in BptreeNode /\ Grown.size = R.size + 1 /\ Grown.self = root
       /\ ~Grown.isLeaf
  <2> HIDE DEF R, k, new, root
  <2> QED
    BY <1>5, <1>6, <1>7, <1>8, <1>9, InsertChildNode
<1> DEFINE x == GetIndex(R, k)
<1>11. /\ IsGetIndex(x, R, k) /\ x \in 0..R.size
       /\ \A j \in 0..x-1 : Grown.key[j] = R.key[j] /\ Grown.dat[j] = R.dat[j]
       /\ Grown.key[x] = k /\ Grown.dat[x] = at /\ Grown.dat[x + 1] = new
       /\ \A j \in x+1..R.size : Grown.key[j] = R.key[j-1] /\ Grown.dat[j + 1] = R.dat[j]
  <2>1. x = GetIndex(R, k)
    OBVIOUS
  <2> HIDE DEF R, k, new, root, x
  <2> QED
    BY <1>5, <1>7, <1>8, <1>9, <2>1, ChildSpelled
<1>12. InGap(R, i, k)
  <2> DEFINE mid == Mid(Full)
  <2>1. mid \in 0..Full.size-1 /\ k = Full.key[mid]
    <3> DEFINE upp == r
               low == l
    <3>1. upp = UpperHalf(Full, new) /\ mid = Mid(Full) /\ low = LowerHalf(Full)
      BY <1>3
    <3> HIDE DEF upp, mid, low
    <3>2. /\ mid \in 2..M-1 /\ \A s \in 0..M-mid-1 : upp.key[s] = Full.key[mid + s]
      BY <1>2, <3>1, HalvesSpelled
    <3>3. 0 \in 0..M-mid-1 /\ mid + 0 = mid
      BY <3>2, OrderAssumption
    <3>4. upp.key[0] = Full.key[mid] /\ mid \in 0..Full.size-1
      BY <1>2, <3>2, <3>3
    <3> QED
      BY <3>4 DEF upp
  <2> QED
    BY <1>4, <2>1 DEF Within
<1> HIDE DEF x
<1>13. x = i
  <2>1. x \in 0..Seps(R) /\ R.size \in Nat
    BY <1>5, <1>6, <1>11, NodeFields
  <2>2. x > 0 => x-1 \in 0..x-1
    BY <2>1
  <2>3. InGap(R, x, k)
    BY <1>6, <1>11, <2>1, <2>2 DEF IsGetIndex, InGap
  <2> HIDE DEF R, k
  <2> QED
    BY <1>5, <1>7, <1>12, <2>1, <2>3, OneGap
<1> HIDE DEF l, r
<1>14. /\ disk' \in Seq(Page) /\ Pages(disk') = Pages(disk) /\ disk'[root] = Grown
       /\ \A p \in Pages(disk) : p # root => disk'[p] = disk[p]
  <2>1. disk \in Seq(Page) /\ Grown.self >= 1
    BY <1>5, <1>10 DEF Calls
  <2>2. Wrote(disk', disk, Grown)
    BY <1>1, <1>10, <2>1, FlushWrites
  <2> QED
    BY <1>5, <1>10, <2>2 DEF Wrote
<1>15. /\ Pages(g) = Pages(disk') \cup {at, new} /\ g[at] = l /\ g[new] = r
       /\ \A p \in Pages(disk') : p # at /\ p # new => g[p] = disk'[p]
  <2>1. /\ disk' \in Seq(Page) /\ l \in BptreeNode /\ r \in BptreeNode
        /\ l.self >= 1 /\ r.self >= 1 /\ l.self # r.self
    BY <1>2, <1>14
  <2>2. g = NodeFlush(NodeFlush(disk', l), r)
    OBVIOUS
  <2> HIDE DEF g
  <2> QED
    BY <1>2, <2>1, <2>2, TwoFlushes
<1> HIDE DEF g
<1>16. g[root] = Grown /\ Pages(g) = Pages(disk) \cup {root, new} /\ new # root
  <2>1. at # root
    BY <1>3, <1>6
  <2> QED
    BY <1>2, <1>5, <1>14, <1>15, <2>1
<1>17. Seps(Grown) = Seps(R) + 1 /\ Parted(Grown, R, i, k)
  <2>1. Seps(Grown) = Seps(R) + 1
    BY <1>6, <1>10 DEF Seps
  <2> QED
    BY <1>6, <1>11, <1>13, <2>1 DEF Parted
<1>18. LeafOK(g, root, i, l, live') /\ LeafOK(g, root, i + 1, r, live')
  <2>1. Exact(Full, live)
    BY <1>1, Climbing
  <2>2. k = r.key[0]
    BY DEF r
  <2> HIDE DEF k, R, new
  <2>3. Parted(Grown, R, i, r.key[0])
    BY <1>17, <2>2
  <2>4. Within(Grown, i, l) /\ Within(Grown, i + 1, r) /\ Exact(l, live) /\ Exact(r, live)
    <3> DEFINE node == Full
    <3>1. /\ node \in BptreeNode /\ node.size = M /\ node.isLeaf /\ Initialised(node)
          /\ l = LowerHalf(node) /\ r = UpperHalf(node, new)
          /\ R \in BptreeNode /\ i \in 0..Seps(R) /\ Within(R, i, node) /\ Exact(node, live)
      BY <1>2, <1>3, <1>4, <1>5, <2>1
    <3> HIDE DEF node
    <3>2. Within(Grown, i, l) /\ Within(Grown, i + 1, r)
      BY <2>3, <3>1, HalvesFit
    <3>3. Exact(l, live) /\ Exact(r, live)
      BY <3>1, HalvesExact
    <3> QED
      BY <3>2, <3>3
  <2> QED
    BY <1>1, <1>2, <1>6, <1>10, <1>16, <2>4 DEF LeafOK
<1>19. /\ \A j \in 0..i : Kid(g, root, j) = Kid(disk, root, j)
       /\ Kid(g, root, i + 1) = new
       /\ \A j \in i+1..Seps(R) : Kid(g, root, j + 1) = Kid(disk, root, j)
  <2>1. \A j : Kid(g, root, j) = Grown.dat[j] /\ Kid(disk, root, j) = R.dat[j]
    BY <1>6, <1>10, <1>16 DEF Kid
  <2>2. ASSUME NEW j \in 0..i PROVE Grown.dat[j] = R.dat[j]
    <3>1. j = i \/ j \in 0..i-1
      OBVIOUS
    <3>2. R.dat[i] = at
      BY <1>4, <2>1
    <3> QED
      BY <1>11, <1>13, <3>1, <3>2
  <2> QED
    BY <1>6, <1>11, <1>13, <2>1, <2>2
<1>20. Shape(g, root, live')
  <2>1. \A p \in Pages(disk) : p # root /\ p # Kid(disk, root, i) => g[p] = disk[p]
    BY <1>2, <1>4, <1>14, <1>15
  <2>2. \A j \in 0..Seps(R) : Exact(disk[Kid(disk, root, j)], live')
    BY <1>1, Climbing
  <2>3. /\ LeafOK(g, root, i, g[Kid(disk, root, i)], live')
        /\ LeafOK(g, root, i + 1, g[new], live')
    BY <1>4, <1>15, <1>18
  <2>4. Parted(g[root], R, i, k) /\ ~g[root].isLeaf
    BY <1>10, <1>16, <1>17
  <2> HIDE DEF root, new, k
  <2>5. /\ Shape(disk, root, live \ {Entry}) /\ disk[root] \in BptreeNode /\ ~disk[root].isLeaf
        /\ i \in 0..Seps(disk[root]) /\ Parted(g[root], disk[root], i, k)
        /\ \A j \in 0..Seps(disk[root]) : Exact(disk[Kid(disk, root, j)], live')
        /\ \A j \in i+1..Seps(disk[root]) : Kid(g, root, j + 1) = Kid(disk, root, j)
    BY <1>3, <1>5, <1>6, <1>19, <2>2, <2>4 DEF root
  <2> QED
    BY <1>2, <1>16, <1>19, <2>1, <2>3, <2>4, <2>5, PartedShape
<1> QED
  BY <1>1, <1>20 DEF g, l, r

-----------------------------------------------------------------------------
(* The unmarked slots of the key. *)
Own(n, k) == {s \in 0..n.size-1 : n.key[s] = k /\ ~n.del[s]}

(* BptreeDelete finds them. *)
LEMMA HitsOwn ==
  ASSUME NEW node \in BptreeNode, Initialised(node), Sorted(node), NEW k \in Int,
         NEW x, x = GetIndex(node, k)
  PROVE  /\ {i \in 0..x-1 : /\ \A j \in i..x-1 : node.key[j] >= k
                            /\ node.key[i] = k
                            /\ ~node.del[i]} = Own(node, k)
         /\ x \in 0..node.size
         /\ x < node.size => node.key[x] > k
<1>1. IsGetIndex(x, node, k) /\ node.size \in Nat
  BY GetIndexDefined, NodeFields
<1>2. x \in 0..node.size /\ (x < node.size => node.key[x] > k)
  BY <1>1 DEF IsGetIndex
<1>3. ASSUME NEW s \in 0..node.size-1, node.key[s] = k
      PROVE  s \in 0..x-1 /\ \A j \in s..x-1 : node.key[j] >= k
  <2>1. s < x
    <3> SUFFICES ASSUME x <= s PROVE FALSE
      BY <1>2
    <3>1. x < node.size /\ x \in 0..node.size-1
      BY <1>1, <1>2
    <3>2. node.key[x] <= node.key[s] /\ node.key[x] > k /\ node.key[x] \in Int
      BY <1>2, <3>1 DEF Sorted, Initialised
    <3> QED
      BY <1>3, <3>2
  <2>2. ASSUME NEW j \in s..x-1 PROVE node.key[j] >= k
    <3>1. j \in 0..node.size-1 /\ s <= j
      BY <1>1, <1>2
    <3>2. node.key[s] <= node.key[j] /\ node.key[j] \in Int
      BY <3>1 DEF Sorted, Initialised
    <3> QED
      BY <1>3, <3>2
  <2> QED
    BY <1>2, <2>1, <2>2
<1>4. 0..x-1 \subseteq 0..node.size-1
  BY <1>1, <1>2
<1> QED
  BY <1>2, <1>3, <1>4 DEF Own

(* With these marked, the leaf is right for what is left. *)
LEMMA MarkedExact ==
  ASSUME NEW node \in BptreeNode, NEW S, Exact(node, S), NEW k,
         NEW m, m = Marked(node, Own(node, k))
  PROVE  Exact(m, {e \in S : e[1] # k})
<1> DEFINE T == {e \in S : e[1] # k}
<1>1. m.size = node.size /\ m.key = node.key /\ m.dat = node.dat
  BY DEF Marked, BptreeNode
<1>2. m.del = [i \in 0..M-1 |-> node.del[i] \/ i \in Own(node, k)]
  BY DEF Marked, BptreeNode
<1>3. ASSUME NEW s \in 0..node.size-1
      PROVE  m.del[s] <=> <<node.key[s], node.dat[s]>> \notin T
  <2>1. s \in 0..M-1
    BY NodeFields
  <2>2. m.del[s] <=> node.del[s] \/ s \in Own(node, k)
    BY <1>2, <2>1
  <2>3. node.del[s] <=> <<node.key[s], node.dat[s]>> \notin S
    BY DEF Exact
  <2>4. <<node.key[s], node.dat[s]>>[1] = node.key[s]
    OBVIOUS
  <2>5. s \in Own(node, k) <=> node.key[s] = k /\ ~node.del[s]
    BY DEF Own
  <2> QED
    BY <2>2, <2>3, <2>4, <2>5
<1> HIDE DEF T
<1>4. Exact(m, T)
  BY <1>1, <1>3 DEF Exact
<1> QED
  BY <1>4 DEF T

(* The leaf of the key has it, if any leaf does. *)
LEMMA AtOwnLeaf ==
  ASSUME Calls, Rooted, Shallow, pc = "seek", disk[at].isLeaf
  PROVE  \E i \in 0..Seps(disk[mem.root]) :
           /\ at = Kid(disk, mem.root, i) /\ InGap(disk[mem.root], i, arg.key)
           /\ Within(disk[mem.root], i, disk[at]) /\ Exact(disk[at], live)
           /\ \A p \in Pages(disk) : \A s \in 0..disk[p].size-1 :
                disk[p].isLeaf /\ disk[p].key[s] = arg.key => p = at
<1>1. at \in Pages(disk) /\ Shape(disk, mem.root, live) /\ Placed
  BY RootedAt DEF Shallow
<1>2. PICK i \in 0..Seps(disk[mem.root]) :
        at = Kid(disk, mem.root, i) /\ InGap(disk[mem.root], i, arg.key)
  BY <1>1, PlacedAtLeaf
<1>3. Within(disk[mem.root], i, disk[at]) /\ Exact(disk[at], live)
  BY <1>1, <1>2 DEF Shape, LeafOK
<1>4. ASSUME NEW p \in Pages(disk), NEW s \in 0..disk[p].size-1,
             disk[p].isLeaf, disk[p].key[s] = arg.key
      PROVE  p = at
  <2>1. /\ disk[mem.root] \in BptreeNode /\ Initialised(disk[mem.root])
        /\ Sorted(disk[mem.root]) /\ arg.key \in Int
    BY PageFacts, EntryTyped DEF Rooted
  <2> QED
    BY <1>1, <1>2, <1>4, <2>1, Located
<1> QED
  BY <1>2, <1>3, <1>4

(* A leaf without the key is right for the rest as it is. *)
LEMMA ExactApart ==
  ASSUME NEW n, NEW S, Exact(n, S), NEW k, Without(n, k)
  PROVE  Exact(n, {e \in S : e[1] # k})
<1> DEFINE T == {e \in S : e[1] # k}
<1>1. ASSUME NEW s \in 0..n.size-1 PROVE n.del[s] <=> <<n.key[s], n.dat[s]>> \notin T
  <2>1. n.del[s] <=> <<n.key[s], n.dat[s]>> \notin S
    BY DEF Exact
  <2>2. <<n.key[s], n.dat[s]>>[1] # k
    BY DEF Without
  <2> QED
    BY <2>1, <2>2
<1> HIDE DEF T
<1>2. Exact(n, T)
  BY <1>1 DEF Exact
<1> QED
  BY <1>2 DEF T

(* BptreeDelete marks a leaf and leaves the shape. *)
LEMMA DeleteShape ==
  ASSUME Calls, Rooted, DeleteLeaf, Shallow
  PROVE  Shape(disk', mem.root, live')
<1> DEFINE node == disk[at]
           m == Marked(node, Own(node, arg.key))
           R == disk[mem.root]
<1>1. /\ pc = "seek" /\ disk[at].isLeaf /\ live' = {e \in live : e[1] # arg.key}
  BY DEF DeleteLeaf, AtLeaf
<1>2. PICK i \in 0..Seps(R) :
        /\ at = Kid(disk, mem.root, i) /\ InGap(R, i, arg.key)
        /\ Within(R, i, node) /\ Exact(node, live)
        /\ \A p \in Pages(disk) : \A s \in 0..disk[p].size-1 :
             disk[p].isLeaf /\ disk[p].key[s] = arg.key => p = at
  BY <1>1, AtOwnLeaf
<1>3. /\ at \in Pages(disk) /\ Shape(disk, mem.root, live) /\ R \in BptreeNode
      /\ node \in BptreeNode /\ Initialised(node) /\ Sorted(node) /\ node.self = at /\ at >= 1
      /\ disk \in Seq(Page) /\ arg.key \in Int
  BY <1>1, RootedAt, PageFacts, EntryTyped DEF Shallow, Rooted
<1>4. disk' = NodeFlush(disk, m)
  <2> DEFINE k == arg.key
             x == GetIndex(node, k)
             hit == {i_1 \in 0..x-1 : /\ \A j \in i_1..x-1 : node.key[j] >= k
                                      /\ node.key[i_1] = k
                                      /\ ~node.del[i_1]}
  <2>1. disk' = NodeFlush(disk, Marked(node, hit))
    BY DEF DeleteLeaf
  <2>2. hit = Own(node, k)
    <3>1. node \in BptreeNode /\ Initialised(node) /\ Sorted(node) /\ k \in Int
      BY <1>3
    <3>2. x = GetIndex(node, k)
      OBVIOUS
    <3> HIDE DEF node, k, x
    <3> QED
      BY <3>1, <3>2, HitsOwn
  <2> QED
    BY <2>1, <2>2
<1>5. /\ m \in BptreeNode /\ m.self = at /\ m.isLeaf /\ m.parent = node.parent
      /\ m.size = node.size /\ m.key = node.key
  <2> DEFINE own == Own(node, arg.key)
  <2>1. m = Marked(node, own)
    OBVIOUS
  <2>2. Good(node, inserted)
    BY <1>3, FileFacts DEF Rooted
  <2> HIDE DEF own, m
  <2>3. Good(m, inserted)
    BY <2>1, <2>2, MarkedGood
  <2>4. /\ m.self = node.self /\ m.isLeaf = node.isLeaf /\ m.parent = node.parent
        /\ m.size = node.size /\ m.key = node.key
    BY <1>3, <2>1 DEF Marked, BptreeNode
  <2> QED
    BY <1>1, <1>3, <2>3, <2>4 DEF Good
<1>6. Exact(m, live') /\ Within(R, i, m)
  <2>1. m = Marked(node, Own(node, arg.key))
    OBVIOUS
  <2> HIDE DEF m, node, R
  <2>2. Exact(m, {e \in live : e[1] # arg.key})
    BY <1>2, <1>3, <2>1, MarkedExact
  <2> QED
    BY <1>1, <1>2, <1>5, <2>2 DEF Within
<1> HIDE DEF m
<1>7. Pages(disk') = Pages(disk) /\ disk'[at] = m
      /\ \A p \in Pages(disk) : p # at => disk'[p] = disk[p]
  <2>1. Wrote(disk', disk, m)
    BY <1>3, <1>4, <1>5, FlushWrites
  <2> QED
    BY <1>3, <1>5, <2>1 DEF Wrote
<1>8. ASSUME NEW j \in 0..Seps(R), j # i PROVE Exact(disk[Kid(disk, mem.root, j)], live')
  <2> DEFINE p == Kid(disk, mem.root, j)
  <2>1. p \in Pages(disk) /\ disk[p].isLeaf /\ Exact(disk[p], live) /\ p # at
    BY <1>2, <1>3, <1>8 DEF Shape, LeafOK
  <2> HIDE DEF p
  <2>2. Without(disk[p], arg.key)
    BY <1>2, <2>1 DEF Without
  <2>3. Exact(disk[p], live')
    BY <1>1, <2>1, <2>2, ExactApart
  <2> QED
    BY <2>3 DEF p
<1> QED
  BY <1>2, <1>3, <1>5, <1>6, <1>7, <1>8, SameShape

(* A leaf that has to be split. *)
LEMMA SplitLeafShallow ==
  ASSUME Calls, Rooted, InsertIntoLeafNode, pc' # "flush", Shallow
  PROVE  Shallow'
<1> DEFINE self == mem.size + 1
           l == LowerHalf(Full)
           r == UpperHalf(Full, self)
<1>1. /\ pc = "seek" /\ arg.op = "insert" /\ Present(at) /\ disk[at].isLeaf
      /\ live' = live \cup {Entry} /\ UNCHANGED <<arg, at>>
  BY DEF InsertIntoLeafNode, AtLeaf, Inserted, Entry
<1>2. /\ Full.size = M /\ mem' = [mem EXCEPT !.size = self] /\ pc' = "climb" /\ disk' = disk
      /\ stack' = Append(stack, [left |-> l, right |-> r])
  BY DEF InsertIntoLeafNode, Full
<1>3. mem'.root = mem.root /\ mem'.size = self
  <2>1. mem \in Header
    BY DEF Rooted, IInv, Scalars
  <2> QED
    BY <1>2, <2>1 DEF Header
<1>4. Shape(disk, mem.root, live) /\ Placed /\ at \in Pages(disk)
  BY <1>1, RootedAt DEF Shallow
<1>5. Len(stack') = 1 /\ Top'.left = l /\ Top'.right = r
  <2> DEFINE f == [left |-> l, right |-> r]
  <2>1. stack \in Seq(Frame) /\ Len(stack) = 0
    BY <1>1, FramesAt DEF Rooted, IInv, StackOK
  <2>2. stack' = Append(stack, f) /\ f.left = l /\ f.right = r
    BY <1>2
  <2> HIDE DEF f, l, r
  <2>3. stack = <<>>
    BY <2>1, EmptySeq
  <2>4. stack' = <<f>>
    BY <2>2, <2>3
  <2>5. Len(stack') = 1 /\ stack'[1] = f
    BY <2>4
  <2> QED
    BY <2>2, <2>5 DEF Top
<1>6. live' \ {Entry'} = live /\ Entry' = Entry
  <2>1. Entry \notin inserted /\ live \subseteq inserted
    BY <1>1 DEF Calls
  <2> QED
    BY <1>1, <2>1 DEF Entry
<1>7. Full' = Full /\ Placed'
  BY <1>1, <1>2, <1>3, <1>4 DEF Full, Placed
<1> HIDE DEF l, r, self
<1> QED
  BY <1>1, <1>2, <1>3, <1>4, <1>5, <1>6, <1>7 DEF Shallow, l, r

(* The first leaf is the tree. *)
LEMMA FirstShallow ==
  ASSUME Calls, Rootless, InsertFirst
  PROVE  Shallow'
<1> DEFINE root == FirstRoot(1, arg.key, arg.dat)
<1>1. /\ pc = "seek" /\ arg.op = "insert" /\ pc' = "flush" /\ mem' = [root |-> 1, size |-> 1]
      /\ disk' = NodeFlush(disk, root) /\ live' = {Entry}
  BY DEF InsertFirst, Inserted, Rootless, Entry, Empty
<1>2. /\ disk \in Seq(Page) /\ Pages(disk) \subseteq {1}
      /\ arg.key \in Int /\ arg.dat \in Int
  <2>1. disk \in Seq(Page) /\ Len(disk) <= 1 /\ arg \in Arg
    BY DEF Calls, Rootless
  <2>2. Pages(disk) \subseteq {1}
    <3>1. Len(disk) \in Nat /\ DOMAIN disk = 1..Len(disk)
      BY <2>1, LenProperties
    <3> QED
      BY <2>1, <3>1 DEF Pages
  <2> QED
    BY <2>1, <2>2 DEF Arg
<1>3. /\ root.self = 1 /\ root.parent = NODE_EOF /\ root.isLeaf /\ root.size = 1
      /\ root.key[0] = arg.key /\ root.dat[0] = arg.dat
      /\ \A s \in 1..M-1 : root.key[s] = Uninit
  BY OrderAssumption DEF FirstRoot, NewBptreeNode
<1>4. root.del[0] = FALSE
  BY OrderAssumption DEF FirstRoot, NewBptreeNode
<1>5. root \in BptreeNode
  <2>1. Entry \in {Entry} /\ Entry = <<arg.key, arg.dat>>
    BY DEF Entry
  <2>2. Good(root, {Entry})
    BY <1>2, <2>1, FirstRootNode
  <2> QED
    BY <2>2 DEF Good
<1> HIDE DEF root
<1>6. Pages(disk') = {1} /\ disk'[1] = root
  <2>1. Wrote(disk', disk, root)
    BY <1>1, <1>2, <1>3, <1>5, FlushWrites
  <2> QED
    BY <1>2, <1>3, <2>1 DEF Wrote
<1>7. Seps(root) = 0 /\ \A i \in 0..0 : i = 0
  BY <1>3 DEF Seps
<1>8. Within(root, 0, root)
  <2>1. \A s \in 0..0 : InGap(root, 0, root.key[s])
    BY <1>7 DEF InGap
  <2> QED
    BY <1>3, <2>1 DEF Within
<1>9. Exact(root, live')
  <2>1. \A s \in 0..root.size-1 : s = 0
    BY <1>3
  <2>2. <<root.key[0], root.dat[0]>> \in live'
    BY <1>1, <1>3 DEF Entry
  <2>3. \A s \in 0..root.size-1 : root.del[s] <=> <<root.key[s], root.dat[s]>> \notin live'
    BY <1>4, <2>1, <2>2
  <2>4. \A s, t \in 0..root.size-1 : ~(s < t)
    BY <2>1
  <2> QED
    BY <2>3, <2>4 DEF Exact
<1>10. Shape(disk', 1, live')
  <2>1. Kid(disk', 1, 0) = 1 /\ Seps(disk'[1]) = 0
    BY <1>3, <1>6, <1>7 DEF Kid
  <2>2. LeafOK(disk', 1, 0, disk'[1], live')
    BY <1>3, <1>6, <1>8, <1>9 DEF LeafOK
  <2> QED
    BY <1>6, <1>7, <2>1, <2>2 DEF Shape
<1> QED
  BY <1>1, <1>10 DEF Shallow

(* A split leaf is written. *)
LEMMA ReturnShallow ==
  ASSUME Calls, Rooted, Return, Shallow
  PROVE  Shallow'
<1>1. pc = "unwind" /\ Len(stack) = 1
      /\ Shape(NodeFlush(NodeFlush(disk, Top.left), Top.right), mem.root, live)
  BY DEF Return, Shallow
<1>2. Top.right.isLeaf
  <2>1. 1 \in DOMAIN stack /\ stack[1].left.isLeaf
    BY <1>1, OuterFrame
  <2>2. FrameOK(stack, 1, disk, mem.size, inserted)
    BY <2>1 DEF Rooted, IInv, StackOK
  <2> QED
    BY <1>1, <2>1, <2>2 DEF FrameOK, Top
<1>3. disk' = NodeFlush(NodeFlush(disk, Top.left), Top.right) /\ pc' = "flush"
      /\ mem' = mem /\ live' = live
  BY <1>1, <1>2 DEF Return, ghost
<1> QED
  BY <1>1, <1>3 DEF Shallow

(* What comes before the first split of an internal node. *)
LEMMA RootedShallow ==
  ASSUME UniqueKeys, Calls, Rooted, Shallow, Start \/ Step, ~(Len(stack') > 1)
  PROVE  Shallow'
<1>1. CASE Start
  <2>1. /\ pc = "idle" /\ pc' = "seek" /\ at' = mem.root /\ UNCHANGED <<mem, disk, live>>
    BY <1>1 DEF Start, BptreeInsert, BptreeSearch, BptreeDelete, Call, file, ghost
  <2> QED
    BY <2>1 DEF Shallow, Placed
<1>2. CASE Descend
  <2>1. pc = "seek" /\ pc' = "seek" /\ UNCHANGED <<mem, disk, live>>
    BY <1>2 DEF Descend, file, ghost
  <2>2. Shape(disk, mem.root, live) /\ Placed
    BY <2>1 DEF Shallow
  <2>3. Placed'
    BY <1>2, <2>2, DescendPlaced
  <2> QED
    BY <2>1, <2>2, <2>3 DEF Shallow
<1>3. CASE InsertFirst
  BY <1>3, RootedAt DEF InsertFirst
<1>4. CASE InsertIntoLeafNode
  <2>1. CASE pc' = "flush"
    <3>1. /\ pc = "seek" /\ mem' = mem
      BY <1>4, <2>1 DEF InsertIntoLeafNode, AtLeaf
    <3>2. Shape(disk', mem.root, live')
      BY <1>4, <2>1, <3>1, EnterShape DEF Shallow
    <3> QED
      BY <2>1, <3>1, <3>2 DEF Shallow
  <2>2. CASE pc' # "flush"
    BY <1>4, <2>2, SplitLeafShallow
  <2> QED
    BY <2>1, <2>2
<1>5. CASE NewRoot \/ InsertIntoNode
  <2>1. pc = "climb" /\ pc' = "unwind" /\ Len(stack) = 1
    BY <1>5 DEF NewRoot, InsertIntoNode, Shallow
  <2>2. Shape(NodeFlush(NodeFlush(disk', Top'.left), Top'.right), mem'.root, live')
    BY <1>5, NewRootShape, IntoNodeShape
  <2>3. Rooted'
    BY <1>5, NewRootRooted, InsertIntoNodeRooted
  <2>4. stack' \in Seq(Frame) /\ Len(stack') > 0
    BY <2>1, <2>3 DEF Rooted, IInv, StackOK
  <2>5. Len(stack') \in Nat
    BY <2>4, LenProperties
  <2>6. Len(stack') = 1
    BY <2>4, <2>5
  <2> QED
    BY <2>1, <2>2, <2>6 DEF Shallow
<1>6. CASE SplitNode
  <2>1. pc = "climb" /\ Len(stack) = 1 /\ stack \in Seq(Frame)
    BY <1>6 DEF SplitNode, Shallow, Rooted, IInv, StackOK
  <2>2. PICK a, f : stack' = Append(WithTop(a[1], a[2]), f)
    <3> DEFINE newRight == UpperHalf(Grown, mem.size + 1)
               Moved(n) == IF n.self \in Children(newRight)
                           THEN [n EXCEPT !.parent = mem.size + 1] ELSE n
    <3>1. stack' = Append(WithTop(Moved(Top.left), Moved(Top.right)),
                          [left |-> LowerHalf(Grown), right |-> newRight])
      BY <1>6 DEF SplitNode
    <3> DEFINE a == <<Moved(Top.left), Moved(Top.right)>>
    <3>2. a[1] = Moved(Top.left) /\ a[2] = Moved(Top.right)
      OBVIOUS
    <3> HIDE DEF a, Moved, newRight
    <3> QED
      BY <3>1, <3>2
  <2>3. Len(stack') = 2
    BY <2>1, <2>2 DEF WithTop
  <2> QED
    BY <2>3
<1>7. CASE Return
  BY <1>7, ReturnShallow
<1>8. CASE BptreeFlush \/ SearchLeaf
  <2>1. /\ pc \in {"seek", "flush"} /\ pc' = "idle" /\ UNCHANGED <<mem, disk, live>>
    BY <1>8 DEF BptreeFlush, SearchLeaf, AtLeaf, file, ghost
  <2> QED
    BY <2>1 DEF Shallow
<1>9. CASE DeleteLeaf
  <2>1. pc' = "idle" /\ mem' = mem
    BY <1>9 DEF DeleteLeaf
  <2> QED
    BY <1>9, <2>1, DeleteShape DEF Shallow
<1>10. CASE NotFound
  BY <1>10, RootedAt DEF NotFound
<1> QED
  BY <1>1, <1>2, <1>3, <1>4, <1>5, <1>6, <1>7, <1>8, <1>9, <1>10 DEF Step

(* What a kill leaves of it. *)
LEMMA KillShallow ==
  ASSUME Calls, Rooted, Kill, Shallow, hdr.root # NODE_EOF
  PROVE  Shallow'
<1>1. /\ pc' = "idle" /\ disk' = disk /\ mem' = hdr /\ live' = live \cap Durable
      /\ pc # "idle" /\ ~Splitting
  BY DEF Kill, Reopened
<1>2. pc \in {"seek", "climb", "flush"}
  BY <1>1, FramesAt DEF Splitting
<1>3. live \subseteq inserted
  BY DEF Calls
<1>4. Shape(disk, hdr.root, live \cap Durable)
  <2>1. CASE pc = "climb"
    <3>1. live \cap Durable = live \ {Entry}
      BY <1>3, <2>1, DurableIs
    <3>2. hdr.root = mem.root /\ Shape(disk, mem.root, live \ {Entry})
      BY <2>1 DEF Rooted, Headers, Shallow
    <3> QED
      BY <3>1, <3>2
  <2>2. CASE pc \in {"seek", "flush"}
    <3>1. hdr = mem
      <4>1. pc = "seek" => hdr = mem
        BY DEF Rooted, Headers
      <4>2. pc = "flush" /\ hdr # mem => hdr = Trashed
        BY <1>1 DEF Splitting
      <4>3. hdr = Trashed /\ pc = "flush" /\ hdr # mem => Splitting
        BY DEF Splitting
      <4> QED
        BY <1>1, <2>2, <4>1, <4>2, <4>3
    <3>2. live \cap Durable = live
      BY <1>3, <2>2, <3>1, DurableIs
    <3>3. Shape(disk, mem.root, live)
      BY <2>2 DEF Shallow
    <3> QED
      BY <3>1, <3>2, <3>3
  <2> QED
    BY <1>2, <2>1, <2>2
<1> QED
  BY <1>1, <1>4 DEF Shallow

(* A file with a root is neither torn nor without one. *)
LEMMA RealRoot == ASSUME NEW f \in Seq(Page) PROVE NODE_EOF \notin Pages(f)
  BY LenProperties DEF Pages, NODE_EOF

(* What holds up to the first split of an internal node, step by step. *)
LEMMA ShallowStep ==
  ASSUME UniqueKeys, CInv, CInv', SInv, [CrashNext]_crashVars
  PROVE  SInv'
<1> SUFFICES ASSUME ~deep', Rooted' PROVE Shallow'
  BY DEF SInv
<1>1. mem'.root # NODE_EOF /\ pc' # "torn" /\ ~Rootless'
  <2>1. mem'.root \in Pages(disk') /\ disk' \in Seq(Page)
    BY DEF CInv, Calls, Rooted
  <2>2. mem'.root # NODE_EOF
    BY <2>1, RealRoot
  <2>3. pc' # "torn"
    BY DEF Rooted, IInv, Scalars
  <2> QED
    BY <2>2, <2>3 DEF Rootless, Empty
<1>2. CASE UNCHANGED crashVars
  <2>1. UNCHANGED <<mem, disk, pc, arg, at, stack, inserted, live, hdr, deep>>
    BY <1>2 DEF crashVars, vars, file, ghost
  <2>2. ~Rootless /\ pc # "torn"
    BY <1>1, <2>1 DEF Rootless
  <2>3. Shallow
    BY <2>1, <2>2 DEF CInv, Torn, SInv
  <2> QED
    BY <2>1, <2>3 DEF Shallow, Placed, Top, Full, Entry
<1>3. CASE CrashNext /\ Torn
  <2>1. Rootless'
    BY <1>3, TornStep, CreateRootless DEF CInv
  <2> QED
    BY <1>1, <2>1
<1>4. CASE (Start \/ Step) /\ Noted /\ ~Torn
  <2>1. ~deep /\ ~(Len(stack') > 1)
    BY <1>4 DEF Noted
  <2>2. CASE Rootless
    <3>1. CASE InsertFirst
      BY <2>2, <3>1, FirstShallow DEF CInv
    <3>2. CASE ~InsertFirst
      <4>1. Start \/ NotFound
        <5>1. pc \in {"idle", "seek"} /\ (pc = "seek" => ~Present(at))
          BY <2>2, NoSuchPage DEF Rootless, CInv, Calls
        <5> QED
          BY <1>4, <3>2, <5>1 DEF Step, Descend, InsertIntoLeafNode, AtLeaf, NewRoot,
             InsertIntoNode, SplitNode, Return, BptreeFlush, SearchLeaf, DeleteLeaf
      <4>2. mem' = mem
        BY <4>1 DEF Start, BptreeInsert, BptreeSearch, BptreeDelete, Call, NotFound, file
      <4> QED
        BY <1>1, <2>2, <4>2 DEF Rootless, Empty
    <3> QED
      BY <3>1, <3>2
  <2>3. CASE Rooted
    BY <1>4, <2>1, <2>3, RootedShallow DEF CInv, SInv
  <2> QED
    BY <1>4, <2>2, <2>3 DEF CInv
<1>5. CASE Kill /\ ~Torn
  <2>1. mem' = hdr /\ deep' = deep
    BY <1>5 DEF Kill, Reopened
  <2>2. ~Rootless
    BY <1>1, <2>1 DEF Rootless, Empty
  <2>3. Rooted
    BY <1>5, <2>2 DEF CInv
  <2> QED
    BY <1>1, <1>5, <2>1, <2>3, KillShallow DEF CInv, SInv
<1>6. CASE KillTears \/ CreateBptree
  BY <1>1, <1>6 DEF KillTears, CreateBptree
<1> QED
  BY <1>2, <1>3, <1>4, <1>5, <1>6 DEF CrashNext

(* Up to the first split of an internal node the file is a leaf, or leaves *)
(* under one root, whose keys say where an entry is.                       *)
THEOREM ShallowShape == UniqueKeys => (CrashSpec => []SInv)
<1> SUFFICES ASSUME UniqueKeys PROVE CrashSpec => []SInv
  OBVIOUS
<1>1. CrashInit => SInv
  <2> SUFFICES ASSUME CrashInit, Rooted PROVE FALSE
    BY DEF SInv
  <2>1. mem.root = NODE_EOF /\ disk = <<>>
    BY DEF CrashInit, Init
  <2> QED
    BY <2>1 DEF Rooted, Pages
<1>2. CInv /\ CInv' /\ SInv /\ [CrashNext]_crashVars => SInv'
  BY ShallowStep
<1> QED
  BY <1>1, <1>2, CrashInvariance, PTL DEF CrashSpec

-----------------------------------------------------------------------------
(* The leaf of the key has its live rows in unmarked slots. *)
LEMMA OwnRows ==
  ASSUME Calls, Rooted, Shallow, pc = "seek", disk[at].isLeaf
  PROVE  Rows(disk[at], Own(disk[at], arg.key)) = Map!RowsOf(live, arg.key)
<1> DEFINE node == disk[at]
           k == arg.key
<1>1. /\ Exact(node, live)
      /\ \A p \in Pages(disk) : \A s \in 0..disk[p].size-1 :
           disk[p].isLeaf /\ disk[p].key[s] = k => p = at
  BY AtOwnLeaf
<1>2. ASSUME NEW s \in Own(node, k)
      PROVE  node.dat[s] \in Map!RowsOf(live, k)
  <2>1. s \in 0..node.size-1 /\ node.key[s] = k /\ ~node.del[s]
    BY DEF Own
  <2>2. <<k, node.dat[s]>> \in live
    BY <1>1, <2>1 DEF Exact
  <2>3. <<k, node.dat[s]>> \in {x \in live : x[1] = k}
    BY <2>2
  <2>4. <<k, node.dat[s]>>[2] = node.dat[s]
    OBVIOUS
  <2> QED
    BY <2>3, <2>4 DEF Map!RowsOf
<1>3. ASSUME NEW e \in live, e[1] = k
      PROVE  \E s \in Own(node, k) : node.dat[s] = e[2]
  <2>1. e \in inserted /\ e = <<e[1], e[2]>>
    BY EntriesAssumption DEF Calls
  <2>2. PICK p \in Pages(disk) : disk[p].isLeaf /\ Holds(disk[p], e)
    BY <2>1 DEF Rooted, AllHeld, Held
  <2>3. PICK s \in 0..disk[p].size-1 : disk[p].key[s] = e[1] /\ disk[p].dat[s] = e[2]
    BY <2>2 DEF Holds, HasEntry
  <2>4. p = at
    BY <1>1, <1>3, <2>2, <2>3
  <2>5. ~node.del[s]
    BY <1>1, <2>1, <2>3, <2>4 DEF Exact
  <2> QED
    BY <1>3, <2>3, <2>4, <2>5 DEF Own
<1> HIDE DEF node, k
<1>4. Rows(node, Own(node, k)) = Map!RowsOf(live, k)
  <2>1. ASSUME NEW r \in Map!RowsOf(live, k) PROVE r \in Rows(node, Own(node, k))
    <3>1. PICK e \in {x \in live : x[1] = k} : r = e[2]
      BY DEF Map!RowsOf
    <3> QED
      BY <1>3, <3>1 DEF Rows
  <2>2. ASSUME NEW r \in Rows(node, Own(node, k)) PROVE r \in Map!RowsOf(live, k)
    BY <1>2 DEF Rows
  <2> QED
    BY <2>1, <2>2
<1> QED
  BY <1>4 DEF node, k

(* A search finds them, and perhaps what the slot past the last one held. *)
LEMMA SearchAnswer ==
  ASSUME Calls, Rooted, Shallow, SearchLeaf
  PROVE  \E extra \in {{}, {NODE_EOF}} :
           reply' = [op |-> "search", key |-> arg.key,
                     rows |-> Map!RowsOf(live, arg.key) \cup extra]
<1> DEFINE node == disk[at]
           k == arg.key
           x == GetIndex(node, k)
           looked == {i \in 0..x : i < M /\ ~node.del[i]}
           equal == {i \in looked : node.key[i] = k}
           any == {i \in looked : node.key[i] = Uninit}
<1>1. pc = "seek" /\ node.isLeaf
  BY DEF SearchLeaf, AtLeaf
<1>2. PICK lucky \in SUBSET any :
        reply' = [op |-> "search", key |-> k, rows |-> Rows(node, equal \cup lucky)]
  BY DEF SearchLeaf
<1>3. /\ node \in BptreeNode /\ Initialised(node) /\ Sorted(node) /\ node.size < M
      /\ SlotsFrom(node, inserted) /\ k \in Int /\ inserted \subseteq Int \X Int
  BY <1>1, RootedAt, PageFacts, EntryTyped DEF Rooted, IInv, Scalars
<1>4. PICK i \in 0..Seps(disk[mem.root]) :
        InGap(disk[mem.root], i, k) /\ Within(disk[mem.root], i, node)
  BY <1>1, AtOwnLeaf
<1>5. x \in 0..node.size /\ (x < node.size => node.key[x] > k) /\ node.size \in Nat
  <2>1. x = GetIndex(node, k)
    OBVIOUS
  <2> HIDE DEF x, node, k
  <2>2. x \in 0..node.size /\ (x < node.size => node.key[x] > k)
    BY <1>3, <2>1, HitsOwn
  <2> QED
    BY <1>3, <2>2, NodeFields
<1>6. \A s \in 0..node.size-1 : node.key[s] = k => s < x
  <2> SUFFICES ASSUME NEW s \in 0..node.size-1, node.key[s] = k, ~(s < x) PROVE FALSE
    OBVIOUS
  <2> HIDE DEF x, node, k
  <2>1. x \in 0..node.size-1 /\ x <= s
    BY <1>5
  <2>2. node.key[x] <= node.key[s] /\ node.key[x] > k /\ node.key[x] \in Int
    BY <1>3, <1>5, <2>1 DEF Sorted, Initialised
  <2> QED
    BY <1>3, <2>2
<1>7. x = node.size => node.key[x] # k
  <2> HIDE DEF x, node, k
  <2> SUFFICES ASSUME x = node.size, node.key[x] = k PROVE FALSE
    OBVIOUS
  <2>1. x \in node.size..M-1
    BY <1>3, <1>5, OrderAssumption
  <2>2. \/ node.key[x] = Uninit
        \/ i < Seps(disk[mem.root]) /\ disk[mem.root].key[i] <= node.key[x]
    BY <1>4, <2>1 DEF Within
  <2>3. i < Seps(disk[mem.root]) => k < disk[mem.root].key[i] /\ disk[mem.root].key[i] \in Int
    <3>1. disk[mem.root] \in BptreeNode /\ Initialised(disk[mem.root])
      BY PageFacts
    <3>2. i < Seps(disk[mem.root]) => i \in 0..disk[mem.root].size-1
      BY <3>1, SepsNat, NodeFields
    <3> QED
      BY <1>4, <3>1, <3>2 DEF InGap, Initialised
  <2> QED
    BY <1>3, <2>2, <2>3, UninitAssumption
<1>8. equal = Own(node, k)
  <2> HIDE DEF x, node, k
  <2>1. ASSUME NEW s \in equal PROVE s \in Own(node, k)
    <3>1. s \in 0..x /\ ~node.del[s] /\ node.key[s] = k
      OBVIOUS
    <3>2. s # x
      <4>1. x = node.size \/ x < node.size
        BY <1>5
      <4> QED
        BY <1>3, <1>5, <1>7, <3>1, <4>1
    <3>3. s \in 0..node.size-1
      BY <1>5, <3>1, <3>2
    <3> QED
      BY <3>1, <3>3 DEF Own
  <2>2. ASSUME NEW s \in Own(node, k) PROVE s \in equal
    <3>1. s \in 0..node.size-1 /\ node.key[s] = k /\ ~node.del[s]
      BY DEF Own
    <3>2. s \in 0..x /\ s < M
      BY <1>3, <1>5, <1>6, <3>1, OrderAssumption
    <3> QED
      BY <3>1, <3>2
  <2> QED
    BY <2>1, <2>2
<1>9. \A s \in any : node.dat[s] = NODE_EOF
  <2> SUFFICES ASSUME NEW s \in any PROVE node.dat[s] = NODE_EOF
    OBVIOUS
  <2> HIDE DEF x, node, k
  <2>1. s \in 0..M-1 /\ node.key[s] = Uninit
    BY <1>3, <1>5, OrderAssumption
  <2>2. <<node.key[s], node.dat[s]>> \notin inserted
    BY <1>3, <2>1, UninitAssumption
  <2> QED
    BY <1>3, <2>1, <2>2 DEF SlotsFrom
<1>10. Rows(node, equal) = Map!RowsOf(live, k)
  BY <1>1, <1>8, OwnRows
<1> HIDE DEF equal, any
<1>11. Rows(node, equal \cup lucky) = Rows(node, equal) \cup Rows(node, lucky)
  BY DEF Rows
<1>12. Rows(node, lucky) \in {{}, {NODE_EOF}}
  <2>1. \A s \in lucky : node.dat[s] = NODE_EOF
    BY <1>9
  <2>2. CASE lucky = {}
    BY <2>2 DEF Rows
  <2>3. CASE lucky # {}
    <3>1. PICK s : s \in lucky
      BY <2>3
    <3>2. Rows(node, lucky) = {NODE_EOF}
      BY <2>1, <3>1 DEF Rows
    <3> QED
      BY <3>2
  <2> QED
    BY <2>2, <2>3
<1> QED
  BY <1>2, <1>10, <1>11, <1>12

-----------------------------------------------------------------------------
(* The index as the manager sees it stays as it is. *)
Quiet ==
  /\ Durable' = Durable /\ live' \cap Durable' = live \cap Durable /\ reply' = reply
  /\ deep' = deep \/ deep' = TRUE

(* Steps that only write pages are none of the map, or its Deepen. *)
LEMMA QuietMaps == ASSUME Quiet PROVE [Map!Next]_(Map!vars)
<1>1. CASE deep' = deep
  BY <1>1 DEF Quiet, Map!vars
<1>2. CASE deep' = TRUE
  BY <1>2 DEF Quiet, Map!Next, Map!Deepen
<1> QED
  BY <1>1, <1>2 DEF Quiet

(* Steps that are an Insert, a Search or a Delete of the map. *)
LEMMA InsertMaps ==
  ASSUME NEW e \in Entries, e \notin Durable, Durable' = Durable \cup {e},
         live' \cap Durable' = (live \cap Durable) \cup {e}, deep' = deep, reply' = reply
  PROVE  Map!Next
<1>1. Map!Insert(e)
  BY DEF Map!Insert
<1> QED
  BY <1>1 DEF Map!Next

(* An answer of a search is one the map may give. *)
LEMMA SearchMaps ==
  ASSUME NEW k \in Keys, NEW rows \in Map!Found(k), NEW extra \in {{}, {NODE_EOF}},
         reply' = [op |-> "search", key |-> k, rows |-> rows \cup extra],
         Durable' = Durable, live' = live, deep' = deep
  PROVE  Map!Next
<1>1. Map!NoRow = NODE_EOF
  BY DEF Map!NoRow, NODE_EOF
<1>2. live' \cap Durable' = live \cap Durable
  OBVIOUS
<1>3. Map!Search(k)
  BY <1>1, <1>2 DEF Map!Search
<1> QED
  BY <1>3 DEF Map!Next

(* And so for a delete, which takes the entries of its key away. *)
LEMMA DeleteMaps ==
  ASSUME NEW k \in Keys, NEW rows \in Map!Found(k),
         reply' = [op |-> "delete", key |-> k, rows |-> rows],
         Durable' = Durable, live' = {e \in live : e[1] # k}, deep' = deep
  PROVE  Map!Next
<1>1. live' \cap Durable' = {e \in live \cap Durable : e[1] # k}
  OBVIOUS
<1>2. Map!Delete(k)
  BY <1>1 DEF Map!Delete
<1> QED
  BY <1>2 DEF Map!Next

(* In a file without a root. *)
LEMMA RootlessMaps ==
  ASSUME Calls, Rootless, Start \/ Step, Noted, deep \in BOOLEAN
  PROVE  [Map!Next]_(Map!vars)
<1>1. /\ pc \in {"idle", "seek"} /\ (pc = "seek" => ~Present(at))
      /\ inserted = {} /\ live = {} /\ stack = <<>> /\ Durable = {}
  <2>1. pc \in {"idle", "seek"} /\ (pc = "seek" => ~Present(at))
    BY NoSuchPage DEF Rootless, Calls
  <2> QED
    BY <2>1 DEF Rootless, Durable
<1>2. CASE Start
  <2>1. /\ pc' = "seek" /\ UNCHANGED <<stack, inserted, live, reply>>
    BY <1>2 DEF Start, BptreeInsert, BptreeSearch, BptreeDelete, Call, ghost
  <2>2. Durable' = {} /\ deep' = deep
    BY <1>1, <2>1 DEF Durable, Noted
  <2> QED
    BY <1>1, <2>1, <2>2, QuietMaps DEF Quiet
<1>3. CASE InsertFirst
  <2>1. /\ inserted' = {Entry} /\ pc' = "flush" /\ hdr' = Empty /\ mem'.root = 1
        /\ UNCHANGED <<arg, stack, reply>>
    BY <1>3 DEF InsertFirst, Inserted, Rootless, Entry, Empty
  <2>2. hdr' # mem'
    BY <2>1 DEF Empty, NODE_EOF
  <2>3. Durable' = {}
    BY <2>1, <2>2 DEF Durable, Pending, Entry
  <2>4. deep' = deep
    BY <1>1, <2>1 DEF Noted
  <2> QED
    BY <1>1, <2>1, <2>3, <2>4, QuietMaps DEF Quiet
<1>4. CASE NotFound
  <2>1. /\ pc = "seek" /\ arg.op # "insert" /\ pc' = "idle" /\ UNCHANGED <<stack, inserted>>
        /\ reply' = [op |-> arg.op, key |-> arg.key, rows |-> {}]
        /\ live' = IF arg.op = "delete" THEN {e \in live : e[1] # arg.key} ELSE live
    BY <1>4 DEF NotFound
  <2>2. arg.key \in Keys /\ arg.op \in {"search", "delete"}
    BY <2>1 DEF Calls, Arg
  <2>3. Durable' = Durable /\ deep' = deep
    BY <1>1, <2>1 DEF Durable, Noted
  <2>4. {} \in Map!Found(arg.key)
    <3>1. Map!RowsOf(live \cap Durable, arg.key) = {}
      BY <1>1 DEF Map!RowsOf
    <3> QED
      BY <3>1 DEF Map!Found
  <2>5. CASE arg.op = "delete"
    BY <2>1, <2>2, <2>3, <2>4, <2>5, DeleteMaps
  <2>6. CASE arg.op = "search"
    <3>1. /\ reply' = [op |-> "search", key |-> arg.key, rows |-> {} \cup {}] /\ live' = live
          /\ {} \in {{}, {NODE_EOF}}
      BY <2>1, <2>6
    <3> QED
      BY <2>2, <2>3, <2>4, <3>1, SearchMaps
  <2> QED
    BY <2>2, <2>5, <2>6
<1> QED
  BY <1>1, <1>2, <1>3, <1>4 DEF Step, Descend, InsertIntoLeafNode, AtLeaf, NewRoot,
     InsertIntoNode, SplitNode, Return, BptreeFlush, SearchLeaf, DeleteLeaf

(* A search at the leaf the descent has led to. *)
LEMMA SearchLeafMaps ==
  ASSUME Calls, Rooted, SearchLeaf, deep' = deep, deep \in BOOLEAN, ~deep => Shallow, Calls'
  PROVE  Map!Next
<1>1. /\ pc = "seek" /\ arg.op = "search" /\ pc' = "idle" /\ disk[at].isLeaf
      /\ UNCHANGED <<inserted, live>>
  BY DEF SearchLeaf, AtLeaf
<1>2. /\ arg.key \in Keys /\ Durable' = Durable /\ live \cap Durable = live
  <2>1. Durable = inserted /\ Durable' = inserted'
    BY <1>1 DEF Durable, Pending
  <2> QED
    BY <1>1, <2>1 DEF Calls
<1>3. CASE ~deep
  <2>1. PICK extra \in {{}, {NODE_EOF}} :
          reply' = [op |-> "search", key |-> arg.key,
                    rows |-> Map!RowsOf(live, arg.key) \cup extra]
    BY <1>3, SearchAnswer
  <2>2. Map!RowsOf(live, arg.key) \in Map!Found(arg.key)
    BY <1>2, <1>3 DEF Map!Found
  <2> QED
    BY <1>1, <1>2, <2>1, <2>2, SearchMaps
<1>4. CASE deep
  <2>1. PICK all : reply' = [op |-> "search", key |-> arg.key, rows |-> all]
    BY DEF SearchLeaf
  <2>2. \A r \in all : r = NODE_EOF \/ <<arg.key, r>> \in Durable
    BY <1>2, <2>1 DEF Calls
  <2> DEFINE rows == all \ {NODE_EOF}
             extra == all \cap {NODE_EOF}
  <2>3. rows \subseteq Map!RowsOf(Durable, arg.key)
    <3> SUFFICES ASSUME NEW r \in rows PROVE r \in Map!RowsOf(Durable, arg.key)
      OBVIOUS
    <3>1. <<arg.key, r>> \in {x \in Durable : x[1] = arg.key} /\ <<arg.key, r>>[2] = r
      BY <2>2
    <3> QED
      BY <3>1 DEF Map!RowsOf
  <2>4. rows \in Map!Found(arg.key)
    BY <1>4, <2>3 DEF Map!Found
  <2>5. extra \in {{}, {NODE_EOF}} /\ all = rows \cup extra
    OBVIOUS
  <2> HIDE DEF rows, extra
  <2> QED
    BY <1>1, <1>2, <2>1, <2>4, <2>5, SearchMaps
<1> QED
  BY <1>3, <1>4

(* A delete there. *)
LEMMA DeleteLeafMaps ==
  ASSUME Calls, Rooted, DeleteLeaf, deep' = deep, deep \in BOOLEAN, ~deep => Shallow
  PROVE  Map!Next
<1> DEFINE node == disk[at]
           own == Own(node, arg.key)
<1>1. /\ pc = "seek" /\ arg.op = "delete" /\ pc' = "idle" /\ disk[at].isLeaf
      /\ inserted' = inserted /\ live' = {e \in live : e[1] # arg.key}
  BY DEF DeleteLeaf, AtLeaf
<1>2. /\ node \in BptreeNode /\ Initialised(node) /\ Sorted(node)
      /\ SlotsFrom(node, inserted) /\ arg.key \in Int
  BY <1>1, RootedAt, PageFacts, EntryTyped DEF Rooted
<1>3. reply' = [op |-> "delete", key |-> arg.key, rows |-> Rows(node, own)]
  <2> DEFINE k == arg.key
             x == GetIndex(node, k)
             hit == {i \in 0..x-1 : /\ \A j \in i..x-1 : node.key[j] >= k
                                    /\ node.key[i] = k
                                    /\ ~node.del[i]}
  <2>1. reply' = [op |-> "delete", key |-> k, rows |-> Rows(node, hit)]
    BY DEF DeleteLeaf
  <2>2. hit = Own(node, k)
    <3>1. node \in BptreeNode /\ Initialised(node) /\ Sorted(node) /\ k \in Int
      BY <1>2
    <3>2. x = GetIndex(node, k)
      OBVIOUS
    <3> HIDE DEF node, k, x, own
    <3> QED
      BY <3>1, <3>2, HitsOwn
  <2> QED
    BY <2>1, <2>2
<1>4. /\ arg.key \in Keys /\ Durable' = Durable /\ live \cap Durable = live /\ Durable = inserted
  <2>1. Durable = inserted /\ Durable' = inserted'
    BY <1>1 DEF Durable, Pending
  <2> QED
    BY <1>1, <2>1 DEF Calls
<1>5. Rows(node, own) \in Map!Found(arg.key)
  <2>1. CASE ~deep
    <3>1. Rows(node, own) = Map!RowsOf(live, arg.key)
      BY <1>1, <2>1, OwnRows
    <3> QED
      BY <1>4, <2>1, <3>1 DEF Map!Found
  <2>2. CASE deep
    <3>1. ASSUME NEW r \in Rows(node, own) PROVE r \in Map!RowsOf(Durable, arg.key)
      <4>1. PICK s \in own : r = node.dat[s]
        BY DEF Rows
      <4>2. s \in 0..M-1 /\ node.key[s] = arg.key
        BY <1>2, NodeFields DEF Own
      <4>3. <<arg.key, r>> \in inserted
        BY <1>2, <4>1, <4>2, UninitAssumption DEF SlotsFrom
      <4>4. <<arg.key, r>> \in {x \in Durable : x[1] = arg.key} /\ <<arg.key, r>>[2] = r
        BY <1>4, <4>3
      <4> QED
        BY <4>4 DEF Map!RowsOf
    <3>2. Rows(node, own) \subseteq Map!RowsOf(Durable, arg.key)
      BY <3>1
    <3> QED
      BY <2>2, <3>2 DEF Map!Found
  <2> QED
    BY <2>1, <2>2
<1> HIDE DEF node, own
<1> QED
  BY <1>1, <1>3, <1>4, <1>5, DeleteMaps

(* Each step of a call in a file with a root. *)
LEMMA RootedMaps ==
  ASSUME Calls, Calls', Rooted, Start \/ Step, Noted, deep \in BOOLEAN, ~deep => Shallow
  PROVE  [Map!Next]_(Map!vars)
<1>1. /\ deep' = deep \/ deep' = TRUE
      /\ ~(Len(stack') > 1) => deep' = deep
      /\ live \subseteq inserted
  BY DEF Noted, Calls
<1>2. pc \in {"idle", "seek", "flush"} => ~(Len(stack) > 1)
  BY FramesAt
<1>3. CASE Start \/ Descend
  <2>1. /\ pc \in {"idle", "seek"} /\ pc' = "seek" /\ UNCHANGED <<inserted, live, reply>>
    BY <1>3 DEF Start, BptreeInsert, BptreeSearch, BptreeDelete, Call, Descend, ghost
  <2>2. Durable' = Durable
    BY <2>1 DEF Durable, Pending
  <2> QED
    BY <1>1, <2>1, <2>2, QuietMaps DEF Quiet
<1>4. CASE InsertIntoLeafNode
  <2>1. /\ pc = "seek" /\ arg.op = "insert" /\ live' = live \cup {Entry} /\ reply' = reply
        /\ pc' = "flush" => stack' = stack
    BY <1>4 DEF InsertIntoLeafNode, AtLeaf, Inserted, Entry
  <2>2. Durable = inserted /\ Entry \in Entries \ inserted
    BY <2>1, DurableIs DEF Calls
  <2>3. CASE pc' = "flush"
    <3>1. Durable' = Durable \cup {Entry} /\ deep' = deep
      BY <1>1, <1>2, <1>4, <2>1, <2>3, EnterRooted
    <3>2. live' \cap Durable' = (live \cap Durable) \cup {Entry}
      BY <1>1, <2>1, <2>2, <3>1
    <3> QED
      BY <2>1, <2>2, <3>1, <3>2, InsertMaps
  <2>4. CASE pc' # "flush"
    <3>1. Durable' = Durable
      BY <1>4, <2>4, SplitLeafRooted
    <3>2. live' \cap Durable' = live \cap Durable
      BY <2>1, <2>2, <3>1
    <3> QED
      BY <1>1, <2>1, <3>1, <3>2, QuietMaps DEF Quiet
  <2> QED
    BY <2>3, <2>4
<1>5. CASE NewRoot \/ InsertIntoNode \/ SplitNode \/ Return
  <2>1. UNCHANGED <<inserted, live, reply>>
    BY <1>5 DEF NewRoot, InsertIntoNode, SplitNode, Return, ghost
  <2>2. Durable' = Durable
    BY <1>5, NewRootRooted, InsertIntoNodeRooted, SplitNodeRooted, ReturnOuterRooted,
       ReturnInnerRooted
  <2> QED
    BY <1>1, <2>1, <2>2, QuietMaps DEF Quiet
<1>6. CASE BptreeFlush
  <2>1. /\ pc = "flush" /\ UNCHANGED <<stack, inserted, live, reply>>
    BY <1>6 DEF BptreeFlush, ghost
  <2>2. Durable' = inserted /\ deep' = deep
    BY <1>1, <1>2, <1>6, <2>1, FlushRooted
  <2>3. CASE hdr = mem
    <3>1. Durable = inserted
      BY <2>1, <2>3, DurableIs
    <3> QED
      BY <1>1, <2>1, <2>2, <3>1, QuietMaps DEF Quiet
  <2>4. CASE hdr # mem
    <3>1. Durable = inserted \ {Entry} /\ Entry \in Entries /\ Entry \in live
      BY <2>1, <2>4, DurableIs DEF Calls
    <3>2. Durable' = Durable \cup {Entry} /\ Entry \notin Durable
      BY <1>1, <2>2, <3>1
    <3>3. live' \cap Durable' = (live \cap Durable) \cup {Entry}
      BY <1>1, <2>1, <3>1, <3>2
    <3> QED
      BY <2>1, <2>2, <3>1, <3>2, <3>3, InsertMaps
  <2> QED
    BY <2>3, <2>4
<1>7. CASE SearchLeaf
  <2>1. pc = "seek" /\ stack' = stack
    BY <1>7 DEF SearchLeaf, AtLeaf
  <2> QED
    BY <1>1, <1>2, <1>7, <2>1, SearchLeafMaps
<1>8. CASE DeleteLeaf
  <2>1. pc = "seek" /\ stack' = stack
    BY <1>8 DEF DeleteLeaf, AtLeaf
  <2> QED
    BY <1>1, <1>2, <1>8, <2>1, DeleteLeafMaps
<1>9. CASE InsertFirst \/ NotFound
  BY <1>9, RootedAt DEF InsertFirst, NotFound
<1> QED
  BY <1>3, <1>4, <1>5, <1>6, <1>7, <1>8, <1>9 DEF Step

(* Each step of the file is one of the map or leaves it alone. *)
LEMMA MapStep ==
  ASSUME CInv, CInv', SInv, deep \in BOOLEAN, [CrashNext]_crashVars
  PROVE  [Map!Next]_(Map!vars)
<1>1. CASE UNCHANGED crashVars
  <2>1. UNCHANGED <<hdr, mem, pc, arg, inserted, live, reply, deep>>
    BY <1>1 DEF crashVars, vars, file, ghost
  <2>2. Durable' = Durable
    BY <2>1 DEF Durable, Pending
  <2> QED
    BY <2>1, <2>2, QuietMaps DEF Quiet
<1>2. CASE (Start \/ Step) /\ Noted
  <2>1. ~Torn
    BY <1>2 DEF Torn, Start, BptreeInsert, BptreeSearch, BptreeDelete, Call, Step, Descend,
       InsertFirst, InsertIntoLeafNode, AtLeaf, NewRoot, InsertIntoNode, SplitNode, Return,
       BptreeFlush, SearchLeaf, DeleteLeaf, NotFound
  <2> QED
    BY <1>2, <2>1, RootlessMaps, RootedMaps DEF CInv, SInv
<1>3. CASE Kill \/ KillTears
  <2>1. /\ live' = live \cap Durable /\ UNCHANGED <<reply, deep>>
        /\ pc' \in {"idle", "torn"} /\ inserted' = Durable
    BY <1>3 DEF Kill, KillTears, Reopened
  <2>2. Durable' = Durable
    BY <2>1 DEF Durable, Pending
  <2> QED
    BY <2>1, <2>2, QuietMaps DEF Quiet
<1>4. CASE CreateBptree
  <2>1. /\ pc' = "idle" /\ inserted' = {} /\ live' = {} /\ deep' = FALSE
        /\ reply' = [op |-> "none", key |-> 0, rows |-> {}]
    BY <1>4 DEF CreateBptree
  <2>2. Durable' = {} /\ live' \cap Durable' = {}
    BY <2>1 DEF Durable
  <2>3. Map!Create
    BY <2>1, <2>2 DEF Map!Create, Map!NoReply
  <2> QED
    BY <2>3 DEF Map!Next
<1> QED
  BY <1>1, <1>2, <1>3, <1>4 DEF CrashNext

(***************************************************************************)
(* The index file is the map that IndexMap describes: every call takes     *)
(* effect at once, at the write that makes it durable, and kills do not    *)
(* show.  The keys have one row each, as in a column without duplicates.   *)
(***************************************************************************)
THEOREM FileIsMap == UniqueKeys => (CrashSpec => MapSpec)
<1> SUFFICES ASSUME UniqueKeys PROVE CrashSpec => MapSpec
  OBVIOUS
<1>1. CrashInit => Map!Init /\ deep \in BOOLEAN
  <2> SUFFICES ASSUME CrashInit PROVE Map!Init /\ deep \in BOOLEAN
    OBVIOUS
  <2>1. inserted = {} /\ live = {} /\ deep = FALSE /\ reply = [op |-> "none", key |-> 0, rows |-> {}]
    BY DEF CrashInit, Init
  <2>2. Durable = {} /\ live \cap Durable = {}
    BY <2>1 DEF Durable
  <2> QED
    BY <2>1, <2>2 DEF Map!Init, Map!NoReply
<1>2. deep \in BOOLEAN /\ [CrashNext]_crashVars => (deep \in BOOLEAN)'
  <2> SUFFICES ASSUME deep \in BOOLEAN, [CrashNext]_crashVars PROVE deep' \in BOOLEAN
    OBVIOUS
  <2>1. \/ deep' = deep
        \/ deep' = (deep \/ Len(stack') > 1)
        \/ deep' = FALSE
    BY DEF CrashNext, Noted, Kill, Reopened, KillTears, CreateBptree, crashVars
  <2> QED
    BY <2>1
<1>3. CInv /\ CInv' /\ SInv /\ deep \in BOOLEAN /\ [CrashNext]_crashVars => [Map!Next]_(Map!vars)
  BY MapStep
<1>4. CrashSpec => []SInv
  BY ShallowShape
<1> QED
  BY <1>1, <1>2, <1>3, <1>4, CrashInvariance, PTL DEF CrashSpec, MapSpec, Map!Spec

-----------------------------------------------------------------------------
(***************************************************************************)
(* A page that is full is cut: H has its halves, and the children of the   *)
(* upper one know their new parent; the parent has no slot for it yet.     *)
(***************************************************************************)
Cut(V, H, p, n) ==
  /\ p \in DOMAIN V /\ V[p].size = M
  /\ n \in (Nat \ {0}) \ DOMAIN V /\ DOMAIN H = DOMAIN V \cup {n}
  /\ H[p] = LowerHalf(V[p]) /\ H[n] = UpperHalf(V[p], n)
  /\ \A q \in DOMAIN V \ {p} :
       H[q] = IF ~V[p].isLeaf /\ q \in Children(H[n])
              THEN [V[q] EXCEPT !.parent = n] ELSE V[q]

Halving(V, p, n) ==
  [q \in DOMAIN V \cup {n} |->
     IF q = p THEN LowerHalf(V[p])
     ELSE IF q = n THEN UpperHalf(V[p], n)
     ELSE IF ~V[p].isLeaf /\ q \in Children(UpperHalf(V[p], n))
     THEN [V[q] EXCEPT !.parent = n] ELSE V[q]]

(* There are such pages. *)
LEMMA CutMade ==
  ASSUME NEW V, NEW p \in DOMAIN V, V[p].size = M, NEW n \in (Nat \ {0}) \ DOMAIN V,
         NEW H, H = Halving(V, p, n)
  PROVE  Cut(V, H, p, n)
<1>1. DOMAIN H = DOMAIN V \cup {n} /\ p # n
  BY DEF Halving
<1>2. \A q \in DOMAIN V \cup {n} :
        H[q] = IF q = p THEN LowerHalf(V[p])
               ELSE IF q = n THEN UpperHalf(V[p], n)
               ELSE IF ~V[p].isLeaf /\ q \in Children(UpperHalf(V[p], n))
               THEN [V[q] EXCEPT !.parent = n] ELSE V[q]
  BY DEF Halving
<1>3. H[p] = LowerHalf(V[p]) /\ H[n] = UpperHalf(V[p], n)
  BY <1>1, <1>2
<1>4. ASSUME NEW q \in DOMAIN V \ {p}
      PROVE  H[q] = IF ~V[p].isLeaf /\ q \in Children(H[n])
                    THEN [V[q] EXCEPT !.parent = n] ELSE V[q]
  BY <1>2, <1>3
<1> QED
  BY <1>1, <1>3, <1>4 DEF Cut

(* The halves of a page in a tree; its parent is another page. *)
LEMMA CutFacts ==
  ASSUME NEW V, NEW H, NEW root, NEW rank, NEW p, NEW n, Tree(V, root, rank), Cut(V, H, p, n)
  PROVE  /\ Proper(V[p]) /\ Halved(V[p], H[p], H[n], Mid(V[p])) /\ H[n].self = n
         /\ H[n].size >= 1 /\ H[n].key[0] = Separator(V[p]) /\ Separator(V[p]) \in Int
         /\ ~V[p].isLeaf => \A q \in Children(H[n]) : /\ q \in DOMAIN V \ {root, p}
                                                     /\ V[q].parent = p /\ rank[p] = rank[q] + 1
         /\ V[p].parent # p
<1>1. Proper(V[p]) /\ V[p].size = M /\ n \in Nat /\ p \in DOMAIN V /\ V[p].self = p
  BY DEF Tree, Cut
<1>2. Halved(V[p], H[p], H[n], Mid(V[p])) /\ H[n].self = n
  BY <1>1, SplitSpelled DEF Cut
<1>3. /\ Mid(V[p]) \in 2..M-1 /\ M \in Nat /\ H[n].size = M - Mid(V[p])
      /\ \A i \in 0..M-Mid(V[p])-1 : H[n].key[i] = V[p].key[Mid(V[p]) + i]
      /\ ~V[p].isLeaf => \A i \in 0..M-Mid(V[p]) : H[n].dat[i] = V[p].dat[Mid(V[p]) + i]
  BY <1>2, NodeFields DEF Halved, Proper
<1>4. H[n].size >= 1 /\ H[n].key[0] = Separator(V[p])
  <2>1. 0 \in 0..M-Mid(V[p])-1 /\ Mid(V[p]) + 0 = Mid(V[p])
    BY <1>3
  <2> QED
    BY <1>3, <2>1 DEF Separator
<1>5. Separator(V[p]) \in Int
  <2>1. Mid(V[p]) \in 0..V[p].size-1
    BY <1>1, <1>3
  <2> QED
    BY <1>1, <2>1, ProperFields DEF Separator
<1>6. ASSUME ~V[p].isLeaf, NEW q \in Children(H[n])
      PROVE  q \in DOMAIN V \ {root, p} /\ V[q].parent = p /\ rank[p] = rank[q] + 1
  <2>1. PICK i \in 0..H[n].size : q = H[n].dat[i]
    BY DEF Children
  <2>2. Mid(V[p]) + i \in 0..V[p].size /\ q = V[p].dat[Mid(V[p]) + i]
    BY <1>1, <1>3, <1>6, <2>1
  <2>3. Pointed(V, root, rank, p)
    BY <1>1 DEF Tree
  <2>4. q \in DOMAIN V \ {root} /\ V[q].parent = p /\ rank[p] = rank[q] + 1
    BY <1>6, <2>2, <2>3 DEF Pointed
  <2>5. rank[q] \in Nat
    BY <2>4 DEF Tree
  <2> QED
    BY <2>4, <2>5
<1>7. V[p].parent # p
  <2> SUFFICES ASSUME V[p].parent = p PROVE FALSE
    OBVIOUS
  <2>1. p # root
    BY <1>1 DEF Tree, NODE_EOF
  <2>2. Hung(V, p) /\ Pointed(V, root, rank, p) /\ rank[p] \in Nat
    BY <1>1, <2>1 DEF Tree
  <2>3. PICK i \in 0..V[p].size : V[p].dat[i] = p
    BY <2>2 DEF Hung
  <2>4. rank[p] = rank[p] + 1
    BY <2>2, <2>3 DEF Pointed, Hung
  <2> QED
    BY <2>2, <2>4
<1> QED
  BY <1>1, <1>2, <1>4, <1>5, <1>6, <1>7

(* With a slot in its parent the page is split. *)
LEMMA CutSplit ==
  ASSUME NEW V, NEW H, NEW W, NEW root, NEW rank, NEW p, NEW n, Tree(V, root, rank),
         Cut(V, H, p, n), NEW P, P = V[p].parent, P \in DOMAIN V, V[P].size < M,
         H[P] = V[P], DOMAIN W = DOMAIN H, W[P] = InsertChild(V[P], Separator(V[p]), p, n),
         \A q \in DOMAIN H \ {P} : W[q] = H[q]
  PROVE  Split(V, W, p, n)
<1>1. /\ Halved(V[p], H[p], H[n], Mid(V[p])) /\ H[n].self = n
      /\ Separator(V[p]) \in Int /\ P # p
  BY CutFacts
<1>2. p \in DOMAIN V /\ V[p].size = M /\ n \in (Nat \ {0}) \ DOMAIN V /\ p \in Int /\ n \in Int
  BY DEF Cut, Tree
<1>3. DOMAIN W = DOMAIN V \cup {n} /\ W[p] = H[p] /\ W[n] = H[n]
  BY <1>1, <1>2 DEF Cut
<1>4. Proper(V[P])
  BY DEF Tree
<1>5. Widened(V[P], W[P], Separator(V[p]), p, n)
  BY <1>1, <1>2, <1>4, WidenSpelled
<1>6. ASSUME NEW q \in DOMAIN V \ {p, P}
      PROVE  W[q] = IF ~V[p].isLeaf /\ q \in Children(W[n])
                    THEN [V[q] EXCEPT !.parent = n] ELSE V[q]
  <2>1. W[q] = H[q]
    BY DEF Cut
  <2>2. H[q] = IF ~V[p].isLeaf /\ q \in Children(H[n])
               THEN [V[q] EXCEPT !.parent = n] ELSE V[q]
    BY DEF Cut
  <2> QED
    BY <1>3, <2>1, <2>2
<1> QED
  BY <1>1, <1>2, <1>3, <1>5, <1>6 DEF Split

(* Pages that are the same are the same tree. *)
LEMMA SamePages ==
  ASSUME NEW V, NEW W, NEW root, NEW size, NEW rank, NEW route, Whole(V, root, size, rank, route),
         DOMAIN W = DOMAIN V, \A q \in DOMAIN V : W[q] = V[q]
  PROVE  /\ Whole(W, root, size, rank, route)
         /\ \A L : Stored(V, L) => Stored(W, L)
<1>1. Tree(V, root, rank) /\ Routed(V, root, rank, route)
  BY DEF Whole
<1>2. PICK p \in DOMAIN V : rank[p] = 0
  <2>1. rank[root] \in Nat
    BY <1>1 DEF Tree
  <2>2. route[0][0] \in DOMAIN V /\ rank[route[0][0]] = 0
    BY <1>1, <2>1 DEF Routed
  <2> QED
    BY <2>2
<1>3. V[p].isLeaf /\ Proper(V[p]) /\ V[p].self = p
  BY <1>1, <1>2 DEF Tree
<1>4. Whole(W, root, size, rank, route)
  BY <1>3, SameTree
<1> QED
  BY <1>4 DEF Stored, Apart

(* A new entry with a new key, slot by slot. *)
EnterSlots(node, new, k, d, x) ==
  /\ node.size \in Nat /\ x \in 0..node.size /\ new.size = node.size + 1
  /\ \A s \in 0..x-1 : node.key[s] < k /\ s \in 0..node.size-1
  /\ \A s \in x..node.size-1 : k < node.key[s] /\ s \in 0..node.size-1
  /\ \A s \in 0..new.size-1 :
       /\ s \in 0..M-1
       /\ s < x => /\ s \in 0..node.size-1 /\ new.key[s] = node.key[s]
                   /\ new.dat[s] = node.dat[s] /\ new.del[s] = node.del[s]
       /\ s = x => new.key[s] = k /\ new.dat[s] = d /\ new.del[s] = FALSE
       /\ s > x => /\ s-1 \in 0..node.size-1 /\ s-1 >= x /\ new.key[s] = node.key[s-1]
                   /\ new.dat[s] = node.dat[s-1] /\ new.del[s] = node.del[s-1]

(* InsertIntoLeafNode makes such a leaf. *)
LEMMA EnterSpelled ==
  ASSUME NEW node \in BptreeNode, node.size < M, Initialised(node), Sorted(node),
         NEW k \in Int, NEW d \in Int, Without(node, k),
         NEW new, new = InsertEntry(node, k, d)
  PROVE  EnterSlots(node, new, k, d, GetIndex(node, k))
<1> DEFINE x == GetIndex(node, k)
<1> USE DEF Without
<1>1. /\ node.size \in Nat /\ M \in Nat /\ node.size < M
      /\ IsGetIndex(x, node, k) /\ x \in 0..node.size
  <2>1. IsGetIndex(x, node, k)
    BY GetIndexDefined
  <2> QED
    BY <2>1, NodeFields DEF IsGetIndex
<1>2. Shifted(node, k, d, new, x)
  BY InsertEntrySpelled
<1>3. new.size = node.size + 1
  BY DEF InsertEntry, BptreeNode
<1> HIDE DEF x
<1>4. /\ \A s \in 0..x-1 : node.key[s] < k /\ s \in 0..node.size-1
      /\ \A s \in x..node.size-1 : k < node.key[s] /\ s \in 0..node.size-1
  <2>1. \A s \in 0..node.size-1 : node.key[s] \in Int
    BY DEF Initialised
  <2>2. ASSUME NEW s \in 0..x-1 PROVE node.key[s] < k /\ s \in 0..node.size-1
    <3>1. s \in 0..node.size-1 /\ node.key[s] <= k /\ node.key[s] # k
      BY <1>1 DEF IsGetIndex
    <3> QED
      BY <2>1, <3>1
  <2>3. ASSUME NEW s \in x..node.size-1 PROVE k < node.key[s] /\ s \in 0..node.size-1
    <3>1. s \in 0..node.size-1 /\ x \in 0..node.size-1 /\ x <= s
      BY <1>1
    <3>2. node.key[x] > k /\ node.key[x] <= node.key[s]
      BY <1>1, <3>1 DEF IsGetIndex, Sorted
    <3> QED
      BY <2>1, <3>1, <3>2
  <2> QED
    BY <2>2, <2>3
<1>5. ASSUME NEW s \in 0..new.size-1
      PROVE  /\ s \in 0..M-1
             /\ s < x => /\ s \in 0..node.size-1 /\ new.key[s] = node.key[s]
                         /\ new.dat[s] = node.dat[s] /\ new.del[s] = node.del[s]
             /\ s = x => new.key[s] = k /\ new.dat[s] = d /\ new.del[s] = FALSE
             /\ s > x => /\ s-1 \in 0..node.size-1 /\ s-1 >= x /\ new.key[s] = node.key[s-1]
                         /\ new.dat[s] = node.dat[s-1] /\ new.del[s] = node.del[s-1]
  <2>1. s \in 0..M-1 /\ s <= node.size
    BY <1>1, <1>3
  <2> QED
    BY <1>1, <1>2, <2>1 DEF Shifted
<1>6. EnterSlots(node, new, k, d, x)
  BY <1>1, <1>3, <1>4, <1>5 DEF EnterSlots
<1> QED
  BY <1>6 DEF x

(* The keys stay in strict order. *)
LEMMA EnterStrict ==
  ASSUME NEW node \in BptreeNode, Initialised(node), NEW k \in Int, NEW d, NEW new, NEW x,
         EnterSlots(node, new, k, d, x),
         \A s, t \in 0..node.size-1 : s < t => node.key[s] < node.key[t]
  PROVE  \A s, t \in 0..new.size-1 : s < t => new.key[s] < new.key[t]
<1>1. node.size \in Nat /\ x \in 0..node.size /\ new.size = node.size + 1
  BY DEF EnterSlots
<1> SUFFICES ASSUME NEW s \in 0..new.size-1, NEW t \in 0..new.size-1, s < t
             PROVE  new.key[s] < new.key[t]
  OBVIOUS
<1>2. CASE t < x
  <2>1. s < x /\ s \in 0..node.size-1 /\ t \in 0..node.size-1
    BY <1>1, <1>2
  <2>2. node.key[s] < node.key[t]
    BY <2>1
  <2>3. new.key[s] = node.key[s] /\ new.key[t] = node.key[t]
    BY <1>2, <2>1 DEF EnterSlots
  <2> QED
    BY <2>2, <2>3
<1>3. CASE t = x
  <2>1. s < x /\ s \in 0..x-1
    BY <1>1, <1>3
  <2> QED
    BY <1>3, <2>1 DEF EnterSlots
<1>4. CASE t > x /\ s < x
  <2>1. s \in 0..x-1 /\ t-1 \in x..node.size-1
    BY <1>1, <1>4
  <2>2. node.key[s] < k /\ k < node.key[t-1] /\ node.key[s] \in Int /\ node.key[t-1] \in Int
    BY <2>1 DEF Initialised, EnterSlots
  <2>3. new.key[s] = node.key[s] /\ new.key[t] = node.key[t-1]
    BY <1>4 DEF EnterSlots
  <2> QED
    BY <2>2, <2>3
<1>5. CASE t > x /\ s = x
  <2>1. t-1 \in x..node.size-1
    BY <1>1, <1>5
  <2> QED
    BY <1>5, <2>1 DEF EnterSlots
<1>6. CASE t > x /\ s > x
  <2>1. s-1 < t-1
    OBVIOUS
  <2>2. s-1 \in 0..node.size-1 /\ new.key[s] = node.key[s-1]
    BY <1>6 DEF EnterSlots
  <2>3. t-1 \in 0..node.size-1 /\ new.key[t] = node.key[t-1]
    BY <1>6 DEF EnterSlots
  <2>4. node.key[s-1] < node.key[t-1]
    BY <2>1, <2>2, <2>3
  <2> QED
    BY <2>2, <2>3, <2>4
<1>7. s \in Int /\ t \in Int /\ x \in Int
  BY <1>1
<1> QED
  BY <1>2, <1>3, <1>4, <1>5, <1>6, <1>7

(* A leaf that takes a new key. *)
LEMMA LeafEntered ==
  ASSUME NEW node, Proper(node), node.size < M, NEW k \in Int, NEW d \in Int,
         Without(node, k), NEW new, new = InsertEntry(node, k, d)
  PROVE  /\ Proper(new) /\ new.size = node.size + 1
         /\ new.self = node.self /\ new.parent = node.parent /\ new.isLeaf = node.isLeaf
         /\ KeysOf(new) \subseteq KeysOf(node) \cup {k}
         /\ \A L : Clear(node, L) => Clear(new, L \cup {<<k, d>>})
<1> DEFINE x == GetIndex(node, k)
<1>1. node \in BptreeNode /\ Initialised(node) /\ Sorted(node)
  BY StrictSorted DEF Proper
<1>2. EnterSlots(node, new, k, d, x)
  BY <1>1, EnterSpelled
<1> HIDE DEF x
<1>3. /\ new \in BptreeNode /\ new.size = node.size + 1 /\ Initialised(new)
      /\ new.self = node.self /\ new.parent = node.parent /\ new.isLeaf = node.isLeaf
  BY <1>1, InsertEntryNode
<1>4. Proper(new)
  <2>1. \A s, t \in 0..node.size-1 : s < t => node.key[s] < node.key[t]
    BY DEF Proper, Strict
  <2> QED
    BY <1>1, <1>2, <1>3, <2>1, EnterStrict DEF Proper, Strict
<1>5. ASSUME NEW s \in 0..new.size-1
      PROVE  \/ new.key[s] = k /\ new.dat[s] = d /\ new.del[s] = FALSE
             \/ \E t \in 0..node.size-1 : /\ new.key[s] = node.key[t] /\ new.dat[s] = node.dat[t]
                                          /\ new.del[s] = node.del[t]
  <2> DEFINE Same(t) == /\ new.key[s] = node.key[t] /\ new.dat[s] = node.dat[t]
                        /\ new.del[s] = node.del[t]
             End == new.key[s] = k /\ new.dat[s] = d /\ new.del[s] = FALSE
  <2>1. s \in Int /\ x \in Int
    BY <1>2 DEF EnterSlots
  <2>2. CASE s < x
    <3>1. s \in 0..node.size-1 /\ Same(s)
      BY <1>2, <2>2 DEF EnterSlots
    <3> QED
      BY <3>1
  <2>3. CASE s = x
    BY <1>2, <2>3 DEF EnterSlots
  <2>4. CASE s > x
    <3>1. s-1 \in 0..node.size-1 /\ Same(s-1)
      BY <1>2, <2>4 DEF EnterSlots
    <3> QED
      BY <3>1
  <2>5. s < x \/ s = x \/ s > x
    BY <2>1
  <2> QED
    BY <2>2, <2>3, <2>4, <2>5
<1>6. KeysOf(new) \subseteq KeysOf(node) \cup {k}
  <2>1. ASSUME NEW s \in 0..new.size-1 PROVE new.key[s] \in KeysOf(node) \cup {k}
    BY <1>5 DEF KeysOf
  <2> QED
    BY <2>1 DEF KeysOf
<1>7. ASSUME NEW L, Clear(node, L), NEW s \in 0..new.size-1,
             <<new.key[s], new.dat[s]>> \in L \cup {<<k, d>>}
      PROVE  ~new.del[s]
  <2>1. CASE new.key[s] = k /\ new.dat[s] = d /\ new.del[s] = FALSE
    BY <2>1
  <2>2. ASSUME NEW t \in 0..node.size-1, new.key[s] = node.key[t],
               new.dat[s] = node.dat[t], new.del[s] = node.del[t]
        PROVE  ~new.del[s]
    <3>1. node.key[t] # k
      BY DEF Without
    <3>2. <<node.key[t], node.dat[t]>> # <<k, d>>
      BY <3>1
    <3>3. <<node.key[t], node.dat[t]>> \in L
      BY <1>7, <2>2, <3>2
    <3> QED
      BY <1>7, <2>2, <3>3 DEF Clear
  <2> QED
    BY <1>5, <2>1, <2>2
<1>8. \A L : Clear(node, L) => Clear(new, L \cup {<<k, d>>})
  <2> SUFFICES ASSUME NEW L, Clear(node, L) PROVE Clear(new, L \cup {<<k, d>>})
    OBVIOUS
  <2> QED
    BY <1>7 DEF Clear
<1> QED
  BY <1>3, <1>4, <1>6, <1>8

(***************************************************************************)
(* The tree W and the file f in the middle of an insertion: the pages in   *)
(* the frames are those of W, the other pages of W are in f, but for the   *)
(* parents of the children whose new parent is in a frame.                 *)
(***************************************************************************)
Framed(W, st) ==
  \A i \in DOMAIN st :
    /\ st[i].left.self \in DOMAIN W /\ W[st[i].left.self] = st[i].left
    /\ st[i].right.self \in DOMAIN W /\ W[st[i].right.self] = st[i].right

InFrame(st, q) == \E i \in DOMAIN st : q = st[i].left.self \/ q = st[i].right.self

Orphan(st, q) == \E i \in DOMAIN st : ~st[i].right.isLeaf /\ q \in Children(st[i].right)

Shown(W, f, st, q) ==
  /\ q \in Pages(f) /\ W[q] = [f[q] EXCEPT !.parent = W[q].parent]
  /\ f[q] = W[q] \/ Orphan(st, q)

Shows(W, f, st) == Framed(W, st) /\ \A q \in DOMAIN W : InFrame(st, q) \/ Shown(W, f, st, q)

(* The frames hold the halves of a leaf, of its parent, and so on up. *)
Ranked(st, rank) ==
  \A i \in DOMAIN st : /\ rank[st[i].left.self] = i - 1
                       /\ i < Len(st) => rank[st[i].right.self] = i - 1

(***************************************************************************)
(* The tree between calls, on the way of a call to its leaf, while splits  *)
(* go up and while they are written down.                                  *)
(***************************************************************************)
Planted(root, size, L) ==
  \E rank, route : Whole(disk, root, size, rank, route) /\ Stored(disk, L)

SeekAt(rank, route) ==
  /\ Whole(disk, mem.root, mem.size, rank, route) /\ Stored(disk, live)
  /\ at \in DOMAIN disk /\ route[arg.key][rank[at]] = at

ClimbAt(V, H, rank, route) ==
  /\ Whole(V, mem.root, mem.size - 1, rank, route) /\ Stored(V, live)
  /\ Cut(V, H, Top.left.self, mem.size) /\ Top.right.self = mem.size
  /\ Shows(H, disk, stack) /\ Ranked(stack, rank)
  /\ route[arg.key][Len(stack) - 1] = Top.left.self

UnwindAt(W, rank, route) ==
  /\ Whole(W, mem.root, mem.size, rank, route) /\ Stored(W, live)
  /\ Shows(W, disk, stack) /\ DOMAIN disk \subseteq 1..mem.size

Tall ==
  /\ pc \in {"idle", "seek", "climb"} => Planted(hdr.root, hdr.size, live \cap Durable)
  /\ pc = "flush" => Planted(mem.root, mem.size, live)
  /\ pc = "seek" => \E rank, route : SeekAt(rank, route)
  /\ pc = "climb" => \E V, H, rank, route : ClimbAt(V, H, rank, route)
  /\ pc = "unwind" => \E W, rank, route : UnwindAt(W, rank, route)

-----------------------------------------------------------------------------
(* A call begins at the root. *)
LEMMA StartTall == ASSUME Calls, Rooted, Tall, Start PROVE Tall'
<1>1. /\ pc = "idle" /\ pc' = "seek" /\ at' = mem.root /\ arg'.key \in Int
      /\ UNCHANGED <<hdr, mem, disk, stack, inserted, live, reply>>
  <2>1. ASSUME NEW e \in Entries, BptreeInsert(e) PROVE e[1] \in Int /\ arg'.key = e[1]
    BY <2>1, EntriesAssumption DEF BptreeInsert, Call
  <2>2. ASSUME NEW k \in Keys, BptreeSearch(k) \/ BptreeDelete(k) PROVE k \in Int /\ arg'.key = k
    BY <2>2, KeysAssumption DEF BptreeSearch, BptreeDelete, Call
  <2>3. arg'.key \in Int
    BY <2>1, <2>2 DEF Start
  <2> QED
    BY <2>3 DEF Start, BptreeInsert, BptreeSearch, BptreeDelete, Call, file, ghost
<1>2. hdr = mem /\ Durable = inserted /\ Durable' = inserted /\ live \subseteq inserted
  BY <1>1, DurableIs DEF Rooted, Headers, Durable, Pending, Calls
<1>3. Planted(mem.root, mem.size, live)
  BY <1>1, <1>2 DEF Tall, Planted
<1>4. PICK rank, route : Whole(disk, mem.root, mem.size, rank, route) /\ Stored(disk, live)
  BY <1>3 DEF Planted
<1>5. mem.root \in DOMAIN disk /\ route[arg'.key][rank[mem.root]] = mem.root
  BY <1>1, <1>4 DEF Whole, Tree, Routed
<1>6. SeekAt(rank, route)'
  BY <1>1, <1>4, <1>5 DEF SeekAt
<1>7. Planted(hdr.root, hdr.size, live \cap Durable)'
  BY <1>1, <1>2, <1>3 DEF Planted
<1> QED
  BY <1>1, <1>6, <1>7 DEF Tall

(* It goes down the way of its key. *)
LEMMA DescendTall == ASSUME Calls, Rooted, Tall, Descend PROVE Tall'
<1>1. /\ pc = "seek" /\ pc' = "seek" /\ ~disk[at].isLeaf
      /\ at' = disk[at].dat[GetIndex(disk[at], arg.key)]
      /\ UNCHANGED <<hdr, mem, disk, stack, arg, inserted, live, reply>>
  BY DEF Descend, file, ghost
<1>2. PICK rank, route : SeekAt(rank, route)
  BY <1>1 DEF Tall
<1>3. arg.key \in Int
  BY EntryTyped DEF Rooted
<1>4. /\ rank[at] \in Nat /\ rank[at] # 0 /\ rank[at] <= rank[mem.root] /\ rank[mem.root] \in Nat
  BY <1>1, <1>2 DEF SeekAt, Whole, Tree
<1>5. at' = route[arg.key][rank[at] - 1]
  <2>1. rank[at] \in 0..rank[mem.root] /\ rank[at] > 0 /\ route[arg.key][rank[at]] = at
    BY <1>2, <1>4 DEF SeekAt
  <2>2. Routed(disk, mem.root, rank, route)
    BY <1>2 DEF SeekAt, Whole
  <2> QED
    BY <1>1, <1>3, <2>1, <2>2 DEF Routed
<1>6. at' \in DOMAIN disk /\ rank[at'] = rank[at] - 1
  <2>1. rank[at] - 1 \in 0..rank[mem.root]
    BY <1>4
  <2>2. Routed(disk, mem.root, rank, route)
    BY <1>2 DEF SeekAt, Whole
  <2> QED
    BY <1>3, <1>5, <2>1, <2>2 DEF Routed
<1>7. SeekAt(rank, route)'
  BY <1>1, <1>2, <1>5, <1>6 DEF SeekAt
<1>8. Planted(hdr.root, hdr.size, live \cap Durable)'
  <2>1. Durable' = Durable
    BY <1>1 DEF Durable, Pending
  <2> QED
    BY <1>1, <2>1 DEF Tall, Planted
<1> QED
  BY <1>1, <1>7, <1>8 DEF Tall

-----------------------------------------------------------------------------
(* A leaf takes an entry with a new key. *)
Enters(V, W, root, size, rank, route, L, p, k, d) ==
  /\ Whole(V, root, size, rank, route) /\ Stored(V, L) /\ route[k][0] = p
  /\ p \in DOMAIN V /\ V[p].isLeaf /\ V[p].size < M /\ k \in Int /\ d \in Int
  /\ \A q \in DOMAIN V : V[q].isLeaf => Without(V[q], k)
  /\ DOMAIN W = DOMAIN V /\ W[p] = InsertEntry(V[p], k, d)
  /\ \A q \in DOMAIN V \ {p} : W[q] = V[q]

(* The entry leaves the tree whole and its rows findable. *)
LEMMA EnterTree ==
  ASSUME NEW V, NEW W, NEW root, NEW size, NEW rank, NEW route, NEW L,
         NEW p, NEW k, NEW d, Enters(V, W, root, size, rank, route, L, p, k, d)
  PROVE  Whole(W, root, size, rank, route) /\ Stored(W, L \cup {<<k, d>>})
<1> USE DEF Enters
<1>1. Tree(V, root, rank) /\ Proper(V[p]) /\ V[p].self = p /\ Without(V[p], k)
  BY DEF Whole, Tree
<1>2. /\ Proper(W[p]) /\ W[p].self = p /\ W[p].parent = V[p].parent /\ W[p].isLeaf
      /\ KeysOf(W[p]) \subseteq KeysOf(V[p]) \cup {k}
      /\ \A T : Clear(V[p], T) => Clear(W[p], T \cup {<<k, d>>})
  BY <1>1, LeafEntered
<1>3. \A w \in KeysOf(W[p]) \ KeysOf(V[p]) : route[w][0] = p
  BY <1>2
<1>4. Whole(W, root, size, rank, route)
  BY <1>2, <1>3, SameTree
<1>5. \A q \in DOMAIN V : V[q].isLeaf => k \notin KeysOf(V[q])
  BY DEF Without, KeysOf
<1>6. Apart(W)
  <2> SUFFICES ASSUME NEW a \in DOMAIN V, NEW b \in DOMAIN V, W[a].isLeaf, W[b].isLeaf,
                      NEW w \in KeysOf(W[a]) \cap KeysOf(W[b]), a # b
               PROVE  FALSE
    BY DEF Apart
  <2>1. \A q \in DOMAIN V : W[q].isLeaf => V[q].isLeaf /\ KeysOf(W[q]) \subseteq KeysOf(V[q]) \cup {k}
    BY <1>2
  <2>2. V[a].isLeaf /\ V[b].isLeaf /\ (a = p \/ W[a] = V[a]) /\ (b = p \/ W[b] = V[b])
    BY <2>1
  <2>3. w # k
    BY <1>5, <2>2
  <2>4. w \in KeysOf(V[a]) \cap KeysOf(V[b])
    BY <2>1, <2>3
  <2> QED
    BY <2>2, <2>4 DEF Stored, Apart
<1>7. ASSUME NEW q \in DOMAIN V, W[q].isLeaf PROVE Clear(W[q], L \cup {<<k, d>>})
  <2>1. CASE q = p
    BY <1>2, <2>1 DEF Stored
  <2>2. CASE q # p
    <3>1. W[q] = V[q] /\ Clear(V[q], L) /\ Without(V[q], k)
      BY <1>7, <2>2 DEF Stored
    <3> SUFFICES ASSUME NEW i \in 0..V[q].size-1, <<V[q].key[i], V[q].dat[i]>> \in L \cup {<<k, d>>}
                 PROVE  ~V[q].del[i]
      BY <3>1 DEF Clear
    <3>2. V[q].key[i] # k
      BY <3>1 DEF Without
    <3>3. <<V[q].key[i], V[q].dat[i]>> # <<k, d>>
      BY <3>2
    <3> QED
      BY <3>1, <3>3 DEF Clear
  <2> QED
    BY <2>1, <2>2
<1> QED
  BY <1>4, <1>6, <1>7 DEF Stored

(* The leaf an insertion comes to. *)
LEMMA NewAtLeaf ==
  ASSUME UniqueKeys, Calls, Rooted, InsertIntoLeafNode, NEW rank, NEW route, SeekAt(rank, route)
  PROVE  /\ at \in DOMAIN disk /\ disk[at].isLeaf /\ disk[at].size < M
         /\ arg.key \in Int /\ arg.dat \in Int
         /\ rank[at] = 0 /\ route[arg.key][0] = at
         /\ \A q \in DOMAIN disk : disk[q].isLeaf => Without(disk[q], arg.key)
<1>1. /\ at \in DOMAIN disk /\ disk[at].isLeaf /\ disk[at].size < M
  BY EnteredLeaf DEF Pages
<1>2. arg.key \in Int /\ arg.dat \in Int
  BY EntryTyped DEF Rooted
<1>3. Tree(disk, mem.root, rank)
  BY DEF SeekAt, Whole
<1>4. rank[at] = 0 /\ route[arg.key][0] = at
  BY <1>1, <1>3 DEF SeekAt, Tree
<1>5. Entry \in Entries \ inserted /\ inserted \subseteq Entries
  BY DEF Calls, InsertIntoLeafNode, AtLeaf
<1>6. ASSUME NEW q \in DOMAIN disk, disk[q].isLeaf PROVE Without(disk[q], arg.key)
  <2>1. disk[q] \in BptreeNode /\ Initialised(disk[q])
    BY <1>3 DEF Tree, Proper
  <2>2. q \in Pages(disk)
    BY <2>1, HoleAssumption DEF Pages
  <2>3. SlotsFrom(disk[q], inserted)
    BY <1>6, <2>2, PageFacts
  <2> QED
    BY <1>5, <2>1, <2>3, NewKey
<1> QED
  BY <1>1, <1>2, <1>4, <1>6

(* A page of a tree is flushed. *)
LEMMA FlushInside ==
  ASSUME NEW f \in Seq(Page), NEW n \in BptreeNode, n.self \in DOMAIN f, NEW g, g = NodeFlush(f, n)
  PROVE  /\ DOMAIN g = DOMAIN f /\ g[n.self] = n
         /\ \A q \in DOMAIN f : q # n.self => g[q] = f[q]
<1>1. Len(f) \in Nat /\ DOMAIN f = 1..Len(f) /\ ~(n.self > Len(f)) /\ n.self \in 1..Len(f)
  BY LenProperties
<1>2. g = [q \in 1..Len(f) |-> IF q = n.self THEN n
                               ELSE IF q <= Len(f) THEN f[q] ELSE Hole]
  BY <1>1 DEF NodeFlush
<1> QED
  BY <1>1, <1>2

(* An insertion that ends in a leaf with room keeps the invariant. *)
LEMMA EnterTall ==
  ASSUME UniqueKeys, Calls, Rooted, Tall, InsertIntoLeafNode, pc' = "flush"
  PROVE  Tall'
<1> DEFINE node == InsertEntry(disk[at], arg.key, arg.dat)
<1>1. /\ pc = "seek" /\ disk' = NodeFlush(disk, node) /\ UNCHANGED mem
      /\ live' = live \cup {<<arg.key, arg.dat>>}
  BY DEF InsertIntoLeafNode, AtLeaf, Inserted
<1>2. node \in BptreeNode /\ node.self = at /\ disk \in Seq(Page)
  BY EnteredLeaf DEF Calls
<1>3. PICK rank, route : SeekAt(rank, route)
  BY <1>1 DEF Tall
<1>4. /\ at \in DOMAIN disk /\ disk[at].isLeaf /\ disk[at].size < M
      /\ arg.key \in Int /\ arg.dat \in Int /\ route[arg.key][0] = at
      /\ \A q \in DOMAIN disk : disk[q].isLeaf => Without(disk[q], arg.key)
  BY <1>3, NewAtLeaf
<1> HIDE DEF node
<1>5. DOMAIN disk' = DOMAIN disk /\ disk'[at] = node /\ \A q \in DOMAIN disk \ {at} : disk'[q] = disk[q]
  <2>1. node.self \in DOMAIN disk
    BY <1>2, <1>4
  <2> QED
    BY <1>1, <1>2, <2>1, FlushInside
<1>6. Whole(disk', mem.root, mem.size, rank, route) /\ Stored(disk', live')
  <2>1. Enters(disk, disk', mem.root, mem.size, rank, route, live, at, arg.key, arg.dat)
    BY <1>3, <1>4, <1>5 DEF Enters, node, SeekAt
  <2>2. live' = live \cup {<<arg.key, arg.dat>>}
    BY <1>1
  <2> QED
    BY <2>1, <2>2, EnterTree
<1>7. Planted(mem.root, mem.size, live)'
  BY <1>1, <1>6 DEF Planted
<1> QED
  BY <1>7 DEF Tall

(* A leaf without room is split. *)
LEMMA SplitLeafTall ==
  ASSUME UniqueKeys, Calls, Rooted, Tall, InsertIntoLeafNode, pc' # "flush"
  PROVE  Tall'
<1> DEFINE node == InsertEntry(disk[at], arg.key, arg.dat)
           n == mem.size + 1
<1>1. /\ pc = "seek" /\ pc' = "climb" /\ node.size = M
      /\ mem' = [mem EXCEPT !.size = n]
      /\ stack' = Append(stack, [left |-> LowerHalf(node), right |-> UpperHalf(node, n)])
      /\ live' = live \cup {<<arg.key, arg.dat>>} /\ inserted' = inserted \cup {<<arg.key, arg.dat>>}
      /\ UNCHANGED <<hdr, disk, arg, at>>
  BY DEF InsertIntoLeafNode, AtLeaf, Inserted
<1>2. /\ node \in BptreeNode /\ node.self = at /\ node.isLeaf
      /\ Initialised(node) /\ Sorted(node)
  BY EnteredLeaf
<1>3. PICK rank, route : SeekAt(rank, route)
  BY <1>1 DEF Tall
<1>4. /\ at \in DOMAIN disk /\ disk[at].isLeaf /\ disk[at].size < M
      /\ arg.key \in Int /\ arg.dat \in Int /\ rank[at] = 0 /\ route[arg.key][0] = at
      /\ \A q \in DOMAIN disk : disk[q].isLeaf => Without(disk[q], arg.key)
  BY <1>3, NewAtLeaf
<1>5. /\ mem \in Header /\ mem.size \in Nat /\ mem'.root = mem.root /\ mem'.size = n
      /\ DOMAIN disk = 1..mem.size
  <2>1. mem \in Header
    BY DEF Rooted, IInv, Scalars
  <2> QED
    BY <1>1, <1>3, <2>1 DEF Header, SeekAt, Whole
<1> HIDE DEF node
<1>6. PICK V : DOMAIN V = DOMAIN disk /\ V[at] = node /\ \A q \in DOMAIN disk \ {at} : V[q] = disk[q]
  <2> DEFINE W == [q \in DOMAIN disk |-> IF q = at THEN node ELSE disk[q]]
  <2>1. DOMAIN W = DOMAIN disk /\ W[at] = node /\ \A q \in DOMAIN disk \ {at} : W[q] = disk[q]
    BY <1>4
  <2> QED
    BY <2>1
<1>7. Whole(V, mem.root, mem.size, rank, route) /\ Stored(V, live')
  <2>1. Enters(disk, V, mem.root, mem.size, rank, route, live, at, arg.key, arg.dat)
    BY <1>3, <1>4, <1>6 DEF Enters, node, SeekAt
  <2>2. live' = live \cup {<<arg.key, arg.dat>>}
    BY <1>1
  <2> QED
    BY <2>1, <2>2, EnterTree
<1>8. PICK H : Cut(V, H, at, n)
  <2>1. at \in DOMAIN V /\ V[at].size = M /\ n \in (Nat \ {0}) \ DOMAIN V
    BY <1>1, <1>4, <1>5, <1>6
  <2> HIDE DEF n
  <2> QED
    BY <2>1, CutMade
<1>9. /\ DOMAIN H = DOMAIN disk \cup {n}
      /\ H[at] = LowerHalf(node) /\ H[n] = UpperHalf(node, n)
      /\ \A q \in DOMAIN disk \ {at} : H[q] = disk[q]
  BY <1>2, <1>6, <1>8 DEF Cut
<1> DEFINE frame == [left |-> LowerHalf(node), right |-> UpperHalf(node, n)]
<1>10. DOMAIN stack' = {1} /\ Len(stack') = 1 /\ stack'[1] = frame
  <2>1. stack \in Seq(Frame) /\ stack' \in Seq(Frame) /\ Len(stack) = 0
    <3>1. Rooted'
      BY SplitLeafRooted
    <3> QED
      BY <1>1, <3>1, FramesAt DEF Rooted, IInv, StackOK
  <2>2. stack' = Append(stack, frame) /\ DOMAIN stack = {}
    BY <1>1, FramesAt
  <2> HIDE DEF frame
  <2> QED
    BY <2>1, <2>2
<1>11. /\ LowerHalf(node).self = at /\ UpperHalf(node, n).self = n
  <2>1. n \in Nat
    BY <1>5
  <2>2. UpperHalf(node, n).self = n
    BY <1>1, <1>2, <2>1, UpperHalfNode
  <2> QED
    BY <1>1, <1>2, <2>2, LowerHalfNode
<1>12. /\ stack'[1].left = H[at] /\ stack'[1].right = H[n]
       /\ stack'[1].left.self = at /\ stack'[1].right.self = n
  BY <1>9, <1>10, <1>11
<1>13. Shows(H, disk, stack')
  <2>1. Framed(H, stack')
    BY <1>4, <1>9, <1>10, <1>12 DEF Framed
  <2>2. ASSUME NEW q \in DOMAIN H, q # at, q # n PROVE Shown(H, disk, stack', q)
    <3>1. q \in DOMAIN disk /\ H[q] = disk[q]
      BY <1>9, <2>2
    <3>2. disk[q] \in BptreeNode
      BY <1>3, <3>1 DEF SeekAt, Whole, Tree, Proper
    <3>3. q \in Pages(disk)
      BY <3>1, <3>2, HoleAssumption DEF Pages
    <3>4. disk[q] = [disk[q] EXCEPT !.parent = disk[q].parent]
      BY <3>2 DEF BptreeNode
    <3> QED
      BY <3>1, <3>3, <3>4 DEF Shown
  <2>3. InFrame(stack', at) /\ InFrame(stack', n)
    BY <1>10, <1>12 DEF InFrame
  <2> QED
    BY <2>1, <2>2, <2>3 DEF Shows
<1>14. Ranked(stack', rank)
  BY <1>4, <1>10, <1>12 DEF Ranked
<1>15. ClimbAt(V, H, rank, route)'
  <2>1. Top' = stack'[1]
    BY <1>10 DEF Top
  <2>2. Whole(V, mem'.root, mem'.size - 1, rank, route)
    <3>1. mem'.size - 1 = mem.size
      BY <1>5
    <3> QED
      BY <1>5, <1>7, <3>1
  <2>3. route[arg'.key][Len(stack') - 1] = at
    <3>1. Len(stack') - 1 = 0
      BY <1>10
    <3> QED
      BY <1>1, <1>4, <3>1
  <2>4. Cut(V, H, at, mem'.size) /\ Top'.left.self = at /\ Top'.right.self = mem'.size
    BY <1>5, <1>8, <1>12, <2>1
  <2> HIDE DEF n
  <2>5. disk' = disk
    BY <1>1
  <2>6. /\ Whole(V, mem'.root, mem'.size - 1, rank, route) /\ Stored(V, live')
        /\ Cut(V, H, Top'.left.self, mem'.size) /\ Top'.right.self = mem'.size
        /\ Shows(H, disk', stack') /\ Ranked(stack', rank)
        /\ route[arg'.key][Len(stack') - 1] = Top'.left.self
    BY <1>7, <1>13, <1>14, <2>2, <2>3, <2>4, <2>5
  <2> QED
    BY <2>6 DEF ClimbAt
<1>16. Planted(hdr.root, hdr.size, live \cap Durable)'
  <2>1. Durable' = Durable
    BY SplitLeafRooted
  <2>2. <<arg.key, arg.dat>> \notin Durable
    BY <1>1 DEF Calls, InsertIntoLeafNode, AtLeaf, Durable, Entry
  <2>3. live' \cap Durable' = live \cap Durable
    BY <1>1, <2>1, <2>2
  <2>4. Planted(hdr.root, hdr.size, live \cap Durable)
    BY <1>1 DEF Tall
  <2> QED
    BY <1>1, <2>3, <2>4 DEF Planted
<1> QED
  BY <1>1, <1>15, <1>16 DEF Tall

-----------------------------------------------------------------------------
(* The root is full: both its halves under a page that is new. *)
RootCut(V, H, W, p, n, self) ==
  /\ Cut(V, H, p, n) /\ self \in Nat \ {0} /\ self \notin DOMAIN H
  /\ DOMAIN W = DOMAIN H \cup {self}
  /\ W[self] = RootOver(self, Separator(V[p]), p, n)
  /\ W[p] = [H[p] EXCEPT !.parent = self] /\ W[n] = [H[n] EXCEPT !.parent = self]
  /\ \A q \in DOMAIN H \ {p, n} : W[q] = H[q]

(* There are pages with a stem over the root. *)
LEMMA RootOvergrown ==
  ASSUME NEW V, NEW p \in DOMAIN V, NEW self \in (Nat \ {0}) \ DOMAIN V
  PROVE  \E U : Overgrown(V, U, p, self)
<1> DEFINE U == [q \in DOMAIN V \cup {self} |->
                   IF q = self THEN Stem(self, p)
                   ELSE IF q = p THEN [V[p] EXCEPT !.parent = self] ELSE V[q]]
<1>1. DOMAIN U = DOMAIN V \cup {self} /\ self # p
  OBVIOUS
<1>2. \A q \in DOMAIN V \cup {self} :
        U[q] = IF q = self THEN Stem(self, p)
               ELSE IF q = p THEN [V[p] EXCEPT !.parent = self] ELSE V[q]
  OBVIOUS
<1> HIDE DEF U
<1>3. U[self] = Stem(self, p) /\ U[p] = [V[p] EXCEPT !.parent = self]
  BY <1>1, <1>2
<1>4. \A q \in DOMAIN V \ {p} : U[q] = V[q]
  BY <1>2
<1>5. Overgrown(V, U, p, self)
  BY <1>1, <1>3, <1>4 DEF Overgrown
<1> QED
  BY <1>5

(* The split of the root is the split of a page under the stem. *)
LEMMA RootParting ==
  ASSUME NEW V, NEW H, NEW W, NEW U, NEW rank, NEW route, NEW p, NEW n, NEW self, NEW k \in Int,
         Tree(V, p, rank), Routed(V, p, rank, route), RootCut(V, H, W, p, n, self),
         Overgrown(V, U, p, self), NEW r, r = rank[p] + 1
  PROVE  Parting(U, W, self, RankWith(rank, self, r), RouteOver(route, r, self), p, n, k)
<1> DEFINE rk == RankWith(rank, self, r)
           rt == RouteOver(route, r, self)
<1>1. Tree(U, self, rk) /\ Routed(U, self, rk, rt)
  BY AddRoot
<1>2. /\ p \in DOMAIN V /\ p \in Nat /\ self \in Nat /\ self \notin DOMAIN V /\ rank[p] \in Nat
      /\ n \in (Nat \ {0}) \ DOMAIN V /\ n # self /\ DOMAIN H = DOMAIN V \cup {n}
  BY DEF Tree, RootCut, Cut
<1>3. rk[p] = rank[p] /\ rk[self] = rank[p] + 1 /\ rt[k][rank[p]] = p
  <2>1. rk[p] = rank[p] /\ rk[self] = r
    BY <1>2 DEF RankWith
  <2>2. rt[k][rank[p]] = IF rank[p] = r THEN self ELSE route[k][rank[p]]
    BY <1>2 DEF RouteOver
  <2>3. route[k][rank[p]] = p /\ rank[p] # r
    BY <1>2 DEF Routed
  <2> QED
    BY <2>1, <2>2, <2>3
<1>4. /\ Proper(V[p]) /\ Halved(V[p], H[p], H[n], Mid(V[p])) /\ H[n].self = n
      /\ Separator(V[p]) \in Int /\ V[p].size = M
  BY CutFacts DEF RootCut, Cut
<1>5. /\ U[p] = [V[p] EXCEPT !.parent = self] /\ V[p] \in BptreeNode
      /\ H[p] \in BptreeNode /\ H[n] \in BptreeNode
  BY <1>4 DEF Overgrown, Halved, Proper
<1>6. /\ U[p].self = V[p].self /\ U[p].parent = self /\ U[p].isLeaf = V[p].isLeaf
      /\ U[p].size = V[p].size /\ U[p].key = V[p].key /\ U[p].dat = V[p].dat /\ U[p].del = V[p].del
  BY <1>2, <1>5, ParentSet
<1>7. /\ W[p] \in BptreeNode /\ W[p].self = H[p].self /\ W[p].parent = self /\ W[p].isLeaf = H[p].isLeaf
      /\ W[p].size = H[p].size /\ W[p].key = H[p].key /\ W[p].dat = H[p].dat /\ W[p].del = H[p].del
  BY <1>2, <1>5, ParentSet DEF RootCut
<1>8. /\ W[n] \in BptreeNode /\ W[n].self = H[n].self /\ W[n].parent = self /\ W[n].isLeaf = H[n].isLeaf
      /\ W[n].size = H[n].size /\ W[n].key = H[n].key /\ W[n].dat = H[n].dat /\ W[n].del = H[n].del
  BY <1>2, <1>5, ParentSet DEF RootCut
<1>9. Mid(U[p]) = Mid(V[p]) /\ Separator(U[p]) = Separator(V[p])
  BY <1>6 DEF Mid, Separator
<1>10. Proper(W[p]) /\ Proper(W[n])
  BY <1>4, <1>7, <1>8 DEF Halved, Proper, Initialised, Strict
<1>11. Halved(U[p], W[p], W[n], Mid(U[p]))
  BY <1>4, <1>6, <1>7, <1>8, <1>9, <1>10 DEF Halved
<1>12. Widened(U[self], W[self], Separator(U[p]), p, n)
  <2>1. U[self] = Stem(self, p) /\ W[self] = RootOver(self, Separator(V[p]), p, n)
    BY DEF Overgrown, RootCut
  <2>2. self \in Nat /\ Separator(V[p]) \in Int /\ p \in Int /\ n \in Int
    BY <1>2, <1>4
  <2>3. Widened(Stem(self, p), RootOver(self, Separator(V[p]), p, n), Separator(V[p]), p, n)
    BY <2>2, StemWidened
  <2> QED
    BY <1>9, <2>1, <2>3
<1>13. ASSUME NEW q \in DOMAIN U \ {p, self}
       PROVE  W[q] = IF ~U[p].isLeaf /\ q \in Children(W[n])
                     THEN [U[q] EXCEPT !.parent = n] ELSE U[q]
  <2>1. q \in DOMAIN V \ {p} /\ U[q] = V[q] /\ q # n
    BY <1>2 DEF Overgrown
  <2>2. W[q] = H[q]
    BY <1>2, <2>1 DEF RootCut
  <2>3. Children(W[n]) = Children(H[n])
    BY <1>8 DEF Children
  <2>4. H[q] = IF ~V[p].isLeaf /\ q \in Children(H[n])
               THEN [V[q] EXCEPT !.parent = n] ELSE V[q]
    BY <2>1 DEF RootCut, Cut
  <2> QED
    BY <1>6, <2>1, <2>2, <2>3, <2>4
<1>14. /\ p \in DOMAIN U /\ U[p].size = M /\ U[p].parent = self /\ self \in DOMAIN U
       /\ n \in (Nat \ {0}) \ DOMAIN U /\ DOMAIN W = DOMAIN U \cup {n} /\ W[n].self = n
  BY <1>2, <1>4, <1>6, <1>8 DEF Overgrown, RootCut
<1>15. Split(U, W, p, n)
  <2> HIDE DEF rk, rt
  <2> QED
    BY <1>11, <1>12, <1>13, <1>14 DEF Split
<1>16. p # self /\ rk[p] <= rk[self] /\ rt[k][rk[p]] = p
  BY <1>2, <1>3
<1> QED
  BY <1>1, <1>15, <1>16 DEF Parting

(* A split root leaves a whole tree, one page higher. *)
LEMMA RootSplit ==
  ASSUME NEW V, NEW H, NEW W, NEW rank, NEW route, NEW p, NEW n \in Nat, NEW self, NEW L,
         Whole(V, p, n - 1, rank, route), Stored(V, L), RootCut(V, H, W, p, n, self), self = n + 1
  PROVE  \E rk, rt : Whole(W, self, self, rk, rt) /\ Stored(W, L)
<1>1. Tree(V, p, rank) /\ Routed(V, p, rank, route) /\ DOMAIN V = 1..n-1
  BY DEF Whole
<1>2. p \in DOMAIN V /\ rank[p] \in Nat /\ self \in (Nat \ {0}) \ DOMAIN V
  BY <1>1 DEF Tree
<1>3. PICK U : Overgrown(V, U, p, self)
  BY <1>2, RootOvergrown
<1>4. PICK r : r = rank[p] + 1
  OBVIOUS
<1> DEFINE rk == RankWith(rank, self, r)
           rt == RouteOver(route, r, self)
<1>5. Parting(U, W, self, rk, rt, p, n, 0)
  BY <1>1, <1>3, <1>4, RootParting
<1>6. rk[p] = rank[p] /\ rk[self] = rank[p] + 1 /\ \A q \in DOMAIN V : rk[q] = rank[q]
  BY <1>1, <1>2, <1>4 DEF RankWith
<1>7. Stored(U, L)
  <2>1. \A q \in DOMAIN U : U[q].isLeaf => q \in DOMAIN V
    <3>1. U[self].isLeaf = FALSE
      <4>1. U[self] = Stem(self, p) /\ self \in Nat /\ p \in Int
        BY <1>1, <1>2, <1>3 DEF Overgrown
      <4>2. IsStem(U[self], self, p)
        BY <4>1, StemSpelled
      <4> QED
        BY <4>2 DEF IsStem
    <3> QED
      BY <1>3, <3>1 DEF Overgrown
  <2>2. ASSUME NEW q \in DOMAIN V
        PROVE  /\ U[q].isLeaf = V[q].isLeaf /\ U[q].size = V[q].size /\ U[q].key = V[q].key
               /\ U[q].dat = V[q].dat /\ U[q].del = V[q].del
    <3>1. V[q] \in BptreeNode
      BY <1>1 DEF Tree, Proper
    <3>2. U[q] = V[q] \/ U[q] = [V[q] EXCEPT !.parent = self]
      BY <1>3 DEF Overgrown
    <3> QED
      BY <1>2, <3>1, <3>2, ParentSet
  <2>3. Apart(U)
    <3>1. \A q \in DOMAIN V : KeysOf(U[q]) = KeysOf(V[q])
      BY <2>2 DEF KeysOf
    <3> SUFFICES ASSUME NEW a \in DOMAIN U, NEW b \in DOMAIN U, U[a].isLeaf, U[b].isLeaf,
                        KeysOf(U[a]) \cap KeysOf(U[b]) # {}
                 PROVE  a = b
      BY DEF Apart
    <3>2. a \in DOMAIN V /\ b \in DOMAIN V /\ V[a].isLeaf /\ V[b].isLeaf
      BY <2>1, <2>2
    <3>3. KeysOf(V[a]) \cap KeysOf(V[b]) # {}
      BY <3>1, <3>2
    <3> QED
      BY <3>2, <3>3 DEF Stored, Apart
  <2>4. ASSUME NEW q \in DOMAIN U, U[q].isLeaf PROVE Clear(U[q], L)
    BY <2>1, <2>2, <2>4 DEF Stored, Clear
  <2> QED
    BY <2>3, <2>4 DEF Stored
<1>8. Stored(W, L)
  BY <1>5, <1>7, SplitStored
<1> DEFINE rk2 == RankWith(rk, n, rk[p])
           rt2 == RouteWith(U, rk, rt, p, n)
<1>9. Tree(W, self, rk2) /\ Routed(W, self, rk2, rt2)
  BY <1>5, SplitTree, SplitRoutes
<1>10. DOMAIN W = 1..self /\ self \in Nat
  <2>1. DOMAIN W = (1..n-1) \cup {n} \cup {self} /\ n # 0
    BY <1>1 DEF RootCut, Cut
  <2> QED
    BY <2>1
<1>11. rk2[self] = rank[p] + 1 /\ rk2[n] = rank[p] /\ \A q \in DOMAIN V : rk2[q] = rank[q]
  <2>1. self # n /\ n \notin DOMAIN V
    BY <1>1
  <2>2. rk2[self] = rk[self] /\ rk2[n] = rk[p]
    BY <2>1 DEF RankWith
  <2>3. ASSUME NEW q \in DOMAIN V PROVE rk2[q] = rank[q]
    <3>1. q \in Nat /\ q # n
      BY <1>1, <2>1
    <3>2. rk2[q] = rk[q]
      BY <3>1 DEF RankWith
    <3> QED
      BY <1>6, <3>2
  <2> QED
    BY <1>6, <2>2, <2>3
<1> HIDE DEF rk2, rt2, rk, rt
<1>12. rk2[self] < self
  BY <1>2, <1>11 DEF Whole
<1>13. ASSUME NEW q \in DOMAIN W PROVE rk2[q] <= rk2[self]
  <2>1. CASE q = self \/ q = n
    BY <1>2, <1>11, <2>1
  <2>2. CASE q \in DOMAIN V
    <3>1. rank[q] \in Nat /\ rank[q] <= rank[p]
      BY <1>1, <2>2 DEF Tree, Whole
    <3> QED
      BY <1>2, <1>11, <2>2, <3>1
  <2> QED
    BY <1>1, <1>10, <2>1, <2>2 DEF RootCut, Cut
<1>14. Whole(W, self, self, rk2, rt2)
  BY <1>9, <1>10, <1>12, <1>13 DEF Whole
<1> QED
  BY <1>8, <1>14

-----------------------------------------------------------------------------
(* The innermost frame while splits go up. *)
Halfway(V, H, rank, route, p, n, k) ==
  /\ k = Len(stack) /\ k \in Nat \ {0} /\ DOMAIN stack = 1..k /\ Top = stack[k]
  /\ p = Top.left.self /\ n = Top.right.self /\ n = mem.size /\ n \in Nat \ {0}
  /\ Tree(V, mem.root, rank) /\ Routed(V, mem.root, rank, route) /\ Cut(V, H, p, n)
  /\ DOMAIN V = 1..n-1 /\ DOMAIN H = 1..n /\ DOMAIN H = DOMAIN V \cup {n}
  /\ DOMAIN disk \subseteq DOMAIN V
  /\ p \in DOMAIN V /\ n \notin DOMAIN V
  /\ H[p] = Top.left /\ H[n] = Top.right
  /\ Top.left \in BptreeNode /\ Top.right \in BptreeNode
  /\ Top.left.parent = V[p].parent /\ Top.right.parent = V[p].parent
  /\ Top.right.key[0] = Separator(V[p]) /\ Separator(V[p]) \in Int
  /\ rank[p] = k - 1

(* That is what a climbing call has. *)
LEMMA ClimbFacts ==
  ASSUME Calls, Rooted, Tall, pc = "climb",
         NEW V, NEW H, NEW rank, NEW route, ClimbAt(V, H, rank, route)
  PROVE  Halfway(V, H, rank, route, Top.left.self, mem.size, Len(stack))
<1> SUFFICES ASSUME NEW p, p = Top.left.self, NEW n, n = mem.size, NEW k, k = Len(stack)
             PROVE  Halfway(V, H, rank, route, p, n, k)
  OBVIOUS
<1>1. /\ k \in Nat /\ k > 0 /\ DOMAIN stack = 1..k /\ Top = stack[k] /\ k \in DOMAIN stack
  BY FramesAt DEF Top
<1>2. mem.size \in Nat /\ hdr \in Header /\ hdr.size < mem.size
  BY FileFacts DEF Rooted, Headers
<1>3. /\ Whole(V, mem.root, n - 1, rank, route) /\ Cut(V, H, p, n) /\ Top.right.self = n
      /\ Shows(H, disk, stack) /\ Ranked(stack, rank)
  BY DEF ClimbAt
<1>4. /\ Tree(V, mem.root, rank) /\ Routed(V, mem.root, rank, route)
      /\ DOMAIN V = 1..n-1
  BY <1>3 DEF Whole
<1>5. /\ p \in DOMAIN V /\ n \in (Nat \ {0}) \ DOMAIN V /\ DOMAIN H = DOMAIN V \cup {n}
  BY <1>3 DEF Cut
<1>6. DOMAIN H = 1..n
  BY <1>4, <1>5
<1>7. DOMAIN disk \subseteq DOMAIN V
  <2>1. Planted(hdr.root, hdr.size, live \cap Durable)
    BY DEF Tall
  <2>2. DOMAIN disk = 1..hdr.size /\ hdr.size \in Nat
    BY <2>1 DEF Planted, Whole
  <2> QED
    BY <1>2, <1>4, <2>2
<1>8. H[p] = Top.left /\ H[n] = Top.right
  BY <1>1, <1>3 DEF Shows, Framed
<1>9. /\ Halved(V[p], H[p], H[n], Mid(V[p]))
      /\ H[n].key[0] = Separator(V[p]) /\ Separator(V[p]) \in Int
  <2> HIDE DEF Top
  <2>1. Tree(V, mem.root, rank) /\ Cut(V, H, p, n)
    BY <1>3, <1>4
  <2> QED
    BY <2>1, CutFacts
<1>10. /\ H[p] \in BptreeNode /\ H[n] \in BptreeNode
       /\ H[p].parent = V[p].parent /\ H[n].parent = V[p].parent
  BY <1>9 DEF Halved, Proper
<1>11. rank[p] = k - 1
  BY <1>1, <1>3 DEF Ranked
<1>12. k \in Nat \ {0} /\ n \in Nat \ {0} /\ n \notin DOMAIN V
  BY <1>1, <1>5
<1>13. /\ Top.left \in BptreeNode /\ Top.right \in BptreeNode
       /\ Top.left.parent = V[p].parent /\ Top.right.parent = V[p].parent
       /\ Top.right.key[0] = Separator(V[p]) /\ Separator(V[p]) \in Int
  BY <1>8, <1>9, <1>10
<1> HIDE DEF Top
<1> QED
  BY <1>1, <1>3, <1>4, <1>5, <1>6, <1>7, <1>8, <1>11, <1>12, <1>13, Zenon DEF Halfway

(* The frames below it have other pages. *)
LEMMA OtherFrames ==
  ASSUME Calls, Rooted, Tall, pc = "climb",
         NEW V, NEW H, NEW rank, NEW route, ClimbAt(V, H, rank, route),
         NEW i \in DOMAIN stack, i # Len(stack),
         NEW q, q = stack[i].left.self \/ q = stack[i].right.self
  PROVE  /\ q \in DOMAIN V /\ q # Top.left.self /\ q # mem.size
         /\ rank[q] = i - 1 /\ i - 1 < Len(stack) - 1
<1> DEFINE k == Len(stack)
<1>1. /\ k \in Nat \ {0} /\ DOMAIN stack = 1..k /\ Top = stack[k] /\ DOMAIN H = DOMAIN V \cup {mem.size}
      /\ rank[Top.left.self] = k - 1 /\ mem.size \notin DOMAIN V /\ Top.right.self = mem.size
      /\ DOMAIN disk \subseteq DOMAIN V
  BY ClimbFacts DEF Halfway
<1>2. i \in Nat /\ i < k
  BY <1>1
<1>3. rank[q] = i - 1
  BY <1>1, <1>2 DEF ClimbAt, Ranked
<1>4. q # Top.left.self
  BY <1>1, <1>2, <1>3
<1>5. FrameOK(stack, i, disk, mem.size, inserted) /\ k \in DOMAIN stack
  BY <1>1 DEF Rooted, IInv, StackOK
<1>6. q # mem.size
  <2>1. CASE q = stack[i].left.self
    <3>1. q \in DOMAIN disk
      BY <1>5, <2>1 DEF FrameOK, Pages
    <3> QED
      BY <1>1, <3>1
  <2>2. CASE q = stack[i].right.self
    BY <1>1, <1>2, <1>5, <2>2 DEF FrameOK
  <2> QED
    BY <2>1, <2>2
<1>7. q \in DOMAIN H
  BY DEF ClimbAt, Shows, Framed
<1> QED
  BY <1>1, <1>2, <1>3, <1>4, <1>6, <1>7

-----------------------------------------------------------------------------
(* A flush makes the file no longer than the last page. *)
LEMMA FlushWithin ==
  ASSUME NEW f \in Seq(Page), NEW n \in BptreeNode, NEW size \in Nat, DOMAIN f \subseteq 1..size,
         n.self <= size
  PROVE  DOMAIN NodeFlush(f, n) \subseteq 1..size
<1>1. Len(f) \in Nat /\ DOMAIN f = 1..Len(f) /\ n.self \in Nat
  BY LenProperties, NodeFields
<1>2. Len(f) <= size
  <2>1. CASE Len(f) = 0
    BY <2>1
  <2>2. CASE Len(f) # 0
    <3>1. Len(f) \in 1..Len(f)
      BY <1>1, <2>2
    <3> QED
      BY <1>1, <3>1
  <2> QED
    BY <2>1, <2>2
<1> DEFINE m == IF n.self > Len(f) THEN n.self ELSE Len(f)
<1>3. m \in Nat /\ m <= size
  BY <1>1, <1>2
<1>4. DOMAIN NodeFlush(f, n) = 1..m
  BY DEF NodeFlush
<1> HIDE DEF m
<1> QED
  BY <1>3, <1>4

(* The nodes of the innermost frame get other parents. *)
LEMMA TopSet ==
  ASSUME NEW l, NEW r, NEW st, st = WithTop(l, r), Len(stack) \in DOMAIN stack,
         l.self = Top.left.self, r.self = Top.right.self, r.isLeaf = Top.right.isLeaf,
         r.dat = Top.right.dat, r.size = Top.right.size
  PROVE  /\ DOMAIN st = DOMAIN stack
         /\ st[Len(stack)].left = l /\ st[Len(stack)].right = r
         /\ \A i \in DOMAIN stack \ {Len(stack)} : st[i] = stack[i]
         /\ \A i \in DOMAIN stack : /\ st[i].left.self = stack[i].left.self
                                    /\ st[i].right.self = stack[i].right.self
         /\ \A q : InFrame(st, q) <=> InFrame(stack, q)
         /\ \A q : Orphan(st, q) <=> Orphan(stack, q)
<1> DEFINE k == Len(stack)
<1>1. st = [stack EXCEPT ![k] = [left |-> l, right |-> r]]
  BY DEF WithTop
<1> HIDE DEF k
<1>2. DOMAIN st = DOMAIN stack /\ k \in DOMAIN stack /\ \A i \in DOMAIN stack \ {k} : st[i] = stack[i]
  BY <1>1 DEF k
<1>3. st[k] = [left |-> l, right |-> r] /\ Top = stack[k]
  BY <1>1, <1>2 DEF Top, k
<1>4. st[k].left = l /\ st[k].right = r
  BY <1>3
<1>5. Children(r) = Children(Top.right)
  BY DEF Children
<1>6. ASSUME NEW i \in DOMAIN stack
      PROVE  /\ st[i].left.self = stack[i].left.self /\ st[i].right.self = stack[i].right.self
             /\ st[i].right.isLeaf = stack[i].right.isLeaf
             /\ Children(st[i].right) = Children(stack[i].right)
  <2>1. CASE i = k
    BY <1>3, <1>4, <1>5, <2>1
  <2>2. CASE i # k
    BY <1>2, <2>2
  <2> QED
    BY <2>1, <2>2
<1>7. \A q : InFrame(st, q) <=> InFrame(stack, q)
  BY <1>2, <1>6 DEF InFrame
<1>8. \A q : Orphan(st, q) <=> Orphan(stack, q)
  BY <1>2, <1>6 DEF Orphan
<1> QED
  BY <1>2, <1>4, <1>6, <1>7, <1>8 DEF k

(* A page that is as the tree has it. *)
LEMMA ShownAsIs ==
  ASSUME NEW W, NEW f, NEW st, NEW q, q \in DOMAIN f, f[q] = W[q], W[q] \in BptreeNode
  PROVE  Shown(W, f, st, q)
<1>1. W[q] = [W[q] EXCEPT !.parent = W[q].parent]
  BY DEF BptreeNode
<1>2. q \in Pages(f)
  BY HoleAssumption DEF Pages
<1> QED
  BY <1>1, <1>2 DEF Shown

(* The splits have come to the root. *)
LEMMA NewRootTall == ASSUME Calls, Rooted, Tall, NewRoot PROVE Tall'
<1>1. PICK self : self = mem.size + 1
  OBVIOUS
<1>2. PICK p, n, k : p = Top.left.self /\ n = mem.size /\ k = Len(stack)
  OBVIOUS
<1> DEFINE root == RootOver(self, Top.right.key[0], Top.left.self, Top.right.self)
           l == [Top.left EXCEPT !.parent = self]
           r == [Top.right EXCEPT !.parent = self]
<1>3. /\ pc = "climb" /\ pc' = "unwind" /\ Top.left.parent = NODE_EOF
      /\ mem' = [root |-> self, size |-> self]
      /\ disk' = NodeFlush(disk, root)
      /\ stack' = WithTop(l, r)
      /\ UNCHANGED <<hdr, arg, inserted, live>>
  BY <1>1 DEF NewRoot, ghost
<1>4. PICK V, H, rank, route : ClimbAt(V, H, rank, route)
  BY <1>3 DEF Tall
<1>5. Halfway(V, H, rank, route, p, n, k)
  BY <1>2, <1>3, <1>4, ClimbFacts
<1>6. self \in Nat \ {0} /\ self \notin DOMAIN H /\ self = n + 1 /\ n \in Nat
  BY <1>1, <1>2, <1>5 DEF Halfway
<1>7. p = mem.root
  <2> SUFFICES ASSUME p # mem.root PROVE FALSE
    OBVIOUS
  <2>1. V[p].parent \in DOMAIN V /\ V[p].parent = -1
    BY ZenonT(60), <1>3, <1>5 DEF Halfway, Tree, Hung, NODE_EOF
  <2>2. DOMAIN V \subseteq Nat
    BY <1>5 DEF Halfway, Tree
  <2> QED
    BY <2>1, <2>2
<1>8. PICK W : RootCut(V, H, W, p, n, self)
  <2> DEFINE U == [q \in DOMAIN H \cup {self} |->
                     IF q = self THEN RootOver(self, Separator(V[p]), p, n)
                     ELSE IF q \in {p, n} THEN [H[q] EXCEPT !.parent = self] ELSE H[q]]
  <2>1. p \in DOMAIN H /\ n \in DOMAIN H /\ p # self /\ n # self /\ Cut(V, H, p, n)
    BY <1>5, <1>6 DEF Halfway
  <2>2. DOMAIN U = DOMAIN H \cup {self}
    OBVIOUS
  <2>3. \A q \in DOMAIN H \cup {self} :
          U[q] = IF q = self THEN RootOver(self, Separator(V[p]), p, n)
                 ELSE IF q \in {p, n} THEN [H[q] EXCEPT !.parent = self] ELSE H[q]
    OBVIOUS
  <2> HIDE DEF U
  <2>4. U[self] = RootOver(self, Separator(V[p]), p, n)
    BY <2>3
  <2>5. U[p] = [H[p] EXCEPT !.parent = self] /\ U[n] = [H[n] EXCEPT !.parent = self]
    BY <2>1, <2>3
  <2>6. \A q \in DOMAIN H \ {p, n} : U[q] = H[q]
    BY <1>6, <2>3
  <2>7. RootCut(V, H, U, p, n, self)
    BY <1>6, <2>1, <2>2, <2>4, <2>5, <2>6 DEF RootCut
  <2> QED
    BY <2>7
<1>9. PICK rk, rt : Whole(W, self, self, rk, rt) /\ Stored(W, live)
  <2>1. Whole(V, p, n - 1, rank, route) /\ Stored(V, live)
    BY <1>2, <1>4, <1>7 DEF ClimbAt
  <2> QED
    BY <1>6, <1>8, <2>1, RootSplit
<1>10. /\ W[self] = root /\ root \in BptreeNode /\ root.self = self
       /\ W[p] = l /\ W[n] = r
  <2>1. W[self] = root /\ W[p] = l /\ W[n] = r
    BY <1>5, <1>8 DEF RootCut, Halfway
  <2>2. W[self] \in BptreeNode /\ W[self].self = self
    <3>1. self \in DOMAIN W
      BY <1>8 DEF RootCut
    <3> QED
      BY <1>9, <3>1 DEF Whole, Tree, Proper
  <2> QED
    BY <2>1, <2>2
<1> HIDE DEF root
<1>11. /\ DOMAIN stack' = DOMAIN stack /\ k \in DOMAIN stack
       /\ stack'[k].left = l /\ stack'[k].right = r
       /\ \A i \in DOMAIN stack \ {k} : stack'[i] = stack[i]
       /\ \A q : InFrame(stack', q) <=> InFrame(stack, q)
       /\ \A q : Orphan(stack', q) <=> Orphan(stack, q)
       /\ l.self = p /\ r.self = n
  <2>1. /\ l.self = Top.left.self
        /\ r.self = Top.right.self /\ r.isLeaf = Top.right.isLeaf
        /\ r.dat = Top.right.dat /\ r.size = Top.right.size
    <3>1. Top.left \in BptreeNode /\ Top.right \in BptreeNode /\ self \in Int
      BY <1>5, <1>6 DEF Halfway
    <3> QED
      BY <3>1 DEF BptreeNode
  <2>2. k \in DOMAIN stack /\ k = Len(stack)
    BY <1>5 DEF Halfway
  <2> HIDE DEF l, r
  <2> QED
    BY <1>3, <1>5, <2>1, <2>2, TopSet DEF Halfway
<1> HIDE DEF l, r
<1>12. /\ Pages(disk') = Pages(disk) \cup {self} /\ disk'[self] = root
       /\ \A q \in Pages(disk) : q # self => disk'[q] = disk[q]
  <2>1. disk \in Seq(Page) /\ root.self >= 1
    BY <1>6, <1>10 DEF Calls
  <2> QED
    BY <1>3, <1>10, <2>1, FlushPages
<1>13. Framed(W, stack')
  <2> SUFFICES ASSUME NEW i \in DOMAIN stack
               PROVE  /\ stack'[i].left.self \in DOMAIN W /\ W[stack'[i].left.self] = stack'[i].left
                      /\ stack'[i].right.self \in DOMAIN W /\ W[stack'[i].right.self] = stack'[i].right
    BY <1>11 DEF Framed
  <2>1. CASE i = k
    <3>1. p \in DOMAIN W /\ n \in DOMAIN W
      BY <1>5, <1>8 DEF Halfway, RootCut
    <3> QED
      BY <1>10, <1>11, <2>1, <3>1
  <2>2. CASE i # k
    <3>1. stack'[i] = stack[i]
      BY <1>11, <2>2
    <3>2. /\ stack[i].left.self \in DOMAIN V \ {p, n} /\ stack[i].right.self \in DOMAIN V \ {p, n}
      BY <1>2, <1>3, <1>4, <2>2, OtherFrames
    <3>3. \A q \in DOMAIN V \ {p, n} : q \in DOMAIN W /\ W[q] = H[q]
      BY <1>5, <1>8 DEF Halfway, RootCut
    <3>4. Framed(H, stack)
      BY <1>4 DEF ClimbAt, Shows
    <3> QED
      BY <3>1, <3>2, <3>3, <3>4 DEF Framed
  <2> QED
    BY <2>1, <2>2
<1>14. ASSUME NEW q \in DOMAIN W, ~InFrame(stack', q) PROVE Shown(W, disk', stack', q)
  <2>1. CASE q = self
    <3>1. q \in DOMAIN disk' /\ disk'[q] = W[q] /\ W[q] \in BptreeNode
      BY <1>10, <1>12, <2>1 DEF Pages
    <3> QED
      BY <3>1, ShownAsIs
  <2>2. CASE q # self
    <3>1. q \in DOMAIN H /\ ~InFrame(stack, q)
      BY <1>8, <1>11, <1>14, <2>2 DEF RootCut
    <3>2. q # p /\ q # n
      BY <1>5, <1>11, <3>1 DEF InFrame, Halfway
    <3>3. W[q] = H[q]
      BY <1>8, <3>1, <3>2 DEF RootCut
    <3>4. Shown(H, disk, stack, q)
      BY <1>4, <3>1 DEF ClimbAt, Shows
    <3> QED
      BY <1>11, <1>12, <2>2, <3>3, <3>4 DEF Shown
  <2> QED
    BY <2>1, <2>2
<1>15. DOMAIN disk' \subseteq 1..self
  <2>1. DOMAIN disk \subseteq 1..self /\ disk \in Seq(Page) /\ self \in Nat /\ root.self <= self
    BY <1>5, <1>6, <1>10 DEF Halfway, Calls
  <2> QED
    BY <1>3, <1>10, <2>1, FlushWithin
<1>16. UnwindAt(W, rk, rt)'
  <2>1. mem'.root = self /\ mem'.size = self /\ live' = live
    BY <1>3
  <2> QED
    BY <1>9, <1>13, <1>14, <1>15, <2>1 DEF UnwindAt, Shows
<1> QED
  BY <1>3, <1>16 DEF Tall

-----------------------------------------------------------------------------
(* The children that moved are below the page that is split. *)
LEMMA OrphansBelow ==
  ASSUME Calls, Rooted, Tall, pc = "climb",
         NEW V, NEW H, NEW rank, NEW route, ClimbAt(V, H, rank, route),
         NEW q, Orphan(stack, q)
  PROVE  q \in DOMAIN V /\ rank[q] < Len(stack) - 1
<1>1. PICK p, n, k : p = Top.left.self /\ n = mem.size /\ k = Len(stack)
  OBVIOUS
<1>2. Halfway(V, H, rank, route, p, n, k)
  BY <1>1, ClimbFacts
<1>3. PICK i \in DOMAIN stack : ~stack[i].right.isLeaf /\ q \in Children(stack[i].right)
  BY DEF Orphan
<1>4. Tree(V, mem.root, rank) /\ Cut(V, H, p, n) /\ rank[p] = k - 1 /\ k \in Nat /\ DOMAIN stack = 1..k
  BY <1>2 DEF Halfway
<1>5. CASE i = k
  <2>1. stack[i].right = H[n]
    BY <1>2, <1>5 DEF Halfway
  <2>2. /\ Halved(V[p], H[p], H[n], Mid(V[p]))
        /\ ~V[p].isLeaf => \A x \in Children(H[n]) : x \in DOMAIN V \ {mem.root, p} /\ rank[p] = rank[x] + 1
    BY <1>4, CutFacts
  <2>3. q \in DOMAIN V /\ rank[p] = rank[q] + 1
    BY <1>3, <2>1, <2>2 DEF Halved
  <2>4. rank[q] \in Nat
    BY <1>4, <2>3 DEF Tree
  <2> QED
    BY <1>1, <1>4, <2>3, <2>4
<1>6. CASE i # k
  <2>1. PICK x : x = stack[i].right.self
    OBVIOUS
  <2>2. x \in DOMAIN V /\ x # p /\ x # n /\ rank[x] = i - 1 /\ i - 1 < k - 1
    BY <1>1, <1>6, <2>1, OtherFrames
  <2>3. H[x] = stack[i].right
    BY <2>1 DEF ClimbAt, Shows, Framed
  <2>4. V[x].isLeaf = H[x].isLeaf /\ V[x].size = H[x].size /\ V[x].dat = H[x].dat
    <3>1. V[x] \in BptreeNode
      BY <1>4, <2>2 DEF Tree, Proper
    <3>2. n \in Int
      BY <1>4 DEF Cut
    <3>3. H[x] = V[x] \/ H[x] = [V[x] EXCEPT !.parent = n]
      BY <1>4, <2>2 DEF Cut
    <3> QED
      BY <3>1, <3>2, <3>3, ParentSet
  <2>5. ~V[x].isLeaf /\ q \in Children(V[x])
    BY <1>3, <2>3, <2>4 DEF Children
  <2>6. Pointed(V, mem.root, rank, x)
    BY <1>4, <2>2 DEF Tree
  <2>7. q \in DOMAIN V /\ rank[x] = rank[q] + 1
    BY <2>5, <2>6 DEF Pointed, Children
  <2>8. rank[q] \in Nat
    BY <1>4, <2>7 DEF Tree
  <2>9. i \in Nat
    BY <1>4
  <2> QED
    BY <1>1, <1>4, <2>2, <2>7, <2>8, <2>9
<1> QED
  BY <1>5, <1>6

(* The tree with the slot for the new page in the parent P. *)
GrownTo(V, H, W, rank, rk, rt, p, n, k, P) ==
  /\ P = Top.left.parent /\ P \in DOMAIN V /\ P \in DOMAIN H /\ P # p /\ P # n
  /\ P \in Pages(disk) /\ disk[P] = H[P] /\ H[P] = V[P]
  /\ ~InFrame(stack, P) /\ ~Orphan(stack, P)
  /\ W[P] = Grown /\ Grown \in BptreeNode /\ Grown.self = P /\ ~Grown.isLeaf
  /\ DOMAIN W = DOMAIN H /\ \A q \in DOMAIN H \ {P} : W[q] = H[q]
  /\ Whole(W, mem.root, n, rk, rt) /\ Stored(W, live)
  /\ rk[P] = k /\ rk[n] = k - 1 /\ \A q \in DOMAIN V : rk[q] = rank[q]
  /\ rt[arg.key][k] = P

(* InsertIntoNode in a parent with room makes that tree. *)
LEMMA GrownTree ==
  ASSUME Calls, Rooted, Tall, pc = "climb", Present(Top.left.parent),
         NEW V, NEW H, NEW rank, NEW route, ClimbAt(V, H, rank, route)
  PROVE  \E W, rk, rt : GrownTo(V, H, W, rank, rk, rt, Top.left.self, mem.size, Len(stack), Top.left.parent)
<1>1. PICK p, n, k, P : p = Top.left.self /\ n = mem.size /\ k = Len(stack) /\ P = Top.left.parent
  OBVIOUS
<1>2. Halfway(V, H, rank, route, p, n, k)
  BY <1>1, ClimbFacts
<1>3. /\ Tree(V, mem.root, rank) /\ Cut(V, H, p, n) /\ rank[p] = k - 1 /\ k \in Nat \ {0}
      /\ DOMAIN stack = 1..k /\ p \in DOMAIN V /\ P = V[p].parent /\ n \notin DOMAIN V
      /\ n \in Nat /\ n = Top.right.self /\ DOMAIN H = DOMAIN V \cup {n}
      /\ Top = stack[k] /\ DOMAIN V \subseteq Nat \ {0}
  BY <1>1, <1>2 DEF Halfway, Tree
<1>4. P \in Pages(disk) /\ P \in DOMAIN V
  BY <1>1, <1>2 DEF Present, Pages, Halfway
<1>5. p # mem.root /\ rank[P] = k
  <2>1. P # -1
    BY <1>3, <1>4
  <2>2. p # mem.root
    BY <1>3, <2>1 DEF Tree, NODE_EOF
  <2>3. Hung(V, p) /\ Pointed(V, mem.root, rank, P) /\ rank[p] \in Nat
    BY <1>3, <1>4, <2>2 DEF Tree
  <2>4. rank[P] = rank[p] + 1
    BY <1>3, <2>3 DEF Hung, Pointed
  <2> QED
    BY <1>3, <2>2, <2>4
<1>6. P # p /\ P # n
  BY <1>3, <1>4, <1>5
<1>7. ~InFrame(stack, P)
  <2> SUFFICES ASSUME NEW i \in DOMAIN stack, P = stack[i].left.self \/ P = stack[i].right.self
               PROVE  FALSE
    BY DEF InFrame
  <2>1. i # k
    BY <1>1, <1>3, <1>6
  <2>2. rank[P] = i - 1 /\ i - 1 < k - 1
    BY <1>1, <2>1, OtherFrames
  <2> QED
    BY <1>3, <1>5, <2>2
<1>8. ~Orphan(stack, P)
  <2> SUFFICES ASSUME Orphan(stack, P) PROVE FALSE
    OBVIOUS
  <2>1. rank[P] < k - 1
    BY <1>1, OrphansBelow
  <2> QED
    BY <1>3, <1>5, <2>1
<1>9. H[P] = V[P]
  <2>1. ~V[p].isLeaf => P \notin Children(H[n])
    <3> SUFFICES ASSUME ~V[p].isLeaf, P \in Children(H[n]) PROVE FALSE
      OBVIOUS
    <3>1. rank[p] = rank[P] + 1
      BY <1>3, CutFacts
    <3> QED
      BY <1>3, <1>5, <3>1
  <2> QED
    BY <1>3, <1>4, <1>6, <2>1 DEF Cut
<1>10. disk[P] = H[P]
  <2>1. Shown(H, disk, stack, P)
    BY <1>3, <1>4, <1>7 DEF ClimbAt, Shows
  <2> QED
    BY <1>8, <2>1 DEF Shown
<1>11. Grown = InsertChild(V[P], Separator(V[p]), p, n) /\ V[P].size < M
  <2>1. Top.right.key[0] = Separator(V[p])
    BY <1>2 DEF Halfway
  <2>2. disk[P].size < M
    BY <1>4, PageFacts
  <2> QED
    BY <1>1, <1>3, <1>9, <1>10, <2>1, <2>2 DEF Grown
<1>12. PICK W : DOMAIN W = DOMAIN H /\ W[P] = Grown /\ \A q \in DOMAIN H \ {P} : W[q] = H[q]
  <2> DEFINE U == [q \in DOMAIN H |-> IF q = P THEN Grown ELSE H[q]]
  <2>1. DOMAIN U = DOMAIN H /\ U[P] = Grown /\ \A q \in DOMAIN H \ {P} : U[q] = H[q]
    BY <1>3, <1>4
  <2> QED
    BY <2>1
<1>13. Split(V, W, p, n)
  BY <1>3, <1>4, <1>9, <1>11, <1>12, CutSplit
<1>14. Parting(V, W, mem.root, rank, route, p, n, arg.key)
  <2>1. Routed(V, mem.root, rank, route)
    BY <1>2 DEF Halfway
  <2>2. arg.key \in Int
    BY EntryTyped DEF Rooted
  <2>3. rank[p] <= rank[mem.root] /\ route[arg.key][rank[p]] = p
    BY <1>1, <1>3 DEF ClimbAt, Whole
  <2> QED
    BY <1>3, <1>5, <1>13, <2>1, <2>2, <2>3 DEF Parting
<1>15. PICK rk, rt : rk = RankWith(rank, n, rank[p]) /\ rt = RouteWith(V, rank, route, p, n)
  OBVIOUS
<1>16. Whole(W, mem.root, n, rk, rt) /\ Stored(W, live)
  <2>1. Whole(V, mem.root, n - 1, rank, route) /\ Stored(V, live) /\ n \in Nat
    BY <1>1, <1>3 DEF ClimbAt
  <2>2. Whole(W, mem.root, n, rk, rt)
    BY <1>14, <1>15, <2>1, SplitWhole
  <2> QED
    BY <1>14, <2>1, <2>2, SplitStored
<1>17. rk[n] = k - 1 /\ \A q \in DOMAIN V : rk[q] = rank[q]
  BY <1>3, <1>15 DEF RankWith
<1>18. rt[arg.key][k] = P
  <2>1. rank[p] \in Nat /\ P = route[arg.key][rank[p] + 1]
    BY <1>3, <1>14, PartingFacts
  <2>2. arg.key \in Int /\ k \in Nat /\ k = rank[p] + 1
    BY <1>3, <1>14 DEF Parting
  <2>3. rt[arg.key][k] = route[arg.key][k]
    BY <1>15, <2>1, <2>2, NewWays
  <2> QED
    BY <2>1, <2>2, <2>3
<1>19. Grown \in BptreeNode /\ Grown.self = P /\ ~Grown.isLeaf
  <2>1. P \in DOMAIN W
    BY <1>3, <1>4, <1>12
  <2>2. Proper(W[P]) /\ W[P].self = P /\ (W[P].isLeaf <=> rk[P] = 0)
    BY <1>16, <2>1 DEF Whole, Tree
  <2>3. rk[P] = k
    BY <1>4, <1>5, <1>17
  <2> QED
    BY <1>3, <1>12, <2>2, <2>3 DEF Proper
<1>20. GrownTo(V, H, W, rank, rk, rt, p, n, k, P)
  BY ZenonT(60), <1>1, <1>3, <1>4, <1>5, <1>6, <1>7, <1>8, <1>9, <1>10, <1>12, <1>16, <1>17,
     <1>18, <1>19 DEF GrownTo
<1> QED
  BY <1>1, <1>20

-----------------------------------------------------------------------------
(* The parent has room for the new page. *)
LEMMA IntoNodeTall == ASSUME Calls, Rooted, Tall, InsertIntoNode PROVE Tall'
<1>1. /\ pc = "climb" /\ pc' = "unwind" /\ Present(Top.left.parent)
      /\ disk' = NodeFlush(disk, Grown)
      /\ UNCHANGED <<hdr, mem, arg, stack, inserted, live>>
  BY DEF InsertIntoNode, ghost
<1>2. PICK p, n, k, P : p = Top.left.self /\ n = mem.size /\ k = Len(stack) /\ P = Top.left.parent
  OBVIOUS
<1>3. PICK V, H, rank, route : ClimbAt(V, H, rank, route)
  BY <1>1 DEF Tall
<1>4. Halfway(V, H, rank, route, p, n, k)
  BY <1>1, <1>2, <1>3, ClimbFacts
<1>5. PICK W, rk, rt : GrownTo(V, H, W, rank, rk, rt, p, n, k, P)
  BY <1>1, <1>2, <1>3, GrownTree
<1>6. /\ Pages(disk') = Pages(disk) /\ disk'[P] = Grown
      /\ \A q \in Pages(disk) : q # P => disk'[q] = disk[q]
  <2>1. Grown \in BptreeNode /\ Grown.self = P
    BY <1>5 DEF GrownTo
  <2>2. P \in Pages(disk)
    BY <1>5 DEF GrownTo
  <2>3. disk \in Seq(Page) /\ Grown.self >= 1 /\ Grown.self \in Pages(disk)
    BY <2>1, <2>2, PageFacts
  <2>4. /\ Pages(disk') = Pages(disk) \cup {Grown.self}
        /\ disk'[Grown.self] = Grown
        /\ \A q \in Pages(disk) : q # Grown.self => disk'[q] = disk[q]
    BY <1>1, <2>1, <2>3, FlushPages
  <2> QED
    BY <2>1, <2>2, <2>4
<1>7. Framed(H, stack) /\ \A q \in DOMAIN H : InFrame(stack, q) \/ Shown(H, disk, stack, q)
  BY <1>3 DEF ClimbAt, Shows
<1>8. Framed(W, stack)
  <2>1. \A i \in DOMAIN stack : stack[i].left.self # P /\ stack[i].right.self # P
    BY <1>5 DEF GrownTo, InFrame
  <2>2. DOMAIN W = DOMAIN H /\ \A q \in DOMAIN H : q # P => W[q] = H[q]
    BY <1>5 DEF GrownTo
  <2> QED
    BY <1>7, <2>1, <2>2 DEF Framed
<1>9. ASSUME NEW q \in DOMAIN W, ~InFrame(stack, q) PROVE Shown(W, disk', stack, q)
  <2>1. CASE q = P
    <3>1. q \in DOMAIN disk' /\ disk'[q] = W[q] /\ W[q] \in BptreeNode
      BY <1>5, <1>6, <2>1 DEF Pages, GrownTo
    <3> QED
      BY <3>1, ShownAsIs
  <2>2. CASE q # P
    <3>1. q \in DOMAIN H /\ W[q] = H[q]
      BY <1>5, <2>2 DEF GrownTo
    <3>2. Shown(H, disk, stack, q)
      BY <1>7, <1>9, <3>1
    <3> QED
      BY <1>6, <2>2, <3>1, <3>2 DEF Shown
  <2> QED
    BY <2>1, <2>2
<1>10. DOMAIN disk' \subseteq 1..n
  <2>1. DOMAIN disk \subseteq 1..n /\ disk \in Seq(Page) /\ n \in Nat
    BY <1>4 DEF Halfway, Calls
  <2>2. Grown \in BptreeNode /\ Grown.self <= n
    <3>1. Grown \in BptreeNode /\ Grown.self = P /\ P \in DOMAIN V
      BY <1>5 DEF GrownTo
    <3>2. DOMAIN V = 1..n-1
      BY <1>4 DEF Halfway
    <3>3. P \in 1..n-1
      BY <3>1, <3>2
    <3> QED
      BY <2>1, <3>1, <3>3
  <2> QED
    BY <1>1, <2>1, <2>2, FlushWithin
<1>11. UnwindAt(W, rk, rt)'
  <2>1. mem'.root = mem.root /\ mem'.size = n /\ live' = live /\ stack' = stack
    BY <1>1, <1>2
  <2>2. Whole(W, mem.root, n, rk, rt) /\ Stored(W, live)
    BY <1>5 DEF GrownTo
  <2> QED
    BY <1>8, <1>9, <1>10, <2>1, <2>2 DEF UnwindAt, Shows
<1> QED
  BY <1>1, <1>11 DEF Tall

(* The parent has none and is split in its turn. *)
LEMMA SplitNodeTall == ASSUME Calls, Rooted, Tall, SplitNode PROVE Tall'
<1>1. PICK self : self = mem.size + 1
  OBVIOUS
<1>2. PICK p, n, k, P : p = Top.left.self /\ n = mem.size /\ k = Len(stack) /\ P = Top.left.parent
  OBVIOUS
<1>3. PICK G, lower, upper : G = Grown /\ lower = LowerHalf(G) /\ upper = UpperHalf(G, self)
  OBVIOUS
<1> DEFINE Moved(m) == IF m.self \in Children(upper) THEN [m EXCEPT !.parent = self] ELSE m
           l == Moved(Top.left)
           r == Moved(Top.right)
           frame == [left |-> lower, right |-> upper]
           st == WithTop(l, r)
<1>4. /\ pc = "climb" /\ pc' = "climb" /\ Present(Top.left.parent) /\ G.size = M
      /\ mem' = [mem EXCEPT !.size = self]
      /\ stack' = Append(st, frame)
      /\ UNCHANGED <<hdr, disk, arg, inserted, live>>
  BY <1>1, <1>3 DEF SplitNode, ghost
<1>5. PICK V, H, rank, route : ClimbAt(V, H, rank, route)
  BY <1>4 DEF Tall
<1>6. Halfway(V, H, rank, route, p, n, k)
  BY <1>2, <1>4, <1>5, ClimbFacts
<1>7. PICK W, rk, rt : GrownTo(V, H, W, rank, rk, rt, p, n, k, P)
  BY <1>2, <1>4, <1>5, GrownTree
<1>8. /\ Tree(W, mem.root, rk) /\ DOMAIN W = 1..n /\ W[P] = G /\ P \in DOMAIN W /\ ~G.isLeaf
      /\ n \in Nat /\ self = n + 1 /\ k \in Nat \ {0} /\ DOMAIN stack = 1..k /\ k = Len(stack)
      /\ mem'.root = mem.root /\ mem'.size = self /\ Proper(G) /\ rk[P] = k
  <2>1. mem \in Header
    BY DEF Rooted, IInv, Scalars
  <2>2. mem'.root = mem.root /\ mem'.size = self
    BY <1>4, <2>1 DEF Header
  <2>3. Tree(W, mem.root, rk) /\ DOMAIN W = 1..n /\ W[P] = G /\ P \in DOMAIN W /\ ~G.isLeaf /\ rk[P] = k
    BY <1>3, <1>7 DEF GrownTo, Whole
  <2>4. Proper(G)
    BY <2>3 DEF Tree
  <2> QED
    BY <1>1, <1>2, <1>6, <2>2, <2>3, <2>4 DEF Halfway
<1>9. k \in Nat \ {0}
  BY <1>8
<1>10. /\ p \in DOMAIN V /\ H[p] = Top.left /\ H[n] = Top.right
      /\ DOMAIN H = DOMAIN V \cup {n} /\ rank[p] = k - 1
  BY <1>6 DEF Halfway
<1>11. /\ P # p /\ P # n /\ DOMAIN W = DOMAIN H /\ \A q \in DOMAIN H \ {P} : W[q] = H[q]
      /\ rk[n] = k - 1 /\ \A q \in DOMAIN V : rk[q] = rank[q]
  BY <1>7 DEF GrownTo
<1>12. /\ p \in DOMAIN W \ {P} /\ n \in DOMAIN W \ {P} /\ W[p] = Top.left /\ W[n] = Top.right
      /\ rk[p] = k - 1 /\ rk[n] = k - 1
  BY <1>10, <1>11
<1>13. PICK J : Cut(W, J, P, self)
  <2>1. self \in (Nat \ {0}) \ DOMAIN W /\ W[P].size = M
    BY <1>4, <1>8
  <2> QED
    BY <1>8, <2>1, CutMade
<1>14. /\ DOMAIN J = DOMAIN W \cup {self} /\ J[P] = lower /\ J[self] = upper
       /\ lower.self = P /\ upper.self = self
       /\ \A q \in DOMAIN W \ {P} : J[q] = IF q \in Children(upper)
                                           THEN [W[q] EXCEPT !.parent = self] ELSE W[q]
       /\ \A q \in Children(upper) : q \in DOMAIN W \ {P} /\ rk[q] = k - 1
  <2>1. /\ DOMAIN J = DOMAIN W \cup {self} /\ J[P] = lower /\ J[self] = upper
        /\ \A q \in DOMAIN W \ {P} : J[q] = IF q \in Children(upper)
                                            THEN [W[q] EXCEPT !.parent = self] ELSE W[q]
    BY <1>3, <1>8, <1>13 DEF Cut
  <2>2. /\ Halved(G, lower, upper, Mid(G)) /\ upper.self = self
        /\ \A q \in Children(upper) : q \in DOMAIN W \ {P} /\ rk[P] = rk[q] + 1
    <3>1. /\ Halved(W[P], J[P], J[self], Mid(W[P])) /\ J[self].self = self
          /\ ~W[P].isLeaf => \A q \in Children(J[self]) : q \in DOMAIN W \ {mem.root, P} /\ rk[P] = rk[q] + 1
      <4>1. Tree(W, mem.root, rk) /\ Cut(W, J, P, self)
        BY <1>8, <1>13
      <4>2. /\ Halved(W[P], J[P], J[self], Mid(W[P])) /\ J[self].self = self
            /\ ~W[P].isLeaf => \A q \in Children(J[self]) : q \in DOMAIN W \ {mem.root, P} /\ rk[P] = rk[q] + 1
        BY ONLY <4>1, CutFacts
      <4> QED
        BY <4>2
    <3> QED
      BY <1>8, <2>1, <3>1
  <2>3. lower.self = P
    <3>1. G.self = P
      BY <1>8 DEF Tree
    <3> QED
      BY <2>2, <3>1 DEF Halved
  <2>4. \A q \in Children(upper) : rk[q] = k - 1
    <3> SUFFICES ASSUME NEW q \in Children(upper) PROVE rk[q] = k - 1
      OBVIOUS
    <3>1. rk[q] \in Nat /\ rk[P] = rk[q] + 1
      BY <1>8, <2>2 DEF Tree
    <3> QED
      BY <1>8, <3>1
  <2> QED
    BY <2>1, <2>2, <2>3, <2>4
<1>15. Top.left \in BptreeNode /\ Top.right \in BptreeNode /\ Top.left.self = p /\ Top.right.self = n
       /\ self \in Int /\ p \in DOMAIN V
  BY <1>1, <1>2, <1>6 DEF Halfway
<1>16. /\ l.self = p /\ r.self = n /\ r.isLeaf = Top.right.isLeaf
       /\ r.dat = Top.right.dat /\ r.size = Top.right.size
       /\ l \in BptreeNode /\ r \in BptreeNode
  <2>1. ASSUME NEW m \in BptreeNode
        PROVE  /\ Moved(m) \in BptreeNode /\ Moved(m).self = m.self /\ Moved(m).isLeaf = m.isLeaf
               /\ Moved(m).dat = m.dat /\ Moved(m).size = m.size
    <3>1. LET x == [m EXCEPT !.parent = self]
          IN  x \in BptreeNode /\ x.self = m.self /\ x.isLeaf = m.isLeaf /\ x.dat = m.dat /\ x.size = m.size
      <4>1. self \in Int
        BY <1>15
      <4> QED
        BY <4>1 DEF BptreeNode
    <3> QED
      BY <3>1
  <2> HIDE DEF Moved
  <2> QED
    BY <1>15, <2>1
<1>17. J[p] = l /\ J[n] = r
  <2>1. J[p] = IF p \in Children(upper) THEN [W[p] EXCEPT !.parent = self] ELSE W[p]
    BY <1>14, <1>12
  <2>2. J[n] = IF n \in Children(upper) THEN [W[n] EXCEPT !.parent = self] ELSE W[n]
    BY <1>14, <1>12
  <2> QED
    BY <1>15, <1>12, <2>1, <2>2
<1> HIDE DEF l, r, Moved
<1>18. /\ st \in Seq(Frame) /\ Len(st) = k /\ DOMAIN st = 1..k
       /\ st[k].left = l /\ st[k].right = r
       /\ \A i \in 1..k : i # k => st[i] = stack[i]
       /\ \A i \in 1..k : st[i].left.self = stack[i].left.self /\ st[i].right.self = stack[i].right.self
       /\ \A q : InFrame(st, q) <=> InFrame(stack, q)
       /\ \A q : Orphan(st, q) <=> Orphan(stack, q)
  <2>1. Len(stack) \in DOMAIN stack /\ l.self = Top.left.self /\ r.self = Top.right.self
    BY <1>8, <1>15, <1>16
  <2>2. /\ DOMAIN st = DOMAIN stack
        /\ st[Len(stack)].left = l /\ st[Len(stack)].right = r
        /\ \A i \in DOMAIN stack \ {Len(stack)} : st[i] = stack[i]
        /\ \A i \in DOMAIN stack : /\ st[i].left.self = stack[i].left.self
                                   /\ st[i].right.self = stack[i].right.self
        /\ \A q : InFrame(st, q) <=> InFrame(stack, q)
        /\ \A q : Orphan(st, q) <=> Orphan(stack, q)
    BY <1>16, <2>1, TopSet
  <2>3. st \in Seq(Frame) /\ Len(st) = k
    <3>1. stack \in Seq(Frame)
      BY DEF Rooted, IInv, StackOK
    <3>2. [left |-> l, right |-> r] \in Frame
      BY <1>16 DEF Frame
    <3>3. st = [stack EXCEPT ![k] = [left |-> l, right |-> r]] /\ k \in 1..Len(stack)
      BY <1>8 DEF WithTop
    <3> QED
      BY <1>8, <3>1, <3>2, <3>3, ExceptSeq
  <2>4. DOMAIN stack = 1..k /\ k = Len(stack)
    BY <1>8
  <2> QED
    BY ZenonT(60), <2>2, <2>3, <2>4
<1> HIDE DEF st
<1>19. /\ Len(stack') = k + 1 /\ DOMAIN stack' = 1..k+1
       /\ stack'[k + 1] = frame
       /\ \A i \in 1..k : stack'[i] = st[i]
  <2>1. frame \in Frame
    <3>1. lower \in BptreeNode /\ upper \in BptreeNode
      <4>1. Halved(W[P], J[P], J[self], Mid(W[P]))
        BY <1>8, <1>13, CutFacts
      <4> QED
        BY <1>14, <4>1 DEF Halved, Proper
    <3> QED
      BY <3>1 DEF Frame
  <2> HIDE DEF frame
  <2> QED
    BY <1>4, <1>18, <2>1, AppendProperties
<1>20. stack'[k + 1].left = lower /\ stack'[k + 1].right = upper
  BY <1>19
<1> HIDE DEF frame
<1>21. \A q : InFrame(stack', q) <=> InFrame(stack, q) \/ q = P \/ q = self
  <2> SUFFICES ASSUME NEW q PROVE InFrame(stack', q) <=> InFrame(stack, q) \/ q = P \/ q = self
    OBVIOUS
  <2>1. InFrame(stack', q) <=> InFrame(st, q) \/ q = P \/ q = self
    <3>1. \A i \in 1..k+1 : i \in 1..k \/ i = k + 1
      BY <1>8
    <3>2. \A i \in 1..k : i \in 1..k+1
      BY <1>8
    <3>3. k + 1 \in 1..k+1
      BY <1>8
    <3> QED
      BY <1>14, <1>18, <1>19, <1>20, <3>1, <3>2, <3>3 DEF InFrame
  <2> QED
    BY <1>18, <2>1
<1>22. /\ \A q : Orphan(stack, q) => Orphan(stack', q)
       /\ \A q \in Children(upper) : Orphan(stack', q)
  <2>1. \A i \in 1..k : i \in 1..k+1
    BY <1>8
  <2>2. \A q : Orphan(st, q) => Orphan(stack', q)
    BY <1>18, <1>19, <2>1 DEF Orphan
  <2>3. ~upper.isLeaf /\ k + 1 \in 1..k+1
    <3>1. Halved(W[P], J[P], J[self], Mid(W[P]))
      BY <1>8, <1>13, CutFacts
    <3> QED
      BY <1>8, <1>14, <3>1 DEF Halved
  <2> QED
    BY <1>18, <1>19, <1>20, <2>2, <2>3 DEF Orphan
<1>23. Framed(J, stack')
  <2> SUFFICES ASSUME NEW i \in 1..k+1
               PROVE  /\ stack'[i].left.self \in DOMAIN J /\ J[stack'[i].left.self] = stack'[i].left
                      /\ stack'[i].right.self \in DOMAIN J /\ J[stack'[i].right.self] = stack'[i].right
    BY <1>19 DEF Framed
  <2>1. CASE i = k + 1
    BY <1>8, <1>14, <1>20, <2>1
  <2>2. CASE i = k
    <3>1. stack'[i].left = l /\ stack'[i].right = r
      <4>1. k \in 1..k
        BY <1>9
      <4>2. stack'[k] = st[k]
        BY <1>19, <4>1
      <4> QED
        BY <1>18, <2>2, <4>2
    <3>2. p \in DOMAIN J /\ n \in DOMAIN J
      BY <1>14, <1>12
    <3> QED
      BY <1>16, <1>17, <3>1, <3>2
  <2>3. CASE i \in 1..k-1
    <3>1. i \in 1..k /\ i # k /\ i \in DOMAIN stack /\ i # Len(stack)
      <4>1. i \in 1..k /\ i # k
        BY <1>9, <2>3
      <4>2. DOMAIN stack = 1..k /\ k = Len(stack)
        BY <1>8
      <4> QED
        BY <4>1, <4>2
    <3>2. stack'[i] = stack[i]
      BY <1>18, <1>19, <3>1
    <3>3. ASSUME NEW q, q = stack[i].left.self \/ q = stack[i].right.self
          PROVE  q \in DOMAIN J /\ J[q] = H[q]
      <4>1. q \in DOMAIN V /\ q # p /\ q # n /\ rank[q] = i - 1 /\ i - 1 < k - 1
        <5>1. /\ i \in DOMAIN stack /\ i # Len(stack) /\ pc = "climb"
              /\ q = stack[i].left.self \/ q = stack[i].right.self
          BY <1>4, <3>1, <3>3
        <5>2. ClimbAt(V, H, rank, route)
          BY <1>5
        <5>3. /\ q \in DOMAIN V /\ q # Top.left.self /\ q # mem.size
              /\ rank[q] = i - 1 /\ i - 1 < Len(stack) - 1
          BY <5>1, <5>2, OtherFrames
        <5> QED
          BY <1>2, <5>3
      <4>2. q # P
        BY <1>7, <3>1, <3>3 DEF GrownTo, InFrame
      <4>3. q \in DOMAIN W /\ W[q] = H[q] /\ rk[q] = rank[q]
        BY <1>10, <1>11, <4>1, <4>2
      <4>4. q \notin Children(upper)
        BY <1>8, <1>14, <2>3, <4>1, <4>3
      <4> QED
        BY <1>14, <4>2, <4>3, <4>4
    <3>4. Framed(H, stack)
      BY SMTT(30), <1>5 DEF ClimbAt, Shows
    <3> QED
      BY <3>1, <3>2, <3>3, <3>4 DEF Framed
  <2>4. i = k + 1 \/ i = k \/ i \in 1..k-1
    BY <1>9
  <2> QED
    BY <2>1, <2>2, <2>3, <2>4
<1>24. ASSUME NEW q \in DOMAIN J, ~InFrame(stack', q) PROVE Shown(J, disk, stack', q)
  <2>1. ~InFrame(stack, q) /\ q # P /\ q # self /\ q \in DOMAIN W
    BY <1>14, <1>21, <1>24
  <2>2. q \in DOMAIN H /\ W[q] = H[q]
    BY <1>7, <2>1 DEF GrownTo
  <2>3. Shown(H, disk, stack, q)
    BY SMTT(30), <1>5, <2>1, <2>2 DEF ClimbAt, Shows
  <2>4. CASE q \in Children(upper)
    <3>1. J[q] = [W[q] EXCEPT !.parent = self]
      BY <1>14, <2>1, <2>4
    <3>2. disk[q] \in BptreeNode
      BY <2>3, PageFacts DEF Shown
    <3>3. W[q] = [disk[q] EXCEPT !.parent = W[q].parent]
      BY <2>2, <2>3 DEF Shown
    <3>4. J[q] = [disk[q] EXCEPT !.parent = J[q].parent]
      BY <1>15, <3>1, <3>2, <3>3 DEF BptreeNode
    <3> QED
      BY <1>22, <2>3, <2>4, <3>4 DEF Shown
  <2>5. CASE q \notin Children(upper)
    <3>1. J[q] = H[q]
      BY <1>14, <2>1, <2>2, <2>5
    <3> QED
      BY <1>22, <2>3, <3>1 DEF Shown
  <2> QED
    BY <2>4, <2>5
<1>25. Ranked(stack', rk)
  <2> SUFFICES ASSUME NEW i \in 1..k+1
               PROVE  /\ rk[stack'[i].left.self] = i - 1
                      /\ i < k + 1 => rk[stack'[i].right.self] = i - 1
    BY <1>19 DEF Ranked
  <2>1. CASE i = k + 1
    BY <1>8, <1>14, <1>20, <2>1
  <2>2. CASE i = k
    <3>1. stack'[i].left = l /\ stack'[i].right = r
      <4>1. k \in 1..k
        BY <1>9
      <4>2. stack'[k] = st[k]
        BY <1>19, <4>1
      <4> QED
        BY <1>18, <2>2, <4>2
    <3>2. rk[stack'[i].left.self] = k - 1 /\ rk[stack'[i].right.self] = k - 1
      BY <1>16, <1>12, <3>1
    <3> QED
      BY <2>2, <3>2
  <2>3. CASE i \in 1..k-1
    <3>1. i \in 1..k /\ i # k /\ i \in DOMAIN stack /\ i # Len(stack)
      <4>1. i \in 1..k /\ i # k
        BY <1>9, <2>3
      <4>2. DOMAIN stack = 1..k /\ k = Len(stack)
        BY <1>8
      <4> QED
        BY <4>1, <4>2
    <3>2. stack'[i] = stack[i]
      BY <1>18, <1>19, <3>1
    <3>3. ASSUME NEW q, q = stack[i].left.self \/ q = stack[i].right.self
          PROVE  rk[q] = i - 1
      <4>1. q \in DOMAIN V /\ rank[q] = i - 1
        <5>1. /\ i \in DOMAIN stack /\ i # Len(stack) /\ pc = "climb"
              /\ q = stack[i].left.self \/ q = stack[i].right.self
          BY <1>4, <3>1, <3>3
        <5> QED
          BY <1>5, <5>1, OtherFrames
      <4> QED
        BY <1>7, <4>1 DEF GrownTo
    <3> QED
      BY <3>2, <3>3
  <2>4. i = k + 1 \/ i = k \/ i \in 1..k-1
    BY <1>9
  <2> QED
    BY <2>1, <2>2, <2>3, <2>4
<1>26. ClimbAt(W, J, rk, rt)'
  <2>1. Top' = stack'[k + 1]
    BY <1>19 DEF Top
  <2>2. Whole(W, mem'.root, mem'.size - 1, rk, rt) /\ Stored(W, live')
    <3>1. mem'.size - 1 = n
      BY <1>8
    <3> QED
      BY <1>4, <1>7, <1>8, <3>1 DEF GrownTo
  <2>3. rt[arg'.key][Len(stack') - 1] = P
    <3>1. Len(stack') - 1 = k /\ arg' = arg
      BY <1>4, <1>8, <1>19
    <3> QED
      BY <1>7, <3>1 DEF GrownTo
  <2>4. Cut(W, J, Top'.left.self, mem'.size) /\ Top'.left.self = P /\ Top'.right.self = mem'.size
    BY <1>8, <1>13, <1>14, <1>20, <2>1
  <2>5. disk' = disk
    BY <1>4
  <2>6. Shows(J, disk', stack')
    BY <1>23, <1>24, <2>5 DEF Shows
  <2> QED
    BY <1>25, <2>2, <2>3, <2>4, <2>6 DEF ClimbAt
<1>27. Planted(hdr.root, hdr.size, live \cap Durable)'
  <2>1. Durable' = Durable
    BY SplitNodeRooted
  <2>2. Planted(hdr.root, hdr.size, live \cap Durable)
    BY <1>4 DEF Tall
  <2> QED
    BY <1>4, <2>1, <2>2 DEF Planted
<1> QED
  BY <1>4, <1>26, <1>27 DEF Tall

-----------------------------------------------------------------------------
(* The frame that is written down: children it has taken over, the rest. *)
Rewritten(g, f, l, r) ==
  /\ Pages(g) = Pages(f) \cup {r.self} /\ g[r.self] = r /\ g[l.self] = l
  /\ \A q \in Pages(f) : q # l.self =>
       g[q] = IF ~r.isLeaf /\ q \in Children(r) THEN [f[q] EXCEPT !.parent = r.self] ELSE f[q]

(* Return writes the frame so. *)
LEMMA ReturnPages ==
  ASSUME Calls, Rooted, Return
  PROVE  Rewritten(disk', disk, Top.left, Top.right)
<1>1. /\ pc = "unwind"
      /\ disk' = NodeFlush(NodeFlush(IF Top.right.isLeaf THEN disk
                                     ELSE UpdateParent(disk, Top.right), Top.left), Top.right)
  BY DEF Return
<1> DEFINE f == IF Top.right.isLeaf THEN disk ELSE UpdateParent(disk, Top.right)
<1>2. disk \in Seq(Page) /\ Top.right.self \in Int
  BY <1>1, OuterFrame, TopFrame DEF Rooted, Calls
<1>3. /\ f \in Seq(Page) /\ Pages(f) = Pages(disk)
      /\ \A q \in Pages(disk) : f[q] = IF ~Top.right.isLeaf /\ q \in Children(Top.right)
                                       THEN [disk[q] EXCEPT !.parent = Top.right.self] ELSE disk[q]
  <2>1. CASE Top.right.isLeaf
    BY <1>2, <2>1
  <2>2. CASE ~Top.right.isLeaf
    <3>1. f = Adopt(disk, Children(Top.right), Top.right.self)
      BY <2>2 DEF UpdateParent, Adopt
    <3>2. f \in Seq(Page) /\ Pages(f) = Pages(disk)
      <4> HIDE DEF f
      <4> QED
        BY <1>2, <3>1, AdoptKeeps
    <3>3. ASSUME NEW q \in Pages(disk)
          PROVE f[q] = IF q \in Children(Top.right)
                       THEN [disk[q] EXCEPT !.parent = Top.right.self] ELSE disk[q]
      <4>1. q \in 1..Len(disk) /\ disk[q] # Hole
        BY <1>2, LenProperties DEF Pages
      <4> QED
        BY <3>1, <4>1 DEF Adopt
    <3> QED
      BY <2>2, <3>2, <3>3
  <2> QED
    BY <2>1, <2>2
<1>4. disk' = NodeFlush(NodeFlush(f, Top.left), Top.right)
  BY <1>1
<1> HIDE DEF f
<1>5. /\ Pages(disk') = Pages(disk) \cup {Top.right.self}
      /\ disk'[Top.right.self] = Top.right
      /\ disk'[Top.left.self] = Top.left
      /\ \A q \in Pages(disk) : q # Top.left.self => disk'[q] = f[q]
  BY <1>1, <1>3, <1>4, TwoWrites
<1> QED
  BY <1>3, <1>5 DEF Rewritten

(* Return writes no page past the size of the file. *)
LEMMA ReturnWithin ==
  ASSUME Calls, Rooted, Return, NEW size \in Nat, DOMAIN disk \subseteq 1..size,
         Top.left \in BptreeNode, Top.right \in BptreeNode,
         Top.left.self <= size, Top.right.self <= size, Top.left.self >= 1
  PROVE  DOMAIN disk' \subseteq 1..size
<1>1. disk' = NodeFlush(NodeFlush(IF Top.right.isLeaf THEN disk
                                  ELSE UpdateParent(disk, Top.right), Top.left), Top.right)
  BY DEF Return
<1> DEFINE f == IF Top.right.isLeaf THEN disk ELSE UpdateParent(disk, Top.right)
           g == NodeFlush(f, Top.left)
<1>2. disk \in Seq(Page) /\ Top.right.self \in Int
  BY NodeFields DEF Calls
<1>3. f \in Seq(Page) /\ DOMAIN f \subseteq 1..size
  <2>1. CASE Top.right.isLeaf
    BY <1>2, <2>1
  <2>2. CASE ~Top.right.isLeaf
    <3>1. f = Adopt(disk, Children(Top.right), Top.right.self)
      BY <2>2 DEF UpdateParent, Adopt
    <3>2. DOMAIN f = DOMAIN disk
      BY <1>2, <3>1, LenProperties DEF Adopt
    <3>3. f \in Seq(Page)
      <4> HIDE DEF f
      <4> QED
        BY <1>2, <3>1, AdoptKeeps
    <3> QED
      BY <3>2, <3>3
  <2> QED
    BY <2>1, <2>2
<1>4. disk' = NodeFlush(g, Top.right)
  BY <1>1
<1> HIDE DEF f
<1>5. g \in Seq(Page)
  BY <1>3, FlushPages
<1>6. DOMAIN g \subseteq 1..size
  BY <1>3, FlushWithin
<1> HIDE DEF g
<1> QED
  BY <1>4, <1>5, <1>6, FlushWithin

(* The stack without its innermost frame. *)
LEMMA Popped ==
  ASSUME NEW st \in Seq(Frame), NEW k, k = Len(st), k > 0
  PROVE  /\ DOMAIN st = 1..k /\ k \in Nat /\ k \in DOMAIN st
         /\ Len(Pop(st)) = k - 1 /\ DOMAIN Pop(st) = 1..k-1
         /\ \A i \in DOMAIN Pop(st) : i \in DOMAIN st /\ Pop(st)[i] = st[i]
         /\ \A q : InFrame(st, q) => InFrame(Pop(st), q) \/ q = st[k].left.self \/ q = st[k].right.self
         /\ \A q : Orphan(st, q) =>
              Orphan(Pop(st), q) \/ (~st[k].right.isLeaf /\ q \in Children(st[k].right))
<1>1. k \in Nat /\ DOMAIN st = 1..k /\ k \in 1..k
  BY LenProperties
<1>2. k - 1 \in Nat /\ \A i \in 1..k-1 : i \in 1..k
  BY <1>1
<1> DEFINE s == Pop(st)
<1>3. DOMAIN s = 1..k-1 /\ \A i \in 1..k-1 : s[i] = st[i]
  BY DEF Pop
<1>4. Len(s) = k - 1
  <2>1. s \in Seq(Frame)
    <3>1. s = [i \in 1..k-1 |-> st[i]] /\ \A i \in 1..k-1 : st[i] \in Frame
      BY <1>1, <1>2, ElementOfSeq DEF Pop
    <3> HIDE DEF s
    <3> QED
      BY <1>2, <3>1
  <2> HIDE DEF s
  <2>2. Len(s) \in Nat /\ 1..Len(s) = 1..k-1
    BY <1>3, <2>1, LenProperties
  <2> QED
    BY <1>2, <2>2
<1> HIDE DEF s
<1>5. \A i \in 1..k : i = k \/ i \in 1..k-1
  BY <1>1
<1>6. ASSUME NEW q, InFrame(st, q)
      PROVE InFrame(s, q) \/ q = st[k].left.self \/ q = st[k].right.self
  BY <1>1, <1>3, <1>5, <1>6 DEF InFrame
<1>7. ASSUME NEW q, Orphan(st, q)
      PROVE Orphan(s, q) \/ (~st[k].right.isLeaf /\ q \in Children(st[k].right))
  BY <1>1, <1>3, <1>5, <1>7 DEF Orphan
<1> QED
  BY <1>1, <1>2, <1>3, <1>4, <1>6, <1>7 DEF s

(* What a page shows after the return. *)
LEMMA ReturnShows ==
  ASSUME Calls, Rooted, Tall, Return,
         NEW W, NEW rank, NEW route, UnwindAt(W, rank, route)
  PROVE  Shows(W, disk', stack') /\ DOMAIN disk' \subseteq 1..mem.size
<1>1. PICK l, r, k : l = Top.left /\ r = Top.right /\ k = Len(stack)
  OBVIOUS
<1>2. /\ pc = "unwind" /\ stack' = Pop(stack)
  BY DEF Return
<1>3. Rewritten(disk', disk, l, r)
  BY <1>1, ReturnPages
<1>4. /\ Whole(W, mem.root, mem.size, rank, route) /\ Framed(W, stack)
      /\ \A q \in DOMAIN W : InFrame(stack, q) \/ Shown(W, disk, stack, q)
      /\ DOMAIN disk \subseteq 1..mem.size
  BY DEF UnwindAt, Shows
<1>5. stack \in Seq(Frame) /\ k > 0 /\ stack[k].left = l /\ stack[k].right = r /\ Top = stack[k]
  <2>1. Len(stack) > 0
    BY <1>2, OuterFrame
  <2> QED
    BY <1>1, <2>1 DEF Top, Rooted, IInv, StackOK
<1>6. /\ k \in Nat /\ k \in DOMAIN stack
      /\ \A i \in DOMAIN stack' : i \in DOMAIN stack /\ stack'[i] = stack[i]
      /\ \A q : InFrame(stack, q) => InFrame(stack', q) \/ q = l.self \/ q = r.self
      /\ \A q : Orphan(stack, q) => Orphan(stack', q) \/ (~r.isLeaf /\ q \in Children(r))
  BY <1>1, <1>2, <1>5, Popped
<1>7. /\ l.self \in DOMAIN W /\ W[l.self] = l /\ r.self \in DOMAIN W /\ W[r.self] = r
  BY <1>4, <1>5, <1>6 DEF Framed
<1>8. /\ Tree(W, mem.root, rank) /\ DOMAIN W = 1..mem.size /\ mem.size \in Nat
  BY <1>4 DEF Whole
<1>9. /\ l \in BptreeNode /\ r \in BptreeNode /\ r.self \in Int
      /\ l.self <= mem.size /\ r.self <= mem.size /\ l.self >= 1
      /\ \A q \in DOMAIN W : W[q] \in BptreeNode
  <2>1. \A q \in DOMAIN W : W[q] \in BptreeNode
    BY <1>8 DEF Tree, Proper
  <2>2. l.self \in 1..mem.size /\ r.self \in 1..mem.size
    BY <1>7, <1>8
  <2> QED
    BY <1>7, <1>8, <2>1, <2>2
<1>10. DOMAIN disk' \subseteq 1..mem.size
  BY <1>1, <1>4, <1>8, <1>9, ReturnWithin
<1>11. Framed(W, stack')
  BY <1>4, <1>6 DEF Framed
<1>12. ASSUME NEW q \in DOMAIN W, ~InFrame(stack', q) PROVE Shown(W, disk', stack', q)
  <2>1. CASE q = l.self \/ q = r.self
    <3>1. disk'[q] = W[q] /\ q \in Pages(disk')
      <4>1. Top.left.self \in Pages(disk)
        BY ReturnWrites
      <4> QED
        BY <1>1, <1>3, <1>7, <2>1, <4>1 DEF Rewritten
    <3>2. q \in DOMAIN disk'
      BY <3>1 DEF Pages
    <3> QED
      BY <1>9, <3>1, <3>2, ShownAsIs
  <2>2. CASE q # l.self /\ q # r.self
    <3>1. ~InFrame(stack, q)
      BY <1>6, <1>12, <2>2
    <3>2. Shown(W, disk, stack, q)
      BY <1>4, <3>1
    <3>3. q \in Pages(disk) /\ q \in Pages(disk') /\ q \in DOMAIN disk'
      BY <1>3, <3>2 DEF Shown, Rewritten, Pages
    <3>4. CASE ~r.isLeaf /\ q \in Children(r)
      <4>1. disk'[q] = [disk[q] EXCEPT !.parent = r.self]
        BY <1>3, <2>2, <3>3, <3>4 DEF Rewritten
      <4>2. W[q].parent = r.self
        <5>1. Pointed(W, mem.root, rank, r.self)
          BY <1>7, <1>8 DEF Tree
        <5> QED
          BY <1>7, <3>4, <5>1 DEF Pointed, Children
      <4>3. disk'[q] = W[q]
        BY <3>2, <4>1, <4>2 DEF Shown
      <4> QED
        BY <1>9, <3>3, <4>3, ShownAsIs
    <3>5. CASE ~(~r.isLeaf /\ q \in Children(r))
      <4>1. disk'[q] = disk[q]
        BY <1>3, <2>2, <3>3, <3>5 DEF Rewritten
      <4>2. Orphan(stack, q) => Orphan(stack', q)
        BY <1>6, <3>5
      <4> QED
        BY <3>2, <3>3, <4>1, <4>2 DEF Shown
    <3> QED
      BY <3>4, <3>5
  <2> QED
    BY <2>1, <2>2
<1> QED
  BY <1>10, <1>11, <1>12 DEF Shows

(* The last return leaves the whole tree in the file. *)
LEMMA ReturnTall == ASSUME Calls, Rooted, Tall, Return PROVE Tall'
<1>1. /\ pc = "unwind" /\ stack' = Pop(stack) /\ mem' = mem /\ live' = live
      /\ pc' = IF Len(stack) = 1 THEN "flush" ELSE "unwind"
  BY DEF Return, ghost
<1>2. PICK W, rank, route : UnwindAt(W, rank, route)
  BY <1>1 DEF Tall
<1>3. /\ Whole(W, mem.root, mem.size, rank, route) /\ Stored(W, live)
      /\ Shows(W, disk', stack') /\ DOMAIN disk' \subseteq 1..mem.size
  BY <1>2, ReturnShows DEF UnwindAt
<1>4. CASE Len(stack) # 1
  <2>1. pc' = "unwind"
    BY <1>1, <1>4
  <2>2. UnwindAt(W, rank, route)'
    BY <1>1, <1>3 DEF UnwindAt
  <2> QED
    BY <2>1, <2>2 DEF Tall
<1>5. CASE Len(stack) = 1
  <2>1. pc' = "flush"
    BY <1>1, <1>5
  <2>2. DOMAIN stack' = {}
    <3>1. DOMAIN stack' = 1..0
      BY <1>1, <1>5 DEF Pop
    <3> QED
      BY <3>1
  <2>3. \A q \in DOMAIN W : q \in DOMAIN disk' /\ disk'[q] = W[q]
    BY <1>3, <2>2 DEF Shows, Shown, InFrame, Orphan, Pages
  <2>4. DOMAIN disk' = DOMAIN W
    BY <1>3, <2>3 DEF Whole
  <2>5. PICK g : g = disk'
    OBVIOUS
  <2>6. Whole(g, mem.root, mem.size, rank, route) /\ Stored(g, live)
    <3>1. DOMAIN g = DOMAIN W /\ \A q \in DOMAIN W : g[q] = W[q]
      BY <2>3, <2>4, <2>5
    <3> QED
      BY <1>3, <3>1, SamePages
  <2>7. Planted(mem.root, mem.size, live)'
    BY <1>1, <2>5, <2>6 DEF Planted
  <2> QED
    BY <2>1, <2>7 DEF Tall
<1> QED
  BY <1>4, <1>5

-----------------------------------------------------------------------------
(* The header is written, a search reads: the pages stay as they are. *)
LEMMA FlushTall == ASSUME Calls, Rooted, Tall, BptreeFlush PROVE Tall'
<1>1. /\ pc = "flush" /\ pc' = "idle" /\ hdr' = mem
      /\ UNCHANGED <<mem, disk, arg, at, stack, inserted, live>>
  BY DEF BptreeFlush, ghost
<1>2. Durable' = inserted /\ live \subseteq inserted
  <2>1. live \subseteq inserted
    BY DEF Calls
  <2> QED
    BY <1>1, <2>1 DEF Durable, Pending
<1>3. Planted(mem.root, mem.size, live)
  BY <1>1 DEF Tall
<1>4. live' \cap Durable' = live
  BY <1>1, <1>2
<1>5. Planted(hdr.root, hdr.size, live \cap Durable)'
  BY <1>1, <1>3, <1>4 DEF Planted
<1> QED
  BY <1>1, <1>5 DEF Tall

(* A search changes nothing the tree is made of. *)
LEMMA SearchTall == ASSUME Calls, Rooted, Tall, SearchLeaf PROVE Tall'
<1>1. /\ pc = "seek" /\ pc' = "idle"
      /\ UNCHANGED <<hdr, mem, disk, arg, at, stack, inserted, live>>
  BY DEF SearchLeaf, AtLeaf, file
<1>2. Durable' = inserted /\ live \subseteq inserted /\ Durable \subseteq inserted
      /\ arg.op # "insert"
  BY <1>1 DEF Calls, Durable, Pending, SearchLeaf, AtLeaf
<1>3. Durable = inserted
  BY <1>1, <1>2 DEF Durable, Pending
<1>4. Planted(hdr.root, hdr.size, live \cap Durable)
  BY <1>1 DEF Tall
<1>5. Planted(hdr.root, hdr.size, live \cap Durable)'
  BY <1>1, <1>2, <1>3, <1>4 DEF Planted
<1> QED
  BY <1>1, <1>5 DEF Tall

(* Deleted entries stay where they are; what is live is not marked. *)
LEMMA MarkedClear ==
  ASSUME NEW node, Proper(node), NEW k, NEW L, Clear(node, L),
         NEW m, m = Marked(node, Own(node, k)), NEW K, K = {e \in L : e[1] # k}
  PROVE  /\ Proper(m) /\ m.self = node.self /\ m.isLeaf = node.isLeaf /\ m.parent = node.parent
         /\ KeysOf(m) = KeysOf(node) /\ Clear(m, K)
<1>1. node \in BptreeNode /\ node.size \in Nat /\ node.size <= M
  BY ProperFields DEF Proper
<1>2. /\ m \in BptreeNode /\ m.self = node.self /\ m.isLeaf = node.isLeaf /\ m.parent = node.parent
      /\ m.size = node.size /\ m.key = node.key /\ m.dat = node.dat
      /\ \A i \in 0..M-1 : m.del[i] = (node.del[i] \/ i \in Own(node, k))
  <2> DEFINE d == [i \in 0..M-1 |-> node.del[i] \/ i \in Own(node, k)]
  <2>1. m = [node EXCEPT !.del = d]
    BY <1>1 DEF Marked, BptreeNode
  <2>2. d \in [0..M-1 -> BOOLEAN] /\ \A i \in 0..M-1 : d[i] = (node.del[i] \/ i \in Own(node, k))
    BY <1>1 DEF BptreeNode
  <2> HIDE DEF d
  <2>3. m \in BptreeNode /\ m.del = d
    BY <1>1, <2>1, <2>2 DEF BptreeNode
  <2>4. /\ m.self = node.self /\ m.isLeaf = node.isLeaf /\ m.parent = node.parent
        /\ m.size = node.size /\ m.key = node.key /\ m.dat = node.dat
    BY <1>1, <2>1 DEF BptreeNode
  <2> QED
    BY <2>2, <2>3, <2>4
<1>3. Proper(m) /\ KeysOf(m) = KeysOf(node)
  BY <1>2 DEF Proper, KeysOf, Initialised, Strict
<1>4. ASSUME NEW i \in 0..m.size-1, <<m.key[i], m.dat[i]>> \in K PROVE ~m.del[i]
  <2>1. i \in 0..node.size-1 /\ i \in 0..M-1
    <3>1. i \in 0..node.size-1
      BY <1>2
    <3> QED
      BY <1>1, <3>1, OrderAssumption
  <2>2. <<node.key[i], node.dat[i]>> \in L /\ node.key[i] # k
    BY <1>2, <1>4
  <2>3. ~node.del[i] /\ i \notin Own(node, k)
    BY <2>1, <2>2 DEF Clear, Own
  <2> QED
    BY <1>2, <2>1, <2>3
<1> QED
  BY <1>2, <1>3, <1>4 DEF Clear

(* A deletion marks rows of its key alone. *)
LEMMA DeleteTall == ASSUME Calls, Rooted, Tall, DeleteLeaf PROVE Tall'
<1> DEFINE node == disk[at]
           m == Marked(node, Own(node, arg.key))
<1>1. /\ pc = "seek" /\ pc' = "idle" /\ disk[at].isLeaf
      /\ live' = {e \in live : e[1] # arg.key} /\ arg.op # "insert"
      /\ UNCHANGED <<hdr, mem, arg, at, stack, inserted>>
  BY DEF DeleteLeaf, AtLeaf
<1>2. /\ hdr = mem /\ at \in Pages(disk) /\ disk \in Seq(Page) /\ arg.key \in Int
      /\ node \in BptreeNode /\ Initialised(node) /\ Sorted(node) /\ node.self = at
  BY <1>1, RootedAt, PageFacts, EntryTyped DEF Rooted, Headers
<1>3. disk' = NodeFlush(disk, m)
  <2> DEFINE k == arg.key
             x == GetIndex(node, k)
             hit == {i_1 \in 0..x-1 : /\ \A j \in i_1..x-1 : node.key[j] >= k
                                      /\ node.key[i_1] = k
                                      /\ ~node.del[i_1]}
  <2>1. disk' = NodeFlush(disk, Marked(node, hit))
    BY DEF DeleteLeaf
  <2>2. hit = Own(node, k)
    <3>1. node \in BptreeNode /\ Initialised(node) /\ Sorted(node) /\ k \in Int
      BY <1>2
    <3>2. x = GetIndex(node, k)
      OBVIOUS
    <3> HIDE DEF node, k, x
    <3> QED
      BY <3>1, <3>2, HitsOwn
  <2> QED
    BY <2>1, <2>2
<1>4. PICK rank, route : SeekAt(rank, route)
  BY <1>1 DEF Tall
<1>5. /\ Whole(disk, mem.root, mem.size, rank, route) /\ Stored(disk, live) /\ at \in DOMAIN disk
  BY <1>4 DEF SeekAt
<1>6. Proper(node) /\ Clear(node, live)
  BY <1>1, <1>5 DEF Whole, Tree, Stored
<1> HIDE DEF node
<1>7. /\ Proper(m) /\ m.self = at /\ m.isLeaf = node.isLeaf /\ m.parent = node.parent
      /\ KeysOf(m) = KeysOf(node) /\ Clear(m, live')
  <2> HIDE DEF m
  <2>1. m = Marked(node, Own(node, arg.key)) /\ live' = {e \in live : e[1] # arg.key}
    BY <1>1 DEF m
  <2> QED
    BY <1>2, <1>6, <2>1, MarkedClear
<1> HIDE DEF m
<1>8. PICK g : g = disk'
  OBVIOUS
<1>9. DOMAIN g = DOMAIN disk /\ g[at] = m /\ \A q \in DOMAIN disk \ {at} : g[q] = disk[q]
  <2>1. m.self \in DOMAIN disk /\ m \in BptreeNode
    BY <1>5, <1>7 DEF Proper
  <2> QED
    BY <1>2, <1>3, <1>7, <1>8, <2>1, FlushInside
<1>10. Whole(g, mem.root, mem.size, rank, route)
  <2>1. /\ at \in DOMAIN disk /\ disk[at].isLeaf /\ g[at].isLeaf /\ Proper(g[at])
        /\ g[at].self = at /\ g[at].parent = disk[at].parent
        /\ \A w \in KeysOf(g[at]) \ KeysOf(disk[at]) : route[w][0] = at
    BY <1>1, <1>5, <1>7, <1>9 DEF node
  <2> QED
    BY ONLY <1>5, <1>9, <2>1, SameTree
<1>11. Stored(g, live')
  <2>1. \A q \in DOMAIN g : g[q].isLeaf = disk[q].isLeaf /\ KeysOf(g[q]) = KeysOf(disk[q])
    BY <1>7, <1>9 DEF node
  <2>2. \A q \in DOMAIN disk \ {at} : disk[q].isLeaf => Clear(disk[q], live')
    BY <1>1, <1>5 DEF Stored, Clear
  <2>3. \A q \in DOMAIN g : g[q].isLeaf => Clear(g[q], live')
    BY <1>7, <1>9, <2>2
  <2>4. Apart(g)
    BY <1>5, <1>9, <2>1 DEF Stored, Apart
  <2> QED
    BY <2>3, <2>4 DEF Stored
<1>12. live' \cap Durable' = live'
  <2>1. live \subseteq inserted /\ live' \subseteq live
    BY <1>1 DEF Calls
  <2>2. Durable' = inserted
    BY <1>1 DEF Durable, Pending
  <2> QED
    BY <2>1, <2>2
<1>13. Planted(hdr.root, hdr.size, live \cap Durable)'
  BY <1>1, <1>2, <1>8, <1>10, <1>11, <1>12 DEF Planted
<1> QED
  BY <1>1, <1>13 DEF Tall

(* The first entry makes a tree of one leaf. *)
LEMMA FirstTall == ASSUME Calls, Rootless, InsertFirst PROVE Tall'
<1> DEFINE root == FirstRoot(1, arg.key, arg.dat)
<1>1. /\ pc = "seek" /\ pc' = "flush" /\ arg.op = "insert"
      /\ mem' = [root |-> 1, size |-> 1]
      /\ disk' = NodeFlush(disk, root) /\ live' = {Entry}
  BY DEF InsertFirst, Inserted, Rootless, Entry, Empty
<1>2. disk \in Seq(Page) /\ Len(disk) <= 1 /\ Len(disk) \in Nat /\ arg.key \in Int /\ arg.dat \in Int
  BY LenProperties DEF Calls, Rootless, Arg
<1>3. root \in BptreeNode /\ Initialised(root) /\ root.self = 1 /\ root.parent = NODE_EOF
  <2>1. /\ Entry \in {Entry} /\ Entry = <<arg.key, arg.dat>>
        /\ arg.key \in Int /\ arg.dat \in Int /\ 1 \in Nat
    BY <1>2 DEF Entry
  <2>2. Good(root, {Entry}) /\ root.self = 1 /\ root.parent = NODE_EOF
    BY <2>1, FirstRootNode
  <2> HIDE DEF root
  <2> QED
    BY <2>2 DEF Good
<1>4. root.isLeaf /\ root.size = 1 /\ root.del[0] = FALSE
  BY OrderAssumption DEF FirstRoot, NewBptreeNode
<1> HIDE DEF root
<1>5. Proper(root)
  <2>1. Strict(root)
    BY <1>4 DEF Strict
  <2> QED
    BY <1>3, <2>1 DEF Proper
<1>6. PICK g : g = disk'
  OBVIOUS
<1>7. DOMAIN g = {1} /\ g[1] = root
  <2>1. g = [p \in 1..1 |-> IF p = 1 THEN root ELSE IF p <= Len(disk) THEN disk[p] ELSE Hole]
    BY <1>1, <1>2, <1>3, <1>6 DEF NodeFlush
  <2>2. 1..1 = {1}
    OBVIOUS
  <2> QED
    BY <2>1, <2>2
<1>8. Whole(g, 1, 1, [q \in Nat |-> 0], [x \in Int |-> [r \in Nat |-> 1]])
  BY <1>3, <1>4, <1>5, <1>7, OneLeaf
<1>9. Stored(g, live')
  <2>1. Clear(root, live')
    BY <1>4 DEF Clear
  <2> QED
    BY <1>7, <2>1 DEF Stored, Apart
<1>10. Planted(mem.root, mem.size, live)'
  <2>1. mem'.root = 1 /\ mem'.size = 1
    BY <1>1
  <2> QED
    BY <1>6, <1>8, <1>9, <2>1 DEF Planted
<1> QED
  BY <1>1, <1>10 DEF Tall

-----------------------------------------------------------------------------
(* Every step of a call keeps the tree, in the file or in the making. *)
LEMMA RootedTall ==
  ASSUME UniqueKeys, Calls, Rooted, Tall, Start \/ Step
  PROVE  Tall'
<1>1. ~InsertFirst /\ ~NotFound
  BY RootedAt DEF InsertFirst, NotFound
<1>2. CASE InsertIntoLeafNode
  BY <1>2, EnterTall, SplitLeafTall
<1> QED
  BY <1>1, <1>2, StartTall, DescendTall, NewRootTall, IntoNodeTall, SplitNodeTall,
     ReturnTall, FlushTall, SearchTall, DeleteTall DEF Step

-----------------------------------------------------------------------------
(* The file between calls: all its pages are pages of the tree. *)
LEMMA WholePages ==
  ASSUME disk \in Seq(Page), NEW rank, NEW route,
         Whole(disk, mem.root, mem.size, rank, route)
  PROVE  /\ Written = DOMAIN disk /\ Len(disk) = mem.size /\ mem.size \in Nat
         /\ Internal = {p \in DOMAIN disk : ~disk[p].isLeaf}
         /\ Tree(disk, mem.root, rank)
         /\ rank[mem.root] \in Nat /\ rank[mem.root] < mem.size
         /\ \A p \in DOMAIN disk : rank[p] \in Nat /\ (p = mem.root <=> rank[p] = rank[mem.root])
         /\ \A p \in DOMAIN disk : rank[p] <= rank[mem.root]
<1>1. /\ Tree(disk, mem.root, rank) /\ DOMAIN disk = 1..mem.size /\ mem.size \in Nat
      /\ rank[mem.root] < mem.size /\ \A p \in DOMAIN disk : rank[p] <= rank[mem.root]
  BY DEF Whole
<1>2. \A p \in DOMAIN disk : /\ disk[p] \in BptreeNode /\ disk[p] # Hole /\ rank[p] \in Nat
                             /\ Pointed(disk, mem.root, rank, p) /\ (p # mem.root => Hung(disk, p))
  BY <1>1, HoleAssumption DEF Tree, Proper
<1>3. Len(disk) = mem.size
  <2>1. Len(disk) \in Nat /\ DOMAIN disk = 1..Len(disk)
    BY LenProperties
  <2> QED
    BY <1>1, <2>1
<1>4. mem.root \in DOMAIN disk
  BY <1>1 DEF Tree
<1>5. ASSUME NEW p \in DOMAIN disk, rank[p] = rank[mem.root] PROVE p = mem.root
  <2> SUFFICES ASSUME p # mem.root PROVE FALSE
    OBVIOUS
  <2>1. Hung(disk, p)
    BY <1>2
  <2>2. PICK P, i : P = disk[p].parent /\ i \in 0..disk[P].size /\ disk[P].dat[i] = p
    BY <2>1 DEF Hung
  <2>3. P \in DOMAIN disk /\ ~disk[P].isLeaf
    BY <2>1, <2>2 DEF Hung
  <2>4. rank[P] = rank[p] + 1
    BY <1>2, <2>2, <2>3 DEF Pointed
  <2>5. rank[P] <= rank[mem.root] /\ rank[P] \in Nat /\ rank[p] \in Nat
    BY <1>1, <1>2, <2>3
  <2> QED
    BY <1>5, <2>4, <2>5
<1> QED
  BY <1>1, <1>2, <1>3, <1>4, <1>5 DEF Written, Internal

(* The parent of a page, and the one slot that has the page. *)
LEMMA OneSlot ==
  ASSUME disk \in Seq(Page), NEW rank, NEW route,
         Whole(disk, mem.root, mem.size, rank, route), NEW p \in DOMAIN disk \ {mem.root}
  PROVE  \E s \in Slots(p) : Slots(p) = {s} /\ disk[p].parent = s[1]
<1>1. /\ Internal = {q \in DOMAIN disk : ~disk[q].isLeaf} /\ Tree(disk, mem.root, rank)
  BY WholePages
<1>2. \A q \in DOMAIN disk : /\ disk[q] \in BptreeNode /\ Pointed(disk, mem.root, rank, q)
                             /\ (q # mem.root => Hung(disk, q))
  BY <1>1 DEF Tree, Proper
<1>3. PICK P, i : P = disk[p].parent /\ i \in 0..disk[P].size /\ disk[P].dat[i] = p
  BY <1>2 DEF Hung
<1>4. P \in Internal /\ P \in DOMAIN disk /\ ~disk[P].isLeaf
  BY <1>1, <1>2, <1>3 DEF Hung
<1>5. i \in 0..M /\ i <= disk[P].size
  <2>1. disk[P].size \in 0..M
    BY <1>2, <1>4 DEF BptreeNode
  <2> QED
    BY <1>3, <2>1, OrderAssumption
<1>6. <<P, i>> \in Slots(p)
  BY <1>3, <1>4, <1>5 DEF Slots
<1>7. ASSUME NEW t \in Slots(p) PROVE t = <<P, i>>
  <2>1. PICK Q \in Internal, j \in 0..M : t = <<Q, j>>
    BY DEF Slots
  <2>2. j <= disk[Q].size /\ disk[Q].dat[j] = p
    BY <2>1 DEF Slots
  <2>3. Q \in DOMAIN disk /\ ~disk[Q].isLeaf
    BY <1>1
  <2>4. j \in 0..disk[Q].size
    <3>1. disk[Q].size \in Int
      BY <1>2, <2>3, NodeFields
    <3> QED
      BY <2>2, <3>1
  <2>5. Q = P
    BY <1>2, <1>3, <2>2, <2>3, <2>4 DEF Pointed
  <2>6. j = i
    BY <1>2, <1>3, <1>4, <2>2, <2>4, <2>5 DEF Pointed
  <2> QED
    BY <2>1, <2>5, <2>6
<1>8. Slots(p) = {<<P, i>>}
  BY <1>6, <1>7
<1> QED
  BY <1>3, <1>6, <1>8

(* Each level of the tree has the pages of one rank. *)
Layer(rank, n) == {p \in DOMAIN disk : rank[p] + n = rank[mem.root]}

(* The next layer has the children of this one. *)
LEMMA LayerBelow ==
  ASSUME disk \in Seq(Page), NEW rank, NEW route,
         Whole(disk, mem.root, mem.size, rank, route), NEW n \in Nat
  PROVE  Layer(rank, n + 1) = UNION {Children(disk[p]) : p \in Layer(rank, n) \cap Internal}
<1>1. /\ Internal = {q \in DOMAIN disk : ~disk[q].isLeaf} /\ Tree(disk, mem.root, rank)
      /\ rank[mem.root] \in Nat
      /\ \A p \in DOMAIN disk : rank[p] \in Nat /\ (p = mem.root <=> rank[p] = rank[mem.root])
  BY WholePages
<1>2. \A q \in DOMAIN disk : Pointed(disk, mem.root, rank, q) /\ (q # mem.root => Hung(disk, q))
  BY <1>1 DEF Tree
<1>3. ASSUME NEW p \in Layer(rank, n + 1)
      PROVE  \E P \in Layer(rank, n) \cap Internal : p \in Children(disk[P])
  <2>1. p \in DOMAIN disk /\ rank[p] + (n + 1) = rank[mem.root] /\ rank[p] \in Nat
    BY <1>1 DEF Layer
  <2>2. p # mem.root
    BY <1>1, <2>1
  <2>3. PICK P, i : P = disk[p].parent /\ i \in 0..disk[P].size /\ disk[P].dat[i] = p
    BY <1>2, <2>1, <2>2 DEF Hung
  <2>4. P \in DOMAIN disk /\ ~disk[P].isLeaf
    BY <1>2, <2>1, <2>2, <2>3 DEF Hung
  <2>5. rank[P] = rank[p] + 1
    BY <1>2, <2>3, <2>4 DEF Pointed
  <2>6. rank[P] + n = rank[mem.root]
    BY <2>1, <2>5
  <2> QED
    BY <1>1, <2>3, <2>4, <2>6 DEF Layer, Children
<1>4. ASSUME NEW P \in Layer(rank, n) \cap Internal, NEW p \in Children(disk[P])
      PROVE  p \in Layer(rank, n + 1)
  <2>1. P \in DOMAIN disk /\ ~disk[P].isLeaf /\ rank[P] + n = rank[mem.root]
    BY <1>1 DEF Layer
  <2>2. p \in DOMAIN disk /\ rank[P] = rank[p] + 1
    BY <1>2, <2>1 DEF Pointed, Children
  <2>3. rank[p] \in Nat
    BY <1>1, <2>2
  <2>4. rank[p] + (n + 1) = rank[mem.root]
    BY <2>1, <2>2, <2>3
  <2> QED
    BY <2>2, <2>4 DEF Layer
<1> QED
  BY <1>3, <1>4

(* So the levels that TreeWhole counts are the layers. *)
LEMMA LevelIs ==
  ASSUME disk \in Seq(Page), NEW rank, NEW route,
         Whole(disk, mem.root, mem.size, rank, route)
  PROVE  \A n \in Nat : Level[n] = Layer(rank, n)
<1> DEFINE Body(f) == [n \in Nat |-> IF n = 0 THEN {mem.root}
                        ELSE UNION {Children(disk[p]) : p \in f[n - 1] \cap Internal}]
           L == [n \in Nat |-> Layer(rank, n)]
<1>1. Layer(rank, 0) = {mem.root}
  <2>1. /\ rank[mem.root] \in Nat /\ mem.root \in DOMAIN disk
        /\ \A p \in DOMAIN disk : rank[p] \in Nat /\ (p = mem.root <=> rank[p] = rank[mem.root])
    BY WholePages DEF Tree
  <2> QED
    BY <2>1 DEF Layer
<1>2. ASSUME NEW n \in Nat, n # 0
      PROVE  Layer(rank, n) = UNION {Children(disk[p]) : p \in Layer(rank, n - 1) \cap Internal}
  <2>1. PICK m \in Nat : m = n - 1 /\ n = m + 1
    <3>1. n - 1 \in Nat /\ n = (n - 1) + 1
      BY <1>2
    <3> QED
      BY <3>1
  <2>2. Layer(rank, m + 1) = UNION {Children(disk[p]) : p \in Layer(rank, m) \cap Internal}
    BY LayerBelow
  <2> QED
    BY <2>1, <2>2
<1>3. L = Body(L)
  <2>1. ASSUME NEW n \in Nat PROVE L[n] = Body(L)[n]
    <3>1. n # 0 => n - 1 \in Nat
      OBVIOUS
    <3>2. n # 0 => L[n - 1] = Layer(rank, n - 1)
      BY <3>1
    <3> QED
      BY <1>1, <1>2, <3>2
  <2> QED
    BY <2>1
<1>4. Level = CHOOSE f : f = Body(f)
  BY DEF Level
<1>5. Level = Body(Level)
  BY <1>3, <1>4
<1>6. Level[0] = {mem.root}
  BY <1>5
<1>7. \A n \in Nat : Level[n + 1] = UNION {Children(disk[p]) : p \in Level[n] \cap Internal}
  <2> SUFFICES ASSUME NEW n \in Nat
               PROVE  Level[n + 1] = UNION {Children(disk[p]) : p \in Level[n] \cap Internal}
    OBVIOUS
  <2>1. n + 1 \in Nat /\ n + 1 # 0 /\ (n + 1) - 1 = n
    OBVIOUS
  <2> QED
    BY <1>5, <2>1
<1> HIDE DEF Body, L
<1> DEFINE T == {n \in Nat : Level[n] = Layer(rank, n)}
<1>8. 0 \in T
  BY <1>1, <1>6
<1>9. ASSUME NEW n \in Nat, n \in T PROVE n + 1 \in T
  <2>1. Level[n] = Layer(rank, n)
    BY <1>9
  <2>2. Level[n + 1] = Layer(rank, n + 1)
    BY <1>7, <2>1, LayerBelow
  <2> QED
    BY <2>2
<1>10. \A n \in Nat : n \in T
  <2> HIDE DEF T
  <2> QED
    BY <1>8, <1>9, SetInduction
<1> QED
  BY <1>10

(* The height of the file is one more than the rank of its root. *)
LEMMA HeightIs ==
  ASSUME disk \in Seq(Page), NEW rank, NEW route,
         Whole(disk, mem.root, mem.size, rank, route)
  PROVE  Height = rank[mem.root] + 1
<1>1. PICK R : R = rank[mem.root]
  OBVIOUS
<1>2. /\ Len(disk) = mem.size /\ mem.size \in Nat /\ R \in Nat /\ R < mem.size
      /\ \A p \in DOMAIN disk : rank[p] \in Nat
  BY <1>1, WholePages
<1>3. \A n \in Nat : Level[n] = {p \in DOMAIN disk : rank[p] + n = R}
  BY <1>1, LevelIs DEF Layer
<1>4. ASSUME NEW n \in Nat PROVE Level[n] # {} <=> n <= R
  <2>1. ASSUME n <= R PROVE Level[n] # {}
    <3>1. PICK r : r = R - n /\ r \in 0..R /\ r + n = R
      BY <1>2, <2>1
    <3>2. Routed(disk, mem.root, rank, route)
      BY DEF Whole
    <3>3. PICK x \in Int : x = 0
      OBVIOUS
    <3>4. r \in 0..rank[mem.root]
      BY <1>1, <3>1
    <3>5. route[x][r] \in DOMAIN disk /\ rank[route[x][r]] = r
      BY <3>2, <3>4 DEF Routed
    <3> QED
      BY <1>3, <3>1, <3>5
  <2>2. ASSUME Level[n] # {} PROVE n <= R
    <3>1. PICK p \in DOMAIN disk : rank[p] + n = R
      BY <1>3, <2>2
    <3> QED
      BY <1>2, <3>1
  <2> QED
    BY <2>1, <2>2
<1>5. /\ R + 1 \in 1..Len(disk) /\ R + 1 \in Nat /\ (R + 1) - 1 = R
  BY <1>2
<1>6. Level[R + 1] = {} /\ Level[(R + 1) - 1] # {}
  BY <1>2, <1>4, <1>5
<1>7. ASSUME NEW n \in 1..Len(disk), Level[n] = {}, Level[n - 1] # {} PROVE n = R + 1
  <2>1. n \in Nat /\ n - 1 \in Nat
    BY <1>2
  <2>2. ~(n <= R) /\ n - 1 <= R
    BY <1>4, <1>7, <2>1
  <2> QED
    BY <1>2, <2>1, <2>2
<1>8. Height = R + 1
  BY <1>5, <1>6, <1>7 DEF Height
<1> QED
  BY <1>1, <1>8

(***************************************************************************)
(* Between calls the file has all pages that were allocated, each in one   *)
(* slot of its parent, all leaves at one depth, every entry in one slot.   *)
(***************************************************************************)
LEMMA WholeTree ==
  ASSUME Calls, Rooted, Tall
  PROVE  TreeWhole
<1> SUFFICES ASSUME pc = "idle" PROVE TreeWhole
  BY DEF TreeWhole, ParentLinks, Balanced, NoPageLost, NothingLost
<1>1. hdr = mem /\ disk \in Seq(Page)
  BY DEF Rooted, Headers, Calls
<1>2. PICK rank, route : Whole(disk, mem.root, mem.size, rank, route) /\ Stored(disk, live \cap Durable)
  BY <1>1 DEF Tall, Planted
<1>3. /\ Written = DOMAIN disk /\ Len(disk) = mem.size /\ Internal = {p \in DOMAIN disk : ~disk[p].isLeaf}
      /\ Tree(disk, mem.root, rank) /\ rank[mem.root] \in Nat
      /\ \A p \in DOMAIN disk : rank[p] \in Nat
      /\ \A p \in DOMAIN disk : rank[p] <= rank[mem.root]
  BY <1>1, <1>2, WholePages
<1>4. ParentLinks
  <2>1. mem.root \in Written /\ disk[mem.root].parent = NODE_EOF
    BY <1>3 DEF Tree
  <2>2. \A p \in DOMAIN disk \ {mem.root} : \E s \in Slots(p) : Slots(p) = {s} /\ disk[p].parent = s[1]
    BY <1>1, <1>2, OneSlot
  <2> QED
    BY <2>1, <2>2 DEF ParentLinks
<1>5. PICK R : R = rank[mem.root] /\ R \in Nat /\ Height = R + 1
  BY <1>1, <1>2, <1>3, HeightIs
<1>6. \A n \in Nat : Level[n] = {p \in DOMAIN disk : rank[p] + n = R}
  BY <1>1, <1>2, <1>5, LevelIs DEF Layer
<1>7. Balanced
  <2>1. ASSUME NEW n \in 0..Height-2, NEW p \in Level[n] PROVE p \in Internal
    <3>1. n \in Nat /\ n < R
      BY <1>5
    <3>2. p \in DOMAIN disk /\ rank[p] + n = R
      BY <1>6, <3>1
    <3>3. rank[p] # 0
      BY <1>5, <3>1, <3>2
    <3> QED
      BY <1>3, <3>2, <3>3 DEF Tree
  <2> QED
    BY <2>1 DEF Balanced
<1>8. NoPageLost
  <2>1. ASSUME NEW p \in DOMAIN disk PROVE \E n \in 0..Height-1 : p \in Level[n]
    <3>1. PICK n \in 0..R : rank[p] + n = R
      <4>1. rank[p] \in Nat /\ rank[p] <= R
        BY <1>3, <1>5
      <4>2. R - rank[p] \in 0..R /\ rank[p] + (R - rank[p]) = R
        BY <1>5, <4>1
      <4> QED
        BY <4>2
    <3>2. n \in Nat /\ n \in 0..Height-1
      BY <1>5
    <3> QED
      BY <1>6, <3>1, <3>2
  <2>2. ASSUME NEW n \in 0..Height-1 PROVE Level[n] \subseteq DOMAIN disk
    <3>1. n \in Nat
      BY <1>5
    <3> QED
      BY <1>6, <3>1
  <2>3. DOMAIN disk = UNION {Level[n] : n \in 0..Height-1}
    BY <2>1, <2>2
  <2> QED
    BY <1>1, <1>3, <2>3 DEF NoPageLost
<1>9. NothingLost
  <2> SUFFICES ASSUME NEW e \in inserted
               PROVE  \E s \in EntrySlots :
                        {t \in EntrySlots : <<disk[t[1]].key[t[2]], disk[t[1]].dat[t[2]]>> = e} = {s}
    BY DEF NothingLost
  <2>1. e = <<e[1], e[2]>>
    BY EntriesAssumption DEF Calls
  <2>2. PICK p \in Pages(disk) : disk[p].isLeaf /\ Holds(disk[p], e)
    BY DEF Rooted, AllHeld, Held
  <2>3. PICK i \in 0..disk[p].size-1 : disk[p].key[i] = e[1] /\ disk[p].dat[i] = e[2]
    BY <2>2 DEF Holds, HasEntry
  <2>4. \A q \in DOMAIN disk : /\ Proper(disk[q]) /\ disk[q].size \in Nat /\ disk[q].size <= M
    BY <1>3, ProperFields DEF Tree
  <2>5. p \in DOMAIN disk /\ p \in Written \ Internal /\ i \in 0..M-1 /\ i < disk[p].size
    <3>1. p \in DOMAIN disk
      BY DEF Pages
    <3>2. disk[p].size \in Nat /\ disk[p].size <= M
      BY <2>4, <3>1
    <3>3. i \in 0..M-1 /\ i < disk[p].size
      BY <3>2, OrderAssumption
    <3> QED
      BY <1>3, <2>2, <3>1, <3>3
  <2>6. <<p, i>> \in EntrySlots
    BY <2>5 DEF EntrySlots
  <2>7. <<disk[p].key[i], disk[p].dat[i]>> = e
    BY <2>1, <2>3
  <2>8. ASSUME NEW t \in EntrySlots, <<disk[t[1]].key[t[2]], disk[t[1]].dat[t[2]]>> = e
        PROVE  t = <<p, i>>
    <3>1. PICK q \in Written \ Internal, j \in 0..M-1 : t = <<q, j>>
      BY DEF EntrySlots
    <3>2. j < disk[q].size /\ disk[q].key[j] = e[1]
      BY <2>8, <3>1 DEF EntrySlots
    <3>3. q \in DOMAIN disk /\ disk[q].isLeaf
      BY <1>3
    <3>4. j \in 0..disk[q].size-1
      <4>1. disk[q].size \in Nat
        BY <2>4, <3>3
      <4> QED
        BY <3>2, <4>1
    <3>5. e[1] \in KeysOf(disk[p]) /\ e[1] \in KeysOf(disk[q])
      BY <2>3, <3>2, <3>4 DEF KeysOf
    <3>6. q = p
      BY <1>2, <2>2, <2>5, <3>3, <3>5 DEF Stored, Apart
    <3>7. ~(i < j) /\ ~(j < i)
      <4>1. Strict(disk[p]) /\ Initialised(disk[p])
        BY <2>4, <2>5 DEF Proper
      <4>2. disk[p].key[i] \in Int /\ disk[p].key[j] = disk[p].key[i] /\ j \in 0..disk[p].size-1
        BY <2>3, <3>2, <3>4, <3>6, <4>1 DEF Initialised
      <4> QED
        BY <4>1, <4>2 DEF Strict
    <3>8. i = j
      BY <3>7
    <3> QED
      BY <3>1, <3>6, <3>8
  <2> QED
    BY <2>6, <2>7, <2>8
<1> QED
  BY <1>4, <1>7, <1>8, <1>9 DEF TreeWhole

(* An empty file is an empty tree. *)
LEMMA EmptyTree ==
  ASSUME Rootless, disk = <<>>
  PROVE  TreeWhole
<1>1. hdr = mem /\ mem.size = 0 /\ Len(disk) = 0 /\ inserted = {}
  BY DEF Rootless, Empty
<1> QED
  BY <1>1 DEF TreeWhole, ParentLinks, Balanced, NoPageLost, NothingLost

-----------------------------------------------------------------------------
(***************************************************************************)
(* Up to height 2 every leaf is where the descent for its keys ends: the   *)
(* page under a slot of the root is reached by the keys of that slot.      *)
(***************************************************************************)
Low ==
  \E rank, route : Whole(disk, mem.root, mem.size, rank, route) /\ rank[mem.root] <= 1

(* Every slot of a page is the way of some key. *)
LEMMA SlotOfSomeKey ==
  ASSUME NEW n, Proper(n), NEW i \in 0..n.size
  PROVE  \E x \in Int : GetIndex(n, x) = i
<1>1. n.size \in Nat /\ \A j \in 0..n.size-1 : n.key[j] \in Int
  BY ProperFields
<1>2. CASE i = 0
  <2>1. CASE n.size = 0
    <3>1. PICK x \in Int : x = 0
      OBVIOUS
    <3>2. GetIndex(n, x) \in 0..n.size
      BY <3>1, GapIs
    <3> QED
      BY <1>2, <2>1, <3>2
  <2>2. CASE n.size # 0
    <3>1. 0 \in 0..n.size-1
      BY <1>1, <2>2
    <3>2. PICK x \in Int : x = n.key[0] - 1
      BY <1>1, <3>1
    <3>3. IsGetIndex(i, n, x)
      <4>1. n.key[0] > x
        BY <1>1, <3>1, <3>2
      <4> QED
        BY <1>2, <4>1 DEF IsGetIndex
    <3> QED
      BY <3>3, GapIs
  <2> QED
    BY <2>1, <2>2
<1>3. CASE i # 0
  <2>1. PICK j : j = i - 1 /\ j \in 0..n.size-1 /\ j + 1 = i
    BY <1>1, <1>3
  <2>2. PICK x \in Int : x = n.key[j]
    BY <1>1, <2>1
  <2>3. j + 1 < n.size => x < n.key[j + 1]
    <3>1. j + 1 < n.size => j + 1 \in 0..n.size-1 /\ j < j + 1
      BY <1>1, <2>1
    <3> QED
      BY <2>1, <2>2, <3>1 DEF Proper, Strict
  <2>4. n.key[j] <= x
    BY <2>2
  <2>5. GetIndex(n, x) = j + 1
    BY <2>1, <2>3, <2>4, GapOfKey
  <2> QED
    BY <2>1, <2>5
<1> QED
  BY <1>2, <1>3

(* In a low tree the way of a key of a leaf ends in that leaf. *)
LEMMA LeafReached ==
  ASSUME disk \in Seq(Page), NEW rank, NEW route,
         Whole(disk, mem.root, mem.size, rank, route), rank[mem.root] <= 1,
         NEW p \in DOMAIN disk, disk[p].isLeaf, NEW k \in KeysOf(disk[p])
  PROVE  route[k][0] = p
<1>1. /\ Tree(disk, mem.root, rank) /\ rank[mem.root] \in Nat
      /\ \A q \in DOMAIN disk : rank[q] \in Nat /\ (q = mem.root <=> rank[q] = rank[mem.root])
      /\ \A q \in DOMAIN disk : rank[q] <= rank[mem.root]
  BY WholePages
<1>2. Routed(disk, mem.root, rank, route) /\ rank[p] = 0 /\ Proper(disk[p]) /\ mem.root \in DOMAIN disk
  BY <1>1 DEF Whole, Tree
<1>3. k \in Int
  BY <1>2, ProperFields
<1>4. CASE rank[mem.root] = 0
  <2>1. p = mem.root
    BY <1>1, <1>2, <1>4
  <2>2. route[k][rank[mem.root]] = mem.root
    BY <1>2, <1>3 DEF Routed
  <2> QED
    BY <1>4, <2>1, <2>2
<1>5. CASE rank[mem.root] = 1
  <2>1. p # mem.root
    BY <1>2, <1>5
  <2>2. Hung(disk, p)
    BY <1>1, <2>1 DEF Tree
  <2>3. PICK P, i : P = disk[p].parent /\ i \in 0..disk[P].size /\ disk[P].dat[i] = p
    BY <2>2 DEF Hung
  <2>4. P \in DOMAIN disk /\ ~disk[P].isLeaf /\ Proper(disk[P])
    BY <1>1, <2>2, <2>3 DEF Tree, Hung
  <2>5. rank[P] = 1
    <3>1. rank[P] # 0
      BY <1>1, <2>4 DEF Tree
    <3>2. rank[P] \in Nat /\ rank[P] <= 1
      BY <1>1, <1>5, <2>4
    <3> QED
      BY <3>1, <3>2
  <2>6. P = mem.root
    BY <1>1, <1>5, <2>4, <2>5
  <2>7. PICK x \in Int : GetIndex(disk[P], x) = i
    BY <2>3, <2>4, SlotOfSomeKey
  <2>8. route[x][1] = mem.root
    BY <1>2, <1>5 DEF Routed
  <2>9. route[x][0] = p
    <3>1. PICK r : r = 1 /\ r \in 0..rank[mem.root] /\ r > 0 /\ r - 1 = 0
      BY <1>5
    <3>2. route[x][r-1] = disk[route[x][r]].dat[GetIndex(disk[route[x][r]], x)]
      BY <1>2, <3>1 DEF Routed
    <3>3. route[x][r] = P
      BY <2>6, <2>8, <3>1
    <3>4. route[x][r-1] = disk[P].dat[i]
      BY <2>7, <3>2, <3>3
    <3> QED
      BY <2>3, <3>1, <3>4
  <2>10. PICK z : z = 0 /\ z \in 0..rank[mem.root]
    BY <1>5
  <2>11. \A w \in KeysOf(disk[route[x][z]]) : route[w][z] = route[x][z]
    BY <1>2, <2>10 DEF Routed
  <2> QED
    BY <2>9, <2>10, <2>11
<1> QED
  BY <1>1, <1>4, <1>5

(* Then a search has every live row of its key. *)
LEMMA LowAnswer ==
  ASSUME Calls, Rooted, Tall, SearchLeaf, Low, NEW e \in live, e[1] = arg.key
  PROVE  e[2] \in reply'.rows
<1> DEFINE node == disk[at]
           k == arg.key
           x == GetIndex(node, k)
           looked == {i \in 0..x : i < M /\ ~node.del[i]}
           equal == {i \in looked : node.key[i] = k}
           any == {i \in looked : node.key[i] = Uninit}
<1>1. pc = "seek" /\ node.isLeaf /\ disk \in Seq(Page)
  BY DEF SearchLeaf, AtLeaf, Calls
<1>2. PICK lucky \in SUBSET any :
        reply' = [op |-> "search", key |-> k, rows |-> Rows(node, equal \cup lucky)]
  BY DEF SearchLeaf
<1>3. PICK rank, route : SeekAt(rank, route)
  BY <1>1 DEF Tall
<1>4. /\ Whole(disk, mem.root, mem.size, rank, route) /\ Stored(disk, live)
      /\ at \in DOMAIN disk /\ route[k][rank[at]] = at
  BY <1>3 DEF SeekAt
<1>5. rank[mem.root] <= 1
  <2>1. PICK rk, rt : Whole(disk, mem.root, mem.size, rk, rt) /\ rk[mem.root] <= 1
    BY DEF Low
  <2>2. rk[mem.root] \in Nat /\ Height = rk[mem.root] + 1
    BY <1>1, <2>1, WholePages, HeightIs
  <2>3. rank[mem.root] \in Nat /\ Height = rank[mem.root] + 1
    BY <1>1, <1>4, WholePages, HeightIs
  <2> QED
    BY <2>1, <2>2, <2>3
<1>6. PICK p \in Pages(disk) : disk[p].isLeaf /\ Holds(disk[p], e)
  BY <1>1 DEF Calls, Rooted, AllHeld, Held
<1>7. PICK s \in 0..disk[p].size-1 : disk[p].key[s] = e[1] /\ disk[p].dat[s] = e[2]
  BY <1>6 DEF Holds, HasEntry
<1>8. p = at
  <2>1. p \in DOMAIN disk /\ k \in KeysOf(disk[p])
    BY <1>7 DEF Pages, KeysOf
  <2>2. route[k][0] = p
    BY <1>1, <1>4, <1>5, <1>6, <2>1, LeafReached
  <2>3. rank[at] = 0
    BY <1>1, <1>4 DEF Whole, Tree
  <2> QED
    BY <1>4, <2>2, <2>3
<1>9. e = <<e[1], e[2]>>
  BY EntriesAssumption DEF Calls
<1>10. ~node.del[s]
  <2>1. Clear(node, live)
    BY <1>1, <1>4 DEF Stored
  <2> QED
    BY <1>7, <1>8, <1>9, <2>1 DEF Clear
<1>11. /\ node \in BptreeNode /\ Initialised(node) /\ Sorted(node) /\ node.size < M /\ k \in Int
       /\ node.size \in Nat
  <2>1. at \in Pages(disk)
    BY <1>1, RootedAt
  <2>2. node \in BptreeNode /\ Initialised(node) /\ Sorted(node) /\ node.size < M
    BY <2>1, PageFacts
  <2>3. k \in Int
    BY EntryTyped DEF Rooted
  <2> QED
    BY <2>2, <2>3, NodeFields
<1>12. s \in equal
  <2>1. s \in Own(node, k)
    BY <1>7, <1>8, <1>10 DEF Own
  <2>2. x = GetIndex(node, k)
    OBVIOUS
  <2>3. s \in 0..node.size-1 /\ node.key[s] = k
    BY <1>7, <1>8
  <2> HIDE DEF x, node, k
  <2>4. s \in 0..x-1 /\ x \in 0..node.size
    BY <1>11, <2>1, <2>2, HitsOwn
  <2>5. s \in 0..x /\ s < M
    BY <1>11, <2>4, OrderAssumption
  <2> QED
    BY <1>10, <2>3, <2>5
<1>13. node.dat[s] = e[2]
  BY <1>7, <1>8
<1> HIDE DEF equal, any, node, k, x, looked
<1> QED
  BY <1>2, <1>12, <1>13 DEF Rows

-----------------------------------------------------------------------------
(* Only an insertion is ever in the middle of something. *)
Inserting == pc \in {"climb", "unwind", "flush"} => arg.op = "insert"

Answers ==
  pc = "idle" /\ reply.op = "search" /\ arg.op = "search" /\ Low =>
    \A e \in live : e[1] = reply.key => e[2] \in reply.rows

(* The file while no process is killed. *)
Grows == Calls /\ ((Rootless /\ disk = <<>>) \/ (Rooted /\ Tall)) /\ Inserting /\ Answers

(* Steps that change nothing here keep the invariant. *)
LEMMA StutterTall ==
  ASSUME Tall, UNCHANGED <<hdr, mem, disk, pc, arg, at, stack, inserted, live>>
  PROVE  Tall'
<1>1. Top' = Top /\ Durable' = Durable
  BY DEF Top, Durable, Pending
<1>2. \A size, root, L : Planted(root, size, L)' <=> Planted(root, size, L)
  BY DEF Planted
<1>3. \A rank, route : SeekAt(rank, route)' <=> SeekAt(rank, route)
  BY DEF SeekAt
<1>4. \A V, H, rank, route : ClimbAt(V, H, rank, route)' <=> ClimbAt(V, H, rank, route)
  BY <1>1 DEF ClimbAt
<1>5. \A W, rank, route : UnwindAt(W, rank, route)' <=> UnwindAt(W, rank, route)
  BY DEF UnwindAt
<1>6. Planted(hdr.root, hdr.size, live \cap Durable)' <=> Planted(hdr.root, hdr.size, live \cap Durable)
  BY <1>1 DEF Planted
<1>7. Planted(mem.root, mem.size, live)' <=> Planted(mem.root, mem.size, live)
  BY DEF Planted
<1> QED
  BY <1>3, <1>4, <1>5, <1>6, <1>7 DEF Tall

(* So do they keep the root. *)
LEMMA StutterRooted ==
  ASSUME Calls, Rooted, UNCHANGED vars
  PROVE  Calls' /\ Rooted'
<1>1. UNCHANGED <<hdr, mem, disk, pc, arg, at, stack, inserted, live, reply>>
  BY DEF vars, file, ghost
<1>2. Calls' /\ Durable' = Durable
  BY <1>1 DEF Calls, Durable, Pending, Entry
<1>3. IInv' /\ LInv'
  BY StepInv, StepLinks DEF Rooted
<1>4. (mem.root \in Pages(disk))' /\ Headers' /\ Frames' /\ AllHeld'
  BY <1>1, <1>2 DEF Rooted, Headers, Frames, AllHeld, Entry
<1> QED
  BY <1>2, <1>3, <1>4 DEF Rooted

(* What a step does to a file without a root, and what it leaves alone. *)
LEMMA RootlessTall ==
  ASSUME Calls, Rootless, Start \/ Step
  PROVE  \/ InsertFirst /\ Rooted' /\ Tall'
         \/ /\ Rootless' /\ ~Rooted' /\ UNCHANGED disk
            /\ live' = {} /\ pc' \in {"idle", "seek"}
<1>1. CASE InsertFirst
  BY <1>1, FirstRooted, FirstTall
<1>2. CASE ~InsertFirst
  <2>1. UNCHANGED <<mem, disk>>
    <3>1. pc \in {"idle", "seek"} /\ (pc = "seek" => ~Present(at))
      BY NoSuchPage DEF Rootless, Calls
    <3>2. CASE Start
      BY <3>2 DEF Start, BptreeInsert, BptreeSearch, BptreeDelete, Call, file
    <3>3. CASE Step
      <4>1. NotFound
        BY ZenonT(60), <1>2, <3>1, <3>3 DEF Step, Descend, InsertIntoLeafNode, AtLeaf, NewRoot,
           InsertIntoNode,
           SplitNode, Return, BptreeFlush, SearchLeaf, DeleteLeaf
      <4> QED
        BY <4>1 DEF NotFound, file
    <3> QED
      BY <3>2, <3>3
  <2>2. ~Rooted'
    <3>1. mem'.root = NODE_EOF /\ disk' \in Seq(Page)
      BY <2>1 DEF Rootless, Empty, Calls
    <3>2. NODE_EOF \notin Pages(disk')
      BY <3>1, RealRoot
    <3> QED
      BY <3>1, <3>2 DEF Rooted
  <2>3. Rootless'
    BY <2>2, RootlessStep
  <2> QED
    BY <2>1, <2>2, <2>3 DEF Rootless
<1> QED
  BY <1>1, <1>2

(* Every step keeps that. *)
LEMMA InsertingStep ==
  ASSUME Inserting, Start \/ Step
  PROVE  Inserting'
<1>1. CASE Start
  BY <1>1 DEF Start, BptreeInsert, BptreeSearch, BptreeDelete, Call, Inserting
<1>2. CASE Descend \/ InsertFirst \/ InsertIntoLeafNode
  BY <1>2 DEF Descend, InsertFirst, InsertIntoLeafNode, AtLeaf, Inserting
<1>3. CASE NewRoot \/ InsertIntoNode \/ SplitNode \/ Return \/ BptreeFlush
  BY <1>3 DEF NewRoot, InsertIntoNode, SplitNode, Return, BptreeFlush, Inserting
<1>4. CASE SearchLeaf \/ DeleteLeaf \/ NotFound
  BY <1>4 DEF SearchLeaf, DeleteLeaf, NotFound, Inserting
<1> QED
  BY <1>1, <1>2, <1>3, <1>4 DEF Step

(* Only SearchLeaf answers with a row, and it has them all in a low tree. *)
LEMMA AnswersStep ==
  ASSUME Calls, (Rootless /\ disk = <<>>) \/ (Rooted /\ Tall), Inserting, Start \/ Step
  PROVE  Answers'
<1> SUFFICES ASSUME pc' = "idle", reply'.op = "search", arg'.op = "search", Low',
                    NEW e \in live', e[1] = reply'.key
             PROVE  e[2] \in reply'.rows
  BY DEF Answers
<1>1. ~Start /\ ~Descend /\ ~InsertFirst /\ ~InsertIntoLeafNode /\ ~NewRoot
      /\ ~InsertIntoNode /\ ~SplitNode
  BY DEF Start, BptreeInsert, BptreeSearch, BptreeDelete, Call, Descend, InsertFirst,
     InsertIntoLeafNode, NewRoot, InsertIntoNode, SplitNode
<1>2. ~Return
  BY DEF Return
<1>3. ~BptreeFlush
  BY DEF BptreeFlush, Inserting
<1>4. ~DeleteLeaf
  BY DEF DeleteLeaf, AtLeaf
<1>5. CASE NotFound
  <2>1. Rootless
    BY <1>5, RootedAt DEF NotFound
  <2>2. live' = {}
    BY <1>5, <2>1 DEF NotFound, Rootless
  <2> QED
    BY <2>2
<1>6. CASE SearchLeaf
  <2>1. UNCHANGED <<mem, disk, live, arg>> /\ pc = "seek" /\ Present(at)
    BY <1>6 DEF SearchLeaf, AtLeaf, file
  <2>2. Rooted /\ Tall
    BY <2>1, NoSuchPage DEF Rootless, Calls
  <2>3. Low
    BY <2>1 DEF Low
  <2>4. e \in live /\ e[1] = arg.key
    BY <1>6, <2>1 DEF SearchLeaf
  <2> QED
    BY <1>6, <2>2, <2>3, <2>4, LowAnswer
<1> QED
  BY <1>1, <1>2, <1>3, <1>4, <1>5, <1>6 DEF Step

(* Every step without a kill keeps all of it. *)
LEMMA GrowsStep == ASSUME UniqueKeys, Grows, [Next]_vars PROVE Grows'
<1>1. CASE UNCHANGED vars
  <2>1. UNCHANGED <<hdr, mem, disk, pc, arg, at, stack, inserted, live, reply>>
    BY <1>1 DEF vars, file, ghost
  <2>2. Calls'
    BY <2>1 DEF Grows, Calls, Durable, Pending, Entry
  <2>3. Inserting' /\ Answers'
    BY <2>1 DEF Grows, Inserting, Answers, Low
  <2>4. CASE Rooted /\ Tall
    BY <1>1, <2>1, <2>3, <2>4, StutterRooted, StutterTall DEF Grows
  <2>5. CASE Rootless /\ disk = <<>>
    BY <2>1, <2>2, <2>3, <2>5 DEF Grows, Rootless
  <2> QED
    BY <2>4, <2>5 DEF Grows
<1>2. CASE Start \/ Step
  <2>1. Inserting' /\ Answers'
    BY <1>2, InsertingStep, AnswersStep DEF Grows
  <2>2. CASE Rooted /\ Tall
    BY <1>2, <2>1, <2>2, RootedStep, RootedTall DEF Grows
  <2>3. CASE Rootless /\ disk = <<>>
    <3>1. Calls'
      BY <1>2, <2>3, RootlessStep DEF Grows
    <3> QED
      BY <1>2, <2>1, <2>3, <3>1, RootlessTall DEF Grows
  <2> QED
    BY <2>2, <2>3 DEF Grows
<1> QED
  BY <1>1, <1>2 DEF Next

(* It holds of the empty file. *)
LEMMA GrowsInit == Init => Grows
<1> SUFFICES ASSUME Init PROVE Grows
  OBVIOUS
<1>1. /\ mem = Empty /\ hdr = Empty /\ disk = <<>> /\ stack = <<>> /\ pc = "idle"
      /\ inserted = {} /\ live = {} /\ at = NODE_EOF
      /\ arg = [op |-> "search", key |-> 0, dat |-> 0]
      /\ reply = [op |-> "none", key |-> 0, rows |-> {}]
  BY DEF Init, Empty
<1>2. arg \in Arg /\ reply \in Reply /\ reply.op = "none" /\ at \in Int /\ disk \in Seq(Page)
  BY <1>1, EmptySeq DEF Arg, Reply, NODE_EOF
<1>3. Calls /\ Inserting /\ Answers
  BY <1>1, <1>2 DEF Calls, Inserting, Answers
<1>4. Rootless
  BY <1>1 DEF Rootless
<1> QED
  BY <1>1, <1>3, <1>4 DEF Grows

(***************************************************************************)
(* Keys with one row each: when a call returns, the file is a balanced     *)
(* tree of all the allocated pages, each with one parent that it names,    *)
(* and every entry ever inserted is in exactly one slot of it, although    *)
(* the pages were written in an order that leaves the file broken between. *)
(***************************************************************************)
THEOREM CallsLeaveTree == UniqueKeys => (Spec => []TreeWhole)
<1> SUFFICES ASSUME UniqueKeys PROVE Spec => []TreeWhole
  OBVIOUS
<1>1. Init => Grows
  BY GrowsInit
<1>2. Grows /\ [Next]_vars => Grows'
  BY GrowsStep
<1>3. Grows => TreeWhole
  BY WholeTree, EmptyTree DEF Grows
<1> QED
  BY <1>1, <1>2, <1>3, PTL DEF Spec

(***************************************************************************)
(* Up to height 2 a search misses no live row of its key, deleted keys and *)
(* splits of leaves and of the root leaf included.                         *)
(***************************************************************************)
THEOREM LowSearchComplete == UniqueKeys => (Spec => []ShallowSearchComplete)
<1> SUFFICES ASSUME UniqueKeys PROVE Spec => []ShallowSearchComplete
  OBVIOUS
<1>1. Init => Grows
  BY GrowsInit
<1>2. Grows /\ [Next]_vars => Grows'
  BY GrowsStep
<1>3. Grows => ShallowSearchComplete
  <2> SUFFICES ASSUME Grows, disk # <<>>, pc = "idle", Height <= 2,
                      reply.op = "search", arg.op = "search",
                      NEW e \in live, e[1] = reply.key
               PROVE  e[2] \in reply.rows
    BY DEF ShallowSearchComplete, SearchComplete
  <2>1. Calls /\ Rooted /\ Tall /\ Answers
    BY DEF Grows
  <2>2. disk \in Seq(Page) /\ hdr = mem
    BY <2>1 DEF Calls, Rooted, Headers
  <2>3. PICK rank, route : Whole(disk, mem.root, mem.size, rank, route)
    BY <2>1, <2>2 DEF Tall, Planted
  <2>4. rank[mem.root] \in Nat /\ Height = rank[mem.root] + 1
    BY <2>2, <2>3, WholePages, HeightIs
  <2>5. Low
    <3>1. rank[mem.root] <= 1
      BY <2>4
    <3> QED
      BY <2>3, <3>1 DEF Low
  <2> QED
    BY <2>1, <2>5 DEF Answers
<1> QED
  BY <1>1, <1>2, <1>3, PTL DEF Spec

-----------------------------------------------------------------------------
(* The three states of a file, the last with its tree. *)
CTall ==
  Calls /\ (\/ Torn /\ mem.root # NODE_EOF
            \/ Rootless
            \/ Rooted /\ Tall)

(* A kill leaves the tree of the last call that had returned. *)
LEMMA KillTall ==
  ASSUME Calls, Rooted, Tall, Kill, Rooted'
  PROVE  Tall'
<1>1. /\ pc' = "idle" /\ mem' = hdr /\ hdr' = hdr /\ disk' = disk
      /\ inserted' = Durable /\ live' = live \cap Durable
  BY DEF Kill, Reopened
<1>2. pc \in {"seek", "climb", "flush"}
  BY FramesAt DEF Kill, Splitting
<1>3. Durable' = Durable
  BY KillRooted
<1>4. live' \cap Durable' = live \cap Durable
  BY <1>1, <1>3
<1>5. Planted(hdr.root, hdr.size, live \cap Durable)
  <2>1. CASE pc \in {"seek", "climb"}
    BY <2>1 DEF Tall
  <2>2. CASE pc = "flush" /\ hdr = mem
    <3>1. Durable = inserted /\ live \subseteq inserted
      BY <2>2, DurableIs DEF Calls
    <3>2. live \cap Durable = live
      BY <3>1
    <3> QED
      BY <2>2, <3>2 DEF Tall
  <2>3. CASE pc = "flush" /\ hdr # mem
    <3>1. hdr.root = NODE_EOF
      BY <2>3 DEF Kill, Splitting
    <3>2. mem'.root \in Pages(disk') /\ disk' \in Seq(Page)
      BY <1>1 DEF Rooted, Calls
    <3> QED
      BY <1>1, <3>1, <3>2, RealRoot
  <2> QED
    BY <1>2, <2>1, <2>2, <2>3
<1>6. Planted(hdr.root, hdr.size, live \cap Durable)'
  BY <1>1, <1>4, <1>5 DEF Planted
<1> QED
  BY <1>1, <1>6 DEF Tall

(* Every step, a kill too, keeps the invariant. *)
LEMMA TallStep == ASSUME UniqueKeys, CTall, [CrashNext]_crashVars PROVE CTall'
<1>1. CASE UNCHANGED crashVars
  <2>1. UNCHANGED vars
    BY <1>1 DEF crashVars
  <2>2. UNCHANGED <<hdr, mem, disk, pc, arg, at, stack, inserted, live, reply>>
    BY <2>1 DEF vars, file, ghost
  <2>3. Calls' /\ Durable' = Durable
    BY <2>2 DEF CTall, Calls, Durable, Pending, Entry
  <2>4. CASE Rooted /\ Tall
    BY <2>1, <2>2, <2>4, StutterRooted, StutterTall DEF CTall
  <2>5. CASE Rootless
    BY <2>2, <2>3, <2>5 DEF CTall, Rootless
  <2>6. CASE Torn /\ mem.root # NODE_EOF
    BY <2>2, <2>3, <2>6 DEF CTall, Torn, NothingErased, Recorded, Written, Internal
  <2> QED
    BY <2>4, <2>5, <2>6 DEF CTall
<1>2. CASE CrashNext /\ Torn
  BY <1>2, TornStep, CreateRootless DEF CTall
<1>3. CASE CrashNext /\ Rootless
  <2>1. ~Splitting /\ ~CreateBptree
    BY <1>3 DEF Rootless, Splitting, CreateBptree
  <2>2. CASE Start \/ Step
    BY <1>3, <2>2, RootlessStep, RootlessTall DEF CTall
  <2>3. CASE Kill
    BY <1>3, <2>3, KillRootless DEF CTall
  <2> QED
    BY <1>3, <2>1, <2>2, <2>3 DEF CrashNext, KillTears
<1>4. CASE CrashNext /\ Rooted /\ Tall
  <2>1. ~CreateBptree
    BY <1>4, FramesAt DEF CreateBptree
  <2>2. CASE Start \/ Step
    BY <1>4, <2>2, RootedStep, RootedTall DEF CTall
  <2>3. CASE Kill
    BY <1>4, <2>3, KillRooted, KillTall DEF CTall
  <2>4. CASE KillTears
    <3>1. mem' = mem /\ mem.root # NODE_EOF
      <4>1. disk \in Seq(Page) /\ mem.root \in Pages(disk)
        BY <1>4 DEF CTall, Calls, Rooted
      <4> QED
        BY <2>4, <4>1, RealRoot DEF KillTears
    <3> QED
      BY <1>4, <2>4, <3>1, KillTearsRooted DEF CTall
  <2> QED
    BY <1>4, <2>1, <2>2, <2>3, <2>4 DEF CrashNext
<1> QED
  BY <1>1, <1>2, <1>3, <1>4 DEF CTall

(***************************************************************************)
(* Keys with one row each: whatever has been killed, between calls the     *)
(* file of a tree with a root is the whole tree of the durable entries; a  *)
(* file without a root has lost none.                                      *)
(***************************************************************************)
THEOREM KillsLeaveTree == UniqueKeys => (CrashSpec => []KillsSpareTree)
<1> SUFFICES ASSUME UniqueKeys PROVE CrashSpec => []KillsSpareTree
  OBVIOUS
<1>1. CrashInit => CTall
  BY GrowsInit DEF CrashInit, Grows, CTall
<1>2. CTall /\ [CrashNext]_crashVars => CTall'
  BY TallStep
<1>3. CTall => KillsSpareTree
  <2> SUFFICES ASSUME CTall PROVE KillsSpareTree
    OBVIOUS
  <2>1. CASE Torn /\ mem.root # NODE_EOF
    BY <2>1 DEF Torn, KillsSpareTree, TreeWhole, ParentLinks, Balanced, NoPageLost, NothingLost
  <2>2. CASE Rootless
    BY <2>2 DEF Rootless, Empty, KillsSpareTree, Durable
  <2>3. CASE Rooted /\ Tall
    <3>1. disk \in Seq(Page) /\ mem.root \in Pages(disk)
      BY <2>3 DEF CTall, Calls, Rooted
    <3>2. mem.root # NODE_EOF
      BY <3>1, RealRoot
    <3>3. TreeWhole
      BY <2>3, WholeTree DEF CTall
    <3> QED
      BY <3>2, <3>3 DEF KillsSpareTree
  <2> QED
    BY <2>1, <2>2, <2>3 DEF CTall
<1> QED
  BY <1>1, <1>2, <1>3, PTL DEF CrashSpec
=============================================================================
