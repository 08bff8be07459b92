----------------------------- MODULE BptreeCrash -----------------------------
(***************************************************************************)
(* The index file of Bptree when processes are killed.  What a process has *)
(* in memory is gone, the pages it has written stay: NodeFlush writes whole*)
(* pages, which stdio passes on to the system at once.  The next process   *)
(* opens the file and starts from the header it finds there.               *)
(*                                                                         *)
(* An insertion that splits writes several pages and the header last.  A   *)
(* kill between the first and the last of these leaves a torn file: links  *)
(* to pages that are not there, halves nothing points at, page numbers the *)
(* header will give out again.  What calls do with such a file depends on  *)
(* how page 0 and holes look when they are taken for a node, and is not    *)
(* followed: the next step of a torn file is CreateBptree.                 *)
(***************************************************************************)
EXTENDS Bptree

CONSTANT MaxKills    \* bound: how many processes are killed

ASSUME MaxKillsAssumption == MaxKills \in Nat

VARIABLES
  kills,   \* processes killed so far
  deep     \* an internal node has been split (history)

crashVars == <<vars, kills, deep>>

(***************************************************************************)
(* The entry of an insertion under way that has to write a new page, until *)
(* the header that counts the page is written.                             *)
(***************************************************************************)
Pending ==
  IF pc \in {"climb", "unwind"} \/ (pc = "flush" /\ hdr # mem)
  THEN {<<arg.key, arg.dat>>} ELSE {}

Durable == inserted \ Pending

(* The pages of a split are being written, or the header is all that lacks. *)
Splitting ==
  \/ pc = "unwind"
  \/ pc = "flush" /\ hdr # mem /\ ~(hdr # Trashed /\ hdr.root = NODE_EOF)

(***************************************************************************)
(* The files in the middle of Return: some of the children that moved have *)
(* their new parent, or all of them have and the left half is written too. *)
(***************************************************************************)
Returning ==
  LET right     == Top.right
      Moved(n)  == {right.dat[i] : i \in 0..n}
      Adopted(n) == [p \in DOMAIN disk |->
                       IF p \in Moved(n) /\ disk[p] # Hole
                       THEN [disk[p] EXCEPT !.parent = right.self] ELSE disk[p]]
  IN  IF right.isLeaf
      THEN {disk, NodeFlush(disk, Top.left)}
      ELSE {disk, NodeFlush(Adopted(right.size), Top.left)}
             \cup {Adopted(n) : n \in 0..right.size}

-----------------------------------------------------------------------------
CrashInit ==
  /\ Init
  /\ kills = 0
  /\ deep = FALSE

Noted ==
  /\ deep' = (deep \/ Len(stack') > 1)
  /\ UNCHANGED kills

(* The end of a process, and OpenBptree by the next one. *)
Reopened ==
  /\ pc' = "idle"
  /\ mem' = hdr
  /\ stack' = <<>>
  /\ inserted' = Durable
  /\ live' = live \cap Durable
  /\ kills' = kills + 1
  /\ UNCHANGED <<hdr, arg, at, reply, deep>>

Kill ==
  /\ kills < MaxKills
  /\ pc \notin {"idle", "torn"}
  /\ ~Splitting
  /\ Reopened
  /\ UNCHANGED disk

KillTears ==
  /\ kills < MaxKills
  /\ Splitting
  /\ disk' \in IF pc = "unwind" THEN Returning ELSE {disk}
  /\ pc' = "torn"
  /\ stack' = <<>>
  /\ inserted' = Durable
  /\ live' = live \cap Durable
  /\ kills' = kills + 1
  /\ UNCHANGED <<hdr, mem, arg, at, reply, deep>>

(* CREATE INDEX after DROP INDEX: the file is emptied. *)
CreateBptree ==
  /\ pc = "torn"
  /\ mem' = [root |-> NODE_EOF, size |-> 0]
  /\ hdr' = mem'
  /\ disk' = <<>>
  /\ pc' = "idle"
  /\ inserted' = {}
  /\ live' = {}
  /\ reply' = [op |-> "none", key |-> 0, rows |-> {}]
  /\ deep' = FALSE
  /\ UNCHANGED <<arg, at, stack, kills>>

CrashNext ==
  \/ (Start \/ Step) /\ Noted
  \/ Kill
  \/ KillTears
  \/ CreateBptree

(* A call that has begun runs on: the process does nothing else meanwhile. *)
CrashSpec == CrashInit /\ [][CrashNext]_crashVars /\ WF_crashVars(Step /\ Noted)

-----------------------------------------------------------------------------
(***************************************************************************)
(* Kills spare what was done: between calls (pc is "idle") the tree is     *)
(* whole, whatever has been killed before, unless the file is torn.  A     *)
(* file whose header has no root has lost no entry; it may have a page     *)
(* that is used again.                                                     *)
(***************************************************************************)
KillsSpareTree ==
  IF mem.root = NODE_EOF THEN Durable = {}
  ELSE TreeWhole

(***************************************************************************)
(* Not even a torn file has lost an entry: at every moment each durable    *)
(* entry is in a slot of some leaf, if only in one past its size.          *)
(***************************************************************************)
Recorded(e) ==
  \E p \in Written \ Internal, i \in 0..M-1 :
    disk[p].key[i] = e[1] /\ disk[p].dat[i] = e[2]

NothingErased == \A e \in Durable : Recorded(e)

(* Every call ends: it returns, or its process is killed. *)
CallsEnd == pc \notin {"idle", "torn"} ~> pc \in {"idle", "torn"}

(***************************************************************************)
(* The index as the manager sees it: every call takes effect at once, at   *)
(* the write that makes it durable, and a kill comes before or after that. *)
(***************************************************************************)
Map == INSTANCE IndexMap WITH inserted <- Durable, live <- live \cap Durable

MapSpec == Map!Spec

=============================================================================
