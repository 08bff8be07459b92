------------------------------- MODULE Server -------------------------------
(***************************************************************************)
(* src/xpfBase.c: the parent accepts and forks, a child serves each        *)
(* connection, the client sends statements and prints answers.  A stream   *)
(* is a sequence of items; a read takes what has arrived, which may be any *)
(* part of it.                                                             *)
(*                                                                         *)
(* Nothing but the text ".end" says where an answer stops, and the client  *)
(* looks for it at the end of one read.  Nothing says where a statement    *)
(* stops: the child takes one read for one statement.                      *)
(***************************************************************************)
EXTENDS Integers, Sequences

CONSTANTS
  Clients,
  Texts,          \* what an answer may consist of; ".end" at its end is Mimic
  Mimic,
  MaxFds,         \* connections the parent's descriptor table has room for
  MaxStatements,  \* bound: statements a client sends
  MaxStrays,      \* bound: children forked without a connection
  Cut,            \* what reads may cut in two: "request", "answer"
  Crashes         \* TRUE if a statement may bring its child down (Engine.tla)

ASSUME CutAssumption    == Cut \subseteq {"request", "answer"}
ASSUME BoundsAssumption == MaxFds \in Nat /\ MaxStatements \in Nat /\ MaxStrays \in Nat

VARIABLES
  client,   \* what each client does
  sent,     \* how many statements it has sent
  child,    \* what its child does
  up, down, \* the connection, to the child and to the client
  rec,      \* the client's read buffer: no one clears it before its first read
  fds,      \* descriptors of connections the parent holds
  strays,   \* children whose connfd is -1
  harm      \* what reads have done to a connection (history)

vars == <<client, sent, child, up, down, rec, fds, strays, harm>>

Head1 == "statement" \* a statement up to its last line
Tail1 == ";"
Quit  == ".quit"
EndA  == ".e"        \* ".end", where a read may cut it
EndB  == "nd"

Init ==
  /\ client = [c \in Clients |-> "off"]
  /\ sent = [c \in Clients |-> 0]
  /\ child = [c \in Clients |-> "none"]
  /\ up = [c \in Clients |-> <<>>]
  /\ down = [c \in Clients |-> <<>>]
  /\ rec = [c \in Clients |-> "unset"]
  /\ fds = 0
  /\ strays = 0
  /\ harm = [c \in Clients |-> {}]

(* A read of a stream returns its first k items. *)
Reads(stream, what) ==
  IF what \in Cut THEN 1..Len(stream) ELSE {Len(stream)} \ {0}

First(stream, k) == SubSeq(stream, 1, k)
Rest(stream, k)  == SubSeq(stream, k + 1, Len(stream))

Harm(c, what) == harm' = [harm EXCEPT ![c] = @ \cup what]

-----------------------------------------------------------------------------
(* start_client: connect() succeeds while the parent listens. *)
Dial(c) ==
  /\ client[c] = "off"
  /\ client' = [client EXCEPT ![c] = "prompt"]
  /\ child' = [child EXCEPT ![c] = "backlog"]
  /\ UNCHANGED <<sent, up, down, rec, fds, strays, harm>>

(* A line without a semicolon is kept, one with it sends what was kept. *)
TypeLine(c) ==
  /\ client[c] = "prompt"
  /\ sent[c] < MaxStatements
  /\ client' = [client EXCEPT ![c] = "more"]
  /\ UNCHANGED <<sent, child, up, down, rec, fds, strays, harm>>

Send(c) ==
  /\ client[c] \in {"prompt", "more"}
  /\ sent[c] < MaxStatements
  /\ client' = [client EXCEPT ![c] = "waiting"]
  /\ sent' = [sent EXCEPT ![c] = @ + 1]
  /\ up' = [up EXCEPT ![c] = @ \o <<Head1, Tail1>>]
  /\ UNCHANGED <<child, down, rec, fds, strays, harm>>

(* A line that begins with a dot, unless a statement has been begun. *)
SendQuit(c) ==
  /\ client[c] = "prompt"
  /\ client' = [client EXCEPT ![c] = "gone"]
  /\ up' = [up EXCEPT ![c] = Append(@, Quit)]
  /\ UNCHANGED <<sent, child, down, rec, fds, strays, harm>>

(* l > 4 for l >= 4: a read of nothing but ".end" does not count. *)
EndsSlip(chunk) ==
  \/ chunk[Len(chunk)] = Mimic
  \/ Len(chunk) > 2 /\ chunk[Len(chunk) - 1] = EndA /\ chunk[Len(chunk)] = EndB

(* The answer is over if what was read ends in ".end". *)
Ends(chunk) ==
  \/ chunk[Len(chunk)] = Mimic
  \/ Len(chunk) > 1 /\ chunk[Len(chunk) - 1] = EndA /\ chunk[Len(chunk)] = EndB

(* A client that reads once and not until the end. *)
ReadAnswerSlip(c) ==
  /\ client[c] = "waiting"
  /\ \E k \in Reads(down[c], "answer") :
       /\ client' = [client EXCEPT ![c] = "prompt"]
       /\ down' = [down EXCEPT ![c] = Rest(@, k)]
  /\ rec' = [rec EXCEPT ![c] = "zeroed"]
  /\ UNCHANGED <<sent, child, up, fds, strays, harm>>

(* On the first read what follows the text in rec may hide its end. *)
ReadAnswer(c) ==
  /\ client[c] = "waiting"
  /\ \E k \in Reads(down[c], "answer"), hidden \in {FALSE, rec[c] = "unset"} :
       LET chunk == First(down[c], k)
           over  == Ends(chunk) /\ ~hidden
       IN  /\ client' = [client EXCEPT ![c] = IF over THEN "prompt" ELSE @]
           /\ down' = [down EXCEPT ![c] = Rest(@, k)]
           /\ Harm(c, {h \in {"end", "mimic"} :
                         \/ h = "end" /\ (chunk[k] = EndA \/ (Ends(chunk) /\ hidden))
                         \/ h = "mimic" /\ chunk[k] = Mimic /\ over})
  /\ rec' = [rec EXCEPT ![c] = "zeroed"]
  /\ UNCHANGED <<sent, child, up, fds, strays>>

-----------------------------------------------------------------------------
(* start_server: accept and fork.  The parent never closes its connfd. *)
Accept(c) ==
  /\ child[c] = "backlog"
  /\ fds < MaxFds
  /\ fds' = fds + 1
  /\ child' = [child EXCEPT ![c] = "reading"]
  /\ UNCHANGED <<client, sent, up, down, rec, strays, harm>>

(* The failed accept counted as a connection. *)
AcceptFailsSlip ==
  /\ fds = MaxFds
  /\ strays < MaxStrays
  /\ strays' = strays + 1
  /\ fds' = fds + 1
  /\ UNCHANGED <<client, sent, child, up, down, rec, harm>>

(* Without a descriptor left accept fails at once, whether or not a client *)
(* waits; the parent forks anyway.                                         *)
AcceptFails ==
  /\ fds = MaxFds
  /\ strays < MaxStrays
  /\ strays' = strays + 1
  /\ UNCHANGED <<client, sent, child, up, down, rec, fds, harm>>

(* One read is one statement, or ".quit" if it is nothing else. *)
ReadStatement(c) ==
  /\ child[c] = "reading"
  /\ \E k \in Reads(up[c], "request") :
       LET chunk == First(up[c], k)
       IN  /\ child' = [child EXCEPT ![c] = IF chunk = <<Quit>> THEN "gone" ELSE "executing"]
           /\ up' = [up EXCEPT ![c] = Rest(@, k)]
           /\ Harm(c, IF chunk \in {<<Quit>>, <<Head1, Tail1>>} THEN {} ELSE {"request"})
  /\ UNCHANGED <<client, sent, down, rec, fds, strays>>

(* A child that takes the end of the stream for a statement yet to come. *)
ReadNothingSlip(c) ==
  /\ child[c] = "reading"
  /\ client[c] = "gone" /\ up[c] = <<>>
  /\ UNCHANGED vars

(* The client is gone: the write that follows an empty read kills. *)
ReadNothing(c) ==
  /\ child[c] = "reading"
  /\ client[c] = "gone" /\ up[c] = <<>>
  /\ child' = [child EXCEPT ![c] = "gone"]
  /\ UNCHANGED <<client, sent, up, down, rec, fds, strays, harm>>

(* ParseSQL writes its answer as it goes, or crashes ... *)
Execute(c) ==
  /\ child[c] = "executing"
  /\ \/ \E t \in Texts :
          /\ down' = [down EXCEPT ![c] = Append(@, t)]
          /\ child' = [child EXCEPT ![c] = "ending"]
     \/ /\ Crashes
        /\ child' = [child EXCEPT ![c] = "crashed"]
        /\ UNCHANGED down
  /\ UNCHANGED <<client, sent, up, rec, fds, strays, harm>>

(* ... and ".end" is written after it. *)
WriteEnd(c) ==
  /\ child[c] = "ending"
  /\ down' = [down EXCEPT ![c] = @ \o <<EndA, EndB>>]
  /\ child' = [child EXCEPT ![c] = "reading"]
  /\ UNCHANGED <<client, sent, up, rec, fds, strays, harm>>

User(c) == Dial(c) \/ TypeLine(c) \/ Send(c) \/ SendQuit(c)

Serve(c) ==
  \/ Accept(c)
  \/ ReadStatement(c)
  \/ ReadNothing(c)
  \/ Execute(c)
  \/ WriteEnd(c)

Next ==
  \/ \E c \in Clients : User(c) \/ Serve(c) \/ ReadAnswer(c)
  \/ AcceptFails

Spec == Init /\ [][Next]_vars

(* Processes run on and what was written arrives; users need not type. *)
FairSpec == Spec /\ \A c \in Clients : WF_vars(Serve(c)) /\ WF_vars(ReadAnswer(c))

-----------------------------------------------------------------------------
TypeOK ==
  /\ client \in [Clients -> {"off", "prompt", "more", "waiting", "gone"}]
  /\ child \in [Clients -> {"none", "backlog", "reading", "executing", "ending",
                            "crashed", "gone"}]
  /\ sent \in [Clients -> 0..MaxStatements]
  /\ up \in [Clients -> Seq({Head1, Tail1, Quit})]
  /\ down \in [Clients -> Seq(Texts \cup {EndA, EndB})]
  /\ rec \in [Clients -> {"unset", "zeroed"}]
  /\ fds \in 0..MaxFds
  /\ strays \in 0..MaxStrays
  /\ harm \in [Clients -> SUBSET {"request", "end", "mimic"}]

(***************************************************************************)
(* The two ends keep step: a client that may type has nothing left to read *)
(* and its child waits for a statement, as long as no read has cut a       *)
(* statement or taken part of an answer for its end.                       *)
(***************************************************************************)
InStep ==
  \A c \in Clients :
    client[c] \in {"prompt", "more"} /\ harm[c] \cap {"request", "mimic"} = {} =>
      /\ up[c] = <<>> /\ down[c] = <<>>
      /\ child[c] \in {"backlog", "reading"}

(***************************************************************************)
(* A client that waits gets its prompt back, unless its child crashed, one *)
(* of its reads missed ".end", or the parent could not take it on.         *)
(***************************************************************************)
Answered ==
  \A c \in Clients :
    client[c] = "waiting" ~>
      \/ client[c] # "waiting"
      \/ child[c] = "crashed"
      \/ "end" \in harm[c]
      \/ child[c] = "backlog" /\ fds = MaxFds

(* The child of a client that quits ends, however the request was read. *)
ChildrenEnd ==
  \A c \in Clients :
    client[c] = "gone" /\ child[c] # "backlog" ~> child[c] \in {"gone", "crashed"}

=============================================================================
