---------------------------- MODULE ServerProofs -----------------------------
(***************************************************************************)
(* A client and its child keep step, for every number of clients,          *)
(* statements and descriptors, every set of answers and every way of       *)
(* cutting reads, until a read cuts a statement or takes a text for ".end".*)
(*                                                                         *)
(* The argument: as long as neither has happened, a connection is in one   *)
(* of a few states, and while a client waits these follow the one          *)
(* statement and the one answer on their way.                              *)
(***************************************************************************)
EXTENDS Server, SequenceTheorems, TLAPS

(* No read has cut a statement or taken a text for the end of the answer. *)
Clean(c) == harm[c] \cap {"request", "mimic"} = {}

Silent(c) == up[c] = <<>> /\ down[c] = <<>>

(* What of an answer may still be on its way when it is complete. *)
Remainders ==
  {<<t, EndA, EndB>> : t \in Texts} \cup {<<EndA, EndB>>, <<EndB>>, <<>>}

(* Where the statement of a waiting client, or the answer to it, can be. *)
Asked(c) ==
  /\ up[c] = <<Head1, Tail1>> /\ down[c] = <<>>
  /\ child[c] \in {"backlog", "reading"}

Served(c) ==
  /\ up[c] = <<>>
  /\ \/ child[c] \in {"executing", "crashed"} /\ down[c] = <<>>
     \/ child[c] = "ending" /\ down[c] \in {<<>>} \cup {<<t>> : t \in Texts}
     \/ child[c] = "reading" /\ down[c] \in Remainders

Connection(c) ==
  \/ client[c] = "off" /\ child[c] = "none" /\ Silent(c)
  \/ client[c] \in {"prompt", "more"} /\ child[c] \in {"backlog", "reading"} /\ Silent(c)
  \/ client[c] = "waiting" /\ (Asked(c) \/ Served(c))
  \/ client[c] = "gone"

Kept == \A c \in Clients : Clean(c) => Connection(c)

IInv == TypeOK /\ Kept

-----------------------------------------------------------------------------
(* A read takes a part of the stream that is not empty and leaves the rest. *)
LEMMA ReadSplits ==
  ASSUME NEW S, NEW stream \in Seq(S), NEW what, NEW k \in Reads(stream, what)
  PROVE  /\ k \in 1..Len(stream)
         /\ First(stream, k) \in Seq(S) /\ Len(First(stream, k)) = k
         /\ \A i \in 1..k : First(stream, k)[i] = stream[i]
         /\ Rest(stream, k) \in Seq(S) /\ Len(Rest(stream, k)) = Len(stream) - k
         /\ \A i \in 1..(Len(stream) - k) : Rest(stream, k)[i] = stream[k + i]
<1>1. Len(stream) \in Nat
  BY LenProperties
<1>2. k \in 1..Len(stream)
  BY <1>1 DEF Reads
<1>3. \A i \in 1..k : stream[i] \in S
  BY <1>1, <1>2, ElementOfSeq
<1>4. \A i \in (k + 1)..Len(stream) : stream[i] \in S
  BY <1>1, <1>2, ElementOfSeq
<1>5. First(stream, k) \in Seq(S) /\ Len(First(stream, k)) = k
      /\ \A i \in 1..k : First(stream, k)[i] = stream[i]
  BY <1>1, <1>2, <1>3, SubSeqProperties DEF First
<1>6. Rest(stream, k) \in Seq(S) /\ Len(Rest(stream, k)) = Len(stream) - k
      /\ \A i \in 1..(Len(stream) - k) : Rest(stream, k)[i] = stream[k + i]
  BY <1>1, <1>2, <1>4, SubSeqProperties DEF Rest
<1> QED  BY <1>2, <1>5, <1>6

(* A step on one connection leaves the others as they are. *)
Apart(c) ==
  \A d \in Clients \ {c} :
    /\ client'[d] = client[d] /\ child'[d] = child[d]
    /\ up'[d] = up[d] /\ down'[d] = down[d] /\ harm'[d] = harm[d]

(* A step of one connection keeps the others as they were. *)
LEMMA KeptByOne ==
  ASSUME Kept, NEW c \in Clients, Apart(c), (Clean(c) => Connection(c))'
  PROVE  Kept'
<1> SUFFICES ASSUME NEW d \in Clients  PROVE (Clean(d) => Connection(d))'
  BY DEF Kept
<1>1. CASE d = c
  BY <1>1
<1>2. CASE d # c
  BY <1>2 DEF Kept, Apart, Clean, Connection, Silent, Asked, Served
<1> QED  BY <1>1, <1>2

-----------------------------------------------------------------------------
(* What users do: they open a connection, type, and send when prompted. *)
LEMMA DialKeeps ==
  ASSUME IInv, NEW c \in Clients, Dial(c)
  PROVE  IInv'
<1>1. TypeOK'
  BY DEF IInv, TypeOK, Dial
<1>2. Apart(c)
  BY DEF IInv, TypeOK, Dial, Apart
<1>3. (Clean(c) => Connection(c))'
  BY DEF IInv, TypeOK, Kept, Dial, Clean, Connection, Silent
<1> QED  BY <1>1, <1>2, <1>3, KeptByOne DEF IInv

(* The user types a line: nothing goes over the wire. *)
LEMMA TypeLineKeeps ==
  ASSUME IInv, NEW c \in Clients, TypeLine(c)
  PROVE  IInv'
<1>1. TypeOK'
  BY DEF IInv, TypeOK, TypeLine
<1>2. Apart(c)
  BY DEF IInv, TypeOK, TypeLine, Apart
<1>3. (Clean(c) => Connection(c))'
  BY DEF IInv, TypeOK, Kept, TypeLine, Clean, Connection, Silent
<1> QED  BY <1>1, <1>2, <1>3, KeptByOne DEF IInv

(* The client sends the line it has read. *)
LEMMA SendKeeps ==
  ASSUME IInv, NEW c \in Clients, Send(c)
  PROVE  IInv'
<1>1. TypeOK'
  <2>1. up[c] \o <<Head1, Tail1>> \in Seq({Head1, Tail1, Quit})
    BY DEF IInv, TypeOK
  <2>2. sent[c] + 1 \in 0..MaxStatements
    BY BoundsAssumption DEF IInv, TypeOK, Send
  <2> QED  BY <2>1, <2>2 DEF IInv, TypeOK, Send
<1>2. Apart(c)
  BY DEF IInv, TypeOK, Send, Apart
<1>3. (Clean(c) => Connection(c))'
  <2>1. Clean(c)' => up[c] = <<>> /\ down[c] = <<>> /\ child[c] \in {"backlog", "reading"}
    BY DEF IInv, Kept, Send, Clean, Connection, Silent
  <2>2. <<>> \o <<Head1, Tail1>> = <<Head1, Tail1>>
    OBVIOUS
  <2> QED  BY <2>1, <2>2 DEF IInv, TypeOK, Send, Clean, Connection, Asked
<1> QED  BY <1>1, <1>2, <1>3, KeptByOne DEF IInv

(* The client sends quit and is gone. *)
LEMMA SendQuitKeeps ==
  ASSUME IInv, NEW c \in Clients, SendQuit(c)
  PROVE  IInv'
<1>1. TypeOK'
  <2>1. Append(up[c], Quit) \in Seq({Head1, Tail1, Quit})
    BY DEF IInv, TypeOK
  <2> QED  BY <2>1 DEF IInv, TypeOK, SendQuit
<1>2. Apart(c)
  BY DEF IInv, TypeOK, SendQuit, Apart
<1>3. (Clean(c) => Connection(c))'
  BY DEF IInv, TypeOK, SendQuit, Clean, Connection
<1> QED  BY <1>1, <1>2, <1>3, KeptByOne DEF IInv

-----------------------------------------------------------------------------
(* What the parent and the children do. *)
LEMMA AcceptKeeps ==
  ASSUME IInv, NEW c \in Clients, Accept(c)
  PROVE  IInv'
<1>1. TypeOK'
  BY BoundsAssumption DEF IInv, TypeOK, Accept
<1>2. Apart(c)
  BY DEF IInv, TypeOK, Accept, Apart
<1>3. (Clean(c) => Connection(c))'
  BY DEF IInv, TypeOK, Kept, Accept, Clean, Connection, Silent, Asked, Served
<1> QED  BY <1>1, <1>2, <1>3, KeptByOne DEF IInv

(* accept fails for want of a descriptor: no connection is touched. *)
LEMMA AcceptFailsKeeps ==
  ASSUME IInv, AcceptFails
  PROVE  IInv'
<1>1. TypeOK'
  BY BoundsAssumption DEF IInv, TypeOK, AcceptFails
<1>2. Kept'
  BY DEF IInv, AcceptFails, Kept, Clean, Connection, Silent, Asked, Served
<1> QED  BY <1>1, <1>2 DEF IInv

(* The statement is read as a whole, or the connection is not clean. *)
LEMMA ReadStatementKeeps ==
  ASSUME IInv, NEW c \in Clients, ReadStatement(c)
  PROVE  IInv'
<1> DEFINE S == {Head1, Tail1, Quit}
<1>0. up[c] \in Seq(S)
  BY DEF IInv, TypeOK
<1>1. PICK k \in Reads(up[c], "request") :
        LET chunk == First(up[c], k)
        IN  /\ child' = [child EXCEPT ![c] = IF chunk = <<Quit>> THEN "gone" ELSE "executing"]
            /\ up' = [up EXCEPT ![c] = Rest(@, k)]
            /\ Harm(c, IF chunk \in {<<Quit>>, <<Head1, Tail1>>} THEN {} ELSE {"request"})
  BY DEF ReadStatement
<1> HIDE DEF S
<1>2. /\ k \in 1..Len(up[c])
      /\ First(up[c], k) \in Seq(S) /\ Len(First(up[c], k)) = k
      /\ \A i \in 1..k : First(up[c], k)[i] = up[c][i]
      /\ Rest(up[c], k) \in Seq(S) /\ Len(Rest(up[c], k)) = Len(up[c]) - k
  BY <1>0, ReadSplits
<1>3. TypeOK'
  BY <1>1, <1>2 DEF IInv, TypeOK, ReadStatement, Harm, S
<1>4. Apart(c)
  BY <1>1 DEF IInv, TypeOK, ReadStatement, Harm, Apart
<1>5. (Clean(c) => Connection(c))'
  <2> SUFFICES ASSUME Clean(c)'  PROVE Connection(c)'
    OBVIOUS
  <2>1. Clean(c) /\ First(up[c], k) \in {<<Quit>>, <<Head1, Tail1>>}
    BY <1>1 DEF IInv, TypeOK, Clean, Harm
  <2>2. Connection(c)
    BY <2>1 DEF IInv, Kept
  <2>3. CASE client[c] = "gone"
    BY <2>3 DEF ReadStatement, Connection
  <2>4. CASE client[c] # "gone"
    <3>1. client[c] = "waiting" /\ Asked(c)
      BY <1>2, <2>2, <2>4 DEF ReadStatement, Connection, Silent, Served
    <3>2. up[c][1] = Head1 /\ Len(up[c]) = 2
      BY <3>1 DEF Asked
    <3>3. First(up[c], k)[1] = Head1
      BY <1>2, <3>2
    <3>4. First(up[c], k) = <<Head1, Tail1>>
      BY <2>1, <3>3 DEF Head1, Quit
    <3>5. k = 2
      BY <1>2, <3>4
    <3>6. Rest(up[c], k) = <<>>
      BY <1>2, <3>2, <3>5, EmptySeq
    <3>7. First(up[c], k) # <<Quit>>
      BY <3>4
    <3> QED  BY <1>1, <3>1, <3>6, <3>7 DEF IInv, TypeOK, ReadStatement, Connection, Asked, Served
  <2> QED  BY <2>3, <2>4
<1> QED  BY <1>3, <1>4, <1>5, KeptByOne DEF IInv

(* The client is gone, and the child goes too. *)
LEMMA ReadNothingKeeps ==
  ASSUME IInv, NEW c \in Clients, ReadNothing(c)
  PROVE  IInv'
<1>1. TypeOK'
  BY DEF IInv, TypeOK, ReadNothing
<1>2. Apart(c)
  BY DEF IInv, TypeOK, ReadNothing, Apart
<1>3. (Clean(c) => Connection(c))'
  BY DEF ReadNothing, Connection
<1> QED  BY <1>1, <1>2, <1>3, KeptByOne DEF IInv

(* The child answers the statement it has read, or dies of it. *)
LEMMA ExecuteKeeps ==
  ASSUME IInv, NEW c \in Clients, Execute(c)
  PROVE  IInv'
<1>1. TypeOK'
  <2>1. \A t \in Texts : Append(down[c], t) \in Seq(Texts \cup {EndA, EndB})
    BY DEF IInv, TypeOK
  <2>2. down' \in [Clients -> Seq(Texts \cup {EndA, EndB})]
    <3>1. down \in [Clients -> Seq(Texts \cup {EndA, EndB})]
      BY DEF IInv, TypeOK
    <3>2. CASE UNCHANGED down
      BY <3>1, <3>2
    <3>3. ASSUME NEW t \in Texts, down' = [down EXCEPT ![c] = Append(@, t)]
          PROVE  down' \in [Clients -> Seq(Texts \cup {EndA, EndB})]
      BY <2>1, <3>1, <3>3
    <3> QED  BY <3>2, <3>3 DEF Execute
  <2>3. child' = [child EXCEPT ![c] = "ending"] \/ child' = [child EXCEPT ![c] = "crashed"]
    BY DEF Execute
  <2> QED  BY <2>2, <2>3 DEF IInv, TypeOK, Execute
<1>2. Apart(c)
  BY DEF IInv, TypeOK, Execute, Apart
<1>3. (Clean(c) => Connection(c))'
  <2> SUFFICES ASSUME Clean(c)'  PROVE Connection(c)'
    OBVIOUS
  <2>1. Connection(c)
    BY DEF IInv, Kept, Execute, Clean
  <2>2. CASE client[c] = "gone"
    BY <2>2 DEF Execute, Connection
  <2>3. CASE client[c] # "gone"
    <3>1. client[c] = "waiting" /\ up[c] = <<>> /\ down[c] = <<>>
      <4>1. client[c] = "waiting" /\ Served(c)
        BY <2>1, <2>3 DEF Execute, Connection, Asked
      <4> QED  BY <4>1 DEF Execute, Served
    <3>2. \A t \in Texts : Append(<<>>, t) = <<t>>
      OBVIOUS
    <3>3. client'[c] = "waiting" /\ up'[c] = <<>>
      BY <3>1 DEF Execute
    <3>4. CASE child'[c] = "crashed" /\ down'[c] = <<>>
      BY <3>3, <3>4 DEF Connection, Served
    <3>5. CASE child'[c] = "ending" /\ \E t \in Texts : down'[c] = <<t>>
      BY <3>3, <3>5 DEF Connection, Served
    <3>6. \/ child'[c] = "crashed" /\ down'[c] = <<>>
          \/ child'[c] = "ending" /\ \E t \in Texts : down'[c] = <<t>>
      <4>1. down \in [Clients -> Seq(Texts \cup {EndA, EndB})] /\ child' = [child EXCEPT ![c] = child'[c]]
        BY DEF IInv, TypeOK, Execute
      <4>2. ASSUME NEW t \in Texts, down' = [down EXCEPT ![c] = Append(@, t)]
            PROVE  down'[c] = <<t>>
        BY <3>1, <3>2, <4>1, <4>2
      <4>3. CASE \E t \in Texts : /\ down' = [down EXCEPT ![c] = Append(@, t)]
                                  /\ child' = [child EXCEPT ![c] = "ending"]
        BY <4>2, <4>3 DEF IInv, TypeOK
      <4>4. CASE child' = [child EXCEPT ![c] = "crashed"] /\ UNCHANGED down
        BY <3>1, <4>4 DEF IInv, TypeOK
      <4> QED  BY <4>3, <4>4 DEF Execute
    <3> QED  BY <3>4, <3>5, <3>6
  <2> QED  BY <2>2, <2>3
<1> QED  BY <1>1, <1>2, <1>3, KeptByOne DEF IInv

(* The end marks of an answer are written. *)
LEMMA WriteEndKeeps ==
  ASSUME IInv, NEW c \in Clients, WriteEnd(c)
  PROVE  IInv'
<1>1. TypeOK'
  <2>1. down[c] \o <<EndA, EndB>> \in Seq(Texts \cup {EndA, EndB})
    BY DEF IInv, TypeOK
  <2> QED  BY <2>1 DEF IInv, TypeOK, WriteEnd
<1>2. Apart(c)
  BY DEF IInv, TypeOK, WriteEnd, Apart
<1>3. (Clean(c) => Connection(c))'
  <2> SUFFICES ASSUME Clean(c)'  PROVE Connection(c)'
    OBVIOUS
  <2>1. Connection(c)
    BY DEF IInv, Kept, WriteEnd, Clean
  <2>2. CASE client[c] = "gone"
    BY <2>2 DEF WriteEnd, Connection
  <2>3. CASE client[c] # "gone"
    <3>1. client[c] = "waiting" /\ up[c] = <<>> /\ down[c] \in {<<>>} \cup {<<t>> : t \in Texts}
      <4>1. client[c] = "waiting" /\ Served(c)
        BY <2>1, <2>3 DEF WriteEnd, Connection, Asked
      <4> QED  BY <4>1 DEF WriteEnd, Served
    <3>2. <<>> \o <<EndA, EndB>> = <<EndA, EndB>>
      OBVIOUS
    <3>3. ASSUME NEW t \in Texts  PROVE <<t>> \o <<EndA, EndB>> = <<t, EndA, EndB>>
      <4> DEFINE S == Texts \cup {EndA, EndB}
      <4>1. <<t>> \in Seq(S) /\ <<EndA, EndB>> \in Seq(S) /\ <<t, EndA, EndB>> \in Seq(S)
        OBVIOUS
      <4> HIDE DEF S
      <4>2. /\ <<t>> \o <<EndA, EndB>> \in Seq(S)
            /\ Len(<<t>> \o <<EndA, EndB>>) = 3
            /\ \A i \in 1..3 : (<<t>> \o <<EndA, EndB>>)[i] = <<t, EndA, EndB>>[i]
        BY <4>1, ConcatProperties
      <4>3. \A i \in 1..Len(<<t>> \o <<EndA, EndB>>) :
              (<<t>> \o <<EndA, EndB>>)[i] = <<t, EndA, EndB>>[i]
        BY <4>2
      <4> QED  BY <4>1, <4>2, <4>3, SeqEqual
    <3>4. down[c] \o <<EndA, EndB>> \in Remainders
      BY <3>1, <3>2, <3>3 DEF Remainders
    <3>5. client'[c] = "waiting" /\ up'[c] = <<>> /\ child'[c] = "reading"
      BY <3>1 DEF IInv, TypeOK, WriteEnd
    <3>6. down'[c] \in Remainders
      BY <3>4 DEF IInv, TypeOK, WriteEnd
    <3>7. Served(c)'
      BY <3>5, <3>6 DEF Served, Remainders
    <3> QED  BY <3>5, <3>7 DEF Connection
  <2> QED  BY <2>2, <2>3
<1> QED  BY <1>1, <1>2, <1>3, KeptByOne DEF IInv

-----------------------------------------------------------------------------
(* Sequences of one and of two elements, by their elements. *)
LEMMA ShortSequences ==
  ASSUME NEW S, NEW s \in Seq(S), NEW a, NEW b
  PROVE  /\ Len(s) = 1 /\ s[1] = a => s = <<a>>
         /\ Len(s) = 2 /\ s[1] = a /\ s[2] = b => s = <<a, b>>
<1>1. s = [i \in 1..Len(s) |-> s[i]]
  BY LenProperties
<1>2. ASSUME Len(s) = 1, s[1] = a  PROVE s = <<a>>
  BY <1>1, <1>2
<1>3. ASSUME Len(s) = 2, s[1] = a, s[2] = b  PROVE s = <<a, b>>
  BY <1>1, <1>3
<1> QED  BY <1>2, <1>3

(* What may be left of an answer, by its length. *)
LEMMA RemainderForms ==
  ASSUME NEW stream \in Remainders
  PROVE  \/ \E t \in Texts : stream = <<t, EndA, EndB>> /\ Len(stream) = 3
         \/ stream = <<EndA, EndB>> /\ Len(stream) <= 2
         \/ stream \in {<<EndB>>, <<>>} /\ Len(stream) <= 1 /\ Len(stream) <= 2
<1>1. CASE stream \in {<<t, EndA, EndB>> : t \in Texts}
  BY <1>1
<1>2. CASE stream = <<EndA, EndB>>
  BY <1>2
<1>3. CASE stream = <<EndB>>
  <2>1. Len(<<EndB>>) <= 1 /\ Len(<<EndB>>) <= 2
    OBVIOUS
  <2> QED  BY <1>3, <2>1
<1>4. CASE stream = <<>>
  <2>1. Len(<<>>) <= 1 /\ Len(<<>>) <= 2
    BY EmptySeq
  <2> QED  BY <1>4, <2>1
<1> QED  BY <1>1, <1>2, <1>3, <1>4 DEF Remainders

(* What is left of an answer when some of it has been read. *)
LEMMA RemaindersRead ==
  ASSUME NEW stream \in Remainders, NEW what, NEW k \in Reads(stream, what)
  PROVE  /\ Rest(stream, k) \in Remainders
         /\ k < Len(stream) => First(stream, k)[k] # EndB \/ First(stream, k)[k] \in Texts
         /\ k = Len(stream) => Rest(stream, k) = <<>>
<1> DEFINE S == Texts \cup {EndA, EndB}
<1>1. stream \in Seq(S)
  <2>1. \A t \in Texts : <<t, EndA, EndB>> \in Seq(S)
    OBVIOUS
  <2>2. <<EndA, EndB>> \in Seq(S) /\ <<EndB>> \in Seq(S) /\ <<>> \in Seq(S)
    OBVIOUS
  <2> HIDE DEF S
  <2> QED  BY <2>1, <2>2, RemainderForms
<1> HIDE DEF S
<1>2. /\ k \in 1..Len(stream)
      /\ \A i \in 1..k : First(stream, k)[i] = stream[i]
      /\ Rest(stream, k) \in Seq(S) /\ Len(Rest(stream, k)) = Len(stream) - k
      /\ \A i \in 1..(Len(stream) - k) : Rest(stream, k)[i] = stream[k + i]
  BY <1>1, ReadSplits
<1>3. k = Len(stream) => Rest(stream, k) = <<>>
  BY <1>2, EmptySeq
<1>4. First(stream, k)[k] = stream[k]
  BY <1>2
<1>5. ASSUME NEW t \in Texts, stream = <<t, EndA, EndB>>, k < Len(stream)
      PROVE  Rest(stream, k) \in {<<EndA, EndB>>, <<EndB>>} /\ (stream[k] # EndB \/ stream[k] \in Texts)
  <2>1. k \in {1, 2}
    BY <1>2, <1>5
  <2>2. CASE k = 1
    <3>1. Len(Rest(stream, k)) = 2 /\ Rest(stream, k)[1] = EndA /\ Rest(stream, k)[2] = EndB
      BY <1>2, <1>5, <2>2
    <3>2. Rest(stream, k) = <<EndA, EndB>>
      <4>1. Rest(stream, k) \in Seq(S)
        BY <1>2
      <4> QED  BY <3>1, <4>1, ShortSequences
    <3> QED  BY <1>5, <2>2, <3>2
  <2>3. CASE k = 2
    <3>1. Len(Rest(stream, k)) = 1 /\ Rest(stream, k)[1] = EndB
      BY <1>2, <1>5, <2>3
    <3>2. Rest(stream, k) = <<EndB>>
      BY <1>2, <3>1, ShortSequences
    <3> QED  BY <1>5, <2>3, <3>2 DEF EndA, EndB
  <2> QED  BY <2>1, <2>2, <2>3
<1>6. ASSUME stream = <<EndA, EndB>>, k < Len(stream)
      PROVE  Rest(stream, k) = <<EndB>> /\ stream[k] # EndB
  <2>1. k = 1
    BY <1>2, <1>6
  <2>2. Len(Rest(stream, k)) = 1 /\ Rest(stream, k)[1] = EndB
    BY <1>2, <1>6, <2>1
  <2>3. Rest(stream, k) = <<EndB>>
    BY <1>2, <2>2, ShortSequences
  <2> QED  BY <1>6, <2>1, <2>3 DEF EndA, EndB
<1>7. CASE k = Len(stream)
  BY <1>3, <1>7 DEF Remainders
<1>8. CASE k < Len(stream)
  <2>1. (\E t \in Texts : stream = <<t, EndA, EndB>>) \/ stream = <<EndA, EndB>>
    <3>1. 1 <= k /\ k \in Int /\ Len(stream) \in Nat
      BY <1>1, <1>2, LenProperties
    <3>2. ~(Len(stream) <= 1)
      BY <1>8, <3>1
    <3>3. \/ (\E t \in Texts : stream = <<t, EndA, EndB>>) \/ stream = <<EndA, EndB>>
          \/ Len(stream) <= 1
      BY RemainderForms
    <3> QED  BY <3>2, <3>3
  <2> QED  BY <1>4, <1>5, <1>6, <1>8, <2>1 DEF Remainders
<1> QED  BY <1>2, <1>7, <1>8

(* A client takes an answer for complete when it is, or is not clean.       *)
LEMMA ReadAnswerKeeps ==
  ASSUME IInv, NEW c \in Clients, ReadAnswer(c)
  PROVE  IInv'
<1> DEFINE S == Texts \cup {EndA, EndB}
<1>0. down[c] \in Seq(S)
  BY DEF IInv, TypeOK
<1>1. PICK k \in Reads(down[c], "answer"), hidden \in {FALSE, rec[c] = "unset"} :
       LET chunk == First(down[c], k)
           over  == Ends(chunk) /\ ~hidden
       IN  /\ client' = [client EXCEPT ![c] = IF over THEN "prompt" ELSE @]
           /\ down' = [down EXCEPT ![c] = Rest(@, k)]
           /\ Harm(c, {h \in {"end", "mimic"} :
                         \/ h = "end" /\ (chunk[k] = EndA \/ (Ends(chunk) /\ hidden))
                         \/ h = "mimic" /\ chunk[k] = Mimic /\ over})
  BY DEF ReadAnswer
<1> HIDE DEF S
<1>2. /\ k \in 1..Len(down[c]) /\ Len(down[c]) \in Nat
      /\ Len(First(down[c], k)) = k
      /\ \A i \in 1..k : First(down[c], k)[i] = down[c][i]
      /\ Rest(down[c], k) \in Seq(S) /\ Len(Rest(down[c], k)) = Len(down[c]) - k
  BY <1>0, ReadSplits, LenProperties
<1>3. TypeOK'
  BY <1>1, <1>2 DEF IInv, TypeOK, ReadAnswer, Harm, S
<1>4. Apart(c)
  BY <1>1 DEF IInv, TypeOK, ReadAnswer, Harm, Apart
<1>5. (Clean(c) => Connection(c))'
  <2> SUFFICES ASSUME Clean(c)'  PROVE Connection(c)'
    OBVIOUS
  <2> DEFINE chunk == First(down[c], k)
  <2>1. Clean(c) /\ ~(chunk[k] = Mimic /\ Ends(chunk) /\ ~hidden)
    BY <1>1 DEF IInv, TypeOK, Clean, Harm
  <2>2. client[c] = "waiting" /\ Served(c)
    <3>1. Connection(c) /\ client[c] = "waiting"
      BY <2>1 DEF IInv, Kept, ReadAnswer
    <3>2. down[c] # <<>>
      BY <1>2
    <3> QED  BY <3>1, <3>2 DEF Connection, Asked
  <2>3. down'[c] = Rest(down[c], k) /\ UNCHANGED <<up, child>>
    BY <1>1 DEF IInv, TypeOK, ReadAnswer
  <2>4. client'[c] = IF Ends(chunk) /\ ~hidden THEN "prompt" ELSE "waiting"
    BY <1>1, <2>2 DEF IInv, TypeOK
  <2>5. CASE child[c] = "ending"
    <3>1. PICK t \in Texts : down[c] = <<t>>
      BY <1>2, <2>2, <2>5 DEF Served
    <3>2. k = 1
      BY <1>2, <3>1
    <3>3. Rest(down[c], k) = <<>>
      BY <1>2, <3>1, <3>2, EmptySeq
    <3>4. ~(Ends(chunk) /\ ~hidden)
      BY <1>2, <2>1, <3>2 DEF Ends
    <3> QED  BY <2>2, <2>3, <2>4, <2>5, <3>3, <3>4 DEF Connection, Served
  <2>6. CASE child[c] = "reading"
    <3>1. down[c] \in Remainders
      BY <1>2, <2>2, <2>6 DEF Served
    <3>2. Rest(down[c], k) \in Remainders
      BY <3>1, RemaindersRead
    <3>3. CASE Ends(chunk) /\ ~hidden
      <4>1. k > 1 /\ chunk[k - 1] = EndA /\ chunk[k] = EndB
        BY <1>2, <2>1, <3>3 DEF Ends
      <4>2. down[c][k - 1] = EndA /\ down[c][k] = EndB
        BY <1>2, <4>1
      <4>3. k = Len(down[c])
        <5>1. CASE \E t \in Texts : down[c] = <<t, EndA, EndB>> /\ Len(down[c]) = 3
          <6>1. k # 2
            BY <4>2, <5>1 DEF EndA, EndB
          <6> QED  BY <1>2, <4>1, <5>1, <6>1
        <5>2. CASE Len(down[c]) <= 2
          <6>1. k \in 1..Len(down[c]) /\ k > 1 /\ Len(down[c]) \in Nat
            BY <1>2, <4>1
          <6> QED  BY <5>2, <6>1
        <5>3. (\E t \in Texts : down[c] = <<t, EndA, EndB>> /\ Len(down[c]) = 3) \/ Len(down[c]) <= 2
          BY <3>1, RemainderForms
        <5> QED  BY <5>1, <5>2, <5>3
      <4>4. Rest(down[c], k) = <<>>
        BY <3>1, <4>3, RemaindersRead
      <4> QED  BY <2>2, <2>3, <2>4, <2>6, <3>3, <4>4 DEF Connection, Silent, Served
    <3>4. CASE ~(Ends(chunk) /\ ~hidden)
      <4>1. client'[c] = "waiting" /\ child'[c] = "reading" /\ up'[c] = <<>> /\ down'[c] \in Remainders
        BY <2>2, <2>3, <2>4, <2>6, <3>2, <3>4 DEF Served
      <4>2. Served(c)'
        BY <4>1 DEF Served, Remainders
      <4> QED  BY <4>1, <4>2 DEF Connection
    <3> QED  BY <3>3, <3>4
  <2>7. child[c] \in {"ending", "reading"}
    BY <1>2, <2>2 DEF Served
  <2> QED  BY <2>5, <2>6, <2>7
<1> QED  BY <1>3, <1>4, <1>5, KeptByOne DEF IInv

-----------------------------------------------------------------------------
(* The invariant holds before the first connection. *)
LEMMA InitIInv == Init => IInv
BY BoundsAssumption DEF Init, IInv, TypeOK, Kept, Connection, Silent

(* The invariant is kept by every step. *)
LEMMA NextIInv == IInv /\ [Next]_vars => IInv'
<1> SUFFICES ASSUME IInv, [Next]_vars  PROVE IInv'
  OBVIOUS
<1>1. ASSUME NEW c \in Clients, User(c)  PROVE IInv'
  BY <1>1, DialKeeps, TypeLineKeeps, SendKeeps, SendQuitKeeps DEF User
<1>2. ASSUME NEW c \in Clients, Serve(c)  PROVE IInv'
  BY <1>2, AcceptKeeps, ReadStatementKeeps, ReadNothingKeeps, ExecuteKeeps, WriteEndKeeps DEF Serve
<1>3. ASSUME NEW c \in Clients, ReadAnswer(c)  PROVE IInv'
  BY <1>3, ReadAnswerKeeps
<1>4. CASE AcceptFails
  BY <1>4, AcceptFailsKeeps
<1>5. CASE UNCHANGED vars
  <2>1. TypeOK'
    BY <1>5 DEF IInv, TypeOK, vars
  <2>2. Kept'
    BY <1>5 DEF IInv, vars, Kept, Clean, Connection, Silent, Asked, Served
  <2> QED  BY <2>1, <2>2 DEF IInv
<1> QED  BY <1>1, <1>2, <1>3, <1>4, <1>5 DEF Next

(* Every connection that is clean is in one of the states listed above. *)
THEOREM Invariance == Spec => []IInv
<1>1. Init => IInv
  BY InitIInv
<1>2. IInv /\ [Next]_vars => IInv'
  BY NextIInv
<1> QED  BY <1>1, <1>2, PTL DEF Spec

(* The types, for every number of clients and descriptors. *)
THEOREM TypeCorrect == Spec => []TypeOK
<1>1. IInv => TypeOK
  BY DEF IInv
<1> QED  BY <1>1, Invariance, PTL

(* A client that may type has read its whole answer and its child waits    *)
(* (start_client and the loop of the child in start_server).               *)
THEOREM StaysInStep == Spec => []InStep
<1>1. IInv => InStep
  BY DEF IInv, Kept, InStep, Clean, Connection, Silent
<1> QED  BY <1>1, Invariance, PTL

=============================================================================
