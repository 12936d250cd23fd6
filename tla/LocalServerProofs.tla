-------------------------- MODULE LocalServerProofs --------------------------
(***************************************************************************)
(* Proofs about the running local server for any number of clients and     *)
(* descriptors, any queue size and any number of messages.                 *)
(***************************************************************************)
EXTENDS LocalServer, FiniteSetTheorems, SequenceTheorems, TLAPS

Message == [from : Clients, number : Nat, kind : {"command", "short", "exit"}]
Command == [from : Clients, text : Seq(Message)]
Answer == [from : Clients, fills : BOOLEAN]

(* What the type invariant leaves out: the contents of the streams and of  *)
(* the queue, and what the program counters say of the local variables.    *)
StreamTypes ==
  /\ spc # "accept" => sock \in Fds /\ client \in Clients
  /\ str \in Seq(Message)
  /\ queue \in Seq(Command) /\ backlog \in Seq(Clients)
  /\ inbox \in [Clients -> Seq(Message)]
  /\ outbox \in [Clients -> Seq(Answer)]
  /\ IF kpc = "pop" THEN job = NoJob ELSE job \in Command
  /\ IF kpc = "write" THEN peer \in Clients /\ left \in {1, 2} ELSE peer = NULL
  /\ kpc = "lookup" \/ kpc = "read" \/ kpc = "send" \/ kpc = "write" =>
       output \in Answers \cup (IF world.long THEN {"long"} ELSE {})
  /\ \A c \in Clients : cpc[c] # "done" => sent[c] <= world.quota

(* The table of clients and the descriptors, spelt out: only the client    *)
(* being served has an entry, and only its connection is open.             *)
Served == /\ clients = [c \in Clients |->
                          IF c = client /\ spc \notin {"accept", "close"} THEN sock ELSE NULL]
          /\ files = [f \in Fds |-> IF f = sock /\ spc # "accept" THEN client ELSE NULL]

(* A connection waits once, is served, and is closed for good.             *)
Connections ==
  /\ \A i \in 1..Len(backlog) :
       /\ cpc[backlog[i]] # "new" /\ backlog[i] \notin hungup
       /\ spc # "accept" => backlog[i] # client
       /\ \A j \in 1..Len(backlog) : backlog[i] = backlog[j] => i = j
  /\ spc # "accept" => cpc[client] # "new" /\ client \notin hungup
  /\ \A c \in hungup : cpc[c] # "new"

(* The server serves c and has read all c sent, and c waits for an answer. *)
Waits(c) == spc = "recv" /\ client = c /\ cpc[c] = "waiting" /\ inbox[c] = <<>>

(* Where a message may be under calm circumstances: in the inbox, in the   *)
(* hands of the server, in the queue, with the consumer or in the outbox,  *)
(* and in one of these places only.                                        *)
OnePlace ==
  /\ \A c \in Clients : inbox[c] # <<>> =>
       /\ Len(inbox[c]) = 1 /\ c \notin hungup
       /\ cpc[c] = IF inbox[c][1].kind = "exit" THEN "done" ELSE "waiting"
  /\ str # <<>> =>
       /\ spc \in {"drain", "add", "forget", "close"} /\ Len(str) = 1
       /\ cpc[client] = IF str[1].kind = "exit" THEN "done" ELSE "waiting"
       /\ spc = "add" => str[1].kind = "command"
  /\ spc \in {"drain", "add"} => str # <<>>
  /\ spc \in {"forget", "close"} => str # <<>> \/ cpc[client] = "done"
  /\ spc \in {"drain", "add", "forget", "close"} => inbox[client] = <<>>
  /\ queue # <<>> => /\ Len(queue) = 1 /\ queue[1].from = client
                     /\ Waits(client) /\ kpc = "pop" /\ outbox[client] = <<>>
  /\ kpc # "pop" => job.from = client /\ Waits(client) /\ outbox[client] = <<>>
  /\ kpc = "send" => to = sock
  /\ kpc = "write" => peer = client /\ left = 1
  /\ \A c \in Clients : outbox[c] # <<>> =>
       Waits(c) /\ Len(outbox[c]) = 1 /\ outbox[c][1].from = c

(* A client that waits for an answer has a message in one of them.         *)
SomePlace ==
  \A c \in Clients : cpc[c] = "waiting" /\ c \notin hungup =>
    \/ inbox[c] # <<>> \/ outbox[c] # <<>>
    \/ spc # "accept" /\ client = c /\ (str # <<>> \/ queue # <<>> \/ kpc # "pop")

-----------------------------------------------------------------------------
(* Types *)

Typed == TypeOK /\ StreamTypes

(* What the streams and queues do when something is put in or taken out.   *)
LEMMA Appending ==
  ASSUME NEW S, NEW s \in Seq(S), NEW e \in S
  PROVE  /\ Append(s, e) \in Seq(S) /\ Append(s, e) # <<>>
         /\ Len(s) \in Nat /\ Len(Append(s, e)) = Len(s) + 1
         /\ \A i \in 1..Len(s) : Append(s, e)[i] = s[i]
         /\ Append(s, e)[Len(s) + 1] = e
BY AppendProperties, LenProperties

LEMMA Taking ==
  ASSUME NEW S, NEW s \in Seq(S), s # <<>>
  PROVE  /\ Head(s) \in S /\ Head(s) = s[1] /\ Tail(s) \in Seq(S)
         /\ Len(s) \in Nat /\ Len(s) >= 1 /\ Len(Tail(s)) = Len(s) - 1
         /\ \A i \in 1..Len(Tail(s)) : Tail(s)[i] = s[i + 1]
<1>1. Len(s) \in Nat \ {0}
  BY EmptySeq
<1> QED
  BY <1>1, HeadTailProperties

LEMMA TypedInit == Init => Typed
<1> SUFFICES ASSUME Init PROVE Typed
  OBVIOUS
<1>1. Len(<<>>) = 0
  BY EmptySeq
<1>2. world.quota \in Nat
  BY ServerAssumption DEF Init
<1>3. /\ Len(queue) <= Capacity /\ Len(backlog) <= LISTEN_BACKLOG + 1
      /\ left \in 0..2
  BY <1>1, ServerAssumption DEF Init, LISTEN_BACKLOG
<1>4. sent \in [Clients -> 0..(world.quota + 1)]
  BY <1>2 DEF Init
<1> QED
  BY <1>1, <1>2, <1>3, <1>4, ServerAssumption DEF Typed, TypeOK, StreamTypes, Init

(* A client that writes adds one message to its own stream.                *)
LEMMA Writing ==
  ASSUME Typed, NEW c \in Clients, NEW kind \in {"command", "short", "exit"},
         Write(c, kind)
  PROVE  /\ cpc[c] = "ready"
         /\ UNCHANGED <<server, consumer, clients, files, queue, backlog, outbox, hungup>>
         /\ inbox' \in [Clients -> Seq(Message)]
         /\ \A d \in Clients \ {c} : inbox'[d] = inbox[d] /\ sent'[d] = sent[d]
         /\ \E m \in Message : m.kind = kind /\ inbox'[c] = Append(inbox[c], m)
         /\ sent' \in [Clients -> Nat] /\ sent'[c] = sent[c] + 1
<1> DEFINE m == [from |-> c, number |-> sent[c] + 1, kind |-> kind]
<1>1. inbox \in [Clients -> Seq(Message)] /\ sent \in [Clients -> Nat]
  BY ServerAssumption DEF Typed, TypeOK, StreamTypes
<1>2. m \in Message
  BY <1>1 DEF Message
<1>3. /\ inbox' = [inbox EXCEPT ![c] = Append(inbox[c], m)]
      /\ sent' = [sent EXCEPT ![c] = sent[c] + 1]
      /\ cpc[c] = "ready"
      /\ UNCHANGED <<server, consumer, clients, files, queue, backlog, outbox, hungup>>
  BY DEF Write
<1> HIDE DEF m
<1>4. Append(inbox[c], m) \in Seq(Message)
  BY <1>1, <1>2, Appending
<1>5. m.kind = kind
  BY DEF m
<1> QED
  BY <1>1, <1>2, <1>3, <1>4, <1>5

(* Counting the messages of one client more.                               *)
LEMMA Counting ==
  ASSUME NEW q \in Nat, NEW f \in [Clients -> 0..(q + 1)], NEW c \in Clients, f[c] <= q
  PROVE  /\ [f EXCEPT ![c] = f[c] + 1] \in [Clients -> 0..(q + 1)]
         /\ f[c] < q => [f EXCEPT ![c] = f[c] + 1][c] <= q
OBVIOUS

LEMMA TypedStep == Typed /\ [Next]_vars => Typed'
<1> SUFFICES ASSUME Typed, [Next]_vars PROVE Typed'
  OBVIOUS
<1> USE ServerAssumption DEF Typed, TypeOK, StreamTypes, server, consumer, shell
<1>a. ASSUME UNCHANGED vars PROVE Typed'
  BY <1>a DEF vars, NoJob, LISTEN_BACKLOG
<1>b. world.quota \in Nat /\ world.kinds \subseteq {"command", "short"}
  OBVIOUS
<1>1. ASSUME NEW c \in Clients, Connect(c), UNCHANGED world PROVE Typed'
  <2>1. Append(backlog, c) \in Seq(Clients) /\ Len(Append(backlog, c)) = Len(backlog) + 1
    BY Appending
  <2> QED
    BY <1>1, <2>1, SMTT(30) DEF Connect, LISTEN_BACKLOG
<1>2. ASSUME NEW c \in Clients, Type(c), UNCHANGED world PROVE Typed'
  <2>1. ASSUME NEW k \in world.kinds, Write(c, k) PROVE Typed'
    <3>1. /\ cpc[c] = "ready" /\ sent[c] < world.quota
          /\ UNCHANGED <<server, consumer, clients, files, queue, backlog, outbox, hungup>>
          /\ cpc' = [cpc EXCEPT ![c] = "waiting"] /\ UNCHANGED world
      BY <1>2, <2>1 DEF Type, Write
    <3>2. /\ inbox' \in [Clients -> Seq(Message)]
          /\ sent' = [sent EXCEPT ![c] = @ + 1]
      BY <1>b, <2>1, Writing DEF Write
    <3>3. sent' \in [Clients -> 0..(world'.quota + 1)] /\ world' \in Worlds
      BY <1>b, <3>1, <3>2, Counting
    <3>4. /\ cpc' \in [Clients -> {"new", "ready", "waiting", "polling", "done"}]
          /\ sent'[c] <= world'.quota
          /\ \A d \in Clients \ {c} : cpc'[d] = cpc[d] /\ sent'[d] = sent[d]
      BY <1>b, <3>1, <3>2, Counting
    <3> QED
      BY <3>1, <3>2, <3>3, <3>4, SMTT(30) DEF NoJob
  <2> QED
    BY <1>2, <2>1 DEF Type
<1>3. ASSUME NEW c \in Clients, Exit(c), UNCHANGED world PROVE Typed'
  <2>1. /\ cpc[c] = "ready"
        /\ UNCHANGED <<server, consumer, clients, files, queue, backlog, outbox, hungup>>
        /\ cpc' = [cpc EXCEPT ![c] = "done"] /\ UNCHANGED world
    BY <1>3 DEF Exit, Write
  <2>2. /\ inbox' \in [Clients -> Seq(Message)]
        /\ sent' = [sent EXCEPT ![c] = @ + 1]
    BY <1>3, Writing DEF Exit, Write
  <2>3. sent' \in [Clients -> 0..(world'.quota + 1)] /\ world' \in Worlds
    BY <1>b, <2>1, <2>2, Counting
  <2>4. /\ cpc' \in [Clients -> {"new", "ready", "waiting", "polling", "done"}]
        /\ \A d \in Clients : cpc'[d] # "done" => sent'[d] <= world'.quota
    BY <1>b, <2>1, <2>2
  <2> QED
    BY <2>1, <2>2, <2>3, <2>4, SMTT(30) DEF NoJob
<1>4. ASSUME NEW c \in Clients, Receive(c), UNCHANGED world PROVE Typed'
  BY <1>4 DEF Receive
<1>5. ASSUME NEW c \in Clients, ReceiveEnd(c), UNCHANGED world PROVE Typed'
  BY <1>5 DEF ReceiveEnd
<1>6. ASSUME NEW c \in Clients, Leave(c), UNCHANGED world PROVE Typed'
  BY <1>6, SMTT(30) DEF Leave
<1>7. ASSUME Accept, UNCHANGED world PROVE Typed'
  <2>1. Head(backlog) \in Clients /\ Tail(backlog) \in Seq(Clients)
        /\ Len(Tail(backlog)) = Len(backlog) - 1
    BY <1>7, Taking DEF Accept
  <2>2. PICK f \in Fds : /\ sock' = f /\ files' = [files EXCEPT ![f] = Head(backlog)]
                         /\ clients' = [clients EXCEPT ![Head(backlog)] = f]
    BY <1>7 DEF Accept
  <2>3. /\ clients' \in [Clients -> Fds \cup {NULL}]
        /\ files' \in [Fds -> Clients \cup {NULL}]
    BY <2>1, <2>2
  <2>4. /\ Len(backlog') <= LISTEN_BACKLOG + 1 /\ backlog' \in Seq(Clients)
        /\ str' \in Seq(Message)
    BY <1>7, <2>1, EmptySeq DEF Accept, LISTEN_BACKLOG
  <2>5. sock' \in Fds /\ client' \in Clients /\ spc' = "recv"
    BY <1>7, <2>1, <2>2 DEF Accept
  <2> QED
    BY <1>7, <2>3, <2>4, <2>5 DEF Accept
<1>8. ASSUME Recv, UNCHANGED world PROVE Typed'
  BY <1>8 DEF Recv
<1>9. ASSUME EndOfText, UNCHANGED world PROVE Typed'
  BY <1>9 DEF EndOfText
<1>10. ASSUME Add, UNCHANGED world PROVE Typed'
  <2>1. [from |-> client, text |-> str] \in Command
    BY <1>10 DEF Add, Command
  <2>2. /\ Append(queue, [from |-> client, text |-> str]) \in Seq(Command)
        /\ Len(Append(queue, [from |-> client, text |-> str])) = Len(queue) + 1
        /\ Len(queue) \in Nat
    BY <2>1, Appending
  <2> QED
    BY <1>10, <2>2, EmptySeq DEF Add
<1>11. ASSUME Forget, UNCHANGED world PROVE Typed'
  BY <1>11 DEF Forget
<1>12. ASSUME Close, UNCHANGED world PROVE Typed'
  BY <1>12 DEF Close
<1>13. ASSUME Pop, UNCHANGED world PROVE Typed'
  BY <1>13 DEF Pop
<1>14. ASSUME Execute, UNCHANGED world PROVE Typed'
  BY <1>14 DEF Execute
<1>15. ASSUME Lookup, UNCHANGED world PROVE Typed'
  BY <1>15 DEF Lookup
<1>16. ASSUME Read, UNCHANGED world PROVE Typed'
  BY <1>16 DEF Read, Command
<1>17. ASSUME Send, UNCHANGED world PROVE Typed'
  BY <1>17 DEF Send, Done
<1>18. ASSUME Transfer, UNCHANGED world PROVE Typed'
  <2> DEFINE a == [from |-> job.from, fills |-> left > 1]
  <2>1. a \in Answer
    BY <1>18 DEF Transfer, Answer, Command
  <2>2. Append(outbox[peer], a) \in Seq(Answer)
    BY <1>18, <2>1, Appending DEF Transfer
  <2>3. outbox' \in [Clients -> Seq(Answer)]
    <3> HIDE DEF a
    <3> QED
      BY <1>18, <2>2, ZenonT(60) DEF Transfer, a
  <2> QED
    BY <1>18, <2>3, SMTT(30) DEF Transfer, Done
<1> QED
  BY <1>a, <1>1, <1>2, <1>3, <1>4, <1>5, <1>6, <1>7, <1>8, <1>9, <1>10, <1>11, <1>12,
     <1>13, <1>14, <1>15, <1>16, <1>17, <1>18
  DEF Next, Server, Consumer, Client

LEMMA TypedInvariant == Spec => []Typed
BY TypedInit, TypedStep, PTL DEF Spec

(* Every reachable state is well typed: the backlog and the command queue  *)
(* keep within their limits.                                               *)
THEOREM TypeCorrect == Spec => []TypeOK
BY TypedInvariant, PTL DEF Typed

-----------------------------------------------------------------------------
(* The table of clients *)

(* Only the server thread changes the table and the descriptors.           *)
LEMMA Elsewhere ==
  ASSUME Consumer \/ \E c \in Clients : Client(c)
  PROVE  UNCHANGED <<spc, sock, client, clients, files, hungup>>
<1>1. CASE Consumer
  BY <1>1 DEF Consumer, Pop, Execute, Lookup, Read, Send, Transfer, server
<1>2. ASSUME NEW c \in Clients, Client(c)
      PROVE  UNCHANGED <<spc, sock, client, clients, files, hungup>>
  BY <1>2 DEF Client, Connect, Type, Exit, Write, Receive, ReceiveEnd, Leave, server
<1> QED
  BY <1>1, <1>2

LEMMA ServedStep == Typed /\ Served /\ [Next]_vars => Served'
<1> SUFFICES ASSUME Typed, Served, [Next]_vars PROVE Served'
  OBVIOUS
<1> USE DEF Served
<1>1. ASSUME Accept PROVE Served'
  <2>1. Head(backlog) \in Clients
    BY <1>1, Taking DEF Accept, Typed, StreamTypes
  <2> QED
    BY <1>1, <2>1 DEF Accept
<1>2. CASE Recv
  BY <1>2 DEF Recv
<1>3. CASE EndOfText
  BY <1>3 DEF EndOfText
<1>4. CASE Add
  BY <1>4 DEF Add
<1>5. CASE Forget
  BY <1>5 DEF Forget
<1>6. CASE Close
  BY <1>6 DEF Close
<1>7. CASE Consumer \/ \E c \in Clients : Client(c)
  BY <1>7, Elsewhere
<1>8. CASE UNCHANGED vars
  BY <1>8 DEF vars, server
<1> QED
  BY <1>1, <1>2, <1>3, <1>4, <1>5, <1>6, <1>7, <1>8 DEF Next, Server

LEMMA ServedInvariant == Spec => []Served
<1>1. Init => Served
  BY DEF Init, Served
<1> QED
  BY <1>1, TypedInvariant, ServedStep, PTL DEF Spec

(* The table of clients and the open descriptors agree, however many       *)
(* clients come and go: bitu_server_run leaves no entry without its        *)
(* connection and no connection without its entry.                         *)
THEOREM TableCorrect == Spec => []TableMatchesFiles
<1>1. Typed /\ Served => TableMatchesFiles
  BY ServerAssumption DEF Typed, TypeOK, StreamTypes, Served, TableMatchesFiles
<1> QED
  BY <1>1, TypedInvariant, ServedInvariant, PTL

-----------------------------------------------------------------------------
(* Connections *)

LEMMA ConnectionsStep == Typed /\ Connections /\ [Next]_vars => Connections'
<1> SUFFICES ASSUME Typed, Connections, [Next]_vars PROVE Connections'
  OBVIOUS
<1>a. /\ backlog \in Seq(Clients) /\ Len(backlog) \in Nat /\ hungup \subseteq Clients
      /\ \A i \in 1..Len(backlog) : backlog[i] \in Clients
      /\ cpc \in [Clients -> {"new", "ready", "waiting", "polling", "done"}]
      /\ spc # "accept" => client \in Clients
  BY LenProperties, ElementOfSeq DEF Typed, TypeOK, StreamTypes
<1> USE DEF Connections
<1>1. ASSUME NEW c \in Clients, Connect(c) PROVE Connections'
  <2>1. /\ Len(backlog') = Len(backlog) + 1 /\ backlog'[Len(backlog) + 1] = c
        /\ \A i \in 1..Len(backlog) : backlog'[i] = backlog[i]
    BY <1>a, <1>1, Appending DEF Connect
  <2>2. /\ cpc[c] = "new" /\ cpc' = [cpc EXCEPT ![c] = "ready"]
        /\ UNCHANGED <<spc, client, hungup>>
    BY <1>1 DEF Connect, server
  <2> QED
    BY <1>a, <2>1, <2>2
<1>2. ASSUME NEW c \in Clients, Type(c) \/ Exit(c) \/ Receive(c) \/ ReceiveEnd(c) \/ Leave(c)
      PROVE  Connections'
  <2>1. /\ cpc[c] # "new" /\ cpc' = [cpc EXCEPT ![c] = cpc'[c]] /\ cpc'[c] # "new"
        /\ UNCHANGED <<spc, client, hungup, backlog>>
    BY <1>a, <1>2 DEF Type, Exit, Write, Receive, ReceiveEnd, Leave, server
  <2> QED
    BY <1>a, <2>1
<1>3. CASE Accept
  <2>1. /\ Head(backlog) = backlog[1] /\ Len(backlog) >= 1
        /\ Len(Tail(backlog)) = Len(backlog) - 1
        /\ \A i \in 1..(Len(backlog) - 1) : Tail(backlog)[i] = backlog[i + 1]
    BY <1>a, <1>3, Taking DEF Accept
  <2>2. /\ spc' = "recv" /\ client' = Head(backlog) /\ backlog' = Tail(backlog)
        /\ UNCHANGED <<hungup, cpc>>
    BY <1>3 DEF Accept, shell
  <2> QED
    BY <1>a, <2>1, <2>2
<1>4. CASE Recv \/ EndOfText \/ Add \/ Forget
  <2>1. UNCHANGED <<client, backlog, cpc, hungup>> /\ spc # "accept"
    BY <1>4 DEF Recv, EndOfText, Add, Forget, shell
  <2> QED
    BY <1>a, <2>1
<1>5. CASE Close
  BY <1>a, <1>5 DEF Close, shell
<1>6. CASE Consumer
  <2>1. UNCHANGED <<spc, client, backlog, cpc, hungup>>
    BY <1>6 DEF Consumer, Pop, Execute, Lookup, Read, Send, Transfer, server, shell
  <2> QED
    BY <2>1
<1>7. CASE UNCHANGED vars
  BY <1>7 DEF vars, server, shell
<1> QED
  BY <1>1, <1>2, <1>3, <1>4, <1>5, <1>6, <1>7 DEF Next, Server, Client

LEMMA ConnectionsInvariant == Spec => []Connections
<1>1. Init => Connections
  BY EmptySeq DEF Init, Connections
<1> QED
  BY <1>1, TypedInvariant, ConnectionsStep, PTL DEF Spec

-----------------------------------------------------------------------------
(* Calm circumstances *)

LEMMA OnePlaceStep ==
  ASSUME Typed, Served, Connections, Calm, OnePlace, [Next]_vars
  PROVE  OnePlace'
<1>a. /\ str \in Seq(Message) /\ queue \in Seq(Command) /\ backlog \in Seq(Clients)
      /\ inbox \in [Clients -> Seq(Message)] /\ outbox \in [Clients -> Seq(Answer)]
      /\ cpc \in [Clients -> {"new", "ready", "waiting", "polling", "done"}]
      /\ spc # "accept" => client \in Clients /\ client \notin hungup
      /\ spc \in {"accept", "recv", "drain", "add", "forget", "close"}
      /\ hungup \subseteq Clients
      /\ kpc = "pop" => job = NoJob
      /\ kpc # "write" => peer = NULL
      /\ kpc \in {"pop", "exec", "lookup", "read", "send", "write"}
      /\ NULL \notin Clients
      /\ \A c \in hungup : cpc[c] # "new"
      /\ spc # "accept" => cpc[client] # "new"
  BY ServerAssumption DEF Typed, TypeOK, StreamTypes, Connections
<1> USE DEF OnePlace, Waits
<1>1. ASSUME NEW c \in Clients, Connect(c) PROVE OnePlace'
  <2>1. /\ cpc[c] = "new" /\ cpc' = [cpc EXCEPT ![c] = "ready"]
        /\ UNCHANGED <<server, consumer, inbox, outbox, queue, hungup>>
    BY <1>1 DEF Connect
  <2> QED
    BY <1>a, <2>1 DEF server, consumer
<1>2. ASSUME NEW c \in Clients, NEW kind \in {"command", "short", "exit"}, Write(c, kind),
             cpc' = [cpc EXCEPT ![c] = IF kind = "exit" THEN "done" ELSE "waiting"]
      PROVE  OnePlace'
  <2>1. /\ cpc[c] = "ready" /\ (c \in hungup => peer = c)
        /\ UNCHANGED <<server, consumer, queue, outbox, hungup>>
    BY <1>2 DEF Write, StreamEnded
  <2>2. c \notin hungup /\ inbox[c] = <<>>
    BY <1>a, <2>1
  <2>3. PICK m \in Message : /\ m.kind = kind /\ inbox'[c] = Append(inbox[c], m)
                             /\ \A d \in Clients \ {c} : inbox'[d] = inbox[d]
    BY <1>2, Writing, SMTT(30)
  <2>4. Len(inbox'[c]) = 1 /\ inbox'[c][1] = m /\ inbox'[c] # <<>>
    BY <2>2, <2>3
  <2>5. \A d \in Clients : d # c => cpc'[d] = cpc[d] /\ inbox'[d] = inbox[d]
    BY <1>a, <1>2, <2>3
  <2>6. cpc'[c] = IF inbox'[c][1].kind = "exit" THEN "done" ELSE "waiting"
    BY <1>a, <1>2, <2>3, <2>4
  <2>7. spc # "accept" /\ client = c => /\ spc = "recv" /\ str = <<>> /\ queue = <<>> /\ kpc = "pop"
                                       /\ outbox[c] = <<>>
    BY <1>a, <2>1
  <2>8. \A d \in Clients : outbox[d] # <<>> => d # c
    BY <2>1
  <2> HIDE DEF OnePlace
  <2> DEFINE I(d) == inbox'[d] # <<>> =>
                       /\ Len(inbox'[d]) = 1 /\ d \notin hungup
                       /\ cpc'[d] = IF inbox'[d][1].kind = "exit" THEN "done" ELSE "waiting"
  <2>9. \A d \in Clients : I(d)
    BY <2>2, <2>4, <2>5, <2>6 DEF OnePlace
  <2>10. str # <<>> \/ spc \notin {"accept", "recv"} \/ queue # <<>> \/ kpc # "pop" => client # c
    BY <2>7, <2>1 DEF OnePlace
  <2> QED
    BY <1>a, <2>1, <2>5, <2>7, <2>8, <2>9, <2>10 DEF OnePlace, server, consumer
<1>3. ASSUME NEW c \in Clients, Type(c) PROVE OnePlace'
  BY <1>2, <1>3, ServerAssumption DEF Type, Typed, TypeOK
<1>4. ASSUME NEW c \in Clients, Exit(c) PROVE OnePlace'
  BY <1>2, <1>4 DEF Exit
<1>5. ASSUME NEW c \in Clients, Receive(c) PROVE OnePlace'
  <2>1. /\ cpc[c] \in {"waiting", "polling"} /\ outbox[c] # <<>>
        /\ outbox' = [outbox EXCEPT ![c] = <<>>]
        /\ cpc' = [cpc EXCEPT ![c] = "polling"]
        /\ UNCHANGED <<server, consumer, queue, inbox, hungup>>
    BY <1>5 DEF Receive
  <2> QED
    BY <1>a, <2>1 DEF server, consumer
<1>6. ASSUME NEW c \in Clients, ReceiveEnd(c) \/ Leave(c) PROVE OnePlace'
  <2>1. /\ cpc[c] \in {"ready", "polling"} \/ (cpc[c] = "waiting" /\ c \in hungup)
        /\ cpc' = [cpc EXCEPT ![c] = cpc'[c]]
        /\ UNCHANGED <<server, consumer, queue, inbox, outbox, hungup>>
    BY <1>a, <1>6 DEF ReceiveEnd, Leave, StreamEnded, Calm
  <2> QED
    BY <1>a, <2>1 DEF server, consumer
<1>7. CASE Accept
  <2>1. Head(backlog) \in Clients
    BY <1>a, <1>7, Taking DEF Accept
  <2>2. UNCHANGED <<consumer, shell, queue, inbox, outbox, hungup>> /\ spc = "accept"
        /\ spc' = "recv" /\ str' = <<>> /\ client' = Head(backlog)
    BY <1>7 DEF Accept
  <2> QED
    BY <1>a, <2>1, <2>2 DEF consumer, shell
<1>8. CASE Recv
  <2>1. spc = "recv" /\ str = <<>> /\ str' = inbox[client]
    BY <1>a, <1>8, ConcatEmptySeq DEF Recv
  <2> QED
    BY <1>a, <1>8, <2>1 DEF Recv, consumer, shell
<1>9. CASE EndOfText
  <2>1. str # <<>> => str[1].kind \in {"command", "short", "exit"}
    <3>1. str # <<>> => str[1] \in Message
      BY <1>a, ElementOfSeq
    <3> QED
      BY <3>1 DEF Message
  <2> QED
    BY <1>a, <1>9, <2>1 DEF EndOfText, GoodBye, consumer, shell
<1>10. CASE Add
  BY <1>a, <1>10 DEF Add, consumer, shell
<1>11. CASE Forget
  BY <1>a, <1>11 DEF Forget, consumer, shell
<1>12. CASE Close
  BY <1>a, <1>12 DEF Close, consumer, shell
<1>13. CASE Pop
  BY <1>a, <1>13 DEF Pop, server, shell
<1>14. CASE Execute
  BY <1>a, <1>14 DEF Execute, server, shell
<1>15. CASE Lookup
  BY <1>a, <1>15 DEF Lookup, server, shell
<1>16. CASE Read
  <2>1. client \in Clients /\ job.from = client /\ clients[client] = sock /\ sock # NULL
    BY <1>a, <1>16, ServerAssumption DEF Read, Served, Typed, StreamTypes
  <2> QED
    BY <1>a, <1>16, <2>1 DEF Read, server, shell
<1>17. CASE Send
  <2>1. to = sock /\ files[sock] = client /\ output # "long"
    BY <1>a, <1>17, ServerAssumption DEF Send, Served, Typed, TypeOK, StreamTypes, Calm
  <2> QED
    BY <1>a, <1>17, <2>1 DEF Send, Done, server, shell
<1>18. CASE Transfer
  BY <1>a, <1>18 DEF Transfer, Done, server, shell
<1>19. CASE UNCHANGED vars
  BY <1>19 DEF vars, server, consumer, shell
<1> QED
  BY <1>1, <1>3, <1>4, <1>5, <1>6, <1>7, <1>8, <1>9, <1>10, <1>11, <1>12, <1>13,
     <1>14, <1>15, <1>16, <1>17, <1>18, <1>19 DEF Next, Server, Consumer, Client

LEMMA OnePlaceInvariant == Spec => [](Calm => OnePlace)
<1>1. Init => OnePlace
  BY DEF Init, OnePlace, NoJob
<1>2. /\ Typed /\ Served /\ Connections /\ (Calm => OnePlace) /\ [Next]_vars
      => (Calm => OnePlace)'
  <2>1. [Next]_vars => UNCHANGED world
    BY DEF Next, Server, Consumer, Client, vars
  <2> QED
    BY <2>1, OnePlaceStep DEF Calm
<1> QED
  BY <1>1, <1>2, TypedInvariant, ServedInvariant, ConnectionsInvariant, PTL DEF Spec

(* When users wait for their answers and answers are short, the consumer   *)
(* never uses a client the server thread has freed, nor a descriptor it    *)
(* has closed or given to somebody else: hashtable_get of bitu_server_send *)
(* and hashtable_del of bitu_server_run are not synchronised, but then the *)
(* server thread is waiting for the very client the answer is for.         *)
THEOREM ClientSurvivesAnswer == Spec => []ClientOutlivesAnswer
<1>1. ASSUME Typed, Served, Calm => OnePlace PROVE ClientOutlivesAnswer
  <2> SUFFICES ASSUME Calm PROVE /\ kpc \in {"read", "send", "write"} => clients[job.from] # NULL
                                 /\ kpc = "send" => to # NULL /\ files[to] = job.from
                                 /\ AnswersToSender
    BY DEF ClientOutlivesAnswer
  <2>1. kpc # "pop" => job.from = client /\ spc = "recv"
    BY <1>1 DEF OnePlace, Waits
  <2>2. kpc # "pop" => /\ client \in Clients /\ sock \in Fds /\ sock # NULL
                       /\ clients[client] = sock /\ files[sock] = client
    BY <1>1, <2>1, ServerAssumption DEF Served, Typed, StreamTypes
  <2>3. kpc = "send" => to = sock
    BY <1>1 DEF OnePlace
  <2>4. ASSUME NEW c \in Clients, NEW i \in 1..Len(outbox[c]) PROVE outbox[c][i].from = c
    <3>1. outbox[c] # <<>>
      BY EmptySeq
    <3> QED
      BY <1>1, <3>1 DEF OnePlace
  <2> QED
    BY <2>1, <2>2, <2>3, <2>4 DEF AnswersToSender
<1> QED
  BY <1>1, TypedInvariant, ServedInvariant, OnePlaceInvariant, PTL

LEMMA SomePlaceStep ==
  ASSUME Typed, Served, Connections, Calm, OnePlace, SomePlace, [Next]_vars,
         "empty" \notin Answers
  PROVE  SomePlace'
<1>a. /\ str \in Seq(Message) /\ queue \in Seq(Command) /\ backlog \in Seq(Clients)
      /\ inbox \in [Clients -> Seq(Message)] /\ outbox \in [Clients -> Seq(Answer)]
      /\ cpc \in [Clients -> {"new", "ready", "waiting", "polling", "done"}]
      /\ spc # "accept" => client \in Clients
      /\ NULL \notin Clients
  BY ServerAssumption DEF Typed, TypeOK, StreamTypes
<1>b. kpc # "pop" => /\ job.from = client /\ spc = "recv" /\ cpc[client] = "waiting"
                     /\ clients[client] = sock /\ files[sock] = client /\ sock # NULL
  BY <1>a, ServerAssumption DEF OnePlace, Waits, Served, Typed, StreamTypes
<1> USE DEF SomePlace
<1>1. ASSUME NEW c \in Clients, Connect(c) PROVE SomePlace'
  BY <1>a, <1>1 DEF Connect, server, consumer
<1>2. ASSUME NEW c \in Clients, NEW kind \in {"command", "short"}, Write(c, kind),
             cpc' = [cpc EXCEPT ![c] = "waiting"]
      PROVE  SomePlace'
  <2>1. /\ inbox'[c] # <<>> /\ \A d \in Clients \ {c} : inbox'[d] = inbox[d]
        /\ UNCHANGED <<server, consumer, queue, outbox, hungup>>
    BY <1>a, <1>2, Writing, Appending
  <2> QED
    BY <1>a, <1>2, <2>1 DEF server, consumer
<1>3. ASSUME NEW c \in Clients, Type(c) PROVE SomePlace'
  BY <1>2, <1>3, ServerAssumption DEF Type, Typed, TypeOK
<1>4. ASSUME NEW c \in Clients, Exit(c) PROVE SomePlace'
  <2>1. /\ cpc' = [cpc EXCEPT ![c] = "done"]
        /\ \A d \in Clients \ {c} : inbox'[d] = inbox[d]
        /\ UNCHANGED <<server, consumer, queue, outbox, hungup>>
    BY <1>4, Writing DEF Exit
  <2> QED
    BY <1>a, <1>4, <2>1 DEF server, consumer
<1>5. ASSUME NEW c \in Clients, Receive(c) \/ ReceiveEnd(c) \/ Leave(c) PROVE SomePlace'
  BY <1>a, <1>5 DEF Receive, ReceiveEnd, Leave, server, consumer
<1>6. CASE Accept
  BY <1>a, <1>6 DEF Accept, consumer, shell
<1>7. CASE Recv
  <2>1. spc = "recv" /\ str = <<>> /\ str' = inbox[client]
    BY <1>a, <1>7, ConcatEmptySeq DEF Recv, OnePlace
  <2> QED
    BY <1>a, <1>7, <2>1 DEF Recv, consumer, shell
<1>8. CASE EndOfText
  BY <1>a, <1>8 DEF EndOfText, consumer, shell
<1>9. CASE Add
  <2>1. queue' # <<>>
    BY <1>a, <1>9 DEF Add
  <2> QED
    BY <1>a, <1>9, <2>1 DEF Add, consumer, shell
<1>10. CASE Forget
  BY <1>a, <1>10 DEF Forget, consumer, shell
<1>11. CASE Close
  BY <1>a, <1>11 DEF Close, consumer, shell
<1>12. CASE Pop
  BY <1>a, <1>12 DEF Pop, server, shell
<1>13. CASE Execute
  BY <1>a, <1>13 DEF Execute, server, shell
<1>14. CASE Lookup
  BY <1>a, <1>b, <1>14 DEF Lookup, server, shell
<1>15. CASE Read
  BY <1>a, <1>15 DEF Read, server, shell
<1>16. CASE Send
  <2>1. to = sock /\ output # "empty"
    BY <1>16 DEF Send, OnePlace, Typed, StreamTypes
  <2> QED
    BY <1>a, <1>b, <1>16, <2>1 DEF Send, server, shell
<1>17. CASE Transfer
  <2>1. peer = client /\ left = 1 /\ client \in Clients
    BY <1>a, <1>b, <1>17 DEF Transfer, OnePlace
  <2>2. outbox' = [outbox EXCEPT ![client] = outbox'[client]] /\ outbox'[client] # <<>>
    BY <1>a, <1>b, <1>17, <2>1 DEF Transfer
  <2> QED
    BY <1>a, <1>b, <1>17, <2>1, <2>2 DEF Transfer, Done, server, shell
<1>18. CASE UNCHANGED vars
  BY <1>18 DEF vars, server, consumer, shell
<1> QED
  BY <1>1, <1>3, <1>4, <1>5, <1>6, <1>7, <1>8, <1>9, <1>10, <1>11, <1>12, <1>13,
     <1>14, <1>15, <1>16, <1>17, <1>18 DEF Next, Server, Consumer, Client

LEMMA SomePlaceInvariant ==
  ASSUME "empty" \notin Answers
  PROVE  Spec => [](Calm => SomePlace)
<1>1. Init => SomePlace
  BY DEF Init, SomePlace
<1>2. /\ Typed /\ Served /\ Connections /\ (Calm => OnePlace) /\ (Calm => SomePlace)
      /\ [Next]_vars
      => (Calm => SomePlace)'
  <2>1. [Next]_vars => UNCHANGED world
    BY DEF Next, Server, Consumer, Client, vars
  <2> QED
    BY <2>1, SomePlaceStep DEF Calm
<1> QED
  BY <1>1, <1>2, TypedInvariant, ServedInvariant, ConnectionsInvariant, OnePlaceInvariant,
     PTL DEF Spec

(* How many commands of c the queue holds, when it holds at most one.      *)
LEMMA InQueue ==
  ASSUME NEW c, queue = <<>> \/ Len(queue) = 1
  PROVE  Cardinality({i \in 1..Len(queue) : queue[i].from = c}) =
           IF queue # <<>> /\ queue[1].from = c THEN 1 ELSE 0
<1> DEFINE S == {i \in 1..Len(queue) : queue[i].from = c}
<1>1. Len(<<>>) = 0
  BY EmptySeq
<1>2. S = IF queue # <<>> /\ queue[1].from = c THEN {1} ELSE {}
  BY <1>1
<1> HIDE DEF S
<1>3. Cardinality(S) = IF queue # <<>> /\ queue[1].from = c THEN 1 ELSE 0
  BY <1>2, FS_EmptySet, FS_Singleton
<1> QED
  BY <1>3 DEF S

(* When users wait for their answers, answers are short and no command     *)
(* answers with an empty text (bituctl waits for ever then: a run shows    *)
(* it), commands and answers alternate: nothing of a shell at its prompt   *)
(* is anywhere, and one message of a shell that waits.                     *)
THEOREM CommandsInStep ==
  ASSUME "empty" \notin Answers
  PROVE  Spec => []InStep
<1>1. ASSUME Typed, Connections, Calm => OnePlace, Calm => SomePlace PROVE InStep
  <2> SUFFICES ASSUME Calm, NEW c \in Clients
               PROVE  /\ cpc[c] \in {"new", "ready", "polling"} => Unanswered(c) = 0
                      /\ cpc[c] = "waiting" => Unanswered(c) = IF c \in hungup THEN 0 ELSE 1
    BY DEF InStep
  <2> DEFINE N == Cardinality({i \in 1..Len(queue) : queue[i].from = c})
  <2>1. N = IF queue # <<>> /\ queue[1].from = c THEN 1 ELSE 0
    BY <1>1, InQueue DEF OnePlace
  <2> HIDE DEF N
  <2>2. Unanswered(c) = Len(inbox[c]) + (IF client = c THEN Len(str) ELSE 0) + N
                        + (IF job.from = c THEN 1 ELSE 0) + Len(outbox[c])
    BY DEF Unanswered, N
  <2>3. /\ Len(inbox[c]) = IF inbox[c] = <<>> THEN 0 ELSE 1
        /\ Len(outbox[c]) = IF outbox[c] = <<>> THEN 0 ELSE 1
        /\ Len(str) = IF str = <<>> THEN 0 ELSE 1
    BY <1>1, EmptySeq DEF OnePlace
  <2>4. job.from = c => kpc # "pop" /\ client = c
    BY <1>1, ServerAssumption DEF OnePlace, Typed, StreamTypes, NoJob
  <2>5. ASSUME cpc[c] \in {"new", "ready", "polling"} PROVE Unanswered(c) = 0
    <3>1. inbox[c] = <<>> /\ outbox[c] = <<>> /\ N = 0 /\ job.from # c
          /\ (client = c => str = <<>>)
      BY <1>1, <2>1, <2>4, <2>5 DEF OnePlace, Waits
    <3> QED
      BY <2>2, <2>3, <3>1
  <2>6. ASSUME cpc[c] = "waiting", c \in hungup PROVE Unanswered(c) = 0
    <3>1. inbox[c] = <<>> /\ outbox[c] = <<>> /\ N = 0 /\ job.from # c
          /\ (client = c => str = <<>>)
      BY <1>1, <2>1, <2>4, <2>6 DEF OnePlace, Waits, Connections
    <3> QED
      BY <2>2, <2>3, <3>1
  <2>7. ASSUME cpc[c] = "waiting", c \notin hungup PROVE Unanswered(c) = 1
    <3>1. CASE inbox[c] # <<>>
      <4>1. outbox[c] = <<>> /\ N = 0 /\ job.from # c /\ (client = c => str = <<>>)
        BY <1>1, <2>1, <2>4, <3>1 DEF OnePlace, Waits
      <4> QED
        BY <2>2, <2>3, <3>1, <4>1
    <3>2. CASE outbox[c] # <<>>
      <4>1. inbox[c] = <<>> /\ N = 0 /\ job.from # c /\ (client = c => str = <<>>)
        BY <1>1, <2>1, <2>4, <3>2 DEF OnePlace, Waits
      <4> QED
        BY <2>2, <2>3, <3>2, <4>1
    <3>3. CASE spc # "accept" /\ client = c /\ str # <<>>
      <4>1. inbox[c] = <<>> /\ N = 0 /\ job.from # c /\ outbox[c] = <<>>
        BY <1>1, <2>1, <2>4, <3>3 DEF OnePlace, Waits
      <4> QED
        BY <2>2, <2>3, <3>3, <4>1
    <3>4. CASE client = c /\ queue # <<>>
      <4>1. inbox[c] = <<>> /\ N = 1 /\ job.from # c /\ outbox[c] = <<>> /\ str = <<>>
        BY <1>1, <2>1, <2>4, <3>4 DEF OnePlace, Waits
      <4> QED
        BY <2>2, <2>3, <3>4, <4>1
    <3>5. CASE client = c /\ kpc # "pop"
      <4>1. inbox[c] = <<>> /\ N = 0 /\ job.from = c /\ outbox[c] = <<>> /\ str = <<>>
        BY <1>1, <2>1, <2>4, <3>5 DEF OnePlace, Waits
      <4> QED
        BY <2>2, <2>3, <3>5, <4>1
    <3> QED
      BY <1>1, <2>7, <3>1, <3>2, <3>3, <3>4, <3>5 DEF SomePlace
  <2> QED
    BY <2>5, <2>6, <2>7
<1> QED
  BY <1>1, TypedInvariant, ConnectionsInvariant, OnePlaceInvariant, SomePlaceInvariant, PTL
=============================================================================
