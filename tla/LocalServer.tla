----------------------------- MODULE LocalServer -----------------------------
(***************************************************************************)
(* The local transport while its server runs: bitu_server_run and          *)
(* bitu_server_send of server.c, the callbacks of transport-local.c, and   *)
(* the bituctl processes (shell.c) at the other end of the socket.  Three  *)
(* kinds of processes meet here: the server thread, which accepts and      *)
(* reads; the consumer thread, which executes the queued commands and      *)
(* answers them; the clients.  The server thread and the consumer share    *)
(* the table of clients and the process's file descriptors, and lock       *)
(* neither.  The command queue between them is the one CommandFifo         *)
(* specifies.  A byte stream is a sequence of the pieces written to it.    *)
(***************************************************************************)
EXTENDS Naturals, Sequences, FiniteSets

CONSTANTS Clients,   \* bituctl processes; each connects once
          Fds,       \* file descriptor numbers accept may return
          Answers,   \* what commands answer: "NULL", "text", "empty"
          Worlds,    \* the circumstances to look at, see world
          Capacity,  \* COMMAND_QUEUE_SIZE
          NULL

LISTEN_BACKLOG == 1

ASSUME ServerAssumption == /\ IsFiniteSet(Clients) /\ IsFiniteSet(Fds) /\ Fds # {}
                           /\ Answers \subseteq {"NULL", "text", "empty"}
                           /\ Worlds \subseteq [patient : BOOLEAN, long : BOOLEAN,
                                                users : SUBSET Clients, quota : Nat,
                                                kinds : SUBSET {"command", "short"}]
                           /\ Capacity \in Nat \ {0}
                           /\ NULL \notin Clients \cup Fds

VARIABLES
  world,    \* .patient: FALSE if a user may interrupt a bituctl that waits;
            \* .long: TRUE if answers may be longer than a socket takes;
            \* .kinds: what they type, "short" being a single character;
            \* .users and .quota: who comes, and messages of each (bounds)
  \* server thread
  spc,      \* where bitu_server_run is; "recv" blocks in select, "drain" polls
  sock,     \* its local of that name, NULL before the first accept
  client,   \* client_id: whom the accepted connection belongs to
  str,      \* what the inner loop has read so far
  \* shared by the server and the consumer thread
  clients,  \* server->clients: the socket of each client in the table, or NULL
  files,    \* the connection behind each descriptor, or NULL when it is closed
  queue,    \* the command queue: [from, text], oldest first
  \* consumer thread
  kpc,      \* "pop", "exec", "lookup", "read", "send", "write" (inside send)
  job,      \* the command it executes
  output,   \* the answer of the command
  to,       \* the descriptor read from the client
  peer,     \* the client at the other end of it, inside send
  left,     \* pieces of the answer still to be written
  \* the connections
  backlog,  \* connections not accepted yet
  inbox,    \* inbox[c]: sent by c and not read by the server
  outbox,   \* outbox[c]: sent to c and not read: whose command it answers, and
            \* whether it fills the socket
  hungup,   \* clients whose connection the server has closed
  \* clients
  cpc,      \* "new", "ready", "waiting" (in bitu_shell_recv), "polling" (it has
            \* read something), "done"
  sent      \* messages each client sent

server == <<spc, sock, client, str>>
consumer == <<kpc, job, output, to, peer, left>>
shell == <<cpc, sent>>
vars == <<world, server, consumer, shell, clients, files, queue, backlog, inbox, outbox, hungup>>

NoJob == [from |-> NULL, text |-> <<>>]

Init == /\ world \in Worlds
        /\ spc = "accept" /\ sock = NULL /\ client = NULL /\ str = <<>>
        /\ kpc = "pop" /\ job = NoJob /\ output = NULL
        /\ to = NULL /\ peer = NULL /\ left = 0
        /\ clients = [c \in Clients |-> NULL]
        /\ files = [f \in Fds |-> NULL]
        /\ queue = <<>> /\ backlog = <<>>
        /\ inbox = [c \in Clients |-> <<>>]
        /\ outbox = [c \in Clients |-> <<>>]
        /\ hungup = {}
        /\ cpc = [c \in Clients |-> "new"]
        /\ sent = [c \in Clients |-> 0]

-----------------------------------------------------------------------------
(* Plausible bugs: wrong versions of the actions their names begin with,   *)
(* used only to test the properties.                                       *)

(* No limit on the connections that wait. *)
ConnectUnlimited(c) ==
  /\ cpc[c] = "new"
  /\ backlog' = Append(backlog, c)
  /\ cpc' = [cpc EXCEPT ![c] = "ready"]
  /\ UNCHANGED <<server, consumer, clients, files, queue, inbox, outbox, hungup, sent>>

(* The first call of bitu_server_recv polls, too. *)
EndOfTextPolling == /\ spc \in {"recv", "drain"}
                    /\ inbox[client] = <<>>
                    /\ spc' = IF str = <<>> THEN "forget" ELSE "add"
                    /\ UNCHANGED <<sock, client, str, consumer, shell, clients,
                                   files, queue, backlog, inbox, outbox, hungup>>

(* The end of the stream is not noticed. *)
EndOfTextMissed ==
  /\ spc = "drain" /\ inbox[client] = <<>>
  /\ spc' = IF Len(str) = 1 /\ str[1].kind \in {"exit", "short"} THEN "forget" ELSE "add"
  /\ UNCHANGED <<sock, client, str, consumer, shell, clients, files, queue,
                 backlog, inbox, outbox, hungup>>

(* The text is kept for the next round. *)
AddKeepingText == /\ spc = "add" /\ Len(queue) < Capacity /\ kpc = "pop"
                  /\ queue' = Append(queue, [from |-> client, text |-> str])
                  /\ spc' = "recv"
                  /\ UNCHANGED <<sock, client, str, consumer, shell, clients,
                                 files, backlog, inbox, outbox, hungup>>

(* No hashtable_del. *)
ForgetNothing == /\ spc = "forget"
                 /\ spc' = "close"
                 /\ UNCHANGED <<sock, client, str, clients, consumer, shell,
                                files, queue, backlog, inbox, outbox, hungup>>

(* Nothing is sent for a command without output. *)
SendNoTerminator ==
  /\ kpc = "send"
  /\ IF output # "NULL" /\ to # NULL /\ files[to] # NULL
       THEN /\ kpc' = "write" /\ peer' = files[to] /\ left' = 1
            /\ UNCHANGED <<job, output, to>>
       ELSE /\ kpc' = "pop" /\ job' = NoJob /\ output' = NULL /\ to' = NULL
            /\ UNCHANGED <<peer, left>>
  /\ UNCHANGED <<server, shell, clients, files, queue, backlog, inbox, outbox, hungup>>

(* No error from send: what is gone is waited for. *)
TransferWaiting ==
  /\ kpc = "write" /\ \A i \in 1..Len(outbox[peer]) : ~outbox[peer][i].fills
  /\ outbox' = [outbox EXCEPT ![peer] = Append(@, [from |-> job.from, fills |-> left > 1])]
  /\ IF left > 1 THEN left' = 1 /\ UNCHANGED <<kpc, job, output, to, peer>>
                 ELSE /\ kpc' = "pop" /\ job' = NoJob /\ output' = NULL /\ to' = NULL
                      /\ peer' = NULL /\ left' = 0
  /\ UNCHANGED <<server, shell, clients, files, queue, backlog, inbox, hungup>>

-----------------------------------------------------------------------------
(* bituctl *)

(* connect succeeds as soon as the connection fits in the backlog. *)
Connect(c) == /\ cpc[c] = "new" /\ c \in world.users
              /\ Len(backlog) <= LISTEN_BACKLOG
              /\ backlog' = Append(backlog, c)
              /\ cpc' = [cpc EXCEPT ![c] = "ready"]
              /\ UNCHANGED <<server, consumer, clients, files, queue, inbox, outbox,
                             hungup, sent>>

(* The stream ends for c: the server has closed the connection, and no     *)
(* send holds it any more.                                                 *)
StreamEnded(c) == c \in hungup /\ peer # c

(* Write a line of the user to the socket. *)
Write(c, kind) ==
  /\ cpc[c] = "ready" /\ ~StreamEnded(c)
  /\ inbox' = [inbox EXCEPT ![c] =
                 Append(@, [from |-> c, number |-> sent[c] + 1, kind |-> kind])]
  /\ sent' = [sent EXCEPT ![c] = @ + 1]
  /\ UNCHANGED <<server, consumer, clients, files, queue, backlog, outbox, hungup>>

(* A command: wait for its answer in bitu_shell_recv. *)
Type(c) == /\ sent[c] < world.quota
           /\ \E k \in world.kinds : Write(c, k)
           /\ cpc' = [cpc EXCEPT ![c] = "waiting"]

(* The user leaves the shell: good bye to the server, then close. *)
Exit(c) == /\ Write(c, "exit")
           /\ cpc' = [cpc EXCEPT ![c] = "done"]

(* bitu_shell_recv waits for something to read, takes what is there and    *)
(* polls for more.                                                         *)
Receive(c) == /\ cpc[c] \in {"waiting", "polling"} /\ outbox[c] # <<>>
              /\ outbox' = [outbox EXCEPT ![c] = <<>>]
              /\ cpc' = [cpc EXCEPT ![c] = "polling"]
              /\ UNCHANGED <<server, consumer, clients, files, queue, backlog,
                             inbox, hungup, sent>>

(* It returns when there is no more, or at the end of the stream. *)
ReceiveEnd(c) == /\ cpc[c] = "polling" \/ (cpc[c] = "waiting" /\ StreamEnded(c))
                 /\ outbox[c] = <<>>
                 /\ cpc' = [cpc EXCEPT ![c] = "ready"]
                 /\ UNCHANGED <<server, consumer, clients, files, queue, backlog,
                                inbox, outbox, hungup, sent>>

(* bituctl ends and its socket closes, without a good bye: the command of  *)
(* its command line was answered, it wrote to a connection the server had  *)
(* closed, or its user interrupted it.                                     *)
Leave(c) == /\ cpc[c] = "ready" \/ (cpc[c] = "waiting" /\ ~world.patient)
            /\ cpc' = [cpc EXCEPT ![c] = "done"]
            /\ UNCHANGED <<server, consumer, clients, files, queue, backlog,
                           inbox, outbox, hungup, sent>>

-----------------------------------------------------------------------------
(* The server thread: bitu_server_run *)

(* accept, and the entry in the table of clients. *)
Accept == /\ spc = "accept" /\ backlog # <<>>
          /\ \E f \in {g \in Fds : files[g] = NULL} :
               /\ sock' = f
               /\ files' = [files EXCEPT ![f] = Head(backlog)]
               /\ clients' = [clients EXCEPT ![Head(backlog)] = f]
          /\ client' = Head(backlog)
          /\ backlog' = Tail(backlog)
          /\ str' = <<>>
          /\ spc' = "recv"
          /\ UNCHANGED <<consumer, shell, queue, inbox, outbox, hungup>>

(* bitu_server_recv: all that has arrived is read; a second command that   *)
(* is there already becomes part of the first.                             *)
Recv == /\ spc \in {"recv", "drain"} /\ inbox[client] # <<>>
        /\ str' = str \o inbox[client]
        /\ inbox' = [inbox EXCEPT ![client] = <<>>]
        /\ spc' = "drain"
        /\ UNCHANGED <<sock, client, consumer, shell, clients, files, queue,
                       backlog, outbox, hungup>>

(* No text, "exit" and a single character mean good bye. *)
GoodBye == \/ str = <<>>
           \/ Len(str) = 1 /\ str[1].kind \in {"exit", "short"}

(* bitu_server_recv returns 0: the blocking call at the end of the stream, *)
(* the polling one as soon as nothing is there to be read.                 *)
EndOfText == /\ \/ spc = "recv" /\ cpc[client] = "done"
                \/ spc = "drain"
             /\ inbox[client] = <<>>
             /\ spc' = IF GoodBye THEN "forget" ELSE "add"
             /\ UNCHANGED <<sock, client, str, consumer, shell, clients, files,
                            queue, backlog, inbox, outbox, hungup>>

(* message_received: bitu_queue_add blocks while the queue is full, and    *)
(* while the consumer, which holds the mutex of the queue throughout,      *)
(* executes and answers a command.                                         *)
Add == /\ spc = "add" /\ Len(queue) < Capacity /\ kpc = "pop"
       /\ queue' = Append(queue, [from |-> client, text |-> str])
       /\ str' = <<>>
       /\ spc' = "recv"
       /\ UNCHANGED <<sock, client, consumer, shell, clients, files, backlog,
                      inbox, outbox, hungup>>

(* hashtable_del frees the client. *)
Forget == /\ spc = "forget"
          /\ clients' = [clients EXCEPT ![client] = NULL]
          /\ spc' = "close"
          /\ UNCHANGED <<sock, client, str, consumer, shell, files, queue,
                         backlog, inbox, outbox, hungup>>

Close == /\ spc = "close"
         /\ files' = [files EXCEPT ![sock] = NULL]
         /\ hungup' = hungup \cup {client}
         /\ str' = <<>>
         /\ spc' = "accept"
         /\ UNCHANGED <<sock, client, consumer, shell, clients, queue, backlog,
                        inbox, outbox>>

-----------------------------------------------------------------------------
(* The consumer thread: _exec_command and bitu_server_send *)

Pop == /\ kpc = "pop" /\ queue # <<>>
       /\ job' = Head(queue)
       /\ queue' = Tail(queue)
       /\ kpc' = "exec"
       /\ UNCHANGED <<output, to, peer, left, server, shell, clients, files, backlog,
                      inbox, outbox, hungup>>

Execute == /\ kpc = "exec"
           /\ output' \in Answers \cup (IF world.long THEN {"long"} ELSE {})
           /\ kpc' = "lookup"
           /\ UNCHANGED <<job, to, peer, left, server, shell, clients, files, queue,
                          backlog, inbox, outbox, hungup>>

(* hashtable_get: a client that is not in the table gets no answer. *)
Lookup == /\ kpc = "lookup"
          /\ IF clients[job.from] = NULL
               THEN kpc' = "pop" /\ job' = NoJob
               ELSE kpc' = "read" /\ UNCHANGED job
          /\ UNCHANGED <<output, to, peer, left, server, shell, clients, files, queue,
                         backlog, inbox, outbox, hungup>>

(* bitu_client_get_socket.  When the server thread has freed the client in *)
(* the meantime the field read may hold any number, NULL standing for one  *)
(* that is no descriptor.                                                  *)
Read == /\ kpc = "read"
        /\ IF clients[job.from] # NULL
             THEN to' = clients[job.from]
             ELSE to' \in Fds \cup {NULL}
        /\ kpc' = "send"
        /\ UNCHANGED <<job, output, peer, left, server, shell, clients, files, queue,
                       backlog, inbox, outbox, hungup>>

Done == /\ kpc' = "pop" /\ job' = NoJob /\ output' = NULL
        /\ to' = NULL /\ peer' = NULL /\ left' = 0

(* The answer goes to whatever connection the descriptor stands for when   *)
(* send is called; a closed one is an error.  A NULL output is sent as one *)
(* byte, and for an empty one send is not called.                          *)
Send == /\ kpc = "send"
        /\ IF output # "empty" /\ to # NULL /\ files[to] # NULL
             THEN /\ kpc' = "write"
                  /\ peer' = files[to] /\ left' = IF output = "long" THEN 2 ELSE 1
                  /\ UNCHANGED <<job, output, to>>
             ELSE Done
        /\ UNCHANGED <<server, shell, clients, files, queue, backlog, inbox,
                       outbox, hungup>>

(* Inside send: it blocks while the socket is full, as it is after the     *)
(* first part of a long answer, and fails once the client is gone.  All    *)
(* that time the queue is locked (app.c:86-179).                           *)
Transfer ==
  /\ kpc = "write"
  /\ IF cpc[peer] = "done"
       THEN Done /\ UNCHANGED outbox
       ELSE /\ \A i \in 1..Len(outbox[peer]) : ~outbox[peer][i].fills
            /\ outbox' = [outbox EXCEPT ![peer] =
                            Append(@, [from |-> job.from, fills |-> left > 1])]
            /\ IF left > 1 THEN left' = left - 1 /\ UNCHANGED <<kpc, job, output, to, peer>>
                           ELSE Done
  /\ UNCHANGED <<server, shell, clients, files, queue, backlog, inbox, hungup>>

-----------------------------------------------------------------------------
Client(c) == /\ Connect(c) \/ Type(c) \/ Exit(c) \/ Receive(c) \/ ReceiveEnd(c) \/ Leave(c)
             /\ UNCHANGED world
Server == /\ Accept \/ Recv \/ EndOfText \/ Add \/ Forget \/ Close
          /\ UNCHANGED world
Consumer == /\ Pop \/ Execute \/ Lookup \/ Read \/ Send \/ Transfer
            /\ UNCHANGED world

Next == Server \/ Consumer \/ \E c \in Clients : Client(c)

Spec == Init /\ [][Next]_vars

(* Both threads run.  A client that waits for an answer or reads it goes   *)
(* on, and a user at the prompt types something or leaves; nobody has to   *)
(* connect or to interrupt.                                                *)
FairSpec == /\ Spec
            /\ WF_vars(Server) /\ WF_vars(Consumer)
            /\ \A c \in Clients : /\ WF_vars(cpc[c] \in {"waiting", "polling"} /\ Client(c))
                                  /\ WF_vars(cpc[c] = "ready" /\ Client(c))

-----------------------------------------------------------------------------
(* Type invariant, with the bounds of the backlog and of the queue.        *)
TypeOK ==
  /\ world \in Worlds
  /\ spc \in {"accept", "recv", "drain", "add", "forget", "close"}
  /\ sock \in Fds \cup {NULL} /\ client \in Clients \cup {NULL}
  /\ kpc \in {"pop", "exec", "lookup", "read", "send", "write"}
  /\ output \in Answers \cup {"long", NULL} /\ to \in Fds \cup {NULL}
  /\ peer \in Clients \cup {NULL} /\ left \in 0..2
  /\ clients \in [Clients -> Fds \cup {NULL}]
  /\ files \in [Fds -> Clients \cup {NULL}]
  /\ Len(queue) <= Capacity
  /\ Len(backlog) <= LISTEN_BACKLOG + 1
  /\ hungup \subseteq Clients
  /\ cpc \in [Clients -> {"new", "ready", "waiting", "polling", "done"}]
  /\ sent \in [Clients -> 0..(world.quota + 1)]

(* What holds in good circumstances only: users wait for their answers,    *)
(* and these are short.                                                    *)
Calm == world.patient /\ ~world.long

(* Nobody receives the answer to somebody else's command (server.c:311-313,*)
(* 239-259).                                                               *)
AnswersToSender == \A c \in Clients : \A i \in 1..Len(outbox[c]) : outbox[c][i].from = c

(* In good circumstances this is so, although the consumer uses a client   *)
(* it looked up, and a descriptor it read from it, while the server thread *)
(* may free and close both: it never uses them after that (server.c:239,   *)
(* 255, 259 against 368-369).                                              *)
ClientOutlivesAnswer ==
  Calm => /\ kpc \in {"read", "send", "write"} => clients[job.from] # NULL
          /\ kpc = "send" => to # NULL /\ files[to] = job.from
          /\ AnswersToSender

(* Messages of c that have not led to an answer read by c yet.             *)
Unanswered(c) == Len(inbox[c]) + (IF client = c THEN Len(str) ELSE 0)
                 + Cardinality({i \in 1..Len(queue) : queue[i].from = c})
                 + (IF job.from = c THEN 1 ELSE 0) + Len(outbox[c])

(* In good circumstances commands and answers alternate: a shell at its    *)
(* prompt has nothing outstanding anywhere, one that waits exactly one     *)
(* message, so that no two commands are ever joined (server.c:327-358,     *)
(* shell.c:316-360).                                                       *)
InStep == Calm =>
  \A c \in Clients :
    /\ cpc[c] \in {"new", "ready", "polling"} => Unanswered(c) = 0
    /\ cpc[c] = "waiting" => Unanswered(c) = IF c \in hungup THEN 0 ELSE 1

(* An entry of the table always names the open connection of its client,   *)
(* and nothing is left behind for the next accept (server.c:314-316,       *)
(* 366-369).                                                               *)
TableMatchesFiles ==
  /\ \A c \in Clients : clients[c] # NULL => files[clients[c]] = c
  /\ \A f \in Fds : files[f] # NULL => clients[files[f]] = f \/ spc = "close"
  /\ spc = "accept" => \A f \in Fds : files[f] = NULL

(* A bituctl that waits for an answer moves on (server.c:242-243).         *)
ClientsMoveOn == \A c \in Clients : cpc[c] = "waiting" ~> cpc[c] # "waiting"

(* A connection in the backlog is accepted, served and closed in the end:  *)
(* the server serves one client at a time (server.c:281-380).              *)
ServedInTurn == \A c \in Clients :
                  (\E i \in 1..Len(backlog) : backlog[i] = c) ~> c \in hungup

(* The mutex of the queue, which the consumer holds while it executes and  *)
(* answers a command, is free again and again, though a client that has    *)
(* stopped reading blocks the send: bituctl reads when its user types the  *)
(* next line, and reads or is gone before it has to wait for the server    *)
(* (app.c:168-179, transport.c:584-618, server.c:257-268).                 *)
QueueIsReleased == []<>(kpc = "pop")
=============================================================================
