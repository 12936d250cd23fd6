-------------------------- MODULE TransportManager --------------------------
(***************************************************************************)
(* The connection manager of transport.c, the life cycle of the three      *)
(* kinds of transports it holds (transport-local.c, transport-irc.c,       *)
(* transport-xmpp.c), and the `transport' command of app.c that drives     *)
(* both.  A transport owns a session: the local server, the IRC session or *)
(* the XMPP client.  Main connects the configured transports, one thread   *)
(* is spawned for each, and from then on the consumer thread adds,         *)
(* removes, connects and disconnects transports while their threads run.   *)
(*                                                                         *)
(* Nothing here is reference counted.  The model keeps track of what has   *)
(* been freed; a step that uses a freed or missing object sets fault and   *)
(* ends the behaviour, as nothing is known of the program after it.        *)
(* Statuses rely on TA_OK = BITU_CONN_STATUS_OK (both are 0).              *)
(***************************************************************************)
EXTENDS Naturals, Sequences, FiniteSets

CONSTANTS Uris,      \* the transport uris users know of
          Scheme,    \* "local", "irc" or "xmpp" for each of them
          Ops,       \* subcommands of `transport' users give
          Modes,     \* the circumstances to look at, see mode
          Commands,  \* how many commands are given at most (bounds the model)
          NULL

(* The n-th transport allocated for a uri, and its k-th session. *)
Transport == Uris \X (1..(Commands + 1))
Session == Transport \X (1..(Commands + 1))

ASSUME ManagerAssumption ==
         /\ IsFiniteSet(Uris) /\ Uris # {}
         /\ Scheme \in [Uris -> {"local", "irc", "xmpp"}]
         /\ Ops \subseteq {"add", "remove", "list", "connect", "disconnect"}
         /\ Commands \in Nat
         /\ Modes \subseteq [careful : BOOLEAN, reliable : BOOLEAN, daemonize : BOOLEAN,
                            commands : 0..Commands]
         /\ NULL \notin Transport \cup Session

VARIABLES
  mode,       \* .careful: TRUE if users keep to Sensible commands;
              \* .reliable: TRUE if connecting succeeds and connections last;
              \* .daemonize: TRUE if started with --daemonize;
              \* .commands: how many commands are given
  heap,       \* transports and sessions, see Init
  table,      \* manager->transports: the transport of each uri, or NULL
  thread,     \* the transport threads in the order they were spawned
  queue,      \* manager->commands
  job,        \* the command whose answer the consumer is about to send
  reply,      \* what the last subcommand reported
  phase,      \* "start" (bitu_app_run_transports), "serve", "background", "exit"
  todo,       \* uris main has not run yet
  connected,  \* whether one of them is connected
  given       \* commands received so far

vars == <<mode, heap, table, thread, queue, job, reply, phase, todo, connected, given>>

NoReply == [op |-> NULL, status |-> NULL, wasRunning |-> FALSE]

(* The configuration file has added some of the transports. *)
Init == /\ mode \in Modes
        /\ \E S \in SUBSET Uris \ {{}} :
             /\ table = [u \in Uris |-> IF u \in S THEN <<u, 1>> ELSE NULL]
             /\ heap = [made |-> [u \in Uris |-> IF u \in S THEN 1 ELSE 0],
                        freed |-> {},
                        data |-> [t \in Transport |-> NULL],
                        logger |-> [t \in Transport |-> NULL],
                        opened |-> [t \in Transport |-> 0],
                        session |-> [s \in Session |-> "none"],
                        fault |-> "none"]
             /\ todo = S
        /\ thread = <<>> /\ queue = <<>> /\ job = NULL /\ reply = NoReply
        /\ phase = "start" /\ connected = FALSE /\ given = 0

-----------------------------------------------------------------------------
(* The functions below take a heap and give the one they leave behind.     *)

Fault(h, f) == IF h.fault = "none" THEN [h EXCEPT !.fault = f] ELSE h

(* Everything that logs uses transport->logger, which is the session's.    *)
Log(h, t) == IF h.logger[t] # NULL /\ h.session[h.logger[t]] = "freed"
               THEN Fault(h, "freed logger")
               ELSE h

(* A session of t in the given state; t's data and logger point to it or   *)
(* not.                                                                    *)
NewSession(h, t, state, stored, logs) ==
  LET s == <<t, h.opened[t] + 1>>
  IN [h EXCEPT !.opened[t] = @ + 1,
               !.session[s] = state,
               !.data[t] = IF stored THEN s ELSE @,
               !.logger[t] = IF logs THEN s ELSE @]

Outcomes == IF mode.reliable THEN {"open"} ELSE {"open", "ended"}
Status(outcome) == IF outcome = "open" THEN "OK" ELSE "CONNECTION_FAILED"

(* The connect functions give the possible heaps, each with its status.    *)
LocalConnectAgain(h, t) ==   \* a bug: does not look for a server
  {<<NewSession(h, t, o, TRUE, TRUE), Status(o)>> : o \in Outcomes}

LocalConnect(h, t) ==
  IF h.data[t] # NULL
    THEN {<<h, "ALREADY_RUNNING">>}
    ELSE {<<NewSession(h, t, o, TRUE, TRUE), Status(o)>> : o \in Outcomes}

(* irc_connect refuses a session that is connected; only a session that    *)
(* connected is stored.                                                    *)
IrcConnect(h, t) ==
  LET s == h.data[t]
  IN IF s = NULL
       THEN {<<NewSession(h, t, o, o = "open", FALSE), Status(o)>> : o \in Outcomes}
       ELSE IF h.session[s] = "open"
         THEN {<<h, "CONNECTION_FAILED">>}
         ELSE {<<[h EXCEPT !.session[s] = o], Status(o)>> : o \in Outcomes}

(* A client is made each time, unless the uri lacks a host: then there     *)
(* never was one.                                                          *)
XmppConnect(h, t) ==
  {<<NewSession(h, t, o, TRUE, TRUE), Status(o)>> : o \in Outcomes}
    \cup IF mode.reliable \/ h.opened[t] > 0 THEN {} ELSE {<<h, "CONNECTION_FAILED">>}

Connect(h, t) == CASE Scheme[t[1]] = "local" -> LocalConnect(h, t)
                   [] Scheme[t[1]] = "irc" -> IrcConnect(h, t)
                   [] Scheme[t[1]] = "xmpp" -> XmppConnect(h, t)

(* The session is freed, and the pointer to it reset or not. *)
FreeSession(h, t, reset) ==
  IF h.session[h.data[t]] = "freed"
    THEN Fault(h, "freed session")
    ELSE [h EXCEPT !.session[h.data[t]] = "freed", !.data[t] = IF reset THEN NULL ELSE @]

LocalDisconnect(h, t) == IF h.data[t] = NULL THEN <<h, "ALREADY_SHUTDOWN">>
                                             ELSE <<FreeSession(h, t, TRUE), "OK">>

(* It never asks whether there is a session. *)
IrcDisconnect(h, t) == <<IF h.data[t] = NULL THEN Fault(h, "no session to disconnect")
                                             ELSE FreeSession(h, t, TRUE), "OK">>

(* It keeps the pointer. *)
XmppDisconnect(h, t) == IF h.data[t] = NULL THEN <<h, "ALREADY_SHUTDOWN">>
                                            ELSE <<FreeSession(h, t, FALSE), "OK">>

Disconnect(h, t) == CASE Scheme[t[1]] = "local" -> LocalDisconnect(h, t)
                      [] Scheme[t[1]] = "irc" -> IrcDisconnect(h, t)
                      [] Scheme[t[1]] = "xmpp" -> XmppDisconnect(h, t)

(* Only the local transport calls itself running by its pointer alone.     *)
IsRunning(h, t) == /\ h.data[t] # NULL
                   /\ Scheme[t[1]] = "local" \/ h.session[h.data[t]] = "open"

(* The functions that look at the session find it freed. *)
AskRunning(h, t) == IF h.data[t] # NULL /\ h.session[h.data[t]] = "freed"
                      THEN Fault(h, "freed session")
                      ELSE h

Send(h, t) == IF t \in h.freed THEN Fault(h, "freed transport")
              ELSE IF h.data[t] = NULL THEN Fault(h, "no session")
              ELSE AskRunning(h, t)

(* Nothing is known of what a program does after using what is not there. *)
Running == heap.fault = "none" /\ phase # "exit"

-----------------------------------------------------------------------------
(* The manager *)

Shutdown(h, t) == Disconnect(Log(h, t), t)

RunKeepingFailed(h, t) ==   \* a bug: does not disconnect what failed
  {<<r[1], IF r[2] = "OK" THEN "SPAWNED" ELSE "CONNECTION_FAILED">> : r \in Connect(Log(h, t), t)}

(* bitu_conn_manager_run: a transport that does not connect is shut down.  *)
Run(h, t) == {IF r[2] = "OK"
                THEN <<r[1], "SPAWNED">>
                ELSE <<Shutdown(Log(r[1], t), t)[1], "CONNECTION_FAILED">>
              : r \in Connect(Log(h, t), t)}

NewThread(t) == [of |-> t, runs |-> NULL, ended |-> FALSE, failed |-> FALSE]

Spawn(t, status) == thread' = IF status = "SPAWNED" THEN Append(thread, NewThread(t)) ELSE thread

(* bitu_app_run_transports, for one of the configured transports. *)
StartTransport(u) == /\ Running /\ phase = "start" /\ u \in todo
                     /\ \E r \in Run(heap, table[u]) :
                          /\ heap' = r[1]
                          /\ Spawn(table[u], r[2])
                          /\ connected' = (connected \/ r[2] = "SPAWNED")
                     /\ todo' = todo \ {u}
                     /\ UNCHANGED <<table, queue, job, reply, phase, given>>

(* The consumer is only started, and main only stays, if one connected. *)
StartConsumer == /\ Running /\ phase = "start" /\ todo = {}
                 /\ phase' = IF connected THEN "serve" ELSE "exit"
                 /\ UNCHANGED <<heap, table, thread, queue, job, reply, todo, connected, given>>

(* daemon() forks: the child goes on with main's thread and no other. *)
Background ==
  /\ Running /\ mode.daemonize /\ phase = "serve"
  /\ phase' = "background"
  /\ thread' = [i \in 1..Len(thread) |-> [thread[i] EXCEPT !.ended = TRUE, !.failed = FALSE]]
  /\ UNCHANGED <<heap, table, queue, job, reply, todo, connected, given>>

-----------------------------------------------------------------------------
(* The transport threads *)

(* What careful users ask for: nobody administers a transport that others  *)
(* are administering or that main has not started yet; nobody connects     *)
(* twice or disconnects what was connected; and IRC transports that were   *)
(* never connected are not disconnected either.                            *)
Sensible(op, u) ==
  /\ u \notin todo
  /\ \A i \in 1..Len(queue) : queue[i].uri # u
  /\ table[u] # NULL /\ op \in {"connect", "disconnect"} => heap.data[table[u]] = NULL
  /\ op = "disconnect" => Scheme[u] # "irc"

(* bitu_transport_run: the session is read when the thread gets to run.    *)
ThreadStart(i) ==
  LET t == thread[i].of
  IN /\ Running /\ ~thread[i].ended /\ thread[i].runs = NULL
     /\ heap' = Send(Log(heap, t), t)
     /\ thread' = [thread EXCEPT ![i].runs = heap.data[t]]
     /\ UNCHANGED <<table, queue, job, reply, phase, todo, connected, given>>

(* A message arrives and is queued with the transport it came by. *)
Receive(i) ==
  /\ Running /\ thread[i].runs # NULL /\ ~thread[i].ended
  /\ heap.session[thread[i].runs] = "open"
  /\ given < mode.commands
  /\ given' = given + 1
  /\ IF thread[i].of \in heap.freed
       THEN heap' = Fault(heap, "freed transport") /\ UNCHANGED queue
       ELSE /\ \E op \in Ops, u \in Uris :
                 /\ mode.careful => Sensible(op, u)
                 /\ queue' = Append(queue, [via |-> thread[i].of, op |-> op, uri |-> u])
            /\ heap' = Log(heap, thread[i].of)
  /\ UNCHANGED <<table, thread, job, reply, phase, todo, connected>>

(* The server of an IRC or XMPP session goes away, and the thread leaves   *)
(* its loop.  Only the run function of IRC returns TA_ERROR: what that of  *)
(* XMPP returns counts as a success.                                       *)
Lose(i) ==
  LET s == thread[i].runs
      scheme == Scheme[thread[i].of[1]]
  IN /\ Running /\ ~mode.reliable /\ s # NULL /\ ~thread[i].ended
     /\ scheme # "local" /\ heap.session[s] = "open"
     /\ heap' = [heap EXCEPT !.session[s] = "ended"]
     /\ thread' = [thread EXCEPT ![i].ended = TRUE, ![i].failed = (scheme = "irc")]
     /\ UNCHANGED <<table, queue, job, reply, phase, todo, connected, given>>

(* The error is that of the session, and logged by the transport, which    *)
(* does not look like running any more.                                    *)
RunFails(i) ==
  LET t == thread[i].of
  IN /\ Running /\ thread[i].failed
     /\ heap' = Log(Send(heap, t), t)
     /\ thread' = [thread EXCEPT ![i].failed = FALSE]
     /\ UNCHANGED <<table, queue, job, reply, phase, todo, connected, given>>

(* A thread whose session was disconnected is still inside its loop, with  *)
(* nothing but the freed session to tell it to stop.                       *)
RunFreed(i) == /\ Running /\ thread[i].runs # NULL /\ ~thread[i].ended
               /\ heap.session[thread[i].runs] = "freed"
               /\ heap' = Fault(heap, IF Scheme[thread[i].of[1]] = "local"
                                        THEN "freed server" ELSE "freed session")
               /\ UNCHANGED <<table, thread, queue, job, reply, phase, todo, connected, given>>

-----------------------------------------------------------------------------
(* The consumer thread: cmd_transport *)

Report(op, u, status) ==
  reply' = [op |-> op, status |-> status,
            wasRunning |-> table[u] # NULL /\ IsRunning(heap, table[u])]

CmdAddOverriding(u) ==   \* a bug: forgets the transport there was
  /\ heap' = [heap EXCEPT !.made[u] = @ + 1]
  /\ table' = [table EXCEPT ![u] = <<u, heap.made[u] + 1>>]
  /\ Report("add", u, "OK")
  /\ UNCHANGED thread

CmdAdd(u) == /\ IF table[u] # NULL
                  THEN UNCHANGED <<heap, table>>
                  ELSE /\ heap' = [heap EXCEPT !.made[u] = @ + 1]
                       /\ table' = [table EXCEPT ![u] = <<u, heap.made[u] + 1>>]
             /\ Report("add", u, "OK")
             /\ UNCHANGED thread

CmdRemoveRunning(u) ==   \* a bug: does not ask whether it runs
  /\ table[u] # NULL
  /\ heap' = [heap EXCEPT !.freed = @ \cup {table[u]}]
  /\ table' = [table EXCEPT ![u] = NULL]
  /\ Report("remove", u, "OK")
  /\ UNCHANGED thread

CmdRemoveKeepingEntry(u) ==   \* a bug: frees it and leaves it in the table
  /\ table[u] # NULL /\ ~IsRunning(heap, table[u])
  /\ heap' = [heap EXCEPT !.freed = @ \cup {table[u]}]
  /\ Report("remove", u, "OK")
  /\ UNCHANGED <<table, thread>>

CmdRemove(u) == /\ table[u] # NULL
                /\ LET t == table[u]
                       h == IF Scheme[u] = "local" THEN heap ELSE AskRunning(heap, t)
                   IN IF IsRunning(heap, t)
                        THEN /\ heap' = h /\ UNCHANGED table
                             /\ Report("remove", u, "STILL_RUNNING")
                        ELSE /\ heap' = [h EXCEPT !.freed = @ \cup {t}]
                             /\ table' = [table EXCEPT ![u] = NULL]
                             /\ Report("remove", u, "OK")
                /\ UNCHANGED thread

CmdList(u) == /\ LET asked == {v \in Uris : table[v] # NULL
                                            /\ AskRunning(heap, table[v]) # heap}
                 IN heap' = IF asked = {} THEN heap ELSE Fault(heap, "freed session")
              /\ Report("list", u, "OK")
              /\ UNCHANGED <<table, thread>>

CmdConnect(u) == /\ table[u] # NULL
                 /\ \E r \in Run(heap, table[u]) :
                      /\ heap' = r[1]
                      /\ Spawn(table[u], r[2])
                      /\ Report("connect", u, r[2])
                 /\ UNCHANGED table

CmdDisconnect(u) == /\ table[u] # NULL
                    /\ LET r == Shutdown(heap, table[u])
                       IN heap' = r[1] /\ Report("disconnect", u, r[2])
                    /\ UNCHANGED <<table, thread>>

CmdNotFound(op, u) == /\ table[u] = NULL
                      /\ Report(op, u, "TRANSPORT_NOT_FOUND")
                      /\ UNCHANGED <<heap, table, thread>>

(* The oldest command is taken and executed. *)
Execute ==
  /\ Running /\ phase = "serve" /\ job = NULL /\ queue # <<>>
  /\ LET op == Head(queue).op
         u == Head(queue).uri
     IN \/ op = "add" /\ CmdAdd(u)
        \/ op = "list" /\ CmdList(u)
        \/ op = "remove" /\ CmdRemove(u)
        \/ op = "connect" /\ CmdConnect(u)
        \/ op = "disconnect" /\ CmdDisconnect(u)
        \/ op \in {"remove", "connect", "disconnect"} /\ CmdNotFound(op, u)
  /\ job' = Head(queue)
  /\ queue' = Tail(queue)
  /\ UNCHANGED <<phase, todo, connected, given>>

(* The answer goes out by the transport the command came by. *)
Answer == /\ Running /\ phase = "serve" /\ job # NULL
          /\ heap' = Send(heap, job.via)
          /\ job' = NULL
          /\ UNCHANGED <<table, thread, queue, reply, phase, todo, connected, given>>

-----------------------------------------------------------------------------
Next == /\ \/ \E u \in Uris : StartTransport(u)
           \/ StartConsumer \/ Background \/ Execute \/ Answer
           \/ \E i \in 1..Len(thread) : ThreadStart(i)
           \/ \E i \in 1..Len(thread) : Receive(i)
           \/ \E i \in 1..Len(thread) : Lose(i)
           \/ \E i \in 1..Len(thread) : RunFails(i)
           \/ \E i \in 1..Len(thread) : RunFreed(i)
        /\ UNCHANGED mode

Spec == Init /\ [][Next]_vars
-----------------------------------------------------------------------------
Live(i) == ~thread[i].ended

(* Every pointer the program keeps is to something that was allocated,     *)
(* sessions are numbered in the order they were made, and every transport  *)
(* that was allocated is freed or in the table.                            *)
TypeOK ==
  /\ heap.made \in [Uris -> 0..(Commands + 1)]
  /\ heap.freed \subseteq {t \in Transport : t[2] <= heap.made[t[1]]}
  /\ \A t \in Transport : t[2] <= heap.made[t[1]] => t \in heap.freed \/ table[t[1]] = t
  /\ \A t \in Transport :
       /\ {heap.data[t], heap.logger[t]} \subseteq {<<t, k>> : k \in 1..heap.opened[t]} \cup {NULL}
       /\ heap.opened[t] \in 0..(Commands + 1)
  /\ \A s \in Session : (heap.session[s] = "none") <=> (s[2] > heap.opened[s[1]])
  /\ table \in [Uris -> Transport \cup {NULL}]
  /\ \A i \in 1..Len(thread) : thread[i].of \in Transport /\ thread[i].runs \in Session \cup {NULL}
  /\ todo \subseteq Uris /\ connected \in BOOLEAN /\ given \in 0..mode.commands /\ mode \in Modes
  /\ phase \in {"start", "serve", "background", "exit"}

(* Good circumstances.                                                     *)
Calm == mode.careful /\ mode.reliable

(* No thread touches what another one has freed or not yet set: removing   *)
(* is refused while a transport can still be the origin of commands that   *)
(* are queued or being answered, although nothing counts those.            *)
NoFault == Calm => heap.fault = "none"

(* No two threads serve one uri: they would handle each message twice, or  *)
(* fight for one socket.                                                   *)
OneThread == Calm =>
  \A i, j \in 1..Len(thread) : i # j /\ Live(i) /\ Live(j) => thread[i].of[1] # thread[j].of[1]

(* The table only holds transports that exist, each under its own uri.     *)
TableIsLive == \A u \in Uris : table[u] # NULL => /\ table[u] \notin heap.freed
                                                  /\ table[u][1] = u

(* However users connect, disconnect and remove, there is at most one      *)
(* server for a socket path, and the table leads to it: none is leaked     *)
(* with its socket bound.                                                  *)
OneServer == \A s \in Session :
               Scheme[s[1][1]] = "local" /\ heap.session[s] \notin {"none", "freed"}
                 => table[s[1][1]] = s[1] /\ heap.data[s[1]] = s

(* `transport list' does not call running what no thread serves.           *)
Served == \A u \in Uris :
            heap.fault = "none" /\ table[u] # NULL /\ IsRunning(heap, table[u])
              => \E i \in 1..Len(thread) : Live(i) /\ thread[i].of = table[u]
RunningIsServed == phase # "background" => Served

-----------------------------------------------------------------------------
(* What the code or its comments say and it does not do.                   *)

(* app.c:407-408 has an answer for connecting a transport that is running, *)
(* "Transport already running, can't you see it???".                       *)
ReportsRunning == reply.op = "connect" /\ reply.wasRunning => reply.status = "ALREADY_RUNNING"

(* server.c:298-299: "accept() will break if the server stops, so let's    *)
(* just bail out here."                                                    *)
ServerBailsOut == heap.fault # "freed server"

(* main.c:257: "Sending the rest of the program to the background if       *)
(* requested": what served before serves after.                            *)
ServesInBackground == phase = "background" => Served
=============================================================================
