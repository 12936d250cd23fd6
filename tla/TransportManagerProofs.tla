----------------------- MODULE TransportManagerProofs -----------------------
(***************************************************************************)
(* Proofs about the connection manager for any set of transport uris of    *)
(* any kinds and any number of commands.                                   *)
(***************************************************************************)
EXTENDS TransportManager, SequenceTheorems, TLAPS

Faults == {"freed logger", "freed session", "freed transport", "freed server",
           "no session", "no session to disconnect"}

Heap == [made : [Uris -> Nat], freed : SUBSET Transport,
         data : [Transport -> Session \cup {NULL}],
         logger : [Transport -> Session \cup {NULL}],
         opened : [Transport -> Nat],
         session : [Session -> {"none", "open", "ended", "freed"}],
         fault : Faults \cup {"none"}]

(* A pointer of t is to a session made for t. *)
Owned(h, t, p) == p # NULL => p[1] = t /\ p[2] >= 1 /\ p[2] <= h.opened[t]

(* What connecting and disconnecting preserve: pointers are to sessions    *)
(* that were made, sessions are numbered in the order they were made, and  *)
(* the pointer of a local transport is to the only server there is for it. *)
HeapOK(h) ==
  /\ h \in Heap
  /\ \A t \in Transport : Owned(h, t, h.data[t]) /\ Owned(h, t, h.logger[t])
  /\ \A t \in Transport : t[2] > h.made[t[1]] => h.opened[t] = 0
  /\ \A s \in Session : (h.session[s] = "none") <=> (s[2] > h.opened[s[1]])
  /\ \A s \in Session : Scheme[s[1][1]] = "local" /\ h.session[s] \notin {"none", "freed"}
                          => h.data[s[1]] = s

(* g is h, but for a fault that h may not have had.                        *)
Agrees(h, g) ==
  /\ g \in Heap
  /\ g.made = h.made /\ g.freed = h.freed /\ g.data = h.data /\ g.logger = h.logger
  /\ g.opened = h.opened /\ g.session = h.session
  /\ h.fault # "none" => g.fault # "none"

(* From h to g only the sessions of t have changed, and one may be new.    *)
OnlyOf(h, g, t) ==
  /\ g.made = h.made /\ g.freed = h.freed
  /\ \A u \in Transport \ {t} : /\ g.data[u] = h.data[u] /\ g.opened[u] = h.opened[u]
  /\ \A s \in Session : s[1] # t => g.session[s] = h.session[s]
  /\ g.opened[t] <= h.opened[t] + 1
  /\ h.fault # "none" => g.fault # "none"

-----------------------------------------------------------------------------
(* The functions on heaps *)

LEMMA FaultAgrees ==
  ASSUME NEW h \in Heap, NEW f \in Faults
  PROVE  Agrees(h, Fault(h, f)) /\ Fault(h, f).fault # "none"
BY DEF Heap, Fault, Faults, Agrees

LEMMA LogAgrees ==
  ASSUME NEW h \in Heap, NEW t \in Transport
  PROVE  /\ Agrees(h, Log(h, t))
         /\ (\A s \in Session : h.session[s] # "freed") => Log(h, t) = h
<1>1. h.logger[t] # NULL => h.logger[t] \in Session
  BY DEF Heap
<1>2. Agrees(h, h)
  BY DEF Agrees
<1>3. Agrees(h, Fault(h, "freed logger"))
  BY FaultAgrees DEF Faults
<1> QED
  BY <1>1, <1>2, <1>3 DEF Log

LEMMA AskRunningAgrees ==
  ASSUME NEW h \in Heap, NEW t \in Transport
  PROVE  /\ Agrees(h, AskRunning(h, t))
         /\ (\A s \in Session : h.session[s] # "freed") => AskRunning(h, t) = h
<1>1. h.data[t] # NULL => h.data[t] \in Session
  BY DEF Heap
<1>2. Agrees(h, h)
  BY DEF Agrees
<1>3. Agrees(h, Fault(h, "freed session"))
  BY FaultAgrees DEF Faults
<1> QED
  BY <1>1, <1>2, <1>3 DEF AskRunning

LEMMA SendAgrees ==
  ASSUME NEW h \in Heap, NEW t \in Transport
  PROVE  /\ Agrees(h, Send(h, t))
         /\ (\A s \in Session : h.session[s] # "freed") /\ t \notin h.freed /\ h.data[t] # NULL
              => Send(h, t) = h
<1>1. Agrees(h, Fault(h, "freed transport")) /\ Agrees(h, Fault(h, "no session"))
  BY FaultAgrees DEF Faults
<1> QED
  BY <1>1, AskRunningAgrees DEF Send

LEMMA AgreesOK ==
  ASSUME NEW h, NEW g, HeapOK(h), Agrees(h, g)
  PROVE  HeapOK(g)
BY DEF HeapOK, Agrees, Owned

(* A transport that was allocated, and can be given one session more.      *)
Connectable(h, t) == /\ t \in Transport /\ t[2] <= h.made[t[1]]
                     /\ h.opened[t] <= Commands

LEMMA NewSessionOK ==
  ASSUME NEW h, NEW t, HeapOK(h), Connectable(h, t),
         NEW state \in {"open", "ended"}, NEW stored \in BOOLEAN, NEW logs \in BOOLEAN,
         Scheme[t[1]] = "local" => h.data[t] = NULL /\ stored
  PROVE  LET s == <<t, h.opened[t] + 1>>
             g == NewSession(h, t, state, stored, logs)
         IN  /\ HeapOK(g) /\ OnlyOf(h, g, t)
             /\ s \in Session /\ g.fault = h.fault
             /\ g.session = [h.session EXCEPT ![s] = state]
             /\ g.data = [h.data EXCEPT ![t] = IF stored THEN s ELSE @]
<1> DEFINE s == <<t, h.opened[t] + 1>>
           g == NewSession(h, t, state, stored, logs)
<1>1. /\ s \in Session /\ g \in Heap
      /\ g.made = h.made /\ g.freed = h.freed /\ g.fault = h.fault
      /\ g.opened = [h.opened EXCEPT ![t] = @ + 1]
      /\ g.session = [h.session EXCEPT ![s] = state]
      /\ g.data = [h.data EXCEPT ![t] = IF stored THEN s ELSE @]
      /\ g.logger = [h.logger EXCEPT ![t] = IF logs THEN s ELSE @]
  <2> USE DEF HeapOK, Connectable
  <2>1. s \in Session
    BY ManagerAssumption DEF Session, Heap
  <2>2. /\ g.made = h.made /\ g.freed = h.freed /\ g.fault = h.fault
        /\ g.opened = [h.opened EXCEPT ![t] = @ + 1]
        /\ g.session = [h.session EXCEPT ![s] = state]
        /\ g.data = [h.data EXCEPT ![t] = IF stored THEN s ELSE @]
        /\ g.logger = [h.logger EXCEPT ![t] = IF logs THEN s ELSE @]
    BY DEF NewSession, Heap
  <2>3. /\ g.opened \in [Transport -> Nat]
        /\ g.session \in [Session -> {"none", "open", "ended", "freed"}]
        /\ g.data \in [Transport -> Session \cup {NULL}]
        /\ g.logger \in [Transport -> Session \cup {NULL}]
    <3> HIDE DEF s, g
    <3> QED
      BY <2>1, <2>2 DEF Heap
  <2>4. g \in Heap
    BY <2>2, <2>3 DEF NewSession, Heap
  <2> QED
    BY <2>1, <2>2, <2>4
<1> USE DEF HeapOK, Connectable
<1>2. s[1] = t /\ s[2] = h.opened[t] + 1 /\ s # NULL
  BY <1>1, ManagerAssumption
<1>3. /\ h.opened \in [Transport -> Nat] /\ h.made \in [Uris -> Nat]
      /\ h.data \in [Transport -> Session \cup {NULL}]
      /\ h.logger \in [Transport -> Session \cup {NULL}]
      /\ h.session \in [Session -> {"none", "open", "ended", "freed"}]
  BY DEF Heap
<1>3a. \A p \in Session : p[1] \in Transport /\ p[2] \in Nat /\ p = <<p[1], p[2]>>
  BY ManagerAssumption DEF Session
<1>3b. \A u \in Transport : u[1] \in Uris /\ u[2] \in Nat
  BY ManagerAssumption DEF Transport
<1> HIDE DEF s, g
<1>4. \A u \in Transport : Owned(g, u, g.data[u]) /\ Owned(g, u, g.logger[u])
  BY <1>1, <1>2, <1>3, <1>3a DEF Owned
<1>5. \A u \in Transport : u[2] > g.made[u[1]] => g.opened[u] = 0
  BY <1>1, <1>3, <1>3b
<1>6. \A p \in Session : (g.session[p] = "none") <=> (p[2] > g.opened[p[1]])
  BY <1>1, <1>2, <1>3, <1>3a, SMTT(30)
<1>7. ASSUME NEW p \in Session, Scheme[p[1][1]] = "local", g.session[p] \notin {"none", "freed"}
      PROVE  g.data[p[1]] = p
  <2>1. CASE p = s
    BY <1>1, <1>2, <1>3, <1>7, <2>1
  <2>2. CASE p # s
    <3>1. h.data[p[1]] = p
      BY <1>1, <1>3, <1>7, <2>2
    <3>2. p[1] # t
      BY <1>7, <3>1, ManagerAssumption
    <3> QED
      BY <1>1, <1>3, <1>3a, <3>1, <3>2
  <2> QED
    BY <2>1, <2>2
<1>8. OnlyOf(h, g, t)
  BY <1>1, <1>2, <1>3 DEF OnlyOf
<1>9. HeapOK(g)
  BY <1>1, <1>4, <1>5, <1>6, <1>7
<1> QED
  BY <1>1, <1>8, <1>9 DEF s, g

LEMMA ConnectOK ==
  ASSUME NEW h, NEW t, HeapOK(h), Connectable(h, t), NEW r \in Connect(h, t)
  PROVE  HeapOK(r[1]) /\ OnlyOf(h, r[1], t)
<1>1. OnlyOf(h, h, t) /\ Outcomes \subseteq {"open", "ended"}
  BY DEF OnlyOf, Outcomes, HeapOK, Heap, Connectable
<1>2. Scheme[t[1]] \in {"local", "irc", "xmpp"}
  BY ManagerAssumption DEF Transport, Connectable
<1> DEFINE Fine(g) == HeapOK(g) /\ OnlyOf(h, g, t)
<1>3. ASSUME Scheme[t[1]] = "local" PROVE Fine(r[1])
  <2> DEFINE N(o) == NewSession(h, t, o, TRUE, TRUE)
  <2>1. r \in LocalConnect(h, t)
    BY <1>3 DEF Connect
  <2>2. \/ r = <<h, "ALREADY_RUNNING">>
        \/ h.data[t] = NULL /\ \E o \in Outcomes : r = <<N(o), Status(o)>>
    BY <2>1 DEF LocalConnect
  <2>3. ASSUME h.data[t] = NULL, NEW o \in Outcomes PROVE Fine(N(o))
    BY <1>1, <2>3, NewSessionOK
  <2> HIDE DEF N, Fine
  <2>4. r[1] = h \/ (h.data[t] = NULL /\ \E o \in Outcomes : r[1] = N(o))
    BY <2>2
  <2> QED
    BY <1>1, <2>3, <2>4 DEF Fine
<1>4. ASSUME Scheme[t[1]] = "irc" PROVE Fine(r[1])
  <2> DEFINE N(o) == NewSession(h, t, o, o = "open", FALSE)
             Again(o) == [h EXCEPT !.session[h.data[t]] = o]
  <2>1. r \in IrcConnect(h, t)
    BY <1>4 DEF Connect
  <2>2. \/ r = <<h, "CONNECTION_FAILED">>
        \/ \E o \in Outcomes : r = <<N(o), Status(o)>>
        \/ h.data[t] # NULL /\ \E o \in Outcomes : r = <<Again(o), Status(o)>>
    BY <2>1 DEF IrcConnect
  <2>3. ASSUME NEW o \in Outcomes PROVE Fine(N(o))
    <3> DEFINE stored == o = "open"
    <3>1. stored \in BOOLEAN
      OBVIOUS
    <3> HIDE DEF stored
    <3>2. Fine(NewSession(h, t, o, stored, FALSE))
      BY <1>1, <1>4, <3>1, NewSessionOK
    <3> QED
      BY <3>2 DEF stored
  <2>4. ASSUME h.data[t] # NULL, NEW o \in Outcomes PROVE Fine(Again(o))
    <3> DEFINE g == Again(o)
    <3>1. h.data[t] \in Session /\ h.data[t][1] = t /\ h.session[h.data[t]] # "none"
      BY <2>4 DEF HeapOK, Heap, Owned, Session, Connectable
    <3>2. /\ g \in Heap /\ g.made = h.made /\ g.freed = h.freed /\ g.fault = h.fault
          /\ g.data = h.data /\ g.logger = h.logger /\ g.opened = h.opened
          /\ g.session = [h.session EXCEPT ![h.data[t]] = o]
      BY <1>1, <2>4, <3>1 DEF HeapOK, Heap
    <3> HIDE DEF g
    <3>3. HeapOK(g) /\ OnlyOf(h, g, t)
      BY <1>1, <1>4, <3>1, <3>2 DEF HeapOK, OnlyOf, Owned, Heap, Connectable
    <3> QED
      BY <3>3 DEF g
  <2> HIDE DEF N, Again, Fine
  <2>5. \/ r[1] = h
        \/ \E o \in Outcomes : r[1] = N(o)
        \/ h.data[t] # NULL /\ \E o \in Outcomes : r[1] = Again(o)
    BY <2>2
  <2> QED
    BY <1>1, <2>3, <2>4, <2>5 DEF Fine
<1>5. ASSUME Scheme[t[1]] = "xmpp" PROVE Fine(r[1])
  <2> DEFINE N(o) == NewSession(h, t, o, TRUE, TRUE)
  <2>1. r \in XmppConnect(h, t)
    BY <1>5 DEF Connect
  <2>2. r = <<h, "CONNECTION_FAILED">> \/ \E o \in Outcomes : r = <<N(o), Status(o)>>
    BY <2>1 DEF XmppConnect
  <2>3. ASSUME NEW o \in Outcomes PROVE Fine(N(o))
    BY <1>1, <1>5, NewSessionOK
  <2> HIDE DEF N, Fine
  <2>4. r[1] = h \/ \E o \in Outcomes : r[1] = N(o)
    BY <2>2
  <2> QED
    BY <1>1, <2>3, <2>4 DEF Fine
<1> QED
  BY <1>2, <1>3, <1>4, <1>5

LEMMA FreeSessionOK ==
  ASSUME NEW h, NEW t \in Transport, HeapOK(h), h.data[t] # NULL,
         NEW reset \in BOOLEAN, Scheme[t[1]] = "local" => reset
  PROVE  LET g == FreeSession(h, t, reset)
         IN  /\ HeapOK(g) /\ OnlyOf(h, g, t) /\ g.opened = h.opened
             /\ \/ g.fault # "none"
                \/ g.session[h.data[t]] = "freed" /\ g.data[t] \in {NULL, h.data[t]}
                   /\ (reset => g.data[t] = NULL)
<1> DEFINE s == h.data[t]
           g == FreeSession(h, t, reset)
<1>1. s \in Session /\ s[1] = t /\ h.session[s] # "none" /\ h \in Heap
  BY DEF HeapOK, Heap, Owned, Session
<1>2. CASE h.session[s] = "freed"
  <2>1. Agrees(h, Fault(h, "freed session")) /\ Fault(h, "freed session").fault # "none"
    BY <1>1, FaultAgrees DEF Faults
  <2>2. g = Fault(h, "freed session")
    BY <1>2 DEF FreeSession
  <2>3. Agrees(h, g) /\ g.fault # "none"
    BY <2>1, <2>2
  <2> HIDE DEF g
  <2>4. HeapOK(g) /\ g.opened = h.opened
    BY <2>3, AgreesOK DEF Agrees
  <2>5. OnlyOf(h, g, t)
    BY <1>1, <2>3 DEF Agrees, OnlyOf, Heap
  <2> QED
    BY <2>3, <2>4, <2>5 DEF g
<1>3. CASE h.session[s] # "freed"
  <2>1. /\ g \in Heap /\ g.made = h.made /\ g.freed = h.freed /\ g.fault = h.fault
        /\ g.logger = h.logger /\ g.opened = h.opened
        /\ g.session = [h.session EXCEPT ![s] = "freed"]
        /\ g.data = [h.data EXCEPT ![t] = IF reset THEN NULL ELSE @]
    BY <1>1, <1>3 DEF FreeSession, Heap
  <2> HIDE DEF g, s
  <2>2. s = h.data[t] /\ s # NULL
    BY DEF s
  <2>3. HeapOK(g)
    BY <1>1, <2>1, <2>2 DEF HeapOK, Owned, Heap
  <2>4. OnlyOf(h, g, t)
    BY <1>1, <2>1, <2>2 DEF OnlyOf, Heap
  <2> QED
    BY <1>1, <2>1, <2>2, <2>3, <2>4 DEF g, s, Heap
<1> QED
  BY <1>2, <1>3

(* After a disconnect nothing looks like running, unless the program has   *)
(* used a session it had freed.                                            *)
LEMMA DisconnectOK ==
  ASSUME NEW h, NEW t \in Transport, HeapOK(h)
  PROVE  LET g == Disconnect(h, t)[1]
         IN  /\ HeapOK(g) /\ OnlyOf(h, g, t) /\ g.opened = h.opened
             /\ g.fault # "none" \/ ~IsRunning(g, t)
<1>1. OnlyOf(h, h, t) /\ h \in Heap
  BY DEF OnlyOf, HeapOK, Heap
<1>2. Scheme[t[1]] \in {"local", "irc", "xmpp"}
  BY ManagerAssumption DEF Transport
<1> DEFINE Fine(g) == /\ HeapOK(g) /\ OnlyOf(h, g, t) /\ g.opened = h.opened
                      /\ g.fault # "none" \/ ~IsRunning(g, t)
<1>3. ASSUME Scheme[t[1]] = "local" PROVE Fine(Disconnect(h, t)[1])
  <2>1. Disconnect(h, t) = LocalDisconnect(h, t)
    BY <1>3 DEF Disconnect
  <2>2. CASE h.data[t] = NULL
    BY <1>1, <2>1, <2>2 DEF LocalDisconnect, IsRunning
  <2>3. CASE h.data[t] # NULL
    <3> DEFINE g == FreeSession(h, t, TRUE)
    <3>1. Disconnect(h, t) = <<g, "OK">>
      BY <2>1, <2>3 DEF LocalDisconnect
    <3>2. HeapOK(g) /\ OnlyOf(h, g, t) /\ g.opened = h.opened
          /\ (g.fault # "none" \/ g.data[t] = NULL)
      BY <2>3, FreeSessionOK
    <3> HIDE DEF g
    <3> QED
      BY <3>1, <3>2 DEF IsRunning
  <2> QED
    BY <2>2, <2>3
<1>4. ASSUME Scheme[t[1]] = "irc" PROVE Fine(Disconnect(h, t)[1])
  <2>1. Disconnect(h, t) = IrcDisconnect(h, t)
    BY <1>4 DEF Disconnect
  <2>2. CASE h.data[t] = NULL
    <3> DEFINE g == Fault(h, "no session to disconnect")
    <3>1. Disconnect(h, t) = <<g, "OK">>
      BY <2>1, <2>2 DEF IrcDisconnect
    <3>2. Agrees(h, g) /\ g.fault # "none"
      BY <1>1, FaultAgrees DEF Faults
    <3> HIDE DEF g
    <3>3. HeapOK(g)
      BY <3>2, AgreesOK
    <3>4. OnlyOf(h, g, t) /\ g.opened = h.opened
      BY <1>1, <3>2 DEF Agrees, OnlyOf, Heap
    <3> QED
      BY <3>1, <3>2, <3>3, <3>4
  <2>3. CASE h.data[t] # NULL
    <3> DEFINE g == FreeSession(h, t, TRUE)
    <3>1. Disconnect(h, t) = <<g, "OK">>
      BY <2>1, <2>3 DEF IrcDisconnect
    <3>2. HeapOK(g) /\ OnlyOf(h, g, t) /\ g.opened = h.opened
          /\ (g.fault # "none" \/ g.data[t] = NULL)
      BY <2>3, FreeSessionOK
    <3> HIDE DEF g
    <3> QED
      BY <3>1, <3>2 DEF IsRunning
  <2> QED
    BY <2>2, <2>3
<1>5. ASSUME Scheme[t[1]] = "xmpp" PROVE Fine(Disconnect(h, t)[1])
  <2>1. Disconnect(h, t) = XmppDisconnect(h, t)
    BY <1>5 DEF Disconnect
  <2>2. CASE h.data[t] = NULL
    BY <1>1, <2>1, <2>2 DEF XmppDisconnect, IsRunning
  <2>3. CASE h.data[t] # NULL
    <3> DEFINE g == FreeSession(h, t, FALSE)
    <3>1. Disconnect(h, t) = <<g, "OK">>
      BY <2>1, <2>3 DEF XmppDisconnect
    <3>2. HeapOK(g) /\ OnlyOf(h, g, t) /\ g.opened = h.opened
          /\ (g.fault # "none" \/ (g.session[h.data[t]] = "freed"
                                   /\ g.data[t] \in {NULL, h.data[t]}))
      BY <1>5, <2>3, FreeSessionOK
    <3> HIDE DEF g
    <3> QED
      BY <1>5, <3>1, <3>2 DEF IsRunning
  <2> QED
    BY <2>2, <2>3
<1> QED
  BY <1>2, <1>3, <1>4, <1>5

(* bitu_conn_manager_run leaves nothing that looks like running behind,    *)
(* unless it has spawned a thread for it.                                  *)
LEMMA RunOK ==
  ASSUME NEW h, NEW t, HeapOK(h), Connectable(h, t), NEW r \in Run(h, t)
  PROVE  /\ HeapOK(r[1]) /\ OnlyOf(h, r[1], t)
         /\ r[2] = "SPAWNED" \/ r[1].fault # "none" \/ ~IsRunning(r[1], t)
<1> DEFINE k == Log(h, t)
<1>1. h \in Heap /\ t \in Transport
  BY DEF HeapOK, Connectable
<1>2. Agrees(h, k) /\ HeapOK(k) /\ Connectable(k, t)
  BY <1>1, LogAgrees, AgreesOK DEF Agrees, Connectable
<1> DEFINE Ok(c) == <<c[1], "SPAWNED">>
           Failed(c) == <<Shutdown(Log(c[1], t), t)[1], "CONNECTION_FAILED">>
<1>3. PICK c \in Connect(k, t) : r = IF c[2] = "OK" THEN Ok(c) ELSE Failed(c)
  BY DEF Run
<1>4. HeapOK(c[1]) /\ OnlyOf(k, c[1], t)
  BY <1>2, ConnectOK
<1>5. OnlyOf(h, c[1], t)
  BY <1>2, <1>4 DEF OnlyOf, Agrees
<1>6. CASE c[2] = "OK"
  BY <1>3, <1>4, <1>5, <1>6
<1>7. CASE c[2] # "OK"
  <2> DEFINE l == Log(c[1], t)
             m == Log(l, t)
             g == Disconnect(m, t)[1]
  <2>1. r[1] = g
    BY <1>3, <1>7 DEF Shutdown
  <2>2. Agrees(c[1], l) /\ HeapOK(l)
    BY <1>1, <1>4, LogAgrees, AgreesOK DEF HeapOK
  <2>3. Agrees(l, m) /\ HeapOK(m)
    BY <1>1, <2>2, LogAgrees, AgreesOK DEF HeapOK
  <2>4. /\ HeapOK(g) /\ OnlyOf(m, g, t) /\ g.opened = m.opened
        /\ g.fault # "none" \/ ~IsRunning(g, t)
    BY <1>1, <2>3, DisconnectOK
  <2> HIDE DEF l, m, g
  <2>5. OnlyOf(h, g, t)
    BY <1>5, <2>2, <2>3, <2>4 DEF OnlyOf, Agrees
  <2> QED
    BY <2>1, <2>4, <2>5
<1> QED
  BY <1>6, <1>7

-----------------------------------------------------------------------------
(* The manager *)

Request == [via : Transport, op : Ops, uri : Uris]
TransportThread == [of : Transport, runs : Session \cup {NULL},
                    ended : BOOLEAN, failed : BOOLEAN]

Shapes ==
  /\ mode \in Modes /\ given \in 0..mode.commands
  /\ thread \in Seq(TransportThread)
  /\ queue \in Seq(Request) /\ job \in Request \cup {NULL}
  /\ todo \subseteq Uris /\ connected \in BOOLEAN
  /\ phase \in {"start", "serve", "background", "exit"}
  /\ phase # "start" => todo = {}
  /\ \A u \in todo : table[u] # NULL

(* Every transport that was allocated is freed or in the table, and not    *)
(* both.                                                                   *)
TableOK ==
  /\ table \in [Uris -> Transport \cup {NULL}]
  /\ \A u \in Uris : table[u] # NULL => /\ table[u][1] = u /\ table[u][2] <= heap.made[u]
                                        /\ table[u] \notin heap.freed
  /\ \A t \in Transport : t[2] <= heap.made[t[1]] => t \in heap.freed \/ table[t[1]] = t
  /\ \A t \in heap.freed : /\ t[2] <= heap.made[t[1]]
                           /\ Scheme[t[1]] = "local" => heap.data[t] = NULL

(* A transport is allocated at start-up or by a command, and connects at   *)
(* start-up or by a command; every command is still in the queue or has    *)
(* been executed.                                                          *)
Bounded ==
  /\ \A u \in Uris : heap.made[u] + Len(queue) <= given + 1
  /\ \A t \in Transport : /\ heap.opened[t] + Len(queue) <= given + 1
                          /\ t[1] \in todo => heap.opened[t] + Len(queue) <= given

ManagerInv == HeapOK(heap) /\ Shapes /\ TableOK /\ Bounded

LEMMA ManagerInit == Init => ManagerInv
<1> SUFFICES ASSUME Init PROVE ManagerInv
  OBVIOUS
<1> USE ManagerAssumption
<1>1. PICK S \in SUBSET Uris :
        /\ table = [u \in Uris |-> IF u \in S THEN <<u, 1>> ELSE NULL]
        /\ heap = [made |-> [u \in Uris |-> IF u \in S THEN 1 ELSE 0],
                   freed |-> {},
                   data |-> [t \in Transport |-> NULL],
                   logger |-> [t \in Transport |-> NULL],
                   opened |-> [t \in Transport |-> 0],
                   session |-> [s \in Session |-> "none"],
                   fault |-> "none"]
        /\ todo = S
  BY DEF Init
<1>2. \A u \in Uris : <<u, 1>> \in Transport /\ <<u, 1>> # NULL
  BY DEF Transport
<1>3. /\ \A t \in Transport : t[1] \in Uris /\ t[2] \in 1..(Commands + 1) /\ t = <<t[1], t[2]>>
      /\ \A s \in Session : s[1] \in Transport /\ s[2] \in 1..(Commands + 1)
  BY DEF Transport, Session
<1>4. heap \in Heap
  BY <1>1 DEF Heap
<1>5. HeapOK(heap)
  BY <1>1, <1>3, <1>4 DEF HeapOK, Owned
<1>6. TableOK
  BY <1>1, <1>2, <1>3 DEF TableOK
<1>7. Shapes
  <2>1. mode \in Modes /\ mode.commands \in Nat
    BY DEF Init
  <2>2. thread \in Seq(TransportThread) /\ queue \in Seq(Request)
    BY EmptySeq DEF Init
  <2>3. todo \subseteq Uris /\ \A u \in todo : table[u] # NULL
    BY <1>1, <1>2
  <2>4. given \in 0..mode.commands
    BY <2>1 DEF Init
  <2> QED
    BY <2>1, <2>2, <2>3, <2>4 DEF Init, Shapes
<1>8. Bounded
  BY <1>1, <1>3, EmptySeq DEF Init, Bounded
<1> QED
  BY <1>5, <1>6, <1>7, <1>8 DEF ManagerInv

(* Only the sessions of a transport in the table have changed.             *)
LEMMA TableKept ==
  ASSUME HeapOK(heap), TableOK, NEW t \in Transport, t \notin heap.freed,
         OnlyOf(heap, heap', t), UNCHANGED table
  PROVE  TableOK'
BY DEF TableOK, OnlyOf, HeapOK, Heap

LEMMA TableQuiet ==
  ASSUME HeapOK(heap), TableOK, Agrees(heap, heap'), UNCHANGED table
  PROVE  HeapOK(heap') /\ TableOK'
<1>1. HeapOK(heap')
  BY AgreesOK
<1> QED
  BY <1>1 DEF TableOK, Agrees

LEMMA Spawning ==
  ASSUME thread \in Seq(TransportThread), NEW t \in Transport, NEW status, Spawn(t, status)
  PROVE  /\ thread' \in Seq(TransportThread) /\ Len(thread') \in Nat /\ Len(thread) \in Nat
         /\ Len(thread') = Len(thread) + (IF status = "SPAWNED" THEN 1 ELSE 0)
         /\ \A i \in 1..Len(thread) : thread'[i] = thread[i]
         /\ status = "SPAWNED" => thread'[Len(thread) + 1] = NewThread(t)
<1>1. NewThread(t) \in TransportThread
  BY DEF NewThread, TransportThread
<1> QED
  BY <1>1, AppendProperties, LenProperties DEF Spawn

(* The oldest request and those after it.                                  *)
LEMMA Requests ==
  ASSUME Shapes, queue # <<>>
  PROVE  /\ Head(queue) \in Request /\ Head(queue).uri \in Uris
         /\ Tail(queue) \in Seq(Request) /\ Len(Tail(queue)) = Len(queue) - 1
         /\ \A i \in 1..Len(Tail(queue)) : Tail(queue)[i] = queue[i + 1]
         /\ Head(queue) = queue[1] /\ Len(queue) \in Nat /\ Len(queue) >= 1
<1>1. Head(queue) \in Request
  BY HeadTailProperties DEF Shapes
<1> QED
  BY <1>1, HeadTailProperties, EmptySeq DEF Shapes, Request

(* Main and the consumer can run what is in the table.                     *)
LEMMA MayConnect ==
  ASSUME ManagerInv, NEW u \in Uris, table[u] # NULL, u \in todo \/ queue # <<>>
  PROVE  Connectable(heap, table[u])
<1>1. table[u] \in Transport /\ table[u][1] = u /\ table[u][2] <= heap.made[u]
  BY DEF ManagerInv, TableOK
<1>2. given \in Nat /\ given <= Commands /\ Len(queue) \in Nat
  BY ManagerAssumption, LenProperties DEF ManagerInv, Shapes
<1>3. heap.opened[table[u]] \in Nat
  BY <1>1 DEF ManagerInv, HeapOK, Heap
<1>4. CASE u \in todo
  <2>1. heap.opened[table[u]] + Len(queue) <= given
    BY <1>1, <1>4 DEF ManagerInv, Bounded
  <2> QED
    BY <1>1, <1>2, <1>3, <2>1, ManagerAssumption DEF Connectable
<1>5. CASE queue # <<>>
  <2>1. heap.opened[table[u]] + Len(queue) <= given + 1 /\ Len(queue) >= 1
    BY <1>1, <1>5, Requests DEF ManagerInv, Bounded
  <2> QED
    BY <1>1, <1>2, <1>3, <2>1, ManagerAssumption DEF Connectable
<1> QED
  BY <1>4, <1>5

(* What the transport threads do to the heap and to themselves, but for    *)
(* losing a connection.                                                    *)
LEMMA ThreadSteps ==
  ASSUME ManagerInv, NEW i \in 1..Len(thread),
         ThreadStart(i) \/ Receive(i) \/ RunFails(i) \/ RunFreed(i)
  PROVE  /\ Agrees(heap, heap') /\ UNCHANGED table
         /\ thread' \in Seq(TransportThread) /\ Len(thread') = Len(thread)
         /\ \A j \in 1..Len(thread) :
              /\ thread'[j].of = thread[j].of /\ thread'[j].ended = thread[j].ended
              /\ thread'[j].runs \in {thread[j].runs, heap.data[thread[j].of]}
<1> DEFINE t == thread[i].of
<1>1. /\ heap \in Heap /\ thread \in Seq(TransportThread)
      /\ \A j \in 1..Len(thread) : thread[j] \in TransportThread
  BY ElementOfSeq DEF ManagerInv, Shapes, HeapOK
<1>2. t \in Transport /\ heap.data[t] \in Session \cup {NULL}
  BY <1>1 DEF TransportThread, Heap
<1>3. ASSUME ThreadStart(i) \/ RunFails(i)
      PROVE  /\ UNCHANGED table /\ Agrees(heap, heap')
             /\ \/ thread' = [thread EXCEPT ![i] = [thread[i] EXCEPT !.runs = heap.data[t]]]
                \/ thread' = [thread EXCEPT ![i] = [thread[i] EXCEPT !.failed = FALSE]]
  <2>1. Agrees(heap, Log(heap, t)) /\ Log(heap, t) \in Heap
    BY <1>1, <1>2, LogAgrees DEF Agrees
  <2>2. Agrees(Log(heap, t), Send(Log(heap, t), t))
    BY <1>2, <2>1, SendAgrees
  <2>3. Agrees(heap, Send(heap, t)) /\ Send(heap, t) \in Heap
    BY <1>1, <1>2, SendAgrees DEF Agrees
  <2>4. Agrees(Send(heap, t), Log(Send(heap, t), t))
    BY <1>2, <2>3, LogAgrees
  <2>5. /\ Agrees(heap, Send(Log(heap, t), t))
        /\ Agrees(heap, Log(Send(heap, t), t))
    BY <2>1, <2>2, <2>3, <2>4 DEF Agrees
  <2> QED
    BY <1>3, <2>5 DEF ThreadStart, RunFails
<1>4. ASSUME Receive(i) \/ RunFreed(i)
      PROVE  UNCHANGED <<table, thread>> /\ Agrees(heap, heap')
  BY <1>1, <1>2, <1>4, LogAgrees, FaultAgrees DEF Receive, RunFreed, Faults
<1>5. CASE ThreadStart(i) \/ RunFails(i)
  <2>1. /\ [thread[i] EXCEPT !.runs = heap.data[t]] \in TransportThread
        /\ [thread[i] EXCEPT !.failed = FALSE] \in TransportThread
    BY <1>1, <1>2 DEF TransportThread
  <2>2. PICK e \in TransportThread :
          /\ thread' = [thread EXCEPT ![i] = e]
          /\ e.of = thread[i].of /\ e.ended = thread[i].ended
          /\ e.runs \in {thread[i].runs, heap.data[t]}
    BY <1>1, <1>3, <1>5, <2>1 DEF TransportThread
  <2>3. /\ thread' \in Seq(TransportThread) /\ Len(thread') = Len(thread)
        /\ \A j \in 1..Len(thread) : thread'[j] = IF j = i THEN e ELSE thread[j]
    BY <1>1, <2>2, ExceptSeq
  <2> QED
    BY <1>3, <1>5, <2>2, <2>3
<1>6. CASE Receive(i) \/ RunFreed(i)
  BY <1>1, <1>4, <1>6
<1> QED
  BY <1>5, <1>6

LEMMA ManagerStep == ManagerInv /\ [Next]_vars => ManagerInv'
<1> SUFFICES ASSUME ManagerInv, [Next]_vars PROVE ManagerInv'
  OBVIOUS
<1> USE DEF ManagerInv
<1>a. CASE UNCHANGED vars
  BY <1>a DEF vars, Shapes, TableOK, Bounded
<1>b. /\ mode \in Modes /\ mode.commands \in Nat /\ mode.commands <= Commands /\ Commands \in Nat
      /\ given \in Nat /\ given <= mode.commands
      /\ Len(queue) \in Nat /\ Len(thread) \in Nat
      /\ heap \in Heap
      /\ \A u \in Uris : heap.made[u] \in Nat
      /\ \A t \in Transport : heap.opened[t] \in Nat /\ t[1] \in Uris
      /\ \A u \in Uris : table[u] # NULL => /\ table[u] \in Transport /\ table[u][1] = u
                                            /\ table[u] \notin heap.freed
      /\ \A i \in 1..Len(thread) : thread[i] \in TransportThread
  BY ManagerAssumption, LenProperties, ElementOfSeq
  DEF Shapes, TableOK, HeapOK, Heap, Transport
(* Steps that at most find a fault in the heap. *)
<1>q. ASSUME Agrees(heap, heap'), UNCHANGED <<table, todo, given, queue>>, Shapes'
      PROVE  ManagerInv'
  <2>1. HeapOK(heap') /\ TableOK'
    BY <1>q, TableQuiet
  <2>2. Bounded'
    BY <1>q DEF Bounded, Agrees
  <2> QED
    BY <1>q, <2>1, <2>2
<1>1. ASSUME NEW u \in Uris, StartTransport(u), UNCHANGED mode PROVE ManagerInv'
  <2> DEFINE t == table[u]
  <2>1. /\ t \in Transport /\ t \notin heap.freed /\ t[1] = u /\ u \in todo
        /\ t[2] <= heap.made[u]
    BY <1>1, <1>b DEF StartTransport, Shapes, TableOK
  <2>2. Connectable(heap, t)
    BY <1>1, <2>1, MayConnect DEF Shapes
  <2>3. PICK r \in Run(heap, t) : /\ heap' = r[1] /\ Spawn(t, r[2])
                                  /\ connected' = (connected \/ r[2] = "SPAWNED")
    BY <1>1 DEF StartTransport
  <2>4. /\ todo' = todo \ {u}
        /\ UNCHANGED <<mode, table, queue, job, phase, given>>
    BY <1>1 DEF StartTransport
  <2>5. HeapOK(heap') /\ OnlyOf(heap, heap', t)
    BY <2>2, <2>3, RunOK
  <2> HIDE DEF t
  <2>6. thread' \in Seq(TransportThread)
    BY <2>1, <2>3, Spawning DEF Shapes
  <2>7. TableOK'
    BY <2>1, <2>4, <2>5, TableKept
  <2>8. Bounded'
    <3>1. \A x \in Transport : heap'.opened[x] \in Nat
      BY <2>5 DEF HeapOK, Heap
    <3>2. ASSUME NEW x \in Transport
          PROVE  /\ heap'.opened[x] + Len(queue) <= given + 1
                 /\ x[1] \in todo' => heap'.opened[x] + Len(queue) <= given
      <4>1. CASE x = t
        <5>1. heap.opened[t] + Len(queue) <= given
          BY <2>1 DEF Bounded
        <5>2. heap'.opened[t] <= heap.opened[t] + 1 /\ t[1] \notin todo'
          BY <2>1, <2>4, <2>5 DEF OnlyOf
        <5> QED
          BY <1>b, <3>1, <4>1, <5>1, <5>2, SMTT(30)
      <4>2. CASE x # t
        BY <1>b, <2>1, <2>4, <2>5, <4>2 DEF Bounded, OnlyOf
      <4> QED
        BY <4>1, <4>2
    <3> QED
      BY <2>4, <2>5, <3>2 DEF Bounded, OnlyOf
  <2>9. Shapes'
    BY <2>3, <2>4, <2>6 DEF Shapes
  <2> QED
    BY <2>5, <2>7, <2>8, <2>9
<1>2. ASSUME StartConsumer, UNCHANGED mode PROVE ManagerInv'
  BY <1>2 DEF StartConsumer, Shapes, TableOK, Bounded
<1>3. ASSUME Background, UNCHANGED mode PROVE ManagerInv'
  <2> DEFINE n == Len(thread)
             stopped == [i \in 1..n |-> [thread[i] EXCEPT !.ended = TRUE, !.failed = FALSE]]
  <2>1. \A i \in 1..n : stopped[i] \in TransportThread
    BY <1>b DEF TransportThread
  <2>2. stopped \in [1..n -> TransportThread] /\ n \in Nat
    BY <1>b, <2>1
  <2>3. stopped \in Seq(TransportThread)
    <3> HIDE DEF stopped, n
    <3> QED
      BY <2>2, SeqDef
  <2> QED
    BY <1>3, <2>3 DEF Background, Shapes, TableOK, Bounded
<1>4. ASSUME NEW i \in 1..Len(thread), ThreadStart(i) \/ RunFails(i) \/ RunFreed(i), UNCHANGED mode
      PROVE  ManagerInv'
  <2>1. Agrees(heap, heap') /\ UNCHANGED table /\ thread' \in Seq(TransportThread)
    BY <1>4, ThreadSteps
  <2>2. UNCHANGED <<mode, queue, job, phase, todo, connected, given>>
    BY <1>4 DEF ThreadStart, RunFails, RunFreed
  <2> QED
    BY <1>q, <2>1, <2>2 DEF Shapes
<1>5. ASSUME NEW i \in 1..Len(thread), Receive(i), UNCHANGED mode PROVE ManagerInv'
  <2>1. thread[i].of \in Transport
    BY <1>b DEF TransportThread
  <2>2. Agrees(heap, heap')
    BY <1>5, ThreadSteps
  <2>3. HeapOK(heap') /\ TableOK'
    BY <1>5, <2>2, TableQuiet DEF Receive
  <2>4. queue' \in Seq(Request) /\ Len(queue') <= Len(queue) + 1
    <3>1. CASE thread[i].of \in heap.freed
      <4>1. queue' = queue
        BY <1>5, <3>1 DEF Receive
      <4> QED
        BY <1>b, <4>1 DEF Shapes
    <3>2. CASE thread[i].of \notin heap.freed
      <4>1. PICK op \in Ops, u \in Uris :
              queue' = Append(queue, [via |-> thread[i].of, op |-> op, uri |-> u])
        BY <1>5, <3>2 DEF Receive
      <4>2. [via |-> thread[i].of, op |-> op, uri |-> u] \in Request
        BY <2>1 DEF Request
      <4> QED
        BY <4>1, <4>2, AppendProperties DEF Shapes
    <3> QED
      BY <3>1, <3>2
  <2>5. /\ given < mode.commands /\ given' = given + 1
        /\ UNCHANGED <<table, thread, job, phase, todo, connected>>
    BY <1>5 DEF Receive
  <2>6. Len(queue') \in Nat
    BY <2>4, LenProperties
  <2>7. Bounded'
    <3>1. heap'.made = heap.made /\ heap'.opened = heap.opened
      BY <2>2 DEF Agrees
    <3> QED
      BY <1>b, <2>4, <2>5, <2>6, <3>1, SMTT(30) DEF Bounded
  <2>8. Shapes'
    BY <1>5, <1>b, <2>4, <2>5 DEF Shapes
  <2> QED
    BY <2>3, <2>7, <2>8
<1>6. ASSUME NEW i \in 1..Len(thread), Lose(i), UNCHANGED mode PROVE ManagerInv'
  <2> DEFINE s == thread[i].runs
             ends == [thread[i] EXCEPT !.ended = TRUE, !.failed = (Scheme[thread[i].of[1]] = "irc")]
  <2>1. /\ s \in Session /\ heap.session[s] = "open"
        /\ heap' = [heap EXCEPT !.session[s] = "ended"]
        /\ thread' = [thread EXCEPT ![i] = ends]
        /\ UNCHANGED <<mode, table, queue, job, phase, todo, connected, given>>
    BY <1>6, <1>b DEF Lose, TransportThread
  <2>2. /\ heap' \in Heap /\ heap'.made = heap.made /\ heap'.freed = heap.freed
        /\ heap'.data = heap.data /\ heap'.logger = heap.logger /\ heap'.opened = heap.opened
        /\ heap'.session = [heap.session EXCEPT ![s] = "ended"]
    BY <1>b, <2>1 DEF Heap
  <2>3. ends \in TransportThread
    <3>1. (Scheme[thread[i].of[1]] = "irc") \in BOOLEAN
      OBVIOUS
    <3> QED
      BY <1>b, <3>1 DEF TransportThread
  <2> HIDE DEF s, ends
  <2>4. thread' \in Seq(TransportThread)
    BY <2>1, <2>3, ExceptSeq DEF Shapes
  <2>5. HeapOK(heap')
    <3>1. heap.session \in [Session -> {"none", "open", "ended", "freed"}]
      BY <1>b DEF Heap
    <3>2. \A x \in Session : heap'.session[x] = IF x = s THEN "ended" ELSE heap.session[x]
      BY <2>2, <3>1
    <3> HIDE DEF ManagerInv
    <3>3. \A x \in Session : /\ heap'.session[x] = "none" <=> heap.session[x] = "none"
                             /\ heap'.session[x] = "freed" <=> heap.session[x] = "freed"
      BY <2>1, <3>2
    <3> QED
      BY <2>2, <3>3 DEF ManagerInv, HeapOK, Owned
  <2>6. TableOK' /\ Bounded'
    BY <2>1, <2>2 DEF TableOK, Bounded
  <2> QED
    BY <2>1, <2>4, <2>5, <2>6 DEF Shapes
<1>7. ASSUME Answer, UNCHANGED mode PROVE ManagerInv'
  <2>1. Agrees(heap, heap')
    BY <1>7, <1>b, SendAgrees DEF Answer, Shapes, Request
  <2> QED
    BY <1>7, <1>q, <2>1 DEF Answer, Shapes
<1>8. ASSUME Execute, UNCHANGED mode PROVE ManagerInv'
  <2> DEFINE u == Head(queue).uri
             t == table[u]
  <2>1. /\ Head(queue) \in Request /\ Len(queue) >= 1 /\ todo = {} /\ u \in Uris
        /\ queue' \in Seq(Request) /\ Len(queue') = Len(queue) - 1
        /\ job' = Head(queue) /\ UNCHANGED <<mode, phase, todo, connected, given>>
    <3>1. queue # <<>> /\ phase = "serve" /\ queue' = Tail(queue)
          /\ job' = Head(queue) /\ UNCHANGED <<phase, todo, connected, given>>
      BY <1>8 DEF Execute
    <3>2. todo = {}
      BY <3>1 DEF Shapes
    <3> QED
      BY <1>8, <3>1, <3>2, Requests
  <2>2. Shapes' <=> thread' \in Seq(TransportThread)
    BY <2>1 DEF Shapes
  <2>3. ASSUME Agrees(heap, heap'), UNCHANGED <<table, thread>> PROVE ManagerInv'
    <3>1. HeapOK(heap') /\ TableOK'
      BY <2>3, TableQuiet
    <3>2. Bounded'
      BY <1>b, <2>1, <2>3 DEF Bounded, Agrees
    <3> QED
      BY <2>2, <2>3, <3>1, <3>2 DEF Shapes
  <2>4. ASSUME t # NULL, HeapOK(heap'), OnlyOf(heap, heap', t), UNCHANGED table,
               thread' \in Seq(TransportThread)
        PROVE  ManagerInv'
    <3>1. t \in Transport /\ t \notin heap.freed
      BY <1>b, <2>1, <2>4
    <3>2. TableOK'
      BY <2>4, <3>1, TableKept
    <3>3. Bounded'
      <4>1. \A x \in Transport : heap'.opened[x] \in Nat
        BY <2>4 DEF HeapOK, Heap
      <4>2. ASSUME NEW x \in Transport PROVE heap'.opened[x] + Len(queue') <= given + 1
        <5>1. CASE x = t
          <6>1. /\ heap.opened[x] \in Nat /\ given \in Nat
                /\ Len(queue) \in Nat /\ Len(queue') = Len(queue) - 1
            BY <1>b, <2>1 DEF Heap, Shapes
          <6>2. heap.opened[x] + Len(queue) <= given + 1
            BY DEF ManagerInv, Bounded
          <6>3. heap'.opened[x] \in Nat /\ heap'.opened[x] <= heap.opened[x] + 1
            BY <2>4, <4>1, <5>1 DEF OnlyOf
          <6> HIDE DEF ManagerInv
          <6> QED
            BY <6>1, <6>2, <6>3
        <5>2. CASE x # t
          BY <1>b, <2>1, <2>4, <5>2, SMTT(30) DEF Bounded, OnlyOf
        <5> QED
          BY <5>1, <5>2
      <4>3. ASSUME NEW x \in Uris PROVE heap'.made[x] + Len(queue') <= given + 1
        BY <1>b, <2>1, <2>4 DEF Bounded, OnlyOf
      <4> QED
        BY <2>1, <4>2, <4>3 DEF Bounded
    <3> QED
      BY <2>2, <2>4, <3>2, <3>3
  <2> HIDE DEF u
  <2>5. ASSUME CmdAdd(u) PROVE ManagerInv'
    <3>1. CASE table[u] # NULL
      BY <1>b, <2>3, <2>5, <3>1 DEF CmdAdd, Agrees
    <3>2. CASE table[u] = NULL
      <4> DEFINE n == <<u, heap.made[u] + 1>>
      <4>1. /\ heap' = [heap EXCEPT !.made[u] = @ + 1]
            /\ table' = [table EXCEPT ![u] = n] /\ UNCHANGED thread
        BY <2>5, <3>2 DEF CmdAdd
      <4>2. /\ heap' \in Heap /\ heap'.made = [heap.made EXCEPT ![u] = heap.made[u] + 1]
            /\ heap'.freed = heap.freed /\ heap'.data = heap.data /\ heap'.logger = heap.logger
            /\ heap'.opened = heap.opened /\ heap'.session = heap.session
        <5>1. heap.made[u] + 1 \in Nat
          BY <1>b, <2>1
        <5> QED
          BY <1>b, <2>1, <4>1, <5>1 DEF Heap
      <4>3. heap.made[u] + Len(queue) <= given + 1
        BY <2>1 DEF Bounded
      <4>4. n \in Transport /\ n # NULL /\ n[1] = u /\ n[2] = heap.made[u] + 1
        BY <1>b, <2>1, <4>3, ManagerAssumption, SMTT(30) DEF Transport
      <4> HIDE DEF n
      <4>5. \A x \in Transport : x[1] = u /\ x[2] = heap.made[u] + 1 => x = n
        BY <4>4 DEF Transport
      <4>6. \A x \in Transport : x[2] \in Nat
        BY ManagerAssumption DEF Transport
      <4>7. HeapOK(heap')
        BY <1>b, <4>2, <4>6 DEF HeapOK, Owned
      <4>8. TableOK'
        <5>1. table' \in [Uris -> Transport \cup {NULL}]
          BY <4>1, <4>4 DEF TableOK
        <5>2. ASSUME NEW v \in Uris, table'[v] # NULL
              PROVE  /\ table'[v][1] = v /\ table'[v][2] <= heap'.made[v]
                     /\ table'[v] \notin heap'.freed
          <6>1. CASE v = u
            <7>1. table'[v] = n /\ heap'.made[v] = heap.made[u] + 1
              BY <2>1, <4>1, <4>2, <6>1 DEF TableOK, Heap
            <7>2. n \notin heap.freed
              BY <1>b, <2>1, <4>4 DEF TableOK
            <7> QED
              BY <1>b, <2>1, <4>2, <4>4, <6>1, <7>1, <7>2
          <6>2. CASE v # u
            BY <4>1, <4>2, <5>2, <6>2 DEF TableOK, Heap
          <6> QED
            BY <6>1, <6>2
        <5>3. ASSUME NEW x \in Transport, x[2] <= heap'.made[x[1]]
              PROVE  x \in heap'.freed \/ table'[x[1]] = x
          <6>1. CASE x[1] = u
            <7>1. heap'.made[u] = heap.made[u] + 1 /\ table'[u] = n
              BY <2>1, <4>1, <4>2 DEF TableOK, Heap
            <7>2. CASE x[2] = heap.made[u] + 1
              BY <4>5, <6>1, <7>1, <7>2
            <7>3. CASE x[2] <= heap.made[u]
              BY <2>1, <3>2, <4>2, <6>1, <7>3, ManagerAssumption DEF TableOK
            <7> QED
              BY <1>b, <2>1, <4>6, <5>3, <6>1, <7>1, <7>2, <7>3
          <6>2. CASE x[1] # u
            BY <1>b, <4>1, <4>2, <5>3, <6>2 DEF TableOK, Heap
          <6> QED
            BY <6>1, <6>2
        <5>4. ASSUME NEW x \in heap'.freed
              PROVE  x[2] <= heap'.made[x[1]] /\ (Scheme[x[1]] = "local" => heap'.data[x] = NULL)
          <6>1. x \in Transport /\ x[1] \in Uris /\ x[2] \in Nat
            BY <1>b, <4>2, <4>6 DEF Heap
          <6> QED
            BY <1>b, <4>2, <6>1 DEF TableOK, Heap
        <5> QED
          BY <5>1, <5>2, <5>3, <5>4 DEF TableOK
      <4>9. Bounded'
        <5>1. \A v \in Uris : heap'.made[v] <= heap.made[v] + 1 /\ heap'.made[v] \in Nat
          BY <1>b, <4>2 DEF Heap
        <5>2. ASSUME NEW v \in Uris PROVE heap'.made[v] + Len(queue') <= given + 1
          <6>1. heap.made[v] + Len(queue) <= given + 1
            BY DEF Bounded
          <6>2. Len(queue') = Len(queue) - 1
            BY <2>1
          <6> HIDE DEF ManagerInv
          <6> QED
            BY <1>b, <5>1, <6>1, <6>2, SMTT(30)
        <5>3. ASSUME NEW x \in Transport PROVE heap'.opened[x] + Len(queue') <= given + 1
          BY <1>b, <2>1, <4>2 DEF Bounded
        <5> QED
          BY <2>1, <5>2, <5>3 DEF Bounded
      <4> QED
        BY <2>2, <4>1, <4>7, <4>8, <4>9 DEF Shapes
    <3> QED
      BY <3>1, <3>2
  <2>6. ASSUME CmdRemove(u) PROVE ManagerInv'
    <3> DEFINE h == IF Scheme[u] = "local" THEN heap ELSE AskRunning(heap, t)
    <3>1. t # NULL /\ t \in Transport /\ t \notin heap.freed /\ t[1] = u /\ t = table[u]
      BY <1>b, <2>1, <2>6 DEF CmdRemove
    <3>2. Agrees(heap, h)
      BY <1>b, <3>1, AskRunningAgrees DEF Agrees
    <3>3. UNCHANGED thread
      BY <2>6 DEF CmdRemove
    <3>4. CASE IsRunning(heap, t)
      BY <2>3, <2>6, <3>2, <3>4 DEF CmdRemove
    <3>5. CASE ~IsRunning(heap, t)
      <4>1. /\ heap' = [h EXCEPT !.freed = @ \cup {t}]
            /\ table' = [table EXCEPT ![u] = NULL]
        BY <2>6, <3>5 DEF CmdRemove
      <4>2. Scheme[t[1]] = "local" => heap.data[t] = NULL
        BY <3>5 DEF IsRunning
      <4> HIDE DEF h, t
      <4>3. /\ heap' \in Heap /\ heap'.made = heap.made /\ heap'.freed = heap.freed \cup {t}
            /\ heap'.data = heap.data /\ heap'.logger = heap.logger
            /\ heap'.opened = heap.opened /\ heap'.session = heap.session
        BY <3>1, <3>2, <4>1 DEF Heap, Agrees
      <4>4. HeapOK(heap')
        BY <4>3 DEF HeapOK, Owned
      <4>5. TableOK'
        BY <1>b, <2>1, <3>1, <4>1, <4>2, <4>3 DEF TableOK
      <4>6. Bounded'
        BY <1>b, <2>1, <4>3 DEF Bounded
      <4> QED
        BY <2>2, <3>3, <4>4, <4>5, <4>6 DEF Shapes
    <3> QED
      BY <3>4, <3>5
  <2>7. ASSUME CmdList(u) PROVE ManagerInv'
    <3>1. Agrees(heap, heap')
      BY <1>b, <2>7, FaultAgrees DEF CmdList, Faults, Agrees
    <3> QED
      BY <2>3, <2>7, <3>1 DEF CmdList
  <2>8. ASSUME CmdConnect(u) PROVE ManagerInv'
    <3>1. t # NULL /\ t \in Transport /\ t[1] = u
      BY <1>b, <2>1, <2>8 DEF CmdConnect
    <3>2. Connectable(heap, t)
      BY <1>8, <2>1, <3>1, MayConnect DEF Execute
    <3>3. PICK r \in Run(heap, t) : heap' = r[1] /\ Spawn(t, r[2])
      BY <2>8 DEF CmdConnect
    <3>4. HeapOK(heap') /\ OnlyOf(heap, heap', t)
      BY <3>2, <3>3, RunOK
    <3>5. thread' \in Seq(TransportThread)
      BY <3>1, <3>3, Spawning DEF Shapes
    <3> QED
      BY <2>4, <2>8, <3>1, <3>4, <3>5 DEF CmdConnect
  <2>9. ASSUME CmdDisconnect(u) PROVE ManagerInv'
    <3>1. t # NULL /\ t \in Transport /\ UNCHANGED <<table, thread>>
          /\ heap' = Disconnect(Log(heap, t), t)[1]
      BY <1>b, <2>1, <2>9 DEF CmdDisconnect, Shutdown
    <3>2. Agrees(heap, Log(heap, t)) /\ HeapOK(Log(heap, t))
      BY <1>b, <3>1, LogAgrees, AgreesOK
    <3>3. HeapOK(heap') /\ OnlyOf(Log(heap, t), heap', t)
      BY <3>1, <3>2, DisconnectOK
    <3>4. OnlyOf(heap, heap', t)
      BY <3>2, <3>3 DEF Agrees, OnlyOf
    <3> QED
      BY <2>4, <3>1, <3>3, <3>4 DEF Shapes
  <2>10. ASSUME NEW op, CmdNotFound(op, u) PROVE ManagerInv'
    BY <1>b, <2>3, <2>10 DEF CmdNotFound, Agrees
  <2> QED
    BY <1>8, <2>5, <2>6, <2>7, <2>8, <2>9, <2>10 DEF Execute, u
<1> QED
  BY <1>a, <1>1, <1>2, <1>3, <1>4, <1>5, <1>6, <1>7, <1>8 DEF Next

LEMMA ManagerInvariant == Spec => []ManagerInv
BY ManagerInit, ManagerStep, PTL DEF Spec

(* Pointers are to what was allocated, sessions and transports are         *)
(* numbered without gaps, and no transport is forgotten: whatever          *)
(* bitu_conn_manager_add made is in the table until it is freed.           *)
THEOREM TypeCorrect == Spec => []TypeOK
<1>1. ASSUME ManagerInv PROVE TypeOK
  <2> USE <1>1, ManagerAssumption DEF ManagerInv
  <2>1. /\ mode \in Modes /\ given \in 0..mode.commands
        /\ mode.commands \in Nat /\ mode.commands <= Commands
        /\ Len(queue) \in Nat /\ heap \in Heap
    BY LenProperties DEF Shapes, HeapOK
  <2>2. \A u \in Uris : heap.made[u] \in 0..(Commands + 1)
    BY <2>1 DEF Bounded, Heap
  <2>3. \A t \in Transport : heap.opened[t] \in 0..(Commands + 1)
    BY <2>1 DEF Bounded, Heap
  <2>4. heap.made \in [Uris -> 0..(Commands + 1)]
    BY <2>1, <2>2 DEF Heap
  <2>5. ASSUME NEW t \in Transport, NEW p \in {heap.data[t], heap.logger[t]}
        PROVE  p \in {<<t, k>> : k \in 1..heap.opened[t]} \cup {NULL}
    <3>1. p \in Session \cup {NULL} /\ Owned(heap, t, p)
      BY <2>1, <2>5 DEF HeapOK, Heap
    <3>2. CASE p # NULL
      <4>1. p = <<p[1], p[2]>> /\ p[2] \in Nat
        BY <3>1, <3>2 DEF Session
      <4> QED
        BY <2>3, <3>1, <3>2, <4>1 DEF Owned
    <3> QED
      BY <3>2
  <2>6. \A i \in 1..Len(thread) : /\ thread[i].of \in Transport
                                  /\ thread[i].runs \in Session \cup {NULL}
    <3>1. \A i \in 1..Len(thread) : thread[i] \in TransportThread
      BY ElementOfSeq DEF Shapes
    <3> QED
      BY <3>1 DEF TransportThread
  <2>7. heap.freed \subseteq {t \in Transport : t[2] <= heap.made[t[1]]}
    BY <2>1 DEF TableOK, Heap
  <2> QED
    BY <2>1, <2>3, <2>4, <2>5, <2>6, <2>7 DEF TypeOK, HeapOK, TableOK, Shapes
<1> QED
  BY <1>1, ManagerInvariant, PTL

(* bitu_conn_manager_remove frees a transport and takes it out of the      *)
(* table in one: nothing in the table was freed.                           *)
THEOREM TableOnlyLive == Spec => []TableIsLive
<1>1. ManagerInv => TableIsLive
  BY DEF ManagerInv, TableOK, TableIsLive
<1> QED
  BY <1>1, ManagerInvariant, PTL

(* A server that was started and not freed is the one of the transport the *)
(* table has for its socket path, whatever users do and whatever fails:    *)
(* local_connect, local_disconnect and bitu_conn_manager_remove go by the  *)
(* same pointer.                                                           *)
THEOREM SingleServer == Spec => []OneServer
<1>1. ASSUME ManagerInv PROVE OneServer
  <2> SUFFICES ASSUME NEW s \in Session, Scheme[s[1][1]] = "local",
                      heap.session[s] \notin {"none", "freed"}
               PROVE  table[s[1][1]] = s[1] /\ heap.data[s[1]] = s
    BY DEF OneServer
  <2> USE <1>1, ManagerAssumption DEF ManagerInv
  <2>1. s[1] \in Transport /\ s[1][1] \in Uris /\ s[1][2] \in Nat /\ s[2] \in Nat /\ s[2] >= 1
    BY DEF Session, Transport
  <2>2. heap.data[s[1]] = s /\ s # NULL
    BY DEF HeapOK
  <2>3. heap.opened[s[1]] # 0
    BY <2>1 DEF HeapOK
  <2>4. s[1][2] <= heap.made[s[1][1]]
    BY <2>1, <2>3 DEF HeapOK, Heap
  <2>5. s[1] \notin heap.freed
    BY <2>2 DEF TableOK
  <2> QED
    BY <2>1, <2>2, <2>4, <2>5 DEF TableOK
<1> QED
  BY <1>1, ManagerInvariant, PTL

-----------------------------------------------------------------------------
(* What runs is served *)

(* A thread serves the present session of u, or will when it starts.       *)
ThreadFor(u) == \E i \in 1..Len(thread) :
                  /\ Live(i) /\ thread[i].of = table[u]
                  /\ thread[i].runs \in {NULL, heap.data[table[u]]}

Attended == \A u \in Uris :
              heap.fault = "none" /\ table[u] # NULL /\ IsRunning(heap, table[u]) => ThreadFor(u)
AllAttended == phase # "background" => Attended

LEMMA AttendedStep ==
  ASSUME ManagerInv, ManagerInv', Attended, Next, ~Background
  PROVE  Attended'
<1>b. /\ heap \in Heap /\ Len(thread) \in Nat
      /\ \A u \in Uris : table[u] # NULL => table[u] \in Transport /\ table[u][1] = u
      /\ \A t \in Transport : Owned(heap, t, heap.data[t])
                              /\ heap.data[t] \in Session \cup {NULL}
      /\ \A i \in 1..Len(thread) : thread[i] \in TransportThread
  BY LenProperties, ElementOfSeq DEF ManagerInv, Shapes, TableOK, HeapOK, Heap
<1>q. ASSUME Agrees(heap, heap'), UNCHANGED table, Len(thread') = Len(thread),
             \A i \in 1..Len(thread) :
               /\ thread'[i].of = thread[i].of /\ thread'[i].ended = thread[i].ended
               /\ thread'[i].runs \in {thread[i].runs, heap.data[thread[i].of]}
      PROVE  Attended'
  BY <1>q DEF Attended, ThreadFor, Agrees, IsRunning, Live
(* The sessions of u have changed: the others are served as before. *)
<1>o. ASSUME NEW u \in Uris, table[u] # NULL, OnlyOf(heap, heap', table[u]), UNCHANGED table,
             thread' \in Seq(TransportThread), Len(thread') >= Len(thread),
             \A i \in 1..Len(thread) : thread'[i] = thread[i],
             heap'.fault = "none" /\ IsRunning(heap', table[u]) => ThreadFor(u)'
      PROVE  Attended'
  <2> SUFFICES ASSUME NEW v \in Uris, heap'.fault = "none", table[v] # NULL,
                      IsRunning(heap', table[v])
               PROVE  ThreadFor(v)'
    BY <1>o DEF Attended
  <2>1. CASE v = u
    BY <1>o, <2>1
  <2>2. CASE v # u
    <3>1. table[v] # table[u] /\ table[v] \in Transport
      BY <1>b, <1>o, <2>2
    <3>2. heap'.data[table[v]] = heap.data[table[v]] /\ heap.fault = "none"
      BY <1>o, <3>1 DEF OnlyOf
    <3>3. heap.data[table[v]] # NULL
      BY <3>2 DEF IsRunning
    <3>4. heap'.session[heap.data[table[v]]] = heap.session[heap.data[table[v]]]
      BY <1>b, <1>o, <3>1, <3>3 DEF OnlyOf, Owned
    <3>5. IsRunning(heap, table[v])
      BY <3>2, <3>3, <3>4 DEF IsRunning
    <3>6. ThreadFor(v)
      BY <3>2, <3>5 DEF Attended
    <3>7. Len(thread') \in Nat
      BY <1>o, LenProperties
    <3> QED
      BY <1>b, <1>o, <3>2, <3>6, <3>7 DEF ThreadFor, Live
  <2> QED
    BY <2>1, <2>2
<1>s. ASSUME NEW u \in Uris, table[u] # NULL, NEW r \in Run(heap, table[u]),
             Connectable(heap, table[u]), heap' = r[1], Spawn(table[u], r[2]), UNCHANGED table
      PROVE  Attended'
  <2>1. /\ OnlyOf(heap, heap', table[u])
        /\ r[2] = "SPAWNED" \/ heap'.fault # "none" \/ ~IsRunning(heap', table[u])
    BY <1>s, RunOK DEF ManagerInv
  <2>2. /\ thread' \in Seq(TransportThread) /\ Len(thread') \in Nat
        /\ Len(thread') = Len(thread) + (IF r[2] = "SPAWNED" THEN 1 ELSE 0)
        /\ \A i \in 1..Len(thread) : thread'[i] = thread[i]
        /\ r[2] = "SPAWNED" => thread'[Len(thread) + 1] = NewThread(table[u])
    BY <1>b, <1>s, Spawning DEF ManagerInv, Shapes
  <2>3. ASSUME r[2] = "SPAWNED" PROVE ThreadFor(u)'
    <3>1. Len(thread) + 1 \in 1..Len(thread')
      BY <1>b, <2>2, <2>3
    <3>2. thread'[Len(thread) + 1] = NewThread(table[u])
      BY <2>2, <2>3
    <3> QED
      BY <1>s, <3>1, <3>2 DEF ThreadFor, Live, NewThread
  <2> QED
    BY <1>b, <1>o, <1>s, <2>1, <2>2, <2>3
<1>1. ASSUME NEW u \in Uris, StartTransport(u) PROVE Attended'
  <2>1. table[u] # NULL /\ u \in todo /\ UNCHANGED table
    BY <1>1 DEF StartTransport, ManagerInv, Shapes
  <2>2. Connectable(heap, table[u])
    BY <2>1, MayConnect
  <2> QED
    BY <1>1, <1>s, <2>1, <2>2 DEF StartTransport
<1>2. ASSUME StartConsumer PROVE Attended'
  BY <1>2 DEF StartConsumer, Attended, ThreadFor, Live
<1>3. ASSUME NEW i \in 1..Len(thread),
             ThreadStart(i) \/ Receive(i) \/ RunFails(i) \/ RunFreed(i)
      PROVE  Attended'
  BY <1>3, <1>q, ThreadSteps
<1>4. ASSUME NEW i \in 1..Len(thread), Lose(i) PROVE Attended'
  <2> DEFINE s == thread[i].runs
             ends == [thread[i] EXCEPT !.ended = TRUE, !.failed = (Scheme[thread[i].of[1]] = "irc")]
  <2>1. /\ s # NULL /\ s \in Session /\ Scheme[thread[i].of[1]] # "local"
        /\ heap' = [heap EXCEPT !.session[s] = "ended"]
        /\ thread' = [thread EXCEPT ![i] = ends]
        /\ UNCHANGED table
    BY <1>4, <1>b DEF Lose, TransportThread
  <2>2. /\ heap'.data = heap.data /\ heap'.fault = heap.fault
        /\ heap'.session = [heap.session EXCEPT ![s] = "ended"]
    BY <1>b, <2>1 DEF Heap
  <2>3. /\ Len(thread') = Len(thread)
        /\ \A j \in 1..Len(thread) : j # i => thread'[j] = thread[j]
    BY <2>1 DEF ManagerInv, Shapes
  <2> HIDE DEF ends
  <2>4. ASSUME NEW u \in Uris, heap'.fault = "none", table[u] # NULL, IsRunning(heap', table[u])
        PROVE  ThreadFor(u)'
    <3>1. IsRunning(heap, table[u])
      BY <1>b, <2>1, <2>2, <2>4 DEF IsRunning, Heap
    <3>2. PICK j \in 1..Len(thread) : /\ Live(j) /\ thread[j].of = table[u]
                                      /\ thread[j].runs \in {NULL, heap.data[table[u]]}
      BY <2>2, <2>4, <3>1 DEF Attended, ThreadFor
    <3>3. j # i
      <4> SUFFICES ASSUME j = i PROVE FALSE
        OBVIOUS
      <4>1. heap.data[table[u]] = s /\ Scheme[table[u][1]] # "local"
        BY <2>1, <3>2
      <4>2. heap'.session[s] = "ended"
        BY <1>b, <2>1, <2>2 DEF Heap
      <4> QED
        BY <2>2, <2>4, <4>1, <4>2 DEF IsRunning
    <3> QED
      BY <2>1, <2>2, <2>3, <3>2, <3>3 DEF ThreadFor, Live
  <2> QED
    BY <2>1, <2>4 DEF Attended
<1>5. ASSUME Answer PROVE Attended'
  <2>1. Agrees(heap, heap')
    BY <1>5, <1>b, SendAgrees DEF Answer, ManagerInv, Shapes, Request
  <2> QED
    BY <1>5, <1>q, <2>1 DEF Answer
<1>6. ASSUME Execute PROVE Attended'
  <2> DEFINE u == Head(queue).uri
             t == table[u]
  <2>1. u \in Uris /\ Len(queue) >= 1 /\ Len(queue) \in Nat
    BY <1>6, Requests DEF Execute, ManagerInv
  <2> HIDE DEF u
  <2>2. ASSUME CmdAdd(u) PROVE Attended'
    <3>1. CASE table[u] # NULL
      BY <1>b, <1>q, <2>2, <3>1 DEF CmdAdd, Agrees
    <3>2. CASE table[u] = NULL
      <4> DEFINE n == <<u, heap.made[u] + 1>>
      <4>1. /\ heap' = [heap EXCEPT !.made[u] = @ + 1]
            /\ table' = [table EXCEPT ![u] = n] /\ UNCHANGED thread
        BY <2>2, <3>2 DEF CmdAdd
      <4>2. /\ heap'.data = heap.data /\ heap'.session = heap.session /\ heap'.fault = heap.fault
            /\ heap.made[u] \in Nat
        BY <1>b, <2>1, <4>1 DEF Heap
      <4>3. table'[u] = n /\ \A v \in Uris : v # u => table'[v] = table[v]
        BY <2>1, <4>1 DEF ManagerInv, TableOK
      <4>4. n \in Transport \cup {NULL}
        BY <2>1, <4>3 DEF ManagerInv, TableOK
      <4>5. n # NULL => heap.data[n] = NULL
        <5> SUFFICES ASSUME n # NULL PROVE heap.data[n] = NULL
          OBVIOUS
        <5>1. n \in Transport /\ n[1] = u /\ n[2] = heap.made[u] + 1
          BY <4>4
        <5>2. heap.opened[n] = 0
          BY <4>2, <5>1 DEF ManagerInv, HeapOK
        <5>3. heap.data[n] # NULL => heap.data[n][2] >= 1 /\ heap.data[n][2] <= 0
                                     /\ heap.data[n][2] \in Nat
          BY <1>b, <5>1, <5>2, ManagerAssumption DEF Owned, Session
        <5> QED
          BY <5>3
      <4> HIDE DEF n
      <4> QED
        BY <4>1, <4>2, <4>3, <4>5 DEF Attended, ThreadFor, IsRunning, Live
    <3> QED
      BY <3>1, <3>2
  <2>3. ASSUME CmdRemove(u) PROVE Attended'
    <3> DEFINE h == IF Scheme[u] = "local" THEN heap ELSE AskRunning(heap, t)
    <3>1. t \in Transport /\ UNCHANGED thread
      BY <1>b, <2>1, <2>3 DEF CmdRemove
    <3>2. Agrees(heap, h)
      BY <1>b, <3>1, AskRunningAgrees DEF Agrees
    <3>3. CASE IsRunning(heap, t)
      BY <1>q, <2>3, <3>1, <3>2, <3>3 DEF CmdRemove
    <3>4. CASE ~IsRunning(heap, t)
      <4>1. /\ heap' = [h EXCEPT !.freed = @ \cup {t}]
            /\ table' = [table EXCEPT ![u] = NULL]
        BY <2>3, <3>4 DEF CmdRemove
      <4> HIDE DEF h, t
      <4>2. /\ heap'.data = heap.data /\ heap'.session = heap.session
            /\ heap.fault # "none" => heap'.fault # "none"
        BY <3>2, <4>1 DEF Heap, Agrees
      <4>3. table'[u] = NULL /\ \A v \in Uris : v # u => table'[v] = table[v]
        BY <2>1, <4>1 DEF ManagerInv, TableOK
      <4> QED
        BY <3>1, <4>2, <4>3 DEF Attended, ThreadFor, IsRunning, Live
    <3> QED
      BY <3>3, <3>4
  <2>4. ASSUME CmdList(u) PROVE Attended'
    <3>1. Agrees(heap, heap')
      BY <1>b, <2>4, FaultAgrees DEF CmdList, Faults, Agrees
    <3> QED
      BY <1>q, <2>4, <3>1 DEF CmdList
  <2>5. ASSUME CmdConnect(u) PROVE Attended'
    <3>1. table[u] # NULL /\ UNCHANGED table
      BY <2>5 DEF CmdConnect
    <3>2. Connectable(heap, table[u])
      BY <1>6, <2>1, <3>1, MayConnect DEF Execute
    <3>3. PICK r \in Run(heap, table[u]) : heap' = r[1] /\ Spawn(table[u], r[2])
      BY <2>5 DEF CmdConnect
    <3> QED
      BY <1>s, <2>1, <3>1, <3>2, <3>3
  <2>6. ASSUME CmdDisconnect(u) PROVE Attended'
    <3>1. t # NULL /\ t \in Transport /\ UNCHANGED <<table, thread>>
          /\ heap' = Disconnect(Log(heap, t), t)[1]
      BY <1>b, <2>1, <2>6 DEF CmdDisconnect, Shutdown
    <3>2. Agrees(heap, Log(heap, t)) /\ HeapOK(Log(heap, t))
      BY <1>b, <3>1, LogAgrees, AgreesOK DEF ManagerInv
    <3>3. /\ OnlyOf(Log(heap, t), heap', t)
          /\ heap'.fault # "none" \/ ~IsRunning(heap', t)
      BY <3>1, <3>2, DisconnectOK
    <3>4. OnlyOf(heap, heap', t)
      BY <3>2, <3>3 DEF Agrees, OnlyOf
    <3> QED
      BY <1>b, <1>o, <2>1, <3>1, <3>3, <3>4 DEF ManagerInv, Shapes
  <2>7. ASSUME NEW op, CmdNotFound(op, u) PROVE Attended'
    BY <1>b, <1>q, <2>7 DEF CmdNotFound, Agrees
  <2> QED
    BY <1>6, <2>2, <2>3, <2>4, <2>5, <2>6, <2>7 DEF Execute, u
<1> QED
  BY <1>1, <1>2, <1>3, <1>4, <1>5, <1>6 DEF Next

(* As long as the program stays in the foreground, a transport the         *)
(* `transport list' command calls running has a thread that serves its     *)
(* session: bitu_conn_manager_run spawns one whenever it connects, and     *)
(* disconnects when connecting fails.                                      *)
THEOREM ListTellsTheTruth == Spec => []RunningIsServed
<1>1. Init => AllAttended
  <2> SUFFICES ASSUME Init, NEW u \in Uris, table[u] # NULL, IsRunning(heap, table[u])
               PROVE  FALSE
    BY DEF AllAttended, Attended
  <2>1. table[u] \in Transport
    BY ManagerInit DEF ManagerInv, TableOK
  <2> QED
    BY <2>1 DEF Init, IsRunning
<1>2. ManagerInv /\ ManagerInv' /\ AllAttended /\ [Next]_vars => AllAttended'
  <2> SUFFICES ASSUME ManagerInv, ManagerInv', AllAttended, [Next]_vars PROVE AllAttended'
    OBVIOUS
  <2>1. CASE UNCHANGED vars
    BY <2>1 DEF vars, AllAttended, Attended, ThreadFor, Live
  <2>2. CASE Background
    BY <2>2 DEF Background, AllAttended
  <2>3. ASSUME Next, ~Background PROVE phase = "background" => phase' = "background"
    BY <2>3 DEF Next, StartTransport, StartConsumer, Execute, Answer, ThreadStart, Receive,
                Lose, RunFails, RunFreed
  <2>4. CASE Next /\ ~Background
    BY <2>3, <2>4, AttendedStep DEF AllAttended
  <2> QED
    BY <2>1, <2>2, <2>4
<1>3. AllAttended => RunningIsServed
  BY DEF AllAttended, Attended, ThreadFor, RunningIsServed, Served
<1> QED
  BY <1>1, <1>2, <1>3, ManagerInvariant, PTL DEF Spec

-----------------------------------------------------------------------------
(* Calm circumstances: connecting succeeds, and users keep to Sensible     *)
(* commands.                                                               *)

(* No session is freed or lost, and nothing with a session is freed.       *)
NothingFreed ==
  /\ heap.fault = "none"
  /\ \A s \in Session : heap.session[s] \in {"none", "open"}
  /\ \A t \in heap.freed : heap.data[t] = NULL

(* Whatever a thread serves, or a command came by, has a session.          *)
OriginsConnected ==
  /\ \A i \in 1..Len(thread) : heap.data[thread[i].of] # NULL
  /\ \A i \in 1..Len(queue) : heap.data[queue[i].via] # NULL
  /\ job # NULL => heap.data[job.via] # NULL

OneThreadEach == \A i, j \in 1..Len(thread) : i # j => thread[i].of[1] # thread[j].of[1]

(* What is not connected yet is connected by one request of the queue or   *)
(* by main, and by nothing else.                                           *)
Orderly ==
  /\ \A i, j \in 1..Len(queue) : i # j => queue[i].uri # queue[j].uri
  /\ \A i \in 1..Len(queue) :
       LET op == queue[i].op
           u == queue[i].uri
       IN /\ u \notin todo
          /\ table[u] # NULL /\ op \in {"connect", "disconnect"} => heap.data[table[u]] = NULL
          /\ op = "disconnect" => Scheme[u] # "irc"
  /\ \A u \in todo : heap.data[table[u]] = NULL

CalmInv == NothingFreed /\ OriginsConnected /\ OneThreadEach /\ Orderly

LEMMA ConnectCalm ==
  ASSUME NEW h, NEW t, HeapOK(h), Connectable(h, t), mode.reliable, h.data[t] = NULL,
         \A s \in Session : h.session[s] \in {"none", "open"},
         NEW c \in Connect(h, t)
  PROVE  /\ c[2] = "OK" /\ c[1].fault = h.fault /\ c[1].data[t] # NULL
         /\ \A s \in Session : c[1].session[s] \in {"none", "open"}
<1>1. Outcomes = {"open"} /\ Status("open") = "OK"
  BY DEF Outcomes, Status
<1>2. Scheme[t[1]] \in {"local", "irc", "xmpp"} /\ t \in Transport
  BY ManagerAssumption DEF Transport, Connectable
<1> DEFINE Fine(g) == /\ g.fault = h.fault /\ g.data[t] # NULL
                      /\ \A s \in Session : g.session[s] \in {"none", "open"}
<1>3. ASSUME NEW stored \in BOOLEAN, NEW logs \in BOOLEAN, stored
      PROVE  Fine(NewSession(h, t, "open", stored, logs))
  <2> DEFINE s == <<t, h.opened[t] + 1>>
             g == NewSession(h, t, "open", stored, logs)
  <2>1. /\ s \in Session /\ g.fault = h.fault
        /\ g.session = [h.session EXCEPT ![s] = "open"]
        /\ g.data = [h.data EXCEPT ![t] = IF stored THEN s ELSE @]
    <3>1. "open" \in {"open", "ended"} /\ (Scheme[t[1]] = "local" => h.data[t] = NULL /\ stored)
      BY <1>3
    <3>2. s \in Session
      BY <3>1, NewSessionOK
    <3> QED
      BY <3>2 DEF NewSession, Heap, HeapOK, Connectable
  <2>2. s # NULL
    BY <2>1, ManagerAssumption
  <2>3. h.session \in [Session -> {"none", "open", "ended", "freed"}]
        /\ h.data \in [Transport -> Session \cup {NULL}]
    BY DEF HeapOK, Heap
  <2> HIDE DEF g, s
  <2>4. Fine(g)
    BY <1>2, <1>3, <2>1, <2>2, <2>3
  <2> QED
    BY <2>4 DEF g
<1> DEFINE N(o, stored, logs) == NewSession(h, t, o, stored, logs)
<1>4. \E stored, logs \in BOOLEAN : stored /\ c = <<N("open", stored, logs), "OK">>
  <2>1. CASE Scheme[t[1]] \in {"local", "xmpp"}
    <3>1. c \in LocalConnect(h, t) \/ c \in XmppConnect(h, t)
      BY <2>1 DEF Connect
    <3>2. c = <<N("open", TRUE, TRUE), "OK">>
      BY <1>1, <3>1 DEF LocalConnect, XmppConnect
    <3> HIDE DEF N
    <3> QED
      BY <3>2
  <2>2. CASE Scheme[t[1]] = "irc"
    <3>1. c \in IrcConnect(h, t)
      BY <2>2 DEF Connect
    <3>2. \E o \in Outcomes : c = <<N(o, o = "open", FALSE), Status(o)>>
      BY <3>1 DEF IrcConnect
    <3>3. PICK o \in Outcomes : c = <<N(o, o = "open", FALSE), Status(o)>>
      BY <3>2
    <3> DEFINE stored == o = "open"
    <3>4. stored \in BOOLEAN /\ stored /\ o = "open" /\ Status(o) = "OK"
      BY <1>1, <3>3
    <3>5. c = <<N(o, stored, FALSE), Status(o)>>
      BY <3>3
    <3> HIDE DEF N, stored
    <3> QED
      BY <3>4, <3>5
  <2> QED
    BY <1>2, <2>1, <2>2
<1>5. PICK stored, logs \in BOOLEAN : stored /\ c = <<N("open", stored, logs), "OK">>
  BY <1>4
<1> DEFINE g == N("open", stored, logs)
<1>6. Fine(g) /\ c = <<g, "OK">>
  BY <1>3, <1>5
<1> HIDE DEF g
<1> QED
  BY <1>6

LEMMA RunCalm ==
  ASSUME NEW h, NEW t, HeapOK(h), Connectable(h, t), mode.reliable, h.data[t] = NULL,
         \A s \in Session : h.session[s] \in {"none", "open"},
         NEW r \in Run(h, t)
  PROVE  /\ r[2] = "SPAWNED" /\ r[1].fault = h.fault /\ r[1].data[t] # NULL
         /\ \A s \in Session : r[1].session[s] \in {"none", "open"}
<1>1. Log(h, t) = h
  BY LogAgrees DEF HeapOK, Connectable
<1>2. PICK c \in Connect(h, t) :
        r = IF c[2] = "OK" THEN <<c[1], "SPAWNED">>
                           ELSE <<Shutdown(Log(c[1], t), t)[1], "CONNECTION_FAILED">>
  BY <1>1 DEF Run
<1>3. /\ c[2] = "OK" /\ c[1].fault = h.fault /\ c[1].data[t] # NULL
      /\ \A s \in Session : c[1].session[s] \in {"none", "open"}
  BY ConnectCalm
<1> QED
  BY <1>2, <1>3

LEMMA DisconnectCalm ==
  ASSUME NEW h, NEW t \in Transport, HeapOK(h), h.data[t] = NULL, Scheme[t[1]] # "irc",
         \A s \in Session : h.session[s] \in {"none", "open"}
  PROVE  Shutdown(h, t)[1] = h
<1>1. Log(h, t) = h
  BY LogAgrees DEF HeapOK
<1>2. Scheme[t[1]] \in {"local", "xmpp"}
  BY ManagerAssumption DEF Transport
<1>3. Disconnect(h, t) = <<h, "ALREADY_SHUTDOWN">>
  BY <1>2 DEF Disconnect, LocalDisconnect, XmppDisconnect
<1> QED
  BY <1>1, <1>3 DEF Shutdown

(* Nobody finds anything freed or missing. *)
LEMMA QuietCalm ==
  ASSUME ManagerInv, NothingFreed, NEW t \in Transport
  PROVE  /\ Log(heap, t) = heap /\ AskRunning(heap, t) = heap
         /\ heap.data[t] # NULL => /\ Send(heap, t) = heap
                                   /\ t \notin heap.freed
                                   /\ table[t[1]] = t
                                   /\ heap.session[heap.data[t]] = "open"
<1>1. heap \in Heap /\ \A s \in Session : heap.session[s] # "freed"
  BY DEF ManagerInv, HeapOK, NothingFreed
<1>2. Log(heap, t) = heap /\ AskRunning(heap, t) = heap
  BY <1>1, LogAgrees, AskRunningAgrees
<1>3. ASSUME heap.data[t] # NULL
      PROVE  /\ Send(heap, t) = heap /\ t \notin heap.freed /\ table[t[1]] = t
             /\ heap.session[heap.data[t]] = "open"
  <2> DEFINE s == heap.data[t]
  <2>1. t \notin heap.freed
    BY <1>3 DEF NothingFreed
  <2>2. /\ s \in Session /\ s[1] = t /\ s[2] >= 1 /\ s[2] <= heap.opened[t]
        /\ s[2] \in Nat /\ heap.opened[t] \in Nat
    BY <1>1, <1>3, ManagerAssumption DEF ManagerInv, HeapOK, Heap, Owned, Session
  <2>3. heap.session[s] # "none"
    BY <2>2 DEF ManagerInv, HeapOK
  <2>4. ~(t[2] > heap.made[t[1]])
    BY <2>2 DEF ManagerInv, HeapOK
  <2>5. t[2] <= heap.made[t[1]]
    BY <1>1, <2>4, ManagerAssumption DEF Transport, Heap
  <2> QED
    BY <1>1, <1>3, <2>1, <2>2, <2>3, <2>5, SendAgrees DEF ManagerInv, TableOK, NothingFreed
<1> QED
  BY <1>2, <1>3

(* Connecting what is not connected changes nothing for other uris.        *)
LEMMA SpawnCalm ==
  ASSUME ManagerInv, mode.reliable, NothingFreed, OriginsConnected, OneThreadEach,
         NEW u \in Uris, table[u] # NULL, heap.data[table[u]] = NULL,
         Connectable(heap, table[u]),
         NEW r \in Run(heap, table[u]), heap' = r[1], Spawn(table[u], r[2])
  PROVE  /\ NothingFreed' /\ OneThreadEach'
         /\ \A i \in 1..Len(thread') : heap'.data[thread'[i].of] # NULL
         /\ \A t \in Transport : heap.data[t] # NULL => heap'.data[t] # NULL
         /\ \A v \in Uris \ {u} : table[v] # NULL
              => heap'.data[table[v]] = heap.data[table[v]]
<1> DEFINE t == table[u]
<1>1. t \in Transport /\ t[1] = u /\ t \notin heap.freed
  BY DEF ManagerInv, TableOK
<1>2. /\ r[2] = "SPAWNED" /\ heap'.fault = heap.fault /\ heap'.data[t] # NULL
      /\ \A s \in Session : heap'.session[s] \in {"none", "open"}
  BY RunCalm DEF ManagerInv, NothingFreed
<1>3. OnlyOf(heap, heap', t)
  BY RunOK DEF ManagerInv
<1>4. /\ heap'.freed = heap.freed
      /\ \A x \in Transport : x # t => heap'.data[x] = heap.data[x]
  BY <1>3 DEF OnlyOf
<1>5. NothingFreed'
  BY <1>1, <1>2, <1>4 DEF NothingFreed, ManagerInv, HeapOK, Heap
<1>6. \A x \in Transport : heap.data[x] # NULL => heap'.data[x] # NULL
  BY <1>2, <1>4
<1>7. \A v \in Uris \ {u} : table[v] # NULL => heap'.data[table[v]] = heap.data[table[v]]
  BY <1>1, <1>4 DEF ManagerInv, TableOK
<1>8. /\ Len(thread) \in Nat /\ Len(thread') = Len(thread) + 1
      /\ \A i \in 1..Len(thread) : thread'[i] = thread[i]
      /\ thread'[Len(thread) + 1].of = t
  <2>1. thread \in Seq(TransportThread) /\ Spawn(t, r[2])
    BY DEF ManagerInv, Shapes
  <2>2. NewThread(t).of = t
    BY DEF NewThread
  <2> HIDE DEF t
  <2> QED
    BY <1>1, <1>2, <2>1, <2>2, Spawning
<1>9. \A i \in 1..Len(thread) : thread[i].of \in Transport
  <2>1. \A i \in 1..Len(thread) : thread[i] \in TransportThread
    BY ElementOfSeq DEF ManagerInv, Shapes
  <2> QED
    BY <2>1 DEF TransportThread
<1>10. \A i \in 1..Len(thread) : thread[i].of[1] # u
  BY <1>9, QuietCalm DEF OriginsConnected
<1> HIDE DEF t
<1>11. \A i \in 1..Len(thread') : heap'.data[thread'[i].of] # NULL
  BY <1>2, <1>6, <1>8, <1>9 DEF OriginsConnected
<1>12. OneThreadEach'
  BY <1>1, <1>8, <1>10 DEF OneThreadEach
<1> QED
  BY <1>5, <1>6, <1>7, <1>11, <1>12 DEF t

(* Taking the oldest request, whatever becomes of its uri.                 *)
LEMMA TailCalm ==
  ASSUME ManagerInv, OriginsConnected, Orderly, queue # <<>>, queue' = Tail(queue),
         UNCHANGED todo,
         \A t \in Transport : heap.data[t] # NULL => heap'.data[t] # NULL,
         \A v \in Uris \ {Head(queue).uri} :
           table'[v] = table[v] /\ (table[v] # NULL => heap'.data[table[v]] = heap.data[table[v]])
  PROVE  /\ Orderly'
         /\ \A i \in 1..Len(queue') : heap'.data[queue'[i].via] # NULL
         /\ heap'.data[Head(queue).via] # NULL
<1> DEFINE u == Head(queue).uri
           n == Len(queue)
<1>1. /\ Head(queue) = queue[1] /\ n \in Nat /\ n >= 1 /\ Len(queue') = n - 1
      /\ \A i \in 1..Len(queue') : queue'[i] = queue[i + 1] /\ i + 1 \in 1..n /\ i + 1 # 1
  BY Requests DEF ManagerInv
<1>2. \A i \in 1..n : queue[i] \in Request
  BY ElementOfSeq DEF ManagerInv, Shapes
<1>3. \A i \in 1..n : queue[i].uri \in Uris /\ queue[i].via \in Transport
  BY <1>2 DEF Request
<1>4. 1 \in 1..n
  BY <1>1
<1>5. /\ \A i \in 1..n : heap'.data[queue[i].via] # NULL
      /\ \A i \in 1..n : i # 1 => queue[i].uri # u
      /\ u \notin todo
  BY <1>1, <1>3, <1>4 DEF OriginsConnected, Orderly
<1>6. \A v \in todo : v \in Uris /\ table[v] # NULL
  BY DEF ManagerInv, Shapes
<1> HIDE DEF u, n
<1>7. \A v \in todo' : heap'.data[table'[v]] = NULL
  BY <1>5, <1>6 DEF Orderly, u
<1>8. \A i, j \in 1..Len(queue') : i # j => queue'[i].uri # queue'[j].uri
  <2> SUFFICES ASSUME NEW i \in 1..Len(queue'), NEW j \in 1..Len(queue'), i # j
               PROVE  queue'[i].uri # queue'[j].uri
    OBVIOUS
  <2>1. i + 1 # j + 1
    BY <1>1
  <2> QED
    BY <1>1, <2>1 DEF Orderly, n
<1>9. ASSUME NEW i \in 1..Len(queue')
      PROVE  LET op == queue'[i].op
                 v == queue'[i].uri
             IN /\ v \notin todo'
                /\ table'[v] # NULL /\ op \in {"connect", "disconnect"}
                     => heap'.data[table'[v]] = NULL
                /\ op = "disconnect" => Scheme[v] # "irc"
  BY <1>1, <1>3, <1>5 DEF Orderly, u, n
<1> QED
  BY <1>1, <1>4, <1>5, <1>7, <1>8, <1>9 DEF Orderly

LEMMA CalmStep == ManagerInv /\ Calm /\ CalmInv /\ Next => CalmInv'
<1> SUFFICES ASSUME ManagerInv, mode.careful, mode.reliable, CalmInv, Next PROVE CalmInv'
  BY DEF Calm
<1> USE DEF CalmInv
<1>a. /\ Len(thread) \in Nat /\ Len(queue) \in Nat
      /\ \A i \in 1..Len(thread) : thread[i] \in TransportThread
      /\ \A i \in 1..Len(queue) : queue[i] \in Request
      /\ job \in Request \cup {NULL}
      /\ \A u \in todo : u \in Uris /\ table[u] # NULL
  BY ElementOfSeq DEF ManagerInv, Shapes
<1>b. /\ \A i \in 1..Len(thread) : thread[i].of \in Transport
      /\ \A i \in 1..Len(queue) : queue[i].via \in Transport /\ queue[i].uri \in Uris
      /\ job # NULL => job.via \in Transport
  BY <1>a DEF TransportThread, Request
<1>c. \A u \in Uris : table[u] # NULL => table[u] \in Transport /\ table[u][1] = u
  BY DEF ManagerInv, TableOK
<1>d. \A i \in 1..Len(thread) : heap.data[thread[i].of] # NULL
  BY DEF OriginsConnected
<1>1. ASSUME NEW u \in Uris, StartTransport(u) PROVE CalmInv'
  <2>1. u \in todo /\ table[u] # NULL /\ heap.data[table[u]] = NULL
    BY <1>1, <1>a DEF StartTransport, Orderly
  <2>2. PICK r \in Run(heap, table[u]) : heap' = r[1] /\ Spawn(table[u], r[2])
    BY <1>1 DEF StartTransport
  <2>3. Connectable(heap, table[u])
    BY <2>1, MayConnect
  <2>4. todo' = todo \ {u} /\ UNCHANGED <<table, queue, job>>
    BY <1>1 DEF StartTransport
  <2>5. /\ NothingFreed' /\ OneThreadEach'
        /\ \A i \in 1..Len(thread') : heap'.data[thread'[i].of] # NULL
        /\ \A t \in Transport : heap.data[t] # NULL => heap'.data[t] # NULL
        /\ \A v \in Uris \ {u} : table[v] # NULL
             => heap'.data[table[v]] = heap.data[table[v]]
    BY <2>1, <2>2, <2>3, SpawnCalm
  <2>6. OriginsConnected'
    BY <1>b, <2>4, <2>5 DEF OriginsConnected
  <2>7. Orderly'
    BY <1>a, <1>b, <2>1, <2>4, <2>5 DEF Orderly
  <2> QED
    BY <2>5, <2>6, <2>7
<1>2. ASSUME StartConsumer PROVE CalmInv'
  BY <1>2 DEF StartConsumer, NothingFreed, OriginsConnected, OneThreadEach, Orderly
<1>3. ASSUME Background PROVE CalmInv'
  <2>1. /\ Len(thread') = Len(thread)
        /\ \A i \in 1..Len(thread) : thread'[i].of = thread[i].of
    <3> DEFINE stop(i) == [thread[i] EXCEPT !.ended = TRUE, !.failed = FALSE]
    <3>1. thread' = [i \in 1..Len(thread) |-> stop(i)]
      BY <1>3 DEF Background
    <3>2. \A i \in 1..Len(thread) : stop(i).of = thread[i].of
      BY <1>a DEF TransportThread
    <3> HIDE DEF stop
    <3>3. Len(thread') = Len(thread)
      BY <1>a, <3>1, LenProperties
    <3> QED
      BY <3>1, <3>2, <3>3
  <2>2. UNCHANGED <<heap, table, queue, job, todo>>
    BY <1>3 DEF Background
  <2> QED
    BY <2>1, <2>2 DEF NothingFreed, OriginsConnected, OneThreadEach, Orderly
<1>4. ASSUME NEW i \in 1..Len(thread), ThreadStart(i) \/ RunFails(i) PROVE CalmInv'
  <2>1. /\ Len(thread') = Len(thread)
        /\ \A j \in 1..Len(thread) : thread'[j].of = thread[j].of
    BY <1>4, ThreadSteps
  <2>2. heap' = heap
    BY <1>4, <1>b, <1>d, QuietCalm DEF ThreadStart, RunFails
  <2>3. UNCHANGED <<table, queue, job, todo>>
    BY <1>4 DEF ThreadStart, RunFails
  <2> QED
    BY <2>1, <2>2, <2>3 DEF NothingFreed, OriginsConnected, OneThreadEach, Orderly
<1>5. ASSUME NEW i \in 1..Len(thread), Receive(i) PROVE CalmInv'
  <2> DEFINE t == thread[i].of
  <2>1. heap' = heap /\ t \notin heap.freed
    BY <1>5, <1>b, <1>d, QuietCalm DEF Receive
  <2>2. PICK op \in Ops, u \in Uris :
          /\ Sensible(op, u)
          /\ queue' = Append(queue, [via |-> t, op |-> op, uri |-> u])
    BY <1>5, <2>1 DEF Receive
  <2> DEFINE c == [via |-> t, op |-> op, uri |-> u]
  <2>3. c \in Request /\ c.via = t /\ c.op = op /\ c.uri = u
    BY <1>b DEF Request
  <2> HIDE DEF c
  <2>4. /\ Len(queue') = Len(queue) + 1
        /\ \A j \in 1..Len(queue) : queue'[j] = queue[j]
        /\ queue'[Len(queue) + 1] = c
    BY <2>2, <2>3, AppendProperties DEF c, ManagerInv, Shapes
  <2>5. UNCHANGED <<table, thread, job, todo>>
    BY <1>5 DEF Receive
  <2>6. OriginsConnected'
    BY <1>a, <1>d, <2>1, <2>3, <2>4, <2>5 DEF OriginsConnected
  <2>7. Orderly'
    <3>1. \A j, k \in 1..Len(queue') : j # k => queue'[j].uri # queue'[k].uri
      BY <1>a, <2>2, <2>3, <2>4 DEF Orderly, Sensible
    <3>2. ASSUME NEW j \in 1..Len(queue')
          PROVE  LET o == queue'[j].op
                     v == queue'[j].uri
                 IN /\ v \notin todo
                    /\ table[v] # NULL /\ o \in {"connect", "disconnect"}
                         => heap.data[table[v]] = NULL
                    /\ o = "disconnect" => Scheme[v] # "irc"
      BY <1>a, <2>2, <2>3, <2>4 DEF Orderly, Sensible
    <3> QED
      BY <2>1, <2>5, <3>1, <3>2 DEF Orderly
  <2> QED
    BY <2>1, <2>5, <2>6, <2>7 DEF NothingFreed, OneThreadEach
<1>6. ASSUME NEW i \in 1..Len(thread), RunFreed(i) PROVE CalmInv'
  <2>1. thread[i].runs \in Session /\ heap.session[thread[i].runs] = "freed"
    BY <1>6, <1>a DEF RunFreed, TransportThread
  <2> QED
    BY <2>1 DEF NothingFreed
<1>7. ASSUME Execute PROVE CalmInv'
  <2> DEFINE u == Head(queue).uri
             op == Head(queue).op
             t == table[u]
  <2>1. /\ u \in Uris /\ Len(queue) >= 1 /\ 1 \in 1..Len(queue) /\ Head(queue) = queue[1]
        /\ queue # <<>>
    BY <1>7, <1>a, Requests DEF Execute, ManagerInv
  <2>2. job' = Head(queue) /\ queue' = Tail(queue) /\ UNCHANGED todo
    BY <1>7 DEF Execute
  <2>3. /\ table[u] # NULL /\ op \in {"connect", "disconnect"} => heap.data[t] = NULL
        /\ op = "disconnect" => Scheme[u] # "irc"
    BY <2>1 DEF Orderly
  <2>4. /\ table[u] # NULL => t \in Transport /\ t[1] = u
        /\ \A v \in Uris : table[v] # NULL => AskRunning(heap, table[v]) = heap
    BY <1>c, <2>1, QuietCalm
  (* Commands that spawn no thread and connect nothing. *)
  <2>q. ASSUME heap'.data = heap.data, UNCHANGED thread, NothingFreed',
               \A v \in Uris \ {u} : table'[v] = table[v]
        PROVE  CalmInv'
    <3>1. /\ Orderly'
          /\ \A i \in 1..Len(queue') : heap'.data[queue'[i].via] # NULL
          /\ heap'.data[Head(queue).via] # NULL
      BY <2>1, <2>2, <2>q, TailCalm
    <3> QED
      BY <1>d, <2>2, <2>q, <3>1 DEF OriginsConnected, OneThreadEach
  <2> HIDE DEF u, op
  <2>5. ASSUME CmdAdd(u) PROVE CalmInv'
    <3>1. /\ heap'.data = heap.data /\ heap'.session = heap.session
          /\ heap'.freed = heap.freed /\ heap'.fault = heap.fault
      BY <2>5 DEF CmdAdd, ManagerInv, HeapOK, Heap
    <3>2. \A v \in Uris \ {u} : table'[v] = table[v]
      BY <2>5, <2>1 DEF CmdAdd, ManagerInv, TableOK
    <3>3. UNCHANGED thread
      BY <2>5 DEF CmdAdd
    <3> QED
      BY <2>q, <3>1, <3>2, <3>3 DEF NothingFreed
  <2>6. ASSUME CmdRemove(u) PROVE CalmInv'
    <3>1. table[u] # NULL /\ UNCHANGED thread
      BY <2>6 DEF CmdRemove
    <3>2. CASE IsRunning(heap, t)
      <4>1. heap' = heap /\ table' = table
        BY <2>1, <2>4, <2>6, <3>1, <3>2 DEF CmdRemove
      <4> QED
        BY <2>q, <3>1, <4>1 DEF NothingFreed
    <3>3. CASE ~IsRunning(heap, t)
      <4>1. /\ heap' = [heap EXCEPT !.freed = @ \cup {t}]
            /\ table' = [table EXCEPT ![u] = NULL]
        BY <2>1, <2>4, <2>6, <3>1, <3>3 DEF CmdRemove
      <4>2. heap.data[t] = NULL
        BY <2>4, <3>1, <3>3, QuietCalm DEF IsRunning
      <4>3. /\ heap'.data = heap.data /\ heap'.session = heap.session
            /\ heap'.freed = heap.freed \cup {t} /\ heap'.fault = heap.fault
        BY <4>1 DEF ManagerInv, HeapOK, Heap
      <4>4. \A v \in Uris \ {u} : table'[v] = table[v]
        BY <2>1, <4>1 DEF ManagerInv, TableOK
      <4> QED
        BY <2>q, <3>1, <4>2, <4>3, <4>4 DEF NothingFreed
    <3> QED
      BY <3>2, <3>3
  <2>7. ASSUME CmdList(u) PROVE CalmInv'
    <3>1. heap' = heap /\ UNCHANGED <<table, thread>>
      BY <2>4, <2>7 DEF CmdList
    <3> QED
      BY <2>q, <3>1 DEF NothingFreed
  <2>8. ASSUME CmdConnect(u), op = "connect" PROVE CalmInv'
    <3>1. table[u] # NULL /\ UNCHANGED table
      BY <2>8 DEF CmdConnect
    <3>2. PICK r \in Run(heap, table[u]) : heap' = r[1] /\ Spawn(table[u], r[2])
      BY <2>8 DEF CmdConnect
    <3>3. Connectable(heap, table[u])
      BY <2>1, <3>1, MayConnect
    <3>4. /\ NothingFreed' /\ OneThreadEach'
          /\ \A i \in 1..Len(thread') : heap'.data[thread'[i].of] # NULL
          /\ \A x \in Transport : heap.data[x] # NULL => heap'.data[x] # NULL
          /\ \A v \in Uris \ {u} : table[v] # NULL
               => heap'.data[table[v]] = heap.data[table[v]]
      BY <2>1, <2>3, <2>8, <3>1, <3>2, <3>3, SpawnCalm
    <3>5. /\ Orderly'
          /\ \A i \in 1..Len(queue') : heap'.data[queue'[i].via] # NULL
          /\ heap'.data[Head(queue).via] # NULL
      BY <2>1, <2>2, <3>1, <3>4, TailCalm DEF u
    <3> QED
      BY <2>2, <3>4, <3>5 DEF OriginsConnected
  <2>9. ASSUME CmdDisconnect(u), op = "disconnect" PROVE CalmInv'
    <3>1. table[u] # NULL /\ heap' = Shutdown(heap, t)[1] /\ UNCHANGED <<table, thread>>
      BY <2>9 DEF CmdDisconnect
    <3>2. heap' = heap
      BY <2>3, <2>4, <2>9, <3>1, DisconnectCalm DEF NothingFreed, ManagerInv
    <3> QED
      BY <2>q, <3>1, <3>2 DEF NothingFreed
  <2>10. ASSUME CmdNotFound(op, u) PROVE CalmInv'
    BY <2>10, <2>q DEF CmdNotFound, NothingFreed
  <2> QED
    BY <1>7, <2>5, <2>6, <2>7, <2>8, <2>9, <2>10 DEF Execute, u, op
<1>8. ASSUME Answer PROVE CalmInv'
  <2>1. job # NULL /\ heap.data[job.via] # NULL /\ job.via \in Transport
    BY <1>8, <1>b DEF Answer, OriginsConnected
  <2>2. heap' = heap /\ job' = NULL /\ UNCHANGED <<table, thread, queue, todo>>
    BY <1>8, <2>1, QuietCalm DEF Answer
  <2> QED
    BY <2>2 DEF NothingFreed, OriginsConnected, OneThreadEach, Orderly
<1> QED
  BY <1>1, <1>2, <1>3, <1>4, <1>5, <1>6, <1>7, <1>8 DEF Next, Lose

LEMMA CalmInvariant == Spec => [](Calm => CalmInv)
<1>1. Init => CalmInv
  <2> SUFFICES ASSUME Init PROVE CalmInv
    OBVIOUS
  <2>1. ManagerInv
    BY ManagerInit
  <2>2. /\ \A t \in Transport : heap.data[t] = NULL
        /\ \A s \in Session : heap.session[s] = "none"
        /\ heap.freed = {} /\ heap.fault = "none"
    BY DEF Init
  <2>3. \A u \in todo : table[u] \in Transport
    BY <2>1 DEF ManagerInv, Shapes, TableOK
  <2> QED
    BY <2>2, <2>3, EmptySeq
    DEF Init, CalmInv, NothingFreed, OriginsConnected, OneThreadEach, Orderly
<1>2. ManagerInv /\ (Calm => CalmInv) /\ [Next]_vars => (Calm => CalmInv)'
  <2> SUFFICES ASSUME ManagerInv, Calm => CalmInv, [Next]_vars, Calm' PROVE CalmInv'
    OBVIOUS
  <2>1. Calm /\ CalmInv
    BY DEF Calm, Next, vars
  <2>2. CASE UNCHANGED vars
    BY <2>1, <2>2 DEF vars, CalmInv, NothingFreed, OriginsConnected, OneThreadEach, Orderly
  <2> QED
    BY <2>1, <2>2, CalmStep
<1> QED
  BY <1>1, <1>2, ManagerInvariant, PTL DEF Spec

(* As long as connecting succeeds and users keep to Sensible commands,     *)
(* nothing that was freed or is missing is used: a transport that commands *)
(* came by has a session, so it calls itself running, and                  *)
(* bitu_conn_manager_remove refuses to free it under those commands.       *)
THEOREM NoFaultWhenCalm == Spec => []NoFault
<1>1. (Calm => CalmInv) => NoFault
  BY DEF NoFault, CalmInv, NothingFreed
<1> QED
  BY <1>1, CalmInvariant, PTL

(* Under the same circumstances no uri is ever served by two threads.      *)
THEOREM OneThreadWhenCalm == Spec => []OneThread
<1>1. (Calm => CalmInv) => OneThread
  BY DEF OneThread, CalmInv, OneThreadEach
<1> QED
  BY <1>1, CalmInvariant, PTL
=============================================================================
