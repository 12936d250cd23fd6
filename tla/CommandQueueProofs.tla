------------------------- MODULE CommandQueueProofs -------------------------
(***************************************************************************)
(* Proofs about the command queue for any number of transports and         *)
(* consumers and any list size.                                            *)
(***************************************************************************)
EXTENDS CommandQueue, FiniteSetTheorems, SequenceTheorems, TLAPS

(* A producer is somewhere in bitu_queue_add but its command is not in the *)
(* list yet.                                                               *)
Entering(p) == pc[p] \in {"lock", "check", "wait"}

(* How the program counters, the call counters and the data agree.         *)
Bookkeeping ==
  /\ \A p \in Producers : pc[p] # "exec" /\ (Entering(p) => calls[p] >= 1)
  /\ \A c \in Consumers : (data[c] # NULL) <=> (pc[c] = "exec")

(* cmd was queued by a call its producer has already got past.             *)
Queued(cmd) == /\ cmd[2] <= calls[cmd[1]]
               /\ Entering(cmd[1]) => cmd[2] < calls[cmd[1]]

(* Only such commands are in the list or executed.                         *)
OnlyQueued == /\ \A i \in 1..Len(list) : Queued(list[i])
              /\ \A c \in Consumers : data[c] # NULL => Queued(data[c])

-----------------------------------------------------------------------------
(* The list, its calls and its owner are well formed.                      *)
CoreInv == TypeOK /\ SerialExecution /\ Bookkeeping

LEMMA CoreInit == Init => CoreInv
<1> SUFFICES ASSUME Init PROVE CoreInv
  OBVIOUS
<1>1. TypeOK
  <2>1. list \in Seq(Command) /\ Len(list) <= MaxSize
    BY QueueAssumption DEF Init
  <2>2. calls \in [Producers -> 0..Quota]
    BY QueueAssumption DEF Init
  <2> QED
    BY <2>1, <2>2 DEF Init, TypeOK
<1>2. SerialExecution
  BY QueueAssumption DEF Init, SerialExecution
<1>3. Bookkeeping
  BY DEF Init, Bookkeeping, Entering, Threads
<1> QED
  BY <1>1, <1>2, <1>3 DEF CoreInv

LEMMA CoreStep == CoreInv /\ [Next]_vars => CoreInv'
<1> SUFFICES ASSUME CoreInv, [Next]_vars PROVE CoreInv'
  OBVIOUS
<1> USE QueueAssumption DEF CoreInv, TypeOK, SerialExecution, Bookkeeping, Entering, Threads
<1>1. ASSUME NEW t \in Threads, Lock(t) PROVE CoreInv'
  BY <1>1 DEF Lock
<1>2. ASSUME NEW t \in Threads, SpuriousWakeup(t) PROVE CoreInv'
  BY <1>2 DEF SpuriousWakeup
<1>3. ASSUME NEW p \in Producers, AddCall(p) PROVE CoreInv'
  BY <1>3 DEF AddCall
<1>4. ASSUME NEW p \in Producers, AddWait(p) PROVE CoreInv'
  BY <1>4 DEF AddWait, Wait
<1>5. ASSUME NEW p \in Producers, AddPut(p) PROVE CoreInv'
  BY <1>5 DEF AddPut, Cmd, Command
<1>6. ASSUME NEW p \in Producers, AddSignal(p) PROVE CoreInv'
  BY <1>6 DEF AddSignal, Signal, Waiting
<1>7. ASSUME NEW c \in Consumers, ConsumeStart(c) PROVE CoreInv'
  BY <1>7 DEF ConsumeStart
<1>8. ASSUME NEW c \in Consumers, ConsumeWait(c) PROVE CoreInv'
  BY <1>8 DEF ConsumeWait, Wait
<1>9. ASSUME NEW c \in Consumers, ConsumePop(c) PROVE CoreInv'
  BY <1>9 DEF ConsumePop
<1>10. ASSUME NEW c \in Consumers, ConsumeDone(c) PROVE CoreInv'
  BY <1>10 DEF ConsumeDone
<1>11. ASSUME NEW c \in Consumers, ConsumeSignal(c) PROVE CoreInv'
  BY <1>11 DEF ConsumeSignal, Signal, Waiting
<1>12. CASE UNCHANGED vars
  BY <1>12 DEF vars
<1> QED
  BY <1>1, <1>2, <1>3, <1>4, <1>5, <1>6, <1>7, <1>8, <1>9, <1>10, <1>11, <1>12
  DEF Next, Producer, Consumer

LEMMA CoreInvariant == Spec => []CoreInv
BY CoreInit, CoreStep, PTL DEF Spec

(* Every reachable state is well typed.                                    *)
THEOREM TypeCorrect == Spec => []TypeOK
BY CoreInvariant, PTL DEF CoreInv

(* However many consumers there are, commands execute one at a time.       *)
THEOREM Serial == Spec => []SerialExecution
BY CoreInvariant, PTL DEF CoreInv

-----------------------------------------------------------------------------
(* The wake-up invariants count threads, so they need to know how a count  *)
(* changes with one element.                                               *)
LEMMA Counting ==
  ASSUME NEW S, IsFiniteSet(S)
  PROVE  /\ Cardinality(S) \in Nat
         /\ \A T \in SUBSET S : Cardinality(T) <= Cardinality(S)
         /\ \A x : x \notin S => Cardinality(S \cup {x}) = Cardinality(S) + 1
         /\ \A x \in S : Cardinality(S \ {x}) = Cardinality(S) - 1
BY FS_CardinalityType, FS_Subset, FS_AddElement, FS_RemoveElement

LEMMA Finite ==
  ASSUME NEW S, S \in {Producers, Consumers}
  PROVE  IsFiniteSet(Awake(S)) /\ IsFiniteSet(Signalling(S))
BY QueueAssumption, FS_Subset DEF Awake, Signalling

(* What _bitu_queue_pop leaves of a list.                                   *)
LEMMA Popping ==
  ASSUME NEW s \in Seq(Command), s # <<>>
  PROVE  /\ Len(s) \in Nat /\ Len(s) >= 1 /\ s[Len(s)] \in Command
         /\ SubSeq(s, 1, Len(s) - 1) \in Seq(Command)
         /\ Len(SubSeq(s, 1, Len(s) - 1)) = Len(s) - 1
         /\ \A i \in 1..(Len(s) - 1) : SubSeq(s, 1, Len(s) - 1)[i] = s[i]
<1>1. Len(s) \in Nat /\ Len(s) >= 1
  BY EmptySeq, LenProperties
<1>2. s[Len(s)] \in Command
  BY <1>1, ElementOfSeq
<1>3. \A i \in 1..(Len(s) - 1) : s[i] \in Command
  BY <1>1, ElementOfSeq
<1> DEFINE t == SubSeq(s, 1, Len(s) - 1)
<1>4. /\ t \in Seq(Command)
      /\ 1 <= Len(s) - 1 => Len(t) = (Len(s) - 1) - 1 + 1
      /\ ~(1 <= Len(s) - 1) => Len(t) = 0
      /\ \A i \in 1..((Len(s) - 1) - 1 + 1) : t[i] = s[1 + i - 1]
  <2>1. 1 \in Int /\ Len(s) - 1 \in Int
    BY <1>1
  <2>2. /\ t \in Seq(Command)
        /\ Len(t) = IF 1 <= Len(s) - 1 THEN (Len(s) - 1) - 1 + 1 ELSE 0
        /\ \A i \in 1..((Len(s) - 1) - 1 + 1) : t[i] = s[1 + i - 1]
    <3> HIDE DEF t
    <3> QED
      BY <1>3, <2>1, SubSeqProperties DEF t
  <2> HIDE DEF t
  <2> QED
    BY <2>2, Zenon
<1> HIDE DEF t
<1>5. Len(t) = Len(s) - 1
  BY <1>1, <1>4
<1>6. ASSUME NEW i \in 1..(Len(s) - 1) PROVE t[i] = s[i]
  <2>1. i \in 1..((Len(s) - 1) - 1 + 1) /\ 1 + i - 1 = i
    BY <1>1
  <2>2. t[i] = s[1 + i - 1]
    BY <2>1, <1>4
  <2> QED
    BY <2>1, <2>2, Zenon
<1> QED
  BY <1>1, <1>2, <1>4, <1>5, <1>6 DEF t

LEMMA ProducersStep ==
  CoreInv /\ ProducersNotForgotten /\ [Next]_vars => ProducersNotForgotten'
<1> SUFFICES ASSUME CoreInv, ProducersNotForgotten, [Next]_vars
             PROVE  ProducersNotForgotten'
  OBVIOUS
<1> DEFINE W == Waiting(Producers)
           A == Awake(Producers)
           G == Signalling(Consumers)
<1>a. /\ IsFiniteSet(A) /\ IsFiniteSet(G)
      /\ Cardinality(A) \in Nat /\ Cardinality(G) \in Nat
      /\ Len(list) \in Nat /\ MaxSize \in Nat
  BY Finite, Counting, QueueAssumption DEF CoreInv, TypeOK
<1>b. pc \in [Threads -> {"idle", "lock", "check", "wait", "exec", "signal"}]
  BY DEF CoreInv, TypeOK
<1>c. Producers \cap Consumers = {} /\ Producers \subseteq Threads
      /\ Consumers \subseteq Threads
  BY QueueAssumption DEF Threads
<1>d. ProducersNotForgotten <=>
        (W # {} => MaxSize <= Len(list) + Cardinality(A) + Cardinality(G))
  BY DEF ProducersNotForgotten
<1>e. ASSUME W' = W, A' = A, G' = G, list' = list PROVE ProducersNotForgotten'
  BY <1>e, <1>d DEF ProducersNotForgotten
<1>f. ASSUME NEW x, x \notin A, A' = A \cup {x}, W' \subseteq W, G' = G, list' = list
      PROVE  ProducersNotForgotten'
  BY <1>a, <1>d, <1>f, Counting DEF ProducersNotForgotten
<1>1. ASSUME NEW t \in Threads, Lock(t) PROVE ProducersNotForgotten'
  BY <1>1, <1>b, <1>c, <1>e DEF Lock, Waiting, Awake, Signalling
<1>2. ASSUME NEW t \in Threads, SpuriousWakeup(t) PROVE ProducersNotForgotten'
  <2>1. CASE t \in Producers
    <3>1. /\ t \notin A /\ A' = A \cup {t}
          /\ W' \subseteq W /\ G' = G /\ list' = list
      BY <1>2, <1>b, <1>c, <2>1 DEF SpuriousWakeup, Waiting, Awake, Signalling
    <3> QED
      BY <3>1, <1>f
  <2>2. CASE t \in Consumers
    BY <1>2, <1>b, <1>c, <1>e, <2>2 DEF SpuriousWakeup, Waiting, Awake, Signalling
  <2> QED
    BY <2>1, <2>2 DEF Threads
<1>3. ASSUME NEW p \in Producers, AddCall(p) PROVE ProducersNotForgotten'
  <2>1. /\ p \notin A /\ A' = A \cup {p}
        /\ W' \subseteq W /\ G' = G /\ list' = list
    BY <1>3, <1>b, <1>c DEF AddCall, Waiting, Awake, Signalling
  <2> QED
    BY <2>1, <1>f
<1>4. ASSUME NEW p \in Producers, AddWait(p) PROVE ProducersNotForgotten'
  <2>1. MaxSize <= Len(list) /\ list' = list
    BY <1>4 DEF AddWait, Wait
  <2>2. A' \in SUBSET A /\ G' = G
    BY <1>4, <1>b, <1>c DEF AddWait, Wait, Awake, Signalling
  <2>3. Cardinality(A') \in Nat
    BY <2>2, <1>a, FS_Subset, FS_CardinalityType
  <2> QED
    BY <1>a, <2>1, <2>2, <2>3 DEF ProducersNotForgotten
<1>5. ASSUME NEW p \in Producers, AddPut(p) PROVE ProducersNotForgotten'
  <2>1. p \in A /\ A' = A \ {p} /\ W' = W /\ G' = G
    BY <1>5, <1>b, <1>c DEF AddPut, Waiting, Awake, Signalling
  <2>2. Len(list') = Len(list) + 1
    BY <1>5 DEF AddPut, CoreInv, TypeOK
  <2>3. Cardinality(A') = Cardinality(A) - 1
    BY <2>1, <1>a, Counting
  <2> QED
    BY <1>a, <1>d, <2>1, <2>2, <2>3 DEF ProducersNotForgotten
<1>6. ASSUME NEW p \in Producers, AddSignal(p) PROVE ProducersNotForgotten'
  BY <1>6, <1>b, <1>c, <1>e DEF AddSignal, Signal, Waiting, Awake, Signalling
<1>7. ASSUME NEW c \in Consumers, ConsumeStart(c) PROVE ProducersNotForgotten'
  BY <1>7, <1>b, <1>c, <1>e DEF ConsumeStart, Waiting, Awake, Signalling
<1>8. ASSUME NEW c \in Consumers, ConsumeWait(c) PROVE ProducersNotForgotten'
  BY <1>8, <1>b, <1>c, <1>e DEF ConsumeWait, Wait, Waiting, Awake, Signalling
<1>9. ASSUME NEW c \in Consumers, ConsumePop(c) PROVE ProducersNotForgotten'
  <2>1. c \notin G /\ G' = G \cup {c} /\ W' = W /\ A' = A
    BY <1>9, <1>b, <1>c DEF ConsumePop, Waiting, Awake, Signalling
  <2>2. Len(list') = Len(list) - 1
    BY <1>9, Popping DEF ConsumePop, CoreInv, TypeOK
  <2>3. Cardinality(G') = Cardinality(G) + 1
    BY <2>1, <1>a, Counting
  <2> QED
    BY <1>a, <1>d, <2>1, <2>2, <2>3 DEF ProducersNotForgotten
<1>10. ASSUME NEW c \in Consumers, ConsumeDone(c) PROVE ProducersNotForgotten'
  BY <1>10, <1>b, <1>c, <1>e DEF ConsumeDone, Waiting, Awake, Signalling
<1>11. ASSUME NEW c \in Consumers, ConsumeSignal(c) PROVE ProducersNotForgotten'
  <2>1. CASE W = {}
    <3>1. W' = {}
      BY <1>11, <1>b, <1>c, <2>1 DEF ConsumeSignal, Signal, Waiting
    <3> QED
      BY <3>1 DEF ProducersNotForgotten
  <2>2. ASSUME NEW w \in W,
               pc' = [pc EXCEPT ![c] = IF running THEN "lock" ELSE "idle", ![w] = "lock"]
        PROVE  ProducersNotForgotten'
    <3>1. /\ w \notin A /\ A' = A \cup {w}
          /\ c \in G /\ G' = G \ {c} /\ list' = list
      BY <1>11, <1>b, <1>c, <2>2 DEF ConsumeSignal, Waiting, Awake, Signalling
    <3>2. /\ Cardinality(A') = Cardinality(A) + 1
          /\ Cardinality(G') = Cardinality(G) - 1
      BY <3>1, <1>a, Counting
    <3> QED
      BY <1>a, <1>d, <2>2, <3>1, <3>2 DEF ProducersNotForgotten
  <2> QED
    BY <1>11, <2>1, <2>2 DEF ConsumeSignal, Signal
<1>12. CASE UNCHANGED vars
  BY <1>12, <1>e DEF vars, Waiting, Awake, Signalling
<1> QED
  BY <1>1, <1>2, <1>3, <1>4, <1>5, <1>6, <1>7, <1>8, <1>9, <1>10, <1>11, <1>12
  DEF Next, Producer, Consumer

LEMMA ConsumersStep ==
  CoreInv /\ ConsumersNotForgotten /\ [Next]_vars => ConsumersNotForgotten'
<1> SUFFICES ASSUME CoreInv, ConsumersNotForgotten, [Next]_vars
             PROVE  ConsumersNotForgotten'
  OBVIOUS
<1> DEFINE W == Waiting(Consumers)
           A == Awake(Consumers)
           G == Signalling(Producers)
<1>a. /\ IsFiniteSet(A) /\ IsFiniteSet(G)
      /\ Cardinality(A) \in Nat /\ Cardinality(G) \in Nat
      /\ Len(list) \in Nat
  BY Finite, Counting DEF CoreInv, TypeOK
<1>b. pc \in [Threads -> {"idle", "lock", "check", "wait", "exec", "signal"}]
  BY DEF CoreInv, TypeOK
<1>c. Producers \cap Consumers = {} /\ Producers \subseteq Threads
      /\ Consumers \subseteq Threads
  BY QueueAssumption DEF Threads
<1>d. ConsumersNotForgotten <=> (W # {} => Len(list) <= Cardinality(A) + Cardinality(G))
  BY DEF ConsumersNotForgotten
<1>e. ASSUME W' = W, A' = A, G' = G, list' = list PROVE ConsumersNotForgotten'
  BY <1>e, <1>d DEF ConsumersNotForgotten
<1>f. ASSUME NEW x, x \notin A, A' = A \cup {x}, W' \subseteq W, G' = G, list' = list
      PROVE  ConsumersNotForgotten'
  BY <1>a, <1>d, <1>f, Counting DEF ConsumersNotForgotten
<1>1. ASSUME NEW t \in Threads, Lock(t) PROVE ConsumersNotForgotten'
  BY <1>1, <1>b, <1>c, <1>e DEF Lock, Waiting, Awake, Signalling
<1>2. ASSUME NEW t \in Threads, SpuriousWakeup(t) PROVE ConsumersNotForgotten'
  <2>1. CASE t \in Consumers
    <3>1. /\ t \notin A /\ A' = A \cup {t}
          /\ W' \subseteq W /\ G' = G /\ list' = list
      BY <1>2, <1>b, <1>c, <2>1 DEF SpuriousWakeup, Waiting, Awake, Signalling
    <3> QED
      BY <3>1, <1>f
  <2>2. CASE t \in Producers
    BY <1>2, <1>b, <1>c, <1>e, <2>2 DEF SpuriousWakeup, Waiting, Awake, Signalling
  <2> QED
    BY <2>1, <2>2 DEF Threads
<1>3. ASSUME NEW p \in Producers, AddCall(p) PROVE ConsumersNotForgotten'
  BY <1>3, <1>b, <1>c, <1>e DEF AddCall, Waiting, Awake, Signalling
<1>4. ASSUME NEW p \in Producers, AddWait(p) PROVE ConsumersNotForgotten'
  BY <1>4, <1>b, <1>c, <1>e DEF AddWait, Wait, Waiting, Awake, Signalling
<1>5. ASSUME NEW p \in Producers, AddPut(p) PROVE ConsumersNotForgotten'
  <2>1. p \notin G /\ G' = G \cup {p} /\ W' = W /\ A' = A
    BY <1>5, <1>b, <1>c DEF AddPut, Waiting, Awake, Signalling
  <2>2. Len(list') = Len(list) + 1
    BY <1>5 DEF AddPut, CoreInv, TypeOK
  <2>3. Cardinality(G') = Cardinality(G) + 1
    BY <2>1, <1>a, Counting
  <2> QED
    BY <1>a, <1>d, <2>1, <2>2, <2>3 DEF ConsumersNotForgotten
<1>6. ASSUME NEW p \in Producers, AddSignal(p) PROVE ConsumersNotForgotten'
  <2>1. CASE W = {}
    <3>1. W' = {}
      BY <1>6, <1>b, <1>c, <2>1 DEF AddSignal, Signal, Waiting
    <3> QED
      BY <3>1 DEF ConsumersNotForgotten
  <2>2. ASSUME NEW w \in W, pc' = [pc EXCEPT ![p] = "idle", ![w] = "lock"]
        PROVE  ConsumersNotForgotten'
    <3>1. /\ w \notin A /\ A' = A \cup {w}
          /\ p \in G /\ G' = G \ {p} /\ list' = list
      BY <1>6, <1>b, <1>c, <2>2 DEF AddSignal, Waiting, Awake, Signalling
    <3>2. /\ Cardinality(A') = Cardinality(A) + 1
          /\ Cardinality(G') = Cardinality(G) - 1
      BY <3>1, <1>a, Counting
    <3> QED
      BY <1>a, <1>d, <2>2, <3>1, <3>2 DEF ConsumersNotForgotten
  <2> QED
    BY <1>6, <2>1, <2>2 DEF AddSignal, Signal
<1>7. ASSUME NEW c \in Consumers, ConsumeStart(c) PROVE ConsumersNotForgotten'
  <2>1. /\ c \notin A /\ A' = A \cup {c}
        /\ W' \subseteq W /\ G' = G /\ list' = list
    BY <1>7, <1>b, <1>c DEF ConsumeStart, Waiting, Awake, Signalling
  <2> QED
    BY <2>1, <1>f
<1>8. ASSUME NEW c \in Consumers, ConsumeWait(c) PROVE ConsumersNotForgotten'
  <2>1. list' = <<>> /\ G' = G
    BY <1>8, <1>b, <1>c DEF ConsumeWait, Wait, Signalling
  <2>2. A' \in SUBSET A
    BY <1>8, <1>b, <1>c DEF ConsumeWait, Wait, Awake
  <2>3. Cardinality(A') \in Nat
    BY <2>2, <1>a, FS_Subset, FS_CardinalityType
  <2>4. Len(list') = 0
    BY <2>1
  <2> QED
    BY <1>a, <2>1, <2>3, <2>4 DEF ConsumersNotForgotten
<1>9. ASSUME NEW c \in Consumers, ConsumePop(c) PROVE ConsumersNotForgotten'
  <2>1. c \in A /\ A' = A \ {c} /\ W' = W /\ G' = G
    BY <1>9, <1>b, <1>c DEF ConsumePop, Waiting, Awake, Signalling
  <2>2. Len(list') = Len(list) - 1
    BY <1>9, Popping DEF ConsumePop, CoreInv, TypeOK
  <2>3. Cardinality(A') = Cardinality(A) - 1
    BY <2>1, <1>a, Counting
  <2> QED
    BY <1>a, <1>d, <2>1, <2>2, <2>3 DEF ConsumersNotForgotten
<1>10. ASSUME NEW c \in Consumers, ConsumeDone(c) PROVE ConsumersNotForgotten'
  BY <1>10, <1>b, <1>c, <1>e DEF ConsumeDone, Waiting, Awake, Signalling
<1>11. ASSUME NEW c \in Consumers, ConsumeSignal(c) PROVE ConsumersNotForgotten'
  <2>1. list' = list /\ G' = G
    BY <1>11, <1>b, <1>c DEF ConsumeSignal, Signal, Waiting, Signalling
  <2>2. \/ W' = W /\ A' = A
        \/ c \notin A /\ A' = A \cup {c} /\ W' = W
    BY <1>11, <1>b, <1>c DEF ConsumeSignal, Signal, Waiting, Awake
  <2> QED
    BY <2>1, <2>2, <1>e, <1>f
<1>12. CASE UNCHANGED vars
  BY <1>12, <1>e DEF vars, Waiting, Awake, Signalling
<1> QED
  BY <1>1, <1>2, <1>3, <1>4, <1>5, <1>6, <1>7, <1>8, <1>9, <1>10, <1>11, <1>12
  DEF Next, Producer, Consumer

LEMMA NoLostWakeup == Spec => [](ProducersNotForgotten /\ ConsumersNotForgotten)
<1>1. Init => ProducersNotForgotten /\ ConsumersNotForgotten
  BY DEF Init, ProducersNotForgotten, ConsumersNotForgotten, Waiting, Threads
<1> QED
  BY <1>1, CoreInvariant, ProducersStep, ConsumersStep, PTL DEF Spec

(* No transport is left blocked on the condition variable of a full list   *)
(* that has room again, although consumers signal after they unlock.       *)
THEOREM ProducersWoken == Spec => []ProducersNotForgotten
BY NoLostWakeup, PTL

(* No consumer is left blocked on an empty list that has got commands: for *)
(* every command somebody is awake or about to be signalled.               *)
THEOREM ConsumersWoken == Spec => []ConsumersNotForgotten
BY NoLostWakeup, PTL

-----------------------------------------------------------------------------
(* What ta_list_prepend makes of a list.                                   *)
LEMMA Prepending ==
  ASSUME NEW s \in Seq(Command), NEW x \in Command
  PROVE  /\ <<x>> \o s \in Seq(Command)
         /\ Len(<<x>> \o s) = Len(s) + 1
         /\ (<<x>> \o s)[1] = x
         /\ \A i \in 2..(Len(s) + 1) : (<<x>> \o s)[i] = s[i - 1]
<1>1. Len(s) \in Nat
  BY LenProperties
<1> QED
  BY <1>1

OrderInv == OnlyQueued /\ SenderOrder

LEMMA OrderStep == CoreInv /\ OrderInv /\ [Next]_vars => OrderInv'
<1> SUFFICES ASSUME CoreInv, OrderInv, [Next]_vars
             PROVE  OrderInv'
  OBVIOUS
<1> USE DEF OrderInv, OnlyQueued, SenderOrder, Queued, Entering
<1>a. /\ list \in Seq(Command) /\ Len(list) \in Nat
      /\ \A i \in 1..Len(list) : /\ list[i] \in Command
                                 /\ list[i][1] \in Producers /\ list[i][2] \in Nat
  BY ElementOfSeq, QueueAssumption DEF CoreInv, TypeOK, Command
<1>b. pc \in [Threads -> {"idle", "lock", "check", "wait", "exec", "signal"}]
      /\ calls \in [Producers -> Nat]
  BY QueueAssumption DEF CoreInv, TypeOK
<1>c. Producers \cap Consumers = {} /\ Producers \subseteq Threads
      /\ Consumers \subseteq Threads
  BY QueueAssumption DEF Threads
<1>d. /\ data \in [Consumers -> Command \cup {NULL}]
      /\ \A c \in Consumers : data[c] # NULL => /\ data[c][1] \in Producers
                                                /\ data[c][2] \in Nat
  BY QueueAssumption DEF CoreInv, TypeOK, Command
<1>e. ASSUME list' = list, data' = data, calls' = calls,
             \A p \in Producers : Entering(p)' => Entering(p)
      PROVE  OrderInv'
  BY <1>a, <1>d, <1>e
<1>1. ASSUME NEW t \in Threads, Lock(t) PROVE OrderInv'
  BY <1>1, <1>b, <1>c, <1>e DEF Lock
<1>2. ASSUME NEW t \in Threads, SpuriousWakeup(t) PROVE OrderInv'
  BY <1>2, <1>b, <1>c, <1>e DEF SpuriousWakeup
<1>3. ASSUME NEW p \in Producers, AddCall(p) PROVE OrderInv'
  <2>1. /\ list' = list /\ data' = data
        /\ calls' = [calls EXCEPT ![p] = @ + 1]
        /\ \A q \in Producers : q # p => pc'[q] = pc[q]
    BY <1>3, <1>b, <1>c DEF AddCall
  <2>2. ASSUME NEW cmd, cmd[1] \in Producers, cmd[2] \in Nat, Queued(cmd)
        PROVE  Queued(cmd)'
    BY <2>1, <2>2, <1>b
  <2> QED
    BY <2>1, <2>2, <1>a, <1>d
<1>4. ASSUME NEW p \in Producers, AddWait(p) PROVE OrderInv'
  BY <1>4, <1>b, <1>c, <1>e DEF AddWait, Wait
<1>5. ASSUME NEW p \in Producers, AddPut(p) PROVE OrderInv'
  <2>1. /\ Cmd(p) \in Command /\ Cmd(p)[1] = p /\ Cmd(p)[2] = calls[p]
    BY <1>5, <1>c DEF AddPut, Cmd, Command, CoreInv, TypeOK, Bookkeeping
  <2>2. /\ list' = <<Cmd(p)>> \o list /\ data' = data /\ calls' = calls
        /\ pc' = [pc EXCEPT ![p] = "signal"] /\ pc[p] = "check"
    BY <1>5 DEF AddPut
  <2>3. /\ Len(list') = Len(list) + 1 /\ list'[1] = Cmd(p)
        /\ \A i \in 2..Len(list') : list'[i] = list[i - 1] /\ i - 1 \in 1..Len(list)
    BY <2>1, <2>2, <1>a, Prepending
  <2>4. \A i \in 1..Len(list) : list[i][1] = p => list[i][2] < calls[p]
    BY <2>2
  <2>5. \A c \in Consumers : data[c] # NULL /\ data[c][1] = p => data[c][2] < calls[p]
    BY <2>2
  <2>6. \A q \in Producers : Entering(q)' => Entering(q) /\ q # p
    BY <2>2, <1>b, <1>c
  <2>7. OnlyQueued'
    <3>1. ASSUME NEW i \in 1..Len(list') PROVE Queued(list[i])'
      <4>1. CASE i = 1
        BY <4>1, <2>1, <2>2, <2>3, <2>6, <1>b
      <4>2. CASE i # 1
        BY <4>2, <2>2, <2>3, <2>6, <1>a
      <4> QED
        BY <4>1, <4>2
    <3>2. ASSUME NEW c \in Consumers, data'[c] # NULL PROVE Queued(data[c])'
      BY <2>2, <2>6, <3>2, <1>d
    <3> QED
      BY <3>1, <3>2
  <2>8. SenderOrder'
    <3>1. ASSUME NEW i \in 1..Len(list'), NEW j \in 1..Len(list'),
                 i < j, list'[i][1] = list'[j][1]
          PROVE  list'[i][2] > list'[j][2]
      <4>1. j \in 2..Len(list')
        BY <3>1, <1>a, <2>3
      <4>2. CASE i = 1
        <5>1. list'[j] = list[j - 1] /\ j - 1 \in 1..Len(list)
          BY <4>1, <2>3
        <5> QED
          BY <5>1, <4>2, <3>1, <2>1, <2>3, <2>4, <1>a, <1>b
      <4>3. CASE i # 1
        <5>1. /\ list'[j] = list[j - 1] /\ j - 1 \in 1..Len(list)
              /\ list'[i] = list[i - 1] /\ i - 1 \in 1..Len(list)
              /\ i - 1 < j - 1
          BY <4>1, <4>3, <3>1, <2>3, <1>a
        <5> QED
          BY <5>1, <3>1
      <4> QED
        BY <4>2, <4>3
    <3>2. ASSUME NEW c \in Consumers, NEW i \in 1..Len(list'),
                 data'[c] # NULL, data'[c][1] = list'[i][1]
          PROVE  data'[c][2] < list'[i][2]
      <4>2. CASE i = 1
        BY <4>2, <3>2, <2>1, <2>2, <2>3, <2>5
      <4>3. CASE i # 1
        <5>1. i \in 2..Len(list')
          BY <4>3, <1>a, <2>3
        <5>2. list'[i] = list[i - 1] /\ i - 1 \in 1..Len(list)
          BY <5>1, <2>3
        <5>3. data'[c] = data[c]
          BY <2>2
        <5> QED
          BY <5>2, <5>3, <3>2
      <4> QED
        BY <4>2, <4>3
    <3> QED
      BY <3>1, <3>2
  <2> QED
    BY <2>7, <2>8
<1>6. ASSUME NEW p \in Producers, AddSignal(p) PROVE OrderInv'
  BY <1>6, <1>b, <1>c, <1>e DEF AddSignal, Signal, Waiting
<1>7. ASSUME NEW c \in Consumers, ConsumeStart(c) PROVE OrderInv'
  BY <1>7, <1>b, <1>c, <1>e DEF ConsumeStart
<1>8. ASSUME NEW c \in Consumers, ConsumeWait(c) PROVE OrderInv'
  BY <1>8, <1>b, <1>c, <1>e DEF ConsumeWait, Wait
<1>9. ASSUME NEW c \in Consumers, ConsumePop(c) PROVE OrderInv'
  <2>1. /\ list # <<>> /\ list' = SubSeq(list, 1, Len(list) - 1)
        /\ data' = [data EXCEPT ![c] = list[Len(list)]] /\ calls' = calls
        /\ pc' = [pc EXCEPT ![c] = "exec"]
    BY <1>9 DEF ConsumePop
  <2>2. /\ Len(list) >= 1 /\ Len(list') = Len(list) - 1
        /\ \A i \in 1..Len(list') : list'[i] = list[i] /\ i \in 1..Len(list)
    BY <2>1, <1>a, Popping
  <2>3. \A d \in Consumers : data'[d] = IF d = c THEN list[Len(list)] ELSE data[d]
    BY <2>1, <1>d
  <2>4. \A p \in Producers : Entering(p)' => Entering(p)
    BY <2>1, <1>b, <1>c
  <2>6. OnlyQueued'
    <3>1. ASSUME NEW i \in 1..Len(list') PROVE Queued(list[i])'
      BY <2>1, <2>2, <2>4, <1>a
    <3>2. ASSUME NEW d \in Consumers, data'[d] # NULL PROVE Queued(data[d])'
      BY <2>1, <2>2, <2>3, <2>4, <3>2, <1>a, <1>d
    <3> QED
      BY <3>1, <3>2
  <2>7. SenderOrder'
    <3>1. \A i, j \in 1..Len(list') :
            i < j /\ list'[i][1] = list'[j][1] => list'[i][2] > list'[j][2]
      BY <2>2
    <3>2. ASSUME NEW d \in Consumers, NEW i \in 1..Len(list'),
                 data'[d] # NULL, data'[d][1] = list'[i][1]
          PROVE  data'[d][2] < list'[i][2]
      <4>1. CASE d = c
        BY <4>1, <3>2, <2>2, <2>3, <1>a
      <4>2. CASE d # c
        BY <4>2, <3>2, <2>2, <2>3
      <4> QED
        BY <4>1, <4>2
    <3> QED
      BY <3>1, <3>2
  <2> QED
    BY <2>6, <2>7
<1>10. ASSUME NEW c \in Consumers, ConsumeDone(c) PROVE OrderInv'
  <2>1. /\ list' = list /\ calls' = calls
        /\ \A p \in Producers : Entering(p)' => Entering(p)
        /\ \A d \in Consumers : data'[d] # NULL => data'[d] = data[d]
    BY <1>10, <1>b, <1>c, <1>d DEF ConsumeDone
  <2> QED
    BY <2>1, <1>a, <1>d
<1>11. ASSUME NEW c \in Consumers, ConsumeSignal(c) PROVE OrderInv'
  <2>1. \A p \in Producers : Entering(p)' => Entering(p)
    BY <1>11, <1>b, <1>c DEF ConsumeSignal, Signal, Waiting
  <2> QED
    BY <1>11, <2>1, <1>e DEF ConsumeSignal
<1>12. CASE UNCHANGED vars
  BY <1>12, <1>e DEF vars
<1> QED
  BY <1>1, <1>2, <1>3, <1>4, <1>5, <1>6, <1>7, <1>8, <1>9, <1>10, <1>11, <1>12
  DEF Next, Producer, Consumer

(* The commands of one transport execute in the order it queued them.      *)
THEOREM InSenderOrder == Spec => []SenderOrder
<1>1. Init => OrderInv
  BY DEF Init, OrderInv, OnlyQueued, SenderOrder
<1> QED
  BY <1>1, CoreInvariant, OrderStep, PTL DEF Spec, OrderInv

-----------------------------------------------------------------------------
(* The list read from its old end, as the refinement mapping does.         *)
Oldest(s) == [i \in 1..Len(s) |-> s[Len(s) + 1 - i]]

LEMMA OldestIsSeq ==
  ASSUME NEW s \in Seq(Command)
  PROVE  /\ Oldest(s) \in Seq(Command) /\ Len(Oldest(s)) = Len(s) /\ Len(s) \in Nat
         /\ \A i \in 1..Len(s) : Oldest(s)[i] = s[Len(s) + 1 - i]
<1>1. Len(s) \in Nat
  BY LenProperties
<1>2. ASSUME NEW i \in 1..Len(s) PROVE s[Len(s) + 1 - i] \in Command
  <2>1. Len(s) + 1 - i \in 1..Len(s)
    BY <1>1
  <2> QED
    BY <2>1, ElementOfSeq
<1> QED
  BY <1>1, <1>2 DEF Oldest

LEMMA OldestPrepended ==
  ASSUME NEW s \in Seq(Command), NEW x \in Command
  PROVE  Oldest(<<x>> \o s) = Append(Oldest(s), x)
<1> DEFINE u == <<x>> \o s
           a == Append(Oldest(s), x)
<1>1. /\ u \in Seq(Command) /\ Len(s) \in Nat /\ Len(u) = Len(s) + 1 /\ u[1] = x
      /\ \A i \in 2..(Len(s) + 1) : u[i] = s[i - 1]
  BY LenProperties, Prepending
<1> HIDE DEF u
<1>2. /\ Oldest(u) \in Seq(Command) /\ Len(Oldest(u)) = Len(s) + 1
      /\ \A i \in 1..(Len(s) + 1) : Oldest(u)[i] = u[Len(s) + 2 - i]
  BY <1>1, OldestIsSeq
<1>3. /\ a \in Seq(Command) /\ Len(a) = Len(s) + 1
      /\ \A i \in 1..Len(s) : a[i] = s[Len(s) + 1 - i]
      /\ a[Len(s) + 1] = x
  BY OldestIsSeq, AppendProperties
<1> HIDE DEF a
<1>4. ASSUME NEW i \in 1..(Len(s) + 1) PROVE Oldest(u)[i] = a[i]
  <2>1. CASE i = Len(s) + 1
    BY <2>1, <1>1, <1>2, <1>3
  <2>2. CASE i # Len(s) + 1
    <3>1. i \in 1..Len(s) /\ Len(s) + 2 - i \in 2..(Len(s) + 1)
      BY <2>2, <1>1
    <3>2. u[Len(s) + 2 - i] = s[Len(s) + 1 - i]
      BY <3>1, <1>1
    <3> QED
      BY <3>1, <3>2, <1>2, <1>3
  <2> QED
    BY <2>1, <2>2
<1>5. Oldest(u) = a
  BY <1>2, <1>3, <1>4, SeqEqual
<1> QED
  BY <1>5 DEF u, a

LEMMA OldestPopped ==
  ASSUME NEW s \in Seq(Command), s # <<>>
  PROVE  /\ Oldest(s) # <<>>
         /\ Head(Oldest(s)) = s[Len(s)]
         /\ Oldest(SubSeq(s, 1, Len(s) - 1)) = Tail(Oldest(s))
<1> DEFINE u == SubSeq(s, 1, Len(s) - 1)
           r == Tail(Oldest(s))
<1>1. /\ u \in Seq(Command) /\ Len(s) \in Nat /\ Len(s) >= 1 /\ Len(u) = Len(s) - 1
      /\ \A i \in 1..(Len(s) - 1) : u[i] = s[i]
  BY Popping
<1> HIDE DEF u
<1>2. Oldest(s) # <<>> /\ Head(Oldest(s)) = s[Len(s)]
  <2>1. Oldest(s) \in Seq(Command) /\ Len(Oldest(s)) >= 1 /\ Oldest(s)[1] = s[Len(s)]
    BY <1>1, OldestIsSeq
  <2> QED
    BY <2>1, EmptySeq
<1>3. /\ Oldest(u) \in Seq(Command) /\ Len(Oldest(u)) = Len(s) - 1
      /\ \A i \in 1..(Len(s) - 1) : Oldest(u)[i] = u[Len(s) - i]
  BY <1>1, OldestIsSeq
<1>4. /\ r \in Seq(Command) /\ Len(r) = Len(s) - 1
      /\ \A i \in 1..(Len(s) - 1) : r[i] = Oldest(s)[i + 1]
  BY <1>2, OldestIsSeq, HeadTailProperties
<1> HIDE DEF r
<1>5. ASSUME NEW i \in 1..(Len(s) - 1) PROVE Oldest(u)[i] = r[i]
  <2>1. i + 1 \in 1..Len(s) /\ Len(s) - i \in 1..(Len(s) - 1)
    BY <1>1
  <2>2. Oldest(s)[i + 1] = s[Len(s) - i]
    BY <2>1, <1>1, OldestIsSeq
  <2> QED
    BY <2>1, <2>2, <1>1, <1>3, <1>4
<1>6. Oldest(u) = r
  BY <1>3, <1>4, <1>5, SeqEqual
<1> QED
  BY <1>2, <1>6 DEF u, r

(* The abstract state as the INSTANCE Fifo substitutes it.                 *)
Accepted == [p \in Producers |-> IF pc[p] \in {"lock", "check", "wait"}
                                 THEN calls[p] - 1 ELSE calls[p]]
Active == {data[c] : c \in {d \in Consumers : pc[d] = "exec"}}

(* Every step of the threads is a step of the abstract queue or changes    *)
(* nothing that its users see.                                             *)
LEMMA StepSimulation ==
  ASSUME CoreInv, [Next]_vars
  PROVE  [Fifo!Next]_(Fifo!fifoVars)
<1>a. list \in Seq(Command) /\ Len(list) \in Nat /\ MaxSize \in Nat
  BY QueueAssumption, LenProperties DEF CoreInv, TypeOK
<1>b. pc \in [Threads -> {"idle", "lock", "check", "wait", "exec", "signal"}]
      /\ calls \in [Producers -> Nat] /\ data \in [Consumers -> Command \cup {NULL}]
      /\ \A p \in Producers : calls[p] <= Quota /\ (Entering(p) => calls[p] >= 1)
  BY QueueAssumption DEF CoreInv, TypeOK, Bookkeeping
<1>c. Producers \cap Consumers = {} /\ Producers \subseteq Threads
      /\ Consumers \subseteq Threads
  BY QueueAssumption DEF Threads
<1>e. ASSUME Accepted' = Accepted, list' = list, Active' = Active
      PROVE  UNCHANGED Fifo!fifoVars
  BY <1>e DEF Fifo!fifoVars, Accepted, Active
<1>1. ASSUME NEW t \in Threads, Lock(t) PROVE UNCHANGED Fifo!fifoVars
  BY <1>1, <1>b, <1>c, <1>e DEF Lock, Accepted, Active
<1>2. ASSUME NEW t \in Threads, SpuriousWakeup(t) PROVE UNCHANGED Fifo!fifoVars
  BY <1>2, <1>b, <1>c, <1>e DEF SpuriousWakeup, Accepted, Active
<1>3. ASSUME NEW p \in Producers, AddCall(p) PROVE UNCHANGED Fifo!fifoVars
  <2>1. \A q \in Producers : Accepted'[q] = Accepted[q]
    BY <1>3, <1>b, <1>c DEF AddCall, Accepted
  <2>2. Active' = Active /\ list' = list
    BY <1>3, <1>b, <1>c DEF AddCall, Active
  <2> QED
    BY <2>1, <2>2, <1>e DEF Accepted
<1>4. ASSUME NEW p \in Producers, AddWait(p) PROVE UNCHANGED Fifo!fifoVars
  BY <1>4, <1>b, <1>c, <1>e DEF AddWait, Wait, Accepted, Active
<1>5. ASSUME NEW p \in Producers, AddPut(p) PROVE Fifo!Accept(p)
  <2>1. /\ Accepted[p] = calls[p] - 1 /\ Accepted[p] < Quota
        /\ Cmd(p) = <<p, Accepted[p] + 1>> /\ Cmd(p) \in Command
    BY <1>5, <1>b, <1>c, QueueAssumption DEF AddPut, Accepted, Cmd, Command, Entering
  <2>2. Len(Oldest(list)) < MaxSize
    BY <1>5, <1>a, OldestIsSeq DEF AddPut
  <2>3. Accepted' = [Accepted EXCEPT ![p] = @ + 1]
    <3>1. /\ pc' = [pc EXCEPT ![p] = "signal"] /\ pc[p] = "check" /\ calls' = calls
      BY <1>5 DEF AddPut
    <3>2. Accepted'[p] = Accepted[p] + 1
      BY <3>1, <2>1, <1>b, <1>c DEF Accepted
    <3>3. \A q \in Producers : q # p => Accepted'[q] = Accepted[q]
      BY <3>1, <1>b, <1>c DEF Accepted
    <3> QED
      BY <3>2, <3>3 DEF Accepted
  <2>4. Oldest(list)' = Append(Oldest(list), <<p, Accepted[p] + 1>>)
    BY <1>5, <1>a, <2>1, OldestPrepended DEF AddPut, Oldest
  <2>5. Active' = Active
    BY <1>5, <1>b, <1>c DEF AddPut, Active
  <2> QED
    BY <2>1, <2>2, <2>3, <2>4, <2>5 DEF Fifo!Accept, Accepted, Active, Oldest
<1>6. ASSUME NEW p \in Producers, AddSignal(p) PROVE UNCHANGED Fifo!fifoVars
  BY <1>6, <1>b, <1>c, <1>e DEF AddSignal, Signal, Waiting, Accepted, Active
<1>7. ASSUME NEW c \in Consumers, ConsumeStart(c) PROVE UNCHANGED Fifo!fifoVars
  BY <1>7, <1>b, <1>c, <1>e DEF ConsumeStart, Accepted, Active
<1>8. ASSUME NEW c \in Consumers, ConsumeWait(c) PROVE UNCHANGED Fifo!fifoVars
  BY <1>8, <1>b, <1>c, <1>e DEF ConsumeWait, Wait, Accepted, Active
<1>9. ASSUME NEW c \in Consumers, ConsumePop(c) PROVE Fifo!Begin
  <2>1. Active = {}
    BY <1>9, <1>b, <1>c DEF ConsumePop, Active, CoreInv, SerialExecution
  <2>2. /\ Oldest(list) # <<>> /\ Head(Oldest(list)) = list[Len(list)]
        /\ Oldest(list)' = Tail(Oldest(list))
    BY <1>9, <1>a, OldestPopped DEF ConsumePop, Oldest
  <2>3. Active' = {list[Len(list)]}
    BY <1>9, <1>b, <1>c DEF ConsumePop, Active, CoreInv, SerialExecution
  <2>4. Accepted' = Accepted
    BY <1>9, <1>b, <1>c DEF ConsumePop, Accepted
  <2> QED
    BY <2>1, <2>2, <2>3, <2>4 DEF Fifo!Begin, Accepted, Active, Oldest
<1>10. ASSUME NEW c \in Consumers, ConsumeDone(c) PROVE Fifo!End
  <2>1. Active # {}
    BY <1>10, <1>b, <1>c DEF ConsumeDone, Active
  <2>2. Active' = {}
    BY <1>10, <1>b, <1>c DEF ConsumeDone, Active, CoreInv, SerialExecution
  <2>3. Accepted' = Accepted /\ Oldest(list)' = Oldest(list)
    BY <1>10, <1>b, <1>c DEF ConsumeDone, Accepted, Oldest
  <2> QED
    BY <2>1, <2>2, <2>3 DEF Fifo!End, Accepted, Active, Oldest
<1>11. ASSUME NEW c \in Consumers, ConsumeSignal(c) PROVE UNCHANGED Fifo!fifoVars
  BY <1>11, <1>b, <1>c, <1>e DEF ConsumeSignal, Signal, Waiting, Accepted, Active
<1>12. CASE UNCHANGED vars
  BY <1>12, <1>e DEF vars, Accepted, Active
<1> QED
  BY <1>1, <1>2, <1>3, <1>4, <1>5, <1>6, <1>7, <1>8, <1>9, <1>10, <1>11, <1>12
  DEF Next, Producer, Consumer, Fifo!Next

(* The mutex and the two condition variables implement the abstract queue. *)
THEOREM QueueRefinesFifo == Spec => QueueIsFifo
<1>1. Init => Fifo!Init
  BY DEF Init, Fifo!Init, Threads
<1>2. CoreInv /\ [Next]_vars => [Fifo!Next]_(Fifo!fifoVars)
  BY StepSimulation
<1> QED
  BY <1>1, <1>2, CoreInvariant, PTL DEF Spec, QueueIsFifo, Fifo!Spec
=============================================================================
