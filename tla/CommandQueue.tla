---------------------------- MODULE CommandQueue -----------------------------
(***************************************************************************)
(* The command queue of src/src/transport.c: a list guarded by one mutex   *)
(* and two condition variables.  The transport threads are its producers   *)
(* (bitu_queue_add), the threads that run bitu_queue_consume are its       *)
(* consumers.  A step below is what a thread does between two points where *)
(* another thread can see the difference: it takes the mutex, waits,       *)
(* changes the list and gives the mutex back, signals.                     *)
(***************************************************************************)
EXTENDS Naturals, Sequences, FiniteSets

CONSTANTS Producers,  \* transport threads
          Consumers,  \* threads in bitu_queue_consume; the program starts one
          MaxSize,    \* COMMAND_QUEUE_SIZE
          Quota,      \* calls of bitu_queue_add per producer (bounds the model)
          NULL

Threads == Producers \cup Consumers

(* The n-th command a producer queues. *)
Command == Producers \X (1..Quota)

ASSUME QueueAssumption ==
         /\ IsFiniteSet(Producers)
         /\ IsFiniteSet(Consumers)
         /\ Producers \cap Consumers = {}
         /\ MaxSize \in Nat \ {0}
         /\ Quota \in Nat
         /\ NULL \notin Threads
         /\ NULL \notin Command

VARIABLES list,     \* queue->list: the newest command first
          mutex,    \* the thread that holds queue->mutex, or NULL
          running,  \* queue->running
          pc,       \* where each thread is
          calls,    \* how often each producer called bitu_queue_add
          data      \* the command a consumer popped and executes, or NULL

vars == <<list, mutex, running, pc, calls, data>>

-----------------------------------------------------------------------------
(* The command p passes in its current call. *)
Cmd(p) == <<p, calls[p]>>

(* The threads blocked on a condition variable: only producers wait on     *)
(* not_full, only consumers on not_empty.                                  *)
Waiting(S) == {t \in S : pc[t] = "wait"}

(* Threads that will look at the list again without being signalled: at or *)
(* past pthread_mutex_lock, or on their way out of pthread_cond_wait.      *)
Awake(S) == {t \in S : pc[t] \in {"lock", "check"}}

(* Threads that have changed the list and still owe a signal for it. *)
Signalling(S) == {t \in S : pc[t] \in {"exec", "signal"}}

Init == /\ list = <<>>
        /\ mutex = NULL
        /\ running = FALSE
        /\ pc = [t \in Threads |-> "idle"]
        /\ calls = [p \in Producers |-> 0]
        /\ data = [c \in Consumers |-> NULL]

(* pthread_mutex_lock returns, or pthread_cond_wait reacquires the mutex:  *)
(* either way the thread evaluates its loop condition next.                *)
Lock(t) == /\ pc[t] = "lock"
           /\ mutex = NULL
           /\ mutex' = t
           /\ pc' = [pc EXCEPT ![t] = "check"]
           /\ UNCHANGED <<list, running, calls, data>>

(* pthread_cond_wait: release the mutex and block, in one step. *)
Wait(t) == /\ mutex' = NULL
           /\ pc' = [pc EXCEPT ![t] = "wait"]
           /\ UNCHANGED <<list, running, calls, data>>

(* pthread_cond_wait may return without a signal. *)
SpuriousWakeup(t) == /\ pc[t] = "wait"
                     /\ pc' = [pc EXCEPT ![t] = "lock"]
                     /\ UNCHANGED <<list, mutex, running, calls, data>>

(* pthread_cond_signal by t, which goes on to next: wake one of the        *)
(* waiters if there is any.                                                *)
Signal(t, waiters, next) ==
  \/ /\ waiters = {}
     /\ pc' = [pc EXCEPT ![t] = next]
  \/ \E w \in waiters : pc' = [pc EXCEPT ![t] = next, ![w] = "lock"]

-----------------------------------------------------------------------------
(* Plausible bugs: each operator is a wrong version of the action its name *)
(* begins with.  No specification uses them; replacing the action by one   *)
(* of them is how the properties below are tested.                         *)

(* The waiting loop tests for > instead of >=. *)
AddPutWhenFull(p) == /\ pc[p] = "check"
                     /\ Len(list) <= MaxSize
                     /\ list' = <<Cmd(p)>> \o list
                     /\ mutex' = NULL
                     /\ pc' = [pc EXCEPT ![p] = "signal"]
                     /\ UNCHANGED <<running, calls, data>>

(* A signal only for a list that was empty. *)
AddSignalIfWasEmpty(p) ==
  /\ pc[p] = "signal"
  /\ IF Len(list) = 1
       THEN Signal(p, Waiting(Consumers), "idle")
       ELSE pc' = [pc EXCEPT ![p] = "idle"]
  /\ UNCHANGED <<list, mutex, running, calls, data>>

(* No signal on not_empty. *)
AddSignalForgotten(p) == /\ pc[p] = "signal"
                         /\ pc' = [pc EXCEPT ![p] = "idle"]
                         /\ UNCHANGED <<list, mutex, running, calls, data>>

(* Popping the end that was prepended to. *)
ConsumePopNewest(c) == /\ pc[c] = "check"
                       /\ list # <<>>
                       /\ data' = [data EXCEPT ![c] = Head(list)]
                       /\ list' = Tail(list)
                       /\ pc' = [pc EXCEPT ![c] = "exec"]
                       /\ UNCHANGED <<mutex, running, calls>>

(* Unlocking the mutex before the callback. *)
ConsumePopUnlocked(c) == /\ pc[c] = "check"
                         /\ list # <<>>
                         /\ data' = [data EXCEPT ![c] = list[Len(list)]]
                         /\ list' = SubSeq(list, 1, Len(list) - 1)
                         /\ mutex' = NULL
                         /\ pc' = [pc EXCEPT ![c] = "exec"]
                         /\ UNCHANGED <<running, calls>>

(* Reading the last element without taking it out of the list. *)
ConsumePopPeek(c) == /\ pc[c] = "check"
                     /\ list # <<>>
                     /\ data' = [data EXCEPT ![c] = list[Len(list)]]
                     /\ pc' = [pc EXCEPT ![c] = "exec"]
                     /\ UNCHANGED <<list, mutex, running, calls>>

(* A signal only for a list that was full. *)
ConsumeSignalIfWasFull(c) ==
  /\ pc[c] = "signal"
  /\ IF Len(list) = MaxSize - 1
       THEN Signal(c, Waiting(Producers), "lock")
       ELSE pc' = [pc EXCEPT ![c] = "lock"]
  /\ UNCHANGED <<list, mutex, running, calls, data>>

(* No signal on not_full. *)
ConsumeSignalForgotten(c) == /\ pc[c] = "signal"
                             /\ pc' = [pc EXCEPT ![c] = "lock"]
                             /\ UNCHANGED <<list, mutex, running, calls, data>>

-----------------------------------------------------------------------------
(* bitu_queue_add *)

(* A transport thread queues its next command. *)
AddCall(p) == /\ pc[p] = "idle"
              /\ calls[p] < Quota
              /\ calls' = [calls EXCEPT ![p] = @ + 1]
              /\ pc' = [pc EXCEPT ![p] = "lock"]
              /\ UNCHANGED <<list, mutex, running, data>>

(* The queue is full. *)
AddWait(p) == /\ pc[p] = "check"
              /\ Len(list) >= MaxSize
              /\ Wait(p)

(* ta_list_prepend and pthread_mutex_unlock. *)
AddPut(p) == /\ pc[p] = "check"
             /\ Len(list) < MaxSize
             /\ list' = <<Cmd(p)>> \o list
             /\ mutex' = NULL
             /\ pc' = [pc EXCEPT ![p] = "signal"]
             /\ UNCHANGED <<running, calls, data>>

(* The signal on not_empty comes after the unlock. *)
AddSignal(p) == /\ pc[p] = "signal"
                /\ Signal(p, Waiting(Consumers), "idle")
                /\ UNCHANGED <<list, mutex, running, calls, data>>

-----------------------------------------------------------------------------
(* bitu_queue_consume *)

ConsumeStart(c) == /\ pc[c] = "idle"
                   /\ running' = TRUE
                   /\ pc' = [pc EXCEPT ![c] = "lock"]
                   /\ UNCHANGED <<list, mutex, calls, data>>

(* The queue is empty. *)
ConsumeWait(c) == /\ pc[c] = "check"
                  /\ list = <<>>
                  /\ Wait(c)

(* _bitu_queue_pop takes the last element, the oldest; the callback starts *)
(* with the mutex still held.                                              *)
ConsumePop(c) == /\ pc[c] = "check"
                 /\ list # <<>>
                 /\ data' = [data EXCEPT ![c] = list[Len(list)]]
                 /\ list' = SubSeq(list, 1, Len(list) - 1)
                 /\ pc' = [pc EXCEPT ![c] = "exec"]
                 /\ UNCHANGED <<mutex, running, calls>>

(* The callback returns and the consumer unlocks the mutex. *)
ConsumeDone(c) == /\ pc[c] = "exec"
                  /\ data' = [data EXCEPT ![c] = NULL]
                  /\ mutex' = NULL
                  /\ pc' = [pc EXCEPT ![c] = "signal"]
                  /\ UNCHANGED <<list, running, calls>>

(* The signal on not_full, then the loop condition. *)
ConsumeSignal(c) ==
  /\ pc[c] = "signal"
  /\ Signal(c, Waiting(Producers), IF running THEN "lock" ELSE "idle")
  /\ UNCHANGED <<list, mutex, running, calls, data>>

-----------------------------------------------------------------------------
Producer(p) == AddCall(p) \/ AddWait(p) \/ AddPut(p) \/ AddSignal(p)

Consumer(c) == \/ ConsumeStart(c) \/ ConsumeWait(c) \/ ConsumePop(c)
               \/ ConsumeDone(c) \/ ConsumeSignal(c)

Next == \/ \E t \in Threads : Lock(t) \/ SpuriousWakeup(t)
        \/ \E p \in Producers : Producer(p)
        \/ \E c \in Consumers : Consumer(c)

Spec == Init /\ [][Next]_vars

(* A thread that can run does run, the callback returns, and a thread that *)
(* asks for the mutex again and again is granted it in the end.  Transports*)
(* need not queue anything: AddCall carries no fairness.                   *)
Fairness == /\ \A t \in Threads : SF_vars(Lock(t))
            /\ \A p \in Producers : WF_vars(AddWait(p) \/ AddPut(p) \/ AddSignal(p))
            /\ \A c \in Consumers : WF_vars(Consumer(c))

FairSpec == Spec /\ Fairness

-----------------------------------------------------------------------------
(* Type invariant: every variable keeps its type and the list never holds  *)
(* more than COMMAND_QUEUE_SIZE commands (transport.c:563).                *)
TypeOK ==
  /\ list \in Seq(Command)
  /\ Len(list) <= MaxSize
  /\ mutex \in Threads \cup {NULL}
  /\ running \in BOOLEAN
  /\ pc \in [Threads -> {"idle", "lock", "check", "wait", "exec", "signal"}]
  /\ calls \in [Producers -> 0..Quota]
  /\ data \in [Consumers -> Command \cup {NULL}]

(* Whoever looks at the list or runs a callback holds the mutex, so at     *)
(* most one command executes at a time, whatever the number of consumers   *)
(* (transport.c:605-615).                                                  *)
SerialExecution ==
  \A t \in Threads : (pc[t] \in {"check", "exec"}) <=> (mutex = t)

(* No lost wake-up on not_full.  The signal is sent after the unlock and   *)
(* may be taken by a producer that came later, so a blocked producer is    *)
(* safe only if the free slots never outnumber the threads that will still *)
(* look at the list or signal (transport.c:563-564, 615-616).              *)
ProducersNotForgotten ==
  Waiting(Producers) # {} =>
    MaxSize <= Len(list) + Cardinality(Awake(Producers))
                         + Cardinality(Signalling(Consumers))

(* No lost wake-up on not_empty: while a consumer is blocked, there are at *)
(* least as many threads about to look at the list or to signal as there   *)
(* are commands in it (transport.c:571-572, 608-609).                      *)
ConsumersNotForgotten ==
  Waiting(Consumers) # {} =>
    Len(list) <= Cardinality(Awake(Consumers))
                 + Cardinality(Signalling(Producers))

(* The commands of one transport run in the order it queued them: its      *)
(* commands in the list get older towards the end that is popped, and one  *)
(* that executes is older than all of them (transport.c:567, 581).         *)
SenderOrder ==
  /\ \A i, j \in 1..Len(list) :
       i < j /\ list[i][1] = list[j][1] => list[i][2] > list[j][2]
  /\ \A c \in Consumers, i \in 1..Len(list) :
       data[c] # NULL /\ data[c][1] = list[i][1] => data[c][2] < list[i][2]

(* A command in the list is executed in the end (transport.c:605-617).     *)
CommandsExecuted ==
  \A cmd \in Command :
    (\E i \in 1..Len(list) : list[i] = cmd) ~> (\E c \in Consumers : data[c] = cmd)

(* A transport blocked in bitu_queue_add comes back once the others stop   *)
(* queueing, as they do here after Quota calls each: while they go on they *)
(* may take every slot it is woken up for (transport.c:563-564).           *)
AddReturns == \A p \in Producers : pc[p] = "lock" ~> pc[p] = "idle"

-----------------------------------------------------------------------------
(* The queue as its users see it: a command is accepted when it enters the *)
(* list.                                                                   *)
Fifo == INSTANCE CommandFifo WITH
          Capacity <- MaxSize,
          accepted <- [p \in Producers |-> IF pc[p] \in {"lock", "check", "wait"}
                                             THEN calls[p] - 1
                                             ELSE calls[p]],
          pending <- [i \in 1..Len(list) |-> list[Len(list) + 1 - i]],
          active <- {data[c] : c \in {d \in Consumers : pc[d] = "exec"}}

(* Every behaviour of the locked list is one of the abstract queue: no     *)
(* command is lost, repeated, reordered or run beside another one          *)
(* (transport.c:555-618).                                                  *)
QueueIsFifo == Fifo!Spec
=============================================================================
