----------------------------- MODULE CommandFifo -----------------------------
(***************************************************************************)
(* What the command queue of transport.c promises to the rest of bitU,     *)
(* without mutexes, condition variables or threads of its own: every       *)
(* command handed to bitu_queue_add is taken exactly once, the commands    *)
(* are executed one at a time and in the order they were accepted, and no  *)
(* more than Capacity of them are ever waiting.                            *)
(***************************************************************************)
EXTENDS Naturals, Sequences

CONSTANTS Producers,  \* the threads that queue commands
          Capacity,   \* how many commands may be waiting
          Quota       \* how many commands one producer submits (bounds the model)

(* The n-th command of producer p. *)
Command == Producers \X (1..Quota)

VARIABLES accepted,  \* accepted[p]: commands of p accepted so far
          pending,   \* accepted and not yet begun, oldest first
          active     \* the command being executed, as a set of at most one

fifoVars == <<accepted, pending, active>>

Init == /\ accepted = [p \in Producers |-> 0]
        /\ pending = <<>>
        /\ active = {}

(* The next command of p joins the queue, if there is room for it. *)
Accept(p) == /\ accepted[p] < Quota
             /\ Len(pending) < Capacity
             /\ accepted' = [accepted EXCEPT ![p] = @ + 1]
             /\ pending' = Append(pending, <<p, accepted[p] + 1>>)
             /\ UNCHANGED active

(* The oldest waiting command starts to execute; nothing else executes. *)
Begin == /\ active = {}
         /\ pending # <<>>
         /\ active' = {Head(pending)}
         /\ pending' = Tail(pending)
         /\ UNCHANGED accepted

(* The command that executes ends. *)
End == /\ active # {}
       /\ active' = {}
       /\ UNCHANGED <<accepted, pending>>

Next == (\E p \in Producers : Accept(p)) \/ Begin \/ End

Spec == Init /\ [][Next]_fifoVars

(* A queue that always gets round to the next command. *)
FairSpec == Spec /\ WF_fifoVars(Begin) /\ WF_fifoVars(End)
=============================================================================
