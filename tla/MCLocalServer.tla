---------------------------- MODULE MCLocalServer ----------------------------
(* Small instances of the local server.                                    *)
EXTENDS LocalServer

CONSTANTS c1, c2, c3

Circumstances(patient, long, users, quota, kinds) ==
  [patient : {patient}, long : {long}, users : {users}, quota : {quota}, kinds : {kinds}]

MCPatient == Circumstances(TRUE, FALSE, Clients, 1, {"command"})
MCInterrupted == Circumstances(FALSE, FALSE, Clients, 1, {"command"})

(* Three clients to fill the backlog, two messages of each for answers     *)
(* that are out of step.                                                   *)
MCAll == Circumstances(TRUE, FALSE, {c1, c2}, 2, {"command", "short"})
           \cup Circumstances(FALSE, FALSE, {c1, c2, c3}, 1, {"command"})
           \cup Circumstances(TRUE, TRUE, {c1, c2}, 2, {"command", "short"})
=============================================================================
