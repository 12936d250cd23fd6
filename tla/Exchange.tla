------------------------------ MODULE Exchange ------------------------------
(***************************************************************************)
(* What somebody who types at bituctl may expect: a request is executed as *)
(* the command it means and its answer is shown, before the next request   *)
(* is made.  Only requests that are not proper may get lost or mean        *)
(* something else, and nothing is promised any more once sending an answer *)
(* was cut short.                                                          *)
(***************************************************************************)
EXTENDS SequencesExt

CONSTANTS Requests,     \* what users ask for
          Answers,      \* what commands answer
          Proper(_),    \* the requests that are said in the right way
          Means(_, _),  \* whether a request means a command
          Shows(_, _),  \* whether a text is the way to show an answer
          NULL

VARIABLES phase,    \* "idle", "asked", "answered", "gone"
          request,  \* the last request
          command,  \* what was executed for it, or NULL
          answer,   \* what that answered
          shown,    \* what the user sees of it
          cut       \* whether an answer was cut short

vars == <<phase, request, command, answer, shown, cut>>

Init == /\ phase = "idle" /\ request = NULL /\ command = NULL /\ answer = NULL
        /\ shown = <<>> /\ cut = FALSE

Ask == /\ phase = "idle" /\ phase' = "asked"
       /\ request' \in Requests
       /\ UNCHANGED <<command, answer, shown>>

Execute == /\ phase = "asked" /\ phase' = "answered"
           /\ Proper(request) => Means(request, command')
           /\ answer' \in Answers
           /\ UNCHANGED <<request, shown>>

Reveal == /\ phase = "answered" /\ IsStrictPrefix(shown, shown')
         /\ UNCHANGED <<phase, request, command, answer>>

Forget == request' = NULL /\ command' = NULL /\ answer' = NULL /\ shown' = <<>>

Done == /\ phase = "answered" /\ phase' = "idle"
        /\ Shows(answer, shown)
        /\ Forget

Ignore == /\ phase = "asked" /\ ~Proper(request) /\ phase' = "idle"
          /\ Forget

Leave == /\ phase = "idle" /\ phase' = "gone"
         /\ UNCHANGED <<request, command, answer, shown>>

Next == \/ /\ Ask \/ Execute \/ Reveal \/ Done \/ Ignore \/ Leave
           /\ UNCHANGED cut
        \/ cut'

Spec == Init /\ [][Next]_vars
=============================================================================
