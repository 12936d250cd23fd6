------------------------------- MODULE Dialogue -------------------------------
(***************************************************************************)
(* One bituctl and the server, character by character: the lines bituctl   *)
(* sends (shell.c), the reads of at most BufSize characters and the test   *)
(* for a good bye (server.c), the command made of a line (CommandLine),    *)
(* the answer and the loops that send and print it.  Several clients, and  *)
(* what happens when one of them does not wait, are in LocalServer.        *)
(*                                                                         *)
(* What is sent in one call arrives as a whole: the socket is local and    *)
(* the texts are short.  A call may still be cut short, when a signal      *)
(* stops the process in the middle of it; the model lets this happen once. *)
(***************************************************************************)
EXTENDS CommandLine

CONSTANTS ArgLists,   \* arguments given to bituctl, the command first
          TypedLines, \* lines typed at its prompt
          FewLines,   \* those typed once a send was cut short: a bound
          Answers,    \* the lengths of answers; NULL for no answer
          CutShort    \* TRUE if a send may be cut short

ASSUME DialogueAssumption == /\ ArgLists \subseteq Seq(Seq(Chars))
                             /\ \A args \in ArgLists : args # <<>> /\ args[1] # <<>>
                             /\ TypedLines \subseteq Seq(Chars) \ {<<>>}
                             /\ FewLines \subseteq TypedLines
                             /\ Answers \subseteq Nat \cup {NULL}
                             /\ CutShort \in BOOLEAN

(* A request is the arguments, or a line as the only one of its texts. *)
Requests == [by : {"args"}, texts : ArgLists]
            \cup [by : {"line"}, texts : {<<line>> : line \in TypedLines}]

VARIABLES
  \* bituctl
  cpc,      \* "start", "prompt", "recv" (select blocks), "poll", "done"
  oneshot,  \* whether the command was given as arguments
  request,  \* what the user asked for, or NULL
  command,  \* the command executed for it, or NULL
  answer,   \* the length of its answer
  shown,    \* what was printed of it
  \* the server: its thread and the consumer
  spc,      \* "recv" (select blocks), "drain", "hungup"
  str,      \* what has been read of a line
  queue,    \* commands, the oldest first
  kpc,      \* "pop", "send"
  message,  \* what it sends
  sent,     \* how much of it bitu_server_send believes is sent
  crashed,  \* whether the server has used a NULL pointer or freed one twice
  \* the connection
  toServer, toShell,
  cut       \* whether a send was cut short

shell == <<cpc, oneshot, request, command, answer, shown>>
reader == <<spc, str>>
consumer == <<kpc, message, sent>>
vars == <<shell, reader, queue, consumer, crashed, toServer, toShell, cut>>

Init == /\ cpc = "start" /\ oneshot = FALSE /\ request = NULL
        /\ command = NULL /\ answer = NULL /\ shown = <<>>
        /\ spc = "recv" /\ str = <<>> /\ queue = <<>>
        /\ kpc = "pop" /\ message = <<>> /\ sent = 0
        /\ crashed = FALSE /\ toServer = <<>> /\ toShell = <<>> /\ cut = FALSE

(* The connection is closed at the server's end. *)
HungUp == spc = "hungup" \/ crashed

Upto(n, text) == IF Len(text) <= n THEN text ELSE SubSeq(text, 1, n)
After(n, text) == SubSeq(text, n + 1, Len(text))

Good_Bye == <<"e", "x", "i", "t">>

(* Answers consist of the numbers of their characters, so that none is     *)
(* like another; 0 ends a string.                                          *)
Message(n) == IF n = NULL THEN <<0>> ELSE [i \in 1..n |-> i]

(* More of the message is to be sent, and the client is there. *)
CanSend == sent < Len(message) /\ spc # "hungup" /\ cpc # "done"

(* bituctl's prompt comes back, and its request is done with. *)
BackToPrompt == /\ cpc' = "prompt"
                /\ request' = NULL /\ command' = NULL /\ answer' = NULL /\ shown' = <<>>

-----------------------------------------------------------------------------
(* Plausible bugs. *)

ReceiveOnce ==   \* no further read when the buffer was filled
  /\ cpc = "recv" /\ toShell # <<>>
  /\ BackToPrompt
  /\ toShell' = After(BufSize, toShell)
  /\ UNCHANGED <<oneshot, reader, queue, consumer, crashed, toServer, cut>>

EndOfTextKeeping ==   \* the text is kept for the next round
  /\ spc = "drain" /\ toServer = <<>> /\ ~crashed
  /\ queue' = Append(queue, CommandNew(str))
  /\ spc' = "recv"
  /\ UNCHANGED <<shell, str, consumer, crashed, toServer, toShell, cut>>

SendNoTerminator ==   \* nothing is sent for a command without an answer
  /\ kpc = "send" /\ CanSend /\ ~crashed
  /\ toShell' = toShell \o SelectSeq(message, LAMBDA c : c # 0)
  /\ sent' = Len(message)
  /\ UNCHANGED <<shell, reader, queue, kpc, message, crashed, toServer, cut>>

-----------------------------------------------------------------------------
(* bituctl *)

Ask(by, texts, line) ==
  /\ request' = [by |-> by, texts |-> texts]
  /\ toServer' = toServer \o line
  /\ cpc' = "recv"
  /\ UNCHANGED <<command, answer, shown, reader, queue, consumer, crashed,
                 toShell, cut>>

(* Arguments make one line, and bituctl leaves after the answer. *)
GiveArguments == /\ cpc = "start" /\ oneshot' = TRUE
                 /\ \E args \in ArgLists : Ask("args", args, LineOf(args))

StartShell == /\ cpc = "start" /\ cpc' = "prompt"
              /\ UNCHANGED <<oneshot, request, command, answer, shown, reader, queue, consumer, crashed,
                             toServer, toShell, cut>>

(* A line of the interactive shell is sent as it is typed. *)
Type == /\ cpc = "prompt" /\ ~oneshot /\ ~HungUp
        /\ \E line \in (IF cut THEN FewLines ELSE TypedLines) \ {Good_Bye} :
             Ask("line", <<line>>, line)
        /\ UNCHANGED oneshot

(* "exit", or the end of the input. *)
Exit == /\ cpc = "prompt" /\ ~oneshot
        /\ toServer' = toServer \o Good_Bye
        /\ cpc' = "done"
        /\ UNCHANGED <<oneshot, request, command, answer, shown, reader, queue, consumer, crashed, toShell, cut>>

(* The answer was printed, or the connection is closed and writing to it   *)
(* ends the program.                                                       *)
Leave == /\ cpc = "prompt" /\ (oneshot \/ HungUp)
         /\ cpc' = "done"
         /\ UNCHANGED <<oneshot, request, command, answer, shown, reader, queue, consumer, crashed,
                        toServer, toShell, cut>>

(* One round of bitu_shell_recv.  A single character means the end; what   *)
(* is printed ends at the first 0; from the second round on nothing more   *)
(* to read means the end, too.                                             *)
Receive ==
  /\ cpc \in {"recv", "poll"} /\ toShell # <<>>
  /\ LET chunk == Upto(BufSize, toShell)
         end == {i \in DOMAIN chunk : chunk[i] = 0}
     IN IF Len(chunk) = 1
          THEN BackToPrompt
          ELSE /\ cpc' = "poll"
               /\ shown' = shown \o Upto(Min(end \cup {Len(chunk) + 1}) - 1, chunk)
               /\ UNCHANGED <<request, command, answer>>
  /\ toShell' = After(BufSize, toShell)
  /\ UNCHANGED <<oneshot, reader, queue, consumer, crashed, toServer, cut>>

ReceiveEnd == /\ cpc = "poll" \/ (cpc = "recv" /\ HungUp)
              /\ toShell = <<>>
              /\ BackToPrompt
              /\ UNCHANGED <<oneshot, reader, queue, consumer, crashed, toServer, toShell, cut>>

-----------------------------------------------------------------------------
(* The server thread *)

Recv == /\ spc \in {"recv", "drain"} /\ toServer # <<>> /\ ~crashed
        /\ str' = str \o Upto(BufSize, toServer)
        /\ toServer' = After(BufSize, toServer)
        /\ spc' = "drain"
        /\ UNCHANGED <<shell, queue, consumer, crashed, toShell, cut>>

(* Nothing more to read: the client says good bye, or its line is made a   *)
(* command and queued.                                                     *)
EndOfText ==
  /\ spc = "drain" \/ (spc = "recv" /\ cpc = "done")
  /\ toServer = <<>> /\ ~crashed
  /\ IF Len(str) < 2 \/ str = Good_Bye
       THEN spc' = "hungup" /\ UNCHANGED <<queue, crashed>>
       ELSE /\ spc' = "recv"
            /\ crashed' = ~Parsed(str)
            /\ queue' = IF Parsed(str) THEN Append(queue, CommandNew(str)) ELSE queue
  /\ str' = <<>>
  /\ UNCHANGED <<shell, consumer, toServer, toShell, cut>>

-----------------------------------------------------------------------------
(* The consumer thread *)

(* bitu_app_exec_command looks the name up: hash_string reads it, also     *)
(* when there is none.                                                     *)
Execute ==
  /\ kpc = "pop" /\ queue # <<>> /\ ~crashed
  /\ IF Head(queue).name = NULL
       THEN crashed' = TRUE /\ UNCHANGED <<command, answer, consumer>>
       ELSE /\ command' = <<Head(queue).name>> \o Head(queue).params
            /\ answer' \in Answers
            /\ kpc' = "send" /\ message' = Message(answer') /\ sent' = 0
            /\ UNCHANGED crashed
  /\ queue' = Tail(queue)
  /\ UNCHANGED <<cpc, oneshot, request, shown, reader, toServer, toShell, cut>>

(* One round of bitu_server_send, which sends the whole message each time. *)
Send ==
  /\ kpc = "send" /\ CanSend /\ ~crashed
  /\ \E n \in IF CutShort /\ ~cut THEN 1..Len(message) ELSE {Len(message)} :
       /\ toShell' = toShell \o Upto(n, message)
       /\ sent' = sent + n
       /\ cut' = (cut \/ n < Len(message))
  /\ UNCHANGED <<shell, reader, queue, kpc, message, crashed, toServer>>

SendEnd == /\ kpc = "send" /\ ~CanSend /\ ~crashed
           /\ kpc' = "pop" /\ message' = <<>> /\ sent' = 0
           /\ UNCHANGED <<shell, reader, queue, crashed, toServer, toShell, cut>>

-----------------------------------------------------------------------------
Shell == Receive \/ ReceiveEnd
User == GiveArguments \/ StartShell \/ Type \/ Exit \/ Leave
Next == User \/ Shell \/ Recv \/ EndOfText \/ Execute \/ Send \/ SendEnd

Spec == Init /\ [][Next]_vars

(* The three loops go on while they can; users need not type anything.     *)
FairSpec == /\ Spec /\ WF_vars(Shell)
            /\ WF_vars(Recv \/ EndOfText) /\ WF_vars(Execute \/ Send \/ SendEnd)

-----------------------------------------------------------------------------
(* Type invariant, with what bounds the server's work: one command is      *)
(* queued at most while both ends are in step, two once they are not.      *)
TypeOK == /\ cpc \in {"start", "prompt", "recv", "poll", "done"}
          /\ oneshot \in BOOLEAN /\ request \in Requests \cup {NULL}
          /\ spc \in {"recv", "drain", "hungup"} /\ kpc \in {"pop", "send"}
          /\ Len(queue) <= (IF cut THEN 2 ELSE 1) /\ sent \in 0..(2 * Len(message))
          /\ spc = "recv" => str = <<>>
          /\ {crashed, cut} \subseteq BOOLEAN

(* When bituctl shows its prompt or leaves, nothing of the last answer is  *)
(* left for it to take for the next one, and the server has nothing to do, *)
(* although neither end knows the length of what it reads (shell.c:93-128, *)
(* server.c:327-358).                                                      *)
NothingLeftOver == cpc = "prompt" /\ ~cut /\ ~crashed =>
                     toServer = <<>> /\ toShell = <<>> /\ str = <<>> /\ queue = <<>>

(* bituctl comes back from waiting, whatever was typed and even if a send  *)
(* is cut short, unless the answer is an empty text (shell.c:93-128,       *)
(* server.c:257-268, 327-371).                                             *)
PromptReturns == cpc = "recv" ~> cpc # "recv" \/ answer = 0

-----------------------------------------------------------------------------
(* Requests said in the right way and what they mean. *)
Proper(r) == IF r.by = "args" THEN Faithful(r.texts) /\ r.texts # <<Good_Bye>>
                              ELSE GoodStyle(r.texts[1])
Meaning(r) == IF r.by = "args" THEN r.texts ELSE Words(r.texts[1])
Means(r, c) == c = Meaning(r)

(* Of an answer that leaves a single character for the last read, that one *)
(* is not shown (shell.c:117).                                             *)
Shows(a, text) ==
  LET whole == IF a = NULL THEN <<>> ELSE [i \in 1..a |-> i]
  IN text = IF Len(whole) % BufSize = 1 THEN Front(whole) ELSE whole

AtExchange == INSTANCE Exchange WITH
                phase <- CASE cpc \in {"start", "prompt"} -> "idle"
                           [] cpc \in {"recv", "poll"} ->
                                IF command = NULL THEN "asked" ELSE "answered"
                           [] cpc = "done" -> "gone"

(* The parameters a command gets are the arguments of bituctl, or the      *)
(* words of the line with what is quoted kept together; its answer is what *)
(* is printed, before the next line is read.  Quoting on one side and      *)
(* parsing on the other, and four loops over buffers, add up to an         *)
(* Exchange (shell.c:37-128, 234-360, util.c:28-146, server.c:242-358).    *)
IsExchange == AtExchange!Spec
=============================================================================
