---------------------------- MODULE DialogueProofs ----------------------------
(***************************************************************************)
(* Proofs about the dialogue of one bituctl with the server, for any       *)
(* texts and answers and buffers of any size but 1.                        *)
(*                                                                         *)
(* Neither end knows where a message ends, so all depends on there being   *)
(* one thing at a time between the user's key and the prompt.  Load counts *)
(* what is on its way: a line that is sent or read, commands queued, an    *)
(* answer not yet sent, an answer not yet taken.  While bituctl waits      *)
(* there is one such thing at most, and at the prompt none; a send that is *)
(* cut short makes one more, and never a second one.                       *)
(*                                                                         *)
(* What is on its way is also what it should be.  The parser of lines is   *)
(* followed along the line: Reading says what it has found after a part of *)
(* it, first along the line that bituctl makes of arguments, then along a  *)
(* typed line in good style.  With both, and with the loops over buffers,  *)
(* the dialogue is an Exchange.                                            *)
(***************************************************************************)
EXTENDS Dialogue, Recursion, SequenceTheorems, FiniteSetTheorems, TLAPS

Transit == IF toServer # <<>> \/ spc = "drain" THEN 1 ELSE 0
Unsent == IF kpc = "send" /\ sent < Len(message) THEN 1 ELSE 0
Untaken == IF toShell # <<>> \/ cpc = "poll" THEN 1 ELSE 0
Load == Transit + Len(queue) + Unsent + Untaken

Waiting == IF cpc \in {"recv", "poll", "done"} THEN 1 ELSE 0
Extra == IF cut THEN 1 ELSE 0

Sequence(s) == \E S : s \in Seq(S)

Shapes == /\ cpc \in {"start", "prompt", "recv", "poll", "done"}
          /\ oneshot \in BOOLEAN /\ request \in Requests \cup {NULL}
          /\ spc \in {"recv", "drain", "hungup"} /\ kpc \in {"pop", "send"}
          /\ crashed \in BOOLEAN /\ cut \in BOOLEAN
          /\ Sequence(queue) /\ message \in Seq(Nat) /\ toShell \in Seq(Nat)
          /\ sent \in 0..(2 * Len(message))
          /\ spc # "drain" => str = <<>>

InTurn == Load <= Waiting + Extra

(* The server's end is closed: what bituctl waits for may never come. *)
Deserted == HungUp /\ cpc # "done" => Load <= Extra

Fresh == cpc = "start" => toServer = <<>> /\ spc = "recv" /\ queue = <<>> /\ ~crashed

DialogueInv == Shapes /\ InTurn /\ Deserted /\ Fresh

-----------------------------------------------------------------------------
(* Sequences *)

LEMMA SequenceOps ==
  ASSUME NEW q, Sequence(q)
  PROVE  /\ Len(q) \in Nat /\ (Len(q) = 0 <=> q = <<>>)
         /\ \A x : Sequence(Append(q, x)) /\ Len(Append(q, x)) = Len(q) + 1
         /\ q # <<>> => Sequence(Tail(q)) /\ Len(Tail(q)) = Len(q) - 1
<1>1. PICK S : q \in Seq(S)
  BY DEF Sequence
<1>2. Len(q) \in Nat /\ (Len(q) = 0 <=> q = <<>>)
  BY <1>1
<1>3. ASSUME NEW x PROVE Sequence(Append(q, x)) /\ Len(Append(q, x)) = Len(q) + 1
  <2> DEFINE R == S \cup {x}
  <2>1. q \in Seq(R) /\ x \in R
    BY <1>1
  <2> HIDE DEF R
  <2>2. Append(q, x) \in Seq(R) /\ Len(Append(q, x)) = Len(q) + 1
    BY <2>1
  <2> QED
    BY <2>2 DEF Sequence
<1>4. ASSUME q # <<>> PROVE Sequence(Tail(q)) /\ Len(Tail(q)) = Len(q) - 1
  <2>1. Tail(q) \in Seq(S) /\ Len(Tail(q)) = Len(q) - 1
    BY <1>1, <1>4
  <2> QED
    BY <2>1 DEF Sequence
<1> QED
  BY <1>2, <1>3, <1>4

LEMMA MessageType ==
  ASSUME NEW n \in Answers
  PROVE  Message(n) \in Seq(Nat)
<1>1. CASE n = NULL
  <2>1. <<0>> \in Seq(Nat)
    OBVIOUS
  <2> QED
    BY <1>1, <2>1 DEF Message
<1>2. CASE n # NULL
  <2>1. n \in Nat
    BY <1>2, DialogueAssumption
  <2>2. [i \in 1..n |-> i] \in Seq(Nat)
    BY <2>1
  <2> QED
    BY <1>2, <2>2 DEF Message
<1> QED
  BY <1>1, <1>2

(* The pieces a text is read in. *)
LEMMA Pieces ==
  ASSUME NEW s \in Seq(Nat), NEW n \in Nat \ {0}
  PROVE  /\ Upto(n, s) \in Seq(Nat) /\ After(n, s) \in Seq(Nat)
         /\ n > 1 /\ Len(Upto(n, s)) = 1 => After(n, s) = <<>>
         /\ s # <<>> => Upto(n, s) # <<>>
<1>1. Len(s) \in Nat /\ \A i \in 1..Len(s) : s[i] \in Nat
  OBVIOUS
<1>2. After(n, s) \in Seq(Nat) /\ (Len(s) < n + 1 => After(n, s) = <<>>)
  <2>1. \A i \in (n + 1)..Len(s) : i \in 1..Len(s)
    BY <1>1
  <2>2. \A i \in (n + 1)..Len(s) : s[i] \in Nat
    BY <1>1, <2>1
  <2>3. n + 1 \in Int /\ Len(s) \in Int
    BY <1>1
  <2>4. SubSeq(s, n + 1, Len(s)) \in Seq(Nat)
    BY <2>2, <2>3, SubSeqProperties
  <2>5. Len(s) < n + 1 => SubSeq(s, n + 1, Len(s)) = <<>>
    BY <2>3, SubSeqEmpty
  <2> QED
    BY <2>4, <2>5 DEF After
<1>3. CASE Len(s) <= n
  <2>1. Upto(n, s) = s
    BY <1>3 DEF Upto
  <2>2. After(n, s) = <<>>
    BY <1>1, <1>2, <1>3
  <2> QED
    BY <2>1, <2>2
<1>4. CASE ~(Len(s) <= n)
  <2>1. \A i \in 1..n : i \in 1..Len(s)
    BY <1>1, <1>4
  <2>2. \A i \in 1..n : s[i] \in Nat
    BY <1>1, <2>1
  <2>3. 1 \in Int /\ n \in Int /\ 1 <= n /\ n - 1 + 1 = n
    OBVIOUS
  <2>4. SubSeq(s, 1, n) \in Seq(Nat) /\ Len(SubSeq(s, 1, n)) = n
    BY <2>2, <2>3, SubSeqProperties
  <2>5. Upto(n, s) = SubSeq(s, 1, n)
    BY <1>4 DEF Upto
  <2>6. Upto(n, s) # <<>>
    <3>1. Len(Upto(n, s)) # 0
      BY <2>4, <2>5
    <3>2. Len(<<>>) = 0
      OBVIOUS
    <3> QED
      BY <3>1, <3>2, Zenon
  <2>7. n > 1 => Len(Upto(n, s)) # 1
    BY <2>4, <2>5
  <2> QED
    BY <1>2, <2>4, <2>5, <2>6, <2>7
<1> QED
  BY <1>3, <1>4

-----------------------------------------------------------------------------
(* The invariant *)

LEMMA InitInv == Init => DialogueInv
<1> SUFFICES ASSUME Init PROVE DialogueInv
  OBVIOUS
<1>1. <<>> \in Seq(Nat) /\ Len(<<>>) = 0
  OBVIOUS
<1>2. Shapes
  <2>1. Sequence(queue)
    BY <1>1 DEF Init, Sequence
  <2>2. message \in Seq(Nat) /\ toShell \in Seq(Nat) /\ sent \in 0..(2 * Len(message))
    BY <1>1 DEF Init
  <2> QED
    BY <2>1, <2>2 DEF Init, Shapes
<1>3. Load = 0
  BY <1>1 DEF Init, Load, Transit, Unsent, Untaken
<1>4. InTurn /\ Deserted /\ Fresh
  BY <1>3 DEF InTurn, Deserted, Fresh, Init, Waiting, Extra
<1> QED
  BY <1>2, <1>4 DEF DialogueInv

(* What Load is made of. *)
LEMMA LoadParts ==
  ASSUME Shapes
  PROVE  /\ Len(queue) \in Nat /\ Load \in Nat
         /\ Transit \in {0, 1} /\ Unsent \in {0, 1} /\ Untaken \in {0, 1}
         /\ Waiting \in {0, 1} /\ Extra \in {0, 1}
         /\ Load = Transit + Len(queue) + Unsent + Untaken
<1>1. Len(queue) \in Nat
  BY SequenceOps DEF Shapes
<1>3. /\ Transit \in {0, 1} /\ Unsent \in {0, 1} /\ Untaken \in {0, 1}
      /\ Waiting \in {0, 1} /\ Extra \in {0, 1}
  BY DEF Transit, Unsent, Untaken, Waiting, Extra
<1> QED
  BY <1>1, <1>3 DEF Load

(* bituctl is back at its prompt: what it waited for is off its way. *)
LEMMA PromptInv ==
  ASSUME DialogueInv, Shapes', BackToPrompt, UNCHANGED <<reader, queue, consumer, crashed, toServer, cut>>,
         toShell' = <<>>, cpc \in {"recv", "poll"}, Untaken = 1 \/ HungUp
  PROVE  DialogueInv'
<1>1. Shapes /\ InTurn /\ Deserted
  BY DEF DialogueInv
<1>2. cpc' = "prompt" /\ cut' = cut /\ queue' = queue
  BY DEF BackToPrompt
<1>3. /\ Transit' = Transit /\ Unsent' = Unsent /\ Untaken' = 0
      /\ HungUp' = HungUp /\ Waiting' = 0 /\ Waiting = 1 /\ Extra' = Extra
  BY <1>2 DEF Transit, Unsent, Untaken, HungUp, Waiting, Extra, reader, consumer
<1>4. Load' = Load - Untaken
  BY <1>1, <1>2, <1>3, LoadParts DEF Load
<1>5. Load' \in Nat /\ Load' <= Extra
  <2>1. Load' \in Nat
    BY <1>1, <1>2, <1>3, LoadParts DEF Load
  <2>2. CASE Untaken = 1
    BY <1>1, <1>3, <1>4, <2>1, <2>2, LoadParts DEF InTurn
  <2>3. CASE HungUp
    <3>1. Load <= Extra
      BY <1>1, <2>3 DEF Deserted
    <3> QED
      BY <1>1, <1>4, <2>1, <3>1, LoadParts
  <2> QED
    BY <2>2, <2>3
<1>6. InTurn' /\ Deserted' /\ Fresh'
  BY <1>1, <1>2, <1>3, <1>5, LoadParts DEF InTurn, Deserted, Fresh
<1> QED
  BY <1>6 DEF DialogueInv

(* A line is sent, or bituctl leaves. *)
LEMMA AskInv ==
  ASSUME DialogueInv, Shapes', cpc \in {"start", "prompt"}, cpc' \in {"recv", "done"},
         cpc' # "done" => ~HungUp,
         UNCHANGED <<reader, queue, consumer, crashed, toShell, cut>>
  PROVE  DialogueInv'
<1>1. Shapes /\ InTurn
  BY DEF DialogueInv
<1>2. /\ queue' = queue /\ HungUp' = HungUp
      /\ Waiting = 0 /\ Waiting' = 1 /\ Extra' = Extra
      /\ Unsent' = Unsent /\ Untaken' = Untaken /\ Transit' \in {0, 1}
  BY DEF Waiting, HungUp, Extra, Transit, Unsent, Untaken, reader, consumer
<1>3. Load' = Transit' + Len(queue) + Unsent + Untaken
  BY <1>2 DEF Load
<1>4. Load' <= Load + 1 /\ Load' \in Nat
  BY <1>1, <1>2, <1>3, LoadParts
<1>5. InTurn'
  BY <1>1, <1>2, <1>4, LoadParts DEF InTurn
<1>6. Deserted' /\ Fresh'
  BY <1>2 DEF Deserted, Fresh
<1> QED
  BY <1>5, <1>6 DEF DialogueInv

(* What the server does never adds to the load, and takes from it when its *)
(* end is closed.                                                          *)
LEMMA WorkInv ==
  ASSUME DialogueInv, Shapes', cpc' = cpc, cut' = cut, Load' \in Nat, Load' <= Load, Fresh',
         HungUp' /\ ~HungUp => cpc = "done" \/ Load' < Load
  PROVE  DialogueInv'
<1>1. Shapes /\ InTurn /\ Deserted
  BY DEF DialogueInv
<1>2. Waiting' = Waiting /\ Extra' = Extra
  BY DEF Waiting, Extra
<1>3. InTurn'
  BY <1>1, <1>2, LoadParts DEF InTurn
<1>4. Deserted'
  BY <1>1, <1>2, LoadParts DEF InTurn, Deserted
<1> QED
  BY <1>3, <1>4 DEF DialogueInv

-----------------------------------------------------------------------------
(* The steps *)

LEMMA UserStep ==
  ASSUME DialogueInv, User
  PROVE  DialogueInv'
<1>0. Shapes /\ Fresh
  BY DEF DialogueInv
<1>1. CASE GiveArguments
  <2>1. PICK args \in ArgLists : Ask("args", args, LineOf(args))
    BY <1>1 DEF GiveArguments
  <2>2. request' \in Requests
    BY <2>1 DEF Ask, Requests
  <2>3. cpc = "start" /\ cpc' = "recv" /\ oneshot' = TRUE
    BY <1>1, <2>1 DEF GiveArguments, Ask
  <2>4. UNCHANGED <<reader, queue, consumer, crashed, toShell, cut>>
    BY <2>1 DEF Ask
  <2>5. Shapes'
    BY <1>0, <2>2, <2>3, <2>4 DEF Shapes, reader, consumer, Sequence
  <2>6. ~HungUp
    BY <1>0, <2>3 DEF Fresh, HungUp
  <2> QED
    BY <2>3, <2>4, <2>5, <2>6, AskInv
<1>2. CASE StartShell
  <2>1. /\ cpc = "start" /\ cpc' = "prompt"
        /\ UNCHANGED <<oneshot, request, reader, queue, consumer, crashed, toServer, toShell, cut>>
    BY <1>2 DEF StartShell
  <2>2. Shapes'
    BY <1>0, <2>1 DEF Shapes, reader, consumer, Sequence
  <2>3. /\ Load' = Load /\ Extra' = Extra /\ HungUp' = HungUp
        /\ Waiting = 0 /\ Waiting' = 0
    BY <2>1 DEF Load, Transit, Unsent, Untaken, Extra, HungUp, Waiting, reader, consumer
  <2>4. ~HungUp
    BY <1>0, <2>1 DEF Fresh, HungUp
  <2>5. InTurn'
    BY <2>3 DEF DialogueInv, InTurn
  <2>6. Deserted' /\ Fresh'
    BY <2>1, <2>3, <2>4 DEF Deserted, Fresh
  <2> QED
    BY <2>2, <2>5, <2>6 DEF DialogueInv
<1>3. CASE Type
  <2>1. PICK line \in TypedLines : Ask("line", <<line>>, line)
    BY <1>3, DialogueAssumption DEF Type
  <2>2. request' \in Requests
    BY <2>1 DEF Ask, Requests
  <2>3. cpc = "prompt" /\ cpc' = "recv" /\ oneshot' = oneshot /\ ~HungUp
    BY <1>3, <2>1 DEF Type, Ask
  <2>4. UNCHANGED <<reader, queue, consumer, crashed, toShell, cut>>
    BY <2>1 DEF Ask
  <2>5. Shapes'
    BY <1>0, <2>2, <2>3, <2>4 DEF Shapes, reader, consumer, Sequence
  <2> QED
    BY <2>3, <2>4, <2>5, AskInv
<1>4. CASE Exit \/ Leave
  <2>1. /\ cpc = "prompt" /\ cpc' = "done"
        /\ UNCHANGED <<oneshot, request, reader, queue, consumer, crashed, toShell, cut>>
    BY <1>4 DEF Exit, Leave
  <2>2. Shapes'
    BY <1>0, <2>1 DEF Shapes, reader, consumer, Sequence
  <2>3. UNCHANGED <<reader, queue, consumer, crashed, toShell, cut>>
    BY <2>1
  <2> QED
    BY <2>1, <2>2, <2>3, AskInv
<1> QED
  BY <1>1, <1>2, <1>3, <1>4 DEF User

LEMMA ShellStep ==
  ASSUME DialogueInv, Shell
  PROVE  DialogueInv'
<1>0. Shapes /\ InTurn /\ Deserted
  BY DEF DialogueInv
<1>1. UNCHANGED <<oneshot, reader, queue, consumer, crashed, toServer, cut>>
  BY DEF Shell, Receive, ReceiveEnd
<1>2. toShell' \in Seq(Nat) /\ cpc \in {"recv", "poll"}
  <2>1. CASE Receive
    <3>1. toShell' = After(BufSize, toShell) /\ toShell \in Seq(Nat) /\ BufSize \in Nat \ {0}
      BY <1>0, <2>1, LineAssumption DEF Receive, Shapes
    <3>2. After(BufSize, toShell) \in Seq(Nat)
      BY <3>1, Pieces
    <3> QED
      BY <2>1, <3>1, <3>2 DEF Receive
  <2>2. CASE ReceiveEnd
    BY <1>0, <2>2 DEF ReceiveEnd, Shapes
  <2> QED
    BY <2>1, <2>2 DEF Shell
<1>3. ASSUME BackToPrompt PROVE Shapes'
  BY <1>0, <1>1, <1>2, <1>3 DEF BackToPrompt, Shapes, reader, consumer, Sequence
<1>4. ASSUME BackToPrompt, toShell' = <<>>, Untaken = 1 \/ HungUp PROVE DialogueInv'
  <2>1. UNCHANGED <<reader, queue, consumer, crashed, toServer, cut>>
    BY <1>1
  <2> QED
    BY <1>2, <1>3, <1>4, <2>1, PromptInv
<1>5. CASE ReceiveEnd
  <2>1. BackToPrompt /\ toShell' = <<>> /\ (Untaken = 1 \/ HungUp)
    BY <1>5 DEF ReceiveEnd, Untaken
  <2> QED
    BY <1>4, <2>1
<1>6. CASE Receive
  <2> DEFINE chunk == Upto(BufSize, toShell)
  <2>1. toShell # <<>> /\ Untaken = 1
    BY <1>6 DEF Receive, Untaken
  <2>2. CASE Len(chunk) = 1
    <3>1. BackToPrompt /\ toShell' = After(BufSize, toShell)
      BY <1>6, <2>2 DEF Receive
    <3>2. After(BufSize, toShell) = <<>>
      BY <1>0, <2>2, Pieces, LineAssumption DEF Shapes
    <3> QED
      BY <1>4, <2>1, <3>1, <3>2
  <2>3. CASE Len(chunk) # 1
    <3>1. cpc' = "poll" /\ UNCHANGED request
      BY <1>6, <2>3 DEF Receive
    <3>2. Shapes'
      BY <1>0, <1>1, <1>2, <3>1 DEF Shapes, reader, consumer, Sequence
    <3>3. /\ Transit' = Transit /\ Unsent' = Unsent /\ Untaken' = 1 /\ queue' = queue
          /\ Waiting = 1 /\ Waiting' = 1 /\ Extra' = Extra /\ HungUp' = HungUp
      BY <1>1, <1>2, <3>1 DEF Transit, Unsent, Untaken, Waiting, Extra, HungUp, reader, consumer
    <3>4. Load' = Load
      BY <2>1, <3>3 DEF Load
    <3>5. InTurn' /\ Deserted' /\ Fresh'
      BY <1>0, <1>2, <3>1, <3>3, <3>4 DEF InTurn, Deserted, Fresh
    <3> QED
      BY <3>2, <3>5 DEF DialogueInv
  <2> QED
    BY <2>2, <2>3
<1> QED
  BY <1>5, <1>6 DEF Shell

LEMMA ServerStep ==
  ASSUME DialogueInv, Recv \/ EndOfText
  PROVE  DialogueInv'
<1>0. Shapes /\ Fresh
  BY DEF DialogueInv
<1>1. UNCHANGED <<shell, consumer, toShell, cut>> /\ cpc' = cpc
  BY DEF Recv, EndOfText, shell
<1>2. Unsent' = Unsent /\ Untaken' = Untaken
  BY <1>1 DEF Unsent, Untaken, consumer
<1>3. CASE Recv
  <2>1. queue' = queue /\ spc' = "drain" /\ crashed' = crashed /\ toServer # <<>> /\ spc # "hungup"
    BY <1>3 DEF Recv
  <2>2. Shapes'
    BY <1>0, <1>1, <2>1 DEF Shapes, shell, consumer, Sequence
  <2>3. Transit = 1 /\ Transit' = 1
    BY <2>1 DEF Transit
  <2>4. Load' = Load
    BY <1>2, <2>1, <2>3 DEF Load
  <2>5. HungUp' => HungUp
    BY <2>1 DEF HungUp
  <2>6. Fresh'
    BY <1>0, <1>1, <2>1 DEF Fresh
  <2>7. Load' \in Nat /\ Load' <= Load
    BY <1>0, <2>4, LoadParts
  <2>8. cut' = cut
    BY <1>1
  <2> QED
    BY <1>1, <2>2, <2>5, <2>6, <2>7, <2>8, WorkInv
<1>4. CASE EndOfText
  <2>1. /\ spc' \in {"recv", "hungup"} /\ crashed' \in BOOLEAN /\ str' = <<>> /\ toServer' = <<>>
        /\ toServer = <<>> /\ ~crashed /\ spc # "hungup"
        /\ spc = "drain" \/ (spc = "recv" /\ cpc = "done")
    <3>1. crashed' \in BOOLEAN
      <4>1. CASE Len(str) < 2 \/ str = Good_Bye
        BY <1>0, <1>4, <4>1 DEF EndOfText, Shapes
      <4>2. CASE ~(Len(str) < 2 \/ str = Good_Bye)
        <5>1. crashed' = ~Parsed(str)
          BY <1>4, <4>2 DEF EndOfText
        <5>2. CASE Parsed(str)
          BY <5>1, <5>2
        <5>3. CASE ~Parsed(str)
          BY <5>1, <5>3
        <5> QED
          BY <5>2, <5>3
      <4> QED
        BY <4>1, <4>2
    <3> QED
      BY <1>4, <3>1 DEF EndOfText
  <2>2. Sequence(queue') /\ Len(queue') \in Nat /\ Len(queue') <= Len(queue) + 1
    <3>1. queue' = queue \/ queue' = Append(queue, CommandNew(str))
      BY <1>4 DEF EndOfText
    <3>2. Sequence(queue)
      BY <1>0 DEF Shapes
    <3>3. CASE queue' = queue
      BY <1>0, <3>2, <3>3, LoadParts DEF Sequence
    <3>4. CASE queue' = Append(queue, CommandNew(str))
      <4>1. /\ Sequence(Append(queue, CommandNew(str)))
            /\ Len(Append(queue, CommandNew(str))) = Len(queue) + 1
        BY <3>2, SequenceOps
      <4>2. Sequence(queue') /\ Len(queue') = Len(queue) + 1
        BY <3>4, <4>1 DEF Sequence
      <4> QED
        BY <1>0, <4>2, LoadParts
    <3> QED
      BY <3>1, <3>3, <3>4
  <2>3. Shapes'
    BY <1>0, <1>1, <2>1, <2>2 DEF Shapes, shell, consumer, Sequence
  <2>4. Fresh'
    BY <1>0, <1>1, <2>1 DEF Fresh
  <2>5. Transit' = 0
    BY <2>1 DEF Transit
  <2>6. Load' = Len(queue') + Unsent + Untaken
    BY <1>2, <2>2, <2>5, <1>0, LoadParts DEF Load
  <2>7. HungUp' => queue' = queue
    BY <1>4, <2>1 DEF EndOfText, HungUp
  <2>8. CASE spc = "drain"
    <3>1. Transit = 1
      BY <2>8 DEF Transit
    <3>2. Load' \in Nat /\ Load' <= Load /\ (HungUp' => Load' < Load)
      BY <1>0, <2>2, <2>6, <2>7, <3>1, LoadParts
    <3> QED
      BY <1>1, <2>3, <2>4, <3>2, WorkInv
  <2>9. CASE spc = "recv" /\ cpc = "done"
    <3>1. str = <<>>
      BY <1>0, <2>9 DEF Shapes
    <3>2. Len(str) < 2
      BY <3>1
    <3>3. queue' = queue
      BY <1>4, <3>2 DEF EndOfText
    <3>4. Load' \in Nat /\ Load' <= Load
      BY <1>0, <2>6, <3>3, LoadParts
    <3> QED
      BY <1>1, <2>3, <2>4, <2>9, <3>4, WorkInv
  <2> QED
    BY <2>1, <2>8, <2>9
<1> QED
  BY <1>3, <1>4

LEMMA ConsumerStep ==
  ASSUME DialogueInv, Execute \/ Send \/ SendEnd
  PROVE  DialogueInv'
<1>0. Shapes /\ InTurn /\ Fresh
  BY DEF DialogueInv
<1>1. /\ cpc' = cpc /\ oneshot' = oneshot /\ request' = request
      /\ UNCHANGED <<reader, toServer>> /\ ~crashed /\ Transit' = Transit
  BY DEF Execute, Send, SendEnd, shell, Transit, reader
<1>2. CASE Execute
  <2>1. kpc = "pop" /\ queue # <<>> /\ queue' = Tail(queue) /\ cut' = cut /\ toShell' = toShell
    BY <1>2 DEF Execute
  <2>2. /\ message' \in Seq(Nat) /\ kpc' \in {"pop", "send"} /\ sent' \in 0..(2 * Len(message'))
        /\ crashed' \in BOOLEAN /\ (crashed' => kpc' = "pop")
    <3>1. CASE Head(queue).name = NULL
      BY <1>0, <1>2, <2>1, <3>1 DEF Execute, Shapes, consumer
    <3>2. CASE Head(queue).name # NULL
      <4>1. kpc' = "send" /\ sent' = 0 /\ crashed' = crashed /\ message' = Message(answer') /\ answer' \in Answers
        BY <1>2, <3>2 DEF Execute
      <4>2. message' \in Seq(Nat)
        BY <4>1, MessageType
      <4>3. sent' \in 0..(2 * Len(message'))
        BY <4>1, <4>2
      <4>4. crashed' \in BOOLEAN /\ ~crashed'
        BY <1>0, <1>1, <4>1 DEF Shapes
      <4> QED
        BY <4>1, <4>2, <4>3, <4>4
    <3> QED
      BY <3>1, <3>2
  <2>3. Sequence(queue') /\ Len(queue') = Len(queue) - 1
    BY <1>0, <2>1, SequenceOps DEF Shapes
  <2>4. Shapes'
    BY <1>0, <1>1, <2>1, <2>2, <2>3 DEF Shapes, reader, Sequence
  <2>5. Unsent = 0 /\ Untaken' = Untaken
    BY <1>1, <2>1 DEF Unsent, Untaken
  <2>6. Load' = Transit + Len(queue') + Unsent' + Untaken
    BY <1>1, <2>5 DEF Load
  <2>7. Unsent' \in {0, 1} /\ (crashed' => Unsent' = 0)
    BY <2>2 DEF Unsent
  <2>8. Load' \in Nat /\ Load' <= Load /\ (crashed' => Load' < Load)
    <3>1. Len(queue') \in Nat
      BY <2>3, SequenceOps
    <3> QED
      BY <1>0, <2>3, <2>5, <2>6, <2>7, <3>1, LoadParts
  <2>9. HungUp' /\ ~HungUp => crashed'
    BY <1>1 DEF HungUp, reader
  <2>10. Fresh'
    BY <1>0, <1>1, <2>1 DEF Fresh
  <2> QED
    BY <1>1, <2>1, <2>4, <2>8, <2>9, <2>10, WorkInv
<1>3. CASE Send
  <2>1. PICK n \in 1..Len(message) :
          /\ toShell' = toShell \o Upto(n, message)
          /\ sent' = sent + n
          /\ cut' = (cut \/ n < Len(message))
          /\ n < Len(message) => ~cut
    <3>1. Len(message) \in Nat /\ sent \in Nat /\ sent < Len(message)
      BY <1>0, <1>3 DEF Shapes, Send, CanSend
    <3> QED
      BY <1>3, <3>1 DEF Send
  <2>2. /\ kpc = "send" /\ kpc' = "send" /\ message' = message /\ crashed' = crashed
        /\ queue' = queue /\ sent < Len(message) /\ ~HungUp /\ ~HungUp'
    BY <1>1, <1>3 DEF Send, CanSend, HungUp, reader
  <2>3. Len(message) \in Nat /\ sent \in Nat /\ n \in Nat \ {0} /\ n <= Len(message)
    BY <1>0 DEF Shapes
  <2>4. toShell' \in Seq(Nat)
    <3>1. Upto(n, message) \in Seq(Nat)
      BY <1>0, <2>3, Pieces DEF Shapes
    <3> QED
      BY <1>0, <2>1, <3>1 DEF Shapes
  <2>5. sent' \in 0..(2 * Len(message'))
    BY <2>1, <2>2, <2>3
  <2>6. cut' \in BOOLEAN
    BY <2>1
  <2>7. Shapes'
    BY <1>0, <1>1, <2>2, <2>4, <2>5, <2>6 DEF Shapes, reader, Sequence
  <2>8. Unsent = 1 /\ Load' = Transit + Len(queue) + Unsent' + Untaken'
    BY <1>1, <2>2 DEF Unsent, Load
  <2>9. Unsent' \in {0, 1} /\ Untaken' \in {0, 1} /\ Waiting' = Waiting
    BY <1>1 DEF Unsent, Untaken, Waiting
  <2>10. CASE n = Len(message)
    <3>1. Unsent' = 0
      BY <2>1, <2>2, <2>3, <2>10 DEF Unsent
    <3>2. Extra' = Extra
      <4>1. ~(n < Len(message))
        BY <2>3, <2>10
      <4>2. cut' <=> cut
        BY <2>1, <4>1
      <4> QED
        BY <4>2 DEF Extra
    <3>3. Load' \in Nat /\ Load' <= Load
      BY <1>0, <2>8, <2>9, <3>1, LoadParts
    <3>4. InTurn'
      BY <1>0, <2>9, <3>2, <3>3, LoadParts DEF InTurn
    <3>5. Deserted' /\ Fresh'
      BY <1>0, <1>1, <2>2 DEF Deserted, Fresh, reader
    <3> QED
      BY <2>7, <3>4, <3>5 DEF DialogueInv
  <2>11. CASE n < Len(message)
    <3>1. Extra = 0 /\ Extra' = 1
      BY <2>1, <2>11 DEF Extra
    <3>2. Load' <= Load + 1 /\ Load' \in Nat
      BY <1>0, <2>8, <2>9, LoadParts
    <3>3. InTurn'
      BY <1>0, <2>9, <3>1, <3>2, LoadParts DEF InTurn
    <3>4. Deserted' /\ Fresh'
      BY <1>0, <1>1, <2>2 DEF Deserted, Fresh, reader
    <3> QED
      BY <2>7, <3>3, <3>4 DEF DialogueInv
  <2> QED
    BY <2>3, <2>10, <2>11
<1>4. CASE SendEnd
  <2>1. /\ kpc' = "pop" /\ message' = <<>> /\ sent' = 0
        /\ UNCHANGED <<shell, reader, queue, crashed, toServer, toShell, cut>>
    BY <1>4 DEF SendEnd
  <2>2. message' \in Seq(Nat) /\ sent' \in 0..(2 * Len(message'))
    BY <2>1
  <2>3. Shapes'
    BY <1>0, <2>1, <2>2 DEF Shapes, shell, reader, Sequence
  <2>4. Unsent' = 0 /\ Untaken' = Untaken /\ HungUp' = HungUp /\ cut' = cut /\ queue' = queue
    BY <2>1 DEF Unsent, Untaken, HungUp, shell, reader
  <2>5. Load' = Transit + Len(queue) + 0 + Untaken
    BY <1>1, <2>4 DEF Load
  <2>6. Load' \in Nat /\ Load' <= Load
    BY <1>0, <2>5, LoadParts
  <2>7. Fresh'
    BY <1>0, <1>1, <2>1 DEF Fresh, reader
  <2> QED
    BY <1>1, <2>3, <2>4, <2>6, <2>7, WorkInv
<1> QED
  BY <1>2, <1>3, <1>4

LEMMA StepInv == DialogueInv /\ [Next]_vars => DialogueInv'
<1> SUFFICES ASSUME DialogueInv, [Next]_vars PROVE DialogueInv'
  OBVIOUS
<1>1. CASE UNCHANGED vars
  BY <1>1 DEF DialogueInv, Shapes, InTurn, Deserted, Fresh, Load, Transit, Unsent, Untaken,
              Waiting, Extra, HungUp, Sequence, vars, shell, reader, consumer
<1> QED
  BY <1>1, UserStep, ShellStep, ServerStep, ConsumerStep DEF Next

THEOREM DialogueInvariant == Spec => []DialogueInv
  BY InitInv, StepInv, PTL DEF Spec

-----------------------------------------------------------------------------
(* Whatever is typed, executed and answered, a single command is queued at *)
(* most, and never more than two after a send that was cut short; no       *)
(* message is counted as sent more than twice over (server.c:257-268,      *)
(* shell.c:93-128).                                                        *)
THEOREM TypeCorrect == Spec => []TypeOK
<1>1. ASSUME DialogueInv PROVE TypeOK
  <2>1. Shapes /\ InTurn
    BY <1>1 DEF DialogueInv
  <2>2. Len(queue) <= Waiting + Extra
    BY <2>1, LoadParts DEF InTurn
  <2>3. Len(queue) <= (IF cut THEN 2 ELSE 1)
    <3>1. CASE cut
      BY <2>1, <2>2, <3>1, LoadParts DEF Extra
    <3>2. CASE ~cut
      BY <2>1, <2>2, <3>2, LoadParts DEF Extra
    <3> QED
      BY <3>1, <3>2
  <2> QED
    BY <2>1, <2>3 DEF TypeOK, Shapes
<1> QED
  BY <1>1, DialogueInvariant, PTL

(* When the prompt shows, the exchange is over: nothing of the line or of  *)
(* its answer is left on the way, for buffers of any size but one          *)
(* (shell.c:93-128, server.c:327-358).                                     *)
THEOREM NothingLeft == Spec => []NothingLeftOver
<1>1. ASSUME DialogueInv PROVE NothingLeftOver
  <2> SUFFICES ASSUME cpc = "prompt", ~cut
               PROVE  toServer = <<>> /\ toShell = <<>> /\ str = <<>> /\ queue = <<>>
    BY DEF NothingLeftOver
  <2>1. Shapes /\ InTurn
    BY <1>1 DEF DialogueInv
  <2>2. Waiting = 0 /\ Extra = 0
    BY DEF Waiting, Extra
  <2>3. Transit = 0 /\ Len(queue) = 0 /\ Untaken = 0
    BY <2>1, <2>2, LoadParts DEF InTurn
  <2>4. toServer = <<>> /\ spc # "drain" /\ toShell = <<>>
    BY <2>3 DEF Transit, Untaken
  <2> QED
    BY <2>1, <2>3, <2>4, SequenceOps DEF Shapes
<1> QED
  BY <1>1, DialogueInvariant, PTL

-----------------------------------------------------------------------------
(* Texts put together from parts *)

LEMMA FlattenEmpty == FlattenSeq(<<>>) = <<>>
  BY DEF FlattenSeq

(* FlattenSeq walks along the parts; so does every function that takes the *)
(* same steps.                                                             *)
LEMMA FlattenWalk ==
  ASSUME NEW S, NEW s, s \in Seq(Seq(S))
  PROVE  /\ FlattenSeq(s) \in Seq(S)
         /\ \E g \in [0..Len(s) -> Seq(S)] :
              /\ g[0] = <<>>
              /\ \A i \in 1..Len(s) : g[i] = g[i - 1] \o s[i]
              /\ FlattenSeq(s) = g[Len(s)]
<1> DEFINE n == Len(s)
           F(c) == [i \in 1..n |-> IF i = 1 THEN s[i] ELSE c[i - 1] \o s[i]]
           d == CHOOSE c : c = F(c)
<1>1. n \in Nat /\ \A i \in 1..n : s[i] \in Seq(S)
  BY ElementOfSeq
<1>2. PICK Q : Q = Seq(S)
  OBVIOUS
<1>3. PICK h : h = [i \in 1..n |-> [t \in Q |-> t \o s[i]]]
  OBVIOUS
<1>4. h \in [1..n -> [Q -> Q]]
  BY <1>1, <1>2, <1>3, ConcatProperties
<1>5. \A i \in 1..n, t \in Q : h[i][t] = t \o s[i]
  BY <1>3
<1>6. PICK g \in [0..n -> Q] : g[0] = <<>> /\ \A i \in 1..n : g[i] = h[i][g[i - 1]]
  <2>1. PICK e, m : e = <<>> /\ m = n
    OBVIOUS
  <2>2. m \in Nat /\ h \in [1..m -> [Q -> Q]] /\ e \in Q
    BY <1>1, <1>2, <1>4, <2>1
  <2>3. \E g \in [0..m -> Q] : g[0] = e /\ \A i \in 1..m : g[i] = h[i][g[i - 1]]
    BY ONLY <2>2, Iterates
  <2> QED
    BY <2>1, <2>3
<1>7. \A i \in 1..n : g[i] = g[i - 1] \o s[i]
  <2> SUFFICES ASSUME NEW i \in 1..n PROVE g[i] = g[i - 1] \o s[i]
    OBVIOUS
  <2>1. i - 1 \in 0..n
    BY <1>1
  <2>2. g[i - 1] \in Q
    BY <2>1
  <2> QED
    BY <1>5, <1>6, <2>2
<1>8. CASE n = 0
  <2>1. s = <<>>
    BY <1>8, EmptySeq
  <2>2. FlattenSeq(s) = <<>>
    BY <2>1, FlattenEmpty
  <2> QED
    BY <1>2, <1>6, <1>7, <1>8, <2>2
<1>9. CASE n # 0
  <2>1. FlattenSeq(s) = d[n]
    BY <1>9 DEF FlattenSeq
  <2> DEFINE k == [i \in 1..n |-> g[i]]
  <2>2. k = F(k)
    <3>1. \A i \in 1..n : g[i] = IF i = 1 THEN s[i] ELSE k[i - 1] \o s[i]
      <4> SUFFICES ASSUME NEW i \in 1..n PROVE g[i] = IF i = 1 THEN s[i] ELSE k[i - 1] \o s[i]
        OBVIOUS
      <4>1. CASE i = 1
        <5>1. <<>> \o s[i] = s[i]
          BY <1>1
        <5>2. g[i] = g[0] \o s[i]
          <6>1. i - 1 = 0
            BY <4>1
          <6> QED
            BY <1>7, <6>1
        <5> QED
          BY <1>6, <4>1, <5>1, <5>2
      <4>2. CASE i # 1
        <5>1. i - 1 \in 1..n
          BY <1>1, <4>2
        <5> QED
          BY <1>7, <4>2, <5>1
      <4> QED
        BY <4>1, <4>2
    <3> QED
      BY <3>1
  <2>3. d = F(d)
    <3> HIDE DEF F
    <3> QED
      BY <2>2
  <2> HIDE DEF d
  <2>4. \A i \in 1..n : d[i] = IF i = 1 THEN s[i] ELSE d[i - 1] \o s[i]
    BY <2>3, Zenon
  <2> DEFINE T == {i \in 0..n : i # 0 => d[i] = g[i]}
  <2>5. 0 \in T
    BY <1>1
  <2>6. ASSUME NEW i \in 0..(n - 1), i \in T PROVE i + 1 \in T
    <3>1. /\ i + 1 \in 0..n /\ i + 1 \in 1..n /\ (i + 1) - 1 = i /\ (i + 1 = 1 <=> i = 0)
          /\ i # 0 => d[i] = g[i]
      BY <1>1, <2>6
    <3>2. CASE i = 0
      <4>1. d[i + 1] = s[i + 1]
        BY <2>4, <3>1, <3>2
      <4>2. g[i + 1] = <<>> \o s[i + 1]
        BY <1>6, <1>7, <3>1, <3>2
      <4>3. <<>> \o s[i + 1] = s[i + 1]
        BY <1>1, <3>1, ConcatEmptySeq
      <4> QED
        BY <3>1, <4>1, <4>2, <4>3
    <3>3. CASE i # 0
      <4>1. d[i + 1] = d[i] \o s[i + 1] /\ g[i + 1] = g[i] \o s[i + 1]
        BY <1>7, <2>4, <3>1, <3>3
      <4> QED
        BY <3>1, <3>3, <4>1
    <3> QED
      BY <3>2, <3>3
  <2>7. \A i \in 0..n : i \in T
    <3> HIDE DEF T
    <3> QED
      BY <1>1, <2>5, <2>6, Induct
  <2>8. d[n] = g[n]
    BY <1>1, <1>9, <2>7
  <2>9. g[n] \in Seq(S)
    BY <1>1, <1>2
  <2> HIDE DEF n
  <2>10. FlattenSeq(s) = g[n]
    BY <2>1, <2>8
  <2> QED
    BY <1>2, <1>6, <1>7, <2>9, <2>10 DEF n
<1> QED
  BY <1>8, <1>9

LEMMA FlattenAppend ==
  ASSUME NEW S, NEW s \in Seq(Seq(S)), NEW x \in Seq(S)
  PROVE  /\ FlattenSeq(s) \in Seq(S)
         /\ FlattenSeq(Append(s, x)) = FlattenSeq(s) \o x
<1> DEFINE t == Append(s, x)
           n == Len(s)
<1>1. /\ n \in Nat /\ t \in Seq(Seq(S)) /\ Len(t) = n + 1 /\ t[n + 1] = x
      /\ \A i \in 1..n : t[i] = s[i]
  BY AppendProperties
<1>2. PICK g \in [0..n -> Seq(S)] :
        /\ g[0] = <<>>
        /\ \A i \in 1..n : g[i] = g[i - 1] \o s[i]
        /\ FlattenSeq(s) = g[n]
  BY FlattenWalk
<1> HIDE DEF t
<1>3. PICK h \in [0..(n + 1) -> Seq(S)] :
        /\ h[0] = <<>>
        /\ \A i \in 1..(n + 1) : h[i] = h[i - 1] \o t[i]
        /\ FlattenSeq(t) = h[n + 1]
  <2>1. PICK h \in [0..Len(t) -> Seq(S)] :
          /\ h[0] = <<>>
          /\ \A i \in 1..Len(t) : h[i] = h[i - 1] \o t[i]
          /\ FlattenSeq(t) = h[Len(t)]
    BY <1>1, FlattenWalk
  <2>2. Len(t) = n + 1
    BY <1>1
  <2> QED
    BY <2>1, <2>2
<1> DEFINE T == {i \in 0..n : h[i] = g[i]}
<1>4. 0 \in T
  BY <1>1, <1>2, <1>3
<1>5. ASSUME NEW i \in 0..(n - 1), i \in T PROVE i + 1 \in T
  <2>1. i + 1 \in 0..n /\ i + 1 \in 1..n /\ i + 1 \in 1..(n + 1) /\ (i + 1) - 1 = i /\ h[i] = g[i]
    BY <1>1, <1>5
  <2>2. h[i + 1] = h[i] \o t[i + 1] /\ g[i + 1] = g[i] \o s[i + 1] /\ t[i + 1] = s[i + 1]
    <3> HIDE DEF n
    <3> QED
      BY <1>1, <1>2, <1>3, <2>1
  <2> QED
    BY <2>1, <2>2
<1>6. \A i \in 0..n : i \in T
  <2> HIDE DEF T
  <2> QED
    BY <1>1, <1>4, <1>5, Induct
<1>7. h[n] = g[n] /\ h[n + 1] = h[n] \o t[n + 1]
  <2>1. n \in 0..n /\ n + 1 \in 1..(n + 1) /\ (n + 1) - 1 = n
    BY <1>1
  <2> QED
    BY <1>3, <1>6, <2>1
<1> QED
  BY <1>1, <1>2, <1>3, <1>7, FlattenWalk DEF t

-----------------------------------------------------------------------------
(* One round of bitu_util_extract_params *)

Texts == Seq(Chars)
Locals == [inside_quotes : BOOLEAN, tok : Texts \cup {NULL}, allocated : Nat,
           found : Seq(Texts), freedTwice : BOOLEAN]

LEMMA Characters ==
  /\ Blank \in Chars /\ Quote \in Chars /\ Escape \in Chars /\ NUL \in Chars
  /\ Blank # Quote /\ Blank # Escape /\ Quote # Escape
  /\ NUL # Quote /\ NUL # Escape /\ NUL # Blank
  /\ Blank \in Space
  /\ NULL \notin Texts /\ NULL \notin Seq(Texts)
<1>1. Blank \in Space
  BY DEF Space
<1>2. /\ Blank # Quote /\ Blank # Escape /\ Quote # Escape
      /\ NUL # Quote /\ NUL # Escape /\ NUL # Blank
  BY DEF Blank, Quote, Escape, NUL
<1> QED
  BY <1>1, <1>2, LineAssumption DEF Texts

LEMMA NoTokenOK ==
  /\ NoToken \in Locals /\ NoToken.tok = NULL /\ NoToken.found = <<>>
  /\ ~NoToken.inside_quotes /\ ~NoToken.freedTwice
<1>1. <<>> \in Seq(Texts)
  OBVIOUS
<1> QED
  BY <1>1 DEF NoToken, Locals

Begun(x) == IF x.tok = NULL THEN <<>> ELSE x.tok
Grown(x) ==
  LET size == IF x.tok = NULL THEN 0 ELSE Len(x.tok)
  IN IF size > x.allocated THEN ((size - 1) \div BufSize + 1) * BufSize ELSE x.allocated

LEMMA GrownOK ==
  ASSUME NEW x \in Locals
  PROVE  /\ Begun(x) \in Texts /\ Grown(x) \in Nat
         /\ x.allocated > 0 => Grown(x) > 0
         /\ x.tok # NULL /\ x.tok # <<>> => Grown(x) > 0
<1> DEFINE size == IF x.tok = NULL THEN 0 ELSE Len(x.tok)
<1>1. x.allocated \in Nat /\ x.tok \in Texts \cup {NULL}
  BY DEF Locals
<1>2. size \in Nat /\ (x.tok # NULL /\ x.tok # <<>> => size > 0) /\ Begun(x) \in Texts
  BY <1>1, EmptySeq DEF Begun, Texts
<1> HIDE DEF size
<1>3. BufSize \in Nat \ {0}
  BY LineAssumption
<1>4. size > 0 => /\ ((size - 1) \div BufSize + 1) * BufSize \in Nat
                  /\ ((size - 1) \div BufSize + 1) * BufSize > 0
  <2> SUFFICES ASSUME NEW k \in Nat PROVE (k \div BufSize + 1) * BufSize \in Nat \ {0}
    BY <1>2
  <2>1. k \div BufSize \in Nat
    BY <1>3
  <2> QED
    BY <1>3, <2>1
<1>5. Grown(x) = IF size > x.allocated THEN ((size - 1) \div BufSize + 1) * BufSize
                 ELSE x.allocated
  BY DEF Grown, size
<1> QED
  BY <1>1, <1>2, <1>4, <1>5

Flags == BOOLEAN
Grew(x, i, t, f) ==
  [x EXCEPT !.inside_quotes = i, !.allocated = Grown(x), !.tok = t, !.freedTwice = f]
Ended(x, i, l) == [x EXCEPT !.inside_quotes = i, !.found = l, !.tok = NULL]

(* Any other character is added to the token. *)
LEMMA ScanChar ==
  ASSUME NEW x \in Locals, NEW prev, NEW char,
         char \in {Escape, Quote} => prev = Escape,
         char = Blank => prev = Escape \/ x.inside_quotes, NEW i, NEW f,
         i = x.inside_quotes,
         f = (x.freedTwice \/ (ReallocZeroFrees /\ x.tok = <<>> /\ Grown(x) = 0))
  PROVE  Scan(x, prev, char, FALSE) = Grew(x, i, Append(Begun(x), char), f)
BY Characters, Zenon DEF Scan, Grown, Begun, Grew

LEMMA Grows ==
  ASSUME NEW x \in Locals, NEW i \in Flags, NEW t \in Texts, NEW f \in Flags, NEW y,
         y = Grew(x, i, t, f)
  PROVE  /\ y \in Locals
         /\ y.inside_quotes = i /\ y.allocated = Grown(x) /\ y.tok = t /\ y.freedTwice = f
         /\ y.found = x.found
<1>1. PICK B, T, N, S, a : B = BOOLEAN /\ T = Texts \cup {NULL} /\ N = Nat /\ S = Seq(Texts) /\ a = Grown(x)
  OBVIOUS
<1>2. Locals = [inside_quotes : B, tok : T, allocated : N, found : S, freedTwice : B]
  BY <1>1, Zenon DEF Locals
<1>3. x \in [inside_quotes : B, tok : T, allocated : N, found : S, freedTwice : B]
  BY <1>2, Zenon
<1>4. i \in B /\ f \in B
  BY <1>1, Zenon DEF Flags
<1>5. t \in T /\ a \in N
  BY <1>1, GrownOK
<1>6. x.found \in S
  BY <1>3
<1>9. y = [x EXCEPT !.inside_quotes = i, !.allocated = a, !.tok = t, !.freedTwice = f]
  BY <1>1, Zenon DEF Grew
<1>10. /\ y \in [inside_quotes : B, tok : T, allocated : N, found : S, freedTwice : B]
       /\ y.inside_quotes = i /\ y.allocated = a /\ y.tok = t /\ y.freedTwice = f
       /\ y.found = x.found
  BY ONLY <1>3, <1>4, <1>5, <1>6, <1>9
<1> QED
  BY <1>1, <1>2, <1>10, Zenon

LEMMA Ends ==
  ASSUME NEW x \in Locals, NEW i \in Flags, NEW l \in Seq(Texts), NEW y, y = Ended(x, i, l)
  PROVE  /\ y \in Locals
         /\ y.inside_quotes = i /\ y.found = l /\ y.tok = NULL
         /\ y.allocated = x.allocated /\ y.freedTwice = x.freedTwice
<1>1. PICK B, T, N, S, t : B = BOOLEAN /\ T = Texts \cup {NULL} /\ N = Nat /\ S = Seq(Texts) /\ t = NULL
  OBVIOUS
<1>2. Locals = [inside_quotes : B, tok : T, allocated : N, found : S, freedTwice : B]
  BY <1>1, Zenon DEF Locals
<1>3. x \in [inside_quotes : B, tok : T, allocated : N, found : S, freedTwice : B]
  BY <1>2, Zenon
<1>4. i \in B /\ l \in S
  BY <1>1, Zenon DEF Flags
<1>5. t \in T
  BY <1>1
<1>9. y = [x EXCEPT !.inside_quotes = i, !.found = l, !.tok = t]
  BY <1>1, Zenon DEF Ended
<1>10. /\ y \in [inside_quotes : B, tok : T, allocated : N, found : S, freedTwice : B]
       /\ y.inside_quotes = i /\ y.found = l /\ y.tok = t
       /\ y.allocated = x.allocated /\ y.freedTwice = x.freedTwice
  BY ONLY <1>3, <1>4, <1>5, <1>9
<1> QED
  BY <1>1, <1>2, <1>10, Zenon

(* A quote, or an escape character that is none itself, leaves no trace in *)
(* the token; any other character is added to it.                          *)
LEMMA MarkStep ==
  ASSUME NEW x \in Locals, NEW i \in Flags, NEW f \in Flags, NEW y, y = Grew(x, i, Begun(x), f)
  PROVE  /\ y \in Locals /\ y.tok = Begun(x) /\ y.found = x.found /\ y.freedTwice = f
         /\ x.allocated > 0 => y.allocated > 0
         /\ y.inside_quotes = i
<1>1. /\ Begun(x) \in Texts /\ Grown(x) \in Nat
      /\ x.allocated > 0 => Grown(x) > 0
  BY GrownOK
<1>2. PICK t : t = Begun(x)
  OBVIOUS
<1>3. x \in Locals /\ i \in Flags /\ t \in Texts /\ f \in Flags /\ y = Grew(x, i, t, f)
  BY <1>1, <1>2, Zenon
<1>4. /\ y \in Locals
      /\ y.inside_quotes = i /\ y.allocated = Grown(x) /\ y.tok = t /\ y.freedTwice = f
      /\ y.found = x.found
  BY ONLY <1>3, Grows
<1> QED
  BY <1>1, <1>2, <1>4, Zenon

LEMMA EscapeStep ==
  ASSUME NEW x \in Locals, NEW prev, prev # Escape, ~x.freedTwice, x.tok = <<>> => x.allocated > 0,
         NEW y, y = Scan(x, prev, Escape, FALSE)
  PROVE  /\ y \in Locals /\ y.tok = Begun(x) /\ y.found = x.found /\ ~y.freedTwice
         /\ x.allocated > 0 => y.allocated > 0
         /\ y.inside_quotes = x.inside_quotes
<1>1. PICK i, f : /\ i = x.inside_quotes
                  /\ f = (x.freedTwice \/ (ReallocZeroFrees /\ x.tok = <<>> /\ Grown(x) = 0))
  OBVIOUS
<1>2. i \in Flags
  BY <1>1, Zenon DEF Locals, Flags
<1>5. f \in Flags /\ ~f
  <2>1. ~(x.freedTwice \/ (ReallocZeroFrees /\ x.tok = <<>> /\ Grown(x) = 0))
    BY GrownOK
  <2> QED
    BY <1>1, <2>1 DEF Flags
<1>3. Scan(x, prev, Escape, FALSE) = Grew(x, i, Begun(x), f)
  BY <1>1, Characters, Zenon DEF Scan, Grown, Begun, Grew
<1>4. y = Grew(x, i, Begun(x), f)
  BY <1>3, Zenon
<1>6. f \in Flags
  BY <1>5, Zenon
<1>7. /\ y \in Locals /\ y.tok = Begun(x) /\ y.found = x.found /\ y.freedTwice = f
      /\ x.allocated > 0 => y.allocated > 0
      /\ y.inside_quotes = i
  BY ONLY x \in Locals, <1>2, <1>4, <1>6, MarkStep
<1> QED
  BY <1>1, <1>5, <1>7, Zenon

LEMMA QuoteStep ==
  ASSUME NEW x \in Locals, NEW prev, prev # Escape, ~x.freedTwice, x.tok = <<>> => x.allocated > 0,
         NEW y, y = Scan(x, prev, Quote, FALSE)
  PROVE  /\ y \in Locals /\ y.tok = Begun(x) /\ y.found = x.found /\ ~y.freedTwice
         /\ x.allocated > 0 => y.allocated > 0
         /\ y.inside_quotes <=> ~x.inside_quotes
<1>1. PICK i, f : /\ i = ~x.inside_quotes
                  /\ f = (x.freedTwice \/ (ReallocZeroFrees /\ x.tok = <<>> /\ Grown(x) = 0))
  OBVIOUS
<1>2. i \in Flags
  BY <1>1 DEF Flags
<1>5. f \in Flags /\ ~f
  <2>1. ~(x.freedTwice \/ (ReallocZeroFrees /\ x.tok = <<>> /\ Grown(x) = 0))
    BY GrownOK
  <2> QED
    BY <1>1, <2>1 DEF Flags
<1>3. Scan(x, prev, Quote, FALSE) = Grew(x, i, Begun(x), f)
  BY <1>1, Characters, Zenon DEF Scan, Grown, Begun, Grew
<1>4. y = Grew(x, i, Begun(x), f)
  BY <1>3, Zenon
<1>6. f \in Flags
  BY <1>5, Zenon
<1>7. /\ y \in Locals /\ y.tok = Begun(x) /\ y.found = x.found /\ y.freedTwice = f
      /\ x.allocated > 0 => y.allocated > 0
      /\ y.inside_quotes = i
  BY ONLY x \in Locals, <1>2, <1>4, <1>6, MarkStep
<1> QED
  BY <1>1, <1>5, <1>7, Zenon

LEMMA CharStep ==
  ASSUME NEW x \in Locals, NEW prev, NEW char \in Chars,
         char \in {Escape, Quote} => prev = Escape,
         char = Blank => prev = Escape \/ x.inside_quotes,
         ~x.freedTwice, x.tok = <<>> => x.allocated > 0,
         NEW y, y = Scan(x, prev, char, FALSE)
  PROVE  /\ y \in Locals /\ y.tok = Append(Begun(x), char) /\ y.found = x.found /\ ~y.freedTwice
         /\ x.allocated > 0 \/ (x.tok # NULL /\ x.tok # <<>>) => y.allocated > 0
         /\ y.inside_quotes = x.inside_quotes
<1>1. /\ Begun(x) \in Texts /\ Grown(x) \in Nat
      /\ x.allocated > 0 \/ (x.tok # NULL /\ x.tok # <<>>) => Grown(x) > 0
  BY GrownOK
<1>2. ~(x.freedTwice \/ (ReallocZeroFrees /\ x.tok = <<>> /\ Grown(x) = 0))
  BY <1>1
<1>3. x.inside_quotes \in BOOLEAN
  BY DEF Locals
<1>4. PICK i, f : /\ i = x.inside_quotes
                  /\ f = (x.freedTwice \/ (ReallocZeroFrees /\ x.tok = <<>> /\ Grown(x) = 0))
  OBVIOUS
<1>5. i \in Flags /\ f \in Flags /\ ~f
  BY <1>2, <1>3, <1>4 DEF Flags
<1>6. y = Grew(x, i, Append(Begun(x), char), f)
  BY <1>4, ScanChar, ZenonT(60)
<1>7. PICK t : t = Append(Begun(x), char)
  OBVIOUS
<1>8. /\ y \in Locals
      /\ y.inside_quotes = i /\ y.allocated = Grown(x) /\ y.tok = t /\ y.freedTwice = f
      /\ y.found = x.found
  <2>1. t \in Texts
    BY <1>1, <1>7, AppendProperties DEF Texts
  <2>2. x \in Locals /\ i \in Flags /\ f \in Flags /\ y = Grew(x, i, t, f)
    BY <1>1, <1>5, <1>6, <1>7, Zenon
  <2> QED
    BY ONLY <2>1, <2>2, Grows
<1>9. ~y.freedTwice
  BY <1>5, <1>8, Zenon
<1> QED
  BY <1>1, <1>4, <1>7, <1>8, <1>9, Zenon

(* A token ends, at the end of the string and at a blank. *)
LEMMA EndStep ==
  ASSUME NEW x \in Locals, x.tok # NULL, ~x.freedTwice,
         NEW y, y = [x EXCEPT !.found = Append(@, x.tok), !.tok = NULL]
  PROVE  /\ y \in Locals /\ y.tok = NULL /\ y.found = Append(x.found, x.tok) /\ ~y.freedTwice
         /\ y.allocated = x.allocated /\ y.inside_quotes = x.inside_quotes
<1>1. Append(x.found, x.tok) \in Seq(Texts)
  BY AppendProperties DEF Locals
<1>2. y \in Locals
  BY <1>1 DEF Locals
<1>3. y.tok = NULL /\ y.found = Append(x.found, x.tok) /\ y.allocated = x.allocated
  BY DEF Locals
<1>4. y.freedTwice = x.freedTwice /\ y.inside_quotes = x.inside_quotes
  BY Zenon DEF Locals
<1>5. ~y.freedTwice
  BY <1>4, Zenon
<1> QED
  BY <1>2, <1>3, <1>4, <1>5, Zenon

LEMMA LastStep ==
  ASSUME NEW x \in Locals, x.tok # NULL, NEW prev, ~x.freedTwice,
         NEW y, y = Scan(x, prev, NUL, TRUE)
  PROVE  /\ y \in Locals /\ y.tok = NULL /\ y.found = Append(x.found, x.tok) /\ ~y.freedTwice
         /\ y.allocated = x.allocated /\ y.inside_quotes = x.inside_quotes
<1>1. Scan(x, prev, NUL, TRUE) = [x EXCEPT !.found = Append(@, x.tok), !.tok = NULL]
  BY Characters DEF Scan, Locals
<1> QED
  BY <1>1, EndStep, Zenon

LEMMA BlankStep ==
  ASSUME NEW x \in Locals, x.tok # NULL, NEW prev, prev # Escape, ~x.inside_quotes, ~x.freedTwice,
         NEW y, y = Scan(x, prev, Blank, FALSE)
  PROVE  /\ y \in Locals /\ y.tok = NULL /\ y.found = Append(x.found, x.tok) /\ ~y.freedTwice
         /\ y.allocated = x.allocated /\ y.inside_quotes = x.inside_quotes
<1>1. Scan(x, prev, Blank, FALSE) = [x EXCEPT !.found = Append(@, x.tok), !.tok = NULL]
  BY Characters DEF Scan, Locals
<1> QED
  BY <1>1, EndStep, Zenon

(* Whatever the character is, the locals keep their types. *)
LEMMA ScanType ==
  ASSUME NEW x \in Locals, NEW prev, NEW char \in Chars, NEW last \in BOOLEAN,
         NEW y, y = Scan(x, prev, char, last)
  PROVE  y \in Locals
<1>1. /\ x.inside_quotes \in BOOLEAN /\ x.tok \in Texts \cup {NULL} /\ x.allocated \in Nat
      /\ x.found \in Seq(Texts) /\ x.freedTwice \in BOOLEAN
  BY DEF Locals
<1>2. Begun(x) \in Texts /\ Append(Begun(x), char) \in Texts
  BY GrownOK, AppendProperties DEF Texts
<1>3. PICK i : i = IF char = Quote /\ prev # Escape THEN ~x.inside_quotes ELSE x.inside_quotes
  OBVIOUS
<1>4. i \in Flags
  BY <1>1, <1>3 DEF Flags
<1>5. PICK f : f = (x.freedTwice \/ (ReallocZeroFrees /\ x.tok = <<>> /\ Grown(x) = 0))
  OBVIOUS
<1>6. f \in Flags
  BY <1>5 DEF Flags
<1>7. \/ x.tok # NULL /\ y = Ended(x, i, Append(x.found, x.tok))
      \/ y = Grew(x, i, Begun(x), f)
      \/ y = Grew(x, i, Append(Begun(x), char), f)
  BY <1>3, <1>5, Zenon DEF Scan, Grown, Begun, Ended, Grew
<1>8. CASE x.tok # NULL /\ y = Ended(x, i, Append(x.found, x.tok))
  <2>1. PICK l : l = Append(x.found, x.tok)
    OBVIOUS
  <2>2. l \in Seq(Texts)
    BY <1>1, <1>8, <2>1, AppendProperties
  <2>3. y = Ended(x, i, l)
    BY <1>8, <2>1, Zenon
  <2> QED
    BY ONLY x \in Locals, <1>4, <2>2, <2>3, Ends
<1>9. ASSUME NEW t \in Texts, y = Grew(x, i, t, f)
      PROVE  y \in Locals
  BY ONLY x \in Locals, <1>4, <1>6, <1>9, Grows
<1> QED
  BY <1>2, <1>7, <1>8, <1>9, Zenon

-----------------------------------------------------------------------------
(* The loop along a text: what it has behind it when it has passed it *)

Prev(t) == IF t = <<>> THEN NUL ELSE t[Len(t)]
CharAt(t, i) == IF i \in 1..Len(t) THEN t[i] ELSE NUL
Scanned(t, y) ==
  \E at \in [0..Len(t) -> Locals] :
    /\ at[0] = NoToken
    /\ at[Len(t)] = y
    /\ \A i \in 1..Len(t) : at[i] = Scan(at[i - 1], CharAt(t, i - 1), CharAt(t, i), FALSE)

LEMMA ScannedEmpty == Scanned(<<>>, NoToken)
<1> DEFINE at == [i \in 0..0 |-> NoToken]
<1>1. at \in [0..0 -> Locals] /\ at[0] = NoToken /\ Len(<<>>) = 0 /\ 1..0 = {}
  BY NoTokenOK
<1> HIDE DEF at
<1> QED
  BY <1>1 DEF Scanned

LEMMA ScannedAppend ==
  ASSUME NEW t \in Texts, NEW c \in Chars, NEW y, Scanned(t, y),
         NEW z \in Locals, z = Scan(y, Prev(t), c, FALSE)
  PROVE  Scanned(Append(t, c), z)
<1> DEFINE n == Len(t)
           u == Append(t, c)
<1>1. /\ n \in Nat /\ u \in Texts /\ Len(u) = n + 1 /\ u[n + 1] = c
      /\ \A i \in 1..n : u[i] = t[i]
  BY AppendProperties DEF Texts
<1>2. PICK at \in [0..n -> Locals] :
        /\ at[0] = NoToken
        /\ at[n] = y
        /\ \A i \in 1..n : at[i] = Scan(at[i - 1], CharAt(t, i - 1), CharAt(t, i), FALSE)
  BY DEF Scanned
<1> DEFINE bt == [i \in 0..(n + 1) |-> IF i \in 0..n THEN at[i] ELSE z]
<1>3. \A i \in 0..n : CharAt(u, i) = CharAt(t, i)
  BY <1>1 DEF CharAt
<1>4. CharAt(u, n) = Prev(t) /\ CharAt(u, n + 1) = c
  <2>1. t = <<>> <=> n = 0
    BY EmptySeq DEF Texts
  <2> QED
    BY <1>1, <2>1 DEF CharAt, Prev
<1>5. /\ bt \in [0..(n + 1) -> Locals] /\ bt[n + 1] = z
      /\ \A i \in 0..n : bt[i] = at[i]
  BY <1>1, <1>2
<1> HIDE DEF bt
<1>6. \A i \in 1..(n + 1) : bt[i] = Scan(bt[i - 1], CharAt(u, i - 1), CharAt(u, i), FALSE)
  <2> SUFFICES ASSUME NEW i \in 1..(n + 1)
               PROVE  bt[i] = Scan(bt[i - 1], CharAt(u, i - 1), CharAt(u, i), FALSE)
    OBVIOUS
  <2>1. CASE i \in 1..n
    <3>1. i \in 0..n /\ i - 1 \in 0..n
      BY <1>1, <2>1
    <3>2. /\ bt[i] = at[i] /\ bt[i - 1] = at[i - 1]
          /\ CharAt(u, i) = CharAt(t, i) /\ CharAt(u, i - 1) = CharAt(t, i - 1)
      BY <1>3, <1>5, <3>1
    <3>3. at[i] = Scan(at[i - 1], CharAt(t, i - 1), CharAt(t, i), FALSE)
      BY <1>2, <2>1
    <3> QED
      BY <3>2, <3>3, Zenon
  <2>2. CASE i = n + 1
    <3>1. i - 1 = n /\ n \in 0..n
      BY <1>1, <2>2
    <3>2. bt[i] = z /\ bt[i - 1] = y /\ CharAt(u, i) = c /\ CharAt(u, i - 1) = Prev(t)
      BY <1>2, <1>4, <1>5, <2>2, <3>1
    <3> QED
      BY <3>2, Zenon
  <2> QED
    BY <1>1, <2>1, <2>2
<1>7. bt[0] = NoToken
  BY <1>1, <1>2, <1>5
<1>8. /\ bt \in [0..Len(u) -> Locals] /\ bt[0] = NoToken /\ bt[Len(u)] = z
      /\ \A i \in 1..Len(u) : bt[i] = Scan(bt[i - 1], CharAt(u, i - 1), CharAt(u, i), FALSE)
  <2> HIDE DEF u
  <2>1. Len(u) = n + 1
    BY <1>1
  <2> QED
    BY <2>1, <1>5, <1>6, <1>7, Zenon
<1>9. \A v : v = u => Scanned(v, z)
  <2> HIDE DEF u
  <2> QED
    BY <1>8, Zenon DEF Scanned
<1> QED
  BY <1>9, Zenon

LEMMA OnlyOne ==
  ASSUME NEW v, NEW p, NEW c, NEW l
  PROVE  (CHOOSE y \in {Scan(x, p, c, l) : x \in {v}} : TRUE) = Scan(v, p, c, l)
<1>1. \A y : y \in {Scan(x, p, c, l) : x \in {v}} <=> y = Scan(v, p, c, l)
  BY Zenon
<1> QED
  BY <1>1, Zenon

(* The last round is the one at the end of the string. *)
LEMMA ScannedEnd ==
  ASSUME NEW line, Strip(line) \in Texts, Strip(line) # <<>>,
         NEW y \in Locals, Scanned(Strip(line), y)
  PROVE  ExtractParams(line) = Scan(y, Prev(Strip(line)), NUL, TRUE)
<1> DEFINE s == Strip(line)
           n == Len(s)
           Char(i) == IF i \in 1..n THEN s[i] ELSE NUL
           F(c) == [i \in 0..(n + 1) |->
                      IF i = 0 THEN NoToken
                      ELSE CHOOSE z \in {Scan(x, Char(i - 1), Char(i), i > n) : x \in {c[i - 1]}} : TRUE]
           d == CHOOSE c : c = F(c)
<1>1. n \in Nat /\ n # 0 /\ s # <<>>
  BY EmptySeq DEF Texts
<1>2. ExtractParams(line) = d[n + 1]
  BY <1>1, Zenon DEF ExtractParams
<1> HIDE DEF s
<1>3. PICK at \in [0..n -> Locals] :
        /\ at[0] = NoToken
        /\ at[n] = y
        /\ \A i \in 1..n : at[i] = Scan(at[i - 1], CharAt(s, i - 1), CharAt(s, i), FALSE)
  BY DEF Scanned, s
<1>4. PICK z : z = Scan(y, Prev(s), NUL, TRUE)
  OBVIOUS
<1> DEFINE g == [i \in 0..(n + 1) |-> IF i \in 0..n THEN at[i] ELSE z]
<1>5. g[0] = NoToken /\ g[n + 1] = z /\ \A i \in 0..n : g[i] = at[i]
  BY <1>1, <1>3
<1>6. \A i \in 1..(n + 1) : g[i] = Scan(g[i - 1], Char(i - 1), Char(i), i > n)
  <2> SUFFICES ASSUME NEW i \in 1..(n + 1)
               PROVE  g[i] = Scan(g[i - 1], Char(i - 1), Char(i), i > n)
    OBVIOUS
  <2> HIDE DEF g
  <2>1. CASE i \in 1..n
    <3>1. i \in 0..n /\ i - 1 \in 0..n /\ (i > n) = FALSE
      BY <1>1, <2>1
    <3>2. g[i] = at[i] /\ g[i - 1] = at[i - 1]
      BY <1>5, <3>1
    <3>3. at[i] = Scan(at[i - 1], CharAt(s, i - 1), CharAt(s, i), FALSE)
      BY <1>3, <2>1
    <3> QED
      BY <3>1, <3>2, <3>3, Zenon DEF CharAt
  <2>2. CASE i = n + 1
    <3>1. i - 1 = n /\ n \in 0..n /\ n \in 1..n /\ (i > n) = TRUE /\ i \notin 1..n
      BY <1>1, <2>2
    <3>2. g[i] = z /\ g[i - 1] = y
      BY <1>3, <1>5, <2>2, <3>1
    <3>3. Char(i) = NUL
      BY <3>1, Zenon
    <3>4. Char(i - 1) = Prev(s)
      BY <1>1, <3>1, Zenon DEF Prev
    <3> HIDE DEF Char
    <3> QED
      BY <1>4, <3>1, <3>2, <3>3, <3>4, Zenon
  <2> QED
    BY <1>1, <2>1, <2>2
<1>7. g = F(g)
  <2>1. \A i \in 0..(n + 1) : i # 0 =>
          g[i] = CHOOSE w \in {Scan(x, Char(i - 1), Char(i), i > n) : x \in {g[i - 1]}} : TRUE
    <3> SUFFICES ASSUME NEW i \in 0..(n + 1), i # 0
                 PROVE  g[i] = CHOOSE w \in {Scan(x, Char(i - 1), Char(i), i > n) : x \in {g[i - 1]}} : TRUE
      OBVIOUS
    <3> HIDE DEF g, Char
    <3>1. i \in 1..(n + 1)
      BY <1>1
    <3> QED
      BY <1>6, <3>1, OnlyOne, ZenonT(60)
  <2>2. \A i \in 0..(n + 1) : g[i] =
          IF i = 0 THEN NoToken
          ELSE CHOOSE w \in {Scan(x, Char(i - 1), Char(i), i > n) : x \in {g[i - 1]}} : TRUE
    <3> HIDE DEF g, Char
    <3> QED
      BY <1>5, <2>1, Zenon
  <2>3. g = [i \in 0..(n + 1) |-> g[i]]
    <3>1. \A i \in 0..(n + 1) : g[i] = IF i \in 0..n THEN at[i] ELSE z
      OBVIOUS
    <3> QED
      BY <3>1, Zenon
  <2> HIDE DEF g, Char
  <2> QED
    BY <2>2, <2>3, Zenon
<1>8. d = F(d)
  <2> HIDE DEF F, g
  <2> QED
    BY <1>7, Zenon
<1> HIDE DEF d
<1>9. d[0] = NoToken /\ \A i \in 1..(n + 1) : d[i] = Scan(d[i - 1], Char(i - 1), Char(i), i > n)
  <2>1. 0 \in 0..(n + 1) /\ \A i \in 1..(n + 1) : i \in 0..(n + 1) /\ i # 0
    BY <1>1
  <2>2. \A i \in 0..(n + 1) : d[i] =
          IF i = 0 THEN NoToken
          ELSE CHOOSE w \in {Scan(x, Char(i - 1), Char(i), i > n) : x \in {d[i - 1]}} : TRUE
    <3> HIDE DEF Char
    <3> QED
      BY <1>8, Zenon
  <2> HIDE DEF Char
  <2>3. d[0] = NoToken
    BY <2>1, <2>2, Zenon
  <2>4. ASSUME NEW i \in 1..(n + 1) PROVE d[i] = Scan(d[i - 1], Char(i - 1), Char(i), i > n)
    <3>1. d[i] = CHOOSE w \in {Scan(x, Char(i - 1), Char(i), i > n) : x \in {d[i - 1]}} : TRUE
      BY <2>1, <2>2, Zenon
    <3> QED
      BY <3>1, OnlyOne, Zenon
  <2> QED
    BY <2>3, <2>4, Zenon
<1> DEFINE T == {i \in 0..(n + 1) : d[i] = g[i]}
<1> HIDE DEF g, Char
<1>10. 0 \in T
  BY <1>1, <1>5, <1>9
<1>11. ASSUME NEW i \in 0..n, i \in T PROVE i + 1 \in T
  <2>1. i + 1 \in 1..(n + 1) /\ i + 1 \in 0..(n + 1) /\ (i + 1) - 1 = i
    BY <1>1
  <2>2. d[i] = g[i]
    BY <1>11
  <2>3. d[i + 1] = Scan(d[i], Char(i), Char(i + 1), i + 1 > n)
    BY <1>9, <2>1, Zenon
  <2>4. g[i + 1] = Scan(g[i], Char(i), Char(i + 1), i + 1 > n)
    BY <1>6, <2>1, Zenon
  <2> QED
    BY <2>1, <2>2, <2>3, <2>4, Zenon
<1>12. \A i \in 0..(n + 1) : i \in T
  <2>1. PICK m : m = n + 1
    OBVIOUS
  <2>2. m \in Nat /\ \A i \in 0..(m - 1) : i \in T => i + 1 \in T
    BY <1>1, <1>11, <2>1
  <2> HIDE DEF T
  <2>3. \A i \in 0..m : i \in T
    BY ONLY <1>10, <2>2, Induct
  <2> QED
    BY <2>1, <2>3
<1>13. d[n + 1] = z
  BY <1>1, <1>5, <1>12
<1> QED
  BY <1>2, <1>4, <1>13, Zenon DEF s

(* The first and the last of some positions. *)
LEMMA MinMax ==
  ASSUME NEW n \in Nat, NEW M, M \subseteq 1..n, M # {}
  PROVE  /\ Min(M) \in M /\ \A i \in M : Min(M) <= i
         /\ Max(M) \in M /\ \A i \in M : i <= Max(M)
<1>1. \E m \in M : \A i \in M : m <= i
  BY Least
<1>2. \E m \in M : \A i \in M : m >= i
  <2> DEFINE D == {d \in 0..n : n - d \in M}
  <2>1. D \subseteq Nat /\ D # {}
    <3>1. PICK m \in M : TRUE
      OBVIOUS
    <3>2. m \in 1..n /\ n - (n - m) = m /\ n - m \in 0..n
      OBVIOUS
    <3>3. n - m \in D
      BY <3>2
    <3> HIDE DEF D
    <3>4. D # {}
      BY <3>3
    <3> QED
      BY <3>4 DEF D
  <2>2. PICK d \in D : \A c \in D : d <= c
    <3> HIDE DEF D
    <3> QED
      BY <2>1, Least
  <2>3. n - d \in M
    OBVIOUS
  <2>4. ASSUME NEW i \in M PROVE n - d >= i
    <3>1. n - i \in D
      OBVIOUS
    <3>2. d <= n - i
      BY <2>2, <3>1
    <3> QED
      BY <3>2
  <2> QED
    BY <2>3, <2>4
<1> QED
  BY <1>1, <1>2 DEF Min, Max

LEMMA SubSeqGrows ==
  ASSUME NEW t \in Texts, NEW i \in 0..(Len(t) - 1), NEW m \in 1..(i + 1)
  PROVE  /\ SubSeq(t, m, i) \in Texts /\ Len(SubSeq(t, m, i)) = i + 1 - m
         /\ SubSeq(t, m, i + 1) = Append(SubSeq(t, m, i), t[i + 1])
<1>1. /\ Len(t) \in Nat /\ i \in Int /\ i + 1 \in Int /\ m \in Int /\ m <= i + 1 /\ m >= 1
      /\ \A k \in m..i : t[k] \in Chars
      /\ \A k \in m..(i + 1) : t[k] \in Chars
  BY ElementOfSeq DEF Texts
<1> DEFINE u == SubSeq(t, m, i)
           v == SubSeq(t, m, i + 1)
<1>2. u \in Seq(Chars) /\ Len(u) = i + 1 - m /\ \A k \in 1..(i + 1 - m) : u[k] = t[m + k - 1]
  BY <1>1, SubSeqProperties
<1>3. v \in Seq(Chars) /\ Len(v) = i + 2 - m /\ \A k \in 1..(i + 2 - m) : v[k] = t[m + k - 1]
  BY <1>1, SubSeqProperties
<1> HIDE DEF u, v
<1>4. PICK w : w = Append(u, t[i + 1])
  OBVIOUS
<1>5. /\ w \in Seq(Chars) /\ Len(w) = i + 2 - m /\ w[i + 2 - m] = t[i + 1]
      /\ \A k \in 1..(i + 1 - m) : w[k] = u[k]
  BY <1>1, <1>2, <1>4, AppendProperties
<1>6. ASSUME NEW k \in 1..(i + 2 - m) PROVE v[k] = w[k]
  <2>1. CASE k = i + 2 - m
    <3>1. m + k - 1 = i + 1
      BY <1>1, <2>1
    <3> QED
      BY <1>3, <1>5, <2>1, <3>1
  <2>2. CASE k # i + 2 - m
    <3>1. k \in 1..(i + 1 - m)
      BY <1>1, <2>2
    <3> QED
      BY <1>2, <1>3, <1>5, <3>1
  <2> QED
    BY <2>1, <2>2
<1>7. v = w
  BY <1>3, <1>5, <1>6, SeqEqual
<1> QED
  BY <1>2, <1>4, <1>7 DEF u, v, Texts

LEMMA SubSeqAppend ==
  ASSUME NEW t \in Texts, NEW i \in 0..(Len(t) - 1)
  PROVE  /\ SubSeq(t, 1, i) \in Texts /\ Len(SubSeq(t, 1, i)) = i
         /\ SubSeq(t, 1, i + 1) = Append(SubSeq(t, 1, i), t[i + 1])
<1>1. 1 \in 1..(i + 1) /\ i + 1 - 1 = i
  OBVIOUS
<1> QED
  BY <1>1, SubSeqGrows

(* Every text is passed somehow. *)
LEMMA ScannedAny ==
  ASSUME NEW t \in Texts
  PROVE  \E y \in Locals : Scanned(t, y)
<1> DEFINE n == Len(t)
           Passed(i) == \E y \in Locals : Scanned(SubSeq(t, 1, i), y)
           T == {i \in 0..n : Passed(i)}
<1>1. n \in Nat /\ \A i \in 1..n : t[i] \in Chars
  BY ElementOfSeq DEF Texts
<1>2. 0 \in T
  <2>1. SubSeq(t, 1, 0) = <<>>
    BY SubSeqEmpty
  <2>2. Scanned(SubSeq(t, 1, 0), NoToken)
    BY <2>1, ScannedEmpty, Zenon
  <2>3. Passed(0)
    BY <2>2, NoTokenOK, Zenon
  <2> HIDE DEF Passed
  <2> QED
    BY <1>1, <2>3
<1>3. ASSUME NEW i \in 0..(n - 1), i \in T PROVE i + 1 \in T
  <2>1. PICK y \in Locals : Scanned(SubSeq(t, 1, i), y)
    <3>1. Passed(i)
      BY <1>3, Zenon
    <3> QED
      BY <3>1, Zenon
  <2>2. /\ SubSeq(t, 1, i + 1) = Append(SubSeq(t, 1, i), t[i + 1])
        /\ SubSeq(t, 1, i) \in Texts /\ t[i + 1] \in Chars
    BY <1>1, SubSeqAppend
  <2>3. PICK z : z = Scan(y, Prev(SubSeq(t, 1, i)), t[i + 1], FALSE)
    OBVIOUS
  <2>4. z \in Locals
    BY <2>2, <2>3, ScanType, Zenon
  <2>5. Scanned(Append(SubSeq(t, 1, i), t[i + 1]), z)
    BY <2>1, <2>2, <2>3, <2>4, ScannedAppend, Zenon
  <2>6. Scanned(SubSeq(t, 1, i + 1), z)
    BY <2>2, <2>5, Zenon
  <2>7. Passed(i + 1)
    BY <2>4, <2>6, Zenon
  <2> HIDE DEF Passed
  <2> QED
    BY <1>1, <2>7
<1>4. \A i \in 0..n : i \in T
  <2>1. PICK m : m = n
    OBVIOUS
  <2> HIDE DEF T
  <2> QED
    BY <1>1, <1>2, <1>3, <2>1, Induct
<1>5. SubSeq(t, 1, n) = t
  BY SubSeqFull DEF Texts
<1>6. n \in T
  BY <1>1, <1>4
<1>7. Passed(n)
  BY <1>6, Zenon
<1> QED
  BY <1>5, <1>7, Zenon

LEMMA StripType ==
  ASSUME NEW t \in Texts
  PROVE  Strip(t) \in Texts
<1> DEFINE marks == {i \in DOMAIN t : t[i] \notin Space}
<1>1. CASE marks = {}
  BY <1>1 DEF Strip, Texts
<1>2. CASE marks # {}
  <2> HIDE DEF marks
  <2>1. ASSUME NEW m \in DOMAIN t, NEW k \in DOMAIN t PROVE SubSeq(t, m, k) \in Texts
    BY SubSeqProperties, ElementOfSeq DEF Texts
  <2>2. Min(marks) \in marks /\ Max(marks) \in marks
    BY <1>2, MinMax, LenProperties DEF marks, Texts
  <2> QED
    BY <1>2, <2>1, <2>2, Zenon DEF Strip, marks
<1> QED
  BY <1>1, <1>2

LEMMA StripNothing ==
  ASSUME NEW t \in Texts, t # <<>>, t[1] \notin Space, t[Len(t)] \notin Space
  PROVE  Strip(t) = t
<1> DEFINE marks == {i \in DOMAIN t : t[i] \notin Space}
<1>1. Len(t) \in Nat /\ Len(t) >= 1 /\ DOMAIN t = 1..Len(t)
  BY EmptySeq, LenProperties DEF Texts
<1>2. 1 \in marks /\ Len(t) \in marks /\ marks \subseteq 1..Len(t) /\ marks # {}
  BY <1>1
<1>3. Strip(t) = SubSeq(t, Min(marks), Max(marks))
  BY <1>2, Zenon DEF Strip
<1> HIDE DEF marks
<1>4. Min(marks) = 1 /\ Max(marks) = Len(t)
  <2>1. PICK n, a, b : n = Len(t) /\ a = Min(marks) /\ b = Max(marks)
    OBVIOUS
  <2>2. n \in Nat /\ marks \subseteq 1..n
    BY <1>1, <1>2, <2>1
  <2>3. /\ Min(marks) \in marks /\ \A i \in marks : Min(marks) <= i
        /\ Max(marks) \in marks /\ \A i \in marks : i <= Max(marks)
    BY ONLY <1>2, <2>2, MinMax
  <2>4. a \in 1..n /\ b \in 1..n /\ a <= 1 /\ n <= b
    BY <1>2, <2>1, <2>2, <2>3
  <2> QED
    BY <2>1, <2>2, <2>4
<1> QED
  BY <1>3, <1>4, SubSeqFull DEF Texts

(* The command made of the tokens. *)
LEMMA CommandOf ==
  ASSUME NEW line, NEW f \in Seq(Texts), f = ExtractParams(line).found
  PROVE  /\ CommandNew(line).name # NULL <=> f # <<>>
         /\ f # <<>> => <<CommandNew(line).name>> \o CommandNew(line).params = f
<1>1. CommandNew(line).name = IF f = <<>> THEN NULL ELSE f[1]
  BY Zenon DEF CommandNew
<1>2. CommandNew(line).params = IF f = <<>> THEN <<>> ELSE Tail(f)
  BY Zenon DEF CommandNew
<1>3. ASSUME f # <<>>
      PROVE  f[1] \in Texts /\ f[1] # NULL /\ <<f[1]>> \o Tail(f) = f
  <2>1. Len(f) \in Nat /\ Len(f) # 0 /\ f[1] \in Texts
    BY <1>3, EmptySeq, ElementOfSeq
  <2>2. Tail(f) \in Seq(Texts) /\ Len(Tail(f)) = Len(f) - 1 /\ \A i \in 1..Len(Tail(f)) : Tail(f)[i] = f[i + 1]
    BY <1>3, HeadTailProperties
  <2>3. <<f[1]>> \in Seq(Texts) /\ Len(<<f[1]>>) = 1 /\ <<f[1]>>[1] = f[1]
    BY <2>1
  <2> DEFINE g == <<f[1]>> \o Tail(f)
  <2>4. /\ g \in Seq(Texts) /\ Len(g) = Len(f)
        /\ \A i \in 1..Len(f) : g[i] = IF i <= 1 THEN <<f[1]>>[i] ELSE Tail(f)[i - 1]
    <3>1. PICK a, b : a = <<f[1]>> /\ b = Tail(f)
      OBVIOUS
    <3>2. /\ a \o b \in Seq(Texts) /\ Len(a \o b) = Len(a) + Len(b)
          /\ \A i \in 1..(Len(a) + Len(b)) : (a \o b)[i] = IF i <= Len(a) THEN a[i] ELSE b[i - Len(a)]
      BY <2>2, <2>3, <3>1, ConcatProperties
    <3>3. Len(a) = 1 /\ Len(b) = Len(f) - 1 /\ g = a \o b
      BY <2>2, <2>3, <3>1
    <3> HIDE DEF g
    <3> QED
      BY <2>1, <3>1, <3>2, <3>3
  <2> HIDE DEF g
  <2>5. \A i \in 1..Len(f) : g[i] = f[i]
    BY <2>1, <2>2, <2>3, <2>4
  <2>6. g = f
    BY <2>4, <2>5, SeqEqual
  <2> QED
    BY <2>1, <2>6, Characters DEF g
<1> QED
  BY <1>1, <1>2, <1>3

(* Whatever the line is, a command that has a name is a list of texts. *)
LEMMA CommandType ==
  ASSUME NEW line \in Texts, CommandNew(line).name # NULL
  PROVE  /\ <<CommandNew(line).name>> \o CommandNew(line).params \in Seq(Texts)
         /\ <<CommandNew(line).name>> \o CommandNew(line).params # NULL
<1>1. ExtractParams(line) \in Locals
  <2>1. Strip(line) \in Texts
    BY StripType
  <2>2. CASE Strip(line) = <<>>
    <3>1. Len(Strip(line)) = 0
      BY <2>2
    <3>2. ExtractParams(line) = NoToken
      BY <3>1, Zenon DEF ExtractParams
    <3> QED
      BY <3>2, NoTokenOK
  <2>3. CASE Strip(line) # <<>>
    <3>1. PICK y \in Locals : Scanned(Strip(line), y)
      BY <2>1, ScannedAny
    <3>2. ExtractParams(line) = Scan(y, Prev(Strip(line)), NUL, TRUE)
      BY <2>1, <2>3, <3>1, ScannedEnd
    <3> QED
      BY <3>2, ScanType, Characters, Zenon
  <2> QED
    BY <2>2, <2>3
<1>2. PICK f : f = ExtractParams(line).found
  OBVIOUS
<1>3. f \in Seq(Texts)
  BY <1>1, <1>2 DEF Locals
<1> QED
  BY <1>2, <1>3, CommandOf, Characters

-----------------------------------------------------------------------------
(* What is found along a text, k being the token that is begun, q = 1       *)
(* between quotes.                                                         *)

Reading(t, f, k, q) ==
  /\ t \in Texts /\ Prev(t) # Escape /\ f \in Seq(Texts) /\ k \in Texts \cup {NULL}
  /\ \E y \in Locals : /\ Scanned(t, y)
                       /\ y.found = f /\ y.tok = k /\ ~y.freedTwice
                       /\ y.inside_quotes <=> q = 1
                       /\ Len(t) >= 2 => y.allocated > 0

LEMMA Appended ==
  ASSUME NEW t \in Texts, NEW c \in Chars
  PROVE  /\ Append(t, c) \in Texts /\ Append(t, c) # <<>> /\ Len(Append(t, c)) = Len(t) + 1
         /\ Prev(Append(t, c)) = c /\ Len(t) \in Nat
<1> DEFINE u == Append(t, c)
<1>1. u \in Seq(Chars) /\ Len(u) = Len(t) + 1 /\ u[Len(t) + 1] = c /\ Len(t) \in Nat
  BY AppendProperties DEF Texts
<1>2. u # <<>>
  BY <1>1, EmptySeq
<1>3. Prev(u) = c
  BY <1>1, <1>2 DEF Prev
<1> QED
  BY <1>1, <1>2, <1>3 DEF Texts

LEMMA ReadNothing == Reading(<<>>, <<>>, NULL, 0)
<1>1. <<>> \in Texts /\ Prev(<<>>) = NUL /\ Len(<<>>) = 0
  BY DEF Texts, Prev
<1>2. ~(0 = 1) /\ ~(Len(<<>>) >= 2) /\ <<>> \in Seq(Texts)
  BY <1>1
<1> QED
  BY <1>1, <1>2, NoTokenOK, ScannedEmpty, Characters, Zenon DEF Reading

(* A character is added to the token. *)
LEMMA ReadChar ==
  ASSUME NEW t, NEW f, NEW k, NEW q, Reading(t, f, k, q),
         \/ Len(t) >= 2
         \/ t = <<>> /\ k = NULL
         \/ k # NULL /\ k # <<>>,
         NEW c \in Chars, c \notin {Escape, Quote}, c = Blank => q = 1
  PROVE  Reading(Append(t, c), f, Append(IF k = NULL THEN <<>> ELSE k, c), q)
<1>1. t \in Texts /\ f \in Seq(Texts) /\ k \in Texts \cup {NULL}
  BY Zenon DEF Reading
<1>2. PICK y \in Locals : /\ Scanned(t, y)
                          /\ y.found = f /\ y.tok = k /\ ~y.freedTwice
                          /\ y.inside_quotes <=> q = 1
                          /\ Len(t) >= 2 => y.allocated > 0
  BY Zenon DEF Reading
<1>3. /\ Append(t, c) \in Texts /\ Len(Append(t, c)) = Len(t) + 1
      /\ Prev(Append(t, c)) = c /\ Len(t) \in Nat
  BY <1>1, Appended
<1>4. y.tok = <<>> => y.allocated > 0
  <2>1. ASSUME y.tok = <<>> PROVE Len(t) >= 2
    BY <1>1, <1>2, <2>1, Characters DEF Texts
  <2> QED
    BY <1>2, <2>1, Zenon
<1>5. PICK z : z = Scan(y, Prev(t), c, FALSE)
  OBVIOUS
<1>6. c = Blank => Prev(t) = Escape \/ y.inside_quotes
  BY <1>2, Zenon
<1>7. /\ z \in Locals /\ z.tok = Append(Begun(y), c) /\ z.found = y.found /\ ~z.freedTwice
      /\ y.allocated > 0 \/ (y.tok # NULL /\ y.tok # <<>>) => z.allocated > 0
      /\ z.inside_quotes = y.inside_quotes
  <2>1. c \in {Escape, Quote} => Prev(t) = Escape
    OBVIOUS
  <2> QED
    BY ONLY y \in Locals, c \in Chars, <1>2, <1>4, <1>5, <1>6, <2>1, CharStep, ZenonT(60)
<1>8. Scanned(Append(t, c), z)
  BY <1>1, <1>2, <1>5, <1>7, ScannedAppend, Zenon
<1>9. Len(Append(t, c)) >= 2 => z.allocated > 0
  <2>1. Len(t) >= 2 \/ (k # NULL /\ k # <<>>) => z.allocated > 0
    BY <1>2, <1>7, Zenon
  <2>2. t = <<>> => Len(t) = 0
    BY EmptySeq
  <2> QED
    BY <1>3, <2>1, <2>2
<1>10. Begun(y) = IF k = NULL THEN <<>> ELSE k
  BY <1>2, Zenon DEF Begun
<1>11. Append(IF k = NULL THEN <<>> ELSE k, c) \in Texts
  BY <1>1, AppendProperties DEF Texts
<1>12. z.tok = Append(IF k = NULL THEN <<>> ELSE k, c) /\ z.found = f
  BY <1>2, <1>7, <1>10, Zenon
<1>13. z.inside_quotes <=> q = 1
  BY <1>2, <1>7, Zenon
<1>14. c # Escape
  OBVIOUS
<1> QED
  BY <1>1, <1>3, <1>7, <1>8, <1>9, <1>11, <1>12, <1>13, <1>14, Zenon DEF Reading

(* So is a blank or a quote behind an escape character. *)
LEMMA ReadEscaped ==
  ASSUME NEW t, NEW f, NEW k, NEW q, Reading(t, f, k, q), Len(t) >= 2, NEW c \in {Blank, Quote}
  PROVE  Reading(Append(Append(t, Escape), c), f, Append(IF k = NULL THEN <<>> ELSE k, c), q)
<1>1. t \in Texts /\ f \in Seq(Texts) /\ k \in Texts \cup {NULL} /\ Prev(t) # Escape
  BY Zenon DEF Reading
<1>2. PICK x \in Locals : /\ Scanned(t, x)
                          /\ x.found = f /\ x.tok = k /\ ~x.freedTwice
                          /\ x.inside_quotes <=> q = 1
                          /\ Len(t) >= 2 => x.allocated > 0
  BY Zenon DEF Reading
<1> DEFINE u == Append(t, Escape)
           v == Append(u, c)
<1>3. u \in Texts /\ Len(u) = Len(t) + 1 /\ Prev(u) = Escape /\ Len(t) \in Nat
  BY <1>1, Appended, Characters
<1>4. c \in Chars /\ c # Escape
  BY Characters
<1>5. v \in Texts /\ Len(v) = Len(u) + 1 /\ Prev(v) = c
  <2> HIDE DEF u
  <2> QED
    BY <1>3, <1>4, Appended
<1>6. PICK y : y = Scan(x, Prev(t), Escape, FALSE)
  OBVIOUS
<1>7. /\ y \in Locals /\ y.tok = Begun(x) /\ y.found = x.found /\ ~y.freedTwice
      /\ y.allocated > 0
      /\ y.inside_quotes = x.inside_quotes
  <2>2. x.tok = <<>> => x.allocated > 0
    BY <1>2, Zenon
  <2> QED
    BY <1>1, <1>2, <1>6, <2>2, EscapeStep, Zenon
<1>8. Scanned(u, y)
  BY <1>1, <1>2, <1>6, <1>7, ScannedAppend, Characters, Zenon
<1> HIDE DEF u
<1>9. PICK z : z = Scan(y, Prev(u), c, FALSE)
  OBVIOUS
<1>10. /\ z \in Locals /\ z.tok = Append(Begun(y), c) /\ z.found = y.found /\ ~z.freedTwice
       /\ z.allocated > 0
       /\ z.inside_quotes = y.inside_quotes
  <2>1. /\ c \in {Escape, Quote} => Prev(u) = Escape
        /\ c = Blank => Prev(u) = Escape \/ y.inside_quotes
        /\ y.tok = <<>> => y.allocated > 0
    BY <1>3, <1>7, Zenon
  <2>2. /\ z \in Locals /\ z.tok = Append(Begun(y), c) /\ z.found = y.found /\ ~z.freedTwice
        /\ y.allocated > 0 \/ (y.tok # NULL /\ y.tok # <<>>) => z.allocated > 0
        /\ z.inside_quotes = y.inside_quotes
    BY ONLY <1>4, <1>7, <1>9, <2>1, CharStep, Zenon
  <2> QED
    BY <1>7, <2>2, Zenon
<1>11. Scanned(v, z)
  BY <1>3, <1>4, <1>8, <1>9, <1>10, ScannedAppend, Zenon
<1>12. Begun(x) = IF k = NULL THEN <<>> ELSE k
  BY <1>2, Zenon DEF Begun
<1>13. (IF k = NULL THEN <<>> ELSE k) \in Texts
  BY <1>1 DEF Texts
<1>14. Begun(y) = Begun(x)
  BY <1>7, <1>12, <1>13, Characters DEF Begun
<1>15. Append(IF k = NULL THEN <<>> ELSE k, c) \in Texts
  BY <1>4, <1>13, AppendProperties DEF Texts
<1>16. z.tok = Append(IF k = NULL THEN <<>> ELSE k, c) /\ z.found = f
  BY <1>2, <1>7, <1>10, <1>12, <1>14, Zenon
<1>17. z.inside_quotes <=> q = 1
  BY <1>2, <1>7, <1>10, Zenon
<1> HIDE DEF v
<1>18. Reading(v, f, Append(IF k = NULL THEN <<>> ELSE k, c), q)
  BY <1>1, <1>4, <1>5, <1>10, <1>11, <1>15, <1>16, <1>17, Zenon DEF Reading
<1> QED
  BY <1>18 DEF u, v

(* A blank that is not between quotes ends a token. *)
LEMMA ReadBlank ==
  ASSUME NEW t, NEW f, NEW k, NEW q, Reading(t, f, k, q), Len(t) >= 2, k # NULL, q # 1
  PROVE  Reading(Append(t, Blank), Append(f, k), NULL, q)
<1>1. t \in Texts /\ f \in Seq(Texts) /\ k \in Texts /\ Prev(t) # Escape
  BY Zenon DEF Reading
<1>2. PICK y \in Locals : /\ Scanned(t, y)
                          /\ y.found = f /\ y.tok = k /\ ~y.freedTwice
                          /\ y.inside_quotes <=> q = 1
                          /\ Len(t) >= 2 => y.allocated > 0
  BY Zenon DEF Reading
<1>3. Append(t, Blank) \in Texts /\ Prev(Append(t, Blank)) = Blank
  BY <1>1, Appended, Characters
<1>4. PICK z : z = Scan(y, Prev(t), Blank, FALSE)
  OBVIOUS
<1>5. /\ z \in Locals /\ z.tok = NULL /\ z.found = Append(y.found, y.tok) /\ ~z.freedTwice
      /\ z.allocated = y.allocated /\ z.inside_quotes = y.inside_quotes
  <2>1. y.tok # NULL /\ ~y.inside_quotes
    BY <1>2, Zenon
  <2> QED
    BY <1>1, <1>2, <1>4, <2>1, BlankStep, Zenon
<1>6. Scanned(Append(t, Blank), z)
  BY <1>1, <1>2, <1>4, <1>5, ScannedAppend, Characters, Zenon
<1>7. Append(f, k) \in Seq(Texts)
  BY <1>1, AppendProperties
<1>8. z.inside_quotes <=> q = 1
  BY <1>2, <1>5, Zenon
<1>9. z.found = Append(f, k) /\ z.allocated > 0
  BY <1>2, <1>5, Zenon
<1> QED
  BY <1>3, <1>5, <1>6, <1>7, <1>8, <1>9, Characters, Zenon DEF Reading

(* A quote is left out. *)
LEMMA ReadQuote ==
  ASSUME NEW t, NEW f, NEW k, NEW q \in {0, 1}, Reading(t, f, k, q), Len(t) >= 2
  PROVE  Reading(Append(t, Quote), f, IF k = NULL THEN <<>> ELSE k, 1 - q)
<1>1. t \in Texts /\ f \in Seq(Texts) /\ k \in Texts \cup {NULL} /\ Prev(t) # Escape
  BY Zenon DEF Reading
<1>2. PICK x \in Locals : /\ Scanned(t, x)
                          /\ x.found = f /\ x.tok = k /\ ~x.freedTwice
                          /\ x.inside_quotes <=> q = 1
                          /\ Len(t) >= 2 => x.allocated > 0
  BY Zenon DEF Reading
<1>3. Append(t, Quote) \in Texts /\ Prev(Append(t, Quote)) = Quote
  BY <1>1, Appended, Characters
<1>4. PICK y : y = Scan(x, Prev(t), Quote, FALSE)
  OBVIOUS
<1>5. /\ y \in Locals /\ y.tok = Begun(x) /\ y.found = x.found /\ ~y.freedTwice
      /\ y.allocated > 0
      /\ y.inside_quotes <=> ~x.inside_quotes
  <2>2. x.tok = <<>> => x.allocated > 0
    BY <1>2, Zenon
  <2> QED
    BY <1>1, <1>2, <1>4, <2>2, QuoteStep, Zenon
<1>6. Scanned(Append(t, Quote), y)
  BY <1>1, <1>2, <1>4, <1>5, ScannedAppend, Characters, Zenon
<1>7. Begun(x) = IF k = NULL THEN <<>> ELSE k
  BY <1>2, Zenon DEF Begun
<1>8. (IF k = NULL THEN <<>> ELSE k) \in Texts
  BY <1>1 DEF Texts
<1>9. q = 1 <=> ~(1 - q = 1)
  OBVIOUS
<1>10. y.inside_quotes <=> 1 - q = 1
  BY <1>2, <1>5, <1>9, Zenon
<1>11. y.found = f /\ y.tok = IF k = NULL THEN <<>> ELSE k
  BY <1>2, <1>5, <1>7, Zenon
<1>12. \A w : w = (IF k = NULL THEN <<>> ELSE k) =>
         Reading(Append(t, Quote), f, w, 1 - q)
  BY <1>1, <1>3, <1>5, <1>6, <1>8, <1>10, <1>11, Characters, Zenon DEF Reading
<1> QED
  BY <1>12, Zenon

(* At the end of the string the last token ends, too. *)
LEMMA ReadEnd ==
  ASSUME NEW t, NEW f, NEW k, NEW q, Reading(t, f, k, q), k # NULL, t # <<>>,
         Strip(t) = t
  PROVE  /\ Parsed(t)
         /\ <<CommandNew(t).name>> \o CommandNew(t).params = Append(f, k)
         /\ CommandNew(t).name # NULL
<1>1. t \in Texts /\ f \in Seq(Texts) /\ k \in Texts
  BY Zenon DEF Reading
<1>2. PICK y \in Locals : Scanned(t, y) /\ y.found = f /\ y.tok = k /\ ~y.freedTwice
  BY Zenon DEF Reading
<1>3. PICK z : z = Scan(y, Prev(t), NUL, TRUE)
  OBVIOUS
<1>4. ExtractParams(t) = z
  BY <1>1, <1>2, <1>3, ScannedEnd, Zenon
<1>5. z.found = Append(y.found, y.tok) /\ ~z.freedTwice
  <2>1. y.tok # NULL
    BY <1>2, Zenon
  <2> QED
    BY <1>2, <1>3, <2>1, LastStep, Zenon
<1>6. Parsed(t)
  BY <1>4, <1>5, Zenon DEF Parsed
<1>7. PICK g : g = Append(f, k)
  OBVIOUS
<1>8. g \in Seq(Texts) /\ g # <<>> /\ g = ExtractParams(t).found
  <2>1. g \in Seq(Texts) /\ Len(g) = Len(f) + 1 /\ Len(f) \in Nat
    BY <1>1, <1>7, AppendProperties
  <2>2. g # <<>>
    BY <2>1, EmptySeq
  <2>3. g = ExtractParams(t).found
    BY <1>2, <1>4, <1>5, <1>7, Zenon
  <2> QED
    BY <2>1, <2>2, <2>3
<1> QED
  BY <1>6, <1>7, <1>8, CommandOf

-----------------------------------------------------------------------------
(* Arguments: what bituctl sends for them is read as what they were. *)

Escaped(c) == IF c \in {Blank, Quote} THEN <<Escape, c>> ELSE <<c>>

LEMMA EscapeAppend ==
  ASSUME NEW p \in Texts, NEW c \in Chars
  PROVE  /\ EscapeParam(p) \in Texts
         /\ EscapeParam(Append(p, c)) = EscapeParam(p) \o Escaped(c)
<1> DEFINE n == Len(p)
           u == Append(p, c)
           parts == [i \in DOMAIN p |-> Escaped(p[i])]
           more == [i \in DOMAIN u |-> Escaped(u[i])]
<1>1. n \in Nat /\ DOMAIN p = 1..n /\ \A i \in 1..n : p[i] \in Chars
  BY ElementOfSeq, LenProperties DEF Texts
<1>2. /\ u \in Seq(Chars) /\ DOMAIN u = 1..(n + 1) /\ u[n + 1] = c
      /\ \A i \in 1..n : u[i] = p[i]
  BY AppendProperties, LenProperties DEF Texts
<1>3. \A d \in Chars : Escaped(d) \in Seq(Chars)
  BY Characters DEF Escaped
<1>4. parts \in Seq(Seq(Chars)) /\ Len(parts) = n
  BY <1>1, <1>3
<1>5. more \in Seq(Seq(Chars)) /\ Len(more) = n + 1
  <2>1. \A i \in 1..(n + 1) : u[i] \in Chars
    BY <1>1, <1>2
  <2> HIDE DEF u
  <2> QED
    BY <1>1, <1>2, <1>3, <2>1
<1>6. more = Append(parts, Escaped(c))
  <2>1. /\ \A i \in 1..n : more[i] = Escaped(p[i]) /\ parts[i] = Escaped(p[i])
        /\ more[n + 1] = Escaped(c)
    <3> HIDE DEF u
    <3> QED
      BY <1>1, <1>2
  <2> HIDE DEF parts, more
  <2>2. PICK e, Q : e = Escaped(c) /\ Q = Seq(Chars)
    OBVIOUS
  <2>3. e \in Q /\ parts \in Seq(Q) /\ more \in Seq(Q)
    BY <1>3, <1>4, <1>5, <2>2
  <2>4. /\ Append(parts, e) \in Seq(Q) /\ Len(Append(parts, e)) = n + 1 /\ Append(parts, e)[n + 1] = e
        /\ \A i \in 1..n : Append(parts, e)[i] = parts[i]
    BY <1>4, <2>3, AppendProperties
  <2>5. \A i \in 1..(n + 1) : more[i] = Append(parts, e)[i]
    BY <1>1, <2>1, <2>2, <2>4
  <2>6. more = Append(parts, e)
    BY ONLY <1>1, <1>5, <2>3, <2>4, <2>5, SeqEqual
  <2> QED
    BY <2>2, <2>6
<1>7. EscapeParam(p) = FlattenSeq(parts) /\ EscapeParam(u) = FlattenSeq(more)
  BY Zenon DEF EscapeParam, Escaped
<1>8. /\ FlattenSeq(parts) \in Seq(Chars)
      /\ FlattenSeq(Append(parts, Escaped(c))) = FlattenSeq(parts) \o Escaped(c)
  <2> HIDE DEF parts
  <2>1. PICK e : e = Escaped(c)
    OBVIOUS
  <2>2. e \in Seq(Chars)
    BY <1>3, <2>1
  <2>3. /\ FlattenSeq(parts) \in Seq(Chars)
        /\ FlattenSeq(Append(parts, e)) = FlattenSeq(parts) \o e
    BY ONLY <1>4, <2>2, FlattenAppend
  <2> QED
    BY <2>1, <2>3
<1> QED
  BY <1>6, <1>7, <1>8, Zenon DEF Texts

LEMMA EscapeNothing == EscapeParam(<<>>) = <<>>
<1>1. [i \in DOMAIN <<>> |-> IF <<>>[i] \in {Blank, Quote} THEN <<Escape, <<>>[i]>> ELSE <<<<>>[i]>>] = <<>>
  OBVIOUS
<1> QED
  BY <1>1, FlattenEmpty, Zenon DEF EscapeParam

(* The line after m of the arguments. *)
LineUpto(args, m) ==
  args[1] \o FlattenSeq([i \in 1..(m - 1) |-> <<Blank>> \o EscapeParam(args[i + 1])])

LEMMA LineUptoNext ==
  ASSUME NEW args, args \in Seq(Texts), NEW m \in 1..(Len(args) - 1)
  PROVE  LineUpto(args, m + 1) = Append(LineUpto(args, m), Blank) \o EscapeParam(args[m + 1])
<1> DEFINE part(i) == <<Blank>> \o EscapeParam(args[i + 1])
           s == [i \in 1..(m - 1) |-> part(i)]
           t == [i \in 1..m |-> part(i)]
<1>1. Len(args) \in Nat /\ \A i \in 1..Len(args) : args[i] \in Texts
  BY ElementOfSeq
<1>2. \A i \in 1..(m + 1) : EscapeParam(args[i]) \in Texts /\ args[i] \in Texts
  BY <1>1, EscapeAppend, Characters
<1>3. <<Blank>> \in Seq(Chars)
  BY Characters
<1>4. \A i \in 1..m : part(i) \in Seq(Chars)
  <2> SUFFICES ASSUME NEW i \in 1..m PROVE part(i) \in Seq(Chars)
    OBVIOUS
  <2>1. EscapeParam(args[i + 1]) \in Seq(Chars)
    BY <1>2 DEF Texts
  <2> QED
    BY <1>3, <2>1, ConcatProperties
<1> HIDE DEF part
<1>5. s \in Seq(Seq(Chars)) /\ Len(s) = m - 1 /\ \A i \in 1..(m - 1) : s[i] = part(i)
  BY <1>4
<1>6. t \in Seq(Seq(Chars)) /\ Len(t) = m /\ \A i \in 1..m : t[i] = part(i)
  BY <1>4
<1>7. t = Append(s, part(m))
  <2> HIDE DEF s, t
  <2>1. PICK e, Q : e = part(m) /\ Q = Seq(Chars)
    OBVIOUS
  <2>2. e \in Q /\ s \in Seq(Q) /\ t \in Seq(Q)
    BY <1>4, <1>5, <1>6, <2>1
  <2>3. /\ Append(s, e) \in Seq(Q) /\ Len(Append(s, e)) = m /\ Append(s, e)[m] = e
        /\ \A i \in 1..(m - 1) : Append(s, e)[i] = s[i]
    BY <1>5, <2>2, AppendProperties
  <2>4. \A i \in 1..m : t[i] = Append(s, e)[i]
    BY <1>5, <1>6, <2>1, <2>3
  <2>5. t = Append(s, e)
    BY ONLY <1>6, <2>2, <2>3, <2>4, SeqEqual
  <2> QED
    BY <2>1, <2>5
<1>8. PICK a, f, b, e, w : /\ a = args[1] /\ f = FlattenSeq(s) /\ b = <<Blank>>
                           /\ e = EscapeParam(args[m + 1]) /\ w = part(m)
  OBVIOUS
<1>9. a \in Seq(Chars) /\ b \in Seq(Chars) /\ e \in Seq(Chars) /\ w = b \o e /\ w \in Seq(Chars)
  BY <1>2, <1>3, <1>4, <1>8 DEF Texts, part
<1>10. f \in Seq(Chars) /\ FlattenSeq(t) = f \o w
  <2> HIDE DEF s, t
  <2>1. FlattenSeq(s) \in Seq(Chars) /\ FlattenSeq(Append(s, w)) = FlattenSeq(s) \o w
    BY ONLY <1>5, <1>9, FlattenAppend
  <2> QED
    BY <1>7, <1>8, <2>1
<1>11. LineUpto(args, m) = a \o f
  BY <1>8, Zenon DEF LineUpto, part
<1>12. LineUpto(args, m + 1) = a \o FlattenSeq(t)
  <2>1. (m + 1) - 1 = m
    OBVIOUS
  <2> QED
    BY <1>8, <2>1, Zenon DEF LineUpto, part
<1>13. Append(a \o f, Blank) = (a \o f) \o b
  <2>1. a \o f \in Seq(Chars)
    BY ONLY <1>9, <1>10, ConcatProperties
  <2> QED
    BY <1>8, <2>1, AppendIsConcat, Characters
<1>14. a \o (f \o w) = ((a \o f) \o b) \o e
  <2>1. PICK y : y = a \o f
    OBVIOUS
  <2>2. a \in Seq(Chars) /\ b \in Seq(Chars) /\ e \in Seq(Chars)
    BY <1>9
  <2>3. f \in Seq(Chars) /\ w \in Seq(Chars)
    BY <1>9, <1>10
  <2>4. y \in Seq(Chars)
    BY <2>1, <2>2, <2>3, ConcatProperties
  <2>5. a \o (f \o w) = (a \o f) \o w
    <3>1. a \in Seq(Chars) /\ f \in Seq(Chars) /\ w \in Seq(Chars)
      BY <2>2, <2>3
    <3> QED
      BY ONLY <3>1, ConcatAssociative, SMTT(60)
  <2>6. y \o (b \o e) = (y \o b) \o e
    BY ONLY <2>2, <2>4, ConcatAssociative, SMTT(60)
  <2> QED
    BY <1>9, <2>1, <2>5, <2>6
<1> HIDE DEF t
<1> QED
  BY <1>8, <1>9, <1>10, <1>11, <1>12, <1>13, <1>14

(* A word at the beginning of a text is the token that is begun. *)
LEMMA ReadWord ==
  ASSUME NEW t, t \in Texts, NEW n \in 0..Len(t),
         \A i \in 1..n : t[i] \notin Space \cup {Quote, Escape}
  PROVE  \A i \in 0..n : Reading(SubSeq(t, 1, i), <<>>, IF i = 0 THEN NULL ELSE SubSeq(t, 1, i), 0)
<1> DEFINE Token(i) == IF i = 0 THEN NULL ELSE SubSeq(t, 1, i)
           Good(i) == Reading(SubSeq(t, 1, i), <<>>, Token(i), 0)
           T == {i \in 0..n : Good(i)}
<1>1. Len(t) \in Nat /\ n \in Nat /\ \A i \in 1..n : i \in 1..Len(t) /\ t[i] \in Chars
  BY ElementOfSeq DEF Texts
<1>2. 0 \in T
  <2>1. SubSeq(t, 1, 0) = <<>> /\ Token(0) = NULL
    BY SubSeqEmpty
  <2>2. Good(0)
    BY <2>1, ReadNothing, Zenon
  <2> HIDE DEF Good
  <2> QED
    BY <1>1, <2>2
<1>3. ASSUME NEW i \in 0..(n - 1), i \in T PROVE i + 1 \in T
  <2>1. Good(i)
    BY <1>3
  <2>2. /\ SubSeq(t, 1, i) \in Texts /\ Len(SubSeq(t, 1, i)) = i
        /\ SubSeq(t, 1, i + 1) = Append(SubSeq(t, 1, i), t[i + 1])
    <3>1. i \in 0..(Len(t) - 1)
      BY <1>1
    <3> QED
      BY <3>1, SubSeqAppend
  <2>3. PICK u, k, c : u = SubSeq(t, 1, i) /\ k = Token(i) /\ c = t[i + 1]
    OBVIOUS
  <2>4. c \in Chars /\ c \notin {Escape, Quote} /\ c # Blank
    <3>1. i + 1 \in 1..n
      BY <1>1
    <3> QED
      BY <1>1, <2>3, <3>1, Characters
  <2>5. Reading(u, <<>>, k, 0)
    BY <2>1, <2>3, Zenon
  <2>6. i # 0 => k = u /\ k # NULL /\ k # <<>>
    <3>1. i # 0 => u # <<>>
      BY <2>2, <2>3
    <3> QED
      BY <2>2, <2>3, <3>1, Characters
  <2>7. i = 0 => u = <<>> /\ k = NULL
    BY <2>2, <2>3, EmptySeq DEF Texts
  <2>8. Reading(Append(u, c), <<>>, Append(IF k = NULL THEN <<>> ELSE k, c), 0)
    <3>1. c = Blank => 0 = 1
      BY <2>4
    <3> QED
      BY <2>4, <2>5, <2>6, <2>7, <3>1, ReadChar, Zenon
  <2>9. (IF k = NULL THEN <<>> ELSE k) = u
    BY <2>6, <2>7
  <2>10. Token(i + 1) = Append(u, c) /\ SubSeq(t, 1, i + 1) = Append(u, c)
    <3>1. i + 1 # 0
      BY <1>1
    <3> QED
      BY <2>2, <2>3, <3>1, Zenon
  <2>11. Good(i + 1)
    BY <2>8, <2>9, <2>10, Zenon
  <2> HIDE DEF Good
  <2> QED
    BY <1>1, <2>11
<1>4. \A i \in 0..n : i \in T
  <2> HIDE DEF T
  <2> QED
    BY <1>1, <1>2, <1>3, Induct
<1> QED
  <2> HIDE DEF Good
  <2>1. \A i \in 0..n : Good(i)
    BY <1>4
  <2> QED
    BY <2>1, Zenon DEF Good

LEMMA AppendEscaped ==
  ASSUME NEW u \in Texts, NEW c \in Chars
  PROVE  u \o Escaped(c) = IF c \in {Blank, Quote} THEN Append(Append(u, Escape), c) ELSE Append(u, c)
<1>1. CASE c \in {Blank, Quote}
  <2>1. u \in Seq(Chars) /\ <<Escape, c>> \in Seq(Chars) /\ Escape \in Chars
    BY Characters DEF Texts
  <2> DEFINE v == u \o <<Escape, c>>
             w == Append(Append(u, Escape), c)
  <2>2. /\ v \in Seq(Chars) /\ Len(v) = Len(u) + 2 /\ Len(u) \in Nat
        /\ \A i \in 1..(Len(u) + 2) : v[i] = IF i <= Len(u) THEN u[i] ELSE <<Escape, c>>[i - Len(u)]
    BY <2>1, ConcatProperties
  <2>3. /\ w \in Seq(Chars) /\ Len(w) = Len(u) + 2
        /\ \A i \in 1..Len(u) : w[i] = u[i]
        /\ w[Len(u) + 1] = Escape /\ w[Len(u) + 2] = c
    BY <2>1, AppendProperties
  <2> HIDE DEF v, w
  <2>4. <<Escape, c>>[1] = Escape /\ <<Escape, c>>[2] = c
    OBVIOUS
  <2>5. ASSUME NEW i \in 1..(Len(u) + 2) PROVE v[i] = w[i]
    <3>1. CASE i <= Len(u)
      BY <2>2, <2>3, <3>1
    <3>2. CASE i = Len(u) + 1
      <4>1. v[i] = <<Escape, c>>[1]
        BY <2>2, <3>2
      <4> QED
        BY <2>3, <2>4, <3>2, <4>1
    <3>3. CASE i = Len(u) + 2
      <4>1. v[i] = <<Escape, c>>[2]
        BY <2>2, <3>3
      <4> QED
        BY <2>3, <2>4, <3>3, <4>1
    <3> QED
      BY <2>2, <3>1, <3>2, <3>3
  <2>6. v = w
    BY <2>2, <2>3, <2>5, SeqEqual
  <2> QED
    BY <1>1, <2>6, Zenon DEF Escaped, v, w
<1>2. CASE c \notin {Blank, Quote}
  <2>1. Append(u, c) = u \o <<c>>
    BY AppendIsConcat DEF Texts
  <2> QED
    BY <1>2, <2>1, Zenon DEF Escaped
<1> QED
  BY <1>1, <1>2, Zenon

(* A parameter with its escape characters gives the parameter. *)
LEMMA ReadParam ==
  ASSUME NEW b, NEW f, Reading(b, f, NULL, 0), Len(b) >= 2,
         NEW a, a \in Texts, \A i \in 1..Len(a) : a[i] # Escape
  PROVE  \A j \in 0..Len(a) :
           LET t == b \o EscapeParam(SubSeq(a, 1, j))
           IN /\ Reading(t, f, IF j = 0 THEN NULL ELSE SubSeq(a, 1, j), 0)
              /\ Len(t) >= Len(b)
              /\ j > 0 => Prev(t) = a[j]
<1> DEFINE n == Len(a)
           t(j) == b \o EscapeParam(SubSeq(a, 1, j))
           Token(j) == IF j = 0 THEN NULL ELSE SubSeq(a, 1, j)
           Good(j) == Reading(t(j), f, Token(j), 0) /\ Len(t(j)) >= Len(b) /\ (j > 0 => Prev(t(j)) = a[j])
           T == {j \in 0..n : Good(j)}
<1>1. n \in Nat /\ \A i \in 1..n : a[i] \in Chars
  BY ElementOfSeq DEF Texts
<1>2. b \in Texts /\ Len(b) \in Nat
  BY Zenon, LenProperties DEF Reading, Texts
<1>3. 0 \in T
  <2>1. SubSeq(a, 1, 0) = <<>> /\ Token(0) = NULL
    BY SubSeqEmpty
  <2>2. b \o <<>> = b
    BY <1>2, ConcatEmptySeq DEF Texts
  <2>3. t(0) = b
    BY <2>1, <2>2, EscapeNothing, Zenon
  <2>4. ~(0 > 0) /\ Len(b) >= Len(b)
    BY <1>2
  <2> HIDE DEF t, Token
  <2>5. Good(0)
    BY <2>1, <2>3, <2>4, Zenon
  <2> HIDE DEF Good
  <2> QED
    BY <1>1, <2>5
<1>4. ASSUME NEW j \in 0..(n - 1), j \in T PROVE j + 1 \in T
  <2>1. Good(j)
    BY <1>4, Zenon
  <2>2. PICK p, u, k, c : p = SubSeq(a, 1, j) /\ u = t(j) /\ k = Token(j) /\ c = a[j + 1]
    OBVIOUS
  <2>3. p \in Texts /\ Len(p) = j /\ SubSeq(a, 1, j + 1) = Append(p, c)
    BY <1>1, <2>2, SubSeqAppend
  <2>4. c \in Chars /\ c # Escape
    BY <1>1, <2>2
  <2>5. Reading(u, f, k, 0) /\ Len(u) >= Len(b)
    BY <2>1, <2>2, Zenon
  <2>6. u \in Texts /\ Len(u) \in Nat
    <3>1. u \in Texts
      BY <2>5, Zenon DEF Reading
    <3> QED
      BY <3>1 DEF Texts
  <2>7. PICK e, x : e = EscapeParam(p) /\ x = Escaped(c)
    OBVIOUS
  <2>8. e \in Seq(Chars) /\ x \in Seq(Chars)
    <3>1. e \in Seq(Chars)
      BY <2>3, <2>4, <2>7, EscapeAppend DEF Texts
    <3>2. x \in Seq(Chars)
      BY <2>4, <2>7, Characters DEF Escaped
    <3> QED
      BY <3>1, <3>2
  <2>9. t(j + 1) = u \o x
    <3>1. EscapeParam(Append(p, c)) = e \o x
      BY <2>3, <2>4, <2>7, EscapeAppend
    <3>2. b \o (e \o x) = (b \o e) \o x
      <4>1. b \in Seq(Chars) /\ e \in Seq(Chars) /\ x \in Seq(Chars)
        BY <1>2, <2>8 DEF Texts
      <4> QED
        BY ONLY <4>1, ConcatAssociative, SMTT(60)
    <3>3. u = b \o e
      BY <2>2, <2>7, Zenon
    <3>4. t(j + 1) = b \o EscapeParam(Append(p, c))
      BY <2>3, Zenon
    <3> QED
      BY <3>1, <3>2, <3>3, <3>4, Zenon
  <2>10. u \o x = IF c \in {Blank, Quote} THEN Append(Append(u, Escape), c) ELSE Append(u, c)
    BY <2>4, <2>6, <2>7, AppendEscaped, Zenon
  <2>11. (IF k = NULL THEN <<>> ELSE k) = p
    <3>1. CASE j = 0
      BY <2>2, <2>3, <3>1, EmptySeq DEF Texts
    <3>2. CASE j # 0
      BY <2>2, <2>3, <3>2, Characters
    <3> QED
      BY <3>1, <3>2
  <2>12. Len(u) >= 2
    BY <1>2, <2>5, <2>6
  <2>13. /\ Reading(u \o x, f, Append(p, c), 0)
         /\ Len(u \o x) >= Len(b) /\ Prev(u \o x) = c
    <3>1. CASE c \in {Blank, Quote}
      <4>1. Reading(Append(Append(u, Escape), c), f, Append(IF k = NULL THEN <<>> ELSE k, c), 0)
        BY <2>5, <2>12, <3>1, ReadEscaped
      <4>2. /\ Append(u, Escape) \in Texts /\ Len(Append(u, Escape)) = Len(u) + 1
        BY <2>6, Appended, Characters
      <4>3. /\ Len(Append(Append(u, Escape), c)) = Len(u) + 2
            /\ Prev(Append(Append(u, Escape), c)) = c
        BY <2>4, <2>6, <4>2, Appended
      <4>4. u \o x = Append(Append(u, Escape), c)
        BY <2>10, <3>1, Zenon
      <4>5. Len(u \o x) >= Len(b)
        BY <1>2, <2>5, <2>6, <4>3, <4>4
      <4> QED
        BY <2>11, <4>1, <4>3, <4>4, <4>5, Zenon
    <3>2. CASE c \notin {Blank, Quote}
      <4>1. c = Blank => 0 = 1
        BY <3>2
      <4>2. c \notin {Escape, Quote}
        BY <2>4, <3>2
      <4>3. Reading(Append(u, c), f, Append(IF k = NULL THEN <<>> ELSE k, c), 0)
        BY <2>4, <2>5, <2>12, <4>1, <4>2, ReadChar, Zenon
      <4>4. Len(Append(u, c)) = Len(u) + 1 /\ Prev(Append(u, c)) = c
        BY <2>4, <2>6, Appended
      <4>5. u \o x = Append(u, c)
        BY <2>10, <3>2, Zenon
      <4>6. Len(u \o x) >= Len(b)
        BY <1>2, <2>5, <2>6, <4>4, <4>5
      <4> QED
        BY <2>11, <4>3, <4>4, <4>5, <4>6, Zenon
    <3> QED
      BY <3>1, <3>2
  <2>14. Token(j + 1) = Append(p, c)
    <3>1. j + 1 # 0
      BY <1>1
    <3> QED
      BY <2>3, <3>1, Zenon
  <2> HIDE DEF t, Token
  <2>15. Good(j + 1)
    BY <2>2, <2>9, <2>13, <2>14, Zenon
  <2> HIDE DEF Good
  <2> QED
    BY <1>1, <2>15
<1>5. \A j \in 0..n : j \in T
  <2>1. PICK m : m = n
    OBVIOUS
  <2> HIDE DEF T
  <2> QED
    BY <1>1, <1>3, <1>4, <2>1, Induct
<1> QED
  <2> HIDE DEF Good
  <2>1. \A j \in 0..n : Good(j)
    BY <1>5
  <2> QED
    BY <2>1, Zenon DEF Good

(* After m arguments, all but the last of them are found and that one is   *)
(* the token that is begun.                                                *)
LEMMA ReadArgs ==
  ASSUME NEW args, args \in Seq(Texts), args # <<>>, Faithful(args)
  PROVE  LET line == LineOf(args)
         IN /\ Reading(line, SubSeq(args, 1, Len(args) - 1), args[Len(args)], 0)
            /\ Len(line) >= 2 /\ line[1] = args[1][1]
            /\ Len(args) = 1 => line = args[1]
            /\ Len(args) > 1 => /\ \E i \in 1..Len(line) : line[i] = Blank
                                /\ Prev(line) = args[Len(args)][Len(args[Len(args)])]
<1> DEFINE n == Len(args)
           l(m) == LineUpto(args, m)
           Good(m) == /\ Reading(l(m), SubSeq(args, 1, m - 1), args[m], 0)
                      /\ Len(l(m)) >= 2 /\ l(m)[1] = args[1][1]
                      /\ m = 1 => l(m) = args[1]
                      /\ m > 1 => /\ \E i \in 1..Len(l(m)) : l(m)[i] = Blank
                                  /\ Prev(l(m)) = args[m][Len(args[m])]
           T == {i \in 0..(n - 1) : Good(i + 1)}
<1>1. n \in Nat /\ n >= 1 /\ \A m \in 1..n : args[m] \in Texts
  BY EmptySeq, ElementOfSeq
<1>2. /\ args[1] # <<>> /\ Len(args[1]) >= 2
      /\ \A i \in 1..Len(args[1]) : args[1][i] \notin Space \cup {Quote, Escape}
      /\ args[1] \in Texts /\ DOMAIN args[1] = 1..Len(args[1]) /\ Len(args[1]) \in Nat
  <2>1. args[1] \in Texts /\ DOMAIN args[1] = 1..Len(args[1]) /\ Len(args[1]) \in Nat
    BY <1>1, LenProperties DEF Texts
  <2> QED
    BY <2>1 DEF Faithful, IsWord
<1>3. ASSUME NEW m \in 2..n
      PROVE  args[m] \in Texts /\ args[m] # <<>> /\ \A i \in 1..Len(args[m]) : args[m][i] # Escape
  <2>1. args[m] # <<>> /\ Escape \notin ToSet(args[m]) /\ args[m] \in Texts
    BY <1>1 DEF Faithful
  <2>2. DOMAIN args[m] = 1..Len(args[m])
    BY <2>1, LenProperties DEF Texts
  <2> QED
    BY <2>1, <2>2 DEF ToSet
<1>4. Good(1)
  <2>1. l(1) = args[1]
    <3>1. [i \in 1..(1 - 1) |-> <<Blank>> \o EscapeParam(args[i + 1])] = <<>>
      OBVIOUS
    <3>2. l(1) = args[1] \o <<>>
      BY <3>1, FlattenEmpty, Zenon DEF LineUpto
    <3> QED
      BY <1>2, <3>2, ConcatEmptySeq DEF Texts
  <2>2. Reading(args[1], <<>>, args[1], 0)
    <3>1. PICK w, k : w = args[1] /\ k = Len(args[1])
      OBVIOUS
    <3>2. w \in Texts /\ k \in 0..Len(w) /\ \A i \in 1..k : w[i] \notin Space \cup {Quote, Escape}
      BY <1>2, <3>1
    <3>3. \A i \in 0..k : Reading(SubSeq(w, 1, i), <<>>, IF i = 0 THEN NULL ELSE SubSeq(w, 1, i), 0)
      BY ONLY <3>2, ReadWord
    <3>4. SubSeq(w, 1, k) = w /\ k # 0 /\ k \in 0..k
      BY <1>2, <3>1, SubSeqFull DEF Texts
    <3> QED
      BY <3>1, <3>3, <3>4, Zenon
  <2>3. SubSeq(args, 1, 1 - 1) = <<>> /\ ~(1 > 1)
    BY SubSeqEmpty
  <2> HIDE DEF l
  <2> QED
    BY <1>2, <2>1, <2>2, <2>3, Zenon
<1>5. ASSUME NEW m \in 1..(n - 1), Good(m) PROVE Good(m + 1)
  <2>1. PICK t, f, k, a, u : /\ t = l(m) /\ f = SubSeq(args, 1, m - 1) /\ k = args[m]
                             /\ a = args[m + 1] /\ u = Append(t, Blank)
    OBVIOUS
  <2>2. Reading(t, f, k, 0) /\ Len(t) >= 2 /\ t[1] = args[1][1]
    BY <1>5, <2>1, Zenon
  <2>3. /\ a \in Texts /\ a # <<>> /\ \A i \in 1..Len(a) : a[i] # Escape
    BY <1>1, <1>3, <2>1
  <2>4. k \in Texts /\ k # NULL /\ f \in Seq(Texts) /\ t \in Texts
    <3>1. k \in Texts
      BY <1>1, <2>1
    <3> QED
      BY <2>2, <3>1, Characters, Zenon DEF Reading
  <2>5. Reading(u, Append(f, k), NULL, 0)
    <3>1. 0 # 1
      OBVIOUS
    <3> QED
      BY <2>1, <2>2, <2>4, <3>1, ReadBlank, Zenon
  <2>6. /\ u \in Texts /\ Len(u) = Len(t) + 1 /\ Len(t) \in Nat /\ u[Len(t) + 1] = Blank
        /\ u[1] = t[1]
    <3>1. u \in Seq(Chars) /\ Len(u) = Len(t) + 1 /\ Len(t) \in Nat /\ u[Len(t) + 1] = Blank
          /\ \A i \in 1..Len(t) : u[i] = t[i]
      BY <2>1, <2>4, AppendProperties, Characters DEF Texts
    <3>2. 1 \in 1..Len(t)
      BY <2>2, <3>1
    <3> QED
      BY <3>1, <3>2 DEF Texts
  <2>7. Append(f, k) = SubSeq(args, 1, m)
    <3>1. m \in Nat /\ m <= n /\ m >= 1
      BY <1>1
    <3>2. f \in Seq(Texts) /\ Len(f) = m - 1 /\ \A i \in 1..(m - 1) : f[i] = args[i]
      <4>1. \A i \in 1..(m - 1) : args[i] \in Texts
        BY <1>1, <3>1
      <4> QED
        BY <2>1, <3>1, <4>1, SubSeqProperties
    <3>3. PICK g, h : g = SubSeq(args, 1, m) /\ h = Append(f, k)
      OBVIOUS
    <3>4. g \in Seq(Texts) /\ Len(g) = m /\ \A i \in 1..m : g[i] = args[i]
      <4>1. \A i \in 1..m : args[i] \in Texts
        BY <1>1, <3>1
      <4> QED
        BY <3>1, <3>3, <4>1, SubSeqProperties
    <3>5. h \in Seq(Texts) /\ Len(h) = m /\ h[m] = k /\ \A i \in 1..(m - 1) : h[i] = f[i]
      BY <2>4, <3>1, <3>2, <3>3, AppendProperties
    <3>6. ASSUME NEW i \in 1..m PROVE g[i] = h[i]
      <4>1. g[i] = args[i]
        BY <3>4
      <4>2. CASE i = m
        BY <2>1, <3>5, <4>1, <4>2
      <4>3. CASE i # m
        <5>1. i \in 1..(m - 1)
          BY <3>1, <4>3
        <5> QED
          BY <3>2, <3>5, <4>1, <5>1
      <4> QED
        BY <4>2, <4>3
    <3>7. g = h
      BY ONLY <3>1, <3>4, <3>5, <3>6, SeqEqual
    <3> QED
      BY <3>3, <3>7
  <2>8. l(m + 1) = u \o EscapeParam(a)
    BY <2>1, LineUptoNext, Zenon
  <2>9. PICK j, v, w : j = Len(a) /\ v = SubSeq(a, 1, j) /\ w = u \o EscapeParam(v)
    OBVIOUS
  <2>10. j \in Nat /\ j > 0 /\ v = a
    BY <2>3, <2>9, EmptySeq, SubSeqFull DEF Texts
  <2>11. /\ Reading(w, Append(f, k), a, 0) /\ Len(w) >= Len(u) /\ Prev(w) = a[j]
    <3>1. PICK g : g = Append(f, k)
      OBVIOUS
    <3>2. Reading(u, g, NULL, 0) /\ Len(u) >= 2
      BY <2>2, <2>5, <2>6, <3>1
    <3>3. \A i \in 0..Len(a) :
            LET x == u \o EscapeParam(SubSeq(a, 1, i))
            IN /\ Reading(x, g, IF i = 0 THEN NULL ELSE SubSeq(a, 1, i), 0)
               /\ Len(x) >= Len(u)
               /\ i > 0 => Prev(x) = a[i]
      BY ONLY <2>3, <3>2, ReadParam
    <3>4. j \in 0..Len(a) /\ j # 0
      BY <2>9, <2>10
    <3> QED
      BY <2>9, <2>10, <3>1, <3>3, <3>4, Zenon
  <2>12. l(m + 1) = w
    BY <2>8, <2>9, <2>10
  <2>13. EscapeParam(a) \in Seq(Chars)
    BY <2>3, EscapeAppend, Characters DEF Texts
  <2>14. /\ w[1] = u[1] /\ w[Len(t) + 1] = Blank /\ Len(w) >= Len(t) + 1
    <3>1. PICK e : e = EscapeParam(a)
      OBVIOUS
    <3>2. u \in Seq(Chars) /\ e \in Seq(Chars)
      BY <2>6, <2>13, <3>1 DEF Texts
    <3>3. /\ Len(u \o e) = Len(u) + Len(e)
          /\ \A i \in 1..(Len(u) + Len(e)) : (u \o e)[i] = IF i <= Len(u) THEN u[i] ELSE e[i - Len(u)]
      BY ONLY <3>2, ConcatProperties
    <3>4. Len(e) \in Nat
      BY <3>2
    <3>5. w = u \o e
      BY <2>9, <2>10, <3>1
    <3>6. 1 \in 1..(Len(u) + Len(e)) /\ 1 <= Len(u)
          /\ Len(t) + 1 \in 1..(Len(u) + Len(e)) /\ Len(t) + 1 <= Len(u)
      BY <2>6, <3>4
    <3>7. w[1] = u[1] /\ w[Len(t) + 1] = u[Len(t) + 1] /\ Len(w) >= Len(u)
      BY <2>6, <3>3, <3>4, <3>5, <3>6
    <3> QED
      BY <2>6, <3>7
  <2>15. Len(w) >= 2 /\ w[1] = args[1][1] /\ \E i \in 1..Len(w) : w[i] = Blank
    <3>1. w \in Texts
      BY <2>11, Zenon DEF Reading
    <3>2. Len(w) \in Nat
      BY <3>1 DEF Texts
    <3>3. Len(t) + 1 \in 1..Len(w)
      BY <2>6, <2>14, <3>2
    <3>4. Len(w) >= 2
      BY <2>2, <2>6, <2>14, <3>2
    <3> QED
      BY <2>2, <2>6, <2>14, <3>3, <3>4
  <2>16. (m + 1) - 1 = m /\ m + 1 # 1
    OBVIOUS
  <2>17. Prev(w) = args[m + 1][Len(args[m + 1])]
    BY <2>1, <2>9, <2>11
  <2> HIDE DEF l
  <2> QED
    BY <2>1, <2>7, <2>11, <2>12, <2>15, <2>16, <2>17, Zenon
<1> HIDE DEF Good
<1>6. 0 \in T
  BY <1>1, <1>4
<1>7. ASSUME NEW i \in 0..((n - 1) - 1), i \in T PROVE i + 1 \in T
  <2>1. i + 1 \in 1..(n - 1) /\ i + 1 \in 0..(n - 1) /\ Good(i + 1)
    BY <1>1, <1>7
  <2>2. Good((i + 1) + 1)
    BY <1>5, <2>1
  <2> QED
    BY <2>1, <2>2
<1>8. \A i \in 0..(n - 1) : i \in T
  <2>1. PICK m : m = n - 1
    OBVIOUS
  <2>2. m \in Nat /\ \A i \in 0..(m - 1) : i \in T => i + 1 \in T
    BY <1>1, <1>7, <2>1
  <2> HIDE DEF T
  <2>3. \A i \in 0..m : i \in T
    BY ONLY <1>6, <2>2, Induct
  <2> QED
    BY <2>1, <2>3
<1>9. Good(n)
  <2>1. n - 1 \in 0..(n - 1) /\ (n - 1) + 1 = n
    BY <1>1
  <2>2. Good((n - 1) + 1)
    BY <1>8, <2>1
  <2> QED
    BY <2>1, <2>2
<1>10. LineOf(args) = l(n)
  BY Zenon DEF LineOf, LineUpto
<1> QED
  BY <1>9, <1>10, Zenon DEF Good

(* Arguments of any number and length, with any characters but escapes,    *)
(* none empty and the last not ending with a blank, are quoted by          *)
(* _escape_param so that bitu_util_extract_params finds just them, and     *)
(* frees nothing twice (shell.c:37-128, 234-290, util.c:28-146).           *)
THEOREM ArgsComeThrough ==
  ASSUME NEW args, args \in Seq(Texts), args # <<>>, Faithful(args), args # <<Good_Bye>>
  PROVE  LET line == LineOf(args)
         IN /\ Parsed(line) /\ Len(line) >= 2 /\ line # Good_Bye
            /\ CommandNew(line).name # NULL
            /\ <<CommandNew(line).name>> \o CommandNew(line).params = args
<1> DEFINE line == LineOf(args)
           n == Len(args)
<1>1. /\ Reading(line, SubSeq(args, 1, n - 1), args[n], 0)
      /\ Len(line) >= 2 /\ line[1] = args[1][1]
      /\ n = 1 => line = args[1]
      /\ n > 1 => /\ \E i \in 1..Len(line) : line[i] = Blank
                  /\ Prev(line) = args[n][Len(args[n])]
  BY ReadArgs, Zenon
<1> HIDE DEF line
<1>2. n \in Nat /\ n >= 1 /\ \A m \in 1..n : args[m] \in Texts
  BY EmptySeq, ElementOfSeq
<1>3. line \in Texts /\ Len(line) \in Nat /\ line # <<>>
  <2>1. line \in Texts
    BY <1>1, Zenon DEF Reading
  <2> QED
    BY <1>1, <2>1 DEF Texts
<1>4. args[1] \in Texts /\ Len(args[1]) >= 2 /\ Len(args[1]) \in Nat
      /\ \A i \in 1..Len(args[1]) : args[1][i] \notin Space
  <2>1. args[1] \in Texts /\ DOMAIN args[1] = 1..Len(args[1]) /\ Len(args[1]) \in Nat
    BY <1>2, LenProperties DEF Texts
  <2> QED
    BY <2>1 DEF Faithful, IsWord
<1>5. line[1] \notin Space
  <2>1. 1 \in 1..Len(args[1])
    BY <1>4
  <2> QED
    BY <1>1, <1>4, <2>1
<1>6. line[Len(line)] \notin Space
  <2>1. CASE n = 1
    <3>1. Len(args[1]) \in 1..Len(args[1])
      BY <1>4
    <3> QED
      BY <1>1, <1>4, <2>1, <3>1
  <2>2. CASE n > 1
    <3>1. Last(Last(args)) = args[n][Len(args[n])]
      BY Zenon DEF Last
    <3>2. Last(Last(args)) \notin Space
      BY <2>2 DEF Faithful
    <3>3. Prev(line) = line[Len(line)]
      BY <1>3, Zenon DEF Prev
    <3> QED
      BY <1>1, <2>2, <3>1, <3>2, <3>3, Zenon
  <2>3. n = 1 \/ n > 1
    <3>1. PICK k : k = n
      OBVIOUS
    <3>2. k \in Nat /\ k >= 1
      BY <1>2, <3>1
    <3>3. k = 1 \/ k > 1
      BY ONLY <3>2
    <3> QED
      BY <3>1, <3>3
  <2> QED
    BY <2>1, <2>2, <2>3, Zenon
<1>7. Strip(line) = line
  BY <1>3, <1>5, <1>6, StripNothing
<1>8. line # Good_Bye
  <2>1. CASE n = 1
    <3>1. args = <<args[1]>>
      BY <1>2, <2>1
    <3> QED
      BY <1>1, <2>1, <3>1
  <2>2. CASE n > 1
    <3>1. PICK i \in 1..Len(line) : line[i] = Blank
      BY <1>1, <2>2
    <3>2. ASSUME line = Good_Bye PROVE FALSE
      <4>1. Len(line) = 4 /\ i \in 1..4
        BY <3>2 DEF Good_Bye
      <4>2. Good_Bye[i] \in {"e", "x", "i", "t"}
        BY <4>1 DEF Good_Bye
      <4>3. Blank \notin {"e", "x", "i", "t"}
        BY DEF Blank
      <4> QED
        BY <3>1, <3>2, <4>2, <4>3
    <3> QED
      BY <3>2
  <2>3. n = 1 \/ n > 1
    <3>1. PICK k : k = n
      OBVIOUS
    <3>2. k \in Nat /\ k >= 1
      BY <1>2, <3>1
    <3>3. k = 1 \/ k > 1
      BY ONLY <3>2
    <3> QED
      BY <3>1, <3>3
  <2> QED
    BY <2>1, <2>2, <2>3, Zenon
<1>9. args[n] # NULL
  BY <1>2, Characters
<1>10. Append(SubSeq(args, 1, n - 1), args[n]) = args
  <2>1. PICK g, k : g = SubSeq(args, 1, k) /\ k = n - 1
    OBVIOUS
  <2>2. g \in Seq(Texts) /\ Len(g) = n - 1 /\ \A i \in 1..(n - 1) : g[i] = args[i]
    <3>1. k \in Int /\ 1 \in Int /\ \A i \in 1..k : args[i] \in Texts
      BY <1>2, <2>1
    <3>2. /\ SubSeq(args, 1, k) \in Seq(Texts)
          /\ Len(SubSeq(args, 1, k)) = IF 1 <= k THEN k - 1 + 1 ELSE 0
          /\ \A i \in 1..(k - 1 + 1) : SubSeq(args, 1, k)[i] = args[1 + i - 1]
      BY ONLY <3>1, SubSeqProperties
    <3>3. k - 1 + 1 = n - 1 /\ (1 <= k \/ n - 1 = 0) /\ \A i \in 1..(n - 1) : 1 + i - 1 = i
      BY <1>2, <2>1
    <3> QED
      BY <2>1, <3>2, <3>3
  <2>3. PICK h : h = Append(g, args[n])
    OBVIOUS
  <2>4. h \in Seq(Texts) /\ Len(h) = n /\ h[n] = args[n] /\ \A i \in 1..(n - 1) : h[i] = g[i]
    BY <1>2, <2>2, <2>3, AppendProperties
  <2>5. \A i \in 1..n : h[i] = args[i]
    BY <1>2, <2>2, <2>4
  <2>6. h = args
    BY ONLY <1>2, args \in Seq(Texts), <2>4, <2>5, SeqEqual
  <2> QED
    BY <2>1, <2>3, <2>6
<1>11. /\ Parsed(line) /\ CommandNew(line).name # NULL
       /\ <<CommandNew(line).name>> \o CommandNew(line).params = args
  BY <1>1, <1>3, <1>7, <1>9, <1>10, ReadEnd, Zenon
<1> QED
  BY <1>1, <1>8, <1>11 DEF line

-----------------------------------------------------------------------------
(* Lines in good style: the words between the cuts are what is found. *)

(* Elements of a set of numbers and how many there are before them. *)
Rank(E, e) == Cardinality({d \in E : d < e})

LEMMA RankType ==
  ASSUME NEW E, IsFiniteSet(E), NEW e
  PROVE  Rank(E, e) \in Nat /\ IsFiniteSet({d \in E : d < e})
<1>1. IsFiniteSet({d \in E : d < e})
  BY FS_Subset
<1> QED
  BY <1>1, FS_CardinalityType DEF Rank

LEMMA RankNext ==
  ASSUME NEW E, IsFiniteSet(E), E \subseteq Int, NEW e \in E, NEW d \in Int, e < d
  PROVE  /\ Rank(E, e) + 1 <= Rank(E, d)
         /\ (\A x \in E : ~(e < x /\ x < d)) => Rank(E, d) = Rank(E, e) + 1
<1> DEFINE A == {x \in E : x < e}
           D == {x \in E : x < d}
<1>1. IsFiniteSet(A) /\ IsFiniteSet(D) /\ Rank(E, e) \in Nat /\ Rank(E, d) \in Nat
  BY RankType
<1>0. e \in Int /\ \A x \in E : x \in Int
  OBVIOUS
<1>2. e \notin A /\ \A x : x \in A \cup {e} => x \in D
  <2>1. e \notin A /\ e \in D
    BY <1>0
  <2>2. ASSUME NEW x \in A PROVE x \in D
    <3>1. x \in E /\ x \in Int /\ x < e
      BY <1>0
    <3>2. x < d
      BY <1>0, <3>1
    <3> QED
      BY <3>1, <3>2
  <2> HIDE DEF A, D
  <2> QED
    BY <2>1, <2>2
<1>3. ASSUME \A x \in E : ~(e < x /\ x < d) PROVE A \cup {e} = D
  <2>1. \A x \in D : x \in A \cup {e}
    BY <1>0, <1>3
  <2> HIDE DEF A, D
  <2> QED
    BY <1>2, <2>1
<1>4. Cardinality(A) = Rank(E, e) /\ Cardinality(D) = Rank(E, d)
  BY DEF Rank
<1> HIDE DEF A, D
<1>5. Cardinality(A \cup {e}) = Cardinality(A) + 1
  BY <1>1, <1>2, FS_AddElement
<1>6. Cardinality(A \cup {e}) <= Cardinality(D)
  <2>1. A \cup {e} \in SUBSET D
    BY <1>2
  <2> QED
    BY <1>1, <2>1, FS_Subset
<1> QED
  BY <1>1, <1>3, <1>4, <1>5, <1>6

LEMMA RankOne ==
  ASSUME NEW E, IsFiniteSet(E), E \subseteq Int, NEW e \in E
  PROVE  (CHOOSE x \in E : Rank(E, x) = Rank(E, e)) = e
<1>1. ASSUME NEW x \in E, Rank(E, x) = Rank(E, e) PROVE x = e
  <2>1. Rank(E, x) \in Nat /\ Rank(E, e) \in Nat
    BY RankType
  <2>2. CASE x < e
    <3>1. Rank(E, x) + 1 <= Rank(E, e)
      BY <2>2, RankNext
    <3> QED
      BY <1>1, <2>1, <3>1
  <2>3. CASE e < x
    <3>1. Rank(E, e) + 1 <= Rank(E, x)
      BY <2>3, RankNext
    <3> QED
      BY <1>1, <2>1, <3>1
  <2> QED
    BY <2>2, <2>3
<1> QED
  BY <1>1, Zenon

LEMMA UnquotedAppend ==
  ASSUME NEW p \in Texts, NEW c \in Chars
  PROVE  /\ Unquoted(p) \in Texts
         /\ Unquoted(Append(p, c)) = IF c = Quote THEN Unquoted(p) ELSE Append(Unquoted(p), c)
<1> DEFINE part(d) == IF d = Quote THEN <<>> ELSE <<d>>
           n == Len(p)
           u == Append(p, c)
           parts == [i \in DOMAIN p |-> part(p[i])]
           more == [i \in DOMAIN u |-> part(u[i])]
<1>1. n \in Nat /\ DOMAIN p = 1..n /\ \A i \in 1..n : p[i] \in Chars
  BY ElementOfSeq, LenProperties DEF Texts
<1>2. /\ u \in Seq(Chars) /\ DOMAIN u = 1..(n + 1) /\ u[n + 1] = c
      /\ \A i \in 1..n : u[i] = p[i]
  BY AppendProperties, LenProperties DEF Texts
<1>3. \A d \in Chars : part(d) \in Seq(Chars)
  OBVIOUS
<1>3a. part(c) = IF c = Quote THEN <<>> ELSE <<c>>
  OBVIOUS
<1>7. Unquoted(p) = FlattenSeq(parts) /\ Unquoted(u) = FlattenSeq(more)
  BY Zenon DEF Unquoted
<1> HIDE DEF part
<1>4. parts \in Seq(Seq(Chars)) /\ Len(parts) = n
  BY <1>1, <1>3
<1>5. more \in Seq(Seq(Chars)) /\ Len(more) = n + 1
  <2>1. \A i \in 1..(n + 1) : u[i] \in Chars
    BY <1>1, <1>2
  <2> HIDE DEF u
  <2> QED
    BY <1>1, <1>2, <1>3, <2>1
<1>6. more = Append(parts, part(c))
  <2>1. /\ \A i \in 1..n : more[i] = part(p[i]) /\ parts[i] = part(p[i])
        /\ more[n + 1] = part(c)
    <3> HIDE DEF u
    <3> QED
      BY <1>1, <1>2
  <2> HIDE DEF parts, more
  <2>2. PICK e, Q : e = part(c) /\ Q = Seq(Chars)
    OBVIOUS
  <2>3. e \in Q /\ parts \in Seq(Q) /\ more \in Seq(Q)
    BY <1>3, <1>4, <1>5, <2>2
  <2>4. /\ Append(parts, e) \in Seq(Q) /\ Len(Append(parts, e)) = n + 1 /\ Append(parts, e)[n + 1] = e
        /\ \A i \in 1..n : Append(parts, e)[i] = parts[i]
    BY <1>4, <2>3, AppendProperties
  <2>5. \A i \in 1..(n + 1) : more[i] = Append(parts, e)[i]
    BY <1>1, <2>1, <2>2, <2>4
  <2>6. more = Append(parts, e)
    BY ONLY <1>1, <1>5, <2>3, <2>4, <2>5, SeqEqual
  <2> QED
    BY <2>2, <2>6
<1>8. PICK e : e = part(c)
  OBVIOUS
<1>9. e \in Seq(Chars)
  BY <1>3, <1>8
<1>10. FlattenSeq(parts) \in Seq(Chars) /\ FlattenSeq(Append(parts, e)) = FlattenSeq(parts) \o e
  <2> HIDE DEF parts
  <2> QED
    BY ONLY <1>4, <1>9, FlattenAppend
<1> HIDE DEF parts, more
<1>11. Unquoted(p) \in Seq(Chars) /\ Unquoted(u) = Unquoted(p) \o e
  BY <1>6, <1>7, <1>8, <1>10, Zenon
<1>12. PICK w : w = Unquoted(p)
  OBVIOUS
<1>13. w \in Seq(Chars) /\ w \o <<>> = w /\ Append(w, c) = w \o <<c>>
  BY <1>11, <1>12, ConcatEmptySeq, AppendIsConcat
<1> QED
  BY <1>3a, <1>8, <1>11, <1>12, <1>13, Zenon DEF Texts

LEMMA UnquotedNothing == Unquoted(<<>>) = <<>>
<1>1. [i \in DOMAIN <<>> |-> IF <<>>[i] = Quote THEN <<>> ELSE <<<<>>[i]>>] = <<>>
  OBVIOUS
<1> QED
  BY <1>1, FlattenEmpty, Zenon DEF Unquoted

(* Whether a position is between quotes. *)
Odd(line, i) == Cardinality({j \in 1..i : line[j] = Quote}) % 2

LEMMA OddNext ==
  ASSUME NEW line, NEW i \in Nat
  PROVE  /\ Odd(line, 0) = 0 /\ Odd(line, i) \in {0, 1}
         /\ Odd(line, i + 1) = IF line[i + 1] = Quote THEN 1 - Odd(line, i) ELSE Odd(line, i)
<1> DEFINE Q(k) == {j \in 1..k : line[j] = Quote}
<1>1. \A k \in Nat : IsFiniteSet(Q(k)) /\ Cardinality(Q(k)) \in Nat
  <2> SUFFICES ASSUME NEW k \in Nat PROVE IsFiniteSet(Q(k)) /\ Cardinality(Q(k)) \in Nat
    OBVIOUS
  <2>1. IsFiniteSet(1..k)
    BY FS_Interval
  <2>2. IsFiniteSet(Q(k))
    BY <2>1, FS_Subset
  <2> HIDE DEF Q
  <2> QED
    BY <2>2, FS_CardinalityType
<1>2. Q(0) = {}
  OBVIOUS
<1>3. Q(i + 1) = IF line[i + 1] = Quote THEN Q(i) \cup {i + 1} ELSE Q(i)
  OBVIOUS
<1>4. i + 1 \notin Q(i)
  OBVIOUS
<1>5. \A k : Odd(line, k) = Cardinality(Q(k)) % 2
  BY DEF Odd
<1> HIDE DEF Q
<1>6. Cardinality(Q(i) \cup {i + 1}) = Cardinality(Q(i)) + 1
  BY <1>1, <1>4, FS_AddElement
<1>7. Cardinality(Q(0)) = 0
  BY <1>2, FS_EmptySet
<1>8. \A k \in Nat : k % 2 \in {0, 1} /\ (k + 1) % 2 = 1 - (k % 2)
  OBVIOUS
<1>9. PICK k : k = Cardinality(Q(i))
  OBVIOUS
<1>10. k \in Nat /\ Odd(line, i) = k % 2
  BY <1>1, <1>5, <1>9
<1>11. Odd(line, i + 1) = IF line[i + 1] = Quote THEN (k + 1) % 2 ELSE k % 2
  BY <1>3, <1>5, <1>6, <1>9
<1> QED
  BY <1>5, <1>7, <1>8, <1>10, <1>11

AllEnds(line) == Cuts(line) \cup {0, Len(line) + 1}
EndOf(line, k) == CHOOSE e \in AllEnds(line) : Rank(AllEnds(line), e) = k
Word(line, k) == Unquoted(SubSeq(line, EndOf(line, k - 1) + 1, EndOf(line, k) - 1))

LEMMA EndsOK ==
  ASSUME NEW line \in Texts
  PROVE  /\ IsFiniteSet(AllEnds(line)) /\ AllEnds(line) \subseteq Int
         /\ Cuts(line) \subseteq 1..Len(line) /\ Len(line) \in Nat
         /\ Rank(AllEnds(line), 0) = 0
         /\ Cardinality(AllEnds(line)) - 1 = Rank(AllEnds(line), Len(line) + 1)
<1> DEFINE n == Len(line)
           E == AllEnds(line)
<1>1. n \in Nat /\ DOMAIN line = 1..n
  BY LenProperties DEF Texts
<1>2. Cuts(line) \subseteq 1..n
  BY <1>1 DEF Cuts
<1>3. E \subseteq 0..(n + 1) /\ n + 1 \in E
  BY <1>1, <1>2 DEF AllEnds
<1>4. IsFiniteSet(0..(n + 1))
  BY <1>1, FS_Interval
<1> HIDE DEF E
<1>10. ASSUME NEW d \in E PROVE d \in Int /\ ~(d < 0) /\ (d = n + 1 \/ d < n + 1)
  <2>1. PICK m : m = n
    OBVIOUS
  <2>2. m \in Nat /\ d \in 0..(m + 1)
    BY <1>1, <1>3, <2>1
  <2>3. d \in Int /\ ~(d < 0) /\ (d = m + 1 \/ d < m + 1)
    BY ONLY <2>2
  <2> QED
    BY <2>1, <2>3
<1>5. IsFiniteSet(E)
  BY <1>3, <1>4, FS_Subset
<1>6. Rank(E, 0) = 0
  <2>1. {d \in E : d < 0} = {}
    BY <1>10, Zenon
  <2> QED
    BY <2>1, FS_EmptySet DEF Rank
<1>7. Cardinality(E) = Rank(E, n + 1) + 1
  <2> DEFINE D == {d \in E : d < n + 1}
  <2>1. D \cup {n + 1} = E /\ n + 1 \notin D
    <3>1. ~(n + 1 < n + 1)
      BY <1>1
    <3>2. PICK m : m = n + 1
      OBVIOUS
    <3>3. m \in E /\ ~(m < m) /\ \A d \in E : d = m \/ d < m
      BY <1>3, <1>10, <3>1, <3>2, Zenon
    <3>4. {d \in E : d < m} \cup {m} = E /\ m \notin {d \in E : d < m}
      BY ONLY <3>3
    <3> QED
      BY <3>2, <3>4, Zenon
  <2>2. IsFiniteSet(D)
    BY <1>5, FS_Subset
  <2>3. Rank(E, n + 1) = Cardinality(D)
    BY DEF Rank
  <2> HIDE DEF D
  <2> QED
    BY <2>1, <2>2, <2>3, FS_AddElement
<1>8. Rank(E, n + 1) \in Nat
  BY <1>5, RankType
<1>9. E \subseteq Int
  BY <1>1, <1>3
<1> QED
  BY <1>1, <1>2, <1>5, <1>6, <1>7, <1>8, <1>9 DEF E

LEMMA WordsAre ==
  ASSUME NEW line \in Texts
  PROVE  Words(line) = [k \in 1..Rank(AllEnds(line), Len(line) + 1) |-> Word(line, k)]
<1>1. Words(line) = [k \in 1..(Cardinality(AllEnds(line)) - 1) |-> Word(line, k)]
  BY Zenon DEF Words, Word, EndOf, AllEnds, Rank
<1> QED
  BY <1>1, EndsOK

(* A line in good style has a word of two letters or more in front. *)
LEMMA StyleBegins ==
  ASSUME NEW line \in Texts, GoodStyle(line)
  PROVE  /\ Len(line) >= 2 /\ line # <<>>
         /\ line[1] \notin Space \cup {Quote, Escape} /\ line[2] \notin Space \cup {Quote, Escape}
         /\ line[Len(line)] \notin Space
         /\ \A i \in Cuts(line) : i >= 3
         /\ \A i \in 1..Len(line) : line[i] \in Chars /\ line[i] # Escape
         /\ \A i \in Cuts(line) : i + 1 \notin Cuts(line)
<1> DEFINE cuts == Cuts(line)
           n == IF cuts = {} THEN Len(line) ELSE Min(cuts) - 1
<1>1. /\ Escape \notin ToSet(line) /\ line # <<>> /\ Last(line) \notin Space
      /\ n >= 2 /\ IsWord(SubSeq(line, 1, n))
      /\ \A i \in cuts : i + 1 \notin cuts
  BY Zenon DEF GoodStyle
<1>2. /\ Len(line) \in Nat /\ cuts \subseteq 1..Len(line) /\ DOMAIN line = 1..Len(line)
      /\ \A i \in 1..Len(line) : line[i] \in Chars
  BY EndsOK, ElementOfSeq, LenProperties DEF Texts
<1>3. line[Len(line)] \notin Space /\ \A i \in 1..Len(line) : line[i] # Escape
  BY <1>1, <1>2 DEF Last, ToSet
<1>4. n \in 2..Len(line) /\ \A i \in cuts : i >= 3
  <2>1. CASE cuts = {}
    BY <1>1, <1>2, <2>1
  <2>2. CASE cuts # {}
    <3>1. PICK l : l = Len(line)
      OBVIOUS
    <3>2. l \in Nat /\ cuts \subseteq 1..l
      BY <1>2, <3>1
    <3> HIDE DEF cuts
    <3>3. Min(cuts) \in cuts /\ \A i \in cuts : Min(cuts) <= i
      BY ONLY <2>2, <3>2, MinMax
    <3>4. PICK m : m = Min(cuts)
      OBVIOUS
    <3>5. m \in 1..l /\ m - 1 >= 2 /\ \A i \in cuts : m <= i
      BY <1>1, <2>2, <3>2, <3>3, <3>4
    <3>6. \A i \in cuts : i \in Int
      BY <3>2
    <3>7. m - 1 \in 2..l /\ \A i \in cuts : i >= 3
      BY <3>2, <3>5, <3>6
    <3> QED
      BY <2>2, <3>1, <3>4, <3>7
  <2> QED
    BY <2>1, <2>2
<1> HIDE DEF cuts, n
<1>5. ASSUME NEW i \in {1, 2} PROVE line[i] \notin Space \cup {Quote, Escape}
  <2>1. PICK u : u = SubSeq(line, 1, n)
    OBVIOUS
  <2>2. u \in Seq(Chars) /\ Len(u) = n /\ u[i] = line[i]
    <3>1. n \in Int /\ 1 \in Int /\ \A k \in 1..n : line[k] \in Chars
      BY <1>2, <1>4
    <3>2. /\ SubSeq(line, 1, n) \in Seq(Chars) /\ Len(SubSeq(line, 1, n)) = IF 1 <= n THEN n - 1 + 1 ELSE 0
          /\ \A k \in 1..(n - 1 + 1) : SubSeq(line, 1, n)[k] = line[1 + k - 1]
      BY ONLY <3>1, SubSeqProperties
    <3>3. i \in 1..(n - 1 + 1) /\ 1 <= n /\ n - 1 + 1 = n /\ 1 + i - 1 = i
      BY <1>4
    <3> QED
      BY <2>1, <3>2, <3>3
  <2>3. i \in DOMAIN u
    BY <1>4, <2>2, LenProperties
  <2>4. IsWord(u)
    BY <1>1, <2>1
  <2> QED
    BY <2>2, <2>3, <2>4 DEF IsWord
<1> QED
  BY <1>1, <1>2, <1>3, <1>4, <1>5 DEF cuts

(* The words up to a cut, and the one that is begun behind it. *)
Found(line, m) == [k \in 1..m |-> Word(line, k)]
Token(line, e, i) == IF i = e THEN NULL ELSE Unquoted(SubSeq(line, e + 1, i))
Passed(line, i, e) ==
  /\ e \in AllEnds(line) /\ e <= i
  /\ \A d \in AllEnds(line) : ~(e < d /\ d <= i)
  /\ Reading(SubSeq(line, 1, i), Found(line, Rank(AllEnds(line), e)), Token(line, e, i), Odd(line, i))

LEMMA TokenNext ==
  ASSUME NEW line \in Texts, NEW i \in 0..(Len(line) - 1), NEW e \in 0..i,
         NEW k, k = Token(line, e, i)
  PROVE  LET w == IF k = NULL THEN <<>> ELSE k
         IN /\ w \in Texts
            /\ Token(line, e, i + 1) = IF line[i + 1] = Quote THEN w ELSE Append(w, line[i + 1])
<1>1. /\ Len(line) \in Nat /\ line[i + 1] \in Chars /\ i + 1 # e
      /\ e + 1 \in 1..(i + 1)
  BY ElementOfSeq DEF Texts
<1>2. PICK u, c, m : u = SubSeq(line, e + 1, i) /\ c = line[i + 1] /\ m = e + 1
  OBVIOUS
<1>3. u \in Texts /\ SubSeq(line, e + 1, i + 1) = Append(u, c)
  <2>1. m \in 1..(i + 1)
    BY <1>1, <1>2
  <2>2. SubSeq(line, m, i) \in Texts /\ SubSeq(line, m, i + 1) = Append(SubSeq(line, m, i), line[i + 1])
    BY ONLY line \in Texts, i \in 0..(Len(line) - 1), <2>1, SubSeqGrows
  <2> QED
    BY <1>2, <2>2
<1>4. Unquoted(u) \in Texts /\ Unquoted(Append(u, c)) = IF c = Quote THEN Unquoted(u) ELSE Append(Unquoted(u), c)
  BY <1>1, <1>2, <1>3, UnquotedAppend
<1>5. (IF k = NULL THEN <<>> ELSE k) = Unquoted(u)
  <2>1. CASE i = e
    <3>1. u = <<>>
      <4>1. i \in Int /\ e + 1 \in Int /\ i < e + 1
        BY <2>1
      <4> QED
        BY <1>2, <4>1, SubSeqEmpty
    <3>2. k = NULL
      BY <2>1, Zenon DEF Token
    <3> QED
      BY <3>1, <3>2, UnquotedNothing, Zenon
  <2>2. CASE i # e
    <3>1. k = Unquoted(u)
      BY <1>2, <2>2, Zenon DEF Token
    <3>2. k # NULL
      BY <1>4, <3>1, Characters
    <3> QED
      BY <3>1, <3>2
  <2> QED
    BY <2>1, <2>2
<1>6. Token(line, e, i + 1) = Unquoted(Append(u, c))
  BY <1>1, <1>3, Zenon DEF Token
<1> QED
  BY <1>2, <1>4, <1>5, <1>6, Zenon

LEMMA FoundNext ==
  ASSUME NEW line \in Texts, NEW e \in AllEnds(line), NEW d \in AllEnds(line), e < d,
         \A x \in AllEnds(line) : ~(e < x /\ x < d),
         Found(line, Rank(AllEnds(line), e)) \in Seq(Texts),
         NEW w \in Texts, w = Unquoted(SubSeq(line, e + 1, d - 1))
  PROVE  /\ Rank(AllEnds(line), d) = Rank(AllEnds(line), e) + 1
         /\ Found(line, Rank(AllEnds(line), d)) = Append(Found(line, Rank(AllEnds(line), e)), w)
<1> DEFINE E == AllEnds(line)
<1>1. IsFiniteSet(E) /\ E \subseteq Int /\ e \in Int /\ d \in Int
  BY EndsOK
<1>2. PICK m : m = Rank(E, e)
  OBVIOUS
<1>3. m \in Nat /\ Rank(E, d) = m + 1
  <2> HIDE DEF E
  <2> QED
    BY <1>1, <1>2, RankType, RankNext DEF E
<1>4. EndOf(line, m) = e /\ EndOf(line, m + 1) = d
  <2>1. EndOf(line, Rank(E, e)) = e /\ EndOf(line, Rank(E, d)) = d
    BY <1>1, RankOne, Zenon DEF EndOf
  <2> QED
    BY <1>2, <1>3, <2>1, Zenon
<1>5. Word(line, m + 1) = w
  <2>1. (m + 1) - 1 = m
    BY <1>3
  <2> QED
    BY <1>4, <2>1, Zenon DEF Word
<1>6. PICK f, g, h : f = Found(line, m) /\ g = Found(line, m + 1) /\ h = Append(f, w)
  OBVIOUS
<1>7. f \in Seq(Texts) /\ Len(f) = m /\ \A k \in 1..m : f[k] = Word(line, k) /\ f[k] \in Texts
  <2>1. f \in Seq(Texts)
    BY <1>2, <1>6
  <2>2. f = [k \in 1..m |-> Word(line, k)]
    BY <1>6, Zenon DEF Found
  <2>3. DOMAIN f = 1..m /\ \A k \in 1..m : f[k] = Word(line, k)
    BY <2>2, Zenon
  <2>4. Len(f) = m
    BY <1>3, <2>1, <2>3, LenProperties
  <2> QED
    BY <2>1, <2>3, <2>4, ElementOfSeq
<1>8. g \in Seq(Texts) /\ Len(g) = m + 1 /\ \A k \in 1..(m + 1) : g[k] = Word(line, k)
  <2>1. \A k \in 1..(m + 1) : Word(line, k) \in Texts
    <3> SUFFICES ASSUME NEW k \in 1..(m + 1) PROVE Word(line, k) \in Texts
      OBVIOUS
    <3>1. k = m + 1 \/ k \in 1..m
      BY <1>3
    <3> QED
      BY <1>5, <1>7, <3>1
  <2>2. g = [k \in 1..(m + 1) |-> Word(line, k)]
    BY <1>6, Zenon DEF Found
  <2> QED
    BY <1>3, <2>1, <2>2
<1>9. h \in Seq(Texts) /\ Len(h) = m + 1 /\ h[m + 1] = w /\ \A k \in 1..m : h[k] = f[k]
  BY <1>6, <1>7, AppendProperties
<1>10. ASSUME NEW k \in 1..(m + 1) PROVE g[k] = h[k]
  <2>1. CASE k = m + 1
    BY <1>5, <1>8, <1>9, <2>1
  <2>2. CASE k # m + 1
    <3>1. k \in 1..m
      BY <1>3, <2>2
    <3> QED
      BY <1>7, <1>8, <1>9, <3>1
  <2> QED
    BY <2>1, <2>2
<1>11. g = h
  BY ONLY <1>8, <1>9, <1>10, SeqEqual
<1> QED
  BY <1>2, <1>3, <1>6, <1>11, Zenon

(* At a blank between words. *)
LEMMA PassCut ==
  ASSUME NEW line \in Texts, GoodStyle(line), NEW i \in 0..(Len(line) - 1), i + 1 \in Cuts(line),
         NEW e, Passed(line, i, e)
  PROVE  Passed(line, i + 1, i + 1)
<1> DEFINE E == AllEnds(line)
<1>1. /\ e \in E /\ e <= i /\ (\A d \in E : ~(e < d /\ d <= i))
      /\ Reading(SubSeq(line, 1, i), Found(line, Rank(E, e)), Token(line, e, i), Odd(line, i))
  BY Zenon DEF Passed
<1>2. /\ IsFiniteSet(E) /\ E \subseteq Int /\ Len(line) \in Nat /\ Cuts(line) \subseteq 1..Len(line)
      /\ i \in Int /\ i + 1 \in E
  <2>1. i + 1 \in E
    BY DEF AllEnds
  <2> HIDE DEF E
  <2> QED
    BY <2>1, EndsOK DEF E
<1>3. line[i + 1] = Blank /\ Odd(line, i + 1) = 0
  BY DEF Cuts, Odd
<1>4. i + 1 >= 3 /\ i \notin Cuts(line)
  BY StyleBegins
<1>5. e # i
  <2>1. i # 0 /\ i # Len(line) + 1
    BY <1>2, <1>4
  <2>2. i \notin E
    BY <1>4, <2>1 DEF AllEnds
  <2> QED
    BY <1>1, <2>2
<1>6. e \in Int /\ e >= 0
  BY <1>1, <1>2 DEF AllEnds
<1>7. PICK t, f, w : /\ t = SubSeq(line, 1, i) /\ f = Found(line, Rank(E, e))
                     /\ w = Token(line, e, i)
  OBVIOUS
<1>8. w = Unquoted(SubSeq(line, e + 1, i)) /\ w \in Texts /\ w # NULL
  <2>1. w = Unquoted(SubSeq(line, e + 1, i))
    BY <1>5, <1>7, Zenon DEF Token
  <2>2. w \in Texts \cup {NULL}
    BY <1>1, <1>7, Zenon DEF Reading
  <2>3. e \in 0..i
    BY <1>1, <1>2, <1>6
  <2>4. (IF w = NULL THEN <<>> ELSE w) \in Texts
    BY <1>7, <2>3, TokenNext
  <2>5. SubSeq(line, e + 1, i) \in Texts
    <3>1. PICK m : m = e + 1
      OBVIOUS
    <3>2. m \in 1..(i + 1)
      BY <2>3, <3>1
    <3>3. SubSeq(line, m, i) \in Texts
      BY ONLY line \in Texts, i \in 0..(Len(line) - 1), <3>2, SubSeqGrows
    <3> QED
      BY <3>1, <3>3
  <2>6. w \in Texts
    BY <2>1, <2>5, UnquotedAppend, Characters
  <2> QED
    BY <2>1, <2>6, Characters
<1>9. Odd(line, i) = 0
  <2>1. line[i + 1] # Quote
    BY <1>3, Characters
  <2>2. i \in Nat
    OBVIOUS
  <2> QED
    BY <1>3, <2>1, <2>2, OddNext
<1>10. t \in Texts /\ Len(t) = i /\ SubSeq(line, 1, i + 1) = Append(t, Blank)
  BY <1>3, <1>7, SubSeqAppend
<1>11. Reading(Append(t, Blank), Append(f, w), NULL, 0)
  <2>1. Reading(t, f, w, 0) /\ Len(t) >= 2 /\ 0 # 1
    <3>1. Len(t) >= 2
      BY <1>2, <1>4, <1>10
    <3>2. Reading(t, f, w, 0)
      BY <1>1, <1>7, <1>9, Zenon
    <3> QED
      BY <3>1, <3>2
  <2> QED
    BY <1>8, <2>1, ReadBlank, Zenon
<1>12. \A d \in E : ~(e < d /\ d < i + 1)
  BY <1>1, <1>2
<1>13. Found(line, Rank(E, i + 1)) = Append(f, w)
  <2>1. PICK d : d = i + 1
    OBVIOUS
  <2>2. e < d /\ d \in E /\ d - 1 = i
    BY <1>1, <1>2, <1>6, <2>1
  <2>3. f \in Seq(Texts)
    BY <1>1, <1>7, Zenon DEF Reading
  <2>4. \A x \in E : ~(e < x /\ x < d)
    BY <1>12, <2>1, Zenon
  <2>5. w = Unquoted(SubSeq(line, e + 1, d - 1))
    BY <1>8, <2>2
  <2>6. Found(line, Rank(E, d)) = Append(Found(line, Rank(E, e)), w)
    BY <1>1, <1>7, <1>8, <2>2, <2>3, <2>4, <2>5, FoundNext
  <2> QED
    BY <1>7, <2>1, <2>6
<1>14. Token(line, i + 1, i + 1) = NULL
  BY Zenon DEF Token
<1>15. i + 1 <= i + 1 /\ \A d \in E : ~(i + 1 < d /\ d <= i + 1)
  BY <1>2
<1> QED
  BY <1>2, <1>3, <1>10, <1>11, <1>13, <1>14, <1>15, Zenon DEF Passed

(* At any other character. *)
LEMMA PassChar ==
  ASSUME NEW line \in Texts, GoodStyle(line), NEW i \in 0..(Len(line) - 1), i + 1 \notin Cuts(line),
         NEW e, Passed(line, i, e)
  PROVE  Passed(line, i + 1, e)
<1> DEFINE E == AllEnds(line)
<1>1. /\ e \in E /\ e <= i /\ (\A d \in E : ~(e < d /\ d <= i))
      /\ Reading(SubSeq(line, 1, i), Found(line, Rank(E, e)), Token(line, e, i), Odd(line, i))
  BY Zenon DEF Passed
<1>2. /\ E \subseteq Int /\ Len(line) \in Nat /\ Cuts(line) \subseteq 1..Len(line)
      /\ DOMAIN line = 1..Len(line)
  BY EndsOK, LenProperties DEF Texts
<1>3. e \in 0..i
  BY <1>1, <1>2 DEF AllEnds
<1>4. e <= i + 1 /\ \A d \in E : ~(e < d /\ d <= i + 1)
  <2>1. i + 1 \notin E
    BY <1>2 DEF AllEnds
  <2>2. ASSUME NEW d \in E, e < d, d <= i + 1 PROVE FALSE
    <3>1. d \in Int /\ d # i + 1
      BY <1>2, <2>1
    <3>2. d <= i
      BY <2>2, <3>1
    <3> QED
      BY <1>1, <2>2, <3>2
  <2> QED
    BY <1>3, <2>2
<1>5. PICK t, f, k, q, c, w : /\ t = SubSeq(line, 1, i) /\ f = Found(line, Rank(E, e))
                              /\ k = Token(line, e, i) /\ q = Odd(line, i) /\ c = line[i + 1]
                              /\ w = IF k = NULL THEN <<>> ELSE k
  OBVIOUS
<1>6. Reading(t, f, k, q)
  BY <1>1, <1>5, Zenon
<1>7. t \in Texts /\ Len(t) = i /\ SubSeq(line, 1, i + 1) = Append(t, c)
  BY <1>5, SubSeqAppend
<1>8. w \in Texts /\ Token(line, e, i + 1) = IF c = Quote THEN w ELSE Append(w, c)
  BY <1>3, <1>5, TokenNext
<1>9. q \in {0, 1} /\ Odd(line, i + 1) = IF c = Quote THEN 1 - q ELSE q
  <2>1. i \in Nat
    OBVIOUS
  <2> QED
    BY <1>5, <2>1, OddNext
<1>10. /\ c \in Chars /\ c # Escape
       /\ i + 1 <= 2 => c \notin Space \cup {Quote}
  <2>1. i + 1 \in 1..Len(line)
    BY <1>2
  <2>2. i + 1 = 1 \/ i + 1 = 2 \/ ~(i + 1 <= 2)
    OBVIOUS
  <2>3. line[1] \notin Space \cup {Quote} /\ line[2] \notin Space \cup {Quote}
    BY StyleBegins
  <2>4. \A j \in 1..Len(line) : line[j] \in Chars /\ line[j] # Escape
    BY StyleBegins, Zenon
  <2> QED
    BY <1>5, <2>1, <2>2, <2>3, <2>4
<1>11. Reading(Append(t, c), f, Token(line, e, i + 1), Odd(line, i + 1))
  <2>1. CASE c = Quote
    <3>1. Len(t) >= 2
      BY <1>7, <1>10, <2>1
    <3>2. Reading(Append(t, Quote), f, IF k = NULL THEN <<>> ELSE k, 1 - q)
      BY <1>6, <1>9, <3>1, ReadQuote
    <3> QED
      BY <1>5, <1>8, <1>9, <2>1, <3>2, Zenon
  <2>2. CASE c # Quote
    <3>1. c = Blank => q = 1
      <4>1. c = Blank => Odd(line, i + 1) # 0
        <5>1. i + 1 \in DOMAIN line
          BY <1>2
        <5> QED
          BY <1>5, <5>1 DEF Cuts, Odd
      <4> QED
        BY <1>9, <2>2, <4>1
    <3>2. \/ Len(t) >= 2
          \/ t = <<>> /\ k = NULL
          \/ k # NULL /\ k # <<>>
      <4>1. CASE i = 0
        <5>1. t = <<>>
          BY <1>7, <4>1, EmptySeq DEF Texts
        <5>2. e = i
          BY <1>3, <4>1
        <5>3. k = NULL
          BY <1>5, <5>2, Zenon DEF Token
        <5> QED
          BY <5>1, <5>3
      <4>2. CASE i = 1
        <5>1. e = 0
          <6>1. 1 \notin Cuts(line)
            BY StyleBegins
          <6>2. 1 \notin E
            BY <1>2, <4>2, <6>1 DEF AllEnds
          <6> QED
            BY <1>1, <1>3, <4>2, <6>2
        <5>2. 0 \in 0..(Len(line) - 1) /\ e \in 0..0 /\ i = 0 + 1
          BY <1>2, <4>2, <5>1
        <5>3. Token(line, e, 0) = NULL
          BY <5>1, Zenon DEF Token
        <5>4. line[0 + 1] # Quote /\ line[0 + 1] \in Chars
          BY StyleBegins, <5>2, ElementOfSeq
        <5>5. Token(line, e, 0 + 1) = Append(<<>>, line[0 + 1])
          <6>1. PICK z, j : z = NULL /\ j = 0
            OBVIOUS
          <6>2. z = Token(line, e, j) /\ j \in 0..(Len(line) - 1) /\ e \in 0..j
            BY <5>2, <5>3, <6>1
          <6>3. Token(line, e, j + 1) = IF line[j + 1] = Quote THEN IF z = NULL THEN <<>> ELSE z
                                        ELSE Append(IF z = NULL THEN <<>> ELSE z, line[j + 1])
            BY ONLY line \in Texts, <6>2, TokenNext
          <6> QED
            BY <5>4, <6>1, <6>3, Zenon
        <5>6. k = <<line[1]>>
          BY <1>5, <4>2, <5>5
        <5>7. k \in Texts /\ k # <<>>
          BY <5>4, <5>6 DEF Texts
        <5> QED
          BY <5>7, Characters
      <4>3. CASE i >= 2
        BY <1>7, <4>3
      <4> QED
        BY <4>1, <4>2, <4>3
    <3>3. c \notin {Escape, Quote}
      BY <1>10, <2>2
    <3>4. Reading(Append(t, c), f, Append(IF k = NULL THEN <<>> ELSE k, c), q)
      BY <1>6, <1>10, <3>1, <3>2, <3>3, ReadChar, Zenon
    <3> QED
      BY <1>5, <1>8, <1>9, <2>2, <3>4, Zenon
  <2> QED
    BY <2>1, <2>2
<1> QED
  BY <1>1, <1>4, <1>5, <1>7, <1>11, Zenon DEF Passed

LEMMA PassAll ==
  ASSUME NEW line \in Texts, GoodStyle(line)
  PROVE  \E e : Passed(line, Len(line), e)
<1> DEFINE n == Len(line)
           T == {i \in 0..n : \E e : Passed(line, i, e)}
<1>1. n \in Nat /\ AllEnds(line) \subseteq Int /\ 0 \in AllEnds(line)
  BY EndsOK DEF AllEnds
<1>2. 0 \in T
  <2>1. SubSeq(line, 1, 0) = <<>> /\ Odd(line, 0) = 0 /\ Token(line, 0, 0) = NULL
    BY SubSeqEmpty, OddNext DEF Token
  <2>2. Found(line, Rank(AllEnds(line), 0)) = <<>>
    <3>1. Rank(AllEnds(line), 0) = 0 /\ 1..0 = {}
      BY EndsOK
    <3>2. [k \in 1..0 |-> Word(line, k)] = <<>>
      OBVIOUS
    <3> QED
      BY <3>1, <3>2, Zenon DEF Found
  <2>3. 0 <= 0 /\ \A d \in AllEnds(line) : ~(0 < d /\ d <= 0)
    BY <1>1
  <2>4. Passed(line, 0, 0)
    BY <1>1, <2>1, <2>2, <2>3, ReadNothing, Zenon DEF Passed
  <2> QED
    BY <1>1, <2>4
<1>3. ASSUME NEW i \in 0..(n - 1), i \in T PROVE i + 1 \in T
  <2>1. PICK e : Passed(line, i, e)
    BY <1>3
  <2>2. \E d : Passed(line, i + 1, d)
    <3>1. CASE i + 1 \in Cuts(line)
      BY <2>1, <3>1, PassCut
    <3>2. CASE i + 1 \notin Cuts(line)
      BY <2>1, <3>2, PassChar
    <3> QED
      BY <3>1, <3>2
  <2> QED
    BY <1>1, <2>2
<1>4. \A i \in 0..n : i \in T
  <2>1. PICK m : m = n
    OBVIOUS
  <2> HIDE DEF T
  <2> QED
    BY <1>1, <1>2, <1>3, <2>1, Induct
<1> QED
  BY <1>1, <1>4

(* A line typed in good style is taken apart by bitu_util_extract_params   *)
(* exactly at its blanks outside of quotes, however many there are, and    *)
(* nothing is freed twice (util.c:28-146).                                 *)
THEOREM WordsComeThrough ==
  ASSUME NEW line \in Texts, GoodStyle(line)
  PROVE  /\ Parsed(line) /\ Len(line) >= 2
         /\ CommandNew(line).name # NULL
         /\ <<CommandNew(line).name>> \o CommandNew(line).params = Words(line)
<1> DEFINE n == Len(line)
           E == AllEnds(line)
<1>1. /\ Len(line) >= 2 /\ line # <<>>
      /\ line[1] \notin Space /\ line[n] \notin Space
  BY StyleBegins
<1>2. PICK e : Passed(line, n, e)
  BY PassAll
<1>3. /\ e \in E /\ e <= n /\ (\A d \in E : ~(e < d /\ d <= n))
      /\ Reading(SubSeq(line, 1, n), Found(line, Rank(E, e)), Token(line, e, n), Odd(line, n))
  BY <1>2, Zenon DEF Passed
<1>4. /\ E \subseteq Int /\ n \in Nat /\ Cuts(line) \subseteq 1..n /\ n + 1 \in E
  BY EndsOK DEF AllEnds
<1>5. SubSeq(line, 1, n) = line
  BY SubSeqFull DEF Texts
<1>6. e # n
  <2>1. n \notin Cuts(line)
    BY <1>1, Characters DEF Cuts
  <2>2. n \notin E
    BY <1>1, <1>4, <2>1 DEF AllEnds
  <2> QED
    BY <1>3, <2>2
<1>7. PICK f, w : f = Found(line, Rank(E, e)) /\ w = Token(line, e, n)
  OBVIOUS
<1>8. Reading(line, f, w, Odd(line, n)) /\ f \in Seq(Texts)
  <2>1. Reading(line, f, w, Odd(line, n))
    BY <1>3, <1>5, <1>7, Zenon
  <2> QED
    BY <2>1, Zenon DEF Reading
<1>9. w = Unquoted(SubSeq(line, e + 1, n)) /\ w \in Texts /\ w # NULL
  <2>1. w = Unquoted(SubSeq(line, e + 1, n))
    BY <1>6, <1>7, Zenon DEF Token
  <2>2. SubSeq(line, e + 1, n) \in Texts
    <3>1. PICK m : m = e + 1
      OBVIOUS
    <3>2. m \in Int /\ n \in Int /\ m >= 1
      BY <1>3, <1>4, <3>1 DEF AllEnds
    <3>3. \A k \in m..n : line[k] \in Chars
      BY <3>2, ElementOfSeq DEF Texts
    <3>4. SubSeq(line, m, n) \in Seq(Chars)
      BY ONLY <3>2, <3>3, SubSeqProperties
    <3> QED
      BY <3>1, <3>4 DEF Texts
  <2>3. w \in Texts
    BY <2>1, <2>2, UnquotedAppend, Characters
  <2> QED
    BY <2>1, <2>3, Characters
<1>10. Strip(line) = line
  BY <1>1, StripNothing
<1>11. /\ Parsed(line) /\ CommandNew(line).name # NULL
       /\ <<CommandNew(line).name>> \o CommandNew(line).params = Append(f, w)
  BY <1>1, <1>8, <1>9, <1>10, ReadEnd, Zenon
<1>12. Words(line) = Append(f, w)
  <2>1. Words(line) = Found(line, Rank(E, n + 1))
    BY WordsAre, Zenon DEF Found
  <2>2. PICK d : d = n + 1
    OBVIOUS
  <2>3. d \in E /\ e < d /\ d - 1 = n
    BY <1>3, <1>4, <2>2
  <2>4. \A x \in E : ~(e < x /\ x < d)
    BY <1>3, <1>4, <2>2
  <2>5. w = Unquoted(SubSeq(line, e + 1, d - 1))
    BY <1>9, <2>3
  <2>6. Found(line, Rank(E, d)) = Append(Found(line, Rank(E, e)), w)
    BY <1>3, <1>7, <1>8, <1>9, <2>3, <2>4, <2>5, FoundNext
  <2> QED
    BY <1>7, <2>1, <2>2, <2>6
<1> QED
  BY <1>1, <1>11, <1>12

-----------------------------------------------------------------------------
(* What bituctl sends *)

LineFor(r) == IF r.by = "args" THEN LineOf(r.texts) ELSE r.texts[1]

(* "exit" is not a request when it is typed. *)
Said(r) == r \in Requests /\ (r.by = "line" => r.texts[1] # Good_Bye)

LEMMA LineType ==
  ASSUME NEW args, args \in Seq(Texts), args # <<>>
  PROVE  /\ LineOf(args) \in Texts
         /\ args[1] # <<>> => LineOf(args) # <<>>
<1> DEFINE m == Len(args) - 1
           part(i) == <<Blank>> \o EscapeParam(args[i + 1])
           s == [i \in 1..m |-> part(i)]
<1>1. /\ Len(args) \in Nat /\ Len(args) # 0
      /\ \A i \in 1..Len(args) : args[i] \in Texts
  BY ElementOfSeq, EmptySeq
<1>2. \A i \in 1..m : part(i) \in Seq(Chars)
  <2> SUFFICES ASSUME NEW i \in 1..m PROVE part(i) \in Seq(Chars)
    OBVIOUS
  <2>1. args[i + 1] \in Texts
    BY <1>1
  <2>2. EscapeParam(args[i + 1]) \in Seq(Chars)
    BY <2>1, EscapeAppend, Characters DEF Texts
  <2>3. <<Blank>> \in Seq(Chars)
    BY Characters
  <2> QED
    BY <2>2, <2>3, ConcatProperties
<1> HIDE DEF part
<1>3. s \in Seq(Seq(Chars))
  BY <1>1, <1>2
<1>4. FlattenSeq(s) \in Seq(Chars)
  <2> HIDE DEF s
  <2> QED
    BY ONLY <1>3, FlattenWalk
<1>5. PICK a, f : a = args[1] /\ f = FlattenSeq(s)
  OBVIOUS
<1>6. a \in Seq(Chars) /\ f \in Seq(Chars)
  BY <1>1, <1>4, <1>5 DEF Texts
<1>7. a \o f \in Seq(Chars)
  BY ONLY <1>6, ConcatProperties
<1>8. LineOf(args) = a \o f
  BY <1>5, Zenon DEF LineOf, part
<1>9. a # <<>> => a \o f # <<>>
  <2>1. Len(a \o f) = Len(a) + Len(f) /\ Len(a) \in Nat /\ Len(f) \in Nat
    BY <1>6, ConcatProperties, LenProperties
  <2>2. a # <<>> => Len(a) # 0
    BY <1>6, EmptySeq
  <2>3. Len(<<>>) = 0
    OBVIOUS
  <2>4. a # <<>> => Len(a \o f) # Len(<<>>)
    BY <2>1, <2>2, <2>3
  <2> QED
    BY <2>4, Zenon
<1> QED
  BY <1>5, <1>7, <1>8, <1>9 DEF Texts

(* A line is a text, and that of a proper request makes the command that   *)
(* the request means.                                                      *)
LEMMA SaidRight ==
  ASSUME NEW r, Said(r)
  PROVE  /\ LineFor(r) \in Texts
         /\ Proper(r) =>
              LET line == LineFor(r)
              IN /\ Parsed(line) /\ ~(Len(line) < 2) /\ line # Good_Bye
                 /\ CommandNew(line).name # NULL
                 /\ <<CommandNew(line).name>> \o CommandNew(line).params = Meaning(r)
<1>1. r \in Requests
  BY DEF Said
<1>2. CASE r \in [by : {"args"}, texts : ArgLists]
  <2>1. r.by = "args" /\ r.texts \in ArgLists
    BY <1>2
  <2>2. PICK args : args = r.texts
    OBVIOUS
  <2>3. args \in Seq(Texts) /\ args # <<>>
    BY <2>1, <2>2, DialogueAssumption DEF Texts
  <2>4. LineFor(r) = LineOf(args)
    BY <2>1, <2>2 DEF LineFor
  <2>5. LineOf(args) \in Texts
    BY ONLY <2>3, LineType
  <2>6. ASSUME Proper(r)
        PROVE  LET line == LineOf(args)
               IN /\ Parsed(line) /\ ~(Len(line) < 2) /\ line # Good_Bye
                  /\ CommandNew(line).name # NULL
                  /\ <<CommandNew(line).name>> \o CommandNew(line).params = args
    <3>1. Faithful(args) /\ args # <<Good_Bye>>
      BY <2>1, <2>2, <2>6, Zenon DEF Proper
    <3>2. LET line == LineOf(args)
          IN /\ Parsed(line) /\ Len(line) >= 2 /\ line # Good_Bye
             /\ CommandNew(line).name # NULL
             /\ <<CommandNew(line).name>> \o CommandNew(line).params = args
      BY ONLY <2>3, <3>1, ArgsComeThrough
    <3>3. Len(LineOf(args)) \in Nat
      BY <2>5 DEF Texts
    <3>4. ~(Len(LineOf(args)) < 2)
      <4>1. PICK n : n = Len(LineOf(args))
        OBVIOUS
      <4>2. n >= 2
        BY <3>2, <4>1
      <4> QED
        BY <3>3, <4>1, <4>2
    <3> QED
      BY <3>2, <3>4
  <2>7. Meaning(r) = args
    BY <2>1, <2>2 DEF Meaning
  <2> QED
    BY <2>4, <2>5, <2>6, <2>7, Zenon
<1>3. CASE r \in [by : {"line"}, texts : {<<line>> : line \in TypedLines}]
  <2>1. r.by = "line" /\ r.by # "args" /\ r.texts \in {<<line>> : line \in TypedLines}
    BY <1>3
  <2>2. PICK line \in TypedLines : r.texts = <<line>>
    BY <2>1
  <2>3. line \in Texts /\ r.texts[1] = line
    BY <2>2, DialogueAssumption DEF Texts
  <2>4. LineFor(r) = line
    BY <2>1, <2>3 DEF LineFor
  <2>5. ASSUME Proper(r)
        PROVE  /\ Parsed(line) /\ ~(Len(line) < 2) /\ line # Good_Bye
               /\ CommandNew(line).name # NULL
               /\ <<CommandNew(line).name>> \o CommandNew(line).params = Words(line)
    <3>1. GoodStyle(line)
      BY <2>1, <2>3, <2>5, Zenon DEF Proper
    <3>2. /\ Parsed(line) /\ Len(line) >= 2
          /\ CommandNew(line).name # NULL
          /\ <<CommandNew(line).name>> \o CommandNew(line).params = Words(line)
      BY ONLY <2>3, <3>1, WordsComeThrough
    <3>3. line # Good_Bye
      BY <2>1, <2>3 DEF Said
    <3>4. ~(Len(line) < 2)
      <4>1. Len(line) \in Nat /\ Len(line) >= 2
        BY <2>3, <3>2 DEF Texts
      <4> QED
        BY <4>1
    <3> QED
      BY <3>2, <3>3, <3>4
  <2>6. Meaning(r) = Words(line)
    BY <2>1, <2>3 DEF Meaning
  <2> QED
    BY <2>3, <2>4, <2>5, <2>6, Zenon
<1> QED
  BY <1>1, <1>2, <1>3 DEF Requests

-----------------------------------------------------------------------------
(* What is read in pieces *)

(* The pieces of a text make the text. *)
LEMMA PiecesJoin ==
  ASSUME NEW S, NEW s \in Seq(S), NEW n \in Nat \ {0}
  PROVE  /\ Upto(n, s) \in Seq(S) /\ After(n, s) \in Seq(S)
         /\ Upto(n, s) \o After(n, s) = s
         /\ Len(Upto(n, s)) = IF Len(s) <= n THEN Len(s) ELSE n
         /\ Len(s) <= n => After(n, s) = <<>>
         /\ Len(s) > n => After(n, s) # <<>>
<1>1. Len(s) \in Nat /\ \A i \in 1..Len(s) : s[i] \in S
  BY LenProperties, ElementOfSeq
<1>2. CASE Len(s) <= n
  <2>1. Upto(n, s) = s
    BY <1>2 DEF Upto
  <2>2. n + 1 \in Int /\ Len(s) \in Int /\ Len(s) < n + 1
    BY <1>1, <1>2
  <2>3. After(n, s) = <<>>
    BY <2>2, SubSeqEmpty DEF After
  <2>4. s \o <<>> = s /\ <<>> \in Seq(S)
    BY ConcatEmptySeq
  <2> QED
    BY <1>1, <1>2, <2>1, <2>3, <2>4
<1>3. CASE ~(Len(s) <= n)
  <2>1. Upto(n, s) = SubSeq(s, 1, n) /\ After(n, s) = SubSeq(s, n + 1, Len(s))
    BY <1>3 DEF Upto, After
  <2>2. /\ 1 \in 1..(Len(s) + 1) /\ n \in 0..Len(s) /\ n \in (1 - 1)..Len(s)
        /\ Len(s) \in n..Len(s) /\ n < Len(s) /\ 1 <= n
    BY <1>1, <1>3
  <2>3. SubSeq(s, 1, n) \o SubSeq(s, n + 1, Len(s)) = SubSeq(s, 1, Len(s))
    BY <2>2, ConcatAdjacentSubSeq
  <2>4. SubSeq(s, 1, Len(s)) = s
    BY SubSeqFull
  <2>5. \A i \in 1..n : s[i] \in S
    BY <1>1, <2>2
  <2>6. \A i \in (n + 1)..Len(s) : s[i] \in S
    BY <1>1, <2>2
  <2>7. SubSeq(s, 1, n) \in Seq(S) /\ Len(SubSeq(s, 1, n)) = n
    <3>1. 1 \in Int /\ n \in Int /\ n - 1 + 1 = n
      OBVIOUS
    <3>2. Len(SubSeq(s, 1, n)) = IF 1 <= n THEN n - 1 + 1 ELSE 0
      BY ONLY <2>5, <3>1, SubSeqProperties
    <3> QED
      BY <2>2, <2>5, <3>1, <3>2, SubSeqProperties
  <2>8. SubSeq(s, n + 1, Len(s)) \in Seq(S) /\ Len(SubSeq(s, n + 1, Len(s))) = Len(s) - n
    <3>1. n + 1 \in Int /\ Len(s) \in Int /\ n + 1 <= Len(s) /\ Len(s) - (n + 1) + 1 = Len(s) - n
      BY <1>1, <2>2
    <3> QED
      BY <2>6, <3>1, SubSeqProperties
  <2>9. SubSeq(s, n + 1, Len(s)) # <<>>
    <3>1. Len(SubSeq(s, n + 1, Len(s))) # 0
      BY <1>1, <2>2, <2>8
    <3>2. Len(<<>>) = 0
      OBVIOUS
    <3> QED
      BY <3>1, <3>2, Zenon
  <2> QED
    BY <1>3, <2>1, <2>3, <2>4, <2>7, <2>8, <2>9
<1> QED
  BY <1>2, <1>3

(* Nothing that is printed is lost, so what shows grows. *)
LEMMA Reveals ==
  ASSUME NEW s \in Seq(Nat), NEW c \in Seq(Nat), c # <<>>
  PROVE  IsStrictPrefix(s, s \o c)
<1> DEFINE t == s \o c
<1>1. /\ Len(s) \in Nat /\ Len(c) \in Nat /\ Len(c) # 0
      /\ t \in Seq(Nat) /\ Len(t) = Len(s) + Len(c)
      /\ \A i \in 1..Len(s) : i <= Len(s) /\ t[i] = s[i] /\ s[i] \in Nat
  BY LenProperties, EmptySeq, ConcatProperties, ElementOfSeq
<1> HIDE DEF t
<1>2. SubSeq(s, 1, Len(s)) = s
  BY SubSeqFull
<1>3. PICK n : n = Len(s)
  OBVIOUS
<1>4. n \in Nat /\ n \in Int /\ 1 \in Int /\ (\A i \in 1..n : t[i] \in Nat) /\ n - 1 + 1 = n
  BY <1>1, <1>3
<1>5. /\ SubSeq(t, 1, n) \in Seq(Nat)
      /\ Len(SubSeq(t, 1, n)) = IF 1 <= n THEN n - 1 + 1 ELSE 0
      /\ \A i \in 1..(n - 1 + 1) : SubSeq(t, 1, n)[i] = t[1 + i - 1]
  BY ONLY <1>4, SubSeqProperties
<1>6. Len(SubSeq(t, 1, n)) = n /\ \A i \in 1..n : SubSeq(t, 1, n)[i] = t[i]
  BY <1>4, <1>5
<1>7. SubSeq(t, 1, n) = s
  <2>1. Len(SubSeq(t, 1, n)) = Len(s)
    BY <1>3, <1>6
  <2>2. \A i \in 1..Len(SubSeq(t, 1, n)) : SubSeq(t, 1, n)[i] = s[i]
    BY <1>1, <1>3, <1>6
  <2> QED
    BY <1>5, <2>1, <2>2, SeqEqual
<1>8. Len(s) <= Len(t) /\ Len(s) # Len(t)
  BY <1>1
<1>9. s # t
  BY <1>8, Zenon
<1>10. IsStrictPrefix(s, t)
  BY <1>2, <1>3, <1>7, <1>8, <1>9 DEF IsStrictPrefix, IsPrefix
<1> QED
  BY <1>10 DEF t

(* A piece without a 0 is printed as a whole. *)
LEMMA Printed ==
  ASSUME NEW c \in Seq(Nat), \A i \in 1..Len(c) : c[i] # 0
  PROVE  Upto(Min({i \in DOMAIN c : c[i] = 0} \cup {Len(c) + 1}) - 1, c) = c
<1>1. Len(c) \in Nat /\ DOMAIN c = 1..Len(c)
  BY LenProperties
<1>2. {i \in DOMAIN c : c[i] = 0} = {}
  BY <1>1
<1>3. PICK m : m = Len(c) + 1
  OBVIOUS
<1>4. {i \in DOMAIN c : c[i] = 0} \cup {Len(c) + 1} = {m}
  BY <1>2, <1>3
<1>5. Min({m}) = m
  <2>1. m \in {m} /\ \A y \in {m} : m <= y
    BY <1>1, <1>3
  <2>2. Min({m}) \in {m}
    BY <2>1 DEF Min
  <2> QED
    BY <2>2
<1>6. Min({i \in DOMAIN c : c[i] = 0} \cup {Len(c) + 1}) = m
  BY <1>4, <1>5
<1>7. Len(c) <= m - 1
  BY <1>1, <1>3
<1> QED
  BY <1>6, <1>7 DEF Upto

(* What is left over of a text that is read in pieces. *)
LEMMA Remainder ==
  ASSUME NEW b \in Nat, b >= 2, NEW k \in Nat, NEW m \in 1..b
  PROVE  (k * b + m) % b = IF m = b THEN 0 ELSE m
<1>1. \A a \in Nat : \A j \in Nat : \A r \in 0..(b - 1) : a = j * b + r => a % b = r
  <2> SUFFICES ASSUME NEW a \in Nat, NEW j \in Nat, NEW r \in 0..(b - 1), a = j * b + r
               PROVE  a % b = r
    OBVIOUS
  <2>1. PICK q, s : q = a \div b /\ s = a % b
    OBVIOUS
  <2>2. q \in Nat /\ s \in 0..(b - 1) /\ a = b * q + s
    BY <2>1
  <2>3. PICK d \in Int : d = j - q
    BY <2>2
  <2>4. b * d = s - r
    BY <2>2, <2>3
  <2>5. CASE d >= 1
    <3>1. b * d >= b
      BY <2>5
    <3> QED
      BY <2>2, <2>4, <3>1
  <2>6. CASE d <= -1
    <3>1. b * d <= -b
      BY <2>6
    <3> QED
      BY <2>2, <2>4, <3>1
  <2>7. CASE d = 0
    BY <2>1, <2>2, <2>4, <2>7
  <2> QED
    BY <2>5, <2>6, <2>7
<1>2. CASE m = b
  <2>1. k * b + m = (k + 1) * b + 0 /\ k + 1 \in Nat /\ k * b + m \in Nat /\ 0 \in 0..(b - 1)
    BY <1>2
  <2> QED
    BY <1>1, <1>2, <2>1
<1>3. CASE m # b
  <2>1. m \in 0..(b - 1) /\ k * b + m \in Nat
    BY <1>3
  <2> QED
    BY <1>1, <1>3, <2>1
<1> QED
  BY <1>2, <1>3

(* Which answers are messages of a single 0, and which have no character.  *)
LEMMA MessageShape ==
  ASSUME NEW a \in Answers
  PROVE  /\ Message(a) \in Seq(Nat)
         /\ a = NULL => Message(a) = <<0>>
         /\ a # NULL => /\ a \in Nat /\ Message(a) = [i \in 1..a |-> i]
                        /\ Len(Message(a)) = a /\ \A i \in 1..a : Message(a)[i] = i
         /\ Len(Message(a)) = 0 => a = 0
<1>1. a \in Nat \/ a = NULL
  BY DialogueAssumption
<1>2. CASE a = NULL
  <2>1. Message(a) = <<0>> /\ Len(<<0>>) = 1
    BY <1>2 DEF Message
  <2> QED
    BY <1>2, <2>1, MessageType
<1>3. CASE a # NULL
  <2>1. a \in Nat /\ Message(a) = [i \in 1..a |-> i]
    BY <1>1, <1>3 DEF Message
  <2>2. Len(Message(a)) = a /\ \A i \in 1..a : Message(a)[i] = i
    BY <2>1
  <2> QED
    BY <1>3, <2>1, <2>2, MessageType
<1> QED
  BY <1>2, <1>3

(* All that was sent is printed, and it leaves no single character. *)
LEMMA ReadAll ==
  ASSUME NEW a \in Answers, Len(Message(a)) % BufSize # 1
  PROVE  Shows(a, Message(a))
<1>1. CASE a = NULL
  <2>1. Len(Message(a)) = 1
    BY <1>1, MessageShape
  <2>2. 1 % BufSize = 1
    <3>1. BufSize \in Nat /\ BufSize >= 2 /\ 1 \in 1..BufSize /\ 0 \in Nat
      BY LineAssumption
    <3>2. (0 * BufSize + 1) % BufSize = 1
      BY <3>1, Remainder
    <3> QED
      BY <3>1, <3>2
  <2> QED
    BY <2>1, <2>2
<1>2. CASE a # NULL
  BY <1>2, MessageShape DEF Shows
<1> QED
  BY <1>1, <1>2

(* A round of bitu_shell_recv that reads c of an answer and leaves r, after *)
(* k full ones that printed s: a single character is the last of the       *)
(* answer, and otherwise the piece is printed whole.                       *)
Round(a, s, k, c, r) ==
  /\ Len(c) = 1 => Shows(a, s)
  /\ Len(c) # 1 =>
       /\ c \in Seq(Nat) /\ c # <<>> /\ \A i \in 1..Len(c) : c[i] # 0
       /\ r \in Seq(Nat) /\ s \o c \in Seq(Nat)
       /\ (s \o c) \o r = Message(a)
       /\ r = <<>> => Len(s \o c) % BufSize # 1
       /\ r # <<>> => Len(s \o c) = (k + 1) * BufSize

LEMMA ReadPiece ==
  ASSUME NEW a \in Answers, NEW s \in Seq(Nat), NEW t \in Seq(Nat), t # <<>>,
         s \o t = Message(a), NEW k \in Nat, Len(s) = k * BufSize,
         NEW c, c = Upto(BufSize, t), NEW r, r = After(BufSize, t)
  PROVE  Round(a, s, k, c, r)
<1>0. BufSize \in Nat \ {0} /\ BufSize \in Nat /\ BufSize >= 2
  BY LineAssumption
<1>1. /\ c \in Seq(Nat) /\ r \in Seq(Nat) /\ c \o r = t
      /\ Len(c) = IF Len(t) <= BufSize THEN Len(t) ELSE BufSize
      /\ Len(t) <= BufSize => r = <<>>
      /\ Len(t) > BufSize => r # <<>>
  BY <1>0, PiecesJoin
<1>2. /\ Len(s) \in Nat /\ Len(t) \in Nat /\ Len(t) # 0 /\ Len(c) \in Nat
      /\ Len(Message(a)) = Len(s) + Len(t)
      /\ \A i \in 1..Len(t) : Message(a)[Len(s) + i] = t[i]
  <2>1. Len(s) \in Nat /\ Len(t) \in Nat /\ Len(t) # 0 /\ Len(c) \in Nat
    BY <1>1, LenProperties, EmptySeq
  <2>2. /\ Len(s \o t) = Len(s) + Len(t)
        /\ \A i \in 1..(Len(s) + Len(t)) : (s \o t)[i] = IF i <= Len(s) THEN s[i] ELSE t[i - Len(s)]
    BY ConcatProperties
  <2>3. ASSUME NEW i \in 1..Len(t) PROVE (s \o t)[Len(s) + i] = t[i]
    <3>1. PICK l, j : l = Len(s) /\ j = l + i
      OBVIOUS
    <3>2. j \in 1..(l + Len(t)) /\ ~(j <= l) /\ j - l = i
      BY <2>1, <3>1
    <3>3. (s \o t)[j] = t[j - l]
      BY <2>2, <3>1, <3>2
    <3> QED
      BY <3>1, <3>2, <3>3
  <2> QED
    BY <2>1, <2>2, <2>3
<1>3. ASSUME Len(c) = 1 PROVE Shows(a, s)
  <2>1. Len(t) = 1
    <3>1. PICK m, n : m = Len(t) /\ n = Len(c)
      OBVIOUS
    <3>2. m \in Nat /\ n = 1 /\ n = IF m <= BufSize THEN m ELSE BufSize
      BY <1>1, <1>2, <1>3, <3>1
    <3>3. m = 1
      BY ONLY <1>0, <3>2
    <3> QED
      BY <3>1, <3>3
  <2>2. CASE a = NULL
    <3>1. Len(Message(a)) = 1
      BY <2>2, MessageShape
    <3>2. Len(s) = 0
      BY <1>2, <2>1, <3>1
    <3>3. s = <<>>
      BY <3>2, EmptySeq
    <3>4. 0 % BufSize # 1 /\ Len(<<>>) = 0
      BY <1>0
    <3> QED
      BY <2>2, <3>3, <3>4 DEF Shows
  <2>3. CASE a # NULL
    <3>1. Message(a) = [i \in 1..a |-> i] /\ Len(Message(a)) = a /\ a \in Nat
      BY <2>3, MessageShape
    <3>2. Len(Message(a)) % BufSize = 1
      <4>1. Len(Message(a)) = k * BufSize + 1 /\ 1 \in 1..BufSize /\ 1 # BufSize
        BY <1>0, <1>2, <2>1
      <4>2. (k * BufSize + 1) % BufSize = 1
        BY <1>0, <4>1, Remainder
      <4> QED
        BY <4>1, <4>2
    <3>3. Front(Message(a)) = s
      <4>1. PICK w : w = Message(a)
        OBVIOUS
      <4>2. PICK n : n = Len(s)
        OBVIOUS
      <4>3. n \in Nat /\ Len(w) - 1 = n /\ w = s \o t /\ w \in Seq(Nat)
        BY <1>2, <2>1, <4>1, <4>2, MessageShape
      <4>4. \A i \in 1..n : w[i] = s[i] /\ w[i] \in Nat
        <5>1. \A i \in 1..(Len(s) + Len(t)) : (s \o t)[i] = IF i <= Len(s) THEN s[i] ELSE t[i - Len(s)]
          BY ConcatProperties
        <5>2. \A i \in 1..n : i \in 1..(Len(s) + Len(t)) /\ i <= Len(s)
          BY <1>2, <4>2
        <5>3. \A i \in 1..Len(s) : s[i] \in Nat
          BY ElementOfSeq
        <5> QED
          BY <4>2, <4>3, <5>1, <5>2, <5>3
      <4>5. n \in Int /\ 1 \in Int /\ n - 1 + 1 = n /\ (\A i \in 1..n : w[i] \in Nat)
        BY <4>3, <4>4
      <4>6. /\ SubSeq(w, 1, n) \in Seq(Nat)
            /\ Len(SubSeq(w, 1, n)) = IF 1 <= n THEN n - 1 + 1 ELSE 0
            /\ \A i \in 1..(n - 1 + 1) : SubSeq(w, 1, n)[i] = w[1 + i - 1]
        BY ONLY <4>5, SubSeqProperties
      <4>7. Len(SubSeq(w, 1, n)) = n /\ \A i \in 1..n : SubSeq(w, 1, n)[i] = s[i]
        BY <4>3, <4>4, <4>5, <4>6
      <4>8. SubSeq(w, 1, n) = s
        <5>1. Len(SubSeq(w, 1, n)) = Len(s)
          BY <4>2, <4>7
        <5>2. \A i \in 1..Len(SubSeq(w, 1, n)) : SubSeq(w, 1, n)[i] = s[i]
          BY <4>2, <4>7
        <5> QED
          BY <4>6, <5>1, <5>2, SeqEqual
      <4> QED
        BY <4>1, <4>3, <4>8 DEF Front
    <3> QED
      BY <2>3, <3>1, <3>2, <3>3 DEF Shows
  <2> QED
    BY <2>2, <2>3
<1>4. ASSUME Len(c) # 1
      PROVE  /\ c # <<>> /\ \A i \in 1..Len(c) : c[i] # 0
             /\ s \o c \in Seq(Nat)
             /\ (s \o c) \o r = Message(a)
             /\ r = <<>> => Len(s \o c) % BufSize # 1
             /\ r # <<>> => Len(s \o c) = (k + 1) * BufSize
  <2>1. Len(c) \in 2..BufSize /\ Len(c) <= Len(t)
    BY <1>0, <1>1, <1>2, <1>4
  <2>2. c # <<>>
    <3>1. Len(<<>>) = 0 /\ Len(c) # 0
      BY <2>1
    <3> QED
      BY <3>1, Zenon
  <2>3. a # NULL
    <3>1. a = NULL => Len(Message(a)) = 1
      BY MessageShape
    <3> QED
      BY <1>2, <2>1, <3>1
  <2>4. ASSUME NEW i \in 1..Len(c) PROVE c[i] # 0
    <3>1. c[i] = t[i]
      <4>1. \A j \in 1..(Len(c) + Len(r)) : (c \o r)[j] = IF j <= Len(c) THEN c[j] ELSE r[j - Len(c)]
        BY <1>1, ConcatProperties
      <4>2. Len(r) \in Nat
        BY <1>1, LenProperties
      <4>3. i \in 1..(Len(c) + Len(r)) /\ i <= Len(c)
        BY <1>2, <4>2
      <4> QED
        BY <1>1, <4>1, <4>3
    <3>2. i \in 1..Len(t) /\ Len(s) + i \in 1..(Len(s) + Len(t)) /\ Len(s) + i # 0
      <4>1. PICK l, m, n : l = Len(s) /\ m = Len(t) /\ n = Len(c)
        OBVIOUS
      <4>2. l \in Nat /\ m \in Nat /\ n \in Nat /\ n <= m /\ i \in 1..n
        BY <1>2, <2>1, <4>1
      <4>3. i \in 1..m /\ l + i \in 1..(l + m) /\ l + i # 0
        BY ONLY <4>2
      <4> QED
        BY <4>1, <4>3
    <3>3. Message(a)[Len(s) + i] = t[i]
      BY <1>2, <3>2
    <3>4. Len(Message(a)) = a /\ \A j \in 1..a : Message(a)[j] = j
      BY <2>3, MessageShape
    <3>5. Message(a)[Len(s) + i] = Len(s) + i
      BY <1>2, <3>2, <3>4
    <3> QED
      BY <3>1, <3>2, <3>3, <3>5
  <2>5. s \o c \in Seq(Nat) /\ Len(s \o c) = k * BufSize + Len(c)
    BY <1>1, ConcatProperties
  <2>6. (s \o c) \o r = s \o (c \o r)
    <3>1. PICK x, y, z : x = s /\ y = c /\ z = r
      OBVIOUS
    <3>2. x \in Seq(Nat) /\ y \in Seq(Nat) /\ z \in Seq(Nat)
      BY <1>1, <3>1
    <3>3. (x \o y) \o z = x \o (y \o z)
      BY ONLY <3>2, ConcatAssociative, SMTT(60)
    <3> QED
      BY <3>1, <3>3
  <2>7. r = <<>> => Len(s \o c) % BufSize # 1
    <3>1. PICK m : m = Len(c)
      OBVIOUS
    <3>2. m \in 2..BufSize /\ m \in 1..BufSize
      BY <2>1, <3>1
    <3>3. (k * BufSize + m) % BufSize = IF m = BufSize THEN 0 ELSE m
      BY <1>0, <3>2, Remainder
    <3> QED
      BY <2>5, <3>1, <3>2, <3>3
  <2>8. r # <<>> => Len(s \o c) = (k + 1) * BufSize
    <3>1. r # <<>> => Len(c) = BufSize
      BY <1>1
    <3>2. k * BufSize + BufSize = (k + 1) * BufSize
      BY <1>0
    <3> QED
      BY <2>5, <3>1, <3>2
  <2> QED
    BY <1>1, <2>2, <2>4, <2>5, <2>6, <2>7, <2>8
<1> QED
  BY <1>1, <1>3, <1>4 DEF Round

-----------------------------------------------------------------------------
(* The exchange, as long as no send is cut short.  While bituctl waits,    *)
(* the one thing on its way is the line of its request, the command made   *)
(* of it, the answer, or what is left to print of the answer; or there is  *)
(* nothing any more, since the server has refused the line or the answer   *)
(* is empty.                                                               *)

Coming == Transit = 1 /\ command = NULL /\ shown = <<>> /\ str \o toServer = LineFor(request)
Queued == queue = <<CommandNew(LineFor(request))>> /\ command = NULL /\ shown = <<>>
Refused == HungUp /\ command = NULL /\ ~Proper(request)
Executed == /\ Unsent = 1 /\ command # NULL /\ shown = <<>>
            /\ answer \in Answers /\ message = Message(answer)
Answered == /\ Untaken = 1 /\ command # NULL
            /\ answer \in Answers /\ shown \o toShell = Message(answer)
            /\ toShell = <<>> => Len(shown) % BufSize # 1
            /\ toShell # <<>> => \E k \in Nat : Len(shown) = k * BufSize
Unanswered == Load = 0 /\ command # NULL /\ answer = 0 /\ shown = <<>>
Progress == Coming \/ Queued \/ Refused \/ Executed \/ Answered \/ Unanswered

Forgotten == request = NULL /\ command = NULL /\ answer = NULL /\ shown = <<>>

Letters == Chars \cup {"e", "x", "i", "t"}

InStep == /\ str \in Seq(Letters) /\ toServer \in Seq(Letters) /\ shown \in Seq(Nat)
          /\ cpc \in {"start", "prompt", "done"} => Forgotten
          /\ cpc = "done" => queue = <<>> /\ (Transit = 1 => str \o toServer = Good_Bye)
          /\ cpc \in {"recv", "poll"} => Said(request) /\ Progress

ExchangeInv == DialogueInv /\ (~cut => InStep)

(* No more than one thing is on its way, so the state of any one of them   *)
(* says how far the exchange has come.                                     *)
LEMMA OneThing ==
  ASSUME DialogueInv, ~cut
  PROVE  /\ Len(queue) \in Nat /\ Load = Transit + Len(queue) + Unsent + Untaken
         /\ Transit \in {0, 1} /\ Unsent \in {0, 1} /\ Untaken \in {0, 1}
         /\ Load \in 0..Waiting
         /\ HungUp /\ cpc # "done" => Load = 0
<1>1. Shapes /\ InTurn /\ Deserted
  BY DEF DialogueInv
<1>2. Extra = 0
  BY DEF Extra
<1> QED
  BY <1>1, <1>2, LoadParts DEF InTurn, Deserted

LEMMA AtRest ==
  ASSUME DialogueInv, ~cut, cpc \in {"start", "prompt"}
  PROVE  /\ toServer = <<>> /\ spc # "drain" /\ str = <<>> /\ toShell = <<>> /\ queue = <<>>
         /\ Transit = 0 /\ Unsent = 0
<1>1. Waiting = 0 /\ Shapes
  BY DEF Waiting, DialogueInv
<1>2. Transit = 0 /\ Len(queue) = 0 /\ Unsent = 0 /\ Untaken = 0
  BY <1>1, OneThing
<1>3. toServer = <<>> /\ spc # "drain" /\ toShell = <<>>
  BY <1>2 DEF Transit, Untaken
<1> QED
  BY <1>1, <1>2, <1>3, SequenceOps DEF Shapes

LEMMA Sorted ==
  ASSUME DialogueInv, ~cut, InStep, cpc \in {"recv", "poll"}
  PROVE  /\ Said(request)
         /\ Transit = 1 => Coming /\ queue = <<>> /\ Unsent = 0 /\ Untaken = 0 /\ ~HungUp
         /\ queue # <<>> => Queued /\ Transit = 0 /\ Unsent = 0 /\ Untaken = 0 /\ ~HungUp
         /\ Unsent = 1 => Executed /\ Transit = 0 /\ queue = <<>> /\ Untaken = 0 /\ ~HungUp
         /\ Untaken = 1 => Answered /\ Transit = 0 /\ queue = <<>> /\ Unsent = 0 /\ ~HungUp
         /\ Load = 0 => Refused \/ Unanswered
<1>1. Waiting = 1 /\ Shapes
  BY DEF Waiting, DialogueInv
<1>2. Len(queue) \in Nat /\ (Len(queue) = 0 <=> queue = <<>>)
  BY <1>1, SequenceOps DEF Shapes
<1>3. Queued => queue # <<>>
  <2>1. PICK x : x = CommandNew(LineFor(request))
    OBVIOUS
  <2>2. <<x>> # <<>>
    OBVIOUS
  <2> QED
    BY <2>1, <2>2 DEF Queued
<1>4. Refused => Load = 0
  BY OneThing DEF Refused
<1>5. Said(request) /\ Progress
  BY DEF InStep
<1>6. /\ Coming => Transit = 1
      /\ Executed => Unsent = 1
      /\ Answered => Untaken = 1
      /\ Unanswered => Load = 0
  BY DEF Coming, Executed, Answered, Unanswered
<1>7. PICK n : n = Len(queue)
  OBVIOUS
<1>8. /\ n \in Nat /\ Load = Transit + n + Unsent + Untaken
      /\ Transit \in {0, 1} /\ Unsent \in {0, 1} /\ Untaken \in {0, 1}
      /\ Load \in 0..1 /\ (HungUp => Load = 0) /\ (n = 0 <=> queue = <<>>)
  BY <1>1, <1>2, <1>7, OneThing
<1> QED
  BY <1>3, <1>4, <1>5, <1>6, <1>8 DEF Progress

LEMMA InitExchange == Init => ExchangeInv
<1> SUFFICES ASSUME Init PROVE ExchangeInv
  OBVIOUS
<1>1. <<>> \in Seq(Letters) /\ <<>> \in Seq(Nat)
  OBVIOUS
<1>2. InStep
  BY <1>1 DEF Init, InStep, Forgotten
<1> QED
  BY <1>2, InitInv DEF ExchangeInv

-----------------------------------------------------------------------------
(* The steps of bituctl *)

(* A line is sent. *)
LEMMA AskStep ==
  ASSUME DialogueInv, ~cut, InStep, cpc \in {"start", "prompt"},
         NEW by, NEW texts, NEW line, line \in Texts, line # <<>>, Ask(by, texts, line),
         Said([by |-> by, texts |-> texts]), LineFor([by |-> by, texts |-> texts]) = line
  PROVE  InStep'
<1>1. /\ request' = [by |-> by, texts |-> texts] /\ cpc' = "recv"
      /\ toServer' = toServer \o line
      /\ UNCHANGED <<command, answer, shown, reader, queue, consumer, crashed, toShell, cut>>
  BY DEF Ask
<1>2. toServer = <<>> /\ str = <<>>
  BY AtRest
<1>3. Forgotten /\ shown \in Seq(Nat)
  BY DEF InStep
<1>4. line \in Seq(Chars) /\ <<>> \o line = line
  BY ConcatEmptySeq DEF Texts
<1>5. line \in Seq(Letters)
  <2>1. \A i \in 1..Len(line) : line[i] \in Chars
    BY <1>4, ElementOfSeq
  <2>2. \A i \in 1..Len(line) : line[i] \in Letters
    BY <2>1 DEF Letters
  <2> QED
    BY <1>4, <2>2
<1>6. toServer' = line /\ str' = <<>> /\ str' \in Seq(Letters)
  BY <1>1, <1>2, <1>4 DEF reader
<1>7. Transit' = 1
  BY <1>6 DEF Transit
<1>8. LineFor(request') = line /\ Said(request')
  BY <1>1
<1>9. LineFor(request)' = line /\ Said(request)'
  BY <1>8 DEF LineFor, Said
<1>10. str' \o toServer' = LineFor(request)'
  BY <1>4, <1>6, <1>9
<1>11. command' = NULL /\ shown' = <<>> /\ shown' \in Seq(Nat)
  BY <1>1, <1>3 DEF Forgotten
<1>12. Coming'
  BY <1>7, <1>10, <1>11 DEF Coming
<1> QED
  BY <1>1, <1>5, <1>6, <1>9, <1>11, <1>12 DEF InStep, Progress

LEMMA UserInStep ==
  ASSUME DialogueInv, ~cut, InStep, User
  PROVE  InStep'
<1>1. CASE GiveArguments
  <2>1. PICK args \in ArgLists : Ask("args", args, LineOf(args))
    BY <1>1 DEF GiveArguments
  <2>2. PICK r : r = [by |-> "args", texts |-> args]
    OBVIOUS
  <2>3. r.by = "args" /\ r.texts = args /\ r.by # "line" /\ r \in Requests
    BY <2>2 DEF Requests
  <2>4. Said(r) /\ LineFor(r) = LineOf(args)
    BY <2>3 DEF Said, LineFor
  <2>5. args \in Seq(Texts) /\ args # <<>> /\ args[1] # <<>>
    BY DialogueAssumption DEF Texts
  <2>6. LineOf(args) \in Texts
    BY ONLY <2>5, LineType
  <2>7. LineOf(args) # <<>>
    BY ONLY <2>5, LineType
  <2>8. cpc \in {"start", "prompt"}
    BY <1>1 DEF GiveArguments
  <2>9. PICK line : line = LineOf(args)
    OBVIOUS
  <2>10. line \in Texts /\ line # <<>> /\ Ask("args", args, line) /\ LineFor(r) = line
    BY <2>1, <2>4, <2>6, <2>7, <2>9
  <2>11. Said([by |-> "args", texts |-> args]) /\ LineFor([by |-> "args", texts |-> args]) = line
    BY <2>2, <2>4, <2>10
  <2> QED
    BY <2>8, <2>10, <2>11, AskStep
<1>2. CASE StartShell
  <2>1. cpc = "start" /\ cpc' = "prompt" /\ UNCHANGED <<request, command, answer, shown, str, toServer>>
    BY <1>2 DEF StartShell, reader
  <2> QED
    BY <2>1 DEF InStep, Forgotten
<1>3. CASE Type
  <2>1. PICK line \in TypedLines : line # Good_Bye /\ Ask("line", <<line>>, line)
    BY <1>3, DialogueAssumption DEF Type
  <2>2. PICK r : r = [by |-> "line", texts |-> <<line>>]
    OBVIOUS
  <2>3. r.by = "line" /\ r.by # "args" /\ r.texts = <<line>> /\ r \in Requests
    BY <2>2 DEF Requests
  <2>4. r.texts[1] = line
    BY <2>3
  <2>5. Said(r) /\ LineFor(r) = line
    BY <2>1, <2>3, <2>4 DEF Said, LineFor
  <2>6. line \in Texts /\ line # <<>>
    BY DialogueAssumption DEF Texts
  <2>7. cpc \in {"start", "prompt"}
    BY <1>3 DEF Type
  <2>8. Said([by |-> "line", texts |-> <<line>>]) /\ LineFor([by |-> "line", texts |-> <<line>>]) = line
    BY <2>2, <2>5
  <2> QED
    BY <2>1, <2>6, <2>7, <2>8, AskStep
<1>4. CASE Exit \/ Leave
  <2>1. /\ cpc = "prompt" /\ cpc' = "done"
        /\ UNCHANGED <<request, command, answer, shown, str, spc, queue>>
    BY <1>4 DEF Exit, Leave, reader
  <2>2. /\ toServer = <<>> /\ str = <<>> /\ queue = <<>> /\ spc # "drain"
    BY <2>1, AtRest
  <2>3. Good_Bye \in Seq(Letters) /\ <<>> \in Seq(Letters) /\ <<>> \o Good_Bye = Good_Bye
    BY DEF Good_Bye, Letters
  <2>4. toServer' \in {<<>>, Good_Bye}
    BY <1>4, <2>2, <2>3 DEF Exit, Leave
  <2>5. toServer' \in Seq(Letters)
    BY <2>3, <2>4
  <2>6. Transit' = 1 => str' \o toServer' = Good_Bye
    BY <2>1, <2>2, <2>3, <2>4 DEF Transit
  <2> QED
    BY <2>1, <2>2, <2>5, <2>6 DEF InStep, Forgotten
<1> QED
  BY <1>1, <1>2, <1>3, <1>4 DEF User

LEMMA ReceiveInStep ==
  ASSUME DialogueInv, ~cut, InStep, Shell
  PROVE  InStep'
<1>0. cpc \in {"recv", "poll"} /\ UNCHANGED <<reader, toServer>> /\ shown \in Seq(Nat) /\ toShell \in Seq(Nat)
  BY DEF Shell, Receive, ReceiveEnd, InStep, DialogueInv, Shapes
<1>1. str' \in Seq(Letters) /\ toServer' \in Seq(Letters)
  BY <1>0 DEF InStep, reader
<1>2. ASSUME BackToPrompt PROVE InStep'
  <2>1. Forgotten' /\ cpc' = "prompt" /\ shown' \in Seq(Nat)
    BY <1>2 DEF BackToPrompt, Forgotten
  <2> QED
    BY <1>1, <2>1 DEF InStep
<1>3. CASE ReceiveEnd
  BY <1>2, <1>3 DEF ReceiveEnd
<1>4. CASE Receive
  <2> DEFINE c == Upto(BufSize, toShell)
  <2>1. CASE Len(c) = 1
    BY <1>2, <1>4, <2>1 DEF Receive
  <2>2. CASE Len(c) # 1
    <3>1. toShell # <<>> /\ Untaken = 1
      BY <1>4 DEF Receive, Untaken
    <3>2. Answered /\ Said(request)
      BY <1>0, <3>1, Sorted
    <3>3. PICK k \in Nat : Len(shown) = k * BufSize
      BY <3>1, <3>2 DEF Answered
    <3>4. answer \in Answers /\ shown \o toShell = Message(answer) /\ command # NULL
      BY <3>2 DEF Answered
    <3>5. /\ cpc' = "poll" /\ toShell' = After(BufSize, toShell)
          /\ UNCHANGED <<request, command, answer>>
          /\ shown' = shown \o Upto(Min({i \in DOMAIN c : c[i] = 0} \cup {Len(c) + 1}) - 1, c)
      BY <1>4, <2>2 DEF Receive
    <3>6. /\ c \in Seq(Nat) /\ (\A i \in 1..Len(c) : c[i] # 0)
          /\ shown \o c \in Seq(Nat)
          /\ (shown \o c) \o After(BufSize, toShell) = Message(answer)
          /\ After(BufSize, toShell) = <<>> => Len(shown \o c) % BufSize # 1
          /\ After(BufSize, toShell) # <<>> => Len(shown \o c) = (k + 1) * BufSize
      <4>1. PICK a, s, t, d, r : /\ a = answer /\ s = shown /\ t = toShell
                                 /\ d = Upto(BufSize, t) /\ r = After(BufSize, t)
        OBVIOUS
      <4>2. /\ a \in Answers /\ s \in Seq(Nat) /\ t \in Seq(Nat) /\ t # <<>>
            /\ s \o t = Message(a) /\ k \in Nat /\ Len(s) = k * BufSize
            /\ d = Upto(BufSize, t) /\ r = After(BufSize, t)
        BY <1>0, <3>1, <3>3, <3>4, <4>1
      <4>3. Round(a, s, k, d, r)
        BY ONLY <4>2, ReadPiece
      <4> QED
        BY <2>2, <4>1, <4>3, Zenon DEF Round
    <3> HIDE DEF c
    <3>7. shown' = shown \o c
      BY <3>5, <3>6, Printed
    <3>8. Untaken' = 1
      BY <3>5 DEF Untaken
    <3>9. k + 1 \in Nat
      OBVIOUS
    <3>10. Answered'
      BY <3>4, <3>5, <3>6, <3>7, <3>8, <3>9 DEF Answered
    <3>11. Said(request)'
      BY <3>2, <3>5 DEF Said
    <3> QED
      BY <1>1, <3>5, <3>6, <3>7, <3>10, <3>11 DEF InStep, Progress
  <2> QED
    BY <2>1, <2>2
<1> QED
  BY <1>3, <1>4 DEF Shell

-----------------------------------------------------------------------------
(* The steps of the server *)

LEMMA RecvInStep ==
  ASSUME DialogueInv, ~cut, InStep, Recv
  PROVE  InStep'
<1>1. /\ toServer # <<>> /\ spc' = "drain" /\ Transit = 1 /\ Transit' = 1
      /\ str' = str \o Upto(BufSize, toServer) /\ toServer' = After(BufSize, toServer)
      /\ UNCHANGED <<cpc, request, command, answer, shown, queue>>
  BY DEF Recv, Transit, shell
<1>2. str' \in Seq(Letters) /\ toServer' \in Seq(Letters) /\ str' \o toServer' = str \o toServer
  <2>1. PICK s, t, u, v : s = str /\ t = toServer /\ u = Upto(BufSize, t) /\ v = After(BufSize, t)
    OBVIOUS
  <2>2. s \in Seq(Letters) /\ t \in Seq(Letters) /\ BufSize \in Nat \ {0}
    BY <2>1, LineAssumption DEF InStep
  <2>3. u \in Seq(Letters) /\ v \in Seq(Letters) /\ u \o v = t
    BY <2>1, <2>2, PiecesJoin
  <2>4. (s \o u) \o v = s \o (u \o v)
    <3>1. s \in Seq(Letters) /\ u \in Seq(Letters) /\ v \in Seq(Letters)
      BY <2>2, <2>3
    <3> QED
      BY ONLY <3>1, ConcatAssociative, SMTT(60)
  <2>5. s \o u \in Seq(Letters)
    BY ONLY <2>2, <2>3, ConcatProperties
  <2> QED
    BY <1>1, <2>1, <2>3, <2>4, <2>5
<1>3. Shapes
  BY DEF DialogueInv
<1>4. CASE cpc \in {"start", "prompt"}
  BY <1>1, <1>4, AtRest
<1>5. CASE cpc = "done"
  <2>1. Forgotten /\ queue = <<>> /\ str \o toServer = Good_Bye /\ shown \in Seq(Nat)
    BY <1>1, <1>5 DEF InStep
  <2>2. Forgotten' /\ queue' = <<>> /\ str' \o toServer' = Good_Bye /\ shown' \in Seq(Nat) /\ cpc' = "done"
    BY <1>1, <1>2, <1>5, <2>1 DEF Forgotten
  <2> QED
    BY <1>2, <2>2 DEF InStep
<1>6. CASE cpc \in {"recv", "poll"}
  <2>1. Coming /\ Said(request) /\ shown \in Seq(Nat)
    BY <1>1, <1>6, Sorted DEF InStep
  <2>2. LineFor(request)' = LineFor(request) /\ Said(request)' /\ shown' \in Seq(Nat) /\ cpc' \in {"recv", "poll"}
    BY <1>1, <1>6, <2>1 DEF LineFor, Said
  <2>3. Coming'
    BY <1>1, <1>2, <2>1, <2>2 DEF Coming
  <2> QED
    BY <1>2, <2>2, <2>3 DEF InStep, Progress
<1> QED
  BY <1>3, <1>4, <1>5, <1>6 DEF Shapes

LEMMA EndOfTextInStep ==
  ASSUME DialogueInv, ~cut, InStep, EndOfText
  PROVE  InStep'
<1>1. /\ toServer = <<>> /\ toServer' = <<>> /\ str' = <<>> /\ spc' # "drain" /\ Transit' = 0
      /\ UNCHANGED <<cpc, request, command, answer, shown>>
      /\ spc = "drain" \/ (spc = "recv" /\ cpc = "done")
  BY DEF EndOfText, Transit, shell
<1>2. <<>> \in Seq(Letters) /\ str' \in Seq(Letters) /\ toServer' \in Seq(Letters)
  BY <1>1
<1>3. Shapes /\ shown' \in Seq(Nat)
  BY <1>1 DEF DialogueInv, InStep
<1>4. str \o <<>> = str
  BY ConcatEmptySeq DEF InStep
<1>5. CASE cpc \in {"start", "prompt"}
  BY <1>1, <1>5, AtRest
<1>6. CASE cpc = "done"
  <2>1. Forgotten /\ queue = <<>> /\ (spc = "drain" => str = Good_Bye)
    BY <1>1, <1>4, <1>6 DEF InStep, Transit
  <2>2. spc = "recv" => str = <<>>
    BY <1>3 DEF Shapes
  <2>3. Len(<<>>) < 2
    OBVIOUS
  <2>4. Len(str) < 2 \/ str = Good_Bye
    BY <1>1, <2>1, <2>2, <2>3
  <2>5. queue' = queue
    BY <2>4 DEF EndOfText
  <2>6. Forgotten' /\ queue' = <<>>
    BY <1>1, <2>1, <2>5 DEF Forgotten
  <2> QED
    BY <1>1, <1>2, <1>3, <1>6, <2>6 DEF InStep
<1>7. CASE cpc \in {"recv", "poll"}
  <2>1. Transit = 1
    BY <1>1, <1>7 DEF Transit
  <2>2. Coming /\ queue = <<>> /\ Said(request)
    BY <1>7, <2>1, Sorted
  <2>3. str = LineFor(request) /\ command = NULL /\ shown = <<>>
    BY <1>1, <1>4, <2>2 DEF Coming
  <2>4. /\ LineFor(request)' = LineFor(request) /\ Said(request)'
        /\ Proper(request)' = Proper(request)
        /\ command' = NULL /\ shown' = <<>> /\ cpc' \in {"recv", "poll"}
    BY <1>1, <1>7, <2>2, <2>3 DEF LineFor, Said, Proper
  <2>5. PICK r, line : r = request /\ line = LineFor(r)
    OBVIOUS
  <2>6. Proper(r) => Parsed(line) /\ ~(Len(line) < 2) /\ line # Good_Bye
    <3>1. Said(r)
      BY <2>2, <2>5
    <3>2. Proper(r) => Parsed(LineFor(r)) /\ ~(Len(LineFor(r)) < 2) /\ LineFor(r) # Good_Bye
      BY ONLY <3>1, SaidRight
    <3> QED
      BY <2>5, <3>2
  <2>7. CASE Len(str) < 2 \/ str = Good_Bye
    <3>1. HungUp'
      BY <2>7 DEF EndOfText, HungUp
    <3>2. ~Proper(request)'
      BY <2>3, <2>4, <2>5, <2>6, <2>7
    <3>3. Refused'
      BY <2>4, <3>1, <3>2 DEF Refused
    <3> QED
      BY <1>2, <1>3, <2>4, <3>3 DEF InStep, Progress
  <2>8. CASE ~(Len(str) < 2 \/ str = Good_Bye) /\ ~Parsed(str)
    <3>1. crashed'
      BY <2>8 DEF EndOfText
    <3>2. HungUp'
      BY <3>1 DEF HungUp
    <3>3. ~Proper(request)'
      BY <2>3, <2>4, <2>5, <2>6, <2>8
    <3>4. Refused'
      BY <2>4, <3>2, <3>3 DEF Refused
    <3> QED
      BY <1>2, <1>3, <2>4, <3>4 DEF InStep, Progress
  <2>9. CASE ~(Len(str) < 2 \/ str = Good_Bye) /\ Parsed(str)
    <3>1. queue' = Append(queue, CommandNew(str))
      BY <2>9 DEF EndOfText
    <3>2. PICK x : x = CommandNew(str)
      OBVIOUS
    <3>3. Append(<<>>, x) = <<x>>
      OBVIOUS
    <3>4. queue' = <<CommandNew(str)>>
      BY <2>2, <3>1, <3>2, <3>3
    <3>5. Queued'
      BY <2>3, <2>4, <3>4 DEF Queued
    <3> QED
      BY <1>2, <1>3, <2>4, <3>5 DEF InStep, Progress
  <2> QED
    BY <2>7, <2>8, <2>9
<1> QED
  BY <1>3, <1>5, <1>6, <1>7 DEF Shapes

(* What is executed is what was asked for. *)
LEMMA ExecuteRight ==
  ASSUME DialogueInv, ~cut, InStep, Execute
  PROVE  /\ cpc \in {"recv", "poll"} /\ Said(request) /\ command = NULL /\ shown = <<>>
         /\ Transit = 0 /\ Untaken = 0 /\ Len(queue) = 1 /\ Tail(queue) = <<>>
         /\ Head(queue).name = NULL => ~Proper(request)
         /\ Head(queue).name # NULL =>
              /\ command' # NULL
              /\ Proper(request) => command' = Meaning(request)
<1>1. queue # <<>>
  BY DEF Execute
<1>2. cpc \in {"recv", "poll"}
  <2>1. cpc \notin {"start", "prompt"}
    BY <1>1, AtRest
  <2>2. cpc # "done"
    BY <1>1 DEF InStep
  <2> QED
    BY <2>1, <2>2 DEF DialogueInv, Shapes
<1>3. Queued /\ Said(request) /\ Transit = 0 /\ Untaken = 0
  BY <1>1, <1>2, Sorted
<1>4. PICK r, line, x : r = request /\ line = LineFor(r) /\ x = CommandNew(line)
  OBVIOUS
<1>5. queue = <<x>>
  BY <1>3, <1>4 DEF Queued
<1>6. Head(<<x>>) = x /\ Tail(<<x>>) = <<>> /\ Len(<<x>>) = 1
  OBVIOUS
<1>7. Said(r)
  BY <1>3, <1>4
<1>8. /\ LineFor(r) \in Texts
      /\ Proper(r) => /\ CommandNew(LineFor(r)).name # NULL
                      /\ <<CommandNew(LineFor(r)).name>> \o CommandNew(LineFor(r)).params = Meaning(r)
  BY ONLY <1>7, SaidRight
<1>9. line \in Texts /\ (Proper(r) => x.name # NULL /\ <<x.name>> \o x.params = Meaning(r))
  BY <1>4, <1>8
<1>10. x.name # NULL => command' = <<x.name>> \o x.params
  BY <1>5, <1>6 DEF Execute
<1>11. x.name # NULL => <<x.name>> \o x.params # NULL
  <2> SUFFICES ASSUME x.name # NULL PROVE <<x.name>> \o x.params # NULL
    OBVIOUS
  <2>1. CommandNew(line).name # NULL
    BY <1>4
  <2>2. <<CommandNew(line).name>> \o CommandNew(line).params # NULL
    BY ONLY <1>9, <2>1, CommandType
  <2> QED
    BY <1>4, <2>2
<1> QED
  BY <1>2, <1>3, <1>4, <1>5, <1>6, <1>9, <1>10, <1>11 DEF Queued

LEMMA ExecuteInStep ==
  ASSUME DialogueInv, ~cut, InStep, Execute
  PROVE  InStep'
<1>1. /\ UNCHANGED <<cpc, request, shown, str, spc, toServer, toShell>>
      /\ queue' = Tail(queue) /\ kpc = "pop"
  BY DEF Execute, reader
<1>2. /\ cpc \in {"recv", "poll"} /\ Said(request) /\ command = NULL /\ shown = <<>>
      /\ Transit = 0 /\ Untaken = 0 /\ Tail(queue) = <<>>
      /\ Head(queue).name = NULL => ~Proper(request)
      /\ Head(queue).name # NULL => command' # NULL
  BY ExecuteRight
<1>3. /\ str' \in Seq(Letters) /\ toServer' \in Seq(Letters) /\ shown' \in Seq(Nat)
      /\ cpc' \in {"recv", "poll"} /\ shown' = <<>> /\ Said(request)'
  BY <1>1, <1>2 DEF InStep, Said
<1>4. CASE Head(queue).name = NULL
  <2>1. crashed' /\ command' = NULL
    BY <1>2, <1>4 DEF Execute
  <2>2. ~Proper(request)'
    BY <1>1, <1>2, <1>4 DEF Proper
  <2>3. HungUp'
    BY <2>1 DEF HungUp
  <2>4. Refused'
    BY <2>1, <2>2, <2>3 DEF Refused
  <2> QED
    BY <1>3, <2>4 DEF InStep, Progress
<1>5. CASE Head(queue).name # NULL
  <2>1. /\ answer' \in Answers /\ message' = Message(answer') /\ kpc' = "send" /\ sent' = 0
        /\ command' # NULL
    BY <1>2, <1>5 DEF Execute
  <2>2. PICK n, a : n = Len(message') /\ a = answer'
    OBVIOUS
  <2>3. n \in Nat /\ (n = 0 => a = 0)
    <3>1. a \in Answers /\ n = Len(Message(a))
      BY <2>1, <2>2
    <3>2. Message(a) \in Seq(Nat) /\ (Len(Message(a)) = 0 => a = 0)
      BY ONLY <3>1, MessageShape
    <3> QED
      BY <3>1, <3>2, LenProperties
  <2>4. CASE n = 0
    <3>1. Unsent' = 0
      BY <2>1, <2>2, <2>4 DEF Unsent
    <3>2. Transit' = 0 /\ Untaken' = 0
      BY <1>1, <1>2 DEF Transit, Untaken
    <3>3. Len(queue') = 0
      BY <1>1, <1>2
    <3>4. Load' = 0
      BY <3>1, <3>2, <3>3 DEF Load
    <3>5. Unanswered'
      BY <1>3, <2>1, <2>2, <2>3, <2>4, <3>4 DEF Unanswered
    <3> QED
      BY <1>3, <3>5 DEF InStep, Progress
  <2>5. CASE n # 0
    <3>1. Unsent' = 1
      BY <2>1, <2>2, <2>3, <2>5 DEF Unsent
    <3>2. Executed'
      BY <1>3, <2>1, <3>1 DEF Executed
    <3> QED
      BY <1>3, <3>2 DEF InStep, Progress
  <2> QED
    BY <2>4, <2>5
<1> QED
  BY <1>4, <1>5

LEMMA SendInStep ==
  ASSUME DialogueInv, ~cut, InStep, Send, ~cut'
  PROVE  InStep'
<1>1. Shapes
  BY DEF DialogueInv
<1>2. /\ UNCHANGED <<cpc, request, command, answer, shown, str, toServer, message>>
      /\ kpc = "send" /\ sent < Len(message) /\ cpc # "done" /\ Unsent = 1
  BY DEF Send, CanSend, Unsent, shell, reader
<1>3. cpc \in {"recv", "poll"}
  BY <1>1, <1>2, AtRest DEF Shapes
<1>4. Executed /\ Untaken = 0 /\ Said(request)
  BY <1>2, <1>3, Sorted
<1>5. PICK n \in 1..Len(message) :
        toShell' = toShell \o Upto(n, message) /\ cut' = (cut \/ n < Len(message))
  <2>1. Len(message) \in Nat /\ sent \in Nat /\ sent < Len(message)
    BY <1>1, <1>2 DEF Shapes
  <2> QED
    BY <2>1 DEF Send
<1>6. Len(message) \in Nat /\ n <= Len(message) /\ ~(n < Len(message)) /\ message \in Seq(Nat)
  <2>1. ~(n < Len(message))
    BY <1>5, Zenon
  <2> QED
    BY <1>1, <2>1 DEF Shapes
<1>7. Upto(n, message) = message
  BY <1>6 DEF Upto
<1>8. toShell = <<>>
  BY <1>4 DEF Untaken
<1>9. <<>> \o message = message
  BY <1>6, ConcatEmptySeq
<1>10. toShell' = message
  BY <1>5, <1>7, <1>8, <1>9
<1>11. message # <<>>
  <2>1. Len(message) # 0 /\ Len(<<>>) = 0
    BY <1>5, <1>6
  <2> QED
    BY <2>1, Zenon
<1>12. Untaken' = 1
  BY <1>10, <1>11 DEF Untaken
<1>13. shown' \o toShell' = Message(answer')
  BY <1>2, <1>4, <1>9, <1>10 DEF Executed
<1>14. \E k \in Nat : Len(shown') = k * BufSize
  <2>1. Len(<<>>) = 0 * BufSize /\ 0 \in Nat
    BY LineAssumption
  <2>2. shown' = <<>>
    BY <1>2, <1>4 DEF Executed
  <2> QED
    BY <2>1, <2>2
<1>15. Answered'
  BY <1>2, <1>4, <1>10, <1>11, <1>12, <1>13, <1>14 DEF Answered, Executed
<1>16. Said(request)' /\ cpc' \in {"recv", "poll"}
  BY <1>2, <1>3, <1>4 DEF Said
<1> QED
  BY <1>2, <1>15, <1>16 DEF InStep, Progress

LEMMA SendEndInStep ==
  ASSUME DialogueInv, ~cut, InStep, SendEnd
  PROVE  InStep'
<1>1. Shapes
  BY DEF DialogueInv
<1>2. /\ UNCHANGED <<cpc, request, command, answer, shown, spc, str, queue, crashed, toServer, toShell>>
      /\ kpc' = "pop" /\ ~CanSend /\ kpc = "send"
  BY DEF SendEnd, shell, reader
<1>3. /\ Transit' = Transit /\ Untaken' = Untaken /\ Unsent' = 0 /\ HungUp' = HungUp
      /\ LineFor(request)' = LineFor(request) /\ Said(request)' = Said(request)
      /\ Proper(request)' = Proper(request)
  BY <1>2 DEF Transit, Untaken, Unsent, HungUp, LineFor, Said, Proper
<1>4. CASE cpc \in {"start", "prompt", "done"}
  <2>1. Forgotten' /\ (cpc' = "done" => queue' = <<>> /\ (Transit' = 1 => str' \o toServer' = Good_Bye))
    BY <1>2, <1>3, <1>4 DEF InStep, Forgotten
  <2>2. cpc' \notin {"recv", "poll"}
    BY <1>2, <1>4
  <2> QED
    BY <1>2, <2>1, <2>2 DEF InStep
<1>5. CASE cpc \in {"recv", "poll"}
  <2>1. Progress /\ Said(request)
    BY <1>5 DEF InStep
  <2>2. ~Executed
    <3>1. ASSUME Executed PROVE FALSE
      <4>1. Unsent = 1
        BY <3>1 DEF Executed
      <4>2. sent < Len(message) /\ ~HungUp
        BY <1>5, <4>1, Sorted DEF Unsent
      <4> QED
        BY <1>2, <1>5, <4>2 DEF CanSend, HungUp
    <3> QED
      BY <3>1
  <2>3. Coming => Coming'
    BY <1>2, <1>3 DEF Coming
  <2>4. Queued => Queued'
    BY <1>2, <1>3 DEF Queued
  <2>5. Refused => Refused'
    BY <1>2, <1>3 DEF Refused
  <2>6. Answered => Answered'
    BY <1>2, <1>3 DEF Answered
  <2>7. Unanswered => Unanswered'
    <3>1. ASSUME Load = 0 PROVE Load' = 0
      <4>1. Transit = 0 /\ Untaken = 0 /\ Len(queue) = 0
        BY <3>1, OneThing
      <4> QED
        BY <1>2, <1>3, <4>1 DEF Load
    <3> QED
      BY <1>2, <3>1 DEF Unanswered
  <2>8. Progress'
    BY <2>1, <2>2, <2>3, <2>4, <2>5, <2>6, <2>7 DEF Progress
  <2> QED
    BY <1>2, <1>3, <1>5, <2>1, <2>8 DEF InStep
<1> QED
  BY <1>1, <1>4, <1>5 DEF Shapes

(* A send that was cut short is not forgotten. *)
LEMMA CutStays ==
  ASSUME [Next]_vars, cut
  PROVE  cut'
<1>1. CASE Send
  <2>1. PICK n : cut' = (cut \/ n < Len(message))
    BY <1>1 DEF Send
  <2> QED
    BY <2>1, Zenon
<1>2. CASE ~Send
  <2>1. cut' = cut
    BY <1>2 DEF Next, User, GiveArguments, StartShell, Type, Ask, Exit, Leave, Shell, Receive,
                ReceiveEnd, Recv, EndOfText, Execute, SendEnd, vars
  <2> QED
    BY <2>1
<1> QED
  BY <1>1, <1>2

LEMMA StepExchange == ExchangeInv /\ [Next]_vars => ExchangeInv'
<1> SUFFICES ASSUME ExchangeInv, [Next]_vars PROVE ExchangeInv'
  OBVIOUS
<1>1. DialogueInv /\ DialogueInv'
  BY StepInv DEF ExchangeInv
<1>2. ASSUME ~cut' PROVE InStep'
  <2>1. ~cut
    BY <1>2, CutStays
  <2>2. InStep
    BY <2>1 DEF ExchangeInv
  <2>3. CASE UNCHANGED vars
    BY <2>2, <2>3 DEF InStep, Forgotten, Progress, Coming, Queued, Refused, Executed, Answered, Unanswered,
                      Said, LineFor, Proper, HungUp, Load, Transit, Unsent, Untaken,
                      vars, shell, reader, consumer
  <2> QED
    BY <1>1, <1>2, <2>1, <2>2, <2>3, UserInStep, ReceiveInStep, RecvInStep, EndOfTextInStep,
       ExecuteInStep, SendInStep, SendEndInStep DEF Next
<1> QED
  BY <1>1, <1>2 DEF ExchangeInv

-----------------------------------------------------------------------------
(* The steps of the exchange *)

LEMMA EmptyShows == Shows(0, <<>>)
<1>1. [i \in 1..0 |-> i] = <<>>
  OBVIOUS
<1>2. Len(<<>>) = 0 /\ 0 % BufSize # 1
  BY LineAssumption
<1>3. (IF 0 = NULL THEN <<>> ELSE [i \in 1..0 |-> i]) = <<>>
  BY <1>1
<1> QED
  BY <1>2, <1>3, Zenon DEF Shows

LEMMA UserExchange ==
  ASSUME DialogueInv, ~cut, InStep, User
  PROVE  AtExchange!Next \/ UNCHANGED AtExchange!vars
<1>1. CASE GiveArguments \/ Type
  <2>1. PICK by, texts, line : Ask(by, texts, line)
    BY <1>1 DEF GiveArguments, Type
  <2>2. cpc \in {"start", "prompt"} /\ cpc' = "recv" /\ UNCHANGED <<command, answer, shown, cut>>
    BY <1>1, <2>1 DEF GiveArguments, Type, Ask
  <2>3. command' = NULL
    BY <2>2 DEF InStep, Forgotten
  <2>4. request' \in Requests
    <3>1. InStep'
      BY UserInStep
    <3> QED
      BY <2>2, <3>1 DEF InStep, Said
  <2>6. AtExchange!Ask
    BY <2>2, <2>3, <2>4 DEF AtExchange!Ask
  <2> QED
    BY <2>2, <2>6 DEF AtExchange!Next
<1>2. CASE StartShell
  <2>1. cpc = "start" /\ cpc' = "prompt" /\ UNCHANGED <<request, command, answer, shown, cut>>
    BY <1>2 DEF StartShell
  <2> QED
    BY <2>1 DEF AtExchange!vars
<1>3. CASE Exit \/ Leave
  <2>1. cpc = "prompt" /\ cpc' = "done" /\ UNCHANGED <<request, command, answer, shown, cut>>
    BY <1>3 DEF Exit, Leave
  <2>2. AtExchange!Leave
    BY <2>1 DEF AtExchange!Leave
  <2> QED
    BY <2>1, <2>2 DEF AtExchange!Next
<1> QED
  BY <1>1, <1>2, <1>3 DEF User

LEMMA ShellExchange ==
  ASSUME DialogueInv, ~cut, InStep, Shell
  PROVE  AtExchange!Next \/ UNCHANGED AtExchange!vars
<1>1. cpc \in {"recv", "poll"} /\ UNCHANGED cut /\ shown \in Seq(Nat) /\ toShell \in Seq(Nat)
  BY DEF Shell, Receive, ReceiveEnd, InStep, DialogueInv, Shapes
<1>2. ASSUME BackToPrompt, command # NULL, Shows(answer, shown) PROVE AtExchange!Done /\ UNCHANGED cut
  BY <1>1, <1>2 DEF BackToPrompt, AtExchange!Done, AtExchange!Forget
<1>3. CASE Receive
  <2> DEFINE c == Upto(BufSize, toShell)
  <2>1. toShell # <<>> /\ Untaken = 1
    BY <1>3 DEF Receive, Untaken
  <2>2. Answered
    BY <1>1, <2>1, Sorted
  <2>3. PICK k \in Nat : Len(shown) = k * BufSize
    BY <2>1, <2>2 DEF Answered
  <2>4. answer \in Answers /\ shown \o toShell = Message(answer) /\ command # NULL
    BY <2>2 DEF Answered
  <2>5. /\ Len(c) = 1 => Shows(answer, shown)
        /\ Len(c) # 1 => c \in Seq(Nat) /\ c # <<>> /\ \A i \in 1..Len(c) : c[i] # 0
    <3>1. PICK a, s, t, d, r : /\ a = answer /\ s = shown /\ t = toShell
                               /\ d = Upto(BufSize, t) /\ r = After(BufSize, t)
      OBVIOUS
    <3>2. /\ a \in Answers /\ s \in Seq(Nat) /\ t \in Seq(Nat) /\ t # <<>>
          /\ s \o t = Message(a) /\ k \in Nat /\ Len(s) = k * BufSize
          /\ d = Upto(BufSize, t) /\ r = After(BufSize, t)
      BY <1>1, <2>1, <2>3, <2>4, <3>1
    <3>3. Round(a, s, k, d, r)
      BY ONLY <3>2, ReadPiece
    <3> QED
      BY <3>1, <3>3, Zenon DEF Round
  <2>6. CASE Len(c) = 1
    <3>1. BackToPrompt
      BY <1>3, <2>6 DEF Receive
    <3> QED
      BY <1>2, <2>4, <2>5, <2>6, <3>1 DEF AtExchange!Next
  <2>7. CASE Len(c) # 1
    <3>1. /\ cpc' = "poll" /\ UNCHANGED <<request, command, answer>>
          /\ shown' = shown \o Upto(Min({i \in DOMAIN c : c[i] = 0} \cup {Len(c) + 1}) - 1, c)
      BY <1>3, <2>7 DEF Receive
    <3> HIDE DEF c
    <3>2. shown' = shown \o c
      BY <2>5, <2>7, <3>1, Printed
    <3>3. IsStrictPrefix(shown, shown')
      BY <1>1, <2>5, <2>7, <3>2, Reveals
    <3>4. AtExchange!Reveal
      <4>1. AtExchange!IsStrictPrefix(shown, shown')
        BY <3>3 DEF IsStrictPrefix, IsPrefix, AtExchange!IsStrictPrefix, AtExchange!IsPrefix
      <4> QED
        BY <1>1, <2>4, <3>1, <4>1 DEF AtExchange!Reveal
    <3> QED
      BY <1>1, <3>4 DEF AtExchange!Next
  <2> QED
    BY <2>6, <2>7
<1>4. CASE ReceiveEnd
  <2>1. BackToPrompt /\ toShell = <<>> /\ (cpc = "poll" \/ HungUp)
    BY <1>4 DEF ReceiveEnd
  <2>2. CASE cpc = "poll"
    <3>1. Answered
      BY <1>1, <2>2, Sorted DEF Untaken
    <3>2. shown \o <<>> = shown
      BY <1>1, ConcatEmptySeq
    <3>3. answer \in Answers /\ shown = Message(answer) /\ Len(shown) % BufSize # 1 /\ command # NULL
      BY <2>1, <3>1, <3>2 DEF Answered
    <3>4. Shows(answer, Message(answer))
      BY <3>3, ReadAll
    <3> QED
      BY <1>2, <2>1, <3>3, <3>4 DEF AtExchange!Next
  <2>3. CASE cpc # "poll"
    <3>1. Load = 0
      BY <1>1, <2>1, <2>3, OneThing
    <3>2. CASE Refused
      <4>1. AtExchange!Ignore
        BY <1>1, <2>1, <3>2 DEF Refused, BackToPrompt, AtExchange!Ignore, AtExchange!Forget
      <4> QED
        BY <1>1, <4>1 DEF AtExchange!Next
    <3>3. CASE Unanswered
      <4>1. answer = 0 /\ shown = <<>> /\ command # NULL
        BY <3>3 DEF Unanswered
      <4>2. Shows(0, <<>>)
        BY EmptyShows
      <4> QED
        BY <1>2, <2>1, <4>1, <4>2 DEF AtExchange!Next
    <3> QED
      BY <1>1, <3>1, <3>2, <3>3, Sorted
  <2> QED
    BY <2>2, <2>3
<1> QED
  BY <1>3, <1>4 DEF Shell

LEMMA WorkExchange ==
  ASSUME DialogueInv, ~cut, InStep, Recv \/ EndOfText \/ Execute \/ Send \/ SendEnd
  PROVE  AtExchange!Next \/ UNCHANGED AtExchange!vars
<1>1. CASE Recv \/ EndOfText \/ SendEnd
  <2>1. UNCHANGED <<cpc, request, command, answer, shown, cut>>
    BY <1>1 DEF Recv, EndOfText, SendEnd, shell
  <2> QED
    BY <2>1 DEF AtExchange!vars
<1>2. CASE Send
  <2>1. PICK n : cut' = (cut \/ n < Len(message))
    BY <1>2 DEF Send
  <2>2. UNCHANGED <<cpc, request, command, answer, shown>>
    BY <1>2 DEF Send, shell
  <2>3. CASE n < Len(message)
    <3>1. cut'
      BY <2>1, <2>3, Zenon
    <3> QED
      BY <3>1 DEF AtExchange!Next
  <2>4. CASE ~(n < Len(message))
    <3>1. cut' <=> cut
      BY <2>1, <2>4, Zenon
    <3>2. cut' = cut
      BY <2>1, <2>4, <3>1 DEF DialogueInv, Shapes
    <3> QED
      BY <2>2, <3>2 DEF AtExchange!vars
  <2> QED
    BY <2>3, <2>4
<1>3. CASE Execute
  <2>1. UNCHANGED <<cpc, request, shown, cut>>
    BY <1>3 DEF Execute
  <2>2. /\ cpc \in {"recv", "poll"} /\ command = NULL
        /\ Head(queue).name # NULL =>
             /\ command' # NULL
             /\ Proper(request) => command' = Meaning(request)
    BY <1>3, ExecuteRight
  <2>3. CASE Head(queue).name = NULL
    <3>1. UNCHANGED <<command, answer>>
      BY <1>3, <2>3 DEF Execute
    <3> QED
      BY <2>1, <3>1 DEF AtExchange!vars
  <2>4. CASE Head(queue).name # NULL
    <3>1. answer' \in Answers
      BY <1>3, <2>4 DEF Execute
    <3>2. AtExchange!Execute
      BY <2>1, <2>2, <2>4, <3>1 DEF AtExchange!Execute, Means
    <3> QED
      BY <2>1, <3>2 DEF AtExchange!Next
  <2> QED
    BY <2>3, <2>4
<1> QED
  BY <1>1, <1>2, <1>3

(* What is asked for in the right way is executed, with the parameters     *)
(* that were meant, and all of its answer is printed except a single       *)
(* character left for the last read, before the next line is taken; that   *)
(* holds for all texts, answers and sizes of buffers until a send is cut   *)
(* short (shell.c:37-128, 234-360, util.c:28-146, server.c:242-358).       *)
THEOREM DialogueRefinesExchange == Spec => IsExchange
<1>1. Init => AtExchange!Init
  BY DEF Init, AtExchange!Init
<1>2. ExchangeInv /\ [Next]_vars => [AtExchange!Next]_(AtExchange!vars)
  <2> SUFFICES ASSUME ExchangeInv, [Next]_vars
               PROVE  AtExchange!Next \/ UNCHANGED AtExchange!vars
    OBVIOUS
  <2>1. DialogueInv
    BY DEF ExchangeInv
  <2>2. CASE cut
    <3>1. cut'
      BY <2>2, CutStays
    <3> QED
      BY <3>1 DEF AtExchange!Next
  <2>3. CASE ~cut
    <3>1. InStep
      BY <2>3 DEF ExchangeInv
    <3>2. CASE UNCHANGED vars
      BY <3>2 DEF vars, shell, AtExchange!vars
    <3> QED
      BY <2>1, <2>3, <3>1, <3>2, UserExchange, ShellExchange, WorkExchange DEF Next
  <2> QED
    BY <2>2, <2>3
<1>3. ExchangeInv /\ [Next]_vars => ExchangeInv'
  BY StepExchange
<1>4. Init => ExchangeInv
  BY InitExchange
<1> QED
  BY <1>1, <1>2, <1>3, <1>4, PTL DEF Spec, IsExchange, AtExchange!Spec
=============================================================================
