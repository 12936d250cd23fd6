--------------------------------- MODULE Chat ---------------------------------
(***************************************************************************)
(* Several bots on IRC and XMPP: what transport-irc.c and transport-xmpp.c *)
(* do with the messages they hear, and the answers the consumer of each    *)
(* bot (app.c) sends.  Bots hear each other: on a channel an answer is a   *)
(* message like any other, and a private message on IRC is answered to the *)
(* address it was sent to, which is the bot's own.                         *)
(*                                                                         *)
(* Of a text this counts: what it does if a bot takes it for a command,    *)
(* with its parameters where an answer depends on them, and for every bot  *)
(* how often the text can be quoted until the bot's nick is cut off, 0 if  *)
(* it does not appear.  Servers deliver what is sent at once and in order  *)
(* to a connection, where it waits to be read.                             *)
(***************************************************************************)
EXTENDS Naturals, Sequences, FiniteSets

CONSTANTS Bots, Users,
          OnXmpp,   \* bots that have an XMPP transport; all have one for IRC
          Channel,  \* the channel all bots join
          Fits,     \* 4: a quotation puts 39 of at most 127 characters in front
          Names,    \* of variables
          Known,    \* texts that are commands
          Said,     \* what users say on IRC
          Written,  \* what they write by XMPP; NULL stands for no text
          Replies,  \* what commands other than set and get may answer
          Configured, \* what the configuration may have put into the variables
          Quota,    \* messages by users, all in all (bounds the model)
          Capacity, \* COMMAND_QUEUE_SIZE
          NULL

ASSUME ChatAssumption == /\ IsFiniteSet(Bots) /\ IsFiniteSet(Users)
                         /\ OnXmpp \subseteq Bots /\ Bots \cap Users = {}
                         /\ {Channel, NULL} \cap (Bots \cup Users) = {}
                         /\ Fits \in Nat /\ Quota \in Nat /\ Capacity \in Nat \ {0}

(* Texts that are no commands; the others set a variable (to NULL: the     *)
(* command is unset), get one, or have an answer of another kind.          *)
Unknown == [does : {"nothing"}, mentions : [Bots -> 0..Fits], name : {NULL}, value : {NULL}]
Texts == Known \cup Unknown

ASSUME TextAssumption ==
  /\ \A t \in Known : /\ t.does \in {"set", "get", "other"}
                      /\ t.mentions \in [Bots -> 0..Fits]
                      /\ t.does \in {"set", "get"} => t.name \in Names
                      /\ t.does = "set" => t.value \in Texts \cup {NULL}
  /\ Said \subseteq Texts /\ Written \subseteq Texts \cup {NULL}
  /\ Replies \subseteq Unknown
  /\ Configured \subseteq [Bots -> [Names -> Texts \cup {NULL}]]

VARIABLES
  named,   \* bots whose uri has a user: the others are called bitU, and listen
           \* for the name NULL
  irc,     \* irc[b]: "connecting", "in" (the channel), "lost"
  xmpp,    \* xmpp[b]: "connecting", "online", "off"
  ircbox,  \* ircbox[b]: messages the IRC session of b has not read
  xmppbox, \* likewise for its XMPP client
  queue,   \* queue[b]: commands [via, to, text, number], the oldest first
  environment, \* environment[b]: the variables of b, for both transports; NULL: unset
  gone,    \* users who have left XMPP
  asked,   \* asked[b][u]: messages with a text u has sent to b by XMPP
  got,     \* got[b][u]: answers of b to u
  said     \* messages users have sent

media == <<irc, xmpp>>
vars == <<named, media, ircbox, xmppbox, queue, environment, gone, asked, got,
          said>>

Init == /\ named \in SUBSET Bots
        /\ irc = [b \in Bots |-> "connecting"] /\ xmpp = [b \in Bots |-> IF b \in OnXmpp THEN "connecting" ELSE "off"]
        /\ ircbox = [b \in Bots |-> <<>>] /\ xmppbox = [b \in Bots |-> <<>>]
        /\ queue = [b \in Bots |-> <<>>]
        /\ environment \in Configured
        /\ gone = {} /\ said = 0
        /\ asked = [b \in Bots |-> [u \in Users |-> 0]]
        /\ got = [b \in Bots |-> [u \in Users |-> 0]]

-----------------------------------------------------------------------------
(* Plausible bugs. *)

NoHandlerWhole(text) ==   \* the answer is not cut off
  [does |-> "nothing", mentions |-> text.mentions, name |-> NULL, value |-> NULL]

QueueFirst(b, via, to, text, number) ==   \* the newest command first
  /\ Len(queue[b]) < Capacity
  /\ queue' = [queue EXCEPT ![b] =
                 <<[via |-> via, to |-> to, text |-> text, number |-> number]>> \o @]

QueueUnlimited(b, via, to, text, number) ==   \* does not wait for room
  queue' = [queue EXCEPT ![b] =
              Append(@, [via |-> via, to |-> to, text |-> text, number |-> number])]

-----------------------------------------------------------------------------
(* The servers *)

(* A message on the channel reaches all who are in but its sender; one to  *)
(* a nick reaches the bot called so.                                       *)
OnIrc(from, to, text) ==
  [b \in Bots |->
     IF \/ to = Channel /\ b # from /\ irc[b] = "in"
        \/ to = b /\ irc[b] # "lost"
       THEN Append(ircbox[b], [to |-> to, text |-> text])
       ELSE ircbox[b]]

(* A message to somebody who is not there comes back as an error, with its *)
(* text.                                                                   *)
Bounce(b, u, text) ==
  xmppbox' = [xmppbox EXCEPT ![b] = Append(@, [from |-> u, text |-> text, number |-> 0])]

-----------------------------------------------------------------------------
(* Users *)

SayOnIrc(to, text) == /\ said < Quota /\ said' = said + 1
                      /\ ircbox' = OnIrc(NULL, to, text)
                      /\ UNCHANGED <<named, media, xmppbox, queue, environment, gone, asked, got>>

(* A message without a text tells, for instance, that somebody is typing. *)
SayOnXmpp(u, b, text) ==
  /\ said < Quota /\ said' = said + 1
  /\ u \notin gone /\ xmpp[b] = "online"
  /\ asked' = IF text = NULL THEN asked ELSE [asked EXCEPT ![b][u] = @ + 1]
  /\ xmppbox' = [xmppbox EXCEPT ![b] =
                   Append(@, [from |-> u, text |-> text, number |-> asked'[b][u]])]
  /\ UNCHANGED <<named, media, ircbox, queue, environment, gone, got>>

Go(u) == /\ u \notin gone /\ gone' = gone \cup {u}
         /\ UNCHANGED <<named, media, ircbox, xmppbox, queue, environment, asked, got, said>>

-----------------------------------------------------------------------------
(* The threads of the two transports *)

(* _irc_event_connect joins the channel. *)
EventConnect(b) == /\ irc[b] = "connecting"
                   /\ irc' = [irc EXCEPT ![b] = "in"]
                   /\ UNCHANGED <<named, xmpp, ircbox, xmppbox, queue, environment, gone, asked, got,
                                  said>>

(* auth_cb sends the presence; auth_failed_cb disconnects. *)
Auth(b) == /\ xmpp[b] = "connecting"
           /\ \E answer \in {"online", "off"} : xmpp' = [xmpp EXCEPT ![b] = answer]
           /\ UNCHANGED <<named, irc, ircbox, xmppbox, queue, environment, gone, asked, got,
                          said>>

(* The connection breaks; what was not read is lost. *)
LoseIrc(b) == /\ irc' = [irc EXCEPT ![b] = "lost"] /\ irc[b] # "lost"
              /\ ircbox' = [ircbox EXCEPT ![b] = <<>>]
              /\ UNCHANGED <<named, xmpp, xmppbox, queue, environment, gone, asked, got,
                             said>>

LoseXmpp(b) == /\ xmpp' = [xmpp EXCEPT ![b] = "off"] /\ xmpp[b] = "online"
               /\ xmppbox' = [xmppbox EXCEPT ![b] = <<>>]
               /\ UNCHANGED <<named, irc, ircbox, queue, environment, gone, asked, got,
                              said>>

(* A new command is queued as soon as there is room for it. *)
QueueCommand(b, via, to, text, number) ==
  /\ Len(queue[b]) < Capacity
  /\ queue' = [queue EXCEPT ![b] =
                 Append(@, [via |-> via, to |-> to, text |-> text, number |-> number])]

(* _irc_event_notice, for messages of all kinds: is this message to me?    *)
(* The answer will go to where the message was sent to.                    *)
EventNotice(b) ==
  /\ irc[b] = "in" /\ ircbox[b] # <<>>
  /\ LET m == Head(ircbox[b])
     IN IF b \in named /\ m.text.mentions[b] > 0
          THEN QueueCommand(b, "irc", m.to, m.text, 0)
          ELSE UNCHANGED queue
  /\ ircbox' = [ircbox EXCEPT ![b] = Tail(@)]
  /\ UNCHANGED <<named, media, xmppbox, environment, gone, asked, got, said>>

(* message_received_cb, for errors as well. *)
MessageReceived(b) ==
  /\ xmpp[b] = "online" /\ xmppbox[b] # <<>>
  /\ LET m == Head(xmppbox[b])
     IN IF m.text # NULL
          THEN QueueCommand(b, "xmpp", m.from, m.text, m.number)
          ELSE UNCHANGED queue
  /\ xmppbox' = [xmppbox EXCEPT ![b] = Tail(@)]
  /\ UNCHANGED <<named, media, ircbox, environment, gone, asked, got, said>>

-----------------------------------------------------------------------------
(* The consumer *)

(* The answer to a command without a handler quotes it, in 127 characters. *)
NoHandler(text) ==
  [does |-> "nothing",
   mentions |-> [b \in Bots |-> IF text.mentions[b] = 0 THEN 0 ELSE text.mentions[b] - 1],
   name |-> NULL, value |-> NULL]

(* get answers whatever was stored, set and unset answer nothing.          *)
Answers(b, text) ==
  CASE text.does = "nothing" -> {NoHandler(text)}
    [] text.does = "get"     -> {environment[b][text.name]}
    [] text.does = "set"     -> {NULL}
    [] text.does = "other"   -> {NULL} \cup Replies

Store(b, text) ==
  environment' = IF text.does = "set"
                   THEN [environment EXCEPT ![b][text.name] = text.value]
                   ELSE environment

(* _irc_send: the library refuses a NULL message, and a lost connection.   *)
IrcSend(b, to, answer) ==
  /\ ircbox' = IF answer = NULL \/ irc[b] = "lost" THEN ircbox ELSE OnIrc(b, to, answer)
  /\ UNCHANGED <<xmppbox, got>>

(* _xmpp_send: a NULL message has no text. *)
XmppSend(b, to, answer) ==
  /\ IF xmpp[b] = "online"
       THEN IF to \in gone
              THEN Bounce(b, to, answer) /\ UNCHANGED got
              ELSE got' = [got EXCEPT ![b][to] = @ + 1] /\ UNCHANGED xmppbox
       ELSE UNCHANGED <<got, xmppbox>>
  /\ UNCHANGED ircbox

Execute(b) ==
  /\ queue[b] # <<>>
  /\ LET c == Head(queue[b])
     IN /\ \E answer \in Answers(b, c.text) :
             IF c.via = "irc" THEN IrcSend(b, c.to, answer) ELSE XmppSend(b, c.to, answer)
        /\ Store(b, c.text)
  /\ queue' = [queue EXCEPT ![b] = Tail(@)]
  /\ UNCHANGED <<named, media, gone, asked, said>>

-----------------------------------------------------------------------------
(* On XMPP nobody looks for names. *)
Say == \/ \E text \in Said, to \in Bots \cup {Channel} : SayOnIrc(to, text)
       \/ \E u \in Users, b \in Bots, text \in Written : SayOnXmpp(u, b, text)

Threads(b) == EventConnect(b) \/ Auth(b) \/ EventNotice(b) \/ MessageReceived(b)
Lose(b) == LoseIrc(b) \/ LoseXmpp(b)

Next == \/ Say \/ \E u \in Users : Go(u)
        \/ \E b \in Bots : Threads(b) \/ Lose(b) \/ Execute(b)

Spec == Init /\ [][Next]_vars

(* The sessions read what arrives, and the consumers run. *)
FairSpec == /\ Spec
            /\ \A b \in Bots : /\ WF_vars(EventConnect(b)) /\ WF_vars(Auth(b))
                               /\ WF_vars(EventNotice(b)) /\ WF_vars(MessageReceived(b))
                               /\ WF_vars(Execute(b))

-----------------------------------------------------------------------------
(* Type invariant, with the bound of the queues. *)
TypeOK == /\ irc \in [Bots -> {"connecting", "in", "lost"}]
          /\ xmpp \in [Bots -> {"connecting", "online", "off"}]
          /\ named \subseteq Bots /\ gone \subseteq Users /\ said \in 0..Quota
          /\ environment \in [Bots -> [Names -> Texts \cup {NULL}]]
          /\ \A b \in Bots : Len(queue[b]) <= Capacity

(* Commands and messages that wait for a bot, in the order in which it     *)
(* will answer them: each message of u with a text by its number, the      *)
(* others by 0.                                                            *)
Pending(commands, messages, u) ==
  [i \in 1..Len(commands) |->
     IF commands[i].via = "xmpp" /\ commands[i].to = u THEN commands[i].number ELSE 0]
  \o [i \in 1..Len(messages) |->
        IF messages[i].from = u /\ messages[i].text # NULL THEN messages[i].number ELSE 0]

(* The numbers after lo, up to hi, are in s once each and in order. *)
Ascending(s, lo, hi) ==
  /\ {s[i] : i \in 1..Len(s)} \ {0} = (lo + 1)..hi
  /\ \A i, j \in 1..Len(s) : i < j /\ s[i] # 0 /\ s[j] # 0 => s[i] < s[j]

(* Whoever else talks to the bot, and by whatever medium, somebody on XMPP *)
(* gets one answer to each message, in the order of the messages, as long  *)
(* as both ends are there (transport-xmpp.c:60-79, app.c:157-179).         *)
AnsweredInOrder ==
  \A b \in Bots, u \in Users : xmpp[b] = "online" /\ u \notin gone =>
    Ascending(Pending(queue[b], xmppbox[b], u), got[b][u], asked[b][u])

Quiet == \A b \in Bots : ircbox[b] = <<>> /\ xmppbox[b] = <<>> /\ queue[b] = <<>>

(* Some bot keeps, in a variable, a get that is about a bot. *)
Echoes == \E b \in Bots, x \in Names :
            LET text == environment[b][x]
            IN text # NULL /\ text.does = "get" /\ \E d \in Bots : text.mentions[d] > 0

(* Bots that quote each other, or a bot that quotes itself to itself, fall *)
(* silent when the users have said what they had to say: quotation by      *)
(* quotation the nicks are pushed out of the 127 characters of the answer  *)
(* (app.c:151, transport-irc.c:46-51).  Two things have no such end.  One  *)
(* is the bounces of messages to a user who has left XMPP.  The other is a *)
(* variable that holds the command to get it: told privately on IRC        *)
(*   set b1 "get b1"                                                       *)
(* and then "get b1", the bot b1 answers itself "get b1" again and again   *)
(* (app.c:279, transport-irc.c:79).  That goes on as long as such a        *)
(* variable is kept: when none is left, this ends as well.                 *)
DiesOut == <>[](Quiet \/ gone # {}) \/ []<>Echoes
=============================================================================
