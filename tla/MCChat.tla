-------------------------------- MODULE MCChat --------------------------------
(***************************************************************************)
(* Two bots and two users; names at the beginning of what they say.  The   *)
(* one variable is called like the bot b1.                                 *)
(***************************************************************************)
EXTENDS Chat

About(bots) == [b \in Bots |-> IF b \in bots THEN Fits ELSE 0]
Text(does, bots, name, value) ==
  [does |-> does, mentions |-> About(bots), name |-> name, value |-> value]

Words(bots) == Text("nothing", bots, NULL, NULL)
Help(bots) == Text("other", bots, NULL, NULL)

CONSTANTS b1, x
Get == Text("get", {b1}, x, NULL)      \* get b1
Set(value) == Text("set", {b1}, x, value)

MCKnown == {Help(Bots), Get, Set(NULL), Set(Get), Set(Words(Bots))}
MCSaid == {Words({b1}), Words(Bots), Help(Bots), Get, Set(NULL), Set(Words(Bots))}
MCWritten == {NULL, Words({}), Set(Get)}
MCReplies == {Words(Bots \ {b1})}
MCConfigured == {[b \in Bots |-> [n \in Names |-> IF b = b1 THEN v ELSE NULL]] : v \in {NULL, Get}}
=============================================================================
